----------------------------- MODULE Observation -----------------------------
(***************************************************************************)
(* From the report of a shell to the name of the tab: the processes that    *)
(* ShellHook starts, on their way through the lock (runner.rs) to the       *)
(* foreground process (computed_name in tab_reconciliation.rs, Naming).     *)
(*                                                                         *)
(* One pane in one tab.  The processes run in the background, in any order, *)
(* while the shell goes on.  A structural pass may hold the lock at any     *)
(* time; it does not name the tab.                                          *)
(***************************************************************************)
EXTENDS ShellHook, Naming, Selection

CONSTANTS
  LoginShell, \* $SHELL, and what the hook says of itself with --shell
  ShellPid,   \* its process id
  Group,      \* Herdr's process_info of the pane, by what is in the foreground
  Agent,      \* the agent Herdr detects in the pane, NoName if none
  Hide,       \* hide_idle_shell
  Limit,      \* max_label_chars
  MaxFocus,   \* bound on the number of focus events
  MaxRunning  \* bound on the processes still running when another one starts

Settings == [shell |-> LoginShell, hide |-> Hide, limit |-> Limit]

\* The name of an idle shell.
IdleName == Idle(Settings, LoginShell)

\* The programs of a foreground group: its processes', and those that the command
\* line of its leader speaks of.
ProgramsOf(g) ==
  {Normalized(ProgramOf(g.procs[i])) : i \in DOMAIN g.procs}
    \cup IF Leader(g) = 0 THEN {} ELSE Arguments(g)

\* What a tab may be called while group j is in the foreground.
NamesOf(j) == {LabelOf(Settings, p) : p \in ProgramsOf(Group[j])}

\* An interactive shell is alone in its group, known as a shell, without an alias.
ShellAlone ==
  /\ \A j \in Job \cup {Shell} : Group[j].id = ShellPid <=> j = Shell
  /\ ProgramsOf(Group[Shell]) = {Normalized(LoginShell)}
  /\ Normalized(LoginShell) \in Shells \ DOMAIN Aliases

ASSUME ObservationAssumption ==
  /\ \A j \in Job \cup {Shell} : DOMAIN Group[j].procs \subseteq Nat \ {0}
  /\ ShellAlone
  /\ MaxFocus \in Nat /\ MaxRunning \in Nat

VARIABLES
  procs,      \* the processes, in the order they were started; see Process
  fresh,      \* history: the newest process has read the foreground, and it has
              \* not changed since
  structural, \* a structural pass holds reconcile.lock
  name,       \* the semantic name of the tab, NoName while it is a placeholder
  focuses     \* number of focus events

obsVars == <<procs, fresh, structural, name, focuses>>
vars    == <<shellVars, obsVars>>

FocusEvent == Event("focus", Sample)

Ended   == {"ok", "dropped", "failed"}

Holding == {"probing", "pass", "commit"}   \* the places that hold reconcile.lock
Where   == Ended \cup Holding \cup {"start", "settle", "wait"}

Names == {NoName} \cup UNION {NamesOf(j) : j \in Job \cup {Shell}}

\* event: what started it, at: where it is, plan: the name it has computed.
Process == [event : [kind : {"init", "precmd", "preexec", "focus"},
                     program : Program \cup {Shell, Sample}],
            at : Where, plan : Names]

Started(e) == [event |-> e, at |-> "start", plan |-> NoName]

IsEnded(p) == p.at \in Ended
LockFree   == ~structural /\ \A i \in DOMAIN procs : procs[i].at \notin Holding

ObservationTypeOK ==
  /\ ShellTypeOK
  /\ procs \in Seq(Process)
  /\ fresh \in BOOLEAN
  /\ structural \in BOOLEAN
  /\ name \in Names
  /\ focuses \in 0 .. MaxFocus
  /\ Cardinality({i \in DOMAIN procs : procs[i].at \in Holding})
       + (IF structural THEN 1 ELSE 0) <= 1

Init ==
  /\ ShellInit
  /\ procs = <<>>
  /\ fresh = FALSE
  /\ structural = FALSE
  /\ name = NoName
  /\ focuses = 0

\* The processes of new events start; those that have ended are forgotten.
Spawn(new) ==
  IF new = <<>>
  THEN UNCHANGED procs /\ fresh' = (fresh /\ fg' = fg)
  ELSE LET running == SelectAt(procs, {i \in DOMAIN procs : ~IsEnded(procs[i])})
       IN  /\ Len(running) <= MaxRunning
           /\ procs' = running \o [i \in DOMAIN new |-> Started(new[i])]
           /\ fresh' = FALSE

-----------------------------------------------------------------------------
(* What a process sees *)

\* What an event says of the only pane of the tab, and Herdr of its processes.
Observed(e) ==
  [kind     |-> CASE e.kind \in {"init", "precmd"}                -> "prompt"
                  [] e.kind = "preexec" /\ e.program = Sample     -> "sample"
                  [] OTHER                                        -> e.kind,
   program  |-> e.program,
   pane     |-> 1, own |-> {1}, labelled |-> {}, focused |-> 1, front |-> TRUE,
   shell    |-> LoginShell, shellPid |-> ShellPid, hide |-> Hide, limit |-> Limit,
   group    |-> Group[fg], agent |-> Agent[fg]]

\* Mutant of Computed: a program is named without looking for it.
ComputedUnverified(e) ==
  IF e.kind = "preexec" /\ e.program # Sample THEN LabelOf(Settings, e.program)
  ELSE NameOf(Observed(e))

\* computed_name.  Observations of one group need not agree: a report names the
\* program that was verified, a sample or a focus the one that represents the group.
Computed(e) == NameOf(Observed(e))

\* Only a claim, a prompt and a verified program name a tab for the first time.
Adopts(e) ==
  \/ name # NoName
  \/ e.kind \in {"init", "precmd"}
  \/ e.kind = "preexec" /\ e.program # Sample

-----------------------------------------------------------------------------
(* The steps of the process at place i *)

Become(i, l) == procs' = [procs EXCEPT ![i].at = l]

\* A preexec probes the lock, everything else waits for it.
Begin(i) ==
  /\ procs[i].at = "start"
  /\ \/ procs[i].event.kind # "preexec" /\ Become(i, "wait")
     \/ procs[i].event.kind = "preexec" /\ LockFree /\ Become(i, "probing")
     \/ procs[i].event.kind = "preexec" /\ ~LockFree /\ Become(i, "dropped")
  /\ UNCHANGED <<fresh, name>>

\* The probe is dropped at once.
DropProbe(i) ==
  /\ procs[i].at = "probing"
  /\ Become(i, "settle")
  /\ UNCHANGED <<fresh, name>>

\* settle_program or SAMPLE_DELAY is over, with or without the program there.
Settle(i) ==
  /\ procs[i].at = "settle"
  /\ Become(i, "wait")
  /\ UNCHANGED <<fresh, name>>

\* Mutant of Admission: acquire without a deadline.
AdmissionUnbounded(i) ==
  /\ procs[i].at = "wait"
  /\ LockFree
  /\ Become(i, "pass")
  /\ UNCHANGED <<fresh, name>>

\* Mutant of Admission: the lock is taken although somebody holds it.
AdmissionShared(i) ==
  /\ procs[i].at = "wait"
  /\ Become(i, "pass")
  /\ UNCHANGED <<fresh, name>>

\* acquire_with_timeout; the timeout of an observation is benign.
Admission(i) ==
  /\ procs[i].at = "wait"
  /\ \/ LockFree /\ Become(i, "pass")
     \/ ~LockFree /\ Become(i, "dropped")
  /\ UNCHANGED <<fresh, name>>

\* pane.process_info, and the decision of reconcile_tab.
Observe(i) ==
  /\ procs[i].at = "pass"
  /\ LET e == procs[i].event
     IN  procs' = [procs EXCEPT ![i].at = "commit",
                                ![i].plan = IF Adopts(e) THEN Computed(e) ELSE NoName]
  /\ fresh' = (fresh \/ i = Len(procs))
  /\ UNCHANGED name

\* The rename, if there is a name, and the end of the pass.
Commit(i) ==
  /\ procs[i].at = "commit"
  /\ name' = IF procs[i].plan = NoName THEN name ELSE procs[i].plan
  /\ procs' = [procs EXCEPT ![i].at = "ok",
                            ![i].plan = IF i = Len(procs) THEN @ ELSE NoName]
  /\ UNCHANGED fresh

\* An error or a kill, at the end before the rename or after it; also a process_info
\* that fails, which ends the pass without a name.
Abort(i) ==
  /\ ~IsEnded(procs[i])
  /\ procs' = [procs EXCEPT ![i].at = "failed", ![i].plan = NoName]
  /\ \/ UNCHANGED name
     \/ /\ procs[i].at = "commit"
        /\ procs[i].plan # NoName
        /\ name' = procs[i].plan
  /\ UNCHANGED fresh

Step(i) ==
  /\ Begin(i) \/ DropProbe(i) \/ Settle(i) \/ Admission(i) \/ Observe(i) \/ Commit(i)
  /\ UNCHANGED <<shellVars, structural, focuses>>

-----------------------------------------------------------------------------
(* The rest of the session *)

\* A structural event's process takes the lock for its passes, or drops it.
StructuralPass ==
  /\ structural \/ LockFree
  /\ structural' = ~structural
  /\ UNCHANGED <<shellVars, procs, fresh, name, focuses>>

\* The pane is focused.
Focus ==
  /\ focuses < MaxFocus
  /\ focuses' = focuses + 1
  /\ UNCHANGED <<shellVars, structural, name>>
  /\ Spawn(<<FocusEvent>>)

ClaimEnded == \A i \in DOMAIN procs : procs[i].event.kind = "init" => IsEnded(procs[i])

\* Mutant of ShellSteps: the claim runs in the background like everything else.
ShellStepsUnordered ==
  /\ ShellNext
  /\ Spawn(started')
  /\ UNCHANGED <<structural, name, focuses>>

\* A step of the shell, which waits for its claim to end.
ShellSteps ==
  /\ ShellNext
  /\ at # "claim" \/ ClaimEnded
  /\ Spawn(started')
  /\ UNCHANGED <<structural, name, focuses>>

AtPrompt == ShellIdle /\ UNCHANGED obsVars

Next ==
  \/ \E i \in DOMAIN procs :
       \/ Step(i)
       \/ Abort(i) /\ UNCHANGED <<shellVars, structural, focuses>>
  \/ StructuralPass
  \/ Focus
  \/ ShellSteps
  \/ AtPrompt

Spec == Init /\ [][Next]_vars

(***************************************************************************)
(* The operating system schedules a starting shell and its claim.  Nobody   *)
(* has to enter a line, focus a pane or take the lock, and one who has the  *)
(* lock may take it again whenever it is free.                              *)
(***************************************************************************)
StepOfClaim ==
  \E i \in DOMAIN procs : procs[i].event.kind = "init" /\ Step(i)

FairSpec ==
  /\ Spec
  /\ WF_vars(ShellSteps /\ at \in {"rc", "claim", "draw"})
  /\ WF_vars(StepOfClaim)

-----------------------------------------------------------------------------
(* Properties *)

(***************************************************************************)
(* No report overtakes the claim: the startup file waits for it, so that    *)
(* the tab is adopted with the shell's name before anything else names it.  *)
(***************************************************************************)
ClaimFirst ==
  (\E i \in DOMAIN procs : procs[i].event.kind \in {"precmd", "preexec"}) => ClaimEnded

(***************************************************************************)
(* No stale name stays once the newest process has named the tab: as long   *)
(* as what it saw is still in the foreground, the name is that of a program *)
(* there, however many older processes settle, wait and commit after it.    *)
(* (It need not be the name the newest gave: an older focus that commits    *)
(* later may put the representative of the group in place of the verified   *)
(* program.)                                                                *)
(***************************************************************************)
NameIsInFront ==
  procs # <<>> =>
    LET newest == Last(procs)
    IN  newest.at = "ok" /\ fresh /\ newest.plan # NoName => name \in NamesOf(fg)

(***************************************************************************)
(* A stale name at a prompt has two causes only: the observation of that    *)
(* prompt was dropped or it failed (README: "leaving a stale semantic name  *)
(* until the next shell or focus event refreshes it").                      *)
(***************************************************************************)
PromptNamed ==
  /\ at = "edit"
  /\ \E i \in DOMAIN Runs(entries) : Runs(entries)[i] \in Mine
  /\ \A i \in DOMAIN procs : IsEnded(procs[i])
  /\ Last(procs).event = PrecmdEvent
  /\ Last(procs).at = "ok"
  => name = IdleName

(***************************************************************************)
(* The claim is the one process an interactive shell waits for: whoever     *)
(* takes the lock how often, the first prompt comes.                        *)
(***************************************************************************)
ShellStarts == <>(at = "edit")
=============================================================================
