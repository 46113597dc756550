-------------------------------- MODULE Plugin --------------------------------
(***************************************************************************)
(* The plugin as Herdr runs it: Herdr reports what happens in the session,  *)
(* and starts a process of the plugin for each report (herdr-plugin.toml,   *)
(* config.rs).  The processes are those of Runner, and the pass of the one  *)
(* that holds the lock is a pass of Reconciler, which renames tabs, which   *)
(* Herdr reports again.                                                     *)
(***************************************************************************)
EXTENDS Reconciler

CONSTANTS
  Proc, MaxPasses, \* see Runner
  FirstName,       \* the name of every tab at first
  LastPaneReports  \* what Herdr may report of a tab that goes with its last pane

ASSUME PluginAssumption ==
  /\ Proc \subseteq Nat \ {0} /\ MaxPasses \in Nat \ {0}
  /\ FirstName \in Names
  /\ Range(FirstOrder) \subseteq Range(FirstPlace)  \* no tab without a pane
  /\ LastPaneReports \subseteq {"pane.closed", "pane.exited"}

VARIABLES
  kind, proc, lock, markers, budget, stage, serving,  \* see Runner; proc is its pc
  running, outcome, asked, served, lost,
  events,   \* what Herdr has still to report, as the invocations it leads to
  work,     \* work[p]: the invocation of process p
  loaded,   \* loaded[p]: what is_owned_rename_event has loaded, or nothing
  reaction  \* history: how often the plugin has renamed each tab since the last change

R == INSTANCE Runner WITH pc <- proc, MayFail <- FALSE  \* failures: see Runner and Reconciler

processes == <<kind, proc, lock, markers, budget, stage, serving, running, outcome,
               asked, served, lost>>
plugin == <<work, loaded>>
pluginVars == <<processes, vars, events, plugin, reaction>>

Full == [op |-> "full"]
Nothing == <<>>

-----------------------------------------------------------------------------
(* Invocations and events *)

\* How Runner tells an invocation apart.
KindOf(i) ==
  CASE i.op \in {"shell", "tab"} -> "shell"
    [] i.op \in {"full", "workspace"} -> "full"
    [] OTHER                     -> i.op

\* What request_rerun makes of an invocation.
Deferred(i) == IF i.op \in {"closed_pane", "renamed"} THEN i ELSE Full

\* event_invocation, for the events that herdr-plugin.toml subscribes to.
TabEvent(t)        == [op |-> "workspace", ws |-> WorkspaceOf[t]]  \* created, moved
TabClosed(t)       == [op |-> "closed_tab", ws |-> WorkspaceOf[t]]
TabRenamed(t)      == [op |-> "renamed", tab |-> t]
PaneCreated(t)     == [op |-> "workspace", ws |-> WorkspaceOf[t]]
PaneMoved          == Full
PaneClosed(p)      == [op |-> "closed_pane", ws |-> WorkspaceOf[place[p]], pane |-> p]
PaneExited(p)      == [op |-> "tab", tab |-> place[p]]
ShellStarted(p)    == [op |-> "shell", pane |-> p]                  \* hook.bash, hook.zsh

Report(es) == events' = events \cup es

-----------------------------------------------------------------------------
(* The session and its reports *)

Change ==
  \/ \E t \in Tab :
       \/ \E l \in UserLabels : UserRename(t, l) /\ Report({TabRenamed(t)})
       \/ \E p \in Pane :
            \/ OpenTab(t, p) /\ Report({TabEvent(t), PaneCreated(t), ShellStarted(p)})
            \/ /\ PlacePane(p, t)
               /\ Report(IF place[p] = Unborn THEN {PaneCreated(t), ShellStarted(p)}
                         ELSE {PaneMoved})
       \/ CloseTab(t) /\ Report({TabClosed(t)})
  \/ \E p \in Pane, report \in {"pane.closed", "pane.exited"} :
       /\ report \in LastPaneReports \/ \E q \in Pane \ {p} : place[q] = place[p]
       /\ ClosePane(p)
       /\ Report({IF report = "pane.closed" THEN PaneClosed(p) ELSE PaneExited(p)})
  \/ \E i \in 1 .. Len(order) : MoveTab(i) /\ Report({TabEvent(order[i])})

ChangeSession ==
  /\ Change
  /\ reaction' = [t \in Tab |-> 0]
  /\ UNCHANGED <<processes, plugin>>

\* Herdr reports in any order, and starts a process for each report.
Deliver(p, i) ==
  /\ i \in events
  /\ events' = events \ {i}
  /\ kind' = [kind EXCEPT ![p] = KindOf(i)]
  /\ R!Recycle(p)
  /\ work' = [work EXCEPT ![p] = i]
  /\ UNCHANGED <<vars, loaded, reaction>>

-----------------------------------------------------------------------------
(* A process between its passes *)

\* The lock and the markers; run_pass begins with the invocation of the process or of
\* the marker it took.
Coordinate(p) ==
  /\ \/ R!Start(p) \/ R!AcquireExact(p) \/ R!AcquireTimeout(p) \/ R!TryAcquire(p)
     \/ R!RequestRerun(p) \/ R!RetryAcquire(p) \/ R!ClaimRequest(p)
     \/ R!TakeRerun(p) \/ R!Release(p)
     \/ R!Recheck(p) \/ R!Reacquire(p) \/ R!RetakeRerun(p)
     \/ R!WaitUntilClosed(p) /\ outcome' = outcome  \* Herdr reports after the fact
  /\ IF proc'[p] = "pass"
     THEN Begin(IF markers' = markers THEN work[p] ELSE Deferred(work[serving'[p]]))
     ELSE UNCHANGED vars
  /\ UNCHANGED <<events, plugin, reaction>>

\* is_owned_rename_event loads the state, without the lock ...
LoadState(p) ==
  /\ proc[p] = "owned" /\ loaded[p] = Nothing
  /\ loaded' = [loaded EXCEPT ![p] = <<disk.tabs[work[p].tab]>>]
  /\ UNCHANGED <<processes, vars, events, work, reaction>>

\* Mutant of OwnRename: an entry of the plugin's is enough.
OwnRenameAnyLabel(o, t) == t \notin Open \/ o.own \in {"pending", "owned"}

\* ... and then asks Herdr for the label.
OwnRename(o, t) ==
  \/ t \notin Open
  \/ o.own = "pending" /\ o.desired = label[t]
  \/ o.own = "owned" /\ o.shown = label[t]

CompareLabel(p) ==
  /\ loaded[p] # Nothing
  /\ R!OwnedRenameEvent(p)
  /\ outcome'[p] = IF OwnRename(loaded[p][1], work[p].tab) THEN "noop" ELSE "pending"
  /\ loaded' = [loaded EXCEPT ![p] = Nothing]
  /\ UNCHANGED <<vars, events, work, reaction>>

-----------------------------------------------------------------------------
(* A pass *)

\* Herdr reports the renames of the plugin like those of the user.
RenameTab ==
  /\ Rename
  /\ LET renamed == {t \in Open : label'[t] # label[t]}
     IN  /\ Report({TabRenamed(t) : t \in renamed})
         /\ reaction' = [t \in Tab |-> IF t \in renamed THEN reaction[t] + 1 ELSE reaction[t]]

PassStep(p) ==
  /\ proc[p] = "pass"
  /\ \/ /\ TakeSnapshot \/ SkipTab \/ PlanTab \/ GuardRead
        /\ UNCHANGED <<events, reaction>>
     \/ RenameTab
  /\ UNCHANGED <<processes, plugin>>

\* Mutant of EndPass: run_pass returns before its targets are done.
EndPassEarly(p) ==
  /\ R!Pass(p)
  /\ pc = "plan"
  /\ UNCHANGED <<vars, events, plugin, reaction>>

EndPass(p) ==
  /\ R!Pass(p)
  /\ Finish \/ IgnoreClosedPane
  /\ UNCHANGED <<events, plugin, reaction>>

Step(p) ==
  \/ Coordinate(p) \/ LoadState(p) \/ CompareLabel(p)
  \/ PassStep(p) \/ EndPass(p)

-----------------------------------------------------------------------------
\* A session in which every tab has been named and numbered.
Shown(t) == IF t \in Range(FirstOrder) THEN Numbered(Position(FirstOrder, t), FirstName)
            ELSE FreshLabel

PluginInit ==
  /\ order = FirstOrder
  /\ label = [t \in Tab |-> Shown(t)]
  /\ place = FirstPlace
  /\ gone = {}
  /\ env = [renames |-> MaxRenames, moves |-> MaxMoves]
  /\ disk = [suspended |-> FALSE,
             tabs  |-> [t \in Tab |-> IF t \in Range(FirstOrder)
                                     THEN Owned(FirstName, Shown(t)) ELSE Unowned],
             panes |-> [p \in Pane |-> IF place[p] = Unborn THEN NoTab ELSE place[p]]]
  /\ mem = EmptyState
  /\ pc = "idle"
  /\ conf = Idle /\ inv = Idle /\ as = Idle /\ plan = Idle /\ todo = <<>>
  /\ snap = [order |-> <<>>, label |-> [t \in Tab |-> <<>>]]
  /\ typed = [t \in Tab |-> NoName]
  /\ author = [t \in Tab |-> IF t \in Range(FirstOrder) THEN "plugin" ELSE "herdr"]
  /\ calm = NotCalm
  /\ kind = [p \in Proc |-> "full"]
  /\ proc = [p \in Proc |-> "done"]
  /\ lock = R!Free
  /\ markers = {}
  /\ budget = [p \in Proc |-> MaxPasses]
  /\ stage = [p \in Proc |-> "main"]
  /\ serving = [p \in Proc |-> R!Free]
  /\ running = kind
  /\ outcome = [p \in Proc |-> "ok"]
  /\ asked = {} /\ served = {} /\ lost = {}
  /\ events = {}
  /\ work = [p \in Proc |-> Full]
  /\ loaded = [p \in Proc |-> Nothing]
  /\ reaction = [t \in Tab |-> 0]

Quiet ==
  /\ \A p \in Proc : proc[p] = "done"
  /\ events = {}

\* Nothing is left to do: the only state in which nobody can take a step.
Finished == Quiet /\ UNCHANGED pluginVars

PluginNext ==
  \/ ChangeSession
  \/ \E p \in Proc : Step(p) \/ \E i \in events : Deliver(p, i)
  \/ Finished

PluginSpec == PluginInit /\ [][PluginNext]_pluginVars

-----------------------------------------------------------------------------
(* Properties *)

PluginTypeOK ==
  /\ \A i \in events : i \in Invocation
  /\ \A p \in Proc : /\ work[p] \in Invocation /\ kind[p] = KindOf(work[p])
                     /\ loaded[p] # Nothing => proc[p] = "owned"
                     /\ (proc[p] = "pass") <=> (pc # "idle" /\ lock = p)

(***************************************************************************)
(* The reports of Herdr are enough to keep the numbers right, without any   *)
(* full reconciliation asked for by hand: whenever all of them have been    *)
(* dealt with, each tab has the number of its position, or waits for a      *)
(* shell to be named.  A marker that nobody looks at any more is the only   *)
(* exception (see MarkerLeftOnlyByBudget of Runner).                        *)
(***************************************************************************)
HasItsNumber(t) ==
  LET l == label[t]
  IN  l # <<>> /\ l[1] = Num(Rank(t)) /\ Strip(l) = FromText(l)

EventsRenumber ==
  Quiet /\ markers = {} =>
    \A t \in Open :
      \/ HasItsNumber(t)
      \/ disk.tabs[t] = Unowned /\ IsPlaceholder(Strip(label[t]))

(***************************************************************************)
(* No rename of the user is taken for one of the plugin: when all reports   *)
(* have been dealt with, a tab whose name the user has fixed is the user's  *)
(* in the ownership state too.  (A name of digits is left out: a tab         *)
(* without an entry keeps waiting for a shell under it.)                    *)
(***************************************************************************)
UserRenameRegistered ==
  Quiet /\ markers = {} =>
    \A t \in Open :
      typed[t] # NoName /\ typed[t].during # "number" /\ author[t] = "user"
        => disk.tabs[t] = Manual

(***************************************************************************)
(* The plugin does not answer itself: the reports of its own renames make   *)
(* it rename nothing again.  After the last change of the user each tab is  *)
(* renamed twice at most, once by a pass that still goes by the positions   *)
(* before the change, and once by one that has seen it.  (This is so with   *)
(* one name; every shell may have another one for the tab.)                 *)
(***************************************************************************)
ReactionBounded == \A t \in Tab : reaction[t] <= 2
=============================================================================
