------------------------------- MODULE Naming -------------------------------
(***************************************************************************)
(* From what Herdr reports of a tab to a name: the choice of a pane         *)
(* (targeting.rs), of a process of its foreground group                     *)
(* (process_selection.rs) and of a label for it (naming.rs), as             *)
(* computed_name of tab_reconciliation.rs puts them together.               *)
(*                                                                         *)
(* A program is its normalized name.  Slash stands for a spelling that is   *)
(* not empty but normalizes to nothing, like a path that ends in "/".       *)
(***************************************************************************)
EXTENDS Naturals, Sequences, FiniteSets, SequencesExt

CONSTANTS
  Shells,    \* shells of the settings
  Ignored,   \* ignored_processes
  Aliases,   \* process_aliases, a function on the aliased programs
  Shortened  \* the texts a positive limit cuts, a function on <<limit, text>>

Empty == ""
Slash == "dir/"
NoName == "no name"
PaneLabel == "pane label"

ASSUME NamingAssumption ==
  /\ {Empty, Slash, NoName, PaneLabel} \cap (Shells \cup Ignored \cup DOMAIN Aliases) = {}
  /\ \A x \in DOMAIN Shortened : Shortened[x] \notin {Empty, NoName, PaneLabel}

Normalized(spelling) == IF spelling = Slash THEN Empty ELSE spelling
SameProgram(a, b) == Normalized(a) = Normalized(b)
IsShell(p)   == Normalized(p) \in Shells
IsIgnored(p) == Normalized(p) \in Ignored

-----------------------------------------------------------------------------
(* Labels: naming.rs.  o is an observation; its shell, its hide                *)
(* (hide_idle_shell) and its limit (max_label_chars) matter here.            *)

\* finish: no more characters than the limit, and none at all if it is zero.
Finish(text, limit) ==
  IF limit = 0 THEN Empty
  ELSE IF <<limit, text>> \in DOMAIN Shortened THEN Shortened[<<limit, text>>]
  ELSE text

\* Blank if hidden: "leave idle shell tabs with an empty base label".
Idle(o, shell) == IF o.hide THEN Empty ELSE Finish(Normalized(shell), o.limit)

\* Mutant of LabelOf: a program without a name is named all the same.
LabelOfAny(o, spelling) ==
  LET program == Normalized(spelling)
  IN  IF program \in DOMAIN Aliases THEN Finish(Aliases[program], o.limit)
      ELSE IF program \in Shells THEN Idle(o, program)
      ELSE IF program \in Ignored THEN Idle(o, o.shell)
      ELSE Finish(program, o.limit)

\* Mutant of LabelOf: ignored programs are like all others.
LabelOfIgnored(o, spelling) ==
  LET program == Normalized(spelling)
  IN  IF program = Empty THEN Idle(o, o.shell)
      ELSE IF program \in DOMAIN Aliases THEN Finish(Aliases[program], o.limit)
      ELSE IF program \in Shells THEN Idle(o, program)
      ELSE Finish(program, o.limit)

\* NamingPolicy::label of a process, and what the caller makes of None.
LabelOf(o, spelling) ==
  LET program == Normalized(spelling)
  IN  IF program = Empty THEN Idle(o, o.shell)
      ELSE IF program \in DOMAIN Aliases THEN Finish(Aliases[program], o.limit)
      ELSE IF program \in Shells THEN Idle(o, program)
      ELSE IF program \in Ignored THEN Idle(o, o.shell)
      ELSE Finish(program, o.limit)

-----------------------------------------------------------------------------
(* Processes: herdr.rs and process_selection.rs *)

\* argv0 is a sequence of at most one spelling, argv is empty if not reported: the
\* first that says something, of argv0 and, only if that is silent, argv[0].
ProgramOf(p) ==
  LET first == IF p.argv = <<>> THEN <<>> ELSE <<Head(p.argv)>>
      said  == SelectSeq(p.argv0 \o first, LAMBDA spelling : spelling # Empty)
  IN  IF said = <<>> THEN p.name ELSE Head(said)

\* The first of the places S in a list, 0 if there is none.
First(S) == IF S = {} THEN 0 ELSE Min(S)

\* The place in the list of a group's leader.
Leader(g) == First({i \in DOMAIN g.procs : g.procs[i].pid = g.id})

Arguments(g) == {Normalized(g.procs[Leader(g)].argv[i]) :
                   i \in 2 .. Len(g.procs[Leader(g)].argv)}

\* process_group_matches_program
GroupMatches(g, program) ==
  /\ Leader(g) # 0
  /\ \/ \E i \in DOMAIN g.procs : SameProgram(program, ProgramOf(g.procs[i]))
     \/ Normalized(program) \in Arguments(g)

\* What the passes of select_representative look for, one after the other.
IsPreferred(g, agent, i) ==
  /\ agent # NoName
  /\ SameProgram(agent, ProgramOf(g.procs[i]))
  /\ ~IsIgnored(ProgramOf(g.procs[i]))
IsLaunched(g, i) ==
  /\ g.procs[i].pid # g.id
  /\ Normalized(ProgramOf(g.procs[i])) \in Arguments(g)
  /\ ~IsIgnored(ProgramOf(g.procs[i]))
IsOrdinary(g, i) ==
  ~IsShell(ProgramOf(g.procs[i])) /\ ~IsIgnored(ProgramOf(g.procs[i]))

\* The searches, in the order select_representative makes them.
Searches(g, agent) ==
  LET all == DOMAIN g.procs
  IN  << First({i \in all : IsPreferred(g, agent, i)}),
         First({i \in all : IsLaunched(g, i)}),
         First({i \in all : i = Leader(g) /\ IsOrdinary(g, i)}),
         First({i \in all : i # Leader(g) /\ IsOrdinary(g, i)}),
         First({i \in all : i = Leader(g) /\ IsShell(ProgramOf(g.procs[i]))}) >>

\* Mutant of Representative: any ordinary process, the leader or not.
RepresentativeAny(g, agent) ==
  LET all   == DOMAIN g.procs
      found == [Searches(g, agent) EXCEPT ![3] = First({i \in all : IsOrdinary(g, i)})]
      hits  == {k \in DOMAIN found : found[k] # 0}
  IN  IF Leader(g) = 0 \/ hits = {} THEN 0 ELSE found[Min(hits)]

\* select_representative: a place in the list, 0 if nobody represents the group.
Representative(g, agent) ==
  LET found == Searches(g, agent)
      hits  == {k \in DOMAIN found : found[k] # 0}
  IN  IF Leader(g) = 0 \/ hits = {} THEN 0 ELSE found[Min(hits)]

-----------------------------------------------------------------------------
(* Panes: targeting.rs *)

(***************************************************************************)
(* An observation of a tab: kind "preexec", "prompt" (init, precmd),        *)
(* "sample" (a preexec without program), "focus" (with an event pane) or    *)
(* "other"; pane is the pane it names.  own are the tab's panes, labelled   *)
(* those of them with a label that is not blank, focused is the session's   *)
(* focused pane and front whether the tab has the focus.                    *)
(***************************************************************************)
NoPane == 0

Multi(o) == Cardinality(o.own) > 1

\* Mutant of NamingPane: the focused pane names the tab, wherever it is.
NamingPaneFocused(o) ==
  LET candidates == IF o.kind = "focus" THEN {o.pane}
                    ELSE IF Multi(o) THEN {o.focused} ELSE o.own
  IN  IF candidates = {} THEN NoPane ELSE CHOOSE p \in candidates : TRUE

\* naming_pane: the event's pane, the only pane, or the one with the focus.
NamingPane(o) ==
  LET candidates == o.own \cap (IF o.kind = "focus" THEN {o.pane}
                                ELSE IF ~Multi(o) THEN o.own
                                ELSE IF o.front THEN {o.focused} ELSE {})
  IN  IF candidates = {} THEN NoPane ELSE CHOOSE p \in candidates : TRUE

\* pane_targets_tab
FromOwnShell(o) == o.kind \in {"preexec", "prompt", "sample"} /\ o.pane \in o.own

\* selected_pane_id
SelectedPane(o) == IF FromOwnShell(o) THEN o.pane ELSE NamingPane(o)

NamedByPaneLabel(o) == Multi(o) /\ SelectedPane(o) \in o.labelled

\* The pane whose processes computed_name asks for.
ProcessPane(o) ==
  IF FromOwnShell(o) /\ o.kind # "sample" THEN o.pane ELSE NamingPane(o)

-----------------------------------------------------------------------------
(* computed_name of an observation whose process pane has the group g *)

\* The event's program, verified; its label says what the event says.
NameByProgram(o) ==
  IF /\ GroupMatches(o.group, o.program)
     /\ Representative(o.group, NoName) # 0 \/ IsIgnored(o.program)
  THEN LabelOf(o, o.program)
  ELSE NoName

NameByPrompt(o) == IF o.group.id = o.shellPid THEN Idle(o, o.shell) ELSE NoName

NameByProcess(o) ==
  LET r == Representative(o.group, o.agent)
  IN  IF r = 0 \/ (r # 0 /\ IsIgnored(ProgramOf(o.group.procs[r])))
      THEN NoName
      ELSE LabelOf(o, ProgramOf(o.group.procs[r]))

NameOf(o) ==
  IF NamedByPaneLabel(o) THEN PaneLabel
  ELSE IF ProcessPane(o) = NoPane THEN NoName
  ELSE CASE FromOwnShell(o) /\ o.kind = "preexec" -> NameByProgram(o)
         [] FromOwnShell(o) /\ o.kind = "prompt"  -> NameByPrompt(o)
         [] OTHER                                 -> NameByProcess(o)
=============================================================================
