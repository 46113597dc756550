------------------------------ MODULE Policies ------------------------------
(***************************************************************************)
(* The policies of the program that keep no state, on all inputs of a set:  *)
(* the loop of strip_numeric_prefix, one iteration at a time, and the name  *)
(* of an observation.  A behaviour is about a label or an observation.      *)
(***************************************************************************)
EXTENDS Labels, Naming

CONSTANTS
  Inputs,        \* the labels to strip
  Observations   \* the observations to name, see Naming

ASSUME PoliciesAssumption ==
  /\ Inputs \subseteq Label
  /\ \A o \in Observations : /\ Normalized(o.shell) # Empty
                             /\ NoPane \notin o.labelled
                             /\ DOMAIN o.group.procs \subseteq Nat \ {0}

VARIABLES
  input,     \* the label given
  rest,      \* the variable label of the loop
  observed   \* the observation, as a sequence of none or one

vars == <<input, rest, observed>>

\* trim_start_matches(char::is_whitespace)
TrimStart(l) ==
  LET kept == {i \in DOMAIN l : l[i] # Space}
  IN  IF kept = {} THEN <<>> ELSE SubSeq(l, Min(kept), Len(l))

\* strip_prefix('['), find(']') and the digits between them succeed.
HasPrefix(l) == l # <<>> /\ IsNum(Head(l))

Init ==
  /\ \/ input \in Inputs /\ observed = <<>>
     \/ input = <<>> /\ \E o \in Observations : observed = <<o>>
  /\ rest = input

\* Mutant of Iterate: the white space after the number stays.
IterateUntrimmed ==
  /\ HasPrefix(rest)
  /\ rest' = Tail(rest)
  /\ UNCHANGED <<input, observed>>

Iterate ==
  /\ HasPrefix(rest)
  /\ rest' = TrimStart(Tail(rest))
  /\ UNCHANGED <<input, observed>>

Return == ~HasPrefix(rest) /\ UNCHANGED vars

Next == Iterate \/ Return
Spec == Init /\ [][Next]_vars /\ WF_vars(Iterate)

-----------------------------------------------------------------------------
(* Labels *)

(***************************************************************************)
(* strip_numeric_prefix ends, and returns what Strip says: the loop never   *)
(* cuts into the text and never leaves a number in front.                   *)
(***************************************************************************)
LoopComputesStrip == <>[](~HasPrefix(rest) /\ rest = Strip(input))

(***************************************************************************)
(* Neither the loop nor numbering loses text of the user: from its first    *)
(* digit or word on, the label stays what it was.                           *)
(***************************************************************************)
TextKept ==
  /\ FromText(rest) = FromText(input)
  /\ FromText(Numbered(1, rest)) = FromText(input)

(***************************************************************************)
(* Renumbering settles: after two passes the label no longer changes, one   *)
(* is enough unless the name begins with white space, and moving a settled  *)
(* tab changes the number and nothing else.                                 *)
(***************************************************************************)
NumberingSettles ==
  LET once  == Numbered(1, input)
      twice == Numbered(1, once)
      base  == Strip(input)
  IN  /\ Numbered(1, twice) = twice
      /\ base = <<>> \/ Head(base) # Space => once = twice
      /\ Numbered(2, twice) = <<Num(2)>> \o Tail(twice)

-----------------------------------------------------------------------------
(* Names *)

\* The ranks select_representative gives the processes of a group, best first.
Rank(g, agent, i) ==
  LET leads == i = Leader(g)
  IN  IF IsPreferred(g, agent, i) THEN 1
      ELSE IF IsLaunched(g, i) THEN 2
      ELSE IF IsOrdinary(g, i) THEN (IF leads THEN 3 ELSE 4)
      ELSE IF leads /\ IsShell(ProgramOf(g.procs[i])) THEN 5
      ELSE 6

(***************************************************************************)
(* The searches of select_representative, one after the other, find the     *)
(* process of the best rank, the first one in Herdr's list among equals: an *)
(* idle shell never hides a program, nor a helper the agent of the pane.    *)
(***************************************************************************)
BestProcessRepresents ==
  \A n \in DOMAIN observed :
    LET g == observed[n].group
        r == Representative(g, observed[n].agent)
        rank(i) == Rank(g, observed[n].agent, i)
    IN  IF Leader(g) = 0 \/ \A i \in DOMAIN g.procs : rank(i) = 6 THEN r = 0
        ELSE /\ r # 0 /\ rank(r) # 6
             /\ \A i \in DOMAIN g.procs :
                  \/ rank(r) < rank(i)
                  \/ rank(r) = rank(i) /\ r <= i

\* The programs without a name of their own: aliases are looked up first.
Unnamed == {Empty} \cup ((Shells \cup Ignored) \ DOMAIN Aliases)

(***************************************************************************)
(* "Short-lived commands that keep the tab displaying its shell name": as   *)
(* long as everything in front is an ignored program or a shell without an  *)
(* alias, and what is reported and verified is as well, the tab shows a     *)
(* shell's name or keeps its own, whatever process or argument of the group *)
(* is found, whoever leads it and which agent Herdr detects.                *)
(***************************************************************************)
IgnoredShowsShell ==
  \A n \in DOMAIN observed :
    LET o == observed[n]
        g == o.group
    IN  /\ \A i \in DOMAIN g.procs : Normalized(ProgramOf(g.procs[i])) \in Unnamed
        /\ o.kind = "preexec" /\ GroupMatches(g, o.program) =>
             Normalized(o.program) \in Unnamed
        => NameOf(o) \in {NoName, PaneLabel} \cup {Idle(o, s) : s \in Shells \cup {o.shell}}

\* The program that an observation is about, Empty for a prompt.
Subject(o) ==
  CASE FromOwnShell(o) /\ o.kind = "preexec" -> Normalized(o.program)
    [] FromOwnShell(o) /\ o.kind = "prompt"  -> Empty
    [] OTHER -> Normalized(ProgramOf(o.group.procs[Representative(o.group, o.agent)]))

(***************************************************************************)
(* A generated name is blank in three cases only: the limit is zero         *)
(* characters (tests/unit/naming.rs: "zero_character_limit_produces_an_     *)
(* empty_label"), the user gave the program a blank alias, or idle shells   *)
(* are hidden and it is about a shell, an ignored program or none at all.   *)
(* A program with a name shows otherwise, however the shell is hidden.      *)
(***************************************************************************)
BlankOnlyWhenHidden ==
  \A n \in DOMAIN observed :
    LET o == observed[n]
    IN  NameOf(o) = Empty =>
          \/ o.limit = 0
          \/ Subject(o) \in DOMAIN Aliases /\ Aliases[Subject(o)] = Empty
          \/ o.hide /\ Subject(o) \in Unnamed

(***************************************************************************)
(* Focus elsewhere in the session never names a tab: a tab of several panes *)
(* takes its name from the pane that reports, from the pane of the focus    *)
(* event, or, being in front, from its focused pane, and in every case from *)
(* one of its own panes.                                                    *)
(***************************************************************************)
NamedByOwnPane ==
  \A n \in DOMAIN observed :
    LET o == observed[n]
    IN  NameOf(o) # NoName =>
          /\ {SelectedPane(o), ProcessPane(o)} \subseteq o.own \cup {NoPane}
          /\ Multi(o) => \/ SelectedPane(o) = o.pane /\ o.kind \notin {"other"}
                         \/ o.front /\ o.focused \in o.own
=============================================================================
