---------------------------- MODULE PluginProofs ----------------------------
(***************************************************************************)
(* Proofs about Plugin: for any number of processes, tabs, panes and        *)
(* workspaces, any settings, names and labels, and any order of reports.    *)
(***************************************************************************)
EXTENDS Plugin, ConvergenceProofs

-----------------------------------------------------------------------------
(* The processes and their invocations *)

\* What event_invocation makes of reports.
Reported ==
  {i \in Invocation : i.op \in {"full", "workspace", "closed_tab", "renamed",
                                "closed_pane", "tab", "shell"}}

\* Where a process of the plugin may be: none is a preexec.
Places == {"idle", "done", "settling", "wait", "try", "owned", "publish", "retry", "claim",
           "pass", "take", "release", "recheck", "reacquire", "retake"}

WorkInv ==
  /\ work \in [Proc -> Reported]
  /\ kind = [p \in Proc |-> KindOf(work[p])]
  /\ events \subseteq Reported
  /\ markers \subseteq Proc

PlaceInv ==
  /\ proc \in [Proc -> Places]
  /\ serving \in [Proc -> Proc \cup {R!Free}]
  /\ outcome \in [Proc -> R!Outcome]
  /\ \A p \in Proc : /\ proc[p] = "owned" => work[p].op = "renamed"
                     /\ proc[p] # "done" => outcome[p] = "pending"

LockHeld ==
  /\ lock \in Proc \cup {R!Free}
  /\ \A p \in Proc : lock = p <=> proc[p] \in R!Holding
  /\ pc # "idle" => lock \in Proc /\ proc[lock] = "pass"
  /\ \A p \in Proc : proc[p] = "pass" => pc # "idle"

LoadedInv ==
  /\ loaded \in [Proc -> {Nothing} \cup {<<o>> : o \in OwnershipSet}]
  /\ \A p \in Proc : loaded[p] # Nothing => proc[p] = "owned"

ProcessInv == WorkInv /\ PlaceInv /\ LockHeld /\ LoadedInv

-----------------------------------------------------------------------------
(* Invocations *)

LEMMA ReportedFields ==
  ASSUME NEW i \in Reported
  PROVE  /\ i \in Invocation
         /\ i.op \in {"full", "workspace", "closed_tab", "renamed", "closed_pane", "tab", "shell"}
         /\ i.op = "full" => i = Full
         /\ i.op \in {"workspace", "closed_tab"} => i.ws \in Workspace
         /\ i.op = "renamed" => i.tab \in Tab /\ i = [op |-> "renamed", tab |-> i.tab]
         /\ i.op \in {"shell", "closed_pane"} => i.pane \in Pane
<1>1. /\ i \in Invocation
      /\ i.op \in {"full", "workspace", "closed_tab", "renamed", "closed_pane", "tab", "shell"}
  BY DEF Reported
<1>2. CASE i \in [op : {"full", "clear"}]
  BY <1>1, <1>2 DEF Full
<1>3. CASE i \in [op : {"workspace", "closed_tab"}, ws : Workspace]
  BY <1>1, <1>3
<1>4. CASE i \in TabInvocation
  BY <1>1, <1>4 DEF TabInvocation
<1>5. CASE i \in [op : {"closed_pane"}, ws : Workspace, pane : Pane]
  BY <1>1, <1>5
<1>6. CASE i \in [op : {"shell", "sample"}, pane : Pane]
  BY <1>1, <1>6
<1> QED BY <1>1, <1>2, <1>3, <1>4, <1>5, <1>6 DEF Invocation

LEMMA FullReported == Full \in Reported /\ Full.op = "full"
BY DEF Full, Reported, Invocation

LEMMA DeferredReported ==
  ASSUME NEW i \in Reported
  PROVE  /\ Deferred(i) \in Reported
         /\ Deferred(i).op \in {"full", "renamed", "closed_pane"}
         /\ i.op = "renamed" => Deferred(i) = i
         /\ i.op \in {"full", "workspace", "closed_tab"} => Deferred(i) = Full
BY FullReported DEF Deferred, Reported

\* How the runner tells them apart.
LEMMA KindsOfReported ==
  ASSUME NEW i \in Reported
  PROVE  /\ KindOf(i) \in {"shell", "full", "closed_tab", "closed_pane", "renamed"}
         /\ KindOf(i) = "shell" <=> i.op \in {"shell", "tab"}
         /\ KindOf(i) = "renamed" <=> i.op = "renamed"
BY DEF KindOf, Reported

-----------------------------------------------------------------------------
(* What is still owed *)

\* The invocation of a structural process that has neither begun a pass nor deferred it.
Ahead == {"idle", "settling", "try", "owned", "publish"}

\* The invocations that some pass will begin with, unless an equal one does.
Outstanding ==
  events \cup {work[p] : p \in {q \in Proc : proc[q] \in Ahead}}
         \cup {Deferred(work[p]) : p \in markers}

Structural == {"full", "workspace", "closed_tab", "renamed", "closed_pane"}

(***************************************************************************)
(* A process moves from l to another place and takes or leaves the lock.    *)
(***************************************************************************)
MovesTo(p, l) ==
  /\ proc' = [proc EXCEPT ![p] = l]
  /\ lock' = IF l \in R!Holding THEN p ELSE IF proc[p] \in R!Holding THEN R!Free ELSE lock
  /\ l \in R!Holding => lock \in {p, R!Free}
  /\ outcome' = outcome \/ (l = "done" /\ \E how \in R!Outcome : outcome' = [outcome EXCEPT ![p] = how])

\* The steps that begin no pass: what the process owes, it goes on owing.
NoPass(p) ==
  /\ \E l \in Places \ {"pass"} :
       /\ MovesTo(p, l)
       /\ l = "owned" => work[p].op = "renamed"
       /\ proc[p] \in Ahead /\ work[p].op \in Structural => l \in Ahead \/ p \in markers'
  /\ markers \subseteq markers' /\ markers' \subseteq Proc
  /\ UNCHANGED <<vars, serving>>

\* The steps that begin a pass, for the process itself or for a marker.
PassFor(p, i) ==
  /\ MovesTo(p, "pass")
  /\ Begin(i)
  /\ \/ i = work[p] /\ markers' = markers
     \/ /\ proc[p] \notin Ahead
        /\ \E q \in markers : i = Deferred(work[q]) /\ markers' = markers \ {q}
  /\ serving' \in [Proc -> Proc \cup {R!Free}]

Coordinated(p) ==
  /\ proc[p] \notin {"pass", "owned", "done"}
  /\ UNCHANGED <<kind, work, loaded, events, reaction>>
  /\ NoPass(p) \/ \E i \in Reported : PassFor(p, i)

LEMMA CoordinateEffect ==
  ASSUME ProcessInv, NEW p \in Proc, Coordinate(p)
  PROVE  Coordinated(p)
<1> USE DEF R!Goto, R!Free, R!control, R!history, R!Exit
<1> DEFINE i == IF markers' = markers THEN work[p] ELSE Deferred(work[serving'[p]])
           Frame == UNCHANGED <<kind, work, loaded, events, reaction>>
<1>1. /\ proc \in [Proc -> Places] /\ serving \in [Proc -> Proc \cup {R!Free}]
      /\ work \in [Proc -> Reported] /\ markers \subseteq Proc
      /\ kind[p] = KindOf(work[p]) /\ work[p] \in Reported
      /\ lock = p <=> proc[p] \in R!Holding
      /\ outcome \in [Proc -> R!Outcome] /\ (proc[p] # "done" => outcome[p] = "pending")
  BY DEF ProcessInv, WorkInv, PlaceInv, LockHeld
<1>2. UNCHANGED <<work, loaded, events, reaction>>
  BY DEF Coordinate, plugin
<1>3. IF proc'[p] = "pass" THEN Begin(i) ELSE UNCHANGED vars
  BY DEF Coordinate
<1>4. /\ KindOf(work[p]) \in {"shell", "full", "closed_tab", "closed_pane", "renamed"}
      /\ KindOf(work[p]) = "shell" <=> work[p].op \in {"shell", "tab"}
      /\ KindOf(work[p]) = "renamed" <=> work[p].op = "renamed"
  BY <1>1, KindsOfReported
<1> DEFINE Quietly(l) ==
             /\ MovesTo(p, l) /\ l \in Places \ {"pass"}
             /\ l = "owned" => work[p].op = "renamed"
             /\ proc[p] \in Ahead /\ work[p].op \in Structural => l \in Ahead \/ p \in markers'
             /\ markers \subseteq markers' /\ markers' \subseteq Proc /\ serving' = serving
           Entering ==
             /\ MovesTo(p, "pass")
             /\ \/ markers' = markers
                \/ /\ proc[p] \notin Ahead
                   /\ \E q \in markers : serving'[p] = q /\ markers' = markers \ {q}
             /\ serving' \in [Proc -> Proc \cup {R!Free}]
           Result == /\ proc[p] \notin {"pass", "owned", "done"} /\ kind' = kind
                     /\ Entering \/ \E l : Quietly(l)
<1>5. ASSUME Result PROVE Coordinated(p)
  <2>1. UNCHANGED <<kind, work, loaded, events, reaction>>
    BY <1>2, <1>5
  <2>2. ASSUME NEW l, Quietly(l) PROVE NoPass(p)
    <3>1. proc'[p] = l
      BY <1>1, <2>2 DEF MovesTo
    <3>2. UNCHANGED vars
      BY <1>3, <2>2, <3>1
    <3> QED BY <2>2, <3>2 DEF NoPass
  <2>3. ASSUME Entering PROVE \E j \in Reported : PassFor(p, j)
    <3>1. proc'[p] = "pass"
      BY <1>1, <2>3 DEF MovesTo
    <3>2. Begin(i)
      BY <1>3, <3>1
    <3>3. CASE markers' = markers
      BY <1>1, <2>3, <3>2, <3>3 DEF PassFor
    <3>4. ASSUME NEW q \in markers, serving'[p] = q, markers' = markers \ {q}
          PROVE  i = Deferred(work[q]) /\ Deferred(work[q]) \in Reported
      BY <1>1, <3>4, DeferredReported
    <3> HIDE DEF i
    <3> QED BY <2>3, <3>2, <3>3, <3>4 DEF PassFor
  <2> QED BY <1>5, <2>1, <2>2, <2>3 DEF Coordinated
<1> HIDE DEF i
<1>6. ASSUME NEW q, R!Consume(p, q), kind' = kind, lock' = p, lock \in {p, R!Free},
             outcome' = outcome, proc[p] \in {"claim", "take", "retake"}
      PROVE  Result
  BY <1>1, <1>6 DEF R!Consume, R!FirstMarker, MovesTo, R!Holding, Ahead
<1>7. ASSUME R!EnterOwnPass(p), kind' = kind, lock' = p, lock \in {p, R!Free}, markers' = markers,
             outcome' = outcome, proc[p] \notin {"pass", "owned", "done"}
      PROVE  Result
  BY <1>1, <1>7 DEF R!EnterOwnPass, MovesTo, R!Holding
<1>8. ASSUME R!Start(p) PROVE Result
  <2>1. /\ proc[p] = "idle" /\ UNCHANGED <<kind, lock, markers, serving, outcome>>
    BY <1>8 DEF R!Start
  <2>2. PICK l \in {"settling", "try", "wait"} :
          proc' = [proc EXCEPT ![p] = l] /\ (l = "wait" => KindOf(work[p]) = "shell")
    BY <1>1, <1>4, <1>8 DEF R!Start, R!Exact
  <2>3. Quietly(l)
    BY <1>1, <1>4, <2>1, <2>2 DEF MovesTo, Places, Ahead, Structural, R!Holding
  <2> QED BY <2>1, <2>3
<1>9. ASSUME R!WaitUntilClosed(p) /\ outcome' = outcome PROVE Result
  <2>1. proc[p] = "settling" /\ UNCHANGED <<kind, lock, markers, serving, outcome>>
    BY <1>9 DEF R!WaitUntilClosed
  <2>2. proc' = [proc EXCEPT ![p] = "try"]
    BY <1>1, <1>9, <2>1 DEF R!WaitUntilClosed
  <2>3. Quietly("try")
    BY <1>1, <2>1, <2>2 DEF MovesTo, Places, Ahead, R!Holding
  <2> QED BY <2>1, <2>3
<1>10. ASSUME R!AcquireExact(p) PROVE Result
  BY <1>7, <1>10 DEF R!AcquireExact
<1>11. ASSUME R!AcquireTimeout(p) PROVE Result
  <2>1. /\ proc[p] = "wait" /\ UNCHANGED <<kind, lock, markers, serving>>
        /\ proc' = [proc EXCEPT ![p] = "done"]
        /\ \E how \in R!Outcome : outcome' = [outcome EXCEPT ![p] = how]
    BY <1>11 DEF R!AcquireTimeout, R!Outcome
  <2>2. Quietly("done")
    BY <1>1, <2>1 DEF MovesTo, Places, Ahead, R!Holding
  <2> QED BY <2>1, <2>2
<1>12. ASSUME R!TryAcquire(p) PROVE Result
  <2>1. proc[p] = "try" /\ UNCHANGED <<kind, markers, outcome>>
    BY <1>12 DEF R!TryAcquire
  <2>2. CASE lock = R!Free /\ lock' = p /\ R!EnterOwnPass(p)
    BY <1>7, <2>1, <2>2
  <2>3. CASE lock # R!Free
    <3>1. UNCHANGED <<lock, serving>>
      BY <1>12, <2>3 DEF R!TryAcquire
    <3>2. PICK l \in {"owned", "publish"} :
            proc' = [proc EXCEPT ![p] = l] /\ (l = "owned" => kind[p] = "renamed")
      BY <1>12, <2>3 DEF R!TryAcquire
    <3>3. Quietly(l)
      BY <1>1, <1>4, <2>1, <3>1, <3>2 DEF MovesTo, Places, Ahead, R!Holding
    <3> QED BY <2>1, <3>3
  <2> QED BY <1>12, <2>2, <2>3 DEF R!TryAcquire
<1>13. ASSUME R!RequestRerun(p) PROVE Result
  <2>1. /\ proc[p] = "publish" /\ UNCHANGED <<kind, lock, serving, outcome>>
        /\ proc' = [proc EXCEPT ![p] = "retry"] /\ markers' = markers \cup {p}
    BY <1>13 DEF R!RequestRerun
  <2>2. Quietly("retry")
    BY <1>1, <2>1 DEF MovesTo, Places, Ahead, R!Holding
  <2> QED BY <2>1, <2>2
<1>14. ASSUME R!RetryAcquire(p) PROVE Result
  <2>1. /\ proc[p] = "retry" /\ UNCHANGED <<kind, markers, serving>>
    BY <1>14 DEF R!RetryAcquire
  <2>2. CASE lock = R!Free
    <3>1. lock' = p /\ proc' = [proc EXCEPT ![p] = "claim"] /\ outcome' = outcome
      BY <1>14, <2>2 DEF R!RetryAcquire
    <3>2. Quietly("claim")
      BY <1>1, <2>1, <2>2, <3>1 DEF MovesTo, Places, Ahead, R!Holding
    <3> QED BY <2>1, <3>2
  <2>3. CASE lock # R!Free
    <3>1. /\ lock' = lock /\ proc' = [proc EXCEPT ![p] = "done"]
          /\ \E how \in R!Outcome : outcome' = [outcome EXCEPT ![p] = how]
      BY <1>14, <2>3 DEF R!RetryAcquire, R!Outcome
    <3>2. Quietly("done")
      BY <1>1, <2>1, <3>1 DEF MovesTo, Places, Ahead, R!Holding
    <3> QED BY <2>1, <3>2
  <2> QED BY <2>2, <2>3
<1>15. ASSUME R!ClaimRequest(p) PROVE Result
  <2>1. proc[p] = "claim" /\ lock' = lock /\ lock = p /\ kind' = kind /\ outcome' = outcome
    BY <1>1, <1>15 DEF R!ClaimRequest, R!Holding
  <2>2. (\E q \in markers : R!Consume(p, q)) \/ (R!EnterOwnPass(p) /\ markers' = markers)
    BY <1>15 DEF R!ClaimRequest
  <2> QED BY <1>6, <1>7, <2>1, <2>2
<1>16. ASSUME R!TakeRerun(p) \/ R!RetakeRerun(p) PROVE Result
  <2>1. /\ proc[p] \in {"take", "retake"} /\ lock' = lock /\ lock = p
        /\ kind' = kind /\ outcome' = outcome
    BY <1>1, <1>16 DEF R!TakeRerun, R!RetakeRerun, R!Holding
  <2>2. \/ \E q \in markers : R!Consume(p, q)
        \/ proc' = [proc EXCEPT ![p] = "release"] /\ UNCHANGED <<markers, serving>>
    BY <1>16 DEF R!TakeRerun, R!RetakeRerun
  <2>3. CASE proc' = [proc EXCEPT ![p] = "release"] /\ UNCHANGED <<markers, serving>>
    <3>1. Quietly("release")
      BY <1>1, <2>1, <2>3 DEF MovesTo, Places, Ahead, R!Holding
    <3> QED BY <2>1, <3>1
  <2> HIDE DEF Result
  <2> QED BY <1>6, <2>1, <2>2, <2>3
<1>17. ASSUME R!Release(p) PROVE Result
  <2>1. /\ proc[p] = "release" /\ lock' = R!Free /\ UNCHANGED <<kind, markers, serving>>
    BY <1>17 DEF R!Release
  <2>2. PICK l \in {"recheck", "done"} :
          /\ proc' = [proc EXCEPT ![p] = l]
          /\ \/ outcome' = outcome
             \/ l = "done" /\ \E how \in R!Outcome : outcome' = [outcome EXCEPT ![p] = how]
    BY <1>17 DEF R!Release, R!Outcome
  <2>3. Quietly(l)
    BY <1>1, <2>1, <2>2 DEF MovesTo, Places, Ahead, R!Holding
  <2> QED BY <2>1, <2>3
<1>18. ASSUME R!Recheck(p) PROVE Result
  <2>1. /\ proc[p] = "recheck" /\ UNCHANGED <<kind, lock, markers, serving>>
    BY <1>18 DEF R!Recheck
  <2>2. PICK l \in {"reacquire", "done"} :
          /\ proc' = [proc EXCEPT ![p] = l]
          /\ \/ outcome' = outcome
             \/ l = "done" /\ \E how \in R!Outcome : outcome' = [outcome EXCEPT ![p] = how]
    BY <1>18 DEF R!Recheck, R!Outcome
  <2>3. Quietly(l)
    BY <1>1, <2>1, <2>2 DEF MovesTo, Places, Ahead, R!Holding
  <2> QED BY <2>1, <2>3
<1>19. ASSUME R!Reacquire(p) PROVE Result
  <2>1. /\ proc[p] = "reacquire" /\ UNCHANGED <<kind, markers, serving>>
    BY <1>19 DEF R!Reacquire
  <2>2. PICK l \in {"retake", "done"} :
          /\ proc' = [proc EXCEPT ![p] = l]
          /\ l = "retake" => lock = R!Free /\ lock' = p /\ outcome' = outcome
          /\ l = "done" => /\ lock' = lock
                           /\ \E how \in R!Outcome : outcome' = [outcome EXCEPT ![p] = how]
    BY <1>19 DEF R!Reacquire, R!Outcome
  <2>3. Quietly(l)
    BY <1>1, <2>1, <2>2 DEF MovesTo, Places, Ahead, R!Holding
  <2> QED BY <2>1, <2>3
<1> HIDE DEF Result
<1> QED BY <1>5, <1>8, <1>9, <1>10, <1>11, <1>12, <1>13, <1>14, <1>15, <1>16, <1>17, <1>18, <1>19
        DEF Coordinate

-----------------------------------------------------------------------------
(* The steps of the composition *)

LEMMA StepKinds ==
  ASSUME PluginNext
  PROVE  \/ ChangeSession
         \/ \E p \in Proc : \/ Coordinate(p) \/ LoadState(p) \/ CompareLabel(p)
                            \/ PassStep(p) \/ EndPass(p)
                            \/ \E i \in events : Deliver(p, i)
         \/ UNCHANGED pluginVars
BY DEF PluginNext, Step, Finished

(***************************************************************************)
(* What the user does is a step of the session, and Herdr reports it.       *)
(***************************************************************************)
LEMMA ChangeEffect ==
  ASSUME SessionInv, Change
  PROVE  /\ Session
         /\ \E es \in SUBSET Reported : events' = events \cup es
         /\ \A t \in Tab : label'[t] # label[t] => TabRenamed(t) \in events'
<1> DEFINE Result ==
             /\ Session
             /\ \E es \in SUBSET Reported : events' = events \cup es
             /\ \A t \in Tab : label'[t] # label[t] => TabRenamed(t) \in events'
<1>1. /\ Full \in Reported
      /\ \A t \in Tab : {TabEvent(t), TabClosed(t), TabRenamed(t), PaneCreated(t)} \subseteq Reported
      /\ \A p \in Pane : ShellStarted(p) \in Reported
      /\ \A p \in Pane : place[p] \in Tab => {PaneClosed(p), PaneExited(p)} \subseteq Reported
  <2>1. \A t \in Tab : WorkspaceOf[t] \in Workspace
    BY ReconcilerAssumption
  <2>2. \A t \in Tab : TabEvent(t) \in Reported /\ PaneCreated(t) \in Reported /\ TabClosed(t) \in Reported
    BY <2>1 DEF TabEvent, PaneCreated, TabClosed, Reported, Invocation
  <2>3. \A t \in Tab : TabRenamed(t) \in Reported
    BY DEF TabRenamed, Reported, Invocation, TabInvocation
  <2>4. \A p \in Pane : ShellStarted(p) \in Reported
    BY DEF ShellStarted, Reported, Invocation
  <2>5. \A p \in Pane : place[p] \in Tab => PaneClosed(p) \in Reported
    BY <2>1 DEF PaneClosed, Reported, Invocation
  <2>6. \A p \in Pane : place[p] \in Tab => PaneExited(p) \in Reported
    BY DEF PaneExited, Reported, Invocation, TabInvocation
  <2> QED BY <2>2, <2>3, <2>4, <2>5, <2>6, FullReported
<1>2. Open \in SUBSET Tab /\ label \in [Tab -> Label] /\ order \in Seq(Tab)
  BY OpenType DEF SessionInv
<1>3. ASSUME NEW es \in SUBSET Reported, Report(es), Session, label' = label PROVE Result
  BY <1>3 DEF Report
<1>4. ASSUME NEW t \in Tab, NEW l \in UserLabels, UserRename(t, l), Report({TabRenamed(t)})
      PROVE  Result
  <2>1. Session
    BY <1>4 DEF Session
  <2>2. label' = [label EXCEPT ![t] = l]
    BY <1>4 DEF UserRename
  <2>3. {TabRenamed(t)} \in SUBSET Reported
    BY <1>1
  <2> QED BY <1>2, <1>4, <2>1, <2>2, <2>3 DEF Report
<1> HIDE DEF Result
<1>5. ASSUME NEW t \in Tab, NEW p \in Pane, OpenTab(t, p),
             Report({TabEvent(t), PaneCreated(t), ShellStarted(p)})
      PROVE  Result
  <2>1. Session /\ label' = label
    BY <1>5 DEF Session, OpenTab
  <2> QED BY <1>1, <1>3, <1>5, <2>1
<1>6. ASSUME NEW t \in Tab, NEW p \in Pane, PlacePane(p, t),
             Report(IF place[p] = Unborn THEN {PaneCreated(t), ShellStarted(p)} ELSE {PaneMoved})
      PROVE  Result
  <2>1. Session /\ label' = label
    BY <1>6 DEF Session, PlacePane, Arrange
  <2> QED BY <1>1, <1>3, <1>6, <2>1 DEF PaneMoved
<1>7. ASSUME NEW t \in Tab, CloseTab(t), Report({TabClosed(t)}) PROVE Result
  <2>1. Session /\ label' = label
    BY <1>7 DEF Session, CloseTab, Arrange
  <2> QED BY <1>1, <1>3, <1>7, <2>1
<1>8. ASSUME NEW p \in Pane, ClosePane(p),
             \E e \in {PaneClosed(p), PaneExited(p)} : Report({e})
      PROVE  Result
  <2>1. Session /\ label' = label /\ place[p] \in Tab
    BY <1>2, <1>8 DEF Session, ClosePane, Arrange
  <2> QED BY <1>1, <1>3, <1>8, <2>1
<1>9. ASSUME NEW k \in 1 .. Len(order), MoveTab(k), Report({TabEvent(order[k])}) PROVE Result
  <2>1. order[k] \in Tab
    BY <1>2
  <2>2. label' = label
    BY <1>9 DEF MoveTab
  <2>3. Session
    BY <1>9 DEF Session
  <2> QED BY <1>1, <1>3, <1>9, <2>1, <2>2, <2>3
<1>10. Result
  BY <1>4, <1>5, <1>6, <1>7, <1>8, <1>9 DEF Change
<1> QED BY <1>10 DEF Result

(***************************************************************************)
(* The refinement: the passes that the processes run for the reports of     *)
(* Herdr are passes of Reconciler.                                          *)
(***************************************************************************)
LEMMA PassIsReconciler ==
  ASSUME NEW p \in Proc, PassStep(p) \/ EndPass(p)
  PROVE  RunPass
BY DEF PassStep, EndPass, RenameTab, RunPass

LEMMA ReconcilerStep ==
  ASSUME SessionInv, ProcessInv, [PluginNext]_pluginVars
  PROVE  [Next]_vars
<1>1. CASE ChangeSession
  BY <1>1, ChangeEffect DEF ChangeSession, Next
<1>2. ASSUME NEW p \in Proc, Coordinate(p) PROVE [Next]_vars
  <2>1. NoPass(p) \/ \E i \in Reported : PassFor(p, i)
    BY <1>2, CoordinateEffect DEF Coordinated
  <2>2. ASSUME NEW i \in Reported, PassFor(p, i) PROVE RunPass
    BY <2>2, ReportedFields DEF PassFor, RunPass
  <2> QED BY <2>1, <2>2 DEF NoPass, Next
<1>3. ASSUME NEW p \in Proc, LoadState(p) \/ CompareLabel(p) \/ \E i \in events : Deliver(p, i)
      PROVE  [Next]_vars
  BY <1>3 DEF LoadState, CompareLabel, Deliver
<1>4. ASSUME NEW p \in Proc, PassStep(p) \/ EndPass(p) PROVE [Next]_vars
  BY <1>4, PassIsReconciler DEF Next
<1>5. CASE UNCHANGED pluginVars
  BY <1>5 DEF pluginVars
<1> QED BY <1>1, <1>2, <1>3, <1>4, <1>5, StepKinds

-----------------------------------------------------------------------------
(* The inductive invariant: processes *)

LEMMA MovesKeepLock ==
  ASSUME ProcessInv, NEW p \in Proc, NEW l \in Places, MovesTo(p, l),
         proc[p] # "done",
         proc[p] = "owned" \/ l # "owned" \/ work[p].op = "renamed"
  PROVE  /\ proc' \in [Proc -> Places] /\ proc'[p] = l
         /\ \A q \in Proc \ {p} : proc'[q] = proc[q]
         /\ lock' \in Proc \cup {R!Free}
         /\ \A q \in Proc : lock' = q <=> proc'[q] \in R!Holding
         /\ outcome' \in [Proc -> R!Outcome]
         /\ \A q \in Proc : proc'[q] # "done" => outcome'[q] = "pending"
         /\ proc'[p] = "owned" => work[p].op = "renamed"
<1>1. /\ proc \in [Proc -> Places] /\ outcome \in [Proc -> R!Outcome]
      /\ lock \in Proc \cup {R!Free} /\ \A q \in Proc : lock = q <=> proc[q] \in R!Holding
      /\ \A q \in Proc : proc[q] # "done" => outcome[q] = "pending"
      /\ \A q \in Proc : proc[q] = "owned" => work[q].op = "renamed"
  BY DEF ProcessInv, PlaceInv, LockHeld
<1>2. R!Free \notin Proc
  BY PluginAssumption DEF R!Free
<1>3. /\ proc' \in [Proc -> Places] /\ proc'[p] = l
      /\ \A q \in Proc \ {p} : proc'[q] = proc[q]
  BY <1>1 DEF MovesTo
<1>4. lock' \in Proc \cup {R!Free} /\ \A q \in Proc : lock' = q <=> proc'[q] \in R!Holding
  BY <1>1, <1>2, <1>3 DEF MovesTo
<1>5. outcome' \in [Proc -> R!Outcome] /\ \A q \in Proc : proc'[q] # "done" => outcome'[q] = "pending"
  BY <1>1, <1>3 DEF MovesTo
<1> QED BY <1>1, <1>3, <1>4, <1>5

\* The running pass belongs to the holder of the lock.
LEMMA PassHolder ==
  ASSUME ProcessInv, NEW p \in Proc, proc[p] = "pass"
  PROVE  lock = p /\ pc # "idle" /\ \A q \in Proc \ {p} : proc[q] # "pass"
BY DEF ProcessInv, LockHeld, R!Holding

\* The places of the passes: where the pass of the model is in run_pass.
LEMMA PassPlaces ==
  ASSUME TypeInv, NEW p \in Proc
  PROVE  /\ PassStep(p) => pc # "idle" /\ pc' \in {"plan", "guard", "rename"}
         /\ EndPass(p) => pc # "idle" /\ pc' = "idle"
<1>1. ASSUME PassStep(p) PROVE pc # "idle" /\ pc' \in {"plan", "guard", "rename"}
  <2>1. CASE TakeSnapshot
    BY <2>1 DEF TakeSnapshot
  <2>2. CASE SkipTab \/ PlanTab \/ GuardRead \/ Rename
    BY <2>2, LoopStep DEF Working
  <2> QED BY <1>1, <2>1, <2>2 DEF PassStep, RenameTab
<1>2. ASSUME EndPass(p) PROVE pc # "idle" /\ pc' = "idle"
  BY <1>2 DEF EndPass, Finish, IgnoreClosedPane, EndOfPass
<1> QED BY <1>1, <1>2

\* The end of a pass, for the process that has run it.
LEMMA EndEffect ==
  ASSUME ProcessInv, NEW p \in Proc, EndPass(p)
  PROVE  /\ proc[p] = "pass"
         /\ \E l \in {"take", "release"} : MovesTo(p, l)
         /\ UNCHANGED <<kind, markers, serving, work, loaded, events>>
<1>1. R!Pass(p) /\ UNCHANGED <<events, work, loaded>>
  BY DEF EndPass, plugin
<1>2. /\ proc[p] = "pass" /\ UNCHANGED <<kind, lock, markers, serving, outcome>>
      /\ \E l \in {"take", "release"} : proc' = [proc EXCEPT ![p] = l]
  BY <1>1 DEF R!Pass, R!Goto, R!control
<1>3. lock = p
  BY <1>2, PassHolder
<1> QED BY <1>1, <1>2, <1>3 DEF MovesTo, R!Holding

\* A report that turns out to be of the plugin's own rename, or does not.
Dismissed(p) == OwnRename(loaded[p][1], work[p].tab)

LEMMA CompareEffect ==
  ASSUME ProcessInv, NEW p \in Proc, CompareLabel(p)
  PROVE  /\ proc[p] = "owned" /\ work[p].op = "renamed" /\ loaded[p] # Nothing
         /\ loaded[p][1] \in OwnershipSet
         /\ IF Dismissed(p) THEN MovesTo(p, "done") ELSE MovesTo(p, "publish")
         /\ loaded' = [loaded EXCEPT ![p] = Nothing]
         /\ UNCHANGED <<kind, markers, serving, work, events, vars>>
<1>1. R!OwnedRenameEvent(p) /\ loaded[p] # Nothing /\ UNCHANGED <<vars, events, work>>
      /\ loaded' = [loaded EXCEPT ![p] = Nothing]
      /\ outcome'[p] = IF Dismissed(p) THEN "noop" ELSE "pending"
  BY DEF CompareLabel, Dismissed
<1>2. /\ proc[p] = "owned" /\ UNCHANGED <<kind, lock, markers, serving>>
      /\ \/ proc' = [proc EXCEPT ![p] = "done"] /\ outcome' = [outcome EXCEPT ![p] = "noop"]
         \/ proc' = [proc EXCEPT ![p] = "publish"] /\ outcome' = outcome
  BY <1>1 DEF R!OwnedRenameEvent, R!Goto, R!Exit, R!control
<1>3. /\ outcome \in [Proc -> R!Outcome] /\ outcome[p] = "pending" /\ work[p].op = "renamed"
      /\ lock # p
  BY <1>2 DEF ProcessInv, PlaceInv, LockHeld, R!Holding
<1>4. loaded[p][1] \in OwnershipSet
  BY <1>1 DEF ProcessInv, LoadedInv
<1>5. CASE Dismissed(p)
  <2>1. proc' = [proc EXCEPT ![p] = "done"] /\ outcome' = [outcome EXCEPT ![p] = "noop"]
    BY <1>1, <1>2, <1>3, <1>5
  <2>2. MovesTo(p, "done")
    BY <1>2, <2>1 DEF MovesTo, R!Holding, R!Outcome
  <2> QED BY <1>1, <1>2, <1>3, <1>4, <1>5, <2>2
<1>6. CASE ~Dismissed(p)
  <2>1. proc' = [proc EXCEPT ![p] = "publish"] /\ outcome' = outcome
    BY <1>1, <1>2, <1>3, <1>6
  <2>2. MovesTo(p, "publish")
    BY <1>2, <2>1 DEF MovesTo, R!Holding
  <2> QED BY <1>1, <1>2, <1>3, <1>4, <1>6, <2>2
<1> QED BY <1>5, <1>6

\* A new process, for a report.
LEMMA DeliverEffect ==
  ASSUME ProcessInv, NEW p \in Proc, NEW i \in events, Deliver(p, i)
  PROVE  /\ proc[p] = "done" /\ p \notin markers
         /\ proc' = [proc EXCEPT ![p] = "idle"]
         /\ outcome' = [outcome EXCEPT ![p] = "pending"]
         /\ work' = [work EXCEPT ![p] = i] /\ kind' = [kind EXCEPT ![p] = KindOf(i)]
         /\ events' = events \ {i}
         /\ serving' \in [Proc -> Proc \cup {R!Free}]
         /\ UNCHANGED <<lock, markers, loaded, vars>>
BY DEF Deliver, R!Recycle, R!Goto, ProcessInv, PlaceInv

LEMMA ProcessStep ==
  ASSUME TypeInv, ProcessInv, [PluginNext]_pluginVars, TypeInv'
  PROVE  ProcessInv'
<1>1. /\ work \in [Proc -> Reported] /\ kind = [p \in Proc |-> KindOf(work[p])]
      /\ events \subseteq Reported /\ markers \subseteq Proc
      /\ proc \in [Proc -> Places] /\ serving \in [Proc -> Proc \cup {R!Free}]
      /\ outcome \in [Proc -> R!Outcome]
      /\ \A q \in Proc : /\ proc[q] = "owned" => work[q].op = "renamed"
                         /\ proc[q] # "done" => outcome[q] = "pending"
      /\ lock \in Proc \cup {R!Free} /\ \A q \in Proc : lock = q <=> proc[q] \in R!Holding
      /\ pc # "idle" => lock \in Proc /\ proc[lock] = "pass"
      /\ \A q \in Proc : proc[q] = "pass" => pc # "idle"
      /\ loaded \in [Proc -> {Nothing} \cup {<<o>> : o \in OwnershipSet}]
      /\ \A q \in Proc : loaded[q] # Nothing => proc[q] = "owned"
  BY DEF ProcessInv, WorkInv, PlaceInv, LockHeld, LoadedInv
<1>2. CASE ChangeSession
  <2>1. UNCHANGED <<processes, work, loaded>> /\ events' \subseteq Reported
    BY <1>1, <1>2, ChangeEffect DEF ChangeSession, plugin, TypeInv
  <2>2. pc' = pc
    BY <1>2, ChangeEffect, SessionStep DEF ChangeSession, TypeInv, pass
  <2> QED BY <1>1, <2>1, <2>2
          DEF processes, ProcessInv, WorkInv, PlaceInv, LockHeld, LoadedInv
<1>3. ASSUME NEW p \in Proc, Coordinate(p) PROVE ProcessInv'
  <2>1. /\ proc[p] \notin {"pass", "owned", "done"}
        /\ UNCHANGED <<kind, work, loaded, events>>
        /\ NoPass(p) \/ \E i \in Reported : PassFor(p, i)
    BY <1>3, CoordinateEffect DEF Coordinated
  <2>2. PICK l \in Places :
          /\ MovesTo(p, l) /\ (l = "owned" => work[p].op = "renamed")
          /\ IF l = "pass" THEN pc = "idle" /\ pc' = "snapshot" ELSE pc' = pc
    <3>1. CASE NoPass(p)
      BY <3>1 DEF NoPass, vars, pass
    <3>2. CASE \E i \in Reported : PassFor(p, i)
      BY <3>2 DEF PassFor, Begin, Places
    <3> QED BY <2>1, <3>1, <3>2
  <2>3. /\ markers' \subseteq Proc /\ serving' \in [Proc -> Proc \cup {R!Free}]
    BY <1>1, <2>1 DEF NoPass, PassFor
  <2>4. /\ proc' \in [Proc -> Places] /\ proc'[p] = l
        /\ \A q \in Proc \ {p} : proc'[q] = proc[q]
        /\ lock' \in Proc \cup {R!Free}
        /\ \A q \in Proc : lock' = q <=> proc'[q] \in R!Holding
        /\ outcome' \in [Proc -> R!Outcome]
        /\ \A q \in Proc : proc'[q] # "done" => outcome'[q] = "pending"
        /\ proc'[p] = "owned" => work[p].op = "renamed"
    BY <2>1, <2>2, MovesKeepLock
  <2>5. /\ pc' # "idle" => lock' \in Proc /\ proc'[lock'] = "pass"
        /\ \A q \in Proc : proc'[q] = "pass" => pc' # "idle"
    <3>1. CASE l = "pass"
      <4>1. lock' = p
        BY <2>4, <3>1 DEF R!Holding
      <4> QED BY <2>2, <2>4, <3>1, <4>1
    <3>2. CASE l # "pass"
      <4>1. \A q \in Proc : proc'[q] = "pass" <=> proc[q] = "pass"
        BY <2>1, <2>4, <3>2
      <4>2. ASSUME pc # "idle" PROVE lock' = lock
        BY <1>1, <2>4, <4>1, <4>2 DEF R!Holding
      <4> QED BY <1>1, <2>2, <3>2, <4>1, <4>2
    <3> QED BY <3>1, <3>2
  <2>6. WorkInv' /\ PlaceInv'
    BY <1>1, <2>1, <2>3, <2>4 DEF WorkInv, PlaceInv
  <2>7. LockHeld'
    BY <2>4, <2>5 DEF LockHeld
  <2>8. LoadedInv'
    <3>1. \A q \in Proc : loaded[q] # Nothing => q # p
      BY <1>1, <2>1
    <3> QED BY <1>1, <2>1, <2>4, <3>1 DEF LoadedInv
  <2> QED BY <2>6, <2>7, <2>8 DEF ProcessInv
<1>4. ASSUME NEW p \in Proc, LoadState(p) PROVE ProcessInv'
  <2>1. /\ proc[p] = "owned" /\ UNCHANGED <<processes, events, work, pc>>
        /\ loaded' = [loaded EXCEPT ![p] = <<disk.tabs[work[p].tab]>>]
    BY <1>4 DEF LoadState, vars, pass
  <2>2. work[p].tab \in Tab
    BY <1>1, <2>1, ReportedFields
  <2>3. disk.tabs[work[p].tab] \in OwnershipSet
    BY <2>2 DEF TypeInv, StateInv, StateSet
  <2>4. LoadedInv'
    BY <1>1, <2>1, <2>3 DEF LoadedInv, processes
  <2> QED BY <1>1, <2>1, <2>4 DEF processes, ProcessInv, WorkInv, PlaceInv, LockHeld
<1>5. ASSUME NEW p \in Proc, CompareLabel(p) PROVE ProcessInv'
  <2>1. /\ proc[p] = "owned" /\ work[p].op = "renamed"
        /\ loaded' = [loaded EXCEPT ![p] = Nothing]
        /\ UNCHANGED <<kind, markers, serving, work, events, pc>>
    BY <1>5, CompareEffect DEF vars, pass
  <2>2. PICK l \in {"done", "publish"} : MovesTo(p, l)
    BY <1>5, CompareEffect
  <2>3. l \in Places
    BY DEF Places
  <2>4. /\ proc' \in [Proc -> Places] /\ proc'[p] = l
        /\ \A q \in Proc \ {p} : proc'[q] = proc[q]
        /\ lock' \in Proc \cup {R!Free}
        /\ \A q \in Proc : lock' = q <=> proc'[q] \in R!Holding
        /\ outcome' \in [Proc -> R!Outcome]
        /\ \A q \in Proc : proc'[q] # "done" => outcome'[q] = "pending"
    BY <2>1, <2>2, <2>3, MovesKeepLock
  <2>5. WorkInv' /\ PlaceInv'
    BY <1>1, <2>1, <2>4 DEF WorkInv, PlaceInv
  <2>6. \A q \in Proc : proc'[q] = "pass" <=> proc[q] = "pass"
    BY <2>1, <2>4
  <2>7. pc # "idle" => lock' = lock
    BY <1>1, <2>4, <2>6 DEF R!Holding
  <2>8. LockHeld'
    BY <1>1, <2>1, <2>4, <2>6, <2>7 DEF LockHeld
  <2>9. LoadedInv'
    BY <1>1, <2>1, <2>4 DEF LoadedInv
  <2> QED BY <2>5, <2>8, <2>9 DEF ProcessInv
<1>6. ASSUME NEW p \in Proc, NEW i \in events, Deliver(p, i) PROVE ProcessInv'
  <2>1. /\ proc[p] = "done" /\ proc' = [proc EXCEPT ![p] = "idle"]
        /\ outcome' = [outcome EXCEPT ![p] = "pending"]
        /\ work' = [work EXCEPT ![p] = i] /\ kind' = [kind EXCEPT ![p] = KindOf(i)]
        /\ events' = events \ {i}
        /\ serving' \in [Proc -> Proc \cup {R!Free}]
        /\ UNCHANGED <<lock, markers, loaded, pc>>
    BY <1>6, DeliverEffect DEF vars, pass
  <2>2. "idle" \in Places /\ "idle" \notin R!Holding /\ "done" \notin R!Holding /\ "pending" \in R!Outcome
    BY DEF Places, R!Holding, R!Outcome
  <2>3. WorkInv'
    BY <1>1, <2>1 DEF WorkInv
  <2>4. PlaceInv'
    BY <1>1, <2>1, <2>2 DEF PlaceInv
  <2>5. LockHeld'
    BY <1>1, <2>1, <2>2 DEF LockHeld
  <2>6. LoadedInv'
    BY <1>1, <2>1 DEF LoadedInv
  <2> QED BY <2>3, <2>4, <2>5, <2>6 DEF ProcessInv
<1>7. ASSUME NEW p \in Proc, PassStep(p) PROVE ProcessInv'
  <2>1. /\ UNCHANGED <<processes, work, loaded>> /\ pc # "idle" /\ pc' # "idle"
    BY <1>7, PassPlaces DEF PassStep, plugin
  <2>2. events' \subseteq Reported
    <3>1. \A t \in Open : TabRenamed(t) \in Reported
      BY OpenType DEF TypeInv, TabRenamed, Reported, Invocation, TabInvocation
    <3> QED BY <1>1, <1>7, <3>1 DEF PassStep, RenameTab, Report
  <2> QED BY <1>1, <2>1, <2>2 DEF processes, ProcessInv, WorkInv, PlaceInv, LockHeld, LoadedInv
<1>8. ASSUME NEW p \in Proc, EndPass(p) PROVE ProcessInv'
  <2>1. proc[p] = "pass" /\ UNCHANGED <<kind, markers, serving, work, loaded, events>>
    BY <1>8, EndEffect
  <2>2. PICK l \in {"take", "release"} : MovesTo(p, l)
    BY <1>8, EndEffect
  <2>3. l \in Places
    BY DEF Places
  <2>4. /\ proc' \in [Proc -> Places] /\ proc'[p] = l
        /\ \A q \in Proc \ {p} : proc'[q] = proc[q]
        /\ lock' \in Proc \cup {R!Free}
        /\ \A q \in Proc : lock' = q <=> proc'[q] \in R!Holding
        /\ outcome' \in [Proc -> R!Outcome]
        /\ \A q \in Proc : proc'[q] # "done" => outcome'[q] = "pending"
    BY <2>1, <2>2, <2>3, MovesKeepLock
  <2>5. pc' = "idle" /\ \A q \in Proc : proc'[q] # "pass"
    BY <1>8, <2>1, <2>4, PassPlaces, PassHolder
  <2>6. WorkInv' /\ PlaceInv'
    BY <1>1, <2>1, <2>4 DEF WorkInv, PlaceInv
  <2>7. LockHeld'
    BY <2>4, <2>5 DEF LockHeld
  <2>8. LoadedInv'
    BY <1>1, <2>1, <2>4 DEF LoadedInv
  <2> QED BY <2>6, <2>7, <2>8 DEF ProcessInv
<1>9. CASE UNCHANGED pluginVars
  <2>1. UNCHANGED <<processes, events, work, loaded, pc>>
    BY <1>9 DEF pluginVars, plugin, vars, pass
  <2> QED BY <1>1, <2>1 DEF processes, ProcessInv, WorkInv, PlaceInv, LockHeld, LoadedInv
<1> QED BY <1>2, <1>3, <1>4, <1>5, <1>6, <1>7, <1>8, <1>9, StepKinds

-----------------------------------------------------------------------------
(* The initial states *)

LEMMA FirstTabs ==
  ASSUME PluginInit
  PROVE  /\ Open = Range(FirstOrder) /\ Open \in SUBSET Tab
         /\ label \in [Tab -> Label]
         /\ \A t \in Open : Strip(label[t]) = FirstName
         /\ \A t \in Tab \ Open : label[t] = FreshLabel
         /\ disk \in StateSet
         /\ \A t \in Open : disk.tabs[t] = Owned(FirstName, label[t])
<1>1. order = FirstOrder /\ label = [t \in Tab |-> Shown(t)] /\ place = FirstPlace
  BY DEF PluginInit
<1>2. Open = Range(FirstOrder) /\ Open \in SUBSET Tab
  BY <1>1, ReconcilerAssumption DEF Open, Range
<1>3. FirstName \in Names /\ FirstName \in Label /\ FromText(FirstName) = FirstName
  BY PluginAssumption, NameFacts
<1>4. ASSUME NEW t \in Open
      PROVE  /\ Shown(t) = Numbered(Position(FirstOrder, t), FirstName)
             /\ Shown(t) \in Label /\ Strip(Shown(t)) = FirstName
  <2>1. Shown(t) = Numbered(Position(FirstOrder, t), FirstName)
    BY <1>2, <1>4 DEF Shown
  <2>2. Position(FirstOrder, t) \in Nat
    BY <1>2, PositionType, ReconcilerAssumption
  <2> QED BY <1>3, <2>1, <2>2, NumberedKeepsText
<1>5. ASSUME NEW t \in Tab \ Open PROVE Shown(t) = FreshLabel /\ Shown(t) \in Label
  BY <1>2, <1>5, LabelsAssumption DEF Shown
<1>6. \A t \in Tab : Shown(t) \in Label
  BY <1>4, <1>5
<1>7. \A t \in Open : Owned(FirstName, Shown(t)) \in OwnershipSet
  BY <1>3, <1>4, OwnedType, SimpleOwnership, PluginAssumption
<1>8. disk = [suspended |-> FALSE,
              tabs  |-> [t \in Tab |-> IF t \in Open THEN Owned(FirstName, Shown(t)) ELSE Unowned],
              panes |-> [p \in Pane |-> IF place[p] = Unborn THEN NoTab ELSE place[p]]]
  BY <1>2 DEF PluginInit
<1>9. [t \in Tab |-> IF t \in Open THEN Owned(FirstName, Shown(t)) ELSE Unowned]
        \in [Tab -> OwnershipSet]
  BY <1>7, SimpleOwnership
<1>10. [p \in Pane |-> IF place[p] = Unborn THEN NoTab ELSE place[p]] \in [Pane -> Tab \cup {NoTab}]
  BY <1>1, <1>2, ReconcilerAssumption
<1>11. disk \in StateSet /\ \A t \in Open : disk.tabs[t] = Owned(FirstName, Shown(t))
  BY <1>2, <1>8, <1>9, <1>10 DEF StateSet
<1> QED BY <1>1, <1>2, <1>4, <1>5, <1>6, <1>11

LEMMA PluginInitAll == PluginInit => AllInv
<1> SUFFICES ASSUME PluginInit PROVE AllInv
  OBVIOUS
<1>1. /\ order = FirstOrder /\ place = FirstPlace /\ gone = {}
      /\ env = [renames |-> MaxRenames, moves |-> MaxMoves]
      /\ pc = "idle" /\ inv = Idle /\ mem = EmptyState /\ todo = <<>>
      /\ snap = [order |-> <<>>, label |-> [t \in Tab |-> <<>>]]
      /\ typed = [t \in Tab |-> NoName]
      /\ author = [t \in Tab |-> IF t \in Range(FirstOrder) THEN "plugin" ELSE "herdr"]
  BY DEF PluginInit
<1>2. /\ Open = Range(FirstOrder) /\ Open \in SUBSET Tab /\ label \in [Tab -> Label]
      /\ \A t \in Open : Strip(label[t]) = FirstName
      /\ \A t \in Tab \ Open : label[t] = FreshLabel
      /\ disk \in StateSet
      /\ \A t \in Open : disk.tabs[t] = Owned(FirstName, label[t])
  BY FirstTabs
<1>3. SessionInv
  BY <1>1, <1>2, ReconcilerAssumption DEF SessionInv
<1>4. StateInv
  BY <1>1, <1>2, EmptyStateType DEF StateInv
<1>5. PassInv
  <2>1. snap \in [order : Seq(Tab), label : [Tab -> Label]] /\ snap.order = <<>>
    <3>1. <<>> \in Seq(Tab) /\ <<>> \in Label
      BY DEF Label
    <3> QED BY <1>1, <3>1
  <2>2. Range(snap.order) = {} /\ Range(todo) = {} /\ IsInjective(todo) /\ todo \in Seq(Tab)
    BY <1>1, <2>1 DEF Range, IsInjective
  <2> QED BY <1>1, <2>1, <2>2 DEF PassInv, Working
<1>6. TypeInv
  BY <1>1, <1>3, <1>4, <1>5 DEF TypeInv, PlanInv
<1>7. ResolvedInv /\ ResetInv
  BY <1>1 DEF ResolvedInv, ResetInv, Undecided, Idle
<1>8. AuthorInv
  <2>1. \A t \in Open : Recognises(disk, t)
    BY <1>2 DEF Recognises, Resolve, Owned
  <2>2. \A t \in Open : PluginLabel(t)
    BY <1>1, <2>1 DEF PluginLabel, Working, Range
  <2> QED BY <1>1, <1>2, <2>2 DEF AuthorInv
<1>9. NotAName
  BY <1>1, <1>2, LabelsAssumption DEF NotAName
<1>10. FixedInv
  BY <1>1, NoNameType DEF FixedInv, Fixed
<1> QED BY <1>6, <1>7, <1>8, <1>9, <1>10 DEF AllInv

LEMMA PluginInitProcesses == PluginInit => ProcessInv
<1> SUFFICES ASSUME PluginInit PROVE ProcessInv
  OBVIOUS
<1>1. /\ kind = [p \in Proc |-> "full"] /\ proc = [p \in Proc |-> "done"] /\ lock = R!Free
      /\ markers = {} /\ serving = [p \in Proc |-> R!Free] /\ outcome = [p \in Proc |-> "ok"]
      /\ events = {} /\ work = [p \in Proc |-> Full] /\ loaded = [p \in Proc |-> Nothing]
      /\ pc = "idle"
  BY DEF PluginInit
<1>2. WorkInv
  BY <1>1, FullReported DEF WorkInv, KindOf
<1>3. PlaceInv
  BY <1>1 DEF PlaceInv, Places, R!Outcome
<1>4. LockHeld
  BY <1>1, PluginAssumption DEF LockHeld, R!Free, R!Holding
<1>5. LoadedInv
  BY <1>1 DEF LoadedInv
<1> QED BY <1>2, <1>3, <1>4, <1>5 DEF ProcessInv

-----------------------------------------------------------------------------
(* The composition refines both of its parts *)

CoreInv == AllInv /\ ProcessInv

LEMMA CoreStep ==
  ASSUME CoreInv, [PluginNext]_pluginVars
  PROVE  CoreInv' /\ [Next]_vars
<1>1. AllInv /\ TypeInv /\ SessionInv /\ ProcessInv
  BY DEF CoreInv, AllInv, TypeInv
<1>2. [Next]_vars
  BY <1>1, ReconcilerStep
<1>3. AllInv'
  BY <1>1, <1>2, AllStep
<1>4. TypeInv'
  BY <1>3 DEF AllInv
<1>5. ProcessInv'
  BY <1>1, <1>4, ProcessStep
<1> QED BY <1>2, <1>3, <1>5 DEF CoreInv

LEMMA CoreHolds == PluginSpec => []CoreInv
<1>1. PluginInit => CoreInv
  BY PluginInitAll, PluginInitProcesses DEF CoreInv
<1>2. CoreInv /\ [PluginNext]_pluginVars => CoreInv'
  BY CoreStep
<1> QED BY <1>1, <1>2, PTL DEF PluginSpec

(***************************************************************************)
(* Invocations, lock, markers and passes fit together in every state of the *)
(* composition: a pass runs exactly while the holder of the lock is at it,   *)
(* so the processes of run_inner serialise the passes of run_pass.          *)
(***************************************************************************)
THEOREM PluginTypes == PluginSpec => []PluginTypeOK
<1>1. CoreInv => PluginTypeOK
  <2> SUFFICES ASSUME CoreInv PROVE PluginTypeOK
    OBVIOUS
  <2>1. /\ \A i \in events : i \in Invocation
        /\ \A p \in Proc : /\ work[p] \in Invocation /\ kind[p] = KindOf(work[p])
                           /\ loaded[p] # Nothing => proc[p] = "owned"
    BY ReportedFields DEF CoreInv, ProcessInv, WorkInv, LoadedInv
  <2>2. ASSUME NEW p \in Proc PROVE (proc[p] = "pass") <=> (pc # "idle" /\ lock = p)
    BY DEF CoreInv, ProcessInv, LockHeld, R!Holding
  <2> QED BY <2>1, <2>2 DEF PluginTypeOK
<1> QED BY <1>1, CoreHolds, PTL

(***************************************************************************)
(* Every step of the composition is a step of Reconciler or leaves its      *)
(* state alone: what Reconciler lets any invocation do at any time includes  *)
(* what the processes do that Herdr starts.                                 *)
(***************************************************************************)
THEOREM PluginPassesAreReconcilers == PluginSpec => [][Next]_vars
<1>1. CoreInv /\ [PluginNext]_pluginVars => [Next]_vars
  BY CoreStep
<1> QED BY <1>1, CoreHolds, PTL DEF PluginSpec

(***************************************************************************)
(* And every step is one of Runner, in a session that never ends, or leaves *)
(* the processes alone.                                                     *)
(***************************************************************************)
THEOREM PluginProcessesAreRunners == PluginSpec => [][R!ForeverNext]_processes
<1>1. ASSUME CoreInv, [PluginNext]_pluginVars PROVE [R!ForeverNext]_processes
  <2>1. CASE ChangeSession
    BY <2>1 DEF ChangeSession
  <2>2. ASSUME NEW p \in Proc, Coordinate(p) PROVE R!ForeverNext
    BY <2>2 DEF Coordinate, R!ForeverNext, R!Next, R!Step
  <2>3. ASSUME NEW p \in Proc, LoadState(p) \/ PassStep(p) PROVE UNCHANGED processes
    BY <2>3 DEF LoadState, PassStep
  <2>4. ASSUME NEW p \in Proc, CompareLabel(p) \/ EndPass(p) PROVE R!ForeverNext
    BY <2>4 DEF CompareLabel, EndPass, R!ForeverNext, R!Next, R!Step
  <2>5. ASSUME NEW p \in Proc, \E i \in events : Deliver(p, i) PROVE R!ForeverNext
    BY <2>5 DEF Deliver, R!ForeverNext
  <2>6. CASE UNCHANGED pluginVars
    BY <2>6 DEF pluginVars
  <2> QED BY <1>1, <2>1, <2>2, <2>3, <2>4, <2>5, <2>6, StepKinds
<1> QED BY <1>1, CoreHolds, PTL DEF PluginSpec

(***************************************************************************)
(* So what ReconcilerProofs says of names and labels is true of the plugin  *)
(* as Herdr runs it, with all its processes and reports.                    *)
(***************************************************************************)
THEOREM PluginKeepsNames ==
  PluginSpec => [](UserNameKept /\ OwnLabelRecognised /\ ClaimsOnlyOwnLabels)
<1>1. CoreInv => UserNameKept /\ OwnLabelRecognised /\ ClaimsOnlyOwnLabels
  BY NamesKept, LabelsRecognised, ClaimsAreOwn DEF CoreInv
<1> QED BY <1>1, CoreHolds, PTL

-----------------------------------------------------------------------------
(* What is owed stays owed until a pass begins with it *)

(***************************************************************************)
(* An invocation for all tabs or for one that was renamed remains           *)
(* outstanding, or a full one takes its place, until a pass begins with it, *)
(* or the report of a rename turns out to be of the plugin's own.           *)
(***************************************************************************)
LEMMA OutstandingStep ==
  ASSUME ProcessInv, [PluginNext]_pluginVars, NEW i \in Outstanding, NEW j,
         i.op \in {"full", "workspace", "closed_tab", "renamed"},
         j = IF i.op = "renamed" THEN i ELSE Full
  PROVE  \/ i \in Outstanding'
         \/ j \in Outstanding'
         \/ \E p \in Proc : PassFor(p, i) \/ PassFor(p, j)
         \/ \E p \in Proc : CompareLabel(p) /\ Dismissed(p) /\ work[p] = i
<1> DEFINE Result == \/ i \in Outstanding'
                     \/ j \in Outstanding'
                     \/ \E p \in Proc : PassFor(p, i) \/ PassFor(p, j)
                     \/ \E p \in Proc : CompareLabel(p) /\ Dismissed(p) /\ work[p] = i
<1>1. /\ proc \in [Proc -> Places] /\ work \in [Proc -> Reported]
      /\ markers \subseteq Proc /\ events \subseteq Reported
  BY DEF ProcessInv, WorkInv, PlaceInv
<1>2. ASSUME NEW p \in Proc, work[p] = i PROVE Deferred(work[p]) = j
  BY <1>1, <1>2, DeferredReported, ReportedFields
<1>3. \/ i \in events
      \/ \E q \in Proc : proc[q] \in Ahead /\ i = work[q]
      \/ \E q \in markers : i = Deferred(work[q])
  BY DEF Outstanding
<1>4. /\ events' \subseteq Outstanding'
      /\ \A q \in Proc : proc'[q] \in Ahead => work'[q] \in Outstanding'
      /\ \A q \in markers' : Deferred(work'[q]) \in Outstanding'
  BY DEF Outstanding
<1>r. /\ i \in Outstanding' => Result
      /\ j \in Outstanding' => Result
      /\ \A p \in Proc : PassFor(p, i) \/ PassFor(p, j) => Result
      /\ \A p \in Proc : CompareLabel(p) /\ Dismissed(p) /\ work[p] = i => Result
  OBVIOUS
<1> HIDE DEF Result
<1>5. ASSUME events \subseteq events', work' = work, markers \subseteq markers',
             \A q \in Proc : proc[q] \in Ahead =>
               proc'[q] \in Ahead \/ (q \in markers' /\ work[q].op \in Structural)
      PROVE  Result
  <2>1. CASE i \in events
    BY <1>4, <1>r, <1>5, <2>1
  <2>2. ASSUME NEW q \in Proc, proc[q] \in Ahead, i = work[q] PROVE Result
    <3>1. Deferred(work[q]) = j
      BY <1>2, <2>2
    <3> QED BY <1>4, <1>r, <1>5, <2>2, <3>1
  <2>3. ASSUME NEW q \in markers, i = Deferred(work[q]) PROVE Result
    BY <1>4, <1>r, <1>5, <2>3
  <2> QED BY <1>3, <2>1, <2>2, <2>3
<1>6. ASSUME ChangeSession PROVE Result
  <2>1. UNCHANGED <<proc, markers, work>>
    BY <1>6 DEF ChangeSession, processes, plugin
  <2>2. events \subseteq events'
    BY <1>6 DEF ChangeSession, Change, Report
  <2> QED BY <1>5, <2>1, <2>2
<1>7. ASSUME NEW p \in Proc, Coordinate(p) PROVE Result
  <2>1. UNCHANGED <<work, events>> /\ (NoPass(p) \/ \E k \in Reported : PassFor(p, k))
    BY <1>7, CoordinateEffect DEF Coordinated
  <2>2. CASE NoPass(p)
    <3>1. PICK l \in Places \ {"pass"} :
            /\ proc' = [proc EXCEPT ![p] = l]
            /\ proc[p] \in Ahead /\ work[p].op \in Structural => l \in Ahead \/ p \in markers'
      BY <2>2 DEF NoPass, MovesTo
    <3>2. markers \subseteq markers'
      BY <2>2 DEF NoPass
    <3>3. CASE i \in events
      BY <1>4, <1>r, <2>1, <3>3
    <3>4. ASSUME NEW q \in Proc, proc[q] \in Ahead, i = work[q] PROVE Result
      <4>1. Deferred(work[q]) = j /\ work[q].op \in Structural
        BY <1>2, <3>4 DEF Structural
      <4>2. proc'[q] \in Ahead \/ q \in markers'
        BY <1>1, <3>1, <3>4, <4>1
      <4> QED BY <1>4, <1>r, <2>1, <3>4, <4>1, <4>2
    <3>5. ASSUME NEW q \in markers, i = Deferred(work[q]) PROVE Result
      BY <1>4, <1>r, <2>1, <3>2, <3>5
    <3> QED BY <1>3, <3>3, <3>4, <3>5
  <2>3. ASSUME NEW k \in Reported, PassFor(p, k) PROVE Result
    <3>1. /\ proc' = [proc EXCEPT ![p] = "pass"]
          /\ \/ k = work[p] /\ markers' = markers
             \/ proc[p] \notin Ahead /\ \E q \in markers : k = Deferred(work[q]) /\ markers' = markers \ {q}
      BY <2>3 DEF PassFor, MovesTo
    <3>2. CASE i \in events
      BY <1>4, <1>r, <2>1, <3>2
    <3>3. ASSUME NEW q \in Proc, proc[q] \in Ahead, i = work[q] PROVE Result
      <4>1. CASE q = p
        BY <1>r, <2>3, <3>1, <3>3, <4>1
      <4>2. CASE q # p
        BY <1>1, <1>4, <1>r, <2>1, <3>1, <3>3, <4>2
      <4> QED BY <4>1, <4>2
    <3>4. ASSUME NEW q \in markers, i = Deferred(work[q]) PROVE Result
      <4>1. CASE q \in markers'
        BY <1>4, <1>r, <2>1, <3>4, <4>1
      <4>2. CASE q \notin markers'
        BY <1>r, <2>3, <3>1, <3>4, <4>2
      <4> QED BY <4>1, <4>2
    <3> QED BY <1>3, <3>2, <3>3, <3>4
  <2> QED BY <2>1, <2>2, <2>3
<1>8. ASSUME NEW p \in Proc, LoadState(p) PROVE Result
  BY <1>5, <1>8 DEF LoadState, processes
<1>9. ASSUME NEW p \in Proc, CompareLabel(p) PROVE Result
  <2>1. /\ UNCHANGED <<work, events, markers>>
        /\ \/ Dismissed(p)
           \/ proc' = [proc EXCEPT ![p] = "publish"]
        /\ \E l : proc' = [proc EXCEPT ![p] = l]
    BY <1>9, CompareEffect DEF MovesTo
  <2>2. CASE Dismissed(p)
    <3>1. \A q \in Proc \ {p} : proc'[q] = proc[q]
      BY <1>1, <2>1
    <3> QED BY <1>3, <1>4, <1>r, <1>9, <2>1, <2>2, <3>1
  <2>3. CASE proc' = [proc EXCEPT ![p] = "publish"]
    <3>1. \A q \in Proc : proc[q] \in Ahead => proc'[q] \in Ahead
      BY <1>1, <2>3 DEF Ahead
    <3> QED BY <1>5, <2>1, <3>1
  <2> QED BY <2>1, <2>2, <2>3
<1>10. ASSUME NEW p \in Proc, NEW k \in events, Deliver(p, k) PROVE Result
  <2>1. /\ proc[p] = "done" /\ p \notin markers /\ proc' = [proc EXCEPT ![p] = "idle"]
        /\ work' = [work EXCEPT ![p] = k] /\ events' = events \ {k} /\ markers' = markers
    BY <1>10, DeliverEffect
  <2>2. k \in Outstanding'
    BY <1>1, <1>4, <1>r, <2>1 DEF Ahead
  <2>3. CASE i \in events
    BY <1>4, <1>r, <2>1, <2>2, <2>3
  <2>4. ASSUME NEW q \in Proc, proc[q] \in Ahead, i = work[q] PROVE Result
    <3>1. q # p
      BY <2>1, <2>4 DEF Ahead
    <3> QED BY <1>1, <1>4, <1>r, <2>1, <2>4, <3>1
  <2>5. ASSUME NEW q \in markers, i = Deferred(work[q]) PROVE Result
    BY <1>1, <1>4, <1>r, <2>1, <2>5
  <2> QED BY <1>3, <2>3, <2>4, <2>5
<1>11. ASSUME NEW p \in Proc, PassStep(p) PROVE Result
  <2>1. UNCHANGED <<proc, markers, work>>
    BY <1>11 DEF PassStep, processes, plugin
  <2>2. events \subseteq events'
    BY <1>11 DEF PassStep, RenameTab, Report
  <2> QED BY <1>5, <2>1, <2>2
<1>12. ASSUME NEW p \in Proc, EndPass(p) PROVE Result
  <2>1. /\ proc[p] = "pass" /\ UNCHANGED <<markers, work, events>>
        /\ \E l : proc' = [proc EXCEPT ![p] = l]
    BY <1>12, EndEffect DEF MovesTo
  <2>2. \A q \in Proc : proc[q] \in Ahead => proc'[q] \in Ahead
    BY <1>1, <2>1 DEF Ahead
  <2> QED BY <1>5, <2>1, <2>2
<1>13. ASSUME UNCHANGED pluginVars PROVE Result
  BY <1>5, <1>13 DEF pluginVars, processes, plugin
<1>14. Result
  BY <1>6, <1>7, <1>8, <1>9, <1>10, <1>11, <1>12, <1>13, StepKinds
<1> QED BY <1>14 DEF Result

\* The steps, by what they do to the session, the state and the pass.
LEMMA KindsOfSteps ==
  ASSUME CoreInv, [PluginNext]_pluginVars
  PROVE  \/ ChangeSession
         \/ \E p \in Proc, i \in Reported : PassFor(p, i)
         \/ TakeSnapshot \/ SkipTab \/ PlanTab \/ GuardRead \/ RenameTab
         \/ Finish \/ IgnoreClosedPane
         \/ UNCHANGED vars
<1>1. ASSUME NEW p \in Proc, Coordinate(p)
      PROVE  (\E i \in Reported : PassFor(p, i)) \/ UNCHANGED vars
  BY <1>1, CoordinateEffect DEF Coordinated, NoPass, CoreInv
<1>2. ASSUME NEW p \in Proc, LoadState(p) \/ CompareLabel(p) \/ \E i \in events : Deliver(p, i)
      PROVE  UNCHANGED vars
  BY <1>2 DEF LoadState, CompareLabel, Deliver
<1>3. ASSUME NEW p \in Proc, PassStep(p) \/ EndPass(p)
      PROVE  \/ TakeSnapshot \/ SkipTab \/ PlanTab \/ GuardRead \/ RenameTab
             \/ Finish \/ IgnoreClosedPane
  BY <1>3 DEF PassStep, EndPass
<1>4. UNCHANGED pluginVars => UNCHANGED vars
  BY DEF pluginVars
<1> QED BY <1>1, <1>2, <1>3, <1>4, StepKinds

-----------------------------------------------------------------------------
(* The inductive invariant: entries, when nobody asks for a reset, a toggle *)
(* or a clear                                                               *)

PlainSet ==
  {Unowned, Manual} \cup OwnedSet
    \cup {o \in PendingSet : /\ o.previous # Reset
                             /\ o.previous.own = "owned" => (o.previous.shown = o.observed)}

PlainInv ==
  /\ pc # "idle" => inv \in Reported
  /\ Working => as = inv \/ (as.op = "closed_tab" /\ inv.op \in {"closed_pane", "tab"})
  /\ \A t \in Tab : disk.tabs[t] \in PlainSet /\ mem.tabs[t] \in PlainSet

LEMMA PlainFields ==
  ASSUME NEW o \in PlainSet
  PROVE  /\ o \in OwnershipSet /\ o # Reset /\ o # Disabled
         /\ o.own = "pending" => /\ o \in PendingSet /\ o.previous \in {Unowned} \cup OwnedSet
                                 /\ o.previous.own = "owned" => (o.previous.shown = o.observed)
<1>1. o \in OwnershipSet
  BY SimpleOwnership DEF PlainSet
<1>2. o # Reset /\ o # Disabled
  BY DEF PlainSet, Unowned, Manual, Reset, Disabled, OwnedSet, PendingSet
<1>3. ASSUME o.own = "pending"
      PROVE  /\ o \in PendingSet /\ o.previous \in {Unowned} \cup OwnedSet
             /\ o.previous.own = "owned" => (o.previous.shown = o.observed)
  <2>1. o \in PendingSet /\ o \notin OwnedSet /\ o # Unowned /\ o # Manual
    BY <1>1, <1>3, OwnershipKinds DEF Unowned, Manual, OwnedSet
  <2> QED BY <2>1, PendingFields DEF PlainSet
<1> QED BY <1>1, <1>2, <1>3

LEMMA PlainSimple == {Unowned, Manual} \cup OwnedSet \subseteq PlainSet
BY DEF PlainSet

LEMMA PlainResolve ==
  ASSUME NEW o \in PlainSet, NEW l \in Label
  PROVE  Resolve(o, l) \in PlainSet
<1>1. CASE o.own # "pending"
  BY <1>1 DEF Resolve
<1>2. CASE o.own = "pending"
  <2>1. o \in PendingSet /\ o.previous \in {Unowned} \cup OwnedSet
    BY <1>2, PlainFields
  <2>2. Owned(o.base, o.desired) \in OwnedSet
    BY <2>1, PendingFields, OwnedType
  <2> QED BY <1>2, <2>1, <2>2, PlainSimple DEF Resolve
<1> QED BY <1>1, <1>2

LEMMA PlainEntry ==
  ASSUME StateInv, NEW t \in Tab, mem.tabs[t] \in PlainSet
  PROVE  Ownership(t) \in PlainSet /\ Entry(t) \in PlainSet
<1>1. Ownership(t) \in {Manual, mem.tabs[t]}
  BY DEF Ownership
<1> QED BY <1>1, OwnershipFacts, PlainSimple

LEMMA PlainPending ==
  ASSUME StateInv, NEW t \in Tab, mem.tabs[t] \in PlainSet, Seen(t) \in Label,
         NEW desired \in Label, NEW base \in Names, Strip(desired) = base
  PROVE  LET o == Pending(Seen(t), desired, base, Previous(Ownership(t)))
         IN  /\ o \in PlainSet /\ o \in PendingSet /\ o.own = "pending"
             /\ o.observed = Seen(t) /\ o.desired = desired /\ o.base = base
             /\ o.previous = Previous(Ownership(t))
<1> DEFINE previous == Previous(Ownership(t))
           o == Pending(Seen(t), desired, base, previous)
<1>1. Ownership(t) \in PlainSet /\ previous \in {Unowned, Reset} \cup OwnedSet
  BY PlainEntry, OwnershipFacts
<1>2. previous # Reset
  BY <1>1, PlainFields DEF Previous, Unowned, Reset
<1>3. previous.own = "owned" => previous.shown = Seen(t)
  BY OwnershipFacts DEF Previous, Unowned, Reset
<1> HIDE DEF previous
<1>4. /\ o \in PendingSet /\ o.own = "pending" /\ o.observed = Seen(t) /\ o.desired = desired
      /\ o.base = base /\ o.previous = previous
  BY <1>1, PendingType
<1> HIDE DEF o
<1>5. o \in PlainSet
  BY <1>2, <1>3, <1>4 DEF PlainSet
<1> QED BY <1>4, <1>5 DEF previous, o

(***************************************************************************)
(* The entry that reconcile_tab leaves, whichever way it goes.              *)
(***************************************************************************)
LEMMA EntryLeft ==
  ASSUME TypeInv, NEW computed \in Computed(Target), pc = "plan", todo # <<>>,
         mem.tabs[Target] \in PlainSet,
         NothingToRename(computed) \/ RenamePlanned(computed)
  PROVE  LET base    == DesiredBase(Target, computed)
             desired == Desired(Target, base)
             owned   == PluginOwned(Target, computed)
         IN  /\ mem'.tabs[Target] \in PlainSet
             /\ ~owned => mem'.tabs[Target] = Entry(Target)
             /\ owned => base \in Names /\ Strip(desired) = base /\ desired \in Label
             /\ owned => IF desired = Seen(Target)
                         THEN mem'.tabs[Target] = Owned(base, desired)
                         ELSE mem'.tabs[Target] = Pending(Seen(Target), desired, base,
                                                          Previous(Ownership(Target)))
<1> DEFINE base    == DesiredBase(Target, computed)
           desired == Desired(Target, base)
           owned   == PluginOwned(Target, computed)
           pending == Pending(Seen(Target), desired, base, Previous(Ownership(Target)))
<1>1. /\ Target \in Tab /\ Target \in Range(snap.order) /\ Seen(Target) \in Label
      /\ StateInv /\ PassInv /\ mem \in StateSet
  BY TargetType DEF TypeInv, StateInv
<1>2. desired \in Label /\ (owned => base \in Names /\ Strip(desired) = base)
  BY <1>1, Decision
<1>3. PICK entry :
        /\ mem' = SetOwnership(mem, Target, entry)
        /\ ~owned => entry = Entry(Target)
        /\ owned => IF desired = Seen(Target) THEN entry = Owned(base, desired) ELSE entry = pending
  BY DEF NothingToRename, RenamePlanned, Proceed
<1> HIDE DEF owned, base, desired
<1>4. mem'.tabs[Target] = entry
  BY <1>1, <1>3 DEF SetOwnership, StateSet
<1>5. ~owned => entry \in PlainSet
  BY <1>1, <1>3, PlainEntry
<1>6. owned => Owned(base, desired) \in PlainSet
  BY <1>2, OwnedType, PlainSimple
<1>7. owned => pending \in PlainSet
  BY <1>1, <1>2, PlainPending
<1>8. entry \in PlainSet
  BY <1>3, <1>5, <1>6, <1>7
<1>9. /\ mem'.tabs[Target] \in PlainSet
      /\ ~owned => mem'.tabs[Target] = Entry(Target)
      /\ owned => base \in Names /\ Strip(desired) = base /\ desired \in Label
      /\ owned => IF desired = Seen(Target) THEN mem'.tabs[Target] = Owned(base, desired)
                  ELSE mem'.tabs[Target] = pending
  BY <1>2, <1>3, <1>4, <1>8
<1> QED BY <1>9 DEF owned, base, desired

LEMMA PlainStep ==
  ASSUME CoreInv, PlainInv, [PluginNext]_pluginVars, CoreInv'
  PROVE  PlainInv'
<1>1. /\ TypeInv /\ SessionInv /\ StateInv /\ PassInv /\ PlanInv
      /\ disk \in StateSet /\ mem \in StateSet /\ label \in [Tab -> Label]
  BY DEF CoreInv, AllInv, TypeInv, StateInv, SessionInv
<1>2. \A t \in Tab : disk.tabs[t] \in PlainSet /\ mem.tabs[t] \in PlainSet
  BY DEF PlainInv
<1>3. CASE UNCHANGED <<disk, mem, pc, inv, as>>
  BY <1>3 DEF PlainInv, Working
<1>4. CASE ChangeSession
  <2>1. UNCHANGED <<disk, mem, pass>>
    BY <1>1, <1>4, ChangeEffect, SessionStep DEF ChangeSession
  <2> QED BY <1>3, <2>1 DEF pass
<1>5. ASSUME NEW p \in Proc, NEW i \in Reported, PassFor(p, i) PROVE PlainInv'
  <2>1. i \in Invocation /\ i.op # "reset" /\ Begin(i)
    BY <1>5, ReportedFields DEF PassFor
  <2>2. disk' = mem' /\ \A t \in Tab : mem'.tabs[t] = disk.tabs[t]
    BY <1>1, <2>1, BeginEntries
  <2>3. inv' = i /\ pc' = "snapshot"
    BY <2>1 DEF Begin
  <2> QED BY <1>2, <2>2, <2>3 DEF PlainInv, Working
<1>6. CASE TakeSnapshot
  <2>1. /\ pc = "snapshot" /\ mem' = Recovered /\ pc' = "plan" /\ inv' = inv
        /\ disk' = IF inv.op = "toggle" THEN mem' ELSE disk
        /\ as' = IF Vanished THEN [op |-> "closed_tab", ws |-> VanishedFrom] ELSE inv
    BY <1>6 DEF TakeSnapshot
  <2>2. inv \in Reported
    BY <2>1 DEF PlainInv
  <2>3. inv \in Invocation /\ inv.op # "toggle"
    BY <2>2, ReportedFields
  <2>4. Vanished => inv.op \in {"closed_pane", "tab"}
    BY DEF Vanished, WasLastPane, MappedTab
  <2>5. \A t \in Tab : mem'.tabs[t] = Removed(t)
    BY <1>1, <2>1, <2>3, RecoveredEntries
  <2>6. \A t \in Tab : Resolve(mem.tabs[t], label[t]) \in PlainSet
    BY <1>1, <1>2, PlainResolve
  <2>7. \A t \in Tab : mem'.tabs[t] \in PlainSet
    BY <1>2, <2>5, <2>6, PlainSimple DEF Removed
  <2>8. as' = inv \/ (as'.op = "closed_tab" /\ inv.op \in {"closed_pane", "tab"})
    BY <2>1, <2>4
  <2> QED BY <1>2, <2>1, <2>2, <2>3, <2>7, <2>8 DEF PlainInv
<1>7. ASSUME SkipTab \/ PlanTab \/ GuardRead \/ Rename, mem'.tabs[Head(todo)] \in PlainSet
      PROVE  PlainInv'
  <2>1. /\ Working /\ pc' \in {"plan", "guard", "rename"} /\ UNCHANGED <<inv, as>>
        /\ disk' \in {disk, mem'} /\ \A t \in Tab \ {Head(todo)} : mem'.tabs[t] = mem.tabs[t]
    BY <1>1, <1>7, LoopStep
  <2>2. \A t \in Tab : mem'.tabs[t] \in PlainSet
    BY <1>2, <1>7, <2>1
  <2> QED BY <1>2, <2>1, <2>2 DEF PlainInv, Working
<1>8. ASSUME SkipTab PROVE PlainInv'
  <2>1. Target \in Tab /\ (mem' = mem \/ mem' = SetOwnership(mem, Target, Manual))
    BY <1>1, <1>8, TargetType DEF SkipTab, Proceed
  <2>2. mem'.tabs[Target] \in {mem.tabs[Target], Manual}
    BY <1>1, <2>1 DEF SetOwnership, StateSet
  <2> QED BY <1>2, <1>7, <1>8, <2>1, <2>2, PlainSimple DEF Target
<1>9. ASSUME PlanTab PROVE PlainInv'
  <2>1. Target \in Tab /\ pc = "plan" /\ todo # <<>>
    BY <1>1, <1>9, TargetType, PlanTabCases
  <2>2. PICK computed \in Computed(Target) :
          Proceed(mem) \/ NothingToRename(computed) \/ RenamePlanned(computed)
    BY <1>9, PlanTabCases
  <2>3. CASE Proceed(mem)
    BY <1>2, <1>7, <1>9, <2>1, <2>3 DEF Target, Proceed
  <2>4. CASE NothingToRename(computed) \/ RenamePlanned(computed)
    <3>1. mem'.tabs[Target] \in PlainSet
      BY <1>1, <1>2, <2>1, <2>4, EntryLeft
    <3> QED BY <1>7, <1>9, <3>1 DEF Target
  <2> QED BY <2>2, <2>3, <2>4
<1>10. ASSUME GuardRead PROVE PlainInv'
  <2> DEFINE new == Resolve(mem.tabs[plan.tab], label[plan.tab])
  <2>1. plan.tab = Head(todo) /\ plan.tab \in Tab
    BY <1>1, <1>10, PlannedType DEF GuardRead
  <2>2. new \in PlainSet
    BY <1>1, <1>2, <2>1, PlainResolve
  <2>3. mem' = mem \/ mem' = SetOwnership(mem, plan.tab, new)
    BY <1>10 DEF GuardRead, Proceed
  <2> HIDE DEF new
  <2>4. mem'.tabs[plan.tab] \in {mem.tabs[plan.tab], new}
    BY <1>1, <2>1, <2>3 DEF SetOwnership, StateSet
  <2> QED BY <1>2, <1>7, <1>10, <2>1, <2>2, <2>4
<1>11. ASSUME Rename PROVE PlainInv'
  <2>1. plan.tab = Head(todo) /\ plan.tab \in Tab /\ pc = "rename"
    BY <1>1, <1>11, PlannedType DEF Rename
  <2>2. plan.owned => Owned(plan.base, plan.desired) \in PlainSet
    <3> SUFFICES ASSUME plan.owned PROVE Owned(plan.base, plan.desired) \in PlainSet
      OBVIOUS
    <3>1. plan.base \in Names /\ Strip(plan.desired) = plan.base /\ plan.desired \in Label
      BY <1>1, <2>1, PlannedType DEF PlanInv
    <3> QED BY <3>1, OwnedType, PlainSimple
  <2>3. mem' = mem \/ (plan.owned /\ mem' = SetOwnership(mem, plan.tab, Owned(plan.base, plan.desired)))
    BY <1>11 DEF Rename
  <2>4. mem'.tabs[plan.tab] = mem.tabs[plan.tab]
        \/ (plan.owned /\ mem'.tabs[plan.tab] = Owned(plan.base, plan.desired))
    BY <1>1, <2>1, <2>3 DEF SetOwnership, StateSet
  <2> QED BY <1>2, <1>7, <1>11, <2>1, <2>2, <2>4
<1>12. CASE Finish \/ IgnoreClosedPane
  <2>1. /\ pc' = "idle" /\ mem' = EmptyState /\ inv \in Reported
        /\ \/ disk' = mem \/ \E tabs : disk' = Prune(mem, tabs)
           \/ disk' = Refresh(mem, place, Open)
    BY <1>12 DEF Finish, IgnoreClosedPane, EndOfPass, PlainInv
  <2>2. \A t \in Tab : disk'.tabs[t] \in {mem.tabs[t], Unowned}
    <3>1. ASSUME NEW tabs, disk' = Prune(mem, tabs) PROVE \A t \in Tab : disk'.tabs[t] \in {mem.tabs[t], Unowned}
      BY <1>1, <3>1, PruneType
    <3>2. Refresh(mem, place, Open).tabs = mem.tabs
      BY <1>1, OpenType, RefreshType
    <3> QED BY <2>1, <3>1, <3>2
  <2>3. \A t \in Tab : mem'.tabs[t] = Unowned
    BY <2>1 DEF EmptyState
  <2> QED BY <1>2, <2>1, <2>2, <2>3, PlainSimple DEF PlainInv, Working
<1>13. UNCHANGED vars => UNCHANGED <<disk, mem, pc, inv, as>>
  BY DEF vars, pass
<1> QED BY <1>3, <1>4, <1>5, <1>6, <1>8, <1>9, <1>10, <1>11, <1>12, <1>13, KindsOfSteps DEF RenameTab

LEMMA PlainInit == PluginInit => PlainInv
<1> SUFFICES ASSUME PluginInit PROVE PlainInv
  OBVIOUS
<1>1. /\ pc = "idle" /\ mem = EmptyState /\ label = [t \in Tab |-> Shown(t)]
      /\ disk.tabs = [t \in Tab |-> IF t \in Range(FirstOrder)
                                     THEN Owned(FirstName, Shown(t)) ELSE Unowned]
  BY DEF PluginInit
<1>2. \A t \in Range(FirstOrder) : t \in Tab /\ Owned(FirstName, Shown(t)) \in OwnedSet
  <2> TAKE t \in Range(FirstOrder)
  <2>1. t \in Tab /\ t \in Open /\ Shown(t) \in Label /\ Strip(Shown(t)) = FirstName
    BY <1>1, FirstTabs
  <2> QED BY <2>1, OwnedType, PluginAssumption
<1> QED BY <1>1, <1>2, PlainSimple DEF PlainInv, Working, EmptyState

-----------------------------------------------------------------------------
(* The inductive invariant: renames of the user *)

\* The entry of a tab that counts: the loaded one, while a pass is under way.
Current(t) == IF pc = "idle" THEN disk.tabs[t] ELSE mem.tabs[t]

\* Herdr's report of a rename is still to be acted on.
Announced(t) == TabRenamed(t) \in Outstanding

UserNamed(t) ==
  t \in Open /\ typed[t] # NoName /\ typed[t].during # "number" /\ author[t] = "user"

\* Either the tab is the user's already, or a pass is going to make it so.
Registering(t) ==
  \/ Announced(t)
  \/ pc = "snapshot" /\ inv = TabRenamed(t)
  \/ ~Working /\ Current(t) = Manual
  \/ /\ Working /\ Seen(t) = label[t] /\ t \in Range(snap.order)
     /\ mem.tabs[t] = Manual \/ t \in Undecided

RegisterInv ==
  /\ \A t \in Tab \ Open : author[t] # "user"
  /\ \A t \in Tab : UserNamed(t) => IsUserText(FromText(label[t])) /\ Registering(t)

\* Herdr reports every new label.
LEMMA LabelsReported ==
  ASSUME CoreInv, [PluginNext]_pluginVars, NEW t \in Tab, label'[t] # label[t]
  PROVE  Announced(t)'
<1>1. ChangeSession \/ \E p \in Proc : PassStep(p) /\ RenameTab
  <2>1. ASSUME NEW p \in Proc, Coordinate(p) PROVE FALSE
    <3>1. (\E i \in Reported : PassFor(p, i)) \/ UNCHANGED vars
      BY <2>1, CoordinateEffect DEF Coordinated, NoPass, CoreInv
    <3> QED BY <3>1 DEF PassFor, Begin, vars, session
  <2>2. ASSUME NEW p \in Proc, PassStep(p), ~RenameTab PROVE FALSE
    BY <2>2 DEF PassStep, TakeSnapshot, SkipTab, PlanTab, GuardRead, Proceed, session
  <2>3. ASSUME NEW p \in Proc, EndPass(p) PROVE FALSE
    BY <2>3 DEF EndPass, Finish, IgnoreClosedPane, session
  <2>4. ASSUME NEW p \in Proc, LoadState(p) \/ CompareLabel(p) \/ \E i \in events : Deliver(p, i)
        PROVE  FALSE
    BY <2>4 DEF LoadState, CompareLabel, Deliver, vars, session
  <2>5. ASSUME UNCHANGED pluginVars PROVE FALSE
    BY <2>5 DEF pluginVars, vars, session
  <2> QED BY <2>1, <2>2, <2>3, <2>4, <2>5, StepKinds
<1>2. CASE ChangeSession
  <2>1. TabRenamed(t) \in events'
    BY <1>2, ChangeEffect DEF ChangeSession, CoreInv, AllInv, TypeInv
  <2> QED BY <2>1 DEF Announced, Outstanding
<1>3. CASE RenameTab
  <2>1. t \in Open
    BY <1>3 DEF RenameTab, Rename, Apply, CoreInv, AllInv, TypeInv, SessionInv
  <2>2. TabRenamed(t) \in events'
    BY <1>3, <2>1 DEF RenameTab, Report
  <2> QED BY <2>2 DEF Announced, Outstanding
<1> QED BY <1>1, <1>2, <1>3

(***************************************************************************)
(* The report of a rename that is not the plugin's own is not dismissed.    *)
(***************************************************************************)
LEMMA AnnouncedStays ==
  ASSUME CoreInv, [PluginNext]_pluginVars, NEW t \in Open, Announced(t),
         \A p \in Proc : loaded[p] # Nothing => ~OwnRename(loaded[p][1], t)
  PROVE  Announced(t)' \/ \E p \in Proc : PassFor(p, TabRenamed(t))
<1> DEFINE i == TabRenamed(t)
<1>1. i.op = "renamed" /\ i.tab = t /\ i \in Outstanding
  BY DEF TabRenamed, Announced
<1>2. ProcessInv
  BY DEF CoreInv
<1> HIDE DEF i
<1>3. \/ i \in Outstanding'
      \/ \E p \in Proc : PassFor(p, i)
      \/ \E p \in Proc : CompareLabel(p) /\ Dismissed(p) /\ work[p] = i
  BY <1>1, <1>2, OutstandingStep
<1>4. ASSUME NEW p \in Proc, CompareLabel(p), Dismissed(p), work[p] = i PROVE FALSE
  BY <1>1, <1>2, <1>4, CompareEffect DEF Dismissed
<1> QED BY <1>3, <1>4 DEF i, Announced

LEMMA UserTextNotDismissed ==
  ASSUME CoreInv, NEW t \in Open, IsUserText(FromText(label[t])), NEW p \in Proc, loaded[p] # Nothing
  PROVE  ~OwnRename(loaded[p][1], t)
<1> DEFINE o == loaded[p][1]
<1>1. o \in OwnershipSet /\ label[t] \in Label
  BY OpenType DEF CoreInv, AllInv, TypeInv, SessionInv, ProcessInv, LoadedInv
<1>2. FromText(label[t]) \notin Names
  BY DEF IsUserText
<1>3. o.own = "owned" => FromText(o.shown) \in Names
  BY <1>1, OwnershipKinds, OwnedFields, RenderedText
<1>4. o.own = "pending" => FromText(o.desired) \in Names
  BY <1>1, OwnershipKinds, PendingFields, RenderedText
<1> QED BY <1>2, <1>3, <1>4 DEF OwnRename

LEMMA UserReportStays ==
  ASSUME CoreInv, [PluginNext]_pluginVars, NEW t \in Open, Announced(t),
         IsUserText(FromText(label[t]))
  PROVE  Announced(t)' \/ (pc' = "snapshot" /\ inv' = TabRenamed(t))
<1>1. Announced(t)' \/ \E p \in Proc : PassFor(p, TabRenamed(t))
  BY AnnouncedStays, UserTextNotDismissed
<1> QED BY <1>1 DEF PassFor, Begin

-----------------------------------------------------------------------------
(* The decision about a tab that the user has named *)

LEMMA UserTabDecided ==
  ASSUME CoreInv, PlainInv, PlanTab, NEW t \in Open, t = Target,
         IsUserText(FromText(label[t])), Seen(t) = label[t]
  PROVE  mem'.tabs[t] = Manual
<1> DEFINE x == FromText(Seen(t))
<1>1. /\ TypeInv /\ StateInv /\ ResetInv /\ ResolvedInv
      /\ pc = "plan" /\ inv.op # "clear" /\ todo # <<>> /\ t \in Tab /\ t \in Range(todo)
      /\ Seen(t) \in Label
  BY PlanTabCases, TargetType DEF CoreInv, AllInv, TypeInv
<1>2. IsUserText(x) /\ x # <<>>
  BY DEF IsUserText, IsPlaceholder
<1>3. mem.tabs[t] \in PlainSet /\ mem.tabs[t].own # "pending"
  BY <1>1 DEF PlainInv, ResolvedInv, Undecided
<1>4. /\ mem.tabs[t] \in {Unowned, Manual} \cup OwnedSet
      /\ mem.tabs[t] \in OwnershipSet /\ mem.tabs[t] # Reset /\ mem.tabs[t] # Disabled
  BY <1>3, PlainFields, OwnershipKinds DEF OwnershipSet
<1>5. Protects(mem.tabs[t], x)
  BY <1>2, <1>3, <1>4, UserTextProtected
<1>6. ~Eligible(t)
  BY <1>1, <1>2, <1>5, UserLabelDecision
<1>7. ~InitialAdoption(t)
  <2>1. ~IsPlaceholder(Strip(Seen(t)))
    BY <1>1, <1>2, PlaceholderText DEF IsUserText
  <2> QED BY <2>1 DEF InitialAdoption
<1>8. PICK computed \in Computed(t) :
        \/ InitialAdoption(t)
        \/ NothingToRename(computed) \/ RenamePlanned(computed)
  BY PlanTabCases
<1>9. ~PluginOwned(t, computed)
  BY <1>6 DEF PluginOwned
<1>10. mem'.tabs[t] = Entry(t)
  BY <1>1, <1>3, <1>7, <1>8, <1>9, EntryLeft
<1>11. Ownership(t) \in {Unowned, Manual}
  <2>1. Ownership(t) \in {Manual, mem.tabs[t]}
    BY DEF Ownership
  <2>2. Ownership(t).own # "owned"
    BY <1>6 DEF Eligible
  <2> QED BY <1>4, <2>1, <2>2 DEF OwnedSet
<1>12. ~Forced(t) /\ ~Released(t)
  BY <1>6 DEF Eligible
<1> QED BY <1>6, <1>10, <1>11, <1>12 DEF Entry, Manual, Unowned

LEMMA UserTabSkipped ==
  ASSUME CoreInv, SkipTab, NEW t \in Open, t = Target,
         IsUserText(FromText(label[t])), Seen(t) = label[t]
  PROVE  mem'.tabs[t] = Manual
<1>1. mem \in StateSet /\ t \in Tab /\ Seen(t) \in Label
  BY TargetType DEF SkipTab, CoreInv, AllInv, TypeInv, StateInv
<1>2. ~InitialAdoption(t)
  <2>1. ~IsPlaceholder(Strip(Seen(t)))
    BY <1>1, PlaceholderText DEF IsUserText
  <2> QED BY <2>1 DEF InitialAdoption
<1>3. mem' = SetOwnership(mem, t, Manual)
  BY <1>2 DEF SkipTab, Proceed
<1> QED BY <1>1, <1>3 DEF SetOwnership, StateSet

-----------------------------------------------------------------------------
(* The steps *)

\* What the user has not just written was the user's before, with the same text.
LEMMA UserAuthorBefore ==
  ASSUME CoreInv, PlainInv, [PluginNext]_pluginVars, NEW t \in Tab, author'[t] = "user",
         ~ChangeSession
  PROVE  /\ typed'[t] = typed[t] /\ author[t] = "user" /\ Open' = Open
         /\ FromText(label'[t]) = FromText(label[t])
<1> DEFINE Same == /\ typed'[t] = typed[t] /\ author[t] = "user" /\ Open' = Open
                   /\ FromText(label'[t]) = FromText(label[t])
<1>1. /\ TypeInv /\ SessionInv /\ PassInv /\ PlanInv /\ label \in [Tab -> Label]
      /\ author \in [Tab -> {"herdr", "user", "plugin", "unclaimed"}]
      /\ pc # "idle" => inv.op \notin {"reset", "toggle", "clear"}
  <2>1. pc # "idle" => inv.op \notin {"reset", "toggle", "clear"}
    BY ReportedFields DEF PlainInv
  <2> QED BY <2>1 DEF CoreInv, AllInv, TypeInv, AuthorInv, SessionInv
<1>2. author'[t] = "user"
  OBVIOUS
<1>3. ASSUME UNCHANGED <<order, label, typed>>, author' = author PROVE Same
  BY <1>2, <1>3 DEF Open
<1>4. ASSUME NEW p \in Proc, NEW i \in Reported, PassFor(p, i) PROVE Same
  <2>1. i.op # "reset"
    BY ReportedFields
  <2> QED BY <1>3, <1>4, <2>1 DEF PassFor, Begin, session
<1>5. ASSUME TakeSnapshot PROVE Same
  BY <1>1, <1>3, <1>5 DEF TakeSnapshot, session
<1>6. ASSUME SkipTab \/ GuardRead PROVE Same
  BY <1>3, <1>6 DEF SkipTab, GuardRead, Proceed, session, history
<1>7. ASSUME PlanTab PROVE Same
  <2>1. UNCHANGED <<order, label, typed>> /\ Target \in Tab
    BY <1>1, <1>7, PlanTabCases, TargetType DEF PlanTab, Proceed, session
  <2>2. \/ author' = author
        \/ \E a : author' = [author EXCEPT ![Target] = a] /\ a \in {author[Target], "unclaimed"}
    BY <1>7, PlanTabCases DEF NothingToRename, RenamePlanned
  <2>3. author[t] = "user"
    BY <1>1, <1>2, <2>1, <2>2
  <2> QED BY <2>1, <2>3 DEF Open
<1>8. ASSUME Rename PROVE Same
  <2>1. /\ pc = "rename" /\ UNCHANGED <<order, typed>> /\ plan.tab \in Tab
        /\ Open' = Open
    BY <1>1, <1>8, PlannedType DEF Rename, Open
  <2>2. CASE plan.tab # t \/ plan.tab \notin Open
    BY <1>1, <1>2, <1>8, <2>1, <2>2 DEF Rename, Apply
  <2>3. CASE plan.tab = t /\ t \in Open
    <3>1. /\ label'[t] = plan.desired
          /\ author'[t] = IF plan.owned THEN "plugin"
                          ELSE IF inv.op = "clear" \/ label[t] # Seen(t) THEN "unclaimed" ELSE author[t]
      BY <1>1, <1>8, <2>3 DEF Rename, Apply
    <3>2. ~plan.owned /\ label[t] = Seen(t) /\ author[t] = "user"
      BY <1>2, <3>1
    <3>3. FromText(plan.desired) = FromText(Seen(t))
      BY <1>1, <2>1, <2>3, <3>2 DEF PlanInv
    <3> QED BY <2>1, <3>1, <3>2, <3>3
  <2> QED BY <2>2, <2>3
<1>9. ASSUME Finish \/ IgnoreClosedPane PROVE Same
  <2>1. pc # "idle"
    BY <1>9 DEF Finish, IgnoreClosedPane
  <2> QED BY <1>1, <1>3, <1>9, <2>1 DEF Finish, IgnoreClosedPane, session, history
<1>10. ASSUME UNCHANGED vars PROVE Same
  BY <1>3, <1>10 DEF vars, session, history
<1> HIDE DEF Same
<1>11. Same
  BY <1>4, <1>5, <1>6, <1>7, <1>8, <1>9, <1>10, KindsOfSteps DEF RenameTab
<1> QED BY <1>11 DEF Same

\* A pass does not lose a tab that is the user's, or that it is going to look at.
LEMMA UserStays ==
  ASSUME CoreInv, PlainInv, [PluginNext]_pluginVars, ~ChangeSession, NEW t \in Tab, t \in Open,
         IsUserText(FromText(label[t])), label'[t] = label[t], Registering(t), ~Announced(t)
  PROVE  Registering(t)'
<1>1. /\ TypeInv /\ SessionInv /\ StateInv /\ PassInv /\ PlanInv
      /\ mem \in StateSet /\ disk \in StateSet
  BY DEF CoreInv, AllInv, TypeInv, StateInv
<1>2. pc # "idle" => inv \in Reported /\ inv \in Invocation /\ inv.op \notin {"reset", "toggle", "clear"}
  BY ReportedFields DEF PlainInv
<1>3. \A l : Resolve(Manual, l) = Manual
  BY DEF Resolve, Manual
<1>4. ASSUME NEW p \in Proc, NEW i \in Reported, PassFor(p, i) PROVE Registering(t)'
  <2>1. Begin(i) /\ i \in Invocation /\ i.op # "reset"
    BY <1>4, ReportedFields DEF PassFor
  <2>2. pc = "idle" /\ pc' = "snapshot"
    BY <2>1 DEF Begin
  <2>3. mem'.tabs[t] = disk.tabs[t]
    BY <1>1, <2>1, BeginEntries
  <2> QED BY <2>2, <2>3 DEF Registering, Working, Current
<1>5. ASSUME TakeSnapshot PROVE Registering(t)'
  <2> DEFINE D == {k \in DOMAIN order : InScope(as', order[k], MappedTab)}
  <2>1. /\ pc = "snapshot" /\ pc' = "plan" /\ mem' = Recovered /\ UNCHANGED session
        /\ as' = IF Vanished THEN [op |-> "closed_tab", ws |-> VanishedFrom] ELSE inv
        /\ snap' = [order |-> order, label |-> label] /\ todo' = SelectAt(order, D)
    BY <1>5 DEF TakeSnapshot
  <2>2. Range(snap'.order) = Open /\ snap'.label = label /\ Range(todo') = {order[k] : k \in D}
    BY <1>1, <2>1, SnapshotType
  <2>3. mem.tabs[t] = Manual \/ inv = TabRenamed(t)
    BY <2>1 DEF Registering, Working, Current
  <2>4. ASSUME mem.tabs[t] = Manual PROVE mem'.tabs[t] = Manual
    <3>1. mem'.tabs[t] = Removed(t)
      BY <1>1, <1>2, <2>1, RecoveredEntries
    <3> QED BY <1>3, <2>4, <3>1 DEF Removed, WasLastPane
  <2>5. ASSUME inv = TabRenamed(t) PROVE t \in Undecided'
    <3>1. inv.op = "renamed" /\ inv.tab = t
      BY <2>5 DEF TabRenamed
    <3>2. as' = inv
      BY <2>1, <3>1 DEF Vanished, WasLastPane, MappedTab
    <3>3. InScope(as', t, MappedTab)
      BY <3>1, <3>2 DEF InScope
    <3>4. PICK k \in DOMAIN order : order[k] = t
      BY DEF Open, Range
    <3> QED BY <2>1, <2>2, <3>3, <3>4 DEF Undecided
  <2> QED BY <2>1, <2>2, <2>3, <2>4, <2>5 DEF Registering, Working, Seen
<1>6. ASSUME SkipTab \/ PlanTab \/ GuardRead \/ Rename,
             t = Head(todo) /\ Seen(t) = label[t] /\ (mem.tabs[t] = Manual \/ t \in Undecided)
               => mem'.tabs[t] = Manual
      PROVE  Registering(t)'
  <2>1. /\ Working /\ pc' \in {"plan", "guard", "rename"} /\ snap' = snap
        /\ \A u \in Tab \ {Head(todo)} : mem'.tabs[u] = mem.tabs[u]
        /\ Undecided' = Undecided \ {Head(todo)}
    BY <1>1, <1>6, LoopStep
  <2>2. /\ Seen(t) = label[t] /\ t \in Range(snap.order)
        /\ mem.tabs[t] = Manual \/ t \in Undecided
    BY <2>1 DEF Registering, Working
  <2>3. mem'.tabs[t] = Manual \/ t \in Undecided'
    BY <1>6, <2>1, <2>2
  <2> QED BY <2>1, <2>2, <2>3 DEF Registering, Working, Seen
<1>7. ASSUME SkipTab PROVE Registering(t)'
  BY <1>6, <1>7, UserTabSkipped DEF Target
<1>8. ASSUME PlanTab PROVE Registering(t)'
  BY <1>6, <1>8, UserTabDecided DEF Target
<1>9. ASSUME GuardRead PROVE Registering(t)'
  <2>1. pc = "guard" /\ plan.tab = Head(todo) /\ plan.tab \in Tab /\ plan.tab \notin Range(Tail(todo))
    BY <1>1, <1>9, PlannedType DEF GuardRead
  <2>2. ASSUME t = Head(todo), mem.tabs[t] = Manual \/ t \in Undecided PROVE mem'.tabs[t] = Manual
    <3>1. mem.tabs[t] = Manual
      BY <2>1, <2>2 DEF Undecided
    <3>2. \/ mem' = mem
          \/ mem' = SetOwnership(mem, t, Resolve(mem.tabs[t], label[t]))
      BY <1>9, <2>1, <2>2 DEF GuardRead, Proceed
    <3> QED BY <1>1, <1>3, <3>1, <3>2 DEF SetOwnership, StateSet
  <2> QED BY <1>6, <1>9, <2>2
<1>10. ASSUME Rename PROVE Registering(t)'
  <2>1. pc = "rename" /\ plan.tab = Head(todo) /\ plan.tab \in Tab /\ plan.tab \notin Range(Tail(todo))
    BY <1>1, <1>10, PlannedType DEF Rename
  <2>2. ASSUME t = Head(todo), mem.tabs[t] = Manual \/ t \in Undecided PROVE mem'.tabs[t] = Manual
    <3>1. mem.tabs[t] = Manual
      BY <2>1, <2>2 DEF Undecided
    <3>2. ~plan.owned
      BY <1>1, <2>1, <2>2, <3>1 DEF PlanInv, Manual
    <3> QED BY <1>10, <3>1, <3>2 DEF Rename
  <2> QED BY <1>6, <1>10, <2>2
<1>11. ASSUME Finish PROVE Registering(t)'
  <2>1. /\ pc = "plan" /\ todo = <<>> /\ pc' = "idle" /\ inv.op # "clear"
        /\ disk' = mem \/ disk' = Prune(mem, Range(snap.order))
    BY <1>2, <1>11 DEF Finish, EndOfPass
  <2>2. t \in Range(snap.order) /\ mem.tabs[t] = Manual
    BY <2>1 DEF Registering, Working, Undecided, Range
  <2>3. disk'.tabs[t] = Manual
    BY <1>1, <2>1, <2>2, PruneType
  <2> QED BY <2>1, <2>3 DEF Registering, Working, Current
<1>12. ASSUME IgnoreClosedPane PROVE Registering(t)'
  <2>1. /\ pc = "snapshot" /\ pc' = "idle" /\ inv.op = "closed_pane"
        /\ disk' = Refresh(mem, place, Open)
    BY <1>12 DEF IgnoreClosedPane, EndOfPass
  <2>2. mem.tabs[t] = Manual
    BY <2>1 DEF Registering, Working, Current, TabRenamed
  <2>3. disk'.tabs[t] = Manual
    BY <1>1, <2>1, <2>2, OpenType, RefreshType
  <2> QED BY <2>1, <2>3 DEF Registering, Working, Current
<1>13. ASSUME UNCHANGED vars PROVE Registering(t)'
  BY <1>13 DEF vars, session, pass, Registering, Working, Current, Seen, TabRenamed, Undecided
<1> QED BY <1>4, <1>5, <1>7, <1>8, <1>9, <1>10, <1>11, <1>12, <1>13, KindsOfSteps DEF RenameTab

LEMMA RegisterStep ==
  ASSUME CoreInv, PlainInv, RegisterInv, [PluginNext]_pluginVars, CoreInv', PlainInv'
  PROVE  RegisterInv'
<1>1. /\ TypeInv /\ SessionInv /\ StateInv /\ PassInv /\ PlanInv
      /\ typed \in [Tab -> TypedSet] /\ author \in [Tab -> {"herdr", "user", "plugin", "unclaimed"}]
      /\ pc # "idle" => inv.op \notin {"reset", "toggle", "clear"}
  <2>1. pc # "idle" => inv.op \notin {"reset", "toggle", "clear"}
    BY ReportedFields DEF PlainInv
  <2> QED BY <2>1 DEF CoreInv, AllInv, TypeInv, AuthorInv, FixedInv
<1>2. CASE ChangeSession
  <2>1. /\ \A t \in Tab : TabKept(t) \/ RenamedByUser(t) \/ OpenedByUser(t) \/ ClosedByUser(t)
        /\ UNCHANGED <<disk, mem, pass>>
    BY <1>1, <1>2, ChangeEffect, SessionEffect, SessionStep DEF ChangeSession
  <2>2. ASSUME NEW t \in Tab \ Open' PROVE author'[t] # "user"
    BY <2>1, <2>2 DEF RegisterInv, TabKept, RenamedByUser, OpenedByUser, ClosedByUser
  <2>3. ASSUME NEW t \in Tab, UserNamed(t)'
        PROVE  IsUserText(FromText(label'[t])) /\ Registering(t)'
    <3>1. CASE RenamedByUser(t)
      <4>1. FixedBy(t, label'[t]) # NoName /\ FixedBy(t, label'[t]).during # "number"
        BY <2>3, <3>1 DEF UserNamed, RenamedByUser
      <4>2. FromText(label'[t]) # <<>> /\ ~IsPlaceholder(FromText(label'[t]))
        BY <4>1 DEF FixedBy, FixedName
      <4>3. FromText(label'[t]) \notin Names
        BY <3>1, <4>2, LabelsAssumption DEF RenamedByUser
      <4> QED BY <3>1, <4>2, <4>3, LabelsReported DEF RenamedByUser, IsUserText, Registering
    <3>2. CASE TabKept(t)
      <4>1. UserNamed(t) /\ label'[t] = label[t]
        BY <2>3, <3>2 DEF UserNamed, TabKept
      <4>2. IsUserText(FromText(label[t])) /\ Registering(t) /\ t \in Open
        BY <4>1 DEF RegisterInv, UserNamed
      <4>3. Announced(t) => Announced(t)' \/ (pc' = "snapshot" /\ inv' = TabRenamed(t))
        BY <4>2, UserReportStays
      <4>4. ~Announced(t) => Registering(t)'
        BY <2>1, <4>1, <4>2 DEF Registering, pass, Working, Current, Seen, TabRenamed, Undecided
      <4> QED BY <4>1, <4>2, <4>3, <4>4 DEF Registering
    <3>3. ~OpenedByUser(t) /\ ~ClosedByUser(t)
      BY <2>3 DEF UserNamed, OpenedByUser, ClosedByUser, RegisterInv
    <3> QED BY <2>1, <3>1, <3>2, <3>3
  <2> QED BY <2>2, <2>3 DEF RegisterInv
<1>3. CASE ~ChangeSession
  <2>1. ASSUME NEW t \in Tab \ Open' PROVE author'[t] # "user"
    BY <1>3, <2>1, UserAuthorBefore DEF RegisterInv
  <2>2. ASSUME NEW t \in Tab, UserNamed(t)'
        PROVE  IsUserText(FromText(label'[t])) /\ Registering(t)'
    <3>1. /\ UserNamed(t) /\ t \in Open /\ Open' = Open
          /\ IsUserText(FromText(label[t])) /\ IsUserText(FromText(label'[t])) /\ Registering(t)
      BY <1>3, <2>2, UserAuthorBefore DEF UserNamed, RegisterInv
    <3>2. ASSUME ~Announced(t)', ~(pc' = "snapshot" /\ inv' = TabRenamed(t)) PROVE Registering(t)'
      <4>1. label'[t] = label[t] /\ ~Announced(t)
        BY <3>1, <3>2, LabelsReported, UserReportStays
      <4> QED BY <1>3, <3>1, <3>2, <4>1, UserStays
    <3>3. pc' = "snapshot" /\ inv' = TabRenamed(t) => Registering(t)'
      BY DEF Registering, TabRenamed
    <3> QED BY <3>1, <3>2, <3>3 DEF Registering
  <2> QED BY <2>1, <2>2 DEF RegisterInv
<1> QED BY <1>2, <1>3

LEMMA RegisterInit == PluginInit => RegisterInv
<1> SUFFICES ASSUME PluginInit PROVE RegisterInv
  OBVIOUS
<1>1. \A t \in Tab : author[t] # "user"
  BY DEF PluginInit
<1>2. \A t \in Tab : ~UserNamed(t)
  BY <1>1 DEF UserNamed
<1> QED BY <1>1, <1>2 DEF RegisterInv

\* When all reports have been dealt with, none is owed, and no pass is under way.
LEMMA QuietOwesNothing ==
  ASSUME ProcessInv, Quiet, markers = {}
  PROVE  Outstanding = {} /\ pc = "idle"
<1>1. events = {} /\ \A p \in Proc : proc[p] = "done"
  BY DEF Quiet
<1>2. Outstanding = {}
  BY <1>1 DEF Outstanding, Ahead
<1>3. pc = "idle"
  BY <1>1 DEF ProcessInv, LockHeld
<1> QED BY <1>2, <1>3

(***************************************************************************)
(* No rename of the user is lost or taken for one of the plugin, however    *)
(* many processes Herdr starts for however many reports, and in whichever   *)
(* order: the report of a rename is carried by a process or by its marker   *)
(* until a pass begins with it, is_owned_rename_event does not dismiss it    *)
(* while the tab has the user's label, and the pass makes the tab the       *)
(* user's.                                                                  *)
(***************************************************************************)
THEOREM UserRenamesRegistered == PluginSpec => []UserRenameRegistered
<1> DEFINE Inv == CoreInv /\ PlainInv /\ RegisterInv
<1>1. PluginInit => Inv
  BY PluginInitAll, PluginInitProcesses, PlainInit, RegisterInit DEF CoreInv
<1>2. Inv /\ [PluginNext]_pluginVars => Inv'
  <2> SUFFICES ASSUME Inv, [PluginNext]_pluginVars PROVE Inv'
    OBVIOUS
  <2>1. CoreInv'
    BY CoreStep
  <2>2. PlainInv'
    BY <2>1, PlainStep
  <2>3. RegisterInv'
    BY <2>1, <2>2, RegisterStep
  <2> QED BY <2>1, <2>2, <2>3
<1>3. Inv => UserRenameRegistered
  <2> SUFFICES ASSUME Inv, Quiet, markers = {}, NEW t \in Open, UserNamed(t)
               PROVE  disk.tabs[t] = Manual
    BY DEF UserRenameRegistered, UserNamed
  <2>1. Outstanding = {} /\ pc = "idle"
    BY QuietOwesNothing DEF CoreInv
  <2>2. t \in Tab
    BY OpenType DEF CoreInv, AllInv, TypeInv
  <2>3. Registering(t)
    BY <2>2 DEF RegisterInv
  <2> QED BY <2>1, <2>3 DEF Registering, Announced, Current, Working
<1> QED BY <1>1, <1>2, <1>3, PTL DEF PluginSpec

-----------------------------------------------------------------------------
(* Ranks, and the reports that say that they may have changed *)

\* u comes no later than t.
Before(u, t) == \E i, j \in DOMAIN order : i <= j /\ order[i] = u /\ order[j] = t

\* No tab without a pane.
Housed == \A t \in Open : \E p \in Pane : place[p] = t

\* Invocation i is for all tabs, or for those of the workspace of t.
Concerns(i, t) == i = Full \/ (i.op \in {"workspace", "closed_tab"} /\ i.ws = WorkspaceOf[t])

\* A tab keeps its number if the others of its workspace stay in front of it or behind it.
LEMMA SameRank ==
  ASSUME Open \in SUBSET Tab, Open' \in SUBSET Tab, NEW t,
         \A u \in Tab : WorkspaceOf[u] = WorkspaceOf[t] => (Before(u, t)' <=> Before(u, t))
  PROVE  Rank(t)' = Rank(t)
<1> DEFINE ahead == {u \in Open : /\ WorkspaceOf[u] = WorkspaceOf[t]
                                  /\ \E i, j \in DOMAIN order :
                                       i <= j /\ order[i] = u /\ order[j] = t}
<1>1. ahead = {u \in Tab : WorkspaceOf[u] = WorkspaceOf[t] /\ Before(u, t)}
  BY DEF Before, Open, Range
<1>2. ahead' = {u \in Tab : WorkspaceOf[u] = WorkspaceOf[t] /\ Before(u, t)'}
  BY DEF Before, Open, Range
<1>3. ahead' = ahead
  BY <1>1, <1>2
<1>4. Rank(t) = Cardinality(ahead) /\ Rank(t)' = Cardinality(ahead')
  BY DEF Rank
<1> QED BY <1>3, <1>4

LEMMA OpenTypes == SessionInv /\ SessionInv' => Open \in SUBSET Tab /\ Open' \in SUBSET Tab
BY DEF SessionInv, Open, Range

LEMMA OpenTabRanks ==
  ASSUME SessionInv, SessionInv', NEW u \in Tab, NEW p \in Pane, OpenTab(u, p), NEW t \in Open
  PROVE  Rank(t)' = Rank(t)
<1>1. order \in Seq(Tab) /\ order' = Append(order, u) /\ u \notin Open
  BY DEF SessionInv, OpenTab
<1>2. /\ DOMAIN order' = 1 .. Len(order) + 1 /\ order'[Len(order) + 1] = u
      /\ \A i \in DOMAIN order : order'[i] = order[i]
      /\ DOMAIN order = 1 .. Len(order) /\ Len(order) \in Nat
  BY <1>1
<1>3. t # u
  BY <1>1
<1>4. ASSUME NEW v \in Tab PROVE Before(v, t)' <=> Before(v, t)
  <2>1. ASSUME NEW i \in DOMAIN order', NEW j \in DOMAIN order', i <= j, order'[i] = v, order'[j] = t
        PROVE  i \in DOMAIN order /\ j \in DOMAIN order /\ order[i] = v /\ order[j] = t
    <3>1. j # Len(order) + 1
      BY <1>2, <1>3, <2>1
    <3>2. j \in 1 .. Len(order) /\ i \in 1 .. Len(order)
      BY <1>2, <2>1, <3>1
    <3> QED BY <1>2, <2>1, <3>2
  <2>2. \A i \in DOMAIN order : i \in DOMAIN order'
    BY <1>2
  <2> QED BY <1>2, <2>1, <2>2 DEF Before
<1> QED BY <1>4, OpenTypes, SameRank

\* The tab that Herdr reports as moved changes places with its neighbour.
LEMMA MoveTabRanks ==
  ASSUME SessionInv, SessionInv', NEW k \in 1 .. Len(order), MoveTab(k), NEW t \in Open,
         WorkspaceOf[t] # WorkspaceOf[order[k]]
  PROVE  Rank(t)' = Rank(t)
<1>1. /\ order \in Seq(Tab) /\ k \in 1 .. Len(order) - 1 /\ Len(order) \in Nat
      /\ order' = [order EXCEPT ![k] = order[k + 1], ![k + 1] = order[k]]
  BY DEF SessionInv, MoveTab
<1>2. /\ DOMAIN order = 1 .. Len(order) /\ DOMAIN order' = 1 .. Len(order)
      /\ k \in 1 .. Len(order) /\ k + 1 \in 1 .. Len(order)
  BY <1>1
<1>3. /\ order'[k] = order[k + 1] /\ order'[k + 1] = order[k]
      /\ \A i \in 1 .. Len(order) : i # k /\ i # k + 1 => order'[i] = order[i]
  BY <1>1, <1>2
<1>4. IsInjective(order) /\ IsInjective(order')
  BY DEF SessionInv
<1>5. ASSUME NEW u \in Tab, WorkspaceOf[u] = WorkspaceOf[t] PROVE Before(u, t)' <=> Before(u, t)
  <2>1. u # order[k] /\ t # order[k]
    BY <1>5
  <2> DEFINE new(i) == IF i = k + 1 THEN k ELSE i
             old(i) == IF i = k THEN k + 1 ELSE i
  <2>2. ASSUME NEW i \in 1 .. Len(order), NEW j \in 1 .. Len(order), i <= j,
               order[i] = u, order[j] = t
        PROVE  /\ new(i) \in 1 .. Len(order) /\ new(j) \in 1 .. Len(order) /\ new(i) <= new(j)
               /\ order'[new(i)] = u /\ order'[new(j)] = t
    <3>1. i # k /\ j # k
      BY <2>1, <2>2
    <3> QED BY <1>1, <1>2, <1>3, <2>2, <3>1
  <2>3. ASSUME NEW i \in 1 .. Len(order), NEW j \in 1 .. Len(order), i <= j,
               order'[i] = u, order'[j] = t
        PROVE  /\ old(i) \in 1 .. Len(order) /\ old(j) \in 1 .. Len(order) /\ old(i) <= old(j)
               /\ order[old(i)] = u /\ order[old(j)] = t
    <3>1. i # k + 1 /\ j # k + 1
      BY <1>3, <2>1, <2>3
    <3> QED BY <1>1, <1>2, <1>3, <2>3, <3>1
  <2> HIDE DEF new, old
  <2> QED BY <1>2, <2>2, <2>3 DEF Before
<1> QED BY <1>5, OpenTypes, SameRank

\* The tabs that are left stay in their order.
LEMMA ArrangeRanks ==
  ASSUME SessionInv, SessionInv', NEW where, Arrange(where), NEW t \in Open,
         \A u \in Open : WorkspaceOf[u] = WorkspaceOf[t] => u \in {where[p] : p \in Pane}
  PROVE  Rank(t)' = Rank(t)
<1> DEFINE left == {where[p] : p \in Pane}
           D == {i \in DOMAIN order : order[i] \in left}
<1>1. order \in Seq(Tab) /\ order' = SelectAt(order, D) /\ t \in left
  BY DEF SessionInv, Arrange
<1> HIDE DEF left
<1>3. D \in SUBSET (DOMAIN order) /\ \A i \in DOMAIN order : i \in D <=> order[i] \in left
  OBVIOUS
<1> HIDE DEF D
<1>2. ASSUME NEW u \in Tab, WorkspaceOf[u] = WorkspaceOf[t] PROVE Before(u, t)' <=> Before(u, t)
  <2> DEFINE sel == SelectAt(order, D)
  <2>1. (\E i, j \in DOMAIN sel : i <= j /\ sel[i] = u /\ sel[j] = t)
          <=> \E i, j \in D : i <= j /\ order[i] = u /\ order[j] = t
    BY <1>1, <1>3, OpenType, SelectAtOrder
  <2>2. order' = sel
    BY <1>1
  <2> HIDE DEF sel
  <2>3. Before(u, t)' <=> \E i, j \in D : i <= j /\ order[i] = u /\ order[j] = t
    BY <2>1, <2>2 DEF Before
  <2>4. u \in left \/ u \notin Open
    BY <1>2 DEF left
  <2>5. \A i \in DOMAIN order : order[i] \in Open
    BY DEF Open, Range
  <2>6. \A i \in DOMAIN order : (order[i] = u \/ order[i] = t) => i \in D
    BY <1>1, <1>3, <2>4, <2>5
  <2> QED BY <1>3, <2>3, <2>6 DEF Before
<1> QED BY <1>2, OpenTypes, SameRank

(***************************************************************************)
(* Whatever the user does with tabs and panes: a tab keeps its number, or   *)
(* Herdr reports something that concerns it, as long as tabs do not vanish   *)
(* with their last pane.                                                    *)
(***************************************************************************)
ShiftsReported ==
  \A t \in Open' : (t \in Open /\ Rank(t)' = Rank(t)) \/ \E i \in events' : Concerns(i, t)

LEMMA ArrangedShifts ==
  ASSUME SessionInv, SessionInv', Housed, NEW where \in [Pane -> Open \cup {Unborn, Gone}],
         Arrange(where), Open' = Open \cap {where[p] : p \in Pane}
  PROVE  /\ Housed'
         /\ \A t \in Open' : \/ Rank(t)' = Rank(t)
                             \/ \E u \in Open \ Open' : WorkspaceOf[u] = WorkspaceOf[t]
<1>1. place' = where
  BY DEF Arrange
<1>2. Housed'
  BY <1>1 DEF Housed
<1>3. ASSUME NEW t \in Open', \A u \in Open : WorkspaceOf[u] = WorkspaceOf[t] => u \in Open'
      PROVE  Rank(t)' = Rank(t)
  <2>1. t \in Open
    OBVIOUS
  <2>2. \A u \in Open : WorkspaceOf[u] = WorkspaceOf[t] => u \in {where[p] : p \in Pane}
    BY <1>3
  <2> QED BY <2>1, <2>2, ArrangeRanks
<1> QED BY <1>2, <1>3

LEMMA ChangeShifts ==
  ASSUME SessionInv, SessionInv', Housed, LastPaneReports = {}, Change
  PROVE  Housed' /\ ShiftsReported
<1> DEFINE Result == Housed' /\ ShiftsReported
<1>0. /\ order \in Seq(Tab) /\ place \in [Pane -> Open \cup {Unborn, Gone}]
      /\ Open \in SUBSET Tab /\ Unborn \notin Tab /\ Gone \notin Tab
      /\ \A t \in Open : \E p \in Pane : place[p] = t
  BY OpenType, ReconcilerAssumption DEF SessionInv, Housed
<1>1. ASSUME UNCHANGED <<order, place>> PROVE Result
  <2>1. Open' = Open /\ \A t : Rank(t)' = Rank(t)
    BY <1>1 DEF Open, Rank
  <2>2. Housed'
    BY <1>1, <2>1 DEF Housed
  <2> QED BY <2>1, <2>2 DEF ShiftsReported
<1>2. ASSUME NEW t \in Tab, NEW l \in UserLabels, UserRename(t, l) PROVE Result
  BY <1>1, <1>2 DEF UserRename
<1> HIDE DEF Result
<1>3. ASSUME NEW u \in Tab, NEW p \in Pane, OpenTab(u, p),
             Report({TabEvent(u), PaneCreated(u), ShellStarted(p)})
      PROVE  Result
  <2>1. order' = Append(order, u) /\ place' = [place EXCEPT ![p] = u] /\ place[p] = Unborn
    BY <1>3 DEF OpenTab
  <2>2. Open' = Open \cup {u}
    BY <1>0, <2>1, RangeOfAppend DEF Open
  <2>3. Housed'
    <3> SUFFICES ASSUME NEW t \in Open' PROVE \E q \in Pane : place'[q] = t
      BY DEF Housed
    <3>1. CASE t = u
      BY <1>0, <2>1, <3>1
    <3>2. CASE t \in Open
      <4>1. PICK q \in Pane : place[q] = t
        BY <1>0, <3>2
      <4>2. q # p
        BY <1>0, <2>1, <3>2, <4>1
      <4> QED BY <1>0, <2>1, <4>1, <4>2
    <3> QED BY <2>2, <3>1, <3>2
  <2>4. \A t \in Open : Rank(t)' = Rank(t)
    BY <1>3, OpenTabRanks
  <2>5. TabEvent(u) \in events' /\ Concerns(TabEvent(u), u)
    BY <1>3 DEF Report, TabEvent, Concerns
  <2> QED BY <2>2, <2>3, <2>4, <2>5 DEF Result, ShiftsReported
<1>4. ASSUME NEW where \in [Pane -> Open \cup {Unborn, Gone}], Arrange(where), CanMove, Moved,
             \A t \in Open' : (\E u \in Open \ Open' : WorkspaceOf[u] = WorkspaceOf[t])
                                => \E i \in events' : Concerns(i, t)
      PROVE  Result
  <2>1. Open' = Open \cap {where[p] : p \in Pane}
    BY <1>4, MovedType, ArrangeSession
  <2> QED BY <1>4, <2>1, ArrangedShifts DEF Result, ShiftsReported
<1>5. ASSUME NEW where \in [Pane -> Open \cup {Unborn, Gone}], Arrange(where), CanMove, Moved,
             Open \subseteq {where[p] : p \in Pane}
      PROVE  Result
  <2>1. Open' = Open \cap {where[p] : p \in Pane}
    BY <1>5, MovedType, ArrangeSession
  <2> QED BY <1>4, <1>5, <2>1
<1>6. ASSUME NEW u \in Tab, CloseTab(u), Report({TabClosed(u)}) PROVE Result
  <2> DEFINE where == [p \in Pane |-> IF place[p] = u THEN Gone ELSE place[p]]
  <2>1. where \in [Pane -> Open \cup {Unborn, Gone}] /\ Arrange(where) /\ CanMove /\ Moved
    BY <1>6, PlacesType DEF CloseTab
  <2>2. \A t \in Open : t # u => t \in {where[p] : p \in Pane}
    BY <1>0
  <2> HIDE DEF where
  <2>3. Open' = Open \cap {where[p] : p \in Pane}
    BY <2>1, MovedType, ArrangeSession
  <2>4. Open \ Open' \subseteq {u}
    BY <2>2, <2>3
  <2>5. TabClosed(u) \in events' /\ \A t : WorkspaceOf[u] = WorkspaceOf[t] => Concerns(TabClosed(u), t)
    BY <1>6 DEF Report, TabClosed, Concerns
  <2> QED BY <1>4, <2>1, <2>4, <2>5
<1>7. ASSUME NEW p \in Pane, NEW q \in Pane \ {p}, place[q] = place[p], ClosePane(p) PROVE Result
  <2> DEFINE where == [place EXCEPT ![p] = Gone]
  <2>1. where \in [Pane -> Open \cup {Unborn, Gone}] /\ Arrange(where) /\ CanMove /\ Moved
    BY <1>7, PlacesType DEF ClosePane
  <2>2. ASSUME NEW t \in Open PROVE t \in {where[r] : r \in Pane}
    <3>1. \E r \in Pane \ {p} : place[r] = t
      BY <1>0, <1>7
    <3> QED BY <1>0, <3>1
  <2> HIDE DEF where
  <2> QED BY <1>5, <2>1, <2>2
<1>8. ASSUME NEW p \in Pane, NEW u \in Tab, PlacePane(p, u),
             Report(IF place[p] = Unborn THEN {PaneCreated(u), ShellStarted(p)} ELSE {PaneMoved})
      PROVE  Result
  <2> DEFINE where == [place EXCEPT ![p] = u]
  <2>1. where \in [Pane -> Open \cup {Unborn, Gone}] /\ Arrange(where) /\ CanMove /\ Moved
    BY <1>8, PlacesType DEF PlacePane
  <2>2. CASE place[p] = Unborn
    <3>1. ASSUME NEW t \in Open PROVE t \in {where[r] : r \in Pane}
      <4>1. PICK r \in Pane : place[r] = t
        BY <1>0
      <4>2. r # p
        BY <1>0, <2>2, <4>1
      <4> QED BY <1>0, <4>1, <4>2
    <3> HIDE DEF where
    <3> QED BY <1>5, <2>1, <3>1
  <2>3. CASE place[p] # Unborn
    <3>1. Full \in events' /\ \A t : Concerns(Full, t)
      BY <1>8, <2>3 DEF Report, PaneMoved, Concerns
    <3> HIDE DEF where
    <3> QED BY <1>4, <2>1, <3>1
  <2> QED BY <2>2, <2>3
<1>9. ASSUME NEW k \in 1 .. Len(order), MoveTab(k), Report({TabEvent(order[k])}) PROVE Result
  <2>1. Open' = Open /\ place' = place
    BY <1>9, TabsSwapped DEF MoveTab
  <2>2. Housed'
    BY <1>0, <2>1 DEF Housed
  <2>3. \A t \in Open : WorkspaceOf[t] # WorkspaceOf[order[k]] => Rank(t)' = Rank(t)
    BY <1>9, MoveTabRanks
  <2>4. TabEvent(order[k]) \in events'
    BY <1>9 DEF Report
  <2>5. \A t : WorkspaceOf[t] = WorkspaceOf[order[k]] => Concerns(TabEvent(order[k]), t)
    BY DEF TabEvent, Concerns
  <2> QED BY <2>1, <2>2, <2>3, <2>4, <2>5 DEF Result, ShiftsReported
<1>10. ASSUME NEW p \in Pane, NEW report \in {"pane.closed", "pane.exited"},
              report \in LastPaneReports \/ \E q \in Pane \ {p} : place[q] = place[p],
              ClosePane(p)
       PROVE  Result
  BY <1>7, <1>10
<1>11. Result
  BY <1>2, <1>3, <1>6, <1>8, <1>9, <1>10 DEF Change
<1> QED BY <1>11 DEF Result

-----------------------------------------------------------------------------
(* The inductive invariant: numbers *)

\* What the plugin renders, with number_tabs on.
Renderings == {Numbered(k, n) : k \in Nat, n \in Names}

\* A report is on its way that the number of t may have changed.
Shift(t) == \E i \in Outstanding : Concerns(i, t)

\* The running pass is going to look at the tab.
Covered(t) ==
  \/ pc = "snapshot" /\ (Concerns(inv, t) \/ inv = TabRenamed(t))
  \/ Working /\ t \in Range(todo)

\* The user has changed the label to one that the plugin would not have rendered.
Foreign(t) == label[t] \notin Renderings /\ Announced(t)

\* The running pass is that of a rename of the tab, and has not come to the tab yet.
Reacting(t) ==
  inv = TabRenamed(t) /\ (pc = "snapshot" \/ (Working /\ t \in Undecided))

\* The tab waits for a shell to be named.
Awaiting(t) == Current(t) = Unowned /\ IsPlaceholder(Strip(label[t]))

Numbering(t) ==
  \/ HasItsNumber(t) \/ Shift(t) \/ Covered(t) \/ Foreign(t)
  \/ Awaiting(t)

(***************************************************************************)
(* The positions a pass goes by are right, or a report is on its way.       *)
(***************************************************************************)
PositionsInv ==
  /\ Working => \A t \in Open \cap Range(snap.order) :
                  Position(snap.order, t) = Rank(t) \/ Shift(t)
  /\ pc \in {"guard", "rename"} =>
       /\ plan.desired = Numbered(Position(snap.order, plan.tab), plan.base)
       /\ ~plan.owned => mem.tabs[plan.tab].own # "owned"

\* A label on record as the plugin's own has been rendered by it.
RenderedSet ==
  {o \in PlainSet :
     /\ o.own = "owned" => (o.shown \in Renderings)
     /\ o.own = "pending" => (/\ o.desired \in Renderings
                              /\ o.previous.own = "owned" => (o.observed \in Renderings))}

\* The tabs that have not been open yet.
Unopened == Tab \ (Open \cup gone)

RecordsInv ==
  /\ \A t \in Tab : disk.tabs[t] \in RenderedSet /\ mem.tabs[t] \in RenderedSet
  /\ \A p \in Proc : loaded[p] # Nothing => loaded[p][1] \in RenderedSet
  /\ \A t \in Unopened : disk.tabs[t] = Unowned /\ mem.tabs[t] = Unowned

(***************************************************************************)
(* A pass has seen the labels that it still has to deal with, or they are   *)
(* the user's; and the record of a tab's label is out of date only while    *)
(* the report of the user's rename is on its way.                           *)
(***************************************************************************)
Looked(t) ==
  Working /\ t \in Range(todo) => Seen(t) = label[t] \/ Foreign(t)

Recorded(t) ==
  Current(t).own = "owned" =>
    IF label[t] \in Renderings THEN Current(t).shown = label[t]
    ELSE Announced(t) \/ Reacting(t)

LabelsInv == \A t \in Open : Looked(t) /\ Recorded(t)

NumbersInv ==
  Housed /\ PositionsInv /\ RecordsInv /\ LabelsInv /\ \A t \in Open : Numbering(t)

-----------------------------------------------------------------------------
(* Reports that stay until a pass begins with them *)

LEMMA ShiftStays ==
  ASSUME CoreInv, [PluginNext]_pluginVars, NEW t \in Tab, Shift(t)
  PROVE  Shift(t)' \/ (pc = "idle" /\ pc' = "snapshot" /\ Concerns(inv', t))
<1>1. PICK i \in Outstanding : Concerns(i, t)
  BY DEF Shift
<1> DEFINE j == IF i.op = "renamed" THEN i ELSE Full
<1>2. i.op \in {"full", "workspace", "closed_tab"} /\ j = Full /\ Concerns(j, t)
  BY <1>1 DEF Concerns, Full
<1>3. ProcessInv /\ j = IF i.op = "renamed" THEN i ELSE Full
  BY DEF CoreInv
<1> HIDE DEF j
<1>4. \/ i \in Outstanding'
      \/ j \in Outstanding'
      \/ \E p \in Proc : PassFor(p, i) \/ PassFor(p, j)
      \/ \E p \in Proc : CompareLabel(p) /\ Dismissed(p) /\ work[p] = i
  BY <1>2, <1>3, OutstandingStep
<1>5. ASSUME NEW p \in Proc, CompareLabel(p), work[p] = i PROVE FALSE
  BY <1>2, <1>3, <1>5, CompareEffect
<1>6. ASSUME NEW p \in Proc, NEW k, PassFor(p, k)
      PROVE  pc = "idle" /\ pc' = "snapshot" /\ inv' = k
  BY <1>6 DEF PassFor, Begin
<1>7. (i \in Outstanding' \/ j \in Outstanding') => Shift(t)'
  BY <1>1, <1>2 DEF Shift, Concerns
<1> QED BY <1>1, <1>2, <1>4, <1>5, <1>6, <1>7

LEMMA ForeignStays ==
  ASSUME CoreInv, RecordsInv, [PluginNext]_pluginVars, NEW t \in Open, Announced(t),
         label[t] \notin Renderings
  PROVE  Announced(t)' \/ (pc = "idle" /\ pc' = "snapshot" /\ inv' = TabRenamed(t))
<1>1. ASSUME NEW p \in Proc, loaded[p] # Nothing PROVE ~OwnRename(loaded[p][1], t)
  BY <1>1 DEF RecordsInv, RenderedSet, OwnRename
<1>2. Announced(t)' \/ \E p \in Proc : PassFor(p, TabRenamed(t))
  BY <1>1, AnnouncedStays
<1> QED BY <1>2 DEF PassFor, Begin

LEMMA RenderedSimple ==
  /\ RenderedSet \subseteq PlainSet /\ Unowned \in RenderedSet /\ Manual \in RenderedSet
  /\ \A o \in OwnedSet : o.shown \in Renderings => o \in RenderedSet
<1>1. \A o \in OwnedSet : o.own = "owned"
  BY DEF OwnedSet
<1> QED BY <1>1, PlainSimple DEF RenderedSet, Unowned, Manual

LEMMA RenderedResolve ==
  ASSUME NEW o \in RenderedSet, NEW l \in Label
  PROVE  /\ Resolve(o, l) \in RenderedSet
         /\ Resolve(o, l).own = "owned" =>
              \/ o.own = "owned" /\ Resolve(o, l) = o
              \/ o.own = "pending" /\ Resolve(o, l).shown = l /\ l \in Renderings
<1>1. CASE o.own # "pending"
  BY <1>1 DEF Resolve
<1>2. CASE o.own = "pending"
  <2>1. /\ o \in PendingSet /\ o.previous \in {Unowned} \cup OwnedSet
        /\ o.desired \in Renderings
        /\ o.previous.own = "owned" => (o.previous.shown = o.observed /\ o.observed \in Renderings)
    BY <1>2, PlainFields DEF RenderedSet
  <2>2. /\ Owned(o.base, o.desired) \in RenderedSet
        /\ Owned(o.base, o.desired).shown = o.desired
    BY <2>1, PendingFields, OwnedType, RenderedSimple
  <2>3. o.previous \in OwnedSet => o.previous \in RenderedSet /\ o.previous.own = "owned"
    BY <2>1, RenderedSimple DEF OwnedSet
  <2>4. o.previous \in RenderedSet /\ (o.previous \in OwnedSet \/ o.previous.own # "owned")
    BY <2>1, <2>3, RenderedSimple DEF Unowned
  <2>5. CASE l = o.desired
    BY <1>2, <2>1, <2>2, <2>5 DEF Resolve
  <2>6. CASE l # o.desired /\ l = o.observed
    BY <1>2, <2>1, <2>4, <2>6 DEF Resolve
  <2>7. CASE l # o.desired /\ l # o.observed
    BY <1>2, <2>7, RenderedSimple DEF Resolve, Manual
  <2> QED BY <2>5, <2>6, <2>7
<1> QED BY <1>1, <1>2

-----------------------------------------------------------------------------
(* Records *)

(***************************************************************************)
(* What reconcile_tab decides with number_tabs on: a label with a number,   *)
(* and an entry that says so.                                               *)
(***************************************************************************)
LEMMA NumberedDecision ==
  ASSUME CoreInv, PlainInv, RecordsInv, \A s \in Settings : s.number,
         pc = "plan", todo # <<>>, NEW computed \in Computed(Target),
         NothingToRename(computed) \/ RenamePlanned(computed)
  PROVE  LET base    == DesiredBase(Target, computed)
             desired == Desired(Target, base)
             owned   == PluginOwned(Target, computed)
         IN  /\ desired = Numbered(Position(snap.order, Target), base)
             /\ Position(snap.order, Target) \in Nat /\ base \in Label
             /\ owned => base \in Names
             /\ mem'.tabs[Target] \in RenderedSet
             /\ ~owned => mem'.tabs[Target].own # "owned"
             /\ mem'.tabs[Target].own = "owned" =>
                  /\ desired = Seen(Target) /\ desired \in Renderings
                  /\ mem'.tabs[Target].shown = desired
<1> DEFINE t       == Target
           base    == DesiredBase(t, computed)
           desired == Desired(t, base)
           owned   == PluginOwned(t, computed)
           k       == Position(snap.order, t)
           new     == mem'.tabs[t]
<1>1. /\ TypeInv /\ StateInv /\ PassInv /\ t \in Tab /\ t \in Range(snap.order)
      /\ Seen(t) \in Label /\ mem.tabs[t] \in PlainSet /\ mem.tabs[t] \in RenderedSet
      /\ conf.number /\ snap.order \in Seq(Tab)
  <2>1. TypeInv /\ StateInv /\ PassInv
    BY DEF CoreInv, AllInv, TypeInv
  <2>2. conf.number /\ snap.order \in Seq(Tab)
    BY <2>1 DEF PassInv
  <2> QED BY <2>1, <2>2, TargetType DEF PlainInv, RecordsInv
<1>2. desired = Numbered(k, base) /\ k \in Nat
  BY <1>1, PositionType DEF Desired
<1>3. /\ base \in Label /\ desired \in Label /\ owned \in BOOLEAN
      /\ owned => base \in Names /\ Strip(desired) = base
      /\ ~owned => Ownership(t).own # "owned"
  BY <1>1, Decision
<1>4. /\ new \in PlainSet
      /\ ~owned => new = Entry(t)
      /\ owned => IF desired = Seen(t) THEN new = Owned(base, desired)
                  ELSE new = Pending(Seen(t), desired, base, Previous(Ownership(t)))
  BY <1>1, EntryLeft
<1>5. owned => desired \in Renderings
  BY <1>2, <1>3 DEF Renderings
<1> HIDE DEF owned, base, desired, k, new, t
<1>6. CASE ~owned
  <2>1. Ownership(t) \in {Manual, mem.tabs[t]}
    BY DEF Ownership
  <2>2. Entry(t) \in {Ownership(t), Unowned, Manual}
    BY <1>1, OwnershipFacts
  <2>3. new \in RenderedSet
    BY <1>1, <1>4, <1>6, <2>1, <2>2, RenderedSimple
  <2>4. new.own # "owned"
    BY <1>3, <1>4, <1>6, <2>2 DEF Unowned, Manual
  <2> QED BY <1>2, <1>3, <1>6, <2>3, <2>4 DEF owned, base, desired, k, new, t
<1>7. CASE owned /\ desired = Seen(t)
  <2>1. new \in OwnedSet /\ new.shown = desired
    BY <1>3, <1>4, <1>7, OwnedType
  <2>2. new \in RenderedSet
    BY <1>5, <1>7, <2>1, RenderedSimple
  <2> QED BY <1>2, <1>3, <1>5, <1>7, <2>1, <2>2 DEF owned, base, desired, k, new, t
<1>8. CASE owned /\ desired # Seen(t)
  <2>1. /\ new.own = "pending" /\ new.observed = Seen(t) /\ new.desired = desired
        /\ new.previous = Previous(Ownership(t))
    BY <1>1, <1>3, <1>4, <1>8, PlainPending
  <2>2. Previous(Ownership(t)).own = "owned" => Seen(t) \in Renderings
    <3>1. Previous(Ownership(t)).own = "owned" => Ownership(t).own = "owned"
      BY DEF Previous, Reset, Unowned
    <3>2. Ownership(t).own = "owned" => Ownership(t) = mem.tabs[t] /\ Ownership(t).shown = Seen(t)
      BY <1>1, OwnershipFacts
    <3> QED BY <1>1, <3>1, <3>2 DEF RenderedSet
  <2>3. new \in RenderedSet
    BY <1>4, <1>5, <1>8, <2>1, <2>2 DEF RenderedSet
  <2> QED BY <1>2, <1>3, <1>8, <2>1, <2>3 DEF owned, base, desired, k, new, t
<1> QED BY <1>3, <1>6, <1>7, <1>8

\* What is_owned_rename_event has loaded is an entry as it was on disk.
LEMMA LoadedEntries ==
  ASSUME CoreInv, [PluginNext]_pluginVars, NEW p \in Proc, loaded'[p] # Nothing
  PROVE  loaded'[p] = loaded[p] \/ \E t \in Tab : loaded'[p] = <<disk.tabs[t]>>
<1>1. loaded \in [Proc -> {Nothing} \cup {<<o>> : o \in OwnershipSet}] /\ work \in [Proc -> Reported]
      /\ \A q \in Proc : proc[q] = "owned" => work[q].op = "renamed"
  BY DEF CoreInv, ProcessInv, LoadedInv, WorkInv, PlaceInv
<1>2. ASSUME NEW q \in Proc, LoadState(q)
      PROVE  loaded'[p] = loaded[p] \/ \E t \in Tab : loaded'[p] = <<disk.tabs[t]>>
  <2>1. loaded' = [loaded EXCEPT ![q] = <<disk.tabs[work[q].tab]>>] /\ work[q].op = "renamed"
    BY <1>1, <1>2 DEF LoadState
  <2>2. work[q].tab \in Tab
    BY <1>1, <2>1, ReportedFields
  <2> QED BY <1>1, <2>1, <2>2
<1>3. ASSUME NEW q \in Proc, CompareLabel(q) PROVE loaded'[p] = loaded[p]
  BY <1>1, <1>3 DEF CompareLabel
<1>4. ASSUME NEW q \in Proc, Coordinate(q) \/ PassStep(q) \/ EndPass(q) \/ \E i \in events : Deliver(q, i)
      PROVE  loaded' = loaded
  BY <1>4 DEF Coordinate, PassStep, EndPass, Deliver, plugin
<1>5. ChangeSession \/ UNCHANGED pluginVars => loaded' = loaded
  BY DEF ChangeSession, pluginVars, plugin
<1> QED BY <1>2, <1>3, <1>4, <1>5, StepKinds

LEMMA RecordsStep ==
  ASSUME CoreInv, PlainInv, RecordsInv, PositionsInv, \A s \in Settings : s.number,
         [PluginNext]_pluginVars, CoreInv'
  PROVE  RecordsInv'
<1> DEFINE Entries == /\ \A t \in Tab : disk'.tabs[t] \in RenderedSet /\ mem'.tabs[t] \in RenderedSet
                      /\ \A t \in Unopened' : disk'.tabs[t] = Unowned /\ mem'.tabs[t] = Unowned
<1>1. /\ TypeInv /\ SessionInv /\ StateInv /\ PassInv /\ PlanInv
      /\ disk \in StateSet /\ mem \in StateSet /\ label \in [Tab -> Label]
      /\ Open \in SUBSET Tab
  BY OpenType DEF CoreInv, AllInv, TypeInv, StateInv, SessionInv
<1>2. /\ \A t \in Tab : disk.tabs[t] \in RenderedSet /\ mem.tabs[t] \in RenderedSet
      /\ \A t \in Unopened : disk.tabs[t] = Unowned /\ mem.tabs[t] = Unowned
      /\ Unopened \subseteq Tab
  BY DEF RecordsInv, Unopened
<1>3. ASSUME UNCHANGED <<disk, mem>>, Unopened' \subseteq Unopened PROVE Entries
  BY <1>2, <1>3
<1>4. ASSUME ChangeSession PROVE Entries
  <2>1. UNCHANGED <<disk, mem>> /\ Open \cup gone \subseteq Open' \cup gone'
    BY <1>1, <1>4, ChangeEffect, SessionStep DEF ChangeSession
  <2>2. Unopened' \subseteq Unopened
    BY <2>1 DEF Unopened
  <2> QED BY <1>3, <2>1, <2>2
<1>5. ASSUME NEW p \in Proc, NEW i \in Reported, PassFor(p, i) PROVE Entries
  <2>1. i \in Invocation /\ i.op # "reset" /\ Begin(i)
    BY <1>5, ReportedFields DEF PassFor
  <2>2. disk' = mem' /\ \A t \in Tab : mem'.tabs[t] = disk.tabs[t]
    BY <1>1, <2>1, BeginEntries
  <2>3. Unopened' = Unopened
    BY <2>1 DEF Begin, session, Open, Unopened
  <2> QED BY <1>2, <2>2, <2>3
<1>6. ASSUME TakeSnapshot PROVE Entries
  <2>1. /\ pc = "snapshot" /\ mem' = Recovered /\ UNCHANGED session
        /\ disk' = IF inv.op = "toggle" THEN mem' ELSE disk
    BY <1>6 DEF TakeSnapshot
  <2>2. inv \in Invocation /\ inv.op # "toggle"
    BY <2>1, ReportedFields DEF PlainInv
  <2>3. \A t \in Tab : mem'.tabs[t] = Removed(t)
    BY <1>1, <2>1, <2>2, RecoveredEntries
  <2>4. \A t \in Tab : Resolve(mem.tabs[t], label[t]) \in RenderedSet
    BY <1>1, <1>2, RenderedResolve
  <2>5. \A t \in Tab : mem'.tabs[t] \in RenderedSet
    BY <1>2, <2>3, <2>4, RenderedSimple DEF Removed
  <2>6. Unopened' = Unopened /\ \A t \in Unopened : mem'.tabs[t] = Unowned
    BY <1>2, <2>1, <2>3 DEF session, Open, Unopened, Removed
  <2> QED BY <1>2, <2>1, <2>2, <2>5, <2>6
<1>7. ASSUME SkipTab \/ PlanTab \/ GuardRead \/ Rename, mem'.tabs[Head(todo)] \in RenderedSet
      PROVE  Entries
  <2>1. /\ disk' \in {disk, mem'} /\ \A t \in Tab \ {Head(todo)} : mem'.tabs[t] = mem.tabs[t]
        /\ todo # <<>> /\ gone' = gone /\ Open' = Open
    BY <1>1, <1>7, LoopStep
  <2>2. Head(todo) \notin Unopened
    BY <1>1, <2>1, TailOfTargets DEF PassInv, Unopened
  <2>3. \A t \in Tab : mem'.tabs[t] \in RenderedSet
    BY <1>2, <1>7, <2>1
  <2>4. Unopened' = Unopened /\ Unopened \subseteq Tab
    BY <2>1 DEF Unopened
  <2>5. \A t \in Unopened : mem'.tabs[t] = Unowned
    BY <1>2, <2>1, <2>2, <2>4
  <2> QED BY <1>2, <2>1, <2>3, <2>4, <2>5
<1>8. ASSUME SkipTab PROVE Entries
  <2>1. Target \in Tab /\ (mem' = mem \/ mem' = SetOwnership(mem, Target, Manual))
    BY <1>1, <1>8, TargetType DEF SkipTab, Proceed
  <2>2. mem'.tabs[Target] \in {mem.tabs[Target], Manual}
    BY <1>1, <2>1 DEF SetOwnership, StateSet
  <2> QED BY <1>2, <1>7, <1>8, <2>1, <2>2, RenderedSimple DEF Target
<1>9. ASSUME PlanTab PROVE Entries
  <2>1. Target \in Tab /\ pc = "plan" /\ todo # <<>>
    BY <1>1, <1>9, TargetType, PlanTabCases
  <2>2. PICK computed \in Computed(Target) :
          Proceed(mem) \/ NothingToRename(computed) \/ RenamePlanned(computed)
    BY <1>9, PlanTabCases
  <2>3. CASE Proceed(mem)
    BY <1>2, <1>7, <1>9, <2>1, <2>3 DEF Target, Proceed
  <2>4. CASE NothingToRename(computed) \/ RenamePlanned(computed)
    <3>1. mem'.tabs[Target] \in RenderedSet
      BY <2>1, <2>4, NumberedDecision
    <3> QED BY <1>7, <1>9, <3>1 DEF Target
  <2> QED BY <2>2, <2>3, <2>4
<1>10. ASSUME GuardRead PROVE Entries
  <2> DEFINE new == Resolve(mem.tabs[plan.tab], label[plan.tab])
  <2>1. plan.tab = Head(todo) /\ plan.tab \in Tab
    BY <1>1, <1>10, PlannedType DEF GuardRead
  <2>2. new \in RenderedSet
    BY <1>1, <1>2, <2>1, RenderedResolve
  <2>3. mem' = mem \/ mem' = SetOwnership(mem, plan.tab, new)
    BY <1>10 DEF GuardRead, Proceed
  <2> HIDE DEF new
  <2>4. mem'.tabs[plan.tab] \in {mem.tabs[plan.tab], new}
    BY <1>1, <2>1, <2>3 DEF SetOwnership, StateSet
  <2> QED BY <1>2, <1>7, <1>10, <2>1, <2>2, <2>4
<1>11. ASSUME Rename PROVE Entries
  <2>1. plan.tab = Head(todo) /\ plan.tab \in Tab /\ pc = "rename"
    BY <1>1, <1>11, PlannedType DEF Rename
  <2>2. plan.owned => Owned(plan.base, plan.desired) \in RenderedSet
    <3> SUFFICES ASSUME plan.owned PROVE Owned(plan.base, plan.desired) \in RenderedSet
      OBVIOUS
    <3>1. plan.base \in Names /\ Strip(plan.desired) = plan.base /\ plan.desired \in Label
      BY <1>1, <2>1, PlannedType DEF PlanInv
    <3>2. mem.tabs[plan.tab].own = "pending" /\ mem.tabs[plan.tab].desired = plan.desired
      BY <1>1, <2>1 DEF PlanInv
    <3>3. plan.desired \in Renderings
      BY <1>2, <2>1, <3>2 DEF RenderedSet
    <3> QED BY <3>1, <3>3, OwnedType, RenderedSimple
  <2>3. mem' = mem \/ (plan.owned /\ mem' = SetOwnership(mem, plan.tab, Owned(plan.base, plan.desired)))
    BY <1>11 DEF Rename
  <2>4. mem'.tabs[plan.tab] = mem.tabs[plan.tab]
        \/ (plan.owned /\ mem'.tabs[plan.tab] = Owned(plan.base, plan.desired))
    BY <1>1, <2>1, <2>3 DEF SetOwnership, StateSet
  <2> QED BY <1>2, <1>7, <1>11, <2>1, <2>2, <2>4
<1>12. ASSUME Finish \/ IgnoreClosedPane PROVE Entries
  <2>1. /\ mem' = EmptyState /\ UNCHANGED session
        /\ \/ disk' = mem \/ \E tabs : disk' = Prune(mem, tabs)
           \/ disk' = Refresh(mem, place, Open)
    BY <1>12 DEF Finish, IgnoreClosedPane, EndOfPass
  <2>2. \A t \in Tab : disk'.tabs[t] \in {mem.tabs[t], Unowned}
    <3>1. ASSUME NEW tabs, disk' = Prune(mem, tabs) PROVE \A t \in Tab : disk'.tabs[t] \in {mem.tabs[t], Unowned}
      BY <1>1, <3>1, PruneType
    <3>2. Refresh(mem, place, Open).tabs = mem.tabs
      BY <1>1, RefreshType
    <3> QED BY <2>1, <3>1, <3>2
  <2>3. \A t \in Tab : mem'.tabs[t] = Unowned
    BY <2>1 DEF EmptyState
  <2>4. Unopened' = Unopened
    BY <2>1 DEF session, Open, Unopened
  <2> QED BY <1>2, <2>2, <2>3, <2>4, RenderedSimple
<1>13. UNCHANGED vars => UNCHANGED <<disk, mem>> /\ Unopened' = Unopened
  BY DEF vars, session, Open, Unopened
<1>14. Entries
  <2> HIDE DEF Entries
  <2> QED BY <1>3, <1>4, <1>5, <1>6, <1>8, <1>9, <1>10, <1>11, <1>12, <1>13, KindsOfSteps DEF RenameTab
<1>15. ASSUME NEW p \in Proc, loaded'[p] # Nothing PROVE loaded'[p][1] \in RenderedSet
  <2>1. CASE loaded'[p] = loaded[p]
    BY <1>15, <2>1 DEF RecordsInv
  <2>2. ASSUME NEW t \in Tab, loaded'[p] = <<disk.tabs[t]>> PROVE loaded'[p][1] \in RenderedSet
    BY <1>2, <2>2
  <2> QED BY <1>15, <2>1, <2>2, LoadedEntries
<1> QED BY <1>14, <1>15 DEF RecordsInv

-----------------------------------------------------------------------------
(* Positions *)

\* Every step but the user's leaves the tabs where they are.
LEMMA OrderKept ==
  ASSUME CoreInv, [PluginNext]_pluginVars, ~ChangeSession
  PROVE  UNCHANGED <<order, place, gone>> /\ Open' = Open /\ \A t : Rank(t)' = Rank(t)
<1>1. UNCHANGED <<order, place, gone>>
  <2>1. ASSUME NEW p \in Proc, NEW i \in Reported, PassFor(p, i) PROVE UNCHANGED <<order, place, gone>>
    BY <2>1 DEF PassFor, Begin, session
  <2>2. SkipTab \/ PlanTab \/ GuardRead \/ Rename => UNCHANGED <<order, place, gone>>
    BY LoopStep DEF CoreInv, AllInv
  <2>3. TakeSnapshot \/ Finish \/ IgnoreClosedPane => UNCHANGED <<order, place, gone>>
    BY DEF TakeSnapshot, Finish, IgnoreClosedPane, session
  <2>4. UNCHANGED vars => UNCHANGED <<order, place, gone>>
    BY DEF vars, session
  <2> QED BY <2>1, <2>2, <2>3, <2>4, KindsOfSteps DEF RenameTab
<1>2. Open' = Open
  BY <1>1 DEF Open
<1>3. \A t : Rank(t)' = Rank(t)
  BY <1>1, <1>2 DEF Rank
<1> QED BY <1>1, <1>2, <1>3

LEMMA PlannedNumber ==
  ASSUME CoreInv, PlainInv, RecordsInv, PositionsInv, \A s \in Settings : s.number,
         [PluginNext]_pluginVars, pc' \in {"guard", "rename"}
  PROVE  /\ plan'.desired = Numbered(Position(snap'.order, plan'.tab), plan'.base)
         /\ ~plan'.owned => mem'.tabs[plan'.tab].own # "owned"
<1> DEFINE Planned == /\ plan'.desired = Numbered(Position(snap'.order, plan'.tab), plan'.base)
                      /\ ~plan'.owned => mem'.tabs[plan'.tab].own # "owned"
<1>1. /\ TypeInv /\ SessionInv /\ PassInv
  BY DEF CoreInv, AllInv, TypeInv
<1>2. ASSUME UNCHANGED <<snap, plan, mem>>, pc \in {"guard", "rename"} PROVE Planned
  BY <1>2 DEF PositionsInv
<1>3. ASSUME PlanTab PROVE Planned
  <2>1. pc = "plan" /\ todo # <<>>
    BY <1>3, PlanTabCases
  <2>2. PICK computed \in Computed(Target) :
          Proceed(mem) \/ NothingToRename(computed) \/ RenamePlanned(computed)
    BY <1>3, PlanTabCases
  <2> DEFINE base    == DesiredBase(Target, computed)
             desired == Desired(Target, base)
             owned   == PluginOwned(Target, computed)
  <2>3. RenamePlanned(computed)
    BY <2>2 DEF Proceed, NothingToRename
  <2>4. /\ plan' = [tab |-> Target, desired |-> desired, base |-> base, owned |-> owned]
        /\ snap' = snap
    BY <2>3 DEF RenamePlanned
  <2>5. /\ desired = Numbered(Position(snap.order, Target), base)
        /\ ~owned => mem'.tabs[Target].own # "owned"
    BY <2>1, <2>3, NumberedDecision
  <2> HIDE DEF base, desired, owned
  <2> QED BY <2>4, <2>5
<1> HIDE DEF Planned
<1>4. ASSUME ChangeSession PROVE Planned
  <2>1. UNCHANGED <<mem, pass>>
    BY <1>1, <1>4, ChangeEffect, SessionStep DEF ChangeSession
  <2> QED BY <1>2, <2>1 DEF pass
<1>5. ASSUME GuardRead PROVE Planned
  BY <1>2, <1>5 DEF GuardRead, Proceed
<1>6. ASSUME UNCHANGED vars PROVE Planned
  BY <1>2, <1>6 DEF vars, pass
<1>7. ASSUME NEW p \in Proc, NEW i \in Reported, PassFor(p, i) PROVE FALSE
  BY <1>7 DEF PassFor, Begin
<1>8. ASSUME TakeSnapshot \/ SkipTab \/ Rename \/ Finish \/ IgnoreClosedPane PROVE FALSE
  BY <1>8 DEF TakeSnapshot, SkipTab, Rename, Finish, IgnoreClosedPane, EndOfPass, Proceed
<1> QED BY <1>3, <1>4, <1>5, <1>6, <1>7, <1>8, KindsOfSteps DEF RenameTab, Planned

LEMMA PositionsStep ==
  ASSUME CoreInv, PlainInv, RecordsInv, PositionsInv, \A s \in Settings : s.number,
         [PluginNext]_pluginVars, ChangeSession => ShiftsReported
  PROVE  PositionsInv'
<1>1. /\ TypeInv /\ SessionInv /\ PassInv /\ Open \in SUBSET Tab
  BY OpenType DEF CoreInv, AllInv, TypeInv
<1>2. ASSUME NEW t, t \in Open', t \in Range(snap'.order), Working'
      PROVE  Position(snap'.order, t) = Rank(t)' \/ Shift(t)'
  <2>1. ASSUME t \in Open, Rank(t)' = Rank(t), snap' = snap, Working
        PROVE  Position(snap'.order, t) = Rank(t)' \/ Shift(t)'
    <3>1. Position(snap.order, t) = Rank(t) \/ Shift(t)
      BY <1>2, <2>1 DEF PositionsInv
    <3>2. Shift(t) => Shift(t)'
      BY <1>1, <2>1, ShiftStays DEF Working
    <3> QED BY <2>1, <3>1, <3>2
  <2>2. CASE ChangeSession
    <3>1. UNCHANGED pass
      BY <1>1, <2>2, ChangeEffect, SessionStep DEF ChangeSession
    <3>2. (\E i \in events' : Concerns(i, t)) => Shift(t)'
      BY DEF Shift, Outstanding
    <3>3. Working /\ snap' = snap
      BY <1>2, <3>1 DEF pass, Working
    <3> QED BY <1>2, <2>1, <2>2, <3>2, <3>3 DEF ShiftsReported
  <2>3. CASE ~ChangeSession
    <3>1. t \in Open /\ Rank(t)' = Rank(t) /\ order' = order
      BY <1>2, <2>3, OrderKept
    <3>2. CASE TakeSnapshot
      <4>1. snap'.order = order
        BY <3>2 DEF TakeSnapshot
      <4> QED BY <1>1, <3>1, <4>1, PositionIsRank
    <3>3. CASE SkipTab \/ PlanTab \/ GuardRead \/ Rename
      <4>1. Working /\ snap' = snap
        BY <1>1, <3>3, LoopStep
      <4> QED BY <2>1, <3>1, <4>1
    <3>4. CASE UNCHANGED vars
      BY <1>2, <2>1, <3>1, <3>4 DEF vars, pass, Working
    <3>5. ASSUME NEW p \in Proc, NEW i \in Reported, PassFor(p, i) PROVE FALSE
      BY <1>2, <3>5 DEF PassFor, Begin, Working
    <3>6. ~(Finish \/ IgnoreClosedPane)
      BY <1>2 DEF Finish, IgnoreClosedPane, EndOfPass, Working
    <3> QED BY <2>3, <3>2, <3>3, <3>4, <3>5, <3>6, KindsOfSteps DEF RenameTab
  <2> QED BY <2>2, <2>3
<1>3. pc' \in {"guard", "rename"} =>
        /\ plan'.desired = Numbered(Position(snap'.order, plan'.tab), plan'.base)
        /\ ~plan'.owned => mem'.tabs[plan'.tab].own # "owned"
  BY PlannedNumber
<1> QED BY <1>2, <1>3 DEF PositionsInv

-----------------------------------------------------------------------------
(* Labels and their records *)

LEMMA LookedKept ==
  ASSUME CoreInv, RecordsInv, [PluginNext]_pluginVars, NEW t \in Open, Looked(t),
         label'[t] = label[t], Working, snap' = snap, Range(todo') \subseteq Range(todo)
  PROVE  Looked(t)'
<1>1. Foreign(t) => Foreign(t)'
  BY ForeignStays DEF Foreign, Working
<1> QED BY <1>1 DEF Looked, Seen

LEMMA RecordKept ==
  ASSUME CoreInv, RecordsInv, [PluginNext]_pluginVars, NEW t \in Open, Recorded(t),
         label'[t] = label[t],
         Current(t)'.own = "owned" => Current(t)' = Current(t) /\ (Reacting(t) => Reacting(t)')
  PROVE  Recorded(t)'
<1>1. Announced(t) /\ label[t] \notin Renderings => Announced(t)' \/ Reacting(t)'
  BY ForeignStays DEF Reacting, TabRenamed
<1> QED BY <1>1 DEF Recorded

\* A pass that goes on with its targets, and leaves all labels but the first target's alone.
LEMMA LoopLabels ==
  ASSUME CoreInv, RecordsInv, LabelsInv, [PluginNext]_pluginVars,
         SkipTab \/ PlanTab \/ GuardRead \/ Rename,
         \A t \in Tab \ {Head(todo)} : label'[t] = label[t],
         label'[Head(todo)] = label[Head(todo)] \/ Head(todo) \notin Range(todo'),
         \A t \in Open : t = Head(todo) => Recorded(t)'
  PROVE  LabelsInv'
<1>1. TypeInv /\ PassInv /\ Open \in SUBSET Tab
  BY OpenType DEF CoreInv, AllInv, TypeInv
<1>2. /\ Working /\ todo # <<>> /\ pc' \in {"plan", "guard", "rename"}
      /\ inv' = inv /\ snap' = snap /\ Open' = Open
      /\ \A t \in Tab \ {Head(todo)} : mem'.tabs[t] = mem.tabs[t]
      /\ Range(todo') \subseteq Range(todo) /\ Undecided' = Undecided \ {Head(todo)}
  BY <1>1, LoopStep
<1>3. ASSUME NEW t \in Open PROVE Looked(t)'
  <2>1. CASE label'[t] = label[t]
    BY <1>2, <2>1, LookedKept DEF LabelsInv
  <2>2. CASE t \notin Range(todo')
    BY <2>2 DEF Looked
  <2> QED BY <1>1, <2>1, <2>2
<1>4. ASSUME NEW t \in Open, t # Head(todo) PROVE Recorded(t)'
  <2>1. Current(t)' = Current(t) /\ label'[t] = label[t]
    BY <1>1, <1>2, <1>4 DEF Current, Working
  <2>2. Reacting(t) => Reacting(t)'
    BY <1>2, <1>4 DEF Reacting, Working, TabRenamed
  <2> QED BY <2>1, <2>2, RecordKept DEF LabelsInv
<1> QED BY <1>2, <1>3, <1>4 DEF LabelsInv

LEMMA LabelsSession ==
  ASSUME CoreInv, RecordsInv, LabelsInv, [PluginNext]_pluginVars, ChangeSession,
         UserLabels \cap Renderings = {}
  PROVE  LabelsInv'
<1>1. /\ \A t \in Tab : TabKept(t) \/ RenamedByUser(t) \/ OpenedByUser(t) \/ ClosedByUser(t)
      /\ UNCHANGED <<disk, mem, pass>> /\ PassInv /\ SessionInv /\ SessionInv'
  <2>1. TypeInv /\ SessionInv /\ PassInv /\ typed \in [Tab -> TypedSet]
        /\ author \in [Tab -> {"herdr", "user", "plugin", "unclaimed"}]
    BY DEF CoreInv, AllInv, TypeInv, AuthorInv, FixedInv
  <2> QED BY <2>1, ChangeEffect, SessionEffect, SessionStep DEF ChangeSession
<1>2. /\ UNCHANGED <<pc, inv, snap, todo>> /\ \A t : Current(t)' = Current(t)
      /\ (Working' <=> Working) /\ Undecided' = Undecided
  BY <1>1 DEF pass, Current, Working, Undecided
<1>3. ASSUME NEW t \in Open', NEW u \in Tab, t = u PROVE Looked(t)' /\ Recorded(t)'
  <2>1. CASE RenamedByUser(t)
    <3>1. label'[t] \notin Renderings /\ Announced(t)'
      BY <1>3, <2>1, LabelsReported DEF RenamedByUser
    <3> QED BY <3>1 DEF Looked, Foreign, Recorded
  <2>2. CASE TabKept(t)
    <3>1. t \in Open /\ label'[t] = label[t]
      BY <2>2 DEF TabKept
    <3>2. Recorded(t)'
      <4>1. Reacting(t) => Reacting(t)'
        BY <1>2 DEF Reacting, TabRenamed
      <4> QED BY <1>2, <3>1, <4>1, RecordKept DEF LabelsInv
    <3>3. CASE Working
      BY <1>2, <3>1, <3>2, <3>3, LookedKept DEF LabelsInv
    <3>4. CASE ~Working
      BY <1>2, <3>2, <3>4 DEF Looked
    <3> QED BY <3>3, <3>4
  <2>3. CASE OpenedByUser(t)
    <3>1. t \in Unopened
      BY <1>3, <2>3 DEF OpenedByUser, Unopened
    <3>2. Current(t) = Unowned
      BY <3>1 DEF RecordsInv, Current
    <3>3. t \notin Range(todo')
      BY <1>1, <1>2, <3>1 DEF PassInv, Unopened
    <3> QED BY <1>2, <3>2, <3>3 DEF Looked, Recorded, Unowned
  <2> QED BY <1>1, <1>3, <2>1, <2>2, <2>3 DEF ClosedByUser
<1> QED BY <1>1, <1>3, OpenTypes DEF LabelsInv

LEMMA LabelsSkip ==
  ASSUME CoreInv, RecordsInv, LabelsInv, [PluginNext]_pluginVars, SkipTab
  PROVE  LabelsInv'
<1>1. TypeInv /\ StateInv /\ PassInv
  BY DEF CoreInv, AllInv, TypeInv
<1>2. /\ pc = "plan" /\ pc' = "plan" /\ todo # <<>> /\ label' = label
      /\ \/ mem' = mem /\ InitialAdoption(Target)
         \/ mem' = SetOwnership(mem, Target, Manual)
  BY DEF SkipTab, Proceed, session
<1>3. ASSUME NEW t \in Open, t = Head(todo) PROVE Recorded(t)'
  <2>1. t \in Tab /\ t = Target /\ mem \in StateSet
    BY <1>1, <1>2, <1>3, TargetType DEF Target, StateInv
  <2>2. mem'.tabs[t] \in {Unowned, Manual}
    BY <1>2, <2>1 DEF InitialAdoption, SetOwnership, StateSet
  <2> QED BY <1>2, <2>2 DEF Recorded, Current, Unowned, Manual
<1> QED BY <1>2, <1>3, LoopLabels

LEMMA LabelsPlan ==
  ASSUME CoreInv, PlainInv, RecordsInv, LabelsInv, \A s \in Settings : s.number,
         [PluginNext]_pluginVars, PlanTab
  PROVE  LabelsInv'
<1>1. TypeInv /\ StateInv /\ PassInv
  BY DEF CoreInv, AllInv, TypeInv
<1>2. pc = "plan" /\ todo # <<>>
  BY PlanTabCases
<1>3. PICK computed \in Computed(Target) :
        \/ InitialAdoption(Target) /\ Proceed(mem)
        \/ NothingToRename(computed) \/ RenamePlanned(computed)
  BY PlanTabCases
<1>4. label' = label /\ pc' # "idle"
  BY <1>3 DEF Proceed, NothingToRename, RenamePlanned, session
<1>5. ASSUME NEW t \in Open, t = Head(todo) PROVE Recorded(t)'
  <2>1. t \in Tab /\ t = Target /\ t \in Range(todo)
    BY <1>1, <1>2, <1>5, TargetType DEF Target
  <2>2. CASE InitialAdoption(Target) /\ Proceed(mem)
    <3>1. mem'.tabs[t] = Unowned
      BY <2>1, <2>2 DEF InitialAdoption, Proceed
    <3> QED BY <1>4, <3>1 DEF Recorded, Current, Unowned
  <2>3. CASE NothingToRename(computed) \/ RenamePlanned(computed)
    <3>1. mem'.tabs[t].own = "owned" => Seen(t) \in Renderings /\ mem'.tabs[t].shown = Seen(t)
      BY <1>2, <2>1, <2>3, NumberedDecision
    <3>2. Seen(t) = label[t] \/ Foreign(t)
      BY <1>2, <2>1 DEF LabelsInv, Looked, Working
    <3>3. Foreign(t) => Foreign(t)'
      BY <1>2, <1>4, ForeignStays DEF Foreign
    <3> QED BY <1>4, <3>1, <3>2, <3>3 DEF Recorded, Current, Foreign
  <2> QED BY <1>3, <2>2, <2>3
<1> QED BY <1>4, <1>5, LoopLabels

\* A rename of the plugin's own gives the tab what the plugin renders.
LEMMA PlannedRendering ==
  ASSUME CoreInv, RecordsInv, PositionsInv, pc \in {"guard", "rename"}
  PROVE  /\ plan.owned => mem.tabs[plan.tab].own = "pending" /\ plan.desired \in Renderings
         /\ mem.tabs[plan.tab].own # "owned"
<1>1. TypeInv /\ PlanInv /\ plan.tab \in Tab
  BY PlannedType DEF CoreInv, AllInv, TypeInv
<1> QED BY <1>1 DEF PlanInv, RecordsInv, RenderedSet, PositionsInv

LEMMA LabelsGuard ==
  ASSUME CoreInv, RecordsInv, PositionsInv, LabelsInv, [PluginNext]_pluginVars, GuardRead
  PROVE  LabelsInv'
<1>1. /\ TypeInv /\ mem \in StateSet /\ label \in [Tab -> Label] /\ pc = "guard"
      /\ plan.tab = Head(todo) /\ plan.tab \in Tab
  BY PlannedType DEF CoreInv, AllInv, TypeInv, StateInv, SessionInv, GuardRead
<1>2. mem.tabs[plan.tab].own # "owned" /\ mem.tabs[plan.tab] \in RenderedSet
  BY <1>1, PlannedRendering DEF RecordsInv
<1>3. label' = label /\ pc' # "idle"
  BY DEF GuardRead, Proceed, session
<1>4. ASSUME NEW t \in Open, t = Head(todo) PROVE Recorded(t)'
  <2> DEFINE new == Resolve(mem.tabs[t], label[t])
  <2>1. t = plan.tab
    BY <1>1, <1>4
  <2>2. mem' = mem \/ mem' = SetOwnership(mem, t, new)
    BY <2>1 DEF GuardRead, Proceed
  <2>3. new.own = "owned" => new.shown = label[t] /\ label[t] \in Renderings
    BY <1>1, <1>2, <2>1, RenderedResolve
  <2> HIDE DEF new
  <2>4. mem'.tabs[t] \in {mem.tabs[t], new}
    BY <1>1, <2>1, <2>2 DEF SetOwnership, StateSet
  <2> QED BY <1>2, <1>3, <2>1, <2>3, <2>4 DEF Recorded, Current
<1> QED BY <1>3, <1>4, LoopLabels

LEMMA LabelsRename ==
  ASSUME CoreInv, RecordsInv, PositionsInv, LabelsInv, [PluginNext]_pluginVars, Rename
  PROVE  LabelsInv'
<1>1. /\ TypeInv /\ mem \in StateSet /\ label \in [Tab -> Label] /\ pc = "rename"
      /\ plan.tab = Head(todo) /\ plan.tab \in Tab /\ plan.tab \notin Range(Tail(todo))
      /\ pc' = "plan" /\ todo' = Tail(todo) /\ Apply /\ UNCHANGED <<order, place, gone, env>>
  BY PlannedType DEF CoreInv, AllInv, TypeInv, StateInv, SessionInv, Rename
<1>2. \A t \in Tab \ {plan.tab} : label'[t] = label[t]
  BY <1>1, ApplyType
<1>3. ASSUME NEW t \in Open, t = Head(todo) PROVE Recorded(t)'
  <2>1. t = plan.tab /\ label'[t] = plan.desired
    BY <1>1, <1>3, ApplyType
  <2>2. CASE plan.owned
    <3>1. mem'.tabs[t] = Owned(plan.base, plan.desired)
      BY <1>1, <2>1, <2>2 DEF Rename, SetOwnership, StateSet
    <3>2. mem'.tabs[t].shown = label'[t] /\ label'[t] \in Renderings
      BY <1>1, <2>1, <2>2, <3>1, PlannedRendering DEF Owned
    <3> QED BY <1>1, <3>2 DEF Recorded, Current
  <2>3. CASE ~plan.owned
    <3>1. mem'.tabs[t].own # "owned"
      BY <1>1, <2>1, <2>3, PlannedRendering DEF Rename
    <3> QED BY <1>1, <3>1 DEF Recorded, Current
  <2> QED BY <2>2, <2>3
<1> QED BY <1>1, <1>2, <1>3, LoopLabels

LEMMA LabelsSnapshot ==
  ASSUME CoreInv, PlainInv, RecordsInv, LabelsInv, [PluginNext]_pluginVars, TakeSnapshot
  PROVE  LabelsInv'
<1> DEFINE D == {k \in DOMAIN order : InScope(as', order[k], MappedTab)}
<1>1. /\ SessionInv /\ StateInv /\ Open \in SUBSET Tab /\ label \in [Tab -> Label]
      /\ inv \in Reported /\ inv \in Invocation /\ inv.op # "toggle"
  BY OpenType, ReportedFields
     DEF CoreInv, AllInv, TypeInv, SessionInv, PlainInv, TakeSnapshot
<1>2. /\ pc = "snapshot" /\ pc' = "plan" /\ mem' = Recovered /\ UNCHANGED session /\ inv' = inv
      /\ as' = IF Vanished THEN [op |-> "closed_tab", ws |-> VanishedFrom] ELSE inv
      /\ snap' = [order |-> order, label |-> label] /\ todo' = SelectAt(order, D)
  BY DEF TakeSnapshot
<1>3. /\ snap'.label = label /\ Range(todo') = {order[k] : k \in D} /\ label' = label
      /\ Open' = Open
  BY <1>1, <1>2, SnapshotType DEF session, Open
<1>4. ASSUME NEW t \in Open PROVE Looked(t)'
  BY <1>3 DEF Looked, Seen
<1>5. ASSUME NEW t \in Open PROVE Recorded(t)'
  <2>1. t \in Tab /\ mem.tabs[t] \in RenderedSet /\ mem'.tabs[t] = Resolve(mem.tabs[t], label[t])
    <3>1. mem'.tabs[t] = Removed(t)
      BY <1>1, <1>2, RecoveredEntries
    <3> QED BY <1>1, <3>1 DEF Removed, WasLastPane, RecordsInv
  <2>2. ASSUME mem'.tabs[t] # mem.tabs[t] PROVE Recorded(t)'
    <3>1. mem'.tabs[t].own = "owned" => mem'.tabs[t].shown = label[t] /\ label[t] \in Renderings
      BY <1>1, <2>1, <2>2, RenderedResolve
    <3> QED BY <1>2, <1>3, <3>1 DEF Recorded, Current
  <2>3. ASSUME mem'.tabs[t] = mem.tabs[t] PROVE Recorded(t)'
    <3>1. Current(t)' = Current(t)
      BY <1>2, <2>3 DEF Current
    <3>2. ASSUME Reacting(t) PROVE Reacting(t)'
      <4>1. inv = TabRenamed(t) /\ inv.op = "renamed" /\ inv.tab = t
        BY <3>2 DEF Reacting, TabRenamed
      <4>2. as' = inv
        BY <1>2, <4>1 DEF Vanished, WasLastPane, MappedTab
      <4>3. InScope(as', t, MappedTab)
        BY <4>1, <4>2 DEF InScope
      <4>4. PICK k \in DOMAIN order : order[k] = t
        BY DEF Open, Range
      <4>5. t \in Undecided'
        BY <1>2, <1>3, <4>3, <4>4 DEF Undecided
      <4> QED BY <1>2, <4>1, <4>5 DEF Reacting, Working, TabRenamed
    <3> QED BY <1>3, <3>1, <3>2, RecordKept DEF LabelsInv
  <2> QED BY <2>2, <2>3
<1> QED BY <1>3, <1>4, <1>5 DEF LabelsInv

LEMMA LabelsStep ==
  ASSUME CoreInv, PlainInv, RecordsInv, PositionsInv, LabelsInv, [PluginNext]_pluginVars,
         \A s \in Settings : s.number, UserLabels \cap Renderings = {}
  PROVE  LabelsInv'
<1>1. /\ TypeInv /\ SessionInv /\ PassInv /\ StateInv /\ mem \in StateSet /\ Open \in SUBSET Tab
  BY OpenType DEF CoreInv, AllInv, TypeInv, StateInv
<1>2. ASSUME NEW p \in Proc, NEW i \in Reported, PassFor(p, i) PROVE LabelsInv'
  <2>1. Begin(i) /\ i \in Invocation /\ i.op # "reset" /\ pc = "idle" /\ pc' = "snapshot"
    BY <1>2, ReportedFields DEF PassFor, Begin
  <2>2. Open' = Open /\ label' = label /\ \A t \in Tab : mem'.tabs[t] = disk.tabs[t]
    BY <1>1, <2>1, BeginEntries DEF Begin, session, Open
  <2>3. ASSUME NEW t \in Open PROVE Looked(t)' /\ Recorded(t)'
    <3>1. Current(t)' = Current(t)
      BY <1>1, <2>1, <2>2 DEF Current
    <3>2. ~Reacting(t)
      BY <2>1 DEF Reacting, Working
    <3>3. Recorded(t)'
      BY <2>2, <3>1, <3>2, RecordKept DEF LabelsInv
    <3> QED BY <2>1, <3>3 DEF Looked, Working
  <2> QED BY <2>2, <2>3 DEF LabelsInv
<1>3. ASSUME Finish \/ IgnoreClosedPane PROVE LabelsInv'
  <2>1. /\ pc' = "idle" /\ pc # "idle" /\ UNCHANGED session
        /\ \/ disk' = mem \/ \E tabs : disk' = Prune(mem, tabs)
           \/ disk' = Refresh(mem, place, Open)
    BY <1>3 DEF Finish, IgnoreClosedPane, EndOfPass
  <2>2. \A t \in Tab : disk'.tabs[t] \in {mem.tabs[t], Unowned}
    <3>1. ASSUME NEW tabs, disk' = Prune(mem, tabs) PROVE \A t \in Tab : disk'.tabs[t] \in {mem.tabs[t], Unowned}
      BY <1>1, <3>1, PruneType
    <3>2. Refresh(mem, place, Open).tabs = mem.tabs
      BY <1>1, RefreshType
    <3> QED BY <2>1, <3>1, <3>2
  <2>3. Open' = Open /\ label' = label
    BY <2>1 DEF session, Open
  <2>4. ASSUME NEW t \in Open PROVE Looked(t)' /\ Recorded(t)'
    <3>1. Current(t)' \in {Current(t), Unowned}
      BY <1>1, <2>1, <2>2 DEF Current
    <3>2. ~Reacting(t)
      BY <1>3 DEF Finish, IgnoreClosedPane, Reacting, Working, Undecided, TabRenamed, Range
    <3>3. Recorded(t)'
      BY <2>3, <3>1, <3>2, RecordKept DEF LabelsInv, Unowned
    <3> QED BY <2>1, <3>3 DEF Looked, Working
  <2> QED BY <2>3, <2>4 DEF LabelsInv
<1>4. ASSUME UNCHANGED vars PROVE LabelsInv'
  <2>1. UNCHANGED <<session, disk, mem, pass>>
    BY <1>4 DEF vars
  <2>2. Open' = Open /\ label' = label /\ (Working' <=> Working) /\ UNCHANGED <<snap, todo>>
    BY <2>1 DEF session, pass, Open, Working
  <2>3. ASSUME NEW t \in Open PROVE Looked(t)' /\ Recorded(t)'
    <3>1. Current(t)' = Current(t) /\ (Reacting(t) => Reacting(t)')
      BY <2>1 DEF Current, Reacting, Working, Undecided, TabRenamed, pass
    <3>2. Recorded(t)'
      BY <2>2, <3>1, RecordKept DEF LabelsInv
    <3>3. CASE Working
      BY <2>2, <3>2, <3>3, LookedKept DEF LabelsInv
    <3>4. CASE ~Working
      BY <2>2, <3>2, <3>4 DEF Looked
    <3> QED BY <3>3, <3>4
  <2> QED BY <2>2, <2>3 DEF LabelsInv
<1> QED BY <1>2, <1>3, <1>4, LabelsSession, LabelsSnapshot, LabelsSkip, LabelsPlan, LabelsGuard,
           LabelsRename, KindsOfSteps DEF RenameTab

-----------------------------------------------------------------------------
(* Numbers *)

LEMMA NumberedReadsBack ==
  ASSUME NEW base \in Label, NEW k \in Nat
  PROVE  LET l == Numbered(k, base) IN l # <<>> /\ l[1] = Num(k) /\ Strip(l) = FromText(l)
<1> DEFINE rest == IF Strip(base) = <<>> THEN <<>> ELSE <<Space>> \o Strip(base)
<1>1. Numbered(k, base) = <<Num(k)>> \o rest /\ rest \in Seq(Token)
  <2>1. Strip(base) \in Seq(Token) /\ Space \in Token
    BY StripKeepsText, TokenKinds DEF Label
  <2> QED BY <2>1 DEF Numbered
<1> HIDE DEF rest
<1>2. Num(k) \in Token
  BY TokenKinds
<1>3. Numbered(k, base) # <<>> /\ Numbered(k, base)[1] = Num(k)
  BY <1>1, <1>2
<1>4. Strip(Numbered(k, base)) = FromText(Numbered(k, base))
  BY NumberedKeepsText
<1> QED BY <1>3, <1>4

\* A tab that needs nothing of the running pass needs nothing of it afterwards.
LEMMA NumberingKept ==
  ASSUME CoreInv, RecordsInv, [PluginNext]_pluginVars, NEW t \in Tab, t \in Open,
         label'[t] = label[t], Rank(t)' = Rank(t) \/ Shift(t)',
         HasItsNumber(t) \/ Shift(t) \/ Foreign(t) \/ (Awaiting(t) /\ Current(t)' = Current(t))
  PROVE  Numbering(t)'
<1>1. Shift(t) => Shift(t)' \/ Covered(t)'
  BY ShiftStays DEF Covered
<1>2. Foreign(t) => Foreign(t)' \/ Covered(t)'
  BY ForeignStays DEF Foreign, Covered, TabRenamed
<1>3. HasItsNumber(t) => HasItsNumber(t)' \/ Shift(t)'
  BY DEF HasItsNumber
<1>4. Awaiting(t) /\ Current(t)' = Current(t) => Awaiting(t)'
  BY DEF Awaiting
<1> QED BY <1>1, <1>2, <1>3, <1>4 DEF Numbering

LEMMA NumberingSession ==
  ASSUME CoreInv, NumbersInv, [PluginNext]_pluginVars, ChangeSession, ShiftsReported,
         UserLabels \cap Renderings = {}, NEW t \in Tab, t \in Open'
  PROVE  Numbering(t)'
<1>1. /\ TabKept(t) \/ RenamedByUser(t) \/ OpenedByUser(t) \/ ClosedByUser(t)
      /\ UNCHANGED <<disk, mem, pass>>
  <2>1. SessionInv /\ typed \in [Tab -> TypedSet]
        /\ author \in [Tab -> {"herdr", "user", "plugin", "unclaimed"}]
    BY DEF CoreInv, AllInv, TypeInv, AuthorInv, FixedInv
  <2> QED BY <2>1, ChangeEffect, SessionEffect, SessionStep DEF ChangeSession
<1>2. (t \in Open /\ Rank(t)' = Rank(t)) \/ Shift(t)'
  BY DEF ShiftsReported, Shift, Outstanding
<1>3. CASE RenamedByUser(t)
  <2>1. label'[t] \notin Renderings /\ Announced(t)'
    BY <1>3, LabelsReported DEF RenamedByUser
  <2> QED BY <2>1 DEF Numbering, Foreign
<1>4. CASE TabKept(t)
  <2>1. t \in Open /\ label'[t] = label[t] /\ Numbering(t)
    BY <1>4 DEF TabKept, NumbersInv
  <2>2. Current(t)' = Current(t) /\ (Covered(t) => Covered(t)')
    BY <1>1 DEF pass, Current, Covered, Working, Concerns, TabRenamed
  <2>3. Covered(t) => Numbering(t)'
    BY <2>2 DEF Numbering
  <2> QED BY <1>2, <2>1, <2>2, <2>3, NumberingKept DEF Numbering, NumbersInv
<1>5. CASE OpenedByUser(t)
  BY <1>2, <1>5 DEF OpenedByUser, Numbering
<1> QED BY <1>1, <1>3, <1>4, <1>5 DEF ClosedByUser

\* A pass that goes on with its targets: only the first one is in question.
LEMMA NumberingLoop ==
  ASSUME CoreInv, NumbersInv, [PluginNext]_pluginVars,
         SkipTab \/ PlanTab \/ GuardRead \/ Rename,
         NEW t \in Tab, t \in Open, label'[t] = label[t], Rank(t)' = Rank(t),
         \/ t # Head(todo) \/ todo' = todo
         \/ HasItsNumber(t) \/ Shift(t) \/ Foreign(t) \/ (Awaiting(t) /\ Current(t)' = Current(t))
  PROVE  Numbering(t)'
<1>1. TypeInv /\ PassInv
  BY DEF CoreInv, AllInv, TypeInv
<1>2. /\ Working /\ Working' /\ todo # <<>> /\ todo' \in {todo, Tail(todo)}
      /\ \A u \in Tab \ {Head(todo)} : mem'.tabs[u] = mem.tabs[u]
  BY <1>1, LoopStep DEF Working
<1>3. Range(Tail(todo)) = Range(todo) \ {Head(todo)}
  BY <1>1, <1>2, TailOfTargets DEF PassInv
<1>4. CASE t # Head(todo)
  <2>1. Covered(t) => Covered(t)'
    BY <1>2, <1>3, <1>4 DEF Covered, Working
  <2>2. Current(t)' = Current(t)
    BY <1>2, <1>4 DEF Current, Working
  <2> QED BY <2>1, <2>2, NumberingKept DEF Numbering, NumbersInv
<1>5. CASE t = Head(todo) /\ todo' = todo
  <2>1. t \in Range(todo)
    BY <1>1, <1>2, <1>5, TailOfTargets DEF PassInv
  <2> QED BY <1>2, <1>5, <2>1 DEF Covered, Numbering
<1>6. CASE HasItsNumber(t) \/ Shift(t) \/ Foreign(t) \/ (Awaiting(t) /\ Current(t)' = Current(t))
  BY <1>6, NumberingKept DEF NumbersInv
<1> QED BY <1>4, <1>5, <1>6

\* The first target, while a pass is about to decide about it.
LEMMA NumberingSkip ==
  ASSUME CoreInv, PlainInv, NumbersInv, [PluginNext]_pluginVars, SkipTab,
         NEW t \in Tab, t \in Open, Rank(t)' = Rank(t)
  PROVE  Numbering(t)'
<1>1. TypeInv /\ StateInv /\ PassInv
  BY DEF CoreInv, AllInv, TypeInv
<1>2. /\ pc = "plan" /\ pc' = "plan" /\ todo # <<>> /\ label' = label
      /\ \/ mem' = mem /\ InitialAdoption(Target)
         \/ Disowned(Target) /\ ~RenameEventOf(Target)
  BY DEF SkipTab, Proceed, session
<1>3. ASSUME t = Head(todo), Seen(t) = label[t], ~Foreign(t)
      PROVE  Awaiting(t) /\ Current(t)' = Current(t)
  <2>1. t = Target /\ t \in Range(todo)
    BY <1>1, <1>2, <1>3, TargetType DEF Target
  <2>2. CASE mem' = mem /\ InitialAdoption(Target)
    BY <1>2, <1>3, <2>1, <2>2 DEF InitialAdoption, Awaiting, Current
  <2>3. CASE Disowned(Target) /\ ~RenameEventOf(Target)
    <3>1. mem.tabs[t].own = "owned" /\ mem.tabs[t] \in OwnershipSet
      BY <1>1, <2>1, <2>3, OwnershipFacts DEF Disowned
    <3>2. Strip(mem.tabs[t].shown) = mem.tabs[t].base
      BY <3>1, OwnershipKinds, OwnedFields
    <3>3. Seen(t) # mem.tabs[t].shown
      BY <2>1, <2>3, <3>2 DEF Disowned
    <3>4. Recorded(t) /\ Current(t) = mem.tabs[t]
      BY <1>2 DEF NumbersInv, LabelsInv, Current
    <3>5. Reacting(t)
      BY <1>3, <3>1, <3>3, <3>4 DEF Recorded, Foreign
    <3>6. inv = TabRenamed(t) /\ inv.op = "renamed" /\ Working
      BY <1>2, <3>5 DEF Reacting, TabRenamed, Working
    <3>7. as = inv
      BY <3>6 DEF PlainInv
    <3> QED BY <2>1, <2>3, <3>6, <3>7 DEF RenameEventOf, TabRenamed
  <2> QED BY <1>2, <2>2, <2>3
<1>4. t = Head(todo) => Seen(t) = label[t] \/ Foreign(t)
  BY <1>1, <1>2, TargetType DEF Target, NumbersInv, LabelsInv, Looked, Working
<1> QED BY <1>2, <1>3, <1>4, NumberingLoop

LEMMA NumberingPlan ==
  ASSUME CoreInv, PlainInv, NumbersInv, [PluginNext]_pluginVars, PlanTab,
         \A s \in Settings : s.number,
         NEW t \in Tab, t \in Open, Rank(t)' = Rank(t)
  PROVE  Numbering(t)'
<1>1. TypeInv /\ StateInv /\ PassInv /\ pc = "plan" /\ todo # <<>>
  BY PlanTabCases DEF CoreInv, AllInv, TypeInv
<1>2. PICK computed \in Computed(Target) :
        \/ InitialAdoption(Target) /\ Proceed(mem)
        \/ NothingToRename(computed) \/ RenamePlanned(computed)
  BY PlanTabCases
<1>3. label' = label
  BY <1>2 DEF Proceed, NothingToRename, RenamePlanned, session
<1>4. ASSUME t = Head(todo), Seen(t) = label[t]
      PROVE  \/ todo' = todo
             \/ HasItsNumber(t) \/ Shift(t) \/ (Awaiting(t) /\ Current(t)' = Current(t))
  <2>1. t = Target /\ t \in Range(snap.order)
    BY <1>1, <1>4, TargetType DEF Target
  <2>2. CASE InitialAdoption(Target) /\ Proceed(mem)
    BY <1>1, <1>4, <2>1, <2>2 DEF InitialAdoption, Proceed, Awaiting, Current
  <2>3. CASE RenamePlanned(computed)
    BY <2>3 DEF RenamePlanned
  <2>4. CASE NothingToRename(computed)
    <3> DEFINE base == DesiredBase(Target, computed)
    <3>1. Desired(Target, base) = Seen(Target)
      BY <2>4 DEF NothingToRename
    <3>2. /\ Desired(Target, base) = Numbered(Position(snap.order, Target), base)
          /\ Position(snap.order, Target) \in Nat /\ base \in Label
      BY <1>1, <2>4, NumberedDecision DEF NumbersInv
    <3> HIDE DEF base
    <3>3. label[t] # <<>> /\ label[t][1] = Num(Position(snap.order, t))
          /\ Strip(label[t]) = FromText(label[t])
      BY <1>4, <2>1, <3>1, <3>2, NumberedReadsBack
    <3>4. Position(snap.order, t) = Rank(t) \/ Shift(t)
      BY <1>1, <2>1 DEF NumbersInv, PositionsInv, Working
    <3> QED BY <3>3, <3>4 DEF HasItsNumber
  <2> QED BY <1>2, <2>2, <2>3, <2>4
<1>5. t = Head(todo) => Seen(t) = label[t] \/ Foreign(t)
  BY <1>1, TargetType DEF Target, NumbersInv, LabelsInv, Looked, Working
<1> QED BY <1>3, <1>4, <1>5, NumberingLoop

LEMMA NumberingGuard ==
  ASSUME CoreInv, NumbersInv, [PluginNext]_pluginVars, GuardRead,
         NEW t \in Tab, t \in Open, Rank(t)' = Rank(t)
  PROVE  Numbering(t)'
<1>1. TypeInv /\ pc = "guard" /\ plan.tab = Head(todo) /\ plan.tab \in Range(todo) /\ label' = label
  BY PlannedType DEF CoreInv, AllInv, GuardRead, Proceed, session
<1>2. t = Head(todo) => label[t] # Seen(t) \/ todo' = todo
  BY <1>1 DEF GuardRead
<1>3. t = Head(todo) => Seen(t) = label[t] \/ Foreign(t)
  BY <1>1 DEF NumbersInv, LabelsInv, Looked, Working
<1> QED BY <1>1, <1>2, <1>3, NumberingLoop

LEMMA NumberingRename ==
  ASSUME CoreInv, NumbersInv, [PluginNext]_pluginVars, Rename,
         NEW t \in Tab, t \in Open, Rank(t)' = Rank(t)
  PROVE  Numbering(t)'
<1>1. /\ TypeInv /\ PassInv /\ PlanInv /\ pc = "rename" /\ plan.tab = Head(todo)
      /\ plan.tab \in Range(snap.order) /\ Apply /\ UNCHANGED <<order, place, gone, env>>
  BY PlannedType DEF CoreInv, AllInv, TypeInv, Rename
<1>2. CASE t # plan.tab
  <2>1. label'[t] = label[t]
    BY <1>1, <1>2, ApplyType
  <2> QED BY <1>1, <1>2, <2>1, NumberingLoop
<1>3. CASE t = plan.tab
  <2>1. /\ label'[t] = Numbered(Position(snap.order, t), plan.base)
        /\ Position(snap.order, t) \in Nat /\ plan.base \in Label
    <3>1. label'[plan.tab] = plan.desired
      BY <1>1, <1>3, ApplyType
    <3>2. plan.desired = Numbered(Position(snap.order, plan.tab), plan.base)
      BY <1>1 DEF NumbersInv, PositionsInv
    <3>3. plan.base \in Label /\ snap.order \in Seq(Tab)
      BY <1>1 DEF PlanInv, PassInv
    <3> QED BY <1>1, <1>3, <3>1, <3>2, <3>3, PositionType
  <2>2. /\ label'[t] # <<>> /\ label'[t][1] = Num(Position(snap.order, t))
        /\ Strip(label'[t]) = FromText(label'[t])
    BY <2>1, NumberedReadsBack
  <2>3. Position(snap.order, t) = Rank(t) \/ Shift(t)
    BY <1>1, <1>3 DEF NumbersInv, PositionsInv, Working
  <2>4. Shift(t) => Shift(t)'
    BY <1>1, ShiftStays
  <2>5. Position(snap.order, t) = Rank(t) => HasItsNumber(t)'
    BY <2>2 DEF HasItsNumber
  <2> QED BY <2>3, <2>4, <2>5 DEF Numbering
<1> QED BY <1>2, <1>3

LEMMA NumberingSnapshot ==
  ASSUME CoreInv, PlainInv, NumbersInv, [PluginNext]_pluginVars, TakeSnapshot,
         NEW t \in Tab, t \in Open, Rank(t)' = Rank(t)
  PROVE  Numbering(t)'
<1> DEFINE D == {k \in DOMAIN order : InScope(as', order[k], MappedTab)}
<1>1. /\ SessionInv /\ StateInv /\ inv \in Reported /\ inv \in Invocation /\ inv.op # "toggle"
  BY ReportedFields DEF CoreInv, AllInv, TypeInv, PlainInv, TakeSnapshot
<1>2. /\ pc = "snapshot" /\ pc' = "plan" /\ mem' = Recovered /\ UNCHANGED session
      /\ as' = IF Vanished THEN [op |-> "closed_tab", ws |-> VanishedFrom] ELSE inv
      /\ snap' = [order |-> order, label |-> label] /\ todo' = SelectAt(order, D)
  BY DEF TakeSnapshot
<1>3. Range(todo') = {order[k] : k \in D} /\ label' = label
  BY <1>1, <1>2, SnapshotType DEF session
<1>4. ASSUME Covered(t) PROVE Covered(t)'
  <2>1. Concerns(inv, t) \/ inv = TabRenamed(t)
    BY <1>2, <1>4 DEF Covered, Working
  <2>2. inv.op \in {"full", "workspace", "closed_tab", "renamed"}
    BY <2>1 DEF Concerns, Full, TabRenamed
  <2>3. as' = inv
    BY <1>2, <2>2 DEF Vanished, WasLastPane, MappedTab
  <2>4. InScope(inv, t, MappedTab)
    BY <2>1 DEF InScope, Concerns, Full, TabRenamed
  <2>5. PICK k \in DOMAIN order : order[k] = t
    BY DEF Open, Range
  <2> QED BY <1>2, <1>3, <2>3, <2>4, <2>5 DEF Covered, Working
<1>5. ASSUME Awaiting(t) PROVE Current(t)' = Current(t)
  <2>1. mem'.tabs[t] = Removed(t)
    BY <1>1, <1>2, RecoveredEntries
  <2>2. mem.tabs[t] = Unowned
    BY <1>2, <1>5 DEF Awaiting, Current
  <2> QED BY <1>2, <2>1, <2>2 DEF Current, Removed, WasLastPane, Resolve, Unowned
<1> QED BY <1>3, <1>4, <1>5, NumberingKept DEF Numbering, NumbersInv

LEMMA NumberingStep ==
  ASSUME CoreInv, PlainInv, NumbersInv, [PluginNext]_pluginVars, ~ChangeSession,
         \A s \in Settings : s.number, NEW t \in Tab, t \in Open
  PROVE  Numbering(t)'
<1>1. /\ TypeInv /\ StateInv /\ mem \in StateSet /\ Open \in SUBSET Tab
      /\ Rank(t)' = Rank(t) /\ Numbering(t) /\ RecordsInv
  BY OpenType, OrderKept DEF CoreInv, AllInv, TypeInv, StateInv, NumbersInv
<1>2. ASSUME NEW p \in Proc, NEW i \in Reported, PassFor(p, i) PROVE Numbering(t)'
  <2>1. Begin(i) /\ i \in Invocation /\ i.op # "reset" /\ pc = "idle" /\ pc' = "snapshot"
    BY <1>2, ReportedFields DEF PassFor, Begin
  <2>2. label' = label /\ Current(t)' = Current(t)
    BY <1>1, <2>1, BeginEntries DEF Begin, session, Current
  <2>3. ~Covered(t)
    BY <2>1 DEF Covered, Working
  <2> QED BY <1>1, <2>2, <2>3, NumberingKept DEF Numbering
<1>3. ASSUME Finish \/ IgnoreClosedPane PROVE Numbering(t)'
  <2>1. /\ pc' = "idle" /\ pc # "idle" /\ UNCHANGED session
        /\ \/ disk' = mem \/ \E tabs : disk' = Prune(mem, tabs)
           \/ disk' = Refresh(mem, place, Open)
    BY <1>3 DEF Finish, IgnoreClosedPane, EndOfPass
  <2>2. disk'.tabs[t] \in {mem.tabs[t], Unowned}
    <3>1. ASSUME NEW tabs, disk' = Prune(mem, tabs) PROVE disk'.tabs[t] \in {mem.tabs[t], Unowned}
      BY <1>1, <3>1, PruneType
    <3>2. Refresh(mem, place, Open).tabs = mem.tabs
      BY <1>1, RefreshType
    <3> QED BY <2>1, <3>1, <3>2
  <2>3. label' = label /\ (Awaiting(t) => Current(t)' = Current(t))
    BY <2>1, <2>2 DEF session, Awaiting, Current
  <2>4. ~Covered(t)
    BY <1>3 DEF Finish, IgnoreClosedPane, Covered, Working, Concerns, Full, TabRenamed, Range
  <2> QED BY <1>1, <2>3, <2>4, NumberingKept DEF Numbering
<1>4. ASSUME UNCHANGED vars PROVE Numbering(t)'
  <2>1. UNCHANGED <<label, disk, mem, pc, inv, todo>>
    BY <1>4 DEF vars, session, pass
  <2>2. Current(t)' = Current(t) /\ (Covered(t) => Covered(t)')
    BY <2>1 DEF Current, Covered, Working, Concerns, TabRenamed
  <2> QED BY <1>1, <2>1, <2>2, NumberingKept DEF Numbering
<1> QED BY <1>1, <1>2, <1>3, <1>4, NumberingSnapshot, NumberingSkip, NumberingPlan,
           NumberingGuard, NumberingRename, KindsOfSteps DEF RenameTab

LEMMA NumbersStep ==
  ASSUME CoreInv, PlainInv, NumbersInv, [PluginNext]_pluginVars, CoreInv',
         LastPaneReports = {}, \A s \in Settings : s.number, UserLabels \cap Renderings = {}
  PROVE  NumbersInv'
<1>1. /\ SessionInv /\ SessionInv'
      /\ Housed /\ PositionsInv /\ RecordsInv /\ LabelsInv
  BY DEF CoreInv, AllInv, TypeInv, NumbersInv
<1>2. Open \in SUBSET Tab /\ Open' \in SUBSET Tab
  BY <1>1, OpenTypes
<1>3. ChangeSession => Housed' /\ ShiftsReported
  BY <1>1, ChangeShifts DEF ChangeSession
<1>4. ~ChangeSession => Housed'
  BY <1>1, OrderKept DEF Housed
<1>5. PositionsInv' /\ RecordsInv' /\ LabelsInv'
  BY <1>1, <1>3, PositionsStep, RecordsStep, LabelsStep
<1>6. ASSUME NEW t \in Open' PROVE Numbering(t)'
  <2>1. ~ChangeSession => t \in Open
    BY OrderKept
  <2> QED BY <1>2, <1>3, <2>1, NumberingSession, NumberingStep
<1> QED BY <1>3, <1>4, <1>5, <1>6 DEF NumbersInv

LEMMA NumbersInit == PluginInit => NumbersInv
<1> SUFFICES ASSUME PluginInit PROVE NumbersInv
  OBVIOUS
<1>1. /\ pc = "idle" /\ mem = EmptyState /\ order = FirstOrder /\ place = FirstPlace /\ gone = {}
      /\ loaded = [p \in Proc |-> Nothing]
      /\ label = [t \in Tab |-> Shown(t)]
      /\ disk.tabs = [t \in Tab |-> IF t \in Range(FirstOrder)
                                     THEN Owned(FirstName, Shown(t)) ELSE Unowned]
  BY DEF PluginInit
<1>2. /\ Open = Range(FirstOrder) /\ Open \in SUBSET Tab /\ label \in [Tab -> Label]
      /\ \A t \in Open : Strip(label[t]) = FirstName
      /\ FirstName \in Names /\ FirstName \in Label
  BY FirstTabs, PluginAssumption, NameFacts
<1>3. SessionInv
  BY PluginInitAll DEF AllInv, TypeInv
<1>4. ASSUME NEW t \in Open
      PROVE  /\ label[t] = Numbered(Rank(t), FirstName) /\ Rank(t) \in Nat
             /\ label[t] \in Renderings
             /\ disk.tabs[t] = Owned(FirstName, label[t]) /\ disk.tabs[t] \in RenderedSet
             /\ disk.tabs[t].shown = label[t]
  <2>1. label[t] = Numbered(Position(order, t), FirstName)
    BY <1>1, <1>2 DEF Shown
  <2>2. Position(order, t) = Rank(t) /\ Position(order, t) \in Nat
    BY <1>3, PositionIsRank, PositionType DEF SessionInv, Open
  <2>3. label[t] \in Renderings
    BY <1>2, <2>1, <2>2 DEF Renderings
  <2>4. disk.tabs[t] = Owned(FirstName, label[t]) /\ label[t] \in Label
    BY <1>1, <1>2
  <2>5. disk.tabs[t] \in OwnedSet /\ disk.tabs[t].shown = label[t]
    BY <1>2, <2>4, OwnedType
  <2> QED BY <2>1, <2>2, <2>3, <2>4, <2>5, RenderedSimple
<1>5. \A t \in Tab \ Open : disk.tabs[t] = Unowned
  BY <1>1, <1>2
<1>6. Housed
  <2>1. DOMAIN FirstPlace = Pane
    BY <1>1, <1>3 DEF SessionInv
  <2>2. \A t \in Range(FirstOrder) : \E p \in Pane : FirstPlace[p] = t
    BY <2>1, PluginAssumption DEF Range
  <2> QED BY <1>1, <1>2, <2>2 DEF Housed
<1>7. PositionsInv
  BY <1>1 DEF PositionsInv, Working
<1>8. RecordsInv
  BY <1>1, <1>4, <1>5, RenderedSimple DEF RecordsInv, Unopened, EmptyState
<1>9. LabelsInv
  BY <1>1, <1>4 DEF LabelsInv, Looked, Recorded, Current, Working
<1>10. ASSUME NEW t \in Open PROVE Numbering(t)
  BY <1>2, <1>4, NumberedReadsBack DEF Numbering, HasItsNumber
<1> QED BY <1>6, <1>7, <1>8, <1>9, <1>10 DEF NumbersInv

\* What the user types is not what the plugin renders, unless a name may be empty.
LEMMA TypedIsNotRendered ==
  <<>> \notin Names => UserLabels \cap Renderings = {}
<1> SUFFICES ASSUME NEW l \in UserLabels, NEW k \in Nat, NEW n \in Names, l = Numbered(k, n)
             PROVE  <<>> \in Names
  BY DEF Renderings
<1>1. n \in Label /\ FromText(n) = n
  BY NameFacts
<1>2. FromText(l) = n
  BY <1>1, NumberedKeepsText
<1> QED BY <1>2, LabelsAssumption

(***************************************************************************)
(* The reports are enough to keep the numbers right, however many processes *)
(* Herdr starts for them, in whichever order: with number_tabs on, whenever *)
(* all reports have been dealt with, each tab has the number of its         *)
(* position, or waits for a shell.  Two things are assumed.  No tab goes    *)
(* with its last pane: what Herdr reports of that is not enough (run        *)
(* plugin_vanished).  And the user types no label that the plugin might     *)
(* have rendered, which can only be a number alone, if names may be empty:  *)
(* is_owned_rename_event may then dismiss the report of the user's rename,  *)
(* and the argument, which rests on that report, does not go through.       *)
(***************************************************************************)
THEOREM EventsDoRenumber ==
  ASSUME LastPaneReports = {}, \A s \in Settings : s.number, UserLabels \cap Renderings = {}
  PROVE  PluginSpec => []EventsRenumber
<1> DEFINE Inv == CoreInv /\ PlainInv /\ NumbersInv
<1>1. PluginInit => Inv
  BY PluginInitAll, PluginInitProcesses, PlainInit, NumbersInit DEF CoreInv
<1>2. Inv /\ [PluginNext]_pluginVars => Inv'
  <2> SUFFICES ASSUME Inv, [PluginNext]_pluginVars PROVE Inv'
    OBVIOUS
  <2>1. CoreInv'
    BY CoreStep
  <2>2. PlainInv'
    BY <2>1, PlainStep
  <2>3. NumbersInv'
    BY <2>1, NumbersStep
  <2> QED BY <2>1, <2>2, <2>3
<1>3. Inv => EventsRenumber
  <2> SUFFICES ASSUME Inv, Quiet, markers = {}, NEW t \in Open
               PROVE  HasItsNumber(t) \/ (disk.tabs[t] = Unowned /\ IsPlaceholder(Strip(label[t])))
    BY DEF EventsRenumber
  <2>1. Outstanding = {} /\ pc = "idle"
    BY QuietOwesNothing DEF CoreInv
  <2>2. Numbering(t)
    BY DEF NumbersInv
  <2> QED BY <2>1, <2>2
          DEF Numbering, Shift, Covered, Foreign, Awaiting, Announced, Current, Working
<1> QED BY <1>1, <1>2, <1>3, PTL DEF PluginSpec
=============================================================================
