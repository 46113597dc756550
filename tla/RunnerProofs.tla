---------------------------- MODULE RunnerProofs ----------------------------
(***************************************************************************)
(* What Runner guarantees for every set of processes, every budget of       *)
(* passes and with or without failures.                                     *)
(***************************************************************************)
EXTENDS Runner, TLAPS

(***************************************************************************)
(* TypeOK is inductive together with PassInv: the number of passes left     *)
(* stays natural because nobody enters a pass without one.                  *)
(***************************************************************************)
TypeInv == TypeOK /\ PassInv

LEMMA TypeInit == Init => TypeInv
  BY RunnerAssumption DEF TypeInv, PassInv, Init, TypeOK, Kind, Exact, Active, Holding, Outcome, Free

LEMMA RequestedKind == \A k : Requested(k) \in Kind
  BY DEF Requested, Kind, Exact

(* A consumed marker leaves the variables it writes well typed.             *)
LEMMA ConsumeType ==
  ASSUME TypeOK, NEW p \in Proc, NEW q \in markers, Consume(p, q)
  PROVE  /\ markers' \subseteq Proc
         /\ serving' \in [Proc -> Proc \cup {Free}]
         /\ serving' = [serving EXCEPT ![p] = q]
         /\ q \in Proc
         /\ running' \in [Proc -> Kind]
         /\ pc' = [pc EXCEPT ![p] = "pass"]
  BY RequestedKind DEF Consume, TypeOK, Goto

LEMMA TypeStep == TypeInv /\ [Next]_vars => TypeInv'
<1> SUFFICES ASSUME TypeInv, [Next]_vars PROVE TypeInv'
  OBVIOUS
<1> USE RunnerAssumption
        DEF TypeInv, TypeOK, PassInv, Active, Holding, Outcome, Goto, Exit, control, history
<1>1. ASSUME NEW p \in Proc, Start(p) PROVE TypeInv'
  BY <1>1 DEF Start, Kind, Exact
<1>2. ASSUME NEW p \in Proc, WaitUntilClosed(p) PROVE TypeInv'
  BY <1>2 DEF WaitUntilClosed
<1>3. ASSUME NEW p \in Proc, ProbeLock(p) PROVE TypeInv'
  BY <1>3 DEF ProbeLock
<1>4. ASSUME NEW p \in Proc, DropProbe(p) PROVE TypeInv'
  BY <1>4 DEF DropProbe
<1>5. ASSUME NEW p \in Proc, AcquireExact(p) PROVE TypeInv'
  BY <1>5 DEF AcquireExact, EnterOwnPass
<1>6. ASSUME NEW p \in Proc, AcquireTimeout(p) PROVE TypeInv'
  BY <1>6 DEF AcquireTimeout
<1>7. ASSUME NEW p \in Proc, TryAcquire(p) PROVE TypeInv'
  BY <1>7 DEF TryAcquire, EnterOwnPass
<1>8. ASSUME NEW p \in Proc, OwnedRenameEvent(p) PROVE TypeInv'
  BY <1>8 DEF OwnedRenameEvent
<1>9. ASSUME NEW p \in Proc, RequestRerun(p) PROVE TypeInv'
  BY <1>9 DEF RequestRerun
<1>10. ASSUME NEW p \in Proc, RetryAcquire(p) PROVE TypeInv'
  BY <1>10 DEF RetryAcquire
<1>11. ASSUME NEW p \in Proc, ClaimRequest(p) PROVE TypeInv'
  <2>1. ASSUME NEW q \in markers, Consume(p, q) PROVE TypeInv'
    BY <1>11, <2>1, ConsumeType DEF ClaimRequest
  <2>2. CASE markers = {} /\ EnterOwnPass(p) /\ UNCHANGED <<markers, running>>
    BY <1>11, <2>2 DEF ClaimRequest, EnterOwnPass
  <2> QED
    BY <1>11, <2>1, <2>2 DEF ClaimRequest
<1>12. ASSUME NEW p \in Proc, Pass(p) PROVE TypeInv'
  <2>1. budget[p] \in 1 .. MaxPasses
    BY <1>12 DEF Pass
  <2>2. /\ budget' = [budget EXCEPT ![p] = budget[p] - 1]
        /\ budget'[p] = budget[p] - 1
        /\ budget[p] - 1 \in 0 .. MaxPasses
    BY <1>12, <2>1 DEF Pass
  <2>3. budget' \in [Proc -> 0 .. MaxPasses]
    BY <2>2
  <2>4. served' \subseteq Proc
    BY <1>12 DEF Pass
  <2> QED
    BY <1>12, <2>2, <2>3, <2>4 DEF Pass
<1>13. ASSUME NEW p \in Proc, TakeRerun(p) PROVE TypeInv'
  <2>1. ASSUME NEW q \in markers, Consume(p, q) PROVE TypeInv'
    BY <1>13, <2>1, ConsumeType DEF TakeRerun
  <2>2. CASE markers = {}
    BY <1>13, <2>2 DEF TakeRerun
  <2> QED
    BY <1>13, <2>1, <2>2 DEF TakeRerun
<1>14. ASSUME NEW p \in Proc, Release(p) PROVE TypeInv'
  BY <1>14 DEF Release
<1>15. ASSUME NEW p \in Proc, Recheck(p) PROVE TypeInv'
  BY <1>15 DEF Recheck
<1>16. ASSUME NEW p \in Proc, Reacquire(p) PROVE TypeInv'
  BY <1>16 DEF Reacquire
<1>17. ASSUME NEW p \in Proc, RetakeRerun(p) PROVE TypeInv'
  <2>1. ASSUME NEW q \in markers, Consume(p, q) PROVE TypeInv'
    BY <1>17, <2>1, ConsumeType DEF RetakeRerun
  <2>2. CASE markers = {}
    BY <1>17, <2>2 DEF RetakeRerun
  <2> QED
    BY <1>17, <2>1, <2>2 DEF RetakeRerun
<1>18. ASSUME NEW p \in Proc, Abort(p) PROVE TypeInv'
  BY <1>18 DEF Abort
<1>19. ASSUME UNCHANGED vars PROVE TypeInv'
  BY <1>19 DEF vars
<1> QED
  BY <1>1, <1>2, <1>3, <1>4, <1>5, <1>6, <1>7, <1>8, <1>9, <1>10, <1>11, <1>12,
     <1>13, <1>14, <1>15, <1>16, <1>17, <1>18, <1>19
  DEF Next, Step, Finished

(* Every variable keeps its type. *)
THEOREM TypeCorrect == Spec => []TypeOK
  <1>1. TypeInv => TypeOK
  BY DEF TypeInv
<1> QED
  BY <1>1, TypeInit, TypeStep, PTL DEF Spec

-----------------------------------------------------------------------------
(* Mutual exclusion *)

LEMMA LockInit == Init => LockInv
  BY RunnerAssumption DEF Init, LockInv, Holding, Free

LEMMA LockStep == TypeInv /\ LockInv /\ [Next]_vars => LockInv'
<1> SUFFICES ASSUME TypeInv, LockInv, [Next]_vars PROVE LockInv'
  OBVIOUS
<1> USE RunnerAssumption DEF TypeInv, TypeOK, LockInv, Holding, Goto, Exit, Free
<1>1. ASSUME NEW p \in Proc, Start(p) PROVE LockInv'
  BY <1>1 DEF Start, Exact
<1>2. ASSUME NEW p \in Proc, WaitUntilClosed(p) PROVE LockInv'
  BY <1>2 DEF WaitUntilClosed
<1>3. ASSUME NEW p \in Proc, ProbeLock(p) PROVE LockInv'
  BY <1>3 DEF ProbeLock
<1>4. ASSUME NEW p \in Proc, DropProbe(p) PROVE LockInv'
  BY <1>4 DEF DropProbe
<1>5. ASSUME NEW p \in Proc, AcquireExact(p) PROVE LockInv'
  BY <1>5 DEF AcquireExact, EnterOwnPass
<1>6. ASSUME NEW p \in Proc, AcquireTimeout(p) PROVE LockInv'
  BY <1>6 DEF AcquireTimeout
<1>7. ASSUME NEW p \in Proc, TryAcquire(p) PROVE LockInv'
  BY <1>7 DEF TryAcquire, EnterOwnPass
<1>8. ASSUME NEW p \in Proc, OwnedRenameEvent(p) PROVE LockInv'
  BY <1>8 DEF OwnedRenameEvent
<1>9. ASSUME NEW p \in Proc, RequestRerun(p) PROVE LockInv'
  BY <1>9 DEF RequestRerun
<1>10. ASSUME NEW p \in Proc, RetryAcquire(p) PROVE LockInv'
  BY <1>10 DEF RetryAcquire
<1>11. ASSUME NEW p \in Proc, ClaimRequest(p) PROVE LockInv'
  BY <1>11 DEF ClaimRequest, Consume, EnterOwnPass
<1>12. ASSUME NEW p \in Proc, Pass(p) PROVE LockInv'
  BY <1>12 DEF Pass
<1>13. ASSUME NEW p \in Proc, TakeRerun(p) PROVE LockInv'
  BY <1>13 DEF TakeRerun, Consume
<1>14. ASSUME NEW p \in Proc, Release(p) PROVE LockInv'
  BY <1>14 DEF Release
<1>15. ASSUME NEW p \in Proc, Recheck(p) PROVE LockInv'
  BY <1>15 DEF Recheck
<1>16. ASSUME NEW p \in Proc, Reacquire(p) PROVE LockInv'
  BY <1>16 DEF Reacquire
<1>17. ASSUME NEW p \in Proc, RetakeRerun(p) PROVE LockInv'
  BY <1>17 DEF RetakeRerun, Consume
<1>18. ASSUME NEW p \in Proc, Abort(p) PROVE LockInv'
  BY <1>18 DEF Abort
<1>19. ASSUME UNCHANGED vars PROVE LockInv'
  BY <1>19 DEF vars
<1> QED
  BY <1>1, <1>2, <1>3, <1>4, <1>5, <1>6, <1>7, <1>8, <1>9, <1>10, <1>11, <1>12, <1>13, <1>14, <1>15, <1>16, <1>17, <1>18, <1>19
  DEF Next, Step, Finished

(* The lock is held exactly by a process that is between taking and dropping
   it: passes are serialised whatever the number of processes. *)
THEOREM MutualExclusion == Spec => []LockInv
<1>1. Init => TypeInv /\ LockInv
  BY TypeInit, LockInit
<1>2. TypeInv /\ LockInv /\ [Next]_vars => (TypeInv /\ LockInv)'
  BY TypeStep, LockStep
<1> QED
  BY <1>1, <1>2, PTL DEF Spec

-----------------------------------------------------------------------------
(* Requests *)

(* A process somebody can count on: while a marker waits, this process will
   look into reruns/ again, or will find the lock held by one that will.    *)
Bound(p) == pc[p] \in Holding \cup {"wait", "retry", "recheck", "reacquire"}

(* NoStrandedMarker is about the end only; this says why it comes out.      *)
StrandInv == markers # {} => \E p \in Proc : Exempt(p) \/ Bound(p)

LEMMA StrandStep ==
  TypeInv /\ LockInv /\ StrandInv /\ [Next]_vars => StrandInv'
<1> SUFFICES ASSUME TypeInv, LockInv, StrandInv, [Next]_vars PROVE StrandInv'
  OBVIOUS
<1> USE RunnerAssumption
        DEF TypeInv, TypeOK, PassInv, LockInv, StrandInv, Bound, Exempt, Holding, Goto, Exit
<1>1. ASSUME NEW p \in Proc, Start(p) PROVE StrandInv'
  <2> SUFFICES ASSUME markers' # {} PROVE \E r \in Proc : (Exempt(r) \/ Bound(r))'
    BY DEF StrandInv
  <2>1. markers # {}
    BY <1>1 DEF Start
  <2>2. PICK r \in Proc : Exempt(r) \/ Bound(r)
    BY <2>1
  <2>3. CASE Exempt(r)
    BY <1>1, <2>3 DEF Start, control
  <2>4. CASE Bound(r)
    BY <1>1, <2>4 DEF Start, Exact
  <2> QED
    BY <2>2, <2>3, <2>4
<1>2. ASSUME NEW p \in Proc, WaitUntilClosed(p) PROVE StrandInv'
  <2> SUFFICES ASSUME markers' # {} PROVE \E r \in Proc : (Exempt(r) \/ Bound(r))'
    BY DEF StrandInv
  <2>1. markers # {}
    BY <1>2 DEF WaitUntilClosed
  <2>2. PICK r \in Proc : Exempt(r) \/ Bound(r)
    BY <2>1
  <2>3. CASE Exempt(r)
    BY <1>2, <2>3 DEF WaitUntilClosed, control
  <2>4. CASE Bound(r)
    BY <1>2, <2>4 DEF WaitUntilClosed
  <2> QED
    BY <2>2, <2>3, <2>4
<1>3. ASSUME NEW p \in Proc, ProbeLock(p) PROVE StrandInv'
  BY <1>3 DEF ProbeLock
<1>4. ASSUME NEW p \in Proc, DropProbe(p) PROVE StrandInv'
  BY <1>4 DEF DropProbe
<1>5. ASSUME NEW p \in Proc, AcquireExact(p) PROVE StrandInv'
  BY <1>5 DEF AcquireExact, EnterOwnPass
<1>6. ASSUME NEW p \in Proc, AcquireTimeout(p) PROVE StrandInv'
  BY <1>6 DEF AcquireTimeout
<1>7. ASSUME NEW p \in Proc, TryAcquire(p) PROVE StrandInv'
  BY <1>7 DEF TryAcquire, EnterOwnPass
<1>8. ASSUME NEW p \in Proc, OwnedRenameEvent(p) PROVE StrandInv'
  <2> SUFFICES ASSUME markers' # {} PROVE \E r \in Proc : (Exempt(r) \/ Bound(r))'
    BY DEF StrandInv
  <2>1. markers # {}
    BY <1>8 DEF OwnedRenameEvent
  <2>2. PICK r \in Proc : Exempt(r) \/ Bound(r)
    BY <2>1
  <2>3. CASE Exempt(r)
    BY <1>8, <2>3 DEF OwnedRenameEvent, control
  <2>4. CASE Bound(r)
    BY <1>8, <2>4 DEF OwnedRenameEvent
  <2> QED
    BY <2>2, <2>3, <2>4
<1>9. ASSUME NEW p \in Proc, RequestRerun(p) PROVE StrandInv'
  BY <1>9 DEF RequestRerun
<1>10. ASSUME NEW p \in Proc, RetryAcquire(p) PROVE StrandInv'
  BY <1>10 DEF RetryAcquire
<1>11. ASSUME NEW p \in Proc, ClaimRequest(p) PROVE StrandInv'
  BY <1>11 DEF ClaimRequest, Consume, EnterOwnPass
<1>12. ASSUME NEW p \in Proc, Pass(p) PROVE StrandInv'
  BY <1>12 DEF Pass
<1>13. ASSUME NEW p \in Proc, TakeRerun(p) PROVE StrandInv'
  BY <1>13 DEF TakeRerun, Consume
<1>14. ASSUME NEW p \in Proc, Release(p) PROVE StrandInv'
  <2>1. CASE stage[p] = "main"
    BY <1>14, <2>1 DEF Release
  <2>2. CASE stage[p] = "handoff"
    <3>1. stage'[p] = "handoff"
      BY <1>14, <2>2 DEF Release, control
    <3> QED
      BY <3>1
  <2> QED
    BY <2>1, <2>2
<1>15. ASSUME NEW p \in Proc, Recheck(p) PROVE StrandInv'
  BY <1>15 DEF Recheck
<1>16. ASSUME NEW p \in Proc, Reacquire(p) PROVE StrandInv'
  BY <1>16 DEF Reacquire
<1>17. ASSUME NEW p \in Proc, RetakeRerun(p) PROVE StrandInv'
  BY <1>17 DEF RetakeRerun, Consume
<1>18. ASSUME NEW p \in Proc, Abort(p) PROVE StrandInv'
  BY <1>18 DEF Abort
<1>19. ASSUME UNCHANGED vars PROVE StrandInv'
  BY <1>19 DEF vars
<1> QED
  BY <1>1, <1>2, <1>3, <1>4, <1>5, <1>6, <1>7, <1>8, <1>9, <1>10, <1>11,
     <1>12, <1>13, <1>14, <1>15, <1>16, <1>17, <1>18, <1>19
  DEF Next, Step, Finished

(* Whatever the number of processes and whatever fails: no marker outlives
   all the processes unless one spent its budget, ended in its handoff, or
   failed. *)
THEOREM NoMarkerIsStranded == Spec => []NoStrandedMarker
<1> DEFINE IInv == TypeInv /\ LockInv /\ StrandInv
<1>1. Init => IInv
  BY TypeInit, LockInit DEF Init, StrandInv
<1>2. IInv /\ [Next]_vars => IInv'
  BY TypeStep, LockStep, StrandStep
<1>3. IInv => NoStrandedMarker
  BY DEF StrandInv, NoStrandedMarker, AllDone, Bound, Holding
<1> QED
  BY <1>1, <1>2, <1>3, PTL DEF Spec

LEMMA RequestStep ==
  TypeInv /\ RequestConserved /\ [Next]_vars => RequestConserved'
<1> SUFFICES ASSUME TypeInv, RequestConserved, [Next]_vars PROVE RequestConserved'
  OBVIOUS
<1> USE RunnerAssumption
        DEF TypeInv, TypeOK, RequestConserved, InService, Goto, Exit, control, history
<1>1. ASSUME NEW p \in Proc, Start(p) PROVE RequestConserved'
  BY <1>1 DEF Start, Exact
<1>2. ASSUME NEW p \in Proc, WaitUntilClosed(p) PROVE RequestConserved'
  BY <1>2 DEF WaitUntilClosed
<1>3. ASSUME NEW p \in Proc, ProbeLock(p) PROVE RequestConserved'
  BY <1>3 DEF ProbeLock
<1>4. ASSUME NEW p \in Proc, DropProbe(p) PROVE RequestConserved'
  BY <1>4 DEF DropProbe
<1>5. ASSUME NEW p \in Proc, AcquireExact(p) PROVE RequestConserved'
  BY <1>5 DEF AcquireExact, EnterOwnPass
<1>6. ASSUME NEW p \in Proc, AcquireTimeout(p) PROVE RequestConserved'
  BY <1>6 DEF AcquireTimeout
<1>7. ASSUME NEW p \in Proc, TryAcquire(p) PROVE RequestConserved'
  BY <1>7 DEF TryAcquire, EnterOwnPass
<1>8. ASSUME NEW p \in Proc, OwnedRenameEvent(p) PROVE RequestConserved'
  BY <1>8 DEF OwnedRenameEvent
<1>9. ASSUME NEW p \in Proc, RequestRerun(p) PROVE RequestConserved'
  BY <1>9 DEF RequestRerun
<1>10. ASSUME NEW p \in Proc, RetryAcquire(p) PROVE RequestConserved'
  BY <1>10 DEF RetryAcquire
<1>11. ASSUME NEW p \in Proc, ClaimRequest(p) PROVE RequestConserved'
  <2>1. ASSUME NEW q \in markers, Consume(p, q) PROVE RequestConserved'
    <3>1. q \in InService'
      BY <2>1 DEF InService, Consume
    <3>2. InService \subseteq InService'
      BY <1>11, <2>1 DEF InService, Consume, ClaimRequest
    <3> QED
      BY <1>11, <2>1, <3>1, <3>2 DEF ClaimRequest, Consume
  <2>2. CASE markers = {}
    <3>1. InService \subseteq InService'
      BY <1>11, <2>2 DEF InService, ClaimRequest, EnterOwnPass
    <3> QED
      BY <1>11, <2>2, <3>1 DEF ClaimRequest
  <2> QED
    BY <1>11, <2>1, <2>2 DEF ClaimRequest
<1>12. ASSUME NEW p \in Proc, Pass(p) PROVE RequestConserved'
  BY <1>12 DEF Pass
<1>13. ASSUME NEW p \in Proc, TakeRerun(p) PROVE RequestConserved'
  <2>1. ASSUME NEW q \in markers, Consume(p, q) PROVE RequestConserved'
    <3>1. q \in InService'
      BY <2>1 DEF InService, Consume
    <3>2. InService \subseteq InService'
      BY <1>13, <2>1 DEF InService, Consume, TakeRerun
    <3> QED
      BY <1>13, <2>1, <3>1, <3>2 DEF TakeRerun, Consume
  <2>2. CASE markers = {}
    <3>1. InService \subseteq InService'
      BY <1>13, <2>2 DEF InService, TakeRerun
    <3> QED
      BY <1>13, <2>2, <3>1 DEF TakeRerun
  <2> QED
    BY <1>13, <2>1, <2>2 DEF TakeRerun
<1>14. ASSUME NEW p \in Proc, Release(p) PROVE RequestConserved'
  BY <1>14 DEF Release
<1>15. ASSUME NEW p \in Proc, Recheck(p) PROVE RequestConserved'
  BY <1>15 DEF Recheck
<1>16. ASSUME NEW p \in Proc, Reacquire(p) PROVE RequestConserved'
  BY <1>16 DEF Reacquire
<1>17. ASSUME NEW p \in Proc, RetakeRerun(p) PROVE RequestConserved'
  <2>1. ASSUME NEW q \in markers, Consume(p, q) PROVE RequestConserved'
    <3>1. q \in InService'
      BY <2>1 DEF InService, Consume
    <3>2. InService \subseteq InService'
      BY <1>17, <2>1 DEF InService, Consume, RetakeRerun
    <3> QED
      BY <1>17, <2>1, <3>1, <3>2 DEF RetakeRerun, Consume
  <2>2. CASE markers = {}
    <3>1. InService \subseteq InService'
      BY <1>17, <2>2 DEF InService, RetakeRerun
    <3> QED
      BY <1>17, <2>2, <3>1 DEF RetakeRerun
  <2> QED
    BY <1>17, <2>1, <2>2 DEF RetakeRerun
<1>18. ASSUME NEW p \in Proc, Abort(p) PROVE RequestConserved'
  BY <1>18 DEF Abort
<1>19. ASSUME UNCHANGED vars PROVE RequestConserved'
  BY <1>19 DEF vars
<1> QED
  BY <1>1, <1>2, <1>3, <1>4, <1>5, <1>6, <1>7, <1>8, <1>9, <1>10, <1>11,
     <1>12, <1>13, <1>14, <1>15, <1>16, <1>17, <1>18, <1>19
  DEF Next, Step, Finished

(* No request disappears, for any number of processes, passes and failures:
   it waits, is being served, was served, or went down with its pass. *)
THEOREM RequestsConserved == Spec => []RequestConserved
<1> DEFINE IInv == TypeInv /\ RequestConserved
<1>1. Init => IInv
  BY TypeInit DEF Init, RequestConserved
<1>2. IInv /\ [Next]_vars => IInv'
  BY TypeStep, RequestStep
<1> QED
  BY <1>1, <1>2, PTL DEF Spec

(* Only structural events get as far as queueing, and running[p] stays what p
   was started with until p consumes a marker.                              *)
ScopeInv ==
  /\ \A q \in markers : kind[q] \notin Exact
  /\ \A p \in Proc :
       /\ pc[p] \in {"settling", "try", "owned", "publish", "retry", "claim"} =>
             kind[p] \notin Exact
       /\ pc[p] \in {"idle", "settling", "probe", "probing", "wait", "try", "owned",
                    "publish", "retry", "claim"} => running[p] = kind[p]

LEMMA ScopeStep ==
  TypeInv /\ ScopeInv /\ DeferredPass /\ [Next]_vars => (ScopeInv /\ DeferredPass)'
<1> DEFINE Inv == ScopeInv /\ DeferredPass
<1> SUFFICES ASSUME TypeInv, Inv, [Next]_vars PROVE Inv'
  OBVIOUS
<1> USE RunnerAssumption
        DEF TypeInv, TypeOK, PassInv, ScopeInv, DeferredPass, Goto, Exit, control, history
<1>1. ASSUME NEW p \in Proc, Start(p) PROVE Inv'
  BY <1>1 DEF Start, Exact
<1>2. ASSUME NEW p \in Proc, WaitUntilClosed(p) PROVE Inv'
  BY <1>2 DEF WaitUntilClosed
<1>3. ASSUME NEW p \in Proc, ProbeLock(p) PROVE Inv'
  BY <1>3 DEF ProbeLock
<1>4. ASSUME NEW p \in Proc, DropProbe(p) PROVE Inv'
  BY <1>4 DEF DropProbe
<1>5. ASSUME NEW p \in Proc, AcquireExact(p) PROVE Inv'
  BY <1>5 DEF AcquireExact, EnterOwnPass
<1>6. ASSUME NEW p \in Proc, AcquireTimeout(p) PROVE Inv'
  BY <1>6 DEF AcquireTimeout
<1>7. ASSUME NEW p \in Proc, TryAcquire(p) PROVE Inv'
  BY <1>7 DEF TryAcquire, EnterOwnPass
<1>8. ASSUME NEW p \in Proc, OwnedRenameEvent(p) PROVE Inv'
  BY <1>8 DEF OwnedRenameEvent
<1>9. ASSUME NEW p \in Proc, RequestRerun(p) PROVE Inv'
  BY <1>9 DEF RequestRerun
<1>10. ASSUME NEW p \in Proc, RetryAcquire(p) PROVE Inv'
  BY <1>10 DEF RetryAcquire
<1>11. ASSUME NEW p \in Proc, ClaimRequest(p) PROVE Inv'
  <2>1. ASSUME NEW q \in markers, Consume(p, q) PROVE Inv'
    <3>1. /\ pc' = [pc EXCEPT ![p] = "pass"]
          /\ serving' = [serving EXCEPT ![p] = q]
          /\ running' = [running EXCEPT ![p] = Requested(kind[q])]
          /\ markers' = markers \ {q}
          /\ kind' = kind
          /\ q \in Proc
      BY <1>11, <2>1 DEF ClaimRequest, Consume
    <3> QED
      BY <3>1
  <2>2. CASE markers = {}
    BY <1>11, <2>2 DEF ClaimRequest, EnterOwnPass
  <2> QED
    BY <1>11, <2>1, <2>2 DEF ClaimRequest
<1>12. ASSUME NEW p \in Proc, Pass(p) PROVE Inv'
  BY <1>12 DEF Pass
<1>13. ASSUME NEW p \in Proc, TakeRerun(p) PROVE Inv'
  <2>1. ASSUME NEW q \in markers, Consume(p, q) PROVE Inv'
    <3>1. /\ pc' = [pc EXCEPT ![p] = "pass"]
          /\ serving' = [serving EXCEPT ![p] = q]
          /\ running' = [running EXCEPT ![p] = Requested(kind[q])]
          /\ markers' = markers \ {q}
          /\ kind' = kind
          /\ q \in Proc
      BY <1>13, <2>1 DEF TakeRerun, Consume
    <3> QED
      BY <3>1
  <2>2. CASE markers = {}
    BY <1>13, <2>2 DEF TakeRerun
  <2> QED
    BY <1>13, <2>1, <2>2 DEF TakeRerun
<1>14. ASSUME NEW p \in Proc, Release(p) PROVE Inv'
  BY <1>14 DEF Release
<1>15. ASSUME NEW p \in Proc, Recheck(p) PROVE Inv'
  BY <1>15 DEF Recheck
<1>16. ASSUME NEW p \in Proc, Reacquire(p) PROVE Inv'
  BY <1>16 DEF Reacquire
<1>17. ASSUME NEW p \in Proc, RetakeRerun(p) PROVE Inv'
  <2>1. ASSUME NEW q \in markers, Consume(p, q) PROVE Inv'
    <3>1. /\ pc' = [pc EXCEPT ![p] = "pass"]
          /\ serving' = [serving EXCEPT ![p] = q]
          /\ running' = [running EXCEPT ![p] = Requested(kind[q])]
          /\ markers' = markers \ {q}
          /\ kind' = kind
          /\ q \in Proc
      BY <1>17, <2>1 DEF RetakeRerun, Consume
    <3> QED
      BY <3>1
  <2>2. CASE markers = {}
    BY <1>17, <2>2 DEF RetakeRerun
  <2> QED
    BY <1>17, <2>1, <2>2 DEF RetakeRerun
<1>18. ASSUME NEW p \in Proc, Abort(p) PROVE Inv'
  BY <1>18 DEF Abort
<1>19. ASSUME UNCHANGED vars PROVE Inv'
  BY <1>19 DEF vars
<1> QED
  BY <1>1, <1>2, <1>3, <1>4, <1>5, <1>6, <1>7, <1>8, <1>9, <1>10, <1>11,
     <1>12, <1>13, <1>14, <1>15, <1>16, <1>17, <1>18, <1>19
  DEF Next, Step, Finished

(* A pass on behalf of another process is never an exact operation, and is
   about what that process asked for. *)
THEOREM DeferredPassesInScope == Spec => []DeferredPass
<1> DEFINE IInv == TypeInv /\ ScopeInv /\ DeferredPass
<1>1. Init => IInv
  BY TypeInit DEF Init, ScopeInv, DeferredPass, Free
<1>2. IInv /\ [Next]_vars => IInv'
  BY TypeStep, ScopeStep
<1> QED
  BY <1>1, <1>2, PTL DEF Spec

-----------------------------------------------------------------------------
(* Work *)

Yields(p) == pc[p] \in {"done", "owned", "publish", "retry"}
Past(p)   == pc[p] \in {"take", "release", "recheck", "reacquire", "retake"}
Works(p)  == \/ outcome[p] \in {"unsettled", "failed"}
             \/ pc[p] \in {"probing", "wait", "claim", "pass"}

(* While nothing has been reconciled, whoever gave way did so to a process
   that is now on its way to a pass.                                        *)
WorkInv ==
  served = {} =>
    /\ \A p \in Proc : ~Past(p)
    /\ (\E p \in Proc : Yields(p)) => \E q \in Proc : Works(q)

LEMMA WorkStep ==
  TypeInv /\ LockInv /\ WorkInv /\ [Next]_vars => WorkInv'
<1> SUFFICES ASSUME TypeInv, LockInv, WorkInv, [Next]_vars PROVE WorkInv'
  OBVIOUS
<1> USE RunnerAssumption
        DEF TypeInv, TypeOK, PassInv, LockInv, WorkInv, Past, Yields, Works, Holding, Goto, Exit,
            control, history
<1>1. ASSUME NEW p \in Proc, Start(p) PROVE WorkInv'
  BY <1>1 DEF Start, Exact
<1>2. ASSUME NEW p \in Proc, WaitUntilClosed(p) PROVE WorkInv'
  BY <1>2 DEF WaitUntilClosed
<1>3. ASSUME NEW p \in Proc, ProbeLock(p) PROVE WorkInv'
  BY <1>3 DEF ProbeLock
<1>4. ASSUME NEW p \in Proc, DropProbe(p) PROVE WorkInv'
  BY <1>4 DEF DropProbe
<1>5. ASSUME NEW p \in Proc, AcquireExact(p) PROVE WorkInv'
  BY <1>5 DEF AcquireExact, EnterOwnPass
<1>6. ASSUME NEW p \in Proc, AcquireTimeout(p) PROVE WorkInv'
  BY <1>6 DEF AcquireTimeout
<1>7. ASSUME NEW p \in Proc, TryAcquire(p) PROVE WorkInv'
  BY <1>7 DEF TryAcquire, EnterOwnPass
<1>8. ASSUME NEW p \in Proc, OwnedRenameEvent(p) PROVE WorkInv'
  BY <1>8 DEF OwnedRenameEvent
<1>9. ASSUME NEW p \in Proc, RequestRerun(p) PROVE WorkInv'
  BY <1>9 DEF RequestRerun
<1>10. ASSUME NEW p \in Proc, RetryAcquire(p) PROVE WorkInv'
  BY <1>10 DEF RetryAcquire
<1>11. ASSUME NEW p \in Proc, ClaimRequest(p) PROVE WorkInv'
  BY <1>11 DEF ClaimRequest, Consume, EnterOwnPass
<1>12. ASSUME NEW p \in Proc, Pass(p) PROVE WorkInv'
  BY <1>12 DEF Pass
<1>13. ASSUME NEW p \in Proc, TakeRerun(p) PROVE WorkInv'
  BY <1>13 DEF TakeRerun, Consume
<1>14. ASSUME NEW p \in Proc, Release(p) PROVE WorkInv'
  BY <1>14 DEF Release
<1>15. ASSUME NEW p \in Proc, Recheck(p) PROVE WorkInv'
  BY <1>15 DEF Recheck
<1>16. ASSUME NEW p \in Proc, Reacquire(p) PROVE WorkInv'
  BY <1>16 DEF Reacquire
<1>17. ASSUME NEW p \in Proc, RetakeRerun(p) PROVE WorkInv'
  BY <1>17 DEF RetakeRerun, Consume
<1>18. ASSUME NEW p \in Proc, Abort(p) PROVE WorkInv'
  BY <1>18 DEF Abort
<1>19. ASSUME UNCHANGED vars PROVE WorkInv'
  BY <1>19 DEF vars
<1> QED
  BY <1>1, <1>2, <1>3, <1>4, <1>5, <1>6, <1>7, <1>8, <1>9, <1>10, <1>11,
     <1>12, <1>13, <1>14, <1>15, <1>16, <1>17, <1>18, <1>19
  DEF Next, Step, Finished

(* The processes cannot all give way to one another: if none fails, at least
   one pass has been completed when all have ended. *)
THEOREM SomebodyDoesReconcile == Spec => []SomebodyReconciles
<1> DEFINE IInv == TypeInv /\ LockInv /\ WorkInv
<1>1. Init => IInv
  BY TypeInit, LockInit DEF Init, WorkInv, Past, Yields
<1>2. IInv /\ [Next]_vars => IInv'
  BY TypeStep, LockStep, WorkStep
<1>3. IInv => SomebodyReconciles
  BY DEF WorkInv, SomebodyReconciles, AllDone, Past, Yields, Works
<1> QED
  BY <1>1, <1>2, <1>3, PTL DEF Spec
-----------------------------------------------------------------------------
(* Refinement *)

LEMMA RefineInit == Init => Passes!Init
  BY DEF Init, Passes!Init, Current, Passes!None, Free

(* A step that neither ends a pass nor begins one, nor touches the requests. *)
LEMMA Stutter ==
  ASSUME TypeInv, LockInv, LockInv', NEW p \in Proc,
         UNCHANGED <<markers, served, lost, serving>>,
         pc' = [pc EXCEPT ![p] = pc'[p]], pc[p] # "pass", pc'[p] # "pass",
         lock' \in {lock, p, Free}, lock \in {lock', p, Free}
  PROVE  UNCHANGED Passes!vars
<1>1. \A q \in Proc : pc[q] = "pass" <=> pc'[q] = "pass"
  BY DEF TypeInv, TypeOK
<1>2. \A q \in Proc : pc[q] = "pass" => lock = q /\ lock' = q
  BY <1>1 DEF LockInv, Holding
<1>3. Current' = Current
  BY <1>1, <1>2, RunnerAssumption DEF Current, TypeInv, TypeOK
<1> QED
  BY <1>3 DEF Passes!vars

(* The holder begins a pass about q: the request was waiting, or is its own. *)
LEMMA BeginPass ==
  ASSUME TypeInv, LockInv, NEW p \in Proc, NEW q \in Proc,
         lock \in {Free, p}, lock' = p, pc[p] # "pass",
         pc' = [pc EXCEPT ![p] = "pass"], serving' = [serving EXCEPT ![p] = q],
         UNCHANGED <<served, lost>>,
         \/ markers' = markers
         \/ FirstMarker(q) /\ markers' = markers \ {q}
  PROVE  Passes!Next
<1>1. Current = Free
  BY RunnerAssumption DEF Current, Free
<1>2. Current' = q
  BY DEF Current, TypeInv, TypeOK
<1>3. CASE markers' = markers
  BY <1>1, <1>2, <1>3 DEF Passes!Next, Passes!BeginAtOnce, Passes!None, Free
<1>4. CASE FirstMarker(q) /\ markers' = markers \ {q}
  <2>1. Passes!BeginWaiting(q)
    BY <1>1, <1>2, <1>4 DEF Passes!BeginWaiting, Passes!None, Free, FirstMarker
  <2> QED
    BY <2>1 DEF Passes!Next
<1> QED
  BY <1>3, <1>4

LEMMA RefineStep ==
  TypeInv /\ LockInv /\ [Next]_vars => [Passes!Next]_(Passes!vars)
<1> DEFINE Goal == [Passes!Next]_(Passes!vars)
<1> SUFFICES ASSUME TypeInv, LockInv, [Next]_vars PROVE Goal
  OBVIOUS
<1>0. LockInv'
  BY LockStep
<1> USE RunnerAssumption DEF TypeInv, TypeOK, LockInv, Holding, Goto, Exit, control, history
<1>1. ASSUME NEW p \in Proc, Start(p) PROVE Goal
  BY <1>0, <1>1, Stutter DEF Start, Exact
<1>2. ASSUME NEW p \in Proc, WaitUntilClosed(p) PROVE Goal
  BY <1>0, <1>2, Stutter DEF WaitUntilClosed
<1>3. ASSUME NEW p \in Proc, ProbeLock(p) PROVE Goal
  BY <1>0, <1>3, Stutter DEF ProbeLock
<1>4. ASSUME NEW p \in Proc, DropProbe(p) PROVE Goal
  BY <1>0, <1>4, Stutter DEF DropProbe
<1>5. ASSUME NEW p \in Proc, AcquireTimeout(p) PROVE Goal
  BY <1>0, <1>5, Stutter DEF AcquireTimeout
<1>6. ASSUME NEW p \in Proc, OwnedRenameEvent(p) PROVE Goal
  BY <1>0, <1>6, Stutter DEF OwnedRenameEvent
<1>7. ASSUME NEW p \in Proc, RetryAcquire(p) PROVE Goal
  BY <1>0, <1>7, Stutter DEF RetryAcquire
<1>8. ASSUME NEW p \in Proc, Release(p) PROVE Goal
  BY <1>0, <1>8, Stutter DEF Release
<1>9. ASSUME NEW p \in Proc, Recheck(p) PROVE Goal
  BY <1>0, <1>9, Stutter DEF Recheck
<1>10. ASSUME NEW p \in Proc, Reacquire(p) PROVE Goal
  BY <1>0, <1>10, Stutter DEF Reacquire
<1>11. ASSUME NEW p \in Proc, AcquireExact(p) PROVE Goal
  BY <1>11, BeginPass DEF AcquireExact, EnterOwnPass
<1>12. ASSUME NEW p \in Proc, TryAcquire(p) PROVE Goal
  <2>1. CASE lock = Free
    BY <1>12, <2>1, BeginPass DEF TryAcquire, EnterOwnPass
  <2>2. CASE lock # Free
    BY <1>0, <1>12, <2>2, Stutter DEF TryAcquire
  <2> QED
    BY <2>1, <2>2
<1>13. ASSUME NEW p \in Proc, RequestRerun(p) PROVE Goal
  <2>1. Current' = Current
    BY <1>0, <1>13 DEF RequestRerun, Current
  <2> QED
    BY <1>13, <2>1 DEF RequestRerun, Passes!Next, Passes!Wait
<1>14. ASSUME NEW p \in Proc, ClaimRequest(p) PROVE Goal
  <2>1. ASSUME NEW q \in markers, Consume(p, q) PROVE Goal
    BY <1>14, <2>1, BeginPass DEF ClaimRequest, Consume
  <2>2. CASE markers = {}
    BY <1>0, <1>14, <2>2, BeginPass DEF ClaimRequest, EnterOwnPass
  <2> QED
    BY <1>14, <2>1, <2>2 DEF ClaimRequest
<1>15. ASSUME NEW p \in Proc, TakeRerun(p) PROVE Goal
  <2>1. ASSUME NEW q \in markers, Consume(p, q) PROVE Goal
    BY <1>15, <2>1, BeginPass DEF TakeRerun, Consume
  <2>2. CASE markers = {}
    BY <1>0, <1>15, <2>2, Stutter DEF TakeRerun
  <2> QED
    BY <1>15, <2>1, <2>2 DEF TakeRerun
<1>16. ASSUME NEW p \in Proc, RetakeRerun(p) PROVE Goal
  <2>1. ASSUME NEW q \in markers, Consume(p, q) PROVE Goal
    BY <1>16, <2>1, BeginPass DEF RetakeRerun, Consume
  <2>2. CASE markers = {}
    BY <1>0, <1>16, <2>2, Stutter DEF RetakeRerun
  <2> QED
    BY <1>16, <2>1, <2>2 DEF RetakeRerun
<1>17. ASSUME NEW p \in Proc, Pass(p) PROVE Goal
  <2>1. Current = serving[p] /\ serving[p] \in Proc
    BY <1>17 DEF Pass, Current, PassInv
  <2>2. Current' = Free
    BY <1>17 DEF Pass, Current
  <2> QED
    BY <1>17, <2>1, <2>2 DEF Pass, Passes!Next, Passes!Complete, Passes!None, Free
<1>18. ASSUME NEW p \in Proc, Abort(p) PROVE Goal
  <2>1. CASE pc[p] = "pass"
    <3>1. Current = serving[p] /\ serving[p] \in Proc
      BY <1>18, <2>1 DEF Abort, Current, PassInv
    <3>2. Current' = Free
      BY <1>18, <2>1 DEF Abort, Current, Free
    <3> QED
      BY <1>18, <2>1, <3>1, <3>2 DEF Abort, Passes!Next, Passes!CutShort, Passes!None, Free
  <2>2. CASE pc[p] # "pass"
    BY <1>0, <1>18, <2>2, Stutter DEF Abort
  <2> QED
    BY <2>1, <2>2
<1>19. ASSUME UNCHANGED vars PROVE Goal
  BY <1>19 DEF vars, Current, Passes!vars
<1> QED
  BY <1>1, <1>2, <1>3, <1>4, <1>5, <1>6, <1>7, <1>8, <1>9, <1>10, <1>11, <1>12, <1>13, <1>14, <1>15, <1>16, <1>17, <1>18, <1>19
  DEF Next, Step, Finished

(* Lock, markers, probes and handoffs together implement serial passes, for
   any number of processes, any budget, and failures at every step. *)
THEOREM RunnerImplementsSerialPasses == Spec => ImplementsSerialPasses
<1> DEFINE IInv == TypeInv /\ LockInv
<1>1. Init => IInv
  BY TypeInit, LockInit
<1>2. IInv /\ [Next]_vars => IInv'
  BY TypeStep, LockStep
<1>3. Init => Passes!Init
  BY RefineInit
<1>4. IInv /\ [Next]_vars => [Passes!Next]_(Passes!vars)
  BY RefineStep
<1> QED
  BY <1>1, <1>2, <1>3, <1>4, PTL DEF Spec, ImplementsSerialPasses, Passes!Spec
=============================================================================
