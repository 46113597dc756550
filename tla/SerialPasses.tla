---------------------------- MODULE SerialPasses ----------------------------
(***************************************************************************)
(* What the lock and the markers promise together, without saying how: at  *)
(* any time at most one pass runs in a session.  A request is the subject   *)
(* of a pass at once, or waits to become the subject of a later one, in the *)
(* order of the requests' names; a pass that has begun completes or is cut  *)
(* short, and only then may another begin.                                  *)
(***************************************************************************)
EXTENDS Naturals

CONSTANT Request   \* the requests, numbered by the rank of their names

None == 0          \* no pass is running

VARIABLES
  waiting,   \* the requests that wait for a pass
  current,   \* the request the running pass is about, or None
  served,    \* the requests a pass has completed for
  lost       \* the requests whose pass was cut short

vars == <<waiting, current, served, lost>>

Init ==
  /\ waiting = {}
  /\ current = None
  /\ served = {}
  /\ lost = {}

Wait(r) ==
  /\ waiting' = waiting \cup {r}
  /\ UNCHANGED <<current, served, lost>>

\* A request that does not have to wait, or whose turn another one took.
BeginAtOnce(r) ==
  /\ current = None
  /\ current' = r
  /\ UNCHANGED <<waiting, served, lost>>

\* The first of the waiting requests gets its turn.
BeginWaiting(r) ==
  /\ current = None
  /\ r \in waiting
  /\ \A q \in waiting : r <= q
  /\ waiting' = waiting \ {r}
  /\ current' = r
  /\ UNCHANGED <<served, lost>>

Complete ==
  /\ current # None
  /\ served' = served \cup {current}
  /\ current' = None
  /\ UNCHANGED <<waiting, lost>>

CutShort ==
  /\ current # None
  /\ lost' = lost \cup {current}
  /\ current' = None
  /\ UNCHANGED <<waiting, served>>

Next ==
  \/ \E r \in Request : Wait(r) \/ BeginAtOnce(r) \/ BeginWaiting(r)
  \/ Complete
  \/ CutShort

Spec == Init /\ [][Next]_vars
=============================================================================
