------------------------------- MODULE Runner -------------------------------
(***************************************************************************)
(* The scheduling of one invocation of the binary: src/src/runner.rs on     *)
(* top of src/src/lock.rs.                                                  *)
(*                                                                         *)
(* Each process of Proc is one run of herdr-labels in the same Herdr        *)
(* session.  Processes share the flock on reconcile.lock and the marker     *)
(* files of the directory reruns/; what a reconciliation pass does is the   *)
(* subject of Reconciler, here it is one step of the lock holder.           *)
(***************************************************************************)
EXTENDS Naturals

CONSTANTS
  Proc,       \* processes; the number of a process is the rank of the name of
              \* its marker file "{pid}-{id}.json" among all the names
  MaxPasses,  \* MAX_RECONCILIATION_PASSES
  MayFail     \* whether a step may fail or a process be killed

ASSUME RunnerAssumption ==
  /\ Proc \subseteq Nat \ {0}
  /\ MaxPasses \in Nat \ {0}
  /\ MayFail \in BOOLEAN

Free == 0        \* value of lock and of serving when there is no process

(***************************************************************************)
(* The invocations, as far as the runner tells them apart.  "shell" stands  *)
(* for Init, Tab and Precmd, "action" for Clear, Reset and Toggle, "full"   *)
(* for Full, Workspace and a ClosedTab without tab id.                      *)
(***************************************************************************)
Exact == {"shell", "preexec", "action"}         \* exact_lock_timeout is Some
Kind  == Exact \cup {"full", "closed_tab", "closed_pane", "renamed"}

\* timeout_is_benign
TimeoutIsBenign(k) == k \in {"shell", "preexec"}

\* What request_rerun writes in the marker of an invocation.
Requested(k) == IF k \in {"closed_pane", "renamed"} THEN k ELSE "full"

VARIABLES
  kind,     \* kind[p]: the invocation p was started with
  pc,       \* pc[p]: where p is in run_inner
  lock,     \* the holder of reconcile.lock, or Free
  markers,  \* the processes whose marker file is in reruns/
  budget,   \* budget[p]: remaining_passes
  stage,    \* stage[p]: "main" until p re-acquires in handoff_after_release
  serving,  \* serving[p]: whose request the pass of p is about
  running,  \* running[p]: the invocation given to run_pass
  outcome,  \* outcome[p]: how p ended
  asked,    \* history: the processes that have published a marker
  served,   \* history: the requests a pass has completed for
  lost      \* history: the requests whose pass was cut short

vars == <<kind, pc, lock, markers, budget, stage, serving, running, outcome,
          asked, served, lost>>

control == <<kind, stage, running>>
history == <<asked, served, lost>>

Holding == {"probing", "claim", "pass", "take", "release", "retake"}
Active  == Holding \cup {"settling", "probe", "wait", "try", "owned", "publish",
                         "retry", "recheck", "reacquire"}
Outcome == {"pending", "ok", "dropped", "noop", "queued", "timeout", "unsettled",
            "failed"}

TypeOK ==
  /\ kind \in [Proc -> Kind]
  /\ pc \in [Proc -> Active \cup {"idle", "done"}]
  /\ lock \in Proc \cup {Free}
  /\ markers \subseteq Proc
  /\ budget \in [Proc -> 0 .. MaxPasses]
  /\ stage \in [Proc -> {"main", "handoff"}]
  /\ serving \in [Proc -> Proc \cup {Free}]
  /\ running \in [Proc -> Kind]
  /\ outcome \in [Proc -> Outcome]
  /\ asked \subseteq Proc
  /\ served \subseteq Proc
  /\ lost \subseteq Proc

\* A running pass has a subject, a spent budget only lets the lock go, and only
\* a process that has ended has an outcome.
PassInv ==
  \A p \in Proc :
    /\ pc[p] = "pass" => serving[p] \in Proc
    /\ budget[p] = 0 => pc[p] \in {"release", "recheck", "done"}
    /\ outcome[p] # "pending" => pc[p] = "done"

Init ==
  /\ kind \in [Proc -> Kind]
  /\ pc = [p \in Proc |-> "idle"]
  /\ lock = Free
  /\ markers = {}
  /\ budget = [p \in Proc |-> MaxPasses]
  /\ stage = [p \in Proc |-> "main"]
  /\ serving = [p \in Proc |-> Free]
  /\ running = kind
  /\ outcome = [p \in Proc |-> "pending"]
  /\ asked = {}
  /\ served = {}
  /\ lost = {}

-----------------------------------------------------------------------------
(* Building blocks *)

Goto(p, l) == pc' = [pc EXCEPT ![p] = l]

Exit(p, how) ==
  /\ Goto(p, "done")
  /\ outcome' = [outcome EXCEPT ![p] = how]

\* The marker take_rerun picks: the first of the sorted file names.
FirstMarker(q) == q \in markers /\ \A r \in markers : q <= r

\* Mutant of Consume: the whole directory is emptied.
ConsumeAll(p, q) ==
  /\ FirstMarker(q)
  /\ markers' = {}
  /\ serving' = [serving EXCEPT ![p] = q]
  /\ running' = [running EXCEPT ![p] = Requested(kind[q])]
  /\ Goto(p, "pass")

\* Mutant of Consume: the pass is run with the invocation of the last one.
ConsumeUnread(p, q) ==
  /\ FirstMarker(q)
  /\ markers' = markers \ {q}
  /\ serving' = [serving EXCEPT ![p] = q]
  /\ UNCHANGED running
  /\ Goto(p, "pass")

\* take_rerun returned a request: its file is gone and its pass comes next.
Consume(p, q) ==
  /\ FirstMarker(q)
  /\ markers' = markers \ {q}
  /\ serving' = [serving EXCEPT ![p] = q]
  /\ running' = [running EXCEPT ![p] = Requested(kind[q])]
  /\ Goto(p, "pass")

\* The lock is p's and the first pass is for its own invocation.
EnterOwnPass(p) ==
  /\ Goto(p, "pass")
  /\ serving' = [serving EXCEPT ![p] = p]

-----------------------------------------------------------------------------
(* The steps of run_inner *)

Start(p) ==
  /\ pc[p] = "idle"
  /\ Goto(p, CASE kind[p] = "closed_tab" -> "settling"
               [] kind[p] = "preexec"    -> "probe"
               [] kind[p] \in Exact \ {"preexec"} -> "wait"
               [] OTHER -> "try")
  /\ UNCHANGED <<control, lock, markers, budget, serving, outcome, history>>

\* wait_until_closed: the tab disappears, or is still there at the deadline.
WaitUntilClosed(p) ==
  /\ pc[p] = "settling"
  /\ \/ Goto(p, "try") /\ UNCHANGED outcome
     \/ Exit(p, "unsettled")
  /\ UNCHANGED <<control, lock, markers, budget, serving, history>>

\* A preexec gives up at once when another process holds the lock.
ProbeLock(p) ==
  /\ pc[p] = "probe"
  /\ \/ /\ lock = Free
        /\ lock' = p
        /\ Goto(p, "probing")
        /\ UNCHANGED outcome
     \/ /\ lock # Free
        /\ Exit(p, "dropped")
        /\ UNCHANGED lock
  /\ UNCHANGED <<control, markers, budget, serving, history>>

\* The probe is dropped; the program then settles without the lock.
DropProbe(p) ==
  /\ pc[p] = "probing"
  /\ lock' = Free
  /\ Goto(p, "wait")
  /\ UNCHANGED <<control, markers, budget, serving, outcome, history>>

\* Mutant of AcquireExact: the lock is taken as a shared one.
AcquireShared(p) ==
  /\ pc[p] = "wait"
  /\ lock' = p
  /\ EnterOwnPass(p)
  /\ UNCHANGED <<control, markers, budget, outcome, history>>

\* acquire_with_timeout succeeds.
AcquireExact(p) ==
  /\ pc[p] = "wait"
  /\ lock = Free
  /\ lock' = p
  /\ EnterOwnPass(p)
  /\ UNCHANGED <<control, markers, budget, outcome, history>>

\* Mutant of AcquireTimeout: the deadline is tested before the lock.
TimeoutFirst(p) ==
  /\ pc[p] = "wait"
  /\ Exit(p, IF TimeoutIsBenign(kind[p]) THEN "dropped" ELSE "timeout")
  /\ UNCHANGED <<control, lock, markers, budget, serving, history>>

\* acquire_with_timeout finds the lock held by another at its deadline.
AcquireTimeout(p) ==
  /\ pc[p] = "wait"
  /\ lock # Free
  /\ Exit(p, IF TimeoutIsBenign(kind[p]) THEN "dropped" ELSE "timeout")
  /\ UNCHANGED <<control, lock, markers, budget, serving, history>>

\* try_acquire of a structural event.
TryAcquire(p) ==
  /\ pc[p] = "try"
  /\ \/ /\ lock = Free
        /\ lock' = p
        /\ EnterOwnPass(p)
     \/ /\ lock # Free
        /\ Goto(p, IF kind[p] = "renamed" THEN "owned" ELSE "publish")
        /\ UNCHANGED <<lock, serving>>
  /\ UNCHANGED <<control, markers, budget, outcome, history>>

\* is_owned_rename_event, decided by the ownership state and Herdr.
OwnedRenameEvent(p) ==
  /\ pc[p] = "owned"
  /\ \/ Exit(p, "noop")
     \/ Goto(p, "publish") /\ UNCHANGED outcome
  /\ UNCHANGED <<control, lock, markers, budget, serving, history>>

\* request_rerun: the hard link makes the complete marker visible at once.
RequestRerun(p) ==
  /\ pc[p] = "publish"
  /\ markers' = markers \cup {p}
  /\ asked' = asked \cup {p}
  /\ Goto(p, "retry")
  /\ UNCHANGED <<control, lock, budget, serving, outcome, served, lost>>

\* Mutant of RetryAcquire: no second try_acquire.
NoRetry(p) ==
  /\ pc[p] = "retry"
  /\ Exit(p, "queued")
  /\ UNCHANGED <<control, lock, markers, budget, serving, history>>

\* The second try_acquire, in case the holder left before the marker came.
RetryAcquire(p) ==
  /\ pc[p] = "retry"
  /\ \/ /\ lock = Free
        /\ lock' = p
        /\ Goto(p, "claim")
        /\ UNCHANGED outcome
     \/ /\ lock # Free
        /\ Exit(p, "queued")
        /\ UNCHANGED lock
  /\ UNCHANGED <<control, markers, budget, serving, history>>

\* take_rerun after that: any first marker, or p's own invocation if none.
ClaimRequest(p) ==
  /\ pc[p] = "claim"
  /\ \/ \E q \in markers : Consume(p, q)
     \/ /\ markers = {}
        /\ EnterOwnPass(p)
        /\ UNCHANGED <<markers, running>>
  /\ UNCHANGED <<kind, stage, lock, budget, outcome, history>>

\* Mutant of Pass: the loop does not look at remaining_passes.
PassPastBudget(p) ==
  /\ pc[p] = "pass"
  /\ budget' = [budget EXCEPT ![p] = @ - 1]
  /\ served' = served \cup {serving[p]}
  /\ Goto(p, "take")
  /\ UNCHANGED <<control, lock, markers, serving, outcome, asked, lost>>

\* Mutant of Pass: remaining_passes is not decremented.
PassUnmetered(p) ==
  /\ pc[p] = "pass"
  /\ served' = served \cup {serving[p]}
  /\ Goto(p, "take")
  /\ UNCHANGED <<control, lock, markers, budget, serving, outcome, asked, lost>>

\* One iteration of run_coalesced_passes up to the end of run_pass.
Pass(p) ==
  /\ pc[p] = "pass"
  /\ budget' = [budget EXCEPT ![p] = @ - 1]
  /\ served' = served \cup {serving[p]}
  /\ Goto(p, IF budget'[p] = 0 THEN "release" ELSE "take")
  /\ UNCHANGED <<control, lock, markers, serving, outcome, asked, lost>>

\* take_rerun between two passes.
TakeRerun(p) ==
  /\ pc[p] = "take"
  /\ \/ \E q \in markers : Consume(p, q)
     \/ /\ markers = {}
        /\ Goto(p, "release")
        /\ UNCHANGED <<markers, serving, running>>
  /\ UNCHANGED <<kind, stage, lock, budget, outcome, history>>

\* drop(lock), then handoff_after_release unless p is already in it.
Release(p) ==
  /\ pc[p] = "release"
  /\ lock' = Free
  /\ \/ stage[p] = "main" /\ Goto(p, "recheck") /\ UNCHANGED outcome
     \/ stage[p] = "handoff" /\ Exit(p, "ok")
  /\ UNCHANGED <<control, markers, budget, serving, history>>

\* rerun_requested, read without the lock.
Recheck(p) ==
  /\ pc[p] = "recheck"
  /\ \/ /\ budget[p] = 0 \/ markers = {}
        /\ Exit(p, "ok")
     \/ /\ budget[p] # 0 /\ markers # {}
        /\ Goto(p, "reacquire")
        /\ UNCHANGED outcome
  /\ UNCHANGED <<control, lock, markers, budget, serving, history>>

Reacquire(p) ==
  /\ pc[p] = "reacquire"
  /\ \/ /\ lock = Free
        /\ lock' = p
        /\ stage' = [stage EXCEPT ![p] = "handoff"]
        /\ Goto(p, "retake")
        /\ UNCHANGED outcome
     \/ /\ lock # Free
        /\ Exit(p, "ok")
        /\ UNCHANGED <<lock, stage>>
  /\ UNCHANGED <<kind, running, markers, budget, serving, history>>

\* take_rerun of the handoff: without a marker the process returns, and the
\* return drops the lock.
RetakeRerun(p) ==
  /\ pc[p] = "retake"
  /\ \/ \E q \in markers : Consume(p, q)
     \/ /\ markers = {}
        /\ Goto(p, "release")
        /\ UNCHANGED <<markers, serving, running>>
  /\ UNCHANGED <<kind, stage, lock, budget, outcome, history>>

\* Mutant of Abort: the lock is a file that has to be removed.
AbortKeepingLock(p) ==
  /\ MayFail
  /\ pc[p] \in Active
  /\ lost' = IF pc[p] = "pass" THEN lost \cup {serving[p]} ELSE lost
  /\ Exit(p, "failed")
  /\ UNCHANGED <<control, lock, markers, budget, serving, asked, served>>

(***************************************************************************)
(* A step fails and the error is propagated to main, or the process is      *)
(* killed.  Either way the kernel releases the flock with the file, the     *)
(* markers stay, and nothing hands them over.                               *)
(***************************************************************************)
Abort(p) ==
  /\ MayFail
  /\ pc[p] \in Active
  /\ lock' = IF lock = p THEN Free ELSE lock
  /\ lost' = IF pc[p] = "pass" THEN lost \cup {serving[p]} ELSE lost
  /\ Exit(p, "failed")
  /\ UNCHANGED <<control, markers, budget, serving, asked, served>>

Step(p) ==
  \/ WaitUntilClosed(p) \/ ProbeLock(p) \/ DropProbe(p)
  \/ AcquireExact(p) \/ AcquireTimeout(p)
  \/ TryAcquire(p) \/ OwnedRenameEvent(p) \/ RequestRerun(p)
  \/ RetryAcquire(p) \/ ClaimRequest(p)
  \/ Pass(p) \/ TakeRerun(p) \/ Release(p)
  \/ Recheck(p) \/ Reacquire(p) \/ RetakeRerun(p)

AllDone == \A p \in Proc : pc[p] = "done"

\* Every process has ended: the only state in which nothing is left to do.
Finished == AllDone /\ UNCHANGED vars

Next ==
  \/ \E p \in Proc : Start(p) \/ Step(p) \/ Abort(p)
  \/ Finished

Spec == Init /\ [][Next]_vars

(***************************************************************************)
(* A session that never ends: the slot of a process that has ended is given *)
(* to a new invocation once nothing of the old one is left.  Invocations    *)
(* come when they please (no fairness of Start and Recycle), and the        *)
(* operating system schedules every running process (fairness of Step).     *)
(***************************************************************************)
Recycle(p) ==
  /\ pc[p] = "done"
  /\ p \notin markers
  /\ \A q \in Proc : pc[q] = "pass" => serving[q] # p
  /\ \E k \in Kind : /\ kind' = [kind EXCEPT ![p] = k]
                     /\ running' = [running EXCEPT ![p] = k]
  /\ Goto(p, "idle")
  /\ budget' = [budget EXCEPT ![p] = MaxPasses]
  /\ stage' = [stage EXCEPT ![p] = "main"]
  /\ serving' = [serving EXCEPT ![p] = Free]
  /\ outcome' = [outcome EXCEPT ![p] = "pending"]
  /\ asked' = asked \ {p}
  /\ served' = served \ {p}
  /\ lost' = lost \ {p}
  /\ UNCHANGED <<lock, markers>>

ForeverNext == Next \/ \E p \in Proc : Recycle(p)

ForeverSpec ==
  Init /\ [][ForeverNext]_vars /\ \A p \in Proc : WF_vars(Step(p))

-----------------------------------------------------------------------------
(* Properties *)

\* What the running pass is about: the abstract variable current.
Current == IF lock \in Proc /\ pc[lock] = "pass" THEN serving[lock] ELSE Free

Passes == INSTANCE SerialPasses WITH
            Request <- Proc, waiting <- markers, current <- Current

(***************************************************************************)
(* All the steps of all the processes, the probes, retries, handoffs and    *)
(* failures included, amount to what SerialPasses says: one pass at a time, *)
(* about one request each, and a waiting request leaves the directory only  *)
(* to become the subject of the pass that begins with it.                   *)
(***************************************************************************)
ImplementsSerialPasses == Passes!Spec

(***************************************************************************)
(* Reconciliation is serialised: the lock file is held by a process exactly *)
(* while that process is between taking and dropping it, so two passes      *)
(* never read or write the ownership state at the same time.                *)
(***************************************************************************)
LockInv == \A p \in Proc : lock = p <=> pc[p] \in Holding

(***************************************************************************)
(* A published request is never dropped in silence: it waits in reruns/, is *)
(* the subject of the running pass, was served by a completed pass, or was  *)
(* cut short with the pass that had consumed it.  (take_rerun deletes the   *)
(* file before the pass, so the last case does exist.)                      *)
(***************************************************************************)
InService == {serving[p] : p \in {q \in Proc : pc[q] = "pass"}}

RequestConserved == asked \subseteq markers \cup served \cup lost \cup InService

(***************************************************************************)
(* A deferred pass reconciles what its marker says: ClosedPane and Renamed  *)
(* keep their identity, everything else was turned into Full, and an exact  *)
(* operation (a shell observation, an action) is never run on behalf of     *)
(* another process.                                                         *)
(***************************************************************************)
DeferredPass ==
  \A p \in Proc : pc[p] = "pass" =>
    /\ serving[p] = p => running[p] \in {kind[p], Requested(kind[p])}
    /\ serving[p] # p => /\ kind[serving[p]] \notin Exact
                         /\ running[p] = Requested(kind[serving[p]])

(***************************************************************************)
(* A request waits only while somebody is bound to look at it.  The second  *)
(* try_acquire after the publication and the recheck after the release      *)
(* close the window between the two, so when every process has ended, a     *)
(* marker remains only if a process spent its last pass, was in the final   *)
(* part of its handoff (which releases without looking again), or failed.   *)
(***************************************************************************)
Exempt(p) ==
  budget[p] = 0 \/ stage[p] = "handoff" \/ outcome[p] = "failed"

NoStrandedMarker ==
  AllDone /\ markers # {} => \E p \in Proc : Exempt(p)

(***************************************************************************)
(* Not everybody gives way to somebody else: a shell event that drops, a    *)
(* preexec whose probe is refused and a structural event that queues all    *)
(* rely on the holder of the lock.  If no process fails and every closed    *)
(* tab disappears in time, a pass has been completed when all have ended.   *)
(***************************************************************************)
SomebodyReconciles ==
  /\ AllDone
  /\ Proc # {}
  /\ \A p \in Proc : outcome[p] \notin {"unsettled", "failed"}
  => served # {}

(***************************************************************************)
(* However many events keep queueing work, no process serves them for ever: *)
(* every invocation that has started ends ("rather than extending this      *)
(* process through another unbounded batch").                               *)
(***************************************************************************)
EveryInvocationEnds == \A p \in Proc : pc[p] \in Active ~> pc[p] = "done"

(***************************************************************************)
(* What lock.rs says of request_rerun, "Records the requesting event for    *)
(* the current lock holder's next pass", and README of the marker that is   *)
(* left, one "raised after the final budgeted snapshot": a marker outlives  *)
(* all processes only if one of them ran out of passes or failed.           *)
(***************************************************************************)
MarkerLeftOnlyByBudget ==
  AllDone /\ markers # {} =>
    \E p \in Proc : budget[p] = 0 \/ outcome[p] = "failed"

=============================================================================
