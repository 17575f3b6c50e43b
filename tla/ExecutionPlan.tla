---------------------------- MODULE ExecutionPlan ----------------------------
(***************************************************************************)
(* One execution plan: its rows in execution_plans, execution_workstreams,  *)
(* execution_worktree_leases and execution_integration_attempts, the git    *)
(* worktrees and the integration head, and the code that moves them:        *)
(* WorktreeExecutionService.executePlan with ExecutionScheduler.runReady    *)
(* inside it, ControlledIntegrationService.integrate, the recovery a        *)
(* runtime performs when it starts, and cancelPlan called from elsewhere.   *)
(*                                                                         *)
(* One step is one SQLite transaction, one git command or one agent         *)
(* returning.  The process can die between any two of them; a cancelling    *)
(* caller in another process interleaves with all of them.  The loops over  *)
(* workstreams visit a set in any order (the code sorts by id).             *)
(*                                                                         *)
(* Outside this module: the command executor that calls executePlan and may  *)
(* set the plan to "succeeded" from what it returned, token budgets, and a    *)
(* second process executing the same plan.                                   *)
(***************************************************************************)
EXTENDS Naturals

CONSTANTS
    Workstreams, \* workstream ids of the plan
    DependsOn,   \* execution_dependencies: the workstreams each one waits for
    MaxFaults,   \* bound: process deaths, failing allocations and removals
    MaxCancels,  \* bound: calls of cancelPlan
    None         \* no workstream in hand

ASSUME PlanAssumption ==
    /\ DependsOn \in [Workstreams -> SUBSET Workstreams]
    /\ MaxFaults \in Nat
    /\ MaxCancels \in Nat
    /\ None \notin Workstreams

VARIABLES
    plan,      \* execution_plans.status
    ws,        \* execution_workstreams.status
    lease,     \* states of the workstream's lease rows
    attempts,  \* integration attempt rows of the workstream, by kind
    checkout,  \* workstreams whose worktree and branch exist on disk
    head,      \* workstreams whose branch is merged in the root checkout
    pc,        \* where the executing process is
    todo,      \* workstreams the current loop has still to visit
    cur,       \* the workstream a multi-step iteration is working on
    held,      \* keys of the map `allocations` of this wave
    flight,    \* dispatched workstreams whose agent has not returned
    won,       \* workstreams of this wave whose agent succeeded
    lost,      \* workstreams of this wave whose agent failed
    broken,    \* a transition threw inside executeOne
    cancel,    \* where the cancelling caller is in cancelPlan
    doomed,    \* workstreams of its snapshot it has still to cancel
    faults,    \* faults so far
    cancels    \* calls of cancelPlan so far

tables    == <<plan, ws, lease, attempts>>
git       == <<checkout, head>>
results   == <<flight, won, lost, broken>>
canceller == <<cancel, doomed, cancels>>
locals    == <<todo, cur, held, results>>
vars      == <<tables, git, pc, locals, canceller, faults>>

Executor == {"down", "refused", "attempts", "requeue", "reclaim", "idle",
             "wave", "allocate", "claim", "unwind", "start", "mark",
             "dispatch", "await", "record", "block", "integrate", "merge",
             "acknowledge", "pending", "integrated", "reject", "fail",
             "blockAgain", "clean", "finish"}

\* The statuses this code assigns; nothing in src/ supersedes a workstream.
Status == {"planned", "blocked", "ready", "running", "succeeded", "failed",
           "cancelled", "integration_pending", "integrated"}
PlanStatus == {"planned", "running", "succeeded", "failed", "cancelled"}

\* `transitions` and `planTransitions` of contracts.ts.
transitions ==
    [planned             |-> {"blocked", "ready", "cancelled"},
     blocked             |-> {"ready", "cancelled"},
     ready               |-> {"running", "cancelled"},
     running             |-> {"ready", "succeeded", "failed", "cancelled",
                              "integration_pending"},
     succeeded           |-> {"integration_pending"},
     failed              |-> {},
     cancelled           |-> {},
     integration_pending |-> {"integrated", "failed", "cancelled"},
     integrated          |-> {}]
planTransitions ==
    [planned   |-> {"running", "cancelled"},
     running   |-> {"succeeded", "failed", "cancelled"},
     succeeded |-> {}, failed |-> {}, cancelled |-> {}]

\* assertWorkstreamTransition does not throw.
CanMove(w, to) == to \in transitions[ws[w]]
Set(w, to) == ws' = [ws EXCEPT ![w] = to]

\* Seeded fault: one delivered dependency is enough (some for every).
ListReadySome ==
    {w \in Workstreams :
        /\ ws[w] \in {"planned", "ready"}
        /\ \/ DependsOn[w] = {}
           \/ \E d \in DependsOn[w] : ws[d] \in {"succeeded", "integrated"}}

\* listReady: planned or ready, every dependency succeeded or integrated.
ListReady ==
    {w \in Workstreams :
        /\ ws[w] \in {"planned", "ready"}
        /\ \A d \in DependsOn[w] : ws[d] \in {"succeeded", "integrated"}}

\* propagateDependencyFailures: waiting for a workstream that will not deliver.
Unavailable(w) == ws[w] \in {"failed", "blocked", "cancelled"}
Stranded(w) ==
    /\ ws[w] \in {"planned", "ready"}
    /\ \E d \in DependsOn[w] : Unavailable(d)

HasIntegrated(w) == "integrated" \in attempts[w]

\* UPDATE of a lease row from one state to another.  The schema allows one row
\* per workstream and state, so a set of states describes the rows, "active"
\* standing for ACTIVE_LEASES, and an UPDATE to a state taken by an older row
\* of the workstream throws.
Taken(w, to) == to \in lease[w]
Moved(w, from, to) ==
    IF from \in lease[w] THEN (lease[w] \ {from}) \cup {to} ELSE lease[w]

\* Releasing the workstream's live lease throws.
ReleaseThrows(w) == "active" \in lease[w] /\ Taken(w, "released")
Release(w) == [lease EXCEPT ![w] = Moved(w, "active", "released")]

\* worktrees.remove inside try/catch: a failure leaves the worktree on disk.
Remove(w) ==
    \/ checkout' = checkout \ {w} /\ UNCHANGED faults
    \/ faults < MaxFaults /\ faults' = faults + 1 /\ UNCHANGED checkout

ClearWave ==
    /\ todo' = {} /\ cur' = None /\ held' = {} /\ flight' = {}
    /\ won' = {} /\ lost' = {} /\ broken' = FALSE

\* An exception leaves executePlan: what the wave holds is forgotten, not freed.
Throw == pc' = "idle" /\ ClearWave

Init ==
    /\ plan = "planned"
    /\ ws = [w \in Workstreams |-> "planned"]
    /\ lease = [w \in Workstreams |-> {}]
    /\ attempts = [w \in Workstreams |-> {}]
    /\ checkout = {} /\ head = {}
    /\ pc = "idle" /\ todo = {} /\ cur = None /\ held = {}
    /\ flight = {} /\ won = {} /\ lost = {} /\ broken = FALSE
    /\ cancel = "idle" /\ doomed = {} /\ cancels = 0 /\ faults = 0

----------------------------------------------------------------------------
(* executePlan: a wave of allocations.                                       *)

\* A call of executePlan, or the next turn of its loop over waves.
BeginWave ==
    /\ pc \in {"idle", "wave"}
    /\ IF ListReady = {}
       THEN pc' = "finish" /\ todo' = {}
       ELSE pc' = "allocate" /\ todo' = ListReady
    /\ UNCHANGED <<tables, git, cur, held, results, canceller, faults>>

\* worktrees.allocate: WORKTREE_COLLISION if the worktree is still there.
Allocate(w) ==
    /\ pc = "allocate" /\ w \in todo
    /\ IF w \in checkout
       THEN pc' = "unwind" /\ UNCHANGED <<checkout, held, cur>>
       ELSE /\ checkout' = checkout \cup {w}
            /\ held' = held \cup {w}
            /\ cur' = w
            /\ pc' = "claim"
    /\ UNCHANGED <<tables, head, todo, results, canceller, faults>>

\* budgetCoordinator.open or `git worktree add` throws.
AllocationFails ==
    /\ pc = "allocate" /\ todo # {} /\ faults < MaxFaults
    /\ faults' = faults + 1
    /\ pc' = "unwind"
    /\ UNCHANGED <<tables, git, locals, canceller>>

\* bindWorktree, acquireLease and activateLease.
Claim ==
    /\ pc = "claim"
    /\ IF ws[cur] \in {"planned", "ready"} /\ "active" \notin lease[cur]
       THEN /\ lease' = [lease EXCEPT ![cur] = @ \cup {"active"}]
            /\ todo' = todo \ {cur}
            /\ pc' = IF todo = {cur} THEN "start" ELSE "allocate"
       ELSE pc' = "unwind" /\ UNCHANGED <<lease, todo>>
    /\ UNCHANGED <<plan, ws, attempts, git, cur, held, results, canceller,
                   faults>>

\* The catch block: leases and worktrees of this wave are given back.
\* releaseLease is not guarded: if it throws, the rest is not given back.
Unwind(w) ==
    /\ pc = "unwind" /\ w \in held
    /\ IF ReleaseThrows(w)
       THEN Throw /\ UNCHANGED <<lease, checkout, faults>>
       ELSE /\ lease' = Release(w)
            /\ Remove(w)
            /\ held' = held \ {w}
            /\ UNCHANGED <<pc, todo, cur, results>>
    /\ UNCHANGED <<plan, ws, attempts, head, canceller>>

UnwindDone ==
    /\ pc = "unwind" /\ held = {}
    /\ Throw
    /\ UNCHANGED <<tables, git, canceller, faults>>

----------------------------------------------------------------------------
(* runReady: dispatch and outcomes of the wave.                              *)

StartPlan ==
    /\ pc = "start"
    /\ plan' = IF plan = "planned" THEN "running" ELSE plan
    /\ todo' = ListReady
    /\ pc' = "mark"
    /\ UNCHANGED <<ws, lease, attempts, git, cur, held, results, canceller,
                   faults>>

\* transitionWorkstream(.., "ready") throws unless the workstream is planned.
MarkReady(w) ==
    /\ pc = "mark" /\ w \in todo
    /\ IF CanMove(w, "ready")
       THEN /\ Set(w, "ready")
            /\ todo' = todo \ {w}
            /\ UNCHANGED <<pc, cur, held, results>>
       ELSE Throw /\ UNCHANGED ws
    /\ UNCHANGED <<plan, lease, attempts, git, canceller, faults>>

MarkDone ==
    /\ pc = "mark" /\ todo = {}
    /\ todo' = ListReady
    /\ pc' = "dispatch"
    /\ UNCHANGED <<tables, git, cur, held, results, canceller, faults>>

\* The synchronous part of executeOne; Promise.all starts every one of them.
Dispatch(w) ==
    /\ pc = "dispatch" /\ w \in todo
    /\ todo' = todo \ {w}
    /\ IF CanMove(w, "running")
       THEN /\ Set(w, "running")
            /\ flight' = flight \cup {w}
            /\ UNCHANGED broken
       ELSE broken' = TRUE /\ UNCHANGED <<ws, flight>>
    /\ UNCHANGED <<plan, lease, attempts, git, pc, cur, held, won, lost,
                   canceller, faults>>

\* Promise.all rejects if one executeOne did, else waits for every agent.
DispatchDone ==
    /\ pc = "dispatch" /\ todo = {}
    /\ IF broken
       THEN Throw
       ELSE pc' = "await" /\ UNCHANGED locals
    /\ UNCHANGED <<tables, git, canceller, faults>>

\* executor.execute settles: the agent's session is outside this model.
AgentReturns(w) ==
    /\ pc = "await" /\ w \in flight
    /\ flight' = flight \ {w}
    /\ \/ won' = won \cup {w} /\ UNCHANGED lost
       \/ lost' = lost \cup {w} /\ UNCHANGED won
    /\ UNCHANGED <<tables, git, pc, todo, cur, held, broken, canceller, faults>>

AwaitDone ==
    /\ pc = "await" /\ flight = {}
    /\ todo' = won \cup lost
    /\ pc' = "record"
    /\ UNCHANGED <<tables, git, cur, held, results, canceller, faults>>

Outcome(w) == IF w \in won THEN "succeeded" ELSE "failed"

\* A workstream cancelled while its agent ran makes the transition throw.
RecordOutcome(w) ==
    /\ pc = "record" /\ w \in todo
    /\ IF CanMove(w, Outcome(w))
       THEN /\ Set(w, Outcome(w))
            /\ todo' = todo \ {w}
            /\ UNCHANGED <<pc, cur, held, results>>
       ELSE Throw /\ UNCHANGED ws
    /\ UNCHANGED <<plan, lease, attempts, git, canceller, faults>>

RecordDone ==
    /\ pc = "record" /\ todo = {}
    /\ pc' = "block"
    /\ UNCHANGED <<tables, git, locals, canceller, faults>>

\* One transition of propagateDependencyFailures, in runReady or after the
\* integrations of the wave.
Block(w) ==
    /\ pc \in {"block", "blockAgain"} /\ Stranded(w)
    /\ IF CanMove(w, "blocked")
       THEN Set(w, "blocked") /\ UNCHANGED <<pc, locals>>
       ELSE Throw /\ UNCHANGED ws
    /\ UNCHANGED <<plan, lease, attempts, git, canceller, faults>>

\* finalizePlan fails a running plan in which nothing is left to run.
FinalizePlan ==
    IF /\ plan = "running"
       /\ \A w \in Workstreams : ws[w] \in {"succeeded", "failed", "blocked",
                                            "cancelled", "integrated"}
       /\ \E w \in Workstreams : Unavailable(w)
    THEN "failed" ELSE plan

BlockDone ==
    /\ pc = "block" /\ \A w \in Workstreams : ~Stranded(w)
    /\ plan' = FinalizePlan
    /\ todo' = won
    /\ pc' = "integrate"
    /\ UNCHANGED <<ws, lease, attempts, git, cur, held, results, canceller,
                   faults>>

----------------------------------------------------------------------------
(* The integrations of the wave: executePlan's loop over result.succeeded    *)
(* with ControlledIntegrationService.integrate inside.                       *)

\* The checks pass and the row "started" is written.
Integrate(w) ==
    /\ pc = "integrate" /\ w \in todo
    /\ ws[w] \in {"succeeded", "integration_pending"}
    /\ ~HasIntegrated(w)
    /\ attempts' = [attempts EXCEPT ![w] = @ \cup {"started"}]
    /\ cur' = w
    /\ pc' = "merge"
    /\ UNCHANGED <<plan, ws, lease, git, todo, held, results, canceller, faults>>

\* A check throws before the row is written: no passed verification, base
\* drift, a path outside the workstream's ownership.
IntegrateRefused(w) ==
    /\ pc = "integrate" /\ w \in todo
    /\ cur' = w
    /\ pc' = "reject"
    /\ UNCHANGED <<tables, git, todo, held, results, canceller, faults>>

Merge ==
    /\ pc = "merge"
    /\ head' = head \cup {cur}
    /\ pc' = "acknowledge"
    /\ UNCHANGED <<tables, checkout, locals, canceller, faults>>

\* git merge fails: aborted, and the row "failed" (or "conflict") is written.
MergeFails ==
    /\ pc = "merge"
    /\ attempts' = [attempts EXCEPT ![cur] = @ \cup {"failed"}]
    /\ pc' = "reject"
    /\ UNCHANGED <<plan, ws, lease, git, locals, canceller, faults>>

Acknowledge ==
    /\ pc = "acknowledge"
    /\ attempts' = [attempts EXCEPT ![cur] = @ \cup {"integrated"}]
    /\ pc' = "pending"
    /\ UNCHANGED <<plan, ws, lease, git, locals, canceller, faults>>

\* An invalid transition is caught by integrate, which writes "failed".
IntegrateMove(at, to, next, left) ==
    /\ pc = at
    /\ IF CanMove(cur, to)
       THEN /\ Set(cur, to)
            /\ pc' = next
            /\ todo' = left
            /\ UNCHANGED attempts
       ELSE /\ attempts' = [attempts EXCEPT ![cur] = @ \cup {"failed"}]
            /\ pc' = "reject"
            /\ UNCHANGED <<ws, todo>>
    /\ UNCHANGED <<plan, lease, git, cur, held, results, canceller, faults>>

SetPending == IntegrateMove("pending", "integration_pending", "integrated", todo)
SetIntegrated ==
    IntegrateMove("integrated", "integrated", "integrate", todo \ {cur})

\* executePlan's catch block: succeeded, then integration_pending, then failed.
Reject ==
    /\ pc = "reject"
    /\ IF ws[cur] = "succeeded"
       THEN Set(cur, "integration_pending") /\ pc' = "fail" /\ UNCHANGED todo
       ELSE pc' = "integrate" /\ todo' = todo \ {cur} /\ UNCHANGED ws
    /\ UNCHANGED <<plan, lease, attempts, git, cur, held, results, canceller,
                   faults>>

\* Cancelled in between, the transition throws out of the catch block.
Fail ==
    /\ pc = "fail"
    /\ IF CanMove(cur, "failed")
       THEN /\ Set(cur, "failed")
            /\ todo' = todo \ {cur}
            /\ pc' = "integrate"
            /\ UNCHANGED <<cur, held, results>>
       ELSE Throw /\ UNCHANGED ws
    /\ UNCHANGED <<plan, lease, attempts, git, canceller, faults>>

IntegrateDone ==
    /\ pc = "integrate" /\ todo = {}
    /\ pc' = "blockAgain"
    /\ UNCHANGED <<tables, git, locals, canceller, faults>>

\* Seeded fault: a failed integration is not propagated to the dependents.
BlockAgainSkipped ==
    /\ pc = "blockAgain"
    /\ todo' = held
    /\ pc' = "clean"
    /\ UNCHANGED <<tables, git, cur, held, results, canceller, faults>>

BlockAgainDone ==
    /\ pc = "blockAgain" /\ \A w \in Workstreams : ~Stranded(w)
    /\ todo' = held
    /\ pc' = "clean"
    /\ UNCHANGED <<tables, git, cur, held, results, canceller, faults>>

\* completeLease inside try/catch, then releaseLease, which is not, then the
\* worktree.  (A death in between leaves a completed row nobody reads.)
Clean(w) ==
    /\ pc = "clean" /\ w \in todo
    /\ IF ReleaseThrows(w)
       THEN /\ lease' = [lease EXCEPT ![w] =
                            IF Taken(w, "completed") THEN @
                            ELSE Moved(w, "active", "completed")]
            /\ Throw
            /\ UNCHANGED <<checkout, faults>>
       ELSE /\ lease' = Release(w)
            /\ Remove(w)
            /\ todo' = todo \ {w}
            /\ UNCHANGED <<pc, cur, held, results>>
    /\ UNCHANGED <<plan, ws, attempts, head, canceller>>

\* The loop over waves ends when a wave started nothing.
CleanDone ==
    /\ pc = "clean" /\ todo = {}
    /\ pc' = IF won \cup lost = {} THEN "finish" ELSE "wave"
    /\ ClearWave
    /\ UNCHANGED <<tables, git, canceller, faults>>

Finish ==
    /\ pc = "finish"
    /\ plan' = IF /\ plan = "running"
                  /\ \A w \in Workstreams : ws[w] \in {"succeeded", "integrated"}
               THEN "succeeded" ELSE plan
    /\ pc' = "idle"
    /\ UNCHANGED <<ws, lease, attempts, git, locals, canceller, faults>>

----------------------------------------------------------------------------
(* Process death and the recovery a runtime performs when it is composed.    *)

Crash ==
    /\ pc \notin {"down", "refused"} /\ faults < MaxFaults
    /\ faults' = faults + 1
    /\ pc' = "down"
    /\ ClearWave
    /\ UNCHANGED <<tables, git, canceller>>

\* Seeded fault: an attempt that was only started counts as integrated.
BootStartedCounts ==
    /\ pc \in {"down", "refused"}
    /\ ws' = [w \in Workstreams |->
                 IF /\ attempts[w] # {}
                    /\ ws[w] \in {"succeeded", "integration_pending"}
                 THEN "integrated" ELSE ws[w]]
    /\ todo' = {w \in Workstreams : "started" \in attempts[w]}
    /\ pc' = "attempts"
    /\ UNCHANGED <<plan, lease, attempts, git, cur, held, results, canceller,
                   faults>>

\* composition.ts: reconcileIntegratedAttempts, then recoverAfterRestart,
\* which begins with the attempts left "started".
Boot ==
    /\ pc \in {"down", "refused"}
    /\ ws' = [w \in Workstreams |->
                 IF /\ HasIntegrated(w)
                    /\ ws[w] \in {"succeeded", "integration_pending"}
                 THEN "integrated" ELSE ws[w]]
    /\ todo' = {w \in Workstreams : "started" \in attempts[w]}
    /\ pc' = "attempts"
    /\ UNCHANGED <<plan, lease, attempts, git, cur, held, results, canceller,
                   faults>>

\* Already acknowledged: skipped.
RecoverAcknowledged(w) ==
    /\ pc = "attempts" /\ w \in todo /\ HasIntegrated(w)
    /\ todo' = todo \ {w}
    /\ UNCHANGED <<tables, git, pc, cur, held, results, canceller, faults>>

\* The branch exists and is reachable from the head: the merge is adopted.  The
\* row and the transitions are one step: a death between them is repaired by the
\* next Boot, here, or ends in the refusal of RecoverInterrupted, there.
RecoverMerged(w) ==
    /\ pc = "attempts" /\ w \in todo /\ ~HasIntegrated(w)
    /\ w \in head /\ w \in checkout
    /\ attempts' = [attempts EXCEPT ![w] = @ \cup {"integrated"}]
    /\ ws' = [ws EXCEPT ![w] =
                 IF @ \in {"succeeded", "integration_pending"}
                 THEN "integrated" ELSE @]
    /\ todo' = todo \ {w}
    /\ UNCHANGED <<plan, lease, git, pc, cur, held, results, canceller, faults>>

\* Seeded fault: the interrupted attempt is failed without asking git.
RecoverInterruptedBlindly(w) ==
    /\ pc = "attempts" /\ w \in todo /\ ~HasIntegrated(w)
    /\ attempts' = [attempts EXCEPT ![w] = @ \cup {"recovered-failed"}]
    /\ ws' = [ws EXCEPT ![w] = IF @ = "succeeded" THEN "failed" ELSE @]
    /\ todo' = todo \ {w}
    /\ UNCHANGED <<plan, lease, git, pc, cur, held, results, canceller, faults>>

\* Not merged: a row `${attemptId}-recovered-failed` is inserted.  Its id is a
\* primary key, so inserting it again throws and the runtime does not start.
RecoverInterrupted(w) ==
    /\ pc = "attempts" /\ w \in todo /\ ~HasIntegrated(w)
    /\ ~(w \in head /\ w \in checkout)
    /\ IF "recovered-failed" \in attempts[w]
       THEN pc' = "refused" /\ todo' = {} /\ UNCHANGED <<ws, attempts>>
       ELSE /\ attempts' = [attempts EXCEPT ![w] = @ \cup {"recovered-failed"}]
            /\ ws' = [ws EXCEPT ![w] = IF @ = "succeeded" THEN "failed" ELSE @]
            /\ todo' = todo \ {w}
            /\ UNCHANGED pc
    /\ UNCHANGED <<plan, lease, git, cur, held, results, canceller, faults>>

AttemptsDone ==
    /\ pc = "attempts" /\ todo = {}
    /\ todo' = {w \in Workstreams : ws[w] = "running"}
    /\ pc' = "requeue"
    /\ UNCHANGED <<tables, git, cur, held, results, canceller, faults>>

\* repository.recoverAfterRestart: an in-flight workstream goes back to ready
\* and its lease becomes reclaimable.
Requeue(w) ==
    /\ pc = "requeue" /\ w \in todo
    /\ IF CanMove(w, "ready")
       THEN Set(w, "ready")
       ELSE UNCHANGED ws
    /\ IF CanMove(w, "ready") /\ ~("active" \in lease[w] /\ Taken(w, "reclaimable"))
       THEN /\ lease' = [lease EXCEPT ![w] = Moved(w, "active", "reclaimable")]
            /\ todo' = todo \ {w}
            /\ UNCHANGED pc
       ELSE pc' = "refused" /\ todo' = {} /\ UNCHANGED lease
    /\ UNCHANGED <<plan, attempts, git, cur, held, results, canceller, faults>>

\* reclaimExpired, one UPDATE: any of the live leases may have expired by now.
ReclaimExpired ==
    /\ pc = "requeue" /\ todo = {}
    /\ \E expired \in SUBSET {w \in Workstreams : "active" \in lease[w]} :
          IF \E w \in expired : Taken(w, "reclaimable")
          THEN pc' = "refused" /\ UNCHANGED <<lease, todo>>
          ELSE /\ lease' = [w \in Workstreams |->
                               IF w \in expired
                               THEN Moved(w, "active", "reclaimable")
                               ELSE lease[w]]
               /\ todo' = {w \in Workstreams : "reclaimable" \in lease'[w]}
               /\ pc' = "reclaim"
    /\ UNCHANGED <<plan, ws, attempts, git, cur, held, results, canceller,
                   faults>>

\* The worktree of a reclaimable lease is removed and the lease released; both
\* are inside try/catch, so the row stays reclaimable if it cannot be released.
ReleaseReclaimed(w) ==
    /\ pc = "reclaim" /\ w \in todo
    /\ Remove(w)
    /\ lease' = [lease EXCEPT ![w] =
                    IF Taken(w, "released") THEN @
                    ELSE Moved(w, "reclaimable", "released")]
    /\ todo' = todo \ {w}
    /\ UNCHANGED <<plan, ws, attempts, head, pc, cur, held, results, canceller>>

BootDone ==
    /\ pc = "reclaim" /\ todo = {}
    /\ pc' = "idle"
    /\ UNCHANGED <<tables, git, locals, canceller, faults>>

----------------------------------------------------------------------------
(* cancelPlan, called by cancelCommand in this or another process.           *)

\* Seeded fault: running workstreams are left to finish.
CancellableQueued == {w \in Workstreams : ws[w] \in {"planned", "ready"}}

\* What cancelPlan cancels of the plan it has read.
Cancellable == {w \in Workstreams : ws[w] \in {"planned", "ready", "running"}}

BeginCancel ==
    /\ cancel = "idle" /\ cancels < MaxCancels
    /\ cancels' = cancels + 1
    /\ doomed' = Cancellable
    /\ cancel' = "workstreams"
    /\ UNCHANGED <<tables, git, pc, locals, faults>>

\* A workstream that has moved on makes the transition throw, and cancelPlan
\* stops there: what it has cancelled stays cancelled, the rest goes on.
CancelWorkstream(w) ==
    /\ cancel = "workstreams" /\ w \in doomed
    /\ IF CanMove(w, "cancelled")
       THEN Set(w, "cancelled") /\ doomed' = doomed \ {w} /\ UNCHANGED cancel
       ELSE cancel' = "idle" /\ doomed' = {} /\ UNCHANGED ws
    /\ UNCHANGED <<plan, lease, attempts, git, pc, locals, cancels, faults>>

\* The live leases are released one by one, up to the first that throws.  (No
\* workstream is left that could claim another one meanwhile.)
CancelLeases ==
    /\ cancel = "workstreams" /\ doomed = {}
    /\ \E freed \in SUBSET {w \in Workstreams : ~ReleaseThrows(w)} :
          /\ lease' = [w \in Workstreams |->
                          IF w \in freed THEN Moved(w, "active", "released")
                          ELSE lease[w]]
          /\ IF \E w \in Workstreams : ReleaseThrows(w)
             THEN cancel' = "idle"
             ELSE freed = Workstreams /\ cancel' = "plan"
    /\ UNCHANGED <<plan, ws, attempts, git, pc, locals, doomed, cancels, faults>>

CancelPlan ==
    /\ cancel = "plan"
    /\ plan' = IF "cancelled" \in planTransitions[plan] THEN "cancelled" ELSE plan
    /\ cancel' = "idle"
    /\ UNCHANGED <<ws, lease, attempts, git, pc, locals, doomed, cancels, faults>>

----------------------------------------------------------------------------
WaveStep ==
    \/ BeginWave \/ Claim \/ UnwindDone
    \/ \E w \in Workstreams : Allocate(w) \/ Unwind(w)

RunReadyStep ==
    \/ StartPlan \/ MarkDone \/ DispatchDone \/ AwaitDone \/ RecordDone
    \/ BlockDone
    \/ \E w \in Workstreams :
          MarkReady(w) \/ Dispatch(w) \/ AgentReturns(w) \/ RecordOutcome(w)
            \/ Block(w)

IntegrationStep ==
    \/ Merge \/ MergeFails \/ Acknowledge \/ SetPending \/ SetIntegrated
    \/ Reject \/ Fail \/ IntegrateDone \/ BlockAgainDone \/ CleanDone \/ Finish
    \/ \E w \in Workstreams : Integrate(w) \/ IntegrateRefused(w) \/ Clean(w)

RecoveryStep ==
    \/ Boot \/ AttemptsDone \/ ReclaimExpired \/ BootDone
    \/ \E w \in Workstreams :
          RecoverAcknowledged(w) \/ RecoverMerged(w) \/ RecoverInterrupted(w)
            \/ Requeue(w) \/ ReleaseReclaimed(w)

CancelStep ==
    \/ BeginCancel \/ CancelLeases \/ CancelPlan
    \/ \E w \in Workstreams : CancelWorkstream(w)

Executes == WaveStep \/ RunReadyStep \/ IntegrationStep \/ RecoveryStep

Next == Executes \/ AllocationFails \/ Crash \/ CancelStep

Spec == Init /\ [][Next]_vars

\* The executing process keeps running, a dead one is started again, a plan
\* that returned or threw is executed again (recoverCommand), an agent's
\* session settles.  Faults and the cancelling caller owe nothing.
FairSpec == Spec /\ WF_vars(Executes)

----------------------------------------------------------------------------
(* Properties.                                                               *)

\* Every variable stays in its domain; in particular a lease row is in a state
\* that the recovery and the next claim understand.
TypeOK ==
    /\ plan \in PlanStatus
    /\ ws \in [Workstreams -> Status]
    /\ lease \in [Workstreams -> SUBSET {"active", "completed", "reclaimable",
                                         "released"}]
    /\ attempts \in [Workstreams -> SUBSET {"started", "integrated", "failed",
                                            "recovered-failed"}]
    /\ checkout \subseteq Workstreams /\ head \subseteq Workstreams
    /\ pc \in Executor
    /\ todo \subseteq Workstreams /\ cur \in Workstreams \cup {None}
    /\ held \subseteq Workstreams /\ flight \subseteq Workstreams
    /\ won \subseteq Workstreams /\ lost \subseteq Workstreams
    /\ broken \in BOOLEAN
    /\ cancel \in {"idle", "workstreams", "plan"} /\ doomed \subseteq Workstreams
    /\ faults \in 0..MaxFaults /\ cancels \in 0..MaxCancels

\* recoverAfterRestart: "so an acknowledged commit is never executed twice".
\* Once a workstream's branch is merged it is never dispatched again and never
\* reported failed, wherever the process died between merge, acknowledgement
\* and status.  (A cancelPlan working from an old snapshot can still cancel it.)
MergedNeverReruns ==
    \A w \in head :
        ws[w] \in {"succeeded", "integration_pending", "integrated", "cancelled"}

\* A plan with a verdict of this code (finalizePlan, executePlan's last
\* statement, cancelPlan; not the command executor's) has no workstream left
\* that could still be dispatched, and a plan that succeeded has no workstream
\* that failed, was blocked or cancelled, also after crashes, recoveries and
\* cancellations in between.
VerdictIsFinal ==
    /\ plan \in {"succeeded", "failed", "cancelled"} =>
          \A w \in Workstreams : ws[w] \notin {"planned", "ready", "running"}
    /\ plan = "succeeded" =>
          \A w \in Workstreams : ws[w] \in {"succeeded", "integrated"}

\* While an agent works on a running workstream, its worktree is on disk and
\* its lease is active: neither cancelPlan nor a recovery takes them away.
RunningIsLeased ==
    \A w \in flight :
        ws[w] = "running" => "active" \in lease[w] /\ w \in checkout

\* A workstream that was ever dispatched had, and still has, dependencies that
\* delivered: no later failure, cancellation or recovery withdraws one of them.
DependenciesDelivered ==
    \A w \in Workstreams :
        ws[w] \in {"ready", "running", "succeeded", "integration_pending",
                   "integrated", "failed"} =>
            \A d \in DependsOn[w] : ws[d] \in {"succeeded", "integrated"}

\* What a reader of the tables is told, without waves and processes.
Stage(status) == CASE status = "planned" -> "waiting"
                   [] status \in {"ready", "running"} -> "started"
                   [] status = "succeeded" -> "done"
                   [] status = "integration_pending" -> "deciding"
                   [] OTHER -> status
Verdict == IF plan \in {"planned", "running"} THEN "open" ELSE plan

Graph == INSTANCE WorkGraph WITH
            Jobs <- Workstreams, Needs <- DependsOn, merged <- head,
            state <- [w \in Workstreams |-> Stage(ws[w])], verdict <- Verdict

\* Executing a plan implements WorkGraph: through deaths, recoveries and
\* cancellations a workstream begins once and only when what it waits for has
\* delivered, it is reported integrated only when git has its branch, and a
\* result that another workstream was begun on is never withdrawn.
ImplementsGraph == Graph!Spec

\* executePlan: "Propagate that failure before deciding the next wave so
\* dependents cannot remain silently planned."  Without faults and
\* cancellations, every workstream is eventually settled.
NoneSilentlyPlanned ==
    <>[](\/ faults > 0
         \/ cancels > 0
         \/ \A w \in Workstreams :
               ws[w] \in {"blocked", "failed", "integrated"})

\* composition.ts on recoverAfterRestart: "Recovery is durable and
\* idempotent": a runtime can always be started on the state it finds.
RecoveryIsIdempotent == pc # "refused"
=============================================================================
