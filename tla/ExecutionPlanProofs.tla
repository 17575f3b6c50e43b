------------------------ MODULE ExecutionPlanProofs ------------------------
(***************************************************************************)
(* Proofs about ExecutionPlan for any set of workstreams, any dependencies, *)
(* any number of faults and of cancellations.  PlanInv is the inductive     *)
(* invariant: what each step of the executor may rely on although the       *)
(* process can die and a cancelling caller moves workstreams under it.      *)
(***************************************************************************)
EXTENDS ExecutionPlan, TLAPS

Live      == {"planned", "ready", "running"}
Delivered == {"succeeded", "integrated"}
Untouched == {"planned", "blocked", "cancelled"}

\* Where the process is: not in a wave, filling one, holding its allocations,
\* integrating one workstream.
Resting     == {"down", "refused", "attempts", "requeue", "reclaim", "idle",
                "finish"}
Filling     == {"allocate", "claim", "unwind", "start", "mark"}
Holding     == {"allocate", "claim", "start", "mark", "dispatch", "await"}
Integrating == {"merge", "acknowledge", "pending", "integrated", "reject", "fail"}

\* No dependent of w has been dispatched.
Fresh(w) == \A v \in Workstreams : w \in DependsOn[v] => ws[v] \in Untouched

\* Integration of w was started and its outcome is not in the tables.
Limbo(w) ==
    "started" \in attempts[w] /\ ~HasIntegrated(w) /\ ws[w] = "succeeded"

\* The wave's local variables.
WaveOK ==
    /\ pc \in Resting \cup {"wave"} => held = {}
    /\ pc \in Resting \cup Filling \cup {"wave"} => won = {} /\ lost = {}
    /\ pc \notin {"dispatch", "await"} => flight = {}
    /\ flight \cup won \cup lost \subseteq held
    /\ pc # "clean" => held \subseteq checkout
    /\ pc = "claim" => cur \in held /\ cur \in todo
    /\ pc = "mark" => \A w \in todo : ws[w] \in {"planned", "ready", "cancelled"}
    /\ pc \in {"dispatch", "await"} =>
          \A w \in flight \cup won \cup lost : ws[w] \in {"running", "cancelled"}
    /\ pc \in {"record", "requeue"} =>
          \A w \in todo : ws[w] \in {"running", "cancelled"}
    /\ pc = "integrate" => todo \subseteq won
    /\ pc \in Integrating => cur \in won /\ todo \subseteq won

\* Every workstream a wave may dispatch has its lease.
LeaseOK ==
    /\ pc \in {"allocate", "claim"} => ListReady \subseteq held \cup todo
    /\ pc \in {"start", "mark", "dispatch"} => ListReady \subseteq held
    /\ pc \in {"mark", "dispatch"} => todo \subseteq held
    /\ pc = "mark" => \A w \in todo : \A d \in DependsOn[w] : ws[d] \in Delivered
    /\ pc \in Holding =>
          \A w \in held : \/ ws[w] \notin Live
                          \/ "active" \in lease[w]
                          \/ pc = "claim" /\ w = cur

\* cancelPlan's snapshot covers what can still run when it reaches the leases.
CancelOK ==
    /\ cancel = "workstreams" => Cancellable \subseteq doomed
    /\ cancel = "plan" => Cancellable = {}

\* What the wave, or an integration in limbo, may still withdraw has no
\* dispatched dependent.
FreshOK ==
    /\ \A w \in flight \cup won \cup lost : Fresh(w)
    /\ \A w \in Workstreams : Limbo(w) => Fresh(w)

\* Limbo is left to the step that is in it or to the next recovery, which can
\* still ask git because the branch is on disk.
LimboOK ==
    /\ pc = "attempts" => \A w \in todo : "started" \in attempts[w]
    /\ \A w \in Workstreams : Limbo(w) =>
          /\ \/ pc \in {"merge", "acknowledge", "reject"} /\ cur = w
             \/ pc \in {"down", "refused"}
             \/ pc = "attempts" /\ w \in todo
          /\ w \in head => w \in checkout

\* What is merged: nothing that can run, nothing the wave is about to merge or
\* to fail.
HeadOK ==
    /\ \A w \in Workstreams : ws[w] \in Live => attempts[w] = {} /\ w \notin head
    /\ pc \in {"dispatch", "await", "record", "block"} =>
          (flight \cup won) \cap head = {}
    /\ pc = "integrate" => todo \cap head = {}
    /\ pc \in Integrating => (todo \ {cur}) \cap head = {}
    /\ pc \in {"merge", "fail"} => cur \notin head
    /\ pc \in {"merge", "acknowledge", "pending"} =>
          ws[cur] \in {"succeeded", "integration_pending", "cancelled"}
    /\ pc = "reject" /\ ws[cur] = "succeeded" => cur \notin head
    /\ pc = "integrated" => ws[cur] \in {"integration_pending", "cancelled"}

\* A plan that succeeded is at rest.
RestOK ==
    plan = "succeeded" =>
        /\ pc \in Resting
        /\ \A w \in Workstreams : ~Limbo(w)

PlanInv ==
    /\ TypeOK /\ WaveOK /\ LeaseOK /\ CancelOK /\ FreshOK /\ LimboOK /\ HeadOK
    /\ RestOK /\ MergedNeverReruns /\ VerdictIsFinal /\ RunningIsLeased
    /\ DependenciesDelivered

-----------------------------------------------------------------------------
(* executePlan: the wave of allocations. *)

\* A wave starts with nothing held and everything ready still to be allocated.
LEMMA BeginWaveStep ==
  ASSUME PlanAssumption, PlanInv, BeginWave
  PROVE PlanInv'
<1> USE DEF PlanInv, tables, git, results, canceller, locals, BeginWave
<1>1. TypeOK' BY DEF TypeOK, Executor, ListReady
<1>2. WaveOK' BY DEF WaveOK, Resting, Integrating
<1>3. LeaseOK' BY DEF LeaseOK, ListReady, WaveOK, Resting
<1>4. LimboOK' BY DEF LimboOK, Limbo, HasIntegrated
<1>5. HeadOK' BY DEF HeadOK, Integrating
<1>6. RestOK'
  BY DEF RestOK, Resting, Limbo, HasIntegrated, VerdictIsFinal, ListReady
<1>7. /\ CancelOK' /\ FreshOK' /\ MergedNeverReruns'
      /\ VerdictIsFinal'
      /\ RunningIsLeased' /\ DependenciesDelivered'
  BY DEF CancelOK, Cancellable, FreshOK, Fresh, Limbo, HasIntegrated,
     MergedNeverReruns, VerdictIsFinal, RunningIsLeased, DependenciesDelivered
<1> QED BY <1>1, <1>2, <1>3, <1>4, <1>5, <1>6, <1>7

\* Git worktree add puts the workstream of the allocation under this wave's care.
LEMMA AllocateStep ==
  ASSUME PlanAssumption, PlanInv, NEW w \in Workstreams, Allocate(w)
  PROVE PlanInv'
<1> USE DEF PlanInv, tables, git, results, canceller, locals, Allocate
<1>1. TypeOK' BY DEF TypeOK, Executor
<1>2. WaveOK' BY DEF WaveOK, Resting, Filling, Integrating
<1>3. LeaseOK' BY DEF LeaseOK, ListReady, Holding
<1>4. LimboOK' BY DEF LimboOK, Limbo, HasIntegrated
<1>5. HeadOK' BY DEF HeadOK, Integrating
<1>6. RestOK' BY DEF RestOK, Resting
<1>7. RunningIsLeased' BY DEF RunningIsLeased
<1>8. /\ CancelOK' /\ FreshOK' /\ MergedNeverReruns'
      /\ VerdictIsFinal' /\ DependenciesDelivered'
  BY DEF CancelOK, Cancellable, FreshOK, Fresh, Limbo, HasIntegrated,
     MergedNeverReruns, VerdictIsFinal, DependenciesDelivered
<1> QED BY <1>1, <1>2, <1>3, <1>4, <1>5, <1>6, <1>7, <1>8

\* An allocation that throws leads to the catch block with what is held.
LEMMA AllocationFailsStep ==
  ASSUME PlanAssumption, PlanInv, AllocationFails
  PROVE PlanInv'
<1> USE DEF PlanInv, tables, git, results, canceller, locals, AllocationFails
<1>1. TypeOK' BY DEF TypeOK, Executor
<1>2. WaveOK' BY DEF WaveOK, Resting, Filling, Integrating
<1>3. LeaseOK' BY DEF LeaseOK, Holding
<1>4. LimboOK' BY DEF LimboOK, Limbo, HasIntegrated
<1>5. HeadOK' BY DEF HeadOK, Integrating
<1>6. RestOK' BY DEF RestOK, Resting
<1>7. /\ CancelOK' /\ FreshOK' /\ MergedNeverReruns'
      /\ VerdictIsFinal'
      /\ RunningIsLeased' /\ DependenciesDelivered'
  BY DEF CancelOK, Cancellable, FreshOK, Fresh, Limbo, HasIntegrated,
     MergedNeverReruns, VerdictIsFinal, RunningIsLeased, DependenciesDelivered
<1> QED BY <1>1, <1>2, <1>3, <1>4, <1>5, <1>6, <1>7

\* The lease of the allocated workstream is live before the next one is taken.
LEMMA ClaimStep ==
  ASSUME PlanAssumption, PlanInv, Claim
  PROVE PlanInv'
<1> USE DEF PlanInv, tables, git, results, canceller, locals, Claim
<1>c. cur \in Workstreams
  BY DEF WaveOK, TypeOK
<1>1. TypeOK' BY <1>c DEF TypeOK, Executor
<1>2. WaveOK' BY <1>c DEF WaveOK, Resting, Filling, Integrating
<1>3. LeaseOK' BY <1>c DEF LeaseOK, ListReady, Holding, TypeOK, WaveOK
<1>4. LimboOK' BY <1>c DEF LimboOK, Limbo, HasIntegrated
<1>5. HeadOK' BY <1>c DEF HeadOK, Integrating
<1>6. RestOK' BY <1>c DEF RestOK, Resting
<1>7. RunningIsLeased' BY <1>c DEF RunningIsLeased, TypeOK
<1>8. /\ CancelOK' /\ FreshOK' /\ MergedNeverReruns'
      /\ VerdictIsFinal' /\ DependenciesDelivered'
  BY DEF CancelOK, Cancellable, FreshOK, Fresh, Limbo, HasIntegrated,
     MergedNeverReruns, VerdictIsFinal, DependenciesDelivered
<1> QED BY <1>1, <1>2, <1>3, <1>4, <1>5, <1>6, <1>7, <1>8

\* The catch block gives back leases and worktrees of a wave that
\* dispatched nothing.
LEMMA UnwindStep ==
  ASSUME PlanAssumption, PlanInv, NEW w \in Workstreams, Unwind(w)
  PROVE PlanInv'
<1> USE DEF PlanInv, tables, git, results, canceller, locals, Unwind
<1>m. /\ faults' \in 0..MaxFaults
      /\ lease' \in [Workstreams ->
                    SUBSET {"active", "completed", "reclaimable", "released"}]
  BY DEF TypeOK, Remove, Release, Moved
<1>1. TypeOK' BY <1>m DEF TypeOK, Executor, Throw, ClearWave, Remove
<1>2. WaveOK'
  BY <1>m DEF WaveOK, Filling, Integrating, Remove, Throw, ClearWave
<1>3. LeaseOK' BY <1>m DEF LeaseOK, Holding, Throw
<1>4. FreshOK'
  BY <1>m DEF FreshOK, Fresh, Limbo, HasIntegrated, Throw, ClearWave
<1>5. LimboOK' BY <1>m DEF LimboOK, Limbo, HasIntegrated, Throw
<1>6. HeadOK' BY <1>m DEF HeadOK, Integrating, Throw
<1>7. RestOK' BY <1>m DEF RestOK, Resting
<1>8. RunningIsLeased' BY <1>m DEF RunningIsLeased, WaveOK, Throw, ClearWave
<1>9. /\ CancelOK' /\ MergedNeverReruns' /\ VerdictIsFinal'
      /\ DependenciesDelivered'
  BY DEF CancelOK, Cancellable, MergedNeverReruns, VerdictIsFinal,
     DependenciesDelivered
<1> QED BY <1>1, <1>2, <1>3, <1>4, <1>5, <1>6, <1>7, <1>8, <1>9

\* The exception leaves executePlan with nothing held.
LEMMA UnwindDoneStep ==
  ASSUME PlanAssumption, PlanInv, UnwindDone
  PROVE PlanInv'
<1> USE DEF PlanInv, tables, git, results, canceller, locals, UnwindDone
<1>1. TypeOK' BY DEF TypeOK, Executor, Throw, ClearWave
<1>2. WaveOK' BY DEF WaveOK, Integrating, Throw, ClearWave
<1>3. LeaseOK' BY DEF LeaseOK, Holding, Throw
<1>4. FreshOK' BY DEF FreshOK, Fresh, Limbo, HasIntegrated, Throw, ClearWave
<1>5. LimboOK' BY DEF LimboOK, Limbo, HasIntegrated, Throw
<1>6. HeadOK' BY DEF HeadOK, Throw, ClearWave
<1>7. RestOK' BY DEF RestOK, Resting
<1>8. RunningIsLeased' BY DEF RunningIsLeased, Throw, ClearWave
<1>9. /\ CancelOK' /\ MergedNeverReruns' /\ VerdictIsFinal'
      /\ DependenciesDelivered'
  BY DEF CancelOK, Cancellable, MergedNeverReruns, VerdictIsFinal,
     DependenciesDelivered
<1> QED BY <1>1, <1>2, <1>3, <1>4, <1>5, <1>6, <1>7, <1>8, <1>9

-----------------------------------------------------------------------------
(* runReady: dispatch and outcomes. *)

\* The workstreams to dispatch are among those this wave has leased.
LEMMA StartPlanStep ==
  ASSUME PlanAssumption, PlanInv, StartPlan
  PROVE PlanInv'
<1> USE DEF PlanInv, tables, git, results, canceller, locals, StartPlan
<1>1. TypeOK' BY DEF TypeOK, PlanStatus, Executor, ListReady
<1>2. WaveOK' BY DEF WaveOK, Resting, Filling, Integrating, ListReady
<1>3. LeaseOK' BY DEF LeaseOK, ListReady, Delivered, Holding
<1>4. LimboOK' BY DEF LimboOK, Limbo, HasIntegrated
<1>5. HeadOK' BY DEF HeadOK, Integrating
<1>6. RestOK' BY DEF RestOK, Resting
<1>7. VerdictIsFinal' BY DEF VerdictIsFinal
<1>8. /\ CancelOK' /\ FreshOK' /\ MergedNeverReruns'
      /\ RunningIsLeased' /\ DependenciesDelivered'
  BY DEF CancelOK, Cancellable, FreshOK, Fresh, Limbo, HasIntegrated,
     MergedNeverReruns, RunningIsLeased, DependenciesDelivered
<1> QED BY <1>1, <1>2, <1>3, <1>4, <1>5, <1>6, <1>7, <1>8

\* Only a planned workstream moves, and one that throws ends the wave.
LEMMA MarkReadyStep ==
  ASSUME PlanAssumption, PlanInv, NEW w \in Workstreams, MarkReady(w)
  PROVE PlanInv'
<1> USE DEF PlanInv, tables, git, results, canceller, locals, MarkReady
<1>m. CanMove(w, "ready") => ws[w] = "planned"
  BY DEF CanMove, transitions, WaveOK
<1>1. TypeOK' BY <1>m DEF TypeOK, Status, Executor, Set, Throw, ClearWave
<1>2. WaveOK' BY <1>m DEF WaveOK, Integrating, TypeOK, Set, Throw, ClearWave
<1>3. LeaseOK'
  BY <1>m DEF LeaseOK, ListReady, Live, Delivered, TypeOK, Set, Throw,
     ClearWave
<1>4. CancelOK' BY <1>m DEF CancelOK, Cancellable, TypeOK, Set
<1>5. FreshOK'
  BY <1>m DEF FreshOK, Limbo, HasIntegrated, TypeOK, WaveOK, LimboOK, Filling,
     Set, Throw, ClearWave
<1>6. LimboOK' BY <1>m DEF LimboOK, Limbo, HasIntegrated, TypeOK, Set, Throw
<1>7. HeadOK' BY <1>m DEF HeadOK, Live, Integrating, TypeOK, Set, Throw
<1>8. RestOK' BY <1>m DEF RestOK, Resting
<1>9. MergedNeverReruns' BY <1>m DEF MergedNeverReruns, TypeOK, Set
<1>10. VerdictIsFinal' BY <1>m DEF VerdictIsFinal
<1>11. RunningIsLeased' BY <1>m DEF RunningIsLeased, WaveOK, Throw, ClearWave
<1>12. DependenciesDelivered'
  BY <1>m DEF DependenciesDelivered, TypeOK, LeaseOK, Delivered, Set
<1> QED BY <1>1, <1>2, <1>3, <1>4, <1>5, <1>6, <1>7, <1>8, <1>9, <1>10, <1>11,
    <1>12

\* The second listReady returns no workstream without a lease.
LEMMA MarkDoneStep ==
  ASSUME PlanAssumption, PlanInv, MarkDone
  PROVE PlanInv'
<1> USE DEF PlanInv, tables, git, results, canceller, locals, MarkDone
<1>1. TypeOK' BY DEF TypeOK, Executor, ListReady
<1>2. WaveOK' BY DEF WaveOK, Resting, Filling, Integrating
<1>3. LeaseOK' BY DEF LeaseOK, ListReady, Holding
<1>4. LimboOK' BY DEF LimboOK, Limbo, HasIntegrated
<1>5. HeadOK' BY DEF HeadOK, Integrating, WaveOK, Filling
<1>6. RestOK' BY DEF RestOK, Resting
<1>7. /\ CancelOK' /\ FreshOK' /\ MergedNeverReruns'
      /\ VerdictIsFinal'
      /\ RunningIsLeased' /\ DependenciesDelivered'
  BY DEF CancelOK, Cancellable, FreshOK, Fresh, Limbo, HasIntegrated,
     MergedNeverReruns, VerdictIsFinal, RunningIsLeased, DependenciesDelivered
<1> QED BY <1>1, <1>2, <1>3, <1>4, <1>5, <1>6, <1>7

\* A dispatched workstream has a live lease, its worktree and delivered
\* dependencies.
LEMMA DispatchStep ==
  ASSUME PlanAssumption, PlanInv, NEW w \in Workstreams, Dispatch(w)
  PROVE PlanInv'
<1> USE DEF PlanInv, tables, git, results, canceller, locals, Dispatch
<1>m. CanMove(w, "running") => ws[w] = "ready"
  BY DEF CanMove, transitions, TypeOK, Status
<1>1. TypeOK' BY <1>m DEF TypeOK, Status, Set
<1>2. WaveOK' BY <1>m DEF WaveOK, TypeOK, LeaseOK, Set
<1>3. LeaseOK' BY <1>m DEF LeaseOK, ListReady, Live, TypeOK, Set
<1>4. CancelOK' BY <1>m DEF CancelOK, Cancellable, TypeOK, Set
<1>5. FreshOK'
  BY <1>m DEF FreshOK, Fresh, Limbo, HasIntegrated, Untouched, TypeOK, Status,
     DependenciesDelivered, Set
<1>6. LimboOK' BY <1>m DEF LimboOK, Limbo, HasIntegrated, TypeOK, Set
<1>7. HeadOK' BY <1>m DEF HeadOK, Live, TypeOK, Set
<1>8. RestOK' BY <1>m DEF RestOK, Resting
<1>9. MergedNeverReruns' BY <1>m DEF MergedNeverReruns, TypeOK, Set
<1>10. VerdictIsFinal' BY <1>m DEF VerdictIsFinal
<1>11. RunningIsLeased'
  BY <1>m DEF RunningIsLeased, TypeOK, WaveOK, LeaseOK, Live, Holding, Set
<1>12. DependenciesDelivered' BY <1>m DEF DependenciesDelivered, TypeOK, Set
<1> QED BY <1>1, <1>2, <1>3, <1>4, <1>5, <1>6, <1>7, <1>8, <1>9, <1>10, <1>11,
    <1>12

\* ExecutePlan waits for the agents it started, or throws.
LEMMA DispatchDoneStep ==
  ASSUME PlanAssumption, PlanInv, DispatchDone
  PROVE PlanInv'
<1> USE DEF PlanInv, tables, git, results, canceller, locals, DispatchDone
<1>1. TypeOK' BY DEF TypeOK, Executor, Throw, ClearWave
<1>2. WaveOK' BY DEF WaveOK, Resting, Filling, Integrating, Throw, ClearWave
<1>3. LeaseOK' BY DEF LeaseOK, Holding, Throw
<1>4. FreshOK' BY DEF FreshOK, Fresh, Limbo, HasIntegrated, Throw, ClearWave
<1>5. LimboOK' BY DEF LimboOK, Limbo, HasIntegrated, Throw
<1>6. HeadOK' BY DEF HeadOK, Throw, ClearWave
<1>7. RestOK' BY DEF RestOK, Resting
<1>8. RunningIsLeased' BY DEF RunningIsLeased, Throw, ClearWave
<1>9. /\ CancelOK' /\ MergedNeverReruns' /\ VerdictIsFinal'
      /\ DependenciesDelivered'
  BY DEF CancelOK, Cancellable, MergedNeverReruns, VerdictIsFinal,
     DependenciesDelivered
<1> QED BY <1>1, <1>2, <1>3, <1>4, <1>5, <1>6, <1>7, <1>8, <1>9

\* An agent's answer moves its workstream from in flight to won or lost.
LEMMA AgentReturnsStep ==
  ASSUME PlanAssumption, PlanInv, NEW w \in Workstreams, AgentReturns(w)
  PROVE PlanInv'
<1> USE DEF PlanInv, tables, git, results, canceller, locals, AgentReturns
<1>1. TypeOK' BY DEF TypeOK
<1>2. WaveOK' BY DEF WaveOK, Filling
<1>3. FreshOK' BY DEF FreshOK, Fresh, Limbo, HasIntegrated
<1>4. HeadOK' BY DEF HeadOK
<1>5. RunningIsLeased' BY DEF RunningIsLeased
<1>6. /\ LeaseOK' /\ CancelOK' /\ LimboOK'
      /\ RestOK' /\ MergedNeverReruns'
      /\ VerdictIsFinal' /\ DependenciesDelivered'
  BY DEF LeaseOK, CancelOK, Cancellable, LimboOK, Limbo, HasIntegrated,
     RestOK, MergedNeverReruns, VerdictIsFinal, DependenciesDelivered
<1> QED BY <1>1, <1>2, <1>3, <1>4, <1>5, <1>6

\* The outcomes to record are those of running or cancelled workstreams.
LEMMA AwaitDoneStep ==
  ASSUME PlanAssumption, PlanInv, AwaitDone
  PROVE PlanInv'
<1> USE DEF PlanInv, tables, git, results, canceller, locals, AwaitDone
<1>1. TypeOK' BY DEF TypeOK, Executor
<1>2. WaveOK' BY DEF WaveOK, Resting, Filling, Integrating
<1>3. LeaseOK' BY DEF LeaseOK, Holding
<1>4. LimboOK' BY DEF LimboOK, Limbo, HasIntegrated
<1>5. HeadOK' BY DEF HeadOK, Integrating
<1>6. RestOK' BY DEF RestOK, Resting
<1>7. /\ CancelOK' /\ FreshOK' /\ MergedNeverReruns'
      /\ VerdictIsFinal'
      /\ RunningIsLeased' /\ DependenciesDelivered'
  BY DEF CancelOK, Cancellable, FreshOK, Fresh, Limbo, HasIntegrated,
     MergedNeverReruns, VerdictIsFinal, RunningIsLeased, DependenciesDelivered
<1> QED BY <1>1, <1>2, <1>3, <1>4, <1>5, <1>6, <1>7

\* A cancelled workstream makes the outcome's transition throw.
LEMMA RecordOutcomeStep ==
  ASSUME PlanAssumption, PlanInv, NEW w \in Workstreams, RecordOutcome(w)
  PROVE PlanInv'
<1> USE DEF PlanInv, tables, git, results, canceller, locals, RecordOutcome
<1>m. /\ CanMove(w, Outcome(w)) => ws[w] = "running"
      /\ Outcome(w) \in {"succeeded", "failed"}
  BY DEF Outcome, CanMove, transitions, WaveOK
<1>1. TypeOK' BY <1>m DEF TypeOK, Status, Executor, Set, Throw, ClearWave
<1>2. WaveOK' BY <1>m DEF WaveOK, Integrating, TypeOK, Set, Throw, ClearWave
<1>3. LeaseOK' BY <1>m DEF LeaseOK, Holding, Throw
<1>4. CancelOK' BY <1>m DEF CancelOK, Cancellable, TypeOK, Set
<1>5. FreshOK'
  BY <1>m DEF FreshOK, Fresh, Limbo, HasIntegrated, Untouched, TypeOK, HeadOK,
     Live, Set, Throw, ClearWave
<1>6. LimboOK'
  BY <1>m DEF LimboOK, Limbo, HasIntegrated, TypeOK, HeadOK, Live, Set, Throw
<1>7. HeadOK' BY <1>m DEF HeadOK, Live, Integrating, TypeOK, Set, Throw
<1>8. RestOK' BY <1>m DEF RestOK, Resting
<1>9. MergedNeverReruns' BY <1>m DEF MergedNeverReruns, TypeOK, Set
<1>10. VerdictIsFinal' BY <1>m DEF VerdictIsFinal
<1>11. RunningIsLeased' BY <1>m DEF RunningIsLeased, WaveOK, Throw, ClearWave
<1>12. DependenciesDelivered' BY <1>m DEF DependenciesDelivered, TypeOK, Set
<1> QED BY <1>1, <1>2, <1>3, <1>4, <1>5, <1>6, <1>7, <1>8, <1>9, <1>10, <1>11,
    <1>12

\* All outcomes of the wave are recorded.
LEMMA RecordDoneStep ==
  ASSUME PlanAssumption, PlanInv, RecordDone
  PROVE PlanInv'
<1> USE DEF PlanInv, tables, git, results, canceller, locals, RecordDone
<1>1. TypeOK' BY DEF TypeOK, Executor
<1>2. WaveOK' BY DEF WaveOK, Resting, Filling, Integrating
<1>3. LeaseOK' BY DEF LeaseOK, Holding
<1>4. LimboOK' BY DEF LimboOK, Limbo, HasIntegrated
<1>5. HeadOK' BY DEF HeadOK
<1>6. RestOK' BY DEF RestOK, Resting
<1>7. /\ CancelOK' /\ FreshOK' /\ MergedNeverReruns'
      /\ VerdictIsFinal'
      /\ RunningIsLeased' /\ DependenciesDelivered'
  BY DEF CancelOK, Cancellable, FreshOK, Fresh, Limbo, HasIntegrated,
     MergedNeverReruns, VerdictIsFinal, RunningIsLeased, DependenciesDelivered
<1> QED BY <1>1, <1>2, <1>3, <1>4, <1>5, <1>6, <1>7

\* Only planned workstreams are blocked, so no dispatched one loses its status.
LEMMA BlockStep ==
  ASSUME PlanAssumption, PlanInv, NEW w \in Workstreams, Block(w)
  PROVE PlanInv'
<1> USE DEF PlanInv, tables, git, results, canceller, locals, Block
<1>m. CanMove(w, "blocked") => ws[w] = "planned"
  BY DEF CanMove, transitions, Stranded
<1>1. TypeOK' BY <1>m DEF TypeOK, Status, Executor, Set, Throw, ClearWave
<1>2. WaveOK' BY <1>m DEF WaveOK, Integrating, Throw, ClearWave
<1>3. LeaseOK' BY <1>m DEF LeaseOK, Holding, Throw
<1>4. CancelOK' BY <1>m DEF CancelOK, Cancellable, TypeOK, Set
<1>5. FreshOK'
  BY <1>m DEF FreshOK, Fresh, Limbo, HasIntegrated, Untouched, TypeOK, Set,
     Throw, ClearWave
<1>6. LimboOK' BY <1>m DEF LimboOK, Limbo, HasIntegrated, TypeOK, Set, Throw
<1>7. HeadOK' BY <1>m DEF HeadOK, Live, TypeOK, Set, Throw, ClearWave
<1>8. RestOK' BY <1>m DEF RestOK, Resting
<1>9. MergedNeverReruns' BY <1>m DEF MergedNeverReruns, TypeOK, Set
<1>10. VerdictIsFinal' BY <1>m DEF VerdictIsFinal
<1>11. RunningIsLeased' BY <1>m DEF RunningIsLeased, WaveOK, Throw, ClearWave
<1>12. DependenciesDelivered' BY <1>m DEF DependenciesDelivered, TypeOK, Set
<1> QED BY <1>1, <1>2, <1>3, <1>4, <1>5, <1>6, <1>7, <1>8, <1>9, <1>10, <1>11,
    <1>12

\* FinalizePlan fails a plan in which nothing is left to run.
LEMMA BlockDoneStep ==
  ASSUME PlanAssumption, PlanInv, BlockDone
  PROVE PlanInv'
<1> USE DEF PlanInv, tables, git, results, canceller, locals, BlockDone
<1>1. TypeOK' BY DEF TypeOK, PlanStatus, Executor, FinalizePlan
<1>2. WaveOK' BY DEF WaveOK, Resting, Filling, Integrating
<1>3. LeaseOK' BY DEF LeaseOK, Holding
<1>4. LimboOK' BY DEF LimboOK, Limbo, HasIntegrated
<1>5. HeadOK' BY DEF HeadOK
<1>6. RestOK' BY DEF RestOK, Resting, FinalizePlan
<1>7. VerdictIsFinal' BY DEF VerdictIsFinal, FinalizePlan
<1>8. /\ CancelOK' /\ FreshOK' /\ MergedNeverReruns'
      /\ RunningIsLeased' /\ DependenciesDelivered'
  BY DEF CancelOK, Cancellable, FreshOK, Fresh, Limbo, HasIntegrated,
     MergedNeverReruns, RunningIsLeased, DependenciesDelivered
<1> QED BY <1>1, <1>2, <1>3, <1>4, <1>5, <1>6, <1>7, <1>8

-----------------------------------------------------------------------------
(* The integrations of the wave. *)

\* An attempt is started for a workstream of this wave that is not merged.
LEMMA IntegrateStep ==
  ASSUME PlanAssumption, PlanInv, NEW w \in Workstreams, Integrate(w)
  PROVE PlanInv'
<1> USE DEF PlanInv, tables, git, results, canceller, locals, Integrate
<1>1. TypeOK' BY DEF TypeOK, Executor
<1>2. WaveOK' BY DEF WaveOK, Resting, Filling
<1>3. LeaseOK' BY DEF LeaseOK, Holding
<1>4. FreshOK' BY DEF FreshOK, Fresh, Limbo, HasIntegrated, WaveOK
<1>5. LimboOK' BY DEF LimboOK, Limbo, HasIntegrated, HeadOK
<1>6. HeadOK' BY DEF HeadOK, Live
<1>7. RestOK' BY DEF RestOK, Resting
<1>8. /\ CancelOK' /\ MergedNeverReruns' /\ VerdictIsFinal'
      /\ RunningIsLeased' /\ DependenciesDelivered'
  BY DEF CancelOK, Cancellable, MergedNeverReruns, VerdictIsFinal,
     RunningIsLeased, DependenciesDelivered
<1> QED BY <1>1, <1>2, <1>3, <1>4, <1>5, <1>6, <1>7, <1>8

\* A failed check touches no row.
LEMMA IntegrateRefusedStep ==
  ASSUME PlanAssumption, PlanInv, NEW w \in Workstreams, IntegrateRefused(w)
  PROVE PlanInv'
<1> USE DEF PlanInv, tables, git, results, canceller, locals, IntegrateRefused
<1>1. TypeOK' BY DEF TypeOK, Executor
<1>2. WaveOK' BY DEF WaveOK, Resting, Filling
<1>3. LeaseOK' BY DEF LeaseOK, Holding
<1>4. LimboOK' BY DEF LimboOK, Limbo, HasIntegrated
<1>5. HeadOK' BY DEF HeadOK
<1>6. RestOK' BY DEF RestOK, Resting
<1>7. /\ CancelOK' /\ FreshOK' /\ MergedNeverReruns'
      /\ VerdictIsFinal'
      /\ RunningIsLeased' /\ DependenciesDelivered'
  BY DEF CancelOK, Cancellable, FreshOK, Fresh, Limbo, HasIntegrated,
     MergedNeverReruns, VerdictIsFinal, RunningIsLeased, DependenciesDelivered
<1> QED BY <1>1, <1>2, <1>3, <1>4, <1>5, <1>6, <1>7

\* A branch is merged only after its attempt row and before any verdict on it.
LEMMA MergeStep ==
  ASSUME PlanAssumption, PlanInv, Merge
  PROVE PlanInv'
<1> USE DEF PlanInv, tables, git, results, canceller, locals, Merge
<1>c. cur \in Workstreams
  BY DEF WaveOK, TypeOK, Integrating
<1>1. TypeOK' BY <1>c DEF TypeOK, Executor
<1>2. WaveOK' BY <1>c DEF WaveOK, Resting, Filling, Integrating
<1>3. LeaseOK' BY <1>c DEF LeaseOK, Holding
<1>4. LimboOK' BY <1>c DEF LimboOK, Limbo, HasIntegrated, WaveOK, Integrating
<1>5. HeadOK' BY <1>c DEF HeadOK, Live, Integrating
<1>6. RestOK' BY <1>c DEF RestOK, Resting
<1>7. MergedNeverReruns' BY <1>c DEF MergedNeverReruns, HeadOK
<1>8. /\ CancelOK' /\ FreshOK' /\ VerdictIsFinal'
      /\ RunningIsLeased' /\ DependenciesDelivered'
  BY DEF CancelOK, Cancellable, FreshOK, Fresh, Limbo, HasIntegrated,
     VerdictIsFinal, RunningIsLeased, DependenciesDelivered
<1> QED BY <1>1, <1>2, <1>3, <1>4, <1>5, <1>6, <1>7, <1>8

\* A failed merge leaves the head alone and the attempt failed.
LEMMA MergeFailsStep ==
  ASSUME PlanAssumption, PlanInv, MergeFails
  PROVE PlanInv'
<1> USE DEF PlanInv, tables, git, results, canceller, locals, MergeFails
<1>c. cur \in Workstreams
  BY DEF WaveOK, TypeOK, Integrating
<1>1. TypeOK' BY <1>c DEF TypeOK, Executor
<1>2. WaveOK' BY <1>c DEF WaveOK, Resting, Filling, Integrating
<1>3. LeaseOK' BY <1>c DEF LeaseOK, Holding
<1>4. FreshOK' BY <1>c DEF FreshOK, Fresh, Limbo, HasIntegrated
<1>5. LimboOK' BY <1>c DEF LimboOK, Limbo, HasIntegrated
<1>6. HeadOK' BY <1>c DEF HeadOK, Live, Integrating
<1>7. RestOK' BY <1>c DEF RestOK, Resting
<1>8. /\ CancelOK' /\ MergedNeverReruns' /\ VerdictIsFinal'
      /\ RunningIsLeased' /\ DependenciesDelivered'
  BY DEF CancelOK, Cancellable, MergedNeverReruns, VerdictIsFinal,
     RunningIsLeased, DependenciesDelivered
<1> QED BY <1>1, <1>2, <1>3, <1>4, <1>5, <1>6, <1>7, <1>8

\* The acknowledgement row is about a merged branch.
LEMMA AcknowledgeStep ==
  ASSUME PlanAssumption, PlanInv, Acknowledge
  PROVE PlanInv'
<1> USE DEF PlanInv, tables, git, results, canceller, locals, Acknowledge
<1>c. cur \in Workstreams
  BY DEF WaveOK, TypeOK, Integrating
<1>1. TypeOK' BY <1>c DEF TypeOK, Executor
<1>2. WaveOK' BY <1>c DEF WaveOK, Resting, Filling, Integrating
<1>3. LeaseOK' BY <1>c DEF LeaseOK, Holding
<1>4. FreshOK' BY <1>c DEF FreshOK, Fresh, Limbo, HasIntegrated
<1>5. LimboOK' BY <1>c DEF LimboOK, Limbo, HasIntegrated, TypeOK
<1>6. HeadOK' BY <1>c DEF HeadOK, Live, Integrating
<1>7. RestOK' BY <1>c DEF RestOK, Resting
<1>8. /\ CancelOK' /\ MergedNeverReruns' /\ VerdictIsFinal'
      /\ RunningIsLeased' /\ DependenciesDelivered'
  BY DEF CancelOK, Cancellable, MergedNeverReruns, VerdictIsFinal,
     RunningIsLeased, DependenciesDelivered
<1> QED BY <1>1, <1>2, <1>3, <1>4, <1>5, <1>6, <1>7, <1>8

\* After the acknowledgement the workstream is pending or was cancelled.
LEMMA SetPendingStep ==
  ASSUME PlanAssumption, PlanInv, SetPending
  PROVE PlanInv'
<1> USE DEF PlanInv, tables, git, results, canceller, locals, SetPending
<1>c. cur \in Workstreams
  BY DEF WaveOK, TypeOK, Integrating, IntegrateMove
<1>m. CanMove(cur, "integration_pending") <=> ws[cur] = "succeeded"
  BY <1>c DEF CanMove, transitions, HeadOK, IntegrateMove
<1>1. TypeOK' BY <1>c, <1>m DEF TypeOK, Status, Executor, IntegrateMove, Set
<1>2. WaveOK'
  BY <1>c, <1>m DEF WaveOK, Resting, Filling, Integrating, IntegrateMove
<1>3. LeaseOK' BY <1>c, <1>m DEF LeaseOK, Holding, IntegrateMove
<1>4. CancelOK'
  BY <1>c, <1>m DEF CancelOK, Cancellable, TypeOK, IntegrateMove, Set
<1>5. FreshOK'
  BY <1>c, <1>m DEF FreshOK, Fresh, Limbo, HasIntegrated, Untouched, TypeOK,
     IntegrateMove, Set
<1>6. LimboOK'
  BY <1>c, <1>m DEF LimboOK, Limbo, HasIntegrated, TypeOK, IntegrateMove, Set
<1>7. HeadOK'
  BY <1>c, <1>m DEF HeadOK, Live, Integrating, TypeOK, IntegrateMove, Set
<1>8. RestOK' BY <1>c, <1>m DEF RestOK, Resting, IntegrateMove
<1>9. MergedNeverReruns'
  BY <1>c, <1>m DEF MergedNeverReruns, TypeOK, IntegrateMove, Set
<1>10. VerdictIsFinal'
  BY <1>c, <1>m DEF VerdictIsFinal, TypeOK, RestOK, Resting, IntegrateMove,
     Set
<1>11. RunningIsLeased'
  BY <1>c, <1>m DEF RunningIsLeased, WaveOK, IntegrateMove
<1>12. DependenciesDelivered'
  BY <1>c, <1>m DEF DependenciesDelivered, TypeOK, WaveOK, Integrating,
     FreshOK, Fresh, Untouched, IntegrateMove, Set
<1> QED BY <1>1, <1>2, <1>3, <1>4, <1>5, <1>6, <1>7, <1>8, <1>9, <1>10, <1>11,
    <1>12

\* A pending workstream that is merged becomes integrated.
LEMMA SetIntegratedStep ==
  ASSUME PlanAssumption, PlanInv, SetIntegrated
  PROVE PlanInv'
<1> USE DEF PlanInv, tables, git, results, canceller, locals, SetIntegrated
<1>c. cur \in Workstreams
  BY DEF WaveOK, TypeOK, Integrating, IntegrateMove
<1>m. CanMove(cur, "integrated") <=> ws[cur] = "integration_pending"
  BY <1>c DEF CanMove, transitions, TypeOK, Status
<1>1. TypeOK' BY <1>c, <1>m DEF TypeOK, Status, Executor, IntegrateMove, Set
<1>2. WaveOK'
  BY <1>c, <1>m DEF WaveOK, Resting, Filling, Integrating, IntegrateMove
<1>3. LeaseOK' BY <1>c, <1>m DEF LeaseOK, Holding, IntegrateMove
<1>4. CancelOK'
  BY <1>c, <1>m DEF CancelOK, Cancellable, TypeOK, IntegrateMove, Set
<1>5. FreshOK'
  BY <1>c, <1>m DEF FreshOK, Fresh, Limbo, HasIntegrated, Untouched, TypeOK,
     IntegrateMove, Set
<1>6. LimboOK'
  BY <1>c, <1>m DEF LimboOK, Limbo, HasIntegrated, TypeOK, IntegrateMove, Set
<1>7. HeadOK'
  BY <1>c, <1>m DEF HeadOK, Live, Integrating, TypeOK, IntegrateMove, Set
<1>8. RestOK' BY <1>c, <1>m DEF RestOK, Resting, IntegrateMove
<1>9. MergedNeverReruns'
  BY <1>c, <1>m DEF MergedNeverReruns, TypeOK, IntegrateMove, Set
<1>10. VerdictIsFinal'
  BY <1>c, <1>m DEF VerdictIsFinal, TypeOK, IntegrateMove, Set
<1>11. RunningIsLeased'
  BY <1>c, <1>m DEF RunningIsLeased, WaveOK, IntegrateMove
<1>12. DependenciesDelivered'
  BY <1>c, <1>m DEF DependenciesDelivered, TypeOK, IntegrateMove, Set
<1> QED BY <1>1, <1>2, <1>3, <1>4, <1>5, <1>6, <1>7, <1>8, <1>9, <1>10, <1>11,
    <1>12

\* A workstream whose integration was refused is not merged.
LEMMA RejectStep ==
  ASSUME PlanAssumption, PlanInv, Reject
  PROVE PlanInv'
<1> USE DEF PlanInv, tables, git, results, canceller, locals, Reject
<1>c. cur \in Workstreams
  BY DEF WaveOK, TypeOK, Integrating
<1>1. TypeOK' BY <1>c DEF TypeOK, Status, Executor, Set
<1>2. WaveOK' BY <1>c DEF WaveOK, Resting, Filling, Integrating
<1>3. LeaseOK' BY <1>c DEF LeaseOK, Holding
<1>4. CancelOK' BY <1>c DEF CancelOK, Cancellable, TypeOK, Set
<1>5. FreshOK'
  BY <1>c DEF FreshOK, Fresh, Limbo, HasIntegrated, Untouched, TypeOK, Set
<1>6. LimboOK' BY <1>c DEF LimboOK, Limbo, HasIntegrated, TypeOK, Set
<1>7. HeadOK' BY <1>c DEF HeadOK, Live, Integrating, TypeOK, Set
<1>8. RestOK' BY <1>c DEF RestOK, Resting
<1>9. MergedNeverReruns' BY <1>c DEF MergedNeverReruns, TypeOK, Set
<1>10. VerdictIsFinal' BY <1>c DEF VerdictIsFinal, TypeOK, RestOK, Resting, Set
<1>11. RunningIsLeased' BY <1>c DEF RunningIsLeased, WaveOK
<1>12. DependenciesDelivered'
  BY <1>c DEF DependenciesDelivered, TypeOK, WaveOK, Integrating, FreshOK,
     Fresh, Untouched, Set
<1> QED BY <1>1, <1>2, <1>3, <1>4, <1>5, <1>6, <1>7, <1>8, <1>9, <1>10, <1>11,
    <1>12

\* Only a workstream that is not merged is failed.
LEMMA FailStep ==
  ASSUME PlanAssumption, PlanInv, Fail
  PROVE PlanInv'
<1> USE DEF PlanInv, tables, git, results, canceller, locals, Fail
<1>c. cur \in Workstreams
  BY DEF WaveOK, TypeOK, Integrating
<1>m. CanMove(cur, "failed") => ws[cur] \in {"running", "integration_pending"}
  BY <1>c DEF CanMove, transitions, TypeOK, Status
<1>1. TypeOK' BY <1>c, <1>m DEF TypeOK, Status, Executor, Set, Throw, ClearWave
<1>2. WaveOK'
  BY <1>c, <1>m DEF WaveOK, Resting, Filling, Integrating, Throw, ClearWave
<1>3. LeaseOK' BY <1>c, <1>m DEF LeaseOK, Holding, Throw
<1>4. CancelOK' BY <1>c, <1>m DEF CancelOK, Cancellable, TypeOK, Set
<1>5. FreshOK'
  BY <1>c, <1>m DEF FreshOK, Fresh, Limbo, HasIntegrated, Untouched, TypeOK,
     Set, Throw, ClearWave
<1>6. LimboOK'
  BY <1>c, <1>m DEF LimboOK, Limbo, HasIntegrated, TypeOK, Set, Throw
<1>7. HeadOK' BY <1>c, <1>m DEF HeadOK, Live, Integrating, TypeOK, Set, Throw
<1>8. RestOK' BY <1>c, <1>m DEF RestOK, Resting
<1>9. MergedNeverReruns'
  BY <1>c, <1>m DEF MergedNeverReruns, TypeOK, HeadOK, Set
<1>10. VerdictIsFinal' BY <1>c, <1>m DEF VerdictIsFinal, TypeOK, Set
<1>11. RunningIsLeased'
  BY <1>c, <1>m DEF RunningIsLeased, WaveOK, Throw, ClearWave
<1>12. DependenciesDelivered'
  BY <1>c, <1>m DEF DependenciesDelivered, TypeOK, Set
<1> QED BY <1>1, <1>2, <1>3, <1>4, <1>5, <1>6, <1>7, <1>8, <1>9, <1>10, <1>11,
    <1>12

\* Every success of the wave has been through integrate.
LEMMA IntegrateDoneStep ==
  ASSUME PlanAssumption, PlanInv, IntegrateDone
  PROVE PlanInv'
<1> USE DEF PlanInv, tables, git, results, canceller, locals, IntegrateDone
<1>1. TypeOK' BY DEF TypeOK, Executor
<1>2. WaveOK' BY DEF WaveOK, Resting, Filling, Integrating
<1>3. LeaseOK' BY DEF LeaseOK, Holding
<1>4. LimboOK' BY DEF LimboOK, Limbo, HasIntegrated
<1>5. HeadOK' BY DEF HeadOK
<1>6. RestOK' BY DEF RestOK, Resting
<1>7. /\ CancelOK' /\ FreshOK' /\ MergedNeverReruns'
      /\ VerdictIsFinal'
      /\ RunningIsLeased' /\ DependenciesDelivered'
  BY DEF CancelOK, Cancellable, FreshOK, Fresh, Limbo, HasIntegrated,
     MergedNeverReruns, VerdictIsFinal, RunningIsLeased, DependenciesDelivered
<1> QED BY <1>1, <1>2, <1>3, <1>4, <1>5, <1>6, <1>7

\* The second propagation leaves no stranded workstream.
LEMMA BlockAgainDoneStep ==
  ASSUME PlanAssumption, PlanInv, BlockAgainDone
  PROVE PlanInv'
<1> USE DEF PlanInv, tables, git, results, canceller, locals, BlockAgainDone
<1>1. TypeOK' BY DEF TypeOK, Executor
<1>2. WaveOK' BY DEF WaveOK, Resting, Filling, Integrating
<1>3. LeaseOK' BY DEF LeaseOK, Holding
<1>4. LimboOK' BY DEF LimboOK, Limbo, HasIntegrated
<1>5. HeadOK' BY DEF HeadOK, Integrating
<1>6. RestOK' BY DEF RestOK, Resting
<1>7. /\ CancelOK' /\ FreshOK' /\ MergedNeverReruns'
      /\ VerdictIsFinal'
      /\ RunningIsLeased' /\ DependenciesDelivered'
  BY DEF CancelOK, Cancellable, FreshOK, Fresh, Limbo, HasIntegrated,
     MergedNeverReruns, VerdictIsFinal, RunningIsLeased, DependenciesDelivered
<1> QED BY <1>1, <1>2, <1>3, <1>4, <1>5, <1>6, <1>7

\* Leases and worktrees are given back after the outcomes are known.
LEMMA CleanStep ==
  ASSUME PlanAssumption, PlanInv, NEW w \in Workstreams, Clean(w)
  PROVE PlanInv'
<1> USE DEF PlanInv, tables, git, results, canceller, locals, Clean
<1>m. /\ faults' \in 0..MaxFaults
      /\ lease' \in [Workstreams ->
                    SUBSET {"active", "completed", "reclaimable", "released"}]
  BY DEF TypeOK, Remove, Release, Moved
<1>1. TypeOK' BY <1>m DEF TypeOK, Executor, Throw, ClearWave, Remove
<1>2. WaveOK' BY <1>m DEF WaveOK, Integrating, Throw, ClearWave
<1>3. LeaseOK' BY <1>m DEF LeaseOK, Holding, Throw
<1>4. FreshOK'
  BY <1>m DEF FreshOK, Fresh, Limbo, HasIntegrated, Throw, ClearWave
<1>5. LimboOK' BY <1>m DEF LimboOK, Limbo, HasIntegrated, Throw
<1>6. HeadOK' BY <1>m DEF HeadOK, Integrating, Throw
<1>7. RestOK' BY <1>m DEF RestOK, Resting
<1>8. RunningIsLeased' BY <1>m DEF RunningIsLeased, WaveOK, Throw, ClearWave
<1>9. /\ CancelOK' /\ MergedNeverReruns' /\ VerdictIsFinal'
      /\ DependenciesDelivered'
  BY DEF CancelOK, Cancellable, MergedNeverReruns, VerdictIsFinal,
     DependenciesDelivered
<1> QED BY <1>1, <1>2, <1>3, <1>4, <1>5, <1>6, <1>7, <1>8, <1>9

\* A finished wave forgets what it held.
LEMMA CleanDoneStep ==
  ASSUME PlanAssumption, PlanInv, CleanDone
  PROVE PlanInv'
<1> USE DEF PlanInv, tables, git, results, canceller, locals, CleanDone
<1>1. TypeOK' BY DEF TypeOK, Executor, ClearWave
<1>2. WaveOK' BY DEF WaveOK, Integrating, ClearWave
<1>3. LeaseOK' BY DEF LeaseOK, Holding
<1>4. FreshOK' BY DEF FreshOK, Fresh, Limbo, HasIntegrated, ClearWave
<1>5. LimboOK' BY DEF LimboOK, Limbo, HasIntegrated
<1>6. HeadOK' BY DEF HeadOK, Integrating
<1>7. RestOK' BY DEF RestOK, Resting
<1>8. RunningIsLeased' BY DEF RunningIsLeased, ClearWave
<1>9. /\ CancelOK' /\ MergedNeverReruns' /\ VerdictIsFinal'
      /\ DependenciesDelivered'
  BY DEF CancelOK, Cancellable, MergedNeverReruns, VerdictIsFinal,
     DependenciesDelivered
<1> QED BY <1>1, <1>2, <1>3, <1>4, <1>5, <1>6, <1>7, <1>8, <1>9

\* A plan succeeds only when all of its workstreams delivered.
LEMMA FinishStep ==
  ASSUME PlanAssumption, PlanInv, Finish
  PROVE PlanInv'
<1> USE DEF PlanInv, tables, git, results, canceller, locals, Finish
<1>1. TypeOK' BY DEF TypeOK, PlanStatus, Executor
<1>2. WaveOK' BY DEF WaveOK, Resting, Integrating
<1>3. LeaseOK' BY DEF LeaseOK, Holding
<1>4. LimboOK' BY DEF LimboOK, Limbo, HasIntegrated
<1>5. HeadOK' BY DEF HeadOK, Integrating
<1>6. RestOK' BY DEF RestOK, Resting, Limbo, HasIntegrated, LimboOK
<1>7. VerdictIsFinal' BY DEF VerdictIsFinal
<1>8. /\ CancelOK' /\ FreshOK' /\ MergedNeverReruns'
      /\ RunningIsLeased' /\ DependenciesDelivered'
  BY DEF CancelOK, Cancellable, FreshOK, Fresh, Limbo, HasIntegrated,
     MergedNeverReruns, RunningIsLeased, DependenciesDelivered
<1> QED BY <1>1, <1>2, <1>3, <1>4, <1>5, <1>6, <1>7, <1>8

-----------------------------------------------------------------------------
(* Process death and recovery. *)

\* A death leaves rows and git alone and forgets the wave.
LEMMA CrashStep ==
  ASSUME PlanAssumption, PlanInv, Crash
  PROVE PlanInv'
<1> USE DEF PlanInv, tables, git, results, canceller, locals, Crash
<1>m. faults' \in 0..MaxFaults
  BY DEF TypeOK
<1>1. TypeOK' BY <1>m DEF TypeOK, Executor, ClearWave
<1>2. WaveOK' BY <1>m DEF WaveOK, Integrating, ClearWave
<1>3. LeaseOK' BY <1>m DEF LeaseOK, Holding
<1>4. FreshOK' BY <1>m DEF FreshOK, Fresh, Limbo, HasIntegrated, ClearWave
<1>5. LimboOK' BY <1>m DEF LimboOK, Limbo, HasIntegrated
<1>6. HeadOK' BY <1>m DEF HeadOK, Integrating
<1>7. RestOK' BY <1>m DEF RestOK, Resting, Limbo, HasIntegrated
<1>8. RunningIsLeased' BY <1>m DEF RunningIsLeased, ClearWave
<1>9. /\ CancelOK' /\ MergedNeverReruns' /\ VerdictIsFinal'
      /\ DependenciesDelivered'
  BY DEF CancelOK, Cancellable, MergedNeverReruns, VerdictIsFinal,
     DependenciesDelivered
<1> QED BY <1>1, <1>2, <1>3, <1>4, <1>5, <1>6, <1>7, <1>8, <1>9

\* An acknowledged attempt makes its workstream integrated.
LEMMA BootStep ==
  ASSUME PlanAssumption, PlanInv, Boot
  PROVE PlanInv'
<1> USE DEF PlanInv, tables, git, results, canceller, locals, Boot
<1>1. TypeOK' BY DEF TypeOK, Status, Executor
<1>2. WaveOK' BY DEF WaveOK, Resting, Integrating
<1>3. LeaseOK' BY DEF LeaseOK, Holding
<1>4. CancelOK' BY DEF CancelOK, Cancellable
<1>5. FreshOK' BY DEF FreshOK, Fresh, Limbo, Untouched
<1>6. LimboOK' BY DEF LimboOK, Limbo
<1>7. HeadOK' BY DEF HeadOK, Live, Integrating
<1>8. RestOK' BY DEF RestOK, Resting, Limbo
<1>9. MergedNeverReruns' BY DEF MergedNeverReruns, TypeOK
<1>10. VerdictIsFinal' BY DEF VerdictIsFinal
<1>11. RunningIsLeased' BY DEF RunningIsLeased, TypeOK
<1>12. DependenciesDelivered' BY DEF DependenciesDelivered
<1> QED BY <1>1, <1>2, <1>3, <1>4, <1>5, <1>6, <1>7, <1>8, <1>9, <1>10, <1>11,
    <1>12

\* An acknowledged attempt is skipped.
LEMMA RecoverAcknowledgedStep ==
  ASSUME PlanAssumption, PlanInv, NEW w \in Workstreams, RecoverAcknowledged(w)
  PROVE PlanInv'
<1> USE DEF PlanInv, tables, git, results, canceller, locals, RecoverAcknowledged
<1>1. TypeOK' BY DEF TypeOK
<1>2. WaveOK' BY DEF WaveOK
<1>3. LeaseOK' BY DEF LeaseOK
<1>4. LimboOK' BY DEF LimboOK, Limbo, HasIntegrated
<1>5. HeadOK' BY DEF HeadOK
<1>6. /\ CancelOK' /\ FreshOK' /\ RestOK'
      /\ MergedNeverReruns' /\ VerdictIsFinal'
      /\ RunningIsLeased' /\ DependenciesDelivered'
  BY DEF CancelOK, Cancellable, FreshOK, Fresh, Limbo, HasIntegrated, RestOK,
     MergedNeverReruns, VerdictIsFinal, RunningIsLeased, DependenciesDelivered
<1> QED BY <1>1, <1>2, <1>3, <1>4, <1>5, <1>6

\* A merge whose branch is on disk is adopted.
LEMMA RecoverMergedStep ==
  ASSUME PlanAssumption, PlanInv, NEW w \in Workstreams, RecoverMerged(w)
  PROVE PlanInv'
<1> USE DEF PlanInv, tables, git, results, canceller, locals, RecoverMerged
<1>1. TypeOK' BY DEF TypeOK, Status
<1>2. WaveOK' BY DEF WaveOK
<1>3. LeaseOK' BY DEF LeaseOK, Live
<1>4. CancelOK' BY DEF CancelOK, Cancellable
<1>5. FreshOK' BY DEF FreshOK, Fresh, Limbo, HasIntegrated, Untouched
<1>6. LimboOK' BY DEF LimboOK, Limbo, HasIntegrated, TypeOK
<1>7. HeadOK' BY DEF HeadOK, Live
<1>8. RestOK' BY DEF RestOK, Limbo, HasIntegrated
<1>9. MergedNeverReruns' BY DEF MergedNeverReruns
<1>10. VerdictIsFinal' BY DEF VerdictIsFinal
<1>11. RunningIsLeased' BY DEF RunningIsLeased
<1>12. DependenciesDelivered' BY DEF DependenciesDelivered
<1> QED BY <1>1, <1>2, <1>3, <1>4, <1>5, <1>6, <1>7, <1>8, <1>9, <1>10, <1>11,
    <1>12

\* An interrupted attempt that is not merged is failed, or recovery refuses.
LEMMA RecoverInterruptedStep ==
  ASSUME PlanAssumption, PlanInv, NEW w \in Workstreams, RecoverInterrupted(w)
  PROVE PlanInv'
<1> USE DEF PlanInv, tables, git, results, canceller, locals, RecoverInterrupted
<1>1. TypeOK' BY DEF TypeOK, Status, Executor
<1>2. WaveOK' BY DEF WaveOK, Resting, Integrating
<1>3. LeaseOK' BY DEF LeaseOK, Holding
<1>4. CancelOK' BY DEF CancelOK, Cancellable, TypeOK
<1>5. FreshOK' BY DEF FreshOK, Fresh, Limbo, HasIntegrated, Untouched, TypeOK
<1>6. LimboOK' BY DEF LimboOK, Limbo, HasIntegrated, TypeOK
<1>7. HeadOK' BY DEF HeadOK, Live, TypeOK, LimboOK
<1>8. RestOK' BY DEF RestOK, Resting, Limbo, HasIntegrated, TypeOK
<1>9. MergedNeverReruns' BY DEF MergedNeverReruns, TypeOK, LimboOK, Limbo
<1>10. VerdictIsFinal' BY DEF VerdictIsFinal, TypeOK, RestOK, LimboOK, Limbo
<1>11. RunningIsLeased' BY DEF RunningIsLeased, TypeOK
<1>12. DependenciesDelivered'
  BY DEF DependenciesDelivered, TypeOK, LimboOK, FreshOK, Fresh, Untouched,
     Limbo
<1> QED BY <1>1, <1>2, <1>3, <1>4, <1>5, <1>6, <1>7, <1>8, <1>9, <1>10, <1>11,
    <1>12

\* No integration is in limbo when workstreams are requeued.
LEMMA AttemptsDoneStep ==
  ASSUME PlanAssumption, PlanInv, AttemptsDone
  PROVE PlanInv'
<1> USE DEF PlanInv, tables, git, results, canceller, locals, AttemptsDone
<1>1. TypeOK' BY DEF TypeOK, Executor
<1>2. WaveOK' BY DEF WaveOK, Resting, Integrating
<1>3. LeaseOK' BY DEF LeaseOK, Holding
<1>4. LimboOK' BY DEF LimboOK, Limbo, HasIntegrated
<1>5. HeadOK' BY DEF HeadOK, Live
<1>6. RestOK' BY DEF RestOK, Resting, Limbo, HasIntegrated
<1>7. /\ CancelOK' /\ FreshOK' /\ MergedNeverReruns'
      /\ VerdictIsFinal'
      /\ RunningIsLeased' /\ DependenciesDelivered'
  BY DEF CancelOK, Cancellable, FreshOK, Fresh, Limbo, HasIntegrated,
     MergedNeverReruns, VerdictIsFinal, RunningIsLeased, DependenciesDelivered
<1> QED BY <1>1, <1>2, <1>3, <1>4, <1>5, <1>6, <1>7

\* A workstream found running goes back to ready with its lease reclaimable.
LEMMA RequeueStep ==
  ASSUME PlanAssumption, PlanInv, NEW w \in Workstreams, Requeue(w)
  PROVE PlanInv'
<1> USE DEF PlanInv, tables, git, results, canceller, locals, Requeue
<1>m. CanMove(w, "ready") => ws[w] = "running"
  BY DEF CanMove, transitions, WaveOK
<1>1. TypeOK' BY <1>m DEF TypeOK, Status, Executor, Set, Moved
<1>2. WaveOK' BY <1>m DEF WaveOK, Resting, Integrating, TypeOK, Set
<1>3. LeaseOK' BY <1>m DEF LeaseOK, Holding
<1>4. CancelOK' BY <1>m DEF CancelOK, Cancellable, TypeOK, Set
<1>5. FreshOK'
  BY <1>m DEF FreshOK, Fresh, Limbo, HasIntegrated, Untouched, TypeOK, Set
<1>6. LimboOK' BY <1>m DEF LimboOK, Limbo, HasIntegrated, TypeOK, Set
<1>7. HeadOK' BY <1>m DEF HeadOK, Live, TypeOK, Set
<1>8. RestOK' BY <1>m DEF RestOK, WaveOK, VerdictIsFinal
<1>9. MergedNeverReruns' BY <1>m DEF MergedNeverReruns, TypeOK, Set
<1>10. VerdictIsFinal' BY <1>m DEF VerdictIsFinal
<1>11. RunningIsLeased' BY <1>m DEF RunningIsLeased, WaveOK
<1>12. DependenciesDelivered' BY <1>m DEF DependenciesDelivered, TypeOK, Set
<1> QED BY <1>1, <1>2, <1>3, <1>4, <1>5, <1>6, <1>7, <1>8, <1>9, <1>10, <1>11,
    <1>12

\* Leases expire only while nothing is in flight.
LEMMA ReclaimExpiredStep ==
  ASSUME PlanAssumption, PlanInv, ReclaimExpired
  PROVE PlanInv'
<1> USE DEF PlanInv, tables, git, results, canceller, locals, ReclaimExpired
<1>1. TypeOK' BY DEF TypeOK, Executor, Moved
<1>2. WaveOK' BY DEF WaveOK, Resting, Integrating
<1>3. LeaseOK' BY DEF LeaseOK, Holding
<1>4. LimboOK' BY DEF LimboOK, Limbo, HasIntegrated
<1>5. HeadOK' BY DEF HeadOK, Integrating
<1>6. RestOK' BY DEF RestOK, Resting, Limbo, HasIntegrated
<1>7. RunningIsLeased' BY DEF RunningIsLeased, WaveOK
<1>8. /\ CancelOK' /\ FreshOK' /\ MergedNeverReruns'
      /\ VerdictIsFinal' /\ DependenciesDelivered'
  BY DEF CancelOK, Cancellable, FreshOK, Fresh, Limbo, HasIntegrated,
     MergedNeverReruns, VerdictIsFinal, DependenciesDelivered
<1> QED BY <1>1, <1>2, <1>3, <1>4, <1>5, <1>6, <1>7, <1>8

\* A reclaimed worktree belongs to no integration in limbo.
LEMMA ReleaseReclaimedStep ==
  ASSUME PlanAssumption, PlanInv, NEW w \in Workstreams, ReleaseReclaimed(w)
  PROVE PlanInv'
<1> USE DEF PlanInv, tables, git, results, canceller, locals, ReleaseReclaimed
<1>1. TypeOK' BY DEF TypeOK, Remove, Moved
<1>2. WaveOK' BY DEF WaveOK, Resting
<1>3. LeaseOK' BY DEF LeaseOK, Holding
<1>4. LimboOK' BY DEF LimboOK, Limbo, HasIntegrated
<1>5. HeadOK' BY DEF HeadOK
<1>6. RunningIsLeased' BY DEF RunningIsLeased, WaveOK
<1>7. /\ CancelOK' /\ FreshOK' /\ RestOK'
      /\ MergedNeverReruns'
      /\ VerdictIsFinal' /\ DependenciesDelivered'
  BY DEF CancelOK, Cancellable, FreshOK, Fresh, Limbo, HasIntegrated, RestOK,
     MergedNeverReruns, VerdictIsFinal, DependenciesDelivered
<1> QED BY <1>1, <1>2, <1>3, <1>4, <1>5, <1>6, <1>7

\* Recovery ends with nothing held.
LEMMA BootDoneStep ==
  ASSUME PlanAssumption, PlanInv, BootDone
  PROVE PlanInv'
<1> USE DEF PlanInv, tables, git, results, canceller, locals, BootDone
<1>1. TypeOK' BY DEF TypeOK, Executor
<1>2. WaveOK' BY DEF WaveOK, Resting, Integrating
<1>3. LeaseOK' BY DEF LeaseOK, Holding
<1>4. LimboOK' BY DEF LimboOK, Limbo, HasIntegrated
<1>5. HeadOK' BY DEF HeadOK
<1>6. RestOK' BY DEF RestOK, Resting, Limbo, HasIntegrated
<1>7. /\ CancelOK' /\ FreshOK' /\ MergedNeverReruns'
      /\ VerdictIsFinal'
      /\ RunningIsLeased' /\ DependenciesDelivered'
  BY DEF CancelOK, Cancellable, FreshOK, Fresh, Limbo, HasIntegrated,
     MergedNeverReruns, VerdictIsFinal, RunningIsLeased, DependenciesDelivered
<1> QED BY <1>1, <1>2, <1>3, <1>4, <1>5, <1>6, <1>7

-----------------------------------------------------------------------------
(* cancelPlan. *)

\* The snapshot covers everything that can still run.
LEMMA BeginCancelStep ==
  ASSUME PlanAssumption, PlanInv, BeginCancel
  PROVE PlanInv'
<1> USE DEF PlanInv, tables, git, results, canceller, locals, BeginCancel
<1>m. cancels' \in 0..MaxCancels
  BY DEF TypeOK
<1>1. TypeOK' BY <1>m DEF TypeOK, Cancellable
<1>2. CancelOK' BY <1>m DEF CancelOK, Cancellable
<1>3. /\ WaveOK' /\ LeaseOK' /\ FreshOK'
      /\ LimboOK' /\ HeadOK'
      /\ RestOK' /\ MergedNeverReruns' /\ VerdictIsFinal'
      /\ RunningIsLeased' /\ DependenciesDelivered'
  BY DEF WaveOK, LeaseOK, ListReady, FreshOK, Fresh, Limbo, HasIntegrated,
     LimboOK, HeadOK, RestOK, MergedNeverReruns, VerdictIsFinal,
     RunningIsLeased, DependenciesDelivered
<1> QED BY <1>1, <1>2, <1>3

\* A workstream is cancelled, or cancelPlan stops at the first that moved on.
LEMMA CancelWorkstreamStep ==
  ASSUME PlanAssumption, PlanInv, NEW w \in Workstreams, CancelWorkstream(w)
  PROVE PlanInv'
<1> USE DEF PlanInv, tables, git, results, canceller, locals, CancelWorkstream
<1>m. CanMove(w, "cancelled") =>
        ws[w] \in {"planned", "blocked", "ready", "running", "integration_pending"}
  BY DEF CanMove, transitions, TypeOK, Status
<1>1. TypeOK' BY <1>m DEF TypeOK, Status, Set
<1>2. WaveOK' BY <1>m DEF WaveOK, TypeOK, Set
<1>3. LeaseOK' BY <1>m DEF LeaseOK, ListReady, Live, Delivered, TypeOK, Set
<1>4. CancelOK' BY <1>m DEF CancelOK, Cancellable, TypeOK, Set
<1>5. FreshOK'
  BY <1>m DEF FreshOK, Fresh, Limbo, HasIntegrated, Untouched, TypeOK, Set
<1>6. LimboOK' BY <1>m DEF LimboOK, Limbo, HasIntegrated, TypeOK, Set
<1>7. HeadOK' BY <1>m DEF HeadOK, Live, Integrating, TypeOK, WaveOK, Set
<1>8. RestOK' BY <1>m DEF RestOK, Limbo, HasIntegrated, VerdictIsFinal
<1>9. MergedNeverReruns' BY <1>m DEF MergedNeverReruns, TypeOK, Set
<1>10. VerdictIsFinal' BY <1>m DEF VerdictIsFinal, TypeOK, Set
<1>11. RunningIsLeased' BY <1>m DEF RunningIsLeased, TypeOK, Set
<1>12. DependenciesDelivered' BY <1>m DEF DependenciesDelivered, TypeOK, Set
<1> QED BY <1>1, <1>2, <1>3, <1>4, <1>5, <1>6, <1>7, <1>8, <1>9, <1>10, <1>11,
    <1>12

\* Leases are taken from plans in which nothing can run any more.
LEMMA CancelLeasesStep ==
  ASSUME PlanAssumption, PlanInv, CancelLeases
  PROVE PlanInv'
<1> USE DEF PlanInv, tables, git, results, canceller, locals, CancelLeases
<1>1. TypeOK' BY DEF TypeOK, Moved
<1>2. LeaseOK' BY DEF LeaseOK, ListReady, Live, TypeOK, CancelOK, Cancellable
<1>3. CancelOK' BY DEF CancelOK, Cancellable
<1>4. RunningIsLeased' BY DEF RunningIsLeased, TypeOK, CancelOK, Cancellable
<1>5. /\ WaveOK' /\ FreshOK' /\ LimboOK'
      /\ HeadOK' /\ RestOK' /\ MergedNeverReruns'
      /\ VerdictIsFinal' /\ DependenciesDelivered'
  BY DEF WaveOK, FreshOK, Fresh, Limbo, HasIntegrated, LimboOK, HeadOK,
     RestOK, MergedNeverReruns, VerdictIsFinal, DependenciesDelivered
<1> QED BY <1>1, <1>2, <1>3, <1>4, <1>5

\* A cancelled plan has nothing left that can run.
LEMMA CancelPlanStep ==
  ASSUME PlanAssumption, PlanInv, CancelPlan
  PROVE PlanInv'
<1> USE DEF PlanInv, tables, git, results, canceller, locals, CancelPlan
<1>1. TypeOK' BY DEF TypeOK, PlanStatus
<1>2. CancelOK' BY DEF CancelOK
<1>3. RestOK' BY DEF RestOK, Limbo, HasIntegrated
<1>4. VerdictIsFinal' BY DEF VerdictIsFinal, CancelOK, Cancellable
<1>5. /\ WaveOK' /\ LeaseOK' /\ FreshOK'
      /\ LimboOK' /\ HeadOK' /\ MergedNeverReruns'
      /\ RunningIsLeased' /\ DependenciesDelivered'
  BY DEF WaveOK, LeaseOK, ListReady, FreshOK, Fresh, Limbo, HasIntegrated,
     LimboOK, HeadOK, MergedNeverReruns, RunningIsLeased,
     DependenciesDelivered
<1> QED BY <1>1, <1>2, <1>3, <1>4, <1>5

-----------------------------------------------------------------------------
(* The theorems.                                                             *)

\* A new plan (savePlan) satisfies the invariant.
LEMMA PlanInit == ASSUME PlanAssumption, Init PROVE PlanInv
<1> USE DEF Init
<1>a. faults \in 0..MaxFaults /\ cancels \in 0..MaxCancels BY DEF PlanAssumption
<1>b. /\ ws \in [Workstreams -> Status]
      /\ lease \in [Workstreams -> SUBSET {"active", "completed", "reclaimable",
                                           "released"}]
      /\ attempts \in [Workstreams -> SUBSET {"started", "integrated", "failed",
                                              "recovered-failed"}]
  BY DEF Status
<1>1. TypeOK BY <1>a, <1>b DEF TypeOK, PlanStatus, Executor
<1>2. WaveOK /\ LeaseOK /\ CancelOK
  BY DEF WaveOK, LeaseOK, CancelOK, Resting, Filling, Holding, Integrating
<1>3. FreshOK /\ LimboOK BY DEF FreshOK, LimboOK, Limbo
<1>4. HeadOK /\ RestOK BY DEF HeadOK, RestOK, Integrating
<1>5. MergedNeverReruns /\ VerdictIsFinal /\ RunningIsLeased
  BY DEF MergedNeverReruns, VerdictIsFinal, RunningIsLeased
<1>6. DependenciesDelivered BY DEF DependenciesDelivered
<1> QED BY <1>1, <1>2, <1>3, <1>4, <1>5, <1>6 DEF PlanInv

\* A step that changes nothing keeps the invariant.
LEMMA PlanStutter == ASSUME PlanInv, UNCHANGED vars PROVE PlanInv'
<1> USE DEF PlanInv, vars, tables, git, locals, results, canceller
<1>1. TypeOK' BY DEF TypeOK
<1>2. WaveOK' BY DEF WaveOK
<1>3. LeaseOK' BY DEF LeaseOK, ListReady
<1>4. CancelOK' /\ FreshOK'
  BY DEF CancelOK, Cancellable, FreshOK, Fresh, Limbo, HasIntegrated
<1>5. LimboOK' /\ HeadOK' BY DEF LimboOK, Limbo, HasIntegrated, HeadOK
<1>6. RestOK' BY DEF RestOK, Limbo, HasIntegrated
<1>7. MergedNeverReruns' /\ VerdictIsFinal' /\ RunningIsLeased'
  BY DEF MergedNeverReruns, VerdictIsFinal, RunningIsLeased
<1>8. DependenciesDelivered' BY DEF DependenciesDelivered
<1> QED BY <1>1, <1>2, <1>3, <1>4, <1>5, <1>6, <1>7, <1>8

\* Every step of the executor, of a recovery, of a cancelling caller and every
\* fault keeps the invariant.
LEMMA PlanStep == ASSUME PlanAssumption, PlanInv, [Next]_vars PROVE PlanInv'
<1>1. CASE WaveStep
  BY <1>1, PlanAssumption, BeginWaveStep, ClaimStep, UnwindDoneStep, AllocateStep, UnwindStep
     DEF WaveStep
<1>2. CASE RunReadyStep
  BY <1>2, PlanAssumption, StartPlanStep, MarkDoneStep, DispatchDoneStep, AwaitDoneStep,
     RecordDoneStep, BlockDoneStep, MarkReadyStep, DispatchStep,
     AgentReturnsStep, RecordOutcomeStep, BlockStep
     DEF RunReadyStep
<1>3. CASE IntegrationStep
  BY <1>3, PlanAssumption, MergeStep, MergeFailsStep, AcknowledgeStep, SetPendingStep,
     SetIntegratedStep, RejectStep, FailStep, IntegrateDoneStep,
     BlockAgainDoneStep, CleanDoneStep, FinishStep, IntegrateStep,
     IntegrateRefusedStep, CleanStep
     DEF IntegrationStep
<1>4. CASE RecoveryStep
  BY <1>4, PlanAssumption, BootStep, AttemptsDoneStep, ReclaimExpiredStep, BootDoneStep,
     RecoverAcknowledgedStep, RecoverMergedStep, RecoverInterruptedStep,
     RequeueStep, ReleaseReclaimedStep
     DEF RecoveryStep
<1>5. CASE CancelStep
  BY <1>5, PlanAssumption, BeginCancelStep, CancelLeasesStep, CancelPlanStep,
     CancelWorkstreamStep
     DEF CancelStep
<1>6. CASE AllocationFails BY <1>6, PlanAssumption, AllocationFailsStep
<1>7. CASE Crash BY <1>7, PlanAssumption, CrashStep
<1>8. CASE UNCHANGED vars BY <1>8, PlanStutter
<1> QED BY <1>1, <1>2, <1>3, <1>4, <1>5, <1>6, <1>7, <1>8 DEF Next, Executes

\* The inductive invariant holds in every reachable state of a plan, whatever
\* dies, fails or is cancelled.
THEOREM PlanInvariant == Spec => []PlanInv
<1>1. Init => PlanInv BY PlanAssumption, PlanInit
<1>2. PlanInv /\ [Next]_vars => PlanInv' BY PlanAssumption, PlanStep
<1> QED BY <1>1, <1>2, PTL DEF Spec

\* Types and the four safety properties of an execution plan: merged work is
\* never dispatched again or failed, verdicts are final, running work keeps its
\* lease and worktree, dependencies stay delivered.
THEOREM PlanSafe ==
  Spec => [](/\ TypeOK /\ MergedNeverReruns /\ VerdictIsFinal
             /\ RunningIsLeased /\ DependenciesDelivered)
<1>1. PlanInv => /\ TypeOK /\ MergedNeverReruns /\ VerdictIsFinal
                 /\ RunningIsLeased /\ DependenciesDelivered
  BY DEF PlanInv
<1> QED BY <1>1, PlanInvariant, PTL

\* The tables, git and the locals of executor and canceller keep their types.
THEOREM PlanTypes == Spec => []TypeOK
<1>1. PlanInv => TypeOK
  BY DEF PlanInv
<1> QED BY <1>1, PlanInvariant, PTL

\* A plan with a verdict holds no work that can still run, and a succeeded one
\* no failure, whatever cancelPlan and the executor commit in between.
THEOREM PlanVerdict == Spec => []VerdictIsFinal
<1>1. PlanInv => VerdictIsFinal
  BY DEF PlanInv
<1> QED BY <1>1, PlanInvariant, PTL

\* Running work keeps its lease and its worktree through cancellations, recoveries
\* and unwinding waves.
THEOREM PlanLeases == Spec => []RunningIsLeased
<1>1. PlanInv => RunningIsLeased
  BY DEF PlanInv
<1> QED BY <1>1, PlanInvariant, PTL

\* Work that was dispatched keeps dependencies that delivered.
THEOREM PlanDependencies == Spec => []DependenciesDelivered
<1>1. PlanInv => DependenciesDelivered
  BY DEF PlanInv
<1> QED BY <1>1, PlanInvariant, PTL

-----------------------------------------------------------------------------
(* Executing a plan implements WorkGraph. *)

\* What is acknowledged, or about to be, git has.
Acked ==
    /\ \A w \in Workstreams : HasIntegrated(w) => w \in head
    /\ pc \in {"acknowledge", "pending", "integrated"} => cur \in head

\* Only a step after the merge, or a recovery that asked git, acknowledges.
LEMMA AckedStep ==
  ASSUME PlanAssumption, PlanInv, Acked, [Next]_vars
  PROVE  Acked'
<1> USE DEF PlanInv, TypeOK, Acked, HasIntegrated, tables, git, results, canceller, locals
<1>1. ASSUME UNCHANGED <<attempts, head>>, pc' \notin {"acknowledge", "pending", "integrated"}
      PROVE  Acked'
  BY <1>1
<1>2. CASE WaveStep \/ AllocationFails \/ Crash
  BY <1>1, <1>2 DEF WaveStep, BeginWave, Claim, UnwindDone, Allocate, Unwind, Throw,
                    AllocationFails, Crash
<1>3. CASE RunReadyStep
  BY <1>1, <1>3 DEF RunReadyStep, StartPlan, MarkDone, DispatchDone, AwaitDone, RecordDone,
       BlockDone, MarkReady, Dispatch, AgentReturns, RecordOutcome, Block, Throw
<1>4. CASE IntegrationStep
  <2>1. CASE \/ Reject \/ Fail \/ IntegrateDone \/ BlockAgainDone \/ CleanDone \/ Finish
             \/ \E w \in Workstreams : IntegrateRefused(w) \/ Clean(w)
    BY <1>1, <2>1 DEF Reject, Fail, IntegrateDone, BlockAgainDone, CleanDone, Finish,
         IntegrateRefused, Clean, Throw
  <2>2. ASSUME NEW w \in Workstreams, Integrate(w) PROVE Acked'
    BY <2>2 DEF Integrate
  <2>c. ASSUME pc \in Integrating PROVE cur \in Workstreams
    BY <2>c DEF WaveOK
  <2>3. CASE Merge
    BY <2>3 DEF Merge
  <2>4. CASE MergeFails
    BY <2>4, <2>c DEF MergeFails, Integrating
  <2>5. CASE Acknowledge
    BY <2>5, <2>c DEF Acknowledge, Integrating
  <2>6. CASE SetPending
    BY <2>6, <2>c DEF SetPending, IntegrateMove, Integrating
  <2>7. CASE SetIntegrated
    BY <2>7, <2>c DEF SetIntegrated, IntegrateMove, Integrating
  <2> QED BY <1>4, <2>1, <2>2, <2>3, <2>4, <2>5, <2>6, <2>7 DEF IntegrationStep
<1>5. CASE RecoveryStep
  <2>1. CASE \/ Boot \/ AttemptsDone \/ ReclaimExpired \/ BootDone
             \/ \E w \in Workstreams : \/ RecoverAcknowledged(w) \/ Requeue(w)
                                       \/ ReleaseReclaimed(w)
    BY <1>1, <2>1 DEF Boot, AttemptsDone, ReclaimExpired, BootDone, RecoverAcknowledged,
         Requeue, ReleaseReclaimed
  <2>2. ASSUME NEW w \in Workstreams, RecoverMerged(w) \/ RecoverInterrupted(w)
        PROVE  Acked'
    BY <2>2 DEF RecoverMerged, RecoverInterrupted
  <2> QED BY <1>5, <2>1, <2>2 DEF RecoveryStep
<1>6. CASE CancelStep
  BY <1>6 DEF CancelStep, BeginCancel, CancelLeases, CancelPlan, CancelWorkstream
<1>7. CASE UNCHANGED vars
  BY <1>7 DEF vars
<1> QED BY <1>2, <1>3, <1>4, <1>5, <1>6, <1>7 DEF Next, Executes

\* The graph's view of the tables.
Stages == [w \in Workstreams |-> Stage(ws[w])]
Mapped == Graph!Next \/ UNCHANGED <<Stages, head, Verdict>>

\* A transition of one workstream is a move of one job.
LEMMA StageMoves ==
  ASSUME PlanInv, NEW w \in Workstreams, NEW to, Set(w, to), UNCHANGED <<head, plan>>
  PROVE  Graph!Move(w, Stage(to))
<1>1. Stages' = [Stages EXCEPT ![w] = Stage(to)]
  BY DEF Set, Stages, PlanInv, TypeOK
<1> QED
  BY <1>1 DEF Stages, Graph!Move, Verdict

\* A transition within a stage is invisible.
LEMMA StageStays ==
  ASSUME PlanInv, NEW w \in Workstreams, NEW to, Set(w, to), UNCHANGED <<head, plan>>,
         Stage(to) = Stage(ws[w])
  PROVE  Mapped
<1>1. Stages' = Stages
  BY DEF Set, Stages, PlanInv, TypeOK
<1> QED
  BY <1>1 DEF Mapped, Verdict

\* A step that writes no status is invisible.
LEMMA NoStage == ASSUME UNCHANGED <<ws, head, plan>> PROVE Mapped
BY DEF Mapped, Stages, Verdict

\* What the stages say of the statuses they stand for.
LEMMA StageFacts ==
  ASSUME PlanInv, NEW w \in Workstreams
  PROVE  /\ Stage("planned") = "waiting" /\ Stage("ready") = "started"
         /\ Stage("running") = "started" /\ Stage("succeeded") = "done"
         /\ Stage("integration_pending") = "deciding"
         /\ Stage("integrated") = "integrated" /\ Stage("failed") = "failed"
         /\ Stage("blocked") = "blocked" /\ Stage("cancelled") = "cancelled"
         /\ Graph!Delivered(w) <=> ws[w] \in Delivered
         /\ Graph!Lost(w) <=> Unavailable(w)
         /\ Graph!Over(w) <=> ws[w] \notin Live
         /\ Fresh(w) => Graph!Unused(w)
<1>1. ws \in [Workstreams -> Status]
  BY DEF PlanInv, TypeOK
<1>2. /\ Graph!Delivered(w) <=> ws[w] \in Delivered
      /\ Graph!Lost(w) <=> Unavailable(w)
      /\ Graph!Over(w) <=> ws[w] \notin Live
  BY <1>1 DEF Graph!Delivered, Graph!Lost, Graph!Over, Stage, Status, Delivered, Live,
              Unavailable
<1>3. Fresh(w) => Graph!Unused(w)
  BY <1>1 DEF Fresh, Graph!Unused, Untouched, Stage
<1> QED BY <1>2, <1>3 DEF Stage

\* The first mark of a planned workstream begins it, with its dependencies there.
LEMMA MarkReadyMaps ==
  ASSUME PlanInv, NEW w \in Workstreams, MarkReady(w)
  PROVE  Mapped
<1>1. CASE ~CanMove(w, "ready")
  BY <1>1, NoStage DEF MarkReady, git
<1>2. CASE CanMove(w, "ready")
  <2>1. Set(w, "ready") /\ UNCHANGED <<head, plan>> /\ ws[w] = "planned"
    BY <1>2 DEF MarkReady, git, PlanInv, WaveOK, CanMove, transitions
  <2>2. \A d \in DependsOn[w] : d \in Workstreams /\ ws[d] \in Delivered
    BY PlanAssumption DEF MarkReady, PlanInv, LeaseOK
  <2>3. Verdict = "open"
    BY <2>1 DEF PlanInv, TypeOK, VerdictIsFinal, PlanStatus, Verdict
  <2>4. Graph!Move(w, "started")
    BY <2>1, StageMoves, StageFacts
  <2>5. \A d \in DependsOn[w] : Graph!Delivered(d)
    BY <2>2, StageFacts
  <2>6. Stage(ws[w]) = "waiting"
    BY <2>1, StageFacts
  <2>7. Graph!Start(w)
    BY <2>3, <2>4, <2>5, <2>6 DEF Graph!Start
  <2> QED BY <2>7 DEF Mapped, Graph!Next
<1> QED BY <1>1, <1>2

\* Dispatching and requeueing move a workstream that has begun.
LEMMA DispatchMaps ==
  ASSUME PlanInv, NEW w \in Workstreams, Dispatch(w) \/ Requeue(w)
  PROVE  Mapped
<1>1. CASE UNCHANGED <<ws, head, plan>>
  BY <1>1, NoStage
<1>2. CASE Dispatch(w) /\ CanMove(w, "running")
  <2>1. Set(w, "running") /\ UNCHANGED <<head, plan>> /\ ws[w] = "ready"
    BY <1>2 DEF Dispatch, git, PlanInv, TypeOK, Status, CanMove, transitions
  <2> QED BY <2>1, StageStays, StageFacts
<1>3. CASE Requeue(w) /\ CanMove(w, "ready")
  <2>1. Set(w, "ready") /\ UNCHANGED <<head, plan>> /\ ws[w] = "running"
    BY <1>3 DEF Requeue, git, PlanInv, WaveOK, CanMove, transitions
  <2> QED BY <2>1, StageStays, StageFacts
<1> QED BY <1>1, <1>2, <1>3 DEF Dispatch, Requeue, git

\* An outcome is recorded of a workstream that has begun.
LEMMA RecordOutcomeMaps ==
  ASSUME PlanInv, NEW w \in Workstreams, RecordOutcome(w)
  PROVE  Mapped
<1>1. CASE ~CanMove(w, Outcome(w))
  BY <1>1, NoStage DEF RecordOutcome, git
<1>2. CASE CanMove(w, Outcome(w))
  <2>1. Set(w, Outcome(w)) /\ UNCHANGED <<head, plan>> /\ ws[w] = "running"
    BY <1>2 DEF RecordOutcome, git, PlanInv, WaveOK, CanMove, transitions
  <2>2. Graph!Move(w, "done") \/ Graph!Move(w, "failed")
    BY <2>1, StageMoves, StageFacts DEF Outcome
  <2>3. Graph!Return(w)
    BY <2>1, <2>2, StageFacts DEF Graph!Return
  <2> QED BY <2>3 DEF Mapped, Graph!Next
<1> QED BY <1>1, <1>2

\* Only a workstream nobody has begun is blocked.
LEMMA BlockMaps ==
  ASSUME PlanInv, NEW w \in Workstreams, Block(w)
  PROVE  Mapped
<1>1. CASE ~CanMove(w, "blocked")
  BY <1>1, NoStage DEF Block, git
<1>2. CASE CanMove(w, "blocked")
  <2>1. Set(w, "blocked") /\ UNCHANGED <<head, plan>> /\ ws[w] = "planned"
    BY <1>2 DEF Block, Stranded, git, CanMove, transitions
  <2>2. \E d \in DependsOn[w] : Graph!Lost(d)
    BY StageFacts, PlanAssumption DEF Block, Stranded
  <2>3. Graph!Block(w)
    BY <2>1, <2>2, StageMoves, StageFacts DEF Graph!Block
  <2> QED BY <2>3 DEF Mapped, Graph!Next
<1> QED BY <1>1, <1>2

\* The three verdicts: finalizePlan, executePlan's last statement, cancelPlan.
LEMMA VerdictMaps ==
  ASSUME PlanInv, BlockDone \/ Finish \/ CancelPlan
  PROVE  Mapped
<1>0. UNCHANGED <<ws, head>>
  BY DEF BlockDone, Finish, CancelPlan, git
<1>1. CASE plan' = plan
  BY <1>0, <1>1, NoStage
<1>2. CASE plan' # plan
  <2>1. plan \in {"planned", "running"} /\ Verdict = "open"
    BY <1>2 DEF BlockDone, Finish, CancelPlan, FinalizePlan, planTransitions, PlanInv,
                TypeOK, PlanStatus, Verdict
  <2>2. \/ /\ plan' = "succeeded" /\ \A w \in Workstreams : ws[w] \in Delivered
        \/ /\ plan' = "failed" /\ \A w \in Workstreams : ws[w] \notin Live
           /\ \E w \in Workstreams : Unavailable(w)
        \/ /\ plan' = "cancelled" /\ \A w \in Workstreams : ws[w] \notin Live
    BY <1>2 DEF BlockDone, Finish, CancelPlan, FinalizePlan, PlanInv, CancelOK, Cancellable,
                Live, Delivered
  <2>3. Verdict' = plan'
    BY <2>2 DEF Verdict
  <2>4. \A w \in Workstreams : ws[w] \in Delivered => ws[w] \notin Live
    BY DEF Delivered, Live
  <2>5. Graph!Conclude
    BY <1>0, <2>1, <2>2, <2>3, <2>4, StageFacts DEF Graph!Conclude
  <2> QED BY <2>5 DEF Mapped, Graph!Next
<1> QED BY <1>1, <1>2

\* git merge, of a branch that is not merged.
LEMMA MergeMaps ==
  ASSUME PlanInv, Merge
  PROVE  Mapped
<1>1. /\ cur \in Workstreams /\ cur \notin head
      /\ ws[cur] \in {"succeeded", "integration_pending", "cancelled"}
  BY DEF Merge, PlanInv, TypeOK, WaveOK, HeadOK, Integrating
<1>2. head' = head \cup {cur} /\ UNCHANGED <<ws, plan>>
  BY DEF Merge, tables
<1>3. Graph!Merge(cur)
  BY <1>1, <1>2, StageFacts DEF Graph!Merge, Verdict
<1> QED BY <1>1, <1>3 DEF Mapped, Graph!Next

\* A pending integration is decided about a result nobody has built on.
LEMMA DecideMaps ==
  ASSUME PlanInv, SetPending \/ Reject
  PROVE  Mapped
<1>1. CASE ws' = ws
  BY <1>1, NoStage DEF SetPending, IntegrateMove, Reject, git
<1>2. CASE ws' # ws
  <2>1. cur \in Workstreams /\ cur \in won /\ pc \in {"pending", "reject"}
    BY DEF SetPending, IntegrateMove, Reject, PlanInv, TypeOK, WaveOK, Integrating
  <2>2. Set(cur, "integration_pending") /\ UNCHANGED <<head, plan>> /\ ws[cur] = "succeeded"
    BY <1>2 DEF SetPending, IntegrateMove, Reject, git, PlanInv, HeadOK, CanMove, transitions
  <2>3. Fresh(cur)
    BY <2>1 DEF PlanInv, FreshOK
  <2>4. Verdict # "succeeded"
    BY <2>1 DEF PlanInv, RestOK, Resting, Verdict
  <2>5. Graph!Decide(cur)
    BY <2>1, <2>2, <2>3, <2>4, StageMoves, StageFacts DEF Graph!Decide
  <2> QED BY <2>1, <2>5 DEF Mapped, Graph!Next
<1> QED BY <1>1, <1>2

\* A rejected integration withdraws a result that is not merged.
LEMMA FailMaps ==
  ASSUME PlanInv, Fail
  PROVE  Mapped
<1>1. CASE ~CanMove(cur, "failed")
  BY <1>1, NoStage DEF Fail, git
<1>2. CASE CanMove(cur, "failed")
  <2>1. cur \in Workstreams /\ cur \in won /\ cur \notin head /\ pc = "fail"
    BY DEF Fail, PlanInv, TypeOK, WaveOK, HeadOK, Integrating
  <2>2. /\ Set(cur, "failed") /\ UNCHANGED <<head, plan>>
        /\ ws[cur] \in {"running", "integration_pending"}
    BY <1>2, <2>1 DEF Fail, git, PlanInv, TypeOK, Status, CanMove, transitions
  <2>3. Fresh(cur)
    BY <2>1 DEF PlanInv, FreshOK
  <2>4. Verdict # "succeeded"
    BY <2>1 DEF PlanInv, RestOK, Resting, Verdict
  <2>5. Graph!Move(cur, "failed")
    BY <2>1, <2>2, StageMoves, StageFacts
  <2>6. Graph!Return(cur) \/ Graph!Withdraw(cur)
    BY <2>1, <2>2, <2>3, <2>4, <2>5, StageFacts DEF Graph!Return, Graph!Withdraw
  <2> QED BY <2>1, <2>6 DEF Mapped, Graph!Next
<1> QED BY <1>1, <1>2

\* Several workstreams git has are reported integrated in one transaction.
LEMMA IntegrateMaps ==
  ASSUME PlanInv, NEW S \in SUBSET Workstreams, UNCHANGED <<head, plan>>,
         \A w \in S : ws[w] \in {"succeeded", "integration_pending"} /\ w \in head,
         ws' = [w \in Workstreams |-> IF w \in S THEN "integrated" ELSE ws[w]]
  PROVE  Mapped
<1>1. Stages' = [w \in Workstreams |-> IF w \in S THEN "integrated" ELSE Stages[w]]
  BY StageFacts DEF Stages
<1>2. \A w \in S : Stages[w] \in {"done", "deciding"}
  BY StageFacts DEF Stages
<1>3. Graph!Integrate(S)
  BY <1>1, <1>2 DEF Graph!Integrate, Stages, Verdict
<1> QED BY <1>3 DEF Mapped, Graph!Next

\* The last step of an integration, for a workstream git has.
LEMMA SetIntegratedMaps ==
  ASSUME PlanInv, Acked, SetIntegrated
  PROVE  Mapped
<1>1. CASE ~CanMove(cur, "integrated")
  BY <1>1, NoStage DEF SetIntegrated, IntegrateMove, git
<1>2. CASE CanMove(cur, "integrated")
  <2>1. /\ cur \in Workstreams /\ cur \in head /\ ws[cur] = "integration_pending"
        /\ Set(cur, "integrated") /\ UNCHANGED <<head, plan>>
    BY <1>2 DEF SetIntegrated, IntegrateMove, git, PlanInv, TypeOK, WaveOK, HeadOK,
                Integrating, Acked, CanMove, transitions
  <2>2. ws' = [w \in Workstreams |-> IF w \in {cur} THEN "integrated" ELSE ws[w]]
    BY <2>1 DEF Set, PlanInv, TypeOK
  <2> QED BY <2>1, <2>2, IntegrateMaps
<1> QED BY <1>1, <1>2

\* A runtime that starts adopts what was acknowledged or what git has, and fails
\* what nobody has built on.
LEMMA RecoveryMaps ==
  ASSUME PlanInv, Acked,
         Boot \/ \E w \in Workstreams : RecoverMerged(w) \/ RecoverInterrupted(w)
  PROVE  Mapped
<1>1. CASE Boot
  <2> DEFINE S == {w \in Workstreams : /\ HasIntegrated(w)
                                       /\ ws[w] \in {"succeeded", "integration_pending"}}
  <2>1. ws' = [w \in Workstreams |-> IF w \in S THEN "integrated" ELSE ws[w]]
    BY <1>1 DEF Boot
  <2>2. \A w \in S : ws[w] \in {"succeeded", "integration_pending"} /\ w \in head
    BY DEF Acked
  <2>3. S \in SUBSET Workstreams /\ UNCHANGED <<head, plan>>
    BY <1>1 DEF Boot, git
  <2> HIDE DEF S
  <2> QED BY <2>1, <2>2, <2>3, IntegrateMaps
<1>2. ASSUME NEW w \in Workstreams, RecoverMerged(w)
      PROVE  Mapped
  <2>1. UNCHANGED <<head, plan>> /\ w \in head
    BY <1>2 DEF RecoverMerged, git
  <2>2. CASE ws[w] \in {"succeeded", "integration_pending"}
    <3>1. ws' = [v \in Workstreams |-> IF v \in {w} THEN "integrated" ELSE ws[v]]
      BY <1>2, <2>2 DEF RecoverMerged, PlanInv, TypeOK
    <3> QED BY <2>1, <2>2, <3>1, IntegrateMaps
  <2>3. CASE ws[w] \notin {"succeeded", "integration_pending"}
    <3>1. ws' = ws
      BY <1>2, <2>3 DEF RecoverMerged, PlanInv, TypeOK
    <3> QED BY <2>1, <3>1, NoStage
  <2> QED BY <2>2, <2>3
<1>3. ASSUME NEW w \in Workstreams, RecoverInterrupted(w)
      PROVE  Mapped
  <2>1. CASE ws' = ws
    BY <1>3, <2>1, NoStage DEF RecoverInterrupted, git
  <2>2. CASE ws' # ws
    <3>1. ws[w] = "succeeded" /\ Set(w, "failed") /\ UNCHANGED <<head, plan>>
      BY <1>3, <2>2 DEF RecoverInterrupted, git, Set, PlanInv, TypeOK
    <3>2. Limbo(w)
      BY <1>3, <3>1 DEF RecoverInterrupted, PlanInv, LimboOK, Limbo
    <3>3. w \notin head /\ Fresh(w)
      BY <1>3, <3>2 DEF RecoverInterrupted, PlanInv, LimboOK, FreshOK
    <3>4. Verdict # "succeeded"
      BY <3>2 DEF PlanInv, RestOK, Verdict
    <3>5. Graph!Withdraw(w)
      BY <3>1, <3>3, <3>4, StageMoves, StageFacts DEF Graph!Withdraw
    <3> QED BY <3>5 DEF Mapped, Graph!Next
  <2> QED BY <2>1, <2>2
<1> QED BY <1>1, <1>2, <1>3

\* cancelPlan cancels what is not delivered.
LEMMA CancelMaps ==
  ASSUME PlanInv, NEW w \in Workstreams, CancelWorkstream(w)
  PROVE  Mapped
<1>1. CASE ~CanMove(w, "cancelled")
  BY <1>1, NoStage DEF CancelWorkstream, git
<1>2. CASE CanMove(w, "cancelled")
  <2>1. /\ Set(w, "cancelled") /\ UNCHANGED <<head, plan>>
        /\ ws[w] \in {"planned", "blocked", "ready", "running", "integration_pending"}
    BY <1>2 DEF CancelWorkstream, git, PlanInv, TypeOK, Status, CanMove, transitions
  <2>2. Graph!Cancel(w)
    BY <2>1, StageMoves, StageFacts DEF Graph!Cancel
  <2> QED BY <2>2 DEF Mapped, Graph!Next
<1> QED BY <1>1, <1>2

\* Starting the plan is not a verdict.
LEMMA StartPlanMaps ==
  ASSUME StartPlan
  PROVE  Mapped
<1>1. Verdict' = Verdict
  BY DEF StartPlan, Verdict
<1> QED BY <1>1 DEF StartPlan, git, Mapped, Stages

\* Every step of the plan's execution is a step of the graph, or invisible in it.
LEMMA MappedStep ==
  ASSUME PlanInv, Acked, [Next]_vars
  PROVE  Mapped
<1> USE DEF tables, git
<1>1. CASE WaveStep \/ AllocationFails \/ Crash
  BY <1>1, NoStage DEF WaveStep, BeginWave, Claim, UnwindDone, Allocate, Unwind,
                       AllocationFails, Crash
<1>2. CASE RunReadyStep
  <2>1. CASE \/ MarkDone \/ DispatchDone \/ AwaitDone \/ RecordDone
             \/ \E w \in Workstreams : AgentReturns(w)
    BY <2>1, NoStage DEF MarkDone, DispatchDone, AwaitDone, RecordDone, AgentReturns
  <2> QED
    BY <1>2, <2>1, StartPlanMaps, VerdictMaps, MarkReadyMaps, DispatchMaps, RecordOutcomeMaps,
       BlockMaps DEF RunReadyStep
<1>3. CASE IntegrationStep
  <2>1. CASE \/ MergeFails \/ Acknowledge \/ IntegrateDone \/ BlockAgainDone \/ CleanDone
             \/ \E w \in Workstreams : Integrate(w) \/ IntegrateRefused(w) \/ Clean(w)
    BY <2>1, NoStage DEF MergeFails, Acknowledge, IntegrateDone, BlockAgainDone, CleanDone,
                         Integrate, IntegrateRefused, Clean
  <2> QED
    BY <1>3, <2>1, MergeMaps, DecideMaps, SetIntegratedMaps, FailMaps, VerdictMaps
    DEF IntegrationStep
<1>4. CASE RecoveryStep
  <2>1. CASE \/ AttemptsDone \/ ReclaimExpired \/ BootDone
             \/ \E w \in Workstreams : RecoverAcknowledged(w) \/ ReleaseReclaimed(w)
    BY <2>1, NoStage DEF AttemptsDone, ReclaimExpired, BootDone, RecoverAcknowledged,
                         ReleaseReclaimed
  <2> QED
    BY <1>4, <2>1, RecoveryMaps, DispatchMaps DEF RecoveryStep
<1>5. CASE CancelStep
  <2>1. CASE BeginCancel \/ CancelLeases
    BY <2>1, NoStage DEF BeginCancel, CancelLeases
  <2> QED
    BY <1>5, <2>1, VerdictMaps, CancelMaps DEF CancelStep
<1>6. CASE UNCHANGED vars
  BY <1>6, NoStage DEF vars
<1> QED BY <1>1, <1>2, <1>3, <1>4, <1>5, <1>6 DEF Next, Executes

\* Executing a plan implements the dependency graph of WorkGraph, for any set of
\* workstreams, dependencies, deaths and cancellations: waves, leases, agents and
\* recoveries are invisible in the tables, whose every change is a job beginning
\* after its dependencies, returning, being merged, integrated, withdrawn while
\* nobody uses it, blocked or cancelled, or the plan's one verdict.
THEOREM PlanImplementsGraph == Spec => ImplementsGraph
<1>1. Init => Graph!Init /\ Acked
  <2>1. Init => Stages = [w \in Workstreams |-> "waiting"] /\ Verdict = "open"
    BY DEF Init, Stages, Stage, Verdict
  <2> QED
    BY <2>1 DEF Init, Graph!Init, Acked, HasIntegrated, Stages
<1>2. PlanInv /\ Acked /\ [Next]_vars => Acked'
  BY AckedStep, PlanAssumption
<1>3. PlanInv /\ Acked /\ [Next]_vars => [Graph!Next]_(Graph!vars)
  BY MappedStep DEF Mapped, Graph!vars, Stages
<1> QED
  BY <1>1, <1>2, <1>3, PlanInvariant, PTL DEF Spec, ImplementsGraph, Graph!Spec

=============================================================================
