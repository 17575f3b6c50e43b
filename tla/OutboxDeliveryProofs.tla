------------------------ MODULE OutboxDeliveryProofs ------------------------
(***************************************************************************)
(* Safety of the outbox for any number of workers, rows, worker ids, batch  *)
(* size, lease and retry limit.  The three invariants are not inductive on  *)
(* their own: what matters is what a worker remembers across its awaits, so *)
(* HandOK relates the records a worker has in hand to the history of the    *)
(* row, whoever else has touched the row since.                             *)
(***************************************************************************)
EXTENDS OutboxDelivery, FiniteSetTheorems, TLAPS

\* What the locals of processBatch promise about the row, although the row may
\* have been claimed, delivered or failed by another worker meanwhile.
HandOK ==
    \A w \in Workers :
        /\ pc[w] # "loop" => current[w] \in Entries
        /\ pc[w] = "markDelivered" => published[current[w]] > 0
        /\ pc[w] = "deadLetter" => failures[current[w]] = MaxRetries
        /\ \A e \in Entries : /\ attempt[w][e] < MaxRetries
                              /\ attempt[w][e] <= failures[e]

\* retry_count starts at 0 and never runs ahead of the failures recorded.
RetryCountJustified ==
    \A e \in Entries : /\ retryCount[e] <= failures[e]
                       /\ status[e] = "absent" => retryCount[e] = 0

OutboxInv ==
    /\ TypeOK
    /\ HandOK
    /\ RetryCountJustified
    /\ DeliveredWasPublished
    /\ GivenUpOnlyAfterMaxRetries
    /\ UnsettledIsClaimable

\* The empty outbox satisfies the invariant.
LEMMA InitInv == Init => OutboxInv
  BY SinkAssumption
  DEF Init, OutboxInv, TypeOK, HandOK, RetryCountJustified, DeliveredWasPublished,
      GivenUpOnlyAfterMaxRetries, UnsettledIsClaimable, Statuses, Steps

\* ORDER BY ... LIMIT only filters: what a claim or the for loop picks comes from
\* the rows it picks from.
LEMMA OldestSubset == \A S, n : Oldest(S, n) \subseteq S
  BY DEF Oldest

\* The history counters stay in range and never go down.
LEMMA BumpFacts ==
  ASSUME NEW cap \in Nat, NEW n \in 0..cap
  PROVE  /\ Bump(n, cap) \in 0..cap
         /\ Bump(n, cap) >= n
         /\ n < cap => Bump(n, cap) = n + 1
         /\ cap > 0 => Bump(n, cap) > 0
  BY DEF Bump

\* INSERT of a row (the transactional writers): the new row is unpublished.
LEMMA EnqueueInv ==
  ASSUME OutboxInv, NEW e \in Entries, Enqueue(e)
  PROVE  OutboxInv'
<1>1. created' \in [Entries -> Nat]
  <2>1. Cardinality({f \in Entries : status[f] # "absent"}) \in Nat
    BY SinkAssumption, FS_Subset, FS_CardinalityType
  <2> QED BY <2>1 DEF OutboxInv, TypeOK, Enqueue
<1>2. TypeOK'
  BY <1>1, SinkAssumption
  DEF OutboxInv, TypeOK, Enqueue, audit, worker, budget, history, Statuses
<1>3. (HandOK /\ RetryCountJustified)'
  BY DEF OutboxInv, TypeOK, HandOK, RetryCountJustified, Enqueue, audit, worker, budget,
         history
<1>4. (DeliveredWasPublished /\ GivenUpOnlyAfterMaxRetries)'
  BY DEF OutboxInv, TypeOK, DeliveredWasPublished, GivenUpOnlyAfterMaxRetries, Enqueue,
         audit, worker, budget, history
<1>5. UnsettledIsClaimable'
  BY SinkAssumption DEF OutboxInv, TypeOK, RetryCountJustified, UnsettledIsClaimable,
         Enqueue, audit, worker, budget, history
<1> QED BY <1>2, <1>3, <1>4, <1>5 DEF OutboxInv

\* Time only shortens leases.
LEMMA TickInv ==
  ASSUME OutboxInv, Tick
  PROVE  OutboxInv'
<1> USE SinkAssumption DEF OutboxInv, TypeOK, Tick, audit, worker, budget, history, rows
<1>1. TypeOK'
  BY DEF HandOK, Statuses, Steps
<1>2. HandOK'
  BY DEF HandOK, UnsettledIsClaimable, RetryCountJustified
<1>3. RetryCountJustified'
  BY DEF HandOK, RetryCountJustified
<1>4. DeliveredWasPublished'
  BY DEF HandOK, DeliveredWasPublished
<1>5. GivenUpOnlyAfterMaxRetries'
  BY DEF HandOK, GivenUpOnlyAfterMaxRetries
<1>6. UnsettledIsClaimable'
  BY DEF HandOK, UnsettledIsClaimable
<1> QED BY <1>1, <1>2, <1>3, <1>4, <1>5, <1>6

\* A claim reads rows whose attempts are not used up.
LEMMA ClaimDueInv ==
  ASSUME OutboxInv, NEW w \in Workers, ClaimDue(w)
  PROVE  OutboxInv'
<1> DEFINE picked == Oldest(Due, BatchSize)
           got == Claimed(w, picked)
<1>a. picked \subseteq Due /\ picked \subseteq Entries /\ got \subseteq Entries
  BY OldestSubset DEF Due, Claimed
<1>c. \A f \in got : retryCount[f] < MaxRetries /\ retryCount[f] \in 0..MaxRetries
  <2>1. \A f \in got : status[f] \in {"pending", "delivering"}
    BY <1>a DEF Due, Claimed
  <2> QED BY <1>a, <2>1 DEF OutboxInv, TypeOK, UnsettledIsClaimable
<1>b. /\ WorkerIdOf[w] \in WorkerIds
      /\ WorkerIdOf[w] # None
      /\ LeaseSeconds \in -1..LeaseSeconds
  BY SinkAssumption
<1> HIDE DEF picked, got
<1> USE SinkAssumption DEF OutboxInv, TypeOK, ClaimDue, audit, worker, budget, history, rows
<1>1. TypeOK'
  <2>1. status' \in [Entries -> Statuses]
    BY DEF Statuses, picked
  <2>2. lease' \in [Entries -> WorkerIds \cup {None}]
    BY <1>b DEF picked
  <2>3. ttl' \in [Entries -> -1..LeaseSeconds]
    BY <1>b DEF picked
  <2>4. batch' \in [Workers -> SUBSET Entries]
    BY <1>a DEF picked, got
  <2>5. attempt' \in [Workers -> [Entries -> 0..MaxRetries]]
    OBVIOUS
  <2> QED BY <2>1, <2>2, <2>3, <2>4, <2>5
<1>2. HandOK'
  <2>1. ASSUME NEW v \in Workers, NEW f \in Entries
        PROVE  attempt'[v][f] < MaxRetries /\ attempt'[v][f] <= failures[f]
    <3>1. CASE v = w
      BY <3>1, <1>c DEF got, picked, RetryCountJustified
    <3>2. CASE v # w
      BY <3>2 DEF HandOK
    <3> QED BY <3>1, <3>2
  <2> QED BY <2>1 DEF HandOK
<1>3. RetryCountJustified'
  BY DEF HandOK, RetryCountJustified
<1>4. DeliveredWasPublished'
  BY DEF HandOK, DeliveredWasPublished
<1>5. GivenUpOnlyAfterMaxRetries'
  BY DEF HandOK, GivenUpOnlyAfterMaxRetries
<1>6. UnsettledIsClaimable'
  BY <1>a, <1>b DEF picked, Due, UnsettledIsClaimable
<1> QED BY <1>1, <1>2, <1>3, <1>4, <1>5, <1>6

\* Publishing is what makes a later markDelivered truthful.
LEMMA PublishInv ==
  ASSUME OutboxInv, NEW w \in Workers, Publish(w)
  PROVE  OutboxInv'
<1> USE SinkAssumption DEF OutboxInv, TypeOK, Publish, audit, worker, budget, history, rows
<1> PICK e \in Oldest(batch[w], 1) :
          /\ batch' = [batch EXCEPT ![w] = @ \ {e}]
          /\ current' = [current EXCEPT ![w] = e]
          /\ published' = [published EXCEPT ![e] = Bump(@, 2)]
  OBVIOUS
<1>a. e \in Entries /\ published[e] \in 0..2
  BY OldestSubset
<1>b. /\ Bump(published[e], 2) \in 0..2
      /\ Bump(published[e], 2) > 0
  BY <1>a, BumpFacts
<1>c. \A f \in Entries : published[f] > 0 => published'[f] > 0
  BY <1>a, <1>b
<1>1. TypeOK'
  BY <1>a, <1>b DEF Steps
<1>2. HandOK'
  <2>1. published'[e] > 0
    BY <1>a, <1>b
  <2> QED BY <1>a, <1>c, <2>1 DEF HandOK
<1>3. RetryCountJustified'
  BY DEF HandOK, RetryCountJustified
<1>4. DeliveredWasPublished'
  BY <1>c DEF DeliveredWasPublished
<1>5. GivenUpOnlyAfterMaxRetries'
  BY DEF HandOK, GivenUpOnlyAfterMaxRetries
<1>6. UnsettledIsClaimable'
  BY DEF HandOK, UnsettledIsClaimable
<1> QED BY <1>1, <1>2, <1>3, <1>4, <1>5, <1>6

\* A failed publish only moves the worker to its catch block.
LEMMA PublishThrowsInv ==
  ASSUME OutboxInv, NEW w \in Workers, PublishThrows(w)
  PROVE  OutboxInv'
<1> USE SinkAssumption DEF OutboxInv, TypeOK, PublishThrows, audit, worker, budget, history, rows
<1>1. TypeOK'
  BY OldestSubset DEF Steps
<1>2. HandOK'
  BY OldestSubset DEF HandOK
<1>3. RetryCountJustified'
  BY DEF HandOK, RetryCountJustified
<1>4. DeliveredWasPublished'
  BY DEF HandOK, DeliveredWasPublished
<1>5. GivenUpOnlyAfterMaxRetries'
  BY DEF HandOK, GivenUpOnlyAfterMaxRetries
<1>6. UnsettledIsClaimable'
  BY DEF HandOK, UnsettledIsClaimable
<1> QED BY <1>1, <1>2, <1>3, <1>4, <1>5, <1>6

\* markDelivered acts on a record its worker has published.
LEMMA MarkDeliveredInv ==
  ASSUME OutboxInv, NEW w \in Workers, MarkDelivered(w)
  PROVE  OutboxInv'
<1> USE SinkAssumption DEF OutboxInv, TypeOK, MarkDelivered, audit, worker, budget, history, rows
<1>1. TypeOK'
  BY DEF HandOK, Statuses, Steps
<1>2. HandOK'
  BY DEF HandOK, UnsettledIsClaimable, RetryCountJustified
<1>3. RetryCountJustified'
  BY DEF HandOK, RetryCountJustified
<1>4. DeliveredWasPublished'
  BY DEF HandOK, DeliveredWasPublished
<1>5. GivenUpOnlyAfterMaxRetries'
  BY DEF HandOK, GivenUpOnlyAfterMaxRetries
<1>6. UnsettledIsClaimable'
  BY DEF HandOK, UnsettledIsClaimable
<1> QED BY <1>1, <1>2, <1>3, <1>4, <1>5, <1>6

\* A failing markDelivered changes no row.
LEMMA MarkDeliveredThrowsInv ==
  ASSUME OutboxInv, NEW w \in Workers, MarkDeliveredThrows(w)
  PROVE  OutboxInv'
<1> USE SinkAssumption DEF OutboxInv, TypeOK, MarkDeliveredThrows, Fault, audit, worker, budget, history, rows
<1>1. TypeOK'
  BY DEF HandOK, Statuses, Steps
<1>2. HandOK'
  BY DEF HandOK, UnsettledIsClaimable, RetryCountJustified
<1>3. RetryCountJustified'
  BY DEF HandOK, RetryCountJustified
<1>4. DeliveredWasPublished'
  BY DEF HandOK, DeliveredWasPublished
<1>5. GivenUpOnlyAfterMaxRetries'
  BY DEF HandOK, GivenUpOnlyAfterMaxRetries
<1>6. UnsettledIsClaimable'
  BY DEF HandOK, UnsettledIsClaimable
<1> QED BY <1>1, <1>2, <1>3, <1>4, <1>5, <1>6

\* The audit write touches neither rows nor other workers.
LEMMA RecordDeliveryInv ==
  ASSUME OutboxInv, NEW w \in Workers, RecordDelivery(w)
  PROVE  OutboxInv'
<1> USE SinkAssumption DEF OutboxInv, TypeOK, RecordDelivery, NextRecord, audit, worker, budget, history, rows
<1>0. current[w] \in Entries
  BY DEF HandOK
<1>1. TypeOK'
  <2>1. delivery' \in [Entries -> {"none", "delivered", "dead_letter"}]
    BY <1>0
  <2>2. attempt' \in [Workers -> [Entries -> 0..MaxRetries]]
    BY <1>0
  <2> QED BY <2>1, <2>2 DEF Steps
<1>2. HandOK'
  BY DEF HandOK, UnsettledIsClaimable, RetryCountJustified
<1>3. RetryCountJustified'
  BY DEF HandOK, RetryCountJustified
<1>4. DeliveredWasPublished'
  BY DEF HandOK, DeliveredWasPublished
<1>5. GivenUpOnlyAfterMaxRetries'
  BY DEF HandOK, GivenUpOnlyAfterMaxRetries
<1>6. UnsettledIsClaimable'
  BY DEF HandOK, UnsettledIsClaimable
<1> QED BY <1>1, <1>2, <1>3, <1>4, <1>5, <1>6

\* markFailed writes an attempt count that its worker's claim justifies.
LEMMA MarkFailedInv ==
  ASSUME OutboxInv, NEW w \in Workers, MarkFailed(w)
  PROVE  OutboxInv'
<1> USE SinkAssumption DEF OutboxInv, TypeOK, MarkFailed, Exhausted, NextRecord, Bump, audit, worker, budget, history, rows
<1> DEFINE e == current[w]
           attemptCount == attempt[w][e] + 1
<1>a. e \in Entries /\ attempt[w][e] \in 0..MaxRetries
  BY DEF HandOK
<1>b. attemptCount \in 1..MaxRetries /\ attemptCount <= failures[e] + 1
  BY <1>a DEF HandOK
<1>c. /\ failures'[e] \in 0..MaxRetries
      /\ failures'[e] >= attemptCount
  BY <1>a, <1>b
<1>d. \A f \in Entries : failures'[f] \in 0..MaxRetries /\ failures'[f] >= failures[f]
  BY <1>a
<1>e. \A v \in Workers, f \in Entries :
         attempt'[v][f] = attempt[v][f] \/ attempt'[v][f] = 0
  BY <1>a
<1>f. attempt' \in [Workers -> [Entries -> 0..MaxRetries]]
  <2>1. CASE attempt' = [attempt EXCEPT ![w] = [@ EXCEPT ![current[w]] = 0]]
    <3>1. [attempt[w] EXCEPT ![current[w]] = 0] \in [Entries -> 0..MaxRetries]
      BY <1>a
    <3> QED BY <2>1, <3>1
  <2>2. CASE attempt' = attempt
    BY <2>2
  <2> QED BY <2>1, <2>2
<1> HIDE DEF attemptCount
<1>1. TypeOK'
  <2>1. status' \in [Entries -> Statuses]
    BY DEF Statuses
  <2>2. retryCount' \in [Entries -> 0..MaxRetries]
    BY <1>a, <1>b DEF attemptCount
  <2>3. failures' \in [Entries -> 0..MaxRetries]
    BY <1>d
  <2>4. pc' \in [Workers -> Steps] /\ current' \in [Workers -> Entries \cup {None}]
    BY DEF Steps
  <2>5. batch' \in [Workers -> SUBSET Entries]
    OBVIOUS
  <2> QED BY <2>1, <2>2, <2>3, <2>4, <2>5, <1>f
<1>2. HandOK'
  <2> SUFFICES ASSUME NEW v \in Workers
               PROVE  /\ pc'[v] # "loop" => current'[v] \in Entries
                      /\ pc'[v] = "markDelivered" => published'[current'[v]] > 0
                      /\ pc'[v] = "deadLetter" => failures'[current'[v]] = MaxRetries
                      /\ \A f \in Entries : /\ attempt'[v][f] < MaxRetries
                                            /\ attempt'[v][f] <= failures'[f]
    BY DEF HandOK
  <2>1. \A f \in Entries : attempt'[v][f] < MaxRetries /\ attempt'[v][f] <= failures'[f]
    BY <1>d, <1>e DEF HandOK
  <2>2. CASE v = w
    BY <2>1, <2>2, <1>a, <1>b, <1>c DEF attemptCount
  <2>3. CASE v # w
    BY <2>1, <2>3, <1>d DEF HandOK
  <2> QED BY <2>2, <2>3
<1>3. RetryCountJustified'
  BY <1>a, <1>b, <1>c, <1>d DEF RetryCountJustified, attemptCount
<1>4. DeliveredWasPublished'
  BY DEF HandOK, DeliveredWasPublished
<1>5. GivenUpOnlyAfterMaxRetries'
  BY <1>a, <1>b, <1>c, <1>d DEF GivenUpOnlyAfterMaxRetries, attemptCount
<1>6. UnsettledIsClaimable'
  BY <1>a, <1>b DEF UnsettledIsClaimable, attemptCount
<1> QED BY <1>1, <1>2, <1>3, <1>4, <1>5, <1>6

\* A failing markFailed drops the batch, not the rows.
LEMMA MarkFailedThrowsInv ==
  ASSUME OutboxInv, NEW w \in Workers, MarkFailedThrows(w)
  PROVE  OutboxInv'
<1> USE SinkAssumption DEF OutboxInv, TypeOK, MarkFailedThrows, Fault, DropBatch, audit, worker, budget, history, rows
<1>1. TypeOK'
  BY DEF HandOK, Statuses, Steps
<1>2. HandOK'
  BY DEF HandOK, UnsettledIsClaimable, RetryCountJustified
<1>3. RetryCountJustified'
  BY DEF HandOK, RetryCountJustified
<1>4. DeliveredWasPublished'
  BY DEF HandOK, DeliveredWasPublished
<1>5. GivenUpOnlyAfterMaxRetries'
  BY DEF HandOK, GivenUpOnlyAfterMaxRetries
<1>6. UnsettledIsClaimable'
  BY DEF HandOK, UnsettledIsClaimable
<1> QED BY <1>1, <1>2, <1>3, <1>4, <1>5, <1>6

\* A dead letter is recorded for a row that was just given up.
LEMMA RecordDeadLetterInv ==
  ASSUME OutboxInv, NEW w \in Workers, RecordDeadLetter(w)
  PROVE  OutboxInv'
<1> USE SinkAssumption DEF OutboxInv, TypeOK, RecordDeadLetter, NextRecord, audit, worker, budget, history, rows
<1>1. TypeOK'
  BY DEF HandOK, Statuses, Steps
<1>2. HandOK'
  BY DEF HandOK, UnsettledIsClaimable, RetryCountJustified
<1>3. RetryCountJustified'
  BY DEF HandOK, RetryCountJustified
<1>4. DeliveredWasPublished'
  BY DEF HandOK, DeliveredWasPublished
<1>5. GivenUpOnlyAfterMaxRetries'
  BY DEF HandOK, GivenUpOnlyAfterMaxRetries
<1>6. UnsettledIsClaimable'
  BY DEF HandOK, UnsettledIsClaimable
<1> QED BY <1>1, <1>2, <1>3, <1>4, <1>5, <1>6

\* A crash loses the batch, not the rows.
LEMMA CrashInv ==
  ASSUME OutboxInv, NEW w \in Workers, Crash(w)
  PROVE  OutboxInv'
<1> USE SinkAssumption DEF OutboxInv, TypeOK, Crash, Fault, DropBatch, audit, worker, budget, history, rows
<1>1. TypeOK'
  BY DEF HandOK, Statuses, Steps
<1>2. HandOK'
  BY DEF HandOK, UnsettledIsClaimable, RetryCountJustified
<1>3. RetryCountJustified'
  BY DEF HandOK, RetryCountJustified
<1>4. DeliveredWasPublished'
  BY DEF HandOK, DeliveredWasPublished
<1>5. GivenUpOnlyAfterMaxRetries'
  BY DEF HandOK, GivenUpOnlyAfterMaxRetries
<1>6. UnsettledIsClaimable'
  BY DEF HandOK, UnsettledIsClaimable
<1> QED BY <1>1, <1>2, <1>3, <1>4, <1>5, <1>6

\* Requeueing keeps the attempt count.
LEMMA RequeueExpiredLeasesInv ==
  ASSUME OutboxInv, RequeueExpiredLeases
  PROVE  OutboxInv'
<1> USE SinkAssumption DEF OutboxInv, TypeOK, RequeueExpiredLeases, LeaseExpired, audit, worker, budget, history, rows
<1>1. TypeOK'
  BY DEF HandOK, Statuses, Steps
<1>2. HandOK'
  BY DEF HandOK, UnsettledIsClaimable, RetryCountJustified
<1>3. RetryCountJustified'
  BY DEF HandOK, RetryCountJustified
<1>4. DeliveredWasPublished'
  BY DEF HandOK, DeliveredWasPublished
<1>5. GivenUpOnlyAfterMaxRetries'
  BY DEF HandOK, GivenUpOnlyAfterMaxRetries
<1>6. UnsettledIsClaimable'
  BY DEF HandOK, UnsettledIsClaimable
<1> QED BY <1>1, <1>2, <1>3, <1>4, <1>5, <1>6

\* Every step of the outbox preserves the invariant.
LEMMA StepInv == OutboxInv /\ [Next]_vars => OutboxInv'
<1> SUFFICES ASSUME OutboxInv, [Next]_vars
             PROVE  OutboxInv'
  OBVIOUS
<1>1. CASE \E e \in Entries : Enqueue(e)
  BY <1>1, EnqueueInv
<1>2. CASE Tick
  BY <1>2, TickInv
<1>3. ASSUME NEW w \in Workers, WorkerStep(w)
      PROVE  OutboxInv'
  BY <1>3, ClaimDueInv, PublishInv, PublishThrowsInv, MarkDeliveredInv, RecordDeliveryInv,
     MarkFailedInv, RecordDeadLetterInv DEF WorkerStep
<1>4. ASSUME NEW w \in Workers,
             MarkDeliveredThrows(w) \/ MarkFailedThrows(w) \/ Crash(w)
      PROVE  OutboxInv'
  BY <1>4, MarkDeliveredThrowsInv, MarkFailedThrowsInv, CrashInv
<1>5. CASE RequeueExpiredLeases
  BY <1>5, RequeueExpiredLeasesInv
<1>6. CASE UNCHANGED vars
  BY <1>6
  DEF vars, rows, audit, worker, budget, history, OutboxInv, TypeOK, HandOK,
      RetryCountJustified, DeliveredWasPublished, GivenUpOnlyAfterMaxRetries,
      UnsettledIsClaimable
<1> QED BY <1>1, <1>2, <1>3, <1>4, <1>5, <1>6 DEF Next

\* The inductive invariant holds in every reachable state of the outbox.
THEOREM OutboxInvariant == Spec => []OutboxInv
  BY InitInv, StepInv, PTL DEF Spec

\* However many workers share the sink, and whatever crashes, expires or arrives
\* late: 'delivered' rows were published, rows are given up only after MaxRetries
\* recorded failures, and no unsettled row escapes claimDue.
THEOREM OutboxSafe ==
    Spec => [](TypeOK /\ DeliveredWasPublished /\ GivenUpOnlyAfterMaxRetries
                 /\ UnsettledIsClaimable)
<1>1. OutboxInv => TypeOK /\ DeliveredWasPublished /\ GivenUpOnlyAfterMaxRetries
                     /\ UnsettledIsClaimable
  BY DEF OutboxInv
<1> QED BY <1>1, OutboxInvariant, PTL

\* A row is 'delivered' only if its event reached the bus, for any number of
\* workers that publish late, crash or lose their lease.
THEOREM OutboxDelivered == Spec => []DeliveredWasPublished
<1>1. OutboxInv => DeliveredWasPublished
  BY DEF OutboxInv
<1> QED BY <1>1, OutboxInvariant, PTL

\* No row falls out of claimDue's WHERE clause: unsettled rows have attempts
\* left, and rows under delivery carry the lease that brings them back.
THEOREM OutboxClaimable == Spec => []UnsettledIsClaimable
<1>1. OutboxInv => UnsettledIsClaimable
  BY DEF OutboxInv
<1> QED BY <1>1, OutboxInvariant, PTL

-----------------------------------------------------------------------------
(* The outbox implements EventChannel. *)

\* A worker has in hand only rows that exist.
HandSent ==
    \A w \in Workers : /\ \A e \in batch[w] : status[e] # "absent"
                       /\ pc[w] # "loop" => status[current[w]] # "absent"

\* No transaction of the outbox deletes a row.
LEMMA RowsStay ==
  ASSUME OutboxInv, [Next]_vars, NEW e \in Entries, status[e] # "absent"
  PROVE  status'[e] # "absent"
<1> USE DEF OutboxInv, TypeOK, rows
<1>1. ASSUME NEW f \in Entries, Enqueue(f)
      PROVE  status'[e] # "absent"
  BY <1>1 DEF Enqueue
<1>2. ASSUME NEW w \in Workers, WorkerStep(w)
      PROVE  status'[e] # "absent"
  BY <1>2 DEF WorkerStep, ClaimDue, Publish, PublishThrows, MarkDelivered, RecordDelivery,
              MarkFailed, RecordDeadLetter
<1>3. ASSUME NEW w \in Workers,
             MarkDeliveredThrows(w) \/ MarkFailedThrows(w) \/ Crash(w)
      PROVE  status'[e] # "absent"
  BY <1>3 DEF MarkDeliveredThrows, MarkFailedThrows, Crash
<1>4. CASE Tick \/ RequeueExpiredLeases
  BY <1>4 DEF Tick, RequeueExpiredLeases
<1>5. CASE UNCHANGED vars
  BY <1>5 DEF vars
<1> QED BY <1>1, <1>2, <1>3, <1>4, <1>5 DEF Next

\* What a worker has in hand after a step it had before, or it comes from a claim.
LEMMA HandSentStep ==
  ASSUME OutboxInv, HandSent, [Next]_vars
  PROVE  HandSent'
<1> USE DEF OutboxInv, TypeOK, rows
<1>0. SUFFICES ASSUME NEW v \in Workers
               PROVE  /\ \A e \in batch'[v] : status'[e] # "absent"
                      /\ pc'[v] # "loop" => status'[current'[v]] # "absent"
  BY DEF HandSent
<1>a. \A e \in Entries : status[e] # "absent" => status'[e] # "absent"
  BY RowsStay
<1>b. batch[v] \subseteq Entries /\ (pc[v] # "loop" => current[v] \in Entries)
  BY DEF HandOK
<1>c. ASSUME batch'[v] \subseteq batch[v],
             pc'[v] # "loop" => \/ pc[v] # "loop" /\ current'[v] = current[v]
                                \/ current'[v] \in batch[v]
      PROVE  /\ \A e \in batch'[v] : status'[e] # "absent"
             /\ pc'[v] # "loop" => status'[current'[v]] # "absent"
  BY <1>a, <1>b, <1>c DEF HandSent
<1>1. ASSUME NEW e \in Entries, Enqueue(e)
      PROVE  batch' = batch /\ pc' = pc /\ current' = current
  BY <1>1 DEF Enqueue, worker
<1>2. CASE Tick \/ RequeueExpiredLeases
  BY <1>2, <1>c DEF Tick, RequeueExpiredLeases, worker
<1>3. ASSUME NEW w \in Workers, WorkerStep(w), ~ClaimDue(w)
      PROVE  /\ batch'[v] \subseteq batch[v]
             /\ pc'[v] # "loop" => \/ pc[v] # "loop" /\ current'[v] = current[v]
                                   \/ current'[v] \in batch[v]
  <2>1. CASE Publish(w) \/ PublishThrows(w)
    BY <2>1, OldestSubset DEF Publish, PublishThrows
  <2>2. CASE MarkDelivered(w)
    BY <2>2 DEF MarkDelivered
  <2>3. CASE RecordDelivery(w) \/ RecordDeadLetter(w)
    BY <2>3 DEF RecordDelivery, RecordDeadLetter, NextRecord
  <2>4. CASE MarkFailed(w)
    BY <2>4 DEF MarkFailed, NextRecord
  <2> QED BY <1>3, <2>1, <2>2, <2>3, <2>4 DEF WorkerStep
<1>4. ASSUME NEW w \in Workers, ClaimDue(w)
      PROVE  /\ \A e \in batch'[v] : status'[e] # "absent"
             /\ pc'[v] # "loop" => status'[current'[v]] # "absent"
  <2> DEFINE picked == Oldest(Due, BatchSize)
             got == Claimed(w, picked)
  <2>1. \A e \in got : e \in Entries /\ status[e] # "absent"
    BY OldestSubset DEF Claimed, Due
  <2>2. pc' = pc /\ current' = current /\ batch' = [batch EXCEPT ![w] = got]
    BY <1>4 DEF ClaimDue
  <2> HIDE DEF got
  <2> QED BY <1>a, <1>b, <2>1, <2>2 DEF HandSent
<1>5. ASSUME NEW w \in Workers,
             MarkDeliveredThrows(w) \/ MarkFailedThrows(w) \/ Crash(w)
      PROVE  /\ batch'[v] \subseteq batch[v]
             /\ pc'[v] # "loop" => pc[v] # "loop" /\ current'[v] = current[v]
  BY <1>5 DEF MarkDeliveredThrows, MarkFailedThrows, Crash, DropBatch
<1>6. CASE UNCHANGED vars
  BY <1>6, <1>c DEF vars, worker
<1> QED BY <1>c, <1>1, <1>2, <1>3, <1>4, <1>5, <1>6 DEF Next

\* The channel's view of the rows.
Fates == [e \in Entries |-> Fate(e)]

\* A step that leaves every fate, publication, failure and dead letter alone.
Hidden == \A e \in Entries : Fate(e)' = Fate(e)

\* An update of one row is an update of one fate.
LEMMA FateUpdate ==
  ASSUME NEW e \in Entries, NEW s, OutboxInv, status' = [status EXCEPT ![e] = s]
  PROVE  Fates' = [Fates EXCEPT ![e] = Fate(e)']
<1>1. \A f \in Entries : f # e => Fate(f)' = Fate(f)
  BY DEF OutboxInv, TypeOK, Fate
<1> QED BY <1>1 DEF Fates

\* A step that keeps the fates and the history is invisible to producers.
LEMMA HiddenStep ==
  ASSUME Hidden, UNCHANGED <<published, failures, deadLetters>>
  PROVE  UNCHANGED Channel!vars
BY DEF Hidden, Channel!vars

\* Moving rows between pending and delivering is invisible to producers.
LEMMA OpenStaysOpen ==
  ASSUME OutboxInv,
         \A e \in Entries : \/ status'[e] = status[e]
                            \/ /\ status[e] \in {"pending", "delivering"}
                               /\ status'[e] \in {"pending", "delivering"}
  PROVE  Hidden
BY DEF Hidden, Fate, OutboxInv, TypeOK, Statuses

\* An insert is a Send.
LEMMA EnqueueSends ==
  ASSUME OutboxInv, NEW e \in Entries, Enqueue(e)
  PROVE  Channel!Send(e)
<1>1. Fates' = [Fates EXCEPT ![e] = Fate(e)']
  BY FateUpdate DEF Enqueue
<1>2. Fate(e) = "unsent" /\ Fate(e)' = "open"
  BY DEF Enqueue, Fate, OutboxInv, TypeOK
<1> QED
  BY <1>1, <1>2 DEF Enqueue, audit, history, Fates, Channel!Send

\* A publication reaches the subscribers of a row that was sent.
LEMMA PublishReaches ==
  ASSUME OutboxInv, HandSent, NEW w \in Workers, Publish(w)
  PROVE  \E e \in Entries : Channel!Reach(e)
<1>1. PICK e \in Oldest(batch[w], 1) : published' = [published EXCEPT ![e] = Bump(@, 2)]
  BY DEF Publish
<1>2. e \in Entries /\ status[e] # "absent" /\ published[e] \in 0..2
  BY OldestSubset DEF HandSent, OutboxInv, TypeOK
<1>3. Bump(published[e], 2) = Channel!AtMost(published[e] + 1, 2)
  BY <1>2 DEF Bump, Channel!AtMost
<1>4. Fate(e) # "unsent" /\ Fates' = Fates
  BY <1>2 DEF Fate, Fates, Publish, rows, OutboxInv, TypeOK, Statuses
<1> QED
  BY <1>1, <1>2, <1>3, <1>4 DEF Publish, audit, Fates, Channel!Reach

\* markDelivered acknowledges a row that is open, and leaves every other alone.
LEMMA MarkDeliveredAcknowledges ==
  ASSUME OutboxInv, NEW w \in Workers, MarkDelivered(w)
  PROVE  (\E e \in Entries : Channel!Acknowledge(e)) \/ UNCHANGED Channel!vars
<1> PICK e : e = current[w]
  OBVIOUS
<1>1. e \in Entries /\ published[e] > 0
  BY DEF OutboxInv, HandOK, MarkDelivered
<1>2. UNCHANGED <<published, failures, deadLetters>>
  BY DEF MarkDelivered, audit, history
<1>3. CASE status[e] = "delivering"
  <2>1. status' = [status EXCEPT ![e] = "delivered"]
    BY <1>3, <1>1 DEF MarkDelivered, OutboxInv, TypeOK
  <2>2. Fates' = [Fates EXCEPT ![e] = Fate(e)']
    BY <1>1, <2>1, FateUpdate
  <2>3. Fate(e) = "open" /\ Fate(e)' = "acknowledged"
    BY <1>1, <1>3, <2>1 DEF Fate, OutboxInv, TypeOK
  <2> QED
    BY <1>1, <1>2, <2>2, <2>3 DEF Fates, Channel!Acknowledge
<1>4. CASE status[e] # "delivering"
  <2>1. status' = status
    BY <1>4, <1>1 DEF MarkDelivered, OutboxInv, TypeOK
  <2> QED
    BY <1>2, <2>1, HiddenStep DEF Hidden, Fate
<1> QED
  BY <1>3, <1>4

\* markFailed is a rejection, and one that gives up has Limit failures behind it.
LEMMA MarkFailedRejects ==
  ASSUME OutboxInv, HandSent, NEW w \in Workers, MarkFailed(w)
  PROVE  \E e \in Entries : Channel!Reject(e)
<1> PICK e : e = current[w]
  OBVIOUS
<1> DEFINE spent == Exhausted(attempt[w][e] + 1)
<1>1. /\ e \in Entries /\ status[e] # "absent" /\ failures[e] \in 0..MaxRetries
      /\ attempt[w][e] \in 0..MaxRetries /\ attempt[w][e] <= failures[e]
  BY DEF OutboxInv, TypeOK, HandOK, HandSent, MarkFailed
<1>2. /\ status' = [status EXCEPT ![e] = IF spent THEN "failed" ELSE "pending"]
      /\ failures' = [failures EXCEPT ![e] = Bump(@, MaxRetries)]
      /\ UNCHANGED <<published, deadLetters>>
  BY DEF MarkFailed, audit
<1>3. Bump(failures[e], MaxRetries) = Channel!AtMost(failures[e] + 1, MaxRetries)
  BY <1>1, SinkAssumption DEF Bump, Channel!AtMost
<1>4. Fates' = [Fates EXCEPT ![e] = Fate(e)']
  BY <1>1, <1>2, FateUpdate
<1>5. Fate(e) # "unsent"
  BY <1>1 DEF Fate, OutboxInv, TypeOK, Statuses
<1>6. CASE spent
  <2>1. Fate(e)' = "given up"
    BY <1>1, <1>2, <1>6 DEF Fate, OutboxInv, TypeOK
  <2>2. failures'[e] = MaxRetries
    <3>1. attempt[w][e] + 1 >= MaxRetries
      BY <1>6 DEF Exhausted
    <3>2. Bump(failures[e], MaxRetries) = MaxRetries
      BY <1>1, <3>1, SinkAssumption DEF Bump
    <3> QED
      BY <1>1, <1>2, <3>2 DEF OutboxInv, TypeOK
  <2> QED
    BY <1>1, <1>2, <1>3, <1>4, <1>5, <2>1, <2>2 DEF Fates, Channel!Reject
<1>7. CASE ~spent
  <2>1. Fate(e)' = "open"
    BY <1>1, <1>2, <1>7 DEF Fate, OutboxInv, TypeOK
  <2> QED
    BY <1>1, <1>2, <1>3, <1>4, <1>5, <2>1 DEF Fates, Channel!Reject
<1> QED
  BY <1>6, <1>7

\* A dead letter is written of a row with Limit failures, or the write is lost.
LEMMA DeadLetterBuries ==
  ASSUME OutboxInv, NEW w \in Workers, RecordDeadLetter(w)
  PROVE  (\E e \in Entries : Channel!Bury(e)) \/ UNCHANGED Channel!vars
<1>1. current[w] \in Entries /\ failures[current[w]] = MaxRetries
  BY DEF OutboxInv, HandOK, RecordDeadLetter
<1>2. Fates' = Fates /\ UNCHANGED <<published, failures>>
  BY DEF RecordDeadLetter, rows, history, Fates, Fate
<1>3. deadLetters' = deadLetters \cup {current[w]} \/ deadLetters' = deadLetters
  BY DEF RecordDeadLetter, audit
<1> QED
  BY <1>1, <1>2, <1>3 DEF Fates, Channel!Bury, Channel!vars

\* Every step of the outbox is a step of the channel, or invisible in it.
LEMMA ChannelStep ==
  ASSUME OutboxInv, HandSent, [Next]_vars
  PROVE  [Channel!Next]_(Channel!vars)
<1>1. ASSUME NEW e \in Entries, Enqueue(e)
      PROVE  Channel!Next
  BY <1>1, EnqueueSends DEF Channel!Next
<1>2. ASSUME NEW w \in Workers, Publish(w) \/ MarkFailed(w)
      PROVE  Channel!Next
  BY <1>2, PublishReaches, MarkFailedRejects DEF Channel!Next
<1>3. ASSUME NEW w \in Workers, MarkDelivered(w) \/ RecordDeadLetter(w)
      PROVE  Channel!Next \/ UNCHANGED Channel!vars
  BY <1>3, MarkDeliveredAcknowledges, DeadLetterBuries DEF Channel!Next
<1>4. ASSUME NEW w \in Workers, ClaimDue(w)
      PROVE  UNCHANGED Channel!vars
  <2>1. Oldest(Due, BatchSize) \subseteq Due
    BY OldestSubset
  <2>2. \A e \in Entries : \/ status'[e] = status[e]
                           \/ /\ status[e] \in {"pending", "delivering"}
                              /\ status'[e] \in {"pending", "delivering"}
    BY <1>4, <2>1 DEF ClaimDue, Due
  <2>3. UNCHANGED <<published, failures, deadLetters>>
    BY <1>4 DEF ClaimDue, audit, history
  <2> QED
    BY <2>2, <2>3, OpenStaysOpen, HiddenStep
<1>5. CASE RequeueExpiredLeases
  <2>1. \A e \in Entries : \/ status'[e] = status[e]
                           \/ /\ status[e] \in {"pending", "delivering"}
                              /\ status'[e] \in {"pending", "delivering"}
    BY <1>5 DEF RequeueExpiredLeases
  <2>2. UNCHANGED <<published, failures, deadLetters>>
    BY <1>5 DEF RequeueExpiredLeases, audit, history
  <2> QED
    BY <2>1, <2>2, OpenStaysOpen, HiddenStep
<1>6. ASSUME UNCHANGED <<status, published, failures, deadLetters>>
      PROVE  UNCHANGED Channel!vars
  BY <1>6, HiddenStep DEF Hidden, Fate
<1>7. CASE Tick \/ UNCHANGED vars
  BY <1>6, <1>7 DEF Tick, vars, rows, audit, history
<1>8. ASSUME NEW w \in Workers,
             \/ PublishThrows(w) \/ RecordDelivery(w)
             \/ MarkDeliveredThrows(w) \/ MarkFailedThrows(w) \/ Crash(w)
      PROVE  UNCHANGED Channel!vars
  BY <1>6, <1>8 DEF PublishThrows, RecordDelivery, MarkDeliveredThrows, MarkFailedThrows,
                    Crash, rows, audit, history
<1> QED
  BY <1>1, <1>2, <1>3, <1>4, <1>5, <1>7, <1>8 DEF Next, WorkerStep

\* The outbox implements the at-least-once channel of EventChannel, whatever the
\* number of workers, rows, retries and faults: claims, leases, requeues and
\* crashes are invisible to a producer, and what it sees changes only by a
\* publication, an acknowledgement, a recorded failure or a dead letter.
THEOREM OutboxImplementsChannel == Spec => ImplementsChannel
<1>1. Init => Channel!Init /\ HandSent
  <2>1. Init => Fates = [e \in Entries |-> "unsent"]
    BY DEF Init, Fates, Fate
  <2> QED
    BY <2>1 DEF Init, Channel!Init, HandSent, Fates
<1>2. OutboxInv /\ HandSent /\ [Next]_vars => HandSent'
  BY HandSentStep
<1>3. OutboxInv /\ HandSent /\ [Next]_vars => [Channel!Next]_(Channel!vars)
  BY ChannelStep
<1> QED
  BY <1>1, <1>2, <1>3, OutboxInvariant, PTL DEF Spec, ImplementsChannel, Channel!Spec

=============================================================================
