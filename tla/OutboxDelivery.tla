--------------------------- MODULE OutboxDelivery ---------------------------
(***************************************************************************)
(* The durable outbox: rows of the table event_outbox, the SQLite delivery  *)
(* sink that leases them (sqlite-delivery-sink.ts) and the workers that     *)
(* publish them on the event bus (outbox-worker.ts).                        *)
(*                                                                         *)
(* One step is one SQLite transaction or one call of eventBus.publish:      *)
(* everything the worker does between two awaits.  Workers are separate     *)
(* processes that share the database; inside one process `isProcessing`     *)
(* admits a single batch at a time.  Time is kept as the seconds a lease    *)
(* has left (leaseUntil - now), so no clock grows.                          *)
(***************************************************************************)
EXTENDS Integers, FiniteSets

CONSTANTS
    Workers,      \* processes running an OutboxWorker
    Entries,      \* ids of outbox rows
    WorkerIds,    \* values of OutboxWorkerOptions.workerId
    WorkerIdOf,   \* the worker id each process was configured with
    BatchSize,    \* OutboxWorkerOptions.batchSize
    LeaseSeconds, \* OutboxWorkerOptions.leaseSeconds
    MaxRetries,   \* maxRetries of rowToRecord (3 in the code)
    MaxFaults,    \* bound: crashes and failing transactions in a behaviour
    MaxRequeues,  \* bound: calls of requeueExpiredLeases (src/ has no caller)
    None          \* no lease / no record in hand

ASSUME SinkAssumption ==
    /\ IsFiniteSet(Entries)
    /\ WorkerIdOf \in [Workers -> WorkerIds]
    /\ BatchSize \in Nat \ {0}
    /\ LeaseSeconds \in Nat
    /\ MaxRetries \in Nat \ {0}
    /\ MaxFaults \in Nat
    /\ MaxRequeues \in Nat
    /\ None \notin WorkerIds
    /\ None \notin Entries

VARIABLES
    status,     \* event_outbox.status, "absent" before the row exists
    retryCount, \* event_outbox.retry_count
    lease,      \* workerId of the JSON lease kept in last_error, or None
    ttl,        \* leaseUntil - now of that lease; -1 once it has expired
    created,    \* rank of the row by created_ts; 0 before it exists
    delivery,   \* event_deliveries.status of the row, "none" if absent
    deadLetters,\* entries with a row in dead_letter_events
    pc,         \* where the worker is in processBatch
    batch,      \* claimed records the worker has not started on
    attempt,    \* attemptCount of the records in hand, as read by the claim
    current,    \* the record the worker is processing, or None
    faults,     \* faults so far
    requeues,   \* calls of requeueExpiredLeases so far
    published,  \* history: times the event reached the bus (saturates at 2)
    failures    \* history: failed attempts recorded (saturates at MaxRetries)

rows    == <<status, retryCount, lease, ttl, created>>
audit   == <<delivery, deadLetters>>
worker  == <<pc, batch, attempt, current>>
budget  == <<faults, requeues>>
history == <<published, failures>>
vars    == <<rows, audit, worker, budget, history>>

Statuses == {"absent", "pending", "delivering", "delivered", "failed"}
Steps    == {"loop", "markDelivered", "recordDelivery", "markFailed", "deadLetter"}

TypeOK ==
    /\ status \in [Entries -> Statuses]
    /\ retryCount \in [Entries -> 0..MaxRetries]
    /\ lease \in [Entries -> WorkerIds \cup {None}]
    /\ ttl \in [Entries -> -1..LeaseSeconds]
    /\ created \in [Entries -> Nat]
    /\ delivery \in [Entries -> {"none", "delivered", "dead_letter"}]
    /\ deadLetters \subseteq Entries
    /\ pc \in [Workers -> Steps]
    /\ batch \in [Workers -> SUBSET Entries]
    /\ attempt \in [Workers -> [Entries -> 0..MaxRetries]]
    /\ current \in [Workers -> Entries \cup {None}]
    /\ faults \in 0..MaxFaults
    /\ requeues \in 0..MaxRequeues
    /\ published \in [Entries -> 0..2]
    /\ failures \in [Entries -> 0..MaxRetries]

Init ==
    /\ status = [e \in Entries |-> "absent"]
    /\ retryCount = [e \in Entries |-> 0]
    /\ lease = [e \in Entries |-> None]
    /\ ttl = [e \in Entries |-> -1]
    /\ created = [e \in Entries |-> 0]
    /\ delivery = [e \in Entries |-> "none"]
    /\ deadLetters = {}
    /\ pc = [w \in Workers |-> "loop"]
    /\ batch = [w \in Workers |-> {}]
    /\ attempt = [w \in Workers |-> [e \in Entries |-> 0]]
    /\ current = [w \in Workers |-> None]
    /\ faults = 0
    /\ requeues = 0
    /\ published = [e \in Entries |-> 0]
    /\ failures = [e \in Entries |-> 0]

-----------------------------------------------------------------------------
(* Helpers *)

\* Add one to n, saturating at cap (history counters only).
Bump(n, cap) == IF n < cap THEN n + 1 ELSE n

\* ORDER BY created_ts ASC LIMIT n.
Oldest(S, n) ==
    {e \in S : Cardinality({f \in S : created[f] < created[e]}) < n}

\* json_extract(last_error, '$.leaseUntil') IS NOT NULL AND ... < now.
LeaseExpired(e) == lease[e] # None /\ ttl[e] < 0

\* Seeded fault: the claim's WHERE clause forgets rows whose lease has expired.
DuePendingOnly == {e \in Entries : status[e] = "pending"}

\* The rows claimDue may take.
Due == {e \in Entries :
          \/ status[e] = "pending"
          \/ status[e] = "delivering" /\ LeaseExpired(e)}

\* Rows the claim's SELECT returns: 'delivering' with exactly the claim text
\* { workerId, leaseUntil } that the UPDATE over `picked` has just written.
Claimed(w, picked) ==
    picked \cup {e \in Entries : /\ status[e] = "delivering"
                                 /\ lease[e] = WorkerIdOf[w]
                                 /\ ttl[e] = LeaseSeconds}

\* Seeded faults: the retry limit is off by one, either way.
ExhaustedLate(attemptCount) == attemptCount > MaxRetries
ExhaustedEarly(attemptCount) == attemptCount >= MaxRetries - 1

\* The row has used up its attempts.
Exhausted(attemptCount) == attemptCount >= MaxRetries

\* The worker is done with its current record and returns to the for loop.
NextRecord(w) ==
    /\ pc' = [pc EXCEPT ![w] = "loop"]
    /\ current' = [current EXCEPT ![w] = None]
    /\ attempt' = [attempt EXCEPT ![w] = [@ EXCEPT ![current[w]] = 0]]
    /\ UNCHANGED batch

\* The batch is gone (crash, or an error that leaves processBatch).
DropBatch(w) ==
    /\ pc' = [pc EXCEPT ![w] = "loop"]
    /\ current' = [current EXCEPT ![w] = None]
    /\ batch' = [batch EXCEPT ![w] = {}]
    /\ attempt' = [attempt EXCEPT ![w] = [e \in Entries |-> 0]]

Fault ==
    /\ faults < MaxFaults
    /\ faults' = faults + 1
    /\ UNCHANGED requeues

-----------------------------------------------------------------------------
(* Producers and time *)

\* INSERT INTO event_outbox ... 'pending', 0 of the transactional writers.
Enqueue(e) ==
    /\ status[e] = "absent"
    /\ status' = [status EXCEPT ![e] = "pending"]
    /\ created' = [created EXCEPT
                     ![e] = 1 + Cardinality({f \in Entries : status[f] # "absent"})]
    /\ UNCHANGED <<retryCount, lease, ttl, audit, worker, budget, history>>

\* A second passes.
Tick ==
    /\ \E e \in Entries : ttl[e] >= 0
    /\ ttl' = [e \in Entries |-> IF ttl[e] >= 0 THEN ttl[e] - 1 ELSE -1]
    /\ UNCHANGED <<status, retryCount, lease, created, audit, worker, budget, history>>

-----------------------------------------------------------------------------
(* The worker *)

\* processBatch with no batch in hand: one claimDue transaction.
ClaimDue(w) ==
    LET picked == Oldest(Due, BatchSize)
        got == Claimed(w, picked)
    IN  /\ pc[w] = "loop"
        /\ batch[w] = {}
        /\ got # {}
        /\ status' = [e \in Entries |-> IF e \in picked THEN "delivering" ELSE status[e]]
        /\ lease' = [e \in Entries |-> IF e \in picked THEN WorkerIdOf[w] ELSE lease[e]]
        /\ ttl' = [e \in Entries |-> IF e \in picked THEN LeaseSeconds ELSE ttl[e]]
        /\ batch' = [batch EXCEPT ![w] = got]
        /\ attempt' = [attempt EXCEPT ![w] =
                          [e \in Entries |-> IF e \in got THEN retryCount[e] ELSE 0]]
        /\ UNCHANGED <<retryCount, created, audit, pc, current, budget, history>>

\* Take the next record and publish it; every subscriber handled it.
Publish(w) ==
    /\ pc[w] = "loop"
    /\ \E e \in Oldest(batch[w], 1) :
         /\ batch' = [batch EXCEPT ![w] = @ \ {e}]
         /\ current' = [current EXCEPT ![w] = e]
         /\ published' = [published EXCEPT ![e] = Bump(@, 2)]
    /\ pc' = [pc EXCEPT ![w] = "markDelivered"]
    /\ UNCHANGED <<rows, audit, attempt, budget, failures>>

\* Seeded fault: the rejection is swallowed and the record goes on as delivered.
PublishThrowsSwallowed(w) ==
    /\ pc[w] = "loop"
    /\ \E e \in Oldest(batch[w], 1) :
         /\ batch' = [batch EXCEPT ![w] = @ \ {e}]
         /\ current' = [current EXCEPT ![w] = e]
    /\ pc' = [pc EXCEPT ![w] = "markDelivered"]
    /\ UNCHANGED <<rows, audit, attempt, budget, history>>

\* Take the next record; a subscriber throws, which rejects publish.
PublishThrows(w) ==
    /\ pc[w] = "loop"
    /\ \E e \in Oldest(batch[w], 1) :
         /\ batch' = [batch EXCEPT ![w] = @ \ {e}]
         /\ current' = [current EXCEPT ![w] = e]
    /\ pc' = [pc EXCEPT ![w] = "markFailed"]
    /\ UNCHANGED <<rows, audit, attempt, budget, history>>

\* Seeded fault: the update lost its AND status = 'delivering'.
MarkDeliveredUnguarded(w) ==
    /\ pc[w] = "markDelivered"
    /\ status' = [status EXCEPT ![current[w]] = "delivered"]
    /\ pc' = [pc EXCEPT ![w] = "recordDelivery"]
    /\ UNCHANGED <<retryCount, lease, ttl, created, audit, batch, attempt, current,
                   budget, history>>

\* The guarded update 'delivering' -> 'delivered'; its result is ignored.
MarkDelivered(w) ==
    /\ pc[w] = "markDelivered"
    /\ status' = [status EXCEPT ![current[w]] =
                    IF @ = "delivering" THEN "delivered" ELSE @]
    /\ pc' = [pc EXCEPT ![w] = "recordDelivery"]
    /\ UNCHANGED <<retryCount, lease, ttl, created, audit, batch, attempt, current,
                   budget, history>>

\* The markDelivered transaction fails: the record goes to the catch block.
MarkDeliveredThrows(w) ==
    /\ pc[w] = "markDelivered"
    /\ Fault
    /\ pc' = [pc EXCEPT ![w] = "markFailed"]
    /\ UNCHANGED <<rows, audit, batch, attempt, current, history>>

\* recordDelivery; an error in this audit write is swallowed.
RecordDelivery(w) ==
    /\ pc[w] = "recordDelivery"
    /\ \/ delivery' = [delivery EXCEPT ![current[w]] = "delivered"]
       \/ UNCHANGED delivery
    /\ NextRecord(w)
    /\ UNCHANGED <<rows, deadLetters, budget, history>>

\* markFailed writes the attempt count of the claim, whatever the row now holds.
MarkFailed(w) ==
    LET e == current[w]
        attemptCount == attempt[w][e] + 1
    IN  /\ pc[w] = "markFailed"
        /\ status' = [status EXCEPT
                        ![e] = IF Exhausted(attemptCount) THEN "failed" ELSE "pending"]
        /\ retryCount' = [retryCount EXCEPT ![e] = attemptCount]
        /\ lease' = [lease EXCEPT ![e] = None]
        /\ ttl' = [ttl EXCEPT ![e] = -1]
        /\ failures' = [failures EXCEPT ![e] = Bump(@, MaxRetries)]
        /\ IF Exhausted(attemptCount)
           THEN /\ pc' = [pc EXCEPT ![w] = "deadLetter"]
                /\ UNCHANGED <<batch, attempt, current>>
           ELSE NextRecord(w)
        /\ UNCHANGED <<created, audit, budget, published>>

\* The markFailed transaction fails: the error leaves the for loop, and the
\* records not yet processed stay 'delivering' under their lease.
MarkFailedThrows(w) ==
    /\ pc[w] = "markFailed"
    /\ Fault
    /\ DropBatch(w)
    /\ UNCHANGED <<rows, audit, history>>

\* recordDeadLetter (an error is swallowed), then the outbox.dead_letter notice,
\* whose subscribers' errors are swallowed too.
RecordDeadLetter(w) ==
    /\ pc[w] = "deadLetter"
    /\ \/ /\ deadLetters' = deadLetters \cup {current[w]}
          /\ delivery' = [delivery EXCEPT ![current[w]] = "dead_letter"]
       \/ UNCHANGED audit
    /\ NextRecord(w)
    /\ UNCHANGED <<rows, budget, history>>

\* The process dies and restarts with nothing in memory.
Crash(w) ==
    /\ pc[w] # "loop" \/ batch[w] # {}
    /\ Fault
    /\ DropBatch(w)
    /\ UNCHANGED <<rows, audit, history>>

-----------------------------------------------------------------------------
(* Maintenance *)

\* requeueExpiredLeases: 'delivering' rows with an expired lease become pending.
RequeueExpiredLeases ==
    LET expired == {e \in Entries : status[e] = "delivering" /\ LeaseExpired(e)}
    IN  /\ expired # {}
        /\ requeues < MaxRequeues
        /\ requeues' = requeues + 1
        /\ status' = [e \in Entries |-> IF e \in expired THEN "pending" ELSE status[e]]
        /\ lease' = [e \in Entries |-> IF e \in expired THEN None ELSE lease[e]]
        /\ UNCHANGED <<retryCount, ttl, created, audit, worker, faults, history>>

-----------------------------------------------------------------------------
WorkerStep(w) ==
    \/ ClaimDue(w)
    \/ Publish(w)
    \/ PublishThrows(w)
    \/ MarkDelivered(w)
    \/ RecordDelivery(w)
    \/ MarkFailed(w)
    \/ RecordDeadLetter(w)

Next ==
    \/ \E e \in Entries : Enqueue(e)
    \/ Tick
    \/ \E w \in Workers : WorkerStep(w)
    \/ \E w \in Workers : MarkDeliveredThrows(w)
    \/ \E w \in Workers : MarkFailedThrows(w)
    \/ \E w \in Workers : Crash(w)
    \/ RequeueExpiredLeases

\* Each worker keeps polling (setInterval in start()), a batch keeps running
\* once started, and the clock advances.
Fairness ==
    /\ WF_vars(Tick)
    /\ \A w \in Workers : WF_vars(WorkerStep(w))

Spec == Init /\ [][Next]_vars
FairSpec == Spec /\ Fairness

-----------------------------------------------------------------------------
(* Properties *)

\* A row is 'delivered' only if its event did reach the bus: markDelivered runs
\* after publish, and no crash, lease expiry or late worker can forge it.
DeliveredWasPublished ==
    \A e \in Entries : status[e] = "delivered" => published[e] > 0

\* The sink gives a row up (status 'failed', dead letter recorded) only after
\* MaxRetries failed attempts were recorded: workers that write an attempt count
\* read before others wrote theirs may lower retry_count, never inflate it.
GivenUpOnlyAfterMaxRetries ==
    \A e \in Entries :
        status[e] = "failed" \/ e \in deadLetters => failures[e] = MaxRetries

\* A row that can still be claimed has attempts left, and one that nobody can
\* claim yet is leased: no row is stuck outside claimDue's WHERE clause.
UnsettledIsClaimable ==
    \A e \in Entries :
        /\ status[e] \in {"pending", "delivering"} => retryCount[e] < MaxRetries
        /\ status[e] = "delivering" => lease[e] # None

\* What a producer sees of a row, without leases and workers.
Fate(e) == CASE status[e] = "absent" -> "unsent"
             [] status[e] \in {"pending", "delivering"} -> "open"
             [] status[e] = "delivered" -> "acknowledged"
             [] status[e] = "failed" -> "given up"

Channel == INSTANCE EventChannel WITH
              Events <- Entries, Limit <- MaxRetries, fate <- [e \in Entries |-> Fate(e)],
              reached <- published, buried <- deadLetters

\* The outbox implements the at-least-once channel: claims, leases, expiry,
\* requeues, crashes and failing transactions change nothing a producer sees, an
\* acknowledged event had reached its subscribers, only a recorded failure reopens
\* one, and a late markDelivered never revives a row that was given up.
ImplementsChannel == Channel!Spec

\* Every event that is enqueued is eventually delivered or given up, whichever
\* worker crashes and however late it is.
EveryEntrySettles ==
    \A e \in Entries : status[e] = "pending" ~> status[e] \in {"delivered", "failed"}
=============================================================================
