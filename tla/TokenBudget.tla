----------------------------- MODULE TokenBudget -----------------------------
(***************************************************************************)
(* The token budget of one run: TokenBudgetController (reservations        *)
(* against the ceiling of the run and of each workstream's session), its   *)
(* durable append-only store and the rebuild from it, the adaptive control *)
(* that hands budget reclaimed by one workstream to another, and the       *)
(* OpenCode executor that reserves before its prompt and reconciles or     *)
(* terminates after it.                                                    *)
(*                                                                         *)
(* Every operation runs under the controller's mutex, or between two       *)
(* awaits of the only executor of the run, and is one step.  The prompt of *)
(* a workstream lies between Reserve and its outcome, the durable event of *)
(* a redistribution after its reservation; the process may die in between. *)
(*                                                                         *)
(* The store's log is kept as what rebuildFromEntries takes from it: the   *)
(* last status written for each reservation, the usage recorded for each   *)
(* message, and the sets of adaptive events.                               *)
(***************************************************************************)
EXTENDS Naturals, FiniteSets, FiniteSetsExt

CONSTANTS
  Workstreams,   \* each has its own session, a child of the run
  Ids,           \* reservation ids
  Messages,      \* message ids of the prompts
  Needs,         \* estimatedInput + maxOutput of a request, after clamping
  Usages,        \* billable totals a provider may report
  RunTotal, ChildTotal,  \* ceilings of the run and of a child session
  StopAt,        \* hardStopThreshold * RunTotal
  MaxRestarts,   \* process deaths explored
  None

ASSUME BudgetAssumption ==
  /\ IsFiniteSet(Workstreams) /\ IsFiniteSet(Ids) /\ IsFiniteSet(Messages)
  /\ Needs \subseteq Nat \ {0} /\ Usages \subseteq Nat
  /\ RunTotal \in Nat /\ ChildTotal \in Nat /\ StopAt \in Nat
  /\ MaxRestarts \in Nat
  /\ None \notin Workstreams \cup Ids \cup Messages \cup {"reserved"}

VARIABLES
  status,      \* controller.reservations[id].status, None when unknown to it
  owner, claimed,      \* the session and the size of a reservation
  reserved, consumed, stopped,       \* controller.run
  sessReserved, sessConsumed, ended, \* controller.agents, one per workstream
  pc, cur,     \* the executor of a workstream and the reservation it holds
  taken,       \* consumedRedistributions of a workstream's budget handle
  fact,        \* the reservation and the unused part of a completed workstream
  half,        \* a redistribution between its reservation and its event
  stored,      \* the store: last status of a reservation,
  usage,       \* usage record of each message,
  reclaim,     \* amounts of the adaptive_reclaim events, by reservation,
  given,       \* source of the adaptive_redistribution event of a reservation,
  adaptive,    \* reservations made by a redistribution,
  terminated,  \* workstream_termination events
  restarts

controller == <<status, reserved, consumed, stopped, sessReserved, sessConsumed, ended>>
store == <<owner, claimed, stored, usage, reclaim, given, adaptive, terminated>>
executor == <<pc, cur, taken, fact, half>>
vars == <<controller, store, executor, restarts>>

Reasons == {"budget_exhausted", "policy_violation", "no_progress"}

TypeOK ==
  /\ status \in [Ids -> {None, "reserved", "committed", "cancelled"}]
  /\ owner \in [Ids -> Workstreams \cup {None}]
  /\ claimed \in [Ids -> Nat]
  /\ reserved \in Nat /\ consumed \in Nat /\ stopped \in BOOLEAN
  /\ sessReserved \in [Workstreams -> Nat]
  /\ sessConsumed \in [Workstreams -> Nat]
  /\ ended \in [Workstreams -> BOOLEAN]
  /\ pc \in [Workstreams -> {"idle", "prompting", "verifying", "done"}]
  /\ cur \in [Workstreams -> Ids \cup {None}]
  /\ taken \in [Workstreams -> SUBSET Ids]
  /\ fact \in [Workstreams -> [id : Ids \cup {None}, unused : Nat]]
  /\ half \in [id : Ids, src : Ids] \cup {None}
  /\ stored \in [Ids -> {None, "reserved", "cancelled"}]
  /\ usage \in [Messages -> [ws : Workstreams \cup {None}, id : Ids \cup {None}, billable : Nat]]
  /\ reclaim \in [Ids -> Nat]
  /\ given \in [Ids -> Ids \cup {None}] /\ adaptive \subseteq Ids
  /\ terminated \subseteq Workstreams \X Reasons
  /\ restarts \in 0 .. MaxRestarts

NoFact == [id |-> None, unused |-> 0]
Unused == [ws |-> None, id |-> None, billable |-> 0]

Init ==
  /\ status = [i \in Ids |-> None] /\ owner = [i \in Ids |-> None]
  /\ claimed = [i \in Ids |-> 0]
  /\ reserved = 0 /\ consumed = 0 /\ stopped = FALSE
  /\ sessReserved = [w \in Workstreams |-> 0]
  /\ sessConsumed = [w \in Workstreams |-> 0]
  /\ ended = [w \in Workstreams |-> FALSE]
  /\ pc = [w \in Workstreams |-> "idle"] /\ cur = [w \in Workstreams |-> None]
  /\ taken = [w \in Workstreams |-> {}] /\ half = None
  /\ fact = [w \in Workstreams |-> NoFact]
  /\ stored = [i \in Ids |-> None] /\ usage = [m \in Messages |-> Unused]
  /\ reclaim = [i \in Ids |-> 0]
  /\ given = [i \in Ids |-> None] /\ adaptive = {} /\ terminated = {}
  /\ restarts = 0

SumOver(f, S) == MapThenSumSet(LAMBDA x : f[x], S)
MonusUnclamped(a, b) == a - b       \* seeded fault: a total may go below zero
Monus(a, b) == IF a > b THEN a - b ELSE 0   \* Math.max(0, a - b)

-----------------------------------------------------------------------------
(* The controller *)

\* seeded fault: open reservations are not counted
RemainingUnclaimed == Monus(RunTotal, consumed)
RemainingRun == Monus(RunTotal, consumed + reserved)

\* seeded fault: a stopped run still grants
AllowedAfterStop(w, n) ==
  /\ ~ended[w]
  /\ n <= RemainingRun
  /\ n + sessConsumed[w] + sessReserved[w] <= ChildTotal

\* reserveRequestSync: what lets a request of size n of session w through
Allowed(w, n) ==
  /\ ~stopped
  /\ ~ended[w]
  /\ n <= RemainingRun
  /\ n + sessConsumed[w] + sessReserved[w] <= ChildTotal

Fresh(i) == owner[i] = None

\* ... and its claim, durable at once
Claim(w, i, n) ==
  /\ reserved' = reserved + n
  /\ sessReserved' = [sessReserved EXCEPT ![w] = @ + n]
  /\ status' = [status EXCEPT ![i] = "reserved"]
  /\ owner' = [owner EXCEPT ![i] = w]
  /\ claimed' = [claimed EXCEPT ![i] = n]
  /\ stored' = [stored EXCEPT ![i] = "reserved"]
  /\ UNCHANGED <<consumed, stopped, sessConsumed, ended>>

\* seeded fault: the run's total keeps what is cancelled
ReleaseSessionOnly(S) ==
  /\ status' = [i \in Ids |-> IF i \in S THEN "cancelled" ELSE status[i]]
  /\ stored' = [i \in Ids |-> IF i \in S THEN "cancelled" ELSE stored[i]]
  /\ reserved' = reserved
  /\ sessReserved' = [w \in Workstreams |->
       Monus(sessReserved[w], SumOver(claimed, {i \in S : owner[i] = w}))]

\* cancelling the reservations in S, each status change made durable
Release(S) ==
  /\ status' = [i \in Ids |-> IF i \in S THEN "cancelled" ELSE status[i]]
  /\ stored' = [i \in Ids |-> IF i \in S THEN "cancelled" ELSE stored[i]]
  /\ reserved' = Monus(reserved, SumOver(claimed, S))
  /\ sessReserved' = [w \in Workstreams |->
       Monus(sessReserved[w], SumOver(claimed, {i \in S : owner[i] = w}))]

Reserved == {i \in Ids : status[i] = "reserved"}
ReservedBy(w) == {i \in Reserved : owner[i] = w}

\* seeded fault: the session ends with its reservations open
CancelSessionOnly(w) ==
  /\ ended' = [ended EXCEPT ![w] = TRUE]
  /\ UNCHANGED <<status, stored, reserved, sessReserved, consumed, stopped, sessConsumed>>

\* cancelSession: a workstream's session has no descendants
CancelSession(w) ==
  /\ ended' = [ended EXCEPT ![w] = TRUE]
  /\ Release(ReservedBy(w))
  /\ UNCHANGED <<consumed, stopped, sessConsumed>>

\* AdaptiveExecutionControl.terminate: idempotent per workstream and reason
Terminate(w, reason) ==
  /\ terminated' = terminated \cup {<<w, reason>>}
  /\ IF <<w, reason>> \in terminated
       THEN UNCHANGED <<controller, stored>>
       ELSE CancelSession(w)
  /\ UNCHANGED <<owner, claimed, usage, reclaim, given, adaptive>>

-----------------------------------------------------------------------------
(* The executor of a workstream *)

\* recoverOrphanedRedistributions runs before the first reservation of a handle:
\* adaptive reservations whose event was never written are cancelled
Given == {i \in Ids : given[i] # None}
Orphans == {i \in Ids \ Given : i \in adaptive /\ status[i] = "reserved"}

RecoverOrphans ==
  /\ half = None /\ Orphans # {} /\ \E w \in Workstreams : pc[w] = "idle"
  /\ Release(Orphans)
  /\ UNCHANGED <<consumed, stopped, sessConsumed, ended, owner, claimed, usage,
                 reclaim, given, adaptive, terminated, executor, restarts>>

Pending(w) == {i \in Given : owner[i] = w /\ i \notin taken[w]}

CanReserve(w) == pc[w] = "idle" /\ half = None /\ Orphans = {}

\* the handle's reserve: a redistribution waiting for w is used instead
ReserveGiven(w) ==
  /\ CanReserve(w)
  /\ \E i \in Pending(w) :
       /\ taken' = [taken EXCEPT ![w] = @ \cup {i}]
       /\ cur' = [cur EXCEPT ![w] = i]
  /\ pc' = [pc EXCEPT ![w] = "prompting"]
  /\ UNCHANGED <<controller, store, fact, half, restarts>>

ReserveNew(w) ==
  /\ CanReserve(w) /\ Pending(w) = {}
  /\ \E n \in Needs, i \in Ids :
       /\ Fresh(i) /\ Allowed(w, n)
       /\ Claim(w, i, n)
       /\ cur' = [cur EXCEPT ![w] = i]
  /\ pc' = [pc EXCEPT ![w] = "prompting"]
  /\ UNCHANGED <<taken, fact, half, usage, reclaim, given, adaptive, terminated, restarts>>

\* a refused reservation terminates the workstream
ReserveRefused(w) ==
  /\ CanReserve(w) /\ Pending(w) = {}
  /\ \E n \in Needs : ~Allowed(w, n)
  /\ Terminate(w, "budget_exhausted")
  /\ pc' = [pc EXCEPT ![w] = "done"]
  /\ UNCHANGED <<cur, taken, fact, half, restarts>>

\* the prompt throws, or is found to make no progress
PromptFails(w, reason) ==
  /\ pc[w] = "prompting" /\ reason \in Reasons \ {"budget_exhausted"}
  /\ Terminate(w, reason)
  /\ pc' = [pc EXCEPT ![w] = "done"] /\ cur' = [cur EXCEPT ![w] = None]
  /\ UNCHANGED <<taken, fact, half, restarts>>

\* commitUsageSync's committedKeys
AnyMessage(m) == TRUE                \* seeded fault: no deduplication
NewMessage(m) == usage[m] = Unused

\* commitUsageSync: release the reservation, charge what was used, stop the run
\* at its limit; reconcileCompletion then records what was reclaimed
Reconcile(w) ==
  LET i == cur[w]
      open == status[i] = "reserved"
      back == IF open THEN {i} ELSE {}
  IN
  /\ pc[w] = "prompting"
  /\ \E m \in Messages, u \in Usages :
       LET stop == ~stopped /\ consumed + u >= StopAt
           rest == IF stop THEN Reserved \ {i} ELSE {}
       IN
       /\ NewMessage(m)
       /\ usage' = [usage EXCEPT ![m] = [ws |-> w, id |-> i, billable |-> u]]
       /\ consumed' = consumed + u
       /\ sessConsumed' = [sessConsumed EXCEPT ![w] = @ + u]
       /\ stopped' = (stopped \/ stop)
       /\ status' = [j \in Ids |-> IF j \in back THEN "committed"
                                   ELSE IF j \in rest THEN "cancelled" ELSE status[j]]
       /\ stored' = [j \in Ids |-> IF j \in rest THEN "cancelled" ELSE stored[j]]
       /\ reserved' = Monus(reserved, SumOver(claimed, back \cup rest))
       /\ sessReserved' = [x \in Workstreams |->
            Monus(sessReserved[x], SumOver(claimed, {j \in back \cup rest : owner[j] = x}))]
       /\ reclaim' = [reclaim EXCEPT ![i] = @ + (IF open THEN Monus(claimed[i], u) ELSE 0)]
       /\ fact' = [fact EXCEPT ![w] = [id |-> i, unused |-> Monus(claimed[i], u)]]
  /\ pc' = [pc EXCEPT ![w] = "verifying"] /\ cur' = [cur EXCEPT ![w] = None]
  /\ UNCHANGED <<ended, owner, claimed, given, adaptive, terminated, taken, half, restarts>>

\* the workstream's verification and integration: a failure terminates its session
Verified(w) ==
  /\ pc[w] = "verifying" /\ pc' = [pc EXCEPT ![w] = "done"]
  /\ UNCHANGED <<controller, store, cur, taken, fact, half, restarts>>

VerificationFails(w) ==
  /\ pc[w] = "verifying" /\ pc' = [pc EXCEPT ![w] = "done"]
  /\ Terminate(w, "policy_violation")
  /\ fact' = [fact EXCEPT ![w] = NoFact]
  /\ UNCHANGED <<cur, taken, half, restarts>>

-----------------------------------------------------------------------------
(* Redistribution between two waves: what the completed x left goes to w *)

Reclaimed == SumOver(reclaim, Ids)
Redistributed == SumOver(claimed, Given)

Redistribute(x, w) ==
  LET i == fact[x].id
      n == fact[x].unused
  IN
  /\ half = None
  /\ \A y \in Workstreams : pc[y] \notin {"prompting", "verifying"}
  /\ pc[x] = "done" /\ pc[w] = "idle" /\ n > 0
  /\ fact' = [fact EXCEPT ![x] = NoFact]
  /\ ~ \E j \in Given : owner[j] = w /\ given[j] = i /\ claimed[j] = n   \* eventId
  /\ reclaim[i] > 0 /\ n <= Monus(Reclaimed, Redistributed)
  /\ Allowed(w, n)
  /\ \E j \in Ids : /\ Fresh(j)
                    /\ Claim(w, j, n)
                    /\ half' = [id |-> j, src |-> i] /\ adaptive' = adaptive \cup {j}
  /\ UNCHANGED <<pc, cur, taken, usage, reclaim, given, terminated, restarts>>

RecordRedistribution ==
  /\ half # None
  /\ given' = [given EXCEPT ![half.id] = half.src] /\ half' = None
  /\ UNCHANGED <<controller, owner, claimed, stored, usage, reclaim, adaptive,
                 terminated, pc, cur, taken, fact, restarts>>

-----------------------------------------------------------------------------
(* Death and restart: the controller is rebuilt from the store *)

Charged(w) == {m \in Messages : usage[m].ws = w}
Billed(S) == SumOver([m \in Messages |-> usage[m].billable], S)
CommittedIds == {usage[m].id : m \in Messages} \ {None}
ActiveIds == {i \in Ids : stored[i] = "reserved"}

\* the rebuilt run total leaves out the reservations that a usage record names,
\* the rebuilt list of reservations does not; nothing is restored for a run
\* with no usage, no reservation and no end
RebuiltReserved == SumOver(claimed, ActiveIds \ CommittedIds)
RebuiltIds ==
  IF Billed(Messages) > 0 \/ RebuiltReserved > 0 \/ stopped THEN ActiveIds ELSE {}

\* the plan's database says which workstreams were interrupted: those whose
\* prompt was under way, and others dispatched before their reservation or with
\* an outcome not yet recorded.  They are requeued as ready, which makes the
\* scheduler refuse every later wave; otherwise the plan goes on with the rest
Restart ==
  /\ restarts < MaxRestarts /\ restarts' = restarts + 1
  /\ consumed' = Billed(Messages)
  /\ reserved' = RebuiltReserved
  /\ status' = [i \in Ids |-> IF i \in RebuiltIds THEN "reserved" ELSE None]
  /\ sessReserved' = [w \in Workstreams |-> SumOver(claimed, {i \in RebuiltIds : owner[i] = w})]
  /\ sessConsumed' = [w \in Workstreams |-> Billed(Charged(w))]
  /\ ended' = [w \in Workstreams |-> FALSE]
  /\ stopped' = stopped          \* the terminal entry is in the store
  /\ \E interrupted \in SUBSET Workstreams :
       /\ {w \in Workstreams : pc[w] = "prompting"} \subseteq interrupted
       /\ pc' = [w \in Workstreams |->
                   IF pc[w] = "idle" /\ interrupted = {} THEN "idle" ELSE "done"]
  /\ cur' = [w \in Workstreams |-> None] /\ taken' = [w \in Workstreams |-> {}]
  /\ fact' = [w \in Workstreams |-> NoFact] /\ half' = None
  /\ UNCHANGED store

Next ==
  \/ \E w \in Workstreams :
       \/ ReserveGiven(w) \/ ReserveNew(w) \/ ReserveRefused(w) \/ Reconcile(w)
       \/ Verified(w) \/ VerificationFails(w)
       \/ \E r \in Reasons : PromptFails(w, r)
       \/ \E x \in Workstreams : Redistribute(x, w)
  \/ RecoverOrphans \/ RecordRedistribution \/ Restart

Spec == Init /\ [][Next]_vars

-----------------------------------------------------------------------------
(* Properties *)

\* What the controller charges to the run and to each session is what the
\* usage records of the store add up to, in every state: a restart, a
\* repeated recovery or a reservation ended by the hard stop neither loses
\* nor doubles a charge.
ConsumedIsDurable ==
  /\ consumed = Billed(Messages)
  /\ \A w \in Workstreams : sessConsumed[w] = Billed(Charged(w))

\* Once the run has hit its hard stop it stays stopped, across restarts too,
\* and no later step hands out a reservation.
StopIsFinal ==
  [][(stopped) => (stopped' /\ owner' = owner)]_vars

\* The totals the ceilings are checked against are exactly the reservations
\* still open: every way a reservation ends gives back what it claimed, once,
\* and so does a rebuild, which reopens reservations that were committed but
\* leaves them out of the run's total.
Accounted ==
  /\ reserved = SumOver(claimed, Reserved \ CommittedIds)
  /\ \A w \in Workstreams : sessReserved[w] = SumOver(claimed, ReservedBy(w))

\* The tokens promised to prompts that are being answered, or waiting for the
\* workstream they were redistributed to.
Promised ==
  SumOver(claimed, {i \in Reserved : \E w \in Workstreams :
                      cur[w] = i \/ (pc[w] = "idle" /\ i \in Pending(w))})

\* A step that hands out a reservation leaves what is spent and promised
\* within the run's ceiling, whichever process hands it out: concurrent agents
\* cannot oversubscribe the same remaining run budget.
GrantsWithinCeiling ==
  [][(owner' # owner) => (consumed' + Promised' <= RunTotal)]_vars

\* A terminated session holds no reservation and gets none until the process
\* restarts; a stopped run holds none but those a rebuild has reopened.
EndedHoldsNothing ==
  /\ \A w \in Workstreams : ended[w] => ReservedBy(w) = {}
  /\ stopped => Reserved \subseteq CommittedIds

\* A reservation is committed or cancelled exactly once: what a usage record
\* settled is not cancelled later, in the controller or in the store.
SettledOnce ==
  [][\A i \in CommittedIds : stored[i] # "cancelled" => stored'[i] # "cancelled"]_vars

=============================================================================
