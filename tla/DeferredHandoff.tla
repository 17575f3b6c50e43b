--------------------------- MODULE DeferredHandoff --------------------------
(***************************************************************************)
(* The goals a user gave while the children of the old run were still      *)
(* stopping: rows of deferred_replacements, the drains that resume them,   *)
(* and the rows of continuation_dispatches that guard the native prompt.   *)
(*                                                                         *)
(* Goals of the session are numbered in the order in which they were       *)
(* saved.  A drain is interrupted where it awaits the replacement run and  *)
(* the reply to promptAsync, and the process may die between any two of    *)
(* its database writes; a FAST_DIRECT goal has no run to wait for, and the *)
(* step between claim and handoff is there for the second reason only.     *)
(***************************************************************************)
EXTENDS Naturals

CONSTANTS
    MaxGoals,   \* bound on deferred goals
    MaxTurns,   \* bound on user turns
    MaxStarts,  \* bound on starts of a runtime on this database
    Drains,     \* concurrent drainSafeDeferredReplacements calls
    None

MaxAttempts == 2
Goals == 1 .. MaxGoals

Statuses == {"pending_termination", "resuming", "handoff_pending",
             "handoff_outcome_unknown", "resumed", "superseded", "blocked",
             "cancelled"}
DispatchStatuses == {"pending", "dispatched", "failed", "blocked", "outcome_unknown"}
DispatchRow == [st : DispatchStatuses, n : Nat, turn : Nat]

ASSUME HandoffAssumption ==
    /\ MaxGoals \in Nat /\ MaxTurns \in Nat /\ MaxStarts \in Nat
    /\ None \notin Statuses \cup DispatchStatuses
    /\ None \notin DispatchRow \cup Goals

VARIABLES
    n,            \* goals saved so far
    stat,         \* deferred_replacements.status
    class,        \* execution class of the routing decision
    hasRun,       \* goals whose replacement run exists
    disp,         \* continuation_dispatches row of each goal
    turn,         \* user_turn_version of the session
    childPending, \* currentTerminationPending of the old run
    drain,        \* where each drain stands
    sent,         \* external: prompts sent for each goal
    reported,     \* prompts whose failure was reported to their sender
    acked,        \* goals with a prompt that was reported accepted
    starts

rows == <<n, stat, class, hasRun, disp, turn>>
history == <<sent, reported, acked>>
vars == <<n, stat, class, hasRun, disp, turn, childPending, drain, sent,
          reported, acked, starts>>

-----------------------------------------------------------------------------
(* Conditional updates of a deferred_replacements row. *)

ActiveRows == {"pending_termination", "resuming", "handoff_pending",
               "handoff_outcome_unknown", "blocked"}
Revoked == {"cancelled", "superseded", "blocked"}

\* UPDATE ... SET status = to WHERE id = d AND status IN from, on the rows s.
Move(s, d, from, to) == IF s[d] \in from THEN [s EXCEPT ![d] = to] ELSE s

Claimable == {"pending_termination", "handoff_pending"}

\* Seeded fault: the handoff marks look at no status.
InHandoffAny == Statuses

InHandoff == {"resuming", "handoff_pending"}

\* A dispatch row that ends the retries of a goal.
Exhausted(d) ==
    disp[d] # None /\ (disp[d].st = "blocked"
                        \/ (disp[d].st = "failed" /\ disp[d].n >= MaxAttempts))

\* listPendingReadyForResume.
Ready(d) ==
    \/ stat[d] = "pending_termination"
    \/ /\ stat[d] = "handoff_pending"
       /\ ~Exhausted(d)
       /\ disp[d] = None \/ disp[d].st # "outcome_unknown"

-----------------------------------------------------------------------------
(* The user and the old run. *)

NextTurn == turn < MaxTurns /\ turn' = turn + 1

\* Seeded fault: a goal that is being resumed is not superseded.
SupersededUnlessResuming ==
    [d \in Goals |-> IF stat[d] \in ActiveRows \ {"resuming"}
                     THEN "superseded" ELSE stat[d]]

\* The first statement of savePending.
Superseded ==
    [d \in Goals |-> IF stat[d] \in ActiveRows THEN "superseded" ELSE stat[d]]

\* savePending: the first goal comes from the barrier, with children that are
\* not confirmed stopped; a later one modifies or replaces the current one.
SavePending(cl) ==
    /\ n < MaxGoals
    /\ IF n = 0 THEN childPending ELSE stat[n] \in ActiveRows
    /\ NextTurn
    /\ n' = n + 1
    /\ stat' = [Superseded EXCEPT ![n + 1] = "pending_termination"]
    /\ class' = [class EXCEPT ![n + 1] = cl]
    /\ UNCHANGED <<hasRun, disp, childPending, drain, history, starts>>

\* A CANCEL message: cancelCurrentForSession.
CancelCurrent ==
    /\ NextTurn
    /\ stat' = [d \in Goals |-> IF stat[d] \in ActiveRows THEN "cancelled" ELSE stat[d]]
    /\ UNCHANGED <<n, class, hasRun, disp, childPending, drain, history, starts>>

\* A message that leaves the deferred goal alone still is a user turn.
Chat ==
    /\ NextTurn
    /\ UNCHANGED <<n, stat, class, hasRun, disp, childPending, drain, history, starts>>

\* The last child of the old run is confirmed stopped.
ChildStops ==
    /\ childPending
    /\ childPending' = FALSE
    /\ UNCHANGED <<rows, drain, history, starts>>

-----------------------------------------------------------------------------
(* ContinuationDispatcher.dispatch up to the native call. *)

\* isCompatibleDurableClaim: of the fields compared, only the turn can differ
\* for the same goal.
Compatible(d, t) == disp[d] # None /\ disp[d].turn = t

\* The row can be claimed: inserted, or failed with an attempt left.
ClaimableRow(d, t) ==
    \/ disp[d] = None
    \/ Compatible(d, t) /\ disp[d].st = "failed" /\ disp[d].n < MaxAttempts

\* Seeded fault: a retry is not counted.
ClaimedRowUncounted(d, t) ==
    IF disp[d] = None
    THEN [st |-> "pending", n |-> 1, turn |-> t]
    ELSE [disp[d] EXCEPT !.st = "pending"]

\* The row as claimed: a first attempt, or one more.
ClaimedRow(d, t) ==
    IF disp[d] = None
    THEN [st |-> "pending", n |-> 1, turn |-> t]
    ELSE [disp[d] EXCEPT !.st = "pending", !.n = @ + 1]

\* What an existing row answers, and what it becomes.
Refusal(d, t) ==
    CASE ~Compatible(d, t) \/ disp[d].st = "outcome_unknown" -> "unknown"
      [] Compatible(d, t) /\ disp[d].st \in {"dispatched", "pending"} -> "nothing"
      [] OTHER -> "failed"

RefusedRow(d, t) ==
    IF (~Compatible(d, t) /\ disp[d].st # "dispatched") \/ Exhausted(d)
    THEN [disp[d] EXCEPT !.st = "blocked"]
    ELSE disp[d]

Settle(p, d, t, res) ==
    drain' = [drain EXCEPT ![p] = [@ EXCEPT !.pc = "settle", !.goal = d, !.turn = t,
                                            !.res = res]]

\* dispatch for goal d with the turn t read before, on the rows s: the
\* authority check, the claim, and the prompt or a missing promptAsync.
Dispatch(p, d, t, s) ==
    \/ /\ s[d] \notin InHandoff
       /\ Settle(p, d, t, "nothing")
       /\ UNCHANGED <<disp, sent>>
    \/ /\ s[d] \in InHandoff /\ ClaimableRow(d, t)
       /\ \/ /\ disp' = [disp EXCEPT ![d] = ClaimedRow(d, t)]
             /\ sent' = [sent EXCEPT ![d] = @ + 1]
             /\ drain' = [drain EXCEPT ![p] = [@ EXCEPT !.pc = "prompt", !.goal = d,
                                                     !.turn = t]]
          \/ /\ disp' = [disp EXCEPT ![d] = [ClaimedRow(d, t) EXCEPT !.st = "failed"]]
             /\ Settle(p, d, t, "nothing")
             /\ UNCHANGED sent
    \/ /\ s[d] \in InHandoff /\ ~ClaimableRow(d, t)
       /\ disp' = [disp EXCEPT ![d] = RefusedRow(d, t)]
       /\ Settle(p, d, t, Refusal(d, t))
       /\ UNCHANGED sent

-----------------------------------------------------------------------------
(* drainSafeDeferredReplacements and resumeDeferredReplacement. *)

Idle == [pc |-> "idle", todo |-> {}, goal |-> None, turn |-> 0, res |-> "nothing"]

\* At startup, after a child's session.deleted, and on a later user message.
StartDrain(p) ==
    /\ drain[p].pc = "idle"
    /\ drain' = [drain EXCEPT ![p] = [Idle EXCEPT
                    !.pc = "loop",
                    !.todo = {d \in 1 .. n : Ready(d)}]]
    /\ UNCHANGED <<rows, childPending, history, starts>>

\* The oldest goal the drain has still to look at.
Listed(p, d) ==
    /\ drain[p].pc = "loop"
    /\ d \in drain[p].todo
    /\ \A e \in drain[p].todo : d <= e

EndDrain(p) ==
    /\ drain[p].pc = "loop" /\ drain[p].todo = {}
    /\ drain' = [drain EXCEPT ![p] = Idle]
    /\ UNCHANGED <<rows, childPending, history, starts>>

\* The row is not resumed: children are pending, or claimForResume fails.
SkipGoal(p, d) ==
    /\ Listed(p, d)
    /\ childPending \/ stat[d] \notin Claimable
    /\ drain' = [drain EXCEPT ![p] = [drain[p] EXCEPT !.todo = @ \ {d}]]
    /\ UNCHANGED <<rows, childPending, history, starts>>

\* claimForResume; the turn the prompt will carry is read here.
Claim(p, d) ==
    /\ Listed(p, d) /\ ~childPending
    /\ stat[d] \in Claimable
    /\ stat' = [stat EXCEPT ![d] = "resuming"]
    /\ drain' = [drain EXCEPT ![p] = [@ EXCEPT !.pc = "claimed", !.goal = d,
                                               !.turn = turn]]
    /\ UNCHANGED <<n, class, hasRun, disp, turn, childPending, history, starts>>

\* A FAST_DIRECT goal at once, an orchestrated one when its run is there:
\* revoked goals stop here, the others go on to the prompt.
Handoff(p) ==
    LET d == drain[p].goal IN
    /\ drain[p].pc = "claimed"
    /\ hasRun' = IF class[d] = "fast" THEN hasRun ELSE hasRun \cup {d}
    /\ stat' = Move(stat, d, {"resuming", "pending_termination"}, "handoff_pending")
    /\ \/ /\ stat[d] \in Revoked
          /\ Settle(p, d, drain[p].turn, "nothing")
          /\ UNCHANGED <<disp, sent>>
       \/ /\ stat[d] \notin Revoked
          /\ Dispatch(p, d, drain[p].turn, stat')
    /\ UNCHANGED <<n, class, turn, childPending, reported, acked, starts>>

\* syncOrchestrationRun returns null: the row is left as it is.
RunFails(p) ==
    /\ drain[p].pc = "claimed"
    /\ class[drain[p].goal] = "orchestrated" /\ drain[p].goal \notin hasRun
    /\ Settle(p, drain[p].goal, drain[p].turn, "nothing")
    /\ UNCHANGED <<rows, childPending, history, starts>>

\* promptAsync was accepted: dispatched if the row is still pending.
PromptAccepted(p) ==
    LET d == drain[p].goal
        held == disp[d].st = "pending" IN
    /\ drain[p].pc = "prompt"
    /\ acked' = acked \cup {d}
    /\ disp' = IF held THEN [disp EXCEPT ![d].st = "dispatched"] ELSE disp
    /\ Settle(p, d, drain[p].turn, IF held THEN "dispatched" ELSE "unknown")
    /\ UNCHANGED <<n, stat, class, hasRun, turn, childPending, sent, reported, starts>>

\* promptAsync failed or threw: failed, or blocked at the last attempt.
PromptFailed(p) ==
    LET d == drain[p].goal
        held == disp[d].st = "pending" IN
    /\ drain[p].pc = "prompt"
    /\ reported' = [reported EXCEPT ![d] = @ + 1]
    /\ disp' = IF held
               THEN [disp EXCEPT ![d].st =
                        IF disp[d].n >= MaxAttempts THEN "blocked" ELSE "failed"]
               ELSE disp
    /\ Settle(p, d, drain[p].turn, IF held THEN "failed" ELSE "unknown")
    /\ UNCHANGED <<n, stat, class, hasRun, turn, childPending, sent, acked, starts>>

\* Seeded fault: an unknown outcome is taken for a success.
SettledAsResumed(p, s) ==
    LET d == drain[p].goal IN
    CASE drain[p].res \in {"dispatched", "unknown"} -> Move(s, d, InHandoff, "resumed")
      [] drain[p].res = "failed" /\ Exhausted(d) ->
            Move(s, d, Claimable \cup InHandoff, "blocked")
      [] OTHER -> s

\* The rows after markResumed, markHandoffOutcomeUnknown or markBlocked.
Settled(p, s) ==
    LET d == drain[p].goal IN
    CASE drain[p].res = "dispatched" -> Move(s, d, InHandoff, "resumed")
      [] drain[p].res = "unknown" -> Move(s, d, InHandoff, "handoff_outcome_unknown")
      [] drain[p].res = "failed" /\ Exhausted(d) ->
            Move(s, d, Claimable \cup InHandoff, "blocked")
      [] OTHER -> s

\* The answer of dispatch reaches the row, and the drain goes on.
SettleGoal(p) ==
    /\ drain[p].pc = "settle"
    /\ stat' = Settled(p, stat)
    /\ drain' = [drain EXCEPT ![p] = [Idle EXCEPT !.pc = "loop",
                    !.todo = drain[p].todo \ {drain[p].goal}]]
    /\ UNCHANGED <<n, class, hasRun, disp, turn, childPending, history, starts>>

-----------------------------------------------------------------------------
(* Starting a runtime. *)

\* Seeded fault: a prompt under way when the process died is taken as failed.
ReconciledDispatchesFailed ==
    [d \in Goals |-> IF disp[d] # None /\ disp[d].st = "pending"
                     THEN [disp[d] EXCEPT !.st = "failed"] ELSE disp[d]]

\* reconcilePendingDispatches.
ReconciledDispatches ==
    [d \in Goals |-> IF disp[d] # None /\ disp[d].st = "pending"
                     THEN [disp[d] EXCEPT !.st = "outcome_unknown"] ELSE disp[d]]

\* SqliteDeferredReplacementRepository.reconcileAfterRestart for goal d, with
\* its dispatch row r.
ReconciledStatus(d, r) ==
    LET known == r # None /\ (class[d] = "fast" \/ d \in hasRun
                                \/ stat[d] = "handoff_pending")
        answered == known /\ r.st \in {"dispatched", "outcome_unknown"} IN
    CASE stat[d] \notin InHandoff -> stat[d]
      [] stat[d] \in InHandoff /\ answered ->
            IF r.st = "dispatched" THEN "resumed" ELSE "handoff_outcome_unknown"
      [] stat[d] = "handoff_pending" /\ ~answered ->
            IF Exhausted(d) THEN "blocked" ELSE "handoff_pending"
      [] OTHER ->
            IF known /\ r.st = "blocked" /\ class[d] = "orchestrated"
            THEN "blocked" ELSE "pending_termination"

\* A runtime starts on the database: after the death of the other one, or
\* beside it.
StartRuntime(alone) ==
    /\ starts < MaxStarts
    /\ starts' = starts + 1
    /\ disp' = ReconciledDispatches
    /\ stat' = [d \in Goals |-> IF stat[d] = None THEN None
                                ELSE ReconciledStatus(d, disp'[d])]
    /\ drain' = IF alone THEN [p \in Drains |-> Idle] ELSE drain
    /\ UNCHANGED <<n, class, hasRun, turn, childPending, history>>

-----------------------------------------------------------------------------

Init ==
    /\ n = 0
    /\ stat = [d \in Goals |-> None]
    /\ class = [d \in Goals |-> "fast"]
    /\ hasRun = {}
    /\ disp = [d \in Goals |-> None]
    /\ turn = 1
    /\ childPending = TRUE
    /\ drain = [p \in Drains |-> Idle]
    /\ sent = [d \in Goals |-> 0]
    /\ reported = [d \in Goals |-> 0]
    /\ acked = {}
    /\ starts = 0

DrainStep(p) ==
    \/ EndDrain(p)
    \/ \E d \in Goals : SkipGoal(p, d) \/ Claim(p, d)
    \/ Handoff(p) \/ RunFails(p)
    \/ PromptAccepted(p) \/ PromptFailed(p) \/ SettleGoal(p)

Next ==
    \/ \E cl \in {"fast", "orchestrated"} : SavePending(cl)
    \/ CancelCurrent \/ Chat \/ ChildStops
    \/ \E p \in Drains : StartDrain(p) \/ DrainStep(p)
    \/ \E alone \in BOOLEAN : StartRuntime(alone)

Spec == Init /\ [][Next]_vars

-----------------------------------------------------------------------------

DrainState ==
    [pc : {"idle", "loop", "claimed", "prompt", "settle"}, todo : SUBSET Goals,
     goal : Goals \cup {None}, turn : Nat,
     res : {"dispatched", "unknown", "failed", "nothing"}]

TypeOK ==
    /\ n \in 0 .. MaxGoals
    /\ stat \in [Goals -> Statuses \cup {None}]
    /\ class \in [Goals -> {"fast", "orchestrated"}]
    /\ hasRun \in SUBSET Goals
    /\ disp \in [Goals -> DispatchRow \cup {None}]
    /\ turn \in Nat
    /\ childPending \in BOOLEAN
    /\ drain \in [Drains -> DrainState]
    /\ sent \in [Goals -> Nat]
    /\ reported \in [Goals -> Nat]
    /\ acked \in SUBSET Goals
    /\ starts \in Nat

\* A goal is prompted again only after every earlier prompt was reported as
\* failed: neither concurrent drains, nor a user turn in between, nor a crash
\* with a prompt under way, nor a second runtime sends it twice.
OnePromptAtATime == \A d \in Goals : sent[d] <= reported[d] + 1

\* No sequence of drains, failures and restarts prompts a goal more than
\* twice, the maxAttempts of the dispatcher.
AttemptsBounded == \A d \in Goals : sent[d] <= 2

\* A goal recorded as resumed has a prompt that OpenCode accepted, also when
\* it was a restart that recorded it.
ResumedWasPrompted == \A d \in Goals : stat[d] = "resumed" => d \in acked

\* Only the newest goal of the session is prompted, and never after the user
\* withdrew it, however long its run took to create.
NewestGoalOnly ==
    [][\A d \in Goals : sent'[d] # sent[d]
                           => (d = n /\ stat[d] # "cancelled")]_vars

\* A goal that was superseded, withdrawn or resumed stays so, whatever a
\* drain that still holds it finds out.
OutcomeIsFinal ==
    [][\A d \in Goals : stat[d] \in {"superseded", "cancelled", "resumed"}
                           => stat'[d] = stat[d]]_vars

=============================================================================
