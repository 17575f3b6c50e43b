---------------------------- MODULE RunLifecycle ----------------------------
(***************************************************************************)
(* One orchestration Run: its task_runs row (phase, aggregate_version), the *)
(* session.idle handlers that evaluate it (RunTransitionEngine.evaluate),   *)
(* verify it (runLiveVerification, VerificationService) and complete it     *)
(* (CompletionPolicy), and the callers of the run API (RunService.updateRun *)
(* and cancelRun), all interleaved at the awaits and transactions of the    *)
(* code.                                                                    *)
(*                                                                         *)
(* What the snapshot service reads of the other components is kept as four  *)
(* small summaries (work, child, marks, attempt) that their owners change   *)
(* at any moment.  The state fingerprint is the record of everything that   *)
(* computeStateFingerprint hashes; equal fingerprints mean equal records.   *)
(***************************************************************************)
EXTENDS Integers

CONSTANTS
    Handlers,    \* concurrent onSessionIdle invocations
    Callers,     \* concurrent callers of the run API
    TargetSha,   \* current_sha ?? baseline_sha of the run
    Placeholder, \* the all-zero SHA
    None,        \* an unset local variable
    MaxVersion,  \* bound: aggregate_version
    MaxChanges,  \* bound: changes made by the other components
    MaxFaults    \* bound: handlers that die half way

ASSUME RunAssumption ==
    /\ MaxVersion \in Nat
    /\ MaxChanges \in Nat
    /\ MaxFaults \in Nat

Phases == {"created", "planning", "analysing", "delegating", "executing",
           "verifying", "recovering", "completed", "failed", "cancelled"}
TerminalPhases == {"completed", "failed", "cancelled"}

LegalPhaseTransitions ==
    [created    |-> {"planning", "analysing", "executing", "cancelled", "failed"},
     planning   |-> {"analysing", "delegating", "executing", "cancelled", "failed"},
     analysing  |-> {"delegating", "executing", "planning", "cancelled", "failed"},
     delegating |-> {"executing", "recovering", "cancelled", "failed"},
     executing  |-> {"verifying", "delegating", "recovering", "completed", "failed",
                     "cancelled"},
     verifying  |-> {"executing", "recovering", "completed", "failed", "cancelled"},
     recovering |-> {"executing", "delegating", "planning", "failed", "cancelled"},
     completed  |-> {},
     failed     |-> {},
     cancelled  |-> {}]

isValidPhaseTransition(from, to) == from = to \/ to \in LegalPhaseTransitions[from]

(* Required work items: some unsatisfied (or none exist), all completed without
   test evidence, all completed with evidence, one failed.                   *)
Works == {"open", "done", "evidenced", "failed"}

(* Required native children: none active or failed, one active, one failed. *)
Children == {"quiet", "active", "failed"}

(* Facts the decisions depend on.  barrier: an unconfirmed cancellation or an
   unresolved deferred replacement; delta: the last observation changed the
   repository; stalled: the observed stall verdict; exhausted: the strategy
   constraint set of the target item is exhausted for the present state;
   consumed: the progress of the last attempt was acted on.                   *)
Marks == {"barrier", "delta", "stalled", "exhausted", "consumed"}

(* Last attempt on the target work item: none, without progress, with progress. *)
Attempts == {"none", "fruitless", "progress"}

(* Why the engine asks for a transition, and the phase it asks for. *)
Reasons == {"failure", "stall", "progress", "ready", "verdict"}
Target ==
    [failure |-> "recovering", stall |-> "recovering", progress |-> "executing",
     ready |-> "verifying", verdict |-> "recovering"]

VARIABLES
    phase, version,                    \* task_runs.state, aggregate_version
    work, child, marks, attempt,       \* what the snapshot reads elsewhere
    requested, passed, failed, stale,  \* verification_results, by fingerprint
    reviews,                           \* completed heidi_completion_reviews
    hpc, hseen, hcas, hstatus,         \* handlers: step, request, CAS, result
    cpc, ctarget,                      \* callers: step, status to write
    changes, faults                    \* bounds

run      == <<phase, version>>
summary  == <<work, child, marks, attempt>>
results  == <<requested, passed, failed, stale>>
handlers == <<hpc, hseen, hcas, hstatus>>
callers  == <<cpc, ctarget>>
bounds   == <<changes, faults>>
vars     == <<run, summary, results, reviews, handlers, callers, bounds>>

Fingerprints ==
    [version : Nat, phase : Phases, work : Works, child : Children,
     marks : SUBSET {"barrier", "delta"}, attempt : Attempts]

\* computeStateFingerprint: stall verdict and strategy records are not part of it.
Fingerprint ==
    [version |-> version, phase |-> phase, work |-> work, child |-> child,
     marks |-> marks \cap {"barrier", "delta"}, attempt |-> attempt]

HandlerSteps == {"idle", "cas", "start", "request", "recheck", "evalRead", "evalWrite",
                 "observe", "complete", "record", "markStale"}
CallerSteps  == {"idle", "cancelChildren", "recheck", "check", "write"}
Transitions  == [from : Phases, why : Reasons, version : Nat]

TypeOK ==
    /\ phase \in Phases
    /\ version \in Nat
    /\ work \in Works
    /\ child \in Children
    /\ marks \subseteq Marks
    /\ attempt \in Attempts
    /\ requested \subseteq Fingerprints
    /\ passed \subseteq requested
    /\ failed \subseteq requested
    /\ stale \subseteq requested
    /\ reviews \subseteq Fingerprints
    /\ hpc \in [Handlers -> HandlerSteps]
    /\ hseen \in [Handlers -> Fingerprints \cup {None}]
    /\ hcas \in [Handlers -> Transitions \cup {None}]
    /\ hstatus \in [Handlers -> {"pending", "passed", "failed"}]
    /\ cpc \in [Callers -> CallerSteps]
    /\ ctarget \in [Callers -> Phases \cup {None}]
    /\ changes \in 0..MaxChanges
    /\ faults \in 0..MaxFaults

\* A run just created (state 'created', aggregate_version 1), or one that the run
\* API has just started (updateRun to 'running'); no work yet.
Init ==
    /\ \/ phase = "created" /\ version = 1
       \/ phase = "executing" /\ version = 2
    /\ work = "open"
    /\ child = "quiet"
    /\ marks = {}
    /\ attempt = "none"
    /\ requested = {} /\ passed = {} /\ failed = {} /\ stale = {}
    /\ reviews = {}
    /\ hpc = [h \in Handlers |-> "idle"]
    /\ hseen = [h \in Handlers |-> None]
    /\ hcas = [h \in Handlers |-> None]
    /\ hstatus = [h \in Handlers |-> "pending"]
    /\ cpc = [c \in Callers |-> "idle"]
    /\ ctarget = [c \in Callers |-> None]
    /\ changes = 0
    /\ faults = 0

-----------------------------------------------------------------------------
(* The other components: assignments, native children, progress, attempts *)

Change ==
    /\ changes < MaxChanges
    /\ changes' = changes + 1
    /\ UNCHANGED <<run, results, reviews, handlers, callers, faults>>

\* A change may move the state that a strategy constraint set belongs to.
Released(S) == {S, S \ {"exhausted"}}

WorkChanges ==
    Change /\ work' \in Works \ {work} /\ marks' \in Released(marks) /\ UNCHANGED <<child, attempt>>

ChildChanges ==
    Change /\ child' \in Children \ {child} /\ marks' \in Released(marks) /\ UNCHANGED <<work, attempt>>

MarksChange ==
    /\ Change
    /\ \E m \in {"barrier", "delta", "stalled"} :
         marks' \in Released(IF m \in marks THEN marks \ {m} ELSE marks \cup {m})
    /\ UNCHANGED <<work, child, attempt>>

AttemptRecorded ==
    /\ Change
    /\ attempt' \in Attempts
    /\ marks' = marks \ {"consumed"}
    /\ UNCHANGED <<work, child>>

-----------------------------------------------------------------------------
(* RunTransitionEngine.evaluate on session.idle *)

RequiredFailed == work = "failed" \/ child = "failed"
Stalled == ~RequiredFailed /\ marks \cap {"exhausted", "stalled"} = {"stalled"}
Evaluable == ~RequiredFailed /\ marks \cap {"exhausted", "stalled"} = {}
HasStateChange == "delta" \in marks \/ attempt = "progress"
RecoveryProgress == Evaluable /\ phase = "recovering" /\ HasStateChange

\* Steps 5-7: no attempt outcome left to act on, no barrier, no active child, and
\* every required work item satisfied.
AllRequiredSatisfied ==
    /\ Evaluable
    /\ ~RecoveryProgress
    /\ attempt = "none"
    /\ "barrier" \notin marks
    /\ child = "quiet"
    /\ work \in {"done", "evidenced"}

\* Why evaluate asks the CAS for a transition, if it does.
EvaluationReasons ==
    {why \in {"failure", "stall", "progress", "ready"} :
        /\ \/ why = "failure" /\ RequiredFailed /\ phase \in {"executing", "delegating"}
           \/ why = "stall" /\ Stalled
           \/ why = "progress" /\ RecoveryProgress
           \/ why = "ready" /\ AllRequiredSatisfied
        /\ Target[why] # phase
        /\ isValidPhaseTransition(phase, Target[why])}

Goto(h, step) == hpc' = [hpc EXCEPT ![h] = step]

\* The handler returns; its locals are gone.
Return(h) ==
    /\ Goto(h, "idle")
    /\ hseen' = [hseen EXCEPT ![h] = None]
    /\ hcas' = [hcas EXCEPT ![h] = None]
    /\ hstatus' = [hstatus EXCEPT ![h] = "pending"]

\* evaluate reads its snapshot and decides on a transition.
Evaluate(h) ==
    /\ hpc[h] = "idle"
    /\ phase \notin TerminalPhases
    /\ \E why \in EvaluationReasons :
         hcas' = [hcas EXCEPT ![h] = [from |-> phase, why |-> why, version |-> version]]
    /\ Goto(h, "cas")
    /\ UNCHANGED <<run, summary, results, reviews, hseen, hstatus, callers, bounds>>

\* Seeded fault: a state whose verification was requested once is not taken up again.
EvaluateReadyOnce(h) ==
    /\ hpc[h] = "idle"
    /\ phase = "verifying"
    /\ AllRequiredSatisfied
    /\ Fingerprint \notin requested
    /\ Goto(h, "start")
    /\ UNCHANGED <<run, summary, results, reviews, hseen, hcas, hstatus, callers, bounds>>

\* evaluate answers READY_FOR_VERIFICATION for a run that is already verifying.
EvaluateReady(h) ==
    /\ hpc[h] = "idle"
    /\ phase = "verifying"
    /\ AllRequiredSatisfied
    /\ Goto(h, "start")
    /\ UNCHANGED <<run, summary, results, reviews, hseen, hcas, hstatus, callers, bounds>>

\* evaluate consumes the progress of the last attempt (PROGRESS_CONFIRMED) and
\* clears the strategy constraints of the item.
EvaluateProgress(h) ==
    /\ hpc[h] = "idle"
    /\ phase \notin TerminalPhases
    /\ Evaluable /\ ~RecoveryProgress
    /\ attempt # "none" /\ HasStateChange
    /\ "consumed" \notin marks
    /\ marks' = (marks \cup {"consumed"}) \ {"exhausted"}
    /\ UNCHANGED <<run, work, child, attempt, results, reviews, handlers, callers, bounds>>

\* saveStrategyConstraint: the 21st strategy for one state exhausts the set.
Constrain(S) == {S, S \cup {"exhausted"}}

\* evaluate prohibits the action of the last attempt: it is repeated without
\* progress, or the run is stalled in a phase that cannot go to recovering.
EvaluateConstrain(h) ==
    /\ hpc[h] = "idle"
    /\ phase \notin TerminalPhases
    /\ attempt # "none"
    /\ \/ Stalled /\ "stall" \notin EvaluationReasons
       \/ Evaluable /\ ~HasStateChange
    /\ marks' \in Constrain(marks)
    /\ UNCHANGED <<run, work, child, attempt, results, reviews, handlers, callers, bounds>>

\* Seeded fault: the UPDATE is not guarded.
CasAlways(t) == TRUE

\* WHERE state = expectedPhase AND aggregate_version = expectedVersion.
CasMatches(t) == phase = t.from /\ version = t.version

\* transitionPhaseCas with the phase and version of the snapshot, and what the
\* caller does with its outcome.
TransitionPhase(h) ==
    LET t == hcas[h]
        won == CasMatches(t)
    IN  /\ hpc[h] = "cas"
        /\ version < MaxVersion
        /\ phase' = IF won THEN Target[t.why] ELSE phase
        /\ version' = IF won THEN version + 1 ELSE version
        /\ marks' \in IF won /\ t.why = "stall" /\ attempt # "none" THEN Constrain(marks)
                      ELSE IF won /\ t.why = "progress" THEN {marks \ {"exhausted"}}
                      ELSE {marks}
        /\ IF t.why = "verdict" \/ (won /\ t.why = "ready")
           THEN /\ Goto(h, IF t.why = "ready" THEN "start" ELSE "record")
                /\ hcas' = [hcas EXCEPT ![h] = None]
                /\ UNCHANGED <<hseen, hstatus>>
           ELSE Return(h)
        /\ UNCHANGED <<work, child, attempt, results, reviews, callers, bounds>>

-----------------------------------------------------------------------------
(* runLiveVerification *)

\* Read the snapshot and its fingerprint; give up if the run is not verifying.
StartVerification(h) ==
    /\ hpc[h] = "start"
    /\ IF phase = "verifying"
       THEN /\ hseen' = [hseen EXCEPT ![h] = Fingerprint]
            /\ Goto(h, "request")
            /\ UNCHANGED <<hcas, hstatus>>
       ELSE Return(h)
    /\ UNCHANGED <<run, summary, results, reviews, callers, bounds>>

\* requestLiveVerification: create the row of this state unless it exists.
RequestVerification(h) ==
    /\ hpc[h] = "request"
    /\ requested' = requested \cup {hseen[h]}
    /\ Goto(h, "recheck")
    /\ UNCHANGED <<run, summary, passed, failed, stale, reviews, hseen, hcas, hstatus,
                   callers, bounds>>

\* What evaluateLiveVerification concludes from a snapshot f.
Satisfying(f) == /\ f.work = "evidenced"
                 /\ f.child = "quiet"
                 /\ "barrier" \notin f.marks
Verdict(f) == IF Satisfying(f) THEN "passed" ELSE "failed"

\* Seeded fault: the state is not compared with the requested one.
RecheckBlind(h) ==
    /\ hpc[h] = "recheck"
    /\ hstatus' = [hstatus EXCEPT ![h] = Verdict(Fingerprint)]
    /\ Goto(h, "evalRead")
    /\ UNCHANGED <<run, summary, results, reviews, hseen, hcas, callers, bounds>>

\* Reconstruct the state after the durable request and evaluate what it shows.
Recheck(h) ==
    /\ hpc[h] = "recheck"
    /\ IF Fingerprint = hseen[h]
       THEN hstatus' = [hstatus EXCEPT ![h] = Verdict(Fingerprint)] /\ Goto(h, "evalRead")
       ELSE Goto(h, "markStale") /\ UNCHANGED hstatus
    /\ UNCHANGED <<run, summary, results, reviews, hseen, hcas, callers, bounds>>

RowStatus(f) == IF f \in passed THEN "passed" ELSE IF f \in failed THEN "failed" ELSE "pending"

\* evaluateLiveVerification reads the row; a stale or decided row is the result.
EvaluationRead(h) ==
    /\ hpc[h] = "evalRead"
    /\ IF hseen[h] \in stale \cup passed \cup failed
       THEN /\ hstatus' = [hstatus EXCEPT ![h] = RowStatus(hseen[h])]
            /\ Goto(h, "observe")
       ELSE Goto(h, "evalWrite") /\ UNCHANGED hstatus
    /\ UNCHANGED <<run, summary, results, reviews, hseen, hcas, callers, bounds>>

\* updateVerification: an unconditional write of the verdict.
EvaluationWrite(h) ==
    LET f == hseen[h]
    IN  /\ hpc[h] = "evalWrite"
        /\ passed' = IF hstatus[h] = "passed" THEN passed \cup {f} ELSE passed \ {f}
        /\ failed' = IF hstatus[h] = "failed" THEN failed \cup {f} ELSE failed \ {f}
        /\ Goto(h, "observe")
        /\ UNCHANGED <<run, summary, requested, stale, reviews, hseen, hcas, hstatus,
                       callers, bounds>>

\* observeVerificationResult, if the result still names the current state.
Observe(h) ==
    /\ hpc[h] = "observe"
    /\ IF Fingerprint # hseen[h] THEN Goto(h, "markStale") /\ UNCHANGED hcas
       ELSE IF hstatus[h] = "passed" THEN Goto(h, "complete") /\ UNCHANGED hcas
       ELSE /\ hcas' = [hcas EXCEPT ![h] = [from |-> "verifying", why |-> "verdict",
                                            version |-> version]]
            /\ Goto(h, "cas")
    /\ UNCHANGED <<run, summary, results, reviews, hseen, hstatus, callers, bounds>>

\* recordVerificationObservation: a new stall verdict from the counters.
RecordObservation(h) ==
    /\ hpc[h] = "record"
    /\ marks' \in {marks \cup {"stalled"}, marks \ {"stalled"}}
    /\ Return(h)
    /\ UNCHANGED <<run, work, child, attempt, results, reviews, callers, bounds>>

\* markLiveVerificationStale.
MarkStale(h) ==
    /\ hpc[h] = "markStale"
    /\ stale' = stale \cup {hseen[h]}
    /\ Return(h)
    /\ UNCHANGED <<run, summary, requested, passed, failed, reviews, callers, bounds>>

-----------------------------------------------------------------------------
(* CompletionPolicy *)

\* collectSnapshotBlockers finds none.
NoSnapshotBlockers ==
    /\ phase = "verifying"
    /\ work \in {"done", "evidenced"}
    /\ child = "quiet"
    /\ marks \cap {"barrier", "stalled"} = {}

\* loadAndValidateLiveVerification accepts the row of fingerprint f.
LiveVerificationValid(f) == f \in passed /\ f \notin stale /\ TargetSha # Placeholder

\* evaluateInTransaction under BEGIN IMMEDIATE: review, CAS, decision, event and
\* outbox row, or nothing at all.
EvaluateAndComplete(h) ==
    LET f == hseen[h]
        authorized == /\ NoSnapshotBlockers
                      /\ LiveVerificationValid(f)
                      /\ f = Fingerprint
                      /\ f \notin reviews
    IN  /\ hpc[h] = "complete"
        /\ version < MaxVersion
        /\ phase' = IF authorized THEN "completed" ELSE phase
        /\ version' = IF authorized THEN version + 1 ELSE version
        /\ reviews' = IF authorized THEN reviews \cup {f} ELSE reviews
        /\ Goto(h, "record")
        /\ UNCHANGED <<summary, results, hseen, hcas, hstatus, callers, bounds>>

\* The handler's process dies between two of its awaits.
HandlerCrash(h) ==
    /\ hpc[h] # "idle"
    /\ faults < MaxFaults
    /\ faults' = faults + 1
    /\ Return(h)
    /\ UNCHANGED <<run, summary, results, reviews, callers, changes>>

-----------------------------------------------------------------------------
(* RunService *)

CallerGoto(c, step) == cpc' = [cpc EXCEPT ![c] = step]

\* Seeded fault: the writer accepts 'completed'.
AnyState == {"executing", "completed", "failed", "cancelled"}

\* The states mapRunStatusToTaskRunState gives for the statuses the writer accepts:
\* 'completed' is refused with COMPLETION_POLICY_REQUIRED.
WritableStates == {"executing", "failed", "cancelled"}

\* updateRun reads the run; only a non-terminal run may be given a new status.
UpdateRun(c) ==
    /\ cpc[c] = "idle"
    /\ phase \notin TerminalPhases
    /\ \E s \in WritableStates : ctarget' = [ctarget EXCEPT ![c] = s]
    /\ CallerGoto(c, "write")
    /\ UNCHANGED <<run, summary, results, reviews, handlers, bounds>>

\* cancelRun reads the run and refuses a terminal one.
CancelRun(c) ==
    /\ cpc[c] = "idle"
    /\ phase \notin TerminalPhases
    /\ CallerGoto(c, "cancelChildren")
    /\ UNCHANGED <<run, summary, results, reviews, handlers, ctarget, bounds>>

\* cancelRunExecution and cancelChildrenForRun: active children get a cancel
\* request whose native termination is not confirmed yet.
CancelChildren(c) ==
    /\ cpc[c] = "cancelChildren"
    /\ marks' = IF child = "active" THEN marks \cup {"barrier"} ELSE marks
    /\ CallerGoto(c, "recheck")
    /\ UNCHANGED <<run, work, child, attempt, results, reviews, handlers, ctarget, bounds>>

\* "Re-check status for completion-versus-cancellation races".
CancelRecheck(c) ==
    /\ cpc[c] = "recheck"
    /\ CallerGoto(c, IF phase \in TerminalPhases \ {"cancelled"} THEN "idle" ELSE "check")
    /\ UNCHANGED <<run, summary, results, reviews, handlers, ctarget, bounds>>

\* updateRun, called by cancelRun, reads the run once more.
CancelCheck(c) ==
    /\ cpc[c] = "check"
    /\ IF phase \in TerminalPhases
       THEN CallerGoto(c, "idle") /\ UNCHANGED ctarget
       ELSE CallerGoto(c, "write") /\ ctarget' = [ctarget EXCEPT ![c] = "cancelled"]
    /\ UNCHANGED <<run, summary, results, reviews, handlers, bounds>>

\* updateRunState: UPDATE task_runs ... WHERE run_id = ?.
WriteRunState(c) ==
    /\ cpc[c] = "write"
    /\ version < MaxVersion
    /\ phase' = ctarget[c]
    /\ version' = version + 1
    /\ CallerGoto(c, "idle")
    /\ ctarget' = [ctarget EXCEPT ![c] = None]
    /\ UNCHANGED <<summary, results, reviews, handlers, bounds>>

-----------------------------------------------------------------------------
HandlerStep(h) ==
    \/ Evaluate(h) \/ EvaluateReady(h) \/ EvaluateProgress(h) \/ EvaluateConstrain(h)
    \/ TransitionPhase(h)
    \/ StartVerification(h) \/ RequestVerification(h) \/ Recheck(h)
    \/ EvaluationRead(h) \/ EvaluationWrite(h) \/ Observe(h) \/ MarkStale(h)
    \/ EvaluateAndComplete(h) \/ RecordObservation(h)

CallerStep(c) ==
    \/ UpdateRun(c) \/ CancelRun(c) \/ CancelChildren(c) \/ CancelRecheck(c)
    \/ CancelCheck(c) \/ WriteRunState(c)

Next ==
    \/ WorkChanges \/ ChildChanges \/ MarksChange \/ AttemptRecorded
    \/ \E h \in Handlers : HandlerStep(h)
    \/ \E h \in Handlers : HandlerCrash(h)
    \/ \E c \in Callers : CallerStep(c)

\* The event loop runs every started handler on, and session.idle keeps firing.
Fairness == \A h \in Handlers : WF_vars(HandlerStep(h))

Spec == Init /\ [][Next]_vars
FairSpec == Spec /\ Fairness

-----------------------------------------------------------------------------
(* Properties *)

\* A completed run has the completed review of the very state it was completed
\* from: nothing but CompletionPolicy writes 'completed' (completion-policy.ts).
CompletedHasReview ==
    phase = "completed" => \E r \in reviews : r.version = version - 1 /\ r.phase = "verifying"

\* A passed live verification belongs to a state whose required work, evidence,
\* children and barriers justify it, although the row is created, evaluated and
\* written in separate steps that other handlers and components interleave with.
PassedMeansSatisfied == \A f \in passed : Satisfying(f)

\* A verdict is never overturned: evaluateLiveVerification writes without a guard,
\* and two handlers that both read a pending row must still agree.
VerdictStable == [][passed \subseteq passed' /\ failed \subseteq failed']_vars

\* Terminal phases are immutable (transition-engine.ts, transitionPhase).
TerminalImmutable == [][(phase \in TerminalPhases) => (phase' = phase)]_vars

\* The current state can be completed and its verification row is not stale.
Completable ==
    /\ phase = "verifying"
    /\ AllRequiredSatisfied /\ work = "evidenced"
    /\ Fingerprint \notin stale
    /\ version < MaxVersion

\* A run that stays completable does not stay in 'verifying' for ever.
VerifyingDoesNotStarve == ~<>[]Completable
=============================================================================
