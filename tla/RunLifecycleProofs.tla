------------------------- MODULE RunLifecycleProofs -------------------------
(***************************************************************************)
(* Proofs about RunLifecycle for any number of session.idle handlers, API   *)
(* callers, changes and faults.  RunInv is the inductive invariant: what a   *)
(* handler may rely on between two of its awaits, which states a caller may  *)
(* have in hand, and that a verdict is a function of the state it is for.    *)
(***************************************************************************)
EXTENDS RunLifecycle, TLAPS

\* Steps at which the handler holds the fingerprint it read, and those at which
\* the row of that fingerprint exists as well.
HoldsState == {"request", "recheck", "evalRead", "evalWrite", "observe", "complete",
               "markStale"}
HoldsRow == HoldsState \ {"request"}

HandlerOK(h) ==
    /\ hpc[h] = "cas" => hcas[h] \in Transitions
    /\ hpc[h] \in HoldsState => hseen[h] \in Fingerprints
    /\ hpc[h] \in HoldsRow => hseen[h] \in requested
    /\ hpc[h] \in {"evalRead", "evalWrite"} => hstatus[h] = Verdict(hseen[h])

HandlersOK == \A h \in Handlers : HandlerOK(h)

HandlerTypes ==
    /\ hpc \in [Handlers -> HandlerSteps]
    /\ hseen \in [Handlers -> Fingerprints \cup {None}]
    /\ hcas \in [Handlers -> Transitions \cup {None}]
    /\ hstatus \in [Handlers -> {"pending", "passed", "failed"}]

CallersOK == \A c \in Callers : cpc[c] = "write" => ctarget[c] \in WritableStates

RowsOK == /\ PassedMeansSatisfied
          /\ \A f \in failed : ~Satisfying(f)

RunInv == TypeOK /\ HandlersOK /\ CallersOK /\ RowsOK /\ CompletedHasReview

-----------------------------------------------------------------------------
(* The fingerprint of a well-typed state is a fingerprint. *)
LEMMA FingerprintType == TypeOK => Fingerprint \in Fingerprints
<1> SUFFICES ASSUME TypeOK PROVE Fingerprint \in Fingerprints
  OBVIOUS
<1>1. marks \cap {"barrier", "delta"} \in SUBSET {"barrier", "delta"}
  OBVIOUS
<1> QED BY <1>1 DEF TypeOK, Fingerprint, Fingerprints

(* Init establishes the invariant. *)
LEMMA RunInit == ASSUME RunAssumption, Init PROVE RunInv
<1>1. TypeOK
  BY DEF RunAssumption, Init, TypeOK, Phases, Works, Children, Marks, Attempts,
         HandlerSteps, CallerSteps
<1>2. HandlersOK
  BY DEF Init, HandlersOK, HandlerOK, HoldsState, HoldsRow
<1>3. CallersOK /\ RowsOK /\ CompletedHasReview
  BY DEF Init, CallersOK, RowsOK, PassedMeansSatisfied, CompletedHasReview
<1> QED BY <1>1, <1>2, <1>3 DEF RunInv

-----------------------------------------------------------------------------
(* A step that leaves handlers, rows, callers and the run alone preserves       *)
(* everything but the types of what it changes.                                *)
LEMMA QuietStep ==
  ASSUME RunInv, TypeOK',
         UNCHANGED <<phase, version, reviews, handlers, callers>>,
         UNCHANGED results
  PROVE  RunInv'
<1> USE DEF RunInv, handlers, callers, results
<1>1. HandlersOK'
  BY DEF HandlersOK, HandlerOK
<1>2. CallersOK'
  BY DEF CallersOK
<1>3. RowsOK' /\ CompletedHasReview'
  BY DEF RowsOK, PassedMeansSatisfied, CompletedHasReview
<1> QED BY <1>1, <1>2, <1>3

(* The other components change what the snapshot reads. *)
LEMMA EnvironmentStep ==
  ASSUME RunAssumption, RunInv,
         WorkChanges \/ ChildChanges \/ MarksChange \/ AttemptRecorded
  PROVE  RunInv'
<1>1. UNCHANGED <<phase, version, reviews, handlers, callers>> /\ UNCHANGED results
  BY DEF WorkChanges, ChildChanges, MarksChange, AttemptRecorded, Change, run
<1>2. TypeOK'
  <2> USE RunAssumption DEF RunInv, TypeOK, Change, run, results, handlers, callers
  <2>1. CASE WorkChanges
    BY <2>1 DEF WorkChanges, Released
  <2>2. CASE ChildChanges
    BY <2>2 DEF ChildChanges, Released
  <2>3. CASE MarksChange
    BY <2>3 DEF MarksChange, Released, Marks
  <2>4. CASE AttemptRecorded
    BY <2>4 DEF AttemptRecorded
  <2> QED BY <2>1, <2>2, <2>3, <2>4
<1> QED BY <1>1, <1>2, QuietStep

-----------------------------------------------------------------------------
(* A handler step leaves the locals of the other handlers alone. *)
LEMMA LocalStep ==
  ASSUME HandlersOK, NEW h \in Handlers, HandlerOK(h)', requested \subseteq requested',
         \A g \in Handlers \ {h} : /\ hpc'[g] = hpc[g]
                                   /\ hseen'[g] = hseen[g]
                                   /\ hcas'[g] = hcas[g]
                                   /\ hstatus'[g] = hstatus[g]
  PROVE  HandlersOK'
<1>1. ASSUME NEW g \in Handlers, g # h PROVE HandlerOK(g)'
  BY <1>1 DEF HandlersOK, HandlerOK
<1> QED BY <1>1 DEF HandlersOK

(* Return(h) resets the handler's locals, which the invariant does not constrain. *)
LEMMA ReturnStep ==
  ASSUME RunInv, NEW h \in Handlers, Return(h), requested \subseteq requested'
  PROVE  HandlersOK' /\ HandlerTypes'
<1> USE DEF RunInv, TypeOK, Return, Goto
<1>1. HandlerTypes'
  BY DEF HandlerTypes, HandlerSteps
<1>2. HandlerOK(h)'
  BY DEF HandlerOK, HoldsState, HoldsRow
<1> QED BY <1>1, <1>2, LocalStep

(* Steps of a handler that only decide what it does next. *)
LEMMA DecideStep ==
  ASSUME RunAssumption, RunInv, NEW h \in Handlers,
         \/ Evaluate(h) \/ EvaluateReady(h) \/ EvaluateProgress(h) \/ StartVerification(h)
         \/ EvaluateConstrain(h) \/ Recheck(h) \/ EvaluationRead(h) \/ Observe(h)
         \/ RecordObservation(h) \/ HandlerCrash(h)
  PROVE  RunInv'
<1> USE DEF run, summary, results, handlers, callers, bounds
<1>t. TypeOK /\ HandlersOK /\ HandlerOK(h)
  BY DEF RunInv, HandlersOK
<1>f. Fingerprint \in Fingerprints
  BY <1>t, FingerprintType
<1>k. UNCHANGED <<phase, version, requested, passed, failed, stale, reviews, cpc, ctarget>>
  BY DEF Evaluate, EvaluateReady, EvaluateProgress, EvaluateConstrain, StartVerification,
         Recheck, EvaluationRead, Observe, RecordObservation, HandlerCrash
<1>c. UNCHANGED <<work, child, marks, attempt, changes, faults>>
      \/ EvaluateProgress(h) \/ EvaluateConstrain(h) \/ RecordObservation(h) \/ HandlerCrash(h)
  BY DEF Evaluate, EvaluateReady, StartVerification, Recheck, EvaluationRead, Observe
<1>0. SUFFICES HandlersOK' /\ HandlerTypes'
  <2>1. work' \in Works /\ child' \in Children /\ marks' \subseteq Marks
        /\ attempt' \in Attempts /\ changes' \in 0..MaxChanges /\ faults' \in 0..MaxFaults
    <3>1. CASE UNCHANGED <<work, child, marks, attempt, changes, faults>>
      BY <3>1, <1>t DEF TypeOK
    <3>2. CASE EvaluateProgress(h)
      BY <3>2, <1>t DEF TypeOK, EvaluateProgress, Marks
    <3>3. CASE HandlerCrash(h)
      BY <3>3, <1>t, RunAssumption DEF TypeOK, HandlerCrash
    <3>4. CASE EvaluateConstrain(h)
      BY <3>4, <1>t DEF TypeOK, EvaluateConstrain, Constrain, Marks
    <3>5. CASE RecordObservation(h)
      BY <3>5, <1>t DEF TypeOK, RecordObservation, Marks
    <3> QED BY <1>c, <3>1, <3>2, <3>3, <3>4, <3>5
  <2>2. TypeOK'
    BY <1>t, <1>k, <2>1, <1>0 DEF TypeOK, HandlerTypes
  <2>3. CallersOK' /\ RowsOK' /\ CompletedHasReview'
    BY <1>k DEF RunInv, CallersOK, RowsOK, PassedMeansSatisfied, CompletedHasReview
  <2> QED BY <1>0, <2>2, <2>3 DEF RunInv
<1>1. CASE Evaluate(h)
  <2>1. PICK why \in EvaluationReasons :
          hcas' = [hcas EXCEPT ![h] = [from |-> phase, why |-> why, version |-> version]]
    BY <1>1 DEF Evaluate
  <2>3. [from |-> phase, why |-> why, version |-> version] \in Transitions
    BY <1>t DEF TypeOK, Transitions, EvaluationReasons, Reasons
  <2>4. hpc' = [hpc EXCEPT ![h] = "cas"] /\ hseen' = hseen /\ hstatus' = hstatus
    BY <1>1 DEF Evaluate, Goto
  <2>5. HandlerTypes'
    BY <1>t, <2>1, <2>3, <2>4 DEF TypeOK, HandlerTypes, HandlerSteps
  <2>6. hcas'[h] = [from |-> phase, why |-> why, version |-> version] /\ hpc'[h] = "cas"
    BY <1>t, <2>1, <2>4 DEF TypeOK
  <2>7. HandlerOK(h)'
    BY <2>3, <2>6 DEF HandlerOK, HoldsState, HoldsRow
  <2> QED BY <1>t, <1>k, <2>1, <2>4, <2>5, <2>7, LocalStep DEF TypeOK
<1>2. CASE EvaluateReady(h)
  <2>1. HandlerTypes'
    BY <1>2, <1>t DEF EvaluateReady, Goto, TypeOK, HandlerTypes, HandlerSteps
  <2>2. HandlerOK(h)'
    BY <1>2, <1>t DEF EvaluateReady, Goto, TypeOK, HandlerOK, HoldsState, HoldsRow
  <2> QED BY <1>2, <1>t, <1>k, <2>1, <2>2, LocalStep DEF EvaluateReady, Goto, TypeOK
<1>3. CASE EvaluateProgress(h) \/ EvaluateConstrain(h)
  BY <1>3, <1>t, <1>k DEF EvaluateProgress, EvaluateConstrain, TypeOK, HandlerTypes, HandlersOK,
     HandlerOK
<1>4. CASE StartVerification(h)
  <2>1. CASE phase = "verifying"
    <3>1. HandlerTypes'
      BY <1>4, <2>1, <1>t, <1>f DEF StartVerification, Goto, TypeOK, HandlerTypes, HandlerSteps
    <3>2. HandlerOK(h)'
      BY <1>4, <2>1, <1>t, <1>f
         DEF StartVerification, Goto, TypeOK, HandlerOK, HoldsState, HoldsRow
    <3> QED BY <1>4, <2>1, <1>t, <1>k, <3>1, <3>2, LocalStep DEF StartVerification, Goto, TypeOK
  <2>2. CASE phase # "verifying"
    BY <1>4, <2>2, <1>k, ReturnStep DEF StartVerification
  <2> QED BY <2>1, <2>2
<1>5. CASE Recheck(h)
  <2>1. Verdict(Fingerprint) \in {"passed", "failed"}
    BY DEF Verdict
  <2>2. HandlerTypes'
    BY <1>5, <1>t, <2>1 DEF Recheck, Goto, TypeOK, HandlerTypes, HandlerSteps
  <2>3. HandlerOK(h)'
    <3>1. CASE Fingerprint = hseen[h]
      BY <1>5, <1>t, <1>k, <3>1 DEF Recheck, Goto, TypeOK, HandlerOK, HoldsState, HoldsRow
    <3>2. CASE Fingerprint # hseen[h]
      BY <1>5, <1>t, <1>k, <3>2 DEF Recheck, Goto, TypeOK, HandlerOK, HoldsState, HoldsRow
    <3> QED BY <3>1, <3>2
  <2> QED BY <1>5, <1>t, <1>k, <2>2, <2>3, LocalStep DEF Recheck, Goto, TypeOK
<1>6. CASE EvaluationRead(h)
  <2>1. RowStatus(hseen[h]) \in {"pending", "passed", "failed"}
    BY DEF RowStatus
  <2>2. HandlerTypes'
    BY <1>6, <1>t, <2>1 DEF EvaluationRead, Goto, TypeOK, HandlerTypes, HandlerSteps
  <2>3. HandlerOK(h)'
    BY <1>6, <1>t, <1>k DEF EvaluationRead, Goto, TypeOK, HandlerOK, HoldsState, HoldsRow
  <2> QED BY <1>6, <1>t, <1>k, <2>2, <2>3, LocalStep DEF EvaluationRead, Goto, TypeOK
<1>7. CASE Observe(h)
  <2>1. [from |-> "verifying", why |-> "verdict", version |-> version] \in Transitions
    BY <1>t DEF TypeOK, Transitions, Phases, Reasons
  <2>2. HandlerTypes'
    BY <1>7, <1>t, <2>1 DEF Observe, Goto, TypeOK, HandlerTypes, HandlerSteps
  <2>3. HandlerOK(h)'
    BY <1>7, <1>t, <1>k, <2>1 DEF Observe, Goto, TypeOK, HandlerOK, HoldsState, HoldsRow
  <2> QED BY <1>7, <1>t, <1>k, <2>2, <2>3, LocalStep DEF Observe, Goto, TypeOK
<1>8. CASE HandlerCrash(h) \/ RecordObservation(h)
  BY <1>8, <1>k, ReturnStep DEF HandlerCrash, RecordObservation
<1> QED BY <1>1, <1>2, <1>3, <1>4, <1>5, <1>6, <1>7, <1>8

(* The CAS moves the run to a phase other than 'completed', or not at all. *)
LEMMA TransitionPhaseStep ==
  ASSUME RunInv, NEW h \in Handlers, TransitionPhase(h)
  PROVE  RunInv'
<1> USE DEF summary, results, callers, bounds
<1>t. TypeOK /\ HandlersOK /\ hpc[h] = "cas" /\ hcas[h] \in Transitions
  BY DEF RunInv, HandlersOK, HandlerOK, TransitionPhase
<1>g. Target[hcas[h].why] \in {"recovering", "executing", "verifying"}
  BY <1>t DEF Transitions, Reasons, Target
<1>1. HandlersOK' /\ HandlerTypes'
  <2>1. CASE Return(h)
    BY <2>1, ReturnStep DEF TransitionPhase
  <2>2. CASE /\ \E step \in {"start", "record"} : hpc' = [hpc EXCEPT ![h] = step]
             /\ hcas' = [hcas EXCEPT ![h] = None]
             /\ UNCHANGED <<hseen, hstatus>>
    <3>1. HandlerTypes'
      BY <2>2, <1>t DEF TypeOK, HandlerTypes, HandlerSteps
    <3>2. HandlerOK(h)'
      BY <2>2, <1>t DEF TypeOK, HandlerOK, HoldsState, HoldsRow
    <3>3. UNCHANGED requested
      BY DEF TransitionPhase
    <3> QED BY <2>2, <1>t, <3>1, <3>2, <3>3, LocalStep DEF TypeOK
  <2> QED BY <2>1, <2>2 DEF TransitionPhase, Goto
<1>2. \/ phase' = Target[hcas[h].why] /\ version' = version + 1
      \/ UNCHANGED <<phase, version>>
  BY DEF TransitionPhase
<1>3. TypeOK'
  <2>1. phase' \in Phases /\ version' \in Nat
    BY <1>t, <1>g, <1>2 DEF TypeOK, Phases
  <2>2. marks' \subseteq Marks
    BY <1>t DEF TypeOK, TransitionPhase, Constrain, Marks
  <2> QED BY <1>t, <1>1, <2>1, <2>2 DEF TypeOK, HandlerTypes, TransitionPhase
<1>4. CompletedHasReview'
  BY <1>t, <1>g, <1>2 DEF RunInv, CompletedHasReview, TransitionPhase
<1>5. CallersOK' /\ RowsOK'
  BY DEF RunInv, CallersOK, RowsOK, PassedMeansSatisfied, TransitionPhase
<1> QED BY <1>1, <1>3, <1>4, <1>5 DEF RunInv

(* Creating the row of the requested state, or marking it stale. *)
LEMMA RowStep ==
  ASSUME RunInv, NEW h \in Handlers, RequestVerification(h) \/ MarkStale(h)
  PROVE  RunInv'
<1> USE DEF run, summary, callers, bounds
<1>t. TypeOK /\ HandlersOK /\ HandlerOK(h)
  BY DEF RunInv, HandlersOK
<1>k. UNCHANGED <<phase, version, work, child, marks, attempt, passed, failed, reviews,
                  cpc, ctarget, changes, faults>>
  BY DEF RequestVerification, MarkStale
<1>0. SUFFICES /\ HandlersOK' /\ HandlerTypes'
               /\ requested \subseteq requested' /\ requested' \subseteq Fingerprints
               /\ stale' \subseteq requested'
  <2>1. TypeOK'
    BY <1>t, <1>k, <1>0 DEF TypeOK, HandlerTypes
  <2>2. CallersOK' /\ RowsOK' /\ CompletedHasReview'
    BY <1>k DEF RunInv, CallersOK, RowsOK, PassedMeansSatisfied, CompletedHasReview
  <2> QED BY <1>0, <2>1, <2>2 DEF RunInv
<1>1. CASE RequestVerification(h)
  <2>0. hseen[h] \in Fingerprints
    BY <1>1, <1>t DEF RequestVerification, HandlerOK, HoldsState
  <2>1. HandlerTypes'
    BY <1>1, <1>t DEF RequestVerification, Goto, TypeOK, HandlerTypes, HandlerSteps
  <2>2. HandlerOK(h)'
    BY <1>1, <1>t, <2>0 DEF RequestVerification, Goto, TypeOK, HandlerOK, HoldsState, HoldsRow
  <2>3. /\ requested \subseteq requested' /\ requested' \subseteq Fingerprints
        /\ stale' \subseteq requested'
    BY <1>1, <1>t, <2>0 DEF RequestVerification, TypeOK
  <2>4. HandlersOK'
    BY <1>1, <1>t, <2>2, <2>3, LocalStep DEF RequestVerification, Goto, TypeOK
  <2> QED BY <2>1, <2>3, <2>4
<1>2. CASE MarkStale(h)
  <2>1. HandlersOK' /\ HandlerTypes'
    BY <1>2, ReturnStep DEF MarkStale
  <2>2. hseen[h] \in requested
    BY <1>2, <1>t DEF MarkStale, HandlerOK, HoldsRow, HoldsState
  <2> QED BY <1>2, <1>t, <2>1, <2>2 DEF MarkStale, TypeOK
<1> QED BY <1>1, <1>2

(* The unguarded write of a verdict: it is the verdict of the state it is for,   *)
(* so it can only repeat what another handler has written.                       *)
LEMMA EvaluationWriteStep ==
  ASSUME RunInv, NEW h \in Handlers, EvaluationWrite(h)
  PROVE  RunInv' /\ passed \subseteq passed' /\ failed \subseteq failed'
<1> USE DEF run, summary, callers, bounds
<1>t. TypeOK /\ HandlersOK /\ HandlerOK(h) /\ RowsOK
  BY DEF RunInv, HandlersOK
<1>f. hseen[h] \in Fingerprints /\ hseen[h] \in requested /\ hstatus[h] = Verdict(hseen[h])
  BY <1>t DEF EvaluationWrite, HandlerOK, HoldsState, HoldsRow
<1>1. passed \subseteq passed' /\ failed \subseteq failed' /\ RowsOK'
      /\ passed' \subseteq requested /\ failed' \subseteq requested
  <2>1. CASE Satisfying(hseen[h])
    <3>1. passed' = passed \cup {hseen[h]} /\ failed' = failed \ {hseen[h]}
      BY <1>f, <2>1 DEF EvaluationWrite, Verdict
    <3>2. hseen[h] \notin failed
      BY <1>t, <2>1 DEF RowsOK
    <3> QED BY <1>t, <1>f, <2>1, <3>1, <3>2 DEF RowsOK, PassedMeansSatisfied, TypeOK
  <2>2. CASE ~Satisfying(hseen[h])
    <3>1. passed' = passed \ {hseen[h]} /\ failed' = failed \cup {hseen[h]}
      BY <1>f, <2>2 DEF EvaluationWrite, Verdict
    <3>2. hseen[h] \notin passed
      BY <1>t, <2>2 DEF RowsOK, PassedMeansSatisfied
    <3> QED BY <1>t, <1>f, <2>2, <3>1, <3>2 DEF RowsOK, PassedMeansSatisfied, TypeOK
  <2> QED BY <2>1, <2>2
<1>2. HandlerTypes'
  BY <1>t DEF EvaluationWrite, Goto, TypeOK, HandlerTypes, HandlerSteps
<1>3. HandlerOK(h)'
  BY <1>t, <1>f DEF EvaluationWrite, Goto, TypeOK, HandlerOK, HoldsState, HoldsRow
<1>4. HandlersOK'
  BY <1>t, <1>3, LocalStep DEF EvaluationWrite, Goto, TypeOK
<1>5. TypeOK'
  BY <1>t, <1>1, <1>2 DEF EvaluationWrite, TypeOK, HandlerTypes
<1>6. CallersOK' /\ CompletedHasReview'
  BY DEF RunInv, CallersOK, CompletedHasReview, EvaluationWrite
<1> QED BY <1>1, <1>4, <1>5, <1>6 DEF RunInv

(* The completion policy inserts the review of the state it completes. *)
LEMMA EvaluateAndCompleteStep ==
  ASSUME RunInv, NEW h \in Handlers, EvaluateAndComplete(h)
  PROVE  RunInv'
<1> USE DEF summary, results, callers, bounds
<1>t. TypeOK /\ HandlersOK
  BY DEF RunInv
<1>f. Fingerprint \in Fingerprints /\ Fingerprint.version = version /\ Fingerprint.phase = phase
  BY <1>t, FingerprintType DEF Fingerprint
<1>1. HandlersOK' /\ HandlerTypes'
  <2>1. HandlerTypes'
    BY <1>t DEF EvaluateAndComplete, Goto, TypeOK, HandlerTypes, HandlerSteps
  <2>2. HandlerOK(h)'
    BY <1>t DEF EvaluateAndComplete, Goto, TypeOK, HandlerOK, HoldsState, HoldsRow
  <2> QED BY <1>t, <2>1, <2>2, LocalStep DEF EvaluateAndComplete, Goto, TypeOK
<1>2. \/ UNCHANGED <<phase, version, reviews>>
      \/ /\ phase' = "completed" /\ version' = version + 1
         /\ phase = "verifying" /\ hseen[h] = Fingerprint
         /\ reviews' = reviews \cup {hseen[h]}
  BY DEF EvaluateAndComplete, NoSnapshotBlockers
<1>3. TypeOK'
  <2>1. phase' \in Phases /\ version' \in Nat /\ reviews' \subseteq Fingerprints
    BY <1>t, <1>f, <1>2 DEF TypeOK, Phases
  <2> QED BY <1>t, <1>1, <2>1 DEF TypeOK, HandlerTypes, EvaluateAndComplete
<1>4. CompletedHasReview'
  <2>1. CASE UNCHANGED <<phase, version, reviews>>
    BY <2>1 DEF RunInv, CompletedHasReview
  <2>2. CASE /\ phase' = "completed" /\ version' = version + 1
             /\ phase = "verifying" /\ hseen[h] = Fingerprint
             /\ reviews' = reviews \cup {hseen[h]}
    <3>1. /\ Fingerprint \in reviews' /\ Fingerprint.version = version' - 1
          /\ Fingerprint.phase = "verifying"
      BY <1>t, <1>f, <2>2 DEF TypeOK
    <3>2. \E r \in reviews' : r.version = version' - 1 /\ r.phase = "verifying"
      BY <3>1
    <3> QED BY <3>2 DEF CompletedHasReview
  <2> QED BY <1>2, <2>1, <2>2
<1>5. CallersOK' /\ RowsOK'
  BY DEF RunInv, CallersOK, RowsOK, PassedMeansSatisfied, EvaluateAndComplete
<1> QED BY <1>1, <1>3, <1>4, <1>5 DEF RunInv

-----------------------------------------------------------------------------
(* The run API never writes 'completed'. *)
LEMMA CallerInv ==
  ASSUME RunInv, NEW c \in Callers, CallerStep(c)
  PROVE  RunInv'
<1> USE DEF run, summary, results, handlers, bounds, CallerGoto
<1>t. TypeOK /\ CallersOK
  BY DEF RunInv
<1>k. UNCHANGED <<work, child, attempt, requested, passed, failed, stale, reviews, hpc, hseen,
                  hcas, hstatus, changes, faults>>
  BY DEF CallerStep, UpdateRun, CancelRun, CancelChildren, CancelRecheck, CancelCheck,
         WriteRunState
<1>1. cpc' \in [Callers -> CallerSteps] /\ ctarget' \in [Callers -> Phases \cup {None}]
  BY <1>t DEF TypeOK, CallerSteps, Phases, WritableStates, CallerStep, UpdateRun, CancelRun,
         CancelChildren, CancelRecheck, CancelCheck, WriteRunState
<1>2. CallersOK'
  <2>1. ASSUME NEW d \in Callers, cpc'[d] = "write" PROVE ctarget'[d] \in WritableStates
    <3>1. CASE d # c
      BY <1>t, <2>1, <3>1 DEF TypeOK, CallersOK, CallerStep, UpdateRun, CancelRun,
         CancelChildren, CancelRecheck, CancelCheck, WriteRunState
    <3>2. CASE d = c
      BY <1>t, <2>1, <3>2 DEF TypeOK, CallersOK, WritableStates, CallerStep, UpdateRun,
         CancelRun, CancelChildren, CancelRecheck, CancelCheck, WriteRunState
    <3> QED BY <3>1, <3>2
  <2> QED BY <2>1 DEF CallersOK
<1>3. marks' \subseteq Marks
  BY <1>t DEF TypeOK, Marks, CallerStep, UpdateRun, CancelRun, CancelChildren, CancelRecheck,
     CancelCheck, WriteRunState
<1>4. \/ UNCHANGED <<phase, version>>
      \/ phase' \in WritableStates /\ version' = version + 1
  BY <1>t DEF CallersOK, CallerStep, UpdateRun, CancelRun, CancelChildren, CancelRecheck,
     CancelCheck, WriteRunState
<1>5. TypeOK'
  <2>1. phase' \in Phases /\ version' \in Nat
    BY <1>t, <1>4 DEF TypeOK, Phases, WritableStates
  <2> QED BY <1>t, <1>k, <1>1, <1>3, <2>1 DEF TypeOK
<1>6. CompletedHasReview'
  BY <1>k, <1>4 DEF RunInv, CompletedHasReview, WritableStates
<1>7. HandlersOK' /\ RowsOK'
  BY <1>k DEF RunInv, HandlersOK, HandlerOK, RowsOK, PassedMeansSatisfied
<1> QED BY <1>2, <1>5, <1>6, <1>7 DEF RunInv

-----------------------------------------------------------------------------
(* Every step of the system preserves the invariant. *)
LEMMA RunStep == ASSUME RunAssumption, RunInv, [Next]_vars PROVE RunInv'
<1>1. CASE WorkChanges \/ ChildChanges \/ MarksChange \/ AttemptRecorded
  BY <1>1, EnvironmentStep
<1>2. ASSUME NEW h \in Handlers, HandlerStep(h) PROVE RunInv'
  BY <1>2, DecideStep, TransitionPhaseStep, RowStep, EvaluationWriteStep,
     EvaluateAndCompleteStep DEF HandlerStep
<1>3. ASSUME NEW h \in Handlers, HandlerCrash(h) PROVE RunInv'
  BY <1>3, DecideStep
<1>4. ASSUME NEW c \in Callers, CallerStep(c) PROVE RunInv'
  BY <1>4, CallerInv
<1>5. CASE UNCHANGED vars
  <2>1. UNCHANGED <<phase, version, reviews, handlers, callers>> /\ UNCHANGED results /\ TypeOK'
    BY <1>5 DEF vars, run, summary, results, handlers, callers, bounds, RunInv, TypeOK
  <2> QED BY <2>1, QuietStep
<1> QED BY <1>1, <1>2, <1>3, <1>4, <1>5 DEF Next

(* RunInv holds in every reachable state. *)
THEOREM RunInvariant == Spec => []RunInv
<1>1. Init => RunInv
  BY RunAssumption, RunInit
<1>2. RunInv /\ [Next]_vars => RunInv'
  BY RunAssumption, RunStep
<1> QED BY <1>1, <1>2, PTL DEF Spec

(* The safety properties that TLC checks on small instances hold for any number *)
(* of handlers and callers: a completed run has its review, and a passed        *)
(* verification belongs to a satisfying state.                                 *)
THEOREM RunSafe == Spec => [](TypeOK /\ CompletedHasReview /\ PassedMeansSatisfied)
<1>1. RunInv => TypeOK /\ CompletedHasReview /\ PassedMeansSatisfied
  BY DEF RunInv, RowsOK
<1> QED BY <1>1, RunInvariant, PTL

(* No step overturns a verdict, although evaluateLiveVerification writes it      *)
(* without a guard.                                                            *)
THEOREM VerdictsFinal == Spec => VerdictStable
<1>1. ASSUME RunInv, [Next]_vars PROVE [passed \subseteq passed' /\ failed \subseteq failed']_vars
  <2>1. ASSUME NEW h \in Handlers, EvaluationWrite(h)
        PROVE  passed \subseteq passed' /\ failed \subseteq failed'
    BY <1>1, <2>1, EvaluationWriteStep
  <2>2. (passed' = passed /\ failed' = failed) \/ \E h \in Handlers : EvaluationWrite(h)
    BY <1>1 DEF Next, vars, HandlerStep, CallerStep, results, WorkChanges, ChildChanges,
       MarksChange, AttemptRecorded, Change, Evaluate, EvaluateReady, EvaluateProgress,
       EvaluateConstrain, RecordObservation,
       TransitionPhase, StartVerification, RequestVerification, Recheck, EvaluationRead,
       Observe, MarkStale, EvaluateAndComplete, HandlerCrash, UpdateRun, CancelRun,
       CancelChildren, CancelRecheck, CancelCheck, WriteRunState
  <2> QED BY <2>1, <2>2
<1> QED BY <1>1, RunInvariant, PTL DEF Spec, VerdictStable

\* The rows of a run and the locals of its handlers and callers keep their types.
THEOREM RunTypes == Spec => []TypeOK
<1>1. RunInv => TypeOK
  BY DEF RunInv
<1> QED BY <1>1, RunInvariant, PTL

\* A passed live verification belongs to a satisfying state, for any number of
\* handlers that request, evaluate and write it in separate steps.
THEOREM RunPassed == Spec => []PassedMeansSatisfied
<1>1. RunInv => PassedMeansSatisfied
  BY DEF RunInv, RowsOK
<1> QED BY <1>1, RunInvariant, PTL

\* A transition in hand starts from a phase that is not terminal: evaluate
\* refuses terminal phases, and verdicts are acted on from 'verifying'.
FromOpenPhase ==
    \A h \in Handlers : hpc[h] = "cas" => hcas[h].from \notin TerminalPhases

LEMMA FromOpenStep ==
    ASSUME TypeOK, FromOpenPhase, [Next]_vars
    PROVE  FromOpenPhase'
<1>0. hpc \in [Handlers -> HandlerSteps] /\ hcas \in [Handlers -> Transitions \cup {None}]
  BY DEF TypeOK
<1>1. ASSUME NEW h \in Handlers, Evaluate(h) PROVE FromOpenPhase'
  <2>1. PICK why \in EvaluationReasons :
          hcas' = [hcas EXCEPT ![h] = [from |-> phase, why |-> why, version |-> version]]
    BY <1>1 DEF Evaluate
  <2> QED BY <1>0, <1>1, <2>1 DEF Evaluate, Goto, FromOpenPhase
<1>2. ASSUME NEW h \in Handlers, Observe(h) PROVE FromOpenPhase'
  BY <1>0, <1>2 DEF Observe, Goto, FromOpenPhase, TerminalPhases
<1>3. ASSUME NEW h \in Handlers, NEW step, step # "cas", Goto(h, step),
             \A g \in Handlers : g # h => hcas'[g] = hcas[g]
      PROVE  FromOpenPhase'
  BY <1>0, <1>3 DEF Goto, FromOpenPhase
<1>4. ASSUME NEW h \in Handlers, TransitionPhase(h) PROVE FromOpenPhase'
  <2>1. \A g \in Handlers : g # h => hcas'[g] = hcas[g]
    BY <1>0, <1>4 DEF TransitionPhase, Return
  <2>2. Goto(h, "start") \/ Goto(h, "record") \/ Goto(h, "idle")
    BY <1>4 DEF TransitionPhase, Return
  <2> QED BY <1>3, <2>1, <2>2
<1>5. ASSUME NEW h \in Handlers, Return(h) PROVE FromOpenPhase'
  BY <1>0, <1>3, <1>5 DEF Return
<1>6. ASSUME NEW h \in Handlers,
             \/ EvaluateReady(h) \/ RequestVerification(h) \/ StartVerification(h)
             \/ Recheck(h) \/ EvaluationRead(h) \/ EvaluationWrite(h)
             \/ MarkStale(h) \/ RecordObservation(h) \/ EvaluateAndComplete(h)
             \/ HandlerCrash(h)
      PROVE  FromOpenPhase'
  BY <1>3, <1>5, <1>6 DEF EvaluateReady, RequestVerification, StartVerification, Recheck,
     EvaluationRead, EvaluationWrite, MarkStale, RecordObservation,
     EvaluateAndComplete, HandlerCrash
<1>7. CASE UNCHANGED <<hpc, hcas>>
  BY <1>7 DEF FromOpenPhase
<1>8. \/ UNCHANGED <<hpc, hcas>>
      \/ \E h \in Handlers : HandlerStep(h) \/ HandlerCrash(h)
  BY DEF Next, vars, handlers, WorkChanges, ChildChanges, MarksChange, AttemptRecorded,
     Change, CallerStep, UpdateRun, CancelRun, CancelChildren, CancelRecheck,
     CancelCheck, WriteRunState
<1>9. ASSUME NEW h \in Handlers, EvaluateProgress(h) \/ EvaluateConstrain(h)
      PROVE  FromOpenPhase'
  BY <1>7, <1>9 DEF EvaluateProgress, EvaluateConstrain, handlers
<1> QED BY <1>1, <1>2, <1>4, <1>6, <1>7, <1>8, <1>9 DEF HandlerStep

\* The engine and the completion policy leave terminal phases alone: only an API
\* caller's unguarded UPDATE can overwrite one, so without callers no step does.
THEOREM EngineTerminal == Callers = {} => (Spec => TerminalImmutable)
<1> SUFFICES ASSUME Callers = {} PROVE Spec => TerminalImmutable
  OBVIOUS
<1>1. Init => FromOpenPhase
  BY DEF Init, FromOpenPhase
<1>2. RunInv /\ FromOpenPhase /\ [Next]_vars => FromOpenPhase'
  BY FromOpenStep DEF RunInv
<1>3. FromOpenPhase /\ [Next]_vars
        => [(phase \in TerminalPhases) => (phase' = phase)]_vars
  <2> SUFFICES ASSUME FromOpenPhase, [Next]_vars, phase \in TerminalPhases
               PROVE  phase' = phase
    OBVIOUS
  <2>1. ASSUME NEW h \in Handlers, TransitionPhase(h) PROVE phase' = phase
    BY <2>1 DEF TransitionPhase, CasMatches, FromOpenPhase
  <2>2. ASSUME NEW h \in Handlers, EvaluateAndComplete(h) PROVE phase' = phase
    BY <2>2 DEF EvaluateAndComplete, NoSnapshotBlockers, TerminalPhases
  <2>3. \/ phase' = phase
        \/ \E h \in Handlers : TransitionPhase(h) \/ EvaluateAndComplete(h)
    BY DEF Next, vars, run, HandlerStep, WorkChanges, ChildChanges,
       MarksChange, AttemptRecorded, Change, Evaluate, EvaluateReady, EvaluateProgress,
       EvaluateConstrain, RecordObservation, StartVerification, RequestVerification,
       Recheck, EvaluationRead, EvaluationWrite, Observe, MarkStale, HandlerCrash
  <2> QED BY <2>1, <2>2, <2>3
<1> QED BY <1>1, <1>2, <1>3, RunInvariant, PTL DEF Spec, TerminalImmutable

=============================================================================
