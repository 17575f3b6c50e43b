-------------------------- MODULE CommandExecution --------------------------
(***************************************************************************)
(* DurableCommandExecutor: one command invocation, driven to its end by    *)
(* executeCommand, taken up again by recoverCommand after a restart, and   *)
(* cancelled by cancelCommand, over the durable rows they share: the       *)
(* invocation, its run, its plan with the one workstream a command         *)
(* compiles to, the dispatch state of the workstream's assignment, and the *)
(* recovery claim.                                                         *)
(*                                                                         *)
(* A caller is one call of one of the three operations; a step is the code *)
(* between two awaits, and a call that only reads takes none.  All callers *)
(* share their runtime's process: when it dies they all stop, and the      *)
(* runtime started in its place requeues the workstream that was running.  *)
(* Callers hold a copy of the invocation they loaded, and write it back    *)
(* whole.                                                                  *)
(***************************************************************************)
EXTENDS Naturals, FiniteSets

CONSTANTS
  Executors,    \* calls of executeCommand with one idempotency key
  Recoverers,   \* calls of recoverCommand
  Cancellers,   \* calls of cancelCommand
  NeedsVerification,  \* requiresPassedVerification of the command
  MaxCrashes,   \* deaths of the runtime
  None

Drivers == Executors \cup Recoverers
Callers == Drivers \cup Cancellers

ASSUME CommandAssumption ==
  /\ Executors \cap Recoverers = {} /\ Drivers \cap Cancellers = {}
  /\ None \notin Callers \cup {"pending", "running", "verifying", "completed", "failed",
       "cancelled", "planned", "ready", "integrated", "succeeded", "dispatched", "active"}
  /\ NeedsVerification \in BOOLEAN /\ MaxCrashes \in Nat

VARIABLES
  row,        \* the command_invocations row: status, and whether it names a run and a plan
  run,        \* the run created for the command
  plan, ws,   \* status of the plan and of its workstream
  dispatch,   \* dispatch_state of the binding of the workstream's assignment
  claim,      \* holder of the live recovery claim
  verified,   \* a passed verification result is recorded
  decision,   \* a pass completion decision is recorded
  pc, inv,    \* each caller's step and its copy of the row
  crashes,
  overran     \* history: a claim expired under a recoverer at work

vars == <<row, run, plan, ws, dispatch, claim, verified, decision, pc, inv, crashes, overran>>

Terminal == {"completed", "failed", "cancelled"}
Statuses == {"pending", "running", "verifying"} \cup Terminal
Rows == [status : Statuses \cup {None}, bound : BOOLEAN]
NoRow == [status |-> None, bound |-> FALSE]

TypeOK ==
  /\ row \in Rows /\ inv \in [Callers -> Rows]
  /\ run \in {None, "active", "cancelled"}
  /\ plan \in {None, "planned", "running", "succeeded", "failed", "cancelled"}
  /\ ws \in {None, "planned", "ready", "running", "integrated", "failed", "cancelled"}
  /\ dispatch \in {None, "pending", "dispatched", "succeeded", "failed", "cancelled"}
  /\ claim \in Recoverers \cup {None}
  /\ verified \in BOOLEAN /\ decision \in BOOLEAN
  /\ pc \in [Callers -> {"start", "save", "create", "persist", "ensure", "resume",
                         "schedule", "agent", "decide", "undone", "verify", "complete",
                         "stop", "mark", "returned"}]
  /\ crashes \in 0 .. MaxCrashes /\ overran \in BOOLEAN

Init ==
  /\ row = NoRow /\ run = None /\ plan = None /\ ws = None /\ dispatch = None
  /\ claim = None /\ verified = FALSE /\ decision = FALSE
  /\ pc = [a \in Callers |-> "start"] /\ inv = [a \in Callers |-> NoRow]
  /\ crashes = 0 /\ overran = FALSE

Goto(a, step) == pc' = [pc EXCEPT ![a] = step]

\* saveInvocation: an upsert of the caller's copy, whatever the row holds
Save(a, status) == row' = [inv[a] EXCEPT !.status = status]
SaveAndGo(a, status, step) ==
  /\ Save(a, status) /\ Goto(a, step)
  /\ inv' = [inv EXCEPT ![a].status = status]

\* the caller's copy dies with the call; recoverCommand's finally releases the
\* claim by its key, whoever holds it by now
Return(a) == Goto(a, "returned") /\ inv' = [inv EXCEPT ![a] = NoRow]
Leave(a) ==
  /\ Return(a)
  /\ claim' = IF a \in Recoverers THEN None ELSE claim

\* seeded fault: executeCommand, too, passes CommandRecoveryErrors on
ThrowUnrecorded(a, recoveryError) ==
  /\ Leave(a)
  /\ IF inv[a].status = "cancelled" \/ recoveryError
       THEN UNCHANGED row
       ELSE Save(a, "failed")

\* an error leaves executeCommand through its catch, which records the failure
\* unless the copy is already cancelled; recoverCommand records only errors
\* that are not CommandRecoveryErrors
Throw(a, recoveryError) ==
  /\ Leave(a)
  /\ IF inv[a].status = "cancelled" \/ (a \in Recoverers /\ recoveryError)
       THEN UNCHANGED row
       ELSE Save(a, "failed")

-----------------------------------------------------------------------------
(* executeCommand up to the shared continuation *)

\* a call that finds the row returns it, and changes nothing: no step
Lookup(a) ==
  /\ pc[a] = "start" /\ a \in Executors /\ row = NoRow
  /\ Goto(a, "save")
  /\ UNCHANGED <<row, run, plan, ws, dispatch, claim, verified, decision, inv, crashes, overran>>

\* seeded fault: no unique idempotency key
SavePendingAnyway(a) ==
  /\ pc[a] = "save" /\ Goto(a, "create")
  /\ row' = [status |-> "pending", bound |-> FALSE]
  /\ inv' = [inv EXCEPT ![a] = [status |-> "pending", bound |-> FALSE]]
  /\ UNCHANGED <<run, plan, ws, dispatch, claim, verified, decision, crashes, overran>>

\* the unique idempotency key: the loser answers with the winner's row
SavePending(a) ==
  /\ pc[a] = "save"
  /\ IF row = NoRow
       THEN /\ row' = [status |-> "pending", bound |-> FALSE]
            /\ inv' = [inv EXCEPT ![a] = [status |-> "pending", bound |-> FALSE]]
            /\ Goto(a, "create")
       ELSE Goto(a, "start") /\ UNCHANGED <<row, inv>>
  /\ UNCHANGED <<run, plan, ws, dispatch, claim, verified, decision, crashes, overran>>

CreateRun(a) ==
  /\ pc[a] = "create"
  /\ \/ run' = "active" /\ Goto(a, "persist") /\ UNCHANGED <<row, inv, claim>>
     \/ Throw(a, FALSE) /\ UNCHANGED run
  /\ UNCHANGED <<plan, ws, dispatch, verified, decision, crashes, overran>>

\* persistCanonicalPlan, and the row that names run and plan
Persist(a) ==
  /\ pc[a] = "persist" /\ Goto(a, "ensure")
  /\ plan' = "planned" /\ ws' = "planned"
  /\ row' = [status |-> "running", bound |-> TRUE]
  /\ inv' = [inv EXCEPT ![a] = [status |-> "running", bound |-> TRUE]]
  /\ UNCHANGED <<run, dispatch, claim, verified, decision, crashes, overran>>

\* ensureAssignments binds the workstream once
Ensure(a, next) ==
  /\ dispatch' = IF dispatch = None THEN "pending" ELSE dispatch
  /\ Goto(a, next)

EnsureAssignments(a) ==
  /\ pc[a] = "ensure" /\ Ensure(a, "schedule")
  /\ UNCHANGED <<row, run, plan, ws, claim, verified, decision, inv, crashes, overran>>

-----------------------------------------------------------------------------
(* recoverCommand up to the shared continuation *)

\* seeded fault: a live claim does not stop a second recoverer
ClaimFreeAlways(a) == TRUE
ClaimFree(a) == claim = None

\* claim the recovery, load the graph and its assignment.  A call for a terminal
\* row, for one that names no run, or under a live claim (which reads the row for
\* up to 30 seconds) changes nothing
Recover(a) ==
  /\ pc[a] = "start" /\ a \in Recoverers
  /\ row.bound /\ row.status \notin Terminal /\ ClaimFree(a)
  /\ claim' = a /\ inv' = [inv EXCEPT ![a] = row] /\ Ensure(a, "resume")
  /\ UNCHANGED <<row, run, plan, ws, verified, decision, crashes, overran>>

Resume(a) ==
  /\ pc[a] = "resume" /\ SaveAndGo(a, "running", "schedule")
  /\ UNCHANGED <<run, plan, ws, dispatch, claim, verified, decision, crashes, overran>>

-----------------------------------------------------------------------------
(* continueExecution *)

\* listReady
Ready == ws \in {"planned", "ready"}

\* executePlan to the agent's prompt: only planned work can be marked ready
Dispatch(a) ==
  /\ pc[a] = "schedule" /\ ws = "planned" /\ Goto(a, "agent")
  /\ plan' = IF plan = "planned" THEN "running" ELSE plan
  /\ ws' = "running" /\ dispatch' = "dispatched"
  /\ UNCHANGED <<row, run, claim, verified, decision, inv, crashes, overran>>

\* git or a lease refuses the worktree, or the work was requeued as ready by a
\* restart and runReady's transition to ready is refused, as it always is then
DispatchThrows(a) ==
  /\ pc[a] = "schedule" /\ Ready
  /\ Throw(a, FALSE)
  /\ UNCHANGED <<run, plan, ws, dispatch, verified, decision, crashes, overran>>

\* nothing is ready: executePlan returns empty lists
NothingReady(a) ==
  /\ pc[a] = "schedule" /\ ~Ready /\ Goto(a, "decide")
  /\ plan' = IF plan = "running" /\ ws = "integrated" THEN "succeeded" ELSE plan
  /\ UNCHANGED <<row, run, ws, dispatch, claim, verified, decision, inv, crashes, overran>>

\* the agent returns; a workstream cancelled meanwhile refuses the transition
AgentReturns(a, good) ==
  /\ pc[a] = "agent"
  /\ dispatch' = IF good THEN "succeeded" ELSE "failed"
  /\ IF ws # "running"
       THEN Throw(a, FALSE) /\ UNCHANGED <<plan, ws>>
       ELSE \E integrates \in BOOLEAN :
              /\ ws' = IF good /\ integrates THEN "integrated" ELSE "failed"
              /\ plan' = IF plan # "running" THEN plan
                         ELSE IF ~good THEN "failed"
                         ELSE IF integrates THEN "succeeded" ELSE plan
              /\ Goto(a, IF good /\ integrates THEN "decide" ELSE "undone")
              /\ UNCHANGED <<row, inv, claim>>
  /\ UNCHANGED <<run, verified, decision, crashes, overran>>

\* after executePlan: a cancelled row, or a failed workstream, ends the call
AfterSchedule(a) ==
  /\ pc[a] \in {"decide", "undone"}
  /\ IF row.status = "cancelled"
       THEN Leave(a) /\ UNCHANGED row
       ELSE IF pc[a] = "undone"
         THEN Throw(a, TRUE)
         ELSE /\ IF NeedsVerification
                   THEN SaveAndGo(a, "verifying", "verify")
                   ELSE Goto(a, "complete") /\ UNCHANGED <<row, inv>>
              /\ UNCHANGED claim
  /\ UNCHANGED <<run, plan, ws, dispatch, verified, decision, crashes, overran>>

\* an earlier verification counts only with the pass decision that followed it
Verify(a) ==
  /\ pc[a] = "verify"
  /\ \/ /\ verified' = TRUE /\ Goto(a, "complete") /\ UNCHANGED <<row, inv, claim>>
     \/ /\ ~(verified /\ decision)
        /\ Throw(a, TRUE) /\ UNCHANGED verified
  /\ UNCHANGED <<run, plan, ws, dispatch, decision, crashes, overran>>

PlanMaySucceed == plan \in {"running", "succeeded"}

\* seeded fault: the command ends without looking at the plan
FinishBlindly(a) ==
  /\ Save(a, "completed") /\ Leave(a)
  /\ UNCHANGED plan

Finish(a) ==
  IF PlanMaySucceed
    THEN plan' = "succeeded" /\ Save(a, "completed") /\ Leave(a)
    ELSE Throw(a, FALSE) /\ UNCHANGED plan

\* reuseOrEvaluateCompletion, and the end of the command
Complete(a) ==
  /\ pc[a] = "complete"
  /\ \/ decision' = TRUE /\ Finish(a)
     \/ ~decision /\ Throw(a, TRUE) /\ UNCHANGED <<decision, plan>>
  /\ UNCHANGED <<run, ws, dispatch, verified, crashes, overran>>

-----------------------------------------------------------------------------
(* cancelCommand *)

Cancel(a) ==
  /\ pc[a] = "start" /\ a \in Cancellers
  /\ row # NoRow /\ row.status \notin Terminal
  /\ Goto(a, "stop") /\ inv' = [inv EXCEPT ![a] = row]
  /\ UNCHANGED <<row, run, plan, ws, dispatch, claim, verified, decision, crashes, overran>>

\* cancelRun, then cancelPlan and the bindings; each may refuse
StopPlan(a) ==
  /\ pc[a] = "stop"
  /\ IF ~inv[a].bound
       THEN Goto(a, "mark") /\ UNCHANGED <<run, plan, ws, dispatch, inv>>
       ELSE IF run = "cancelled"
         THEN Return(a) /\ UNCHANGED <<run, plan, ws, dispatch>>
         ELSE /\ run' = "cancelled"
              /\ ws' = IF ws \in {"planned", "ready", "running"} THEN "cancelled" ELSE ws
              /\ IF plan \in {"planned", "running"}
                   THEN /\ plan' = "cancelled" /\ Goto(a, "mark") /\ UNCHANGED inv
                        /\ dispatch' = IF dispatch = None THEN None ELSE "cancelled"
                   ELSE Return(a) /\ UNCHANGED <<plan, dispatch>>
  /\ UNCHANGED <<row, claim, verified, decision, crashes, overran>>

MarkCancelled(a) ==
  /\ pc[a] = "mark" /\ Save(a, "cancelled") /\ Return(a)
  /\ UNCHANGED <<run, plan, ws, dispatch, claim, verified, decision, crashes, overran>>

-----------------------------------------------------------------------------
(* Time, death and restart *)

AtWork(a) == pc[a] \notin {"start", "returned"}

ClaimExpires ==
  /\ claim # None /\ claim' = None
  /\ overran' = (overran \/ AtWork(claim))
  /\ UNCHANGED <<row, run, plan, ws, dispatch, verified, decision, pc, inv, crashes>>

\* recoverAfterRestart returns the running workstream to the queue
Restart ==
  /\ crashes < MaxCrashes /\ crashes' = crashes + 1
  /\ pc' = [a \in Callers |-> IF pc[a] \in {"start", "save"} THEN "start" ELSE "returned"]
  /\ inv' = [a \in Callers |-> NoRow]
  /\ ws' = IF ws = "running" THEN "ready" ELSE ws
  /\ UNCHANGED <<row, run, plan, dispatch, claim, verified, decision, overran>>

Drive(a) ==
  \/ EnsureAssignments(a) \/ Dispatch(a) \/ DispatchThrows(a) \/ NothingReady(a)
  \/ AgentReturns(a, TRUE) \/ AgentReturns(a, FALSE) \/ AfterSchedule(a)
  \/ Verify(a) \/ Complete(a)

Execute(a) == Lookup(a) \/ SavePending(a) \/ CreateRun(a) \/ Persist(a) \/ Drive(a)
RecoverStep(a) == Recover(a) \/ Resume(a) \/ Drive(a)
CancelStep(a) == Cancel(a) \/ StopPlan(a) \/ MarkCancelled(a)

Next ==
  \/ \E a \in Executors : Execute(a)
  \/ \E a \in Recoverers : RecoverStep(a)
  \/ \E a \in Cancellers : CancelStep(a)
  \/ ClaimExpires \/ Restart

Spec == Init /\ [][Next]_vars

\* the runtime goes on with the calls it has begun: agents and verifiers return
Fairness ==
  /\ \A a \in Executors : WF_vars(pc[a] # "start" /\ Execute(a))
  /\ \A a \in Recoverers : WF_vars(pc[a] # "start" /\ RecoverStep(a))
  /\ \A a \in Cancellers : WF_vars(pc[a] # "start" /\ CancelStep(a))

FairSpec == Spec /\ Fairness

-----------------------------------------------------------------------------
(* Properties *)

\* However executions, recoveries, expired claims and restarts overlap, the
\* command's workstream is prompted by at most one agent at a time, and only
\* one call owns the invocation it created.
OneAgent ==
  /\ \A a, b \in Drivers : pc[a] = "agent" /\ pc[b] = "agent" => a = b
  /\ \A a, b \in Executors : AtWork(a) /\ AtWork(b) /\ pc[a] # "save" /\ pc[b] # "save" => a = b

\* Only one recoverer is at work, unless a claim ran out under its holder.
SingleFlight ==
  ~overran => \A a, b \in Recoverers : AtWork(a) /\ AtWork(b) => a = b

\* A command recorded as completed was decided complete, and its plan
\* succeeded: no cancellation or failure of the plan lies behind it.
CompletedWasDecided ==
  row.status = "completed" => decision /\ plan = "succeeded"

\* An execution that has recorded its invocation brings it to a terminal
\* state, whatever fails, is cancelled or is recovered at the same time, as
\* long as its runtime lives.
ExecutionEnds ==
  (\E a \in Executors : pc[a] = "create") ~> (row.status \in Terminal \/ crashes > 0)

=============================================================================
