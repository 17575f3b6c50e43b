--------------------------- MODULE ChildLifecycle ---------------------------
(***************************************************************************)
(* Native child executions of one run: ChildExecutionLifecycleService, the *)
(* handles of ExecutionRegistry, RunService.cancelRun with its loop over   *)
(* the children, and the replacement barrier of the OpenCode adapter.      *)
(*                                                                         *)
(* The Task tool call c is also the name of the native session OpenCode    *)
(* creates for it.  rec[c] is the record in the maps of the service, row[c]*)
(* its row in execution_metadata.  What a handler writes it commits one    *)
(* table at a time: a new session its agent_sessions row and then, twice,  *)
(* the child's row; a transition the child's row, the assignment and the   *)
(* agent_sessions row.  The commits follow each other in one synchronous   *)
(* stretch or in microtasks, so that only the death of the process comes   *)
(* between them: pend is the one that is due.                              *)
(***************************************************************************)
EXTENDS Naturals, Sequences, FiniteSets

CONSTANTS
    Children,    \* Task tool calls of the parent session
    Agents,      \* specialists a call may name
    AgentOf,     \* the specialist of each call
    Cancellers,  \* user messages that may cancel or replace the run
    Deletable,   \* sessions the user may delete
    MaxCrashes,  \* bound on process deaths
    None

VARIABLES
    rec,       \* recordsByTaskCall
    row,       \* execution_metadata rows
    asg,       \* status of the assignment of each call
    sess,      \* agent_sessions row of each assignment: session and status
    handle,    \* activeHandles of the ExecutionRegistry
    cleaned,   \* executedCleanups of the ExecutionRegistry
    pend,      \* the commit of the running handler that is due next
    native,    \* external: what OpenCode does with each call
    bus,       \* external: session events raised and not delivered, in order
    hooks,     \* external: after-hooks of the Task tool not yet called
    run,       \* status of the run
    canc,      \* per user message: where cancelRun stands
    late,      \* aborts whose caller stopped waiting for them
    deferred,  \* status of the deferred replacement of the session
    due,       \* a drainSafeDeferredReplacements call is due
    replaced,  \* the replacing goal was started
    started,   \* children that were ever running
    crashes

service == <<rec, row, asg, sess, handle, cleaned, pend>>
outside == <<native, bus, hooks>>
control == <<run, canc, late, deferred, due, replaced>>
vars == <<rec, row, asg, sess, handle, cleaned, pend, native, bus,
          hooks, run, canc, late, deferred, due, replaced, started, crashes>>

-----------------------------------------------------------------------------

Terminal == {"completed", "failed", "cancelled"}
Active == {"queued", "running"}
ChildStates == Active \cup Terminal

Record == [st : ChildStates, req : BOOLEAN, conf : BOOLEAN,
           sess : Children \cup {None}]
SessionRow == [id : Children, st : {"running"} \cup Terminal]
Op == [c : Children, at : {"bind", "start", "assign", "session", "orphan"},
       to : {"running"} \cup Terminal]

ASSUME ChildAssumption ==
    /\ AgentOf \in [Children -> Agents]
    /\ Deletable \subseteq Children
    /\ MaxCrashes \in Nat
    /\ None \notin Children
    /\ None \notin ChildStates \cup {"pending", "in_progress"}
    /\ None \notin Record \cup SessionRow \cup Op

\* No commit is due: the event loop may take up something else.
Quiet == pend = None

Present(c) == rec[c] # None
Bound(c) == Present(c) /\ rec[c].sess # None

\* Seeded fault: the terminal guard is missing.
ValidTransitionAny(from, to) == from # to /\ to \in {"running"} \cup Terminal

\* isValidChildTransition between the states the service enters.
ValidTransition(from, to) ==
    \/ from = "queued" /\ to \in {"running"} \cup Terminal
    \/ from = "running" /\ to \in Terminal

\* The record of the session s: recordsByChildSession.
OwnersOf(s) == {c \in Children : Present(c) /\ rec[c].sess = s}

\* Unconfirmed children that hold back a replacement: the barrier and
\* cancelRun look at active ones, getDiagnosticsForRun also at terminal ones
\* whose cancellation was requested.
HoldsBack(c) == Present(c) /\ ~rec[c].conf /\ rec[c].st \in Active
TerminationPending ==
    \E c \in Children :
        HoldsBack(c) \/ (Present(c) /\ ~rec[c].conf /\ rec[c].req)

\* Record and row change together: nativeChildRepo.save.
Save(c, r) ==
    /\ rec' = [rec EXCEPT ![c] = r]
    /\ row' = [row EXCEPT ![c] = r]

\* transitionChild accepts the change: the row first, then what is awaited.
Enter(c, r) ==
    /\ Save(c, r)
    /\ pend' = [c |-> c, at |-> "assign", to |-> r.st]
    /\ started' = IF r.st = "running" THEN started \cup {c} ELSE started

\* transitionChild refuses: the state is terminal or the same.
Refuse == UNCHANGED <<rec, row, pend, started>>

\* markCompleted and markFailed up to their first await.
Mark(c, to) ==
    IF Present(c) /\ ValidTransition(rec[c].st, to)
    THEN Enter(c, [rec[c] EXCEPT !.st = to])
    ELSE Refuse

\* The confirmed branch of markCancelled.
Confirmed(c) ==
    IF ValidTransition(rec[c].st, "cancelled")
    THEN Enter(c, [rec[c] EXCEPT !.st = "cancelled", !.req = TRUE, !.conf = TRUE])
    ELSE Refuse

\* Seeded fault: a cancellation nobody confirmed is recorded as confirmed.
UnconfirmedAsStopped(c) ==
    /\ IF rec[c].st \in Active
       THEN Enter(c, [rec[c] EXCEPT !.st = "cancelled", !.req = TRUE, !.conf = TRUE])
       ELSE Refuse
    /\ handle' = [handle EXCEPT ![c] = IF @ = "open" THEN "resolved" ELSE @]

\* Seeded fault: the record is changed and not saved.
UnconfirmedUnsaved(c) ==
    /\ rec' = [rec EXCEPT ![c].req = TRUE, ![c].conf = FALSE]
    /\ handle' = [handle EXCEPT ![c] = IF @ = "open" THEN "resolved" ELSE @]
    /\ UNCHANGED <<row, pend, started>>

\* The unconfirmed branch of markCancelled: it does not look at the state
\* again, which may have become terminal during the abort.
Unconfirmed(c) ==
    /\ Save(c, [rec[c] EXCEPT !.req = TRUE, !.conf = FALSE])
    /\ handle' = [handle EXCEPT ![c] = IF @ = "open" THEN "resolved" ELSE @]
    /\ UNCHANGED <<pend, started>>

-----------------------------------------------------------------------------
(* OpenCode and the hooks that follow it. *)

Raise(e, c) == bus' = Append(bus, [e |-> e, c |-> c])
Deliver(e, c) ==
    /\ bus # <<>> /\ Head(bus) = [e |-> e, c |-> c]
    /\ bus' = Tail(bus)
    /\ UNCHANGED hooks

\* The before-hook of the Task tool: with no active run nothing is
\* registered; otherwise createAssignment inserts the row and is awaited.
TaskCalled(c) ==
    /\ Quiet
    /\ native[c] = "idle"
    /\ IF run = "active"
       THEN /\ native' = [native EXCEPT ![c] = "called"]
            /\ asg' = [asg EXCEPT ![c] = "pending"]
       ELSE /\ native' = [native EXCEPT ![c] = "allowed"]
            /\ UNCHANGED asg
    /\ UNCHANGED <<rec, row, sess, handle, cleaned, pend, bus, hooks, control,
                   started, crashes>>

\* registerDelegation after the await: the run is not looked at again.
RegisterDelegation(c) ==
    /\ Quiet
    /\ native[c] = "called"
    /\ native' = [native EXCEPT ![c] = "allowed"]
    /\ Save(c, [st |-> "queued", req |-> FALSE, conf |-> FALSE, sess |-> None])
    /\ handle' = [handle EXCEPT ![c] = "open"]
    /\ UNCHANGED <<asg, sess, cleaned, pend, bus, hooks, control, started,
                   crashes>>

NativeStart(c) ==
    /\ Quiet
    /\ native[c] = "allowed"
    /\ native' = [native EXCEPT ![c] = "live"]
    /\ Raise("created", c)
    /\ UNCHANGED <<hooks, service, control, started, crashes>>

\* The tool call ends before it has a session.
NativeRefuse(c) ==
    /\ Quiet
    /\ native[c] = "allowed"
    /\ native' = [native EXCEPT ![c] = "dead"]
    /\ UNCHANGED <<service, bus, hooks, control, started, crashes>>

NativeEnd(c) ==
    /\ Quiet
    /\ native[c] = "live"
    /\ native' = [native EXCEPT ![c] = "stopped"]
    /\ \/ hooks' = hooks \cup {c} /\ UNCHANGED bus
       \/ Raise("error", c) /\ UNCHANGED hooks
    /\ UNCHANGED <<service, control, started, crashes>>

NativeDelete(c) ==
    /\ Quiet
    /\ c \in Deletable /\ native[c] \in {"live", "stopped"}
    /\ native' = [native EXCEPT ![c] = "deleted"]
    /\ Raise("deleted", c)
    /\ UNCHANGED <<hooks, service, control, started, crashes>>

-----------------------------------------------------------------------------
(* Event handlers of the adapter. *)

\* bindChildSession looks for the only unbound record of that specialist.
Candidates(s) ==
    {c \in Children : Present(c) /\ rec[c].sess = None /\ AgentOf[c] = AgentOf[s]}

\* session.created: bindChildSession binds the record and inserts the
\* agent_sessions row.
SessionCreated(s) ==
    /\ Quiet
    /\ Deliver("created", s)
    /\ \/ /\ Cardinality(Candidates(s)) = 1
          /\ OwnersOf(s) = {}
          /\ \E c \in Candidates(s) :
                LET st == IF rec[c].st = "queued" THEN "running" ELSE rec[c].st IN
                /\ rec' = [rec EXCEPT ![c] = [@ EXCEPT !.sess = s]]
                /\ sess' = [sess EXCEPT ![c] = [id |-> s, st |-> st]]
                /\ pend' = [c |-> c, at |-> "bind", to |-> "running"]
       \/ /\ Cardinality(Candidates(s)) # 1 \/ OwnersOf(s) # {}
          /\ UNCHANGED <<rec, sess, pend>>
    /\ UNCHANGED <<row, asg, handle, cleaned, native, control, started, crashes>>

\* bindChildSession ends: nativeChildRepo.save of the bound record.
SaveBinding ==
    /\ ~Quiet /\ pend.at = "bind"
    /\ row' = [row EXCEPT ![pend.c] = rec[pend.c]]
    /\ pend' = [pend EXCEPT !.at = "start"]
    /\ UNCHANGED <<rec, asg, sess, handle, cleaned, outside, control, started,
                   crashes>>

\* markStarted up to its await.
MarkStarted ==
    /\ ~Quiet /\ pend.at = "start"
    /\ \/ /\ ValidTransition(rec[pend.c].st, "running")
          /\ Enter(pend.c, [rec[pend.c] EXCEPT !.st = "running"])
       \/ /\ ~ValidTransition(rec[pend.c].st, "running")
          /\ pend' = None
          /\ UNCHANGED <<rec, row, started>>
    /\ UNCHANGED <<asg, sess, handle, cleaned, outside, control, crashes>>

\* The after-hook of the Task tool: markCompleted by call.
ToolAfter(c) ==
    /\ Quiet
    /\ c \in hooks
    /\ hooks' = hooks \ {c}
    /\ Mark(c, "completed")
    /\ UNCHANGED <<bus, asg, sess, handle, cleaned, native, control, crashes>>

\* session.error: markFailed by session.
SessionError(s) ==
    /\ Quiet
    /\ Deliver("error", s)
    /\ \/ \E c \in OwnersOf(s) : Mark(c, "failed")
       \/ OwnersOf(s) = {} /\ Refuse
    /\ UNCHANGED <<asg, sess, handle, cleaned, native, control, crashes>>

\* session.deleted: confirmNativeTermination when a cancellation is waiting
\* for it, then a drain.
SessionDeleted(s) ==
    /\ Quiet
    /\ Deliver("deleted", s)
    /\ \/ \E c \in OwnersOf(s) :
             /\ IF (rec[c].req \/ rec[c].st = "cancelled") /\ ~rec[c].conf
                THEN Confirmed(c)
                ELSE Refuse
             /\ due' = TRUE
       \/ OwnersOf(s) = {} /\ Refuse /\ UNCHANGED due
    /\ UNCHANGED <<asg, sess, handle, cleaned, native, run, canc, late,
                   deferred, replaced, crashes>>

-----------------------------------------------------------------------------
(* The commits that follow the await. *)

\* Seeded fault: the child's state is written as the assignment's.
AssignmentUnmapped(st) == st

\* The assignment status of a child state.
AssignmentOf(st) == IF st = "running" THEN "in_progress" ELSE st

\* What a mark* method does after its transition: the assignment first.  The
\* orphan check of cancelRun ends with the same write.
WriteAssignment ==
    /\ ~Quiet /\ pend.at \in {"assign", "orphan"}
    /\ asg' = [asg EXCEPT ![pend.c] = AssignmentOf(pend.to)]
    /\ pend' = IF pend.at = "assign" THEN [pend EXCEPT !.at = "session"] ELSE None
    /\ UNCHANGED <<rec, row, sess, handle, cleaned, outside, control, started,
                   crashes>>

\* Then the agent_sessions row and, in a terminal state, the registry handle.
Settle ==
    /\ ~Quiet /\ pend.at = "session"
    /\ sess' = IF Bound(pend.c)
               THEN [sess EXCEPT ![pend.c] = [@ EXCEPT !.st = pend.to]] ELSE sess
    /\ IF pend.to \in Terminal
       THEN /\ handle' = [handle EXCEPT ![pend.c] = "none"]
            /\ cleaned' = cleaned \ {pend.c}
       ELSE UNCHANGED <<handle, cleaned>>
    /\ pend' = None
    /\ UNCHANGED <<rec, row, asg, outside, control, started, crashes>>

-----------------------------------------------------------------------------
(* cancelRun: the loop of cancelChildrenForRun, one user message each. *)

Goto(p, pc) == canc' = [canc EXCEPT ![p] = [@ EXCEPT !.pc = pc]]
Leave(p) ==
    canc' = [canc EXCEPT ![p] = [canc[p] EXCEPT !.pc = "next",
                                                !.todo = @ \ {canc[p].cur}]]

CancelRun(p, kind) ==
    /\ Quiet
    /\ canc[p].pc = "idle"
    /\ run = "active"
    /\ canc' = [canc EXCEPT ![p] =
                   [pc |-> "next", kind |-> kind, cur |-> None,
                    todo |-> {c \in Children : Present(c) /\ rec[c].st \in Active}]]
    /\ UNCHANGED <<service, outside, run, late, deferred, due, replaced, started,
                   crashes>>

\* markCancelled for the next child: a queued child without a session counts
\* as stopped, a bound one is aborted.
CancelNext(p, c) ==
    /\ Quiet
    /\ canc[p].pc = "next" /\ c \in canc[p].todo
    /\ LET go(pc) == canc' = [canc EXCEPT ![p] = [@ EXCEPT !.pc = pc, !.cur = c]] IN
       \/ rec[c].st \in Terminal /\ Refuse /\ go("handle")
       \/ rec[c].st = "queued" /\ ~Bound(c) /\ Confirmed(c) /\ go("handle")
       \/ rec[c].st \in Active /\ Bound(c) /\ Refuse /\ go("abort")
    /\ UNCHANGED <<asg, sess, handle, cleaned, outside, run, late, deferred,
                   due, replaced, crashes>>

\* The reply to session.abort.  An abort that reports success stopped the
\* session; one that fails may have stopped it all the same.
Reply(c, ok) ==
    /\ native' \in {native, [native EXCEPT ![rec[c].sess] =
                                IF @ = "live" THEN "stopped" ELSE @]}
    /\ ok => native'[rec[c].sess] # "live"
    /\ IF ok THEN Confirmed(c) /\ UNCHANGED handle ELSE Unconfirmed(c)

AbortReply(p, ok) ==
    /\ Quiet
    /\ canc[p].pc = "abort"
    /\ Reply(canc[p].cur, ok)
    /\ Goto(p, "handle")
    /\ UNCHANGED <<asg, sess, cleaned, bus, hooks, run, late, deferred, due,
                   replaced, crashes>>

\* Seeded fault: the loop stays with a child until its stop is confirmed.
CancelHandleInsists(p) ==
    LET c == canc[p].cur IN
    /\ Quiet
    /\ canc[p].pc = "handle"
    /\ IF rec[c].conf \/ rec[c].st \in Terminal THEN Leave(p) ELSE Goto(p, "abort")
    /\ handle' = [handle EXCEPT ![c] = "none"]
    /\ UNCHANGED <<rec, row, asg, sess, cleaned, pend, outside, run, late,
                   deferred, due, replaced, started, crashes>>

\* cancelRunExecution of the child: no handle, nothing to do; otherwise the
\* handle is resolved by now, and its cleanup runs once: markCancelled again.
CancelHandle(p) ==
    LET c == canc[p].cur IN
    /\ Quiet
    /\ canc[p].pc = "handle"
    /\ \/ /\ handle[c] = "none"
          /\ Leave(p)
          /\ UNCHANGED <<handle, cleaned>>
       \/ /\ handle[c] = "resolved"
          /\ cleaned' = cleaned \cup {c}
          /\ IF c \in cleaned \/ rec[c].st \in Terminal
             THEN handle' = [handle EXCEPT ![c] = "none"] /\ Leave(p)
             ELSE UNCHANGED handle /\ Goto(p, "abort2")
    /\ UNCHANGED <<rec, row, asg, sess, pend, outside, run, late, deferred,
                   due, replaced, started, crashes>>

\* The second abort, made by the cleanup, answers in time: the handle goes.
CleanupReply(p, ok) ==
    LET c == canc[p].cur IN
    /\ Quiet
    /\ canc[p].pc = "abort2"
    /\ native' \in {native, [native EXCEPT ![rec[c].sess] =
                                IF @ = "live" THEN "stopped" ELSE @]}
    /\ ok => native'[rec[c].sess] # "live"
    /\ IF ok THEN Confirmed(c)
             ELSE /\ Save(c, [rec[c] EXCEPT !.req = TRUE, !.conf = FALSE])
                  /\ UNCHANGED <<pend, started>>
    /\ handle' = [handle EXCEPT ![c] = "none"]
    /\ Leave(p)
    /\ UNCHANGED <<asg, sess, cleaned, bus, hooks, run, late, deferred, due,
                   replaced, crashes>>

\* The cleanup is given up after five seconds; its abort is still under way.
CleanupTimeout(p) ==
    /\ Quiet
    /\ canc[p].pc = "abort2"
    /\ late' = late \cup {canc[p].cur}
    /\ Leave(p)
    /\ UNCHANGED <<service, outside, run, deferred, due, replaced, started, crashes>>

LateReply(c, ok) ==
    /\ Quiet
    /\ c \in late
    /\ late' = late \ {c}
    /\ Reply(c, ok)
    /\ UNCHANGED <<asg, sess, cleaned, bus, hooks, run, canc, deferred, due,
                   replaced, crashes>>

\* Seeded fault: the orphan check does not ask for a confirmed termination.
OrphanAny(c) == Bound(c) /\ sess[c].st = "running"

\* A session row that is still running although its child's end is confirmed.
Orphan(c) == Bound(c) /\ sess[c].st = "running" /\ rec[c].conf

\* The orphan check: the session row follows, and then the assignment.
CancelOrphan(p, c) ==
    /\ Quiet
    /\ canc[p].pc = "next" /\ canc[p].todo = {}
    /\ Orphan(c)
    /\ sess' = [sess EXCEPT ![c] = [@ EXCEPT !.st = "cancelled"]]
    /\ pend' = [c |-> c, at |-> "orphan", to |-> "cancelled"]
    /\ UNCHANGED <<rec, row, asg, handle, cleaned, outside, control, started,
                   crashes>>

\* No orphan is left: the run is cancelled.
CancelRunEnd(p) ==
    /\ Quiet
    /\ canc[p].pc = "next" /\ canc[p].todo = {}
    /\ \A c \in Children : ~Orphan(c)
    /\ run' = "cancelled"
    /\ Goto(p, "barrier")
    /\ UNCHANGED <<service, outside, late, deferred, due, replaced, started,
                   crashes>>

\* cancelAndCheckReplacementSafety and what the message does with it:
\* savePending, or the new goal starts; a plain cancel drops the deferred one.
Barrier(p) ==
    /\ Quiet
    /\ canc[p].pc = "barrier"
    /\ \/ /\ canc[p].kind = "cancel"
          /\ deferred' = IF deferred = "pending" THEN "cancelled" ELSE deferred
          /\ UNCHANGED replaced
       \/ /\ canc[p].kind = "replace"
          /\ IF \E c \in Children : HoldsBack(c)
             THEN deferred' = "pending" /\ UNCHANGED replaced
             ELSE replaced' = TRUE /\ UNCHANGED deferred
    /\ Goto(p, "idle")
    /\ UNCHANGED <<service, outside, run, late, due, started, crashes>>

-----------------------------------------------------------------------------
(* The deferred replacement. *)

\* drainSafeDeferredReplacements up to claimForResume.
Drain ==
    /\ Quiet
    /\ due
    /\ due' = FALSE
    /\ IF deferred = "pending" /\ ~TerminationPending
       THEN deferred' = "resuming" /\ replaced' = TRUE
       ELSE UNCHANGED <<deferred, replaced>>
    /\ UNCHANGED <<service, outside, run, canc, late, started, crashes>>

-----------------------------------------------------------------------------

\* reconcileAfterRestart: rows are loaded; in memory only, the agent_sessions
\* row binds a record whose row names no session, and ends an active one.
Reconciled ==
    [c \in Children |->
        IF row[c] = None \/ sess[c] = None THEN row[c]
        ELSE [row[c] EXCEPT
                !.sess = IF @ = None THEN sess[c].id ELSE @,
                !.st = IF @ \in Active /\ sess[c].st \in Terminal
                       THEN sess[c].st ELSE @]]

Idle == [pc |-> "idle", kind |-> "cancel", cur |-> None, todo |-> {}]

\* The process dies with the sessions it runs, and starts again.
CrashAndRestart ==
    /\ crashes < MaxCrashes
    /\ crashes' = crashes + 1
    /\ rec' = Reconciled
    /\ handle' = [c \in Children |-> "none"]
    /\ cleaned' = {}
    /\ pend' = None
    /\ native' = [c \in Children |->
                     CASE native[c] = "live" -> "stopped"
                       [] native[c] \in {"called", "allowed"} -> "dead"
                       [] OTHER -> native[c]]
    /\ bus' = <<>> /\ hooks' = {}
    /\ canc' = [p \in Cancellers |-> Idle]
    /\ late' = {}
    /\ due' = TRUE
    /\ deferred' = IF deferred = "resuming" THEN "pending" ELSE deferred
    /\ UNCHANGED <<row, asg, sess, run, replaced, started>>

Init ==
    /\ rec = [c \in Children |-> None]
    /\ row = rec
    /\ asg = [c \in Children |-> None]
    /\ sess = [c \in Children |-> None]
    /\ handle = [c \in Children |-> "none"]
    /\ cleaned = {}
    /\ pend = None
    /\ native = [c \in Children |-> "idle"]
    /\ bus = <<>> /\ hooks = {}
    /\ run = "active"
    /\ canc = [p \in Cancellers |-> Idle]
    /\ late = {}
    /\ deferred = "none"
    /\ due = FALSE
    /\ replaced = FALSE
    /\ started = {}
    /\ crashes = 0

Native == \E c \in Children :
    \/ TaskCalled(c) \/ NativeStart(c) \/ NativeRefuse(c) \/ NativeEnd(c)
    \/ NativeDelete(c)

Handlers == \E c \in Children :
    \/ RegisterDelegation(c) \/ SessionCreated(c) \/ ToolAfter(c)
    \/ SessionError(c) \/ SessionDeleted(c)

CancelSteps(p) ==
    \/ \E c \in Children : CancelNext(p, c)
    \/ \E ok \in BOOLEAN : AbortReply(p, ok) \/ CleanupReply(p, ok)
    \/ \E c \in Children : CancelOrphan(p, c)
    \/ CancelHandle(p) \/ CleanupTimeout(p) \/ CancelRunEnd(p) \/ Barrier(p)

Commits == SaveBinding \/ MarkStarted \/ WriteAssignment \/ Settle

Next ==
    \/ Native \/ Handlers
    \/ Commits
    \/ \E p \in Cancellers, kind \in {"cancel", "replace"} : CancelRun(p, kind)
    \/ \E p \in Cancellers : CancelSteps(p)
    \/ \E c \in Children, ok \in BOOLEAN : LateReply(c, ok)
    \/ Drain
    \/ CrashAndRestart

Spec == Init /\ [][Next]_vars

\* The event loop takes up every handler, timer and reply that is due; what
\* OpenCode and the user do is not promised.
FairSpec ==
    /\ Spec
    /\ \A c \in Children :
        /\ WF_vars(RegisterDelegation(c))
        /\ WF_vars(ToolAfter(c))
        /\ WF_vars(SessionCreated(c) \/ SessionError(c) \/ SessionDeleted(c))
    /\ WF_vars(Commits) /\ WF_vars(Drain)
    /\ \A p \in Cancellers : WF_vars(CancelSteps(p))

-----------------------------------------------------------------------------

Event == [e : {"created", "error", "deleted"}, c : Children]
NativeStates == {"idle", "called", "allowed", "live", "stopped", "deleted", "dead"}
CancelState ==
    [pc : {"idle", "next", "abort", "handle", "abort2", "barrier"},
     kind : {"cancel", "replace"}, cur : Children \cup {None}, todo : SUBSET Children]

TypeOK ==
    /\ rec \in [Children -> Record \cup {None}]
    /\ row \in [Children -> Record \cup {None}]
    /\ asg \in [Children -> {None, "pending", "in_progress"} \cup Terminal]
    /\ sess \in [Children -> SessionRow \cup {None}]
    /\ handle \in [Children -> {"none", "open", "resolved"}]
    /\ cleaned \in SUBSET Children
    /\ pend \in Op \cup {None}
    /\ native \in [Children -> NativeStates]
    /\ bus \in Seq(Event)
    /\ hooks \in SUBSET Children
    /\ run \in {"active", "cancelled"}
    /\ canc \in [Cancellers -> CancelState]
    /\ late \in SUBSET Children
    /\ deferred \in {"none", "pending", "resuming", "cancelled"}
    /\ due \in BOOLEAN /\ replaced \in BOOLEAN
    /\ started \in SUBSET Children
    /\ crashes \in 0 .. MaxCrashes

\* What the service serves from memory is what a restart would rebuild from
\* the rows of the children and of their sessions, wherever between two commits
\* the process dies: the child's row alone may lack the session for good.
RestartRestores == rec = Reconciled

\* An assignment is finished only as its child's row says: the row is written
\* first, and no late write of another transition overtakes it.
AssignmentFollowsChild ==
    \A c \in Children :
        asg[c] \in Terminal => row[c] # None /\ row[c].st = asg[c]

\* The state a child ended in is never replaced in its row, whatever events,
\* cancellations, late aborts or restarts follow.
EndIsFinal ==
    [][\A c \in Children :
          (row[c] # None /\ row[c].st \in Terminal)
              => (row'[c] # None /\ row'[c].st = row[c].st)]_vars

\* When a replacing goal starts, at once or from the deferred row, the session
\* of every child that was seen running, and bound to its own session, has
\* stopped.
ReplacedAfterStop ==
    [][(replaced' /\ ~replaced)
          => \A c \in started : rec[c].sess = c => native[c] # "live"]_vars

\* cancelRun returns, provided that the first abort of each child is answered:
\* no handle, no second abort and no cleanup holds it for ever.
CancelReturns ==
    \A p \in Cancellers : canc[p].pc # "idle" ~> canc[p].pc = "idle"

=============================================================================
