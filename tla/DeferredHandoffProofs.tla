------------------------ MODULE DeferredHandoffProofs ------------------------
(***************************************************************************)
(* The invariants and action properties of DeferredHandoff for any number  *)
(* of goals, user turns, drains and starts.                                *)
(***************************************************************************)
EXTENDS DeferredHandoff, TLAPS

\* A drain that has taken up a goal names it, and a prompt under way has its
\* dispatch row.
DrainHolds ==
    \A p \in Drains :
        /\ drain[p].pc \in {"claimed", "prompt", "settle"} => drain[p].goal \in Goals
        /\ drain[p].pc = "prompt" => disp[drain[p].goal] # None
        /\ drain[p].pc = "settle" /\ drain[p].res = "dispatched"
              => drain[p].goal \in acked

\* Prompts are counted by the dispatch row, and all but the last one have been
\* reported failed; in a failed row the last one has been, too.
RowCounts ==
    \A d \in Goals :
        /\ disp[d] = None => sent[d] = 0
        /\ disp[d] # None => /\ sent[d] <= disp[d].n
                             /\ disp[d].n <= 2
                             /\ disp[d].st = "failed" => sent[d] <= reported[d]
                             /\ disp[d].st = "dispatched" => d \in acked
        /\ sent[d] <= reported[d] + 1

\* Only the newest goal is active, and later ones are not saved yet.
ActiveIsNewest ==
    \A d \in Goals : (stat[d] \in ActiveRows => d = n) /\ (d > n => stat[d] = None)

Inv ==
    /\ TypeOK
    /\ DrainHolds
    /\ RowCounts
    /\ ActiveIsNewest
    /\ ResumedWasPrompted

-----------------------------------------------------------------------------

\* Replacing the state of one drain keeps the type.
LEMMA DrainUpdate ==
    ASSUME NEW f \in [Drains -> DrainState], NEW p \in Drains, NEW r \in DrainState
    PROVE  [f EXCEPT ![p] = r] \in [Drains -> DrainState]
OBVIOUS

\* The state of a drain between two goals.
LEMMA LoopState ==
    ASSUME NEW T \in SUBSET Goals
    PROVE  /\ [Idle EXCEPT !.pc = "loop", !.todo = T] \in DrainState
           /\ [Idle EXCEPT !.pc = "loop", !.todo = T].pc = "loop"
BY DEF Idle, DrainState

\* Entering the settle step.
LEMMA SettleType ==
    ASSUME TypeOK, NEW p \in Drains, NEW d \in Goals, NEW t \in Nat,
           NEW res \in {"dispatched", "unknown", "failed", "nothing"},
           Settle(p, d, t, res)
    PROVE  /\ drain' \in [Drains -> DrainState]
           /\ drain'[p].pc = "settle" /\ drain'[p].goal = d /\ drain'[p].res = res
           /\ \A q \in Drains : q # p => drain'[q] = drain[q]
BY DEF TypeOK, Settle, DrainState

\* A conditional update keeps the type of the rows.
LEMMA MoveType ==
    ASSUME NEW s \in [Goals -> Statuses \cup {None}], NEW d \in Goals,
           NEW from, NEW to \in Statuses
    PROVE  /\ Move(s, d, from, to) \in [Goals -> Statuses \cup {None}]
           /\ \A e \in Goals : e # d => Move(s, d, from, to)[e] = s[e]
           /\ Move(s, d, from, to)[d] = IF s[d] \in from THEN to ELSE s[d]
BY DEF Move

LEMMA InitInv == Init => Inv
<1> SUFFICES ASSUME Init PROVE Inv
  OBVIOUS
<1> USE HandoffAssumption
<1>1. TypeOK
  BY DEF Init, TypeOK, Idle, DrainState, Goals
<1>2. DrainHolds
  BY DEF Init, DrainHolds, Idle
<1>3. RowCounts
  BY DEF Init, RowCounts, Goals
<1>4. ActiveIsNewest /\ ResumedWasPrompted
  BY DEF Init, ActiveIsNewest, ResumedWasPrompted, ActiveRows, Statuses
<1> QED
  BY <1>1, <1>2, <1>3, <1>4 DEF Inv

-----------------------------------------------------------------------------
(* The user and the old run. *)

LEMMA SavePendingInv ==
    ASSUME Inv, NEW cl \in {"fast", "orchestrated"}, SavePending(cl)
    PROVE  Inv'
<1> USE HandoffAssumption
<1>1. n + 1 \in Goals /\ n' = n + 1 /\ n' \in 0 .. MaxGoals
  BY DEF Inv, TypeOK, SavePending, Goals
<1>2. stat' \in [Goals -> Statuses \cup {None}]
  BY <1>1 DEF Inv, TypeOK, SavePending, Superseded, Statuses
<1>3. TypeOK'
  BY <1>1, <1>2 DEF Inv, TypeOK, SavePending, NextTurn, history
<1>4. DrainHolds' /\ RowCounts'
  BY DEF Inv, SavePending, history, DrainHolds, RowCounts
<1>5. /\ n \in Nat /\ stat \in [Goals -> Statuses \cup {None}]
      /\ stat' = [Superseded EXCEPT ![n + 1] = "pending_termination"]
  BY DEF Inv, TypeOK, SavePending
<1>6. \A d \in Goals :
        /\ d \in Nat
        /\ d # n + 1 => stat'[d] = IF stat[d] \in ActiveRows THEN "superseded" ELSE stat[d]
        /\ d = n + 1 => stat'[d] = "pending_termination"
        /\ stat[d] = None => stat[d] \notin ActiveRows
  <2> TAKE d \in Goals
  <2>1. d \in Nat
    BY DEF Goals
  <2>2. stat[d] = None => stat[d] \notin ActiveRows
    BY DEF ActiveRows, Statuses
  <2> QED
    BY <1>1, <1>5, <2>1, <2>2 DEF Superseded
<1>7. ActiveIsNewest'
  <2> SUFFICES ASSUME NEW d \in Goals
               PROVE  (stat'[d] \in ActiveRows => d = n') /\ (d > n' => stat'[d] = None)
    BY DEF ActiveIsNewest
  <2>1. "superseded" \notin ActiveRows
    BY DEF ActiveRows
  <2> QED
    BY <1>1, <1>5, <1>6, <2>1 DEF Inv, ActiveIsNewest
<1>8. ResumedWasPrompted'
  BY <1>6 DEF Inv, ResumedWasPrompted, SavePending, history
<1> QED
  BY <1>3, <1>4, <1>7, <1>8 DEF Inv

LEMMA UserInv ==
    ASSUME Inv, CancelCurrent \/ Chat \/ ChildStops
    PROVE  Inv'
<1> USE HandoffAssumption
<1>1. CASE CancelCurrent
  <2>1. TypeOK'
    BY <1>1 DEF Inv, TypeOK, CancelCurrent, NextTurn, history, Statuses
  <2>2. DrainHolds' /\ RowCounts'
    BY <1>1 DEF Inv, CancelCurrent, history, DrainHolds, RowCounts
  <2>3. ActiveIsNewest' /\ ResumedWasPrompted'
    BY <1>1 DEF Inv, TypeOK, CancelCurrent, history, ActiveIsNewest,
       ResumedWasPrompted, ActiveRows
  <2> QED
    BY <2>1, <2>2, <2>3 DEF Inv
<1>2. CASE Chat
  <2>1. TypeOK'
    BY <1>2 DEF Inv, TypeOK, Chat, NextTurn, history
  <2> QED
    BY <1>2, <2>1 DEF Inv, Chat, history, DrainHolds, RowCounts, ActiveIsNewest,
       ResumedWasPrompted
<1>3. CASE ChildStops
  <2>1. TypeOK'
    BY <1>3 DEF Inv, TypeOK, ChildStops, rows, history
  <2> QED
    BY <1>3, <2>1 DEF Inv, ChildStops, rows, history, DrainHolds, RowCounts,
       ActiveIsNewest, ResumedWasPrompted
<1> QED
  BY <1>1, <1>2, <1>3

-----------------------------------------------------------------------------
(* Drains. *)

LEMMA LoopInv ==
    ASSUME Inv, NEW p \in Drains,
           StartDrain(p) \/ EndDrain(p) \/ \E d \in Goals : SkipGoal(p, d)
    PROVE  Inv'
<1> USE HandoffAssumption
<1>1. /\ drain' \in [Drains -> DrainState]
      /\ drain'[p].pc \in {"idle", "loop"}
      /\ \A q \in Drains : q # p => drain'[q] = drain[q]
  <2>1. CASE StartDrain(p)
    <3>1. {d \in 1 .. n : Ready(d)} \in SUBSET Goals
      BY DEF Inv, TypeOK, Goals
    <3>2. PICK T \in SUBSET Goals :
             drain' = [drain EXCEPT ![p] = [Idle EXCEPT !.pc = "loop", !.todo = T]]
      BY <2>1, <3>1 DEF StartDrain
    <3>3. [Idle EXCEPT !.pc = "loop", !.todo = T] \in DrainState
      BY LoopState
    <3> QED
      BY <3>2, <3>3, LoopState DEF Inv, TypeOK
  <2>2. CASE EndDrain(p)
    BY <2>2 DEF Inv, TypeOK, EndDrain, Idle, DrainState
  <2>3. CASE \E d \in Goals : SkipGoal(p, d)
    <3> PICK d \in Goals : SkipGoal(p, d)
      BY <2>3
    <3>1. drain[p] \in DrainState /\ drain[p].pc = "loop"
      BY DEF Inv, TypeOK, SkipGoal, Listed
    <3> DEFINE r == [drain[p] EXCEPT !.todo = @ \ {d}]
    <3>2. r \in DrainState /\ r.pc = "loop"
      BY <3>1 DEF DrainState
    <3>3. drain' = [drain EXCEPT ![p] = r]
      BY DEF SkipGoal
    <3> HIDE DEF r
    <3> QED
      BY <3>2, <3>3 DEF Inv, TypeOK
  <2> QED
    BY <2>1, <2>2, <2>3
<1>2. UNCHANGED <<n, stat, class, hasRun, disp, turn, childPending, sent, reported,
                  acked, starts>>
  BY DEF StartDrain, EndDrain, SkipGoal, rows, history
<1>3. TypeOK'
  BY <1>1, <1>2 DEF Inv, TypeOK
<1>4. DrainHolds'
  BY <1>1, <1>2 DEF Inv, DrainHolds
<1> QED
  BY <1>2, <1>3, <1>4 DEF Inv, RowCounts, ActiveIsNewest, ResumedWasPrompted

LEMMA ClaimInv ==
    ASSUME Inv, NEW p \in Drains, NEW d \in Goals, Claim(p, d)
    PROVE  Inv'
<1> USE HandoffAssumption
<1>1. /\ drain' \in [Drains -> DrainState]
      /\ drain'[p].pc = "claimed" /\ drain'[p].goal = d
      /\ \A q \in Drains : q # p => drain'[q] = drain[q]
  BY DEF Inv, TypeOK, Claim, DrainState
<1>2. TypeOK'
  BY <1>1 DEF Inv, TypeOK, Claim, history, Statuses
<1>3. DrainHolds'
  BY <1>1 DEF Inv, DrainHolds, Claim, history
<1>4. RowCounts'
  BY DEF Inv, Claim, RowCounts, history
<1>5. ActiveIsNewest' /\ ResumedWasPrompted'
  BY DEF Inv, TypeOK, Claim, history, ActiveIsNewest, ResumedWasPrompted, ActiveRows,
     Claimable
<1> QED
  BY <1>2, <1>3, <1>4, <1>5 DEF Inv

\* The row a claim leaves is well typed and counts one more attempt.
LEMMA ClaimedRowFacts ==
    ASSUME Inv, NEW d \in Goals, NEW t \in Nat, ClaimableRow(d, t)
    PROVE  /\ ClaimedRow(d, t) \in DispatchRow
           /\ ClaimedRow(d, t).st = "pending"
           /\ ClaimedRow(d, t).n <= 2
           /\ sent[d] + 1 <= ClaimedRow(d, t).n
           /\ sent[d] <= reported[d]
<1> USE HandoffAssumption
<1>1. CASE disp[d] = None
  BY <1>1 DEF Inv, TypeOK, RowCounts, ClaimedRow, DispatchRow, DispatchStatuses
<1>2. CASE disp[d] # None
  <2>1. /\ disp[d] \in DispatchRow /\ disp[d].st = "failed" /\ disp[d].n < 2
        /\ sent[d] \in Nat /\ reported[d] \in Nat
        /\ sent[d] <= disp[d].n /\ sent[d] <= reported[d]
    BY <1>2 DEF Inv, TypeOK, RowCounts, ClaimableRow, MaxAttempts
  <2>2. ClaimedRow(d, t) = [st |-> "pending", n |-> disp[d].n + 1, turn |-> disp[d].turn]
    BY <1>2, <2>1 DEF ClaimedRow, DispatchRow
  <2> QED
    BY <2>1, <2>2 DEF DispatchRow, DispatchStatuses
<1> QED
  BY <1>1, <1>2

\* What dispatch does to the dispatch rows, the counts and the drain.
LEMMA DispatchInv ==
    ASSUME Inv, NEW p \in Drains, NEW d \in Goals, NEW t \in Nat, NEW s,
           Dispatch(p, d, t, s), UNCHANGED <<reported, acked>>
    PROVE  /\ disp' \in [Goals -> DispatchRow \cup {None}]
           /\ sent' \in [Goals -> Nat]
           /\ drain' \in [Drains -> DrainState]
           /\ DrainHolds'
           /\ RowCounts'
<1> USE HandoffAssumption
<1>0. /\ disp \in [Goals -> DispatchRow \cup {None}] /\ None \notin DispatchRow
      /\ sent \in [Goals -> Nat] /\ reported \in [Goals -> Nat]
      /\ drain \in [Drains -> DrainState]
      /\ DrainHolds /\ RowCounts
  BY DEF Inv, TypeOK
<1>1. CASE s[d] \notin InHandoff
  <2>1. Settle(p, d, t, "nothing") /\ UNCHANGED <<disp, sent>>
    BY <1>1 DEF Dispatch
  <2>2. /\ drain' \in [Drains -> DrainState]
        /\ drain'[p].pc = "settle" /\ drain'[p].goal = d /\ drain'[p].res = "nothing"
        /\ \A q \in Drains : q # p => drain'[q] = drain[q]
    BY <2>1, SettleType DEF Inv
  <2>3. DrainHolds'
    BY <1>0, <2>1, <2>2 DEF DrainHolds
  <2> QED
    BY <1>0, <2>1, <2>2, <2>3 DEF RowCounts
<1>2. CASE s[d] \in InHandoff /\ ClaimableRow(d, t)
  <2>0. /\ ClaimedRow(d, t) \in DispatchRow
        /\ ClaimedRow(d, t).st = "pending"
        /\ ClaimedRow(d, t).n <= 2
        /\ sent[d] + 1 <= ClaimedRow(d, t).n
        /\ sent[d] <= reported[d]
    BY <1>2, ClaimedRowFacts
  <2>1. CASE /\ disp' = [disp EXCEPT ![d] = ClaimedRow(d, t)]
             /\ sent' = [sent EXCEPT ![d] = @ + 1]
             /\ drain' = [drain EXCEPT ![p] = [@ EXCEPT !.pc = "prompt", !.goal = d,
                                                     !.turn = t]]
    <3>1. /\ drain' \in [Drains -> DrainState]
          /\ drain'[p].pc = "prompt" /\ drain'[p].goal = d
          /\ \A q \in Drains : q # p => drain'[q] = drain[q]
      BY <1>0, <2>1 DEF DrainState
    <3>2. /\ disp' \in [Goals -> DispatchRow \cup {None}] /\ sent' \in [Goals -> Nat]
          /\ disp'[d] = ClaimedRow(d, t) /\ sent'[d] = sent[d] + 1
          /\ \A e \in Goals : e # d => disp'[e] = disp[e] /\ sent'[e] = sent[e]
      BY <1>0, <2>0, <2>1
    <3>3. DrainHolds'
      BY <1>0, <2>0, <3>1, <3>2 DEF DrainHolds
    <3>4. RowCounts'
      BY <1>0, <2>0, <3>2 DEF RowCounts
    <3> QED
      BY <3>1, <3>2, <3>3, <3>4
  <2>2. CASE /\ disp' = [disp EXCEPT ![d] = [ClaimedRow(d, t) EXCEPT !.st = "failed"]]
             /\ Settle(p, d, t, "nothing")
             /\ UNCHANGED sent
    <3> DEFINE r == [ClaimedRow(d, t) EXCEPT !.st = "failed"]
    <3>0. r \in DispatchRow /\ r.st = "failed" /\ r.n = ClaimedRow(d, t).n
      BY <2>0 DEF DispatchRow, DispatchStatuses
    <3> HIDE DEF r
    <3>1. /\ drain' \in [Drains -> DrainState]
          /\ drain'[p].pc = "settle" /\ drain'[p].goal = d /\ drain'[p].res = "nothing"
          /\ \A q \in Drains : q # p => drain'[q] = drain[q]
      BY <2>2, SettleType DEF Inv
    <3>2. /\ disp' \in [Goals -> DispatchRow \cup {None}] /\ disp'[d] = r
          /\ \A e \in Goals : e # d => disp'[e] = disp[e]
      BY <1>0, <3>0, <2>2 DEF r
    <3>3. DrainHolds'
      BY <1>0, <3>0, <3>1, <3>2 DEF DrainHolds
    <3>4. r.n \in Nat /\ sent[d] \in Nat /\ sent[d] <= r.n /\ r.n <= 2
      BY <1>0, <2>0, <3>0 DEF DispatchRow
    <3>5. RowCounts'
      BY <1>0, <2>0, <2>2, <3>0, <3>2, <3>4 DEF RowCounts
    <3> QED
      BY <1>0, <2>2, <3>1, <3>2, <3>3, <3>5
  <2> QED
    BY <1>2, <2>1, <2>2 DEF Dispatch
<1>3. CASE s[d] \in InHandoff /\ ~ClaimableRow(d, t)
  <2>1. /\ disp' = [disp EXCEPT ![d] = RefusedRow(d, t)]
        /\ Settle(p, d, t, Refusal(d, t)) /\ UNCHANGED sent
    BY <1>3 DEF Dispatch
  <2>2. disp[d] \in DispatchRow
    BY <1>0, <1>3 DEF ClaimableRow
  <2>3. /\ RefusedRow(d, t) \in DispatchRow
        /\ RefusedRow(d, t).n = disp[d].n
        /\ RefusedRow(d, t).st \in {disp[d].st, "blocked"}
    BY <2>2 DEF RefusedRow, DispatchRow, DispatchStatuses
  <2>4. Refusal(d, t) \in {"unknown", "failed", "nothing"}
    BY DEF Refusal
  <2>5. /\ drain' \in [Drains -> DrainState]
        /\ drain'[p].pc = "settle" /\ drain'[p].goal = d
        /\ drain'[p].res = Refusal(d, t)
        /\ \A q \in Drains : q # p => drain'[q] = drain[q]
    BY <2>1, <2>4, SettleType DEF Inv
  <2>6. /\ disp' \in [Goals -> DispatchRow \cup {None}]
        /\ disp'[d] = RefusedRow(d, t)
        /\ \A e \in Goals : e # d => disp'[e] = disp[e]
    BY <1>0, <2>1, <2>3
  <2>7. DrainHolds'
    BY <1>0, <2>3, <2>4, <2>5, <2>6 DEF DrainHolds
  <2>8. RowCounts'
    BY <1>0, <2>1, <2>2, <2>3, <2>6 DEF RowCounts
  <2> QED
    BY <1>0, <2>1, <2>5, <2>6, <2>7, <2>8
<1> QED
  BY <1>1, <1>2, <1>3

LEMMA HandoffInv ==
    ASSUME Inv, NEW p \in Drains, Handoff(p)
    PROVE  Inv'
<1> USE HandoffAssumption
<1> DEFINE d == drain[p].goal
<1>0. d \in Goals /\ drain[p].turn \in Nat
  BY DEF Inv, TypeOK, DrainHolds, Handoff, DrainState
<1>1. /\ stat' \in [Goals -> Statuses \cup {None}]
      /\ \A e \in Goals : e # d => stat'[e] = stat[e]
      /\ stat'[d] \in {stat[d], "handoff_pending"}
      /\ stat'[d] # stat[d] => stat[d] \in ActiveRows
  BY <1>0, MoveType DEF Inv, TypeOK, Handoff, Statuses, ActiveRows
<1>2. /\ UNCHANGED <<n, class, turn, childPending, reported, acked, starts>>
      /\ hasRun' \in SUBSET Goals
  BY <1>0 DEF Handoff, Inv, TypeOK
<1>3. /\ disp' \in [Goals -> DispatchRow \cup {None}] /\ sent' \in [Goals -> Nat]
      /\ drain' \in [Drains -> DrainState] /\ DrainHolds' /\ RowCounts'
  <2>1. CASE stat[d] \in Revoked
    <3>1. Settle(p, d, drain[p].turn, "nothing") /\ UNCHANGED <<disp, sent>>
      BY <2>1 DEF Handoff
    <3>2. /\ drain' \in [Drains -> DrainState]
          /\ drain'[p].pc = "settle" /\ drain'[p].goal = d /\ drain'[p].res = "nothing"
          /\ \A q \in Drains : q # p => drain'[q] = drain[q]
      BY <1>0, <3>1, SettleType DEF Inv
    <3>3. DrainHolds' /\ RowCounts'
      BY <1>0, <1>2, <3>1, <3>2 DEF Inv, DrainHolds, RowCounts
    <3> QED
      BY <3>1, <3>2, <3>3 DEF Inv, TypeOK
  <2>2. CASE stat[d] \notin Revoked
    <3>1. Dispatch(p, d, drain[p].turn, stat')
      BY <2>2 DEF Handoff
    <3> QED
      BY <1>0, <1>2, <3>1, DispatchInv
  <2> QED
    BY <2>1, <2>2
<1>4. TypeOK'
  BY <1>1, <1>2, <1>3 DEF Inv, TypeOK
<1>5. \A e \in Goals : e > n => e # n
  BY DEF Inv, TypeOK, Goals
<1>6. "handoff_pending" \in ActiveRows /\ "handoff_pending" # "resumed"
  BY DEF ActiveRows
<1> HIDE DEF d
<1>7. ActiveIsNewest'
  BY <1>0, <1>1, <1>2, <1>5, <1>6 DEF Inv, ActiveIsNewest
<1>8. ResumedWasPrompted'
  BY <1>0, <1>1, <1>2, <1>6 DEF Inv, ResumedWasPrompted
<1> QED
  BY <1>3, <1>4, <1>7, <1>8 DEF Inv

LEMMA RunFailsInv ==
    ASSUME Inv, NEW p \in Drains, RunFails(p)
    PROVE  Inv'
<1> USE HandoffAssumption
<1>1. drain[p].goal \in Goals /\ drain[p].turn \in Nat
  BY DEF Inv, TypeOK, DrainHolds, RunFails, DrainState
<1>2. /\ drain' \in [Drains -> DrainState]
      /\ drain'[p].pc = "settle" /\ drain'[p].goal = drain[p].goal
      /\ drain'[p].res = "nothing"
      /\ \A q \in Drains : q # p => drain'[q] = drain[q]
  BY <1>1, SettleType DEF Inv, RunFails
<1>3. UNCHANGED <<n, stat, class, hasRun, disp, turn, childPending, sent, reported,
                  acked, starts>>
  BY DEF RunFails, rows, history
<1>4. TypeOK' /\ DrainHolds'
  BY <1>1, <1>2, <1>3 DEF Inv, TypeOK, DrainHolds
<1> QED
  BY <1>3, <1>4 DEF Inv, RowCounts, ActiveIsNewest, ResumedWasPrompted

LEMMA PromptInv ==
    ASSUME Inv, NEW p \in Drains, PromptAccepted(p) \/ PromptFailed(p)
    PROVE  Inv'
<1> USE HandoffAssumption
<1> DEFINE d == drain[p].goal
<1>0. /\ d \in Goals /\ drain[p].turn \in Nat /\ disp[d] \in DispatchRow
      /\ disp \in [Goals -> DispatchRow \cup {None}]
      /\ sent \in [Goals -> Nat] /\ reported \in [Goals -> Nat]
  BY DEF Inv, TypeOK, DrainHolds, PromptAccepted, PromptFailed, DrainState
<1>1. CASE PromptAccepted(p)
  <2>1. /\ acked' = acked \cup {d}
        /\ UNCHANGED <<n, stat, class, hasRun, turn, childPending, sent, reported, starts>>
    BY <1>1 DEF PromptAccepted
  <2>2. /\ disp' \in [Goals -> DispatchRow \cup {None}]
        /\ \A e \in Goals : e # d => disp'[e] = disp[e]
        /\ disp'[d] # None /\ disp'[d].n = disp[d].n
        /\ disp'[d].st \in {disp[d].st, "dispatched"}
    BY <1>0, <1>1 DEF PromptAccepted, DispatchRow, DispatchStatuses
  <2>3. /\ drain' \in [Drains -> DrainState]
        /\ drain'[p].pc = "settle" /\ drain'[p].goal = d
        /\ \A q \in Drains : q # p => drain'[q] = drain[q]
    BY <1>0, <1>1, SettleType DEF PromptAccepted, Inv
  <2>4. TypeOK'
    BY <1>0, <2>1, <2>2, <2>3 DEF Inv, TypeOK
  <2>5. DrainHolds'
    BY <1>0, <2>1, <2>2, <2>3 DEF Inv, DrainHolds
  <2>6. RowCounts'
    BY <1>0, <2>1, <2>2 DEF Inv, RowCounts
  <2> QED
    BY <2>1, <2>4, <2>5, <2>6 DEF Inv, ActiveIsNewest, ResumedWasPrompted
<1>2. CASE PromptFailed(p)
  <2>1. /\ reported' = [reported EXCEPT ![d] = @ + 1]
        /\ UNCHANGED <<n, stat, class, hasRun, turn, childPending, sent, acked, starts>>
    BY <1>2 DEF PromptFailed
  <2>2. /\ disp' \in [Goals -> DispatchRow \cup {None}]
        /\ \A e \in Goals : e # d => disp'[e] = disp[e]
        /\ disp'[d] # None /\ disp'[d].n = disp[d].n
        /\ disp'[d].st \in {disp[d].st, "blocked", "failed"}
    BY <1>0, <1>2 DEF PromptFailed, DispatchRow, DispatchStatuses
  <2>3. /\ drain' \in [Drains -> DrainState]
        /\ drain'[p].pc = "settle" /\ drain'[p].goal = d
        /\ drain'[p].res \in {"failed", "unknown"}
        /\ \A q \in Drains : q # p => drain'[q] = drain[q]
    BY <1>0, <1>2, SettleType DEF PromptFailed, Inv
  <2>4. /\ reported' \in [Goals -> Nat] /\ reported'[d] = reported[d] + 1
        /\ \A e \in Goals : e # d => reported'[e] = reported[e]
    BY <1>0, <2>1
  <2>5. TypeOK'
    BY <1>0, <2>1, <2>2, <2>3, <2>4 DEF Inv, TypeOK
  <2>6. DrainHolds'
    BY <1>0, <2>1, <2>2, <2>3 DEF Inv, DrainHolds
  <2>7. RowCounts'
    BY <1>0, <2>1, <2>2, <2>4 DEF Inv, RowCounts
  <2> QED
    BY <2>1, <2>5, <2>6, <2>7 DEF Inv, ActiveIsNewest, ResumedWasPrompted
<1> QED
  BY <1>1, <1>2

\* What SettleGoal makes of the rows.
LEMMA SettledFacts ==
    ASSUME Inv, NEW p \in Drains, SettleGoal(p)
    PROVE  LET d == drain[p].goal IN
           /\ d \in Goals
           /\ stat' \in [Goals -> Statuses \cup {None}]
           /\ \A e \in Goals : e # d => stat'[e] = stat[e]
           /\ stat'[d] # stat[d] =>
                 /\ stat[d] \in ActiveRows
                 /\ stat'[d] = "resumed" => drain[p].res = "dispatched"
<1> USE HandoffAssumption
<1> DEFINE d == drain[p].goal
<1>0. d \in Goals /\ stat \in [Goals -> Statuses \cup {None}]
  BY DEF Inv, TypeOK, DrainHolds, SettleGoal
<1> HIDE DEF d
<1>1. \/ stat' = stat
      \/ stat' = Move(stat, d, InHandoff, "resumed") /\ drain[p].res = "dispatched"
      \/ stat' = Move(stat, d, InHandoff, "handoff_outcome_unknown")
      \/ stat' = Move(stat, d, Claimable \cup InHandoff, "blocked")
  BY DEF SettleGoal, Settled, d
<1>2. /\ stat' \in [Goals -> Statuses \cup {None}]
      /\ \A e \in Goals : e # d => stat'[e] = stat[e]
      /\ stat'[d] # stat[d] =>
            /\ stat[d] \in ActiveRows
            /\ stat'[d] = "resumed" => drain[p].res = "dispatched"
  BY <1>0, <1>1, MoveType DEF Statuses, ActiveRows, Claimable, InHandoff
<1> QED
  BY <1>0, <1>2 DEF d

LEMMA SettleInv ==
    ASSUME Inv, NEW p \in Drains, SettleGoal(p)
    PROVE  Inv'
<1> USE HandoffAssumption
<1>1. /\ drain' \in [Drains -> DrainState]
      /\ drain'[p].pc = "loop"
      /\ \A q \in Drains : q # p => drain'[q] = drain[q]
  BY DEF Inv, TypeOK, SettleGoal, Idle, DrainState
<1>2. UNCHANGED <<n, class, hasRun, disp, turn, childPending, sent, reported, acked,
                  starts>>
  BY DEF SettleGoal, history
<1>3. TypeOK'
  BY <1>1, <1>2, SettledFacts DEF Inv, TypeOK
<1>4. DrainHolds' /\ RowCounts'
  BY <1>1, <1>2 DEF Inv, DrainHolds, RowCounts
<1>5. drain[p].res = "dispatched" => drain[p].goal \in acked
  BY DEF Inv, DrainHolds, SettleGoal
<1>6. \A e \in Goals : e > n => e # n
  BY DEF Inv, TypeOK, Goals
<1>7. ActiveIsNewest'
  BY <1>2, <1>6, SettledFacts DEF Inv, ActiveIsNewest
<1>8. ResumedWasPrompted'
  BY <1>2, <1>5, SettledFacts DEF Inv, ResumedWasPrompted
<1> QED
  BY <1>3, <1>4, <1>7, <1>8 DEF Inv

-----------------------------------------------------------------------------
(* Starting a runtime. *)

\* What a start makes of each row.
LEMMA ReconciledFacts ==
    ASSUME Inv, NEW alone \in BOOLEAN, StartRuntime(alone)
    PROVE  /\ disp' \in [Goals -> DispatchRow \cup {None}]
           /\ \A d \in Goals :
                 \/ disp'[d] = disp[d]
                 \/ /\ disp[d] # None /\ disp'[d] # None
                    /\ disp'[d].n = disp[d].n /\ disp'[d].st = "outcome_unknown"
           /\ stat' \in [Goals -> Statuses \cup {None}]
           /\ \A d \in Goals : stat'[d] # stat[d] =>
                 /\ stat[d] \in InHandoff
                 /\ stat'[d] = "resumed" => disp'[d] # None /\ disp'[d].st = "dispatched"
<1> USE HandoffAssumption
<1>1. disp' = ReconciledDispatches /\ disp \in [Goals -> DispatchRow \cup {None}]
  BY DEF StartRuntime, Inv, TypeOK
<1>2. /\ disp' \in [Goals -> DispatchRow \cup {None}]
      /\ \A d \in Goals :
            \/ disp'[d] = disp[d]
            \/ /\ disp[d] # None /\ disp'[d] # None
               /\ disp'[d].n = disp[d].n /\ disp'[d].st = "outcome_unknown"
  BY <1>1 DEF ReconciledDispatches, DispatchRow, DispatchStatuses
<1>3. \A d \in Goals :
         /\ ReconciledStatus(d, disp'[d]) \in {stat[d], "resumed",
               "handoff_outcome_unknown", "blocked", "handoff_pending",
               "pending_termination"}
         /\ ReconciledStatus(d, disp'[d]) # stat[d] =>
               /\ stat[d] \in InHandoff
               /\ ReconciledStatus(d, disp'[d]) = "resumed"
                     => disp'[d] # None /\ disp'[d].st = "dispatched"
  <2> TAKE d \in Goals
  <2> DEFINE r == disp'[d]
  <2> HIDE DEF r
  <2>1. CASE stat[d] \notin InHandoff
    <3>1. ReconciledStatus(d, r) = stat[d]
      BY <2>1 DEF ReconciledStatus, InHandoff
    <3> QED
      BY <3>1 DEF r
  <2>2. CASE stat[d] \in InHandoff
    <3>1. \/ /\ ReconciledStatus(d, r) = "resumed"
             /\ r # None /\ r.st = "dispatched"
          \/ ReconciledStatus(d, r) \in {"handoff_outcome_unknown", "blocked",
                                         "handoff_pending", "pending_termination"}
      BY <2>2 DEF ReconciledStatus, InHandoff
    <3> QED
      BY <2>2, <3>1 DEF r
  <2> QED
    BY <2>1, <2>2
<1>4. stat \in [Goals -> Statuses \cup {None}] /\
      stat' = [d \in Goals |-> IF stat[d] = None THEN None
                               ELSE ReconciledStatus(d, disp'[d])]
  BY DEF Inv, TypeOK, StartRuntime
<1>5. stat' \in [Goals -> Statuses \cup {None}]
  BY <1>3, <1>4 DEF Statuses
<1>6. \A d \in Goals : stat'[d] # stat[d] =>
         /\ stat[d] \in InHandoff
         /\ stat'[d] = "resumed" => disp'[d] # None /\ disp'[d].st = "dispatched"
  BY <1>3, <1>4
<1> QED
  BY <1>2, <1>5, <1>6

LEMMA StartInv ==
    ASSUME Inv, NEW alone \in BOOLEAN, StartRuntime(alone)
    PROVE  Inv'
<1> USE HandoffAssumption
<1>1. UNCHANGED <<n, class, hasRun, turn, childPending, sent, reported, acked>>
  BY DEF StartRuntime, history
<1>2. drain' = drain \/ drain' = [p \in Drains |-> Idle]
  BY DEF StartRuntime
<1>3. drain' \in [Drains -> DrainState]
  BY <1>2 DEF Inv, TypeOK, Idle, DrainState
<1>4. starts' \in Nat
  BY DEF StartRuntime, Inv, TypeOK
<1>5. TypeOK'
  BY <1>1, <1>3, <1>4, ReconciledFacts DEF Inv, TypeOK
<1>6. RowCounts'
  BY <1>1, ReconciledFacts DEF Inv, RowCounts
<1>7. DrainHolds'
  BY <1>1, <1>2, ReconciledFacts DEF Inv, DrainHolds, Idle
<1>8. ActiveIsNewest'
  <2>1. \A d \in Goals : d > n => d # n
    BY DEF Inv, TypeOK, Goals
  <2>2. \A d \in Goals : stat'[d] # stat[d] => stat[d] \in ActiveRows
    BY ReconciledFacts DEF InHandoff, ActiveRows
  <2> QED
    BY <1>1, <2>1, <2>2 DEF Inv, ActiveIsNewest
<1>9. ResumedWasPrompted'
  BY <1>1, <1>6, ReconciledFacts DEF Inv, ResumedWasPrompted, RowCounts
<1> QED
  BY <1>5, <1>6, <1>7, <1>8, <1>9 DEF Inv

-----------------------------------------------------------------------------

LEMMA NextInv == Inv /\ [Next]_vars => Inv'
<1> SUFFICES ASSUME Inv, [Next]_vars PROVE Inv'
  OBVIOUS
<1>1. CASE UNCHANGED vars
  BY <1>1 DEF Inv, vars, TypeOK, DrainHolds, RowCounts, ActiveIsNewest,
     ResumedWasPrompted
<1>2. CASE \E cl \in {"fast", "orchestrated"} : SavePending(cl)
  BY <1>2, SavePendingInv
<1>3. CASE CancelCurrent \/ Chat \/ ChildStops
  BY <1>3, UserInv
<1>4. CASE \E p \in Drains : StartDrain(p) \/ DrainStep(p)
  <2> PICK p \in Drains : StartDrain(p) \/ DrainStep(p)
    BY <1>4
  <2>1. CASE StartDrain(p) \/ EndDrain(p) \/ \E d \in Goals : SkipGoal(p, d)
    BY <2>1, LoopInv
  <2>2. CASE \E d \in Goals : Claim(p, d)
    BY <2>2, ClaimInv
  <2>3. CASE Handoff(p)
    BY <2>3, HandoffInv
  <2>4. CASE RunFails(p)
    BY <2>4, RunFailsInv
  <2>5. CASE PromptAccepted(p) \/ PromptFailed(p)
    BY <2>5, PromptInv
  <2>6. CASE SettleGoal(p)
    BY <2>6, SettleInv
  <2> QED
    BY <2>1, <2>2, <2>3, <2>4, <2>5, <2>6 DEF DrainStep
<1>5. CASE \E alone \in BOOLEAN : StartRuntime(alone)
  BY <1>5, StartInv
<1> QED
  BY <1>1, <1>2, <1>3, <1>4, <1>5 DEF Next

\* The inductive invariant holds in every reachable state.
THEOREM HandoffInvariant == Spec => []Inv
  BY InitInv, NextInv, PTL DEF Spec

\* The variables keep their types through every interleaving of drains, user
\* turns and starts.
THEOREM HandoffTypes == Spec => []TypeOK
<1>1. Inv => TypeOK
  BY DEF Inv
<1> QED
  BY <1>1, HandoffInvariant, PTL

\* No goal is prompted again before its earlier prompts were reported failed:
\* the claim of the dispatch row and its reconciliation at startup suffice,
\* for any number of drains and of runtimes on the database.
THEOREM HandoffOnePrompt == Spec => []OnePromptAtATime
<1>1. Inv => OnePromptAtATime
  BY DEF Inv, RowCounts, OnePromptAtATime
<1> QED
  BY <1>1, HandoffInvariant, PTL

\* No goal is prompted more than twice, however often it is drained.
THEOREM HandoffAttempts == Spec => []AttemptsBounded
<1>1. Inv => AttemptsBounded
  <2> SUFFICES ASSUME Inv, NEW d \in Goals PROVE sent[d] <= 2
    BY DEF AttemptsBounded
  <2>1. sent[d] \in Nat /\ (disp[d] # None => disp[d].n \in Nat)
    BY HandoffAssumption DEF Inv, TypeOK, DispatchRow
  <2> QED
    BY <2>1 DEF Inv, RowCounts
<1> QED
  BY <1>1, HandoffInvariant, PTL

\* A resumed goal has an accepted prompt.
THEOREM HandoffResumed == Spec => []ResumedWasPrompted
<1>1. Inv => ResumedWasPrompted
  BY DEF Inv
<1> QED
  BY <1>1, HandoffInvariant, PTL

\* Only the newest goal, not withdrawn, is prompted.
THEOREM HandoffNewest == Spec => NewestGoalOnly
<1>1. Inv /\ [Next]_vars
        => [\A d \in Goals : sent'[d] # sent[d] => (d = n /\ stat[d] # "cancelled")]_vars
  <2> SUFFICES ASSUME Inv, [Next]_vars, NEW d \in Goals, sent'[d] # sent[d]
               PROVE  d = n /\ stat[d] # "cancelled"
    OBVIOUS
  <2>1. PICK p \in Drains : Handoff(p)
    BY DEF Next, vars, SavePending, CancelCurrent, Chat, ChildStops, StartDrain,
       DrainStep, EndDrain, SkipGoal, Claim, RunFails, PromptAccepted, PromptFailed,
       SettleGoal, StartRuntime, history
  <2> DEFINE g == drain[p].goal
  <2>2. g \in Goals /\ stat \in [Goals -> Statuses \cup {None}] /\ sent \in [Goals -> Nat]
    BY <2>1 DEF Inv, TypeOK, DrainHolds, Handoff
  <2>3. stat' = Move(stat, g, {"resuming", "pending_termination"}, "handoff_pending")
    BY <2>1 DEF Handoff
  <2>4. stat'[g] \in InHandoff /\ sent' = [sent EXCEPT ![g] = @ + 1]
    BY <2>1 DEF Handoff, Dispatch
  <2>5. d = g
    BY <2>2, <2>4
  <2>6. stat[g] \in ActiveRows /\ stat[g] # "cancelled"
    BY <2>2, <2>3, <2>4, MoveType DEF InHandoff, ActiveRows, Statuses
  <2> QED
    BY <2>2, <2>5, <2>6 DEF Inv, ActiveIsNewest
<1> QED
  BY <1>1, HandoffInvariant, PTL DEF Spec, NewestGoalOnly

\* A goal that was superseded, withdrawn or resumed never changes again.
THEOREM HandoffOutcomeFinal == Spec => OutcomeIsFinal
<1>1. Inv /\ [Next]_vars
        => [\A d \in Goals : stat[d] \in {"superseded", "cancelled", "resumed"}
                                => stat'[d] = stat[d]]_vars
  <2> SUFFICES ASSUME Inv, [Next]_vars, NEW d \in Goals,
                      stat[d] \in {"superseded", "cancelled", "resumed"}
               PROVE  stat'[d] = stat[d]
    OBVIOUS
  <2> USE HandoffAssumption
  <2>0. stat \in [Goals -> Statuses \cup {None}] /\ stat[d] \notin ActiveRows
    BY DEF Inv, TypeOK, ActiveRows
  <2>1. CASE \E cl \in {"fast", "orchestrated"} : SavePending(cl)
    <3>1. n + 1 \in Goals /\ stat' = [Superseded EXCEPT ![n + 1] = "pending_termination"]
      BY <2>1 DEF SavePending, Inv, TypeOK, Goals
    <3>2. stat[n + 1] = None
      BY <3>1 DEF Inv, TypeOK, ActiveIsNewest
    <3>3. d # n + 1
      BY <3>2 DEF Statuses
    <3> QED
      BY <2>0, <3>1, <3>3 DEF Superseded
  <2>2. CASE CancelCurrent
    BY <2>0, <2>2 DEF CancelCurrent
  <2>3. CASE \E p \in Drains, e \in Goals : Claim(p, e)
    BY <2>0, <2>3 DEF Claim, Claimable, ActiveRows
  <2>4. CASE \E p \in Drains : Handoff(p)
    <3> PICK p \in Drains : Handoff(p)
      BY <2>4
    <3> DEFINE g == drain[p].goal
    <3>1. g \in Goals
      BY DEF Inv, DrainHolds, Handoff
    <3>2. stat' = Move(stat, g, {"resuming", "pending_termination"}, "handoff_pending")
      BY DEF Handoff
    <3> HIDE DEF g
    <3> QED
      BY <2>0, <3>1, <3>2, MoveType DEF Statuses, ActiveRows
  <2>5. CASE \E p \in Drains : SettleGoal(p)
    BY <2>0, <2>5, SettledFacts
  <2>6. CASE \E alone \in BOOLEAN : StartRuntime(alone)
    BY <2>0, <2>6, ReconciledFacts DEF InHandoff, ActiveRows
  <2>7. CASE stat' = stat
    BY <2>7
  <2> QED
    BY <2>1, <2>2, <2>3, <2>4, <2>5, <2>6, <2>7 DEF Next, vars, Chat, ChildStops,
       StartDrain, DrainStep, EndDrain, SkipGoal, RunFails, PromptAccepted,
       PromptFailed, rows
<1> QED
  BY <1>1, HandoffInvariant, PTL DEF Spec, OutcomeIsFinal

=============================================================================
