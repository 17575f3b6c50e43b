------------------------ MODULE ChildLifecycleProofs ------------------------
(***************************************************************************)
(* The invariants and action properties of ChildLifecycle for any number   *)
(* of calls, specialists, user messages and crashes.                       *)
(***************************************************************************)
EXTENDS ChildLifecycle, SequenceTheorems, TLAPS

Unborn == {"idle", "called", "allowed"}
Over == {"stopped", "deleted", "dead"}

\* The commit that is due is that of a bound record, or of the row's state.
PendOK ==
    pend # None =>
        /\ pend.at \in {"bind", "start"} => Bound(pend.c)
        /\ pend.at \in {"assign", "session", "orphan"}
              => row[pend.c] # None /\ row[pend.c].st = pend.to

\* Memory and row differ in one thing only: the row may lack the session.
Cached ==
    \A c \in Children : rec[c] # row[c] =>
        /\ rec[c] # None /\ row[c] # None
        /\ row[c].sess = None
        /\ rec[c] = [row[c] EXCEPT !.sess = rec[c].sess]

\* A record is bound exactly when the agent_sessions row of its assignment is
\* there, and to that session.
Linked ==
    \A c \in Children :
        /\ sess[c] # None => Bound(c) /\ rec[c].sess = sess[c].id
        /\ Bound(c) => sess[c] # None

\* A call that is not registered has left nothing behind.
Fresh ==
    \A c \in Children : native[c] \in {"idle", "called"} =>
        row[c] = None /\ asg[c] \notin Terminal /\ sess[c] = None

\* Only a cancelled child is confirmed.
ConfOK == \A c \in Children : Present(c) /\ rec[c].conf => rec[c].st = "cancelled"

\* A finished agent_sessions row agrees with the child's row.
SessOK ==
    \A c \in Children :
        sess[c] # None /\ sess[c].st \in Terminal
            => row[c] # None /\ row[c].st = sess[c].st

Rows ==
    /\ Cached /\ Linked /\ Fresh /\ ConfOK /\ SessOK
    /\ AssignmentFollowsChild

\* cancelRun and the late aborts work on registered children; the registry is
\* asked about one that is bound or has ended.
Ended(c) == Present(c) /\ rec[c].st \in Terminal
CancAt(p) ==
    /\ canc[p].pc \in {"abort", "handle", "abort2"}
          => canc[p].cur \in Children /\ Present(canc[p].cur)
    /\ canc[p].pc \in {"abort", "abort2"} => Bound(canc[p].cur)
    /\ canc[p].pc = "handle" => Bound(canc[p].cur) \/ Ended(canc[p].cur)
    /\ \A c \in canc[p].todo : Present(c)

CancOK == (\A p \in Cancellers : CancAt(p)) /\ (\A c \in late : Bound(c))

\* Hooks, errors and deletions are raised when the session is over, a session
\* is named only after it was created.
HookOK == \A c \in hooks : native[c] \in Over
BusOK ==
    \A i \in 1 .. Len(bus) :
        /\ native[bus[i].c] \notin Unborn
        /\ bus[i].e \in {"error", "deleted"} => native[bus[i].c] \in Over
BornOK == \A c \in Children : Bound(c) => native[rec[c].sess] \notin Unborn

\* A child that was running is bound; in its end state its session is over.
EndedOK ==
    \A c \in started :
        /\ Bound(c)
        /\ rec[c].sess = c /\ rec[c].st \in Terminal => native[c] \in Over

Stops == HookOK /\ BusOK /\ BornOK /\ EndedOK

Inv == TypeOK /\ Rows /\ PendOK /\ CancOK /\ Stops

\* The action of EndIsFinal.
EndStep ==
    \A c \in Children :
        (row[c] # None /\ row[c].st \in Terminal)
            => (row'[c] # None /\ row'[c].st = row[c].st)

\* The action of ReplacedAfterStop.
ReplaceStep ==
    (replaced' /\ ~replaced)
        => \A c \in started : rec[c].sess = c => native[c] # "live"

\* What every step does to the sessions: they only move on.
NatStep ==
    /\ native' \in [Children -> NativeStates]
    /\ \A d \in Children :
          /\ native'[d] \in {"idle", "called"} => native[d] \in {"idle", "called"}
          /\ native[d] \notin Unborn => native'[d] \notin Unborn
          /\ native[d] \in Over => native'[d] \in Over

\* Records and their bindings stay.
Keeps ==
    \A d \in Children :
        /\ Present(d) => rec'[d] # None
        /\ Bound(d) => rec'[d].sess = rec[d].sess
        /\ Ended(d) => rec'[d].st \in Terminal

\* What the steps of the service keep, whatever else they change.
Half ==
    /\ rec' \in [Children -> Record \cup {None}]
    /\ row' \in [Children -> Record \cup {None}]
    /\ pend' \in Op \cup {None}
    /\ started' \in SUBSET Children
    /\ Rows' /\ PendOK' /\ Stops' /\ EndStep /\ Keeps

-----------------------------------------------------------------------------

LEMMA InitInv == Init => Inv
<1> SUFFICES ASSUME Init PROVE Inv
  OBVIOUS
<1> USE ChildAssumption
<1>1. TypeOK
  <2>1. Idle \in CancelState
    BY DEF Idle, CancelState
  <2>2. bus \in Seq(Event)
    BY DEF Init
  <2>3. /\ rec \in [Children -> Record \cup {None}]
        /\ row \in [Children -> Record \cup {None}]
        /\ asg \in [Children -> {None, "pending", "in_progress"} \cup Terminal]
        /\ sess \in [Children -> SessionRow \cup {None}]
    BY DEF Init
  <2>4. /\ handle \in [Children -> {"none", "open", "resolved"}]
        /\ native \in [Children -> NativeStates]
        /\ canc \in [Cancellers -> CancelState]
    BY <2>1 DEF Init, NativeStates
  <2>5. due \in BOOLEAN /\ replaced \in BOOLEAN /\ pend \in Op \cup {None}
    BY DEF Init
  <2>6. crashes \in 0 .. MaxCrashes
    BY DEF Init
  <2> QED
    BY <2>2, <2>3, <2>4, <2>5, <2>6 DEF Init, TypeOK
<1>2. Rows /\ PendOK
  BY DEF Init, Rows, PendOK, Cached, Linked, Fresh, ConfOK, SessOK, Bound, Present,
         AssignmentFollowsChild, Terminal, ChildStates
<1>3. CancOK
  BY DEF Init, CancOK, CancAt, Idle
<1>4. Stops
  BY DEF Init, Stops, HookOK, BusOK, BornOK, EndedOK, Bound, Present
<1> QED
  BY <1>1, <1>2, <1>3, <1>4 DEF Inv

-----------------------------------------------------------------------------
(* Changes of one record. *)

\* Memory and row tell the same state, request and confirmation.
LEMMA SameFields ==
    ASSUME TypeOK, Rows, NEW c \in Children
    PROVE  /\ Present(c) <=> row[c] # None
           /\ Present(c) => /\ rec[c] \in Record /\ row[c] \in Record
                            /\ row[c].st = rec[c].st
<1>1. CASE rec[c] = row[c]
  BY <1>1 DEF TypeOK, Present
<1>2. CASE rec[c] # row[c]
  <2>1. /\ rec[c] # None /\ row[c] # None
        /\ rec[c] = [row[c] EXCEPT !.sess = rec[c].sess]
    BY <1>2 DEF Rows, Cached
  <2>2. rec[c] \in Record /\ row[c] \in Record
    BY <2>1 DEF TypeOK
  <2>3. row[c].st = rec[c].st
    BY <2>1, <2>2 DEF Record
  <2> QED
    BY <2>1, <2>2, <2>3 DEF Present
<1> QED
  BY <1>1, <1>2

\* A record is saved: registered before, confirmed only when cancelled, with
\* the binding it had and with the end state it had.
LEMMA SaveRows ==
    ASSUME TypeOK, Rows, NEW c \in Children, NEW r \in Record,
           Present(c), Save(c, r),
           r.conf => r.st = "cancelled",
           rec[c].st \in Terminal => r.st = rec[c].st,
           r.sess = rec[c].sess,
           UNCHANGED <<asg, sess>>, NatStep
    PROVE  /\ rec' \in [Children -> Record \cup {None}]
           /\ row' \in [Children -> Record \cup {None}]
           /\ Rows' /\ EndStep
<1> USE ChildAssumption
<1>1. rec' \in [Children -> Record \cup {None}] /\ row' \in [Children -> Record \cup {None}]
  BY DEF TypeOK, Save
<1>2. /\ row'[c] = r /\ rec'[c] = r /\ r # None
      /\ row[c] # None /\ row[c].st = rec[c].st
      /\ \A d \in Children : d # c => row'[d] = row[d] /\ rec'[d] = rec[d]
  BY SameFields DEF TypeOK, Save
<1>3. Cached'
  BY <1>2 DEF Rows, Cached
<1>4. Linked' /\ ConfOK'
  <2>1. Linked'
    BY <1>2 DEF Rows, Linked, Bound, Present
  <2>2. ConfOK'
    BY <1>2 DEF Rows, ConfOK, Present
  <2> QED
    BY <2>1, <2>2
<1>5. Fresh'
  <2> SUFFICES ASSUME NEW d \in Children, native'[d] \in {"idle", "called"}
               PROVE  row'[d] = None /\ asg'[d] \notin Terminal /\ sess'[d] = None
    BY DEF Fresh
  <2>1. row[d] = None /\ asg[d] \notin Terminal /\ sess[d] = None
    BY DEF NatStep, Rows, Fresh
  <2>2. d # c
    BY <2>1, <1>2
  <2> QED
    BY <2>1, <2>2, <1>2
<1>6. SessOK'
  BY <1>2 DEF Rows, SessOK
<1>7. AssignmentFollowsChild'
  BY <1>2 DEF Rows, AssignmentFollowsChild
<1>8. EndStep
  BY <1>2 DEF EndStep
<1> QED
  BY <1>1, <1>3, <1>4, <1>5, <1>6, <1>7, <1>8 DEF Rows

\* Nothing is saved: the rows agree as before.
LEMMA QuietRows ==
    ASSUME TypeOK, Rows, UNCHANGED <<rec, row>>, NatStep,
           \A d \in Children : asg'[d] \in Terminal =>
               asg'[d] = asg[d] \/ (row[d] # None /\ row[d].st = asg'[d]),
           \A d \in Children : sess'[d] = sess[d] \/
               /\ sess[d] # None /\ sess'[d] # None
               /\ sess'[d].id = sess[d].id
               /\ row[d] # None /\ row[d].st = sess'[d].st
    PROVE  Rows' /\ EndStep
<1>1. Cached' /\ ConfOK' /\ EndStep
  BY DEF Rows, Cached, ConfOK, EndStep, Present
<1>2. SessOK' /\ AssignmentFollowsChild'
  BY DEF Rows, SessOK, AssignmentFollowsChild
<1>3. Fresh'
  <2> SUFFICES ASSUME NEW d \in Children, native'[d] \in {"idle", "called"}
               PROVE  row'[d] = None /\ asg'[d] \notin Terminal /\ sess'[d] = None
    BY DEF Fresh
  <2>1. row[d] = None /\ asg[d] \notin Terminal /\ sess[d] = None
    BY DEF NatStep, Rows, Fresh
  <2> QED
    BY <2>1
<1>4. Linked'
  BY DEF Rows, Linked, Bound, Present
<1> QED
  BY <1>1, <1>2, <1>3, <1>4 DEF Rows

\* The bus as the steps leave it: sessions only move on, so what was raised
\* stays true.
LEMMA BusMoves ==
    ASSUME TypeOK, BusOK, NatStep, NEW i \in 1 .. Len(bus)
    PROVE  /\ native'[bus[i].c] \notin Unborn
           /\ bus[i].e \in {"error", "deleted"} => native'[bus[i].c] \in Over
<1>1. bus[i] \in Event
  BY ElementOfSeq DEF TypeOK
<1> QED
  BY <1>1 DEF BusOK, NatStep, Event

LEMMA BusSame ==
    ASSUME TypeOK, BusOK, NatStep, UNCHANGED bus
    PROVE  BusOK'
<1> SUFFICES ASSUME NEW i \in 1 .. Len(bus)
             PROVE /\ native'[bus[i].c] \notin Unborn
                   /\ bus[i].e \in {"error", "deleted"} => native'[bus[i].c] \in Over
  BY DEF BusOK
<1> QED
  BY BusMoves

LEMMA BusRaised ==
    ASSUME TypeOK, BusOK, NatStep, NEW c \in Children,
           NEW e \in {"created", "error", "deleted"}, Raise(e, c),
           native'[c] \notin Unborn, e # "created" => native'[c] \in Over
    PROVE  bus' \in Seq(Event) /\ BusOK'
<1> DEFINE ev == [e |-> e, c |-> c]
<1>1. ev \in Event /\ bus \in Seq(Event)
  BY DEF Event, TypeOK
<1>2. /\ bus' \in Seq(Event) /\ Len(bus') = Len(bus) + 1 /\ Len(bus) \in Nat
      /\ \A i \in 1 .. Len(bus) : bus'[i] = bus[i]
      /\ bus'[Len(bus) + 1] = ev
  BY <1>1, AppendProperties, LenProperties DEF Raise
<1>3. SUFFICES ASSUME NEW i \in 1 .. Len(bus')
               PROVE /\ native'[bus'[i].c] \notin Unborn
                     /\ bus'[i].e \in {"error", "deleted"} => native'[bus'[i].c] \in Over
  BY <1>2 DEF BusOK
<1>4. CASE i = Len(bus) + 1
  BY <1>2, <1>4
<1>5. CASE i # Len(bus) + 1
  <2>1. i \in 1 .. Len(bus)
    BY <1>2, <1>5
  <2> QED
    BY <2>1, <1>2, BusMoves
<1> QED
  BY <1>4, <1>5

LEMMA BusDelivered ==
    ASSUME TypeOK, BusOK, NEW c \in Children,
           NEW e \in {"created", "error", "deleted"}, Deliver(e, c), UNCHANGED native
    PROVE  /\ bus' \in Seq(Event) /\ BusOK' /\ UNCHANGED hooks
           /\ native[c] \notin Unborn
           /\ e # "created" => native[c] \in Over
<1>1. /\ bus \in Seq(Event) /\ bus # <<>> /\ bus' = Tail(bus)
      /\ Head(bus) = [e |-> e, c |-> c] /\ UNCHANGED hooks
  BY DEF Deliver, TypeOK
<1>2. /\ bus' \in Seq(Event) /\ Len(bus') = Len(bus) - 1
      /\ Len(bus) \in Nat /\ Len(bus) >= 1
      /\ \A i \in 1 .. Len(bus') : bus'[i] = bus[i + 1]
  BY <1>1, HeadTailProperties, LenProperties, EmptySeq
<1>3. bus[1] = [e |-> e, c |-> c]
  BY <1>1
<1>4. native[c] \notin Unborn /\ (e # "created" => native[c] \in Over)
  BY <1>2, <1>3 DEF BusOK
<1>5. BusOK'
  BY <1>2 DEF BusOK
<1> QED
  BY <1>1, <1>2, <1>4, <1>5

\* Nothing is saved and no hook is raised.
LEMMA QuietStops ==
    ASSUME TypeOK, Stops, NatStep, UNCHANGED <<rec, started>>, HookOK', BusOK'
    PROVE  Stops'
<1>3. BornOK'
  <2> SUFFICES ASSUME NEW c \in Children, Bound(c)
               PROVE  native'[rec[c].sess] \notin Unborn
    BY DEF BornOK, Bound, Present
  <2>1. rec[c].sess \in Children
    BY DEF TypeOK, Bound, Present, Record
  <2> QED
    BY <2>1 DEF Stops, BornOK, NatStep
<1>4. EndedOK'
  BY DEF TypeOK, Stops, EndedOK, NatStep, Bound, Present
<1> QED
  BY <1>3, <1>4 DEF Stops

LEMMA HooksKept ==
    ASSUME TypeOK, HookOK, NatStep, hooks' \subseteq hooks
    PROVE  HookOK'
BY DEF TypeOK, HookOK, NatStep

\* A record is saved whose binding stays or is made to a created session, and
\* which ends only when its own session is over.
LEMMA SaveStops ==
    ASSUME TypeOK, Stops, NatStep, NEW c \in Children, NEW r \in Record,
           Present(c), Save(c, r),
           Bound(c) => r.sess = rec[c].sess,
           Ended(c) => r.st \in Terminal,
           r.sess # None => native'[r.sess] \notin Unborn,
           c \in started' => r.sess # None,
           c \in started' /\ r.sess = c /\ r.st \in Terminal => native'[c] \in Over,
           started' \subseteq started \cup {c},
           HookOK', BusOK'
    PROVE  Stops' /\ Keeps
<1> USE ChildAssumption
<1>1. /\ rec'[c] = r /\ r # None
      /\ \A d \in Children : d # c => rec'[d] = rec[d]
  BY DEF TypeOK, Save
<1>2. Keeps
  BY <1>1 DEF Keeps, Bound, Present, Ended
<1>3. BornOK'
  <2> SUFFICES ASSUME NEW d \in Children, rec'[d] # None, rec'[d].sess # None
               PROVE  native'[rec'[d].sess] \notin Unborn
    BY DEF BornOK, Bound, Present
  <2>1. CASE d = c
    BY <2>1, <1>1
  <2>2. CASE d # c
    <3>1. rec[d].sess \in Children /\ rec'[d] = rec[d] /\ Bound(d)
      BY <2>2, <1>1 DEF TypeOK, Bound, Present, Record
    <3> QED
      BY <3>1 DEF Stops, BornOK, NatStep
  <2> QED
    BY <2>1, <2>2
<1>4. EndedOK'
  <2> SUFFICES ASSUME NEW d \in started'
               PROVE  /\ rec'[d] # None /\ rec'[d].sess # None
                      /\ rec'[d].sess = d /\ rec'[d].st \in Terminal => native'[d] \in Over
    BY DEF EndedOK, Bound, Present
  <2>1. CASE d = c
    BY <2>1, <1>1
  <2>2. CASE d # c
    <3>1. d \in started /\ d \in Children
      BY <2>2 DEF TypeOK
    <3> QED
      BY <3>1, <2>2, <1>1 DEF Stops, EndedOK, NatStep, Bound, Present
  <2> QED
    BY <2>1, <2>2
<1> QED
  BY <1>2, <1>3, <1>4 DEF Stops

\* transitionChild refuses: records, rows and pending writes stay.
LEMMA RefuseHalf ==
    ASSUME Inv, Refuse, UNCHANGED <<asg, sess>>, NatStep, HookOK', BusOK'
    PROVE  Half
<1>1. UNCHANGED <<rec, row, pend, started>>
  BY DEF Refuse
<1>2. Rows' /\ EndStep
  BY <1>1, QuietRows DEF Inv
<1>3. Stops'
  BY <1>1, QuietStops DEF Inv
<1>4. Keeps /\ PendOK'
  BY <1>1 DEF Keeps, Present, Bound, Ended, PendOK, Inv
<1> QED
  BY <1>1, <1>2, <1>3, <1>4 DEF Half, Inv, TypeOK

\* transitionChild accepts a legal transition.
LEMMA EnterHalf ==
    ASSUME Inv, NEW c \in Children, NEW r \in Record, Present(c), Enter(c, r),
           ValidTransition(rec[c].st, r.st),
           r.conf => r.st = "cancelled",
           r.sess = rec[c].sess,
           r.sess # None => native'[r.sess] \notin Unborn,
           r.st = "running" => r.sess # None,
           c \in started /\ r.sess = c /\ r.st \in Terminal => native'[c] \in Over,
           UNCHANGED <<asg, sess>>, NatStep, HookOK', BusOK'
    PROVE  Half
<1>1. /\ Save(c, r) /\ pend' = [c |-> c, at |-> "assign", to |-> r.st]
      /\ started' = IF r.st = "running" THEN started \cup {c} ELSE started
  BY DEF Enter
<1>2. /\ rec[c].st \notin Terminal
      /\ r.st \in {"running"} \cup Terminal
  BY DEF ValidTransition, Terminal
<1>3. /\ rec' \in [Children -> Record \cup {None}]
      /\ row' \in [Children -> Record \cup {None}]
      /\ Rows' /\ EndStep
  BY <1>1, <1>2, SaveRows DEF Inv
<1>4. c \in started' => r.sess # None
  BY <1>1 DEF Inv, Stops, EndedOK, Bound
<1>5. Stops' /\ Keeps
  <2>1. started' \subseteq started \cup {c}
    BY <1>1
  <2>2. c \in started' /\ r.sess = c /\ r.st \in Terminal => native'[c] \in Over
    BY <1>1 DEF Terminal
  <2> QED
    BY <1>1, <1>2, <1>4, <2>1, <2>2, SaveStops DEF Inv, Ended
<1>6. pend' \in Op \cup {None} /\ started' \in SUBSET Children
  BY <1>1, <1>2 DEF Op, Inv, TypeOK
<1>7. PendOK'
  <2>1. row'[c] = r /\ r # None
    BY <1>1, ChildAssumption DEF Save, Inv, TypeOK
  <2>2. pend'.c = c /\ pend'.at = "assign" /\ pend'.to = r.st
    BY <1>1
  <2> QED
    BY <2>1, <2>2 DEF PendOK
<1> QED
  BY <1>3, <1>5, <1>6, <1>7 DEF Half

\* A record is saved and keeps its state.
LEMMA SaveHalf ==
    ASSUME Inv, Quiet, NEW c \in Children, NEW r \in Record, Present(c), Save(c, r),
           UNCHANGED <<pend, started>>,
           r.st = rec[c].st, r.conf => r.st = "cancelled",
           r.sess = rec[c].sess,
           r.sess # None => native'[r.sess] \notin Unborn,
           UNCHANGED <<asg, sess>>, NatStep, HookOK', BusOK'
    PROVE  Half
<1>1. /\ rec' \in [Children -> Record \cup {None}]
      /\ row' \in [Children -> Record \cup {None}]
      /\ Rows' /\ EndStep
  BY SaveRows DEF Inv
<1>2. c \in started' => r.sess # None
  BY DEF Inv, Stops, EndedOK, Bound
<1>3. c \in started' /\ r.sess = c /\ r.st \in Terminal => native'[c] \in Over
  BY DEF Inv, Stops, EndedOK, Bound, NatStep
<1>4. Stops' /\ Keeps
  BY <1>2, <1>3, SaveStops DEF Inv, Ended
<1>5. PendOK'
  BY DEF Quiet, PendOK
<1> QED
  BY <1>1, <1>4, <1>5 DEF Half, Inv, TypeOK

-----------------------------------------------------------------------------
(* The state of cancelRun. *)

LEMMA CancKept ==
    ASSUME TypeOK, CancOK, Keeps,
           \A q \in Cancellers : canc'[q] = canc[q] \/ CancAt(q)',
           \A c \in late' : c \in Children /\ (c \in late \/ Bound(c))
    PROVE  CancOK'
<1>1. ASSUME NEW c \in Children
      PROVE  (Present(c) => Present(c)') /\ (Bound(c) => Bound(c)') /\ (Ended(c) => Ended(c)')
  BY DEF Keeps, Present, Bound, Ended
<1>2. ASSUME NEW q \in Cancellers, canc'[q] = canc[q] PROVE CancAt(q)'
  <2>1. canc[q].todo \in SUBSET Children
    BY DEF TypeOK, CancelState
  <2>2. CancAt(q)
    BY DEF CancOK
  <2>3. canc[q].pc \in {"abort", "handle", "abort2"} => canc[q].cur \in Children
    BY <2>2 DEF CancAt
  <2> QED
    BY <1>2, <2>1, <2>2, <2>3, <1>1 DEF CancAt
<1>3. \A c \in late' : Bound(c)'
  BY <1>1 DEF CancOK
<1> QED
  BY <1>2, <1>3 DEF CancOK

LEMMA GotoFacts ==
    ASSUME TypeOK, NEW p \in Cancellers,
           NEW pc \in {"idle", "next", "abort", "handle", "abort2", "barrier"},
           Goto(p, pc)
    PROVE  /\ canc' \in [Cancellers -> CancelState]
           /\ canc'[p].pc = pc /\ canc'[p].cur = canc[p].cur
           /\ canc'[p].todo = canc[p].todo
           /\ \A q \in Cancellers : q # p => canc'[q] = canc[q]
BY DEF TypeOK, CancelState, Goto

LEMMA LeaveFacts ==
    ASSUME TypeOK, NEW p \in Cancellers, Leave(p)
    PROVE  /\ canc' \in [Cancellers -> CancelState]
           /\ canc'[p].pc = "next"
           /\ canc'[p].todo \subseteq canc[p].todo
           /\ \A q \in Cancellers : q # p => canc'[q] = canc[q]
BY DEF TypeOK, CancelState, Leave

\* The message goes on with the same child or with what is left of them.
LEMMA GotoCanc ==
    ASSUME TypeOK, CancOK, Keeps, late' = late, NEW p \in Cancellers,
           NEW pc \in {"idle", "next", "abort", "handle", "abort2", "barrier"},
           Goto(p, pc),
           pc \in {"abort", "handle", "abort2"}
              => canc[p].cur \in Children /\ Present(canc[p].cur),
           pc \in {"abort", "handle", "abort2"} => Bound(canc[p].cur)
    PROVE  CancOK' /\ canc' \in [Cancellers -> CancelState]
<1>1. ASSUME NEW c \in Children
      PROVE  (Present(c) => Present(c)') /\ (Bound(c) => Bound(c)') /\ (Ended(c) => Ended(c)')
  BY DEF Keeps, Present, Bound, Ended
<1>2. canc[p].todo \in SUBSET Children /\ (\A c \in canc[p].todo : Present(c))
  BY DEF TypeOK, CancelState, CancOK, CancAt
<1>3. CancAt(p)'
  BY <1>1, <1>2, GotoFacts DEF CancAt
<1>4. \A q \in Cancellers : canc'[q] = canc[q] \/ CancAt(q)'
  BY <1>3, GotoFacts
<1>5. \A c \in late' : c \in Children /\ (c \in late \/ Bound(c))
  BY DEF TypeOK
<1> QED
  BY <1>4, <1>5, CancKept, GotoFacts

LEMMA LeaveCanc ==
    ASSUME TypeOK, CancOK, Keeps, NEW p \in Cancellers, Leave(p),
           \A c \in late' : c \in Children /\ (c \in late \/ Bound(c))
    PROVE  CancOK' /\ canc' \in [Cancellers -> CancelState]
<1>1. ASSUME NEW c \in Children PROVE Present(c) => Present(c)'
  BY DEF Keeps, Present
<1>2. canc[p].todo \in SUBSET Children /\ (\A c \in canc[p].todo : Present(c))
  BY DEF TypeOK, CancelState, CancOK, CancAt
<1>3. CancAt(p)'
  BY <1>1, <1>2, LeaveFacts DEF CancAt
<1>4. \A q \in Cancellers : canc'[q] = canc[q] \/ CancAt(q)'
  BY <1>3, LeaveFacts
<1> QED
  BY <1>4, CancKept, LeaveFacts

LEMMA SameCanc ==
    ASSUME TypeOK, CancOK, Keeps, UNCHANGED canc, late' \subseteq late
    PROVE  CancOK'
<1>1. \A c \in late' : c \in Children /\ (c \in late \/ Bound(c))
  BY DEF TypeOK
<1> QED
  BY <1>1, CancKept

LEMMA NatSame ==
    ASSUME TypeOK, UNCHANGED native
    PROVE  NatStep
BY DEF TypeOK, NatStep

-----------------------------------------------------------------------------
(* One lemma per action. *)

Step == Inv' /\ EndStep /\ ReplaceStep

\* Steps of OpenCode that change one session and what it raises.
LEMMA NativeStep ==
    ASSUME Inv, NEW c \in Children, NEW s \in {"live", "stopped", "deleted", "dead"},
           native[c] \notin {"idle", "called"},
           native[c] \in Over => s \in Over,
           native' = [native EXCEPT ![c] = s],
           HookOK', BusOK', bus' \in Seq(Event), hooks' \in SUBSET Children,
           UNCHANGED <<service, control, started, crashes>>
    PROVE  Step
<1>1. NatStep
  BY DEF NatStep, Inv, TypeOK, NativeStates, Unborn, Over
<1>2. Half
  BY <1>1, RefuseHalf DEF Refuse, service
<1>3. CancOK'
  BY <1>2, SameCanc DEF Half, Inv, control
<1>4. TypeOK'
  BY <1>1, <1>2 DEF NatStep, Inv, TypeOK, service, control
<1> QED
  BY <1>2, <1>3, <1>4 DEF Step, Half, Inv, ReplaceStep, control

LEMMA NativeStepFacts ==
    ASSUME Inv, NEW c \in Children, NEW s \in {"live", "stopped", "deleted", "dead"},
           native[c] \notin {"idle", "called"},
           native[c] \in Over => s \in Over,
           native' = [native EXCEPT ![c] = s]
    PROVE  /\ NatStep /\ native'[c] = s /\ s \notin Unborn
           /\ hooks' \subseteq hooks => HookOK'
           /\ UNCHANGED bus => BusOK' /\ bus' \in Seq(Event)
<1>1. NatStep /\ native'[c] = s /\ s \notin Unborn
  BY DEF NatStep, Inv, TypeOK, NativeStates, Unborn, Over
<1> QED
  BY <1>1, HooksKept, BusSame DEF Inv, Stops, TypeOK

LEMMA NativeStartStep == ASSUME Inv, NEW c \in Children, NativeStart(c) PROVE Step
<1>1. /\ native[c] = "allowed" /\ native' = [native EXCEPT ![c] = "live"]
      /\ Raise("created", c) /\ UNCHANGED <<hooks, service, control, started, crashes>>
  BY DEF NativeStart
<1>2. NatStep /\ native'[c] = "live" /\ "live" \notin Unborn /\ HookOK'
  BY <1>1, NativeStepFacts DEF Over
<1>3. BusOK' /\ bus' \in Seq(Event)
  BY <1>1, <1>2, BusRaised DEF Inv, Stops
<1> QED
  BY <1>1, <1>2, <1>3, NativeStep DEF Inv, TypeOK, Over

LEMMA NativeRefuseStep == ASSUME Inv, NEW c \in Children, NativeRefuse(c) PROVE Step
<1>1. /\ native[c] = "allowed" /\ native' = [native EXCEPT ![c] = "dead"]
      /\ UNCHANGED <<service, bus, hooks, control, started, crashes>>
  BY DEF NativeRefuse
<1>2. HookOK' /\ BusOK' /\ bus' \in Seq(Event)
  BY <1>1, NativeStepFacts DEF Over
<1> QED
  BY <1>1, <1>2, NativeStep DEF Inv, TypeOK, Over

LEMMA NativeEndStep == ASSUME Inv, NEW c \in Children, NativeEnd(c) PROVE Step
<1>1. /\ native[c] = "live" /\ native' = [native EXCEPT ![c] = "stopped"]
      /\ \/ hooks' = hooks \cup {c} /\ UNCHANGED bus
         \/ Raise("error", c) /\ UNCHANGED hooks
      /\ UNCHANGED <<service, control, started, crashes>>
  BY DEF NativeEnd
<1>2. /\ NatStep /\ native'[c] = "stopped" /\ "stopped" \notin Unborn
      /\ hooks' \subseteq hooks => HookOK'
      /\ UNCHANGED bus => BusOK' /\ bus' \in Seq(Event)
  BY <1>1, NativeStepFacts DEF Over
<1>3. CASE hooks' = hooks \cup {c} /\ UNCHANGED bus
  <2>1. HookOK' /\ hooks' \in SUBSET Children
    BY <1>2, <1>3 DEF HookOK, Inv, Stops, TypeOK, NatStep, Over
  <2> QED
    BY <1>1, <1>2, <1>3, <2>1, NativeStep DEF Over
<1>4. CASE Raise("error", c) /\ UNCHANGED hooks
  <2>1. BusOK' /\ bus' \in Seq(Event)
    BY <1>2, <1>4, BusRaised DEF Inv, Stops, Over
  <2> QED
    BY <1>1, <1>2, <1>4, <2>1, NativeStep DEF Inv, TypeOK, Over
<1> QED
  BY <1>1, <1>3, <1>4

LEMMA NativeDeleteStep == ASSUME Inv, NEW c \in Children, NativeDelete(c) PROVE Step
<1>1. /\ native[c] \in {"live", "stopped"} /\ native' = [native EXCEPT ![c] = "deleted"]
      /\ Raise("deleted", c) /\ UNCHANGED <<hooks, service, control, started, crashes>>
  BY DEF NativeDelete
<1>2. NatStep /\ native'[c] = "deleted" /\ "deleted" \notin Unborn /\ HookOK'
  BY <1>1, NativeStepFacts DEF Over
<1>3. BusOK' /\ bus' \in Seq(Event)
  BY <1>1, <1>2, BusRaised DEF Inv, Stops, Over
<1> QED
  BY <1>1, <1>2, <1>3, NativeStep DEF Inv, TypeOK, Over

LEMMA TaskCalledStep == ASSUME Inv, NEW c \in Children, TaskCalled(c) PROVE Step
<1>1. /\ native[c] = "idle" /\ pend = None
      /\ \/ /\ native' = [native EXCEPT ![c] = "called"]
            /\ asg' = [asg EXCEPT ![c] = "pending"]
         \/ native' = [native EXCEPT ![c] = "allowed"] /\ UNCHANGED asg
      /\ UNCHANGED <<rec, row, sess, handle, cleaned, pend, bus, hooks, control,
                     started, crashes>>
  BY DEF TaskCalled, Quiet
<1>2. NatStep
  BY <1>1 DEF NatStep, Inv, TypeOK, NativeStates, Unborn, Over
<1>3. /\ asg' \in [Children -> {None, "pending", "in_progress"} \cup Terminal]
      /\ \A d \in Children : asg'[d] \in Terminal => asg'[d] = asg[d]
  BY <1>1 DEF Inv, TypeOK, Terminal
<1>4. Rows' /\ EndStep
  BY <1>1, <1>2, <1>3, QuietRows DEF Inv
<1>5. HookOK' /\ BusOK'
  BY <1>1, <1>2, HooksKept, BusSame DEF Inv, Stops
<1>6. Stops'
  BY <1>1, <1>2, <1>5, QuietStops DEF Inv
<1>7. Keeps
  BY <1>1 DEF Keeps, Present, Bound, Ended
<1>8. CancOK' /\ PendOK'
  BY <1>1, <1>7, SameCanc DEF Inv, control, PendOK
<1>9. TypeOK'
  BY <1>1, <1>2, <1>3 DEF NatStep, Inv, TypeOK, control
<1> QED
  BY <1>1, <1>4, <1>6, <1>8, <1>9 DEF Step, Inv, ReplaceStep, control

\* registerDelegation makes the first record of the call.
LEMMA RegisterStep == ASSUME Inv, NEW c \in Children, RegisterDelegation(c) PROVE Step
<1> DEFINE r == [st |-> "queued", req |-> FALSE, conf |-> FALSE, sess |-> None]
<1> USE ChildAssumption
<1>1. /\ native[c] = "called" /\ pend = None
      /\ native' = [native EXCEPT ![c] = "allowed"]
      /\ Save(c, r) /\ handle' = [handle EXCEPT ![c] = "open"]
      /\ UNCHANGED <<asg, sess, cleaned, pend, bus, hooks, control, started, crashes>>
  BY DEF RegisterDelegation, Quiet
<1>2. r \in Record /\ r # None /\ r.st = "queued" /\ ~r.conf /\ r.sess = None
  <2>1. r \in Record
    BY DEF Record, ChildStates, Active
  <2>2. r.st = "queued" /\ r.conf = FALSE /\ r.sess = None
    OBVIOUS
  <2> HIDE DEF r
  <2> QED
    BY <2>1, <2>2
<1> HIDE DEF r
<1>3. NatStep /\ native'[c] = "allowed"
  BY <1>1 DEF NatStep, Inv, TypeOK, NativeStates, Unborn, Over
<1>4. row[c] = None /\ asg[c] \notin Terminal /\ sess[c] = None /\ rec[c] = None
  BY <1>1, SameFields DEF Inv, Rows, Fresh, Present
<1>5. /\ rec' \in [Children -> Record \cup {None}]
      /\ row' \in [Children -> Record \cup {None}]
      /\ rec'[c] = r /\ row'[c] = r
      /\ \A d \in Children : d # c => row'[d] = row[d] /\ rec'[d] = rec[d]
  BY <1>1, <1>2 DEF Inv, TypeOK, Save
<1>6. Keeps
  BY <1>4, <1>5 DEF Keeps, Present, Bound, Ended
<1>7. Rows' /\ EndStep
  <2>1. Fresh'
    BY <1>1, <1>3, <1>5 DEF Inv, Rows, Fresh, NatStep
  <2>2. ConfOK' /\ Cached'
    <3>1. ConfOK'
      BY <1>2, <1>5 DEF Inv, Rows, ConfOK, Present
    <3>2. Cached'
      BY <1>5 DEF Inv, Rows, Cached
    <3> QED
      BY <3>1, <3>2
  <2>4. Linked'
    BY <1>1, <1>2, <1>4, <1>5 DEF Inv, Rows, Linked, Bound, Present
  <2>3. SessOK' /\ AssignmentFollowsChild' /\ EndStep
    BY <1>1, <1>4, <1>5 DEF Inv, Rows, SessOK, AssignmentFollowsChild, EndStep,
                            Terminal, ChildStates
  <2> QED
    BY <2>1, <2>2, <2>3, <2>4 DEF Rows
<1>8. Stops'
  <2>1. HookOK' /\ BusOK'
    BY <1>1, <1>3, HooksKept, BusSame DEF Inv, Stops
  <2>2. BornOK'
    <3> SUFFICES ASSUME NEW d \in Children, rec'[d] # None, rec'[d].sess # None
                 PROVE  native'[rec'[d].sess] \notin Unborn
      BY DEF BornOK, Bound, Present
    <3>1. d # c /\ rec'[d] = rec[d] /\ Bound(d)
      BY <1>2, <1>5 DEF Bound, Present
    <3>2. rec[d].sess \in Children
      BY <3>1 DEF Inv, TypeOK, Bound, Present, Record
    <3> QED
      BY <3>1, <3>2, <1>3 DEF Inv, Stops, BornOK, NatStep
  <2>3. EndedOK'
    <3> SUFFICES ASSUME NEW d \in started
                 PROVE  /\ rec'[d] # None /\ rec'[d].sess # None
                        /\ rec'[d].sess = d /\ rec'[d].st \in Terminal
                              => native'[d] \in Over
      BY <1>1 DEF EndedOK, Bound, Present
    <3>1. d \in Children /\ Bound(d)
      BY DEF Inv, TypeOK, Stops, EndedOK
    <3>2. d # c /\ rec'[d] = rec[d]
      BY <3>1, <1>4, <1>5 DEF Bound, Present
    <3> QED
      BY <3>1, <3>2, <1>3 DEF Inv, Stops, EndedOK, NatStep, Bound, Present
  <2> QED
    BY <2>1, <2>2, <2>3 DEF Stops
<1>9. CancOK' /\ PendOK'
  BY <1>1, <1>6, SameCanc DEF Inv, control, PendOK
<1>10. TypeOK'
  BY <1>1, <1>3, <1>5 DEF NatStep, Inv, TypeOK, control
<1> QED
  BY <1>1, <1>7, <1>8, <1>9, <1>10 DEF Step, Inv, ReplaceStep, control

\* Handlers that leave the cancellations alone.
LEMMA HandlerStep ==
    ASSUME Inv, Half, UNCHANGED <<asg, handle, cleaned, native, run, canc, late,
                                  deferred, replaced, crashes>>,
           due' \in BOOLEAN,
           UNCHANGED sess, bus' \in Seq(Event), hooks' \subseteq hooks
    PROVE  Step
<1>1. CancOK'
  BY SameCanc DEF Half, Inv
<1>2. TypeOK'
  BY DEF Inv, TypeOK, Half
<1> QED
  BY <1>1, <1>2 DEF Step, Inv, Half, ReplaceStep

LEMMA ToolAfterStep == ASSUME Inv, NEW c \in Children, ToolAfter(c) PROVE Step
<1>1. /\ c \in hooks /\ hooks' = hooks \ {c} /\ Mark(c, "completed")
      /\ UNCHANGED <<bus, asg, sess, handle, cleaned, native, control, crashes>>
  BY DEF ToolAfter
<1>2. NatStep /\ HookOK' /\ BusOK' /\ native[c] \in Over
  BY <1>1, NatSame, HooksKept, BusSame DEF Inv, Stops, HookOK
<1>3. CASE Refuse
  <2>1. Half
    BY <1>1, <1>2, <1>3, RefuseHalf
  <2> QED
    BY <1>1, <2>1, HandlerStep DEF Inv, TypeOK, control
<1>4. CASE /\ Present(c) /\ ValidTransition(rec[c].st, "completed")
           /\ Enter(c, [rec[c] EXCEPT !.st = "completed"])
  <2> DEFINE r == [rec[c] EXCEPT !.st = "completed"]
  <2>1. rec[c] \in Record
    BY <1>4 DEF Inv, TypeOK, Present
  <2>2. /\ r \in Record /\ r.st = "completed" /\ r.conf = rec[c].conf
        /\ r.sess = rec[c].sess
    BY <2>1 DEF Record, ChildStates, Terminal
  <2>3. ~rec[c].conf
    BY <1>4, <2>1 DEF Inv, Rows, ConfOK, ValidTransition
  <2>4. r.sess # None => native'[r.sess] \notin Unborn
    BY <1>1, <1>4, <2>2 DEF Inv, Stops, BornOK, Bound
  <2> HIDE DEF r
  <2>5. Half
    <3>1. Enter(c, r) /\ ValidTransition(rec[c].st, r.st) /\ Present(c)
      BY <1>4, <2>2 DEF r
    <3> QED
      BY <1>1, <1>2, <2>2, <2>3, <2>4, <3>1, EnterHalf
  <2> QED
    BY <1>1, <2>5, HandlerStep DEF Inv, TypeOK, control
<1> QED
  BY <1>1, <1>3, <1>4 DEF Mark

LEMMA SessionErrorStep == ASSUME Inv, NEW s \in Children, SessionError(s) PROVE Step
<1>1. /\ Deliver("error", s)
      /\ (\E c \in OwnersOf(s) : Mark(c, "failed")) \/ Refuse
      /\ UNCHANGED <<asg, sess, handle, cleaned, native, control, crashes>>
  BY DEF SessionError
<1>2. /\ NatStep /\ HookOK' /\ BusOK' /\ bus' \in Seq(Event) /\ UNCHANGED hooks
      /\ native[s] \in Over
  BY <1>1, NatSame, HooksKept, BusDelivered DEF Inv, Stops
<1>3. CASE Refuse
  <2>1. Half
    BY <1>1, <1>2, <1>3, RefuseHalf
  <2> QED
    BY <1>1, <1>2, <2>1, HandlerStep DEF Inv, TypeOK, control
<1>4. ASSUME NEW c \in OwnersOf(s), ValidTransition(rec[c].st, "failed"),
             Enter(c, [rec[c] EXCEPT !.st = "failed"])
      PROVE  Step
  <2> DEFINE r == [rec[c] EXCEPT !.st = "failed"]
  <2>1. rec[c] \in Record /\ Present(c) /\ rec[c].sess = s /\ c \in Children
    BY <1>4 DEF Inv, TypeOK, Present, OwnersOf
  <2>2. /\ r \in Record /\ r.st = "failed" /\ r.conf = rec[c].conf /\ r.sess = s
    BY <2>1 DEF Record, ChildStates, Terminal
  <2>3. ~rec[c].conf
    BY <1>4, <2>1 DEF Inv, Rows, ConfOK, ValidTransition
  <2>4. native'[r.sess] \notin Unborn /\ native'[s] \in Over
    BY <1>1, <1>2, <2>2 DEF Over, Unborn
  <2> HIDE DEF r
  <2>5. Half
    <3>1. Enter(c, r) /\ ValidTransition(rec[c].st, r.st)
      BY <1>4, <2>2 DEF r
    <3> QED
      BY <1>1, <1>2, <2>1, <2>2, <2>3, <2>4, <3>1, EnterHalf DEF Bound
  <2> QED
    BY <1>1, <1>2, <2>5, HandlerStep DEF Inv, TypeOK, control
<1> QED
  BY <1>1, <1>3, <1>4 DEF Mark

LEMMA SessionDeletedStep == ASSUME Inv, NEW s \in Children, SessionDeleted(s) PROVE Step
<1>1. /\ Deliver("deleted", s)
      /\ (\E c \in OwnersOf(s) : Confirmed(c)) \/ Refuse
      /\ due' = TRUE \/ UNCHANGED due
      /\ UNCHANGED <<asg, sess, handle, cleaned, native, run, canc, late,
                     deferred, replaced, crashes>>
  BY DEF SessionDeleted
<1>2. /\ NatStep /\ HookOK' /\ BusOK' /\ bus' \in Seq(Event) /\ UNCHANGED hooks
      /\ native[s] \in Over
  BY <1>1, NatSame, HooksKept, BusDelivered DEF Inv, Stops
<1>3. CASE Refuse
  <2>1. Half
    BY <1>1, <1>2, <1>3, RefuseHalf
  <2> QED
    BY <1>1, <1>2, <2>1, HandlerStep DEF Inv, TypeOK
<1>4. ASSUME NEW c \in OwnersOf(s), ValidTransition(rec[c].st, "cancelled"),
             Enter(c, [rec[c] EXCEPT !.st = "cancelled", !.req = TRUE, !.conf = TRUE])
      PROVE  Step
  <2> DEFINE r == [rec[c] EXCEPT !.st = "cancelled", !.req = TRUE, !.conf = TRUE]
  <2>1. rec[c] \in Record /\ Present(c) /\ rec[c].sess = s /\ c \in Children
    BY <1>4 DEF Inv, TypeOK, Present, OwnersOf
  <2>2. r \in Record /\ r.st = "cancelled" /\ r.sess = s
    BY <2>1 DEF Record, ChildStates, Terminal
  <2>4. native'[r.sess] \notin Unborn /\ native'[s] \in Over
    BY <1>1, <1>2, <2>2 DEF Over, Unborn
  <2> HIDE DEF r
  <2>5. Half
    <3>1. Enter(c, r) /\ ValidTransition(rec[c].st, r.st)
      BY <1>4, <2>2 DEF r
    <3> QED
      BY <1>1, <1>2, <2>1, <2>2, <2>4, <3>1, EnterHalf DEF Bound
  <2> QED
    BY <1>1, <1>2, <2>5, HandlerStep DEF Inv, TypeOK
<1> QED
  BY <1>1, <1>3, <1>4 DEF Confirmed

\* bindChildSession: the record and the agent_sessions row name the session,
\* the child's row does not yet.
LEMMA SessionCreatedStep == ASSUME Inv, NEW s \in Children, SessionCreated(s) PROVE Step
<1> USE ChildAssumption
<1>1. /\ pend = None /\ Deliver("created", s)
      /\ UNCHANGED <<row, asg, handle, cleaned, native, control, started, crashes>>
  BY DEF SessionCreated, Quiet
<1>2. /\ NatStep /\ HookOK' /\ BusOK' /\ bus' \in Seq(Event) /\ UNCHANGED hooks
      /\ native[s] \notin Unborn
  BY <1>1, NatSame, HooksKept, BusDelivered DEF Inv, Stops
<1>3. CASE UNCHANGED <<rec, sess, pend>>
  <2>1. Half
    BY <1>1, <1>2, <1>3, RefuseHalf DEF Refuse
  <2> QED
    BY <1>1, <1>2, <1>3, <2>1, HandlerStep DEF Inv, TypeOK, control
<1>4. ASSUME NEW c \in Candidates(s), NEW st,
             st = IF rec[c].st = "queued" THEN "running" ELSE rec[c].st,
             rec' = [rec EXCEPT ![c] = [@ EXCEPT !.sess = s]],
             sess' = [sess EXCEPT ![c] = [id |-> s, st |-> st]],
             pend' = [c |-> c, at |-> "bind", to |-> "running"]
      PROVE  Step
  <2> DEFINE b == [rec[c] EXCEPT !.sess = s]
  <2> DEFINE n == [id |-> s, st |-> st]
  <2>1. rec[c] \in Record /\ Present(c) /\ rec[c].sess = None /\ c \in Children
    BY <1>4 DEF Inv, TypeOK, Present, Candidates
  <2>2. /\ b \in Record /\ b.sess = s /\ b.st = rec[c].st /\ b.conf = rec[c].conf
        /\ s # None /\ b # None
    BY <2>1 DEF Record
  <2>3. ~Bound(c) /\ sess[c] = None
    BY <2>1 DEF Bound, Inv, Rows, Linked
  <2>4. row[c] = rec[c] /\ row[c] \in Record
    <3>1. row[c] \in Record
      BY <2>1, SameFields DEF Inv
    <3>2. rec[c] # row[c] =>
              row[c].sess = None /\ rec[c] = [row[c] EXCEPT !.sess = rec[c].sess]
      BY <2>1 DEF Inv, Rows, Cached
    <3> QED
      BY <2>1, <3>1, <3>2 DEF Record
  <2>5. n \in SessionRow /\ n.id = s /\ n.st = st /\ n # None
    BY <1>4, <2>1 DEF SessionRow, Record, ChildStates, Active
  <2>6. b = [row[c] EXCEPT !.sess = b.sess]
    BY <2>2, <2>4
  <2>7. /\ rec' = [rec EXCEPT ![c] = b] /\ sess' = [sess EXCEPT ![c] = n]
    BY <1>4
  <2> HIDE DEF b, n
  <2>8. /\ rec'[c] = b /\ sess'[c] = n
        /\ \A d \in Children : d # c => rec'[d] = rec[d] /\ sess'[d] = sess[d]
        /\ rec' \in [Children -> Record \cup {None}]
        /\ sess' \in [Children -> SessionRow \cup {None}]
    BY <2>1, <2>2, <2>5, <2>7 DEF Inv, TypeOK
  <2>9. Rows' /\ EndStep
    <3>1. Cached'
      <4> SUFFICES ASSUME NEW d \in Children, rec'[d] # row[d]
                   PROVE  /\ rec'[d] # None /\ row[d] # None /\ row[d].sess = None
                          /\ rec'[d] = [row[d] EXCEPT !.sess = rec'[d].sess]
        BY <1>1 DEF Cached
      <4>1. CASE d = c
        BY <4>1, <2>1, <2>2, <2>4, <2>6, <2>8
      <4>2. CASE d # c
        BY <4>2, <2>8 DEF Inv, Rows, Cached
      <4> QED
        BY <4>1, <4>2
    <3>2. Linked'
      BY <2>2, <2>5, <2>8 DEF Inv, Rows, Linked, Bound, Present
    <3>3. ConfOK'
      BY <2>1, <2>2, <2>8 DEF Inv, Rows, ConfOK, Present
    <3>4. Fresh'
      <4> SUFFICES ASSUME NEW d \in Children, native[d] \in {"idle", "called"}
                   PROVE  row[d] = None /\ asg[d] \notin Terminal /\ sess'[d] = None
        BY <1>1 DEF Fresh
      <4>1. row[d] = None /\ asg[d] \notin Terminal /\ sess[d] = None
        BY DEF Inv, Rows, Fresh
      <4>2. d # c
        BY <4>1, <2>4, <2>1 DEF Present
      <4> QED
        BY <4>1, <4>2, <2>8
    <3>5. SessOK'
      <4>1. st \in Terminal => st = row[c].st
        BY <1>4, <2>4 DEF Terminal
      <4> QED
        BY <1>1, <4>1, <2>1, <2>4, <2>5, <2>8 DEF Inv, Rows, SessOK, Present
    <3>6. AssignmentFollowsChild' /\ EndStep
      BY <1>1 DEF Inv, Rows, AssignmentFollowsChild, EndStep
    <3> QED
      BY <3>1, <3>2, <3>3, <3>4, <3>5, <3>6 DEF Rows
  <2>10. Keeps
    BY <2>2, <2>3, <2>8 DEF Keeps, Present, Bound, Ended
  <2>11. Stops'
    <3>1. BornOK'
      <4> SUFFICES ASSUME NEW d \in Children, rec'[d] # None, rec'[d].sess # None
                   PROVE  native[rec'[d].sess] \notin Unborn
        BY <1>1 DEF BornOK, Bound, Present
      <4>1. CASE d = c
        BY <4>1, <1>2, <2>2, <2>8
      <4>2. CASE d # c
        BY <4>2, <2>8 DEF Inv, Stops, BornOK, Bound, Present
      <4> QED
        BY <4>1, <4>2
    <3>2. c \notin started
      BY <2>3 DEF Inv, Stops, EndedOK
    <3>3. EndedOK'
      <4> SUFFICES ASSUME NEW d \in started
                   PROVE  /\ rec'[d] # None /\ rec'[d].sess # None
                          /\ rec'[d].sess = d /\ rec'[d].st \in Terminal
                                => native[d] \in Over
        BY <1>1 DEF EndedOK, Bound, Present
      <4>1. d \in Children /\ d # c /\ rec'[d] = rec[d]
        BY <2>8, <3>2 DEF Inv, TypeOK
      <4> QED
        BY <4>1 DEF Inv, Stops, EndedOK, Bound, Present
    <3> QED
      BY <1>2, <3>1, <3>3 DEF Stops
  <2>12. PendOK' /\ pend' \in Op
    <3>1. /\ pend' \in Op /\ pend'.c = c /\ pend'.at = "bind"
      BY <1>4, <2>1 DEF Op
    <3>2. Bound(c)'
      BY <2>2, <2>8 DEF Bound, Present
    <3> QED
      BY <3>1, <3>2 DEF PendOK, Bound, Present
  <2>13. CancOK'
    BY <1>1, <2>10, SameCanc DEF Inv, control
  <2>14. TypeOK'
    BY <1>1, <1>2, <2>8, <2>12 DEF Inv, TypeOK, control
  <2> QED
    BY <1>1, <2>9, <2>11, <2>12, <2>13, <2>14 DEF Step, Inv, ReplaceStep, control
<1> QED
  BY <1>3, <1>4 DEF SessionCreated

\* The second commit of bindChildSession: the row learns the session.
LEMMA SaveBindingStep == ASSUME Inv, SaveBinding PROVE Step
<1> USE ChildAssumption
<1>1. PICK c \in Children : c = pend.c
  BY DEF SaveBinding, Quiet, Inv, TypeOK, Op
<1>2. /\ pend # None /\ pend \in Op /\ pend.at = "bind"
      /\ row' = [row EXCEPT ![c] = rec[c]]
      /\ pend' = [pend EXCEPT !.at = "start"]
      /\ UNCHANGED <<rec, asg, sess, handle, cleaned, outside, control, started,
                     crashes>>
  BY <1>1 DEF SaveBinding, Quiet, Inv, TypeOK
<1>3. Bound(c) /\ Present(c)
  BY <1>1, <1>2 DEF Inv, PendOK, Bound
<1>4. row[c] # None /\ rec[c] \in Record /\ row[c].st = rec[c].st
  BY <1>3, SameFields DEF Inv
<1>5. /\ row'[c] = rec[c] /\ row'[c] # None
      /\ \A d \in Children : d # c => row'[d] = row[d]
      /\ row' \in [Children -> Record \cup {None}]
  BY <1>2, <1>4 DEF Inv, TypeOK
<1>6. NatStep
  BY <1>2, NatSame DEF outside, Inv
<1>7. Rows' /\ EndStep
  <2>1. Cached'
    BY <1>2, <1>5 DEF Inv, Rows, Cached
  <2>2. Linked' /\ ConfOK'
    BY <1>2 DEF Inv, Rows, Linked, ConfOK, Bound, Present
  <2>3. Fresh'
    BY <1>2, <1>4, <1>5 DEF Inv, Rows, Fresh, outside
  <2>4. SessOK' /\ AssignmentFollowsChild' /\ EndStep
    BY <1>2, <1>4, <1>5 DEF Inv, Rows, SessOK, AssignmentFollowsChild, EndStep
  <2> QED
    BY <2>1, <2>2, <2>3, <2>4 DEF Rows
<1>8. Stops'
  BY <1>2, <1>6, QuietStops, HooksKept, BusSame DEF Inv, Stops, outside
<1>9. /\ pend' \in Op /\ pend'.c = c /\ pend'.at = "start"
  BY <1>1, <1>2 DEF Op
<1>10. CancOK' /\ PendOK'
  <2>1. Keeps
    BY <1>2 DEF Keeps, Present, Bound, Ended
  <2>2. PendOK'
    BY <1>2, <1>3, <1>9 DEF PendOK, Bound, Present
  <2> QED
    BY <1>2, <2>1, <2>2, SameCanc DEF Inv, control
<1>11. TypeOK'
  BY <1>2, <1>5, <1>9 DEF Inv, TypeOK, control, outside
<1> QED
  BY <1>2, <1>7, <1>8, <1>10, <1>11 DEF Step, Inv, ReplaceStep, control

\* markStarted of a record that was bound before.
LEMMA MarkStartedStep == ASSUME Inv, MarkStarted PROVE Step
<1> USE ChildAssumption
<1>1. PICK c \in Children : c = pend.c
  BY DEF MarkStarted, Quiet, Inv, TypeOK, Op
<1>2. /\ pend # None /\ pend.at = "start"
      /\ UNCHANGED <<asg, sess, handle, cleaned, outside, control, crashes>>
  BY DEF MarkStarted, Quiet
<1>3. Bound(c) /\ Present(c) /\ rec[c] \in Record
  BY <1>1, <1>2 DEF Inv, PendOK, Bound, Present, TypeOK
<1>4. NatStep /\ HookOK' /\ BusOK' /\ native'[rec[c].sess] \notin Unborn
  BY <1>2, <1>3, NatSame, HooksKept, BusSame DEF Inv, Stops, BornOK, outside
<1>5. Half
  <2>1. CASE ValidTransition(rec[c].st, "running")
    <3> DEFINE r == [rec[c] EXCEPT !.st = "running"]
    <3>1. /\ r \in Record /\ r.st = "running" /\ r.sess = rec[c].sess
          /\ r.conf = rec[c].conf
      BY <1>3 DEF Record, ChildStates, Active
    <3>2. Enter(c, r)
      BY <1>1, <2>1 DEF MarkStarted
    <3> HIDE DEF r
    <3>3. ~r.conf
      BY <1>3, <2>1, <3>1 DEF Inv, Rows, ConfOK, ValidTransition, Terminal
    <3>4. r.sess # None /\ r.st \notin Terminal
      BY <1>3, <3>1 DEF Bound, Terminal
    <3> QED
      BY <1>2, <1>3, <1>4, <2>1, <3>1, <3>2, <3>3, <3>4, EnterHalf
  <2>2. CASE ~ValidTransition(rec[c].st, "running")
    <3>1. pend' = None /\ UNCHANGED <<rec, row, started>>
      BY <1>1, <2>2 DEF MarkStarted
    <3>2. Rows' /\ EndStep
      BY <1>2, <1>4, <3>1, QuietRows DEF Inv
    <3>3. Stops'
      BY <1>4, <3>1, QuietStops DEF Inv
    <3>4. Keeps /\ PendOK'
      BY <3>1 DEF Keeps, Present, Bound, Ended, PendOK
    <3> QED
      BY <3>1, <3>2, <3>3, <3>4 DEF Half, Inv, TypeOK
  <2> QED
    BY <2>1, <2>2
<1> QED
  BY <1>2, <1>5, HandlerStep DEF outside, control, Inv, TypeOK

\* A commit that leaves records and rows alone.
LEMMA WriteStep ==
    ASSUME Inv, UNCHANGED <<rec, row, outside, control, started, crashes>>,
           pend' \in Op \cup {None}, PendOK',
           asg' \in [Children -> {None, "pending", "in_progress"} \cup Terminal],
           sess' \in [Children -> SessionRow \cup {None}],
           handle' \in [Children -> {"none", "open", "resolved"}],
           cleaned' \in SUBSET Children,
           \A d \in Children : asg'[d] \in Terminal =>
               asg'[d] = asg[d] \/ (row[d] # None /\ row[d].st = asg'[d]),
           \A d \in Children : sess'[d] = sess[d] \/
               /\ sess[d] # None /\ sess'[d] # None
               /\ sess'[d].id = sess[d].id
               /\ row[d] # None /\ row[d].st = sess'[d].st
    PROVE  Step
<1>1. NatStep
  BY NatSame DEF outside, Inv
<1>2. Rows' /\ EndStep
  BY <1>1, QuietRows DEF Inv
<1>3. Stops'
  BY <1>1, QuietStops, HooksKept, BusSame DEF Inv, Stops, outside
<1>4. CancOK'
  <2>1. Keeps
    BY DEF Keeps, Present, Bound, Ended
  <2> QED
    BY <2>1, SameCanc DEF Inv, control
<1>5. TypeOK'
  BY DEF Inv, TypeOK, control, outside
<1> QED
  BY <1>2, <1>3, <1>4, <1>5 DEF Step, Inv, ReplaceStep, control

\* The assignment follows the row's state.
LEMMA WriteAssignmentStep == ASSUME Inv, WriteAssignment PROVE Step
<1> USE ChildAssumption
<1>1. PICK c \in Children, st \in {"running"} \cup Terminal : c = pend.c /\ st = pend.to
  BY DEF WriteAssignment, Quiet, Inv, TypeOK, Op
<1>2. /\ pend # None /\ pend \in Op /\ pend.at \in {"assign", "orphan"}
      /\ asg' = [asg EXCEPT ![c] = AssignmentOf(st)]
      /\ pend' = IF pend.at = "assign" THEN [pend EXCEPT !.at = "session"] ELSE None
      /\ UNCHANGED <<rec, row, sess, handle, cleaned, outside, control, started,
                     crashes>>
  BY <1>1 DEF WriteAssignment, Quiet, Inv, TypeOK
<1>3. row[c] # None /\ row[c].st = st
  BY <1>1, <1>2 DEF Inv, PendOK
<1>4. /\ AssignmentOf(st) \in {"in_progress"} \cup Terminal
      /\ AssignmentOf(st) \in Terminal => AssignmentOf(st) = st
  BY <1>1 DEF AssignmentOf, Terminal
<1>5. /\ asg' \in [Children -> {None, "pending", "in_progress"} \cup Terminal]
      /\ \A d \in Children : asg'[d] = asg[d] \/ (d = c /\ asg'[d] = AssignmentOf(st))
  BY <1>2, <1>4 DEF Inv, TypeOK
<1>6. pend' \in Op \cup {None} /\ PendOK'
  <2>1. CASE pend.at = "assign"
    <3>1. pend' \in Op /\ pend'.c = c /\ pend'.at = "session" /\ pend'.to = st
      BY <1>1, <1>2, <2>1 DEF Op
    <3> QED
      BY <1>2, <1>3, <3>1 DEF PendOK
  <2>2. CASE pend.at # "assign"
    BY <1>2, <2>2 DEF PendOK
  <2> QED
    BY <2>1, <2>2
<1>7. \A d \in Children : asg'[d] \in Terminal =>
          asg'[d] = asg[d] \/ (row[d] # None /\ row[d].st = asg'[d])
  BY <1>3, <1>4, <1>5
<1>8. /\ sess' \in [Children -> SessionRow \cup {None}]
      /\ handle' \in [Children -> {"none", "open", "resolved"}]
      /\ cleaned' \in SUBSET Children
  BY <1>2 DEF Inv, TypeOK
<1> QED
  BY <1>2, <1>5, <1>6, <1>7, <1>8, WriteStep

\* The session row of a bound child is given the row's state.
LEMMA SessionFollows ==
    ASSUME Inv, NEW c \in Children, Bound(c), NEW st \in {"running"} \cup Terminal,
           row[c].st = st, sess' = [sess EXCEPT ![c] = [@ EXCEPT !.st = st]]
    PROVE  /\ sess' \in [Children -> SessionRow \cup {None}]
           /\ \A d \in Children : sess'[d] = sess[d] \/
                 /\ sess[d] # None /\ sess'[d] # None
                 /\ sess'[d].id = sess[d].id
                 /\ row[d] # None /\ row[d].st = sess'[d].st
<1> DEFINE n == [sess[c] EXCEPT !.st = st]
<1>1. sess[c] # None /\ sess[c] \in SessionRow
  BY DEF Inv, Rows, Linked, TypeOK
<1>2. n \in SessionRow /\ n.id = sess[c].id /\ n.st = st
  BY <1>1 DEF SessionRow
<1>3. sess' = [sess EXCEPT ![c] = n]
  OBVIOUS
<1> HIDE DEF n
<1>4. n # None /\ row[c] # None
  BY <1>2, SameFields, ChildAssumption DEF Inv, Bound
<1> QED
  BY <1>1, <1>2, <1>3, <1>4 DEF Inv, TypeOK

\* The agent_sessions row and the registry follow.
LEMMA SettleStep == ASSUME Inv, Settle PROVE Step
<1> USE ChildAssumption
<1>1. PICK c \in Children, st \in {"running"} \cup Terminal : c = pend.c /\ st = pend.to
  BY DEF Settle, Quiet, Inv, TypeOK, Op
<1>2. /\ pend # None /\ pend.at = "session" /\ pend' = None
      /\ sess' = IF Bound(c) THEN [sess EXCEPT ![c] = [@ EXCEPT !.st = st]] ELSE sess
      /\ handle' = [handle EXCEPT ![c] = "none"] \/ UNCHANGED handle
      /\ cleaned' = cleaned \ {c} \/ UNCHANGED cleaned
      /\ UNCHANGED <<rec, row, asg, outside, control, started, crashes>>
  BY <1>1 DEF Settle, Quiet
<1>3. row[c] # None /\ row[c].st = st
  BY <1>1, <1>2 DEF Inv, PendOK
<1>4. /\ sess' \in [Children -> SessionRow \cup {None}]
      /\ \A d \in Children : sess'[d] = sess[d] \/
            /\ sess[d] # None /\ sess'[d] # None
            /\ sess'[d].id = sess[d].id
            /\ row[d] # None /\ row[d].st = sess'[d].st
  <2>1. CASE Bound(c)
    BY <1>2, <1>3, <2>1, SessionFollows
  <2>2. CASE ~Bound(c)
    BY <1>2, <2>2 DEF Inv, TypeOK
  <2> QED
    BY <2>1, <2>2
<1>5. /\ asg' \in [Children -> {None, "pending", "in_progress"} \cup Terminal]
      /\ handle' \in [Children -> {"none", "open", "resolved"}]
      /\ cleaned' \in SUBSET Children
  BY <1>2 DEF Inv, TypeOK
<1>6. pend' \in Op \cup {None} /\ PendOK'
  BY <1>2 DEF PendOK
<1> QED
  BY <1>2, <1>4, <1>5, <1>6, WriteStep

-----------------------------------------------------------------------------
(* cancelRun. *)

LEMMA CancelRunStep ==
    ASSUME Inv, NEW p \in Cancellers, NEW kind \in {"cancel", "replace"},
           CancelRun(p, kind)
    PROVE  Step
<1> DEFINE T == {c \in Children : Present(c) /\ rec[c].st \in Active}
<1>1. /\ canc' = [canc EXCEPT ![p] = [pc |-> "next", kind |-> kind, cur |-> None,
                                      todo |-> T]]
      /\ T \in SUBSET Children /\ \A c \in T : Present(c)
      /\ UNCHANGED <<service, outside, run, late, deferred, due, replaced, started,
                     crashes>>
  BY DEF CancelRun
<1> HIDE DEF T
<1>2. /\ canc' \in [Cancellers -> CancelState]
      /\ canc'[p].pc = "next" /\ canc'[p].todo = T
      /\ \A q \in Cancellers : q # p => canc'[q] = canc[q]
  BY <1>1 DEF Inv, TypeOK, CancelState
<1>3. NatStep /\ HookOK' /\ BusOK'
  BY <1>1, NatSame, HooksKept, BusSame DEF outside, Inv, Stops
<1>4. Half
  BY <1>1, <1>3, RefuseHalf DEF Refuse, service
<1>5. CancOK'
  <2>1. CancAt(p)'
    BY <1>1, <1>2 DEF CancAt, Present, service
  <2>2. \A q \in Cancellers : canc'[q] = canc[q] \/ CancAt(q)'
    BY <1>2, <2>1
  <2>3. \A c \in late' : c \in Children /\ (c \in late \/ Bound(c))
    BY <1>1 DEF Inv, TypeOK
  <2> QED
    BY <1>4, <2>2, <2>3, CancKept DEF Inv, Half
<1>6. TypeOK'
  BY <1>1, <1>2 DEF Inv, TypeOK, service, outside
<1> QED
  BY <1>1, <1>4, <1>5, <1>6 DEF Step, Inv, Half, ReplaceStep

LEMMA CancelNextStep ==
    ASSUME Inv, NEW p \in Cancellers, NEW c \in Children, CancelNext(p, c)
    PROVE  Step
<1> USE ChildAssumption
<1>1. /\ pend = None /\ canc[p].pc = "next" /\ c \in canc[p].todo
      /\ UNCHANGED <<asg, sess, handle, cleaned, outside, run, late, deferred,
                     due, replaced, crashes>>
  BY DEF CancelNext, Quiet
<1>2. PICK pc \in {"handle", "abort"} :
          /\ canc' = [canc EXCEPT ![p] = [@ EXCEPT !.pc = pc, !.cur = c]]
          /\ pc = "abort" => Bound(c)
          /\ \/ Refuse /\ (pc = "handle" => rec[c].st \in Terminal)
             \/ rec[c].st = "queued" /\ ~Bound(c) /\ Confirmed(c)
  BY DEF CancelNext
<1>3. NatStep /\ HookOK' /\ BusOK'
  BY <1>1, NatSame, HooksKept, BusSame DEF outside, Inv, Stops
<1>4. Present(c) /\ rec[c] \in Record
  BY <1>1 DEF Inv, CancOK, CancAt, TypeOK, Present
<1>5. Half /\ (pc = "handle" => Ended(c)')
  <2>1. CASE Refuse /\ (pc = "handle" => rec[c].st \in Terminal)
    BY <1>1, <1>3, <1>4, <2>1, RefuseHalf DEF Refuse, Ended, Present
  <2>2. CASE rec[c].st = "queued" /\ ~Bound(c) /\ Confirmed(c)
    <3> DEFINE r == [rec[c] EXCEPT !.st = "cancelled", !.req = TRUE, !.conf = TRUE]
    <3>1. r \in Record /\ r.st = "cancelled" /\ r.sess = None /\ rec[c].sess = None
      BY <1>4, <2>2 DEF Record, ChildStates, Terminal, Bound
    <3>2. Enter(c, r) /\ ValidTransition(rec[c].st, "cancelled")
      BY <2>2 DEF Confirmed, ValidTransition, Terminal
    <3> HIDE DEF r
    <3>3. rec'[c] = r /\ r # None /\ r.st \in Terminal
      BY <3>1, <3>2 DEF Enter, Save, Inv, TypeOK, Terminal
    <3> QED
      BY <1>1, <1>3, <1>4, <2>2, <3>1, <3>2, <3>3, EnterHalf DEF Ended, Present
  <2> QED
    BY <1>2, <2>1, <2>2
<1>6. /\ canc' \in [Cancellers -> CancelState]
      /\ canc'[p].pc = pc /\ canc'[p].cur = c /\ canc'[p].todo = canc[p].todo
      /\ \A q \in Cancellers : q # p => canc'[q] = canc[q]
  <2> DEFINE n == [canc[p] EXCEPT !.pc = pc, !.cur = c]
  <2>1. canc[p] \in CancelState /\ canc \in [Cancellers -> CancelState]
    BY DEF Inv, TypeOK
  <2>2. /\ n \in CancelState
        /\ n.pc = pc /\ n.cur = c /\ n.todo = canc[p].todo
    BY <2>1 DEF CancelState
  <2>3. canc' = [canc EXCEPT ![p] = n]
    BY <1>2
  <2> HIDE DEF n
  <2> QED
    BY <2>1, <2>2, <2>3
<1>7. CancOK'
  <2>1. CancAt(p)'
    <3>1. canc[p].todo \in SUBSET Children /\ \A d \in canc[p].todo : Present(d)
      BY DEF Inv, TypeOK, CancelState, CancOK, CancAt
    <3>2. \A d \in Children : (Present(d) => Present(d)') /\ (Bound(d) => Bound(d)')
      BY <1>5 DEF Half, Keeps, Present, Bound
    <3> QED
      BY <1>2, <1>4, <1>5, <1>6, <3>1, <3>2 DEF CancAt
  <2>2. \A q \in Cancellers : canc'[q] = canc[q] \/ CancAt(q)'
    BY <1>6, <2>1
  <2>3. \A d \in late' : d \in Children /\ (d \in late \/ Bound(d))
    BY <1>1 DEF Inv, TypeOK
  <2> QED
    BY <1>5, <2>2, <2>3, CancKept DEF Inv, Half
<1>8. TypeOK'
  BY <1>1, <1>5, <1>6 DEF Inv, TypeOK, Half, outside
<1> QED
  BY <1>1, <1>5, <1>7, <1>8 DEF Step, Inv, Half, ReplaceStep

\* The reply to an abort: confirmed only with a session that has stopped.
LEMMA ReplyHalf ==
    ASSUME Inv, Quiet, NEW c \in Children, Bound(c), NEW ok \in BOOLEAN,
           native' \in {native, [native EXCEPT ![rec[c].sess] =
                                    IF @ = "live" THEN "stopped" ELSE @]},
           ok => native'[rec[c].sess] # "live",
           \/ ok /\ Confirmed(c)
           \/ /\ Save(c, [rec[c] EXCEPT !.req = TRUE, !.conf = FALSE])
              /\ UNCHANGED <<pend, started>>,
           UNCHANGED <<asg, sess, bus, hooks>>
    PROVE  Half /\ NatStep
<1> DEFINE s == rec[c].sess
<1>1. rec[c] \in Record /\ s \in Children /\ Present(c)
  BY DEF Inv, TypeOK, Bound, Present, Record
<1>2. native[s] \notin Unborn
  BY DEF Inv, Stops, BornOK
<1>3. NatStep
  BY <1>1, <1>2 DEF NatStep, Inv, TypeOK, NativeStates, Unborn, Over
<1>4. native'[s] \notin Unborn /\ (ok => native'[s] \in Over)
  BY <1>1, <1>2, <1>3 DEF NatStep, NativeStates, Unborn, Over
<1>5. HookOK' /\ BusOK'
  BY <1>3, HooksKept, BusSame DEF Inv, Stops
<1>6. CASE Refuse
  BY <1>3, <1>5, <1>6, RefuseHalf
<1>7. CASE ok /\ ValidTransition(rec[c].st, "cancelled")
           /\ Enter(c, [rec[c] EXCEPT !.st = "cancelled", !.req = TRUE, !.conf = TRUE])
  <2> DEFINE r == [rec[c] EXCEPT !.st = "cancelled", !.req = TRUE, !.conf = TRUE]
  <2>1. r \in Record /\ r.st = "cancelled" /\ r.sess = s
    BY <1>1 DEF Record, ChildStates, Terminal
  <2>2. Enter(c, r) /\ ValidTransition(rec[c].st, r.st)
    BY <1>7, <2>1
  <2> HIDE DEF r
  <2>3. s # None
    BY DEF Bound
  <2>4. r.sess # None => native'[r.sess] \notin Unborn
    BY <1>4, <2>1
  <2>5. c \in started /\ r.sess = c /\ r.st \in Terminal => native'[c] \in Over
    BY <1>4, <1>7, <2>1
  <2>6. r.st # "running" /\ (Bound(c) => r.sess = rec[c].sess)
    BY <2>1
  <2> QED
    BY <1>1, <1>3, <1>5, <2>1, <2>2, <2>4, <2>5, <2>6, EnterHalf
<1>8. CASE /\ Save(c, [rec[c] EXCEPT !.req = TRUE, !.conf = FALSE])
           /\ UNCHANGED <<pend, started>>
  <2> DEFINE r == [rec[c] EXCEPT !.req = TRUE, !.conf = FALSE]
  <2>1. r \in Record /\ r.st = rec[c].st /\ r.sess = s /\ r.conf = FALSE
    BY <1>1 DEF Record
  <2>2. Save(c, r)
    BY <1>8
  <2> HIDE DEF r
  <2>3. r.sess # None => native'[r.sess] \notin Unborn
    BY <1>4, <2>1
  <2>4. (Bound(c) => r.sess = rec[c].sess) /\ (r.conf => r.st = "cancelled")
    BY <2>1
  <2> QED
    BY <1>1, <1>3, <1>5, <1>8, <2>1, <2>2, <2>3, <2>4, SaveHalf
<1> QED
  BY <1>3, <1>6, <1>7, <1>8 DEF Confirmed

LEMMA AbortReplyStep ==
    ASSUME Inv, NEW p \in Cancellers, NEW ok \in BOOLEAN, AbortReply(p, ok)
    PROVE  Step
<1> DEFINE c == canc[p].cur
<1>1. /\ Quiet /\ canc[p].pc = "abort" /\ Reply(c, ok) /\ Goto(p, "handle")
      /\ UNCHANGED <<asg, sess, cleaned, bus, hooks, run, late, deferred, due,
                     replaced, crashes>>
  BY DEF AbortReply
<1>2. c \in Children /\ Bound(c) /\ Present(c)
  BY <1>1 DEF Inv, CancOK, CancAt
<1>3. Half /\ NatStep
  BY <1>1, <1>2, ReplyHalf DEF Reply, Unconfirmed
<1>4. CancOK' /\ canc' \in [Cancellers -> CancelState]
  BY <1>1, <1>2, <1>3, GotoCanc DEF Inv, Half
<1>5. handle' \in [Children -> {"none", "open", "resolved"}]
  BY <1>1 DEF Reply, Unconfirmed, Inv, TypeOK
<1>6. TypeOK'
  BY <1>1, <1>3, <1>4, <1>5 DEF Inv, TypeOK, Half, NatStep
<1> QED
  BY <1>1, <1>3, <1>4, <1>6 DEF Step, Inv, Half, ReplaceStep

LEMMA LateReplyStep ==
    ASSUME Inv, NEW c \in Children, NEW ok \in BOOLEAN, LateReply(c, ok)
    PROVE  Step
<1>1. /\ Quiet /\ c \in late /\ late' = late \ {c} /\ Reply(c, ok)
      /\ UNCHANGED <<asg, sess, cleaned, bus, hooks, run, canc, deferred, due,
                     replaced, crashes>>
  BY DEF LateReply
<1>2. Bound(c)
  BY <1>1 DEF Inv, CancOK
<1>3. Half /\ NatStep
  BY <1>1, <1>2, ReplyHalf DEF Reply, Unconfirmed
<1>4. CancOK'
  BY <1>1, <1>3, SameCanc DEF Inv, Half
<1>5. handle' \in [Children -> {"none", "open", "resolved"}]
  BY <1>1 DEF Reply, Unconfirmed, Inv, TypeOK
<1>6. TypeOK'
  BY <1>1, <1>3, <1>5 DEF Inv, TypeOK, Half, NatStep
<1> QED
  BY <1>1, <1>3, <1>4, <1>6 DEF Step, Inv, Half, ReplaceStep

LEMMA CleanupReplyStep ==
    ASSUME Inv, NEW p \in Cancellers, NEW ok \in BOOLEAN, CleanupReply(p, ok)
    PROVE  Step
<1> DEFINE c == canc[p].cur
<1>1. /\ Quiet /\ canc[p].pc = "abort2" /\ Leave(p)
      /\ native' \in {native, [native EXCEPT ![rec[c].sess] =
                                  IF @ = "live" THEN "stopped" ELSE @]}
      /\ ok => native'[rec[c].sess] # "live"
      /\ \/ ok /\ Confirmed(c)
         \/ /\ Save(c, [rec[c] EXCEPT !.req = TRUE, !.conf = FALSE])
            /\ UNCHANGED <<pend, started>>
      /\ handle' = [handle EXCEPT ![c] = "none"]
      /\ UNCHANGED <<asg, sess, cleaned, bus, hooks, run, late, deferred, due,
                     replaced, crashes>>
  BY DEF CleanupReply
<1>2. c \in Children /\ Bound(c)
  BY <1>1 DEF Inv, CancOK, CancAt
<1>3. Half /\ NatStep
  BY <1>1, <1>2, ReplyHalf
<1>4. CancOK' /\ canc' \in [Cancellers -> CancelState]
  <2>1. \A d \in late' : d \in Children /\ (d \in late \/ Bound(d))
    BY <1>1 DEF Inv, TypeOK
  <2> QED
    BY <1>1, <1>3, <2>1, LeaveCanc DEF Inv, Half
<1>5. TypeOK'
  BY <1>1, <1>3, <1>4 DEF Inv, TypeOK, Half, NatStep
<1> QED
  BY <1>1, <1>3, <1>4, <1>5 DEF Step, Inv, Half, ReplaceStep

LEMMA CleanupTimeoutStep ==
    ASSUME Inv, NEW p \in Cancellers, CleanupTimeout(p)
    PROVE  Step
<1>1. /\ canc[p].pc = "abort2" /\ late' = late \cup {canc[p].cur} /\ Leave(p)
      /\ UNCHANGED <<service, outside, run, deferred, due, replaced, started, crashes>>
  BY DEF CleanupTimeout
<1>2. canc[p].cur \in Children /\ Bound(canc[p].cur)
  BY <1>1 DEF Inv, CancOK, CancAt
<1>3. NatStep /\ HookOK' /\ BusOK'
  BY <1>1, NatSame, HooksKept, BusSame DEF outside, Inv, Stops
<1>4. Half
  BY <1>1, <1>3, RefuseHalf DEF Refuse, service
<1>5. CancOK' /\ canc' \in [Cancellers -> CancelState] /\ late' \in SUBSET Children
  <2>1. \A d \in late' : d \in Children /\ (d \in late \/ Bound(d))
    BY <1>1, <1>2 DEF Inv, TypeOK
  <2> QED
    BY <1>1, <1>4, <2>1, LeaveCanc DEF Inv, Half
<1>6. TypeOK'
  BY <1>1, <1>5 DEF Inv, TypeOK, service, outside
<1> QED
  BY <1>1, <1>4, <1>5, <1>6 DEF Step, Inv, Half, ReplaceStep

LEMMA CancelHandleStep ==
    ASSUME Inv, NEW p \in Cancellers, CancelHandle(p)
    PROVE  Step
<1> DEFINE c == canc[p].cur
<1>1. /\ canc[p].pc = "handle"
      /\ UNCHANGED <<rec, row, asg, sess, pend, outside, run, late, deferred,
                     due, replaced, started, crashes>>
  BY DEF CancelHandle
<1>2. /\ handle' = handle \/ handle' = [handle EXCEPT ![c] = "none"]
      /\ cleaned' = cleaned \/ cleaned' = cleaned \cup {c}
      /\ Leave(p) \/ (Goto(p, "abort2") /\ rec[c].st \notin Terminal)
  BY DEF CancelHandle
<1>3. c \in Children /\ Present(c)
  BY <1>1 DEF Inv, CancOK, CancAt
<1>4. NatStep /\ HookOK' /\ BusOK'
  BY <1>1, NatSame, HooksKept, BusSame DEF outside, Inv, Stops
<1>5. Half
  BY <1>1, <1>4, RefuseHalf DEF Refuse
<1>6. CancOK' /\ canc' \in [Cancellers -> CancelState]
  <2>1. CASE Leave(p)
    <3>1. \A d \in late' : d \in Children /\ (d \in late \/ Bound(d))
      BY <1>1 DEF Inv, TypeOK
    <3> QED
      BY <1>5, <2>1, <3>1, LeaveCanc DEF Inv, Half
  <2>2. CASE Goto(p, "abort2") /\ rec[c].st \notin Terminal
    <3>1. Bound(c)
      BY <1>1, <1>3, <2>2 DEF Inv, CancOK, CancAt, Ended
    <3> QED
      BY <1>1, <1>3, <1>5, <2>2, <3>1, GotoCanc DEF Inv, Half
  <2> QED
    BY <1>2, <2>1, <2>2
<1>7. TypeOK'
  BY <1>1, <1>2, <1>3, <1>6 DEF Inv, TypeOK, outside
<1> QED
  BY <1>1, <1>5, <1>6, <1>7 DEF Step, Inv, Half, ReplaceStep

\* A confirmed child is cancelled in its row: its session row may follow.
LEMMA CancelOrphanStep ==
    ASSUME Inv, NEW p \in Cancellers, NEW c \in Children, CancelOrphan(p, c)
    PROVE  Step
<1> USE ChildAssumption
<1>1. /\ Bound(c) /\ rec[c].conf
      /\ sess' = [sess EXCEPT ![c] = [@ EXCEPT !.st = "cancelled"]]
      /\ pend' = [c |-> c, at |-> "orphan", to |-> "cancelled"]
      /\ UNCHANGED <<rec, row, asg, handle, cleaned, outside, control, started,
                     crashes>>
  BY DEF CancelOrphan, Orphan
<1>2. row[c] # None /\ row[c].st = "cancelled"
  BY <1>1, SameFields DEF Inv, Rows, ConfOK, Bound
<1>3. /\ sess' \in [Children -> SessionRow \cup {None}]
      /\ \A d \in Children : sess'[d] = sess[d] \/
            /\ sess[d] # None /\ sess'[d] # None
            /\ sess'[d].id = sess[d].id
            /\ row[d] # None /\ row[d].st = sess'[d].st
  BY <1>1, <1>2, SessionFollows DEF Terminal
<1>4. pend' \in Op \cup {None} /\ PendOK'
  <2>1. pend' \in Op /\ pend'.c = c /\ pend'.at = "orphan" /\ pend'.to = "cancelled"
    BY <1>1 DEF Op, Terminal
  <2> QED
    BY <1>1, <1>2, <2>1 DEF PendOK
<1>5. /\ asg' \in [Children -> {None, "pending", "in_progress"} \cup Terminal]
      /\ handle' \in [Children -> {"none", "open", "resolved"}]
      /\ cleaned' \in SUBSET Children
  BY <1>1 DEF Inv, TypeOK
<1> QED
  BY <1>1, <1>3, <1>4, <1>5, WriteStep

LEMMA CancelRunEndStep ==
    ASSUME Inv, NEW p \in Cancellers, CancelRunEnd(p)
    PROVE  Step
<1>1. /\ run' = "cancelled" /\ Goto(p, "barrier")
      /\ UNCHANGED <<service, outside, late, deferred, due, replaced, started,
                     crashes>>
  BY DEF CancelRunEnd
<1>2. NatStep /\ HookOK' /\ BusOK'
  BY <1>1, NatSame, HooksKept, BusSame DEF outside, Inv, Stops
<1>3. Half
  BY <1>1, <1>2, RefuseHalf DEF Refuse, service
<1>4. CancOK' /\ canc' \in [Cancellers -> CancelState]
  BY <1>1, <1>3, GotoCanc DEF Inv, Half
<1>5. TypeOK'
  BY <1>1, <1>4 DEF Inv, TypeOK, service, outside
<1> QED
  BY <1>1, <1>3, <1>4, <1>5 DEF Step, Inv, Half, ReplaceStep

\* With no active child left, every child that was running has its session
\* over: the fact the barrier and the drain rest on.
LEMMA NothingRuns ==
    ASSUME Inv, \A c \in Children : ~HoldsBack(c)
    PROVE  \A c \in started : rec[c].sess = c => native[c] # "live"
<1> SUFFICES ASSUME NEW c \in started, rec[c].sess = c
             PROVE  native[c] # "live"
  OBVIOUS
<1>1. c \in Children /\ Bound(c) /\ Present(c)
  BY DEF Inv, TypeOK, Stops, EndedOK, Bound
<1>2. rec[c].st \in ChildStates
  BY <1>1 DEF Inv, TypeOK, Present, Record
<1>3. rec[c].conf => rec[c].st = "cancelled"
  BY <1>1 DEF Inv, Rows, ConfOK
<1>4. rec[c].st \in Terminal
  BY <1>1, <1>2, <1>3 DEF HoldsBack, ChildStates, Terminal
<1> QED
  BY <1>4 DEF Inv, Stops, EndedOK, Over

LEMMA BarrierStep ==
    ASSUME Inv, NEW p \in Cancellers, Barrier(p)
    PROVE  Step
<1>1. /\ Goto(p, "idle")
      /\ UNCHANGED <<service, outside, run, late, due, started, crashes>>
      /\ deferred' \in {deferred, "cancelled", "pending"}
      /\ replaced' = replaced
            \/ (replaced' = TRUE /\ \A c \in Children : ~HoldsBack(c))
  BY DEF Barrier
<1>2. NatStep /\ HookOK' /\ BusOK'
  BY <1>1, NatSame, HooksKept, BusSame DEF outside, Inv, Stops
<1>3. Half
  BY <1>1, <1>2, RefuseHalf DEF Refuse, service
<1>4. CancOK' /\ canc' \in [Cancellers -> CancelState]
  BY <1>1, <1>3, GotoCanc DEF Inv, Half
<1>5. replaced' \in BOOLEAN
  BY <1>1 DEF Inv, TypeOK
<1>6. TypeOK'
  BY <1>1, <1>4, <1>5 DEF Inv, TypeOK, service, outside
<1>7. ReplaceStep
  BY <1>1, NothingRuns DEF ReplaceStep
<1> QED
  BY <1>3, <1>4, <1>6, <1>7 DEF Step, Inv, Half

LEMMA DrainStep == ASSUME Inv, Drain PROVE Step
<1>1. /\ due' = FALSE
      /\ UNCHANGED <<service, outside, run, canc, late, started, crashes>>
      /\ deferred' \in {deferred, "resuming"}
      /\ replaced' = replaced \/ (replaced' = TRUE /\ ~TerminationPending)
  BY DEF Drain
<1>2. NatStep /\ HookOK' /\ BusOK'
  BY <1>1, NatSame, HooksKept, BusSame DEF outside, Inv, Stops
<1>3. Half
  BY <1>1, <1>2, RefuseHalf DEF Refuse, service
<1>4. CancOK'
  BY <1>1, <1>3, SameCanc DEF Inv, Half
<1>5. replaced' \in BOOLEAN /\ due' \in BOOLEAN
  BY <1>1 DEF Inv, TypeOK
<1>6. TypeOK'
  BY <1>1, <1>5 DEF Inv, TypeOK, service, outside
<1>7. ReplaceStep
  BY <1>1, NothingRuns DEF ReplaceStep, TerminationPending
<1> QED
  BY <1>3, <1>4, <1>6, <1>7 DEF Step, Inv, Half

\* What a restart rebuilds is what the service held: the agent_sessions row
\* gives back the session the child's row lacks, and never a state of its own.
LEMMA ReconciledIsRecord == ASSUME Inv PROVE rec = Reconciled
<1> USE ChildAssumption
<1> DEFINE F(c) == IF row[c] = None \/ sess[c] = None THEN row[c]
                   ELSE [row[c] EXCEPT
                           !.sess = IF @ = None THEN sess[c].id ELSE @,
                           !.st = IF @ \in Active /\ sess[c].st \in Terminal
                                  THEN sess[c].st ELSE @]
<1>1. ASSUME NEW c \in Children PROVE rec[c] = F(c)
  <2>1. CASE row[c] = None
    BY <2>1, SameFields DEF Inv, Present
  <2>2. CASE row[c] # None /\ sess[c] = None
    <3>1. ~Bound(c) /\ Present(c)
      BY <2>2, SameFields DEF Inv, Rows, Linked
    <3>2. rec[c] \in Record /\ row[c] \in Record /\ rec[c].sess = None
      BY <3>1, SameFields DEF Inv, Bound
    <3>3. rec[c] # row[c] =>
              row[c].sess = None /\ rec[c] = [row[c] EXCEPT !.sess = rec[c].sess]
      BY DEF Inv, Rows, Cached
    <3>4. rec[c] = row[c]
      BY <3>2, <3>3 DEF Record
    <3> QED
      BY <2>2, <3>4
  <2>3. CASE row[c] # None /\ sess[c] # None
    <3>1. /\ rec[c] \in Record /\ row[c] \in Record /\ sess[c] \in SessionRow
          /\ rec[c].sess = sess[c].id /\ rec[c].sess # None
      BY <2>3, SameFields DEF Inv, TypeOK, Rows, Linked, Bound
    <3>2. ~(row[c].st \in Active /\ sess[c].st \in Terminal)
      BY <2>3 DEF Inv, Rows, SessOK, Active, Terminal
    <3>3. rec[c] # row[c] =>
              row[c].sess = None /\ rec[c] = [row[c] EXCEPT !.sess = rec[c].sess]
      BY DEF Inv, Rows, Cached
    <3>4. F(c) = [row[c] EXCEPT !.sess = IF @ = None THEN sess[c].id ELSE @]
      BY <2>3, <3>1, <3>2 DEF Record
    <3>5. CASE rec[c] = row[c]
      BY <3>1, <3>4, <3>5 DEF Record
    <3>6. CASE rec[c] # row[c]
      BY <3>1, <3>3, <3>4, <3>6
    <3> QED
      BY <3>5, <3>6
  <2> QED
    BY <2>1, <2>2, <2>3
<1>2. Reconciled = [c \in Children |-> F(c)]
  BY DEF Reconciled
<1> HIDE DEF F
<1>3. rec = [c \in Children |-> rec[c]]
  BY DEF Inv, TypeOK
<1> QED
  BY <1>1, <1>2, <1>3

LEMMA CrashStep == ASSUME Inv, CrashAndRestart PROVE Step
<1>1. /\ crashes < MaxCrashes /\ crashes' = crashes + 1
      /\ rec' = Reconciled
      /\ handle' = [c \in Children |-> "none"] /\ cleaned' = {} /\ pend' = None
      /\ bus' = <<>> /\ hooks' = {} /\ late' = {}
      /\ canc' = [p \in Cancellers |-> Idle]
      /\ due' = TRUE
      /\ deferred' = IF deferred = "resuming" THEN "pending" ELSE deferred
      /\ UNCHANGED <<row, asg, sess, run, replaced, started>>
  BY DEF CrashAndRestart
<1>2. rec' = rec
  BY <1>1, ReconciledIsRecord
<1>3. NatStep
  <2>1. native' = [c \in Children |->
                     CASE native[c] = "live" -> "stopped"
                       [] native[c] \in {"called", "allowed"} -> "dead"
                       [] OTHER -> native[c]]
    BY DEF CrashAndRestart
  <2>2. \A c \in Children :
            native'[c] = IF native[c] = "live" THEN "stopped"
                         ELSE IF native[c] \in {"called", "allowed"} THEN "dead"
                         ELSE native[c]
    BY <2>1
  <2>3. native' \in [Children -> NativeStates]
    BY <2>1, <2>2 DEF Inv, TypeOK, NativeStates
  <2> QED
    BY <2>2, <2>3 DEF NatStep, Unborn, Over
<1>4. bus' \in Seq(Event) /\ Len(bus') = 0
  BY <1>1
<1>5. HookOK' /\ BusOK'
  BY <1>1, <1>4 DEF HookOK, BusOK
<1>6. Rows' /\ EndStep
  BY <1>1, <1>2, <1>3, QuietRows DEF Inv
<1>7. Stops'
  BY <1>1, <1>2, <1>3, <1>5, QuietStops DEF Inv
<1>8. CancOK' /\ canc' \in [Cancellers -> CancelState]
  BY <1>1 DEF CancOK, CancAt, Idle, CancelState
<1>9. crashes' \in 0 .. MaxCrashes
  BY <1>1, ChildAssumption DEF Inv, TypeOK
<1>10. TypeOK'
  BY <1>1, <1>2, <1>3, <1>4, <1>8, <1>9 DEF Inv, TypeOK, NatStep
<1> QED
  BY <1>1, <1>6, <1>7, <1>8, <1>10 DEF Step, Inv, PendOK, ReplaceStep

LEMMA StutterStep == ASSUME Inv, UNCHANGED vars PROVE Step
<1>1. NatStep /\ HookOK' /\ BusOK'
  BY NatSame, HooksKept, BusSame DEF vars, Inv, Stops
<1>2. Half
  BY <1>1, RefuseHalf DEF Refuse, vars
<1>3. CancOK'
  BY <1>2, SameCanc DEF Inv, Half, vars
<1>4. TypeOK'
  BY DEF Inv, TypeOK, vars
<1> QED
  BY <1>2, <1>3, <1>4 DEF Step, Inv, Half, ReplaceStep, vars

LEMMA NextStep == ASSUME Inv, [Next]_vars PROVE Step
<1>1. CASE Native
  BY <1>1, TaskCalledStep, NativeStartStep, NativeRefuseStep, NativeEndStep,
     NativeDeleteStep DEF Native
<1>2. CASE Handlers
  BY <1>2, RegisterStep, SessionCreatedStep, ToolAfterStep, SessionErrorStep,
     SessionDeletedStep DEF Handlers
<1>3. CASE \E p \in Cancellers : CancelSteps(p)
  BY <1>3, CancelNextStep, AbortReplyStep, CleanupReplyStep, CancelHandleStep,
     CleanupTimeoutStep, CancelOrphanStep, CancelRunEndStep, BarrierStep
     DEF CancelSteps
<1>4. CASE \E p \in Cancellers, kind \in {"cancel", "replace"} : CancelRun(p, kind)
  BY <1>4, CancelRunStep
<1>5. CASE \E c \in Children, ok \in BOOLEAN : LateReply(c, ok)
  BY <1>5, LateReplyStep
<1>6. CASE Commits \/ Drain \/ CrashAndRestart
  BY <1>6, SaveBindingStep, MarkStartedStep, WriteAssignmentStep, SettleStep,
     DrainStep, CrashStep DEF Commits
<1>7. CASE UNCHANGED vars
  BY <1>7, StutterStep
<1> QED
  BY <1>1, <1>2, <1>3, <1>4, <1>5, <1>6, <1>7 DEF Next

-----------------------------------------------------------------------------

\* The inductive invariant: what the service, the assignments, the sessions
\* and cancelRun agree on after every handler, reply and restart.
THEOREM ChildInvariant == Spec => []Inv
<1>1. Inv /\ [Next]_vars => Inv'
  BY NextStep DEF Step
<1> QED
  BY <1>1, InitInv, PTL DEF Spec

\* Types of the records, rows, assignments, handles and of cancelRun.
THEOREM ChildTypes == Spec => []TypeOK
<1>1. Inv => TypeOK
  BY DEF Inv
<1> QED
  BY <1>1, ChildInvariant, PTL

\* The records of the service are what a restart would rebuild from the rows of
\* the children and of their sessions, between any two commits.
THEOREM ChildRestart == Spec => []RestartRestores
<1>1. Inv => RestartRestores
  BY ReconciledIsRecord DEF RestartRestores
<1> QED
  BY <1>1, ChildInvariant, PTL

\* A finished assignment agrees with the row of its child.
THEOREM ChildAssignment == Spec => []AssignmentFollowsChild
<1>1. Inv => AssignmentFollowsChild
  BY DEF Inv, Rows
<1> QED
  BY <1>1, ChildInvariant, PTL

\* No step replaces the state a child ended in.
THEOREM ChildEnd == Spec => EndIsFinal
<1>1. Inv /\ [Next]_vars => [EndStep]_vars
  BY NextStep DEF Step
<1> QED
  BY <1>1, ChildInvariant, PTL DEF Spec, EndIsFinal, EndStep

\* A replacing goal starts only when the sessions of the children that ran,
\* each bound to its own session, have stopped.
THEOREM ChildReplaced == Spec => ReplacedAfterStop
<1>1. Inv /\ [Next]_vars => [ReplaceStep]_vars
  BY NextStep DEF Step
<1> QED
  BY <1>1, ChildInvariant, PTL DEF Spec, ReplacedAfterStop, ReplaceStep

=============================================================================
