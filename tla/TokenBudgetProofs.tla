-------------------------- MODULE TokenBudgetProofs --------------------------
(***************************************************************************)
(* What the token budget guarantees for any number of workstreams,         *)
(* reservations, messages and restarts, whatever the ceilings, the needs   *)
(* and the usages are.  The first part shows what SumOver computes, the    *)
(* second the control (a stopped run grants nothing, a terminated session  *)
(* holds nothing), the third the accounts.                                 *)
(***************************************************************************)
EXTENDS TokenBudget, FiniteSetTheorems, WellFoundedInduction, TLAPS

-----------------------------------------------------------------------------
(* Sums over finite sets of numbers.  The fold behind SumOver is a function *)
(* over the subsets of its set; what it computes is shown by looking at a   *)
(* smallest subset for which it does not.                                   *)

\* The element the fold takes next, and what it means to be its function.
Pick(s) == CHOOSE x \in s : TRUE
IsFold(f, S, g) ==
  g = [s \in SUBSET S |-> IF s = {} THEN 0 ELSE f[Pick(s)] + g[s \ {Pick(s)}]]

\* every non-empty family of subsets of a finite set has a smallest member
LEMMA SmallestSubset ==
  ASSUME NEW S, IsFiniteSet(S), NEW T, T \subseteq SUBSET S, T # {}
  PROVE  \E U \in T : \A V \in T : V \subseteq U => V = U
<1>1. IsWellFoundedOn(StrictSubsetOrdering(S), SUBSET S)
  BY FS_StrictSubsetOrderingWellFounded, FS_FiniteSubsetsOfFinite
<1>2. \E U \in T : \A V \in T : ~ (<<V, U>> \in StrictSubsetOrdering(S))
  BY <1>1, WFMin
<1> QED
  BY <1>2 DEF StrictSubsetOrdering

\* The element a fold takes first is one of the set's.
LEMMA PickIn == ASSUME NEW s, s # {} PROVE Pick(s) \in s
BY DEF Pick

\* one step of the fold
LEMMA FoldStep ==
  ASSUME NEW f, NEW S, NEW g, IsFold(f, S, g), NEW U \in SUBSET S
  PROVE  g[U] = IF U = {} THEN 0 ELSE f[Pick(U)] + g[U \ {Pick(U)}]
BY DEF IsFold

\* folds over different sets agree where both are defined
LEMMA FoldsAgree ==
  ASSUME NEW f, NEW S, NEW R, IsFiniteSet(S), NEW g, NEW h,
         IsFold(f, S, g), IsFold(f, R, h)
  PROVE  \A U \in (SUBSET S) \cap (SUBSET R) : g[U] = h[U]
<1> DEFINE T == {U \in (SUBSET S) \cap (SUBSET R) : g[U] # h[U]}
<1> SUFFICES ASSUME T # {} PROVE FALSE
  OBVIOUS
<1>1. PICK U \in T : \A V \in T : V \subseteq U => V = U
  <2>1. T \subseteq SUBSET S
    OBVIOUS
  <2> HIDE DEF T
  <2> QED
    BY <2>1, SmallestSubset
<1>2. U # {}
  BY <1>1, FoldStep
<1>3. Pick(U) \in U
  BY <1>2, PickIn
<1>4. U \ {Pick(U)} \notin T
  BY <1>1, <1>3
<1>5. g[U \ {Pick(U)}] = h[U \ {Pick(U)}]
  BY <1>1, <1>4
<1>6. U \in SUBSET S /\ U \in SUBSET R
  BY <1>1
<1>7. g[U] = f[Pick(U)] + g[U \ {Pick(U)}] /\ h[U] = f[Pick(U)] + h[U \ {Pick(U)}]
  <2>1. g[U] = f[Pick(U)] + g[U \ {Pick(U)}]
    BY <1>2, <1>6, FoldStep
  <2>2. h[U] = f[Pick(U)] + h[U \ {Pick(U)}]
    BY <1>2, <1>6, FoldStep
  <2> QED
    BY <2>1, <2>2
<1> QED
  BY <1>1, <1>5, <1>7

\* the fold over a finite set is defined
LEMMA FoldExists ==
  ASSUME NEW f, NEW S, IsFiniteSet(S)
  PROVE  \E g : IsFold(f, S, g)
<1> DEFINE T == {U \in SUBSET S : ~ \E g : IsFold(f, U, g)}
           F(s) == CHOOSE g : IsFold(f, s, g)
<1> SUFFICES ASSUME T # {} PROVE FALSE
  OBVIOUS
<1>1. PICK U \in T : \A V \in T : V \subseteq U => V = U
  <2>1. T \subseteq SUBSET S
    OBVIOUS
  <2> HIDE DEF T
  <2> QED
    BY <2>1, SmallestSubset
<1>2. \A V \in SUBSET U : V # U => IsFold(f, V, F(V))
  BY <1>1
<1> HIDE DEF F
<1> DEFINE b(s) == IF s = {} THEN 0 ELSE f[Pick(s)] + F(s \ {Pick(s)})[s \ {Pick(s)}]
           g == [s \in SUBSET U |-> b(s)]
<1>3. \A V \in SUBSET U : V # U => g[V] = F(V)[V]
  <2> SUFFICES ASSUME NEW V \in SUBSET U, V # U PROVE g[V] = F(V)[V]
    OBVIOUS
  <2>1. F(V)[V] = IF V = {} THEN 0 ELSE f[Pick(V)] + F(V)[V \ {Pick(V)}]
    BY <1>2, FoldStep
  <2>2. CASE V = {}
    BY <2>1, <2>2
  <2>3. CASE V # {}
    <3> DEFINE W == V \ {Pick(V)}
    <3>1. W \in SUBSET V /\ W # V /\ W # U /\ W \in SUBSET U
      BY <2>3, PickIn
    <3>2. IsFold(f, V, F(V)) /\ IsFold(f, W, F(W)) /\ IsFiniteSet(V)
      BY <1>1, <1>2, <3>1, FS_Subset
    <3>3. W \in (SUBSET V) \cap (SUBSET W)
      BY <3>1
    <3> HIDE DEF W
    <3>4. F(V)[W] = F(W)[W]
      BY <3>2, <3>3, FoldsAgree
    <3> QED
      BY <2>1, <2>3, <3>4 DEF W
  <2> QED
    BY <2>2, <2>3
<1>4. \A V \in SUBSET U : g[V] = IF V = {} THEN 0 ELSE f[Pick(V)] + g[V \ {Pick(V)}]
  <2> SUFFICES ASSUME NEW V \in SUBSET U, V # {}
               PROVE  g[V] = f[Pick(V)] + g[V \ {Pick(V)}]
    OBVIOUS
  <2>1. V \ {Pick(V)} \in SUBSET U /\ V \ {Pick(V)} # U
    BY PickIn
  <2>2. g[V \ {Pick(V)}] = F(V \ {Pick(V)})[V \ {Pick(V)}]
    BY <1>3, <2>1
  <2> QED
    BY <2>2
<1>5. IsFold(f, U, g)
  <2> HIDE DEF b
  <2>1. g = [s \in SUBSET U |-> g[s]]
    OBVIOUS
  <2> HIDE DEF g
  <2> QED
    BY <1>4, <2>1 DEF IsFold
<1> QED
  BY <1>1, <1>5

\* SumOver is the fold
LEMMA SumIsFold ==
  ASSUME NEW f, NEW S, IsFiniteSet(S)
  PROVE  \E g : IsFold(f, S, g) /\ SumOver(f, S) = g[S]
<1> DEFINE G == CHOOSE g : IsFold(f, S, g)
<1>1. SumOver(f, S) = G[S]
  BY DEF SumOver, MapThenSumSet, MapThenFoldSet, IsFold, Pick
<1>2. IsFold(f, S, G)
  BY FoldExists
<1> QED
  BY <1>1, <1>2

\* The sum over no element is 0.
LEMMA SumEmpty == \A f : SumOver(f, {}) = 0
<1> SUFFICES ASSUME NEW f PROVE SumOver(f, {}) = 0
  OBVIOUS
<1>1. PICK g : IsFold(f, {}, g) /\ SumOver(f, {}) = g[{}]
  BY SumIsFold, FS_EmptySet
<1> QED
  BY <1>1, FoldStep

\* One unfolding of the sum: the element picked, then the rest.
LEMMA SumPick ==
  ASSUME NEW f, NEW S, IsFiniteSet(S), S # {}
  PROVE  SumOver(f, S) = f[Pick(S)] + SumOver(f, S \ {Pick(S)})
<1> DEFINE R == S \ {Pick(S)}
<1>1. PICK g : IsFold(f, S, g) /\ SumOver(f, S) = g[S]
  BY SumIsFold
<1>2. IsFiniteSet(R)
  BY FS_Subset
<1>3. PICK h : IsFold(f, R, h) /\ SumOver(f, R) = h[R]
  BY <1>2, SumIsFold
<1>4. g[R] = h[R]
  BY <1>1, <1>3, FoldsAgree
<1> QED
  BY <1>1, <1>3, <1>4, FoldStep

\* sums of natural numbers are natural numbers
LEMMA SumNat ==
  ASSUME NEW D, NEW f \in [D -> Nat], NEW S \in SUBSET D, IsFiniteSet(S)
  PROVE  SumOver(f, S) \in Nat
<1> DEFINE T == {U \in SUBSET S : SumOver(f, U) \notin Nat}
<1> SUFFICES ASSUME T # {} PROVE FALSE
  OBVIOUS
<1>1. PICK U \in T : \A V \in T : V \subseteq U => V = U
  <2>1. T \subseteq SUBSET S
    OBVIOUS
  <2> HIDE DEF T
  <2> QED
    BY <2>1, SmallestSubset
<1>2. U # {}
  <2>1. SumOver(f, U) \notin Nat
    BY <1>1
  <2> QED
    BY <2>1, SumEmpty
<1>3. Pick(U) \in U /\ IsFiniteSet(U)
  BY <1>1, <1>2, PickIn, FS_Subset
<1>4. U \ {Pick(U)} \notin T
  BY <1>1, <1>3
<1>5. SumOver(f, U \ {Pick(U)}) \in Nat /\ f[Pick(U)] \in Nat
  BY <1>1, <1>3, <1>4
<1>6. SumOver(f, U) = f[Pick(U)] + SumOver(f, U \ {Pick(U)})
  BY <1>2, <1>3, SumPick
<1>7. SumOver(f, U) \in Nat
  BY <1>5, <1>6
<1> QED
  BY <1>1, <1>7

\* any element may be split off
LEMMA SumRemove ==
  ASSUME NEW D, NEW f \in [D -> Nat], NEW S \in SUBSET D, IsFiniteSet(S), NEW x \in S
  PROVE  SumOver(f, S) = f[x] + SumOver(f, S \ {x})
<1> DEFINE T == {U \in SUBSET S : \E y \in U : SumOver(f, U) # f[y] + SumOver(f, U \ {y})}
<1> SUFFICES ASSUME T # {} PROVE FALSE
  OBVIOUS
<1>1. PICK U \in T : \A V \in T : V \subseteq U => V = U
  <2>1. T \subseteq SUBSET S
    OBVIOUS
  <2> HIDE DEF T
  <2> QED
    BY <2>1, SmallestSubset
<1>2. PICK y \in U : SumOver(f, U) # f[y] + SumOver(f, U \ {y})
  BY <1>1
<1> DEFINE c == Pick(U)
<1>3. c \in U /\ U \in SUBSET S /\ IsFiniteSet(U)
  BY <1>1, <1>2, PickIn, FS_Subset
<1>4. SumOver(f, U) = f[c] + SumOver(f, U \ {c})
  BY <1>2, <1>3, SumPick
<1>5. y # c
  BY <1>2, <1>4
<1> HIDE DEF c
<1>6. U \ {c} \notin T /\ U \ {y} \notin T
  BY <1>1, <1>2, <1>3
<1>7. /\ SumOver(f, U \ {c}) = f[y] + SumOver(f, (U \ {c}) \ {y})
      /\ SumOver(f, U \ {y}) = f[c] + SumOver(f, (U \ {y}) \ {c})
  BY <1>2, <1>3, <1>5, <1>6
<1>8. (U \ {c}) \ {y} = (U \ {y}) \ {c}
  OBVIOUS
<1>9. SumOver(f, (U \ {c}) \ {y}) \in Nat
  <2>1. (U \ {c}) \ {y} \in SUBSET D /\ IsFiniteSet((U \ {c}) \ {y})
    BY <1>3, FS_Subset
  <2> QED
    BY <2>1, SumNat
<1>10. f[c] \in Nat /\ f[y] \in Nat
  BY <1>3
<1> QED
  BY <1>2, <1>4, <1>7, <1>8, <1>9, <1>10

\* only the values on the set count
LEMMA SumSame ==
  ASSUME NEW f, NEW g, NEW S, IsFiniteSet(S), \A x \in S : f[x] = g[x]
  PROVE  SumOver(f, S) = SumOver(g, S)
<1> DEFINE T == {U \in SUBSET S : SumOver(f, U) # SumOver(g, U)}
<1> SUFFICES ASSUME T # {} PROVE FALSE
  OBVIOUS
<1>1. PICK U \in T : \A V \in T : V \subseteq U => V = U
  <2>1. T \subseteq SUBSET S
    OBVIOUS
  <2> HIDE DEF T
  <2> QED
    BY <2>1, SmallestSubset
<1>2. U # {}
  BY <1>1, SumEmpty
<1>3. Pick(U) \in U /\ IsFiniteSet(U)
  BY <1>1, <1>2, PickIn, FS_Subset
<1>4. SumOver(f, U \ {Pick(U)}) = SumOver(g, U \ {Pick(U)})
  BY <1>1, <1>3
<1>5. f[Pick(U)] = g[Pick(U)]
  BY <1>1, <1>3
<1>6. /\ SumOver(f, U) = f[Pick(U)] + SumOver(f, U \ {Pick(U)})
      /\ SumOver(g, U) = g[Pick(U)] + SumOver(g, U \ {Pick(U)})
  BY <1>2, <1>3, SumPick
<1> QED
  BY <1>1, <1>4, <1>5, <1>6

\* what is taken out is missing
LEMMA SumWithout ==
  ASSUME NEW D, NEW f \in [D -> Nat], NEW S \in SUBSET D, IsFiniteSet(S), NEW R \in SUBSET S
  PROVE  SumOver(f, S) = SumOver(f, R) + SumOver(f, S \ R)
<1> DEFINE T == {U \in SUBSET R : SumOver(f, S) # SumOver(f, U) + SumOver(f, S \ U)}
<1>0. \A U \in SUBSET S : IsFiniteSet(U) /\ SumOver(f, U) \in Nat
  BY SumNat, FS_Subset
<1> SUFFICES ASSUME T # {} PROVE FALSE
  BY <1>0
<1>1. PICK U \in T : \A V \in T : V \subseteq U => V = U
  <2>1. IsFiniteSet(R) /\ T \subseteq SUBSET R
    BY FS_Subset
  <2> HIDE DEF T
  <2> QED
    BY <2>1, SmallestSubset
<1>2. U # {}
  <2>1. S \ {} = S
    OBVIOUS
  <2>2. SumOver(f, S) \in Nat /\ SumOver(f, {}) = 0
    BY <1>0, SumEmpty
  <2>3. SumOver(f, S) # SumOver(f, U) + SumOver(f, S \ U)
    BY <1>1
  <2> QED
    BY <2>1, <2>2, <2>3
<1>3. PICK y : y \in U
  BY <1>2
<1>4. U \ {y} \notin T /\ U \in SUBSET S
  BY <1>1, <1>3
<1>5. SumOver(f, S) = SumOver(f, U \ {y}) + SumOver(f, S \ (U \ {y}))
  BY <1>1, <1>4
<1>6. SumOver(f, U) = f[y] + SumOver(f, U \ {y})
  BY <1>0, <1>3, <1>4, SumRemove
<1>7. SumOver(f, S \ (U \ {y})) = f[y] + SumOver(f, S \ U)
  <2>1. (S \ (U \ {y})) \ {y} = S \ U
    BY <1>3
  <2>2. S \ (U \ {y}) \in SUBSET D /\ IsFiniteSet(S \ (U \ {y})) /\ y \in S \ (U \ {y})
    BY <1>0, <1>3, <1>4
  <2> QED
    BY <2>1, <2>2, SumRemove
<1>8. f[y] \in Nat /\ SumOver(f, U \ {y}) \in Nat /\ SumOver(f, S \ U) \in Nat
  <2>1. U \ {y} \in SUBSET S /\ S \ U \in SUBSET S /\ y \in D
    BY <1>3, <1>4
  <2> QED
    BY <1>0, <2>1
<1>9. SumOver(f, S) # SumOver(f, U) + SumOver(f, S \ U)
  BY <1>1
<1> HIDE DEF T
<1> QED
  BY <1>5, <1>6, <1>7, <1>8, <1>9

-----------------------------------------------------------------------------
(* The control: stops and terminations. *)

\* the part of the state the arguments read
Shape ==
  /\ status \in [Ids -> {None, "reserved", "committed", "cancelled"}]
  /\ owner \in [Ids -> Workstreams \cup {None}]
  /\ ended \in [Workstreams -> BOOLEAN]
  /\ stopped \in BOOLEAN
  /\ restarts \in Nat

\* the first part of EndedHoldsNothing
EndedSessions == \A w \in Workstreams : ended[w] => ReservedBy(w) = {}

BudgetInv == Shape /\ EndedSessions

\* cancelling reservations opens none
LEMMA ReleaseKeeps ==
  ASSUME NEW S, S \subseteq Ids, Shape, EndedSessions, Release(S)
  PROVE  /\ status' \in [Ids -> {None, "reserved", "committed", "cancelled"}]
         /\ \A i \in Ids : status'[i] = "reserved" => status[i] = "reserved" /\ i \notin S
BY DEF Release, Shape

\* a grant goes to a live session of a run that is not stopped
LEMMA ClaimKeeps ==
  ASSUME NEW w \in Workstreams, NEW i \in Ids, NEW n, Shape, EndedSessions,
         Allowed(w, n), Claim(w, i, n), restarts' = restarts
  PROVE  BudgetInv'
<1>1. Shape'
  BY DEF Claim, Shape
<1>2. \A j \in Ids \ {i} : status'[j] = status[j] /\ owner'[j] = owner[j]
  BY DEF Claim, Shape
<1>3. owner'[i] = w /\ ~ended'[w] /\ ~stopped' /\ ended' = ended
  BY DEF Claim, Shape, Allowed
<1>4. ASSUME NEW x \in Workstreams, ended'[x], NEW j \in Ids,
             status'[j] = "reserved", owner'[j] = x
      PROVE  FALSE
  BY <1>2, <1>3, <1>4 DEF EndedSessions, ReservedBy, Reserved
<1> QED
  BY <1>1, <1>3, <1>4 DEF BudgetInv, EndedSessions, ReservedBy, Reserved

\* ending a session closes its reservations
LEMMA TerminateKeeps ==
  ASSUME NEW w \in Workstreams, NEW r, Shape, EndedSessions,
         Terminate(w, r), restarts' = restarts
  PROVE  BudgetInv' /\ stopped' = stopped /\ owner' = owner
<1>1. CASE <<w, r>> \in terminated
  BY <1>1 DEF Terminate, controller, Shape, EndedSessions, BudgetInv, ReservedBy, Reserved
<1>2. CASE <<w, r>> \notin terminated
  <2>1. /\ Release(ReservedBy(w)) /\ ended' = [ended EXCEPT ![w] = TRUE]
        /\ stopped' = stopped /\ owner' = owner
    BY <1>2 DEF Terminate, CancelSession
  <2>2. /\ status' \in [Ids -> {None, "reserved", "committed", "cancelled"}]
        /\ \A i \in Ids : status'[i] = "reserved" => status[i] = "reserved" /\ i \notin ReservedBy(w)
    BY <2>1, ReleaseKeeps DEF ReservedBy, Reserved
  <2>3. Shape'
    BY <2>1, <2>2 DEF Shape
  <2>4. ASSUME NEW x \in Workstreams, ended'[x], NEW j \in Ids,
               status'[j] = "reserved", owner'[j] = x
        PROVE  FALSE
    BY <2>1, <2>2, <2>4 DEF EndedSessions, ReservedBy, Reserved, Shape
  <2> QED
    BY <2>1, <2>3, <2>4 DEF BudgetInv, EndedSessions, ReservedBy, Reserved
<1> QED
  BY <1>1, <1>2

\* A reconciliation of the provider's usage keeps what the control part says.
LEMMA ReconcileKeeps ==
  ASSUME NEW w \in Workstreams, Shape, EndedSessions, Reconcile(w)
  PROVE  BudgetInv' /\ (stopped => stopped') /\ owner' = owner
<1> DEFINE i == cur[w]
           back == IF status[i] = "reserved" THEN {i} ELSE {}
<1>1. PICK u \in Usages :
        LET stop == ~stopped /\ consumed + u >= StopAt
            rest == IF stop THEN Reserved \ {i} ELSE {}
        IN /\ stopped' = (stopped \/ stop)
           /\ status' = [j \in Ids |-> IF j \in back THEN "committed"
                                       ELSE IF j \in rest THEN "cancelled" ELSE status[j]]
  BY DEF Reconcile
<1> DEFINE stop == ~stopped /\ consumed + u >= StopAt
           rest == IF stop THEN Reserved \ {i} ELSE {}
<1>2. ended' = ended /\ owner' = owner /\ restarts' = restarts
  BY DEF Reconcile
<1>3. status' = [j \in Ids |-> IF j \in back THEN "committed"
                               ELSE IF j \in rest THEN "cancelled" ELSE status[j]]
      /\ stopped' = (stopped \/ stop)
  BY <1>1
<1>4. \A j \in Ids : status'[j] = "reserved" => status[j] = "reserved" /\ j \notin back /\ j \notin rest
  BY <1>3 DEF Shape
<1>5. Shape'
  BY <1>2, <1>3 DEF Shape
<1>6. ASSUME NEW x \in Workstreams, ended'[x], NEW j \in Ids,
             status'[j] = "reserved", owner'[j] = x
      PROVE  FALSE
  BY <1>2, <1>4, <1>6 DEF EndedSessions, ReservedBy, Reserved
<1> QED
  BY <1>2, <1>3, <1>5, <1>6 DEF BudgetInv, EndedSessions, ReservedBy, Reserved, Shape

\* every step keeps the invariant, keeps a stop, and grants nothing after one
LEMMA BudgetStep ==
  ASSUME BudgetInv, [Next]_vars
  PROVE  BudgetInv' /\ (stopped => stopped' /\ owner' = owner)
<1> USE DEF BudgetInv
<1>1. CASE UNCHANGED vars
  BY <1>1 DEF vars, controller, store, executor, Shape, EndedSessions, ReservedBy, Reserved
<1>2. ASSUME NEW w \in Workstreams, ReserveGiven(w) PROVE BudgetInv' /\ (stopped => stopped' /\ owner' = owner)
  BY <1>2 DEF ReserveGiven, controller, store, Shape, EndedSessions, ReservedBy, Reserved
<1>3. ASSUME NEW w \in Workstreams, ReserveNew(w) PROVE BudgetInv' /\ (stopped => stopped' /\ owner' = owner)
  <2>1. PICK n \in Needs, i \in Ids : Allowed(w, n) /\ Claim(w, i, n)
    BY <1>3 DEF ReserveNew
  <2>2. restarts' = restarts
    BY <1>3 DEF ReserveNew
  <2>3. BudgetInv'
    BY <2>1, <2>2, ClaimKeeps
  <2> QED
    BY <2>1, <2>3 DEF Allowed
<1>4. ASSUME NEW w \in Workstreams, ReserveRefused(w) PROVE BudgetInv' /\ (stopped => stopped' /\ owner' = owner)
  <2>1. Terminate(w, "budget_exhausted") /\ restarts' = restarts
    BY <1>4 DEF ReserveRefused
  <2> QED
    BY <2>1, TerminateKeeps
<1>5. ASSUME NEW w \in Workstreams, Reconcile(w) PROVE BudgetInv' /\ (stopped => stopped' /\ owner' = owner)
  BY <1>5, ReconcileKeeps
<1>6. ASSUME NEW w \in Workstreams, Verified(w) PROVE BudgetInv' /\ (stopped => stopped' /\ owner' = owner)
  BY <1>6 DEF Verified, controller, store, Shape, EndedSessions, ReservedBy, Reserved
<1>7. ASSUME NEW w \in Workstreams, VerificationFails(w) PROVE BudgetInv' /\ (stopped => stopped' /\ owner' = owner)
  <2>1. Terminate(w, "policy_violation") /\ restarts' = restarts
    BY <1>7 DEF VerificationFails
  <2> QED
    BY <2>1, TerminateKeeps
<1>8. ASSUME NEW w \in Workstreams, NEW r \in Reasons, PromptFails(w, r) PROVE BudgetInv' /\ (stopped => stopped' /\ owner' = owner)
  <2>1. Terminate(w, r) /\ restarts' = restarts
    BY <1>8 DEF PromptFails
  <2> QED
    BY <2>1, TerminateKeeps
<1>9. ASSUME NEW x \in Workstreams, NEW w \in Workstreams, Redistribute(x, w) PROVE BudgetInv' /\ (stopped => stopped' /\ owner' = owner)
  <2>1. PICK i \in Ids : Allowed(w, fact[x].unused) /\ Claim(w, i, fact[x].unused)
    BY <1>9 DEF Redistribute
  <2>2. restarts' = restarts
    BY <1>9 DEF Redistribute
  <2>3. BudgetInv'
    BY <2>1, <2>2, ClaimKeeps
  <2> QED
    BY <2>1, <2>3 DEF Allowed
<1>10. CASE RecoverOrphans
  <2>1. Release(Orphans) /\ UNCHANGED <<stopped, ended, owner, restarts>>
    BY <1>10 DEF RecoverOrphans
  <2>2. Orphans \subseteq Ids
    BY DEF Orphans
  <2>3. /\ status' \in [Ids -> {None, "reserved", "committed", "cancelled"}]
        /\ \A i \in Ids : status'[i] = "reserved" => status[i] = "reserved"
    BY <2>1, <2>2, ReleaseKeeps
  <2> QED
    BY <2>1, <2>3 DEF Shape, EndedSessions, ReservedBy, Reserved
<1>11. CASE RecordRedistribution
  BY <1>11 DEF RecordRedistribution, controller, Shape, EndedSessions, ReservedBy, Reserved
<1>12. CASE Restart
  <2>1. /\ status' = [i \in Ids |-> IF i \in RebuiltIds THEN "reserved" ELSE None]
        /\ ended' = [w \in Workstreams |-> FALSE] /\ stopped' = stopped
        /\ owner' = owner /\ restarts' = restarts + 1
    BY <1>12 DEF Restart, store
  <2> QED
    BY <2>1, BudgetAssumption DEF Shape, EndedSessions, ReservedBy, Reserved
<1> QED
  BY <1>1, <1>2, <1>3, <1>4, <1>5, <1>6, <1>7, <1>8, <1>9, <1>10, <1>11, <1>12 DEF Next

\* the initial state holds no reservation
LEMMA BudgetInit == Init => BudgetInv
<1> SUFFICES ASSUME Init PROVE BudgetInv
  OBVIOUS
<1>1. Shape
  BY DEF Init, Shape
<1>2. None # "reserved"
  BY BudgetAssumption
<1>3. \A i \in Ids : status[i] # "reserved"
  BY <1>2 DEF Init
<1> QED
  BY <1>1, <1>3 DEF BudgetInv, EndedSessions, ReservedBy, Reserved

\* A stopped run stays stopped and no step after the stop hands out a
\* reservation, redistributions and restarts included.
THEOREM BudgetStops == Spec => StopIsFinal
<1>1. BudgetInv /\ [Next]_vars => BudgetInv'
  BY BudgetStep
<1>2. BudgetInv /\ [Next]_vars => [(stopped) => (stopped' /\ owner' = owner)]_vars
  BY BudgetStep
<1> QED
  BY <1>1, <1>2, BudgetInit, PTL DEF Spec, StopIsFinal

-----------------------------------------------------------------------------
(* The accounts. *)

\* An open reservation has an owner, a prompt has its own reservation, and what
\* a completed workstream left names the reservation it is from.
Linked ==
  /\ \A i \in Ids : owner[i] = None
       => status[i] # "reserved" /\ stored[i] # "reserved" /\ i \notin adaptive
  /\ \A w \in Workstreams : pc[w] = "prompting"
       => cur[w] \in Ids /\ owner[cur[w]] = w /\ (cur[w] \in adaptive => given[cur[w]] # None)
  /\ \A w \in Workstreams : pc[w] # "prompting" => cur[w] = None
  /\ \A w \in Workstreams : fact[w].unused > 0 => fact[w].id \in Ids

\* A committed reservation belongs to a workstream that has had its answer, and
\* only one that is done, before a restart, can find it reopened.
Settled ==
  \A i \in CommittedIds :
    /\ owner[i] # None /\ pc[owner[i]] \in {"verifying", "done"}
    /\ status[i] = "reserved" => pc[owner[i]] = "done"
    /\ i \in adaptive => given[i] # None

AccountInv == TypeOK /\ Linked /\ Settled /\ ConsumedIsDurable /\ Accounted

\* No step but a reconciliation commits, and none moves a workstream back.
LEMMA SettledStays ==
  ASSUME TypeOK, Settled, usage' = usage,
         \A i \in CommittedIds : owner'[i] = owner[i],
         \A i \in CommittedIds : status'[i] = "reserved" => status[i] = "reserved",
         \A i \in CommittedIds : i \in adaptive' => i \in adaptive,
         \A i \in CommittedIds : given[i] # None => given'[i] # None,
         \A w \in Workstreams : pc[w] = "verifying" => pc'[w] \in {"verifying", "done"},
         \A w \in Workstreams : pc[w] = "done" => pc'[w] = "done"
  PROVE  Settled' /\ CommittedIds' = CommittedIds
<1>1. CommittedIds' = CommittedIds /\ CommittedIds \subseteq Ids
  BY DEF CommittedIds, TypeOK
<1>2. \A i \in CommittedIds : owner[i] \in Workstreams
  BY <1>1 DEF Settled, TypeOK
<1> QED
  BY <1>1, <1>2 DEF Settled

\* Sums of claims and of charges are numbers.
LEMMA ClaimSums ==
  ASSUME TypeOK, NEW S \in SUBSET Ids
  PROVE  IsFiniteSet(S) /\ SumOver(claimed, S) \in Nat
<1>1. IsFiniteSet(S)
  BY BudgetAssumption, FS_Subset
<1>2. claimed \in [Ids -> Nat]
  BY DEF TypeOK
<1> QED
  BY <1>1, <1>2, SumNat

\* What a set of messages is billed is a number.
LEMMA BilledNat ==
  ASSUME TypeOK, NEW S \in SUBSET Messages
  PROVE  Billed(S) \in Nat
<1>1. IsFiniteSet(S)
  BY BudgetAssumption, FS_Subset
<1>2. [m \in Messages |-> usage[m].billable] \in [Messages -> Nat]
  BY DEF TypeOK
<1> QED
  BY <1>1, <1>2, SumNat DEF Billed

\* Closing open reservations, by a commit or a cancellation, takes their
\* claims out of the totals of the run and of their sessions, once.
LEMMA ClosingAccounts ==
  ASSUME TypeOK, Accounted, NEW S \in SUBSET Reserved, Reserved' = Reserved \ S,
         S \cap CommittedIds = {} \/ S = Reserved,
         Reserved' \ CommittedIds' = Reserved' \ CommittedIds,
         reserved' = Monus(reserved, SumOver(claimed, S)),
         sessReserved' = [w \in Workstreams |->
            Monus(sessReserved[w], SumOver(claimed, {i \in S : owner[i] = w}))],
         UNCHANGED <<owner, claimed, restarts>>
  PROVE  Accounted' /\ reserved' \in Nat /\ sessReserved' \in [Workstreams -> Nat]
<1>0. Reserved \in SUBSET Ids /\ S \in SUBSET Ids
  BY DEF Reserved
<1>1. reserved' \in Nat
  <2>1. SumOver(claimed, S) \in Nat /\ reserved \in Nat
    BY <1>0, ClaimSums DEF TypeOK
  <2> QED
    BY <2>1 DEF Monus
<1>2. ASSUME NEW w \in Workstreams
      PROVE  Monus(sessReserved[w], SumOver(claimed, {i \in S : owner[i] = w})) \in Nat
  <2>1. {i \in S : owner[i] = w} \in SUBSET Ids /\ sessReserved[w] \in Nat
    BY <1>0 DEF TypeOK
  <2>2. SumOver(claimed, {i \in S : owner[i] = w}) \in Nat
    BY <2>1, ClaimSums
  <2> QED
    BY <2>1, <2>2 DEF Monus
<1>3. sessReserved' \in [Workstreams -> Nat]
  BY <1>2
<1>4. ASSUME NEW R \in SUBSET Ids, NEW U \in SUBSET R, NEW t, t = SumOver(claimed, R)
      PROVE  Monus(t, SumOver(claimed, U)) = SumOver(claimed, R \ U)
  <2>1. /\ SumOver(claimed, R) \in Nat /\ SumOver(claimed, U) \in Nat
        /\ SumOver(claimed, R \ U) \in Nat /\ IsFiniteSet(R)
    <3>1. U \in SUBSET Ids /\ R \ U \in SUBSET Ids
      OBVIOUS
    <3> QED
      BY <3>1, ClaimSums
  <2>2. claimed \in [Ids -> Nat]
    BY DEF TypeOK
  <2>3. SumOver(claimed, R) = SumOver(claimed, U) + SumOver(claimed, R \ U)
    BY <2>1, <2>2, SumWithout
  <2> QED
    BY <1>4, <2>1, <2>3 DEF Monus
<1>5. reserved' = SumOver(claimed, Reserved' \ CommittedIds')
  <2> DEFINE open == Reserved \ CommittedIds
  <2>1. reserved = SumOver(claimed, open) /\ open \in SUBSET Reserved
    BY DEF Accounted
  <2>2. CASE S \cap CommittedIds = {}
    <3>1. S \in SUBSET open /\ open \in SUBSET Ids
      BY <1>0, <2>2
    <3>2. open \ S = Reserved' \ CommittedIds'
      OBVIOUS
    <3> HIDE DEF open
    <3>3. Monus(reserved, SumOver(claimed, S)) = SumOver(claimed, open \ S)
      BY <1>4, <2>1, <3>1
    <3> QED
      BY <3>2, <3>3
  <2>3. CASE S = Reserved
    <3>1. Reserved' \ CommittedIds' = {}
      BY <2>3
    <3>2. open \in SUBSET Ids /\ Reserved \ open \in SUBSET Ids
      BY <1>0
    <3> HIDE DEF open
    <3>3. /\ IsFiniteSet(Reserved) /\ SumOver(claimed, Reserved) \in Nat
          /\ SumOver(claimed, open) \in Nat /\ SumOver(claimed, Reserved \ open) \in Nat
      BY <1>0, <3>2, ClaimSums
    <3>4. SumOver(claimed, Reserved) = SumOver(claimed, open) + SumOver(claimed, Reserved \ open)
      <4>1. claimed \in [Ids -> Nat]
        BY DEF TypeOK
      <4> QED
        BY <1>0, <2>1, <3>3, <4>1, SumWithout
    <3>5. Monus(reserved, SumOver(claimed, S)) = 0
      BY <2>1, <2>3, <3>3, <3>4 DEF Monus
    <3> QED
      BY <3>1, <3>5, SumEmpty
  <2> QED
    BY <2>2, <2>3
<1>6. ASSUME NEW w \in Workstreams
      PROVE  sessReserved'[w] = SumOver(claimed, {i \in Reserved \ S : owner[i] = w})
  <2> DEFINE U == {i \in S : owner[i] = w}
  <2>1. sessReserved[w] = SumOver(claimed, ReservedBy(w))
    BY <1>6 DEF Accounted
  <2>2. ReservedBy(w) \in SUBSET Ids /\ U \in SUBSET ReservedBy(w)
    BY <1>0 DEF ReservedBy
  <2>3. ReservedBy(w) \ U = {i \in Reserved \ S : owner[i] = w}
    BY DEF ReservedBy
  <2>4. Monus(sessReserved[w], SumOver(claimed, U)) = SumOver(claimed, ReservedBy(w) \ U)
    BY <1>4, <2>1, <2>2
  <2>5. sessReserved'[w] = Monus(sessReserved[w], SumOver(claimed, U))
    OBVIOUS
  <2> QED
    BY <2>3, <2>4, <2>5
<1>7. Accounted'
  BY <1>5, <1>6 DEF Accounted, ReservedBy
<1> QED
  BY <1>1, <1>3, <1>7

\* Cancelling reservations.
LEMMA ReleaseAccounts ==
  ASSUME TypeOK, Accounted, NEW S \in SUBSET Reserved, Release(S),
         S \cap CommittedIds = {}, UNCHANGED <<owner, claimed, usage, restarts>>
  PROVE  /\ Accounted' /\ reserved' \in Nat /\ sessReserved' \in [Workstreams -> Nat]
         /\ status' \in [Ids -> {None, "reserved", "committed", "cancelled"}]
         /\ stored' \in [Ids -> {None, "reserved", "cancelled"}]
         /\ \A i \in Ids : /\ status'[i] = "reserved" => status[i] = "reserved"
                           /\ stored'[i] = "reserved" => stored[i] = "reserved"
<1>1. Reserved' = Reserved \ S
  BY DEF Release, Reserved, TypeOK
<1>2. /\ reserved' = Monus(reserved, SumOver(claimed, S))
      /\ sessReserved' = [w \in Workstreams |->
            Monus(sessReserved[w], SumOver(claimed, {i \in S : owner[i] = w}))]
  BY DEF Release
<1>3. Accounted' /\ reserved' \in Nat /\ sessReserved' \in [Workstreams -> Nat]
  <2>1. CommittedIds' = CommittedIds
    BY DEF CommittedIds
  <2> QED
    BY <1>1, <1>2, <2>1, ClosingAccounts
<1>4. /\ status' \in [Ids -> {None, "reserved", "committed", "cancelled"}]
      /\ stored' \in [Ids -> {None, "reserved", "cancelled"}]
      /\ \A i \in Ids : /\ status'[i] = "reserved" => status[i] = "reserved"
                        /\ stored'[i] = "reserved" => stored[i] = "reserved"
  BY DEF Release, TypeOK
<1> QED
  BY <1>3, <1>4

\* A charge is what the usage records say as long as neither changes.
LEMMA ChargesStay ==
  ASSUME ConsumedIsDurable, UNCHANGED <<consumed, sessConsumed, usage>>
  PROVE  ConsumedIsDurable'
BY DEF ConsumedIsDurable, Billed, Charged

\* A grant: the claim is added to the totals, to an id nobody has.
LEMMA ClaimAccounts ==
  ASSUME AccountInv, NEW w \in Workstreams, NEW i \in Ids, NEW n \in Nat,
         Fresh(i), Claim(w, i, n), UNCHANGED <<restarts, usage>>
  PROVE  /\ Accounted' /\ ConsumedIsDurable' /\ i \notin CommittedIds
         /\ status' \in [Ids -> {None, "reserved", "committed", "cancelled"}]
         /\ owner' \in [Ids -> Workstreams \cup {None}] /\ claimed' \in [Ids -> Nat]
         /\ reserved' \in Nat /\ sessReserved' \in [Workstreams -> Nat]
         /\ stored' \in [Ids -> {None, "reserved", "cancelled"}]
         /\ \A j \in Ids : owner'[j] = None => status'[j] # "reserved" /\ stored'[j] # "reserved"
<1> USE DEF AccountInv
<1>1. /\ status' = [status EXCEPT ![i] = "reserved"] /\ owner' = [owner EXCEPT ![i] = w]
      /\ claimed' = [claimed EXCEPT ![i] = n] /\ stored' = [stored EXCEPT ![i] = "reserved"]
      /\ reserved' = reserved + n /\ sessReserved' = [sessReserved EXCEPT ![w] = @ + n]
      /\ consumed' = consumed /\ sessConsumed' = sessConsumed
  BY DEF Claim
<1>2. /\ status' \in [Ids -> {None, "reserved", "committed", "cancelled"}]
      /\ owner' \in [Ids -> Workstreams \cup {None}] /\ claimed' \in [Ids -> Nat]
      /\ reserved' \in Nat /\ sessReserved' \in [Workstreams -> Nat]
      /\ stored' \in [Ids -> {None, "reserved", "cancelled"}]
  BY <1>1 DEF TypeOK
<1>3. \A j \in Ids : owner'[j] = None => status'[j] # "reserved" /\ stored'[j] # "reserved"
  BY <1>1, BudgetAssumption DEF TypeOK, Linked
<1>4. ConsumedIsDurable'
  BY <1>1, ChargesStay
<1>5. i \notin Reserved /\ owner[i] # w
  BY BudgetAssumption DEF Fresh, Linked, Reserved
<1>6. Reserved' = Reserved \cup {i} /\ Reserved \in SUBSET Ids
  BY <1>1 DEF Reserved, TypeOK
<1>7. ASSUME NEW R \in SUBSET Ids, i \notin R
      PROVE  /\ SumOver(claimed', R) = SumOver(claimed, R)
             /\ SumOver(claimed', R \cup {i}) = SumOver(claimed, R) + n
  <2>1. IsFiniteSet(R) /\ SumOver(claimed, R) \in Nat
    BY ClaimSums
  <2>2. \A j \in R : claimed'[j] = claimed[j]
    BY <1>1, <1>7 DEF TypeOK
  <2>3. SumOver(claimed', R) = SumOver(claimed, R)
    BY <2>1, <2>2, SumSame
  <2>4. (R \cup {i}) \ {i} = R /\ R \cup {i} \in SUBSET Ids /\ i \in R \cup {i}
    BY <1>7
  <2>5. IsFiniteSet(R \cup {i})
    BY <2>1, FS_AddElement
  <2>6. SumOver(claimed', R \cup {i}) = claimed'[i] + SumOver(claimed', (R \cup {i}) \ {i})
    BY <1>2, <2>4, <2>5, SumRemove
  <2>7. claimed'[i] = n
    BY <1>1 DEF TypeOK
  <2> QED
    BY <2>1, <2>3, <2>4, <2>6, <2>7
<1>8. i \notin CommittedIds
  BY DEF Fresh, Settled
<1>8a. reserved' = SumOver(claimed', Reserved' \ CommittedIds')
  <2> DEFINE open == Reserved \ CommittedIds
  <2>1. reserved = SumOver(claimed, open)
    BY DEF Accounted
  <2>2. Reserved' \ CommittedIds' = open \cup {i} /\ open \in SUBSET Ids /\ i \notin open
    <3>1. CommittedIds' = CommittedIds
      BY DEF CommittedIds
    <3> QED
      BY <1>5, <1>6, <1>8, <3>1
  <2> HIDE DEF open
  <2>3. SumOver(claimed', open \cup {i}) = SumOver(claimed, open) + n
    BY <1>7, <2>2
  <2> QED
    BY <1>1, <2>1, <2>2, <2>3
<1>9. ASSUME NEW x \in Workstreams
      PROVE  sessReserved'[x] = SumOver(claimed', ReservedBy(x)')
  <2>1. sessReserved[x] = SumOver(claimed, ReservedBy(x))
    BY <1>9 DEF Accounted
  <2>2. ReservedBy(x) \in SUBSET Ids /\ i \notin ReservedBy(x)
    BY <1>5, <1>6 DEF ReservedBy
  <2>3. ReservedBy(x)' = {j \in Reserved' : owner'[j] = x}
    BY DEF ReservedBy
  <2>4. CASE x = w
    <3>1. ReservedBy(x)' = ReservedBy(x) \cup {i}
      BY <1>1, <1>5, <1>6, <2>3, <2>4 DEF ReservedBy, TypeOK
    <3>2. sessReserved'[x] = sessReserved[x] + n
      BY <1>1, <2>4 DEF TypeOK
    <3> QED
      BY <1>7, <2>1, <2>2, <3>1, <3>2
  <2>5. CASE x # w
    <3>1. ReservedBy(x)' = ReservedBy(x)
      BY <1>1, <1>5, <1>6, <2>3, <2>5 DEF ReservedBy, TypeOK
    <3>2. sessReserved'[x] = sessReserved[x]
      BY <1>1, <2>5 DEF TypeOK
    <3> QED
      BY <1>7, <2>1, <2>2, <3>1, <3>2
  <2> QED
    BY <2>4, <2>5
<1>10. Accounted'
  BY <1>8a, <1>9 DEF Accounted
<1> QED
  BY <1>2, <1>3, <1>4, <1>8, <1>10

\* A grant that was allowed leaves what is spent and reserved, and so what is
\* spent and promised, within the run's ceiling.
LEMMA GrantFits ==
  ASSUME AccountInv, AccountInv', NEW w \in Workstreams, NEW i \in Ids, NEW n \in Nat,
         n > 0, Allowed(w, n), Claim(w, i, n)
  PROVE  consumed' + Promised' <= RunTotal
<1> USE DEF AccountInv
<1>1. claimed' \in [Ids -> Nat] /\ reserved' \in Nat
  BY DEF TypeOK
<1>2. consumed' = consumed /\ reserved' = reserved + n
  BY DEF Claim
<1>3. consumed + reserved + n <= RunTotal
  <2>1. consumed \in Nat /\ reserved \in Nat /\ RunTotal \in Nat
    BY BudgetAssumption DEF TypeOK
  <2>2. n <= Monus(RunTotal, consumed + reserved) /\ n > 0
    BY DEF Allowed, RemainingRun
  <2>3. RunTotal > consumed + reserved /\ n <= RunTotal - (consumed + reserved)
    BY <2>1, <2>2 DEF Monus
  <2> QED
    BY <2>1, <2>3
<1> DEFINE open == Reserved' \ CommittedIds'
           P == {j \in Reserved' : \E x \in Workstreams :
                   cur'[x] = j \/ (pc'[x] = "idle" /\ j \in Pending(x)')}
<1>4. reserved' = SumOver(claimed', open)
  BY DEF Accounted
<1>5. Promised' = SumOver(claimed', P)
  BY DEF Promised
<1>6. P \in SUBSET open /\ open \in SUBSET Ids
  <2>1. Reserved' \in SUBSET Ids
    BY DEF Reserved
  <2>2. ASSUME NEW j \in P, j \in CommittedIds' PROVE FALSE
    <3>1. PICK x \in Workstreams : cur'[x] = j \/ (pc'[x] = "idle" /\ j \in Pending(x)')
      BY <2>2
    <3>2. owner'[j] # None /\ pc'[owner'[j]] \in {"verifying", "done"}
      BY <2>2 DEF Settled
    <3>3. owner'[j] = x /\ pc'[x] \in {"idle", "prompting"}
      <4>1. CASE cur'[x] = j
        <5>1. j # None
          BY <2>1, <2>2, BudgetAssumption
        <5> QED
          BY <4>1, <5>1 DEF Linked
      <4>2. CASE pc'[x] = "idle" /\ j \in Pending(x)'
        BY <4>2 DEF Pending
      <4> QED
        BY <3>1, <4>1, <4>2
    <3> QED
      BY <3>2, <3>3
  <2> QED
    BY <2>1, <2>2
<1> HIDE DEF P, open
<1>7. IsFiniteSet(open) /\ IsFiniteSet(P) /\ IsFiniteSet(open \ P)
  BY <1>6, BudgetAssumption, FS_Subset
<1>8. SumOver(claimed', open) = SumOver(claimed', P) + SumOver(claimed', open \ P)
  BY <1>1, <1>6, <1>7, SumWithout
<1>9. SumOver(claimed', P) \in Nat /\ SumOver(claimed', open \ P) \in Nat
  <2>1. P \in SUBSET Ids /\ open \ P \in SUBSET Ids
    BY <1>6
  <2> QED
    BY <1>1, <1>7, <2>1, SumNat
<1>10. consumed \in Nat /\ reserved \in Nat /\ RunTotal \in Nat
  BY BudgetAssumption DEF TypeOK
<1> QED
  BY <1>2, <1>3, <1>4, <1>5, <1>8, <1>9, <1>10

\* The statement of GrantsWithinCeiling for one step.
Fits == owner' # owner => consumed' + Promised' <= RunTotal

\* A step that hands nothing out and charges nothing.
LEMMA QuietFits == ASSUME owner' = owner PROVE Fits
BY DEF Fits

\* Termination charges what was reported and releases every reservation of the
\* session: the account stays balanced.
LEMMA TerminateAccounts ==
  ASSUME AccountInv, NEW w \in Workstreams, NEW r \in Reasons, Terminate(w, r),
         pc[w] # "done", restarts' = restarts
  PROVE  /\ Accounted' /\ ConsumedIsDurable'
         /\ UNCHANGED <<owner, claimed, consumed, stopped, sessConsumed, usage, reclaim, given, adaptive>>
         /\ status' \in [Ids -> {None, "reserved", "committed", "cancelled"}]
         /\ reserved' \in Nat /\ sessReserved' \in [Workstreams -> Nat]
         /\ stored' \in [Ids -> {None, "reserved", "cancelled"}]
         /\ ended' \in [Workstreams -> BOOLEAN]
         /\ terminated' \subseteq Workstreams \X Reasons
         /\ \A i \in Ids : /\ status'[i] = "reserved" => status[i] = "reserved"
                           /\ stored'[i] = "reserved" => stored[i] = "reserved"
<1> USE DEF AccountInv
<1>1. UNCHANGED <<owner, claimed, usage, reclaim, given, adaptive>>
  BY DEF Terminate
<1>2. terminated' \subseteq Workstreams \X Reasons
  BY DEF Terminate, TypeOK
<1>3. CASE <<w, r>> \in terminated
  <2>1. UNCHANGED <<controller, stored>>
    BY <1>3 DEF Terminate
  <2>2. ConsumedIsDurable'
    BY <1>1, <2>1, ChargesStay DEF controller
  <2>3. Accounted'
    BY <1>1, <2>1 DEF Accounted, ReservedBy, Reserved, CommittedIds, controller
  <2> QED
    BY <1>1, <1>2, <2>1, <2>2, <2>3 DEF TypeOK, controller
<1>4. CASE <<w, r>> \notin terminated
  <2>1. CancelSession(w)
    BY <1>4 DEF Terminate
  <2>2. /\ Release(ReservedBy(w)) /\ ended' = [ended EXCEPT ![w] = TRUE]
        /\ UNCHANGED <<consumed, stopped, sessConsumed>>
    BY <2>1 DEF CancelSession
  <2>3. ReservedBy(w) \in SUBSET Reserved /\ ReservedBy(w) \cap CommittedIds = {}
    BY DEF ReservedBy, Reserved, Settled
  <2>4. ConsumedIsDurable'
    BY <1>1, <2>2, ChargesStay
  <2>5. /\ Accounted' /\ reserved' \in Nat /\ sessReserved' \in [Workstreams -> Nat]
        /\ status' \in [Ids -> {None, "reserved", "committed", "cancelled"}]
        /\ stored' \in [Ids -> {None, "reserved", "cancelled"}]
        /\ \A i \in Ids : /\ status'[i] = "reserved" => status[i] = "reserved"
                          /\ stored'[i] = "reserved" => stored[i] = "reserved"
    BY <1>1, <2>2, <2>3, ReleaseAccounts
  <2>6. ended' \in [Workstreams -> BOOLEAN]
    BY <2>2 DEF TypeOK
  <2> QED
    BY <1>1, <1>2, <2>2, <2>4, <2>5, <2>6
<1> QED
  BY <1>3, <1>4

\* A usage record of a message not recorded before adds its charge.
LEMMA ChargeAdds ==
  ASSUME TypeOK, NEW m \in Messages, NEW w \in Workstreams, NEW i \in Ids, NEW u \in Nat,
         usage[m] = Unused,
         usage' = [usage EXCEPT ![m] = [ws |-> w, id |-> i, billable |-> u]],
         NEW S \in SUBSET Messages
  PROVE  /\ m \notin S => Billed(S)' = Billed(S)
         /\ m \in S => Billed(S)' = Billed(S \ {m}) + u /\ Billed(S) = Billed(S \ {m})
<1> DEFINE f == [x \in Messages |-> usage[x].billable]
           g == [x \in Messages |-> usage'[x].billable]
<1>1. f \in [Messages -> Nat] /\ g \in [Messages -> Nat]
  BY DEF TypeOK
<1>2. f[m] = 0 /\ g[m] = u /\ \A x \in Messages \ {m} : g[x] = f[x]
  BY DEF TypeOK, Unused
<1>3. \A R \in SUBSET Messages : Billed(R) = SumOver(f, R) /\ Billed(R)' = SumOver(g, R)
  BY DEF Billed
<1>4. \A R \in SUBSET Messages : IsFiniteSet(R)
  BY BudgetAssumption, FS_Subset
<1> HIDE DEF f, g
<1>5. \A R \in SUBSET Messages : m \notin R => SumOver(g, R) = SumOver(f, R)
  <2> SUFFICES ASSUME NEW R \in SUBSET Messages, m \notin R PROVE SumOver(g, R) = SumOver(f, R)
    OBVIOUS
  <2>1. \A x \in R : g[x] = f[x]
    BY <1>2
  <2> QED
    BY <1>4, <2>1, SumSame
<1>6. ASSUME m \in S
      PROVE  Billed(S)' = Billed(S \ {m}) + u /\ Billed(S) = Billed(S \ {m})
  <2>1. SumOver(g, S) = g[m] + SumOver(g, S \ {m}) /\ SumOver(f, S) = f[m] + SumOver(f, S \ {m})
    <3>1. SumOver(g, S) = g[m] + SumOver(g, S \ {m})
      BY <1>1, <1>4, <1>6, SumRemove
    <3>2. SumOver(f, S) = f[m] + SumOver(f, S \ {m})
      BY <1>1, <1>4, <1>6, SumRemove
    <3> QED
      BY <3>1, <3>2
  <2>2. S \ {m} \in SUBSET Messages
    OBVIOUS
  <2>3. SumOver(g, S \ {m}) = SumOver(f, S \ {m})
    BY <1>5, <2>2
  <2>4. SumOver(f, S \ {m}) \in Nat
    BY <1>1, <1>4, <2>2, SumNat
  <2> QED
    BY <1>2, <1>3, <2>1, <2>2, <2>3, <2>4
<1> QED
  BY <1>3, <1>5, <1>6

\* A reconciliation moves tokens from a reservation to the durable consumption,
\* and no more than the provider reported.
LEMMA ReconcileAccounts ==
  ASSUME AccountInv, NEW w \in Workstreams, Reconcile(w)
  PROVE  AccountInv' /\ Fits
<1> USE DEF AccountInv
<1> DEFINE i == cur[w]
           back == IF status[i] = "reserved" THEN {i} ELSE {}
<1>1. PICK m \in Messages, u \in Usages :
       LET stop == ~stopped /\ consumed + u >= StopAt
           rest == IF stop THEN Reserved \ {i} ELSE {}
       IN
       /\ NewMessage(m)
       /\ usage' = [usage EXCEPT ![m] = [ws |-> w, id |-> i, billable |-> u]]
       /\ consumed' = consumed + u
       /\ sessConsumed' = [sessConsumed EXCEPT ![w] = @ + u]
       /\ stopped' = (stopped \/ stop)
       /\ status' = [j \in Ids |-> IF j \in back THEN "committed"
                                   ELSE IF j \in rest THEN "cancelled" ELSE status[j]]
       /\ stored' = [j \in Ids |-> IF j \in rest THEN "cancelled" ELSE stored[j]]
       /\ reserved' = Monus(reserved, SumOver(claimed, back \cup rest))
       /\ sessReserved' = [x \in Workstreams |->
            Monus(sessReserved[x], SumOver(claimed, {j \in back \cup rest : owner[j] = x}))]
       /\ reclaim' = [reclaim EXCEPT ![i] = @ + (IF status[i] = "reserved"
                                                   THEN Monus(claimed[i], u) ELSE 0)]
       /\ fact' = [fact EXCEPT ![w] = [id |-> i, unused |-> Monus(claimed[i], u)]]
  BY DEF Reconcile
<1> DEFINE stop == ~stopped /\ consumed + u >= StopAt
           rest == IF stop THEN Reserved \ {i} ELSE {}
           S == back \cup rest
<1>2. /\ usage[m] = Unused
      /\ usage' = [usage EXCEPT ![m] = [ws |-> w, id |-> i, billable |-> u]]
      /\ consumed' = consumed + u
      /\ sessConsumed' = [sessConsumed EXCEPT ![w] = @ + u]
      /\ stopped' = (stopped \/ stop)
  BY <1>1 DEF NewMessage
<1>3. /\ status' = [j \in Ids |-> IF j \in back THEN "committed"
                                   ELSE IF j \in rest THEN "cancelled" ELSE status[j]]
      /\ stored' = [j \in Ids |-> IF j \in rest THEN "cancelled" ELSE stored[j]]
  BY <1>1
<1>4. /\ reserved' = Monus(reserved, SumOver(claimed, S))
      /\ sessReserved' = [x \in Workstreams |->
            Monus(sessReserved[x], SumOver(claimed, {j \in S : owner[j] = x}))]
  BY <1>1
<1>5. /\ reclaim' = [reclaim EXCEPT ![i] = @ + (IF status[i] = "reserved"
                                                   THEN Monus(claimed[i], u) ELSE 0)]
      /\ fact' = [fact EXCEPT ![w] = [id |-> i, unused |-> Monus(claimed[i], u)]]
  BY <1>1
<1>6. /\ pc' = [pc EXCEPT ![w] = "verifying"] /\ cur' = [cur EXCEPT ![w] = None]
      /\ UNCHANGED <<ended, owner, claimed, given, adaptive, terminated, taken, half, restarts>>
  BY DEF Reconcile
<1>7. i \in Ids
  BY DEF Reconcile, Linked
<1>6a. owner[i] = w /\ pc[w] = "prompting" /\ (i \in adaptive => given[i] # None)
  BY DEF Reconcile, Linked
<1>6b. CommittedIds' = CommittedIds \cup {i}
  <2>1. usage[m].id = None /\ usage'[m].id = i /\ \A k \in Messages \ {m} : usage'[k] = usage[k]
    BY <1>2 DEF TypeOK, Unused
  <2>2. i # None
    BY <1>7, BudgetAssumption
  <2> HIDE DEF i
  <2> QED
    BY <2>1, <2>2 DEF CommittedIds
<1>8. u \in Nat
  BY BudgetAssumption
<1>9. back \in SUBSET Reserved /\ rest \in SUBSET Reserved
  BY <1>7 DEF Reserved
<1> HIDE DEF i, back, rest, stop
<1>10. S \in SUBSET Reserved
  BY <1>9
<1>11. Reserved' = Reserved \ S
  BY <1>3, <1>9 DEF Reserved, TypeOK
<1> HIDE DEF S
<1>12. Accounted' /\ reserved' \in Nat /\ sessReserved' \in [Workstreams -> Nat]
  <2>1. i \notin CommittedIds
    BY <1>6a DEF Settled
  <2>2. CommittedIds' = CommittedIds \cup {i}
    BY <1>6b
  <2>3. i \notin Reserved'
    BY <1>3, <1>7 DEF Reserved, back
  <2>4. S \cap CommittedIds = {} \/ S = Reserved
    BY <1>7, <1>9, <2>1 DEF S, back, rest, Reserved
  <2>5. Reserved' \ CommittedIds' = Reserved' \ CommittedIds
    BY <2>2, <2>3
  <2> QED
    BY <1>4, <1>6, <1>10, <1>11, <2>4, <2>5, ClosingAccounts
<1>13. Monus(claimed[i], u) \in Nat
  BY <1>7, <1>8 DEF TypeOK, Monus
<1>14. /\ status' \in [Ids -> {None, "reserved", "committed", "cancelled"}]
       /\ stored' \in [Ids -> {None, "reserved", "cancelled"}]
  BY <1>3 DEF TypeOK
<1>15. /\ reclaim' \in [Ids -> Nat]
       /\ fact' \in [Workstreams -> [id : Ids \cup {None}, unused : Nat]]
  BY <1>5, <1>7, <1>13 DEF TypeOK
<1>16. /\ usage' \in [Messages -> [ws : Workstreams \cup {None}, id : Ids \cup {None}, billable : Nat]]
       /\ consumed' \in Nat /\ sessConsumed' \in [Workstreams -> Nat]
  BY <1>2, <1>7, <1>8 DEF TypeOK
<1>17. stopped' \in BOOLEAN
  <2>1. stop \in BOOLEAN
    BY DEF stop
  <2> QED
    BY <1>2, <2>1, Zenon DEF TypeOK
<1>18. TypeOK'
  BY <1>6, <1>12, <1>14, <1>15, <1>16, <1>17 DEF TypeOK
<1>19. Linked' /\ Settled'
  <2>1. \A j \in Ids : status'[j] = "reserved" => status[j] = "reserved"
    BY <1>3
  <2>2. \A j \in Ids : owner'[j] = None
          => status'[j] # "reserved" /\ stored'[j] # "reserved" /\ j \notin adaptive'
    BY <1>3, <1>6 DEF Linked
  <2>3. \A x \in Workstreams : /\ pc'[x] = "prompting" => pc[x] = "prompting" /\ cur'[x] = cur[x]
                               /\ pc'[x] # "prompting" => cur'[x] = None
    BY <1>6 DEF Linked, TypeOK
  <2>4. \A x \in Workstreams : fact'[x].unused > 0 => fact'[x].id \in Ids
    BY <1>5, <1>7 DEF Linked, TypeOK
  <2>5. Linked'
    BY <1>6, <2>2, <2>3, <2>4 DEF Linked
  <2>6. status'[i] # "reserved"
    BY <1>3, <1>7 DEF back
  <2>7. \A x \in Workstreams : /\ pc[x] = "done" => pc'[x] = "done"
                               /\ pc[x] = "verifying" => pc'[x] = "verifying"
                               /\ pc'[w] = "verifying"
    BY <1>6, <1>6a DEF TypeOK
  <2>8. \A j \in CommittedIds : j \in Ids /\ owner[j] \in Workstreams
    BY DEF CommittedIds, Settled, TypeOK
  <2>9. w # None
    BY BudgetAssumption
  <2>10. ASSUME NEW j \in CommittedIds'
         PROVE  /\ owner'[j] # None /\ pc'[owner'[j]] \in {"verifying", "done"}
                /\ status'[j] = "reserved" => pc'[owner'[j]] = "done"
                /\ j \in adaptive' => given'[j] # None
    <3>1. CASE j = i
      BY <1>6, <1>6a, <2>6, <2>7, <2>9, <3>1
    <3>2. CASE j \in CommittedIds
      BY <1>6, <2>1, <2>7, <2>8, <3>2 DEF Settled
    <3> QED
      BY <1>6b, <2>10, <3>1, <3>2
  <2>11. Settled'
    BY <2>10 DEF Settled
  <2> QED
    BY <2>5, <2>11
<1>20. ConsumedIsDurable'
  <2>1. \A R \in SUBSET Messages :
          /\ m \notin R => Billed(R)' = Billed(R)
          /\ m \in R => Billed(R)' = Billed(R \ {m}) + u /\ Billed(R) = Billed(R \ {m})
    BY <1>2, <1>7, <1>8, ChargeAdds
  <2>2. consumed' = Billed(Messages)'
    <3>1. Billed(Messages)' = Billed(Messages) + u
      BY <2>1
    <3> QED
      BY <1>2, <3>1 DEF ConsumedIsDurable
  <2>3. ASSUME NEW x \in Workstreams
        PROVE  sessConsumed'[x] = SumOver([k \in Messages |-> usage'[k].billable],
                                        {k \in Messages : usage'[k].ws = x})
    <3>1. sessConsumed[x] = Billed({k \in Messages : usage[k].ws = x})
      BY DEF ConsumedIsDurable, Charged
    <3>2. usage[m].ws # x
      BY <1>2, BudgetAssumption DEF Unused
    <3>3. CASE x = w
      <4> DEFINE R == {k \in Messages : usage'[k].ws = x}
      <4>1. m \in R /\ R \ {m} = {k \in Messages : usage[k].ws = x} /\ R \in SUBSET Messages
        BY <1>2, <3>2, <3>3 DEF TypeOK
      <4> HIDE DEF R
      <4>2. SumOver([k \in Messages |-> usage'[k].billable], R) = Billed(R \ {m}) + u
        BY <2>1, <4>1 DEF Billed
      <4>3. sessConsumed'[x] = sessConsumed[x] + u
        BY <1>2, <3>3 DEF TypeOK
      <4> QED
        BY <3>1, <4>1, <4>2, <4>3 DEF R
    <3>4. CASE x # w
      <4> DEFINE R == {k \in Messages : usage'[k].ws = x}
      <4>1. m \notin R /\ R = {k \in Messages : usage[k].ws = x} /\ R \in SUBSET Messages
        BY <1>2, <3>2, <3>4 DEF TypeOK
      <4> HIDE DEF R
      <4>2. SumOver([k \in Messages |-> usage'[k].billable], R) = Billed(R)
        BY <2>1, <4>1 DEF Billed
      <4>3. sessConsumed'[x] = sessConsumed[x]
        BY <1>2, <3>4 DEF TypeOK
      <4> QED
        BY <3>1, <4>1, <4>2, <4>3 DEF R
    <3> QED
      BY <3>3, <3>4
  <2> QED
    BY <2>2, <2>3 DEF ConsumedIsDurable, Charged, Billed
<1>21. Fits
  BY <1>6, QuietFits
<1> QED
  BY <1>12, <1>18, <1>19, <1>20, <1>21

\* The restart rebuilds the totals of the reservations it reopens, the
\* committed ones left out of the run's, and open ones have their owners.
LEMMA RestartAccounts ==
  ASSUME AccountInv, Restart
  PROVE  AccountInv' /\ Fits
<1> USE DEF AccountInv
<1>1. /\ restarts < MaxRestarts /\ restarts' = restarts + 1
      /\ consumed' = Billed(Messages) /\ reserved' = RebuiltReserved
      /\ status' = [i \in Ids |-> IF i \in RebuiltIds THEN "reserved" ELSE None]
      /\ sessReserved' = [w \in Workstreams |-> SumOver(claimed, {i \in RebuiltIds : owner[i] = w})]
      /\ sessConsumed' = [w \in Workstreams |-> Billed(Charged(w))]
      /\ ended' = [w \in Workstreams |-> FALSE] /\ stopped' = stopped
      /\ cur' = [w \in Workstreams |-> None] /\ taken' = [w \in Workstreams |-> {}]
      /\ fact' = [w \in Workstreams |-> NoFact] /\ half' = None
      /\ UNCHANGED store
  BY DEF Restart
<1>2. /\ pc' \in [Workstreams -> {"idle", "prompting", "verifying", "done"}]
      /\ \A w \in Workstreams : pc'[w] # "prompting" /\ (pc[w] # "idle" => pc'[w] = "done")
  BY DEF Restart
<1>3. RebuiltIds \in SUBSET ActiveIds /\ ActiveIds \in SUBSET Ids
  BY DEF RebuiltIds, ActiveIds
<1>4. reserved' \in Nat
  <2>1. ActiveIds \ CommittedIds \in SUBSET Ids
    BY <1>3
  <2> QED
    BY <1>1, <2>1, ClaimSums DEF RebuiltReserved
<1>5. sessReserved' \in [Workstreams -> Nat]
  <2>1. ASSUME NEW w \in Workstreams
        PROVE  SumOver(claimed, {i \in RebuiltIds : owner[i] = w}) \in Nat
    <3>1. {i \in RebuiltIds : owner[i] = w} \in SUBSET Ids
      BY <1>3
    <3> QED
      BY <3>1, ClaimSums
  <2> QED
    BY <1>1, <2>1
<1>6. consumed' \in Nat
  BY <1>1, BilledNat
<1>7. sessConsumed' \in [Workstreams -> Nat]
  <2>1. \A w \in Workstreams : Charged(w) \in SUBSET Messages
    BY DEF Charged
  <2>2. \A w \in Workstreams : Billed(Charged(w)) \in Nat
    BY <2>1, BilledNat
  <2> QED
    BY <1>1, <2>2
<1>8. restarts' \in 0 .. MaxRestarts
  BY <1>1, BudgetAssumption DEF TypeOK
<1>9. /\ status' \in [Ids -> {None, "reserved", "committed", "cancelled"}]
      /\ fact' \in [Workstreams -> [id : Ids \cup {None}, unused : Nat]]
      /\ ended' \in [Workstreams -> BOOLEAN] /\ cur' \in [Workstreams -> Ids \cup {None}]
      /\ taken' \in [Workstreams -> SUBSET Ids]
  BY <1>1 DEF NoFact
<1>10. TypeOK'
  BY <1>1, <1>2, <1>4, <1>5, <1>6, <1>7, <1>8, <1>9 DEF TypeOK, store
<1>11. Linked'
  <2>1. \A i \in Ids : owner'[i] = None
          => status'[i] # "reserved" /\ stored'[i] # "reserved" /\ i \notin adaptive'
    BY <1>1, <1>3, BudgetAssumption DEF Linked, ActiveIds, store
  <2>2. \A w \in Workstreams : fact'[w].unused = 0 /\ cur'[w] = None
    BY <1>1 DEF NoFact
  <2> QED
    BY <1>2, <2>1, <2>2 DEF Linked
<1>11a. Settled'
  <2>1. CommittedIds' = CommittedIds
    BY <1>1 DEF CommittedIds, store
  <2>2. \A i \in CommittedIds : owner[i] \in Workstreams /\ pc[owner[i]] # "idle"
    BY DEF CommittedIds, Settled, TypeOK
  <2> QED
    BY <1>1, <1>2, <2>1, <2>2 DEF Settled, store
<1>12. ConsumedIsDurable'
  <2>1. usage' = usage
    BY <1>1 DEF store
  <2> QED
    BY <1>1, <2>1 DEF ConsumedIsDurable, Billed, Charged
<1>13. Accounted'
  <2>1. CommittedIds' = CommittedIds /\ claimed' = claimed /\ owner' = owner
    BY <1>1 DEF CommittedIds, store
  <2>2. Reserved' = RebuiltIds
    BY <1>1, <1>3, BudgetAssumption DEF Reserved
  <2>3. reserved' = SumOver(claimed, RebuiltIds \ CommittedIds)
    <3>1. CASE Billed(Messages) > 0 \/ RebuiltReserved > 0 \/ stopped
      BY <1>1, <3>1 DEF RebuiltIds, RebuiltReserved
    <3>2. CASE ~(Billed(Messages) > 0 \/ RebuiltReserved > 0 \/ stopped)
      <4>1. RebuiltIds \ CommittedIds = {}
        BY <3>2 DEF RebuiltIds
      <4>2. reserved' = 0
        BY <1>1, <1>4, <3>2
      <4> QED
        BY <4>1, <4>2, SumEmpty
    <3> QED
      BY <3>1, <3>2
  <2>4. \A w \in Workstreams : sessReserved'[w] = SumOver(claimed, {i \in RebuiltIds : owner[i] = w})
    BY <1>1
  <2> QED
    BY <2>1, <2>2, <2>3, <2>4 DEF Accounted, ReservedBy
<1>14. Fits
  BY <1>1, QuietFits DEF store
<1> QED
  BY <1>10, <1>11, <1>11a, <1>12, <1>13, <1>14

\* Every step keeps the accounts, and every grant fits.
LEMMA AccountStep ==
  ASSUME AccountInv, [Next]_vars
  PROVE  AccountInv' /\ Fits
<1> USE DEF AccountInv
<1>1. CASE UNCHANGED vars
  <2>1. UNCHANGED <<controller, store, executor, restarts>>
    BY <1>1 DEF vars
  <2>2. ConsumedIsDurable'
    BY <2>1, ChargesStay DEF controller, store
  <2>3. Accounted'
    BY <2>1 DEF Accounted, ReservedBy, Reserved, CommittedIds, controller, store
  <2>4. TypeOK' /\ Linked' /\ Settled'
    BY <2>1 DEF TypeOK, Linked, Settled, CommittedIds, controller, store, executor
  <2>5. Fits
    BY <2>1, QuietFits DEF store
  <2> QED
    BY <2>2, <2>3, <2>4, <2>5
<1>2. ASSUME NEW w \in Workstreams, ReserveGiven(w) PROVE AccountInv' /\ Fits
  <2>1. UNCHANGED <<controller, store, fact, half, restarts>>
    BY <1>2 DEF ReserveGiven
  <2>2. PICK i \in Pending(w) : /\ taken' = [taken EXCEPT ![w] = @ \cup {i}]
                                /\ cur' = [cur EXCEPT ![w] = i]
    BY <1>2 DEF ReserveGiven
  <2>3. i \in Ids /\ owner[i] = w /\ given[i] # None
    BY DEF Pending, Given
  <2>3a. pc[w] = "idle" /\ pc' = [pc EXCEPT ![w] = "prompting"]
    BY <1>2 DEF ReserveGiven, CanReserve
  <2>4. ConsumedIsDurable'
    BY <2>1, ChargesStay DEF controller, store
  <2>5. Accounted'
    BY <2>1 DEF Accounted, ReservedBy, Reserved, CommittedIds, controller, store
  <2>6. TypeOK'
    BY <2>1, <2>2, <2>3, <2>3a DEF TypeOK, controller, store
  <2>7. Linked'
    <3>1. UNCHANGED <<status, owner, stored, adaptive, given, fact>>
      BY <2>1 DEF controller, store
    <3>2. pc'[w] = "prompting" /\ cur'[w] = i
      BY <2>2, <2>3a DEF TypeOK
    <3>3. \A x \in Workstreams \ {w} : pc'[x] = pc[x] /\ cur'[x] = cur[x]
      BY <2>2, <2>3a DEF TypeOK
    <3> QED
      BY <2>3, <3>1, <3>2, <3>3 DEF Linked
  <2>7a. Settled'
    <3>1. UNCHANGED <<usage, status, owner, adaptive, given>>
      BY <2>1 DEF controller, store
    <3>2. \A x \in Workstreams : pc[x] # "idle" => pc'[x] = pc[x]
      BY <2>3a DEF TypeOK
    <3> QED
      BY <3>1, <3>2, SettledStays
  <2>8. Fits
    BY <2>1, QuietFits DEF store
  <2> QED
    BY <2>4, <2>5, <2>6, <2>7, <2>7a, <2>8
<1>3. ASSUME NEW w \in Workstreams, ReserveNew(w) PROVE AccountInv' /\ Fits
  <2>1. PICK n \in Needs, i \in Ids : /\ Fresh(i) /\ Allowed(w, n) /\ Claim(w, i, n)
                                      /\ cur' = [cur EXCEPT ![w] = i]
    BY <1>3 DEF ReserveNew
  <2>2. /\ pc[w] = "idle" /\ pc' = [pc EXCEPT ![w] = "prompting"]
        /\ UNCHANGED <<taken, fact, half, usage, reclaim, given, adaptive, terminated, restarts>>
    BY <1>3 DEF ReserveNew, CanReserve
  <2>3. n \in Nat /\ n > 0
    BY BudgetAssumption
  <2>4. /\ Accounted' /\ ConsumedIsDurable' /\ i \notin CommittedIds
        /\ status' \in [Ids -> {None, "reserved", "committed", "cancelled"}]
        /\ owner' \in [Ids -> Workstreams \cup {None}] /\ claimed' \in [Ids -> Nat]
        /\ reserved' \in Nat /\ sessReserved' \in [Workstreams -> Nat]
        /\ stored' \in [Ids -> {None, "reserved", "cancelled"}]
        /\ \A j \in Ids : owner'[j] = None => status'[j] # "reserved" /\ stored'[j] # "reserved"
    BY <2>1, <2>2, <2>3, ClaimAccounts
  <2>5. UNCHANGED <<consumed, stopped, sessConsumed, ended>>
    BY <2>1 DEF Claim
  <2>6. TypeOK'
    BY <2>1, <2>2, <2>4, <2>5 DEF TypeOK
  <2>6a. /\ \A j \in Ids \ {i} : owner'[j] = owner[j] /\ status'[j] = status[j]
         /\ owner[i] = None /\ owner'[i] = w /\ w # None
    BY <2>1, BudgetAssumption DEF Claim, Fresh, TypeOK
  <2>7. Linked'
    <3>1. pc'[w] = "prompting" /\ cur'[w] = i /\ i \notin adaptive
      BY <2>1, <2>2, <2>6a DEF Linked, TypeOK
    <3>2. \A x \in Workstreams \ {w} : pc'[x] = pc[x] /\ cur'[x] = cur[x]
      BY <2>1, <2>2 DEF TypeOK
    <3>3. \A j \in Ids : owner'[j] = None
            => status'[j] # "reserved" /\ stored'[j] # "reserved" /\ j \notin adaptive'
      BY <2>2, <2>4, <2>6a DEF Linked
    <3>4. ASSUME NEW x \in Workstreams, pc'[x] = "prompting"
          PROVE  /\ cur'[x] \in Ids /\ owner'[cur'[x]] = x
                 /\ cur'[x] \in adaptive' => given'[cur'[x]] # None
      <4>1. CASE x = w
        BY <2>2, <2>6a, <3>1, <4>1
      <4>2. CASE x # w
        <5>1. pc[x] = "prompting" /\ cur'[x] = cur[x] /\ x # None
          BY <3>2, <3>4, <4>2, BudgetAssumption
        <5>2. /\ cur[x] \in Ids /\ owner[cur[x]] = x
              /\ cur[x] \in adaptive => given[cur[x]] # None
          BY <5>1 DEF Linked
        <5>3. cur[x] # i
          BY <2>6a, <5>1, <5>2
        <5> QED
          BY <2>2, <2>6a, <5>1, <5>2, <5>3
      <4> QED
        BY <4>1, <4>2
    <3>5. \A x \in Workstreams : pc'[x] # "prompting" => cur'[x] = None
      BY <3>1, <3>2 DEF Linked
    <3>6. \A x \in Workstreams : fact'[x].unused > 0 => fact'[x].id \in Ids
      BY <2>2 DEF Linked
    <3> QED
      BY <3>3, <3>4, <3>5, <3>6 DEF Linked
  <2>7a. Settled'
    <3>1. \A j \in CommittedIds : owner'[j] = owner[j] /\ status'[j] = status[j]
      BY <2>4, <2>6a DEF CommittedIds, TypeOK
    <3>2. \A x \in Workstreams : pc[x] # "idle" => pc'[x] = pc[x]
      BY <2>2 DEF TypeOK
    <3> QED
      BY <2>2, <3>1, <3>2, SettledStays
  <2>7b. AccountInv'
    BY <2>4, <2>6, <2>7, <2>7a
  <2>8. Fits
    <3> HIDE DEF AccountInv
    <3> QED
      BY <2>1, <2>3, <2>7b, GrantFits DEF Fits
  <2> QED
    BY <2>7b, <2>8
<1>4. ASSUME NEW w \in Workstreams, NEW r \in Reasons, Terminate(w, r), restarts' = restarts,
             UNCHANGED <<taken, half>>, pc[w] # "done", pc' = [pc EXCEPT ![w] = "done"],
             (cur' = cur /\ pc[w] # "prompting") \/ cur' = [cur EXCEPT ![w] = None],
             fact' = fact \/ fact' = [fact EXCEPT ![w] = NoFact]
      PROVE  AccountInv' /\ Fits
  <2>1. /\ Accounted' /\ ConsumedIsDurable'
        /\ UNCHANGED <<owner, claimed, consumed, stopped, sessConsumed, usage, reclaim, given, adaptive>>
        /\ status' \in [Ids -> {None, "reserved", "committed", "cancelled"}]
        /\ reserved' \in Nat /\ sessReserved' \in [Workstreams -> Nat]
        /\ stored' \in [Ids -> {None, "reserved", "cancelled"}]
        /\ ended' \in [Workstreams -> BOOLEAN]
        /\ terminated' \subseteq Workstreams \X Reasons
        /\ \A i \in Ids : /\ status'[i] = "reserved" => status[i] = "reserved"
                          /\ stored'[i] = "reserved" => stored[i] = "reserved"
    BY <1>4, TerminateAccounts
  <2>2. /\ pc' \in [Workstreams -> {"idle", "prompting", "verifying", "done"}]
        /\ cur' \in [Workstreams -> Ids \cup {None}]
        /\ fact' \in [Workstreams -> [id : Ids \cup {None}, unused : Nat]]
    <3>1. NoFact \in [id : Ids \cup {None}, unused : Nat]
      BY DEF NoFact
    <3>2. pc' \in [Workstreams -> {"idle", "prompting", "verifying", "done"}]
      BY <1>4 DEF TypeOK
    <3>3. cur' \in [Workstreams -> Ids \cup {None}]
      BY <1>4 DEF TypeOK
    <3>4. fact' \in [Workstreams -> [id : Ids \cup {None}, unused : Nat]]
      BY <1>4, <3>1 DEF TypeOK
    <3> QED
      BY <3>2, <3>3, <3>4
  <2>3. TypeOK'
    BY <1>4, <2>1, <2>2 DEF TypeOK
  <2>4. /\ pc'[w] = "done" /\ cur'[w] = None
        /\ \A x \in Workstreams \ {w} : pc'[x] = pc[x] /\ cur'[x] = cur[x]
    BY <1>4 DEF Linked, TypeOK
  <2>5. \A x \in Workstreams : fact'[x].unused > 0 => fact'[x].id \in Ids
    BY <1>4 DEF Linked, TypeOK, NoFact
  <2>6. Linked'
    <3>1. \A i \in Ids : owner'[i] = None
            => status'[i] # "reserved" /\ stored'[i] # "reserved" /\ i \notin adaptive'
      BY <2>1 DEF Linked
    <3> QED
      BY <2>1, <2>4, <2>5, <3>1 DEF Linked
  <2>6a. Settled'
    <3>1. \A i \in CommittedIds : status'[i] = "reserved" => status[i] = "reserved"
      BY <2>1 DEF CommittedIds, TypeOK
    <3>2. \A x \in Workstreams : pc[x] # "idle" => pc'[x] \in {pc[x], "done"}
      BY <2>4
    <3> QED
      BY <2>1, <3>1, <3>2, SettledStays
  <2>7. Fits
    BY <2>1, QuietFits
  <2> QED
    BY <2>1, <2>3, <2>6, <2>6a, <2>7
<1>5. ASSUME NEW w \in Workstreams, ReserveRefused(w) PROVE AccountInv' /\ Fits
  BY <1>4, <1>5 DEF ReserveRefused, CanReserve, Reasons
<1>6. ASSUME NEW w \in Workstreams, NEW r \in Reasons, PromptFails(w, r) PROVE AccountInv' /\ Fits
  BY <1>4, <1>6 DEF PromptFails
<1>7. ASSUME NEW w \in Workstreams, VerificationFails(w) PROVE AccountInv' /\ Fits
  BY <1>4, <1>7 DEF VerificationFails, Reasons
<1>8. ASSUME NEW w \in Workstreams, Reconcile(w) PROVE AccountInv' /\ Fits
  BY <1>8, ReconcileAccounts
<1>9. ASSUME NEW w \in Workstreams, Verified(w) PROVE AccountInv' /\ Fits
  <2>1. /\ UNCHANGED <<controller, store, cur, taken, fact, half, restarts>>
        /\ pc[w] = "verifying" /\ pc' = [pc EXCEPT ![w] = "done"]
    BY <1>9 DEF Verified
  <2>2. ConsumedIsDurable'
    BY <2>1, ChargesStay DEF controller, store
  <2>3. Accounted'
    BY <2>1 DEF Accounted, ReservedBy, Reserved, CommittedIds, controller, store
  <2>4. TypeOK' /\ Linked'
    <3>1. TypeOK'
      BY <2>1 DEF TypeOK, controller, store
    <3>2. pc'[w] = "done" /\ \A x \in Workstreams \ {w} : pc'[x] = pc[x]
      BY <2>1 DEF TypeOK
    <3> QED
      BY <2>1, <3>1, <3>2 DEF Linked, controller, store
  <2>4a. Settled'
    <3>1. UNCHANGED <<usage, status, owner, adaptive, given>>
      BY <2>1 DEF controller, store
    <3>2. \A x \in Workstreams : pc[x] # "idle" => pc'[x] \in {pc[x], "done"}
      BY <2>1 DEF TypeOK
    <3> QED
      BY <3>1, <3>2, SettledStays
  <2>5. Fits
    BY <2>1, QuietFits DEF store
  <2> QED
    BY <2>2, <2>3, <2>4, <2>4a, <2>5
<1>10. ASSUME NEW x \in Workstreams, NEW w \in Workstreams, Redistribute(x, w) PROVE AccountInv' /\ Fits
  <2> DEFINE n == fact[x].unused
  <2>1. PICK j \in Ids : /\ Fresh(j) /\ Claim(w, j, n)
                         /\ half' = [id |-> j, src |-> fact[x].id] /\ adaptive' = adaptive \cup {j}
    BY <1>10 DEF Redistribute
  <2>2. /\ n > 0 /\ Allowed(w, n) /\ fact' = [fact EXCEPT ![x] = NoFact]
        /\ UNCHANGED <<pc, cur, taken, usage, reclaim, given, terminated, restarts>>
    BY <1>10 DEF Redistribute
  <2>3. n \in Nat /\ fact[x].id \in Ids
    BY <2>2 DEF TypeOK, Linked
  <2> HIDE DEF n
  <2>4. /\ Accounted' /\ ConsumedIsDurable' /\ j \notin CommittedIds
        /\ status' \in [Ids -> {None, "reserved", "committed", "cancelled"}]
        /\ owner' \in [Ids -> Workstreams \cup {None}] /\ claimed' \in [Ids -> Nat]
        /\ reserved' \in Nat /\ sessReserved' \in [Workstreams -> Nat]
        /\ stored' \in [Ids -> {None, "reserved", "cancelled"}]
        /\ \A k \in Ids : owner'[k] = None => status'[k] # "reserved" /\ stored'[k] # "reserved"
    BY <2>1, <2>2, <2>3, ClaimAccounts
  <2>5. UNCHANGED <<consumed, stopped, sessConsumed, ended>>
    BY <2>1 DEF Claim
  <2>6. /\ half' \in [id : Ids, src : Ids] \cup {None} /\ adaptive' \subseteq Ids
        /\ fact' \in [Workstreams -> [id : Ids \cup {None}, unused : Nat]]
    BY <2>1, <2>2, <2>3 DEF TypeOK, NoFact
  <2>7. TypeOK'
    BY <2>2, <2>4, <2>5, <2>6 DEF TypeOK
  <2>8. \A y \in Workstreams : fact'[y].unused > 0 => fact'[y].id \in Ids
    BY <2>2 DEF Linked, TypeOK, NoFact
  <2>8a. /\ \A k \in Ids \ {j} : owner'[k] = owner[k] /\ status'[k] = status[k]
         /\ owner[j] = None /\ owner'[j] = w /\ w # None
    BY <2>1, BudgetAssumption DEF Claim, Fresh, TypeOK
  <2>9. Linked'
    <3>1. \A k \in Ids : owner'[k] = None
            => status'[k] # "reserved" /\ stored'[k] # "reserved" /\ k \notin adaptive'
      BY <2>1, <2>4, <2>8a DEF Linked
    <3>2. ASSUME NEW y \in Workstreams, pc'[y] = "prompting"
          PROVE  /\ cur'[y] \in Ids /\ owner'[cur'[y]] = y
                 /\ cur'[y] \in adaptive' => given'[cur'[y]] # None
      <4>1. /\ cur[y] \in Ids /\ owner[cur[y]] = y /\ y # None
            /\ cur[y] \in adaptive => given[cur[y]] # None
        BY <2>2, <3>2, BudgetAssumption DEF Linked
      <4>2. cur[y] # j
        BY <2>8a, <4>1
      <4> QED
        BY <2>1, <2>2, <2>8a, <4>1, <4>2
    <3>3. \A y \in Workstreams : pc'[y] # "prompting" => cur'[y] = None
      BY <2>2 DEF Linked
    <3> QED
      BY <2>8, <3>1, <3>2, <3>3 DEF Linked
  <2>9a. Settled'
    <3>1. \A k \in CommittedIds : owner'[k] = owner[k] /\ status'[k] = status[k]
      BY <2>4, <2>8a DEF CommittedIds, TypeOK
    <3>2. \A k \in CommittedIds : k \in adaptive' => k \in adaptive
      BY <2>1, <2>4
    <3> QED
      BY <2>2, <3>1, <3>2, SettledStays
  <2>9b. AccountInv'
    BY <2>4, <2>7, <2>9, <2>9a
  <2>10. Fits
    <3> HIDE DEF AccountInv
    <3> QED
      BY <2>1, <2>2, <2>3, <2>9b, GrantFits DEF Fits
  <2> QED
    BY <2>9b, <2>10
<1>11. CASE RecoverOrphans
  <2>1. /\ Release(Orphans)
        /\ UNCHANGED <<consumed, stopped, sessConsumed, ended, owner, claimed, usage,
                       reclaim, given, adaptive, terminated, executor, restarts>>
    BY <1>11 DEF RecoverOrphans
  <2>2. Orphans \in SUBSET Reserved /\ Orphans \cap CommittedIds = {}
    BY DEF Orphans, Given, Reserved, Settled
  <2>3. /\ Accounted' /\ reserved' \in Nat /\ sessReserved' \in [Workstreams -> Nat]
        /\ status' \in [Ids -> {None, "reserved", "committed", "cancelled"}]
        /\ stored' \in [Ids -> {None, "reserved", "cancelled"}]
        /\ \A i \in Ids : /\ status'[i] = "reserved" => status[i] = "reserved"
                          /\ stored'[i] = "reserved" => stored[i] = "reserved"
    BY <2>1, <2>2, ReleaseAccounts
  <2>4. ConsumedIsDurable'
    BY <2>1, ChargesStay
  <2>5. TypeOK'
    BY <2>1, <2>3 DEF TypeOK, executor
  <2>6. Linked'
    BY <2>1, <2>3 DEF Linked, executor
  <2>6a. Settled'
    <3>1. \A i \in CommittedIds : status'[i] = "reserved" => status[i] = "reserved"
      BY <2>3 DEF CommittedIds, TypeOK
    <3> QED
      BY <2>1, <3>1, SettledStays DEF executor
  <2>7. Fits
    BY <2>1, QuietFits
  <2> QED
    BY <2>3, <2>4, <2>5, <2>6, <2>6a, <2>7
<1>12. CASE RecordRedistribution
  <2>1. /\ half # None
        /\ given' = [given EXCEPT ![half.id] = half.src] /\ half' = None
        /\ UNCHANGED <<controller, owner, claimed, stored, usage, reclaim, adaptive,
                       terminated, pc, cur, taken, fact, restarts>>
    BY <1>12 DEF RecordRedistribution
  <2>2. ConsumedIsDurable'
    BY <2>1, ChargesStay DEF controller
  <2>3. Accounted'
    BY <2>1 DEF Accounted, ReservedBy, Reserved, CommittedIds, controller
  <2>4. /\ given' \in [Ids -> Ids \cup {None}]
        /\ \A i \in Ids : given[i] # None => given'[i] # None
    BY <2>1, BudgetAssumption DEF TypeOK
  <2>5. TypeOK'
    BY <2>1, <2>4 DEF TypeOK, controller
  <2>5a. Linked'
    BY <2>1, <2>4 DEF Linked, controller
  <2>5b. Settled'
    <3>1. \A i \in CommittedIds : given[i] # None => given'[i] # None
      BY <2>4 DEF CommittedIds, TypeOK
    <3> QED
      BY <2>1, <3>1, SettledStays DEF controller
  <2>6. Fits
    BY <2>1, QuietFits
  <2> QED
    BY <2>2, <2>3, <2>5, <2>5a, <2>5b, <2>6
<1>13. CASE Restart
  BY <1>13, RestartAccounts
<1> QED
  BY <1>1, <1>2, <1>3, <1>5, <1>6, <1>7, <1>8, <1>9, <1>10, <1>11, <1>12, <1>13 DEF Next

\* The account of a run that has spent nothing is balanced.
LEMMA AccountInit == Init => AccountInv
<1> SUFFICES ASSUME Init PROVE AccountInv
  OBVIOUS
<1>1. TypeOK
  <2>1. restarts \in 0 .. MaxRestarts
    BY BudgetAssumption DEF Init
  <2>2. /\ fact \in [Workstreams -> [id : Ids \cup {None}, unused : Nat]]
        /\ usage \in [Messages -> [ws : Workstreams \cup {None}, id : Ids \cup {None}, billable : Nat]]
    BY DEF Init, NoFact, Unused
  <2> QED
    BY <2>1, <2>2 DEF Init, TypeOK
<1>2. \A i \in Ids : status[i] # "reserved" /\ stored[i] # "reserved"
  BY BudgetAssumption DEF Init
<1>3. Linked /\ Settled
  <2>1. Linked
    BY <1>2 DEF Init, Linked, NoFact
  <2>2. CommittedIds = {}
    BY DEF Init, CommittedIds, Unused
  <2> QED
    BY <2>1, <2>2 DEF Settled
<1>4. Accounted
  <2>1. Reserved \ CommittedIds = {} /\ \A w \in Workstreams : ReservedBy(w) = {}
    BY <1>2 DEF Reserved, ReservedBy
  <2> QED
    BY <2>1, SumEmpty DEF Init, Accounted
<1>5. ConsumedIsDurable
  <2> DEFINE f == [m \in Messages |-> usage[m].billable]
  <2>1. \A w \in Workstreams : Charged(w) = {}
    BY BudgetAssumption DEF Init, Charged, Unused
  <2>2. \A w \in Workstreams : Billed(Charged(w)) = 0
    BY <2>1, SumEmpty DEF Billed
  <2>3. \A m \in Messages : f[m] = 0
    BY DEF Init, Unused
  <2>4. Billed(Messages) = 0
    <3> HIDE DEF f
    <3> DEFINE T == {U \in SUBSET Messages : SumOver(f, U) # 0}
    <3>1. T = {}
      <4> SUFFICES ASSUME T # {} PROVE FALSE
        OBVIOUS
      <4>1. PICK U \in T : \A V \in T : V \subseteq U => V = U
        <5>1. T \subseteq SUBSET Messages
          OBVIOUS
        <5> HIDE DEF T
        <5> QED
          BY <5>1, BudgetAssumption, SmallestSubset
      <4>2. U \in SUBSET Messages /\ SumOver(f, U) # 0
        BY <4>1
      <4>3. U # {} /\ IsFiniteSet(U)
        BY <4>2, SumEmpty, BudgetAssumption, FS_Subset
      <4>4. Pick(U) \in U
        BY <4>3, PickIn
      <4>5. SumOver(f, U \ {Pick(U)}) = 0
        BY <4>1, <4>2, <4>4
      <4>6. SumOver(f, U) = f[Pick(U)] + SumOver(f, U \ {Pick(U)})
        BY <4>3, SumPick
      <4>7. f[Pick(U)] = 0
        BY <2>3, <4>2, <4>4
      <4> QED
        BY <4>2, <4>5, <4>6, <4>7
    <3>2. SumOver(f, Messages) = 0
      BY <3>1
    <3> QED
      BY <3>2 DEF Billed, f
  <2> QED
    BY <2>2, <2>4 DEF Init, ConsumedIsDurable
<1> QED
  BY <1>1, <1>3, <1>4, <1>5 DEF AccountInv

\* The inductive invariant of the accounts, in every process: besides the
\* balance, a committed reservation stays with a workstream that is past its
\* prompt, so a rebuild may reopen it but no grant is made on it again.
THEOREM BudgetInvariant == Spec => []AccountInv
<1>1. AccountInv /\ [Next]_vars => AccountInv'
  BY AccountStep
<1> QED
  BY <1>1, AccountInit, PTL DEF Spec

\* The budget's state keeps its type: no total goes below zero, whatever is
\* cancelled, committed late or rebuilt.
THEOREM BudgetTypes == Spec => []TypeOK
<1>1. AccountInv => TypeOK
  BY DEF AccountInv
<1> QED
  BY <1>1, BudgetInvariant, PTL

\* What the controller charges to the run and to every session is what the
\* usage records of the store add up to, across every restart.
THEOREM BudgetDurable == Spec => []ConsumedIsDurable
<1>1. AccountInv => ConsumedIsDurable
  BY DEF AccountInv
<1> QED
  BY <1>1, BudgetInvariant, PTL

\* The totals the ceilings are checked against are the sums of the open
\* reservations: every commit, cancellation, hard stop and orphan recovery
\* gives a claim back once, and a rebuild neither loses nor repeats one.
THEOREM BudgetAccounted == Spec => []Accounted
<1>1. AccountInv => Accounted
  BY DEF AccountInv
<1> QED
  BY <1>1, BudgetInvariant, PTL

\* Every grant, redistributed or new, of the first process or of a later one,
\* leaves what is spent and promised within the run's ceiling.
THEOREM BudgetCeiling == Spec => GrantsWithinCeiling
<1>1. AccountInv /\ [Next]_vars
        => [(owner' # owner) => (consumed' + Promised' <= RunTotal)]_vars
  BY AccountStep DEF Fits
<1> QED
  BY <1>1, BudgetInvariant, PTL DEF Spec, GrantsWithinCeiling

-----------------------------------------------------------------------------
(* The end of a run, across restarts. *)

\* What the store holds open is open in the controller or settled by a usage
\* record, so that a rebuild after the stop reopens only what was settled.
Backed ==
  /\ \A i \in Ids : stored[i] = "reserved" => claimed[i] > 0
  /\ ActiveIds \subseteq Reserved \cup CommittedIds

StopInv == Backed /\ (stopped => Reserved \subseteq CommittedIds)

\* a step that touches no reservation
LEMMA QuietStop ==
  ASSUME StopInv, UNCHANGED <<status, stored, claimed, usage, stopped>>
  PROVE  StopInv'
BY DEF StopInv, Backed, ActiveIds, Reserved, CommittedIds

\* cancelling reservations cancels them in the store too
LEMMA ReleaseStop ==
  ASSUME StopInv, NEW S, Release(S), UNCHANGED <<claimed, usage, stopped>>
  PROVE  StopInv'
<1>1. \A i \in Ids : /\ i \in S => status'[i] # "reserved" /\ stored'[i] # "reserved"
                     /\ i \notin S => status'[i] = status[i] /\ stored'[i] = stored[i]
  BY DEF Release
<1>2. CommittedIds' = CommittedIds
  BY DEF CommittedIds
<1> QED
  BY <1>1, <1>2 DEF StopInv, Backed, ActiveIds, Reserved

\* a grant is open in both, and made by a run that is not stopped
LEMMA ClaimStop ==
  ASSUME AccountInv, StopInv, NEW w, NEW i \in Ids, NEW n \in Nat, n > 0,
         Allowed(w, n), Claim(w, i, n), usage' = usage
  PROVE  StopInv'
<1>1. /\ \A j \in Ids \ {i} : /\ status'[j] = status[j] /\ stored'[j] = stored[j]
                              /\ claimed'[j] = claimed[j]
      /\ status'[i] = "reserved" /\ claimed'[i] = n
  BY DEF Claim, AccountInv, TypeOK
<1>2. ~stopped' /\ CommittedIds' = CommittedIds
  BY DEF Claim, Allowed, CommittedIds
<1> QED
  BY <1>1, <1>2 DEF StopInv, Backed, ActiveIds, Reserved

\* termination is a release or nothing
LEMMA TerminateStop ==
  ASSUME StopInv, NEW w, NEW r, Terminate(w, r)
  PROVE  StopInv'
<1>1. UNCHANGED <<claimed, usage>>
  BY DEF Terminate
<1>2. CASE <<w, r>> \in terminated
  BY <1>1, <1>2, QuietStop DEF Terminate, controller
<1>3. CASE <<w, r>> \notin terminated
  <2>1. Release(ReservedBy(w)) /\ stopped' = stopped
    BY <1>3 DEF Terminate, CancelSession
  <2> QED
    BY <1>1, <2>1, ReleaseStop
<1> QED
  BY <1>2, <1>3

\* the stop cancels, in the store, all but the reservation it settles
LEMMA ReconcileStop ==
  ASSUME AccountInv, StopInv, NEW w \in Workstreams, Reconcile(w)
  PROVE  StopInv'
<1> DEFINE i == cur[w]
           back == IF status[i] = "reserved" THEN {i} ELSE {}
<1>1. PICK m \in Messages, u \in Usages :
       LET stop == ~stopped /\ consumed + u >= StopAt
           rest == IF stop THEN Reserved \ {i} ELSE {}
       IN
       /\ NewMessage(m)
       /\ usage' = [usage EXCEPT ![m] = [ws |-> w, id |-> i, billable |-> u]]
       /\ consumed' = consumed + u
       /\ sessConsumed' = [sessConsumed EXCEPT ![w] = @ + u]
       /\ stopped' = (stopped \/ stop)
       /\ status' = [j \in Ids |-> IF j \in back THEN "committed"
                                   ELSE IF j \in rest THEN "cancelled" ELSE status[j]]
       /\ stored' = [j \in Ids |-> IF j \in rest THEN "cancelled" ELSE stored[j]]
       /\ reserved' = Monus(reserved, SumOver(claimed, back \cup rest))
       /\ sessReserved' = [x \in Workstreams |->
            Monus(sessReserved[x], SumOver(claimed, {j \in back \cup rest : owner[j] = x}))]
       /\ reclaim' = [reclaim EXCEPT ![i] = @ + (IF status[i] = "reserved"
                                                   THEN Monus(claimed[i], u) ELSE 0)]
       /\ fact' = [fact EXCEPT ![w] = [id |-> i, unused |-> Monus(claimed[i], u)]]
  BY DEF Reconcile
<1> DEFINE stop == ~stopped /\ consumed + u >= StopAt
           rest == IF stop THEN Reserved \ {i} ELSE {}
<1>2. i \in Ids /\ claimed' = claimed
  BY DEF Reconcile, AccountInv, Linked
<1>3. CommittedIds' = CommittedIds \cup {i}
  <2>1. /\ usage[m].id = None /\ usage'[m].id = i
        /\ \A k \in Messages \ {m} : usage'[k] = usage[k]
    BY <1>1 DEF NewMessage, AccountInv, TypeOK, Unused
  <2>2. i # None
    BY <1>2, BudgetAssumption
  <2> HIDE DEF i
  <2> QED
    BY <2>1, <2>2 DEF CommittedIds
<1>4. /\ stopped' = (stopped \/ stop)
      /\ status' = [j \in Ids |-> IF j \in back THEN "committed"
                                  ELSE IF j \in rest THEN "cancelled" ELSE status[j]]
      /\ stored' = [j \in Ids |-> IF j \in rest THEN "cancelled" ELSE stored[j]]
  BY <1>1
<1>5. back \subseteq {i} /\ (stop => Reserved \subseteq rest \cup {i})
  OBVIOUS
<1> HIDE DEF back, rest, stop, i
<1>6. \A j \in Ids : /\ status'[j] = "reserved" => status[j] = "reserved" /\ j \notin rest
                     /\ stored'[j] = "reserved" => stored[j] = "reserved" /\ j \notin rest
                     /\ j \notin {i} \cup rest => status'[j] = status[j]
  BY <1>4, <1>5
<1>7. Backed'
  BY <1>2, <1>3, <1>6 DEF StopInv, Backed, ActiveIds, Reserved
<1>8. ASSUME stopped' PROVE Reserved' \subseteq CommittedIds'
  <2>1. stopped \/ stop
    BY <1>4, <1>8
  <2> QED
    BY <2>1, <1>3, <1>5, <1>6 DEF StopInv, Reserved
<1> QED
  BY <1>7, <1>8 DEF StopInv

\* the rebuild reopens what the store holds open, or finds nothing unsettled
LEMMA RestartStop ==
  ASSUME AccountInv, StopInv, Restart
  PROVE  StopInv'
<1>1. /\ status' = [i \in Ids |-> IF i \in RebuiltIds THEN "reserved" ELSE None]
      /\ stopped' = stopped /\ UNCHANGED <<stored, claimed, usage>>
  BY DEF Restart, store
<1>2. CommittedIds' = CommittedIds /\ ActiveIds' = ActiveIds
  BY <1>1 DEF CommittedIds, ActiveIds
<1>3. Reserved' = RebuiltIds /\ RebuiltIds \subseteq ActiveIds
  BY <1>1, BudgetAssumption DEF Reserved, RebuiltIds, ActiveIds
<1>4. ActiveIds \subseteq RebuiltIds \cup CommittedIds
  <2>1. CASE RebuiltReserved > 0
    BY <2>1 DEF RebuiltIds
  <2>2. CASE ~(RebuiltReserved > 0)
    <3> DEFINE A == ActiveIds \ CommittedIds
    <3>1. A \in SUBSET Ids
      BY DEF ActiveIds
    <3>2. ASSUME NEW j \in A PROVE FALSE
      <4>1. claimed[j] > 0 /\ j \in Ids
        BY DEF StopInv, Backed, ActiveIds
      <4>2. claimed \in [Ids -> Nat]
        BY DEF AccountInv, TypeOK
      <4> HIDE DEF A
      <4>3. IsFiniteSet(A) /\ SumOver(claimed, A) \in Nat /\ SumOver(claimed, A \ {j}) \in Nat
        BY <3>1, ClaimSums DEF AccountInv
      <4>4. SumOver(claimed, A) = claimed[j] + SumOver(claimed, A \ {j})
        BY <3>1, <3>2, <4>2, <4>3, SumRemove
      <4>5. claimed[j] \in Nat
        BY <4>1, <4>2
      <4>6. SumOver(claimed, A) > 0
        BY <4>1, <4>3, <4>4, <4>5
      <4> QED
        BY <2>2, <4>6 DEF A, RebuiltReserved
    <3> QED
      BY <3>2
  <2> QED
    BY <2>1, <2>2
<1> QED
  BY <1>1, <1>2, <1>3, <1>4 DEF StopInv, Backed

\* every step keeps it
LEMMA StopStep ==
  ASSUME AccountInv, StopInv, [Next]_vars
  PROVE  StopInv'
<1>1. CASE UNCHANGED vars
  BY <1>1, QuietStop DEF vars, controller, store
<1>2. ASSUME NEW w \in Workstreams, ReserveGiven(w) PROVE StopInv'
  BY <1>2, QuietStop DEF ReserveGiven, controller, store
<1>3. ASSUME NEW w \in Workstreams, ReserveNew(w) PROVE StopInv'
  <2>1. PICK n \in Needs, i \in Ids : Allowed(w, n) /\ Claim(w, i, n)
    BY <1>3 DEF ReserveNew
  <2>2. usage' = usage /\ n \in Nat /\ n > 0
    BY <1>3, BudgetAssumption DEF ReserveNew
  <2> QED
    BY <2>1, <2>2, ClaimStop
<1>4. ASSUME NEW w \in Workstreams, ReserveRefused(w) PROVE StopInv'
  BY <1>4, TerminateStop DEF ReserveRefused
<1>5. ASSUME NEW w \in Workstreams, Reconcile(w) PROVE StopInv'
  BY <1>5, ReconcileStop
<1>6. ASSUME NEW w \in Workstreams, Verified(w) PROVE StopInv'
  BY <1>6, QuietStop DEF Verified, controller, store
<1>7. ASSUME NEW w \in Workstreams, VerificationFails(w) PROVE StopInv'
  BY <1>7, TerminateStop DEF VerificationFails
<1>8. ASSUME NEW w \in Workstreams, NEW r \in Reasons, PromptFails(w, r) PROVE StopInv'
  BY <1>8, TerminateStop DEF PromptFails
<1>9. ASSUME NEW x \in Workstreams, NEW w \in Workstreams, Redistribute(x, w) PROVE StopInv'
  <2> DEFINE n == fact[x].unused
  <2>1. PICK j \in Ids : Claim(w, j, n)
    BY <1>9 DEF Redistribute
  <2>2. Allowed(w, n) /\ n > 0 /\ usage' = usage
    BY <1>9 DEF Redistribute
  <2>3. n \in Nat
    BY DEF AccountInv, TypeOK
  <2> HIDE DEF n
  <2> QED
    BY <2>1, <2>2, <2>3, ClaimStop
<1>10. CASE RecoverOrphans
  BY <1>10, ReleaseStop DEF RecoverOrphans
<1>11. CASE RecordRedistribution
  BY <1>11, QuietStop DEF RecordRedistribution, controller
<1>12. CASE Restart
  BY <1>12, RestartStop
<1> QED
  BY <1>1, <1>2, <1>3, <1>4, <1>5, <1>6, <1>7, <1>8, <1>9, <1>10, <1>11, <1>12 DEF Next

\* A terminated session holds no reservation, and a stopped run none but
\* settled ones that a rebuild has reopened: for any number of workstreams,
\* reservations and restarts, whatever the prompts use and the ceilings are.
THEOREM BudgetEnded == Spec => []EndedHoldsNothing
<1>1. BudgetInv /\ [Next]_vars => BudgetInv'
  BY BudgetStep
<1>2. AccountInv /\ StopInv /\ [Next]_vars => StopInv'
  BY StopStep
<1>3. Init => StopInv
  <2>1. Init => \A i \in Ids : status[i] # "reserved" /\ stored[i] # "reserved"
    BY BudgetAssumption DEF Init
  <2> QED
    BY <2>1 DEF StopInv, Backed, ActiveIds, Reserved
<1>4. BudgetInv /\ StopInv => EndedHoldsNothing
  BY DEF BudgetInv, EndedSessions, StopInv, EndedHoldsNothing
<1> QED
  BY <1>1, <1>2, <1>3, <1>4, BudgetInit, BudgetInvariant, PTL DEF Spec

=============================================================================
