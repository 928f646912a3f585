--------------------------- MODULE LimiterProofs ---------------------------
(***************************************************************************)
(* Proofs about one concurrency ceiling, for any set of requests, weights, *)
(* ceilings and queue bounds.                                              *)
(***************************************************************************)
EXTENDS Limiter, FiniteSetTheorems, TLAPS

-----------------------------------------------------------------------------
(* Helpers                                                                 *)

\* min() of two counts, as limiter.rs uses it, is one of them and bounded by both.
LEMMA MinOfTwo ==
    ASSUME NEW x \in Nat, NEW y \in Nat
    PROVE  /\ Min({x, y}) \in {x, y}
           /\ Min({x, y}) \in Nat
           /\ Min({x, y}) <= x /\ Min({x, y}) <= y
<1>1. \E z \in {x, y} : \A w \in {x, y} : z =< w
  <2>1. CASE x <= y
    BY <2>1
  <2>2. CASE y <= x
    BY <2>2
  <2>. QED
    BY <2>1, <2>2
<1>. QED
  BY <1>1 DEF Min

\* The weights as numbers.
LEMMA WeightType ==
    \A r \in Requests : Weight[r] \in Nat /\ Weight[r] >= 1 /\ Weight[r] <= MaxWeight
BY WeightAssumption

\* A number of units of one request, as a set of pairs, counts as that number.
LEMMA UnitsOfOne ==
    ASSUME NEW r, NEW n \in Nat
    PROVE  IsFiniteSet({r} \X (1 .. n)) /\ Cardinality({r} \X (1 .. n)) = n
<1>1. IsFiniteSet({r}) /\ Cardinality({r}) = 1
  BY FS_Singleton
<1>2. IsFiniteSet(1 .. n) /\ Cardinality(1 .. n) = n
  BY FS_Interval
<1>3. /\ IsFiniteSet({r} \X (1 .. n))
      /\ Cardinality({r} \X (1 .. n)) = Cardinality({r}) * Cardinality(1 .. n)
  BY <1>1, <1>2, FS_Product, Zenon
<1>. QED
  BY <1>1, <1>2, <1>3

\* Changing what one request owns changes the units owned altogether by the
\* same amount: the step every hand-over of permits rests on.
LEMMA OwnedUpdate ==
    ASSUME NEW f \in [Requests -> Nat], NEW r \in Requests, NEW n \in Nat,
           \A q \in Requests : f[q] <= MaxWeight, n <= MaxWeight
    PROVE  /\ IsFiniteSet(Owned(f))
           /\ Cardinality(Owned([f EXCEPT ![r] = n])) = Cardinality(Owned(f)) - f[r] + n
<1>. DEFINE g == [f EXCEPT ![r] = n]
            Rest == {u \in Owned(f) : u[1] # r}
            Mine(k) == {r} \X (1 .. k)
<1>1. Owned(f) = Rest \cup Mine(f[r]) /\ Rest \cap Mine(f[r]) = {}
  BY WeightAssumption DEF Owned
<1>2. Owned(g) = Rest \cup Mine(n) /\ Rest \cap Mine(n) = {}
  <2>1. Owned(g) \subseteq Rest \cup Mine(n)
    BY WeightAssumption DEF Owned
  <2>2. Rest \cup Mine(n) \subseteq Owned(g)
    BY WeightAssumption DEF Owned
  <2>. QED
    BY <2>1, <2>2
<1>3. IsFiniteSet(Owned(f))
  <2>1. IsFiniteSet(Requests \X (1 .. MaxWeight))
    <3>1. IsFiniteSet(Requests) /\ IsFiniteSet(1 .. MaxWeight)
      BY RequestsAssumption, WeightAssumption, FS_Interval
    <3>. QED
      BY <3>1, FS_Product, Zenon
  <2>. QED
    BY <2>1, FS_Subset DEF Owned
<1>4. IsFiniteSet(Rest)
  BY <1>3, FS_Subset
<1>5. /\ IsFiniteSet(Mine(f[r])) /\ Cardinality(Mine(f[r])) = f[r]
      /\ IsFiniteSet(Mine(n)) /\ Cardinality(Mine(n)) = n
  BY UnitsOfOne
<1>. HIDE DEF g, Rest, Mine
<1>6. Cardinality(Owned(f)) = Cardinality(Rest) + f[r]
  <2>1. Cardinality(Rest \cup Mine(f[r])) = Cardinality(Rest) + Cardinality(Mine(f[r])) - Cardinality({})
    BY <1>1, <1>4, <1>5, FS_Union
  <2>. QED
    BY <2>1, <1>1, <1>4, <1>5, FS_EmptySet, FS_CardinalityType
<1>7. Cardinality(Owned(g)) = Cardinality(Rest) + n
  <2>1. Cardinality(Rest \cup Mine(n)) = Cardinality(Rest) + Cardinality(Mine(n)) - Cardinality({})
    BY <1>2, <1>4, <1>5, FS_Union
  <2>. QED
    BY <2>1, <1>2, <1>4, <1>5, FS_EmptySet, FS_CardinalityType
<1>8. Cardinality(Rest) \in Nat
  BY <1>4, FS_CardinalityType
<1>. QED
  BY <1>3, <1>6, <1>7, <1>8 DEF g

\* Moving one request to another stage changes the number of slot holders by
\* what the move says.
LEMMA SlotsUpdate ==
    ASSUME NEW p \in [Requests -> Stages], NEW r \in Requests, NEW s \in Stages
    PROVE  LET old == InStages(p, SlotStages)
               new == InStages([p EXCEPT ![r] = s], SlotStages)
           IN  /\ Cardinality(old) \in Nat
               /\ (p[r] \in SlotStages <=> s \in SlotStages) => Cardinality(new) = Cardinality(old)
               /\ p[r] \notin SlotStages /\ s \in SlotStages => Cardinality(new) = Cardinality(old) + 1
               /\ p[r] \in SlotStages /\ s \notin SlotStages =>
                    Cardinality(new) = Cardinality(old) - 1 /\ Cardinality(old) >= 1
<1>. DEFINE old == InStages(p, SlotStages)
            new == InStages([p EXCEPT ![r] = s], SlotStages)
<1>1. IsFiniteSet(old) /\ Cardinality(old) \in Nat
  BY RequestsAssumption, FS_Subset, FS_CardinalityType DEF InStages
<1>2. CASE p[r] \in SlotStages <=> s \in SlotStages
  <2>1. new = old
    BY <1>2 DEF InStages
  <2>. QED
    BY <1>1, <1>2, <2>1
<1>3. CASE p[r] \notin SlotStages /\ s \in SlotStages
  <2>1. new = old \cup {r} /\ r \notin old
    BY <1>3 DEF InStages
  <2>. HIDE DEF old, new
  <2>2. Cardinality(old \cup {r}) = Cardinality(old) + 1
    BY <1>1, <2>1, FS_AddElement
  <2>. QED
    BY <1>1, <1>3, <2>1, <2>2 DEF old, new
<1>4. CASE p[r] \in SlotStages /\ s \notin SlotStages
  <2>1. new = old \ {r} /\ r \in old
    BY <1>4 DEF InStages
  <2>. HIDE DEF old, new
  <2>2. Cardinality(old \ {r}) = Cardinality(old) - 1 /\ Cardinality(old \ {r}) \in Nat
    BY <1>1, <2>1, FS_RemoveElement, FS_CardinalityType
  <2>3. Cardinality(new) = Cardinality(old) - 1 /\ Cardinality(old) >= 1
    BY <1>1, <2>1, <2>2
  <2>. QED
    BY <1>1, <1>4, <2>3 DEF old, new
<1>. QED
  BY <1>2, <1>3, <1>4

\* A request leaving the FIFO closes the gap and keeps the order of the others.
LEMMA WithoutFacts ==
    ASSUME NEW S, NEW s \in Seq(S), NEW i \in 1 .. Len(s)
    PROVE  /\ Without(s, i) \in Seq(S)
           /\ Len(Without(s, i)) = Len(s) - 1
           /\ \A j \in 1 .. (Len(s) - 1) :
                Without(s, i)[j] = IF j < i THEN s[j] ELSE s[j + 1]
<1>. DEFINE front == SubSeq(s, 1, i - 1)
            back == SubSeq(s, i + 1, Len(s))
<1>1. /\ front \in Seq(S) /\ Len(front) = i - 1
      /\ \A j \in 1 .. (i - 1) : front[j] = s[j]
  OBVIOUS
<1>2. /\ back \in Seq(S) /\ Len(back) = Len(s) - i
      /\ \A j \in 1 .. (Len(s) - i) : back[j] = s[i + j]
  OBVIOUS
<1>3. Without(s, i) = front \o back
  BY DEF Without
<1>. HIDE DEF front, back
<1>4. Len(s) \in Nat /\ i \in Nat /\ 1 <= i /\ i <= Len(s)
  OBVIOUS
<1>5. front \o back \in Seq(S) /\ Len(front \o back) = Len(s) - 1
  <2>1. front \in Seq(S) /\ back \in Seq(S)
    BY <1>1, <1>2
  <2>2. front \o back \in Seq(S)
    BY <2>1
  <2>3. Len(front \o back) = Len(front) + Len(back)
    BY <2>1
  <2>. QED
    BY <1>1, <1>2, <1>4, <2>2, <2>3
<1>6. ASSUME NEW j \in 1 .. (Len(s) - 1)
      PROVE  (front \o back)[j] = IF j < i THEN s[j] ELSE s[j + 1]
  <2>1. CASE j < i
    BY <1>1, <1>2, <1>4, <2>1
  <2>2. CASE ~(j < i)
    <3>1. j - (i - 1) \in 1 .. (Len(s) - i) /\ i + (j - (i - 1)) = j + 1
      BY <1>4, <2>2
    <3>2. (front \o back)[j] = back[j - (i - 1)]
      BY <1>1, <1>2, <1>4, <2>2
    <3>. QED
      BY <1>2, <2>2, <3>1, <3>2
  <2>. QED
    BY <2>1, <2>2
<1>. QED
  BY <1>3, <1>5, <1>6

-----------------------------------------------------------------------------
(* What a step does to the two counts                                      *)

\* A step that changes what one request owns keeps the units conserved if the
\* rest of the accounting moves by the same amount.
LEMMA UnitsMoved ==
    ASSUME TypeOK, UnitsConserved, NEW r \in Requests, NEW n \in 0 .. Weight[r],
           units' = [units EXCEPT ![r] = n],
           available' \in Nat, moving' \in Nat, limit' \in Nat, debt' \in Nat,
           available' + moving' + n + limit + debt = available + moving + units[r] + limit' + debt'
    PROVE  UnitsConserved'
<1>1. /\ units \in [Requests -> Nat] /\ \A q \in Requests : units[q] <= Weight[q]
      /\ available \in Nat /\ moving \in Nat /\ limit \in Nat /\ debt \in Nat
  BY DEF TypeOK
<1>2. /\ IsFiniteSet(Owned(units))
      /\ Cardinality(Owned(units')) = Cardinality(Owned(units)) - units[r] + n
  <2>1. n \in Nat /\ n <= MaxWeight
    BY WeightType, WeightAssumption
  <2>2. \A q \in Requests : units[q] <= MaxWeight
    BY <1>1, WeightType, WeightAssumption
  <2>. QED
    BY <1>1, <2>1, <2>2, OwnedUpdate
<1>3. Cardinality(Owned(units)) \in Nat
  BY <1>2, FS_CardinalityType
<1>4. units[r] \in Nat /\ n \in Nat
  BY <1>1, WeightType
<1>. DEFINE h == Cardinality(Owned(units))
            g == Cardinality(Owned(units'))
            k == units[r]
<1>5. /\ h \in Nat /\ k \in Nat /\ g = h - k + n
      /\ available + moving + h = limit + debt
      /\ available' + moving' + n + limit + debt = available + moving + k + limit' + debt'
  BY <1>2, <1>3, <1>4 DEF UnitsConserved, InHand
<1>. HIDE DEF h, g, k
<1>6. available' + moving' + g = limit' + debt'
  BY <1>1, <1>4, <1>5, SMTT(30)
<1>. QED
  BY <1>6 DEF UnitsConserved, InHand, g

\* The same step keeps the units typed.
LEMMA UnitsTyped ==
    ASSUME units \in [Requests -> Nat], \A q \in Requests : units[q] <= Weight[q],
           NEW r \in Requests, NEW n \in 0 .. Weight[r], units' = [units EXCEPT ![r] = n]
    PROVE  units' \in [Requests -> Nat] /\ \A q \in Requests : units'[q] <= Weight[q]
<1>1. n \in Nat /\ n <= Weight[r]
  BY WeightType
<1>. QED
  BY <1>1

\* A step that leaves alone what requests own.
LEMMA UnitsKept ==
    ASSUME TypeOK, UnitsConserved, units' = units,
           available' \in Nat, moving' \in Nat, limit' \in Nat, debt' \in Nat,
           available' + moving' + limit + debt = available + moving + limit' + debt'
    PROVE  UnitsConserved'
<1>1. Cardinality(InHand) \in Nat
  <2>1. IsFiniteSet(Requests) /\ IsFiniteSet(1 .. MaxWeight)
    BY RequestsAssumption, WeightAssumption, FS_Interval
  <2>2. IsFiniteSet(Requests \X (1 .. MaxWeight))
    BY <2>1, FS_Product, Zenon
  <2>. QED
    BY <2>2, FS_Subset, FS_CardinalityType DEF InHand, Owned
<1>2. available \in Nat /\ moving \in Nat /\ limit \in Nat /\ debt \in Nat
  BY DEF TypeOK
<1>. DEFINE h == Cardinality(InHand)
<1>3. Cardinality(InHand') = h
  BY DEF InHand, Owned
<1>4. h \in Nat /\ available + moving + h = limit + debt
  BY <1>1 DEF UnitsConserved
<1>. HIDE DEF h
<1>5. available' + moving' + h = limit' + debt'
  BY <1>2, <1>4
<1>. QED
  BY <1>3, <1>5 DEF UnitsConserved

\* A step that moves one request keeps the queue depth exact if the depth moves
\* with it.
LEMMA DepthMoved ==
    ASSUME TypeOK, QueueDepthExact, NEW r \in Requests, NEW s \in Stages,
           pc' = [pc EXCEPT ![r] = s],
           \/ (pc[r] \in SlotStages <=> s \in SlotStages) /\ queue_depth' = queue_depth
           \/ pc[r] \notin SlotStages /\ s \in SlotStages /\ queue_depth' = queue_depth + 1
           \/ pc[r] \in SlotStages /\ s \notin SlotStages /\ queue_depth' = queue_depth - 1
    PROVE  queue_depth' \in Nat /\ QueueDepthExact'
<1>1. pc \in [Requests -> Stages]
  BY DEF TypeOK
<1>. DEFINE old == Cardinality(InStages(pc, SlotStages))
            new == Cardinality(InStages(pc', SlotStages))
<1>2. /\ old \in Nat
      /\ (pc[r] \in SlotStages <=> s \in SlotStages) => new = old
      /\ pc[r] \notin SlotStages /\ s \in SlotStages => new = old + 1
      /\ pc[r] \in SlotStages /\ s \notin SlotStages => new = old - 1 /\ old >= 1
  BY <1>1, SlotsUpdate
<1>3. queue_depth = old
  BY DEF QueueDepthExact, SlotHolders
<1>. HIDE DEF old, new
<1>4. queue_depth' = new /\ new \in Nat
  BY <1>2, <1>3
<1>. QED
  BY <1>4 DEF QueueDepthExact, SlotHolders, new

-----------------------------------------------------------------------------
(* Types and counts are kept by every step                                 *)

LEMMA CountsStep ==
    ASSUME LimiterInv, Next
    PROVE  TypeOK' /\ UnitsConserved' /\ QueueDepthExact'
<1>. USE WeightType DEF Stages, SlotStages, Goto
<1>0. /\ TypeOK /\ UnitsConserved /\ QueueDepthExact /\ OwnedByStage /\ FifoOfShort
      /\ limit \in Nat /\ debt \in Nat /\ available \in Nat /\ moving \in Nat
      /\ units \in [Requests -> Nat] /\ pc \in [Requests -> Stages]
      /\ \A r \in Requests : units[r] \in Nat /\ units[r] <= Weight[r]
  BY DEF LimiterInv, TypeOK
<1>1. ASSUME NEW r \in Requests, TryAcquire(r)
      PROVE  TypeOK' /\ UnitsConserved' /\ QueueDepthExact'
  <2>1. units[r] = 0
    BY <1>0, <1>1 DEF OwnedByStage, TryAcquire
  <2>2. queue_depth' \in Nat /\ QueueDepthExact'
    BY <1>0, <1>1, DepthMoved DEF TryAcquire, queue
  <2>3. TypeOK'
    BY <1>0, <1>1, <2>2 DEF TypeOK, TryAcquire, queue
  <2>4. UnitsConserved'
    <3>1. /\ Weight[r] \in 0 .. Weight[r] /\ units' = [units EXCEPT ![r] = Weight[r]]
          /\ available' + moving' + Weight[r] + limit + debt
               = available + moving + units[r] + limit' + debt'
      BY <1>0, <1>1, <2>1 DEF TryAcquire
    <3>2. available' \in Nat /\ moving' \in Nat /\ limit' \in Nat /\ debt' \in Nat
      BY <2>3 DEF TypeOK
    <3>. QED
      BY <1>0, <3>1, <3>2, UnitsMoved
  <2>. QED
    BY <2>2, <2>3, <2>4
<1>2. ASSUME NEW r \in Requests, TryAcquireFails(r) \/ LoadQueueMax(r)
      PROVE  TypeOK' /\ UnitsConserved' /\ QueueDepthExact'
  <2>1. queue_depth' \in Nat /\ QueueDepthExact'
    BY <1>0, <1>2, DepthMoved DEF TryAcquireFails, LoadQueueMax, queue
  <2>2. TypeOK'
    BY <1>0, <1>2, <2>1 DEF TypeOK, TryAcquireFails, LoadQueueMax, sem, queue
  <2>3. UnitsConserved'
    BY <1>0, <1>2, UnitsKept DEF TryAcquireFails, LoadQueueMax, sem
  <2>. QED
    BY <2>1, <2>2, <2>3
<1>3. ASSUME NEW r \in Requests, ReserveSlot(r) \/ UndoSlot(r) \/ Wake(r) \/ LeaveQueue(r)
      PROVE  TypeOK' /\ UnitsConserved' /\ QueueDepthExact'
  <2>1. queue_depth' \in Nat /\ QueueDepthExact'
    BY <1>0, <1>3, DepthMoved DEF ReserveSlot, UndoSlot, Wake, LeaveQueue
  <2>2. TypeOK'
    BY <1>0, <1>3, <2>1 DEF TypeOK, ReserveSlot, UndoSlot, Wake, LeaveQueue, sem
  <2>3. UnitsConserved'
    BY <1>0, <1>3, UnitsKept DEF ReserveSlot, UndoSlot, Wake, LeaveQueue, sem
  <2>. QED
    BY <2>1, <2>2, <2>3
<1>4. ASSUME NEW r \in Requests, FirstPoll(r)
      PROVE  TypeOK' /\ UnitsConserved' /\ QueueDepthExact'
  <2>1. units[r] = 0
    BY <1>0, <1>4 DEF OwnedByStage, FirstPoll
  <2>2. queue_depth' \in Nat /\ QueueDepthExact'
    BY <1>0, <1>4, DepthMoved DEF FirstPoll, queue
  <2>3. PICK n \in 0 .. Weight[r] :
            /\ units' = [units EXCEPT ![r] = n] /\ available' = available - n
            /\ n <= available /\ waiters' \in {waiters, Append(waiters, r)}
    BY <1>0, <1>4 DEF FirstPoll, Park
  <2>4. n \in Nat /\ available' \in Nat
    BY <1>0, <2>3
  <2>5. waiters' \in Seq(Requests)
    <3>1. waiters \in Seq(Requests)
      BY <1>0 DEF TypeOK
    <3>2. Append(waiters, r) \in Seq(Requests)
      BY <3>1
    <3>. QED
      BY <2>3, <3>1, <3>2
  <2>6. TypeOK'
    BY <1>0, <1>4, <2>2, <2>3, <2>4, <2>5, UnitsTyped DEF TypeOK, FirstPoll, queue
  <2>7. UnitsConserved'
    <3>1. available' + moving' + n + limit + debt
            = available + moving + units[r] + limit' + debt'
      BY <1>0, <1>4, <2>1, <2>3, <2>4 DEF FirstPoll
    <3>2. available' \in Nat /\ moving' \in Nat /\ limit' \in Nat /\ debt' \in Nat
      BY <2>6 DEF TypeOK
    <3>. QED
      BY <1>0, <2>3, <3>1, <3>2, UnitsMoved
  <2>. QED
    BY <2>2, <2>6, <2>7
<1>5. ASSUME NEW r \in Requests, Abandon(r)
      PROVE  TypeOK' /\ UnitsConserved' /\ QueueDepthExact'
  <2>1. queue_depth' \in Nat /\ QueueDepthExact'
    BY <1>0, <1>5, DepthMoved DEF Abandon, queue
  <2>2. waiters' \in Seq(Requests)
    <3>1. waiters \in Seq(Requests) /\ DOMAIN waiters = 1 .. Len(waiters)
      BY <1>0 DEF TypeOK
    <3>. QED
      BY <1>5, <3>1, WithoutFacts DEF Abandon, Unlink
  <2>3. TypeOK'
    BY <1>0, <1>5, <2>1, <2>2 DEF TypeOK, Abandon, queue
  <2>4. UnitsConserved'
    <3>1. /\ 0 \in 0 .. Weight[r] /\ units' = [units EXCEPT ![r] = 0]
          /\ available' + moving' + 0 + limit + debt
               = available + moving + units[r] + limit' + debt'
      BY <1>0, <1>5 DEF Abandon
    <3>2. available' \in Nat /\ moving' \in Nat /\ limit' \in Nat /\ debt' \in Nat
      BY <2>3 DEF TypeOK
    <3>. QED
      BY <1>0, <3>1, <3>2, UnitsMoved
  <2>. QED
    BY <2>1, <2>3, <2>4
<1>6. ASSUME Assign
      PROVE  TypeOK' /\ UnitsConserved' /\ QueueDepthExact'
  <2>. DEFINE r == Head(waiters)
              n == Min({moving, Weight[r] - units[r]})
  <2>1. r \in Requests /\ waiters # <<>> /\ Tail(waiters) \in Seq(Requests)
    BY <1>0, <1>6 DEF Assign, TypeOK
  <2>2. n \in Nat /\ n <= moving /\ n <= Weight[r] - units[r]
    <3>1. Weight[r] - units[r] \in Nat
      BY <1>0, <2>1
    <3>. QED
      BY <1>0, <3>1, MinOfTwo
  <2>3. /\ units' = [units EXCEPT ![r] = @ + n] /\ moving' = moving - n
        /\ waiters' \in {waiters, Tail(waiters)} /\ debtLock' \in BOOLEAN
        /\ UNCHANGED <<limit, debt, available, queue, pc, reloads>>
    BY <1>6 DEF Assign
  <2>. HIDE DEF r, n
  <2>4. QueueDepthExact'
    BY <1>0, <2>3 DEF QueueDepthExact, SlotHolders, queue
  <2>5. units' = [units EXCEPT ![r] = units[r] + n] /\ units[r] + n \in 0 .. Weight[r]
    BY <1>0, <2>1, <2>2, <2>3
  <2>6. TypeOK'
    <3>1. units' \in [Requests -> Nat] /\ \A q \in Requests : units'[q] <= Weight[q]
      BY <1>0, <2>1, <2>5, UnitsTyped
    <3>2. waiters' \in Seq(Requests)
      BY <1>0, <2>1, <2>3 DEF TypeOK
    <3>3. moving' \in Nat
      BY <1>0, <2>2, <2>3
    <3>. QED
      BY <1>0, <2>3, <3>1, <3>2, <3>3 DEF TypeOK, queue
  <2>7. available' + moving' + (units[r] + n) + limit + debt
            = available + moving + units[r] + limit' + debt'
    BY <1>0, <2>1, <2>2, <2>3
  <2>8. UnitsConserved'
    BY <1>0, <2>1, <2>5, <2>6, <2>7, UnitsMoved DEF TypeOK
  <2>. QED
    BY <2>4, <2>6, <2>8
<1>7. ASSUME Deposit
      PROVE  TypeOK' /\ UnitsConserved' /\ QueueDepthExact'
  <2>1. QueueDepthExact'
    BY <1>0, <1>7 DEF QueueDepthExact, SlotHolders, Deposit, queue
  <2>2. TypeOK'
    <3>1. available' \in Nat /\ moving' \in Nat
      BY <1>0, <1>7 DEF Deposit
    <3>. QED
      BY <1>0, <1>7, <3>1 DEF TypeOK, Deposit, queue
  <2>3. UnitsConserved'
    BY <1>0, <1>7, UnitsKept DEF Deposit
  <2>. QED
    BY <2>1, <2>2, <2>3
<1>8. ASSUME NEW r \in Requests, Release(r)
      PROVE  TypeOK' /\ UnitsConserved' /\ QueueDepthExact'
  <2>. DEFINE absorbed == Min({debt, Weight[r]})
  <2>1. absorbed \in Nat /\ absorbed <= debt /\ absorbed <= Weight[r]
    BY <1>0, MinOfTwo
  <2>2. /\ debt' = debt - absorbed /\ moving = 0 /\ moving' = Weight[r] - absorbed
        /\ debtLock' \in BOOLEAN /\ units' = [units EXCEPT ![r] = 0]
        /\ UNCHANGED <<limit, available, waiters, queue, reloads>>
        /\ units[r] = Weight[r]
    BY <1>0, <1>8 DEF Release, OwnedByStage
  <2>. HIDE DEF absorbed
  <2>3. queue_depth' \in Nat /\ QueueDepthExact'
    BY <1>0, <1>8, DepthMoved DEF Release, queue
  <2>4. TypeOK'
    <3>1. units' \in [Requests -> Nat] /\ \A q \in Requests : units'[q] <= Weight[q]
      BY <1>0, <2>2, UnitsTyped
    <3>2. moving' \in Nat /\ debt' \in Nat
      BY <1>0, <2>1, <2>2
    <3>. QED
      BY <1>0, <1>8, <2>2, <2>3, <3>1, <3>2 DEF TypeOK, Release, queue
  <2>5. UnitsConserved'
    <3>1. /\ 0 \in 0 .. Weight[r] /\ units' = [units EXCEPT ![r] = 0]
          /\ available' + moving' + 0 + limit + debt
               = available + moving + units[r] + limit' + debt'
      BY <1>0, <2>1, <2>2
    <3>2. available' \in Nat /\ moving' \in Nat /\ limit' \in Nat /\ debt' \in Nat
      BY <2>4 DEF TypeOK
    <3>. QED
      BY <1>0, <3>1, <3>2, UnitsMoved
  <2>. QED
    BY <2>3, <2>4, <2>5
<1>9. ASSUME NEW n \in Limits, Resize(n)
      PROVE  TypeOK' /\ UnitsConserved' /\ QueueDepthExact'
  <2>1. QueueDepthExact'
    BY <1>0, <1>9 DEF QueueDepthExact, SlotHolders, Resize, queue
  <2>2. n \in Nat /\ limit' = n /\ reloads' \in 0 .. MaxReloads
    BY <1>0, <1>9, LimitsAssumption DEF Resize, TypeOK
  <2>3. CASE Grow(n)
    <3>. DEFINE cancelled == Min({debt, n - limit})
    <3>1. cancelled \in Nat /\ cancelled <= debt /\ cancelled <= n - limit
      BY <1>0, <2>2, <2>3, MinOfTwo DEF Grow
    <3>2. /\ debt' = debt - cancelled /\ moving = 0 /\ moving' = n - limit - cancelled
          /\ available' = available /\ debtLock' \in BOOLEAN
      BY <2>3 DEF Grow
    <3>. HIDE DEF cancelled
    <3>3. debt' \in Nat /\ moving' \in Nat
      BY <1>0, <2>2, <3>1, <3>2
    <3>4. TypeOK'
      BY <1>0, <1>9, <2>2, <3>2, <3>3 DEF TypeOK, Resize, queue
    <3>5. UnitsConserved'
      BY <1>0, <1>9, <2>2, <3>1, <3>2, <3>3, UnitsKept DEF Resize
    <3>. QED
      BY <2>1, <3>4, <3>5
  <2>4. CASE Shrink(n)
    <3>. DEFINE forgotten == Min({available, limit - n})
    <3>1. forgotten \in Nat /\ forgotten <= available /\ forgotten <= limit - n
      BY <1>0, <2>2, <2>4, MinOfTwo DEF Shrink
    <3>2. /\ debt' = debt + (limit - n - forgotten) /\ available' = available - forgotten
          /\ moving' = moving /\ debtLock' = debtLock
      BY <2>4 DEF Shrink
    <3>. HIDE DEF forgotten
    <3>3. debt' \in Nat /\ available' \in Nat
      BY <1>0, <2>2, <3>1, <3>2
    <3>4. TypeOK'
      BY <1>0, <1>9, <2>2, <3>2, <3>3 DEF TypeOK, Resize, queue
    <3>5. UnitsConserved'
      BY <1>0, <1>9, <2>2, <3>1, <3>2, <3>3, UnitsKept DEF Resize
    <3>. QED
      BY <2>1, <3>4, <3>5
  <2>. QED
    BY <1>9, <2>3, <2>4 DEF Resize
<1>10. ASSUME NEW m \in QueueMaxes, SetQueue(m)
       PROVE  TypeOK' /\ UnitsConserved' /\ QueueDepthExact'
  <2>1. QueueDepthExact'
    BY <1>0, <1>10 DEF QueueDepthExact, SlotHolders, SetQueue
  <2>2. TypeOK'
    BY <1>0, <1>10 DEF TypeOK, SetQueue, sem
  <2>3. UnitsConserved'
    BY <1>0, <1>10, UnitsKept DEF SetQueue, sem
  <2>. QED
    BY <2>1, <2>2, <2>3
<1>. QED
  BY <1>1, <1>2, <1>3, <1>4, <1>5, <1>6, <1>7, <1>8, <1>9, <1>10
  DEF Next, Acquire, TimeOut, Cancel

-----------------------------------------------------------------------------
(* The order of the parked requests is kept by every step                  *)

LEMMA OrderStep ==
    ASSUME LimiterInv, Next
    PROVE  OwnedByStage' /\ FifoOfShort' /\ NoneStranded'
<1>. USE WeightType DEF Stages, Goto
<1>0. /\ OwnedByStage /\ FifoOfShort /\ NoneStranded
      /\ available \in Nat /\ moving \in Nat /\ limit \in Nat
      /\ waiters \in Seq(Requests) /\ DOMAIN waiters = 1 .. Len(waiters) /\ Len(waiters) \in Nat
      /\ \A i \in 1 .. Len(waiters) : waiters[i] \in Requests
      /\ units \in [Requests -> Nat] /\ pc \in [Requests -> Stages]
      /\ \A r \in Requests : units[r] \in Nat /\ units[r] <= Weight[r]
  BY DEF LimiterInv, TypeOK
<1>1. ASSUME NEW r \in Requests, NEW s \in Stages \ {"parked", "held"},
             pc[r] \notin {"parked", "held"}, pc' = [pc EXCEPT ![r] = s],
             UNCHANGED <<units, waiters, available>>
      PROVE  OwnedByStage' /\ FifoOfShort' /\ NoneStranded'
  <2>1. \A i \in 1 .. Len(waiters) : waiters[i] # r
    BY <1>0, <1>1 DEF FifoOfShort
  <2>2. OwnedByStage'
    BY <1>0, <1>1 DEF OwnedByStage
  <2>3. FifoOfShort'
    BY <1>0, <1>1, <2>1 DEF FifoOfShort
  <2>4. NoneStranded'
    BY <1>0, <1>1, <2>1 DEF NoneStranded
  <2>. QED
    BY <2>2, <2>3, <2>4
<1>2. ASSUME NEW r \in Requests, Wake(r)
      PROVE  OwnedByStage' /\ FifoOfShort' /\ NoneStranded'
  <2>1. \A i \in 1 .. Len(waiters) : waiters[i] # r
    BY <1>0, <1>2 DEF FifoOfShort, Wake
  <2>2. OwnedByStage'
    BY <1>0, <1>2 DEF OwnedByStage, Wake, sem
  <2>3. FifoOfShort'
    BY <1>0, <1>2, <2>1 DEF FifoOfShort, Wake, sem
  <2>4. NoneStranded'
    BY <1>0, <1>2, <2>1 DEF NoneStranded, Wake, sem
  <2>. QED
    BY <2>2, <2>3, <2>4
<1>3. ASSUME NEW r \in Requests, NEW s \in Stages, pc' = [pc EXCEPT ![r] = s],
             units' = [units EXCEPT ![r] = IF s = "idle" THEN 0 ELSE Weight[r]],
             s \in {"idle", "held", "parked"}, pc[r] # "parked",
             waiters' = waiters, available' \in Nat,
             waiters # <<>> => available' = 0
      PROVE  OwnedByStage' /\ FifoOfShort' /\ NoneStranded'
  <2>1. \A i \in 1 .. Len(waiters) : waiters[i] # r
    BY <1>0, <1>3 DEF FifoOfShort
  <2>2. OwnedByStage'
    BY <1>0, <1>3 DEF OwnedByStage
  <2>3. FifoOfShort'
    BY <1>0, <1>3, <2>1 DEF FifoOfShort
  <2>4. NoneStranded'
    BY <1>0, <1>3, <2>1 DEF NoneStranded
  <2>. QED
    BY <2>2, <2>3, <2>4
<1>4. ASSUME NEW r \in Requests, pc[r] = "reserved", pc' = [pc EXCEPT ![r] = "parked"], Park(r)
      PROVE  OwnedByStage' /\ FifoOfShort' /\ NoneStranded'
  <2>1. /\ waiters' = Append(waiters, r) /\ Len(waiters') = Len(waiters) + 1
        /\ waiters'[Len(waiters) + 1] = r
        /\ \A i \in 1 .. Len(waiters) : waiters'[i] = waiters[i] /\ waiters[i] # r
    BY <1>0, <1>4 DEF FifoOfShort, Park
  <2>2. /\ available < Weight[r] /\ available' = 0 /\ units' = [units EXCEPT ![r] = available]
        /\ Len(waiters) > 0 => available = 0
    BY <1>0, <1>4 DEF Park, NoneStranded
  <2>3. OwnedByStage'
    BY <1>0, <1>4, <2>2 DEF OwnedByStage
  <2>4. FifoOfShort'
    BY <1>0, <1>4, <2>1, <2>2 DEF FifoOfShort
  <2>5. NoneStranded'
    <3>1. ASSUME NEW q \in Requests, pc'[q] = "parked", units'[q] < Weight[q]
          PROVE  \E i \in 1 .. Len(waiters') : waiters'[i] = q
      <4>1. CASE q = r
        BY <1>0, <2>1, <4>1
      <4>2. CASE q # r
        BY <1>0, <1>4, <2>1, <2>2, <3>1, <4>2 DEF NoneStranded
      <4>. QED
        BY <4>1, <4>2
    <3>2. ASSUME NEW i \in 2 .. Len(waiters')
          PROVE  units'[waiters'[i]] = 0
      BY <1>0, <2>1, <2>2 DEF NoneStranded
    <3>. QED
      BY <2>2, <3>1, <3>2 DEF NoneStranded
  <2>. QED
    BY <2>3, <2>4, <2>5
<1>5. ASSUME waiters' = waiters, units' = units, pc' = pc,
             waiters # <<>> => available' = 0
      PROVE  OwnedByStage' /\ FifoOfShort' /\ NoneStranded'
  BY <1>0, <1>5 DEF OwnedByStage, FifoOfShort, NoneStranded
<1>6. ASSUME NEW r \in Requests, Abandon(r)
      PROVE  OwnedByStage' /\ FifoOfShort' /\ NoneStranded'
  <2>1. /\ pc[r] = "parked" /\ pc' = [pc EXCEPT ![r] = "leaving"]
        /\ units' = [units EXCEPT ![r] = 0] /\ available' = available
    BY <1>6 DEF Abandon
  <2>2. OwnedByStage'
    BY <1>0, <2>1 DEF OwnedByStage
  <2>3. CASE (\A i \in DOMAIN waiters : waiters[i] # r) /\ UNCHANGED waiters
    <3>1. FifoOfShort'
      BY <1>0, <2>1, <2>3 DEF FifoOfShort
    <3>2. NoneStranded'
      BY <1>0, <2>1, <2>3 DEF NoneStranded
    <3>. QED
      BY <2>2, <3>1, <3>2
  <2>4. ASSUME NEW k \in DOMAIN waiters, waiters[k] = r, waiters' = Without(waiters, k)
        PROVE  OwnedByStage' /\ FifoOfShort' /\ NoneStranded'
    <3>1. /\ Len(waiters') = Len(waiters) - 1
          /\ \A j \in 1 .. Len(waiters') : waiters'[j] = IF j < k THEN waiters[j] ELSE waiters[j + 1]
      <4>1. k \in 1 .. Len(waiters)
        BY <1>0, <2>4
      <4>2. /\ Len(Without(waiters, k)) = Len(waiters) - 1
            /\ \A j \in 1 .. (Len(waiters) - 1) :
                Without(waiters, k)[j] = IF j < k THEN waiters[j] ELSE waiters[j + 1]
        BY <1>0, <4>1, WithoutFacts
      <4>. QED
        BY <2>4, <4>2
    <3>2. \A j \in 1 .. Len(waiters') :
            /\ waiters'[j] \in Requests /\ waiters'[j] # r
            /\ \E i \in 1 .. Len(waiters) : i >= j /\ waiters'[j] = waiters[i]
      BY <1>0, <2>4, <3>1 DEF FifoOfShort
    <3>3. FifoOfShort'
      <4>1. ASSUME NEW j \in 1 .. Len(waiters')
            PROVE  pc'[waiters'[j]] = "parked" /\ units'[waiters'[j]] < Weight[waiters'[j]]
        BY <1>0, <2>1, <3>2 DEF FifoOfShort
      <4>2. ASSUME NEW i \in 1 .. Len(waiters'), NEW j \in 1 .. Len(waiters'), waiters'[i] = waiters'[j]
            PROVE  i = j
        <5>. DEFINE up(x) == IF x < k THEN x ELSE x + 1
        <5>1. /\ waiters'[i] = waiters[up(i)] /\ waiters'[j] = waiters[up(j)]
              /\ up(i) \in 1 .. Len(waiters) /\ up(j) \in 1 .. Len(waiters)
          BY <1>0, <2>4, <3>1
        <5>2. up(i) = up(j)
          BY <4>2, <5>1, <1>0 DEF FifoOfShort
        <5>. QED
          BY <1>0, <2>4, <5>2
      <4>. QED
        BY <4>1, <4>2 DEF FifoOfShort
    <3>4. NoneStranded'
      <4>1. ASSUME NEW q \in Requests, pc'[q] = "parked", units'[q] < Weight[q]
            PROVE  \E i \in 1 .. Len(waiters') : waiters'[i] = q
        <5>1. q # r /\ pc[q] = "parked" /\ units[q] < Weight[q]
          BY <1>0, <2>1, <4>1
        <5>2. PICK i \in 1 .. Len(waiters) : waiters[i] = q
          BY <1>0, <5>1 DEF NoneStranded
        <5>3. i # k
          BY <2>4, <5>1, <5>2
        <5>4. CASE i < k
          <6>1. i \in 1 .. Len(waiters')
            BY <1>0, <2>4, <3>1, <5>4
          <6>. QED
            BY <3>1, <5>2, <5>4, <6>1
        <5>5. CASE i > k
          <6>1. i - 1 \in 1 .. Len(waiters') /\ ~(i - 1 < k) /\ (i - 1) + 1 = i
            BY <1>0, <2>4, <3>1, <5>5
          <6>. QED
            BY <3>1, <5>2, <6>1
        <5>. QED
          BY <1>0, <5>3, <5>4, <5>5
      <4>2. ASSUME NEW j \in 2 .. Len(waiters')
            PROVE  units'[waiters'[j]] = 0
        <5>1. j \in 1 .. Len(waiters')
          BY <1>0, <3>1
        <5>2. PICK i \in 1 .. Len(waiters) : i >= j /\ waiters'[j] = waiters[i]
          BY <3>2, <5>1
        <5>3. units[waiters[i]] = 0
          BY <1>0, <5>2 DEF NoneStranded
        <5>. QED
          BY <1>0, <2>1, <3>2, <5>1, <5>2, <5>3
      <4>3. waiters' # <<>> => available' = 0
        BY <1>0, <2>1, <2>4 DEF NoneStranded
      <4>. QED
        BY <4>1, <4>2, <4>3 DEF NoneStranded
    <3>. QED
      BY <2>2, <3>3, <3>4
  <2>. QED
    BY <1>6, <2>3, <2>4 DEF Abandon, Unlink
<1>7. ASSUME Assign
      PROVE  OwnedByStage' /\ FifoOfShort' /\ NoneStranded'
  <2>. DEFINE r == Head(waiters)
              n == Min({moving, Weight[r] - units[r]})
  <2>1. waiters # <<>> /\ r = waiters[1] /\ r \in Requests /\ Len(waiters) >= 1
    BY <1>0, <1>7 DEF Assign
  <2>2. /\ n \in Nat /\ n <= Weight[r] - units[r]
    <3>1. Weight[r] - units[r] \in Nat
      BY <1>0, <2>1
    <3>. QED
      BY <1>0, <3>1, MinOfTwo
  <2>3. /\ units' = [units EXCEPT ![r] = @ + n] /\ available' = available /\ pc' = pc
        /\ waiters' = IF units[r] + n = Weight[r] THEN Tail(waiters) ELSE waiters
    BY <1>7 DEF Assign
  <2>4. pc[r] = "parked" /\ \A i \in 2 .. Len(waiters) : waiters[i] # r
    BY <1>0, <2>1 DEF FifoOfShort
  <2>. HIDE DEF r, n
  <2>5. units'[r] = units[r] + n /\ \A q \in Requests \ {r} : units'[q] = units[q]
    BY <1>0, <2>1, <2>3
  <2>6. OwnedByStage'
    BY <1>0, <2>1, <2>3, <2>4, <2>5 DEF OwnedByStage
  <2>7. available' = 0
    BY <1>0, <2>1, <2>3 DEF NoneStranded
  <2>8. CASE units[r] + n # Weight[r]
    <3>1. waiters' = waiters
      BY <2>3, <2>8
    <3>2. units'[r] < Weight[r]
      <4>1. units[r] \in Nat /\ Weight[r] \in Nat
        BY <1>0, <2>1
      <4>. QED
        BY <2>2, <2>5, <2>8, <4>1
    <3>3. FifoOfShort'
      <4>1. ASSUME NEW i \in 1 .. Len(waiters)
            PROVE  pc'[waiters[i]] = "parked" /\ units'[waiters[i]] < Weight[waiters[i]]
        <5>1. CASE waiters[i] = r
          BY <2>3, <2>4, <3>2, <5>1
        <5>2. CASE waiters[i] # r
          BY <1>0, <2>3, <2>5, <5>2 DEF FifoOfShort
        <5>. QED
          BY <5>1, <5>2
      <4>. QED
        BY <1>0, <3>1, <4>1 DEF FifoOfShort
    <3>4. NoneStranded'
      <4>1. ASSUME NEW q \in Requests, pc'[q] = "parked", units'[q] < Weight[q]
            PROVE  \E i \in 1 .. Len(waiters') : waiters'[i] = q
        <5>1. CASE q = r
          BY <1>0, <2>1, <3>1, <5>1
        <5>2. CASE q # r
          BY <1>0, <2>3, <2>5, <3>1, <4>1, <5>2 DEF NoneStranded
        <5>. QED
          BY <5>1, <5>2
      <4>2. \A i \in 2 .. Len(waiters') : units'[waiters'[i]] = 0
        BY <1>0, <2>4, <2>5, <3>1 DEF NoneStranded
      <4>. QED
        BY <2>7, <4>1, <4>2 DEF NoneStranded
    <3>. QED
      BY <2>6, <3>3, <3>4
  <2>9. CASE units[r] + n = Weight[r]
    <3>1. /\ Len(waiters') = Len(waiters) - 1
          /\ \A i \in 1 .. Len(waiters') : waiters'[i] = waiters[i + 1] /\ i + 1 \in 2 .. Len(waiters)
      BY <1>0, <2>1, <2>3, <2>9
    <3>2. \A i \in 1 .. Len(waiters') : waiters'[i] \in Requests \ {r}
      BY <1>0, <2>4, <3>1
    <3>3. FifoOfShort'
      <4>1. ASSUME NEW i \in 1 .. Len(waiters')
            PROVE  pc'[waiters'[i]] = "parked" /\ units'[waiters'[i]] < Weight[waiters'[i]]
        <5>1. i + 1 \in 2 .. Len(waiters) /\ waiters'[i] = waiters[i + 1]
          BY <3>1
        <5>2. i + 1 \in 1 .. Len(waiters)
          BY <1>0, <5>1
        <5>. QED
          BY <1>0, <2>3, <2>5, <3>2, <5>1, <5>2 DEF FifoOfShort
      <4>2. ASSUME NEW i \in 1 .. Len(waiters'), NEW j \in 1 .. Len(waiters'), waiters'[i] = waiters'[j]
            PROVE  i = j
        <5>1. i + 1 \in 1 .. Len(waiters) /\ j + 1 \in 1 .. Len(waiters) /\ waiters[i + 1] = waiters[j + 1]
          BY <1>0, <3>1, <4>2
        <5>2. i + 1 = j + 1
          BY <1>0, <5>1 DEF FifoOfShort
        <5>. QED
          BY <1>0, <3>1, <5>2
      <4>. QED
        BY <4>1, <4>2 DEF FifoOfShort
    <3>4. NoneStranded'
      <4>1. ASSUME NEW q \in Requests, pc'[q] = "parked", units'[q] < Weight[q]
            PROVE  \E i \in 1 .. Len(waiters') : waiters'[i] = q
        <5>1. q # r /\ pc[q] = "parked" /\ units[q] < Weight[q]
          BY <1>0, <2>1, <2>3, <2>5, <2>9, <4>1
        <5>2. PICK i \in 1 .. Len(waiters) : waiters[i] = q
          BY <1>0, <5>1 DEF NoneStranded
        <5>3. i # 1
          BY <2>1, <5>1, <5>2
        <5>4. i - 1 \in 1 .. Len(waiters') /\ (i - 1) + 1 = i
          BY <1>0, <3>1, <5>3
        <5>. QED
          BY <3>1, <5>2, <5>4
      <4>2. \A i \in 2 .. Len(waiters') : units'[waiters'[i]] = 0
        BY <1>0, <2>5, <3>1, <3>2 DEF NoneStranded
      <4>. QED
        BY <2>7, <4>1, <4>2 DEF NoneStranded
    <3>. QED
      BY <2>6, <3>3, <3>4
  <2>. QED
    BY <2>8, <2>9
<1>8. ASSUME NEW r \in Requests, Acquire(r)
      PROVE  OwnedByStage' /\ FifoOfShort' /\ NoneStranded'
  <2>1. CASE TryAcquireFails(r) \/ LoadQueueMax(r) \/ ReserveSlot(r) \/ UndoSlot(r) \/ LeaveQueue(r)
    BY <2>1, <1>1 DEF TryAcquireFails, LoadQueueMax, ReserveSlot, UndoSlot, LeaveQueue, sem
  <2>2. CASE TryAcquire(r)
    <3>1. available' \in Nat /\ waiters = <<>>
      BY <1>0, <2>2 DEF TryAcquire, NoneStranded
    <3>. QED
      BY <2>2, <3>1, <1>3 DEF TryAcquire
  <2>3. CASE FirstPoll(r)
    <3>1. CASE Park(r)
      BY <1>4, <2>3, <3>1 DEF FirstPoll
    <3>2. CASE ~Park(r)
      <4>1. available' \in Nat /\ waiters = <<>>
        BY <1>0, <2>3, <3>2 DEF FirstPoll, NoneStranded
      <4>. QED
        BY <2>3, <3>2, <4>1, <1>3 DEF FirstPoll
    <3>. QED
      BY <3>1, <3>2
  <2>4. CASE TimeOut(r) \/ Cancel(r)
    BY <1>6, <2>4 DEF TimeOut, Cancel
  <2>. QED
    BY <1>2, <1>8, <2>1, <2>2, <2>3, <2>4 DEF Acquire
<1>9. ASSUME NEW r \in Requests, Release(r)
      PROVE  OwnedByStage' /\ FifoOfShort' /\ NoneStranded'
  <2>1. waiters # <<>> => available' = 0
    BY <1>0, <1>9 DEF Release, NoneStranded
  <2>. QED
    BY <1>0, <1>3, <1>9, <2>1 DEF Release
<1>10. ASSUME NEW n \in Limits, Resize(n)
       PROVE  OwnedByStage' /\ FifoOfShort' /\ NoneStranded'
  <2>1. waiters # <<>> => available' = 0
    <3>1. CASE Grow(n)
      BY <1>0, <3>1 DEF Grow, NoneStranded
    <3>2. CASE Shrink(n)
      <4>1. limit - n \in Nat
        BY <1>0, <3>2, LimitsAssumption DEF Shrink
      <4>2. /\ Min({available, limit - n}) \in Nat /\ Min({available, limit - n}) <= available
            /\ available' = available - Min({available, limit - n})
        BY <1>0, <3>2, <4>1, MinOfTwo DEF Shrink
      <4>. QED
        BY <1>0, <4>2 DEF NoneStranded
    <3>. QED
      BY <1>10, <3>1, <3>2 DEF Resize
  <2>. QED
    BY <1>5, <1>10, <2>1 DEF Resize
<1>11. ASSUME Deposit \/ \E m \in QueueMaxes : SetQueue(m)
       PROVE  OwnedByStage' /\ FifoOfShort' /\ NoneStranded'
  BY <1>0, <1>5, <1>11 DEF Deposit, SetQueue, sem, NoneStranded
<1>. QED
  BY <1>7, <1>8, <1>9, <1>10, <1>11 DEF Next

-----------------------------------------------------------------------------
(* Theorems                                                                *)

\* The inductive invariant holds initially and is kept by every step.
THEOREM LimiterInvariant == Spec => []LimiterInv
<1>1. Init => LimiterInv
  <2>. SUFFICES ASSUME Init PROVE LimiterInv
    OBVIOUS
  <2>1. TypeOK
    <3>1. limit \in Nat /\ available \in Nat /\ reloads \in 0 .. MaxReloads /\ waiters \in Seq(Requests)
      BY LimitsAssumption DEF Init
    <3>2. \A r \in Requests : units[r] <= Weight[r]
      BY WeightType DEF Init
    <3>3. units \in [Requests -> Nat] /\ pc \in [Requests -> Stages] /\ seen \in [Requests -> QueueMaxes \cup {0}]
      BY DEF Init, Stages
    <3>. QED
      BY <3>1, <3>2, <3>3 DEF Init, TypeOK
  <2>2. InHand = {} /\ SlotHolders = {}
    BY WeightAssumption DEF Init, InHand, Owned, SlotHolders, InStages, SlotStages
  <2>3. UnitsConserved /\ QueueDepthExact
    BY <2>1, <2>2, FS_EmptySet DEF Init, UnitsConserved, QueueDepthExact, TypeOK
  <2>4. OwnedByStage /\ FifoOfShort /\ NoneStranded
    BY DEF Init, OwnedByStage, FifoOfShort, NoneStranded
  <2>. QED
    BY <2>1, <2>3, <2>4 DEF LimiterInv
<1>2. LimiterInv /\ [Next]_vars => LimiterInv'
  <2>. SUFFICES ASSUME LimiterInv, [Next]_vars PROVE LimiterInv'
    OBVIOUS
  <2>1. CASE Next
    BY <2>1, CountsStep, OrderStep DEF LimiterInv
  <2>2. CASE UNCHANGED vars
    BY <2>2 DEF vars, LimiterInv, TypeOK, UnitsConserved, InHand, Owned, QueueDepthExact,
                SlotHolders, InStages, OwnedByStage, FifoOfShort, NoneStranded
  <2>. QED
    BY <2>1, <2>2
<1>. QED
  BY <1>1, <1>2, PTL DEF Spec

\* For any requests, weights and ceilings, no sequence of returns, resizes,
\* timeouts and cancellations loses or makes up a unit of the ceiling.
THEOREM UnitsAreConserved == Spec => []UnitsConserved
<1>1. LimiterInv => UnitsConserved
  BY DEF LimiterInv
<1>. QED
  BY <1>1, LimiterInvariant, PTL

\* Every path out of acquire gives its queue slot back exactly once.
THEOREM QueueDepthIsExact == Spec => []QueueDepthExact
<1>1. LimiterInv => QueueDepthExact
  BY DEF LimiterInv
<1>. QED
  BY <1>1, LimiterInvariant, PTL

\* Admitted origin work never exceeds the ceiling plus what a shrink still owes.
THEOREM AdmissionWithinCeiling == Spec => []AdmittedWithinCeiling
<1>1. LimiterInv => AdmittedWithinCeiling
  <2>. SUFFICES ASSUME LimiterInv PROVE AdmittedWithinCeiling
    OBVIOUS
  <2>1. IsFiniteSet(InHand)
    <3>1. IsFiniteSet(Requests) /\ IsFiniteSet(1 .. MaxWeight)
      BY RequestsAssumption, WeightAssumption, FS_Interval
    <3>2. IsFiniteSet(Requests \X (1 .. MaxWeight))
      BY <3>1, FS_Product, Zenon
    <3>. QED
      BY <3>2, FS_Subset DEF InHand, Owned
  <2>2. /\ Cardinality(Admitted) <= Cardinality(InHand)
        /\ Cardinality(Admitted) \in Nat /\ Cardinality(InHand) \in Nat
    BY <2>1, FS_Subset, FS_CardinalityType DEF Admitted
  <2>3. available + moving + Cardinality(InHand) = limit + debt
    BY DEF LimiterInv, UnitsConserved
  <2>4. limit \in Nat /\ debt \in Nat /\ available \in Nat /\ moving \in Nat
    BY DEF LimiterInv, TypeOK
  <2>. DEFINE h == Cardinality(InHand)
              a == Cardinality(Admitted)
  <2>. HIDE DEF h, a
  <2>5. a <= limit + debt
    BY <2>2, <2>3, <2>4, SMTT(30) DEF h, a
  <2>. QED
    BY <2>5 DEF AdmittedWithinCeiling, a
<1>. QED
  BY <1>1, LimiterInvariant, PTL

\* If no parked request gives up, a return pays the debt before anybody is
\* served, whatever the order of returns and resizes.
THEOREM DebtIsPaidFirst == (Impatient = {}) => (Spec => []DebtFirst)
<1>. SUFFICES ASSUME Impatient = {} PROVE Spec => []DebtFirst
  OBVIOUS
<1>1. Init => DebtFirst
  BY DEF Init, DebtFirst
<1>2. LimiterInv /\ DebtFirst /\ [Next]_vars => DebtFirst'
  <2>. SUFFICES ASSUME LimiterInv, DebtFirst, [Next]_vars PROVE DebtFirst'
    OBVIOUS
  <2>0. /\ debt \in Nat /\ available \in Nat /\ moving \in Nat /\ limit \in Nat
        /\ waiters \in Seq(Requests) /\ units \in [Requests -> Nat]
        /\ \A r \in Requests : units[r] \in Nat /\ units[r] <= Weight[r]
    BY DEF LimiterInv, TypeOK
  <2>1. ASSUME NEW r \in Requests, Acquire(r)
        PROVE  DebtFirst'
    <3>1. ~TimeOut(r) /\ ~Cancel(r)
      BY DEF TimeOut, Cancel, Abandon
    <3>2. CASE TryAcquire(r) \/ FirstPoll(r)
      BY <2>0, <3>2, WeightType DEF TryAcquire, FirstPoll, Park, DebtFirst
    <3>. QED
      BY <2>1, <3>1, <3>2 DEF Acquire, TryAcquireFails, LoadQueueMax, ReserveSlot, UndoSlot,
                              Wake, LeaveQueue, sem, DebtFirst
  <2>2. CASE Assign
    <3>1. moving > 0 /\ debt' = debt /\ debtLock' = (debtLock /\ moving' > 0)
      BY <2>2 DEF Assign
    <3>2. ~(debt > 0)
      BY <2>0, <3>1 DEF DebtFirst
    <3>. QED
      BY <3>1, <3>2, Zenon DEF DebtFirst
  <2>3. CASE Deposit
    BY <2>0, <2>3 DEF Deposit, DebtFirst
  <2>4. ASSUME NEW r \in Requests, Release(r)
        PROVE  DebtFirst'
    <3>. DEFINE absorbed == Min({debt, Weight[r]})
    <3>1. absorbed \in {debt, Weight[r]} /\ Weight[r] \in Nat
      BY <2>0, WeightType, MinOfTwo
    <3>2. /\ debt' = debt - absorbed /\ moving = 0 /\ moving' = Weight[r] - absorbed
          /\ available' = available /\ debtLock' = (moving' > 0)
      BY <2>4 DEF Release
    <3>. HIDE DEF absorbed
    <3>3. debt' > 0 => available' = 0 /\ moving' = 0
      BY <2>0, <3>1, <3>2 DEF DebtFirst
    <3>. QED
      BY <3>2, <3>3, Zenon DEF DebtFirst
  <2>5. ASSUME NEW n \in Limits, Resize(n)
        PROVE  DebtFirst'
    <3>0. n \in Nat
      BY LimitsAssumption
    <3>1. CASE Grow(n)
      <4>. DEFINE cancelled == Min({debt, n - limit})
      <4>1. cancelled \in {debt, n - limit} /\ n - limit \in Nat
        BY <2>0, <3>0, <3>1, MinOfTwo DEF Grow
      <4>2. /\ debt' = debt - cancelled /\ moving = 0 /\ moving' = n - limit - cancelled
            /\ available' = available /\ debtLock' = (moving' > 0)
        BY <3>1 DEF Grow
      <4>. HIDE DEF cancelled
      <4>3. debt' > 0 => available' = 0 /\ moving' = 0
        BY <2>0, <3>0, <4>1, <4>2 DEF DebtFirst
      <4>. QED
        BY <4>2, <4>3, Zenon DEF DebtFirst
    <3>2. CASE Shrink(n)
      <4>. DEFINE forgotten == Min({available, limit - n})
      <4>1. forgotten \in {available, limit - n} /\ forgotten <= available /\ limit - n \in Nat
        BY <2>0, <3>0, <3>2, MinOfTwo DEF Shrink
      <4>2. /\ debt' = debt + (limit - n - forgotten) /\ available' = available - forgotten
            /\ moving' = moving
        BY <3>2 DEF Shrink
      <4>3. moving = 0
        BY <2>0, <2>5 DEF Resize, DebtFirst
      <4>. HIDE DEF forgotten
      <4>. QED
        BY <2>0, <3>0, <4>1, <4>2, <4>3 DEF DebtFirst
    <3>. QED
      BY <2>5, <3>1, <3>2 DEF Resize
  <2>. QED
    BY <2>1, <2>2, <2>3, <2>4, <2>5 DEF Next, vars, SetQueue, sem, DebtFirst
<1>. QED
  BY <1>1, <1>2, LimiterInvariant, PTL DEF Spec

\* If no parked request gives up, a request obtains its weight only within the
\* ceiling in force: lowering a ceiling never over-admits.
THEOREM ShrinkNeverOverAdmits == (Impatient = {}) => (Spec => NoOverAdmission)
<1>. SUFFICES ASSUME Impatient = {} PROVE Spec => NoOverAdmission
  OBVIOUS
<1>. DEFINE Within == Cardinality(Admitted') > Cardinality(Admitted) => Cardinality(Admitted') <= limit'
<1>1. LimiterInv /\ LimiterInv' /\ DebtFirst /\ DebtFirst' /\ [Next]_vars => [Within]_vars
  <2>. SUFFICES ASSUME LimiterInv, LimiterInv', DebtFirst, DebtFirst', Next PROVE Within
    OBVIOUS
  <2>0. /\ debt \in Nat /\ available \in Nat /\ moving \in Nat /\ limit \in Nat
        /\ debt' \in Nat /\ available' \in Nat /\ moving' \in Nat /\ limit' \in Nat
        /\ units \in [Requests -> Nat] /\ units' \in [Requests -> Nat]
        /\ UnitsConserved' /\ OwnedByStage
    BY DEF LimiterInv, TypeOK
  <2>1. /\ IsFiniteSet(InHand) /\ IsFiniteSet(InHand')
        /\ IsFiniteSet(Admitted) /\ IsFiniteSet(Admitted')
        /\ Cardinality(Admitted') <= Cardinality(InHand')
        /\ Cardinality(Admitted') \in Nat /\ Cardinality(Admitted) \in Nat /\ Cardinality(InHand') \in Nat
    <3>1. IsFiniteSet(Requests) /\ IsFiniteSet(1 .. MaxWeight)
      BY RequestsAssumption, WeightAssumption, FS_Interval
    <3>2. IsFiniteSet(Requests \X (1 .. MaxWeight))
      BY <3>1, FS_Product, Zenon
    <3>3. IsFiniteSet(InHand) /\ IsFiniteSet(InHand')
      BY <3>2, FS_Subset DEF InHand, Owned
    <3>4. Admitted \subseteq InHand /\ Admitted' \subseteq InHand'
      BY DEF Admitted
    <3>. QED
      BY <3>3, <3>4, FS_Subset, FS_CardinalityType
  <2>2. CASE debt' = 0
    <3>. DEFINE a == Cardinality(Admitted')
                h == Cardinality(InHand')
    <3>1. available' + moving' + h = limit' + debt' /\ a <= h /\ a \in Nat /\ h \in Nat
      BY <2>0, <2>1 DEF UnitsConserved
    <3>. HIDE DEF a, h
    <3>2. a <= limit'
      BY <2>0, <2>2, <3>1, SMTT(30)
    <3>. QED
      BY <3>2 DEF a
  <2>3. CASE debt' > 0
    <3>1. units' = units \/ \E r \in Requests : units' = [units EXCEPT ![r] = 0]
      <4>1. ASSUME NEW r \in Requests, Acquire(r), ~FirstPoll(r), ~TryAcquire(r)
            PROVE  units' = units
        BY <4>1 DEF Acquire, TryAcquireFails, LoadQueueMax, ReserveSlot, UndoSlot, Wake,
                    TimeOut, Cancel, Abandon, LeaveQueue, sem
      <4>2. ASSUME NEW r \in Requests, FirstPoll(r) \/ TryAcquire(r)
            PROVE  units' = [units EXCEPT ![r] = 0]
        <5>1. debt > 0 => available = 0
          BY DEF DebtFirst
        <5>2. available = 0 /\ Weight[r] >= 1 /\ Weight[r] \in Nat
          BY <2>0, <2>3, <4>2, <5>1, WeightType DEF FirstPoll, TryAcquire
        <5>3. ~TryAcquire(r) /\ (FirstPoll(r) => Park(r))
          BY <5>2 DEF FirstPoll, TryAcquire
        <5>. QED
          BY <4>2, <5>2, <5>3 DEF Park
      <4>3. ~Assign
        BY <2>0, <2>3 DEF Assign, DebtFirst
      <4>. QED
        BY <4>1, <4>2, <4>3 DEF Next, Deposit, Release, Resize, SetQueue, sem
    <3>2. ASSUME NEW u \in Admitted'
          PROVE  u \in Admitted
      <4>1. /\ u \in Requests \X (1 .. MaxWeight) /\ u[2] <= units'[u[1]]
            /\ units'[u[1]] = Weight[u[1]] /\ u[1] \in Requests /\ u[2] \in Nat /\ u[2] >= 1
        BY WeightAssumption DEF Admitted, InHand, Owned
      <4>2. units'[u[1]] = units[u[1]]
        BY <2>0, <3>1, <4>1
      <4>. QED
        BY <4>1, <4>2 DEF Admitted, InHand, Owned
    <3>3. Cardinality(Admitted') <= Cardinality(Admitted)
      BY <2>1, <3>2, FS_Subset
    <3>. QED
      BY <2>1, <3>3
  <2>. QED
    BY <2>0, <2>2, <2>3
<1>. QED
  BY <1>1, LimiterInvariant, DebtIsPaidFirst, PTL DEF Spec, NoOverAdmission

-----------------------------------------------------------------------------
(***************************************************************************)
(* The limiter implements the ceiling it promises, for any set of          *)
(* requests, weights, ceilings and queue bounds.  The holders are the      *)
(* requests that own their whole weight.                                   *)
(***************************************************************************)

Holders == {r \in Requests : units[r] = Weight[r]}

-----------------------------------------------------------------------------
(* Helpers                                                                 *)

\* min() of two counts means the same in the promise.
LEMMA PromisedMin ==
    ASSUME NEW x \in Nat, NEW y \in Nat
    PROVE  Promise!Min({x, y}) = Min({x, y})
BY DEF Min, Promise!Min

\* What the holders occupy is the admitted work.
LEMMA LoadIsAdmitted == Promise!Load(Holders) = Cardinality(Admitted)
<1>1. {u \in Holders \X (1 .. MaxWeight) : u[2] <= Weight[u[1]]} = Admitted
  BY DEF Holders, Admitted, InHand, Owned
<1>. QED
  BY <1>1, Zenon DEF Promise!Load, Promise!Cardinality, Cardinality

\* Room under the promised ceiling: all that is free or on its way, and what a
\* request that is still short has been given so far.
LEMMA RoomFacts ==
    ASSUME LimiterInv
    PROVE  /\ Promise!Room \in Nat
           /\ available + moving <= Promise!Room
           /\ \A r \in Requests : units[r] < Weight[r] => available + moving + units[r] <= Promise!Room
<1>. USE DEF LimiterInv
<1>1. IsFiniteSet(InHand)
  <2>1. IsFiniteSet(Requests) /\ IsFiniteSet(1 .. MaxWeight)
    BY RequestsAssumption, WeightAssumption, FS_Interval
  <2>2. IsFiniteSet(Requests \X (1 .. MaxWeight))
    BY <2>1, FS_Product, Zenon
  <2>. QED
    BY <2>2, FS_Subset DEF InHand, Owned
<1>2. Admitted \subseteq InHand
  BY DEF Admitted
<1>3. /\ IsFiniteSet(Admitted) /\ Cardinality(Admitted) \in Nat /\ Cardinality(InHand) \in Nat
      /\ Cardinality(Admitted) <= Cardinality(InHand)
  BY <1>1, <1>2, FS_Subset, FS_CardinalityType
<1>. DEFINE h == Cardinality(InHand)
            a == Cardinality(Admitted)
<1>4. Promise!Room = limit + debt - a
  BY LoadIsAdmitted DEF Promise!Room, Holders
<1>5. /\ limit \in Nat /\ debt \in Nat /\ available \in Nat /\ moving \in Nat
      /\ h \in Nat /\ a \in Nat /\ a <= h /\ available + moving + h = limit + debt
  BY <1>3 DEF TypeOK, UnitsConserved
<1>6. ASSUME NEW r \in Requests, units[r] < Weight[r]
      PROVE  units[r] \in Nat /\ a + units[r] <= h
  <2>. DEFINE Mine == {r} \X (1 .. units[r])
  <2>1. units[r] \in Nat /\ Weight[r] \in Nat /\ Weight[r] <= MaxWeight
    BY WeightType DEF TypeOK
  <2>2. Mine \subseteq InHand /\ Mine \cap Admitted = {}
    BY <1>6, <2>1, WeightAssumption DEF InHand, Owned, Admitted
  <2>3. IsFiniteSet(Mine) /\ Cardinality(Mine) = units[r]
    BY <2>1, UnitsOfOne
  <2>4. (Admitted \cup Mine) \in SUBSET InHand
    BY <1>2, <2>2
  <2>. HIDE DEF Mine
  <2>5. Cardinality(Admitted \cup Mine) <= h
    BY <1>1, <2>4, FS_Subset
  <2>6. Cardinality(Admitted \cup Mine) = Cardinality(Admitted) + Cardinality(Mine) - Cardinality(Admitted \cap Mine)
    BY <1>3, <2>3, FS_Union
  <2>7. Cardinality(Admitted \cap Mine) = 0
    <3>1. Admitted \cap Mine = {}
      BY <2>2
    <3>. QED
      BY <3>1, FS_EmptySet
  <2>. QED
    BY <1>5, <2>1, <2>3, <2>5, <2>6, <2>7
<1>. HIDE DEF h, a
<1>7. Promise!Room \in Nat /\ available + moving <= Promise!Room
  BY <1>4, <1>5
<1>8. ASSUME NEW r \in Requests, units[r] < Weight[r]
      PROVE  available + moving + units[r] <= Promise!Room
  BY <1>4, <1>5, <1>6, <1>8
<1>. QED
  BY <1>7, <1>8
-----------------------------------------------------------------------------
(* Steps of the limiter as steps of the promise                            *)

\* A request that obtains the rest of its weight, when there is room.
LEMMA AdmitStep ==
    ASSUME LimiterInv, NEW r \in Requests, units[r] # Weight[r], Weight[r] <= Promise!Room,
           units' = [units EXCEPT ![r] = Weight[r]], UNCHANGED <<limit, debt>>
    PROVE  Promise!Next
<1>1. units \in [Requests -> Nat]
  BY DEF LimiterInv, TypeOK
<1>2. Weight[r] \in Nat
  BY WeightType
<1>3. Promise!Room \in Nat
  BY RoomFacts
<1>4. Holders' = Holders \cup {r} /\ r \notin Holders
  BY <1>1 DEF Holders
<1>5. Promise!Admit(r)
  BY <1>2, <1>3, <1>4 DEF Promise!Admit, Holders
<1>. QED
  BY <1>5 DEF Promise!Next

\* A step after which the same requests own their whole weight is invisible.
LEMMA HiddenStep ==
    ASSUME UNCHANGED <<limit, debt>>,
           \A q \in Requests : units'[q] = Weight[q] <=> units[q] = Weight[q]
    PROVE  UNCHANGED <<limit, debt, Holders>>
<1>1. Holders' = Holders
  BY DEF Holders
<1>. QED
  BY <1>1

\* A request that loses what it owns leaves the holders, if it was one of them.
LEMMA LeftHolders ==
    ASSUME LimiterInv, NEW r \in Requests, units' = [units EXCEPT ![r] = 0]
    PROVE  Holders' = Holders \ {r}
BY WeightType DEF LimiterInv, TypeOK, Holders

LEMMA PromiseStep ==
    ASSUME LimiterInv, [Next]_vars
    PROVE  [Promise!Next]_<<limit, debt, Holders>>
<1>0. /\ units \in [Requests -> Nat] /\ limit \in Nat /\ debt \in Nat
      /\ available \in Nat /\ moving \in Nat /\ waiters \in Seq(Requests)
      /\ \A q \in Requests : units[q] \in Nat /\ units[q] <= Weight[q]
      /\ \A q \in Requests : Weight[q] \in Nat /\ Weight[q] >= 1
  BY WeightType DEF LimiterInv, TypeOK
<1>r. Promise!Room \in Nat /\ available + moving <= Promise!Room
  BY RoomFacts
<1>1. ASSUME NEW r \in Requests, TryAcquire(r) PROVE Promise!Next
  <2>1. units[r] = 0
    BY <1>1 DEF TryAcquire, LimiterInv, OwnedByStage
  <2>2. Weight[r] <= Promise!Room
    BY <1>0, <1>1, <1>r DEF TryAcquire
  <2>3. units[r] # Weight[r] /\ units' = [units EXCEPT ![r] = Weight[r]] /\ UNCHANGED <<limit, debt>>
    BY <1>0, <1>1, <2>1 DEF TryAcquire
  <2>. QED
    BY <2>2, <2>3, AdmitStep
<1>2. ASSUME NEW r \in Requests,
             TryAcquireFails(r) \/ LoadQueueMax(r) \/ ReserveSlot(r) \/ UndoSlot(r) \/ Wake(r)
             \/ LeaveQueue(r)
      PROVE  UNCHANGED <<limit, debt, Holders>>
  BY <1>2 DEF TryAcquireFails, LoadQueueMax, ReserveSlot, UndoSlot, Wake, LeaveQueue, sem, Holders
<1>3. ASSUME NEW r \in Requests, FirstPoll(r) PROVE [Promise!Next]_<<limit, debt, Holders>>
  <2>1. units[r] = 0 /\ UNCHANGED <<limit, debt>>
    BY <1>3 DEF FirstPoll, LimiterInv, OwnedByStage
  <2>2. CASE available >= Weight[r] /\ units' = [units EXCEPT ![r] = Weight[r]]
    <3>1. Weight[r] <= Promise!Room
      BY <1>0, <1>r, <2>2
    <3>2. units[r] # Weight[r]
      BY <1>0, <2>1
    <3>. QED
      BY <2>1, <2>2, <3>1, <3>2, AdmitStep
  <2>3. CASE Park(r)
    <3>1. \A q \in Requests : units'[q] = Weight[q] <=> units[q] = Weight[q]
      BY <1>0, <2>1, <2>3 DEF Park
    <3>. QED
      BY <2>1, <3>1, HiddenStep
  <2>. QED
    BY <1>3, <2>2, <2>3 DEF FirstPoll
<1>4. ASSUME NEW r \in Requests, Abandon(r) PROVE [Promise!Next]_<<limit, debt, Holders>>
  <2>1. Holders' = Holders \ {r} /\ UNCHANGED <<limit, debt>>
    BY <1>4, LeftHolders DEF Abandon
  <2>2. CASE r \in Holders
    <3>1. Promise!Withdraw(r)
      BY <2>1, <2>2 DEF Promise!Withdraw, Holders
    <3>. QED
      BY <3>1 DEF Promise!Next
  <2>3. CASE r \notin Holders
    BY <2>1, <2>3
  <2>. QED
    BY <2>2, <2>3
<1>5. ASSUME NEW r \in Requests, Release(r) PROVE Promise!Next
  <2>1. Holders' = Holders \ {r} /\ limit' = limit
    BY <1>5, LeftHolders DEF Release
  <2>2. r \in Holders
    BY <1>5 DEF Release, LimiterInv, OwnedByStage, Holders
  <2>3. debt' = debt - Promise!Min({debt, Weight[r]})
    BY <1>0, <1>5, PromisedMin DEF Release
  <2>4. Promise!Return(r)
    BY <2>1, <2>2, <2>3 DEF Promise!Return, Holders
  <2>. QED
    BY <2>4 DEF Promise!Next
<1>6. CASE Assign
  <2>. DEFINE r == Head(waiters)
              n == Min({moving, Weight[r] - units[r]})
  <2>1. waiters # <<>> /\ r \in Requests /\ units[r] < Weight[r]
    BY <1>0, <1>6 DEF Assign, LimiterInv, FifoOfShort
  <2>2. n \in Nat /\ n <= moving /\ n <= Weight[r] - units[r]
    BY <1>0, <2>1, MinOfTwo
  <2>3. units' = [units EXCEPT ![r] = units[r] + n] /\ UNCHANGED <<limit, debt>>
    BY <1>6 DEF Assign
  <2>4. available + moving + units[r] <= Promise!Room
    BY <2>1, RoomFacts
  <2>. HIDE DEF r, n
  <2>5. CASE units[r] + n = Weight[r]
    <3>1. Weight[r] <= Promise!Room
      BY <1>0, <1>r, <2>1, <2>2, <2>4, <2>5
    <3>2. units[r] # Weight[r]
      BY <1>0, <2>1
    <3>3. units' = [units EXCEPT ![r] = Weight[r]]
      BY <2>3, <2>5, Zenon
    <3>. QED
      BY <2>1, <2>3, <3>1, <3>2, <3>3, AdmitStep
  <2>6. CASE units[r] + n # Weight[r]
    <3>1. \A q \in Requests : units'[q] = Weight[q] <=> units[q] = Weight[q]
      BY <1>0, <2>1, <2>3, <2>6
    <3>. QED
      BY <2>3, <3>1, HiddenStep
  <2>. QED
    BY <2>5, <2>6
<1>7. ASSUME Deposit \/ UNCHANGED vars \/ \E m \in QueueMaxes : SetQueue(m)
      PROVE  UNCHANGED <<limit, debt, Holders>>
  BY <1>7 DEF Deposit, vars, SetQueue, sem, Holders
<1>8. ASSUME NEW m \in Limits, Resize(m) PROVE Promise!Next
  <2>1. limit' = m /\ Holders' = Holders /\ m \in Nat
    BY <1>8, LimitsAssumption DEF Resize, Holders
  <2>2. CASE Grow(m)
    <3>1. m > limit /\ debt' = debt - Promise!Min({debt, m - limit})
      <4>1. m > limit /\ m - limit \in Nat
        BY <1>0, <2>1, <2>2 DEF Grow
      <4>. QED
        BY <1>0, <2>2, <4>1, PromisedMin DEF Grow
    <3>2. Promise!Resize(m)
      BY <2>1, <3>1 DEF Promise!Resize, Holders
    <3>. QED
      BY <3>2 DEF Promise!Next
  <2>3. CASE Shrink(m)
    <3>. DEFINE forgotten == Min({available, limit - m})
    <3>1. m < limit /\ limit - m \in Nat
      BY <1>0, <2>1, <2>3 DEF Shrink
    <3>2. forgotten \in Nat /\ forgotten <= available /\ forgotten <= limit - m
      BY <1>0, <3>1, MinOfTwo
    <3>3. debt' = debt + (limit - m - forgotten)
      BY <2>3 DEF Shrink
    <3>4. /\ Promise!Min({Promise!Room, limit - m}) \in {Promise!Room, limit - m}
          /\ Promise!Min({Promise!Room, limit - m}) \in Nat
      BY <1>r, <3>1, MinOfTwo, PromisedMin
    <3>. HIDE DEF forgotten
    <3>5. forgotten \in 0 .. Promise!Min({Promise!Room, limit - m})
      BY <1>0, <1>r, <3>1, <3>2, <3>4
    <3>6. Promise!Resize(m)
      BY <2>1, <3>1, <3>3, <3>5 DEF Promise!Resize, Holders
    <3>. QED
      BY <3>6 DEF Promise!Next
  <2>. QED
    BY <1>8, <2>2, <2>3 DEF Resize
<1>. QED
  BY <1>1, <1>2, <1>3, <1>4, <1>5, <1>6, <1>7, <1>8 DEF Next, Acquire, TimeOut, Cancel

-----------------------------------------------------------------------------
\* With its queue, partial hand-overs, timeouts and cancellations, acquire,
\* Permit::drop and resize implement the ceiling of module Ceiling, on which
\* admission control is composed.
THEOREM LimiterKeepsPromise == Spec => KeepsPromise
<1>1. Init => Promise!Init
  <2>. SUFFICES ASSUME Init PROVE Promise!Init
    OBVIOUS
  <2>1. {r \in Requests : units[r] = Weight[r]} = {}
    BY WeightType DEF Init
  <2>. QED
    BY <2>1 DEF Init, Promise!Init
<1>2. LimiterInv /\ [Next]_vars => [Promise!Next]_<<limit, debt, {r \in Requests : units[r] = Weight[r]}>>
  BY PromiseStep DEF Holders
<1>. QED
  BY <1>1, <1>2, LimiterInvariant, PTL DEF Spec, KeepsPromise, Promise!Spec
=============================================================================
