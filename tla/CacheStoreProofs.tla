-------------------------- MODULE CacheStoreProofs --------------------------
(***************************************************************************)
(* The bounded cache, for any number of keys, tags, fills and readers, any *)
(* memory budget and either eviction policy.                               *)
(***************************************************************************)
EXTENDS CacheStore, FiniteSetTheorems, WellFoundedInduction, TLAPS

-----------------------------------------------------------------------------
(* Loops: reserve's turns and retain, by the least turn that goes wrong *)

LEMMA LeastNumber ==
    ASSUME NEW T, T \subseteq Nat, T # {}
    PROVE  \E x \in T : \A y \in T : x <= y
<1>. DEFINE R == OpToRel(<, Nat)
<1>1. R = {ss \in Nat \X Nat : ss[1] < ss[2]}
  BY Zenon DEF OpToRel
<1>2. IsWellFoundedOn(R, Nat)
  BY NatLessThanWellFounded, Zenon
<1>. HIDE DEF R
<1>3. PICK x \in T : \A y \in T : ~ (<<y, x>> \in R)
  BY <1>2, WFMin, Zenon
<1>4. ASSUME NEW y \in T PROVE x <= y
  <2>1. x \in Nat /\ y \in Nat
    OBVIOUS
  <2>2. <<y, x>> \notin R
    BY <1>3
  <2>3. y < x => <<y, x>> \in R
    BY <2>1, <1>1
  <2>. QED
    BY <2>1, <2>2, <2>3
<1>. QED
  BY <1>4

\* What holds of 0 and of the next number with a number holds of them all.
LEMMA Upwards ==
    ASSUME NEW S, 0 \in S, \A n \in Nat : n \in S => n + 1 \in S
    PROVE  Nat \subseteq S
<1>. SUFFICES ASSUME Nat \ S # {} PROVE FALSE
  OBVIOUS
<1>1. PICK x \in Nat \ S : \A y \in Nat \ S : x <= y
  BY LeastNumber, Zenon
<1>2. x # 0 /\ x - 1 \in Nat
  BY <1>1
<1>3. x - 1 \in S
  BY <1>1, <1>2
<1>. QED
  BY <1>1, <1>2, <1>3

\* One function gives every turn of the eviction loop.
LEMMA TurnsDefined ==
    ASSUME NEW start, NEW bytes, NEW n \in Nat
    PROVE  \E g : /\ g = [m \in 0 .. n |-> IF m = 0 THEN start ELSE EvictOne(g[m - 1], bytes)]
                  /\ Turns(start, bytes, n) = g[n]
<1>. DEFINE Is(g, h) == g = [m \in 0 .. h |-> IF m = 0 THEN start ELSE EvictOne(g[m - 1], bytes)]
            S == {h \in Nat : \E g : Is(g, h)}
<1>1. 0 \in S
  <2>1. Is([m \in 0 .. 0 |-> start], 0)
    OBVIOUS
  <2>. QED
    BY <2>1, Zenon
<1>2. ASSUME NEW h \in Nat, h \in S PROVE h + 1 \in S
  <2>1. PICK g : Is(g, h)
    BY <1>2
  <2>. DEFINE f == [m \in 0 .. h + 1 |-> IF m <= h THEN g[m] ELSE EvictOne(g[h], bytes)]
  <2>2. ASSUME NEW m \in 0 .. h + 1
        PROVE  f[m] = IF m = 0 THEN start ELSE EvictOne(f[m - 1], bytes)
    <3>1. CASE m = 0
      BY <2>1, <3>1
    <3>2. CASE m # 0 /\ m <= h
      <4>1. m \in 0 .. h /\ m - 1 \in 0 .. h + 1 /\ m - 1 <= h
        BY <3>2
      <4>2. f[m] = g[m] /\ f[m - 1] = g[m - 1]
        BY <4>1
      <4>3. g[m] = EvictOne(g[m - 1], bytes)
        BY <2>1, <4>1, <3>2
      <4>. QED
        BY <4>2, <4>3, <3>2
    <3>3. CASE m = h + 1
      <4>1. f[h + 1] = EvictOne(g[h], bytes) /\ f[h] = g[h] /\ m - 1 = h /\ m # 0
        BY <3>3
      <4>. QED
        BY <4>1, <3>3
    <3>. QED
      BY <3>1, <3>2, <3>3
  <2>3. Is(f, h + 1)
    <3>. HIDE DEF f
    <3>1. f = [m \in 0 .. h + 1 |-> f[m]]
      BY DEF f
    <3>. QED
      BY <3>1, <2>2, Zenon
  <2>4. \E t : Is(t, h + 1)
    <3>. HIDE DEF f, Is
    <3>. QED
      BY <2>3
  <2>. QED
    BY <2>4
<1>3. n \in S
  <2>. HIDE DEF S
  <2>. QED
    BY <1>1, <1>2, Upwards
<1>4. PICK g : Is(g, n)
  BY <1>3
<1>. DEFINE turn == CHOOSE t : Is(t, n)
<1>5. Is(turn, n)
  BY <1>4, Zenon
<1>6. Turns(start, bytes, n) = turn[n]
  BY DEF Turns
<1>. QED
  BY <1>5, <1>6, Zenon

\* What a turn preserves, with the number of turns taken, the loop preserves.
LEMMA TurnsRule ==
    ASSUME NEW start, NEW bytes, NEW n \in Nat, NEW P,
           start \in P[0],
           \A m \in Nat : \A s \in P[m] : EvictOne(s, bytes) \in P[m + 1]
    PROVE  Turns(start, bytes, n) \in P[n]
<1>1. PICK g : /\ g = [m \in 0 .. n |-> IF m = 0 THEN start ELSE EvictOne(g[m - 1], bytes)]
               /\ Turns(start, bytes, n) = g[n]
  BY TurnsDefined, Zenon
<1>. DEFINE S == {m \in Nat : m <= n => g[m] \in P[m]}
<1>2. 0 \in S
  BY <1>1
<1>3. ASSUME NEW m \in Nat, m \in S PROVE m + 1 \in S
  <2>. SUFFICES ASSUME m + 1 <= n PROVE g[m + 1] \in P[m + 1]
    OBVIOUS
  <2>1. g[m] \in P[m]
    BY <1>3
  <2>2. m + 1 \in 0 .. n /\ m + 1 # 0 /\ (m + 1) - 1 = m
    OBVIOUS
  <2>3. g[m + 1] = EvictOne(g[m], bytes)
    BY <1>1, <2>2
  <2>. QED
    BY <2>1, <2>3
<1>4. n \in S
  <2>. HIDE DEF S
  <2>. QED
    BY <1>2, <1>3, Upwards
<1>. QED
  BY <1>1, <1>4

\* One function gives every step of retain.
LEMMA WithoutDefined ==
    ASSUME NEW seq, NEW gone, Len(seq) \in Nat
    PROVE  \E g : /\ g = [n \in 0 .. Len(seq) |->
                              IF n = 0 THEN <<>>
                              ELSE IF seq[n] \in gone THEN g[n - 1] ELSE Append(g[n - 1], seq[n])]
                  /\ Without(seq, gone) = g[Len(seq)]
<1>. DEFINE Then(n, last) == IF n = 0 THEN <<>>
                             ELSE IF seq[n] \in gone THEN last ELSE Append(last, seq[n])
            Is(g, h) == g = [n \in 0 .. h |-> Then(n, g[n - 1])]
            S == {h \in Nat : \E g : Is(g, h)}
<1>1. 0 \in S
  <2>1. Is([n \in 0 .. 0 |-> <<>>], 0)
    OBVIOUS
  <2>. QED
    BY <2>1, Zenon
<1>2. ASSUME NEW h \in Nat, h \in S PROVE h + 1 \in S
  <2>1. PICK g : Is(g, h)
    BY <1>2
  <2>. DEFINE f == [n \in 0 .. h + 1 |-> IF n <= h THEN g[n] ELSE Then(h + 1, g[h])]
  <2>. HIDE DEF Then
  <2>2. ASSUME NEW n \in 0 .. h + 1 PROVE f[n] = Then(n, f[n - 1])
    <3>1. CASE n = 0
      BY <2>1, <3>1 DEF Then
    <3>2. CASE n # 0 /\ n <= h
      <4>1. n \in 0 .. h /\ n - 1 \in 0 .. h + 1 /\ n - 1 <= h
        BY <3>2
      <4>2. f[n] = g[n] /\ f[n - 1] = g[n - 1]
        BY <4>1
      <4>3. g[n] = Then(n, g[n - 1])
        BY <2>1, <4>1, <3>2
      <4>. QED
        BY <4>2, <4>3, <3>2
    <3>3. CASE n = h + 1
      <4>1. f[h + 1] = Then(h + 1, g[h]) /\ f[h] = g[h] /\ n - 1 = h /\ n # 0
        BY <3>3
      <4>. QED
        BY <4>1, <3>3
    <3>. QED
      BY <3>1, <3>2, <3>3
  <2>3. Is(f, h + 1)
    <3>. HIDE DEF f
    <3>1. f = [n \in 0 .. h + 1 |-> f[n]]
      BY DEF f
    <3>. QED
      BY <3>1, <2>2
  <2>4. \E t : Is(t, h + 1)
    <3>. HIDE DEF f, Is
    <3>. QED
      BY <2>3
  <2>. QED
    BY <2>4
<1>3. Len(seq) \in S
  <2>. HIDE DEF S
  <2>. QED
    BY <1>1, <1>2, Upwards
<1>4. PICK g : Is(g, Len(seq))
  BY <1>3
<1>. DEFINE kept == CHOOSE t : Is(t, Len(seq))
<1>5. Is(kept, Len(seq))
  BY <1>4, Zenon
<1>6. Without(seq, gone) = kept[Len(seq)]
  BY DEF Without
<1>. QED
  BY <1>5, <1>6, Zenon

\* What a step of retain preserves, retain preserves.
LEMMA WithoutRule ==
    ASSUME NEW seq, NEW gone, Len(seq) \in Nat, NEW P,
           <<>> \in P[0],
           \A n \in 1 .. Len(seq) : \A s \in P[n - 1] :
              (IF seq[n] \in gone THEN s ELSE Append(s, seq[n])) \in P[n]
    PROVE  Without(seq, gone) \in P[Len(seq)]
<1>1. PICK g : /\ g = [n \in 0 .. Len(seq) |->
                           IF n = 0 THEN <<>>
                           ELSE IF seq[n] \in gone THEN g[n - 1] ELSE Append(g[n - 1], seq[n])]
               /\ Without(seq, gone) = g[Len(seq)]
  BY WithoutDefined, Zenon
<1>. DEFINE S == {n \in Nat : n <= Len(seq) => g[n] \in P[n]}
<1>2. 0 \in S
  BY <1>1
<1>3. ASSUME NEW n \in Nat, n \in S PROVE n + 1 \in S
  <2>. SUFFICES ASSUME n + 1 <= Len(seq) PROVE g[n + 1] \in P[n + 1]
    OBVIOUS
  <2>1. g[n] \in P[n]
    BY <1>3
  <2>2. n + 1 \in 0 .. Len(seq) /\ n + 1 # 0 /\ (n + 1) - 1 = n /\ n + 1 \in 1 .. Len(seq)
    OBVIOUS
  <2>3. g[n + 1] = IF seq[n + 1] \in gone THEN g[n] ELSE Append(g[n], seq[n + 1])
    BY <1>1, <2>2, Zenon
  <2>. QED
    BY <2>1, <2>2, <2>3
<1>4. Len(seq) \in S
  <2>. HIDE DEF S
  <2>. QED
    BY <1>2, <1>3, Upwards
<1>. QED
  BY <1>1, <1>4

\* A finite set of numbers that is not empty has a largest one.
LEMMA LargestNumber ==
    ASSUME NEW S, S \subseteq Nat, S # {}, IsFiniteSet(S)
    PROVE  Max(S) \in S
<1>. DEFINE N == {n \in Nat : \A T \in SUBSET Nat :
                     IsFiniteSet(T) /\ Cardinality(T) = n + 1 => \E x \in T : \A y \in T : x >= y}
<1>1. 0 \in N
  <2>. SUFFICES ASSUME NEW T \in SUBSET Nat, IsFiniteSet(T), Cardinality(T) = 1
                PROVE  \E x \in T : \A y \in T : x >= y
    OBVIOUS
  <2>1. PICK x : T = {x}
    BY FS_Singleton
  <2>. QED
    BY <2>1
<1>2. ASSUME NEW n \in Nat, n \in N PROVE n + 1 \in N
  <2>. SUFFICES ASSUME NEW T \in SUBSET Nat, IsFiniteSet(T), Cardinality(T) = n + 2
                PROVE  \E x \in T : \A y \in T : x >= y
    OBVIOUS
  <2>1. T # {}
    BY FS_EmptySet
  <2>2. PICK z \in T : TRUE
    BY <2>1, Zenon
  <2>3. IsFiniteSet(T \ {z}) /\ Cardinality(T \ {z}) = n + 1
    BY FS_RemoveElement
  <2>4. PICK x \in T \ {z} : \A y \in T \ {z} : x >= y
    BY <1>2, <2>3
  <2>5. CASE x >= z
    BY <2>4, <2>5
  <2>6. CASE x < z
    BY <2>4, <2>6
  <2>. QED
    BY <2>4, <2>5, <2>6
<1>3. Cardinality(S) - 1 \in N
  <2>1. Cardinality(S) \in Nat /\ Cardinality(S) # 0
    BY FS_EmptySet, FS_CardinalityType
  <2>. HIDE DEF N
  <2>. QED
    BY <2>1, <1>1, <1>2, Upwards
<1>4. \E x \in S : \A y \in S : x >= y
  BY <1>3, FS_CardinalityType
<1>. QED
  BY <1>4, Zenon DEF Max

-----------------------------------------------------------------------------
(* Bytes: sums of sizes *)

\* The bytes that Total counts.
Units(size) == {b \in (DOMAIN size) \X (1 .. MaxSize) : b[2] <= size[b[1]]}

LEMMA UnitsFinite ==
    ASSUME NEW S, IsFiniteSet(S), NEW f \in [S -> 0 .. MaxSize]
    PROVE  /\ IsFiniteSet(Units(f)) /\ Total(f) = Cardinality(Units(f)) /\ Total(f) \in Nat
<1>1. MaxSize \in Nat
  BY StoreAssumption DEF MaxSize
<1>2. IsFiniteSet(1 .. MaxSize)
  BY <1>1, FS_Interval
<1>3. IsFiniteSet(S \X (1 .. MaxSize))
  BY <1>2, FS_Product, Zenon
<1>4. IsFiniteSet(Units(f))
  <2>1. Units(f) \subseteq S \X (1 .. MaxSize)
    BY DEF Units
  <2>. QED
    BY <2>1, <1>3, FS_Subset
<1>5. Total(f) = Cardinality(Units(f))
  BY DEF Total, Units
<1>. QED
  BY <1>4, <1>5, FS_CardinalityType

LEMMA UnitsOfOne ==
    ASSUME NEW j, NEW n \in Nat
    PROVE  IsFiniteSet({j} \X (1 .. n)) /\ Cardinality({j} \X (1 .. n)) = n
<1>1. IsFiniteSet({j}) /\ Cardinality({j}) = 1
  BY FS_Singleton
<1>2. IsFiniteSet(1 .. n) /\ Cardinality(1 .. n) = n
  BY FS_Interval
<1>3. /\ IsFiniteSet({j} \X (1 .. n))
      /\ Cardinality({j} \X (1 .. n)) = Cardinality({j}) * Cardinality(1 .. n)
  BY <1>1, <1>2, FS_Product, Zenon
<1>. QED
  BY <1>1, <1>2, <1>3

\* Sets of bytes that do not meet add up.
LEMMA Disjoint ==
    ASSUME NEW A, NEW B, IsFiniteSet(A), IsFiniteSet(B), A \cap B = {}
    PROVE  Cardinality(A \cup B) = Cardinality(A) + Cardinality(B)
<1>1. Cardinality(A \cup B) = Cardinality(A) + Cardinality(B) - Cardinality({})
  BY FS_Union
<1>. QED
  BY <1>1, FS_EmptySet, FS_CardinalityType

\* Changing one size changes the total by as much.
LEMMA TotalUpdate ==
    ASSUME NEW S, IsFiniteSet(S), NEW f \in [S -> 0 .. MaxSize],
           NEW j \in S, NEW n \in 0 .. MaxSize
    PROVE  /\ Total([f EXCEPT ![j] = n]) = Total(f) - f[j] + n
           /\ Total(f) \in Nat /\ Total(f) >= f[j] /\ f[j] \in Nat
<1>. DEFINE g == [f EXCEPT ![j] = n]
            Rest == {u \in Units(f) : u[1] # j}
            Mine(k) == {j} \X (1 .. k)
<1>0. MaxSize \in Nat
  BY StoreAssumption DEF MaxSize
<1>1. Units(f) = Rest \cup Mine(f[j]) /\ Rest \cap Mine(f[j]) = {}
  BY <1>0 DEF Units
<1>2. Units(g) = Rest \cup Mine(n) /\ Rest \cap Mine(n) = {}
  <2>1. Units(g) \subseteq Rest \cup Mine(n)
    BY <1>0 DEF Units
  <2>2. Rest \cup Mine(n) \subseteq Units(g)
    BY <1>0 DEF Units
  <2>. QED
    BY <2>1, <2>2, Zenon
<1>3. IsFiniteSet(Units(f)) /\ Total(f) = Cardinality(Units(f)) /\ Total(f) \in Nat
  BY UnitsFinite
<1>4. Total(g) = Cardinality(Units(g))
  BY DEF Total, Units
<1>5. IsFiniteSet(Rest)
  BY <1>3, FS_Subset
<1>6. f[j] \in Nat /\ n \in Nat
  BY <1>0
<1>7. /\ IsFiniteSet(Mine(f[j])) /\ Cardinality(Mine(f[j])) = f[j]
      /\ IsFiniteSet(Mine(n)) /\ Cardinality(Mine(n)) = n
  BY <1>6, UnitsOfOne, Zenon
<1>8. Cardinality(Rest) \in Nat
  BY <1>5, FS_CardinalityType
<1>. HIDE DEF g, Rest, Mine
<1>9. Cardinality(Units(f)) = Cardinality(Rest) + f[j]
  BY <1>1, <1>5, <1>7, Disjoint
<1>10. Cardinality(Units(g)) = Cardinality(Rest) + n
  BY <1>2, <1>5, <1>7, Disjoint
<1>. QED
  BY <1>3, <1>4, <1>6, <1>8, <1>9, <1>10 DEF g

\* Taking away the sizes of some owners takes away their total.
LEMMA TotalSplit ==
    ASSUME NEW S, IsFiniteSet(S), NEW f \in [S -> 0 .. MaxSize], NEW D \in SUBSET S
    PROVE  /\ Total([j \in S |-> IF j \in D THEN 0 ELSE f[j]]) = Total(f) - Total([j \in D |-> f[j]])
           /\ Total(f) \in Nat /\ Total([j \in D |-> f[j]]) \in Nat
           /\ Total([j \in D |-> f[j]]) <= Total(f)
<1>. DEFINE g == [j \in S |-> IF j \in D THEN 0 ELSE f[j]]
            d == [j \in D |-> f[j]]
<1>0. MaxSize \in Nat
  BY StoreAssumption DEF MaxSize
<1>1. g \in [S -> 0 .. MaxSize] /\ d \in [D -> 0 .. MaxSize] /\ IsFiniteSet(D)
  BY <1>0, FS_Subset
<1>2. Units(f) = Units(g) \cup Units(d) /\ Units(g) \cap Units(d) = {}
  <2>1. Units(f) \subseteq Units(g) \cup Units(d)
    BY <1>0 DEF Units
  <2>2. Units(g) \cup Units(d) \subseteq Units(f)
    BY <1>0 DEF Units
  <2>3. Units(g) \cap Units(d) = {}
    BY <1>0 DEF Units
  <2>. QED
    BY <2>1, <2>2, <2>3
<1>. HIDE DEF g, d
<1>3. /\ IsFiniteSet(Units(f)) /\ Total(f) = Cardinality(Units(f)) /\ Total(f) \in Nat
      /\ IsFiniteSet(Units(g)) /\ Total(g) = Cardinality(Units(g)) /\ Total(g) \in Nat
      /\ IsFiniteSet(Units(d)) /\ Total(d) = Cardinality(Units(d)) /\ Total(d) \in Nat
  BY <1>1, UnitsFinite
<1>4. Total(f) = Total(g) + Total(d)
  BY <1>2, <1>3, Disjoint
<1>. QED
  BY <1>3, <1>4 DEF g, d

-----------------------------------------------------------------------------
(* The eviction queue *)

\* A queue has exactly the keys of a set, each once.
Queue(o, E) ==
    /\ o \in Seq(Keys)
    /\ \A a, b \in 1 .. Len(o) : o[a] = o[b] => a = b
    /\ \A k : k \in E <=> \E n \in 1 .. Len(o) : o[n] = k

LEMMA QueueAppend ==
    ASSUME NEW o, NEW E, Queue(o, E), NEW k \in Keys, k \notin E
    PROVE  Queue(Append(o, k), E \cup {k}) /\ Len(Append(o, k)) = Len(o) + 1
<1>. DEFINE p == Append(o, k)
<1>1. o \in Seq(Keys) /\ Len(o) \in Nat
  BY DEF Queue
<1>2. /\ p \in Seq(Keys) /\ Len(p) = Len(o) + 1
      /\ \A n \in 1 .. Len(o) : p[n] = o[n]
      /\ p[Len(o) + 1] = k
  BY <1>1
<1>. HIDE DEF p
<1>3. \A a, b \in 1 .. Len(p) : p[a] = p[b] => a = b
  <2>. SUFFICES ASSUME NEW a \in 1 .. Len(p), NEW b \in 1 .. Len(p), p[a] = p[b] PROVE a = b
    OBVIOUS
  <2>1. a \in 1 .. Len(o) \/ a = Len(o) + 1
    BY <1>1, <1>2
  <2>2. b \in 1 .. Len(o) \/ b = Len(o) + 1
    BY <1>1, <1>2
  <2>. QED
    BY <2>1, <2>2, <1>2 DEF Queue
<1>4. \A x : x \in E \cup {k} <=> \E n \in 1 .. Len(p) : p[n] = x
  <2>. TAKE x
  <2>1. ASSUME x \in E PROVE \E n \in 1 .. Len(p) : p[n] = x
    <3>1. PICK n \in 1 .. Len(o) : o[n] = x
      BY <2>1 DEF Queue
    <3>2. n \in 1 .. Len(p) /\ p[n] = x
      BY <3>1, <1>1, <1>2
    <3>. QED
      BY <3>2
  <2>2. \E n \in 1 .. Len(p) : p[n] = k
    BY <1>1, <1>2
  <2>3. ASSUME NEW n \in 1 .. Len(p), p[n] = x PROVE x \in E \cup {k}
    <3>1. n \in 1 .. Len(o) \/ n = Len(o) + 1
      BY <1>1, <1>2
    <3>. QED
      BY <3>1, <2>3, <1>2 DEF Queue
  <2>. QED
    BY <2>1, <2>2, <2>3
<1>. QED
  BY <1>2, <1>3, <1>4 DEF Queue, p

LEMMA QueueTail ==
    ASSUME NEW o, NEW E, Queue(o, E), o # <<>>
    PROVE  /\ Head(o) \in E /\ Head(o) \in Keys
           /\ Queue(Tail(o), E \ {Head(o)}) /\ Len(Tail(o)) = Len(o) - 1
<1>. DEFINE p == Tail(o)
<1>1. o \in Seq(Keys) /\ Len(o) \in Nat /\ Len(o) # 0 /\ Head(o) = o[1]
  BY DEF Queue
<1>2. /\ p \in Seq(Keys) /\ Len(p) = Len(o) - 1
      /\ \A n \in 1 .. Len(p) : p[n] = o[n + 1]
  BY <1>1
<1>. HIDE DEF p
<1>3. Head(o) \in E /\ Head(o) \in Keys
  <2>1. 1 \in 1 .. Len(o)
    BY <1>1
  <2>. QED
    BY <1>1, <2>1 DEF Queue
<1>4. \A a, b \in 1 .. Len(p) : p[a] = p[b] => a = b
  <2>. SUFFICES ASSUME NEW a \in 1 .. Len(p), NEW b \in 1 .. Len(p), p[a] = p[b] PROVE a = b
    OBVIOUS
  <2>1. a + 1 \in 1 .. Len(o) /\ b + 1 \in 1 .. Len(o) /\ o[a + 1] = o[b + 1]
    BY <1>1, <1>2
  <2>2. a + 1 = b + 1
    BY <2>1 DEF Queue
  <2>. QED
    BY <2>2
<1>5. \A x : x \in E \ {Head(o)} <=> \E n \in 1 .. Len(p) : p[n] = x
  <2>. TAKE x
  <2>1. ASSUME x \in E, x # Head(o) PROVE \E n \in 1 .. Len(p) : p[n] = x
    <3>1. PICK n \in 1 .. Len(o) : o[n] = x
      BY <2>1 DEF Queue
    <3>2. n # 1
      BY <3>1, <2>1, <1>1
    <3>3. n - 1 \in 1 .. Len(p) /\ (n - 1) + 1 = n
      BY <3>2, <1>1, <1>2
    <3>4. p[n - 1] = x
      BY <3>1, <3>3, <1>2
    <3>. QED
      BY <3>3, <3>4
  <2>2. ASSUME NEW n \in 1 .. Len(p), p[n] = x PROVE x \in E /\ x # Head(o)
    <3>1. n + 1 \in 1 .. Len(o) /\ o[n + 1] = x /\ 1 \in 1 .. Len(o) /\ n + 1 # 1
      BY <2>2, <1>1, <1>2
    <3>2. x \in E
      BY <3>1 DEF Queue
    <3>3. x # o[1]
      BY <3>1 DEF Queue
    <3>. QED
      BY <3>2, <3>3, <1>1
  <2>. QED
    BY <2>1, <2>2
<1>. QED
  BY <1>2, <1>3, <1>4, <1>5 DEF Queue, p

\* A queue is as long as it has keys.
LEMMA QueueLength ==
    ASSUME NEW o, NEW E, Queue(o, E)
    PROVE  /\ Range(o) = E /\ Len(o) = Cardinality(E) /\ Len(o) \in Nat /\ E \subseteq Keys
           /\ (o = <<>> <=> E = {})
<1>1. o \in Seq(Keys) /\ Len(o) \in Nat /\ o \in [1 .. Len(o) -> Keys] /\ DOMAIN o = 1 .. Len(o)
  BY DEF Queue
<1>2. \A n \in 1 .. Len(o) : o[n] \in E
  BY DEF Queue
<1>3. o \in [1 .. Len(o) -> E]
  BY <1>1, <1>2
<1>4. o \in Bijection(1 .. Len(o), E)
  BY <1>3 DEF Queue, Bijection, Injection, Surjection, IsInjective
<1>5. ExistsBijection(1 .. Len(o), E)
  BY <1>4 DEF ExistsBijection
<1>6. Len(o) = Cardinality(E)
  BY <1>1, <1>5, FS_CountingElements
<1>7. Range(o) = E
  BY <1>1 DEF Queue, Range
<1>8. E \subseteq Keys
  BY <1>1 DEF Queue
<1>9. o = <<>> => E = {}
  BY DEF Queue
<1>10. E = {} => o = <<>>
  <2>1. E = {} => Len(o) = 0
    BY <1>6, FS_EmptySet
  <2>. QED
    BY <2>1, <1>1
<1>. QED
  BY <1>1, <1>6, <1>7, <1>8, <1>9, <1>10

LEMMA QueueEmpty == Queue(<<>>, {})
<1>1. <<>> \in Seq(Keys) /\ Len(<<>>) = 0
  OBVIOUS
<1>. QED
  BY <1>1 DEF Queue

\* retain leaves the other keys in the queue.
LEMMA QueueWithout ==
    ASSUME NEW o, NEW E, Queue(o, E), NEW gone
    PROVE  Queue(Without(o, gone), E \ gone)
<1>. DEFINE First(n) == {o[m] : m \in 1 .. n}
            P == [n \in Nat |-> {p \in Seq(Keys) : Queue(p, First(n) \ gone)}]
<1>0. o \in Seq(Keys) /\ Len(o) \in Nat
  BY DEF Queue
<1>1. <<>> \in P[0]
  <2>1. First(0) \ gone = {}
    OBVIOUS
  <2>2. Queue(<<>>, First(0) \ gone)
    <3>. HIDE DEF First
    <3>. QED
      BY <2>1, QueueEmpty
  <2>3. <<>> \in Seq(Keys)
    OBVIOUS
  <2>. HIDE DEF First
  <2>. QED
    BY <2>2, <2>3
<1>2. ASSUME NEW n \in 1 .. Len(o), NEW p \in P[n - 1]
      PROVE  (IF o[n] \in gone THEN p ELSE Append(p, o[n])) \in P[n]
  <2>1. n \in Nat /\ n - 1 \in Nat /\ o[n] \in Keys
    BY <1>0
  <2>2. p \in Seq(Keys) /\ Queue(p, First(n - 1) \ gone)
    BY <1>2, <2>1
  <2>3. First(n) = First(n - 1) \cup {o[n]}
    BY <2>1
  <2>4. o[n] \notin First(n - 1)
    <3>. SUFFICES ASSUME NEW m \in 1 .. n - 1, o[m] = o[n] PROVE FALSE
      OBVIOUS
    <3>1. m \in 1 .. Len(o) /\ m # n
      BY <1>0, <2>1
    <3>. QED
      BY <3>1 DEF Queue
  <2>. HIDE DEF First
  <2>5. CASE o[n] \in gone
    <3>1. First(n) \ gone = First(n - 1) \ gone
      BY <2>5, <2>3
    <3>. QED
      BY <2>1, <2>2, <2>5, <3>1, Zenon
  <2>6. CASE o[n] \notin gone
    <3>1. First(n) \ gone = (First(n - 1) \ gone) \cup {o[n]} /\ o[n] \notin First(n - 1) \ gone
      BY <2>3, <2>4, <2>6
    <3>2. Queue(Append(p, o[n]), First(n) \ gone)
      BY <2>1, <2>2, <3>1, QueueAppend
    <3>3. Append(p, o[n]) \in Seq(Keys)
      BY <3>2 DEF Queue
    <3>. QED
      BY <2>1, <2>6, <3>2, <3>3
  <2>. QED
    BY <2>5, <2>6
<1>3. Without(o, gone) \in P[Len(o)]
  <2>. HIDE DEF P
  <2>. QED
    BY <1>0, <1>1, <1>2, WithoutRule
<1>4. First(Len(o)) = E
  BY DEF Queue
<1>. QED
  BY <1>0, <1>3, <1>4, Zenon

-----------------------------------------------------------------------------
(* The store: entries, queue, index and bytes *)

Paths == {None} \cup {PathOf[k] : k \in Keys}

Entry == [from : Fills, meta : 1 .. MaxMeta, len : 0 .. MaxChunks,
          tags : SUBSET Tags, path : Paths, visited : BOOLEAN]

Slots == [Keys -> Entry \cup {Absent}]

EntriesOf(c) == {k \in Keys : c[k] # Absent}
IndexOf(c) == {x \in Tags \X Keys : c[x[2]] # Absent /\ x[1] \in c[x[2]].tags}
SizesOf(c) == [k \in Keys |-> Size(c[k])]

\* The queue and the index agree with the entries.
Consistent(c, o, x) == c \in Slots /\ Queue(o, EntriesOf(c)) /\ x = IndexOf(c)

LEMMA EntryFacts ==
    /\ \A e \in Entry : e # Absent /\ Size(e) = e.meta + e.len
    /\ \A e \in Entry \cup {Absent} : Size(e) \in 0 .. MaxSize
<1>1. 0 \notin Fills
  BY StoreAssumption
<1>2. ASSUME NEW e \in Entry PROVE e # Absent
  <2>1. e.from \in Fills
    BY DEF Entry
  <2>2. Absent.from = 0
    BY DEF Absent
  <2>. QED
    BY <1>1, <2>1, <2>2
<1>3. ASSUME NEW e \in Entry PROVE Size(e) = e.meta + e.len /\ Size(e) \in 0 .. MaxSize
  <2>1. e.meta \in 1 .. MaxMeta /\ e.len \in 0 .. MaxChunks
    BY DEF Entry
  <2>2. Size(e) = e.meta + e.len
    BY <1>2 DEF Size
  <2>. QED
    BY <2>1, <2>2, StoreAssumption DEF MaxSize
<1>4. Size(Absent) \in 0 .. MaxSize
  BY StoreAssumption DEF Size, MaxSize
<1>. QED
  BY <1>2, <1>3, <1>4

LEMMA SizesFacts ==
    ASSUME NEW c \in Slots
    PROVE  SizesOf(c) \in [Keys -> 0 .. MaxSize] /\ Total(SizesOf(c)) \in Nat
<1>1. SizesOf(c) \in [Keys -> 0 .. MaxSize]
  BY EntryFacts DEF SizesOf, Slots
<1>. QED
  BY <1>1, StoreAssumption, UnitsFinite

\* The index when e takes the place of what the key had.
Reindexed(index, k, had, e) ==
    (IF had = Absent THEN index ELSE Unindex(index, k, had.tags))
    \cup (IF e = Absent THEN {} ELSE e.tags \X {k})

\* What changing one key does to the bytes, the index and the set of entries.
LEMMA SetKey ==
    ASSUME NEW c \in Slots, NEW k \in Keys, NEW e \in Entry \cup {Absent},
           NEW d, d = [c EXCEPT ![k] = e]
    PROVE  /\ d \in Slots
           /\ Total(SizesOf(d)) = Total(SizesOf(c)) - Size(c[k]) + Size(e)
           /\ Total(SizesOf(c)) \in Nat /\ Total(SizesOf(c)) >= Size(c[k])
           /\ Size(c[k]) \in Nat /\ Size(e) \in Nat
           /\ IndexOf(d) = Reindexed(IndexOf(c), k, c[k], e)
           /\ EntriesOf(d) = (EntriesOf(c) \ {k}) \cup (IF e = Absent THEN {} ELSE {k})
<1>1. d \in Slots /\ c[k] \in Entry \cup {Absent}
  BY DEF Slots
<1>2. DOMAIN c = Keys
  BY DEF Slots
<1>3. SizesOf(d) = [SizesOf(c) EXCEPT ![k] = Size(e)]
  BY <1>2, Zenon DEF SizesOf
<1>4. SizesOf(c) \in [Keys -> 0 .. MaxSize] /\ SizesOf(c)[k] = Size(c[k])
  BY SizesFacts, Zenon DEF SizesOf
<1>5. Size(e) \in 0 .. MaxSize /\ Size(c[k]) \in 0 .. MaxSize
  BY <1>1, EntryFacts
<1>6. /\ Total(SizesOf(d)) = Total(SizesOf(c)) - Size(c[k]) + Size(e)
      /\ Total(SizesOf(c)) \in Nat /\ Total(SizesOf(c)) >= Size(c[k])
  <2>. DEFINE f == SizesOf(c)
              n == Size(e)
  <2>1. f \in [Keys -> 0 .. MaxSize] /\ n \in 0 .. MaxSize /\ IsFiniteSet(Keys)
    BY <1>4, <1>5, StoreAssumption
  <2>. HIDE DEF f, n
  <2>2. Total([f EXCEPT ![k] = n]) = Total(f) - f[k] + n /\ Total(f) \in Nat /\ Total(f) >= f[k]
    BY <2>1, TotalUpdate, Zenon
  <2>3. Total(SizesOf(d)) = Total(f) - f[k] + n
    BY <2>2, <1>3 DEF f, n
  <2>4. f[k] = Size(c[k])
    BY <1>4 DEF f
  <2>. QED
    BY <2>2, <2>3, <2>4 DEF f, n
<1>7. EntriesOf(d) = (EntriesOf(c) \ {k}) \cup (IF e = Absent THEN {} ELSE {k})
  BY <1>2 DEF EntriesOf
<1>8. IndexOf(d) = Reindexed(IndexOf(c), k, c[k], e)
  <2>0. e # Absent => e.tags \subseteq Tags
    BY DEF Entry
  <2>. DEFINE X == (IF c[k] = Absent THEN IndexOf(c) ELSE Unindex(IndexOf(c), k, c[k].tags))
                   \cup (IF e = Absent THEN {} ELSE e.tags \X {k})
  <2>1. ASSUME NEW x \in Tags \X Keys PROVE x \in IndexOf(d) <=> x \in X
    <3>1. CASE x[2] = k
      <4>1. x \in IndexOf(d) <=> e # Absent /\ x[1] \in e.tags
        BY <3>1, <1>2 DEF IndexOf
      <4>2. x \in X <=> e # Absent /\ x[1] \in e.tags
        BY <3>1 DEF IndexOf, Unindex
      <4>. QED
        BY <4>1, <4>2
    <3>2. CASE x[2] # k
      <4>1. x \in IndexOf(d) <=> x \in IndexOf(c)
        BY <3>2, <1>2 DEF IndexOf
      <4>2. x \in X <=> x \in IndexOf(c)
        BY <3>2 DEF Unindex
      <4>. QED
        BY <4>1, <4>2
    <3>. QED
      BY <3>1, <3>2
  <2>2. IndexOf(d) \subseteq Tags \X Keys
    BY DEF IndexOf
  <2>3. X \subseteq Tags \X Keys
    BY <2>0 DEF IndexOf, Unindex
  <2>. HIDE DEF X
  <2>4. IndexOf(d) = X
    BY <2>1, <2>2, <2>3, Zenon
  <2>. QED
    BY <2>4, Zenon DEF X, Reindexed
<1>9. Size(c[k]) \in Nat /\ Size(e) \in Nat
  BY <1>5, StoreAssumption DEF MaxSize
<1>. QED
  BY <1>1, <1>6, <1>7, <1>8, <1>9, Zenon

-----------------------------------------------------------------------------
(* reserve *)

\* Entries only go, and what stays is as it was but for its second chance.
Thinned(c, was) ==
    \A k \in Keys : \/ c[k] = Absent
                    \/ was[k] # Absent /\ c[k] = [was[k] EXCEPT !.visited = c[k].visited]

Stores == [order : Seq(Keys), cached : Slots, index : SUBSET (Tags \X Keys), used : Int, chances : Nat]

\* The store after m turns of a loop that has L: what it leaves alone, what it
\* keeps right, and that it runs out of chances and entries.
Turning(s, was, others, most, bytes, L, m) ==
    /\ s \in Stores
    /\ Consistent(s.cached, s.order, s.index)
    /\ s.used = Total(SizesOf(s.cached)) + others
    /\ s.used <= most
    /\ Thinned(s.cached, was)
    /\ \/ s.used + bytes <= max_bytes
       \/ s.order = <<>>
       \/ s.chances + Len(s.order) <= L - m

LEMMA TurnStep ==
    ASSUME NEW was \in Slots, NEW others \in Nat, NEW most \in Nat, NEW bytes \in Nat,
           NEW L \in Nat, NEW m \in Nat, NEW s, Turning(s, was, others, most, bytes, L, m)
    PROVE  Turning(EvictOne(s, bytes), was, others, most, bytes, L, m + 1)
<1>0. /\ s \in Stores /\ s.cached \in Slots /\ s.order \in Seq(Keys) /\ s.index = IndexOf(s.cached)
      /\ Queue(s.order, EntriesOf(s.cached)) /\ s.used \in Int /\ s.chances \in Nat
      /\ Len(s.order) \in Nat /\ max_bytes \in Nat
  BY StoreAssumption DEF Turning, Stores, Consistent
<1>1. CASE s.used + bytes <= max_bytes \/ s.order = <<>>
  BY <1>1 DEF Turning, EvictOne
<1>2. CASE ~ (s.used + bytes <= max_bytes \/ s.order = <<>>)
  <2>. DEFINE v == Head(s.order)
              c == s.cached
  <2>1. /\ v \in EntriesOf(c) /\ v \in Keys
        /\ Queue(Tail(s.order), EntriesOf(c) \ {v}) /\ Len(Tail(s.order)) = Len(s.order) - 1
    BY <1>0, <1>2, QueueTail
  <2>2. c[v] \in Entry /\ c[v] # Absent
    BY <2>1, <1>0 DEF EntriesOf, Slots
  <2>3. s.chances + Len(s.order) <= L - m
    BY <1>2 DEF Turning
  <2>4. CASE s.chances > 0 /\ c[v].visited
    <3>. DEFINE e == [c[v] EXCEPT !.visited = FALSE]
                d == [c EXCEPT ![v] = e]
                t == [s EXCEPT !.order = Append(Tail(@), v), !.chances = @ - 1, !.cached[v].visited = FALSE]
    <3>1. EvictOne(s, bytes) = t
      BY <1>2, <2>4 DEF EvictOne
    <3>2. e \in Entry /\ e.tags = c[v].tags /\ e.meta = c[v].meta /\ e.len = c[v].len
      BY <2>2, Zenon DEF Entry
    <3>3. e # Absent /\ Size(e) = Size(c[v])
      BY <3>2, <2>2, EntryFacts, Zenon
    <3>4. /\ t.order = Append(Tail(s.order), v) /\ t.chances = s.chances - 1 /\ t.used = s.used
          /\ t.index = s.index /\ t.cached = d
      BY <1>0 DEF Stores
    <3>5. /\ d \in Slots /\ Total(SizesOf(d)) = Total(SizesOf(c)) - Size(c[v]) + Size(e)
          /\ Total(SizesOf(c)) \in Nat /\ Size(c[v]) \in Nat
          /\ IndexOf(d) = Unindex(IndexOf(c), v, c[v].tags) \cup (e.tags \X {v})
          /\ EntriesOf(d) = (EntriesOf(c) \ {v}) \cup {v}
      <4>1. c \in Slots /\ v \in Keys /\ e \in Entry \cup {Absent} /\ c[v] # Absent /\ e # Absent
        BY <1>0, <2>1, <2>2, <3>2, <3>3
      <4>. HIDE DEF c, v, e
      <4>2. /\ d \in Slots /\ Total(SizesOf(d)) = Total(SizesOf(c)) - Size(c[v]) + Size(e)
            /\ Total(SizesOf(c)) \in Nat /\ Size(c[v]) \in Nat
        BY <4>1, SetKey
      <4>3. IndexOf(d) = Reindexed(IndexOf(c), v, c[v], e)
        BY <4>1, SetKey
      <4>4. EntriesOf(d) = (EntriesOf(c) \ {v}) \cup (IF e = Absent THEN {} ELSE {v})
        BY <4>1, SetKey
      <4>. QED
        BY <4>1, <4>2, <4>3, <4>4, Zenon DEF Reindexed
    <3>6. IndexOf(d) = IndexOf(c)
      <4>1. c[v].tags \X {v} \subseteq IndexOf(c)
        BY <2>1, <2>2 DEF IndexOf, Entry
      <4>. QED
        BY <3>5, <3>2, <4>1, Zenon DEF Unindex
    <3>7. Queue(t.order, EntriesOf(d)) /\ Len(t.order) = Len(s.order)
      <4>1. v \notin EntriesOf(c) \ {v} /\ v \in Keys
        BY <2>1
      <4>2. Queue(Tail(s.order), EntriesOf(c) \ {v})
        BY <2>1
      <4>3. Len(Tail(s.order)) + 1 = Len(s.order)
        BY <2>1, <1>0
      <4>. HIDE DEF t, d, e, c, v
      <4>4. /\ Queue(Append(Tail(s.order), v), (EntriesOf(c) \ {v}) \cup {v})
            /\ Len(Append(Tail(s.order), v)) = Len(Tail(s.order)) + 1
        BY <4>1, <4>2, QueueAppend
      <4>. QED
        BY <4>3, <4>4, <3>4, <3>5
    <3>8. t \in Stores
      <4>1. t.order \in Seq(Keys)
        BY <3>7 DEF Queue
      <4>2. t.chances \in Nat
        BY <3>4, <2>4, <1>0
      <4>. QED
        BY <4>1, <4>2, <3>4, <3>5, <1>0, Zenon DEF Stores
    <3>9. Thinned(d, was)
      <4>. SUFFICES ASSUME NEW k \in Keys
                    PROVE  \/ d[k] = Absent
                           \/ was[k] # Absent /\ d[k] = [was[k] EXCEPT !.visited = d[k].visited]
        BY Zenon DEF Thinned
      <4>1. \/ c[k] = Absent
            \/ was[k] # Absent /\ c[k] = [was[k] EXCEPT !.visited = c[k].visited]
        BY DEF Turning, Thinned
      <4>2. CASE k # v
        BY <4>1, <4>2, <1>0 DEF Slots
      <4>3. CASE k = v
        <5>1. d[v] = e /\ e.visited = FALSE
          BY <2>1, <2>2, <1>0 DEF Slots, Entry
        <5>2. was[v] # Absent /\ c[v] = [was[v] EXCEPT !.visited = c[v].visited]
          BY <4>1, <4>3, <2>2
        <5>3. was[v] \in Entry
          BY <5>2, <2>1 DEF Slots
        <5>4. [was[v] EXCEPT !.visited = FALSE] = [c[v] EXCEPT !.visited = FALSE]
          BY <5>2, <5>3, Zenon DEF Entry
        <5>. QED
          BY <5>1, <5>2, <5>4, <4>3, Zenon
      <4>. QED
        BY <4>2, <4>3
    <3>. HIDE DEF t, d, e
    <3>10. t.chances + Len(t.order) <= L - (m + 1)
      BY <3>4, <3>7, <2>3, <1>0
    <3>11. t.used = Total(SizesOf(t.cached)) + others /\ t.used <= most
      BY <3>3, <3>4, <3>5 DEF Turning
    <3>. QED
      BY <3>1, <3>4, <3>5, <3>6, <3>7, <3>8, <3>9, <3>10, <3>11, <1>0 DEF Turning, Consistent
  <2>5. CASE ~ (s.chances > 0 /\ c[v].visited)
    <3>. DEFINE d == [c EXCEPT ![v] = Absent]
                t == [s EXCEPT !.order = Tail(@), !.used = @ - Size(c[v]),
                               !.cached[v] = Absent, !.index = Unindex(@, v, c[v].tags)]
    <3>1. EvictOne(s, bytes) = t
      BY <1>2, <2>5 DEF EvictOne
    <3>2. /\ t.order = Tail(s.order) /\ t.chances = s.chances /\ t.used = s.used - Size(c[v])
          /\ t.index = Unindex(s.index, v, c[v].tags) /\ t.cached = d
      BY <1>0 DEF Stores
    <3>3. /\ d \in Slots /\ Total(SizesOf(d)) = Total(SizesOf(c)) - Size(c[v]) + Size(Absent)
          /\ Total(SizesOf(c)) \in Nat /\ Size(c[v]) \in Nat
          /\ IndexOf(d) = Unindex(IndexOf(c), v, c[v].tags)
          /\ EntriesOf(d) = EntriesOf(c) \ {v}
      <4>1. c \in Slots /\ v \in Keys /\ c[v] # Absent
        BY <1>0, <2>1, <2>2
      <4>. HIDE DEF c, v
      <4>2. /\ d \in Slots /\ Total(SizesOf(d)) = Total(SizesOf(c)) - Size(c[v]) + Size(Absent)
            /\ Total(SizesOf(c)) \in Nat /\ Size(c[v]) \in Nat
        BY <4>1, SetKey
      <4>3. IndexOf(d) = Reindexed(IndexOf(c), v, c[v], Absent)
        BY <4>1, SetKey
      <4>4. EntriesOf(d) = (EntriesOf(c) \ {v}) \cup {}
        BY <4>1, SetKey
      <4>. QED
        BY <4>1, <4>2, <4>3, <4>4, Zenon DEF Reindexed
    <3>4. Size(Absent) = 0
      BY DEF Size
    <3>5. Queue(t.order, EntriesOf(d)) /\ Len(t.order) = Len(s.order) - 1
      BY <2>1, <3>2, <3>3, Zenon
    <3>6. t \in Stores
      <4>1. t.order \in Seq(Keys)
        BY <3>5 DEF Queue
      <4>2. t.index \in SUBSET (Tags \X Keys)
        BY <3>2, <3>3, <1>0 DEF IndexOf
      <4>3. t.used \in Int
        BY <3>2, <3>3, <1>0
      <4>. QED
        BY <4>1, <4>2, <4>3, <3>2, <3>3, <1>0, Zenon DEF Stores
    <3>7. Thinned(d, was)
      BY <2>1, <1>0 DEF Turning, Thinned, Slots
    <3>. HIDE DEF t, d
    <3>8. t.chances + Len(t.order) <= L - (m + 1)
      BY <3>2, <3>5, <2>3, <1>0
    <3>9. t.used = Total(SizesOf(t.cached)) + others /\ t.used <= most
      BY <3>2, <3>3, <3>4, <1>0 DEF Turning
    <3>. QED
      BY <3>1, <3>2, <3>3, <3>5, <3>6, <3>7, <3>8, <3>9, <1>0 DEF Turning, Consistent
  <2>. QED
    BY <2>4, <2>5
<1>. QED
  BY <1>1, <1>2

LEMMA ThinnedSelf ==
    ASSUME NEW c \in Slots
    PROVE  Thinned(c, c)
BY DEF Thinned, Slots, Entry

\* reserve keeps the entries, the queue and the index in step, takes back the
\* bytes of what it evicts, pays only when it succeeds, and gives up only when no
\* entry is left or the request is larger than the cache.
LEMMA ReserveFacts ==
    ASSUME Consistent(cached, order, tag_index), NEW others \in Nat,
           used = Total(SizesOf(cached)) + others, used <= max_bytes,
           NEW bytes \in Nat, NEW ok \in BOOLEAN, Reserve(bytes, ok)
    PROVE  /\ Consistent(cached', order', tag_index') /\ Thinned(cached', cached)
           /\ used' = Total(SizesOf(cached')) + others + (IF ok THEN bytes ELSE 0)
           /\ used' <= max_bytes
           /\ ok => bytes <= max_bytes
           /\ ~ok => EntriesOf(cached') = {} \/ bytes > max_bytes
<1>. DEFINE start == [order |-> order, cached |-> cached, index |-> tag_index, used |-> used,
                      chances |-> IF Clock THEN Len(order) + 1 ELSE 0]
            s == AfterReserve(bytes)
            L == 2 * Len(order) + 1
<1>0. /\ cached \in Slots /\ order \in Seq(Keys) /\ tag_index = IndexOf(cached)
      /\ Queue(order, EntriesOf(cached)) /\ Len(order) \in Nat /\ L \in Nat
  BY DEF Consistent, Queue
<1>1. Total(SizesOf(cached)) \in Nat /\ used \in Nat /\ max_bytes \in Nat
  BY <1>0, SizesFacts, StoreAssumption
<1>2. /\ cached' = s.cached /\ order' = s.order /\ tag_index' = s.index
      /\ ok => s.used + bytes <= max_bytes /\ used' = s.used + bytes
      /\ ~ok => ~(s.used + bytes <= max_bytes) /\ used' = s.used
  <2>1. /\ ok = (s.used + bytes <= max_bytes)
        /\ cached' = s.cached /\ order' = s.order /\ tag_index' = s.index
        /\ used' = IF ok THEN s.used + bytes ELSE s.used
    BY DEF Reserve
  <2>. HIDE DEF s
  <2>. QED
    BY <2>1, Zenon
<1>3. s = IF bytes > max_bytes THEN start ELSE Turns(start, bytes, L)
  BY DEF AfterReserve
<1>4. Turning(start, cached, others, used, bytes, L, 0)
  <2>1. start \in Stores
    <3>1. tag_index \in SUBSET (Tags \X Keys)
      BY <1>0 DEF IndexOf
    <3>. QED
      BY <1>0, <1>1, <3>1 DEF Stores
  <2>2. /\ start.order = order /\ start.cached = cached /\ start.index = tag_index /\ start.used = used
        /\ start.chances <= Len(order) + 1 /\ start.chances \in Nat
    BY <1>0
  <2>. HIDE DEF start
  <2>3. start.chances + Len(order) <= L - 0
    BY <2>2, <1>0
  <2>. QED
    BY <2>1, <2>2, <2>3, <1>0, <1>1, ThinnedSelf DEF Turning
<1>. HIDE DEF start, s, L
<1>5. CASE bytes > max_bytes
  <2>1. s = start /\ start.used = used /\ start.cached = cached
    BY <1>3, <1>5 DEF start
  <2>2. ~ok
    BY <2>1, <1>1, <1>2, <1>5
  <2>. QED
    <3>1. Consistent(s.cached, s.order, s.index) /\ Thinned(s.cached, cached)
      BY <2>1, <1>4 DEF Turning
    <3>2. used' = Total(SizesOf(cached')) + others /\ used' <= max_bytes
      BY <2>1, <2>2, <1>2
    <3>. QED
      BY <2>1, <2>2, <1>2, <1>1, <1>5, <3>1, <3>2
<1>6. CASE bytes <= max_bytes
  <2>. DEFINE P == [m \in Nat |-> {t \in Stores : Turning(t, cached, others, used, bytes, L, m)}]
  <2>1. start \in P[0]
    BY <1>4 DEF Turning
  <2>2. ASSUME NEW m \in Nat, NEW t \in P[m] PROVE EvictOne(t, bytes) \in P[m + 1]
    <3>1. Turning(t, cached, others, used, bytes, L, m)
      OBVIOUS
    <3>2. Turning(EvictOne(t, bytes), cached, others, used, bytes, L, m + 1)
      BY <3>1, <1>0, <1>1, TurnStep, Zenon
    <3>. QED
      BY <3>2 DEF Turning
  <2>3. Turns(start, bytes, L) \in P[L]
    <3>. HIDE DEF P
    <3>. QED
      BY <2>1, <2>2, <1>0, TurnsRule
  <2>4. Turning(s, cached, others, used, bytes, L, L)
    <3>1. s = Turns(start, bytes, L)
      BY <1>1, <1>3, <1>6
    <3>. QED
      BY <2>3, <3>1, <1>0
  <2>5. /\ s.used \in Int /\ s.chances \in Nat /\ Len(s.order) \in Nat /\ s.order \in Seq(Keys)
        /\ Queue(s.order, EntriesOf(s.cached)) /\ Total(SizesOf(s.cached)) \in Nat
        /\ s.used = Total(SizesOf(s.cached)) + others /\ s.used <= used
    BY <2>4, SizesFacts DEF Turning, Stores, Consistent
  <2>6. s.used + bytes <= max_bytes \/ EntriesOf(s.cached) = {}
    <3>1. s.used + bytes <= max_bytes \/ s.order = <<>>
      BY <2>4, <2>5, <1>0 DEF Turning
    <3>. QED
      BY <3>1, <2>5, QueueLength
  <2>7. /\ Consistent(s.cached, s.order, s.index) /\ Thinned(s.cached, cached)
    BY <2>4 DEF Turning
  <2>8. /\ used' = Total(SizesOf(cached')) + others + (IF ok THEN bytes ELSE 0)
        /\ used' <= max_bytes
    <3>1. CASE ok
      BY <3>1, <2>5, <1>1, <1>2
    <3>2. CASE ~ok
      BY <3>2, <2>5, <1>1, <1>2
    <3>. QED
      BY <3>1, <3>2
  <2>. QED
    BY <2>5, <2>6, <2>7, <2>8, <1>1, <1>2, <1>6
<1>. QED
  BY <1>1, <1>5, <1>6


-----------------------------------------------------------------------------
(* The invariant *)

Steps == {"registering", "refused", "open", "writing", "failed", "finishing", "handoff",
          "admitting", "withdrawing", "releasing", "done", "gone"}

\* Where a purge must mark a fill, and where a fill holds the lifecycle lock.
Running == {"open", "writing", "finishing"}
Locking == {"registering", "admitting", "withdrawing"}

Fill == [pc : Steps, key : Keys, tags : SUBSET Tags, path : Paths, transient : BOOLEAN,
         meta : 1 .. MaxMeta, len : 0 .. MaxChunks, accounted : 0 .. MaxSize, temp : BOOLEAN,
         invalidated : BOOLEAN, complete : BOOLEAN, whole : BOOLEAN]

\* A fill in progress is in temp, has paid for its body, and is complete only
\* once its whole body is there.
SoundFill(f) ==
    f # Idle =>
        /\ f \in Fill
        /\ f.pc \in Running => f.temp
        /\ f.complete => f.whole /\ f.pc # "writing"
        /\ f.accounted = IF f.pc = "refused" THEN 0 ELSE f.meta + f.len
        /\ f.pc = "writing" => f.len < MaxChunks
        /\ f.pc # "refused" => f.meta <= max_bytes

FillsInv ==
    /\ fill \in [Fills -> Fill \cup {Idle}]
    /\ \A i \in Fills : SoundFill(fill[i])

HeldOf(F) == [i \in Fills |-> Held(F[i])]

StoreInv ==
    /\ Consistent(cached, order, tag_index)
    /\ used = Total(SizesOf(cached)) + Total(HeldOf(fill)) /\ used <= max_bytes

\* A reader follows a fill that was opened, is never ahead of it, and is at its
\* end when it has a whole response.
SoundReader(q, F) ==
    \/ q = Idle
    \/ q.pc = "second" /\ q = [pc |-> q.pc, key |-> q.key]
    \/ /\ q.pc \in {"following", "whole"} /\ q = [pc |-> q.pc, fill |-> q.fill, read |-> q.read]
       /\ q.fill \in Fills /\ F[q.fill] # Idle /\ q.read \in 0 .. F[q.fill].len
       /\ q.pc = "whole" => F[q.fill].complete /\ q.read = F[q.fill].len

ReadersInv ==
    /\ DOMAIN reader = Readers
    /\ \A r \in Readers : SoundReader(reader[r], fill)

\* A purge keeps the steps that take the lifecycle lock out; the entries it came
\* for stay among its victims; once it has marked, what it means is marked.
PurgeUnderWay ==
    purge # Idle =>
        /\ purge.pc \in {"mark", "remove"}
        /\ purge = [pc |-> purge.pc, q |-> purge.q, victims |-> purge.victims]
        /\ \A i \in Fills : fill[i].pc \notin Locking
        /\ purge.q.by = "tag" =>
              \A k \in Keys : cached[k] # Absent /\ purge.q.what \in cached[k].tags => k \in purge.victims
        /\ purge.pc = "remove" =>
              \A i \in Fills : fill[i].pc \in Running /\ Means(purge.q, fill[i].key, fill[i].tags, fill[i].path)
                                  => fill[i].invalidated

\* What a finished purge matched is on no way to become an entry, ...
OutdatedEnds ==
    /\ outdated \subseteq Fills
    /\ \A i \in outdated : /\ fill[i].pc \notin {"idle", "registering", "admitting"}
                           /\ fill[i].pc \in Running => fill[i].invalidated

\* ... and an entry came from a fill of its key that none did.
EntriesCurrent ==
    \A k \in Keys : cached[k] # Absent =>
        /\ fill[cached[k].from].pc = "done" /\ fill[cached[k].from].key = k
        /\ cached[k].from \notin outdated

PurgeInv == PurgeUnderWay /\ OutdatedEnds /\ EntriesCurrent

CacheInv == FillsInv /\ StoreInv /\ ReadersInv /\ PurgeInv

-----------------------------------------------------------------------------
(* The steps of a fill *)

\* What no step of a leader or a purge takes back.
Advance(f, g) ==
    f # Idle =>
        /\ g # Idle /\ g.key = f.key /\ g.tags = f.tags /\ g.path = f.path
        /\ f.invalidated => g.invalidated
        /\ g.len >= f.len /\ (f.complete => g.complete /\ g.len = f.len)
        /\ f.pc = "done" => g.pc = "done"
        /\ g.pc \in Running => f.pc \in Running \cup {"registering"}
        /\ g.pc = "registering" => f.pc = "registering"
        /\ g.pc = "admitting" => \/ f.pc = "admitting"
                                 \/ f.pc = "finishing" /\ ~f.invalidated

LEMMA FillFacts ==
    /\ \A f \in Fill : f # Idle /\ f.pc # "idle" /\ f.len \in Nat /\ f.meta \in Nat /\ f.accounted \in Nat
    /\ Idle.pc = "idle"
<1>1. Idle.pc = "idle"
  BY DEF Idle
<1>2. ASSUME NEW f \in Fill
      PROVE  f # Idle /\ f.pc # "idle" /\ f.len \in Nat /\ f.meta \in Nat /\ f.accounted \in Nat
  <2>1. /\ f.pc \in Steps /\ f.len \in 0 .. MaxChunks /\ f.meta \in 1 .. MaxMeta
        /\ f.accounted \in 0 .. MaxSize
    BY DEF Fill
  <2>2. f.pc # "idle"
    BY <2>1 DEF Steps
  <2>. QED
    BY <1>1, <2>1, <2>2, StoreAssumption DEF MaxSize
<1>. QED
  BY <1>1, <1>2

LEMMA HeldFacts ==
    ASSUME NEW f \in Fill \cup {Idle}, SoundFill(f)
    PROVE  Held(f) \in 0 .. MaxSize
<1>0. MaxMeta \in Nat /\ MaxChunks \in Nat /\ MaxSize = MaxMeta + MaxChunks
  BY StoreAssumption DEF MaxSize
<1>1. CASE f = Idle
  BY <1>0, <1>1, FillFacts DEF Held
<1>2. CASE f \in Fill
  <2>1. f # Idle /\ f.accounted \in 0 .. MaxSize /\ f.len \in 0 .. MaxChunks /\ f.meta \in 1 .. MaxMeta
    BY <1>2, FillFacts DEF Fill
  <2>2. CASE f.pc = "writing"
    <3>1. f.accounted = f.meta + f.len /\ f.len < MaxChunks
      BY <2>1, <2>2 DEF SoundFill
    <3>2. Held(f) = f.accounted + 1
      BY <2>2 DEF Held
    <3>. QED
      BY <3>1, <3>2, <2>1, <1>0
  <2>3. CASE f.pc # "writing"
    <3>1. Held(f) = 0 \/ Held(f) = f.accounted + 0
      BY <2>3 DEF Held
    <3>. QED
      BY <3>1, <2>1, <1>0
  <2>. QED
    BY <2>2, <2>3
<1>. QED
  BY <1>1, <1>2

\* The leader of one fill takes a step, and its fill stays sound.
Passes(i) ==
    /\ fill[i] \in Fill /\ fill'[i] \in Fill /\ fill' = [fill EXCEPT ![i] = fill'[i]]
    /\ SoundFill(fill'[i]) /\ Advance(fill[i], fill'[i])
    /\ purge # Idle /\ fill'[i].pc \in Locking => fill[i].pc \in Locking

LEMMA InFill ==
    ASSUME FillsInv, NEW i \in Fills, fill[i].pc # "idle"
    PROVE  /\ fill[i] \in Fill /\ fill[i] # Idle /\ SoundFill(fill[i]) /\ DOMAIN fill = Fills
           /\ fill[i].accounted = IF fill[i].pc = "refused" THEN 0 ELSE fill[i].meta + fill[i].len
<1>1. fill[i] # Idle
  BY FillFacts
<1>. QED
  BY <1>1 DEF FillsInv, SoundFill

LEMMA RegisterPasses ==
    ASSUME FillsInv, NEW i \in Fills, Register(i)
    PROVE  Passes(i) /\ Held(fill'[i]) = Held(fill[i])
<1>. DEFINE f == fill[i]
            g == [f EXCEPT !.pc = "open", !.temp = TRUE]
<1>1. f \in Fill /\ f # Idle /\ SoundFill(f) /\ DOMAIN fill = Fills /\ f.pc = "registering"
  BY InFill DEF Register
<1>2. fill' = [fill EXCEPT ![i] = g] /\ fill'[i] = g
  BY <1>1, Zenon DEF Register
<1>3. /\ g \in Fill /\ g.pc = "open" /\ g.temp = TRUE /\ g.key = f.key /\ g.tags = f.tags /\ g.path = f.path
      /\ g.meta = f.meta /\ g.len = f.len /\ g.accounted = f.accounted /\ g.invalidated = f.invalidated
      /\ g.complete = f.complete /\ g.whole = f.whole
  BY <1>1, Zenon DEF Fill, Steps
<1>. HIDE DEF f, g
<1>4. SoundFill(g) /\ Held(g) = Held(f)
  BY <1>1, <1>3 DEF SoundFill, Held, Running
<1>5. Advance(f, g)
  BY <1>1, <1>3, FillFacts DEF Advance, Running
<1>. QED
  BY <1>1, <1>2, <1>3, <1>4, <1>5 DEF Passes, f, g, Locking

LEMMA EndHandoffPasses ==
    ASSUME FillsInv, NEW i \in Fills, EndHandoff(i)
    PROVE  Passes(i) /\ Held(fill'[i]) = Held(fill[i])
<1>. DEFINE f == fill[i]
            g == [f EXCEPT !.pc = "releasing", !.temp = FALSE]
<1>1. f \in Fill /\ f # Idle /\ SoundFill(f) /\ DOMAIN fill = Fills /\ f.pc = "handoff"
  BY InFill DEF EndHandoff
<1>2. fill' = [fill EXCEPT ![i] = g] /\ fill'[i] = g
  BY <1>1, Zenon DEF EndHandoff
<1>3. /\ g \in Fill /\ g.key = f.key /\ g.tags = f.tags /\ g.path = f.path
      /\ g.meta = f.meta /\ g.invalidated = f.invalidated
      /\ g.pc = "releasing" /\ g.len = f.len /\ g.accounted = f.accounted
      /\ g.complete = f.complete /\ g.whole = f.whole
  BY <1>1, Zenon DEF Fill, Steps
<1>. HIDE DEF f, g
<1>4. SoundFill(g) /\ Held(g) = Held(f)
  BY <1>1, <1>3 DEF SoundFill, Held, Running
<1>5. Advance(f, g)
  BY <1>1, <1>3, FillFacts DEF Advance, Running
<1>. QED
  BY <1>1, <1>2, <1>3, <1>4, <1>5 DEF Passes, f, g, Locking

LEMMA DropPasses ==
    ASSUME FillsInv, NEW i \in Fills, Drop(i)
    PROVE  Passes(i) /\ Held(fill'[i]) = Held(fill[i])
<1>. DEFINE f == fill[i]
            g == [f EXCEPT !.pc = "releasing", !.temp = FALSE]
<1>1. f \in Fill /\ f # Idle /\ SoundFill(f) /\ DOMAIN fill = Fills /\ f.pc \in {"open", "failed"}
  BY InFill DEF Drop
<1>2. fill' = [fill EXCEPT ![i] = g] /\ fill'[i] = g
  BY <1>1, Zenon DEF Drop
<1>3. /\ g \in Fill /\ g.key = f.key /\ g.tags = f.tags /\ g.path = f.path
      /\ g.meta = f.meta /\ g.invalidated = f.invalidated
      /\ g.pc = "releasing" /\ g.len = f.len /\ g.accounted = f.accounted
      /\ g.complete = f.complete /\ g.whole = f.whole
  BY <1>1, Zenon DEF Fill, Steps
<1>. HIDE DEF f, g
<1>4. SoundFill(g) /\ Held(g) = Held(f)
  BY <1>1, <1>3 DEF SoundFill, Held, Running
<1>5. Advance(f, g)
  BY <1>1, <1>3, FillFacts DEF Advance, Running
<1>. QED
  BY <1>1, <1>2, <1>3, <1>4, <1>5 DEF Passes, f, g, Locking

LEMMA FinishPasses ==
    ASSUME FillsInv, NEW i \in Fills, Finish(i)
    PROVE  Passes(i) /\ Held(fill'[i]) = Held(fill[i])
<1>. DEFINE f == fill[i]
            g == [f EXCEPT !.pc = IF fill[i].transient THEN "handoff" ELSE "finishing",
                        !.complete = TRUE, !.whole = TRUE]
<1>1. f \in Fill /\ f # Idle /\ SoundFill(f) /\ DOMAIN fill = Fills /\ f.pc = "open"
  BY InFill DEF Finish
<1>2. fill' = [fill EXCEPT ![i] = g] /\ fill'[i] = g
  BY <1>1, Zenon DEF Finish
<1>3. /\ g \in Fill /\ g.key = f.key /\ g.tags = f.tags /\ g.path = f.path
      /\ g.meta = f.meta /\ g.invalidated = f.invalidated
      /\ g.pc \in {"handoff", "finishing"} /\ g.len = f.len /\ g.accounted = f.accounted
      /\ g.temp = f.temp /\ g.complete = TRUE /\ g.whole = TRUE
  BY <1>1, Zenon DEF Fill, Steps
<1>. HIDE DEF f, g
<1>4. SoundFill(g) /\ Held(g) = Held(f)
  BY <1>1, <1>3 DEF SoundFill, Held, Running
<1>5. Advance(f, g)
  BY <1>1, <1>3, FillFacts DEF Advance, Running
<1>. QED
  BY <1>1, <1>2, <1>3, <1>4, <1>5 DEF Passes, f, g, Locking

LEMMA MovePasses ==
    ASSUME FillsInv, NEW i \in Fills, Move(i)
    PROVE  Passes(i) /\ Held(fill'[i]) = Held(fill[i])
<1>. DEFINE f == fill[i]
            next == IF f.invalidated THEN "withdrawing" ELSE "admitting"
            g == [f EXCEPT !.pc = next, !.temp = FALSE]
<1>1. f \in Fill /\ f # Idle /\ SoundFill(f) /\ DOMAIN fill = Fills /\ f.pc = "finishing" /\ purge = Idle
  BY InFill DEF Move, WriteHeld
<1>2. fill' = [fill EXCEPT ![i] = g] /\ fill'[i] = g
  BY <1>1, Zenon DEF Move
<1>3. next \in {"withdrawing", "admitting"} /\ (next = "admitting" => ~f.invalidated)
  OBVIOUS
<1>. HIDE DEF next
<1>4. /\ g \in Fill /\ g.key = f.key /\ g.tags = f.tags /\ g.path = f.path
      /\ g.meta = f.meta /\ g.invalidated = f.invalidated
      /\ g.pc = next /\ g.len = f.len /\ g.accounted = f.accounted
      /\ g.complete = f.complete /\ g.whole = f.whole
  BY <1>1, <1>3, Zenon DEF Fill, Steps
<1>. HIDE DEF f, g
<1>5. SoundFill(g) /\ Held(g) = Held(f)
  BY <1>1, <1>3, <1>4 DEF SoundFill, Held, Running
<1>6. Advance(f, g)
  BY <1>1, <1>3, <1>4, FillFacts DEF Advance, Running
<1>. QED
  BY <1>1, <1>2, <1>4, <1>5, <1>6 DEF Passes, f, g

LEMMA WritePublishPasses ==
    ASSUME FillsInv, NEW i \in Fills, WritePublish(i)
    PROVE  Passes(i) /\ Held(fill'[i]) = Held(fill[i])
<1>1. PICK eof \in BOOLEAN :
          fill' = [fill EXCEPT ![i].pc = "open", ![i].len = @ + 1, ![i].accounted = @ + 1,
                               ![i].complete = eof, ![i].whole = eof]
  BY Zenon DEF WritePublish
<1>. DEFINE f == fill[i]
            g == [f EXCEPT !.pc = "open", !.len = @ + 1, !.accounted = @ + 1,
                           !.complete = eof, !.whole = eof]
<1>2. /\ f \in Fill /\ f # Idle /\ SoundFill(f) /\ DOMAIN fill = Fills /\ f.pc = "writing"
  BY InFill DEF WritePublish
<1>3. fill' = [fill EXCEPT ![i] = g] /\ fill'[i] = g
  BY <1>1, <1>2, Zenon
<1>4. /\ f.temp /\ ~f.complete /\ f.accounted = f.meta + f.len /\ f.len < MaxChunks
      /\ f.meta <= max_bytes
  BY <1>2 DEF SoundFill, Running
<1>5. /\ f.meta \in 1 .. MaxMeta /\ f.len \in 0 .. MaxChunks /\ f.accounted \in 0 .. MaxSize
      /\ MaxMeta \in Nat /\ MaxChunks \in Nat /\ MaxSize = MaxMeta + MaxChunks
  BY <1>2, StoreAssumption DEF Fill, MaxSize
<1>6. f.len + 1 \in 0 .. MaxChunks /\ f.accounted + 1 \in 0 .. MaxSize
  BY <1>4, <1>5
<1>7. /\ g \in Fill /\ g.key = f.key /\ g.tags = f.tags /\ g.path = f.path
      /\ g.meta = f.meta /\ g.invalidated = f.invalidated /\ g.temp = f.temp
      /\ g.pc = "open" /\ g.len = f.len + 1 /\ g.accounted = f.accounted + 1
      /\ g.complete = eof /\ g.whole = eof
  BY <1>2, <1>6, Zenon DEF Fill, Steps
<1>. HIDE DEF f, g
<1>8. SoundFill(g)
  BY <1>2, <1>4, <1>5, <1>7 DEF SoundFill, Running
<1>9. Held(g) = Held(f)
  BY <1>2, <1>5, <1>7 DEF Held
<1>10. Advance(f, g)
  BY <1>2, <1>4, <1>5, <1>7, FillFacts DEF Advance, Running
<1>. QED
  BY <1>2, <1>3, <1>7, <1>8, <1>9, <1>10 DEF Passes, f, g, Locking


LEMMA GotoFacts ==
    ASSUME FillsInv, NEW i \in Fills, fill[i].pc # "idle", NEW next \in Steps, Goto(i, next)
    PROVE  LET f == fill[i]
               g == fill'[i]
           IN  /\ f \in Fill /\ f # Idle /\ SoundFill(f) /\ fill' = [fill EXCEPT ![i] = g]
               /\ g \in Fill /\ g.pc = next /\ g.key = f.key /\ g.tags = f.tags /\ g.path = f.path
               /\ g.meta = f.meta /\ g.len = f.len /\ g.accounted = f.accounted /\ g.temp = f.temp
               /\ g.invalidated = f.invalidated /\ g.complete = f.complete /\ g.whole = f.whole
<1>. DEFINE f == fill[i]
            g == [f EXCEPT !.pc = next]
<1>1. f \in Fill /\ f # Idle /\ SoundFill(f) /\ DOMAIN fill = Fills
  BY InFill
<1>2. fill' = [fill EXCEPT ![i] = g] /\ fill'[i] = g
  BY <1>1 DEF Goto
<1>3. /\ g \in Fill /\ g.pc = next /\ g.key = f.key /\ g.tags = f.tags /\ g.path = f.path
      /\ g.meta = f.meta /\ g.len = f.len /\ g.accounted = f.accounted /\ g.temp = f.temp
      /\ g.invalidated = f.invalidated /\ g.complete = f.complete /\ g.whole = f.whole
  BY <1>1 DEF Fill
<1>. QED
  BY <1>1, <1>2, <1>3

LEMMA WriteReservePasses ==
    ASSUME FillsInv, NEW i \in Fills, fill[i].pc = "open", ~fill[i].complete, fill[i].len < MaxChunks,
           NEW ok \in BOOLEAN, Goto(i, IF ok THEN "writing" ELSE "failed")
    PROVE  /\ Passes(i)
           /\ Held(fill'[i]) = Held(fill[i]) + (IF ok THEN 1 ELSE 0)
           /\ fill'[i].meta = fill[i].meta /\ fill[i].meta <= max_bytes
<1>. DEFINE f == fill[i]
            g == fill'[i]
            next == IF ok THEN "writing" ELSE "failed"
<1>1. next \in Steps /\ next \in {"writing", "failed"} /\ (ok <=> next = "writing")
  BY DEF Steps
<1>. HIDE DEF next
<1>2. /\ f \in Fill /\ f # Idle /\ SoundFill(f) /\ fill' = [fill EXCEPT ![i] = g]
      /\ g \in Fill /\ g.pc = next /\ g.key = f.key /\ g.tags = f.tags /\ g.path = f.path
      /\ g.meta = f.meta /\ g.len = f.len /\ g.accounted = f.accounted /\ g.temp = f.temp
      /\ g.invalidated = f.invalidated /\ g.complete = f.complete /\ g.whole = f.whole
  BY <1>1, GotoFacts DEF next
<1>3. f.pc = "open" /\ ~f.complete /\ f.len < MaxChunks
  OBVIOUS
<1>. HIDE DEF f, g
<1>4. SoundFill(g) /\ f.meta <= max_bytes
  BY <1>1, <1>2, <1>3 DEF SoundFill, Running
<1>5. f.accounted \in Nat
  BY <1>2, FillFacts
<1>6. Held(g) = Held(f) + (IF ok THEN 1 ELSE 0)
  <2>1. Held(f) = f.accounted + 0
    BY <1>3 DEF Held
  <2>2. Held(g) = g.accounted + (IF ok THEN 1 ELSE 0)
    BY <1>1, <1>2 DEF Held
  <2>. QED
    BY <2>1, <2>2, <1>2, <1>5
<1>7. Advance(f, g)
  BY <1>1, <1>2, <1>3, FillFacts DEF Advance, Running
<1>. QED
  BY <1>1, <1>2, <1>4, <1>6, <1>7 DEF Passes, f, g, Locking

\* The bytes of a fill that is stored or withdrawn are the whole of what it held.
LEMMA LastPasses ==
    ASSUME FillsInv, NEW i \in Fills, NEW next \in {"done", "gone"}, Goto(i, next),
           fill[i].pc \in {"admitting", "releasing", "withdrawing"}
    PROVE  /\ Passes(i) /\ Held(fill'[i]) = 0 /\ Held(fill[i]) = fill[i].accounted
           /\ fill[i].accounted = fill[i].meta + fill[i].len /\ fill'[i].pc = next
<1>. DEFINE f == fill[i]
            g == fill'[i]
<1>1. next \in Steps
  BY DEF Steps
<1>2. /\ f \in Fill /\ f # Idle /\ SoundFill(f) /\ fill' = [fill EXCEPT ![i] = g]
      /\ g \in Fill /\ g.pc = next /\ g.key = f.key /\ g.tags = f.tags /\ g.path = f.path
      /\ g.meta = f.meta /\ g.len = f.len /\ g.accounted = f.accounted /\ g.temp = f.temp
      /\ g.invalidated = f.invalidated /\ g.complete = f.complete /\ g.whole = f.whole
  BY <1>1, GotoFacts
<1>3. f.pc \in {"admitting", "releasing", "withdrawing"}
  OBVIOUS
<1>. HIDE DEF f, g
<1>4. SoundFill(g) /\ f.accounted = f.meta + f.len
  BY <1>2, <1>3 DEF SoundFill, Running
<1>5. f.accounted \in Nat
  BY <1>2, FillFacts
<1>6. Held(g) = 0 /\ Held(f) = f.accounted
  <2>1. Held(f) = f.accounted + 0
    BY <1>3 DEF Held
  <2>. QED
    BY <2>1, <1>2, <1>5 DEF Held
<1>7. Advance(f, g)
  BY <1>2, <1>3, FillFacts DEF Advance, Running
<1>. QED
  BY <1>2, <1>4, <1>6, <1>7 DEF Passes, f, g, Locking

\* The fill that get_miss_handler makes.
Opened(k, tags, t, meta, ok) ==
    [pc |-> IF ok THEN "registering" ELSE "refused", key |-> k, tags |-> tags,
     path |-> IF t THEN None ELSE PathOf[k], transient |-> t,
     meta |-> meta, len |-> 0, accounted |-> IF ok THEN meta ELSE 0, temp |-> FALSE,
     invalidated |-> FALSE, complete |-> FALSE, whole |-> FALSE]

LEMMA OpenPasses ==
    ASSUME FillsInv, NEW i \in Fills, fill[i] = Idle, NEW k \in Keys, NEW tags \in SUBSET Tags,
           NEW t \in BOOLEAN, NEW meta \in 1 .. MaxMeta, NEW ok \in BOOLEAN, ok => meta <= max_bytes
    PROVE  LET g == Opened(k, tags, t, meta, ok)
           IN  /\ g \in Fill /\ SoundFill(g) /\ g.pc \in {"registering", "refused"} /\ g.meta = meta
               /\ Held(fill[i]) = 0 /\ Held(g) = IF ok THEN meta ELSE 0
               /\ g.pc = "refused" => ~ok
<1>. DEFINE g == Opened(k, tags, t, meta, ok)
<1>0. MaxMeta \in Nat /\ MaxChunks \in Nat /\ MaxSize = MaxMeta + MaxChunks
  BY StoreAssumption DEF MaxSize
<1>1. /\ (IF ok THEN "registering" ELSE "refused") \in Steps
      /\ (IF t THEN None ELSE PathOf[k]) \in Paths
      /\ (IF ok THEN meta ELSE 0) \in 0 .. MaxSize /\ 0 \in 0 .. MaxChunks
  BY <1>0 DEF Steps, Paths
<1>2. g \in Fill
  BY <1>1 DEF Fill, Opened
<1>3. /\ g.pc = (IF ok THEN "registering" ELSE "refused") /\ g.meta = meta /\ g.len = 0
      /\ g.accounted = (IF ok THEN meta ELSE 0) /\ g.complete = FALSE
  BY DEF Opened
<1>. HIDE DEF g
<1>5. Held(fill[i]) = 0
  BY FillFacts DEF Held
<1>6. meta \in Nat
  BY <1>0
<1>7. CASE ok
  <2>1. g.pc = "registering" /\ g.accounted = meta
    BY <1>3, <1>7
  <2>2. SoundFill(g)
    BY <1>2, <1>3, <1>6, <1>7, <2>1 DEF SoundFill, Running
  <2>3. Held(g) = meta + 0
    BY <2>1 DEF Held
  <2>4. Held(g) = (IF ok THEN meta ELSE 0)
    BY <2>3, <1>6, <1>7
  <2>5. g.pc \in {"registering", "refused"} /\ g.meta = meta /\ g.pc # "refused"
    BY <2>1, <1>3
  <2>. QED
    BY <1>2, <1>5, <2>2, <2>4, <2>5 DEF g
<1>8. CASE ~ok
  <2>1. g.pc = "refused" /\ g.accounted = 0
    BY <1>3, <1>8
  <2>2. SoundFill(g)
    BY <1>2, <1>3, <1>6, <1>8, <2>1 DEF SoundFill, Running
  <2>3. Held(g) = 0 + 0
    BY <2>1 DEF Held
  <2>. QED
    BY <1>2, <1>3, <1>5, <1>6, <1>8, <2>1, <2>2, <2>3 DEF g
<1>. QED
  BY <1>7, <1>8

LEMMA HeldOfFacts ==
    ASSUME FillsInv
    PROVE  Total(HeldOf(fill)) \in Nat
<1>1. HeldOf(fill) \in [Fills -> 0 .. MaxSize]
  BY HeldFacts DEF HeldOf, FillsInv
<1>2. IsFiniteSet(Fills)
  BY StoreAssumption
<1>. QED
  BY <1>1, <1>2, UnitsFinite

\* Changing one fill changes what the fills hold by as much.
LEMMA SetFill ==
    ASSUME FillsInv, NEW i \in Fills, NEW g \in Fill, SoundFill(g), fill' = [fill EXCEPT ![i] = g]
    PROVE  /\ FillsInv'
           /\ Total(HeldOf(fill')) = Total(HeldOf(fill)) - Held(fill[i]) + Held(g)
           /\ Total(HeldOf(fill)) \in Nat /\ Total(HeldOf(fill)) >= Held(fill[i])
           /\ Held(fill[i]) \in Nat /\ Held(g) \in Nat
<1>. DEFINE f == HeldOf(fill)
            n == Held(g)
<1>1. fill \in [Fills -> Fill \cup {Idle}] /\ \A j \in Fills : SoundFill(fill[j])
  BY DEF FillsInv
<1>2. MaxSize \in Nat
  BY StoreAssumption DEF MaxSize
<1>3. f \in [Fills -> 0 .. MaxSize] /\ n \in 0 .. MaxSize /\ f[i] = Held(fill[i])
  BY <1>1, HeldFacts DEF HeldOf
<1>4. HeldOf(fill') = [f EXCEPT ![i] = n]
  BY <1>1, Zenon DEF HeldOf
<1>. HIDE DEF f, n
<1>5. Total([f EXCEPT ![i] = n]) = Total(f) - f[i] + n /\ Total(f) \in Nat /\ Total(f) >= f[i] /\ f[i] \in Nat
  <2>1. IsFiniteSet(Fills)
    BY StoreAssumption
  <2>. QED
    BY <2>1, <1>3, TotalUpdate, Zenon
<1>6. FillsInv'
  BY <1>1 DEF FillsInv
<1>. QED
  BY <1>2, <1>3, <1>4, <1>5, <1>6 DEF f, n

\* The entries without some keys; their sizes.
Removed(c, D) == [k \in Keys |-> IF k \in D THEN Absent ELSE c[k]]
SizesIn(c, D) == [k \in D |-> Size(c[k])]
TagsIn(c, D) == UNION {c[k].tags \X {k} : k \in D}

\* purge_matching_locked takes several entries out at once.
LEMMA RemoveKeys ==
    ASSUME NEW c \in Slots, NEW D \in SUBSET EntriesOf(c)
    PROVE  /\ Removed(c, D) \in Slots /\ EntriesOf(Removed(c, D)) = EntriesOf(c) \ D
           /\ IndexOf(Removed(c, D)) = IndexOf(c) \ TagsIn(c, D)
           /\ Total(SizesOf(Removed(c, D))) = Total(SizesOf(c)) - Total(SizesIn(c, D))
           /\ Total(SizesOf(c)) \in Nat /\ Total(SizesIn(c, D)) \in Nat
           /\ Total(SizesIn(c, D)) <= Total(SizesOf(c))
<1>. DEFINE d == [k \in Keys |-> IF k \in D THEN Absent ELSE c[k]]
<1>0. D \subseteq Keys /\ \A k \in D : c[k] # Absent
  BY DEF EntriesOf
<1>1. d \in Slots
  BY DEF Slots
<1>2. EntriesOf(d) = EntriesOf(c) \ D
  BY DEF EntriesOf
<1>3. IndexOf(d) = IndexOf(c) \ UNION {c[k].tags \X {k} : k \in D}
  <2>. DEFINE X == IndexOf(c) \ UNION {c[k].tags \X {k} : k \in D}
  <2>1. ASSUME NEW x \in Tags \X Keys PROVE x \in IndexOf(d) <=> x \in X
    <3>1. CASE x[2] \in D
      <4>1. x \notin IndexOf(d)
        BY <3>1 DEF IndexOf
      <4>2. x \in IndexOf(c) => x \in c[x[2]].tags \X {x[2]}
        BY DEF IndexOf
      <4>3. x \notin X
        BY <4>2, <3>1
      <4>. QED
        BY <4>1, <4>3
    <3>2. CASE x[2] \notin D
      <4>1. x \in IndexOf(d) <=> x \in IndexOf(c)
        BY <3>2 DEF IndexOf
      <4>2. x \notin UNION {c[k].tags \X {k} : k \in D}
        BY <3>2
      <4>. QED
        BY <4>1, <4>2
    <3>. QED
      BY <3>1, <3>2
  <2>2. IndexOf(d) \subseteq Tags \X Keys /\ X \subseteq Tags \X Keys
    BY DEF IndexOf
  <2>. HIDE DEF X
  <2>3. IndexOf(d) = X
    BY <2>1, <2>2, Zenon
  <2>. QED
    BY <2>3 DEF X
<1>. DEFINE f == SizesOf(c)
<1>4. f \in [Keys -> 0 .. MaxSize] /\ IsFiniteSet(Keys) /\ \A k \in Keys : f[k] = Size(c[k])
  BY SizesFacts, StoreAssumption, Zenon DEF SizesOf
<1>5. SizesOf(d) = [k \in Keys |-> IF k \in D THEN 0 ELSE f[k]]
  BY <1>4 DEF SizesOf, Size
<1>6. [k \in D |-> Size(c[k])] = [k \in D |-> f[k]]
  BY <1>0, <1>4
<1>. HIDE DEF f
<1>7. /\ Total([k \in Keys |-> IF k \in D THEN 0 ELSE f[k]]) = Total(f) - Total([k \in D |-> f[k]])
      /\ Total(f) \in Nat /\ Total([k \in D |-> f[k]]) \in Nat
      /\ Total([k \in D |-> f[k]]) <= Total(f)
  BY <1>0, <1>4, TotalSplit
<1>. HIDE DEF d
<1>8. Removed(c, D) = d /\ SizesIn(c, D) = [k \in D |-> f[k]]
      /\ TagsIn(c, D) = UNION {c[k].tags \X {k} : k \in D}
  BY <1>6 DEF d, Removed, SizesIn, TagsIn
<1>. QED
  BY <1>1, <1>2, <1>3, <1>5, <1>7, <1>8 DEF f

-----------------------------------------------------------------------------
(* Every step keeps the fills sound and the store exact *)

\* A leader's step that leaves the store alone.
LEMMA QuietStep ==
    ASSUME FillsInv, StoreInv, NEW i \in Fills, Passes(i), Held(fill'[i]) = Held(fill[i]),
           UNCHANGED store
    PROVE  FillsInv' /\ StoreInv'
<1>1. /\ FillsInv'
      /\ Total(HeldOf(fill')) = Total(HeldOf(fill)) - Held(fill[i]) + Held(fill'[i])
      /\ Total(HeldOf(fill)) \in Nat /\ Held(fill[i]) \in Nat
  <2>. DEFINE g == fill'[i]
  <2>1. g \in Fill /\ SoundFill(g) /\ fill' = [fill EXCEPT ![i] = g]
    BY DEF Passes
  <2>. HIDE DEF g
  <2>2. /\ FillsInv' /\ Total(HeldOf(fill')) = Total(HeldOf(fill)) - Held(fill[i]) + Held(g)
        /\ Total(HeldOf(fill)) \in Nat /\ Held(fill[i]) \in Nat
    BY <2>1, SetFill, Zenon
  <2>. QED
    BY <2>2 DEF g
<1>2. Total(HeldOf(fill')) = Total(HeldOf(fill))
  BY <1>1
<1>. QED
  BY <1>1, <1>2 DEF StoreInv, store

LEMMA ReservingStep ==
    ASSUME FillsInv, StoreInv, NEW i \in Fills, NEW g \in Fill, SoundFill(g), fill' = [fill EXCEPT ![i] = g],
           NEW bytes \in Nat, NEW ok \in BOOLEAN, Reserve(bytes, ok),
           Held(g) = Held(fill[i]) + (IF ok THEN bytes ELSE 0)
    PROVE  /\ FillsInv' /\ StoreInv' /\ Thinned(cached', cached)
           /\ ~ok => EntriesOf(cached') = {} \/ bytes > max_bytes
<1>1. /\ FillsInv'
      /\ Total(HeldOf(fill')) = Total(HeldOf(fill)) - Held(fill[i]) + Held(g)
      /\ Total(HeldOf(fill)) \in Nat /\ Held(fill[i]) \in Nat
  BY SetFill, Zenon
<1>. DEFINE others == Total(HeldOf(fill))
            paid == IF ok THEN bytes ELSE 0
<1>2. others \in Nat /\ Consistent(cached, order, tag_index) /\ used = Total(SizesOf(cached)) + others /\ used <= max_bytes
  BY <1>1 DEF StoreInv
<1>3. paid \in Nat
  OBVIOUS
<1>. HIDE DEF others
<1>4. /\ Consistent(cached', order', tag_index') /\ Thinned(cached', cached)
      /\ used' = Total(SizesOf(cached')) + others + paid
      /\ used' <= max_bytes
      /\ ~ok => EntriesOf(cached') = {} \/ bytes > max_bytes
  BY <1>2, ReserveFacts
<1>5. Total(SizesOf(cached')) \in Nat
  BY <1>4, SizesFacts DEF Consistent
<1>. HIDE DEF paid
<1>6. Total(HeldOf(fill')) = others + paid
  BY <1>1, <1>3 DEF others, paid
<1>7. used' = Total(SizesOf(cached')) + Total(HeldOf(fill'))
  BY <1>2, <1>3, <1>4, <1>5, <1>6
<1>. QED
  BY <1>1, <1>4, <1>7 DEF StoreInv

LEMMA AdmitStep ==
    ASSUME FillsInv, StoreInv, NEW i \in Fills, Admit(i)
    PROVE  /\ FillsInv' /\ StoreInv' /\ Passes(i)
           /\ fill[i].pc = "admitting" /\ fill'[i].pc = "done"
           /\ fill[i].key \in Keys
           /\ \A k \in Keys : k # fill[i].key => cached'[k] = cached[k]
           /\ cached'[fill[i].key].from = i
<1>. DEFINE k == fill[i].key
            e == [from |-> i, meta |-> fill[i].meta, len |-> fill[i].len,
                  tags |-> fill[i].tags, path |-> fill[i].path, visited |-> FALSE]
            g == fill'[i]
<1>1. fill[i].pc = "admitting" /\ Goto(i, "done")
  BY DEF Admit
<1>2. /\ Passes(i) /\ Held(g) = 0 /\ Held(fill[i]) = fill[i].accounted
      /\ fill[i].accounted = fill[i].meta + fill[i].len /\ g.pc = "done"
  BY <1>1, LastPasses
<1>3. g \in Fill /\ SoundFill(g) /\ fill' = [fill EXCEPT ![i] = g] /\ fill[i] \in Fill
  BY <1>2 DEF Passes
<1>4. k \in Keys /\ e \in Entry
  BY <1>3 DEF Fill, Entry
<1>5. Size(e) = fill[i].meta + fill[i].len /\ e # Absent /\ e.tags = fill[i].tags /\ e.from = i
  BY <1>4, EntryFacts, Zenon
<1>6. /\ used' = used - Size(cached[k]) /\ cached' = [cached EXCEPT ![k] = e]
      /\ order' = Append(Without(order, {k}), k)
      /\ tag_index' = (IF cached[k] = Absent THEN tag_index ELSE Unindex(tag_index, k, cached[k].tags))
                      \cup (fill[i].tags \X {k})
  BY DEF Admit
<1>. HIDE DEF g, k, e
<1>7. /\ FillsInv'
      /\ Total(HeldOf(fill')) = Total(HeldOf(fill)) - Held(fill[i]) + Held(g)
      /\ Total(HeldOf(fill)) \in Nat /\ Held(fill[i]) \in Nat
  BY <1>3, SetFill, Zenon
<1>8. /\ cached \in Slots /\ Queue(order, EntriesOf(cached)) /\ tag_index = IndexOf(cached)
      /\ used = Total(SizesOf(cached)) + Total(HeldOf(fill)) /\ used <= max_bytes /\ max_bytes \in Nat
  BY StoreAssumption DEF StoreInv, Consistent
<1>9. /\ cached' \in Slots
      /\ Total(SizesOf(cached')) = Total(SizesOf(cached)) - Size(cached[k]) + Size(e)
      /\ Total(SizesOf(cached)) \in Nat /\ Size(cached[k]) \in Nat /\ Size(e) \in Nat
      /\ IndexOf(cached') = Reindexed(IndexOf(cached), k, cached[k], e)
      /\ EntriesOf(cached') = (EntriesOf(cached) \ {k}) \cup {k}
  <2>. DEFINE c == cached
              d == [c EXCEPT ![k] = e]
  <2>1. c \in Slots /\ k \in Keys /\ e \in Entry \cup {Absent} /\ e # Absent
    BY <1>4, <1>5, <1>8
  <2>. HIDE DEF c
  <2>2. /\ d \in Slots /\ Total(SizesOf(d)) = Total(SizesOf(c)) - Size(c[k]) + Size(e)
        /\ Total(SizesOf(c)) \in Nat /\ Size(c[k]) \in Nat /\ Size(e) \in Nat
    BY <2>1, SetKey
  <2>3. IndexOf(d) = Reindexed(IndexOf(c), k, c[k], e)
    BY <2>1, SetKey
  <2>4. EntriesOf(d) = (EntriesOf(c) \ {k}) \cup {k}
    BY <2>1, SetKey
  <2>. QED
    <3>. HIDE DEF d
    <3>1. cached' = d
      BY <1>6 DEF c, d
    <3>. QED
      BY <2>2, <2>3, <2>4, <3>1 DEF c
<1>12. tag_index' = IndexOf(cached')
  BY <1>5, <1>6, <1>8, <1>9, Zenon DEF Reindexed
<1>13. Queue(order', EntriesOf(cached'))
  <2>1. Queue(Without(order, {k}), EntriesOf(cached) \ {k})
    BY <1>8, QueueWithout
  <2>2. Queue(Append(Without(order, {k}), k), (EntriesOf(cached) \ {k}) \cup {k})
    BY <2>1, <1>4, QueueAppend
  <2>. QED
    BY <2>2, <1>6, <1>9, Zenon
<1>14. used' = Total(SizesOf(cached')) + Total(HeldOf(fill')) /\ used' <= max_bytes
  BY <1>2, <1>5, <1>6, <1>7, <1>8, <1>9
<1>15. /\ \A x \in Keys : x # k => cached'[x] = cached[x]
       /\ cached'[k].from = i
  BY <1>4, <1>5, <1>6, <1>8 DEF Slots
<1>16. StoreInv'
  BY <1>9, <1>12, <1>13, <1>14 DEF StoreInv, Consistent
<1>. QED
  BY <1>1, <1>2, <1>4, <1>7, <1>15, <1>16 DEF k, g

LEMMA ReleaseStep ==
    ASSUME FillsInv, StoreInv, NEW i \in Fills, Release(i)
    PROVE  FillsInv' /\ StoreInv' /\ Passes(i)
<1>. DEFINE g == fill'[i]
<1>1. /\ fill[i].pc \in {"releasing", "withdrawing"} /\ Goto(i, "gone")
      /\ used' = used - fill[i].accounted /\ UNCHANGED <<cached, order, tag_index>>
  BY DEF Release
<1>2. Passes(i) /\ Held(g) = 0 /\ Held(fill[i]) = fill[i].accounted
  BY <1>1, LastPasses
<1>3. g \in Fill /\ SoundFill(g) /\ fill' = [fill EXCEPT ![i] = g]
  BY <1>2 DEF Passes
<1>. HIDE DEF g
<1>4. /\ FillsInv'
      /\ Total(HeldOf(fill')) = Total(HeldOf(fill)) - Held(fill[i]) + Held(g)
      /\ Total(HeldOf(fill)) \in Nat /\ Held(fill[i]) \in Nat
  BY <1>3, SetFill, Zenon
<1>5. /\ Consistent(cached, order, tag_index)
      /\ used = Total(SizesOf(cached)) + Total(HeldOf(fill)) /\ used <= max_bytes /\ max_bytes \in Nat
      /\ Total(SizesOf(cached)) \in Nat
  BY StoreAssumption, SizesFacts DEF StoreInv, Consistent
<1>6. used' = Total(SizesOf(cached)) + Total(HeldOf(fill')) /\ used' <= max_bytes
  BY <1>1, <1>2, <1>4, <1>5
<1>. QED
  BY <1>1, <1>2, <1>4, <1>5, <1>6 DEF StoreInv

LEMMA UpdateStep ==
    ASSUME FillsInv, StoreInv, NEW k \in Keys, NEW meta \in 1 .. MaxMeta, NEW tags \in SUBSET Tags,
           UpdateMeta(k, meta, tags)
    PROVE  /\ StoreInv'
           /\ \A x \in Keys : cached[x] = Absent <=> cached'[x] = Absent
           /\ \A x \in Keys : cached[x] # Absent => cached'[x].from = cached[x].from
<1>. DEFINE c == cached
            e == [c[k] EXCEPT !.meta = meta, !.tags = tags]
            d == [c EXCEPT ![k] = e]
<1>1. /\ c \in Slots /\ Queue(order, EntriesOf(c)) /\ tag_index = IndexOf(c)
      /\ used = Total(SizesOf(c)) + Total(HeldOf(fill)) /\ used <= max_bytes /\ max_bytes \in Nat
  BY StoreAssumption DEF StoreInv, Consistent
<1>2. /\ c[k] # Absent /\ (meta > c[k].meta => used + meta - c[k].meta <= max_bytes)
      /\ used' = used + meta - c[k].meta
      /\ tag_index' = Unindex(tag_index, k, c[k].tags) \cup (tags \X {k})
      /\ order' = order /\ fill' = fill
      /\ cached' = [cached EXCEPT ![k].meta = meta, ![k].tags = tags]
  BY DEF UpdateMeta
<1>3. c[k] \in Entry /\ cached' = d
  BY <1>1, <1>2, Zenon DEF Slots
<1>4. e \in Entry /\ e.meta = meta /\ e.tags = tags /\ e.len = c[k].len /\ e.from = c[k].from
  BY <1>3, Zenon DEF Entry
<1>5. /\ e # Absent /\ Size(e) = meta + c[k].len /\ Size(c[k]) = c[k].meta + c[k].len
      /\ meta \in Nat /\ c[k].meta \in Nat /\ c[k].len \in Nat
  <2>1. c[k].meta \in 1 .. MaxMeta /\ c[k].len \in 0 .. MaxChunks
    BY <1>3 DEF Entry
  <2>2. MaxMeta \in Nat /\ MaxChunks \in Nat
    BY StoreAssumption
  <2>3. e # Absent /\ Size(e) = e.meta + e.len /\ Size(c[k]) = c[k].meta + c[k].len
    <3>. HIDE DEF e, c
    <3>. QED
      BY <1>3, <1>4, EntryFacts
  <2>. HIDE DEF e, c
  <2>. QED
    BY <2>1, <2>2, <2>3, <1>4
<1>. HIDE DEF c, e
<1>6. /\ d \in Slots /\ Total(SizesOf(d)) = Total(SizesOf(c)) - Size(c[k]) + Size(e)
      /\ Total(SizesOf(c)) \in Nat /\ Total(SizesOf(c)) >= Size(c[k])
  BY <1>1, <1>4, SetKey
<1>7. IndexOf(d) = Reindexed(IndexOf(c), k, c[k], e)
  BY <1>1, <1>4, SetKey
<1>8. EntriesOf(d) = (EntriesOf(c) \ {k}) \cup {k}
  BY <1>1, <1>4, <1>5, SetKey
<1>9. /\ \A x \in Keys : c[x] = Absent <=> d[x] = Absent
      /\ \A x \in Keys : c[x] # Absent => d[x].from = c[x].from
  BY <1>1, <1>2, <1>4, <1>5 DEF Slots
<1>. HIDE DEF d
<1>10. tag_index' = IndexOf(d)
  BY <1>1, <1>2, <1>4, <1>5, <1>7 DEF Reindexed
<1>11. EntriesOf(d) = EntriesOf(c)
  BY <1>9 DEF EntriesOf
<1>12. Total(HeldOf(fill)) \in Int
  BY HeldOfFacts
<1>13. used' = Total(SizesOf(d)) + Total(HeldOf(fill)) /\ used' <= max_bytes
  BY <1>1, <1>2, <1>5, <1>6, <1>12
<1>14. StoreInv'
  BY <1>1, <1>2, <1>3, <1>6, <1>10, <1>11, <1>13, Zenon DEF StoreInv, Consistent
<1>. QED
  BY <1>3, <1>9, <1>14 DEF c

LEMMA LookupStep ==
    ASSUME StoreInv, NEW r \in Readers, NEW k \in Keys, LookupCached(r, k)
    PROVE  StoreInv' /\ Thinned(cached', cached)
<1>. DEFINE c == cached
            e == [c[k] EXCEPT !.visited = TRUE]
            d == [c EXCEPT ![k] = e]
<1>1. /\ c \in Slots /\ Queue(order, EntriesOf(c)) /\ tag_index = IndexOf(c)
      /\ used = Total(SizesOf(c)) + Total(HeldOf(fill)) /\ used <= max_bytes
      /\ UNCHANGED <<order, tag_index, used, fill>>
  BY DEF StoreInv, Consistent, LookupCached
<1>2. CASE c[k] = Absent
  <2>1. cached' = cached
    BY <1>2 DEF LookupCached
  <2>. QED
    BY <1>1, <2>1, ThinnedSelf DEF StoreInv, Consistent
<1>3. CASE c[k] # Absent
  <2>1. c[k] \in Entry /\ cached' = d
    BY <1>1, <1>3 DEF Slots, LookupCached
  <2>2. e \in Entry /\ e.meta = c[k].meta /\ e.tags = c[k].tags /\ e.len = c[k].len /\ e.visited = TRUE
    BY <2>1, Zenon DEF Entry
  <2>3. e # Absent /\ Size(e) = Size(c[k])
    BY <2>1, <2>2, EntryFacts, Zenon
  <2>4. Thinned(d, c)
    <3>1. ASSUME NEW x \in Keys, x # k PROVE d[x] = c[x] /\ (c[x] = Absent \/ c[x] \in Entry)
      BY <1>1, <3>1 DEF Slots
    <3>2. d[k] = e
      BY <1>1 DEF Slots
    <3>3. \A x \in Entry : x = [x EXCEPT !.visited = x.visited]
      BY DEF Entry
    <3>4. ASSUME NEW x \in Keys
          PROVE  \/ d[x] = Absent
                 \/ c[x] # Absent /\ d[x] = [c[x] EXCEPT !.visited = d[x].visited]
      <4>1. CASE x = k
        BY <4>1, <3>2, <2>2, <1>3, Zenon
      <4>2. CASE x # k
        BY <4>2, <3>1, <3>3
      <4>. QED
        BY <4>1, <4>2
    <3>. QED
      BY <3>4, Zenon DEF Thinned
  <2>. HIDE DEF c, e
  <2>5. /\ d \in Slots /\ Total(SizesOf(d)) = Total(SizesOf(c)) - Size(c[k]) + Size(e)
        /\ Total(SizesOf(c)) \in Nat /\ Size(c[k]) \in Nat
    BY <1>1, <2>2, SetKey
  <2>6. IndexOf(d) = Reindexed(IndexOf(c), k, c[k], e)
    BY <1>1, <2>2, SetKey
  <2>7. EntriesOf(d) = (EntriesOf(c) \ {k}) \cup {k}
    BY <1>1, <2>2, <2>3, SetKey
  <2>. HIDE DEF d
  <2>8. IndexOf(d) = IndexOf(c) /\ EntriesOf(d) = EntriesOf(c)
    <3>1. c[k].tags \X {k} \subseteq IndexOf(c)
      BY <1>3, <2>1 DEF IndexOf, Entry
    <3>2. k \in EntriesOf(c)
      BY <1>3 DEF EntriesOf
    <3>. QED
      BY <1>3, <2>2, <2>3, <2>6, <2>7, <3>1, <3>2 DEF Reindexed, Unindex
  <2>9. Total(SizesOf(d)) = Total(SizesOf(c))
    BY <2>3, <2>5
  <2>. QED
    BY <1>1, <2>1, <2>4, <2>5, <2>8, <2>9 DEF StoreInv, Consistent, c
<1>. QED
  BY <1>2, <1>3

LEMMA MarkStep ==
    ASSUME FillsInv, StoreInv, PurgeMark
    PROVE  /\ FillsInv' /\ StoreInv'
           /\ \A i \in Fills : /\ Advance(fill[i], fill'[i]) /\ fill'[i].pc = fill[i].pc
                               /\ fill[i] = Idle => fill'[i] = Idle
<1>1. /\ fill' = [i \in Fills |->
             IF i \in Temp /\ Means(purge.q, fill[i].key, fill[i].tags, fill[i].path)
             THEN [fill[i] EXCEPT !.invalidated = TRUE] ELSE fill[i]]
      /\ UNCHANGED store
  BY DEF PurgeMark
<1>2. ASSUME NEW i \in Fills
      PROVE  /\ fill'[i] \in Fill \cup {Idle} /\ SoundFill(fill'[i]) /\ Held(fill'[i]) = Held(fill[i])
             /\ Advance(fill[i], fill'[i]) /\ fill'[i].pc = fill[i].pc
             /\ fill[i] = Idle => fill'[i] = Idle
  <2>. DEFINE f == fill[i]
              g == fill'[i]
  <2>0. f \in Fill \cup {Idle} /\ SoundFill(f)
    BY DEF FillsInv
  <2>1. CASE g = f
    <3>1. f \in Fill => f.len >= f.len
      BY FillFacts
    <3>. HIDE DEF f, g
    <3>2. Advance(f, f)
      <4>1. CASE f = Idle
        BY <4>1 DEF Advance
      <4>2. CASE f \in Fill /\ f # Idle
        BY <4>2, <3>1 DEF Advance, Running
      <4>. QED
        BY <4>1, <4>2, <2>0
    <3>. QED
      BY <2>0, <2>1, <3>2 DEF f, g
  <2>2. CASE g # f
    <3>1. i \in Temp /\ g = [f EXCEPT !.invalidated = TRUE]
      BY <1>1, <2>2
    <3>2. f \in Fill /\ f # Idle
      BY <3>1, <2>0, FillFacts DEF Temp
    <3>3. /\ g \in Fill /\ g.pc = f.pc /\ g.key = f.key /\ g.tags = f.tags /\ g.path = f.path
          /\ g.meta = f.meta /\ g.len = f.len /\ g.accounted = f.accounted /\ g.temp = f.temp
          /\ g.invalidated = TRUE /\ g.complete = f.complete /\ g.whole = f.whole
      BY <3>1, <3>2, Zenon DEF Fill
    <3>4. g # Idle /\ f.len \in Nat
      BY <3>2, <3>3, FillFacts
    <3>. HIDE DEF f, g
    <3>5. SoundFill(g) /\ Held(g) = Held(f)
      BY <2>0, <3>2, <3>3, <3>4 DEF SoundFill, Held
    <3>6. f.pc # "finishing" => Advance(f, g)
      BY <3>2, <3>3, <3>4 DEF Advance, Running
    <3>7. f.pc = "finishing" => Advance(f, g)
      BY <3>2, <3>3, <3>4 DEF Advance, Running
    <3>. QED
      BY <3>2, <3>3, <3>5, <3>6, <3>7 DEF f, g
  <2>. QED
    BY <2>1, <2>2
<1>3. FillsInv'
  <2>1. fill' \in [Fills -> Fill \cup {Idle}]
    BY <1>1, <1>2
  <2>. QED
    BY <2>1, <1>2 DEF FillsInv
<1>4. HeldOf(fill') = HeldOf(fill)
  BY <1>2 DEF HeldOf
<1>5. StoreInv'
  BY <1>1, <1>4 DEF StoreInv, store
<1>. QED
  BY <1>2, <1>3, <1>5

LEMMA RemoveStep ==
    ASSUME FillsInv, StoreInv, PurgeRemove
    PROVE  FillsInv' /\ StoreInv'
<1>. DEFINE c == cached
            D == {k \in Entries : IF purge.q.by = "tag" THEN k \in purge.victims
                                  ELSE Means(purge.q, k, cached[k].tags, cached[k].path)}
            d == Removed(c, D)
<1>1. /\ used' = used - Total(SizesIn(c, D)) /\ cached' = d /\ order' = Without(order, D)
      /\ tag_index' = tag_index \ TagsIn(c, D) /\ fill' = fill
  BY DEF PurgeRemove, Removed, SizesIn, TagsIn
<1>2. /\ c \in Slots /\ Queue(order, EntriesOf(c)) /\ tag_index = IndexOf(c)
      /\ used = Total(SizesOf(c)) + Total(HeldOf(fill)) /\ used <= max_bytes /\ max_bytes \in Nat
      /\ Total(HeldOf(fill)) \in Nat
  BY StoreAssumption, HeldOfFacts DEF StoreInv, Consistent
<1>3. D \subseteq EntriesOf(c)
  BY DEF Entries, EntriesOf
<1>. HIDE DEF c, D
<1>4. /\ d \in Slots /\ EntriesOf(d) = EntriesOf(c) \ D
      /\ Total(SizesOf(d)) = Total(SizesOf(c)) - Total(SizesIn(c, D))
      /\ Total(SizesOf(c)) \in Nat /\ Total(SizesIn(c, D)) \in Nat
  BY <1>2, <1>3, RemoveKeys
<1>5. IndexOf(d) = IndexOf(c) \ TagsIn(c, D)
  BY <1>2, <1>3, RemoveKeys
<1>. HIDE DEF d
<1>6. Queue(order', EntriesOf(d))
  BY <1>1, <1>2, <1>4, QueueWithout
<1>7. used' = Total(SizesOf(d)) + Total(HeldOf(fill)) /\ used' <= max_bytes
  <2>. DEFINE n == Total(SizesIn(c, D))
  <2>1. /\ used' = used - n /\ n \in Nat /\ Total(SizesOf(d)) = Total(SizesOf(c)) - n
        /\ Total(SizesOf(c)) \in Nat
    BY <1>1, <1>4
  <2>. HIDE DEF n
  <2>. QED
    BY <2>1, <1>2
<1>8. tag_index' = IndexOf(d)
  BY <1>1, <1>2, <1>5
<1>9. FillsInv'
  BY <1>1 DEF FillsInv
<1>. QED
  BY <1>1, <1>2, <1>4, <1>6, <1>7, <1>8, <1>9 DEF StoreInv, Consistent

LEMMA LeaderStep ==
    ASSUME FillsInv, StoreInv, NEW i \in Fills, Leader(i)
    PROVE  /\ FillsInv' /\ StoreInv' /\ Passes(i) /\ UNCHANGED <<purge, reader, outdated>>
           /\ Admit(i) \/ Thinned(cached', cached)
<1>0. Thinned(cached, cached)
  BY ThinnedSelf DEF StoreInv, Consistent
<1>1. CASE Register(i) \/ WritePublish(i) \/ Finish(i) \/ EndHandoff(i) \/ Move(i) \/ Drop(i)
  <2>1. Passes(i) /\ Held(fill'[i]) = Held(fill[i])
    BY <1>1, RegisterPasses, WritePublishPasses, FinishPasses, EndHandoffPasses, MovePasses, DropPasses
  <2>2. UNCHANGED <<store, purge, reader, outdated>>
    BY <1>1, Zenon DEF Register, WritePublish, Finish, EndHandoff, Move, Drop
  <2>3. FillsInv' /\ StoreInv'
    BY <2>1, <2>2, QuietStep
  <2>. QED
    BY <1>0, <2>1, <2>2, <2>3 DEF store
<1>2. CASE WriteReserve(i)
  <2>1. PICK ok \in BOOLEAN : Reserve(1, ok) /\ Goto(i, IF ok THEN "writing" ELSE "failed")
    BY <1>2 DEF WriteReserve
  <2>2. Passes(i) /\ Held(fill'[i]) = Held(fill[i]) + (IF ok THEN 1 ELSE 0)
    BY <1>2, <2>1, WriteReservePasses DEF WriteReserve
  <2>3. FillsInv' /\ StoreInv' /\ Thinned(cached', cached)
    <3>. DEFINE g == fill'[i]
    <3>1. g \in Fill /\ SoundFill(g) /\ fill' = [fill EXCEPT ![i] = g]
          /\ Held(g) = Held(fill[i]) + (IF ok THEN 1 ELSE 0)
      BY <2>2 DEF Passes
    <3>. HIDE DEF g
    <3>. QED
      BY <3>1, <2>1, ReservingStep, Zenon
  <2>. QED
    BY <1>2, <2>2, <2>3 DEF WriteReserve
<1>3. CASE Admit(i)
  BY <1>3, AdmitStep, Zenon DEF Admit
<1>4. CASE Release(i)
  <2>1. UNCHANGED <<cached, purge, reader, outdated>>
    BY <1>4 DEF Release
  <2>. QED
    BY <1>0, <1>4, <2>1, ReleaseStep
<1>. QED
  BY <1>1, <1>2, <1>3, <1>4 DEF Leader

LEMMA OpenStep ==
    ASSUME FillsInv, StoreInv, NEW i \in Fills, NEW k \in Keys, NEW tags \in SUBSET Tags,
           NEW t \in BOOLEAN, NEW meta \in 1 .. MaxMeta, Open(i, k, tags, t, meta)
    PROVE  /\ FillsInv' /\ StoreInv' /\ Thinned(cached', cached)
           /\ purge = Idle /\ UNCHANGED <<purge, reader, outdated>>
           /\ fill[i] = Idle /\ fill'[i] \in Fill /\ fill' = [fill EXCEPT ![i] = fill'[i]]
           /\ fill'[i].pc \in {"registering", "refused"}
           /\ fill'[i].pc = "refused" => EntriesOf(cached') = {} \/ fill'[i].meta > max_bytes
<1>0. fill[i] = Idle /\ purge = Idle /\ UNCHANGED <<purge, reader, outdated>>
  BY DEF Open, WriteHeld
<1>1. PICK ok \in BOOLEAN :
          /\ Reserve(meta, ok)
          /\ fill' = [fill EXCEPT ![i] =
                [pc |-> IF ok THEN "registering" ELSE "refused", key |-> k, tags |-> tags,
                 path |-> IF t THEN None ELSE PathOf[k], transient |-> t,
                 meta |-> meta, len |-> 0, accounted |-> IF ok THEN meta ELSE 0, temp |-> FALSE,
                 invalidated |-> FALSE, complete |-> FALSE, whole |-> FALSE]]
  BY Zenon DEF Open
<1>. DEFINE g == Opened(k, tags, t, meta, ok)
<1>2. meta \in Nat
  BY StoreAssumption
<1>3. ok => meta <= max_bytes
  <2>1. Total(HeldOf(fill)) \in Nat /\ Consistent(cached, order, tag_index)
        /\ used = Total(SizesOf(cached)) + Total(HeldOf(fill)) /\ used <= max_bytes
    BY HeldOfFacts DEF StoreInv
  <2>. QED
    BY <2>1, <1>1, <1>2, ReserveFacts, Zenon
<1>4. fill' = [fill EXCEPT ![i] = g] /\ fill'[i] = g
  BY <1>1 DEF Opened, FillsInv
<1>5. /\ g \in Fill /\ SoundFill(g) /\ g.pc \in {"registering", "refused"} /\ g.meta = meta
      /\ Held(fill[i]) = 0 /\ Held(g) = (IF ok THEN meta ELSE 0)
      /\ g.pc = "refused" => ~ok
  BY <1>0, <1>3, OpenPasses
<1>. HIDE DEF g
<1>6. Held(g) = Held(fill[i]) + (IF ok THEN meta ELSE 0)
  BY <1>2, <1>5
<1>7. /\ FillsInv' /\ StoreInv' /\ Thinned(cached', cached)
      /\ ~ok => EntriesOf(cached') = {} \/ meta > max_bytes
  <2>1. Reserve(meta, ok) /\ g \in Fill /\ SoundFill(g) /\ fill' = [fill EXCEPT ![i] = g]
    BY <1>1, <1>4, <1>5, Zenon
  <2>. QED
    BY <2>1, <1>2, <1>6, ReservingStep, Zenon
<1>. QED
  BY <1>0, <1>4, <1>5, <1>7, Zenon

-----------------------------------------------------------------------------
(* Purges *)

\* How every fill moves in a step of a leader.
Moves ==
    \A j \in Fills :
        /\ Advance(fill[j], fill'[j])
        /\ fill[j] = Idle => \/ fill'[j] = Idle
                             \/ purge = Idle /\ fill'[j].pc \in {"registering", "refused"}
        /\ purge # Idle /\ fill'[j].pc \in Locking => fill[j].pc \in Locking

LEMMA AdvanceSelf ==
    ASSUME NEW f \in Fill \cup {Idle}
    PROVE  Advance(f, f)
<1>1. CASE f = Idle
  BY <1>1 DEF Advance
<1>2. CASE f \in Fill
  <2>1. f.len >= f.len
    BY <1>2, FillFacts
  <2>. QED
    BY <1>2, <2>1 DEF Advance, Running
<1>. QED
  BY <1>1, <1>2

LEMMA PassesMoves ==
    ASSUME FillsInv, NEW i \in Fills, Passes(i)
    PROVE  Moves
<1>. SUFFICES ASSUME NEW j \in Fills
              PROVE  /\ Advance(fill[j], fill'[j])
                     /\ fill[j] = Idle => fill'[j] = Idle
                     /\ purge # Idle /\ fill'[j].pc \in Locking => fill[j].pc \in Locking
  BY DEF Moves
<1>1. CASE j = i
  BY <1>1, FillFacts DEF Passes
<1>2. CASE j # i
  <2>1. fill'[j] = fill[j]
    BY <1>2 DEF Passes, FillsInv
  <2>. QED
    BY <2>1, AdvanceSelf DEF FillsInv
<1>. QED
  BY <1>1, <1>2

LEMMA OpenMoves ==
    ASSUME FillsInv, NEW i \in Fills, purge = Idle, fill[i] = Idle, fill'[i] \in Fill,
           fill' = [fill EXCEPT ![i] = fill'[i]], fill'[i].pc \in {"registering", "refused"}
    PROVE  Moves
<1>. SUFFICES ASSUME NEW j \in Fills
              PROVE  /\ Advance(fill[j], fill'[j])
                     /\ fill[j] = Idle => fill'[j] = Idle \/ fill'[j].pc \in {"registering", "refused"}
  BY DEF Moves
<1>1. CASE j = i
  BY <1>1 DEF Advance
<1>2. CASE j # i
  <2>1. fill'[j] = fill[j]
    BY <1>2 DEF FillsInv
  <2>. QED
    BY <2>1, AdvanceSelf DEF FillsInv
<1>. QED
  BY <1>1, <1>2

LEMMA ThinnedFacts ==
    ASSUME NEW c \in Slots, NEW d, Thinned(d, c)
    PROVE  \A k \in Keys : d[k] # Absent => /\ c[k] # Absent /\ d[k].tags = c[k].tags
                                            /\ d[k].from = c[k].from /\ c[k].from \in Fills
<1>. SUFFICES ASSUME NEW k \in Keys, d[k] # Absent
              PROVE  /\ c[k] # Absent /\ d[k].tags = c[k].tags
                     /\ d[k].from = c[k].from /\ c[k].from \in Fills
  OBVIOUS
<1>1. c[k] # Absent /\ d[k] = [c[k] EXCEPT !.visited = d[k].visited]
  BY DEF Thinned
<1>2. c[k] \in Entry
  BY <1>1 DEF Slots
<1>. QED
  BY <1>1, <1>2 DEF Entry

\* A fill that runs after a step ran before it or was being registered.
LEMMA MovedRunning ==
    ASSUME Moves, NEW j \in Fills, fill'[j].pc \in Running
    PROVE  /\ fill[j].pc \in Running \cup {"registering"}
           /\ fill'[j].key = fill[j].key /\ fill'[j].tags = fill[j].tags /\ fill'[j].path = fill[j].path
           /\ fill[j].invalidated => fill'[j].invalidated
<1>1. fill'[j] # Idle /\ fill'[j].pc \notin {"registering", "refused"}
  BY FillFacts DEF Running
<1>2. fill[j] # Idle
  BY <1>1 DEF Moves
<1>. QED
  BY <1>2 DEF Moves, Advance

LEMMA OutdatedKept ==
    ASSUME OutdatedEnds, FillsInv', Moves, UNCHANGED outdated
    PROVE  OutdatedEnds'
<1>1. ASSUME NEW j \in outdated
      PROVE  /\ fill'[j].pc \notin {"idle", "registering", "admitting"}
             /\ fill'[j].pc \in Running => fill'[j].invalidated
  <2>1. j \in Fills /\ fill[j].pc \notin {"idle", "registering", "admitting"}
        /\ (fill[j].pc \in Running => fill[j].invalidated)
    BY DEF OutdatedEnds
  <2>2. fill[j] # Idle
    BY <2>1, FillFacts
  <2>3. Advance(fill[j], fill'[j])
    BY <2>1 DEF Moves
  <2>4. fill'[j].pc \in Running => fill'[j].invalidated
    BY <2>1, <2>2, <2>3 DEF Advance
  <2>5. fill'[j].pc \notin {"registering", "admitting"}
    BY <2>1, <2>2, <2>3 DEF Advance, Running
  <2>6. fill'[j].pc # "idle"
    <3>1. fill'[j] # Idle
      BY <2>2, <2>3 DEF Advance
    <3>. QED
      BY <3>1, <2>1, FillFacts DEF FillsInv
  <2>. QED
    BY <2>4, <2>5, <2>6
<1>. QED
  BY <1>1 DEF OutdatedEnds

LEMMA EntriesKept ==
    ASSUME EntriesCurrent, cached \in Slots, Moves, Thinned(cached', cached), UNCHANGED outdated
    PROVE  EntriesCurrent'
<1>0. \A k \in Keys : cached'[k] # Absent => cached[k] # Absent /\ cached'[k].from = cached[k].from /\ cached[k].from \in Fills
  BY ThinnedFacts
<1>. SUFFICES ASSUME NEW k \in Keys, cached'[k] # Absent
              PROVE  /\ fill'[cached'[k].from].pc = "done" /\ fill'[cached'[k].from].key = k
                     /\ cached'[k].from \notin outdated'
  BY DEF EntriesCurrent
<1>. DEFINE i == cached[k].from
<1>1. i \in Fills /\ cached'[k].from = i /\ fill[i].pc = "done" /\ fill[i].key = k /\ i \notin outdated
  BY <1>0 DEF EntriesCurrent
<1>. HIDE DEF i
<1>2. fill[i] # Idle /\ Advance(fill[i], fill'[i])
  BY <1>1, FillFacts DEF Moves
<1>. QED
  BY <1>1, <1>2 DEF Advance

\* A step that only lets entries go, while fills move on.
LEMMA PurgeKept ==
    ASSUME PurgeInv, FillsInv', cached \in Slots, Moves, Thinned(cached', cached), UNCHANGED <<purge, outdated>>
    PROVE  PurgeInv'
<1>0. \A k \in Keys : cached'[k] # Absent => /\ cached[k] # Absent /\ cached'[k].tags = cached[k].tags
                                             /\ cached'[k].from = cached[k].from /\ cached[k].from \in Fills
  BY ThinnedFacts
<1>1. OutdatedEnds'
  BY OutdatedKept DEF PurgeInv
<1>2. EntriesCurrent'
  BY EntriesKept DEF PurgeInv
<1>3. PurgeUnderWay'
  <2>. SUFFICES ASSUME purge # Idle
                PROVE  /\ purge.pc \in {"mark", "remove"}
                       /\ purge = [pc |-> purge.pc, q |-> purge.q, victims |-> purge.victims]
                       /\ \A i \in Fills : fill'[i].pc \notin Locking
                       /\ purge.q.by = "tag" =>
                             \A k \in Keys : cached'[k] # Absent /\ purge.q.what \in cached'[k].tags => k \in purge.victims
                       /\ purge.pc = "remove" =>
                             \A i \in Fills : /\ fill'[i].pc \in Running
                                              /\ Means(purge.q, fill'[i].key, fill'[i].tags, fill'[i].path)
                                              => fill'[i].invalidated
    BY Zenon DEF PurgeUnderWay, Means
  <2>1. /\ purge.pc \in {"mark", "remove"}
        /\ purge = [pc |-> purge.pc, q |-> purge.q, victims |-> purge.victims]
        /\ \A i \in Fills : fill[i].pc \notin Locking
    BY DEF PurgeInv, PurgeUnderWay
  <2>2. \A i \in Fills : fill'[i].pc \notin Locking
    BY <2>1 DEF Moves
  <2>3. ASSUME purge.q.by = "tag", NEW k \in Keys, cached'[k] # Absent, purge.q.what \in cached'[k].tags
        PROVE  k \in purge.victims
    BY <2>3, <1>0 DEF PurgeInv, PurgeUnderWay
  <2>4. ASSUME purge.pc = "remove", NEW i \in Fills, fill'[i].pc \in Running,
               Means(purge.q, fill'[i].key, fill'[i].tags, fill'[i].path)
        PROVE  fill'[i].invalidated
    <3>1. /\ fill[i].pc \in Running \cup {"registering"}
          /\ fill'[i].key = fill[i].key /\ fill'[i].tags = fill[i].tags /\ fill'[i].path = fill[i].path
          /\ fill[i].invalidated => fill'[i].invalidated
      BY <2>4, MovedRunning
    <3>2. fill[i].pc \in Running
      BY <3>1, <2>1 DEF Locking
    <3>3. fill[i].invalidated
      BY <3>1, <3>2, <2>4 DEF PurgeInv, PurgeUnderWay
    <3>. QED
      BY <3>1, <3>3
  <2>. QED
    BY <2>1, <2>2, <2>3, <2>4
<1>. QED
  BY <1>1, <1>2, <1>3 DEF PurgeInv

LEMMA AdmitPurge ==
    ASSUME PurgeInv, FillsInv, StoreInv, FillsInv', NEW i \in Fills, Admit(i)
    PROVE  PurgeInv'
<1>1. /\ Passes(i) /\ fill[i].pc = "admitting" /\ fill'[i].pc = "done" /\ fill[i].key \in Keys
      /\ \A k \in Keys : k # fill[i].key => cached'[k] = cached[k]
      /\ cached'[fill[i].key].from = i
  BY AdmitStep
<1>2. Moves
  BY <1>1, PassesMoves
<1>3. UNCHANGED <<purge, outdated>> /\ purge = Idle
  BY <1>1 DEF Admit, PurgeInv, PurgeUnderWay, Locking
<1>4. OutdatedEnds'
  BY <1>2, <1>3, OutdatedKept DEF PurgeInv
<1>5. EntriesCurrent'
  <2>. SUFFICES ASSUME NEW k \in Keys, cached'[k] # Absent
                PROVE  /\ fill'[cached'[k].from].pc = "done" /\ fill'[cached'[k].from].key = k
                       /\ cached'[k].from \notin outdated'
    BY DEF EntriesCurrent
  <2>1. CASE k = fill[i].key
    <3>1. fill'[i].key = fill[i].key
      BY <1>1, FillFacts DEF Passes, Advance
    <3>2. i \notin outdated
      BY <1>1 DEF PurgeInv, OutdatedEnds
    <3>. QED
      BY <2>1, <1>1, <1>3, <3>1, <3>2
  <2>2. CASE k # fill[i].key
    <3>. DEFINE j == cached[k].from
    <3>1. cached'[k].from = j /\ fill[j].pc = "done" /\ fill[j].key = k /\ j \notin outdated /\ cached[k] # Absent
      BY <1>1, <2>2 DEF PurgeInv, EntriesCurrent
    <3>2. j \in Fills
      BY <3>1 DEF StoreInv, Consistent, Slots, Entry
    <3>. HIDE DEF j
    <3>3. fill[j] # Idle /\ Advance(fill[j], fill'[j])
      BY <3>1, <3>2, <1>2, FillFacts DEF Moves
    <3>. QED
      BY <3>1, <3>3, <1>3 DEF Advance
  <2>. QED
    BY <2>1, <2>2
<1>6. PurgeUnderWay'
  BY <1>3 DEF PurgeUnderWay
<1>. QED
  BY <1>4, <1>5, <1>6 DEF PurgeInv

LEMMA UpdatePurge ==
    ASSUME PurgeInv, FillsInv, StoreInv, NEW k \in Keys, NEW meta \in 1 .. MaxMeta, NEW tags \in SUBSET Tags,
           UpdateMeta(k, meta, tags)
    PROVE  PurgeInv'
<1>1. purge = Idle /\ UNCHANGED <<fill, purge, outdated>>
  BY DEF UpdateMeta, WriteHeld
<1>2. /\ \A x \in Keys : cached[x] = Absent <=> cached'[x] = Absent
      /\ \A x \in Keys : cached[x] # Absent => cached'[x].from = cached[x].from
  BY UpdateStep
<1>3. EntriesCurrent'
  BY <1>1, <1>2 DEF PurgeInv, EntriesCurrent
<1>4. OutdatedEnds' /\ PurgeUnderWay'
  BY <1>1 DEF PurgeInv, OutdatedEnds, PurgeUnderWay
<1>. QED
  BY <1>3, <1>4 DEF PurgeInv

LEMMA StartPurge ==
    ASSUME PurgeInv, FillsInv, StoreInv, NEW q, PurgeStart(q)
    PROVE  PurgeInv'
<1>. DEFINE v == IF q.by = "tag" THEN {x[2] : x \in {y \in tag_index : y[1] = q.what}} ELSE {}
<1>1. /\ purge' = [pc |-> "mark", q |-> q, victims |-> v]
      /\ UNCHANGED <<store, fill, outdated>> /\ ~ReadHeld
  BY DEF PurgeStart
<1>2. EntriesCurrent' /\ OutdatedEnds'
  BY <1>1 DEF PurgeInv, EntriesCurrent, OutdatedEnds, store
<1>3. ASSUME q.by = "tag", NEW k \in Keys, cached[k] # Absent, q.what \in cached[k].tags
      PROVE  k \in v
  <2>1. cached[k] \in Entry /\ tag_index = IndexOf(cached)
    BY <1>3 DEF StoreInv, Consistent, Slots
  <2>2. q.what \in Tags
    BY <2>1, <1>3 DEF Entry
  <2>3. <<q.what, k>> \in tag_index
    BY <2>1, <2>2, <1>3 DEF IndexOf
  <2>. QED
    BY <2>3, <1>3
<1>. HIDE DEF v
<1>4. purge'.pc = "mark" /\ purge'.q = q /\ purge'.victims = v
  BY <1>1
<1>5. \A i \in Fills : fill'[i].pc \notin Locking
  BY <1>1 DEF ReadHeld, Locking
<1>6. PurgeUnderWay'
  <2>1. purge'.q.by = "tag" =>
           \A k \in Keys : cached'[k] # Absent /\ purge'.q.what \in cached'[k].tags => k \in purge'.victims
    BY <1>1, <1>3, <1>4 DEF store
  <2>2. purge' = [pc |-> purge'.pc, q |-> purge'.q, victims |-> purge'.victims]
    BY <1>1, <1>4
  <2>. QED
    BY <1>4, <1>5, <2>1, <2>2 DEF PurgeUnderWay
<1>. QED
  BY <1>2, <1>6 DEF PurgeInv

LEMMA MarkMoves ==
    ASSUME FillsInv, StoreInv, PurgeMark
    PROVE  Moves /\ \A i \in Fills : fill'[i].pc = fill[i].pc
BY MarkStep DEF Moves

LEMMA MarkPurge ==
    ASSUME PurgeInv, FillsInv, StoreInv, FillsInv', PurgeMark
    PROVE  PurgeInv'
<1>1. /\ purge.pc = "mark" /\ purge' = [purge EXCEPT !.pc = "remove"] /\ UNCHANGED <<store, outdated>>
      /\ fill' = [i \in Fills |->
             IF i \in Temp /\ Means(purge.q, fill[i].key, fill[i].tags, fill[i].path)
             THEN [fill[i] EXCEPT !.invalidated = TRUE] ELSE fill[i]]
  BY DEF PurgeMark
<1>2. purge # Idle
  BY <1>1, FillFacts
<1>3. /\ purge = [pc |-> purge.pc, q |-> purge.q, victims |-> purge.victims]
      /\ \A i \in Fills : fill[i].pc \notin Locking
      /\ purge.q.by = "tag" =>
              \A k \in Keys : cached[k] # Absent /\ purge.q.what \in cached[k].tags => k \in purge.victims
  BY <1>2 DEF PurgeInv, PurgeUnderWay
<1>4. /\ purge' = [pc |-> "remove", q |-> purge.q, victims |-> purge.victims]
      /\ purge'.pc = "remove" /\ purge'.q = purge.q /\ purge'.victims = purge.victims
  BY <1>1, <1>3
<1>5. Moves /\ \A i \in Fills : fill'[i].pc = fill[i].pc
  BY MarkMoves
<1>6. OutdatedEnds'
  BY <1>1, <1>5, OutdatedKept DEF PurgeInv
<1>7. EntriesCurrent'
  <2>1. cached \in Slots /\ cached' = cached
    BY <1>1 DEF StoreInv, Consistent, store
  <2>2. Thinned(cached', cached)
    BY <2>1, ThinnedSelf
  <2>. QED
    BY <1>1, <1>5, <2>1, <2>2, EntriesKept DEF PurgeInv
<1>8. ASSUME NEW i \in Fills, fill'[i].pc \in Running,
             Means(purge.q, fill'[i].key, fill'[i].tags, fill'[i].path)
      PROVE  fill'[i].invalidated
  <2>1. fill[i].pc \in Running /\ fill[i].pc # "idle"
    BY <1>5, <1>8 DEF Running
  <2>2. fill[i] \in Fill /\ fill[i].temp
    BY <2>1, InFill DEF SoundFill
  <2>3. i \in Temp
    BY <2>1, <2>2 DEF Temp
  <2>4. fill'[i].key = fill[i].key /\ fill'[i].tags = fill[i].tags /\ fill'[i].path = fill[i].path
    BY <1>5, <1>8, MovedRunning
  <2>5. Means(purge.q, fill[i].key, fill[i].tags, fill[i].path)
    BY <1>8, <2>4
  <2>6. fill'[i] = [fill[i] EXCEPT !.invalidated = TRUE]
    BY <1>1, <2>3, <2>5
  <2>. QED
    BY <2>2, <2>6 DEF Fill
<1>9. PurgeUnderWay'
  <2>1. \A i \in Fills : fill'[i].pc \notin Locking
    BY <1>3, <1>5
  <2>2. purge'.q.by = "tag" =>
           \A k \in Keys : cached'[k] # Absent /\ purge'.q.what \in cached'[k].tags => k \in purge'.victims
    BY <1>1, <1>3, <1>4 DEF store
  <2>3. purge' = [pc |-> purge'.pc, q |-> purge'.q, victims |-> purge'.victims]
    BY <1>4
  <2>4. \A i \in Fills : fill'[i].pc \in Running /\ Means(purge'.q, fill'[i].key, fill'[i].tags, fill'[i].path)
                           => fill'[i].invalidated
    BY <1>4, <1>8
  <2>. QED
    BY <1>4, <2>1, <2>2, <2>3, <2>4, Zenon DEF PurgeUnderWay, Means
<1>. QED
  BY <1>6, <1>7, <1>9 DEF PurgeInv

LEMMA RemovePurge ==
    ASSUME PurgeInv, FillsInv, StoreInv, PurgeRemove
    PROVE  PurgeInv'
<1>. DEFINE D == {k \in Entries : IF purge.q.by = "tag" THEN k \in purge.victims
                                  ELSE Means(purge.q, k, cached[k].tags, cached[k].path)}
<1>1. /\ purge.pc = "remove" /\ purge' = Idle /\ outdated' = outdated \cup Matched /\ fill' = fill
      /\ cached' = [k \in Keys |-> IF k \in D THEN Absent ELSE cached[k]]
  BY DEF PurgeRemove
<1>2. purge # Idle
  BY <1>1, FillFacts
<1>3. /\ purge.q.by = "tag" =>
            \A k \in Keys : cached[k] # Absent /\ purge.q.what \in cached[k].tags => k \in purge.victims
      /\ \A i \in Fills : fill[i].pc \in Running /\ Means(purge.q, fill[i].key, fill[i].tags, fill[i].path)
                            => fill[i].invalidated
  BY <1>1, <1>2 DEF PurgeInv, PurgeUnderWay
<1>4. ASSUME NEW k \in Keys, cached[k] # Absent
      PROVE  /\ cached[k].from \in Fills /\ fill[cached[k].from].pc = "done"
             /\ fill[cached[k].from].key = k /\ cached[k].from \notin outdated
  <2>1. cached[k] \in Entry
    BY <1>4 DEF StoreInv, Consistent, Slots
  <2>. QED
    BY <1>4, <2>1 DEF PurgeInv, EntriesCurrent, Entry
<1>5. ASSUME NEW k \in Keys, cached[k] # Absent, Means(purge.q, k, cached[k].tags, cached[k].path)
      PROVE  k \in D
  <2>1. k \in Entries
    BY <1>5 DEF Entries
  <2>2. CASE purge.q.by = "tag"
    <3>1. purge.q.what \in cached[k].tags
      BY <1>5, <2>2 DEF Means
    <3>. QED
      BY <1>3, <1>5, <2>1, <2>2, <3>1
  <2>3. CASE purge.q.by # "tag"
    BY <1>5, <2>1, <2>3
  <2>. QED
    BY <2>2, <2>3
<1>. HIDE DEF D
<1>6. OutdatedEnds'
  <2>1. ASSUME NEW i \in Matched
        PROVE  /\ i \in Fills /\ fill[i].pc \notin {"idle", "registering", "admitting"}
               /\ fill[i].pc \in Running => fill[i].invalidated
    <3>1. CASE \E k \in Keys : cached[k] # Absent /\ i = cached[k].from
      <4>1. i \in Fills /\ fill[i].pc = "done"
        BY <3>1, <1>4
      <4>. QED
        BY <4>1 DEF Running
    <3>2. CASE /\ i \in Fills /\ fill[i].pc \in {"open", "writing", "finishing"}
               /\ Means(purge.q, fill[i].key, fill[i].tags, fill[i].path)
      BY <3>2, <1>3 DEF Running
    <3>. QED
      BY <3>1, <3>2 DEF Matched, Entries
  <2>. QED
    BY <1>1, <2>1 DEF PurgeInv, OutdatedEnds
<1>7. EntriesCurrent'
  <2>. SUFFICES ASSUME NEW k \in Keys, cached'[k] # Absent
                PROVE  /\ fill'[cached'[k].from].pc = "done" /\ fill'[cached'[k].from].key = k
                       /\ cached'[k].from \notin outdated'
    BY DEF EntriesCurrent
  <2>1. k \notin D /\ cached'[k] = cached[k] /\ cached[k] # Absent
    BY <1>1
  <2>. DEFINE j == cached[k].from
  <2>2. j \in Fills /\ fill[j].pc = "done" /\ fill[j].key = k /\ j \notin outdated
    BY <1>4, <2>1
  <2>3. j \notin Matched
    <3>. HIDE DEF j
    <3>1. ASSUME NEW x \in Keys, cached[x] # Absent, j = cached[x].from,
                 Means(purge.q, x, cached[x].tags, cached[x].path)
          PROVE  FALSE
      <4>1. x = k
        BY <1>4, <3>1, <2>2
      <4>. QED
        BY <1>5, <3>1, <4>1, <2>1
    <3>2. fill[j].pc \notin {"open", "writing", "finishing"}
      BY <2>2
    <3>. QED
      BY <3>1, <3>2 DEF Matched, Entries
  <2>. QED
    BY <1>1, <2>1, <2>2, <2>3
<1>8. PurgeUnderWay'
  BY <1>1 DEF PurgeUnderWay
<1>. QED
  BY <1>6, <1>7, <1>8 DEF PurgeInv

-----------------------------------------------------------------------------
(* Readers *)

\* A reader that does not move stays sound while the fills move on.
LEMMA ReadersKept ==
    ASSUME ReadersInv, FillsInv, FillsInv', \A j \in Fills : Advance(fill[j], fill'[j]), UNCHANGED reader
    PROVE  ReadersInv'
<1>1. ASSUME NEW r \in Readers PROVE SoundReader(reader[r], fill')
  <2>. DEFINE q == reader[r]
              f == fill[q.fill]
              g == fill'[q.fill]
  <2>1. SoundReader(q, fill)
    BY DEF ReadersInv
  <2>2. CASE q.pc \in {"following", "whole"} /\ q # Idle
    <3>1. /\ q = [pc |-> q.pc, fill |-> q.fill, read |-> q.read]
          /\ q.fill \in Fills /\ f # Idle /\ q.read \in 0 .. f.len
          /\ q.pc = "whole" => f.complete /\ q.read = f.len
      BY <2>1, <2>2 DEF SoundReader
    <3>2. Advance(f, g) /\ f \in Fill /\ g \in Fill \cup {Idle}
      BY <3>1 DEF FillsInv
    <3>3. g # Idle /\ g.len >= f.len /\ (f.complete => g.complete /\ g.len = f.len)
      BY <3>1, <3>2, Zenon DEF Advance
    <3>4. f.len \in Nat /\ g.len \in Nat
      BY <3>2, <3>3, FillFacts
    <3>5. q.read \in 0 .. g.len
      BY <3>1, <3>3, <3>4
    <3>. HIDE DEF q, f
    <3>6. SoundReader(q, fill')
      BY <2>2, <3>1, <3>3, <3>5 DEF SoundReader
    <3>. QED
      BY <3>6 DEF q
  <2>3. CASE ~ (q.pc \in {"following", "whole"} /\ q # Idle)
    BY <2>1, <2>3 DEF SoundReader
  <2>. QED
    BY <2>2, <2>3
<1>. QED
  BY <1>1 DEF ReadersInv

\* A reader's own steps.
LEMMA ReaderStep ==
    ASSUME ReadersInv, FillsInv, NEW r \in Readers, UNCHANGED fill, NEW q, SoundReader(q, fill),
           reader' = [reader EXCEPT ![r] = q]
    PROVE  ReadersInv'
<1>1. ASSUME NEW s \in Readers PROVE SoundReader(reader'[s], fill')
  <2>1. CASE s = r
    BY <2>1 DEF ReadersInv
  <2>2. CASE s # r
    <3>1. reader'[s] = reader[s]
      BY <2>2 DEF ReadersInv
    <3>. QED
      BY <3>1 DEF ReadersInv
  <2>. QED
    BY <2>1, <2>2
<1>. QED
  BY <1>1 DEF ReadersInv

LEMMA ReaderFields ==
    ASSUME NEW p, NEW i, NEW n, NEW x
    PROVE  LET q == [pc |-> p, fill |-> i, read |-> n]
           IN  /\ [q EXCEPT !.read = x] = [pc |-> p, fill |-> i, read |-> x]
               /\ [q EXCEPT !.pc = x] = [pc |-> x, fill |-> i, read |-> n]
OBVIOUS

LEMMA ReadingSteps ==
    ASSUME ReadersInv, FillsInv, NEW r \in Readers,
           LookupTemp(r) \/ Follow(r) \/ Answered(r) \/ \E k \in Keys : LookupCached(r, k)
    PROVE  ReadersInv'
<1>0. fill' = fill
  BY DEF LookupTemp, Follow, Answered, LookupCached
<1>i. SoundReader(Idle, fill)
  BY DEF SoundReader
<1>. DEFINE q == reader[r]
            f == fill[q.fill]
<1>s. SoundReader(q, fill) /\ DOMAIN reader = Readers
  BY DEF ReadersInv
<1>1. CASE LookupTemp(r)
  <2>. DEFINE writes == {i \in Temp : fill[i].key = q.key}
              m == Max(writes)
              n == [pc |-> "following", fill |-> m, read |-> 0]
  <2>1. reader' = [reader EXCEPT ![r] = IF writes = {} THEN Idle ELSE n]
    BY <1>1 DEF LookupTemp
  <2>2. CASE writes = {}
    BY <1>0, <1>i, <2>1, <2>2, ReaderStep, Zenon
  <2>3. CASE writes # {}
    <3>1. writes \subseteq Fills /\ IsFiniteSet(Fills) /\ Fills \subseteq Nat
      BY StoreAssumption DEF Temp
    <3>2. IsFiniteSet(writes) /\ writes \subseteq Nat
      BY <3>1, FS_Subset, Zenon
    <3>. HIDE DEF writes
    <3>3. m \in writes
      BY <2>3, <3>2, LargestNumber, Zenon
    <3>4. m \in Fills /\ fill[m].pc # "idle"
      BY <3>1, <3>3 DEF writes, Temp
    <3>5. fill[m] \in Fill /\ fill[m] # Idle
      BY <3>4, InFill
    <3>6. fill[m].len \in Nat
      BY <3>5, FillFacts
    <3>. HIDE DEF m
    <3>7. SoundReader(n, fill)
      BY <3>4, <3>5, <3>6 DEF SoundReader
    <3>8. reader' = [reader EXCEPT ![r] = n]
      BY <2>1, <2>3, Zenon
    <3>. HIDE DEF n
    <3>. QED
      BY <1>0, <3>7, <3>8, ReaderStep, Zenon
  <2>. QED
    BY <2>2, <2>3
<1>2. CASE Follow(r)
  <2>0. q.pc = "following" /\ q # Idle
    BY <1>2, FillFacts DEF Follow
  <2>1. /\ q = [pc |-> q.pc, fill |-> q.fill, read |-> q.read]
        /\ q.fill \in Fills /\ f # Idle /\ q.read \in 0 .. f.len
    BY <2>0, <1>s DEF SoundReader
  <2>2. f.len \in Nat
    BY <2>1, FillFacts DEF FillsInv
  <2>3. CASE reader' = [reader EXCEPT ![r].read = f.len]
    <3>. DEFINE n == [pc |-> "following", fill |-> q.fill, read |-> f.len]
    <3>0. [q EXCEPT !.read = f.len] = n
      <4>. HIDE DEF q, f
      <4>. QED
        BY <2>0, <2>1, ReaderFields
    <3>1. reader' = [reader EXCEPT ![r] = n]
      BY <2>3, <3>0, Zenon
    <3>2. SoundReader(n, fill)
      <4>1. n.pc = "following" /\ n.fill = q.fill /\ n.read = f.len
        OBVIOUS
      <4>2. f.len \in 0 .. f.len
        BY <2>2
      <4>3. n = [pc |-> n.pc, fill |-> n.fill, read |-> n.read] /\ n.pc # "whole"
        OBVIOUS
      <4>4. n.fill \in Fills /\ fill[n.fill] # Idle /\ n.read \in 0 .. fill[n.fill].len
        BY <2>1, <4>1, <4>2
      <4>. HIDE DEF n
      <4>. QED
        BY <4>1, <4>3, <4>4 DEF SoundReader
    <3>. HIDE DEF n
    <3>. QED
      BY <1>0, <3>1, <3>2, ReaderStep, Zenon
  <2>4. CASE q.read = f.len /\ f.complete /\ reader' = [reader EXCEPT ![r].pc = "whole"]
    <3>. DEFINE n == [pc |-> "whole", fill |-> q.fill, read |-> q.read]
    <3>0. [q EXCEPT !.pc = "whole"] = n
      <4>. HIDE DEF q, f
      <4>. QED
        BY <2>1, ReaderFields
    <3>1. reader' = [reader EXCEPT ![r] = n]
      BY <2>4, <3>0, Zenon
    <3>2. SoundReader(n, fill)
      <4>1. n.pc = "whole" /\ n.fill = q.fill /\ n.read = q.read
        OBVIOUS
      <4>2. n = [pc |-> n.pc, fill |-> n.fill, read |-> n.read]
        OBVIOUS
      <4>3. /\ n.fill \in Fills /\ fill[n.fill] # Idle /\ n.read \in 0 .. fill[n.fill].len
            /\ fill[n.fill].complete /\ n.read = fill[n.fill].len
        BY <2>1, <2>4, <4>1
      <4>. HIDE DEF n
      <4>. QED
        BY <4>1, <4>2, <4>3 DEF SoundReader
    <3>. HIDE DEF n
    <3>. QED
      BY <1>0, <3>1, <3>2, ReaderStep, Zenon
  <2>5. CASE reader' = [reader EXCEPT ![r] = Idle]
    BY <1>0, <1>i, <2>5, ReaderStep, Zenon
  <2>. QED
    BY <1>2, <2>3, <2>4, <2>5 DEF Follow
<1>3. CASE Answered(r)
  <2>1. reader' = [reader EXCEPT ![r] = Idle]
    BY <1>3 DEF Answered
  <2>. QED
    BY <1>0, <1>i, <2>1, ReaderStep, Zenon
<1>4. ASSUME NEW k \in Keys, LookupCached(r, k) PROVE ReadersInv'
  <2>1. CASE reader' = reader
    BY <1>0, <2>1 DEF ReadersInv
  <2>2. CASE reader' = [reader EXCEPT ![r] = [pc |-> "second", key |-> k]]
    <3>. DEFINE n == [pc |-> "second", key |-> k]
    <3>1. SoundReader(n, fill)
      BY DEF SoundReader
    <3>2. reader' = [reader EXCEPT ![r] = n]
      BY <2>2
    <3>. HIDE DEF n
    <3>. QED
      BY <1>0, <3>1, <3>2, ReaderStep, Zenon
  <2>. QED
    BY <1>4, <2>1, <2>2 DEF LookupCached
<1>. QED
  BY <1>1, <1>2, <1>3, <1>4


-----------------------------------------------------------------------------
(* The invariant is inductive *)

LEMMA NothingHeld ==
    ASSUME NEW S, NEW f \in [S -> {0}]
    PROVE  Total(f) = 0
<1>1. {b \in (DOMAIN f) \X (1 .. MaxSize) : b[2] <= f[b[1]]} = {}
  <2>1. MaxSize \in Nat
    BY StoreAssumption DEF MaxSize
  <2>. QED
    BY <2>1
<1>. QED
  BY <1>1, FS_EmptySet DEF Total

LEMMA CacheInit ==
    ASSUME Init
    PROVE  CacheInv
<1>1. \A i \in Fills : fill[i] = Idle
  BY DEF Init
<1>2. FillsInv
  BY <1>1 DEF FillsInv, Init, SoundFill
<1>3. StoreInv
  <2>1. cached \in Slots /\ EntriesOf(cached) = {} /\ IndexOf(cached) = {}
    BY DEF Init, Slots, EntriesOf, IndexOf
  <2>2. Consistent(cached, order, tag_index)
    BY <2>1, QueueEmpty, Zenon DEF Init, Consistent
  <2>3. Total(SizesOf(cached)) = 0
    <3>1. SizesOf(cached) \in [Keys -> {0}]
      BY DEF SizesOf, Init, Size
    <3>. QED
      BY <3>1, NothingHeld
  <2>4. Total(HeldOf(fill)) = 0
    <3>1. Held(Idle) = 0
      BY FillFacts DEF Held
    <3>2. HeldOf(fill) \in [Fills -> {0}]
      BY <1>1, <3>1 DEF HeldOf
    <3>. QED
      BY <3>2, NothingHeld
  <2>. QED
    BY <2>2, <2>3, <2>4, StoreAssumption DEF StoreInv, Init
<1>4. ReadersInv
  BY DEF ReadersInv, SoundReader, Init
<1>5. PurgeInv
  BY DEF Init, PurgeInv, PurgeUnderWay, OutdatedEnds, EntriesCurrent
<1>. QED
  BY <1>2, <1>3, <1>4, <1>5 DEF CacheInv

\* Steps that leave the fills alone.
LEMMA StillMoves ==
    ASSUME FillsInv, UNCHANGED fill
    PROVE  Moves /\ FillsInv'
<1>1. \A j \in Fills : Advance(fill[j], fill[j])
  BY AdvanceSelf DEF FillsInv
<1>. QED
  BY <1>1 DEF Moves, FillsInv

LEMMA CacheSame ==
    ASSUME CacheInv, UNCHANGED vars
    PROVE  CacheInv'
BY DEF CacheInv, FillsInv, StoreInv, ReadersInv, PurgeInv, PurgeUnderWay, OutdatedEnds, EntriesCurrent,
       vars, store, HeldOf, Held

LEMMA CacheNext ==
    ASSUME CacheInv, Next
    PROVE  CacheInv'
<1>0. FillsInv /\ StoreInv /\ ReadersInv /\ PurgeInv /\ cached \in Slots
  BY DEF CacheInv, StoreInv, Consistent
<1>1. ASSUME NEW i \in Fills, NEW k \in Keys, NEW tags \in SUBSET Tags, NEW t \in BOOLEAN,
             NEW meta \in 1 .. MaxMeta, Open(i, k, tags, t, meta)
      PROVE  CacheInv'
  <2>1. /\ FillsInv' /\ StoreInv' /\ Thinned(cached', cached)
        /\ purge = Idle /\ UNCHANGED <<purge, reader, outdated>>
        /\ fill[i] = Idle /\ fill'[i] \in Fill /\ fill' = [fill EXCEPT ![i] = fill'[i]]
        /\ fill'[i].pc \in {"registering", "refused"}
    BY <1>0, <1>1, OpenStep, Zenon
  <2>2. Moves
    BY <1>0, <2>1, OpenMoves
  <2>3. PurgeInv'
    BY <1>0, <2>1, <2>2, PurgeKept
  <2>4. ReadersInv'
    BY <1>0, <2>1, <2>2, ReadersKept DEF Moves
  <2>. QED
    BY <2>1, <2>3, <2>4 DEF CacheInv
<1>2. ASSUME NEW i \in Fills, Leader(i)
      PROVE  CacheInv'
  <2>1. /\ FillsInv' /\ StoreInv' /\ Passes(i) /\ UNCHANGED <<purge, reader, outdated>>
        /\ Admit(i) \/ Thinned(cached', cached)
    BY <1>0, <1>2, LeaderStep
  <2>2. Moves
    BY <1>0, <2>1, PassesMoves
  <2>3. PurgeInv'
    <3>1. CASE Admit(i)
      BY <1>0, <2>1, <3>1, AdmitPurge
    <3>2. CASE Thinned(cached', cached)
      BY <1>0, <2>1, <2>2, <3>2, PurgeKept
    <3>. QED
      BY <2>1, <3>1, <3>2
  <2>4. ReadersInv'
    BY <1>0, <2>1, <2>2, ReadersKept DEF Moves
  <2>. QED
    BY <2>1, <2>3, <2>4 DEF CacheInv
<1>3. ASSUME NEW q, PurgeStart(q)
      PROVE  CacheInv'
  <2>1. UNCHANGED <<store, fill, reader, outdated>>
    BY <1>3 DEF PurgeStart
  <2>2. FillsInv' /\ Moves
    BY <1>0, <2>1, StillMoves
  <2>3. StoreInv'
    BY <1>0, <2>1 DEF StoreInv, store
  <2>4. PurgeInv'
    BY <1>0, <1>3, StartPurge
  <2>5. ReadersInv'
    BY <1>0, <2>1, <2>2, ReadersKept DEF Moves
  <2>. QED
    BY <2>2, <2>3, <2>4, <2>5 DEF CacheInv
<1>4. CASE PurgeMark
  <2>1. FillsInv' /\ StoreInv' /\ reader' = reader
    BY <1>0, <1>4, MarkStep DEF PurgeMark
  <2>2. Moves
    BY <1>0, <1>4, MarkMoves
  <2>3. PurgeInv'
    BY <1>0, <1>4, <2>1, MarkPurge
  <2>4. ReadersInv'
    BY <1>0, <2>1, <2>2, ReadersKept DEF Moves
  <2>. QED
    BY <2>1, <2>3, <2>4 DEF CacheInv
<1>5. CASE PurgeRemove
  <2>1. FillsInv' /\ StoreInv'
    BY <1>0, <1>5, RemoveStep
  <2>2. PurgeInv'
    BY <1>0, <1>5, RemovePurge
  <2>3. UNCHANGED <<fill, reader>>
    BY <1>5 DEF PurgeRemove
  <2>4. ReadersInv'
    BY <1>0, <2>1, <2>3, StillMoves, ReadersKept DEF Moves
  <2>. QED
    BY <2>1, <2>2, <2>4 DEF CacheInv
<1>6. ASSUME NEW k \in Keys, NEW tags \in SUBSET Tags, NEW meta \in 1 .. MaxMeta, UpdateMeta(k, meta, tags)
      PROVE  CacheInv'
  <2>1. UNCHANGED <<fill, reader>>
    BY <1>6 DEF UpdateMeta
  <2>2. FillsInv' /\ Moves
    BY <1>0, <2>1, StillMoves
  <2>3. StoreInv'
    BY <1>0, <1>6, UpdateStep
  <2>4. PurgeInv'
    BY <1>0, <1>6, UpdatePurge
  <2>5. ReadersInv'
    BY <1>0, <2>1, <2>2, ReadersKept DEF Moves
  <2>. QED
    BY <2>2, <2>3, <2>4, <2>5 DEF CacheInv
<1>7. ASSUME NEW r \in Readers, NEW k \in Keys, LookupCached(r, k)
      PROVE  CacheInv'
  <2>1. UNCHANGED <<fill, purge, outdated>>
    BY <1>7 DEF LookupCached
  <2>2. FillsInv' /\ Moves
    BY <1>0, <2>1, StillMoves
  <2>3. StoreInv' /\ Thinned(cached', cached)
    BY <1>0, <1>7, LookupStep
  <2>4. PurgeInv'
    BY <1>0, <2>1, <2>2, <2>3, PurgeKept
  <2>5. ReadersInv'
    BY <1>0, <1>7, ReadingSteps
  <2>. QED
    BY <2>2, <2>3, <2>4, <2>5 DEF CacheInv
<1>8. ASSUME NEW r \in Readers, LookupTemp(r) \/ Follow(r) \/ Answered(r)
      PROVE  CacheInv'
  <2>1. UNCHANGED <<store, fill, purge, outdated>>
    BY <1>8 DEF LookupTemp, Follow, Answered
  <2>2. FillsInv' /\ StoreInv' /\ PurgeInv'
    BY <1>0, <2>1 DEF FillsInv, StoreInv, PurgeInv, PurgeUnderWay, OutdatedEnds, EntriesCurrent, store
  <2>3. ReadersInv'
    BY <1>0, <1>8, ReadingSteps
  <2>. QED
    BY <2>2, <2>3 DEF CacheInv
<1>. QED
  BY <1>1, <1>2, <1>3, <1>4, <1>5, <1>6, <1>7, <1>8 DEF Next


\* The cache's fills, entries, queue, index, budget, purges and readers fit
\* together at every step of BoundedStore, whatever the keys, tags, sizes,
\* budget and number of fills and readers.
THEOREM CacheInvariant == Spec => []CacheInv
<1>1. Init => CacheInv
  BY CacheInit
<1>2. CacheInv /\ [Next]_vars => CacheInv'
  BY CacheNext, CacheSame
<1>. QED
  BY <1>1, <1>2, PTL DEF Spec

-----------------------------------------------------------------------------
(* What the invariant gives *)

\* The byte budget of reserve, release, admit, update_meta and
\* purge_matching_locked is exactly what entries and fills hold, and never more
\* than max_memory.
THEOREM BytesExactHolds == Spec => []BytesExact
<1>1. CacheInv => BytesExact
  BY DEF CacheInv, StoreInv, BytesExact, SizesOf, HeldOf
<1>. QED
  BY <1>1, CacheInvariant, PTL

\* The tag index and the eviction queue name exactly the entries there are, for
\* every way admit, reserve, update_meta and the purges change them.
THEOREM IndexExactHolds == Spec => []IndexExact
<1>1. ASSUME CacheInv PROVE IndexExact
  <2>1. Queue(order, EntriesOf(cached)) /\ tag_index = IndexOf(cached)
    BY <1>1 DEF CacheInv, StoreInv, Consistent
  <2>2. EntriesOf(cached) = Entries
    BY DEF EntriesOf, Entries
  <2>3. IndexOf(cached) = {x \in Tags \X Keys : x[2] \in Entries /\ x[1] \in cached[x[2]].tags}
    BY DEF IndexOf, Entries
  <2>4. Range(order) = Entries /\ Len(order) = Cardinality(Entries)
    BY <2>1, <2>2, QueueLength
  <2>. QED
    BY <2>1, <2>3, <2>4 DEF IndexExact
<1>. QED
  BY <1>1, CacheInvariant, PTL

\* Nothing a finished purge_matching_locked matched is served from the cache again,
\* whether it was an entry or a fill on its way through finish.
THEOREM PurgedStaysOutHolds == Spec => []PurgedStaysOut
<1>1. CacheInv => PurgedStaysOut
  BY DEF CacheInv, PurgeInv, EntriesCurrent, PurgedStaysOut, Entries
<1>. QED
  BY <1>1, CacheInvariant, PTL

\* PartialHit::read_body ends cleanly only at the end of the leader's whole body.
THEOREM FollowersWholeHolds == Spec => []FollowersWhole
<1>1. ASSUME CacheInv, NEW r \in Readers, reader[r].pc = "whole"
      PROVE  fill[reader[r].fill].whole /\ reader[r].read = fill[reader[r].fill].len
  <2>. DEFINE q == reader[r]
  <2>1. SoundReader(q, fill) /\ q # Idle
    BY <1>1, FillFacts DEF CacheInv, ReadersInv
  <2>2. q.fill \in Fills /\ fill[q.fill] # Idle /\ fill[q.fill].complete /\ q.read = fill[q.fill].len
    BY <1>1, <2>1 DEF SoundReader
  <2>3. fill[q.fill].whole
    BY <1>1, <2>2 DEF CacheInv, FillsInv, SoundFill
  <2>. QED
    BY <2>2, <2>3
<1>2. CacheInv => FollowersWhole
  BY <1>1 DEF FollowersWhole
<1>. QED
  BY <1>2, CacheInvariant, PTL

LEMMA RefusedStep ==
    ASSUME CacheInv, Next, NEW i \in Fills, fill'[i].pc \in {"refused", "failed"}, fill[i].pc # fill'[i].pc
    PROVE  Entries' = {} \/ fill'[i].meta > max_bytes
<1>0. FillsInv /\ StoreInv /\ max_bytes \in Nat
  BY StoreAssumption DEF CacheInv
<1>e. EntriesOf(cached') = Entries'
  BY DEF EntriesOf, Entries
<1>1. ASSUME NEW j \in Fills, NEW k \in Keys, NEW tags \in SUBSET Tags, NEW t \in BOOLEAN,
             NEW meta \in 1 .. MaxMeta, Open(j, k, tags, t, meta)
      PROVE  Entries' = {} \/ fill'[i].meta > max_bytes
  <2>1. /\ fill' = [fill EXCEPT ![j] = fill'[j]] /\ fill'[j].pc \in {"registering", "refused"}
        /\ fill'[j].pc = "refused" => EntriesOf(cached') = {} \/ fill'[j].meta > max_bytes
    BY <1>0, <1>1, OpenStep
  <2>2. i = j
    BY <2>1, <1>0 DEF FillsInv
  <2>. QED
    BY <1>e, <2>1, <2>2
<1>2. ASSUME NEW j \in Fills, WriteReserve(j)
      PROVE  Entries' = {} \/ fill'[i].meta > max_bytes
  <2>1. PICK ok \in BOOLEAN : Reserve(1, ok) /\ Goto(j, IF ok THEN "writing" ELSE "failed")
    BY <1>2 DEF WriteReserve
  <2>2. fill[j].pc = "open" /\ ~fill[j].complete /\ fill[j].len < MaxChunks
    BY <1>2 DEF WriteReserve
  <2>3. /\ Passes(j) /\ Held(fill'[j]) = Held(fill[j]) + (IF ok THEN 1 ELSE 0)
        /\ fill[j].meta <= max_bytes
    BY <1>0, <2>1, <2>2, WriteReservePasses
  <2>. DEFINE g == fill'[j]
  <2>4. g \in Fill /\ SoundFill(g) /\ fill' = [fill EXCEPT ![j] = g]
    BY <2>3 DEF Passes
  <2>5. i = j
    BY <2>4, <1>0 DEF FillsInv
  <2>6. ~ok
    <3>1. ok => fill'[j].pc = "writing"
      BY <1>0, <2>1 DEF Goto, FillsInv, Fill
    <3>. QED
      BY <2>5, <3>1
  <2>7. 1 <= max_bytes
    <3>1. fill[j] \in Fill
      BY <2>3 DEF Passes
    <3>2. fill[j].meta \in 1 .. MaxMeta
      BY <3>1 DEF Fill
    <3>. QED
      BY <1>0, <2>3, <3>2, StoreAssumption
  <2>8. EntriesOf(cached') = {} \/ 1 > max_bytes
    <3>1. Held(g) = Held(fill[j]) + (IF ok THEN 1 ELSE 0)
      BY <2>3
    <3>. HIDE DEF g
    <3>. QED
      BY <1>0, <2>1, <2>4, <2>6, <3>1, ReservingStep, Zenon
  <2>. QED
    BY <1>0, <1>e, <2>7, <2>8
<1>3. ASSUME NEW j \in Fills, NEW next, next \notin {"refused", "failed"}, Passes(j), fill'[j].pc = next
      PROVE  FALSE
  <2>1. i = j
    BY <1>0, <1>3 DEF FillsInv, Passes
  <2>. QED
    BY <1>3, <2>1
<1>4. ASSUME NEW j \in Fills, Leader(j), ~WriteReserve(j)
      PROVE  FALSE
  <2>1. Passes(j)
    BY <1>0, <1>4, LeaderStep
  <2>2. fill[j] \in Fill
    BY <2>1 DEF Passes
  <2>3. fill'[j].pc \notin {"refused", "failed"}
    <3>1. CASE Admit(j) \/ Release(j)
      BY <1>0, <2>2, <3>1 DEF Admit, Release, Goto, FillsInv, Fill
    <3>2. CASE Register(j) \/ EndHandoff(j) \/ Drop(j)
      BY <1>0, <2>2, <3>2 DEF Register, EndHandoff, Drop, FillsInv, Fill
    <3>3. CASE Finish(j)
      BY <1>0, <2>2, <3>3 DEF Finish, FillsInv, Fill
    <3>4. CASE Move(j)
      BY <1>0, <2>2, <3>4 DEF Move, FillsInv, Fill
    <3>5. CASE WritePublish(j)
      BY <1>0, <2>2, <3>5 DEF WritePublish, FillsInv, Fill
    <3>. QED
      BY <1>4, <3>1, <3>2, <3>3, <3>4, <3>5 DEF Leader
  <2>. QED
    BY <1>3, <2>1, <2>3
<1>5. CASE PurgeMark
  BY <1>0, <1>5, MarkMoves
<1>6. CASE UNCHANGED fill
  BY <1>6
<1>7. CASE \/ \E q \in Asked : PurgeStart(q)
           \/ PurgeRemove
           \/ \E k \in Keys, tags \in SUBSET Tags, meta \in 1 .. MaxMeta : UpdateMeta(k, meta, tags)
           \/ \E r \in Readers : \/ \E k \in Keys : LookupCached(r, k)
                                 \/ LookupTemp(r) \/ Follow(r) \/ Answered(r)
  <2>1. UNCHANGED fill
    BY <1>7, Zenon DEF PurgeStart, PurgeRemove, UpdateMeta, LookupCached, LookupTemp, Follow, Answered
  <2>. QED
    BY <1>6, <2>1
<1>. QED
  BY <1>1, <1>2, <1>4, <1>5, <1>7 DEF Next

\* reserve turns a fill away only when nothing is left to evict, however often
\* the entries were hit, or when the metadata alone passes max_memory.
THEOREM RefusedOnlyByFillsHolds == Spec => RefusedOnlyByFills
<1>1. ASSUME CacheInv, [Next]_vars
      PROVE  [\A i \in Fills :
                 fill'[i].pc \in {"refused", "failed"} /\ fill[i].pc # fill'[i].pc =>
                     Entries' = {} \/ fill'[i].meta > max_bytes]_vars
  BY <1>1, RefusedStep
<1>. QED
  BY <1>1, CacheInvariant, PTL DEF Spec, RefusedOnlyByFills
=============================================================================
