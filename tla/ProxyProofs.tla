---------------------------- MODULE ProxyProofs ----------------------------
(***************************************************************************)
(* The life of a request and its spool, for any number of requests, chunks *)
(* and attempts and any memory budget, body ceiling and reservation step.  *)
(***************************************************************************)
EXTENDS Proxy, FiniteSetTheorems, TLAPS

-----------------------------------------------------------------------------
(* Chunks and bytes *)

\* The first n chunks of a body, in order.
Upto(n) == [i \in 1 .. n |-> i]

LEMMA UptoFacts ==
    ASSUME NEW n \in Nat
    PROVE  /\ Upto(n) \in Seq(Nat) /\ Len(Upto(n)) = n
           /\ Append(Upto(n), n + 1) = Upto(n + 1)
           /\ Upto(n) \o <<>> = Upto(n) /\ <<>> \o Upto(n) = Upto(n)
           /\ Range(Upto(n)) = 1 .. n
<1>1. Upto(n) \in Seq(Nat) /\ Len(Upto(n)) = n
  BY DEF Upto
<1>2. Append(Upto(n), n + 1) = Upto(n + 1)
  BY DEF Upto
<1>3. Upto(n) \o <<>> = Upto(n) /\ <<>> \o Upto(n) = Upto(n)
  BY <1>1 DEF Upto
<1>4. Range(Upto(n)) = 1 .. n
  BY DEF Range, Upto
<1>. QED
  BY <1>1, <1>2, <1>3, <1>4

LEMMA UptoZero == Upto(0) = <<>>
BY DEF Upto

\* The length of the first n chunks when the chunks have the given lengths.
BytesIn(lens, n) == Cardinality({b \in (1 .. n) \X (1 .. MaxLen) : b[2] <= lens[b[1]]})

\* Bytes of the first chunks is their length, a number, and 0 for none.
LEMMA BytesFacts ==
    ASSUME NEW r, NEW n \in Nat
    PROVE  /\ Bytes(r, Upto(n)) = BytesIn(len[r], n)
           /\ BytesIn(len[r], n) \in Nat
           /\ Bytes(r, <<>>) = 0
<1>1. Bytes(r, Upto(n)) = BytesIn(len[r], n)
  BY UptoFacts, Zenon DEF Bytes, BytesIn
<1>2. BytesIn(len[r], n) \in Nat
  <2>1. IsFiniteSet((1 .. n) \X (1 .. MaxLen))
    <3>1. IsFiniteSet(1 .. n) /\ IsFiniteSet(1 .. MaxLen)
      BY SpoolAssumption, FS_Interval
    <3>. QED
      BY <3>1, FS_Product, Zenon
  <2>2. IsFiniteSet({b \in (1 .. n) \X (1 .. MaxLen) : b[2] <= len[r][b[1]]})
    BY <2>1, FS_Subset
  <2>. QED
    BY <2>2, FS_CardinalityType DEF BytesIn
<1>3. Bytes(r, <<>>) = 0
  <2>1. {b \in Range(<<>>) \X (1 .. MaxLen) : b[2] <= len[r][b[1]]} = {}
    BY DEF Range
  <2>. QED
    BY <2>1, FS_EmptySet, Zenon DEF Bytes
<1>. QED
  BY <1>1, <1>2, <1>3

\* A chunk that comes later does not change the length of the earlier ones.
LEMMA BytesKept ==
    ASSUME NEW lens \in Seq(Nat), NEW k \in Nat, NEW n \in 0 .. Len(lens)
    PROVE  BytesIn(Append(lens, k), n) = BytesIn(lens, n)
<1>1. \A i \in 1 .. n : Append(lens, k)[i] = lens[i]
  OBVIOUS
<1>2. {b \in (1 .. n) \X (1 .. MaxLen) : b[2] <= Append(lens, k)[b[1]]}
        = {b \in (1 .. n) \X (1 .. MaxLen) : b[2] <= lens[b[1]]}
  BY <1>1
<1>. QED
  BY <1>2, Zenon DEF BytesIn

-----------------------------------------------------------------------------
(* Claims on the budget *)

\* The bytes claimed when the reservations are f.
ClaimsOf(f) == {u \in Requests \X (1 .. max_body) : u[2] <= f[u[1]]}

\* A number of bytes of one request counts as that number.
LEMMA ClaimsOfOne ==
    ASSUME NEW r, NEW n \in Nat
    PROVE  IsFiniteSet({r} \X (1 .. n)) /\ Cardinality({r} \X (1 .. n)) = n
<1>1. IsFiniteSet({r}) /\ Cardinality({r}) = 1
  BY FS_Singleton
<1>2. IsFiniteSet(1 .. n) /\ Cardinality(1 .. n) = n
  BY FS_Interval
<1>3. /\ IsFiniteSet({r} \X (1 .. n))
      /\ Cardinality({r} \X (1 .. n)) = Cardinality({r}) * Cardinality(1 .. n)
  BY <1>1, <1>2, FS_Product, Zenon
<1>. QED
  BY <1>1, <1>2, <1>3

\* Changing one reservation changes what is claimed altogether by as much.
LEMMA ClaimsUpdate ==
    ASSUME NEW f \in [Requests -> 0 .. max_body], NEW r \in Requests, NEW n \in 0 .. max_body
    PROVE  /\ Cardinality(ClaimsOf(f)) \in Nat /\ Cardinality(ClaimsOf(f)) >= f[r]
           /\ Cardinality(ClaimsOf([f EXCEPT ![r] = n])) = Cardinality(ClaimsOf(f)) - f[r] + n
<1>. DEFINE g == [f EXCEPT ![r] = n]
            Rest == {u \in ClaimsOf(f) : u[1] # r}
            Mine(k) == {r} \X (1 .. k)
<1>0. max_body \in Nat
  BY SpoolAssumption
<1>1. ClaimsOf(f) = Rest \cup Mine(f[r]) /\ Rest \cap Mine(f[r]) = {}
  BY <1>0 DEF ClaimsOf
<1>2. ClaimsOf(g) = Rest \cup Mine(n) /\ Rest \cap Mine(n) = {}
  <2>1. ClaimsOf(g) \subseteq Rest \cup Mine(n)
    BY <1>0 DEF ClaimsOf
  <2>2. Rest \cup Mine(n) \subseteq ClaimsOf(g)
    BY <1>0 DEF ClaimsOf
  <2>. QED
    BY <2>1, <2>2, Zenon
<1>3. IsFiniteSet(ClaimsOf(f))
  <2>1. IsFiniteSet(Requests \X (1 .. max_body))
    <3>1. IsFiniteSet(Requests) /\ IsFiniteSet(1 .. max_body)
      BY SpoolAssumption, FS_Interval
    <3>. QED
      BY <3>1, FS_Product, Zenon
  <2>. QED
    BY <2>1, FS_Subset DEF ClaimsOf
<1>4. IsFiniteSet(Rest)
  BY <1>3, FS_Subset
<1>5. /\ IsFiniteSet(Mine(f[r])) /\ Cardinality(Mine(f[r])) = f[r]
      /\ IsFiniteSet(Mine(n)) /\ Cardinality(Mine(n)) = n
  <2>1. f[r] \in Nat /\ n \in Nat
    BY <1>0
  <2>. QED
    BY <2>1, ClaimsOfOne, Zenon
<1>6. f[r] \in Nat /\ n \in Nat
  BY <1>0
<1>. HIDE DEF g, Rest, Mine
<1>7. Cardinality(ClaimsOf(f)) = Cardinality(Rest) + f[r]
  <2>1. Cardinality(Rest \cup Mine(f[r])) = Cardinality(Rest) + Cardinality(Mine(f[r])) - Cardinality({})
    BY <1>1, <1>4, <1>5, FS_Union
  <2>. QED
    BY <2>1, <1>1, <1>4, <1>5, <1>6, FS_EmptySet, FS_CardinalityType
<1>8. Cardinality(ClaimsOf(g)) = Cardinality(Rest) + n
  <2>1. Cardinality(Rest \cup Mine(n)) = Cardinality(Rest) + Cardinality(Mine(n)) - Cardinality({})
    BY <1>2, <1>4, <1>5, FS_Union
  <2>. QED
    BY <2>1, <1>2, <1>4, <1>5, <1>6, FS_EmptySet, FS_CardinalityType
<1>9. Cardinality(Rest) \in Nat
  BY <1>4, FS_CardinalityType
<1>. QED
  BY <1>6, <1>7, <1>8, <1>9 DEF g

\* ensure_reserved's claim for a buffer that needs so much and has so much.
ClaimFor(needed, has) ==
    Least(((needed - has + RESERVE_STEP - 1) \div RESERVE_STEP) * RESERVE_STEP, max_body - has)

\* It covers the need and stays within the ceiling of the body.
LEMMA ClaimCovers ==
    ASSUME NEW needed \in 0 .. max_body, NEW has \in 0 .. max_body, needed > has
    PROVE  /\ ClaimFor(needed, has) \in Nat
           /\ has + ClaimFor(needed, has) >= needed
           /\ has + ClaimFor(needed, has) <= max_body
<1>0. max_body \in Nat /\ RESERVE_STEP \in Nat \ {0}
  BY SpoolAssumption
<1>. DEFINE x == needed - has + RESERVE_STEP - 1
            d == x \div RESERVE_STEP
<1>1. x \in Nat /\ x >= RESERVE_STEP
  BY <1>0
<1>2. d \in Nat /\ d * RESERVE_STEP <= x /\ x < d * RESERVE_STEP + RESERVE_STEP
  BY <1>0, <1>1
<1>. HIDE DEF d
<1>3. d * RESERVE_STEP \in Nat /\ d * RESERVE_STEP >= needed - has
  BY <1>0, <1>2
<1>4. ClaimFor(needed, has) = Least(d * RESERVE_STEP, max_body - has)
  BY DEF ClaimFor, d
<1>. QED
  BY <1>0, <1>3, <1>4 DEF Least

-----------------------------------------------------------------------------
(* The inductive invariant of the spools *)

Outcomes == {Active, "complete", "body_too_large", "budget_exhausted"}

SpoolTypes ==
    /\ pc \in [Requests -> {Gone, "body", "offer", "cas", "end"}]
    /\ seen \in [Requests -> Nat] /\ eos \in [Requests -> BOOLEAN]
    /\ len \in [Requests -> Seq(1 .. MaxLen)]
    /\ buffer \in [Requests -> Seq(Nat)] /\ out \in [Requests -> Seq(Nat)]
    /\ reserved \in [Requests -> 0 .. max_body] /\ gave_up \in [Requests -> Outcomes]

\* The chunks that are in the buffer or downstream: all but the one in hand.
Taken(at, lens) == IF at \in {"offer", "cas"} THEN Len(lens) - 1 ELSE Len(lens)

\* One spool.  What it took is in the buffer until it stops absorbing and has all
\* gone downstream after; what it took is paid for unless it gave up; a claim in
\* progress would fit if the budget is as it was observed.
Sound(at, saw, end, lens, buf, has, why, sent) ==
    /\ at \in {"offer", "cas"} => Len(lens) >= 1
    /\ why = Active => sent = <<>> /\ buf = Upto(Taken(at, lens))
    /\ why # Active => buf = <<>> /\ sent = Upto(Taken(at, lens))
    /\ why \in {Active, "complete"} => has >= BytesIn(lens, Taken(at, lens))
    /\ why = "complete" => end /\ at = "body"
    /\ at = "cas" =>
          /\ why = Active
          /\ BytesIn(lens, Len(lens)) > has /\ BytesIn(lens, Len(lens)) <= max_body
          /\ saw + ClaimFor(BytesIn(lens, Len(lens)), has) <= limit
    /\ at = Gone => Len(lens) = 0 /\ has = 0 /\ why = Active

SoundSpool(r) ==
    Sound(pc[r], seen[r], eos[r], len[r], buffer[r], reserved[r], gave_up[r], out[r])

SpoolInv ==
    /\ SpoolTypes
    /\ \A r \in Requests : SoundSpool(r)
    /\ used = Cardinality(ClaimsOf(reserved)) /\ used <= limit

\* It implies what the run checks of the spools.
LEMMA SpoolInvImplies == SpoolInv => BudgetExact /\ BodyInOrder
<1>. SUFFICES ASSUME SpoolInv PROVE BudgetExact /\ BodyInOrder
  OBVIOUS
<1>1. ASSUME NEW r \in Requests
      PROVE  /\ reserved[r] >= Bytes(r, buffer[r])
             /\ gave_up[r] = "complete" => reserved[r] >= Bytes(r, out[r])
             /\ pc[r] = "body" => out[r] \o buffer[r] = Upto(Chunk(r))
  <2>1. SoundSpool(r) /\ reserved[r] \in Nat /\ gave_up[r] \in Outcomes /\ Len(len[r]) \in Nat
    BY SpoolAssumption DEF SpoolInv, SpoolTypes
  <2>. DEFINE n == Taken(pc[r], len[r])
  <2>2. n \in Nat
    BY <2>1 DEF Sound, SoundSpool, Taken
  <2>3. /\ Bytes(r, Upto(n)) = BytesIn(len[r], n) /\ Bytes(r, <<>>) = 0
        /\ Upto(n) \o <<>> = Upto(n) /\ <<>> \o Upto(n) = Upto(n)
    BY <2>2, BytesFacts, UptoFacts
  <2>4. pc[r] = "body" => n = Chunk(r)
    BY DEF Taken, Chunk
  <2>. HIDE DEF n
  <2>5. /\ gave_up[r] = Active => out[r] = <<>> /\ buffer[r] = Upto(n)
        /\ gave_up[r] # Active => buffer[r] = <<>> /\ out[r] = Upto(n)
        /\ gave_up[r] \in {Active, "complete"} => reserved[r] >= BytesIn(len[r], n)
    BY <2>1 DEF SoundSpool, Sound, n
  <2>6. CASE gave_up[r] = Active
    BY <2>1, <2>3, <2>4, <2>5, <2>6, Zenon DEF Active
  <2>7. CASE gave_up[r] # Active
    <3>1. buffer[r] = <<>> /\ out[r] = Upto(n)
      BY <2>5, <2>7
    <3>2. reserved[r] >= Bytes(r, buffer[r])
      BY <2>1, <2>3, <3>1
    <3>3. gave_up[r] = "complete" => reserved[r] >= Bytes(r, out[r])
      BY <2>3, <2>5, <3>1
    <3>4. pc[r] = "body" => out[r] \o buffer[r] = Upto(Chunk(r))
      BY <2>3, <2>4, <3>1
    <3>. QED
      BY <3>2, <3>3, <3>4, Zenon
  <2>. QED
    BY <2>6, <2>7, Zenon
<1>2. used = Cardinality(Claims) /\ used <= limit
  BY DEF SpoolInv, Claims, ClaimsOf
<1>. QED
  BY <1>1, <1>2, Zenon DEF BudgetExact, BodyInOrder, Upto

LEMMA SpoolInvInit == SpoolInit => SpoolInv
<1>. SUFFICES ASSUME SpoolInit PROVE SpoolInv
  OBVIOUS
<1>0. limit \in Nat /\ max_body \in Nat
  BY SpoolAssumption
<1>1. SpoolTypes
  BY <1>0 DEF SpoolInit, SpoolTypes, Outcomes
<1>2. ClaimsOf(reserved) = {}
  BY <1>0 DEF SpoolInit, ClaimsOf
<1>3. \A r \in Requests : SoundSpool(r)
  <2>1. BytesIn(<<>>, 0) = 0
    <3>1. {b \in (1 .. 0) \X (1 .. MaxLen) : b[2] <= <<>>[b[1]]} = {}
      OBVIOUS
    <3>. QED
      BY <3>1, FS_EmptySet DEF BytesIn
  <2>2. Sound(Gone, 0, FALSE, <<>>, <<>>, 0, Active, <<>>)
    BY <2>1, UptoZero DEF Sound, Taken, Gone, Active
  <2>. QED
    BY <2>2, Zenon DEF SpoolInit, SoundSpool
<1>. QED
  BY <1>0, <1>1, <1>2, <1>3, FS_EmptySet DEF SpoolInv, SpoolInit

-----------------------------------------------------------------------------
(* The steps of the spools *)

\* What a step on one spool leaves of the others.
Others(r) ==
    \A q \in Requests \ {r} :
        /\ pc'[q] = pc[q] /\ seen'[q] = seen[q] /\ eos'[q] = eos[q] /\ len'[q] = len[q]
        /\ buffer'[q] = buffer[q] /\ reserved'[q] = reserved[q] /\ gave_up'[q] = gave_up[q]
        /\ out'[q] = out[q]

\* A step on one spool has to be looked at there only, and at the budget.
LEMMA OneSpool ==
    ASSUME SpoolInv, NEW r \in Requests, Others(r), SpoolTypes', SoundSpool(r)',
           used' = Cardinality(ClaimsOf(reserved')), used' <= limit
    PROVE  SpoolInv'
<1>1. ASSUME NEW q \in Requests PROVE SoundSpool(q)'
  <2>1. CASE q = r
    BY <2>1
  <2>2. CASE q # r
    BY <2>2 DEF SpoolInv, SoundSpool, Others
  <2>. QED
    BY <2>1, <2>2
<1>. QED
  BY <1>1 DEF SpoolInv, ClaimsOf

\* What the invariant says of one spool, taken apart.
LEMMA OneIsSound ==
    ASSUME SpoolInv, NEW r \in Requests
    PROVE  /\ len[r] \in Seq(1 .. MaxLen) /\ len[r] \in Seq(Nat) /\ Chunk(r) \in Nat
           /\ reserved[r] \in 0 .. max_body /\ gave_up[r] \in Outcomes /\ max_body \in Nat
           /\ seen[r] \in Nat /\ used \in Nat /\ used >= reserved[r]
           /\ SoundSpool(r)
<1>1. /\ len[r] \in Seq(1 .. MaxLen) /\ reserved[r] \in 0 .. max_body /\ gave_up[r] \in Outcomes
      /\ seen[r] \in Nat /\ SoundSpool(r)
  BY DEF SpoolInv, SpoolTypes
<1>2. max_body \in Nat /\ MaxLen \in Nat
  BY SpoolAssumption
<1>3. len[r] \in Seq(Nat) /\ Chunk(r) \in Nat
  BY <1>1, <1>2 DEF Chunk
<1>4. used \in Nat /\ used >= reserved[r]
  <2>1. reserved \in [Requests -> 0 .. max_body] /\ used = Cardinality(ClaimsOf(reserved))
        /\ 0 \in 0 .. max_body
    BY <1>2 DEF SpoolInv, SpoolTypes
  <2>. QED
    BY <2>1, ClaimsUpdate
<1>. QED
  BY <1>1, <1>2, <1>3, <1>4

LEMMA ReceiveStep ==
    ASSUME SpoolInv, NEW r \in Requests, Receive(r)
    PROVE  SpoolInv'
<1>1. /\ used' = used /\ seen' = seen /\ buffer' = buffer /\ reserved' = reserved
      /\ gave_up' = gave_up /\ out' = out /\ pc[r] = "body" /\ ~eos[r]
  BY DEF Receive, spool
<1>2. PICK end \in BOOLEAN : eos' = [eos EXCEPT ![r] = end]
  BY Zenon DEF Receive
<1>3. used' = Cardinality(ClaimsOf(reserved')) /\ used' <= limit
  BY <1>1 DEF SpoolInv
<1>4. /\ len[r] \in Seq(1 .. MaxLen) /\ len[r] \in Seq(Nat) /\ SoundSpool(r)
      /\ Len(len[r]) \in Nat
  BY OneIsSound DEF Chunk
<1>5. gave_up[r] # "complete"
  BY <1>1, <1>4 DEF SoundSpool, Sound
<1>6. CASE len' = len /\ Goto(r, "end")
  <2>1. SpoolTypes' /\ Others(r)
    BY <1>1, <1>2, <1>6 DEF SpoolInv, SpoolTypes, Others, Goto
  <2>2. pc'[r] = "end" /\ Taken("end", len[r]) = Taken("body", len[r])
    BY <1>6 DEF Goto, SpoolInv, SpoolTypes, Taken
  <2>3. SoundSpool(r)'
    BY <1>1, <1>4, <1>5, <1>6, <2>2 DEF SoundSpool, Sound, Gone
  <2>. QED
    BY <1>3, <2>1, <2>3, OneSpool
<1>7. ASSUME NEW n \in 1 .. MaxLen, len' = [len EXCEPT ![r] = Append(@, n)], Goto(r, "offer")
      PROVE  SpoolInv'
  <2>1. SpoolTypes' /\ Others(r)
    BY <1>1, <1>2, <1>7 DEF SpoolInv, SpoolTypes, Others, Goto
  <2>2. pc'[r] = "offer" /\ len'[r] = Append(len[r], n)
    BY <1>7 DEF Goto, SpoolInv, SpoolTypes
  <2>3. /\ Taken("offer", Append(len[r], n)) = Len(len[r]) /\ Taken("body", len[r]) = Len(len[r])
        /\ Len(Append(len[r], n)) >= 1
    BY <1>4 DEF Taken
  <2>4. BytesIn(Append(len[r], n), Len(len[r])) = BytesIn(len[r], Len(len[r]))
    <3>1. n \in Nat /\ Len(len[r]) \in 0 .. Len(len[r])
      BY <1>4, SpoolAssumption
    <3>. QED
      BY <1>4, <3>1, BytesKept
  <2>5. SoundSpool(r)'
    BY <1>1, <1>4, <1>5, <2>2, <2>3, <2>4 DEF SoundSpool, Sound, Gone
  <2>. QED
    BY <1>3, <2>1, <2>5, OneSpool
<1>. QED
  BY <1>6, <1>7 DEF Receive

\* The chunk in hand: the next one, and what the buffer needs with it.
LEMMA InHand ==
    ASSUME SpoolInv, NEW r \in Requests, pc[r] \in {"offer", "cas"}
    PROVE  /\ Chunk(r) >= 1 /\ Taken(pc[r], len[r]) = Chunk(r) - 1
           /\ Append(Upto(Chunk(r) - 1), Chunk(r)) = Upto(Chunk(r))
           /\ <<>> \o Upto(Chunk(r) - 1) = Upto(Chunk(r) - 1)
           /\ BytesIn(len[r], Chunk(r)) \in Nat
           /\ gave_up[r] = Active =>
                 /\ Needed(r) = BytesIn(len[r], Chunk(r))
                 /\ Step(r) = ClaimFor(BytesIn(len[r], Chunk(r)), reserved[r])
<1>1. SoundSpool(r) /\ Chunk(r) \in Nat
  BY OneIsSound
<1>2. Chunk(r) >= 1 /\ Taken(pc[r], len[r]) = Chunk(r) - 1
  BY <1>1 DEF SoundSpool, Sound, Taken, Chunk
<1>3. Chunk(r) - 1 \in Nat /\ (Chunk(r) - 1) + 1 = Chunk(r)
  BY <1>1, <1>2
<1>4. /\ Append(Upto(Chunk(r) - 1), Chunk(r)) = Upto(Chunk(r))
      /\ <<>> \o Upto(Chunk(r) - 1) = Upto(Chunk(r) - 1)
  BY <1>3, UptoFacts, Zenon
<1>5. BytesIn(len[r], Chunk(r)) \in Nat /\ Bytes(r, Upto(Chunk(r))) = BytesIn(len[r], Chunk(r))
  BY <1>1, BytesFacts
<1>6. gave_up[r] = Active => Needed(r) = BytesIn(len[r], Chunk(r))
  <2>1. gave_up[r] = Active => buffer[r] = Upto(Chunk(r) - 1)
    BY <1>1, <1>2 DEF SoundSpool, Sound
  <2>. QED
    BY <1>4, <1>5, <2>1, Zenon DEF Needed
<1>7. gave_up[r] = Active => Step(r) = ClaimFor(BytesIn(len[r], Chunk(r)), reserved[r])
  BY <1>6 DEF Step, ClaimFor
<1>. QED
  BY <1>2, <1>4, <1>5, <1>6, <1>7

\* Giving up, whichever the reason, sends everything downstream.
LEMMA GiveUpStep ==
    ASSUME SpoolInv, NEW r \in Requests, pc[r] \in {"offer", "cas"}, gave_up[r] = Active,
           NEW why \in {"body_too_large", "budget_exhausted"}, GiveUp(r, why),
           NEW n \in Nat, seen' = [seen EXCEPT ![r] = n],
           used' = used, eos' = eos, len' = len
    PROVE  SpoolInv'
<1>1. /\ gave_up' = [gave_up EXCEPT ![r] = why] /\ buffer' = [buffer EXCEPT ![r] = <<>>]
      /\ out' = [out EXCEPT ![r] = Append(out[r] \o buffer[r], Chunk(r))]
      /\ pc' = [pc EXCEPT ![r] = "body"] /\ reserved' = reserved
  BY DEF GiveUp, Goto
<1>2. used' = Cardinality(ClaimsOf(reserved')) /\ used' <= limit
  BY <1>1 DEF SpoolInv
<1>3. SoundSpool(r) /\ Chunk(r) \in Nat
  BY OneIsSound
<1>4. Append(out[r] \o buffer[r], Chunk(r)) = Upto(Chunk(r))
  BY <1>3, InHand, Zenon DEF SoundSpool, Sound
<1>5. Upto(Chunk(r)) \in Seq(Nat)
  BY <1>3, UptoFacts
<1>6. SpoolTypes' /\ Others(r)
  BY <1>1, <1>4, <1>5 DEF SpoolInv, SpoolTypes, Others, Outcomes
<1>7. pc'[r] = "body" /\ gave_up'[r] = why /\ buffer'[r] = <<>> /\ out'[r] = Upto(Chunk(r))
  BY <1>1, <1>4 DEF SpoolInv, SpoolTypes
<1>8. Taken("body", len[r]) = Chunk(r)
  BY DEF Taken, Chunk
<1>9. SoundSpool(r)'
  BY <1>7, <1>8 DEF SoundSpool, Sound, Gone, Active
<1>. QED
  BY <1>2, <1>6, <1>9, OneSpool

\* Absorbing a chunk that is paid for.
LEMMA AbsorbStep ==
    ASSUME SpoolInv, NEW r \in Requests, pc[r] \in {"offer", "cas"}, gave_up[r] = Active,
           Absorb(r), NEW n \in 0 .. max_body, n >= Needed(r),
           reserved' = [reserved EXCEPT ![r] = n], used' = used - reserved[r] + n, used' <= limit,
           NEW m \in Nat, seen' = [seen EXCEPT ![r] = m], eos' = eos, len' = len
    PROVE  SpoolInv'
<1>1. /\ gave_up' = gave_up /\ out' = out /\ pc' = [pc EXCEPT ![r] = "end"]
      /\ buffer' = [buffer EXCEPT ![r] = Append(buffer[r], Chunk(r))]
  BY DEF Absorb, Goto
<1>2. used' = Cardinality(ClaimsOf(reserved'))
  <2>1. reserved \in [Requests -> 0 .. max_body] /\ used = Cardinality(ClaimsOf(reserved))
    BY DEF SpoolInv, SpoolTypes
  <2>. QED
    BY <2>1, ClaimsUpdate, Zenon
<1>3. SoundSpool(r) /\ Chunk(r) \in Nat
  BY OneIsSound
<1>4. Append(buffer[r], Chunk(r)) = Upto(Chunk(r)) /\ out[r] = <<>>
  BY <1>3, InHand DEF SoundSpool, Sound
<1>5. Upto(Chunk(r)) \in Seq(Nat)
  BY <1>3, UptoFacts
<1>6. SpoolTypes' /\ Others(r)
  BY <1>1, <1>4, <1>5 DEF SpoolInv, SpoolTypes, Others
<1>7. pc'[r] = "end" /\ buffer'[r] = Upto(Chunk(r)) /\ reserved'[r] = n
  BY <1>1, <1>4 DEF SpoolInv, SpoolTypes
<1>8. Taken("end", len[r]) = Chunk(r)
  BY DEF Taken, Chunk
<1>9. n >= BytesIn(len[r], Chunk(r))
  BY InHand
<1>10. SoundSpool(r)'
  BY <1>1, <1>4, <1>7, <1>8, <1>9 DEF SoundSpool, Sound, Gone, Active
<1>. QED
  BY <1>2, <1>6, <1>10, OneSpool, Zenon

\* A value of the budget that leaves room is remembered.
LEMMA ObserveStep ==
    ASSUME SpoolInv, NEW r \in Requests, pc[r] \in {"offer", "cas"}, gave_up[r] = Active,
           Needed(r) <= max_body, Needed(r) > reserved[r], Observe(r),
           used' = used, eos' = eos, len' = len
    PROVE  SpoolInv'
<1>1. CASE ~(used + Step(r) <= limit)
  BY <1>1, GiveUpStep DEF Observe
<1>2. CASE used + Step(r) <= limit
  <2>1. /\ seen' = [seen EXCEPT ![r] = used] /\ pc' = [pc EXCEPT ![r] = "cas"]
        /\ buffer' = buffer /\ reserved' = reserved /\ gave_up' = gave_up /\ out' = out
    BY <1>2 DEF Observe, Goto, spool
  <2>2. used' = Cardinality(ClaimsOf(reserved')) /\ used' <= limit
    BY <2>1 DEF SpoolInv
  <2>3. used \in Nat /\ SoundSpool(r)
    BY OneIsSound
  <2>4. SpoolTypes' /\ Others(r)
    BY <2>1, <2>3 DEF SpoolInv, SpoolTypes, Others
  <2>5. pc'[r] = "cas" /\ seen'[r] = used
    BY <2>1 DEF SpoolInv, SpoolTypes
  <2>6. /\ Taken("cas", len[r]) = Taken(pc[r], len[r])
        /\ Needed(r) = BytesIn(len[r], Len(len[r]))
        /\ Step(r) = ClaimFor(BytesIn(len[r], Len(len[r])), reserved[r])
    BY InHand DEF Taken, Chunk
  <2>7. SoundSpool(r)'
    BY <1>2, <2>1, <2>3, <2>5, <2>6 DEF SoundSpool, Sound, Gone, Active
  <2>. QED
    BY <2>2, <2>4, <2>7, OneSpool
<1>. QED
  BY <1>1, <1>2

\* One step of offer, whichever branch it takes.
LEMMA OfferStep ==
    ASSUME SpoolInv, NEW r \in Requests, Offer(r)
    PROVE  SpoolInv'
<1>0. /\ SoundSpool(r) /\ Chunk(r) \in Nat /\ used \in Nat /\ reserved[r] \in 0 .. max_body
      /\ seen[r] \in Nat /\ max_body \in Nat /\ limit \in Nat /\ used <= limit
  BY OneIsSound, SpoolAssumption DEF SpoolInv
<1>1. seen = [seen EXCEPT ![r] = seen[r]] /\ reserved = [reserved EXCEPT ![r] = reserved[r]]
  BY DEF SpoolInv, SpoolTypes
<1>2. CASE PassThrough(r)
  <2>1. /\ used' = used /\ seen' = seen /\ eos' = eos /\ len' = len /\ buffer' = buffer
        /\ reserved' = reserved /\ gave_up' = gave_up /\ pc[r] = "offer" /\ gave_up[r] # Active
        /\ out' = [out EXCEPT ![r] = Append(out[r], Chunk(r))] /\ pc' = [pc EXCEPT ![r] = "body"]
    BY <1>2 DEF PassThrough, Goto
  <2>2. Append(out[r], Chunk(r)) = Upto(Chunk(r)) /\ buffer[r] = <<>> /\ gave_up[r] # "complete"
    BY <1>0, <2>1, InHand DEF SoundSpool, Sound
  <2>3. Upto(Chunk(r)) \in Seq(Nat) /\ Taken("body", len[r]) = Chunk(r)
    BY <1>0, UptoFacts, Zenon DEF Taken, Chunk
  <2>4. SpoolTypes' /\ Others(r)
    BY <2>1, <2>2, <2>3 DEF SpoolInv, SpoolTypes, Others
  <2>5. pc'[r] = "body" /\ out'[r] = Upto(Chunk(r))
    BY <2>1, <2>2 DEF SpoolInv, SpoolTypes
  <2>6. SoundSpool(r)'
    BY <2>1, <2>2, <2>3, <2>5 DEF SoundSpool, Sound, Gone, Active
  <2>7. used' = Cardinality(ClaimsOf(reserved')) /\ used' <= limit
    BY <2>1 DEF SpoolInv
  <2>. QED
    BY <2>4, <2>6, <2>7, OneSpool
<1>3. CASE TooLarge(r)
  BY <1>0, <1>1, <1>3, GiveUpStep DEF TooLarge
<1>4. CASE AlreadyReserved(r)
  <2>1. used' = used - reserved[r] + reserved[r] /\ used' <= limit
    BY <1>0, <1>4 DEF AlreadyReserved
  <2>2. /\ pc[r] = "offer" /\ gave_up[r] = Active /\ Needed(r) <= reserved[r] /\ Absorb(r)
        /\ seen' = seen /\ eos' = eos /\ len' = len /\ reserved' = reserved
    BY <1>4 DEF AlreadyReserved
  <2>3. Needed(r) \in Nat
    BY <2>2, InHand
  <2>. QED
    BY <1>0, <1>1, <2>1, <2>2, <2>3, AbsorbStep
<1>5. CASE Load(r)
  BY <1>5, ObserveStep DEF Load
<1>6. CASE Exchange(r)
  <2>1. /\ pc[r] = "cas" /\ gave_up[r] = Active /\ eos' = eos /\ len' = len
        /\ Needed(r) > reserved[r] /\ Needed(r) <= max_body /\ Needed(r) \in Nat
        /\ Step(r) = ClaimFor(Needed(r), reserved[r]) /\ seen[r] + Step(r) <= limit
    <3>1. pc[r] = "cas" /\ eos' = eos /\ len' = len
      BY <1>6 DEF Exchange
    <3>2. /\ gave_up[r] = Active
          /\ BytesIn(len[r], Chunk(r)) > reserved[r] /\ BytesIn(len[r], Chunk(r)) <= max_body
          /\ seen[r] + ClaimFor(BytesIn(len[r], Chunk(r)), reserved[r]) <= limit
      BY <1>0, <3>1 DEF SoundSpool, Sound, Chunk
    <3>. QED
      BY <3>1, <3>2, InHand
  <2>2. /\ Step(r) \in Nat /\ reserved[r] + Step(r) \in 0 .. max_body
        /\ reserved[r] + Step(r) >= Needed(r)
    <3>1. Needed(r) \in 0 .. max_body
      BY <1>0, <2>1
    <3>2. /\ ClaimFor(Needed(r), reserved[r]) \in Nat
          /\ reserved[r] + ClaimFor(Needed(r), reserved[r]) >= Needed(r)
          /\ reserved[r] + ClaimFor(Needed(r), reserved[r]) <= max_body
      BY <1>0, <2>1, <3>1, ClaimCovers
    <3>. QED
      BY <1>0, <2>1, <3>2
  <2>3. CASE Observe(r) /\ UNCHANGED used
    BY <2>1, <2>3, ObserveStep
  <2>4. ASSUME used = seen[r], used' = used + Step(r), Absorb(r),
               reserved' = [reserved EXCEPT ![r] = @ + Step(r)], seen' = [seen EXCEPT ![r] = 0]
        PROVE  SpoolInv'
    <3>1. used' = used - reserved[r] + (reserved[r] + Step(r)) /\ used' <= limit
      BY <1>0, <2>1, <2>2, <2>4
    <3>2. reserved' = [reserved EXCEPT ![r] = reserved[r] + Step(r)]
      BY <2>4
    <3>. QED
      BY <2>1, <2>2, <2>4, <3>1, <3>2, AbsorbStep, Zenon
  <2>. QED
    BY <1>6, <2>3, <2>4 DEF Exchange
<1>7. CASE End(r)
  <2>1. /\ pc[r] = "end" /\ pc' = [pc EXCEPT ![r] = "body"]
        /\ used' = used /\ seen' = seen /\ eos' = eos /\ len' = len /\ reserved' = reserved
    BY <1>7 DEF End, Goto
  <2>2. used' = Cardinality(ClaimsOf(reserved')) /\ used' <= limit
    BY <2>1 DEF SpoolInv
  <2>3. /\ Taken("end", len[r]) = Chunk(r) /\ Taken("body", len[r]) = Chunk(r)
        /\ Upto(Chunk(r)) \in Seq(Nat) /\ <<>> \o Upto(Chunk(r)) = Upto(Chunk(r))
    BY <1>0, UptoFacts, Zenon DEF Taken, Chunk
  <2>4. pc'[r] = "body"
    BY <2>1 DEF SpoolInv, SpoolTypes
  <2>5. CASE eos[r] /\ gave_up[r] = Active
    <3>1. /\ gave_up' = [gave_up EXCEPT ![r] = "complete"] /\ buffer' = [buffer EXCEPT ![r] = <<>>]
          /\ out' = [out EXCEPT ![r] = out[r] \o buffer[r]]
      BY <1>7, <2>5, Zenon DEF End
    <3>2. out[r] \o buffer[r] = Upto(Chunk(r)) /\ reserved[r] >= BytesIn(len[r], Chunk(r))
      BY <1>0, <2>1, <2>3, <2>5, Zenon DEF SoundSpool, Sound
    <3>3. SpoolTypes' /\ Others(r)
      BY <2>1, <2>3, <3>1, <3>2 DEF SpoolInv, SpoolTypes, Others, Outcomes
    <3>4. gave_up'[r] = "complete" /\ buffer'[r] = <<>> /\ out'[r] = Upto(Chunk(r))
      BY <3>1, <3>2 DEF SpoolInv, SpoolTypes
    <3>5. SoundSpool(r)'
      BY <2>1, <2>3, <2>4, <2>5, <3>2, <3>4 DEF SoundSpool, Sound, Gone, Active
    <3>. QED
      BY <2>2, <3>3, <3>5, OneSpool
  <2>6. CASE ~(eos[r] /\ gave_up[r] = Active)
    <3>1. gave_up' = gave_up /\ buffer' = buffer /\ out' = out
      BY <1>7, <2>6, Zenon DEF End
    <3>2. SpoolTypes' /\ Others(r)
      BY <2>1, <3>1 DEF SpoolInv, SpoolTypes, Others
    <3>3. SoundSpool(r)'
      BY <1>0, <2>1, <2>3, <2>4, <3>1 DEF SoundSpool, Sound, Gone, Active
    <3>. QED
      BY <2>2, <3>2, <3>3, OneSpool
  <2>. QED
    BY <2>5, <2>6
<1>. QED
  BY <1>2, <1>3, <1>4, <1>5, <1>6, <1>7 DEF Offer

LEMMA DropStep ==
    ASSUME SpoolInv, NEW r \in Requests, Drop(r)
    PROVE  SpoolInv'
<1>0. /\ used \in Nat /\ reserved[r] \in Nat /\ used <= limit /\ limit \in Nat /\ 0 \in 0 .. max_body
      /\ used >= reserved[r]
  BY OneIsSound, SpoolAssumption DEF SpoolInv
<1>1. /\ used' = used - reserved[r] /\ reserved' = [reserved EXCEPT ![r] = 0]
      /\ pc' = [pc EXCEPT ![r] = Gone] /\ eos' = [eos EXCEPT ![r] = FALSE]
      /\ len' = [len EXCEPT ![r] = <<>>] /\ gave_up' = [gave_up EXCEPT ![r] = Active]
      /\ buffer' = [buffer EXCEPT ![r] = <<>>] /\ out' = [out EXCEPT ![r] = <<>>] /\ seen' = seen
  BY DEF Drop, Goto
<1>2. used' = Cardinality(ClaimsOf(reserved')) /\ used' <= limit
  <2>1. reserved \in [Requests -> 0 .. max_body] /\ used = Cardinality(ClaimsOf(reserved))
    BY DEF SpoolInv, SpoolTypes
  <2>2. Cardinality(ClaimsOf([reserved EXCEPT ![r] = 0])) = Cardinality(ClaimsOf(reserved)) - reserved[r] + 0
    BY <1>0, <2>1, ClaimsUpdate, Zenon
  <2>. QED
    BY <1>0, <1>1, <2>1, <2>2
<1>3. SpoolTypes' /\ Others(r)
  BY <1>0, <1>1 DEF SpoolInv, SpoolTypes, Others, Outcomes
<1>4. /\ pc'[r] = Gone /\ len'[r] = <<>> /\ buffer'[r] = <<>> /\ reserved'[r] = 0
      /\ gave_up'[r] = Active /\ out'[r] = <<>>
  BY <1>1 DEF SpoolInv, SpoolTypes
<1>5. SoundSpool(r)'
  <2>1. BytesIn(<<>>, 0) = 0
    <3>1. {b \in (1 .. 0) \X (1 .. MaxLen) : b[2] <= <<>>[b[1]]} = {}
      OBVIOUS
    <3>. QED
      BY <3>1, FS_EmptySet DEF BytesIn
  <2>2. \A saw, end : Sound(Gone, saw, end, <<>>, <<>>, 0, Active, <<>>)
    BY <2>1, UptoZero DEF Sound, Taken, Gone, Active
  <2>. QED
    BY <1>4, <2>2 DEF SoundSpool
<1>. QED
  BY <1>2, <1>3, <1>5, OneSpool

LEMMA NewStep ==
    ASSUME SpoolInv, NEW r \in Requests, pc[r] = Gone, New(r)
    PROVE  SpoolInv'
<1>1. /\ used' = used /\ seen' = seen /\ eos' = eos /\ len' = len /\ buffer' = buffer
      /\ reserved' = reserved /\ gave_up' = gave_up /\ out' = out /\ pc' = [pc EXCEPT ![r] = "body"]
  BY DEF New, Goto, spool
<1>2. SpoolTypes' /\ Others(r) /\ pc'[r] = "body"
  BY <1>1 DEF SpoolInv, SpoolTypes, Others
<1>3. Taken("body", len[r]) = Taken(Gone, len[r]) /\ SoundSpool(r)
  BY DEF Taken, Gone, SpoolInv
<1>4. SoundSpool(r)'
  BY <1>1, <1>2, <1>3 DEF SoundSpool, Sound, Gone, Active
<1>5. used' = Cardinality(ClaimsOf(reserved')) /\ used' <= limit
  BY <1>1 DEF SpoolInv
<1>. QED
  BY <1>2, <1>4, <1>5, OneSpool

-----------------------------------------------------------------------------
(* The inductive invariant of the requests *)

Stages ==
    {"idle", "admission", "peer", "waiting", "late", "failed", "body", "stale", "draining", "ending"}

RequestTypes ==
    /\ stage \in [Requests -> Stages] /\ class \in [Requests -> Classes]
    /\ permit \in [Requests -> BOOLEAN] /\ upgrade_permit \in [Requests -> BOOLEAN]
    /\ origin_slot \in [Requests -> BOOLEAN] /\ outcome_recorded \in [Requests -> BOOLEAN]
    /\ attempts \in [Requests -> Nat] /\ outcomes \in [Requests -> Nat]
    /\ released \in [Requests -> {NotYet, "origin_end", "body_end"}]

\* One request.  While an attempt is out nothing has been recorded of it, and once
\* its header is here something has; a request that is not admitted has nothing,
\* not even a spool.
Accounted(at, c, p, u, slot, tries, recorded, told, spooling) ==
    /\ at = "waiting" => told = tries - 1 /\ ~recorded
    /\ at \in {"peer", "late", "failed", "body", "stale", "draining"} => told = tries
    /\ told <= tries
    /\ at \in {"late", "body"} => recorded
    /\ at \in {"waiting", "late", "body"} => slot
    /\ at \in {"peer", "waiting", "late", "body"} => (c = "render" => p) /\ (c = "upgrade" => u)
    /\ at \in {"idle", "admission"} =>
          tries = 0 /\ told = 0 /\ ~p /\ ~u /\ ~slot /\ spooling = Gone

AccountedFor(r) ==
    Accounted(stage[r], class[r], permit[r], upgrade_permit[r], origin_slot[r], attempts[r],
              outcome_recorded[r], outcomes[r], pc[r])

RequestInv ==
    /\ RequestTypes
    /\ \A r \in Requests : AccountedFor(r)

\* What a step of one request leaves of the others.
OtherRequests(r) ==
    \A q \in Requests \ {r} :
        /\ stage'[q] = stage[q] /\ class'[q] = class[q] /\ permit'[q] = permit[q]
        /\ upgrade_permit'[q] = upgrade_permit[q] /\ origin_slot'[q] = origin_slot[q]
        /\ attempts'[q] = attempts[q] /\ outcome_recorded'[q] = outcome_recorded[q]
        /\ outcomes'[q] = outcomes[q] /\ pc'[q] = pc[q]

LEMMA OneRequest ==
    ASSUME RequestInv, NEW r \in Requests, OtherRequests(r), RequestTypes', AccountedFor(r)'
    PROVE  RequestInv'
<1>1. ASSUME NEW q \in Requests PROVE AccountedFor(q)'
  <2>1. CASE q = r
    BY <2>1
  <2>2. CASE q # r
    BY <2>2 DEF RequestInv, AccountedFor, OtherRequests
  <2>. QED
    BY <2>1, <2>2
<1>. QED
  BY <1>1 DEF RequestInv

\* The control of a spool, on any step.
LEMMA SpoolControl ==
    ASSUME SpoolInv, NEW r \in Requests
    PROVE  /\ UNCHANGED spools => pc' = pc
           /\ Receive(r) \/ Offer(r) => /\ pc[r] # Gone
                                        /\ \A q \in Requests \ {r} : pc'[q] = pc[q]
           /\ New(r) => pc' = [pc EXCEPT ![r] = "body"]
           /\ Drop(r) => pc' = [pc EXCEPT ![r] = Gone]
<1>1. /\ UNCHANGED spools => pc' = pc
      /\ New(r) => pc' = [pc EXCEPT ![r] = "body"]
      /\ Drop(r) => pc' = [pc EXCEPT ![r] = Gone]
  BY DEF spools, New, Drop, Goto
<1>2. ASSUME NEW next, Goto(r, next) PROVE \A q \in Requests \ {r} : pc'[q] = pc[q]
  BY <1>2 DEF Goto, SpoolInv, SpoolTypes
<1>3. Receive(r) => pc[r] # Gone /\ \A q \in Requests \ {r} : pc'[q] = pc[q]
  BY <1>2 DEF Receive, Gone
<1>4. Observe(r) => \A q \in Requests \ {r} : pc'[q] = pc[q]
  BY <1>2, Zenon DEF Observe, GiveUp
<1>5. Offer(r) => pc[r] # Gone /\ \A q \in Requests \ {r} : pc'[q] = pc[q]
  BY <1>2, <1>4, Zenon DEF Offer, PassThrough, TooLarge, AlreadyReserved, Load, Exchange, End, GiveUp, Absorb, Gone
<1>. QED
  BY <1>1, <1>3, <1>5

\* Recording an outcome tells it once.
LEMMA Recording ==
    ASSUME RequestInv, NEW r \in Requests, RecordOriginOutcome(r)
    PROVE  /\ outcome_recorded' \in [Requests -> BOOLEAN] /\ outcomes' \in [Requests -> Nat]
           /\ \A q \in Requests \ {r} :
                 outcome_recorded'[q] = outcome_recorded[q] /\ outcomes'[q] = outcomes[q]
           /\ ~outcome_recorded[r] /\ origin_slot[r] =>
                 outcome_recorded'[r] /\ outcomes'[r] = outcomes[r] + 1
           /\ outcome_recorded[r] => outcome_recorded'[r] /\ outcomes'[r] = outcomes[r]
<1>0. /\ outcome_recorded \in [Requests -> BOOLEAN] /\ outcomes \in [Requests -> Nat]
      /\ origin_slot[r] \in BOOLEAN /\ outcome_recorded[r] \in BOOLEAN
  BY DEF RequestInv, RequestTypes
<1>1. CASE outcome_recorded[r] \/ ~origin_slot[r]
  <2>1. outcome_recorded' = outcome_recorded /\ outcomes' = outcomes
    BY <1>1 DEF RecordOriginOutcome
  <2>. QED
    BY <1>0, <1>1, <2>1
<1>2. CASE ~(outcome_recorded[r] \/ ~origin_slot[r])
  <2>1. /\ outcome_recorded' = [outcome_recorded EXCEPT ![r] = TRUE]
        /\ outcomes' = [outcomes EXCEPT ![r] = @ + 1]
    BY <1>2 DEF RecordOriginOutcome
  <2>. QED
    BY <1>0, <1>2, <2>1
<1>. QED
  BY <1>1, <1>2

LEMMA RequestStep ==
    ASSUME SpoolInv, RequestInv, NEW r \in Requests,
           RequestFilter(r) \/ Callback(r) \/ Abort(r)
    PROVE  RequestInv'
<1>0. /\ AccountedFor(r) /\ stage[r] \in Stages /\ attempts[r] \in Nat /\ outcomes[r] \in Nat
      /\ outcome_recorded[r] \in BOOLEAN /\ origin_slot[r] \in BOOLEAN
  BY DEF RequestInv, RequestTypes
<1>1. CASE RequestFilter(r)
  <2>1. PICK c \in Classes, next \in {"admission", "ending"} :
          class' = [class EXCEPT ![r] = c] /\ stage' = [stage EXCEPT ![r] = next]
    BY <1>1, Zenon DEF RequestFilter, Enter
  <2>2. /\ UNCHANGED <<permit, upgrade_permit, origin_slot, attempts, outcome_recorded, released, outcomes, pc>>
        /\ stage[r] = "idle"
    BY <1>1, SpoolControl DEF RequestFilter, held
  <2>3. RequestTypes' /\ OtherRequests(r) /\ stage'[r] = next
    BY <2>1, <2>2 DEF RequestInv, RequestTypes, OtherRequests, Stages
  <2>4. AccountedFor(r)'
    BY <1>0, <2>2, <2>3, Zenon DEF AccountedFor, Accounted
  <2>. QED
    BY <2>3, <2>4, OneRequest
<1>2. ASSUME NEW next \in Stages, Enter(r, next), UNCHANGED <<held, ctx>>, pc' = pc,
             next \in {"stale", "ending"}, next = "stale" => stage[r] = "failed"
      PROVE  RequestInv'
  <2>1. /\ UNCHANGED <<class, permit, upgrade_permit, origin_slot, attempts, outcome_recorded, released, outcomes, pc>>
        /\ stage' = [stage EXCEPT ![r] = next]
    BY <1>2 DEF held, ctx, Enter
  <2>2. RequestTypes' /\ OtherRequests(r) /\ stage'[r] = next
    BY <2>1 DEF RequestInv, RequestTypes, OtherRequests
  <2>3. AccountedFor(r)'
    BY <1>0, <1>2, <2>1, <2>2 DEF AccountedFor, Accounted
  <2>. QED
    BY <2>2, <2>3, OneRequest
<1>3. CASE Shed(r) \/ Abort(r) \/ Sent(r)
  BY <1>2, <1>3, SpoolControl DEF Shed, Abort, Sent, Stages
<1>4. CASE ServeStale(r)
  BY <1>2, <1>4, SpoolControl DEF ServeStale, Stages
<1>5. CASE Admit(r)
  <2>1. /\ UNCHANGED <<class, attempts, outcome_recorded, released, outcomes, origin_slot>>
        /\ stage[r] = "admission" /\ stage' = [stage EXCEPT ![r] = "peer"]
    BY <1>5 DEF Admit, ctx, Enter, held
  <2>2. /\ permit' = permit \/ permit' = [permit EXCEPT ![r] = TRUE]
        /\ upgrade_permit' = upgrade_permit \/ upgrade_permit' = [upgrade_permit EXCEPT ![r] = TRUE]
        /\ class[r] = "render" => permit' = [permit EXCEPT ![r] = TRUE]
        /\ class[r] = "upgrade" => upgrade_permit' = [upgrade_permit EXCEPT ![r] = TRUE]
    BY <1>5 DEF Admit, held
  <2>3. pc' = pc \/ pc' = [pc EXCEPT ![r] = "body"]
    BY <1>5, SpoolControl DEF Admit
  <2>4. RequestTypes' /\ OtherRequests(r) /\ stage'[r] = "peer"
    BY <2>1, <2>2, <2>3, Zenon DEF RequestInv, RequestTypes, OtherRequests, Stages, SpoolInv, SpoolTypes
  <2>5. (class[r] = "render" => permit'[r]) /\ (class[r] = "upgrade" => upgrade_permit'[r])
    BY <2>2 DEF RequestInv, RequestTypes
  <2>6. AccountedFor(r)'
    BY <1>0, <2>1, <2>4, <2>5 DEF AccountedFor, Accounted
  <2>. QED
    BY <2>4, <2>6, OneRequest
<1>6. CASE UpstreamPeer(r)
  <2>1. /\ UNCHANGED <<class, permit, upgrade_permit, released, outcomes, pc>> /\ stage[r] = "peer"
        /\ stage' = [stage EXCEPT ![r] = "waiting"] /\ attempts' = [attempts EXCEPT ![r] = @ + 1]
        /\ outcome_recorded' = [outcome_recorded EXCEPT ![r] = FALSE]
        /\ origin_slot' = [origin_slot EXCEPT ![r] = TRUE]
    BY <1>6, SpoolControl DEF UpstreamPeer, Enter
  <2>2. RequestTypes' /\ OtherRequests(r)
    BY <2>1 DEF RequestInv, RequestTypes, OtherRequests, Stages
  <2>3. /\ stage'[r] = "waiting" /\ attempts'[r] = attempts[r] + 1
        /\ ~outcome_recorded'[r] /\ origin_slot'[r]
    BY <2>1 DEF RequestInv, RequestTypes
  <2>4. AccountedFor(r)'
    BY <1>0, <2>1, <2>3 DEF AccountedFor, Accounted
  <2>. QED
    BY <2>2, <2>4, OneRequest
<1>7. ASSUME stage[r] \in {"waiting", "late", "body"}, RecordOriginOutcome(r),
             NEW next \in {"peer", "failed", "body", "late", "ending"}, Enter(r, next),
             UNCHANGED <<held, class, attempts, released>>, pc' = pc
      PROVE  RequestInv'
  <2>1. /\ UNCHANGED <<class, permit, upgrade_permit, origin_slot, attempts, released, pc>>
        /\ stage' = [stage EXCEPT ![r] = next]
    BY <1>7 DEF held, Enter
  <2>2. RequestTypes' /\ OtherRequests(r)
    BY <1>7, <2>1, Recording DEF RequestInv, RequestTypes, OtherRequests, Stages
  <2>3. stage'[r] = next
    BY <2>1 DEF RequestInv, RequestTypes
  <2>4. /\ origin_slot[r] /\ (class[r] = "render" => permit[r]) /\ (class[r] = "upgrade" => upgrade_permit[r])
        /\ \/ outcomes[r] = attempts[r] - 1 /\ ~outcome_recorded[r]
           \/ outcomes[r] = attempts[r] /\ outcome_recorded[r]
    BY <1>0, <1>7, Zenon DEF AccountedFor, Accounted
  <2>5. /\ ~outcome_recorded[r] => outcome_recorded'[r] /\ outcomes'[r] = outcomes[r] + 1
        /\ outcome_recorded[r] => outcome_recorded'[r] /\ outcomes'[r] = outcomes[r]
    BY <1>7, <2>4, Recording, Zenon
  <2>6. outcome_recorded'[r] /\ outcomes'[r] = attempts[r]
    BY <1>0, <2>4, <2>5
  <2>7. /\ origin_slot'[r] = origin_slot[r] /\ class'[r] = class[r] /\ permit'[r] = permit[r]
        /\ upgrade_permit'[r] = upgrade_permit[r] /\ attempts'[r] = attempts[r]
    BY <2>1
  <2>8. attempts[r] <= attempts[r]
    BY <1>0
  <2>9. AccountedFor(r)'
    BY <1>7, <2>3, <2>4, <2>6, <2>7, <2>8 DEF AccountedFor, Accounted
  <2>. QED
    BY <2>2, <2>9, OneRequest
<1>8. CASE Fail(r) \/ Header(r) \/ LateHeader(r) \/ BodyError(r)
  BY <1>7, <1>8, SpoolControl, Zenon DEF Fail, Header, LateHeader, BodyError, Retries
<1>9. CASE Body(r)
  <2>1. /\ UNCHANGED <<upgrade_permit, class, attempts, outcome_recorded, outcomes>>
        /\ stage[r] = "body" /\ \A q \in Requests \ {r} : pc'[q] = pc[q]
    BY <1>9, SpoolControl, Zenon DEF Body
  <2>2. PICK end \in BOOLEAN : OnEndOfStream(r, end)
    <3>1. CASE pc[r] = Gone
      BY <1>9, <3>1, Zenon DEF Body
    <3>2. CASE pc[r] # Gone
      <4>1. eos'[r] \in BOOLEAN
        BY <1>9, <3>2, ReceiveStep DEF Body, SpoolInv, SpoolTypes
      <4>. QED
        BY <1>9, <3>2, <4>1 DEF Body
    <3>. QED
      BY <3>1, <3>2
  <2>3. CASE ~end
    <3>1. UNCHANGED <<released, permit, origin_slot, stage>>
      BY <2>2, <2>3 DEF OnEndOfStream
    <3>2. RequestTypes' /\ OtherRequests(r)
      BY <2>1, <3>1 DEF RequestInv, RequestTypes, OtherRequests
    <3>3. AccountedFor(r)'
      BY <1>0, <2>1, <3>1, Zenon DEF AccountedFor, Accounted
    <3>. QED
      BY <3>2, <3>3, OneRequest
  <2>4. CASE end
    <3>1. /\ released' = [released EXCEPT ![r] = ReleasedAt(r)]
          /\ permit' = [permit EXCEPT ![r] = FALSE] /\ origin_slot' = [origin_slot EXCEPT ![r] = FALSE]
          /\ stage' = [stage EXCEPT ![r] = "draining"]
      BY <2>2, <2>4 DEF OnEndOfStream, Enter
    <3>2. ReleasedAt(r) \in {NotYet, "origin_end", "body_end"}
      BY DEF ReleasedAt, RequestInv, RequestTypes
    <3>3. RequestTypes' /\ OtherRequests(r) /\ stage'[r] = "draining"
      BY <2>1, <3>1, <3>2 DEF RequestInv, RequestTypes, OtherRequests, Stages
    <3>4. AccountedFor(r)'
      BY <1>0, <2>1, <3>3 DEF AccountedFor, Accounted
    <3>. QED
      BY <3>3, <3>4, OneRequest
  <2>. QED
    BY <2>3, <2>4
<1>10. CASE StaleBody(r) \/ ResponseBodyFilter(r)
  <2>1. /\ UNCHANGED <<stage, class, permit, upgrade_permit, origin_slot, attempts, outcome_recorded, released, outcomes>>
        /\ pc[r] # Gone /\ \A q \in Requests \ {r} : pc'[q] = pc[q]
    BY <1>10, SpoolControl DEF StaleBody, ResponseBodyFilter, held, ctx
  <2>2. RequestTypes' /\ OtherRequests(r)
    BY <2>1 DEF RequestInv, RequestTypes, OtherRequests
  <2>3. AccountedFor(r)'
    BY <1>0, <2>1, Zenon DEF AccountedFor, Accounted
  <2>. QED
    BY <2>2, <2>3, OneRequest
<1>11. CASE Logging(r)
  <2>1. /\ stage' = [stage EXCEPT ![r] = "idle"] /\ pc' = [pc EXCEPT ![r] = Gone]
        /\ permit' = [permit EXCEPT ![r] = FALSE]
        /\ upgrade_permit' = [upgrade_permit EXCEPT ![r] = FALSE]
        /\ origin_slot' = [origin_slot EXCEPT ![r] = FALSE]
        /\ class' = [class EXCEPT ![r] = "exempt"] /\ attempts' = [attempts EXCEPT ![r] = 0]
        /\ outcome_recorded' = [outcome_recorded EXCEPT ![r] = FALSE]
        /\ released' = [released EXCEPT ![r] = NotYet] /\ outcomes' = [outcomes EXCEPT ![r] = 0]
    BY <1>11, SpoolControl DEF Logging, NewCtx, Enter
  <2>2. RequestTypes'
    BY <2>1 DEF RequestInv, RequestTypes, Stages, Classes
  <2>3. OtherRequests(r)
    BY <2>1 DEF RequestInv, RequestTypes, OtherRequests, SpoolInv, SpoolTypes
  <2>4. /\ stage'[r] = "idle" /\ pc'[r] = Gone /\ ~permit'[r] /\ ~upgrade_permit'[r] /\ ~origin_slot'[r]
        /\ attempts'[r] = 0 /\ outcomes'[r] = 0
    BY <2>1 DEF RequestInv, RequestTypes, SpoolInv, SpoolTypes
  <2>5. AccountedFor(r)'
    BY <2>4 DEF AccountedFor, Accounted
  <2>. QED
    BY <2>2, <2>3, <2>5, OneRequest
<1>. QED
  BY <1>1, <1>3, <1>4, <1>5, <1>6, <1>8, <1>9, <1>10, <1>11 DEF Callback

-----------------------------------------------------------------------------
(* The theorems *)

ProxyInv == SpoolInv /\ RequestInv

\* The callbacks touch the spools only through the operations of the spool.
LEMMA SpoolsStep ==
    ASSUME SpoolInv, RequestInv, NEW r \in Requests,
           RequestFilter(r) \/ Callback(r) \/ Abort(r)
    PROVE  SpoolInv'
<1>1. UNCHANGED spools => SpoolInv'
  <2>. SUFFICES ASSUME UNCHANGED spools PROVE SpoolInv'
    OBVIOUS
  <2>1. /\ used' = used /\ pc' = pc /\ seen' = seen /\ eos' = eos /\ len' = len /\ buffer' = buffer
        /\ reserved' = reserved /\ gave_up' = gave_up /\ out' = out
    BY DEF spools, spool
  <2>. QED
    BY <2>1 DEF SpoolInv, SpoolTypes, SoundSpool
<1>2. \/ UNCHANGED spools \/ Receive(r) \/ Offer(r) \/ Drop(r)
      \/ stage[r] = "admission" /\ New(r)
  BY Zenon DEF RequestFilter, Abort, Callback, Shed, Admit, UpstreamPeer, Fail, Header, LateHeader,
         BodyError, ServeStale, Body, StaleBody, ResponseBodyFilter, Sent, Logging
<1>3. stage[r] = "admission" => pc[r] = Gone
  BY DEF RequestInv, AccountedFor, Accounted
<1>. QED
  BY <1>1, <1>2, <1>3, ReceiveStep, OfferStep, DropStep, NewStep

\* Every request and every spool is accounted for in every reachable state.
THEOREM ProxyInvariant == Spec => []ProxyInv
<1>1. Init => ProxyInv
  <2>. SUFFICES ASSUME Init PROVE RequestInv
    BY SpoolInvInit DEF Init, ProxyInv
  <2>1. RequestTypes
    BY DEF Init, RequestTypes, Stages, Classes
  <2>2. \A r \in Requests : AccountedFor(r)
    BY DEF Init, SpoolInit, AccountedFor, Accounted
  <2>. QED
    BY <2>1, <2>2 DEF RequestInv
<1>2. ProxyInv /\ [Next]_vars => ProxyInv'
  <2>. SUFFICES ASSUME ProxyInv, [Next]_vars PROVE ProxyInv'
    OBVIOUS
  <2>1. ASSUME NEW r \in Requests, RequestFilter(r) \/ Callback(r) \/ Abort(r) PROVE ProxyInv'
    BY <2>1, SpoolsStep, RequestStep DEF ProxyInv
  <2>2. CASE UNCHANGED vars
    <3>1. /\ used' = used /\ pc' = pc /\ seen' = seen /\ eos' = eos /\ len' = len /\ buffer' = buffer
          /\ reserved' = reserved /\ gave_up' = gave_up /\ out' = out
      BY <2>2 DEF vars, spools, spool
    <3>2. UNCHANGED <<stage, class, permit, upgrade_permit, origin_slot, attempts, outcome_recorded, released, outcomes>>
      BY <2>2 DEF vars, held, ctx
    <3>3. SpoolInv'
      BY <3>1 DEF ProxyInv, SpoolInv, SpoolTypes, SoundSpool
    <3>4. RequestInv'
      BY <3>1, <3>2 DEF ProxyInv, RequestInv, RequestTypes, AccountedFor
    <3>. QED
      BY <3>3, <3>4 DEF ProxyInv
  <2>. QED
    BY <2>1, <2>2 DEF Next
<1>. QED
  BY <1>1, <1>2, PTL DEF Spec

\* The memory budget is what the spools hold, within max_memory, and covers every
\* byte they took (SpoolBudget, ensure_reserved), for any number of requests and
\* any interleaving of claims and drops.
THEOREM BudgetIsExact == Spec => []BudgetExact
<1>1. ProxyInv => BudgetExact
  BY SpoolInvImplies DEF ProxyInv
<1>. QED
  BY <1>1, ProxyInvariant, PTL

\* No chunk is lost, repeated or reordered by the spool (offer, give_up, drain),
\* for any bodies and at whatever chunk it stops absorbing.
THEOREM BodyStaysInOrder == Spec => []BodyInOrder
<1>1. ProxyInv => BodyInOrder
  BY SpoolInvImplies DEF ProxyInv
<1>. QED
  BY <1>1, ProxyInvariant, PTL

\* Every attempt tells its breaker one outcome (record_origin_outcome), for any
\* number of attempts.
THEOREM OneOutcomeEach == Spec => []OneOutcomePerAttempt
<1>1. ProxyInv => OneOutcomePerAttempt
  BY DEF ProxyInv, RequestInv, AccountedFor, Accounted, OneOutcomePerAttempt
<1>. QED
  BY <1>1, ProxyInvariant, PTL

\* Origin work is counted for as long as it lasts, and a request that is over holds
\* nothing (upstream_peer, upstream_response_body_filter, logging).
THEOREM WorkStaysCounted == Spec => []WorkCounted
<1>1. ASSUME ProxyInv, NEW r \in Requests
      PROVE  /\ stage[r] \in {"waiting", "body"} => origin_slot[r]
             /\ stage[r] \in {"peer", "waiting", "late", "body"} =>
                   /\ class[r] = "render" => permit[r]
                   /\ class[r] = "upgrade" => upgrade_permit[r]
             /\ stage[r] = "idle" => ~permit[r] /\ ~upgrade_permit[r] /\ ~origin_slot[r] /\ pc[r] = Gone
  BY <1>1 DEF ProxyInv, RequestInv, AccountedFor, Accounted
<1>2. ASSUME ProxyInv, NEW r \in Requests, pc[r] = Gone PROVE reserved[r] = 0
  BY <1>2 DEF ProxyInv, SpoolInv, SoundSpool, Sound
<1>3. ProxyInv => WorkCounted
  BY <1>1, <1>2 DEF WorkCounted
<1>. QED
  BY <1>3, ProxyInvariant, PTL

\* A permit logged as released at the end of the origin's stream was returned
\* before any of the body went downstream (upstream_response_body_filter with
\* is_active).
THEOREM OriginEndIsHonest == Spec => OriginEndHonest
<1>. DEFINE Honest == \A r \in Requests :
              released'[r] = "origin_end" /\ released[r] = NotYet => out[r] = <<>> /\ out'[r] = <<>>
<1>1. ASSUME ProxyInv, [Next]_vars PROVE Honest
  <2>. SUFFICES ASSUME NEW q \in Requests, released'[q] = "origin_end", released[q] = NotYet
                PROVE  out[q] = <<>> /\ out'[q] = <<>>
    OBVIOUS
  <2>1. released' # released
    BY DEF NotYet
  <2>2. PICK r \in Requests : RequestFilter(r) \/ Callback(r) \/ Abort(r)
    BY <1>1, <2>1 DEF Next, vars, ctx
  <2>3. released \in [Requests -> {NotYet, "origin_end", "body_end"}]
    BY <1>1 DEF ProxyInv, RequestInv, RequestTypes
  <2>4. ~Logging(r)
    BY <2>3 DEF Logging, NewCtx, NotYet
  <2>5. Body(r)
    BY <2>1, <2>2, <2>4, Zenon DEF RequestFilter, Abort, Callback, Shed, Admit, UpstreamPeer, Fail, Header,
         LateHeader, BodyError, ServeStale, StaleBody, ResponseBodyFilter, Sent, ctx
  <2>6. released' = [released EXCEPT ![r] = ReleasedAt(r)]
    BY <2>1, <2>5 DEF Body, OnEndOfStream
  <2>7. q = r /\ ReleasedAt(r) = "origin_end"
    BY <2>3, <2>6 DEF NotYet
  <2>8. pc[r] # Gone /\ gave_up[r] = Active
    BY <2>7 DEF ReleasedAt, NotYet
  <2>9. out' = out
    BY <2>5, <2>8 DEF Body, Receive, spool
  <2>10. out[r] = <<>>
    BY <1>1, <2>8 DEF ProxyInv, SpoolInv, SoundSpool, Sound
  <2>. QED
    BY <2>7, <2>9, <2>10
<1>2. ASSUME UNCHANGED vars PROVE Honest
  BY <1>2 DEF vars, ctx, NotYet
<1>. QED
  BY <1>1, <1>2, ProxyInvariant, PTL DEF Spec, OriginEndHonest
=============================================================================
