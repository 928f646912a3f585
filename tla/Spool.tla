-------------------------------- MODULE Spool --------------------------------
(***************************************************************************)
(* The response spools and their shared memory budget                      *)
(* (src/proxy/spool.rs, src/proxy/mod.rs response_body_filter).  Requests  *)
(* absorb body chunks until the body ends, outgrows max_body, or the       *)
(* budget refuses; a budget claim is a load and a compare-exchange, which  *)
(* other requests' claims and releases may come between.  Module Proxy     *)
(* drives the spools through the lives of their requests.                  *)
(***************************************************************************)
EXTENDS Integers, FiniteSets, Sequences, Functions

CONSTANTS
    Requests,
    limit,              \* spool.max_memory
    max_body,
    RESERVE_STEP,
    MaxLen, MaxChunks   \* bounds: length of a chunk, chunks of a body

ASSUME SpoolAssumption ==
    /\ IsFiniteSet(Requests)
    /\ limit \in Nat /\ max_body \in Nat /\ RESERVE_STEP \in Nat \ {0}
    /\ MaxLen \in Nat /\ MaxChunks \in Nat

VARIABLES
    used,                       \* SpoolBudget::used
    pc, seen, eos,              \* of each request: control, observed `used`, end_of_stream
    len,                        \* lengths of the chunks offered so far
    buffer, reserved, gave_up,  \* its Spool; chunks are known by their numbers
    out                         \* chunks written downstream

spool == <<buffer, reserved, gave_up, out>>
spools == <<used, pc, seen, eos, len, spool>>

Active == "active"
Gone == "gone"

Least(x, y) == IF x < y THEN x ELSE y

\* The length of some chunks: a byte is known by its chunk and its place there.
Bytes(r, chunks) ==
    Cardinality({b \in Range(chunks) \X (1 .. MaxLen) : b[2] <= len[r][b[1]]})

SpoolInit ==
    /\ used = 0
    /\ pc = [r \in Requests |-> Gone] /\ seen = [r \in Requests |-> 0]
    /\ eos = [r \in Requests |-> FALSE] /\ len = [r \in Requests |-> <<>>]
    /\ buffer = [r \in Requests |-> <<>>] /\ reserved = [r \in Requests |-> 0]
    /\ gave_up = [r \in Requests |-> Active] /\ out = [r \in Requests |-> <<>>]

-----------------------------------------------------------------------------
(* offer.  The chunk in hand is the last one offered. *)

Chunk(r) == Len(len[r])

Goto(r, next) == pc' = [pc EXCEPT ![r] = next]

\* A chunk arrives, or only the end of the body does.
Receive(r) ==
    /\ pc[r] = "body" /\ ~eos[r]
    /\ \E end \in BOOLEAN : eos' = [eos EXCEPT ![r] = end]
    /\ \/ /\ Chunk(r) < MaxChunks
          /\ \E n \in 1 .. MaxLen : len' = [len EXCEPT ![r] = Append(@, n)]
          /\ Goto(r, "offer")
       \/ eos'[r] /\ UNCHANGED len /\ Goto(r, "end")
    /\ UNCHANGED <<used, seen, spool>>

\* A flush without the chunk that did not fit.
GiveUpDropsChunk(r, why) ==
    /\ gave_up' = [gave_up EXCEPT ![r] = why]
    /\ out' = [out EXCEPT ![r] = @ \o buffer[r]]
    /\ buffer' = [buffer EXCEPT ![r] = <<>>]
    /\ Goto(r, "body")
    /\ UNCHANGED reserved

\* give_up: what was buffered, then the chunk that did not fit.
GiveUp(r, why) ==
    /\ gave_up' = [gave_up EXCEPT ![r] = why]
    /\ out' = [out EXCEPT ![r] = Append(@ \o buffer[r], Chunk(r))]
    /\ buffer' = [buffer EXCEPT ![r] = <<>>]
    /\ Goto(r, "body")
    /\ UNCHANGED reserved

Needed(r) == Bytes(r, Append(buffer[r], Chunk(r)))

\* ensure_reserved asks for whole steps, but for no more than the body may hold.
Step(r) ==
    LET rounded == ((Needed(r) - reserved[r] + RESERVE_STEP - 1) \div RESERVE_STEP) * RESERVE_STEP
    IN  Least(rounded, max_body - reserved[r])

PassThrough(r) ==
    /\ pc[r] = "offer" /\ gave_up[r] # Active
    /\ out' = [out EXCEPT ![r] = Append(@, Chunk(r))]
    /\ Goto(r, "body")
    /\ UNCHANGED <<used, seen, eos, len, buffer, reserved, gave_up>>

TooLarge(r) ==
    /\ pc[r] = "offer" /\ gave_up[r] = Active /\ Needed(r) > max_body
    /\ GiveUp(r, "body_too_large")
    /\ UNCHANGED <<used, seen, eos, len>>

Absorb(r) ==
    /\ buffer' = [buffer EXCEPT ![r] = Append(@, Chunk(r))]
    /\ Goto(r, "end")
    /\ UNCHANGED <<gave_up, out>>

AlreadyReserved(r) ==
    /\ pc[r] = "offer" /\ gave_up[r] = Active /\ Needed(r) <= max_body /\ Needed(r) <= reserved[r]
    /\ Absorb(r)
    /\ UNCHANGED <<used, seen, eos, len, reserved>>

-----------------------------------------------------------------------------
(* SpoolBudget::reserve *)

\* What a loaded or observed value of `used` leads to.
Observe(r) ==
    IF used + Step(r) <= limit
    THEN seen' = [seen EXCEPT ![r] = used] /\ Goto(r, "cas") /\ UNCHANGED spool
    ELSE GiveUp(r, "budget_exhausted") /\ seen' = [seen EXCEPT ![r] = 0]

Load(r) ==
    /\ pc[r] = "offer" /\ gave_up[r] = Active
    /\ Needed(r) <= max_body /\ Needed(r) > reserved[r]
    /\ Observe(r)
    /\ UNCHANGED <<used, eos, len>>

\* A store of the sum instead of the exchange.
ExchangeBlindly(r) ==
    /\ pc[r] = "cas"
    /\ used' = seen[r] + Step(r)
    /\ reserved' = [reserved EXCEPT ![r] = @ + Step(r)]
    /\ Absorb(r)
    /\ UNCHANGED <<seen, eos, len>>

\* compare_exchange_weak may also fail when the value is the expected one.
Exchange(r) ==
    /\ pc[r] = "cas"
    /\ \/ /\ used = seen[r]
          /\ used' = used + Step(r)
          /\ reserved' = [reserved EXCEPT ![r] = @ + Step(r)]
          /\ Absorb(r)
          /\ seen' = [seen EXCEPT ![r] = 0]
       \/ Observe(r) /\ UNCHANGED used
    /\ UNCHANGED <<eos, len>>

\* At the end of the body a spool that is still absorbing hands over its buffer
\* and keeps the reservation.
End(r) ==
    /\ pc[r] = "end"
    /\ IF eos[r] /\ gave_up[r] = Active
       THEN /\ gave_up' = [gave_up EXCEPT ![r] = "complete"]
            /\ out' = [out EXCEPT ![r] = @ \o buffer[r]]
            /\ buffer' = [buffer EXCEPT ![r] = <<>>]
       ELSE UNCHANGED <<buffer, gave_up, out>>
    /\ Goto(r, "body")
    /\ UNCHANGED <<used, seen, eos, len, reserved>>

\* Between two chunks a spool can be dropped.
Idle(r) == pc[r] \in {"body", Gone}

\* The spool is dropped with its request: the whole reservation goes back.
Drop(r) ==
    /\ used' = used - reserved[r] /\ reserved' = [reserved EXCEPT ![r] = 0]
    /\ Goto(r, Gone)
    /\ eos' = [eos EXCEPT ![r] = FALSE] /\ len' = [len EXCEPT ![r] = <<>>]
    /\ gave_up' = [gave_up EXCEPT ![r] = Active]
    /\ buffer' = [buffer EXCEPT ![r] = <<>>] /\ out' = [out EXCEPT ![r] = <<>>]
    /\ UNCHANGED seen

\* A spool for a request that was admitted.
New(r) == Goto(r, "body") /\ UNCHANGED <<used, seen, eos, len, spool>>

\* One step of offer.
Offer(r) ==
    PassThrough(r) \/ TooLarge(r) \/ AlreadyReserved(r) \/ Load(r) \/ Exchange(r) \/ End(r)
-----------------------------------------------------------------------------
(* Properties *)

\* The bytes the spools have claimed, each with its owner.
Claims == {u \in Requests \X (1 .. max_body) : u[2] <= reserved[u[1]]}

\* The budget is exactly what the spools hold and never passes max_memory, with
\* any number of claims and drops in between (reserve, release_all).  Bytes a
\* spool has taken stay paid for until the request is over, in the buffer and
\* after the flush, when the slow client still has to read them ("Deliberately
\* not releasing here", drain).
BudgetExact ==
    /\ used = Cardinality(Claims)
    /\ used <= limit
    /\ \A r \in Requests :
          /\ reserved[r] >= Bytes(r, buffer[r])
          /\ gave_up[r] = "complete" /\ pc[r] # Gone => reserved[r] >= Bytes(r, out[r])

\* Neither flushing nor giving up loses, repeats or reorders a chunk: what went
\* downstream and what is buffered make up the body as it was received.
BodyInOrder ==
    \A r \in Requests :
       pc[r] = "body" => out[r] \o buffer[r] = [i \in 1 .. Chunk(r) |-> i]
==============================================================================
