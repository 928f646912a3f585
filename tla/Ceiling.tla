------------------------------ MODULE Ceiling ------------------------------
(***************************************************************************)
(* What a limiter promises, without its semaphore and its queue: requests  *)
(* are admitted while there is room, a raised ceiling first forgives what  *)
(* is owed, a lowered one owes what it cannot take back at once, and what  *)
(* is returned pays that debt.                                             *)
(***************************************************************************)
EXTENDS Integers, FiniteSets, FiniteSetsExt

CONSTANTS Requests, MaxWeight, Weight, Limits

VARIABLES limit, debt, holders

\* Units of the ceiling occupied by a set of requests.
Load(H) == Cardinality({u \in H \X (1 .. MaxWeight) : u[2] <= Weight[u[1]]})

Room == limit + debt - Load(holders)

Init == limit \in Limits /\ debt = 0 /\ holders = {}

Admit(r) ==
    /\ r \notin holders /\ Room >= Weight[r]
    /\ holders' = holders \cup {r}
    /\ UNCHANGED <<limit, debt>>

Return(r) ==
    /\ r \in holders
    /\ holders' = holders \ {r}
    /\ debt' = debt - Min({debt, Weight[r]})
    /\ UNCHANGED limit

\* A request cancelled before it saw its permit leaves without paying debt.
Withdraw(r) ==
    /\ r \in holders
    /\ holders' = holders \ {r}
    /\ UNCHANGED <<limit, debt>>

\* Of the units that are not held, a shrink may miss those set aside for
\* requests still waiting for the rest of their weight.
Resize(n) ==
    /\ \/ n > limit /\ debt' = debt - Min({debt, n - limit})
       \/ /\ n < limit
          /\ \E forgotten \in 0 .. Min({Room, limit - n}) :
                debt' = debt + (limit - n - forgotten)
    /\ limit' = n
    /\ UNCHANGED holders

Next ==
    \/ \E r \in Requests : Admit(r) \/ Return(r) \/ Withdraw(r)
    \/ \E n \in Limits : Resize(n)

Spec == Init /\ [][Next]_<<limit, debt, holders>>
=============================================================================
