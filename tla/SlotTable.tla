------------------------------ MODULE SlotTable ------------------------------
(***************************************************************************)
(* What libspine's connection table promises the sockets that use it, with *)
(* every operation in one step: a slot is free, held by one socket, or     *)
(* lost.  A slot changes hands only by being free in between.  A slot is   *)
(* lost when spine_connection_start claims it and then reports failure; no *)
(* socket holds it and nothing brings it back.                             *)
(***************************************************************************)
CONSTANTS Socks, Slots,
    FreeSlot, LostSlot     \* two further values, no sockets

VARIABLE owner   \* [Slots -> Socks \cup {FreeSlot, LostSlot}]

Init == owner = [i \in Slots |-> FreeSlot]

Holds(s) == \E i \in Slots : owner[i] = s

\* A socket that holds no slot takes a free one.
Claim(s, i) ==
    /\ owner[i] = FreeSlot
    /\ ~Holds(s)
    /\ owner' = [owner EXCEPT ![i] = s]

\* The start that claims slot i reports failure, at once or later.
Lose(i) ==
    /\ owner[i] # LostSlot
    /\ owner' = [owner EXCEPT ![i] = LostSlot]

Release(s, i) ==
    /\ owner[i] = s
    /\ owner' = [owner EXCEPT ![i] = FreeSlot]

Next ==
    \E i \in Slots :
        \/ \E s \in Socks : Claim(s, i) \/ Release(s, i)
        \/ Lose(i)

Spec == Init /\ [][Next]_owner

=============================================================================
