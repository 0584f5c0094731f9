------------------------- MODULE DatapathRefinement -------------------------
(* Datapath implements SlotTable, the promise of the connection table. *)
EXTENDS Datapath

CONSTANTS FreeSlot, LostSlot

ASSUME OwnerAssumption ==
    /\ FreeSlot \notin Socks
    /\ LostSlot \notin Socks
    /\ FreeSlot # LostSlot

\* A used slot belongs to the socket between the CAS that claims it and the
\* reset of its index, or else to nobody.
Owner(i) ==
    IF index[i] = 0 THEN FreeSlot
    ELSE IF HasOwner(i) THEN CHOOSE s \in Socks : pc[s] \in Owning /\ sid[s] = i
    ELSE LostSlot

Table == INSTANCE SlotTable WITH owner <- [i \in Slots |-> Owner(i)]

\* Scan, initialisation and release in several steps of several sockets look
\* like one claim, one loss or one release: in particular a slot passes from
\* one socket to another only through a step in which it is free.
ImplementsSlotTable == Table!Spec

=============================================================================
