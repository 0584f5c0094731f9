----------------------------- MODULE MCDatapath -----------------------------
(* Small instances of Datapath for TLC. *)
EXTENDS DatapathRefinement, TLC

\* Two parameters in two registers, staged in either order (the controller
\* iterates over a Python set), or cut short by a field of another type.
AnyOrder == {<<1, 2>>, <<2, 1>>, <<1, BadType>>}

\* Both registers, the first one first.
InOrder == {<<1, 2>>}

\* One register only: the life cycle of connections matters.
OneRegister == {<<1>>}

Symmetry == Permutations(Socks) \cup Permutations(PrivStates)

=============================================================================
