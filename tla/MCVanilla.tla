----------------------------- MODULE MCVanilla -----------------------------
(* Small numbers for the runs of Vanilla: a quarter of a segment is the unit. *)
EXTENDS Vanilla

Defaults == [alpha |-> 1, beta |-> 1, gamma |-> 1, delta |-> 3]

\* No update, two accepted vectors, one with a zero, one too long, and one whose
\* first value only passes because it is cut to 16 bits.
Vectors == {<<>>, <<4, 3, 3, 2>>, <<2, 4, 1, 4>>, <<1, 0, 1, 1>>, <<1, 1, 1, 1, 1>>,
            <<65537, 2, 1, 1>>}
=============================================================================
