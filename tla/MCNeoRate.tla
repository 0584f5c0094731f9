------------------------------ MODULE MCNeoRate ------------------------------
\* The sizes of NeoRate: no update, an empty one, each action, and a vector of a
\* length neo_set_params refuses.
EXTENDS NeoRate

Vectors == {<<>>, <<0>>, <<1>>, <<2>>, <<1, 2>>}
=============================================================================
