----------------------------- MODULE MCVersion -----------------------------
(***************************************************************************)
(* Instances of Version for TLC: two versioned pages with memory behind    *)
(* them, one page the stack grows into, and the top page of the stack.     *)
(***************************************************************************)
EXTENDS Version

CONSTANTS s1, s2

\* A buffer with its own version, one across the page boundary, and a buffer
\* that is given up.
MCSetCalls == {<<0, 2, 1>>, <<2, 4, 1>>, <<0, 2, 0>>}

\* An ordinary instruction of two bytes, one like movzbl, one like a vector
\* move, and one XED does not decode.
MCShapes == {<<2, 2>>, <<1, 2>>, <<2, 1>>, <<1, 0>>}
Ordinary == {<<2, 2>>}
=============================================================================
