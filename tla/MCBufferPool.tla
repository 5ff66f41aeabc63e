---------------------------- MODULE MCBufferPool ----------------------------
(* A small instance of BufferPool.  With two sizes a released buffer may be  *)
(* too small: connections and inflated packets ask for the large size,       *)
(* everything else for the small one.                                        *)
EXTENDS BufferPool

TwoSizes ==
    [p \in Purposes |-> IF p \in {"client", "server", "inflated"} THEN {2} ELSE {1}]

Grown == {b \in Buffers : pool[b].cap # pool[b].born}

\* One buffer grows in a pool of two, none in a larger one; two are released
\* early in a pool of three, none in a larger one.
LittleGrowth ==
    /\ Cardinality(Grown) <= IF Len(pool) <= 2 THEN 1 ELSE 0
    /\ Cardinality(early) <= IF Len(pool) <= 3 THEN 2 ELSE 0
=============================================================================
