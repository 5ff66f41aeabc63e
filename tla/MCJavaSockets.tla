--------------------------- MODULE MCJavaSockets ----------------------------
(* Small instances of JavaSockets: two clients and the servers they are sent *)
(* to, with few handle numbers, so that they are reused.                     *)
EXTENDS JavaSockets, TLC

CONSTANTS h1, h2, h3, h4

\* The handles are interchangeable.
AnyHandles == Permutations(Handles)

\* Either one of the handles is free, whatever happens, or there are two
\* whole pairs: no handle number is given out a second time, no connection is
\* wedged and none resets.
FewHandlesOrQuiet ==
    \/ Free # {}
    \/ /\ reissued = {}
       /\ \A c \in ConnIds : ~processing[c] /\ peer[c] # "reset"
=============================================================================
