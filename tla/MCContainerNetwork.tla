------------------------- MODULE MCContainerNetwork -------------------------
EXTENDS ContainerNetwork, TLC

CONSTANTS c1, c2, p1, p2

\* One of the two assignments; the other differs in names only.
MCStartPids == c1 :> p1 @@ c2 :> p2
=============================================================================
