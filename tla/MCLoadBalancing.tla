--------------------------- MODULE MCLoadBalancing ---------------------------
\* Small instances of LoadBalancing for TLC.
EXTENDS LoadBalancing, TLC

CONSTANTS n1, n2, n3, t1, s1

\* n1 and n2 have one name, n3 another.
TwoNames == (n1 :> 1) @@ (n2 :> 1) @@ (n3 :> 2)
=============================================================================
