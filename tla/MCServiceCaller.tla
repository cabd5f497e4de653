--------------------------- MODULE MCServiceCaller ---------------------------
\* Small instances of ServiceCaller for TLC.
EXTENDS ServiceCaller, TLC

CONSTANTS c1, c2, c3

\* Calls differ in nothing but their name.
CallSymmetry == Permutations(Calls)
=============================================================================
