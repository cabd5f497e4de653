---------------------------- MODULE MCDiscovery ----------------------------
(* Discovery of one or two services.                                       *)
EXTENDS Discovery

CONSTANTS n1, n2
=============================================================================
