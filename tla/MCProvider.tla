----------------------------- MODULE MCProvider -----------------------------
(* Values for the constants of Provider.                                   *)
EXTENDS Provider, TLC

CONSTANTS a, b, t, s, r

\* The callback calls a service whose handler calls the other one.
NestedValue == (t :> s) @@ (s :> r) @@ (r :> NoService)

ChangingValue == {<<b, r>>}

ScriptValue == (<<a, b>> :> <<t, s, t>>) @@ (<<b, a>> :> <<s, t>>)

FragileValue == {<<a, b>>}
=============================================================================
