---------------------------- MODULE MCClaimStore ----------------------------
EXTENDS ClaimStore

CONSTANTS h1, h2

MCHolder == {h1, h2}

\* An umbrella target, a descendant of it and an unrelated target.
MCTarget == {<<"graph">>, <<"graph", "app">>, <<"law">>}

\* A retry may find another batch.  The first holder's {graph} and the second's
\* {law} are compatible; every other pair conflicts.
TwoBatches ==
    (h1 :> {{<<"graph">>}, {<<"graph", "app">>, <<"law">>}}) @@
    (h2 :> {{<<"graph">>}, {<<"law">>}})
=============================================================================
