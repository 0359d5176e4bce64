----------------------------- MODULE MCConsole ------------------------------
(* Two identities at one browser; one of them has two runs, or one and     *)
(* starts the other, the other one has none to see.                        *)
EXTENDS Console, TLC

CONSTANTS ann, bob, a1, a2

MCTenantOf == (a1 :> ann) @@ (a2 :> ann)
MCInit == Init /\ version[a1] = 1
MCSpec == MCInit /\ [][Next]_vars
MCFairSpec == MCSpec /\ Fairness
=============================================================================
