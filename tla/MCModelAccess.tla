--------------------------- MODULE MCModelAccess ----------------------------
(* Two worker processes, one of them with a second thread that asks. *)
EXTENDS ModelAccess, TLC

CONSTANTS c1, c2, c3, p1, p2

MCProcessOf == (c1 :> p1) @@ (c2 :> p1) @@ (c3 :> p2)
=============================================================================
