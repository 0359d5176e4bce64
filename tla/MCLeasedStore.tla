--------------------------- MODULE MCLeasedStore ---------------------------
(* A small store: two jobs of one run, so that two workers can work on the  *)
(* same run under different jobs.                                           *)
EXTENDS LeasedStore, TLC

MCRunOf == [j \in Job |-> CHOOSE r \in Run : TRUE]
MCBackoff == [a \in 1..MaxAttempts |-> 1]

Symmetry == Permutations(Worker) \union Permutations(Client)
=============================================================================
