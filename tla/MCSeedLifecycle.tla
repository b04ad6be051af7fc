-------------------------- MODULE MCSeedLifecycle ---------------------------
(* A full dataset of two documents and a smoke one of the first of them.   *)
EXTENDS SeedLifecycle, TLC

CONSTANTS full, smoke, f1, f2

Documents == full :> {f1, f2} @@ smoke :> {f1}
Operators == Permutations(Op)
=============================================================================
