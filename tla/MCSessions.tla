----------------------------- MODULE MCSessions -----------------------------
(* Small instances of Sessions: everything one user opens, in one order.    *)
EXTENDS Sessions

CONSTANTS u1
MCUser == {u1}
MCOwner == [s \in Session |-> u1]
=============================================================================
