--------------------------- MODULE MCRefusalAudit ---------------------------
(* One address: addresses share no key and no row, only the event loop,     *)
(* whose delays the stall stands for.                                       *)
EXTENDS RefusalAudit
=============================================================================
