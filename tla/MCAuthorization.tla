-------------------------- MODULE MCAuthorization ---------------------------
(* Two users of two companies, one department and one role: every relation *)
(* between caller and owner, tenant and tenant, grant and principal.       *)
EXTENDS Authorization, TLC

Symmetric == Permutations(Person) \cup Permutations(Company)
=============================================================================
