----------------------------- MODULE MCRetrieval ----------------------------
EXTENDS Retrieval, TLC

CONSTANTS A, B, ann, eve, Lead, D1, D2, EG, handbook, plan, draft, secret, foreign,
          leave, v1, v2, t1, t2

MCCompany == {A, B}
MCUser == {ann, eve}
MCRole == {Lead}
MCDepartment == {D1, D2}
MCCountry == {EG}
MCDocument == {handbook, plan, draft, secret, foreign}
MCQuestion == {leave}
MCVersion == {v1, v2}
MCTurn == {t1, t2}

Payload(company, level, owner, department, roles) ==
    [company |-> company, classification |-> level, owner |-> owner,
     department |-> department, country |-> IF department = D1 THEN EG ELSE None,
     allowed_roles |-> roles]

\* The handbook is company-wide, the plan a department's, the draft somebody's
\* own, the secret above the ceiling, the last of another tenant.
MCMeta == handbook :> Payload(A, PUBLIC, None, None, {})
          @@ plan :> Payload(A, INTERNAL, None, D1, {Lead})
          @@ draft :> Payload(A, INTERNAL, ann, D2, {})
          @@ secret :> Payload(A, RESTRICTED, ann, None, {Lead})
          @@ foreign :> Payload(B, PUBLIC, None, None, {})

MCContents == v1 :> {handbook, plan, draft, secret, foreign} @@ v2 :> {plan, secret, foreign}

Person(company, user, department, roles, codes) ==
    [company |-> company, user |-> user, department |-> department,
     country |-> IF department = D1 THEN EG ELSE None, roles |-> roles, codes |-> codes]

\* One leaves a department for a role and comes back, the other is of the other
\* company.
MCStaff == ann :> {Person(A, ann, D1, {}, {}), Person(A, ann, None, {Lead}, {})}
           @@ eve :> {Person(B, eve, D1, {}, {})}

Read(type, principal) == [type |-> type, principal |-> principal, permission |-> "READ"]
MCShares == [d \in MCDocument |->
    IF d = draft THEN {{}, {Read("DEPARTMENT", D1)}}
    ELSE IF d = foreign THEN {{Read("USER", ann)}} ELSE {{}}]

Symmetry == Permutations(MCTurn)

MCBodies == {None, 6, 7}
=============================================================================
