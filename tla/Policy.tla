------------------------------- MODULE Policy -------------------------------
(***************************************************************************)
(* The deterministic authorization decision (core/authz): the rules table, *)
(* the five layers in their fixed order, and what counts as sensitive.     *)
(*                                                                         *)
(* A subject is the access context, cut to what a decision reads.  A       *)
(* resource is the descriptor: access attributes only, each None when it   *)
(* was not loaded.  Classification levels are their ranks.                 *)
(***************************************************************************)
EXTENDS Naturals, Sequences

CONSTANT None       \* Python's None

PUBLIC == 0
INTERNAL == 1
CONFIDENTIAL == 2
RESTRICTED == 3
Levels == PUBLIC .. RESTRICTED

Codes == {"hr:read_self", "hr:read_team", "hr:read_all", "audit:read"}
Kinds == {"HR_PROFILE", "HR_COMPENSATION", "DIRECT_REPORTS",
          "ACCESS_CONTEXT", "SESSION", "AUDIT_LOG"}
Conditions == {"NONE", "IS_SELF", "IS_DIRECT_REPORT"}
Scopes == {"SELF", "TEAM", "COMPANY", "NONE"}
Denials == {"TENANT_MISMATCH", "PERMISSION_MISSING", "NOT_IN_REPORTING_LINE",
            "ATTRIBUTE_MISMATCH", "ACL_DENIED", "CLASSIFICATION_TOO_HIGH",
            "CONTEXT_INCOMPLETE"}
Allows == {"ALLOWED_SELF", "ALLOWED_TEAM", "ALLOWED_ALL"}

ASSUME PolicyAssumption ==
    /\ None \notin Codes \cup Denials
    /\ None \notin 0 .. 5

Rule(code, condition, scope, reason) ==
    [permission |-> code, condition |-> condition, scope |-> scope, reason |-> reason]

Rules == [permission : Codes \cup {None}, condition : Conditions,
          scope : Scopes, reason : Allows]
KindPolicies == [rules : Seq(Rules), acl_gated : BOOLEAN, classified : BOOLEAN]

SelfRule(code) == Rule(code, "IS_SELF", "SELF", "ALLOWED_SELF")
AllRule(code) == Rule(code, "NONE", "COMPANY", "ALLOWED_ALL")
TeamRule(condition) == Rule("hr:read_team", condition, "TEAM", "ALLOWED_TEAM")

RulesOf(kind) ==
    CASE kind = "HR_PROFILE" ->
            <<SelfRule("hr:read_self"), TeamRule("IS_DIRECT_REPORT"), AllRule("hr:read_all")>>
      [] kind = "HR_COMPENSATION" -> <<AllRule("hr:read_all")>>
      [] kind = "DIRECT_REPORTS" -> <<TeamRule("IS_SELF")>>
      [] kind \in {"ACCESS_CONTEXT", "SESSION"} -> <<SelfRule(None)>>
      [] kind = "AUDIT_LOG" -> <<AllRule("audit:read")>>

\* The table: no kind of this feature has a resource ACL or a classification.
POLICIES(kind) == [rules |-> RulesOf(kind), acl_gated |-> FALSE, classified |-> FALSE]

-----------------------------------------------------------------------------
Deny(why, at) ==
    [allowed |-> FALSE, reason |-> why, layer |-> at, scope |-> "NONE",
     audit_required |-> TRUE, tenant_absent |-> why = "TENANT_MISMATCH"]

Held(s, p) == {i \in DOMAIN p.rules : p.rules[i].permission \in s.codes \cup {None}}

\* _condition_holds: three outcomes, the third when the owner was not loaded.
ConditionOutcome(c, s, r) ==
    IF \/ c = "NONE"
       \/ c = "IS_SELF" /\ r.owner # None /\ r.owner = s.user
       \/ c = "IS_DIRECT_REPORT" /\ r.owner # None /\ r.owner \in s.reports
    THEN "holds"
    ELSE IF r.owner = None THEN "unknown" ELSE "fails"

AclMatches(s, grants) ==
    \E g \in grants :
        /\ g.permission = "READ"
        /\ \/ g.type = "USER" /\ g.principal = s.user
           \/ g.type = "ROLE" /\ g.principal \in s.roles
           \/ g.type = "DEPARTMENT" /\ s.department # None /\ g.principal = s.department

-----------------------------------------------------------------------------
(* Each layer refuses with a reason, or lets through with None.            *)

TenantLayer(s, r) ==
    IF r.company = None THEN "CONTEXT_INCOMPLETE"
    ELSE IF r.company # s.company THEN "TENANT_MISMATCH" ELSE None

PermissionLayer(s, p) == IF Held(s, p) = {} THEN "PERMISSION_MISSING" ELSE None

\* The held rules whose condition comes out as o.
Coming(o, s, r, p) == {i \in Held(s, p) : ConditionOutcome(p.rules[i].condition, s, r) = o}

\* Faulty variant: the first held rule decides alone.
AttributeLayerOfFirstHeld(s, r, p) ==
    LET first == CHOOSE i \in Held(s, p) : \A j \in Held(s, p) : i <= j
        outcome == ConditionOutcome(p.rules[first].condition, s, r)
    IN  IF outcome = "holds" THEN None
        ELSE IF outcome = "unknown" THEN "CONTEXT_INCOMPLETE" ELSE "ATTRIBUTE_MISMATCH"

AttributeLayer(s, r, p) ==
    IF Coming("holds", s, r, p) # {} THEN None
    ELSE IF Coming("unknown", s, r, p) # {} THEN "CONTEXT_INCOMPLETE"
    ELSE IF \E i \in Held(s, p) : p.rules[i].condition = "IS_DIRECT_REPORT"
         THEN "NOT_IN_REPORTING_LINE"
    ELSE "ATTRIBUTE_MISMATCH"

AclLayer(s, r, p) ==
    IF ~p.acl_gated THEN None
    ELSE IF r.grants = None THEN "CONTEXT_INCOMPLETE"
    ELSE IF ~AclMatches(s, r.grants) THEN "ACL_DENIED" ELSE None

ClassificationLayer(s, r, p) ==
    IF ~p.classified THEN None
    ELSE IF r.classification = None THEN "CONTEXT_INCOMPLETE"
    ELSE IF /\ r.classification = RESTRICTED
            /\ ~(r.owner # None /\ r.owner = s.user)
            /\ ~(r.grants # None /\ AclMatches(s, r.grants))
         THEN "CLASSIFICATION_TOO_HIGH" ELSE None

\* Faulty variant: compensation is sensitive when it is somebody else's.
IsSensitiveOfOthers(s, kind, r) ==
    \/ kind = "AUDIT_LOG"
    \/ r.classification # None /\ r.classification > INTERNAL
    \/ kind \in {"HR_PROFILE", "HR_COMPENSATION"} /\ r.owner # None /\ r.owner # s.user

IsSensitive(s, kind, r) ==
    \/ kind \in {"HR_COMPENSATION", "AUDIT_LOG"}
    \/ r.classification # None /\ r.classification > INTERNAL
    \/ kind = "HR_PROFILE" /\ r.owner # s.user

\* The first held rule whose condition holds.
Chosen(s, r, p) ==
    LET passing == Coming("holds", s, r, p)
    IN p.rules[CHOOSE i \in passing : \A j \in passing : i <= j]

Allow(s, kind, r, p) ==
    [allowed |-> TRUE, reason |-> Chosen(s, r, p).reason, layer |-> None,
     scope |-> Chosen(s, r, p).scope,
     audit_required |-> IsSensitive(s, kind, r), tenant_absent |-> FALSE]

\* Faulty variant: RBAC is consulted before the tenant boundary.
EvaluateWithRbacFirst(s, kind, r, p) ==
    IF PermissionLayer(s, p) # None THEN Deny(PermissionLayer(s, p), 2)
    ELSE IF TenantLayer(s, r) # None THEN Deny(TenantLayer(s, r), 1)
    ELSE IF AttributeLayer(s, r, p) # None THEN Deny(AttributeLayer(s, r, p), 3)
    ELSE IF AclLayer(s, r, p) # None THEN Deny(AclLayer(s, r, p), 4)
    ELSE IF ClassificationLayer(s, r, p) # None THEN Deny(ClassificationLayer(s, r, p), 5)
    ELSE Allow(s, kind, r, p)

EvaluateWith(s, kind, r, p) ==
    IF TenantLayer(s, r) # None THEN Deny(TenantLayer(s, r), 1)
    ELSE IF PermissionLayer(s, p) # None THEN Deny(PermissionLayer(s, p), 2)
    ELSE IF AttributeLayer(s, r, p) # None THEN Deny(AttributeLayer(s, r, p), 3)
    ELSE IF AclLayer(s, r, p) # None THEN Deny(AclLayer(s, r, p), 4)
    ELSE IF ClassificationLayer(s, r, p) # None THEN Deny(ClassificationLayer(s, r, p), 5)
    ELSE Allow(s, kind, r, p)

Evaluate(s, kind, r) == EvaluateWith(s, kind, r, POLICIES(kind))
=============================================================================
