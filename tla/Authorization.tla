--------------------------- MODULE Authorization ----------------------------
(***************************************************************************)
(* The decision as its inputs change: a caller is granted a permission     *)
(* code, and a descriptor or a context arrives with an attribute missing,  *)
(* the way a query that forgot a column would build it.  evaluate_with has *)
(* no state, so the decision is a function of the four variables.  The     *)
(* layers no kind of the table uses are switched on here, as the engine's  *)
(* own tests do.                                                           *)
(***************************************************************************)
EXTENDS Policy, FiniteSets

CONSTANTS Person, Company, Department, Role,
          MaxGrants,    \* bounds of the checked instance: grants on one resource
          MaxReports    \* and reports of the caller

ASSUME AuthorizationAssumption ==
    /\ MaxGrants \in Nat
    /\ MaxReports \in Nat
    /\ None \notin Person \cup Company \cup Department \cup Role

VARIABLES subject, kind, resource, policy
inputs == <<subject, kind, resource, policy>>

Permissions == {"READ", "WRITE"}
Grants == [type : {"USER"}, principal : Person, permission : Permissions]
          \cup [type : {"ROLE"}, principal : Role, permission : Permissions]
          \cup [type : {"DEPARTMENT"}, principal : Department, permission : Permissions]

Subjects == [user : Person, company : Company, department : Department \cup {None},
             roles : SUBSET Role, codes : SUBSET Codes, reports : SUBSET Person]

Resources == [company : Company \cup {None}, owner : Person \cup {None},
              classification : Levels \cup {None}, grants : (SUBSET Grants) \cup {None}]

\* The rules of a kind, with the layers it does or does not have.
PoliciesOf(k) ==
    [rules : {POLICIES(k).rules}, acl_gated : BOOLEAN, classified : BOOLEAN]

Decisions ==
    {d \in [allowed : BOOLEAN, reason : Allows \cup Denials, layer : 1 .. 5 \cup {None},
            scope : Scopes, audit_required : BOOLEAN, tenant_absent : BOOLEAN] :
        /\ d.allowed <=> d.layer = None
        /\ d.allowed <=> d.reason \in Allows
        /\ ~d.allowed => d.audit_required /\ d.scope = "NONE"
        /\ d.tenant_absent <=> d.reason = "TENANT_MISMATCH"
        /\ d.tenant_absent => d.layer = 1}

decision == EvaluateWith(subject, kind, resource, policy)

\* The inputs have the types of AccessContext, ResourceDescriptor and
\* KindPolicy, and the decision is one an API handler can act on: a status of
\* 404 is asked for a foreign tenant alone (core authz/decision.py).
DecideTypeOK ==
    /\ subject \in Subjects
    /\ kind \in Kinds
    /\ resource \in Resources
    /\ policy \in PoliciesOf(kind)
    /\ decision \in Decisions

\* Nobody is his own manager (users_not_own_manager).
DecideInit ==
    /\ subject \in {s \in Subjects :
           /\ s.codes = {}
           /\ s.user \notin s.reports
           /\ Cardinality(s.reports) <= MaxReports}
    /\ kind \in Kinds
    /\ resource \in {[company |-> c, owner |-> o, classification |-> l, grants |-> g] :
                        c \in Company, o \in Person, l \in Levels,
                        g \in {gs \in SUBSET Grants : Cardinality(gs) <= MaxGrants}}
    /\ policy \in PoliciesOf(kind)

\* A role that carries the code is given to the caller.
Grant(code) ==
    /\ code \notin subject.codes
    /\ subject' = [subject EXCEPT !.codes = @ \cup {code}]
    /\ UNCHANGED <<kind, resource, policy>>

\* The same descriptor from a query that does not select the attribute.
Forget(attribute) ==
    /\ resource[attribute] # None
    /\ resource' = [resource EXCEPT ![attribute] = None]
    /\ UNCHANGED <<subject, kind, policy>>

ForgetDepartment ==
    /\ subject.department # None
    /\ subject' = [subject EXCEPT !.department = None]
    /\ UNCHANGED <<kind, resource, policy>>

Forgets ==
    \/ \E attribute \in {"company", "owner", "classification", "grants"} : Forget(attribute)
    \/ ForgetDepartment

DecideNext ==
    \/ \E code \in Codes : Grant(code)
    \/ Forgets

DecideSpec == DecideInit /\ [][DecideNext]_inputs

-----------------------------------------------------------------------------
(* How far a request gets: past every layer before the one that refuses.   *)
Reach(d) == IF d.allowed THEN 6 ELSE d.layer

Passes(layer) ==
    /\ layer = 1 => TenantLayer(subject, resource) = None
    /\ layer = 2 => PermissionLayer(subject, policy) = None
    /\ layer = 3 => AttributeLayer(subject, resource, policy) = None
    /\ layer = 4 => AclLayer(subject, resource, policy) = None
    /\ layer = 5 => ClassificationLayer(subject, resource, policy) = None

\* FR-013: a request that fails several layers is refused by the earliest, and
\* one that is allowed fails none (policy.py evaluate_with).
EarliestLayer ==
    /\ \A l \in 1 .. 5 : l < Reach(decision) => Passes(l)
    /\ ~decision.allowed => ~Passes(decision.layer)

\* FR-017a: the only allows that leave no entry are a caller's reads of what is
\* his own, and never of compensation (rules.py and sensitivity.py together).
SilentReadsAreOwn ==
    decision.allowed /\ ~decision.audit_required =>
        resource.owner = subject.user /\ kind # "HR_COMPENSATION"

\* A code more is never a refusal more: alternatives are alternatives, and a
\* rule that fails does not hide a later one (policy.py, the loop of layer 3).
CodesOnlyHelp ==
    [][\A code \in Codes : Grant(code) => Reach(decision)' >= Reach(decision)]_inputs

\* An attribute that was not loaded never gets a request further than the same
\* request with the attribute (decision.py: "a forgotten query").
MissingNeverHelps ==
    [][Forgets => Reach(decision)' <= Reach(decision)]_inputs

\* Codes only ever help, and what is missing never does.
AnswersMonotone == CodesOnlyHelp /\ MissingNeverHelps
=============================================================================
