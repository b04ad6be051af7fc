---------------------------- MODULE AccessProofs ----------------------------
(***************************************************************************)
(* Proofs about who may read what: the authorization decision              *)
(* (Authorization), for every set of people, companies, departments and    *)
(* roles and every resource, and protected requests (Enforcement), for     *)
(* every number of requests, users, connections and threads and every      *)
(* sequence of record changes.                                             *)
(***************************************************************************)
EXTENDS Authorization, Enforcement, TLAPS

(***************************************************************************)
(* The decision.                                                           *)
(***************************************************************************)
\* A reason to refuse is never the None that lets a request through.
LEMMA ReasonsAreNotNone == \A d \in Denials : d # None
  BY PolicyAssumption DEF Denials

\* How far a request gets is read off the layers, in their order.
LEMMA ReachByLayers ==
  ASSUME NEW s, NEW k, NEW r, NEW p
  PROVE  Reach(EvaluateWith(s, k, r, p)) =
           IF TenantLayer(s, r) # None THEN 1
           ELSE IF PermissionLayer(s, p) # None THEN 2
           ELSE IF AttributeLayer(s, r, p) # None THEN 3
           ELSE IF AclLayer(s, r, p) # None THEN 4
           ELSE IF ClassificationLayer(s, r, p) # None THEN 5
           ELSE 6
  BY DEF Reach, EvaluateWith, Deny, Allow

\* A request whose counterpart passes every layer it passes gets no further
\* than the counterpart.
LEMMA LayerByLayer ==
  ASSUME NEW s, NEW k, NEW r, NEW p, NEW s2, NEW r2,
         TenantLayer(s, r) = None => TenantLayer(s2, r2) = None,
         PermissionLayer(s, p) = None => PermissionLayer(s2, p) = None,
         AttributeLayer(s, r, p) = None => AttributeLayer(s2, r2, p) = None,
         AclLayer(s, r, p) = None => AclLayer(s2, r2, p) = None,
         ClassificationLayer(s, r, p) = None => ClassificationLayer(s2, r2, p) = None
  PROVE  Reach(EvaluateWith(s, k, r, p)) <= Reach(EvaluateWith(s2, k, r2, p))
  BY ReachByLayers

-----------------------------------------------------------------------------
(* The types.                                                              *)

InputsTyped ==
    /\ subject \in Subjects
    /\ kind \in Kinds
    /\ resource \in Resources
    /\ policy \in PoliciesOf(kind)

\* Every kind's rules are a sequence of rules.
LEMMA RulesTyped ==
  ASSUME NEW k \in Kinds, NEW p \in PoliciesOf(k)
  PROVE  /\ p.rules = RulesOf(k)
         /\ p.rules \in Seq(Rules)
         /\ DOMAIN p.rules \subseteq 1 .. 3
         /\ p.acl_gated \in BOOLEAN
         /\ p.classified \in BOOLEAN
<1>1. RulesOf(k) \in Seq(Rules) /\ DOMAIN RulesOf(k) \subseteq 1 .. 3
  <2>1. SelfRule("hr:read_self") \in Rules /\ SelfRule(None) \in Rules
    BY DEF SelfRule, Rule, Rules, Codes, Conditions, Scopes, Allows
  <2>2. AllRule("hr:read_all") \in Rules /\ AllRule("audit:read") \in Rules
    BY DEF AllRule, Rule, Rules, Codes, Conditions, Scopes, Allows
  <2>3. TeamRule("IS_DIRECT_REPORT") \in Rules /\ TeamRule("IS_SELF") \in Rules
    BY DEF TeamRule, Rule, Rules, Codes, Conditions, Scopes, Allows
  <2>4. CASE k = "HR_PROFILE"
    BY <2>1, <2>2, <2>3, <2>4 DEF RulesOf
  <2>5. CASE k = "HR_COMPENSATION"
    BY <2>2, <2>5 DEF RulesOf
  <2>6. CASE k = "DIRECT_REPORTS"
    BY <2>3, <2>6 DEF RulesOf
  <2>7. CASE k \in {"ACCESS_CONTEXT", "SESSION"}
    BY <2>1, <2>7 DEF RulesOf
  <2>8. CASE k = "AUDIT_LOG"
    BY <2>2, <2>8 DEF RulesOf
  <2> QED
    BY <2>4, <2>5, <2>6, <2>7, <2>8 DEF Kinds
<1> QED
  BY <1>1 DEF PoliciesOf, POLICIES

\* The rule that decides an allow is one of the kind's rules that the caller
\* holds and whose condition holds.
LEMMA ChosenPasses ==
  ASSUME NEW s, NEW r, NEW p, p.rules \in Seq(Rules), DOMAIN p.rules \subseteq 1 .. 3,
         AttributeLayer(s, r, p) = None
  PROVE  \E i \in Coming("holds", s, r, p) :
            /\ i \in DOMAIN p.rules
            /\ Chosen(s, r, p) = p.rules[i]
            /\ Chosen(s, r, p) \in Rules
<1> DEFINE passing == Coming("holds", s, r, p)
<1>1. passing # {}
  BY ReasonsAreNotNone DEF AttributeLayer, Denials
<1>2. passing \subseteq DOMAIN p.rules
  BY DEF Coming, Held
<1> HIDE DEF passing
<1>3. \E i \in passing : \A j \in passing : i <= j
  <2>1. passing \subseteq {1, 2, 3}
    BY <1>2
  <2>2. CASE 1 \in passing
    BY <2>1, <2>2
  <2>3. CASE 1 \notin passing /\ 2 \in passing
    <3>1. \A j \in passing : 2 <= j
      BY <2>1, <2>3
    <3> QED
      BY <2>3, <3>1
  <2>4. CASE 1 \notin passing /\ 2 \notin passing
    <3>1. passing = {3}
      BY <1>1, <2>1, <2>4
    <3> QED
      BY <3>1
  <2> QED
    BY <2>2, <2>3, <2>4
<1> DEFINE i == CHOOSE i \in passing : \A j \in passing : i <= j
<1>4. i \in passing
  BY <1>3
<1>5. Chosen(s, r, p) = p.rules[i]
  BY DEF Chosen, passing
<1> HIDE DEF i
<1>6. p.rules[i] \in Rules
  BY <1>2, <1>4
<1> QED
  BY <1>2, <1>4, <1>5, <1>6 DEF passing
\* The layers' refusals are reasons, and only the tenant boundary says that
\* the tenant is another.
LEMMA LayersTyped ==
  ASSUME NEW s, NEW r, NEW p
  PROVE  /\ TenantLayer(s, r) \in {None, "CONTEXT_INCOMPLETE", "TENANT_MISMATCH"}
         /\ PermissionLayer(s, p) \in {None, "PERMISSION_MISSING"}
         /\ AttributeLayer(s, r, p) \in
              {None, "CONTEXT_INCOMPLETE", "NOT_IN_REPORTING_LINE", "ATTRIBUTE_MISMATCH"}
         /\ AclLayer(s, r, p) \in {None, "CONTEXT_INCOMPLETE", "ACL_DENIED"}
         /\ ClassificationLayer(s, r, p) \in
              {None, "CONTEXT_INCOMPLETE", "CLASSIFICATION_TOO_HIGH"}
  BY DEF TenantLayer, PermissionLayer, AttributeLayer, AclLayer, ClassificationLayer

\* A refusal with a reason of its layer is a decision.
LEMMA DenialTyped ==
  ASSUME NEW why \in Denials, NEW at \in 1 .. 5, why = "TENANT_MISMATCH" => at = 1
  PROVE  Deny(why, at) \in Decisions
<1>1. at # None /\ why \notin Allows
  BY PolicyAssumption DEF Denials, Allows
<1>2. Deny(why, at) \in [allowed : BOOLEAN, reason : Allows \cup Denials,
                         layer : 1 .. 5 \cup {None}, scope : Scopes,
                         audit_required : BOOLEAN, tenant_absent : BOOLEAN]
  BY DEF Deny, Scopes
<1> QED
  BY <1>1, <1>2 DEF Deny, Decisions

\* Every input of the types of the code has a decision of the type of the code.
LEMMA DecisionTyped ==
  ASSUME NEW s \in Subjects, NEW k \in Kinds, NEW r \in Resources, NEW p \in PoliciesOf(k)
  PROVE  EvaluateWith(s, k, r, p) \in Decisions
<1> USE LayersTyped, DenialTyped
<1>1. CASE TenantLayer(s, r) # None
  BY <1>1 DEF EvaluateWith, Denials
<1>2. CASE TenantLayer(s, r) = None /\ PermissionLayer(s, p) # None
  BY <1>2 DEF EvaluateWith, Denials
<1>3. CASE /\ TenantLayer(s, r) = None /\ PermissionLayer(s, p) = None
           /\ AttributeLayer(s, r, p) # None
  BY <1>3 DEF EvaluateWith, Denials
<1>4. CASE /\ TenantLayer(s, r) = None /\ PermissionLayer(s, p) = None
           /\ AttributeLayer(s, r, p) = None /\ AclLayer(s, r, p) # None
  BY <1>4 DEF EvaluateWith, Denials
<1>5. CASE /\ TenantLayer(s, r) = None /\ PermissionLayer(s, p) = None
           /\ AttributeLayer(s, r, p) = None /\ AclLayer(s, r, p) = None
           /\ ClassificationLayer(s, r, p) # None
  BY <1>5 DEF EvaluateWith, Denials
<1>6. CASE /\ TenantLayer(s, r) = None /\ PermissionLayer(s, p) = None
           /\ AttributeLayer(s, r, p) = None /\ AclLayer(s, r, p) = None
           /\ ClassificationLayer(s, r, p) = None
  <2>1. EvaluateWith(s, k, r, p) = Allow(s, k, r, p)
    BY <1>6 DEF EvaluateWith
  <2>2. Chosen(s, r, p).reason \in Allows /\ Chosen(s, r, p).scope \in Scopes
    BY <1>6, RulesTyped, ChosenPasses DEF Rules
  <2>3. IsSensitive(s, k, r) \in BOOLEAN
    BY DEF IsSensitive
  <2>4. "TENANT_MISMATCH" \notin Allows
    BY DEF Allows
  <2> QED
    BY <2>1, <2>2, <2>3, <2>4 DEF Allow, Decisions
<1> QED
  BY <1>1, <1>2, <1>3, <1>4, <1>5, <1>6

-----------------------------------------------------------------------------
(* What the steps change.                                                  *)

\* The inputs keep their types.
LEMMA InputsInvariant == DecideSpec => []InputsTyped
<1>1. DecideInit => InputsTyped
  BY DEF DecideInit, InputsTyped, Resources
<1>2. InputsTyped /\ [DecideNext]_inputs => InputsTyped'
  <2> SUFFICES ASSUME InputsTyped, [DecideNext]_inputs
               PROVE  InputsTyped'
    OBVIOUS
  <2> USE DEF InputsTyped
  <2>1. ASSUME NEW code \in Codes, Grant(code)
        PROVE  InputsTyped'
    BY <2>1 DEF Grant, Subjects
  <2>2. ASSUME NEW a \in {"company", "owner", "classification", "grants"}, Forget(a)
        PROVE  InputsTyped'
    <3>1. resource' \in Resources
      BY <2>2 DEF Forget, Resources
    <3> QED
      BY <2>2, <3>1 DEF Forget
  <2>3. CASE ForgetDepartment
    BY <2>3 DEF ForgetDepartment, Subjects
  <2>4. CASE UNCHANGED inputs
    BY <2>4 DEF inputs
  <2> QED
    BY <2>1, <2>2, <2>3, <2>4 DEF DecideNext, Forgets
<1> QED
  BY <1>1, <1>2, PTL DEF DecideSpec

\* Type correctness: the inputs are typed and so is the decision.
THEOREM InputsTypeCorrect == DecideSpec => []DecideTypeOK
<1>1. InputsTyped => DecideTypeOK
  BY DecisionTyped DEF InputsTyped, DecideTypeOK, decision
<1> QED
  BY <1>1, InputsInvariant, PTL

\* FR-013, for every caller and resource: the earliest failing layer refuses.
THEOREM Earliest == DecideSpec => []EarliestLayer
<1>1. InputsTyped => EarliestLayer
  <2> SUFFICES ASSUME InputsTyped PROVE EarliestLayer
    OBVIOUS
  <2>1. decision \in Decisions
    BY DecisionTyped DEF InputsTyped, decision
  <2>2. ~decision.allowed => decision.layer = Reach(decision)
    BY DEF Reach
  <2>3. decision.allowed <=> Reach(decision) = 6
    BY <2>1, <2>2, PolicyAssumption DEF Reach, Decisions
  <2>4. ASSUME NEW l \in 1 .. 5, l < Reach(decision)
        PROVE  Passes(l)
    BY <2>4, ReachByLayers DEF Passes, decision
  <2>5. ASSUME NEW l \in 1 .. 5, l = Reach(decision)
        PROVE  ~Passes(l)
    BY <2>5, ReachByLayers DEF Passes, decision
  <2>6. ~decision.allowed => decision.layer \in 1 .. 5
    BY <2>1 DEF Decisions
  <2> QED
    BY <2>2, <2>4, <2>5, <2>6 DEF EarliestLayer
<1> QED
  BY <1>1, InputsInvariant, PTL

\* FR-017a, for every caller, resource and kind of the table.
THEOREM SilentReads == DecideSpec => []SilentReadsAreOwn
<1>1. InputsTyped => SilentReadsAreOwn
  <2> SUFFICES ASSUME InputsTyped, decision.allowed, ~decision.audit_required
               PROVE  resource.owner = subject.user /\ kind # "HR_COMPENSATION"
    BY DEF SilentReadsAreOwn
  <2>1. policy.rules = RulesOf(kind) /\ policy.rules \in Seq(Rules)
        /\ DOMAIN policy.rules \subseteq 1 .. 3
    BY RulesTyped DEF InputsTyped
  <2>2. decision = Allow(subject, kind, resource, policy)
        /\ AttributeLayer(subject, resource, policy) = None
    BY DEF decision, EvaluateWith, Deny
  <2>3. ~IsSensitive(subject, kind, resource)
    BY <2>2 DEF Allow
  <2>4. CASE kind = "HR_PROFILE"
    BY <2>3, <2>4 DEF IsSensitive
  <2>5. CASE kind \in {"DIRECT_REPORTS", "ACCESS_CONTEXT", "SESSION"}
    <3>1. PICK i \in Coming("holds", subject, resource, policy) : i \in DOMAIN policy.rules
      BY <2>1, <2>2, ChosenPasses
    <3>2. RulesOf(kind) \in {<<TeamRule("IS_SELF")>>, <<SelfRule(None)>>}
      BY <2>5 DEF RulesOf
    <3>3. DOMAIN policy.rules = {1}
      BY <2>1, <3>2
    <3>4. policy.rules[i].condition = "IS_SELF"
      BY <2>1, <3>1, <3>2, <3>3 DEF TeamRule, SelfRule, Rule
    <3>5. ConditionOutcome("IS_SELF", subject, resource) = "holds"
      BY <3>1, <3>4 DEF Coming
    <3>6. resource.owner = subject.user
      BY <3>5 DEF ConditionOutcome
    <3> QED
      BY <2>5, <3>6
  <2> QED
    BY <2>3, <2>4, <2>5 DEF IsSensitive, InputsTyped, Kinds
<1> QED
  BY <1>1, InputsInvariant, PTL

\* More codes make more rules held and leave the other layers as they were.
LEMMA MoreCodes ==
  ASSUME NEW s \in Subjects, NEW code \in Codes, NEW k, NEW r, NEW p, NEW s2,
         s2 = [s EXCEPT !.codes = @ \cup {code}]
  PROVE  Reach(EvaluateWith(s, k, r, p)) <= Reach(EvaluateWith(s2, k, r, p))
<1>1. /\ s2.company = s.company /\ s2.user = s.user /\ s2.roles = s.roles
      /\ s2.department = s.department /\ s2.reports = s.reports
      /\ s.codes \subseteq s2.codes
  BY DEF Subjects
<1>2. TenantLayer(s2, r) = TenantLayer(s, r)
  BY <1>1 DEF TenantLayer
<1>3. Held(s, p) \subseteq Held(s2, p)
  BY <1>1 DEF Held
<1>4. PermissionLayer(s, p) = None => PermissionLayer(s2, p) = None
  BY <1>3, ReasonsAreNotNone DEF PermissionLayer, Denials
<1>5. \A c : ConditionOutcome(c, s2, r) = ConditionOutcome(c, s, r)
  BY <1>1 DEF ConditionOutcome
<1>6. AttributeLayer(s, r, p) = None => AttributeLayer(s2, r, p) = None
  <2>1. Coming("holds", s, r, p) \subseteq Coming("holds", s2, r, p)
    BY <1>3, <1>5 DEF Coming
  <2> QED
    BY <2>1, ReasonsAreNotNone DEF AttributeLayer, Denials
<1>7. \A g : AclMatches(s2, g) <=> AclMatches(s, g)
  BY <1>1 DEF AclMatches
<1>8. AclLayer(s2, r, p) = AclLayer(s, r, p)
  BY <1>7 DEF AclLayer
<1>9. ClassificationLayer(s2, r, p) = ClassificationLayer(s, r, p)
  BY <1>1, <1>7 DEF ClassificationLayer
<1> QED
  BY <1>2, <1>4, <1>6, <1>8, <1>9, LayerByLayer

\* A caller whose reach grows by codes is never refused at an earlier layer.
THEOREM CodesHelp == DecideSpec => CodesOnlyHelp
<1>1. InputsTyped /\ [DecideNext]_inputs =>
        [\A code \in Codes : Grant(code) => Reach(decision)' >= Reach(decision)]_inputs
  <2> SUFFICES ASSUME InputsTyped, NEW code \in Codes, Grant(code)
               PROVE  Reach(decision)' >= Reach(decision)
    OBVIOUS
  <2>1. Reach(EvaluateWith(subject, kind, resource, policy))
          <= Reach(EvaluateWith(subject', kind, resource, policy))
    BY MoreCodes DEF Grant, InputsTyped
  <2>2. kind' = kind /\ resource' = resource /\ policy' = policy
    BY DEF Grant
  <2>3. Reach(decision)' = Reach(EvaluateWith(subject', kind, resource, policy))
    BY <2>2 DEF decision
  <2>4. /\ Reach(EvaluateWith(subject, kind, resource, policy)) \in Nat
        /\ Reach(EvaluateWith(subject', kind, resource, policy)) \in Nat
    BY ReachByLayers
  <2> QED
    BY <2>1, <2>3, <2>4 DEF decision
<1> QED
  BY <1>1, InputsInvariant, PTL DEF DecideSpec, CodesOnlyHelp

\* A descriptor that lost an attribute passes no layer it did not pass before.
LEMMA LessResource ==
  ASSUME NEW s, NEW k, NEW p, NEW r \in Resources, NEW r2 \in Resources,
         r2.company = r.company \/ r2.company = None,
         r2.owner = r.owner \/ r2.owner = None,
         r2.classification = r.classification \/ r2.classification = None,
         r2.grants = r.grants \/ r2.grants = None
  PROVE  Reach(EvaluateWith(s, k, r2, p)) <= Reach(EvaluateWith(s, k, r, p))
<1> USE ReasonsAreNotNone
<1>1. TenantLayer(s, r2) = None => TenantLayer(s, r) = None
  BY DEF TenantLayer, Denials
<1>2. \A c : ConditionOutcome(c, s, r2) = "holds" => ConditionOutcome(c, s, r) = "holds"
  BY DEF ConditionOutcome
<1>3. AttributeLayer(s, r2, p) = None => AttributeLayer(s, r, p) = None
  <2>1. Coming("holds", s, r2, p) \subseteq Coming("holds", s, r, p)
    BY <1>2 DEF Coming
  <2> QED
    BY <2>1 DEF AttributeLayer, Denials
<1>4. AclLayer(s, r2, p) = None => AclLayer(s, r, p) = None
  BY DEF AclLayer, Denials
<1>5. ClassificationLayer(s, r2, p) = None => ClassificationLayer(s, r, p) = None
  BY DEF ClassificationLayer, Denials
<1> QED
  BY <1>1, <1>3, <1>4, <1>5, LayerByLayer

\* Nor does a caller whose department was not loaded.
LEMMA LessSubject ==
  ASSUME NEW s \in Subjects, NEW k, NEW r, NEW p, NEW s2,
         s2 = [s EXCEPT !.department = None]
  PROVE  Reach(EvaluateWith(s2, k, r, p)) <= Reach(EvaluateWith(s, k, r, p))
<1> USE ReasonsAreNotNone
<1>1. /\ s2.company = s.company /\ s2.user = s.user /\ s2.roles = s.roles
      /\ s2.reports = s.reports /\ s2.codes = s.codes /\ s2.department = None
  BY DEF Subjects
<1>2. TenantLayer(s2, r) = TenantLayer(s, r) /\ Held(s2, p) = Held(s, p)
  BY <1>1 DEF TenantLayer, Held
<1>3. PermissionLayer(s2, p) = PermissionLayer(s, p)
  BY <1>2 DEF PermissionLayer
<1>4. \A c : ConditionOutcome(c, s2, r) = ConditionOutcome(c, s, r)
  BY <1>1 DEF ConditionOutcome
<1>5. \A o : Coming(o, s2, r, p) = Coming(o, s, r, p)
  BY <1>2, <1>4 DEF Coming
<1>6. AttributeLayer(s2, r, p) = AttributeLayer(s, r, p)
  BY <1>2, <1>5 DEF AttributeLayer
<1>7. \A g : AclMatches(s2, g) => AclMatches(s, g)
  BY <1>1 DEF AclMatches
<1>8. AclLayer(s2, r, p) = None => AclLayer(s, r, p) = None
  BY <1>7 DEF AclLayer, Denials
<1>9. ClassificationLayer(s2, r, p) = None => ClassificationLayer(s, r, p) = None
  BY <1>1, <1>7 DEF ClassificationLayer, Denials
<1> QED
  BY <1>2, <1>3, <1>6, <1>8, <1>9, LayerByLayer

\* Whatever attribute a query forgot, the request gets no further for it.
THEOREM MissingHelpsNobody == DecideSpec => MissingNeverHelps
<1>1. InputsTyped /\ InputsTyped' /\ [DecideNext]_inputs =>
        [Forgets => Reach(decision)' <= Reach(decision)]_inputs
  <2> SUFFICES ASSUME InputsTyped, InputsTyped', Forgets
               PROVE  Reach(decision)' <= Reach(decision)
    OBVIOUS
  <2>1. ASSUME NEW a \in {"company", "owner", "classification", "grants"}, Forget(a)
        PROVE  Reach(decision)' <= Reach(decision)
    <3>1. subject' = subject /\ kind' = kind /\ policy' = policy
      BY <2>1 DEF Forget
    <3>2. /\ resource'.company = resource.company \/ resource'.company = None
          /\ resource'.owner = resource.owner \/ resource'.owner = None
          /\ resource'.classification = resource.classification
             \/ resource'.classification = None
          /\ resource'.grants = resource.grants \/ resource'.grants = None
      BY <2>1 DEF Forget, InputsTyped, Resources
    <3>3. Reach(EvaluateWith(subject, kind, resource', policy))
            <= Reach(EvaluateWith(subject, kind, resource, policy))
      BY <3>2, LessResource DEF InputsTyped
    <3> QED
      BY <3>1, <3>3 DEF decision
  <2>2. CASE ForgetDepartment
    <3>1. resource' = resource /\ kind' = kind /\ policy' = policy
      BY <2>2 DEF ForgetDepartment
    <3>2. Reach(EvaluateWith(subject', kind, resource, policy))
            <= Reach(EvaluateWith(subject, kind, resource, policy))
      BY <2>2, LessSubject DEF ForgetDepartment, InputsTyped
    <3> QED
      BY <3>1, <3>2 DEF decision
  <2> QED
    BY <2>1, <2>2 DEF Forgets
<1> QED
  BY <1>1, InputsInvariant, PTL DEF DecideSpec, MissingNeverHelps


\* Both directions of the order in which requests get further.
THEOREM Monotone == DecideSpec => AnswersMonotone
BY CodesHelp, MissingHelpsNobody, PTL DEF AnswersMonotone

-----------------------------------------------------------------------------
(***************************************************************************)
(* Protected requests.                                                     *)
(***************************************************************************)
\* A request that has arrived has a caller and somebody it is about.
Typed ==
    /\ TypeOK
    /\ \A r \in Request : pc[r] # "new" => caller[r] \in User /\ target[r] \in User

\* The steps of one request, for the proofs that go through all of them.
ProceedSteps(r) ==
    \/ Enter(r) \/ Checkout(r) \/ CheckoutTimeout(r) \/ ReadReports(r) \/ ReadCodes(r)
    \/ AnswerAbsent(r) \/ Deny403(r) \/ Permit(r) \/ ReadPayload(r)
    \/ RecordDenied(r) \/ LoseDenied(r) \/ Refuse(r) \/ Commit(r) \/ Abort(r)

\* What a step may be, whichever calls an instance is bounded to.
LEMMA NextCases ==
    ASSUME Next
    PROVE  \/ \E u \in User, c \in Codes : ChangeCodes(u, c)
           \/ \E u, m \in User : Reassign(u, m)
           \/ \E r \in Request, u, t \in User, e \in Routes, p \in BOOLEAN : Arrive(r, u, e, t, p)
           \/ \E r \in Request : Proceed(r) \/ Abort(r)
<1>1. ASSUME NEW r \in Request, NEW c \in Calls[r], Arrive(r, c[1], c[2], c[3], c[4])
      PROVE  \E u, t \in User, e \in Routes, p \in BOOLEAN : Arrive(r, u, e, t, p)
  <2>1. c \in User \X Routes \X User \X BOOLEAN
    BY EnforcementAssumption
  <2>2. c[1] \in User /\ c[2] \in Routes /\ c[3] \in User /\ c[4] \in BOOLEAN
    BY <2>1
  <2>3. QED  BY <1>1, <2>2, Zenon
<1>2. QED  BY <1>1, Zenon DEF Next

\* Types are kept and a caller is kept once there is one.
LEMMA TypedInvariant == Spec => []Typed
<1>1. Init => Typed
  BY EnforcementAssumption
     DEF Init, Typed, TypeOK, Routes, OwnRoutes, HrRoutes, Stages
<1>2. Typed /\ [Next]_vars => Typed'
  <2> SUFFICES ASSUME Typed, [Next]_vars
               PROVE  Typed'
    OBVIOUS
  <2> USE DEF Typed, TypeOK, Step, asked, records, context, seen, Stages, Actions
  <2>1. ASSUME NEW u \in User, NEW c \in Codes, ChangeCodes(u, c)
        PROVE  Typed'
    <3>1. codes' \in [User -> SUBSET Codes] /\ manager' \in [User -> User \cup {None}]
      BY <2>1 DEF ChangeCodes
    <3>2. changes' \in 0 .. MaxChanges
      BY <2>1, EnforcementAssumption DEF ChangeCodes
    <3>3. codesSeen' \in [Request -> SUBSET Codes] /\ reportsSeen' \in [Request -> SUBSET User]
      BY <2>1, <3>1 DEF ChangeCodes, See, InProgress, ReportsOf
    <3> QED
      BY <2>1, <3>1, <3>2, <3>3 DEF ChangeCodes
  <2>2. ASSUME NEW u \in User, NEW m \in User, Reassign(u, m)
        PROVE  Typed'
    <3>1. codes' \in [User -> SUBSET Codes] /\ manager' \in [User -> User \cup {None}]
      BY <2>2 DEF Reassign
    <3>2. changes' \in 0 .. MaxChanges
      BY <2>2, EnforcementAssumption DEF Reassign
    <3>3. codesSeen' \in [Request -> SUBSET Codes] /\ reportsSeen' \in [Request -> SUBSET User]
      BY <2>2, <3>1 DEF Reassign, See, InProgress, ReportsOf
    <3> QED
      BY <2>2, <3>1, <3>2, <3>3 DEF Reassign
  <2>3. ASSUME NEW r \in Request, NEW u \in User, NEW t \in User, NEW e \in Routes,
               NEW p \in BOOLEAN, Arrive(r, u, e, t, p)
        PROVE  Typed'
    BY <2>3, EnforcementAssumption DEF Arrive, ReportsOf
  <2>4. ASSUME NEW r \in Request, ProceedSteps(r)
        PROVE  Typed'
    <3>1. CASE Enter(r)
      BY <3>1 DEF Enter
    <3>2. CASE Checkout(r)
      BY <3>2 DEF Checkout
    <3>3. CASE CheckoutTimeout(r)
      BY <3>3 DEF CheckoutTimeout
    <3>4. CASE ReadReports(r)
      BY <3>4 DEF ReadReports, ReportsOf
    <3>5. CASE ReadCodes(r)
      BY <3>5 DEF ReadCodes
    <3>6. CASE AnswerAbsent(r)
      BY <3>6 DEF AnswerAbsent
    <3>7. CASE Deny403(r)
      BY <3>7 DEF Deny403
    <3>8. CASE Permit(r)
      BY <3>8 DEF Permit
    <3>9. CASE ReadPayload(r)
      BY <3>9 DEF ReadPayload
    <3>10. CASE RecordDenied(r)
      BY <3>10 DEF RecordDenied
    <3>11. CASE LoseDenied(r)
      BY <3>11 DEF LoseDenied
    <3>12. CASE Refuse(r)
      BY <3>12 DEF Refuse, Release
    <3>13. CASE Commit(r)
      BY <3>13 DEF Commit, Release
    <3>14. CASE Abort(r)
      BY <3>14 DEF Abort, Release
    <3> QED
      BY <2>4, <3>1, <3>2, <3>3, <3>4, <3>5, <3>6, <3>7, <3>8, <3>9, <3>10, <3>11,
         <3>12, <3>13, <3>14 DEF ProceedSteps
  <2>5. CASE UNCHANGED vars
    BY <2>5 DEF vars
  <2> QED
    BY <2>1, <2>2, <2>3, <2>4, <2>5, NextCases DEF Proceed, ProceedSteps
<1> QED
  BY <1>1, <1>2, PTL DEF Spec

\* Type correctness of the requests, their contexts and the trail.
THEOREM TypeCorrect == Spec => []TypeOK
  BY TypedInvariant, PTL DEF Typed

-----------------------------------------------------------------------------
(* The trail and the answers.                                              *)

\* A descriptor that was loaded is of the caller's tenant, so no decision of
\* a handler reports the tenant boundary.
LEMMA NeverAbsent ==
  ASSUME NEW u, NEW t, NEW e, NEW cs, NEW reports
  PROVE  ~DecisionOn(u, t, e, cs, reports).tenant_absent
<1> DEFINE s == Subject(u, cs, reports)
           d == Descriptor(u, t)
           p == POLICIES(KindOf(e))
<1>1. TenantLayer(s, d) # "TENANT_MISMATCH"
  BY PolicyAssumption DEF TenantLayer, Subject, Descriptor, Within, Denials
<1>2. /\ PermissionLayer(s, p) # "TENANT_MISMATCH"
      /\ AttributeLayer(s, d, p) # "TENANT_MISMATCH"
      /\ AclLayer(s, d, p) # "TENANT_MISMATCH"
      /\ ClassificationLayer(s, d, p) # "TENANT_MISMATCH"
  BY PolicyAssumption
     DEF PermissionLayer, AttributeLayer, AclLayer, ClassificationLayer, Denials
<1> QED
  BY <1>1, <1>2 DEF DecisionOn, Evaluate, EvaluateWith, Deny, Allow

\* The stages at which the answer and the trail of a request are settled, and
\* what its transaction may have pending.
Told ==
    \A r \in Request :
        /\ pc[r] = "new" => answer[r] = 0
        /\ pc[r] \notin {"new", "answered"} /\ route[r] \in OwnRoutes => target[r] = caller[r]
        /\ pc[r] = "denying" => answer[r] = 403
        /\ pc[r] = "commit" => answer[r] = 200
        /\ pc[r] = "refusing" => answer[r] # 200
        /\ "authz.denied" \notin pending[r]
        /\ answer[r] = 403 => pc[r] \in {"denying", "refusing", "answered"} /\ Visible(r)
        /\ "authz.denied" \in audit[r] => pc[r] \in {"refusing", "answered"} /\ answer[r] = 403
        /\ "authz.allowed" \in audit[r] => Answered(r, 200)

\* Every step keeps the trail true to the answers.
LEMMA ToldInvariant == Spec => []Told
<1>1. Init => Told
  BY DEF Init, Told, Answered
<1>2. Typed /\ Told /\ [Next]_vars => Told'
  <2> SUFFICES ASSUME Typed, Told, [Next]_vars
               PROVE  Told'
    OBVIOUS
  <2> USE DEF Told, Answered, Visible, Within, Step, asked, records, context, seen
  <2>0. /\ pc \in [Request -> Stages]
        /\ caller \in [Request -> User \cup {None}]
        /\ route \in [Request -> Routes]
        /\ target \in [Request -> User \cup {None}]
        /\ pending \in [Request -> SUBSET Actions]
        /\ answer \in [Request -> {0, 200, 403, 404, 500}]
    BY DEF Typed, TypeOK
  <2> HIDE DEF Typed
  <2>1. ASSUME NEW u \in User, NEW c \in Codes, ChangeCodes(u, c)
        PROVE  Told'
    BY <2>1, <2>0 DEF ChangeCodes
  <2>2. ASSUME NEW u \in User, NEW m \in User, Reassign(u, m)
        PROVE  Told'
    BY <2>2, <2>0 DEF Reassign
  <2>3. ASSUME NEW r \in Request, NEW u \in User, NEW t \in User, NEW e \in Routes,
               NEW p \in BOOLEAN, Arrive(r, u, e, t, p)
        PROVE  Told'
    BY <2>3, <2>0 DEF Arrive
  <2>4. ASSUME NEW r \in Request, ProceedSteps(r)
        PROVE  Told'
    <3>1. CASE Enter(r)
      BY <3>1, <2>0 DEF Enter
    <3>2. CASE Checkout(r)
      BY <3>2, <2>0 DEF Checkout
    <3>3. CASE CheckoutTimeout(r)
      BY <3>3, <2>0 DEF CheckoutTimeout
    <3>4. CASE ReadReports(r)
      BY <3>4, <2>0 DEF ReadReports
    <3>5. CASE ReadCodes(r)
      BY <3>5, <2>0 DEF ReadCodes
    <3>6. CASE AnswerAbsent(r)
      BY <3>6, <2>0 DEF AnswerAbsent
    <3>7. CASE Deny403(r)
      <4>1. Visible(r)
        BY <2>0, <3>7 DEF Deny403, Known, HrRoutes, Routes, OwnRoutes
      <4>2. ~DecisionOf(r).tenant_absent
        BY NeverAbsent DEF DecisionOf
      <4> QED
        BY <2>0, <3>7, <4>1, <4>2 DEF Deny403
    <3>8. CASE Permit(r)
      BY <3>8, <2>0 DEF Permit
    <3>9. CASE ReadPayload(r)
      BY <3>9, <2>0 DEF ReadPayload
    <3>10. CASE RecordDenied(r)
      BY <3>10, <2>0 DEF RecordDenied
    <3>11. CASE LoseDenied(r)
      BY <3>11, <2>0 DEF LoseDenied
    <3>12. CASE Refuse(r)
      BY <3>12, <2>0 DEF Refuse
    <3>13. CASE Commit(r)
      BY <3>13, <2>0 DEF Commit
    <3>14. CASE Abort(r)
      BY <3>14, <2>0 DEF Abort
    <3> QED
      BY <2>4, <3>1, <3>2, <3>3, <3>4, <3>5, <3>6, <3>7, <3>8, <3>9, <3>10, <3>11,
         <3>12, <3>13, <3>14 DEF ProceedSteps
  <2>5. CASE UNCHANGED vars
    BY <2>5 DEF vars
  <2> QED
    BY <2>1, <2>2, <2>3, <2>4, <2>5, NextCases DEF Proceed, ProceedSteps
<1> QED
  BY <1>1, <1>2, TypedInvariant, PTL DEF Spec

\* An allow that was rolled back leaves no entry and a denial entry tells of a
\* 403, whatever fails and whenever.
THEOREM TrailTrue == Spec => []EntriesTellTrue
<1>1. Told => EntriesTellTrue
  BY DEF Told, EntriesTellTrue
<1> QED
  BY <1>1, ToldInvariant, PTL

\* A 403 is only ever about a person of the caller's own tenant.
THEOREM ForbiddenInside == Spec => []ForbiddenStaysInside
<1>1. Told => ForbiddenStaysInside
  BY DEF Told, ForbiddenStaysInside, Visible, Within
<1> QED
  BY <1>1, ToldInvariant, PTL

-----------------------------------------------------------------------------
(* What a request is given.                                                *)

\* More permissions and more reports never turn an allow into a denial.
LEMMA MoreAllows ==
  ASSUME NEW u, NEW t, NEW e, NEW cs, NEW cs2, NEW reports, NEW reports2,
         cs \subseteq cs2, reports \subseteq reports2,
         DecisionOn(u, t, e, cs, reports).allowed
  PROVE  DecisionOn(u, t, e, cs2, reports2).allowed
<1> DEFINE s == Subject(u, cs, reports)
           s2 == Subject(u, cs2, reports2)
           d == Descriptor(u, t)
           p == POLICIES(KindOf(e))
<1>1. EvaluateWith(s, KindOf(e), d, p).allowed
  BY DEF DecisionOn, Evaluate
<1>2. /\ TenantLayer(s, d) = None /\ PermissionLayer(s, p) = None
      /\ AttributeLayer(s, d, p) = None
  BY <1>1 DEF EvaluateWith, Deny
<1>3. TenantLayer(s2, d) = None
  BY <1>2 DEF TenantLayer, Subject
<1>4. Held(s, p) \subseteq Held(s2, p)
  BY DEF Held, Subject
<1>5. PermissionLayer(s2, p) = None
  BY <1>2, <1>4, PolicyAssumption DEF PermissionLayer, Denials
<1>6. Coming("holds", s, d, p) \subseteq Coming("holds", s2, d, p)
  <2> SUFFICES ASSUME NEW i \in Coming("holds", s, d, p)
               PROVE  i \in Coming("holds", s2, d, p)
    OBVIOUS
  <2>1. i \in Held(s2, p) /\ ConditionOutcome(p.rules[i].condition, s, d) = "holds"
    BY <1>4 DEF Coming
  <2>2. ConditionOutcome(p.rules[i].condition, s2, d) = "holds"
    BY <2>1 DEF ConditionOutcome, Subject
  <2> QED
    BY <2>1, <2>2 DEF Coming
<1>7. AttributeLayer(s2, d, p) = None
  BY <1>2, <1>6, PolicyAssumption DEF AttributeLayer, Denials
<1>8. AclLayer(s2, d, p) = None /\ ClassificationLayer(s2, d, p) = None
  BY DEF AclLayer, ClassificationLayer, POLICIES
<1> QED
  BY <1>3, <1>5, <1>7, <1>8 DEF DecisionOn, Evaluate, EvaluateWith, Allow

\* The context is part of what was in force, and what was given was permitted
\* by what was in force.
Covered ==
    \A r \in Request :
        /\ pc[r] = "new" => ctxCodes[r] = {} /\ ctxReports[r] = {}
        /\ InProgress(r) => codes[caller[r]] \subseteq codesSeen[r]
                           /\ ReportsOf(caller[r]) \subseteq reportsSeen[r]
        /\ ctxCodes[r] \subseteq codesSeen[r]
        /\ ctxReports[r] \subseteq reportsSeen[r]

\* The context never holds what was not in force while it was read.
LEMMA CoveredInvariant == Spec => []Covered
<1>1. Init => Covered
  BY DEF Init, Covered, InProgress
<1>2. Typed /\ Covered /\ [Next]_vars => Covered'
  <2> SUFFICES ASSUME Typed, Covered, [Next]_vars
               PROVE  Covered'
    OBVIOUS
  <2>0. /\ pc \in [Request -> Stages]
        /\ caller \in [Request -> User \cup {None}]
        /\ route \in [Request -> Routes]
        /\ target \in [Request -> User \cup {None}]
        /\ answer \in [Request -> {0, 200, 403, 404, 500}]
        /\ pending \in [Request -> SUBSET Actions]
        /\ audit \in [Request -> SUBSET Actions]
        /\ codes \in [User -> SUBSET Codes]
        /\ manager \in [User -> User \cup {None}]
        /\ ctxReports \in [Request -> SUBSET User]
        /\ ctxCodes \in [Request -> SUBSET Codes]
        /\ codesSeen \in [Request -> SUBSET Codes]
        /\ reportsSeen \in [Request -> SUBSET User]
        /\ \A r \in Request : pc[r] # "new" => caller[r] \in User /\ target[r] \in User
    BY DEF Typed, TypeOK
  <2> USE DEF Covered, Step, asked, records, context, seen, InProgress, ReportsOf
  <2>1. ASSUME NEW u \in User, NEW c \in Codes, ChangeCodes(u, c)
        PROVE  Covered'
    BY <2>0, <2>1 DEF ChangeCodes, See
  <2>2. ASSUME NEW u \in User, NEW m \in User, Reassign(u, m)
        PROVE  Covered'
    BY <2>0, <2>2 DEF Reassign, See
  <2>3. ASSUME NEW r \in Request, NEW u \in User, NEW t \in User, NEW e \in Routes,
               NEW p \in BOOLEAN, Arrive(r, u, e, t, p)
        PROVE  Covered'
    BY <2>0, <2>3 DEF Arrive
  <2>4. ASSUME NEW r \in Request, ProceedSteps(r)
        PROVE  Covered'
    <3>1. CASE Enter(r)
      BY <2>0, <3>1 DEF Enter
    <3>2. CASE Checkout(r)
      BY <2>0, <3>2 DEF Checkout
    <3>3. CASE CheckoutTimeout(r)
      BY <2>0, <3>3 DEF CheckoutTimeout
    <3>4. CASE ReadReports(r)
      BY <2>0, <3>4 DEF ReadReports
    <3>5. CASE ReadCodes(r)
      BY <2>0, <3>5 DEF ReadCodes
    <3>6. CASE AnswerAbsent(r)
      BY <2>0, <3>6 DEF AnswerAbsent
    <3>7. CASE Deny403(r)
      BY <2>0, <3>7 DEF Deny403
    <3>8. CASE Permit(r)
      BY <2>0, <3>8 DEF Permit
    <3>9. CASE ReadPayload(r)
      BY <2>0, <3>9 DEF ReadPayload
    <3>10. CASE RecordDenied(r)
      BY <2>0, <3>10 DEF RecordDenied
    <3>11. CASE LoseDenied(r)
      BY <2>0, <3>11 DEF LoseDenied
    <3>12. CASE Refuse(r)
      BY <2>0, <3>12 DEF Refuse
    <3>13. CASE Commit(r)
      BY <2>0, <3>13 DEF Commit
    <3>14. CASE Abort(r)
      BY <2>0, <3>14 DEF Abort
    <3> QED
      BY <2>4, <3>1, <3>2, <3>3, <3>4, <3>5, <3>6, <3>7, <3>8, <3>9, <3>10, <3>11,
         <3>12, <3>13, <3>14 DEF ProceedSteps
  <2>5. CASE UNCHANGED vars
    BY <2>5 DEF vars
  <2> QED
    BY <2>1, <2>2, <2>3, <2>4, <2>5, NextCases DEF Proceed, ProceedSteps
<1> QED
  BY <1>1, <1>2, TypedInvariant, PTL DEF Spec

Given(r) == pc[r] \in {"payload", "commit"} \/ Answered(r, 200)

\* Whatever the records turn into while a request is served, it is given only
\* what permissions and reports in force meanwhile allow.
THEOREM Permitted == Spec => []PermittedWhileAsked
<1> DEFINE Allowed(r) ==
        \/ route[r] = "me"
        \/ DecisionOn(caller[r], target[r], route[r], codesSeen[r], reportsSeen[r]).allowed
    Inv == \A r \in Request : Given(r) => Allowed(r)
<1>1. Init => Inv
  BY DEF Init, Given, Answered
<1>2. Typed /\ Told /\ Covered /\ Inv /\ [Next]_vars => Inv'
  <2> SUFFICES ASSUME Typed, Told, Covered, Inv, [Next]_vars
               PROVE  Inv'
    OBVIOUS
  <2>0. /\ pc \in [Request -> Stages]
        /\ caller \in [Request -> User \cup {None}]
        /\ route \in [Request -> Routes]
        /\ target \in [Request -> User \cup {None}]
        /\ answer \in [Request -> {0, 200, 403, 404, 500}]
        /\ pending \in [Request -> SUBSET Actions]
        /\ audit \in [Request -> SUBSET Actions]
        /\ codes \in [User -> SUBSET Codes]
        /\ manager \in [User -> User \cup {None}]
        /\ ctxReports \in [Request -> SUBSET User]
        /\ ctxCodes \in [Request -> SUBSET Codes]
        /\ codesSeen \in [Request -> SUBSET Codes]
        /\ reportsSeen \in [Request -> SUBSET User]
        /\ \A r \in Request : pc[r] # "new" => caller[r] \in User /\ target[r] \in User
    BY DEF Typed, TypeOK
  <2> USE DEF Given, Answered, Step, asked, records, context, seen
  <2>1. ASSUME NEW u \in User, NEW c \in Codes, ChangeCodes(u, c)
        PROVE  Inv'
    <3> SUFFICES ASSUME NEW r \in Request, Given(r)
                 PROVE  Allowed(r)'
      BY <2>1 DEF ChangeCodes
    <3>1. codesSeen[r] \subseteq codesSeen'[r] /\ reportsSeen[r] \subseteq reportsSeen'[r]
      BY <2>0, <2>1 DEF ChangeCodes, See
    <3> QED
      BY <2>1, <3>1, MoreAllows DEF ChangeCodes
  <2>2. ASSUME NEW u \in User, NEW m \in User, Reassign(u, m)
        PROVE  Inv'
    <3> SUFFICES ASSUME NEW r \in Request, Given(r)
                 PROVE  Allowed(r)'
      BY <2>2 DEF Reassign
    <3>1. codesSeen[r] \subseteq codesSeen'[r] /\ reportsSeen[r] \subseteq reportsSeen'[r]
      BY <2>0, <2>2 DEF Reassign, See
    <3> QED
      BY <2>2, <3>1, MoreAllows DEF Reassign
  <2>3. ASSUME NEW r \in Request, NEW u \in User, NEW t \in User, NEW e \in Routes,
               NEW p \in BOOLEAN, Arrive(r, u, e, t, p)
        PROVE  Inv'
    BY <2>0, <2>3 DEF Arrive
  <2>4. ASSUME NEW r \in Request, ProceedSteps(r)
        PROVE  Inv'
    <3>1. CASE Enter(r)
      BY <2>0, <3>1 DEF Enter
    <3>2. CASE Checkout(r)
      BY <2>0, <3>2 DEF Checkout
    <3>3. CASE CheckoutTimeout(r)
      BY <2>0, <3>3 DEF CheckoutTimeout
    <3>4. CASE ReadReports(r)
      BY <2>0, <3>4 DEF ReadReports
    <3>5. CASE ReadCodes(r)
      BY <2>0, <3>5 DEF ReadCodes
    <3>6. CASE AnswerAbsent(r)
      BY <2>0, <3>6 DEF AnswerAbsent
    <3>7. CASE Deny403(r)
      BY <2>0, <3>7 DEF Deny403
    <3>8. CASE Permit(r)
      <4>1. route[r] # "me" => DecisionOf(r).allowed
        BY <3>8 DEF Permit
      <4>2. ctxCodes[r] \subseteq codesSeen[r] /\ ctxReports[r] \subseteq reportsSeen[r]
        BY DEF Covered
      <4>3. Allowed(r)
        BY <4>1, <4>2, MoreAllows DEF DecisionOf
      <4> QED
        BY <2>0, <3>8, <4>3 DEF Permit
    <3>9. CASE ReadPayload(r)
      BY <2>0, <3>9 DEF ReadPayload
    <3>10. CASE RecordDenied(r)
      BY <2>0, <3>10 DEF RecordDenied
    <3>11. CASE LoseDenied(r)
      BY <2>0, <3>11 DEF LoseDenied
    <3>12. CASE Refuse(r)
      BY <2>0, <3>12 DEF Refuse, Told
    <3>13. CASE Commit(r)
      BY <2>0, <3>13 DEF Commit
    <3>14. CASE Abort(r)
      BY <2>0, <3>14 DEF Abort
    <3> QED
      BY <2>4, <3>1, <3>2, <3>3, <3>4, <3>5, <3>6, <3>7, <3>8, <3>9, <3>10, <3>11,
         <3>12, <3>13, <3>14 DEF ProceedSteps
  <2>5. CASE UNCHANGED vars
    BY <2>5 DEF vars
  <2> QED
    BY <2>1, <2>2, <2>3, <2>4, <2>5, NextCases DEF Proceed, ProceedSteps
<1>3. Inv => PermittedWhileAsked
  BY DEF PermittedWhileAsked, Given
<1> QED
  BY <1>1, <1>2, <1>3, TypedInvariant, ToldInvariant, CoveredInvariant, PTL DEF Spec

-----------------------------------------------------------------------------
(* What is on record.                                                      *)

\* A read of another's profile or of compensation is a sensitive one.
LEMMA OthersAreSensitive ==
  ASSUME NEW u, NEW t, NEW e, NEW cs, NEW reports, Within(u, t),
         (t # u /\ e = "profile") \/ e = "compensation",
         DecisionOn(u, t, e, cs, reports).allowed
  PROVE  DecisionOn(u, t, e, cs, reports).audit_required
<1>1. KindOf(e) = IF e = "profile" THEN "HR_PROFILE" ELSE "HR_COMPENSATION"
  BY DEF KindOf
<1>2. IsSensitive(Subject(u, cs, reports), KindOf(e), Descriptor(u, t))
  BY <1>1 DEF IsSensitive, Subject, Descriptor
<1> QED
  BY <1>2 DEF DecisionOn, Evaluate, EvaluateWith, Deny, Allow

\* What a request owes the trail is pending until it commits.
Owed ==
    \A r \in Request :
        /\ pc[r] \in {"ready", "payload", "commit"} /\ probing[r] =>
             "authz.tenant_value_supplied" \in pending[r]
        /\ pc[r] \in {"payload", "commit"} /\ (target[r] # caller[r] \/ route[r] = "compensation") =>
             "authz.allowed" \in pending[r]
        /\ Answered(r, 200) /\ probing[r] => "authz.tenant_value_supplied" \in audit[r]
        /\ Answered(r, 200) /\ (target[r] # caller[r] \/ route[r] = "compensation") =>
             "authz.allowed" \in audit[r]

\* An answer of 200 about another's record or about compensation, or to a
\* request that supplied an authority, has its entry.
THEOREM OnRecord == Spec => []AnsweredReadsOnRecord
<1>1. Init => Owed
  BY DEF Init, Owed, Answered
<1>2. Typed /\ Told /\ Owed /\ [Next]_vars => Owed'
  <2> SUFFICES ASSUME Typed, Told, Owed, [Next]_vars
               PROVE  Owed'
    OBVIOUS
  <2>0. /\ pc \in [Request -> Stages]
        /\ caller \in [Request -> User \cup {None}]
        /\ route \in [Request -> Routes]
        /\ target \in [Request -> User \cup {None}]
        /\ answer \in [Request -> {0, 200, 403, 404, 500}]
        /\ probing \in [Request -> BOOLEAN]
        /\ pending \in [Request -> SUBSET Actions]
        /\ audit \in [Request -> SUBSET Actions]
        /\ codes \in [User -> SUBSET Codes]
        /\ manager \in [User -> User \cup {None}]
        /\ ctxReports \in [Request -> SUBSET User]
        /\ ctxCodes \in [Request -> SUBSET Codes]
        /\ codesSeen \in [Request -> SUBSET Codes]
        /\ reportsSeen \in [Request -> SUBSET User]
        /\ \A r \in Request : pc[r] # "new" => caller[r] \in User /\ target[r] \in User
    BY DEF Typed, TypeOK
  <2> USE DEF Owed, Answered, Step, asked, records, context, seen
  <2>1. ASSUME NEW u \in User, NEW c \in Codes, ChangeCodes(u, c)
        PROVE  Owed'
    BY <2>1 DEF ChangeCodes
  <2>2. ASSUME NEW u \in User, NEW m \in User, Reassign(u, m)
        PROVE  Owed'
    BY <2>2 DEF Reassign
  <2>3. ASSUME NEW r \in Request, NEW u \in User, NEW t \in User, NEW e \in Routes,
               NEW p \in BOOLEAN, Arrive(r, u, e, t, p)
        PROVE  Owed'
    BY <2>0, <2>3 DEF Arrive
  <2>4. ASSUME NEW r \in Request, ProceedSteps(r)
        PROVE  Owed'
    <3>1. CASE Enter(r)
      BY <2>0, <3>1 DEF Enter
    <3>2. CASE Checkout(r)
      BY <2>0, <3>2 DEF Checkout
    <3>3. CASE CheckoutTimeout(r)
      BY <2>0, <3>3 DEF CheckoutTimeout
    <3>4. CASE ReadReports(r)
      BY <2>0, <3>4 DEF ReadReports
    <3>5. CASE ReadCodes(r)
      BY <2>0, <3>5 DEF ReadCodes, Actions
    <3>6. CASE AnswerAbsent(r)
      BY <2>0, <3>6 DEF AnswerAbsent
    <3>7. CASE Deny403(r)
      BY <2>0, <3>7 DEF Deny403
    <3>8. CASE Permit(r)
      <4>1. target[r] # caller[r] \/ route[r] = "compensation" =>
              route[r] # "me" /\ DecisionOf(r).audit_required
        <5> SUFFICES ASSUME target[r] # caller[r] \/ route[r] = "compensation"
                     PROVE  route[r] # "me" /\ DecisionOf(r).audit_required
          OBVIOUS
        <5>1. route[r] \in HrRoutes
          BY <2>0, <3>8 DEF Permit, Told, Routes, OwnRoutes, HrRoutes
        <5>2. Within(caller[r], target[r]) /\ DecisionOf(r).allowed /\ route[r] # "me"
          BY <5>1, <3>8 DEF Permit, Known, Visible, HrRoutes
        <5>3. (target[r] # caller[r] /\ route[r] = "profile") \/ route[r] = "compensation"
          BY <5>1 DEF HrRoutes
        <5> QED
          BY <5>2, <5>3, OthersAreSensitive DEF DecisionOf
      <4>2. target[r] # caller[r] \/ route[r] = "compensation" => "authz.allowed" \in pending'[r]
        BY <2>0, <3>8, <4>1 DEF Permit
      <4>3. pending[r] \subseteq pending'[r]
        BY <2>0, <3>8 DEF Permit
      <4>4. \A q \in Request \ {r} : pc'[q] = pc[q] /\ pending'[q] = pending[q]
        BY <2>0, <3>8 DEF Permit
      <4>5. pc[r] = "ready" /\ pc'[r] = "payload" /\ UNCHANGED <<asked, answer, audit>>
        BY <2>0, <3>8 DEF Permit
      <4> QED
        BY <2>0, <4>2, <4>3, <4>4, <4>5
    <3>9. CASE ReadPayload(r)
      BY <2>0, <3>9 DEF ReadPayload
    <3>10. CASE RecordDenied(r)
      BY <2>0, <3>10 DEF RecordDenied
    <3>11. CASE LoseDenied(r)
      BY <2>0, <3>11 DEF LoseDenied
    <3>12. CASE Refuse(r)
      BY <2>0, <3>12 DEF Refuse, Told
    <3>13. CASE Commit(r)
      BY <2>0, <3>13 DEF Commit
    <3>14. CASE Abort(r)
      BY <2>0, <3>14 DEF Abort
    <3> QED
      BY <2>4, <3>1, <3>2, <3>3, <3>4, <3>5, <3>6, <3>7, <3>8, <3>9, <3>10, <3>11,
         <3>12, <3>13, <3>14 DEF ProceedSteps
  <2>5. CASE UNCHANGED vars
    BY <2>5 DEF vars
  <2> QED
    BY <2>1, <2>2, <2>3, <2>4, <2>5, NextCases DEF Proceed, ProceedSteps
<1>3. Owed => AnsweredReadsOnRecord
  BY DEF Owed, AnsweredReadsOnRecord
<1> QED
  BY <1>1, <1>2, <1>3, TypedInvariant, ToldInvariant, PTL DEF Spec
=============================================================================
