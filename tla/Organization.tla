---------------------------- MODULE Organization ----------------------------
(***************************************************************************)
(* How a demo company is staffed (seed generators/organization.py): its    *)
(* headcount is split over the departments, people are hired one after the *)
(* other with their manager and persona, and the line of the manager       *)
(* persona is seen to.  Names, offices, salaries and dates are drawn and   *)
(* left out; weights are in percent.                                       *)
(***************************************************************************)
EXTENDS Integers, Sequences, SequencesExt

CONSTANTS
    Company,
    Headcounts,     \* company -> the headcounts asked for
    DEPARTMENTS,    \* company -> departments in order of (-weight, name)
    Weights,        \* company -> department -> percent
    Alphabetical,   \* company -> departments in order of name
    Personas,       \* company -> department -> its personas, head personas first
    Floor           \* TenantVolumes.scaled never asks for fewer users

\* Both lists of departments have the same, the Executive and HR among them.
ASSUME DepartmentsAssumption ==
    \A c \in Company :
        /\ DEPARTMENTS[c] \in Seq(STRING) /\ IsInjective(DEPARTMENTS[c])
        /\ Alphabetical[c] \in Seq(STRING) /\ IsInjective(Alphabetical[c])
        /\ Range(Alphabetical[c]) = Range(DEPARTMENTS[c])
        /\ Len(Alphabetical[c]) = Len(DEPARTMENTS[c])
        /\ {"Executive Management", "HR"} \subseteq Range(DEPARTMENTS[c])
        /\ \A d \in Range(DEPARTMENTS[c]) : Weights[c][d] \in 0 .. 100
        /\ Headcounts[c] \subseteq Nat

\* PERSONA_PLACEMENT, in the order HEAD_PERSONAS gives it, and ROLE_PERMISSIONS.
PERSONAS == {"employee.engineering", "manager.engineering", "employee.sales", "hr.generalist",
             "finance.analyst", "legal.counsel", "auditor.readonly", "admin.company",
             "comms.sender", "employee.delta"}
ROLES == {"Company Admin", "Employee", "Manager", "HR", "Finance", "Legal", "Auditor"}

ASSUME PersonasAssumption ==
    \A c \in Company : \A d \in Range(DEPARTMENTS[c]) :
        /\ Personas[c][d] \in Seq(PERSONAS)
        /\ \A i \in DOMAIN Personas[c][d] : LET p == Personas[c][d][i] IN
            /\ p = "admin.company" => i = 1 /\ d = "Executive Management"
            /\ p = "manager.engineering" => i = 1 /\ d = "Engineering"
            /\ p = "employee.engineering" => i > 1 /\ d = "Engineering"
            /\ p = "legal.counsel" => i = 1 /\ d = "Legal"

\* A persona has one place, and a department one persona at most: but for those
\* the scenarios have in Engineering, its manager and one who reports to him, and
\* the Executive, where it is the CEO's.
ASSUME PlacementAssumption ==
    \A c \in Company : \A d \in Range(DEPARTMENTS[c]) :
        /\ \A e \in Range(DEPARTMENTS[c]) : d # e => Range(Personas[c][d]) \cap Range(Personas[c][e]) = {}
        /\ IF d = "Engineering"
           THEN Personas[c][d] \in {<< >>, <<"manager.engineering", "employee.engineering">>}
           ELSE Len(Personas[c][d]) <= 1
        /\ d = "Executive Management" => Personas[c][d] \in {<< >>, <<"admin.company">>}

\* The weights are shares of one whole; and the floor gives every department its
\* head by them, and Engineering its manager and three more.
ASSUME WeightsAssumption ==
    /\ Floor \in Nat
    /\ \A c \in Company :
        /\ SumFunctionOnSet(Weights[c], Range(DEPARTMENTS[c])) = 100
        /\ Floor >= Len(DEPARTMENTS[c])
        /\ \A d \in Range(DEPARTMENTS[c]) :
            /\ Floor * Weights[c][d] >= 100
            /\ d = "Engineering" => Floor * Weights[c][d] >= 400

\* No share is more than the head, the leads of a department and seven for each.
ASSUME SpanAssumption ==
    \A c \in Company : \A t \in Headcounts[c] : \A d \in Range(DEPARTMENTS[c]) :
        (t * Weights[c][d]) \div 100 <= 64

VARIABLES
    company, total,
    stage,
    counts,         \* department -> members
    turn,           \* the department in hand
    left,           \* members the department in hand has still to get
    personas,       \* and its personas nobody has
    leads,          \* and its team leads: how many to come, and who there is
    users,          \* who is hired
    heads           \* department -> its head
request == <<company, total>>
hiring == <<left, personas, leads>>
staffVars == <<request, stage, counts, turn, hiring, users, heads>>

Executive == "Executive Management"
Exec == 1           \* the CEO is hired first
Nobody == 0
keys == DEPARTMENTS[company]
Allocated == SumFunction(counts)

\* An entry made in a table.
With(table, key, value) ==
    [k \in DOMAIN table \cup {key} |-> IF k = key THEN value ELSE table[k]]

StaffInit ==
    /\ company \in Company
    /\ total \in Headcounts[company]
    /\ stage = "allocate"
    /\ counts = << >> /\ turn = 1
    /\ left = 0 /\ personas = << >> /\ leads = [due |-> 0, hired |-> << >>]
    /\ users = << >> /\ heads = << >>

-----------------------------------------------------------------------------
(* _allocate.                                                              *)
Refuse ==
    /\ stage = "allocate" /\ total < Len(keys)
    /\ stage' = "failed"
    /\ UNCHANGED <<request, counts, turn, hiring, users, heads>>

AtLeastOne(n) == IF n < 1 THEN 1 ELSE n

Divide ==
    /\ stage = "allocate" /\ total >= Len(keys)
    /\ counts' = [d \in Range(keys) |-> AtLeastOne((total * Weights[company][d]) \div 100)]
    /\ stage' = "balance"
    /\ UNCHANGED <<request, turn, hiring, users, heads>>

NextTurn == turn' = (turn % Len(keys)) + 1

\* Faulty variant: nothing is taken back.
BalanceUpwards ==
    /\ stage = "balance" /\ Allocated < total
    /\ counts' = [counts EXCEPT ![keys[turn]] = @ + 1]
    /\ NextTurn
    /\ UNCHANGED <<request, stage, hiring, users, heads>>

\* The floors pushed the sum over the total, or rounding left it below: the
\* departments give or take one in turn, none its last one.
Balance ==
    /\ stage = "balance" /\ Allocated # total
    /\ LET d == keys[turn]
       IN  counts' = IF Allocated < total THEN [counts EXCEPT ![d] = @ + 1]
                     ELSE [counts EXCEPT ![d] = AtLeastOne(@ - 1)]
    /\ NextTurn
    /\ UNCHANGED <<request, stage, hiring, users, heads>>

-----------------------------------------------------------------------------
\* _role_for
RoleFor(department, persona) ==
    CASE persona = "auditor.readonly" -> "Auditor"
      [] persona = "admin.company" -> "Company Admin"
      [] persona = "manager.engineering" -> "Manager"
      [] OTHER -> IF department \in {"HR", "Finance", "Legal"} THEN department ELSE "Employee"

Hire(department, manager, manages, persona, role) ==
    users' = Append(users, [department |-> department, manager |-> manager,
                            is_manager |-> manages, persona |-> persona, role |-> role])
Hired == Len(users) + 1

\* The CEO carries the persona of the administrator where there is one.
Administrated ==
    Personas[company][Executive] # << >> /\ Head(Personas[company][Executive]) = "admin.company"

\* Faulty variant: personas in order of name, whoever is to lead.
TakeUpByName(position) ==
    LET d == Alphabetical[company][position]
    IN  /\ turn' = position
        /\ left' = counts[d] - (IF d = Executive THEN 1 ELSE 0)
        /\ personas' = IF d = Executive /\ Administrated THEN << >> ELSE Reverse(Personas[company][d])
        /\ leads' = [due |-> 0, hired |-> << >>]

TakeUp(position) ==
    LET d == Alphabetical[company][position]
    IN  /\ turn' = position
        /\ left' = counts[d] - (IF d = Executive THEN 1 ELSE 0)
        /\ personas' = IF d = Executive /\ Administrated THEN Tail(Personas[company][d])
                       ELSE Personas[company][d]
        /\ leads' = [due |-> 0, hired |-> << >>]

department == Alphabetical[company][turn]

HireCEO ==
    /\ stage = "balance" /\ Allocated = total
    /\ Hire(Executive, Nobody, TRUE, IF Administrated THEN "admin.company" ELSE "", "Company Admin")
    /\ heads' = With(heads, Executive, Exec)
    /\ TakeUp(1)
    /\ stage' = "head"
    /\ UNCHANGED <<request, counts>>

FirstPersona == IF personas = << >> THEN "" ELSE Head(personas)
RestPersonas == IF personas = << >> THEN << >> ELSE Tail(personas)

\* Large departments get team leads between head and members.
LeadsDue(n) == IF n > 12 THEN (IF (n + 7) \div 8 < 8 THEN (n + 7) \div 8 ELSE 8) ELSE 0

HireHead ==
    /\ stage = "head" /\ left > 0
    /\ IF department \in DOMAIN heads
       THEN UNCHANGED <<users, heads, left, personas>> /\ leads' = [leads EXCEPT !.due = LeadsDue(left)]
       ELSE /\ Hire(department, Exec, TRUE, FirstPersona, RoleFor(department, FirstPersona))
            /\ heads' = With(heads, department, Hired)
            /\ left' = left - 1
            /\ personas' = RestPersonas
            /\ leads' = [leads EXCEPT !.due = LeadsDue(left - 1)]
    /\ stage' = "staff"
    /\ UNCHANGED <<request, counts, turn>>

HireLead ==
    /\ stage = "staff" /\ leads.due > 0
    /\ Hire(department, heads[department], TRUE, "", RoleFor(department, ""))
    /\ leads' = [due |-> leads.due - 1, hired |-> Append(leads.hired, Hired)]
    /\ left' = left - 1
    /\ UNCHANGED <<request, stage, counts, turn, personas, heads>>

\* Members go to the leads in turn, or to the head.
ManagerOfNext ==
    IF leads.hired = << >> THEN heads[department]
    ELSE leads.hired[((Len(users) - Last(leads.hired)) % Len(leads.hired)) + 1]

HireMember ==
    /\ stage = "staff" /\ leads.due = 0 /\ left > 0
    /\ Hire(department, ManagerOfNext, FALSE, FirstPersona, RoleFor(department, FirstPersona))
    /\ personas' = RestPersonas
    /\ left' = left - 1
    /\ UNCHANGED <<request, stage, counts, turn, leads, heads>>

NextDepartment ==
    /\ left = 0 /\ stage \in {"head", "staff"}
    /\ IF turn < Len(keys)
       THEN TakeUp(turn + 1) /\ stage' = "head"
       ELSE stage' = "reports" /\ UNCHANGED <<turn, hiring>>
    /\ UNCHANGED <<request, counts, users, heads>>

-----------------------------------------------------------------------------
(* _ensure_manager_persona_has_reports.                                    *)
MIN_MANAGER_REPORTS == 3
WithPersona(p) == {u \in DOMAIN users : users[u].persona = p}
Reports(u) == {v \in DOMAIN users : users[v].manager = u}

\* Who may be put under manager m: colleagues of the department, not a persona,
\* those who manage nobody first.
Candidates(m) ==
    {u \in DOMAIN users \ (Reports(m) \cup {m}) :
        /\ users[u].department = users[m].department
        /\ users[u].persona = "" /\ users[u].manager # Nobody}
Precedes(u, v) ==
    IF users[u].is_manager = users[v].is_manager THEN u < v ELSE users[v].is_manager

\* The persona that the scenarios pair with the manager reports to him.
PairPersonas ==
    /\ stage = "reports"
    /\ \E m \in WithPersona("manager.engineering") :
        users' = [u \in DOMAIN users |->
            CASE u = m -> [users[u] EXCEPT !.is_manager = TRUE]
              [] users[u].persona = "employee.engineering" -> [users[u] EXCEPT !.manager = m]
              [] OTHER -> users[u]]
    /\ stage' = "enough"
    /\ UNCHANGED <<request, counts, turn, hiring, heads>>

Lacking(m) == MIN_MANAGER_REPORTS - Cardinality(Reports(m))

MoveReports ==
    /\ stage = "enough"
    /\ \E m \in WithPersona("manager.engineering") :
        LET c == Candidates(m)
            moved == {u \in c : Cardinality({v \in c : Precedes(v, u)}) < Lacking(m)}
        IN  /\ users' = [u \in DOMAIN users |->
                            IF u \in moved THEN [users[u] EXCEPT !.manager = m] ELSE users[u]]
            /\ stage' = IF Cardinality(c) < Lacking(m) THEN "failed" ELSE "built"
    /\ UNCHANGED <<request, counts, turn, hiring, heads>>

NoManagerPersona ==
    /\ stage = "reports" /\ WithPersona("manager.engineering") = {}
    /\ stage' = "built"
    /\ UNCHANGED <<request, counts, turn, hiring, users, heads>>

StaffNext ==
    \/ Refuse \/ Divide \/ Balance
    \/ HireCEO \/ HireHead \/ HireLead \/ HireMember \/ NextDepartment
    \/ PairPersonas \/ MoveReports \/ NoManagerPersona

StaffStages == {"allocate", "balance", "head", "staff", "reports", "enough", "built", "failed"}

StaffTypeOK ==
    /\ stage \notin {"allocate", "failed"} =>
        DOMAIN counts = Range(keys) /\ \A d \in DOMAIN counts : counts[d] \in 1 .. total
    /\ turn \in 1 .. Len(keys)
    /\ left \in 0 .. total /\ leads.due \in 0 .. left
    /\ \A u \in DOMAIN users :
        /\ users[u].department \in Range(keys)
        /\ users[u].manager \in {Nobody} \cup DOMAIN users
    /\ \A d \in DOMAIN heads : heads[d] \in DOMAIN users /\ users[heads[d]].department = d

-----------------------------------------------------------------------------
\* _generate_company adds the role of a manager to the primary one.
Roles(u) == {users[u].role} \cup (IF users[u].is_manager THEN {"Manager"} ELSE {})

\* The line of command above u: the manager, the manager's, and so on to Nobody.
Above(u) == IF u = Nobody THEN Nobody ELSE users[u].manager

\* FR-034: one person without a manager, whom everybody reports to in the end,
\* through people who hold the role of a manager; and every department a head
\* of its own.
OneLine ==
    stage = "built" =>
        /\ {u \in DOMAIN users : users[u].manager = Nobody} = {Exec}
        /\ \A u \in DOMAIN users : Above(Above(Above(Above(u)))) = Nobody
        /\ \A u \in DOMAIN users : Reports(u) # {} => "Manager" \in Roles(u)
        /\ DOMAIN heads = Range(keys)

\* FR-025b: whatever the headcount, every persona is somebody, and one alone,
\* in the department it is placed in, and the manager of the scenarios has his
\* three reports, the employee among them.
PersonasPlaced ==
    stage = "built" =>
        /\ \A d \in Range(keys) : \A p \in Range(Personas[company][d]) :
            \E u \in DOMAIN users : WithPersona(p) = {u} /\ users[u].department = d
        /\ \A m \in WithPersona("manager.engineering") :
            /\ Cardinality(Reports(m)) >= MIN_MANAGER_REPORTS
            /\ WithPersona("employee.engineering") \subseteq Reports(m)
            /\ heads["Engineering"] = m

\* What was asked for is what is hired, department by department.
AskedFor ==
    stage = "built" =>
        /\ Len(users) = total
        /\ \A d \in Range(keys) :
            Cardinality({u \in DOMAIN users : users[u].department = d}) = counts[d]

\* A team lead has no more than seven reports ("an implausible span of control").
SpanKept ==
    stage = "built" =>
        \A u \in DOMAIN users :
            users[u].is_manager /\ u \notin Range(heads) => Cardinality(Reports(u)) <= 7

Staffed == AskedFor /\ SpanKept

\* config.py scaled: at the floor and above, generation never fails.
FloorSuffices == total >= Floor => stage # "failed"

\* A headcount is split and hired into a company the scenarios can be played in.
Staffing == StaffTypeOK /\ OneLine /\ PersonasPlaced /\ Staffed /\ FloorSuffices
=============================================================================
