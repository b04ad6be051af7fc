--------------------------- MODULE DatasetProofs ---------------------------
(***************************************************************************)
(* Theorems about the company that is staffed (Organization) and what is   *)
(* made for it (Dataset), for any departments, weights, placements of      *)
(* personas, headcounts and volumes.                                       *)
(***************************************************************************)
EXTENDS Dataset, Sums, SequenceTheorems, TLAPS

-----------------------------------------------------------------------------
(* The staff.  OneLine says something only of the end: StaffInv says what  *)
(* every hire leaves behind.                                               *)

\* Who somebody is in the scenarios, if anybody.
Names == PERSONAS \cup {""}

Person == [department : Range(keys), manager : Nat, is_manager : BOOLEAN,
           persona : Names, role : ROLES]

StaffTyped ==
    /\ company \in Company /\ total \in Headcounts[company]
    /\ stage \in StaffStages \cup RecordStages /\ item \in Nat
    /\ stage \notin {"allocate", "failed"} => counts \in [Range(keys) -> 1 .. total]
    /\ turn \in 1 .. Len(keys)
    /\ left \in 0 .. total /\ personas \in Seq(PERSONAS)
    /\ leads \in [due : Nat, hired : Seq(Nat)] /\ leads.due <= left
    /\ users \in Seq(Person)
    /\ DOMAIN heads \subseteq Range(keys)

\* A head leads the department and answers to the Exec, who answers to nobody; a
\* team lead answers to the head; everybody else to a head or a team lead.
Answers(u) ==
    LET d == users[u].department m == users[u].manager
    IN  /\ u = Exec <=> m = Nobody
        /\ u # Exec => m \in DOMAIN users /\ users[m].is_manager
        /\ u # Exec /\ users[u].is_manager =>
             d \in DOMAIN heads /\ m = (IF heads[d] = u THEN Exec ELSE heads[d])

\* Who carries a persona that is to lead does, and the employee of the scenarios
\* leads nobody.
Carries(u) ==
    LET d == users[u].department p == users[u].persona
    IN  /\ p = "manager.engineering" => d = "Engineering"
        /\ p = "legal.counsel" => d = "Legal"
        /\ p \in {"manager.engineering", "legal.counsel"} =>
             u # Exec /\ d \in DOMAIN heads /\ heads[d] = u
        /\ p = "employee.engineering" =>
             u # Exec /\ d = "Engineering" /\ ~ users[u].is_manager

Leads(d) ==
    /\ heads[d] \in DOMAIN users
    /\ users[heads[d]].department = d /\ users[heads[d]].is_manager

\* The personas of the department in hand nobody has yet.
Waiting ==
    /\ stage = "head" =>
        personas = IF department = Executive /\ Administrated THEN Tail(Personas[company][department])
                   ELSE Personas[company][department]
    /\ stage = "staff" => \A i \in DOMAIN personas :
        /\ personas[i] \notin {"manager.engineering", "legal.counsel"}
        /\ personas[i] = "employee.engineering" => department = "Engineering"

\* The departments before the one in hand have heads, and no later one has.
Headed ==
    /\ stage \in {"allocate", "balance"} => users = << >> /\ heads = << >>
    /\ stage \notin {"allocate", "balance", "failed"} =>
        users # << >> /\ Executive \in DOMAIN heads /\ heads[Executive] = Exec
    /\ stage \in {"head", "staff"} =>
        /\ \A i \in 1 .. turn - 1 : Alphabetical[company][i] \in DOMAIN heads
        /\ \A i \in turn .. Len(keys) :
             Alphabetical[company][i] \in DOMAIN heads =>
                Alphabetical[company][i] = Executive \/ (stage = "staff" /\ i = turn)
    /\ stage = "head" => left > 0 \/ department \in DOMAIN heads
    /\ stage = "staff" => department \in DOMAIN heads
    /\ stage \notin {"allocate", "balance", "failed", "head", "staff"} => DOMAIN heads = Range(keys)

TeamLeads == \A i \in DOMAIN leads.hired : leads.hired[i] \in DOMAIN users /\ users[leads.hired[i]].is_manager

StaffInv ==
    /\ StaffTyped
    /\ \A u \in DOMAIN users : Answers(u) /\ Carries(u)
    /\ \A d \in DOMAIN heads : Leads(d)
    /\ Waiting /\ Headed /\ TeamLeads

\* What the constants say of the company in hand.
LEMMA Placement ==
  ASSUME StaffTyped
  PROVE  /\ keys \in Seq(STRING) /\ Alphabetical[company] \in Seq(STRING)
         /\ Range(Alphabetical[company]) = Range(keys)
         /\ Len(Alphabetical[company]) = Len(keys)
         /\ IsInjective(Alphabetical[company])
         /\ Executive \in Range(keys) /\ "HR" \in Range(keys)
         /\ total \in Nat
         /\ \A d \in Range(keys) : Weights[company][d] \in 0 .. 100
         /\ \A d \in Range(keys) : Personas[company][d] \in Seq(PERSONAS)
         /\ \A d \in Range(keys) : \A i \in DOMAIN Personas[company][d] :
              /\ Personas[company][d][i] = "admin.company" => i = 1 /\ d = Executive
              /\ Personas[company][d][i] = "manager.engineering" => i = 1 /\ d = "Engineering"
              /\ Personas[company][d][i] = "employee.engineering" => i > 1 /\ d = "Engineering"
              /\ Personas[company][d][i] = "legal.counsel" => i = 1 /\ d = "Legal"
<1>1. company \in Company /\ total \in Headcounts[company]
  BY DEF StaffTyped
<1>2. \A d \in Range(keys) : Personas[company][d] \in Seq(PERSONAS)
  BY <1>1, PersonasAssumption DEF keys
<1>4. \A d \in Range(keys) : \A i \in DOMAIN Personas[company][d] :
              /\ Personas[company][d][i] = "admin.company" => i = 1 /\ d = Executive
              /\ Personas[company][d][i] = "manager.engineering" => i = 1 /\ d = "Engineering"
              /\ Personas[company][d][i] = "employee.engineering" => i > 1 /\ d = "Engineering"
              /\ Personas[company][d][i] = "legal.counsel" => i = 1 /\ d = "Legal"
  BY <1>1, PersonasAssumption DEF keys, Executive
<1> QED
  BY <1>1, <1>2, <1>4, DepartmentsAssumption DEF keys, Executive

\* The department in hand is one of the company's.
LEMMA InHandOne ==
  ASSUME StaffTyped
  PROVE  department \in Range(keys)
<1>1. Alphabetical[company] \in Seq(STRING) /\ Len(Alphabetical[company]) = Len(keys)
      /\ Range(Alphabetical[company]) = Range(keys) /\ turn \in 1 .. Len(keys)
  BY Placement DEF StaffTyped
<1>2. turn \in DOMAIN Alphabetical[company]
  BY <1>1
<1> QED
  BY <1>1, <1>2 DEF department, Range

\* A row, and the row with one more at the end.
LEMMA Row ==
  ASSUME NEW S, NEW s \in Seq(S)
  PROVE  /\ Len(s) \in Nat /\ DOMAIN s = 1 .. Len(s) /\ (s # << >> => Len(s) > 0)
         /\ \A i \in DOMAIN s : s[i] \in S
  OBVIOUS

LEMMA Longer ==
  ASSUME NEW S, NEW s \in Seq(S), NEW x \in S
  PROVE  /\ Append(s, x) \in Seq(S) /\ Append(s, x) # << >>
         /\ Len(Append(s, x)) = Len(s) + 1 /\ DOMAIN Append(s, x) = 1 .. Len(s) + 1
         /\ Append(s, x)[Len(s) + 1] = x
         /\ \A i \in 1 .. Len(s) : Append(s, x)[i] = s[i]
<1>1. /\ Append(s, x) \in Seq(S)
      /\ Len(Append(s, x)) = Len(s) + 1 /\ DOMAIN Append(s, x) = 1 .. Len(s) + 1
      /\ Append(s, x)[Len(s) + 1] = x
      /\ \A i \in 1 .. Len(s) : Append(s, x)[i] = s[i]
  OBVIOUS
<1>2. Append(s, x) # << >>
  BY AppendProperties
<1> QED
  BY <1>1, <1>2

\* One more is hired, under somebody who manages, perhaps as the head of a
\* department without one.
LEMMA OneMore ==
  ASSUME StaffTyped, \A u \in DOMAIN users : Answers(u) /\ Carries(u),
         \A d \in DOMAIN heads : Leads(d), users # << >>,
         company' = company,
         NEW d \in Range(keys), NEW m \in DOMAIN users, NEW manages \in BOOLEAN,
         NEW p \in Names, NEW r \in ROLES, NEW n, n = Hired, Hire(d, m, manages, p, r),
         users[m].is_manager,
         DOMAIN heads \subseteq DOMAIN heads',
         \A e \in DOMAIN heads : heads'[e] = heads[e],
         \A e \in DOMAIN heads' \ DOMAIN heads : e = d /\ heads'[e] = n /\ manages,
         manages => d \in DOMAIN heads' /\ m = (IF heads'[d] = n THEN Exec ELSE heads'[d]),
         p = "manager.engineering" => d = "Engineering",
         p = "legal.counsel" => d = "Legal",
         p \in {"manager.engineering", "legal.counsel"} => d \in DOMAIN heads' /\ heads'[d] = n,
         p = "employee.engineering" => d = "Engineering" /\ ~ manages
  PROVE  /\ users' \in Seq(Person')
         /\ \A u \in DOMAIN users' : Answers(u)' /\ Carries(u)'
         /\ \A e \in DOMAIN heads' : Leads(e)'
         /\ DOMAIN users \subseteq DOMAIN users' /\ n \in DOMAIN users'
         /\ \A u \in DOMAIN users : users'[u] = users[u]
         /\ users'[n].is_manager = manages
<1> DEFINE new == [department |-> d, manager |-> m, is_manager |-> manages, persona |-> p, role |-> r]
<1>1. /\ users \in Seq(Person) /\ Person' = Person /\ Len(users) \in Nat /\ Len(users) > 0
      /\ DOMAIN users = 1 .. Len(users)
      /\ m \in Nat
  <2>1. users \in Seq(Person) /\ users # << >>
    BY DEF StaffTyped
  <2>2. Person' = Person
    BY DEF Person, keys, Names, PERSONAS, ROLES
  <2>3. Len(users) \in Nat /\ DOMAIN users = 1 .. Len(users) /\ Len(users) > 0
    BY <2>1, Row
  <2> QED
    BY <2>1, <2>2, <2>3
<1>2. new \in Person
  BY <1>1 DEF Person
<1>3. users' = Append(users, new)
  BY DEF Hire
<1> HIDE DEF new
<1>4. /\ users' \in Seq(Person) /\ Len(users') = n /\ DOMAIN users' = 1 .. n
      /\ users'[n] = new
      /\ \A u \in DOMAIN users : u \in DOMAIN users' /\ users'[u] = users[u]
      /\ n \in DOMAIN users' /\ n \notin DOMAIN users /\ n # Exec /\ m # Nobody /\ n # Nobody
      /\ \A u \in DOMAIN users' : u \in DOMAIN users \/ u = n
  <2>1. /\ users' \in Seq(Person) /\ Len(users') = Len(users) + 1
        /\ DOMAIN users' = 1 .. Len(users) + 1 /\ users'[Len(users) + 1] = new
        /\ \A u \in 1 .. Len(users) : users'[u] = users[u]
    BY <1>1, <1>2, <1>3, Longer
  <2>2. n = Len(users) + 1
    BY DEF Hired
  <2> HIDE DEF Hire
  <2> QED
    BY <1>1, <2>1, <2>2 DEF Exec, Nobody
<1>5. new.department = d /\ new.manager = m /\ new.is_manager = manages /\ new.persona = p
  BY DEF new
<1>6. \A e \in DOMAIN heads' : Leads(e)'
  <2> SUFFICES ASSUME NEW e \in DOMAIN heads'
               PROVE  Leads(e)'
    OBVIOUS
  <2>1. CASE e \in DOMAIN heads
    <3>1. Leads(e) /\ heads'[e] = heads[e]
      BY <2>1
    <3>2. heads[e] \in DOMAIN users' /\ users'[heads[e]] = users[heads[e]]
      BY <1>4, <3>1 DEF Leads
    <3> QED
      BY <3>1, <3>2 DEF Leads
  <2>2. CASE e \notin DOMAIN heads
    BY <1>4, <1>5, <2>2 DEF Leads
  <2> QED  BY <2>1, <2>2
<1>7. ASSUME NEW u \in DOMAIN users
      PROVE  Answers(u)' /\ Carries(u)'
  <2>1. users'[u] = users[u] /\ u # n /\ u \in DOMAIN users'
    BY <1>4
  <2>2. users[u].department \in DOMAIN heads =>
            /\ users[u].department \in DOMAIN heads'
            /\ heads'[users[u].department] = heads[users[u].department]
    OBVIOUS
  <2>3. Answers(u)'
    <3>1. users[u].manager \in DOMAIN users =>
            users[u].manager \in DOMAIN users' /\ users'[users[u].manager] = users[users[u].manager]
      BY <1>4
    <3> QED
      BY <2>1, <2>2, <3>1 DEF Answers
  <2>4. Carries(u)'
    BY <2>1, <2>2 DEF Carries
  <2> QED  BY <2>3, <2>4
<1>8. Answers(n)' /\ Carries(n)'
  <2>1. Answers(n)'
    BY <1>4, <1>5 DEF Answers
  <2>2. Carries(n)'
    BY <1>4, <1>5 DEF Carries
  <2> QED  BY <2>1, <2>2
<1> QED
  BY <1>1, <1>4, <1>5, <1>6, <1>7, <1>8

LEMMA DepartmentsFinite ==
  ASSUME StaffTyped
  PROVE  IsFiniteSet(Range(keys))
<1>0. keys \in Seq(STRING)
  BY Placement
<1>1. DOMAIN keys = 1 .. Len(keys) /\ Len(keys) \in Nat
  BY <1>0
<1>2. IsFiniteSet(1 .. Len(keys))
  BY <1>1, FS_Interval
<1>3. keys \in Surjection(1 .. Len(keys), Range(keys))
  BY <1>0, <1>1 DEF Surjection, Range
<1> QED
  BY <1>2, <1>3, FS_Surjection

\* No department has more members than all of them.
LEMMA NoneAboveAll ==
  ASSUME StaffTyped, counts \in [Range(keys) -> Nat], NEW d \in Range(keys)
  PROVE  Allocated \in Nat /\ counts[d] <= Allocated
<1>1. /\ SumFunctionOnSet(counts, Range(keys)) \in Nat
      /\ SumFunctionOnSet(counts, {d}) <= SumFunctionOnSet(counts, Range(keys))
  BY DepartmentsFinite, SumsNest
<1>2. SumFunctionOnSet(counts, {d}) = counts[d]
  BY SumsOfFew
<1>3. Allocated = SumFunctionOnSet(counts, Range(keys))
  BY DEF Allocated, SumFunction
<1> QED
  BY <1>1, <1>2, <1>3

LEMMA StaffBegins ==
  ASSUME DataInit
  PROVE  StaffInv
<1>1. /\ company \in Company /\ total \in Headcounts[company] /\ stage = "allocate" /\ item = 0
      /\ turn = 1 /\ left = 0 /\ personas = << >> /\ leads = [due |-> 0, hired |-> << >>]
      /\ users = << >> /\ heads = << >>
  BY DEF DataInit, StaffInit
<1>2. /\ total \in Nat /\ keys \in Seq(STRING) /\ Executive \in Range(keys)
  BY <1>1, DepartmentsAssumption DEF keys, Executive
<1>3. Len(keys) \in Nat /\ Len(keys) > 0
  BY <1>2 DEF Range
<1>4. StaffTyped
  BY <1>1, <1>2, <1>3 DEF StaffTyped, StaffStages
<1> QED
  BY <1>1, <1>4 DEF StaffInv, Waiting, Headed, TeamLeads

LEMMA Share ==
  ASSUME NEW t \in Nat, NEW w \in 0 .. 100
  PROVE  (t * w) \div 100 \in 0 .. t
<1>1. w \in Int /\ 0 <= w /\ w <= 100
  OBVIOUS
<1> DEFINE x == t * w
<1>2. x \in Int /\ 0 <= x /\ x <= 100 * t
  BY <1>1
<1> HIDE DEF x
<1> QED
  BY <1>2 DEF x

\* While nobody is hired.
LEMMA AllocationSteps ==
  ASSUME StaffInv, item' = item, Refuse \/ Divide \/ Balance
  PROVE  StaffInv'
<1>0. /\ StaffTyped /\ total \in Nat /\ keys \in Seq(STRING)
      /\ \A d \in Range(keys) : Weights[company][d] \in 0 .. 100
      /\ Executive \in Range(keys)
  BY Placement DEF StaffInv
<1>a. Len(keys) \in Nat /\ Len(keys) > 0
  <2> HIDE DEF keys
  <2> QED  BY <1>0 DEF Range
<1>1. /\ company' = company /\ total' = total /\ keys' = keys /\ UNCHANGED <<hiring, users, heads>>
      /\ stage \in {"allocate", "balance"} /\ stage' \in {"balance", "failed"}
      /\ Person' = Person
  BY DEF Refuse, Divide, Balance, request, keys, Person, Names, PERSONAS, ROLES
<1>2. users = << >> /\ heads = << >>
  BY <1>1 DEF StaffInv, Headed
<1>3. turn' \in 1 .. Len(keys)
  <2>1. turn \in 1 .. Len(keys)
    BY <1>0 DEF StaffTyped
  <2>2. CASE Balance
    BY <1>0, <2>1, <2>2 DEF Balance, NextTurn
  <2>3. CASE Refuse \/ Divide
    BY <2>1, <2>3 DEF Refuse, Divide
  <2> QED  BY <2>2, <2>3
<1>4. stage' # "failed" => counts' \in [Range(keys) -> 1 .. total]
  <2>1. CASE Divide
    <3>1. SUFFICES ASSUME NEW d \in Range(keys)
                   PROVE  AtLeastOne((total * Weights[company][d]) \div 100) \in 1 .. total
      BY <2>1 DEF Divide
    <3>2. total >= 1
      BY <1>0, <2>1 DEF Divide, Range
    <3>3. (total * Weights[company][d]) \div 100 \in 0 .. total
      BY <1>0, Share
    <3> DEFINE x == (total * Weights[company][d]) \div 100
    <3> HIDE DEF x
    <3>4. AtLeastOne(x) \in 1 .. total
      BY <1>0, <3>2, <3>3 DEF AtLeastOne, x
    <3> QED
      BY <3>4 DEF x
  <2>2. CASE Balance
    <3>1. stage = "balance" /\ Allocated # total
      BY <2>2 DEF Balance
    <3>2. counts \in [Range(keys) -> 1 .. total]
      BY <1>0, <3>1 DEF StaffTyped
    <3> DEFINE d == keys[turn]
    <3>3. d \in Range(keys)
      BY <1>0 DEF StaffTyped, Range
    <3>4. counts' = IF Allocated < total THEN [counts EXCEPT ![d] = @ + 1]
                    ELSE [counts EXCEPT ![d] = AtLeastOne(@ - 1)]
      BY <2>2 DEF Balance
    <3> HIDE DEF d
    <3>5. Allocated \in Nat /\ counts[d] <= Allocated
      <4>1. counts \in [Range(keys) -> Nat]
        BY <1>0, <3>2
      <4> QED  BY <1>0, <3>3, <4>1, NoneAboveAll
    <3>6. CASE Allocated < total
      BY <1>0, <3>2, <3>3, <3>4, <3>5, <3>6
    <3>7. CASE ~ (Allocated < total)
      BY <1>0, <3>2, <3>3, <3>4, <3>7 DEF AtLeastOne
    <3> QED  BY <3>6, <3>7
  <2>3. CASE Refuse
    BY <2>3 DEF Refuse
  <2> QED  BY <2>1, <2>2, <2>3
<1>5. StaffTyped'
  <2>1. /\ left' \in 0 .. total' /\ personas' \in Seq(PERSONAS)
        /\ leads' \in [due : Nat, hired : Seq(Nat)] /\ leads'.due <= left'
        /\ users' \in Seq(Person') /\ DOMAIN heads' \subseteq Range(keys)'
    BY <1>0, <1>1 DEF StaffTyped, hiring
  <2> QED
    BY <1>0, <1>1, <1>3, <1>4, <2>1 DEF StaffTyped, StaffStages
<1>6. \A u \in DOMAIN users' : Answers(u)' /\ Carries(u)'
  BY <1>1, <1>2
<1>7. \A d \in DOMAIN heads' : Leads(d)'
  BY <1>1, <1>2
<1>8. Waiting' /\ Headed'
  BY <1>1, <1>2 DEF Waiting, Headed
<1>9. TeamLeads'
  BY <1>1 DEF StaffInv, TeamLeads, hiring
<1> QED
  BY <1>5, <1>6, <1>7, <1>8, <1>9 DEF StaffInv

\* The next department: nobody of it is hired, but the Exec of the Executive.
LEMMA Taken ==
  ASSUME StaffTyped, NEW position \in 1 .. Len(keys), TakeUp(position),
         company' = company, counts' = counts, stage' = "head",
         counts \in [Range(keys) -> 1 .. total]
  PROVE  /\ turn' \in 1 .. Len(keys) /\ turn' = position
         /\ left' \in 0 .. total /\ personas' \in Seq(PERSONAS)
         /\ leads' \in [due : Nat, hired : Seq(Nat)] /\ leads'.due = 0 /\ leads'.hired = << >>
         /\ department' = Alphabetical[company][position]
         /\ left' > 0 \/ department' = Executive
         /\ Waiting'
<1> DEFINE d == Alphabetical[company][position]
<1>1. /\ turn' = position
      /\ left' = counts[d] - (IF d = Executive THEN 1 ELSE 0)
      /\ personas' = IF d = Executive /\ Administrated THEN Tail(Personas[company][d])
                     ELSE Personas[company][d]
      /\ leads' = [due |-> 0, hired |-> << >>]
  BY DEF TakeUp
<1>2. /\ Alphabetical[company] \in Seq(STRING) /\ Len(Alphabetical[company]) = Len(keys)
      /\ Range(Alphabetical[company]) = Range(keys) /\ total \in Nat
      /\ \A e \in Range(keys) : Personas[company][e] \in Seq(PERSONAS)
  BY Placement
<1>3. d \in Range(keys)
  <2>1. position \in DOMAIN Alphabetical[company]
    BY <1>2
  <2> QED
    BY <1>2, <2>1 DEF Range
<1>4. department' = d
  BY <1>1 DEF department
<1>5. Administrated' = Administrated
  BY DEF Administrated
<1> HIDE DEF d
<1>6. Administrated => Personas[company][Executive] # << >>
  BY DEF Administrated
<1>7. personas' \in Seq(PERSONAS)
  <2> DEFINE all == Personas[company][d]
  <2>1. all \in Seq(PERSONAS)
    BY <1>2, <1>3
  <2>2. d = Executive /\ Administrated => all # << >>
    BY <1>6
  <2>3. personas' = IF d = Executive /\ Administrated THEN Tail(all) ELSE all
    BY <1>1
  <2> HIDE DEF all
  <2>4. all # << >> => Tail(all) \in Seq(PERSONAS)
    BY <2>1, HeadTailProperties
  <2> QED  BY <2>1, <2>2, <2>3, <2>4
<1>8. Waiting'
  <2>1. personas' = IF department' = Executive /\ Administrated' THEN Tail(Personas[company'][department'])
                    ELSE Personas[company'][department']
    BY <1>1, <1>4, <1>5, Zenon
  <2> QED  BY <2>1 DEF Waiting
<1>9. counts[d] \in 1 .. total
  BY <1>3
<1>10. left' \in 0 .. total /\ (left' > 0 \/ d = Executive)
  BY <1>1, <1>2, <1>9
<1> QED
  BY <1>1, <1>4, <1>7, <1>8, <1>10 DEF d

LEMMA HireCEOStep ==
  ASSUME StaffInv, item' = item, HireCEO
  PROVE  StaffInv'
<1>1. /\ stage = "balance" /\ stage' = "head" /\ TakeUp(1) /\ heads' = With(heads, Executive, Exec)
      /\ company' = company /\ total' = total /\ counts' = counts /\ keys' = keys /\ Person' = Person
  BY DEF HireCEO, request, keys, Person, Names, PERSONAS, ROLES
<1>2. /\ StaffTyped /\ users = << >> /\ heads = << >> /\ counts \in [Range(keys) -> 1 .. total]
      /\ Executive \in Range(keys)
  BY <1>1, Placement DEF StaffInv, Headed, StaffTyped
<1> DEFINE p == IF Administrated THEN "admin.company" ELSE ""
           new == [department |-> Executive, manager |-> Nobody, is_manager |-> TRUE,
                   persona |-> p, role |-> "Company Admin"]
<1>3. users' = Append(users, new)
  BY DEF HireCEO, Hire
<1>4. new \in Person
  <2>1. p = "admin.company" \/ p = ""
    OBVIOUS
  <2> HIDE DEF p
  <2>2. p \in Names /\ "Company Admin" \in ROLES /\ Nobody \in Nat
    BY <2>1 DEF Nobody, Names, PERSONAS, ROLES
  <2> QED  BY <1>2, <2>2 DEF Person
<1>5. /\ users' \in Seq(Person) /\ DOMAIN users' = {Exec} /\ users'[Exec] = new /\ users' # << >>
  <2> HIDE DEF new
  <2> QED  BY <1>2, <1>3, <1>4 DEF Exec
<1>6. 1 \in 1 .. Len(keys)
  BY <1>2 DEF StaffTyped
<1>7. /\ turn' = 1 /\ left' \in 0 .. total /\ personas' \in Seq(PERSONAS)
      /\ leads' \in [due : Nat, hired : Seq(Nat)] /\ leads'.due = 0 /\ leads'.hired = << >>
      /\ department' = Alphabetical[company][1]
      /\ left' > 0 \/ department' = Executive
      /\ Waiting'
  BY <1>1, <1>2, <1>6, Taken
<1>8. DOMAIN heads' = {Executive} /\ heads'[Executive] = Exec
  BY <1>1, <1>2 DEF With
<1>9. StaffTyped'
  <2>1. DOMAIN heads' \subseteq Range(keys) /\ leads'.due <= left'
    BY <1>2, <1>7, <1>8
  <2> HIDE DEF new, p
  <2> QED
    BY <1>1, <1>2, <1>5, <1>6, <1>7, <2>1 DEF StaffTyped, StaffStages
<1>a. /\ new.department = Executive /\ new.manager = Nobody /\ new.is_manager = TRUE
      /\ new.persona \in {"", "admin.company"}
  OBVIOUS
<1> HIDE DEF new, p
<1>10. \A u \in DOMAIN users' : Answers(u)' /\ Carries(u)'
  <2> SUFFICES ASSUME NEW u \in DOMAIN users'
               PROVE  Answers(u)' /\ Carries(u)'
    OBVIOUS
  <2>1. u = Exec
    BY <1>5
  <2>2. Answers(u)'
    BY <1>5, <1>8, <1>a, <2>1 DEF Answers
  <2>3. Carries(u)'
    BY <1>5, <1>a, <2>1 DEF Carries
  <2> QED  BY <2>2, <2>3
<1>11. \A d \in DOMAIN heads' : Leads(d)'
  BY <1>5, <1>8, <1>a DEF Leads
<1>12. Headed'
  BY <1>1, <1>5, <1>7, <1>8 DEF Headed
<1>13. TeamLeads'
  BY <1>7 DEF TeamLeads
<1> QED
  BY <1>7, <1>9, <1>10, <1>11, <1>12, <1>13 DEF StaffInv

LEMMA NextDepartmentStep ==
  ASSUME StaffInv, item' = item, NextDepartment
  PROVE  StaffInv'
<1>1. /\ left = 0 /\ stage \in {"head", "staff"}
      /\ UNCHANGED <<company, total, counts, users, heads>> /\ keys' = keys /\ Person' = Person
      /\ IF turn < Len(keys) THEN TakeUp(turn + 1) /\ stage' = "head"
         ELSE stage' = "reports" /\ UNCHANGED <<turn, hiring>>
  BY DEF NextDepartment, request, keys, Person, Names, PERSONAS, ROLES
<1>2. /\ StaffTyped /\ Headed /\ turn \in 1 .. Len(keys) /\ Len(keys) \in Nat
      /\ counts \in [Range(keys) -> 1 .. total]
  BY <1>1 DEF StaffInv, StaffTyped
<1>3. \A i \in 1 .. turn : Alphabetical[company][i] \in DOMAIN heads
  BY <1>1, <1>2 DEF Headed, department
<1>4. users # << >> /\ Executive \in DOMAIN heads /\ heads[Executive] = Exec
  BY <1>1, <1>2 DEF Headed
<1>5. \A i \in turn + 1 .. Len(keys) :
        Alphabetical[company][i] \in DOMAIN heads => Alphabetical[company][i] = Executive
  BY <1>1, <1>2 DEF Headed
<1>6. (\A u \in DOMAIN users' : Answers(u)' /\ Carries(u)') /\ \A d \in DOMAIN heads' : Leads(d)'
  BY <1>1 DEF StaffInv, Answers, Carries, Leads
<1>7. CASE turn < Len(keys)
  <2>1. turn + 1 \in 1 .. Len(keys) /\ stage' = "head" /\ TakeUp(turn + 1)
    BY <1>1, <1>2, <1>7
  <2>2. /\ turn' = turn + 1 /\ left' \in 0 .. total /\ personas' \in Seq(PERSONAS)
        /\ leads' \in [due : Nat, hired : Seq(Nat)] /\ leads'.due = 0 /\ leads'.hired = << >>
        /\ department' = Alphabetical[company][turn + 1]
        /\ left' > 0 \/ department' = Executive
        /\ Waiting'
    BY <1>1, <1>2, <2>1, Taken
  <2>3. StaffTyped'
    BY <1>1, <1>2, <2>1, <2>2 DEF StaffTyped, StaffStages
  <2>4. Headed'
    <3>1. turn' - 1 = turn
      BY <1>2, <2>2
    <3> QED
      BY <1>1, <1>3, <1>4, <1>5, <2>1, <2>2, <3>1 DEF Headed
  <2>5. TeamLeads'
    BY <2>2 DEF TeamLeads
  <2> QED
    BY <1>6, <2>2, <2>3, <2>4, <2>5 DEF StaffInv
<1>8. CASE ~ (turn < Len(keys))
  <2>1. stage' = "reports" /\ UNCHANGED <<turn, left, personas, leads>> /\ turn = Len(keys)
    BY <1>1, <1>2, <1>8 DEF hiring
  <2>2. StaffTyped'
    BY <1>1, <1>2, <2>1 DEF StaffTyped, StaffStages
  <2>3. Range(keys) \subseteq DOMAIN heads
    <3> SUFFICES ASSUME NEW d \in Range(keys)
                 PROVE  d \in DOMAIN heads
      OBVIOUS
    <3>1. /\ d \in Range(Alphabetical[company]) /\ Alphabetical[company] \in Seq(STRING)
          /\ Len(Alphabetical[company]) = Len(keys)
      BY <1>2, Placement
    <3>2. PICK i \in DOMAIN Alphabetical[company] : d = Alphabetical[company][i]
      BY <3>1 DEF Range
    <3>3. i \in 1 .. turn
      BY <2>1, <3>1, <3>2
    <3> QED  BY <1>3, <3>2, <3>3
  <2>4. DOMAIN heads = Range(keys)
    BY <1>2, <2>3 DEF StaffTyped
  <2>5. Headed'
    BY <1>1, <1>4, <2>1, <2>4 DEF Headed
  <2>6. Waiting' /\ TeamLeads'
    BY <1>1, <2>1 DEF StaffInv, Waiting, TeamLeads
  <2> QED
    BY <1>6, <2>2, <2>5, <2>6 DEF StaffInv
<1> QED
  BY <1>7, <1>8

LEMMA RolesGiven ==
  ASSUME NEW d, NEW p
  PROVE  RoleFor(d, p) \in ROLES
  BY DEF RoleFor, ROLES

\* The persona that is next, and the ones after it.
LEMMA PersonasTaken ==
  ASSUME personas \in Seq(PERSONAS)
  PROVE  /\ FirstPersona \in Names
         /\ FirstPersona = "" \/ (1 \in DOMAIN personas /\ FirstPersona = personas[1])
         /\ RestPersonas \in Seq(PERSONAS)
         /\ \A i \in DOMAIN RestPersonas : i \in Nat /\ i + 1 \in DOMAIN personas
                                           /\ i + 1 > 1 /\ RestPersonas[i] = personas[i + 1]
<1>1. CASE personas = << >>
  BY <1>1 DEF FirstPersona, RestPersonas, Names
<1>2. CASE personas # << >>
  <2>1. /\ FirstPersona = Head(personas) /\ RestPersonas = Tail(personas)
    BY <1>2 DEF FirstPersona, RestPersonas
  <2>2. Len(personas) \in Nat /\ Len(personas) > 0 /\ DOMAIN personas = 1 .. Len(personas)
    BY <1>2, Row
  <2>3. /\ Head(personas) \in PERSONAS /\ Tail(personas) \in Seq(PERSONAS)
        /\ Len(Tail(personas)) = Len(personas) - 1
        /\ \A i \in 1 .. Len(Tail(personas)) : Tail(personas)[i] = personas[i + 1]
    BY <1>2, HeadTailProperties
  <2>4. Head(personas) = personas[1]
    BY <1>2
  <2>5. DOMAIN Tail(personas) = 1 .. Len(personas) - 1
    BY <2>3, Row
  <2>6. Head(personas) \in Names
    BY <2>3 DEF Names
  <2>7. 1 \in DOMAIN personas
    BY <2>2
  <2>8. \A i \in DOMAIN Tail(personas) : i \in Nat /\ i + 1 \in DOMAIN personas
                        /\ i + 1 > 1 /\ Tail(personas)[i] = personas[i + 1]
    <3> DEFINE t == Tail(personas)
    <3>1. DOMAIN t = 1 .. Len(personas) - 1 /\ Len(t) = Len(personas) - 1
          /\ \A i \in 1 .. Len(t) : t[i] = personas[i + 1]
      BY <2>3, <2>5
    <3> HIDE DEF t
    <3>2. \A i \in DOMAIN t : i \in Nat /\ i + 1 \in DOMAIN personas
                        /\ i + 1 > 1 /\ t[i] = personas[i + 1]
      BY <2>2, <3>1
    <3> QED  BY <3>2 DEF t
  <2> QED
    BY <2>1, <2>3, <2>4, <2>6, <2>7, <2>8, Zenon
<1> QED  BY <1>1, <1>2

LEMMA LeadsFew ==
  ASSUME NEW n \in Nat
  PROVE  LeadsDue(n) \in Nat /\ LeadsDue(n) <= n
  BY DEF LeadsDue

\* What is not touched while people are hired.
LEMMA SameCompany ==
  ASSUME UNCHANGED <<company, total, counts, turn>>
  PROVE  /\ keys' = keys /\ department' = department /\ Person' = Person
         /\ Administrated' = Administrated
  BY DEF keys, department, Person, Names, PERSONAS, ROLES, Administrated

LEMMA HireHeadStep ==
  ASSUME StaffInv, item' = item, HireHead
  PROVE  StaffInv'
<1>1. /\ stage = "head" /\ stage' = "staff" /\ left > 0
      /\ UNCHANGED <<company, total, counts, turn>>
  BY DEF HireHead, request
<1>2. /\ keys' = keys /\ department' = department /\ Person' = Person
  BY <1>1, SameCompany
<1>3. /\ StaffTyped /\ Headed /\ turn \in 1 .. Len(keys) /\ Len(keys) \in Nat
      /\ counts \in [Range(keys) -> 1 .. total] /\ total \in Nat
      /\ left \in 0 .. total /\ personas \in Seq(PERSONAS)
      /\ leads \in [due : Nat, hired : Seq(Nat)] /\ TeamLeads
      /\ users # << >> /\ Executive \in DOMAIN heads /\ heads[Executive] = Exec
      /\ users \in Seq(Person) /\ DOMAIN heads \subseteq Range(keys)
      /\ item \in Nat /\ company \in Company /\ total \in Headcounts[company]
  BY <1>1, Placement DEF StaffInv, StaffTyped, Headed
<1>4. department \in Range(keys)
  BY <1>3, InHandOne
<1>5. personas = IF department = Executive /\ Administrated THEN Tail(Personas[company][department])
                 ELSE Personas[company][department]
  BY <1>1 DEF StaffInv, Waiting
<1>6. \A i \in DOMAIN Personas[company][department] :
        LET p == Personas[company][department][i] IN
          /\ p = "manager.engineering" => i = 1 /\ department = "Engineering"
          /\ p = "employee.engineering" => i > 1 /\ department = "Engineering"
          /\ p = "legal.counsel" => i = 1 /\ department = "Legal"
  BY <1>3, <1>4, Placement
<1>9. left \in Nat /\ left - 1 \in Nat /\ left <= total /\ total \in Nat
  <2>1. total \in Nat /\ left \in 0 .. total
    BY <1>3
  <2> QED  BY <1>1, <2>1
<1>7. CASE department \in DOMAIN heads
  <2>1. UNCHANGED <<users, heads, left, personas>> /\ leads' = [leads EXCEPT !.due = LeadsDue(left)]
    BY <1>7 DEF HireHead
  <2>2. department = Executive
    <3>1. turn \in turn .. Len(keys) /\ department = Alphabetical[company][turn]
      BY <1>3 DEF department
    <3> QED  BY <1>1, <1>3, <1>7, <3>1 DEF Headed
  <2>3. LeadsDue(left) \in Nat /\ LeadsDue(left) <= left
    BY <1>9, LeadsFew
  <2>4. leads' \in [due : Nat, hired : Seq(Nat)] /\ leads'.due <= left /\ leads'.hired = leads.hired
    BY <1>3, <2>1, <2>3
  <2>5. StaffTyped'
    BY <1>1, <1>2, <1>3, <2>1, <2>4 DEF StaffTyped, StaffStages
  <2>6. \A u \in DOMAIN users' : Answers(u)' /\ Carries(u)'
    BY <2>1 DEF StaffInv, Answers, Carries
  <2>7. \A d \in DOMAIN heads' : Leads(d)'
    BY <2>1 DEF StaffInv, Leads
  <2>8. Waiting'
    <3>1. ASSUME NEW i \in DOMAIN personas
          PROVE  personas[i] \notin {"manager.engineering", "legal.counsel", "employee.engineering"}
      <4> DEFINE all == Personas[company][department]
      <4>1. all \in Seq(PERSONAS)
        BY <1>3, <1>4, Placement
      <4>2. \A j \in DOMAIN all : all[j] \notin {"manager.engineering", "legal.counsel", "employee.engineering"}
        BY <1>6, <2>2 DEF Executive
      <4>3. CASE personas = all
        BY <4>2, <4>3
      <4>4. CASE personas = Tail(all) /\ Administrated
        <5>1. all # << >>
          BY <2>2, <4>4 DEF Administrated
        <5>2. Tail(all) \in Seq(PERSONAS) /\ Len(Tail(all)) = Len(all) - 1
              /\ \A j \in 1 .. Len(Tail(all)) : Tail(all)[j] = all[j + 1]
          BY <4>1, <5>1, HeadTailProperties
        <5>3. DOMAIN Tail(all) = 1 .. Len(all) - 1 /\ Len(all) \in Nat /\ DOMAIN all = 1 .. Len(all)
          BY <4>1, <5>2, Row
        <5>4. i + 1 \in DOMAIN all /\ personas[i] = all[i + 1]
          <6> HIDE DEF all
          <6> QED  BY <4>4, <5>2, <5>3
        <5> QED  BY <4>2, <5>4
      <4> QED  BY <1>5, <2>2, <4>3, <4>4
    <3> QED  BY <1>1, <2>1, <3>1 DEF Waiting
  <2>9. Headed'
    BY <1>1, <1>2, <1>3, <1>7, <2>1, <2>2 DEF Headed
  <2>10. TeamLeads'
    BY <1>3, <2>1, <2>4 DEF TeamLeads
  <2> QED
    BY <2>5, <2>6, <2>7, <2>8, <2>9, <2>10 DEF StaffInv
<1>8. CASE department \notin DOMAIN heads
  <2> PICK n : n = Hired
    OBVIOUS
  <2>1. /\ Hire(department, Exec, TRUE, FirstPersona, RoleFor(department, FirstPersona))
        /\ heads' = With(heads, department, n) /\ left' = left - 1
        /\ personas' = RestPersonas /\ leads' = [leads EXCEPT !.due = LeadsDue(left - 1)]
    BY <1>8 DEF HireHead
  <2>2. department # Executive /\ personas = Personas[company][department]
    BY <1>3, <1>5, <1>8
  <2>3. /\ DOMAIN heads' = DOMAIN heads \cup {department}
        /\ heads'[department] = n
        /\ \A e \in DOMAIN heads : heads'[e] = heads[e]
    BY <1>8, <2>1 DEF With
  <2>4. /\ FirstPersona \in Names
        /\ FirstPersona = "" \/ (1 \in DOMAIN personas /\ FirstPersona = personas[1])
        /\ RestPersonas \in Seq(PERSONAS)
        /\ \A i \in DOMAIN RestPersonas : i \in Nat /\ i + 1 \in DOMAIN personas
                                          /\ i + 1 > 1 /\ RestPersonas[i] = personas[i + 1]
    BY <1>3, PersonasTaken
  <2>5. /\ FirstPersona = "manager.engineering" => department = "Engineering"
        /\ FirstPersona = "legal.counsel" => department = "Legal"
        /\ FirstPersona # "employee.engineering"
    <3>1. CASE FirstPersona = ""
      BY <3>1
    <3>2. CASE 1 \in DOMAIN personas /\ FirstPersona = personas[1]
      <4>1. /\ FirstPersona = "manager.engineering" => department = "Engineering"
            /\ FirstPersona = "employee.engineering" => 1 > 1
            /\ FirstPersona = "legal.counsel" => department = "Legal"
        BY <1>6, <2>2, <3>2, Zenon
      <4> QED  BY <4>1
    <3> QED  BY <2>4, <3>1, <3>2
  <2>6. RoleFor(department, FirstPersona) \in ROLES
    BY RolesGiven
  <2>7. Exec \in DOMAIN users /\ users[Exec].is_manager
    BY <1>3 DEF StaffInv, Leads
  <2>8. /\ users' \in Seq(Person')
        /\ \A u \in DOMAIN users' : Answers(u)' /\ Carries(u)'
        /\ \A e \in DOMAIN heads' : Leads(e)'
        /\ DOMAIN users \subseteq DOMAIN users' /\ n \in DOMAIN users'
        /\ \A u \in DOMAIN users : users'[u] = users[u]
    <3> DEFINE p == FirstPersona  r == RoleFor(department, FirstPersona)
    <3>1. Hire(department, Exec, TRUE, p, r)
      BY <2>1
    <3>2. p \in Names /\ r \in ROLES
      BY <2>4, <2>6
    <3>3. /\ p = "manager.engineering" => department = "Engineering"
          /\ p = "legal.counsel" => department = "Legal"
          /\ p # "employee.engineering"
      BY <2>5
    <3> HIDE DEF p, r
    <3>4. \A e \in DOMAIN heads' \ DOMAIN heads : e = department /\ heads'[e] = n
      BY <2>3
    <3>5. (\A u \in DOMAIN users : Answers(u) /\ Carries(u)) /\ \A e \in DOMAIN heads : Leads(e)
      BY DEF StaffInv
    <3>6. /\ StaffTyped /\ users # << >> /\ company' = company
          /\ department \in Range(keys) /\ Exec \in DOMAIN users /\ TRUE \in BOOLEAN
          /\ DOMAIN heads \subseteq DOMAIN heads'
      BY <1>1, <1>3, <1>4, <2>3, <2>7
    <3>7. department \in DOMAIN heads' /\ Exec = (IF heads'[department] = n THEN Exec ELSE heads'[department])
      BY <2>3
    <3> QED
      BY <2>3, <2>7, <3>1, <3>2, <3>3, <3>4, <3>5, <3>6, <3>7, OneMore
  <2>9. LeadsDue(left - 1) \in Nat /\ LeadsDue(left - 1) <= left - 1
    BY <1>9, LeadsFew
  <2>10. /\ leads' \in [due : Nat, hired : Seq(Nat)] /\ leads'.due <= left - 1 /\ leads'.hired = leads.hired
         /\ left - 1 \in 0 .. total
    <3>1. leads \in [due : Nat, hired : Seq(Nat)]
      BY <1>3
    <3> QED  BY <1>9, <2>1, <2>9, <3>1
  <2>11. StaffTyped'
    <3>1. DOMAIN heads' \subseteq Range(keys)
      BY <1>3, <1>4, <2>3
    <3>2. personas' \in Seq(PERSONAS)
      BY <2>1, <2>4
    <3> QED
      BY <1>1, <1>2, <1>3, <2>1, <2>8, <2>10, <3>1, <3>2 DEF StaffTyped, StaffStages
  <2>12. Waiting'
    <3>1. ASSUME NEW i \in DOMAIN personas'
          PROVE  /\ personas'[i] \notin {"manager.engineering", "legal.counsel"}
                 /\ personas'[i] = "employee.engineering" => department = "Engineering"
      <4>1. i \in Nat /\ i + 1 \in DOMAIN personas /\ i + 1 > 1 /\ personas'[i] = personas[i + 1]
        BY <2>1, <2>4
      <4> QED  BY <1>6, <2>2, <4>1
    <3> QED  BY <1>1, <1>2, <3>1 DEF Waiting
  <2>13. Headed'
    <3>1. users' # << >> /\ Executive \in DOMAIN heads' /\ heads'[Executive] = Exec
      <4>1. DOMAIN users' # {}
        BY <2>8
      <4> QED  BY <1>3, <2>3, <4>1
    <3>2. ASSUME NEW i \in turn .. Len(keys), Alphabetical[company][i] \in DOMAIN heads'
          PROVE  Alphabetical[company][i] = Executive \/ i = turn
      <4>1. CASE Alphabetical[company][i] \in DOMAIN heads
        BY <1>1, <1>3, <4>1 DEF Headed
      <4>2. CASE Alphabetical[company][i] = department
        <5>1. IsInjective(Alphabetical[company]) /\ Alphabetical[company] \in Seq(STRING)
              /\ Len(Alphabetical[company]) = Len(keys)
          BY <1>3, Placement
        <5>2. i \in DOMAIN Alphabetical[company] /\ turn \in DOMAIN Alphabetical[company]
          BY <1>3, <5>1
        <5> QED  BY <4>2, <5>1, <5>2 DEF department, IsInjective
      <4> QED  BY <2>3, <3>2, <4>1, <4>2
    <3>3. \A i \in 1 .. turn - 1 : Alphabetical[company][i] \in DOMAIN heads'
      BY <1>1, <1>3, <2>3 DEF Headed
    <3>4. department \in DOMAIN heads'
      BY <2>3
    <3> QED
      BY <1>1, <1>2, <3>1, <3>2, <3>3, <3>4 DEF Headed
  <2>14. TeamLeads'
    BY <1>3, <2>8, <2>10 DEF TeamLeads
  <2> QED
    BY <2>8, <2>11, <2>12, <2>13, <2>14 DEF StaffInv
<1> QED
  BY <1>7, <1>8

\* What holds while the department in hand is staffed.
LEMMA InTheMiddle ==
  ASSUME StaffInv, stage = "staff"
  PROVE  /\ StaffTyped /\ Headed /\ turn \in 1 .. Len(keys) /\ Len(keys) \in Nat
         /\ counts \in [Range(keys) -> 1 .. total]
         /\ personas \in Seq(PERSONAS)
         /\ leads \in [due : Nat, hired : Seq(Nat)] /\ leads.due <= left /\ TeamLeads
         /\ users # << >> /\ Executive \in DOMAIN heads /\ heads[Executive] = Exec
         /\ users \in Seq(Person) /\ DOMAIN heads \subseteq Range(keys)
         /\ item \in Nat /\ company \in Company /\ total \in Headcounts[company]
         /\ department \in Range(keys)
         /\ department \in DOMAIN heads /\ heads[department] \in DOMAIN users
         /\ users[heads[department]].is_manager
<1>1. StaffTyped /\ Headed /\ TeamLeads /\ \A d \in DOMAIN heads : Leads(d)
  BY DEF StaffInv
<1>2. /\ department \in DOMAIN heads /\ heads[department] \in DOMAIN users
      /\ users[heads[department]].is_manager
  BY <1>1 DEF Headed, Leads
<1>3. department \in Range(keys)
  BY <1>1, InHandOne
<1>4. Len(keys) \in Nat
  <2>1. keys \in Seq(STRING)
    BY <1>1, Placement
  <2> HIDE DEF keys
  <2> QED  BY <2>1
<1> QED
  BY <1>1, <1>2, <1>3, <1>4 DEF StaffTyped, Headed

LEMMA LeftToHire ==
  ASSUME StaffInv
  PROVE  left \in Nat /\ left <= total /\ total \in Nat
<1>1. left \in 0 .. total
  BY DEF StaffInv, StaffTyped
<1>2. total \in Nat
  BY Placement DEF StaffInv
<1> QED  BY <1>1, <1>2

\* Somebody is hired in the department in hand under somebody who leads there:
\* what is said of the staff stays true.
LEMMA InDepartment ==
  ASSUME StaffInv, stage = "staff", stage' = stage, item' = item, left > 0,
         UNCHANGED <<company, total, counts, turn, heads>>,
         NEW m \in DOMAIN users, users[m].is_manager, NEW manages \in BOOLEAN,
         manages => m = heads[department],
         NEW p \in Names, p = "employee.engineering" => department = "Engineering" /\ ~ manages,
         p \notin {"manager.engineering", "legal.counsel"},
         NEW r \in ROLES, NEW n, n = Hired, Hire(department, m, manages, p, r),
         left' = left - 1, personas' \in Seq(PERSONAS),
         \A i \in DOMAIN personas' :
            /\ personas'[i] \notin {"manager.engineering", "legal.counsel"}
            /\ personas'[i] = "employee.engineering" => department = "Engineering",
         leads' \in [due : Nat, hired : Seq(Nat)], leads'.due <= left - 1,
         \A i \in DOMAIN leads'.hired :
            (i \in DOMAIN leads.hired /\ leads'.hired[i] = leads.hired[i])
                \/ (leads'.hired[i] = n /\ manages)
  PROVE  StaffInv'
<1>1. /\ StaffTyped /\ Headed /\ turn \in 1 .. Len(keys) /\ Len(keys) \in Nat
      /\ counts \in [Range(keys) -> 1 .. total]
      /\ TeamLeads
      /\ users # << >> /\ Executive \in DOMAIN heads /\ heads[Executive] = Exec
      /\ users \in Seq(Person) /\ DOMAIN heads \subseteq Range(keys)
      /\ item \in Nat /\ company \in Company /\ total \in Headcounts[company]
      /\ department \in Range(keys)
      /\ department \in DOMAIN heads /\ heads[department] \in DOMAIN users
  BY InTheMiddle
<1>2. /\ keys' = keys /\ department' = department /\ Person' = Person
  BY SameCompany
<1>3. heads[department] # n
  <2>1. users \in Seq(Person) /\ n = Len(users) + 1
    BY <1>1 DEF Hired
  <2>2. DOMAIN users = 1 .. Len(users) /\ Len(users) \in Nat
    BY <2>1, Row
  <2> QED  BY <1>1, <2>1, <2>2
<1>4. /\ users' \in Seq(Person')
      /\ \A u \in DOMAIN users' : Answers(u)' /\ Carries(u)'
      /\ \A e \in DOMAIN heads' : Leads(e)'
      /\ DOMAIN users \subseteq DOMAIN users' /\ n \in DOMAIN users'
      /\ \A u \in DOMAIN users : users'[u] = users[u]
      /\ users'[n].is_manager = manages
  <2>1. (\A u \in DOMAIN users : Answers(u) /\ Carries(u)) /\ \A e \in DOMAIN heads : Leads(e)
    BY DEF StaffInv
  <2>2. /\ StaffTyped /\ users # << >> /\ company' = company /\ department \in Range(keys)
        /\ DOMAIN heads \subseteq DOMAIN heads' /\ department \in DOMAIN heads'
    BY <1>1
  <2>3. /\ \A e \in DOMAIN heads : heads'[e] = heads[e]
        /\ \A e \in DOMAIN heads' \ DOMAIN heads : e = department /\ heads'[e] = n /\ manages
    OBVIOUS
  <2>4. manages => department \in DOMAIN heads'
                   /\ m = (IF heads'[department] = n THEN Exec ELSE heads'[department])
    BY <1>1, <1>3
  <2> QED
    BY <2>1, <2>2, <2>3, <2>4, OneMore
<1>5. left' \in 0 .. total /\ leads'.due <= left'
  BY LeftToHire
<1>6. StaffTyped'
  BY <1>1, <1>2, <1>4, <1>5 DEF StaffTyped, StaffStages
<1>7. Waiting'
  BY <1>2 DEF Waiting
<1>8. Headed'
  <2>1. users' # << >>
    <3>1. DOMAIN users' # {}
      BY <1>4
    <3> QED  BY <3>1
  <2> QED
    BY <1>1, <1>2, <2>1 DEF Headed
<1>9. TeamLeads'
  BY <1>1, <1>4 DEF TeamLeads
<1> QED
  BY <1>4, <1>6, <1>7, <1>8, <1>9 DEF StaffInv

LEMMA HireLeadStep ==
  ASSUME StaffInv, item' = item, HireLead
  PROVE  StaffInv'
<1> PICK n : n = Hired
  OBVIOUS
<1>1. /\ stage = "staff" /\ stage' = stage /\ leads.due > 0
      /\ UNCHANGED <<company, total, counts, turn, heads>> /\ personas' = personas
      /\ left' = left - 1 /\ leads' = [due |-> leads.due - 1, hired |-> Append(leads.hired, n)]
  BY DEF HireLead, request
<1>0. Hire(department, heads[department], TRUE, "", RoleFor(department, ""))
  BY DEF HireLead
<1>2. /\ personas \in Seq(PERSONAS)
      /\ leads \in [due : Nat, hired : Seq(Nat)] /\ leads.due <= left
      /\ heads[department] \in DOMAIN users /\ users[heads[department]].is_manager
      /\ users \in Seq(Person)
  BY <1>1, InTheMiddle
<1>3. /\ leads.due \in Nat /\ leads.hired \in Seq(Nat) /\ left \in Nat
  BY <1>2, LeftToHire
<1>4. left > 0 /\ leads.due - 1 \in Nat /\ leads.due - 1 <= left - 1
  BY <1>1, <1>2, <1>3
<1>5. n \in Nat
  <2>1. Len(users) \in Nat
    BY <1>2, Row
  <2> QED  BY <2>1 DEF Hired
<1>6. /\ Append(leads.hired, n) \in Seq(Nat)
      /\ \A i \in DOMAIN Append(leads.hired, n) :
            (i \in DOMAIN leads.hired /\ Append(leads.hired, n)[i] = leads.hired[i])
                \/ Append(leads.hired, n)[i] = n
  <2> DEFINE h == leads.hired
  <2>1. h \in Seq(Nat)
    BY <1>3
  <2> HIDE DEF h
  <2>2. /\ Append(h, n) \in Seq(Nat)
        /\ DOMAIN Append(h, n) = 1 .. Len(h) + 1
        /\ Append(h, n)[Len(h) + 1] = n
        /\ \A i \in 1 .. Len(h) : Append(h, n)[i] = h[i]
    BY <1>5, <2>1, Longer
  <2>3. DOMAIN h = 1 .. Len(h) /\ Len(h) \in Nat
    BY <2>1, Row
  <2>4. \A i \in DOMAIN Append(h, n) :
            (i \in DOMAIN h /\ Append(h, n)[i] = h[i]) \/ Append(h, n)[i] = n
    BY <2>2, <2>3
  <2> QED  BY <2>2, <2>4 DEF h
<1>7. /\ leads' \in [due : Nat, hired : Seq(Nat)] /\ leads'.due <= left - 1
      /\ \A i \in DOMAIN leads'.hired :
            (i \in DOMAIN leads.hired /\ leads'.hired[i] = leads.hired[i]) \/ leads'.hired[i] = n
  BY <1>1, <1>4, <1>6
<1>8. \A i \in DOMAIN personas' :
            /\ personas'[i] \notin {"manager.engineering", "legal.counsel"}
            /\ personas'[i] = "employee.engineering" => department = "Engineering"
  BY <1>1 DEF StaffInv, Waiting
<1>9. "" \in Names /\ RoleFor(department, "") \in ROLES
  <2>1. "" \in Names
    BY DEF Names, PERSONAS
  <2> QED  BY <2>1, RolesGiven
<1> DEFINE p == ""  r == RoleFor(department, "")  m == heads[department]  manages == TRUE
<1>10. /\ p \in Names /\ r \in ROLES /\ Hire(department, m, manages, p, r)
       /\ m \in DOMAIN users /\ users[m].is_manager
       /\ manages \in BOOLEAN
       /\ manages => m = heads[department]
  BY <1>0, <1>2, <1>9
<1>11. p \notin {"manager.engineering", "legal.counsel"} /\ p # "employee.engineering"
  OBVIOUS
<1>12. \A i \in DOMAIN leads'.hired :
          (i \in DOMAIN leads.hired /\ leads'.hired[i] = leads.hired[i])
              \/ (leads'.hired[i] = n /\ manages)
  BY <1>7
<1> HIDE DEF p, r, m, manages
<1>13. p = "employee.engineering" => department = "Engineering" /\ ~ manages
  BY <1>11
<1>14. /\ stage = "staff" /\ stage' = stage /\ left > 0 /\ left' = left - 1
       /\ UNCHANGED <<company, total, counts, turn, heads>>
       /\ personas' \in Seq(PERSONAS)
       /\ leads' \in [due : Nat, hired : Seq(Nat)] /\ leads'.due <= left - 1
  BY <1>1, <1>2, <1>4, <1>7
<1> QED
  BY <1>8, <1>10, <1>11, <1>12, <1>13, <1>14, InDepartment

LEMMA SomebodyLeads ==
  ASSUME StaffInv, stage = "staff"
  PROVE  ManagerOfNext \in DOMAIN users /\ users[ManagerOfNext].is_manager
<1>1. /\ leads \in [due : Nat, hired : Seq(Nat)] /\ TeamLeads
      /\ heads[department] \in DOMAIN users /\ users[heads[department]].is_manager
      /\ users \in Seq(Person)
  BY InTheMiddle
<1>2. CASE leads.hired = << >>
  BY <1>1, <1>2 DEF ManagerOfNext
<1>3. CASE leads.hired # << >>
  <2> DEFINE h == leads.hired
  <2>1. h \in Seq(Nat) /\ h # << >> /\ Len(users) \in Nat
    <3>1. h \in Seq(Nat) /\ h # << >>
      BY <1>1, <1>3
    <3> QED  BY <1>1, <3>1, Row
  <2>2. \A i \in DOMAIN h : h[i] \in DOMAIN users /\ users[h[i]].is_manager
    BY <1>1 DEF TeamLeads
  <2>3. ManagerOfNext = h[((Len(users) - Last(h)) % Len(h)) + 1]
    BY <1>3 DEF ManagerOfNext
  <2> HIDE DEF h
  <2>4. Len(h) \in Nat /\ Len(h) > 0 /\ DOMAIN h = 1 .. Len(h) /\ Last(h) \in Nat
    <3>1. Len(h) \in Nat /\ Len(h) > 0 /\ DOMAIN h = 1 .. Len(h)
      BY <2>1, Row
    <3>2. h[Len(h)] \in Nat
      BY <2>1, <3>1
    <3> QED  BY <3>1, <3>2 DEF Last
  <2>5. ((Len(users) - Last(h)) % Len(h)) + 1 \in DOMAIN h
    BY <2>1, <2>4
  <2> QED
    BY <2>2, <2>3, <2>5
<1> QED  BY <1>2, <1>3

LEMMA HireMemberStep ==
  ASSUME StaffInv, item' = item, HireMember
  PROVE  StaffInv'
<1> PICK n : n = Hired
  OBVIOUS
<1>1. /\ stage = "staff" /\ stage' = stage /\ leads.due = 0 /\ left > 0
      /\ UNCHANGED <<company, total, counts, turn, heads>> /\ personas' = RestPersonas
      /\ left' = left - 1 /\ leads' = leads
      /\ Hire(department, ManagerOfNext, FALSE, FirstPersona, RoleFor(department, FirstPersona))
  BY DEF HireMember, request
<1>2. /\ personas \in Seq(PERSONAS)
      /\ leads \in [due : Nat, hired : Seq(Nat)]
  BY <1>1, InTheMiddle
<1>3. ManagerOfNext \in DOMAIN users /\ users[ManagerOfNext].is_manager
  BY <1>1, SomebodyLeads
<1>4. /\ FirstPersona \in Names
      /\ FirstPersona = "" \/ (1 \in DOMAIN personas /\ FirstPersona = personas[1])
      /\ RestPersonas \in Seq(PERSONAS)
      /\ \A i \in DOMAIN RestPersonas : i \in Nat /\ i + 1 \in DOMAIN personas
                                        /\ i + 1 > 1 /\ RestPersonas[i] = personas[i + 1]
  BY <1>2, PersonasTaken
<1>5. \A i \in DOMAIN personas :
            /\ personas[i] \notin {"manager.engineering", "legal.counsel"}
            /\ personas[i] = "employee.engineering" => department = "Engineering"
  BY <1>1 DEF StaffInv, Waiting
<1>6. \A i \in DOMAIN personas' :
            /\ personas'[i] \notin {"manager.engineering", "legal.counsel"}
            /\ personas'[i] = "employee.engineering" => department = "Engineering"
  BY <1>1, <1>4, <1>5
<1> DEFINE p == FirstPersona  r == RoleFor(department, FirstPersona)  m == ManagerOfNext
<1>7. p = "employee.engineering" => department = "Engineering"
  BY <1>4, <1>5
<1>8. p # "manager.engineering" /\ p # "legal.counsel"
  BY <1>4, <1>5
<1>9. /\ p \in Names /\ r \in ROLES /\ Hire(department, m, FALSE, p, r)
      /\ m \in DOMAIN users /\ users[m].is_manager
  BY <1>1, <1>3, <1>4, RolesGiven
<1>10. leads' \in [due : Nat, hired : Seq(Nat)] /\ leads'.due <= left - 1 /\ leads'.hired = leads.hired
  <2>1. left \in Nat
    BY LeftToHire
  <2> QED  BY <1>1, <1>2, <2>1
<1>11. personas' \in Seq(PERSONAS)
  BY <1>1, <1>4
<1> HIDE DEF p, r, m
<1> QED
  BY <1>1, <1>6, <1>7, <1>8, <1>9, <1>10, <1>11, InDepartment

\* Some of Engineering come under m.
MovedTo(m, moved) ==
    /\ moved \in SUBSET DOMAIN users
    /\ \A u \in moved : u # Exec /\ u # m /\ users[u].department = "Engineering"
    /\ users' = [u \in DOMAIN users |->
                    IF u \in moved THEN [users[u] EXCEPT !.manager = m] ELSE users[u]]

\* Who leads Engineering where the scenarios have a manager, and what is left of
\* those who are moved.
LEMMA Reassigned ==
  ASSUME StaffInv, NEW m \in WithPersona("manager.engineering"), NEW moved, MovedTo(m, moved)
  PROVE  /\ m \in DOMAIN users /\ m # Exec /\ users[m].department = "Engineering"
         /\ "Engineering" \in DOMAIN heads /\ heads["Engineering"] = m /\ users[m].is_manager
         /\ m # Nobody /\ m \notin moved
         /\ DOMAIN users' = DOMAIN users
         /\ \A u \in DOMAIN users : LET v == users'[u] IN
              /\ v \in Person
              /\ v.department = users[u].department /\ v.persona = users[u].persona
              /\ v.is_manager = users[u].is_manager
              /\ v.manager = IF u \in moved THEN m ELSE users[u].manager
<1>2. users \in Seq(Person)
  BY DEF StaffInv, StaffTyped
<1>3. DOMAIN users = 1 .. Len(users) /\ Len(users) \in Nat /\ \A u \in DOMAIN users : users[u] \in Person
  BY <1>2, Row
<1>4. /\ m \in DOMAIN users /\ m # Exec /\ users[m].department = "Engineering"
      /\ "Engineering" \in DOMAIN heads /\ heads["Engineering"] = m /\ users[m].is_manager
      /\ m # Nobody
  <2>1. m \in DOMAIN users /\ users[m].persona = "manager.engineering"
    BY DEF WithPersona
  <2>2. Carries(m)
    BY <2>1 DEF StaffInv
  <2>3. /\ m # Exec /\ users[m].department = "Engineering"
        /\ "Engineering" \in DOMAIN heads /\ heads["Engineering"] = m
    BY <2>1, <2>2 DEF Carries
  <2>4. users[m].is_manager
    BY <2>3 DEF StaffInv, Leads
  <2>5. m # Nobody
    BY <1>3, <2>1 DEF Nobody
  <2> QED  BY <2>1, <2>3, <2>4, <2>5
<1>5. \A u \in DOMAIN users : LET v == users'[u] IN
        /\ v \in Person
        /\ v.department = users[u].department /\ v.persona = users[u].persona
        /\ v.is_manager = users[u].is_manager
        /\ v.manager = IF u \in moved THEN m ELSE users[u].manager
  <2> SUFFICES ASSUME NEW u \in DOMAIN users
               PROVE  LET v == users'[u] IN
                        /\ v \in Person
                        /\ v.department = users[u].department /\ v.persona = users[u].persona
                        /\ v.is_manager = users[u].is_manager
                        /\ v.manager = IF u \in moved THEN m ELSE users[u].manager
    OBVIOUS
  <2>0. users'[u] = IF u \in moved THEN [users[u] EXCEPT !.manager = m] ELSE users[u]
    BY DEF MovedTo
  <2>1. CASE u \notin moved
    <3>1. users'[u] = users[u]
      BY <2>0, <2>1
    <3> QED  BY <1>3, <2>1, <3>1
  <2>2. CASE u \in moved
    <3>1. users'[u] = [users[u] EXCEPT !.manager = m] /\ users[u] \in Person /\ m \in Nat
      BY <1>3, <1>4, <2>0, <2>2
    <3> DEFINE w == users[u]
    <3>2. w \in Person /\ users'[u] = [w EXCEPT !.manager = m]
      BY <3>1
    <3> HIDE DEF w
    <3>3. LET v == [w EXCEPT !.manager = m] IN
            /\ v \in Person
            /\ v.department = w.department /\ v.persona = w.persona
            /\ v.is_manager = w.is_manager
            /\ v.manager = m
      BY <3>1, <3>2 DEF Person
    <3> QED  BY <2>2, <3>2, <3>3 DEF w
  <2> QED  BY <2>1, <2>2
<1>6. DOMAIN users' = DOMAIN users /\ m \notin moved
  BY DEF MovedTo
<1> QED  BY <1>4, <1>5, <1>6

\* What is said of the staff stays true.
LEMMA MovedUnder ==
  ASSUME StaffInv, item' = item, UNCHANGED <<company, total, counts, turn, hiring, heads>>,
         stage \in {"reports", "enough"}, stage' \in {"enough", "built", "failed"},
         NEW m \in WithPersona("manager.engineering"), NEW moved, MovedTo(m, moved)
  PROVE  StaffInv'
<1>1. /\ keys' = keys /\ department' = department /\ Person' = Person
  BY SameCompany
<1>2. /\ StaffTyped /\ Headed /\ TeamLeads
      /\ counts \in [Range(keys) -> 1 .. total]
      /\ users \in Seq(Person) /\ users # << >>
      /\ Executive \in DOMAIN heads /\ heads[Executive] = Exec /\ DOMAIN heads = Range(keys)
  BY DEF StaffInv, StaffTyped, Headed
<1>3. DOMAIN users = 1 .. Len(users) /\ Len(users) \in Nat /\ \A u \in DOMAIN users : users[u] \in Person
  BY <1>2, Row
<1>4. /\ m \in DOMAIN users /\ m # Exec /\ users[m].department = "Engineering"
      /\ "Engineering" \in DOMAIN heads /\ heads["Engineering"] = m /\ users[m].is_manager
      /\ m # Nobody
  BY Reassigned
<1>5. \A u \in DOMAIN users : LET v == users'[u] IN
        /\ v \in Person
        /\ v.department = users[u].department /\ v.persona = users[u].persona
        /\ v.is_manager = users[u].is_manager
        /\ v.manager = IF u \in moved THEN m ELSE users[u].manager
  BY Reassigned
<1>6. DOMAIN users' = DOMAIN users
  BY Reassigned
<1>7. users' \in Seq(Person')
  <2>1. users' \in [1 .. Len(users) -> Person]
    BY <1>3, <1>5, <1>6 DEF MovedTo
  <2> QED  BY <1>1, <1>3, <2>1
<1>8. StaffTyped'
  BY <1>1, <1>2, <1>7 DEF StaffTyped, StaffStages, hiring
<1>9. \A d \in DOMAIN heads' : Leads(d)'
  <2> SUFFICES ASSUME NEW d \in DOMAIN heads
               PROVE  Leads(d)'
    OBVIOUS
  <2>1. Leads(d) /\ heads'[d] = heads[d]
    BY DEF StaffInv
  <2> QED  BY <1>5, <1>6, <2>1 DEF Leads
<1>10. ASSUME NEW u \in DOMAIN users
       PROVE  Answers(u)' /\ Carries(u)'
  <2>1. Answers(u) /\ Carries(u)
    BY DEF StaffInv
  <2>2. /\ users'[u].department = users[u].department /\ users'[u].persona = users[u].persona
        /\ users'[u].is_manager = users[u].is_manager
        /\ users'[u].manager = IF u \in moved THEN m ELSE users[u].manager
    BY <1>5
  <2>3. Carries(u)'
    BY <2>1, <2>2 DEF Carries
  <2>4. Answers(u)'
    <3>1. CASE u \in moved
      <4>1. u # Exec /\ u # m /\ users'[u].department = "Engineering" /\ users'[u].manager = m
        BY <2>2, <3>1 DEF MovedTo
      <4>2. m \in DOMAIN users' /\ users'[m].is_manager
        BY <1>4, <1>5, <1>6
      <4> QED  BY <1>4, <4>1, <4>2 DEF Answers
    <3>2. CASE u \notin moved
      <4>1. users'[u].manager = users[u].manager
        BY <2>2, <3>2
      <4>2. users[u].manager \in DOMAIN users =>
              /\ users[u].manager \in DOMAIN users'
              /\ users'[users[u].manager].is_manager = users[users[u].manager].is_manager
        BY <1>5, <1>6
      <4> QED  BY <2>1, <2>2, <4>1, <4>2 DEF Answers
    <3> QED  BY <3>1, <3>2
  <2> QED  BY <2>3, <2>4
<1>11. TeamLeads'
  BY <1>2, <1>5, <1>6 DEF TeamLeads, hiring
<1>12. Waiting'
  BY DEF Waiting
<1>13. Headed'
  <2>1. users' # << >>
    <3>1. DOMAIN users # {}
      BY <1>4
    <3> QED  BY <1>6, <3>1
  <2> QED  BY <1>1, <1>2, <2>1 DEF Headed
<1> QED
  BY <1>6, <1>8, <1>9, <1>10, <1>11, <1>12, <1>13 DEF StaffInv

\* The employee of the scenarios comes under their manager, and the nearest of
\* the candidates, as many as are lacking.
LEMMA Paired ==
  ASSUME StaffInv, PairPersonas
  PROVE  \E m \in WithPersona("manager.engineering") : MovedTo(m, WithPersona("employee.engineering"))
<1>1. PICK m \in WithPersona("manager.engineering") :
        users' = [u \in DOMAIN users |->
          CASE u = m -> [users[u] EXCEPT !.is_manager = TRUE]
            [] users[u].persona = "employee.engineering" -> [users[u] EXCEPT !.manager = m]
            [] OTHER -> users[u]]
  BY DEF PairPersonas
<1> DEFINE moved == {u \in DOMAIN users : users[u].persona = "employee.engineering"}
<1>3. moved \in SUBSET DOMAIN users
  OBVIOUS
<1>4. m \in DOMAIN users /\ users[m].persona = "manager.engineering"
  BY DEF WithPersona
<1>5. \A u \in moved : u # Exec /\ u # m /\ users[u].department = "Engineering"
  <2> SUFFICES ASSUME NEW u \in moved
               PROVE  u # Exec /\ u # m /\ users[u].department = "Engineering"
    OBVIOUS
  <2>1. Carries(u)
    BY DEF StaffInv
  <2> QED  BY <1>4, <2>1 DEF Carries
<1>6. [users[m] EXCEPT !.is_manager = TRUE] = users[m]
  <2>1. users[m].is_manager /\ users[m].is_manager \in BOOLEAN /\ users[m] \in Person
    <3>1. Carries(m)
      BY <1>4 DEF StaffInv
    <3>2. users[m].is_manager
      BY <1>4, <3>1 DEF Carries, StaffInv, Leads
    <3>3. users \in Seq(Person)
      BY DEF StaffInv, StaffTyped
    <3>4. users[m] \in Person
      BY <1>4, <3>3, Row
    <3> QED  BY <3>2, <3>4 DEF Person
  <2> DEFINE w == users[m]
  <2>2. w \in Person /\ w.is_manager = TRUE
    BY <2>1
  <2> HIDE DEF w
  <2>3. [w EXCEPT !.is_manager = TRUE] = w
    BY <2>2 DEF Person
  <2> QED  BY <2>3 DEF w
<1>7. users' = [u \in DOMAIN users |->
                    IF u \in moved THEN [users[u] EXCEPT !.manager = m] ELSE users[u]]
  <2>1. m \notin moved
    BY <1>5
  <2>2. ASSUME NEW u \in DOMAIN users
        PROVE  (CASE u = m -> [users[u] EXCEPT !.is_manager = TRUE]
                  [] users[u].persona = "employee.engineering" -> [users[u] EXCEPT !.manager = m]
                  [] OTHER -> users[u])
               = IF u \in moved THEN [users[u] EXCEPT !.manager = m] ELSE users[u]
    <3>1. CASE u = m
      <4>1. (CASE u = m -> [users[u] EXCEPT !.is_manager = TRUE]
               [] users[u].persona = "employee.engineering" -> [users[u] EXCEPT !.manager = m]
               [] OTHER -> users[u]) = users[u]
        BY <1>4, <1>6, <3>1
      <4> QED  BY <2>1, <3>1, <4>1
    <3>2. CASE u # m
      BY <3>2
    <3> QED  BY <3>1, <3>2
  <2> QED  BY <1>1, <2>2
<1>8. moved = WithPersona("employee.engineering")
  BY DEF WithPersona
<1> HIDE DEF moved
<1>9. MovedTo(m, moved)
  BY <1>3, <1>5, <1>7 DEF MovedTo
<1> QED  BY <1>8, <1>9

Nearest(m) == {u \in Candidates(m) : Cardinality({v \in Candidates(m) : Precedes(v, u)}) < Lacking(m)}

LEMMA Moves ==
  ASSUME StaffInv, MoveReports
  PROVE  \E m \in WithPersona("manager.engineering") :
            /\ MovedTo(m, Nearest(m))
            /\ stage' = IF Cardinality(Candidates(m)) < Lacking(m) THEN "failed" ELSE "built"
<1>1. PICK m \in WithPersona("manager.engineering") :
        LET c == Candidates(m)
            moved == {u \in c : Cardinality({v \in c : Precedes(v, u)}) < Lacking(m)}
        IN  /\ users' = [u \in DOMAIN users |->
                            IF u \in moved THEN [users[u] EXCEPT !.manager = m] ELSE users[u]]
            /\ stage' = IF Cardinality(c) < Lacking(m) THEN "failed" ELSE "built"
  BY DEF MoveReports
<1> DEFINE c == Candidates(m)  moved == Nearest(m)
<1>3. users' = [u \in DOMAIN users |->
                    IF u \in moved THEN [users[u] EXCEPT !.manager = m] ELSE users[u]]
  BY <1>1 DEF Nearest
<1> HIDE DEF moved
<1>4. m \in DOMAIN users /\ users[m].persona = "manager.engineering"
  BY DEF WithPersona
<1>5. users[m].department = "Engineering"
  <2>1. Carries(m)
    BY <1>4 DEF StaffInv
  <2> QED  BY <1>4, <2>1 DEF Carries
<1>6. \A u \in c : u \in DOMAIN users /\ u # Exec /\ u # m /\ users[u].department = "Engineering"
  <2> SUFFICES ASSUME NEW u \in c
               PROVE  u \in DOMAIN users /\ u # Exec /\ u # m /\ users[u].department = "Engineering"
    OBVIOUS
  <2>1. /\ u \in DOMAIN users /\ u # m /\ users[u].department = users[m].department
        /\ users[u].manager # Nobody
    BY DEF Candidates
  <2>2. Answers(u)
    BY <2>1 DEF StaffInv
  <2> QED  BY <1>5, <2>1, <2>2 DEF Answers
<1>0. moved \subseteq c
  BY DEF Nearest, moved
<1> HIDE DEF c
<1>7. moved \in SUBSET DOMAIN users
      /\ \A u \in moved : u # Exec /\ u # m /\ users[u].department = "Engineering"
  BY <1>0, <1>6
<1>8. MovedTo(m, moved)
  BY <1>3, <1>7 DEF MovedTo
<1> QED  BY <1>1, <1>8 DEF moved

LEMMA ReportsSteps ==
  ASSUME StaffInv, item' = item, PairPersonas \/ MoveReports \/ NoManagerPersona
  PROVE  StaffInv'
<1>1. CASE PairPersonas
  <2>1. /\ stage = "reports" /\ stage' = "enough"
        /\ UNCHANGED <<company, total, counts, turn, hiring, heads>>
    BY <1>1 DEF PairPersonas, request
  <2>2. PICK m \in WithPersona("manager.engineering") : MovedTo(m, WithPersona("employee.engineering"))
    BY <1>1, Paired
  <2> QED  BY <2>1, <2>2, MovedUnder
<1>2. CASE MoveReports
  <2>1. stage = "enough" /\ UNCHANGED <<company, total, counts, turn, hiring, heads>>
    BY <1>2 DEF MoveReports, request
  <2>2. PICK m \in WithPersona("manager.engineering") :
            /\ MovedTo(m, Nearest(m))
            /\ stage' = IF Cardinality(Candidates(m)) < Lacking(m) THEN "failed" ELSE "built"
    BY <1>2, Moves
  <2> QED  BY <2>1, <2>2, MovedUnder
<1>3. CASE NoManagerPersona
  <2>1. /\ stage = "reports" /\ stage' = "built"
        /\ UNCHANGED <<company, total, counts, turn, left, personas, leads, users, heads>>
    BY <1>3 DEF NoManagerPersona, request, hiring
  <2>2. /\ keys' = keys /\ department' = department /\ Person' = Person
    BY <2>1, SameCompany
  <2>3. StaffTyped'
    BY <2>1, <2>2 DEF StaffInv, StaffTyped, StaffStages
  <2>4. /\ \A u \in DOMAIN users' : Answers(u)' /\ Carries(u)'
        /\ \A d \in DOMAIN heads' : Leads(d)'
    BY <2>1 DEF StaffInv, Answers, Carries, Leads
  <2>5. Waiting' /\ Headed' /\ TeamLeads'
    BY <2>1, <2>2 DEF StaffInv, Waiting, Headed, TeamLeads
  <2> QED  BY <2>3, <2>4, <2>5 DEF StaffInv
<1> QED
  BY <1>1, <1>2, <1>3

LEMMA StaffNextSteps ==
  ASSUME StaffInv, item' = item, StaffNext
  PROVE  StaffInv'
  BY AllocationSteps, HireCEOStep, HireHeadStep, HireLeadStep, HireMemberStep, NextDepartmentStep,
     ReportsSteps DEF StaffNext

-----------------------------------------------------------------------------
(* The records: none of the loops touches the staff.                       *)

Recorded ==
    /\ UNCHANGED <<company, total, counts, turn, hiring, users, heads>>
    /\ stage \in {"built"} \cup RecordStages /\ stage' \in {"failed"} \cup RecordStages
    /\ item' \in Nat

LEMMA LoopsRecord ==
  ASSUME item \in Nat, NEW this \in RecordStages, NEW next \in RecordStages, NEW n, Loop(this, n, next)
  PROVE  Recorded
  BY DEF Loop, Recorded, staff, request

LEMMA RecordsStep ==
  ASSUME StaffInv, Recorded
  PROVE  StaffInv'
<1>1. /\ UNCHANGED <<company, total, counts, turn, left, personas, leads, users, heads>>
      /\ stage \in {"built"} \cup RecordStages /\ stage' \in {"failed"} \cup RecordStages
      /\ item' \in Nat
  BY DEF Recorded, hiring
<1>2. /\ keys' = keys /\ department' = department /\ Person' = Person
  BY <1>1, SameCompany
<1>3. StaffTyped'
  BY <1>1, <1>2 DEF StaffInv, StaffTyped, StaffStages, RecordStages
<1>4. /\ \A u \in DOMAIN users' : Answers(u)' /\ Carries(u)'
      /\ \A d \in DOMAIN heads' : Leads(d)'
  BY <1>1 DEF StaffInv, Answers, Carries, Leads
<1>5. Waiting' /\ Headed' /\ TeamLeads'
  BY <1>1, <1>2 DEF StaffInv, Waiting, Headed, TeamLeads, RecordStages
<1> QED  BY <1>3, <1>4, <1>5 DEF StaffInv

LEMMA DocumentsRecord ==
  ASSUME item \in Nat, stage \in RecordStages, NEW name, NEW type, NEW classification, NEW owner,
         NEW more, NEW loop, loop.next \in RecordStages,
         add_document(name, type, classification, owner, more, loop)
  PROVE  Recorded
<1> DEFINE key == <<classification, type, name>>
<1>1. CASE key \in files
  <2>1. stage' = "failed" /\ UNCHANGED <<staff, item>>
    BY <1>1 DEF add_document
  <2> QED  BY <2>1 DEF Recorded, staff, request
<1>2. CASE key \notin files
  <2>1. Loop(stage, loop.turns, loop.next)
    BY <1>2 DEF add_document
  <2> QED  BY <2>1, LoopsRecord
<1> QED  BY <1>1, <1>2

Recording ==
    \/ Enrol
    \/ AddProfile \/ RequestLeave \/ Attend \/ Train \/ Review
    \/ AddProduct \/ AddCustomer \/ Allot \/ HandOut \/ Allocate_dates \/ DrawDate \/ StartOrders
    \/ AddOrder \/ ReportRevenue \/ SetTargets \/ AddExpense \/ SetBudgets
    \/ WritePolicy \/ FilePayroll \/ Compare \/ WriteContract
    \/ Introduce \/ PublishNews \/ Advertise \/ PublishAbout

LEMMA AllRecord ==
  ASSUME item \in Nat, Recording
  PROVE  Recorded
<1>1. CASE AddProfile \/ RequestLeave \/ Attend \/ Train \/ Review \/ AddProduct \/ AddCustomer
           \/ AddOrder \/ AddExpense \/ PublishNews \/ Advertise
  <2>1. PICK this \in RecordStages, next \in RecordStages, n \in {Len(users), Volume[company].leave_requests,
             Volume[company].training_records, Volume[company].products, Volume[company].customers,
             Volume[company].orders, Volume[company].expenses, Items} :
          Loop(this, n, next)
    <3>1. CASE AddProfile  BY <3>1, Zenon DEF AddProfile, RecordStages
    <3>2. CASE RequestLeave  BY <3>2, Zenon DEF RequestLeave, RecordStages
    <3>3. CASE Attend  BY <3>3, Zenon DEF Attend, RecordStages
    <3>4. CASE Train  BY <3>4, Zenon DEF Train, RecordStages
    <3>5. CASE Review  BY <3>5, Zenon DEF Review, RecordStages
    <3>6. CASE AddProduct  BY <3>6, Zenon DEF AddProduct, RecordStages
    <3>7. CASE AddCustomer  BY <3>7, Zenon DEF AddCustomer, RecordStages
    <3>8. CASE AddOrder  BY <3>8, Zenon DEF AddOrder, RecordStages
    <3>9. CASE AddExpense  BY <3>9, Zenon DEF AddExpense, RecordStages
    <3>10. CASE PublishNews  BY <3>10 DEF PublishNews, RecordStages
    <3>11. CASE Advertise  BY <3>11, Zenon DEF Advertise, RecordStages
    <3> QED
      BY <1>1, <3>1, <3>2, <3>3, <3>4, <3>5, <3>6, <3>7, <3>8, <3>9, <3>10, <3>11, Zenon
  <2> QED  BY <2>1, LoopsRecord
<1>2. CASE Enrol \/ Allot \/ HandOut \/ Allocate_dates \/ DrawDate \/ StartOrders \/ ReportRevenue
           \/ SetTargets \/ SetBudgets \/ Introduce
  <2>1. /\ UNCHANGED staff /\ stage \in {"built"} \cup RecordStages /\ stage' \in RecordStages
        /\ item' = item \/ item' = 0 \/ item' = item + 1
    <3>1. CASE Enrol  BY <3>1 DEF Enrol, RecordStages
    <3>2. CASE Allot  BY <3>2 DEF Allot, RecordStages
    <3>3. CASE HandOut  BY <3>3 DEF HandOut, RecordStages
    <3>4. CASE Allocate_dates  BY <3>4 DEF Allocate_dates, RecordStages
    <3>5. CASE DrawDate  BY <3>5 DEF DrawDate, RecordStages
    <3>6. CASE StartOrders  BY <3>6 DEF StartOrders, RecordStages
    <3>7. CASE ReportRevenue  BY <3>7 DEF ReportRevenue, RecordStages
    <3>8. CASE SetTargets  BY <3>8 DEF SetTargets, RecordStages
    <3>9. CASE SetBudgets  BY <3>9 DEF SetBudgets, RecordStages
    <3>10. CASE Introduce  BY <3>10 DEF Introduce, RecordStages
    <3> QED
      BY <1>2, <3>1, <3>2, <3>3, <3>4, <3>5, <3>6, <3>7, <3>8, <3>9, <3>10, Zenon
  <2> QED  BY <2>1 DEF Recorded, staff, request
<1>3. CASE WritePolicy
  <2> DEFINE loop == [turns |-> Len(POLICY_TYPES), next |-> "payroll"]
  <2>1. stage \in RecordStages /\ loop.next \in RecordStages
    BY <1>3 DEF WritePolicy, RecordStages
  <2>2. PICK name, type, classification, owner, more : add_document(name, type, classification, owner, more, loop)
    BY <1>3 DEF WritePolicy
  <2> HIDE DEF loop
  <2> QED  BY <2>1, <2>2, DocumentsRecord
<1>4. CASE FilePayroll
  <2> DEFINE loop == [turns |-> 1, next |-> "comparison"]
  <2>1. stage \in RecordStages /\ loop.next \in RecordStages
    BY <1>4 DEF FilePayroll, RecordStages
  <2>2. PICK name, type, classification, owner, more : add_document(name, type, classification, owner, more, loop)
    BY <1>4 DEF FilePayroll
  <2> HIDE DEF loop
  <2> QED  BY <2>1, <2>2, DocumentsRecord
<1>5. CASE Compare
  <2> DEFINE loop == [turns |-> Pair,
                      next |-> IF Volume[company].contracts > Pair THEN "contracts" ELSE "leaders"]
  <2>1. stage \in RecordStages /\ loop.next \in RecordStages
    BY <1>5 DEF Compare, RecordStages
  <2>2. PICK name, type, classification, owner, more : add_document(name, type, classification, owner, more, loop)
    BY <1>5 DEF Compare
  <2> HIDE DEF loop
  <2> QED  BY <2>1, <2>2, DocumentsRecord
<1>6. CASE WriteContract
  <2> DEFINE loop == [turns |-> Volume[company].contracts - Pair, next |-> "leaders"]
  <2>1. stage \in RecordStages /\ loop.next \in RecordStages
    BY <1>6 DEF WriteContract, RecordStages
  <2>2. PICK name, type, classification, owner, more : add_document(name, type, classification, owner, more, loop)
    BY <1>6 DEF WriteContract
  <2> HIDE DEF loop
  <2> QED  BY <2>1, <2>2, DocumentsRecord
<1>7. CASE PublishAbout
  <2> DEFINE loop == [turns |-> 1, next |-> "recorded"]
  <2>1. stage \in RecordStages /\ loop.next \in RecordStages
    BY <1>7 DEF PublishAbout, RecordStages
  <2>2. PICK name, type, classification, owner, more : add_document(name, type, classification, owner, more, loop)
    BY <1>7 DEF PublishAbout
  <2> HIDE DEF loop
  <2> QED  BY <2>1, <2>2, DocumentsRecord
<1> QED
  BY <1>1, <1>2, <1>3, <1>4, <1>5, <1>6, <1>7 DEF Recording

LEMMA StaffInvKept ==
  ASSUME StaffInv, [DataNext]_dataVars
  PROVE  StaffInv'
<1>1. item \in Nat
  BY DEF StaffInv, StaffTyped
<1>2. CASE Staff
  BY <1>2, StaffNextSteps DEF Staff
<1>3. CASE Recording
  BY <1>1, <1>3, AllRecord, RecordsStep
<1>4. CASE UNCHANGED dataVars
  <2>1. /\ UNCHANGED <<company, total, stage, counts, turn, left, personas, leads, users, heads, item>>
    BY <1>4 DEF dataVars, staffVars, request, hiring
  <2>2. /\ keys' = keys /\ department' = department /\ Person' = Person /\ Administrated' = Administrated
    BY <2>1, SameCompany
  <2>3. StaffTyped'
    BY <2>1, <2>2 DEF StaffInv, StaffTyped
  <2>4. /\ \A u \in DOMAIN users' : Answers(u)' /\ Carries(u)'
        /\ \A d \in DOMAIN heads' : Leads(d)'
    BY <2>1 DEF StaffInv, Answers, Carries, Leads
  <2>5. Waiting' /\ Headed' /\ TeamLeads'
    BY <2>1, <2>2 DEF StaffInv, Waiting, Headed, TeamLeads
  <2> QED  BY <2>3, <2>4, <2>5 DEF StaffInv
<1>5. DataNext => Staff \/ Recording
  BY DEF DataNext, Recording
<1> QED
  BY <1>2, <1>3, <1>4, <1>5

\* Of a staffed company: one line of command, four steps long at most.
LEMMA LineOfCommand ==
  ASSUME StaffInv
  PROVE  OneLine
<1> SUFFICES ASSUME stage = "built"
             PROVE  /\ {u \in DOMAIN users : users[u].manager = Nobody} = {Exec}
                    /\ \A u \in DOMAIN users : Above(Above(Above(Above(u)))) = Nobody
                    /\ \A u \in DOMAIN users : Reports(u) # {} => "Manager" \in Roles(u)
                    /\ DOMAIN heads = Range(keys)
  BY DEF OneLine
<1>1. /\ users \in Seq(Person) /\ users # << >> /\ heads[Executive] = Exec /\ Executive \in DOMAIN heads
      /\ DOMAIN heads = Range(keys)
  BY DEF StaffInv, StaffTyped, Headed
<1>2. DOMAIN users = 1 .. Len(users) /\ Len(users) \in Nat /\ Len(users) > 0
  BY <1>1, Row
<1>3. Exec \in DOMAIN users
  BY <1>2 DEF Exec
<1>4. \A u \in DOMAIN users : Answers(u)
  BY DEF StaffInv
<1>5. \A u \in DOMAIN users : users[u].manager = Nobody <=> u = Exec
  BY <1>4 DEF Answers
<1>6. \A u \in DOMAIN users : u # Nobody
  BY <1>2 DEF Nobody
<1>7. \A d \in DOMAIN heads : heads[d] \in DOMAIN users
  BY DEF StaffInv, Leads
<1>8. ASSUME NEW u \in DOMAIN users
      PROVE  Above(Above(Above(Above(u)))) = Nobody
  <2>1. Above(Nobody) = Nobody /\ Above(Exec) = Nobody
    BY <1>3, <1>5 DEF Above, Nobody, Exec
  <2>2. \A v \in DOMAIN users : Above(v) = users[v].manager
    BY <1>6 DEF Above
  <2>3. ASSUME NEW v \in DOMAIN users, users[v].is_manager
        PROVE  Above(Above(Above(v))) = Nobody
    <3>1. CASE v = Exec
      BY <2>1, <3>1
    <3>2. CASE v # Exec
      <4> DEFINE h == heads[users[v].department]
      <4>1. /\ users[v].department \in DOMAIN heads
            /\ users[v].manager = IF h = v THEN Exec ELSE h
        BY <1>4, <2>3, <3>2 DEF Answers
      <4>2. h \in DOMAIN users
        BY <1>7, <4>1
      <4>3. /\ users[h].is_manager /\ users[h].department = users[v].department
        BY <4>1 DEF StaffInv, Leads
      <4>4. CASE h = v
        BY <2>1, <2>2, <4>1, <4>4
      <4>5. CASE h # v
        <5>1. Above(v) = h
          BY <2>2, <4>1, <4>5
        <5>2. CASE h = Exec
          BY <2>1, <5>1, <5>2
        <5>3. CASE h # Exec
          <6>1. users[h].manager = Exec
            BY <1>4, <4>2, <4>3, <5>3 DEF Answers
          <6>2. Above(h) = Exec
            BY <2>2, <4>2, <6>1
          <6> HIDE DEF h
          <6> QED  BY <2>1, <5>1, <6>2
        <5> QED  BY <5>2, <5>3
      <4> QED  BY <4>4, <4>5
    <3> QED  BY <3>1, <3>2
  <2>4. CASE u = Exec
    BY <2>1, <2>4
  <2>5. CASE u # Exec
    <3>1. users[u].manager \in DOMAIN users /\ users[users[u].manager].is_manager
      BY <1>4, <2>5 DEF Answers
    <3>2. Above(u) = users[u].manager
      BY <2>2
    <3> QED  BY <2>3, <3>1, <3>2
  <2> QED  BY <2>4, <2>5
<1>9. ASSUME NEW u \in DOMAIN users, Reports(u) # {}
      PROVE  "Manager" \in Roles(u)
  <2>1. PICK v \in DOMAIN users : users[v].manager = u
    BY <1>9 DEF Reports
  <2>2. v # Exec
    BY <1>5, <1>6, <2>1
  <2>3. users[u].is_manager
    BY <1>4, <2>1, <2>2 DEF Answers
  <2> QED  BY <2>3 DEF Roles
<1> QED
  BY <1>1, <1>3, <1>5, <1>8, <1>9

\* The staff is well formed.
LEMMA StaffWellFormed ==
  ASSUME StaffInv
  PROVE  StaffTypeOK
<1>1. /\ stage \notin {"allocate", "failed"} => counts \in [Range(keys) -> 1 .. total]
      /\ turn \in 1 .. Len(keys) /\ left \in 0 .. total
      /\ leads \in [due : Nat, hired : Seq(Nat)] /\ leads.due <= left
      /\ users \in Seq(Person) /\ DOMAIN heads \subseteq Range(keys)
  BY DEF StaffInv, StaffTyped
<1>2. total \in Nat
  BY Placement DEF StaffInv
<1>3. leads.due \in 0 .. left
  BY <1>1, <1>2
<1>4. ASSUME NEW u \in DOMAIN users
      PROVE  users[u].department \in Range(keys) /\ users[u].manager \in {Nobody} \cup DOMAIN users
  <2>1. users[u] \in Person
    BY <1>1, Row
  <2>2. Answers(u)
    BY DEF StaffInv
  <2> QED  BY <2>1, <2>2 DEF Answers, Person
<1>5. \A d \in DOMAIN heads : heads[d] \in DOMAIN users /\ users[heads[d]].department = d
  BY DEF StaffInv, Leads
<1> QED
  BY <1>1, <1>3, <1>4, <1>5 DEF StaffTypeOK

LEMMA StaffInvAlways == DataSpec => []StaffInv
<1>1. DataInit => StaffInv
  BY StaffBegins
<1>2. StaffInv /\ [DataNext]_dataVars => StaffInv'
  BY StaffInvKept
<1> QED
  BY <1>1, <1>2, PTL DEF DataSpec

\* FR-034 holds of every company, however large and however placed: one line of
\* command, through people who hold the role of a manager, and a head for every
\* department.
THEOREM OneLineOfCommand == DataSpec => []OneLine
<1>1. StaffInv => OneLine
  BY LineOfCommand
<1> QED
  BY <1>1, StaffInvAlways, PTL

\* Whoever is hired is of one of the company's departments and under somebody
\* hired, a department asked for at least one and for no more than all, and a
\* head is of the department.
THEOREM StaffTypeCorrect == DataSpec => [](StaffTypeOK /\ TypeIsRight)
<1>1. StaffInv => StaffTypeOK /\ TypeIsRight
  <2>1. StaffInv => TypeIsRight
    BY DEF StaffInv, StaffTyped, TypeIsRight
  <2> QED  BY <2>1, StaffWellFormed
<1> QED
  BY <1>1, StaffInvAlways, PTL

-----------------------------------------------------------------------------
(* The count of the staff: what is hired and what is still to come add up  *)
(* to what was asked for, in every department and together.                *)

Members(d) == {u \in DOMAIN users : users[u].department = d}
Ahead == {Alphabetical[company][i] : i \in turn + 1 .. Len(keys)}

CountInv ==
    /\ stage \in {"head", "staff"} =>
        /\ Len(users) + left + SumFunctionOnSet(counts, Ahead)
             = total + (IF Executive \in Ahead THEN 1 ELSE 0)
        /\ \A i \in 1 .. Len(keys) : LET d == Alphabetical[company][i] IN
             Cardinality(Members(d)) = IF i < turn THEN counts[d]
                                       ELSE IF i = turn THEN counts[d] - left
                                       ELSE IF d = Executive THEN 1 ELSE 0
    /\ stage \notin {"allocate", "balance", "failed", "head", "staff"} =>
        /\ Len(users) = total
        /\ \A d \in Range(keys) : Cardinality(Members(d)) = counts[d]

\* The places of the departments in the list by name.
LEMMA Places ==
  ASSUME StaffTyped
  PROVE  /\ Len(keys) \in Nat /\ DOMAIN Alphabetical[company] = 1 .. Len(keys)
         /\ \A i \in 1 .. Len(keys) : Alphabetical[company][i] \in Range(keys)
         /\ \A i, j \in 1 .. Len(keys) : Alphabetical[company][i] = Alphabetical[company][j] => i = j
         /\ \A d \in Range(keys) : \E i \in 1 .. Len(keys) : Alphabetical[company][i] = d
<1> DEFINE a == Alphabetical[company]
<1>1. a \in Seq(STRING) /\ Range(a) = Range(keys) /\ Len(a) = Len(keys) /\ IsInjective(a)
  BY Placement
<1> HIDE DEF a
<1>2. DOMAIN a = 1 .. Len(a) /\ Len(a) \in Nat
  BY <1>1, Row
<1>3. \A i \in 1 .. Len(keys) : a[i] \in Range(keys)
  BY <1>1, <1>2 DEF Range
<1>4. \A i, j \in 1 .. Len(keys) : a[i] = a[j] => i = j
  BY <1>1, <1>2 DEF IsInjective
<1>5. \A d \in Range(keys) : \E i \in 1 .. Len(keys) : a[i] = d
  <2> SUFFICES ASSUME NEW d \in Range(a)
               PROVE  \E i \in DOMAIN a : a[i] = d
    BY <1>1, <1>2
  <2> QED  BY DEF Range
<1> QED  BY <1>1, <1>2, <1>3, <1>4, <1>5 DEF a

LEMMA MembersFinite ==
  ASSUME users \in Seq(Person), NEW d
  PROVE  IsFiniteSet(Members(d)) /\ Cardinality(Members(d)) \in Nat /\ IsFiniteSet(DOMAIN users)
<1>1. DOMAIN users = 1 .. Len(users) /\ Len(users) \in Nat
  BY Row
<1>2. IsFiniteSet(DOMAIN users) /\ Members(d) \in SUBSET DOMAIN users
  <2>1. IsFiniteSet(1 .. Len(users))
    BY <1>1, FS_Interval
  <2> QED  BY <1>1, <2>1 DEF Members
<1> QED  BY <1>2, FS_Subset, FS_CardinalityType

LEMMA OneMember ==
  ASSUME users \in Seq(Person), NEW d \in Range(keys), NEW m, NEW manages, NEW p, NEW r,
         Hire(d, m, manages, p, r)
  PROVE  /\ Len(users') = Len(users) + 1 /\ Len(users) \in Nat
         /\ Cardinality(Members(d)') = Cardinality(Members(d)) + 1
         /\ \A e : e # d => Members(e)' = Members(e)
<1> DEFINE new == [department |-> d, manager |-> m, is_manager |-> manages, persona |-> p, role |-> r]
           n == Len(users) + 1
<1>1. users' = Append(users, new) /\ new.department = d
  BY DEF Hire
<1> HIDE DEF new
<1>2. DOMAIN users = 1 .. Len(users) /\ Len(users) \in Nat
  BY Row
<1>3. /\ Len(users') = n /\ DOMAIN users' = DOMAIN users \cup {n} /\ n \notin DOMAIN users
      /\ users'[n] = new /\ \A u \in DOMAIN users : users'[u] = users[u]
  <2> DEFINE S == Person \cup {new}
  <2>1. users \in Seq(S) /\ new \in S
    OBVIOUS
  <2> HIDE DEF S
  <2>2. /\ Len(users') = Len(users) + 1 /\ DOMAIN users' = 1 .. Len(users) + 1
        /\ users'[Len(users) + 1] = new
        /\ \A i \in 1 .. Len(users) : users'[i] = users[i]
    BY <1>1, <2>1, Longer
  <2> QED  BY <1>2, <2>2
<1> HIDE DEF n
<1>4. Members(d)' = Members(d) \cup {n} /\ n \notin Members(d)
  BY <1>1, <1>3 DEF Members
<1>5. \A e : e # d => Members(e)' = Members(e)
  BY <1>1, <1>3 DEF Members
<1>6. IsFiniteSet(Members(d))
  BY MembersFinite
<1>7. Cardinality(Members(d)') = Cardinality(Members(d)) + 1
  BY <1>4, <1>6, FS_AddElement
<1> QED  BY <1>2, <1>3, <1>5, <1>7 DEF n

LEMMA SumAhead ==
  ASSUME StaffTyped, counts \in [Range(keys) -> 1 .. total]
  PROVE  /\ SumFunctionOnSet(counts, Ahead) \in Nat /\ Ahead \in SUBSET Range(keys)
         /\ IsFiniteSet(Ahead) /\ \A d \in Range(keys) : counts[d] \in Nat
<1>1. total \in Nat
  BY Placement
<1>2. \A d \in Range(keys) : counts[d] \in Nat
  BY <1>1
<1>3. turn \in Nat
  BY Places DEF StaffTyped
<1>4. Ahead \in SUBSET Range(keys)
  <2>1. \A i \in turn + 1 .. Len(keys) : i \in 1 .. Len(keys)
    BY <1>3, Places
  <2> QED  BY <2>1, Places DEF Ahead
<1>5. IsFiniteSet(Range(keys))
  BY DepartmentsFinite
<1>6. IsFiniteSet(Ahead)
  BY <1>4, <1>5, FS_Subset
<1> QED  BY <1>2, <1>4, <1>5, <1>6, SumsNest

LEMMA HiredCount ==
  ASSUME StaffInv, CountInv, stage \in {"head", "staff"}, stage' = "staff", left > 0,
         UNCHANGED <<company, total, counts, turn>>, left' = left - 1,
         NEW m, NEW manages, NEW p, NEW r, Hire(department, m, manages, p, r)
  PROVE  CountInv'
<1>1. keys' = keys /\ Ahead' = Ahead
  BY DEF keys, Ahead
<1>2. /\ StaffTyped /\ users \in Seq(Person) /\ counts \in [Range(keys) -> 1 .. total]
      /\ turn \in 1 .. Len(keys) /\ left \in Nat /\ total \in Nat
  BY LeftToHire DEF StaffInv, StaffTyped
<1>3. /\ Len(users) + left + SumFunctionOnSet(counts, Ahead)
           = total + (IF Executive \in Ahead THEN 1 ELSE 0)
      /\ \A i \in 1 .. Len(keys) : LET d == Alphabetical[company][i] IN
             Cardinality(Members(d)) = IF i < turn THEN counts[d]
                                       ELSE IF i = turn THEN counts[d] - left
                                       ELSE IF d = Executive THEN 1 ELSE 0
  BY DEF CountInv
<1>4. department \in Range(keys) /\ department = Alphabetical[company][turn]
  BY <1>2, InHandOne DEF department
<1>5. /\ Len(users') = Len(users) + 1 /\ Len(users) \in Nat
      /\ Cardinality(Members(department)') = Cardinality(Members(department)) + 1
      /\ \A e : e # department => Members(e)' = Members(e)
  <2> DEFINE d == department
  <2>1. Hire(d, m, manages, p, r) /\ d \in Range(keys)
    BY <1>4
  <2>2. d' = d
    BY DEF department
  <2> PICK e : e = d
    OBVIOUS
  <2>3. /\ Len(users') = Len(users) + 1 /\ Len(users) \in Nat
        /\ Cardinality(Members(e)') = Cardinality(Members(e)) + 1
        /\ \A f : f # e => Members(f)' = Members(f)
    <3> HIDE DEF d
    <3> QED  BY <1>2, <2>1, OneMember
  <2> QED  BY <2>2, <2>3
<1>6. SumFunctionOnSet(counts, Ahead) \in Nat /\ \A d \in Range(keys) : counts[d] \in Nat
  BY <1>2, SumAhead
<1>7. Len(users') + left' + SumFunctionOnSet(counts, Ahead)
           = total + (IF Executive \in Ahead THEN 1 ELSE 0)
  BY <1>2, <1>3, <1>5, <1>6
<1>8. ASSUME NEW i \in 1 .. Len(keys), NEW d, d = Alphabetical[company][i]
      PROVE  Cardinality(Members(d)') = IF i < turn THEN counts[d]
                                       ELSE IF i = turn THEN counts[d] - left'
                                       ELSE IF d = Executive THEN 1 ELSE 0
  <2>1. CASE i = turn
    <3>1. d = department
      BY <1>4, <1>8, <2>1
    <3>2. Cardinality(Members(d)') = Cardinality(Members(d)) + 1
      <4>1. department' = department
        BY DEF department
      <4> QED  BY <1>5, <3>1, <4>1
    <3>3. Cardinality(Members(d)) = counts[d] - left /\ ~ (i < turn)
      BY <1>2, <1>3, <1>8, <2>1, Places
    <3>4. counts[d] \in Nat
      BY <1>4, <1>6, <3>1
    <3> QED  BY <1>2, <2>1, <3>2, <3>3, <3>4
  <2>2. CASE i # turn
    <3>1. d # department
      BY <1>2, <1>4, <1>8, <2>2, Places
    <3>2. Members(d)' = Members(d)
      BY <1>5, <3>1
    <3> QED  BY <1>3, <1>8, <2>2, <3>2
  <2> QED  BY <2>1, <2>2
<1>9. \A i \in 1 .. Len(keys) : LET d == Alphabetical[company][i] IN
             Cardinality(Members(d)') = IF i < turn THEN counts[d]
                                       ELSE IF i = turn THEN counts[d] - left'
                                       ELSE IF d = Executive THEN 1 ELSE 0
  BY <1>8
<1>10. SumFunctionOnSet(counts, Ahead)' = SumFunctionOnSet(counts, Ahead)
  BY <1>1
<1>11. \A d : Cardinality(Members(d))' = Cardinality(Members(d)')
  OBVIOUS
<1> QED
  BY <1>1, <1>7, <1>9, <1>10 DEF CountInv

LEMMA FirstCount ==
  ASSUME StaffInv, HireCEO
  PROVE  CountInv'
<1>1. /\ stage = "balance" /\ stage' = "head" /\ Allocated = total /\ TakeUp(1)
      /\ company' = company /\ total' = total /\ counts' = counts /\ keys' = keys
  BY DEF HireCEO, request, keys
<1>2. /\ StaffTyped /\ users = << >> /\ users \in Seq(Person) /\ counts \in [Range(keys) -> 1 .. total]
      /\ total \in Nat /\ Executive \in Range(keys)
  BY <1>1, LeftToHire, Placement DEF StaffInv, Headed, StaffTyped
<1> DEFINE d == Alphabetical[company][1]
<1>3. d \in Range(keys) /\ 1 \in 1 .. Len(keys) /\ Len(keys) \in Nat
  <2>1. 1 \in 1 .. Len(keys) /\ Len(keys) \in Nat
    BY <1>2, Places DEF StaffTyped
  <2> QED  BY <1>2, <2>1, Places
<1>4. turn' = 1 /\ left' = counts[d] - (IF d = Executive THEN 1 ELSE 0)
  BY <1>1 DEF TakeUp
<1>5. Ahead' = Range(keys) \ {d}
  <2>1. Ahead' = {Alphabetical[company][i] : i \in 2 .. Len(keys)}
    BY <1>1, <1>4 DEF Ahead
  <2>2. \A i \in 2 .. Len(keys) : i \in 1 .. Len(keys) /\ i # 1
    BY <1>3
  <2>3. \A i \in 1 .. Len(keys) : i = 1 \/ i \in 2 .. Len(keys)
    BY <1>3
  <2>4. \A i \in 2 .. Len(keys) : Alphabetical[company][i] \in Range(keys) \ {d}
    BY <1>2, <1>3, <2>2, Places
  <2>5. \A e \in Range(keys) \ {d} : \E i \in 2 .. Len(keys) : e = Alphabetical[company][i]
    BY <1>2, <2>3, Places
  <2> QED  BY <2>1, <2>4, <2>5
<1> HIDE DEF d
<1>6. /\ SumFunctionOnSet(counts, Range(keys) \ {d}) \in Nat
      /\ total = counts[d] + SumFunctionOnSet(counts, Range(keys) \ {d})
  <2>1. \A x \in Range(keys) : counts[x] \in Nat
    BY <1>2
  <2>2. IsFiniteSet(Range(keys))
    BY <1>2, DepartmentsFinite
  <2>3. total = SumFunctionOnSet(counts, Range(keys))
    BY <1>1, <1>2 DEF Allocated, SumFunction
  <2> QED  BY <1>3, <2>1, <2>2, <2>3, SumsPeel
<1>7. /\ Len(users') = 1
      /\ Cardinality(Members(Executive)') = 1
      /\ \A e : e # Executive => Cardinality(Members(e)') = 0
  <2>b. PICK p : Hire(Executive, Nobody, TRUE, p, "Company Admin")
    BY DEF HireCEO
  <2>0. users = << >>
    BY <1>2
  <2>a. DOMAIN users = {} /\ Len(users) = 0
    BY <2>0
  <2>1. Members(Executive) = {} /\ \A e : Members(e) = {}
    BY <2>a DEF Members
  <2>2. /\ Len(users') = Len(users) + 1
        /\ Cardinality(Members(Executive)') = Cardinality(Members(Executive)) + 1
        /\ \A e : e # Executive => Members(e)' = Members(e)
    BY <1>2, <2>b, OneMember
  <2>3. Cardinality({}) = 0
    BY FS_EmptySet
  <2>4. Len(users') = 1
    BY <2>a, <2>2
  <2>5. Cardinality(Members(Executive)') = 1
    BY <2>1, <2>2, <2>3
  <2>6. \A e : e # Executive => Cardinality(Members(e)') = 0
    BY <2>1, <2>2, <2>3
  <2> QED  BY <2>4, <2>5, <2>6
<1>8. Len(users') + left' + SumFunctionOnSet(counts', Ahead')
           = total + (IF Executive \in Ahead' THEN 1 ELSE 0)
  <2>1. Executive \in Ahead' <=> d # Executive
    BY <1>2, <1>5
  <2>2. counts[d] \in Nat
    BY <1>2, <1>3
  <2>3. SumFunctionOnSet(counts', Ahead') = SumFunctionOnSet(counts, Range(keys) \ {d})
    BY <1>1, <1>5
  <2> DEFINE s == SumFunctionOnSet(counts, Range(keys) \ {d})
  <2>4. s \in Nat /\ total = counts[d] + s /\ SumFunctionOnSet(counts', Ahead') = s
    BY <1>6, <2>3
  <2> HIDE DEF s
  <2> QED  BY <1>2, <1>4, <1>7, <2>1, <2>2, <2>4
<1>9. ASSUME NEW i \in 1 .. Len(keys), NEW e, e = Alphabetical[company][i]
      PROVE  Cardinality(Members(e)') = IF i < turn' THEN counts[e]
                                       ELSE IF i = turn' THEN counts[e] - left'
                                       ELSE IF e = Executive THEN 1 ELSE 0
  <2>1. ~ (i < turn') /\ (i = turn' => e = d)
    BY <1>4, <1>9 DEF d
  <2>2. Cardinality(Members(e)') = IF e = Executive THEN 1 ELSE 0
    BY <1>7
  <2>3. counts[d] \in Nat
    BY <1>2, <1>3
  <2> QED  BY <1>4, <2>1, <2>2, <2>3
<1>10. \A i \in 1 .. Len(keys) : LET e == Alphabetical[company][i] IN
             Cardinality(Members(e)') = IF i < turn' THEN counts[e]
                                       ELSE IF i = turn' THEN counts[e] - left'
                                       ELSE IF e = Executive THEN 1 ELSE 0
  BY <1>1, <1>9
<1> QED
  BY <1>1, <1>8, <1>10 DEF CountInv

LEMMA NextCount ==
  ASSUME StaffInv, CountInv, NextDepartment
  PROVE  CountInv'
<1>1. /\ left = 0 /\ stage \in {"head", "staff"}
      /\ UNCHANGED <<company, total, counts, users, heads>> /\ keys' = keys
      /\ IF turn < Len(keys) THEN TakeUp(turn + 1) /\ stage' = "head"
         ELSE stage' = "reports" /\ UNCHANGED <<turn, hiring>>
  BY DEF NextDepartment, request, keys
<1>2. /\ StaffTyped /\ users \in Seq(Person) /\ counts \in [Range(keys) -> 1 .. total]
      /\ turn \in 1 .. Len(keys) /\ Len(keys) \in Nat /\ total \in Nat
  BY <1>1, LeftToHire, Places DEF StaffInv, StaffTyped
<1>3. /\ Len(users) + left + SumFunctionOnSet(counts, Ahead)
           = total + (IF Executive \in Ahead THEN 1 ELSE 0)
      /\ \A i \in 1 .. Len(keys) : LET d == Alphabetical[company][i] IN
             Cardinality(Members(d)) = IF i < turn THEN counts[d]
                                       ELSE IF i = turn THEN counts[d] - left
                                       ELSE IF d = Executive THEN 1 ELSE 0
  BY <1>1 DEF CountInv
<1>4. /\ SumFunctionOnSet(counts, Ahead) \in Nat /\ Ahead \in SUBSET Range(keys)
      /\ IsFiniteSet(Ahead) /\ \A d \in Range(keys) : counts[d] \in Nat
  BY <1>2, SumAhead
<1>5. \A d : Members(d)' = Members(d)
  BY <1>1 DEF Members
<1>6. Len(users) \in Nat /\ Len(users') = Len(users)
  BY <1>1, <1>2, Row
<1>7. CASE turn < Len(keys)
  <2> DEFINE d == Alphabetical[company][turn + 1]
  <2>1. /\ stage' = "head" /\ turn' = turn + 1
        /\ left' = counts[d] - (IF d = Executive THEN 1 ELSE 0)
    BY <1>1, <1>7 DEF TakeUp
  <2>2. turn + 1 \in 1 .. Len(keys)
    BY <1>2, <1>7
  <2>3. d \in Ahead /\ d \in Range(keys)
    BY <1>2, <1>7, <2>2, Places DEF Ahead
  <2>4. Ahead' = Ahead \ {d}
    <3>1. Ahead' = {Alphabetical[company][i] : i \in turn + 2 .. Len(keys)}
      BY <1>1, <1>2, <2>1 DEF Ahead
    <3>2. \A i \in turn + 2 .. Len(keys) : i \in 1 .. Len(keys) /\ i # turn + 1 /\ i \in turn + 1 .. Len(keys)
      BY <1>2
    <3>3. \A i \in turn + 1 .. Len(keys) : i = turn + 1 \/ i \in turn + 2 .. Len(keys)
      BY <1>2
    <3>4. \A i \in turn + 2 .. Len(keys) : Alphabetical[company][i] \in Ahead \ {d}
      BY <1>2, <2>2, <3>2, Places DEF Ahead
    <3>5. \A e \in Ahead \ {d} : \E i \in turn + 2 .. Len(keys) : e = Alphabetical[company][i]
      BY <3>3 DEF Ahead
    <3> QED  BY <3>1, <3>4, <3>5
  <2> HIDE DEF d
  <2>5. /\ SumFunctionOnSet(counts, Ahead \ {d}) \in Nat
        /\ SumFunctionOnSet(counts, Ahead) = counts[d] + SumFunctionOnSet(counts, Ahead \ {d})
    BY <1>4, <2>3, SumsPeel
  <2>6. Len(users') + left' + SumFunctionOnSet(counts', Ahead')
             = total + (IF Executive \in Ahead' THEN 1 ELSE 0)
    <3>1. Executive \in Ahead' <=> Executive \in Ahead /\ d # Executive
      BY <2>4
    <3>2. SumFunctionOnSet(counts', Ahead') = SumFunctionOnSet(counts, Ahead \ {d})
      BY <1>1, <2>4
    <3> DEFINE s == SumFunctionOnSet(counts, Ahead \ {d})  t == SumFunctionOnSet(counts, Ahead)
    <3>3. /\ s \in Nat /\ t = counts[d] + s /\ SumFunctionOnSet(counts', Ahead') = s /\ counts[d] \in Nat
          /\ Len(users) + left + t = total + (IF Executive \in Ahead THEN 1 ELSE 0)
      BY <1>3, <1>4, <2>3, <2>5, <3>2
    <3> HIDE DEF s, t
    <3>4. left = 0 /\ total \in Nat /\ Len(users) \in Nat /\ Len(users') = Len(users)
      BY <1>1, <1>2, <1>6
    <3>5. CASE d = Executive
      <4>1. Executive \in Ahead /\ Executive \notin Ahead' /\ left' = counts[d] - 1
        BY <2>1, <2>3, <3>1, <3>5
      <4> QED  BY <3>3, <3>4, <4>1
    <3>6. CASE d # Executive
      <4>1. (Executive \in Ahead <=> Executive \in Ahead') /\ left' = counts[d]
        BY <2>1, <3>1, <3>3, <3>6
      <4> QED  BY <3>3, <3>4, <4>1
    <3> QED  BY <3>5, <3>6
  <2>7. ASSUME NEW i \in 1 .. Len(keys), NEW e, e = Alphabetical[company][i]
        PROVE  Cardinality(Members(e)') = IF i < turn' THEN counts[e]
                                         ELSE IF i = turn' THEN counts[e] - left'
                                         ELSE IF e = Executive THEN 1 ELSE 0
    <3>1. Cardinality(Members(e)') = Cardinality(Members(e))
      BY <1>5
    <3>2. Cardinality(Members(e)) = IF i < turn THEN counts[e]
                                       ELSE IF i = turn THEN counts[e] - left
                                       ELSE IF e = Executive THEN 1 ELSE 0
      BY <1>3, <2>7
    <3>3. counts[e] \in Nat
      BY <1>2, <1>4, <2>7, Places
    <3>4. i = turn' => e = d
      BY <2>1, <2>7 DEF d
    <3> QED  BY <1>1, <1>2, <2>1, <3>1, <3>2, <3>3, <3>4
  <2>8. \A i \in 1 .. Len(keys) : LET e == Alphabetical[company][i] IN
               Cardinality(Members(e)') = IF i < turn' THEN counts[e]
                                         ELSE IF i = turn' THEN counts[e] - left'
                                         ELSE IF e = Executive THEN 1 ELSE 0
    BY <1>1, <2>7
  <2> QED  BY <1>1, <2>1, <2>6, <2>8 DEF CountInv
<1>8. CASE ~ (turn < Len(keys))
  <2>1. stage' = "reports" /\ turn = Len(keys)
    BY <1>1, <1>2, <1>8
  <2>2. Ahead = {}
    BY <1>2, <2>1 DEF Ahead
  <2>3. SumFunctionOnSet(counts, Ahead) = 0
    BY <2>2, SumsOfFew
  <2>4. Len(users') = total
    BY <1>1, <1>2, <1>3, <1>6, <2>2, <2>3
  <2>5. ASSUME NEW d \in Range(keys)
        PROVE  Cardinality(Members(d)') = counts[d]
    <3>1. PICK i \in 1 .. Len(keys) : Alphabetical[company][i] = d
      BY <1>2, Places
    <3>2. Cardinality(Members(d)) = counts[d]
      BY <1>1, <1>2, <1>3, <1>4, <2>1, <3>1
    <3> QED  BY <1>5, <3>2
  <2> QED  BY <1>1, <2>1, <2>4, <2>5 DEF CountInv
<1> QED
  BY <1>7, <1>8

LEMMA CountKept ==
  ASSUME StaffInv, CountInv, [DataNext]_dataVars
  PROVE  CountInv'
<1>1. ASSUME UNCHANGED <<company, total, counts, turn, left, users>>, stage' = stage
      PROVE  CountInv'
  BY <1>1 DEF CountInv, keys, Ahead, Members
<1>2. ASSUME UNCHANGED <<company, total, counts, users>>,
             stage \notin {"allocate", "balance", "failed", "head", "staff"},
             stage' \notin {"allocate", "balance", "head", "staff"}
      PROVE  CountInv'
  BY <1>2 DEF CountInv, keys, Members
<1>3. CASE Refuse \/ Divide \/ Balance
  <2>1. stage' \in {"failed", "balance"}
    BY <1>3 DEF Refuse, Divide, Balance
  <2> QED  BY <2>1 DEF CountInv
<1>4. CASE HireCEO
  BY <1>4, FirstCount
<1>5. CASE HireHead
  <2>1. CASE department \in DOMAIN heads
    <3>1. UNCHANGED <<company, total, counts, turn, left, users>> /\ stage = "head" /\ stage' = "staff"
      BY <1>5, <2>1 DEF HireHead, request
    <3> QED  BY <3>1 DEF CountInv, keys, Ahead, Members
  <2>2. CASE department \notin DOMAIN heads
    <3>1. /\ stage = "head" /\ stage' = "staff" /\ left > 0
          /\ UNCHANGED <<company, total, counts, turn>> /\ left' = left - 1
          /\ Hire(department, Exec, TRUE, FirstPersona, RoleFor(department, FirstPersona))
      BY <1>5, <2>2 DEF HireHead, request
    <3> QED  BY <3>1, HiredCount
  <2> QED  BY <2>1, <2>2
<1>6. CASE HireLead
  <2>1. /\ stage = "staff" /\ stage' = "staff" /\ leads.due > 0
        /\ UNCHANGED <<company, total, counts, turn>> /\ left' = left - 1
    BY <1>6 DEF HireLead, request
  <2>2. left > 0
    <3>1. leads \in [due : Nat, hired : Seq(Nat)] /\ leads.due <= left /\ left \in Nat
      BY LeftToHire DEF StaffInv, StaffTyped
    <3>2. leads.due \in Nat
      BY <3>1
    <3> QED  BY <2>1, <3>1, <3>2
  <2>3. PICK m, p, r : Hire(department, m, TRUE, p, r)
    BY <1>6 DEF HireLead
  <2> QED  BY <2>1, <2>2, <2>3, HiredCount
<1>7. CASE HireMember
  <2>1. /\ stage = "staff" /\ stage' = "staff" /\ left > 0
        /\ UNCHANGED <<company, total, counts, turn>> /\ left' = left - 1
    BY <1>7 DEF HireMember, request
  <2>2. PICK m, p, r : Hire(department, m, FALSE, p, r)
    BY <1>7 DEF HireMember
  <2> QED  BY <2>1, <2>2, HiredCount
<1>8. CASE NextDepartment
  BY <1>8, NextCount
<1>9. CASE PairPersonas \/ MoveReports
  <2>1. /\ stage \in {"reports", "enough"} /\ stage' \in {"enough", "failed", "built"}
        /\ UNCHANGED <<company, total, counts>>
    BY <1>9 DEF PairPersonas, MoveReports, request
  <2>2. DOMAIN users' = DOMAIN users /\ \A u \in DOMAIN users : users'[u].department = users[u].department
    <3>1. users \in Seq(Person)
      BY DEF StaffInv, StaffTyped
    <3>2. \A u \in DOMAIN users : users[u] \in Person
      BY <3>1, Row
    <3>3. CASE PairPersonas
      <4>1. PICK m : users' = [u \in DOMAIN users |->
              CASE u = m -> [users[u] EXCEPT !.is_manager = TRUE]
                [] users[u].persona = "employee.engineering" -> [users[u] EXCEPT !.manager = m]
                [] OTHER -> users[u]]
        BY <3>3 DEF PairPersonas
      <4>2. \A w \in Person : /\ [w EXCEPT !.is_manager = TRUE].department = w.department
                              /\ [w EXCEPT !.manager = m].department = w.department
        BY DEF Person
      <4> QED  BY <3>2, <4>1, <4>2
    <3>4. CASE MoveReports
      <4>1. PICK m :
          LET c == Candidates(m)
              moved == {u \in c : Cardinality({v \in c : Precedes(v, u)}) < Lacking(m)}
          IN  users' = [u \in DOMAIN users |->
                            IF u \in moved THEN [users[u] EXCEPT !.manager = m] ELSE users[u]]
        BY <3>4 DEF MoveReports
      <4>2. \A w \in Person : [w EXCEPT !.manager = m].department = w.department
        BY DEF Person
      <4> QED  BY <3>2, <4>1, <4>2
    <3> QED  BY <1>9, <3>3, <3>4
  <2>3. \A d : Members(d)' = Members(d)
    BY <2>2 DEF Members
  <2>4. Len(users') = Len(users)
    <3>1. users \in Seq(Person) /\ users' \in Seq(Person')
      <4>1. StaffInv'
        BY StaffInvKept
      <4> QED  BY <4>1 DEF StaffInv, StaffTyped
    <3>2. DOMAIN users = 1 .. Len(users) /\ Len(users) \in Nat
      BY <3>1, Row
    <3>3. DOMAIN users' = 1 .. Len(users') /\ Len(users') \in Nat
      BY <3>1, Row
    <3> QED  BY <2>2, <3>2, <3>3
  <2>5. keys' = keys
    BY <2>1 DEF keys
  <2>6. Len(users) = total /\ \A d \in Range(keys) : Cardinality(Members(d)) = counts[d]
    BY <2>1 DEF CountInv
  <2> QED  BY <2>1, <2>3, <2>4, <2>5, <2>6 DEF CountInv
<1>10. CASE NoManagerPersona
  <2>1. /\ stage = "reports" /\ stage' = "built" /\ UNCHANGED <<company, total, counts, users>>
    BY <1>10 DEF NoManagerPersona, request
  <2> QED  BY <1>2, <2>1
<1>11. CASE Recording
  <2>1. Recorded
    BY <1>11, AllRecord DEF StaffInv, StaffTyped
  <2> QED  BY <1>2, <2>1 DEF Recorded, RecordStages
<1>12. CASE UNCHANGED dataVars
  <2>1. UNCHANGED <<company, total, stage, counts, turn, left, users>>
    BY <1>12 DEF dataVars, staffVars, request, hiring
  <2> QED  BY <1>1, <2>1
<1>13. DataNext => StaffNext \/ Recording
  BY DEF DataNext, Recording, Staff
<1> QED
  BY <1>3, <1>4, <1>5, <1>6, <1>7, <1>8, <1>9, <1>10, <1>11, <1>12, <1>13 DEF StaffNext

LEMMA CountAlways == DataSpec => [](StaffInv /\ CountInv)
<1>1. DataInit => StaffInv /\ CountInv
  <2>1. DataInit => stage = "allocate"
    BY DEF DataInit, StaffInit
  <2> QED  BY <2>1, StaffBegins DEF CountInv
<1>2. StaffInv /\ CountInv /\ [DataNext]_dataVars => (StaffInv /\ CountInv)'
  BY StaffInvKept, CountKept
<1> QED
  BY <1>1, <1>2, PTL DEF DataSpec

-----------------------------------------------------------------------------
(* The records: what every row added says of the staff.                    *)

Decided(r) ==
    r.table \in {"leave_requests", "performance_reviews"} =>
        r.by \in DOMAIN users \ {r.user} /\ "Manager" \in Roles(r.by)
Ranked(r) == r.table = "leadership_profiles" => (r.order = 1 <=> users[r.user].manager = Nobody)
Granted(r) == r.table = "leave_balances" => r.remaining \in 0 .. r.entitlement
Owned(r) ==
    r.table = "documents" =>
        /\ r.department \in Range(keys) /\ heads[r.department] = r.owner
        /\ r.key[2] = "CONTRACT" /\ "Legal" \in Range(keys) => r.department = "Legal"
        /\ r.key[1] = "RESTRICTED" => r.department = "HR"
Readable(r) == r.table = "document_acl" => WithPersona("legal.counsel") \subseteq {r.user}

RowSound(r) == Decided(r) /\ Ranked(r) /\ Granted(r) /\ Owned(r) /\ Readable(r)

\* Nothing is recorded of a company that is not staffed.
RowsInv ==
    /\ stage \in StaffStages \ {"failed"} => added = {}
    /\ \A r \in added : RowSound(r)

Plain(r) ==
    r.table \notin {"leave_requests", "performance_reviews", "leadership_profiles", "leave_balances",
                    "documents", "document_acl"}

LEMMA PlainRows ==
  ASSUME NEW r, Plain(r)
  PROVE  RowSound(r)
  BY DEF Plain, RowSound, Decided, Ranked, Granted, Owned, Readable

\* Once staffed: every department has a head, and whoever is managed is managed
\* by somebody else, who holds the role.
LEMMA Commanded ==
  ASSUME StaffInv, CountInv, stage \in {"built"} \cup RecordStages
  PROVE  /\ StaffTyped /\ users \in Seq(Person) /\ users # << >> /\ DOMAIN heads = Range(keys)
         /\ heads[Executive] = Exec /\ Executive \in Range(keys) /\ "HR" \in Range(keys)
         /\ \A d \in Range(keys) : Leads(d)
         /\ \A u \in DOMAIN users : u \in Nat /\ u >= Exec /\ Answers(u) /\ Carries(u)
         /\ \A u \in DOMAIN users : users[u].manager # Nobody =>
              users[u].manager \in DOMAIN users \ {u} /\ "Manager" \in Roles(users[u].manager)
         /\ Len(users) = total /\ DOMAIN users = 1 .. total /\ total \in Nat
<1>1. StaffTyped /\ users \in Seq(Person) /\ users # << >> /\ DOMAIN heads = Range(keys)
      /\ heads[Executive] = Exec
  BY DEF StaffInv, StaffTyped, Headed, RecordStages
<1>2. Len(users) = total
  BY DEF CountInv, RecordStages
<1>3. DOMAIN users = 1 .. total /\ total \in Nat
  <2>1. DOMAIN users = 1 .. Len(users) /\ Len(users) \in Nat
    BY <1>1, Row
  <2> QED  BY <1>2, <2>1
<1>4. /\ \A d \in Range(keys) : Leads(d)
      /\ \A u \in DOMAIN users : Answers(u) /\ Carries(u)
  BY <1>1 DEF StaffInv
<1>5. \A u \in DOMAIN users : u \in Nat /\ u >= Exec
  BY <1>3 DEF Exec
<1>6. ASSUME NEW u \in DOMAIN users, users[u].manager # Nobody
      PROVE  users[u].manager \in DOMAIN users \ {u} /\ "Manager" \in Roles(users[u].manager)
  <2>1. Answers(u) /\ u # Exec
    BY <1>4, <1>6 DEF Answers
  <2>2. users[u].manager \in DOMAIN users /\ users[users[u].manager].is_manager
    BY <2>1 DEF Answers
  <2>3. users[u].manager # u
    <3>1. CASE users[u].is_manager
      <4>1. users[u].manager = (IF heads[users[u].department] = u THEN Exec ELSE heads[users[u].department])
        BY <2>1, <3>1 DEF Answers
      <4> QED  BY <2>1, <4>1
    <3>2. CASE ~ users[u].is_manager
      BY <2>2, <3>2
    <3> QED  BY <3>1, <3>2
  <2> QED  BY <2>2, <2>3 DEF Roles
<1>7. Executive \in Range(keys) /\ "HR" \in Range(keys)
  BY <1>1, Placement
<1> QED  BY <1>1, <1>2, <1>3, <1>4, <1>5, <1>6, <1>7

\* Whose turn it is is one of them.
LEMMA TurnsTaken ==
  ASSUME NEW T, \A x \in T : x \in Nat, IsFiniteSet(T), T # {}, NEW n \in Nat
  PROVE  InTurn(T, n) \in T
<1>1. Cardinality(T) \in Nat /\ Cardinality(T) # 0
  BY FS_CardinalityType, FS_EmptySet
<1>2. n % Cardinality(T) \in 0 .. Cardinality(T) - 1
  BY <1>1
<1>3. \E w \in T : Rank(T, w) = n % Cardinality(T)
  <2> PICK k : k = n % Cardinality(T)
    OBVIOUS
  <2>1. k \in 0 .. Cardinality(T) - 1
    BY <1>2
  <2> QED  BY <2>1, RanksTaken
<1>4. \E w \in T : Behind(w, T) = n % Cardinality(T)
  BY <1>3, Zenon DEF Rank, Behind
<1> QED  BY <1>4, Zenon DEF InTurn

LEMMA Drawn ==
  ASSUME NEW low \in Int, NEW high \in Int, NEW d \in Draw(low, high)
  PROVE  d \in Int /\ low <= d /\ d <= high
  BY DEF Draw

LEMMA ProfileRows ==
  ASSUME AddProfile
  PROVE  \A r \in added' : RowSound(r)
<1> PICK country \in COUNTRIES, type \in EMPLOYMENT_TYPES :
        LET annual == entitlement_days(country, type)
            sick == IF country = "EG" THEN 10 ELSE 12
        IN  \E used \in Draw(0, annual), ill \in Draw(0, sick) :
                added' = {[table |-> "employee_profiles", user |-> item + 1],
                          Balance_row("ANNUAL", annual, used), Balance_row("SICK", sick, ill)}
  BY DEF AddProfile
<1> DEFINE annual == entitlement_days(country, type)
           sick == IF country = "EG" THEN 10 ELSE 12
<1> PICK used \in Draw(0, annual), ill \in Draw(0, sick) :
                added' = {[table |-> "employee_profiles", user |-> item + 1],
                          Balance_row("ANNUAL", annual, used), Balance_row("SICK", sick, ill)}
  OBVIOUS
<1>1. annual \in Nat /\ sick \in Nat
  BY DEF entitlement_days
<1> HIDE DEF annual, sick
<1>2. ASSUME NEW t, NEW e \in Nat, NEW u \in Draw(0, e)
      PROVE  RowSound(Balance_row(t, e, u))
  <2>1. u \in Int /\ 0 <= u /\ u <= e
    BY Drawn
  <2> DEFINE r == Balance_row(t, e, u)
  <2>2. r.table = "leave_balances" /\ r.entitlement = e /\ r.remaining = e - u
    BY DEF Balance_row
  <2> HIDE DEF r
  <2>3. Granted(r)
    BY <2>1, <2>2 DEF Granted
  <2>4. RowSound(r)
    BY <2>2, <2>3 DEF RowSound, Decided, Ranked, Owned, Readable
  <2> QED  BY <2>4 DEF r
<1>3. RowSound([table |-> "employee_profiles", user |-> item + 1])
  <2> DEFINE r == [table |-> "employee_profiles", user |-> item + 1]
  <2>1. Plain(r)
    BY DEF Plain
  <2> HIDE DEF r
  <2>2. RowSound(r)
    BY <2>1, PlainRows
  <2> QED  BY <2>2 DEF r
<1>4. RowSound(Balance_row("ANNUAL", annual, used)) /\ RowSound(Balance_row("SICK", sick, ill))
  BY <1>1, <1>2
<1> QED
  BY <1>3, <1>4

\* A row about somebody who is managed.
LEMMA ManagedRows ==
  ASSUME StaffInv, CountInv, stage \in {"built"} \cup RecordStages,
         NEW u \in DOMAIN users, users[u].manager # Nobody,
         NEW table \in {"leave_requests", "performance_reviews"}, NEW dates, NEW parent
  PROVE  RowSound(ByManager(u, table, dates, parent))
<1> DEFINE r == ByManager(u, table, dates, parent)
<1>1. r.table = table /\ r.by = users[u].manager /\ r.user = u
  BY DEF ByManager
<1> HIDE DEF r
<1>2. users[u].manager \in DOMAIN users \ {u} /\ "Manager" \in Roles(users[u].manager)
  BY Commanded
<1>3. Decided(r)
  BY <1>1, <1>2 DEF Decided
<1>4. RowSound(r)
  BY <1>1, <1>3 DEF RowSound, Ranked, Granted, Owned, Readable
<1> QED  BY <1>4 DEF r

LEMMA LeaveRows ==
  ASSUME StaffInv, CountInv, total >= 28, RequestLeave
  PROVE  \A r \in added' : RowSound(r)
<1>0. stage \in {"built"} \cup RecordStages
  BY DEF RequestLeave, Loop, RecordStages
<1>1. InTurn(requestable, item) \in requestable
  <2>1. users \in Seq(Person) /\ DOMAIN users = 1 .. total /\ total \in Nat /\ \A u \in DOMAIN users : Answers(u)
    BY <1>0, Commanded
  <2>2. requestable \in SUBSET DOMAIN users /\ IsFiniteSet(DOMAIN users)
    BY <2>1, MembersFinite DEF requestable
  <2>3. IsFiniteSet(requestable)
    BY <2>2, FS_Subset
  <2>4. 2 \in DOMAIN users /\ 2 # Exec
    BY <2>1 DEF Exec
  <2>5. users[2].manager # Nobody
    BY <2>1, <2>4 DEF Answers
  <2>6. requestable # {}
    BY <2>4, <2>5 DEF requestable
  <2>7. \A x \in requestable : x \in Nat
    BY <2>1, <2>2
  <2>8. item \in Nat
    BY DEF StaffInv, StaffTyped
  <2> HIDE DEF requestable
  <2> QED  BY <2>3, <2>6, <2>7, <2>8, TurnsTaken
<1> SUFFICES ASSUME NEW r \in added'
             PROVE  RowSound(r)
  OBVIOUS
<1>2. \E dates, parent : r = ByManager(InTurn(requestable, item), "leave_requests", dates, parent)
  BY DEF RequestLeave
<1> PICK dates, parent : r = ByManager(InTurn(requestable, item), "leave_requests", dates, parent)
  BY <1>2
<1> PICK u : u = InTurn(requestable, item)
  OBVIOUS
<1>3. u \in DOMAIN users /\ users[u].manager # Nobody
  BY <1>1 DEF requestable
<1>4. r = ByManager(u, "leave_requests", dates, parent)
  OBVIOUS
<1> QED
  BY <1>0, <1>3, <1>4, ManagedRows

LEMMA ReviewRows ==
  ASSUME StaffInv, CountInv, item < Len(users), Review
  PROVE  \A r \in added' : RowSound(r)
<1>0. stage \in {"built"} \cup RecordStages
  BY DEF Review, Loop, RecordStages
<1> SUFFICES ASSUME NEW r \in added'
             PROVE  RowSound(r)
  OBVIOUS
<1>1. item + 1 \in DOMAIN users
  <2>1. DOMAIN users = 1 .. total /\ total \in Nat /\ Len(users) = total
    BY <1>0, Commanded
  <2>2. item \in Nat
    BY DEF StaffInv, StaffTyped
  <2> QED  BY <2>1, <2>2
<1> PICK u : u = item + 1
  OBVIOUS
<1>2. \E dates, parent : r = ByManager(u, "performance_reviews", dates, parent)
  BY DEF Review
<1>3. users[u].manager # Nobody
  BY DEF Review
<1> QED
  BY <1>0, <1>1, <1>2, <1>3, ManagedRows

LEMMA DocumentRows ==
  ASSUME StaffInv, CountInv, RowsInv, stage \in RecordStages,
         NEW name, NEW type, NEW classification, NEW d, NEW more, NEW loop,
         type = "CONTRACT" => d = "Legal", classification = "RESTRICTED" => d = "HR",
         \A r \in more : RowSound(r),
         add_document(name, type, classification, _document_owner(d), more, loop)
  PROVE  \A r \in added' : RowSound(r)
<1> DEFINE key == <<classification, type, name>>
           owner == _document_owner(d)
           e == IF d \in Range(keys) THEN d ELSE Executive
           doc == [table |-> "documents", key |-> key, owner |-> owner, department |-> users[owner].department]
<1>1. CASE key \in files
  <2>1. added' = added
    BY <1>1 DEF add_document
  <2> QED  BY <2>1 DEF RowsInv
<1>2. CASE key \notin files
  <2>1. added' = more \cup {doc}
    BY <1>2 DEF add_document
  <2>2. e \in Range(keys) /\ "HR" \in Range(keys) /\ Leads(e)
    BY Commanded
  <2>3. owner = heads[e]
    BY DEF _document_owner
  <2>4. users[owner].department = e
    BY <2>2, <2>3 DEF Leads
  <2>5. key[1] = classification /\ key[2] = type
    OBVIOUS
  <2>6. doc.table = "documents" /\ doc.key = key /\ doc.owner = owner /\ doc.department = e
    BY <2>4
  <2>7. type = "CONTRACT" /\ "Legal" \in Range(keys) => e = "Legal"
    OBVIOUS
  <2>8. classification = "RESTRICTED" => e = "HR"
    BY <2>2
  <2> HIDE DEF doc, key, owner, e
  <2>9. Owned(doc)
    BY <2>2, <2>3, <2>5, <2>6, <2>7, <2>8 DEF Owned
  <2>10. RowSound(doc)
    BY <2>6, <2>9 DEF RowSound, Decided, Ranked, Granted, Readable
  <2> QED  BY <2>1, <2>10
<1> QED  BY <1>1, <1>2

LEMMA LegalRows ==
  ASSUME StaffInv, CountInv, RowsInv,
         WritePolicy \/ FilePayroll \/ Compare \/ WriteContract \/ PublishAbout
  PROVE  \A r \in added' : RowSound(r)
<1>0. stage \in RecordStages
  BY DEF WritePolicy, FilePayroll, Compare, WriteContract, PublishAbout, RecordStages
<1>1. CASE WritePolicy
  <2> DEFINE p == At(POLICY_TYPES, item)
             more == {[table |-> "policy_documents", policy |-> p]}
  <2>1. \E name, loop : add_document(name, "POLICY", _POLICY_CLASSIFICATION(p),
                        _document_owner(_POLICY_OWNER_DEPT(p)), more, loop)
    BY <1>1 DEF WritePolicy
  <2>2. _POLICY_CLASSIFICATION(p) # "RESTRICTED"
    BY DEF _POLICY_CLASSIFICATION
  <2>3. \A r \in more : Plain(r)
    BY DEF Plain
  <2> HIDE DEF p, more
  <2>4. \A r \in more : RowSound(r)
    BY <2>3, PlainRows
  <2> QED  BY <1>0, <2>1, <2>2, <2>4, DocumentRows
<1>2. CASE FilePayroll
  <2>1. \E name, loop : add_document(name, "REPORT", "RESTRICTED", _document_owner("HR"), {}, loop)
    BY <1>2 DEF FilePayroll
  <2> QED  BY <1>0, <2>1, DocumentRows
<1>3. CASE Compare
  <2> DEFINE owner == _document_owner("Legal")
             name == <<"compare", item>>
             more == {[table |-> "contracts", name |-> name],
                      [table |-> "document_acl", name |-> name, user |-> owner]}
  <2>1. \E loop : add_document(name, "CONTRACT", "CONFIDENTIAL", owner, more, loop)
    BY <1>3 DEF Compare
  <2>2. WithPersona("legal.counsel") \subseteq {owner}
    <3>1. /\ DOMAIN heads = Range(keys) /\ \A u \in DOMAIN users : Carries(u)
      BY <1>0, Commanded
    <3> SUFFICES ASSUME NEW u \in WithPersona("legal.counsel")
                 PROVE  u = owner
      OBVIOUS
    <3>2. u \in DOMAIN users /\ users[u].persona = "legal.counsel"
      BY DEF WithPersona
    <3>3. users[u].department = "Legal" /\ "Legal" \in DOMAIN heads /\ heads["Legal"] = u
      BY <3>1, <3>2 DEF Carries
    <3> QED  BY <3>1, <3>3 DEF _document_owner
  <2> HIDE DEF name
  <2>3. ASSUME NEW r \in more
        PROVE  RowSound(r)
    <3>1. CASE r = [table |-> "contracts", name |-> name]
      <4>1. r.table = "contracts"
        BY <3>1
      <4>2. Plain(r)
        BY <4>1 DEF Plain
      <4> QED  BY <4>2, PlainRows
    <3>2. CASE r = [table |-> "document_acl", name |-> name, user |-> owner]
      <4>1. r.table = "document_acl" /\ r.user = owner
        BY <3>2
      <4> HIDE DEF owner
      <4>2. Readable(r)
        BY <2>2, <4>1 DEF Readable
      <4> QED  BY <4>1, <4>2 DEF RowSound, Decided, Ranked, Granted, Owned
    <3> QED  BY <3>1, <3>2
  <2>4. \E loop : add_document(name, "CONTRACT", "CONFIDENTIAL", _document_owner("Legal"), more, loop)
    BY <2>1
  <2> HIDE DEF more, owner
  <2> QED  BY <1>0, <2>3, <2>4, DocumentRows
<1>4. CASE WriteContract
  <2> DEFINE name == <<"contract", item>>
             more == {[table |-> "contracts", name |-> name]}
  <2>1. \E loop : add_document(name, "CONTRACT", "CONFIDENTIAL", _document_owner("Legal"), more, loop)
    BY <1>4 DEF WriteContract
  <2> HIDE DEF name
  <2>2. \A r \in more : Plain(r)
    BY DEF Plain
  <2> HIDE DEF more
  <2>3. \A r \in more : RowSound(r)
    BY <2>2, PlainRows
  <2> QED  BY <1>0, <2>1, <2>3, DocumentRows
<1>5. CASE PublishAbout
  <2>1. \E name, loop : add_document(name, "PUBLIC", "PUBLIC", heads[Executive], {}, loop)
    BY <1>5 DEF PublishAbout
  <2>2. heads[Executive] = _document_owner(Executive)
    BY DEF _document_owner
  <2>3. \E name, loop : add_document(name, "PUBLIC", "PUBLIC", _document_owner(Executive), {}, loop)
    BY <2>1, <2>2
  <2> QED  BY <1>0, <2>3, DocumentRows
<1> QED
  BY <1>1, <1>2, <1>3, <1>4, <1>5

LEMMA LeaderRows ==
  ASSUME StaffInv, CountInv, Introduce
  PROVE  \A r \in added' : RowSound(r)
<1>0. stage \in RecordStages
  BY DEF Introduce, RecordStages
<1>1. /\ users \in Seq(Person) /\ Executive \in Range(keys) /\ heads[Executive] = Exec
      /\ Leads(Executive) /\ \A u \in DOMAIN users : u \in Nat /\ u >= Exec /\ Answers(u)
  BY <1>0, Commanded
<1>2. Exec \in Executives
  BY <1>1 DEF Leads, Executives
<1> SUFFICES ASSUME NEW r \in added'
             PROVE  RowSound(r)
  OBVIOUS
<1>3. PICK u \in Executives : r = [table |-> "leadership_profiles", user |-> u,
                                   order |-> Behind(u, Executives) + 1]
  BY DEF Introduce
<1> PICK b : b = Behind(u, Executives)
  OBVIOUS
<1>4. r.table = "leadership_profiles" /\ r.user = u /\ r.order = b + 1
  BY <1>3
<1>5. u \in DOMAIN users /\ u \in Nat /\ u >= Exec
  BY <1>1 DEF Executives
<1> DEFINE before == {v \in Executives : v < u}
<1>6. IsFiniteSet(before)
  <2>1. IsFiniteSet(DOMAIN users) /\ before \in SUBSET DOMAIN users
    BY <1>1, MembersFinite DEF Executives
  <2> QED  BY <2>1, FS_Subset
<1>7. b = Cardinality(before)
  BY DEF Behind
<1>8. before = {} <=> u = Exec
  <2>1. u = Exec => before = {}
    <3> SUFFICES ASSUME u = Exec, NEW v \in Executives, v < u
                 PROVE  FALSE
      OBVIOUS
    <3>1. v \in Nat /\ v >= Exec
      BY <1>1 DEF Executives
    <3> QED  BY <3>1 DEF Exec
  <2>2. u # Exec => before # {}
    <3>1. u # Exec => Exec < u
      BY <1>5 DEF Exec
    <3> QED  BY <1>2, <3>1
  <2> QED  BY <2>1, <2>2
<1>9. b \in Nat /\ (b = 0 <=> u = Exec)
  BY <1>6, <1>7, <1>8, FS_CardinalityType, FS_EmptySet
<1>10. users[u].manager = Nobody <=> u = Exec
  BY <1>1, <1>5 DEF Answers
<1>11. Ranked(r)
  BY <1>4, <1>9, <1>10 DEF Ranked
<1> QED
  BY <1>4, <1>11 DEF RowSound, Decided, Granted, Owned, Readable

LEMMA OtherRows ==
  ASSUME Enrol \/ Attend \/ Train \/ AddProduct \/ AddCustomer \/ Allot \/ HandOut \/ Allocate_dates
         \/ DrawDate \/ StartOrders \/ AddOrder \/ ReportRevenue \/ SetTargets \/ AddExpense
         \/ SetBudgets \/ PublishNews \/ Advertise
  PROVE  \A r \in added' : RowSound(r)
<1> SUFFICES \A r \in added' : Plain(r)
  BY PlainRows
<1>1. CASE Enrol  BY <1>1 DEF Enrol, Plain
<1>2. CASE Attend  BY <1>2 DEF Attend, Dated, Plain
<1>3. CASE Train  BY <1>3 DEF Train, Dated, Plain
<1>4. CASE AddProduct \/ Allot \/ HandOut \/ Allocate_dates \/ DrawDate \/ StartOrders
  BY <1>4 DEF AddProduct, Allot, HandOut, Allocate_dates, DrawDate, StartOrders
<1>5. CASE AddCustomer  BY <1>5 DEF AddCustomer, Plain
<1>6. CASE AddOrder
  <2>1. ASSUME NEW r \in added'
        PROVE  r.table \in {"orders", "invoices"}
    <3>1. \E table \in {"orders", "invoices"} : \E day, parent, sum : r = Charged(table, day, parent, sum)
      BY <1>6, Zenon DEF AddOrder
    <3> QED  BY <3>1 DEF Charged
  <2> QED  BY <2>1 DEF Plain
<1>7. CASE ReportRevenue
  <2>1. ASSUME NEW r \in added'
        PROVE  r.table = "monthly_revenue"
    <3>1. \E month, region, amount, count :
            r = [table |-> "monthly_revenue", month |-> month, region |-> region,
                 amount |-> amount, order_count |-> count]
      BY <1>7, Zenon DEF ReportRevenue
    <3> QED  BY <3>1
  <2> QED  BY <2>1 DEF Plain
<1>8. CASE SetTargets
  <2>1. \A r \in added' : r.table = "sales_targets"
    BY <1>8 DEF SetTargets
  <2> QED  BY <2>1 DEF Plain
<1>9. CASE AddExpense
  <2>1. \A r \in added' : r.table = "expenses"
    BY <1>9 DEF AddExpense
  <2> QED  BY <2>1 DEF Plain
<1>10. CASE SetBudgets
  <2>1. \A r \in added' : r.table = "budgets"
    BY <1>10 DEF SetBudgets
  <2> QED  BY <2>1 DEF Plain
<1>11. CASE PublishNews
  <2>1. \A r \in added' : r.table = "news_items"
    BY <1>11 DEF PublishNews
  <2> QED  BY <2>1 DEF Plain
<1>12. CASE Advertise  BY <1>12 DEF Advertise, Dated, Plain
<1> QED
  BY <1>1, <1>2, <1>3, <1>4, <1>5, <1>6, <1>7, <1>8, <1>9, <1>10, <1>11, <1>12

-----------------------------------------------------------------------------
(* Where the loops are, and the titles of the vacancies so far.            *)

PlaceInv ==
    /\ stage \in RecordStages => total >= 28
    /\ stage = "reviews" => item < Len(users)
    /\ stage \in {"remainder", "dates", "orders"} => Volume[company].orders \in Nat \ {0}
    /\ stage = "dates" => item = 0
    /\ stage = "orders" => item < Volume[company].orders
    /\ stage = "vacancies" => item < Items

SeenInv ==
    /\ IsFiniteSet(seen)
    /\ stage \notin {"vacancies", "about", "recorded", "failed"} => seen = {}
    /\ stage = "vacancies" =>
        Cardinality(seen) = item /\ \A s \in seen : s[2] \in 0 .. item
    /\ stage = "about" => Cardinality(seen) = Items

LEMMA ItemsMade ==
  ASSUME company \in Company
  PROVE  Items \in Nat /\ Items >= 4 /\ Volume[company].orders \in Nat \ {0}
<1>1. Volume[company].public_items \in Nat /\ Volume[company].orders \in Nat \ {0}
  BY DatasetAssumption
<1>2. Volume[company].public_items \div 4 \in Nat
  BY <1>1
<1> QED  BY <1>1, <1>2 DEF Items, Later

\* The steps whose rows are sums, without the rows.
LEMMA OrderTurn ==
  ASSUME AddOrder
  PROVE  Loop("orders", Volume[company].orders, "revenue") /\ UNCHANGED written
  BY Zenon DEF AddOrder

LEMMA RevenueTurn ==
  ASSUME ReportRevenue
  PROVE  stage = "revenue" /\ stage' = "targets" /\ UNCHANGED <<staff, item, ledger, written>>
<1>1. stage = "revenue" /\ stage' = "targets"
  BY Zenon DEF ReportRevenue
<1>2. UNCHANGED <<staff, item, ledger, written>>
  BY Zenon DEF ReportRevenue
<1> QED  BY <1>1, <1>2

LEMMA PlacesBegin ==
  ASSUME DataInit
  PROVE  PlaceInv /\ SeenInv
<1>1. stage = "allocate" /\ seen = {}
  BY DEF DataInit, StaffInit
<1> QED  BY <1>1, FS_EmptySet DEF PlaceInv, SeenInv, RecordStages

LEMMA StaffingPlaces ==
  ASSUME StaffNext
  PROVE  /\ stage \in StaffStages \ {"failed", "built"} /\ stage' \in StaffStages
<1>1. CASE Refuse \/ Divide \/ Balance \/ HireCEO \/ HireHead \/ HireLead \/ HireMember
  BY <1>1 DEF Refuse, Divide, Balance, HireCEO, HireHead, HireLead, HireMember, StaffStages
<1>2. CASE NextDepartment
  BY <1>2 DEF NextDepartment, StaffStages
<1>3. CASE PairPersonas \/ MoveReports \/ NoManagerPersona
  BY <1>3 DEF PairPersonas, MoveReports, NoManagerPersona, StaffStages
<1> QED  BY <1>1, <1>2, <1>3 DEF StaffNext

\* What a turn of a loop does to its place.
LEMMA LoopTurns ==
  ASSUME NEW this, NEW next, NEW n, Loop(this, n, next), item \in Nat
  PROVE  /\ stage = this /\ stage' \in {this, next}
         /\ stage' = next \/ (stage' = this /\ item' = item + 1 /\ item + 1 < n)
         /\ stage' # this => item' = 0 /\ ~ (item + 1 < n)
         /\ UNCHANGED <<company, total, users>>
  BY DEF Loop, staff, request

LEMMA DocumentTurns ==
  ASSUME item \in Nat, NEW name, NEW type, NEW classification, NEW owner,
         NEW more, NEW loop,
         add_document(name, type, classification, owner, more, loop)
  PROVE  stage' \in {stage, loop.next, "failed"} /\ UNCHANGED <<company, total, users, seen>>
<1> DEFINE key == <<classification, type, name>>
<1>1. CASE key \in files
  BY <1>1 DEF add_document, staff, request
<1>2. CASE key \notin files
  <2>1. Loop(stage, loop.turns, loop.next) /\ seen' = seen
    BY <1>2 DEF add_document
  <2> QED  BY <2>1, LoopTurns
<1> QED  BY <1>1, <1>2

LEMMA LegalPlaces ==
  ASSUME item \in Nat, WritePolicy \/ FilePayroll \/ Compare \/ WriteContract \/ PublishAbout
  PROVE  /\ stage \in {"policies", "payroll", "comparison", "contracts", "about"}
         /\ stage' \in {"policies", "payroll", "comparison", "contracts", "leaders", "about", "recorded", "failed"}
         /\ stage' = "about" => stage = "about"
         /\ stage = "about" => stage' \in {"about", "recorded", "failed"}
         /\ UNCHANGED <<company, total, users, seen>>
<1>1. CASE WritePolicy
  <2> DEFINE loop == [turns |-> Len(POLICY_TYPES), next |-> "payroll"]
  <2>1. stage = "policies" /\ loop.next = "payroll"
    BY <1>1 DEF WritePolicy
  <2>2. \E name, type, classification, owner, more : add_document(name, type, classification, owner, more, loop)
    BY <1>1 DEF WritePolicy
  <2> HIDE DEF loop
  <2> QED  BY <2>1, <2>2, DocumentTurns
<1>2. CASE FilePayroll
  <2> DEFINE loop == [turns |-> 1, next |-> "comparison"]
  <2>1. stage = "payroll" /\ loop.next = "comparison"
    BY <1>2 DEF FilePayroll
  <2>2. \E name, type, classification, owner, more : add_document(name, type, classification, owner, more, loop)
    BY <1>2 DEF FilePayroll
  <2> HIDE DEF loop
  <2> QED  BY <2>1, <2>2, DocumentTurns
<1>3. CASE Compare
  <2> DEFINE loop == [turns |-> Pair,
                      next |-> IF Volume[company].contracts > Pair THEN "contracts" ELSE "leaders"]
  <2>1. stage = "comparison" /\ loop.next \in {"contracts", "leaders"}
    BY <1>3 DEF Compare
  <2>2. \E name, type, classification, owner, more : add_document(name, type, classification, owner, more, loop)
    BY <1>3 DEF Compare
  <2> HIDE DEF loop
  <2> QED  BY <2>1, <2>2, DocumentTurns
<1>4. CASE WriteContract
  <2> DEFINE loop == [turns |-> Volume[company].contracts - Pair, next |-> "leaders"]
  <2>1. stage = "contracts" /\ loop.next = "leaders"
    BY <1>4 DEF WriteContract
  <2>2. \E name, type, classification, owner, more : add_document(name, type, classification, owner, more, loop)
    BY <1>4 DEF WriteContract
  <2> HIDE DEF loop
  <2> QED  BY <2>1, <2>2, DocumentTurns
<1>5. CASE PublishAbout
  <2> DEFINE loop == [turns |-> 1, next |-> "recorded"]
  <2>1. stage = "about" /\ loop.next = "recorded"
    BY <1>5 DEF PublishAbout
  <2>2. \E name, type, classification, owner, more : add_document(name, type, classification, owner, more, loop)
    BY <1>5 DEF PublishAbout
  <2> HIDE DEF loop
  <2> QED  BY <2>1, <2>2, DocumentTurns
<1> QED  BY <1>1, <1>2, <1>3, <1>4, <1>5

LEMMA FloorAsked ==
  ASSUME Enrol, total \in Nat
  PROVE  total >= 28
<1> DEFINE n == Rounded(Users[company] * SMOKE)
<1>1. total = IF n < 28 THEN 28 ELSE n
  BY DEF Enrol, Scaled
<1> HIDE DEF n
<1> QED  BY <1>1

LEMMA PlaceKept ==
  ASSUME StaffInv, CountInv, PlaceInv, [DataNext]_dataVars
  PROVE  PlaceInv'
<1>0. item \in Nat /\ company \in Company /\ total \in Nat
  BY LeftToHire DEF StaffInv, StaffTyped
<1>1. Items \in Nat /\ Items >= 4 /\ Volume[company].orders \in Nat \ {0}
  BY <1>0, ItemsMade
<1>2. CASE StaffNext
  <2>1. stage' \in StaffStages
    BY <1>2, StaffingPlaces
  <2> QED  BY <2>1 DEF PlaceInv, StaffStages, RecordStages
<1>3. CASE Recording
  <2>1. Recorded
    BY <1>0, <1>3, AllRecord
  <2>2. UNCHANGED <<company, total, users>> /\ Items' = Items
    BY <2>1 DEF Recorded, Items
  <2>3. stage' \in RecordStages => total' >= 28
    <3>1. CASE Enrol
      BY <1>0, <2>2, <3>1, FloorAsked
    <3>2. CASE stage = "built" /\ ~ Enrol
      <4>1. FALSE
        <5>1. CASE AddOrder \/ ReportRevenue
          BY <3>2, <5>1, OrderTurn, RevenueTurn DEF Loop
        <5>2. CASE ~ (AddOrder \/ ReportRevenue)
          BY <1>0, <1>3, <3>2, <5>2, LegalPlaces
             DEF Recording, AddProfile, RequestLeave, Attend, Train, Review, AddProduct, AddCustomer,
                 Allot, HandOut, Allocate_dates, DrawDate, StartOrders, SetTargets, AddExpense,
                 SetBudgets, Introduce, PublishNews, Advertise, Loop
        <5> QED  BY <5>1, <5>2
      <4> QED  BY <4>1
    <3>3. CASE stage \in RecordStages
      BY <2>2, <3>3 DEF PlaceInv
    <3> QED  BY <2>1, <3>1, <3>2, <3>3 DEF Recorded, RecordStages
  <2>4. /\ stage' = "reviews" => item' < Len(users)
        /\ stage' = "dates" => item' = 0
        /\ stage' = "orders" => item' < Volume[company].orders
        /\ stage' = "vacancies" => item' < Items
    <3>1. CASE AddProfile \/ RequestLeave \/ Attend \/ AddProduct \/ AddCustomer
      <4>1. stage' \in {"profiles", "leave", "attendance", "training", "products", "customers", "allocation"}
        BY <1>0, <3>1, LoopTurns DEF AddProfile, RequestLeave, Attend, AddProduct, AddCustomer
      <4> QED  BY <4>1
    <3>2. CASE Train
      <4>1. /\ stage' \in {"training", "reviews"}
            /\ stage' = "reviews" => item' = 0
        BY <1>0, <3>2, LoopTurns DEF Train
      <4>2. stage \in RecordStages /\ total >= 28
        BY <3>2 DEF Train, Loop, RecordStages, PlaceInv
      <4>3. Len(users) = total
        BY <4>2 DEF CountInv, RecordStages
      <4> QED  BY <4>1, <4>2, <4>3
    <3>3. CASE Review
      <4>1. stage' \in {"reviews", "products"} /\ (stage' = "reviews" => item' = item + 1 /\ item + 1 < Len(users))
        BY <1>0, <3>3, LoopTurns DEF Review
      <4> QED  BY <4>1
    <3>4. CASE Enrol \/ Allot \/ HandOut \/ ReportRevenue \/ SetTargets \/ SetBudgets \/ Introduce
      <4>1. stage' \in {"profiles", "remainder", "targets", "expenses", "policies", "news"}
        BY <3>4, RevenueTurn DEF Enrol, Allot, HandOut, SetTargets, SetBudgets, Introduce
      <4> QED  BY <4>1
    <3>5. CASE Allocate_dates \/ DrawDate \/ StartOrders
      BY <1>1, <3>5 DEF Allocate_dates, DrawDate, StartOrders, PlaceInv
    <3>6. CASE AddOrder
      <4>1. stage' \in {"orders", "revenue"}
            /\ (stage' = "orders" => item' = item + 1 /\ item + 1 < Volume[company].orders)
        BY <1>0, <3>6, OrderTurn, LoopTurns
      <4> QED  BY <4>1
    <3>7. CASE AddExpense
      <4>1. stage' \in {"expenses", "budgets"}
        BY <1>0, <3>7, LoopTurns DEF AddExpense
      <4> QED  BY <4>1
    <3>8. CASE PublishNews
      <4>1. stage' \in {"news", "vacancies"} /\ (stage' = "vacancies" => item' = 0)
        BY <1>0, <3>8, LoopTurns DEF PublishNews
      <4> QED  BY <1>1, <4>1
    <3>9. CASE Advertise
      <4>1. stage' \in {"vacancies", "about"} /\ (stage' = "vacancies" => item' = item + 1 /\ item + 1 < Items)
        BY <1>0, <3>9, LoopTurns DEF Advertise
      <4> QED  BY <4>1
    <3>10. CASE WritePolicy \/ FilePayroll \/ Compare \/ WriteContract \/ PublishAbout
      BY <1>0, <3>10, LegalPlaces
    <3> QED
      BY <1>3, <3>1, <3>2, <3>3, <3>4, <3>5, <3>6, <3>7, <3>8, <3>9, <3>10 DEF Recording
  <2> QED  BY <1>1, <2>2, <2>3, <2>4 DEF PlaceInv
<1>4. CASE UNCHANGED dataVars
  BY <1>4 DEF dataVars, staffVars, request, PlaceInv, Items
<1>5. DataNext => StaffNext \/ Recording
  BY DEF DataNext, Recording, Staff
<1> QED  BY <1>2, <1>3, <1>4, <1>5

LEMMA Numbered ==
  ASSUME Advertise, SeenInv, item \in Nat
  PROVE  /\ IsFiniteSet(seen') /\ Cardinality(seen') = item + 1
         /\ \A s \in seen' : s[2] \in 0 .. item + 1
<1>0. PICK title, office :
        seen' = seen \cup {IF <<title, 0, office>> \in seen THEN <<title, item + 1, office>>
                           ELSE <<title, 0, office>>}
  BY DEF Advertise
<1> DEFINE s == IF <<title, 0, office>> \in seen THEN <<title, item + 1, office>>
                ELSE <<title, 0, office>>
<1>1. IsFiniteSet(seen) /\ Cardinality(seen) = item /\ \A t \in seen : t[2] \in 0 .. item
  BY DEF Advertise, Loop, SeenInv
<1>2. s[2] \in 0 .. item + 1 /\ s \notin seen
  <2>1. CASE <<title, 0, office>> \in seen
    <3>1. s = <<title, item + 1, office>> /\ s[2] = item + 1
      BY <2>1
    <3> QED  BY <1>1, <3>1
  <2>2. CASE <<title, 0, office>> \notin seen
    <3>1. s = <<title, 0, office>> /\ s[2] = 0
      BY <2>2
    <3> QED  BY <2>2, <3>1
  <2> QED  BY <2>1, <2>2
<1>3. seen' = seen \cup {s}
  BY <1>0
<1> HIDE DEF s
<1>4. IsFiniteSet(seen') /\ Cardinality(seen') = item + 1
  <2>1. IsFiniteSet(seen) /\ Cardinality(seen) = item /\ s \notin seen
    BY <1>1, <1>2
  <2>2. IsFiniteSet(seen \cup {s}) /\ Cardinality(seen \cup {s}) = Cardinality(seen) + 1
    BY <2>1, FS_AddElement
  <2> QED  BY <1>3, <2>1, <2>2
<1>5. \A t \in seen' : t[2] \in 0 .. item + 1
  BY <1>1, <1>2, <1>3
<1> QED  BY <1>4, <1>5

LEMMA SeenKept ==
  ASSUME StaffInv, PlaceInv, SeenInv, [DataNext]_dataVars
  PROVE  SeenInv'
<1>0. item \in Nat /\ company \in Company
  BY DEF StaffInv, StaffTyped
<1>1. Items \in Nat /\ Items >= 4
  BY <1>0, ItemsMade
<1>2. CASE Advertise
  <2>1. /\ IsFiniteSet(seen') /\ Cardinality(seen') = item + 1
        /\ \A s \in seen' : s[2] \in 0 .. item + 1
    BY <1>0, <1>2, Numbered
  <2>2. /\ stage' = "vacancies" \/ stage' = "about"
        /\ stage' = "vacancies" => item' = item + 1
        /\ stage' = "about" => ~ (item + 1 < Items)
        /\ company' = company
    BY <1>0, <1>2, LoopTurns DEF Advertise
  <2>3. item < Items
    BY <1>2 DEF Advertise, Loop, PlaceInv
  <2>4. Items' = Items
    BY <2>2 DEF Items
  <2>5. stage' = "about" => item + 1 = Items
    BY <1>0, <1>1, <2>2, <2>3
  <2> QED  BY <2>1, <2>2, <2>4, <2>5 DEF SeenInv
<1>3. ASSUME seen' = seen, company' = company,
             stage' \notin {"vacancies", "about", "recorded", "failed"} => stage \notin {"vacancies", "about", "recorded", "failed"},
             stage' = "vacancies" => (stage \notin {"vacancies", "about", "recorded", "failed"} /\ item' = 0)
                                     \/ (stage = "vacancies" /\ item' = item),
             stage' = "about" => stage = "about"
      PROVE  SeenInv'
  <2>1. Items' = Items
    BY <1>3 DEF Items
  <2>2. stage' = "vacancies" => Cardinality(seen') = item' /\ \A s \in seen' : s[2] \in 0 .. item'
    <3>1. ASSUME seen = {}, item' = 0
          PROVE  Cardinality(seen') = item' /\ \A s \in seen' : s[2] \in 0 .. item'
      BY <1>3, <3>1, FS_EmptySet
    <3> QED  BY <1>3, <3>1 DEF SeenInv
  <2> QED  BY <1>3, <2>1, <2>2 DEF SeenInv
<1>4. CASE StaffNext /\ UNCHANGED written
  <2>1. stage \in StaffStages \ {"failed", "built"} /\ stage' \in StaffStages
    BY <1>4, StaffingPlaces
  <2> QED  BY <1>4, <2>1 DEF SeenInv, written, StaffStages
<1>5. CASE PublishNews
  <2>1. /\ stage = "news" /\ stage' \in {"news", "vacancies"} /\ (stage' # "news" => item' = 0)
        /\ company' = company /\ seen' = seen
    BY <1>0, <1>5, LoopTurns DEF PublishNews, written
  <2> QED  BY <1>3, <2>1
<1>6. CASE WritePolicy \/ FilePayroll \/ Compare \/ WriteContract \/ PublishAbout
  <2>1. /\ stage \in {"policies", "payroll", "comparison", "contracts", "about"}
        /\ stage' \in {"policies", "payroll", "comparison", "contracts", "leaders", "about", "recorded", "failed"}
        /\ stage' = "about" => stage = "about"
        /\ stage = "about" => stage' \in {"about", "recorded", "failed"}
        /\ UNCHANGED <<company, seen>>
    BY <1>0, <1>6, LegalPlaces
  <2> QED  BY <1>3, <2>1
<1>7. CASE AddProfile \/ RequestLeave \/ Attend \/ Train \/ Review \/ AddProduct \/ AddCustomer
           \/ AddOrder \/ AddExpense
  <2>1. /\ stage \notin {"vacancies", "about", "recorded", "failed"}
        /\ stage' \notin {"vacancies", "about", "recorded", "failed"}
        /\ company' = company
    BY <1>0, <1>7, OrderTurn, LoopTurns
       DEF AddProfile, RequestLeave, Attend, Train, Review, AddProduct, AddCustomer, AddExpense
  <2>2. seen' = seen
    BY <1>7, OrderTurn DEF AddProfile, RequestLeave, Attend, Train, Review, AddProduct, AddCustomer,
                           AddExpense, written
  <2> QED  BY <1>3, <2>1, <2>2
<1>8. CASE Enrol \/ Allot \/ HandOut \/ Allocate_dates \/ DrawDate \/ StartOrders \/ ReportRevenue
           \/ SetTargets \/ SetBudgets \/ Introduce
  <2>1. /\ stage \notin {"vacancies", "about", "recorded", "failed"}
        /\ stage' \notin {"vacancies", "about", "recorded", "failed"}
        /\ UNCHANGED <<company, seen>>
    BY <1>8, RevenueTurn DEF Enrol, Allot, HandOut, Allocate_dates, DrawDate, StartOrders,
                SetTargets, SetBudgets, Introduce, written, staff, request
  <2> QED  BY <1>3, <2>1
<1>9. CASE UNCHANGED dataVars
  BY <1>9 DEF dataVars, staffVars, request, written, SeenInv, Items
<1> QED
  BY <1>2, <1>4, <1>5, <1>6, <1>7, <1>8, <1>9 DEF DataNext, Staff

LEMMA RowsStay ==
  ASSUME UNCHANGED <<company, users, heads>>, NEW r, RowSound(r)
  PROVE  RowSound(r)'
<1>1. keys' = keys
  BY DEF keys
<1> QED
  BY <1>1 DEF RowSound, Decided, Ranked, Granted, Owned, Readable, Roles, WithPersona

LEMMA RowsKept ==
  ASSUME StaffInv, CountInv, PlaceInv, RowsInv, [DataNext]_dataVars
  PROVE  RowsInv'
<1>1. CASE Staff
  <2>1. stage \in StaffStages \ {"failed"} /\ added' = added
    BY <1>1, StaffingPlaces DEF Staff
  <2> QED  BY <2>1 DEF RowsInv
<1>2. CASE Recording
  <2>1. \A r \in added' : RowSound(r)
    <3>1. CASE AddProfile
      BY <3>1, ProfileRows
    <3>2. CASE RequestLeave
      <4>1. total >= 28
        BY <3>2 DEF RequestLeave, Loop, PlaceInv, RecordStages
      <4> QED  BY <3>2, <4>1, LeaveRows
    <3>3. CASE Review
      <4>1. item < Len(users)
        BY <3>3 DEF Review, Loop, PlaceInv
      <4> QED  BY <3>3, <4>1, ReviewRows
    <3>4. CASE WritePolicy \/ FilePayroll \/ Compare \/ WriteContract \/ PublishAbout
      BY <3>4, LegalRows
    <3>5. CASE Introduce
      BY <3>5, LeaderRows
    <3> QED
      BY <1>2, <3>1, <3>2, <3>3, <3>4, <3>5, OtherRows DEF Recording
  <2>2. Recorded
    BY <1>2, AllRecord DEF StaffInv, StaffTyped
  <2>3. UNCHANGED <<company, users, heads>> /\ stage' \in {"failed"} \cup RecordStages
    BY <2>2 DEF Recorded
  <2>4. \A r \in added' : RowSound(r)'
    BY <2>1, <2>3, RowsStay
  <2>5. stage' \notin StaffStages \ {"failed"}
    BY <2>3 DEF StaffStages, RecordStages
  <2> QED  BY <2>4, <2>5 DEF RowsInv
<1>3. CASE UNCHANGED dataVars
  <2>1. UNCHANGED <<company, users, heads, stage, added>>
    BY <1>3 DEF dataVars, staffVars, request
  <2>2. \A r \in added' : RowSound(r)'
    BY <2>1, RowsStay DEF RowsInv
  <2> QED  BY <2>1, <2>2 DEF RowsInv
<1>4. DataNext => Staff \/ Recording
  BY DEF DataNext, Recording
<1> QED  BY <1>1, <1>2, <1>3, <1>4

DataInv == StaffInv /\ CountInv /\ PlaceInv /\ SeenInv /\ RowsInv

LEMMA DataInvAlways == DataSpec => []DataInv
<1>1. DataInit => DataInv
  <2>1. DataInit => CountInv /\ RowsInv
    BY DEF DataInit, StaffInit, CountInv, RowsInv
  <2> QED  BY <2>1, StaffBegins, PlacesBegin DEF DataInv
<1>2. DataInv /\ [DataNext]_dataVars => DataInv'
  BY StaffInvKept, CountKept, PlaceKept, SeenKept, RowsKept DEF DataInv
<1> QED
  BY <1>1, <1>2, PTL DEF DataSpec

\* Every leave and every review is decided by somebody else than the one it is
\* about, who holds the role of a manager, and the public site puts first who is
\* managed by nobody.
THEOREM DecisionsAnswerable == DataSpec => []Answerable
<1>1. DataInv => Answerable
  <2> SUFFICES ASSUME DataInv
               PROVE  Answerable
    OBVIOUS
  <2>1. \A r \in added : Decided(r) /\ Ranked(r)
    BY DEF DataInv, RowsInv, RowSound
  <2> QED  BY <2>1 DEF Answerable, Rows, Decided, Ranked
<1> QED
  BY <1>1, DataInvAlways, PTL

\* Nobody has used more leave than the policy grants, whatever the country and
\* the kind of employment.
THEOREM LeaveBalanced == DataSpec => []Balanced
<1>1. DataInv => Balanced
  <2> SUFFICES ASSUME DataInv
               PROVE  Balanced
    OBVIOUS
  <2>1. \A r \in added : Granted(r)
    BY DEF DataInv, RowsInv, RowSound
  <2> QED  BY <2>1 DEF Balanced, Rows, Granted
<1> QED
  BY <1>1, DataInvAlways, PTL

\* Every document is the affair of the head of a department: contracts of Legal
\* where there is one, salaries of HR; and the contracts to compare can be read by
\* the counsel the scenarios are played by.
THEOREM DocumentsAttributed == DataSpec => []Attributed
<1>1. DataInv => Attributed
  <2> SUFFICES ASSUME DataInv
               PROVE  Attributed
    OBVIOUS
  <2>1. \A r \in added : Owned(r) /\ Readable(r)
    BY DEF DataInv, RowsInv, RowSound
  <2> QED  BY <2>1 DEF Attributed, Rows, Owned, Readable
<1> QED
  BY <1>1, DataInvAlways, PTL

\* However many vacancies and headlines there are, no two vacancies of an office
\* and no two headlines read alike.
THEOREM TitlesDistinct == DataSpec => []Distinct
<1>1. DataInv => Distinct
  <2> SUFFICES ASSUME DataInv
               PROVE  Distinct
    OBVIOUS
  <2>1. item \in Nat /\ company \in Company
    BY DEF DataInv, StaffInv, StaffTyped
  <2>2. Items \in Nat
    BY <2>1, ItemsMade
  <2>3. ASSUME NEW n \in 0 .. Items - 1, n # item
        PROVE  Headline(n) # Headline(item)
    <3>1. n \in Nat
      BY <2>2
    <3>2. ASSUME NEW k \in Nat
          PROVE  k = 6 * (k \div 6) + (k % 6) /\ k \div 6 \in Nat /\ k % 6 \in 0 .. 5
                 /\ (k >= 6 => k \div 6 >= 1) /\ (k < 6 => k \div 6 = 0)
      OBVIOUS
    <3>3. Headline(n) = Headline(item) =>
            /\ n % 6 = item % 6
            /\ (IF n >= 6 THEN n \div 6 + 1 ELSE 0) = (IF item >= 6 THEN item \div 6 + 1 ELSE 0)
      BY DEF Headline, Templates
    <3> QED
      BY <2>1, <2>3, <3>1, <3>2, <3>3
  <2> QED  BY <2>3 DEF Distinct, DataInv, SeenInv
<1> QED
  BY <1>1, DataInvAlways, PTL

\* As many are hired as were asked for, department by department and together.
THEOREM StaffedAsAsked == DataSpec => []AskedFor
<1>1. DataInv => AskedFor
  BY DEF DataInv, CountInv, AskedFor, Members
<1> QED
  BY <1>1, DataInvAlways, PTL

-----------------------------------------------------------------------------
(* The windows, in months counted from the year 0.                         *)

LEMMA Multiples ==
  ASSUME NEW a \in Int, NEW b \in Int, NEW n \in Nat \ {0}
  PROVE  /\ a * n \in Int
         /\ a <= b => a * n <= b * n
         /\ a * n < b * n => a < b
<1>1. a * n \in Int /\ b * n \in Int
  OBVIOUS
<1>2. ASSUME a <= b
      PROVE  a * n <= b * n
  <2> PICK k \in Nat : b = a + k
    <3>1. b - a \in Nat /\ b = a + (b - a)
      BY <1>2
    <3> QED  BY <3>1
  <2>1. b * n = a * n + k * n /\ k * n >= 0
    OBVIOUS
  <2> QED  BY <1>1, <2>1
<1>3. ASSUME b <= a
      PROVE  b * n <= a * n
  <2> PICK k \in Nat : a = b + k
    <3>1. a - b \in Nat /\ a = b + (a - b)
      BY <1>3
    <3> QED  BY <3>1
  <2>1. a * n = b * n + k * n /\ k * n >= 0
    OBVIOUS
  <2> QED  BY <1>1, <2>1
<1>4. a < b \/ b <= a
  OBVIOUS
<1>5. ASSUME a * n < b * n
      PROVE  a < b
  BY <1>1, <1>3, <1>4, <1>5
<1> QED  BY <1>1, <1>2, <1>5

\* How far back the windows go.
LEMMA MonthsKept ==
  /\ HISTORY_MONTHS \in Nat /\ 24 <= HISTORY_MONTHS /\ HISTORY_MONTHS <= 24312
  /\ ATTENDANCE_MONTHS \in Nat /\ 1 <= ATTENDANCE_MONTHS /\ ATTENDANCE_MONTHS <= HISTORY_MONTHS
  /\ Month \in Nat \ {0}
<1>1. HISTORY_MONTHS \in 24 .. 2026 * 12
  BY DatasetAssumption, SMTT(20)
<1>2. ATTENDANCE_MONTHS \in 1 .. HISTORY_MONTHS
  BY DatasetAssumption, SMTT(20)
<1>3. Month \in Nat \ {0}
  BY DatasetAssumption, SMTT(20)
<1>4. 2026 * 12 = 24312
  OBVIOUS
<1> QED  BY <1>1, <1>2, <1>3, <1>4

\* A month, and how many months of the calendar it follows.
LEMMA Shifted ==
  ASSUME NEW k \in Nat, k <= 24317
  PROVE  ShiftMonths(k) = (24317 - k) * Month
<1> DEFINE n == 24317 - k
<1>1. n \in Nat /\ 2026 * 12 + 5 - k = n
  OBVIOUS
<1>2. 12 * (n \div 12) + (n % 12) = n /\ n \div 12 \in Nat /\ n % 12 \in Nat
  BY <1>1
<1>3. ShiftMonths(k) = First(<<n \div 12, (n % 12) + 1>>)
  BY <1>1 DEF ShiftMonths
<1> HIDE DEF n
<1>4. First(<<n \div 12, (n % 12) + 1>>) = (12 * (n \div 12) + ((n % 12) + 1) - 1) * Month
  BY DEF First
<1>5. 12 * (n \div 12) + ((n % 12) + 1) - 1 = n
  BY <1>2
<1> QED  BY <1>1, <1>3, <1>4, <1>5 DEF n

LEMMA Windows ==
  /\ history_start = (24318 - HISTORY_MONTHS) * Month
  /\ att_start = (24318 - ATTENDANCE_MONTHS) * Month
  /\ history_end = 24318 * Month - 1 /\ reference_date = history_end
  /\ history_start \in Int /\ att_start \in Int /\ history_end \in Int
  /\ history_start <= att_start /\ history_start + 24 * Month <= history_end + 1
<1>1. /\ HISTORY_MONTHS \in Nat /\ 24 <= HISTORY_MONTHS /\ HISTORY_MONTHS <= 24312
      /\ ATTENDANCE_MONTHS \in Nat /\ 1 <= ATTENDANCE_MONTHS /\ ATTENDANCE_MONTHS <= HISTORY_MONTHS
      /\ Month \in Nat \ {0}
  BY MonthsKept
<1>2. history_start = (24317 - (HISTORY_MONTHS - 1)) * Month
  <2>1. PICK k \in Nat : k = HISTORY_MONTHS - 1
    BY <1>1
  <2>2. ShiftMonths(k) = (24317 - k) * Month
    <3>1. k <= 24317
      BY <1>1, <2>1
    <3> QED  BY <2>1, <3>1, Shifted
  <2> QED  BY <2>1, <2>2 DEF history_start
<1>3. att_start = (24317 - (ATTENDANCE_MONTHS - 1)) * Month
  <2>1. PICK k \in Nat : k = ATTENDANCE_MONTHS - 1
    BY <1>1
  <2>2. ShiftMonths(k) = (24317 - k) * Month
    <3>1. k <= 24317
      BY <1>1, <2>1
    <3> QED  BY <2>1, <3>1, Shifted
  <2> QED  BY <2>1, <2>2 DEF att_start
<1>4. /\ 24317 - (HISTORY_MONTHS - 1) = 24318 - HISTORY_MONTHS
      /\ 24317 - (ATTENDANCE_MONTHS - 1) = 24318 - ATTENDANCE_MONTHS
  BY <1>1
<1>5. history_end = 24318 * Month - 1 /\ reference_date = history_end
  BY <1>1 DEF history_end, reference_date, First
<1>6. /\ (24318 - HISTORY_MONTHS) * Month \in Int /\ (24318 - ATTENDANCE_MONTHS) * Month \in Int
      /\ (24318 - HISTORY_MONTHS) * Month <= (24318 - ATTENDANCE_MONTHS) * Month
      /\ (24318 - HISTORY_MONTHS) * Month <= 24294 * Month
  <2>1. /\ 24318 - HISTORY_MONTHS \in Int /\ 24318 - ATTENDANCE_MONTHS \in Int
        /\ 24318 - HISTORY_MONTHS <= 24318 - ATTENDANCE_MONTHS
        /\ 24318 - HISTORY_MONTHS <= 24294 /\ 24294 \in Int
    BY <1>1
  <2> QED  BY <1>1, <2>1, Multiples
<1> DEFINE h == (24318 - HISTORY_MONTHS) * Month
           a == (24318 - ATTENDANCE_MONTHS) * Month
<1>7. history_start = h /\ att_start = a
  BY <1>2, <1>3, <1>4
<1>8. h \in Int /\ a \in Int /\ h <= a /\ h <= 24294 * Month
  BY <1>6
<1> HIDE DEF h, a
<1>9. h + 24 * Month <= 24318 * Month
  BY <1>1, <1>8
<1> QED  BY <1>1, <1>5, <1>7, <1>8, <1>9 DEF h, a

\* When somebody is hired or becomes a customer.
LEMMA LongBefore ==
  /\ \A d \in HireDates : d \in Int /\ d + 4 * Month <= history_end
  /\ \A d \in SinceDates : d \in Int /\ d + 2 * Month <= history_end
  /\ Month \in Nat \ {0}
  BY Windows, DatasetAssumption

LEMMA Between ==
  ASSUME NEW a \in Int, NEW b \in Int
  PROVE  /\ Later(a, b) \in Int /\ Earlier(a, b) \in Int
         /\ Later(a, b) >= a /\ Later(a, b) >= b /\ Earlier(a, b) <= a /\ Earlier(a, b) <= b
         /\ Later(a, b) \in {a, b} /\ Earlier(a, b) \in {a, b}
  BY DEF Later, Earlier

-----------------------------------------------------------------------------
(* The months of the window, and how the orders are shared among them.     *)

LEMMA Twelfths ==
  ASSUME NEW n \in Nat
  PROVE  12 * (n \div 12) + (n % 12) = n /\ n \div 12 \in Nat /\ n % 12 \in 0 .. 11
  OBVIOUS

\* The place of a month in the calendar, both ways.
LEMMA MonthOf ==
  ASSUME NEW n \in Nat
  PROVE  /\ Ym(<<n \div 12, (n % 12) + 1>>) = n + 1
         /\ n \div 12 \in Nat /\ (n % 12) + 1 \in 1 .. 12
<1>1. 12 * (n \div 12) + (n % 12) = n /\ n \div 12 \in Nat /\ n % 12 \in 0 .. 11
  BY Twelfths
<1> DEFINE q == n \div 12
           r == n % 12
<1> HIDE DEF q, r
<1>2. Ym(<<q, r + 1>>) = 12 * q + (r + 1)
  BY DEF Ym
<1> QED  BY <1>1, <1>2 DEF q, r

LEMMA Opened ==
  /\ OpeningMonth \in Calendar /\ Ym(OpeningMonth) = 24319 - HISTORY_MONTHS
  /\ OpeningMonth[1] \in Nat /\ OpeningMonth[2] \in 1 .. 12
<1>1. HISTORY_MONTHS \in Nat /\ 24 <= HISTORY_MONTHS /\ HISTORY_MONTHS <= 24312
  BY MonthsKept
<1>2. PICK n \in Nat : n = 24318 - HISTORY_MONTHS /\ n <= 24294
  BY <1>1
<1>3. OpeningMonth = <<n \div 12, (n % 12) + 1>>
  <2>1. 2026 * 12 + 5 - (HISTORY_MONTHS - 1) = n
    BY <1>1, <1>2
  <2> QED  BY <2>1 DEF OpeningMonth
<1>4. n \div 12 \in Nat /\ n \div 12 <= 2026 /\ (n % 12) + 1 \in 1 .. 12
  BY <1>2
<1>5. Ym(OpeningMonth) = n + 1
  BY <1>2, <1>3, MonthOf
<1>6. OpeningMonth[1] = n \div 12 /\ OpeningMonth[2] = (n % 12) + 1
  BY <1>3
<1> DEFINE q == n \div 12
           r == (n % 12) + 1
<1>7. OpeningMonth = <<q, r>> /\ q \in Nat /\ q <= 2026 /\ r \in 1 .. 12
  BY <1>3, <1>4
<1> HIDE DEF q, r
<1>8. <<q, r>> \in (q .. 2026) \X (1 .. 12) /\ OpeningMonth[1] = q /\ OpeningMonth[2] = r
  BY <1>7
<1>9. OpeningMonth \in Calendar
  BY <1>7, <1>8 DEF Calendar
<1> QED  BY <1>1, <1>2, <1>5, <1>7, <1>8, <1>9

LEMMA Grid ==
  ASSUME NEW a \in Int, NEW b \in Int, NEW c \in Int, NEW d \in Int
  PROVE  IsFiniteSet((a .. b) \X (c .. d))
<1>1. IsFiniteSet(a .. b)
  BY FS_Interval
<1>2. IsFiniteSet(c .. d)
  BY FS_Interval
<1> QED  BY <1>1, <1>2, FS_Product, Zenon

LEMMA TwelveEach ==
  ASSUME NEW a \in Nat, NEW b \in 1 .. 12, NEW c \in Nat, NEW d \in 1 .. 12, 12 * a + b = 12 * c + d
  PROVE  a = c /\ b = d
<1>1. b \in Int /\ d \in Int /\ 1 <= b /\ b <= 12 /\ 1 <= d /\ d <= 12
  OBVIOUS
<1>2. 12 * (a - c) = d - b /\ d - b < 12 /\ b - d < 12
  BY <1>1
<1>3. a = c
  BY <1>1, <1>2
<1> QED  BY <1>1, <1>3

\* A month of the calendar is known by its place.
LEMMA Calendared ==
  /\ IsFiniteSet(Calendar)
  /\ \A m \in Calendar :
        /\ m[1] \in Nat /\ m[2] \in 1 .. 12 /\ m = <<m[1], m[2]>> /\ Ym(m) \in Nat
        /\ First(m) = (Ym(m) - 1) * Month /\ First(m) \in Int
        /\ \A n \in Calendar : Ym(m) = Ym(n) => m = n
<1>1. OpeningMonth[1] \in Nat /\ Month \in Nat \ {0}
  BY Opened, DatasetAssumption
<1>2. IsFiniteSet(Calendar)
  <2>1. PICK a \in Int : a = OpeningMonth[1]
    BY <1>1
  <2>2. Calendar = (a .. 2026) \X (1 .. 12)
    BY <2>1 DEF Calendar
  <2>3. PICK b \in Int, c \in Int, d \in Int : b = 2026 /\ c = 1 /\ d = 12
    OBVIOUS
  <2>4. IsFiniteSet((a .. b) \X (c .. d))
    <3>1. a \in Int /\ b \in Int /\ c \in Int /\ d \in Int
      BY <2>1, <2>3
    <3> QED  BY <3>1, Grid, Zenon
  <2> QED  BY <2>2, <2>3, <2>4
<1>3. ASSUME NEW m \in Calendar
      PROVE  m[1] \in Nat /\ m[2] \in 1 .. 12 /\ m = <<m[1], m[2]>> /\ Ym(m) \in Nat
  BY <1>1 DEF Calendar, Ym
<1>4. ASSUME NEW m \in Calendar
      PROVE  First(m) = (Ym(m) - 1) * Month /\ First(m) \in Int
  <2>1. m[1] \in Nat /\ m[2] \in 1 .. 12
    BY <1>3
  <2> DEFINE x == 12 * m[1] + m[2]
  <2>2. First(m) = (x - 1) * Month /\ Ym(m) = x /\ x \in Nat
    BY <2>1 DEF First, Ym
  <2> HIDE DEF x
  <2> QED  BY <1>1, <2>2
<1>5. ASSUME NEW m \in Calendar, NEW n \in Calendar, Ym(m) = Ym(n)
      PROVE  m = n
  <2>1. /\ m[1] \in Nat /\ m[2] \in 1 .. 12 /\ m = <<m[1], m[2]>>
        /\ n[1] \in Nat /\ n[2] \in 1 .. 12 /\ n = <<n[1], n[2]>>
    BY <1>3
  <2>2. 12 * m[1] + m[2] = 12 * n[1] + n[2]
    BY <1>5 DEF Ym
  <2>3. m[1] = n[1] /\ m[2] = n[2]
    BY <2>1, <2>2, TwelveEach
  <2> QED  BY <2>1, <2>3
<1> QED  BY <1>2, <1>3, <1>4, <1>5

LEMMA MonthsInside ==
  /\ _month_starts = {m \in Calendar : 24319 - HISTORY_MONTHS <= Ym(m) /\ Ym(m) <= 24318}
  /\ IsFiniteSet(_month_starts) /\ OpeningMonth \in _month_starts
  /\ \A m \in _month_starts : m \in Calendar /\ history_start <= First(m) /\ First(m) <= history_end
<1>1. HISTORY_MONTHS \in Nat /\ 24 <= HISTORY_MONTHS /\ HISTORY_MONTHS <= 24312 /\ Month \in Nat \ {0}
  BY MonthsKept
<1>2. ASSUME NEW m \in Calendar
      PROVE  First(m) <= history_end <=> Ym(m) <= 24318
  <2>1. Ym(m) \in Nat /\ First(m) = (Ym(m) - 1) * Month /\ First(m) \in Int
    BY Calendared
  <2>2. 24318 * Month \in Int /\ history_end = 24318 * Month - 1
    BY <1>1, Windows
  <2> PICK a \in Int : a = Ym(m) - 1
    BY <2>1
  <2>3. /\ a <= 24317 => a * Month <= 24317 * Month
        /\ a * Month < 24318 * Month => a < 24318
    BY <1>1, Multiples
  <2>4. 24317 * Month < 24318 * Month
    BY <1>1
  <2> QED  BY <1>1, <2>1, <2>2, <2>3, <2>4
<1>3. \A m \in Calendar : (Ym(m) - Ym(OpeningMonth)) % 1 = 0
  BY Calendared, Opened
<1>4. _month_starts = {m \in Calendar : 24319 - HISTORY_MONTHS <= Ym(m) /\ Ym(m) <= 24318}
  <2>1. \A m \in Calendar : Ym(m) >= Ym(OpeningMonth) <=> 24319 - HISTORY_MONTHS <= Ym(m)
    BY <1>1, Calendared, Opened
  <2> QED  BY <1>2, <1>3, <2>1 DEF _month_starts, Every
<1>5. IsFiniteSet(_month_starts)
  BY <1>4, Calendared, FS_Subset
<1>6. OpeningMonth \in _month_starts
  BY <1>1, <1>4, Opened
<1>7. ASSUME NEW m \in _month_starts
      PROVE  m \in Calendar /\ history_start <= First(m) /\ First(m) <= history_end
  <2>1. m \in Calendar /\ 24319 - HISTORY_MONTHS <= Ym(m) /\ Ym(m) <= 24318
    BY <1>4
  <2>2. Ym(m) \in Nat /\ First(m) = (Ym(m) - 1) * Month
    BY <2>1, Calendared
  <2>3. (24318 - HISTORY_MONTHS) * Month <= (Ym(m) - 1) * Month
    <3> PICK a \in Int, b \in Int : a = 24318 - HISTORY_MONTHS /\ b = Ym(m) - 1
      BY <1>1, <2>2
    <3>1. a <= b
      BY <1>1, <2>1, <2>2
    <3> QED  BY <1>1, <3>1, Multiples
  <2> QED  BY <1>2, <2>1, <2>2, <2>3, Windows
<1> QED  BY <1>4, <1>5, <1>6, <1>7

LEMMA Product ==
  ASSUME NEW a \in Nat \ {0}, NEW b \in Nat \ {0}
  PROVE  a * b \in Nat \ {0}
  OBVIOUS

LEMMA Weighed ==
  \A m \in _month_starts : Weight(m) \in Nat \ {0}
<1> SUFFICES ASSUME NEW m \in _month_starts
             PROVE  Weight(m) \in Nat \ {0}
  OBVIOUS
<1>1. /\ m \in Calendar /\ m[1] \in Nat /\ m[2] \in 1 .. 12
      /\ 24319 - HISTORY_MONTHS <= Ym(m)
  BY MonthsInside, Calendared
<1>2. _seasonal_factor[m[2]] \in Nat \ {0}
  <2> PICK k \in 1 .. 12 : k = m[2]
    BY <1>1
  <2>1. _seasonal_factor[k] \in Nat \ {0}
    BY DEF _seasonal_factor
  <2> QED  BY <2>1
<1>3. _growth_factor(m) \in Nat \ {0}
  <2>1. /\ OpeningMonth[1] \in Nat /\ OpeningMonth[2] \in 1 .. 12
        /\ Ym(OpeningMonth) = 24319 - HISTORY_MONTHS /\ HISTORY_MONTHS \in Nat
    BY Opened, MonthsKept
  <2>2. 12 * OpeningMonth[1] + OpeningMonth[2] <= 12 * m[1] + m[2]
    BY <1>1, <2>1 DEF Ym
  <2>3. (m[1] - OpeningMonth[1]) * 12 + m[2] - OpeningMonth[2] \in Nat
    <3>1. PICK a \in Nat, b \in 1 .. 12, c \in Nat, d \in 1 .. 12 :
            a = m[1] /\ b = m[2] /\ c = OpeningMonth[1] /\ d = OpeningMonth[2]
      BY <1>1, <2>1
    <3>2. 12 * c + d <= 12 * a + b
      BY <2>2, <3>1
    <3>3. (a - c) * 12 + b - d \in Nat
      BY <3>2
    <3> QED  BY <3>1, <3>3
  <2> DEFINE x == (m[1] - OpeningMonth[1]) * 12 + m[2] - OpeningMonth[2]
  <2>4. _growth_factor(m) = 1000 + 11 * x
    BY DEF _growth_factor
  <2>5. x \in Nat
    BY <2>3
  <2> HIDE DEF x
  <2> QED  BY <2>4, <2>5
<1> QED  BY <1>2, <1>3, Product DEF Weight

LEMMA WeightsAdd ==
  /\ WeightSum \in Nat \ {0}
  /\ WeightSum = SumFunctionOnSet([m \in _month_starts |-> Weight(m)], _month_starts)
<1> DEFINE w == [m \in _month_starts |-> Weight(m)]
<1>1. /\ IsFiniteSet(_month_starts) /\ OpeningMonth \in _month_starts
      /\ \A m \in _month_starts : w[m] \in Nat /\ w[m] > 0
  BY MonthsInside, Weighed
<1>2. WeightSum = SumFunctionOnSet(w, _month_starts)
  BY DEF WeightSum, SumFunction
<1> HIDE DEF w
<1>3. /\ SumFunctionOnSet(w, _month_starts \ {OpeningMonth}) \in Nat
      /\ SumFunctionOnSet(w, _month_starts) = w[OpeningMonth] + SumFunctionOnSet(w, _month_starts \ {OpeningMonth})
  BY <1>1, SumsPeel
<1> QED  BY <1>1, <1>2, <1>3 DEF w

\* The whole share of a month, and its turn when the rest is handed out.
Wanted == Volume[company].orders
WholeShare(m) == (Wanted * Weight(m)) \div WeightSum
Place(m) == Cardinality({n \in _month_starts : Heavier(n, m)})

LEMMA HeavierFirst ==
  ASSUME NEW m \in _month_starts, NEW n \in _month_starts, Heavier(m, n)
  PROVE  Place(m) < Place(n)
<1> DEFINE M == {l \in _month_starts : Heavier(l, m)}
           N == {l \in _month_starts : Heavier(l, n)}
<1>1. \A l \in _month_starts : Weight(l) \in Nat /\ Ym(l) \in Nat
  BY Weighed, MonthsInside, Calendared
<1>2. M \subseteq N /\ m \in N /\ m \notin M
  BY <1>1 DEF Heavier
<1>3. IsFiniteSet(N)
  BY MonthsInside, FS_Subset
<1> HIDE DEF M, N
<1>4. Cardinality(M) < Cardinality(N)
  <2>1. IsFiniteSet(M) /\ Cardinality(M) <= Cardinality(N) /\ Cardinality(M) # Cardinality(N)
    BY <1>2, <1>3, FS_Subset
  <2> QED  BY <1>3, <2>1, FS_CardinalityType
<1> QED  BY <1>4 DEF M, N, Place

LEMMA PlacesDiffer ==
  /\ Cardinality(_month_starts) \in Nat \ {0}
  /\ \A m \in _month_starts :
        /\ Place(m) \in 0 .. Cardinality(_month_starts) - 1
        /\ \A n \in _month_starts : Place(n) = Place(m) => n = m
        /\ \A n \in _month_starts : Weight(m) > Weight(n) => Place(m) < Place(n)
<1>0. IsFiniteSet(_month_starts) /\ OpeningMonth \in _month_starts
  BY MonthsInside
<1>1. Cardinality(_month_starts) \in Nat \ {0}
  BY <1>0, FS_CardinalityType, FS_EmptySet
<1>2. ASSUME NEW m \in _month_starts
      PROVE  Place(m) \in 0 .. Cardinality(_month_starts) - 1
  <2> DEFINE M == {l \in _month_starts : Heavier(l, m)}
  <2>1. Weight(m) \in Nat /\ Ym(m) \in Nat
    BY Weighed, MonthsInside, Calendared
  <2>2. M \subseteq _month_starts /\ m \notin M
    BY <2>1 DEF Heavier
  <2> HIDE DEF M
  <2>3. IsFiniteSet(M) /\ Cardinality(M) \in Nat /\ Cardinality(M) < Cardinality(_month_starts)
    BY <1>0, <2>2, FS_Subset, FS_CardinalityType
  <2> QED  BY <1>1, <2>3 DEF M, Place
<1>3. ASSUME NEW m \in _month_starts, NEW n \in _month_starts, Place(n) = Place(m)
      PROVE  n = m
  <2>1. Weight(m) \in Nat /\ Ym(m) \in Nat /\ Weight(n) \in Nat /\ Ym(n) \in Nat
    BY Weighed, MonthsInside, Calendared
  <2>2. ~ Heavier(m, n) /\ ~ Heavier(n, m)
    BY <1>2, <1>3, HeavierFirst
  <2>3. Ym(m) = Ym(n)
    BY <2>1, <2>2 DEF Heavier
  <2> QED  BY <2>3, MonthsInside, Calendared
<1>4. ASSUME NEW m \in _month_starts, NEW n \in _month_starts, Weight(m) > Weight(n)
      PROVE  Place(m) < Place(n)
  BY <1>4, HeavierFirst DEF Heavier
<1> QED  BY <1>1, <1>2, <1>3, <1>4

\* What is handed out so far: as many rounds, and one more to whose turn has been.
Shared ==
    \A m \in _month_starts :
        quota[m] = WholeShare(m) + item \div Cardinality(_month_starts)
                   + (IF Place(m) < (item % Cardinality(_month_starts)) THEN 1 ELSE 0)
Curved ==
    \A m, n \in _month_starts : Weight(m) > Weight(n) => quota[m] >= quota[n]

LEMMA WholeShares ==
  ASSUME company \in Company
  PROVE  /\ Wanted \in Nat \ {0}
         /\ \A m \in _month_starts : WholeShare(m) \in Nat
         /\ \A m \in _month_starts : WholeShare(m) * WeightSum <= Wanted * Weight(m)
         /\ \A m, n \in _month_starts : Weight(m) > Weight(n) => WholeShare(m) >= WholeShare(n)
<1>1. Wanted \in Nat \ {0} /\ WeightSum \in Nat \ {0}
  BY DatasetAssumption, WeightsAdd DEF Wanted
<1>2. ASSUME NEW m \in _month_starts
      PROVE  WholeShare(m) \in Nat /\ WholeShare(m) * WeightSum <= Wanted * Weight(m)
  <2>1. Weight(m) \in Nat \ {0}
    BY Weighed
  <2> PICK x \in Nat : x = Wanted * Weight(m)
    BY <1>1, <2>1, Product
  <2>2. x \div WeightSum \in Nat /\ (x \div WeightSum) * WeightSum <= x
    BY <1>1, Divided
  <2> QED  BY <2>2 DEF WholeShare
<1>3. ASSUME NEW m \in _month_starts, NEW n \in _month_starts, Weight(m) > Weight(n)
      PROVE  WholeShare(m) >= WholeShare(n)
  <2>1. Weight(m) \in Nat \ {0} /\ Weight(n) \in Nat \ {0}
    BY Weighed
  <2>2. PICK x \in Nat : x = Wanted * Weight(m)
    BY <1>1, <2>1, Product
  <2>3. PICK y \in Nat : y = Wanted * Weight(n)
    BY <1>1, <2>1, Product
  <2>4. y <= x
    <3> PICK a \in Int, b \in Int : a = Weight(n) /\ b = Weight(m)
      BY <2>1
    <3>1. a * Wanted <= b * Wanted
      BY <1>1, <1>3, Multiples
    <3>2. a * Wanted = Wanted * a /\ b * Wanted = Wanted * b
      BY <1>1
    <3> QED  BY <2>2, <2>3, <3>1, <3>2
  <2>5. y \div WeightSum <= x \div WeightSum
    BY <1>1, <2>2, <2>3, <2>4, DividedGrows
  <2>6. x \div WeightSum \in Nat /\ y \div WeightSum \in Nat
    BY <1>1, <2>2, <2>3, Divided
  <2> QED  BY <2>2, <2>3, <2>5, <2>6 DEF WholeShare
<1> QED  BY <1>1, <1>2, <1>3

-----------------------------------------------------------------------------
(* How the dates of the orders come about.                                 *)

Customer == [since : SinceDates, region : REGIONS]

SharesInv ==
    /\ customers \in Seq(Customer) /\ order_dates \in Seq(history_start .. history_end)
    /\ stage \in {"allocation", "remainder", "dates", "orders"} => customers # << >>
    /\ stage \notin {"dates", "orders", "revenue", "targets"} => order_dates = << >>
    /\ stage \in {"remainder", "dates"} => quota \in [_month_starts -> Nat]
    /\ stage = "remainder" => Allotted <= Wanted /\ Shared
    /\ stage = "dates" => Allotted + Len(order_dates) = Wanted /\ (order_dates = << >> => Curved)
    /\ stage = "orders" => Len(order_dates) = Wanted

LEMMA AllotStep ==
  ASSUME SharesInv, company \in Company, Allot
  PROVE  SharesInv'
<1>1. /\ stage = "allocation" /\ stage' = "remainder" /\ item' = 0
      /\ company' = company /\ UNCHANGED <<order_dates, customers>>
      /\ quota' = [m \in _month_starts |-> WholeShare(m)]
  BY DEF Allot, staff, request, WholeShare, Wanted
<1>2. /\ Wanted \in Nat \ {0} /\ WeightSum \in Nat \ {0} /\ IsFiniteSet(_month_starts)
      /\ \A m \in _month_starts : WholeShare(m) \in Nat /\ WholeShare(m) * WeightSum <= Wanted * Weight(m)
  BY WholeShares, WeightsAdd, MonthsInside
<1>3. Wanted' = Wanted /\ \A m : WholeShare(m)' = WholeShare(m)
  BY <1>1 DEF Wanted, WholeShare
<1>4. quota' \in [_month_starts -> Nat]
  BY <1>1, <1>2
<1>5. Allotted' \in Nat /\ Allotted' <= Wanted
  <2> DEFINE w == [m \in _month_starts |-> Weight(m)]
             f == quota'
  <2>1. \A m \in _month_starts : f[m] \in Nat /\ w[m] \in Nat /\ f[m] * WeightSum <= Wanted * w[m]
    BY <1>1, <1>2, Weighed
  <2>2. Allotted' = SumFunctionOnSet(f, _month_starts)
    BY <1>4 DEF Allotted, SumFunction
  <2>3. WeightSum = SumFunctionOnSet(w, _month_starts)
    BY WeightsAdd
  <2> HIDE DEF w, f
  <2>4. SumFunctionOnSet(f, _month_starts) * WeightSum <= Wanted * SumFunctionOnSet(w, _month_starts)
    BY <1>2, <2>1, SumsOfShares
  <2>5. SumFunctionOnSet(f, _month_starts) \in Nat
    <3>1. _month_starts \in SUBSET _month_starts
      OBVIOUS
    <3> QED  BY <1>2, <2>1, <3>1, SumsNest
  <2>6. PICK s \in Nat : s = SumFunctionOnSet(f, _month_starts)
    BY <2>5
  <2>7. s * WeightSum <= Wanted * WeightSum
    BY <2>3, <2>4, <2>6
  <2>8. s <= Wanted
    <3>1. ASSUME Wanted + 1 <= s
          PROVE  FALSE
      <4>1. (Wanted + 1) * WeightSum <= s * WeightSum
        BY <1>2, <3>1, Multiples
      <4>2. (Wanted + 1) * WeightSum = Wanted * WeightSum + WeightSum /\ Wanted * WeightSum \in Nat
        BY <1>2
      <4> QED  BY <1>2, <2>7, <4>1, <4>2
    <3> QED  BY <1>2, <3>1
  <2> QED  BY <2>2, <2>6, <2>8
<1>6. Shared'
  <2> SUFFICES ASSUME NEW m \in _month_starts
               PROVE  quota'[m] = WholeShare(m)' + item' \div Cardinality(_month_starts)
                         + (IF Place(m) < (item' % Cardinality(_month_starts)) THEN 1 ELSE 0)
    BY DEF Shared
  <2>1. PICK n \in Nat \ {0} : n = Cardinality(_month_starts)
    BY PlacesDiffer
  <2>2. Place(m) \in Nat
    BY PlacesDiffer
  <2>3. 0 \div n = 0 /\ 0 % n = 0
    BY <2>1
  <2> QED  BY <1>1, <1>2, <1>3, <2>1, <2>2, <2>3
<1> QED  BY <1>1, <1>3, <1>4, <1>5, <1>6 DEF SharesInv

\* One turn more.
LEMMA TurnCounted ==
  ASSUME NEW i \in Nat, NEW n \in Nat \ {0}
  PROVE  /\ i % n \in 0 .. n - 1 /\ i \div n \in Nat
         /\ \/ (i % n) + 1 < n /\ (i + 1) % n = (i % n) + 1 /\ (i + 1) \div n = i \div n
            \/ (i % n) + 1 = n /\ (i + 1) % n = 0 /\ (i + 1) \div n = i \div n + 1
<1> DEFINE q == i \div n
           r == i % n
           s == (i + 1) \div n
           t == (i + 1) % n
<1>1. q \in Nat /\ r \in 0 .. n - 1 /\ i = q * n + r
  OBVIOUS
<1>2. s \in Nat /\ t \in 0 .. n - 1 /\ i + 1 = s * n + t
  OBVIOUS
<1> HIDE DEF q, r, s, t
<1>3. q * n + r + 1 = s * n + t
  BY <1>1, <1>2
<1>4. CASE s = q
  BY <1>1, <1>2, <1>3, <1>4 DEF q, r, s, t
<1>5. CASE s < q
  <2>1. (s + 1) * n <= q * n
    BY <1>1, <1>2, <1>5, Multiples
  <2>2. (s + 1) * n = s * n + n /\ s * n \in Nat /\ q * n \in Nat
    BY <1>1, <1>2
  <2> QED  BY <1>1, <1>2, <1>3, <2>1, <2>2
<1>6. CASE q < s
  <2>1. (q + 1) * n <= s * n
    BY <1>1, <1>2, <1>6, Multiples
  <2>2. (q + 1) * n = q * n + n /\ s * n \in Nat /\ q * n \in Nat
    BY <1>1, <1>2
  <2>3. t = 0 /\ r + 1 = n /\ s * n = (q + 1) * n
    BY <1>1, <1>2, <1>3, <2>1, <2>2
  <2>4. s = q + 1
    <3>1. ASSUME q + 2 <= s
          PROVE  FALSE
      <4>1. (q + 2) * n <= s * n
        BY <1>1, <1>2, <3>1, Multiples
      <4>2. (q + 2) * n = q * n + n + n
        BY <1>1
      <4> QED  BY <1>1, <2>2, <2>3, <4>1, <4>2
    <3> QED  BY <1>1, <1>2, <1>6, <3>1
  <2> QED  BY <1>1, <2>3, <2>4 DEF q, r, s, t
<1> QED  BY <1>1, <1>2, <1>4, <1>5, <1>6

LEMMA HandOutStep ==
  ASSUME SharesInv, company \in Company, item \in Nat, HandOut
  PROVE  SharesInv'
<1>1. /\ stage = "remainder" /\ stage' = "remainder" /\ item' = item + 1 /\ Missing > 0
      /\ company' = company /\ UNCHANGED <<order_dates, customers>>
  BY DEF HandOut, staff, request
<1>2. /\ customers \in Seq(Customer) /\ customers # << >> /\ order_dates = << >>
      /\ order_dates \in Seq(history_start .. history_end)
      /\ quota \in [_month_starts -> Nat] /\ Allotted <= Wanted /\ Shared
  BY <1>1 DEF SharesInv
<1>3. PICK n \in Nat \ {0} : n = Cardinality(_month_starts)
  BY PlacesDiffer
<1>4. PICK m \in _month_starts : Place(m) = item % n /\ quota' = [quota EXCEPT ![m] = @ + 1]
  BY <1>2, <1>3 DEF HandOut, Place
<1>5. quota' \in [_month_starts -> Nat]
  BY <1>2, <1>4
<1>6. Allotted' <= Wanted
  <2>1. /\ Allotted = SumFunctionOnSet(quota, _month_starts)
        /\ Allotted' = SumFunctionOnSet(quota', _month_starts)
    BY <1>2, <1>5 DEF Allotted, SumFunction
  <2>2. /\ SumFunctionOnSet(quota', _month_starts) = SumFunctionOnSet(quota, _month_starts) + 1
        /\ SumFunctionOnSet(quota, _month_starts) \in Nat
    <3> DEFINE h == quota'
    <3>1. \A y \in _month_starts : quota[y] \in Nat
      BY <1>2
    <3>2. h[m] = quota[m] + 1 /\ \A y \in _month_starts \ {m} : h[y] = quota[y]
      BY <1>2, <1>4
    <3> HIDE DEF h
    <3>3. /\ SumFunctionOnSet(h, _month_starts) = SumFunctionOnSet(quota, _month_starts) + 1
          /\ SumFunctionOnSet(quota, _month_starts) \in Nat
      BY <3>1, <3>2, MonthsInside, SumsOneMore
    <3> QED  BY <3>3 DEF h
  <2>3. Wanted \in Nat /\ Wanted - Allotted > 0
    BY <1>1, WholeShares DEF Missing, Wanted
  <2> QED  BY <2>1, <2>2, <2>3
<1>7. Shared'
  <2> SUFFICES ASSUME NEW l \in _month_starts
               PROVE  quota'[l] = WholeShare(l)' + item' \div Cardinality(_month_starts)
                         + (IF Place(l) < (item' % Cardinality(_month_starts)) THEN 1 ELSE 0)
    BY DEF Shared
  <2>1. /\ WholeShare(l) \in Nat /\ WholeShare(l)' = WholeShare(l)
        /\ Place(l) \in 0 .. n - 1 /\ (Place(l) = Place(m) => l = m)
    <3>1. WholeShare(l)' = WholeShare(l)
      BY <1>1 DEF WholeShare, Wanted
    <3>2. Place(l) \in 0 .. n - 1 /\ (Place(l) = Place(m) => l = m)
      BY <1>3, PlacesDiffer
    <3> QED  BY <3>1, <3>2, WholeShares
  <2>2. quota[l] = WholeShare(l) + item \div n + (IF Place(l) < (item % n) THEN 1 ELSE 0)
    BY <1>2, <1>3 DEF Shared
  <2>3. quota'[l] = IF l = m THEN quota[l] + 1 ELSE quota[l]
    BY <1>2, <1>4
  <2> DEFINE q == item \div n
             r == item % n
             s == (item + 1) \div n
             t == (item + 1) % n
  <2>4. /\ r \in 0 .. n - 1 /\ q \in Nat
        /\ \/ r + 1 < n /\ t = r + 1 /\ s = q
           \/ r + 1 = n /\ t = 0 /\ s = q + 1
    BY TurnCounted
  <2>5. Place(m) = r /\ quota[l] = WholeShare(l) + q + (IF Place(l) < r THEN 1 ELSE 0)
    BY <1>4, <2>2
  <2> HIDE DEF q, r, s, t
  <2>6. quota'[l] = WholeShare(l) + s + (IF Place(l) < t THEN 1 ELSE 0)
    BY <1>3, <2>1, <2>3, <2>4, <2>5
  <2> QED  BY <1>1, <1>3, <2>1, <2>6 DEF s, t
<1>8. Wanted' = Wanted
  BY <1>1 DEF Wanted
<1> QED  BY <1>1, <1>2, <1>5, <1>6, <1>7, <1>8 DEF SharesInv

LEMMA AllocateStep ==
  ASSUME SharesInv, company \in Company, item \in Nat, Allocate_dates
  PROVE  SharesInv'
<1>1. /\ stage = "remainder" /\ stage' = "dates" /\ Missing <= 0
      /\ company' = company /\ UNCHANGED <<quota, order_dates, customers>>
  BY DEF Allocate_dates, staff, request, ledger
<1>2. /\ customers \in Seq(Customer) /\ customers # << >> /\ order_dates = << >>
      /\ order_dates \in Seq(history_start .. history_end)
      /\ quota \in [_month_starts -> Nat] /\ Allotted <= Wanted /\ Shared
  BY <1>1 DEF SharesInv
<1>3. Allotted \in Nat
  <2>1. Allotted = SumFunctionOnSet(quota, _month_starts)
    BY <1>2 DEF Allotted, SumFunction
  <2>2. \A y \in _month_starts : quota[y] \in Nat
    BY <1>2
  <2>3. _month_starts \in SUBSET _month_starts
    OBVIOUS
  <2> QED  BY <2>1, <2>2, <2>3, MonthsInside, SumsNest
<1>4. Allotted + Len(order_dates) = Wanted
  <2>1. Wanted \in Nat /\ Wanted - Allotted <= 0
    BY <1>1, WholeShares DEF Missing, Wanted
  <2>2. Len(order_dates) = 0
    BY <1>2
  <2> QED  BY <1>2, <1>3, <2>1, <2>2
<1>5. Curved
  <2> SUFFICES ASSUME NEW m \in _month_starts, NEW n \in _month_starts, Weight(m) > Weight(n)
               PROVE  quota[m] >= quota[n]
    BY DEF Curved
  <2>1. /\ WholeShare(m) \in Nat /\ WholeShare(n) \in Nat /\ WholeShare(m) >= WholeShare(n)
    BY WholeShares
  <2>2. PICK c \in Nat \ {0} : c = Cardinality(_month_starts)
    BY PlacesDiffer
  <2>3. Place(m) \in Nat /\ Place(n) \in Nat /\ Place(m) < Place(n)
    BY PlacesDiffer
  <2>4. /\ quota[m] = WholeShare(m) + item \div c + (IF Place(m) < (item % c) THEN 1 ELSE 0)
        /\ quota[n] = WholeShare(n) + item \div c + (IF Place(n) < (item % c) THEN 1 ELSE 0)
    BY <1>2, <2>2 DEF Shared
  <2>5. item \div c \in Nat /\ item % c \in Nat
    BY <2>2
  <2> QED  BY <2>1, <2>3, <2>4, <2>5
<1>6. Wanted' = Wanted /\ Allotted' = Allotted
  BY <1>1 DEF Wanted, Allotted
<1>7. Curved'
  BY <1>1, <1>5 DEF Curved
<1> QED  BY <1>1, <1>2, <1>4, <1>6, <1>7 DEF SharesInv

LEMMA DrawDateStep ==
  ASSUME SharesInv, company \in Company, DrawDate
  PROVE  SharesInv'
<1>1. /\ stage = "dates" /\ stage' = "dates" /\ company' = company /\ UNCHANGED customers
  BY DEF DrawDate, staff, request
<1>2. /\ customers \in Seq(Customer) /\ customers # << >>
      /\ order_dates \in Seq(history_start .. history_end)
      /\ quota \in [_month_starts -> Nat] /\ Allotted + Len(order_dates) = Wanted
  BY <1>1 DEF SharesInv
<1>3. PICK m \in _month_starts : /\ quota[m] > 0 /\ quota' = [quota EXCEPT ![m] = @ - 1]
                                 /\ \E day \in Draw(First(m), Earlier(FirstOfNext(m) - 1, history_end)) :
                                        order_dates' = Append(order_dates, day)
  BY <1>2 DEF DrawDate
<1>4. PICK day \in Draw(First(m), Earlier(FirstOfNext(m) - 1, history_end)) :
        order_dates' = Append(order_dates, day)
  BY <1>3
<1>5. day \in history_start .. history_end
  <2>1. /\ First(m) \in Int /\ history_start <= First(m) /\ history_start \in Int /\ history_end \in Int
        /\ m[1] \in Nat /\ m[2] \in 1 .. 12
    BY MonthsInside, Calendared, Windows
  <2> PICK e \in Int : e = FirstOfNext(m) - 1 /\ Earlier(e, history_end) \in Int
                       /\ Earlier(e, history_end) <= history_end
    <3>1. FirstOfNext(m) - 1 \in Int
      <4> PICK a \in Int : a = m[1] + m[2] \div 12
        BY <2>1
      <4> PICK b \in Int : b = (m[2] % 12) + 1
        BY <2>1
      <4>1. FirstOfNext(m) = (12 * a + b - 1) * Month /\ Month \in Nat
        BY DatasetAssumption DEF FirstOfNext, First
      <4>2. FirstOfNext(m) \in Int
        BY <4>1
      <4> QED  BY <4>2
    <3> QED  BY <2>1, <3>1, Between
  <2>2. day \in Int /\ First(m) <= day /\ day <= Earlier(e, history_end)
    <3>1. day \in Draw(First(m), Earlier(e, history_end))
      BY <1>4
    <3> QED  BY <2>1, <3>1, Drawn
  <2> QED  BY <2>1, <2>2
<1>6. quota' \in [_month_starts -> Nat]
  BY <1>2, <1>3
<1>7. /\ order_dates' \in Seq(history_start .. history_end) /\ order_dates' # << >>
      /\ Len(order_dates') = Len(order_dates) + 1 /\ Len(order_dates) \in Nat
  BY <1>2, <1>4, <1>5, Longer, Row
<1>8. Allotted = Allotted' + 1 /\ Allotted' \in Nat
  <2>1. /\ Allotted = SumFunctionOnSet(quota, _month_starts)
        /\ Allotted' = SumFunctionOnSet(quota', _month_starts)
    BY <1>2, <1>6 DEF Allotted, SumFunction
  <2> DEFINE h == quota'
  <2>2. \A y \in _month_starts : h[y] \in Nat
    BY <1>6
  <2>3. quota[m] = h[m] + 1 /\ \A y \in _month_starts \ {m} : quota[y] = h[y]
    BY <1>2, <1>3
  <2>4. Allotted' = SumFunctionOnSet(h, _month_starts)
    BY <2>1
  <2> HIDE DEF h
  <2>5. /\ SumFunctionOnSet(quota, _month_starts) = SumFunctionOnSet(h, _month_starts) + 1
        /\ SumFunctionOnSet(h, _month_starts) \in Nat
    BY <2>2, <2>3, MonthsInside, SumsOneMore
  <2> QED  BY <2>1, <2>4, <2>5
<1>9. Wanted' = Wanted /\ Wanted \in Nat
  BY <1>1, WholeShares DEF Wanted
<1>10. Allotted' + Len(order_dates') = Wanted'
  BY <1>2, <1>7, <1>8, <1>9
<1> QED  BY <1>1, <1>2, <1>6, <1>7, <1>10 DEF SharesInv

LEMMA StartOrdersStep ==
  ASSUME SharesInv, company \in Company, StartOrders
  PROVE  SharesInv'
<1>1. /\ stage = "dates" /\ stage' = "orders" /\ company' = company /\ UNCHANGED <<order_dates, customers>>
  BY DEF StartOrders, staff, request, ledger
<1>2. /\ customers \in Seq(Customer) /\ customers # << >>
      /\ order_dates \in Seq(history_start .. history_end)
      /\ quota \in [_month_starts -> Nat] /\ Allotted + Len(order_dates) = Wanted
  BY <1>1 DEF SharesInv
<1>3. Allotted = 0
  <2>1. Allotted = SumFunctionOnSet(quota, _month_starts)
    BY <1>2 DEF Allotted, SumFunction
  <2>2. \A y \in _month_starts : quota[y] = 0
    BY <1>2 DEF StartOrders
  <2> QED  BY <2>1, <2>2, MonthsInside, SumsOfZeros
<1>4. Len(order_dates) = Wanted
  BY <1>2, <1>3
<1>5. Wanted' = Wanted
  BY <1>1 DEF Wanted
<1> QED  BY <1>1, <1>2, <1>4, <1>5 DEF SharesInv

-----------------------------------------------------------------------------
(* The orders, and the revenue they make.                                  *)

Key(k) == <<orders[k].month, orders[k].region>>

BooksInv ==
    /\ \E S : orders \in Seq(S)
    /\ stage \notin {"orders", "revenue", "targets"} => orders = << >> /\ revenue = << >>
    /\ stage = "orders" => Len(orders) = item
    /\ DOMAIN revenue = {Key(k) : k \in DOMAIN orders}
    /\ \A key \in DOMAIN revenue : revenue[key] = {k \in DOMAIN orders : Key(k) = key}

LEMMA OrderMade ==
  ASSUME AddOrder
  PROVE  \E customer, day, sum, order, key : \E delay \in Draw(0, 5) :
            /\ customer = At(customers, item)
            /\ day = Earlier(Later(order_dates[item + 1], customer.since), history_end)
            /\ key = <<order.month, order.region>> /\ orders' = Append(orders, order)
            /\ revenue' = IF key \in DOMAIN revenue THEN [revenue EXCEPT ![key] = @ \cup {item + 1}]
                          ELSE With(revenue, key, {item + 1})
            /\ added' = {Charged("orders", day, customer.since, sum),
                         Charged("invoices", Earlier(day + delay, history_end), day, sum)}
<1> DEFINE customer == At(customers, item)
           day == Earlier(Later(order_dates[item + 1], customer.since), history_end)
           month == day \div Month
           key == <<month, customer.region>>
<1>1. PICK lines \in 1 .. MaxLines : \E quantity \in [1 .. lines -> Draw(1, 12)], delay \in Draw(0, 5) :
        LET sum == Subtotal(quantity) + Tax(Subtotal(quantity))
        IN  /\ orders' = Append(orders, [month |-> month, region |-> customer.region, total |-> sum])
            /\ revenue' = IF key \in DOMAIN revenue THEN [revenue EXCEPT ![key] = @ \cup {item + 1}]
                          ELSE With(revenue, key, {item + 1})
            /\ added' = {Charged("orders", day, customer.since, sum),
                         Charged("invoices", Earlier(day + delay, history_end), day, sum)}
  BY DEF AddOrder
<1>2. PICK quantity \in [1 .. lines -> Draw(1, 12)], delay \in Draw(0, 5) :
        LET sum == Subtotal(quantity) + Tax(Subtotal(quantity))
        IN  /\ orders' = Append(orders, [month |-> month, region |-> customer.region, total |-> sum])
            /\ revenue' = IF key \in DOMAIN revenue THEN [revenue EXCEPT ![key] = @ \cup {item + 1}]
                          ELSE With(revenue, key, {item + 1})
            /\ added' = {Charged("orders", day, customer.since, sum),
                         Charged("invoices", Earlier(day + delay, history_end), day, sum)}
  BY <1>1
<1> DEFINE sum == Subtotal(quantity) + Tax(Subtotal(quantity))
           order == [month |-> month, region |-> customer.region, total |-> sum]
<1>3. order.month = month /\ order.region = customer.region
  OBVIOUS
<1>4. key = <<order.month, order.region>>
  BY <1>3
<1>5. /\ orders' = Append(orders, order)
      /\ revenue' = IF key \in DOMAIN revenue THEN [revenue EXCEPT ![key] = @ \cup {item + 1}]
                    ELSE With(revenue, key, {item + 1})
      /\ added' = {Charged("orders", day, customer.since, sum),
                   Charged("invoices", Earlier(day + delay, history_end), day, sum)}
  BY <1>2
<1>6. customer = At(customers, item) /\ day = Earlier(Later(order_dates[item + 1], customer.since), history_end)
  OBVIOUS
<1>7. delay \in Draw(0, 5)
  OBVIOUS
<1> HIDE DEF customer, day, month, key, sum, order
<1> QED  BY <1>4, <1>5, <1>6, <1>7, Zenon

\* An order more, filed under its month and region.
LEMMA Filed ==
  ASSUME BooksInv, stage = "orders", item \in Nat, NEW order, NEW key, key = <<order.month, order.region>>,
         orders' = Append(orders, order),
         revenue' = IF key \in DOMAIN revenue THEN [revenue EXCEPT ![key] = @ \cup {item + 1}]
                    ELSE With(revenue, key, {item + 1})
  PROVE  /\ \E S : orders' \in Seq(S)
         /\ Len(orders') = item + 1
         /\ DOMAIN revenue' = {Key(k)' : k \in DOMAIN orders'}
         /\ \A l \in DOMAIN revenue' : revenue'[l] = {k \in DOMAIN orders' : Key(k)' = l}
<1>1. PICK S : orders \in Seq(S)
  BY DEF BooksInv
<1>2. order \in S \cup {order} /\ orders \in Seq(S \cup {order})
  BY <1>1
<1>3. /\ orders' \in Seq(S \cup {order}) /\ Len(orders') = item + 1
      /\ DOMAIN orders = 1 .. item /\ DOMAIN orders' = 1 .. item + 1
      /\ orders'[item + 1] = order /\ \A i \in 1 .. item : orders'[i] = orders[i]
  <2>1. Len(orders) = item
    BY DEF BooksInv
  <2> QED  BY <1>2, <2>1, Longer, Row
<1> DEFINE g(k) == <<orders'[k].month, orders'[k].region>>
<1>4. PICK n : n = item + 1
  OBVIOUS
<1>5. /\ \A k \in DOMAIN orders : g(k) = Key(k)
      /\ g(n) = key
      /\ DOMAIN orders' = DOMAIN orders \cup {n} /\ n \notin DOMAIN orders
  BY <1>3, <1>4 DEF Key
<1>6. /\ DOMAIN revenue = {Key(k) : k \in DOMAIN orders}
      /\ \A l \in DOMAIN revenue : revenue[l] = {k \in DOMAIN orders : Key(k) = l}
  BY DEF BooksInv
<1>7. /\ DOMAIN revenue' = DOMAIN revenue \cup {key}
      /\ \A l \in DOMAIN revenue : l # key => revenue'[l] = revenue[l]
      /\ key \in DOMAIN revenue => revenue'[key] = revenue[key] \cup {n}
      /\ key \notin DOMAIN revenue => revenue'[key] = {n}
  <2>1. CASE key \in DOMAIN revenue
    BY <1>4, <2>1
  <2>2. CASE key \notin DOMAIN revenue
    BY <1>4, <2>2 DEF With
  <2> QED  BY <2>1, <2>2
<1>8. /\ \A k \in DOMAIN orders' : Key(k)' = g(k)
      /\ \E T : orders' \in Seq(T)
      /\ Len(orders') = item + 1
  BY <1>3 DEF Key
<1> HIDE DEF g
<1>9. DOMAIN revenue' = {g(k) : k \in DOMAIN orders'}
  <2>1. {g(k) : k \in DOMAIN orders'} = {g(k) : k \in DOMAIN orders} \cup {g(n)}
    BY <1>5
  <2>2. {g(k) : k \in DOMAIN orders} = {Key(k) : k \in DOMAIN orders}
    BY <1>5
  <2> QED  BY <1>5, <1>6, <1>7, <2>1, <2>2
<1>10. ASSUME NEW l \in DOMAIN revenue'
       PROVE  revenue'[l] = {k \in DOMAIN orders' : g(k) = l}
  <2>1. CASE l # key
    <3>1. l \in DOMAIN revenue /\ revenue'[l] = revenue[l]
      BY <1>7, <2>1
    <3>2. revenue[l] = {k \in DOMAIN orders : Key(k) = l}
      BY <1>6, <3>1
    <3> QED  BY <1>5, <2>1, <3>1, <3>2
  <2>2. CASE l = key /\ key \in DOMAIN revenue
    <3>1. revenue[key] = {k \in DOMAIN orders : Key(k) = key}
      BY <1>6, <2>2
    <3> QED  BY <1>5, <1>7, <2>2, <3>1
  <2>3. CASE l = key /\ key \notin DOMAIN revenue
    <3>1. \A k \in DOMAIN orders : Key(k) # key
      BY <1>6, <2>3
    <3> QED  BY <1>5, <1>7, <2>3, <3>1
  <2> QED  BY <2>1, <2>2, <2>3
<1>11. {Key(k)' : k \in DOMAIN orders'} = {g(k) : k \in DOMAIN orders'}
  BY <1>8
<1>12. ASSUME NEW l \in DOMAIN revenue'
       PROVE  {k \in DOMAIN orders' : Key(k)' = l} = {k \in DOMAIN orders' : g(k) = l}
  BY <1>8
<1>13. DOMAIN revenue' = {Key(k)' : k \in DOMAIN orders'}
  BY <1>9, <1>11
<1>14. \A l \in DOMAIN revenue' : revenue'[l] = {k \in DOMAIN orders' : Key(k)' = l}
  BY <1>10, <1>12
<1> QED  BY <1>8, <1>13, <1>14

\* What the rows of revenue say is what the orders come to.
Of(r) == {k \in DOMAIN orders : orders[k].month = r.month /\ orders[k].region = r.region}
Reported ==
    /\ \A r \in added :
        /\ Of(r) # {} /\ r.order_count = Cardinality(Of(r)) /\ r.amount = Turnover(orders, Of(r))
    /\ \A k \in DOMAIN orders : \E r \in added : k \in Of(r)

LEMMA RevenueReported ==
  ASSUME BooksInv, ReportRevenue
  PROVE  Reported'
<1> DEFINE Line(l) == [table |-> "monthly_revenue", month |-> l[1], region |-> l[2],
                       amount |-> Turnover(orders, revenue[l]), order_count |-> Cardinality(revenue[l])]
<1>1. orders' = orders /\ added' = {Line(l) : l \in DOMAIN revenue}
  BY DEF ReportRevenue, ledger
<1>2. /\ DOMAIN revenue = {Key(k) : k \in DOMAIN orders}
      /\ \A l \in DOMAIN revenue : revenue[l] = {k \in DOMAIN orders : Key(k) = l}
  BY DEF BooksInv
<1>3. ASSUME NEW j \in DOMAIN orders
      PROVE  /\ revenue[Key(j)] = Of(Line(Key(j))) /\ j \in Of(Line(Key(j)))
             /\ Line(Key(j)).order_count = Cardinality(revenue[Key(j)])
             /\ Line(Key(j)).amount = Turnover(orders, revenue[Key(j)])
  <2>1. Line(Key(j)).month = orders[j].month /\ Line(Key(j)).region = orders[j].region
    BY DEF Key
  <2>2. /\ Line(Key(j)).order_count = Cardinality(revenue[Key(j)])
        /\ Line(Key(j)).amount = Turnover(orders, revenue[Key(j)])
    OBVIOUS
  <2> HIDE DEF Line
  <2>3. Of(Line(Key(j))) = {k \in DOMAIN orders : Key(k) = Key(j)}
    BY <2>1 DEF Of, Key
  <2>4. revenue[Key(j)] = {k \in DOMAIN orders : Key(k) = Key(j)}
    BY <1>2
  <2> QED  BY <2>2, <2>3, <2>4
<1> HIDE DEF Line
<1>4. ASSUME NEW r \in added'
      PROVE  Of(r) # {} /\ r.order_count = Cardinality(Of(r)) /\ r.amount = Turnover(orders, Of(r))
  <2>1. PICK j \in DOMAIN orders : r = Line(Key(j))
    BY <1>1, <1>2
  <2>2. revenue[Key(j)] = Of(r) /\ j \in Of(r)
    BY <1>3, <2>1
  <2>3. r.order_count = Cardinality(revenue[Key(j)]) /\ r.amount = Turnover(orders, revenue[Key(j)])
    BY <1>3, <2>1
  <2> QED  BY <2>2, <2>3
<1>5. ASSUME NEW k \in DOMAIN orders
      PROVE  \E r \in added' : k \in Of(r)
  BY <1>1, <1>2, <1>3
<1>6. \A r : Of(r)' = Of(r)
  BY <1>1 DEF Of
<1> QED  BY <1>1, <1>4, <1>5, <1>6 DEF Reported

\* Selling is done by itself: every other loop leaves the ledger alone.
Selling == {"customers", "allocation", "remainder", "dates", "orders", "revenue", "targets"}
Trading ==
    \/ AddProduct \/ AddCustomer \/ Allot \/ HandOut \/ Allocate_dates \/ DrawDate \/ StartOrders
    \/ AddOrder \/ ReportRevenue \/ SetTargets

LEMMA Aside ==
  ASSUME item \in Nat, Recording, ~ Trading
  PROVE  UNCHANGED ledger /\ stage \notin Selling /\ stage' \notin Selling
<1>1. CASE Enrol
  BY <1>1 DEF Enrol, Selling
<1>2. CASE AddProfile
  BY <1>2 DEF AddProfile, Loop, Selling
<1>3. CASE RequestLeave
  BY <1>3 DEF RequestLeave, Loop, Selling
<1>4. CASE Attend
  BY <1>4 DEF Attend, Loop, Selling
<1>5. CASE Train
  BY <1>5 DEF Train, Loop, Selling
<1>6. CASE Review
  BY <1>6 DEF Review, Loop, Selling
<1>7. CASE AddExpense
  BY <1>7 DEF AddExpense, Loop, Selling
<1>8. CASE SetBudgets
  BY <1>8 DEF SetBudgets, Selling
<1>9. CASE Introduce
  BY <1>9 DEF Introduce, Selling
<1>10. CASE PublishNews
  BY <1>10 DEF PublishNews, Loop, Selling
<1>11. CASE Advertise
  BY <1>11 DEF Advertise, Loop, Selling
<1>12. CASE WritePolicy \/ FilePayroll \/ Compare \/ WriteContract \/ PublishAbout
  <2>1. /\ stage \in {"policies", "payroll", "comparison", "contracts", "about"}
        /\ stage' \in {"policies", "payroll", "comparison", "contracts", "leaders", "about", "recorded", "failed"}
    BY <1>12, LegalPlaces
  <2>2. UNCHANGED ledger
    BY <1>12 DEF WritePolicy, FilePayroll, Compare, WriteContract, PublishAbout, add_document
  <2> QED  BY <2>1, <2>2 DEF Selling
<1> QED
  BY <1>1, <1>2, <1>3, <1>4, <1>5, <1>6, <1>7, <1>8, <1>9, <1>10, <1>11, <1>12
  DEF Recording, Trading

-----------------------------------------------------------------------------
(* The dates of the rows.                                                  *)

Timely(r) ==
    r.table \in DatedTables => \A d \in r.dates :
        /\ d \in history_start .. history_end /\ d >= r.parent
        /\ r.table = "attendance_records" => d >= att_start
Sold(r) == r.table \in {"orders", "invoices"}
Quarterly(r) == r.table \in {"sales_targets", "budgets"}
Other(r) == ~ Sold(r) /\ ~ Quarterly(r)

LEMMA LeaveTimely ==
  ASSUME RequestLeave
  PROVE  \A r \in added' : Timely(r) /\ Other(r)
<1>1. PICK hired \in HireDates :
        LET earliest == Later(history_start, hired)
            span == history_end - earliest
        IN  IF span <= 5 THEN added' = {}
            ELSE \E start \in Draw(earliest, earliest + span - 5), length \in Draw(1, 5) :
                    added' = {ByManager(InTurn(requestable, item), "leave_requests",
                                       {start, start + length - 1}, hired)}
  BY DEF RequestLeave
<1>2. /\ hired \in Int /\ hired + 4 * Month <= history_end /\ Month \in Nat \ {0}
      /\ history_start \in Int /\ history_end \in Int
  BY LongBefore, Windows
<1> DEFINE earliest == Later(history_start, hired)
           span == history_end - earliest
<1>3. earliest \in Int /\ history_start <= earliest /\ hired <= earliest /\ span \in Int
  BY <1>2, Between
<1>4. CASE span <= 5
  BY <1>1, <1>4
<1>5. CASE ~ (span <= 5)
  <2>1. PICK start \in Draw(earliest, earliest + span - 5), length \in Draw(1, 5) :
          added' = {ByManager(InTurn(requestable, item), "leave_requests",
                              {start, start + length - 1}, hired)}
    BY <1>1, <1>5
  <2>2. start \in Int /\ earliest <= start /\ start <= history_end - 5
    <3>1. earliest + span - 5 = history_end - 5 /\ history_end - 5 \in Int
      BY <1>2, <1>3
    <3>2. start \in Draw(earliest, history_end - 5)
      BY <2>1, <3>1
    <3> HIDE DEF earliest
    <3> QED  BY <1>3, <3>1, <3>2, Drawn
  <2>3. length \in Int /\ 1 <= length /\ length <= 5
    BY <2>1, Drawn
  <2> HIDE DEF earliest, span
  <2>4. \A d \in {start, start + length - 1} : d \in history_start .. history_end /\ d >= hired
    BY <1>2, <1>3, <2>2, <2>3
  <2>5. \A r \in added' : r.table = "leave_requests" /\ r.dates = {start, start + length - 1} /\ r.parent = hired
    BY <2>1 DEF ByManager
  <2> QED  BY <2>4, <2>5 DEF Timely, Other, Sold, Quarterly
<1> QED  BY <1>4, <1>5

LEMMA AttendanceTimely ==
  ASSUME Attend
  PROVE  \A r \in added' : Timely(r) /\ Other(r)
<1>1. PICK hired \in HireDates, country \in COUNTRIES, type \in EMPLOYMENT_TYPES :
        added' = IF type = "CONTRACT" THEN {}
                 ELSE {Dated("attendance_records", {d}, hired) :
                         d \in working_days_between(Later(att_start, hired), history_end, country)}
  BY DEF Attend
<1>2. /\ hired \in Int /\ history_start \in Int /\ history_end \in Int
      /\ att_start \in Int /\ history_start <= att_start
  BY LongBefore, Windows
<1>3. PICK from \in Int : from = Later(att_start, hired) /\ att_start <= from /\ hired <= from
  BY <1>2, Between
<1>4. ASSUME NEW r \in added'
      PROVE  \E d \in from .. history_end :
                r.table = "attendance_records" /\ r.dates = {d} /\ r.parent = hired
  BY <1>1, <1>3 DEF Dated, working_days_between
<1> QED  BY <1>2, <1>3, <1>4 DEF Timely, Other, Sold, Quarterly

LEMMA TrainingTimely ==
  ASSUME Train
  PROVE  \A r \in added' : Timely(r) /\ Other(r)
<1>1. PICK hired \in HireDates : \E day \in Draw(hired + Month, hired + 30 * Month) :
        added' = {Dated("training_records", {Earlier(Later(day, history_start), history_end)}, hired)}
  BY DEF Train
<1>2. /\ hired \in Int /\ hired + 4 * Month <= history_end /\ Month \in Nat \ {0}
      /\ history_start \in Int /\ history_end \in Int /\ history_start + 24 * Month <= history_end + 1
  BY LongBefore, Windows
<1>3. PICK day \in Draw(hired + Month, hired + 30 * Month) :
        added' = {Dated("training_records", {Earlier(Later(day, history_start), history_end)}, hired)}
  BY <1>1
<1>4. day \in Int /\ hired + Month <= day
  <2> PICK a \in Int, b \in Int : a = hired + Month /\ b = hired + 30 * Month
    BY <1>2
  <2>1. day \in Draw(a, b)
    BY <1>3
  <2> QED  BY <2>1, Drawn
<1>5. PICK l \in Int : l = Later(day, history_start) /\ day <= l /\ history_start <= l
  BY <1>2, <1>4, Between
<1>6. PICK e \in Int : e = Earlier(l, history_end) /\ e <= history_end /\ e \in {l, history_end}
  BY <1>2, <1>5, Between
<1>7. e \in history_start .. history_end /\ e >= hired
  BY <1>2, <1>4, <1>5, <1>6
<1>8. \A r \in added' : r.table = "training_records" /\ r.dates = {e} /\ r.parent = hired
  BY <1>3, <1>5, <1>6 DEF Dated
<1> QED  BY <1>7, <1>8 DEF Timely, Other, Sold, Quarterly

LEMMA ReviewTimely ==
  ASSUME Review
  PROVE  \A r \in added' : Timely(r) /\ Other(r)
<1>1. PICK hired \in HireDates :
        added' = IF users[item + 1].manager = Nobody THEN {}
                 ELSE {ByManager(item + 1, "performance_reviews", {c[1], c[2]}, hired) :
                         c \in {c \in cycles : hired <= c[1]}}
  BY DEF Review
<1>2. /\ hired \in Int /\ Month \in Nat \ {0}
      /\ history_start \in Int /\ history_end \in Int /\ history_start + 24 * Month <= history_end + 1
      /\ history_end = 24318 * Month - 1
  BY LongBefore, Windows
<1>3. \A c \in cycles : /\ c[1] \in Int /\ c[2] \in Int /\ c[1] <= c[2]
                        /\ history_start <= c[1] /\ c[2] <= history_end
  BY <1>2 DEF cycles, First
<1>4. ASSUME NEW r \in added'
      PROVE  \E c \in cycles : /\ hired <= c[1]
                /\ r.table = "performance_reviews" /\ r.dates = {c[1], c[2]} /\ r.parent = hired
  BY <1>1 DEF ByManager
<1>5. ASSUME NEW r \in added'
      PROVE  Timely(r) /\ Other(r)
  <2>1. PICK c \in cycles : /\ hired <= c[1]
                /\ r.table = "performance_reviews" /\ r.dates = {c[1], c[2]} /\ r.parent = hired
    BY <1>4
  <2>2. PICK a \in Int, b \in Int : /\ a = c[1] /\ b = c[2] /\ a <= b
                                    /\ history_start <= a /\ b <= history_end
    BY <1>3
  <2>3. \A d \in {a, b} : d \in history_start .. history_end /\ d >= hired
    BY <1>2, <2>1, <2>2
  <2> QED  BY <2>1, <2>2, <2>3 DEF Timely, Other, Sold, Quarterly
<1> QED  BY <1>5

\* Bears no date, and is about no quarter.
Bare(r) == r.table \notin DatedTables \cup {"sales_targets", "budgets"}

LEMMA DatelessRows ==
  ASSUME NEW r, Bare(r)
  PROVE  Timely(r) /\ Other(r)
  BY DEF Timely, Other, Sold, Quarterly, DatedTables, Bare

LEMMA ExpenseTimely ==
  ASSUME AddExpense \/ PublishNews
  PROVE  \A r \in added' : Timely(r) /\ Other(r)
<1>1. history_start \in Int /\ history_end \in Int
  BY Windows
<1>2. ASSUME NEW r \in added'
      PROVE  /\ r.table \in {"expenses", "news_items"} /\ r.parent = history_start
             /\ \E day \in Draw(history_start, history_end) : r.dates = {day}
  BY DEF AddExpense, PublishNews
<1>3. \A day \in Draw(history_start, history_end) : day \in history_start .. history_end /\ day >= history_start
  BY <1>1, Drawn
<1> QED  BY <1>2, <1>3 DEF Timely, Other, Sold, Quarterly

LEMMA VacancyTimely ==
  ASSUME Advertise
  PROVE  \A r \in added' : Timely(r) /\ Other(r)
<1>1. /\ history_start \in Int /\ history_end \in Int /\ Month \in Nat \ {0}
      /\ history_start + 24 * Month <= history_end + 1
  BY Windows, DatasetAssumption
<1>2. PICK age \in Draw(5, 4 * Month) : added' = {Dated("vacancies", {history_end - age}, history_start)}
  BY DEF Advertise
<1>3. age \in Int /\ 5 <= age /\ age <= 4 * Month
  <2> PICK a \in Int, b \in Int : a = 5 /\ b = 4 * Month
    BY <1>1
  <2>1. age \in Draw(a, b)
    BY <1>2
  <2> QED  BY <2>1, Drawn
<1>4. history_end - age \in history_start .. history_end /\ history_end - age >= history_start
  BY <1>1, <1>3
<1>5. \A r \in added' : r.table = "vacancies" /\ r.dates = {history_end - age} /\ r.parent = history_start
  BY <1>2 DEF Dated
<1> QED  BY <1>4, <1>5 DEF Timely, Other, Sold, Quarterly

\* The customer and the date an order is made of.
LEMMA InTheList ==
  ASSUME NEW S, NEW s \in Seq(S), s # << >>, NEW n \in Nat
  PROVE  At(s, n) \in S
<1>1. PICK l \in Nat \ {0} : l = Len(s)
  BY Row
<1>2. n % l \in 0 .. l - 1
  BY <1>1
<1>3. (n % l) + 1 \in DOMAIN s
  BY <1>1, <1>2, Row
<1> QED  BY <1>1, <1>3, Row DEF At

LEMMA OrderTimely ==
  ASSUME SharesInv, item \in Nat, stage = "orders", item < Wanted, AddOrder
  PROVE  /\ \A r \in added' : Timely(r) /\ ~ Quarterly(r)
         /\ \A r, s \in added' : r.amount = s.amount
<1>1. PICK customer, day, sum, order, key : \E delay \in Draw(0, 5) :
            /\ customer = At(customers, item)
            /\ day = Earlier(Later(order_dates[item + 1], customer.since), history_end)
            /\ key = <<order.month, order.region>> /\ orders' = Append(orders, order)
            /\ revenue' = IF key \in DOMAIN revenue THEN [revenue EXCEPT ![key] = @ \cup {item + 1}]
                          ELSE With(revenue, key, {item + 1})
            /\ added' = {Charged("orders", day, customer.since, sum),
                         Charged("invoices", Earlier(day + delay, history_end), day, sum)}
  BY OrderMade
<1>2. PICK delay \in Draw(0, 5) :
        added' = {Charged("orders", day, customer.since, sum),
                  Charged("invoices", Earlier(day + delay, history_end), day, sum)}
  BY <1>1
<1>3. /\ customer = At(customers, item)
      /\ day = Earlier(Later(order_dates[item + 1], customer.since), history_end)
  BY <1>1
<1>4. /\ customers \in Seq(Customer) /\ customers # << >>
      /\ order_dates \in Seq(history_start .. history_end) /\ Len(order_dates) = Wanted
  BY DEF SharesInv
<1>5. /\ history_start \in Int /\ history_end \in Int /\ Month \in Nat \ {0} /\ history_start <= history_end
  <2>1. /\ history_start \in Int /\ history_end \in Int /\ Month \in Nat \ {0}
        /\ history_start + 24 * Month <= history_end + 1
    BY Windows, DatasetAssumption
  <2> QED  BY <2>1
<1>6. customer.since \in Int /\ customer.since <= history_end
  <2>1. customer \in Customer
    BY <1>3, <1>4, InTheList
  <2>2. customer.since \in SinceDates
    BY <2>1 DEF Customer
  <2> PICK d \in SinceDates : d = customer.since
    BY <2>2
  <2>3. d \in Int /\ d + 2 * Month <= history_end
    BY LongBefore
  <2> QED  BY <1>5, <2>3
<1>7. order_dates[item + 1] \in history_start .. history_end
  <2>1. Wanted \in Nat
    BY <1>4, Row
  <2>2. item + 1 \in 1 .. Len(order_dates)
    BY <1>4, <2>1
  <2> QED  BY <1>4, <2>2, Row
<1>8. PICK l \in Int : /\ l = Later(order_dates[item + 1], customer.since)
                       /\ history_start <= l /\ customer.since <= l /\ l <= history_end
  <2> PICK a \in Int : a = order_dates[item + 1] /\ history_start <= a /\ a <= history_end
    BY <1>5, <1>7
  <2> PICK b \in Int : b = customer.since /\ b <= history_end
    BY <1>6
  <2>1. Later(a, b) \in Int /\ Later(a, b) >= a /\ Later(a, b) >= b /\ Later(a, b) \in {a, b}
    BY Between
  <2> QED  BY <1>5, <2>1
<1>9. day \in Int /\ history_start <= day /\ day <= history_end /\ customer.since <= day
  <2>1. Earlier(l, history_end) \in {l, history_end} /\ Earlier(l, history_end) <= history_end
    BY <1>5, <1>8, Between
  <2> QED  BY <1>3, <1>5, <1>6, <1>8, <2>1
<1>10. PICK e \in Int : /\ e = Earlier(day + delay, history_end)
                        /\ day <= e /\ e <= history_end
  <2>1. delay \in Int /\ 0 <= delay
    <3> PICK a \in Int, b \in Int : a = 0 /\ b = 5
      OBVIOUS
    <3>1. delay \in Draw(a, b)
      BY <1>2
    <3> QED  BY <3>1, Drawn
  <2> PICK f \in Int : f = day + delay /\ day <= f
    BY <1>9, <2>1
  <2>2. Earlier(f, history_end) \in {f, history_end} /\ Earlier(f, history_end) <= history_end
    BY <1>5, Between
  <2> QED  BY <1>5, <1>9, <2>2
<1>11. ASSUME NEW r \in added'
       PROVE  /\ r.amount = sum
              /\ \/ r.table = "orders" /\ r.dates = {day} /\ r.parent = customer.since
                 \/ r.table = "invoices" /\ r.dates = {e} /\ r.parent = day
  BY <1>2, <1>10 DEF Charged
<1>12. day \in history_start .. history_end /\ e \in history_start .. history_end
  BY <1>5, <1>9, <1>10
<1>13. ASSUME NEW r \in added'
       PROVE  Timely(r) /\ ~ Quarterly(r)
  <2>1. CASE r.table = "orders" /\ r.dates = {day} /\ r.parent = customer.since
    BY <1>6, <1>9, <1>12, <2>1 DEF Timely, Quarterly
  <2>2. CASE r.table = "invoices" /\ r.dates = {e} /\ r.parent = day
    BY <1>9, <1>10, <1>12, <2>2 DEF Timely, Quarterly
  <2> QED  BY <1>11, <2>1, <2>2
<1> QED  BY <1>11, <1>13

\* Whatever else is added bears no date.
LEMMA UndatedRows ==
  ASSUME Enrol \/ AddProfile \/ AddProduct \/ AddCustomer \/ Allot \/ HandOut \/ Allocate_dates
         \/ DrawDate \/ StartOrders \/ ReportRevenue \/ Introduce
  PROVE  \A r \in added' : Timely(r) /\ Other(r)
<1> SUFFICES \A r \in added' : Bare(r)
  BY DatelessRows
<1>1. CASE Enrol
  BY <1>1 DEF Enrol, DatedTables, Bare
<1>2. CASE AddProfile
  <2>1. \A r \in added' : r.table \in {"employee_profiles", "leave_balances"}
    <3>1. \A type, entitlement, used : Balance_row(type, entitlement, used).table = "leave_balances"
      BY DEF Balance_row
    <3>2. PICK country \in COUNTRIES, type \in EMPLOYMENT_TYPES :
             LET annual == entitlement_days(country, type)
                 sick == IF country = "EG" THEN 10 ELSE 12
             IN  \E used \in Draw(0, annual), ill \in Draw(0, sick) :
                    added' = {[table |-> "employee_profiles", user |-> item + 1],
                              Balance_row("ANNUAL", annual, used), Balance_row("SICK", sick, ill)}
      BY <1>2 DEF AddProfile
    <3>3. \E annual, sick, used, ill :
                    added' = {[table |-> "employee_profiles", user |-> item + 1],
                              Balance_row("ANNUAL", annual, used), Balance_row("SICK", sick, ill)}
      BY <3>2
    <3> QED  BY <3>1, <3>3
  <2> QED  BY <2>1 DEF DatedTables, Bare
<1>3. CASE AddProduct \/ Allot \/ HandOut \/ Allocate_dates \/ DrawDate \/ StartOrders
  BY <1>3 DEF AddProduct, Allot, HandOut, Allocate_dates, DrawDate, StartOrders
<1>4. CASE AddCustomer
  BY <1>4 DEF AddCustomer, DatedTables, Bare
<1>5. CASE ReportRevenue
  <2>1. \A r \in added' : r.table = "monthly_revenue"
    BY <1>5 DEF ReportRevenue
  <2> QED  BY <2>1 DEF DatedTables, Bare
<1>6. CASE Introduce
  <2>1. \A r \in added' : r.table = "leadership_profiles"
    BY <1>6 DEF Introduce
  <2> QED  BY <2>1 DEF DatedTables, Bare
<1> QED  BY <1>1, <1>2, <1>3, <1>4, <1>5, <1>6

\* The quarters of targets and budgets, for everybody and every department alike.
Target(rep, q) == [table |-> "sales_targets", user |-> rep, from |-> First(q), until |-> _quarter_end(q)]
Budget(d, q) == [table |-> "budgets", department |-> d, from |-> First(q), until |-> _quarter_end(q)]
Targets(S) == {Target(u, q) : u \in S, q \in _quarters}
Budgets(S) == {Budget(d, q) : d \in S, q \in _quarters}
Quartered == (\E S : added = Targets(S)) \/ (\E S : added = Budgets(S))

LEMMA QuartersFixed ==
  \A S : Targets(S)' = Targets(S) /\ Budgets(S)' = Budgets(S)
<1>1. /\ \A q : First(q)' = First(q) /\ _quarter_end(q)' = _quarter_end(q)
      /\ _quarters' = _quarters
  BY DEF First, _quarter_end, _quarters, Every, Calendar, OpeningMonth, Ym, history_end, reference_date
<1>2. /\ \A u, q : Target(u, q)' = Target(u, q)
      /\ \A u, q : Budget(u, q)' = Budget(u, q)
  BY <1>1 DEF Target, Budget
<1> QED  BY <1>1, <1>2 DEF Targets, Budgets

LEMMA QuarterRows ==
  ASSUME SetTargets \/ SetBudgets
  PROVE  Quartered' /\ \A r \in added' : Timely(r) /\ ~ Sold(r)
<1>1. CASE SetTargets
  <2>1. added' = Targets(reps)
    BY <1>1 DEF SetTargets, Targets, Target
  <2>2. \A r \in added' : r.table = "sales_targets"
    BY <2>1 DEF Targets, Target
  <2>3. \E S : added' = Targets(S)
    BY <2>1
  <2> QED  BY QuartersFixed, <2>2, <2>3 DEF Quartered, Timely, Sold, DatedTables
<1>2. CASE SetBudgets
  <2>1. added' = Budgets(Range(keys))
    BY <1>2 DEF SetBudgets, Budgets, Budget
  <2>2. \A r \in added' : r.table = "budgets"
    BY <2>1 DEF Budgets, Budget
  <2>3. \E S : added' = Budgets(S)
    BY <2>1
  <2> QED  BY QuartersFixed, <2>2, <2>3 DEF Quartered, Timely, Sold, DatedTables
<1> QED  BY <1>1, <1>2

LEMMA PapersUndated ==
  ASSUME NEW name, NEW type, NEW classification, NEW owner, NEW more, NEW loop,
         \A r \in more : Bare(r),
         add_document(name, type, classification, owner, more, loop)
  PROVE  added' = added \/ \A r \in added' : Bare(r)
<1> DEFINE key == <<classification, type, name>>
<1>1. CASE key \in files
  BY <1>1 DEF add_document
<1>2. CASE key \notin files
  <2> DEFINE doc == [table |-> "documents", key |-> key, owner |-> owner, department |-> users[owner].department]
  <2>1. added' = more \cup {doc}
    BY <1>2 DEF add_document
  <2>2. doc.table = "documents"
    OBVIOUS
  <2> HIDE DEF doc
  <2>3. Bare(doc)
    BY <2>2 DEF DatedTables, Bare
  <2> QED  BY <2>1, <2>3
<1> QED  BY <1>1, <1>2

LEMMA LegalUndated ==
  ASSUME WritePolicy \/ FilePayroll \/ Compare \/ WriteContract \/ PublishAbout
  PROVE  added' = added \/ \A r \in added' : Timely(r) /\ Other(r)
<1>1. \E name, type, classification, owner, more, loop :
        /\ \A r \in more : r.table \in {"policy_documents", "contracts", "document_acl"}
        /\ add_document(name, type, classification, owner, more, loop)
  <2>1. CASE WritePolicy
    <3> DEFINE p == At(POLICY_TYPES, item)
               more == {[table |-> "policy_documents", policy |-> p]}
    <3>1. \A r \in more : r.table = "policy_documents"
      OBVIOUS
    <3>2. \E name, type, classification, owner, loop : add_document(name, type, classification, owner, more, loop)
      BY <2>1 DEF WritePolicy
    <3> HIDE DEF more
    <3> QED  BY <3>1, <3>2
  <2>2. CASE FilePayroll \/ PublishAbout
    <3>1. \E name, type, classification, owner, loop : add_document(name, type, classification, owner, {}, loop)
      <4>1. CASE FilePayroll  BY <4>1 DEF FilePayroll
      <4>2. CASE PublishAbout  BY <4>2 DEF PublishAbout
      <4> QED  BY <2>2, <4>1, <4>2
    <3> QED  BY <3>1
  <2>3. CASE Compare
    <3> DEFINE owner == _document_owner("Legal")
               name == <<"compare", item>>
               more == {[table |-> "contracts", name |-> name],
                        [table |-> "document_acl", name |-> name, user |-> owner]}
    <3>1. \A r \in more : r.table \in {"contracts", "document_acl"}
      OBVIOUS
    <3>2. \E type, classification, loop : add_document(name, type, classification, owner, more, loop)
      BY <2>3 DEF Compare
    <3> HIDE DEF more
    <3> QED  BY <3>1, <3>2
  <2>4. CASE WriteContract
    <3> DEFINE name == <<"contract", item>>
               more == {[table |-> "contracts", name |-> name]}
    <3>1. \A r \in more : r.table = "contracts"
      OBVIOUS
    <3>2. \E type, classification, owner, loop : add_document(name, type, classification, owner, more, loop)
      BY <2>4 DEF WriteContract
    <3> HIDE DEF more
    <3> QED  BY <3>1, <3>2
  <2> QED  BY <2>1, <2>2, <2>3, <2>4
<1>2. added' = added \/ \A r \in added' : Bare(r)
  BY <1>1, PapersUndated DEF DatedTables, Bare
<1> QED  BY <1>2, DatelessRows

-----------------------------------------------------------------------------
(* The ledger is kept.                                                     *)

LedgerRows ==
    /\ \A r \in added : Timely(r)
    /\ \A r, s \in added : Sold(r) /\ Sold(s) => r.amount = s.amount
    /\ (\A r \in added : ~ Quarterly(r)) \/ Quartered
    /\ stage = "targets" => Reported

LedgerInv == SharesInv /\ BooksInv /\ LedgerRows

LEMMA LedgerBegins ==
  ASSUME DataInit
  PROVE  LedgerInv
<1>1. /\ stage = "allocate" /\ added = {} /\ customers = << >> /\ order_dates = << >>
      /\ orders = << >> /\ revenue = << >>
  BY DEF DataInit, StaffInit
<1>2. SharesInv
  BY <1>1 DEF SharesInv
<1>3. BooksInv
  <2>1. << >> \in Seq({}) /\ DOMAIN << >> = {}
    OBVIOUS
  <2> QED  BY <1>1, <2>1 DEF BooksInv
<1>4. LedgerRows
  BY <1>1 DEF LedgerRows
<1> QED  BY <1>2, <1>3, <1>4 DEF LedgerInv

\* Outside the loops that sell, the ledger only has to stay as it is.
LEMMA LedgerStays ==
  ASSUME SharesInv, BooksInv, UNCHANGED ledger,
         stage \notin Selling, stage' \notin Selling
  PROVE  SharesInv' /\ BooksInv'
<1>1. UNCHANGED <<order_dates, customers, orders, revenue>>
  BY DEF ledger
<1>2. SharesInv'
  BY <1>1 DEF SharesInv, Selling
<1>3. BooksInv'
  BY <1>1 DEF BooksInv, Key, Selling
<1> QED  BY <1>2, <1>3

LEMMA ShareSteps ==
  ASSUME SharesInv, company \in Company, item \in Nat, Trading
  PROVE  SharesInv'
<1>1. CASE AddProduct
  <2>1. /\ stage = "products" /\ stage' \in {"products", "customers"} /\ UNCHANGED <<order_dates, customers>>
    BY <1>1 DEF AddProduct, Loop
  <2> QED  BY <2>1 DEF SharesInv
<1>2. CASE AddCustomer
  <2>1. /\ stage = "customers" /\ stage' \in {"customers", "allocation"} /\ order_dates' = order_dates
    BY <1>2 DEF AddCustomer, Loop
  <2>2. PICK since \in SinceDates, region \in REGIONS :
          customers' = Append(customers, [since |-> since, region |-> region])
    BY <1>2 DEF AddCustomer
  <2>3. PICK c \in Customer : c = [since |-> since, region |-> region]
    BY <2>2 DEF Customer
  <2>4. customers' \in Seq(Customer) /\ customers' # << >>
    BY <2>2, <2>3, Longer DEF SharesInv
  <2> QED  BY <2>1, <2>4 DEF SharesInv
<1>3. CASE AddOrder
  <2>1. Loop("orders", Wanted, "revenue")
    BY <1>3, OrderTurn DEF Wanted
  <2>2. stage = "orders" /\ stage' \in {"orders", "revenue"} /\ company' = company
    BY <2>1, LoopTurns
  <2>3. UNCHANGED <<quota, order_dates, customers>>
    BY <1>3, Zenon DEF AddOrder
  <2>4. Wanted' = Wanted
    BY <2>2 DEF Wanted
  <2> QED  BY <2>2, <2>3, <2>4 DEF SharesInv
<1>4. CASE ReportRevenue
  <2>1. stage = "revenue" /\ stage' = "targets" /\ UNCHANGED <<order_dates, customers>>
    BY <1>4, RevenueTurn DEF ledger
  <2> QED  BY <2>1 DEF SharesInv
<1>5. CASE SetTargets
  <2>1. stage' = "expenses" /\ customers' = << >> /\ order_dates' = << >>
    BY <1>5 DEF SetTargets
  <2> QED  BY <2>1 DEF SharesInv
<1> QED
  BY <1>1, <1>2, <1>3, <1>4, <1>5, AllotStep, HandOutStep, AllocateStep, DrawDateStep, StartOrdersStep
  DEF Trading

LEMMA BookSteps ==
  ASSUME BooksInv, PlaceInv, item \in Nat, Trading
  PROVE  BooksInv'
<1>1. CASE AddProduct \/ AddCustomer \/ Allot \/ HandOut \/ Allocate_dates \/ DrawDate \/ StartOrders
  <2>1. UNCHANGED <<orders, revenue>>
    BY <1>1 DEF AddProduct, AddCustomer, Allot, HandOut, Allocate_dates, DrawDate, StartOrders, ledger
  <2>2. stage \in {"products", "customers", "allocation", "remainder", "dates"}
    BY <1>1 DEF AddProduct, AddCustomer, Allot, HandOut, Allocate_dates, DrawDate, StartOrders, Loop
  <2>3. stage' = "orders" => item' = 0
    <3>1. CASE StartOrders
      BY <3>1 DEF StartOrders, PlaceInv
    <3>2. CASE AddProduct \/ AddCustomer \/ Allot \/ HandOut \/ Allocate_dates \/ DrawDate
      BY <3>2 DEF AddProduct, AddCustomer, Allot, HandOut, Allocate_dates, DrawDate, Loop
    <3> QED  BY <1>1, <3>1, <3>2
  <2>4. orders = << >> /\ revenue = << >> /\ Len(orders) = 0
    BY <2>2 DEF BooksInv
  <2> QED  BY <2>1, <2>3, <2>4 DEF BooksInv, Key
<1>2. CASE AddOrder
  <2>1. PICK customer, day, sum, order, key : \E delay \in Draw(0, 5) :
            /\ customer = At(customers, item)
            /\ day = Earlier(Later(order_dates[item + 1], customer.since), history_end)
            /\ key = <<order.month, order.region>> /\ orders' = Append(orders, order)
            /\ revenue' = IF key \in DOMAIN revenue THEN [revenue EXCEPT ![key] = @ \cup {item + 1}]
                          ELSE With(revenue, key, {item + 1})
            /\ added' = {Charged("orders", day, customer.since, sum),
                         Charged("invoices", Earlier(day + delay, history_end), day, sum)}
    BY <1>2, OrderMade
  <2>2. Loop("orders", Volume[company].orders, "revenue")
    BY <1>2, OrderTurn
  <2>3. stage = "orders" /\ (stage' = "revenue" \/ (stage' = "orders" /\ item' = item + 1))
    BY <2>2, LoopTurns
  <2>4. /\ \E S : orders' \in Seq(S)
        /\ Len(orders') = item + 1
        /\ DOMAIN revenue' = {Key(k)' : k \in DOMAIN orders'}
        /\ \A l \in DOMAIN revenue' : revenue'[l] = {k \in DOMAIN orders' : Key(k)' = l}
    BY <2>1, <2>3, Filed
  <2> QED  BY <2>3, <2>4 DEF BooksInv
<1>3. CASE ReportRevenue
  <2>1. stage = "revenue" /\ stage' = "targets" /\ UNCHANGED <<orders, revenue>>
    BY <1>3, RevenueTurn DEF ledger
  <2> QED  BY <2>1 DEF BooksInv, Key
<1>4. CASE SetTargets
  <2>1. stage' = "expenses" /\ orders' = << >> /\ revenue' = << >>
    BY <1>4 DEF SetTargets
  <2>2. << >> \in Seq({}) /\ DOMAIN << >> = {}
    OBVIOUS
  <2> QED  BY <2>1, <2>2 DEF BooksInv
<1> QED  BY <1>1, <1>2, <1>3, <1>4 DEF Trading

LEMMA TimelyStays ==
  ASSUME NEW r
  PROVE  Timely(r)' = Timely(r) /\ Sold(r)' = Sold(r) /\ Quarterly(r)' = Quarterly(r)
<1>1. /\ history_start' = history_start /\ history_end' = history_end /\ att_start' = att_start
  BY DEF history_start, history_end, att_start, reference_date, ShiftMonths, First
<1> QED  BY <1>1 DEF Timely, Sold, Quarterly

LEMMA QuartersStay ==
  ASSUME added' = added
  PROVE  Quartered' = Quartered
  BY QuartersFixed DEF Quartered

\* The rows of a step: dated in time, and of the same amount where they are sold.
LEMMA RowsInTheLedger ==
  ASSUME SharesInv, PlaceInv, item \in Nat, LedgerRows, Recording
  PROVE  /\ \A r \in added' : Timely(r)
         /\ \A r, s \in added' : Sold(r) /\ Sold(s) => r.amount = s.amount
         /\ (\A r \in added' : ~ Quarterly(r)) \/ Quartered'
<1>1. CASE AddOrder
  <2>1. stage = "orders" /\ item < Wanted
    <3>1. Loop("orders", Volume[company].orders, "revenue")
      BY <1>1, OrderTurn
    <3>2. stage = "orders"
      BY <3>1, LoopTurns
    <3> QED  BY <3>2 DEF PlaceInv, Wanted
  <2> QED  BY <1>1, <2>1, OrderTimely
<1>2. CASE WritePolicy \/ FilePayroll \/ Compare \/ WriteContract \/ PublishAbout
  <2>1. added' = added \/ \A r \in added' : Timely(r) /\ Other(r)
    BY <1>2, LegalUndated
  <2>2. added' = added => Quartered' = Quartered
    BY QuartersStay
  <2> QED  BY <2>1, <2>2 DEF LedgerRows, Other
<1>3. CASE RequestLeave \/ Attend \/ Train \/ Review
  BY <1>3, LeaveTimely, AttendanceTimely, TrainingTimely, ReviewTimely DEF Other
<1>4. CASE AddExpense \/ PublishNews \/ Advertise
  BY <1>4, ExpenseTimely, VacancyTimely DEF Other
<1>5. CASE Enrol \/ AddProfile \/ AddProduct \/ AddCustomer \/ Allot \/ HandOut \/ Allocate_dates
         \/ DrawDate \/ StartOrders \/ ReportRevenue \/ Introduce
  BY <1>5, UndatedRows DEF Other
<1>6. CASE SetTargets \/ SetBudgets
  BY <1>6, QuarterRows
<1> QED  BY <1>1, <1>2, <1>3, <1>4, <1>5, <1>6 DEF Recording

\* Only the revenue leads to the targets.
LEMMA TargetsFollow ==
  ASSUME item \in Nat, Recording, stage' = "targets"
  PROVE  ReportRevenue
<1>1. CASE Trading
  <2>1. ~ (AddProduct \/ AddCustomer \/ Allot \/ HandOut \/ Allocate_dates \/ DrawDate \/ StartOrders \/ SetTargets)
    BY DEF AddProduct, AddCustomer, Allot, HandOut, Allocate_dates, DrawDate, StartOrders, SetTargets, Loop
  <2>2. ~ AddOrder
    BY OrderTurn, LoopTurns
  <2> QED  BY <1>1, <2>1, <2>2 DEF Trading
<1>2. CASE ~ Trading
  BY <1>2, Aside DEF Selling
<1> QED  BY <1>1, <1>2

LEMMA LedgerKept ==
  ASSUME StaffInv, PlaceInv, LedgerInv, [DataNext]_dataVars
  PROVE  LedgerInv'
<1>0. item \in Nat /\ company \in Company
  BY DEF StaffInv, StaffTyped
<1>1. CASE Staff
  <2>1. UNCHANGED ledger /\ added' = added /\ stage \notin Selling /\ stage' \notin Selling
    BY <1>1, StaffingPlaces DEF Staff, Selling, StaffStages
  <2>2. SharesInv' /\ BooksInv'
    BY <2>1, LedgerStays DEF LedgerInv
  <2>3. LedgerRows'
    BY <2>1, TimelyStays, QuartersStay DEF LedgerInv, LedgerRows, Selling
  <2> QED  BY <2>2, <2>3 DEF LedgerInv
<1>2. CASE Recording
  <2>1. SharesInv' /\ BooksInv'
    <3>1. CASE Trading
      BY <1>0, <3>1, ShareSteps, BookSteps DEF LedgerInv
    <3>2. CASE ~ Trading
      BY <1>0, <1>2, <3>2, Aside, LedgerStays DEF LedgerInv
    <3> QED  BY <3>1, <3>2
  <2>2. /\ \A r \in added' : Timely(r)
        /\ \A r, s \in added' : Sold(r) /\ Sold(s) => r.amount = s.amount
        /\ (\A r \in added' : ~ Quarterly(r)) \/ Quartered'
    BY <1>0, <1>2, RowsInTheLedger DEF LedgerInv
  <2>3. stage' = "targets" => Reported'
    BY <1>0, <1>2, TargetsFollow, RevenueReported DEF LedgerInv
  <2>4. LedgerRows'
    BY <2>2, <2>3, TimelyStays DEF LedgerRows
  <2> QED  BY <2>1, <2>4 DEF LedgerInv
<1>3. CASE UNCHANGED dataVars
  <2>1. UNCHANGED <<company, stage, item, added, quota, order_dates, customers, orders, revenue>>
    BY <1>3 DEF dataVars, staffVars, request, ledger
  <2>2. SharesInv'
    BY <2>1 DEF LedgerInv, SharesInv, Allotted, Wanted, Shared, WholeShare, Curved
  <2>3. BooksInv'
    BY <2>1 DEF LedgerInv, BooksInv, Key
  <2>4. Reported' = Reported
    BY <2>1 DEF Reported, Of
  <2>5. LedgerRows'
    BY <2>1, <2>4, TimelyStays, QuartersStay DEF LedgerInv, LedgerRows
  <2> QED  BY <2>2, <2>3, <2>5 DEF LedgerInv
<1>4. DataNext => Staff \/ Recording
  BY DEF DataNext, Recording
<1> QED  BY <1>1, <1>2, <1>3, <1>4

-----------------------------------------------------------------------------
(* The quarters.                                                           *)

\* A day comes after the first of a month if its month does not come before it.
LEMMA InMonth ==
  ASSUME NEW d \in Nat, NEW a \in Int
  PROVE  /\ d \div Month \in Nat
         /\ a * Month \in Int
         /\ a * Month <= d <=> a <= d \div Month
<1> PICK n \in Nat \ {0} : n = Month
  BY DatasetAssumption
<1>1. PICK e \in Nat : e = d \div n /\ e * n <= d /\ d < (e + 1) * n
  BY Divided
<1>2. a * n \in Int /\ e * n \in Int /\ (e + 1) * n \in Int
  BY <1>1, Multiples
<1>3. a <= e => a * n <= e * n
  BY <1>1, Multiples
<1>4. a * n < (e + 1) * n => a < e + 1
  BY <1>1, Multiples
<1> QED  BY <1>1, <1>2, <1>3, <1>4

\* The months before the first quarter.
LEMMA FirstQuarter ==
  \E z \in Nat :
    /\ z % 3 = 0 /\ 12 * OpeningMonth[1] <= z /\ z <= 24318 - HISTORY_MONTHS
    /\ _quarters = {m \in Calendar : Ym(m) - 1 >= z /\ (Ym(m) - 1) % 3 = 0 /\ First(m) <= history_end}
<1>1. PICK a \in Nat, b \in 1 .. 12 : a = OpeningMonth[1] /\ b = OpeningMonth[2]
  BY Opened
<1>2. 12 * a + b = 24319 - HISTORY_MONTHS /\ HISTORY_MONTHS \in Nat
  BY <1>1, Opened, MonthsKept DEF Ym
<1>3. PICK z \in Nat : z = 12 * a + ((b - 1) \div 3) * 3
  BY <1>1
<1>4. z % 3 = 0 /\ 12 * a <= z /\ z <= 12 * a + b - 1
  BY <1>1, <1>3
<1>5. Ym(<<OpeningMonth[1], ((OpeningMonth[2] - 1) \div 3) * 3 + 1>>) = z + 1
  <2> PICK c \in Int : c = ((b - 1) \div 3) * 3 + 1
    BY <1>1
  <2>1. Ym(<<a, c>>) = 12 * a + c
    BY DEF Ym
  <2> QED  BY <1>1, <1>3, <2>1
<1>6. ASSUME NEW m \in Calendar
      PROVE  Ym(m) >= z + 1 /\ (Ym(m) - (z + 1)) % 3 = 0 <=> Ym(m) - 1 >= z /\ (Ym(m) - 1) % 3 = 0
  <2> PICK y \in Nat : y = Ym(m)
    BY Calendared
  <2> QED  BY <1>4
<1>7. _quarters = {m \in Calendar : Ym(m) - 1 >= z /\ (Ym(m) - 1) % 3 = 0 /\ First(m) <= history_end}
  BY <1>5, <1>6 DEF _quarters, Every
<1> QED  BY <1>1, <1>2, <1>4, <1>7

\* The days of a quarter are those of three months.
LEMMA QuarterDays ==
  ASSUME NEW m \in Calendar, NEW d \in Nat
  PROVE  d \in First(m) .. _quarter_end(m) <=> Ym(m) - 1 <= d \div Month /\ d \div Month < Ym(m) + 2
<1>1. /\ m[1] \in Nat /\ m[2] \in 1 .. 12 /\ Ym(m) = 12 * m[1] + m[2] /\ Ym(m) \in Nat
      /\ First(m) = (Ym(m) - 1) * Month /\ First(m) \in Int /\ Month \in Nat \ {0}
  <2>1. Ym(m) = 12 * m[1] + m[2]
    BY DEF Ym
  <2>2. Month \in Nat \ {0}
    BY DatasetAssumption
  <2> QED  BY <2>1, <2>2, Calendared
<1>2. PICK y \in Nat : y = Ym(m)
  BY <1>1
<1>3. _quarter_end(m) = (y + 2) * Month - 1
  <2>1. CASE m[2] + 3 > 12
    <3>1. _quarter_end(m) = (12 * (m[1] + 1) + (m[2] + 3 - 12) - 1) * Month - 1
      BY <2>1 DEF _quarter_end, First
    <3>2. 12 * (m[1] + 1) + (m[2] + 3 - 12) - 1 = y + 2
      BY <1>1, <1>2
    <3> QED  BY <3>1, <3>2
  <2>2. CASE ~ (m[2] + 3 > 12)
    <3>1. _quarter_end(m) = (12 * m[1] + (m[2] + 3) - 1) * Month - 1
      BY <2>2 DEF _quarter_end, First
    <3>2. 12 * m[1] + (m[2] + 3) - 1 = y + 2
      BY <1>1, <1>2
    <3> QED  BY <3>1, <3>2
  <2> QED  BY <2>1, <2>2
<1>4. PICK a \in Int, b \in Int : a = y - 1 /\ b = y + 2
  OBVIOUS
<1>5. /\ d \div Month \in Nat /\ a * Month \in Int /\ b * Month \in Int
      /\ a * Month <= d <=> a <= d \div Month
      /\ b * Month <= d <=> b <= d \div Month
  BY InMonth
<1>6. First(m) = a * Month /\ _quarter_end(m) = b * Month - 1
  BY <1>1, <1>2, <1>3, <1>4
<1> QED  BY <1>2, <1>4, <1>5, <1>6

LEMMA OneThird ==
  ASSUME NEW x \in Nat, NEW y \in Nat, NEW e \in Nat, x % 3 = 0, y % 3 = 0, y <= e, e < y + 3
  PROVE  x <= e /\ e < x + 3 <=> x = y
<1>1. PICK a \in Nat : x = 3 * a
  <2>1. x = 3 * (x \div 3) /\ x \div 3 \in Nat
    OBVIOUS
  <2> QED  BY <2>1
<1>2. PICK b \in Nat : y = 3 * b
  <2>1. y = 3 * (y \div 3) /\ y \div 3 \in Nat
    OBVIOUS
  <2> QED  BY <2>1
<1>3. x <= e /\ e < x + 3 => a = b
  BY <1>1, <1>2
<1> QED  BY <1>1, <1>2, <1>3

LEMMA OneQuarter ==
  ASSUME NEW d \in history_start .. history_end
  PROVE  \E q \in _quarters : \A p \in _quarters : d \in First(p) .. _quarter_end(p) <=> p = q
<1>1. /\ history_start \in Int /\ history_end \in Int /\ history_end = 24318 * Month - 1
      /\ HISTORY_MONTHS \in Nat /\ 24 <= HISTORY_MONTHS /\ HISTORY_MONTHS <= 24312
  BY Windows, MonthsKept
<1>2. history_start = (24318 - HISTORY_MONTHS) * Month
  BY Windows
<1>3. PICK z \in Nat :
        /\ z % 3 = 0 /\ 12 * OpeningMonth[1] <= z /\ z <= 24318 - HISTORY_MONTHS
        /\ _quarters = {m \in Calendar : Ym(m) - 1 >= z /\ (Ym(m) - 1) % 3 = 0 /\ First(m) <= history_end}
  BY FirstQuarter
<1>4. PICK h \in Nat : h = 24318 - HISTORY_MONTHS
  BY <1>1
<1>5. d \in Nat
  <2>1. h * Month \in Nat
    BY <1>4, DatasetAssumption
  <2> QED  BY <1>1, <1>2, <1>4, <2>1
<1>6. PICK e \in Nat : e = d \div Month /\ h <= e /\ e <= 24317
  <2>1. h * Month <= d
    BY <1>1, <1>2, <1>4
  <2> PICK t \in Int : t = 24318
    OBVIOUS
  <2>2. t * Month \in Int /\ ~ (t * Month <= d)
    BY <1>1, <1>5, InMonth
  <2>3. d \div Month \in Nat /\ h <= d \div Month /\ ~ (t <= d \div Month)
    BY <1>5, <2>1, <2>2, InMonth
  <2> QED  BY <2>3
<1>7. PICK y \in Nat : y = 3 * (e \div 3) /\ y <= e /\ e < y + 3 /\ y % 3 = 0
  BY <1>6
<1>8. z <= y
  BY <1>3, <1>4, <1>6, <1>7
<1> DEFINE q == <<y \div 12, (y % 12) + 1>>
<1>9. q \in Calendar /\ Ym(q) = y + 1
  <2>1. Ym(q) = y + 1 /\ y \div 12 \in Nat /\ (y % 12) + 1 \in 1 .. 12
    BY MonthOf
  <2>2. OpeningMonth[1] <= y \div 12 /\ y \div 12 <= 2026
    <3> PICK o \in Nat : o = OpeningMonth[1]
      BY Opened
    <3>1. 12 * o <= y /\ y <= 24317
      BY <1>3, <1>6, <1>7, <1>8
    <3>2. o <= y \div 12 /\ y \div 12 <= 2026
      BY <3>1
    <3> QED  BY <3>2
  <2>3. OpeningMonth[1] \in Nat
    BY Opened
  <2>4. y \div 12 \in OpeningMonth[1] .. 2026
    BY <2>1, <2>2, <2>3
  <2> QED  BY <2>1, <2>4 DEF Calendar
<1> HIDE DEF q
<1>10. First(q) <= history_end
  <2>1. First(q) = y * Month
    <3>1. First(q) = (Ym(q) - 1) * Month /\ Ym(q) - 1 = y
      BY <1>9, Calendared
    <3> QED  BY <3>1
  <2>2. y * Month \in Int /\ y * Month <= d
    BY <1>5, <1>6, <1>7, InMonth
  <2> QED  BY <1>1, <2>1, <2>2
<1>11. q \in _quarters
  BY <1>3, <1>7, <1>8, <1>9, <1>10
<1>12. ASSUME NEW p \in _quarters
       PROVE  d \in First(p) .. _quarter_end(p) <=> p = q
  <2>1. p \in Calendar /\ (Ym(p) - 1) % 3 = 0 /\ Ym(p) - 1 >= z
    BY <1>3
  <2>2. PICK x \in Nat : x = Ym(p) - 1 /\ x % 3 = 0
    BY <2>1, Calendared
  <2>3. d \in First(p) .. _quarter_end(p) <=> Ym(p) - 1 <= d \div Month /\ d \div Month < Ym(p) + 2
    BY <1>5, <2>1, QuarterDays
  <2>4. d \in First(p) .. _quarter_end(p) <=> x <= e /\ e < x + 3
    <3>1. Ym(p) + 2 = x + 3
      BY <2>1, <2>2, Calendared
    <3> QED  BY <1>6, <2>2, <2>3, <3>1
  <2>5. x <= e /\ e < x + 3 <=> x = y
    BY <1>6, <1>7, <2>2, OneThird
  <2>6. x = y <=> p = q
    <3>1. x = y => Ym(p) = Ym(q)
      BY <1>9, <2>1, <2>2, Calendared
    <3> QED  BY <1>9, <2>1, <2>2, <3>1, Calendared
  <2> QED  BY <2>4, <2>5, <2>6
<1> QED  BY <1>11, <1>12

LEMMA SameFunction ==
  ASSUME NEW y, NEW z, y = [i \in DOMAIN y |-> y[i]], z = [i \in DOMAIN z |-> z[i]],
         DOMAIN y = DOMAIN z, \A i \in DOMAIN z : y[i] = z[i]
  PROVE  y = z
  OBVIOUS

\* A quarter of somebody, or of a department, moved to another one.
Moved(s, from, until) == [s EXCEPT !.from = from, !.until = until]

LEMMA TargetMoved ==
  ASSUME NEW t, NEW u, NEW a, NEW b, NEW c, NEW e
  PROVE  Moved([table |-> t, user |-> u, from |-> a, until |-> b], c, e)
            = [table |-> t, user |-> u, from |-> c, until |-> e]
<1> DEFINE x == [table |-> t, user |-> u, from |-> a, until |-> b]
           y == [x EXCEPT !.from = c, !.until = e]
           z == [table |-> t, user |-> u, from |-> c, until |-> e]
<1>1. y = [i \in DOMAIN y |-> y[i]] /\ z = [i \in DOMAIN z |-> z[i]]
  OBVIOUS
<1>2. DOMAIN z = {"table", "user", "from", "until"} /\ DOMAIN y = DOMAIN z
  OBVIOUS
<1>3. y.from = c /\ y.until = e /\ y.table = t /\ y.user = u
  OBVIOUS
<1>4. z.from = c /\ z.until = e /\ z.table = t /\ z.user = u
  OBVIOUS
<1> HIDE DEF x, y, z
<1>5. \A i \in DOMAIN z : y[i] = z[i]
  BY <1>2, <1>3, <1>4
<1>6. y = z
  BY <1>1, <1>2, <1>5, SameFunction
<1> QED  BY <1>6 DEF x, y, z, Moved

LEMMA BudgetMoved ==
  ASSUME NEW t, NEW u, NEW a, NEW b, NEW c, NEW e
  PROVE  Moved([table |-> t, department |-> u, from |-> a, until |-> b], c, e)
            = [table |-> t, department |-> u, from |-> c, until |-> e]
<1> DEFINE x == [table |-> t, department |-> u, from |-> a, until |-> b]
           y == [x EXCEPT !.from = c, !.until = e]
           z == [table |-> t, department |-> u, from |-> c, until |-> e]
<1>1. y = [i \in DOMAIN y |-> y[i]] /\ z = [i \in DOMAIN z |-> z[i]]
  OBVIOUS
<1>2. DOMAIN z = {"table", "department", "from", "until"} /\ DOMAIN y = DOMAIN z
  OBVIOUS
<1>3. y.from = c /\ y.until = e /\ y.table = t /\ y.department = u
  OBVIOUS
<1>4. z.from = c /\ z.until = e /\ z.table = t /\ z.department = u
  OBVIOUS
<1> HIDE DEF x, y, z
<1>5. \A i \in DOMAIN z : y[i] = z[i]
  BY <1>2, <1>3, <1>4
<1>6. y = z
  BY <1>1, <1>2, <1>5, SameFunction
<1> QED  BY <1>6 DEF x, y, z, Moved

\* Whoever's quarters they are, a day of the window is in one.
LEMMA QuartersTileDays ==
  ASSUME Quartered \/ \A r \in added : ~ Quarterly(r)
  PROVE  Tiled
<1> SUFFICES ASSUME Quartered, NEW r \in added, NEW d \in history_start .. history_end
             PROVE  Cardinality({s \in {s \in added : [s EXCEPT !.from = r.from, !.until = r.until] = r} :
                                    d \in s.from .. s.until}) = 1
  BY DEF Tiled, Rows, Quarterly
<1> DEFINE Renewed(s) == [s EXCEPT !.from = r.from, !.until = r.until]
           Covers(s) == d \in s.from .. s.until
           Covering == {s \in {s \in added : Renewed(s) = r} : Covers(s)}
<1>1. PICK q \in _quarters : \A p \in _quarters : d \in First(p) .. _quarter_end(p) <=> p = q
  BY OneQuarter
<1>2. ASSUME NEW S, added = Targets(S)
      PROVE  \E s : Covering = {s}
  <2>1. PICK u \in S, o \in _quarters : r = Target(u, o)
    BY <1>2 DEF Targets
  <2>2. ASSUME NEW v \in S, NEW p \in _quarters
        PROVE  Renewed(Target(v, p)) = r <=> v = u
    <3>1. r.from = First(o) /\ r.until = _quarter_end(o)
      BY <2>1 DEF Target
    <3>2. Renewed(Target(v, p)) = Target(v, o)
      <4>1. PICK t, a, b, c, e : /\ t = "sales_targets" /\ a = First(p) /\ b = _quarter_end(p)
                                 /\ c = First(o) /\ e = _quarter_end(o)
        OBVIOUS
      <4>2. /\ Target(v, p) = [table |-> t, user |-> v, from |-> a, until |-> b]
            /\ Target(v, o) = [table |-> t, user |-> v, from |-> c, until |-> e]
        BY <4>1 DEF Target
      <4>3. r.from = c /\ r.until = e
        BY <3>1, <4>1
      <4>4. Renewed(Target(v, p)) = Moved(Target(v, p), c, e)
        BY <4>3 DEF Moved
      <4>5. Moved([table |-> t, user |-> v, from |-> a, until |-> b], c, e)
              = [table |-> t, user |-> v, from |-> c, until |-> e]
        BY TargetMoved
      <4> QED  BY <4>2, <4>4, <4>5, Zenon
    <3>3. Target(v, o) = Target(u, o) <=> v = u
      BY DEF Target
    <3> QED  BY <2>1, <3>2, <3>3
  <2>3. ASSUME NEW v \in S, NEW p \in _quarters
        PROVE  Covers(Target(v, p)) <=> p = q
    BY <1>1 DEF Target
  <2>4. \A v \in S, p \in _quarters : Target(v, p) \in added
    BY <1>2 DEF Targets
  <2>5. \A s \in added : \E v \in S, p \in _quarters : s = Target(v, p)
    BY <1>2 DEF Targets
  <2> HIDE DEF Renewed, Covers
  <2>6. Covering = {Target(u, q)}
    BY <1>1, <2>1, <2>2, <2>3, <2>4, <2>5
  <2> QED  BY <2>6
<1>3. ASSUME NEW S, added = Budgets(S)
      PROVE  \E s : Covering = {s}
  <2>1. PICK u \in S, o \in _quarters : r = Budget(u, o)
    BY <1>3 DEF Budgets
  <2>2. ASSUME NEW v \in S, NEW p \in _quarters
        PROVE  Renewed(Budget(v, p)) = r <=> v = u
    <3>1. r.from = First(o) /\ r.until = _quarter_end(o)
      BY <2>1 DEF Budget
    <3>2. Renewed(Budget(v, p)) = Budget(v, o)
      <4>1. PICK t, a, b, c, e : /\ t = "budgets" /\ a = First(p) /\ b = _quarter_end(p)
                                 /\ c = First(o) /\ e = _quarter_end(o)
        OBVIOUS
      <4>2. /\ Budget(v, p) = [table |-> t, department |-> v, from |-> a, until |-> b]
            /\ Budget(v, o) = [table |-> t, department |-> v, from |-> c, until |-> e]
        BY <4>1 DEF Budget
      <4>3. r.from = c /\ r.until = e
        BY <3>1, <4>1
      <4>4. Renewed(Budget(v, p)) = Moved(Budget(v, p), c, e)
        BY <4>3 DEF Moved
      <4>5. Moved([table |-> t, department |-> v, from |-> a, until |-> b], c, e)
              = [table |-> t, department |-> v, from |-> c, until |-> e]
        BY BudgetMoved
      <4> QED  BY <4>2, <4>4, <4>5, Zenon
    <3>3. Budget(v, o) = Budget(u, o) <=> v = u
      BY DEF Budget
    <3> QED  BY <2>1, <3>2, <3>3
  <2>3. ASSUME NEW v \in S, NEW p \in _quarters
        PROVE  Covers(Budget(v, p)) <=> p = q
    BY <1>1 DEF Budget
  <2>4. \A v \in S, p \in _quarters : Budget(v, p) \in added
    BY <1>3 DEF Budgets
  <2>5. \A s \in added : \E v \in S, p \in _quarters : s = Budget(v, p)
    BY <1>3 DEF Budgets
  <2> HIDE DEF Renewed, Covers
  <2>6. Covering = {Budget(u, q)}
    BY <1>1, <2>1, <2>2, <2>3, <2>4, <2>5
  <2> QED  BY <2>6
<1> HIDE DEF Covering
<1>4. PICK s : Covering = {s}
  BY <1>2, <1>3 DEF Quartered
<1>5. Cardinality(Covering) = 1
  BY <1>4, FS_Singleton
<1> QED  BY <1>5 DEF Covering

LEMMA LedgerAlways == DataSpec => [](DataInv /\ LedgerInv)
<1>1. DataInit => LedgerInv
  BY LedgerBegins
<1>2. DataInv /\ LedgerInv /\ [DataNext]_dataVars => LedgerInv'
  BY LedgerKept DEF DataInv
<1> QED
  BY <1>1, <1>2, DataInvAlways, PTL DEF DataSpec

\* Whatever bears a date bears one in the window, and none before the hire, the
\* customer or the order it is about.
THEOREM RowsInTime == DataSpec => []InTime
<1>1. LedgerInv => InTime
  BY DEF LedgerInv, LedgerRows, Timely, InTime, Rows
<1> QED
  BY <1>1, LedgerAlways, PTL

\* The revenue reported for a month and a region is what its orders come to, none
\* left out or counted twice, and an invoice says what its order says.
THEOREM RevenueReconciled == DataSpec => []Reconciled
<1>1. LedgerInv => Reconciled
  BY DEF LedgerInv, LedgerRows, Sold, Reported, Of, Reconciled, Rows
<1> QED
  BY <1>1, LedgerAlways, PTL

\* There is a date for every order, and no month gets fewer orders than one the
\* curve puts below it, whatever is left to hand out after the division.
THEOREM OrdersFollowCurve == DataSpec => []CurveFollowed
<1>1. DataInv /\ LedgerInv => CurveFollowed
  <2> SUFFICES ASSUME DataInv, LedgerInv
               PROVE  CurveFollowed
    OBVIOUS
  <2>1. stage = "dates" /\ order_dates = << >> => Allotted = Wanted /\ Curved /\ DOMAIN quota = _month_starts
    <3> SUFFICES ASSUME stage = "dates", order_dates = << >>
                 PROVE  Allotted = Wanted /\ Curved /\ DOMAIN quota = _month_starts
      OBVIOUS
    <3>1. Allotted + Len(order_dates) = Wanted /\ Curved /\ quota \in [_month_starts -> Nat]
      BY DEF LedgerInv, SharesInv
    <3>2. Len(order_dates) = 0
      OBVIOUS
    <3>3. Allotted \in Int
      <4>1. Allotted = SumFunctionOnSet(quota, _month_starts)
        BY <3>1 DEF Allotted, SumFunction
      <4>2. \A y \in _month_starts : quota[y] \in Nat
        BY <3>1
      <4>3. _month_starts \in SUBSET _month_starts
        OBVIOUS
      <4> QED  BY <4>1, <4>2, <4>3, MonthsInside, SumsNest
    <3> QED  BY <3>1, <3>2, <3>3
  <2>2. stage = "orders" => Len(order_dates) = Wanted
    BY DEF LedgerInv, SharesInv
  <2> QED  BY <2>1, <2>2 DEF CurveFollowed, Curved, Wanted
<1> QED
  BY <1>1, LedgerAlways, PTL

\* The quarters of a target or a budget leave no day of the window out and share none.
THEOREM QuartersTile == DataSpec => []Tiled
<1>1. LedgerInv => Tiled
  BY QuartersTileDays DEF LedgerInv, LedgerRows
<1> QED
  BY <1>1, LedgerAlways, PTL

\* What is recorded of a company agrees with the company and with itself.
THEOREM RecordsCoherent == DataSpec => []Coherent
<1> QED
  BY RowsInTime, RevenueReconciled, OrdersFollowCurve, QuartersTile, DocumentsAttributed,
     DecisionsAnswerable, LeaveBalanced, TitlesDistinct, PTL DEF Coherent
=============================================================================
