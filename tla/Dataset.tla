------------------------------ MODULE Dataset -------------------------------
(***************************************************************************)
(* What the seed makes of a staffed company (pipeline.py build_dataset):   *)
(* the rows of hr.py, sales.py, legal.py and public.py, one loop after the *)
(* other.  A day is a number and every month has as many.  A value drawn   *)
(* once and used by several loops (the day of hire) is drawn anew by each; *)
(* amounts are in cents; names and texts are left out.                     *)
(***************************************************************************)
EXTENDS Organization

CONSTANTS
    HISTORY_MONTHS, ATTENDANCE_MONTHS,
    Month,          \* days of a month
    HireDates,      \* days people may be hired on
    SinceDates,     \* days somebody may become a customer on
    Users,          \* company -> users of the full profile
    Volume,         \* company -> how many rows each loop is to make
    Catalog,        \* company -> lowest and highest price of each product
    REGIONS,
    HOLIDAYS,       \* country -> days off
    Titles,         \* department -> titles of vacancies
    Offices,        \* company -> offices in order of code
    MaxLines,       \* bound: lines of an order
    Few             \* bound: of a draw, the few lowest and highest values

First(ym) == (12 * ym[1] + ym[2] - 1) * Month
reference_date == First(<<2026, 7>>) - 1

ASSUME DatasetAssumption ==
    /\ Month \in Nat \ {0} /\ Few \in Nat \ {0} /\ MaxLines \in Nat \ {0}
    /\ HISTORY_MONTHS \in 24 .. 2026 * 12 /\ ATTENDANCE_MONTHS \in 1 .. HISTORY_MONTHS
    /\ HireDates \subseteq Int /\ \A d \in HireDates : d <= reference_date - 4 * Month
    /\ SinceDates \subseteq Int /\ \A d \in SinceDates : d <= reference_date - 2 * Month
    /\ \A c \in Company : Volume[c].orders \in Nat \ {0} /\ Volume[c].public_items \in Nat

\* Of whatever there is a loop for, some are wanted.
ASSUME VolumeAssumption ==
    \A c \in Company :
        /\ Volume[c].leave_requests \in Nat \ {0} /\ Volume[c].training_records \in Nat \ {0}
        /\ Volume[c].products \in Nat \ {0} /\ Volume[c].customers \in Nat \ {0}
        /\ Volume[c].expenses \in Nat \ {0} /\ Volume[c].contracts \in Nat

VARIABLES
    item,           \* where the loop in hand is
    added,          \* the rows the last step added
    quota,          \* month -> orders it has still to get
    order_dates,
    products, customers,
    orders,         \* month, region and total of every order
    revenue,        \* the orders by month and region
    files,          \* storage keys in use
    seen            \* titles and offices of vacancies
ledger == <<quota, order_dates, products, customers, orders, revenue>>
written == <<files, seen>>
staff == <<request, counts, turn, hiring, users, heads>>
dataVars == <<staffVars, item, added, ledger, written>>

-----------------------------------------------------------------------------
\* config.py scaled, in percent; round() takes a half to the even neighbour.
SMOKE == 6
Rounded(n) ==
    LET q == n \div 100 r == n % 100
    IN  IF r > 50 \/ (r = 50 /\ q % 2 = 1) THEN q + 1 ELSE q
Scaled(value, floor) == IF Rounded(value * SMOKE) < floor THEN floor ELSE Rounded(value * SMOKE)

\* clock.py: the windows end on the reference date and open on the first of a month.
ShiftMonths(months) ==
    LET n == 2026 * 12 + 5 - months IN First(<<n \div 12, (n % 12) + 1>>)
history_start == ShiftMonths(HISTORY_MONTHS - 1)
att_start == ShiftMonths(ATTENDANCE_MONTHS - 1)
history_end == reference_date

Later(a, b) == IF a < b THEN b ELSE a
Earlier(a, b) == IF a < b THEN a ELSE b
Draw(low, high) == {d \in low .. high : d - low < Few \/ high - d < Few}
At(s, n) == s[(n % Len(s)) + 1]

\* Of some of the users, in the order they were hired: who comes behind how many,
\* and whose turn it is the n-th time.
Behind(u, some) == Cardinality({v \in some : v < u})
InTurn(some, n) == CHOOSE u \in some : Behind(u, some) = n % Cardinality(some)

\* A row with the dates it bears and the day before which none may be.
Dated(table, dates, parent) == [table |-> table, dates |-> dates, parent |-> parent]
Charged(table, day, parent, amount) ==
    [table |-> table, dates |-> {day}, parent |-> parent, amount |-> amount]

\* One turn of a loop of n, and the loop after it.
Loop(this, n, next) ==
    /\ stage = this
    /\ IF item + 1 < n THEN item' = item + 1 /\ stage' = stage
                       ELSE item' = 0 /\ stage' = next
    /\ UNCHANGED staff

-----------------------------------------------------------------------------
(* organization.py: users, their roles, and the heads, entered last.       *)
Enrol ==
    /\ stage = "built"
    /\ total = Scaled(Users[company], 28)       \* bound: the smoke profile
    /\ added' = {[table |-> "user_roles", user |-> u, roles |-> Roles(u)] : u \in DOMAIN users}
                \cup {[table |-> "departments", name |-> d, head |-> heads[d]] : d \in Range(keys)}
    /\ stage' = "profiles" /\ item' = 0
    /\ UNCHANGED <<staff, ledger, written>>

-----------------------------------------------------------------------------
(* hr.py                                                                   *)
COUNTRIES == {"EG", "AE"}
EMPLOYMENT_TYPES == {"FULL_TIME", "PART_TIME", "CONTRACT"}

\* policies.py: what the leave policy states.
entitlement_days(country, type) ==
    LET base == IF country = "AE" THEN 22 ELSE 21
    IN  IF type = "CONTRACT" THEN 0 ELSE IF type = "PART_TIME" THEN base \div 2 ELSE base

Balance_row(type, entitlement, used) ==
    [table |-> "leave_balances", type |-> type,
     entitlement |-> entitlement, used |-> used, remaining |-> entitlement - used]

AddProfile ==
    /\ Loop("profiles", Len(users), "leave")
    /\ \E country \in COUNTRIES, type \in EMPLOYMENT_TYPES :
        LET annual == entitlement_days(country, type)
            sick == IF country = "EG" THEN 10 ELSE 12
        IN  \E used \in Draw(0, annual), ill \in Draw(0, sick) :
                added' = {[table |-> "employee_profiles", user |-> item + 1],
                          Balance_row("ANNUAL", annual, used), Balance_row("SICK", sick, ill)}
    /\ UNCHANGED <<ledger, written>>

\* A row about user u that u's manager answers for.
ByManager(u, table, dates, parent) ==
    [table |-> table, dates |-> dates, parent |-> parent, user |-> u, by |-> users[u].manager]

requestable == {u \in DOMAIN users : users[u].manager # Nobody}

\* Whoever was hired too late for five days off gets none.
RequestLeave ==
    /\ Loop("leave", Volume[company].leave_requests, "attendance")
    /\ \E hired \in HireDates :
        LET earliest == Later(history_start, hired)
            span == history_end - earliest
        IN  IF span <= 5 THEN added' = {}
            ELSE \E start \in Draw(earliest, earliest + span - 5), length \in Draw(1, 5) :
                    added' = {ByManager(InTurn(requestable, item), "leave_requests",
                                       {start, start + length - 1}, hired)}
    /\ UNCHANGED <<ledger, written>>

\* calendars.py: Fridays and Saturdays are free in both countries.
WEEKEND == {4, 5}
is_working_day(day, country) == day % 7 \notin WEEKEND /\ day \notin HOLIDAYS[country]
working_days_between(start, end, country) == {d \in start .. end : is_working_day(d, country)}

Attend ==
    /\ Loop("attendance", Len(users), "training")
    /\ \E hired \in HireDates, country \in COUNTRIES, type \in EMPLOYMENT_TYPES :
        added' = IF type = "CONTRACT" THEN {}
                 ELSE {Dated("attendance_records", {d}, hired) :
                         d \in working_days_between(Later(att_start, hired), history_end, country)}
    /\ UNCHANGED <<ledger, written>>

\* From 30 to 900 days after the hire, moved into the window at either end.
Train ==
    /\ Loop("training", Volume[company].training_records, "reviews")
    /\ \E hired \in HireDates : \E day \in Draw(hired + Month, hired + 30 * Month) :
        added' = {Dated("training_records", {Earlier(Later(day, history_start), history_end)}, hired)}
    /\ UNCHANGED <<ledger, written>>

cycles == {<<First(<<2024, 7>>), First(<<2025, 1>>) - 1>>, <<First(<<2025, 1>>), First(<<2025, 7>>) - 1>>,
           <<First(<<2025, 7>>), First(<<2026, 1>>) - 1>>, <<First(<<2026, 1>>), First(<<2026, 7>>) - 1>>}

Review ==
    /\ Loop("reviews", Len(users), "products")
    /\ \E hired \in HireDates :
        added' = IF users[item + 1].manager = Nobody THEN {}
                 ELSE {ByManager(item + 1, "performance_reviews", {c[1], c[2]}, hired) :
                         c \in {c \in cycles : hired <= c[1]}}
    /\ UNCHANGED <<ledger, written>>

-----------------------------------------------------------------------------
(* sales.py                                                                *)
reps ==
    LET sales == {u \in DOMAIN users : users[u].department = "Sales"}
    IN  IF sales = {} THEN {Exec} ELSE sales

AddProduct ==
    /\ Loop("products", Volume[company].products, "customers")
    /\ LET range == At(Catalog[company], item)
       IN  \E price \in Draw(range[1], range[2]) : products' = Append(products, price)
    /\ added' = {}
    /\ UNCHANGED <<quota, order_dates, customers, orders, revenue, written>>

AddCustomer ==
    /\ Loop("customers", Volume[company].customers, "allocation")
    /\ \E since \in SinceDates, region \in REGIONS :
        customers' = Append(customers, [since |-> since, region |-> region])
    /\ added' = {[table |-> "customers", user |-> InTurn(reps, item)]}
    /\ UNCHANGED <<quota, order_dates, products, orders, revenue, written>>

OpeningMonth ==
    LET n == 2026 * 12 + 5 - (HISTORY_MONTHS - 1) IN <<n \div 12, (n % 12) + 1>>

\* The months of the window, in steps of so many from ym on.
Calendar == (OpeningMonth[1] .. 2026) \X (1 .. 12)
Ym(m) == 12 * m[1] + m[2]
Every(months, ym) ==
    {m \in Calendar : Ym(m) >= Ym(ym) /\ (Ym(m) - Ym(ym)) % months = 0 /\ First(m) <= history_end}

_month_starts == Every(1, OpeningMonth)
_quarters == Every(3, <<OpeningMonth[1], ((OpeningMonth[2] - 1) \div 3) * 3 + 1>>)

_quarter_end(ym) ==
    First(IF ym[2] + 3 > 12 THEN <<ym[1] + 1, ym[2] + 3 - 12>> ELSE <<ym[1], ym[2] + 3>>) - 1

_seasonal_factor == <<86, 88, 102, 98, 105, 118, 92, 84, 108, 112, 122, 110>>
_growth_factor(ym) == 1000 + 11 * ((ym[1] - OpeningMonth[1]) * 12 + ym[2] - OpeningMonth[2])
Weight(ym) == _seasonal_factor[ym[2]] * _growth_factor(ym)
WeightSum == SumFunction([m \in _month_starts |-> Weight(m)])

\* _allocate_order_dates: each month its share, then the rest to the heaviest
\* months in turn, and for each month as many days drawn from it.
Allot ==
    /\ stage = "allocation"
    /\ quota' = [m \in _month_starts |-> (Volume[company].orders * Weight(m)) \div WeightSum]
    /\ stage' = "remainder" /\ item' = 0 /\ added' = {}
    /\ UNCHANGED <<staff, order_dates, products, customers, orders, revenue, written>>

Heavier(m, n) == Weight(m) > Weight(n) \/ (Weight(m) = Weight(n) /\ Ym(m) < Ym(n))
Allotted == SumFunction(quota)
Missing == Volume[company].orders - Allotted

HandOut ==
    /\ stage = "remainder" /\ Missing > 0
    /\ \E m \in DOMAIN quota :
        /\ Cardinality({n \in DOMAIN quota : Heavier(n, m)}) = item % Cardinality(DOMAIN quota)
        /\ quota' = [quota EXCEPT ![m] = @ + 1]
    /\ item' = item + 1 /\ added' = {}
    /\ UNCHANGED <<staff, stage, order_dates, products, customers, orders, revenue, written>>

Allocate_dates ==
    /\ stage = "remainder" /\ Missing <= 0
    /\ stage' = "dates" /\ item' = 0 /\ added' = {}
    /\ UNCHANGED <<staff, ledger, written>>

FirstOfNext(m) == First(<<m[1] + m[2] \div 12, (m[2] % 12) + 1>>)

DrawDate ==
    /\ stage = "dates"
    /\ \E m \in DOMAIN quota :
        /\ quota[m] > 0 /\ \A n \in DOMAIN quota : Ym(n) < Ym(m) => quota[n] = 0
        /\ quota' = [quota EXCEPT ![m] = @ - 1]
        /\ \E day \in Draw(First(m), Earlier(FirstOfNext(m) - 1, history_end)) :
            order_dates' = Append(order_dates, day)
    /\ added' = {}
    /\ UNCHANGED <<staff, stage, item, products, customers, orders, revenue, written>>

StartOrders ==
    /\ stage = "dates" /\ \A m \in DOMAIN quota : quota[m] = 0
    /\ stage' = "orders" /\ added' = {}
    /\ UNCHANGED <<staff, item, ledger, written>>

Tax(subtotal) == (14 * subtotal + 50) \div 100      \* ROUND_HALF_UP

\* What the lines of the order in hand come to, and what some of a table of orders do.
Subtotal(quantity) ==
    MapThenSumSet(LAMBDA l : quantity[l] * At(products, item + l - 1), DOMAIN quantity)
Turnover(table, some) == MapThenSumSet(LAMBDA n : table[n].total, some)

\* An order is never dated before its customer, nor an invoice after the window.
AddOrder ==
    /\ Loop("orders", Volume[company].orders, "revenue")
    /\ LET customer == At(customers, item)
           day == Earlier(Later(order_dates[item + 1], customer.since), history_end)
           month == day \div Month
           key == <<month, customer.region>>
       IN  \E lines \in 1 .. MaxLines : \E quantity \in [1 .. lines -> Draw(1, 12)], delay \in Draw(0, 5) :
            LET sum == Subtotal(quantity) + Tax(Subtotal(quantity))
            IN  /\ orders' = Append(orders, [month |-> month, region |-> customer.region, total |-> sum])
                /\ revenue' = IF key \in DOMAIN revenue
                              THEN [revenue EXCEPT ![key] = @ \cup {item + 1}]
                              ELSE With(revenue, key, {item + 1})
                /\ added' = {Charged("orders", day, customer.since, sum),
                             Charged("invoices", Earlier(day + delay, history_end), day, sum)}
    /\ UNCHANGED <<quota, order_dates, products, customers, written>>

ReportRevenue ==
    /\ stage = "revenue"
    /\ added' = {[table |-> "monthly_revenue", month |-> k[1], region |-> k[2],
                  amount |-> Turnover(orders, revenue[k]),
                  order_count |-> Cardinality(revenue[k])] :
                    k \in DOMAIN revenue}
    /\ stage' = "targets"
    /\ UNCHANGED <<staff, item, ledger, written>>

\* What the orders were drawn from is not used any more.
SetTargets ==
    /\ stage = "targets"
    /\ added' = {[table |-> "sales_targets", user |-> rep, from |-> First(q), until |-> _quarter_end(q)] :
                    rep \in reps, q \in _quarters}
    /\ stage' = "expenses"
    /\ quota' = << >> /\ order_dates' = << >> /\ products' = << >> /\ customers' = << >>
    /\ orders' = << >> /\ revenue' = << >>
    /\ UNCHANGED <<staff, item, written>>

AddExpense ==
    /\ Loop("expenses", Volume[company].expenses, "budgets")
    /\ LET d == At(Alphabetical[company], item)
       IN  \E day \in Draw(history_start, history_end) :
            added' = {[table |-> "expenses", dates |-> {day}, parent |-> history_start,
                       department |-> d, user |-> heads[d]]}
    /\ UNCHANGED <<ledger, written>>

SetBudgets ==
    /\ stage = "budgets"
    /\ added' = {[table |-> "budgets", department |-> d, from |-> First(q), until |-> _quarter_end(q)] :
                    d \in Range(keys), q \in _quarters}
    /\ stage' = "policies"
    /\ UNCHANGED <<staff, item, ledger, written>>

-----------------------------------------------------------------------------
(* legal.py                                                                *)
_document_owner(d) == heads[IF d \in Range(keys) THEN d ELSE Executive]

\* A document of the loop in hand, under a key of its own: add_file refuses one
\* that is taken, and the seed ends there.
add_document(name, type, classification, owner, more, loop) ==
    LET key == <<classification, type, name>>
    IN  /\ IF key \in files
           THEN stage' = "failed" /\ UNCHANGED <<staff, item, files, added>>
           ELSE /\ files' = files \cup {key}
                /\ added' = more \cup {[table |-> "documents", key |-> key, owner |-> owner,
                                        department |-> users[owner].department]}
                /\ Loop(stage, loop.turns, loop.next)
        /\ UNCHANGED <<ledger, seen>>

POLICY_TYPES == <<"HANDBOOK", "LEAVE", "REMOTE_WORK", "EXPENSE", "SECURITY", "CODE_OF_CONDUCT",
                  "TRAVEL", "BENEFITS">>
_POLICY_OWNER_DEPT(p) ==
    IF p \in {"EXPENSE", "TRAVEL"} THEN "Finance" ELSE IF p = "SECURITY" THEN "Operations" ELSE "HR"
_POLICY_CLASSIFICATION(p) == IF p \in {"SECURITY", "EXPENSE"} THEN "CONFIDENTIAL" ELSE "INTERNAL"

\* _slugify makes file names of them.
_slugify == [HANDBOOK |-> "handbook", LEAVE |-> "leave", REMOTE_WORK |-> "remote-work",
             EXPENSE |-> "expense", SECURITY |-> "security", CODE_OF_CONDUCT |-> "code-of-conduct",
             TRAVEL |-> "travel", BENEFITS |-> "benefits"]

WritePolicy ==
    /\ stage = "policies"
    /\ LET p == At(POLICY_TYPES, item)
       IN  add_document(<<"policy", _slugify[p]>>, "POLICY", _POLICY_CLASSIFICATION(p),
                        _document_owner(_POLICY_OWNER_DEPT(p)),
                        {[table |-> "policy_documents", policy |-> p]},
                        [turns |-> Len(POLICY_TYPES), next |-> "payroll"])

FilePayroll ==
    /\ stage = "payroll"
    /\ add_document(<<"payroll", 1>>, "REPORT", "RESTRICTED", _document_owner("HR"), {},
                    [turns |-> 1, next |-> "comparison"])

\* The two contracts to compare are granted to their owner besides.
Pair == 2
Compare ==
    /\ stage = "comparison"
    /\ LET owner == _document_owner("Legal")
           name == <<"compare", item>>
       IN  add_document(name, "CONTRACT", "CONFIDENTIAL", owner,
                        {[table |-> "contracts", name |-> name],
                         [table |-> "document_acl", name |-> name, user |-> owner]},
                        [turns |-> Pair,
                         next |-> IF Volume[company].contracts > Pair THEN "contracts" ELSE "leaders"])

WriteContract ==
    /\ stage = "contracts"
    /\ LET name == <<"contract", item>>
       IN  add_document(name, "CONTRACT", "CONFIDENTIAL", _document_owner("Legal"),
                        {[table |-> "contracts", name |-> name]},
                        [turns |-> Volume[company].contracts - Pair, next |-> "leaders"])

-----------------------------------------------------------------------------
(* public.py                                                               *)
Executives == {u \in DOMAIN users : users[u].department = Executive}

Introduce ==
    /\ stage = "leaders"
    /\ added' = {[table |-> "leadership_profiles", user |-> u, order |-> Behind(u, Executives) + 1] :
                    u \in {u \in Executives : Behind(u, Executives) < 6}}
    /\ stage' = "news"
    /\ UNCHANGED <<staff, item, ledger, written>>

Items == Later(4, Volume[company].public_items \div 4)

\* Templates are used in turn, and counted from the second time on.
Templates == 6
Headline(n) == <<n % Templates, IF n >= Templates THEN n \div Templates + 1 ELSE 0>>

PublishNews ==
    /\ Loop("news", Items, "vacancies")
    /\ \E day \in Draw(history_start, history_end) :
        added' = {[table |-> "news_items", dates |-> {day}, parent |-> history_start,
                   title |-> Headline(item)]}
    /\ UNCHANGED <<ledger, written>>

\* A title an office has already is numbered.
Advertise ==
    /\ Loop("vacancies", Items, "about")
    /\ LET opening == At(Alphabetical[company], item)
           office == At(Offices[company], item)
           title == At(Titles[opening], item)
           numbered == IF <<title, 0, office>> \in seen THEN <<title, item + 1, office>>
                       ELSE <<title, 0, office>>
       IN  /\ seen' = seen \cup {numbered}
           /\ \E age \in Draw(5, 4 * Month) :
                added' = {Dated("vacancies", {history_end - age}, history_start)}
    /\ UNCHANGED <<ledger, files>>

PublishAbout ==
    /\ stage = "about"
    /\ add_document(<<"about", 1>>, "PUBLIC", "PUBLIC", heads[Executive], {},
                    [turns |-> 1, next |-> "recorded"])

-----------------------------------------------------------------------------
DataInit ==
    /\ StaffInit
    /\ item = 0 /\ added = {}
    /\ quota = << >> /\ order_dates = << >> /\ products = << >> /\ customers = << >>
    /\ orders = << >> /\ revenue = << >>
    /\ files = {} /\ seen = {}

Staff == StaffNext /\ UNCHANGED <<item, added, ledger, written>>

DataNext ==
    \/ Staff \/ Enrol
    \/ AddProfile \/ RequestLeave \/ Attend \/ Train \/ Review
    \/ AddProduct \/ AddCustomer \/ Allot \/ HandOut \/ Allocate_dates \/ DrawDate \/ StartOrders
    \/ AddOrder \/ ReportRevenue \/ SetTargets \/ AddExpense \/ SetBudgets
    \/ WritePolicy \/ FilePayroll \/ Compare \/ WriteContract
    \/ Introduce \/ PublishNews \/ Advertise \/ PublishAbout

DataSpec == DataInit /\ [][DataNext]_dataVars
FairDataSpec == DataSpec /\ WF_dataVars(DataNext)

-----------------------------------------------------------------------------
Rows(tables) == {r \in added : r.table \in tables}

\* FR-037: whatever bears a date bears one in the window, and none before what it
\* is about: the hire of the employee, the customer of an order, the order of an
\* invoice.
DatedTables == {"leave_requests", "attendance_records", "training_records", "performance_reviews",
                "orders", "invoices", "expenses", "news_items", "vacancies"}
InTime ==
    \A r \in Rows(DatedTables) : \A d \in r.dates :
        /\ d \in history_start .. history_end /\ d >= r.parent
        /\ r.table = "attendance_records" => d >= att_start

\* FR-038: an invoice says what its order says, and the revenue of a month and
\* region is what its orders come to, none left out or counted twice.
Reconciled ==
    /\ \A r, s \in Rows({"orders", "invoices"}) : r.amount = s.amount
    /\ stage = "targets" =>
        LET Of(r) == {k \in DOMAIN orders : orders[k].month = r.month /\ orders[k].region = r.region}
        IN  /\ \A r \in added :
                /\ Of(r) # {} /\ r.order_count = Cardinality(Of(r))
                /\ r.amount = Turnover(orders, Of(r))
            /\ \A k \in DOMAIN orders : \E r \in added : k \in Of(r)

\* FR-020c: there is a date for every order, and no month gets fewer than one the
\* curve puts below it.
CurveFollowed ==
    /\ stage = "dates" /\ order_dates = << >> =>
        /\ Allotted = Volume[company].orders
        /\ \A m, n \in DOMAIN quota : Weight(m) > Weight(n) => quota[m] >= quota[n]
    /\ stage = "orders" => Len(order_dates) = Volume[company].orders

\* The quarters of a target or a budget leave no day of the window out and share none.
Tiled ==
    LET Of(r) == {s \in added : [s EXCEPT !.from = r.from, !.until = r.until] = r}
    IN  \A r \in Rows({"sales_targets", "budgets"}) : \A d \in history_start .. history_end :
            Cardinality({s \in Of(r) : d \in s.from .. s.until}) = 1

\* FR-031a: a document is the affair of the head of a department and of that
\* department, the Executive where the one it belongs to is missing; contracts
\* are a matter for Legal and salaries for HR; and the contracts to compare are
\* readable to the counsel the scenarios are played by.
Attributed ==
    /\ \A r \in Rows({"documents"}) :
        /\ r.department \in Range(keys) /\ heads[r.department] = r.owner
        /\ r.key[2] = "CONTRACT" /\ "Legal" \in Range(keys) => r.department = "Legal"
        /\ r.key[1] = "RESTRICTED" => r.department = "HR"
    /\ \A r \in Rows({"document_acl"}) : WithPersona("legal.counsel") \subseteq {r.user}

\* Leave and reviews are decided by a manager, and never by oneself; the first
\* profile of the public site is the one nobody manages.
Answerable ==
    /\ \A r \in Rows({"leave_requests", "performance_reviews"}) :
        r.by \in DOMAIN users \ {r.user} /\ "Manager" \in Roles(r.by)
    /\ \A r \in Rows({"leadership_profiles"}) : r.order = 1 <=> users[r.user].manager = Nobody

\* FR-035: nobody has used more leave than the policy grants.
Balanced == \A r \in Rows({"leave_balances"}) : r.remaining \in 0 .. r.entitlement

\* No two vacancies of an office, and no two headlines, read alike.
Distinct ==
    /\ stage = "about" => Cardinality(seen) = Items
    /\ stage = "news" => \A n \in 0 .. Items - 1 : n # item => Headline(n) # Headline(item)

Coherent ==
    /\ InTime /\ Reconciled /\ CurveFollowed /\ Tiled
    /\ Attributed /\ Answerable /\ Balanced /\ Distinct

RecordStages ==
    {"profiles", "leave", "attendance", "training", "reviews", "products", "customers", "allocation",
     "remainder", "dates", "orders", "revenue", "targets", "expenses", "budgets", "policies",
     "payroll", "comparison", "contracts", "leaders", "news", "vacancies", "about", "recorded"}

TypeIsRight == stage \in StaffStages \cup RecordStages /\ item \in Nat

\* A company is staffed so that the scenarios can be played in it, and what is
\* recorded of it agrees with it and with itself.
Sound == TypeIsRight /\ Staffing /\ Coherent

\* Whatever is asked for, generation ends; "built" is the end where no records
\* are asked for.
Generated == stage \in {"failed", "recorded"} \/ (stage = "built" /\ total # Scaled(Users[company], 28))
Generates == <>Generated
=============================================================================
