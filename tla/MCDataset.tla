----------------------------- MODULE MCDataset ------------------------------
(* The two companies as the generators place, weigh and supply them, with  *)
(* two days to a month and a few rows to a table.                          *)
EXTENDS Dataset

NileTech == "niletech"
Delta == "delta"
Both == {NileTech, Delta}

\* Every headcount from too few to twice the floor, and those of the full profile.
Asked == NileTech :> (5 .. 56) \cup {200} @@ Delta :> (3 .. 56) \cup {40}

ByWeight ==
    NileTech :> <<"Engineering", "Sales", "Customer Support", "Operations", "Finance", "HR",
                  "Executive Management", "Legal">>
    @@ Delta :> <<"Sales", "Operations", "Finance", "HR", "Executive Management">>

ByName ==
    NileTech :> <<"Customer Support", "Engineering", "Executive Management", "Finance", "HR",
                  "Legal", "Operations", "Sales">>
    @@ Delta :> <<"Executive Management", "Finance", "HR", "Operations", "Sales">>

Percent ==
    NileTech :> ("Engineering" :> 30 @@ "Sales" :> 18 @@ "Customer Support" :> 14
                 @@ "Operations" :> 12 @@ "Finance" :> 8 @@ "HR" :> 7
                 @@ "Executive Management" :> 6 @@ "Legal" :> 5)
    @@ Delta :> ("Sales" :> 40 @@ "Operations" :> 28 @@ "Finance" :> 12 @@ "HR" :> 12
                 @@ "Executive Management" :> 8)

Placement ==
    NileTech :> ("Engineering" :> <<"manager.engineering", "employee.engineering">>
                 @@ "Sales" :> <<"employee.sales">> @@ "Customer Support" :> <<"comms.sender">>
                 @@ "Operations" :> <<"auditor.readonly">> @@ "Finance" :> <<"finance.analyst">>
                 @@ "HR" :> <<"hr.generalist">> @@ "Executive Management" :> <<"admin.company">>
                 @@ "Legal" :> <<"legal.counsel">>)
    @@ Delta :> ("Sales" :> <<"employee.delta">> @@ "Operations" :> << >> @@ "Finance" :> << >>
                 @@ "HR" :> << >> @@ "Executive Management" :> << >>)

FullUsers == NileTech :> 200 @@ Delta :> 40

Rows1 == [leave_requests |-> 3, training_records |-> 2, products |-> 2, customers |-> 2, orders |-> 3,
          expenses |-> 9, contracts |-> 3, public_items |-> 45]
Supply == NileTech :> Rows1 @@ Delta :> [Rows1 EXCEPT !.orders = 2, !.contracts = 2, !.public_items = 48]

\* Cents: a tax of half a cent, and one well below it.
Prices == NileTech :> << <<25, 25>>, <<101, 101>> >> @@ Delta :> << <<25, 25>> >>

\* Long before the window, about its opening and that of attendance, and last.
Hires == {reference_date - 2 * 86, history_start, att_start + 1,
          reference_date - 8}
Sinces == {history_start - 1, reference_date - 4}

DaysOff == "EG" :> {history_end} @@ "AE" :> {history_end - 1}

Openings ==
    "Engineering" :> <<"Senior Software Engineer", "QA Engineer", "DevOps Engineer">>
    @@ "Sales" :> <<"Account Executive", "Sales Representative">>
    @@ "HR" :> <<"Recruiter", "HR Generalist">> @@ "Finance" :> <<"Financial Analyst">>
    @@ "Operations" :> <<"Operations Analyst", "Logistics Coordinator">>
    @@ "Customer Support" :> <<"Support Specialist">> @@ "Legal" :> <<"Legal Counsel">>
    @@ "Executive Management" :> <<"Chief of Staff">>

Sites == NileTech :> <<"ALX", "CAI", "DXB">> @@ Delta :> <<"CAI", "DXB">>
=============================================================================
