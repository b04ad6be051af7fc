------------------------------- MODULE MCSite -------------------------------
EXTENDS Site
CONSTANTS p1, p2, v1

\* No dataset, a whole one, one with a profile linked to an employee of the
\* other company, and one with no other profile and its vacancy closed.
MCContents ==
    {[seeded |-> FALSE, profiles |-> {}, hidden |-> {}, open |-> {}],
     [seeded |-> TRUE, profiles |-> {p1, p2}, hidden |-> {}, open |-> {v1}],
     [seeded |-> TRUE, profiles |-> {p1, p2}, hidden |-> {p1}, open |-> {v1}],
     [seeded |-> TRUE, profiles |-> {p1}, hidden |-> {p1}, open |-> {}]}

\* What its probe or a read tells apart.
MCFailures ==
    [postgres |-> {"down", "wedged"}, redis |-> {"down", "cut", "wedged"}, worker |-> {"down"}]
MCProfile == {p1, p2}
MCVacancy == {v1}
=============================================================================
