------------------------------ MODULE Retrieval -----------------------------
(***************************************************************************)
(* Retrieval before generation (core/authz/filters.py, retrieval_cache.py, *)
(* corpus_version.py, keys.py): the payload filter of a search, and the    *)
(* cache of answers keyed by tenant, entitlement, question and corpus      *)
(* version.                                                                *)
(*                                                                         *)
(* A turn is one question.  It takes a snapshot of its caller, looks in    *)
(* the cache, searches on a miss and stores what the search led to; the    *)
(* search, the resolution of grants and the publication of a corpus belong *)
(* to services this code base describes and does not hold yet.  Questions  *)
(* stand for their digests, taken after strip() and lower().               *)
(***************************************************************************)
EXTENDS Policy, FiniteSets

CONSTANTS Company, User, Role, Department, Country, Document, Question, Version, Turn,
          Meta,         \* the payload of a document
          Contents,     \* the documents of a corpus version
          Staff,        \* what the database may hold about a user
          Shares,       \* the grants a document may carry
          Bodies,       \* how deep a value to be cached may carry verbatim text
          MaxEntries    \* bound of the checked instance: entries not yet expired

\* An access context, cut to what the filter, the engine and the key read.
Contexts == [company : Company, user : User, department : Department \cup {None},
             country : Country \cup {None}, roles : SUBSET Role, codes : SUBSET Codes]

Grants == [type : {"USER"}, principal : User, permission : {"READ", "WRITE"}]
          \cup [type : {"ROLE"}, principal : Role, permission : {"READ", "WRITE"}]
          \cup [type : {"DEPARTMENT"}, principal : Department, permission : {"READ", "WRITE"}]

ASSUME RetrievalAssumption ==
    /\ None \notin Company \cup User \cup Department \cup Country \cup Role
    /\ Meta \in [Document ->
           [company : Company, classification : Levels, owner : User \cup {None},
            department : Department \cup {None}, country : Country \cup {None},
            allowed_roles : SUBSET Role]]
    /\ Contents \in [Version -> SUBSET Document]
    /\ Staff \in [User -> SUBSET Contexts]
    /\ \A u \in User : \A s \in Staff[u] : s.user = u
    /\ Shares \in [Document -> SUBSET SUBSET Grants]
    /\ Bodies \subseteq Nat \cup {None}
    /\ MaxEntries \in Nat

VARIABLES people,     \* the current attributes of every user
          grants,     \* document_acl
          active,     \* the active corpus version of every company
          turns,
          cache       \* the entries that have not expired
vars == <<people, grants, active, turns, cache>>

-----------------------------------------------------------------------------
(* The filter.  None among the values of an attribute clause is is_null.   *)

MAX_ANONYMOUS_CLASSIFICATION == INTERNAL

attribute_clause(value) == {None, value}

\* Faulty variant: a grant reaches a document whatever its tenant and level.
qdrant_filter_flat(s, granted) ==
    [company |-> {s.company} \cup {Meta[d].company : d \in granted},
     levels |-> {l \in Levels : l <= MAX_ANONYMOUS_CLASSIFICATION}
                \cup {Meta[d].classification : d \in granted},
     department |-> attribute_clause(s.department), country |-> attribute_clause(s.country),
     allowed_roles |-> s.roles, owner |-> s.user, document |-> granted]

qdrant_filter(s, granted) ==
    [company |-> {s.company},
     levels |-> {l \in Levels : l <= MAX_ANONYMOUS_CLASSIFICATION},
     department |-> attribute_clause(s.department), country |-> attribute_clause(s.country),
     allowed_roles |-> s.roles, owner |-> s.user, document |-> granted]

\* What the vector store makes of the clauses.
ByAttributes(f, d) == Meta[d].department \in f.department /\ Meta[d].country \in f.country
Beyond(f, d) ==
    \/ Meta[d].allowed_roles \cap f.allowed_roles # {}
    \/ Meta[d].owner = f.owner
    \/ d \in f.document
Admits(f, d) ==
    /\ Meta[d].company \in f.company
    /\ Meta[d].classification \in f.levels
    /\ ByAttributes(f, d) \/ Beyond(f, d)

\* The READ grants of the caller's user, roles and department.
Resolved(s) == {d \in Document : AclMatches(s, grants[d])}
FilterOf(s) == qdrant_filter(s, Resolved(s))

\* The points of the collection every company shares.
Indexed == {d \in Document : d \in Contents[active[Meta[d].company]]}

-----------------------------------------------------------------------------
(* The key.                                                                *)

\* Faulty variant: the fingerprint is of the permission codes alone.
permission_fingerprint_of_codes(s) ==
    [company |-> s.company, department |-> None, country |-> None, codes |-> s.codes]

permission_fingerprint(s) ==
    [company |-> s.company, department |-> s.department,
     country |-> s.country, codes |-> s.codes]

key_for(t) ==
    [company |-> t.who.company, fingerprint |-> permission_fingerprint(t.who),
     question |-> t.question, version |-> active[t.who.company]]

\* _refuse_passage_bodies looks into six levels.
Refused(body) == body # None /\ body <= 6

-----------------------------------------------------------------------------
NoAnswer == [docs |-> {}, beyond |-> {}, from |-> None]

\* version is the one the turn last saw, overtaken whether it changed since
\* (history), beyond what reached the searcher otherwise than by attributes.
Idle == [phase |-> "idle", who |-> None, question |-> None, answer |-> NoAnswer,
         version |-> None, overtaken |-> FALSE]

Answers == [docs : SUBSET Document, beyond : SUBSET Document, from : Version \cup {None}]
Keys == [company : Company,
         fingerprint : [company : Company, department : Department \cup {None},
                        country : Country \cup {None}, codes : SUBSET Codes],
         question : Question, version : Version]
Entries == [key : Keys, answer : Answers, overtaken : BOOLEAN]

Turns == [phase : {"idle", "searching", "found", "answered"},
          who : Contexts \cup {None}, question : Question \cup {None}, answer : Answers,
          version : Version \cup {None}, overtaken : BOOLEAN]

TypeOK ==
    /\ people \in [User -> Contexts]
    /\ \A u \in User : people[u] \in Staff[u]
    /\ grants \in [Document -> SUBSET Grants]
    /\ \A d \in Document : grants[d] \in Shares[d]
    /\ active \in [Company -> Version]
    /\ turns \in [Turn -> Turns]
    /\ \A t \in Turn : turns[t].phase # "idle" =>
           turns[t].who \in Contexts /\ turns[t].question \in Question
    /\ cache \subseteq Entries
    /\ \A e, f \in cache : e.key = f.key => e = f

Init ==
    /\ people \in {p \in [User -> UNION {Staff[u] : u \in User}] :
                      \A u \in User : p[u] \in Staff[u]}
    /\ grants \in {g \in [Document -> UNION {Shares[d] : d \in Document}] :
                      \A d \in Document : g[d] \in Shares[d]}
    /\ active \in [Company -> Version]
    /\ turns = [t \in Turn |-> Idle]
    /\ cache = {}

\* A new turn: a snapshot of the caller and a lookup, which changes nothing.
Ask(t, u, q) ==
    LET turn == [Idle EXCEPT !.phase = "searching", !.who = people[u], !.question = q,
                             !.version = active[people[u].company]]
        found == {e \in cache : e.key = key_for(turn)}
    IN  /\ turns[t].phase = "idle"
        /\ \/ /\ found = {}
              /\ turns' = [turns EXCEPT ![t] = turn]
           \/ \E e \in found :
                turns' = [turns EXCEPT ![t] =
                    [turn EXCEPT !.phase = "answered", !.answer = e.answer,
                                 !.overtaken = e.overtaken]]
        /\ UNCHANGED <<people, grants, active, cache>>

\* The grants are resolved, the filter is built and applied by the search.
Search(t) ==
    LET s == turns[t].who
        f == FilterOf(s)
        docs == {d \in Indexed : Admits(f, d)}
    IN  /\ turns[t].phase = "searching"
        /\ turns' = [turns EXCEPT ![t] =
               [@ EXCEPT !.phase = "found", !.overtaken = FALSE,
                         !.version = active[s.company],
                         !.answer = [docs |-> docs, from |-> active[s.company],
                                     beyond |-> {d \in docs : Beyond(f, d)}]]]
        /\ UNCHANGED <<people, grants, active, cache>>

\* RetrievalCache.set, the last of a turn that missed: the key is derived anew
\* and an entry under it replaced.
Store(t, body) ==
    LET key == key_for(turns[t])
        others == {e \in cache : e.key # key}
    IN  /\ turns[t].phase = "found"
        /\ ~Refused(body)
        /\ Cardinality(others) < MaxEntries
        /\ cache' = others \cup {[key |-> key, answer |-> turns[t].answer,
                                  overtaken |-> turns[t].overtaken]}
        /\ turns' = [turns EXCEPT ![t] = Idle]
        /\ UNCHANGED <<people, grants, active>>

\* The value carries passage or question text: ValueError, nothing is stored.
RefuseStore(t, body) ==
    /\ turns[t].phase = "found"
    /\ Refused(body)
    /\ turns' = [turns EXCEPT ![t] = Idle]
    /\ UNCHANGED <<people, grants, active, cache>>

\* The answer is out, or the turn was given up before that.
Leave(t) ==
    /\ turns[t].phase # "idle"
    /\ turns' = [turns EXCEPT ![t] = Idle]
    /\ UNCHANGED <<people, grants, active, cache>>

-----------------------------------------------------------------------------
(* What goes on around the turns.                                          *)

Reassign(u, s) ==
    /\ s \in Staff[u] \ {people[u]}
    /\ people' = [people EXCEPT ![u] = s]
    /\ UNCHANGED <<grants, active, turns, cache>>

Share(d, gs) ==
    /\ gs \in Shares[d] \ {grants[d]}
    /\ grants' = [grants EXCEPT ![d] = gs]
    /\ UNCHANGED <<people, active, turns, cache>>

\* A complete new index and its checksum become the active ones at once; the
\* version may be one that was active before (a rollback).
Publish(c, v) ==
    /\ v # active[c]
    /\ active' = [active EXCEPT ![c] = v]
    /\ turns' = [t \in Turn |->
           IF turns[t].phase = "found" /\ turns[t].who.company = c
           THEN [turns[t] EXCEPT !.overtaken = TRUE] ELSE turns[t]]
    /\ UNCHANGED <<people, grants, cache>>

\* The entry's own expiry, at any time.
Expire(e) ==
    /\ cache' = cache \ {e}
    /\ UNCHANGED <<people, grants, active, turns>>

Next ==
    \/ \E t \in Turn :
        \/ \E u \in User, q \in Question : Ask(t, u, q)
        \/ Search(t)
        \/ \E body \in Bodies : Store(t, body) \/ RefuseStore(t, body)
        \/ Leave(t)
    \/ \E u \in User : \E s \in Staff[u] : Reassign(u, s)
    \/ \E d \in Document : \E gs \in Shares[d] : Share(d, gs)
    \/ \E c \in Company, v \in Version : Publish(c, v)
    \/ \E e \in cache : Expire(e)

Spec == Init /\ [][Next]_vars

-----------------------------------------------------------------------------
(* A document as the engine would decide it: without the rules, which no   *)
(* kind of the table has for documents yet, layers one and five remain.    *)
AsResource(d) ==
    [company |-> Meta[d].company, owner |-> Meta[d].owner,
     classification |-> Meta[d].classification, grants |-> grants[d]]

Gates == [rules |-> <<>>, acl_gated |-> FALSE, classified |-> TRUE]

\* The filter and the engine say the same: nothing is in an answer that the
\* tenant layer or the ceiling would refuse the caller, and the search misses
\* nothing of an ordinary level that a READ grant opens to him (filters.py
\* against policy.py, which state the policy independently).
FilterAgreesWithEngine ==
    /\ \A t \in Turn : \A d \in turns[t].answer.docs :
        /\ TenantLayer(turns[t].who, AsResource(d)) = None
        /\ ClassificationLayer(turns[t].who, AsResource(d), Gates) = None
    /\ \A u \in User, d \in Document :
        /\ TenantLayer(people[u], AsResource(d)) = None
        /\ Meta[d].classification <= INTERNAL
        /\ AclLayer(people[u], AsResource(d), [Gates EXCEPT !.acl_gated = TRUE]) = None
        => Admits(FilterOf(people[u]), d)

\* Whoever is served an entry, everything in it that did not reach the one who
\* stored it as an owner, by a role or by a grant reaches the reader by his own
\* department and country (the fingerprint of context.py against the clauses
\* of filters.py).
AttributesHold ==
    \A t \in Turn : turns[t].phase # "idle" =>
        \A d \in turns[t].answer.docs \ turns[t].answer.beyond :
            /\ Meta[d].company = turns[t].who.company
            /\ Meta[d].department \in {None, turns[t].who.department}
            /\ Meta[d].country \in {None, turns[t].who.country}

\* An answer that is served was searched in the version that is active when it
\* is looked up, unless a publication fell between the search that found it and
\* the write that stored it: the key is derived again at the write, so such an
\* answer is filed under the version it was not computed from.
ServedCurrent ==
    \A t \in Turn : turns[t].phase = "answered" /\ ~turns[t].overtaken =>
        turns[t].answer.from = turns[t].version

\* What is served from the cache is of the reader's own tenant, department and
\* country, and of the version he asks for.
AnswersHold == AttributesHold /\ ServedCurrent
=============================================================================
