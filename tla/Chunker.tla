------------------------------ MODULE Chunker -------------------------------
(***************************************************************************)
(* chunk_document (core chunking/chunker.py): a normalised document is cut *)
(* into sections at its headings and into sentences, and whole sentences   *)
(* are packed into chunks that overlap.                                    *)
(*                                                                         *)
(* A document is a sequence of words, each with its number of tokens and   *)
(* what separates it from the next; the offsets of the code are word       *)
(* numbers here, and the tokenizer is taken to add up over words.  A span  *)
(* is <<first word, last word>>.                                           *)
(***************************************************************************)
EXTENDS Naturals, Sequences, FiniteSets, FiniteSetsExt, Functions

CONSTANTS
    MaxTokens,      \* config.max_tokens
    OverlapTokens,  \* config.overlap_tokens
    Sizes,          \* tokens of a word
    MaxWords        \* bound of the checked instance: words of a document

\* ChunkerConfig.__post_init__ refuses every other configuration.
ConfigAssumption ==
    /\ MaxTokens \in Nat \ {0} /\ OverlapTokens \in Nat
    /\ OverlapTokens < MaxTokens
    /\ Sizes \subseteq Nat /\ MaxWords \in Nat
ASSUME ConfigAssumption

Marks == {"space", "clause", "sentence", "paragraph"}
Words == [tokens : Sizes, after : Marks, heading : BOOLEAN]

\* A heading leads its paragraph.
Leads(mark) == {w \in DOMAIN mark : w = 1 \/ mark[w - 1] = "paragraph"}
DocumentOf(size, mark, headings) ==
    [w \in DOMAIN size |-> [tokens |-> size[w], after |-> mark[w], heading |-> w \in headings]]

VARIABLES
    doc,
    layout,         \* its sections, each the sequence of its sentences
    section,        \* number of the section in hand
    index,          \* number of the sentence the next chunk starts with
    rest,           \* first word of what is left of an oversized sentence, or 0
    chunks
chunkVars == <<doc, layout, section, index, rest, chunks>>

text == <<doc, layout>>
TokensOf(d, first, last) == SumFunctionOnSet([w \in DOMAIN d |-> d[w].tokens], first .. last)
Count(first, last) == TokensOf(doc, first, last)
Tokens(span) == Count(span[1], span[2])

\* The spans between consecutive starts of a set, up to the word last.
Spans(starts, last) ==
    LET start(k) == CHOOSE w \in starts : Cardinality({v \in starts : v < w}) = k - 1
        n == Cardinality(starts)
    IN  [k \in 1 .. n |-> <<start(k), IF k = n THEN last ELSE start(k + 1) - 1>>]

\* _section_spans: a heading opens a section, and so does the first paragraph.
SectionsOf(d) == Spans({w \in DOMAIN d : w = 1 \/ d[w].heading}, Len(d))

\* _sentence_spans: no sentence runs across a paragraph.
SentencesOf(d, span) ==
    Spans({w \in span[1] .. span[2] :
              w = span[1] \/ d[w - 1].after \in {"sentence", "paragraph"}}, span[2])

sentences == layout[section]

Oversized(span) == Tokens(span) > MaxTokens

-----------------------------------------------------------------------------
\* _last_boundary_within_budget: the word to cut after, the last clause that
\* fits, else the last space.  What is left of a sentence starts with a space,
\* and cutting there leaves nothing in front.
Boundary(first, last) ==
    LET within == {w \in first .. last - 1 : Count(first, w) <= MaxTokens}
        clauses == {w \in within : doc[w].after = "clause"}
        leading == IF first = sentences[index][1] THEN {} ELSE {first - 1}
    IN  IF clauses # {} THEN clauses ELSE within \cup leading

\* Faulty variant: a cut in front of what is left counts as one.
CutLast(first, last) ==
    LET b == Boundary(first, last) IN IF b = {} THEN 0 ELSE Max(b)

\* 0 where no boundary gets any further.
Cut(first, last) ==
    LET b == Boundary(first, last)
    IN  IF b = {} \/ Max(b) < first THEN 0 ELSE Max(b)

\* _overlap_start: the first of the whole trailing sentences that fit the
\* overlap, or the one after the last.
OverlapStart(last) ==
    LET fits == {s \in 1 .. last :
                    Count(sentences[s][1], sentences[last][2]) <= OverlapTokens}
    IN  IF OverlapTokens = 0 \/ fits = {} THEN last + 1 ELSE Min(fits)

\* Faulty variant: only the next sentence is counted, not what it is packed with.
LastPackedAlone ==
    CHOOSE last \in index .. Len(sentences) :
        /\ \A s \in index + 1 .. last : Tokens(sentences[s]) <= MaxTokens
        /\ last = Len(sentences) \/ Oversized(sentences[last + 1])

\* The last sentence that is packed with the one at index.
LastPacked ==
    CHOOSE last \in index .. Len(sentences) :
        /\ \A s \in index + 1 .. last :
            Count(sentences[index][1], sentences[s][2]) <= MaxTokens
        /\ \/ last = Len(sentences)
           \/ Count(sentences[index][1], sentences[last + 1][2]) > MaxTokens

Emit(first, last) == chunks' = Append(chunks, <<first, last>>)

-----------------------------------------------------------------------------
ChunkInit ==
    /\ \E n \in 0 .. MaxWords : \E size \in [1 .. n -> Sizes], mark \in [1 .. n -> Marks] :
        /\ n > 0 => mark[n] = "paragraph"
        /\ \E headings \in SUBSET Leads(mark) : doc = DocumentOf(size, mark, headings)
    /\ layout = [k \in DOMAIN SectionsOf(doc) |-> SentencesOf(doc, SectionsOf(doc)[k])]
    /\ section = 1 /\ index = 1 /\ rest = 0
    /\ chunks = << >>

More == section <= Len(layout)
NextSection == section' = section + 1 /\ index' = 1

\* Past the sentence at index, or into the next section.
Advance ==
    IF index = Len(sentences) THEN NextSection ELSE index' = index + 1 /\ UNCHANGED section

\* An oversized sentence is cut up; its pieces overlap nothing.
TakeOversized ==
    /\ More /\ rest = 0 /\ Oversized(sentences[index])
    /\ rest' = sentences[index][1]
    /\ UNCHANGED <<text, section, index, chunks>>

CutPiece ==
    /\ rest # 0
    /\ LET last == sentences[index][2]
           cut == Cut(rest, last)
       IN  /\ Count(rest, last) > MaxTokens /\ cut # 0
           /\ IF cut < rest THEN UNCHANGED chunks ELSE Emit(rest, cut)
           /\ rest' = cut + 1
    /\ UNCHANGED <<text, section, index>>

\* The tail, whole where there is no boundary to cut at.
EmitTail ==
    /\ rest # 0
    /\ LET last == sentences[index][2]
       IN  /\ Count(rest, last) <= MaxTokens \/ Cut(rest, last) = 0
           /\ Emit(rest, last)
    /\ rest' = 0
    /\ Advance
    /\ UNCHANGED text

\* Sentences are packed while they fit, and the next chunk starts with the
\* overlap, unless that would start where this one did.
Pack ==
    /\ More /\ rest = 0 /\ ~Oversized(sentences[index])
    /\ Emit(sentences[index][1], sentences[LastPacked][2])
    /\ IF LastPacked = Len(sentences)
       THEN NextSection
       ELSE /\ index' = IF OverlapStart(LastPacked) > index
                        THEN OverlapStart(LastPacked) ELSE LastPacked + 1
            /\ UNCHANGED section
    /\ UNCHANGED <<text, rest>>

ChunkNext == TakeOversized \/ CutPiece \/ EmitTail \/ Pack
ChunkSpec == ChunkInit /\ [][ChunkNext]_chunkVars

\* The function runs to its end: its loops are the steps above.
FairChunkSpec == ChunkSpec /\ WF_chunkVars(ChunkNext)

ChunkTypeOK ==
    /\ \A w \in DOMAIN doc : doc[w] \in Words
    /\ section \in 1 .. Len(layout) + 1
    /\ More => index \in 1 .. Len(sentences)
    /\ rest # 0 => More /\ rest \in sentences[index][1] .. sentences[index][2]
    /\ \A k \in DOMAIN chunks :
        1 <= chunks[k][1] /\ chunks[k][1] <= chunks[k][2] /\ chunks[k][2] <= Len(doc)

-----------------------------------------------------------------------------
Inside(span, outer) == outer[1] <= span[1] /\ span[2] <= outer[2]
Common(a, b) == Count(Max({a[1], b[1]}), Min({a[2], b[2]}))
AllSentences == UNION {Range(layout[k]) : k \in DOMAIN layout}

\* A chunk exceeds the budget only where it starts with a word that does,
\* splits a sentence only where that sentence is over the budget (FR-007a), and
\* never reaches from one section into the next.
WithinBudget ==
    \A k \in DOMAIN chunks :
        /\ \E s \in DOMAIN layout :
            Inside(chunks[k], <<layout[s][1][1], layout[s][Len(layout[s])][2]>>)
        /\ Oversized(chunks[k]) => doc[chunks[k][1]].tokens > MaxTokens
        /\ \A s \in AllSentences :
            \/ Inside(s, chunks[k])
            \/ s[2] < chunks[k][1] \/ chunks[k][2] < s[1]
            \/ Oversized(s) /\ Inside(chunks[k], s)

\* Chunks start one after the other and share at most the overlap; a chunk adds
\* nothing to the one before it only where the next sentence does not fit
\* behind the overlap (chunker.py:321 means to emit no such chunk).
ChunksProgress ==
    \A k \in 1 .. Len(chunks) - 1 :
        /\ chunks[k][1] < chunks[k + 1][1]
        /\ chunks[k][2] <= chunks[k + 1][2]
        /\ Common(chunks[k], chunks[k + 1]) <= OverlapTokens
        /\ Inside(chunks[k + 1], chunks[k]) =>
            \E s \in AllSentences :
                /\ s[1] = chunks[k][2] + 1
                /\ Count(chunks[k + 1][1], s[2]) > MaxTokens

\* A chunk is a span of whole sentences of one section within the budget, or a
\* piece of a sentence that is over it, and chunks move on (FR-007a).
Sound == ChunkTypeOK /\ WithinBudget /\ ChunksProgress

\* Whatever the document, the loops end and nothing of it is lost: every word
\* is in a chunk (FR-007).
EverythingChunked ==
    <>(/\ ~More
       /\ \A w \in DOMAIN doc : \E k \in DOMAIN chunks : w \in chunks[k][1] .. chunks[k][2])
=============================================================================
