---------------------------- MODULE AnswerContext ----------------------------
(***************************************************************************)
(* From the selected evidence to the context the model is asked with:       *)
(* ContextBuilder.build sorts the selected chunks by their fusion score,    *)
(* joins the ones that follow each other in a document to sections, and     *)
(* fits the sections into the token budget of the context one by one.       *)
(* Phase 3 and 4 do not expand to neighbours, and count tokens.             *)
(***************************************************************************)
EXTENDS EvidenceSelection, SequencesExt

CONSTANTS
    Places,         \* bound: chunk indices inside a document
    Header,         \* tokens of the header of a section
    Separator,      \* tokens between two sections
    ContextBudget,  \* max_context_tokens
    Slack           \* bound: tokens a cut text may stay below its limit

ASSUME ContextAssumption == /\ Places \subseteq Nat
                            /\ {Header, Separator, ContextBudget, Slack} \subseteq Nat \ {0}

VARIABLES
    build,     \* "select", "fit" or "built"
    place,     \* selected candidate -> chunk_index
    ranking,   \* the selected candidates by descending fusion score
    sections,  \* the joined sections: candidates in the order of their text
    shown,     \* tokens of text of the sections put into the context
    spent,     \* used
    omitted    \* omitted_sections

context == <<build, place, ranking, sections, shown, spent, omitted>>

ContextInit == /\ Init
               /\ build = "select"
               /\ place = <<>> /\ ranking = <<>> /\ sections = <<>>
               /\ shown = <<>> /\ spent = 0 /\ omitted = 0

-----------------------------------------------------------------------------
(* merge_overlapping_chunks *)

\* sorted(): the members of S by their keys, no two of which are equal.
InOrder(S, key) ==
    [r \in 1..Cardinality(S) |-> CHOOSE x \in S : Cardinality({y \in S : key[y] <= key[x]}) = r]

\* Mutant of ChunksOf: the chunks of a document in the order of their scores.
ChunksByScore(d, at, order) == SelectSeq(order, LAMBDA r : source[r] = d)

\* The selected chunks of a document in the order of its text.
ChunksOf(d, at, order) == InOrder({r \in Chosen : source[r] = d}, at)

Follows(r, s, at) == at[r] = at[s] + 1

\* A chunk that follows the one before joins its run, another one starts a new run.
Starts(chunks, at) == {i \in DOMAIN chunks : i = 1 \/ ~Follows(chunks[i], chunks[i - 1], at)}

\* Where the run that starts at i ends: before the next start, or with the document.
EndOf(chunks, i, at) ==
    Min({j \in i..Len(chunks) : j = Len(chunks) \/ j + 1 \in Starts(chunks, at)})

RunsIn(chunks, at) == {SubSeq(chunks, i, EndOf(chunks, i, at)) : i \in Starts(chunks, at)}

\* The place of a run is that of its best chunk.
Best(run, order) == Min({i \in DOMAIN order : Contains(run, order[i])})

Merged(at, order) ==
    LET runs == UNION {RunsIn(ChunksOf(d, at, order), at) : d \in Sources}
    IN  InOrder(runs, [g \in runs |-> Best(g, order)])

\* Two candidates are different chunks; any of them can have the better fusion score,
\* which the reranker leaves as it is.
Merge == /\ Done /\ build = "select"
         /\ build' = IF Chosen = {} THEN "built" ELSE "fit"
         /\ place' \in {at \in [Chosen -> Places] :
                           \A r, s \in Chosen : r # s /\ source[r] = source[s] => at[r] # at[s]}
         /\ ranking' \in SetToSeqs(Chosen)
         /\ sections' = Merged(place', ranking')
         /\ UNCHANGED <<vars, shown, spent, omitted>>

-----------------------------------------------------------------------------
(* compress_context, with a token budget manager *)

\* The tokens of a section.
Text(section) ==
    LET total[i \in 0..Len(section)] == IF i = 0 THEN 0 ELSE total[i - 1] + size[section[i]]
    IN  total[Len(section)]

Prefix == IF shown = <<>> THEN Header ELSE Header + Separator

Room == ContextBudget - spent - Prefix

\* Mutant of Cut: a section that begins inside the budget is taken whole.
CutNever(n) == {n}

\* What is kept of n tokens.  A text that is cut loses a few more of them: the blanks at
\* its end, and as many as the context is still too long by, since tokens do not quite
\* add up where two texts meet.
Cut(n) == IF n < Room THEN {n} ELSE {k \in 0..Room : k >= Room - Slack}

Omit == /\ build' = "built"
        /\ omitted' = Len(sections) - Len(shown)
        /\ UNCHANGED <<shown, spent>>

\* The next section is cut to what is left; one without room for any text is omitted
\* with all that follow.  If nothing is left after it, the loop ends uncounted.
Fit == /\ build = "fit"
       /\ IF Room <= 0
          THEN Omit
          ELSE \E n \in Cut(Text(sections[Len(shown) + 1])) :
                  IF n = 0
                  THEN Omit
                  ELSE /\ shown' = Append(shown, n)
                       /\ spent' = spent + Prefix + n
                       /\ build' = IF spent' >= ContextBudget \/ Len(shown') = Len(sections)
                                   THEN "built" ELSE "fit"
                       /\ UNCHANGED omitted
       /\ UNCHANGED <<vars, place, ranking, sections>>

ContextNext == (Next /\ UNCHANGED context) \/ Merge \/ Fit

ContextSpec == ContextInit /\ [][ContextNext]_<<vars, context>>

-----------------------------------------------------------------------------
(* Properties. *)

Consecutive(section) == \A i \in 1..Len(section) - 1 :
                            /\ source[section[i]] = source[section[i + 1]]
                            /\ place[section[i + 1]] = place[section[i]] + 1

\* Every selected chunk is in exactly one section, a section is one stretch of one
\* document, no two sections of the context continue each other, and the one with the
\* best chunk comes first.
SectionsAreSelection ==
    build # "select" =>
        /\ \A r \in Chosen : Cardinality({i \in DOMAIN sections : Contains(sections[i], r)}) = 1
        /\ \A i \in DOMAIN sections : ToSet(sections[i]) \subseteq Chosen /\ Consecutive(sections[i])
        /\ \A i, j \in DOMAIN sections : ~Consecutive(sections[i] \o sections[j])
        /\ \A i, j \in DOMAIN sections : i < j => Best(sections[i], ranking) < Best(sections[j], ranking)

\* The context keeps its budget and is cut only where it is used up: a section is left
\* out when hardly a text of it would fit, and then nothing behind it is shown; the evidence
\* that was selected never comes down to nothing.
ContextFits ==
    /\ spent <= ContextBudget
    /\ omitted > 0 => Len(shown) + omitted = Len(sections)
    /\ build = "built" /\ Len(shown) < Len(sections) => Room <= Slack
    /\ build = "built" /\ Chosen # {} => shown # <<>> \/ ContextBudget <= Header + Slack
=============================================================================
