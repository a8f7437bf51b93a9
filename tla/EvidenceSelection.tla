-------------------------- MODULE EvidenceSelection --------------------------
(***************************************************************************)
(* EvidenceSelector.select on the reranked candidates of one question: a    *)
(* first pass over the candidates that reach the score threshold, a second  *)
(* one that fills up with the rest, and a third one that no longer asks for *)
(* diversity when the configured floor is still out of reach.  A candidate  *)
(* is its rank among those with text; scores descend with the rank, so the  *)
(* ones that reach the threshold are the first ones.                        *)
(***************************************************************************)
EXTENDS Integers, Sequences, FiniteSets

CONSTANTS
    Candidates,    \* bound: candidates with text
    Sources,       \* documents they come from
    Sizes,         \* token counts they can have
    Strategies,    \* evidence_selection_strategies
    MinSelected,   \* min_selected_evidence
    MaxSelected,   \* max_selected_evidence
    FallbackTopN,  \* fallback_top_n; 0 stands for fallback_to_top_n_if_empty = False
    PerSource,     \* evidence_max_chunks_per_source
    Budget,        \* evidence_token_budget
    TargetMin,     \* selected_evidence_target_min_tokens
    TargetMax      \* selected_evidence_target_max_tokens

\* What Phase4Config and EvidenceSelector accept.
ASSUME SelectionAssumption ==
    /\ Candidates \in Nat
    /\ Sizes \subseteq Nat \ {0}
    /\ {MinSelected, MaxSelected, PerSource, Budget, TargetMin, TargetMax} \subseteq Nat \ {0}
    /\ FallbackTopN \in Nat
    /\ MinSelected <= MaxSelected /\ FallbackTopN <= MaxSelected
    /\ TargetMin <= TargetMax /\ TargetMax <= Budget

VARIABLES
    source,    \* rank -> document
    size,      \* rank -> evidence_token_count
    passing,   \* how many candidates reach the threshold
    similar,   \* the pairs is_redundant sets against each other
    stage,     \* which loop is running: "pass", "fill", "relax", or "done"
    next,      \* the candidate it looks at
    selected,  \* the ranks selected, in that order
    fallback,  \* those of them with selection_reason "adaptive_fallback"
    used       \* used_tokens

input == <<source, size, passing, similar>>
vars == <<input, stage, next, selected, fallback, used>>

Ranks == DOMAIN size
Chosen == {selected[i] : i \in DOMAIN selected}

Init == /\ \E n \in 0..Candidates :
               /\ source \in [1..n -> Sources]
               /\ size \in [1..n -> Sizes]
               /\ passing \in IF "reranker_score_threshold" \in Strategies THEN 0..n ELSE {n}
               /\ similar \in SUBSET {p \in (1..n) \X (1..n) : p[1] < p[2]}
        /\ stage = "pass"
        /\ next = 1
        /\ selected = <<>>
        /\ fallback = {}
        /\ used = 0

-----------------------------------------------------------------------------
(* The tests of one candidate. *)

Smaller(a, b) == IF a < b THEN a ELSE b
Larger(a, b) == IF a < b THEN b ELSE a

\* required_floor: raised to fallback_top_n if no candidate reaches the threshold.
Floor == LET wanted == IF passing = 0 THEN Larger(MinSelected, FallbackTopN)
                                      ELSE MinSelected
         IN  Smaller(Smaller(wanted, Len(size)), MaxSelected)

NeedFloor == Len(selected) < Floor

\* Two candidates are never the same chunk: the fusion keeps one of each identity.
Redundant(r) == /\ "redundancy_reduction" \in Strategies
                /\ \E s \in Chosen : <<r, s>> \in similar \/ <<s, r>> \in similar

SourceFull(r) == /\ "source_diversity" \in Strategies
                 /\ Cardinality({s \in Chosen : source[s] = source[r]}) >= PerSource

OverBudget(r) == "token_budget" \in Strategies /\ used + size[r] > Budget

OverTarget(r) == used + size[r] > TargetMax

-----------------------------------------------------------------------------
(* The three loops. *)

Add(r, reason) == /\ selected' = Append(selected, r)
                  /\ fallback' = IF reason = "adaptive_fallback"
                                 THEN fallback \cup {r} ELSE fallback
                  /\ used' = used + size[r]
                  /\ next' = next + 1
                  /\ UNCHANGED <<input, stage>>

Skip == /\ next' = next + 1
        /\ UNCHANGED <<input, stage, selected, fallback, used>>

\* Mutant of Leave: the next loop goes on where the one before stopped.
LeaveInPlace(following) == /\ stage' = following
                           /\ UNCHANGED <<input, next, selected, fallback, used>>

\* A loop that is over is followed by the next one, from the first candidate.
Leave(following) == /\ stage' = following
                    /\ next' = 1
                    /\ UNCHANGED <<input, selected, fallback, used>>

Eligible(r) == /\ r <= passing
               /\ ~Redundant(r) /\ ~SourceFull(r) /\ ~OverBudget(r)

TargetMet == ~NeedFloor /\ used >= TargetMin

PassOver == \/ next > Len(size)
            \/ Len(selected) >= MaxSelected
            \/ Eligible(next) /\ TargetMet

\* Mutant of Passes: the target may be exceeded until its minimum is reached.
PassesWhileShort(r) == Eligible(r) /\ (used < TargetMin \/ ~OverTarget(r))

Passes(r) == Eligible(r) /\ (NeedFloor \/ ~OverTarget(r))

\* Pass 1: the candidates that reach the threshold, up to the token target.
Pass == /\ stage = "pass"
        /\ ~PassOver
        /\ IF Passes(next) THEN Add(next, "threshold_pass") ELSE Skip

\* Mutant of Open: a candidate that is selected already is looked at again.
OpenAlways(r) == TRUE

Open(r) == r \notin Chosen

FillOver == \/ next > Len(size)
            \/ Open(next) /\ (Len(selected) >= MaxSelected \/ TargetMet)

\* Mutant of Fits: the budget holds for the floor too.
FitsStrictly(r) == ~OverBudget(r) /\ ~OverTarget(r)

\* The floor comes before the budget and the target.
Fits(r) == NeedFloor \/ (~OverBudget(r) /\ ~OverTarget(r))

\* fill_from_remaining, with and without relax_structure.
Fill == /\ stage \in {"fill", "relax"}
        /\ ~FillOver
        /\ IF /\ Open(next)
              /\ stage = "fill" => ~Redundant(next) /\ ~SourceFull(next)
              /\ Fits(next)
           THEN Add(next, "adaptive_fallback")
           ELSE Skip

\* Mutant of AfterFill: the structure is relaxed only for an empty selection.
AfterFillEmpty == IF selected = <<>> /\ NeedFloor THEN "relax" ELSE "done"

AfterFill == IF NeedFloor THEN "relax" ELSE "done"

Turn == \/ stage = "pass" /\ PassOver /\ Leave("fill")
        \/ stage = "fill" /\ FillOver /\ Leave(AfterFill)
        \/ stage = "relax" /\ FillOver /\ Leave("done")

Next == Pass \/ Fill \/ Turn

Spec == Init /\ [][Next]_vars

-----------------------------------------------------------------------------
(* Properties. *)

\* The types; nothing is selected twice, and never more than the ceiling.
TypeOK == /\ size \in Seq(Sizes) /\ source \in [Ranks -> Sources]
          /\ passing \in 0..Len(size)
          /\ similar \subseteq Ranks \X Ranks
          /\ stage \in {"pass", "fill", "relax", "done"}
          /\ next \in 1..(Len(size) + 1)
          /\ selected \in Seq(Ranks) /\ Len(selected) <= MaxSelected
          /\ \A i, j \in DOMAIN selected : selected[i] = selected[j] => i = j
          /\ fallback \subseteq Chosen
          /\ used \in Nat

Done == stage = "done"

\* A pool of candidates that is not empty never starves the context: the floor is
\* reached whatever the thresholds, sizes, sources and similarities are.
FloorReached == Done => Len(selected) >= Floor

\* Only the floor justifies more tokens than the target, or than the budget: a
\* selection larger than the floor is within both, whichever loop made it so.
TargetOnlyForFloor == used > TargetMax => Len(selected) <= Floor

\* The answer is labelled as resting on weak evidence alone exactly when no candidate
\* reached the threshold: a strong one is never lost to its size or to weaker ones.
WeakIsTrue == Done /\ Len(size) > 0 => (Chosen \cap 1..passing = {} <=> passing = 0)

\* No candidate that would still fit, alone in its document and unlike the others, is
\* left out before the ceiling or the token target is reached, although it may have
\* been passed over when other candidates were selected than in the end.
NothingUsefulLeft ==
    Done => \A r \in Ranks \ Chosen :
               \/ Redundant(r) \/ SourceFull(r) \/ OverBudget(r) \/ OverTarget(r)
               \/ Len(selected) = MaxSelected
               \/ TargetMet
=============================================================================
