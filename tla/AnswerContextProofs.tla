----------------------- MODULE AnswerContextProofs -----------------------
(***************************************************************************)
(* Theorems about EvidenceSelection and AnswerContext for every pool of     *)
(* candidates and every configuration: the selection's types, its floor, its *)
(* target, the weakness label and that nothing useful is left out; then that *)
(* the sections of the context are the selection and that the context fits. *)
(***************************************************************************)
EXTENDS AnswerContext, FiniteSetTheorems, SequenceTheorems, WellFoundedInduction, TLAPS

\* Why an unselected candidate may be left out, at this point of the selection.
Settled(r) == \/ Redundant(r) \/ SourceFull(r) \/ OverBudget(r) \/ OverTarget(r)
              \/ Len(selected) = MaxSelected
              \/ TargetMet

\* The first loop selects only strong candidates that it has gone past.
OnlyStrong == stage = "pass" => Chosen \subseteq 1..passing \cap 1..(next - 1)

\* If there is a strong candidate, one is selected, or is the very next to be.
StrongKept == stage # "pass" /\ passing > 0 =>
                  \/ Chosen \cap 1..passing # {}
                  \/ stage = "fill" /\ next = 1 /\ selected = <<>>

\* The last loop selects everything it goes past while the floor is not reached.
NoneRefused == stage = "relax" /\ NeedFloor => 1..(next - 1) \subseteq Chosen

\* The second loop goes past a candidate for a reason, and the reason lasts.
PastSettled == stage = "fill" => \A r \in 1..(next - 1) \ Chosen : Settled(r)
RestSettled == stage \in {"relax", "done"} => \A r \in Ranks \ Chosen : Settled(r)

\* The inductive invariant.
IInv == /\ TypeOK
        /\ OnlyStrong /\ StrongKept /\ NoneRefused
        /\ PastSettled /\ RestSettled
        /\ FloorReached
        /\ TargetOnlyForFloor

-----------------------------------------------------------------------------
(* The floor and the set of the candidates selected. *)

\* The floor never asks for more than there is or than the ceiling allows, and
\* for something if there is a strong candidate.
LEMMA FloorBounds ==
    ASSUME TypeOK
    PROVE  /\ Floor \in Nat /\ Floor <= Len(size) /\ Floor <= MaxSelected
           /\ passing > 0 => Floor > 0
           /\ Ranks = 1..Len(size) /\ Len(size) \in Nat
           /\ Len(selected) \in Nat
           /\ NeedFloor \in BOOLEAN /\ TargetMet \in BOOLEAN
<1>1. Ranks = 1..Len(size) /\ Len(size) \in Nat /\ Len(selected) \in Nat
  BY DEF TypeOK, Ranks
<1>2. passing \in 0..Len(size)
  BY DEF TypeOK
<1> QED
  BY <1>1, <1>2, SelectionAssumption DEF Floor, Smaller, Larger, NeedFloor, TargetMet

\* Every candidate has a number of tokens.
LEMMA Sized ==
    ASSUME TypeOK, NEW r \in Ranks
    PROVE  size[r] \in Nat /\ r \in Nat /\ Ranks = 1..Len(size) /\ Len(size) \in Nat
<1>1. size \in Seq(Sizes)
  BY DEF TypeOK
<1>2. Len(size) \in Nat /\ DOMAIN size = 1..Len(size) /\ size \in [1..Len(size) -> Sizes]
  BY <1>1
<1>3. size[r] \in Sizes
  BY <1>2 DEF Ranks
<1>4. Sizes \subseteq Nat
  BY SelectionAssumption
<1>5. Ranks = 1..Len(size) /\ r \in Nat
  BY <1>2 DEF Ranks
<1> QED
  BY <1>2, <1>3, <1>4, <1>5

\* A sequence has no more different entries than entries.
LEMMA EntriesCounted ==
    ASSUME NEW S, NEW seq \in Seq(S)
    PROVE  /\ IsFiniteSet({seq[i] : i \in DOMAIN seq})
           /\ Cardinality({seq[i] : i \in DOMAIN seq}) <= Len(seq)
<1> DEFINE I == 1..Len(seq)
           entries == {seq[i] : i \in DOMAIN seq}
<1>1. Len(seq) \in Nat /\ DOMAIN seq = I /\ seq \in [I -> S]
  OBVIOUS
<1>2. IsFiniteSet(I) /\ Cardinality(I) = Len(seq)
  BY <1>1, FS_Interval
<1>3. seq \in [I -> entries] /\ \A e \in entries : \E i \in I : seq[i] = e
  BY <1>1
<1>4. seq \in Surjection(I, entries)
  BY <1>3 DEF Surjection
<1> QED
  <2>1. IsFiniteSet(entries) /\ Cardinality(entries) <= Len(seq)
    <3> HIDE DEF entries
    <3> QED
      BY <1>2, <1>4, FS_Surjection
  <2> QED
    BY <2>1

\* Selecting a candidate that is not selected yet, below the ceiling.
LEMMA Added ==
    ASSUME TypeOK, next \in Ranks, next \notin Chosen, Len(selected) < MaxSelected,
           NEW reason, Add(next, reason)
    PROVE  /\ TypeOK'
           /\ Chosen' = Chosen \cup {next} /\ Len(selected') = Len(selected) + 1
           /\ used' = used + size[next] /\ size[next] \in Nat
           /\ next' = next + 1 /\ UNCHANGED <<input, stage>>
<1>1. /\ Len(selected) \in Nat /\ DOMAIN selected = 1..Len(selected)
      /\ selected \in Seq(Ranks) /\ used \in Nat
      /\ next \in Nat /\ Ranks = 1..Len(size) /\ Len(size) \in Nat /\ size[next] \in Nat
  <2>1. size[next] \in Nat /\ next \in Nat /\ Ranks = 1..Len(size) /\ Len(size) \in Nat
    BY Sized
  <2> QED
    BY <2>1 DEF TypeOK
<1>2. UNCHANGED <<source, size, passing, similar, stage>> /\ Ranks' = Ranks
  BY DEF Add, input, Ranks
<1>3. /\ selected' \in Seq(Ranks) /\ Len(selected') = Len(selected) + 1
      /\ DOMAIN selected' = 1..(Len(selected) + 1)
      /\ \A i \in 1..Len(selected) : selected'[i] = selected[i]
      /\ selected'[Len(selected) + 1] = next
  BY <1>1 DEF Add
<1>4. Chosen' = Chosen \cup {next}
  <2>1. ASSUME NEW i \in DOMAIN selected'  PROVE selected'[i] \in Chosen \cup {next}
    <3>1. CASE i = Len(selected) + 1  BY <3>1, <1>3
    <3>2. CASE i \in 1..Len(selected)  BY <3>2, <1>1, <1>3 DEF Chosen
    <3> QED  BY <3>1, <3>2, <1>1, <1>3
  <2>2. ASSUME NEW i \in DOMAIN selected  PROVE selected[i] \in Chosen'
    <3>1. i \in DOMAIN selected' /\ selected'[i] = selected[i]  BY <1>1, <1>3
    <3> QED  BY <3>1 DEF Chosen
  <2>3. next \in Chosen'
    <3>1. Len(selected) + 1 \in DOMAIN selected'  BY <1>1, <1>3
    <3> QED  BY <3>1, <1>3 DEF Chosen
  <2> QED  BY <2>1, <2>2, <2>3 DEF Chosen
<1>5. \A i, j \in DOMAIN selected' : selected'[i] = selected'[j] => i = j
  <2>1. \A i \in 1..Len(selected) : selected[i] # next
    BY <1>1 DEF Chosen
  <2>2. \A i, j \in 1..Len(selected) : selected[i] = selected[j] => i = j
    BY <1>1 DEF TypeOK
  <2>3. \A i \in DOMAIN selected' : i \in 1..Len(selected) \/ i = Len(selected) + 1
    BY <1>1, <1>3
  <2> QED
    BY <1>3, <2>1, <2>2, <2>3
<1>6. fallback' \subseteq Chosen'
  BY <1>4 DEF Add, TypeOK
<1>7. next' = next + 1 /\ used' = used + size[next]
  BY DEF Add
<1>8. next' \in 1..(Len(size) + 1) /\ used' \in Nat /\ Len(selected') <= MaxSelected
  BY <1>1, <1>3, <1>7, SelectionAssumption
<1>9. TypeOK'
  BY <1>2, <1>3, <1>5, <1>6, <1>8 DEF TypeOK
<1> QED
  BY <1>1, <1>2, <1>3, <1>4, <1>7, <1>9 DEF input

\* A reason to leave a candidate out is never undone by selecting another one.
LEMMA StaysSettled ==
    ASSUME TypeOK, TypeOK', UNCHANGED input, Len(selected) < MaxSelected,
           Chosen \subseteq Chosen', Len(selected) <= Len(selected'), used <= used',
           NEW r \in Ranks, Settled(r)
    PROVE  Settled(r)'
<1>a. UNCHANGED <<source, size, passing, similar>>
  BY DEF input
<1>b. Len(selected) \in Nat /\ Len(selected') \in Nat /\ used \in Nat /\ used' \in Nat
  BY DEF TypeOK
<1>c. r \in DOMAIN size /\ size[r] \in Nat
  BY Sized DEF Ranks
<1>0. /\ UNCHANGED <<source, size, passing, similar>>
      /\ Len(selected) \in Nat /\ Len(selected') \in Nat
      /\ size[r] \in Nat /\ used \in Nat /\ used' \in Nat /\ r \in DOMAIN size
  BY <1>a, <1>b, <1>c
<1>1. CASE Redundant(r)
  BY <1>0, <1>1 DEF Redundant, Settled
<1>2. CASE SourceFull(r)
  <2> DEFINE T == {s \in Chosen : source[s] = source[r]}
             U == {s \in Chosen' : source[s] = source[r]}
  <2>1. IsFiniteSet(Chosen')
    <3>1. selected' \in Seq(Ranks')
      BY DEF TypeOK
    <3>2. IsFiniteSet({selected'[i] : i \in DOMAIN selected'})
      BY <3>1, EntriesCounted
    <3> QED
      BY <3>2 DEF Chosen
  <2>2. T \subseteq U /\ U \subseteq Chosen'
    OBVIOUS
  <2>3. IsFiniteSet(U)
    BY <2>1, <2>2, FS_Subset
  <2>4. IsFiniteSet(T) /\ Cardinality(T) <= Cardinality(U)
    BY <2>2, <2>3, FS_Subset
  <2>5. Cardinality(T) \in Nat /\ Cardinality(U) \in Nat
    BY <2>3, <2>4, FS_CardinalityType
  <2>6. "source_diversity" \in Strategies /\ Cardinality(T) >= PerSource
    BY <1>2 DEF SourceFull
  <2>7. Cardinality(U) >= PerSource
    BY <2>4, <2>5, <2>6, SelectionAssumption
  <2>8. SourceFull(r)'
    BY <1>0, <2>6, <2>7 DEF SourceFull
  <2> QED
    BY <2>8 DEF Settled
<1>3. CASE OverBudget(r)
  <2>1. OverBudget(r)'
    BY <1>0, <1>3, SelectionAssumption DEF OverBudget
  <2> QED
    BY <2>1 DEF Settled
<1>4. CASE OverTarget(r)
  <2>1. OverTarget(r)'
    BY <1>0, <1>4, SelectionAssumption DEF OverTarget
  <2> QED
    BY <2>1 DEF Settled
<1>5. CASE TargetMet
  <2>1. Floor \in Nat /\ Floor' = Floor
    BY <1>0, FloorBounds DEF Floor
  <2>2. TargetMet'
    BY <1>0, <1>5, <2>1, SelectionAssumption DEF TargetMet, NeedFloor
  <2> QED
    BY <2>2 DEF Settled
<1> QED
  BY <1>0, <1>1, <1>2, <1>3, <1>4, <1>5, SelectionAssumption DEF Settled

\* Selecting a candidate for the floor, or within the target.
LEMMA AddedWithin ==
    ASSUME IInv, next \in Ranks, next \notin Chosen, Len(selected) < MaxSelected,
           NeedFloor \/ ~OverTarget(next), NEW reason, Add(next, reason)
    PROVE  /\ TypeOK' /\ TargetOnlyForFloor'
           /\ Floor' = Floor /\ Ranks' = Ranks
           /\ NeedFloor' => NeedFloor
           /\ \A r \in Ranks : Settled(r) => Settled(r)'
           /\ Chosen' = Chosen \cup {next} /\ next' = next + 1
           /\ UNCHANGED <<passing, stage>>
<1>1. TypeOK /\ TargetOnlyForFloor
  BY DEF IInv
<1>2. /\ TypeOK' /\ Chosen' = Chosen \cup {next} /\ Len(selected') = Len(selected) + 1
      /\ used' = used + size[next] /\ size[next] \in Nat
      /\ next' = next + 1 /\ UNCHANGED <<input, stage>>
  BY <1>1, Added
<1>3. UNCHANGED <<source, size, passing, similar>> /\ Ranks' = Ranks /\ Floor' = Floor
  BY <1>2 DEF input, Ranks, Floor
<1>4. Len(selected) \in Nat /\ Floor \in Nat /\ used \in Nat
  BY <1>1, FloorBounds DEF TypeOK
<1>5. NeedFloor' => NeedFloor
  BY <1>2, <1>3, <1>4 DEF NeedFloor
<1>6. \A r \in Ranks : Settled(r) => Settled(r)'
  BY <1>1, <1>2, <1>4, StaysSettled
<1>7. TargetOnlyForFloor'
  <2>1. CASE NeedFloor
    BY <1>2, <1>3, <1>4, <2>1 DEF NeedFloor, TargetOnlyForFloor
  <2>2. CASE ~OverTarget(next)
    BY <1>2, <1>4, <2>2, SelectionAssumption DEF OverTarget, TargetOnlyForFloor
  <2> QED
    BY <2>1, <2>2
<1> QED
  BY <1>2, <1>3, <1>5, <1>6, <1>7

\* A step that selects nothing: only the loop or its place in it changes.
LEMMA NothingAdded ==
    ASSUME IInv, UNCHANGED <<input, selected, fallback, used>>,
           stage' \in {"pass", "fill", "relax", "done"}, next' \in 1..(Len(size) + 1)
    PROVE  /\ TypeOK' /\ TargetOnlyForFloor'
           /\ Floor' = Floor /\ Ranks' = Ranks /\ NeedFloor' = NeedFloor
           /\ \A r \in Ranks : Settled(r)' <=> Settled(r)
           /\ Chosen' = Chosen
           /\ UNCHANGED <<passing, selected>>
<1>1. UNCHANGED <<source, size, passing, similar, selected, fallback, used>>
  BY DEF input
<1>2. /\ Ranks' = Ranks /\ Chosen' = Chosen /\ Floor' = Floor
      /\ NeedFloor' = NeedFloor /\ TargetMet' = TargetMet
  BY <1>1 DEF Ranks, Chosen, Floor, NeedFloor, TargetMet
<1>3. \A r \in Ranks : Settled(r)' <=> Settled(r)
  BY <1>1, <1>2 DEF Settled, Redundant, SourceFull, OverBudget, OverTarget
<1>4. TypeOK'
  BY <1>1, <1>2 DEF IInv, TypeOK
<1>5. TargetOnlyForFloor'
  BY <1>1, <1>2 DEF IInv, TargetOnlyForFloor
<1> QED
  BY <1>1, <1>2, <1>3, <1>4, <1>5

-----------------------------------------------------------------------------
(* The invariant holds at the start, and every action preserves it. *)

LEMMA InitIInv == Init => IInv
<1> SUFFICES ASSUME Init PROVE IInv
  OBVIOUS
<1>1. PICK n \in 0..Candidates :
         /\ source \in [1..n -> Sources] /\ size \in [1..n -> Sizes]
         /\ passing \in IF "reranker_score_threshold" \in Strategies THEN 0..n ELSE {n}
         /\ similar \in SUBSET {p \in (1..n) \X (1..n) : p[1] < p[2]}
  BY DEF Init
<1>2. n \in Nat /\ size \in Seq(Sizes) /\ Len(size) = n /\ Ranks = 1..n
  BY <1>1, SelectionAssumption DEF Ranks
<1>3. passing \in 0..n /\ similar \subseteq Ranks \X Ranks
  BY <1>1, <1>2
<1>4. stage = "pass" /\ next = 1 /\ selected = <<>> /\ fallback = {} /\ used = 0
  BY DEF Init
<1>5. selected \in Seq(Ranks) /\ Len(selected) = 0 /\ DOMAIN selected = {} /\ Chosen = {}
  BY <1>4 DEF Chosen
<1>6. TypeOK
  BY <1>1, <1>2, <1>3, <1>4, <1>5, SelectionAssumption DEF TypeOK
<1>7. TargetOnlyForFloor
  BY <1>4, SelectionAssumption DEF TargetOnlyForFloor
<1> QED
  BY <1>4, <1>5, <1>6, <1>7
     DEF IInv, OnlyStrong, StrongKept, NoneRefused, PastSettled, RestSettled,
         FloorReached, Done

LEMMA PassIInv == IInv /\ Pass => IInv'
<1> SUFFICES ASSUME IInv, Pass PROVE IInv'
  OBVIOUS
<1>1. /\ stage = "pass" /\ next <= Len(size) /\ Len(selected) < MaxSelected
      /\ next \in Ranks /\ next \in 1..Len(size) /\ Len(size) \in Nat
  <2>1. /\ Ranks = 1..Len(size) /\ Len(size) \in Nat /\ Len(selected) \in Nat
        /\ next \in 1..(Len(size) + 1)
    BY FloorBounds DEF IInv, TypeOK
  <2>2. stage = "pass" /\ ~(next > Len(size)) /\ ~(Len(selected) >= MaxSelected)
    BY DEF Pass, PassOver
  <2> QED
    BY <2>1, <2>2, SelectionAssumption
<1>2. CASE Passes(next) /\ Add(next, "threshold_pass")
  <2>1. next <= passing /\ (NeedFloor \/ ~OverTarget(next))
    BY <1>2 DEF Passes, Eligible
  <2>2. Chosen \subseteq 1..passing \cap 1..(next - 1)
    BY <1>1 DEF IInv, OnlyStrong
  <2>3. next \notin Chosen
    BY <1>1, <2>2
  <2>4. /\ TypeOK' /\ TargetOnlyForFloor' /\ Chosen' = Chosen \cup {next}
        /\ next' = next + 1 /\ UNCHANGED <<passing, stage>>
    BY <1>1, <1>2, <2>1, <2>3, AddedWithin
  <2>5. OnlyStrong'
    <3>1. passing \in Nat
      BY DEF IInv, TypeOK
    <3>2. Chosen \cup {next} \subseteq 1..passing \cap 1..((next + 1) - 1)
      <4>1. SUFFICES ASSUME NEW c \in Chosen \cup {next}
                     PROVE  c \in 1..passing /\ c \in 1..((next + 1) - 1)
        OBVIOUS
      <4>2. CASE c \in Chosen
        <5>1. c \in 1..passing /\ c \in 1..(next - 1)
          BY <2>2, <4>2
        <5> QED
          BY <1>1, <5>1
      <4>3. CASE c = next
        BY <1>1, <2>1, <3>1, <4>3
      <4> QED
        BY <4>2, <4>3
    <3> QED
      BY <2>4, <3>2 DEF OnlyStrong
  <2> QED
    BY <1>1, <2>4, <2>5
       DEF IInv, StrongKept, NoneRefused, PastSettled, RestSettled, FloorReached, Done
<1>3. CASE Skip
  <2>1. /\ UNCHANGED <<input, selected, fallback, used>> /\ stage' = "pass"
        /\ next' = next + 1 /\ next' \in 1..(Len(size) + 1)
    BY <1>1, <1>3 DEF Skip
  <2>2. TypeOK' /\ TargetOnlyForFloor' /\ Chosen' = Chosen /\ UNCHANGED passing
    BY <2>1, NothingAdded
  <2>3. OnlyStrong'
    <3>1. Chosen \subseteq 1..passing \cap 1..((next + 1) - 1)
      BY <1>1 DEF IInv, OnlyStrong
    <3> QED
      BY <2>1, <2>2, <3>1 DEF OnlyStrong
  <2> QED
    BY <2>1, <2>2, <2>3
       DEF IInv, StrongKept, NoneRefused, PastSettled, RestSettled, FloorReached, Done
<1> QED
  BY <1>2, <1>3 DEF Pass

LEMMA FillIInv == IInv /\ Fill => IInv'
<1> SUFFICES ASSUME IInv, Fill PROVE IInv'
  OBVIOUS
<1> DEFINE Free == stage = "fill" => ~Redundant(next) /\ ~SourceFull(next)
<1>1. /\ Ranks = 1..Len(size) /\ Len(size) \in Nat /\ Len(selected) \in Nat
      /\ next \in 1..(Len(size) + 1) /\ Floor \in Nat /\ passing \in 0..Len(size)
      /\ passing > 0 => Floor > 0
  BY FloorBounds DEF IInv, TypeOK
<1>2. /\ stage \in {"fill", "relax"} /\ next \in Ranks
      /\ next \notin Chosen => Len(selected) < MaxSelected
  BY <1>1, SelectionAssumption DEF Fill, FillOver, Open
<1>3. \A r \in 1..((next + 1) - 1) : r \in 1..(next - 1) \/ r = next
  BY <1>1
<1>4. 1..(next - 1) \subseteq Ranks
  BY <1>1
<1>5. CASE Open(next) /\ Free /\ Fits(next) /\ Add(next, "adaptive_fallback")
  <2>1. /\ next \notin Chosen /\ (NeedFloor \/ ~OverTarget(next))
        /\ Add(next, "adaptive_fallback")
    BY <1>5 DEF Open, Fits
  <2>2. /\ TypeOK' /\ TargetOnlyForFloor' /\ Ranks' = Ranks
        /\ NeedFloor' => NeedFloor
        /\ \A r \in Ranks : Settled(r) => Settled(r)'
        /\ Chosen' = Chosen \cup {next} /\ next' = next + 1
        /\ UNCHANGED <<passing, stage>>
    BY <1>2, <2>1, AddedWithin
  <2>3. StrongKept'
    <3>1. CASE passing > 0 /\ Chosen \cap 1..passing = {}
      <4>1. next = 1
        BY <1>2, <3>1 DEF IInv, StrongKept
      <4>2. next \in 1..passing
        BY <1>1, <3>1, <4>1
      <4> QED
        BY <2>2, <4>2 DEF StrongKept
    <3>2. CASE ~(passing > 0 /\ Chosen \cap 1..passing = {})
      BY <2>2, <3>2 DEF StrongKept
    <3> QED
      BY <3>1, <3>2
  <2>4. NoneRefused'
    <3>1. ASSUME stage = "relax", NeedFloor PROVE 1..((next + 1) - 1) \subseteq Chosen'
      BY <1>3, <2>2, <3>1 DEF IInv, NoneRefused
    <3> QED
      BY <2>2, <3>1 DEF NoneRefused
  <2>5. PastSettled'
    <3>1. ASSUME stage = "fill", NEW r \in 1..((next + 1) - 1) \ Chosen' PROVE Settled(r)'
      BY <1>3, <1>4, <2>2, <3>1 DEF IInv, PastSettled
    <3> QED
      BY <2>2, <3>1 DEF PastSettled
  <2>6. RestSettled'
    BY <1>2, <2>2 DEF IInv, RestSettled
  <2> QED
    BY <1>2, <2>2, <2>3, <2>4, <2>5, <2>6 DEF IInv, OnlyStrong, FloorReached, Done
<1>6. CASE ~(Open(next) /\ Free /\ Fits(next)) /\ Skip
  <2>1. /\ UNCHANGED <<input, selected, fallback, used, stage>>
        /\ next' = next + 1 /\ next' \in 1..(Len(size) + 1)
        /\ stage' \in {"pass", "fill", "relax", "done"}
    BY <1>1, <1>2, <1>6 DEF Skip
  <2>2. /\ TypeOK' /\ TargetOnlyForFloor' /\ Ranks' = Ranks /\ NeedFloor' = NeedFloor
        /\ \A r \in Ranks : Settled(r)' <=> Settled(r)
        /\ Chosen' = Chosen /\ UNCHANGED <<passing, selected>>
    BY <2>1, NothingAdded
  <2>3. StrongKept'
    <3>1. ASSUME stage = "fill", passing > 0, next = 1, selected = <<>> PROVE FALSE
      <4>1. Chosen = {} /\ Len(selected) = 0
        BY <3>1 DEF Chosen
      <4>2. Open(next) /\ NeedFloor /\ ~Redundant(next)
        BY <1>1, <3>1, <4>1 DEF Open, NeedFloor, Redundant
      <4>3. ~SourceFull(next)
        <5>1. {s \in Chosen : source[s] = source[next]} = {}
          BY <4>1
        <5> QED
          BY <5>1, FS_EmptySet, SelectionAssumption DEF SourceFull
      <4> QED
        BY <1>6, <4>2, <4>3 DEF Fits
    <3> QED
      BY <1>2, <2>1, <2>2, <3>1 DEF IInv, StrongKept
  <2>4. NoneRefused'
    <3>1. ASSUME stage = "relax", NeedFloor PROVE 1..((next + 1) - 1) \subseteq Chosen
      <4>1. next \in Chosen
        BY <1>6, <3>1 DEF Open, Fits
      <4> QED
        BY <1>3, <3>1, <4>1 DEF IInv, NoneRefused
    <3> QED
      BY <2>1, <2>2, <3>1 DEF NoneRefused
  <2>5. PastSettled'
    <3>1. ASSUME stage = "fill", NEW r \in 1..((next + 1) - 1) \ Chosen PROVE Settled(r)
      <4>1. CASE r = next
        BY <1>6, <3>1, <4>1 DEF Open, Fits, Settled
      <4> QED
        BY <1>3, <3>1, <4>1 DEF IInv, PastSettled
    <3> QED
      BY <1>1, <2>1, <2>2, <3>1 DEF PastSettled
  <2>6. RestSettled'
    BY <2>1, <2>2 DEF IInv, RestSettled
  <2> QED
    BY <1>2, <2>1, <2>2, <2>3, <2>4, <2>5, <2>6 DEF IInv, OnlyStrong, FloorReached, Done
<1> QED
  BY <1>5, <1>6 DEF Fill

LEMMA TurnIInv == IInv /\ Turn => IInv'
<1> SUFFICES ASSUME IInv, Turn PROVE IInv'
  OBVIOUS
<1>1. /\ Ranks = 1..Len(size) /\ Len(size) \in Nat /\ Len(selected) \in Nat
      /\ next \in 1..(Len(size) + 1) /\ passing \in 0..Len(size)
      /\ Floor \in Nat /\ Floor <= Len(size) /\ Floor <= MaxSelected
      /\ passing > 0 => Floor > 0
      /\ Len(selected) <= MaxSelected /\ MaxSelected \in Nat \ {0}
  BY FloorBounds, SelectionAssumption DEF IInv, TypeOK
<1>2. ASSUME NEW following \in {"fill", "relax", "done"}, Leave(following)
      PROVE  /\ TypeOK' /\ TargetOnlyForFloor'
             /\ Floor' = Floor /\ Ranks' = Ranks /\ NeedFloor' = NeedFloor
             /\ \A r \in Ranks : Settled(r)' <=> Settled(r)
             /\ Chosen' = Chosen /\ UNCHANGED <<passing, selected>>
             /\ stage' = following /\ next' = 1
  <2>1. /\ UNCHANGED <<input, selected, fallback, used>>
        /\ stage' = following /\ next' = 1 /\ next' \in 1..(Len(size) + 1)
    BY <1>1, <1>2 DEF Leave
  <2> QED
    BY <1>2, <2>1, NothingAdded
<1>3. 1..(1 - 1) = {}
  OBVIOUS
<1>4. CASE stage = "pass" /\ Leave("fill")
  <2>1. StrongKept'
    <3>1. Chosen \subseteq 1..passing
      BY <1>4 DEF IInv, OnlyStrong
    <3>2. Chosen # {} \/ selected = <<>>
      BY <1>1 DEF Chosen, IInv, TypeOK
    <3> QED
      BY <1>2, <1>4, <3>1, <3>2 DEF StrongKept
  <2> QED
    BY <1>2, <1>3, <1>4, <2>1
       DEF IInv, OnlyStrong, NoneRefused, PastSettled, RestSettled, FloorReached, Done
<1>5. ASSUME FillOver, stage \in {"fill", "relax"}
      PROVE  /\ \A r \in Ranks \ Chosen : Settled(r)
             /\ passing > 0 => Chosen \cap 1..passing # {}
             /\ stage = "relax" => ~NeedFloor
  <2>1. CASE next > Len(size)
    <3>1. 1..(next - 1) = Ranks /\ next = Len(size) + 1
      BY <1>1, <2>1
    <3>2. \A r \in Ranks \ Chosen : Settled(r)
      BY <1>5, <3>1 DEF IInv, PastSettled, RestSettled
    <3>3. passing > 0 => Chosen \cap 1..passing # {}
      BY <1>1, <1>5, <3>1 DEF IInv, StrongKept
    <3>4. ASSUME stage = "relax", NeedFloor PROVE FALSE
      <4>1. 1..Len(size) \subseteq Chosen
        BY <1>1, <3>1, <3>4 DEF IInv, NoneRefused
      <4>2. IsFiniteSet(Chosen) /\ Cardinality(Chosen) <= Len(selected)
        BY EntriesCounted DEF Chosen, IInv, TypeOK
      <4>3. \A n \in Nat : IsFiniteSet(1..n) /\ Cardinality(1..n) = n
        BY FS_Interval
      <4>4. Cardinality(Chosen) \in Nat /\ Len(size) <= Cardinality(Chosen)
        BY <1>1, <4>1, <4>2, <4>3, FS_Subset, FS_CardinalityType
      <4> QED
        BY <1>1, <3>4, <4>2, <4>4 DEF NeedFloor
    <3> QED
      BY <3>2, <3>3, <3>4
  <2>2. CASE Len(selected) >= MaxSelected \/ TargetMet
    <3>1. Len(selected) = MaxSelected \/ TargetMet
      BY <1>1, <2>2
    <3>2. ~NeedFloor
      BY <1>1, <3>1 DEF NeedFloor, TargetMet
    <3>3. passing > 0 => selected # <<>>
      BY <1>1, <3>2 DEF NeedFloor
    <3> QED
      BY <1>5, <3>1, <3>2, <3>3 DEF Settled, IInv, StrongKept
  <2> QED
    BY <1>5, <2>1, <2>2 DEF FillOver
<1>6. CASE stage = "fill" /\ FillOver /\ Leave(AfterFill)
  <2>1. /\ AfterFill \in {"relax", "done"}
        /\ AfterFill = "done" => ~NeedFloor
    BY DEF AfterFill
  <2>2. /\ TypeOK' /\ TargetOnlyForFloor'
        /\ Floor' = Floor /\ Ranks' = Ranks
        /\ \A r \in Ranks : Settled(r)' <=> Settled(r)
        /\ Chosen' = Chosen /\ UNCHANGED <<passing, selected>>
        /\ stage' = AfterFill /\ next' = 1
    BY <1>2, <1>6, <2>1
  <2>3. FloorReached'
    BY <1>1, <2>1, <2>2 DEF FloorReached, Done, NeedFloor
  <2>4. StrongKept' /\ RestSettled'
    BY <1>5, <1>6, <2>2 DEF StrongKept, RestSettled
  <2> QED
    BY <1>3, <2>1, <2>2, <2>3, <2>4 DEF IInv, OnlyStrong, NoneRefused, PastSettled
<1>7. CASE stage = "relax" /\ FillOver /\ Leave("done")
  <2>1. FloorReached'
    BY <1>1, <1>2, <1>5, <1>7 DEF FloorReached, Done, NeedFloor
  <2>2. StrongKept' /\ RestSettled'
    BY <1>2, <1>5, <1>7 DEF StrongKept, RestSettled
  <2> QED
    BY <1>2, <1>7, <2>1, <2>2 DEF IInv, OnlyStrong, NoneRefused, PastSettled
<1> QED
  BY <1>4, <1>6, <1>7 DEF Turn

\* Nothing changes, and the invariant stays.
LEMMA StutterIInv == IInv /\ UNCHANGED vars => IInv'
<1> SUFFICES ASSUME IInv, UNCHANGED vars PROVE IInv'
  OBVIOUS
<1>1. /\ UNCHANGED <<input, selected, fallback, used>> /\ UNCHANGED <<stage, next>>
      /\ stage' \in {"pass", "fill", "relax", "done"} /\ next' \in 1..(Len(size) + 1)
  BY DEF vars, IInv, TypeOK
<1>2. /\ TypeOK' /\ TargetOnlyForFloor'
      /\ Floor' = Floor /\ Ranks' = Ranks /\ NeedFloor' = NeedFloor
      /\ \A r \in Ranks : Settled(r)' <=> Settled(r)
      /\ Chosen' = Chosen /\ UNCHANGED <<passing, selected>>
  BY <1>1, NothingAdded
<1>3. Ranks = 1..Len(size) /\ Len(size) \in Nat /\ next \in 1..(Len(size) + 1)
  BY FloorBounds DEF IInv, TypeOK
<1>4. 1..(next - 1) \subseteq Ranks
  BY <1>3
<1>5. PastSettled' /\ RestSettled'
  BY <1>1, <1>2, <1>4 DEF IInv, PastSettled, RestSettled
<1> QED
  BY <1>1, <1>2, <1>5 DEF IInv, OnlyStrong, StrongKept, NoneRefused, FloorReached, Done

\* What the invariant says of every state.
LEMMA WeakHolds == IInv => WeakIsTrue
<1> SUFFICES ASSUME IInv, Done, Len(size) > 0
             PROVE  Chosen \cap 1..passing = {} <=> passing = 0
  BY DEF WeakIsTrue
<1>1. passing \in Nat
  BY DEF IInv, TypeOK
<1>2. passing = 0 => 1..passing = {}
  OBVIOUS
<1>3. passing > 0 => Chosen \cap 1..passing # {}
  BY DEF IInv, StrongKept, Done
<1> QED
  BY <1>1, <1>2, <1>3

LEMMA StatesHold ==
    IInv => TypeOK /\ FloorReached /\ TargetOnlyForFloor /\ WeakIsTrue /\ NothingUsefulLeft
BY WeakHolds DEF IInv, RestSettled, Settled, NothingUsefulLeft, Done

-----------------------------------------------------------------------------
(* Numbers and orders. *)

\* A non-empty set of natural numbers has a least element.
LEMMA Least ==
    ASSUME NEW T, T \subseteq Nat, T # {}
    PROVE  \E n \in T : \A m \in T : n <= m
<1> DEFINE R == {ss \in Nat \X Nat : ss[1] < ss[2]}
<1>1. IsWellFoundedOn(R, Nat)
  BY NatLessThanWellFounded DEF OpToRel
<1>2. PICK x \in T : \A y \in T : <<y, x>> \notin R
  <2>. HIDE DEF R
  <2>. QED  BY <1>1, WFMin
<1>3. \A y \in T : x <= y
  <2>1. SUFFICES ASSUME NEW y \in T, ~(x <= y)  PROVE FALSE
    OBVIOUS
  <2>2. x \in Nat /\ y \in Nat
    OBVIOUS
  <2>3. y < x
    BY <2>1, <2>2
  <2>4. <<y, x>> \in R
    BY <2>2, <2>3
  <2>. QED  BY <1>2, <2>4
<1>. QED  BY <1>3

\* A set of natural numbers with 0, and with n + 1 if with n, has them all.
LEMMA Induction ==
    ASSUME NEW T, 0 \in T, \A n \in Nat : n \in T => n + 1 \in T
    PROVE  \A n \in Nat : n \in T
<1>1. SUFFICES ASSUME NEW k \in Nat, k \notin T  PROVE FALSE
  OBVIOUS
<1>2. PICK n \in Nat \ T : \A m \in Nat \ T : n <= m
  BY <1>1, Least
<1>3. n - 1 \in Nat /\ n - 1 + 1 = n /\ ~(n <= n - 1)
  <2>1. n # 0
    OBVIOUS
  <2>. QED  BY <2>1
<1>4. n - 1 \in T
  BY <1>2, <1>3
<1>. QED  BY <1>3, <1>4

\* Where each member has the set of those up to it, itself included, and of any two of
\* these sets one is a proper part of the other, the sizes of the sets number the
\* members from one on.
LEMMA Ranking ==
    ASSUME NEW S, IsFiniteSet(S), NEW U \in [S -> SUBSET S],
           \A x \in S : x \in U[x],
           \A x, y \in S : x # y => /\ U[x] # U[y]
                                    /\ U[x] \subseteq U[y] \/ U[y] \subseteq U[x]
    PROVE  /\ Cardinality(S) \in Nat
           /\ \A x \in S : Cardinality(U[x]) \in 1..Cardinality(S)
           /\ \A x, y \in S : Cardinality(U[x]) = Cardinality(U[y]) => x = y
           /\ \A r \in 1..Cardinality(S) : \E x \in S : Cardinality(U[x]) = r
<1> DEFINE n == Cardinality(S)
           rank == [x \in S |-> Cardinality(U[x])]
<1>1. n \in Nat
  BY FS_CardinalityType
<1>2. ASSUME NEW x \in S
      PROVE  IsFiniteSet(U[x]) /\ Cardinality(U[x]) \in 1..n
  <2>1. IsFiniteSet(U[x]) /\ Cardinality(U[x]) <= n
    BY FS_Subset
  <2>2. Cardinality(U[x]) \in Nat
    BY <2>1, FS_CardinalityType
  <2>3. Cardinality(U[x]) # 0
    BY <2>1, FS_EmptySet
  <2>. QED  BY <1>1, <2>1, <2>2, <2>3
<1>3. ASSUME NEW x \in S, NEW y \in S, Cardinality(U[x]) = Cardinality(U[y])
      PROVE  x = y
  <2>1. IsFiniteSet(U[x]) /\ IsFiniteSet(U[y])
    BY <1>2
  <2>2. CASE U[x] \subseteq U[y]
    BY <1>3, <2>1, <2>2, FS_Subset
  <2>3. CASE U[y] \subseteq U[x]
    BY <1>3, <2>1, <2>3, FS_Subset
  <2>. QED  BY <2>2, <2>3
<1>4. rank \in Injection(S, 1..n)
  BY <1>2, <1>3 DEF Injection, IsInjective
<1>5. IsFiniteSet(1..n) /\ Cardinality(1..n) = n
  <2>1. IsFiniteSet(1..n) /\ Cardinality(1..n) = IF 1 > n THEN 0 ELSE n - 1 + 1
    BY <1>1, FS_Interval
  <2>. QED  BY <1>1, <2>1
<1>6. rank \in Surjection(S, 1..n)
  BY <1>4, <1>5, FS_Injection
<1>7. \A r \in 1..n : \E x \in S : Cardinality(U[x]) = r
  BY <1>6 DEF Surjection
<1>. QED  BY <1>1, <1>2, <1>3, <1>7

\* sorted() puts every member at one place, in the order of the keys.
LEMMA InOrderLists ==
    ASSUME NEW S, IsFiniteSet(S), NEW key,
           \A x \in S : key[x] \in Int,
           \A x, y \in S : key[x] = key[y] => x = y
    PROVE  /\ InOrder(S, key) \in Seq(S)
           /\ \A i, j \in DOMAIN InOrder(S, key) :
                 i < j => key[InOrder(S, key)[i]] < key[InOrder(S, key)[j]]
           /\ \A x \in S : \E i \in DOMAIN InOrder(S, key) : InOrder(S, key)[i] = x
<1> DEFINE U == [x \in S |-> {y \in S : key[y] <= key[x]}]
           n == Cardinality(S)
           s == InOrder(S, key)
<1>1. ASSUME NEW x \in S, NEW y \in S, key[x] <= key[y]
      PROVE  U[x] \subseteq U[y]
  <2>1. \A z \in S : key[z] <= key[x] => key[z] <= key[y]
    BY <1>1
  <2>. QED  BY <2>1
<1>2. \A x, y \in S : x # y => /\ U[x] # U[y]
                               /\ U[x] \subseteq U[y] \/ U[y] \subseteq U[x]
  <2>1. SUFFICES ASSUME NEW x \in S, NEW y \in S, key[x] < key[y]
                 PROVE  U[x] # U[y] /\ U[x] \subseteq U[y]
    OBVIOUS
  <2>2. y \in U[y] /\ y \notin U[x]
    BY <2>1
  <2>. QED  BY <1>1, <2>1, <2>2
<1>3. U \in [S -> SUBSET S] /\ \A x \in S : x \in U[x]
  OBVIOUS
<1>4. /\ n \in Nat
      /\ \A x \in S : Cardinality(U[x]) \in 1..n
      /\ \A x, y \in S : Cardinality(U[x]) = Cardinality(U[y]) => x = y
      /\ \A r \in 1..n : \E x \in S : Cardinality(U[x]) = r
  <2>. HIDE DEF U
  <2>. QED  BY <1>2, <1>3, Ranking
<1>5. \A x \in S : Cardinality({y \in S : key[y] <= key[x]}) = Cardinality(U[x])
  OBVIOUS
<1>6. s = [r \in 1..n |-> CHOOSE x \in S : Cardinality({y \in S : key[y] <= key[x]}) = r]
  BY DEF InOrder
<1>7. \A x, y \in S : key[x] <= key[y] => Cardinality(U[x]) <= Cardinality(U[y])
  <2>. SUFFICES ASSUME NEW x \in S, NEW y \in S, key[x] <= key[y]
                PROVE  Cardinality(U[x]) <= Cardinality(U[y])
    OBVIOUS
  <2>1. U[x] \subseteq U[y] /\ U[y] \subseteq S
    BY <1>1, <1>3
  <2>. HIDE DEF U
  <2>2. IsFiniteSet(U[y])
    BY <2>1, FS_Subset
  <2>. QED  BY <2>1, <2>2, FS_Subset
<1>. HIDE DEF U, s, n
<1>8. ASSUME NEW r \in 1..n
      PROVE  s[r] \in S /\ Cardinality(U[s[r]]) = r
  <2>. DEFINE c == CHOOSE x \in S : Cardinality({y \in S : key[y] <= key[x]}) = r
  <2>1. s[r] = c
    BY <1>6
  <2>2. c \in S /\ Cardinality({y \in S : key[y] <= key[c]}) = r
    <3>1. PICK x \in S : Cardinality(U[x]) = r
      BY <1>4
    <3>2. Cardinality({y \in S : key[y] <= key[x]}) = r
      BY <1>5, <3>1
    <3>. QED  BY <3>2
  <2>. HIDE DEF c
  <2>. QED  BY <1>5, <2>1, <2>2
<1>9. s \in Seq(S) /\ DOMAIN s = 1..n
  <2>1. s \in [1..n -> S]
    BY <1>6, <1>8
  <2>. QED  BY <1>4, <2>1, SeqDef
<1>10. ASSUME NEW i \in 1..n, NEW j \in 1..n, i < j
       PROVE  key[s[i]] < key[s[j]]
  <2>1. /\ s[i] \in S /\ Cardinality(U[s[i]]) = i
        /\ s[j] \in S /\ Cardinality(U[s[j]]) = j
    BY <1>8
  <2>2. ~(key[s[j]] <= key[s[i]])
    BY <1>4, <1>7, <1>10, <2>1
  <2>. QED  BY <2>1, <2>2
<1>11. \A x \in S : \E i \in 1..n : s[i] = x
  BY <1>4, <1>8
<1>. QED  BY <1>9, <1>10, <1>11 DEF s

\* The least member of a set of numbers is Min.
LEMMA MinLeast ==
    ASSUME NEW T, T \subseteq Nat, T # {}
    PROVE  Min(T) \in T /\ \A x \in T : Min(T) <= x
BY Least DEF Min

-----------------------------------------------------------------------------
(* The runs of a document. *)

\* What Merge chooses: different places in a document, any order of the scores.
Placed(at, order) ==
    /\ at \in [Chosen -> Places]
    /\ \A r, s \in Chosen : r # s /\ source[r] = source[s] => at[r] # at[s]
    /\ order \in SetToSeqs(Chosen)

\* The selected candidates are finitely many candidates.
LEMMA ChosenFacts ==
    ASSUME TypeOK
    PROVE  /\ IsFiniteSet(Chosen)
           /\ Chosen \subseteq Ranks
           /\ \A r \in Chosen : source[r] \in Sources /\ size[r] \in Nat \ {0}
<1>1. selected \in Seq(Ranks)
  BY DEF TypeOK
<1>2. IsFiniteSet(Chosen)
  BY <1>1, EntriesCounted DEF Chosen
<1>3. Chosen \subseteq Ranks
  BY <1>1, ElementOfSeq DEF Chosen
<1>4. \A r \in Ranks : size[r] \in Sizes /\ source[r] \in Sources
  BY ElementOfSeq DEF TypeOK, Ranks
<1>. QED  BY <1>2, <1>3, <1>4, SelectionAssumption

\* The chunks of a document follow the places in it.
LEMMA ChunksFacts ==
    ASSUME TypeOK, NEW at, NEW order, Placed(at, order), NEW d
    PROVE  /\ ChunksOf(d, at, order) \in Seq(Chosen)
           /\ \A i \in DOMAIN ChunksOf(d, at, order) :
                 /\ source[ChunksOf(d, at, order)[i]] = d
                 /\ at[ChunksOf(d, at, order)[i]] \in Int
           /\ \A i, j \in DOMAIN ChunksOf(d, at, order) :
                 i < j => at[ChunksOf(d, at, order)[i]] < at[ChunksOf(d, at, order)[j]]
           /\ \A r \in Chosen : source[r] = d =>
                 \E i \in DOMAIN ChunksOf(d, at, order) : ChunksOf(d, at, order)[i] = r
<1> DEFINE D == {r \in Chosen : source[r] = d}
           c == ChunksOf(d, at, order)
<1>1. IsFiniteSet(D)
  BY ChosenFacts, FS_Subset
<1>2. \A r \in D : at[r] \in Int
  <2>1. Places \subseteq Int
    BY ContextAssumption
  <2>2. at \in [Chosen -> Places]
    BY DEF Placed
  <2>. QED  BY <2>1, <2>2
<1>3. \A r, s \in D : at[r] = at[s] => r = s
  BY DEF Placed
<1>4. c = InOrder(D, at)
  BY DEF ChunksOf
<1>5. /\ c \in Seq(D)
      /\ \A i, j \in DOMAIN c : i < j => at[c[i]] < at[c[j]]
      /\ \A r \in D : \E i \in DOMAIN c : c[i] = r
  <2>. HIDE DEF D, c
  <2>. QED  BY <1>1, <1>2, <1>3, <1>4, InOrderLists
<1>. HIDE DEF c
<1>6. \A i \in DOMAIN c : c[i] \in D
  <2>. HIDE DEF D
  <2>. QED  BY <1>5, ElementOfSeq
<1>7. c \in Seq(Chosen)
  BY <1>5, SeqMonotonic
<1>. QED  BY <1>2, <1>5, <1>6, <1>7 DEF c

\* A run goes from its start to just before the next start, one place after the other.
LEMMA RunBounds ==
    ASSUME NEW S, NEW c \in Seq(S), NEW at, NEW i \in Starts(c, at)
    PROVE  /\ i \in 1..Len(c) /\ Len(c) \in Nat
           /\ EndOf(c, i, at) \in i..Len(c)
           /\ EndOf(c, i, at) = Len(c) \/ EndOf(c, i, at) + 1 \in Starts(c, at)
           /\ \A j \in Starts(c, at) : i < j => EndOf(c, i, at) < j
           /\ \A k \in i..EndOf(c, i, at) : k # i => at[c[k]] = at[c[k - 1]] + 1
<1> DEFINE n == Len(c)
           T == {j \in i..n : j = n \/ j + 1 \in Starts(c, at)}
           e == EndOf(c, i, at)
<1>1. n \in Nat /\ DOMAIN c = 1..n /\ i \in 1..n /\ Starts(c, at) \subseteq 1..n
  BY LenProperties DEF Starts
<1>2. n \in T /\ T \subseteq Nat
  BY <1>1
<1>3. e = Min(T)
  BY DEF EndOf
<1>. HIDE DEF e
<1>4. e \in T /\ \A x \in T : e <= x
  <2>. HIDE DEF T
  <2>. QED  BY <1>2, <1>3, MinLeast
<1>5. ASSUME NEW j \in Starts(c, at), i < j
      PROVE  e < j
  <2>1. j - 1 \in T /\ j \in Nat
    <3>1. j \in 1..n /\ j - 1 \in i..n /\ j - 1 + 1 = j
      BY <1>1, <1>5
    <3>. QED  BY <1>5, <3>1
  <2>2. e <= j - 1 /\ e \in Nat
    BY <1>2, <1>4, <2>1
  <2>. QED  BY <2>1, <2>2
<1>6. ASSUME NEW k \in i..e, k # i
      PROVE  at[c[k]] = at[c[k - 1]] + 1
  <2>1. k \in 1..n /\ k # 1 /\ i < k /\ ~(e < k)
    <3>1. e \in i..n
      BY <1>4
    <3>. QED  BY <1>1, <1>6, <3>1
  <2>2. k \notin Starts(c, at)
    BY <1>5, <2>1
  <2>. QED  BY <1>1, <2>1, <2>2 DEF Starts, Follows
<1>. QED  BY <1>1, <1>4, <1>5, <1>6 DEF e

\* The text of a run.
LEMMA RunText ==
    ASSUME NEW S, NEW c \in Seq(S), NEW at, NEW i \in Starts(c, at)
    PROVE  LET e == EndOf(c, i, at)
               g == SubSeq(c, i, e)
           IN  /\ g \in Seq(S) /\ Len(g) = e - i + 1 /\ Len(g) \in Nat \ {0}
               /\ \A k \in 1..Len(g) : g[k] = c[i + k - 1] /\ i + k - 1 \in i..e
               /\ \A m \in i..e : m - i + 1 \in 1..Len(g) /\ g[m - i + 1] = c[m]
<1> DEFINE e == EndOf(c, i, at)
           g == SubSeq(c, i, e)
<1>1. Len(c) \in Nat /\ i \in 1..Len(c) /\ e \in i..Len(c) /\ \A m \in i..e : m \in 1..Len(c)
  BY RunBounds
<1>. HIDE DEF e
<1>2. /\ g \in Seq(S) /\ Len(g) = e - i + 1
      /\ \A k \in 1..(e - i + 1) : g[k] = c[i + k - 1]
  <2>1. i \in 1..Len(c) + 1 /\ e \in (i - 1)..Len(c) /\ i <= e
    BY <1>1
  <2>. QED  BY <1>1, <2>1, SubSeqProperties
<1>. HIDE DEF g
<1>3. Len(g) \in Nat \ {0}
  BY <1>1, <1>2
<1>4. \A k \in 1..Len(g) : g[k] = c[i + k - 1] /\ i + k - 1 \in i..e
  BY <1>1, <1>2
<1>5. ASSUME NEW m \in i..e
      PROVE  m - i + 1 \in 1..Len(g) /\ g[m - i + 1] = c[m]
  <2>1. m - i + 1 \in 1..Len(g) /\ i + (m - i + 1) - 1 = m
    BY <1>1, <1>2
  <2>. QED  BY <1>4, <2>1
<1>. QED  BY <1>2, <1>3, <1>4, <1>5 DEF g, e

\* One stretch of one document.
Stretch(g, at) ==
    /\ g \in Seq(Chosen)
    /\ Len(g) \in Nat \ {0}
    /\ \A k, l \in 1..Len(g) : /\ source[g[k]] = source[g[l]]
                               /\ at[g[k]] \in Int
                               /\ k <= l => at[g[k]] <= at[g[l]]
                               /\ k = l + 1 => at[g[k]] = at[g[l]] + 1

Shared(g, h) == \E k \in 1..Len(g), l \in 1..Len(h) : g[k] = h[l]

\* The runs of a document are stretches of it, hold its selected chunks once each, and
\* none goes on where another one ends.
LEMMA DocumentRuns ==
    ASSUME TypeOK, NEW at, NEW order, Placed(at, order), NEW d
    PROVE  LET R == RunsIn(ChunksOf(d, at, order), at)
           IN  /\ \A g \in R : Stretch(g, at) /\ source[g[1]] = d
               /\ \A r \in Chosen : source[r] = d => \E g \in R : \E k \in 1..Len(g) : g[k] = r
               /\ \A g, h \in R : Shared(g, h) => g = h
               /\ \A g, h \in R : at[h[1]] # at[g[Len(g)]] + 1
<1> DEFINE c == ChunksOf(d, at, order)
           R == RunsIn(c, at)
           E(i) == EndOf(c, i, at)
           I == Starts(c, at)
<1>1. /\ c \in Seq(Chosen)
      /\ \A i \in DOMAIN c : source[c[i]] = d /\ at[c[i]] \in Int
      /\ \A i, j \in DOMAIN c : i < j => at[c[i]] < at[c[j]]
      /\ \A r \in Chosen : source[r] = d => \E i \in DOMAIN c : c[i] = r
  BY ChunksFacts
<1>. HIDE DEF c
<1>2. Len(c) \in Nat /\ DOMAIN c = 1..Len(c) /\ I \subseteq 1..Len(c)
  BY <1>1, LenProperties DEF Starts
<1>3. R = {SubSeq(c, i, E(i)) : i \in I}
  BY DEF RunsIn
<1>4. ASSUME NEW i \in I
      PROVE  /\ E(i) \in i..Len(c) /\ E(i) \in 1..Len(c) /\ i \in 1..Len(c)
             /\ \A m \in i..E(i) : m \in 1..Len(c)
             /\ E(i) = Len(c) \/ E(i) + 1 \in I
             /\ \A j \in I : i < j => E(i) < j
             /\ \A k \in i..E(i) : k # i => at[c[k]] = at[c[k - 1]] + 1
  <2>1. /\ E(i) \in i..Len(c) /\ i \in 1..Len(c)
        /\ E(i) = Len(c) \/ E(i) + 1 \in I
        /\ \A j \in I : i < j => E(i) < j
        /\ \A k \in i..E(i) : k # i => at[c[k]] = at[c[k - 1]] + 1
    BY <1>1, RunBounds
  <2>. HIDE DEF E, I
  <2>2. E(i) \in 1..Len(c) /\ \A m \in i..E(i) : m \in 1..Len(c)
    BY <1>2, <2>1
  <2>. QED  BY <2>1, <2>2
<1>5. ASSUME NEW i \in I
      PROVE  LET g == SubSeq(c, i, E(i))
             IN  /\ g \in Seq(Chosen) /\ Len(g) = E(i) - i + 1 /\ Len(g) \in Nat \ {0}
                 /\ \A k \in 1..Len(g) : g[k] = c[i + k - 1] /\ i + k - 1 \in i..E(i)
                 /\ \A m \in i..E(i) : m - i + 1 \in 1..Len(g) /\ g[m - i + 1] = c[m]
  BY <1>1, RunText
<1>. HIDE DEF E, I, R
<1>6. ASSUME NEW g \in R
      PROVE  Stretch(g, at) /\ source[g[1]] = d
  <2>1. PICK i \in I : g = SubSeq(c, i, E(i))
    BY <1>3
  <2>2. /\ g \in Seq(Chosen) /\ Len(g) = E(i) - i + 1 /\ Len(g) \in Nat \ {0}
        /\ \A k \in 1..Len(g) : g[k] = c[i + k - 1] /\ i + k - 1 \in i..E(i)
    BY <1>5, <2>1
  <2>3. \A k \in 1..Len(g) : i + k - 1 \in 1..Len(c) /\ source[g[k]] = d /\ at[g[k]] \in Int
    <3>. SUFFICES ASSUME NEW k \in 1..Len(g)
                  PROVE  i + k - 1 \in 1..Len(c) /\ source[g[k]] = d /\ at[g[k]] \in Int
      OBVIOUS
    <3>1. PICK m \in i..E(i) : m = i + k - 1 /\ g[k] = c[m]
      BY <2>2
    <3>2. m \in 1..Len(c)
      BY <1>4
    <3>. QED  BY <1>1, <1>2, <3>1, <3>2
  <2>4. ASSUME NEW k \in 1..Len(g), NEW l \in 1..Len(g)
        PROVE  /\ k <= l => at[g[k]] <= at[g[l]]
               /\ k = l + 1 => at[g[k]] = at[g[l]] + 1
    <3>1. CASE k < l
      <4>1. i + k - 1 < i + l - 1
        BY <1>2, <3>1
      <4>2. at[c[i + k - 1]] < at[c[i + l - 1]]
        BY <1>1, <1>2, <2>3, <4>1
      <4>. QED  BY <2>2, <2>3, <3>1, <4>2
    <3>2. CASE k = l
      BY <2>3, <3>2
    <3>3. CASE k = l + 1
      <4>1. i + k - 1 # i /\ (i + k - 1) - 1 = i + l - 1
        BY <1>2, <3>3
      <4>2. at[c[i + k - 1]] = at[c[(i + k - 1) - 1]] + 1
        BY <1>4, <2>2, <4>1
      <4>. QED  BY <2>2, <3>3, <4>1, <4>2
    <3>. QED  BY <2>2, <3>1, <3>2, <3>3
  <2>5. Stretch(g, at)
    BY <2>2, <2>3, <2>4 DEF Stretch
  <2>6. 1 \in 1..Len(g)
    BY <2>2
  <2>. QED  BY <2>3, <2>5, <2>6
<1>7. ASSUME NEW r \in Chosen, source[r] = d
      PROVE  \E g \in R : \E k \in 1..Len(g) : g[k] = r
  <2>1. PICK m \in 1..Len(c) : c[m] = r
    BY <1>1, <1>2, <1>7
  <2>2. PICK i \in I : i <= m /\ \A j \in I : j <= m => j <= i
    <3>. DEFINE T == {t \in Nat : m - t \in I}
    <3>1. 1 \in I
      BY <1>2 DEF I, Starts
    <3>2. m - 1 \in T /\ T \subseteq Nat
      BY <2>1, <3>1
    <3>3. PICK t \in T : \A u \in T : t <= u
      <4>. HIDE DEF T
      <4>. QED  BY <3>2, Least
    <3>4. m - t \in I /\ m - t <= m
      BY <2>1, <3>3
    <3>5. ASSUME NEW j \in I, j <= m
          PROVE  j <= m - t
      <4>1. j \in Nat /\ m - j \in Nat /\ m - (m - j) = j
        BY <1>2, <2>1, <3>5
      <4>2. t <= m - j /\ t \in Nat
        BY <3>3, <4>1
      <4>. QED  BY <2>1, <4>1, <4>2
    <3>. QED  BY <3>4, <3>5
  <2>3. m <= E(i)
    <3>1. SUFFICES ASSUME E(i) < m  PROVE FALSE
      BY <1>4, <2>1
    <3>2. E(i) + 1 \in I /\ E(i) + 1 <= m /\ ~(E(i) + 1 <= i)
      BY <1>2, <1>4, <2>1, <3>1
    <3>. QED  BY <2>2, <3>2
  <2>4. m \in i..E(i)
    BY <1>2, <1>4, <2>1, <2>2, <2>3
  <2>5. SubSeq(c, i, E(i)) \in R
    BY <1>3
  <2>6. /\ m - i + 1 \in 1..Len(SubSeq(c, i, E(i)))
        /\ SubSeq(c, i, E(i))[m - i + 1] = c[m]
    BY <1>5, <2>4
  <2>. QED  BY <2>1, <2>5, <2>6
<1>8. ASSUME NEW g \in R, NEW h \in R, Shared(g, h)
      PROVE  g = h
  <2>1. PICK i \in I : g = SubSeq(c, i, E(i))
    BY <1>3
  <2>2. PICK j \in I : h = SubSeq(c, j, E(j))
    BY <1>3
  <2>3. PICK k \in 1..Len(g), l \in 1..Len(h) : g[k] = h[l]
    BY <1>8 DEF Shared
  <2>4. g[k] = c[i + k - 1] /\ i + k - 1 \in i..E(i)
    BY <1>5, <2>1
  <2>5. h[l] = c[j + l - 1] /\ j + l - 1 \in j..E(j)
    BY <1>5, <2>2
  <2>6. \A m, p \in 1..Len(c) : c[m] = c[p] => m = p
    <3>. SUFFICES ASSUME NEW m \in 1..Len(c), NEW p \in 1..Len(c), c[m] = c[p], m < p
                  PROVE  FALSE
      OBVIOUS
    <3>1. at[c[m]] < at[c[p]] /\ at[c[m]] \in Int
      BY <1>1, <1>2
    <3>. QED  BY <3>1
  <2>7. i + k - 1 = j + l - 1
    <3>1. PICK m \in i..E(i) : m = i + k - 1 /\ g[k] = c[m]
      BY <2>4
    <3>2. PICK p \in j..E(j) : p = j + l - 1 /\ h[l] = c[p]
      BY <2>5
    <3>3. m \in 1..Len(c) /\ p \in 1..Len(c)
      BY <1>4
    <3>. QED  BY <2>3, <2>6, <3>1, <3>2, <3>3
  <2>8. i = j
    <3>1. i \in Int /\ j \in Int /\ E(i) \in Int /\ E(j) \in Int
      BY <1>2, <1>4
    <3>2. ~(i < j)
      BY <1>4, <2>4, <2>5, <2>7, <3>1
    <3>3. ~(j < i)
      BY <1>4, <2>4, <2>5, <2>7, <3>1
    <3>. QED  BY <3>1, <3>2, <3>3
  <2>. QED  BY <2>1, <2>2, <2>8
<1>9. ASSUME NEW g \in R, NEW h \in R, at[h[1]] = at[g[Len(g)]] + 1
      PROVE  FALSE
  <2>1. PICK i \in I : g = SubSeq(c, i, E(i))
    BY <1>3
  <2>2. PICK j \in I : h = SubSeq(c, j, E(j))
    BY <1>3
  <2>. DEFINE e == E(i)
  <2>3. e \in i..Len(c) /\ e \in 1..Len(c) /\ j \in 1..Len(c) /\ E(j) \in j..Len(c)
    BY <1>4
  <2>4. g[Len(g)] = c[e]
    <3>1. e \in i..e /\ e - i + 1 = Len(g)
      BY <1>2, <1>5, <2>1, <2>3
    <3>. QED  BY <1>5, <2>1, <3>1
  <2>5. h[1] = c[j]
    <3>1. j \in j..E(j) /\ j - j + 1 = 1
      BY <2>3
    <3>. QED  BY <1>5, <2>2, <3>1
  <2>. HIDE DEF e
  <2>6. at[c[j]] = at[c[e]] + 1 /\ at[c[e]] \in Int /\ at[c[j]] \in Int
    BY <1>1, <1>2, <1>9, <2>3, <2>4, <2>5
  <2>7. e < j
    <3>1. CASE j < e
      <4>1. at[c[j]] < at[c[e]]
        BY <1>1, <1>2, <2>3, <3>1
      <4>. QED  BY <2>6, <4>1
    <3>2. CASE j = e
      BY <2>6, <3>2
    <3>. QED  BY <2>3, <3>1, <3>2
  <2>8. ~(e + 1 < j)
    <3>1. SUFFICES ASSUME e + 1 < j  PROVE FALSE
      OBVIOUS
    <3>2. e + 1 \in 1..Len(c) /\ e < e + 1
      BY <1>2, <2>3, <3>1
    <3>3. at[c[e]] < at[c[e + 1]] /\ at[c[e + 1]] < at[c[j]] /\ at[c[e + 1]] \in Int
      BY <1>1, <1>2, <2>3, <3>1, <3>2
    <3>. QED  BY <2>6, <3>3
  <2>9. j = e + 1 /\ j # 1 /\ j - 1 = e
    BY <2>3, <2>7, <2>8
  <2>. QED  BY <2>6, <2>9 DEF I, Starts, Follows
<1>. QED  BY <1>6, <1>7, <1>8, <1>9 DEF R, c

\* The runs of all documents.
AllRuns(at, order) == UNION {RunsIn(ChunksOf(d, at, order), at) : d \in Sources}

LEMMA AllRunsFacts ==
    ASSUME TypeOK, NEW at, NEW order, Placed(at, order)
    PROVE  LET G == AllRuns(at, order)
           IN  /\ \A g \in G : Stretch(g, at)
               /\ \A r \in Chosen : \E g \in G : \E k \in 1..Len(g) : g[k] = r
               /\ \A g, h \in G : Shared(g, h) => g = h
               /\ \A g, h \in G : source[g[Len(g)]] = source[h[1]] => at[h[1]] # at[g[Len(g)]] + 1
<1> DEFINE G == AllRuns(at, order)
           R(d) == RunsIn(ChunksOf(d, at, order), at)
<1>1. ASSUME NEW d
      PROVE  /\ \A g \in R(d) : Stretch(g, at) /\ source[g[1]] = d
             /\ \A r \in Chosen : source[r] = d => \E g \in R(d) : \E k \in 1..Len(g) : g[k] = r
             /\ \A g, h \in R(d) : Shared(g, h) => g = h
             /\ \A g, h \in R(d) : at[h[1]] # at[g[Len(g)]] + 1
  BY DocumentRuns
<1>2. G = UNION {R(d) : d \in Sources}
  BY DEF AllRuns
<1>. HIDE DEF R, G
<1>3. ASSUME NEW g \in G
      PROVE  /\ Stretch(g, at)
             /\ \E d \in Sources : g \in R(d) /\ \A k \in 1..Len(g) : source[g[k]] = d
             /\ 1 \in 1..Len(g) /\ Len(g) \in 1..Len(g)
  <2>1. PICK d \in Sources : g \in R(d)
    BY <1>2
  <2>2. Stretch(g, at) /\ source[g[1]] = d
    BY <1>1, <2>1
  <2>3. 1 \in 1..Len(g) /\ Len(g) \in 1..Len(g)
    BY <2>2 DEF Stretch
  <2>4. \A k \in 1..Len(g) : source[g[k]] = d
    BY <2>2, <2>3 DEF Stretch
  <2>. QED  BY <2>1, <2>2, <2>3, <2>4
<1>4. ASSUME NEW r \in Chosen
      PROVE  \E g \in G : \E k \in 1..Len(g) : g[k] = r
  <2>1. source[r] \in Sources
    BY ChosenFacts
  <2>2. PICK g \in R(source[r]) : \E k \in 1..Len(g) : g[k] = r
    BY <1>1
  <2>3. g \in G
    BY <1>2, <2>1
  <2>. QED  BY <2>2, <2>3
<1>5. ASSUME NEW g \in G, NEW h \in G, Shared(g, h)
      PROVE  g = h
  <2>1. PICK d \in Sources : g \in R(d) /\ \A k \in 1..Len(g) : source[g[k]] = d
    BY <1>3
  <2>2. PICK e \in Sources : h \in R(e) /\ \A k \in 1..Len(h) : source[h[k]] = e
    BY <1>3
  <2>3. d = e
    BY <1>5, <2>1, <2>2 DEF Shared
  <2>. QED  BY <1>1, <1>5, <2>1, <2>2, <2>3
<1>6. ASSUME NEW g \in G, NEW h \in G, source[g[Len(g)]] = source[h[1]]
      PROVE  at[h[1]] # at[g[Len(g)]] + 1
  <2>1. PICK d \in Sources : g \in R(d) /\ \A k \in 1..Len(g) : source[g[k]] = d
    BY <1>3
  <2>2. PICK e \in Sources : h \in R(e) /\ \A k \in 1..Len(h) : source[h[k]] = e
    BY <1>3
  <2>3. d = e
    BY <1>3, <1>6, <2>1, <2>2
  <2>. QED  BY <1>1, <2>1, <2>2, <2>3
<1>. QED  BY <1>3, <1>4, <1>5, <1>6 DEF G

\* Every selected candidate has its place in the order of the scores.
LEMMA OrderFacts ==
    ASSUME TypeOK, NEW at, NEW order, Placed(at, order)
    PROVE  /\ DOMAIN order \subseteq Nat
           /\ \A r \in Chosen : \E i \in DOMAIN order : order[i] = r
<1> DEFINE n == Cardinality(Chosen)
<1>1. IsFiniteSet(Chosen) /\ n \in Nat
  BY ChosenFacts, FS_CardinalityType
<1>2. order \in [1..n -> Chosen] /\ \A i, j \in 1..n : i # j => order[i] # order[j]
  BY DEF Placed, SetToSeqs
<1>3. order \in Injection(1..n, Chosen)
  BY <1>2 DEF Injection, IsInjective
<1>4. IsFiniteSet(1..n) /\ Cardinality(1..n) = n
  <2>1. IsFiniteSet(1..n) /\ Cardinality(1..n) = IF 1 > n THEN 0 ELSE n - 1 + 1
    BY <1>1, FS_Interval
  <2>. QED  BY <1>1, <2>1
<1>5. order \in Surjection(1..n, Chosen)
  BY <1>1, <1>3, <1>4, FS_Injection
<1>. QED  BY <1>1, <1>2, <1>5 DEF Surjection

\* The sections are the runs, the one with the best chunk first.
LEMMA MergedFacts ==
    ASSUME TypeOK, NEW at, NEW order, Placed(at, order)
    PROVE  LET s == Merged(at, order)
           IN  /\ s \in Seq(AllRuns(at, order))
               /\ \A g \in AllRuns(at, order) : \E i \in DOMAIN s : s[i] = g
               /\ \A i, j \in DOMAIN s : i < j => Best(s[i], order) < Best(s[j], order)
<1> DEFINE G == AllRuns(at, order)
           n == Cardinality(Chosen)
           key == [g \in G |-> Best(g, order)]
           s == Merged(at, order)
<1>1. /\ \A g \in G : Stretch(g, at)
      /\ \A g, h \in G : Shared(g, h) => g = h
  BY AllRunsFacts
<1>2. s = InOrder(G, key)
  BY DEF Merged, AllRuns
<1>. HIDE DEF G, s
<1>3. ASSUME NEW g \in G
      PROVE  /\ Best(g, order) \in DOMAIN order /\ Best(g, order) \in Nat
             /\ \E k \in 1..Len(g) : g[k] = order[Best(g, order)]
  <2>. DEFINE T == {i \in DOMAIN order : Contains(g, order[i])}
  <2>1. g \in Seq(Chosen) /\ 1 \in 1..Len(g) /\ DOMAIN g = 1..Len(g)
    BY <1>1, LenProperties DEF Stretch
  <2>2. g[1] \in Chosen
    BY <2>1, ElementOfSeq
  <2>3. T \subseteq Nat /\ T # {}
    <3>1. PICK i \in DOMAIN order : order[i] = g[1]
      BY <2>2, OrderFacts
    <3>2. i \in T
      BY <2>1, <3>1 DEF Contains
    <3>. QED  BY <3>2, OrderFacts
  <2>4. Best(g, order) \in T
    <3>1. Best(g, order) = Min(T)
      BY DEF Best
    <3>. HIDE DEF T
    <3>. QED  BY <2>3, <3>1, MinLeast
  <2>. QED  BY <2>3, <2>4 DEF Contains
<1>4. \A g, h \in G : key[g] = key[h] => g = h
  <2>. SUFFICES ASSUME NEW g \in G, NEW h \in G, Best(g, order) = Best(h, order)
                PROVE  g = h
    OBVIOUS
  <2>1. Shared(g, h)
    BY <1>3 DEF Shared
  <2>. QED  BY <1>1, <2>1
<1>5. IsFiniteSet(G)
  <2>1. IsFiniteSet(Chosen) /\ n \in Nat
    BY ChosenFacts, FS_CardinalityType
  <2>2. DOMAIN order = 1..n
    BY DEF Placed, SetToSeqs
  <2>3. IsFiniteSet(1..n)
    BY <2>1, FS_Interval
  <2>4. key \in Injection(G, 1..n)
    BY <1>3, <1>4, <2>2 DEF Injection, IsInjective
  <2>. HIDE DEF key, n
  <2>. QED  BY <2>3, <2>4, FS_Injection
<1>6. \A g \in G : key[g] = Best(g, order) /\ key[g] \in Int
  BY <1>3
<1>. HIDE DEF key
<1>7. /\ s \in Seq(G)
      /\ \A i, j \in DOMAIN s : i < j => key[s[i]] < key[s[j]]
      /\ \A g \in G : \E i \in DOMAIN s : s[i] = g
  BY <1>2, <1>4, <1>5, <1>6, InOrderLists
<1>8. \A i \in DOMAIN s : s[i] \in G
  BY <1>7, ElementOfSeq
<1>9. \A i, j \in DOMAIN s : i < j => Best(s[i], order) < Best(s[j], order)
  BY <1>6, <1>7, <1>8
<1>. QED  BY <1>7, <1>9 DEF s, G

-----------------------------------------------------------------------------
(* The context. *)

\* What Merge made is the selection: the sections are stretches of a document that are
\* disjoint, cover it, do not continue each other, and come in the order of their best.
LEMMA SectionsHold ==
    ASSUME TypeOK, Placed(place, ranking), sections = Merged(place, ranking)
    PROVE  SectionsAreSelection
<1> DEFINE G == AllRuns(place, ranking)
<1>1. /\ sections \in Seq(G)
      /\ \A g \in G : \E i \in DOMAIN sections : sections[i] = g
      /\ \A i, j \in DOMAIN sections : i < j => Best(sections[i], ranking) < Best(sections[j], ranking)
  BY MergedFacts
<1>2. /\ \A g \in G : Stretch(g, place)
      /\ \A r \in Chosen : \E g \in G : \E k \in 1..Len(g) : g[k] = r
      /\ \A g, h \in G : Shared(g, h) => g = h
      /\ \A g, h \in G : source[g[Len(g)]] = source[h[1]] => place[h[1]] # place[g[Len(g)]] + 1
  BY AllRunsFacts
<1>. HIDE DEF G
<1>3. Len(sections) \in Nat /\ DOMAIN sections = 1..Len(sections) /\ \A i \in DOMAIN sections : sections[i] \in G
  BY <1>1, ElementOfSeq
<1>4. \A i, j \in DOMAIN sections : sections[i] = sections[j] => i = j
  <2>. SUFFICES ASSUME NEW i \in DOMAIN sections, NEW j \in DOMAIN sections,
                       sections[i] = sections[j], i < j
                PROVE  FALSE
    BY <1>3
  <2>. DEFINE b == Best(sections[i], ranking)
  <2>1. b < b
    BY <1>1
  <2>2. b \in Nat
    <3>1. sections[i] \in Seq(Chosen) /\ 1 \in 1..Len(sections[i])
      BY <1>2, <1>3 DEF Stretch
    <3>. DEFINE T == {x \in DOMAIN ranking : Contains(sections[i], ranking[x])}
    <3>2. sections[i][1] \in Chosen
      BY <3>1, ElementOfSeq
    <3>3. PICK x \in DOMAIN ranking : ranking[x] = sections[i][1]
      BY <3>2, OrderFacts
    <3>4. T \subseteq Nat /\ x \in T
      BY <3>1, <3>3, OrderFacts DEF Contains
    <3>5. b = Min(T)
      BY DEF Best
    <3>. HIDE DEF T, b
    <3>. QED  BY <3>4, <3>5, MinLeast
  <2>. HIDE DEF b
  <2>. QED  BY <2>1, <2>2
<1>5. ASSUME NEW r \in Chosen
      PROVE  Cardinality({i \in DOMAIN sections : Contains(sections[i], r)}) = 1
  <2>1. PICK g \in G : \E k \in 1..Len(g) : g[k] = r
    BY <1>2
  <2>2. PICK i \in DOMAIN sections : sections[i] = g
    BY <1>1
  <2>3. ASSUME NEW j \in DOMAIN sections, Contains(sections[j], r)
        PROVE  j = i
    <3>1. Shared(sections[j], sections[i])
      BY <2>1, <2>2, <2>3 DEF Contains, Shared
    <3>. QED  BY <1>2, <1>3, <1>4, <3>1
  <2>4. Contains(sections[i], r)
    BY <2>1, <2>2 DEF Contains
  <2>5. {j \in DOMAIN sections : Contains(sections[j], r)} = {i}
    BY <2>3, <2>4
  <2>. QED  BY <2>5, FS_Singleton
<1>6. ASSUME NEW i \in DOMAIN sections
      PROVE  ToSet(sections[i]) \subseteq Chosen /\ Consecutive(sections[i])
  <2>1. Stretch(sections[i], place)
    BY <1>2, <1>3
  <2>. DEFINE g == sections[i]
  <2>2. ToSet(g) \subseteq Chosen
    BY <2>1, ElementOfSeq DEF Stretch, ToSet
  <2>3. ASSUME NEW k \in 1..Len(g) - 1
        PROVE  source[g[k]] = source[g[k + 1]] /\ place[g[k + 1]] = place[g[k]] + 1
    <3>1. k \in 1..Len(g) /\ k + 1 \in 1..Len(g)
      BY <2>1 DEF Stretch
    <3>. QED  BY <2>1, <3>1 DEF Stretch
  <2>. QED  BY <2>2, <2>3 DEF Consecutive
<1>7. ASSUME NEW i \in DOMAIN sections, NEW j \in DOMAIN sections,
             Consecutive(sections[i] \o sections[j])
      PROVE  FALSE
  <2>. DEFINE g == sections[i]
              h == sections[j]
              w == g \o h
  <2>1. g \in G /\ h \in G /\ Stretch(g, place) /\ Stretch(h, place)
    BY <1>2, <1>3
  <2>. HIDE DEF g, h
  <2>2. /\ g \in Seq(Chosen) /\ Len(g) \in Nat \ {0}
        /\ h \in Seq(Chosen) /\ Len(h) \in Nat \ {0}
    BY <2>1 DEF Stretch
  <2>3. /\ Len(w) = Len(g) + Len(h)
        /\ \A k \in 1..(Len(g) + Len(h)) : w[k] = IF k <= Len(g) THEN g[k] ELSE h[k - Len(g)]
    BY <2>2, ConcatProperties
  <2>4. Consecutive(w)
    BY <1>7 DEF g, h
  <2>. HIDE DEF w
  <2>5. w[Len(g)] = g[Len(g)] /\ w[Len(g) + 1] = h[1] /\ Len(g) \in 1..Len(w) - 1
    <3>1. /\ Len(g) \in 1..(Len(g) + Len(h)) /\ Len(g) + 1 \in 1..(Len(g) + Len(h))
          /\ ~(Len(g) + 1 <= Len(g)) /\ Len(g) + 1 - Len(g) = 1
      BY <2>2
    <3>2. w[Len(g) + 1] = h[Len(g) + 1 - Len(g)]
      BY <2>3, <3>1
    <3>3. w[Len(g)] = g[Len(g)]
      BY <2>2, <2>3, <3>1
    <3>. QED  BY <2>2, <2>3, <3>1, <3>2, <3>3
  <2>6. /\ source[g[Len(g)]] = source[h[1]]
        /\ place[h[1]] = place[g[Len(g)]] + 1
    BY <2>4, <2>5 DEF Consecutive
  <2>. QED  BY <1>2, <2>1, <2>6
<1>. QED  BY <1>1, <1>5, <1>6, <1>7 DEF SectionsAreSelection

\* A section that is not empty has tokens.
LEMMA TextFacts ==
    ASSUME NEW g, Len(g) \in Nat, \A k \in 1..Len(g) : size[g[k]] \in Nat \ {0}
    PROVE  Text(g) \in Nat /\ Text(g) >= Len(g)
<1> DEFINE n == Len(g)
           D(it) == [i \in 0..n |-> IF i = 0 THEN 0 ELSE it[i - 1] + size[g[i]]]
           h == CHOOSE it : it = D(it)
           Sums(c, m) == c[0] = 0 /\ \A i \in 1..m : c[i] = c[i - 1] + size[g[i]]
           Good(m) == \E c \in [0..m -> Nat] : Sums(c, m)
           T == {m \in Nat : m <= n => Good(m)}
           U == {m \in Nat : m <= n => h[m] \in Nat /\ h[m] >= m}
<1>1. n \in Nat /\ n \in 0..n
  OBVIOUS
<1>2. Text(g) = h[n]
  BY DEF Text
<1>3. 0 \in T
  <2>1. [i \in 0..0 |-> 0] \in [0..0 -> Nat] /\ Sums([i \in 0..0 |-> 0], 0)
    OBVIOUS
  <2>. QED  BY <2>1
<1>4. ASSUME NEW m \in Nat, m \in T  PROVE m + 1 \in T
  <2>1. SUFFICES ASSUME m + 1 <= n  PROVE Good(m + 1)
    <3>. HIDE DEF Good
    <3>. QED  OBVIOUS
  <2>2. PICK c \in [0..m -> Nat] : Sums(c, m)
    <3>1. m <= n
      BY <1>1, <2>1
    <3>. QED  BY <1>4, <3>1
  <2>. DEFINE b == [i \in 0..(m + 1) |-> IF i = m + 1 THEN c[m] + size[g[m + 1]] ELSE c[i]]
  <2>3. size[g[m + 1]] \in Nat /\ c[m] \in Nat
    BY <1>1, <2>1
  <2>4. b \in [0..(m + 1) -> Nat]
    BY <2>3
  <2>5. b[0] = 0
    BY <2>2
  <2>6. ASSUME NEW i \in 1..(m + 1)
        PROVE  b[i] = b[i - 1] + size[g[i]]
    <3>1. i - 1 \in 0..m /\ b[i - 1] = c[i - 1]
      OBVIOUS
    <3>2. CASE i = m + 1
      BY <3>1, <3>2
    <3>3. CASE i # m + 1
      BY <2>2, <3>1, <3>3
    <3>. QED  BY <3>2, <3>3
  <2>. QED  BY <2>4, <2>5, <2>6
<1>5. \E c : c = D(c)
  <2>1. n \in T
    <3>. HIDE DEF T
    <3>. QED  BY <1>1, <1>3, <1>4, Induction
  <2>2. PICK c \in [0..n -> Nat] : Sums(c, n)
    BY <1>1, <2>1
  <2>3. \A i \in 0..n : c[i] = IF i = 0 THEN 0 ELSE c[i - 1] + size[g[i]]
    BY <1>1, <2>2
  <2>4. c = [i \in 0..n |-> c[i]]
    OBVIOUS
  <2>5. c = D(c)
    BY <2>3, <2>4
  <2>. QED  BY <2>5
<1>6. h = D(h)
  <2>. HIDE DEF D
  <2>. QED  BY <1>5
<1>7. \A i \in 0..n : h[i] = IF i = 0 THEN 0 ELSE h[i - 1] + size[g[i]]
  <2>. HIDE DEF h
  <2>. QED  BY <1>6
<1>. HIDE DEF h
<1>8. 0 \in U
  BY <1>1, <1>7
<1>9. ASSUME NEW m \in Nat, m \in U  PROVE m + 1 \in U
  <2>1. SUFFICES ASSUME m + 1 <= n  PROVE h[m + 1] \in Nat /\ h[m + 1] >= m + 1
    OBVIOUS
  <2>2. h[m] \in Nat /\ h[m] >= m
    BY <1>1, <1>9, <2>1
  <2>3. m + 1 \in 0..n /\ m + 1 \in 1..n /\ m + 1 # 0 /\ m + 1 - 1 = m
    BY <1>1, <2>1
  <2>4. h[m + 1] = h[m] + size[g[m + 1]] /\ size[g[m + 1]] \in Nat \ {0}
    BY <1>7, <2>3
  <2>. QED  BY <2>2, <2>4
<1>10. n \in U
  <2>. HIDE DEF U
  <2>. QED  BY <1>1, <1>8, <1>9, Induction
<1>. QED  BY <1>1, <1>2, <1>10

\* What Merge hands on: no section for an empty selection, some for another one, and
\* tokens in each.
LEMMA MergedSections ==
    ASSUME TypeOK, NEW at, NEW order, Placed(at, order)
    PROVE  /\ Len(Merged(at, order)) \in Nat
           /\ Chosen = {} <=> Len(Merged(at, order)) = 0
           /\ \A i \in 1..Len(Merged(at, order)) : Text(Merged(at, order)[i]) \in Nat \ {0}
<1> DEFINE G == AllRuns(at, order)
           s == Merged(at, order)
<1>1. /\ s \in Seq(G)
      /\ \A g \in G : \E i \in DOMAIN s : s[i] = g
      /\ \A g \in G : Stretch(g, at)
      /\ \A r \in Chosen : \E g \in G : \E k \in 1..Len(g) : g[k] = r
  BY MergedFacts, AllRunsFacts
<1>. HIDE DEF G, s
<1>2. Len(s) \in Nat /\ DOMAIN s = 1..Len(s) /\ \A i \in 1..Len(s) : s[i] \in G
  BY <1>1, ElementOfSeq
<1>3. ASSUME NEW g \in G
      PROVE  Text(g) \in Nat \ {0} /\ g[1] \in Chosen
  <2>1. g \in Seq(Chosen) /\ Len(g) \in Nat \ {0} /\ 1 \in 1..Len(g)
    BY <1>1 DEF Stretch
  <2>2. \A k \in 1..Len(g) : g[k] \in Chosen
    BY <2>1, ElementOfSeq
  <2>3. \A k \in 1..Len(g) : size[g[k]] \in Nat \ {0}
    BY <2>2, ChosenFacts
  <2>4. Text(g) \in Nat /\ Text(g) >= Len(g)
    BY <2>1, <2>3, TextFacts
  <2>. QED  BY <2>1, <2>2, <2>4
<1>4. Chosen = {} <=> Len(s) = 0
  <2>1. ASSUME Chosen = {}  PROVE Len(s) = 0
    <3>1. 1 \notin 1..Len(s)
      BY <1>2, <1>3, <2>1
    <3>. QED  BY <1>2, <3>1
  <2>2. ASSUME NEW r \in Chosen  PROVE Len(s) # 0
    BY <1>1, <1>2
  <2>. QED  BY <2>1, <2>2
<1>. QED  BY <1>2, <1>3, <1>4 DEF s

\* The inductive invariant of the context.
ContextTyped == /\ build \in {"select", "fit", "built"}
                /\ shown \in Seq(Nat) /\ spent \in Nat /\ omitted \in Nat

\* Nothing is made before the selection is done, and then Merge has made the sections.
Made == IF build = "select"
        THEN sections = <<>> /\ shown = <<>> /\ spent = 0 /\ omitted = 0
        ELSE Done /\ Placed(place, ranking) /\ sections = Merged(place, ranking)

Going == /\ Len(shown) <= Len(sections)
         /\ build = "fit" => Len(shown) < Len(sections) /\ omitted = 0
         /\ shown = <<>> => spent = 0

ContextInv == IInv /\ ContextTyped /\ Made /\ Going /\ ContextFits

LEMMA Numbers == /\ Header \in Nat \ {0} /\ Separator \in Nat \ {0} /\ ContextBudget \in Nat \ {0}
                 /\ Prefix \in Nat \ {0} /\ Slack \in Nat \ {0}
<1>1. /\ Header \in Nat \ {0} /\ Separator \in Nat \ {0} /\ ContextBudget \in Nat \ {0}
      /\ Slack \in Nat \ {0}
  BY ContextAssumption
<1>. QED  BY <1>1 DEF Prefix

LEMMA InitContext == ContextInit => ContextInv
<1> SUFFICES ASSUME ContextInit  PROVE ContextInv
  OBVIOUS
<1>1. IInv
  BY InitIInv DEF ContextInit
<1>2. ContextTyped /\ Made /\ Going
  BY EmptySeq DEF ContextInit, ContextTyped, Made, Going
<1>3. ContextFits
  BY Numbers DEF ContextInit, ContextFits
<1>. QED  BY <1>1, <1>2, <1>3 DEF ContextInv

\* The selection goes on only before anything is made of it.
LEMMA SelectionStep == ContextInv /\ Next /\ UNCHANGED context => ContextInv'
<1> SUFFICES ASSUME ContextInv, Next, UNCHANGED context  PROVE ContextInv'
  OBVIOUS
<1>1. IInv'
  BY PassIInv, FillIInv, TurnIInv DEF Next, ContextInv
<1>2. build = "select"
  <2>1. ~Done
    BY DEF Next, Pass, Fill, Turn, Done
  <2>. QED  BY <2>1 DEF ContextInv, Made
<1>3. ContextTyped' /\ Made' /\ Going'
  BY <1>2 DEF ContextInv, ContextTyped, Made, Going, context
<1>4. ContextFits'
  BY <1>2, Numbers DEF ContextInv, ContextFits, Made, context
<1>. QED  BY <1>1, <1>3, <1>4 DEF ContextInv

\* A step that leaves the selection as it is keeps what is known of it.
LEMMA SelectionKept ==
    ASSUME IInv, UNCHANGED vars
    PROVE  IInv' /\ UNCHANGED <<Done, Chosen>> /\ TypeOK
BY StutterIInv DEF vars, input, Done, Chosen, IInv

LEMMA MergeContext == ContextInv /\ Merge => ContextInv'
<1> SUFFICES ASSUME ContextInv, Merge  PROVE ContextInv'
  OBVIOUS
<1>1. /\ build = "select" /\ Done /\ UNCHANGED <<vars, shown, spent, omitted>>
      /\ build' = IF Chosen = {} THEN "built" ELSE "fit"
      /\ sections' = Merged(place', ranking')
  BY DEF Merge
<1>2. IInv' /\ UNCHANGED <<Done, Chosen>> /\ TypeOK
  BY <1>1, SelectionKept DEF ContextInv
<1>3. Placed(place', ranking')
  BY DEF Merge, Placed
<1>4. /\ Len(sections') \in Nat
      /\ Chosen = {} <=> Len(sections') = 0
  BY <1>1, <1>2, <1>3, MergedSections
<1>5. shown = <<>> /\ spent = 0 /\ omitted = 0
  BY <1>1 DEF ContextInv, Made
<1>6. Len(shown) = 0 /\ shown \in Seq(Nat)
  BY <1>5, EmptySeq
<1>7. ContextTyped'
  BY <1>1, <1>5, <1>6 DEF ContextTyped
<1>8. Made'
  <2>1. UNCHANGED source
    BY <1>1 DEF vars, input
  <2>2. Placed(place, ranking)'
    BY <1>2, <1>3, <2>1 DEF Placed
  <2>3. sections' = Merged(place, ranking)'
    BY <1>1, <1>2, <2>1 DEF Merged, ChunksOf
  <2>. QED  BY <1>1, <1>2, <2>2, <2>3 DEF Made
<1>9. Going'
  BY <1>1, <1>4, <1>5, <1>6 DEF Going
<1>10. ContextFits'
  BY <1>1, <1>2, <1>4, <1>5, <1>6, Numbers DEF ContextFits
<1>. QED  BY <1>2, <1>7, <1>8, <1>9, <1>10 DEF ContextInv

LEMMA FitContext == ContextInv /\ Fit => ContextInv'
<1> SUFFICES ASSUME ContextInv, Fit  PROVE ContextInv'
  OBVIOUS
<1>. DEFINE text == Text(sections[Len(shown) + 1])
<1>1. build = "fit" /\ UNCHANGED <<vars, place, ranking, sections>>
  BY DEF Fit
<1>2. IInv' /\ UNCHANGED <<Done, Chosen>> /\ TypeOK
  BY <1>1, SelectionKept DEF ContextInv
<1>3. /\ Done /\ Placed(place, ranking) /\ sections = Merged(place, ranking)
      /\ shown \in Seq(Nat) /\ spent \in Nat /\ omitted = 0 /\ spent <= ContextBudget
      /\ Len(shown) < Len(sections)
      /\ shown = <<>> => spent = 0
  BY <1>1 DEF ContextInv, Made, Going, ContextTyped, ContextFits
<1>4. /\ Len(sections) \in Nat /\ Len(shown) \in Nat
      /\ text \in Nat \ {0}
  <2>1. /\ Len(sections) \in Nat
        /\ \A i \in 1..Len(sections) : Text(sections[i]) \in Nat \ {0}
    BY <1>2, <1>3, MergedSections
  <2>2. Len(shown) \in Nat
    BY <1>3, LenProperties
  <2>. QED  BY <1>3, <2>1, <2>2
<1>. HIDE DEF text
<1>5. Made'
  <2>1. UNCHANGED source
    BY <1>1 DEF vars, input
  <2>2. Placed(place, ranking)'
    BY <1>1, <1>2, <1>3, <2>1 DEF Placed
  <2>3. sections' = Merged(place, ranking)'
    BY <1>1, <1>2, <1>3, <2>1 DEF Merged, ChunksOf
  <2>4. build' # "select"
    BY DEF Fit, Omit
  <2>. QED  BY <1>2, <1>3, <2>2, <2>3, <2>4 DEF Made
<1>6. CASE Omit /\ Room <= Slack
  <2>1. /\ build' = "built" /\ omitted' = Len(sections) - Len(shown)
        /\ UNCHANGED <<shown, spent, sections>>
    BY <1>1, <1>6 DEF Omit
  <2>2. omitted' \in Nat
    BY <1>3, <1>4, <2>1
  <2>3. ContextTyped'
    BY <1>3, <2>1, <2>2 DEF ContextTyped
  <2>4. Going'
    BY <1>3, <1>4, <2>1 DEF Going
  <2>5. Room' <= Slack
    BY <1>6, <2>1 DEF Room, Prefix
  <2>6. shown # <<>> \/ ContextBudget <= Header + Slack
    BY <1>3, <1>6, Numbers DEF Room, Prefix
  <2>7. ContextFits'
    BY <1>3, <1>4, <2>1, <2>5, <2>6 DEF ContextFits
  <2>. QED  BY <1>2, <1>5, <2>3, <2>4, <2>7 DEF ContextInv
<1>7. ASSUME NEW n \in Nat \ {0}, n <= Room,
             shown' = Append(shown, n), spent' = spent + Prefix + n, UNCHANGED omitted,
             build' = IF spent' >= ContextBudget \/ Len(shown') = Len(sections)
                      THEN "built" ELSE "fit"
      PROVE  ContextInv'
  <2>1. spent' \in Nat /\ spent' <= ContextBudget
    BY <1>3, <1>7, Numbers DEF Room
  <2>2. shown' \in Seq(Nat) /\ Len(shown') = Len(shown) + 1 /\ shown' # <<>>
    <3>1. shown' \in Seq(Nat) /\ Len(shown') = Len(shown) + 1
      BY <1>3, <1>7, AppendProperties
    <3>2. Len(shown') # 0
      BY <1>4, <3>1
    <3>. QED  BY <3>1, <3>2, EmptySeq
  <2>3. ContextTyped'
    BY <1>3, <1>7, <2>1, <2>2 DEF ContextTyped
  <2>4. Going'
    BY <1>1, <1>3, <1>4, <1>7, <2>2 DEF Going
  <2>5. spent' >= ContextBudget => Room' <= Slack
    <3>1. Header \in Nat /\ Header + Separator \in Nat /\ ContextBudget \in Nat
      BY Numbers
    <3>7. Slack \in Nat
      BY Numbers
    <3>2. Prefix' = IF shown' = <<>> THEN Header ELSE Header + Separator
      BY DEF Prefix
    <3>3. Prefix' \in Nat
      BY <3>1, <3>2
    <3>4. Room' = ContextBudget - spent' - Prefix'
      BY DEF Room
    <3>. DEFINE used1 == spent'
                gap == Prefix'
                left == Room'
    <3>5. used1 \in Nat /\ gap \in Nat /\ left = ContextBudget - used1 - gap
      BY <2>1, <3>3, <3>4
    <3>6. SUFFICES used1 >= ContextBudget => left <= Slack
      OBVIOUS
    <3>. HIDE DEF used1, gap, left
    <3>. QED  BY <3>1, <3>5, <3>7
  <2>6. build' = "built" /\ Len(shown') < Len(sections') => spent' >= ContextBudget
    BY <1>1, <1>4, <1>7, <2>2
  <2>7. ContextFits'
    BY <1>3, <1>7, <2>1, <2>2, <2>5, <2>6 DEF ContextFits
  <2>. QED  BY <1>2, <1>5, <2>3, <2>4, <2>7 DEF ContextInv
<1>8. CASE Room <= 0
  <2>1. Omit
    BY <1>8 DEF Fit
  <2>2. Room <= Slack
    BY <1>3, <1>8, Numbers DEF Room
  <2>. QED  BY <1>6, <2>1, <2>2
<1>9. CASE ~(Room <= 0)
  <2>1. PICK n \in Cut(text) :
          IF n = 0
          THEN Omit
          ELSE /\ shown' = Append(shown, n)
               /\ spent' = spent + Prefix + n
               /\ build' = IF spent' >= ContextBudget \/ Len(shown') = Len(sections)
                           THEN "built" ELSE "fit"
               /\ UNCHANGED omitted
    BY <1>9 DEF Fit, text
  <2>2. Room \in Nat \ {0}
    BY <1>3, <1>9, Numbers DEF Room
  <2>3. n \in Nat /\ n <= Room /\ (n = 0 => Room <= Slack)
    BY <1>4, <2>2, Numbers DEF Cut
  <2>4. CASE n = 0
    BY <1>6, <2>1, <2>3, <2>4
  <2>5. CASE n # 0
    BY <1>7, <2>1, <2>3, <2>5
  <2>. QED  BY <2>4, <2>5
<1>. QED  BY <1>8, <1>9

-----------------------------------------------------------------------------
(* The theorems about the selection. *)

\* The inductive invariant holds in every state of the selection.
THEOREM Invariance == Spec => []IInv
<1>1. IInv /\ [Next]_vars => IInv'
  BY StutterIInv, PassIInv, FillIInv, TurnIInv DEF Next
<1> QED
  BY <1>1, InitIInv, PTL DEF Spec

\* The selection is well typed, selects nothing twice and keeps to the ceiling.
THEOREM SelectionTyped == Spec => []TypeOK
<1>1. IInv => TypeOK
  BY DEF IInv
<1> QED
  BY <1>1, Invariance, PTL

\* Whatever the scores, sizes, sources and similarities, the floor is reached.
THEOREM NeverStarved == Spec => []FloorReached
<1>1. IInv => FloorReached
  BY DEF IInv
<1> QED
  BY <1>1, Invariance, PTL

\* A selection larger than the floor is within the target, and so in the budget.
THEOREM TargetKept == Spec => []TargetOnlyForFloor
<1>1. IInv => TargetOnlyForFloor
  BY DEF IInv
<1> QED
  BY <1>1, Invariance, PTL

\* Evidence is called weak exactly when there is no strong candidate.
THEOREM LabelIsTrue == Spec => []WeakIsTrue
<1>1. IInv => WeakIsTrue
  BY WeakHolds
<1> QED
  BY <1>1, Invariance, PTL

\* Every candidate that is left out has a reason against the final selection.
THEOREM NothingLeft == Spec => []NothingUsefulLeft
<1>1. IInv => NothingUsefulLeft
  BY DEF IInv, RestSettled, Settled, NothingUsefulLeft, Done
<1> QED
  BY <1>1, Invariance, PTL

-----------------------------------------------------------------------------
(* The theorems about the context. *)

\* The invariant holds while the evidence is selected and while the context is built.
THEOREM ContextInvariance == ContextSpec => []ContextInv
<1>1. ContextInv /\ UNCHANGED <<vars, context>> => ContextInv'
  <2> SUFFICES ASSUME ContextInv, UNCHANGED <<vars, context>>  PROVE ContextInv'
    OBVIOUS
  <2>1. IInv' /\ UNCHANGED <<Done, Chosen>> /\ UNCHANGED source
    BY SelectionKept DEF ContextInv, vars, input
  <2>2. UNCHANGED <<build, place, ranking, sections, shown, spent, omitted>>
    BY DEF context
  <2>3. ContextTyped' /\ Going' /\ ContextFits'
    BY <2>1, <2>2 DEF ContextInv, ContextTyped, Going, ContextFits, Room, Prefix
  <2>4. Placed(place, ranking)' <=> Placed(place, ranking)
    BY <2>1, <2>2 DEF Placed
  <2>5. Merged(place, ranking)' = Merged(place, ranking)
    BY <2>1, <2>2 DEF Merged, ChunksOf
  <2>. QED  BY <2>1, <2>2, <2>3, <2>4, <2>5 DEF ContextInv, Made
<1>2. ContextInv /\ [ContextNext]_<<vars, context>> => ContextInv'
  BY <1>1, SelectionStep, MergeContext, FitContext DEF ContextNext
<1>. QED  BY <1>2, InitContext, PTL DEF ContextSpec

\* Building the context does not disturb the selection: what is true of it in every state
\* of the selection stays true.
THEOREM SelectionUndisturbed == ContextSpec =>
    [](TypeOK /\ FloorReached /\ TargetOnlyForFloor /\ WeakIsTrue /\ NothingUsefulLeft)
<1>1. IInv => TypeOK /\ FloorReached /\ TargetOnlyForFloor /\ WeakIsTrue /\ NothingUsefulLeft
  BY StatesHold
<1>2. ContextInv => IInv
  BY DEF ContextInv
<1>. QED  BY <1>1, <1>2, ContextInvariance, PTL

\* The sections the model is asked with are the selection: every selected chunk once, in
\* stretches of a document that are as long as they can be, the best one first
\* (merge_overlapping_chunks).
THEOREM SectionsAreTheSelection == ContextSpec => []SectionsAreSelection
<1>1. ContextInv => SectionsAreSelection
  <2>1. ASSUME ContextInv, build # "select"  PROVE SectionsAreSelection
    BY <2>1, SectionsHold DEF ContextInv, Made, IInv
  <2>2. ASSUME build = "select"  PROVE SectionsAreSelection
    BY <2>2 DEF SectionsAreSelection
  <2>. QED  BY <2>1, <2>2
<1>. QED  BY <1>1, ContextInvariance, PTL

\* The context keeps its token budget, leaves a section out only when no text of it would
\* fit, and never comes down to nothing (compress_context).
THEOREM TheContextFits == ContextSpec => []ContextFits
<1>1. ContextInv => ContextFits
  BY DEF ContextInv
<1>. QED  BY <1>1, ContextInvariance, PTL
=============================================================================
