--------------------------- MODULE BatchRunProofs ---------------------------
(***************************************************************************)
(* The run folder for every number of questions, every number of            *)
(* invocations and every kind of damage.  First what an append, whole or    *)
(* cut short, does to what a later reader finds, and what sorting does to   *)
(* the rows of the export.  Then IInv and BundleInv are invariants, and     *)
(* with them TypeOK, DurableCompletion, CsvCoversCheckpoint,                *)
(* CompletedNeverReasked, BundleMatchesCheckpoint and the refinement of     *)
(* BatchLedger.                                                             *)
(***************************************************************************)
EXTENDS BatchRun, FiniteSetTheorems, SequenceTheorems, WellFoundedInduction, TLAPS

(* One file and any number of records. *)

\* A non-empty set of positions has a last one, and Max is that one.
LEMMA LastPosition ==
    ASSUME NEW n \in Nat, NEW S \in SUBSET (1..n), S # {}
    PROVE  Max(S) \in S /\ \A i \in S : i <= Max(S)
<1> DEFINE T == {k \in Nat : n - k \in S}
<1>1. T \subseteq Nat /\ T # {}
  <2>1. PICK i \in S : TRUE
    OBVIOUS
  <2>2. n - i \in Nat /\ n - (n - i) = i
    OBVIOUS
  <2>. QED  BY <2>1, <2>2
<1>2. PICK t \in T : \A u \in T : <<u, t>> \notin OpToRel(<, Nat)
  <2>. HIDE DEF T
  <2>. QED  BY <1>1, WFMin, NatLessThanWellFounded
<1>3. PICK m \in S : t = n - m
  <2>1. t \in Nat /\ n - t \in S
    BY <1>2 DEF T
  <2>2. t = n - (n - t)
    BY <2>1
  <2>. QED  BY <2>1, <2>2
<1>4. \A i \in S : i <= m
  <2>. SUFFICES ASSUME NEW i \in S  PROVE i <= m
    OBVIOUS
  <2>1. <<n - i, n - m>> \notin OpToRel(<, Nat)
    <3>1. n - i \in Nat /\ n - (n - i) = i
      OBVIOUS
    <3>. QED  BY <1>2, <1>3, <3>1
  <2>2. n - i \in Nat /\ n - m \in Nat
    OBVIOUS
  <2>3. ~(n - i < n - m)
    BY <2>1, <2>2, Zenon DEF OpToRel
  <2>. QED  BY <2>3
<1>. QED  BY <1>4 DEF Max

\* A lookup finds a record of the key it was asked for, or nothing.
LEMMA LatestType ==
    ASSUME NEW f \in File, NEW q \in Questions
    PROVE  Latest(f, q) \in Entry
<1>1. Positions(f, q) \subseteq 1..Len(f.lines)
  BY DEF Positions
<1>2. Len(f.lines) \in Nat
  BY DEF File
<1>3. CASE Positions(f, q) = {}
  BY <1>3 DEF Latest, Entry
<1>4. CASE Positions(f, q) # {}
  <2>1. Max(Positions(f, q)) \in 1..Len(f.lines)
    BY <1>1, <1>2, <1>4, LastPosition
  <2>. QED  BY <1>4, <2>1, ElementOfSeq DEF Latest, Entry, File
<1>. QED  BY <1>3, <1>4

\* Two files that agree on the records of a key agree on its latest record.
LEMMA SameLatest ==
    ASSUME NEW f \in File, NEW g \in File, NEW q \in Questions,
           Positions(g, q) = Positions(f, q),
           \A i \in Positions(f, q) : g.lines[i] = f.lines[i]
    PROVE  Latest(g, q) = Latest(f, q)
<1>1. Positions(f, q) \subseteq 1..Len(f.lines) /\ Len(f.lines) \in Nat
  BY DEF Positions, File
<1>2. CASE Positions(f, q) = {}
  BY <1>2 DEF Latest
<1>3. CASE Positions(f, q) # {}
  <2>1. Max(Positions(f, q)) \in Positions(f, q)
    BY <1>1, <1>3, LastPosition
  <2>. QED  BY <1>3, <2>1 DEF Latest
<1>. QED  BY <1>2, <1>3

\* A damaged line keeps everything but its text.
LEMMA BrokenType ==
    ASSUME NEW l \in Line
    PROVE  Broken(l) \in Line /\ ~Broken(l).whole /\ Broken(l).key = l.key
BY DEF Broken, Line

\* The lines and the end of a file after an append, by its state before.
Extends(g, f, l, split) ==
    /\ g \in File
    /\ ~g.open
    /\ f.open /\ ~split => Len(g.lines) = Len(f.lines)
    /\ f.open /\ split => Len(g.lines) = Len(f.lines) + 1
    /\ ~f.open /\ ~split => Len(g.lines) = Len(f.lines) + 1
    /\ ~f.open /\ split => Len(g.lines) = Len(f.lines) + 2
    /\ \A i \in 1..Len(f.lines) :
          g.lines[i] = IF f.open /\ i = Len(f.lines) THEN Broken(f.lines[i])
                                                    ELSE f.lines[i]
    /\ ~f.open => g.lines[Len(f.lines) + 1] = IF split THEN Broken(l) ELSE l
    /\ split => g.lines[Len(g.lines)] = Broken(l)

\* _append_jsonl adds at most the two halves of the new record, and damages at most
\* the line it continues.
LEMMA AppendedLines ==
    ASSUME NEW f \in File, NEW l \in Line, NEW split \in BOOLEAN
    PROVE  Extends(Appended(f, l, split), f, l, split)
<1> DEFINE head == IF f.open
                   THEN [f.lines EXCEPT ![Len(f.lines)] = Broken(@)]
                   ELSE Append(f.lines, IF split THEN Broken(l) ELSE l)
           lines == IF split THEN Append(head, Broken(l)) ELSE head
           g == Appended(f, l, split)
<1>1. f.lines \in Seq(Line) /\ f.open \in BOOLEAN /\ Len(f.lines) \in Nat
  BY DEF File
<1>2. (IF split THEN Broken(l) ELSE l) \in Line /\ Broken(l) \in Line
  BY BrokenType
<1>3. /\ head \in Seq(Line)
      /\ f.open => Len(head) = Len(f.lines)
      /\ ~f.open => Len(head) = Len(f.lines) + 1
      /\ \A i \in 1..Len(f.lines) :
            head[i] = IF f.open /\ i = Len(f.lines) THEN Broken(f.lines[i])
                                                   ELSE f.lines[i]
      /\ ~f.open => head[Len(f.lines) + 1] = IF split THEN Broken(l) ELSE l
  <2>1. CASE f.open
    <3>1. Len(f.lines) \in 1..Len(f.lines)
      BY <1>1, <2>1, EmptySeq DEF File
    <3>2. f.lines[Len(f.lines)] \in Line
      BY <1>1, <3>1, ElementOfSeq
    <3>3. Broken(f.lines[Len(f.lines)]) \in Line
      BY <3>2, BrokenType
    <3>4. head = [f.lines EXCEPT ![Len(f.lines)] = Broken(f.lines[Len(f.lines)])]
      BY <2>1
    <3>. QED  BY <1>1, <2>1, <3>1, <3>3, <3>4, ExceptSeq
  <2>2. CASE ~f.open
    <3>1. head = Append(f.lines, IF split THEN Broken(l) ELSE l)
      BY <2>2
    <3>. QED  BY <1>1, <1>2, <2>2, <3>1, AppendProperties
  <2>. QED  BY <1>1, <2>1, <2>2
<1>4. g = [lines |-> lines, open |-> FALSE]
  BY DEF Appended
<1>5. /\ Len(head) \in Nat
      /\ 1..Len(f.lines) \subseteq 1..Len(head)
      /\ ~f.open => Len(f.lines) + 1 \in 1..Len(head)
  BY <1>1, <1>3
<1>6. /\ lines \in Seq(Line)
      /\ split => Len(lines) = Len(head) + 1
      /\ ~split => Len(lines) = Len(head)
      /\ \A i \in 1..Len(head) : lines[i] = head[i]
      /\ split => lines[Len(lines)] = Broken(l)
  <2>1. head \in Seq(Line)
    BY <1>3
  <2>2. lines = IF split THEN Append(head, Broken(l)) ELSE head
    OBVIOUS
  <2>. HIDE DEF head, lines
  <2>3. CASE split
    <3>1. lines = Append(head, Broken(l))
      BY <2>2, <2>3
    <3>. QED  BY <1>2, <1>5, <2>1, <2>3, <3>1, AppendProperties
  <2>4. CASE ~split
    <3>1. lines = head
      BY <2>2, <2>4
    <3>. QED  BY <1>5, <2>1, <2>4, <3>1
  <2>. QED  BY <2>3, <2>4
<1>. HIDE DEF head, lines
<1>7. g.lines = lines /\ ~g.open
  BY <1>4
<1>8. g \in File
  BY <1>4, <1>6 DEF File
<1>9. /\ (f.open /\ ~split => Len(g.lines) = Len(f.lines))
      /\ (f.open /\ split => Len(g.lines) = Len(f.lines) + 1)
      /\ (~f.open /\ ~split => Len(g.lines) = Len(f.lines) + 1)
      /\ (~f.open /\ split => Len(g.lines) = Len(f.lines) + 2)
  BY <1>1, <1>3, <1>6, <1>7
<1>. HIDE DEF g
<1>10. \A i \in 1..Len(f.lines) : g.lines[i] = head[i]
  BY <1>5, <1>6, <1>7
<1>11. ~f.open => g.lines[Len(f.lines) + 1] = head[Len(f.lines) + 1]
  BY <1>5, <1>6, <1>7
<1>. QED  BY <1>3, <1>6, <1>7, <1>8, <1>9, <1>10, <1>11 DEF g, Extends

\* A finished append that leaves the file intact continued no unterminated line
\* and cut no record, and only its own key has a new latest record.
LEMMA IntactAppended ==
    ASSUME NEW f \in File, NEW l \in Line, NEW split \in BOOLEAN,
           l.whole, Intact(Appended(f, l, split))
    PROVE  /\ Intact(f)
           /\ Latest(Appended(f, l, split), l.key) = l
           /\ \A q \in Questions \ {l.key} :
                 Latest(Appended(f, l, split), q) = Latest(f, q)
<1> DEFINE g == Appended(f, l, split)
           n == Len(f.lines)
<1>1. f.lines \in Seq(Line) /\ n \in Nat /\ f.open \in BOOLEAN
  BY DEF File
<1>2. Extends(g, f, l, split)
  BY AppendedLines
<1>. HIDE DEF g
<1>3. \A i \in 1..Len(g.lines) : g.lines[i].whole
  BY <1>2 DEF Intact, g, Extends
<1>4. ~split
  <2>1. SUFFICES ASSUME split  PROVE FALSE
    OBVIOUS
  <2>2. Len(g.lines) \in Nat \ {0} /\ g.lines[Len(g.lines)] = Broken(l)
    <3>1. Len(g.lines) = n + 1 \/ Len(g.lines) = n + 2
      BY <1>1, <1>2, <2>1 DEF Extends
    <3>2. g.lines[Len(g.lines)] = Broken(l)
      BY <1>2, <2>1 DEF Extends
    <3>. QED  BY <1>1, <3>1, <3>2
  <2>3. Len(g.lines) \in 1..Len(g.lines)
    BY <2>2
  <2>. QED  BY <1>3, <2>2, <2>3, BrokenType
<1>5. ~f.open
  <2>1. SUFFICES ASSUME f.open  PROVE FALSE
    OBVIOUS
  <2>2. n \in 1..n /\ n \in 1..Len(g.lines)
    BY <1>1, <1>2, <1>4, <2>1, EmptySeq DEF File, Extends
  <2>3. f.lines[n] \in Line
    BY <1>1, <2>2, ElementOfSeq
  <2>4. g.lines[n] = Broken(f.lines[n])
    BY <1>2, <2>1, <2>2 DEF Extends
  <2>. QED  BY <1>3, <2>2, <2>3, <2>4, BrokenType
<1>6. /\ Len(g.lines) = n + 1
      /\ \A i \in 1..n : g.lines[i] = f.lines[i]
      /\ g.lines[n + 1] = l
  BY <1>1, <1>2, <1>4, <1>5 DEF Extends
<1>7. 1..(n + 1) = (1..n) \cup {n + 1}
  BY <1>1
<1>8. Intact(f)
  BY <1>3, <1>6, <1>7 DEF Intact
<1>9. Latest(g, l.key) = l
  <2>1. l.key \in Questions
    BY DEF Line
  <2>2. n + 1 \in Positions(g, l.key) /\ Positions(g, l.key) \subseteq 1..(n + 1)
    BY <1>1, <1>6, <1>7 DEF Positions
  <2>3. n + 1 \in Nat
    BY <1>1
  <2>. DEFINE P == Positions(g, l.key)
  <2>4. Max(P) \in P /\ \A i \in P : i <= Max(P)
    <3>. HIDE DEF P
    <3>1. P \in SUBSET (1..(n + 1)) /\ P # {}
      BY <2>2 DEF P
    <3>. QED  BY <2>3, <3>1, LastPosition
  <2>5. Max(P) = n + 1
    <3>1. n + 1 <= Max(P) /\ Max(P) \in 1..(n + 1)
      BY <2>2, <2>4
    <3>. QED  BY <1>1, <3>1
  <2>. QED  BY <1>6, <2>2, <2>5 DEF Latest
<1>10. ASSUME NEW q \in Questions \ {l.key}
       PROVE  Latest(g, q) = Latest(f, q)
  <2>1. Positions(g, q) = Positions(f, q)
    BY <1>1, <1>6, <1>7 DEF Positions
  <2>2. \A i \in Positions(f, q) : g.lines[i] = f.lines[i]
    BY <1>6 DEF Positions
  <2>. QED  BY <1>2, <2>1, <2>2, SameLatest DEF Extends
<1>. QED  BY <1>8, <1>9, <1>10 DEF g

LastKey(f) == f.lines[Len(f.lines)].key

\* What a killed append of l can do to f: the file may end in an unterminated line
\* of l's key, or of the key it ended in before; if it is still intact, so was f,
\* and the other keys have the latest record they had.
TornFrom(g, f, l) ==
    /\ g \in File
    /\ g.open => LastKey(g) = l.key \/ (f.open /\ LastKey(g) = LastKey(f))
    /\ Intact(g) =>
          /\ Intact(f)
          /\ \A q \in Questions \ {l.key} :
                (f.open => LastKey(f) # q) => Latest(g, q) = Latest(f, q)

\* An append cut after its last byte but the newline, of a record or a part of one.
LEMMA CutFrom ==
    ASSUME NEW f \in File, NEW l \in Line, NEW split \in BOOLEAN
    PROVE  TornFrom(Cut(f, l, split), f, l)
<1> DEFINE h == Appended(f, l, split)
           g == Cut(f, l, split)
           n == Len(f.lines)
<1>1. f.lines \in Seq(Line) /\ n \in Nat /\ f.open \in BOOLEAN
  BY DEF File
<1>2. Extends(h, f, l, split)
  BY AppendedLines
<1>3. g = [h EXCEPT !.open = TRUE]
  BY DEF Cut
<1>. HIDE DEF g, h
<1>4. /\ g \in [lines : Seq(Line), open : BOOLEAN]
      /\ g.open
      /\ g.lines = h.lines
  BY <1>2, <1>3 DEF Extends, File
<1>5. ASSUME NEW i \in 1..n  PROVE f.lines[i] \in Line
  BY <1>1, ElementOfSeq
<1>6. f.open => n # 0 /\ n \in 1..n
  BY <1>1, EmptySeq DEF File
<1>7. Len(g.lines) \in Nat \ {0} /\ Len(g.lines) \in 1..Len(g.lines)
  <2>1. \/ f.open /\ Len(g.lines) = n
        \/ Len(g.lines) = n + 1
        \/ Len(g.lines) = n + 2
    BY <1>2, <1>4, <1>1 DEF Extends
  <2>2. Len(g.lines) \in Nat \ {0}
    BY <1>1, <1>6, <2>1
  <2>. QED  BY <2>2
<1>8. g \in File
  BY <1>4, <1>7, EmptySeq DEF File
<1>9. LastKey(g) = l.key \/ (f.open /\ LastKey(g) = LastKey(f))
  <2>1. CASE split
    BY <1>2, <1>4, <2>1, BrokenType DEF Extends, LastKey
  <2>2. CASE ~split /\ f.open
    <3>1. Len(g.lines) = n /\ g.lines[n] = Broken(f.lines[n])
      BY <1>2, <1>4, <1>6, <2>2 DEF Extends
    <3>. QED  BY <1>5, <1>6, <2>2, <3>1, BrokenType DEF LastKey
  <2>3. CASE ~split /\ ~f.open
    BY <1>2, <1>4, <2>3 DEF Extends, LastKey
  <2>. QED  BY <1>1, <2>1, <2>2, <2>3
<1>10. ASSUME Intact(g)
       PROVE  /\ Intact(f)
              /\ \A q \in Questions \ {l.key} :
                    (f.open => LastKey(f) # q) => Latest(g, q) = Latest(f, q)
  <2>1. \A i \in 1..Len(g.lines) : g.lines[i].whole \/ i = Len(g.lines)
    BY <1>10 DEF Intact
  <2>2. ~split
    <3>1. SUFFICES ASSUME split  PROVE FALSE
      OBVIOUS
    <3>2. CASE f.open
      <4>1. Len(g.lines) = n + 1 /\ g.lines[n] = Broken(f.lines[n])
        BY <1>2, <1>4, <1>6, <3>1, <3>2 DEF Extends
      <4>2. n \in 1..Len(g.lines) /\ n # Len(g.lines)
        BY <1>1, <1>6, <3>2, <4>1
      <4>. QED  BY <1>5, <1>6, <2>1, <3>2, <4>1, <4>2, BrokenType
    <3>3. CASE ~f.open
      <4>1. Len(g.lines) = n + 2 /\ g.lines[n + 1] = Broken(l)
        BY <1>2, <1>4, <3>1, <3>3 DEF Extends
      <4>2. n + 1 \in 1..Len(g.lines) /\ n + 1 # Len(g.lines)
        BY <1>1, <4>1
      <4>. QED  BY <2>1, <4>1, <4>2, BrokenType
    <3>. QED  BY <3>2, <3>3
  <2>3. CASE f.open
    <3>1. /\ Len(g.lines) = n
          /\ g.lines[n] = Broken(f.lines[n])
          /\ \A i \in 1..n : i # n => g.lines[i] = f.lines[i]
      BY <1>2, <1>4, <1>6, <2>2, <2>3 DEF Extends
    <3>2. Intact(f)
      BY <2>1, <2>3, <3>1 DEF Intact
    <3>3. ASSUME NEW q \in Questions \ {l.key}, LastKey(f) # q
          PROVE  Latest(g, q) = Latest(f, q)
      <4>1. g.lines[n].key # q /\ f.lines[n].key # q
        BY <1>5, <1>6, <2>3, <3>1, <3>3, BrokenType DEF LastKey
      <4>2. Positions(g, q) = Positions(f, q)
        BY <3>1, <4>1 DEF Positions
      <4>3. \A i \in Positions(f, q) : g.lines[i] = f.lines[i]
        BY <3>1, <4>1 DEF Positions
      <4>. QED  BY <1>8, <4>2, <4>3, SameLatest
    <3>. QED  BY <2>3, <3>2, <3>3
  <2>4. CASE ~f.open
    <3>1. /\ Len(g.lines) = n + 1
          /\ g.lines[n + 1] = l
          /\ \A i \in 1..n : g.lines[i] = f.lines[i]
      BY <1>1, <1>2, <1>4, <2>2, <2>4 DEF Extends
    <3>2. 1..(n + 1) = (1..n) \cup {n + 1} /\ \A i \in 1..n : i # n + 1
      BY <1>1
    <3>3. Intact(f)
      BY <2>1, <3>1, <3>2 DEF Intact
    <3>4. ASSUME NEW q \in Questions \ {l.key}
          PROVE  Latest(g, q) = Latest(f, q)
      <4>1. Positions(g, q) = Positions(f, q)
        BY <3>1, <3>2 DEF Positions
      <4>2. \A i \in Positions(f, q) : g.lines[i] = f.lines[i]
        BY <3>1 DEF Positions
      <4>. QED  BY <1>8, <4>1, <4>2, SameLatest
    <3>. QED  BY <2>4, <3>3, <3>4
  <2>. QED  BY <1>1, <2>3, <2>4
<1>. QED  BY <1>8, <1>9, <1>10 DEF TornFrom, g

\* Every file a killed append can leave.
LEMMA TornFiles ==
    ASSUME NEW f \in File, NEW l \in Line, NEW split \in BOOLEAN,
           NEW g \in Torn(f, l, split)
    PROVE  TornFrom(g, f, l)
<1>1. Broken(l) \in Line /\ Broken(l).key = l.key
  BY BrokenType
<1>2. CASE g = f
  BY <1>2 DEF TornFrom
<1>3. CASE g = Cut(f, l, split)
  BY <1>3, CutFrom
<1>4. CASE \E s \in BOOLEAN : g = Cut(f, Broken(l), s)
  <2>1. TornFrom(g, f, Broken(l))
    BY <1>1, <1>4, CutFrom
  <2>. QED  BY <1>1, <2>1 DEF TornFrom
<1>. QED  BY <1>2, <1>3, <1>4 DEF Torn

-----------------------------------------------------------------------------
(* Sorting by rank. *)

\* As many places as keys, when their keys are the numbers from one on, once each.
LEMMA CountByKey ==
    ASSUME NEW s, NEW V, NEW k \in Nat,
           \A i \in V : s[i].key \in 1..k,
           \A i, j \in V : s[i].key = s[j].key => i = j,
           \A r \in 1..k : \E i \in V : s[i].key = r
    PROVE  Cardinality(V) = k
<1> DEFINE f == [i \in V |-> s[i].key]
<1>1. IsFiniteSet(1..k) /\ Cardinality(1..k) = k
  <2>1. IsFiniteSet(1..k) /\ Cardinality(1..k) = IF 1 > k THEN 0 ELSE k - 1 + 1
    BY FS_Interval
  <2>. QED  BY <2>1
<1>2. f \in Injection(V, 1..k)
  BY DEF Injection, IsInjective
<1>3. f \in Surjection(V, 1..k)
  BY DEF Surjection
<1>. QED  BY <1>1, <1>2, <1>3, FS_Injection

\* Where each member has the set of those up to it, itself included, and of any two of
\* these sets one is a proper part of the other, the sizes of the sets number the
\* members from one on.
LEMMA Ranking ==
    ASSUME NEW S, IsFiniteSet(S), NEW U \in [S -> SUBSET S],
           \A x \in S : x \in U[x],
           \A x, y \in S : x # y => /\ U[x] # U[y]
                                    /\ U[x] \subseteq U[y] \/ U[y] \subseteq U[x]
    PROVE  /\ Cardinality(S) \in Nat
           /\ \A x \in S : Cardinality(U[x]) \in 1..Cardinality(S)
           /\ \A x, y \in S : Cardinality(U[x]) = Cardinality(U[y]) => x = y
           /\ \A r \in 1..Cardinality(S) : \E x \in S : Cardinality(U[x]) = r
<1> DEFINE n == Cardinality(S)
           rank == [x \in S |-> Cardinality(U[x])]
<1>1. n \in Nat
  BY FS_CardinalityType
<1>2. ASSUME NEW x \in S
      PROVE  IsFiniteSet(U[x]) /\ Cardinality(U[x]) \in 1..n
  <2>1. IsFiniteSet(U[x]) /\ Cardinality(U[x]) <= n
    BY FS_Subset
  <2>2. Cardinality(U[x]) \in Nat
    BY <2>1, FS_CardinalityType
  <2>3. Cardinality(U[x]) # 0
    BY <2>1, FS_EmptySet
  <2>. QED  BY <1>1, <2>1, <2>2, <2>3
<1>3. ASSUME NEW x \in S, NEW y \in S, Cardinality(U[x]) = Cardinality(U[y])
      PROVE  x = y
  <2>1. IsFiniteSet(U[x]) /\ IsFiniteSet(U[y])
    BY <1>2
  <2>2. CASE U[x] \subseteq U[y]
    BY <1>3, <2>1, <2>2, FS_Subset
  <2>3. CASE U[y] \subseteq U[x]
    BY <1>3, <2>1, <2>3, FS_Subset
  <2>. QED  BY <2>2, <2>3
<1>4. rank \in Injection(S, 1..n)
  BY <1>2, <1>3 DEF Injection, IsInjective
<1>5. IsFiniteSet(1..n) /\ Cardinality(1..n) = n
  <2>1. IsFiniteSet(1..n) /\ Cardinality(1..n) = IF 1 > n THEN 0 ELSE n - 1 + 1
    BY <1>1, FS_Interval
  <2>. QED  BY <1>1, <2>1
<1>6. rank \in Surjection(S, 1..n)
  BY <1>4, <1>5, FS_Injection
<1>7. \A r \in 1..n : \E x \in S : Cardinality(U[x]) = r
  BY <1>6 DEF Surjection
<1>. QED  BY <1>1, <1>2, <1>3, <1>7

\* Ascending lists every member of the set, once.
LEMMA AscendingLists ==
    ASSUME NEW S \in SUBSET Questions
    PROVE  /\ Ascending(S) \in Seq(S)
           /\ \A i, j \in DOMAIN Ascending(S) : Ascending(S)[i] = Ascending(S)[j] => i = j
           /\ \A q \in S : \E i \in DOMAIN Ascending(S) : Ascending(S)[i] = q
<1> DEFINE U == [q \in S |-> {p \in S : p <= q}]
           n == Cardinality(S)
           s == Ascending(S)
<1>1. IsFiniteSet(S)
  <2>1. IsFiniteSet(1..NumQuestions)
    BY FS_Interval, CountsAssumption
  <2>. QED  BY <2>1, FS_Subset DEF Questions
<1>2. S \subseteq Int
  BY DEF Questions
<1>3. \A x, y \in S : x # y => /\ U[x] # U[y]
                               /\ U[x] \subseteq U[y] \/ U[y] \subseteq U[x]
  <2>1. SUFFICES ASSUME NEW x \in S, NEW y \in S, x < y
                 PROVE  U[x] # U[y] /\ U[x] \subseteq U[y]
    BY <1>2
  <2>2. y \in U[y] /\ y \notin U[x]
    BY <1>2, <2>1
  <2>3. \A p \in S : p <= x => p <= y
    BY <1>2, <2>1
  <2>. QED  BY <2>2, <2>3
<1>4. U \in [S -> SUBSET S] /\ \A x \in S : x \in U[x]
  BY <1>2
<1>5. /\ n \in Nat
      /\ \A q \in S : Cardinality(U[q]) \in 1..n
      /\ \A p, q \in S : Cardinality(U[p]) = Cardinality(U[q]) => p = q
      /\ \A r \in 1..n : \E q \in S : Cardinality(U[q]) = r
  <2>. HIDE DEF U
  <2>. QED  BY <1>1, <1>3, <1>4, Ranking
<1>6. \A q \in S : Cardinality({p \in S : p <= q}) = Cardinality(U[q])
  OBVIOUS
<1>7. s = [r \in 1..n |-> CHOOSE q \in S : Cardinality({p \in S : p <= q}) = r]
  BY DEF Ascending
<1>. HIDE DEF U, s, n
<1>8. \A r \in 1..n : s[r] \in S /\ Cardinality(U[s[r]]) = r
  <2>. SUFFICES ASSUME NEW r \in 1..n  PROVE s[r] \in S /\ Cardinality(U[s[r]]) = r
    OBVIOUS
  <2>. DEFINE c == CHOOSE q \in S : Cardinality({p \in S : p <= q}) = r
  <2>1. s[r] = c
    BY <1>7
  <2>2. c \in S /\ Cardinality({p \in S : p <= c}) = r
    <3>1. PICK q \in S : Cardinality(U[q]) = r
      BY <1>5
    <3>2. Cardinality({p \in S : p <= q}) = r
      BY <1>6, <3>1
    <3>. QED  BY <3>2
  <2>. HIDE DEF c
  <2>. QED  BY <1>6, <2>1, <2>2
<1>9. s \in [1..n -> S]
  BY <1>7, <1>8
<1>10. s \in Seq(S) /\ DOMAIN s = 1..n
  BY <1>5, <1>9, SeqDef
<1>11. \A q \in S : \E i \in DOMAIN s : s[i] = q
  BY <1>5, <1>8, <1>10
<1>12. \A i, j \in DOMAIN s : s[i] = s[j] => i = j
  <2>. SUFFICES ASSUME NEW i \in 1..n, NEW j \in 1..n, s[i] = s[j]  PROVE i = j
    BY <1>10
  <2>1. Cardinality(U[s[i]]) = i /\ Cardinality(U[s[j]]) = j
    BY <1>8
  <2>. QED  BY <2>1
<1>. QED  BY <1>10, <1>11, <1>12 DEF s

\* Sorting the pairs by their keys puts every pair at one place.
LEMMA SortedPlaces ==
    ASSUME NEW s \in Seq(Pair)
    PROVE  /\ \A i \in DOMAIN s : Cardinality(Upto(s, i)) \in DOMAIN s
           /\ SortedByKey(s) \in Seq(Pair)
           /\ DOMAIN SortedByKey(s) = DOMAIN s
           /\ \A r \in DOMAIN s : \E i \in DOMAIN s :
                 Cardinality(Upto(s, i)) = r /\ SortedByKey(s)[r] = s[i]
<1> DEFINE S == DOMAIN s
           U == [i \in S |-> Upto(s, i)]
           n == Len(s)
           t == SortedByKey(s)
<1>1. n \in Nat /\ S = 1..n /\ \A i \in S : s[i] \in Pair /\ i \in Nat /\ s[i].key \in Nat
  <2>1. n \in Nat /\ S = 1..n /\ \A i \in S : s[i] \in Pair
    BY ElementOfSeq
  <2>. QED  BY <2>1 DEF Pair, Questions
<1>2. IsFiniteSet(S) /\ Cardinality(S) = n
  <2>1. IsFiniteSet(1..n) /\ Cardinality(1..n) = IF 1 > n THEN 0 ELSE n - 1 + 1
    BY <1>1, FS_Interval
  <2>. QED  BY <1>1, <2>1
<1>3. ASSUME NEW i \in S, NEW j \in S
      PROVE  j \in U[i] <=> s[j].key < s[i].key \/ (s[j].key = s[i].key /\ j <= i)
  BY DEF Upto
<1>4. U \in [S -> SUBSET S]
  BY DEF Upto
<1>. HIDE DEF U, S
<1>5. ASSUME NEW i \in S, NEW j \in S, i # j
      PROVE  U[i] # U[j] /\ (U[i] \subseteq U[j] \/ U[j] \subseteq U[i])
  <2>1. i \in U[i] /\ j \in U[j]
    BY <1>1, <1>3
  <2>2. i \in U[j] => j \notin U[i] /\ \A k \in S : k \in U[i] => k \in U[j]
    BY <1>1, <1>3, <1>5
  <2>3. j \in U[i] => i \notin U[j] /\ \A k \in S : k \in U[j] => k \in U[i]
    BY <1>1, <1>3, <1>5
  <2>4. i \in U[j] \/ j \in U[i]
    BY <1>1, <1>3
  <2>. QED  BY <1>4, <2>1, <2>2, <2>3, <2>4
<1>6. \A i \in S : i \in U[i]
  BY <1>1, <1>3
<1>7. /\ \A i \in S : Cardinality(U[i]) \in 1..n
      /\ \A r \in 1..n : \E i \in S : Cardinality(U[i]) = r
  BY <1>2, <1>4, <1>5, <1>6, Ranking
<1>8. \A i \in S : U[i] = Upto(s, i)
  BY DEF U
<1>9. t = [r \in S |-> s[CHOOSE i \in S : Cardinality(Upto(s, i)) = r]]
  BY DEF SortedByKey, S
<1>10. ASSUME NEW r \in S
       PROVE  \E i \in S : Cardinality(Upto(s, i)) = r /\ t[r] = s[i]
  <2>. DEFINE c == CHOOSE i \in S : Cardinality(Upto(s, i)) = r
  <2>1. t[r] = s[c]
    BY <1>9
  <2>2. c \in S /\ Cardinality(Upto(s, c)) = r
    BY <1>1, <1>7, <1>8
  <2>. QED  BY <2>1, <2>2
<1>11. \A r \in S : t[r] \in Pair
  BY <1>1, <1>10
<1>12. t \in [1..n -> Pair]
  BY <1>1, <1>9, <1>11
<1>13. t \in Seq(Pair) /\ DOMAIN t = S
  BY <1>1, <1>12, SeqDef
<1>. QED  BY <1>1, <1>7, <1>8, <1>10, <1>13 DEF S

\* When the pairs are of all the questions, one each, sorting puts the pair of a question
\* at the question's own place.
LEMMA SortedIsOriginalOrder ==
    ASSUME NEW s \in Seq(Pair),
           \A i, j \in DOMAIN s : s[i].key = s[j].key => i = j,
           {s[i].key : i \in DOMAIN s} = Questions
    PROVE  /\ DOMAIN s = Questions
           /\ \A q \in Questions :
                 \E i \in DOMAIN s : SortedByKey(s)[q] = s[i] /\ s[i].key = q
<1> DEFINE n == Len(s)
<1>1. n \in Nat /\ DOMAIN s = 1..n /\ \A i \in DOMAIN s : s[i] \in Pair
  BY ElementOfSeq
<1>2. \A i \in DOMAIN s : s[i].key \in 1..NumQuestions
  BY <1>1 DEF Pair, Questions
<1>3. \A k \in 1..NumQuestions : \E i \in DOMAIN s : s[i].key = k
  BY DEF Questions
<1>4. n = NumQuestions
  <2>1. Cardinality(DOMAIN s) = NumQuestions
    BY <1>2, <1>3, CountsAssumption, CountByKey
  <2>2. Cardinality(1..n) = IF 1 > n THEN 0 ELSE n - 1 + 1
    BY <1>1, FS_Interval
  <2>. QED  BY <1>1, <2>1, <2>2
<1>5. ASSUME NEW i \in DOMAIN s
      PROVE  Cardinality(Upto(s, i)) = s[i].key
  <2>1. Upto(s, i) = {j \in DOMAIN s : s[j].key <= s[i].key}
    <3>1. \A j \in DOMAIN s : s[j].key \in Int
      BY <1>2
    <3>2. \A j \in DOMAIN s : s[j].key = s[i].key => j <= i
      BY <1>1
    <3>. QED  BY <3>1, <3>2 DEF Upto
  <2>2. s[i].key \in 1..NumQuestions /\ s[i].key \in Nat
    BY <1>2
  <2>3. \A j \in Upto(s, i) : j \in DOMAIN s /\ s[j].key \in 1..s[i].key
    BY <1>2, <2>1, <2>2
  <2>4. \A r \in 1..s[i].key : \E j \in Upto(s, i) : s[j].key = r
    <3>. SUFFICES ASSUME NEW r \in 1..s[i].key  PROVE \E j \in Upto(s, i) : s[j].key = r
      OBVIOUS
    <3>1. r \in 1..NumQuestions
      BY <2>2, CountsAssumption
    <3>2. PICK j \in DOMAIN s : s[j].key = r
      BY <1>3, <3>1
    <3>. QED  BY <2>1, <3>2
  <2>. DEFINE W == Upto(s, i)
              m == s[i].key
  <2>5. /\ m \in Nat
        /\ \A j \in W : s[j].key \in 1..m
        /\ \A a, b \in W : s[a].key = s[b].key => a = b
        /\ \A r \in 1..m : \E j \in W : s[j].key = r
    BY <2>2, <2>3, <2>4
  <2>. HIDE DEF W, m
  <2>6. Cardinality(W) = m
    BY <2>5, CountByKey
  <2>. QED  BY <2>6 DEF W, m
<1>6. ASSUME NEW q \in Questions
      PROVE  \E i \in DOMAIN s : SortedByKey(s)[q] = s[i] /\ s[i].key = q
  <2>1. q \in DOMAIN s
    BY <1>1, <1>4 DEF Questions
  <2>2. PICK i \in DOMAIN s : Cardinality(Upto(s, i)) = q /\ SortedByKey(s)[q] = s[i]
    BY <2>1, SortedPlaces
  <2>. QED  BY <1>5, <2>2
<1>. QED  BY <1>1, <1>4, <1>6 DEF Questions

-----------------------------------------------------------------------------
(* The run folder. *)

\* The records of an attempt are records of its question.
LEMMA RecordType ==
    ASSUME attempt \in Attempt
    PROVE  /\ RowLine \in Line /\ RowLine.key = attempt.key /\ RowLine.whole
           /\ ResponseLine \in Line /\ ResponseLine.key = attempt.key /\ ResponseLine.whole
           /\ attempt.key \in Questions
           /\ attempt.status \in {"success", "failed"}
           /\ RowSplit \in BOOLEAN /\ ResponseSplit \in BOOLEAN
BY DEF Attempt, RowLine, ResponseLine, RowSplit, ResponseSplit, Line, Values

\* Reading a file gives an entry for every question.
LEMMA LoadedType ==
    ASSUME NEW f \in File
    PROVE  /\ Loaded(f) \in [Questions -> Entry]
           /\ \A q \in Questions : Loaded(f)[q] = Latest(f, q)
BY LatestType DEF Loaded

\* A step that ends or suspends the work of an invocation and leaves the files, and
\* the questions of the checkpoint, as they are keeps the invariant.
LEMMA AtRest ==
    ASSUME IInv, StoreTypeOK', FolderIsNew',
           pc' \notin Underway,
           UNCHANGED <<rowsFile, respFile, csv>>,
           ckpt'.completed = ckpt.completed
    PROVE  IInv'
<1> USE DEF IInv, Underway, Working, Recording
<1>1. HeldIsSaved' /\ TodoIsOpen' /\ AttemptIsOpen' /\ AllAccounted' /\ NothingLeft'
  BY DEF HeldIsSaved, TodoIsOpen, AttemptIsOpen, AllAccounted, NothingLeft
<1>2. TailIsOpen'
  BY DEF TailIsOpen
<1>3. AttemptIsWritten' /\ MemoryHasRows'
  BY DEF AttemptIsWritten, MemoryHasRows
<1>4. RowsAreDurable' /\ DurableCompletion' /\ CsvCoversCheckpoint'
  BY DEF RowsAreDurable, DurableCompletion, CsvCoversCheckpoint
<1>. QED  BY <1>1, <1>2, <1>3, <1>4

\* What a process starts with in memory has its type.
LEMMA EmptyMemoryType == /\ NothingLoaded \in [Questions -> Entry]
                         /\ NoCheckpoint \in Checkpoint
                         /\ NewCheckpoint \in Checkpoint
<1>1. Missing \in Entry
  BY DEF Entry
<1>2. NothingLoaded \in [Questions -> Entry]
  BY <1>1 DEF NothingLoaded
<1>. QED  BY <1>2 DEF NoCheckpoint, NewCheckpoint, Checkpoint

\* A process that is gone holds nothing.
LEMMA ForgetType == Forget => /\ todo' \in SUBSET Questions
                              /\ attempt' \in Attempt \cup {NoAttempt}
                              /\ held' \in Checkpoint
                              /\ rows' \in [Questions -> Entry]
                              /\ resps' \in [Questions -> Entry]
BY EmptyMemoryType DEF Forget

\* The invariant holds of a folder nobody has worked on.
LEMMA InitIInv == Init => IInv
<1> SUFFICES ASSUME Init  PROVE IInv
  OBVIOUS
<1>1. EmptyFile \in File
  BY EmptySeq DEF EmptyFile, File
<1>2. StoreTypeOK
  <2>1. run \in 0..MaxRuns
    BY CountsAssumption DEF Init
  <2>2. csv \in [Questions -> Entry] /\ rows \in [Questions -> Entry]
        /\ resps \in [Questions -> Entry] /\ ckpt \in Checkpoint /\ held \in Checkpoint
    BY EmptyMemoryType DEF Init
  <2>. QED  BY <1>1, <2>1, <2>2 DEF Init, StoreTypeOK
<1>. QED  BY <1>2 DEF Init, IInv, FolderIsNew, HeldIsSaved, TodoIsOpen, AttemptIsOpen,
       AllAccounted, NothingLeft, TailIsOpen, AttemptIsWritten, RowsAreDurable,
       MemoryHasRows, DurableCompletion, CsvCoversCheckpoint, Underway, Working,
       Recording, NoCheckpoint, EmptyFile

-----------------------------------------------------------------------------
(* The steps that leave both files alone. *)

LEMMA InvokeIInv == IInv /\ Invoke => IInv'
<1> SUFFICES ASSUME IInv, Invoke  PROVE IInv'
  OBVIOUS
<1>1. StoreTypeOK'
  BY CountsAssumption DEF IInv, StoreTypeOK, Invoke, disk, memory, Working
<1>2. FolderIsNew'
  BY DEF IInv, StoreTypeOK, FolderIsNew, Invoke, disk
<1>3. pc' \notin Underway /\ UNCHANGED <<rowsFile, respFile, csv, ckpt>>
  BY DEF Invoke, Underway, disk
<1>. QED  BY <1>1, <1>2, <1>3, AtRest

LEMMA StopIInv == IInv /\ Stop => IInv'
<1> SUFFICES ASSUME IInv, Stop  PROVE IInv'
  OBVIOUS
<1>1. pc' \in {"mark", "patch", "down"} /\ UNCHANGED <<rowsFile, respFile, csv, ckpt, run>>
  BY DEF Stop, disk
<1>2. StoreTypeOK'
  BY <1>1, ForgetType DEF IInv, StoreTypeOK, Stop
<1>3. FolderIsNew'
  BY <1>1 DEF IInv, FolderIsNew
<1>. QED  BY <1>1, <1>2, <1>3, AtRest DEF Underway, Working, Recording

LEMMA MarkInterruptedIInv == IInv /\ MarkInterrupted => IInv'
<1> SUFFICES ASSUME IInv, MarkInterrupted  PROVE IInv'
  OBVIOUS
<1>1. pc' = "patch" /\ UNCHANGED <<rowsFile, respFile, csv, run>>
  BY DEF MarkInterrupted
<1>2. ckpt' \in Checkpoint /\ ckpt'.completed = ckpt.completed
  BY DEF MarkInterrupted, IInv, StoreTypeOK, Checkpoint
<1>3. StoreTypeOK'
  BY <1>1, <1>2, ForgetType DEF IInv, StoreTypeOK, MarkInterrupted
<1>4. FolderIsNew'
  BY <1>1 DEF IInv, FolderIsNew, MarkInterrupted, NoCheckpoint
<1>. QED  BY <1>1, <1>2, <1>3, <1>4, AtRest DEF Underway, Working, Recording

LEMMA PatchIInv == IInv /\ Patch => IInv'
<1> SUFFICES ASSUME IInv, Patch  PROVE IInv'
  OBVIOUS
<1>1. pc' = "down" /\ UNCHANGED <<rowsFile, respFile, csv, ckpt, run>>
  BY DEF Patch
<1>2. StoreTypeOK'
  BY <1>1, ForgetType DEF IInv, StoreTypeOK, Patch
<1>3. FolderIsNew'
  BY <1>1 DEF IInv, FolderIsNew
<1>. QED  BY <1>1, <1>2, <1>3, AtRest DEF Underway, Working, Recording

LEMMA RefuseResumeIInv == IInv /\ RefuseResume => IInv'
<1> SUFFICES ASSUME IInv, RefuseResume  PROVE IInv'
  OBVIOUS
<1>1. pc' = "patch" /\ UNCHANGED <<rowsFile, respFile, csv, ckpt, run>>
  BY DEF RefuseResume, disk
<1>2. StoreTypeOK'
  BY <1>1 DEF IInv, StoreTypeOK, RefuseResume, memory
<1>3. FolderIsNew'
  BY <1>1 DEF IInv, FolderIsNew
<1>. QED  BY <1>1, <1>2, <1>3, AtRest DEF Underway, Working, Recording

LEMMA StartFreshIInv == IInv /\ StartFresh => IInv'
<1> SUFFICES ASSUME IInv, StartFresh  PROVE IInv'
  OBVIOUS
<1>1. /\ pc' = NextStage(Questions) /\ todo' = Questions
      /\ ckpt' = NewCheckpoint /\ held' = NewCheckpoint
      /\ UNCHANGED <<rowsFile, respFile, csv, run>>
  BY DEF StartFresh
<1>2. pc' \in {"answering", "export"} /\ (pc' = "export" => Questions = {})
  BY <1>1 DEF NextStage
<1>3. StoreTypeOK'
  BY <1>1, <1>2, EmptyMemoryType DEF IInv, StoreTypeOK, StartFresh, Working
<1>4. FolderIsNew' /\ HeldIsSaved' /\ TodoIsOpen' /\ AllAccounted' /\ NothingLeft'
  BY <1>1, <1>2 DEF IInv, FolderIsNew, StartFresh, HeldIsSaved, TodoIsOpen,
                    AllAccounted, NothingLeft, NewCheckpoint
<1>5. AttemptIsOpen' /\ TailIsOpen' /\ AttemptIsWritten'
  BY <1>1, <1>2 DEF AttemptIsOpen, TailIsOpen, AttemptIsWritten, Recording, NewCheckpoint
<1>6. RowsAreDurable' /\ MemoryHasRows' /\ DurableCompletion' /\ CsvCoversCheckpoint'
  BY <1>1 DEF RowsAreDurable, MemoryHasRows, DurableCompletion, CsvCoversCheckpoint,
              NewCheckpoint
<1>. QED  BY <1>3, <1>4, <1>5, <1>6 DEF IInv

LEMMA ResumeIInv == IInv /\ Resume => IInv'
<1> SUFFICES ASSUME IInv, Resume  PROVE IInv'
  OBVIOUS
<1>1. /\ pc' = NextStage(todo') /\ todo' = Questions \ ckpt.completed
      /\ held' = ckpt /\ rows' = Loaded(rowsFile) /\ resps' = Loaded(respFile)
      /\ UNCHANGED <<rowsFile, respFile, csv, ckpt, run, attempt>>
      /\ run > 1 /\ ckpt.status # "absent"
  BY DEF Resume, disk, Pending, CanResume
<1>2. pc' \in {"answering", "export"} /\ (pc' = "export" => todo' = {})
  BY <1>1 DEF NextStage
<1>3. StoreTypeOK'
  <2>1. rows' \in [Questions -> Entry] /\ resps' \in [Questions -> Entry]
    BY <1>1, LoadedType DEF IInv, StoreTypeOK
  <2>. QED  BY <1>1, <1>2, <2>1 DEF IInv, StoreTypeOK, Working
<1>4. FolderIsNew'
  BY <1>1, <1>2 DEF IInv, StoreTypeOK, FolderIsNew
<1>5. HeldIsSaved' /\ TodoIsOpen' /\ AllAccounted' /\ NothingLeft'
  BY <1>1, <1>2 DEF HeldIsSaved, TodoIsOpen, AllAccounted, NothingLeft
<1>6. AttemptIsOpen' /\ TailIsOpen' /\ AttemptIsWritten'
  BY <1>1, <1>2 DEF IInv, AttemptIsOpen, TailIsOpen, AttemptIsWritten, Recording
<1>7. RowsAreDurable' /\ DurableCompletion' /\ CsvCoversCheckpoint'
  BY <1>1 DEF IInv, RowsAreDurable, DurableCompletion, CsvCoversCheckpoint
<1>8. MemoryHasRows'
  <2>1. \A q \in Questions : rows'[q] = Latest(rowsFile, q)
    BY <1>1, LoadedType DEF IInv, StoreTypeOK
  <2>. QED  BY <1>1, <2>1 DEF IInv, MemoryHasRows, RowsAreDurable, StoreTypeOK, Checkpoint
<1>. QED  BY <1>3, <1>4, <1>5, <1>6, <1>7, <1>8 DEF IInv

LEMMA AnswerIInv == IInv /\ Answer => IInv'
<1> SUFFICES ASSUME IInv, Answer  PROVE IInv'
  OBVIOUS
<1>1. PICK a \in Attempt : /\ a.key \in todo
                           /\ attempt' = a
                           /\ todo' = todo \ {a.key}
  BY DEF Answer
<1>2. /\ pc = "answering" /\ pc' = "append_row"
      /\ UNCHANGED <<rowsFile, respFile, csv, ckpt, run, held, rows, resps>>
  BY DEF Answer, disk
<1>3. a.key \in Questions /\ a.key \notin ckpt.completed
  BY <1>1, <1>2 DEF IInv, StoreTypeOK, TodoIsOpen, Underway, Working
<1>4. run \in Runs /\ ckpt.status # "absent"
  <2>1. ckpt.status # "absent"
    BY <1>2 DEF IInv, HeldIsSaved, Underway, Working
  <2>2. run # 0
    BY <2>1 DEF IInv, FolderIsNew, NoCheckpoint
  <2>. QED  BY <2>1, <2>2, CountsAssumption DEF IInv, StoreTypeOK, Runs
<1>5. attempt' \in Attempt
  BY <1>1
<1>6. StoreTypeOK'
  BY <1>1, <1>2, <1>5 DEF IInv, StoreTypeOK, Working, Recording
<1>7. FolderIsNew' /\ HeldIsSaved' /\ TodoIsOpen' /\ NothingLeft'
  BY <1>1, <1>2, <1>4 DEF IInv, FolderIsNew, HeldIsSaved, TodoIsOpen, NothingLeft,
                          Underway, Working
<1>8. AttemptIsOpen' /\ AllAccounted'
  BY <1>1, <1>2, <1>3, <1>5 DEF IInv, AttemptIsOpen, AllAccounted, Underway, Working,
                                Recording
<1>9. TailIsOpen' /\ AttemptIsWritten' /\ MemoryHasRows'
  BY <1>2 DEF IInv, TailIsOpen, AttemptIsWritten, MemoryHasRows, Underway, Working
<1>10. RowsAreDurable' /\ DurableCompletion' /\ CsvCoversCheckpoint'
  BY <1>2 DEF IInv, RowsAreDurable, DurableCompletion, CsvCoversCheckpoint
<1>. QED  BY <1>6, <1>7, <1>8, <1>9, <1>10 DEF IInv

LEMMA WriteCsvIInv == IInv /\ WriteCsv => IInv'
<1> SUFFICES ASSUME IInv, WriteCsv  PROVE IInv'
  OBVIOUS
<1>1. /\ pc = "write_csv" /\ pc' = "save" /\ csv' = rows
      /\ UNCHANGED <<rowsFile, respFile, ckpt, run, todo, attempt, held,
                     rows, resps>>
  BY DEF WriteCsv, memory
<1>2. StoreTypeOK'
  BY <1>1 DEF IInv, StoreTypeOK, Working, Recording
<1>3. FolderIsNew' /\ HeldIsSaved' /\ TodoIsOpen' /\ AttemptIsOpen' /\ AllAccounted'
      /\ NothingLeft' /\ TailIsOpen'
  BY <1>1 DEF IInv, FolderIsNew, HeldIsSaved, TodoIsOpen, AttemptIsOpen, AllAccounted,
              NothingLeft, TailIsOpen, Underway, Working, Recording
<1>4. AttemptIsWritten'
  BY <1>1 DEF IInv, AttemptIsWritten, RowLine, ResponseLine
<1>5. RowsAreDurable' /\ MemoryHasRows' /\ DurableCompletion' /\ CsvCoversCheckpoint'
  BY <1>1 DEF IInv, RowsAreDurable, MemoryHasRows, DurableCompletion, CsvCoversCheckpoint,
              Underway, Working, Recording
<1>. QED  BY <1>2, <1>3, <1>4, <1>5 DEF IInv

LEMMA SaveCheckpointIInv == IInv /\ SaveCheckpoint => IInv'
<1> SUFFICES ASSUME IInv, SaveCheckpoint  PROVE IInv'
  OBVIOUS
<1>1. /\ pc = "save" /\ held' = Recorded(held) /\ ckpt' = held'
      /\ pc' = NextStage(todo)
      /\ UNCHANGED <<rowsFile, respFile, csv, run, todo, attempt, rows, resps>>
  BY DEF SaveCheckpoint
<1>2. /\ held = ckpt /\ ckpt \in Checkpoint /\ ckpt.status # "absent"
      /\ attempt \in Attempt /\ attempt.key \notin ckpt.completed \cup todo
      /\ todo \cap ckpt.completed = {}
  BY <1>1 DEF IInv, StoreTypeOK, HeldIsSaved, AttemptIsOpen, TodoIsOpen, Underway, Working,
              Recording
<1>3. /\ attempt.key \in Questions
      /\ attempt.status \in {"success", "failed"}
  BY <1>2, RecordType
<1>4. /\ ckpt' \in Checkpoint /\ ckpt'.status = "in_progress"
      /\ ckpt'.completed = IF attempt.status = "success"
                           THEN ckpt.completed \cup {attempt.key} ELSE ckpt.completed
      /\ ckpt'.completed \cup ckpt'.failed
           = ckpt.completed \cup ckpt.failed \cup {attempt.key}
  BY <1>1, <1>2, <1>3 DEF Recorded, Checkpoint
<1>5. /\ pc' \in {"answering", "export"}
      /\ pc' = "export" => todo = {}
  BY <1>1 DEF NextStage
<1>6. StoreTypeOK'
  BY <1>1, <1>4, <1>5 DEF IInv, StoreTypeOK, Working
<1>7. FolderIsNew' /\ HeldIsSaved' /\ NothingLeft' /\ AttemptIsOpen'
  <2>1. run # 0
    BY <1>2 DEF IInv, FolderIsNew, NoCheckpoint
  <2>. QED  BY <1>1, <1>4, <1>5, <2>1 DEF FolderIsNew, HeldIsSaved, NothingLeft,
                                          AttemptIsOpen, Recording
<1>8. TodoIsOpen'
  BY <1>1, <1>2, <1>4 DEF TodoIsOpen
<1>9. AllAccounted'
  <2>1. \A q \in Questions : q \in todo \cup ckpt.completed \cup ckpt.failed \cup {attempt.key}
    BY <1>1 DEF IInv, AllAccounted, Underway, Working, Recording
  <2>. QED  BY <1>1, <1>4, <2>1 DEF AllAccounted
<1>10. TailIsOpen' /\ AttemptIsWritten'
  BY <1>1, <1>5 DEF IInv, TailIsOpen, AttemptIsWritten
<1>11. ASSUME Intact(rowsFile)
       PROVE  \A q \in ckpt'.completed :
                Latest(rowsFile, q).val = "success" /\ rows[q].val = "success"
  <2>1. /\ Latest(rowsFile, attempt.key) = RowLine /\ rows[attempt.key] = RowLine
        /\ RowLine.val = attempt.status
    BY <1>1, <1>11 DEF IInv, AttemptIsWritten, RowLine
  <2>2. \A q \in ckpt.completed :
           Latest(rowsFile, q).val = "success" /\ rows[q].val = "success"
    BY <1>1, <1>11 DEF IInv, RowsAreDurable, MemoryHasRows, Underway, Working, Recording
  <2>. QED  BY <1>4, <2>1, <2>2
<1>12. RowsAreDurable' /\ MemoryHasRows'
  BY <1>1, <1>11 DEF RowsAreDurable, MemoryHasRows
<1>13. CsvCoversCheckpoint'
  <2>1. csv[attempt.key] = RowLine /\ RowLine.val = attempt.status
    BY <1>1 DEF IInv, AttemptIsWritten, RowLine
  <2>. QED  BY <1>1, <1>4, <2>1 DEF IInv, CsvCoversCheckpoint
<1>14. DurableCompletion'
  <2>1. SUFFICES ASSUME Intact(rowsFile), Intact(respFile), NEW q \in ckpt'.completed
                 PROVE  /\ Latest(rowsFile, q).val = "success"
                        /\ Latest(respFile, q).val = "mapping"
                        /\ Latest(respFile, q).run = Latest(rowsFile, q).run
    BY <1>1 DEF DurableCompletion
  <2>2. CASE q \in ckpt.completed
    BY <2>1, <2>2 DEF IInv, DurableCompletion
  <2>3. CASE q \notin ckpt.completed
    <3>1. q = attempt.key /\ attempt.status = "success"
      BY <1>4, <2>1, <2>3
    <3>2. attempt.response
      BY <1>2, <3>1 DEF Attempt
    <3>. QED  BY <3>2, <1>1, <2>1, <3>1 DEF IInv, AttemptIsWritten, RowLine, ResponseLine
  <2>. QED  BY <2>2, <2>3
<1>. QED  BY <1>6, <1>7, <1>8, <1>9, <1>10, <1>12, <1>13, <1>14 DEF IInv

LEMMA ExportIInv == IInv /\ Export => IInv'
<1> SUFFICES ASSUME IInv, Export  PROVE IInv'
  OBVIOUS
<1>1. /\ pc = "export" /\ pc' = "finalize"
      /\ UNCHANGED <<rowsFile, respFile, csv, ckpt, run, todo, attempt, held,
                     rows, resps>>
  BY DEF Export, memory
<1>. QED  BY <1>1 DEF IInv, StoreTypeOK, FolderIsNew, HeldIsSaved, TodoIsOpen, AttemptIsOpen,
       AllAccounted, NothingLeft, TailIsOpen, AttemptIsWritten, RowsAreDurable,
       MemoryHasRows, DurableCompletion, CsvCoversCheckpoint, Underway, Working, Recording

LEMMA FinalizeIInv == IInv /\ Finalize => IInv'
<1> SUFFICES ASSUME IInv, Finalize  PROVE IInv'
  OBVIOUS
<1>1. /\ pc = "finalize" /\ pc' = "patch" /\ ckpt' = held'
      /\ held' = [held EXCEPT !.status = IF held.failed # {} THEN "completed_with_failures"
                                                            ELSE "completed"]
      /\ UNCHANGED <<rowsFile, respFile, csv, run, todo, attempt, rows, resps>>
  BY DEF Finalize
<1>2. held = ckpt /\ ckpt.status # "absent"
  BY <1>1 DEF IInv, HeldIsSaved, Underway, Working
<1>3. ckpt' \in Checkpoint /\ ckpt'.completed = ckpt.completed
  BY <1>1, <1>2 DEF IInv, StoreTypeOK, Checkpoint
<1>4. StoreTypeOK'
  BY <1>1, <1>3 DEF IInv, StoreTypeOK
<1>5. FolderIsNew'
  BY <1>1, <1>2 DEF IInv, FolderIsNew, NoCheckpoint
<1>. QED  BY <1>1, <1>3, <1>4, <1>5, AtRest DEF Underway, Working, Recording

-----------------------------------------------------------------------------
(* The steps that write a file. *)

LEMMA AppendRowIInv == IInv /\ AppendRow => IInv'
<1> SUFFICES ASSUME IInv, AppendRow  PROVE IInv'
  OBVIOUS
<1>1. /\ pc = "append_row" /\ pc' = "append_response"
      /\ rowsFile' = Appended(rowsFile, RowLine, RowSplit)
      /\ UNCHANGED <<respFile, csv, ckpt, run, todo, attempt, held, rows, resps>>
  BY DEF AppendRow, memory
<1>2. /\ rowsFile \in File /\ ckpt \in Checkpoint
      /\ attempt \in Attempt /\ attempt.key \notin ckpt.completed
  BY <1>1 DEF IInv, StoreTypeOK, AttemptIsOpen, Recording
<1>3. rowsFile' \in File /\ ~rowsFile'.open
  BY <1>1, <1>2, RecordType, AppendedLines DEF Extends
<1>4. ASSUME Intact(rowsFile')
      PROVE  /\ Intact(rowsFile)
             /\ Latest(rowsFile', attempt.key) = RowLine
             /\ \A q \in ckpt.completed : Latest(rowsFile', q) = Latest(rowsFile, q)
  <2>1. /\ Intact(rowsFile)
        /\ Latest(rowsFile', RowLine.key) = RowLine
        /\ \A q \in Questions \ {RowLine.key} : Latest(rowsFile', q) = Latest(rowsFile, q)
    BY <1>1, <1>2, <1>4, RecordType, IntactAppended
  <2>. QED  BY <1>2, <2>1, RecordType DEF Checkpoint
<1>5. StoreTypeOK'
  BY <1>1, <1>3 DEF IInv, StoreTypeOK, Working, Recording
<1>6. FolderIsNew' /\ HeldIsSaved' /\ TodoIsOpen' /\ AttemptIsOpen' /\ AllAccounted'
      /\ NothingLeft' /\ TailIsOpen'
  BY <1>1, <1>3 DEF IInv, FolderIsNew, HeldIsSaved, TodoIsOpen, AttemptIsOpen, AllAccounted,
                    NothingLeft, TailIsOpen, Underway, Working, Recording
<1>7. AttemptIsWritten'
  BY <1>1, <1>4 DEF AttemptIsWritten, RowLine
<1>8. RowsAreDurable' /\ MemoryHasRows' /\ CsvCoversCheckpoint'
  BY <1>1, <1>4 DEF IInv, RowsAreDurable, MemoryHasRows, CsvCoversCheckpoint,
                    Underway, Working, Recording
<1>9. DurableCompletion'
  BY <1>1, <1>4 DEF IInv, DurableCompletion
<1>. QED  BY <1>5, <1>6, <1>7, <1>8, <1>9 DEF IInv

LEMMA AppendResponseIInv == IInv /\ AppendResponse => IInv'
<1> SUFFICES ASSUME IInv, AppendResponse  PROVE IInv'
  OBVIOUS
<1>1. /\ pc = "append_response" /\ pc' = "write_csv"
      /\ respFile' = Appended(respFile, ResponseLine, ResponseSplit)
      /\ rows' = [rows EXCEPT ![attempt.key] = RowLine]
      /\ resps' = [resps EXCEPT ![attempt.key] = ResponseLine]
      /\ UNCHANGED <<rowsFile, csv, ckpt, run, todo, attempt, held>>
  BY DEF AppendResponse
<1>2. /\ respFile \in File /\ ckpt \in Checkpoint
      /\ attempt \in Attempt /\ attempt.key \notin ckpt.completed
      /\ rows \in [Questions -> Entry] /\ resps \in [Questions -> Entry]
  BY <1>1 DEF IInv, StoreTypeOK, AttemptIsOpen, Recording
<1>3. respFile' \in File /\ ~respFile'.open
  BY <1>1, <1>2, RecordType, AppendedLines DEF Extends
<1>4. ASSUME Intact(respFile')
      PROVE  /\ Intact(respFile)
             /\ Latest(respFile', attempt.key) = ResponseLine
             /\ \A q \in ckpt.completed : Latest(respFile', q) = Latest(respFile, q)
  <2>1. /\ Intact(respFile)
        /\ Latest(respFile', ResponseLine.key) = ResponseLine
        /\ \A q \in Questions \ {ResponseLine.key} : Latest(respFile', q) = Latest(respFile, q)
    BY <1>1, <1>2, <1>4, RecordType, IntactAppended
  <2>. QED  BY <1>2, <2>1, RecordType DEF Checkpoint
<1>5. /\ rows' \in [Questions -> Entry] /\ resps' \in [Questions -> Entry]
      /\ rows'[attempt.key] = RowLine
      /\ \A q \in ckpt.completed : rows'[q] = rows[q]
  <2>1. RowLine \in Entry /\ ResponseLine \in Entry /\ attempt.key \in Questions
    BY <1>2, RecordType DEF Entry
  <2>. QED  BY <1>1, <1>2, <2>1 DEF Checkpoint
<1>6. StoreTypeOK'
  BY <1>1, <1>3, <1>5 DEF IInv, StoreTypeOK, Working, Recording
<1>7. FolderIsNew' /\ HeldIsSaved' /\ TodoIsOpen' /\ AttemptIsOpen' /\ AllAccounted'
      /\ NothingLeft' /\ TailIsOpen'
  BY <1>1, <1>3 DEF IInv, FolderIsNew, HeldIsSaved, TodoIsOpen, AttemptIsOpen, AllAccounted,
                    NothingLeft, TailIsOpen, Underway, Working, Recording
<1>8. AttemptIsWritten'
  BY <1>1, <1>4, <1>5 DEF IInv, AttemptIsWritten, RowLine, ResponseLine
<1>9. RowsAreDurable' /\ MemoryHasRows' /\ CsvCoversCheckpoint'
  BY <1>1, <1>5 DEF IInv, RowsAreDurable, MemoryHasRows, CsvCoversCheckpoint,
                    Underway, Working, Recording
<1>10. DurableCompletion'
  BY <1>1, <1>4 DEF IInv, DurableCompletion
<1>. QED  BY <1>6, <1>7, <1>8, <1>9, <1>10 DEF IInv

\* A killed append of the current attempt does not disturb a completed question.
LEMMA TornKeeps ==
    ASSUME IInv, NEW f \in File, NEW l \in Line, l.key \notin ckpt.completed,
           f.open => LastKey(f) \notin ckpt.completed,
           NEW g, TornFrom(g, f, l)
    PROVE  /\ g \in File
           /\ g.open => LastKey(g) \notin ckpt.completed
           /\ Intact(g) => /\ Intact(f)
                           /\ \A q \in ckpt.completed : Latest(g, q) = Latest(f, q)
<1>1. ckpt.completed \subseteq Questions
  BY DEF IInv, StoreTypeOK, Checkpoint
<1>. QED  BY <1>1 DEF TornFrom

LEMMA StopInAppendIInv == IInv /\ StopInAppend => IInv'
<1> SUFFICES ASSUME IInv, StopInAppend  PROVE IInv'
  OBVIOUS
<1>1. /\ pc \in Recording /\ pc' \in {"patch", "down"}
      /\ UNCHANGED <<csv, ckpt, run>>
  BY DEF StopInAppend, Recording
<1>2. pc' \notin Underway
  BY <1>1 DEF Underway, Working, Recording
<1>3. /\ attempt \in Attempt /\ attempt.key \notin ckpt.completed
      /\ rowsFile \in File /\ respFile \in File
  BY <1>1 DEF IInv, AttemptIsOpen, StoreTypeOK
<1>4. /\ rowsFile.open => LastKey(rowsFile) \notin ckpt.completed
      /\ respFile.open => LastKey(respFile) \notin ckpt.completed
  BY DEF IInv, TailIsOpen, LastKey
<1>5. /\ rowsFile' \in File
      /\ rowsFile'.open => LastKey(rowsFile') \notin ckpt.completed
      /\ Intact(rowsFile') =>
           /\ Intact(rowsFile)
           /\ \A q \in ckpt.completed : Latest(rowsFile', q) = Latest(rowsFile, q)
  <2>1. CASE UNCHANGED rowsFile
    BY <1>3, <1>4, <2>1
  <2>2. CASE rowsFile' \in Torn(rowsFile, RowLine, RowSplit)
    <3>1. TornFrom(rowsFile', rowsFile, RowLine)
      BY <1>3, <2>2, RecordType, TornFiles
    <3>. QED  BY <1>3, <1>4, <3>1, RecordType, TornKeeps
  <2>. QED  BY <2>1, <2>2 DEF StopInAppend
<1>6. /\ respFile' \in File
      /\ respFile'.open => LastKey(respFile') \notin ckpt.completed
      /\ Intact(respFile') =>
           /\ Intact(respFile)
           /\ \A q \in ckpt.completed : Latest(respFile', q) = Latest(respFile, q)
  <2>1. CASE UNCHANGED respFile
    BY <1>3, <1>4, <2>1
  <2>2. CASE respFile' \in Torn(respFile, ResponseLine, ResponseSplit)
    <3>1. TornFrom(respFile', respFile, ResponseLine)
      BY <1>3, <2>2, RecordType, TornFiles
    <3>. QED  BY <1>3, <1>4, <3>1, RecordType, TornKeeps
  <2>. QED  BY <2>1, <2>2 DEF StopInAppend
<1>7. StoreTypeOK'
  BY <1>1, <1>5, <1>6, ForgetType DEF IInv, StoreTypeOK, StopInAppend
<1>8. FolderIsNew' /\ HeldIsSaved' /\ TodoIsOpen' /\ AttemptIsOpen' /\ AllAccounted'
      /\ NothingLeft' /\ MemoryHasRows' /\ AttemptIsWritten'
  BY <1>1, <1>2 DEF IInv, FolderIsNew, HeldIsSaved, TodoIsOpen, AttemptIsOpen, AllAccounted,
                    NothingLeft, MemoryHasRows, AttemptIsWritten, Underway, Working, Recording
<1>9. TailIsOpen'
  BY <1>1, <1>5, <1>6 DEF TailIsOpen, LastKey
<1>10. RowsAreDurable' /\ CsvCoversCheckpoint'
  BY <1>1, <1>5 DEF IInv, RowsAreDurable, CsvCoversCheckpoint
<1>11. DurableCompletion'
  BY <1>1, <1>5, <1>6 DEF IInv, DurableCompletion
<1>. QED  BY <1>7, <1>8, <1>9, <1>10, <1>11 DEF IInv

-----------------------------------------------------------------------------
(* The bundle. *)

\* An append writes the value of its own record and no other.
LEMMA AppendedValues ==
    ASSUME NEW f \in File, NEW l \in Line, NEW split \in BOOLEAN, NEW V,
           l.val \in V, \A i \in 1..Len(f.lines) : f.lines[i].val \in V
    PROVE  \A i \in 1..Len(Appended(f, l, split).lines) :
              Appended(f, l, split).lines[i].val \in V
<1> DEFINE g == Appended(f, l, split)
           n == Len(f.lines)
<1>1. Extends(g, f, l, split)
  BY AppendedLines
<1>2. \A k \in Line : Broken(k).val = k.val
  BY DEF Broken, Line
<1>3. n \in Nat /\ \A i \in 1..n : f.lines[i] \in Line
  BY ElementOfSeq DEF File
<1>. HIDE DEF g
<1>4. \A i \in 1..n : g.lines[i].val \in V
  BY <1>1, <1>2, <1>3 DEF Extends
<1>5. ~f.open => g.lines[n + 1].val \in V
  BY <1>1, <1>2 DEF Extends
<1>6. split => g.lines[Len(g.lines)].val \in V
  BY <1>1, <1>2 DEF Extends
<1>7. \A i \in 1..Len(g.lines) : \/ i \in 1..n
                                 \/ ~f.open /\ i = n + 1
                                 \/ split /\ i = Len(g.lines)
  <2>1. f.open \in BOOLEAN
    BY DEF File
  <2>. QED  BY <1>1, <1>3, <2>1 DEF Extends
<1>8. \A i \in 1..Len(g.lines) : g.lines[i].val \in V
  BY <1>4, <1>5, <1>6, <1>7
<1>. QED  BY <1>8 DEF g

\* So does an append that is cut short.
LEMMA TornValues ==
    ASSUME NEW f \in File, NEW l \in Line, NEW split \in BOOLEAN, NEW V,
           l.val \in V, \A i \in 1..Len(f.lines) : f.lines[i].val \in V,
           NEW g \in Torn(f, l, split)
    PROVE  \A i \in 1..Len(g.lines) : g.lines[i].val \in V
<1>1. Broken(l) \in Line /\ Broken(l).val = l.val
  BY BrokenType DEF Broken, Line
<1>2. ASSUME NEW k \in Line, k.val = l.val, NEW s \in BOOLEAN
      PROVE  \A i \in 1..Len(Cut(f, k, s).lines) : Cut(f, k, s).lines[i].val \in V
  <2>1. Appended(f, k, s) \in File
    BY AppendedLines DEF Extends
  <2>2. Cut(f, k, s).lines = Appended(f, k, s).lines
    BY <2>1 DEF Cut, File
  <2>. QED  BY <1>2, <2>2, AppendedValues
<1>. QED  BY <1>1, <1>2 DEF Torn

\* The initial pairs are of the completed questions, one each, with what the files have.
LEMMA InitialPairsOf ==
    ASSUME IInv, RowsAreRows, CanResume
    PROVE  LET b == InitialPairs(ckpt.completed)
           IN  /\ b \in Seq(Pair)
               /\ \A i, j \in DOMAIN b : b[i].key = b[j].key => i = j
               /\ {b[i].key : i \in DOMAIN b} = ckpt.completed
               /\ Intact(rowsFile) /\ Intact(respFile) =>
                     \A i \in DOMAIN b : b[i].response
<1> DEFINE C == ckpt.completed
           keys == Ascending(C)
           b == InitialPairs(C)
<1>1. C \in SUBSET Questions /\ rowsFile \in File /\ respFile \in File
  BY DEF IInv, StoreTypeOK, Checkpoint
<1>2. /\ keys \in Seq(C)
      /\ \A i, j \in DOMAIN keys : keys[i] = keys[j] => i = j
      /\ \A q \in C : \E i \in DOMAIN keys : keys[i] = q
  BY <1>1, AscendingLists
<1>3. Len(keys) \in Nat /\ DOMAIN keys = 1..Len(keys) /\ \A i \in DOMAIN keys : keys[i] \in C
  BY <1>2, ElementOfSeq
<1>4. ASSUME NEW q \in C
      PROVE  Latest(rowsFile, q).run \in Runs /\ Latest(rowsFile, q).val \in {"success", "failed"}
  <2>1. Latest(rowsFile, q) # Missing /\ Latest(rowsFile, q) \in Line
    BY <1>1, LatestType DEF CanResume, Entry
  <2>2. Positions(rowsFile, q) # {}
    BY <2>1 DEF Latest
  <2>3. Positions(rowsFile, q) \subseteq 1..Len(rowsFile.lines) /\ Len(rowsFile.lines) \in Nat
    BY <1>1 DEF Positions, File
  <2>4. Max(Positions(rowsFile, q)) \in 1..Len(rowsFile.lines)
    BY <2>2, <2>3, LastPosition
  <2>5. Latest(rowsFile, q).val \in {"success", "failed"}
    BY <2>2, <2>4 DEF Latest, RowsAreRows
  <2>. QED  BY <2>1, <2>5 DEF Line
<1>5. b = [i \in DOMAIN keys |->
             [key |-> keys[i], run |-> Latest(rowsFile, keys[i]).run,
              status |-> Latest(rowsFile, keys[i]).val,
              response |-> Latest(respFile, keys[i]).val = "mapping"]]
  BY DEF InitialPairs
<1>. HIDE DEF keys, b
<1>6. /\ DOMAIN b = DOMAIN keys
      /\ \A i \in DOMAIN keys : /\ b[i].key = keys[i]
                                /\ b[i].response = (Latest(respFile, keys[i]).val = "mapping")
  BY <1>5
<1>7. ASSUME NEW i \in DOMAIN keys  PROVE b[i] \in Pair
  <2>1. keys[i] \in C
    BY <1>3
  <2>2. b[i] = [key |-> keys[i], run |-> Latest(rowsFile, keys[i]).run,
                status |-> Latest(rowsFile, keys[i]).val,
                response |-> Latest(respFile, keys[i]).val = "mapping"]
    BY <1>5
  <2>3. (Latest(respFile, keys[i]).val = "mapping") \in BOOLEAN
    OBVIOUS
  <2>. QED  BY <1>1, <1>4, <2>1, <2>2, <2>3 DEF Pair
<1>8. b \in Seq(Pair)
  <2>1. b \in [1..Len(keys) -> Pair]
    BY <1>3, <1>5, <1>6, <1>7
  <2>. QED  BY <1>3, <2>1, SeqDef
<1>9. {b[i].key : i \in DOMAIN b} = C
  BY <1>2, <1>3, <1>6
<1>10. ASSUME Intact(rowsFile), Intact(respFile), NEW i \in DOMAIN b
       PROVE  b[i].response
  <2>1. keys[i] \in C
    BY <1>3, <1>6
  <2>2. Latest(respFile, keys[i]).val = "mapping"
    BY <1>10, <2>1 DEF IInv, DurableCompletion
  <2>. QED  BY <1>6, <1>10, <2>2
<1>. QED  BY <1>2, <1>6, <1>8, <1>9, <1>10 DEF b

\* A step that leaves the files, the outcomes, the batch and the export as they are, and
\* neither records nor closes, keeps the bundle consistent.
LEMMA BundleAtRest ==
    ASSUME BundleInv,
           batch' = <<>> \/ (pc' \notin {"down", "loading"} /\ UNCHANGED batch),
           pc' \notin Underway,
           BundleTypeOK', RowsAreRows', Apart'
    PROVE  BundleInv'
<1>1. BatchIsCurrent'
  BY DEF BatchIsCurrent, Underway, Working, Recording, BundleInv
<1>2. BundleMatchesCheckpoint'
  BY DEF BundleMatchesCheckpoint, Underway, Working
<1>. QED  BY <1>1, <1>2 DEF BundleInv

LEMMA InitBundle == Init => BundleInv
<1> SUFFICES ASSUME Init  PROVE BundleInv
  OBVIOUS
<1>1. BundleTypeOK
  BY EmptySeq DEF Init, BundleTypeOK
<1>2. RowsAreRows
  BY DEF Init, RowsAreRows, EmptyFile
<1>. QED  BY <1>1, <1>2 DEF Init, BundleInv, Apart, BatchIsCurrent, BundleMatchesCheckpoint,
       NoCheckpoint, Underway, Working, Recording

LEMMA InvokeBundle == BundleInv /\ Invoke => BundleInv'
<1> SUFFICES ASSUME BundleInv, Invoke  PROVE BundleInv'
  OBVIOUS
<1>1. batch = <<>>
  BY DEF BundleInv, BatchIsCurrent, Invoke
<1>. QED  BY <1>1, BundleAtRest DEF BundleInv, Invoke, disk, memory, BundleTypeOK, RowsAreRows,
       Apart, Underway, Working, Recording

LEMMA RefuseResumeBundle == BundleInv /\ RefuseResume => BundleInv'
BY BundleAtRest DEF BundleInv, RefuseResume, disk, memory, BundleTypeOK, RowsAreRows,
   Apart, Underway, Working, Recording

LEMMA StopBundle == BundleInv /\ Stop => BundleInv'
<1> SUFFICES ASSUME BundleInv, Stop  PROVE BundleInv'
  OBVIOUS
<1>1. batch' = <<>> /\ pc' \notin Underway /\ UNCHANGED disk
  BY DEF Stop, Forget, Underway, Working, Recording
<1>2. BundleTypeOK' /\ RowsAreRows' /\ Apart'
  BY <1>1, EmptySeq DEF disk, BundleInv, BundleTypeOK, RowsAreRows, Apart
<1>. QED  BY <1>1, <1>2, BundleAtRest

LEMMA MarkInterruptedBundle == IInv /\ BundleInv /\ MarkInterrupted => BundleInv'
<1> SUFFICES ASSUME IInv, BundleInv, MarkInterrupted  PROVE BundleInv'
  OBVIOUS
<1>1. /\ batch' = <<>> /\ pc' \notin Underway
      /\ UNCHANGED <<rowsFile, retrieval, answers>>
  BY DEF MarkInterrupted, Forget, Underway, Working, Recording
<1>2. BundleTypeOK' /\ RowsAreRows'
  BY <1>1, EmptySeq DEF BundleInv, BundleTypeOK, RowsAreRows
<1>3. Apart'
  BY DEF IInv, StoreTypeOK, Checkpoint, BundleInv, Apart, MarkInterrupted
<1>. QED  BY <1>1, <1>2, <1>3, BundleAtRest

LEMMA PatchBundle == BundleInv /\ Patch => BundleInv'
<1> SUFFICES ASSUME BundleInv, Patch  PROVE BundleInv'
  OBVIOUS
<1>1. batch' = <<>> /\ pc' \notin Underway /\ UNCHANGED <<rowsFile, ckpt>>
  BY DEF Patch, Forget, Underway, Working, Recording
<1>2. Responses \in Seq(Questions)
  <2>1. WithResponse \in SUBSET Questions
    BY DEF WithResponse
  <2>2. Responses \in Seq(WithResponse)
    BY <2>1, AscendingLists DEF Responses
  <2>. QED  BY <2>1, <2>2, SeqMonotonic
<1>3. /\ answers' \in Seq(Questions)
      /\ retrieval' \in Seq(Trace)
  <2>1. CASE Readable(respFile)
    <3>. DEFINE n == Len(retrieval)
    <3>1. n \in Nat /\ DOMAIN retrieval = 1..n /\ \A i \in 1..n : retrieval[i] \in Trace
      BY ElementOfSeq DEF BundleInv, BundleTypeOK
    <3>2. /\ DOMAIN retrieval' = 1..n
          /\ retrieval' = [i \in 1..n |->
                               IF i \in DOMAIN Responses
                               THEN [retrieval[i] EXCEPT !.phase5 = Responses[i]]
                               ELSE retrieval[i]]
      BY <2>1, <3>1 DEF Patch
    <3>3. \A i \in DOMAIN Responses : Responses[i] \in Questions
      BY <1>2, ElementOfSeq
    <3>4. \A i \in 1..n : retrieval'[i] \in Trace
      BY <3>1, <3>2, <3>3 DEF Trace
    <3>5. retrieval' \in [1..n -> Trace]
      BY <3>2, <3>4
    <3>. QED  BY <1>2, <2>1, <3>1, <3>5, SeqDef DEF Patch
  <2>2. CASE ~Readable(respFile)
    BY <2>2 DEF Patch, BundleInv, BundleTypeOK
  <2>. QED  BY <2>1, <2>2
<1>4. BundleTypeOK' /\ RowsAreRows' /\ Apart'
  BY <1>1, <1>3, EmptySeq DEF BundleInv, BundleTypeOK, RowsAreRows, Apart
<1>. QED  BY <1>1, <1>4, BundleAtRest

LEMMA StartFreshBundle == BundleInv /\ StartFresh => BundleInv'
<1> SUFFICES ASSUME BundleInv, StartFresh  PROVE BundleInv'
  OBVIOUS
<1>1. /\ batch' = <<>> /\ todo' = Questions /\ ckpt' = NewCheckpoint
      /\ pc' \in {"answering", "export"}
      /\ UNCHANGED <<rowsFile, retrieval, answers>>
  BY DEF BundleInv, BatchIsCurrent, StartFresh, NextStage
<1>2. BundleTypeOK' /\ RowsAreRows' /\ Apart'
  BY <1>1, EmptySeq DEF BundleInv, BundleTypeOK, RowsAreRows, Apart, NewCheckpoint
<1>3. BatchIsCurrent'
  BY <1>1 DEF BatchIsCurrent
<1>. QED  BY <1>1, <1>2, <1>3 DEF BundleInv, BundleMatchesCheckpoint

LEMMA ResumeBundle == IInv /\ BundleInv /\ Resume => BundleInv'
<1> SUFFICES ASSUME IInv, BundleInv, Resume  PROVE BundleInv'
  OBVIOUS
<1>1. /\ batch' = InitialPairs(ckpt.completed) /\ todo' = Questions \ ckpt.completed
      /\ pc' \in {"answering", "export"}
      /\ UNCHANGED <<rowsFile, respFile, ckpt, retrieval, answers, run>>
  BY DEF Resume, NextStage, disk, Pending
<1>2. /\ batch' \in Seq(Pair)
      /\ \A i, j \in DOMAIN batch' : batch'[i].key = batch'[j].key => i = j
      /\ {batch'[i].key : i \in DOMAIN batch'} = ckpt.completed
      /\ Intact(rowsFile) /\ Intact(respFile) => \A i \in DOMAIN batch' : batch'[i].response
  <2>1. CanResume /\ RowsAreRows
    BY DEF Resume, BundleInv
  <2>. QED  BY <1>1, <2>1, InitialPairsOf
<1>3. BundleTypeOK' /\ RowsAreRows' /\ Apart'
  BY <1>1, <1>2 DEF BundleInv, BundleTypeOK, RowsAreRows, Apart
<1>4. ckpt.completed = Questions \ todo'
  BY <1>1 DEF IInv, StoreTypeOK, Checkpoint
<1>5. \A i \in DOMAIN batch' : batch'[i].key \in ckpt.completed \ ckpt.failed
  BY <1>2 DEF BundleInv, Apart
<1>6. BatchIsCurrent'
  BY <1>1, <1>2, <1>4, <1>5 DEF BatchIsCurrent, Recording
<1>. QED  BY <1>1, <1>3, <1>6 DEF BundleInv, BundleMatchesCheckpoint

LEMMA AnswerBundle == IInv /\ BundleInv /\ Answer => BundleInv'
<1> SUFFICES ASSUME IInv, BundleInv, Answer  PROVE BundleInv'
  OBVIOUS
<1>1. PICK a \in Attempt :
        /\ a.key \in todo /\ a.run = run
        /\ attempt' = a /\ todo' = todo \ {a.key}
        /\ batch' = Append(batch, [key |-> a.key, run |-> run,
                                   status |-> a.status, response |-> a.response])
  BY DEF Answer
<1>2. /\ pc = "answering" /\ pc' = "append_row"
      /\ UNCHANGED <<rowsFile, respFile, ckpt, retrieval, answers, run>>
  BY DEF Answer, disk
<1>. DEFINE p == [key |-> a.key, run |-> run, status |-> a.status, response |-> a.response]
            n == Len(batch)
<1>3. p \in Pair /\ p.key = a.key /\ p.run = run /\ p.response = a.response
  BY <1>1 DEF Attempt, Pair
<1>4. /\ batch \in Seq(Pair) /\ n \in Nat /\ DOMAIN batch = 1..n
      /\ \A i, j \in DOMAIN batch : batch[i].key = batch[j].key => i = j
      /\ {batch[i].key : i \in DOMAIN batch} = Questions \ todo
      /\ \A i \in DOMAIN batch :
            /\ batch[i].run = run \/ batch[i].key \in ckpt.completed \ ckpt.failed
            /\ Intact(rowsFile) /\ Intact(respFile) =>
                  (batch[i].key \in ckpt.completed => batch[i].response)
  BY <1>2, LenProperties DEF BundleInv, BundleTypeOK, BatchIsCurrent, Underway, Working
<1>5. /\ a.key \in Questions /\ a.key \notin ckpt.completed
      /\ todo \subseteq Questions
  BY <1>1, <1>2 DEF IInv, StoreTypeOK, TodoIsOpen, Underway, Working
<1>6. batch' = Append(batch, p)
  BY <1>1
<1>. HIDE DEF p
<1>7. /\ batch' \in Seq(Pair) /\ DOMAIN batch' = 1..(n + 1)
      /\ \A i \in 1..n : batch'[i] = batch[i]
      /\ batch'[n + 1] = p
  BY <1>3, <1>4, <1>6, AppendProperties
<1>8. 1..(n + 1) = (1..n) \cup {n + 1} /\ \A i \in 1..n : i # n + 1
  BY <1>4
<1>9. \A i \in 1..n : batch[i].key \in Questions \ todo /\ batch[i].key # a.key
  BY <1>1, <1>4
<1>10. BundleTypeOK' /\ RowsAreRows' /\ Apart'
  BY <1>2, <1>7 DEF BundleInv, BundleTypeOK, RowsAreRows, Apart
<1>11. \A i, j \in DOMAIN batch' : batch'[i].key = batch'[j].key => i = j
  BY <1>3, <1>4, <1>7, <1>8, <1>9
<1>12. {batch'[i].key : i \in DOMAIN batch'} = Questions \ todo'
  <2>1. {batch'[i].key : i \in DOMAIN batch'} = {batch[i].key : i \in DOMAIN batch} \cup {a.key}
    BY <1>3, <1>4, <1>7, <1>8
  <2>. QED  BY <1>1, <1>4, <1>5, <2>1
<1>13. ASSUME NEW i \in DOMAIN batch'
       PROVE  /\ batch'[i].run = run \/ batch'[i].key \in ckpt.completed \ ckpt.failed
              /\ batch'[i].key = a.key => batch'[i].run = run /\ batch'[i].response = a.response
              /\ Intact(rowsFile) /\ Intact(respFile) =>
                    (batch'[i].key \in ckpt.completed => batch'[i].response)
  <2>1. CASE i \in 1..n
    BY <1>4, <1>7, <1>9, <2>1
  <2>2. CASE i = n + 1
    BY <1>3, <1>5, <1>7, <2>2
  <2>. QED  BY <1>7, <1>8, <2>1, <2>2
<1>14. BatchIsCurrent'
  BY <1>1, <1>2, <1>11, <1>12, <1>13 DEF BatchIsCurrent
<1>. QED  BY <1>2, <1>10, <1>14 DEF BundleInv, BundleMatchesCheckpoint

\* A step of recording that leaves the outcomes, the batch and the attempt as they are.
LEMMA BundleRecording ==
    ASSUME BundleInv, pc \in Recording, pc' \in Recording, RowsAreRows',
           UNCHANGED <<ckpt, retrieval, answers, run, todo, attempt, batch>>,
           Intact(rowsFile') /\ Intact(respFile') => Intact(rowsFile) /\ Intact(respFile)
    PROVE  BundleInv'
<1>1. BatchIsCurrent'
  BY DEF BundleInv, BatchIsCurrent, Underway, Working, Recording
<1>. QED  BY <1>1 DEF BundleInv, BundleTypeOK, Apart, BundleMatchesCheckpoint, Recording

LEMMA AppendRowBundle == IInv /\ BundleInv /\ AppendRow => BundleInv'
<1> SUFFICES ASSUME IInv, BundleInv, AppendRow  PROVE BundleInv'
  OBVIOUS
<1>1. /\ pc \in Recording /\ pc' \in Recording
      /\ rowsFile' = Appended(rowsFile, RowLine, RowSplit)
      /\ UNCHANGED <<respFile, ckpt, retrieval, answers, run, todo, attempt, batch>>
  BY DEF AppendRow, memory, Recording
<1>2. rowsFile \in File /\ attempt \in Attempt
  BY <1>1 DEF IInv, StoreTypeOK, AttemptIsOpen
<1>3. Intact(rowsFile') => Intact(rowsFile)
  BY <1>1, <1>2, RecordType, IntactAppended
<1>4. RowsAreRows'
  <2>1. RowLine.val \in {"success", "failed"}
    BY <1>2, RecordType DEF RowLine
  <2>2. \A i \in 1..Len(rowsFile.lines) : rowsFile.lines[i].val \in {"success", "failed"}
    BY DEF BundleInv, RowsAreRows
  <2>3. \A i \in 1..Len(Appended(rowsFile, RowLine, RowSplit).lines) :
           Appended(rowsFile, RowLine, RowSplit).lines[i].val \in {"success", "failed"}
    BY <1>2, <2>1, <2>2, RecordType, AppendedValues
  <2>. QED  BY <1>1, <2>3 DEF RowsAreRows
<1>. QED  BY <1>1, <1>3, <1>4, BundleRecording

LEMMA AppendResponseBundle == IInv /\ BundleInv /\ AppendResponse => BundleInv'
<1> SUFFICES ASSUME IInv, BundleInv, AppendResponse  PROVE BundleInv'
  OBVIOUS
<1>1. /\ pc \in Recording /\ pc' \in Recording
      /\ respFile' = Appended(respFile, ResponseLine, ResponseSplit)
      /\ UNCHANGED <<rowsFile, ckpt, retrieval, answers, run, todo, attempt, batch>>
  BY DEF AppendResponse, Recording
<1>2. respFile \in File /\ attempt \in Attempt
  BY <1>1 DEF IInv, StoreTypeOK, AttemptIsOpen
<1>3. Intact(respFile') => Intact(respFile)
  BY <1>1, <1>2, RecordType, IntactAppended
<1>4. RowsAreRows'
  BY <1>1 DEF BundleInv, RowsAreRows
<1>. QED  BY <1>1, <1>3, <1>4, BundleRecording

LEMMA WriteCsvBundle == BundleInv /\ WriteCsv => BundleInv'
<1> SUFFICES ASSUME BundleInv, WriteCsv  PROVE BundleInv'
  OBVIOUS
<1>1. /\ pc \in Recording /\ pc' \in Recording
      /\ UNCHANGED <<rowsFile, respFile, ckpt, retrieval, answers, run, todo, attempt, batch>>
  BY DEF WriteCsv, memory, Recording
<1>2. RowsAreRows'
  BY <1>1 DEF BundleInv, RowsAreRows
<1>. QED  BY <1>1, <1>2, BundleRecording

LEMMA SaveCheckpointBundle == IInv /\ BundleInv /\ SaveCheckpoint => BundleInv'
<1> SUFFICES ASSUME IInv, BundleInv, SaveCheckpoint  PROVE BundleInv'
  OBVIOUS
<1>1. /\ pc = "save" /\ ckpt' = Recorded(ckpt) /\ pc' \in {"answering", "export"}
      /\ UNCHANGED <<rowsFile, respFile, retrieval, answers, run, todo, attempt, batch>>
  BY DEF SaveCheckpoint, NextStage, IInv, HeldIsSaved, Underway, Working, Recording
<1>2. /\ ckpt \in Checkpoint /\ attempt \in Attempt
      /\ attempt.status = "success" => attempt.response
  BY <1>1 DEF IInv, StoreTypeOK, AttemptIsOpen, Recording, Attempt
<1>3. /\ \A q : q # attempt.key => /\ q \in ckpt'.completed <=> q \in ckpt.completed
                                   /\ q \in ckpt'.failed <=> q \in ckpt.failed
      /\ attempt.key \in ckpt'.completed => attempt.status = "success"
      /\ ckpt'.completed \cap ckpt'.failed = {}
  BY <1>1, <1>2 DEF Recorded, Checkpoint, BundleInv, Apart
<1>4. /\ \A i, j \in DOMAIN batch : batch[i].key = batch[j].key => i = j
      /\ {batch[i].key : i \in DOMAIN batch} = Questions \ todo
      /\ \A i \in DOMAIN batch :
            /\ batch[i].run = run \/ batch[i].key \in ckpt.completed \ ckpt.failed
            /\ batch[i].key = attempt.key =>
                  batch[i].run = run /\ batch[i].response = attempt.response
            /\ Intact(rowsFile) /\ Intact(respFile) =>
                  (batch[i].key \in ckpt.completed => batch[i].response)
  BY <1>1 DEF BundleInv, BatchIsCurrent, Underway, Working, Recording
<1>5. BundleTypeOK' /\ RowsAreRows' /\ Apart'
  BY <1>1, <1>3 DEF BundleInv, BundleTypeOK, RowsAreRows, Apart
<1>6. ASSUME NEW i \in DOMAIN batch
      PROVE  /\ batch[i].run = run \/ batch[i].key \in ckpt'.completed \ ckpt'.failed
             /\ Intact(rowsFile) /\ Intact(respFile) =>
                   (batch[i].key \in ckpt'.completed => batch[i].response)
  <2>1. CASE batch[i].key = attempt.key
    BY <1>2, <1>3, <1>4, <2>1
  <2>2. CASE batch[i].key # attempt.key
    BY <1>3, <1>4, <2>2
  <2>. QED  BY <2>1, <2>2
<1>7. BatchIsCurrent'
  BY <1>1, <1>4, <1>6 DEF BatchIsCurrent, Recording
<1>. QED  BY <1>1, <1>5, <1>7 DEF BundleInv, BundleMatchesCheckpoint

LEMMA ExportBundle == IInv /\ BundleInv /\ Export => BundleInv'
<1> SUFFICES ASSUME IInv, BundleInv, Export  PROVE BundleInv'
  OBVIOUS
<1>. DEFINE t == SortedByKey(batch)
<1>1. /\ pc = "export" /\ pc' = "finalize"
      /\ retrieval' = [i \in DOMAIN t |-> [key |-> t[i].key, run |-> t[i].run,
                                           response |-> t[i].response, phase5 |-> 0]]
      /\ UNCHANGED <<rowsFile, respFile, ckpt, answers, run, todo, attempt, held, batch>>
  BY DEF Export, memory
<1>2. /\ held = ckpt /\ todo = {}
      /\ ckpt.completed \cup ckpt.failed = Questions
  BY <1>1 DEF IInv, HeldIsSaved, NothingLeft, AllAccounted, StoreTypeOK, Checkpoint, Underway,
              Working, Recording
<1>3. /\ batch \in Seq(Pair)
      /\ \A i, j \in DOMAIN batch : batch[i].key = batch[j].key => i = j
      /\ {batch[i].key : i \in DOMAIN batch} = Questions
      /\ \A i \in DOMAIN batch :
            /\ batch[i].run = run \/ batch[i].key \in ckpt.completed \ ckpt.failed
            /\ Intact(rowsFile) /\ Intact(respFile) =>
                  (batch[i].key \in ckpt.completed => batch[i].response)
  BY <1>1, <1>2 DEF BundleInv, BundleTypeOK, BatchIsCurrent, Underway, Working
<1>4. t \in Seq(Pair) /\ DOMAIN t = DOMAIN batch
  BY <1>3, SortedPlaces
<1>5. /\ DOMAIN t = Questions
      /\ \A q \in Questions : \E i \in DOMAIN batch : t[q] = batch[i] /\ batch[i].key = q
  BY <1>3, <1>4, SortedIsOriginalOrder
<1>. HIDE DEF t
<1>6. retrieval' \in Seq(Trace) /\ Len(retrieval') = NumQuestions
  <2>1. NumQuestions \in Nat
    BY CountsAssumption
  <2>2. \A q \in Questions : t[q] \in Pair
    BY <1>4, <1>5, ElementOfSeq
  <2>3. retrieval' \in [1..NumQuestions -> Trace]
    BY <1>1, <1>5, <2>2 DEF Pair, Trace, Questions
  <2>4. retrieval' \in Seq(Trace)
    BY <2>1, <2>3, SeqDef
  <2>. QED  BY <2>1, <2>3, <2>4, LenProperties
<1>7. ASSUME NEW q \in Questions
      PROVE  /\ retrieval'[q].key = q
             /\ q \in ckpt.failed => retrieval'[q].run = run
             /\ Intact(rowsFile) /\ Intact(respFile) =>
                   (q \in ckpt.completed => retrieval'[q].response)
  <2>1. PICK i \in DOMAIN batch : t[q] = batch[i] /\ batch[i].key = q
    BY <1>5
  <2>2. /\ retrieval'[q].key = batch[i].key
        /\ retrieval'[q].run = batch[i].run
        /\ retrieval'[q].response = batch[i].response
    BY <1>1, <1>5, <2>1
  <2>. QED  BY <1>3, <2>1, <2>2
<1>8. BundleMatchesCheckpoint'
  BY <1>1, <1>2, <1>6, <1>7 DEF BundleMatchesCheckpoint
<1>9. BundleTypeOK' /\ RowsAreRows' /\ Apart'
  BY <1>1, <1>6 DEF BundleInv, BundleTypeOK, RowsAreRows, Apart
<1>10. BatchIsCurrent'
  BY <1>1 DEF BundleInv, BatchIsCurrent, Underway, Working, Recording
<1>. QED  BY <1>8, <1>9, <1>10 DEF BundleInv

LEMMA FinalizeBundle == IInv /\ BundleInv /\ Finalize => BundleInv'
<1> SUFFICES ASSUME IInv, BundleInv, Finalize  PROVE BundleInv'
  OBVIOUS
<1>1. /\ pc = "finalize" /\ pc' = "patch" /\ ckpt' = held' /\ held = ckpt
      /\ held' = [held EXCEPT !.status = IF held.failed # {} THEN "completed_with_failures"
                                                            ELSE "completed"]
      /\ UNCHANGED <<rowsFile, retrieval, answers, batch>>
  BY DEF Finalize, IInv, HeldIsSaved, Underway, Working
<1>2. BundleTypeOK' /\ RowsAreRows'
  BY <1>1 DEF BundleInv, BundleTypeOK, RowsAreRows
<1>3. Apart'
  BY <1>1 DEF IInv, StoreTypeOK, Checkpoint, BundleInv, Apart
<1>4. pc' \notin {"down", "loading"} /\ pc' \notin Underway
  BY <1>1 DEF Underway, Working, Recording
<1>. QED  BY <1>1, <1>2, <1>3, <1>4, BundleAtRest

LEMMA StopInAppendBundle == IInv /\ BundleInv /\ StopInAppend => BundleInv'
<1> SUFFICES ASSUME IInv, BundleInv, StopInAppend  PROVE BundleInv'
  OBVIOUS
<1>1. /\ batch' = <<>> /\ pc' \notin Underway /\ pc \in Recording
      /\ UNCHANGED <<ckpt, retrieval, answers>>
  BY DEF StopInAppend, Forget, Underway, Working, Recording
<1>2. rowsFile \in File /\ attempt \in Attempt
  BY <1>1 DEF IInv, StoreTypeOK, AttemptIsOpen
<1>3. RowsAreRows'
  <2>1. CASE UNCHANGED rowsFile
    BY <2>1 DEF BundleInv, RowsAreRows
  <2>2. CASE rowsFile' \in Torn(rowsFile, RowLine, RowSplit)
    <3>1. RowLine.val \in {"success", "failed"}
      BY <1>2, RecordType DEF RowLine
    <3>2. \A i \in 1..Len(rowsFile.lines) : rowsFile.lines[i].val \in {"success", "failed"}
      BY DEF BundleInv, RowsAreRows
    <3>3. \A g \in Torn(rowsFile, RowLine, RowSplit) :
             \A i \in 1..Len(g.lines) : g.lines[i].val \in {"success", "failed"}
      BY <1>2, <3>1, <3>2, RecordType, TornValues
    <3>. QED  BY <2>2, <3>3 DEF RowsAreRows
  <2>. QED  BY <2>1, <2>2 DEF StopInAppend
<1>4. BundleTypeOK' /\ Apart'
  BY <1>1, EmptySeq DEF BundleInv, BundleTypeOK, Apart
<1>. QED  BY <1>1, <1>3, <1>4, BundleAtRest

-----------------------------------------------------------------------------
(* The theorems. *)

\* Every step of an invocation, whole or cut short, keeps the invariant.
LEMMA NextIInv == IInv /\ [Next]_vars => IInv'
<1> SUFFICES ASSUME IInv, [Next]_vars  PROVE IInv'
  OBVIOUS
<1>1. CASE Next
  BY <1>1, InvokeIInv, StopIInv, StopInAppendIInv, StartFreshIInv, ResumeIInv,
     RefuseResumeIInv, AnswerIInv, AppendRowIInv, AppendResponseIInv, WriteCsvIInv,
     SaveCheckpointIInv, ExportIInv, FinalizeIInv, MarkInterruptedIInv, PatchIInv
     DEF Next, Step
<1>2. CASE UNCHANGED vars
  <2>1. UNCHANGED <<rowsFile, respFile, csv, ckpt, pc, run, todo, attempt, held,
                    rows, resps>>
    BY <1>2 DEF vars, disk, memory
  <2>. QED  BY <2>1 DEF IInv, StoreTypeOK, FolderIsNew, HeldIsSaved, TodoIsOpen, AttemptIsOpen,
         AllAccounted, NothingLeft, TailIsOpen, AttemptIsWritten, RowsAreDurable,
         MemoryHasRows, DurableCompletion, CsvCoversCheckpoint, RowLine, ResponseLine
<1>. QED  BY <1>1, <1>2

\* IInv holds in every state of the batch.
THEOREM Invariance == Spec => []IInv
<1>1. Init => IInv
  BY InitIInv
<1>2. IInv /\ [Next]_vars => IInv'
  BY NextIInv
<1>. QED  BY <1>1, <1>2, PTL DEF Spec

\* The store and the memory of an invocation keep their types.
THEOREM StoreTyped == Spec => []StoreTypeOK
<1>1. IInv => StoreTypeOK
  BY DEF IInv
<1>. QED  BY <1>1, Invariance, PTL

\* Whatever stops and resumes the batch, a completed question can be rebuilt from the
\* two record files: its latest row is a success and its latest response comes from
\* the same attempt (the order of the writes in Phase4CheckpointManager.record).
THEOREM CompletionIsDurable == Spec => []DurableCompletion
<1>1. IInv => DurableCompletion
  BY DEF IInv
<1>. QED  BY <1>1, Invariance, PTL

\* partial_results.csv shows every question the checkpoint has as completed
\* (_write_partial_csv before _write_checkpoint).
THEOREM CsvIsCurrent == Spec => []CsvCoversCheckpoint
<1>1. IInv => CsvCoversCheckpoint
  BY DEF IInv
<1>. QED  BY <1>1, Invariance, PTL

\* Every step keeps the bundle consistent with the checkpoint.
LEMMA NextBundle == IInv /\ BundleInv /\ [Next]_vars => BundleInv'
<1> SUFFICES ASSUME IInv, BundleInv, [Next]_vars  PROVE BundleInv'
  OBVIOUS
<1>1. CASE Next
  BY <1>1, InvokeBundle, StopBundle, StopInAppendBundle, StartFreshBundle, ResumeBundle,
     RefuseResumeBundle, AnswerBundle, AppendRowBundle, AppendResponseBundle, WriteCsvBundle,
     SaveCheckpointBundle, ExportBundle, FinalizeBundle, MarkInterruptedBundle, PatchBundle
     DEF Next, Step
<1>2. CASE UNCHANGED vars
  <2>1. UNCHANGED <<rowsFile, respFile, ckpt, retrieval, answers, pc, run, todo, attempt, held,
                    batch>>
    BY <1>2 DEF vars, disk, memory
  <2>. QED  BY <2>1 DEF BundleInv, BundleTypeOK, RowsAreRows, Apart, BatchIsCurrent,
         BundleMatchesCheckpoint
<1>. QED  BY <1>1, <1>2

\* BundleInv holds in every state of the batch.
THEOREM BundleInvariance == Spec => []BundleInv
<1>1. Init => BundleInv
  BY InitBundle
<1>2. IInv /\ BundleInv /\ [Next]_vars => BundleInv'
  BY NextBundle
<1>. QED  BY <1>1, <1>2, Invariance, PTL DEF Spec

\* Every variable keeps its type, the sorted lists of the export included.
THEOREM TypesHold == Spec => []TypeOK
<1>1. IInv /\ BundleInv => TypeOK
  BY DEF IInv, BundleInv, TypeOK
<1>. QED  BY <1>1, Invariance, BundleInvariance, PTL

\* The exported bundle says what the checkpoint says: one trace for every question at the
\* question's place, the failed ones of this invocation, and every completed one with its
\* response (the sort of collect_batch_answers' pairs by __checkpoint_index, after any
\* number of stops and resumptions).
THEOREM BundleIsConsistent == Spec => []BundleMatchesCheckpoint
<1>1. BundleInv => BundleMatchesCheckpoint
  BY DEF BundleInv
<1>. QED  BY <1>1, BundleInvariance, PTL

\* No invocation attempts a question again once the checkpoint has it as completed
\* (pending() and the loop of collect_batch_answers).
THEOREM NeverReasked == Spec => CompletedNeverReasked
<1>1. IInv /\ [Next]_vars =>
        [attempt'.key # 0 /\ attempt' # attempt => attempt'.key \notin ckpt.completed]_vars
  <2> SUFFICES ASSUME IInv, Next, attempt'.key # 0, attempt' # attempt
               PROVE  attempt'.key \notin ckpt.completed
    OBVIOUS
  <2>1. CASE Answer
    <3>1. attempt'.key \in todo /\ pc = "answering"
      BY <2>1 DEF Answer
    <3>. QED  BY <3>1 DEF IInv, TodoIsOpen, Underway, Working
  <2>2. CASE Forget
    BY <2>2 DEF Forget, NoAttempt
  <2>. QED  BY <2>1, <2>2 DEF Next, Step, Invoke, StartFresh, Resume, RefuseResume, AppendRow,
         AppendResponse, WriteCsv, SaveCheckpoint, Export, Finalize, Stop, StopInAppend,
         MarkInterrupted, Patch, memory
<1>. QED  BY <1>1, Invariance, PTL DEF Spec, CompletedNeverReasked

\* The checkpoint file implements BatchLedger: done stays done, and the batch is only
\* closed when every question is accounted for.
THEOREM ImplementsLedger == Spec => RefinesLedger
<1>1. Init => Ledger!Init
  BY DEF Init, Ledger!Init, NoCheckpoint
<1>2. IInv /\ [Next]_vars => [Ledger!Next]_(Ledger!ledger)
  <2> SUFFICES ASSUME IInv, [Next]_vars
               PROVE  Ledger!Next \/ UNCHANGED <<ckpt.completed, ckpt.failed, ckpt.status>>
    BY DEF Ledger!ledger
  <2>1. CASE StartFresh
    <3>1. ckpt = NoCheckpoint
      BY <2>1 DEF IInv, FolderIsNew, StartFresh
    <3>. QED  BY <2>1, <3>1 DEF StartFresh, NoCheckpoint, NewCheckpoint, Ledger!Next, Ledger!Open
  <2>2. CASE SaveCheckpoint
    <3>1. /\ held = ckpt /\ ckpt.status # "absent" /\ ckpt \in Checkpoint
          /\ attempt \in Attempt /\ attempt.key \notin ckpt.completed
      BY <2>2 DEF IInv, StoreTypeOK, HeldIsSaved, AttemptIsOpen, SaveCheckpoint, Underway,
                  Working, Recording
    <3>2. attempt.key \in Questions
      BY <3>1, RecordType
    <3>3. ckpt' = Recorded(ckpt)
      BY <2>2, <3>1 DEF SaveCheckpoint
    <3>4. CASE attempt.status = "success"
      <4>1. Ledger!Succeed(attempt.key)
        BY <3>1, <3>3, <3>4 DEF Recorded, Ledger!Succeed
      <4>. QED  BY <3>2, <4>1 DEF Ledger!Next
    <3>5. CASE attempt.status # "success"
      <4>1. ckpt.completed \ {attempt.key} = ckpt.completed
        BY <3>1
      <4>2. Ledger!Fail(attempt.key)
        BY <3>1, <3>3, <3>5, <4>1 DEF Recorded, Ledger!Fail
      <4>. QED  BY <3>2, <4>2 DEF Ledger!Next
    <3>. QED  BY <3>4, <3>5
  <2>3. CASE Finalize
    <3>1. /\ held = ckpt /\ ckpt.status # "absent" /\ ckpt \in Checkpoint
          /\ ckpt.completed \cup ckpt.failed = Questions
      BY <2>3 DEF IInv, StoreTypeOK, HeldIsSaved, AllAccounted, NothingLeft, Finalize, Underway,
                  Working, Recording, Checkpoint
    <3>2. Ledger!Close
      BY <2>3, <3>1 DEF Finalize, Ledger!Close, Checkpoint
    <3>. QED  BY <3>2 DEF Ledger!Next
  <2>4. CASE MarkInterrupted
    <3>1. ckpt \in Checkpoint
      BY DEF IInv, StoreTypeOK
    <3>2. UNCHANGED ckpt \/ Ledger!Interrupt
      BY <2>4, <3>1 DEF MarkInterrupted, Ledger!Interrupt, Checkpoint
    <3>. QED  BY <3>2 DEF Ledger!Next
  <2>5. CASE UNCHANGED ckpt
    BY <2>5
  <2>. QED  BY <2>1, <2>2, <2>3, <2>4, <2>5 DEF Next, Step, Invoke, Resume, RefuseResume,
         Answer, AppendRow, AppendResponse, WriteCsv, Export, Stop, StopInAppend, Patch,
         disk, vars
<1>. QED  BY <1>1, <1>2, Invariance, PTL DEF Spec, RefinesLedger, Ledger!Spec
=============================================================================
