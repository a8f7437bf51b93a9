--------------------------- MODULE IndexingProofs ---------------------------
(***************************************************************************)
(* The incremental index for every corpus, every batch size, every set of   *)
(* chunk offsets and any number of runs and edits: IInv is an invariant,    *)
(* and with it the five claims about what an index that is served holds.    *)
(***************************************************************************)
EXTENDS Indexing, FiniteSetTheorems, SequenceTheorems, WellFoundedInduction, TLAPS

(* Induction over the natural numbers, for a set of them. *)

\* A non-empty set of natural numbers has a least element.
LEMMA Least ==
    ASSUME NEW T, T \subseteq Nat, T # {}
    PROVE  \E n \in T : \A m \in T : n <= m
<1> DEFINE R == {ss \in Nat \X Nat : ss[1] < ss[2]}
<1>1. IsWellFoundedOn(R, Nat)
  BY NatLessThanWellFounded DEF OpToRel
<1>2. PICK x \in T : \A y \in T : <<y, x>> \notin R
  <2>. HIDE DEF R
  <2>. QED  BY <1>1, WFMin
<1>3. \A y \in T : x <= y
  <2>1. SUFFICES ASSUME NEW y \in T, ~(x <= y)  PROVE FALSE
    OBVIOUS
  <2>2. x \in Nat /\ y \in Nat
    OBVIOUS
  <2>3. y < x
    BY <2>1, <2>2
  <2>4. <<y, x>> \in R
    BY <2>2, <2>3
  <2>. QED  BY <1>2, <2>4
<1>. QED  BY <1>3

\* A set of natural numbers with 0, and with n + 1 if with n, has them all.
LEMMA Induction ==
    ASSUME NEW T, 0 \in T, \A n \in Nat : n \in T => n + 1 \in T
    PROVE  \A n \in Nat : n \in T
<1>1. SUFFICES ASSUME NEW k \in Nat, k \notin T  PROVE FALSE
  OBVIOUS
<1>2. PICK n \in Nat \ T : \A m \in Nat \ T : n <= m
  BY <1>1, Least
<1>3. n - 1 \in Nat /\ n - 1 + 1 = n /\ ~(n <= n - 1)
  <2>1. n # 0
    OBVIOUS
  <2>. QED  BY <2>1
<1>4. n - 1 \in T
  BY <1>2, <1>3
<1>. QED  BY <1>3, <1>4

-----------------------------------------------------------------------------
(* Sequences of sequences, as the chunks of all files. *)

\* What two sequences hold together.
LEMMA ConcatSet ==
    ASSUME NEW S, NEW s \in Seq(S), NEW t \in Seq(S)
    PROVE  s \o t \in Seq(S) /\ ToSet(s \o t) = ToSet(s) \cup ToSet(t)
<1> DEFINE u == s \o t
<1>1. /\ u \in Seq(S) /\ Len(u) = Len(s) + Len(t)
      /\ \A i \in 1..(Len(s) + Len(t)) :
            u[i] = IF i <= Len(s) THEN s[i] ELSE t[i - Len(s)]
  BY ConcatProperties
<1>. HIDE DEF u
<1>2. /\ Len(s) \in Nat /\ DOMAIN s = 1..Len(s)
      /\ Len(t) \in Nat /\ DOMAIN t = 1..Len(t)
      /\ DOMAIN u = 1..Len(u)
  BY <1>1, LenProperties
<1>3. ToSet(u) \subseteq ToSet(s) \cup ToSet(t)
  <2>1. SUFFICES ASSUME NEW i \in 1..Len(u)
                 PROVE  u[i] \in ToSet(s) \cup ToSet(t)
    BY <1>2 DEF ToSet
  <2>2. CASE i <= Len(s)
    <3>1. i \in 1..Len(s) /\ u[i] = s[i]
      BY <1>1, <1>2, <2>2
    <3>. QED  BY <1>2, <3>1 DEF ToSet
  <2>3. CASE ~(i <= Len(s))
    <3>1. i - Len(s) \in 1..Len(t) /\ u[i] = t[i - Len(s)]
      BY <1>1, <1>2, <2>3
    <3>. QED  BY <1>2, <3>1 DEF ToSet
  <2>. QED  BY <2>2, <2>3
<1>4. ToSet(s) \subseteq ToSet(u)
  BY <1>1, <1>2 DEF ToSet
<1>5. ToSet(t) \subseteq ToSet(u)
  <2>1. SUFFICES ASSUME NEW i \in 1..Len(t)  PROVE t[i] \in ToSet(u)
    BY <1>2 DEF ToSet
  <2>2. i + Len(s) \in 1..Len(u) /\ ~(i + Len(s) <= Len(s)) /\ i + Len(s) - Len(s) = i
    BY <1>1, <1>2
  <2>3. u[i + Len(s)] = t[i]
    BY <1>1, <2>2
  <2>. QED  BY <1>2, <2>2, <2>3 DEF ToSet
<1>. QED  BY <1>1, <1>3, <1>4, <1>5 DEF u

\* The prefixes of a concatenation: c[i] is the first i sequences together.
Concatenated(c, seqs, n) ==
    /\ 1 \in 1..n => c[1] = seqs[1]
    /\ \A i \in 1..n : i # 1 => c[i] = c[i - 1] \o seqs[i]

\* What the first m sequences hold.
Held(seqs, m) == UNION {ToSet(seqs[i]) : i \in 1..m}

\* What a prefix holds.
LEMMA PrefixSet ==
    ASSUME NEW S, NEW seqs \in Seq(Seq(S)), NEW c, Concatenated(c, seqs, Len(seqs)),
           NEW k \in 1..Len(seqs)
    PROVE  c[k] \in Seq(S) /\ ToSet(c[k]) = Held(seqs, k)
<1> DEFINE n == Len(seqs)
           U == {m \in Nat : m \in 1..n => c[m] \in Seq(S) /\ ToSet(c[m]) = Held(seqs, m)}
<1>1. n \in Nat /\ \A i \in 1..n : seqs[i] \in Seq(S)
  BY LenProperties, ElementOfSeq
<1>2. 0 \in U
  OBVIOUS
<1>3. ASSUME NEW m \in Nat, m \in U  PROVE m + 1 \in U
  <2>1. SUFFICES ASSUME m + 1 \in 1..n
                 PROVE  c[m + 1] \in Seq(S) /\ ToSet(c[m + 1]) = Held(seqs, m + 1)
    OBVIOUS
  <2>2. Held(seqs, m + 1) = Held(seqs, m) \cup ToSet(seqs[m + 1])
    <3>1. 1..(m + 1) = (1..m) \cup {m + 1}
      OBVIOUS
    <3>. QED  BY <3>1 DEF Held
  <2>3. seqs[m + 1] \in Seq(S)
    BY <1>1, <2>1
  <2>4. CASE m = 0
    <3>1. c[m + 1] = seqs[m + 1]
      BY <2>1, <2>4 DEF Concatenated
    <3>2. Held(seqs, m) = {}
      BY <2>4 DEF Held
    <3>. QED  BY <2>2, <2>3, <3>1, <3>2
  <2>5. CASE m # 0
    <3>1. m \in 1..n
      BY <1>1, <2>1, <2>5
    <3>2. c[m + 1] = c[m] \o seqs[m + 1]
      <4>1. PICK j \in 1..n : j = m + 1 /\ j # 1 /\ j - 1 = m
        BY <2>1, <2>5
      <4>2. c[j] = c[j - 1] \o seqs[j]
        BY <4>1, Zenon DEF Concatenated
      <4>. QED  BY <4>1, <4>2, Zenon
    <3>3. c[m] \in Seq(S) /\ ToSet(c[m]) = Held(seqs, m)
      BY <1>3, <3>1
    <3>4. /\ c[m] \o seqs[m + 1] \in Seq(S)
          /\ ToSet(c[m] \o seqs[m + 1]) = ToSet(c[m]) \cup ToSet(seqs[m + 1])
      BY <2>3, <3>3, ConcatSet
    <3>. QED  BY <2>2, <3>2, <3>3, <3>4
  <2>. QED  BY <2>4, <2>5
<1>4. k \in U
  <2>1. k \in Nat
    BY <1>1
  <2>. HIDE DEF U
  <2>. QED  BY <1>2, <1>3, <2>1, Induction
<1>. QED  BY <1>4

\* There are such prefixes.
LEMMA PrefixesExist ==
    ASSUME NEW S, NEW seqs \in Seq(Seq(S)), NEW k \in 0..Len(seqs)
    PROVE  \E c \in [1..k -> Seq(S)] : Concatenated(c, seqs, k)
<1> DEFINE n == Len(seqs)
           Good(m) == \E c \in [1..m -> Seq(S)] : Concatenated(c, seqs, m)
           T == {m \in Nat : m <= n => Good(m)}
<1>1. n \in Nat /\ \A i \in 1..n : seqs[i] \in Seq(S)
  BY LenProperties, ElementOfSeq
<1>2. 0 \in T
  <2>1. [i \in 1..0 |-> <<>>] \in [1..0 -> Seq(S)]
    OBVIOUS
  <2>2. Concatenated([i \in 1..0 |-> <<>>], seqs, 0)
    BY DEF Concatenated
  <2>. QED  BY <2>1, <2>2
<1>3. ASSUME NEW m \in Nat, m \in T  PROVE m + 1 \in T
  <2>1. SUFFICES ASSUME m + 1 <= n  PROVE Good(m + 1)
    OBVIOUS
  <2>2. PICK c \in [1..m -> Seq(S)] : Concatenated(c, seqs, m)
    <3>1. m <= n
      BY <1>1, <2>1
    <3>. QED  BY <1>3, <3>1
  <2> DEFINE last == IF m = 0 THEN seqs[1] ELSE c[m] \o seqs[m + 1]
             d == [i \in 1..(m + 1) |-> IF i = m + 1 THEN last ELSE c[i]]
  <2>3. last \in Seq(S)
    <3>1. CASE m = 0
      BY <1>1, <2>1, <3>1
    <3>2. CASE m # 0
      <4>1. c[m] \in Seq(S) /\ seqs[m + 1] \in Seq(S)
        BY <1>1, <2>1, <3>2
      <4>2. c[m] \o seqs[m + 1] \in Seq(S)
        BY <4>1, ConcatProperties
      <4>. QED  BY <3>2, <4>2
    <3>. QED  BY <3>1, <3>2
  <2>4. d \in [1..(m + 1) -> Seq(S)]
    <3>. HIDE DEF last
    <3>. QED  BY <2>3
  <2>5. d[1] = seqs[1]
    BY <2>2 DEF Concatenated
  <2>6. ASSUME NEW i \in 1..(m + 1), i # 1  PROVE d[i] = d[i - 1] \o seqs[i]
    <3>1. i - 1 \in 1..m /\ m # 0 /\ d[i - 1] = c[i - 1]
      BY <2>6
    <3>2. CASE i = m + 1
      <4>1. d[i] = last /\ i - 1 = m
        BY <3>2
      <4>2. last = c[m] \o seqs[m + 1]
        BY <3>1, Zenon
      <4>. HIDE DEF d, last
      <4>. QED  BY <3>1, <3>2, <4>1, <4>2, Zenon
    <3>3. CASE i # m + 1
      <4>1. i \in 1..m /\ d[i] = c[i]
        BY <3>3
      <4>2. c[i] = c[i - 1] \o seqs[i]
        BY <2>2, <2>6, <4>1, Zenon DEF Concatenated
      <4>. HIDE DEF d
      <4>. QED  BY <3>1, <4>1, <4>2, Zenon
    <3>. QED  BY <3>2, <3>3
  <2>. HIDE DEF d
  <2>7. Concatenated(d, seqs, m + 1)
    BY <2>5, <2>6, Zenon DEF Concatenated
  <2>. QED  BY <2>4, <2>7
<1>4. k \in T
  <2>1. k \in Nat
    BY <1>1
  <2>. HIDE DEF T
  <2>. QED  BY <1>2, <1>3, <2>1, Induction
<1>. QED  BY <1>1, <1>4

\* FlattenSeq holds what its sequences hold.
LEMMA FlattenSeqSet ==
    ASSUME NEW S, NEW seqs \in Seq(Seq(S)), seqs # <<>>
    PROVE  /\ FlattenSeq(seqs) \in Seq(S)
           /\ ToSet(FlattenSeq(seqs)) = Held(seqs, Len(seqs))
<1> DEFINE n == Len(seqs)
           D(it) == [i \in 1..n |-> IF i = 1 THEN seqs[i] ELSE it[i - 1] \o seqs[i]]
           h == CHOOSE it : it = D(it)
<1>1. n \in Nat \ {0} /\ n \in 1..n /\ n \in 0..n
  BY EmptySeq, LenProperties
<1>2. FlattenSeq(seqs) = h[n]
  BY <1>1, Zenon DEF FlattenSeq
<1>3. PICK c \in [1..n -> Seq(S)] : Concatenated(c, seqs, n)
  BY <1>1, PrefixesExist
<1>4. c = D(c)
  <2>1. c = [i \in 1..n |-> c[i]]
    OBVIOUS
  <2>2. \A i \in 1..n : c[i] = IF i = 1 THEN seqs[i] ELSE c[i - 1] \o seqs[i]
    BY <1>1, <1>3, Zenon DEF Concatenated
  <2>3. [i \in 1..n |-> c[i]] = D(c)
    BY <2>2, Zenon
  <2>. QED  BY <2>1, <2>3, Zenon
<1>5. h = D(h)
  <2>. HIDE DEF D
  <2>. QED  BY <1>4, Zenon
<1>6. Concatenated(h, seqs, n)
  <2>. HIDE DEF h
  <2>1. ASSUME NEW i \in 1..n
        PROVE  h[i] = IF i = 1 THEN seqs[i] ELSE h[i - 1] \o seqs[i]
    <3>1. h[i] = D(h)[i]
      <4>. HIDE DEF D
      <4>. QED  BY <1>5, Zenon
    <3>. QED  BY <3>1, Zenon
  <2>. QED  BY <2>1, Zenon DEF Concatenated
<1>. HIDE DEF h
<1>7. h[n] \in Seq(S) /\ ToSet(h[n]) = Held(seqs, n)
  <2>1. \A k \in 1..Len(seqs) :
            h[k] \in Seq(S) /\ ToSet(h[k]) = Held(seqs, k)
    BY <1>6, PrefixSet, Zenon
  <2>. QED  BY <1>1, <2>1
<1>. QED  BY <1>2, <1>7

\* A batch and what is left of the queue.
LEMMA SplitSet ==
    ASSUME NEW S, NEW s \in Seq(S), NEW n \in 1..Len(s)
    PROVE  /\ SubSeq(s, n + 1, Len(s)) \in Seq(S)
           /\ ToSet(s) = ToSet(SubSeq(s, 1, n)) \cup ToSet(SubSeq(s, n + 1, Len(s)))
<1>1. Len(s) \in Nat
  BY LenProperties
<1>2. /\ 1 \in 1..(Len(s) + 1) /\ n \in (1 - 1)..Len(s) /\ Len(s) \in n..Len(s)
  BY <1>1
<1>3. SubSeq(s, 1, n) \o SubSeq(s, n + 1, Len(s)) = SubSeq(s, 1, Len(s))
  BY <1>2, ConcatAdjacentSubSeq
<1>4. SubSeq(s, 1, n) \in Seq(S) /\ SubSeq(s, n + 1, Len(s)) \in Seq(S)
  <2>1. \A i \in 1..n : s[i] \in S
    BY <1>1, ElementOfSeq
  <2>2. \A i \in (n + 1)..Len(s) : s[i] \in S
    BY <1>1, ElementOfSeq
  <2>. QED  BY <1>1, <2>1, <2>2, SubSeqProperties
<1>5. SubSeq(s, 1, Len(s)) = s
  BY SubSeqFull
<1>6. ToSet(SubSeq(s, 1, n) \o SubSeq(s, n + 1, Len(s)))
        = ToSet(SubSeq(s, 1, n)) \cup ToSet(SubSeq(s, n + 1, Len(s)))
  BY <1>4, ConcatSet
<1>. QED  BY <1>3, <1>4, <1>5, <1>6

-----------------------------------------------------------------------------
(* Chunks and points. *)

Unique(set) == \A p, q \in set : PointId(p) = PointId(q) => p = q

\* The chunks of a version: of that file, one per place, none of a file that is not there.
LEMMA ChunkFacts ==
    ASSUME NEW f \in Files, NEW v \in Versions \cup {Absent}
    PROVE  /\ ChunkSeq(f, v) \in Seq(Chunk)
           /\ Chunks(f, v) \subseteq Chunk
           /\ \A c \in Chunks(f, v) : c.file = f
           /\ Unique(Chunks(f, v))
           /\ v = Absent => Chunks(f, v) = {}
<1>1. CASE v = Absent
  <2>1. ChunkSeq(f, v) = <<>>
    BY <1>1 DEF ChunkSeq
  <2>2. Chunks(f, v) = {}
    BY <2>1 DEF Chunks, ToSet
  <2>. QED  BY <2>1, <2>2, EmptySeq DEF Unique
<1>2. CASE v # Absent
  <2> DEFINE n == Len(Starts[v])
             c(i) == [file |-> f, index |-> i, start |-> Starts[v][i], version |-> v]
  <2>1. v \in Versions /\ Starts[v] \in Seq(Nat)
    BY <1>2, IndexingAssumption, LenProperties, ElementOfSeq DEF Versions
  <2>2. n \in Nat /\ DOMAIN Starts[v] = 1..n /\ \A i \in 1..n : Starts[v][i] \in Nat
    BY <2>1, LenProperties, ElementOfSeq
  <2>3. \A i \in 1..n : c(i) \in Chunk
    BY <2>1, <2>2 DEF Chunk
  <2>. HIDE DEF n
  <2>4. ChunkSeq(f, v) = [i \in 1..n |-> c(i)]
    BY <1>2, <2>2 DEF ChunkSeq
  <2>5. ChunkSeq(f, v) \in Seq(Chunk)
    BY <2>2, <2>3, <2>4, IsASeq
  <2>6. Chunks(f, v) = {c(i) : i \in 1..n}
    BY <2>4 DEF Chunks, ToSet
  <2>7. Unique(Chunks(f, v))
    BY <2>6 DEF Unique, PointId
  <2>. QED  BY <1>2, <2>3, <2>5, <2>6, <2>7
<1>. QED  BY <1>1, <1>2

LEMMA ChunksFinite ==
    ASSUME NEW f \in Files, NEW v \in Versions \cup {Absent}
    PROVE  Cardinality(Chunks(f, v)) \in Nat
<1> DEFINE s == ChunkSeq(f, v)
<1>1. s \in Seq(Chunk)
  BY ChunkFacts
<1>2. Len(s) \in Nat /\ DOMAIN s = 1..Len(s)
  BY <1>1, LenProperties
<1>3. IsFiniteSet(1..Len(s))
  BY <1>2, FS_Interval
<1>4. Chunks(f, v) = {s[i] : i \in 1..Len(s)}
  BY <1>2 DEF Chunks, ToSet
<1>. HIDE DEF s
<1>5. IsFiniteSet({s[i] : i \in 1..Len(s)})
  <2> DEFINE g == [i \in 1..Len(s) |-> s[i]]
  <2>1. g \in Surjection(1..Len(s), {s[i] : i \in 1..Len(s)})
    BY DEF Surjection
  <2>. QED  BY <1>3, <2>1, FS_Surjection
<1>. QED  BY <1>4, <1>5, FS_CardinalityType

\* What a run has read, as a set of chunks.
ReadSet(texts) == UNION {Chunks(f, texts[f]) : f \in Files}

\* Every point of what a run has read is of one file and the version read of it.
LEMMA ReadSetFacts ==
    ASSUME NEW texts \in [Files -> Versions \cup {Absent}]
    PROVE  /\ ReadSet(texts) \subseteq Chunk
           /\ Unique(ReadSet(texts))
           /\ \A c \in ReadSet(texts) : c.file \in Files /\ c \in Chunks(c.file, texts[c.file])
           /\ \A f \in Files : Chunks(f, texts[f]) \subseteq ReadSet(texts)
<1>1. \A c \in ReadSet(texts) :
          \E f \in Files : c.file = f /\ c \in Chunks(f, texts[f]) /\ c \in Chunk
  BY ChunkFacts DEF ReadSet
<1>2. \A c \in ReadSet(texts) : c.file \in Files /\ c \in Chunks(c.file, texts[c.file])
  BY <1>1
<1>3. Unique(ReadSet(texts))
  <2>1. SUFFICES ASSUME NEW p \in ReadSet(texts), NEW q \in ReadSet(texts),
                        PointId(p) = PointId(q)
                 PROVE  p = q
    BY DEF Unique
  <2>2. p.file = q.file
    BY <2>1 DEF PointId
  <2>. QED  BY <1>2, <2>1, <2>2, ChunkFacts DEF Unique
<1>. QED  BY <1>1, <1>2, <1>3 DEF ReadSet

\* The documents of a run are the chunks of all it has read.
LEMMA AllChunksSet ==
    ASSUME NEW texts \in [Files -> Versions \cup {Absent}]
    PROVE  AllChunks(texts) \in Seq(Chunk) /\ ToSet(AllChunks(texts)) = ReadSet(texts)
<1> DEFINE n == NumFixtures + NumFiles
           e(i) == ChunkSeq(Nth(i), texts[Nth(i)])
           seqs == [i \in 1..n |-> e(i)]
<1>1. n \in Nat \ {0}
  BY IndexingAssumption
<1>2. \A i \in 1..n : Nth(i) \in Files
  BY IndexingAssumption DEF Nth, Files, Corpus, Fixtures
<1>3. \A f \in Files : \E i \in 1..n : Nth(i) = f
  <2>1. SUFFICES ASSUME NEW f \in Files  PROVE \E i \in 1..n : Nth(i) = f
    OBVIOUS
  <2>2. CASE f \in Corpus
    <3>1. f + NumFixtures \in 1..n /\ Nth(f + NumFixtures) = f
      BY <2>2, IndexingAssumption DEF Corpus, Nth
    <3>. QED  BY <3>1
  <2>3. CASE f \in Fixtures
    <3>1. f - NumFiles \in 1..n /\ Nth(f - NumFiles) = f
      BY <2>3, IndexingAssumption DEF Fixtures, Nth
    <3>. QED  BY <3>1
  <2>. QED  BY <2>2, <2>3 DEF Files
<1>4. \A i \in 1..n : e(i) \in Seq(Chunk)
  BY <1>2, ChunkFacts
<1>. HIDE DEF n
<1>5. seqs \in Seq(Seq(Chunk)) /\ Len(seqs) = n /\ seqs # <<>>
  <2>1. seqs \in [1..n -> Seq(Chunk)]
    BY <1>4
  <2>2. seqs \in Seq(Seq(Chunk)) /\ Len(seqs) = n
    <3>. HIDE DEF seqs
    <3>. QED  BY <1>1, <2>1
  <2>. QED  BY <1>1, <2>2, EmptySeq
<1>6. AllChunks(texts) = FlattenSeq(seqs)
  BY DEF AllChunks, n
<1>7. AllChunks(texts) \in Seq(Chunk) /\ ToSet(AllChunks(texts)) = Held(seqs, n)
  <2>. HIDE DEF seqs
  <2>. QED  BY <1>5, <1>6, FlattenSeqSet
<1>8. \A i \in 1..n : ToSet(seqs[i]) = Chunks(Nth(i), texts[Nth(i)])
  BY DEF Chunks
<1>9. Held(seqs, n) = ReadSet(texts)
  <2>. HIDE DEF seqs
  <2>. QED  BY <1>2, <1>3, <1>8 DEF Held, ReadSet
<1>. QED  BY <1>7, <1>9

\* An upsert puts the batch in, and takes out only points of its places.
LEMMA UpsertedFacts ==
    ASSUME NEW old \in SUBSET Chunk, NEW batch \in SUBSET Chunk, Unique(old), Unique(batch)
    PROVE  /\ Upserted(old, batch) \subseteq old \cup batch
           /\ batch \subseteq Upserted(old, batch)
           /\ Unique(Upserted(old, batch))
           /\ \A p \in old : (\A c \in batch : PointId(c) = PointId(p) => c = p)
                                => p \in Upserted(old, batch)
<1> DEFINE kept == {p \in old : \A c \in batch : PointId(c) # PointId(p)}
<1>1. Upserted(old, batch) = kept \cup batch
  BY DEF Upserted
<1>2. Unique(kept \cup batch)
  <2>. USE DEF Unique
  <2>1. SUFFICES ASSUME NEW p \in kept \cup batch, NEW q \in kept \cup batch,
                        PointId(p) = PointId(q)
                 PROVE  p = q
    OBVIOUS
  <2>. HIDE DEF PointId
  <2>2. CASE p \in kept /\ q \in kept
    BY <2>1, <2>2
  <2>3. CASE p \in batch /\ q \in batch
    BY <2>1, <2>3
  <2>4. CASE p \in kept /\ q \in batch
    BY <2>1, <2>4
  <2>5. CASE p \in batch /\ q \in kept
    BY <2>1, <2>5
  <2>. QED  BY <2>2, <2>3, <2>4, <2>5
<1>. QED  BY <1>1, <1>2

\* No count is reused when no document is.
LEMMA NothingReused == Unchanged = {} => ChunksReused = 0
<1>1. SUFFICES ASSUME Unchanged = {}
               PROVE  FoldSet(LAMBDA f, n : plan.previous[f].count + n, 0, {}) = 0
  BY DEF ChunksReused
<1> DEFINE D(it) == [s \in SUBSET {} |->
                        IF s = {} THEN 0
                        ELSE plan.previous[CHOOSE x \in s : TRUE].count
                                + it[s \ {CHOOSE x \in s : TRUE}]]
           h == CHOOSE it : it = D(it)
<1>2. SUBSET {} = {{}}
  OBVIOUS
<1>3. D([s \in SUBSET {} |-> 0]) = [s \in SUBSET {} |-> 0]
  BY <1>2
<1>4. h = D(h)
  <2>. HIDE DEF D
  <2>. QED  BY <1>3
<1>5. h[{}] = 0
  <2>. HIDE DEF h
  <2>. QED  BY <1>2, <1>4
<1>. QED  BY <1>5 DEF FoldSet, MapThenFoldSet

-----------------------------------------------------------------------------
(* The plan of a run. *)

\* What the plan says of a document holds as long as the plan does.
LEMMA SamePlan ==
    ASSUME UNCHANGED <<mode, plan>>
    PROVE  /\ UNCHANGED <<Scanned, Selective, Unchanged, Changed, Deleted>>
           /\ UNCHANGED <<ToProcess, ToDelete>>
BY DEF Scanned, Selective, Unchanged, Changed, Deleted, ToProcess, ToDelete

LEMMA SameTexts == UNCHANGED read => UNCHANGED Texts
BY DEF Texts

LEMMA TextsIsReadSet == Texts = ReadSet(read)
BY DEF Texts, ReadSet

\* An unchanged document has the version it had, a document to delete has another, and
\* what an incremental run neither keeps nor deletes is new to the manifest.
LEMMA PlanFacts ==
    ASSUME PlanTyped, HashesAreOld
    PROVE  /\ Unchanged \subseteq Corpus /\ ToDelete \subseteq Corpus
           /\ Unchanged # {} => ~plan.rebuild /\ mode # "full"
           /\ \A f \in Unchanged : /\ plan.scan[f] = plan.previous[f].hash
                                   /\ plan.scan[f] # Absent
                                   /\ f \notin ToDelete
           /\ ~plan.rebuild => \A f \in ToDelete : plan.scan[f] # plan.previous[f].hash
           /\ mode = "incremental" /\ ~plan.rebuild =>
                \A f \in Corpus \ ToDelete : \/ plan.scan[f] = plan.previous[f].hash
                                             \/ plan.previous[f].hash = Absent
<1>. USE DEF PlanTyped, HashesAreOld
<1>1. Unchanged \subseteq Corpus /\ ToDelete \subseteq Corpus
  BY DEF Unchanged, ToDelete, Changed, Deleted, Scanned, Tracked
<1>2. Unchanged # {} => ~plan.rebuild /\ mode # "full"
  BY DEF Unchanged, Selective
<1>3. ASSUME NEW f \in Unchanged
      PROVE  /\ plan.scan[f] = plan.previous[f].hash
             /\ plan.scan[f] # Absent
             /\ f \notin ToDelete
  BY DEF Unchanged, ToDelete, Changed, Deleted, Scanned
<1>4. ASSUME ~plan.rebuild, NEW f \in ToDelete
      PROVE  plan.scan[f] # plan.previous[f].hash
  <2>1. Selective
    BY <1>4 DEF ToDelete, Selective
  <2>2. CASE f \in Changed
    BY <2>1, <2>2 DEF Changed, Unchanged, Scanned
  <2>3. CASE f \in Deleted
    BY <1>1, <2>1, <2>3 DEF Deleted, Tracked, Scanned
  <2>. QED  BY <1>4, <2>2, <2>3 DEF ToDelete
<1>5. ASSUME mode = "incremental", ~plan.rebuild, NEW f \in Corpus \ ToDelete
      PROVE  plan.scan[f] = plan.previous[f].hash \/ plan.previous[f].hash = Absent
  <2>1. Selective /\ f \notin Changed /\ f \notin Deleted
    BY <1>5 DEF ToDelete, Selective
  <2>2. CASE f \in Scanned
    <3>1. f \in Unchanged \/ f \notin Tracked(plan.previous)
      BY <2>1, <2>2 DEF Changed
    <3>. QED  BY <1>3, <1>5, <3>1 DEF Tracked, NoEntry
  <2>3. CASE f \notin Scanned
    BY <2>1, <2>3 DEF Deleted, Scanned, Tracked, NoEntry
  <2>. QED  BY <2>2, <2>3
<1>. QED  BY <1>1, <1>2, <1>3, <1>4, <1>5

-----------------------------------------------------------------------------
(* The invariant. *)

LEMMA NoManifestFacts == /\ NoEntry \in Entry /\ NoEntry.hash = Absent
                         /\ NoManifest.docs \in [Corpus -> Entry]
                         /\ \A f \in Corpus : NoManifest.docs[f] = NoEntry
BY DEF NoEntry, Entry, NoManifest

\* The points of a file are its own.
LEMMA NoPoints == points = {} => \A f : PointsOf(f) = {}
BY DEF PointsOf

LEMMA InitInv == Init => IInv
<1> SUFFICES ASSUME Init  PROVE IInv
  OBVIOUS
<1>. USE NoManifestFacts DEF Init
<1>1. 1 \in Versions
  BY IndexingAssumption, EmptySeq, LenProperties DEF Versions
<1>2. TypeOK
  BY <1>1 DEF TypeOK, NoManifest, NothingRead, ToSet
<1>3. PlanTyped
  <2>1. newest \in [Files -> Nat]
    BY DEF Absent
  <2>. QED  BY <1>1, <2>1, EmptySeq DEF PlanTyped, NoPlan
<1>4. PlanHolds
  BY DEF PlanHolds, Began
<1>5. HashesAreOld
  <2>1. \A f \in Corpus : /\ corpus[f] \in {0, 1} /\ corpus[f] <= newest[f]
                         /\ plan.scan[f] = 0 /\ manifest.docs[f] = NoEntry
                         /\ plan.previous[f] = NoEntry
    BY DEF Files, NoPlan, NoManifest, Absent
  <2>. QED  BY <2>1 DEF HashesAreOld, Absent
<1>6. Covered /\ ReadsScan /\ Replaced
  BY DEF Covered, ReadsScan, Replaced
<1>7. RebuildClears
  BY DEF RebuildClears, NoPlan
<1>8. Vouched
  <2>1. \A f \in Corpus : corpus[f] = manifest.docs[f].hash => Chunks(f, corpus[f]) = {}
    BY ChunkFacts DEF Files
  <2>. QED  BY <2>1 DEF Vouched, Began
<1>9. NothingElse
  BY NoPoints DEF NothingElse, Began
<1>. QED  BY <1>2, <1>3, <1>4, <1>5, <1>6, <1>7, <1>8, <1>9 DEF IInv

\* An edit without a revert brings back no version any scan or manifest knows.
LEMMA EditInv ==
    ASSUME IInv, NEW f \in Files, NEW v \in Versions \cup {Absent}, Edit(f, v)
    PROVE  IInv'
<1>. USE DEF Edit
<1>1. UNCHANGED <<manifest, store, points, pc, mode, plan, read, doomed, queue>>
  BY DEF disk, memory
<1>2. UNCHANGED <<Unchanged, ToDelete, Texts>>
  BY <1>1, SamePlan, SameTexts
<1>3. Versions \subseteq Nat \ {0}
  BY IndexingAssumption, LenProperties DEF Versions
<1>4. corpus \in [Files -> Versions \cup {Absent}] /\ newest \in [Files -> Nat]
  BY DEF IInv, TypeOK, PlanTyped
<1>5. /\ corpus' \in [Files -> Versions \cup {Absent}]
      /\ newest' \in [Files -> Nat]
      /\ \A g \in Files : g # f => corpus'[g] = corpus[g] /\ newest'[g] = newest[g]
      /\ corpus'[f] = v /\ newest'[f] >= v /\ newest'[f] >= newest[f]
  BY <1>3, <1>4
<1>6. TypeOK'
  BY <1>1, <1>5 DEF IInv, TypeOK
<1>7. PlanTyped'
  BY <1>1, <1>5 DEF IInv, PlanTyped
<1>8. past \subseteq past'
  OBVIOUS
<1>9. PlanHolds'
  BY <1>1, <1>2, <1>8 DEF IInv, PlanHolds, Began
<1>10. HashesAreOld'
  <2>1. \A g \in Corpus : plan.scan[g] \in Nat /\ manifest.docs[g].hash \in Nat
    <3>1. \A g \in Corpus : /\ plan.scan[g] \in Versions \cup {Absent}
                            /\ manifest.docs[g] \in Entry
      BY DEF IInv, TypeOK, PlanTyped
    <3>2. \A e \in Entry : e.hash \in Versions \cup {Absent}
      BY DEF Entry
    <3>3. Versions \cup {Absent} \subseteq Nat
      BY <1>3 DEF Absent
    <3>. QED  BY <3>1, <3>2, <3>3
  <2>2. Corpus \subseteq Files
    BY DEF Files
  <2>3. ASSUME NEW g \in Corpus
        PROVE  /\ corpus'[g] <= newest'[g]
               /\ plan.scan[g] <= newest'[g]
               /\ manifest.docs[g].hash <= newest'[g]
    <3>1. /\ corpus[g] <= newest[g]
          /\ plan.scan[g] <= newest[g]
          /\ manifest.docs[g].hash <= newest[g]
      BY DEF IInv, HashesAreOld
    <3>2. newest'[g] \in Nat /\ newest[g] \in Nat /\ newest'[g] >= newest[g]
      BY <1>4, <1>5, <2>2
    <3>3. corpus'[g] <= newest'[g]
      BY <1>3, <1>5, <2>2, <3>1
    <3>. QED  BY <2>1, <3>1, <3>2, <3>3
  <2>. QED  BY <1>1, <2>3 DEF IInv, HashesAreOld
<1>11. Covered' /\ RebuildClears' /\ Replaced'
  BY <1>1, <1>2 DEF IInv, Covered, RebuildClears, Replaced, PointsOf
<1>12. ReadsScan'
  <2>1. past' \cap {"race", "skip"} = {} => pc # "read" /\ past \cap {"race", "skip"} = {}
    BY <1>8
  <2>. QED  BY <1>1, <1>2, <2>1 DEF IInv, ReadsScan
<1>13. Vouched'
  <2>1. SUFFICES ASSUME past' \subseteq {"crash", "full"}  PROVE Vouched'
    BY DEF Vouched
  <2>2. past \subseteq {"crash", "full"} /\ v \notin 1..newest[f]
    BY <1>8, <2>1
  <2>3. ASSUME NEW g \in Corpus, corpus'[g] = manifest.docs[g].hash
        PROVE  corpus'[g] = corpus[g] \/ corpus'[g] = Absent
    <3>1. CASE g # f
      BY <1>5, <3>1 DEF Files
    <3>2. CASE g = f
      <4>1. v <= newest[f] /\ newest[f] \in Nat
        BY <1>4, <1>5, <2>3, <3>2 DEF IInv, HashesAreOld
      <4>. QED  BY <1>3, <1>5, <2>2, <3>2, <4>1
    <3>. QED  BY <3>1, <3>2
  <2>4. ASSUME NEW g \in Corpus, corpus'[g] = manifest.docs[g].hash, ~(pc \in Began /\ plan.rebuild)
        PROVE  Chunks(g, corpus'[g]) \subseteq points
    <3>1. CASE corpus'[g] = corpus[g]
      BY <2>2, <2>4, <3>1 DEF IInv, Vouched
    <3>2. CASE corpus'[g] = Absent
      BY <3>2, ChunkFacts DEF Files
    <3>. QED  BY <2>3, <2>4, <3>1, <3>2
  <2>5. pc \in Began => \A g \in Corpus :
            plan.scan[g] # manifest.docs[g].hash /\ corpus'[g] = manifest.docs[g].hash
                => corpus'[g] = Absent
    BY <2>2, <2>3 DEF IInv, Vouched
  <2>. QED  BY <1>1, <1>2, <2>2, <2>4, <2>5 DEF IInv, Vouched, Began, Chunks, ChunkSeq
<1>14. NothingElse'
  BY <1>1, <1>8 DEF IInv, NothingElse, PointsOf, Began, Chunks, ChunkSeq
<1>. QED  BY <1>6, <1>7, <1>9, <1>10, <1>11, <1>12, <1>13, <1>14 DEF IInv

\* A scan knows the versions the corpus has now.
LEMMA ScanInv == ASSUME IInv, NEW m \in Modes, Scan(m)  PROVE IInv'
<1>. USE DEF Scan
<1>1. UNCHANGED <<corpus, newest, manifest, store, points, doomed, queue>>
  BY DEF disk
<1>2. m \in {"incremental", "force", "reset", "full"}
  BY IndexingAssumption
<1>3. Corpus \subseteq Files /\ Fixtures \subseteq Files /\ Corpus \cap Fixtures = {}
  BY IndexingAssumption DEF Files, Corpus, Fixtures
<1>4. corpus \in [Files -> Versions \cup {Absent}]
  BY DEF IInv, TypeOK
<1>5. pc' = "read" /\ mode' = m /\ past \subseteq past'
  OBVIOUS
<1>6. /\ \A f \in Corpus : plan'.scan[f] = corpus[f] /\ plan'.previous[f] = manifest.docs[f]
      /\ plan'.previous = manifest.docs
      /\ plan'.scan \in [Corpus -> Versions \cup {Absent}]
      /\ plan'.rebuild = (m \in {"force", "reset"} \/ (manifest.exists /\ store = "absent"))
  BY <1>3, <1>4
<1>7. /\ read' \in [Files -> Versions \cup {Absent}]
      /\ \A f \in Corpus : read'[f] = Absent
  BY <1>3, <1>4
<1>. HIDE DEF Scan
<1>8. TypeOK'
  BY <1>1, <1>2, <1>5, <1>7 DEF IInv, TypeOK
<1>9. PlanTyped'
  BY <1>1, <1>6 DEF IInv, TypeOK, PlanTyped
<1>10. PlanHolds'
  <2>1. doomed = {}
    BY DEF IInv, PlanHolds, Scan
  <2>2. m = "full" => "full" \in past'
    BY DEF Scan
  <2>. QED  BY <1>1, <1>2, <1>5, <1>6, <2>1, <2>2 DEF PlanHolds, Began
<1>11. HashesAreOld'
  BY <1>1, <1>6 DEF IInv, HashesAreOld
<1>12. Covered' /\ Replaced'
  BY <1>5 DEF Covered, Replaced
<1>13. ReadsScan'
  BY <1>1, <1>5, <1>6, <1>7 DEF ReadsScan
<1>14. RebuildClears'
  <2>1. doomed = {} /\ (store # "collection" => points = {})
    BY DEF IInv, PlanHolds, RebuildClears, Scan
  <2>. QED  BY <1>1, <1>5, <1>6, <2>1 DEF RebuildClears
<1>15. Vouched'
  <2>1. SUFFICES ASSUME past' \subseteq {"crash", "full"}  PROVE Vouched'
    BY DEF Vouched
  <2>2. \A f \in Corpus : corpus[f] = manifest.docs[f].hash => Chunks(f, corpus[f]) \subseteq points
    BY <1>5, <2>1 DEF IInv, Vouched, Began, Scan
  <2>3. \A f \in Unchanged' : f \in Corpus /\ plan'.scan[f] = plan'.previous[f].hash
    BY DEF Unchanged, Scanned
  <2>4. \A f \in Unchanged' : Chunks(f, plan'.scan[f]) \subseteq points
    BY <1>6, <2>2, <2>3
  <2>. QED  BY <1>1, <1>5, <1>6, <2>2, <2>4 DEF Vouched, Chunks, ChunkSeq
<1>16. NothingElse'
  <2>1. past' = {} => \A f \in Corpus : PointsOf(f) \subseteq Chunks(f, manifest.docs[f].hash)
    BY <1>5 DEF IInv, NothingElse, Scan
  <2>. QED  BY <1>1, <1>5, <2>1 DEF NothingElse, PointsOf, Chunks, ChunkSeq
<1>. QED  BY <1>8, <1>9, <1>10, <1>11, <1>12, <1>13, <1>14, <1>15, <1>16 DEF IInv

\* A load reads the texts of the scan, unless they were edited or skipped.
LEMMA LoadInv == ASSUME IInv, NEW skipped \in SUBSET Corpus, Load(skipped)  PROVE IInv'
<1> DEFINE wanted == IF Selective THEN ToProcess ELSE Corpus
           texts == [f \in Files |-> IF f \in wanted \ skipped THEN corpus[f] ELSE read[f]]
<1>1. /\ UNCHANGED <<corpus, newest, manifest, store, points, mode, plan, doomed>>
      /\ pc = "read" /\ skipped \subseteq wanted
      /\ read' = texts /\ queue' = AllChunks(texts)
      /\ past' = past \cup (IF skipped = {} THEN {} ELSE {"skip"})
      /\ pc' = "open" \/ (pc' = "failed" /\ ~plan.rebuild)
  BY DEF Load, disk
<1>2. Corpus \subseteq Files
  BY DEF Files
<1>3. texts \in [Files -> Versions \cup {Absent}]
  BY DEF IInv, TypeOK
<1>4. /\ queue' \in Seq(Chunk) /\ ToSet(queue') = ReadSet(texts)
      /\ ReadSet(texts) \subseteq Chunk
  BY <1>1, <1>3, AllChunksSet, ReadSetFacts
<1>5. Texts' = ReadSet(texts)
  BY <1>1 DEF Texts, ReadSet
<1>6. UNCHANGED <<Unchanged, ToDelete>>
  BY <1>1, SamePlan
<1>7. past \subseteq past' /\ (past' \cap {"race", "skip"} = {} => skipped = {})
  BY <1>1
<1>8. /\ \A f \in Unchanged : texts[f] = Absent
      /\ past' \cap {"race", "skip"} = {} => \A f \in Corpus \ Unchanged : texts[f] = plan.scan[f]
  <2>1. \A f \in Corpus : read[f] = Absent
    BY <1>1 DEF IInv, ReadsScan
  <2>2. \A f \in Unchanged : f \notin wanted /\ f \in Corpus
    BY DEF Unchanged, ToProcess, Scanned
  <2>3. \A f \in Unchanged : texts[f] = Absent
    BY <1>2, <2>1, <2>2
  <2>4. ASSUME past' \cap {"race", "skip"} = {}, NEW f \in Corpus \ Unchanged
        PROVE  texts[f] = plan.scan[f]
    <3>1. skipped = {} /\ corpus[f] = plan.scan[f]
      BY <1>1, <1>7, <2>4 DEF IInv, ReadsScan
    <3>2. f \in wanted \/ plan.scan[f] = Absent
      BY <2>4 DEF ToProcess, Scanned
    <3>. QED  BY <1>2, <2>1, <3>1, <3>2
  <2>. QED  BY <2>3, <2>4
<1>. HIDE DEF texts, wanted
<1>9. TypeOK'
  BY <1>1, <1>3, <1>4 DEF IInv, TypeOK
<1>10. PlanTyped'
  BY <1>1, <1>4 DEF IInv, PlanTyped
<1>11. PlanHolds'
  <2>1. doomed = {}
    BY <1>1 DEF IInv, PlanHolds
  <2>. QED  BY <1>1, <1>7, <2>1 DEF IInv, PlanHolds, Began
<1>12. HashesAreOld'
  BY <1>1 DEF IInv, HashesAreOld
<1>13. Covered'
  BY <1>1, <1>4, <1>5 DEF Covered
<1>14. ReadsScan'
  BY <1>1, <1>6, <1>8 DEF ReadsScan
<1>15. RebuildClears'
  BY <1>1 DEF IInv, RebuildClears, PlanHolds
<1>16. Replaced'
  BY <1>1 DEF Replaced
<1>17. Vouched'
  BY <1>1, <1>6, <1>7 DEF IInv, Vouched, Began, Chunks, ChunkSeq
<1>18. NothingElse'
  BY <1>1, <1>7 DEF IInv, NothingElse, PointsOf, Began, Chunks, ChunkSeq
<1>. QED  BY <1>9, <1>10, <1>11, <1>12, <1>13, <1>14, <1>15, <1>16, <1>17, <1>18 DEF IInv

\* Steps that leave the plan, the texts and the corpus as they are.
Stays == UNCHANGED <<corpus, newest, mode, plan, read, past>>

LEMMA StaysFacts ==
    Stays => /\ UNCHANGED <<Unchanged, ToDelete, ToProcess, Texts>>
             /\ \A f \in Files, v \in Versions \cup {Absent} : UNCHANGED Chunks(f, v)
BY SamePlan, SameTexts DEF Stays, Chunks, ChunkSeq

\* Storage is reset in a rebuild only.
LEMMA ResetInv == ASSUME IInv, Reset  PROVE IInv'
<1>1. /\ Stays /\ UNCHANGED <<manifest, pc, doomed, queue>>
      /\ pc = "open" /\ mode = "reset" /\ points' = {} /\ store' = "absent"
  BY DEF Reset, memory, Stays
<1>2. UNCHANGED <<Unchanged, ToDelete, ToProcess, Texts>>
  BY <1>1, StaysFacts
<1>3. plan.rebuild /\ Unchanged = {}
  <2>1. plan.rebuild
    BY <1>1 DEF IInv, PlanHolds
  <2>. QED  BY <2>1, PlanFacts DEF IInv
<1>. USE <1>1, <1>2, <1>3 DEF Stays
<1>4. TypeOK' /\ PlanTyped' /\ PlanHolds' /\ HashesAreOld'
  BY DEF IInv, TypeOK, PlanTyped, PlanHolds, HashesAreOld, Began
<1>5. Covered' /\ ReadsScan' /\ Replaced'
  BY DEF IInv, Covered, ReadsScan, Replaced
<1>6. RebuildClears'
  BY DEF IInv, RebuildClears
<1>7. Vouched'
  BY DEF IInv, Vouched, Began
<1>8. NothingElse'
  BY DEF NothingElse, Began
<1>. QED  BY <1>4, <1>5, <1>6, <1>7, <1>8 DEF IInv

\* The client takes away no point an unchanged document needs.
LEMMA OpenInv == ASSUME IInv, Open  PROVE IInv'
<1>1. /\ Stays /\ UNCHANGED <<manifest, doomed, queue>>
      /\ pc = "open" /\ (mode = "reset" => store = "absent")
      /\ store' = IF mode = "force" \/ store = "absent" THEN "empty" ELSE store
  BY DEF Open, memory, Stays
<1>2. UNCHANGED <<Unchanged, ToDelete, ToProcess, Texts>>
  BY <1>1, StaysFacts
<1>3. /\ plan.rebuild => Unchanged = {}
      /\ mode \in {"force", "reset"} => plan.rebuild
      /\ doomed = {}
      /\ store # "collection" => points = {}
      /\ store \in {"absent", "empty", "collection"}
  BY <1>1, PlanFacts DEF IInv, PlanHolds, RebuildClears, TypeOK
<1>4. /\ pc' = "create" \/ (pc' = "failed" /\ ~plan.rebuild)
      /\ points' = points \/ (points' = {} /\ mode = "force")
      /\ pc' = "create" => points' = IF mode = "force" THEN {} ELSE points
  BY <1>3 DEF Open, Drop
<1>5. store' # "collection" => points' = {}
  BY <1>1, <1>3, <1>4 DEF Open, Drop
<1>. USE <1>1, <1>2, <1>3, <1>4, <1>5 DEF Stays
<1>6. TypeOK' /\ PlanTyped' /\ HashesAreOld'
  BY DEF IInv, TypeOK, PlanTyped, HashesAreOld
<1>7. PlanHolds'
  BY DEF IInv, PlanHolds, Began
<1>8. Covered' /\ ReadsScan' /\ Replaced'
  BY DEF IInv, Covered, ReadsScan, Replaced
<1>9. RebuildClears'
  <2>1. plan.rebuild => points' = {}
    BY DEF IInv, RebuildClears
  <2>. QED  BY <2>1 DEF RebuildClears
<1>10. plan.rebuild \/ points' = points
  OBVIOUS
<1>11. Vouched'
  BY <1>10 DEF IInv, Vouched, Began, Chunks, ChunkSeq
<1>12. NothingElse'
  BY <1>10 DEF IInv, NothingElse, Began, PointsOf, Chunks, ChunkSeq
<1>. QED  BY <1>6, <1>7, <1>8, <1>9, <1>11, <1>12 DEF IInv

\* A rebuild passes the check of the counts; what a run does not delete it has checked.
LEMMA CreateInv == ASSUME IInv, Create  PROVE IInv'
<1>1. /\ Stays /\ UNCHANGED <<manifest, points, queue>>
      /\ pc = "create" /\ store' = "collection"
  BY DEF Create, Stays
<1>2. UNCHANGED <<Unchanged, ToDelete, ToProcess, Texts>>
  BY <1>1, StaysFacts
<1>3. doomed = {} /\ (plan.rebuild => points = {} /\ Unchanged = {})
  BY <1>1, PlanFacts DEF IInv, PlanHolds, RebuildClears
<1>4. \/ pc' = "update" /\ doomed' = ToDelete
      \/ pc' = "failed" /\ doomed' = {} /\ ~plan.rebuild
  <2>1. plan.rebuild => ~(Cardinality(points) < ChunksReused)
    BY <1>3, NothingReused, FS_EmptySet
  <2>. QED  BY <1>3, <2>1 DEF Create
<1>. USE <1>1, <1>2, <1>3, <1>4 DEF Stays
<1>5. ToDelete \subseteq Corpus
  BY PlanFacts DEF IInv
<1>6. TypeOK' /\ PlanTyped' /\ HashesAreOld'
  BY <1>5 DEF IInv, TypeOK, PlanTyped, HashesAreOld
<1>7. PlanHolds'
  BY DEF IInv, PlanHolds, Began
<1>8. Covered'
  BY DEF IInv, Covered
<1>9. ReadsScan' /\ RebuildClears' /\ Replaced'
  BY DEF IInv, ReadsScan, RebuildClears, Replaced
<1>10. Vouched'
  BY DEF IInv, Vouched, Began, Chunks, ChunkSeq
<1>11. NothingElse'
  <2>1. SUFFICES ASSUME past = {}, NEW f \in Corpus
                 PROVE  /\ pc' = "failed" => PointsOf(f) \subseteq Chunks(f, manifest.docs[f].hash)
                        /\ pc' = "update" => \/ f \in doomed'
                                             \/ PointsOf(f) \subseteq Chunks(f, plan.scan[f])
    BY DEF NothingElse, Began, PointsOf, Chunks, ChunkSeq
  <2>2. CASE plan.rebuild
    BY <2>2, NoPoints
  <2>3. CASE ~plan.rebuild
    <3>1. PointsOf(f) \subseteq Chunks(f, manifest.docs[f].hash)
      BY <2>1, <2>3 DEF IInv, NothingElse, Began
    <3>2. mode = "incremental"
      BY <2>1, <2>3 DEF IInv, TypeOK, PlanHolds
    <3>3. plan.previous = manifest.docs
      BY DEF IInv, PlanHolds, Began
    <3>4. f \notin ToDelete => PointsOf(f) \subseteq Chunks(f, plan.scan[f])
      <4>1. SUFFICES ASSUME f \notin ToDelete, manifest.docs[f].hash = Absent
                     PROVE  PointsOf(f) = {}
        BY <2>3, <3>1, <3>2, <3>3, PlanFacts DEF IInv
      <4>. QED  BY <3>1, <4>1, ChunkFacts DEF Files
    <3>. QED  BY <3>1, <3>4
  <2>. QED  BY <2>2, <2>3
<1>. QED  BY <1>6, <1>7, <1>8, <1>9, <1>10, <1>11 DEF IInv

\* A document that is deleted is no unchanged one, and has not the version it had.
LEMMA DeleteInv == ASSUME IInv, Delete  PROVE IInv'
<1>1. PICK d \in doomed : doomed' = doomed \ {d} /\ points' = points \ PointsOf(d)
  BY DEF Delete
<1>2. /\ Stays /\ UNCHANGED <<manifest, store, pc, queue>> /\ pc = "update"
  BY DEF Delete, Stays
<1>3. UNCHANGED <<Unchanged, ToDelete, ToProcess, Texts>>
  BY <1>2, StaysFacts
<1>4. /\ points' \subseteq points /\ doomed' \subseteq doomed
      /\ \A f : PointsOf(f)' \subseteq PointsOf(f)
      /\ \A f, p : p \in PointsOf(f) /\ f # d => p \in points'
      /\ PointsOf(d)' = {}
  BY <1>1 DEF PointsOf
<1>5. d \in ToDelete /\ d \in Corpus /\ d \notin Unchanged
  BY <1>1, <1>2, PlanFacts DEF IInv, PlanHolds
<1>. USE <1>2, <1>3 DEF Stays
<1>6. TypeOK' /\ PlanTyped' /\ HashesAreOld'
  BY <1>4 DEF IInv, TypeOK, PlanTyped, HashesAreOld
<1>7. PlanHolds'
  BY <1>4 DEF IInv, PlanHolds, Began
<1>8. Covered'
  BY <1>1, <1>4 DEF IInv, Covered
<1>9. ReadsScan' /\ RebuildClears'
  BY <1>1, <1>4 DEF IInv, ReadsScan, RebuildClears, PlanHolds
<1>10. Replaced'
  <2>1. SUFFICES ASSUME NEW f \in ToDelete \ doomed'  PROVE PointsOf(f)' \subseteq Texts
    BY DEF Replaced
  <2>2. f = d \/ f \in ToDelete \ doomed
    BY <1>1
  <2>. QED  BY <1>4, <2>2 DEF IInv, Replaced
<1>11. Vouched'
  <2>1. SUFFICES ASSUME past \subseteq {"crash", "full"}  PROVE Vouched'
    BY DEF Vouched
  <2>2. ASSUME NEW f \in Corpus, NEW v \in Versions \cup {Absent}, f # d,
               Chunks(f, v) \subseteq points
        PROVE  Chunks(f, v) \subseteq points'
    BY <1>4, <2>2, ChunkFacts DEF Files, PointsOf
  <2>3. /\ \A f \in Corpus : corpus[f] \in Versions \cup {Absent}
        /\ \A f \in Corpus : plan.scan[f] \in Versions \cup {Absent}
    BY DEF IInv, TypeOK, PlanTyped, Files
  <2>4. ASSUME ~plan.rebuild, corpus[d] = manifest.docs[d].hash
        PROVE  Chunks(d, corpus[d]) = {}
    <3>1. plan.previous = manifest.docs
      BY DEF IInv, PlanHolds, Began
    <3>2. plan.scan[d] # manifest.docs[d].hash
      BY <1>5, <2>4, <3>1, PlanFacts DEF IInv
    <3>3. corpus[d] = Absent
      BY <1>5, <2>1, <2>4, <3>2 DEF IInv, Vouched, Began
    <3>. QED  BY <1>5, <3>3, ChunkFacts DEF Files
  <2>5. ~plan.rebuild => \A f \in Corpus :
            corpus[f] = manifest.docs[f].hash => Chunks(f, corpus[f]) \subseteq points'
    <3>1. SUFFICES ASSUME ~plan.rebuild, NEW f \in Corpus, corpus[f] = manifest.docs[f].hash
                   PROVE  Chunks(f, corpus[f]) \subseteq points'
      OBVIOUS
    <3>2. Chunks(f, corpus[f]) \subseteq points
      BY <2>1, <3>1 DEF IInv, Vouched
    <3>. QED  BY <2>2, <2>3, <2>4, <3>1, <3>2
  <2>6. \A f \in Unchanged : Chunks(f, plan.scan[f]) \subseteq points'
    <3>1. SUFFICES ASSUME NEW f \in Unchanged  PROVE Chunks(f, plan.scan[f]) \subseteq points'
      OBVIOUS
    <3>2. Chunks(f, plan.scan[f]) \subseteq points /\ f \in Corpus /\ f # d
      BY <1>5, <2>1, PlanFacts DEF IInv, Vouched, Began
    <3>. QED  BY <2>2, <2>3, <3>2
  <2>. QED  BY <2>1, <2>5, <2>6 DEF IInv, Vouched, Began, Chunks, ChunkSeq
<1>12. NothingElse'
  <2>1. SUFFICES ASSUME past = {}, NEW f \in Corpus, f \notin doomed'
                 PROVE  PointsOf(f)' \subseteq Chunks(f, plan.scan[f])
    BY DEF NothingElse, Began, Chunks, ChunkSeq
  <2>2. CASE f = d
    BY <1>4, <2>2
  <2>3. CASE f # d
    BY <1>1, <1>4, <2>1, <2>3 DEF IInv, NothingElse
  <2>. QED  BY <2>2, <2>3
<1>. QED  BY <1>6, <1>7, <1>8, <1>9, <1>10, <1>11, <1>12 DEF IInv

\* A batch replaces no point of the texts read, and none of an unchanged document.
LEMMA UpsertInv == ASSUME IInv, Upsert  PROVE IInv'
<1> DEFINE n == IF Len(queue) < BatchSize THEN Len(queue) ELSE BatchSize
           batch == ToSet(SubSeq(queue, 1, n))
<1>1. /\ Stays /\ UNCHANGED <<manifest, store, pc, doomed>>
      /\ pc = "update" /\ doomed = {} /\ queue # <<>>
      /\ points' = Upserted(points, batch)
      /\ queue' = SubSeq(queue, n + 1, Len(queue))
  BY DEF Upsert, Stays
<1>2. UNCHANGED <<Unchanged, ToDelete, ToProcess, Texts>>
  BY <1>1, StaysFacts
<1>3. queue \in Seq(Chunk) /\ n \in 1..Len(queue)
  <2>1. queue \in Seq(Chunk) /\ Len(queue) \in Nat \ {0}
    BY <1>1, EmptySeq DEF IInv, PlanTyped
  <2>. QED  BY <2>1, IndexingAssumption
<1>. HIDE DEF n
<1>4. queue' \in Seq(Chunk) /\ ToSet(queue) = batch \cup ToSet(queue')
  BY <1>1, <1>3, SplitSet
<1>5. read \in [Files -> Versions \cup {Absent}] /\ points \in SUBSET Chunk /\ Unique(points)
  BY DEF IInv, TypeOK, Unique
<1>6. /\ batch \subseteq Texts /\ ToSet(queue') \subseteq Texts
      /\ Texts \subseteq points \cup batch \cup ToSet(queue')
      /\ Texts \subseteq Chunk
  BY <1>1, <1>4, <1>5, TextsIsReadSet, ReadSetFacts DEF IInv, Covered
<1>. HIDE DEF batch
<1>7. \A c, d \in Texts : PointId(c) = PointId(d) => c = d
  BY <1>5, TextsIsReadSet, ReadSetFacts DEF Unique
<1>8. /\ points' \subseteq points \cup batch
      /\ batch \subseteq points'
      /\ Unique(points')
      /\ \A p \in points : (\A c \in batch : PointId(c) = PointId(p) => c = p) => p \in points'
  <2>1. batch \in SUBSET Chunk /\ Unique(batch)
    BY <1>6, <1>7 DEF Unique
  <2>. QED  BY <1>1, <1>5, <2>1, UpsertedFacts
<1>9. \A c \in batch : c.file \in Files /\ c \in Chunks(c.file, read[c.file])
  BY <1>5, <1>6, TextsIsReadSet, ReadSetFacts
<1>10. \A f \in Unchanged : f \in Files /\ read[f] = Absent
  BY <1>1, PlanFacts DEF IInv, ReadsScan, Files
<1>. USE <1>1, <1>2 DEF Stays
<1>11. TypeOK'
  BY <1>4, <1>5, <1>6, <1>8 DEF IInv, TypeOK, Unique
<1>12. PlanTyped' /\ HashesAreOld' /\ PlanHolds'
  BY <1>4 DEF IInv, PlanTyped, HashesAreOld, PlanHolds, Began
<1>13. Covered'
  <2>1. Texts \subseteq points' \cup ToSet(queue')
    BY <1>6, <1>7, <1>8
  <2>. QED  BY <1>6, <2>1 DEF Covered
<1>14. ReadsScan' /\ RebuildClears'
  BY <1>6, <1>8 DEF IInv, ReadsScan, RebuildClears, PlanHolds
<1>15. Replaced'
  BY <1>6, <1>8 DEF IInv, Replaced, PointsOf
<1>16. Vouched'
  <2>1. SUFFICES ASSUME past \subseteq {"crash", "full"}  PROVE Vouched'
    BY DEF Vouched
  <2>2. \A f \in Corpus \ Unchanged : read[f] = plan.scan[f]
    <3>1. past \cap {"race", "skip"} = {}
      BY <2>1
    <3>. QED  BY <3>1 DEF IInv, ReadsScan
  <2>3. ASSUME NEW f \in Corpus, NEW v \in Versions \cup {Absent}, Chunks(f, v) \subseteq points,
               read[f] = v \/ read[f] = Absent
        PROVE  Chunks(f, v) \subseteq points'
    <3>1. SUFFICES ASSUME NEW p \in Chunks(f, v), NEW c \in batch, PointId(c) = PointId(p)
                   PROVE  c = p
      BY <1>8, <2>3
    <3>2. f \in Files /\ c.file = f /\ c \in Chunks(f, read[f])
      BY <1>9, <3>1, ChunkFacts DEF Files, PointId
    <3>. QED  BY <2>3, <3>1, <3>2, ChunkFacts DEF Unique
  <2>4. /\ \A f \in Corpus : corpus[f] \in Versions \cup {Absent}
        /\ \A f \in Corpus : plan.scan[f] \in Versions \cup {Absent}
        /\ Unchanged \subseteq Corpus
    BY PlanFacts DEF IInv, TypeOK, PlanTyped, Files
  <2>5. ASSUME ~plan.rebuild, NEW f \in Corpus, corpus[f] = manifest.docs[f].hash
        PROVE  Chunks(f, corpus[f]) \subseteq points'
    <3>1. Chunks(f, corpus[f]) \subseteq points
      BY <2>1, <2>5 DEF IInv, Vouched
    <3>2. CASE corpus[f] = Absent
      BY <3>2, ChunkFacts DEF Files
    <3>3. CASE corpus[f] # Absent
      <4>1. plan.scan[f] = corpus[f]
        BY <2>1, <2>5, <3>3 DEF IInv, Vouched, Began
      <4>2. read[f] = corpus[f] \/ read[f] = Absent
        BY <1>10, <2>2, <4>1
      <4>. QED  BY <2>3, <2>4, <3>1, <4>2
    <3>. QED  BY <3>2, <3>3
  <2>6. \A f \in Unchanged : Chunks(f, plan.scan[f]) \subseteq points'
    <3>1. SUFFICES ASSUME NEW f \in Unchanged  PROVE Chunks(f, plan.scan[f]) \subseteq points'
      OBVIOUS
    <3>2. Chunks(f, plan.scan[f]) \subseteq points
      BY <2>1 DEF IInv, Vouched, Began
    <3>. QED  BY <1>10, <2>3, <2>4, <3>2
  <2>. QED  BY <2>1, <2>5, <2>6 DEF IInv, Vouched, Began, Chunks, ChunkSeq
<1>17. NothingElse'
  <2>1. SUFFICES ASSUME past = {}, NEW f \in Corpus
                 PROVE  PointsOf(f)' \subseteq Chunks(f, plan.scan[f])
    BY DEF NothingElse, Began, Chunks, ChunkSeq
  <2>2. PointsOf(f) \subseteq Chunks(f, plan.scan[f])
    BY <2>1 DEF IInv, NothingElse
  <2>3. ASSUME NEW c \in batch, c.file = f  PROVE c \in Chunks(f, plan.scan[f])
    <3>1. f \in Files /\ c \in Chunks(f, read[f])
      BY <1>9, <2>3
    <3>2. f \notin Unchanged
      BY <1>10, <3>1, ChunkFacts
    <3>3. read[f] = plan.scan[f]
      BY <2>1, <3>2 DEF IInv, ReadsScan
    <3>. QED  BY <3>1, <3>3
  <2>. QED  BY <1>8, <2>2, <2>3 DEF PointsOf
<1>. QED  BY <1>11, <1>12, <1>13, <1>14, <1>15, <1>16, <1>17 DEF IInv

\* An entry that is written vouches for points that are there.
LEMMA CommitInv == ASSUME IInv, Commit  PROVE IInv'
<1>1. /\ Stays /\ UNCHANGED <<store, points, doomed, queue>>
      /\ pc = "update" /\ pc' = "ready" /\ doomed = {} /\ queue = <<>>
      /\ manifest' = IF mode = "full" THEN manifest ELSE [exists |-> TRUE, docs |-> NewEntries]
  BY DEF Commit, memory, Stays
<1>2. UNCHANGED <<Unchanged, ToDelete, ToProcess, Texts>>
  BY <1>1, StaysFacts
<1>3. read \in [Files -> Versions \cup {Absent}] /\ Corpus \subseteq Files
  BY DEF IInv, TypeOK, Files
<1>4. /\ \A f \in Corpus : NewEntries[f] \in Entry
      /\ \A f \in Corpus : NewEntries[f].hash = plan.scan[f]
      /\ \A f \in Corpus : plan.scan[f] = Absent => NewEntries[f] = NoEntry
      /\ NewEntries \in [Corpus -> Entry]
  <2>1. ASSUME NEW f \in Corpus
        PROVE  /\ NewEntries[f] \in Entry /\ NewEntries[f].hash = plan.scan[f]
               /\ plan.scan[f] = Absent => NewEntries[f] = NoEntry
    <3>1. CASE f \in Unchanged
      <4>1. NewEntries[f] = plan.previous[f]
        BY <3>1 DEF NewEntries, ToProcess
      <4>. QED  BY <3>1, <4>1, PlanFacts DEF IInv, PlanTyped
    <3>2. CASE f \in ToProcess
      <4>1. f \notin Unchanged /\ plan.scan[f] # Absent
        BY <3>2 DEF ToProcess, Scanned
      <4>2. NewEntries[f] = [hash |-> plan.scan[f], count |-> Cardinality(Chunks(f, read[f]))]
        BY <3>2, <4>1 DEF NewEntries
      <4>3. Cardinality(Chunks(f, read[f])) \in Nat
        BY <1>3, ChunksFinite
      <4>. QED  BY <4>1, <4>2, <4>3 DEF Entry, IInv, PlanTyped
    <3>3. CASE f \notin Unchanged /\ f \notin ToProcess
      <4>1. NewEntries[f] = NoEntry /\ plan.scan[f] = Absent
        BY <3>3 DEF NewEntries, ToProcess, Scanned
      <4>. QED  BY <4>1, NoManifestFacts
    <3>. QED  BY <3>1, <3>2, <3>3
  <2>2. NewEntries = [f \in Corpus |-> NewEntries[f]]
    BY DEF NewEntries
  <2>. HIDE DEF NewEntries
  <2>. QED  BY <2>1, <2>2
<1>5. manifest'.exists \in BOOLEAN /\ manifest'.docs \in [Corpus -> Entry]
  BY <1>1, <1>4 DEF IInv, TypeOK
<1>6. \/ mode = "full" /\ manifest' = manifest
      \/ mode # "full" /\ manifest'.docs = NewEntries
  BY <1>1
<1>7. Texts \subseteq points
  BY <1>1 DEF IInv, Covered, ToSet
<1>. USE <1>1, <1>2 DEF Stays
<1>8. TypeOK'
  BY <1>5 DEF IInv, TypeOK
<1>9. PlanTyped' /\ PlanHolds'
  BY DEF IInv, PlanTyped, PlanHolds, Began
<1>10. HashesAreOld'
  BY <1>4, <1>6 DEF IInv, HashesAreOld
<1>11. Covered' /\ ReadsScan' /\ RebuildClears' /\ Replaced'
  BY <1>7 DEF IInv, Covered, ReadsScan, RebuildClears, Replaced, PointsOf
<1>12. Vouched'
  <2>1. SUFFICES ASSUME past \subseteq {"crash", "full"}  PROVE Vouched'
    BY DEF Vouched
  <2>2. \A f \in Corpus \ Unchanged : read[f] = plan.scan[f]
    <3>1. past \cap {"race", "skip"} = {}
      BY <2>1
    <3>. QED  BY <3>1 DEF IInv, ReadsScan
  <2>3. \A f \in Corpus : Chunks(f, plan.scan[f]) \subseteq points
    <3>1. SUFFICES ASSUME NEW f \in Corpus  PROVE Chunks(f, plan.scan[f]) \subseteq points
      OBVIOUS
    <3>2. CASE f \in Unchanged
      BY <2>1, <3>2 DEF IInv, Vouched, Began
    <3>3. CASE f \notin Unchanged
      BY <1>3, <1>7, <2>2, <3>3 DEF Texts
    <3>. QED  BY <3>2, <3>3
  <2>4. ASSUME NEW f \in Corpus, corpus[f] = manifest'.docs[f].hash
        PROVE  Chunks(f, corpus[f]) \subseteq points
    <3>1. CASE mode # "full"
      BY <1>4, <1>6, <2>3, <2>4, <3>1
    <3>2. CASE mode = "full" /\ ~plan.rebuild
      BY <1>6, <2>1, <2>4, <3>2 DEF IInv, Vouched
    <3>3. CASE mode = "full" /\ plan.rebuild
      <4>1. corpus[f] = Absent \/ corpus[f] = plan.scan[f]
        BY <1>6, <2>1, <2>4, <3>3 DEF IInv, Vouched, Began
      <4>. QED  BY <1>3, <2>3, <4>1, ChunkFacts
    <3>. QED  BY <3>1, <3>2, <3>3
  <2>5. Unchanged \subseteq Corpus
    BY PlanFacts DEF IInv
  <2>. QED  BY <2>3, <2>4, <2>5 DEF Vouched, Began, Chunks, ChunkSeq
<1>13. NothingElse'
  <2>1. SUFFICES ASSUME past = {}, NEW f \in Corpus
                 PROVE  /\ PointsOf(f) \subseteq Chunks(f, plan.scan[f])
                        /\ manifest'.docs[f].hash = plan.scan[f]
    BY DEF NothingElse, Began, PointsOf, Chunks, ChunkSeq
  <2>2. mode # "full"
    BY <2>1 DEF IInv, PlanHolds
  <2>3. PointsOf(f) \subseteq Chunks(f, plan.scan[f])
    BY <2>1 DEF IInv, NothingElse
  <2>. QED  BY <1>4, <1>6, <2>2, <2>3
<1>. QED  BY <1>8, <1>9, <1>10, <1>11, <1>12, <1>13 DEF IInv

\* A process that is gone leaves the two stores, and the corpus.
LEMMA ForgetInv ==
    ASSUME IInv, Forget, UNCHANGED <<corpus, newest, manifest, store, points>>,
           pc # "down", pc' = "down", past \subseteq past', Vouched', NothingElse'
    PROVE  IInv'
<1>1. /\ mode' = "incremental" /\ plan' = NoPlan /\ read' = NothingRead
      /\ doomed' = {} /\ queue' = <<>>
  BY DEF Forget
<1>2. /\ plan'.rebuild = FALSE /\ plan'.scan \in [Corpus -> Versions \cup {Absent}]
      /\ plan'.previous \in [Corpus -> Entry]
      /\ \A f \in Corpus : plan'.scan[f] = Absent /\ plan'.previous[f] = NoEntry
      /\ read' \in [Files -> Versions \cup {Absent}]
      /\ queue' \in Seq(Chunk) /\ ToSet(queue') = {}
  BY <1>1, NoManifestFacts, EmptySeq DEF NoPlan, NothingRead, ToSet
<1>3. TypeOK'
  BY <1>1, <1>2 DEF IInv, TypeOK
<1>4. PlanTyped'
  BY <1>2 DEF IInv, PlanTyped
<1>5. PlanHolds'
  BY <1>1 DEF PlanHolds, Began
<1>6. HashesAreOld'
  <2>1. \A f \in Corpus : newest[f] \in Nat
    BY DEF IInv, PlanTyped, Files
  <2>. QED  BY <1>2, <2>1 DEF IInv, HashesAreOld, Absent
<1>7. Covered' /\ ReadsScan' /\ Replaced'
  BY DEF Covered, ReadsScan, Replaced
<1>8. RebuildClears'
  BY <1>2 DEF IInv, RebuildClears
<1>. QED  BY <1>3, <1>4, <1>5, <1>6, <1>7, <1>8 DEF IInv

LEMMA ExitInv == ASSUME IInv, Exit  PROVE IInv'
<1>1. /\ Forget /\ UNCHANGED <<corpus, newest, manifest, store, points, past>>
      /\ pc \in {"ready", "failed"} /\ pc' = "down"
  BY DEF Exit, disk
<1>2. Vouched'
  BY <1>1 DEF IInv, Vouched, Began, Chunks, ChunkSeq
<1>3. NothingElse'
  <2>1. SUFFICES ASSUME past = {}, NEW f \in Corpus
                 PROVE  PointsOf(f) \subseteq Chunks(f, manifest.docs[f].hash)
    BY <1>1 DEF NothingElse, Began, PointsOf, Chunks, ChunkSeq
  <2>2. CASE pc = "failed"
    BY <2>1, <2>2 DEF IInv, NothingElse
  <2>3. CASE pc = "ready"
    <3>1. doomed = {}
      BY <2>3 DEF IInv, PlanHolds
    <3>. QED  BY <2>1, <2>3, <3>1 DEF IInv, NothingElse
  <2>. QED  BY <1>1, <2>2, <2>3
<1>. QED  BY <1>1, <1>2, <1>3, ForgetInv

\* A rebuild that is cut short is not vouched for; any other run is as before.
LEMMA CrashInv == ASSUME IInv, Crash  PROVE IInv'
<1>1. /\ Forget /\ UNCHANGED <<corpus, newest, manifest, store, points>>
      /\ pc \in Began /\ pc' = "down"
      /\ past' = past \cup {"crash"} \cup (IF plan.rebuild THEN {"rebuild cut"} ELSE {})
  BY DEF Crash, disk, Began
<1>2. Vouched'
  <2>1. past' \subseteq {"crash", "full"} => past \subseteq {"crash", "full"} /\ ~plan.rebuild
    BY <1>1
  <2>. QED  BY <1>1, <2>1 DEF IInv, Vouched, Began, Chunks, ChunkSeq
<1>3. NothingElse'
  BY <1>1 DEF NothingElse
<1>. QED  BY <1>1, <1>2, <1>3, ForgetInv DEF Began

LEMMA NextInv == IInv /\ [Next]_vars => IInv'
<1>1. ASSUME IInv, Next  PROVE IInv'
  BY <1>1, EditInv, ScanInv, LoadInv, ResetInv, OpenInv, CreateInv, DeleteInv, UpsertInv,
     CommitInv, ExitInv, CrashInv DEF Next
<1>2. ASSUME IInv, UNCHANGED vars  PROVE IInv'
  <2>1. Stays /\ UNCHANGED <<manifest, store, points, pc, doomed, queue>>
    BY <1>2 DEF vars, disk, memory, Stays
  <2>2. UNCHANGED <<Unchanged, ToDelete, Texts>>
    BY <2>1, StaysFacts
  <2>3. TypeOK' /\ PlanTyped' /\ PlanHolds' /\ HashesAreOld' /\ Covered' /\ ReadsScan'
    BY <1>2, <2>1, <2>2
       DEF IInv, Stays, TypeOK, PlanTyped, PlanHolds, HashesAreOld, Covered, ReadsScan, Began
  <2>4. RebuildClears' /\ Replaced' /\ Vouched' /\ NothingElse'
    BY <1>2, <2>1, <2>2
       DEF IInv, Stays, RebuildClears, Replaced, Vouched, NothingElse, Began, PointsOf,
           Chunks, ChunkSeq
  <2>. QED  BY <2>3, <2>4 DEF IInv
<1>. QED  BY <1>1, <1>2

\* No step of a run or of the people who edit leads out of IInv.
THEOREM IndexingInvariance == Spec => []IInv
BY InitInv, NextInv, PTL DEF Spec

\* The types, and one point per place of a file.
THEOREM TypesHold == Spec => []TypeOK
<1>1. IInv => TypeOK
  BY DEF IInv
<1>. QED  BY <1>1, IndexingInvariance, PTL

\* What a served index holds of the scanned files.
LEMMA ServedFacts ==
    ASSUME IInv, Ready, past \subseteq {"crash", "full"}, NEW f \in Corpus
    PROVE  Chunks(f, plan.scan[f]) \subseteq points
<1>1. CASE f \in Unchanged
  BY <1>1 DEF IInv, Vouched, Ready
<1>2. CASE f \notin Unchanged
  <2>1. past \cap {"race", "skip"} = {}
    OBVIOUS
  <2>2. read[f] = plan.scan[f] /\ Texts \subseteq points
    BY <1>2, <2>1 DEF IInv, ReadsScan, Covered, Ready
  <2>. QED  BY <2>2 DEF Texts, Files
<1>. QED  BY <1>1, <1>2

\* No crash makes the manifest vouch for a point that is not there.
THEOREM NothingIsLost == Spec => []NothingLost
<1>1. IInv => NothingLost
  BY ServedFacts DEF NothingLost
<1>. QED  BY <1>1, IndexingInvariance, PTL

\* The incremental updates of any number of runs add up to one full indexing.
THEOREM IncrementalIsFullIndexing == Spec => []IncrementalIsFull
<1>1. ASSUME IInv  PROVE IncrementalIsFull
  <2>1. SUFFICES ASSUME Ready, past = {}, NEW f \in Corpus
                 PROVE  PointsOf(f) = Chunks(f, plan.scan[f])
    BY DEF IncrementalIsFull
  <2>2. Chunks(f, plan.scan[f]) \subseteq PointsOf(f)
    <3>1. Chunks(f, plan.scan[f]) \subseteq points
      BY <1>1, <2>1, ServedFacts
    <3>2. f \in Files /\ plan.scan[f] \in Versions \cup {Absent}
      BY <1>1 DEF IInv, PlanTyped, Files
    <3>. QED  BY <3>1, <3>2, ChunkFacts DEF PointsOf
  <2>3. PointsOf(f) \subseteq Chunks(f, plan.scan[f])
    <3>1. doomed = {}
      BY <1>1, <2>1 DEF IInv, PlanHolds, Ready
    <3>. QED  BY <1>1, <2>1, <3>1 DEF IInv, NothingElse, Ready
  <2>. QED  BY <2>2, <2>3
<1>. QED  BY <1>1, IndexingInvariance, PTL

\* A document found changed or deleted is replaced exactly, after any history.
THEOREM DocumentsAreReplacedExactly == Spec => []ReplacedExactly
<1>1. ASSUME IInv  PROVE ReplacedExactly
  <2>1. SUFFICES ASSUME Ready, NEW f \in Changed \cup (Deleted \ Scanned), mode = "incremental"
                 PROVE  PointsOf(f) = Chunks(f, read[f])
    BY DEF ReplacedExactly
  <2>2. f \in ToDelete /\ f \in Corpus /\ f \in Files /\ doomed = {}
    BY <1>1, <2>1, PlanFacts DEF IInv, ToDelete, PlanHolds, Ready, Files
  <2>3. read \in [Files -> Versions \cup {Absent}]
    BY <1>1 DEF IInv, TypeOK
  <2>4. PointsOf(f) \subseteq Texts /\ Texts \subseteq points
    BY <1>1, <2>1, <2>2 DEF IInv, Replaced, Covered, Ready
  <2>5. PointsOf(f) \subseteq Chunks(f, read[f])
    BY <2>3, <2>4, TextsIsReadSet, ReadSetFacts DEF PointsOf
  <2>6. Chunks(f, read[f]) \subseteq PointsOf(f)
    BY <2>2, <2>3, <2>4, ChunkFacts DEF Texts, PointsOf
  <2>. QED  BY <2>5, <2>6
<1>. QED  BY <1>1, IndexingInvariance, PTL

\* A rebuild serves exactly what it read, after any history.
THEOREM ARebuildRestores == Spec => []RebuildRestores
<1>1. IInv => RebuildRestores
  BY DEF IInv, RebuildRestores, RebuildClears, Covered, Ready, Texts
<1>. QED  BY <1>1, IndexingInvariance, PTL
=============================================================================
