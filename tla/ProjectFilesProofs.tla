------------------------- MODULE ProjectFilesProofs -------------------------
(***************************************************************************)
(* The shared files for every number of processes and invocations, every    *)
(* set of timestamps and of corpora: IInv is an invariant, and with it      *)
(* NoGaps, TokensMatchChunks and the refinement of Claims.                  *)
(***************************************************************************)
EXTENDS ProjectFiles, TLAPS

LEMMA InitIInv == Init => IInv
<1> SUFFICES ASSUME Init  PROVE IInv
  OBVIOUS
<1>1. DOMAIN made = {} /\ DOMAIN content = {}
  BY DEF Init
<1>2. \A p \in Processes : step[p] = "idle"
  BY DEF Init
<1>3. TypeOK
  <2>1. \A p \in Processes : FitsItsStep(p)
    BY <1>2 DEF FitsItsStep, Busy, Writing
  <2>2. /\ made \in [DOMAIN made -> [by : Ids, parts : 0..2]]
        /\ content \in [DOMAIN content -> [fingerprint : Corpora \cup {None},
                                           tokens : Corpora \cup {None}]]
    BY <1>1 DEF Init
  <2>3. /\ step \in [Processes -> Steps]
        /\ turn \in [Processes -> 0..MaxInvocations]
        /\ key \in [Processes -> Stamps \cup {RunName} \cup Corpora \cup {None}]
        /\ number \in [Processes -> Nat]
        /\ writes \in [Processes -> Ids \cup {None}]
        /\ tokens \in [Processes -> Corpora \cup {None}]
    BY FilesAssumption DEF Init, Steps
  <2>4. {cache, tmp} \subseteq DOMAIN content \cup {None} /\ shared \subseteq DOMAIN content
    BY DEF Init
  <2>. QED  BY <1>1, <2>1, <2>2, <2>3, <2>4 DEF TypeOK
<1>4. \A base : Numbers(base) = 1..0
  BY <1>1 DEF Numbers
<1>5. NumberedUpTo
  BY <1>4 DEF NumberedUpTo
<1>. QED  BY <1>1, <1>2, <1>3, <1>5 DEF Init, IInv, OwnersBegan, SeekersOwnNothing,
       WrittenForOne, Filling, Writing

-----------------------------------------------------------------------------
(* What a step keeps by leaving things alone. *)

\* No process gets to look for a name while the names stay as they are.
LEMMA ClaimsAtRest ==
    ASSUME IInv, UNCHANGED claims, TypeOK',
           \A q \in Processes :
              /\ turn'[q] >= turn[q]
              /\ step'[q] \in {"mkdir", "open"} =>
                    step[q] = step'[q] /\ turn'[q] = turn[q] /\ key'[q] = key[q]
    PROVE  OwnersBegan' /\ SeekersOwnNothing' /\ NumberedUpTo'
<1>1. UNCHANGED <<number, made>>
  BY DEF claims
<1>2. OwnersBegan'
  <2> SUFFICES ASSUME NEW n \in DOMAIN made
               PROVE  made[n].by[2] <= turn'[made[n].by[1]]
    BY <1>1 DEF OwnersBegan
  <2>1. made[n].by \in Ids
    BY DEF IInv, TypeOK
  <2>2. made[n].by[1] \in Processes /\ made[n].by[2] \in Nat
    BY <2>1 DEF Ids
  <2>3. turn[made[n].by[1]] \in Nat /\ turn'[made[n].by[1]] \in Nat
    BY <2>2, FilesAssumption DEF IInv, TypeOK
  <2>. QED  BY <2>2, <2>3 DEF IInv, OwnersBegan
<1>3. SeekersOwnNothing'
  BY <1>1 DEF IInv, SeekersOwnNothing, Me
<1>4. NumberedUpTo'
  BY <1>1 DEF IInv, NumberedUpTo, Numbers
<1>. QED  BY <1>2, <1>3, <1>4

\* Nobody gets to fill a file of the cache while the files stay as they are.
LEMMA CacheAtRest ==
    ASSUME IInv, UNCHANGED saved,
           \A q \in Processes :
              step'[q] \in Writing \cup {"open_tmp"} =>
                 step[q] = step'[q] /\ tokens'[q] = tokens[q] /\ key'[q] = key[q]
    PROVE  WrittenForOne'
<1>1. UNCHANGED <<content, writes, shared>>
  BY DEF saved
<1>2. \A q \in Processes : step'[q] \in Writing \cup {"open_tmp"} => tokens'[q] = key'[q]
  BY DEF IInv, WrittenForOne
<1>3. \A q \in Processes : Filling(q)' => Filling(q) /\ key'[q] = key[q]
  BY DEF Filling, Writing
<1>4. \A f \in DOMAIN content' \ shared' : ~Mixed(content'[f])
  BY <1>1 DEF IInv, WrittenForOne
<1>5. ASSUME NEW q \in Processes, Filling(q)', writes'[q] \notin shared'
      PROVE  /\ content'[writes'[q]].fingerprint \in {None, key'[q]}
             /\ content'[writes'[q]].tokens \in {None, key'[q]}
             /\ \A r \in Processes : Filling(r)' /\ writes'[r] = writes'[q] => key'[r] = key'[q]
  BY <1>1, <1>3, <1>5 DEF IInv, WrittenForOne
<1>. QED  BY <1>2, <1>4, <1>5 DEF WrittenForOne, Mixed, Torn

\* An invocation that looks for a name starts with one it may take.
LEMMA BeginIInv ==
    ASSUME IInv, NEW p \in Processes, NEW s \in {"mkdir", "open", "load"},
           NEW k \in Stamps \cup {RunName} \cup Corpora, Begin(p, s, k),
           made' = made, number' \in [Processes -> Nat],
           \A q \in Processes \ {p} : number'[q] = number[q],
           s = "load" => k \in Corpora,
           s # "load" => /\ <<k, number'[p]>> \in Names
                         /\ number'[p] = 1 \/ <<k, number'[p] - 1>> \in DOMAIN made
    PROVE  IInv'
<1>1. TypeOK
  BY DEF IInv
<1>2. /\ step'[p] = s /\ key'[p] = k /\ tokens'[p] = None /\ turn'[p] = turn[p] + 1
      /\ step[p] = "idle"
      /\ \A q \in Processes \ {p} : /\ step'[q] = step[q] /\ key'[q] = key[q]
                                    /\ turn'[q] = turn[q] /\ tokens'[q] = tokens[q]
  BY <1>1 DEF TypeOK, Begin
<1>3. \A q \in Processes : turn[q] \in Nat
  BY <1>1, FilesAssumption DEF TypeOK
<1>4. UNCHANGED <<cache, tmp, content, writes, shared>>
  BY DEF Begin, saved
<1>5. TypeOK'
  <2>1. s \in Steps
    BY DEF Steps
  <2>2. /\ step' \in [Processes -> Steps]
        /\ turn' \in [Processes -> 0..MaxInvocations]
        /\ key' \in [Processes -> Stamps \cup {RunName} \cup Corpora \cup {None}]
        /\ tokens' \in [Processes -> Corpora \cup {None}]
    BY <1>1, <1>3, <2>1, FilesAssumption DEF TypeOK, Begin
  <2>3. ASSUME NEW q \in Processes  PROVE FitsItsStep(q)'
    <3>1. FitsItsStep(q)
      BY <1>1 DEF TypeOK
    <3>2. CASE q = p
      BY <1>2, <1>3, <3>2 DEF FitsItsStep, Busy, Writing
    <3>3. CASE q # p
      BY <1>2, <1>4, <3>1, <3>3 DEF FitsItsStep, Me
    <3>. QED  BY <3>2, <3>3
  <2>. QED  BY <1>1, <1>4, <2>2, <2>3 DEF TypeOK
<1>6. OwnersBegan' /\ SeekersOwnNothing'
  <2>1. \A n \in DOMAIN made : made[n].by \in Ids
    BY <1>1 DEF TypeOK
  <2>2. \A n \in DOMAIN made : made[n].by[1] \in Processes /\ made[n].by[2] \in Nat
    BY <2>1 DEF Ids
  <2>3. \A n \in DOMAIN made : made[n].by[2] <= turn[made[n].by[1]]
    BY DEF IInv, OwnersBegan
  <2>4. \A n \in DOMAIN made : made[n].by # <<p, turn[p] + 1>>
    BY <1>3, <2>2, <2>3
  <2>5. OwnersBegan'
    BY <1>2, <1>3, <2>2, <2>3 DEF OwnersBegan
  <2>6. ASSUME NEW q \in Processes, step'[q] \in {"mkdir", "open"}
        PROVE  /\ \A n \in DOMAIN made : made[n].by # Me(q)'
               /\ number'[q] = 1 \/ <<key'[q], number'[q] - 1>> \in DOMAIN made
    BY <1>2, <2>4, <2>6 DEF IInv, SeekersOwnNothing, Me
  <2>. QED  BY <2>5, <2>6 DEF SeekersOwnNothing
<1>7. NumberedUpTo'
  BY DEF IInv, NumberedUpTo, Numbers
<1>8. WrittenForOne'
  BY <1>2, CacheAtRest DEF Writing, Begin
<1>. QED  BY <1>5, <1>6, <1>7, <1>8 DEF IInv

-----------------------------------------------------------------------------
(* Names. *)

LEMMA StartRunIInv == ASSUME IInv, NEW p \in Processes, StartRun(p)  PROVE IInv'
<1>1. PICK s \in Stamps : Begin(p, "mkdir", s)
  BY DEF StartRun
<1>2. number' = [number EXCEPT ![p] = 1] /\ made' = made
  BY DEF StartRun
<1>3. number' \in [Processes -> Nat] /\ <<s, number'[p]>> \in Names /\ number'[p] = 1
  BY <1>2 DEF IInv, TypeOK, Names
<1>4. \A q \in Processes \ {p} : number'[q] = number[q]
  BY <1>2 DEF IInv, TypeOK
<1>. QED  BY <1>1, <1>2, <1>3, <1>4, BeginIInv

\* The next version is the first free number.
LEMMA NextVersionIsFree ==
    ASSUME IInv, NEW base \in Stamps \cup {RunName}
    PROVE  /\ NextVersion(base) \in Nat \ {0}
           /\ NextVersion(base) = 1 \/ <<base, NextVersion(base) - 1>> \in DOMAIN made
<1>1. PICK k \in Nat : Numbers(base) = 1..k
  BY DEF IInv, NumberedUpTo
<1>2. Max({0} \cup Numbers(base)) = k
  <2>1. {0} \cup Numbers(base) = 0..k
    BY <1>1
  <2>2. Max(0..k) = k
    <3>1. k \in 0..k /\ \A y \in 0..k : k >= y
      OBVIOUS
    <3>2. \A x \in 0..k : (\A y \in 0..k : x >= y) => x = k
      BY <3>1
    <3>. QED  BY <3>1, <3>2 DEF Max
  <2>. QED  BY <2>1, <2>2
<1>3. k = 0 \/ <<base, k>> \in DOMAIN made
  <2> SUFFICES ASSUME k # 0  PROVE <<base, k>> \in DOMAIN made
    OBVIOUS
  <2>1. PICK n \in DOMAIN made : n[1] = base /\ n[2] = k
    BY <1>1 DEF Numbers
  <2>2. n = <<base, k>>
    BY <2>1 DEF IInv, TypeOK, Names
  <2>. QED  BY <2>1, <2>2
<1>4. NextVersion(base) = k + 1
  BY <1>2 DEF NextVersion
<1>. QED  BY <1>3, <1>4

LEMMA StartExportIInv == ASSUME IInv, NEW p \in Processes, StartExport(p)  PROVE IInv'
<1>1. Begin(p, "open", RunName)
  BY DEF StartExport
<1>2. number' = [number EXCEPT ![p] = NextVersion(RunName)] /\ made' = made
  BY DEF StartExport
<1>3. /\ NextVersion(RunName) \in Nat \ {0}
      /\ NextVersion(RunName) = 1 \/ <<RunName, NextVersion(RunName) - 1>> \in DOMAIN made
  BY NextVersionIsFree
<1>4. number' \in [Processes -> Nat] /\ number'[p] = NextVersion(RunName)
  BY <1>2, <1>3 DEF IInv, TypeOK
<1>5. \A q \in Processes \ {p} : number'[q] = number[q]
  BY <1>2 DEF IInv, TypeOK
<1>. QED  BY <1>1, <1>2, <1>3, <1>4, <1>5, BeginIInv DEF Names

\* Creating a name, or finding it taken.
LEMMA ExclusivelyIInv ==
    ASSUME IInv, NEW p \in Processes, NEW then \in {"subfolders", "rows"},
           step[p] \in {"mkdir", "open"}, Exclusively(p, then), UNCHANGED <<saved, tokens>>
    PROVE  IInv'
<1> DEFINE name == <<key[p], number[p]>>
<1>1. TypeOK /\ \A q \in Processes : FitsItsStep(q)
  BY DEF IInv, TypeOK
<1>2. UNCHANGED <<turn, key, cache, tmp, content, writes, shared, tokens>>
  BY DEF Exclusively, GoTo, saved
<1>3. name \in Names /\ number[p] \in Nat \ {0} /\ key[p] \in Stamps \cup {RunName}
  BY <1>1 DEF FitsItsStep, Busy, Names
<1>4. step[p] \notin Writing \cup {"open_tmp"} /\ then \notin Writing \cup {"open_tmp"}
  BY DEF Writing
<1>5. WrittenForOne'
  <2>1. \A q \in Processes : step'[q] \in Writing \cup {"open_tmp"} => step[q] = step'[q]
    BY <1>1, <1>4 DEF TypeOK, Exclusively, GoTo
  <2>. QED  BY <1>2, <2>1, CacheAtRest
<1>6. CASE name \in DOMAIN made
  <2>1. number' = [number EXCEPT ![p] = @ + 1] /\ UNCHANGED <<step, made>>
    BY <1>6 DEF Exclusively
  <2>2. number' \in [Processes -> Nat] /\ number'[p] = number[p] + 1
        /\ \A q \in Processes \ {p} : number'[q] = number[q]
    BY <1>1, <1>3, <2>1 DEF TypeOK
  <2>3. TypeOK'
    <3>1. ASSUME NEW q \in Processes  PROVE FitsItsStep(q)'
      <4>1. CASE q = p
        BY <1>1, <1>2, <1>3, <2>1, <2>2, <4>1 DEF FitsItsStep, Busy, Writing, Names
      <4>2. CASE q # p
        BY <1>1, <1>2, <2>1, <2>2, <4>2 DEF FitsItsStep, Me
      <4>. QED  BY <4>1, <4>2
    <3>. QED  BY <1>1, <1>2, <2>1, <2>2, <3>1 DEF TypeOK
  <2>4. OwnersBegan' /\ NumberedUpTo'
    BY <1>2, <2>1 DEF IInv, OwnersBegan, NumberedUpTo, Numbers
  <2>5. SeekersOwnNothing'
    <3>1. number'[p] - 1 = number[p]
      BY <1>3, <2>2
    <3>2. \A q \in Processes : Me(q)' = Me(q)
      BY <1>2 DEF Me
    <3>3. ASSUME NEW q \in Processes, step[q] \in {"mkdir", "open"}
          PROVE  /\ \A n \in DOMAIN made : made[n].by # Me(q)
                 /\ number'[q] = 1 \/ <<key[q], number'[q] - 1>> \in DOMAIN made
      <4>1. /\ \A n \in DOMAIN made : made[n].by # Me(q)
            /\ number[q] = 1 \/ <<key[q], number[q] - 1>> \in DOMAIN made
        BY <3>3 DEF IInv, SeekersOwnNothing
      <4>2. CASE q = p
        BY <1>6, <3>1, <4>1, <4>2
      <4>3. CASE q # p
        BY <2>2, <4>1, <4>3
      <4>. QED  BY <4>2, <4>3
    <3>. QED  BY <1>2, <2>1, <3>2, <3>3 DEF SeekersOwnNothing
  <2>. QED  BY <1>5, <2>3, <2>4, <2>5 DEF IInv
<1>7. CASE name \notin DOMAIN made
  <2>1. /\ made' = [n \in DOMAIN made \cup {name} |->
                       IF n = name THEN [by |-> Me(p), parts |-> 0] ELSE made[n]]
        /\ GoTo(p, then) /\ number' = number
    BY <1>7 DEF Exclusively
  <2>2. /\ DOMAIN made' = DOMAIN made \cup {name}
        /\ made'[name] = [by |-> Me(p), parts |-> 0]
        /\ \A n \in DOMAIN made : made'[n] = made[n]
    BY <1>7, <2>1
  <2>3. /\ step' \in [Processes -> Steps] /\ step'[p] = then
        /\ \A q \in Processes \ {p} : step'[q] = step[q]
    <3>1. then \in Steps
      BY DEF Steps
    <3>. QED  BY <1>1, <2>1, <3>1 DEF TypeOK, GoTo
  <2>4. Me(p) \in Ids /\ \A q \in Processes : turn[q] \in 0..MaxInvocations
    <3>1. \A q \in Processes : turn[q] \in 0..MaxInvocations
      BY <1>1 DEF TypeOK
    <3>2. turn[p] > 0
      BY <1>1 DEF FitsItsStep
    <3>. QED  BY <3>1, <3>2, FilesAssumption DEF Me, Ids
  <2>5. TypeOK'
    <3>1. ASSUME NEW q \in Processes  PROVE FitsItsStep(q)'
      <4>1. CASE q = p
        BY <1>1, <1>2, <1>3, <2>1, <2>2, <2>3, <4>1 DEF FitsItsStep, Busy, Writing, Me
      <4>2. CASE q # p
        BY <1>1, <1>2, <2>1, <2>2, <2>3, <4>2 DEF FitsItsStep, Me
      <4>. QED  BY <4>1, <4>2
    <3>2. DOMAIN made' \subseteq Names
      BY <1>1, <1>3, <2>2 DEF TypeOK
    <3>3. made' \in [DOMAIN made' -> [by : Ids, parts : 0..2]]
      <4>1. \A n \in DOMAIN made : made[n] \in [by : Ids, parts : 0..2]
        BY <1>1 DEF TypeOK
      <4>2. \A n \in DOMAIN made' : made'[n] \in [by : Ids, parts : 0..2]
        BY <2>2, <2>4, <4>1
      <4>3. made' = [n \in DOMAIN made' |-> made'[n]]
        BY <2>1, <2>2
      <4>. QED  BY <4>2, <4>3
    <3>. QED  BY <1>1, <1>2, <2>1, <2>3, <3>1, <3>2, <3>3 DEF TypeOK
  <2>6. OwnersBegan'
    BY <1>2, <2>2, <2>4 DEF IInv, OwnersBegan, Me
  <2>7. SeekersOwnNothing'
    <3> SUFFICES ASSUME NEW q \in Processes, step'[q] \in {"mkdir", "open"}
                 PROVE  /\ \A n \in DOMAIN made' : made'[n].by # Me(q)
                        /\ number[q] = 1 \/ <<key[q], number[q] - 1>> \in DOMAIN made'
      BY <1>2, <2>1 DEF SeekersOwnNothing, Me
    <3>1. q # p /\ step[q] \in {"mkdir", "open"}
      BY <2>3
    <3>2. Me(p) # Me(q)
      BY <3>1 DEF Me
    <3>. QED  BY <2>2, <3>1, <3>2 DEF IInv, SeekersOwnNothing
  <2>8. NumberedUpTo'
    <3> SUFFICES ASSUME NEW base \in Stamps \cup {RunName}
                 PROVE  \E k \in Nat : Numbers(base)' = 1..k
      BY DEF NumberedUpTo
    <3>1. PICK k \in Nat : Numbers(base) = 1..k
      BY DEF IInv, NumberedUpTo
    <3>2. CASE base # key[p]
      <4>1. Numbers(base)' = Numbers(base)
        BY <2>2, <3>2 DEF Numbers
      <4>. QED  BY <3>1, <4>1
    <3>3. CASE base = key[p]
      <4>1. Numbers(base)' = Numbers(base) \cup {number[p]}
        BY <2>2, <3>3 DEF Numbers
      <4>2. number[p] \notin Numbers(base)
        <5> SUFFICES ASSUME NEW n \in DOMAIN made, n[1] = key[p], n[2] = number[p]
                     PROVE  FALSE
          BY <3>3 DEF Numbers
        <5>1. n \in (Stamps \cup {RunName}) \X (Nat \ {0})
          BY <1>1 DEF TypeOK, Names
        <5>2. n = <<n[1], n[2]>>
          BY <5>1
        <5>. QED  BY <1>7, <5>2
      <4>3. number[p] = 1 \/ number[p] - 1 \in Numbers(base)
        <5>1. number[p] = 1 \/ <<key[p], number[p] - 1>> \in DOMAIN made
          BY DEF IInv, SeekersOwnNothing
        <5>2. ASSUME <<key[p], number[p] - 1>> \in DOMAIN made
              PROVE  number[p] - 1 \in Numbers(base)
          BY <3>3, <5>2 DEF Numbers
        <5>. QED  BY <5>1, <5>2
      <4>4. number[p] = k + 1
        BY <1>3, <3>1, <4>2, <4>3
      <4>5. Numbers(base)' = 1..(k + 1)
        BY <3>1, <4>1, <4>4
      <4>. QED  BY <4>5
    <3>. QED  BY <3>2, <3>3
  <2>. QED  BY <1>5, <2>5, <2>6, <2>7, <2>8 DEF IInv
<1>. QED  BY <1>6, <1>7

LEMMA MkdirIInv == ASSUME IInv, NEW p \in Processes, Mkdir(p)  PROVE IInv'
<1>1. step[p] = "mkdir" /\ Exclusively(p, "subfolders") /\ UNCHANGED <<saved, tokens>>
  BY DEF Mkdir
<1>. QED  BY <1>1, ExclusivelyIInv

LEMMA OpenIInv == ASSUME IInv, NEW p \in Processes, Open(p)  PROVE IInv'
<1>1. step[p] = "open" /\ Exclusively(p, "rows") /\ UNCHANGED <<saved, tokens>>
  BY DEF Open
<1>. QED  BY <1>1, ExclusivelyIInv

\* Filling what was created.
LEMMA PartIInv ==
    ASSUME IInv, NEW p \in Processes, NEW parts \in 1..2, step[p] \in {"subfolders", "rows"},
           Part(p, parts), UNCHANGED <<saved, tokens>>
    PROVE  IInv'
<1> DEFINE name == <<key[p], number[p]>>
<1>1. TypeOK /\ \A q \in Processes : FitsItsStep(q)
  BY DEF IInv, TypeOK
<1>2. UNCHANGED <<turn, key, number, cache, tmp, content, writes, shared, tokens>>
  BY DEF Part, GoTo, saved
<1>3. name \in DOMAIN made /\ made[name].by = Me(p) /\ made[name].parts < 2
  BY <1>1 DEF FitsItsStep
<1>4. made[name] \in [by : Ids, parts : 0..2]
  BY <1>1, <1>3 DEF TypeOK
<1>5. /\ DOMAIN made' = DOMAIN made
      /\ made'[name].by = made[name].by /\ made'[name].parts = made[name].parts + 1
      /\ made'[name] \in [by : Ids, parts : 0..2]
      /\ \A n \in DOMAIN made \ {name} : made'[n] = made[n]
  BY <1>3, <1>4 DEF Part
<1>6. /\ step' \in [Processes -> Steps]
      /\ step'[p] = "idle" \/ (step'[p] = step[p] /\ made'[name].parts < 2)
      /\ \A q \in Processes \ {p} : step'[q] = step[q]
  <2>1. \/ GoTo(p, "idle")
        \/ GoTo(p, step[p]) /\ made[name].parts + 1 < 2
    BY <1>4 DEF Part
  <2>2. "idle" \in Steps /\ step[p] \in Steps /\ step \in [Processes -> Steps]
    BY <1>1 DEF TypeOK, Steps
  <2>3. CASE GoTo(p, "idle")
    BY <2>2, <2>3 DEF GoTo
  <2>4. CASE GoTo(p, step[p]) /\ made[name].parts + 1 < 2
    BY <1>5, <2>2, <2>4 DEF GoTo
  <2>. QED  BY <2>1, <2>3, <2>4
<1>7. \A n \in DOMAIN made : made'[n].by = made[n].by
  BY <1>5
<1>8. TypeOK'
  <2>1. ASSUME NEW q \in Processes  PROVE FitsItsStep(q)'
    <3>1. CASE q = p
      BY <1>1, <1>2, <1>3, <1>5, <1>6, <3>1 DEF FitsItsStep, Busy, Writing, Me
    <3>2. CASE q # p
      <4>1. step[q] \in {"subfolders", "rows"} => <<key[q], number[q]>> # name
        BY <1>1, <1>3, <3>2 DEF FitsItsStep, Me
      <4>. QED  BY <1>1, <1>2, <1>5, <1>6, <3>2, <4>1 DEF FitsItsStep, Me
    <3>. QED  BY <3>1, <3>2
  <2>2. made' \in [DOMAIN made' -> [by : Ids, parts : 0..2]]
    <3>1. \A n \in DOMAIN made' : made'[n] \in [by : Ids, parts : 0..2]
      BY <1>1, <1>5 DEF TypeOK
    <3>2. made' = [n \in DOMAIN made' |-> made'[n]]
      BY DEF Part
    <3>. QED  BY <3>1, <3>2
  <2>. QED  BY <1>1, <1>2, <1>5, <1>6, <2>1, <2>2 DEF TypeOK
<1>9. OwnersBegan' /\ NumberedUpTo'
  BY <1>2, <1>5, <1>7 DEF IInv, OwnersBegan, NumberedUpTo, Numbers
<1>10. SeekersOwnNothing'
  BY <1>2, <1>5, <1>6, <1>7 DEF IInv, SeekersOwnNothing, Me
<1>11. WrittenForOne'
  <2>1. \A q \in Processes : step'[q] \in Writing \cup {"open_tmp"} => step[q] = step'[q]
    BY <1>6 DEF Writing
  <2>. QED  BY <1>2, <2>1, CacheAtRest
<1>. QED  BY <1>8, <1>9, <1>10, <1>11 DEF IInv

LEMMA SubfoldersIInv == ASSUME IInv, NEW p \in Processes, Subfolders(p)  PROVE IInv'
<1>1. step[p] = "subfolders" /\ Part(p, 2) /\ UNCHANGED <<saved, tokens>>
  BY DEF Subfolders
<1>. QED  BY <1>1, PartIInv

LEMMA WriteRowsIInv == ASSUME IInv, NEW p \in Processes, WriteRows(p)  PROVE IInv'
<1>1. step[p] = "rows" /\ Part(p, 1) /\ UNCHANGED <<saved, tokens>>
  BY DEF WriteRows
<1>. QED  BY <1>1, PartIInv

-----------------------------------------------------------------------------
(* The token cache. *)

LEMMA StartIndexIInv == ASSUME IInv, NEW p \in Processes, StartIndex(p)  PROVE IInv'
<1>1. PICK c \in Corpora : Begin(p, "load", c)
  BY DEF StartIndex
<1>2. UNCHANGED <<number, made>>
  BY DEF StartIndex, claims
<1>. QED  BY <1>1, <1>2, BeginIInv DEF IInv, TypeOK

\* A step of a process at the cache, or one that ends an invocation, keeps the types
\* and the names.
LEMMA CacheStep ==
    ASSUME IInv, NEW p \in Processes, NEW s \in Writing \cup {"idle", "open_tmp"},
           GoTo(p, s), UNCHANGED claims,
           s # "idle" => key[p] \in Corpora /\ step[p] # "idle",
           s \in Writing => writes'[p] \in DOMAIN content',
           \A q \in Processes \ {p} : writes'[q] = writes[q],
           DOMAIN content \subseteq DOMAIN content',
           DOMAIN content' \subseteq Ids,
           content' \in [DOMAIN content' -> [fingerprint : Corpora \cup {None},
                                            tokens : Corpora \cup {None}]],
           {cache', tmp'} \subseteq DOMAIN content' \cup {None},
           writes' \in [Processes -> Ids \cup {None}],
           tokens' \in [Processes -> Corpora \cup {None}],
           shared' \subseteq DOMAIN content'
    PROVE  /\ TypeOK' /\ OwnersBegan' /\ SeekersOwnNothing' /\ NumberedUpTo'
           /\ step'[p] = s
           /\ \A q \in Processes \ {p} : step'[q] = step[q]
           /\ UNCHANGED <<turn, key, number, made>>
<1>1. TypeOK /\ \A q \in Processes : FitsItsStep(q)
  BY DEF IInv, TypeOK
<1>2. UNCHANGED <<turn, key, number, made>>
  BY DEF GoTo, claims
<1>3. /\ step' \in [Processes -> Steps] /\ step'[p] = s
      /\ \A q \in Processes \ {p} : step'[q] = step[q]
  <2>1. s \in Steps
    BY DEF Steps
  <2>. QED  BY <1>1, <2>1 DEF TypeOK, GoTo
<1>4. TypeOK'
  <2>1. ASSUME NEW q \in Processes  PROVE FitsItsStep(q)'
    <3>1. CASE q = p
      BY <1>1, <1>2, <1>3, <3>1 DEF FitsItsStep, Busy, Writing
    <3>2. CASE q # p
      BY <1>1, <1>2, <1>3, <3>2 DEF FitsItsStep, Me
    <3>. QED  BY <3>1, <3>2
  <2>. QED  BY <1>1, <1>2, <1>3, <2>1 DEF TypeOK
<1>5. OwnersBegan' /\ SeekersOwnNothing' /\ NumberedUpTo'
  <2>1. \A q \in Processes : turn[q] \in Nat
    BY <1>1, FilesAssumption DEF TypeOK
  <2>2. \A q \in Processes : turn'[q] >= turn[q]
    BY <1>2, <2>1
  <2>3. s \notin {"mkdir", "open"}
    BY DEF Writing
  <2>4. \A q \in Processes : step'[q] \in {"mkdir", "open"} =>
            step[q] = step'[q] /\ turn'[q] = turn[q] /\ key'[q] = key[q]
    BY <1>2, <1>3, <2>3
  <2>. QED  BY <1>4, <2>2, <2>4, ClaimsAtRest
<1>. QED  BY <1>2, <1>3, <1>4, <1>5

\* Whoever is to write the cache has the tokens of its corpus.
LEMMA LoadIInv == ASSUME IInv, NEW p \in Processes, Load(p)  PROVE IInv'
<1>1. TypeOK /\ \A q \in Processes : FitsItsStep(q)
  BY DEF IInv, TypeOK
<1>2. step[p] = "load" /\ key[p] \in Corpora /\ UNCHANGED claims
  BY <1>1 DEF Load, FitsItsStep
<1>3. UNCHANGED saved /\ UNCHANGED <<cache, tmp, content, writes, shared>>
  BY DEF Load, saved
<1>4. PICK s \in {"idle", "open_tmp"} :
         /\ GoTo(p, s)
         /\ \/ tokens' = [tokens EXCEPT ![p] = key[p]]
            \/ s = "idle" /\ tokens' = tokens
            \/ s = "idle" /\ tokens' = [tokens EXCEPT ![p] = Cached.tokens]
  BY DEF Load
<1>5. Cached.tokens \in Corpora \cup {None}
  BY <1>1 DEF TypeOK, Cached, Blank
<1>6. /\ tokens' \in [Processes -> Corpora \cup {None}]
      /\ \A q \in Processes \ {p} : tokens'[q] = tokens[q]
      /\ s = "open_tmp" => tokens'[p] = key[p]
  BY <1>1, <1>2, <1>4, <1>5 DEF TypeOK
<1>7. /\ TypeOK' /\ OwnersBegan' /\ SeekersOwnNothing' /\ NumberedUpTo'
      /\ step'[p] = s
      /\ \A q \in Processes \ {p} : step'[q] = step[q]
      /\ UNCHANGED <<turn, key, number, made>>
  <2>1. s \notin Writing
    BY DEF Writing
  <2>2. /\ DOMAIN content' \subseteq Ids /\ {cache', tmp'} \subseteq DOMAIN content' \cup {None}
        /\ writes' \in [Processes -> Ids \cup {None}] /\ shared' \subseteq DOMAIN content'
        /\ content' \in [DOMAIN content' -> [fingerprint : Corpora \cup {None},
                                             tokens : Corpora \cup {None}]]
    BY <1>1, <1>3 DEF TypeOK
  <2>. QED  BY <1>2, <1>3, <1>4, <1>6, <2>1, <2>2, CacheStep
<1>8. WrittenForOne'
  <2>1. \A q \in Processes : step'[q] \in Writing \cup {"open_tmp"} => tokens'[q] = key'[q]
    <3>1. s \notin Writing
      BY DEF Writing
    <3>. QED  BY <1>6, <1>7, <3>1 DEF IInv, WrittenForOne
  <2>2. \A q \in Processes : Filling(q)' => Filling(q)
    BY <1>4, <1>7 DEF Filling
  <2>. QED  BY <1>3, <1>7, <2>1, <2>2 DEF IInv, WrittenForOne, Mixed, Torn
<1>. QED  BY <1>7, <1>8 DEF IInv

\* Whoever opens the temporary file empties it, and has the corpus of all who fill it, or
\* shared says so.
LEMMA OpenTmpIInv == ASSUME IInv, NEW p \in Processes, OpenTmp(p)  PROVE IInv'
<1> DEFINE file == IF tmp = None THEN Me(p) ELSE tmp
<1>1. TypeOK /\ \A q \in Processes : FitsItsStep(q)
  BY DEF IInv, TypeOK
<1>2. /\ step[p] = "open_tmp" /\ key[p] \in Corpora /\ GoTo(p, "fingerprint")
      /\ UNCHANGED <<cache, tokens>> /\ UNCHANGED claims /\ tmp' = file
      /\ content' = [f \in DOMAIN content \cup {file} |->
                        IF f = file THEN Blank ELSE content[f]]
      /\ writes' = [writes EXCEPT ![p] = file]
      /\ shared' = IF \E q \in Processes \ {p} : /\ Filling(q) /\ writes[q] = file
                                                 /\ key[q] # key[p]
                   THEN shared \cup {file} ELSE shared \ {file}
  BY <1>1 DEF OpenTmp, Opened, FitsItsStep, Writing
<1>3. Me(p) \in Ids
  <2>1. turn[p] \in 0..MaxInvocations /\ turn[p] > 0
    BY <1>1, <1>2 DEF TypeOK, FitsItsStep
  <2>. QED  BY <2>1, FilesAssumption DEF Me, Ids
<1>4. file \in Ids /\ (tmp # None => file \in DOMAIN content)
  BY <1>1, <1>3 DEF TypeOK
<1>5. /\ DOMAIN content' = DOMAIN content \cup {file} /\ content'[file] = Blank
      /\ \A f \in DOMAIN content \ {file} : content'[f] = content[f]
  BY <1>2
<1>6. /\ writes' \in [Processes -> Ids \cup {None}] /\ writes'[p] = file
      /\ \A q \in Processes \ {p} : writes'[q] = writes[q]
  BY <1>1, <1>2, <1>4 DEF TypeOK
<1>7. content' \in [DOMAIN content' -> [fingerprint : Corpora \cup {None},
                                       tokens : Corpora \cup {None}]]
  <2>1. Blank \in [fingerprint : Corpora \cup {None}, tokens : Corpora \cup {None}]
    BY DEF Blank
  <2>2. \A f \in DOMAIN content' :
           content'[f] \in [fingerprint : Corpora \cup {None}, tokens : Corpora \cup {None}]
    BY <1>1, <1>5, <2>1 DEF TypeOK
  <2>3. content' = [f \in DOMAIN content' |-> content'[f]]
    BY <1>2, <1>5
  <2>. QED  BY <2>2, <2>3
<1>8. /\ TypeOK' /\ OwnersBegan' /\ SeekersOwnNothing' /\ NumberedUpTo'
      /\ step'[p] = "fingerprint"
      /\ \A q \in Processes \ {p} : step'[q] = step[q]
      /\ UNCHANGED <<turn, key, number, made>>
  <2>1. "fingerprint" \in Writing
    BY DEF Writing
  <2>2. /\ {cache', tmp'} \subseteq DOMAIN content' \cup {None} /\ DOMAIN content' \subseteq Ids
        /\ tokens' \in [Processes -> Corpora \cup {None}] /\ shared' \subseteq DOMAIN content'
        /\ DOMAIN content \subseteq DOMAIN content' /\ writes'[p] \in DOMAIN content'
    BY <1>1, <1>2, <1>4, <1>5, <1>6 DEF TypeOK
  <2>. QED  BY <1>2, <1>6, <1>7, <2>1, <2>2, CacheStep
<1>9. \A q \in Processes : step'[q] \in Writing \cup {"open_tmp"} => tokens'[q] = key'[q]
  BY <1>2, <1>8 DEF IInv, WrittenForOne, Writing
<1>10. ~Mixed(Blank) /\ Blank.fingerprint = None /\ Blank.tokens = None
  BY DEF Mixed, Torn, Blank
<1>11. \A f \in DOMAIN content' \ shared' : ~Mixed(content'[f])
  <2>1. \A f \in DOMAIN content \ {file} : f \notin shared' => f \notin shared
    BY <1>2
  <2>. QED  BY <1>5, <1>10, <2>1 DEF IInv, WrittenForOne
<1>12. ASSUME NEW q \in Processes, Filling(q)', writes'[q] \notin shared'
       PROVE  /\ content'[writes'[q]].fingerprint \in {None, key'[q]}
              /\ content'[writes'[q]].tokens \in {None, key'[q]}
              /\ \A r \in Processes : Filling(r)' /\ writes'[r] = writes'[q] => key'[r] = key'[q]
  <2>1. \A r \in Processes \ {p} : Filling(r)' => Filling(r) /\ writes[r] \in DOMAIN content
    BY <1>1, <1>8 DEF Filling, FitsItsStep, Writing
  <2>2. CASE writes'[q] = file
    <3>1. \A r \in Processes \ {p} : Filling(r) /\ writes[r] = file => key[r] = key[p]
      BY <1>2, <1>12, <2>2
    <3>2. \A r \in Processes : Filling(r)' /\ writes'[r] = file => key'[r] = key[p]
      BY <1>6, <1>8, <2>1, <3>1
    <3>. QED  BY <1>5, <1>10, <1>12, <2>2, <3>2
  <2>3. CASE writes'[q] # file
    <3>1. q # p /\ Filling(q) /\ writes'[q] = writes[q] /\ writes[q] \notin shared
      BY <1>2, <1>6, <1>12, <2>1, <2>3
    <3>2. content'[writes[q]] = content[writes[q]]
      BY <1>5, <2>1, <2>3, <1>12, <3>1
    <3>3. \A r \in Processes : Filling(r)' /\ writes'[r] = writes[q] =>
             Filling(r) /\ writes[r] = writes[q]
      BY <1>6, <2>1, <2>3, <3>1
    <3>. QED  BY <1>8, <3>1, <3>2, <3>3 DEF IInv, WrittenForOne
  <2>. QED  BY <2>2, <2>3
<1>13. WrittenForOne'
  BY <1>9, <1>11, <1>12 DEF WrittenForOne, Mixed, Torn
<1>. QED  BY <1>8, <1>13 DEF IInv

\* All who fill a file that is not shared put the same corpus into it.
LEMMA DumpIInv == ASSUME IInv, NEW p \in Processes, Dump(p)  PROVE IInv'
<1> DEFINE file == content[writes[p]]
<1>1. TypeOK /\ \A q \in Processes : FitsItsStep(q)
  BY DEF IInv, TypeOK
<1>2. step[p] \in Writing /\ step[p] \in {"fingerprint", "tokens"}
  BY DEF Dump, Writing
<1>3. key[p] \in Corpora /\ writes[p] \in DOMAIN content
  BY <1>1, <1>2 DEF FitsItsStep
<1>4. UNCHANGED claims /\ UNCHANGED <<cache, tmp, writes, tokens, shared>>
  BY DEF Dump
<1>5. PICK s, new :
         /\ s \in {"tokens", "replace"}
         /\ GoTo(p, s) /\ content' = [content EXCEPT ![writes[p]] = new]
         /\ \/ /\ step[p] = "fingerprint" /\ s = "tokens"
               /\ new = [file EXCEPT !.fingerprint = key[p]]
            \/ /\ step[p] = "tokens" /\ s = "replace"
               /\ new = [file EXCEPT !.tokens = tokens[p]]
  BY DEF Dump
<1>6. file \in [fingerprint : Corpora \cup {None}, tokens : Corpora \cup {None}]
  BY <1>1, <1>3 DEF TypeOK
<1>7. new \in [fingerprint : Corpora \cup {None}, tokens : Corpora \cup {None}]
  BY <1>1, <1>3, <1>5, <1>6 DEF TypeOK
<1>8. /\ DOMAIN content' = DOMAIN content
      /\ content'[writes[p]] = new
      /\ \A f \in DOMAIN content \ {writes[p]} : content'[f] = content[f]
      /\ content' \in [DOMAIN content' -> [fingerprint : Corpora \cup {None},
                                           tokens : Corpora \cup {None}]]
  BY <1>1, <1>3, <1>5, <1>7 DEF TypeOK
<1>9. /\ TypeOK' /\ OwnersBegan' /\ SeekersOwnNothing' /\ NumberedUpTo'
      /\ step'[p] = s
      /\ \A q \in Processes \ {p} : step'[q] = step[q]
      /\ UNCHANGED <<turn, key, number, made>>
  <2>1. s \in Writing \cup {"idle", "open_tmp"}
    BY <1>5 DEF Writing
  <2>2. step[p] # "idle" /\ writes'[p] \in DOMAIN content'
        /\ \A q \in Processes \ {p} : writes'[q] = writes[q]
    BY <1>2, <1>3, <1>4, <1>8
  <2>3. /\ {cache', tmp'} \subseteq DOMAIN content' \cup {None} /\ DOMAIN content' \subseteq Ids
        /\ tokens' \in [Processes -> Corpora \cup {None}] /\ shared' \subseteq DOMAIN content'
        /\ DOMAIN content \subseteq DOMAIN content'
        /\ writes' \in [Processes -> Ids \cup {None}]
    BY <1>1, <1>4, <1>8 DEF TypeOK
  <2>. QED  BY <1>3, <1>4, <1>5, <1>8, <2>1, <2>2, <2>3, CacheStep
<1>10. tokens[p] = key[p] /\ Filling(p)
  BY <1>2 DEF IInv, WrittenForOne, Filling
<1>11. \A q \in Processes : step'[q] \in Writing \cup {"open_tmp"} => tokens'[q] = key'[q]
  BY <1>4, <1>9, <1>10 DEF IInv, WrittenForOne
<1>12. ASSUME writes[p] \notin shared
       PROVE  new.fingerprint \in {None, key[p]} /\ new.tokens \in {None, key[p]}
  <2>1. file.fingerprint \in {None, key[p]} /\ file.tokens \in {None, key[p]}
    BY <1>10, <1>12 DEF IInv, WrittenForOne
  <2>2. CASE step[p] = "fingerprint"
    BY <1>5, <1>6, <2>1, <2>2
  <2>3. CASE step[p] = "tokens"
    BY <1>5, <1>6, <1>10, <2>1, <2>3
  <2>. QED  BY <1>2, <2>2, <2>3
<1>13. \A f \in DOMAIN content' \ shared' : ~Mixed(content'[f])
  <2>1. writes[p] \notin shared => ~Mixed(new)
    BY <1>12 DEF Mixed, Torn
  <2>. QED  BY <1>4, <1>8, <2>1 DEF IInv, WrittenForOne
<1>14. ASSUME NEW q \in Processes, Filling(q)', writes'[q] \notin shared'
       PROVE  /\ content'[writes'[q]].fingerprint \in {None, key'[q]}
              /\ content'[writes'[q]].tokens \in {None, key'[q]}
              /\ \A r \in Processes : Filling(r)' /\ writes'[r] = writes'[q] => key'[r] = key'[q]
  <2>1. \A r \in Processes : Filling(r)' => Filling(r)
    BY <1>9, <1>10 DEF Filling
  <2>2. Filling(q) /\ writes[q] \notin shared /\ writes[q] \in DOMAIN content
    BY <1>1, <1>4, <1>14, <2>1 DEF Filling, FitsItsStep, Writing
  <2>3. \A r \in Processes : Filling(r) /\ writes[r] = writes[q] => key[r] = key[q]
    BY <2>2 DEF IInv, WrittenForOne
  <2>4. CASE writes[q] = writes[p]
    BY <1>4, <1>8, <1>9, <1>10, <1>12, <2>1, <2>2, <2>3, <2>4
  <2>5. CASE writes[q] # writes[p]
    <3>1. content'[writes[q]] = content[writes[q]]
      BY <1>8, <2>2, <2>5
    <3>. QED  BY <1>4, <1>9, <2>1, <2>2, <2>3, <3>1 DEF IInv, WrittenForOne
  <2>. QED  BY <2>4, <2>5
<1>15. WrittenForOne'
  BY <1>11, <1>13, <1>14 DEF WrittenForOne, Mixed, Torn
<1>. QED  BY <1>9, <1>15 DEF IInv

\* Moving the file, or losing it, changes no file.
LEMMA MoveIInv ==
    ASSUME IInv, NEW p \in Processes, step[p] \in Writing \cup {"open_tmp"},
           GoTo(p, "idle"), cache' \in {cache, tmp}, tmp' = None,
           UNCHANGED claims, UNCHANGED <<content, writes, tokens, shared>>
    PROVE  IInv'
<1>1. TypeOK
  BY DEF IInv
<1>2. /\ TypeOK' /\ OwnersBegan' /\ SeekersOwnNothing' /\ NumberedUpTo'
      /\ step'[p] = "idle"
      /\ \A q \in Processes \ {p} : step'[q] = step[q]
      /\ UNCHANGED <<turn, key, number, made>>
  <2>1. "idle" \notin Writing
    BY DEF Writing
  <2>2. /\ {cache', tmp'} \subseteq DOMAIN content' \cup {None} /\ DOMAIN content' \subseteq Ids
        /\ writes' \in [Processes -> Ids \cup {None}]
        /\ tokens' \in [Processes -> Corpora \cup {None}] /\ shared' \subseteq DOMAIN content'
        /\ content' \in [DOMAIN content' -> [fingerprint : Corpora \cup {None},
                                             tokens : Corpora \cup {None}]]
    BY <1>1 DEF TypeOK
  <2>. QED  BY <2>1, <2>2, CacheStep
<1>3. step'[p] \notin Writing \cup {"open_tmp"} /\ ~Filling(p)'
  BY <1>2 DEF Writing, Filling
<1>4. \A q \in Processes : Filling(q)' => Filling(q)
  BY <1>2, <1>3 DEF Filling
<1>5. WrittenForOne'
  BY <1>2, <1>3, <1>4 DEF IInv, WrittenForOne, Mixed, Torn
<1>. QED  BY <1>2, <1>5 DEF IInv

LEMMA ReplaceIInv == ASSUME IInv, NEW p \in Processes, Replace(p)  PROVE IInv'
<1>1. /\ step[p] \in Writing \cup {"open_tmp"} /\ GoTo(p, "idle")
      /\ cache' \in {cache, tmp} /\ tmp' = None
      /\ UNCHANGED claims /\ UNCHANGED <<content, writes, tokens, shared>>
  BY DEF Replace, Writing
<1>. QED  BY <1>1, MoveIInv

LEMMA SaveFailsIInv == ASSUME IInv, NEW p \in Processes, SaveFails(p)  PROVE IInv'
<1>1. /\ step[p] \in Writing \cup {"open_tmp"} /\ GoTo(p, "idle")
      /\ cache' \in {cache, tmp} /\ tmp' = None
      /\ UNCHANGED claims /\ UNCHANGED <<content, writes, tokens, shared>>
  BY DEF SaveFails
<1>. QED  BY <1>1, MoveIInv

\* What a killed process has claimed stays claimed, and what it wrote stays half
\* written.
LEMMA DieIInv == ASSUME IInv, NEW p \in Processes, Die(p)  PROVE IInv'
<1>1. TypeOK
  BY DEF IInv
<1>2. /\ GoTo(p, "idle") /\ tokens' = [tokens EXCEPT ![p] = None]
      /\ UNCHANGED claims /\ UNCHANGED saved
      /\ UNCHANGED <<cache, tmp, content, writes, shared>>
  BY DEF Die, saved
<1>3. /\ tokens' \in [Processes -> Corpora \cup {None}] /\ tokens'[p] = None
      /\ \A q \in Processes \ {p} : tokens'[q] = tokens[q]
  BY <1>1, <1>2 DEF TypeOK
<1>4. /\ TypeOK' /\ OwnersBegan' /\ SeekersOwnNothing' /\ NumberedUpTo'
      /\ step'[p] = "idle"
      /\ \A q \in Processes \ {p} : step'[q] = step[q]
      /\ UNCHANGED <<turn, key, number, made>>
  <2>1. "idle" \notin Writing
    BY DEF Writing
  <2>2. /\ {cache', tmp'} \subseteq DOMAIN content' \cup {None} /\ DOMAIN content' \subseteq Ids
        /\ writes' \in [Processes -> Ids \cup {None}] /\ shared' \subseteq DOMAIN content'
        /\ content' \in [DOMAIN content' -> [fingerprint : Corpora \cup {None},
                                             tokens : Corpora \cup {None}]]
    BY <1>1, <1>2 DEF TypeOK
  <2>. QED  BY <1>2, <1>3, <2>1, <2>2, CacheStep
<1>5. WrittenForOne'
  <2>1. step'[p] \notin Writing \cup {"open_tmp"}
    BY <1>4 DEF Writing
  <2>. QED  BY <1>2, <1>3, <1>4, <2>1, CacheAtRest
<1>. QED  BY <1>4, <1>5 DEF IInv

-----------------------------------------------------------------------------

LEMMA NextIInv == IInv /\ [Next]_vars => IInv'
<1> SUFFICES ASSUME IInv, [Next]_vars  PROVE IInv'
  OBVIOUS
<1>1. CASE UNCHANGED vars
  <2>1. UNCHANGED <<step, turn, key, number, made, cache, tmp, content, writes, shared, tokens>>
    BY <1>1 DEF vars, claims, saved
  <2>2. TypeOK'
    BY <2>1 DEF IInv, TypeOK, FitsItsStep, Me
  <2>. QED  BY <2>1, <2>2 DEF IInv, OwnersBegan, SeekersOwnNothing, Me, NumberedUpTo, Numbers,
         WrittenForOne, Filling, Mixed, Torn
<1>2. ASSUME NEW p \in Processes, Start(p)  PROVE IInv'
  BY <1>2, StartRunIInv, StartExportIInv, StartIndexIInv DEF Start
<1>3. ASSUME NEW p \in Processes, Proceed(p)  PROVE IInv'
  BY <1>3, MkdirIInv, SubfoldersIInv, OpenIInv, WriteRowsIInv, LoadIInv, OpenTmpIInv,
     DumpIInv, ReplaceIInv DEF Proceed
<1>4. ASSUME NEW p \in Processes, SaveFails(p) \/ Die(p)  PROVE IInv'
  BY <1>4, SaveFailsIInv, DieIInv
<1>. QED  BY <1>1, <1>2, <1>3, <1>4 DEF Next

\* IInv is an invariant of the shared files.
THEOREM FilesInvariance == Spec => []IInv
BY InitIInv, NextIInv, PTL DEF Spec

\* Every variable keeps its type, and a process at a step has what the step needs:
\* nobody ever fills a folder or an export another one created.
THEOREM FilesTyped == Spec => []TypeOK
<1>1. IInv => TypeOK
  BY DEF IInv
<1>. QED  BY <1>1, FilesInvariance, PTL

\* Versions and collision numbers have no gaps, so the newest export is the one with
\* the highest version.
THEOREM NumbersWithoutGaps == Spec => []NoGaps
<1>1. IInv => NoGaps
  <2> SUFFICES ASSUME IInv, NEW n \in DOMAIN made, n[2] > 1
               PROVE  <<n[1], n[2] - 1>> \in DOMAIN made
    BY DEF NoGaps
  <2>1. n \in (Stamps \cup {RunName}) \X (Nat \ {0})
    BY DEF IInv, TypeOK, Names
  <2>2. n[1] \in Stamps \cup {RunName} /\ n[2] \in Nat
    BY <2>1
  <2>3. PICK k \in Nat : Numbers(n[1]) = 1..k
    BY <2>2 DEF IInv, NumberedUpTo
  <2>4. n[2] \in Numbers(n[1])
    BY DEF Numbers
  <2>5. n[2] - 1 \in Numbers(n[1])
    BY <2>2, <2>3, <2>4
  <2>6. PICK m \in DOMAIN made : m[1] = n[1] /\ m[2] = n[2] - 1
    BY <2>5 DEF Numbers
  <2>7. m \in (Stamps \cup {RunName}) \X (Nat \ {0})
    BY DEF IInv, TypeOK, Names
  <2>8. m = <<n[1], n[2] - 1>>
    BY <2>6, <2>7
  <2>. QED  BY <2>6, <2>8
<1>. QED  BY <1>1, FilesInvariance, PTL

\* Whatever was killed, failed or renamed before: an index gets the tokens of its own
\* chunks, unless the cache is a file that two processes filled from two corpora at
\* the same time.
THEOREM TokensOfTheChunks == Spec => TokensMatchChunks
<1>1. IInv /\ [Next]_vars =>
         [\A p \in Processes : tokens'[p] \notin {None, tokens[p]} =>
             tokens'[p] = key[p] \/ cache \in shared]_vars
  <2> SUFFICES ASSUME IInv, Next, NEW q \in Processes, tokens'[q] \notin {None, tokens[q]}
               PROVE  tokens'[q] = key[q] \/ cache \in shared
    OBVIOUS
  <2>1. tokens \in [Processes -> Corpora \cup {None}]
    BY DEF IInv, TypeOK
  <2>2. ASSUME NEW p \in Processes,
               \/ Start(p) \/ SaveFails(p) \/ Die(p) \/ Mkdir(p) \/ Subfolders(p) \/ Open(p)
               \/ WriteRows(p) \/ OpenTmp(p) \/ Dump(p) \/ Replace(p)
        PROVE  FALSE
    <3>1. tokens' = tokens \/ tokens' = [tokens EXCEPT ![p] = None]
      BY <2>2 DEF Start, StartRun, StartExport, StartIndex, Begin, SaveFails, Die, Mkdir,
                  Subfolders, Open, WriteRows, OpenTmp, Dump, Replace
    <3>. QED  BY <2>1, <3>1
  <2>3. ASSUME NEW p \in Processes, Load(p)  PROVE tokens'[q] = key[q] \/ cache \in shared
    <3>1. \/ tokens' = [tokens EXCEPT ![p] = key[p]]
          \/ Hit(p, Cached) /\ tokens' = [tokens EXCEPT ![p] = Cached.tokens]
          \/ tokens' = tokens
      BY <2>3 DEF Load
    <3>2. q = p /\ (tokens'[p] = key[p] \/ (Hit(p, Cached) /\ tokens'[p] = Cached.tokens))
      BY <2>1, <3>1
    <3>3. Hit(p, Cached) => Cached.tokens = key[p] \/ Mixed(Cached)
      BY DEF Hit, Mixed
    <3>4. Mixed(Cached) => cache \in shared
      <4>1. ~Mixed(Blank)
        BY DEF Mixed, Torn, Blank
      <4>2. cache # None => cache \in DOMAIN content
        BY DEF IInv, TypeOK
      <4>. QED  BY <4>1, <4>2 DEF IInv, WrittenForOne, Cached
    <3>. QED  BY <3>2, <3>3, <3>4
  <2>. QED  BY <2>2, <2>3 DEF Next, Proceed
<1>. QED  BY <1>1, FilesInvariance, PTL DEF Spec, TokensMatchChunks

-----------------------------------------------------------------------------
(* The refinement. *)

\* A step that creates a name gives it to an invocation that has none.
LEMMA ExclusivelyTakes ==
    ASSUME IInv, NEW p \in Processes, NEW then, step[p] \in {"mkdir", "open"},
           Exclusively(p, then)
    PROVE  Abstract!Next \/ UNCHANGED [n \in DOMAIN made |-> made[n].by]
<1> DEFINE name == <<key[p], number[p]>>
           owner == [n \in DOMAIN made |-> made[n].by]
           owner1 == [n \in DOMAIN made' |-> made'[n].by]
<1>1. CASE name \in DOMAIN made
  BY <1>1 DEF Exclusively
<1>2. CASE name \notin DOMAIN made
  <2>1. made' = [n \in DOMAIN made \cup {name} |->
                    IF n = name THEN [by |-> Me(p), parts |-> 0] ELSE made[n]]
    BY <1>2 DEF Exclusively
  <2>2. DOMAIN made' = DOMAIN made \cup {name}
    BY <2>1
  <2>3. \A n \in DOMAIN made' : made'[n].by = IF n = name THEN Me(p) ELSE made[n].by
    BY <2>1, <2>2
  <2>4. owner1 = [n \in DOMAIN owner \cup {name} |-> IF n = name THEN Me(p) ELSE owner[n]]
    BY <2>2, <2>3
  <2>5. name \notin DOMAIN owner /\ \A n \in DOMAIN owner : owner[n] # Me(p)
    BY <1>2 DEF IInv, SeekersOwnNothing
  <2>6. Me(p) \in Ids
    <3>1. turn[p] \in 0..MaxInvocations /\ turn[p] > 0
      BY DEF IInv, TypeOK, FitsItsStep
    <3>. QED  BY <3>1, FilesAssumption DEF Me, Ids
  <2>7. name \in DOMAIN owner1
    BY <2>2
  <2>. QED  BY <2>4, <2>5, <2>6, <2>7 DEF Abstract!Next, Abstract!Take
<1>. QED  BY <1>1, <1>2

\* Folders and exports implement Claims: every invocation gets a name nobody has, and
\* keeps it.
THEOREM FilesImplementClaims == Spec => ImplementsClaims
<1>1. Init => Abstract!Init
  BY DEF Init, Abstract!Init
<1>2. IInv /\ [Next]_vars => [Abstract!Next]_([n \in DOMAIN made |-> made[n].by])
  <2> SUFFICES ASSUME IInv, [Next]_vars
               PROVE  Abstract!Next \/ UNCHANGED [n \in DOMAIN made |-> made[n].by]
    OBVIOUS
  <2>1. CASE UNCHANGED made
    BY <2>1
  <2>2. ASSUME NEW p \in Processes, Mkdir(p) \/ Open(p)
        PROVE  Abstract!Next \/ UNCHANGED [n \in DOMAIN made |-> made[n].by]
    BY <2>2, ExclusivelyTakes DEF Mkdir, Open
  <2>3. ASSUME NEW p \in Processes, Subfolders(p) \/ WriteRows(p)
        PROVE  UNCHANGED [n \in DOMAIN made |-> made[n].by]
    <3> DEFINE name == <<key[p], number[p]>>
    <3>1. name \in DOMAIN made
      BY <2>3 DEF IInv, TypeOK, FitsItsStep, Subfolders, WriteRows
    <3>2. made' = [made EXCEPT ![name].parts = @ + 1]
      BY <2>3 DEF Subfolders, WriteRows, Part
    <3>3. made[name] \in [by : Ids, parts : 0..2]
      BY <3>1 DEF IInv, TypeOK
    <3>4. DOMAIN made' = DOMAIN made /\ \A n \in DOMAIN made : made'[n].by = made[n].by
      BY <3>1, <3>2, <3>3
    <3>. QED  BY <3>4
  <2>4. ASSUME NEW p \in Processes,
               \/ Start(p) \/ SaveFails(p) \/ Die(p)
               \/ Load(p) \/ OpenTmp(p) \/ Dump(p) \/ Replace(p)
        PROVE  UNCHANGED made
    BY <2>4 DEF Start, StartRun, StartExport, StartIndex, SaveFails, Die, Load, OpenTmp, Dump,
                Replace, claims
  <2>. QED  BY <2>1, <2>2, <2>3, <2>4 DEF Next, Proceed, vars, claims
<1>. QED  BY <1>1, <1>2, FilesInvariance, PTL DEF Spec, ImplementsClaims, Abstract!Spec
=============================================================================
