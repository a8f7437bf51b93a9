----------------------------- MODULE ProjectFiles -----------------------------
(***************************************************************************)
(* The files several processes of one project share without a lock: the     *)
(* run folders of RunManager.create, the versioned exports of               *)
(* _write_versioned_csv, and the BM25 token cache, which a process reads,   *)
(* and rewrites through a temporary file that has the same name for all.    *)
(* A process may be killed between any two of its steps and be started      *)
(* again.                                                                   *)
(***************************************************************************)
EXTENDS Integers, FiniteSets, FiniteSetsExt

CONSTANTS Processes,
          MaxInvocations,  \* bound: how often a process is started
          Stamps,          \* timestamps of run folders; the same second gives the same one
          RunName,         \* the run name all exports have
          Corpora,         \* chunk lists to index
          None

ASSUME FilesAssumption == /\ MaxInvocations \in Nat
                          /\ None \notin Corpora
                          /\ RunName \notin Stamps

VARIABLES
    step,     \* where the invocation of a process is, "idle" between two of them
    turn,     \* how many invocations it has begun
    key,      \* what this one works on: a timestamp, the run name or a corpus
    number,   \* the collision or version it tries next
    made,     \* name -> who created it, and how many of its parts are there
    cache,    \* the file at cache_path, or None
    tmp,      \* the file at cache_path.tmp, or None
    content,  \* of every cache file ever created: fingerprint and tokens
    writes,   \* the file a process has open for writing
    tokens,   \* what its BM25 index is built from
    shared    \* files that processes fill, or filled, from two corpora at the same time

claims == <<number, made>>
saved == <<cache, tmp, content, writes, shared>>
vars == <<step, turn, key, claims, saved, tokens>>

Ids == Processes \X (1..MaxInvocations)
Names == (Stamps \cup {RunName}) \X (Nat \ {0})
Me(p) == <<p, turn[p]>>
Blank == [fingerprint |-> None, tokens |-> None]
Writing == {"fingerprint", "tokens", "replace"}

Init == /\ step = [p \in Processes |-> "idle"]
        /\ turn = [p \in Processes |-> 0]
        /\ key = [p \in Processes |-> None]
        /\ number = [p \in Processes |-> 0]
        /\ made = [n \in {} |-> None]
        /\ cache = None
        /\ tmp = None
        /\ content = [i \in {} |-> Blank]
        /\ writes = [p \in Processes |-> None]
        /\ tokens = [p \in Processes |-> None]
        /\ shared = {}

\* A new invocation of p starts with step s on k.
Begin(p, s, k) == /\ step[p] = "idle"
                  /\ turn[p] < MaxInvocations
                  /\ turn' = [turn EXCEPT ![p] = @ + 1]
                  /\ step' = [step EXCEPT ![p] = s]
                  /\ key' = [key EXCEPT ![p] = k]
                  /\ tokens' = [tokens EXCEPT ![p] = None]
                  /\ UNCHANGED saved

GoTo(p, s) == step' = [step EXCEPT ![p] = s] /\ UNCHANGED <<turn, key>>

-----------------------------------------------------------------------------
(* Names that are created exclusively: run folders and exports. *)

Numbers(base) == {n[2] : n \in {m \in DOMAIN made : m[1] = base}}

\* Mutant of Exclusively: what exists already is used, as with exist_ok=True.
ExclusivelyOrShared(p, then) ==
    LET name == <<key[p], number[p]>>
    IN  /\ made' = [n \in DOMAIN made \cup {name} |->
                       IF n \in DOMAIN made THEN made[n] ELSE [by |-> Me(p), parts |-> 0]]
        /\ GoTo(p, then)
        /\ UNCHANGED number

\* Mutant of Exclusively: what exists already is replaced, as with mode "w".
ExclusivelyOrReplaced(p, then) ==
    LET name == <<key[p], number[p]>>
    IN  /\ made' = [n \in DOMAIN made \cup {name} |->
                       IF n = name THEN [by |-> Me(p), parts |-> 0] ELSE made[n]]
        /\ GoTo(p, then)
        /\ UNCHANGED number

\* Creates what p is trying to create, or finds that it exists and tries the next.
Exclusively(p, then) ==
    LET name == <<key[p], number[p]>>
    IN  \/ /\ name \in DOMAIN made
           /\ number' = [number EXCEPT ![p] = @ + 1]
           /\ UNCHANGED <<step, turn, key, made>>
        \/ /\ name \notin DOMAIN made
           /\ made' = [n \in DOMAIN made \cup {name} |->
                          IF n = name THEN [by |-> Me(p), parts |-> 0] ELSE made[n]]
           /\ GoTo(p, then)
           /\ UNCHANGED number

\* One more part of what p created: a folder inside it, or the rows; two in all.
Part(p, parts) ==
    /\ made' = [made EXCEPT ![<<key[p], number[p]>>].parts = @ + 1]
    /\ GoTo(p, IF made[<<key[p], number[p]>>].parts + 1 < parts THEN step[p] ELSE "idle")
    /\ UNCHANGED number

\* RunManager.create takes the time once, before its loop.
StartRun(p) == /\ \E s \in Stamps : Begin(p, "mkdir", s)
               /\ number' = [number EXCEPT ![p] = 1]
               /\ UNCHANGED made

Mkdir(p) == /\ step[p] = "mkdir"
            /\ Exclusively(p, "subfolders")
            /\ UNCHANGED <<saved, tokens>>

\* The folders for figures and context.
Subfolders(p) == step[p] = "subfolders" /\ Part(p, 2) /\ UNCHANGED <<saved, tokens>>

\* Mutant of NextVersion: one is added for the export itself.
NextVersionAfter(base) == Max({0} \cup Numbers(base)) + 2

\* Exports that are not complete count.
NextVersion(base) == Max({0} \cup Numbers(base)) + 1

StartExport(p) == /\ Begin(p, "open", RunName)
                  /\ number' = [number EXCEPT ![p] = NextVersion(RunName)]
                  /\ UNCHANGED made

Open(p) == /\ step[p] = "open"
           /\ Exclusively(p, "rows")
           /\ UNCHANGED <<saved, tokens>>

WriteRows(p) == step[p] = "rows" /\ Part(p, 1) /\ UNCHANGED <<saved, tokens>>

-----------------------------------------------------------------------------
(* BM25Retriever.index and its token cache. *)

StartIndex(p) == (\E c \in Corpora : Begin(p, "load", c)) /\ UNCHANGED claims

Cached == IF cache = None THEN Blank ELSE content[cache]

Torn(file) == None \in {file.fingerprint, file.tokens}
Mixed(file) == ~Torn(file) /\ file.fingerprint # file.tokens

\* Mutant of Hit: the fingerprint of the cache is not compared.
HitAny(p, file) == ~Torn(file)

\* _load_cached_tokens finds a cache of this corpus that it can read.
Hit(p, file) == ~Torn(file) /\ file.fingerprint = key[p]

\* A damaged cache is taken for none; one written by two processes may load, fail with
\* an exception that is caught, or with one that is not.
Load(p) ==
    /\ step[p] = "load"
    /\ \/ /\ Hit(p, Cached)
          /\ tokens' = [tokens EXCEPT ![p] = Cached.tokens]
          /\ GoTo(p, "idle")
       \/ /\ ~Hit(p, Cached) \/ Mixed(Cached)
          /\ tokens' = [tokens EXCEPT ![p] = key[p]]
          /\ GoTo(p, "open_tmp")
       \/ /\ Mixed(Cached)
          /\ GoTo(p, "idle")
          /\ UNCHANGED tokens
    /\ UNCHANGED <<claims, saved>>

Filling(p) == step[p] \in {"fingerprint", "tokens"}

\* Mutant of Opened: what is in the temporary file stays until it is overwritten.
OpenedInPlace(file) == [f \in DOMAIN content \cup {file} |->
                           IF f \in DOMAIN content THEN content[f] ELSE Blank]

\* open("wb") empties the file that is there, whoever still fills it, or creates one.
Opened(file) == [f \in DOMAIN content \cup {file} |->
                    IF f = file THEN Blank ELSE content[f]]

OpenTmp(p) ==
    /\ step[p] = "open_tmp"
    /\ LET file == IF tmp = None THEN Me(p) ELSE tmp
           others == {q \in Processes \ {p} : Filling(q) /\ writes[q] = file}
       IN  /\ tmp' = file
           /\ content' = Opened(file)
           /\ writes' = [writes EXCEPT ![p] = file]
           /\ shared' = IF \E q \in others : key[q] # key[p] THEN shared \cup {file}
                                                          ELSE shared \ {file}
    /\ GoTo(p, "fingerprint")
    /\ UNCHANGED <<claims, cache, tokens>>

\* The dump, in two blocks, each at the place this process has reached in its file.
Dump(p) ==
    /\ \/ /\ step[p] = "fingerprint"
          /\ content' = [content EXCEPT ![writes[p]].fingerprint = key[p]]
          /\ GoTo(p, "tokens")
       \/ /\ step[p] = "tokens"
          /\ content' = [content EXCEPT ![writes[p]].tokens = tokens[p]]
          /\ GoTo(p, "replace")
    /\ UNCHANGED <<claims, cache, tmp, writes, tokens, shared>>

\* Moves whatever the temporary name stands for by now; if it is gone the error is
\* logged and the index is built all the same.
Replace(p) == /\ step[p] = "replace"
              /\ IF tmp # None THEN cache' = tmp ELSE UNCHANGED cache
              /\ tmp' = None
              /\ GoTo(p, "idle")
              /\ UNCHANGED <<claims, content, writes, tokens, shared>>

\* An OSError while the cache is written: the temporary file is removed, whoever else
\* is writing it.
SaveFails(p) == /\ step[p] \in Writing \cup {"open_tmp"}
                /\ tmp' = None
                /\ GoTo(p, "idle")
                /\ UNCHANGED <<claims, cache, content, writes, tokens, shared>>

-----------------------------------------------------------------------------

\* The process is killed, or a step fails and the exception ends it.
Die(p) == /\ step[p] # "idle"
          /\ GoTo(p, "idle")
          /\ tokens' = [tokens EXCEPT ![p] = None]
          /\ UNCHANGED <<claims, saved>>

Start(p) == StartRun(p) \/ StartExport(p) \/ StartIndex(p)

Proceed(p) == \/ Mkdir(p) \/ Subfolders(p) \/ Open(p) \/ WriteRows(p)
              \/ Load(p) \/ OpenTmp(p) \/ Dump(p) \/ Replace(p)

Next == \E p \in Processes : Start(p) \/ Proceed(p) \/ SaveFails(p) \/ Die(p)

Spec == Init /\ [][Next]_vars

-----------------------------------------------------------------------------
(* Properties. *)

Steps == {"idle", "mkdir", "subfolders", "open", "rows", "load", "open_tmp"} \cup Writing

Busy == {"mkdir", "subfolders", "open", "rows"}

\* What a process still fills is there and its own, and what it writes is a file that
\* exists.
FitsItsStep(p) ==
    /\ step[p] # "idle" => turn[p] > 0
    /\ step[p] \in Busy => <<key[p], number[p]>> \in Names
    /\ step[p] \in {"subfolders", "rows"} =>
          /\ <<key[p], number[p]>> \in DOMAIN made
          /\ made[<<key[p], number[p]>>].by = Me(p)
          /\ made[<<key[p], number[p]>>].parts < 2
    /\ step[p] \in Writing \cup {"load", "open_tmp"} => key[p] \in Corpora
    /\ step[p] \in Writing => writes[p] \in DOMAIN content

\* The types, and what goes with the step a process is at.
TypeOK == /\ step \in [Processes -> Steps]
          /\ turn \in [Processes -> 0..MaxInvocations]
          /\ key \in [Processes -> Stamps \cup {RunName} \cup Corpora \cup {None}]
          /\ number \in [Processes -> Nat]
          /\ DOMAIN made \subseteq Names
          /\ made \in [DOMAIN made -> [by : Ids, parts : 0..2]]
          /\ DOMAIN content \subseteq Ids
          /\ content \in [DOMAIN content -> [fingerprint : Corpora \cup {None},
                                             tokens : Corpora \cup {None}]]
          /\ {cache, tmp} \subseteq DOMAIN content \cup {None}
          /\ writes \in [Processes -> Ids \cup {None}]
          /\ tokens \in [Processes -> Corpora \cup {None}]
          /\ shared \subseteq DOMAIN content
          /\ \A p \in Processes : FitsItsStep(p)

Abstract == INSTANCE Claims WITH owner <- [n \in DOMAIN made |-> made[n].by]

\* Folders and exports are claims: no two invocations ever get the same one, whatever
\* they read before they created it, and no claim is ever taken over after a kill.
ImplementsClaims == Abstract!Spec

\* The numbers of a run name or of one second are taken in order: the newest export
\* has the highest version, whoever was killed or faster in between.
NoGaps == \A n \in DOMAIN made : n[2] > 1 => <<n[1], n[2] - 1>> \in DOMAIN made

\* The tokens a process gets are those of the chunks it ranks, whatever other corpora,
\* kills, failed writes and renamed files of others left behind.  The code does not
\* exclude one thing: two processes that fill the same temporary file from different
\* corpora leave a cache of both, until the file is written anew.
TokensMatchChunks ==
    [][\A p \in Processes : tokens'[p] \notin {None, tokens[p]} =>
           tokens'[p] = key[p] \/ cache \in shared]_vars

-----------------------------------------------------------------------------
(* What the proofs need. *)

\* Only an invocation that was begun owns anything.
OwnersBegan == \A n \in DOMAIN made : made[n].by[2] <= turn[made[n].by[1]]

\* Who still looks for a name has none yet, and has seen that the number before the
\* one it tries is taken.
SeekersOwnNothing ==
    \A p \in Processes : step[p] \in {"mkdir", "open"} =>
        /\ \A n \in DOMAIN made : made[n].by # Me(p)
        /\ number[p] = 1 \/ <<key[p], number[p] - 1>> \in DOMAIN made

\* The numbers given out under a base are those up to some k.
NumberedUpTo == \A base \in Stamps \cup {RunName} : \E k \in Nat : Numbers(base) = 1..k

\* Who writes the cache writes what it tokenised, and all who fill a file that is not
\* shared have one corpus, of which all that is in the file is.
WrittenForOne ==
    /\ \A p \in Processes : step[p] \in Writing \cup {"open_tmp"} => tokens[p] = key[p]
    /\ \A f \in DOMAIN content \ shared : ~Mixed(content[f])
    /\ \A p \in Processes : Filling(p) /\ writes[p] \notin shared =>
          /\ content[writes[p]].fingerprint \in {None, key[p]}
          /\ content[writes[p]].tokens \in {None, key[p]}
          /\ \A q \in Processes : Filling(q) /\ writes[q] = writes[p] => key[q] = key[p]

IInv == /\ TypeOK
        /\ OwnersBegan
        /\ SeekersOwnNothing
        /\ NumberedUpTo
        /\ WrittenForOne
=============================================================================
