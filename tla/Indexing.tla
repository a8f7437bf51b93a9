------------------------------ MODULE Indexing ------------------------------
(***************************************************************************)
(* The incremental index: runs of BasicRAGPipeline.load ... index over a    *)
(* corpus that people keep editing.  A run fingerprints the corpus against  *)
(* document_manifest.json, reads the files it has to, opens the Qdrant      *)
(* collection, deletes the points of changed and deleted documents, upserts *)
(* chunks batch by batch and replaces the manifest.  The manifest and the   *)
(* collection are two stores with no transaction over both, and a run can   *)
(* die between any two steps.                                               *)
(***************************************************************************)
EXTENDS Integers, FiniteSets, SequencesExt

CONSTANTS
    NumFiles,   \* the files of data/files/, which the manifest tracks
    NumFixtures,\* the text files of data/sample and data/raw, which it does not
    Starts,     \* for each version of a file's text, the offsets of its chunks
    BatchSize,  \* qdrant_batch_size
    Modes,      \* the configurations a run may have
    Mishaps,    \* what may go wrong
    MaxRuns,    \* bound on the runs
    MaxEdits    \* bound on the edits of files

Corpus == 1..NumFiles
Fixtures == (NumFiles + 1)..(NumFiles + NumFixtures)
Files == Corpus \cup Fixtures
Versions == DOMAIN Starts
Absent == 0    \* no such file; also what is read of a file that yields nothing

ASSUME IndexingAssumption ==
    /\ NumFiles \in Nat \ {0}
    /\ NumFixtures \in Nat
    /\ BatchSize \in Nat \ {0}
    /\ Starts \in Seq(Seq(Nat)) \ {<<>>}
    /\ Modes \subseteq {"incremental", "force", "reset", "full"}
    /\ Mishaps \subseteq {"crash", "revert", "race", "skip"}
    /\ MaxRuns \in Nat
    /\ MaxEdits \in Nat

VARIABLES
    corpus,    \* file -> version, Absent when there is no such file
    newest,    \* file -> newest version it ever had
    manifest,  \* document_manifest.json: exists, and file -> hash and chunk count
    store,     \* qdrant_dir: absent, without the collection, or with it
    points,    \* the points of the collection
    pc,        \* where the run is
    mode,      \* its configuration
    plan,      \* its IndexingPlan: the scan, the manifest read, force_rebuild
    read,      \* file -> the version whose text was loaded and chunked
    doomed,    \* the documents whose points are still to be deleted
    queue,     \* the chunks still to be upserted
    runs, edits,
    past       \* history: the mishaps and modes that later claims depend on

disk == <<manifest, store, points>>
memory == <<mode, plan, read, doomed, queue>>
vars == <<corpus, newest, disk, pc, memory, runs, edits, past>>

-----------------------------------------------------------------------------
(* Chunks and points. *)

Chunk == [file : Files, index : Nat, start : Nat, version : Versions]

\* chunk_documents: the chunks of one version of a file, in order.
ChunkSeq(f, v) ==
    IF v = Absent THEN <<>>
    ELSE [i \in DOMAIN Starts[v] |->
            [file |-> f, index |-> i, start |-> Starts[v][i], version |-> v]]
Chunks(f, v) == ToSet(ChunkSeq(f, v))

\* _stable_point_id: the place of a chunk in its file, not its text.
PointId(c) == <<c.file, c.index, c.start>>

PointsOf(f) == {p \in points : p.file = f}

\* Mutant of Upserted: an upsert that inserts without replacing.
UpsertedTwice(old, batch) == old \cup batch

\* client.upsert: a point with the same id is replaced.
Upserted(old, batch) ==
    {p \in old : \A c \in batch : PointId(c) # PointId(p)} \cup batch

-----------------------------------------------------------------------------
(* The manifest and the plan. *)

Entry == [hash : Versions \cup {Absent}, count : Nat]
NoEntry == [hash |-> Absent, count |-> 0]
NoManifest == [exists |-> FALSE, docs |-> [f \in Corpus |-> NoEntry]]

Tracked(docs) == {f \in Corpus : docs[f] # NoEntry}
Scanned == {f \in Corpus : plan.scan[f] # Absent}

\* create_indexing_plan processes every file in a rebuild and in a full run.
Selective == mode # "full" /\ ~plan.rebuild
Unchanged == IF Selective
             THEN {f \in Scanned : plan.scan[f] = plan.previous[f].hash} ELSE {}
Changed == IF Selective
           THEN (Scanned \cap Tracked(plan.previous)) \ Unchanged ELSE {}
Deleted == IF Selective THEN Tracked(plan.previous) \ Scanned
           ELSE Tracked(plan.previous)
ToProcess == Scanned \ Unchanged

ChunksReused == FoldSet(LAMBDA f, n : plan.previous[f].count + n, 0, Unchanged)

NoPlan == [scan |-> [f \in Corpus |-> Absent], rebuild |-> FALSE,
           previous |-> NoManifest.docs]
NothingRead == [f \in Files |-> Absent]

\* The corpus starts with any of its files, the fixtures are all there.
Init == /\ corpus \in [Files -> {Absent, 1}]
        /\ \A f \in Fixtures : corpus[f] = 1
        /\ newest = corpus
        /\ manifest = NoManifest
        /\ store = "absent"
        /\ points = {}
        /\ pc = "down"
        /\ mode = "incremental"
        /\ plan = NoPlan
        /\ read = NothingRead
        /\ doomed = {}
        /\ queue = <<>>
        /\ runs = 0
        /\ edits = 0
        /\ past = {}

-----------------------------------------------------------------------------
(* The people who edit the corpus. *)

\* A file gets another text, appears or goes away.  It gets an old text back
\* only if reverts may happen, and only a race edits it between scan and load.
Edit(f, v) ==
    /\ edits < MaxEdits
    /\ v # corpus[f]
    /\ LET reverts == v \in 1..newest[f]
           races == pc = "read"
       IN  /\ reverts => "revert" \in Mishaps
           /\ races => "race" \in Mishaps
           /\ past' = past \cup {m \in {"revert", "race"} :
                                    \/ m = "revert" /\ reverts
                                    \/ m = "race" /\ races}
    /\ corpus' = [corpus EXCEPT ![f] = v]
    /\ newest' = [newest EXCEPT ![f] = IF v > @ THEN v ELSE @]
    /\ edits' = edits + 1
    /\ UNCHANGED <<disk, pc, memory, runs>>

-----------------------------------------------------------------------------
(* One run. *)

Forget == /\ mode' = "incremental"
          /\ plan' = NoPlan
          /\ read' = NothingRead
          /\ doomed' = {}
          /\ queue' = <<>>

\* load(): text fixtures are read first, then the corpus is fingerprinted and
\* compared with the manifest.  A manifest without its embedded store, like
\* force_rebuild_index and reset_vectorstore, makes every file new.
Scan(m) ==
    /\ pc = "down"
    /\ runs < MaxRuns
    /\ runs' = runs + 1
    /\ mode' = m
    /\ plan' = [scan |-> [f \in Corpus |-> corpus[f]],
                rebuild |-> m \in {"force", "reset"}
                              \/ (manifest.exists /\ store = "absent"),
                previous |-> manifest.docs]
    /\ read' = [f \in Files |-> IF f \in Fixtures THEN corpus[f] ELSE Absent]
    /\ past' = past \cup ({m} \cap {"full"})
    /\ pc' = "read"
    /\ UNCHANGED <<corpus, newest, disk, doomed, queue, edits>>

\* Fixtures first, then the files in the order of their names.
Nth(i) == IF i <= NumFixtures THEN NumFiles + i ELSE i - NumFixtures

\* The documents of a run, each file's chunks in order.
AllChunks(texts) ==
    FlattenSeq([i \in 1..(NumFixtures + NumFiles) |-> ChunkSeq(Nth(i), texts[Nth(i)])])

\* load_pdf_paths and chunk(): a selective run loads the files to process, any
\* other whatever the corpus holds by now.  A file whose OCR or extraction fails is
\* skipped with a warning and yields no document, and so does one without text.  A
\* text file that has gone or a PDF no reader can open raises, which is a Crash.
Load(skipped) ==
    /\ pc = "read"
    /\ skipped # {} => "skip" \in Mishaps
    /\ LET wanted == IF Selective THEN ToProcess ELSE Corpus
           texts == [f \in Files |-> IF f \in wanted \ skipped THEN corpus[f] ELSE read[f]]
       IN  /\ skipped \subseteq wanted
           /\ read' = texts
           /\ queue' = AllChunks(texts)
           /\ pc' = IF queue' = <<>> /\ Unchanged \cup Deleted = {} /\ ~plan.rebuild
                    THEN "failed" ELSE "open"
    /\ past' = past \cup (IF skipped = {} THEN {} ELSE {"skip"})
    /\ UNCHANGED <<corpus, newest, disk, mode, plan, doomed, runs, edits>>

\* reset_qdrant_storage, the first thing index() does if so configured.
Reset == /\ pc = "open"
         /\ mode = "reset"
         /\ store # "absent"
         /\ store' = "absent"
         /\ points' = {}
         /\ UNCHANGED <<corpus, newest, manifest, pc, memory, runs, edits, past>>

\* Mutant of Drop: a forced run keeps the collection it finds.
DropNever == UNCHANGED points

\* A forced run recreates the collection.
Drop == points' = IF mode = "force" THEN {} ELSE points

\* The client is created, and its directory with it.  Unchanged documents need
\* their points: without a collection, or with an empty one, the run stops.
Open == /\ pc = "open"
        /\ mode = "reset" => store = "absent"
        /\ store' = IF mode = "force" \/ store = "absent" THEN "empty" ELSE store
        /\ IF Unchanged # {} /\ points = {}
           THEN /\ pc' = "failed"
                /\ UNCHANGED points
           ELSE /\ pc' = "create"
                /\ Drop
        /\ UNCHANGED <<corpus, newest, manifest, memory, runs, edits, past>>

\* Mutant of ToDelete: deleted documents are left to a later rebuild.
ToDeleteChanged == IF mode \in {"incremental", "reset"} THEN Changed ELSE {}

\* The old documents whose points an incremental run removes.
ToDelete == IF mode \in {"incremental", "reset"} THEN Changed \cup Deleted ELSE {}

\* The collection is created where it is missing, and must hold at least as
\* many points as the manifest counts for the unchanged documents.
Create == /\ pc = "create"
          /\ store' = "collection"
          /\ IF Cardinality(points) < ChunksReused
             THEN /\ pc' = "failed"
                  /\ UNCHANGED doomed
             ELSE /\ pc' = "update"
                  /\ doomed' = ToDelete
          /\ UNCHANGED <<corpus, newest, manifest, points, mode, plan, read,
                         queue, runs, edits, past>>

\* Mutant of Delete: only the points the manifest counts are removed.
DeleteCounted ==
    /\ pc = "update"
    /\ \E f \in doomed :
        /\ doomed' = doomed \ {f}
        /\ points' = {p \in points : p.file = f => p.index > plan.previous[f].count}
    /\ UNCHANGED <<corpus, newest, manifest, store, pc, mode, plan, read, queue,
                   runs, edits, past>>

\* delete_document_chunks: the points of one document, found by its identity.
Delete == /\ pc = "update"
          /\ \E f \in doomed : /\ doomed' = doomed \ {f}
                               /\ points' = points \ PointsOf(f)
          /\ UNCHANGED <<corpus, newest, manifest, store, pc, mode, plan, read,
                         queue, runs, edits, past>>

\* One batch of index_chunks, once the deletions are done.
Upsert ==
    /\ pc = "update"
    /\ doomed = {}
    /\ queue # <<>>
    /\ LET n == IF Len(queue) < BatchSize THEN Len(queue) ELSE BatchSize
       IN  /\ points' = Upserted(points, ToSet(SubSeq(queue, 1, n)))
           /\ queue' = SubSeq(queue, n + 1, Len(queue))
    /\ UNCHANGED <<corpus, newest, manifest, store, pc, mode, plan, read, doomed,
                   runs, edits, past>>

\* write_manifest's entries: the unchanged ones as they were, the processed
\* ones with the hash of the scan and the number of chunks of the load.
NewEntries ==
    [f \in Corpus |->
        CASE f \in Unchanged -> plan.previous[f]
          [] f \in ToProcess -> [hash |-> plan.scan[f],
                                 count |-> Cardinality(Chunks(f, read[f]))]
          [] OTHER -> NoEntry]

\* Mutant of Commit: the manifest is written before the upserts.
CommitFirst ==
    /\ pc = "update"
    /\ doomed = {}
    /\ manifest' = IF mode = "full" THEN manifest
                   ELSE [exists |-> TRUE, docs |-> NewEntries]
    /\ pc' = IF queue = <<>> THEN "ready" ELSE pc
    /\ UNCHANGED <<corpus, newest, store, points, memory, runs, edits, past>>

\* write_manifest replaces the file at once, in any mode but full; the run
\* then serves retrieval.
Commit == /\ pc = "update"
          /\ doomed = {}
          /\ queue = <<>>
          /\ manifest' = IF mode = "full" THEN manifest
                         ELSE [exists |-> TRUE, docs |-> NewEntries]
          /\ pc' = "ready"
          /\ UNCHANGED <<corpus, newest, store, points, memory, runs, edits, past>>

\* The process ends: after serving, or with the error index() or load() raised.
Exit == /\ pc \in {"ready", "failed"}
        /\ pc' = "down"
        /\ Forget
        /\ UNCHANGED <<corpus, newest, disk, runs, edits, past>>

\* It is killed, or Qdrant or the model raises, anywhere before that.
Crash == /\ "crash" \in Mishaps
         /\ pc \in {"read", "open", "create", "update"}
         /\ pc' = "down"
         /\ past' = past \cup {"crash"}
                         \cup (IF plan.rebuild THEN {"rebuild cut"} ELSE {})
         /\ Forget
         /\ UNCHANGED <<corpus, newest, disk, runs, edits>>

Next == \/ \E f \in Files, v \in Versions \cup {Absent} : Edit(f, v)
        \/ \E m \in Modes : Scan(m)
        \/ \E skipped \in SUBSET Corpus : Load(skipped)
        \/ Reset
        \/ Open
        \/ Create
        \/ Delete
        \/ Upsert
        \/ Commit
        \/ Exit
        \/ Crash

Spec == Init /\ [][Next]_vars

-----------------------------------------------------------------------------
(* Properties. *)

\* The types, and one point per id: an upsert never leaves two points for the
\* same place of the same file.
TypeOK ==
    /\ corpus \in [Files -> Versions \cup {Absent}]
    /\ manifest.exists \in BOOLEAN
    /\ manifest.docs \in [Corpus -> Entry]
    /\ store \in {"absent", "empty", "collection"}
    /\ points \subseteq Chunk
    /\ \A p, q \in points : PointId(p) = PointId(q) => p = q
    /\ pc \in {"down", "read", "open", "create", "update", "ready", "failed"}
    /\ mode \in {"incremental", "force", "reset", "full"}
    /\ read \in [Files -> Versions \cup {Absent}]
    /\ doomed \subseteq Corpus
    /\ ToSet(queue) \subseteq Chunk

Ready == pc = "ready"

\* If nothing ever went wrong, an index that is served holds, for every file
\* of the corpus, exactly the chunks of the text that was fingerprinted: the
\* incremental updates of any number of runs add up to one full indexing.
IncrementalIsFull ==
    Ready /\ past = {} =>
        \A f \in Corpus : PointsOf(f) = Chunks(f, plan.scan[f])

\* Whatever crashes came before, a served index lacks no chunk of a scanned
\* file: the manifest never vouches for points an interrupted run did not
\* write.  Not claimed after an interrupted rebuild, or when a text came back,
\* changed under the load or could not be extracted.
NothingLost ==
    Ready /\ past \subseteq {"crash", "full"} =>
        \A f \in Corpus : Chunks(f, plan.scan[f]) \subseteq points

\* A document a run finds changed or deleted is replaced exactly, whatever
\* earlier runs left of it: no chunk of an older text is served.
ReplacedExactly ==
    Ready => \A f \in Changed \cup (Deleted \ Scanned) :
                mode = "incremental" => PointsOf(f) = Chunks(f, read[f])

\* A rebuild restores the index after any history: it serves exactly the
\* chunks of what it read, as the error messages of index() promise.
RebuildRestores ==
    Ready /\ plan.rebuild => points = UNION {Chunks(f, read[f]) : f \in Files}

\* README.md: the pipeline stops instead of silently creating an incomplete
\* index.  A document counted as unchanged is served completely.
NeverSilentlyIncomplete ==
    Ready => \A f \in Unchanged : Chunks(f, plan.scan[f]) \subseteq points

\* PROJECT_REQUIREMENTS.md: remove deleted points.  An incremental run serves
\* nothing of a file that is no longer in the corpus.
DeletedPointsRemoved ==
    Ready /\ mode = "incremental" =>
        \A f \in Corpus \ Scanned : PointsOf(f) = {}

-----------------------------------------------------------------------------
(* The inductive invariant behind the first five, in named parts. *)

\* All a run loaded.
Texts == UNION {Chunks(f, read[f]) : f \in Files}

Began == {"read", "open", "create", "update"}

\* The rest of the types.
PlanTyped ==
    /\ newest \in [Files -> Nat]
    /\ plan.scan \in [Corpus -> Versions \cup {Absent}]
    /\ plan.rebuild \in BOOLEAN
    /\ plan.previous \in [Corpus -> Entry]
    /\ queue \in Seq(Chunk)

\* What a run has planned holds on.
PlanHolds ==
    /\ pc \in Began => plan.previous = manifest.docs
    /\ pc # "down" /\ mode \in {"force", "reset"} => plan.rebuild
    /\ pc # "down" /\ mode = "full" => "full" \in past
    /\ pc \notin {"down", "failed"} => doomed \subseteq ToDelete
    /\ doomed # {} => pc = "update"
    /\ pc \in {"update", "ready"} => store = "collection"

\* No scan and no manifest knows a version the corpus never had, and an entry has a
\* version.
HashesAreOld ==
    \A f \in Corpus :
        /\ corpus[f] <= newest[f]
        /\ plan.scan[f] <= newest[f]
        /\ manifest.docs[f].hash <= newest[f]
        /\ manifest.docs[f].hash = Absent => manifest.docs[f] = NoEntry
        /\ plan.previous[f].hash = Absent => plan.previous[f] = NoEntry

\* What is loaded is what is still to be written and what is written, and a document
\* is cleared before anything is.
Covered ==
    /\ pc \in {"open", "create"} => ToSet(queue) = Texts
    /\ pc = "update" => /\ ToSet(queue) \subseteq Texts
                        /\ Texts \subseteq points \cup ToSet(queue)
                        /\ doomed # {} => ToSet(queue) = Texts
    /\ pc = "ready" => Texts \subseteq points

\* The texts are those of the scan, unless a race or a failed extraction is in the way.
ReadsScan ==
    /\ pc = "read" => \A f \in Corpus : read[f] = Absent
    /\ pc \in {"open", "create", "update", "ready"} => \A f \in Unchanged : read[f] = Absent
    /\ past \cap {"race", "skip"} = {} =>
        /\ pc = "read" => \A f \in Corpus : corpus[f] = plan.scan[f]
        /\ pc \in {"open", "create", "update", "ready"} =>
                \A f \in Corpus \ Unchanged : read[f] = plan.scan[f]

\* A rebuild starts from nothing, and does not fail on its own.
RebuildClears ==
    /\ store # "collection" => points = {}
    /\ plan.rebuild =>
        /\ pc # "failed"
        /\ pc \in {"read", "open"} => mode \in {"force", "reset"} \/ points = {}
        /\ pc = "create" \/ doomed # {} => points = {}
        /\ pc \in {"update", "ready"} => points \subseteq Texts

\* A replaced document is still to be cleared, or holds nothing but its new text.
Replaced ==
    pc \in {"update", "ready"} => \A f \in ToDelete \ doomed : PointsOf(f) \subseteq Texts

\* A manifest entry vouches for the points of the text the file has now.  During a run
\* it does so for the files that are unchanged; a rebuild leaves it without cover.
Vouched ==
    past \subseteq {"crash", "full"} =>
        /\ ~(pc \in Began /\ plan.rebuild) =>
                \A f \in Corpus : corpus[f] = manifest.docs[f].hash
                                    => Chunks(f, corpus[f]) \subseteq points
        /\ pc \in Began => \A f \in Corpus :
                plan.scan[f] # manifest.docs[f].hash /\ corpus[f] = manifest.docs[f].hash
                    => corpus[f] = Absent
        /\ pc \in Began \cup {"ready"} =>
                \A f \in Unchanged : Chunks(f, plan.scan[f]) \subseteq points

\* If nothing ever went wrong, no other points are there.
NothingElse ==
    past = {} => \A f \in Corpus :
        /\ pc \in {"down", "failed"} \/ (pc \in Began \ {"update"} /\ ~plan.rebuild)
                => PointsOf(f) \subseteq Chunks(f, manifest.docs[f].hash)
        /\ pc \in {"update", "ready"} =>
                f \in doomed \/ PointsOf(f) \subseteq Chunks(f, plan.scan[f])
        /\ pc = "ready" => manifest.docs[f].hash = plan.scan[f]

IInv == /\ TypeOK /\ PlanTyped /\ PlanHolds /\ HashesAreOld
        /\ Covered /\ ReadsScan /\ RebuildClears /\ Replaced /\ Vouched /\ NothingElse
=============================================================================
