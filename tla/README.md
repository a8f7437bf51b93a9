# CIAL Knowledge OS in TLA+

Models, model-checking runs and machine-checked proofs for the offline
retrieval-augmented question answering system of this repository. Paths of the
package `src/cial_knowledge_os/` are given without that prefix.

## 1. The system

| Component | State it keeps | Operations | Talks to |
|---|---|---|---|
| Run folder (`phase4_checkpoint.py`) | `partial_results.jsonl`, `partial_retrieval.jsonl`, `partial_results.csv`, `checkpoint.json`; in memory the checkpoint and the latest record of every question | initialize (new, resume), record, finalize, pending, completed_records, mark_run_interrupted | batch scripts, file system |
| Batch scripts (`phase4_runner.py`, `phase3_runner.py`, `batch_qa.py`, `scripts/run_phase*_batch.py`) | pending questions, pairs of row and response, the exported bundle | run, resume, answer one question, export, patch the bundle, interrupt | run folder, question pipeline, execution manager |
| Live bus and dashboard (`live/`, `scripts/run_phase5_batch.py`) | sequence number, bounded history, subscribers; dashboard state; one queue a browser | publish, subscribe, stream, apply, telemetry | Phase 5 pipeline (publishes), batch adapter (publishes from a callback), browsers |
| Indexing (`rag_pipeline.py`, `incremental_index.py`, `vectorstore.py`, `chunking.py`, `loaders.py`) | document manifest, Qdrant collection | scan, plan, load, chunk, delete, upsert, commit, rebuild, reset | corpus files, Qdrant |
| Question pipeline, Phase 4 (`phase4_pipeline.py`) | metrics and trace of one question | retrieve, select, generate with retries, settle the status | retrievers, model |
| Question pipeline, Phase 5 (`orchestration/`, `agents/`) | `AgentState` of one question | nine agents, one revision, finalize | Phase 4, model router, live bus |
| Execution manager (`execution/`) | lifecycle, progress, event handlers | start and finish a stage or question, emit, render | batch scripts, live bus |
| Retrieval (`retrievers.py`, `fusion.py`, `query_transformations.py`) | BM25 index and its token cache | search, fuse, merge variants | Qdrant, Phase 4 |
| Context (`reranker.py`, `evidence_selector.py`, `context_builder.py`, `token_budget.py`) | none | rerank, select, merge overlaps, fit the budget | Phase 4 |
| Run manager, exports (`run_manager.py`, `batch_qa.py`) | run directories, versioned files | choose and create the next name | file system |
| Loaders and OCR, infrastructure checks, reports, evaluation, configuration, maintenance scripts | none that outlives a call | | |

What is hard about them, and what makes each one correct:

* **Run folder and batch.** A batch runs for hours, is interrupted, killed and
  resumed. Four files are written one after the other for every question, two of
  them by appending. Correct means: what the checkpoint counts as completed can
  be rebuilt from the other files, is never asked again, and the final bundle has
  every question once, in order, with its own data.
* **Live bus.** Two threads publish, delivery happens outside the lock, one
  subscriber publishes from inside its callback, and a stream combines a copy of
  the history with a queue. Correct means: in order, no duplicates, no gaps, and a
  dashboard that shows the run the pipeline is in.
* **Indexing.** The manifest and the collection are two stores updated without a
  transaction, under four modes, while people edit the corpus. Correct means: any
  sequence of incremental runs serves what one full indexing would.
* **Phase 5.** Reviews of two drafts live in one state, retries multiply, three
  rules compete for the answer status, and the dashboard is driven from the
  middle of it. Correct means: the delivered answer is the one that was judged, no
  objection to it was passed over, what the browser displays is of the question under
  way, and a question without evidence is never answered.
* **Execution framework.** The runner reports through a bus of its own whose handlers
  may raise; the last of them publishes on the live bus, which resets the board and
  calls back. Correct means: the board shows the batch as it is between any two
  steps, and no handler costs a question.
* **Shared project files.** Several processes create run folders, export versions and
  rewrite one token cache, without a lock. Correct means: nobody's files are
  replaced, and an index is built from the tokens of its own chunks.
* **Evidence selection.** Floor, ceiling, budget, target, diversity and redundancy
  pull against each other, over three loops of which each judges a candidate
  against what is selected so far. Correct means: a pool that is not empty yields
  evidence, only the floor may cost more than the target, and no candidate is lost
  for a reason that no longer holds. The context then holds every selected chunk
  once and stays in its budget.

`PROJECT.json` lists every component with what is modelled of it, and every
hazard at its line with the properties about it, or why there is none.

## 2. Modules

| Module | Models | State and actions |
|---|---|---|
| `CheckpointFile` | the JSONL files | a file is a sequence of lines and whether the last one is unterminated; `Appended` and `Torn` are what a complete and an interrupted append leave, `Readable` and `Latest` what `_load_latest` makes of a file |
| `BatchRun` (extends it) | one run folder and its invocations | `disk` is what survives an invocation, `memory` what `Forget` erases; `pc` is the place between two writes. `Answer`, `AppendRow`, `AppendResponse`, `WriteCsv`, `SaveCheckpoint` are one question; `Export`, `Finalize`, `Patch` the bundle; `Stop`, `StopInAppend`, `MarkInterrupted` the failures |
| `BatchLedger` | what a run folder promises | done, failed and status of the batch; `BatchRun` implements it with the checkpoint as refinement mapping |
| `LiveBus` | bus, dashboard state, telemetry, browsers; no publisher but the telemetry | `stack` holds, for each thread, the `publish` calls it is in and the subscribers each still has to call, so that nested and concurrent publishes interleave as in the code. `Number` is the locked part of `publish`, `Call` one delivery, `Applied` the dashboard state; `Connect`, `ReadHistory`, `Replay`, `Follow`, `Disconnect` are one browser |
| `LiveBatch` (extends it) | what a batch publishes, question by question | `script` is what is left to publish of a question; `NextQuestion`, `Report`, `Stop` |
| `Execution` (extends `LiveBus`) | batch runner, `ExecutionManager`, its bus and handlers, the live adapter | `stage` is the runner's place, `emission` the event whose handlers are being called, `outbox` the live events that follow, `progress` the tracker. Implements `LiveBatch`: `Remaining` maps its state to a script |
| `Indexing`, `MCIndexing` | the indexing pipeline and the corpus | one action for each step of `load`, `chunk` and `index` that a crash can separate from the next; `past` remembers the mishaps so that a property can say under which it is claimed |
| `Phase5Answer` | one question through Phase 4 and Phase 5 | `Ask`, `Retrieve`, `Generate`, `Settle`; `Start`, `Retry`, `Garble`, `Finish`, `FailAgent` for whichever agent has its turn; `Revise`, `Finalize`, `FinishFinalizer`, `Complete`; the boxes, the progress and the texts of the dashboard, of which `Panel` is what the browser displays |
| `EvidenceSelection` | the choice of evidence among the reranked candidates | one step for each candidate a loop of `EvidenceSelector.select` looks at: `Pass` the first loop, `Fill` the other two, `Turn` the end of a loop |
| `AnswerContext` (extends it) | from the selection to the context | `Merge` sorts by fusion score and joins chunks to sections, `Fit` puts the next section into the token budget or cuts or omits it |
| `ProjectFiles` | run folders, versioned exports, BM25 token cache, by several processes | `step` is the place of each process, `made` who created which name, `content` every cache file there ever was; `Mkdir`, `Open` claim a name, `Load`, `OpenTmp`, `Dump`, `Replace` use the cache, `shared` are the files filled from two corpora at the same time; `SaveFails` and `Die` are the failures |
| `Claims` | what names promise | who owns a name: an invocation takes a free one, keeps it and takes no second one. `ProjectFiles` implements it |
| `BatchRunProofs`, `IndexingProofs`, `AnswerContextProofs`, `ProjectFilesProofs`, `Phase5AnswerProofs`, `LiveBusProofs`, `LiveBatchProofs`, `ExecutionProofs` | theorems | see section 4 |

Definitions next to a comment "Mutant of ..." are plausible mistakes in the
definition named; no specification uses them. Each shows that the property listed
with it in `PROJECT.json` would notice.

### Abstractions

* A JSON record is its question, the invocation that wrote it and one value; text
  appears only as the place where it holds a character that `splitlines()` takes
  for a line end (`Payloads`). A line that was cut short is one that does not parse: a
  cut inside a multibyte character, after which `read_text` raises
  (`phase4_checkpoint.py:313`), is not told apart from others. A resume always uses the same options and questions:
  `initialize` refuses any other before it touches a file.
* Saving `checkpoint.json`, the CSV and the manifest is atomic: the code writes a
  temporary file and replaces, and one process owns a run folder. `Export` and
  `Patch` are one step each, since nothing but the next `Export` reads what they
  write, and that rewrites it.
* A live event is its number, its kind and what it says of the batch (question and
  completed count). `Execution` leaves out the execution events the adapter ignores,
  the context it publishes about the health of Qdrant, the `telemetry_update` that
  is emitted from inside an emit, and what the observers write; an observer either
  returns or raises, and the bus catches both. A keyboard interrupt reaches the
  runner between two emissions, not inside a handler. A question is numbered from 1
  and not blank: `load_questions` drops blank lines.
* A text version is the sequence of its chunks' start offsets (`Starts`); different
  versions differ in text everywhere, so that a stale point always shows. Removing the
  directory of the embedded collection is one step, and the mode that does so writes the
  manifest: resetting with incremental indexing switched off, which does not
  (`rag_pipeline.py:440`), is not among the modes. A text file that vanishes before it is
  loaded and a PDF no reader can open raise (`loaders.py:140`, `404-411`), which is
  a `Crash`.
* An answer is which draft it is; a review is which draft it is about and its
  verdict. What retrieval found is chosen freely among the records of `Evidence`.
* A candidate of the evidence selection is its rank; its score is whether it reaches
  the threshold, and its text is its token count, its document and the candidates
  it is similar to, all chosen freely. The last loop of `select`, which labels the
  discarded candidates, changes nothing a later step reads and is left out.
* Token counts of `AnswerContext` add up, up to `Slack` tokens where a text is cut
  (`Cut`), and a section has the tokens of its chunks, although joining removes text that
  two of them share (`context_builder.py:54-61`). A document has a chunk at a place
  once, and every chunk has a place: those without `chunk_index` are sections of their
  own (`168-169`) and left out. Neighbour expansion is off, as in
  Phase 3 and 4, and the character budget of Phase 2 is left out.
* A cache file is a fingerprint and tokens, or the part of it that was written; a
  file that was cut short does not parse. Opening the temporary file empties it for
  all who have it open, and each goes on at the place it has reached. What becomes of a
  file two processes fill from two corpora depends on the lengths of their tokens: a
  file with the fingerprint of one and the tokens of the other may load or fail
  (`Load`). `StartIndex` leaves out the reuse of an index inside a process
  (`retrievers.py:198-200`) and the empty corpus (`183-196`), which read no file.
* A keyboard interrupt while a question is answered does not lose its row: the
  `finally` block of `collect_batch_answers` still records it. In `BatchRun` this is
  `Answer`, the recording steps, and then `Stop`.

## 3. Runs

| Run | Bounds | Shows |
|---|---|---|
| `BatchRun` | 2 questions, 3 invocations, torn writes | types; completed questions can be rebuilt, are never asked again, and are in the CSV; the bundle matches the checkpoint; refinement of `BatchLedger`; every invocation ends unless the model never answers |
| `LiveBatch` | 1 question in either mode, 1 tick, history of 2, 1 connection | a stream is in order, loses only overtaken events, and catches up |
| `Execution` | 2 questions in either mode, 2 ticks, history of 2, no connection | the board shows the run event published last and, between two emissions, the batch as it is; refinement of `LiveBatch`; every question is recorded unless the batch is stopped or the model never answers |
| `Indexing` | 2 files, 1 fixture, 2 versions of 2 and 1 chunks, batches of 2, 3 runs, 2 edits, all modes and mishaps | incremental runs add up to a full one; a crash loses nothing; replaced documents are replaced exactly; a rebuild restores |
| `Phase5Answer` | 2 questions, 2 generation retries, 1 router retry, 1 fallback profile, `max_revision_loops` = 2 | the delivered draft was judged as it is, and no objection to it was passed over; refusals are preserved; the displayed text is the draft under review, then the answer; the board settles and its progress never falls; every run ends unless a Phase 4 call never returns |
| `AnswerContext` | up to 3 candidates of 2 documents, sizes 1, 4 and 7, every similarity, place and order of scores, floor 2, ceiling 3, evidence budget 6, target 3 to 5, context budget 12, up to 2 tokens lost in a cut | the floor is reached; only the floor exceeds the target; the weakness label is true; nothing that still fits is left out; the sections are the selection, in the order of the text; the context fits |
| `ProjectFiles` | 2 processes of 2 invocations, one second, 2 corpora | names are claimed once and without gaps; an index has the tokens of its chunks; refinement of `Claims` |
| `BatchRunSeparator`, `BatchRunTorn` | 2 questions, 3 invocations | a folder that cannot be resumed, without any damage and after one torn append |
| `BatchRunPatch` | as above, no damage | Phase 5 fields of one question in the trace of another |
| `IndexingRebuild`, `IndexingOrphan` | 2 files, crashes only | an incomplete index served after an interrupted rebuild; points of a deleted file that stay |

The last five are disagreements of code and documentation, quoted under "findings"
in `PROJECT.json`. The other properties are stated so that they hold in spite of
them: `DurableCompletion` for files damaged only as `_load_latest` provides for,
`OnlyOvertakenSkipped` for events no other event was numbered during, `NothingLost`
for histories without an interrupted rebuild, `TokensMatchChunks` unless the cache is a
file that two processes filled from two corpora at the same time. The exception ends
with the next process that opens this file alone; a file of another that is unfinished,
emptied or renamed is no exception.

**Smaller divergences**, met while modelling and kept as comments or exceptions:

* A browser that connects after the adapter was subscribed never gets `run_started`
  by its queue: the context which the adapter publishes from inside the callback is
  numbered and delivered first, and the stream drops what is behind it.
* With Phase 5, `run_started` and its end appear in the execution stream once a
  question, which `docs/execution_observability.md:24-37` describes as once a batch.
  An interrupted batch emits no end of its run, and a failure after the base runner
  has returned no `run_failed`. `RichConsoleRenderer` leaves out `run_resumed`,
  `warning` and `error`, though its docstring calls the lifecycle identical.
* Two processes that write the token cache at once share `.tmp` and can leave a file
  whose fingerprint is of one corpus and whose tokens are of the other.
* A draft is published as soon as it is generated (`phase5_pipeline.py:157-160`) and
  displayed (`live/static/app.js:60`) until there is a final answer, and is returned
  next to it as `draft_answer` (`phase5_pipeline.py:608`). So a draft that is then rejected
  has been seen, and one of a run that fails stays on the page. What the consensus
  keeps back is the *answer*; `ObjectionsAreHeeded` and `PanelIsCurrent` are about this.
* `phase4_pipeline.py:448-449` retries on timeouts, but the model it retries is created
  without one (`llm.py:63`).
* `ContextBuilder` sorts the selected chunks by fusion score, so the order of the
  reranker is not the order of the context; nor does `selected` preserve it, as the
  docstring of `evidence_selector.py` says, since later loops append.
* `compress_context` stops once the budget is exactly full without counting the sections
  it drops, and `retrieval_trace.py:421` reports that count as skipped chunks.
* The relaxed loop goes on adding redundant candidates beyond the floor while the
  token target is not reached.

**Why the bounds are enough.** Two questions are a resumed one and a new one, or a
failed one and a later one; three invocations are a damage, a resume that adds to
it, and a resume that has to read the result. A history of two with at least four
events drops events while a stream reads; nesting is two deep in the code (an
adapter's context is not a run start). Two ticks let one fall between two publishes
of the pipeline and one inside a publish. Two versions with fewer chunks in the second
leave a point that no upsert replaces, which is what point ids by place can get
wrong; two edits and three runs allow a change, its loss and its repair. The texts
of `Payloads` other than `"plain"` multiply the states of `BatchRun` and are left
to `BatchRunSeparator` and to the proofs, which hold for all of them.
The second question of `Phase5Answer` is one that finds the board, the draft and the
reviews of another.
`Phase5Answer` allows excerpts of weak evidence but no answers from it, which is not
the default: only then do the three rules for the status compete. The sizes of
`AnswerContext` are one that always fits, one of which two do not fit the
target, and one above the evidence budget; its properties are proved for any number of
candidates, and three are enough for a document with two sections
next to another. Two processes are a race for a name, and a second invocation of
each finds what the first one left.

**Fairness.** What no fairness covers anywhere is the call of the model in Phase 4:
`OllamaLLM` is created without a timeout (`llm.py:63`) and invoked as it is
(`phase4_pipeline.py:355`), so the call may hang. `Generate` in `Phase5Answer` and
`Answer` in `BatchRun` are therefore outside the fair actions, `AwaitsModel` excludes
them in `Execution` and `LiveBatch`, and `RunEnds`, `InvocationEnds` and
`EveryQuestionRecorded` name the one exception: a system that waits for the model for
ever. Everything else is sequential code or an ordinary thread.
`BatchRun`: weak fairness of an invocation's own steps, which nothing in the model
blocks; nobody has to start an invocation, and failures are not fair. `LiveBatch` and
`Execution`: weak fairness of the pipeline thread, of the server thread and of each
stream, since asyncio runs every ready task.
`Phase5Answer`: weak fairness of the run without `Generate`; the calls of the agents go
through the model router, whose client has a timeout (`agents/model_router.py:52`, `187`).
`Indexing`, `AnswerContext` and `ProjectFiles` state safety only: in the last, a
process waits for no other, and only finitely many names can be taken before its own.

**Deadlock** checking is off where the bounded number of invocations, runs,
questions, ticks or edits lets a behaviour end, and where the context is built.

## 4. Proofs

### Run folder

Assumptions: `CountsAssumption` (at least one question and one invocation) and
`InputsAssumption` (where separators may be, whether appends can be torn). Nothing
else is assumed; the number of questions, the number of invocations and both kinds
of damage are arbitrary.

`BatchRunProofs` begins with the facts about files: `AppendedLines` (what an append
does to the lines), `SameLatest` (the latest record depends only on the whole lines
of the question), `IntactAppended` (an append to an intact file without separators
keeps it intact and makes its record the latest), `CutFrom` and `TornFiles` (an
interrupted append leaves one of the listed files and disturbs no other question).

It then proves that `IInv` is inductive, one lemma for each action, and that
`BundleInv` is inductive where `IInv` holds, and from the two:

| Theorem | Result |
|---|---|
| `Invariance` | `Spec => []IInv` |
| `StoreTyped` | the files and the memory are well typed |
| `CompletionIsDurable` | `DurableCompletion` is an invariant |
| `CsvIsCurrent` | `CsvCoversCheckpoint` is an invariant |
| `BundleInvariance` | `Spec => []BundleInv` |
| `TypesHold` | `TypeOK`, the batch, the answers and the retrieval file included |
| `BundleIsConsistent` | `BundleMatchesCheckpoint` is an invariant |
| `NeverReasked` | `CompletedNeverReasked` |
| `ImplementsLedger` | `RefinesLedger`: initial states map to initial states and every step to a ledger step or a stutter |

`DurableCompletion` is not inductive on its own. Saving the checkpoint keeps it only
if the record that was appended two steps earlier is still the latest
(`AttemptIsWritten`), and the append of another attempt keeps it only if that attempt
is not of a completed question (`AttemptIsOpen`, `TodoIsOpen`), which in turn needs
that the checkpoint in memory is the one on disk (`HeldIsSaved`). The torn appends
need `TailIsOpen`: the next append breaks an unterminated last line, which must
therefore not be the record of a completed question. `CsvCoversCheckpoint` needs the
rows in memory to cover the checkpoint (`MemoryHasRows`), since the CSV is written
from them. The ledger's closing step needs every question accounted for
(`AllAccounted`, `NothingLeft`).

`BundleMatchesCheckpoint` is about one state of the export, but the pairs it sorts were
gathered question by question, partly from files of earlier invocations.
`BatchIsCurrent` says of every earlier state that the batch has one pair for each
question which is no longer to do, and which invocation and response that pair is of; a
restored pair needs `DurableCompletion`. At the export nothing is to do, so the
keys of the batch are all the questions, no two alike. `SortedIsOriginalOrder` then
shows that the stable sort puts the pair of question q at place q: by `Ranking`, of n
members in a line exactly one has k members up to itself, for each k up to n, and with
different keys the pairs up to one are counted by their keys (`CountByKey`).

### Indexing

`IndexingProofs`, from `IndexingAssumption` (numbers of files, batches, versions, and
which modes and mishaps there are), for any corpus, any texts, any number of runs
and edits:

| Theorem | Result |
|---|---|
| `IndexingInvariance` | `Spec => []IInv` |
| `TypesHold` | `TypeOK`, one point for each place of a file included |
| `IncrementalIsFullIndexing` | `IncrementalIsFull` |
| `NothingIsLost` | `NothingLost` |
| `DocumentsAreReplacedExactly` | `ReplacedExactly` |
| `ARebuildRestores` | `RebuildRestores` |

All four properties are about an index that is served; `IInv` says at each stage what
makes them come true. `Covered`: what was loaded is in the queue or among the points.
`Replaced`: a document to delete is still in `doomed` or holds nothing but its new
text; the points are deleted before the first upsert, which is why the queue is
complete as long as anything is doomed. `RebuildClears`: a rebuild has dropped the
collection before it writes. `Vouched` is the invariant of the manifest across runs: an
entry with the hash of the present file has all its points, in every stage but those of
a rebuild, which is where a stop can make the manifest lie (`IndexingRebuild`).
`NothingElse` is its converse, as long as nothing went wrong. Both need `HashesAreOld`:
an edit gives a file a version that no entry and no scan has. `Vouched` is claimed
with stops and full runs, `NothingElse` without any mishap, and `Replaced` and
`RebuildClears` after any history, as the properties are.

### Evidence selection and context

`AnswerContextProofs` proves every property of its run for any number of candidates,
any values of the limits that the configuration accepts (`SelectionAssumption`), any
places of the chunks, and any positive size of header, separator and context budget
(`ContextAssumption`). The first five theorems are about `EvidenceSelection`, the others
about `AnswerContext`:

| Theorem | Result |
|---|---|
| `SelectionTyped` | `TypeOK`: nothing twice, nothing above the ceiling |
| `NeverStarved` | `FloorReached` is an invariant |
| `TargetKept` | `TargetOnlyForFloor` is an invariant |
| `LabelIsTrue` | `WeakIsTrue` is an invariant |
| `NothingLeft` | `NothingUsefulLeft` is an invariant |
| `ContextInvariance` | `ContextSpec => []ContextInv` |
| `SelectionUndisturbed` | the five properties above, under `ContextSpec` |
| `SectionsAreTheSelection` | `SectionsAreSelection` is an invariant |
| `TheContextFits` | `ContextFits` is an invariant |

`NothingUsefulLeft` is about the end, but what it says of a candidate is settled when a
loop goes past it. `PastSettled` and `RestSettled` carry the reason along, and
`StaysSettled` shows that selecting another candidate never undoes it: tokens,
chunks of a document and similarities only grow. `FloorReached` rests on
`NoneRefused`: while the floor is not reached, the last loop selects all it goes
past, and so at its end every candidate, and the floor is at most that. `WeakIsTrue` rests on
`StrongKept`, whose second case is the one an oversized candidate takes: the first
loop finds it above the budget, and the second one begins with it.

`ContextInv` keeps `IInv` while the context is built, and says that the sections are
`Merged` of the selection (`Made`) and how far they were put in (`Going`). What
`Merged` returns is a chain of lemmas about operators. `InOrderLists`: sorting by
different keys lists every member once, in the order of the keys. `RunBounds` and `RunText`:
a run starts where a chunk does not follow the one before it, ends before the
next start, and is consecutive between. `DocumentRuns`: every chunk of a document
is in exactly one run, and no run continues another; that this is so however the runs
are paired needs that the chunk before a start and the chunk at it are not neighbours
in the text, which follows from the sorting. `AllRunsFacts` joins the documents,
and `OrderFacts` shows that different runs have different best chunks, so that
sorting the runs by them loses none. `ContextFits` needs `Going` for the section
that is next, and `TextFacts`: a section has a positive number of tokens, which is a fact
about a sum and therefore proved by induction on its length.

### Shared project files

`ProjectFilesProofs`, from `FilesAssumption` (the run name is no timestamp, `None` no
corpus), for any processes, invocations, timestamps and corpora:

| Theorem | Result |
|---|---|
| `FilesInvariance` | `Spec => []IInv` |
| `FilesTyped` | `TypeOK` |
| `NumbersWithoutGaps` | `NoGaps` |
| `TokensOfTheChunks` | `TokensMatchChunks` |
| `FilesImplementClaims` | `ImplementsClaims` |

`NoGaps` needs `NumberedUpTo` (the numbers of a name are 1 to some k) and, since a
process tries a number it computed earlier, that the number before it is taken, which
`SeekersOwnNothing` carries. That a new invocation owns nothing yet needs
`OwnersBegan`. `TokensMatchChunks` needs `WrittenForOne`: all who fill a file that is not
shared have one corpus, and what is in the file is of it, so that no such file has the
fingerprint of one corpus and the tokens of another. It holds because whoever opens the
file empties it, while others may still be filling it.

### Phase 5

`Phase5AnswerProofs`, from `AnswerAssumption` (numbers are naturals, switches are
Boolean), for any retries, fallbacks, revision loops and questions:

| Theorem | Result |
|---|---|
| `AnswerInvariance` | `Spec => []IInv` |
| `AnswerTyped` | `TypeOK` |
| `JudgedAsDelivered` | `ReviewsAreOfTheAnswer` |
| `StatusSurvives` | `StatusIsPreserved` |
| `NeverAnsweredUnsupported` | `UnsupportedNeverAnswered` |
| `ObjectionsCount` | `ObjectionsAreHeeded` |
| `PanelFollows` | `PanelIsCurrent` |
| `BoardHasSettled` | `BoardSettles` |
| `ProgressOnlyGrows` | `ProgressNeverFalls` |

`ReviewsAreOfTheAnswer` speaks of the end. `ReviewedSoFar` says which reviews exist at
each step of the nine agents and which draft they are of; a revision begins the
reviews anew; with the decision it carries along, which comes from these very reviews,
it also gives `ObjectionsAreHeeded`. `PanelSoFar` says which texts are on the board at
each step: from the draft generator on it is the draft of this question, which the
revision replaces by its own. `DraftOfStatus` ties the draft to the status of Phase 4, `BoardSoFar`
the boxes of the dashboard to the agent that has its turn, and `ProgressSoFar` bounds
the progress shown by it, so that the next value is never below.

### Live bus and execution framework

`LiveBusProofs` has the facts about the bus that do not depend on who publishes:
`LiveInv` is kept by every publish, delivery, tick and step of a browser, and implies
`StreamInOrder` (`OrderKept`) and `OnlyOvertakenSkipped` (`NothingElseSkipped`). Its
parts: `HistoryIsTail` (the history is the last numbers given), `FramesNewest` (an
event under publication is the newest or marked as overtaken), `InTurn` (what a
browser's queue still holds is behind what it was shown, unless overtaken) and
`NothingMissing` (every later event is shown, in the backlog, in the queue, awaited
in a publish, or overtaken). `LiveBatchProofs` and `ExecutionProofs` use it for the
two publishers, for any number of questions, ticks and browsers and any history size:

| Module | Theorem | Result |
|---|---|---|
| `LiveBatchProofs` | `LiveInvariance` | `Spec => []IInv` |
| | `StreamsInOrder` | `StreamInOrder` |
| | `OnlyOvertakenAreSkipped` | `OnlyOvertakenSkipped` |
| `ExecutionProofs` | `ExecutionInvariance` | `Spec => []IInv` |
| | `ExecutionTyped` | `TypeOK` |
| | `BoardFollows` | `BoardFollowsPipeline` |
| | `ContextIsShown` | `ContextIsCurrent` |
| | `RunStreamsInOrder`, `RunStreamsMissOnlyOvertaken` | the properties of the streams, under `Execution` |
| | `PublishesOnlyScripts` | the safety part of `PublishesScripts`: initial states map to initial states of `LiveBatch` and every step to one of its steps or a stutter |

`IInv` of `ExecutionProofs` is `LiveInv /\ BoardInv /\ RunnerInv`. While a publish is
under way the board does not show its event yet, so `BoardInv` speaks of the board as
it will be once the pending call of the dashboard is made (`BoardNext`), and of a
context that is still to come after a run start erased it (`ContextPending`).
`RunnerInv` relates the runner, the tracker and the checkpoint (`Counts`, `Tracked`)
and says that a run whose end is still to be reported was the last one reported
(`OpenRun`), which is what makes the end a step of `LiveBatch`. The refinement is
proved from `Left`, a table of what is left to publish at each stage.

### Only model-checked

* Liveness is out of the prover's reach: `InvocationEnds`, `StreamCatchesUp`,
  `RunEnds`, `EveryQuestionRecorded`, and the fairness part of
  `PublishesScripts`.

Every other property of a passing run, invariant or action property, is stated by
one of the theorems above.

Sorting and sums are data that a proof needs induction for. The library's induction
theorems take an operator as a parameter, which the provers cannot instantiate; the proofs
use two facts instead that take sets: every non-empty set of naturals has a least member
(`Least`, from `WFMin`), and `Induction` from it, for a set of naturals that holds 0
and every successor. The sorts of the models (`InOrder`, `Ascending`, `SortedByKey`) are
therefore defined by counting what comes before a member, and the sum `Text` as a
recursive function on the naturals.

## 5. Not modelled

* Texts, prompts, formats, file contents, HTML, the values of metrics and telemetry:
  no property is about them. The map therefore leaves out most lines of the
  reporting, visualisation, console and trace modules.
* The notebooks. They are the larger half of the lines of the repository, as JSON: cells
  that call the package's functions and the output stored with them. They hold no
  state or operation of the system beyond these calls.
* Two processes on one run folder; the server mode of Qdrant and switching between
  the modes; start and stop of the dashboard server.
* Fusion scores and query variants: arithmetic over the rankings of one question, of
  which `AnswerContext` takes any order as a result.
* OCR, parsing and metadata beyond success, failure and disappearance of a file.
* Evaluation, reports, configuration checks, infrastructure probes, maintenance
  scripts: calculations over finished data, one-shot probes, or tools run by hand.

Four hazards have no property; `PROJECT.json` has their lines. Two are left out of the
models for the reasons above: two processes on one run folder, and the manifest that
embedded and server storage share. Two are in `Indexing` as mishaps, but the code does
not guard against them, so that the properties exclude the histories that have them:
a file edited between fingerprint and load, and a file whose extraction fails.

## 6. Plan

What is left, in order of what matters next:

1. Two processes on one run folder: `BatchRun` with a memory for each process, to find
   which interleavings the four files survive.
2. Server mode of Qdrant and the two migrations; the manifest shared between modes.
3. Reciprocal rank fusion and the merging of query variants as operators, each against
   a reference definition (order independence where the code sorts, no result lost
   or doubled).
