------------------------------ MODULE BatchRun ------------------------------
(***************************************************************************)
(* One run folder of the batch scripts and the invocations that work on it: *)
(* Phase4Runner.run drives collect_batch_answers, Phase4CheckpointManager   *)
(* records every attempt, Phase3Runner exports the bundle, and              *)
(* run_phase5_batch.execute marks interrupts and patches the bundle.  One   *)
(* invocation runs at a time; it may be killed between any two steps, be    *)
(* interrupted from the keyboard, or meet an I/O error, and the folder is   *)
(* then resumed by the next invocation.                                     *)
(***************************************************************************)
EXTENDS CheckpointFile

CONSTANTS Payloads,   \* subset of {"plain", "evidence", "answer"}: where the text
                      \* of an attempt holds a Unicode line separator, if anywhere
          TornWrites  \* BOOLEAN: an append can be cut short

ASSUME InputsAssumption == /\ Payloads \subseteq {"plain", "evidence", "answer"}
                           /\ "plain" \in Payloads
                           /\ TornWrites \in BOOLEAN

VARIABLES
    rowsFile,   \* partial_results.jsonl
    respFile,   \* partial_retrieval.jsonl
    csv,        \* partial_results.csv: question -> row
    ckpt,       \* checkpoint.json
    retrieval,  \* retrieval.json of the last export, <<>> when there is none
    answers,    \* results.json: the keys of the responses it holds, in order
    pc,         \* where the running invocation is
    run,        \* number of invocations so far
    todo,       \* the part of Phase4Runner's pending list not yet reached
    attempt,    \* the row and response being recorded
    held,       \* Phase4CheckpointManager._checkpoint
    rows,       \* ... ._results
    resps,      \* ... ._responses
    batch       \* initial pairs, then those collect_batch_answers has appended

disk == <<rowsFile, respFile, csv, ckpt, retrieval, answers>>
memory == <<todo, attempt, held, rows, resps, batch>>
vars == <<disk, pc, run, memory>>

-----------------------------------------------------------------------------
Checkpoint == [status : {"absent", "in_progress", "interrupted", "completed",
                         "completed_with_failures"},
               completed : SUBSET Questions,
               failed : SUBSET Questions]
NoCheckpoint == [status |-> "absent", completed |-> {}, failed |-> {}]
NewCheckpoint == [status |-> "in_progress", completed |-> {}, failed |-> {}]

\* A failed row may have a response: answering succeeded, and then an interrupt
\* or an error came before the row was filled in.
Attempt == {a \in [key : Questions, run : Runs, status : {"success", "failed"},
                   response : BOOLEAN, payload : Payloads] :
                a.status = "success" => a.response}
NoAttempt == [key |-> 0, run |-> 0, status |-> "failed", response |-> FALSE,
              payload |-> "plain"]

\* A (row, response) pair of the export: response is FALSE where it is None.
Pair == [key : Questions, run : Runs, status : {"success", "failed"},
         response : BOOLEAN]

\* A trace of retrieval.json: phase5 is the question whose Phase 5 fields it holds.
Trace == [key : Questions, run : Runs, response : BOOLEAN,
          phase5 : Questions \cup {0}]

Recording == {"append_row", "append_response", "write_csv", "save"}
Working == Recording \cup {"loading", "answering", "export", "finalize"}

NothingLoaded == [q \in Questions |-> Missing]

\* The process is gone, and its memory with it.
Forget == /\ todo' = {}
          /\ attempt' = NoAttempt
          /\ held' = NoCheckpoint
          /\ rows' = NothingLoaded
          /\ resps' = NothingLoaded
          /\ batch' = <<>>

Init == /\ rowsFile = EmptyFile
        /\ respFile = EmptyFile
        /\ csv = NothingLoaded
        /\ ckpt = NoCheckpoint
        /\ retrieval = <<>>
        /\ answers = <<>>
        /\ pc = "down"
        /\ run = 0
        /\ todo = {}
        /\ attempt = NoAttempt
        /\ held = NoCheckpoint
        /\ rows = NothingLoaded
        /\ resps = NothingLoaded
        /\ batch = <<>>

-----------------------------------------------------------------------------
(* Starting an invocation. *)

\* The script starts on the run folder; load, chunk, embed and index come first.
Invoke == /\ pc = "down"
          /\ run < MaxRuns
          /\ run' = run + 1
          /\ pc' = "loading"
          /\ UNCHANGED <<disk, memory>>

\* Where a batch goes with nothing left to attempt, and with something.
NextStage(left) == IF left = {} THEN "export" ELSE "answering"

\* The first invocation creates the checkpoint; initialize writes it at once.
StartFresh == /\ pc = "loading"
              /\ run = 1
              /\ held' = NewCheckpoint
              /\ ckpt' = NewCheckpoint
              /\ todo' = Questions
              /\ pc' = NextStage(todo')
              /\ UNCHANGED <<rowsFile, respFile, csv, retrieval, answers, run,
                             attempt, rows, resps, batch>>

\* Mutant of Pending: a resumed batch attempts every question again.
PendingAll(done) == Questions

\* pending(): the occurrences not successfully completed.
Pending(done) == Questions \ done

\* Questions in their order.
Ascending(S) ==
    [r \in 1..Cardinality(S) |-> CHOOSE q \in S : Cardinality({p \in S : p <= q}) = r]

\* completed_records(): the initial pairs, in question order.  A response the
\* retrieval file has lost is passed on as None.
InitialPairs(done) ==
    LET keys == Ascending(done)
    IN  [i \in DOMAIN keys |->
            [key |-> keys[i], run |-> Latest(rowsFile, keys[i]).run,
             status |-> Latest(rowsFile, keys[i]).val,
             response |-> Latest(respFile, keys[i]).val = "mapping"]]

\* initialize(resume=True) and completed_records() raise otherwise.
CanResume == /\ ckpt.status # "absent"
             /\ Readable(rowsFile)
             /\ Readable(respFile)
             /\ \A q \in ckpt.completed : Latest(rowsFile, q) # Missing

Resume == /\ pc = "loading"
          /\ run > 1
          /\ CanResume
          /\ held' = ckpt
          /\ rows' = Loaded(rowsFile)
          /\ resps' = Loaded(respFile)
          /\ todo' = Pending(ckpt.completed)
          /\ batch' = InitialPairs(ckpt.completed)
          /\ pc' = NextStage(todo')
          /\ UNCHANGED <<disk, run, attempt>>

\* The exception escapes to execute, whose finally still patches the bundle.
RefuseResume == /\ pc = "loading"
                /\ run > 1
                /\ ~CanResume
                /\ pc' = "patch"
                /\ UNCHANGED <<disk, run, memory>>

-----------------------------------------------------------------------------
(* One question: answering it, then Phase4CheckpointManager.record. *)

\* The next question in order.  The pipeline answers, or raises and the row stays
\* "failed".  A keyboard interrupt does not lose the row, whatever it is by then:
\* the finally block of collect_batch_answers still records it, and the interrupt
\* goes on from there (Stop).
Answer == /\ pc = "answering"
          /\ \E a \in Attempt :
                /\ a.key \in todo
                /\ \A r \in todo : a.key <= r
                /\ a.run = run
                /\ ~a.response => a.payload = "plain"
                /\ attempt' = a
                /\ batch' = Append(batch, [key |-> a.key, run |-> run,
                                           status |-> a.status, response |-> a.response])
                /\ todo' = todo \ {a.key}
          /\ pc' = "append_row"
          /\ UNCHANGED <<disk, run, held, rows, resps>>

\* Mutant of RowLine: the zero-based index identifies the row.
RowLineZeroBased == [key |-> attempt.key - 1, run |-> attempt.run,
                     val |-> attempt.status, whole |-> TRUE]

RowLine == [key |-> attempt.key, run |-> attempt.run,
            val |-> attempt.status, whole |-> TRUE]
ResponseLine == [key |-> attempt.key, run |-> attempt.run,
                 val |-> IF attempt.response THEN "mapping" ELSE "null",
                 whole |-> TRUE]

\* The answer text is in both records, if the row got that far, the text of the
\* evidence only in the response.
RowSplit == attempt.status = "success" /\ attempt.payload = "answer"
ResponseSplit == attempt.payload # "plain"

\* Mutant of AppendRow: the checkpoint is saved before the response is appended.
AppendRowThenSave ==
    /\ pc = "append_row"
    /\ rowsFile' = Appended(rowsFile, RowLine, RowSplit)
    /\ pc' = "save"
    /\ UNCHANGED <<respFile, csv, ckpt, retrieval, answers, run, memory>>

AppendRow == /\ pc = "append_row"
             /\ rowsFile' = Appended(rowsFile, RowLine, RowSplit)
             /\ pc' = "append_response"
             /\ UNCHANGED <<respFile, csv, ckpt, retrieval, answers, run, memory>>

\* Mutant of AppendResponse: the checkpoint is saved before the CSV is rewritten.
AppendResponseThenSave ==
    /\ pc = "append_response"
    /\ respFile' = Appended(respFile, ResponseLine, ResponseSplit)
    /\ rows' = [rows EXCEPT ![attempt.key] = RowLine]
    /\ resps' = [resps EXCEPT ![attempt.key] = ResponseLine]
    /\ pc' = "save"
    /\ UNCHANGED <<rowsFile, csv, ckpt, retrieval, answers, run,
                   todo, attempt, held, batch>>

AppendResponse == /\ pc = "append_response"
                  /\ respFile' = Appended(respFile, ResponseLine, ResponseSplit)
                  /\ rows' = [rows EXCEPT ![attempt.key] = RowLine]
                  /\ resps' = [resps EXCEPT ![attempt.key] = ResponseLine]
                  /\ pc' = "write_csv"
                  /\ UNCHANGED <<rowsFile, csv, ckpt, retrieval, answers, run,
                                 todo, attempt, held, batch>>

\* _write_partial_csv: a temporary file, then an atomic replace.
WriteCsv == /\ pc = "write_csv"
            /\ csv' = rows
            /\ pc' = "save"
            /\ UNCHANGED <<rowsFile, respFile, ckpt, retrieval, answers, run, memory>>

\* Mutant of Recorded: a success leaves the failure of an earlier attempt listed.
RecordedKeepsFailure(c) ==
    IF attempt.status = "success"
    THEN [c EXCEPT !.status = "in_progress", !.completed = @ \cup {attempt.key}]
    ELSE [c EXCEPT !.status = "in_progress", !.failed = @ \cup {attempt.key}]

\* The summaries of record() after one more attempt.
Recorded(c) ==
    IF attempt.status = "success"
    THEN [status |-> "in_progress", completed |-> c.completed \cup {attempt.key},
          failed |-> c.failed \ {attempt.key}]
    ELSE [status |-> "in_progress", completed |-> c.completed \ {attempt.key},
          failed |-> c.failed \cup {attempt.key}]

\* _write_checkpoint, then the batch goes on, unless an interrupt is propagating (Stop).
SaveCheckpoint == /\ pc = "save"
                  /\ held' = Recorded(held)
                  /\ ckpt' = held'
                  /\ pc' = NextStage(todo)
                  /\ UNCHANGED <<rowsFile, respFile, csv, retrieval, answers, run,
                                 todo, attempt, rows, resps, batch>>

-----------------------------------------------------------------------------
(* The bundle, and how an invocation ends. *)

\* sorted() by __checkpoint_index, which is stable: the pair at place r is the one
\* that r pairs, itself included, do not come after.
Upto(s, i) == {j \in DOMAIN s : s[j].key < s[i].key \/ (s[j].key = s[i].key /\ j <= i)}
SortedByKey(s) ==
    [r \in DOMAIN s |-> s[CHOOSE i \in DOMAIN s : Cardinality(Upto(s, i)) = r]]

\* Mutant of Export: the restored pairs stay in front of the new ones.
ExportUnsorted ==
    /\ pc = "export"
    /\ retrieval' = [i \in DOMAIN batch |->
                        [key |-> batch[i].key, run |-> batch[i].run,
                         response |-> batch[i].response, phase5 |-> 0]]
    /\ pc' = "finalize"
    /\ UNCHANGED <<rowsFile, respFile, csv, ckpt, answers, run, memory>>

\* Phase3Runner sorts the pairs by __checkpoint_index and writes one trace a row.
Export == /\ pc = "export"
          /\ LET sorted == SortedByKey(batch)
             IN  retrieval' = [i \in DOMAIN sorted |->
                                 [key |-> sorted[i].key, run |-> sorted[i].run,
                                  response |-> sorted[i].response, phase5 |-> 0]]
          /\ pc' = "finalize"
          /\ UNCHANGED <<rowsFile, respFile, csv, ckpt, answers, run, memory>>

Finalize == /\ pc = "finalize"
            /\ held' = [held EXCEPT !.status =
                          IF held.failed # {} THEN "completed_with_failures"
                                              ELSE "completed"]
            /\ ckpt' = held'
            /\ pc' = "patch"
            /\ UNCHANGED <<rowsFile, respFile, csv, retrieval, answers, run,
                           todo, attempt, rows, resps, batch>>

\* A keyboard interrupt ("mark"), an exception ("patch") or a kill ("down") between two
\* steps.  The runner can still be interrupted once its batch is closed.
Stop == /\ pc # "down"
        /\ \/ pc \in Working /\ pc' \in {"mark", "patch"}
           \/ pc = "patch" /\ held # NoCheckpoint /\ pc' = "mark"
           \/ pc' = "down"
        /\ Forget
        /\ UNCHANGED <<disk, run>>

\* A kill or an I/O error in the middle of an append.
StopInAppend == /\ TornWrites
                /\ \/ /\ pc = "append_row"
                      /\ rowsFile' \in Torn(rowsFile, RowLine, RowSplit)
                      /\ UNCHANGED respFile
                   \/ /\ pc = "append_response"
                      /\ respFile' \in Torn(respFile, ResponseLine, ResponseSplit)
                      /\ UNCHANGED rowsFile
                /\ pc' \in {"patch", "down"}
                /\ Forget
                /\ UNCHANGED <<csv, ckpt, retrieval, answers, run>>

\* mark_run_interrupted reads the checkpoint back and replaces its status.
MarkInterrupted ==
    /\ pc = "mark"
    /\ ckpt' = IF ckpt.status = "absent" THEN ckpt
                                         ELSE [ckpt EXCEPT !.status = "interrupted"]
    /\ pc' = "patch"
    /\ Forget
    /\ UNCHANGED <<rowsFile, respFile, csv, retrieval, answers, run>>

\* _latest_checkpoint_responses: the questions with a response on disk, in order.
WithResponse == {q \in Questions : \E i \in Positions(respFile, q) :
                                        respFile.lines[i].val = "mapping"}
Responses == Ascending(WithResponse)

\* Mutant of Patch: the script waits for a retrieval file it can read.
PatchWhenReadable ==
    /\ pc = "patch"
    /\ Readable(respFile)
    /\ answers' = Responses
    /\ UNCHANGED retrieval
    /\ pc' = "down"
    /\ Forget
    /\ UNCHANGED <<rowsFile, respFile, csv, ckpt, run>>

\* finalize_phase5_artifacts: results.json, then the Phase 5 fields of the i-th
\* response into the i-th trace.  An unreadable retrieval file raises first.
Patch ==
    /\ pc = "patch"
    /\ IF Readable(respFile)
       THEN /\ answers' = Responses
            /\ retrieval' = [i \in DOMAIN retrieval |->
                               IF i \in DOMAIN Responses
                               THEN [retrieval[i] EXCEPT !.phase5 = Responses[i]]
                               ELSE retrieval[i]]
       ELSE UNCHANGED <<answers, retrieval>>
    /\ pc' = "down"
    /\ Forget
    /\ UNCHANGED <<rowsFile, respFile, csv, ckpt, run>>

Step == \/ StartFresh \/ Resume \/ RefuseResume
        \/ AppendRow \/ AppendResponse \/ WriteCsv \/ SaveCheckpoint
        \/ Export \/ Finalize \/ MarkInterrupted \/ Patch

Next == Invoke \/ Answer \/ Step \/ Stop \/ StopInAppend

\* An invocation that is not killed keeps executing, except that the call of the model
\* has no timeout and may never return; nobody has to start an invocation.
Spec == Init /\ [][Next]_vars /\ WF_vars(Step)

-----------------------------------------------------------------------------
(* Properties. *)

\* The durable store, and what an invocation holds of it in memory.
StoreTypeOK == /\ rowsFile \in File
               /\ respFile \in File
               /\ csv \in [Questions -> Entry]
               /\ ckpt \in Checkpoint
               /\ pc \in Working \cup {"down", "mark", "patch"}
               /\ run \in 0..MaxRuns
               /\ todo \in SUBSET Questions
               /\ attempt \in Attempt \cup {NoAttempt}
               /\ held \in Checkpoint
               /\ rows \in [Questions -> Entry]
               /\ resps \in [Questions -> Entry]

\* The sorted lists of the export.
BundleTypeOK == /\ batch \in Seq(Pair)
                /\ retrieval \in Seq(Trace)
                /\ answers \in Seq(Questions)

\* Every variable has its type.
TypeOK == StoreTypeOK /\ BundleTypeOK

\* A question the checkpoint has as completed can be rebuilt from the files: its
\* latest row is a success and its latest response comes from the same attempt.
\* The appends precede the checkpoint, so a stop between any two of them, and a
\* later attempt, must not break the pair.
DurableCompletion ==
    Intact(rowsFile) /\ Intact(respFile) =>
        \A q \in ckpt.completed :
            /\ Latest(rowsFile, q).val = "success"
            /\ Latest(respFile, q).val = "mapping"
            /\ Latest(respFile, q).run = Latest(rowsFile, q).run

\* No invocation attempts a question again once a checkpoint of any earlier
\* moment had it as completed ("Completed questions are skipped", README).
CompletedNeverReasked ==
    [][attempt'.key # 0 /\ attempt' # attempt => attempt'.key \notin ckpt.completed]_vars

\* partial_results.csv is replaced before the checkpoint: it never lags behind it.
CsvCoversCheckpoint ==
    Intact(rowsFile) => \A q \in ckpt.completed : csv[q].val = "success"

\* When the batch is about to be closed, the bundle has one trace a question in
\* the original order, every question is completed or failed, the failed ones were
\* attempted by this very invocation, and the completed ones have a response.
BundleMatchesCheckpoint ==
    pc = "finalize" =>
        /\ Len(retrieval) = NumQuestions
        /\ held.completed \cup held.failed = Questions
        /\ \A q \in Questions :
              /\ retrieval[q].key = q
              /\ q \in held.failed => retrieval[q].run = run
              /\ Intact(rowsFile) /\ Intact(respFile) =>
                    (q \in held.completed => retrieval[q].response)

\* The checkpoint implements the ledger.
Ledger == INSTANCE BatchLedger WITH done <- ckpt.completed, failed <- ckpt.failed,
                                    status <- ckpt.status
RefinesLedger == Ledger!Spec

\* An invocation always gives the folder back, unless the model never answers.
InvocationEnds == pc # "down" ~> (pc = "down" \/ [](pc = "answering"))

\* The inductive invariant behind DurableCompletion, CsvCoversCheckpoint and the
\* ledger, in named parts.
Underway == Working \ {"loading"}

FolderIsNew == run = 0 \/ (run = 1 /\ pc = "loading") => ckpt = NoCheckpoint
HeldIsSaved == pc \in Underway => held = ckpt /\ ckpt.status # "absent"
TodoIsOpen == pc \in Underway => todo \cap ckpt.completed = {}
AttemptIsOpen == pc \in Recording => /\ attempt \in Attempt
                                     /\ attempt.key \notin ckpt.completed \cup todo
AllAccounted ==
    pc \in Underway =>
        \A q \in Questions : \/ q \in todo \cup ckpt.completed \cup ckpt.failed
                             \/ pc \in Recording /\ q = attempt.key
NothingLeft == pc \in {"export", "finalize"} => todo = {}

\* An unterminated line is of a question that is not completed.
TailIsOpen ==
    /\ rowsFile.open => rowsFile.lines[Len(rowsFile.lines)].key \notin ckpt.completed
    /\ respFile.open => respFile.lines[Len(respFile.lines)].key \notin ckpt.completed
    /\ pc \in {"append_response", "write_csv", "save"} => ~rowsFile.open
    /\ pc \in {"write_csv", "save"} => ~respFile.open

\* What the current attempt has written so far.
AttemptIsWritten ==
    /\ pc \in {"append_response", "write_csv", "save"} /\ Intact(rowsFile) =>
            Latest(rowsFile, attempt.key) = RowLine
    /\ pc \in {"write_csv", "save"} /\ Intact(respFile) =>
            Latest(respFile, attempt.key) = ResponseLine
    /\ pc \in {"write_csv", "save"} => rows[attempt.key] = RowLine
    /\ pc = "save" => csv[attempt.key] = RowLine

RowsAreDurable == Intact(rowsFile) =>
    \A q \in ckpt.completed : Latest(rowsFile, q).val = "success"

MemoryHasRows == pc \in Underway /\ Intact(rowsFile) =>
    \A q \in ckpt.completed : rows[q].val = "success"

\* The inductive invariant behind TypeOK and BundleMatchesCheckpoint, given IInv.
RowsAreRows == \A i \in 1..Len(rowsFile.lines) : rowsFile.lines[i].val \in {"success", "failed"}

\* The batch has one pair for every question that was restored or attempted, with what is
\* on record of it.  A pair of an earlier invocation is of a question that is completed.
BatchIsCurrent ==
    /\ pc \in {"down", "loading"} => batch = <<>>
    /\ pc \in Underway =>
        /\ \A i, j \in DOMAIN batch : batch[i].key = batch[j].key => i = j
        /\ {batch[i].key : i \in DOMAIN batch} = Questions \ todo
        /\ \A i \in DOMAIN batch :
              /\ \/ batch[i].run = run
                 \/ batch[i].key \in ckpt.completed \ ckpt.failed
              /\ pc \in Recording /\ batch[i].key = attempt.key =>
                    batch[i].run = run /\ batch[i].response = attempt.response
              /\ Intact(rowsFile) /\ Intact(respFile) =>
                    (batch[i].key \in ckpt.completed => batch[i].response)

\* A question is completed or failed, not both.
Apart == ckpt.completed \cap ckpt.failed = {}

BundleInv == /\ BundleTypeOK
             /\ RowsAreRows /\ Apart /\ BatchIsCurrent
             /\ BundleMatchesCheckpoint

IInv == /\ StoreTypeOK
        /\ FolderIsNew /\ HeldIsSaved /\ TodoIsOpen /\ AttemptIsOpen
        /\ AllAccounted /\ NothingLeft /\ TailIsOpen /\ AttemptIsWritten
        /\ RowsAreDurable /\ MemoryHasRows
        /\ DurableCompletion /\ CsvCoversCheckpoint

\* A run folder with a checkpoint can be resumed ("only an incomplete last line is
\* safe to ignore and retry", the comment in _load_latest).  It does not hold.
ResumeNeverRefused == pc = "loading" /\ run > 1 /\ ckpt.status # "absent" => CanResume

\* The Phase 5 fields of a trace are those of the trace's own question
\* ("retrieval.json contains the full per-question execution trace").  It does not hold.
TraceKeepsItsQuestion ==
    \A i \in DOMAIN retrieval : retrieval[i].phase5 \in {0, retrieval[i].key}
=============================================================================
