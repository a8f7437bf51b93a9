------------------------------ MODULE Execution ------------------------------
(***************************************************************************)
(* The execution framework of a batch run: the runner emits events through  *)
(* the ExecutionManager, whose bus calls its handlers one after the other   *)
(* and survives the ones that raise.  The progress tracker counts, the      *)
(* observers write files and the console, and the adapter republishes on    *)
(* the live event bus what the dashboard is to show of the batch.  Events   *)
(* the adapter ignores change nothing here and are left out.                *)
(***************************************************************************)
EXTENDS LiveBus

VARIABLES
    phase5,    \* the batch runs with Phase 5 enabled
    stage,     \* of the runner
    position,  \* the question the runner is at
    index,     \* ExecutionManager._current_question_index, 0 for None
    emission,  \* the event being emitted and the handlers to be called
    outbox,    \* live events the pipeline thread publishes next
    progress,  \* ProgressTracker: current_question_index and completed
    recorded,  \* questions of this batch the checkpoint has recorded
    stopped    \* the batch was interrupted or failed

runner == <<phase5, stage, position, stopped>>
vars == <<live, runner, index, emission, outbox, progress, recorded>>

\* Mutant of Handlers: the adapter is subscribed before the progress tracker.
HandlersAdapterFirst == <<"adapter", "progress", "observers">>

\* In the order they subscribe: ExecutionManager.__init__, then execute.
Handlers == <<"progress", "observers", "adapter">>
NoEmission == [kind |-> "none", question |-> 0, left |-> <<>>]
Emissions == {"batch_started", "question_started", "phase5_started", "question_ended",
              "batch_completed"}
Stages == {"new", "looping", "answering", "running", "answered", "ending", "over"}

Init == /\ LiveInit
        /\ phase5 \in BOOLEAN
        /\ stage = "new"
        /\ position = 0
        /\ index = 0
        /\ emission = NoEmission
        /\ outbox = <<>>
        /\ progress = Nothing
        /\ recorded = 0
        /\ stopped = FALSE

-----------------------------------------------------------------------------
(* ExecutionManager.emit and EventBus.emit *)

Free == emission = NoEmission /\ outbox = <<>> /\ Idle("pipeline")

\* An event carries the question the manager is at; Phase 5 publishes its own live
\* event after it.
Emit(kind, q, then) == /\ Free
                       /\ emission' = [kind |-> kind, question |-> q, left |-> Handlers]
                       /\ outbox' = then

Handled(e) == IF Len(e.left) = 1 THEN NoEmission ELSE [e EXCEPT !.left = Tail(@)]

Track == /\ progress' = [question |-> IF emission.question # 0 THEN emission.question
                                                               ELSE progress.question,
                         completed |-> IF emission.kind = "question_ended"
                                       THEN progress.completed + 1 ELSE progress.completed]
         /\ emission' = Handled(emission)
         /\ UNCHANGED <<live, runner, index, outbox, recorded>>

\* Mutant of Observe: a handler that raises ends the batch.
ObserveUnguarded ==
    /\ \/ emission' = Handled(emission) /\ UNCHANGED stage
       \/ emission' = NoEmission /\ stage' = "over"
    /\ UNCHANGED <<live, phase5, position, stopped, index, outbox, progress, recorded>>

\* Metrics, trace, progress files, console and reporter; one that raises is warned
\* about and passed over.
Observe == /\ emission' = Handled(emission)
           /\ UNCHANGED <<live, runner, index, outbox, progress, recorded>>

\* Mutant of FromAdapter: the context comes before the start of the run.
FromAdapterContextFirst(kind) ==
    CASE kind = "question_started" /\ ~phase5 -> <<"context", "run_started">>
      [] kind = "question_ended" /\ ~phase5 -> <<"context", "end">>
      [] OTHER -> <<"context">>

\* What LiveExecutionAdapter.handle_execution publishes on an event.
FromAdapter(kind) ==
    CASE kind = "question_started" /\ ~phase5 -> <<"run_started", "context">>
      [] kind = "question_ended" /\ ~phase5 -> <<"context", "end">>
      [] OTHER -> <<"context">>

\* A run that is reported ends in either way.
LiveKinds(kind) == IF kind = "end" THEN {"run_completed", "run_failed"} ELSE {kind}

\* The adapter takes the question from the event, or from the tracker when the event
\* has none, and starts publishing.
Adapt == \E kind \in LiveKinds(Head(FromAdapter(emission.kind))) :
             LET at == IF emission.question # 0 THEN emission.question ELSE progress.question
                 seen == [question |-> at, completed |-> progress.completed]
             IN  /\ snapshot' = seen
                 /\ Number("pipeline", kind, seen, <<>>)
                 /\ outbox' = Tail(FromAdapter(emission.kind)) \o outbox
                 /\ emission' = Handled(emission)
                 /\ UNCHANGED <<ticks, board, streams, runner, index, progress, recorded>>

Handle == /\ emission # NoEmission
          /\ Idle("pipeline")
          /\ \/ Head(emission.left) = "progress" /\ Track
             \/ Head(emission.left) = "observers" /\ Observe
             \/ Head(emission.left) = "adapter" /\ Adapt

\* The adapter's other events, and those of Phase5Pipeline._emit.
PublishNext == /\ emission = NoEmission
               /\ outbox # <<>>
               /\ Idle("pipeline")
               /\ \E kind \in LiveKinds(Head(outbox)) :
                      Number("pipeline", kind, snapshot, <<>>)
               /\ outbox' = Tail(outbox)
               /\ UNCHANGED <<snapshot, ticks, board, streams, runner, index, emission,
                              progress, recorded>>

-----------------------------------------------------------------------------
(* The runner. *)

StartBatch == /\ stage = "new"
              /\ Contains(subs, "adapter")
              /\ stage' = "looping"
              /\ Emit("batch_started", 0, <<>>)
              /\ UNCHANGED <<live, phase5, position, stopped, index, progress, recorded>>

StartQuestion == /\ stage = "looping"
                 /\ position < Questions
                 /\ position' = position + 1
                 /\ index' = position'
                 /\ stage' = "answering"
                 /\ Emit("question_started", index', <<>>)
                 /\ UNCHANGED <<live, phase5, stopped, progress, recorded>>

StartPhase5 == /\ stage = "answering"
               /\ phase5
               /\ stage' = "running"
               /\ Emit("phase5_started", index, <<"run_started">>)
               /\ UNCHANGED <<live, phase5, position, stopped, index, progress, recorded>>

\* The execution event of the end of the run is one the adapter ignores.
EndPhase5 == /\ stage = "running"
             /\ Free
             /\ stage' = "answered"
             /\ outbox' = <<"end">>
             /\ UNCHANGED <<live, phase5, position, stopped, index, emission, progress,
                            recorded>>

\* question_completed or question_failed, on the way out of the answer; an interrupt
\* is passed on once the question is recorded.
EndQuestion == /\ \/ stage = (IF phase5 THEN "answered" ELSE "answering") /\ UNCHANGED stopped
                  \/ stage \in {"answering", "running", "answered"} /\ stopped' = TRUE
               /\ stage' = "ending"
               /\ Emit("question_ended", index, <<>>)
               /\ UNCHANGED <<live, phase5, position, index, progress, recorded>>

\* checkpoint_question; the manager has forgotten the question by then.
Record == /\ stage = "ending"
          /\ Free
          /\ recorded' = recorded + 1
          /\ index' = 0
          /\ stage' = IF stopped THEN "over" ELSE "looping"
          /\ UNCHANGED <<live, phase5, position, stopped, emission, outbox, progress>>

\* Writing the checkpoint fails, or exporting the results; fail_run does not reach the
\* adapter.
Fail == /\ \/ stage = "ending"
           \/ stage = "looping" /\ position = Questions
        /\ Free
        /\ stage' = "over"
        /\ stopped' = TRUE
        /\ index' = 0
        /\ UNCHANGED <<live, phase5, position, emission, outbox, progress, recorded>>

CompleteBatch == /\ stage = "looping"
                 /\ position = Questions
                 /\ stage' = "over"
                 /\ Emit("batch_completed", index, <<>>)
                 /\ UNCHANGED <<live, phase5, position, stopped, index, progress, recorded>>

Runner == \/ StartBatch \/ StartQuestion \/ StartPhase5 \/ EndPhase5
          \/ EndQuestion \/ Record \/ CompleteBatch

batch == <<runner, index, emission, outbox, progress, recorded>>

Delivery == (Attach \/ Call("pipeline")) /\ UNCHANGED batch

Pipeline == Runner \/ Handle \/ PublishNext \/ Delivery

Next == \/ Pipeline
        \/ Fail
        \/ Others /\ UNCHANGED batch

\* The runner has nothing to do until the model has answered.
AwaitsModel == stage = (IF phase5 THEN "running" ELSE "answering") /\ Free

\* Both threads run, but the model may never answer; the event loop gets round to every
\* stream.
Spec == /\ Init /\ [][Next]_vars
        /\ WF_vars(~AwaitsModel /\ Pipeline)
        /\ WF_vars(Server /\ UNCHANGED batch)
        /\ \A c \in Connections : WF_vars(Stream(c) /\ UNCHANGED batch)

-----------------------------------------------------------------------------
(* Properties. *)

\* The types of both buses.
TypeOK == /\ LiveTypeOK
          /\ phase5 \in BOOLEAN /\ stopped \in BOOLEAN
          /\ stage \in Stages
          /\ position \in 0..Questions /\ index \in 0..Questions /\ recorded \in 0..Questions
          /\ emission = NoEmission
                \/ emission \in [kind : Emissions, question : 0..Questions, left : Seq(Range(Handlers))]
          /\ outbox \in Seq({"context", "run_started", "end"})
          /\ progress \in Snapshot

\* Between two emissions the dashboard shows the question the runner is at and counts
\* every question that has ended, one more than the checkpoint at most: no reset of
\* the board by the start of a run leaves it without them.
ContextIsCurrent ==
    Free /\ stage # "new" =>
        /\ board.context.question = position
        /\ \/ board.context.completed = recorded + (IF stage = "ending" THEN 1 ELSE 0)
           \/ stage = "over" /\ stopped /\ board.context.completed = recorded + 1

\* Whatever the observers do, the batch asks and records every question, unless it is
\* interrupted, fails for a reason of its own, or waits for the model for ever.
EveryQuestionRecorded ==
    Contains(subs, "adapter") ~> \/ stage = "over" /\ (stopped \/ recorded = Questions)
                                 \/ []AwaitsModel

\* What the event being emitted still leads to, and what the runner has yet to publish
\* of its question.
Coming == IF emission = NoEmission THEN outbox ELSE FromAdapter(emission.kind) \o outbox
Remaining ==
    CASE stage = "new" -> <<"context">>
      [] stage = "answering" /\ phase5 -> Coming \o <<"context", "run_started", "end", "done">>
      [] stage = "answering" /\ ~phase5 -> Coming \o <<"done", "end">>
      [] stage = "running" -> Coming \o <<"end", "done">>
      [] stage = "answered" -> Coming \o <<"done">>
      [] stage = "ending" /\ emission # NoEmission -> <<"done">> \o Tail(Coming)
      [] OTHER -> Coming

LiveSpec == INSTANCE LiveBatch WITH
    question <- IF stage = "over" /\ ~stopped THEN Questions + 1 ELSE position,
    script <- Remaining

\* The two buses together publish what LiveBatch says, event by event, whichever mode
\* the batch is in and wherever it is interrupted.
PublishesScripts == LiveSpec!Spec
=============================================================================
