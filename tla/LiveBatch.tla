------------------------------ MODULE LiveBatch ------------------------------
(***************************************************************************)
(* What a batch publishes on the live event bus, question by question: the  *)
(* order of the run events and of the context events that say where the     *)
(* batch is.  Execution shows how the runner comes to publish this.         *)
(***************************************************************************)
EXTENDS LiveBus

VARIABLES
    phase5,    \* the batch runs with Phase 5 enabled
    question,  \* 0 is the start of the batch, Questions + 1 its end
    script,    \* what is still to be published of the question
    stopped    \* no further question will be asked

steps == <<phase5, question, script, stopped>>
vars == <<live, steps>>

\* Phase 5 reports its runs itself, and the execution event of each start makes the
\* adapter publish a context; without it the adapter reports one run a question.
\* "done" is the context that counts the question.
Script == IF phase5
          THEN <<"context", "context", "run_started", "end", "done">>
          ELSE <<"run_started", "context", "done", "end">>

Init == /\ LiveInit
        /\ phase5 \in BOOLEAN
        /\ question = 0
        /\ script = <<"context">>
        /\ stopped = FALSE

NextQuestion == /\ Idle("pipeline")
                /\ script = <<>>
                /\ ~stopped
                /\ question <= Questions
                /\ question' = question + 1
                /\ script' = IF question' <= Questions THEN Script ELSE <<"context">>
                /\ UNCHANGED <<live, phase5, stopped>>

\* The next publish; the adapter has refreshed its snapshot.
Report == /\ Contains(subs, "adapter")
          /\ Idle("pipeline")
          /\ script # <<>>
          /\ script' = Tail(script)
          /\ snapshot' = [question |-> IF question <= Questions THEN question ELSE Questions,
                          completed |-> IF Head(script) = "done" THEN question
                                                                 ELSE snapshot.completed]
          /\ \E kind \in CASE Head(script) = "end" -> {"run_completed", "run_failed"}
                           [] Head(script) = "done" -> {"context"}
                           [] OTHER -> {Head(script)} :
                 Number("pipeline", kind, snapshot', <<>>)
          /\ UNCHANGED <<phase5, question, stopped, ticks, board, streams>>

\* The batch is interrupted in a question, which is counted all the same, or fails
\* after it; an interrupted Phase 5 run is not reported any more.
Stop == /\ Idle("pipeline")
        /\ ~stopped
        /\ question \in 1..Questions
        /\ script # Script
        /\ stopped' = TRUE
        /\ script' = IF phase5 /\ script # <<>> THEN <<"done">> ELSE script
        /\ UNCHANGED <<live, phase5, question>>

Pipeline == NextQuestion \/ Report
                \/ ((Attach \/ Call("pipeline")) /\ UNCHANGED steps)

Next == Pipeline \/ Stop \/ (Others /\ UNCHANGED steps)

\* What comes next is reported once the model has answered.
AwaitsModel == Idle("pipeline") /\ script \in {<<"end", "done">>, <<"done", "end">>}

\* Both threads run, but the model may never answer; the event loop gets round to every
\* stream.
Spec == /\ Init /\ [][Next]_vars
        /\ WF_vars(~AwaitsModel /\ Pipeline)
        /\ WF_vars(Server /\ UNCHANGED steps)
        /\ \A c \in Connections : WF_vars(Stream(c) /\ UNCHANGED steps)
=============================================================================
