--------------------------- MODULE ExecutionProofs ---------------------------
(***************************************************************************)
(* Theorems about a batch run with its dashboard, for every number of       *)
(* questions, ticks and browsers: the dashboard shows the run event that    *)
(* was published last and the batch as it is, in spite of the resets, the   *)
(* nested publishes and the server's ticks; and the browsers' streams keep  *)
(* the promises they keep under LiveBatch.                                  *)
(***************************************************************************)
EXTENDS Execution, LiveBusProofs

\* The rest of the types of the live bus.
Bounded ==
    /\ Len(history) <= HistorySize
    /\ reported \in [kind : RunKinds \cup {"none"}, question : 0..Questions]
    /\ ticks \in 0..MaxTicks
    /\ board \in Board
    /\ overtaken \subseteq 1..sequence

\* The dashboard state is called first and once.
OnlyFirst(s) == \A j \in DOMAIN s : s[j] = "board" => j = 1
BoardFirst == subs # <<>> /\ subs[1] = "board" /\ OnlyFirst(subs)

\* The server only publishes ticks, and nothing answers them.
ServerTicks == /\ Len(stack["server"]) <= 1
               /\ \A i \in DOMAIN stack["server"] : stack["server"][i].event.kind = "tick"

calls == stack["pipeline"]

\* The pipeline is in one publish, or in the context with which the adapter answers the
\* start of a run.  Only the inner one can still have to call the dashboard state.
PipelineCalls ==
    /\ Len(calls) <= 2
    /\ Len(calls) = 2 => calls[1].event.kind = "context"
    /\ \A i \in DOMAIN calls :
          /\ OnlyFirst(calls[i].left)
          /\ i = 2 => calls[i].left[1] # "board"
          /\ calls[i].event.kind = "context" => calls[i].event.batch = snapshot
          /\ calls[i].left[1] = "board" /\ calls[i].event.kind = "run_started" =>
                Contains(calls[i].left, "adapter")

\* The board once the dashboard state has been called.
BoardPending == calls # <<>> /\ calls[1].left[1] = "board"
BoardNext == IF BoardPending THEN Applied(board, calls[1].event) ELSE board

\* The start of a run whose context is still to be published by the adapter.
ContextPending == /\ calls # <<>>
                  /\ calls[1].event.kind = "run_started"
                  /\ Contains(calls[1].left, "adapter")

StatusOf(kind) == CASE kind = "run_started" -> "running"
                    [] kind = "run_completed" -> "completed"
                    [] OTHER -> "failed"

BoardKeepsUp ==
    /\ reported.kind # "none" => /\ BoardNext.question = reported.question
                                 /\ BoardNext.status = StatusOf(reported.kind)
    /\ ~ContextPending => BoardNext.context = snapshot

BoardInv == Bounded /\ BoardFirst /\ ServerTicks /\ PipelineCalls /\ BoardKeepsUp

-----------------------------------------------------------------------------
(* The invariant of the runner. *)

InQuestion == stage \in {"answering", "running", "answered", "ending"}

RunnerTyped ==
    /\ phase5 \in BOOLEAN /\ stopped \in BOOLEAN /\ stage \in Stages
    /\ position \in 0..Questions /\ index \in 0..Questions /\ recorded \in 0..Questions
    /\ progress \in Snapshot
    /\ stage # "new" => Contains(subs, "adapter")
    /\ stage \in {"running", "answered"} => phase5

\* What is emitted where, and what of it has been handled.
EmissionInv ==
    emission # NoEmission =>
        /\ emission = [kind |-> emission.kind, question |-> emission.question,
                       left |-> emission.left]
        /\ emission.left \in {Handlers, <<"observers", "adapter">>, <<"adapter">>}
        /\ <<emission.kind, stage>> \in {<<"batch_started", "looping">>,
                                        <<"question_started", "answering">>,
                                        <<"phase5_started", "running">>,
                                        <<"question_ended", "ending">>,
                                        <<"batch_completed", "over">>}
        /\ emission.question = IF InQuestion THEN position ELSE 0

\* What is still to be published where.
OutboxInv ==
    /\ outbox \in {<<>>, <<"context">>, <<"run_started">>, <<"end">>}
    /\ outbox = <<"context">> => emission = NoEmission /\ stage = "answering" /\ ~phase5
    /\ outbox = <<"run_started">> => stage = "running"
    /\ outbox = <<"end">> => /\ emission = NoEmission
                             /\ stage = "answered" \/ (stage = "ending" /\ ~phase5)
    /\ emission # NoEmission /\ stage = "running" => outbox = <<"run_started">>

\* Which questions are counted where.
Counts ==
    /\ index = IF InQuestion THEN position ELSE 0
    /\ InQuestion => position = recorded + 1
    /\ stage \in {"new", "looping"} => position = recorded
    /\ stage = "new" => position = 0 /\ emission = NoEmission /\ outbox = <<>>
    /\ stage = "over" => position = recorded \/ (stopped /\ position = recorded + 1)
    /\ stage = "over" /\ ~stopped => position = Questions
    /\ stopped => stage \in {"ending", "over"}

Tracked ==
    /\ progress.completed =
          recorded + (IF \/ stage = "ending" /\ emission.left # Handlers
                         \/ stage = "over" /\ position = recorded + 1
                      THEN 1 ELSE 0)
    /\ ~(emission.kind = "question_started" /\ emission.left = Handlers) =>
           progress.question = position
    /\ emission = NoEmission => snapshot.question = position
    /\ ~(emission.kind = "question_ended" /\ emission.left # Handlers) =>
           snapshot.completed = progress.completed

\* A run whose end is still to be reported.
RunOpen == \/ ~phase5 /\ stage = "answering" /\ emission = NoEmission
           \/ ~phase5 /\ stage = "ending" /\ (emission # NoEmission \/ outbox = <<"end">>)
           \/ stage = "running" /\ emission = NoEmission /\ outbox = <<>>
           \/ stage = "answered" /\ outbox = <<"end">>
OpenRun == RunOpen => reported = [kind |-> "run_started", question |-> position]

RunnerInv == RunnerTyped /\ EmissionInv /\ OutboxInv /\ Counts /\ Tracked /\ OpenRun

\* The inductive invariant.
IInv == LiveInv /\ BoardInv /\ RunnerInv

-----------------------------------------------------------------------------
(* The dashboard state is called first. *)

LEMMA FirstAfterRemove ==
    ASSUME NEW S, NEW s \in Seq(S), NEW i \in DOMAIN s, s[1] = "board", OnlyFirst(s),
           s[i] # "board"
    PROVE  RemoveAt(s, i) # <<>> /\ RemoveAt(s, i)[1] = "board" /\ OnlyFirst(RemoveAt(s, i))
<1>1. i \in 1..Len(s) /\ i \in Nat /\ Len(s) \in Nat /\ DOMAIN s = 1..Len(s) /\ i > 1
  <2>1. i \in 1..Len(s) /\ i \in Nat /\ Len(s) \in Nat /\ DOMAIN s = 1..Len(s)
    OBVIOUS
  <2>2. i # 1
    OBVIOUS
  <2> QED
    BY <2>1, <2>2
<1>2. PICK r : r = RemoveAt(s, i)
  OBVIOUS
<1>3. /\ r \in Seq(S) /\ Len(r) = Len(s) - 1 /\ DOMAIN r = 1..(Len(s) - 1)
      /\ \A j \in 1..(Len(s) - 1) : r[j] = IF j < i THEN s[j] ELSE s[j + 1]
  BY <1>2, RemovedElements
<1>4. r # <<>> /\ r[1] = "board"
  BY <1>1, <1>3
<1>5. ASSUME NEW j \in 1..(Len(s) - 1), j # 1 PROVE r[j] # "board"
  <2>1. j \in 1..Len(s) /\ j + 1 \in 1..Len(s) /\ j + 1 # 1
    BY <1>1
  <2>2. s[j] # "board" /\ s[j + 1] # "board"
    BY <1>1, <1>5, <2>1 DEF OnlyFirst
  <2> QED
    BY <1>3, <2>2
<1>6. OnlyFirst(r)
  BY <1>3, <1>5 DEF OnlyFirst
<1> QED
  BY <1>2, <1>4, <1>6

LEMMA FirstAfterAppend ==
    ASSUME NEW S, NEW s \in Seq(S), NEW e \in S, s # <<>>, s[1] = "board", OnlyFirst(s),
           e # "board"
    PROVE  /\ Append(s, e) # <<>> /\ Append(s, e)[1] = "board"
           /\ OnlyFirst(Append(s, e))
<1>1. PICK r : r = Append(s, e)
  OBVIOUS
<1>2. /\ r # <<>> /\ DOMAIN r = 1..(Len(s) + 1) /\ r[Len(s) + 1] = e /\ Len(s) \in Nat
      /\ \A i \in 1..Len(s) : r[i] = s[i]
      /\ DOMAIN s = 1..Len(s) /\ 1 \in 1..Len(s)
  BY <1>1
<1>3. ASSUME NEW j \in 1..(Len(s) + 1), j # 1 PROVE r[j] # "board"
  <2>1. CASE j = Len(s) + 1
    BY <1>2, <2>1
  <2>2. CASE j # Len(s) + 1
    <3>1. j \in 1..Len(s)
      BY <1>2, <2>2
    <3> QED
      BY <1>2, <1>3, <3>1 DEF OnlyFirst
  <2> QED
    BY <2>1, <2>2
<1> QED
  BY <1>1, <1>2, <1>3 DEF OnlyFirst

\* Once the first subscriber has been called, the dashboard state has.
LEMMA FirstAfterTail ==
    ASSUME NEW s \in Seq(Subscribers), s # <<>>, Len(s) # 1, OnlyFirst(s)
    PROVE  OnlyFirst(Tail(s)) /\ Tail(s)[1] # "board"
<1>1. PICK r : r = Tail(s)
  OBVIOUS
<1>2. /\ Len(s) \in Nat /\ Len(s) > 1 /\ DOMAIN s = 1..Len(s)
      /\ DOMAIN r = 1..(Len(s) - 1)
      /\ \A j \in 1..(Len(s) - 1) : r[j] = s[j + 1]
  <2>1. Len(s) \in Nat /\ Len(s) >= 1 /\ DOMAIN s = 1..Len(s)
    OBVIOUS
  <2>2. Len(s) > 1
    BY <2>1
  <2>3. DOMAIN Tail(s) = 1..(Len(s) - 1) /\ \A j \in 1..(Len(s) - 1) : Tail(s)[j] = s[j + 1]
    OBVIOUS
  <2> QED
    BY <1>1, <2>1, <2>2, <2>3
<1>3. ASSUME NEW j \in 1..(Len(s) - 1) PROVE r[j] # "board"
  <2>1. j + 1 \in 1..Len(s) /\ j + 1 # 1
    BY <1>2
  <2>2. s[j + 1] # "board"
    BY <1>2, <2>1 DEF OnlyFirst
  <2> QED
    BY <1>2, <2>2
<1>4. 1 \in 1..(Len(s) - 1)
  BY <1>2
<1> QED
  BY <1>1, <1>2, <1>3, <1>4 DEF OnlyFirst

-----------------------------------------------------------------------------
(* Types. *)

LEMMA NothingTyped == Nothing \in Snapshot /\ EmptyBoard \in Board
<1>1. 0 \in 0..Questions
  BY LiveAssumption
<1> QED
  BY <1>1 DEF Nothing, Snapshot, EmptyBoard, Board

LEMMA AppliedTyped ==
    ASSUME NEW b \in Board, NEW e \in Event
    PROVE  Applied(b, e) \in Board
<1>1. e.batch \in Snapshot /\ e.batch.question \in 0..Questions
  BY DEF Event, Snapshot
<1>2. CASE e.kind = "run_started"
  <2>1. PICK q, a : /\ q = e.batch.question
                    /\ a = [EmptyBoard EXCEPT !.question = q, !.status = "running"]
    OBVIOUS
  <2>2. a \in Board
    BY <1>1, <2>1, NothingTyped DEF Board
  <2> QED
    BY <1>2, <2>1, <2>2 DEF Applied
<1>3. CASE e.kind = "run_completed"
  <2>1. [b EXCEPT !.status = "completed"] \in Board
    BY DEF Board
  <2> QED
    BY <1>3, <2>1 DEF Applied
<1>4. CASE e.kind = "run_failed"
  <2>1. [b EXCEPT !.status = "failed"] \in Board
    BY DEF Board
  <2> QED
    BY <1>4, <2>1 DEF Applied
<1>5. CASE e.kind = "context"
  <2>1. PICK x : x = e.batch
    OBVIOUS
  <2>2. [b EXCEPT !.context = x] \in Board
    BY <1>1, <2>1 DEF Board
  <2> QED
    BY <1>5, <2>1, <2>2 DEF Applied
<1> QED
  BY <1>2, <1>3, <1>4, <1>5 DEF Applied

\* What a context, an end and a tick leave of the board.
LEMMA AppliedFacts ==
    ASSUME NEW b \in Board, NEW e \in Event
    PROVE  /\ e.kind = "run_started" => /\ Applied(b, e).question = e.batch.question
                                        /\ Applied(b, e).status = "running"
           /\ e.kind = "context" => /\ Applied(b, e).question = b.question
                                    /\ Applied(b, e).status = b.status
                                    /\ Applied(b, e).context = e.batch
           /\ e.kind \in {"run_completed", "run_failed"} =>
                 /\ Applied(b, e).question = b.question
                 /\ Applied(b, e).status = StatusOf(e.kind)
                 /\ Applied(b, e).context = b.context
           /\ e.kind = "tick" => Applied(b, e) = b
<1>1. CASE e.kind = "run_started"
  <2>1. PICK q, a : /\ q = e.batch.question
                    /\ a = [EmptyBoard EXCEPT !.question = q, !.status = "running"]
    OBVIOUS
  <2>2. Applied(b, e) = a
    BY <1>1, <2>1 DEF Applied
  <2>3. a.question = q /\ a.status = "running"
    BY <2>1 DEF EmptyBoard
  <2> QED
    BY <1>1, <2>1, <2>2, <2>3
<1>2. CASE e.kind = "context"
  <2>1. PICK x, a : x = e.batch /\ a = [b EXCEPT !.context = x]
    OBVIOUS
  <2>2. Applied(b, e) = a
    BY <1>2, <2>1 DEF Applied
  <2>3. a.question = b.question /\ a.status = b.status /\ a.context = x
    BY <2>1 DEF Board
  <2> QED
    BY <1>2, <2>1, <2>2, <2>3
<1>3. CASE e.kind \in {"run_completed", "run_failed"}
  <2>1. PICK a : a = [b EXCEPT !.status = StatusOf(e.kind)]
    OBVIOUS
  <2>2. Applied(b, e) = a
    BY <1>3, <2>1 DEF Applied, StatusOf
  <2>3. a.question = b.question /\ a.status = StatusOf(e.kind) /\ a.context = b.context
    BY <2>1 DEF Board
  <2> QED
    BY <1>3, <2>2, <2>3
<1>4. CASE e.kind = "tick"
  BY <1>4 DEF Applied
<1> QED
  BY <1>1, <1>2, <1>3, <1>4

-----------------------------------------------------------------------------
(* The bounds. *)

LEMMA StoredBounded ==
    ASSUME BusTyped, Len(history) <= HistorySize, NEW e \in Event
    PROVE  Len(Stored(e)) <= HistorySize
<1>1. history \in Seq(Event) /\ Len(history) \in Nat /\ HistorySize \in Nat
  BY LiveAssumption DEF BusTyped
<1>2. PICK all : all = Append(history, e)
  OBVIOUS
<1>3. all \in Seq(Event) /\ Len(all) = Len(history) + 1 /\ all # <<>>
  BY <1>1, <1>2
<1>4. Len(Tail(all)) = Len(history)
  BY <1>1, <1>3
<1>5. CASE Len(all) > HistorySize
  <2>1. Stored(e) = Tail(all)
    BY <1>2, <1>5 DEF Stored
  <2> QED
    BY <1>4, <2>1
<1>6. CASE ~(Len(all) > HistorySize)
  <2>1. Stored(e) = all
    BY <1>2, <1>6 DEF Stored
  <2> QED
    BY <1>1, <1>3, <1>6, <2>1
<1> QED
  BY <1>5, <1>6

LEMMA OpenBounded == ASSUME BusTyped, FramesNewest PROVE OpenEvents \subseteq 1..sequence
<1>1. sequence \in Nat
  BY DEF BusTyped
<1>2. ASSUME NEW t \in Threads, NEW i \in DOMAIN stack[t] PROVE stack[t][i].event.seq \in 1..sequence
  <2>1. stack[t] \in Seq(Frame)
    BY DEF BusTyped
  <2>2. stack[t][i].event.seq \in Nat
    BY <2>1, FrameOf
  <2>3. stack[t][i].event.seq > 0 /\ stack[t][i].event.seq <= sequence
    BY DEF FramesNewest
  <2> QED
    BY <1>1, <2>2, <2>3
<1> QED
  BY <1>2 DEF OpenEvents

\* A publish keeps the bounds.
LEMMA NumberBounded ==
    ASSUME BusTyped, FramesNewest, Bounded, NEW t \in Threads, NEW kind \in Kinds,
           NEW batchOf \in Snapshot, NEW below, Number(t, kind, batchOf, below),
           ticks' \in 0..MaxTicks, UNCHANGED board
    PROVE  /\ Bounded'
           /\ kind \in RunKinds => reported' = [kind |-> kind, question |-> batchOf.question]
           /\ kind \notin RunKinds => reported' = reported
<1> DEFINE e == [seq |-> sequence + 1, kind |-> kind, batch |-> batchOf]
<1>1. /\ sequence' = sequence + 1 /\ history' = Stored(e)
      /\ overtaken' = overtaken \cup OpenEvents
      /\ reported' = IF kind \in RunKinds THEN [kind |-> kind, question |-> batchOf.question]
                                          ELSE reported
  BY DEF Number
<1>2. e \in Event /\ sequence \in Nat
  BY DEF Event, BusTyped
<1>3. Len(history') <= HistorySize
  BY <1>1, <1>2, StoredBounded DEF Bounded
<1>4. reported' \in [kind : RunKinds \cup {"none"}, question : 0..Questions]
  <2>1. batchOf.question \in 0..Questions
    BY DEF Snapshot
  <2> QED
    BY <1>1, <2>1 DEF Bounded
<1>5. overtaken' \subseteq 1..sequence'
  <2>1. overtaken \subseteq 1..sequence /\ OpenEvents \subseteq 1..sequence
    BY OpenBounded DEF Bounded
  <2>2. 1..sequence \subseteq 1..(sequence + 1)
    BY <1>2
  <2> QED
    BY <1>1, <2>1, <2>2
<1> QED
  BY <1>1, <1>3, <1>4, <1>5 DEF Bounded

-----------------------------------------------------------------------------
(* The pipeline's calls. *)

\* The calls of the pipeline that are left when a subscriber has been called: none of
\* them has to call the dashboard state.
LEMMA CalledShape ==
    ASSUME BusTyped, FramesNewest, PipelineCalls, calls # <<>>,
           NEW u, u = Called("pipeline")
    PROVE  /\ u \in Seq(Frame) /\ Len(u) <= Len(calls) /\ Len(calls) <= 2
           /\ \A i \in DOMAIN u :
                 /\ OnlyFirst(u[i].left) /\ u[i].left[1] # "board"
                 /\ u[i].event.kind = "context" => u[i].event.batch = snapshot
           /\ Len(u) = 2 => u[1].event.kind = "context"
           /\ Len(calls) = 1 => \A i \in DOMAIN u : i = 1 /\ u[i].event = calls[1].event
           /\ ContextPending /\ calls[1].left[1] # "adapter" =>
                 u # <<>> /\ u[1].event = calls[1].event /\ Contains(u[1].left, "adapter")
<1>1. PICK s : s = calls
  OBVIOUS
<1>2. /\ s \in Seq(Frame) /\ s # <<>> /\ Len(s) \in Nat /\ Len(s) >= 1 /\ Len(s) <= 2
      /\ DOMAIN s = 1..Len(s) /\ 1 \in 1..Len(s)
      /\ stack["pipeline"] = s
  <2>1. s \in Seq(Frame) /\ stack["pipeline"] = s
    BY <1>1 DEF BusTyped, calls, Threads
  <2>2. s # <<>> /\ Len(s) <= 2
    BY <1>1 DEF PipelineCalls
  <2> QED
    BY <2>1, <2>2
<1>3. PICK top : top = s[1]
  OBVIOUS
<1>4. /\ top \in Frame /\ top.left \in Seq(Subscribers) /\ top.left # <<>>
      /\ OnlyFirst(top.left) /\ top.event \in Event
      /\ top.event.kind = "context" => top.event.batch = snapshot
  <2>1. top \in Frame
    BY <1>2, <1>3
  <2>2. OnlyFirst(top.left) /\ (top.event.kind = "context" => top.event.batch = snapshot)
    BY <1>1, <1>2, <1>3 DEF PipelineCalls
  <2>3. top.left # <<>>
    BY <1>2, <1>3 DEF FramesNewest, Threads
  <2> QED
    BY <2>1, <2>2, <2>3 DEF Frame
<1>5. PICK rest : rest = top.left
  OBVIOUS
<1>6. /\ Len(rest) \in Nat /\ Head(rest) = rest[1] /\ rest \in Seq(Subscribers) /\ rest # <<>>
      /\ Contains(rest, "adapter") /\ rest[1] # "adapter" =>
            Contains(Tail(rest), "adapter") /\ Len(rest) # 1
  <2>1. Len(rest) \in Nat /\ Head(rest) = rest[1] /\ rest \in Seq(Subscribers) /\ rest # <<>>
    BY <1>4, <1>5
  <2> QED
    BY <2>1, LeftFacts
<1>7. CASE Len(rest) = 1
  <2>1. u = Tail(s)
    BY <1>2, <1>3, <1>5, <1>7 DEF Called
  <2>2. /\ u \in Seq(Frame) /\ Len(u) = Len(s) - 1 /\ DOMAIN u = 1..(Len(s) - 1)
        /\ \A i \in 1..(Len(s) - 1) : u[i] = s[i + 1]
    <3>1. /\ Tail(s) \in Seq(Frame) /\ Len(Tail(s)) = Len(s) - 1
          /\ \A i \in 1..(Len(s) - 1) : Tail(s)[i] = s[i + 1]
      <4>1. s \in Seq(Frame) /\ s # <<>>
        BY <1>2
      <4> QED
        BY <4>1
    <3>2. DOMAIN u = 1..Len(u)
      <4>1. u \in Seq(Frame)
        BY <2>1, <3>1
      <4> QED
        BY <4>1
    <3> QED
      BY <2>1, <3>1, <3>2
  <2>3. ASSUME NEW i \in 1..(Len(s) - 1)
        PROVE  /\ i = 1 /\ Len(s) = 2 /\ u[i] = s[2]
    BY <1>2, <2>2
  <2>4. Len(s) = 2 => /\ OnlyFirst(s[2].left) /\ s[2].left[1] # "board"
                      /\ s[2].event.kind = "context" => s[2].event.batch = snapshot
    <3> SUFFICES ASSUME Len(s) = 2
                 PROVE  /\ OnlyFirst(s[2].left) /\ s[2].left[1] # "board"
                        /\ s[2].event.kind = "context" => s[2].event.batch = snapshot
      OBVIOUS
    <3>1. 2 \in DOMAIN calls
      BY <1>1, <1>2
    <3> QED
      BY <1>1, <3>1 DEF PipelineCalls
  <2>5. ~(ContextPending /\ calls[1].left[1] # "adapter")
    BY <1>1, <1>3, <1>5, <1>6, <1>7 DEF ContextPending
  <2>6. Len(u) # 2 /\ Len(u) <= Len(s)
    BY <1>2, <2>2
  <2>7. \A i \in DOMAIN u :
           /\ OnlyFirst(u[i].left) /\ u[i].left[1] # "board"
           /\ u[i].event.kind = "context" => u[i].event.batch = snapshot
    BY <2>2, <2>3, <2>4
  <2>8. Len(s) = 1 => \A i \in DOMAIN u : FALSE
    BY <2>2, <2>3
  <2> QED
    BY <1>1, <1>2, <2>2, <2>5, <2>6, <2>7, <2>8
<1>8. CASE Len(rest) # 1
  <2>1. u = [s EXCEPT ![1].left = Tail(@)]
    BY <1>2, <1>3, <1>5, <1>8 DEF Called
  <2>2. PICK new : new = [top EXCEPT !.left = Tail(rest)]
    OBVIOUS
  <2>3. u = [s EXCEPT ![1] = new]
    BY <1>2, <1>3, <1>5, <2>1, <2>2
  <2>4. OnlyFirst(Tail(rest)) /\ Tail(rest)[1] # "board" /\ Tail(rest) \in Seq(Subscribers)
    BY <1>4, <1>5, <1>6, <1>8, LeftFacts, FirstAfterTail
  <2>5. new \in Frame /\ new.event = top.event /\ new.left = Tail(rest)
    <3>1. top \in [event : Event, left : Seq(Subscribers)]
      BY <1>4 DEF Frame
    <3>2. new \in [event : Event, left : Seq(Subscribers)]
      BY <2>2, <2>4, <3>1
    <3>3. new.event = top.event /\ new.left = Tail(rest)
      BY <2>2, <3>1
    <3> QED
      BY <3>2, <3>3 DEF Frame
  <2>6. /\ u \in Seq(Frame) /\ Len(u) = Len(s) /\ DOMAIN u = 1..Len(s)
        /\ u[1] = new /\ \A i \in 1..Len(s) : i # 1 => u[i] = s[i]
    BY <1>2, <2>3, <2>5
  <2>7. ASSUME NEW i \in 1..Len(s)
        PROVE  /\ OnlyFirst(u[i].left) /\ u[i].left[1] # "board"
               /\ u[i].event.kind = "context" => u[i].event.batch = snapshot
    <3>1. CASE i = 1
      BY <1>4, <2>4, <2>5, <2>6, <3>1
    <3>2. CASE i # 1
      <4>1. i = 2 /\ i \in DOMAIN calls /\ u[i] = s[i]
        BY <1>1, <1>2, <2>6, <3>2
      <4> QED
        BY <1>1, <4>1 DEF PipelineCalls
    <3> QED
      BY <3>1, <3>2
  <2>8. Len(u) = 2 => u[1].event.kind = "context"
    BY <1>1, <1>3, <2>5, <2>6 DEF PipelineCalls
  <2>9. Len(s) = 1 => \A i \in DOMAIN u : i = 1 /\ u[i].event = s[1].event
    BY <1>3, <2>5, <2>6
  <2>10. ContextPending /\ calls[1].left[1] # "adapter" =>
            u # <<>> /\ u[1].event = calls[1].event /\ Contains(u[1].left, "adapter")
    <3> SUFFICES ASSUME ContextPending, calls[1].left[1] # "adapter"
                 PROVE  u # <<>> /\ u[1].event = s[1].event /\ Contains(u[1].left, "adapter")
      BY <1>1
    <3>1. Contains(rest, "adapter") /\ rest[1] # "adapter"
      BY <1>1, <1>3, <1>5 DEF ContextPending
    <3>2. u # <<>>
      BY <1>2, <2>6
    <3> QED
      BY <1>3, <1>6, <2>5, <2>6, <3>1, <3>2
  <2> QED
    BY <1>1, <1>2, <2>6, <2>7, <2>8, <2>9, <2>10
<1> QED
  BY <1>7, <1>8

\* A subscriber has been called that published nothing.
LEMMA PoppedBoard ==
    ASSUME BusTyped, FramesNewest, BoardInv, calls # <<>>,
           ~(ContextPending /\ calls[1].left[1] = "adapter"),
           NEW u, u = Called("pipeline"), stack' = [stack EXCEPT !["pipeline"] = u],
           board' = BoardNext,
           UNCHANGED <<sequence, history, subs, overtaken, reported, snapshot, ticks>>
    PROVE  BoardInv'
<1>1. calls' = u /\ stack'["server"] = stack["server"]
  BY DEF BusTyped, Threads, calls
<1>2. Bounded /\ BoardFirst /\ ServerTicks /\ PipelineCalls /\ BoardKeepsUp
  BY DEF BoardInv
<1>3. /\ u \in Seq(Frame) /\ Len(u) <= Len(calls) /\ Len(calls) <= 2
      /\ \A i \in DOMAIN u :
            /\ OnlyFirst(u[i].left) /\ u[i].left[1] # "board"
            /\ u[i].event.kind = "context" => u[i].event.batch = snapshot
      /\ Len(u) = 2 => u[1].event.kind = "context"
      /\ ContextPending /\ calls[1].left[1] # "adapter" =>
            u # <<>> /\ u[1].event = calls[1].event /\ Contains(u[1].left, "adapter")
  BY <1>2, CalledShape
<1>4. PipelineCalls'
  <2>1. Len(u) <= 2
    <3>1. calls \in Seq(Frame)
      BY DEF BusTyped, Threads, calls
    <3>2. Len(calls) \in Nat /\ Len(u) \in Nat
      BY <1>3, <3>1
    <3> QED
      BY <1>3, <3>2
  <2> QED
    BY <1>1, <1>3, <2>1 DEF PipelineCalls, OnlyFirst, Contains
<1>5. ~BoardPending'
  <2>1. u # <<>> => 1 \in DOMAIN u
    BY <1>3
  <2> QED
    BY <1>1, <1>3, <2>1 DEF BoardPending
<1>6. Bounded'
  <2>1. BoardNext \in Board
    <3>1. CASE BoardPending
      <4>1. calls \in Seq(Frame) /\ 1 \in DOMAIN calls
        BY <3>1 DEF BusTyped, Threads, calls, BoardPending
      <4>2. calls[1].event \in Event
        BY <4>1, FrameOf
      <4> QED
        BY <1>2, <3>1, <4>2, AppliedTyped DEF BoardNext, Bounded
    <3>2. CASE ~BoardPending
      BY <1>2, <3>2 DEF BoardNext, Bounded
    <3> QED
      BY <3>1, <3>2
  <2> QED
    BY <1>2, <2>1 DEF Bounded
<1>7. BoardFirst' /\ ServerTicks'
  BY <1>1, <1>2 DEF BoardFirst, ServerTicks, OnlyFirst
<1>8. BoardNext' = BoardNext
  BY <1>5 DEF BoardNext
<1>9. ContextPending => ContextPending'
  <2> SUFFICES ASSUME ContextPending PROVE ContextPending'
    OBVIOUS
  <2>1. u # <<>> /\ u[1].event = calls[1].event /\ Contains(u[1].left, "adapter")
    BY <1>3
  <2> QED
    BY <1>1, <2>1 DEF ContextPending, Contains
<1>10. BoardKeepsUp'
  BY <1>2, <1>8, <1>9 DEF BoardKeepsUp
<1> QED
  BY <1>4, <1>6, <1>7, <1>10 DEF BoardInv

\* The calls of a thread that has numbered an event.
LEMMA NumberedCalls ==
    ASSUME BusTyped, NEW t \in Threads, NEW kind \in Kinds, NEW b \in Snapshot,
           NEW below \in Seq(Frame), Number(t, kind, b, below)
    PROVE  \E e \in Event :
             /\ e.kind = kind /\ e.batch = b
             /\ Len(stack'[t]) = Len(below) + 1 /\ stack'[t] # <<>>
             /\ DOMAIN stack'[t] = 1..(Len(below) + 1)
             /\ stack'[t][1].event = e /\ stack'[t][1].left = subs
             /\ \A i \in 1..Len(below) : stack'[t][i + 1] = below[i]
             /\ \A o \in Threads : o # t => stack'[o] = stack[o]
             /\ UNCHANGED subs
<1> DEFINE n == [seq |-> sequence + 1, kind |-> kind, batch |-> b]
<1>1. PICK e : e = n
  OBVIOUS
<1>2. e \in Event /\ e.kind = kind /\ e.batch = b
  BY <1>1 DEF BusTyped, Event
<1>3. PICK f : f = [event |-> e, left |-> subs]
  OBVIOUS
<1>4. f \in Frame /\ f.event = e /\ f.left = subs
  BY <1>2, <1>3 DEF BusTyped, Frame
<1>5. PICK s : s = <<f>> \o below
  OBVIOUS
<1>6. /\ s \in Seq(Frame) /\ Len(s) = Len(below) + 1 /\ s # <<>> /\ s[1] = f
      /\ \A i \in 1..Len(below) : s[i + 1] = below[i]
      /\ DOMAIN s = 1..Len(s)
  BY <1>4, <1>5
<1>7. stack' = [stack EXCEPT ![t] = s] /\ UNCHANGED subs
  BY <1>1, <1>3, <1>5 DEF Number
<1>8. stack'[t] = s /\ \A o \in Threads : o # t => stack'[o] = stack[o]
  BY <1>7 DEF BusTyped
<1>9. \E x \in Event : x = e
  BY <1>2
<1> QED
  BY <1>2, <1>4, <1>6, <1>7, <1>8, <1>9

\* A thread that was in no call is in one then.
LEMMA FirstCalls ==
    ASSUME BusTyped, NEW t \in Threads, NEW kind \in Kinds, NEW b \in Snapshot,
           Number(t, kind, b, <<>>)
    PROVE  \E e \in Event :
             /\ e.kind = kind /\ e.batch = b
             /\ Len(stack'[t]) = 1 /\ stack'[t] # <<>> /\ DOMAIN stack'[t] = 1..1
             /\ stack'[t][1].event = e /\ stack'[t][1].left = subs
             /\ \A o \in Threads : o # t => stack'[o] = stack[o]
             /\ UNCHANGED subs
<1>1. <<>> \in Seq(Frame) /\ Len(<<>>) = 0
  OBVIOUS
<1>2. PICK none : none = <<>> /\ none \in Seq(Frame) /\ Len(none) = 0
  <2>1. PICK none : none = <<>>
    OBVIOUS
  <2> QED
    BY <1>1, <2>1
<1>3. Number(t, kind, b, none)
  BY <1>2
<1>4. PICK e \in Event :
         /\ e.kind = kind /\ e.batch = b
         /\ Len(stack'[t]) = Len(none) + 1 /\ stack'[t] # <<>>
         /\ DOMAIN stack'[t] = 1..(Len(none) + 1)
         /\ stack'[t][1].event = e /\ stack'[t][1].left = subs
         /\ \A o \in Threads : o # t => stack'[o] = stack[o]
         /\ UNCHANGED subs
  <2>1. none \in Seq(Frame)
    BY <1>2
  <2> QED
    BY <1>3, <2>1, NumberedCalls
<1>5. Len(none) + 1 = 1
  BY <1>2
<1> QED
  BY <1>4, <1>5

\* The board when its subscriber has been called with an event that was just numbered.
LEMMA NumberedBoard ==
    ASSUME BoardFirst, NEW e, calls' # <<>>, calls'[1].event = e, calls'[1].left = subs,
           UNCHANGED board
    PROVE  BoardNext' = Applied(board, e)
<1>1. BoardPending'
  BY DEF BoardPending, BoardFirst
<1>2. BoardNext' = Applied(board', calls'[1].event)
  BY <1>1 DEF BoardNext, Applied, EmptyBoard, Nothing
<1> QED
  BY <1>2

\* The adapter answers the start of a run with the context.
LEMMA AdapterAnswers ==
    ASSUME BusTyped, FramesNewest, BoardInv, calls # <<>>, calls[1].left[1] = "adapter",
           calls[1].event.kind = "run_started",
           Number("pipeline", "context", snapshot, Called("pipeline")),
           UNCHANGED <<snapshot, ticks, board>>
    PROVE  BoardInv'
<1>1. Bounded /\ BoardFirst /\ ServerTicks /\ PipelineCalls /\ BoardKeepsUp
  BY DEF BoardInv
<1>2. PICK u : u = Called("pipeline")
  OBVIOUS
<1>3. /\ u \in Seq(Frame) /\ Len(u) <= Len(calls) /\ Len(calls) <= 2
      /\ \A i \in DOMAIN u :
            /\ OnlyFirst(u[i].left) /\ u[i].left[1] # "board"
            /\ u[i].event.kind = "context" => u[i].event.batch = snapshot
  BY <1>1, <1>2, CalledShape
<1>4. Len(u) \in Nat /\ Len(u) <= 1 /\ DOMAIN u = 1..Len(u)
  <2>1. calls \in Seq(Frame)
    BY DEF BusTyped, Threads, calls
  <2>2. Len(calls) # 2
    BY <1>1 DEF PipelineCalls
  <2>3. Len(calls) \in Nat /\ Len(u) \in Nat
    BY <1>3, <2>1
  <2>4. DOMAIN u = 1..Len(u)
    BY <1>3
  <2>5. Len(u) <= Len(calls) /\ Len(calls) <= 2
    BY <1>3
  <2>6. \A m, n \in Nat : m <= n /\ n <= 2 /\ n # 2 => m <= 1
    OBVIOUS
  <2> QED
    BY <2>2, <2>3, <2>4, <2>5, <2>6
<1>5. snapshot \in Snapshot
  BY DEF BusTyped
<1>6. PICK e \in Event :
         /\ e.kind = "context" /\ e.batch = snapshot
         /\ Len(calls') = Len(u) + 1 /\ calls' # <<>>
         /\ DOMAIN calls' = 1..(Len(u) + 1)
         /\ calls'[1].event = e /\ calls'[1].left = subs
         /\ \A i \in 1..Len(u) : calls'[i + 1] = u[i]
         /\ stack'["server"] = stack["server"]
         /\ UNCHANGED subs
  BY <1>2, <1>3, <1>5, NumberedCalls DEF Threads, Kinds, calls
<1>7. Bounded' /\ UNCHANGED reported
  <2>1. ticks' \in 0..MaxTicks
    BY <1>1 DEF Bounded
  <2> QED
    BY <1>1, <1>5, <2>1, NumberBounded DEF Threads, Kinds, RunKinds
<1>8. PipelineCalls'
  <2>1. Len(calls') <= 2 /\ 1 \in 1..(Len(u) + 1)
    BY <1>4, <1>6
  <2>2. ASSUME NEW i \in DOMAIN calls'
        PROVE  /\ OnlyFirst(calls'[i].left)
               /\ i = 2 => calls'[i].left[1] # "board"
               /\ calls'[i].event.kind = "context" => calls'[i].event.batch = snapshot
               /\ ~(calls'[i].left[1] = "board" /\ calls'[i].event.kind = "run_started")
    <3>1. CASE i = 1
      BY <1>1, <1>6, <3>1 DEF BoardFirst
    <3>2. CASE i # 1
      <4>1. i = 2 /\ 1 \in 1..Len(u) /\ calls'[i] = u[1]
        BY <1>4, <1>6, <3>2
      <4> QED
        BY <1>3, <1>4, <4>1
    <3> QED
      BY <3>1, <3>2
  <2> QED
    BY <1>6, <2>1, <2>2 DEF PipelineCalls, OnlyFirst
<1>9. BoardNext' = Applied(board, e)
  BY <1>1, <1>6, NumberedBoard
<1>10. BoardNext = board
  BY DEF BoardNext, BoardPending
<1>11. BoardKeepsUp'
  <2>1. Applied(board, e).question = board.question /\ Applied(board, e).status = board.status
        /\ Applied(board, e).context = snapshot
    BY <1>1, <1>6, AppliedFacts DEF Bounded
  <2> QED
    BY <1>1, <1>7, <1>9, <1>10, <2>1 DEF BoardKeepsUp
<1>12. BoardFirst' /\ ServerTicks'
  BY <1>1, <1>6 DEF BoardFirst, ServerTicks, OnlyFirst
<1> QED
  BY <1>7, <1>8, <1>11, <1>12 DEF BoardInv

\* The pipeline publishes an event of its own.
LEMMA PublishBoard ==
    ASSUME BusTyped, FramesNewest, BoardInv, calls = <<>>, Contains(subs, "adapter"),
           NEW kind \in Kinds \ {"tick"}, NEW b \in Snapshot,
           Number("pipeline", kind, b, <<>>),
           kind = "context" => b = snapshot',
           snapshot' # snapshot => kind \in {"context", "run_started"},
           kind \in {"run_completed", "run_failed"} =>
               reported.kind # "none" /\ reported.question = b.question,
           UNCHANGED <<ticks, board>>
    PROVE  BoardInv'
<1>1. Bounded /\ BoardFirst /\ ServerTicks /\ BoardKeepsUp
  BY DEF BoardInv
<1>3. PICK e \in Event :
         /\ e.kind = kind /\ e.batch = b
         /\ Len(calls') = 1 /\ calls' # <<>>
         /\ DOMAIN calls' = 1..1
         /\ calls'[1].event = e /\ calls'[1].left = subs
         /\ stack'["server"] = stack["server"]
         /\ UNCHANGED subs
  BY FirstCalls DEF Threads, calls
<1>4. /\ Bounded'
      /\ kind \in RunKinds => reported' = [kind |-> kind, question |-> b.question]
      /\ kind \notin RunKinds => reported' = reported
  <2>1. ticks' \in 0..MaxTicks
    BY <1>1 DEF Bounded
  <2> QED
    BY <1>1, <2>1, NumberBounded DEF Threads
<1>5. PipelineCalls'
  <2>1. \A i \in DOMAIN calls' : i = 1
    BY <1>3
  <2> QED
    BY <1>1, <1>3, <2>1 DEF PipelineCalls, OnlyFirst, BoardFirst, Contains
<1>6. BoardFirst' /\ ServerTicks'
  BY <1>1, <1>3 DEF BoardFirst, ServerTicks, OnlyFirst
<1>7. BoardNext' = Applied(board, e)
  BY <1>1, <1>3, NumberedBoard
<1>8. BoardNext = board /\ ~ContextPending
  BY DEF BoardNext, BoardPending, ContextPending
<1>9. /\ reported.kind # "none" => /\ board.question = reported.question
                                   /\ board.status = StatusOf(reported.kind)
      /\ board.context = snapshot /\ board \in Board
  BY <1>1, <1>8 DEF BoardKeepsUp, Bounded
<1>10. BoardKeepsUp'
  <2>1. CASE kind = "context"
    <3>1. /\ Applied(board, e).question = board.question
          /\ Applied(board, e).status = board.status
          /\ Applied(board, e).context = snapshot'
      BY <1>3, <1>9, <2>1, AppliedFacts
    <3>2. reported' = reported
      BY <1>4, <2>1 DEF RunKinds
    <3> QED
      BY <1>7, <1>9, <3>1, <3>2 DEF BoardKeepsUp
  <2>2. CASE kind = "run_started"
    <3>1. Applied(board, e).question = b.question /\ Applied(board, e).status = "running"
      BY <1>3, <1>9, <2>2, AppliedFacts
    <3>2. reported' = [kind |-> "run_started", question |-> b.question]
      BY <1>4, <2>2 DEF RunKinds
    <3>3. ContextPending'
      BY <1>3, <2>2 DEF ContextPending, Contains
    <3>4. StatusOf("run_started") = "running"
      BY DEF StatusOf
    <3>5. reported'.kind = "run_started" /\ reported'.question = b.question
      BY <3>2
    <3> QED
      BY <1>7, <3>1, <3>3, <3>4, <3>5 DEF BoardKeepsUp, StatusOf
  <2>3. CASE kind \in {"run_completed", "run_failed"}
    <3>1. /\ Applied(board, e).question = board.question
          /\ Applied(board, e).status = StatusOf(kind)
          /\ Applied(board, e).context = board.context
      BY <1>3, <1>9, <2>3, AppliedFacts
    <3>2. reported'.kind = kind /\ reported'.question = b.question
      BY <1>4, <2>3 DEF RunKinds
    <3>3. snapshot' = snapshot
      BY <2>3
    <3> QED
      BY <1>7, <1>9, <2>3, <3>1, <3>2, <3>3 DEF BoardKeepsUp, StatusOf
  <2> QED
    BY <2>1, <2>2, <2>3 DEF Kinds, RunKinds
<1> QED
  BY <1>4, <1>5, <1>6, <1>10 DEF BoardInv

\* Steps that leave the calls of the pipeline and the board as they are.
LEMMA BoardKept ==
    ASSUME BoardInv, Bounded', BoardFirst', ServerTicks',
           stack'["pipeline"] = stack["pipeline"],
           UNCHANGED <<reported, snapshot, board>>
    PROVE  BoardInv'
<1>1. calls' = calls
  BY DEF calls
<1>2. PipelineCalls /\ BoardKeepsUp
  BY DEF BoardInv
<1>3. PipelineCalls'
  BY <1>1, <1>2 DEF PipelineCalls, OnlyFirst, Contains
<1>4. BoardPending' = BoardPending /\ ContextPending' = ContextPending
  BY <1>1 DEF BoardPending, ContextPending, Contains
<1>5. BoardNext' = BoardNext
  BY <1>1, <1>4 DEF BoardNext, Applied, EmptyBoard, Nothing
<1>6. BoardKeepsUp'
  BY <1>2, <1>4, <1>5 DEF BoardKeepsUp
<1> QED
  BY <1>3, <1>6 DEF BoardInv

LEMMA TickBoard == ASSUME BusTyped, FramesNewest, BoardInv, Tick PROVE BoardInv'
<1>1. Bounded /\ BoardFirst /\ ServerTicks
  BY DEF BoardInv
<1>2. /\ Number("server", "tick", Nothing, <<>>)
      /\ ticks' = ticks + 1 /\ ticks < MaxTicks
      /\ UNCHANGED <<snapshot, board>>
  BY DEF Tick
<1>3. "tick" \in Kinds /\ "tick" \notin RunKinds /\ "server" \in Threads /\ "pipeline" \in Threads
  BY DEF Kinds, RunKinds, Threads
<1>4. ticks' \in 0..MaxTicks
  <2>1. ticks \in 0..MaxTicks /\ MaxTicks \in Nat
    BY <1>1, LiveAssumption DEF Bounded
  <2> QED
    BY <1>2, <2>1
<1>5. Bounded' /\ UNCHANGED reported
  BY <1>1, <1>2, <1>3, <1>4, NothingTyped, NumberBounded
<1>7. PICK e \in Event :
         /\ e.kind = "tick"
         /\ Len(stack'["server"]) = 1 /\ DOMAIN stack'["server"] = 1..1
         /\ stack'["server"][1].event = e
         /\ stack'["pipeline"] = stack["pipeline"]
         /\ UNCHANGED subs
  BY <1>2, <1>3, NothingTyped, FirstCalls
<1>8. ServerTicks'
  <2>1. \A i \in DOMAIN stack'["server"] : i = 1
    BY <1>7
  <2> QED
    BY <1>7, <2>1 DEF ServerTicks
<1>9. BoardFirst'
  BY <1>1, <1>7 DEF BoardFirst, OnlyFirst
<1> QED
  BY <1>2, <1>5, <1>7, <1>8, <1>9, BoardKept

LEMMA ServerCallBoard ==
    ASSUME BusTyped, FramesNewest, BoardInv, Call("server")
    PROVE  BoardInv'
<1>1. Bounded /\ BoardFirst /\ ServerTicks
  BY DEF BoardInv
<1>2. "server" \in Threads /\ ~Idle("server")
  BY DEF Threads, Call
<1>3. PICK s : s = stack["server"]
  OBVIOUS
<1>4. /\ s \in Seq(Frame) /\ s # <<>> /\ Len(s) \in Nat /\ Len(s) = 1 /\ DOMAIN s = 1..1
      /\ s[1].event \in Event /\ s[1].event.kind = "tick" /\ s[1] \in Frame
  <2>1. s \in Seq(Frame) /\ s # <<>> /\ Len(s) \in Nat /\ DOMAIN s = 1..Len(s)
    BY <1>2, <1>3 DEF BusTyped, Idle
  <2>2. Len(s) = 1
    <3>1. Len(s) <= 1
      BY <1>1, <1>3 DEF ServerTicks
    <3> QED
      BY <2>1, <3>1
  <2>3. 1 \in DOMAIN s
    BY <2>1, <2>2
  <2> QED
    BY <1>1, <1>3, <2>1, <2>2, <2>3, FrameOf DEF ServerTicks
<1>5. /\ stack' = [stack EXCEPT !["server"] = Called("server")] /\ board' = board
      /\ UNCHANGED <<sequence, history, subs, overtaken, reported, snapshot, ticks>>
  <2>1. Applied(board, s[1].event) = board
    BY <1>1, <1>4, AppliedFacts DEF Bounded
  <2>2. s[1].event.kind # "run_started"
    BY <1>4
  <2> QED
    BY <1>3, <2>1, <2>2 DEF Call
<1>6. stack'["server"] = Called("server") /\ stack'["pipeline"] = stack["pipeline"]
  BY <1>5 DEF BusTyped, Threads
<1>7. PICK u : u = Called("server")
  OBVIOUS
<1>8. /\ u \in Seq(Frame)
      /\ \A j \in DOMAIN u : \E i \in DOMAIN s : u[j].event = s[i].event
  BY <1>2, <1>3, <1>7, CalledFacts
<1>9. Len(u) <= 1
  <2>1. u = IF Len(s[1].left) = 1 THEN Tail(s) ELSE [s EXCEPT ![1].left = Tail(@)]
    BY <1>3, <1>7 DEF Called
  <2>2. CASE u = Tail(s)
    BY <1>4, <2>2
  <2>3. CASE u = [s EXCEPT ![1].left = Tail(@)]
    <3>1. DOMAIN u = 1..1
      BY <1>4, <2>3
    <3>2. Len(u) \in Nat /\ DOMAIN u = 1..Len(u)
      BY <1>8
    <3>3. Len(u) \notin 2..Len(u)
      BY <3>1, <3>2
    <3> QED
      BY <3>2, <3>3
  <2> QED
    BY <2>1, <2>2, <2>3
<1>10. ServerTicks'
  <2>1. \A i \in DOMAIN s : s[i].event.kind = "tick"
    BY <1>1, <1>3 DEF ServerTicks
  <2> QED
    BY <1>6, <1>7, <1>8, <1>9, <2>1 DEF ServerTicks
<1>11. Bounded' /\ BoardFirst'
  BY <1>1, <1>5 DEF Bounded, BoardFirst, OnlyFirst
<1> QED
  BY <1>5, <1>6, <1>10, <1>11, BoardKept

\* The pipeline's publish calls its next subscriber.
LEMMA PipelineCallBoard ==
    ASSUME BusTyped, FramesNewest, BoardInv, Call("pipeline")
    PROVE  BoardInv'
<1>1. /\ calls \in Seq(Frame) /\ calls # <<>> /\ 1 \in DOMAIN calls
      /\ calls = stack["pipeline"]
  BY DEF BusTyped, Threads, calls, Call, Idle
<1>2. PICK top : top = calls[1]
  OBVIOUS
<1>3. /\ top.left \in Seq(Subscribers) /\ top.left # <<>> /\ Head(top.left) = top.left[1]
      /\ top.event \in Event
  <2>1. top \in Frame /\ top.left \in Seq(Subscribers) /\ top.event \in Event
    BY <1>1, <1>2, FrameOf
  <2>2. top.left # <<>>
    BY <1>1, <1>2 DEF FramesNewest, Threads
  <2>3. Head(top.left) = top.left[1]
    BY <2>1, <2>2
  <2> QED
    BY <2>1, <2>2, <2>3
<1>4. UNCHANGED <<snapshot, ticks>>
  BY DEF Call
<1>5. CASE Head(top.left) = "adapter" /\ top.event.kind = "run_started"
  <2>1. Number("pipeline", "context", snapshot, Called("pipeline")) /\ UNCHANGED board
    BY <1>1, <1>2, <1>5, LiveAssumption DEF Call
  <2> QED
    BY <1>1, <1>2, <1>3, <1>4, <1>5, <2>1, AdapterAnswers
<1>6. CASE ~(Head(top.left) = "adapter" /\ top.event.kind = "run_started")
  <2>1. ~(ContextPending /\ calls[1].left[1] = "adapter")
    BY <1>2, <1>3, <1>6 DEF ContextPending
  <2>2. /\ stack' = [stack EXCEPT !["pipeline"] = Called("pipeline")]
        /\ UNCHANGED <<sequence, history, subs, overtaken, reported>>
        /\ board' = IF Head(top.left) = "board" THEN Applied(board, top.event) ELSE board
    BY <1>1, <1>2, <1>6, LiveAssumption DEF Call
  <2>3. board' = BoardNext
    BY <1>1, <1>2, <1>3, <2>2 DEF BoardNext, BoardPending
  <2> QED
    BY <1>1, <1>4, <2>1, <2>2, <2>3, PoppedBoard
<1> QED
  BY <1>5, <1>6

\* A change of the subscribers.
LEMMA SubscribersBoard ==
    ASSUME BoardInv, BoardFirst',
           UNCHANGED <<sequence, history, stack, overtaken, reported, snapshot, ticks, board>>
    PROVE  BoardInv'
<1>1. Bounded' /\ ServerTicks'
  BY DEF BoardInv, Bounded, ServerTicks
<1> QED
  BY <1>1, BoardKept

LEMMA AttachBoard == ASSUME BusTyped, BoardInv, Attach PROVE BoardInv'
<1>1. BoardFirst /\ subs \in Seq(Subscribers)
  BY DEF BoardInv, BusTyped
<1>2. subs' = Append(subs, "adapter")
  BY DEF Attach
<1>3. "adapter" \in Subscribers /\ "adapter" # "board"
  BY DEF Subscribers
<1>4. BoardFirst'
  <2>1. PICK s : s = subs'
    OBVIOUS
  <2>2. s # <<>> /\ s[1] = "board" /\ OnlyFirst(s)
    BY <1>1, <1>2, <1>3, <2>1, FirstAfterAppend DEF BoardFirst
  <2> QED
    BY <2>1, <2>2 DEF BoardFirst, OnlyFirst
<1> QED
  BY <1>4, SubscribersBoard DEF Attach

LEMMA ConnectBoard ==
    ASSUME BusTyped, BoardInv, NEW c \in Connections, Connect(c)
    PROVE  BoardInv'
<1>1. BoardFirst /\ subs \in Seq(Subscribers)
  BY DEF BoardInv, BusTyped
<1>2. subs' = Append(subs, c)
  BY DEF Connect
<1>3. c \in Subscribers /\ c # "board"
  BY LiveAssumption DEF Subscribers
<1>4. BoardFirst'
  <2>1. PICK s : s = subs'
    OBVIOUS
  <2>2. s # <<>> /\ s[1] = "board" /\ OnlyFirst(s)
    BY <1>1, <1>2, <1>3, <2>1, FirstAfterAppend DEF BoardFirst
  <2> QED
    BY <2>1, <2>2 DEF BoardFirst, OnlyFirst
<1> QED
  BY <1>4, SubscribersBoard DEF Connect

LEMMA DisconnectBoard ==
    ASSUME BusTyped, BoardInv, NEW c \in Connections, Disconnect(c)
    PROVE  BoardInv'
<1>1. BoardFirst /\ subs \in Seq(Subscribers)
  BY DEF BoardInv, BusTyped
<1>2. PICK i \in DOMAIN subs : subs[i] = c /\ subs' = RemoveAt(subs, i)
  BY DEF Disconnect
<1>3. c # "board"
  BY LiveAssumption
<1>4. BoardFirst'
  <2>1. PICK s : s = subs'
    OBVIOUS
  <2>2. s # <<>> /\ s[1] = "board" /\ OnlyFirst(s)
    BY <1>1, <1>2, <1>3, <2>1, FirstAfterRemove DEF BoardFirst
  <2> QED
    BY <2>1, <2>2 DEF BoardFirst, OnlyFirst
<1> QED
  BY <1>4, SubscribersBoard DEF Disconnect

\* Everything that happens besides the pipeline.
LEMMA OthersBoard ==
    ASSUME BusTyped, FramesNewest, BoardInv, Others
    PROVE  BoardInv' /\ UNCHANGED <<snapshot, reported>>
                     /\ (Contains(subs, "adapter") => Contains(subs', "adapter"))
                     /\ stack'["pipeline"] = stack["pipeline"]
<1>1. CASE Tick
  <2>1. "server" \in Threads /\ Number("server", "tick", Nothing, <<>>) /\ UNCHANGED snapshot
    BY <1>1 DEF Threads, Tick
  <2>2. UNCHANGED <<subs, reported>> /\ stack'["pipeline"] = stack["pipeline"]
    BY <2>1 DEF Number, RunKinds, BusTyped, Threads
  <2> QED
    BY <1>1, <2>1, <2>2, TickBoard DEF Contains
<1>2. CASE Call("server")
  <2>1. BoardInv'
    BY <1>2, ServerCallBoard
  <2>2. UNCHANGED snapshot
    BY <1>2 DEF Call
  <2>3. stack["server"][1].event.kind # "run_started"
    <3>1. stack["server"] \in Seq(Frame) /\ stack["server"] # <<>>
      BY <1>2 DEF BusTyped, Threads, Call, Idle
    <3>2. 1 \in DOMAIN stack["server"]
      BY <3>1
    <3>3. stack["server"][1].event.kind = "tick"
      BY <3>2 DEF BoardInv, ServerTicks
    <3> QED
      BY <3>3
  <2>4. UNCHANGED <<subs, reported>> /\ stack' = [stack EXCEPT !["server"] = Called("server")]
    BY <1>2, <2>3 DEF Call
  <2>5. stack'["pipeline"] = stack["pipeline"]
    BY <2>4 DEF BusTyped, Threads
  <2> QED
    BY <2>1, <2>2, <2>4, <2>5 DEF Contains
<1>3. ASSUME NEW c \in Connections, Connect(c)
      PROVE  BoardInv' /\ UNCHANGED <<snapshot, reported>>
                       /\ (Contains(subs, "adapter") => Contains(subs', "adapter"))
                       /\ stack'["pipeline"] = stack["pipeline"]
  <2>1. c \in Subscribers /\ subs \in Seq(Subscribers)
    BY DEF Subscribers, BusTyped
  <2>2. subs' = Append(subs, c) /\ UNCHANGED <<snapshot, reported, stack>>
    BY <1>3 DEF Connect
  <2>3. Contains(subs, "adapter") => Contains(subs', "adapter")
    BY <2>1, <2>2, AppendKeeps
  <2> QED
    BY <1>3, <2>2, <2>3, ConnectBoard
<1>4. ASSUME NEW c \in Connections, Disconnect(c)
      PROVE  BoardInv' /\ UNCHANGED <<snapshot, reported>>
                       /\ (Contains(subs, "adapter") => Contains(subs', "adapter"))
                       /\ stack'["pipeline"] = stack["pipeline"]
  <2>1. PICK i \in DOMAIN subs : subs[i] = c /\ subs' = RemoveAt(subs, i)
    BY <1>4 DEF Disconnect
  <2>2. subs \in Seq(Subscribers) /\ c # "adapter" /\ UNCHANGED <<snapshot, reported, stack>>
    BY <1>4, LiveAssumption DEF BusTyped, Disconnect
  <2>3. Contains(subs, "adapter") => Contains(subs', "adapter")
    BY <2>1, <2>2, RemoveKeeps
  <2> QED
    BY <1>4, <2>2, <2>3, DisconnectBoard
<1>5. ASSUME NEW c \in Connections, Stream(c)
      PROVE  BoardInv' /\ UNCHANGED <<snapshot, reported>>
                       /\ (Contains(subs, "adapter") => Contains(subs', "adapter"))
                       /\ stack'["pipeline"] = stack["pipeline"]
  <2>1. UNCHANGED <<sequence, history, subs, stack, overtaken, reported, snapshot, ticks, board>>
    BY <1>5 DEF Stream, ReadHistory, Replay, Follow, bus
  <2>2. BoardFirst'
    BY <2>1 DEF BoardInv, BoardFirst, OnlyFirst
  <2> QED
    BY <2>1, <2>2, SubscribersBoard DEF Contains
<1> QED
  BY <1>1, <1>2, <1>3, <1>4, <1>5 DEF Others, Server, Browser

LEMMA BoardStutter == ASSUME BoardInv, UNCHANGED live PROVE BoardInv'
<1>1. UNCHANGED <<sequence, history, subs, stack, overtaken, reported, snapshot, ticks, board>>
  BY DEF live, bus
<1>2. BoardFirst'
  BY <1>1 DEF BoardInv, BoardFirst, OnlyFirst
<1> QED
  BY <1>1, <1>2, SubscribersBoard

LEMMA BoardInitInv == ASSUME LiveInit PROVE BoardInv
<1>1. /\ stack["server"] = <<>> /\ calls = <<>> /\ history = <<>> /\ sequence = 0
      /\ overtaken = {} /\ ticks = 0 /\ board = EmptyBoard /\ snapshot = Nothing
      /\ reported = [kind |-> "none", question |-> 0] /\ subs = <<"board">>
  BY DEF LiveInit, calls, Threads
<1>2. Bounded
  <2>1. Len(history) <= HistorySize
    BY <1>1, LiveAssumption
  <2>2. ticks \in 0..MaxTicks /\ 0 \in 0..Questions
    BY <1>1, LiveAssumption
  <2> QED
    BY <1>1, <2>1, <2>2, NothingTyped DEF Bounded
<1>3. BoardFirst
  BY <1>1 DEF BoardFirst, OnlyFirst
<1>4. ServerTicks /\ PipelineCalls
  BY <1>1 DEF ServerTicks, PipelineCalls
<1>5. BoardKeepsUp
  BY <1>1 DEF BoardKeepsUp, BoardNext, BoardPending, ContextPending, EmptyBoard
<1> QED
  BY <1>2, <1>3, <1>4, <1>5 DEF BoardInv

-----------------------------------------------------------------------------
(* The steps of the runner. *)

LEMMA Emitting ==
    ASSUME NEW kind \in Emissions, NEW q, NEW then, Emit(kind, q, then)
    PROVE  /\ emission = NoEmission /\ outbox = <<>> /\ outbox' = then
           /\ emission' = [kind |-> kind, question |-> q, left |-> Handlers]
           /\ emission' # NoEmission /\ emission'.kind = kind /\ emission'.question = q
           /\ emission'.left = Handlers
<1>1. /\ emission = NoEmission /\ outbox = <<>> /\ outbox' = then
      /\ emission' = [kind |-> kind, question |-> q, left |-> Handlers]
  BY DEF Emit, Free
<1>2. emission'.kind = kind /\ emission'.question = q /\ emission'.left = Handlers
  BY <1>1
<1>3. NoEmission.kind = "none" /\ "none" \notin Emissions
  BY DEF NoEmission, Emissions
<1> QED
  BY <1>1, <1>2, <1>3

LEMMA NoneEmitted ==
    /\ NoEmission.kind = "none" /\ NoEmission.question = 0 /\ NoEmission.left = <<>>
    /\ NoEmission.left # Handlers
<1>1. Handlers # <<>>
  BY DEF Handlers
<1> QED
  BY <1>1 DEF NoEmission

LEMMA StartBatchInv == ASSUME RunnerInv, StartBatch PROVE RunnerInv'
<1>1. RunnerTyped /\ EmissionInv /\ OutboxInv /\ Counts /\ Tracked /\ OpenRun
  BY DEF RunnerInv
<1>2. /\ stage = "new" /\ stage' = "looping" /\ Contains(subs, "adapter")
      /\ UNCHANGED <<subs, snapshot, reported, phase5, position, stopped, index, progress, recorded>>
  BY DEF StartBatch, live, bus
<1>3. /\ emission = NoEmission /\ outbox' = <<>>
      /\ emission' = [kind |-> "batch_started", question |-> 0, left |-> Handlers]
      /\ emission' # NoEmission /\ emission'.kind = "batch_started" /\ emission'.question = 0
      /\ emission'.left = Handlers
  BY Emitting DEF StartBatch, Emissions
<1>4. RunnerTyped'
  BY <1>1, <1>2 DEF RunnerTyped, Stages, Contains
<1>5. EmissionInv' /\ OutboxInv'
  BY <1>2, <1>3 DEF EmissionInv, OutboxInv, InQuestion
<1>6. Counts'
  BY <1>1, <1>2 DEF Counts, InQuestion
<1>7. Tracked'
  BY <1>1, <1>2, <1>3, NoneEmitted DEF Tracked
<1>8. OpenRun'
  BY <1>2 DEF OpenRun, RunOpen
<1> QED
  BY <1>4, <1>5, <1>6, <1>7, <1>8 DEF RunnerInv

LEMMA StartQuestionInv == ASSUME RunnerInv, StartQuestion PROVE RunnerInv'
<1>1. RunnerTyped /\ EmissionInv /\ OutboxInv /\ Counts /\ Tracked /\ OpenRun
  BY DEF RunnerInv
<1>2. /\ stage = "looping" /\ stage' = "answering" /\ position < Questions
      /\ position' = position + 1 /\ index' = position'
      /\ UNCHANGED <<subs, snapshot, reported, phase5, stopped, progress, recorded>>
  BY DEF StartQuestion, live, bus
<1>3. /\ emission = NoEmission /\ outbox' = <<>>
      /\ emission' = [kind |-> "question_started", question |-> index', left |-> Handlers]
      /\ emission' # NoEmission /\ emission'.kind = "question_started"
      /\ emission'.question = index' /\ emission'.left = Handlers
  BY Emitting DEF StartQuestion, Emissions
<1>4. position' \in 0..Questions
  BY <1>1, <1>2, LiveAssumption DEF RunnerTyped
<1>5. RunnerTyped'
  BY <1>1, <1>2, <1>4 DEF RunnerTyped, Stages, Contains
<1>6. EmissionInv' /\ OutboxInv'
  BY <1>2, <1>3 DEF EmissionInv, OutboxInv, InQuestion
<1>7. Counts'
  BY <1>1, <1>2 DEF Counts, InQuestion
<1>8. Tracked'
  BY <1>1, <1>2, <1>3, NoneEmitted DEF Tracked
<1>9. OpenRun'
  BY <1>2, <1>3 DEF OpenRun, RunOpen
<1> QED
  BY <1>5, <1>6, <1>7, <1>8, <1>9 DEF RunnerInv

LEMMA StartPhase5Inv == ASSUME RunnerInv, StartPhase5 PROVE RunnerInv'
<1>1. RunnerTyped /\ EmissionInv /\ OutboxInv /\ Counts /\ Tracked /\ OpenRun
  BY DEF RunnerInv
<1>2. /\ stage = "answering" /\ stage' = "running" /\ phase5
      /\ UNCHANGED <<subs, snapshot, reported, phase5, position, stopped, index, progress, recorded>>
  BY DEF StartPhase5, live, bus
<1>3. /\ emission = NoEmission /\ outbox' = <<"run_started">>
      /\ emission' = [kind |-> "phase5_started", question |-> index, left |-> Handlers]
      /\ emission' # NoEmission /\ emission'.kind = "phase5_started"
      /\ emission'.question = index /\ emission'.left = Handlers
  BY Emitting DEF StartPhase5, Emissions
<1>4. RunnerTyped'
  BY <1>1, <1>2 DEF RunnerTyped, Stages, Contains
<1>5. index = position
  BY <1>1, <1>2 DEF Counts, InQuestion
<1>6. EmissionInv'
  BY <1>2, <1>3, <1>5 DEF EmissionInv, InQuestion
<1>7. OutboxInv'
  BY <1>2, <1>3 DEF OutboxInv
<1>8. Counts'
  BY <1>1, <1>2 DEF Counts, InQuestion
<1>9. Tracked'
  BY <1>1, <1>2, <1>3, NoneEmitted DEF Tracked
<1>10. OpenRun'
  BY <1>2, <1>3 DEF OpenRun, RunOpen
<1> QED
  BY <1>4, <1>6, <1>7, <1>8, <1>9, <1>10 DEF RunnerInv

LEMMA EndPhase5Inv == ASSUME RunnerInv, EndPhase5 PROVE RunnerInv'
<1>1. RunnerTyped /\ EmissionInv /\ OutboxInv /\ Counts /\ Tracked /\ OpenRun
  BY DEF RunnerInv
<1>2. /\ stage = "running" /\ stage' = "answered" /\ emission = NoEmission /\ outbox = <<>>
      /\ outbox' = <<"end">>
      /\ UNCHANGED <<subs, snapshot, reported, phase5, position, stopped, index, emission,
                     progress, recorded>>
  BY DEF EndPhase5, Free, live, bus
<1>3. RunnerTyped'
  BY <1>1, <1>2 DEF RunnerTyped, Stages, Contains
<1>4. EmissionInv' /\ OutboxInv'
  BY <1>2 DEF EmissionInv, OutboxInv, NoEmission
<1>5. Counts'
  BY <1>1, <1>2 DEF Counts, InQuestion
<1>6. Tracked'
  BY <1>1, <1>2, NoneEmitted DEF Tracked
<1>7. OpenRun'
  BY <1>1, <1>2 DEF OpenRun, RunOpen
<1> QED
  BY <1>3, <1>4, <1>5, <1>6, <1>7 DEF RunnerInv

LEMMA EndQuestionInv == ASSUME RunnerInv, EndQuestion PROVE RunnerInv'
<1>1. RunnerTyped /\ EmissionInv /\ OutboxInv /\ Counts /\ Tracked /\ OpenRun
  BY DEF RunnerInv
<1>2. /\ stage \in {"answering", "running", "answered"} /\ stage' = "ending"
      /\ stopped' \in BOOLEAN
      /\ UNCHANGED <<subs, snapshot, reported, phase5, position, index, progress, recorded>>
  BY <1>1 DEF EndQuestion, live, bus, RunnerTyped
<1>3. /\ emission = NoEmission /\ outbox' = <<>>
      /\ emission' = [kind |-> "question_ended", question |-> index, left |-> Handlers]
      /\ emission' # NoEmission /\ emission'.kind = "question_ended"
      /\ emission'.question = index /\ emission'.left = Handlers
  BY Emitting DEF EndQuestion, Emissions
<1>4. RunnerTyped'
  BY <1>1, <1>2 DEF RunnerTyped, Stages, Contains
<1>5. index = position
  BY <1>1, <1>2 DEF Counts, InQuestion
<1>6. EmissionInv'
  BY <1>2, <1>3, <1>5 DEF EmissionInv, InQuestion
<1>7. OutboxInv'
  BY <1>2, <1>3 DEF OutboxInv
<1>8. Counts'
  BY <1>1, <1>2 DEF Counts, InQuestion
<1>9. Tracked'
  BY <1>1, <1>2, <1>3, NoneEmitted DEF Tracked
<1>10. OpenRun'
  <2> SUFFICES ASSUME ~phase5 PROVE RunOpen
    BY <1>1, <1>2 DEF OpenRun, RunOpen
  <2>1. stage = "answering"
    BY <1>1, <1>2 DEF RunnerTyped
  <2> QED
    BY <1>3, <2>1 DEF RunOpen
<1> QED
  BY <1>4, <1>6, <1>7, <1>8, <1>9, <1>10 DEF RunnerInv

LEMMA RecordInv == ASSUME RunnerInv, Record PROVE RunnerInv'
<1>1. RunnerTyped /\ EmissionInv /\ OutboxInv /\ Counts /\ Tracked /\ OpenRun
  BY DEF RunnerInv
<1>2. /\ stage = "ending" /\ stage' = (IF stopped THEN "over" ELSE "looping")
      /\ emission = NoEmission /\ outbox = <<>> /\ index' = 0 /\ recorded' = recorded + 1
      /\ UNCHANGED <<subs, snapshot, reported, phase5, position, stopped, emission, outbox,
                     progress>>
  BY DEF Record, Free, live, bus
<1>3. position = recorded + 1
  BY <1>1, <1>2 DEF Counts, InQuestion
<1>4. RunnerTyped'
  <2>1. recorded' \in 0..Questions /\ 0 \in 0..Questions
    BY <1>1, <1>2, <1>3, LiveAssumption DEF RunnerTyped
  <2> QED
    BY <1>1, <1>2, <2>1 DEF RunnerTyped, Stages, Contains
<1>5. EmissionInv' /\ OutboxInv'
  BY <1>2 DEF EmissionInv, OutboxInv, NoEmission
<1>6. Counts'
  BY <1>1, <1>2, <1>3 DEF Counts, InQuestion
<1>7. Tracked'
  <2>1. recorded \in Nat /\ position # position + 1
    BY <1>1, LiveAssumption DEF RunnerTyped
  <2> QED
    BY <1>1, <1>2, <1>3, <2>1, NoneEmitted DEF Tracked
<1>8. OpenRun'
  BY <1>1, <1>2 DEF OpenRun, RunOpen
<1> QED
  BY <1>4, <1>5, <1>6, <1>7, <1>8 DEF RunnerInv

LEMMA FailInv == ASSUME RunnerInv, Fail PROVE RunnerInv'
<1>1. RunnerTyped /\ EmissionInv /\ OutboxInv /\ Counts /\ Tracked /\ OpenRun
  BY DEF RunnerInv
<1>2. /\ stage \in {"ending", "looping"} /\ stage' = "over" /\ stopped' = TRUE
      /\ emission = NoEmission /\ outbox = <<>> /\ index' = 0
      /\ UNCHANGED <<subs, snapshot, reported, phase5, position, emission, outbox, progress,
                     recorded>>
  BY DEF Fail, Free, live, bus
<1>3. /\ stage = "ending" => position = recorded + 1
      /\ stage = "looping" => position = recorded
  BY <1>1 DEF Counts, InQuestion
<1>4. RunnerTyped'
  <2>1. 0 \in 0..Questions
    BY LiveAssumption
  <2> QED
    BY <1>1, <1>2, <2>1 DEF RunnerTyped, Stages, Contains
<1>5. EmissionInv' /\ OutboxInv'
  BY <1>2 DEF EmissionInv, OutboxInv, NoEmission
<1>6. Counts'
  BY <1>1, <1>2, <1>3 DEF Counts, InQuestion
<1>7. Tracked'
  <2>1. recorded \in Nat /\ recorded # recorded + 1
    BY <1>1, LiveAssumption DEF RunnerTyped
  <2> QED
    BY <1>1, <1>2, <1>3, <2>1, NoneEmitted DEF Tracked
<1>8. OpenRun'
  BY <1>1, <1>2 DEF OpenRun, RunOpen
<1> QED
  BY <1>4, <1>5, <1>6, <1>7, <1>8 DEF RunnerInv

LEMMA CompleteBatchInv == ASSUME RunnerInv, CompleteBatch PROVE RunnerInv'
<1>1. RunnerTyped /\ EmissionInv /\ OutboxInv /\ Counts /\ Tracked /\ OpenRun
  BY DEF RunnerInv
<1>2. /\ stage = "looping" /\ stage' = "over" /\ position = Questions
      /\ UNCHANGED <<subs, snapshot, reported, phase5, position, stopped, index, progress, recorded>>
  BY DEF CompleteBatch, live, bus
<1>3. /\ emission = NoEmission /\ outbox' = <<>>
      /\ emission' = [kind |-> "batch_completed", question |-> index, left |-> Handlers]
      /\ emission' # NoEmission /\ emission'.kind = "batch_completed"
      /\ emission'.question = index /\ emission'.left = Handlers
  BY Emitting DEF CompleteBatch, Emissions
<1>4. RunnerTyped'
  BY <1>1, <1>2 DEF RunnerTyped, Stages, Contains
<1>5. index = 0 /\ position = recorded
  BY <1>1, <1>2 DEF Counts, InQuestion
<1>6. EmissionInv'
  BY <1>2, <1>3, <1>5 DEF EmissionInv, InQuestion
<1>7. OutboxInv'
  BY <1>2, <1>3 DEF OutboxInv
<1>8. Counts'
  BY <1>1, <1>2, <1>5 DEF Counts, InQuestion
<1>9. Tracked'
  <2>1. recorded \in Nat /\ recorded # recorded + 1
    BY <1>1, LiveAssumption DEF RunnerTyped
  <2> QED
    BY <1>1, <1>2, <1>3, <1>5, <2>1, NoneEmitted DEF Tracked
<1>10. OpenRun'
  BY <1>2, <1>3 DEF OpenRun, RunOpen
<1> QED
  BY <1>4, <1>6, <1>7, <1>8, <1>9, <1>10 DEF RunnerInv

-----------------------------------------------------------------------------
(* The handlers. *)

\* The event when its next handler has been called.
LEMMA HandledFacts ==
    ASSUME RunnerInv, emission # NoEmission
    PROVE  /\ Head(emission.left) = "progress" => emission.left = Handlers
           /\ Head(emission.left) = "observers" => emission.left = <<"observers", "adapter">>
           /\ Head(emission.left) = "adapter" => emission.left = <<"adapter">>
           /\ emission.left = <<"adapter">> => Handled(emission) = NoEmission
           /\ emission.left \in {Handlers, <<"observers", "adapter">>} =>
                 /\ Handled(emission) # NoEmission
                 /\ Handled(emission) = [kind |-> emission.kind, question |-> emission.question,
                                         left |-> Tail(emission.left)]
                 /\ Handled(emission).kind = emission.kind
                 /\ Handled(emission).question = emission.question
                 /\ Handled(emission).left = Tail(emission.left)
<1>1. PICK k, q, l : /\ emission = [kind |-> k, question |-> q, left |-> l]
                     /\ emission.kind = k /\ emission.question = q /\ emission.left = l
                     /\ l \in {Handlers, <<"observers", "adapter">>, <<"adapter">>}
                     /\ k # "none"
  <2>1. EmissionInv
    BY DEF RunnerInv
  <2> QED
    BY <2>1 DEF EmissionInv
<1>2. /\ Head(l) = "progress" => l = Handlers
      /\ Head(l) = "observers" => l = <<"observers", "adapter">>
      /\ Head(l) = "adapter" => l = <<"adapter">>
  BY <1>1 DEF Handlers
<1>3. l = <<"adapter">> => Handled(emission) = NoEmission
  BY <1>1 DEF Handled
<1>4. ASSUME l \in {Handlers, <<"observers", "adapter">>}
      PROVE  Handled(emission) = [kind |-> k, question |-> q, left |-> Tail(l)]
  <2>1. Len(l) # 1
    BY <1>4 DEF Handlers
  <2>2. Handled(emission) = [emission EXCEPT !.left = Tail(l)]
    BY <1>1, <2>1 DEF Handled
  <2> QED
    BY <1>1, <2>2
<1>5. NoEmission.kind = "none"
  BY DEF NoEmission
<1> QED
  BY <1>1, <1>2, <1>3, <1>4, <1>5

LEMMA TrackInv ==
    ASSUME RunnerInv, emission # NoEmission, Head(emission.left) = "progress", Track
    PROVE  RunnerInv'
<1>1. RunnerTyped /\ EmissionInv /\ OutboxInv /\ Counts /\ Tracked /\ OpenRun
  BY DEF RunnerInv
<1>2. PICK k, q, e : k = emission.kind /\ q = emission.question /\ e = emission'
  OBVIOUS
<1>3. /\ emission.left = Handlers /\ emission' # NoEmission
      /\ emission' = [kind |-> emission.kind, question |-> emission.question,
                      left |-> <<"observers", "adapter">>]
      /\ emission'.kind = emission.kind /\ emission'.question = emission.question
      /\ emission'.left = <<"observers", "adapter">> /\ emission'.left # Handlers
  <2>1. Tail(Handlers) = <<"observers", "adapter">>
    BY DEF Handlers
  <2>2. <<"observers", "adapter">> # Handlers
    BY DEF Handlers
  <2>3. emission' = Handled(emission)
    BY DEF Track
  <2> QED
    BY <2>1, <2>2, <2>3, HandledFacts
<1>4. UNCHANGED <<subs, snapshot, reported, phase5, stage, position, stopped, index, outbox,
                  recorded>>
  BY DEF Track, live, bus, runner
<1>5. /\ emission.question = (IF InQuestion THEN position ELSE 0)
      /\ emission.kind = "question_started" => stage = "answering"
      /\ emission.kind = "question_ended" <=> stage = "ending"
  BY <1>1 DEF EmissionInv
<1>6. PICK a, n : /\ a = (IF emission.question # 0 THEN emission.question ELSE progress.question)
                  /\ n = (IF emission.kind = "question_ended" THEN progress.completed + 1
                                                              ELSE progress.completed)
  OBVIOUS
<1>7. progress' = [question |-> a, completed |-> n]
  BY <1>6 DEF Track
<1>8. recorded \in 0..Questions /\ position \in 0..Questions /\ Questions \in Nat
      /\ progress.question \in 0..Questions /\ progress.completed \in 0..Questions
  BY <1>1, LiveAssumption DEF RunnerTyped, Snapshot
<1>9. a = position
  <2>1. CASE InQuestion
    <3>1. position # 0
      BY <1>1, <1>8, <2>1 DEF Counts
    <3> QED
      BY <1>5, <1>6, <2>1, <3>1
  <2>2. CASE ~InQuestion
    <3>1. emission.kind # "question_started"
      BY <1>5, <2>2 DEF InQuestion
    <3> QED
      BY <1>1, <1>5, <1>6, <2>2, <3>1 DEF Tracked
  <2> QED
    BY <2>1, <2>2
<1>10. n = recorded + (IF stage = "ending" \/ (stage = "over" /\ position = recorded + 1)
                       THEN 1 ELSE 0)
  BY <1>1, <1>3, <1>5, <1>6, <1>8 DEF Tracked
<1>11. n \in 0..Questions
  <2>1. CASE stage = "ending"
    <3>1. position = recorded + 1
      BY <1>1, <2>1 DEF Counts, InQuestion
    <3> QED
      BY <1>8, <1>10, <2>1, <3>1
  <2>2. CASE stage # "ending"
    BY <1>5, <1>6, <1>8, <2>2
  <2> QED
    BY <2>1, <2>2
<1>12. RunnerTyped'
  <2>1. progress' \in Snapshot
    BY <1>7, <1>8, <1>9, <1>11 DEF Snapshot
  <2> QED
    BY <1>1, <1>4, <2>1 DEF RunnerTyped, Contains
<1>13. EmissionInv'
  BY <1>1, <1>3, <1>4 DEF EmissionInv, InQuestion
<1>14. OutboxInv'
  BY <1>1, <1>3, <1>4 DEF OutboxInv
<1>15. Counts'
  BY <1>1, <1>3, <1>4 DEF Counts, InQuestion
<1>16. Tracked'
  <2>1. progress'.question = a /\ progress'.completed = n
    BY <1>7
  <2>2. emission.kind # "question_ended" => snapshot.completed = n
    BY <1>1, <1>6 DEF Tracked
  <2> QED
    BY <1>3, <1>4, <1>9, <1>10, <2>1, <2>2 DEF Tracked
<1>17. OpenRun'
  BY <1>1, <1>3, <1>4 DEF OpenRun, RunOpen
<1> QED
  BY <1>12, <1>13, <1>14, <1>15, <1>16, <1>17 DEF RunnerInv

LEMMA ObserveInv ==
    ASSUME RunnerInv, emission # NoEmission, Head(emission.left) = "observers", Observe
    PROVE  RunnerInv'
<1>1. RunnerTyped /\ EmissionInv /\ OutboxInv /\ Counts /\ Tracked /\ OpenRun
  BY DEF RunnerInv
<1>2. /\ emission.left = <<"observers", "adapter">> /\ emission' # NoEmission
      /\ emission' = [kind |-> emission.kind, question |-> emission.question,
                      left |-> <<"adapter">>]
      /\ emission'.kind = emission.kind /\ emission'.question = emission.question
      /\ emission'.left = <<"adapter">>
      /\ emission'.left # Handlers /\ emission.left # Handlers
  <2>1. Tail(<<"observers", "adapter">>) = <<"adapter">>
    OBVIOUS
  <2>2. <<"observers", "adapter">> # Handlers /\ <<"adapter">> # Handlers
    BY DEF Handlers
  <2>3. emission' = Handled(emission)
    BY DEF Observe
  <2> QED
    BY <2>1, <2>2, <2>3, HandledFacts
<1>3. UNCHANGED <<subs, snapshot, reported, phase5, stage, position, stopped, index, outbox,
                  progress, recorded>>
  BY DEF Observe, live, bus, runner
<1>4. RunnerTyped'
  BY <1>1, <1>3 DEF RunnerTyped, Contains
<1>5. EmissionInv'
  BY <1>1, <1>2, <1>3 DEF EmissionInv, InQuestion
<1>6. OutboxInv'
  BY <1>1, <1>2, <1>3 DEF OutboxInv
<1>7. Counts'
  BY <1>1, <1>2, <1>3 DEF Counts, InQuestion
<1>8. Tracked'
  BY <1>1, <1>2, <1>3 DEF Tracked
<1>9. OpenRun'
  BY <1>1, <1>2, <1>3 DEF OpenRun, RunOpen
<1> QED
  BY <1>4, <1>5, <1>6, <1>7, <1>8, <1>9 DEF RunnerInv

\* What is left to publish when the adapter has been called.
LEMMA AdapterScript ==
    ASSUME RunnerInv, emission # NoEmission, emission.left = <<"adapter">>,
           NEW first, first = Head(FromAdapter(emission.kind)),
           NEW rest, rest = Tail(FromAdapter(emission.kind)) \o outbox
    PROVE  /\ first = (IF stage = "answering" /\ ~phase5 THEN "run_started" ELSE "context")
           /\ rest = CASE stage = "answering" /\ ~phase5 -> <<"context">>
                       [] stage = "running" -> <<"run_started">>
                       [] stage = "ending" /\ ~phase5 -> <<"end">>
                       [] OTHER -> <<>>
<1>1. EmissionInv /\ OutboxInv /\ Counts
  BY DEF RunnerInv
<1>2. outbox = IF stage = "running" THEN <<"run_started">> ELSE <<>>
  BY <1>1 DEF OutboxInv
<1>3. /\ emission.kind = "question_started" <=> stage = "answering"
      /\ emission.kind = "question_ended" <=> stage = "ending"
  BY <1>1 DEF EmissionInv
<1>4. CASE stage = "answering" /\ ~phase5
  <2>1. FromAdapter(emission.kind) = <<"run_started", "context">>
    BY <1>3, <1>4 DEF FromAdapter
  <2>2. outbox = <<>>
    BY <1>2, <1>4
  <2> QED
    BY <1>4, <2>1, <2>2
<1>5. CASE stage = "ending" /\ ~phase5
  <2>1. FromAdapter(emission.kind) = <<"context", "end">>
    BY <1>3, <1>5 DEF FromAdapter
  <2>2. outbox = <<>>
    BY <1>2, <1>5
  <2> QED
    BY <1>5, <2>1, <2>2
<1>6. CASE ~(stage \in {"answering", "ending"} /\ ~phase5)
  <2>1. FromAdapter(emission.kind) = <<"context">>
    BY <1>3, <1>6 DEF FromAdapter
  <2>2. first = "context" /\ rest = outbox
    <3>1. Tail(<<"context">>) = <<>> /\ Head(<<"context">>) = "context"
      OBVIOUS
    <3>2. <<>> \o <<"run_started">> = <<"run_started">> /\ <<>> \o <<>> = <<>>
      OBVIOUS
    <3>3. rest = <<>> \o outbox
      BY <2>1, <3>1
    <3> QED
      BY <1>2, <2>1, <3>1, <3>2, <3>3
  <2> QED
    BY <1>2, <1>6, <2>2
<1> QED
  BY <1>4, <1>5, <1>6

LEMMA AdaptInv ==
    ASSUME IInv, Idle("pipeline"), emission # NoEmission, Head(emission.left) = "adapter", Adapt
    PROVE  IInv'
<1>1. /\ LiveInv /\ BoardInv /\ RunnerInv /\ BusTyped /\ FramesNewest
      /\ RunnerTyped /\ EmissionInv /\ OutboxInv /\ Counts /\ Tracked /\ OpenRun
  BY DEF IInv, LiveInv, RunnerInv
<1>2. emission.left = <<"adapter">> /\ Handled(emission) = NoEmission
  BY <1>1, HandledFacts
<1>3. emission.left # Handlers /\ NoEmission.left # Handlers
  <2>1. <<"adapter">> # Handlers
    BY DEF Handlers
  <2> QED
    BY <1>2, <2>1, NoneEmitted
<1>4. PICK seen : seen = [question |-> IF emission.question # 0 THEN emission.question
                                                             ELSE progress.question,
                          completed |-> progress.completed]
  OBVIOUS
<1>5. PICK first : first = Head(FromAdapter(emission.kind))
  OBVIOUS
<1>6. PICK rest : rest = Tail(FromAdapter(emission.kind)) \o outbox
  OBVIOUS
<1>7. /\ first = (IF stage = "answering" /\ ~phase5 THEN "run_started" ELSE "context")
      /\ rest = CASE stage = "answering" /\ ~phase5 -> <<"context">>
                  [] stage = "running" -> <<"run_started">>
                  [] stage = "ending" /\ ~phase5 -> <<"end">>
                  [] OTHER -> <<>>
  BY <1>1, <1>2, <1>5, <1>6, AdapterScript
<1>8. /\ snapshot' = seen /\ Number("pipeline", first, seen, <<>>)
      /\ outbox' = rest /\ emission' = NoEmission
      /\ UNCHANGED <<ticks, board, streams, phase5, stage, position, stopped, index, progress,
                     recorded>>
  <2>1. PICK kind \in LiveKinds(first) : Number("pipeline", kind, seen, <<>>)
    BY <1>4, <1>5 DEF Adapt
  <2>2. kind = first
    BY <1>7, <2>1 DEF LiveKinds
  <2> QED
    BY <1>2, <1>4, <1>6, <2>1, <2>2 DEF Adapt, runner
<1>9. seen.question = position /\ seen.completed = progress.completed /\ seen \in Snapshot
  <2>1. emission.question = (IF InQuestion THEN position ELSE 0) /\ progress.question = position
    BY <1>1, <1>3 DEF EmissionInv, Tracked
  <2>2. position \in 0..Questions /\ progress.completed \in 0..Questions
    BY <1>1 DEF RunnerTyped, Snapshot
  <2>3. seen = [question |-> position, completed |-> progress.completed]
    BY <1>4, <2>1
  <2> QED
    BY <2>2, <2>3 DEF Snapshot
<1>10. first \in Kinds \ {"tick"} /\ first \notin {"run_completed", "run_failed"}
       /\ "pipeline" \in Threads /\ calls = <<>>
  BY <1>7 DEF Kinds, RunKinds, Threads, calls, Idle
<1>11. Contains(subs, "adapter")
  BY <1>1 DEF RunnerTyped, Counts
<1>12. LiveInv'
  BY <1>1, <1>8, <1>9, <1>10, FirstNumberInv
<1>13. BoardInv'
  <2>1. snapshot' # snapshot => first \in {"context", "run_started"}
    BY <1>7
  <2> QED
    BY <1>1, <1>8, <1>9, <1>10, <1>11, <2>1, PublishBoard
<1>14. UNCHANGED subs
       /\ reported' = IF stage = "answering" /\ ~phase5
                      THEN [kind |-> "run_started", question |-> position] ELSE reported
  <2>1. reported' = IF first \in RunKinds THEN [kind |-> first, question |-> seen.question]
                                          ELSE reported
    BY <1>8 DEF Number
  <2> QED
    BY <1>7, <1>8, <1>9, <2>1 DEF Number, RunKinds
<1>15. RunnerTyped'
  BY <1>1, <1>8, <1>14 DEF RunnerTyped, Contains
<1>16. EmissionInv'
  BY <1>8 DEF EmissionInv, NoEmission
<1>17. OutboxInv'
  BY <1>7, <1>8 DEF OutboxInv
<1>18. Counts'
  BY <1>1, <1>8 DEF Counts, InQuestion
<1>19. Tracked'
  BY <1>1, <1>3, <1>8, <1>9, NoneEmitted DEF Tracked
<1>20. OpenRun'
  <2>1. CASE stage = "answering" /\ ~phase5
    BY <1>8, <1>14, <2>1 DEF OpenRun, RunOpen
  <2>2. CASE stage = "ending" /\ ~phase5
    <3>1. RunOpen
      BY <2>2 DEF RunOpen
    <3> QED
      BY <1>1, <1>8, <1>14, <2>2, <3>1 DEF OpenRun
  <2>3. CASE ~(stage \in {"answering", "ending"} /\ ~phase5)
    <3>1. ~RunOpen'
      <4>1. stage # "answered"
        BY <1>1 DEF EmissionInv
      <4> QED
        BY <1>1, <1>7, <1>8, <2>3, <4>1 DEF RunOpen, RunnerTyped
    <3> QED
      BY <3>1 DEF OpenRun
  <2> QED
    BY <2>1, <2>2, <2>3
<1> QED
  BY <1>12, <1>13, <1>15, <1>16, <1>17, <1>18, <1>19, <1>20 DEF IInv, RunnerInv

LEMMA PublishNextInv == ASSUME IInv, PublishNext PROVE IInv'
<1>1. /\ LiveInv /\ BoardInv /\ RunnerInv /\ BusTyped /\ FramesNewest
      /\ RunnerTyped /\ EmissionInv /\ OutboxInv /\ Counts /\ Tracked /\ OpenRun
  BY DEF IInv, LiveInv, RunnerInv
<1>2. /\ emission = NoEmission /\ outbox # <<>> /\ Idle("pipeline")
      /\ UNCHANGED <<snapshot, ticks, board, streams, phase5, stage, position, stopped, index,
                     emission, progress, recorded>>
      /\ outbox' = Tail(outbox)
  BY DEF PublishNext, runner
<1>3. PICK first : first = Head(outbox)
  OBVIOUS
<1>4. /\ outbox = <<first>> /\ outbox' = <<>>
      /\ \/ first = "context" /\ stage = "answering" /\ ~phase5
         \/ first = "run_started" /\ stage = "running"
         \/ first = "end" /\ RunOpen /\ (stage = "answered" \/ (stage = "ending" /\ ~phase5))
  <2>1. /\ Head(<<"context">>) = "context" /\ Tail(<<"context">>) = <<>>
        /\ Head(<<"run_started">>) = "run_started" /\ Tail(<<"run_started">>) = <<>>
        /\ Head(<<"end">>) = "end" /\ Tail(<<"end">>) = <<>>
    OBVIOUS
  <2>2. outbox \in {<<"context">>, <<"run_started">>, <<"end">>}
    BY <1>1, <1>2 DEF OutboxInv
  <2>3. CASE outbox = <<"context">>
    BY <1>1, <1>2, <1>3, <2>1, <2>3 DEF OutboxInv
  <2>4. CASE outbox = <<"run_started">>
    BY <1>1, <1>2, <1>3, <2>1, <2>4 DEF OutboxInv
  <2>5. CASE outbox = <<"end">>
    <3>1. stage = "answered" \/ (stage = "ending" /\ ~phase5)
      BY <1>1, <2>5 DEF OutboxInv
    <3> QED
      BY <1>2, <1>3, <2>1, <2>5, <3>1 DEF RunOpen
  <2> QED
    BY <2>2, <2>3, <2>4, <2>5
<1>5. PICK kind \in LiveKinds(first) : Number("pipeline", kind, snapshot, <<>>)
  BY <1>3 DEF PublishNext
<1>6. /\ kind \in Kinds \ {"tick"} /\ snapshot \in Snapshot
      /\ "pipeline" \in Threads /\ calls = <<>>
      /\ kind \in {"run_completed", "run_failed"} => first = "end"
      /\ first # "end" => kind = first
  <2>1. kind \in {"context", "run_started", "run_completed", "run_failed"}
        /\ (kind \in {"run_completed", "run_failed"} => first = "end")
        /\ (first # "end" => kind = first)
    BY <1>4, <1>5 DEF LiveKinds
  <2>2. kind \in Kinds /\ kind # "tick"
    BY <2>1 DEF Kinds, RunKinds
  <2>3. snapshot \in Snapshot /\ calls = <<>>
    BY <1>1, <1>2 DEF BusTyped, calls, Idle
  <2> QED
    BY <2>1, <2>2, <2>3 DEF Threads
<1>7. Contains(subs, "adapter")
  BY <1>1, <1>4 DEF RunnerTyped
<1>8. snapshot.question = position
  BY <1>1, <1>2 DEF Tracked
<1>9. LiveInv'
  BY <1>1, <1>2, <1>5, <1>6, FirstNumberInv
<1>10. BoardInv'
  <2>1. kind \in {"run_completed", "run_failed"} =>
            reported.kind # "none" /\ reported.question = snapshot.question
    BY <1>1, <1>4, <1>6, <1>8 DEF OpenRun
  <2>2. UNCHANGED <<snapshot, ticks, board>>
    BY <1>2
  <2> QED
    BY <1>1, <1>5, <1>6, <1>7, <2>1, <2>2, PublishBoard
<1>11. UNCHANGED subs /\ (kind \notin RunKinds => reported' = reported)
       /\ (kind \in RunKinds => reported' = [kind |-> kind, question |-> position])
  BY <1>5, <1>8 DEF Number
<1>12. RunnerTyped'
  BY <1>1, <1>2, <1>11 DEF RunnerTyped, Contains
<1>13. EmissionInv' /\ OutboxInv'
  BY <1>2, <1>4 DEF EmissionInv, OutboxInv, NoEmission
<1>14. Counts'
  BY <1>1, <1>2, <1>4 DEF Counts, InQuestion
<1>15. Tracked'
  BY <1>1, <1>2 DEF Tracked
<1>16. OpenRun'
  <2>1. CASE first = "context"
    <3>1. RunOpen /\ reported' = reported
      BY <1>2, <1>4, <1>6, <1>11, <2>1 DEF RunOpen, RunKinds
    <3> QED
      BY <1>1, <1>2, <3>1 DEF OpenRun
  <2>2. CASE first = "run_started"
    BY <1>2, <1>6, <1>11, <2>2 DEF OpenRun, RunKinds
  <2>3. CASE first = "end"
    <3>1. ~RunOpen'
      BY <1>2, <1>4, <2>3 DEF RunOpen
    <3> QED
      BY <3>1 DEF OpenRun
  <2> QED
    BY <1>4, <2>1, <2>2, <2>3
<1> QED
  BY <1>9, <1>10, <1>12, <1>13, <1>14, <1>15, <1>16 DEF IInv, RunnerInv

\* Steps the runner has no part in.
LEMMA RunnerKept ==
    ASSUME RunnerInv, UNCHANGED <<batch, snapshot, reported>>,
           Contains(subs, "adapter") => Contains(subs', "adapter")
    PROVE  RunnerInv'
<1>1. UNCHANGED <<phase5, stage, position, stopped, index, emission, outbox, progress, recorded,
                  snapshot, reported>>
  BY DEF batch, runner
<1>2. RunnerTyped' /\ EmissionInv' /\ OutboxInv'
  BY <1>1 DEF RunnerInv, RunnerTyped, EmissionInv, OutboxInv, InQuestion
<1>3. Counts' /\ Tracked'
  BY <1>1 DEF RunnerInv, Counts, Tracked, InQuestion
<1>4. OpenRun'
  BY <1>1 DEF RunnerInv, OpenRun, RunOpen
<1> QED
  BY <1>2, <1>3, <1>4 DEF RunnerInv

LEMMA DeliveryInv == ASSUME IInv, Delivery PROVE IInv'
<1>1. LiveInv /\ BoardInv /\ RunnerInv /\ BusTyped /\ FramesNewest /\ UNCHANGED batch
  BY DEF IInv, LiveInv, Delivery
<1>2. CASE Attach
  <2>1. subs' = Append(subs, "adapter") /\ UNCHANGED <<snapshot, reported>>
    BY <1>2 DEF Attach
  <2>2. Contains(subs', "adapter")
    <3>1. subs \in Seq(Subscribers) /\ "adapter" \in Subscribers
      BY <1>1 DEF BusTyped, Subscribers
    <3> QED
      BY <2>1, <3>1, AppendKeeps
  <2> QED
    BY <1>1, <1>2, <2>1, <2>2, AttachInv, AttachBoard, RunnerKept DEF IInv
<1>3. CASE Call("pipeline")
  <2>1. UNCHANGED snapshot
    BY <1>3 DEF Call
  <2>2. UNCHANGED <<subs, reported>>
    BY <1>3 DEF Call, Number, RunKinds
  <2>3. LiveInv'
    BY <1>1, <1>3, CallInv DEF Threads
  <2>4. BoardInv'
    BY <1>1, <1>3, PipelineCallBoard
  <2>5. RunnerInv'
    BY <1>1, <2>1, <2>2, RunnerKept DEF Contains
  <2> QED
    BY <2>3, <2>4, <2>5 DEF IInv
<1> QED
  BY <1>2, <1>3 DEF Delivery

-----------------------------------------------------------------------------
(* The whole. *)

LEMMA InitInv == Init => IInv
<1> SUFFICES ASSUME Init PROVE IInv
  OBVIOUS
<1>1. /\ LiveInit /\ phase5 \in BOOLEAN /\ stage = "new" /\ position = 0 /\ index = 0
      /\ emission = NoEmission /\ outbox = <<>> /\ progress = Nothing /\ recorded = 0
      /\ stopped = FALSE /\ snapshot = Nothing
  BY DEF Init, LiveInit
<1>2. LiveInv /\ BoardInv
  BY <1>1, LiveInitInv, BoardInitInv
<1>3. RunnerTyped
  <2>1. 0 \in 0..Questions
    BY LiveAssumption
  <2> QED
    BY <1>1, <2>1, NothingTyped DEF RunnerTyped, Stages
<1>4. EmissionInv /\ OutboxInv /\ OpenRun
  BY <1>1 DEF EmissionInv, OutboxInv, OpenRun, RunOpen, NoEmission
<1>5. Counts
  BY <1>1 DEF Counts, InQuestion
<1>6. Tracked
  <2>1. Nothing.question = 0 /\ Nothing.completed = 0
    BY DEF Nothing
  <2> QED
    BY <1>1, <2>1, NoneEmitted DEF Tracked
<1> QED
  BY <1>2, <1>3, <1>4, <1>5, <1>6 DEF IInv, RunnerInv

LEMMA NextInv == IInv /\ [Next]_vars => IInv'
<1> SUFFICES ASSUME IInv, [Next]_vars PROVE IInv'
  OBVIOUS
<1>1. LiveInv /\ BoardInv /\ RunnerInv /\ BusTyped /\ FramesNewest
  BY DEF IInv, LiveInv
<1>2. ASSUME UNCHANGED live, RunnerInv' PROVE IInv'
  BY <1>1, <1>2, LiveStutter, BoardStutter DEF IInv
<1>3. CASE Runner
  <2>1. UNCHANGED live
    BY <1>3 DEF Runner, StartBatch, StartQuestion, StartPhase5, EndPhase5, EndQuestion, Record,
                CompleteBatch
  <2>2. RunnerInv'
    BY <1>1, <1>3, StartBatchInv, StartQuestionInv, StartPhase5Inv, EndPhase5Inv,
       EndQuestionInv, RecordInv, CompleteBatchInv DEF Runner
  <2> QED
    BY <1>2, <2>1, <2>2
<1>4. CASE Fail
  <2>1. UNCHANGED live
    BY <1>4 DEF Fail
  <2> QED
    BY <1>1, <1>2, <1>4, <2>1, FailInv
<1>5. CASE Handle
  <2>1. emission # NoEmission /\ Idle("pipeline")
    BY <1>5 DEF Handle
  <2>2. CASE Head(emission.left) = "progress" /\ Track
    <3>1. UNCHANGED live
      BY <2>2 DEF Track
    <3> QED
      BY <1>1, <1>2, <2>1, <2>2, <3>1, TrackInv
  <2>3. CASE Head(emission.left) = "observers" /\ Observe
    <3>1. UNCHANGED live
      BY <2>3 DEF Observe
    <3> QED
      BY <1>1, <1>2, <2>1, <2>3, <3>1, ObserveInv
  <2>4. CASE Head(emission.left) = "adapter" /\ Adapt
    BY <2>1, <2>4, AdaptInv
  <2> QED
    BY <1>5, <2>2, <2>3, <2>4 DEF Handle
<1>6. CASE PublishNext
  BY <1>6, PublishNextInv
<1>7. CASE Delivery
  BY <1>7, DeliveryInv
<1>8. CASE Others /\ UNCHANGED batch
  <2>1. LiveInv' /\ BoardInv' /\ UNCHANGED <<snapshot, reported>>
        /\ (Contains(subs, "adapter") => Contains(subs', "adapter"))
    BY <1>1, <1>8, OthersInv, OthersBoard
  <2>2. RunnerInv'
    BY <1>1, <1>8, <2>1, RunnerKept
  <2> QED
    BY <2>1, <2>2 DEF IInv
<1>9. CASE UNCHANGED vars
  <2>1. UNCHANGED live /\ UNCHANGED <<batch, snapshot, reported, subs>>
    BY <1>9 DEF vars, live, bus, batch
  <2>2. RunnerInv'
    BY <1>1, <2>1, RunnerKept DEF Contains
  <2> QED
    BY <1>2, <2>1, <2>2
<1> QED
  BY <1>3, <1>4, <1>5, <1>6, <1>7, <1>8, <1>9 DEF Next, Pipeline

\* The invariant holds at every step of a batch run: the numbers, frames and streams of
\* the bus, the dashboard, and the emission, counters and open run of the runner.
THEOREM ExecutionInvariance == Spec => []IInv
<1> QED
  BY InitInv, NextInv, PTL DEF Spec

\* Every variable of the bus and of the runner has its type, publishes nest at most
\* twice and the history stays within its bound.
THEOREM ExecutionTyped == Spec => []TypeOK
<1>1. IInv => TypeOK
  <2> SUFFICES ASSUME IInv PROVE TypeOK
    OBVIOUS
  <2>1. BusTyped /\ Bounded /\ RunnerTyped /\ EmissionInv /\ OutboxInv
        /\ ServerTicks /\ PipelineCalls
    BY DEF IInv, LiveInv, BoardInv, RunnerInv
  <2>2. \A t \in Threads : Len(stack[t]) <= 2
    <3>1. stack["server"] \in Seq(Frame)
      BY <2>1 DEF BusTyped, Threads
    <3>2. Len(stack["server"]) \in Nat
      BY <3>1
    <3>3. Len(stack["server"]) <= 1
      BY <2>1 DEF ServerTicks
    <3>4. Len(stack["pipeline"]) <= 2
      BY <2>1 DEF PipelineCalls, calls
    <3> QED
      BY <3>2, <3>3, <3>4 DEF Threads
  <2>3. LiveTypeOK
    BY <2>1, <2>2 DEF LiveTypeOK, BusTyped, Bounded
  <2>4. emission = NoEmission
           \/ emission \in [kind : Emissions, question : 0..Questions,
                            left : Seq(Range(Handlers))]
    <3> SUFFICES ASSUME emission # NoEmission
                 PROVE  emission \in [kind : Emissions, question : 0..Questions,
                                      left : Seq(Range(Handlers))]
      OBVIOUS
    <3>1. PICK k, q, l : /\ emission = [kind |-> k, question |-> q, left |-> l]
                         /\ k = emission.kind /\ q = emission.question /\ l = emission.left
      BY <2>1 DEF EmissionInv
    <3>2. k \in Emissions
      BY <2>1, <3>1 DEF EmissionInv, Emissions
    <3>3. q \in 0..Questions
      <4>1. 0 \in 0..Questions /\ position \in 0..Questions
        BY <2>1, LiveAssumption DEF RunnerTyped
      <4> QED
        BY <2>1, <3>1, <4>1 DEF EmissionInv
    <3>4. l \in Seq(Range(Handlers))
      <4>1. Range(Handlers) = {"progress", "observers", "adapter"}
        BY DEF Range, Handlers
      <4>2. l \in {Handlers, <<"observers", "adapter">>, <<"adapter">>}
        BY <2>1, <3>1 DEF EmissionInv
      <4>3. l \in Seq({"progress", "observers", "adapter"})
        <5>1. /\ <<"progress", "observers", "adapter">> \in Seq({"progress", "observers", "adapter"})
              /\ <<"observers", "adapter">> \in Seq({"progress", "observers", "adapter"})
              /\ <<"adapter">> \in Seq({"progress", "observers", "adapter"})
          OBVIOUS
        <5> QED
          BY <4>2, <5>1 DEF Handlers
      <4> QED
        BY <4>1, <4>3
    <3> QED
      BY <3>1, <3>2, <3>3, <3>4
  <2>5. outbox \in Seq({"context", "run_started", "end"})
    <3>1. /\ <<>> \in Seq({"context", "run_started", "end"})
          /\ <<"context">> \in Seq({"context", "run_started", "end"})
          /\ <<"run_started">> \in Seq({"context", "run_started", "end"})
          /\ <<"end">> \in Seq({"context", "run_started", "end"})
      OBVIOUS
    <3> QED
      BY <2>1, <3>1 DEF OutboxInv
  <2> QED
    BY <2>1, <2>3, <2>4, <2>5 DEF TypeOK, RunnerTyped
<1> QED
  BY <1>1, ExecutionInvariance, PTL

\* Between two publishes the dashboard shows the run event that was published last,
\* though the server publishes meanwhile and the adapter publishes from inside a call.
THEOREM BoardFollows == Spec => []BoardFollowsPipeline
<1>1. IInv => BoardFollowsPipeline
  <2> SUFFICES ASSUME IInv, Idle("pipeline"), reported.kind # "none"
               PROVE  /\ board.question = reported.question
                      /\ board.status = StatusOf(reported.kind)
    BY DEF BoardFollowsPipeline, StatusOf
  <2>1. BoardNext = board
    BY DEF BoardNext, BoardPending, calls, Idle
  <2> QED
    BY <2>1 DEF IInv, BoardInv, BoardKeepsUp
<1> QED
  BY <1>1, ExecutionInvariance, PTL

\* Between two emissions the dashboard shows the question the runner is at and how many
\* have ended, whatever the resets at the start of each run took from it.
THEOREM ContextIsShown == Spec => []ContextIsCurrent
<1>1. IInv => ContextIsCurrent
  <2> SUFFICES ASSUME IInv, Free, stage # "new"
               PROVE  /\ board.context.question = position
                      /\ \/ board.context.completed =
                                recorded + (IF stage = "ending" THEN 1 ELSE 0)
                         \/ stage = "over" /\ stopped
                            /\ board.context.completed = recorded + 1
    BY DEF ContextIsCurrent
  <2>1. emission = NoEmission /\ calls = <<>>
    BY DEF Free, Idle, calls
  <2>2. board.context = snapshot
    <3>1. ~ContextPending /\ BoardNext = board
      BY <2>1 DEF ContextPending, BoardNext, BoardPending
    <3> QED
      BY <3>1 DEF IInv, BoardInv, BoardKeepsUp
  <2>3. /\ snapshot.question = position /\ snapshot.completed = progress.completed
        /\ progress.completed =
              recorded + (IF stage = "ending" \/ (stage = "over" /\ position = recorded + 1)
                          THEN 1 ELSE 0)
    BY <2>1, NoneEmitted DEF IInv, RunnerInv, Tracked
  <2>4. stage = "over" /\ position = recorded + 1 => stopped
    <3>1. recorded \in Nat
      BY LiveAssumption DEF IInv, RunnerInv, RunnerTyped
    <3> QED
      BY <3>1 DEF IInv, RunnerInv, Counts
  <2> QED
    BY <2>2, <2>3, <2>4
<1> QED
  BY <1>1, ExecutionInvariance, PTL

\* A browser of a batch that runs is shown events in order and none twice, whatever the
\* runner emits and wherever it is interrupted.
THEOREM RunStreamsInOrder == Spec => []StreamInOrder
<1>1. IInv => StreamInOrder
  BY OrderKept DEF IInv
<1> QED
  BY <1>1, ExecutionInvariance, PTL

\* A browser of a batch that runs misses only events that another one was numbered during.
THEOREM RunStreamsMissOnlyOvertaken == Spec => []OnlyOvertakenSkipped
<1>1. IInv => OnlyOvertakenSkipped
  BY NothingElseSkipped DEF IInv
<1> QED
  BY <1>1, ExecutionInvariance, PTL

-----------------------------------------------------------------------------
(* What the batch publishes is what LiveBatch says. *)

\* What is still to be published of the question, by the state of the runner.
Left ==
    IF emission # NoEmission
    THEN CASE stage = "answering" /\ phase5 ->
                  <<"context", "context", "run_started", "end", "done">>
           [] stage = "answering" /\ ~phase5 -> <<"run_started", "context", "done", "end">>
           [] stage = "running" -> <<"context", "run_started", "end", "done">>
           [] stage = "ending" /\ phase5 -> <<"done">>
           [] stage = "ending" /\ ~phase5 -> <<"done", "end">>
           [] OTHER -> <<"context">>
    ELSE CASE stage = "new" -> <<"context">>
           [] stage = "answering" /\ phase5 -> <<"context", "run_started", "end", "done">>
           [] stage = "answering" /\ ~phase5 ->
                  IF outbox = <<>> THEN <<"done", "end">> ELSE <<"context", "done", "end">>
           [] stage = "running" ->
                  IF outbox = <<>> THEN <<"end", "done">> ELSE <<"run_started", "end", "done">>
           [] stage = "answered" -> IF outbox = <<>> THEN <<"done">> ELSE <<"end", "done">>
           [] OTHER -> outbox

\* Joining short sequences.
LEMMA JoinOneOne ==
    ASSUME NEW u, NEW v
    PROVE  <<u>> \o <<v>> = <<u, v>>
<1>1. PICK a, b, c, S : a = <<u>> /\ b = <<v>> /\ c = <<u, v>> /\ S = {u, v}
  OBVIOUS
<1>2. /\ a \in Seq(S) /\ b \in Seq(S) /\ c \in Seq(S)
      /\ Len(a) = 1 /\ Len(b) = 1 /\ Len(c) = 2
      /\ a[1] = u
      /\ b[1] = v
      /\ c[1] = u /\ c[2] = v
  BY <1>1
<1>3. PICK d : d = a \o b
  OBVIOUS
<1>4. /\ d \in Seq(S) /\ Len(d) = 2
      /\ \A i \in 1..2 : d[i] = IF i <= 1 THEN a[i] ELSE b[i - 1]
  <2>1. a \in Seq(S) /\ b \in Seq(S)
    BY <1>2
  <2>2. /\ d \in Seq(S) /\ Len(d) = Len(a) + Len(b)
        /\ \A i \in 1..Len(a) + Len(b) : d[i] = IF i <= Len(a) THEN a[i] ELSE b[i - Len(a)]
    BY <1>3, <2>1, ConcatProperties
  <2>3. Len(a) = 1 /\ Len(b) = 1
    BY <1>2
  <2> QED
    BY <2>2, <2>3
<1>5. d[1] = c[1] /\ d[2] = c[2]
  BY <1>2, <1>4
<1>6. \A i \in 1..Len(d) : d[i] = c[i]
  BY <1>4, <1>5
<1>7. d = c
  BY <1>2, <1>4, <1>6, SeqEqual
<1> QED
  BY <1>1, <1>3, <1>7

LEMMA JoinOneTwo ==
    ASSUME NEW u, NEW v, NEW w
    PROVE  <<u>> \o <<v, w>> = <<u, v, w>>
<1>1. PICK a, b, c, S : a = <<u>> /\ b = <<v, w>> /\ c = <<u, v, w>> /\ S = {u, v, w}
  OBVIOUS
<1>2. /\ a \in Seq(S) /\ b \in Seq(S) /\ c \in Seq(S)
      /\ Len(a) = 1 /\ Len(b) = 2 /\ Len(c) = 3
      /\ a[1] = u
      /\ b[1] = v /\ b[2] = w
      /\ c[1] = u /\ c[2] = v /\ c[3] = w
  BY <1>1
<1>3. PICK d : d = a \o b
  OBVIOUS
<1>4. /\ d \in Seq(S) /\ Len(d) = 3
      /\ \A i \in 1..3 : d[i] = IF i <= 1 THEN a[i] ELSE b[i - 1]
  <2>1. a \in Seq(S) /\ b \in Seq(S)
    BY <1>2
  <2>2. /\ d \in Seq(S) /\ Len(d) = Len(a) + Len(b)
        /\ \A i \in 1..Len(a) + Len(b) : d[i] = IF i <= Len(a) THEN a[i] ELSE b[i - Len(a)]
    BY <1>3, <2>1, ConcatProperties
  <2>3. Len(a) = 1 /\ Len(b) = 2
    BY <1>2
  <2> QED
    BY <2>2, <2>3
<1>5. d[1] = c[1] /\ d[2] = c[2] /\ d[3] = c[3]
  BY <1>2, <1>4
<1>6. \A i \in 1..Len(d) : d[i] = c[i]
  BY <1>4, <1>5
<1>7. d = c
  BY <1>2, <1>4, <1>6, SeqEqual
<1> QED
  BY <1>1, <1>3, <1>7

LEMMA JoinOneFour ==
    ASSUME NEW u, NEW v, NEW w, NEW x, NEW y
    PROVE  <<u>> \o <<v, w, x, y>> = <<u, v, w, x, y>>
<1>1. PICK a, b, c, S : a = <<u>> /\ b = <<v, w, x, y>> /\ c = <<u, v, w, x, y>> /\ S = {u, v, w, x, y}
  OBVIOUS
<1>2. /\ a \in Seq(S) /\ b \in Seq(S) /\ c \in Seq(S)
      /\ Len(a) = 1 /\ Len(b) = 4 /\ Len(c) = 5
      /\ a[1] = u
      /\ b[1] = v /\ b[2] = w /\ b[3] = x /\ b[4] = y
      /\ c[1] = u /\ c[2] = v /\ c[3] = w /\ c[4] = x /\ c[5] = y
  BY <1>1
<1>3. PICK d : d = a \o b
  OBVIOUS
<1>4. /\ d \in Seq(S) /\ Len(d) = 5
      /\ \A i \in 1..5 : d[i] = IF i <= 1 THEN a[i] ELSE b[i - 1]
  <2>1. a \in Seq(S) /\ b \in Seq(S)
    BY <1>2
  <2>2. /\ d \in Seq(S) /\ Len(d) = Len(a) + Len(b)
        /\ \A i \in 1..Len(a) + Len(b) : d[i] = IF i <= Len(a) THEN a[i] ELSE b[i - Len(a)]
    BY <1>3, <2>1, ConcatProperties
  <2>3. Len(a) = 1 /\ Len(b) = 4
    BY <1>2
  <2> QED
    BY <2>2, <2>3
<1>5. d[1] = c[1] /\ d[2] = c[2] /\ d[3] = c[3] /\ d[4] = c[4] /\ d[5] = c[5]
  BY <1>2, <1>4
<1>6. \A i \in 1..Len(d) : d[i] = c[i]
  BY <1>4, <1>5
<1>7. d = c
  BY <1>2, <1>4, <1>6, SeqEqual
<1> QED
  BY <1>1, <1>3, <1>7

LEMMA JoinTwoTwo ==
    ASSUME NEW u, NEW v, NEW w, NEW x
    PROVE  <<u, v>> \o <<w, x>> = <<u, v, w, x>>
<1>1. PICK a, b, c, S : a = <<u, v>> /\ b = <<w, x>> /\ c = <<u, v, w, x>> /\ S = {u, v, w, x}
  OBVIOUS
<1>2. /\ a \in Seq(S) /\ b \in Seq(S) /\ c \in Seq(S)
      /\ Len(a) = 2 /\ Len(b) = 2 /\ Len(c) = 4
      /\ a[1] = u /\ a[2] = v
      /\ b[1] = w /\ b[2] = x
      /\ c[1] = u /\ c[2] = v /\ c[3] = w /\ c[4] = x
  BY <1>1
<1>3. PICK d : d = a \o b
  OBVIOUS
<1>4. /\ d \in Seq(S) /\ Len(d) = 4
      /\ \A i \in 1..4 : d[i] = IF i <= 2 THEN a[i] ELSE b[i - 2]
  <2>1. a \in Seq(S) /\ b \in Seq(S)
    BY <1>2
  <2>2. /\ d \in Seq(S) /\ Len(d) = Len(a) + Len(b)
        /\ \A i \in 1..Len(a) + Len(b) : d[i] = IF i <= Len(a) THEN a[i] ELSE b[i - Len(a)]
    BY <1>3, <2>1, ConcatProperties
  <2>3. Len(a) = 2 /\ Len(b) = 2
    BY <1>2
  <2> QED
    BY <2>2, <2>3
<1>5. d[1] = c[1] /\ d[2] = c[2] /\ d[3] = c[3] /\ d[4] = c[4]
  BY <1>2, <1>4
<1>6. \A i \in 1..Len(d) : d[i] = c[i]
  BY <1>4, <1>5
<1>7. d = c
  BY <1>2, <1>4, <1>6, SeqEqual
<1> QED
  BY <1>1, <1>3, <1>7

LEMMA Joined ==
    /\ <<"context">> \o <<>> = <<"context">>
    /\ <<"run_started", "context">> \o <<>> = <<"run_started", "context">>
    /\ <<"context", "end">> \o <<>> = <<"context", "end">>
    /\ <<"context">> \o <<"run_started">> = <<"context", "run_started">>
    /\ <<"context">> \o <<"context", "run_started", "end", "done">> =
           <<"context", "context", "run_started", "end", "done">>
    /\ <<"run_started", "context">> \o <<"done", "end">> =
           <<"run_started", "context", "done", "end">>
    /\ <<"context", "run_started">> \o <<"end", "done">> =
           <<"context", "run_started", "end", "done">>
    /\ <<"done">> \o Tail(<<"context">>) = <<"done">>
    /\ <<"done">> \o Tail(<<"context", "end">>) = <<"done", "end">>
    /\ <<>> \o <<"context", "run_started", "end", "done">> =
           <<"context", "run_started", "end", "done">>
    /\ <<>> \o <<"done", "end">> = <<"done", "end">>
    /\ <<"context">> \o <<"done", "end">> = <<"context", "done", "end">>
    /\ <<>> \o <<"end", "done">> = <<"end", "done">>
    /\ <<"run_started">> \o <<"end", "done">> = <<"run_started", "end", "done">>
    /\ <<>> \o <<"done">> = <<"done">>
    /\ <<"end">> \o <<"done">> = <<"end", "done">>
<1>1. <<"context">> \o <<>> = <<"context">>
  OBVIOUS
<1>2. <<"run_started", "context">> \o <<>> = <<"run_started", "context">>
  OBVIOUS
<1>3. <<"context", "end">> \o <<>> = <<"context", "end">>
  OBVIOUS
<1>4. <<"context">> \o <<"run_started">> = <<"context", "run_started">>
  BY JoinOneOne
<1>5. <<"context">> \o <<"context", "run_started", "end", "done">> =
       <<"context", "context", "run_started", "end", "done">>
  BY JoinOneFour
<1>6. <<"run_started", "context">> \o <<"done", "end">> =
       <<"run_started", "context", "done", "end">>
  BY JoinTwoTwo
<1>7. <<"context", "run_started">> \o <<"end", "done">> =
       <<"context", "run_started", "end", "done">>
  BY JoinTwoTwo
<1>8. <<"done">> \o Tail(<<"context">>) = <<"done">>
  OBVIOUS
<1>9. <<"done">> \o Tail(<<"context", "end">>) = <<"done", "end">>
  <2>1. Tail(<<"context", "end">>) = <<"end">>
    OBVIOUS
  <2> QED
    BY <2>1, JoinOneOne
<1>10. <<>> \o <<"context", "run_started", "end", "done">> =
       <<"context", "run_started", "end", "done">>
  OBVIOUS
<1>11. <<>> \o <<"done", "end">> = <<"done", "end">>
  OBVIOUS
<1>12. <<"context">> \o <<"done", "end">> = <<"context", "done", "end">>
  BY JoinOneTwo
<1>13. <<>> \o <<"end", "done">> = <<"end", "done">>
  OBVIOUS
<1>14. <<"run_started">> \o <<"end", "done">> = <<"run_started", "end", "done">>
  BY JoinOneTwo
<1>15. <<>> \o <<"done">> = <<"done">>
  OBVIOUS
<1>16. <<"end">> \o <<"done">> = <<"end", "done">>
  BY JoinOneOne
<1> QED
  BY <1>1, <1>2, <1>3, <1>4, <1>5, <1>6, <1>7, <1>8, <1>9, <1>10, <1>11, <1>12,
     <1>13, <1>14, <1>15, <1>16

Mapped == Remaining = Left

LEMMA LeftIsRemaining == IInv => Mapped
<1> SUFFICES ASSUME IInv PROVE Remaining = Left
  BY DEF Mapped
<1>1. EmissionInv /\ OutboxInv /\ Counts /\ stage \in Stages /\ phase5 \in BOOLEAN
      /\ (stage \in {"running", "answered"} => phase5)
  BY DEF IInv, RunnerInv, RunnerTyped
<1>2. CASE emission # NoEmission
  <2>1. /\ stage # "new" /\ stage # "answered"
        /\ emission.kind = "question_started" <=> stage = "answering"
        /\ emission.kind = "question_ended" <=> stage = "ending"
    BY <1>1, <1>2 DEF EmissionInv
  <2>2. outbox = IF stage = "running" THEN <<"run_started">> ELSE <<>>
    BY <1>1, <1>2 DEF OutboxInv
  <2>3. Coming = FromAdapter(emission.kind) \o outbox
    BY <1>2 DEF Coming
  <2>4. CASE stage = "answering" /\ phase5
    <3>1. FromAdapter(emission.kind) = <<"context">>
      BY <2>1, <2>4 DEF FromAdapter
    <3>2. Coming = <<"context">>
      BY <2>2, <2>3, <2>4, <3>1, Joined
    <3> QED
      BY <1>2, <2>4, <3>2, Joined DEF Remaining, Left
  <2>5. CASE stage = "answering" /\ ~phase5
    <3>1. FromAdapter(emission.kind) = <<"run_started", "context">>
      BY <2>1, <2>5 DEF FromAdapter
    <3>2. Coming = <<"run_started", "context">>
      BY <2>2, <2>3, <2>5, <3>1, Joined
    <3> QED
      BY <1>2, <2>5, <3>2, Joined DEF Remaining, Left
  <2>6. CASE stage = "running"
    <3>1. FromAdapter(emission.kind) = <<"context">>
      BY <2>1, <2>6 DEF FromAdapter
    <3>2. Coming = <<"context", "run_started">>
      BY <2>2, <2>3, <2>6, <3>1, Joined
    <3> QED
      BY <1>2, <2>6, <3>2, Joined DEF Remaining, Left
  <2>7. CASE stage = "ending" /\ phase5
    <3>1. FromAdapter(emission.kind) = <<"context">>
      BY <2>1, <2>7 DEF FromAdapter
    <3>2. Coming = <<"context">>
      BY <2>2, <2>3, <2>7, <3>1, Joined
    <3> QED
      BY <1>2, <2>7, <3>2, Joined DEF Remaining, Left
  <2>8. CASE stage = "ending" /\ ~phase5
    <3>1. FromAdapter(emission.kind) = <<"context", "end">>
      BY <2>1, <2>8 DEF FromAdapter
    <3>2. Coming = <<"context", "end">>
      BY <2>2, <2>3, <2>8, <3>1, Joined
    <3> QED
      BY <1>2, <2>8, <3>2, Joined DEF Remaining, Left
  <2>9. CASE stage \in {"looping", "over"}
    <3>1. FromAdapter(emission.kind) = <<"context">>
      BY <2>1, <2>9 DEF FromAdapter
    <3>2. Coming = <<"context">>
      BY <2>2, <2>3, <2>9, <3>1, Joined
    <3> QED
      BY <1>2, <2>9, <3>2 DEF Remaining, Left
  <2> QED
    BY <1>1, <2>1, <2>4, <2>5, <2>6, <2>7, <2>8, <2>9 DEF Stages
<1>3. CASE emission = NoEmission
  <2>1. Coming = outbox
    BY <1>3 DEF Coming
  <2>2. CASE stage = "answering" /\ phase5
    <3>1. outbox = <<>>
      BY <1>1, <2>2 DEF OutboxInv
    <3> QED
      BY <1>3, <2>1, <2>2, <3>1, Joined DEF Remaining, Left
  <2>3. CASE stage = "answering" /\ ~phase5
    <3>1. outbox \in {<<>>, <<"context">>}
      BY <1>1, <2>3 DEF OutboxInv
    <3> QED
      BY <1>3, <2>1, <2>3, <3>1, Joined DEF Remaining, Left
  <2>4. CASE stage = "running"
    <3>1. outbox \in {<<>>, <<"run_started">>}
      BY <1>1, <2>4 DEF OutboxInv
    <3> QED
      BY <1>3, <2>1, <2>4, <3>1, Joined DEF Remaining, Left
  <2>5. CASE stage = "answered"
    <3>1. outbox \in {<<>>, <<"end">>}
      BY <1>1, <2>5 DEF OutboxInv
    <3> QED
      BY <1>3, <2>1, <2>5, <3>1, Joined DEF Remaining, Left
  <2>6. CASE stage = "new"
    BY <1>3, <2>6 DEF Remaining, Left
  <2>7. CASE stage \in {"looping", "ending", "over"}
    BY <1>3, <2>1, <2>7 DEF Remaining, Left
  <2> QED
    BY <1>1, <2>2, <2>3, <2>4, <2>5, <2>6, <2>7 DEF Stages
<1> QED
  BY <1>2, <1>3

LEMMA LeftIsRemainingNext == IInv' => Remaining' = Left'
<1>1. IInv' => Mapped'
  BY LeftIsRemaining, PTL
<1> QED
  BY <1>1 DEF Mapped

\* Both specifications mean the same bus.
LEMMA SameNumber ==
    ASSUME NEW t, NEW kind, NEW b, NEW below, Number(t, kind, b, below)
    PROVE  LiveSpec!Number(t, kind, b, below)
BY DEF Number, LiveSpec!Number, Stored, LiveSpec!Stored, OpenEvents, LiveSpec!OpenEvents,
       RunKinds, LiveSpec!RunKinds, Threads, LiveSpec!Threads

LEMMA SameCall == ASSUME NEW t, Call(t) PROVE LiveSpec!Call(t)
BY SameNumber DEF Call, LiveSpec!Call, Called, LiveSpec!Called, Idle, LiveSpec!Idle,
       Applied, LiveSpec!Applied, EmptyBoard, LiveSpec!EmptyBoard, Nothing, LiveSpec!Nothing

LEMMA SameAttach == ASSUME Attach PROVE LiveSpec!Attach
BY DEF Attach, LiveSpec!Attach, Contains, LiveSpec!Contains, streams, LiveSpec!streams

LEMMA SameTick == ASSUME Tick PROVE LiveSpec!Tick
BY SameNumber DEF Tick, LiveSpec!Tick, LoopFree, LiveSpec!LoopFree, Idle, LiveSpec!Idle,
       Nothing, LiveSpec!Nothing, streams, LiveSpec!streams

LEMMA SameBrowser == ASSUME NEW c, Browser(c) PROVE LiveSpec!Browser(c)
BY DEF Browser, LiveSpec!Browser, Connect, LiveSpec!Connect, Disconnect, LiveSpec!Disconnect,
       LoopFree, LiveSpec!LoopFree, Idle, LiveSpec!Idle, RemoveAt, LiveSpec!RemoveAt

LEMMA SameStream == ASSUME NEW c, Stream(c) PROVE LiveSpec!Stream(c)
BY DEF Stream, LiveSpec!Stream, ReadHistory, LiveSpec!ReadHistory, Replay, LiveSpec!Replay,
       Follow, LiveSpec!Follow, Yield, LiveSpec!Yield, LoopFree, LiveSpec!LoopFree,
       Idle, LiveSpec!Idle, bus, LiveSpec!bus

LEMMA SameOthers == ASSUME Others PROVE LiveSpec!Others
BY SameCall, SameTick, SameBrowser, SameStream
   DEF Others, LiveSpec!Others, Server, LiveSpec!Server

\* The question of LiveBatch.
Asked == IF stage = "over" /\ ~stopped THEN Questions + 1 ELSE position

LEMMA SilentMapped ==
    ASSUME UNCHANGED <<live, phase5, stopped>>, Asked' = Asked, Remaining' = Remaining
    PROVE  UNCHANGED LiveSpec!vars
BY DEF Asked, live, bus, streams, LiveSpec!vars, LiveSpec!live, LiveSpec!bus, LiveSpec!streams,
       LiveSpec!steps

LEMMA NextMapped ==
    ASSUME Idle("pipeline"), Remaining = <<>>, ~stopped, Asked <= Questions,
           Asked' = Asked + 1,
           Remaining' = IF Asked' <= Questions THEN LiveSpec!Script ELSE <<"context">>,
           UNCHANGED <<live, phase5, stopped>>
    PROVE  LiveSpec!NextQuestion
BY DEF Asked, Idle, live, bus, streams, LiveSpec!NextQuestion, LiveSpec!Idle, LiveSpec!live,
       LiveSpec!bus, LiveSpec!streams

LEMMA StopMapped ==
    ASSUME Idle("pipeline"), ~stopped, Asked \in 1..Questions,
           Remaining # LiveSpec!Script, Asked' = Asked,
           Remaining' = IF phase5 /\ Remaining # <<>> THEN <<"done">> ELSE Remaining,
           UNCHANGED <<live, phase5>>, stopped' = TRUE
    PROVE  LiveSpec!Stop
BY DEF Asked, Idle, live, bus, streams, LiveSpec!Stop, LiveSpec!Idle, LiveSpec!live,
       LiveSpec!bus, LiveSpec!streams

LEMMA ReportMapped ==
    ASSUME NEW h, NEW kind, Contains(subs, "adapter"), Idle("pipeline"),
           Remaining # <<>>, Head(Remaining) = h, Remaining' = Tail(Remaining),
           kind \in (CASE h = "end" -> {"run_completed", "run_failed"}
                       [] h = "done" -> {"context"}
                       [] OTHER -> {h}),
           Number("pipeline", kind, snapshot', <<>>),
           snapshot' = [question |-> IF Asked <= Questions THEN Asked ELSE Questions,
                        completed |-> IF h = "done" THEN Asked ELSE snapshot.completed],
           UNCHANGED <<phase5, stopped, ticks, board, streams>>, Asked' = Asked
    PROVE  LiveSpec!Report
<1>1. LiveSpec!Number("pipeline", kind, snapshot', <<>>)
  BY SameNumber
<1>2. LiveSpec!Contains(subs, "adapter") /\ LiveSpec!Idle("pipeline")
  BY DEF Contains, LiveSpec!Contains, Idle, LiveSpec!Idle
<1>3. UNCHANGED LiveSpec!streams
  BY DEF streams, LiveSpec!streams
<1> QED
  BY <1>1, <1>2, <1>3 DEF LiveSpec!Report, Asked

\* The steps of the runner that publish nothing.
LEMMA RunnerMapped ==
    ASSUME IInv, IInv', Runner \/ Fail
    PROVE  LiveSpec!NextQuestion \/ LiveSpec!Stop \/ UNCHANGED LiveSpec!vars
<1>1. /\ Remaining = Left /\ Remaining' = Left'
  BY LeftIsRemaining, LeftIsRemainingNext DEF Mapped
<1>2. /\ Counts /\ position \in 0..Questions /\ Questions \in Nat /\ Questions # 0
      /\ recorded \in Nat /\ stopped \in BOOLEAN /\ phase5 \in BOOLEAN
      /\ (stage \in {"running", "answered"} => phase5)
  BY LiveAssumption DEF IInv, RunnerInv, RunnerTyped
<1>3. CASE StartBatch
  <2>1. /\ stage = "new" /\ stage' = "looping" /\ emission = NoEmission /\ emission' # NoEmission
        /\ UNCHANGED <<live, phase5, stopped, position>>
    BY <1>3, Emitting DEF StartBatch, Emissions
  <2>2. Left = <<"context">> /\ Left' = <<"context">>
    BY <2>1 DEF Left
  <2>3. Asked' = Asked
    BY <2>1 DEF Asked
  <2> QED
    BY <1>1, <2>1, <2>2, <2>3, SilentMapped
<1>4. CASE StartQuestion
  <2>1. /\ stage = "looping" /\ stage' = "answering" /\ emission = NoEmission /\ outbox = <<>>
        /\ emission' # NoEmission /\ position < Questions /\ position' = position + 1
        /\ UNCHANGED <<live, phase5, stopped>>
    BY <1>4, Emitting DEF StartQuestion, Emissions
  <2>2. Left = <<>> /\ Left' = LiveSpec!Script
    BY <1>2, <2>1 DEF Left, LiveSpec!Script
  <2>3. ~stopped /\ Asked = position /\ Asked' = position + 1
    BY <1>2, <2>1 DEF Asked, Counts
  <2>4. Asked <= Questions /\ Asked' <= Questions /\ Asked' = Asked + 1
    BY <1>2, <2>1, <2>3
  <2>5. Idle("pipeline")
    BY <1>4 DEF StartQuestion, Emit, Free
  <2> QED
    BY <1>1, <2>1, <2>2, <2>3, <2>4, <2>5, NextMapped
<1>5. CASE StartPhase5
  <2>1. /\ stage = "answering" /\ stage' = "running" /\ emission = NoEmission /\ phase5
        /\ emission' # NoEmission /\ UNCHANGED <<live, phase5, stopped, position>>
    BY <1>5, Emitting DEF StartPhase5, Emissions
  <2>2. Left' = Left
    BY <2>1 DEF Left
  <2>3. Asked' = Asked
    BY <2>1 DEF Asked
  <2> QED
    BY <1>1, <2>1, <2>2, <2>3, SilentMapped
<1>6. CASE EndPhase5
  <2>1. /\ stage = "running" /\ stage' = "answered" /\ emission = NoEmission /\ outbox = <<>>
        /\ outbox' = <<"end">> /\ UNCHANGED <<live, phase5, stopped, position, emission>>
    BY <1>6 DEF EndPhase5, Free
  <2>2. Left' = Left
    BY <2>1 DEF Left
  <2>3. Asked' = Asked
    BY <2>1 DEF Asked
  <2> QED
    BY <1>1, <2>1, <2>2, <2>3, SilentMapped
<1>7. CASE EndQuestion
  <2>1. /\ stage \in {"answering", "running", "answered"} /\ stage' = "ending"
        /\ emission = NoEmission /\ outbox = <<>> /\ emission' # NoEmission
        /\ UNCHANGED <<live, phase5, position>> /\ Idle("pipeline")
        /\ \/ stage = (IF phase5 THEN "answered" ELSE "answering") /\ UNCHANGED stopped
           \/ stopped' = TRUE
    BY <1>7, Emitting DEF EndQuestion, Emissions, Emit, Free
  <2>2. ~stopped /\ Asked = position /\ Asked' = position /\ position \in 1..Questions
    BY <1>2, <2>1 DEF Asked, Counts, InQuestion
  <2>3. /\ phase5 => Left' = <<"done">>
        /\ ~phase5 => Left' = <<"done", "end">> /\ Left = <<"done", "end">>
    BY <1>2, <2>1 DEF Left
  <2>4. CASE stage = (IF phase5 THEN "answered" ELSE "answering") /\ UNCHANGED stopped
    <3>1. Left' = Left
      BY <2>1, <2>3, <2>4 DEF Left
    <3> QED
      BY <1>1, <2>1, <2>2, <2>4, <3>1, SilentMapped
  <2>5. CASE stopped' = TRUE
    <3>1. Left # LiveSpec!Script /\ Left # <<>>
      BY <1>2, <2>1 DEF Left, LiveSpec!Script
    <3>2. Left' = IF phase5 /\ Left # <<>> THEN <<"done">> ELSE Left
      BY <2>3, <3>1
    <3> QED
      BY <1>1, <2>1, <2>2, <2>5, <3>1, <3>2, StopMapped
  <2> QED
    BY <2>1, <2>4, <2>5
<1>8. CASE Record
  <2>1. /\ stage = "ending" /\ stage' = (IF stopped THEN "over" ELSE "looping")
        /\ emission = NoEmission /\ outbox = <<>>
        /\ UNCHANGED <<live, phase5, stopped, position, emission, outbox>>
    BY <1>8 DEF Record, Free
  <2>2. Left = <<>> /\ Left' = <<>>
    BY <2>1 DEF Left
  <2>3. Asked' = Asked
    BY <2>1 DEF Asked
  <2> QED
    BY <1>1, <2>1, <2>2, <2>3, SilentMapped
<1>9. CASE CompleteBatch
  <2>1. /\ stage = "looping" /\ stage' = "over" /\ emission = NoEmission /\ outbox = <<>>
        /\ emission' # NoEmission /\ position = Questions
        /\ UNCHANGED <<live, phase5, stopped, position>>
    BY <1>9, Emitting DEF CompleteBatch, Emissions
  <2>2. Left = <<>> /\ Left' = <<"context">>
    BY <2>1 DEF Left
  <2>3. ~stopped /\ Asked = Questions /\ Asked' = Questions + 1
    BY <1>2, <2>1 DEF Asked, Counts
  <2>4. Asked <= Questions /\ ~(Asked' <= Questions) /\ Asked' = Asked + 1
    BY <1>2, <2>3
  <2>5. Idle("pipeline")
    BY <1>9 DEF CompleteBatch, Emit, Free
  <2> QED
    BY <1>1, <2>1, <2>2, <2>3, <2>4, <2>5, NextMapped
<1>10. CASE Fail
  <2>1. /\ stage = "ending" \/ (stage = "looping" /\ position = Questions)
        /\ stage' = "over" /\ stopped' = TRUE /\ emission = NoEmission /\ outbox = <<>>
        /\ UNCHANGED <<live, phase5, position, emission, outbox>> /\ Idle("pipeline")
    BY <1>10 DEF Fail, Free
  <2>2. Left = <<>> /\ Left' = <<>>
    BY <2>1 DEF Left
  <2>3. Asked = position /\ Asked' = position /\ position \in 1..Questions
    BY <1>2, <2>1 DEF Asked, Counts, InQuestion
  <2>4. CASE stopped = TRUE
    BY <1>1, <2>1, <2>2, <2>3, <2>4, SilentMapped
  <2>5. CASE stopped = FALSE
    <3>1. LiveSpec!Script # <<>>
      BY DEF LiveSpec!Script
    <3> QED
      BY <1>1, <2>1, <2>2, <2>3, <2>5, <3>1, StopMapped
  <2> QED
    BY <1>2, <2>4, <2>5
<1> QED
  BY <1>3, <1>4, <1>5, <1>6, <1>7, <1>8, <1>9, <1>10 DEF Runner

\* The adapter publishes on an execution event.
LEMMA AdaptMapped ==
    ASSUME IInv, IInv', Idle("pipeline"), emission # NoEmission,
           Head(emission.left) = "adapter", Adapt
    PROVE  LiveSpec!Report
<1>1. Remaining = Left /\ Remaining' = Left'
  BY LeftIsRemaining, LeftIsRemainingNext DEF Mapped
<1>2. /\ RunnerInv /\ RunnerTyped /\ EmissionInv /\ OutboxInv /\ Counts /\ Tracked
      /\ position \in 0..Questions /\ Questions \in Nat /\ recorded \in Nat /\ phase5 \in BOOLEAN
  BY LiveAssumption DEF IInv, RunnerInv, RunnerTyped
<1>3. emission.left = <<"adapter">> /\ Handled(emission) = NoEmission
      /\ emission.left # Handlers
  <2>1. <<"adapter">> # Handlers
    BY DEF Handlers
  <2> QED
    BY <1>2, <2>1, HandledFacts
<1>4. PICK first, rest : /\ first = Head(FromAdapter(emission.kind))
                         /\ rest = Tail(FromAdapter(emission.kind)) \o outbox
  OBVIOUS
<1>5. /\ first = (IF stage = "answering" /\ ~phase5 THEN "run_started" ELSE "context")
      /\ rest = CASE stage = "answering" /\ ~phase5 -> <<"context">>
                  [] stage = "running" -> <<"run_started">>
                  [] stage = "ending" /\ ~phase5 -> <<"end">>
                  [] OTHER -> <<>>
  BY <1>2, <1>3, <1>4, AdapterScript
<1>6. /\ emission.question = (IF InQuestion THEN position ELSE 0)
      /\ progress.question = position
      /\ emission.kind = "question_ended" <=> stage = "ending"
      /\ stage \in {"looping", "answering", "running", "ending", "over"}
  BY <1>2, <1>3 DEF EmissionInv, Tracked
<1>7. /\ Number("pipeline", first, snapshot', <<>>)
      /\ snapshot' = [question |-> position, completed |-> progress.completed]
      /\ outbox' = rest /\ emission' = NoEmission
      /\ UNCHANGED <<phase5, stage, position, stopped, ticks, board, streams>>
  <2>1. PICK seen : seen = [question |-> IF emission.question # 0 THEN emission.question
                                                                   ELSE progress.question,
                            completed |-> progress.completed]
    OBVIOUS
  <2>2. seen = [question |-> position, completed |-> progress.completed]
    BY <1>6, <2>1
  <2>3. PICK kind \in LiveKinds(first) : Number("pipeline", kind, seen, <<>>)
    BY <1>4, <2>1 DEF Adapt
  <2>4. kind = first
    BY <1>5, <2>3 DEF LiveKinds
  <2>5. snapshot' = seen
    BY <2>1 DEF Adapt
  <2> QED
    BY <1>3, <1>4, <2>2, <2>3, <2>4, <2>5 DEF Adapt, runner
<1>8. PICK h : h = Head(Left)
  OBVIOUS
<1>9. Left # <<>> /\ Left' = Tail(Left)
      /\ h = (IF stage = "ending" THEN "done" ELSE first)
  <2>1. CASE stage = "answering" /\ phase5
    BY <1>3, <1>5, <1>7, <1>8, <2>1 DEF Left
  <2>2. CASE stage = "answering" /\ ~phase5
    BY <1>5, <1>7, <1>8, <2>2 DEF Left
  <2>3. CASE stage = "running"
    BY <1>5, <1>7, <1>8, <2>3 DEF Left
  <2>4. CASE stage = "ending" /\ phase5
    BY <1>5, <1>7, <1>8, <2>4 DEF Left
  <2>5. CASE stage = "ending" /\ ~phase5
    BY <1>5, <1>7, <1>8, <2>5 DEF Left
  <2>6. CASE stage \in {"looping", "over"}
    BY <1>5, <1>7, <1>8, <2>6 DEF Left
  <2> QED
    BY <1>6, <2>1, <2>2, <2>3, <2>4, <2>5, <2>6
<1>10. first \in (CASE h = "end" -> {"run_completed", "run_failed"}
                    [] h = "done" -> {"context"}
                    [] OTHER -> {h})
  BY <1>5, <1>9
<1>11. Asked' = Asked /\ position = (IF Asked <= Questions THEN Asked ELSE Questions)
  <2>1. stage = "over" /\ ~stopped => position = Questions
    BY <1>2 DEF Counts
  <2>2. Asked = position \/ (Asked = Questions + 1 /\ position = Questions)
    BY <2>1 DEF Asked
  <2> QED
    BY <1>2, <1>7, <2>2 DEF Asked
<1>12. progress.completed = (IF h = "done" THEN Asked ELSE snapshot.completed)
  <2>1. CASE stage = "ending"
    <3>1. progress.completed = recorded + 1 /\ position = recorded + 1 /\ Asked = position
      BY <1>2, <1>3, <2>1 DEF Tracked, Counts, InQuestion, Asked
    <3> QED
      BY <1>9, <2>1, <3>1
  <2>2. CASE stage # "ending"
    <3>1. snapshot.completed = progress.completed
      BY <1>2, <1>6, <2>2 DEF Tracked
    <3>2. h # "done"
      BY <1>5, <1>9, <2>2
    <3> QED
      BY <3>1, <3>2
  <2> QED
    BY <2>1, <2>2
<1>13. snapshot' = [question |-> IF Asked <= Questions THEN Asked ELSE Questions,
                    completed |-> IF h = "done" THEN Asked ELSE snapshot.completed]
  BY <1>7, <1>11, <1>12
<1>14. Contains(subs, "adapter")
  BY <1>2, <1>6 DEF RunnerTyped
<1> QED
  BY <1>1, <1>7, <1>8, <1>9, <1>10, <1>11, <1>13, <1>14, ReportMapped

\* The adapter or Phase 5 publishes another event.
LEMMA PublishNextMapped == ASSUME IInv, IInv', PublishNext PROVE LiveSpec!Report
<1>1. Remaining = Left /\ Remaining' = Left'
  BY LeftIsRemaining, LeftIsRemainingNext DEF Mapped
<1>2. /\ RunnerTyped /\ OutboxInv /\ Counts /\ Tracked /\ snapshot \in Snapshot
      /\ position \in 0..Questions /\ Questions \in Nat /\ phase5 \in BOOLEAN
  BY LiveAssumption DEF IInv, LiveInv, BusTyped, RunnerInv, RunnerTyped
<1>3. /\ emission = NoEmission /\ outbox # <<>> /\ Idle("pipeline") /\ outbox' = Tail(outbox)
      /\ UNCHANGED <<snapshot, phase5, stage, position, stopped, ticks, board, streams, emission>>
  BY DEF PublishNext, runner
<1>4. PICK first : first = Head(outbox)
  OBVIOUS
<1>5. /\ outbox' = <<>> /\ outbox = <<first>>
      /\ \/ first = "context" /\ stage = "answering" /\ ~phase5
         \/ first = "run_started" /\ stage = "running"
         \/ first = "end" /\ stage = "answered"
         \/ first = "end" /\ stage = "ending" /\ ~phase5
  <2>1. /\ Head(<<"context">>) = "context" /\ Tail(<<"context">>) = <<>>
        /\ Head(<<"run_started">>) = "run_started" /\ Tail(<<"run_started">>) = <<>>
        /\ Head(<<"end">>) = "end" /\ Tail(<<"end">>) = <<>>
    OBVIOUS
  <2>2. outbox \in {<<"context">>, <<"run_started">>, <<"end">>}
    BY <1>2, <1>3 DEF OutboxInv
  <2>3. CASE outbox = <<"context">>
    BY <1>2, <1>3, <1>4, <2>1, <2>3 DEF OutboxInv
  <2>4. CASE outbox = <<"run_started">>
    BY <1>2, <1>3, <1>4, <2>1, <2>4 DEF OutboxInv
  <2>5. CASE outbox = <<"end">>
    BY <1>2, <1>3, <1>4, <2>1, <2>5 DEF OutboxInv
  <2> QED
    BY <2>2, <2>3, <2>4, <2>5
<1>6. Left # <<>> /\ Head(Left) = first /\ Left' = Tail(Left)
  <2>1. CASE first = "context" /\ stage = "answering" /\ ~phase5
    BY <1>3, <1>5, <2>1 DEF Left
  <2>2. CASE first = "run_started" /\ stage = "running"
    BY <1>3, <1>5, <2>2 DEF Left
  <2>3. CASE first = "end" /\ stage = "answered"
    BY <1>3, <1>5, <2>3 DEF Left
  <2>4. CASE first = "end" /\ stage = "ending" /\ ~phase5
    BY <1>3, <1>5, <2>4 DEF Left
  <2> QED
    BY <1>5, <2>1, <2>2, <2>3, <2>4
<1>7. PICK kind \in LiveKinds(first) : Number("pipeline", kind, snapshot, <<>>)
  BY <1>4 DEF PublishNext
<1>8. kind \in (CASE first = "end" -> {"run_completed", "run_failed"}
                  [] first = "done" -> {"context"}
                  [] OTHER -> {first})
  BY <1>5, <1>7 DEF LiveKinds
<1>9. Asked = position /\ Asked' = Asked /\ snapshot.question = position
  BY <1>2, <1>3, <1>5 DEF Asked, Tracked
<1>10. snapshot' = [question |-> IF Asked <= Questions THEN Asked ELSE Questions,
                    completed |-> IF first = "done" THEN Asked ELSE snapshot.completed]
  <2>1. snapshot = [question |-> snapshot.question, completed |-> snapshot.completed]
    BY <1>2 DEF Snapshot
  <2>2. Asked <= Questions /\ first # "done"
    BY <1>2, <1>5, <1>9
  <2> QED
    BY <1>3, <1>9, <2>1, <2>2
<1>11. Contains(subs, "adapter")
  BY <1>2, <1>5 DEF RunnerTyped
<1>12. Number("pipeline", kind, snapshot', <<>>)
  BY <1>3, <1>7
<1> QED
  BY <1>1, <1>3, <1>6, <1>8, <1>9, <1>10, <1>11, <1>12, ReportMapped

\* What the mapping reads of the runner does not change when an event is handled.
LEMMA HandlingMapped ==
    ASSUME IInv, IInv', emission # NoEmission, Head(emission.left) \in {"progress", "observers"},
           Track \/ Observe
    PROVE  UNCHANGED LiveSpec!vars
<1>1. Remaining = Left /\ Remaining' = Left'
  BY LeftIsRemaining, LeftIsRemainingNext DEF Mapped
<1>2. UNCHANGED <<live, phase5, stage, position, stopped, outbox>> /\ emission' = Handled(emission)
  BY DEF Track, Observe, runner
<1>3. emission' # NoEmission
  BY <1>2, HandledFacts DEF IInv
<1>4. Left' = Left
  BY <1>2, <1>3 DEF Left
<1>5. Asked' = Asked
  BY <1>2 DEF Asked
<1> QED
  BY <1>1, <1>2, <1>4, <1>5, SilentMapped

LEMMA NextMaps == IInv /\ IInv' /\ [Next]_vars => [LiveSpec!Next]_(LiveSpec!vars)
<1> SUFFICES ASSUME IInv, IInv', [Next]_vars PROVE LiveSpec!Next \/ UNCHANGED LiveSpec!vars
  OBVIOUS
<1>1. CASE Runner \/ Fail
  BY <1>1, RunnerMapped DEF LiveSpec!Next, LiveSpec!Pipeline
<1>2. CASE Handle
  <2>1. CASE Head(emission.left) = "adapter" /\ Adapt
    <3>1. LiveSpec!Report
      BY <1>2, <2>1, AdaptMapped DEF Handle
    <3> QED
      BY <3>1 DEF LiveSpec!Next, LiveSpec!Pipeline
  <2>2. CASE Head(emission.left) # "adapter"
    BY <1>2, <2>2, HandlingMapped DEF Handle
  <2> QED
    BY <1>2, <2>1, <2>2 DEF Handle
<1>3. CASE PublishNext
  BY <1>3, PublishNextMapped DEF LiveSpec!Next, LiveSpec!Pipeline
<1>4. ASSUME UNCHANGED batch PROVE UNCHANGED <<phase5, stopped>> /\ UNCHANGED LiveSpec!steps
                                   /\ Asked' = Asked /\ Remaining' = Remaining
  <2>1. UNCHANGED <<phase5, stage, position, stopped, emission, outbox>>
    BY <1>4 DEF batch, runner
  <2>2. Asked' = Asked
    BY <2>1 DEF Asked
  <2>3. Coming' = Coming
    BY <2>1 DEF Coming, FromAdapter
  <2>4. Remaining' = Remaining
    BY <2>1, <2>3 DEF Remaining
  <2> QED
    BY <2>1, <2>2, <2>4 DEF LiveSpec!steps, Asked
<1>5. CASE Delivery
  <2>1. UNCHANGED batch /\ (Attach \/ Call("pipeline"))
    BY <1>5 DEF Delivery
  <2>2. UNCHANGED LiveSpec!steps /\ (LiveSpec!Attach \/ LiveSpec!Call("pipeline"))
    BY <1>4, <2>1, SameAttach, SameCall
  <2> QED
    BY <2>2 DEF LiveSpec!Next, LiveSpec!Pipeline
<1>6. CASE Others /\ UNCHANGED batch
  <2>1. UNCHANGED LiveSpec!steps /\ LiveSpec!Others
    BY <1>4, <1>6, SameOthers
  <2> QED
    BY <2>1 DEF LiveSpec!Next
<1>7. CASE UNCHANGED vars
  <2>1. UNCHANGED live /\ UNCHANGED batch
    BY <1>7 DEF vars, batch
  <2> QED
    BY <1>4, <2>1, SilentMapped
<1> QED
  BY <1>1, <1>2, <1>3, <1>5, <1>6, <1>7 DEF Next, Pipeline

LEMMA InitMaps == Init => LiveSpec!Init
<1> SUFFICES ASSUME Init PROVE LiveSpec!Init
  OBVIOUS
<1>1. LiveSpec!LiveInit
  BY DEF Init, LiveInit, LiveSpec!LiveInit, Threads, LiveSpec!Threads, Nothing, LiveSpec!Nothing,
         EmptyBoard, LiveSpec!EmptyBoard
<1>2. stage = "new" /\ position = 0 /\ stopped = FALSE /\ phase5 \in BOOLEAN
  BY DEF Init
<1>3. Remaining = <<"context">> /\ Asked = 0
  BY <1>2 DEF Remaining, Asked
<1> QED
  BY <1>1, <1>2, <1>3 DEF LiveSpec!Init, Asked

\* The runner, the manager, the tracker and the adapter together publish what LiveBatch
\* says and nothing else: the safety part of PublishesScripts.
THEOREM PublishesOnlyScripts == Spec => LiveSpec!Init /\ [][LiveSpec!Next]_(LiveSpec!vars)
<1> QED
  BY InitMaps, NextMaps, ExecutionInvariance, PTL DEF Spec
=============================================================================
