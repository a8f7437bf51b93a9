------------------------------- MODULE LiveBus -------------------------------
(***************************************************************************)
(* The live event bus of a batch run with its dashboard.  Two threads       *)
(* publish: the pipeline, and the server, whose event loop publishes        *)
(* telemetry ticks between the steps of the event streams it serves.        *)
(* publish() numbers and stores an event under the lock and calls the       *)
(* subscribers outside it, in the order they subscribed: the dashboard      *)
(* state, the batch adapter, which publishes again from inside its          *)
(* callback, and one queue a connected browser.  What the pipeline          *)
(* publishes is in LiveBatch and Execution.                                 *)
(***************************************************************************)
EXTENDS Integers, Sequences, FiniteSets, SequencesExt

CONSTANTS Questions,     \* number of questions of the batch
          MaxTicks,      \* bound: telemetry ticks of the server
          HistorySize,   \* maxlen of the bus history
          Connections    \* connections to /events; a reconnect is another one

ASSUME LiveAssumption == /\ Questions \in Nat \ {0}
                         /\ MaxTicks \in Nat
                         /\ HistorySize \in Nat \ {0}
                         /\ Connections \cap {"board", "adapter"} = {}

VARIABLES
    sequence,  \* EventBus._sequence
    history,   \* EventBus._history
    subs,      \* EventBus._subscribers, in insertion order
    stack,     \* the publish() calls each thread is in, innermost first
    reported,  \* the last run event that was numbered
    snapshot,  \* LiveExecutionAdapter.batch
    ticks,     \* telemetry ticks so far
    board,     \* CommandCenterState.value
    phase,     \* of a connection: "off", "subscribed", "streaming", "gone"
    queue,     \* its asyncio queue
    backlog,   \* the history it has not yielded yet
    last,      \* its last_sequence
    shown,     \* sequence numbers it has yielded
    base,      \* the number before the first event it could yield
    overtaken  \* events during whose publication another one was numbered

bus == <<sequence, history, subs, stack, overtaken, reported>>
streams == <<phase, queue, backlog, last, shown, base>>
live == <<bus, snapshot, ticks, board, streams>>

Threads == {"pipeline", "server"}
Subscribers == {"board", "adapter"} \cup Connections
RunKinds == {"run_started", "run_completed", "run_failed"}
Kinds == {"context", "tick"} \cup RunKinds
Snapshot == [question : 0..Questions, completed : 0..Questions]
Nothing == [question |-> 0, completed |-> 0]
Event == [seq : Nat, kind : Kinds, batch : Snapshot]
Frame == [event : Event, left : Seq(Subscribers)]
Board == [question : 0..Questions,
          status : {"idle", "running", "completed", "failed"},
          context : Snapshot]
EmptyBoard == [question |-> 0, status |-> "idle", context |-> Nothing]

Idle(t) == stack[t] = <<>>

\* A publish or a step of a stream runs on the event loop without giving it up.
LoopFree == Idle("server") /\ \A c \in Connections : phase[c] # "subscribed"

LiveInit ==
        /\ sequence = 0
        /\ history = <<>>
        /\ subs = <<"board">>
        /\ stack = [t \in Threads |-> <<>>]
        /\ overtaken = {}
        /\ reported = [kind |-> "none", question |-> 0]
        /\ snapshot = Nothing
        /\ ticks = 0
        /\ board = EmptyBoard
        /\ phase = [c \in Connections |-> "off"]
        /\ queue = [c \in Connections |-> <<>>]
        /\ backlog = [c \in Connections |-> <<>>]
        /\ last = [c \in Connections |-> 0]
        /\ shown = [c \in Connections |-> <<>>]
        /\ base = [c \in Connections |-> 0]

-----------------------------------------------------------------------------
(* EventBus.publish *)

\* Mutant of Stored: the history is not bounded.
StoredAll(e) == Append(history, e)

\* The deque drops its oldest event when it is full.
Stored(e) == LET all == Append(history, e)
             IN  IF Len(all) > HistorySize THEN Tail(all) ELSE all

OpenEvents == UNION {{stack[t][i].event.seq : i \in DOMAIN stack[t]} : t \in Threads}

\* The part under the lock, in thread t whose outer calls are below.
Number(t, kind, batch, below) ==
    LET e == [seq |-> sequence + 1, kind |-> kind, batch |-> batch]
    IN  /\ sequence' = e.seq
        /\ history' = Stored(e)
        /\ stack' = [stack EXCEPT ![t] = <<[event |-> e, left |-> subs]>> \o below]
        /\ overtaken' = overtaken \cup OpenEvents
        /\ reported' = IF kind \in RunKinds
                       THEN [kind |-> kind, question |-> batch.question]
                       ELSE reported
        /\ UNCHANGED subs

\* The calls t is still in once its innermost publish has called its next
\* subscriber: a publish without subscribers left returns.
Called(t) == IF Len(stack[t][1].left) = 1
             THEN Tail(stack[t])
             ELSE [stack[t] EXCEPT ![1].left = Tail(@)]

\* Mutant of Applied: the start of a run keeps the outcome of the one before.
AppliedKeepingStatus(b, e) ==
    CASE e.kind = "run_started" -> [b EXCEPT !.question = e.batch.question, !.context = Nothing]
      [] e.kind \in {"run_completed", "run_failed"} ->
            [b EXCEPT !.status = IF e.kind = "run_completed" THEN "completed" ELSE "failed"]
      [] e.kind = "context" -> [b EXCEPT !.context = e.batch]
      [] OTHER -> b

\* CommandCenterState.apply: the start of a run empties the board, and the context
\* on it with it; other events replace single fields.
Applied(b, e) ==
    CASE e.kind = "run_started" ->
            [EmptyBoard EXCEPT !.question = e.batch.question, !.status = "running"]
      [] e.kind = "run_completed" -> [b EXCEPT !.status = "completed"]
      [] e.kind = "run_failed" -> [b EXCEPT !.status = "failed"]
      [] e.kind = "context" -> [b EXCEPT !.context = e.batch]
      [] OTHER -> b

\* The next subscriber is called.  The adapter answers the start of a run with a
\* publish of its own, from inside the call; a connection only queues the event.
Call(t) ==
    /\ ~Idle(t)
    /\ LET top == stack[t][1]
       IN     \/ /\ Head(top.left) = "board"
                 /\ board' = Applied(board, top.event)
                 /\ stack' = [stack EXCEPT ![t] = Called(t)]
                 /\ UNCHANGED <<sequence, history, subs, overtaken, reported, queue>>
              \/ /\ Head(top.left) = "adapter"
                 /\ IF top.event.kind = "run_started"
                    THEN Number(t, "context", snapshot, Called(t))
                    ELSE /\ stack' = [stack EXCEPT ![t] = Called(t)]
                         /\ UNCHANGED <<sequence, history, subs, overtaken, reported>>
                 /\ UNCHANGED <<board, queue>>
              \/ /\ Head(top.left) \in Connections
                 /\ queue' = [queue EXCEPT ![Head(top.left)] = Append(@, top.event)]
                 /\ stack' = [stack EXCEPT ![t] = Called(t)]
                 /\ UNCHANGED <<sequence, history, subs, overtaken, reported, board>>
    /\ UNCHANGED <<snapshot, ticks, phase, backlog, last, shown, base>>

-----------------------------------------------------------------------------
(* Subscribing the adapter, and the ticks. *)

\* Mutant of Attach: the adapter is called before the dashboard state.
AttachFirst == /\ ~Contains(subs, "adapter")
               /\ subs' = <<"adapter">> \o subs
               /\ UNCHANGED <<sequence, history, stack, overtaken, reported, snapshot, ticks, board, streams>>

\* execute subscribes the adapter once the dashboard is up; a browser may already
\* be connected.
Attach == /\ ~Contains(subs, "adapter")
          /\ subs' = Append(subs, "adapter")
          /\ UNCHANGED <<sequence, history, stack, overtaken, reported, snapshot, ticks, board, streams>>

\* publish_telemetry, a task of the server's event loop.
Tick == /\ LoopFree
        /\ ticks < MaxTicks
        /\ ticks' = ticks + 1
        /\ Number("server", "tick", Nothing, <<>>)
        /\ UNCHANGED <<snapshot, board, streams>>

-----------------------------------------------------------------------------
(* EventBus.stream, behind GET /events *)

Connect(c) == /\ LoopFree
              /\ phase[c] = "off"
              /\ phase' = [phase EXCEPT ![c] = "subscribed"]
              /\ subs' = Append(subs, c)
              /\ UNCHANGED <<sequence, history, stack, overtaken, reported, snapshot, ticks, board,
                             queue, backlog, last, shown, base>>

\* Mutant of ReadHistory: the stream starts at the newest event, as if after the
\* history it has not yielded yet.
ReadNewest(c) ==
    /\ phase[c] = "subscribed"
    /\ phase' = [phase EXCEPT ![c] = "streaming"]
    /\ last' = [last EXCEPT ![c] = sequence]
    /\ base' = [base EXCEPT ![c] = IF history = <<>> THEN 0 ELSE history[1].seq - 1]
    /\ UNCHANGED <<bus, snapshot, ticks, board, queue, backlog, shown>>

\* The history is copied after the subscription: an event can be in both.
ReadHistory(c) ==
    /\ phase[c] = "subscribed"
    /\ phase' = [phase EXCEPT ![c] = "streaming"]
    /\ backlog' = [backlog EXCEPT ![c] = history]
    /\ base' = [base EXCEPT ![c] = IF history = <<>> THEN 0 ELSE history[1].seq - 1]
    /\ UNCHANGED <<bus, snapshot, ticks, board, queue, last, shown>>

Yield(c, e) == /\ shown' = [shown EXCEPT ![c] = Append(@, e.seq)]
               /\ last' = [last EXCEPT ![c] = e.seq]

Replay(c) == /\ LoopFree
             /\ phase[c] = "streaming"
             /\ backlog[c] # <<>>
             /\ Yield(c, Head(backlog[c]))
             /\ backlog' = [backlog EXCEPT ![c] = Tail(@)]
             /\ UNCHANGED <<bus, snapshot, ticks, board, phase, queue, base>>

\* Mutant of Follow: an event of the history that is also queued comes twice.
FollowAll(c) == /\ LoopFree
                /\ phase[c] = "streaming"
                /\ backlog[c] = <<>>
                /\ queue[c] # <<>>
                /\ Yield(c, Head(queue[c]))
                /\ queue' = [queue EXCEPT ![c] = Tail(@)]
                /\ UNCHANGED <<bus, snapshot, ticks, board, phase, backlog, base>>

\* Mutant of Follow: the stream waits for the event that follows the last one.
FollowConsecutive(c) ==
    /\ LoopFree
    /\ phase[c] = "streaming"
    /\ backlog[c] = <<>>
    /\ queue[c] # <<>>
    /\ Head(queue[c]).seq <= last[c] + 1
    /\ IF Head(queue[c]).seq > last[c]
       THEN Yield(c, Head(queue[c]))
       ELSE UNCHANGED <<shown, last>>
    /\ queue' = [queue EXCEPT ![c] = Tail(@)]
    /\ UNCHANGED <<bus, snapshot, ticks, board, phase, backlog, base>>

\* A queued event that is not newer than the last one is dropped.
Follow(c) == /\ LoopFree
             /\ phase[c] = "streaming"
             /\ backlog[c] = <<>>
             /\ queue[c] # <<>>
             /\ IF Head(queue[c]).seq > last[c]
                THEN Yield(c, Head(queue[c]))
                ELSE UNCHANGED <<shown, last>>
             /\ queue' = [queue EXCEPT ![c] = Tail(@)]
             /\ UNCHANGED <<bus, snapshot, ticks, board, phase, backlog, base>>

\* The browser is gone: the generator is closed and unsubscribes.
Disconnect(c) == /\ LoopFree
                 /\ phase[c] = "streaming"
                 /\ phase' = [phase EXCEPT ![c] = "gone"]
                 /\ \E i \in DOMAIN subs : subs[i] = c /\ subs' = RemoveAt(subs, i)
                 /\ UNCHANGED <<sequence, history, stack, overtaken, reported, snapshot, ticks, board,
                                queue, backlog, last, shown, base>>

Server == Tick \/ Call("server")
Stream(c) == ReadHistory(c) \/ Replay(c) \/ Follow(c)
Browser(c) == Connect(c) \/ Disconnect(c)

\* What happens besides the pipeline.
Others == Server \/ \E c \in Connections : Browser(c) \/ Stream(c)

-----------------------------------------------------------------------------
(* Properties. *)

\* Every variable has its type, and calls nest at most twice.
LiveTypeOK ==
          /\ sequence \in Nat
          /\ history \in Seq(Event) /\ Len(history) <= HistorySize
          /\ subs \in Seq(Subscribers)
          /\ stack \in [Threads -> Seq(Frame)]
          /\ \A t \in Threads : Len(stack[t]) <= 2
          /\ reported \in [kind : RunKinds \cup {"none"}, question : 0..Questions]
          /\ snapshot \in Snapshot /\ ticks \in 0..MaxTicks
          /\ board \in Board
          /\ phase \in [Connections -> {"off", "subscribed", "streaming", "gone"}]
          /\ queue \in [Connections -> Seq(Event)]
          /\ backlog \in [Connections -> Seq(Event)]
          /\ last \in [Connections -> Nat] /\ base \in [Connections -> Nat]
          /\ shown \in [Connections -> Seq(Nat)]
          /\ overtaken \subseteq 1..sequence

\* A browser is shown events in the order they were numbered and none of them
\* twice, whichever thread was faster and however the history and the queue overlap.
StreamInOrder == \A c \in Connections :
                    \A i, j \in DOMAIN shown[c] : i < j => shown[c][i] < shown[c][j]

Drained(c) == /\ \A t \in Threads : Idle(t)
              /\ phase[c] = "streaming" /\ backlog[c] = <<>> /\ queue[c] = <<>>

\* An event that no other event was numbered during is never lost on a stream: not
\* between the copy of the history and the queue, and not behind a later one.
OnlyOvertakenSkipped ==
    \A c \in Connections : Drained(c) =>
        \A n \in base[c] + 1 .. sequence :
            n \in overtaken \/ \E i \in DOMAIN shown[c] : shown[c][i] = n

\* Between two publishes of the pipeline the dashboard shows the last run event there
\* was, of whichever question, whatever the server publishes meanwhile.
BoardFollowsPipeline ==
    Idle("pipeline") /\ reported.kind # "none" =>
        /\ board.question = reported.question
        /\ board.status = CASE reported.kind = "run_started" -> "running"
                            [] reported.kind = "run_completed" -> "completed"
                            [] OTHER -> "failed"

\* A browser that stays connected gets to the newest event.
StreamCatchesUp ==
    \A c \in Connections :
        phase[c] = "streaming" ~> phase[c] = "gone" \/ last[c] = sequence
=============================================================================
