---------------------------- MODULE LiveBusProofs ----------------------------
(***************************************************************************)
(* Facts about the live event bus whatever the pipeline publishes on it:    *)
(* an invariant of its numbers, frames and streams, kept by every step the  *)
(* bus, the server and the browsers take and by every publish.              *)
(***************************************************************************)
EXTENDS LiveBus, SequenceTheorems, TLAPS

\* The types the proofs need.
BusTyped ==
    /\ sequence \in Nat
    /\ history \in Seq(Event)
    /\ subs \in Seq(Subscribers)
    /\ stack \in [Threads -> Seq(Frame)]
    /\ snapshot \in Snapshot
    /\ phase \in [Connections -> {"off", "subscribed", "streaming", "gone"}]
    /\ queue \in [Connections -> Seq(Event)]
    /\ backlog \in [Connections -> Seq(Event)]
    /\ last \in [Connections -> Nat]
    /\ base \in [Connections -> Nat]
    /\ shown \in [Connections -> Seq(Nat)]

\* The history is the tail of the events there were.
HistoryIsTail == /\ \A i \in DOMAIN history : history[i].seq = sequence - Len(history) + i
                 /\ history = <<>> => sequence = 0
                 /\ Len(history) <= sequence

\* An event that is being published is the newest or has been overtaken.
FramesNewest ==
    \A t \in Threads : \A i \in DOMAIN stack[t] :
        /\ stack[t][i].left # <<>>
        /\ stack[t][i].event.seq > 0 /\ stack[t][i].event.seq <= sequence
        /\ stack[t][i].event.seq \in overtaken \/ stack[t][i].event.seq = sequence

\* The dashboard state and the open connections are subscribed.
Subscribed ==
    /\ Contains(subs, "board")
    /\ \A c \in Connections : phase[c] \in {"subscribed", "streaming"} => Contains(subs, c)

\* A stream yields nothing before it has read the history.
NotBegun(c) == phase[c] \in {"off", "subscribed"} =>
                   shown[c] = <<>> /\ last[c] = 0 /\ backlog[c] = <<>>

\* What a stream has yielded is in order, and last_sequence is its end.
ShownInOrder(c) ==
    /\ \A i, j \in DOMAIN shown[c] : i < j => shown[c][i] < shown[c][j]
    /\ last[c] = IF shown[c] = <<>> THEN 0 ELSE shown[c][Len(shown[c])]
    /\ last[c] <= sequence

\* The backlog is in order and ahead of what was yielded.
BacklogAhead(c) ==
    /\ \A i \in DOMAIN backlog[c] : /\ backlog[c][i].seq > last[c]
                                    /\ backlog[c][i].seq <= sequence
    /\ \A i, j \in DOMAIN backlog[c] : i < j => backlog[c][i].seq < backlog[c][j].seq

IsShown(c, n) == \E i \in DOMAIN shown[c] : shown[c][i] = n
InBacklog(c, n) == \E i \in DOMAIN backlog[c] : backlog[c][i].seq = n
InQueue(c, n) == \E i \in DOMAIN queue[c] : queue[c][i].seq = n
\* Event n is being published and c has yet to be called.
Awaits(c, n) == \E t \in Threads : \E i \in DOMAIN stack[t] :
                    stack[t][i].event.seq = n /\ Contains(stack[t][i].left, c)

\* A queued event that the stream will not drop.
InTurn(c, k) ==
    LET n == queue[c][k].seq
    IN  \/ IsShown(c, n) \/ InBacklog(c, n)
        \/ /\ last[c] < n
           /\ \A i \in DOMAIN backlog[c] : backlog[c][i].seq < n
           /\ \A i \in 1..k : queue[c][i].seq <= n
QueueInTurn(c) ==
    /\ \A k \in DOMAIN queue[c] : queue[c][k].seq <= sequence
    /\ phase[c] = "streaming" =>
          \A k \in DOMAIN queue[c] :
              queue[c][k].seq > base[c] => queue[c][k].seq \in overtaken \/ InTurn(c, k)

\* Every event a stream could yield is somewhere on its way, or was overtaken.
NothingMissing(c) ==
    phase[c] = "streaming" =>
        \A n \in base[c] + 1 .. sequence :
            n \in overtaken \/ IsShown(c, n) \/ InBacklog(c, n) \/ InQueue(c, n) \/ Awaits(c, n)

StreamInv(c) == /\ NotBegun(c) /\ ShownInOrder(c) /\ BacklogAhead(c)
                /\ QueueInTurn(c) /\ NothingMissing(c)

LiveInv == /\ BusTyped /\ HistoryIsTail /\ FramesNewest /\ Subscribed
           /\ \A c \in Connections : StreamInv(c)

-----------------------------------------------------------------------------
(* Sequences and the calls on a stack. *)

\* The entries of a queue and of a stack.
LEMMA EventOf ==
    ASSUME NEW s \in Seq(Event), NEW i \in DOMAIN s
    PROVE  s[i] \in Event /\ s[i].seq \in Nat /\ DOMAIN s = 1..Len(s) /\ Len(s) \in Nat
<1>1. s[i] \in Event /\ DOMAIN s = 1..Len(s) /\ Len(s) \in Nat
  OBVIOUS
<1> QED
  BY <1>1 DEF Event

LEMMA FrameOf ==
    ASSUME NEW s \in Seq(Frame), NEW i \in DOMAIN s
    PROVE  /\ s[i] \in Frame /\ s[i].event \in Event /\ s[i].event.seq \in Nat
           /\ s[i].left \in Seq(Subscribers)
<1>1. s[i] \in Frame
  OBVIOUS
<1>2. s[i].event \in Event /\ s[i].left \in Seq(Subscribers)
  BY <1>1 DEF Frame
<1> QED
  BY <1>1, <1>2 DEF Event

\* Appending keeps what a sequence contains.
LEMMA AppendKeeps ==
    ASSUME NEW S, NEW s \in Seq(S), NEW e \in S
    PROVE  /\ Append(s, e) \in Seq(S)
           /\ Contains(Append(s, e), e)
           /\ \A d : Contains(s, d) => Contains(Append(s, e), d)
<1>1. /\ Append(s, e) \in Seq(S) /\ Len(Append(s, e)) = Len(s) + 1 /\ Len(s) \in Nat
      /\ Append(s, e)[Len(s) + 1] = e
      /\ \A i \in 1..Len(s) : Append(s, e)[i] = s[i]
  OBVIOUS
<1> QED
  BY <1>1 DEF Contains

\* What is left when one entry is removed.
LEMMA RemovedElements ==
    ASSUME NEW S, NEW s \in Seq(S), NEW i \in DOMAIN s
    PROVE  /\ RemoveAt(s, i) \in Seq(S) /\ Len(RemoveAt(s, i)) = Len(s) - 1
           /\ \A j \in 1..(Len(s) - 1) :
                 RemoveAt(s, i)[j] = IF j < i THEN s[j] ELSE s[j + 1]
<1>1. i \in 1..Len(s) /\ i \in Nat /\ Len(s) \in Nat
  OBVIOUS
<1>2. PICK a : a = SubSeq(s, 1, i - 1)
  OBVIOUS
<1>3. PICK b : b = SubSeq(s, i + 1, Len(s))
  OBVIOUS
<1>4. /\ a \in Seq(S) /\ Len(a) = i - 1
      /\ \A j \in 1..(i - 1) : a[j] = s[j]
  BY <1>1, <1>2
<1>5. /\ b \in Seq(S) /\ Len(b) = Len(s) - i
      /\ \A j \in 1..(Len(s) - i) : b[j] = s[i + j]
  BY <1>1, <1>3
<1>6. /\ a \o b \in Seq(S) /\ Len(a \o b) = Len(s) - 1
      /\ \A j \in 1..(Len(s) - 1) : (a \o b)[j] = IF j <= i - 1 THEN a[j] ELSE b[j - (i - 1)]
  BY SMTT(30), <1>1, <1>4, <1>5, ConcatProperties
<1>7. ASSUME NEW j \in 1..(Len(s) - 1)
      PROVE  (a \o b)[j] = IF j < i THEN s[j] ELSE s[j + 1]
  <2>1. CASE j < i
    <3>1. j \in 1..(i - 1) /\ j <= i - 1
      BY <1>1, <2>1
    <3> QED
      BY <1>4, <1>6, <2>1, <3>1
  <2>2. CASE ~(j < i)
    <3>1. /\ j - (i - 1) \in 1..(Len(s) - i) /\ ~(j <= i - 1) /\ i + (j - (i - 1)) = j + 1
      BY <1>1, <2>2
    <3>2. (a \o b)[j] = b[j - (i - 1)]
      BY <1>6, <3>1
    <3>3. b[j - (i - 1)] = s[j + 1]
      BY <1>5, <3>1
    <3> QED
      BY <2>2, <3>2, <3>3
  <2> QED
    BY <2>1, <2>2
<1>8. RemoveAt(s, i) = a \o b
  BY <1>2, <1>3 DEF RemoveAt
<1> QED
  BY <1>6, <1>7, <1>8

\* Removing one entry keeps the others.
LEMMA RemoveKeeps ==
    ASSUME NEW S, NEW s \in Seq(S), NEW i \in DOMAIN s
    PROVE  /\ RemoveAt(s, i) \in Seq(S)
           /\ \A d : d # s[i] /\ Contains(s, d) => Contains(RemoveAt(s, i), d)
<1>1. i \in 1..Len(s) /\ i \in Nat /\ Len(s) \in Nat
  OBVIOUS
<1>2. PICK r : r = RemoveAt(s, i)
  OBVIOUS
<1>3. /\ r \in Seq(S) /\ Len(r) = Len(s) - 1
      /\ \A j \in 1..(Len(s) - 1) : r[j] = IF j < i THEN s[j] ELSE s[j + 1]
  BY <1>2, RemovedElements
<1>4. ASSUME NEW d, d # s[i], Contains(s, d) PROVE Contains(r, d)
  <2>1. PICK j \in 1..Len(s) : s[j] = d
    BY <1>4 DEF Contains
  <2>2. CASE j < i
    <3>1. j \in 1..(Len(s) - 1)
      BY <1>1, <2>1, <2>2
    <3> QED
      BY <1>3, <2>1, <2>2, <3>1 DEF Contains
  <2>3. CASE j > i
    <3>1. j - 1 \in 1..(Len(s) - 1) /\ ~(j - 1 < i) /\ (j - 1) + 1 = j
      BY <1>1, <2>1, <2>3
    <3>2. r[j - 1] = s[j]
      BY <1>3, <3>1
    <3> QED
      BY <1>3, <2>1, <3>1, <3>2 DEF Contains
  <2> QED
    BY <1>1, <1>4, <2>1, <2>2, <2>3
<1> QED
  BY <1>2, <1>3, <1>4

\* The calls below are those of t, except perhaps that its innermost one has called
\* a subscriber that is no stream.
Rest(t, below) ==
    /\ below \in Seq(Frame)
    /\ \A j \in DOMAIN below : /\ below[j].left # <<>>
                               /\ \E i \in DOMAIN stack[t] : below[j].event = stack[t][i].event
    /\ \A i \in DOMAIN stack[t] : \A c \in Connections :
          Contains(stack[t][i].left, c) =>
              \E j \in DOMAIN below : /\ below[j].event = stack[t][i].event
                                     /\ Contains(below[j].left, c)

\* A frame whose next subscriber has been called.
LEMMA LeftFacts ==
    ASSUME NEW s \in Seq(Subscribers), s # <<>>
    PROVE  /\ Tail(s) \in Seq(Subscribers)
           /\ Len(s) # 1 => Tail(s) # <<>>
           /\ \A d : d # Head(s) /\ Contains(s, d) => Contains(Tail(s), d) /\ Len(s) # 1
<1>1. /\ Len(s) \in Nat /\ Len(s) >= 1 /\ Head(s) = s[1]
      /\ Tail(s) \in Seq(Subscribers) /\ Len(Tail(s)) = Len(s) - 1
      /\ \A i \in 1..(Len(s) - 1) : Tail(s)[i] = s[i + 1]
  OBVIOUS
<1>2. ASSUME NEW d, d # Head(s), Contains(s, d) PROVE Contains(Tail(s), d) /\ Len(s) # 1
  <2>1. PICK i \in 1..Len(s) : s[i] = d
    BY <1>2 DEF Contains
  <2>2. i # 1 /\ i - 1 \in 1..(Len(s) - 1) /\ Tail(s)[i - 1] = d
    BY <1>1, <1>2, <2>1
  <2> QED
    BY <1>1, <2>2 DEF Contains
<1> QED
  BY <1>1, <1>2

\* What is left of the calls of a thread.
LEMMA CalledFacts ==
    ASSUME BusTyped, FramesNewest, NEW t \in Threads, ~Idle(t)
    PROVE  /\ Called(t) \in Seq(Frame)
           /\ \A j \in DOMAIN Called(t) :
                 /\ Called(t)[j].left # <<>>
                 /\ \E i \in DOMAIN stack[t] : Called(t)[j].event = stack[t][i].event
           /\ \A i \in DOMAIN stack[t] : \A c :
                 Contains(stack[t][i].left, c) /\ (i = 1 => c # Head(stack[t][1].left)) =>
                     \E j \in DOMAIN Called(t) : /\ Called(t)[j].event = stack[t][i].event
                                                /\ Contains(Called(t)[j].left, c)
<1> DEFINE s == stack[t]
           top == s[1]
<1>1. s \in Seq(Frame) /\ s # <<>> /\ Len(s) \in Nat /\ Len(s) >= 1
  BY DEF BusTyped, Idle
<1>2. \A i \in 1..Len(s) : s[i] \in Frame /\ s[i].left # <<>>
  BY <1>1 DEF FramesNewest
<1>3. top \in Frame /\ top.left \in Seq(Subscribers) /\ top.left # <<>>
  BY <1>1, <1>2 DEF Frame
<1>4. CASE Len(top.left) = 1
  <2>1. Called(t) = Tail(s)
    BY <1>4 DEF Called
  <2>2. /\ Tail(s) \in Seq(Frame) /\ Len(Tail(s)) = Len(s) - 1
        /\ \A j \in 1..(Len(s) - 1) : Tail(s)[j] = s[j + 1] /\ j + 1 \in 1..Len(s)
    BY <1>1
  <2>3. ASSUME NEW i \in DOMAIN s, NEW c, Contains(s[i].left, c), i = 1 => c # Head(top.left)
        PROVE  \E j \in DOMAIN Tail(s) : Tail(s)[j].event = s[i].event
                                         /\ Contains(Tail(s)[j].left, c)
    <3>1. i # 1
      BY <1>3, <1>4, <2>3, LeftFacts
    <3>2. i - 1 \in 1..(Len(s) - 1) /\ Tail(s)[i - 1] = s[i]
      BY <1>1, <2>2, <3>1
    <3> QED
      BY <1>1, <2>2, <2>3, <3>2
  <2>4. ASSUME NEW j \in DOMAIN Tail(s)
        PROVE  Tail(s)[j].left # <<>> /\ \E i \in DOMAIN s : Tail(s)[j].event = s[i].event
    <3>1. j \in 1..(Len(s) - 1)
      BY <2>2
    <3> QED
      BY <1>1, <1>2, <2>2, <3>1
  <2> QED
    BY ZenonT(30), <2>1, <2>2, <2>3, <2>4
<1>5. CASE Len(top.left) # 1
  <2> DEFINE u == [s EXCEPT ![1].left = Tail(top.left)]
  <2>1. Called(t) = u
    BY <1>5 DEF Called
  <2>2. Tail(top.left) \in Seq(Subscribers) /\ Tail(top.left) # <<>>
    BY <1>3, <1>5, LeftFacts
  <2>3. /\ DOMAIN u = 1..Len(s) /\ DOMAIN s = 1..Len(s)
        /\ u[1] = [top EXCEPT !.left = Tail(top.left)]
        /\ \A i \in 2..Len(s) : u[i] = s[i]
    BY <1>1
  <2>4. u[1] \in Frame /\ u[1].event = top.event /\ u[1].left = Tail(top.left)
    <3>1. PICK f, g : f = top /\ g = [f EXCEPT !.left = Tail(f.left)]
      OBVIOUS
    <3>2. /\ f \in [event : Event, left : Seq(Subscribers)]
          /\ Tail(f.left) \in Seq(Subscribers)
      BY <1>3, <2>2, <3>1 DEF Frame
    <3>3. /\ g \in [event : Event, left : Seq(Subscribers)]
          /\ g.event = f.event /\ g.left = Tail(f.left)
      BY <3>1, <3>2
    <3> QED
      BY <2>3, <3>1, <3>3 DEF Frame
  <2>5. \A i \in 1..Len(s) : u[i] \in Frame /\ u[i].event = s[i].event /\ u[i].left # <<>>
    BY <1>2, <2>2, <2>3, <2>4
  <2>6. u \in Seq(Frame)
    <3>1. u \in [1..Len(s) -> Frame]
      BY <2>3, <2>5
    <3> QED
      BY <1>1, <3>1
  <2>7. ASSUME NEW i \in DOMAIN s, NEW c, Contains(s[i].left, c), i = 1 => c # Head(top.left)
        PROVE  Contains(u[i].left, c)
    <3>1. CASE i = 1
      BY <1>3, <2>4, <2>7, <3>1, LeftFacts
    <3>2. CASE i # 1
      BY <1>1, <2>3, <2>7, <3>2
    <3> QED
      BY <3>1, <3>2
  <2> QED
    BY <2>1, <2>3, <2>5, <2>6, <2>7
<1> QED
  BY <1>4, <1>5

-----------------------------------------------------------------------------
(* Publishing. *)

\* The history after one more event.
LEMMA StoredFacts ==
    ASSUME BusTyped, HistoryIsTail, NEW e \in Event, e.seq = sequence + 1
    PROVE  /\ Stored(e) \in Seq(Event) /\ Stored(e) # <<>>
           /\ Len(Stored(e)) <= sequence + 1
           /\ \A i \in DOMAIN Stored(e) : Stored(e)[i].seq = sequence + 1 - Len(Stored(e)) + i
<1>1. HistorySize \in Nat /\ HistorySize >= 1
  BY LiveAssumption
<1>2. /\ history \in Seq(Event) /\ Len(history) \in Nat /\ sequence \in Nat
      /\ Len(history) <= sequence
      /\ \A i \in 1..Len(history) : history[i].seq = sequence - Len(history) + i
  BY DEF BusTyped, HistoryIsTail
<1>3. PICK all : all = Append(history, e)
  OBVIOUS
<1>4. /\ all \in Seq(Event) /\ Len(all) = Len(history) + 1
      /\ all[Len(history) + 1] = e
      /\ \A i \in 1..Len(history) : all[i] = history[i]
  BY <1>2, <1>3
<1>5. ASSUME NEW i \in 1..(Len(history) + 1) PROVE all[i].seq = sequence - Len(history) + i
  <2>1. CASE i = Len(history) + 1
    BY <1>2, <1>4, <2>1
  <2>2. CASE i # Len(history) + 1
    <3>1. i \in 1..Len(history)
      BY <1>2, <2>2
    <3> QED
      BY <1>2, <1>4, <3>1
  <2> QED
    BY <2>1, <2>2
<1>6. CASE Len(all) > HistorySize
  <2>1. Stored(e) = Tail(all)
    BY <1>3, <1>6 DEF Stored
  <2>2. /\ Tail(all) \in Seq(Event) /\ Len(Tail(all)) = Len(history)
        /\ \A i \in 1..Len(history) : Tail(all)[i] = all[i + 1]
    BY <1>2, <1>4
  <2>3. Len(history) >= 1
    BY <1>1, <1>2, <1>4, <1>6
  <2>4. \A i \in 1..Len(history) : Tail(all)[i].seq = sequence - Len(history) + (i + 1)
    BY <1>2, <1>5, <2>2
  <2>5. Tail(all) # <<>>
    BY <2>2, <2>3
  <2>6. PICK kept : kept = Tail(all)
    OBVIOUS
  <2>7. /\ kept \in Seq(Event) /\ kept # <<>> /\ Len(kept) = Len(history)
        /\ DOMAIN kept = 1..Len(history)
    BY <2>2, <2>5, <2>6
  <2>8. \A i \in 1..Len(history) : kept[i].seq = sequence + 1 - Len(history) + i
    <3> SUFFICES ASSUME NEW i \in 1..Len(history)
                 PROVE  kept[i].seq = sequence + 1 - Len(history) + i
      OBVIOUS
    <3>1. kept[i].seq = sequence - Len(history) + (i + 1)
      BY <2>4, <2>6
    <3>2. sequence - Len(history) + (i + 1) = sequence + 1 - Len(history) + i
      BY <1>2
    <3> QED
      BY <3>1, <3>2
  <2>9. Len(history) <= sequence + 1
    BY <1>2
  <2> QED
    BY <2>1, <2>6, <2>7, <2>8, <2>9
<1>7. CASE ~(Len(all) > HistorySize)
  <2>1. Stored(e) = all
    BY <1>3, <1>7 DEF Stored
  <2>2. \A i \in 1..Len(all) : all[i].seq = sequence + 1 - Len(all) + i
    BY <1>2, <1>4, <1>5
  <2>3. DOMAIN all = 1..Len(all) /\ all # <<>> /\ Len(all) <= sequence + 1
    BY <1>2, <1>4
  <2> QED
    BY <1>4, <2>1, <2>2, <2>3
<1> QED
  BY <1>6, <1>7

\* A publish: the event is numbered, and every subscribed stream is to be called.
LEMMA NumberInv ==
    ASSUME LiveInv, NEW t \in Threads, NEW kind \in Kinds, NEW batch \in Snapshot,
           NEW below, Rest(t, below), Number(t, kind, batch, below),
           snapshot' \in Snapshot,
           UNCHANGED streams
    PROVE  LiveInv'
<1> DEFINE e == [seq |-> sequence + 1, kind |-> kind, batch |-> batch]
           frame == [event |-> e, left |-> subs]
<1>1. BusTyped /\ HistoryIsTail /\ FramesNewest /\ Subscribed
      /\ \A c \in Connections : StreamInv(c)
  BY DEF LiveInv
<1>2. /\ sequence' = sequence + 1 /\ subs' = subs /\ history' = Stored(e)
      /\ stack' = [stack EXCEPT ![t] = <<frame>> \o below]
      /\ overtaken' = overtaken \cup OpenEvents
  BY DEF Number
<1>3. UNCHANGED <<phase, queue, backlog, last, shown, base>>
  BY DEF streams
<1>4. e \in Event /\ e.seq = sequence + 1 /\ frame \in Frame /\ subs # <<>>
      /\ sequence \in Nat /\ below \in Seq(Frame)
  BY <1>1 DEF Event, Frame, BusTyped, Subscribed, Contains, Rest
<1> HIDE DEF e
<1>5. PICK calls : calls = <<frame>> \o below
  OBVIOUS
<1>6. /\ calls \in Seq(Frame) /\ Len(calls) = Len(below) + 1 /\ Len(below) \in Nat
      /\ calls[1] = frame
      /\ \A j \in 1..Len(below) : calls[j + 1] = below[j]
  BY <1>4, <1>5
<1> HIDE DEF frame
<1>7. /\ stack' \in [Threads -> Seq(Frame)] /\ stack'[t] = calls
      /\ \A u \in Threads \ {t} : stack'[u] = stack[u]
  BY <1>1, <1>2, <1>5, <1>6 DEF BusTyped
<1>8. frame.event.seq = sequence + 1 /\ frame.left = subs
  BY <1>4 DEF frame
<1>9. BusTyped'
  BY <1>1, <1>2, <1>3, <1>4, <1>7, StoredFacts DEF BusTyped
<1>10. HistoryIsTail'
  BY <1>1, <1>2, <1>4, StoredFacts DEF HistoryIsTail
<1>11. FramesNewest'
  <2>1. \A u \in Threads : \A i \in DOMAIN stack[u] :
           /\ stack[u][i].left # <<>>
           /\ stack[u][i].event.seq > 0 /\ stack[u][i].event.seq <= sequence
           /\ stack[u][i].event.seq \in OpenEvents
    BY <1>1 DEF FramesNewest, OpenEvents
  <2>2. ASSUME NEW u \in Threads, u # t, NEW i \in DOMAIN stack'[u]
        PROVE  /\ stack'[u][i].left # <<>>
               /\ stack'[u][i].event.seq \in OpenEvents
               /\ stack'[u][i].event.seq > 0 /\ stack'[u][i].event.seq <= sequence
    BY <1>7, <2>1, <2>2
  <2>3. ASSUME NEW i \in DOMAIN calls
        PROVE  /\ calls[i].left # <<>>
               /\ calls[i].event.seq > 0
               /\ \/ calls[i].event.seq \in OpenEvents /\ calls[i].event.seq <= sequence
                  \/ calls[i].event.seq = sequence + 1
    <3>1. CASE i = 1
      BY <1>4, <1>6, <1>8, <3>1
    <3>2. CASE i # 1
      <4>1. i - 1 \in 1..Len(below) /\ calls[i] = below[i - 1]
        BY <1>6, <3>2
      <4>2. below[i - 1].left # <<>> /\ \E j \in DOMAIN stack[t] : below[i - 1].event = stack[t][j].event
        BY <1>4, <4>1 DEF Rest
      <4> QED
        BY <2>1, <4>1, <4>2
    <3> QED
      BY <3>1, <3>2
  <2>4. \A u \in Threads : \A i \in DOMAIN stack[u] : stack[u][i].event.seq \in Nat
    BY <1>1, FrameOf DEF BusTyped
  <2>5. OpenEvents \subseteq Nat
    BY <2>4 DEF OpenEvents
  <2>6. ASSUME NEW u \in Threads, NEW i \in DOMAIN stack'[u]
        PROVE  /\ stack'[u][i].left # <<>>
               /\ stack'[u][i].event.seq > 0 /\ stack'[u][i].event.seq <= sequence + 1
               /\ stack'[u][i].event.seq \in overtaken' \/ stack'[u][i].event.seq = sequence + 1
    <3>1. /\ stack'[u][i].left # <<>> /\ stack'[u][i].event.seq > 0
          /\ \/ stack'[u][i].event.seq \in OpenEvents /\ stack'[u][i].event.seq <= sequence
             \/ stack'[u][i].event.seq = sequence + 1
      <4>1. CASE u = t
        BY <1>7, <2>3, <4>1
      <4>2. CASE u # t
        BY <2>2, <4>2
      <4> QED
        BY <4>1, <4>2
    <3>2. CASE stack'[u][i].event.seq = sequence + 1
      BY <1>4, <3>1, <3>2
    <3>3. CASE stack'[u][i].event.seq \in OpenEvents /\ stack'[u][i].event.seq <= sequence
      <4>1. stack'[u][i].event.seq \in Nat
        BY <2>5, <3>3
      <4> QED
        BY <1>2, <1>4, <3>1, <3>3, <4>1
    <3> QED
      BY <3>1, <3>2, <3>3
  <2> QED
    BY <1>2, <2>6 DEF FramesNewest
<1>12. Subscribed'
  BY <1>1, <1>2, <1>3 DEF Subscribed
<1>13. ASSUME NEW c \in Connections PROVE StreamInv(c)'
  <2>1. NotBegun(c) /\ ShownInOrder(c) /\ BacklogAhead(c) /\ QueueInTurn(c) /\ NothingMissing(c)
    BY <1>1 DEF StreamInv
  <2>2. /\ shown[c] \in Seq(Nat) /\ last[c] \in Nat /\ backlog[c] \in Seq(Event)
        /\ queue[c] \in Seq(Event) /\ base[c] \in Nat
    BY <1>1 DEF BusTyped
  <2>3. NotBegun(c)'
    BY <1>3, <2>1 DEF NotBegun
  <2>4. ShownInOrder(c)'
    BY <1>2, <1>3, <1>4, <2>1, <2>2 DEF ShownInOrder
  <2>5. BacklogAhead(c)'
    <3>1. \A i \in DOMAIN backlog[c] : backlog[c][i].seq \in Nat
      BY <2>2, EventOf
    <3> QED
      BY <1>2, <1>3, <1>4, <2>1, <3>1 DEF BacklogAhead
  <2>6. QueueInTurn(c)'
    <3>1. \A k \in DOMAIN queue[c] : queue[c][k].seq \in Nat
      BY <2>2, EventOf
    <3>2. \A k \in DOMAIN queue[c] : InTurn(c, k) => InTurn(c, k)'
      BY <1>3 DEF InTurn, IsShown, InBacklog
    <3> QED
      BY <1>2, <1>3, <1>4, <2>1, <3>1, <3>2 DEF QueueInTurn
  <2>7. NothingMissing(c)'
    <3>1. ASSUME phase[c] = "streaming", NEW n \in base[c] + 1 .. sequence + 1
          PROVE  \/ n \in overtaken' \/ IsShown(c, n) \/ InBacklog(c, n) \/ InQueue(c, n)
                 \/ Awaits(c, n)'
      <4>1. CASE n = sequence + 1
        <5>1. Contains(calls[1].left, c) /\ calls[1].event.seq = n /\ 1 \in DOMAIN calls
          BY <1>1, <1>6, <1>8, <3>1, <4>1 DEF Subscribed
        <5> QED
          BY <1>7, <5>1 DEF Awaits
      <4>2. CASE n # sequence + 1
        <5>1. n \in base[c] + 1 .. sequence
          BY <1>4, <2>2, <4>2
        <5>2. ASSUME Awaits(c, n) PROVE Awaits(c, n)'
          <6>4. PICK u \in Threads : \E i \in DOMAIN stack[u] :
                   stack[u][i].event.seq = n /\ Contains(stack[u][i].left, c)
            BY <5>2 DEF Awaits
          <6>1. PICK i \in DOMAIN stack[u] :
                   stack[u][i].event.seq = n /\ Contains(stack[u][i].left, c)
            BY <6>4
          <6>2. CASE u = t
            <7>1. PICK j \in DOMAIN below : below[j].event.seq = n /\ Contains(below[j].left, c)
              BY <6>1, <6>2 DEF Rest
            <7>2. j + 1 \in DOMAIN calls /\ calls[j + 1] = below[j]
              BY <1>4, <1>6, <7>1
            <7> QED
              BY <1>7, <7>1, <7>2 DEF Awaits
          <6>3. CASE u # t
            BY <1>7, <6>1, <6>3 DEF Awaits
          <6> QED
            BY <6>2, <6>3
        <5> QED
          BY <1>2, <2>1, <3>1, <5>1, <5>2 DEF NothingMissing
      <4> QED
        BY <4>1, <4>2
    <3> QED
      BY <1>2, <1>3, <3>1 DEF NothingMissing, IsShown, InBacklog, InQueue
  <2> QED
    BY <2>3, <2>4, <2>5, <2>6, <2>7 DEF StreamInv
<1> QED
  BY <1>9, <1>10, <1>11, <1>12, <1>13 DEF LiveInv

-----------------------------------------------------------------------------
(* Calling the subscribers. *)

\* The innermost publish of t has called its next subscriber: who else awaits an
\* event still does.
LEMMA PoppedFacts ==
    ASSUME BusTyped, FramesNewest, NEW t \in Threads, ~Idle(t),
           stack' = [stack EXCEPT ![t] = Called(t)],
           UNCHANGED <<sequence, overtaken>>
    PROVE  /\ stack' \in [Threads -> Seq(Frame)]
           /\ FramesNewest'
           /\ \A c, n : Awaits(c, n) =>
                 \/ Awaits(c, n)'
                 \/ c = Head(stack[t][1].left) /\ n = stack[t][1].event.seq
<1>1. PICK calls : calls = Called(t)
  OBVIOUS
<1>2. /\ calls \in Seq(Frame)
      /\ \A j \in DOMAIN calls :
            /\ calls[j].left # <<>>
            /\ \E i \in DOMAIN stack[t] : calls[j].event = stack[t][i].event
      /\ \A i \in DOMAIN stack[t] : \A c :
            Contains(stack[t][i].left, c) /\ (i = 1 => c # Head(stack[t][1].left)) =>
                \E j \in DOMAIN calls : /\ calls[j].event = stack[t][i].event
                                       /\ Contains(calls[j].left, c)
  BY <1>1, CalledFacts
<1>3. /\ stack' \in [Threads -> Seq(Frame)] /\ stack'[t] = calls
      /\ \A u \in Threads \ {t} : stack'[u] = stack[u]
  BY <1>1, <1>2 DEF BusTyped
<1>4. FramesNewest'
  <2>1. ASSUME NEW u \in Threads, NEW i \in DOMAIN stack'[u]
        PROVE  /\ stack'[u][i].left # <<>>
               /\ \E j \in DOMAIN stack[u] : stack'[u][i].event = stack[u][j].event
    <3>1. CASE u = t
      BY <1>2, <1>3, <3>1
    <3>2. CASE u # t
      BY <1>3, <3>2 DEF FramesNewest
    <3> QED
      BY <3>1, <3>2
  <2> QED
    BY <2>1 DEF FramesNewest
<1>5. ASSUME NEW c, NEW n, Awaits(c, n)
      PROVE  Awaits(c, n)' \/ (c = Head(stack[t][1].left) /\ n = stack[t][1].event.seq)
  <2>1. PICK u \in Threads : \E i \in DOMAIN stack[u] :
           stack[u][i].event.seq = n /\ Contains(stack[u][i].left, c)
    BY <1>5 DEF Awaits
  <2>2. PICK i \in DOMAIN stack[u] :
           stack[u][i].event.seq = n /\ Contains(stack[u][i].left, c)
    BY <2>1
  <2>3. CASE u # t
    BY <1>3, <2>2, <2>3 DEF Awaits
  <2>4. CASE u = t /\ i = 1 /\ c = Head(stack[t][1].left)
    BY <2>2, <2>4
  <2>5. CASE u = t /\ (i = 1 => c # Head(stack[t][1].left))
    <3>1. PICK j \in DOMAIN calls : calls[j].event = stack[t][i].event /\ Contains(calls[j].left, c)
      BY <1>2, <2>2, <2>5
    <3> QED
      BY <1>3, <2>2, <2>5, <3>1 DEF Awaits
  <2> QED
    BY <2>3, <2>4, <2>5
<1> QED
  BY <1>3, <1>4, <1>5

\* A subscriber that is no stream has been called, and has published nothing.
LEMMA PassedInv ==
    ASSUME LiveInv, NEW t \in Threads, ~Idle(t),
           Head(stack[t][1].left) \notin Connections,
           stack' = [stack EXCEPT ![t] = Called(t)],
           UNCHANGED <<sequence, history, subs, overtaken, snapshot, streams>>
    PROVE  LiveInv'
<1>1. BusTyped /\ HistoryIsTail /\ FramesNewest /\ Subscribed
      /\ \A c \in Connections : StreamInv(c)
  BY DEF LiveInv
<1>2. UNCHANGED <<sequence, history, subs, overtaken, snapshot, phase, queue, backlog,
                  last, shown, base>>
  BY DEF streams
<1>3. /\ stack' \in [Threads -> Seq(Frame)]
      /\ FramesNewest'
      /\ \A c \in Connections : \A n : Awaits(c, n) => Awaits(c, n)'
  BY <1>1, <1>2, PoppedFacts
<1>4. BusTyped' /\ HistoryIsTail' /\ Subscribed'
  BY <1>1, <1>2, <1>3 DEF BusTyped, HistoryIsTail, Subscribed
<1>5. ASSUME NEW c \in Connections PROVE StreamInv(c)'
  <2>1. NotBegun(c) /\ ShownInOrder(c) /\ BacklogAhead(c) /\ QueueInTurn(c) /\ NothingMissing(c)
    BY <1>1 DEF StreamInv
  <2>2. NotBegun(c)' /\ ShownInOrder(c)' /\ BacklogAhead(c)' /\ QueueInTurn(c)'
    BY <1>2, <2>1 DEF NotBegun, ShownInOrder, BacklogAhead, QueueInTurn, InTurn, IsShown,
                      InBacklog
  <2>3. NothingMissing(c)'
    BY <1>2, <1>3, <2>1 DEF NothingMissing, IsShown, InBacklog, InQueue
  <2> QED
    BY <2>2, <2>3 DEF StreamInv
<1> QED
  BY <1>3, <1>4, <1>5 DEF LiveInv

\* A stream has been called: the event is in its queue, and in turn there unless it was
\* overtaken, because it is the newest then.
LEMMA QueuedInv ==
    ASSUME LiveInv, NEW t \in Threads, ~Idle(t),
           NEW d \in Connections, d = Head(stack[t][1].left),
           queue' = [queue EXCEPT ![d] = Append(queue[d], stack[t][1].event)],
           stack' = [stack EXCEPT ![t] = Called(t)],
           UNCHANGED <<sequence, history, subs, overtaken, snapshot, phase, backlog, last,
                       shown, base>>
    PROVE  LiveInv'
<1> DEFINE e == stack[t][1].event
<1>1. BusTyped /\ HistoryIsTail /\ FramesNewest /\ Subscribed
      /\ \A c \in Connections : StreamInv(c)
  BY DEF LiveInv
<1>2. /\ stack' \in [Threads -> Seq(Frame)]
      /\ FramesNewest'
      /\ \A c, n : Awaits(c, n) => Awaits(c, n)' \/ (c = d /\ n = e.seq)
  BY <1>1, PoppedFacts
<1>3. /\ e \in Event /\ e.seq \in Nat /\ e.seq > 0 /\ e.seq <= sequence /\ sequence \in Nat
      /\ e.seq \in overtaken \/ e.seq = sequence
  <2>1. stack[t] \in Seq(Frame) /\ 1 \in DOMAIN stack[t]
    BY <1>1 DEF BusTyped, Idle
  <2> QED
    BY <1>1, <2>1, FrameOf DEF FramesNewest, BusTyped
<1> HIDE DEF e
<1>4. PICK old : old = queue[d]
  OBVIOUS
<1>5. /\ old \in Seq(Event) /\ Len(old) \in Nat
      /\ queue'[d] = Append(old, e)
      /\ \A c \in Connections \ {d} : queue'[c] = queue[c]
      /\ queue' \in [Connections -> Seq(Event)]
      /\ DOMAIN old = 1..Len(old)
  <2>1. old \in Seq(Event) /\ Len(old) \in Nat /\ DOMAIN old = 1..Len(old)
    BY <1>1, <1>4 DEF BusTyped
  <2>2. queue' = [queue EXCEPT ![d] = Append(old, e)]
    BY <1>4 DEF e
  <2>3. Append(old, e) \in Seq(Event)
    BY <1>3, <2>1
  <2> QED
    BY <1>1, <2>1, <2>2, <2>3 DEF BusTyped
<1>6. /\ DOMAIN queue'[d] = 1..(Len(old) + 1)
      /\ queue'[d][Len(old) + 1] = e
      /\ \A i \in 1..Len(old) : queue'[d][i] = old[i]
  <2>1. PICK new : new = Append(old, e)
    OBVIOUS
  <2>2. /\ DOMAIN new = 1..(Len(old) + 1) /\ new[Len(old) + 1] = e
        /\ \A i \in 1..Len(old) : new[i] = old[i]
    BY <1>3, <1>5, <2>1
  <2> QED
    BY <1>5, <2>1, <2>2
<1>9. Len(old) \in Nat /\ DOMAIN queue[d] = 1..Len(old)
  BY <1>4, <1>5
<1>7. BusTyped' /\ HistoryIsTail' /\ Subscribed'
  BY <1>1, <1>2, <1>5 DEF BusTyped, HistoryIsTail, Subscribed
<1>8. ASSUME NEW c \in Connections PROVE StreamInv(c)'
  <2>1. NotBegun(c) /\ ShownInOrder(c) /\ BacklogAhead(c) /\ QueueInTurn(c) /\ NothingMissing(c)
    BY <1>1 DEF StreamInv
  <2>2. NotBegun(c)' /\ ShownInOrder(c)' /\ BacklogAhead(c)'
    BY <2>1 DEF NotBegun, ShownInOrder, BacklogAhead
  <2>3. CASE c # d
    <3>1. QueueInTurn(c)'
      BY <1>5, <2>1, <2>3 DEF QueueInTurn, InTurn, IsShown, InBacklog
    <3>2. NothingMissing(c)'
      BY <1>2, <1>5, <2>1, <2>3 DEF NothingMissing, IsShown, InBacklog, InQueue
    <3> QED
      BY <2>2, <3>1, <3>2 DEF StreamInv
  <2>4. CASE c = d
    <3>1. \A k \in 1..Len(old) : old[k].seq <= sequence /\ old[k].seq \in Nat
      BY <1>4, <1>5, <2>1, <2>4, EventOf DEF QueueInTurn
    <3>2. \A k \in 1..(Len(old) + 1) : queue'[d][k].seq <= sequence
      <4> SUFFICES ASSUME NEW k \in 1..(Len(old) + 1) PROVE queue'[d][k].seq <= sequence
        OBVIOUS
      <4>1. CASE k = Len(old) + 1
        BY <1>3, <1>6, <4>1
      <4>2. CASE k # Len(old) + 1
        <5>1. k \in 1..Len(old)
          BY <1>5, <4>2
        <5> QED
          BY <1>6, <3>1, <5>1
      <4> QED
        BY <4>1, <4>2
    <3>3. ASSUME phase[d] = "streaming", NEW k \in 1..Len(old), old[k].seq > base[d]
          PROVE  old[k].seq \in overtaken \/ InTurn(d, k)'
      <4>1. old[k].seq \in overtaken \/ InTurn(d, k)
        BY <1>4, <1>5, <2>1, <2>4, <3>3 DEF QueueInTurn
      <4>2. \A i \in 1..k : queue'[d][i] = queue[d][i]
        <5>1. \A i \in 1..k : i \in 1..Len(old)
          BY <1>5
        <5> QED
          BY <1>4, <1>6, <5>1
      <4>3. queue'[d][k] = queue[d][k]
        <5>1. k \in 1..k
          BY <1>9
        <5> QED
          BY <4>2, <5>1
      <4> QED
        BY <4>1, <4>2, <4>3 DEF InTurn, IsShown, InBacklog
    <3>4. ASSUME phase[d] = "streaming", e.seq \notin overtaken
          PROVE  InTurn(d, Len(old) + 1)'
      <4>1. e.seq = sequence
        BY <1>3, <3>4
      <4>2. CASE IsShown(d, e.seq) \/ InBacklog(d, e.seq)
        BY <1>6, <4>2 DEF InTurn, IsShown, InBacklog
      <4>3. CASE ~IsShown(d, e.seq) /\ ~InBacklog(d, e.seq)
        <5>1. last[d] < e.seq
          <6>1. last[d] \in Nat /\ last[d] <= sequence /\ shown[d] \in Seq(Nat)
            BY <1>1, <2>1, <2>4 DEF BusTyped, ShownInOrder
          <6>2. CASE shown[d] # <<>>
            <7>1. last[d] = shown[d][Len(shown[d])] /\ Len(shown[d]) \in DOMAIN shown[d]
              <8>1. last[d] = shown[d][Len(shown[d])]
                BY <2>1, <2>4, <6>2 DEF ShownInOrder
              <8>2. Len(shown[d]) \in DOMAIN shown[d]
                BY <6>1, <6>2
              <8> QED
                BY <8>1, <8>2
            <7>2. last[d] # e.seq
              BY <4>3, <7>1 DEF IsShown
            <7> QED
              BY <1>3, <4>1, <6>1, <7>2
          <6>3. CASE shown[d] = <<>>
            <7>1. last[d] = 0
              BY <2>1, <2>4, <6>3 DEF ShownInOrder
            <7>2. e.seq # 0
              BY <1>3
            <7> QED
              BY <1>3, <7>1, <7>2
          <6> QED
            BY <6>2, <6>3
        <5>2. \A i \in DOMAIN backlog[d] : backlog[d][i].seq < e.seq
          <6>1. \A i \in DOMAIN backlog[d] : backlog[d][i].seq \in Nat /\ backlog[d][i].seq <= sequence
            BY <1>1, <2>1, <2>4, EventOf DEF BusTyped, BacklogAhead
          <6> QED
            <7> SUFFICES ASSUME NEW i \in DOMAIN backlog[d] PROVE backlog[d][i].seq < e.seq
              OBVIOUS
            <7>1. backlog[d][i].seq # e.seq
              BY <4>3 DEF InBacklog
            <7>2. backlog[d][i].seq \in Nat /\ backlog[d][i].seq <= e.seq
              BY <4>1, <6>1
            <7> QED
              BY <1>3, <7>1, <7>2
        <5> QED
          BY <1>6, <3>2, <4>1, <5>1, <5>2 DEF InTurn
      <4> QED
        BY <4>2, <4>3
    <3>5. QueueInTurn(d)'
      <4>1. ASSUME phase[d] = "streaming", NEW k \in 1..(Len(old) + 1), queue'[d][k].seq > base[d]
            PROVE  queue'[d][k].seq \in overtaken \/ InTurn(d, k)'
        <5>1. CASE k = Len(old) + 1
          BY <1>6, <3>4, <4>1, <5>1
        <5>2. CASE k # Len(old) + 1
          <6>1. k \in 1..Len(old) /\ queue'[d][k] = old[k]
            BY <1>6, <1>9, <5>2
          <6> QED
            BY <3>3, <4>1, <6>1
        <5> QED
          BY <5>1, <5>2
      <4>2. \A k \in DOMAIN queue'[d] : queue'[d][k].seq <= sequence'
        BY <1>6, <3>2
      <4>3. \A k \in DOMAIN queue'[d] :
               phase[d] = "streaming" /\ queue'[d][k].seq > base[d] =>
                   queue'[d][k].seq \in overtaken \/ InTurn(d, k)'
        BY <1>6, <4>1
      <4> QED
        BY <4>2, <4>3 DEF QueueInTurn
    <3>6. NothingMissing(d)'
      <4>1. \A n : InQueue(d, n) \/ n = e.seq => InQueue(d, n)'
        <5>1. /\ Len(old) + 1 \in 1..(Len(old) + 1)
              /\ \A i \in 1..Len(old) : i \in 1..(Len(old) + 1)
          BY <1>9
        <5>2. \A i \in DOMAIN queue[d] : i \in DOMAIN queue'[d] /\ queue'[d][i] = queue[d][i]
          BY <1>4, <1>6, <1>9, <5>1
        <5>3. Len(old) + 1 \in DOMAIN queue'[d] /\ queue'[d][Len(old) + 1] = e
          BY <1>6, <5>1
        <5> QED
          BY <5>2, <5>3 DEF InQueue
      <4> QED
        BY <1>2, <2>1, <2>4, <4>1 DEF NothingMissing, IsShown, InBacklog
    <3> QED
      BY <2>2, <2>4, <3>5, <3>6 DEF StreamInv
  <2> QED
    BY <2>3, <2>4
<1> QED
  BY <1>2, <1>7, <1>8 DEF LiveInv

\* A step of EventBus.publish in either thread.
LEMMA CallInv == ASSUME LiveInv, NEW t \in Threads, Call(t) PROVE LiveInv'
<1> DEFINE top == stack[t][1]
<1>1. ~Idle(t) /\ UNCHANGED <<snapshot, phase, backlog, last, shown, base>>
  BY DEF Call
<1>2. BusTyped /\ FramesNewest
  BY DEF LiveInv
<1>3. CASE /\ Head(top.left) = "board"
           /\ stack' = [stack EXCEPT ![t] = Called(t)]
           /\ UNCHANGED <<sequence, history, subs, overtaken, reported, queue>>
  <2>1. Head(top.left) \notin Connections
    BY <1>3, LiveAssumption
  <2> QED
    BY <1>1, <1>3, <2>1, PassedInv DEF streams
<1>4. CASE Head(top.left) = "adapter" /\ top.event.kind = "run_started"
           /\ Number(t, "context", snapshot, Called(t)) /\ UNCHANGED <<board, queue>>
  <2>1. Head(top.left) \notin Connections
    BY <1>4, LiveAssumption
  <2>2. Rest(t, Called(t))
    BY <1>1, <1>2, <2>1, CalledFacts DEF Rest
  <2>3. "context" \in Kinds /\ snapshot \in Snapshot /\ snapshot' \in Snapshot
    BY <1>1, <1>2 DEF Kinds, BusTyped
  <2> QED
    BY <1>1, <1>4, <2>2, <2>3, NumberInv DEF streams
<1>5. CASE /\ Head(top.left) = "adapter"
           /\ stack' = [stack EXCEPT ![t] = Called(t)]
           /\ UNCHANGED <<sequence, history, subs, overtaken, reported, board, queue>>
  <2>1. Head(top.left) \notin Connections
    BY <1>5, LiveAssumption
  <2> QED
    BY <1>1, <1>5, <2>1, PassedInv DEF streams
<1>6. CASE /\ Head(top.left) \in Connections
           /\ queue' = [queue EXCEPT ![Head(top.left)] = Append(@, top.event)]
           /\ stack' = [stack EXCEPT ![t] = Called(t)]
           /\ UNCHANGED <<sequence, history, subs, overtaken, reported, board>>
  BY <1>1, <1>6, QueuedInv
<1> QED
  BY <1>3, <1>4, <1>5, <1>6 DEF Call

-----------------------------------------------------------------------------
(* The streams. *)

\* A step that only touches stream d and the subscriptions: the others are as they were.
LEMMA OtherStreams ==
    ASSUME LiveInv, NEW d, NEW c \in Connections, c # d,
           UNCHANGED <<sequence, overtaken, stack>>,
           UNCHANGED <<phase[c], queue[c], backlog[c], last[c], shown[c], base[c]>>
    PROVE  StreamInv(c)'
<1>1. StreamInv(c)
  BY DEF LiveInv
<1>2. NotBegun(c)' /\ ShownInOrder(c)' /\ BacklogAhead(c)'
  BY <1>1 DEF StreamInv, NotBegun, ShownInOrder, BacklogAhead
<1>3. QueueInTurn(c)'
  BY <1>1 DEF StreamInv, QueueInTurn, InTurn, IsShown, InBacklog
<1>4. NothingMissing(c)'
  BY <1>1 DEF StreamInv, NothingMissing, IsShown, InBacklog, InQueue, Awaits
<1> QED
  BY <1>2, <1>3, <1>4 DEF StreamInv

\* A browser connects.
LEMMA ConnectInv == ASSUME LiveInv, NEW d \in Connections, Connect(d) PROVE LiveInv'
<1>1. BusTyped /\ HistoryIsTail /\ FramesNewest /\ Subscribed
      /\ \A c \in Connections : StreamInv(c)
  BY DEF LiveInv
<1>2. /\ phase[d] = "off" /\ phase' = [phase EXCEPT ![d] = "subscribed"]
      /\ subs' = Append(subs, d)
      /\ UNCHANGED <<sequence, history, stack, overtaken, snapshot, queue, backlog, last,
                     shown, base>>
  BY DEF Connect
<1>3. subs \in Seq(Subscribers) /\ d \in Subscribers
  BY <1>1 DEF BusTyped, Subscribers
<1>4. /\ subs' \in Seq(Subscribers) /\ Contains(subs', d)
      /\ \A e : Contains(subs, e) => Contains(subs', e)
  BY <1>2, <1>3, AppendKeeps
<1>5. /\ phase' \in [Connections -> {"off", "subscribed", "streaming", "gone"}]
      /\ phase'[d] = "subscribed"
      /\ \A c \in Connections \ {d} : phase'[c] = phase[c]
  BY <1>1, <1>2 DEF BusTyped
<1>6. BusTyped' /\ HistoryIsTail' /\ FramesNewest'
  BY <1>1, <1>2, <1>4, <1>5 DEF BusTyped, HistoryIsTail, FramesNewest
<1>7. Subscribed'
  BY <1>1, <1>4, <1>5 DEF Subscribed
<1>8. ASSUME NEW c \in Connections PROVE StreamInv(c)'
  <2>1. CASE c # d
    BY <1>2, <1>5, <2>1, OtherStreams
  <2>2. CASE c = d
    <3>1. NotBegun(d) /\ ShownInOrder(d) /\ BacklogAhead(d) /\ QueueInTurn(d)
      BY <1>1 DEF StreamInv
    <3> QED
      BY <1>2, <1>5, <2>2, <3>1
      DEF StreamInv, NotBegun, ShownInOrder, BacklogAhead, QueueInTurn, NothingMissing
  <2> QED
    BY <2>1, <2>2
<1> QED
  BY <1>6, <1>7, <1>8 DEF LiveInv

\* A browser is gone.
LEMMA DisconnectInv == ASSUME LiveInv, NEW d \in Connections, Disconnect(d) PROVE LiveInv'
<1>1. BusTyped /\ HistoryIsTail /\ FramesNewest /\ Subscribed
      /\ \A c \in Connections : StreamInv(c)
  BY DEF LiveInv
<1>2. /\ phase[d] = "streaming" /\ phase' = [phase EXCEPT ![d] = "gone"]
      /\ UNCHANGED <<sequence, history, stack, overtaken, snapshot, queue, backlog, last,
                     shown, base>>
  BY DEF Disconnect
<1>3. PICK i \in DOMAIN subs : subs[i] = d /\ subs' = RemoveAt(subs, i)
  BY DEF Disconnect
<1>4. /\ subs' \in Seq(Subscribers)
      /\ \A e : e # d /\ Contains(subs, e) => Contains(subs', e)
  BY <1>1, <1>3, RemoveKeeps DEF BusTyped
<1>5. /\ phase' \in [Connections -> {"off", "subscribed", "streaming", "gone"}]
      /\ phase'[d] = "gone"
      /\ \A c \in Connections \ {d} : phase'[c] = phase[c]
  BY <1>1, <1>2 DEF BusTyped
<1>6. BusTyped' /\ HistoryIsTail' /\ FramesNewest'
  BY <1>1, <1>2, <1>4, <1>5 DEF BusTyped, HistoryIsTail, FramesNewest
<1>7. Subscribed'
  <2>1. d # "board"
    BY LiveAssumption
  <2> QED
    BY <1>1, <1>4, <1>5, <2>1 DEF Subscribed
<1>8. ASSUME NEW c \in Connections PROVE StreamInv(c)'
  <2>1. CASE c # d
    BY <1>2, <1>5, <2>1, OtherStreams
  <2>2. CASE c = d
    <3>1. NotBegun(d) /\ ShownInOrder(d) /\ BacklogAhead(d) /\ QueueInTurn(d)
      BY <1>1 DEF StreamInv
    <3> QED
      BY <1>2, <1>5, <2>2, <3>1
      DEF StreamInv, NotBegun, ShownInOrder, BacklogAhead, QueueInTurn, NothingMissing
  <2> QED
    BY <2>1, <2>2
<1> QED
  BY <1>6, <1>7, <1>8 DEF LiveInv

\* A browser's stream reads the history: every event from its first on is then in the
\* backlog, and a queued one is there too.
LEMMA ReadHistoryInv == ASSUME LiveInv, NEW d \in Connections, ReadHistory(d) PROVE LiveInv'
<1>1. BusTyped /\ HistoryIsTail /\ FramesNewest /\ Subscribed
      /\ \A c \in Connections : StreamInv(c)
  BY DEF LiveInv
<1>2. /\ phase[d] = "subscribed" /\ phase' = [phase EXCEPT ![d] = "streaming"]
      /\ backlog' = [backlog EXCEPT ![d] = history]
      /\ base' = [base EXCEPT ![d] = IF history = <<>> THEN 0 ELSE history[1].seq - 1]
      /\ UNCHANGED <<sequence, history, subs, stack, overtaken, snapshot, queue, last, shown>>
  BY DEF ReadHistory, bus
<1>3. /\ sequence \in Nat /\ history \in Seq(Event) /\ Len(history) \in Nat
      /\ DOMAIN history = 1..Len(history) /\ Len(history) <= sequence
      /\ \A i \in 1..Len(history) : history[i].seq = sequence - Len(history) + i
      /\ history = <<>> => sequence = 0
  BY <1>1 DEF BusTyped, HistoryIsTail
<1>4. /\ base'[d] = sequence - Len(history)
      /\ base' \in [Connections -> Nat]
      /\ \A c \in Connections \ {d} : base'[c] = base[c]
  <2>1. CASE history = <<>>
    <3>1. Len(history) = 0
      BY <2>1
    <3> QED
      BY <1>1, <1>2, <1>3, <2>1, <3>1 DEF BusTyped
  <2>2. CASE history # <<>>
    <3>1. 1 \in 1..Len(history)
      BY <1>3, <2>2
    <3>2. history[1].seq - 1 = sequence - Len(history) /\ history[1].seq - 1 \in Nat
      BY <1>3, <3>1
    <3> QED
      BY <1>1, <1>2, <2>2, <3>2 DEF BusTyped
  <2> QED
    BY <2>1, <2>2
<1>5. /\ phase' \in [Connections -> {"off", "subscribed", "streaming", "gone"}]
      /\ phase'[d] = "streaming"
      /\ \A c \in Connections \ {d} : phase'[c] = phase[c]
      /\ backlog' \in [Connections -> Seq(Event)]
      /\ backlog'[d] = history
      /\ \A c \in Connections \ {d} : backlog'[c] = backlog[c]
  BY <1>1, <1>2, <1>3 DEF BusTyped
<1>6. BusTyped' /\ HistoryIsTail' /\ FramesNewest' /\ Subscribed'
  BY <1>1, <1>2, <1>4, <1>5 DEF BusTyped, HistoryIsTail, FramesNewest, Subscribed
<1>7. ASSUME NEW n \in Nat, n > base'[d], n <= sequence PROVE InBacklog(d, n)'
  <2>1. n - (sequence - Len(history)) \in 1..Len(history)
    BY <1>3, <1>4, <1>7
  <2>2. history[n - (sequence - Len(history))].seq = n
    BY <1>3, <2>1
  <2> QED
    BY <1>3, <1>5, <2>1, <2>2 DEF InBacklog
<1>8. ASSUME NEW c \in Connections PROVE StreamInv(c)'
  <2>1. CASE c # d
    BY <1>2, <1>4, <1>5, <2>1, OtherStreams
  <2>2. CASE c = d
    <3>1. NotBegun(d) /\ ShownInOrder(d) /\ QueueInTurn(d) /\ last[d] = 0
      BY <1>1, <1>2 DEF StreamInv, NotBegun
    <3>2. NotBegun(d)' /\ ShownInOrder(d)'
      BY <1>2, <1>5, <3>1 DEF NotBegun, ShownInOrder
    <3>3. BacklogAhead(d)'
      BY <1>2, <1>3, <1>5, <3>1 DEF BacklogAhead
    <3>4. QueueInTurn(d)'
      <4>1. queue[d] \in Seq(Event) /\ queue'[d] = queue[d]
        BY <1>1, <1>2 DEF BusTyped
      <4>2. \A k \in DOMAIN queue[d] : queue[d][k].seq \in Nat /\ queue[d][k].seq <= sequence
        BY <3>1, <4>1, EventOf DEF QueueInTurn
      <4> QED
        BY <1>2, <1>7, <4>1, <4>2 DEF QueueInTurn, InTurn
    <3>5. NothingMissing(d)'
      <4>1. \A n \in base'[d] + 1 .. sequence : n \in Nat /\ n > base'[d] /\ n <= sequence
        BY <1>3, <1>4
      <4> QED
        BY <1>2, <1>7, <4>1 DEF NothingMissing
    <3> QED
      BY <2>2, <3>2, <3>3, <3>4, <3>5 DEF StreamInv
  <2> QED
    BY <2>1, <2>2
<1> QED
  BY <1>6, <1>8 DEF LiveInv

\* A stream yields an event newer than its last.
LEMMA YieldFacts ==
    ASSUME BusTyped, NEW d \in Connections, ShownInOrder(d),
           NEW e \in Event, last[d] < e.seq, e.seq <= sequence, sequence' = sequence,
           Yield(d, e)
    PROVE  /\ shown' \in [Connections -> Seq(Nat)] /\ last' \in [Connections -> Nat]
           /\ last'[d] = e.seq
           /\ \A c \in Connections \ {d} : shown'[c] = shown[c] /\ last'[c] = last[c]
           /\ ShownInOrder(d)'
           /\ \A n : IsShown(d, n) \/ n = e.seq => IsShown(d, n)'
<1>1. PICK old : old = shown[d]
  OBVIOUS
<1>2. /\ old \in Seq(Nat) /\ Len(old) \in Nat /\ DOMAIN old = 1..Len(old)
      /\ e.seq \in Nat /\ last[d] \in Nat /\ sequence \in Nat
  BY <1>1 DEF BusTyped, Event
<1>3. PICK new : new = Append(old, e.seq)
  OBVIOUS
<1>4. /\ new \in Seq(Nat) /\ Len(new) = Len(old) + 1 /\ DOMAIN new = 1..(Len(old) + 1)
      /\ new # <<>>
      /\ new[Len(old) + 1] = e.seq
      /\ \A i \in 1..Len(old) : new[i] = old[i]
  BY <1>2, <1>3
<1>5. /\ shown' = [shown EXCEPT ![d] = new] /\ last' = [last EXCEPT ![d] = e.seq]
  BY <1>1, <1>3 DEF Yield
<1>6. /\ shown' \in [Connections -> Seq(Nat)] /\ last' \in [Connections -> Nat]
      /\ last'[d] = e.seq /\ shown'[d] = new
      /\ \A c \in Connections \ {d} : shown'[c] = shown[c] /\ last'[c] = last[c]
  BY <1>2, <1>4, <1>5 DEF BusTyped
<1>7. \A i \in 1..Len(old) : old[i] \in Nat /\ old[i] < e.seq
  <2> SUFFICES ASSUME NEW i \in 1..Len(old) PROVE old[i] \in Nat /\ old[i] < e.seq
    OBVIOUS
  <2>1. old[i] \in Nat /\ old # <<>> /\ Len(old) \in 1..Len(old) /\ i <= Len(old)
    BY <1>2
  <2>2. last[d] = old[Len(old)]
    BY <1>1, <2>1 DEF ShownInOrder
  <2>3. i = Len(old) \/ old[i] < old[Len(old)]
    BY SMTT(30), <1>1, <1>2, <2>1 DEF ShownInOrder
  <2>4. old[i] = last[d] \/ old[i] < last[d]
    BY <2>2, <2>3
  <2>5. last[d] < e.seq
    OBVIOUS
  <2> QED
    BY <1>2, <2>1, <2>4, <2>5
<1>8. \A i, j \in 1..(Len(old) + 1) : i < j => new[i] < new[j]
  <2> SUFFICES ASSUME NEW i \in 1..(Len(old) + 1), NEW j \in 1..(Len(old) + 1), i < j
               PROVE  new[i] < new[j]
    OBVIOUS
  <2>1. i \in 1..Len(old)
    BY <1>2
  <2>2. CASE j = Len(old) + 1
    BY <1>4, <1>7, <2>1, <2>2
  <2>3. CASE j # Len(old) + 1
    <3>1. j \in 1..Len(old)
      BY <1>2, <2>3
    <3> QED
      BY <1>1, <1>2, <1>4, <2>1, <3>1 DEF ShownInOrder
  <2> QED
    BY <2>2, <2>3
<1>9. ShownInOrder(d)'
  BY <1>2, <1>4, <1>6, <1>8 DEF ShownInOrder
<1>10. ASSUME NEW n, IsShown(d, n) \/ n = e.seq PROVE IsShown(d, n)'
  <2>1. CASE n = e.seq
    <3>1. Len(old) + 1 \in 1..(Len(old) + 1)
      BY <1>2
    <3> QED
      BY <1>4, <1>6, <2>1, <3>1 DEF IsShown
  <2>2. CASE IsShown(d, n)
    <3>1. PICK i \in 1..Len(old) : old[i] = n
      BY <1>1, <1>2, <2>2 DEF IsShown
    <3>2. i \in 1..(Len(old) + 1) /\ new[i] = n
      BY <1>2, <1>4, <3>1
    <3> QED
      BY <1>4, <1>6, <3>2 DEF IsShown
  <2> QED
    BY <1>10, <2>1, <2>2
<1> QED
  BY <1>6, <1>9, <1>10

\* A step of stream d that leaves what the others have.
LEMMA OneStream ==
    ASSUME LiveInv, NEW d \in Connections,
           UNCHANGED <<bus, snapshot, phase, base>>,
           queue' \in [Connections -> Seq(Event)],
           backlog' \in [Connections -> Seq(Event)],
           shown' \in [Connections -> Seq(Nat)], last' \in [Connections -> Nat],
           \A c \in Connections \ {d} : UNCHANGED <<queue[c], backlog[c], shown[c], last[c]>>,
           StreamInv(d)'
    PROVE  LiveInv'
<1>1. BusTyped /\ HistoryIsTail /\ FramesNewest /\ Subscribed
  BY DEF LiveInv
<1>2. UNCHANGED <<sequence, history, subs, stack, overtaken, snapshot, phase, base>>
  BY DEF bus
<1>3. BusTyped' /\ HistoryIsTail' /\ FramesNewest' /\ Subscribed'
  BY <1>1, <1>2 DEF BusTyped, HistoryIsTail, FramesNewest, Subscribed
<1>4. ASSUME NEW c \in Connections PROVE StreamInv(c)'
  <2>1. CASE c # d
    BY <1>2, <2>1, OtherStreams
  <2> QED
    BY <2>1
<1> QED
  BY <1>3, <1>4 DEF LiveInv

\* A stream yields the head of its backlog.
LEMMA ReplayInv == ASSUME LiveInv, NEW d \in Connections, Replay(d) PROVE LiveInv'
<1>1. BusTyped /\ StreamInv(d)
  BY DEF LiveInv
<1>2. /\ phase[d] = "streaming" /\ backlog[d] # <<>>
      /\ Yield(d, Head(backlog[d]))
      /\ backlog' = [backlog EXCEPT ![d] = Tail(@)]
      /\ UNCHANGED <<bus, snapshot, ticks, board, phase, queue, base>>
      /\ sequence' = sequence /\ overtaken' = overtaken /\ stack' = stack
  BY DEF Replay, bus
<1>3. NotBegun(d) /\ ShownInOrder(d) /\ BacklogAhead(d) /\ QueueInTurn(d) /\ NothingMissing(d)
  BY <1>1 DEF StreamInv
<1>4. PICK b : b = backlog[d]
  OBVIOUS
<1>5. /\ b \in Seq(Event) /\ b # <<>> /\ Len(b) \in Nat /\ Len(b) >= 1
      /\ DOMAIN b = 1..Len(b) /\ Head(b) = b[1] /\ b[1] \in Event
      /\ Tail(b) \in Seq(Event) /\ DOMAIN Tail(b) = 1..(Len(b) - 1)
      /\ \A i \in 1..(Len(b) - 1) : Tail(b)[i] = b[i + 1] /\ i + 1 \in 1..Len(b)
  BY <1>1, <1>2, <1>4 DEF BusTyped
<1>6. PICK e \in Event : e = b[1]
  BY <1>5
<1>7. last[d] < e.seq /\ e.seq <= sequence /\ Yield(d, e)
  BY <1>2, <1>3, <1>4, <1>5, <1>6 DEF BacklogAhead
<1>8. /\ shown' \in [Connections -> Seq(Nat)] /\ last' \in [Connections -> Nat]
      /\ last'[d] = e.seq
      /\ \A c \in Connections \ {d} : shown'[c] = shown[c] /\ last'[c] = last[c]
      /\ ShownInOrder(d)'
      /\ \A n : IsShown(d, n) \/ n = e.seq => IsShown(d, n)'
  BY <1>1, <1>2, <1>3, <1>7, YieldFacts
<1>9. /\ backlog' \in [Connections -> Seq(Event)] /\ backlog'[d] = Tail(b)
      /\ \A c \in Connections \ {d} : backlog'[c] = backlog[c]
  BY <1>1, <1>2, <1>4, <1>5 DEF BusTyped
<1>10. NotBegun(d)'
  BY <1>2 DEF NotBegun
<1>11. BacklogAhead(d)'
  <2>1. \A i, j \in 1..Len(b) : i < j => b[i].seq < b[j].seq
    BY <1>3, <1>4, <1>5 DEF BacklogAhead
  <2>2. \A i \in 1..Len(b) : b[i].seq <= sequence
    BY <1>3, <1>4, <1>5 DEF BacklogAhead
  <2>3. \A i \in 1..(Len(b) - 1) : Tail(b)[i].seq > e.seq /\ Tail(b)[i].seq <= sequence
    <3> SUFFICES ASSUME NEW i \in 1..(Len(b) - 1)
                 PROVE  Tail(b)[i].seq > e.seq /\ Tail(b)[i].seq <= sequence
      OBVIOUS
    <3>1. 1 \in 1..Len(b) /\ i + 1 \in 1..Len(b) /\ 1 < i + 1 /\ Tail(b)[i] = b[i + 1]
      BY <1>5
    <3>2. b[1].seq < b[i + 1].seq /\ b[1] \in Event /\ b[i + 1] \in Event
      BY <1>5, <2>1, <3>1
    <3> QED
      BY <1>6, <2>2, <3>1, <3>2 DEF Event
  <2>4. \A i, j \in 1..(Len(b) - 1) : i < j => Tail(b)[i].seq < Tail(b)[j].seq
    <3> SUFFICES ASSUME NEW i \in 1..(Len(b) - 1), NEW j \in 1..(Len(b) - 1), i < j
                 PROVE  Tail(b)[i].seq < Tail(b)[j].seq
      OBVIOUS
    <3>1. i + 1 \in 1..Len(b) /\ j + 1 \in 1..Len(b) /\ i + 1 < j + 1
      BY <1>5
    <3> QED
      BY <1>5, <2>1, <3>1
  <2> QED
    BY <1>2, <1>5, <1>8, <1>9, <2>3, <2>4 DEF BacklogAhead
<1>12. \A n : InBacklog(d, n) => IsShown(d, n)' \/ InBacklog(d, n)'
  <2> SUFFICES ASSUME NEW n, InBacklog(d, n) PROVE IsShown(d, n)' \/ InBacklog(d, n)'
    OBVIOUS
  <2>1. PICK i \in 1..Len(b) : b[i].seq = n
    BY <1>4, <1>5 DEF InBacklog
  <2>2. CASE i = 1
    BY <1>6, <1>8, <2>1, <2>2
  <2>3. CASE i # 1
    <3>1. i - 1 \in 1..(Len(b) - 1) /\ (i - 1) + 1 = i
      BY <1>5, <2>1, <2>3
    <3>2. Tail(b)[i - 1] = b[i]
      BY <1>5, <3>1
    <3> QED
      BY <1>5, <1>9, <2>1, <3>1, <3>2 DEF InBacklog
  <2> QED
    BY <2>2, <2>3
<1>13. QueueInTurn(d)'
  <2>1. ASSUME NEW k \in DOMAIN queue[d], InTurn(d, k) PROVE InTurn(d, k)'
    <3>1. CASE IsShown(d, queue[d][k].seq) \/ InBacklog(d, queue[d][k].seq)
      BY <1>2, <1>8, <1>12, <3>1 DEF InTurn
    <3>2. CASE /\ last[d] < queue[d][k].seq
               /\ \A i \in DOMAIN backlog[d] : backlog[d][i].seq < queue[d][k].seq
               /\ \A i \in 1..k : queue[d][i].seq <= queue[d][k].seq
      <4>1. last'[d] < queue[d][k].seq
        <5>1. 1 \in DOMAIN backlog[d] /\ backlog[d][1] = e
          BY <1>4, <1>5, <1>6
        <5>2. e.seq < queue[d][k].seq
          BY <3>2, <5>1
        <5> QED
          BY <1>8, <5>2
      <4>2. \A i \in DOMAIN backlog'[d] : backlog'[d][i].seq < queue[d][k].seq
        <5>1. \A i \in 1..Len(b) : b[i].seq < queue[d][k].seq
          BY <1>4, <1>5, <3>2
        <5>2. \A i \in 1..(Len(b) - 1) : Tail(b)[i].seq < queue[d][k].seq
          BY <1>5, <5>1
        <5> QED
          BY <1>5, <1>9, <5>2
      <4> QED
        BY <1>2, <3>2, <4>1, <4>2 DEF InTurn
    <3> QED
      BY <2>1, <3>1, <3>2 DEF InTurn
  <2> QED
    BY <1>2, <1>3, <2>1 DEF QueueInTurn
<1>14. NothingMissing(d)'
  <2>1. \A n : InQueue(d, n) => InQueue(d, n)'
    BY <1>2 DEF InQueue
  <2>2. \A n : Awaits(d, n) => Awaits(d, n)'
    BY <1>2 DEF Awaits
  <2> QED
    BY <1>2, <1>3, <1>8, <1>12, <2>1, <2>2 DEF NothingMissing
<1>15. StreamInv(d)'
  BY <1>8, <1>10, <1>11, <1>13, <1>14 DEF StreamInv
<1>16. queue' \in [Connections -> Seq(Event)] /\ UNCHANGED queue
  BY <1>1, <1>2 DEF BusTyped
<1> QED
  BY <1>2, <1>8, <1>9, <1>15, <1>16, OneStream

\* A stream takes the head of its queue: an event that was not overtaken is newer than the
\* last one, or has been shown.
LEMMA FollowInv == ASSUME LiveInv, NEW d \in Connections, Follow(d) PROVE LiveInv'
<1>1. BusTyped /\ StreamInv(d)
  BY DEF LiveInv
<1>2. /\ phase[d] = "streaming" /\ backlog[d] = <<>> /\ queue[d] # <<>>
      /\ IF Head(queue[d]).seq > last[d] THEN Yield(d, Head(queue[d])) ELSE UNCHANGED <<shown, last>>
      /\ queue' = [queue EXCEPT ![d] = Tail(@)]
      /\ UNCHANGED <<bus, snapshot, ticks, board, phase, backlog, base>>
      /\ sequence' = sequence /\ overtaken' = overtaken /\ stack' = stack
  BY DEF Follow, bus
<1>3. NotBegun(d) /\ ShownInOrder(d) /\ BacklogAhead(d) /\ QueueInTurn(d) /\ NothingMissing(d)
  BY <1>1 DEF StreamInv
<1>4. PICK q : q = queue[d]
  OBVIOUS
<1>5. /\ q \in Seq(Event) /\ q # <<>> /\ Len(q) \in Nat /\ Len(q) >= 1
      /\ DOMAIN q = 1..Len(q) /\ Head(q) = q[1] /\ q[1] \in Event
      /\ Tail(q) \in Seq(Event) /\ DOMAIN Tail(q) = 1..(Len(q) - 1)
      /\ \A i \in 1..(Len(q) - 1) : Tail(q)[i] = q[i + 1] /\ i + 1 \in 1..Len(q)
  BY <1>1, <1>2, <1>4 DEF BusTyped
<1>6. PICK e \in Event : e = q[1]
  BY <1>5
<1>7. e.seq \in Nat /\ e.seq <= sequence /\ last[d] \in Nat /\ 1 \in 1..Len(q)
  <2>1. 1 \in 1..Len(q)
    BY <1>5
  <2>2. q[1].seq <= sequence
    BY <1>3, <1>4, <1>5, <2>1 DEF QueueInTurn
  <2> QED
    BY <1>1, <1>6, <2>1, <2>2 DEF BusTyped, Event
<1>8. /\ shown' \in [Connections -> Seq(Nat)] /\ last' \in [Connections -> Nat]
      /\ last'[d] = IF e.seq > last[d] THEN e.seq ELSE last[d]
      /\ \A c \in Connections \ {d} : shown'[c] = shown[c] /\ last'[c] = last[c]
      /\ ShownInOrder(d)'
      /\ \A n : IsShown(d, n) \/ (n = e.seq /\ e.seq > last[d]) => IsShown(d, n)'
  <2>1. CASE e.seq > last[d]
    <3>1. Yield(d, e) /\ last[d] < e.seq
      BY <1>2, <1>4, <1>5, <1>6, <1>7, <2>1
    <3> QED
      BY <1>1, <1>2, <1>3, <1>7, <2>1, <3>1, YieldFacts
  <2>2. CASE ~(e.seq > last[d])
    <3>1. UNCHANGED <<shown, last>>
      BY <1>2, <1>4, <1>5, <1>6, <2>2
    <3> QED
      BY <1>1, <1>2, <1>3, <2>2, <3>1 DEF BusTyped, ShownInOrder, IsShown
  <2> QED
    BY <2>1, <2>2
<1>9. /\ queue' \in [Connections -> Seq(Event)] /\ queue'[d] = Tail(q)
      /\ \A c \in Connections \ {d} : queue'[c] = queue[c]
  BY <1>1, <1>2, <1>4, <1>5 DEF BusTyped
<1>10. backlog' \in [Connections -> Seq(Event)] /\ backlog'[d] = <<>> /\ UNCHANGED backlog
  BY <1>1, <1>2 DEF BusTyped
<1>11. NotBegun(d)' /\ BacklogAhead(d)'
  BY <1>2, <1>10 DEF NotBegun, BacklogAhead
<1>12. \A n : ~InBacklog(d, n)
  BY <1>2 DEF InBacklog
<1>13. QueueInTurn(d)'
  <2>1. \A k \in 1..(Len(q) - 1) : Tail(q)[k].seq <= sequence
    BY <1>3, <1>4, <1>5 DEF QueueInTurn
  <2>2. ASSUME NEW k \in 1..(Len(q) - 1), Tail(q)[k].seq > base[d],
               Tail(q)[k].seq \notin overtaken
        PROVE  InTurn(d, k)'
    <3>1. /\ k + 1 \in 1..Len(q) /\ Tail(q)[k] = q[k + 1]
          /\ q[k + 1].seq \in Nat
      BY <1>5, EventOf
    <3>2. InTurn(d, k + 1)
      BY <1>2, <1>3, <1>4, <1>5, <2>2, <3>1 DEF QueueInTurn
    <3>3. CASE IsShown(d, q[k + 1].seq)
      BY <1>8, <1>9, <3>1, <3>3 DEF InTurn
    <3>4. CASE last[d] < q[k + 1].seq /\ \A i \in 1..(k + 1) : q[i].seq <= q[k + 1].seq
      <4>1. e.seq <= q[k + 1].seq
        <5>1. 1 \in 1..(k + 1)
          BY <1>5
        <5> QED
          BY <1>6, <3>4, <5>1
      <4>2. \A i \in 1..k : Tail(q)[i].seq <= q[k + 1].seq
        <5>1. \A i \in 1..k : i \in 1..(Len(q) - 1) /\ i + 1 \in 1..(k + 1)
          BY <1>5
        <5> QED
          BY <1>5, <3>4, <5>1
      <4>3. CASE e.seq = q[k + 1].seq
        <5>1. IsShown(d, q[k + 1].seq)'
          BY <1>7, <1>8, <3>4, <4>3
        <5> QED
          BY <1>9, <3>1, <5>1 DEF InTurn
      <4>4. CASE e.seq # q[k + 1].seq
        <5>1. last'[d] < q[k + 1].seq
          BY <1>7, <1>8, <3>1, <3>4, <4>1, <4>4
        <5> QED
          <6>1. queue'[d][k].seq = q[k + 1].seq
            BY <1>9, <3>1
          <6>2. \A i \in 1..k : queue'[d][i].seq <= queue'[d][k].seq
            BY <1>9, <4>2, <6>1
          <6>3. \A i \in DOMAIN backlog'[d] : backlog'[d][i].seq < queue'[d][k].seq
            BY <1>10
          <6>4. last'[d] < queue'[d][k].seq
            BY <5>1, <6>1
          <6> QED
            BY <6>2, <6>3, <6>4 DEF InTurn
      <4> QED
        BY <4>3, <4>4
    <3> QED
      BY <1>4, <1>12, <3>2, <3>3, <3>4 DEF InTurn
  <2> QED
    BY <1>2, <1>5, <1>9, <2>1, <2>2 DEF QueueInTurn
<1>14. NothingMissing(d)'
  <2>1. ASSUME NEW n \in base[d] + 1 .. sequence, n \notin overtaken, InQueue(d, n)
        PROVE  IsShown(d, n)' \/ InQueue(d, n)'
    <3>1. PICK i \in 1..Len(q) : q[i].seq = n
      BY <1>4, <1>5, <2>1 DEF InQueue
    <3>2. CASE i = 1
      <4>1. e.seq = n /\ n > base[d]
        BY <1>1, <1>6, <3>1, <3>2 DEF BusTyped
      <4>2. InTurn(d, 1)
        BY <1>2, <1>3, <1>4, <1>5, <1>6, <1>7, <2>1, <4>1 DEF QueueInTurn
      <4>3. IsShown(d, n) \/ last[d] < n
        BY <1>4, <1>6, <1>12, <4>1, <4>2 DEF InTurn
      <4> QED
        BY <1>7, <1>8, <4>1, <4>3
    <3>3. CASE i # 1
      <4>1. i - 1 \in 1..(Len(q) - 1) /\ (i - 1) + 1 = i
        BY <1>5, <3>1, <3>3
      <4>2. Tail(q)[i - 1] = q[i]
        BY <1>5, <4>1
      <4> QED
        BY <1>5, <1>9, <3>1, <4>1, <4>2 DEF InQueue
    <3> QED
      BY <3>2, <3>3
  <2>2. \A n : Awaits(d, n) => Awaits(d, n)'
    BY <1>2 DEF Awaits
  <2> QED
    BY <1>2, <1>3, <1>8, <1>12, <2>1, <2>2 DEF NothingMissing
<1>15. StreamInv(d)'
  BY <1>8, <1>11, <1>13, <1>14 DEF StreamInv
<1> QED
  BY <1>2, <1>8, <1>9, <1>10, <1>15, OneStream

\* The adapter is subscribed.
LEMMA AttachInv == ASSUME LiveInv, Attach PROVE LiveInv'
<1>1. BusTyped /\ HistoryIsTail /\ FramesNewest /\ Subscribed
  BY DEF LiveInv
<1>2. subs' = Append(subs, "adapter")
      /\ UNCHANGED <<sequence, history, stack, overtaken, snapshot, streams>>
  BY DEF Attach
<1>3. subs \in Seq(Subscribers) /\ "adapter" \in Subscribers
  BY <1>1 DEF BusTyped, Subscribers
<1>4. subs' \in Seq(Subscribers) /\ \A e : Contains(subs, e) => Contains(subs', e)
  BY <1>2, <1>3, AppendKeeps
<1>5. BusTyped' /\ HistoryIsTail' /\ FramesNewest' /\ Subscribed'
  BY <1>1, <1>2, <1>4 DEF BusTyped, HistoryIsTail, FramesNewest, Subscribed, streams
<1>6. ASSUME NEW c \in Connections PROVE StreamInv(c)'
  <2>1. c # "adapter"
    BY LiveAssumption
  <2> QED
    BY <1>2, <2>1, OtherStreams DEF streams
<1> QED
  BY <1>5, <1>6 DEF LiveInv

\* A publish by a thread that is in no other.
LEMMA FirstNumberInv ==
    ASSUME LiveInv, NEW t \in Threads, Idle(t), NEW kind \in Kinds, NEW batch \in Snapshot,
           Number(t, kind, batch, <<>>), snapshot' \in Snapshot, UNCHANGED streams
    PROVE  LiveInv'
<1>1. Rest(t, <<>>)
  BY DEF Rest, Idle
<1> QED
  BY <1>1, NumberInv

\* A telemetry tick.
LEMMA TickInv == ASSUME LiveInv, Tick PROVE LiveInv'
<1>1. /\ Idle("server") /\ Number("server", "tick", Nothing, <<>>)
      /\ UNCHANGED <<snapshot, board, streams>>
  BY DEF Tick, LoopFree
<1>2. Nothing \in Snapshot /\ "tick" \in Kinds /\ "server" \in Threads
  BY LiveAssumption DEF Nothing, Snapshot, Kinds, Threads
<1>3. snapshot' \in Snapshot
  BY <1>1 DEF LiveInv, BusTyped
<1> QED
  BY <1>1, <1>2, <1>3, FirstNumberInv

\* What happens besides the pipeline.
LEMMA OthersInv == ASSUME LiveInv, Others PROVE LiveInv'
<1>1. CASE Tick
  BY <1>1, TickInv
<1>2. CASE Call("server")
  BY <1>2, CallInv DEF Threads
<1>3. ASSUME NEW c \in Connections, Browser(c) PROVE LiveInv'
  BY <1>3, ConnectInv, DisconnectInv DEF Browser
<1>4. ASSUME NEW c \in Connections, Stream(c) PROVE LiveInv'
  BY <1>4, ReadHistoryInv, ReplayInv, FollowInv DEF Stream
<1> QED
  BY <1>1, <1>2, <1>3, <1>4 DEF Others, Server

\* The live bus at its start.
LEMMA LiveInitInv == ASSUME LiveInit PROVE LiveInv
<1>1. /\ sequence = 0 /\ history = <<>> /\ subs = <<"board">>
      /\ stack = [t \in Threads |-> <<>>] /\ snapshot = Nothing
      /\ phase = [c \in Connections |-> "off"]
      /\ queue = [c \in Connections |-> <<>>] /\ backlog = [c \in Connections |-> <<>>]
      /\ last = [c \in Connections |-> 0] /\ shown = [c \in Connections |-> <<>>]
      /\ base = [c \in Connections |-> 0]
  BY DEF LiveInit
<1>2. BusTyped
  <2>1. snapshot \in Snapshot
    BY <1>1, LiveAssumption DEF Nothing, Snapshot
  <2>2. subs \in Seq(Subscribers)
    BY <1>1 DEF Subscribers
  <2> QED
    BY <1>1, <2>1, <2>2 DEF BusTyped
<1>3. HistoryIsTail /\ FramesNewest
  BY <1>1 DEF HistoryIsTail, FramesNewest
<1>4. Subscribed
  <2>1. 1 \in 1..Len(subs) /\ subs[1] = "board"
    BY <1>1
  <2> QED
    BY <1>1, <2>1 DEF Subscribed, Contains
<1>5. ASSUME NEW c \in Connections PROVE StreamInv(c)
  BY <1>1 DEF StreamInv, NotBegun, ShownInOrder, BacklogAhead, QueueInTurn, NothingMissing
<1> QED
  BY <1>2, <1>3, <1>4, <1>5 DEF LiveInv

\* What leaves the bus alone.
LEMMA LiveStutter == ASSUME LiveInv, UNCHANGED live PROVE LiveInv'
<1>1. UNCHANGED <<sequence, history, subs, stack, overtaken, snapshot, phase, queue, backlog,
                  last, shown, base>>
  BY DEF live, bus, streams
<1>2. BusTyped' /\ HistoryIsTail' /\ FramesNewest' /\ Subscribed'
  BY <1>1 DEF LiveInv, BusTyped, HistoryIsTail, FramesNewest, Subscribed
<1>3. ASSUME NEW c \in Connections PROVE StreamInv(c)'
  <2>1. c # "board"
    BY LiveAssumption
  <2> QED
    BY <1>1, <2>1, OtherStreams
<1> QED
  BY <1>2, <1>3 DEF LiveInv

-----------------------------------------------------------------------------
(* What the invariant says of the streams. *)

LEMMA OrderKept == ASSUME LiveInv PROVE StreamInOrder
BY DEF LiveInv, StreamInv, ShownInOrder, StreamInOrder

LEMMA NothingElseSkipped == ASSUME LiveInv PROVE OnlyOvertakenSkipped
<1> SUFFICES ASSUME NEW c \in Connections, Drained(c),
                    NEW n \in base[c] + 1 .. sequence, n \notin overtaken
             PROVE  IsShown(c, n)
  BY DEF OnlyOvertakenSkipped, IsShown
<1>1. /\ phase[c] = "streaming" /\ backlog[c] = <<>> /\ queue[c] = <<>>
      /\ \A t \in Threads : stack[t] = <<>>
  BY DEF Drained, Idle
<1>2. NothingMissing(c)
  BY DEF LiveInv, StreamInv
<1>3. IsShown(c, n) \/ InBacklog(c, n) \/ InQueue(c, n) \/ Awaits(c, n)
  BY <1>1, <1>2 DEF NothingMissing
<1> QED
  BY <1>1, <1>3 DEF InBacklog, InQueue, Awaits
=============================================================================
