--------------------------- MODULE LiveBatchProofs ---------------------------
(***************************************************************************)
(* Theorems about the live event bus under LiveBatch, for every number of   *)
(* questions, ticks and browsers and every size of the history: a browser   *)
(* is shown events in order, and is only ever denied one during whose       *)
(* publication another event was numbered.                                  *)
(***************************************************************************)
EXTENDS LiveBatch, LiveBusProofs

\* The words of the scripts.
Items == {"context", "run_started", "end", "done"}

\* The types of the script.
ScriptTyped ==
    /\ question \in 0..Questions + 1
    /\ script \in Seq(Items)
    /\ (\E i \in DOMAIN script : script[i] = "done") => question <= Questions

\* The inductive invariant.
IInv == ScriptTyped /\ LiveInv

-----------------------------------------------------------------------------
(* The batch. *)

\* The pipeline publishes the next event of its script.
LEMMA ReportInv == ASSUME IInv, Report PROVE IInv'
<1>1. ScriptTyped /\ LiveInv /\ snapshot \in Snapshot
  BY DEF IInv, LiveInv, BusTyped
<1>2. /\ Idle("pipeline") /\ script # <<>> /\ script' = Tail(script)
      /\ question' = question /\ UNCHANGED streams
  BY DEF Report
<1>3. /\ question \in 0..Questions + 1 /\ script \in Seq(Items) /\ Questions \in Nat
      /\ (\E i \in DOMAIN script : script[i] = "done") => question <= Questions
  BY <1>1, LiveAssumption DEF ScriptTyped
<1>4. /\ Len(script) \in Nat /\ Len(script) >= 1 /\ DOMAIN script = 1..Len(script)
      /\ Head(script) = script[1] /\ script[1] \in Items
      /\ Tail(script) \in Seq(Items) /\ DOMAIN Tail(script) = 1..(Len(script) - 1)
      /\ \A i \in 1..(Len(script) - 1) : Tail(script)[i] = script[i + 1] /\ i + 1 \in 1..Len(script)
  BY <1>2, <1>3
<1>5. ScriptTyped'
  BY <1>2, <1>3, <1>4 DEF ScriptTyped
<1>6. snapshot' \in Snapshot
  <2>1. PICK q : q = IF question <= Questions THEN question ELSE Questions
    OBVIOUS
  <2>2. PICK n : n = IF Head(script) = "done" THEN question ELSE snapshot.completed
    OBVIOUS
  <2>3. snapshot' = [question |-> q, completed |-> n]
    BY <2>1, <2>2 DEF Report
  <2>4. q \in 0..Questions
    BY <1>3, <2>1
  <2>5. snapshot.completed \in 0..Questions
    BY <1>1 DEF Snapshot
  <2>6. n \in 0..Questions
    <3>1. CASE Head(script) = "done"
      <4>1. question <= Questions
        BY <1>3, <1>4, <3>1
      <4> QED
        BY <1>3, <2>2, <3>1, <4>1
    <3>2. CASE Head(script) # "done"
      BY <2>2, <2>5, <3>2
    <3> QED
      BY <3>1, <3>2
  <2> QED
    BY <2>3, <2>4, <2>6 DEF Snapshot
<1>7. PICK kind \in CASE Head(script) = "end" -> {"run_completed", "run_failed"}
                      [] Head(script) = "done" -> {"context"}
                      [] OTHER -> {Head(script)} :
           Number("pipeline", kind, snapshot', <<>>)
  BY DEF Report
<1>8. kind \in Kinds
  BY <1>4, <1>7 DEF Items, Kinds, RunKinds
<1>9. "pipeline" \in Threads
  BY DEF Threads
<1>10. PICK batch : batch = snapshot'
  OBVIOUS
<1>11. Number("pipeline", kind, batch, <<>>) /\ batch \in Snapshot
  BY <1>6, <1>7, <1>10
<1>12. LiveInv'
  BY <1>1, <1>2, <1>6, <1>8, <1>9, <1>11, FirstNumberInv
<1> QED
  BY <1>5, <1>12 DEF IInv

\* The pipeline asks the next question, or is done.
LEMMA NextQuestionTyped == ASSUME ScriptTyped, NextQuestion PROVE ScriptTyped'
<1>1. /\ question' = question + 1 /\ question <= Questions
      /\ script' = IF question' <= Questions THEN Script ELSE <<"context">>
      /\ question \in 0..Questions + 1 /\ Questions \in Nat
  BY LiveAssumption DEF NextQuestion, ScriptTyped
<1>2. Script \in Seq(Items) /\ <<"context">> \in Seq(Items)
  <2>1. /\ "context" \in Items /\ "run_started" \in Items
        /\ "end" \in Items /\ "done" \in Items
    BY DEF Items
  <2>2. /\ <<"context", "context", "run_started", "end", "done">> \in Seq(Items)
        /\ <<"run_started", "context", "done", "end">> \in Seq(Items)
        /\ <<"context">> \in Seq(Items)
    BY <2>1
  <2> QED
    BY <2>2 DEF Script
<1>3. \A i \in DOMAIN <<"context">> : <<"context">>[i] # "done"
  OBVIOUS
<1> QED
  BY <1>1, <1>2, <1>3 DEF ScriptTyped

\* The batch is interrupted.
LEMMA StopTyped == ASSUME ScriptTyped, Stop PROVE ScriptTyped'
<1>1. /\ question \in 1..Questions /\ question' = question /\ Questions \in Nat
      /\ script' = IF phase5 /\ script # <<>> THEN <<"done">> ELSE script
      /\ script \in Seq(Items)
  BY LiveAssumption DEF Stop, ScriptTyped
<1>2. <<"done">> \in Seq(Items)
  BY DEF Items
<1> QED
  BY <1>1, <1>2 DEF ScriptTyped

\* The invariant holds at the start and is kept by every step.
LEMMA InitInv == Init => IInv
<1> SUFFICES ASSUME Init PROVE IInv
  OBVIOUS
<1>1. LiveInv
  BY LiveInitInv DEF Init
<1>2. question = 0 /\ script = <<"context">> /\ Questions \in Nat
  BY LiveAssumption DEF Init
<1>3. ScriptTyped
  BY <1>2 DEF ScriptTyped, Items
<1> QED
  BY <1>1, <1>3 DEF IInv

LEMMA NextInv == IInv /\ [Next]_vars => IInv'
<1> SUFFICES ASSUME IInv, [Next]_vars PROVE IInv'
  OBVIOUS
<1>1. ScriptTyped /\ LiveInv
  BY DEF IInv
<1>2. UNCHANGED steps => ScriptTyped'
  BY <1>1 DEF steps, ScriptTyped
<1>3. CASE NextQuestion
  <2>1. UNCHANGED live
    BY <1>3 DEF NextQuestion
  <2> QED
    BY <1>1, <1>3, <2>1, NextQuestionTyped, LiveStutter DEF IInv
<1>4. CASE Report
  BY <1>4, ReportInv
<1>5. CASE Attach /\ UNCHANGED steps
  BY <1>1, <1>2, <1>5, AttachInv DEF IInv
<1>6. CASE Call("pipeline") /\ UNCHANGED steps
  <2>1. "pipeline" \in Threads
    BY DEF Threads
  <2> QED
    BY <1>1, <1>2, <1>6, <2>1, CallInv DEF IInv
<1>7. CASE Stop
  <2>1. UNCHANGED live
    BY <1>7 DEF Stop
  <2> QED
    BY <1>1, <1>7, <2>1, StopTyped, LiveStutter DEF IInv
<1>8. CASE Others /\ UNCHANGED steps
  BY <1>1, <1>2, <1>8, OthersInv DEF IInv
<1>9. CASE UNCHANGED vars
  BY <1>1, <1>2, <1>9, LiveStutter DEF IInv, vars
<1> QED
  BY <1>3, <1>4, <1>5, <1>6, <1>7, <1>8, <1>9 DEF Next, Pipeline

-----------------------------------------------------------------------------
(* The theorems. *)

\* The inductive invariant is one.
THEOREM LiveInvariance == Spec => []IInv
<1> QED
  BY InitInv, NextInv, PTL DEF Spec

\* A browser is shown events in the order they were numbered and none of them twice, for
\* every interleaving of the two threads and every overlap of history and queue.
THEOREM StreamsInOrder == Spec => []StreamInOrder
<1>1. IInv => StreamInOrder
  BY OrderKept DEF IInv
<1> QED
  BY <1>1, LiveInvariance, PTL

\* A browser that has caught up was shown every event since it began except events that
\* another one was numbered during.
THEOREM OnlyOvertakenAreSkipped == Spec => []OnlyOvertakenSkipped
<1>1. IInv => OnlyOvertakenSkipped
  BY NothingElseSkipped DEF IInv
<1> QED
  BY <1>1, LiveInvariance, PTL
=============================================================================
