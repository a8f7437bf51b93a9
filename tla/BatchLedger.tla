----------------------------- MODULE BatchLedger -----------------------------
(***************************************************************************)
(* What a run folder promises about its questions, whatever stops and       *)
(* resumes the batch: a question is done once and stays done, only a        *)
(* question that is not done can fail, and the batch is closed only when    *)
(* every question is accounted for.                                         *)
(***************************************************************************)
EXTENDS Integers

CONSTANT Questions

VARIABLES done, failed, status

ledger == <<done, failed, status>>

Init == done = {} /\ failed = {} /\ status = "absent"

Open == /\ status = "absent"
        /\ status' = "in_progress"
        /\ UNCHANGED <<done, failed>>

Succeed(q) == /\ status # "absent"
              /\ q \notin done
              /\ done' = done \cup {q}
              /\ failed' = failed \ {q}
              /\ status' = "in_progress"

Fail(q) == /\ status # "absent"
           /\ q \notin done
           /\ failed' = failed \cup {q}
           /\ status' = "in_progress"
           /\ UNCHANGED done

Interrupt == /\ status # "absent"
             /\ status' = "interrupted"
             /\ UNCHANGED <<done, failed>>

Close == /\ status # "absent"
         /\ done \cup failed = Questions
         /\ status' = IF failed = {} THEN "completed" ELSE "completed_with_failures"
         /\ UNCHANGED <<done, failed>>

Next == \/ Open \/ Interrupt \/ Close
        \/ \E q \in Questions : Succeed(q) \/ Fail(q)

Spec == Init /\ [][Next]_ledger
=============================================================================
