--------------------------- MODULE CheckpointFile ---------------------------
(***************************************************************************)
(* The append-only JSONL files of a run folder, partial_results.jsonl and   *)
(* partial_retrieval.jsonl: what one append leaves on disk, what a stopped  *)
(* append leaves, and what a later reader makes of it.                      *)
(*                                                                          *)
(* A record's JSON text is abstracted to its key (the one-based question    *)
(* index), the invocation that wrote it (its "timestamp") and one value: a  *)
(* row status, or the presence of a response.  A physical line that does    *)
(* not parse has whole = FALSE; its other fields are then never read.       *)
(***************************************************************************)
EXTENDS Integers, Sequences, FiniteSetsExt

CONSTANTS NumQuestions, \* questions of the batch
          MaxRuns       \* bound: invocations of the script on one run folder

ASSUME CountsAssumption == /\ NumQuestions \in Nat \ {0}
                           /\ MaxRuns \in Nat \ {0}

Questions == 1..NumQuestions
Runs == 1..MaxRuns
Values == {"success", "failed", "mapping", "null", "missing"}

Line == [key : Questions, run : Runs, val : Values, whole : BOOLEAN]

\* What a dictionary lookup of an absent key returns.
Missing == [key |-> 0, run |-> 0, val |-> "missing", whole |-> FALSE]
Entry == Line \cup {Missing}

\* open: the last line has no terminating newline yet.
File == {f \in [lines : Seq(Line), open : BOOLEAN] : f.open => f.lines # <<>>}
EmptyFile == [lines |-> <<>>, open |-> FALSE]

Broken(l) == [l EXCEPT !.whole = FALSE]

\* _append_jsonl opens the file with mode "a": an unterminated line is
\* continued by the new record, and the two together are not JSON.  The text is
\* written with ensure_ascii=False, so a Unicode line separator in a payload
\* stays in the file, and the reader's splitlines() cuts the record there.
Appended(f, l, split) ==
    LET head == IF f.open
                THEN [f.lines EXCEPT ![Len(f.lines)] = Broken(@)]
                ELSE Append(f.lines, IF split THEN Broken(l) ELSE l)
    IN  [lines |-> IF split THEN Append(head, Broken(l)) ELSE head,
         open  |-> FALSE]

Cut(f, l, split) == [Appended(f, l, split) EXCEPT !.open = TRUE]

\* The files a killed append can leave: none of the text, all of it without the
\* newline, or a part of it that ends before or after a line separator in it.
Torn(f, l, split) ==
    {f, Cut(f, l, split), Cut(f, Broken(l), split), Cut(f, Broken(l), FALSE)}

\* _load_latest raises on a line that does not parse unless it is the last one.
Readable(f) ==
    \A i \in 1..Len(f.lines) : f.lines[i].whole \/ i = Len(f.lines)

Positions(f, q) == {i \in 1..Len(f.lines) : f.lines[i].whole /\ f.lines[i].key = q}

\* _load_latest: a later record of the same key replaces an earlier one.
Latest(f, q) ==
    IF Positions(f, q) = {}
    THEN Missing
    ELSE f.lines[Max(Positions(f, q))]

Loaded(f) == [q \in Questions |-> Latest(f, q)]

\* Every line that does not parse is an unterminated last one: the damage the
\* comment in _load_latest provides for.
Intact(f) ==
    \A i \in 1..Len(f.lines) :
        f.lines[i].whole \/ (i = Len(f.lines) /\ f.open)
=============================================================================
