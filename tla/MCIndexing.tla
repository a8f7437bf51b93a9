----------------------------- MODULE MCIndexing -----------------------------
(* Indexing for TLC: two versions of a text, of two chunks and of one.       *)
EXTENDS Indexing

MCStarts == << <<0, 1>>, <<0>> >>
=============================================================================
