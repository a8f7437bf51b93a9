------------------------------- MODULE Claims -------------------------------
(***************************************************************************)
(* What the run folders and the exports promise to several processes at     *)
(* once: every invocation takes a name nobody has, keeps it, and takes no   *)
(* second one.                                                              *)
(***************************************************************************)
CONSTANT Ids

VARIABLE owner  \* of every name taken so far

Init == owner = [n \in {} |-> n]

Take(i, n) ==
    /\ n \notin DOMAIN owner
    /\ \A m \in DOMAIN owner : owner[m] # i
    /\ owner' = [m \in DOMAIN owner \cup {n} |-> IF m = n THEN i ELSE owner[m]]

Next == \E i \in Ids, n \in DOMAIN owner' : Take(i, n)

Spec == Init /\ [][Next]_owner
=============================================================================
