------------------------------ MODULE MemoryTree ------------------------------
(***************************************************************************)
(* What the memory wiki promises of its files: a person or a topic         *)
(* accumulates what every transcript says of it, each contribution added   *)
(* to all the earlier ones in one indivisible step and none ever lost,     *)
(* while an event's file tells of one transcript.  How a contribution gets *)
(* there (a read, an LLM call, a write, retries) is not visible here.      *)
(***************************************************************************)
EXTENDS MemoryKeys

VARIABLE
    tree        \* tree[k]: the transcripts whose facts file k holds, {} if no file

Init == tree = [k \in Keys |-> {}]

Merge(k, t) == k \in MergedKeys /\ tree' = [tree EXCEPT ![k] = @ \cup {t}]

Record(k, t) == k \in EventKeys /\ tree' = [tree EXCEPT ![k] = {t}]

Next == \E k \in Keys, t \in Transcripts : Merge(k, t) \/ Record(k, t)

Spec == Init /\ [][Next]_tree
===============================================================================
