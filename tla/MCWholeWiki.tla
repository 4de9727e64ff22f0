------------------------------ MODULE MCWholeWiki ------------------------------
(***************************************************************************)
(* A small instance of WholeWiki for TLC.                                  *)
(***************************************************************************)
EXTENDS WholeWiki

CONSTANTS t1, t2, alice, budget, people, topics, profile, overview

(* Both transcripts speak of the same person, and one of a topic as well.   *)
SharedPerson ==
    [t \in Transcripts |->
        { [entities |-> IF t = t1 THEN <<alice, budget>> ELSE <<alice>>,
           relationships |-> {}] }]

Layout ==
    [k \in Keys |-> IF k = alice THEN <<people, alice, profile>>
                                 ELSE <<topics, budget, overview>>]

Alphabetical == [k \in Keys |-> IF k = alice THEN 1 ELSE 2]

(* The directory of the people, and the file of the one whom all speak of.  *)
SomePaths == { <<topics, "..", people>>, <<people, alice, profile>> }
===============================================================================
