------------------------------ MODULE MCExtraction ------------------------------
(***************************************************************************)
(* Replies with up to four people and up to two topics.                    *)
(***************************************************************************)
EXTENDS LlmExtraction

CONSTANTS anna, longname, blank, spaces

UpTo(n, S) == UNION { [1 .. m -> S] : m \in 0 .. n }

ShortReplies ==
    [people : UpTo(4, Mentions), topics : {<< >>, <<anna>>}, event : {FALSE}]
        \cup [people : {<< >>, <<anna>>}, topics : UpTo(2, Mentions), event : BOOLEAN]
===============================================================================
