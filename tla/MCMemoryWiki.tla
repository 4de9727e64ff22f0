----------------------------- MODULE MCMemoryWiki -----------------------------
(***************************************************************************)
(* Small instances of MemoryWiki for TLC.                                  *)
(***************************************************************************)
EXTENDS DocumentedClaims, TLC

CONSTANTS t1, t2, alice, budget, launch, knows

Undated == [title |-> launch, date |-> NoDate]

Extraction(entities, relationships) ==
    [entities |-> entities, relationships |-> relationships]

(* Both transcripts speak of the same person; the first also holds a topic  *)
(* or an undated event, as the LLM pleases.                                 *)
SharedPerson ==
    [t \in Transcripts |->
        IF t = t1 THEN { Extraction(<<alice, budget>>, {knows}),
                         Extraction(<<alice, Undated>>, {}) }
                  ELSE { Extraction(<<alice>>, {knows}) }]

(* One person each, or only a nameless one: what is left of a job when its  *)
(* files do not matter.                                                     *)
OnePerson ==
    [t \in Transcripts |-> { Extraction(<<alice>>, {}), Extraction(<< >>, {}) }]

(* The LLM gives the meeting no date.                                       *)
UndatedMeeting == [t \in Transcripts |-> { Extraction(<<Undated>>, {}) }]

(* Workers are alike, and so are calls of the retry endpoint.               *)
Alike == Permutations(Workers) \cup Permutations(Requests)
===============================================================================
