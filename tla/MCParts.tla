-------------------------------- MODULE MCParts --------------------------------
(***************************************************************************)
(* Small instances of the parts that are not the worker's pipeline: the    *)
(* memory endpoints (MemoryReads), the list of transcripts                 *)
(* (TranscriptPages), the start of the servers (ServerStart), the form and *)
(* the list of the web page (SubmitForm, RecentList) and the extraction    *)
(* (LlmExtraction).  No part writes the state of another, so TLC explores  *)
(* them one beside the other instead of interleaved: part says which one   *)
(* moves, and the others stand still where they start.                     *)
(***************************************************************************)
EXTENDS MemoryReads, TranscriptPages, ServerStart, SubmitForm, RecentList, MCExtraction, TLC

CONSTANTS t1, t2, alice, budget, launch, people, topics, events, profile, overview, minutes

VARIABLE part

mcVars == <<readsVars, pagesVars, startVars, formVars, listVars, extractVars, part>>

(* The event's key comes first in the bucket, then people, then topics.     *)
Layout ==
    [k \in Keys |-> CASE k = alice  -> <<people, alice, profile>>
                      [] k = budget -> <<topics, budget, overview>>
                      [] OTHER      -> <<events, minutes>>]

Alphabetical == [k \in Keys |-> CASE k = alice -> 2 [] k = budget -> 3 [] OTHER -> 1]

(* Bound: only the first transcript speaks of the topic; both speak of the  *)
(* person and of the event.                                                 *)
TopicOfOne == t2 \notin tree'[budget]

(* All short paths over one directory, and one path to each file.           *)
SomePaths ==
    UNION { [1 .. n -> {people} \cup Dots] : n \in 1 .. 3 }
        \cup { <<"", people, alice, profile>>, <<topics, budget, ".", overview>>,
               <<people, "..", events, "", minutes>> }

(* Where these parts stand still: no list was asked for, and there is no    *)
(* reply to examine.                                                        *)
ListAtRest ==
    /\ row = [t \in Posted |-> "absent"]
    /\ lists = {} /\ listed = "none"
    /\ listTimer = FALSE /\ listHandle = FALSE /\ retrying = FALSE
    /\ loads = 0 /\ missing = 0

ExtractOver ==
    /\ stage = "done" /\ outcome = "exception"
    /\ attempt = 1 /\ reply = NoReply /\ limit = "ahead"
    /\ left = [l \in EntityLists |-> << >>] /\ next = [l \in EntityLists |-> 1]

MCInit ==
    /\ part \in {"memories", "transcripts", "start", "form", "list", "extraction"}
    /\ ReadsInit /\ PagesInit /\ FormInit
    /\ StartInit /\ (part # "start" => schema /\ bucket)
    /\ IF part = "list" THEN ListInit ELSE ListAtRest
    /\ IF part = "extraction" THEN ExtractInit ELSE ExtractOver

MCNext ==
    /\ UNCHANGED part
    /\ \/ /\ part = "memories" /\ ReadsNext /\ TopicOfOne
          /\ UNCHANGED <<pagesVars, startVars, formVars, listVars, extractVars>>
       \/ /\ part = "transcripts" /\ PagesNext
          /\ UNCHANGED <<readsVars, startVars, formVars, listVars, extractVars>>
       \/ /\ part = "start" /\ StartNext
          /\ UNCHANGED <<readsVars, pagesVars, formVars, listVars, extractVars>>
       \/ /\ part = "form" /\ FormNext
          /\ UNCHANGED <<readsVars, pagesVars, startVars, listVars, extractVars>>
       \/ /\ part = "list" /\ ListNext
          /\ UNCHANGED <<readsVars, pagesVars, startVars, formVars, extractVars>>
       \/ /\ part = "extraction" /\ ExtractNext
          /\ UNCHANGED <<readsVars, pagesVars, startVars, formVars, listVars>>

(* The fairness of each part's own specification.  In a part that stands    *)
(* still no fair action is enabled: nothing was asked of the form, the list *)
(* or the extraction, and no server is launched.                            *)
MCSpec ==
    /\ MCInit /\ [][MCNext]_mcVars
    /\ StartFairness /\ FormFairness /\ ListFairness /\ WF_extractVars(ExtractStep)

(* Types of the parts.                                                      *)
PartTypes == ReadsTypeOK /\ PagesTypeOK /\ StartTypeOK /\ FormTypeOK /\ ListTypeOK /\ ExtractTypeOK
===============================================================================
