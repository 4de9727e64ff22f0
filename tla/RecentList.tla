------------------------------- MODULE RecentList -------------------------------
(***************************************************************************)
(* The list of recent transcripts of static/index.html (loadTranscripts,   *)
(* retryTranscript) and the interval that refreshes it while something in  *)
(* it is under way.  Lists arrive in any order, late, or not at all.  A    *)
(* transcript may stay pending or processing for ever.                     *)
(*                                                                         *)
(* Of a list the script tells apart whether it is empty and whether        *)
(* anything in it is pending or processing.  Two fetches that wait, or     *)
(* carry the same list, at the same time count as one.  What else reloads  *)
(* the list (the Refresh button, each status that SubmitForm receives) may *)
(* do so at any time, a bounded number of times.                           *)
(***************************************************************************)
EXTENDS Naturals, FiniteSets

CONSTANTS
    MaxPosted,      \* bound: transcripts that this page or another client posts
    PageLength,     \* page_size of the list (10 in the source)
    MaxLoads,       \* bound: reloads and retry calls from outside the list
    MaxMissing      \* bound: lists that do not arrive

(* Transcripts are numbered in the order of their created_at.               *)
Posted == 1 .. MaxPosted

ASSUME ListAssumption ==
    /\ MaxPosted \in Nat /\ PageLength \in Nat \ {0}
    /\ MaxLoads \in Nat /\ MaxMissing \in Nat

VARIABLES
    row,            \* row[t]: the transcript on the server
    lists,          \* list fetches in flight
    listed,         \* what transcriptsList shows
    listTimer,      \* a live interval refreshes the list
    listHandle,     \* transcriptsPollInterval is not null
    retrying,       \* a retry call has succeeded, its answer is under way
    loads,          \* how many reloads and retries there were so far
    missing         \* how many answers were lost so far

listVars == <<row, lists, listed, listTimer, listHandle, retrying, loads, missing>>

Lists == {"none", "active", "quiet"}

(* Types; and the handle is null exactly when no interval is live.          *)
ListTypeOK ==
    /\ row \in [Posted -> {"absent", "active", "completed", "failed"}]
    /\ lists \subseteq {"waiting"} \cup Lists
    /\ listed \in {"loading", "error"} \cup Lists
    /\ listTimer \in BOOLEAN /\ listHandle = listTimer /\ retrying \in BOOLEAN
    /\ loads \in 0 .. MaxLoads /\ missing \in 0 .. MaxMissing

(* DOMContentLoaded loads the list.                                         *)
ListInit ==
    /\ row = [t \in Posted |-> "absent"]
    /\ lists = {"waiting"}
    /\ listed = "loading"
    /\ listTimer = FALSE /\ listHandle = FALSE /\ retrying = FALSE
    /\ loads = 0 /\ missing = 0

-------------------------------------------------------------------------------
(* The server.                                                              *)

PostRow(t) ==
    /\ row[t] = "absent"
    /\ row' = [row EXCEPT ![t] = "active"]
    /\ UNCHANGED <<lists, listed, listTimer, listHandle, retrying, loads, missing>>

(* The worker marks the transcript completed or failed, if it ever does.    *)
EndRow(t) ==
    /\ row[t] = "active"
    /\ \E outcome \in {"completed", "failed"} : row' = [row EXCEPT ![t] = outcome]
    /\ UNCHANGED <<lists, listed, listTimer, listHandle, retrying, loads, missing>>

(* A retry call of another client, one that its worker overtook included.   *)
ReopenRow(t) ==
    /\ row[t] \in {"completed", "failed"}
    /\ row' = [row EXCEPT ![t] = "active"]
    /\ UNCHANGED <<lists, listed, listTimer, listHandle, retrying, loads, missing>>

(* The page of the newest transcripts, of those that are committed.         *)
Shown(t) ==
    /\ row[t] # "absent"
    /\ Cardinality({ s \in Posted : s > t /\ row[s] # "absent" }) < PageLength

ShownActive(t) == Shown(t) /\ row[t] = "active"

Snapshot ==
    IF \A t \in Posted : row[t] = "absent" THEN "none"
    ELSE IF \E t \in Posted : ShownActive(t) THEN "active"
    ELSE "quiet"

AnswerList ==
    /\ "waiting" \in lists
    /\ lists' = (lists \ {"waiting"}) \cup {Snapshot}
    /\ UNCHANGED <<row, listed, listTimer, listHandle, retrying, loads, missing>>

(* An error answer has no items, which to the script is an empty list.      *)
AnswerListError ==
    /\ "waiting" \in lists
    /\ missing < MaxMissing
    /\ missing' = missing + 1
    /\ lists' = (lists \ {"waiting"}) \cup {"none"}
    /\ UNCHANGED <<row, listed, listTimer, listHandle, retrying, loads>>

-------------------------------------------------------------------------------
(* loadTranscripts.                                                         *)

LoadTranscripts == lists' = lists \cup {"waiting"}

ReloadList ==
    /\ loads < MaxLoads
    /\ loads' = loads + 1
    /\ LoadTranscripts
    /\ UNCHANGED <<row, listed, listTimer, listHandle, retrying, missing>>

RefreshList ==
    /\ listTimer
    /\ "waiting" \notin lists
    /\ LoadTranscripts
    /\ UNCHANGED <<row, listed, listTimer, listHandle, retrying, loads, missing>>

(* Mutants: the handle is not set to null when its interval is cleared; the *)
(* interval is never cleared.                                               *)
ReceiveListKeepingHandle(answer) ==
    /\ answer \in lists
    /\ lists' = lists \ {answer}
    /\ listed' = answer
    /\ CASE answer = "none"   -> UNCHANGED <<listTimer, listHandle>>
         [] answer = "active" -> /\ listTimer' = (listTimer \/ ~listHandle)
                                 /\ listHandle' = TRUE
         [] answer = "quiet"  -> listTimer' = FALSE /\ UNCHANGED listHandle
    /\ UNCHANGED <<row, retrying, loads, missing>>

ReceiveListForever(answer) ==
    /\ answer \in lists
    /\ lists' = lists \ {answer}
    /\ listed' = answer
    /\ IF answer = "active" THEN listTimer' = TRUE /\ listHandle' = TRUE
                            ELSE UNCHANGED <<listTimer, listHandle>>
    /\ UNCHANGED <<row, retrying, loads, missing>>

(* An empty list is shown without a look at the interval.                   *)
ReceiveList(answer) ==
    /\ answer \in lists
    /\ lists' = lists \ {answer}
    /\ listed' = answer
    /\ CASE answer = "none"   -> UNCHANGED <<listTimer, listHandle>>
         [] answer = "active" -> /\ listTimer' = (listTimer \/ ~listHandle)
                                 /\ listHandle' = TRUE
         [] answer = "quiet"  -> listTimer' = FALSE /\ listHandle' = FALSE
    /\ UNCHANGED <<row, retrying, loads, missing>>

LoseList ==
    /\ missing < MaxMissing
    /\ missing' = missing + 1
    /\ \E answer \in lists : lists' = lists \ {answer}
    /\ listed' = "error"
    /\ UNCHANGED <<row, listTimer, listHandle, retrying, loads>>

-------------------------------------------------------------------------------
(* retryTranscript, for a transcript that is failed.  (The button of a list *)
(* out of date calls the endpoint as well, is refused, and changes nothing.)*)

ClickRetry(t) ==
    /\ loads < MaxLoads
    /\ loads' = loads + 1
    /\ row[t] = "failed"
    /\ row' = [row EXCEPT ![t] = "active"]
    /\ retrying' = TRUE
    /\ UNCHANGED <<lists, listed, listTimer, listHandle, missing>>

ReceiveRetry ==
    /\ retrying
    /\ retrying' = FALSE
    /\ LoadTranscripts
    /\ UNCHANGED <<row, listed, listTimer, listHandle, loads, missing>>

LoseRetry ==
    /\ retrying
    /\ missing < MaxMissing
    /\ missing' = missing + 1
    /\ retrying' = FALSE
    /\ UNCHANGED <<row, lists, listed, listTimer, listHandle, loads>>

-------------------------------------------------------------------------------

ListNext ==
    \/ \E t \in Posted : PostRow(t) \/ EndRow(t) \/ ReopenRow(t) \/ ClickRetry(t)
    \/ \E answer \in Lists : ReceiveList(answer)
    \/ AnswerList \/ AnswerListError \/ ReloadList \/ RefreshList \/ LoseList
    \/ ReceiveRetry \/ LoseRetry

(* The server answers, what is not lost arrives, and the interval fires.    *)
(* Whether a transcript ever ends is left open.                             *)
ListFairness ==
    /\ WF_listVars(AnswerList) /\ WF_listVars(RefreshList) /\ WF_listVars(ReceiveRetry)
    /\ \A answer \in Lists : WF_listVars(ReceiveList(answer))

ListSpec == ListInit /\ [][ListNext]_listVars /\ ListFairness

-------------------------------------------------------------------------------

(* A list that shows a transcript under way is replaced by one that does    *)
(* not, unless there is such a transcript on the page again and again: an   *)
(* older list that arrives last starts the interval once more, and a row    *)
(* pushed off the page, an error or an empty answer does not leave the      *)
(* spinner behind (loadTranscripts, "Auto-poll if any are still in          *)
(* progress").                                                              *)
SpinnerEnds == []<>(listed # "active") \/ \E t \in Posted : []<>ShownActive(t)

(* The interval goes on for ever only for a transcript under way that is on *)
(* the page again and again (loadTranscripts).                              *)
RefreshingEnds == <>[]~listTimer \/ \E t \in Posted : []<>ShownActive(t)
===============================================================================
