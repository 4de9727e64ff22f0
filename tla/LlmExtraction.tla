----------------------------- MODULE LlmExtraction -----------------------------
(***************************************************************************)
(* One call of MemoryExtractor.extract, which MemoryPipeline takes as one  *)
(* step: generate_json asks the LLM up to three times, _parse_extraction   *)
(* types the reply, and _validate_extraction counts the entities and then  *)
(* removes the nameless ones from the lists that it iterates over.         *)
(*                                                                         *)
(* A reply lists people, then topics, and may tell of an event.  Of an     *)
(* entry matter whether it has a name and whether its slug is over 100     *)
(* characters; equal entries are equal dataclasses.                        *)
(***************************************************************************)
EXTENDS Naturals, Sequences, FiniteSets, SequencesExt

CONSTANTS
    Mentions,       \* entries the LLM may list
    Nameless,       \* those whose name is empty or blank
    LongSlugs,      \* those whose slug is over 100 characters
    Replies,        \* the replies the LLM may give
    NoReply,
    MaxAttempts     \* stop_after_attempt (3 in the source)

EntityLists == {"people", "topics"}

ASSUME ExtractionAssumption ==
    /\ Nameless \subseteq Mentions
    /\ LongSlugs \subseteq Mentions
    /\ Replies \subseteq [people : Seq(Mentions), topics : Seq(Mentions), event : BOOLEAN]
    /\ NoReply \notin Replies
    /\ MaxAttempts \in Nat \ {0}

VARIABLES
    stage,      \* where the call stands
    attempt,    \* which attempt of generate_json
    reply,      \* the reply that was parsed
    left,       \* left[l]: list l as validated so far; cut: its slug was shortened
    next,       \* next[l]: index of the iterator over list l
    limit,      \* the soft time limit: it strikes once
    outcome     \* what extract returned or raised, by its class

extractVars == <<stage, attempt, reply, left, next, limit, outcome>>

ListItems == [entry : Mentions, cut : BOOLEAN]

ExtractTypeOK ==
    /\ stage \in {"ask", "pause", "parse", "people", "topics", "done"}
    /\ attempt \in 1 .. MaxAttempts
    /\ reply \in Replies \cup {NoReply}
    /\ left \in [EntityLists -> Seq(ListItems)]
    /\ next \in [EntityLists -> Nat \ {0}]
    /\ limit \in {"ahead", "struck"}
    /\ outcome \in {"none", "extraction", "value_error", "retry_error", "exception", "timeout"}

ExtractInit ==
    /\ stage = "ask"
    /\ attempt = 1
    /\ reply = NoReply
    /\ left = [l \in EntityLists |-> << >>]
    /\ next = [l \in EntityLists |-> 1]
    /\ limit = "ahead"
    /\ outcome = "none"

End(class) == stage' = "done" /\ outcome' = class

-------------------------------------------------------------------------------
(* generate_json: three attempts with pauses between them.                  *)

Answer ==
    /\ stage = "ask"
    /\ reply' \in Replies
    /\ stage' = "parse"
    /\ UNCHANGED <<attempt, left, next, limit, outcome>>

(* Mutant: the last exception is raised itself (reraise).                   *)
FailReraising(kind) ==
    /\ stage = "ask"
    /\ IF attempt < MaxAttempts
       THEN stage' = "pause" /\ UNCHANGED outcome
       ELSE End(IF kind = "not_json" THEN "value_error" ELSE "exception")
    /\ limit' = IF kind = "soft_limit" THEN "struck" ELSE limit
    /\ UNCHANGED <<attempt, reply, left, next>>

(* An attempt fails.  Every exception is retried, and the last is wrapped   *)
(* in tenacity's RetryError.                                                *)
Fail(kind) ==
    /\ stage = "ask"
    /\ IF attempt < MaxAttempts
       THEN stage' = "pause" /\ UNCHANGED outcome
       ELSE End("retry_error")
    /\ limit' = IF kind = "soft_limit" THEN "struck" ELSE limit
    /\ UNCHANGED <<attempt, reply, left, next>>

(* The provider refuses, or the reply is no JSON (a ValueError), or empty.  *)
AttemptFails == \E kind \in {"refused", "not_json", "empty"} : Fail(kind)

(* SoftTimeLimitExceeded in the middle of an attempt is retried as well.    *)
LimitSwallowed == limit = "ahead" /\ Fail("soft_limit")

(* Mutant: attempts are not counted.                                        *)
TryAnewUncounted ==
    /\ stage = "pause"
    /\ stage' = "ask"
    /\ UNCHANGED <<attempt, reply, left, next, limit, outcome>>

TryAnew ==
    /\ stage = "pause"
    /\ stage' = "ask"
    /\ attempt' = attempt + 1
    /\ UNCHANGED <<reply, left, next, limit, outcome>>

(* Anywhere else the time limit ends the extraction.                        *)
LimitStrikes ==
    /\ stage \in {"pause", "parse", "people", "topics"}
    /\ limit = "ahead"
    /\ limit' = "struck"
    /\ End("timeout")
    /\ UNCHANGED <<attempt, reply, left, next>>

-------------------------------------------------------------------------------
(* _parse_extraction and the count at the head of _validate_extraction.     *)

Uncut(entries) == [i \in DOMAIN entries |-> [entry |-> entries[i], cut |-> FALSE]]

IsEmpty(r) == r.people = << >> /\ r.topics = << >> /\ ~r.event

(* JSON of another shape: a list for an object, null for a list or a slug.  *)
ParseFails ==
    /\ stage = "parse"
    /\ End("exception")
    /\ UNCHANGED <<attempt, reply, left, next, limit>>

(* Mutant: entries are taken as they come, without their dataclasses.       *)
ParseUntyped ==
    /\ stage = "parse"
    /\ left' = [people |-> reply.people, topics |-> reply.topics]
    /\ stage' = "people"
    /\ UNCHANGED <<attempt, reply, next, limit, outcome>>

Parse ==
    /\ stage = "parse"
    /\ left' = [people |-> Uncut(reply.people), topics |-> Uncut(reply.topics)]
    /\ IF IsEmpty(reply) THEN End("value_error")
                         ELSE stage' = "people" /\ UNCHANGED outcome
    /\ UNCHANGED <<attempt, reply, next, limit>>

-------------------------------------------------------------------------------
(* The loops over people and over topics.                                   *)

(* Mutant: the last entry is removed.                                       *)
ExamineLast(l) ==
    /\ stage = l
    /\ next[l] \in DOMAIN left[l]
    /\ LET item == left[l][next[l]] IN
       left' = [left EXCEPT ![l] =
                  IF item.entry \in Nameless THEN Front(@)
                  ELSE [@ EXCEPT ![next[l]].cut = item.entry \in LongSlugs]]
    /\ next' = [next EXCEPT ![l] = @ + 1]
    /\ UNCHANGED <<stage, attempt, reply, limit, outcome>>

(* list.remove takes out the first equal entry, and what follows moves up,  *)
(* under an iterator that moves on.                                         *)
Examine(l) ==
    /\ stage = l
    /\ next[l] \in DOMAIN left[l]
    /\ LET item == left[l][next[l]] IN
       left' = [left EXCEPT ![l] =
                  IF item.entry \in Nameless THEN RemoveFirst(@, item)
                  ELSE [@ EXCEPT ![next[l]].cut = item.entry \in LongSlugs]]
    /\ next' = [next EXCEPT ![l] = @ + 1]
    /\ UNCHANGED <<stage, attempt, reply, limit, outcome>>

(* The name is no string: strip() raises AttributeError.                    *)
ExamineFails(l) ==
    /\ stage = l
    /\ next[l] \in DOMAIN left[l]
    /\ left[l][next[l]].entry \notin Nameless
    /\ End("exception")
    /\ UNCHANGED <<attempt, reply, left, next, limit>>

EndPeople ==
    /\ stage = "people"
    /\ next["people"] \notin DOMAIN left["people"]
    /\ stage' = "topics"
    /\ UNCHANGED <<attempt, reply, left, next, limit, outcome>>

EndTopics ==
    /\ stage = "topics"
    /\ next["topics"] \notin DOMAIN left["topics"]
    /\ End("extraction")
    /\ UNCHANGED <<attempt, reply, left, next, limit>>

-------------------------------------------------------------------------------

ExtractStep ==
    \/ Answer \/ AttemptFails \/ TryAnew \/ Parse \/ ParseFails
    \/ Examine("people") \/ ExamineFails("people") \/ EndPeople
    \/ Examine("topics") \/ ExamineFails("topics") \/ EndTopics

ExtractNext == ExtractStep \/ LimitSwallowed \/ LimitStrikes

(* The provider's client answers or gives up, and pauses end.               *)
ExtractSpec == ExtractInit /\ [][ExtractNext]_extractVars /\ WF_extractVars(ExtractStep)

-------------------------------------------------------------------------------

Reported(l) == IF l = "people" THEN reply.people ELSE reply.topics

(* Whether the iterator comes to entry i of a list: not if it has just      *)
(* removed the one before, for the rest has moved up.                       *)
Examined(entries) ==
    LET seen[i \in DOMAIN entries] ==
            i = 1 \/ ~(seen[i - 1] /\ entries[i - 1] \in Nameless)
    IN  seen

NamedPositions(entries) == { i \in DOMAIN entries : entries[i] \notin Nameless }

(* What becomes of the entry at position i of the list that was reported,   *)
(* once the iterator has come to position reach.                            *)
Validated(entries, i, reach) ==
    [entry |-> entries[i],
     cut   |-> entries[i] \in LongSlugs /\ Examined(entries)[i] /\ i < reach]

(* place keeps the named entries of a list, each in its form, in their      *)
(* order, and beside them are no other named ones.                          *)
KeepsNamed(place, entries, items, reach) ==
    /\ place \in [NamedPositions(entries) -> DOMAIN items]
    /\ \A i, j \in NamedPositions(entries) : i < j => place[i] < place[j]
    /\ \A p \in DOMAIN items : items[p].entry \notin Nameless =>
          \E i \in NamedPositions(entries) : place[i] = p
    /\ \A i \in NamedPositions(entries) : items[place[i]] = Validated(entries, i, reach)

(* Validation neither drops nor reorders an entry that has a name, although *)
(* it shortens the list under its own iterator, and although remove looks   *)
(* for an equal entry; it cuts the long slugs that the iterator came to,    *)
(* and those alone (_validate_extraction).                                  *)
NamedKept ==
    outcome = "extraction" =>
        \A l \in EntityLists :
            \E place \in [NamedPositions(Reported(l)) -> DOMAIN left[l]] :
                KeepsNamed(place, Reported(l), left[l], Len(Reported(l)) + 1)

(* "Validate entity names aren't empty" (extraction.py:218): a nameless     *)
(* entry is logged as skipped and removed, so that none reaches the         *)
(* pipeline.  The code does not keep this: the entry behind a removed one   *)
(* is never looked at.                                                      *)
NamelessRemoved ==
    outcome = "extraction" =>
        \A l \in EntityLists : \A p \in DOMAIN left[l] : left[l][p].entry \notin Nameless

(* What it does instead: of nameless entries in a row every other one stays *)
(* (_validate_extraction).                                                  *)
EveryOtherRemoved ==
    outcome = "extraction" =>
        \A l \in EntityLists :
            LET entries == Reported(l) IN
            Len(left[l]) = Cardinality({ i \in DOMAIN entries :
                               entries[i] \in Nameless => ~Examined(entries)[i] })

(* extract raises a ValueError, which the task takes for a permanent        *)
(* failure, only for a reply without entities; a reply that is no JSON is a *)
(* ValueError to json.loads and yet leads to a retry (client.py, tasks.py). *)
PermanentOnlyIfEmpty == outcome = "value_error" => reply # NoReply /\ IsEmpty(reply)

(* The list that was reported as entries has become items, and its iterator *)
(* stands at index n: it points to entry reach of those reported, and all   *)
(* from there on is as it was.  What was removed is what was examined and   *)
(* had no name.                                                             *)
Iterated(entries, items, n) ==
    LET removed == Len(entries) - Len(items)
        reach   == n + removed
    IN  /\ reach \in DOMAIN entries => Examined(entries)[reach]
        /\ removed = Cardinality({ i \in DOMAIN entries :
                         i < reach /\ entries[i] \in Nameless /\ Examined(entries)[i] })
        /\ \A i \in DOMAIN entries : i >= reach =>
              items[i - removed] = [entry |-> entries[i], cut |-> FALSE]
        /\ \E place \in [NamedPositions(entries) -> DOMAIN items] :
              /\ KeepsNamed(place, entries, items, reach)
              /\ \A i \in NamedPositions(entries) :
                    IF i < reach THEN place[i] < n ELSE place[i] = i - removed

(* Inductive.                                                               *)
ExtractInv ==
    /\ ExtractTypeOK
    /\ stage # "done" => outcome = "none"
    /\ stage = "pause" => attempt < MaxAttempts
    /\ stage \in {"ask", "pause", "parse"} => next = [l \in EntityLists |-> 1]
    /\ stage \in {"parse", "people", "topics"} => reply \in Replies
    /\ outcome \in {"extraction", "value_error"} => reply \in Replies
    /\ outcome = "value_error" => IsEmpty(reply)
    /\ stage \in {"people", "topics"} \/ outcome = "extraction" =>
          \A l \in EntityLists : Iterated(Reported(l), left[l], next[l])
    /\ stage = "topics" \/ outcome = "extraction" => next["people"] \notin DOMAIN left["people"]
    /\ outcome = "extraction" => next["topics"] \notin DOMAIN left["topics"]

(* The call ends, whatever fails and even if the time limit was swallowed.  *)
ExtractionEnds == []<>(stage = "done")
===============================================================================
