------------------------------ MODULE MemoryKeys ------------------------------
(***************************************************************************)
(* How the memory wiki names what it stores: transcripts and memory files. *)
(*                                                                         *)
(* An LLM extraction speaks of entities: people, topics and at most one    *)
(* event.  A person or a topic is stored under its slug, one file that     *)
(* every transcript merges into, so here it is its own key.  An event is   *)
(* stored under "<date>_<title slug>", and an event without a date takes   *)
(* the day on which the name happens to be computed.                       *)
(***************************************************************************)
EXTENDS Naturals, Sequences, FiniteSets

CONSTANTS
    Transcripts,    \* ids of the transcripts clients may create
    People,     \* slugs of people
    Topics,     \* slugs of topics
    Titles,     \* title slugs of events (already cut to 50 characters)
    LastDay,    \* bound: days are 0 .. LastDay
    NoDate      \* the date of an event the LLM gave none

Days == 0 .. LastDay

Events == [title : Titles, date : Days \cup {NoDate}]

(* Entities kept in one file per slug, created once and then merged into.  *)
MergedKeys == People \cup Topics

Entities == MergedKeys \cup Events

EventKeys == [title : Titles, date : Days]

Keys == MergedKeys \cup EventKeys

ASSUME TranscriptsAssumption == Transcripts # {}

ASSUME DaysAssumption == LastDay \in Nat /\ NoDate \notin Days

ASSUME KeysAssumption == MergedKeys \cap (Events \cup EventKeys) = {}

(* The name of an event's file, computed on day today.                     *)
MakeEventSlug(event, today) ==
    [title |-> event.title,
     date  |-> IF event.date = NoDate THEN today ELSE event.date]

EntityKey(entity, today) ==
    IF entity \in MergedKeys THEN entity ELSE MakeEventSlug(entity, today)

(* Two keys for the same thing, up to the day an event was named on.       *)
SameUpToDate(k1, k2) ==
    \/ k1 = k2
    \/ k1 \in EventKeys /\ k2 \in EventKeys /\ k1.title = k2.title

(* What MemoryExtractor.extract may return: the entities in the order the  *)
(* pipeline walks them, and the relationships for the graph.               *)
ExtractionsOver(Relations) ==
    [entities : Seq(Entities), relationships : SUBSET Relations]

(* People first, then topics, then at most one event.                      *)
InPipelineOrder(entities) ==
    \A i, j \in DOMAIN entities :
        i < j => /\ entities[i] \notin Events
                 /\ entities[i] \in Topics => entities[j] \notin People
===============================================================================
