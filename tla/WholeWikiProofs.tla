---------------------------- MODULE WholeWikiProofs ----------------------------
(***************************************************************************)
(* Proofs about the whole wiki with one worker: what ReadProofs shows of   *)
(* the memory endpoints over an abstract tree holds of the pipeline's      *)
(* files, and what a client was told is completed it finds from then on.   *)
(***************************************************************************)
EXTENDS WholeWiki, SoleWorkerProofs

R == INSTANCE ReadProofs WITH tree <- mem

-------------------------------------------------------------------------------
(* What ReadProofs assumes, and the names under which it knows the readers. *)

LEMMA Assumptions ==
    /\ R!NamesAssumption
    /\ R!PathsAssumption
    /\ R!TranscriptsAssumption
    /\ R!DaysAssumption
    /\ R!KeysAssumption
  BY ReadersAssumption, TranscriptsAssumption, DaysAssumption, KeysAssumption
  DEF R!NamesAssumption, R!PathsAssumption, R!TranscriptsAssumption, R!DaysAssumption,
      R!KeysAssumption, Reads!NamesAssumption, Reads!PathsAssumption,
      R!Dots, Reads!Dots, R!Below, Reads!Below, R!RawPaths, Reads!RawPaths,
      R!Keys, Reads!Keys, R!MergedKeys, Reads!MergedKeys, R!EventKeys, Reads!EventKeys,
      R!Events, Events, R!Days, Reads!Days, MergedKeys, EventKeys, Days,
      TranscriptsAssumption, DaysAssumption, KeysAssumption

LEMMA SameSets ==
    /\ R!Keys = Keys /\ Reads!Keys = Keys
    /\ R!MergedKeys = MergedKeys /\ Reads!MergedKeys = MergedKeys
    /\ R!Dots = Reads!Dots
  BY DEF R!Keys, Reads!Keys, Keys, R!MergedKeys, Reads!MergedKeys, MergedKeys,
         R!EventKeys, Reads!EventKeys, EventKeys, R!Days, Reads!Days, Days, R!Dots, Reads!Dots

LEMMA SameSteps ==
    ASSUME NEW c \in Clients
    PROVE  Reads!Ask(c) \/ Reads!ReadStep(c) \/ Reads!ReadFails(c) \/ Reads!TakeIn(c) <=>
           R!Ask(c) \/ R!ReadStep(c) \/ R!ReadFails(c) \/ R!TakeIn(c)
  <1>. USE SameSets DEF R!Goto, Reads!Goto, R!Keep, Reads!Keep
  <1>1. R!NoCall = Reads!NoCall
    BY DEF R!NoCall, Reads!NoCall
  <1>2. Reads!Ask(c) <=> R!Ask(c)
    BY <1>1 DEF Reads!Ask, R!Ask
  <1>3. Reads!TakeIn(c) <=> R!TakeIn(c)
    BY <1>1 DEF Reads!TakeIn, R!TakeIn, Reads!Told, R!Told, Reads!Facts, R!Facts
  <1>4. Reads!ReadFails(c) <=> R!ReadFails(c)
    BY DEF Reads!ReadFails, R!ReadFails
  <1>5. ASSUME NEW path PROVE Reads!Normalize(path) = R!Normalize(path)
    BY DEF Reads!Normalize, R!Normalize, Reads!Walk, R!Walk, Reads!Pop, R!Pop
  <1>6. Reads!Resolve(c) <=> R!Resolve(c)
    BY <1>5 DEF Reads!Resolve, R!Resolve
  <1>7. Reads!GetObject(c) <=> R!GetObject(c)
    BY DEF Reads!GetObject, R!GetObject, Reads!Exists, R!Exists
  <1>8. Reads!ToList(c) = R!ToList(c)
    BY DEF Reads!ToList, R!ToList, Reads!Exists, R!Exists, Reads!InScope, R!InScope,
           Reads!Below, R!Below
  <1>9. Reads!ListPage(c) <=> R!ListPage(c)
    BY <1>8 DEF Reads!ListPage, R!ListPage
  <1>10. Reads!ReadListed(c) <=> R!ReadListed(c)
    BY DEF Reads!ReadListed, R!ReadListed
  <1>11. Reads!EndPage(c) <=> R!EndPage(c)
    BY DEF Reads!EndPage, R!EndPage
  <1>. QED  BY <1>2, <1>3, <1>4, <1>6, <1>7, <1>9, <1>10, <1>11 DEF Reads!ReadStep, R!ReadStep

(* The files change for the readers as the memory tree does for the writers.*)
LEMMA SameTree ==
    /\ Reads!Tree!Init <=> Tree!Init
    /\ Reads!Tree!Next <=> Tree!Next
    /\ R!Tree!Init <=> Tree!Init
    /\ R!Tree!Next <=> Tree!Next
  BY DEF Tree!Init, Tree!Next, Tree!Merge, Tree!Record, Tree!Keys, Tree!MergedKeys,
         Tree!EventKeys, Tree!Days,
         Reads!Tree!Init, Reads!Tree!Next, Reads!Tree!Merge, Reads!Tree!Record,
         Reads!Tree!Keys, Reads!Tree!MergedKeys, Reads!Tree!EventKeys, Reads!Tree!Days,
         R!Tree!Init, R!Tree!Next, R!Tree!Merge, R!Tree!Record, R!Tree!Keys,
         R!Tree!MergedKeys, R!Tree!EventKeys, R!Tree!Days

LEMMA SameInit == Reads!ReadsInit <=> R!ReadsInit
  BY SameTree, SameSets DEF Reads!ReadsInit, R!ReadsInit, Reads!NoCall, R!NoCall

LEMMA SameNext == [Reads!ReadsNext]_(Reads!readsVars) <=> [R!ReadsNext]_(R!readsVars)
  BY SameTree, SameSteps DEF Reads!ReadsNext, R!ReadsNext, Reads!readsVars, R!readsVars

LEMMA SameReaders == Reads!ReadsSpec <=> R!ReadsSpec
  BY SameInit, SameNext, PTL DEF Reads!ReadsSpec, R!ReadsSpec

-------------------------------------------------------------------------------
(* The composition.                                                         *)

(* A step of the whole is a step of the writers, or of one reader.          *)
LEMMA WholeStep ==
    ASSUME [WholeNext]_wholeVars
    PROVE  \/ [Next]_vars /\ UNCHANGED <<at, call, known, learned>>
           \/ \E c \in Clients : SeeCompleted(c) /\ UNCHANGED vars
           \/ \E c \in Clients :
                 /\ R!Ask(c) \/ R!ReadStep(c) \/ R!ReadFails(c) \/ R!TakeIn(c)
                 /\ UNCHANGED <<vars, learned>>
  BY SameSteps DEF WholeNext, wholeVars, SeeCompleted, CallStep

(* The writers do not notice the readers.                                   *)
LEMMA WritersAlone == WholeSpec => Spec
  <1>1. WholeInit => Init
    BY DEF WholeInit
  <1>2. [WholeNext]_wholeVars => [Next]_vars
    BY WholeStep
  <1>. QED  BY <1>1, <1>2, PTL DEF WholeSpec, Spec

(* The files that one worker writes are for the readers of the memory       *)
(* endpoints the memory tree that MemoryReads assumes: the composition      *)
(* implements MemoryReads, all of whose guarantees it inherits, for any     *)
(* number of clients, transcripts, entities, crashes and retries.           *)
THEOREM ReadersAreServed == ASSUME OneWorker PROVE WholeSpec => ReadersSeeTree
  <1>1. WholeInit => Reads!ReadsInit
    BY DEF WholeInit
  <1>2. SoleInv /\ [WholeNext]_wholeVars => [Reads!ReadsNext]_(Reads!readsVars)
    <2>. SUFFICES ASSUME SoleInv, [WholeNext]_wholeVars
                  PROVE  [R!ReadsNext]_(R!readsVars)
      BY SameNext
    <2>1. CASE [Next]_vars /\ UNCHANGED <<at, call, known, learned>>
      <3>1. [Tree!Next]_mem
        BY <2>1, TreeStep DEF SoleInv
      <3>. QED  BY <2>1, <3>1, SameTree DEF R!ReadsNext, R!readsVars
    <2>2. CASE \E c \in Clients : SeeCompleted(c) /\ UNCHANGED vars
      BY <2>2 DEF SeeCompleted, R!readsVars, vars, pipelineVars, fileVars
    <2>3. CASE \E c \in Clients : R!Ask(c) \/ R!ReadStep(c) \/ R!ReadFails(c) \/ R!TakeIn(c)
      BY <2>3 DEF R!ReadsNext
    <2>. QED  BY <2>1, <2>2, <2>3, WholeStep
  <1>. QED  BY <1>1, <1>2, WritersAlone, SoleInvariant, PTL
            DEF WholeSpec, ReadersSeeTree, Reads!ReadsSpec

LEMMA ReadersInvariant == ASSUME OneWorker PROVE WholeSpec => []R!ReadsInv
  BY Assumptions, ReadersAreServed, SameReaders, R!ReadsInvariant, PTL DEF ReadersSeeTree

-------------------------------------------------------------------------------
(* What a client was told is completed.                                     *)

LEMMA FoundInit == WholeInit => FoundInv
  BY DEF WholeInit, FoundInv

(* What was filed stays filed while the writers go on.                      *)
LEMMA WritersFind ==
    ASSUME OneWorker, SoleInv, FoundInv, [Next]_vars, UNCHANGED <<at, call, known, learned>>
    PROVE  FoundInv'
  <1>1. \A k \in MergedKeys : mem[k] \subseteq mem'[k]
    BY MergedGrows DEF SoleInv
  <1>. QED  BY <1>1 DEF FoundInv, Filed

(* A client learns what CompletedFiled says, between two calls.             *)
LEMMA LearnerFinds ==
    ASSUME SoleInv, FoundInv, NEW c \in Clients, SeeCompleted(c), UNCHANGED vars
    PROVE  FoundInv'
  <1>1. PICK t \in Transcripts :
           status[t] = "completed" /\ learned' = [learned EXCEPT ![c] = @ \cup {t}]
    BY DEF SeeCompleted
  <1>2. PICK x \in Extractions[t] : \A i \in DOMAIN x.entities : Filed(x.entities[i], t)
    BY <1>1 DEF SoleInv, FiledInv, CompletedFiled
  <1>3. UNCHANGED <<at, call, mem>> /\ at[c] = "idle"
    BY DEF SeeCompleted, vars, pipelineVars, fileVars
  <1>4. learned' \in [Clients -> SUBSET Transcripts]
    BY <1>1 DEF FoundInv
  <1>5. ASSUME NEW d \in Clients, NEW u \in learned'[d]
        PROVE  \E y \in Extractions[u] : \A i \in DOMAIN y.entities :
                  /\ Filed(y.entities[i], u)'
                  /\ at'[d] \notin {"idle", "asked"} /\ y.entities[i] \in MergedKeys =>
                        u \in call'[d].base[y.entities[i]]
    <2>1. CASE u \in learned[d]
      BY <1>3, <2>1 DEF FoundInv, Filed
    <2>2. CASE u \notin learned[d]
      <3>1. d = c /\ u = t
        BY <1>1, <2>2 DEF FoundInv
      <3>. QED  BY <1>2, <1>3, <3>1 DEF Filed
    <2>. QED  BY <2>1, <2>2
  <1>. QED  BY <1>4, <1>5 DEF FoundInv

(* A call that begins remembers files in which it is filed.                 *)
LEMMA CallersFind ==
    ASSUME R!ReadsInv, FoundInv, NEW d \in Clients,
           R!Ask(d) \/ R!ReadStep(d) \/ R!ReadFails(d) \/ R!TakeIn(d),
           UNCHANGED <<vars, learned>>
    PROVE  FoundInv'
  <1>1. UNCHANGED <<mem, learned>>
    BY DEF vars, pipelineVars, fileVars
  <1>2. ASSUME NEW c \in Clients
        PROVE  \/ at'[c] \in {"idle", "asked"}
               \/ at[c] = "asked" /\ call'[c].base = mem
               \/ at[c] \notin {"idle", "asked"} /\ call'[c].base = call[c].base
    BY Assumptions, R!BaseIsKept
  <1>3. ASSUME NEW c \in Clients, NEW t \in learned[c]
        PROVE  \E x \in Extractions[t] : \A i \in DOMAIN x.entities :
                  /\ Filed(x.entities[i], t)'
                  /\ at'[c] \notin {"idle", "asked"} /\ x.entities[i] \in MergedKeys =>
                        t \in call'[c].base[x.entities[i]]
    <2>1. PICK x \in Extractions[t] : \A i \in DOMAIN x.entities :
              /\ Filed(x.entities[i], t)
              /\ at[c] \notin {"idle", "asked"} /\ x.entities[i] \in MergedKeys =>
                    t \in call[c].base[x.entities[i]]
      BY DEF FoundInv
    <2>. QED  BY <1>1, <1>2, <2>1 DEF Filed
  <1>. QED  BY <1>1, <1>3 DEF FoundInv

LEMMA FoundStep ==
    ASSUME OneWorker
    PROVE  SoleInv /\ R!ReadsInv /\ FoundInv /\ [WholeNext]_wholeVars => FoundInv'
  <1>. SUFFICES ASSUME SoleInv, R!ReadsInv, FoundInv, [WholeNext]_wholeVars PROVE FoundInv'
    OBVIOUS
  <1>. QED  BY WholeStep, WritersFind, LearnerFinds, CallersFind

(* What the files held when a call began, its answer shows.                 *)
LEMMA FoundImplies == R!ReadsInv /\ FoundInv => CompletedIsFound
  <1>. SUFFICES ASSUME R!ReadsInv, FoundInv, NEW c \in Clients, NEW t \in learned[c]
                PROVE  \E x \in Extractions[t] : \A i \in DOMAIN x.entities :
                          x.entities[i] \in MergedKeys => Shows(c, x.entities[i], t)
    BY DEF CompletedIsFound
  <1>1. PICK x \in Extractions[t] : \A i \in DOMAIN x.entities :
            at[c] \notin {"idle", "asked"} /\ x.entities[i] \in MergedKeys =>
                t \in call[c].base[x.entities[i]]
    BY DEF FoundInv
  <1>2. ASSUME NEW k \in MergedKeys, at[c] \notin {"idle", "asked"} => t \in call[c].base[k]
        PROVE  Shows(c, k, t)
    <2>1. CASE at[c] \in {"idle", "asked"}
      BY <2>1 DEF Shows, Reads!Answered
    <2>2. CASE at[c] \notin {"idle", "asked"}
      <3>1. k \in R!MergedKeys /\ t \in call[c].base[k]
        BY <1>2, <2>2, SameSets
      <3>2. /\ R!Answered(c, "ls") /\ R!InScope(c, k) =>
                  R!Child(call[c].dir, PathOf[k]) \in R!Entries(c)
            /\ R!Answered(c, "grep") /\ R!InScope(c, k) /\ call[c].word = t =>
                  k \in call[c].found
            /\ R!Answered(c, "cat") /\ PathOf[k] = call[c].dir =>
                  call[c].found = {k} /\ t \in call[c].text
        BY <3>1, Assumptions, R!BaseIsShown
      <3>3. R!InScope(c, k) <=> Reads!InScope(c, k)
        BY DEF R!InScope, Reads!InScope, R!Below, Reads!Below
      <3>4. R!Entries(c) = Reads!Entries(c)
        BY DEF R!Entries, Reads!Entries, R!Child, Reads!Child
      <3>5. R!Child(call[c].dir, PathOf[k]) = Reads!Child(call[c].dir, PathOf[k])
        BY DEF R!Child, Reads!Child
      <3>. QED  BY <3>2, <3>3, <3>4, <3>5 DEF Shows, R!Answered, Reads!Answered
    <2>. QED  BY <2>1, <2>2
  <1>. QED  BY <1>1, <1>2

(* With one worker, once a client has seen a transcript completed, every    *)
(* later ls, cat and grep shows the files of the people and topics of one   *)
(* extraction with the transcript in them, for any number of clients,       *)
(* pages, writers' steps and crashes in between.                            *)
THEOREM WhatIsCompletedIsFound == ASSUME OneWorker PROVE WholeSpec => []CompletedIsFound
  <1>1. SoleInv /\ R!ReadsInv /\ FoundInv /\ [WholeNext]_wholeVars => FoundInv'
    BY FoundStep
  <1>. QED  BY <1>1, FoundInit, FoundImplies, WritersAlone, SoleInvariant, ReadersInvariant, PTL
            DEF WholeSpec

(* The types of writers and readers side by side.                           *)
THEOREM WholeTypeCorrect == ASSUME OneWorker PROVE WholeSpec => []WholeTypeOK
  <1>1. R!ReadsInv => Reads!ReadsTypeOK
    BY SameSets
    DEF R!ReadsInv, R!ReadsTypeOK, Reads!ReadsTypeOK, R!Calls, Reads!Calls, R!Facts, Reads!Facts
  <1>2. SoleInv /\ R!ReadsInv /\ FoundInv => WholeTypeOK
    BY <1>1 DEF SoleInv, TypeInv, FoundInv, WholeTypeOK
  <1>3. SoleInv /\ R!ReadsInv /\ FoundInv /\ [WholeNext]_wholeVars => FoundInv'
    BY FoundStep
  <1>. QED  BY <1>2, <1>3, FoundInit, WritersAlone, SoleInvariant, ReadersInvariant, PTL
            DEF WholeSpec
===============================================================================
