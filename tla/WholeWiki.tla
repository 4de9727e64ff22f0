-------------------------------- MODULE WholeWiki --------------------------------
(***************************************************************************)
(* The whole of the wiki: clients poll transcripts and call the memory     *)
(* endpoints (MemoryReads) while the write path (MemoryWiki) changes the   *)
(* files under them.  Readers and writers meet in the object store and in  *)
(* the status of a transcript, and nowhere else: what MemoryReads takes    *)
(* for the tree of an abstract writer are here the files of the pipeline.  *)
(***************************************************************************)
EXTENDS MemoryWiki

CONSTANTS Names, Clients, PathOf, Rank, Asked

VARIABLES
    at, call, known,    \* the clients of the memory endpoints: see MemoryReads
    learned             \* learned[c]: the transcripts c was told are completed

Reads == INSTANCE MemoryReads WITH tree <- mem

ASSUME ReadersAssumption == Reads!NamesAssumption /\ Reads!PathsAssumption

wholeVars == <<vars, at, call, known, learned>>

WholeTypeOK ==
    /\ TypeOK
    /\ Reads!ReadsTypeOK
    /\ learned \in [Clients -> SUBSET Transcripts]

WholeInit ==
    /\ Init
    /\ Reads!ReadsInit
    /\ learned = [c \in Clients |-> {}]

(* GET /transcripts/:id, of a client that waits for status completed before *)
(* it looks for what the transcript says.                                   *)
SeeCompleted(c) ==
    /\ at[c] = "idle"
    /\ \E t \in Transcripts :
          /\ status[t] = "completed"
          /\ learned' = [learned EXCEPT ![c] = @ \cup {t}]
    /\ UNCHANGED <<vars, at, call, known>>

CallStep(c) ==
    /\ Reads!Ask(c) \/ Reads!ReadStep(c) \/ Reads!ReadFails(c) \/ Reads!TakeIn(c)
    /\ UNCHANGED <<vars, learned>>

WholeNext ==
    \/ Next /\ UNCHANGED <<at, call, known, learned>>
    \/ \E c \in Clients : SeeCompleted(c) \/ CallStep(c)

WholeSpec == WholeInit /\ [][WholeNext]_wholeVars

-------------------------------------------------------------------------------

(* With one worker, as deployed, what the clients see of the files is what  *)
(* MemoryReads assumes of them, so that all it promises holds here.         *)
ReadersSeeTree == Reads!ReadsSpec

(* What the answer to c's call says of file k and transcript t is that the  *)
(* file is there, with t in it; or the call was about other things.         *)
Shows(c, k, t) ==
    /\ Reads!Answered(c, "ls") /\ Reads!InScope(c, k) =>
          Reads!Child(call[c].dir, PathOf[k]) \in Reads!Entries(c)
    /\ Reads!Answered(c, "grep") /\ Reads!InScope(c, k) /\ call[c].word = t =>
          k \in call[c].found
    /\ Reads!Answered(c, "cat") /\ PathOf[k] = call[c].dir =>
          call[c].found = {k} /\ t \in call[c].text

(* With one worker: once a client has seen a transcript completed, every    *)
(* later answer of the memory endpoints shows the files of the people and   *)
(* topics of one extraction, with the transcript in them: ls lists them,    *)
(* grep finds them and cat is no 404, whatever is written, retried, crashes *)
(* or is reset to pending meanwhile (get_transcript, list_directory,        *)
(* search_files, read_file after process).                                  *)
CompletedIsFound ==
    \A c \in Clients : \A t \in learned[c] :
        \E x \in Extractions[t] : \A i \in DOMAIN x.entities :
            x.entities[i] \in MergedKeys => Shows(c, x.entities[i], t)

(* Why: what is filed stays filed, and what the files held when a call      *)
(* began (base) was filed by then.  Inductive.                              *)
FoundInv ==
    /\ learned \in [Clients -> SUBSET Transcripts]
    /\ \A c \in Clients : \A t \in learned[c] :
          \E x \in Extractions[t] : \A i \in DOMAIN x.entities :
              /\ Filed(x.entities[i], t)
              /\ at[c] \notin {"idle", "asked"} /\ x.entities[i] \in MergedKeys =>
                    t \in call[c].base[x.entities[i]]
===============================================================================
