---------------------------- MODULE TranscriptStore ----------------------------
(***************************************************************************)
(* The transcripts table in PostgreSQL, as the API and the workers see it: *)
(* only committed values, under READ COMMITTED, with a row lock held by an *)
(* API transaction from its UPDATE to its commit.  Worker transactions     *)
(* write once and commit at once, so each of their writes is one step that *)
(* waits for the lock.                                                     *)
(***************************************************************************)
EXTENDS MemoryKeys

CONSTANTS
    Requests,       \* calls of the retry endpoint (each happens at most once)
    NoRequest       \* no API transaction

ASSUME RequestsAssumption == NoRequest \notin Requests

VARIABLES
    status,     \* status[t]: "absent" until the INSERT commits, then the column
    processed,  \* processed[t]: column processed_entities, a set of keys
    error,      \* error[t]: column error_message is not NULL
    rowLock     \* rowLock[t]: the API transaction that holds the row's lock

storeVars == <<status, processed, error, rowLock>>

TranscriptStatus == {"pending", "processing", "completed", "failed"}

StoreTypeOK ==
    /\ status \in [Transcripts -> TranscriptStatus \cup {"absent"}]
    /\ processed \in [Transcripts -> SUBSET Keys]
    /\ error \in [Transcripts -> BOOLEAN]
    /\ rowLock \in [Transcripts -> Requests \cup {NoRequest}]

StoreInit ==
    /\ status = [t \in Transcripts |-> "absent"]
    /\ processed = [t \in Transcripts |-> {}]
    /\ error = [t \in Transcripts |-> FALSE]
    /\ rowLock = [t \in Transcripts |-> NoRequest]

Unlocked(t) == rowLock[t] = NoRequest

SetStatus(t, s) == status' = [status EXCEPT ![t] = s]

(* UPDATE ... WHERE id = t: no row matches while the INSERT is uncommitted, *)
(* and no lock is waited for then.                                          *)
UpdateFailed(t) ==
    IF status[t] = "absent"
    THEN UNCHANGED <<status, error>>
    ELSE /\ Unlocked(t)
         /\ SetStatus(t, "failed")
         /\ error' = [error EXCEPT ![t] = TRUE]
===============================================================================
