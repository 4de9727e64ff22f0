----------------------------- MODULE TranscriptApi -----------------------------
(***************************************************************************)
(* The write side of the REST API: POST /transcripts and                   *)
(* POST /transcripts/:id/retry.  Both flush their SQL, then enqueue the    *)
(* task, and only then does the get_db dependency commit, so a worker may  *)
(* run between the last two.  The other endpoints change no state.         *)
(***************************************************************************)
EXTENDS TranscriptStore, TaskQueue

VARIABLES
    posting,    \* posting[t]: how far the POST that creates t has come
    reqPc,      \* reqPc[r]: how far retry call r has come
    reqFor,     \* reqFor[r]: the transcript call r is about
    reqDiff     \* reqDiff[r]: the columns whose value call r changes

apiVars == <<posting, reqPc, reqFor, reqDiff>>

Columns == {"status", "error", "processed"}

ApiTypeOK ==
    /\ posting \in [Transcripts ->
                    {"none", "flushed", "enqueued", "committed", "rolledback"}]
    /\ reqPc \in [Requests -> {"idle", "read", "flushed", "enqueued", "done"}]
    /\ reqFor \in [Requests -> Transcripts]
    /\ reqDiff \in [Requests -> SUBSET Columns]

ApiInit ==
    /\ posting = [t \in Transcripts |-> "none"]
    /\ reqPc = [r \in Requests |-> "idle"]
    /\ reqFor = [r \in Requests |-> CHOOSE t \in Transcripts : TRUE]
    /\ reqDiff = [r \in Requests |-> {}]

-------------------------------------------------------------------------------
(* POST /transcripts: INSERT in an open transaction, .delay(), commit.      *)

CreateFlush(t) ==
    /\ posting[t] = "none"
    /\ posting' = [posting EXCEPT ![t] = "flushed"]
    /\ UNCHANGED <<storeVars, queueVars, reqPc, reqFor, reqDiff>>

CreateEnqueue(t) ==
    /\ posting[t] = "flushed"
    /\ Delay(t)
    /\ posting' = [posting EXCEPT ![t] = "enqueued"]
    /\ UNCHANGED <<storeVars, dropped, reqPc, reqFor, reqDiff>>

CreateCommit(t) ==
    /\ posting[t] = "enqueued"
    /\ SetStatus(t, "pending")
    /\ posting' = [posting EXCEPT ![t] = "committed"]
    /\ UNCHANGED <<processed, error, rowLock, queueVars, reqPc, reqFor, reqDiff>>

(* The broker refuses the task, the commit fails, or the process dies.      *)
CreateRollback(t) ==
    /\ posting[t] \in {"flushed", "enqueued"}
    /\ posting' = [posting EXCEPT ![t] = "rolledback"]
    /\ UNCHANGED <<storeVars, queueVars, reqPc, reqFor, reqDiff>>

-------------------------------------------------------------------------------
(* POST /transcripts/:id/retry.  The row is read without a lock; what the   *)
(* call assigns to it reaches the UPDATE only where the value differs from  *)
(* the one read, and no UPDATE is sent when none does.  A transcript that   *)
(* is absent (404), processing or completed (400) is left alone.            *)

(* Mutant: the reset of error_message is an UPDATE whatever was read.       *)
RetryReadClears(r, t) ==
    /\ reqPc[r] = "idle"
    /\ status[t] \in {"failed", "pending"}
    /\ reqPc' = [reqPc EXCEPT ![r] = "read"]
    /\ reqFor' = [reqFor EXCEPT ![r] = t]
    /\ reqDiff' = [reqDiff EXCEPT ![r] =
                    {"error"} \cup { c \in {"status"} : status[t] # "pending" }]
    /\ UNCHANGED <<storeVars, queueVars, posting>>

RetryRead(r, t) ==
    /\ reqPc[r] = "idle"
    /\ status[t] \in {"failed", "pending"}
    /\ reqPc' = [reqPc EXCEPT ![r] = "read"]
    /\ reqFor' = [reqFor EXCEPT ![r] = t]
    /\ reqDiff' = [reqDiff EXCEPT ![r] =
                    { c \in Columns : \/ c = "status" /\ status[t] # "pending"
                                      \/ c = "error" /\ error[t]
                                      \/ c = "processed" /\ processed[t] # {} }]
    /\ UNCHANGED <<storeVars, queueVars, posting>>

RetryFlush(r) ==
    LET t == reqFor[r] IN
    /\ reqPc[r] = "read"
    /\ \/ reqDiff[r] = {} /\ UNCHANGED rowLock
       \/ reqDiff[r] # {} /\ Unlocked(t) /\ rowLock' = [rowLock EXCEPT ![t] = r]
    /\ reqPc' = [reqPc EXCEPT ![r] = "flushed"]
    /\ UNCHANGED <<status, processed, error, queueVars, posting, reqFor, reqDiff>>

RetryEnqueue(r) ==
    /\ reqPc[r] = "flushed"
    /\ Delay(reqFor[r])
    /\ dropped' = dropped \ {reqFor[r]}
    /\ reqPc' = [reqPc EXCEPT ![r] = "enqueued"]
    /\ UNCHANGED <<storeVars, posting, reqFor, reqDiff>>

Unlock(r, t) ==
    rowLock' = [rowLock EXCEPT ![t] = IF @ = r THEN NoRequest ELSE @]

RetryCommit(r) ==
    LET t == reqFor[r] IN
    /\ reqPc[r] = "enqueued"
    /\ status' = [status EXCEPT ![t] = IF "status" \in reqDiff[r] THEN "pending" ELSE @]
    /\ error' = [error EXCEPT ![t] = IF "error" \in reqDiff[r] THEN FALSE ELSE @]
    /\ processed' = [processed EXCEPT ![t] = IF "processed" \in reqDiff[r] THEN {} ELSE @]
    /\ Unlock(r, t)
    /\ reqPc' = [reqPc EXCEPT ![r] = "done"]
    /\ UNCHANGED <<queueVars, posting, reqFor, reqDiff>>

(* Mutant: an exception leaves the transaction open.                        *)
RetryAbandon(r) ==
    /\ reqPc[r] \in {"read", "flushed", "enqueued"}
    /\ reqPc' = [reqPc EXCEPT ![r] = "done"]
    /\ UNCHANGED <<storeVars, queueVars, posting, reqFor, reqDiff>>

RetryRollback(r) ==
    /\ reqPc[r] \in {"read", "flushed", "enqueued"}
    /\ Unlock(r, reqFor[r])
    /\ reqPc' = [reqPc EXCEPT ![r] = "done"]
    /\ UNCHANGED <<status, processed, error, queueVars, posting, reqFor, reqDiff>>

-------------------------------------------------------------------------------

CreateStep(t) == CreateEnqueue(t) \/ CreateCommit(t)

RetryStep(r) == RetryFlush(r) \/ RetryEnqueue(r) \/ RetryCommit(r)

ApiNext ==
    \/ \E t \in Transcripts : CreateFlush(t) \/ CreateStep(t) \/ CreateRollback(t)
    \/ \E r \in Requests, t \in Transcripts : RetryRead(r, t)
    \/ \E r \in Requests : RetryStep(r) \/ RetryRollback(r)
===============================================================================
