--------------------------- MODULE DocumentedClaims ---------------------------
(***************************************************************************)
(* What the README, the docstrings and the API descriptions say of the     *)
(* write path, and the code does not do.  Each formula is refuted by a run *)
(* of its own.                                                             *)
(***************************************************************************)
EXTENDS MemoryWiki

(* Nothing fails: no call, no process and no time limit.                    *)
CalmNext ==
    \/ ApiNext /\ UNCHANGED pipelineVars
    \/ ((\E w \in Workers : Step(w)) \/ Midnight) /\ UNCHANGED apiVars

CalmSpec == Init /\ [][CalmNext]_vars

-------------------------------------------------------------------------------

(* "Persists the transcript in the database and enqueues an async job"      *)
(* (transcripts.py:39): a pending transcript has a job.  The message is     *)
(* published before get_db commits, and a worker that is quick finds no     *)
(* row, raises ValueError, and is not retried.                              *)
PendingHasJob == \A t \in Transcripts : status[t] = "pending" => Owned(t)

(* "Raises ValueError ... so the pipeline can mark the transcript as failed *)
(* with a clear message" (extraction.py:206).  ValueErrors are not retried, *)
(* and only the last retry marks the transcript.                            *)
NoEntitiesMarksFailed ==
    [][\A w \in Workers :
          pc[w] = "handler" /\ task[w].exn = "no_entities" /\ pc'[w] = "ack"
            => status'[Id(w)] = "failed"]_vars

(* "Only 'failed' or 'pending' transcripts can be retried"                  *)
(* (transcripts.py:154): a completed one never returns to pending.  The     *)
(* status the endpoint checks is read without a lock and may be old.        *)
CompletedIsNotRetried ==
    [][\A t \in Transcripts : status[t] = "completed" => status'[t] # "pending"]_vars

(* "Update the _meta/index.json with current state of all memory files"     *)
(* (pipeline.py:201): every indexed path is a file.  The name of an undated *)
(* event is computed three times from the clock.                            *)
IndexedFilesExist == \A k \in index.entities : mem[k] # {}

(* "The task is idempotent --- re-running it for the same transcript will   *)
(* skip already-processed entities" (tasks.py:45): no attempt writes a file *)
(* for what is marked processed, unless the same extraction lists it twice. *)
(* An undated event is marked under the day of the attempt, and an attempt  *)
(* after midnight does not know it again.                                   *)
RerunSkipsProcessed ==
    \A w \in Workers : pc[w] = "write" =>
        \/ \A k \in processed[Id(w)] : ~SameUpToDate(k, task[w].key)
        \/ \E i \in 1 .. task[w].at - 1, day \in Days :
              SameUpToDate(EntityKey(task[w].ext.entities[i], day), task[w].key)

(* "Status tracking: pending -> processing -> completed/failed"             *)
(* (README.md:171): a transcript nobody works on any more is not left in    *)
(* processing, where the retry endpoint refuses it.  Celery acknowledges a  *)
(* task killed at the hard limit although it acknowledges late.             *)
NotStuckInProcessing ==
    \A t \in Transcripts : status[t] = "processing" => Owned(t)
===============================================================================
