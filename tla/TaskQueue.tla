------------------------------- MODULE TaskQueue -------------------------------
(***************************************************************************)
(* Redis and Celery between the API and the workers.  A message asks for   *)
(* one run of process_transcript; its retries header counts the automatic  *)
(* retries before it.  Messages are a bag: a retry waits for its backoff   *)
(* and a crashed delivery comes back late, so no order is promised.  A     *)
(* message a worker has taken is not in the bag; it is acknowledged late,  *)
(* when the task ends, and comes back if the worker is lost before that.   *)
(***************************************************************************)
EXTENDS MemoryKeys

CONSTANT
    MaxRetries      \* max_retries of the task (3 in the source)

ASSUME RetriesAssumption == MaxRetries \in Nat

VARIABLES
    queue,      \* queue[m]: how many copies of message m wait
    dropped     \* transcripts with a delivery that ended, since the last explicit
                \* retry, with no outcome recorded and no message left behind

queueVars == <<queue, dropped>>

Messages == [id : Transcripts, retries : 0 .. MaxRetries]

QueueTypeOK ==
    /\ queue \in [Messages -> Nat]
    /\ dropped \subseteq Transcripts

QueueInit ==
    /\ queue = [m \in Messages |-> 0]
    /\ dropped = {}

(* process_transcript.delay(id), and task.retry with one more retry.        *)
Publish(m) == queue' = [queue EXCEPT ![m] = @ + 1]

Delay(t) == Publish([id |-> t, retries |-> 0])

Consume(m) ==
    /\ queue[m] > 0
    /\ queue' = [queue EXCEPT ![m] = @ - 1]

Queued(t) == \E m \in Messages : m.id = t /\ queue[m] > 0

(* A delivery of t is over and nobody will know: the ways this happens are   *)
(* the actions that use Drop.                                               *)
Drop(t) == dropped' = dropped \cup {t}
===============================================================================
