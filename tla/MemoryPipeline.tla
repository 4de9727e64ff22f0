---------------------------- MODULE MemoryPipeline ----------------------------
(***************************************************************************)
(* The Celery workers: process_transcript and the MemoryPipeline it runs.  *)
(*                                                                         *)
(* A worker holds one message at a time.  Each database transaction, each  *)
(* object-store call and each message to the broker is a step of its own,  *)
(* so that any number of other steps may come between two of them.  What a *)
(* worker read and still carries is in task[w]; it is lost with the        *)
(* attempt.  The LLM is a choice among Extractions[t], and its merge of    *)
(* new facts into a file keeps what the file held.                         *)
(***************************************************************************)
EXTENDS TranscriptStore, TaskQueue

CONSTANTS
    Workers,        \* worker processes
    Relations,      \* edges an extraction may report
    Extractions,    \* Extractions[t]: what the LLM may extract from t; it may have no
                    \* entities, for nameless ones are removed after they are counted
    Unusable,       \* transcripts from which it may also extract nothing at all
    MaxCrashes,     \* bound: workers lost, and replies to mark_failed lost
    NoMessage,      \* an idle worker's message
    NoKey           \* no entity at hand

ASSUME PipelineAssumption ==
    /\ Unusable \subseteq Transcripts
    /\ Extractions \in [Transcripts -> SUBSET ExtractionsOver(Relations)]
    /\ \A t \in Transcripts : \A x \in Extractions[t] : InPipelineOrder(x.entities)
    /\ MaxCrashes \in Nat
    /\ NoMessage \notin Messages
    /\ NoKey \notin Keys

VARIABLES
    mem,        \* mem[k]: transcripts whose facts file k holds, {} if there is none
    index,      \* _meta/index.json
    graph,      \* the edges of _meta/graph.json, with their source transcript
    today,      \* the date, UTC
    pc,         \* pc[w]: where worker w stands
    job,        \* job[w]: the message w holds
    task,       \* task[w]: the local variables of the attempt
    crashes     \* how many workers or such replies were lost so far

fileVars == <<mem, index, graph>>
workerVars == <<pc, job, task>>
pipelineVars == <<fileVars, today, workerVars, crashes>>

Index == [entities : SUBSET Keys, transcripts : SUBSET Transcripts]

Edges == Relations \X Transcripts

Exceptions == {"none", "not_found", "no_entities", "exception"}

(* Points at which the attempt is about to call out and may be refused.     *)
CallPoints ==
    {"fetch", "lock", "refresh", "extract", "open", "write", "markRead", "markWrite",
     "index", "graph", "graphWrite", "indexWrite", "complete"}

(* Points inside the try block of process_transcript.                       *)
TryPoints == CallPoints \cup {"loop", "return"}

Points == TryPoints \cup {"idle", "handler", "timeout", "retry", "ack"}

NoExtraction == [entities |-> << >>, relationships |-> {}]

Blank ==
    [seen |-> "absent", already |-> {}, ext |-> NoExtraction, at |-> 1,
     key |-> NoKey, path |-> NoKey, existing |-> {}, marks |-> {},
     idx |-> [entities |-> {}, transcripts |-> {}], net |-> {}, exn |-> "none"]

AllExtractions == {NoExtraction} \cup UNION {Extractions[t] : t \in Transcripts}

Tasks ==
    [seen : TranscriptStatus \cup {"absent"}, already : SUBSET Keys,
     ext : AllExtractions, at : Nat \ {0},
     key : Keys \cup {NoKey}, path : Keys \cup {NoKey},
     existing : SUBSET Transcripts, marks : SUBSET Keys,
     idx : Index, net : SUBSET Edges, exn : Exceptions]

PipelineTypeOK ==
    /\ mem \in [Keys -> SUBSET Transcripts]
    /\ index \in Index
    /\ graph \subseteq Edges
    /\ today \in Days
    /\ pc \in [Workers -> Points]
    /\ job \in [Workers -> Messages \cup {NoMessage}]
    /\ task \in [Workers -> Tasks]
    /\ crashes \in 0 .. MaxCrashes

PipelineInit ==
    /\ mem = [k \in Keys |-> {}]
    /\ index = [entities |-> {}, transcripts |-> {}]
    /\ graph = {}
    /\ today = 0
    /\ pc = [w \in Workers |-> "idle"]
    /\ job = [w \in Workers |-> NoMessage]
    /\ task = [w \in Workers |-> Blank]
    /\ crashes = 0

-------------------------------------------------------------------------------
(* Moves of a worker's control state.                                       *)

Id(w) == job[w].id

Goto(w, point) == pc' = [pc EXCEPT ![w] = point] /\ UNCHANGED job

Keep(w, record) == task' = [task EXCEPT ![w] = record]

(* An exception ends the attempt: its locals are gone.                      *)
Throw(w, e) == Goto(w, "handler") /\ Keep(w, [Blank EXCEPT !.exn = e])

(* The handler is done with the exception.                                  *)
Leave(w, point) == Goto(w, point) /\ Keep(w, Blank)

Entity(w) == task[w].ext.entities[task[w].at]

-------------------------------------------------------------------------------
(* The broker hands a waiting message to a free worker, and is told of the  *)
(* end of the task afterwards (task_acks_late).                             *)

Deliver(w) ==
    /\ pc[w] = "idle"
    /\ \E m \in Messages :
          /\ Consume(m)
          /\ job' = [job EXCEPT ![w] = m]
    /\ pc' = [pc EXCEPT ![w] = "fetch"]
    /\ UNCHANGED <<storeVars, dropped, fileVars, today, task, crashes>>

Ack(w) ==
    /\ pc[w] \in {"return", "ack"}
    /\ pc' = [pc EXCEPT ![w] = "idle"]
    /\ job' = [job EXCEPT ![w] = NoMessage]
    /\ Keep(w, Blank)
    /\ UNCHANGED <<storeVars, queueVars, fileVars, today, crashes>>

-------------------------------------------------------------------------------
(* _fetch_and_lock: SELECT, then UPDATE and commit, then SELECT again.      *)

(* The transcript is completed and there is nothing to do; a row that an    *)
(* open retry call is about to turn pending again is passed over with it.   *)
Skip(w) ==
    /\ Leave(w, "return")
    /\ IF Unlocked(Id(w)) THEN UNCHANGED dropped ELSE Drop(Id(w))

FetchMissing(w) ==
    /\ pc[w] = "fetch"
    /\ status[Id(w)] = "absent"
    /\ Throw(w, "not_found")
    /\ UNCHANGED <<storeVars, queueVars, fileVars, today, crashes>>

FetchCompleted(w) ==
    /\ pc[w] = "fetch"
    /\ status[Id(w)] = "completed"
    /\ Skip(w)
    /\ UNCHANGED <<storeVars, queue, fileVars, today, crashes>>

Fetch(w) ==
    /\ pc[w] = "fetch"
    /\ status[Id(w)] \notin {"absent", "completed"}
    /\ Goto(w, "lock")
    /\ Keep(w, [task[w] EXCEPT !.seen = status[Id(w)]])
    /\ UNCHANGED <<storeVars, queueVars, fileVars, today, crashes>>

(* Nothing is sent when the row was processing already.                     *)
Lock(w) ==
    /\ pc[w] = "lock"
    /\ IF task[w].seen = "processing"
       THEN UNCHANGED status
       ELSE Unlocked(Id(w)) /\ SetStatus(Id(w), "processing")
    /\ Goto(w, "refresh")
    /\ UNCHANGED <<processed, error, rowLock, queueVars, fileVars, today, task, crashes>>

RefreshCompleted(w) ==
    /\ pc[w] = "refresh"
    /\ status[Id(w)] = "completed"
    /\ Skip(w)
    /\ UNCHANGED <<storeVars, queue, fileVars, today, crashes>>

Refresh(w) ==
    /\ pc[w] = "refresh"
    /\ status[Id(w)] # "completed"
    /\ Goto(w, "extract")
    /\ Keep(w, [task[w] EXCEPT !.already = processed[Id(w)]])
    /\ UNCHANGED <<storeVars, queueVars, fileVars, today, crashes>>

(* MemoryExtractor.extract.                                                 *)
Extract(w) ==
    /\ pc[w] = "extract"
    /\ \E x \in Extractions[Id(w)] : Keep(w, [task[w] EXCEPT !.ext = x])
    /\ Goto(w, "loop")
    /\ UNCHANGED <<storeVars, queueVars, fileVars, today, crashes>>

ExtractNothing(w) ==
    /\ pc[w] = "extract"
    /\ Id(w) \in Unusable
    /\ Throw(w, "no_entities")
    /\ UNCHANGED <<storeVars, queueVars, fileVars, today, crashes>>

-------------------------------------------------------------------------------
(* The loops over people and topics, and the event after them.              *)

(* Mutant: any entity may be skipped.                                       *)
SkipAny(w) ==
    /\ pc[w] = "loop"
    /\ task[w].at \in DOMAIN task[w].ext.entities
    /\ Goto(w, "loop")
    /\ Keep(w, [task[w] EXCEPT !.at = @ + 1])
    /\ UNCHANGED <<storeVars, queueVars, fileVars, today, crashes>>

SkipEntity(w) ==
    /\ pc[w] = "loop"
    /\ task[w].at \in DOMAIN task[w].ext.entities
    /\ EntityKey(Entity(w), today) \in task[w].already
    /\ Goto(w, "loop")
    /\ Keep(w, [task[w] EXCEPT !.at = @ + 1])
    /\ UNCHANGED <<storeVars, queueVars, fileVars, today, crashes>>

(* Mutants: the key is not kept; it is marked before the file is written;   *)
(* processed_entities is not consulted.                                     *)
StartWithoutKey(w) ==
    /\ pc[w] = "loop"
    /\ task[w].at \in DOMAIN task[w].ext.entities
    /\ Goto(w, "open")
    /\ UNCHANGED <<storeVars, queueVars, fileVars, today, task, crashes>>

StartMarked(w) ==
    LET key == EntityKey(Entity(w), today) IN
    /\ pc[w] = "loop"
    /\ task[w].at \in DOMAIN task[w].ext.entities
    /\ key \notin task[w].already
    /\ Goto(w, "open")
    /\ Keep(w, [task[w] EXCEPT !.key = key])
    /\ processed' = [processed EXCEPT ![Id(w)] = @ \cup {key}]
    /\ UNCHANGED <<status, error, rowLock, queueVars, fileVars, today, crashes>>

StartAny(w) ==
    /\ pc[w] = "loop"
    /\ task[w].at \in DOMAIN task[w].ext.entities
    /\ Goto(w, "open")
    /\ Keep(w, [task[w] EXCEPT !.key = EntityKey(Entity(w), today)])
    /\ UNCHANGED <<storeVars, queueVars, fileVars, today, crashes>>

StartEntity(w) ==
    /\ pc[w] = "loop"
    /\ task[w].at \in DOMAIN task[w].ext.entities
    /\ EntityKey(Entity(w), today) \notin task[w].already
    /\ Goto(w, "open")
    /\ Keep(w, [task[w] EXCEPT !.key = EntityKey(Entity(w), today)])
    /\ UNCHANGED <<storeVars, queueVars, fileVars, today, crashes>>

EndEntities(w) ==
    /\ pc[w] = "loop"
    /\ task[w].at \notin DOMAIN task[w].ext.entities
    /\ Goto(w, "index")
    /\ UNCHANGED <<storeVars, queueVars, fileVars, today, task, crashes>>

(* Mutant: files are created anew.                                          *)
OpenNothing(w) ==
    /\ pc[w] = "open"
    /\ Keep(w, [task[w] EXCEPT !.path = EntityKey(Entity(w), today)])
    /\ Goto(w, "write")
    /\ UNCHANGED <<storeVars, queueVars, fileVars, today, crashes>>

(* _process_person and _process_topic read the file they will replace;      *)
(* _process_event names the event anew and reads nothing.                   *)
OpenFile(w) ==
    /\ pc[w] = "open"
    /\ LET path == EntityKey(Entity(w), today) IN
       Keep(w, [task[w] EXCEPT
                  !.path = path,
                  !.existing = IF path \in MergedKeys THEN mem[path] ELSE {}])
    /\ Goto(w, "write")
    /\ UNCHANGED <<storeVars, queueVars, fileVars, today, crashes>>

WriteFile(w) ==
    /\ pc[w] = "write"
    /\ mem' = [mem EXCEPT ![task[w].path] = task[w].existing \cup {Id(w)}]
    /\ Goto(w, "markRead")
    /\ UNCHANGED <<storeVars, queueVars, index, graph, today, task, crashes>>

(* _mark_entity_processed: SELECT, then UPDATE with the longer list.        *)
MarkRead(w) ==
    /\ pc[w] = "markRead"
    /\ Keep(w, [task[w] EXCEPT !.marks = processed[Id(w)]])
    /\ Goto(w, "markWrite")
    /\ UNCHANGED <<storeVars, queueVars, fileVars, today, crashes>>

MarkWrite(w) ==
    /\ pc[w] = "markWrite"
    /\ IF task[w].key \in task[w].marks
       THEN UNCHANGED processed
       ELSE /\ Unlocked(Id(w))
            /\ processed' = [processed EXCEPT ![Id(w)] = task[w].marks \cup {task[w].key}]
    /\ Goto(w, "loop")
    /\ Keep(w, [task[w] EXCEPT !.at = @ + 1, !.key = NoKey, !.path = NoKey,
                               !.existing = {}, !.marks = {}])
    /\ UNCHANGED <<status, error, rowLock, queueVars, fileVars, today, crashes>>

-------------------------------------------------------------------------------
(* _update_meta_index: read the index and add to it, read the graph, add to *)
(* it and write it, and write the index last.                               *)

ReadIndex(w) ==
    /\ pc[w] = "index"
    /\ LET x == task[w].ext IN
       /\ Keep(w, [task[w] EXCEPT !.idx =
             [entities    |-> index.entities \cup
                                { EntityKey(x.entities[i], today) : i \in DOMAIN x.entities },
              transcripts |-> index.transcripts \cup {Id(w)}]])
       /\ Goto(w, IF x.relationships = {} THEN "indexWrite" ELSE "graph")
    /\ UNCHANGED <<storeVars, queueVars, fileVars, today, crashes>>

ReadGraph(w) ==
    /\ pc[w] = "graph"
    /\ Keep(w, [task[w] EXCEPT !.net = graph \cup (task[w].ext.relationships \X {Id(w)})])
    /\ Goto(w, "graphWrite")
    /\ UNCHANGED <<storeVars, queueVars, fileVars, today, crashes>>

(* Mutant: the index is not written after the graph.                        *)
WriteGraphOnly(w) ==
    /\ pc[w] = "graphWrite"
    /\ graph' = task[w].net
    /\ Goto(w, "complete")
    /\ UNCHANGED <<storeVars, queueVars, mem, index, today, task, crashes>>

WriteGraph(w) ==
    /\ pc[w] = "graphWrite"
    /\ graph' = task[w].net
    /\ Goto(w, "indexWrite")
    /\ UNCHANGED <<storeVars, queueVars, mem, index, today, task, crashes>>

WriteIndex(w) ==
    /\ pc[w] = "indexWrite"
    /\ index' = task[w].idx
    /\ Goto(w, "complete")
    /\ UNCHANGED <<storeVars, queueVars, mem, graph, today, task, crashes>>

(* _mark_completed; nothing clears error_message.                           *)
Complete(w) ==
    /\ pc[w] = "complete"
    /\ Unlocked(Id(w))
    /\ SetStatus(Id(w), "completed")
    /\ Leave(w, "return")
    /\ UNCHANGED <<processed, error, rowLock, queueVars, fileVars, today, crashes>>

-------------------------------------------------------------------------------
(* except Exception: the last attempt marks the transcript failed.  After   *)
(* it, Celery retries unless the exception is a ValueError.                 *)

LastAttempt(w) == job[w].retries = MaxRetries

IsValueError(exn) == exn \in {"not_found", "no_entities"}

GiveUp(w) ==
    /\ pc[w] = "handler"
    /\ LastAttempt(w)
    /\ UpdateFailed(Id(w))
    /\ IF status[Id(w)] = "absent" THEN Drop(Id(w)) ELSE UNCHANGED dropped
    /\ Leave(w, "ack")
    /\ UNCHANGED <<processed, rowLock, queue, fileVars, today, crashes>>

(* mark_failed raises in its turn, which is only logged.                    *)
GiveUpUnmarked(w) ==
    /\ pc[w] = "handler"
    /\ LastAttempt(w)
    /\ Drop(Id(w))
    /\ Leave(w, "ack")
    /\ UNCHANGED <<storeVars, queue, fileVars, today, crashes>>

(* A ValueError is a permanent failure: no retry.                           *)
DropValueError(w) ==
    /\ pc[w] = "handler"
    /\ ~LastAttempt(w)
    /\ IsValueError(task[w].exn)
    /\ Drop(Id(w))
    /\ Leave(w, "ack")
    /\ UNCHANGED <<storeVars, queue, fileVars, today, crashes>>

(* Mutant: no exception is retried.                                         *)
TryNoMore(w) ==
    /\ pc[w] = "handler"
    /\ ~LastAttempt(w)
    /\ ~IsValueError(task[w].exn)
    /\ Leave(w, "ack")
    /\ UNCHANGED <<storeVars, queueVars, fileVars, today, crashes>>

TryAgain(w) ==
    /\ pc[w] = "handler"
    /\ ~LastAttempt(w)
    /\ ~IsValueError(task[w].exn)
    /\ Leave(w, "retry")
    /\ UNCHANGED <<storeVars, queueVars, fileVars, today, crashes>>

(* Mutant: the retry does not count.                                        *)
RetryUncounted(w) ==
    /\ pc[w] = "retry"
    /\ Publish(job[w])
    /\ Goto(w, "ack")
    /\ UNCHANGED <<storeVars, dropped, fileVars, today, task, crashes>>

Retry(w) ==
    /\ pc[w] = "retry"
    /\ Publish([job[w] EXCEPT !.retries = @ + 1])
    /\ Goto(w, "ack")
    /\ UNCHANGED <<storeVars, dropped, fileVars, today, task, crashes>>

(* The broker refuses the retry: Celery rejects the message, unrequeued.    *)
RetryRefused(w) ==
    /\ pc[w] = "retry"
    /\ Drop(Id(w))
    /\ Goto(w, "ack")
    /\ UNCHANGED <<storeVars, queue, fileVars, today, task, crashes>>

-------------------------------------------------------------------------------
(* except SoftTimeLimitExceeded: mark the transcript failed, on any attempt.*)
(* If that raises, the new exception is one that Celery retries.            *)

MarkTimedOut(w) ==
    /\ pc[w] = "timeout"
    /\ UpdateFailed(Id(w))
    /\ IF status[Id(w)] = "absent" THEN Drop(Id(w)) ELSE UNCHANGED dropped
    /\ Goto(w, "ack")
    /\ UNCHANGED <<processed, rowLock, queue, fileVars, today, task, crashes>>

TimedOutUnmarked(w) ==
    /\ pc[w] = "timeout"
    /\ \/ ~LastAttempt(w) /\ Goto(w, "retry") /\ UNCHANGED dropped
       \/ LastAttempt(w) /\ Goto(w, "ack") /\ Drop(Id(w))
    /\ UNCHANGED <<storeVars, queue, fileVars, today, task, crashes>>

(* The FAILED update is committed, yet mark_failed raises: the transcript   *)
(* is failed and will be tried again.                                       *)
TimedOutReplyLost(w) ==
    /\ pc[w] = "timeout"
    /\ crashes < MaxCrashes
    /\ crashes' = crashes + 1
    /\ ~LastAttempt(w)
    /\ UpdateFailed(Id(w))
    /\ Goto(w, "retry")
    /\ UNCHANGED <<processed, rowLock, queueVars, fileVars, today, task>>

-------------------------------------------------------------------------------
(* Faults.                                                                  *)

(* The database, the object store or the LLM (its own retries spent) fails  *)
(* the call the worker is about to make.                                    *)
CallFails(w) ==
    /\ pc[w] \in CallPoints
    /\ Throw(w, "exception")
    /\ UNCHANGED <<storeVars, queueVars, fileVars, today, crashes>>

(* The COMPLETED update is committed, yet the worker gets an error.  For    *)
(* every other write of process this is the write, then a failure of the    *)
(* next call.                                                               *)
CompleteReplyLost(w) ==
    /\ pc[w] = "complete"
    /\ Unlocked(Id(w))
    /\ SetStatus(Id(w), "completed")
    /\ Throw(w, "exception")
    /\ UNCHANGED <<processed, error, rowLock, queueVars, fileVars, today, crashes>>

(* 120 seconds: SoftTimeLimitExceeded is raised wherever the attempt is.    *)
(* (A library that swallows it, as the LLM client's retry does, is a step   *)
(* that changes nothing.)                                                   *)
SoftLimit(w) ==
    /\ pc[w] \in TryPoints
    /\ Leave(w, "timeout")
    /\ UNCHANGED <<storeVars, queueVars, fileVars, today, crashes>>

(* The worker still owes transcript Id(w) an outcome or another message.    *)
Owing == Points \ {"idle", "return", "ack"}

(* 180 seconds: the process is killed and the message acknowledged, late    *)
(* acknowledgement notwithstanding (acks_on_failure_or_timeout is on).      *)
HardLimit(w) ==
    /\ pc[w] # "idle"
    /\ IF pc[w] \in Owing THEN Drop(Id(w)) ELSE UNCHANGED dropped
    /\ pc' = [pc EXCEPT ![w] = "idle"]
    /\ job' = [job EXCEPT ![w] = NoMessage]
    /\ Keep(w, Blank)
    /\ UNCHANGED <<storeVars, queue, fileVars, today, crashes>>

(* Mutant: the message was acknowledged on delivery.                        *)
CrashLosesMessage(w) ==
    /\ pc[w] # "idle"
    /\ crashes < MaxCrashes
    /\ crashes' = crashes + 1
    /\ pc' = [pc EXCEPT ![w] = "idle"]
    /\ job' = [job EXCEPT ![w] = NoMessage]
    /\ Keep(w, Blank)
    /\ UNCHANGED <<storeVars, queueVars, fileVars, today>>

(* The process is lost: its message goes back to the queue.                 *)
Crash(w) ==
    /\ pc[w] # "idle"
    /\ crashes < MaxCrashes
    /\ crashes' = crashes + 1
    /\ Publish(job[w])
    /\ pc' = [pc EXCEPT ![w] = "idle"]
    /\ job' = [job EXCEPT ![w] = NoMessage]
    /\ Keep(w, Blank)
    /\ UNCHANGED <<storeVars, dropped, fileVars, today>>

Midnight ==
    /\ today < LastDay
    /\ today' = today + 1
    /\ UNCHANGED <<storeVars, queueVars, fileVars, workerVars, crashes>>

-------------------------------------------------------------------------------

(* What a worker does when nothing goes wrong but the attempt itself.       *)
Step(w) ==
    \/ Deliver(w) \/ Ack(w)
    \/ FetchMissing(w) \/ FetchCompleted(w) \/ Fetch(w) \/ Lock(w)
    \/ RefreshCompleted(w) \/ Refresh(w) \/ Extract(w) \/ ExtractNothing(w)
    \/ SkipEntity(w) \/ StartEntity(w) \/ EndEntities(w)
    \/ OpenFile(w) \/ WriteFile(w) \/ MarkRead(w) \/ MarkWrite(w)
    \/ ReadIndex(w) \/ ReadGraph(w) \/ WriteGraph(w) \/ WriteIndex(w) \/ Complete(w)
    \/ GiveUp(w) \/ DropValueError(w) \/ TryAgain(w) \/ Retry(w) \/ MarkTimedOut(w)

Fault(w) ==
    \/ CallFails(w) \/ CompleteReplyLost(w) \/ SoftLimit(w) \/ HardLimit(w) \/ Crash(w)
    \/ GiveUpUnmarked(w) \/ RetryRefused(w) \/ TimedOutUnmarked(w) \/ TimedOutReplyLost(w)

PipelineNext ==
    \/ \E w \in Workers : Step(w) \/ Fault(w)
    \/ Midnight
===============================================================================
