--------------------------- MODULE MemoryWikiProofs ---------------------------
(***************************************************************************)
(* Proofs about MemoryWiki, for any number of transcripts, retry calls,    *)
(* workers, crashes and automatic retries: the types of all variables, and *)
(* that no job is lost without a trace (NoSilentLoss).                     *)
(***************************************************************************)
EXTENDS MemoryWiki, TLAPS

-------------------------------------------------------------------------------
(* Types.                                                                   *)

(* Whatever the day, an entity's key is a key.                              *)
LEMMA EntityKeyType ==
    ASSUME NEW entity \in Entities, NEW day \in Days
    PROVE  EntityKey(entity, day) \in Keys
  BY DEF Entities, Events, Keys, EventKeys, EntityKey, MakeEventSlug

(* What the LLM extracted is a sequence of entities.                        *)
LEMMA ExtractionType ==
    ASSUME NEW x \in AllExtractions
    PROVE  x.entities \in Seq(Entities) /\ x.relationships \subseteq Relations
  <1>1. NoExtraction \in ExtractionsOver(Relations)
    BY DEF NoExtraction, ExtractionsOver
  <1>2. x \in ExtractionsOver(Relations)
    BY <1>1, PipelineAssumption DEF AllExtractions
  <1>. QED  BY <1>2 DEF ExtractionsOver

(* The locals of an attempt that has not begun or has just thrown.          *)
LEMMA BlankType ==
    /\ Blank \in Tasks
    /\ \A e \in Exceptions : [Blank EXCEPT !.exn = e] \in Tasks
  <1>1. NoExtraction \in AllExtractions
    BY DEF AllExtractions
  <1>2. [entities |-> {}, transcripts |-> {}] \in Index
    BY DEF Index
  <1>3. Blank \in Tasks
    BY <1>1, <1>2 DEF Blank, Tasks, Exceptions
  <1>4. ASSUME NEW e \in Exceptions PROVE [Blank EXCEPT !.exn = e] \in Tasks
    BY <1>3 DEF Tasks
  <1>. QED  BY <1>3, <1>4

LEMMA MoveType ==
    ASSUME NEW w \in Workers, NEW point \in Points, PipelineTypeOK
    PROVE  /\ Goto(w, point) => /\ pc' \in [Workers -> Points]
                                /\ job' \in [Workers -> Messages \cup {NoMessage}]
           /\ \A record \in Tasks : Keep(w, record) => task' \in [Workers -> Tasks]
           /\ \A e \in Exceptions : Throw(w, e) => task' \in [Workers -> Tasks]
           /\ Leave(w, point) => task' \in [Workers -> Tasks]
  <1>. USE DEF PipelineTypeOK, Goto, Keep, Throw, Leave
  <1>1. \A record \in Tasks : Keep(w, record) => task' \in [Workers -> Tasks]
    OBVIOUS
  <1>. QED  BY <1>1, BlankType

(* Before any step: nothing is stored, nothing waits, every worker is idle. *)
THEOREM TypeInit == Init => TypeOK
  <1>. SUFFICES ASSUME Init PROVE TypeOK
    OBVIOUS
  <1>1. StoreTypeOK
    BY DEF Init, StoreInit, StoreTypeOK
  <1>2. QueueTypeOK
    BY DEF Init, QueueInit, QueueTypeOK
  <1>3. ApiTypeOK
    BY TranscriptsAssumption DEF Init, ApiInit, ApiTypeOK
  <1>4. PipelineTypeOK
    BY BlankType, DaysAssumption, PipelineAssumption
    DEF Init, PipelineInit, PipelineTypeOK, Index, Edges, Days, Points
  <1>. QED  BY <1>1, <1>2, <1>3, <1>4 DEF TypeOK

(* TypeInv, and what it says of one busy worker.                            *)
LEMMA BusyWorker ==
    ASSUME TypeInv, NEW w \in Workers, pc[w] # "idle"
    PROVE  /\ job[w] \in Messages
           /\ Id(w) \in Transcripts
           /\ task[w] \in Tasks
  BY DEF TypeInv, TypeOK, WorkersHaveJobs, PipelineTypeOK, Messages, Id

(* What TypeInv says of the workers' table.                                 *)
WorkerTypes ==
    /\ pc \in [Workers -> Points]
    /\ job \in [Workers -> Messages \cup {NoMessage}]
    /\ task \in [Workers -> Tasks]
    /\ WorkersHaveJobs
    /\ EntitiesAtHand

(* Nothing but w's own row of it changes.                                   *)
LEMMA WorkerMoves ==
    ASSUME TypeInv, NEW w \in Workers, NEW point \in Points, NEW record \in Tasks,
           NEW message \in Messages \cup {NoMessage},
           pc' = [pc EXCEPT ![w] = point],
           job' = [job EXCEPT ![w] = message],
           task' = [task EXCEPT ![w] = record],
           point # "idle" => message \in Messages,
           point = "retry" => message.retries < MaxRetries,
           point \in {"open", "write", "markRead", "markWrite"} =>
              record.at \in DOMAIN record.ext.entities /\ record.key \in Keys,
           point \in {"write", "markRead", "markWrite"} => record.path \in Keys
    PROVE  WorkerTypes'
  <1>. USE DEF TypeInv, TypeOK, PipelineTypeOK
  <1>1. WorkersHaveJobs'
    BY DEF WorkersHaveJobs
  <1>2. EntitiesAtHand'
    BY DEF EntitiesAtHand
  <1>. QED  BY <1>1, <1>2 DEF WorkerTypes

(* A worker keeps its message and goes somewhere else.                      *)
LEMMA WorkerGoes ==
    ASSUME TypeInv, NEW w \in Workers, pc[w] # "idle", NEW point \in Points,
           NEW record \in Tasks, Goto(w, point), Keep(w, record),
           point = "retry" => job[w].retries < MaxRetries,
           point \in {"open", "write", "markRead", "markWrite"} =>
              record.at \in DOMAIN record.ext.entities /\ record.key \in Keys,
           point \in {"write", "markRead", "markWrite"} => record.path \in Keys
    PROVE  WorkerTypes'
  <1>1. job' = [job EXCEPT ![w] = job[w]]
    BY DEF Goto, TypeInv, TypeOK, PipelineTypeOK
  <1>2. job[w] \in Messages
    BY BusyWorker
  <1>. QED  BY <1>1, <1>2, WorkerMoves DEF Goto, Keep

(* The same, its locals kept.                                               *)
LEMMA WorkerPasses ==
    ASSUME TypeInv, NEW w \in Workers, pc[w] # "idle", NEW point \in Points,
           Goto(w, point), UNCHANGED task,
           point \notin {"retry", "open", "write", "markRead", "markWrite"}
    PROVE  WorkerTypes'
  <1>1. Keep(w, task[w])
    BY DEF Keep, TypeInv, TypeOK, PipelineTypeOK
  <1>. QED  BY <1>1, BusyWorker, WorkerGoes

(* The worker falls silent, its locals gone with it.                        *)
LEMMA WorkerStops ==
    ASSUME TypeInv, NEW w \in Workers,
           pc' = [pc EXCEPT ![w] = "idle"],
           job' = [job EXCEPT ![w] = NoMessage],
           Keep(w, Blank)
    PROVE  WorkerTypes'
  BY WorkerMoves, BlankType DEF Keep, Points

(* Steps that touch neither the table, the files nor the queue.             *)
LEMMA QuietTypes ==
    ASSUME TypeInv, WorkerTypes',
           UNCHANGED <<storeVars, queueVars, apiVars, fileVars, today, crashes>>
    PROVE  TypeInv'
  BY DEF WorkerTypes, TypeInv, TypeOK, StoreTypeOK, QueueTypeOK, ApiTypeOK, PipelineTypeOK,
         storeVars, queueVars, apiVars, fileVars

(* Taking a message, giving it back, looking at the row, and the extraction.*)
LEMMA AttemptTypes ==
    ASSUME TypeInv, NEW w \in Workers, UNCHANGED apiVars,
           \/ Ack(w) \/ FetchMissing(w) \/ Fetch(w) \/ Refresh(w)
           \/ Extract(w) \/ ExtractNothing(w)
    PROVE  TypeInv'
  <1>. USE DEF Points, TryPoints, CallPoints
  <1>1. CASE Ack(w)
    <2>1. WorkerTypes'
      BY <1>1, WorkerStops DEF Ack
    <2>. QED  BY <1>1, <2>1, QuietTypes DEF Ack
  <1>2. CASE FetchMissing(w)
    <2>1. WorkerTypes'
      BY <1>2, WorkerGoes, BlankType DEF FetchMissing, Throw, Exceptions
    <2>. QED  BY <1>2, <2>1, QuietTypes DEF FetchMissing
  <1>3. CASE Fetch(w)
    <2>1. task[w] \in Tasks /\ status[Id(w)] \in TranscriptStatus
      BY <1>3, BusyWorker DEF Fetch, TypeInv, TypeOK, StoreTypeOK
    <2>2. [task[w] EXCEPT !.seen = status[Id(w)]] \in Tasks
      BY <2>1 DEF Tasks
    <2>3. WorkerTypes'
      BY <1>3, <2>2, WorkerGoes DEF Fetch
    <2>. QED  BY <1>3, <2>3, QuietTypes DEF Fetch
  <1>4. CASE Refresh(w)
    <2>1. task[w] \in Tasks /\ processed[Id(w)] \in SUBSET Keys
      BY <1>4, BusyWorker DEF Refresh, TypeInv, TypeOK, StoreTypeOK
    <2>2. [task[w] EXCEPT !.already = processed[Id(w)]] \in Tasks
      BY <2>1 DEF Tasks
    <2>3. WorkerTypes'
      BY <1>4, <2>2, WorkerGoes DEF Refresh
    <2>. QED  BY <1>4, <2>3, QuietTypes DEF Refresh
  <1>5. CASE Extract(w)
    <2>1. PICK x \in Extractions[Id(w)] : Keep(w, [task[w] EXCEPT !.ext = x])
      BY <1>5 DEF Extract
    <2>2. task[w] \in Tasks /\ Id(w) \in Transcripts
      BY <1>5, BusyWorker DEF Extract
    <2>3. x \in AllExtractions
      BY <2>2 DEF AllExtractions
    <2>4. [task[w] EXCEPT !.ext = x] \in Tasks
      BY <2>2, <2>3 DEF Tasks
    <2>5. WorkerTypes'
      BY <1>5, <2>1, <2>4, WorkerGoes DEF Extract
    <2>. QED  BY <1>5, <2>5, QuietTypes DEF Extract
  <1>6. CASE ExtractNothing(w)
    <2>1. WorkerTypes'
      BY <1>6, WorkerGoes, BlankType DEF ExtractNothing, Throw, Exceptions
    <2>. QED  BY <1>6, <2>1, QuietTypes DEF ExtractNothing
  <1>. QED  BY <1>1, <1>2, <1>3, <1>4, <1>5, <1>6

(* The entity a worker in the loop has before it.                           *)
LEMMA EntityType ==
    ASSUME TypeInv, NEW w \in Workers, pc[w] # "idle",
           task[w].at \in DOMAIN task[w].ext.entities
    PROVE  /\ Entity(w) \in Entities
           /\ EntityKey(Entity(w), today) \in Keys
  <1>1. task[w].ext \in AllExtractions
    BY BusyWorker DEF Tasks
  <1>2. Entity(w) \in Entities
    BY <1>1, ExtractionType DEF Entity
  <1>3. today \in Days
    BY DEF TypeInv, TypeOK, PipelineTypeOK
  <1>. QED  BY <1>2, <1>3, EntityKeyType

(* The loop over entities, up to the write of the file.                     *)
LEMMA LoopTypes ==
    ASSUME TypeInv, NEW w \in Workers, UNCHANGED apiVars,
           \/ SkipEntity(w) \/ StartEntity(w) \/ EndEntities(w)
           \/ OpenFile(w) \/ MarkRead(w)
    PROVE  TypeInv'
  <1>. USE DEF Points, TryPoints, CallPoints
  <1>0. pc[w] # "idle" /\ task[w] \in Tasks
    BY BusyWorker DEF SkipEntity, StartEntity, EndEntities, OpenFile, MarkRead
  <1>1. CASE SkipEntity(w)
    <2>1. [task[w] EXCEPT !.at = @ + 1] \in Tasks
      BY <1>0 DEF Tasks
    <2>2. WorkerTypes'
      BY <1>1, <2>1, WorkerGoes DEF SkipEntity
    <2>. QED  BY <1>1, <2>2, QuietTypes DEF SkipEntity
  <1>2. CASE StartEntity(w)
    <2>1. EntityKey(Entity(w), today) \in Keys
      BY <1>2, EntityType DEF StartEntity
    <2> DEFINE record == [task[w] EXCEPT !.key = EntityKey(Entity(w), today)]
    <2>2. record \in Tasks
      BY <1>0, <2>1 DEF Tasks
    <2>3. /\ record.at = task[w].at
          /\ record.ext = task[w].ext
          /\ record.key \in Keys
      BY <1>0, <2>1 DEF Tasks
    <2>4. Goto(w, "open") /\ Keep(w, record) /\ record.at \in DOMAIN record.ext.entities
      BY <1>2, <2>3 DEF StartEntity
    <2> HIDE DEF record
    <2>5. WorkerTypes'
      BY <1>0, <2>2, <2>3, <2>4, WorkerGoes
    <2>. QED  BY <1>2, <2>5, QuietTypes DEF StartEntity
  <1>3. CASE EndEntities(w)
    <2>1. WorkerTypes'
      BY <1>3, WorkerPasses DEF EndEntities
    <2>. QED  BY <1>3, <2>1, QuietTypes DEF EndEntities
  <1>4. CASE OpenFile(w)
    <2> DEFINE path == EntityKey(Entity(w), today)
               existing == IF path \in MergedKeys THEN mem[path] ELSE {}
               record == [task[w] EXCEPT !.path = path, !.existing = existing]
    <2>1. /\ task[w].at \in DOMAIN task[w].ext.entities
          /\ task[w].key \in Keys
      BY <1>4 DEF OpenFile, TypeInv, EntitiesAtHand
    <2>2. path \in Keys
      BY <1>0, <2>1, EntityType
    <2>3. existing \in SUBSET Transcripts
      BY <2>2 DEF TypeInv, TypeOK, PipelineTypeOK
    <2>4. Goto(w, "write") /\ Keep(w, record)
      BY <1>4 DEF OpenFile
    <2> HIDE DEF path, existing
    <2>5. record \in Tasks
      BY <1>0, <2>2, <2>3 DEF Tasks
    <2>6. /\ record.at \in DOMAIN record.ext.entities
          /\ record.key \in Keys
          /\ record.path \in Keys
      BY <1>0, <2>1, <2>2 DEF Tasks
    <2> HIDE DEF record
    <2>7. WorkerTypes'
      BY <1>0, <2>4, <2>5, <2>6, WorkerGoes
    <2>. QED  BY <1>4, <2>7, QuietTypes DEF OpenFile
  <1>5. CASE MarkRead(w)
    <2> DEFINE record == [task[w] EXCEPT !.marks = processed[Id(w)]]
    <2>1. processed[Id(w)] \in SUBSET Keys
      BY <1>5, BusyWorker DEF MarkRead, TypeInv, TypeOK, StoreTypeOK
    <2>2. record \in Tasks
      BY <1>0, <2>1 DEF Tasks
    <2>3. /\ record.at \in DOMAIN record.ext.entities
          /\ record.key \in Keys
          /\ record.path \in Keys
      BY <1>0, <1>5 DEF Tasks, MarkRead, TypeInv, EntitiesAtHand
    <2>4. Goto(w, "markWrite") /\ Keep(w, record)
      BY <1>5 DEF MarkRead
    <2> HIDE DEF record
    <2>5. WorkerTypes'
      BY <1>0, <2>2, <2>3, <2>4, WorkerGoes
    <2>. QED  BY <1>5, <2>5, QuietTypes DEF MarkRead
  <1>. QED  BY <1>1, <1>2, <1>3, <1>4, <1>5

(* Steps that write the transcripts table or a file.                        *)
LEMMA WriteTypes ==
    ASSUME TypeInv, NEW w \in Workers, UNCHANGED apiVars,
           \/ Lock(w) \/ Complete(w) \/ CompleteReplyLost(w)
           \/ MarkWrite(w) \/ WriteFile(w) \/ WriteGraph(w) \/ WriteIndex(w)
    PROVE  TypeInv'
  <1>. USE DEF Points, TryPoints, CallPoints
  <1>0. pc[w] # "idle" /\ task[w] \in Tasks /\ Id(w) \in Transcripts
    BY BusyWorker DEF Lock, Complete, CompleteReplyLost, MarkWrite, WriteFile, WriteGraph,
                      WriteIndex
  <1>1. ASSUME WorkerTypes', UNCHANGED <<fileVars, queueVars, today, crashes>>, StoreTypeOK'
        PROVE  TypeInv'
    BY <1>1 DEF WorkerTypes, TypeInv, TypeOK, QueueTypeOK, ApiTypeOK, PipelineTypeOK,
                queueVars, apiVars, fileVars
  <1>2. ASSUME WorkerTypes', UNCHANGED <<storeVars, queueVars, today, crashes>>,
               mem' \in [Keys -> SUBSET Transcripts], index' \in Index, graph' \subseteq Edges
        PROVE  TypeInv'
    BY <1>2 DEF WorkerTypes, TypeInv, TypeOK, StoreTypeOK, QueueTypeOK, ApiTypeOK,
                PipelineTypeOK, storeVars, queueVars, apiVars
  <1>3. CASE Lock(w)
    <2>1. WorkerTypes'
      BY <1>3, WorkerPasses DEF Lock
    <2>2. StoreTypeOK'
      BY <1>3 DEF Lock, SetStatus, TypeInv, TypeOK, StoreTypeOK, TranscriptStatus
    <2>. QED  BY <1>1, <1>3, <2>1, <2>2 DEF Lock
  <1>4. CASE Complete(w)
    <2>1. WorkerTypes'
      BY <1>4, WorkerGoes, BlankType DEF Complete, Leave
    <2>2. StoreTypeOK'
      BY <1>4 DEF Complete, SetStatus, TypeInv, TypeOK, StoreTypeOK, TranscriptStatus
    <2>. QED  BY <1>1, <1>4, <2>1, <2>2 DEF Complete
  <1>5. CASE CompleteReplyLost(w)
    <2>1. WorkerTypes'
      BY <1>5, WorkerGoes, BlankType DEF CompleteReplyLost, Throw, Exceptions
    <2>2. StoreTypeOK'
      BY <1>5 DEF CompleteReplyLost, SetStatus, TypeInv, TypeOK, StoreTypeOK, TranscriptStatus
    <2>. QED  BY <1>1, <1>5, <2>1, <2>2 DEF CompleteReplyLost
  <1>6. CASE MarkWrite(w)
    <2> DEFINE next == [task[w] EXCEPT !.at = @ + 1]
               blank == [next EXCEPT !.key = NoKey, !.path = NoKey]
               record == [blank EXCEPT !.existing = {}, !.marks = {}]
    <2>1. next \in Tasks
      BY <1>0 DEF Tasks
    <2>2. Keep(w, record)
      BY <1>6, <1>0 DEF MarkWrite, Tasks
    <2> HIDE DEF next
    <2>3. blank \in Tasks
      BY <2>1 DEF Tasks
    <2> HIDE DEF blank
    <2>4. record \in Tasks
      BY <2>3 DEF Tasks
    <2> HIDE DEF record
    <2>5. WorkerTypes'
      BY <1>6, <2>4, <2>2, WorkerGoes DEF MarkWrite
    <2>6. task[w].key \in Keys /\ task[w].marks \in SUBSET Keys
      BY <1>0, <1>6 DEF MarkWrite, TypeInv, EntitiesAtHand, Tasks
    <2>7. processed' \in [Transcripts -> SUBSET Keys]
      BY <1>6, <2>6 DEF MarkWrite, TypeInv, TypeOK, StoreTypeOK
    <2>8. StoreTypeOK'
      BY <1>6, <2>7 DEF MarkWrite, TypeInv, TypeOK, StoreTypeOK
    <2>. QED  BY <1>1, <1>6, <2>5, <2>8 DEF MarkWrite
  <1>7. CASE WriteFile(w)
    <2>1. WorkerTypes'
      BY <1>7, WorkerGoes, <1>0 DEF WriteFile, TypeInv, TypeOK, PipelineTypeOK, Keep, EntitiesAtHand
    <2>2. task[w].existing \cup {Id(w)} \in SUBSET Transcripts
      BY <1>0 DEF Tasks
    <2>3. mem' \in [Keys -> SUBSET Transcripts]
      BY <1>7, <2>2 DEF WriteFile, TypeInv, TypeOK, PipelineTypeOK
    <2>. QED  BY <1>2, <1>7, <2>1, <2>3 DEF WriteFile, TypeInv, TypeOK, PipelineTypeOK
  <1>8. CASE WriteGraph(w)
    <2>1. WorkerTypes'
      BY <1>8, WorkerPasses DEF WriteGraph
    <2>2. graph' \subseteq Edges
      BY <1>0, <1>8 DEF WriteGraph, Tasks
    <2>. QED  BY <1>2, <1>8, <2>1, <2>2 DEF WriteGraph, TypeInv, TypeOK, PipelineTypeOK
  <1>9. CASE WriteIndex(w)
    <2>1. WorkerTypes'
      BY <1>9, WorkerPasses DEF WriteIndex
    <2>2. index' \in Index
      BY <1>0, <1>9 DEF WriteIndex, Tasks
    <2>. QED  BY <1>2, <1>9, <2>1, <2>2 DEF WriteIndex, TypeInv, TypeOK, PipelineTypeOK
  <1>. QED  BY <1>3, <1>4, <1>5, <1>6, <1>7, <1>8, <1>9

(* Reading the index and the graph, and adding to what was read.            *)
LEMMA IndexTypes ==
    ASSUME TypeInv, NEW w \in Workers, UNCHANGED apiVars, ReadIndex(w) \/ ReadGraph(w)
    PROVE  TypeInv'
  <1>. USE DEF Points, TryPoints, CallPoints
  <1>0. pc[w] # "idle" /\ task[w] \in Tasks /\ Id(w) \in Transcripts
    BY BusyWorker DEF ReadIndex, ReadGraph
  <1>1. /\ task[w].ext.entities \in Seq(Entities)
        /\ task[w].ext.relationships \subseteq Relations
    BY <1>0, ExtractionType DEF Tasks
  <1>2. CASE ReadIndex(w)
    <2> DEFINE keys == { EntityKey(task[w].ext.entities[i], today) :
                            i \in DOMAIN task[w].ext.entities }
               idx == [entities    |-> index.entities \cup keys,
                       transcripts |-> index.transcripts \cup {Id(w)}]
               record == [task[w] EXCEPT !.idx = idx]
               point == IF task[w].ext.relationships = {} THEN "indexWrite" ELSE "graph"
    <2>1. today \in Days /\ index \in Index
      BY DEF TypeInv, TypeOK, PipelineTypeOK
    <2>2. keys \subseteq Keys
      BY <1>1, <2>1, EntityKeyType
    <2>3. Goto(w, point) /\ Keep(w, record)
      BY <1>2 DEF ReadIndex
    <2> HIDE DEF keys
    <2>4. idx \in Index
      BY <1>0, <2>1, <2>2 DEF Index
    <2> HIDE DEF idx
    <2>5. record \in Tasks
      BY <1>0, <2>4 DEF Tasks
    <2> HIDE DEF record
    <2>6. WorkerTypes'
      BY <1>0, <2>3, <2>5, WorkerGoes
    <2>. QED  BY <1>2, <2>6, QuietTypes DEF ReadIndex
  <1>3. CASE ReadGraph(w)
    <2> DEFINE net == graph \cup (task[w].ext.relationships \X {Id(w)})
               record == [task[w] EXCEPT !.net = net]
    <2>1. net \in SUBSET Edges
      BY <1>0, <1>1 DEF TypeInv, TypeOK, PipelineTypeOK, Edges
    <2>2. Goto(w, "graphWrite") /\ Keep(w, record)
      BY <1>3 DEF ReadGraph
    <2> HIDE DEF net
    <2>3. record \in Tasks
      BY <1>0, <2>1 DEF Tasks
    <2> HIDE DEF record
    <2>4. WorkerTypes'
      BY <1>0, <2>2, <2>3, WorkerGoes
    <2>. QED  BY <1>3, <2>4, QuietTypes DEF ReadGraph
  <1>. QED  BY <1>2, <1>3

(* A message more, or one taken, leaves a bag of messages.                  *)
LEMMA QueueTypes ==
    ASSUME QueueTypeOK, NEW m \in Messages
    PROVE  /\ Publish(m) => queue' \in [Messages -> Nat]
           /\ Consume(m) => queue' \in [Messages -> Nat]
  BY DEF QueueTypeOK, Publish, Consume

(* Steps that end or hand over a job.                                       *)
LEMMA JobTypes ==
    ASSUME TypeInv, WorkerTypes', StoreTypeOK', QueueTypeOK',
           UNCHANGED <<apiVars, fileVars, today>>, crashes' \in 0 .. MaxCrashes
    PROVE  TypeInv'
  BY DEF WorkerTypes, TypeInv, TypeOK, ApiTypeOK, PipelineTypeOK, apiVars, fileVars

(* Skips, the exception handlers, and the soft limit.                       *)
LEMMA HandlerTypes ==
    ASSUME TypeInv, NEW w \in Workers, UNCHANGED apiVars,
           \/ FetchCompleted(w) \/ RefreshCompleted(w)
           \/ GiveUp(w) \/ GiveUpUnmarked(w) \/ DropValueError(w) \/ TryAgain(w)
           \/ MarkTimedOut(w) \/ TimedOutUnmarked(w) \/ TimedOutReplyLost(w)
           \/ RetryRefused(w) \/ CallFails(w) \/ SoftLimit(w)
    PROVE  TypeInv'
  <1>. USE DEF Points, TryPoints, CallPoints
  <1>0. pc[w] # "idle" /\ job[w] \in Messages /\ Id(w) \in Transcripts
    BY BusyWorker DEF FetchCompleted, RefreshCompleted, GiveUp, GiveUpUnmarked,
       DropValueError, TryAgain, MarkTimedOut, TimedOutUnmarked, TimedOutReplyLost,
       RetryRefused, CallFails, SoftLimit
  <1>. USE DEF Skip, Leave, Throw, Exceptions
  <1>1. WorkerTypes'
    <2>1. ~LastAttempt(w) => job[w].retries < MaxRetries
      BY <1>0, RetriesAssumption DEF LastAttempt, Messages
    <2>2. CASE FetchCompleted(w) \/ RefreshCompleted(w)
      BY <1>0, <2>2, WorkerGoes, BlankType DEF FetchCompleted, RefreshCompleted
    <2>3. CASE GiveUp(w) \/ GiveUpUnmarked(w) \/ DropValueError(w)
      BY <1>0, <2>3, WorkerGoes, BlankType DEF GiveUp, GiveUpUnmarked, DropValueError
    <2>4. CASE TryAgain(w)
      BY <1>0, <2>1, <2>4, WorkerGoes, BlankType DEF TryAgain
    <2>5. CASE MarkTimedOut(w) \/ RetryRefused(w)
      BY <1>0, <2>5, WorkerPasses DEF MarkTimedOut, RetryRefused
    <2>6. CASE TimedOutUnmarked(w)
      <3>1. Keep(w, task[w]) /\ task[w] \in Tasks
        BY <1>0, <2>6, BusyWorker DEF TimedOutUnmarked, Keep, TypeInv, TypeOK, PipelineTypeOK
      <3>. QED  BY <1>0, <2>1, <2>6, <3>1, WorkerGoes DEF TimedOutUnmarked
    <2>8. CASE TimedOutReplyLost(w)
      <3>1. Keep(w, task[w]) /\ task[w] \in Tasks
        BY <1>0, <2>8, BusyWorker DEF TimedOutReplyLost, Keep, TypeInv, TypeOK, PipelineTypeOK
      <3>. QED  BY <1>0, <2>1, <2>8, <3>1, WorkerGoes DEF TimedOutReplyLost
    <2>7. CASE CallFails(w) \/ SoftLimit(w)
      BY <1>0, <2>7, WorkerGoes, BlankType DEF CallFails, SoftLimit
    <2>. QED  BY <2>2, <2>3, <2>4, <2>5, <2>6, <2>7, <2>8
  <1>2. /\ StoreTypeOK'
        /\ QueueTypeOK'
        /\ UNCHANGED <<fileVars, today>>
    <2>. USE <1>0 DEF TypeInv, TypeOK, StoreTypeOK, QueueTypeOK, TranscriptStatus, Drop,
             UpdateFailed, SetStatus, storeVars, queueVars
    <2>1. CASE FetchCompleted(w) \/ RefreshCompleted(w)
      BY <2>1 DEF FetchCompleted, RefreshCompleted
    <2>2. CASE GiveUp(w)
      BY <2>2 DEF GiveUp
    <2>3. CASE GiveUpUnmarked(w) \/ DropValueError(w)
      BY <2>3 DEF GiveUpUnmarked, DropValueError
    <2>4. CASE TryAgain(w) \/ RetryRefused(w)
      BY <2>4 DEF TryAgain, RetryRefused
    <2>5. CASE MarkTimedOut(w) \/ TimedOutReplyLost(w)
      BY <2>5 DEF MarkTimedOut, TimedOutReplyLost
    <2>6. CASE TimedOutUnmarked(w)
      BY <2>6 DEF TimedOutUnmarked
    <2>7. CASE CallFails(w) \/ SoftLimit(w)
      BY <2>7 DEF CallFails, SoftLimit
    <2>. QED  BY <2>1, <2>2, <2>3, <2>4, <2>5, <2>6, <2>7
  <1>3. crashes' \in 0 .. MaxCrashes
    <2>1. CASE TimedOutReplyLost(w)
      BY <2>1, <1>0, PipelineAssumption DEF TimedOutReplyLost, TypeInv, TypeOK, PipelineTypeOK
    <2>2. CASE UNCHANGED crashes
      BY <2>2, <1>0 DEF TypeInv, TypeOK, PipelineTypeOK
    <2>. QED
      BY <1>0, <2>1, <2>2 DEF FetchCompleted, RefreshCompleted, GiveUp, GiveUpUnmarked,
         DropValueError, TryAgain, MarkTimedOut, TimedOutUnmarked, RetryRefused, CallFails, SoftLimit
  <1>. QED  BY <1>1, <1>2, <1>3, JobTypes DEF TypeInv, TypeOK, PipelineTypeOK

(* Deliveries, retries, and workers that are killed or lost.                *)
LEMMA DeliveryTypes ==
    ASSUME TypeInv, NEW w \in Workers, UNCHANGED apiVars,
           Deliver(w) \/ Retry(w) \/ HardLimit(w) \/ Crash(w)
    PROVE  TypeInv'
  <1>. USE DEF Points, TryPoints, CallPoints
  <1>1. StoreTypeOK' /\ UNCHANGED <<fileVars, today>>
    BY DEF TypeInv, TypeOK, StoreTypeOK, storeVars, Deliver, Retry, HardLimit, Crash
  <1>2. CASE Deliver(w)
    <2>1. PICK m \in Messages : Consume(m) /\ job' = [job EXCEPT ![w] = m]
      BY <1>2 DEF Deliver
    <2>2. Keep(w, task[w]) /\ task[w] \in Tasks
      BY <1>2 DEF Deliver, Keep, TypeInv, TypeOK, PipelineTypeOK
    <2>3. WorkerTypes'
      BY <1>2, <2>1, <2>2, WorkerMoves DEF Deliver, Keep
    <2>4. QueueTypeOK'
      BY <1>2, <2>1, QueueTypes DEF Deliver, TypeInv, TypeOK, QueueTypeOK
    <2>. QED  BY <1>1, <1>2, <2>3, <2>4, JobTypes DEF Deliver, TypeInv, TypeOK, PipelineTypeOK
  <1>3. CASE Retry(w)
    <2>1. WorkerTypes'
      BY <1>3, WorkerPasses DEF Retry
    <2>2. job[w] \in Messages /\ job[w].retries < MaxRetries
      BY <1>3, BusyWorker DEF Retry, TypeInv, WorkersHaveJobs
    <2>3. [job[w] EXCEPT !.retries = @ + 1] \in Messages
      BY <2>2, RetriesAssumption DEF Messages
    <2>4. QueueTypeOK'
      BY <1>3, <2>3, QueueTypes DEF Retry, TypeInv, TypeOK, QueueTypeOK
    <2>. QED  BY <1>1, <1>3, <2>1, <2>4, JobTypes DEF Retry, TypeInv, TypeOK, PipelineTypeOK
  <1>4. CASE HardLimit(w)
    <2>1. WorkerTypes'
      BY <1>4, WorkerStops DEF HardLimit
    <2>2. QueueTypeOK'
      BY <1>4, BusyWorker DEF HardLimit, Drop, TypeInv, TypeOK, QueueTypeOK
    <2>. QED  BY <1>1, <1>4, <2>1, <2>2, JobTypes DEF HardLimit, TypeInv, TypeOK, PipelineTypeOK
  <1>5. CASE Crash(w)
    <2>1. WorkerTypes'
      BY <1>5, WorkerStops DEF Crash
    <2>2. QueueTypeOK'
      BY <1>5, BusyWorker, QueueTypes DEF Crash, TypeInv, TypeOK, QueueTypeOK
    <2>3. crashes' \in 0 .. MaxCrashes
      BY <1>5, PipelineAssumption DEF Crash, TypeInv, TypeOK, PipelineTypeOK
    <2>. QED  BY <1>1, <1>5, <2>1, <2>2, <2>3, JobTypes
  <1>. QED  BY <1>2, <1>3, <1>4, <1>5

(* The API and the clock.                                                   *)
LEMMA ApiTypes ==
    ASSUME TypeInv, ApiNext, UNCHANGED pipelineVars
    PROVE  TypeInv'
  <1>. USE DEF TypeInv, TypeOK, StoreTypeOK, QueueTypeOK, ApiTypeOK, PipelineTypeOK,
           WorkersHaveJobs, EntitiesAtHand, Id, pipelineVars, fileVars, workerVars,
           storeVars, queueVars
  <1>0. ASSUME NEW t \in Transcripts
        PROVE  [id |-> t, retries |-> 0] \in Messages
    BY RetriesAssumption DEF Messages
  <1>1. CASE \E t \in Transcripts : CreateFlush(t) \/ CreateCommit(t) \/ CreateRollback(t)
    BY <1>1 DEF CreateFlush, CreateCommit, CreateRollback, SetStatus, TranscriptStatus
  <1>2. CASE \E t \in Transcripts : CreateEnqueue(t)
    <2>1. PICK t \in Transcripts : CreateEnqueue(t)
      BY <1>2
    <2>2. queue' \in [Messages -> Nat]
      BY <2>1, <1>0, QueueTypes DEF CreateEnqueue, Delay
    <2>. QED  BY <2>1, <2>2 DEF CreateEnqueue
  <1>3. CASE \E r \in Requests, t \in Transcripts : RetryRead(r, t)
    <2>1. PICK r \in Requests, t \in Transcripts : RetryRead(r, t)
      BY <1>3
    <2>2. reqDiff' \in [Requests -> SUBSET Columns]
      BY <2>1 DEF RetryRead
    <2>. QED  BY <2>1, <2>2 DEF RetryRead
  <1>4. CASE \E r \in Requests : RetryFlush(r) \/ RetryRollback(r)
    BY <1>4 DEF RetryFlush, RetryRollback, Unlock
  <1>5. CASE \E r \in Requests : RetryEnqueue(r)
    <2>1. PICK r \in Requests : RetryEnqueue(r)
      BY <1>5
    <2>2. queue' \in [Messages -> Nat]
      BY <2>1, <1>0, QueueTypes DEF RetryEnqueue, Delay
    <2>. QED  BY <2>1, <2>2 DEF RetryEnqueue
  <1>6. CASE \E r \in Requests : RetryCommit(r)
    <2>1. PICK r \in Requests : RetryCommit(r)
      BY <1>6
    <2>2. status' \in [Transcripts -> TranscriptStatus \cup {"absent"}]
      BY <2>1 DEF RetryCommit, TranscriptStatus
    <2>3. error' \in [Transcripts -> BOOLEAN]
      BY <2>1 DEF RetryCommit
    <2>4. processed' \in [Transcripts -> SUBSET Keys]
      BY <2>1 DEF RetryCommit
    <2>5. rowLock' \in [Transcripts -> Requests \cup {NoRequest}]
      BY <2>1 DEF RetryCommit, Unlock
    <2>. QED  BY <2>1, <2>2, <2>3, <2>4, <2>5 DEF RetryCommit
  <1>. QED  BY <1>1, <1>2, <1>3, <1>4, <1>5, <1>6 DEF ApiNext, CreateStep, RetryStep

LEMMA MidnightTypes ==
    ASSUME TypeInv, Midnight, UNCHANGED apiVars
    PROVE  TypeInv'
  <1>1. today' \in Days
    BY DaysAssumption DEF Midnight, TypeInv, TypeOK, PipelineTypeOK, Days
  <1>. QED  BY <1>1 DEF Midnight, TypeInv, TypeOK, StoreTypeOK, QueueTypeOK, ApiTypeOK,
               PipelineTypeOK, WorkersHaveJobs, EntitiesAtHand, Id, fileVars, workerVars,
               storeVars, queueVars, apiVars

LEMMA TypeStep == TypeInv /\ [Next]_vars => TypeInv'
  <1>. SUFFICES ASSUME TypeInv, [Next]_vars PROVE TypeInv'
    OBVIOUS
  <1>1. CASE ApiNext /\ UNCHANGED pipelineVars
    BY <1>1, ApiTypes
  <1>2. CASE PipelineNext /\ UNCHANGED apiVars
    BY <1>2, AttemptTypes, LoopTypes, WriteTypes, IndexTypes, HandlerTypes, DeliveryTypes,
       MidnightTypes DEF PipelineNext, Step, Fault
  <1>3. CASE UNCHANGED vars
    BY <1>3 DEF vars, TypeInv, TypeOK, StoreTypeOK, QueueTypeOK, ApiTypeOK,
       PipelineTypeOK, WorkersHaveJobs, EntitiesAtHand, Id, pipelineVars, fileVars, workerVars,
       storeVars, queueVars, apiVars
  <1>. QED  BY <1>1, <1>2, <1>3 DEF Next

(* A busy worker has the message, the entity, the key and the file that its *)
(* next step uses (tasks.py, pipeline.py): no step reads a local that was   *)
(* not set.                                                                 *)
THEOREM LocalsAreSet == Spec => []TypeInv
  <1>1. Init => TypeInv
    BY TypeInit DEF TypeInv, Init, PipelineInit, WorkersHaveJobs, EntitiesAtHand
  <1>. QED  BY <1>1, TypeStep, PTL DEF Spec

(* Every variable stays in its type: transcript states, queue counts and    *)
(* file contents are what the schema and the code say they are.             *)
THEOREM TypeCorrect == Spec => []TypeOK
  <1>1. TypeInv => TypeOK
    BY DEF TypeInv
  <1>. QED  BY <1>1, LocalsAreSet, PTL

-------------------------------------------------------------------------------
(* Row locks and row visibility.                                            *)

(* The steps of a worker that write the transcripts table.                  *)
StoreWrite(w) ==
    \/ Lock(w) \/ MarkWrite(w) \/ Complete(w) \/ CompleteReplyLost(w)
    \/ GiveUp(w) \/ MarkTimedOut(w) \/ TimedOutReplyLost(w)

LEMMA StoreWriters ==
    ASSUME NEW w \in Workers, Step(w) \/ Fault(w), ~StoreWrite(w)
    PROVE  UNCHANGED storeVars
  <1>1. ASSUME Fault(w) PROVE UNCHANGED storeVars
    BY <1>1 DEF StoreWrite, Fault, CallFails, SoftLimit, HardLimit, Crash, GiveUpUnmarked,
       RetryRefused, TimedOutUnmarked
  <1>2. ASSUME Step(w) PROVE UNCHANGED storeVars
    BY <1>2 DEF StoreWrite, Step, Deliver, Ack, FetchMissing, FetchCompleted, Fetch,
       RefreshCompleted, Refresh, Extract, ExtractNothing, SkipEntity, StartEntity,
       EndEntities, OpenFile, WriteFile, MarkRead, ReadIndex, ReadGraph, WriteGraph,
       WriteIndex, DropValueError, TryAgain, Retry
  <1>. QED  BY <1>1, <1>2

(* Workers take no lock that outlives a step, and neither create rows nor   *)
(* make them vanish.                                                        *)
LEMMA WorkerRows ==
    ASSUME JobsInv, NEW w \in Workers, Step(w) \/ Fault(w)
    PROVE  /\ rowLock' = rowLock
           /\ \A t \in Transcripts : status'[t] = "absent" <=> status[t] = "absent"
  <1>. USE DEF JobsInv, TypeInv, TypeOK, StoreTypeOK, storeVars, SetStatus
  <1>1. CASE Lock(w)
    BY <1>1 DEF Lock, RowsAreCommitted, TryPoints, CallPoints
  <1>2. CASE Complete(w)
    BY <1>2 DEF Complete, RowsAreCommitted, TryPoints, CallPoints
  <1>3. CASE CompleteReplyLost(w)
    BY <1>3 DEF CompleteReplyLost, RowsAreCommitted, TryPoints, CallPoints
  <1>4. CASE GiveUp(w)
    BY <1>4 DEF GiveUp, UpdateFailed
  <1>5. CASE MarkTimedOut(w) \/ TimedOutReplyLost(w)
    BY <1>5 DEF MarkTimedOut, TimedOutReplyLost, UpdateFailed
  <1>6. CASE MarkWrite(w)
    BY <1>6 DEF MarkWrite
  <1>. QED  BY <1>1, <1>2, <1>3, <1>4, <1>5, <1>6, StoreWriters DEF StoreWrite

LEMMA LocksStep == JobsInv /\ [Next]_vars => LocksAreHeld'
  <1>. SUFFICES ASSUME JobsInv, [Next]_vars PROVE LocksAreHeld'
    OBVIOUS
  <1>. USE DEF JobsInv, TypeInv, TypeOK, StoreTypeOK, ApiTypeOK, LocksAreHeld, Transaction
  <1>1. ASSUME UNCHANGED <<rowLock, apiVars>> PROVE LocksAreHeld'
    BY <1>1 DEF apiVars
  <1>2. CASE PipelineNext /\ UNCHANGED apiVars
    BY <1>1, <1>2, WorkerRows DEF PipelineNext, Midnight, storeVars
  <1>3. CASE UNCHANGED vars
    BY <1>1, <1>3 DEF vars, storeVars
  <1>4. CASE \E t \in Transcripts : CreateFlush(t) \/ CreateStep(t) \/ CreateRollback(t)
    BY <1>4 DEF CreateFlush, CreateStep, CreateEnqueue, CreateCommit, CreateRollback, storeVars
  <1>5. CASE \E r \in Requests, t \in Transcripts : RetryRead(r, t)
    BY <1>5 DEF RetryRead, storeVars
  <1>6. CASE \E r \in Requests : RetryFlush(r)
    BY <1>6, RequestsAssumption DEF RetryFlush, Unlocked
  <1>7. CASE \E r \in Requests : RetryEnqueue(r)
    BY <1>7 DEF RetryEnqueue, storeVars
  <1>8. CASE \E r \in Requests : RetryCommit(r)
    BY <1>8, RequestsAssumption DEF RetryCommit, Unlock
  <1>9. CASE \E r \in Requests : RetryRollback(r)
    BY <1>9, RequestsAssumption DEF RetryRollback, Unlock
  <1>. QED  BY <1>2, <1>3, <1>4, <1>5, <1>6, <1>7, <1>8, <1>9 DEF Next, ApiNext, RetryStep

(* A worker past its first look at the row keeps it in sight.               *)
LEMMA WorkerSees ==
    ASSUME JobsInv, NEW w \in Workers, Step(w) \/ Fault(w),
           NEW v \in Workers, pc'[v] \in TryPoints \ {"fetch"}
    PROVE  job'[v] = job[v] /\ status[Id(v)] # "absent"
  <1>. USE DEF JobsInv, TypeInv, TypeOK, PipelineTypeOK, RowsAreCommitted, Goto, Leave, Throw,
           Skip, TryPoints, CallPoints
  <1>1. ASSUME Fault(w) PROVE job'[v] = job[v] /\ status[Id(v)] # "absent"
    BY <1>1 DEF Fault, CallFails, SoftLimit, HardLimit, Crash, GiveUpUnmarked,
       RetryRefused, TimedOutUnmarked, TimedOutReplyLost, CompleteReplyLost
  <1>2. CASE Deliver(w) \/ Ack(w)
    BY <1>2 DEF Deliver, Ack
  <1>3. CASE FetchMissing(w) \/ FetchCompleted(w) \/ Fetch(w)
    BY <1>3 DEF FetchMissing, FetchCompleted, Fetch
  <1>4. CASE Lock(w) \/ RefreshCompleted(w) \/ Refresh(w) \/ Extract(w) \/ ExtractNothing(w)
    BY <1>4 DEF Lock, RefreshCompleted, Refresh, Extract, ExtractNothing
  <1>5. CASE SkipEntity(w) \/ StartEntity(w) \/ EndEntities(w) \/ OpenFile(w)
             \/ WriteFile(w) \/ MarkRead(w) \/ MarkWrite(w)
    BY <1>5 DEF SkipEntity, StartEntity, EndEntities, OpenFile, WriteFile, MarkRead, MarkWrite
  <1>6. CASE ReadIndex(w) \/ ReadGraph(w) \/ WriteGraph(w) \/ WriteIndex(w) \/ Complete(w)
    BY <1>6 DEF ReadIndex, ReadGraph, WriteGraph, WriteIndex, Complete
  <1>7. CASE GiveUp(w) \/ DropValueError(w) \/ TryAgain(w) \/ Retry(w) \/ MarkTimedOut(w)
    BY <1>7 DEF GiveUp, DropValueError, TryAgain, Retry, MarkTimedOut
  <1>. QED  BY <1>1, <1>2, <1>3, <1>4, <1>5, <1>6, <1>7 DEF Step

LEMMA RowsStep == JobsInv /\ [Next]_vars => RowsAreCommitted'
  <1>. SUFFICES ASSUME JobsInv, [Next]_vars PROVE RowsAreCommitted'
    OBVIOUS
  <1>. USE DEF JobsInv, TypeInv, TypeOK, StoreTypeOK, ApiTypeOK
  <1>1. ASSUME NEW w \in Workers, Step(w) \/ Fault(w), UNCHANGED apiVars
        PROVE  RowsAreCommitted'
    <2>1. \A t \in Transcripts : status'[t] = "absent" <=> status[t] = "absent"
      BY <1>1, WorkerRows
    <2>2. ASSUME NEW v \in Workers, pc'[v] \in TryPoints \ {"fetch"}
          PROVE  status'[Id(v)'] # "absent"
      <3>1. Id(v)' = Id(v) /\ status[Id(v)] # "absent"
        BY <1>1, <2>2, WorkerSees DEF Id
      <3>2. pc'[v] # "idle" => job'[v] \in Messages
        BY <1>1, TypeStep DEF Next, PipelineNext, TypeInv, WorkersHaveJobs
      <3>3. Id(v)' \in Transcripts
        BY <2>2, <3>2 DEF Id, Messages, TryPoints, CallPoints
      <3>. QED  BY <2>1, <3>1, <3>3
    <2>. QED  BY <1>1, <2>1, <2>2 DEF RowsAreCommitted, apiVars
  <1>2. ASSUME UNCHANGED <<status, apiVars, workerVars>> PROVE RowsAreCommitted'
    BY <1>2 DEF RowsAreCommitted, apiVars, workerVars, Id
  <1>3. CASE PipelineNext /\ UNCHANGED apiVars
    BY <1>1, <1>2, <1>3 DEF PipelineNext, Midnight, storeVars
  <1>4. CASE UNCHANGED vars
    BY <1>2, <1>4 DEF vars, storeVars, pipelineVars
  <1>5. CASE ApiNext /\ UNCHANGED pipelineVars
    <2>. USE <1>5 DEF RowsAreCommitted, Id, pipelineVars, workerVars
    <2>0. \A w \in Workers : pc[w] \in TryPoints \ {"fetch"} => Id(w) \in Transcripts
      BY BusyWorker DEF TryPoints, CallPoints
    <2>1. CASE \E t \in Transcripts : CreateFlush(t) \/ CreateEnqueue(t) \/ CreateRollback(t)
      BY <2>1 DEF CreateFlush, CreateEnqueue, CreateRollback, storeVars
    <2>2. CASE \E t \in Transcripts : CreateCommit(t)
      BY <2>0, <2>2 DEF CreateCommit, SetStatus
    <2>3. CASE \E r \in Requests, t \in Transcripts : RetryRead(r, t)
      BY <2>3 DEF RetryRead, storeVars
    <2>4. CASE \E r \in Requests : RetryFlush(r) \/ RetryEnqueue(r) \/ RetryRollback(r)
      BY <2>4 DEF RetryFlush, RetryEnqueue, RetryRollback, storeVars
    <2>5. CASE \E r \in Requests : RetryCommit(r)
      <3>1. PICK r \in Requests : RetryCommit(r)
        BY <2>5
      <3>2. \A t \in Transcripts : status'[t] = "absent" <=> status[t] = "absent"
        BY <3>1 DEF RetryCommit
      <3>3. UNCHANGED <<posting, reqFor>> /\ reqPc' = [reqPc EXCEPT ![r] = "done"]
        BY <3>1 DEF RetryCommit
      <3>4. reqPc[r] # "idle"
        BY <3>1 DEF RetryCommit
      <3>. QED  BY <2>0, <3>2, <3>3, <3>4
    <2>. QED  BY <1>5, <2>1, <2>2, <2>3, <2>4, <2>5 DEF ApiNext, CreateStep, RetryStep
  <1>. QED  BY <1>3, <1>4, <1>5 DEF Next

-------------------------------------------------------------------------------
(* Who answers for a transcript.                                            *)

(* The row got its outcome while no retry call was about to change it.      *)
Settled(t) ==
    /\ Unlocked(t)
    /\ status[t] # "absent"
    /\ status'[t] \in {"completed", "failed"}

(* Only w's hold on its own transcript is in question: the others keep      *)
(* theirs, the queue loses no message and no drop is forgotten.             *)
LEMMA OthersAccount ==
    ASSUME JobsInv, TypeInv', NEW w \in Workers, NEW t \in Transcripts, Accounted(t),
           \A v \in Workers \ {w} : pc'[v] = pc[v] /\ job'[v] = job[v],
           \A m \in Messages : queue'[m] >= queue[m],
           dropped \subseteq dropped',
           pc[w] \in Owing /\ Id(w) = t => Accounted(t)'
    PROVE  Accounted(t)'
  <1>1. CASE t \in dropped
    BY <1>1 DEF Accounted
  <1>2. CASE Queued(t)
    BY <1>2 DEF Accounted, Owned, Queued, JobsInv, TypeInv, TypeOK, QueueTypeOK
  <1>3. CASE \E v \in Workers \ {w} : pc[v] \in Owing /\ Id(v) = t
    BY <1>3 DEF Accounted, Owned, Id
  <1>. QED  BY <1>1, <1>2, <1>3 DEF Accounted, Owned

(* A worker that goes on owing its own transcript.                          *)
LEMMA StillAccounts ==
    ASSUME JobsInv, TypeInv', NEW w \in Workers, NEW t \in Transcripts, Accounted(t),
           NEW point \in Owing, Goto(w, point), UNCHANGED queueVars
    PROVE  Accounted(t)'
  <1>1. pc'[w] \in Owing /\ job'[w] = job[w]
    BY DEF Goto, JobsInv, TypeInv, TypeOK, PipelineTypeOK
  <1>2. pc[w] \in Owing /\ Id(w) = t => Accounted(t)'
    BY <1>1 DEF Accounted, Owned, Id
  <1>. QED  BY <1>2, OthersAccount DEF Goto, queueVars, JobsInv, TypeInv, TypeOK, PipelineTypeOK,
               QueueTypeOK

(* A worker that drops its own transcript.                                  *)
LEMMA DropAccounts ==
    ASSUME JobsInv, TypeInv', NEW w \in Workers, NEW t \in Transcripts, Accounted(t),
           \A v \in Workers \ {w} : pc'[v] = pc[v] /\ job'[v] = job[v],
           Drop(Id(w)), UNCHANGED queue
    PROVE  Accounted(t)'
  <1>1. Id(w) = t => Accounted(t)'
    BY DEF Drop, Accounted
  <1>. QED  BY <1>1, OthersAccount DEF Drop, JobsInv, TypeInv, TypeOK, QueueTypeOK

(* A worker that leaves its own transcript settled.                         *)
LEMMA SettleAccounts ==
    ASSUME JobsInv, TypeInv', NEW w \in Workers, NEW t \in Transcripts, Accounted(t),
           \A v \in Workers \ {w} : pc'[v] = pc[v] /\ job'[v] = job[v],
           Id(w) = t /\ pc[w] \in Owing => Settled(t), UNCHANGED queueVars
    PROVE  Accounted(t)' \/ Settled(t)
  BY OthersAccount DEF queueVars, JobsInv, TypeInv, TypeOK, QueueTypeOK

(* A worker that leaves a message for its own transcript.                   *)
LEMMA PublishAccounts ==
    ASSUME JobsInv, TypeInv', NEW w \in Workers, NEW t \in Transcripts, Accounted(t),
           \A v \in Workers \ {w} : pc'[v] = pc[v] /\ job'[v] = job[v],
           NEW m \in Messages, m.id = Id(w), Publish(m), UNCHANGED dropped
    PROVE  Accounted(t)'
  <1>1. queue \in [Messages -> Nat]
    BY DEF JobsInv, TypeInv, TypeOK, QueueTypeOK
  <1>2. \A n \in Messages : queue'[n] >= queue[n]
    BY <1>1 DEF Publish
  <1>3. queue'[m] > 0
    BY <1>1 DEF Publish
  <1>4. Id(w) = t => Accounted(t)'
    BY <1>3 DEF Accounted, Owned, Queued
  <1>. QED  BY <1>2, <1>4, OthersAccount

(* A message becomes a worker's.                                            *)
LEMMA DeliverAccounts ==
    ASSUME JobsInv, NEW w \in Workers, NEW t \in Transcripts, Accounted(t), Deliver(w)
    PROVE  Accounted(t)'
  <1>1. PICK m \in Messages : Consume(m) /\ job' = [job EXCEPT ![w] = m]
    BY DEF Deliver
  <1>. USE DEF JobsInv, TypeInv, TypeOK, PipelineTypeOK, QueueTypeOK
  <1>2. pc'[w] \in Owing /\ Id(w)' = m.id
    BY <1>1 DEF Deliver, Id, Owing, Points, TryPoints, CallPoints
  <1>3. \A v \in Workers \ {w} : pc'[v] = pc[v] /\ job'[v] = job[v]
    BY <1>1 DEF Deliver
  <1>4. CASE t \in dropped
    BY <1>4 DEF Deliver, Accounted
  <1>5. CASE \E v \in Workers : pc[v] \in Owing /\ Id(v) = t
    BY <1>3, <1>5 DEF Deliver, Accounted, Owned, Id, Owing
  <1>6. CASE Queued(t)
    <2>1. PICK n \in Messages : n.id = t /\ queue[n] > 0
      BY <1>6 DEF Queued
    <2>2. CASE n = m
      BY <1>2, <2>1, <2>2 DEF Accounted, Owned
    <2>3. CASE n # m
      <3>1. queue'[n] > 0
        BY <1>1, <2>1, <2>3 DEF Consume
      <3>. QED  BY <2>1, <3>1 DEF Accounted, Owned, Queued
    <2>. QED  BY <2>2, <2>3
  <1>. QED  BY <1>4, <1>5, <1>6 DEF Accounted, Owned

LEMMA WorkerAccounts ==
    ASSUME JobsInv, TypeInv', NEW w \in Workers, Step(w) \/ Fault(w),
           NEW t \in Transcripts, Accounted(t)
    PROVE  Accounted(t)' \/ Settled(t)
  <1>. USE DEF Owing, Points, TryPoints, CallPoints
  <1>0. ASSUME NEW point \in Points, Goto(w, point)
        PROVE  \A v \in Workers \ {w} : pc'[v] = pc[v] /\ job'[v] = job[v]
    BY <1>0 DEF Goto, JobsInv, TypeInv, TypeOK, PipelineTypeOK
  <1>1. CASE \/ Fetch(w) \/ FetchMissing(w) \/ Lock(w) \/ Refresh(w) \/ Extract(w)
             \/ ExtractNothing(w) \/ SkipEntity(w) \/ StartEntity(w) \/ EndEntities(w)
    BY <1>1, StillAccounts DEF Fetch, FetchMissing, Lock, Refresh, Extract, ExtractNothing,
       SkipEntity, StartEntity, EndEntities, Throw, queueVars
  <1>2. CASE \/ OpenFile(w) \/ WriteFile(w) \/ MarkRead(w) \/ MarkWrite(w)
             \/ ReadGraph(w) \/ WriteGraph(w) \/ WriteIndex(w)
    BY <1>2, StillAccounts DEF OpenFile, WriteFile, MarkRead, MarkWrite,
       ReadGraph, WriteGraph, WriteIndex, queueVars
  <1>3. CASE ReadIndex(w)
    <2>1. Goto(w, "indexWrite") \/ Goto(w, "graph")
      BY <1>3 DEF ReadIndex
    <2>. QED  BY <1>3, <2>1, StillAccounts DEF ReadIndex
  <1>4. CASE \/ TryAgain(w) \/ CallFails(w) \/ CompleteReplyLost(w) \/ SoftLimit(w)
             \/ TimedOutReplyLost(w)
    BY <1>4, StillAccounts DEF TryAgain, CallFails, CompleteReplyLost, SoftLimit,
       TimedOutReplyLost, Leave, Throw
  <1>5. CASE TimedOutUnmarked(w)
    <2>1. CASE Goto(w, "retry") /\ UNCHANGED dropped
      BY <1>5, <2>1, StillAccounts DEF TimedOutUnmarked, queueVars
    <2>2. CASE Goto(w, "ack") /\ Drop(Id(w))
      BY <1>0, <1>5, <2>2, DropAccounts DEF TimedOutUnmarked
    <2>. QED  BY <1>5, <2>1, <2>2 DEF TimedOutUnmarked
  <1>6. CASE GiveUpUnmarked(w) \/ DropValueError(w) \/ RetryRefused(w)
    BY <1>0, <1>6, DropAccounts DEF GiveUpUnmarked, DropValueError, RetryRefused, Leave
  <1>7. CASE FetchCompleted(w) \/ RefreshCompleted(w)
    <2>1. /\ Skip(w)
          /\ UNCHANGED <<status, queue>>
          /\ status[Id(w)] = "completed"
      BY <1>7 DEF FetchCompleted, RefreshCompleted, storeVars
    <2>2. \A v \in Workers \ {w} : pc'[v] = pc[v] /\ job'[v] = job[v]
      BY <1>0, <2>1 DEF Skip, Leave
    <2>3. CASE Unlocked(Id(w))
      <3>1. Id(w) = t => Settled(t)
        BY <2>1, <2>3 DEF Settled
      <3>. QED  BY <2>1, <2>2, <2>3, <3>1, SettleAccounts DEF Skip, queueVars
    <2>4. CASE ~Unlocked(Id(w))
      BY <2>1, <2>2, <2>4, DropAccounts DEF Skip
    <2>. QED  BY <2>3, <2>4
  <1>8. CASE Complete(w)
    <2>1. Id(w) = t => Settled(t)
      BY <1>8 DEF Complete, Settled, SetStatus, JobsInv, RowsAreCommitted, TypeInv, TypeOK,
         StoreTypeOK
    <2>. QED  BY <1>0, <1>8, <2>1, SettleAccounts DEF Complete, Leave
  <1>9. CASE GiveUp(w) \/ MarkTimedOut(w)
    <2>1. /\ UpdateFailed(Id(w))
          /\ IF status[Id(w)] = "absent" THEN Drop(Id(w)) ELSE UNCHANGED dropped
          /\ Goto(w, "ack")
          /\ UNCHANGED queue
      BY <1>9 DEF GiveUp, MarkTimedOut, Leave
    <2>2. CASE status[Id(w)] = "absent"
      BY <1>0, <2>1, <2>2, DropAccounts
    <2>3. CASE status[Id(w)] # "absent"
      <3>1. Id(w) = t => Settled(t)
        BY <2>1, <2>3 DEF UpdateFailed, Settled, SetStatus, JobsInv, TypeInv, TypeOK, StoreTypeOK
      <3>. QED  BY <1>0, <2>1, <2>3, <3>1, SettleAccounts DEF queueVars
    <2>. QED  BY <2>2, <2>3
  <1>10. CASE Retry(w)
    <2>1. job[w] \in Messages /\ job[w].retries < MaxRetries
      BY <1>10, BusyWorker DEF Retry, JobsInv, TypeInv, WorkersHaveJobs
    <2>2. [job[w] EXCEPT !.retries = @ + 1] \in Messages
      BY <2>1, RetriesAssumption DEF Messages
    <2>3. [job[w] EXCEPT !.retries = @ + 1].id = Id(w)
      BY <2>1 DEF Id, Messages
    <2>. QED  BY <1>0, <1>10, <2>2, <2>3, PublishAccounts DEF Retry
  <1>11. CASE Crash(w)
    <2>1. job[w] \in Messages
      BY <1>11, BusyWorker DEF Crash, JobsInv
    <2>. QED  BY <1>11, <2>1, PublishAccounts DEF Crash, Id, JobsInv, TypeInv, TypeOK, PipelineTypeOK
  <1>12. CASE HardLimit(w)
    <2>1. \A v \in Workers \ {w} : pc'[v] = pc[v] /\ job'[v] = job[v]
      BY <1>12 DEF HardLimit, JobsInv, TypeInv, TypeOK, PipelineTypeOK
    <2>2. CASE pc[w] \in Owing
      BY <1>12, <2>1, <2>2, DropAccounts DEF HardLimit
    <2>3. CASE pc[w] \notin Owing
      BY <1>12, <2>1, <2>3, SettleAccounts DEF HardLimit, queueVars
    <2>. QED  BY <2>2, <2>3
  <1>13. CASE Ack(w)
    BY <1>13, SettleAccounts DEF Ack, JobsInv, TypeInv, TypeOK, PipelineTypeOK
  <1>14. CASE Deliver(w)
    BY <1>14, DeliverAccounts
  <1>. QED  BY <1>1, <1>2, <1>3, <1>4, <1>5, <1>6, <1>7, <1>8, <1>9, <1>10, <1>11, <1>12, <1>13,
               <1>14 DEF Step, Fault

(* A worker puts no transcript under way that it does not own.              *)
LEMMA WorkerStarts ==
    ASSUME JobsInv, NEW w \in Workers, Step(w) \/ Fault(w), NEW t \in Transcripts,
           status'[t] \in {"pending", "processing"},
           status[t] \notin {"pending", "processing"}
    PROVE  Accounted(t)'
  <1>. USE DEF JobsInv, TypeInv, TypeOK, StoreTypeOK, PipelineTypeOK, storeVars, SetStatus
  <1>1. CASE Lock(w)
    <2>1. Id(w) = t
      BY <1>1 DEF Lock
    <2>2. pc'[w] \in Owing /\ Id(w)' = t
      BY <1>1, <2>1 DEF Lock, Goto, Id, Owing, Points, TryPoints, CallPoints
    <2>. QED  BY <2>2 DEF Accounted, Owned
  <1>2. CASE StoreWrite(w) /\ ~Lock(w)
    BY <1>2 DEF StoreWrite, Complete, CompleteReplyLost, GiveUp, MarkTimedOut, TimedOutReplyLost,
       MarkWrite, UpdateFailed
  <1>. QED  BY <1>1, <1>2, StoreWriters

(* API steps leave every transcript with the message or worker it had.      *)
LEMMA ApiAccounts ==
    ASSUME JobsInv, TypeInv', ApiNext, UNCHANGED pipelineVars, NEW t \in Transcripts, Accounted(t)
    PROVE  Accounted(t)'
  <1>. USE DEF JobsInv, TypeInv, TypeOK, QueueTypeOK, ApiTypeOK, Accounted, Owned, Queued, Id,
           pipelineVars, workerVars, queueVars, Delay, Publish
  <1>0. \A u \in Transcripts : [id |-> u, retries |-> 0] \in Messages
    BY RetriesAssumption DEF Messages
  <1>1. CASE UNCHANGED queueVars
    BY <1>1
  <1>2. CASE \E u \in Transcripts : CreateEnqueue(u)
    <2>1. dropped' = dropped /\ \A m \in Messages : queue'[m] >= queue[m]
      BY <1>2 DEF CreateEnqueue
    <2>. QED  BY <2>1
  <1>3. CASE \E r \in Requests : RetryEnqueue(r)
    <2>1. PICK r \in Requests : RetryEnqueue(r)
      BY <1>3
    <2>2. \A m \in Messages : queue'[m] >= queue[m]
      BY <2>1 DEF RetryEnqueue
    <2>3. dropped' = dropped \ {reqFor[r]}
      BY <2>1 DEF RetryEnqueue
    <2>4. CASE t = reqFor[r]
      <3>1. queue'[[id |-> t, retries |-> 0]] > 0
        BY <1>0, <2>1, <2>4 DEF RetryEnqueue
      <3>. QED  BY <1>0, <3>1
    <2>5. CASE t # reqFor[r]
      BY <2>2, <2>3, <2>5
    <2>. QED  BY <2>4, <2>5
  <1>. QED  BY <1>1, <1>2, <1>3 DEF ApiNext, CreateStep, RetryStep, CreateFlush, CreateCommit,
               CreateRollback, RetryRead, RetryFlush, RetryCommit, RetryRollback

(* What an API step newly owes is accounted for.                            *)
LEMMA ApiStep ==
    ASSUME JobsInv, TypeInv', ApiNext, UNCHANGED pipelineVars
    PROVE  EnqueuedIsAccounted' /\ NoSilentLoss'
  <1>. USE DEF JobsInv, TypeInv, TypeOK, StoreTypeOK, QueueTypeOK, ApiTypeOK
  <1>0. /\ \A t \in Transcripts : Accounted(t) => Accounted(t)'
        /\ \A u \in Transcripts : [id |-> u, retries |-> 0] \in Messages
    BY ApiAccounts, RetriesAssumption DEF Messages
  <1>1. CASE \E t \in Transcripts : CreateFlush(t) \/ CreateRollback(t)
    BY <1>0, <1>1 DEF CreateFlush, CreateRollback, EnqueuedIsAccounted, NoSilentLoss, storeVars
  <1>2. CASE \E t \in Transcripts : CreateEnqueue(t)
    <2>1. PICK t \in Transcripts : CreateEnqueue(t)
      BY <1>2
    <2>2. Accounted(t)'
      <3>1. queue'[[id |-> t, retries |-> 0]] > 0
        BY <1>0, <2>1 DEF CreateEnqueue, Delay, Publish
      <3>. QED  BY <1>0, <3>1 DEF Accounted, Owned, Queued
    <2>. QED  BY <1>0, <2>1, <2>2 DEF CreateEnqueue, EnqueuedIsAccounted, NoSilentLoss, storeVars
  <1>3. CASE \E t \in Transcripts : CreateCommit(t)
    BY <1>0, <1>3 DEF CreateCommit, SetStatus, EnqueuedIsAccounted, NoSilentLoss
  <1>4. CASE \E r \in Requests, t \in Transcripts : RetryRead(r, t)
    BY <1>0, <1>4 DEF RetryRead, EnqueuedIsAccounted, NoSilentLoss, storeVars
  <1>5. CASE \E r \in Requests : RetryFlush(r) \/ RetryRollback(r)
    BY <1>0, <1>5 DEF RetryFlush, RetryRollback, EnqueuedIsAccounted, NoSilentLoss
  <1>6. CASE \E r \in Requests : RetryEnqueue(r)
    <2>1. PICK r \in Requests : RetryEnqueue(r)
      BY <1>6
    <2>2. Accounted(reqFor[r])'
      <3>1. queue'[[id |-> reqFor[r], retries |-> 0]] > 0
        BY <1>0, <2>1 DEF RetryEnqueue, Delay, Publish
      <3>. QED  BY <1>0, <2>1, <3>1 DEF RetryEnqueue, Accounted, Owned, Queued
    <2>3. \A q \in Requests : reqPc'[q] = "enqueued" => q = r \/ reqPc[q] = "enqueued"
      BY <2>1 DEF RetryEnqueue
    <2>4. EnqueuedIsAccounted'
      BY <1>0, <2>1, <2>2, <2>3 DEF RetryEnqueue, EnqueuedIsAccounted
    <2>. QED  BY <1>0, <2>1, <2>4 DEF RetryEnqueue, NoSilentLoss, storeVars
  <1>7. CASE \E r \in Requests : RetryCommit(r)
    <2>1. PICK r \in Requests : RetryCommit(r)
      BY <1>7
    <2>2. EnqueuedIsAccounted'
      BY <1>0, <2>1 DEF RetryCommit, EnqueuedIsAccounted
    <2>3. NoSilentLoss'
      BY <1>0, <2>1 DEF RetryCommit, EnqueuedIsAccounted, NoSilentLoss
    <2>. QED  BY <2>2, <2>3
  <1>. QED  BY <1>1, <1>2, <1>3, <1>4, <1>5, <1>6, <1>7 DEF ApiNext, CreateStep, RetryStep

(* A worker's step takes nothing from a call that has enqueued its task: an *)
(* uncommitted row cannot be settled, and a row lock keeps its row open.    *)
LEMMA WorkerStep ==
    ASSUME JobsInv, TypeInv', NEW w \in Workers, Step(w) \/ Fault(w), UNCHANGED apiVars
    PROVE  EnqueuedIsAccounted' /\ NoSilentLoss'
  <1>. USE DEF JobsInv
  <1>1. \A t \in Transcripts : Accounted(t) => Accounted(t)' \/ Settled(t)
    BY WorkerAccounts
  <1>2. ASSUME NEW t \in Transcripts, posting[t] = "enqueued" PROVE Accounted(t)'
    BY <1>1, <1>2 DEF EnqueuedIsAccounted, RowsAreCommitted, Settled
  <1>3. ASSUME NEW r \in Requests, reqPc[r] = "enqueued", reqDiff[r] # {}
        PROVE  Accounted(reqFor[r])'
    <2>1. reqFor[r] \in Transcripts /\ reqFor' = reqFor
      BY DEF TypeInv, TypeOK, ApiTypeOK, apiVars
    <2>2. ~Settled(reqFor[r])
      BY <1>3, <2>1, RequestsAssumption DEF Settled, Unlocked, LocksAreHeld, Transaction
    <2>3. Accounted(reqFor[r])
      BY <1>3 DEF EnqueuedIsAccounted
    <2>4. PICK t \in Transcripts : t = reqFor[r]
      BY <2>1
    <2>5. Accounted(t)'
      BY <1>1, <2>2, <2>3, <2>4
    <2>. QED  BY <2>1, <2>4, <2>5 DEF Accounted, Owned, Queued, Id
  <1>4. EnqueuedIsAccounted'
    BY <1>2, <1>3 DEF EnqueuedIsAccounted, apiVars
  <1>5. NoSilentLoss'
    BY <1>1, WorkerStarts DEF NoSilentLoss, Settled
  <1>. QED  BY <1>4, <1>5

(* No step of a client, a worker, a fault or the clock breaks JobsInv.      *)
THEOREM JobsStep == JobsInv /\ [Next]_vars => JobsInv'
  <1>. SUFFICES ASSUME JobsInv, [Next]_vars PROVE JobsInv'
    OBVIOUS
  <1>1. TypeInv'
    BY TypeStep DEF JobsInv
  <1>2. LocksAreHeld' /\ RowsAreCommitted'
    BY LocksStep, RowsStep
  <1>3. ASSUME UNCHANGED <<storeVars, queueVars, apiVars, workerVars>>
        PROVE  EnqueuedIsAccounted' /\ NoSilentLoss'
    BY <1>3 DEF JobsInv, EnqueuedIsAccounted, NoSilentLoss, Accounted, Owned, Queued, Id,
       storeVars, queueVars, apiVars, workerVars
  <1>4. EnqueuedIsAccounted' /\ NoSilentLoss'
    <2>1. CASE PipelineNext /\ UNCHANGED apiVars
      BY <1>1, <1>3, <2>1, WorkerStep DEF PipelineNext, Midnight
    <2>2. CASE ApiNext /\ UNCHANGED pipelineVars
      BY <1>1, <2>2, ApiStep
    <2>3. CASE UNCHANGED vars
      BY <1>3, <2>3 DEF vars, pipelineVars
    <2>. QED  BY <2>1, <2>2, <2>3 DEF Next
  <1>. QED  BY <1>1, <1>2, <1>4 DEF JobsInv

LEMMA JobsInit == Init => JobsInv
  <1>. SUFFICES ASSUME Init PROVE JobsInv
    OBVIOUS
  <1>1. TypeInv
    BY TypeInit DEF TypeInv, Init, PipelineInit, WorkersHaveJobs, EntitiesAtHand
  <1>2. LocksAreHeld
    BY RequestsAssumption DEF Init, StoreInit, ApiInit, LocksAreHeld, Transaction
  <1>3. RowsAreCommitted
    BY DEF Init, StoreInit, ApiInit, PipelineInit, RowsAreCommitted, TryPoints, CallPoints
  <1>4. EnqueuedIsAccounted /\ NoSilentLoss
    BY DEF Init, StoreInit, ApiInit, EnqueuedIsAccounted, NoSilentLoss
  <1>. QED  BY <1>1, <1>2, <1>3, <1>4 DEF JobsInv

(* The strengthening from which the next two follow: rows, calls, workers   *)
(* and messages account for each other after every step (tasks.py,          *)
(* transcripts.py).                                                         *)
THEOREM JobsInvariant == Spec => []JobsInv
  BY JobsInit, JobsStep, PTL DEF Spec

(* A row lock is held by exactly the retry call that has sent its UPDATE    *)
(* and not finished (retry_transcript, get_db).                             *)
THEOREM LocksCorrect == Spec => []LocksAreHeld
  <1>1. JobsInv => LocksAreHeld
    BY DEF JobsInv
  <1>. QED  BY <1>1, JobsInit, JobsStep, PTL DEF Spec

(* A transcript shown as pending or processing has a message in the queue   *)
(* or a worker on it, or one of its deliveries was dropped by a step that   *)
(* says so (tasks.py, celery_app.py, transcripts.py).                       *)
THEOREM NothingLostSilently == Spec => []NoSilentLoss
  <1>1. JobsInv => NoSilentLoss
    BY DEF JobsInv
  <1>. QED  BY <1>1, JobsInit, JobsStep, PTL DEF Spec

-------------------------------------------------------------------------------
(* Errors.                                                                  *)

LEMMA ErrorStep == JobsInv /\ ErrorInv /\ [Next]_vars => ErrorInv'
  <1>. SUFFICES ASSUME JobsInv, ErrorInv, [Next]_vars PROVE ErrorInv'
    OBVIOUS
  <1>. USE DEF JobsInv, TypeInv, TypeOK, StoreTypeOK, ApiTypeOK, ErrorInv, FailedHasError, SetStatus
  <1>1. ASSUME UNCHANGED <<storeVars, apiVars>> PROVE ErrorInv'
    BY <1>1 DEF storeVars, apiVars
  <1>2. CASE PipelineNext /\ UNCHANGED apiVars
    <2>1. ASSUME NEW w \in Workers, StoreWrite(w) PROVE ErrorInv'
      BY <1>2, <2>1 DEF StoreWrite, Lock, Complete, CompleteReplyLost, GiveUp, MarkTimedOut,
         TimedOutReplyLost, MarkWrite, UpdateFailed, apiVars
    <2>. QED  BY <1>1, <1>2, <2>1, StoreWriters DEF PipelineNext, Midnight
  <1>3. CASE ApiNext /\ UNCHANGED pipelineVars
    <2>1. CASE \E t \in Transcripts : CreateFlush(t) \/ CreateStep(t) \/ CreateRollback(t)
      <3>1. PICK t \in Transcripts : CreateFlush(t) \/ CreateStep(t) \/ CreateRollback(t)
        BY <2>1
      <3>2. CASE CreateCommit(t)
        <4>1. status[t] = "absent"
          BY <3>2 DEF CreateCommit, RowsAreCommitted
        <4>. QED  BY <3>2, <4>1 DEF CreateCommit
      <3>. QED  BY <3>1, <3>2 DEF CreateFlush, CreateStep, CreateEnqueue, CreateRollback, storeVars
    <2>2. CASE \E r \in Requests, t \in Transcripts : RetryRead(r, t)
      <3>1. PICK r \in Requests, t \in Transcripts : RetryRead(r, t)
        BY <2>2
      <3>2. "status" \in reqDiff'[r] <=> "error" \in reqDiff'[r]
        BY <3>1 DEF RetryRead, Columns
      <3>. QED  BY <3>1, <3>2 DEF RetryRead, storeVars
    <2>3. CASE \E r \in Requests : RetryFlush(r) \/ RetryEnqueue(r) \/ RetryRollback(r)
      BY <2>3 DEF RetryFlush, RetryEnqueue, RetryRollback, storeVars
    <2>4. CASE \E r \in Requests : RetryCommit(r)
      <3>1. PICK r \in Requests : RetryCommit(r)
        BY <2>4
      <3>2. CASE "status" \in reqDiff[r]
        BY <3>1, <3>2 DEF RetryCommit
      <3>3. CASE "status" \notin reqDiff[r]
        BY <3>1, <3>3 DEF RetryCommit
      <3>. QED  BY <3>2, <3>3
    <2>. QED  BY <1>3, <2>1, <2>2, <2>3, <2>4 DEF ApiNext, RetryStep
  <1>4. CASE UNCHANGED vars
    BY <1>1, <1>4 DEF vars
  <1>. QED  BY <1>2, <1>3, <1>4 DEF Next

(* A failed transcript has its error message (mark_failed), for a retry     *)
(* call resets the two together or neither (retry_transcript).              *)
THEOREM FailuresExplained == Spec => []FailedHasError
  <1>1. Init => ErrorInv
    BY DEF Init, StoreInit, ApiInit, ErrorInv, FailedHasError
  <1>2. ErrorInv => FailedHasError
    BY DEF ErrorInv
  <1>. QED  BY <1>1, <1>2, ErrorStep, JobsInit, JobsStep, PTL DEF Spec
===============================================================================
