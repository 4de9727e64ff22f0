--------------------------- MODULE SoleWorkerProofs ---------------------------
(***************************************************************************)
(* Proofs about the pipeline with one worker, as deployed.  Merges are     *)
(* then atomic (MergeSurvives, and AtomicTree, the refinement of           *)
(* MemoryTree); the index and the graph only grow, since nobody writes them*)
(* between the worker's read and its write (CompletedIndexed); and only the*)
(* worker itself adds to processed_entities while it runs                  *)
(* (RewritesOnlyRepeats).  With two workers none of this holds: both read a*)
(* file before either writes it.                                           *)
(***************************************************************************)
EXTENDS FilesProofs

OneWorker == \A v, w \in Workers : v = w

(* Points at which TreeInv says something of the worker.                    *)
Writing == {"write", "markRead", "markWrite"}

-------------------------------------------------------------------------------

(* No slug of a person or a topic names an event.                           *)
LEMMA MergedEntity ==
    ASSUME NEW entity \in Entities, NEW d1 \in Days, NEW d2 \in Days,
           EntityKey(entity, d1) \in MergedKeys
    PROVE  EntityKey(entity, d1) = EntityKey(entity, d2)
  <1>1. CASE entity \in MergedKeys
    BY <1>1 DEF EntityKey
  <1>2. CASE entity \notin MergedKeys
    <2>1. EntityKey(entity, d1) \in EventKeys
      BY <1>2 DEF EntityKey, MakeEventSlug, Entities, Events, EventKeys
    <2>. QED  BY <2>1, KeysAssumption
  <1>. QED  BY <1>1, <1>2

(* The file w writes is its key's, if that is a person or a topic.          *)
LEMMA KeyIsPath ==
    ASSUME TypeInv, FilesSound, NEW w \in Workers, pc[w] = "write",
           task[w].key \in MergedKeys
    PROVE  task[w].path = task[w].key
  <1>1. /\ Sound(Done(mem), "write", task[w])
        /\ Entity(w) \in Entities
    BY AtHand DEF Body, TypeInv, EntitiesAtHand
  <1>2. PICK d1 \in Days : task[w].path = EntityKey(Entity(w), d1)
    BY <1>1 DEF Sound, Entity
  <1>3. PICK d2 \in Days : task[w].key = EntityKey(Entity(w), d2)
    BY <1>1 DEF Sound, Body, Entity
  <1>. QED  BY <1>1, <1>2, <1>3, MergedEntity

-------------------------------------------------------------------------------
(* Steps.                                                                   *)

(* Steps of the sole worker that write nothing and lead nowhere TreeInv     *)
(* looks.                                                                   *)
LEMMA QuietTree ==
    ASSUME OneWorker, TypeInv, TreeInv, NEW w \in Workers, NEW point,
           pc' = [pc EXCEPT ![w] = point], point \notin Writing,
           UNCHANGED <<mem, processed>>
    PROVE  TreeInv'
  <1>1. \A v \in Workers : pc'[v] \notin Writing
    BY DEF OneWorker, TypeInv, TypeOK, PipelineTypeOK
  <1>. QED  BY <1>1 DEF TreeInv, MergeSurvives, Writing

LEMMA OutsideTree ==
    ASSUME OneWorker, TypeInv, TreeInv, NEW w \in Workers, Step(w) \/ Fault(w),
           ~OpenFile(w), ~WriteFile(w), ~MarkRead(w), ~MarkWrite(w)
    PROVE  TreeInv' /\ UNCHANGED mem
  <1>. USE DEF Writing, Leave, Throw, Goto, Skip, storeVars, fileVars
  <1>1. CASE Deliver(w) \/ Ack(w) \/ FetchMissing(w) \/ FetchCompleted(w) \/ Fetch(w)
    BY <1>1, QuietTree DEF Deliver, Ack, FetchMissing, FetchCompleted, Fetch
  <1>2. CASE Lock(w) \/ RefreshCompleted(w) \/ Refresh(w) \/ Extract(w) \/ ExtractNothing(w)
    BY <1>2, QuietTree DEF Lock, RefreshCompleted, Refresh, Extract, ExtractNothing
  <1>3. CASE SkipEntity(w)
    BY <1>3, QuietTree DEF SkipEntity
  <1>4. CASE EndEntities(w)
    BY <1>4, QuietTree DEF EndEntities
  <1>5. CASE StartEntity(w)
    BY <1>5, QuietTree DEF StartEntity
  <1>6. CASE ReadIndex(w)
    <2>1. \E point \in {"indexWrite", "graph"} : pc' = [pc EXCEPT ![w] = point]
      BY <1>6 DEF ReadIndex
    <2>. QED  BY <1>6, <2>1, QuietTree DEF ReadIndex
  <1>7. CASE ReadGraph(w) \/ WriteGraph(w) \/ WriteIndex(w) \/ Complete(w)
    BY <1>7, QuietTree DEF ReadGraph, WriteGraph, WriteIndex, Complete
  <1>8. CASE GiveUp(w) \/ DropValueError(w) \/ TryAgain(w) \/ Retry(w) \/ MarkTimedOut(w)
    BY <1>8, QuietTree DEF GiveUp, DropValueError, TryAgain, Retry, MarkTimedOut
  <1>9. CASE Fault(w)
    <2>1. CASE CallFails(w) \/ CompleteReplyLost(w) \/ SoftLimit(w) \/ GiveUpUnmarked(w)
      BY <2>1, QuietTree DEF CallFails, CompleteReplyLost, SoftLimit, GiveUpUnmarked
    <2>2. CASE HardLimit(w) \/ Crash(w) \/ RetryRefused(w) \/ TimedOutUnmarked(w) \/ TimedOutReplyLost(w)
      BY <2>2, QuietTree DEF HardLimit, Crash, RetryRefused, TimedOutUnmarked, TimedOutReplyLost
    <2>. QED  BY <1>9, <2>1, <2>2 DEF Fault
  <1>. QED  BY <1>1, <1>2, <1>3, <1>4, <1>5, <1>6, <1>7, <1>8, <1>9 DEF Step

(* The sole worker sees the file as it will find it when it writes.         *)
LEMMA OpenTree ==
    ASSUME OneWorker, TypeInv, TreeInv, NEW w \in Workers, OpenFile(w)
    PROVE  TreeInv'
  <1>. DEFINE path == EntityKey(Entity(w), today)
              existing == IF path \in MergedKeys THEN mem[path] ELSE {}
  <1>1. /\ pc'[w] = "write"
        /\ UNCHANGED <<mem, processed>>
        /\ task' = [task EXCEPT ![w] = [task[w] EXCEPT !.path = path, !.existing = existing]]
    BY DEF OpenFile, Goto, Keep, TypeInv, TypeOK, PipelineTypeOK, storeVars, fileVars
  <1>2. task[w] \in Tasks
    BY DEF TypeInv, TypeOK, PipelineTypeOK
  <1>. HIDE DEF existing, path
  <1>3. task'[w].path = path /\ task'[w].existing = existing
    BY <1>1, <1>2 DEF Tasks, TypeInv, TypeOK, PipelineTypeOK
  <1>. QED  BY <1>1, <1>3 DEF OneWorker, TreeInv, MergeSurvives, existing

(* What the file held is written back with the transcript added.            *)
LEMMA WriteTree ==
    ASSUME OneWorker, TypeInv, FilesSound, TreeInv, NEW w \in Workers, WriteFile(w)
    PROVE  TreeInv' /\ [Tree!Next]_mem
  <1>. DEFINE r == task[w]
  <1>1. /\ pc[w] = "write"
        /\ Id(w) \in Transcripts
        /\ r.path \in Keys
        /\ mem \in [Keys -> SUBSET Transcripts]
    BY BusyWorker DEF WriteFile, TypeInv, EntitiesAtHand, TypeOK, PipelineTypeOK
  <1>2. /\ mem' = [mem EXCEPT ![r.path] = r.existing \cup {Id(w)}]
        /\ r.existing = IF r.path \in MergedKeys THEN mem[r.path] ELSE {}
        /\ pc'[w] = "markRead"
        /\ UNCHANGED <<task, job, processed>>
    BY <1>1 DEF WriteFile, Goto, TreeInv, TypeInv, TypeOK, PipelineTypeOK, storeVars
  <1>3. \A k \in MergedKeys : mem[k] \subseteq mem'[k]
    BY <1>1, <1>2 DEF Keys
  <1>4. MergeSurvives'
    BY <1>2, <1>3 DEF TreeInv, MergeSurvives
  <1>5. r.key \in MergedKeys => Id(w) \in mem'[r.key]
    BY <1>1, <1>2, KeyIsPath
  <1>6. TreeInv'
    BY <1>2, <1>4, <1>5 DEF OneWorker, TreeInv, Id
  <1>7. [Tree!Next]_mem
    <2>. USE DEF Tree!Next, Tree!Merge, Tree!Record, Tree!Keys, Tree!MergedKeys, Tree!EventKeys,
                 Tree!Days, Keys, MergedKeys, EventKeys, Days
    <2>1. CASE r.path \in MergedKeys
      BY <1>1, <1>2, <2>1
    <2>2. CASE r.path \notin MergedKeys
      BY <1>1, <1>2, <2>2
    <2>. QED  BY <2>1, <2>2
  <1>. QED  BY <1>6, <1>7

(* Reading the marks, and adding the key, whose file now holds the facts.   *)
LEMMA MarkTree ==
    ASSUME OneWorker, TypeInv, TreeInv, NEW w \in Workers, MarkRead(w) \/ MarkWrite(w)
    PROVE  TreeInv'
  <1>. DEFINE r == task[w]
  <1>1. /\ Id(w) \in Transcripts
        /\ r \in Tasks
        /\ processed \in [Transcripts -> SUBSET Keys]
        /\ UNCHANGED <<mem, job>>
    BY BusyWorker DEF MarkRead, MarkWrite, TypeInv, TypeOK, StoreTypeOK, fileVars, Goto
  <1>2. CASE MarkRead(w)
    <2>1. /\ task'[w] = [r EXCEPT !.marks = processed[Id(w)]]
          /\ pc[w] = "markRead"
          /\ pc'[w] = "markWrite"
          /\ UNCHANGED processed
      BY <1>2 DEF MarkRead, Goto, Keep, TypeInv, TypeOK, PipelineTypeOK, storeVars
    <2>2. task'[w].marks = processed[Id(w)] /\ task'[w].key = r.key
      BY <1>1, <2>1 DEF Tasks
    <2>3. \A k \in processed[Id(w)] \cap MergedKeys : Id(w) \in mem[k]
      BY <1>1 DEF TreeInv, MergeSurvives
    <2>. QED  BY <1>1, <2>1, <2>2, <2>3 DEF OneWorker, TreeInv, MergeSurvives, Id
  <1>3. CASE MarkWrite(w)
    <2>1. pc[w] = "markWrite" /\ pc'[w] = "loop"
      BY <1>3 DEF MarkWrite, Goto, TypeInv, TypeOK, PipelineTypeOK
    <2>2. \A k \in (r.marks \cup {r.key}) \cap MergedKeys : Id(w) \in mem[k]
      BY <2>1 DEF TreeInv
    <2>3. \A t \in Transcripts :
             \/ processed'[t] = processed[t]
             \/ t = Id(w) /\ processed'[t] = r.marks \cup {r.key}
      BY <1>1, <1>3 DEF MarkWrite
    <2>4. MergeSurvives'
      BY <1>1, <2>2, <2>3 DEF TreeInv, MergeSurvives
    <2>. QED  BY <2>1, <2>4 DEF OneWorker, TreeInv
  <1>. QED  BY <1>2, <1>3

LEMMA RestTree ==
    ASSUME TypeInv, TreeInv,
           \/ ApiNext /\ UNCHANGED pipelineVars
           \/ Midnight
           \/ UNCHANGED vars
    PROVE  TreeInv' /\ UNCHANGED mem
  <1>1. UNCHANGED <<mem, pc, job, task>>
    BY DEF pipelineVars, fileVars, workerVars, Midnight, vars
  <1>2. \A t \in Transcripts : processed'[t] \subseteq processed[t]
    <2>1. CASE UNCHANGED processed
      BY <2>1
    <2>2. CASE \E r \in Requests : RetryCommit(r)
      BY <2>2 DEF RetryCommit, TypeInv, TypeOK, StoreTypeOK
    <2>. QED  BY <2>1, <2>2 DEF ApiNext, CreateStep, RetryStep, CreateFlush, CreateEnqueue,
                 CreateCommit, CreateRollback, RetryRead, RetryFlush, RetryEnqueue,
                 RetryRollback, Midnight, vars, storeVars
  <1>. QED  BY <1>1, <1>2 DEF TreeInv, MergeSurvives, Id

-------------------------------------------------------------------------------
(* All steps.                                                               *)

LEMMA TreeInit == Init => TreeInv /\ Tree!Init
  <1>. SUFFICES ASSUME Init PROVE TreeInv /\ Tree!Init
    OBVIOUS
  <1>1. \A w \in Workers : pc[w] = "idle"
    BY DEF Init, PipelineInit
  <1>2. \A t \in Transcripts : processed[t] = {}
    BY DEF Init, StoreInit
  <1>3. Tree!Init
    BY DEF Init, PipelineInit, Tree!Init, Tree!Keys, Tree!MergedKeys, Tree!EventKeys, Tree!Days,
           Keys, MergedKeys, EventKeys, Days
  <1>. QED  BY <1>1, <1>2, <1>3 DEF TreeInv, MergeSurvives

LEMMA TreeStep ==
    ASSUME OneWorker
    PROVE  TypeInv /\ FilesInv /\ TreeInv /\ [Next]_vars => TreeInv' /\ [Tree!Next]_mem
  <1>. SUFFICES ASSUME TypeInv, FilesInv, TreeInv, [Next]_vars
                PROVE  TreeInv' /\ [Tree!Next]_mem
    OBVIOUS
  <1>1. FilesSound
    BY FilesForm
  <1>2. ASSUME NEW w \in Workers, Step(w) \/ Fault(w) PROVE TreeInv' /\ [Tree!Next]_mem
    <2>1. CASE WriteFile(w)
      BY <1>1, <2>1, WriteTree
    <2>2. CASE OpenFile(w) \/ MarkRead(w) \/ MarkWrite(w)
      <3>1. UNCHANGED mem
        BY <2>2 DEF OpenFile, MarkRead, MarkWrite, fileVars
      <3>. QED  BY <2>2, <3>1, OpenTree, MarkTree
    <2>. QED  BY <1>2, <2>1, <2>2, OutsideTree
  <1>. QED  BY <1>2, RestTree DEF Next, PipelineNext

(* With one worker, what a transcript has said of a person or a topic stays *)
(* in the file: every later merge has read it (_process_person,             *)
(* _process_topic), and no crash, retry or second delivery comes between.   *)
THEOREM MergesSurvive == ASSUME OneWorker PROVE Spec => []MergeSurvives
  <1>1. TreeInv => MergeSurvives
    BY DEF TreeInv
  <1>2. Init => TypeInv
    BY TypeInit DEF TypeInv, Init, PipelineInit, WorkersHaveJobs, EntitiesAtHand
  <1>3. TypeInv /\ FilesInv /\ TreeInv /\ [Next]_vars => TreeInv'
    BY TreeStep
  <1>. QED  BY <1>1, <1>2, <1>3, FilesInit, FilesStep, TypeStep, TreeInit, PTL DEF Spec

(* With one worker the pipeline implements the abstract memory tree: its    *)
(* reads, LLM calls, writes, crashes and repeated attempts look like one    *)
(* contribution at a time added to a file, none of them lost.               *)
THEOREM PipelineImplementsTree == ASSUME OneWorker PROVE Spec => AtomicTree
  <1>1. Init => TypeInv
    BY TypeInit DEF TypeInv, Init, PipelineInit, WorkersHaveJobs, EntitiesAtHand
  <1>2. TypeInv /\ FilesInv /\ TreeInv /\ [Next]_vars => TreeInv' /\ [Tree!Next]_mem
    BY TreeStep
  <1>. QED  BY <1>1, <1>2, FilesInit, FilesStep, TypeStep, TreeInit, PTL
            DEF Spec, AtomicTree, Tree!Spec

-------------------------------------------------------------------------------
(* The index and what reruns skip.                                          *)

(* Points at which IndexInv says something of the worker.                   *)
Indexing ==
    {"loop", "open", "write", "markRead", "markWrite", "index",
     "graph", "graphWrite", "indexWrite", "complete"}

(* What IndexInv says of a worker at point p with locals r on behalf of t,  *)
(* when the index is ix and the graph is net.                               *)
Ready(p, r, t, ix, net) ==
    /\ p \in Indexing => r.ext \in Extractions[t]
    /\ p \in {"graph", "graphWrite", "indexWrite"} =>
          /\ ix.entities \subseteq r.idx.entities
          /\ ix.transcripts \cup {t} \subseteq r.idx.transcripts
          /\ Indexed(r.ext, r.idx.entities)
    /\ p = "graphWrite" => net \cup (r.ext.relationships \X {t}) \subseteq r.net
    /\ p \in {"indexWrite", "complete"} => r.ext.relationships \X {t} \subseteq net
    /\ p = "complete" => t \in ix.transcripts /\ Indexed(r.ext, ix.entities)

LEMMA IndexForm ==
    IndexInv <=>
        /\ CompletedIndexed
        /\ \A w \in Workers : Ready(pc[w], task[w], Id(w), index, graph)
  BY DEF IndexInv, Ready, Indexing

LEMMA CompletedForm ==
    CompletedIndexed <=>
        \A t \in Transcripts :
            status[t] = "completed" =>
                /\ t \in index.transcripts
                /\ \E x \in Extractions[t] :
                      Indexed(x, index.entities) /\ x.relationships \X {t} \subseteq graph
  BY DEF CompletedIndexed, Indexed

-------------------------------------------------------------------------------
(* The index.                                                               *)

(* What is indexed stays indexed while index and graph grow.                *)
LEMMA StillIndexed ==
    ASSUME CompletedIndexed,
           \A t \in Transcripts : status'[t] = "completed" => status[t] = "completed",
           index.entities \subseteq index'.entities,
           index.transcripts \subseteq index'.transcripts,
           graph \subseteq graph'
    PROVE  CompletedIndexed'
  <1>1. \A x : Indexed(x, index.entities) => Indexed(x, index'.entities)
    BY DEF Indexed
  <1>2. ASSUME NEW t \in Transcripts, status'[t] = "completed"
        PROVE  /\ t \in index'.transcripts
               /\ \E x \in Extractions[t] :
                     Indexed(x, index'.entities) /\ x.relationships \X {t} \subseteq graph'
    BY <1>1, <1>2, CompletedForm
  <1>. QED  BY <1>2 DEF CompletedIndexed, Indexed

(* A step of the sole worker that completes nothing.                        *)
LEMMA WorkerIndex ==
    ASSUME OneWorker, TypeInv, IndexInv, NEW w \in Workers, NEW point, NEW r,
           pc' = [pc EXCEPT ![w] = point],
           task' = [task EXCEPT ![w] = r],
           \A t \in Transcripts : status'[t] = "completed" => status[t] = "completed",
           index.entities \subseteq index'.entities,
           index.transcripts \subseteq index'.transcripts,
           graph \subseteq graph',
           Ready(point, r, job'[w].id, index', graph')
    PROVE  IndexInv'
  <1>1. CompletedIndexed'
    BY StillIndexed DEF IndexInv
  <1>2. \A v \in Workers : v = w /\ pc'[v] = point /\ task'[v] = r
    BY DEF OneWorker, TypeInv, TypeOK, PipelineTypeOK
  <1>3. \A v \in Workers : Ready(pc'[v], task'[v], Id(v)', index', graph')
    BY <1>2 DEF Id
  <1>. QED  BY <1>1, <1>3 DEF IndexInv, Ready, Indexing

(* The same where IndexInv does not look.                                   *)
LEMMA QuietIndex ==
    ASSUME OneWorker, TypeInv, IndexInv, NEW w \in Workers, NEW point,
           pc' = [pc EXCEPT ![w] = point], point \notin Indexing,
           \A t \in Transcripts : status'[t] = "completed" => status[t] = "completed",
           UNCHANGED <<index, graph>>
    PROVE  IndexInv'
  <1>1. CompletedIndexed'
    BY StillIndexed DEF IndexInv
  <1>2. \A v \in Workers : pc'[v] \notin Indexing
    BY DEF OneWorker, TypeInv, TypeOK, PipelineTypeOK
  <1>. QED  BY <1>1, <1>2 DEF IndexInv, Indexing

LEMMA OutsideIndex ==
    ASSUME OneWorker, TypeInv, IndexInv, NEW w \in Workers,
           \/ Deliver(w) \/ Ack(w) \/ FetchMissing(w) \/ FetchCompleted(w) \/ Fetch(w)
           \/ Lock(w) \/ RefreshCompleted(w) \/ Refresh(w) \/ ExtractNothing(w)
           \/ GiveUp(w) \/ DropValueError(w) \/ TryAgain(w) \/ Retry(w) \/ MarkTimedOut(w)
           \/ CallFails(w) \/ SoftLimit(w) \/ HardLimit(w) \/ Crash(w)
           \/ GiveUpUnmarked(w) \/ RetryRefused(w) \/ TimedOutUnmarked(w) \/ TimedOutReplyLost(w)
    PROVE  IndexInv'
  <1>. USE DEF Indexing, Leave, Throw, Goto, Skip, storeVars, fileVars
  <1>1. CASE Deliver(w) \/ Ack(w) \/ FetchMissing(w) \/ FetchCompleted(w) \/ Fetch(w)
    BY <1>1, QuietIndex DEF Deliver, Ack, FetchMissing, FetchCompleted, Fetch
  <1>2. CASE Lock(w)
    <2>1. \A t \in Transcripts : status'[t] = "completed" => status[t] = "completed"
      BY <1>2 DEF Lock, SetStatus, TypeInv, TypeOK, StoreTypeOK
    <2>. QED  BY <1>2, <2>1, QuietIndex DEF Lock
  <1>3. CASE RefreshCompleted(w) \/ Refresh(w) \/ ExtractNothing(w)
    BY <1>3, QuietIndex DEF RefreshCompleted, Refresh, ExtractNothing
  <1>4. CASE GiveUp(w) \/ MarkTimedOut(w) \/ TimedOutReplyLost(w)
    <2>1. \A t \in Transcripts : status'[t] = "completed" => status[t] = "completed"
      BY <1>4 DEF GiveUp, MarkTimedOut, TimedOutReplyLost, UpdateFailed, SetStatus, TypeInv,
         TypeOK, StoreTypeOK
    <2>. QED  BY <1>4, <2>1, QuietIndex DEF GiveUp, MarkTimedOut, TimedOutReplyLost
  <1>5. CASE DropValueError(w) \/ TryAgain(w) \/ Retry(w)
    BY <1>5, QuietIndex DEF DropValueError, TryAgain, Retry
  <1>6. CASE CallFails(w) \/ SoftLimit(w) \/ HardLimit(w) \/ Crash(w)
    BY <1>6, QuietIndex DEF CallFails, SoftLimit, HardLimit, Crash
  <1>7. CASE GiveUpUnmarked(w) \/ RetryRefused(w) \/ TimedOutUnmarked(w)
    BY <1>7, QuietIndex DEF GiveUpUnmarked, RetryRefused, TimedOutUnmarked
  <1>. QED  BY <1>1, <1>2, <1>3, <1>4, <1>5, <1>6, <1>7

(* The extraction and the loop over it.                                     *)
LEMMA LoopIndex ==
    ASSUME OneWorker, TypeInv, IndexInv, NEW w \in Workers,
           \/ Extract(w) \/ SkipEntity(w) \/ StartEntity(w) \/ EndEntities(w)
           \/ OpenFile(w) \/ WriteFile(w) \/ MarkRead(w) \/ MarkWrite(w)
    PROVE  IndexInv'
  <1>1. /\ \A t \in Transcripts : status'[t] = "completed" => status[t] = "completed"
        /\ UNCHANGED <<index, graph, job>>
    BY DEF Extract, SkipEntity, StartEntity, EndEntities, OpenFile, WriteFile, MarkRead,
           MarkWrite, Goto, storeVars, fileVars
  <1>2. \E point \in {"loop", "open", "write", "markRead", "markWrite", "index"} :
           pc' = [pc EXCEPT ![w] = point]
    BY DEF Extract, SkipEntity, StartEntity, EndEntities, OpenFile, WriteFile, MarkRead,
           MarkWrite, Goto
  <1>4. task[w] \in Tasks /\ task \in [Workers -> Tasks]
    BY DEF TypeInv, TypeOK, PipelineTypeOK
  <1>5. task'[w].ext \in Extractions[Id(w)] /\ task' = [task EXCEPT ![w] = task'[w]]
    <2>1. CASE Extract(w)
      BY <1>4, <2>1 DEF Extract, Keep, Tasks
    <2>2. CASE ~Extract(w)
      <3>1. task[w].ext \in Extractions[Id(w)]
        BY <2>2 DEF IndexInv, SkipEntity, StartEntity, EndEntities, OpenFile, WriteFile,
               MarkRead, MarkWrite
      <3>2. CASE EndEntities(w) \/ WriteFile(w)
        BY <1>4, <3>1, <3>2 DEF EndEntities, WriteFile
      <3>3. CASE SkipEntity(w) \/ StartEntity(w)
        BY <1>4, <3>1, <3>3 DEF SkipEntity, StartEntity, Keep, Tasks
      <3>4. CASE OpenFile(w)
        BY <1>4, <3>1, <3>4 DEF OpenFile, Keep, Tasks
      <3>5. CASE MarkRead(w)
        BY <1>4, <3>1, <3>5 DEF MarkRead, Keep, Tasks
      <3>6. CASE MarkWrite(w)
        BY <1>4, <3>1, <3>6 DEF MarkWrite, Keep, Tasks
      <3>. QED  BY <2>2, <3>2, <3>3, <3>4, <3>5, <3>6
    <2>. QED  BY <2>1, <2>2
  <1>6. PICK point \in {"loop", "open", "write", "markRead", "markWrite", "index"} :
           pc' = [pc EXCEPT ![w] = point]
    BY <1>2
  <1>7. Ready(point, task'[w], job'[w].id, index', graph')
    BY <1>1, <1>5 DEF Ready, Indexing, Id
  <1>. QED  BY <1>1, <1>5, <1>6, <1>7, WorkerIndex

(* _update_meta_index: what is read is added to and written back whole.     *)
LEMMA MetaIndex ==
    ASSUME OneWorker, TypeInv, IndexInv, NEW w \in Workers,
           ReadIndex(w) \/ ReadGraph(w) \/ WriteGraph(w) \/ WriteIndex(w)
    PROVE  IndexInv'
  <1>. DEFINE r == task[w]
              t == Id(w)
  <1>1. /\ r \in Tasks
        /\ task \in [Workers -> Tasks]
        /\ today \in Days
        /\ index \in Index
        /\ \A v \in Transcripts : status'[v] = "completed" => status[v] = "completed"
        /\ job'[w].id = t
    BY DEF TypeInv, TypeOK, PipelineTypeOK, ReadIndex, ReadGraph, WriteGraph, WriteIndex, Goto,
           storeVars, Id
  <1>2. Ready(pc[w], r, t, index, graph)
    BY IndexForm
  <1>. HIDE DEF t
  <1>3. CASE ReadIndex(w)
    <2>. DEFINE x == r.ext
                keys == { EntityKey(x.entities[i], today) : i \in DOMAIN x.entities }
                idx == [entities |-> index.entities \cup keys,
                        transcripts |-> index.transcripts \cup {t}]
                s == [r EXCEPT !.idx = idx]
                point == IF x.relationships = {} THEN "indexWrite" ELSE "graph"
    <2>1. /\ pc[w] = "index"
          /\ pc' = [pc EXCEPT ![w] = point]
          /\ task' = [task EXCEPT ![w] = s]
          /\ UNCHANGED <<index, graph>>
      BY <1>3 DEF ReadIndex, Goto, Keep, fileVars, t
    <2>2. s.ext = x /\ s.idx = idx
      BY <1>1 DEF Tasks
    <2>3. x \in Extractions[t]
      BY <1>2, <2>1 DEF Ready, Indexing
    <2>4. Indexed(x, idx.entities)
      BY <1>1 DEF Indexed
    <2>5. point = "indexWrite" => x.relationships \X {t} = {}
      OBVIOUS
    <2>. HIDE DEF s, keys
    <2>6. Ready(point, s, t, index, graph)
      BY <2>2, <2>3, <2>4, <2>5 DEF Ready, Indexing
    <2>. HIDE DEF point
    <2>. QED  BY <1>1, <2>1, <2>6, WorkerIndex
  <1>4. CASE ReadGraph(w)
    <2>. DEFINE s == [r EXCEPT !.net = graph \cup (r.ext.relationships \X {t})]
    <2>1. /\ pc[w] = "graph"
          /\ pc' = [pc EXCEPT ![w] = "graphWrite"]
          /\ task' = [task EXCEPT ![w] = s]
          /\ UNCHANGED <<index, graph>>
      BY <1>4 DEF ReadGraph, Goto, Keep, fileVars, t
    <2>2. /\ s.ext = r.ext
          /\ s.idx = r.idx
          /\ s.net = graph \cup (r.ext.relationships \X {t})
      BY <1>1 DEF Tasks
    <2>. HIDE DEF s
    <2>3. Ready("graphWrite", s, t, index, graph)
      BY <1>2, <2>1, <2>2 DEF Ready, Indexing
    <2>. QED  BY <1>1, <2>1, <2>3, WorkerIndex
  <1>5. CASE WriteGraph(w)
    <2>1. /\ pc[w] = "graphWrite"
          /\ pc' = [pc EXCEPT ![w] = "indexWrite"]
          /\ task' = [task EXCEPT ![w] = r]
          /\ graph' = r.net
          /\ UNCHANGED index
      BY <1>1, <1>5 DEF WriteGraph, Goto
    <2>2. graph \subseteq graph' /\ Ready("indexWrite", r, t, index', graph')
      BY <1>2, <2>1 DEF Ready, Indexing
    <2>. QED  BY <1>1, <2>1, <2>2, WorkerIndex
  <1>6. CASE WriteIndex(w)
    <2>1. /\ pc[w] = "indexWrite"
          /\ pc' = [pc EXCEPT ![w] = "complete"]
          /\ task' = [task EXCEPT ![w] = r]
          /\ index' = r.idx
          /\ UNCHANGED graph
      BY <1>1, <1>6 DEF WriteIndex, Goto
    <2>2. /\ index.entities \subseteq index'.entities
          /\ index.transcripts \subseteq index'.transcripts
          /\ Ready("complete", r, t, index', graph')
      BY <1>2, <2>1 DEF Ready, Indexing
    <2>. QED  BY <1>1, <2>1, <2>2, WorkerIndex
  <1>. QED  BY <1>3, <1>4, <1>5, <1>6

(* A transcript becomes completed when it is indexed.                       *)
LEMMA CompleteIndex ==
    ASSUME OneWorker, TypeInv, IndexInv, NEW w \in Workers, Complete(w) \/ CompleteReplyLost(w)
    PROVE  IndexInv'
  <1>. DEFINE t == Id(w)
  <1>1. /\ pc[w] = "complete"
        /\ \A v \in Transcripts : status'[v] = "completed" => v = t \/ status[v] = "completed"
        /\ UNCHANGED <<index, graph>>
    BY DEF Complete, CompleteReplyLost, SetStatus, fileVars, TypeInv, TypeOK, StoreTypeOK
  <1>2. \E point \in {"return", "handler"} : pc' = [pc EXCEPT ![w] = point]
    BY DEF Complete, CompleteReplyLost, Leave, Throw, Goto
  <1>3. /\ t \in index.transcripts
        /\ \E x \in Extractions[t] :
              Indexed(x, index.entities) /\ x.relationships \X {t} \subseteq graph
    BY <1>1 DEF IndexInv
  <1>4. \A v \in Transcripts :
           status'[v] = "completed" =>
               /\ v \in index'.transcripts
               /\ \E x \in Extractions[v] :
                     Indexed(x, index'.entities) /\ x.relationships \X {v} \subseteq graph'
    BY <1>1, <1>3, CompletedForm DEF IndexInv
  <1>5. CompletedIndexed'
    BY <1>4 DEF CompletedIndexed, Indexed
  <1>6. \A v \in Workers : pc'[v] \notin Indexing
    BY <1>2 DEF OneWorker, TypeInv, TypeOK, PipelineTypeOK, Indexing
  <1>. QED  BY <1>5, <1>6 DEF IndexInv, Indexing

LEMMA RestIndex ==
    ASSUME TypeInv, IndexInv,
           \/ ApiNext /\ UNCHANGED pipelineVars
           \/ Midnight
           \/ UNCHANGED vars
    PROVE  IndexInv'
  <1>1. UNCHANGED <<index, graph, pc, job, task>>
    BY DEF pipelineVars, fileVars, workerVars, Midnight, vars
  <1>2. \A t \in Transcripts : status'[t] = "completed" => status[t] = "completed"
    <2>1. CASE UNCHANGED status
      BY <2>1
    <2>2. CASE \E r \in Requests : RetryCommit(r)
      BY <2>2 DEF RetryCommit, SetStatus, TypeInv, TypeOK, StoreTypeOK
    <2>3. CASE \E t \in Transcripts : CreateCommit(t)
      BY <2>3 DEF CreateCommit, SetStatus, TypeInv, TypeOK, StoreTypeOK
    <2>. QED  BY <2>1, <2>2, <2>3 DEF ApiNext, CreateStep, RetryStep, CreateFlush, CreateEnqueue,
                 CreateRollback, RetryRead, RetryFlush, RetryEnqueue, RetryRollback, Midnight,
                 vars, storeVars
  <1>3. CompletedIndexed'
    BY <1>1, <1>2, StillIndexed DEF IndexInv
  <1>. QED  BY <1>1, <1>3 DEF IndexInv, Id

LEMMA IndexStep ==
    ASSUME OneWorker
    PROVE  TypeInv /\ IndexInv /\ [Next]_vars => IndexInv'
  <1>. SUFFICES ASSUME TypeInv, IndexInv, [Next]_vars PROVE IndexInv'
    OBVIOUS
  <1>1. ASSUME NEW w \in Workers, Step(w) \/ Fault(w) PROVE IndexInv'
    BY <1>1, OutsideIndex, LoopIndex, MetaIndex, CompleteIndex DEF Step, Fault
  <1>. QED  BY <1>1, RestIndex DEF Next, PipelineNext

LEMMA IndexInit == Init => IndexInv
  <1>. SUFFICES ASSUME Init PROVE IndexInv
    OBVIOUS
  <1>1. \A t \in Transcripts : status[t] = "absent"
    BY DEF Init, StoreInit
  <1>2. \A w \in Workers : pc[w] = "idle"
    BY DEF Init, PipelineInit
  <1>. QED  BY <1>1, <1>2 DEF IndexInv, CompletedIndexed

-------------------------------------------------------------------------------
(* Rewrites.                                                                *)

(* Points at which RewriteInv says something of the worker.                 *)
Reading == {"extract", "loop", "open", "write", "markRead", "markWrite"}

(* What RewriteInv says of a worker at point p with locals r, when the keys *)
(* in done are marked for its transcript.                                   *)
Careful(p, r, done) ==
    /\ p = "extract" => done \subseteq r.already
    /\ p \in {"loop", "open", "write", "markRead", "markWrite"} =>
          done \subseteq r.already \cup Behind(r)
    /\ p \in {"open", "write"} => r.key \notin r.already
    /\ p = "markWrite" => r.marks \subseteq r.already \cup Behind(r)

LEMMA RewriteForm ==
    RewriteInv <=> \A w \in Workers : Careful(pc[w], task[w], processed[Id(w)])
  BY DEF RewriteInv, Careful

(* Locals that go on in the same extraction leave no entity behind less.    *)
LEMMA BehindGrows ==
    ASSUME NEW r \in Tasks, NEW s \in Tasks, s.ext = r.ext, r.at <= s.at
    PROVE  Behind(r) \subseteq Behind(s)
  <1>1. /\ r.at \in Nat
        /\ s.at \in Nat
        /\ \A i \in DOMAIN r.ext.entities : i \in Nat
    BY TaskEntities
  <1>. QED  BY <1>1 DEF Behind

LEMMA QuietRewrite ==
    ASSUME OneWorker, TypeInv, NEW w \in Workers, NEW point,
           pc' = [pc EXCEPT ![w] = point], point \notin Reading
    PROVE  RewriteInv'
  <1>1. \A v \in Workers : pc'[v] \notin Reading
    BY DEF OneWorker, TypeInv, TypeOK, PipelineTypeOK
  <1>. QED  BY <1>1 DEF RewriteInv, Reading

LEMMA OutsideRewrite ==
    ASSUME OneWorker, TypeInv, NEW w \in Workers, Step(w) \/ Fault(w),
           ~Refresh(w), ~Extract(w), ~SkipEntity(w), ~StartEntity(w),
           ~OpenFile(w), ~WriteFile(w), ~MarkRead(w), ~MarkWrite(w)
    PROVE  RewriteInv'
  <1>. USE DEF Reading, Leave, Throw, Goto, Skip
  <1>1. CASE Deliver(w) \/ Ack(w) \/ FetchMissing(w) \/ FetchCompleted(w) \/ Fetch(w)
    BY <1>1, QuietRewrite DEF Deliver, Ack, FetchMissing, FetchCompleted, Fetch
  <1>2. CASE Lock(w) \/ RefreshCompleted(w) \/ ExtractNothing(w) \/ EndEntities(w)
    BY <1>2, QuietRewrite DEF Lock, RefreshCompleted, ExtractNothing, EndEntities
  <1>3. CASE ReadIndex(w)
    <2>1. \E point \in {"indexWrite", "graph"} : pc' = [pc EXCEPT ![w] = point]
      BY <1>3 DEF ReadIndex
    <2>. QED  BY <2>1, QuietRewrite
  <1>4. CASE ReadGraph(w) \/ WriteGraph(w) \/ WriteIndex(w) \/ Complete(w)
    BY <1>4, QuietRewrite DEF ReadGraph, WriteGraph, WriteIndex, Complete
  <1>5. CASE GiveUp(w) \/ DropValueError(w) \/ TryAgain(w) \/ Retry(w) \/ MarkTimedOut(w)
    BY <1>5, QuietRewrite DEF GiveUp, DropValueError, TryAgain, Retry, MarkTimedOut
  <1>6. CASE CallFails(w) \/ CompleteReplyLost(w) \/ SoftLimit(w) \/ HardLimit(w)
    BY <1>6, QuietRewrite DEF CallFails, CompleteReplyLost, SoftLimit, HardLimit
  <1>7. CASE Crash(w) \/ GiveUpUnmarked(w) \/ RetryRefused(w) \/ TimedOutUnmarked(w) \/ TimedOutReplyLost(w)
    BY <1>7, QuietRewrite DEF Crash, GiveUpUnmarked, RetryRefused, TimedOutUnmarked, TimedOutReplyLost
  <1>. QED  BY <1>1, <1>2, <1>3, <1>4, <1>5, <1>6, <1>7 DEF Step, Fault

(* What the locals and the marks look like after a step that RewriteInv     *)
(* is about.                                                                *)
LEMMA WorkerRewrite ==
    ASSUME OneWorker, TypeInv, NEW w \in Workers, NEW point, NEW r,
           pc' = [pc EXCEPT ![w] = point],
           task' = [task EXCEPT ![w] = r],
           UNCHANGED job,
           Careful(point, r, processed'[Id(w)])
    PROVE  RewriteInv'
  <1>1. \A v \in Workers : v = w /\ pc'[v] = point /\ task'[v] = r /\ Id(v)' = Id(w)
    BY DEF OneWorker, TypeInv, TypeOK, PipelineTypeOK, Id
  <1>2. \A v \in Workers : Careful(pc'[v], task'[v], processed'[Id(v)'])
    BY <1>1
  <1>. QED  BY <1>2 DEF RewriteInv, Careful

(* From the marks to the key at hand.                                       *)
LEMMA LoopRewrite ==
    ASSUME OneWorker, TypeInv, FilesSound, RewriteInv, NEW w \in Workers,
           \/ Refresh(w) \/ Extract(w) \/ SkipEntity(w) \/ StartEntity(w) \/ OpenFile(w)
           \/ WriteFile(w)
    PROVE  RewriteInv'
  <1>. DEFINE r == task[w]
              done == processed[Id(w)]
  <1>1. /\ r \in Tasks
        /\ task \in [Workers -> Tasks]
        /\ r.at \in Nat \ {0}
        /\ UNCHANGED <<processed, job>>
    BY TaskEntities DEF TypeInv, TypeOK, PipelineTypeOK, Refresh, Extract, SkipEntity,
       StartEntity, OpenFile, WriteFile, Goto, storeVars
  <1>2. Careful(pc[w], r, done)
    BY RewriteForm
  <1>3. CASE Refresh(w)
    <2>1. [r EXCEPT !.already = done].already = done
      BY <1>1 DEF Tasks
    <2>2. Careful("extract", [r EXCEPT !.already = done], processed'[Id(w)])
      BY <1>1, <2>1 DEF Careful
    <2>. QED  BY <1>1, <1>3, <2>2, WorkerRewrite DEF Refresh, Goto, Keep
  <1>4. CASE Extract(w)
    <2>1. PICK x \in Extractions[Id(w)] : task' = [task EXCEPT ![w] = [r EXCEPT !.ext = x]]
      BY <1>4 DEF Extract, Keep
    <2>2. [r EXCEPT !.ext = x].already = r.already
      BY <1>1 DEF Tasks
    <2>3. Careful("loop", [r EXCEPT !.ext = x], processed'[Id(w)])
      BY <1>1, <1>2, <1>4, <2>2 DEF Careful, Extract
    <2>. QED  BY <1>1, <1>4, <2>1, <2>3, WorkerRewrite DEF Extract, Goto
  <1>5. CASE SkipEntity(w)
    <2>. DEFINE s == [r EXCEPT !.at = @ + 1]
    <2>1. s \in Tasks /\ s.ext = r.ext /\ s.already = r.already /\ s.at = r.at + 1
      BY <1>1 DEF Tasks
    <2>. HIDE DEF s
    <2>2. Behind(r) \subseteq Behind(s)
      BY <1>1, <2>1, BehindGrows
    <2>3. Careful("loop", s, processed'[Id(w)])
      BY <1>1, <1>2, <1>5, <2>1, <2>2 DEF Careful, SkipEntity
    <2>. QED  BY <1>1, <1>5, <2>3, WorkerRewrite DEF SkipEntity, Goto, Keep, s
  <1>6. CASE StartEntity(w)
    <2>. DEFINE key == EntityKey(Entity(w), today)
                s == [r EXCEPT !.key = key]
    <2>1. /\ s.ext = r.ext
          /\ s.already = r.already
          /\ s.at = r.at
          /\ s.key = key
      BY <1>1 DEF Tasks
    <2>2. Behind(r) = Behind(s)
      BY <2>1 DEF Behind
    <2>3. key \notin r.already
      BY <1>6 DEF StartEntity
    <2>. HIDE DEF s, key
    <2>4. Careful("open", s, processed'[Id(w)])
      BY <1>1, <1>2, <1>6, <2>1, <2>2, <2>3 DEF Careful, StartEntity
    <2>. QED  BY <1>1, <1>6, <2>4, WorkerRewrite DEF StartEntity, Goto, Keep, s, key
  <1>7. CASE OpenFile(w)
    <2>1. PICK path, existing :
             task' = [task EXCEPT ![w] = [r EXCEPT !.path = path, !.existing = existing]]
      BY <1>7 DEF OpenFile, Keep
    <2>. DEFINE s == [r EXCEPT !.path = path, !.existing = existing]
    <2>2. s.ext = r.ext /\ s.already = r.already /\ s.at = r.at /\ s.key = r.key
      BY <1>1 DEF Tasks
    <2>. HIDE DEF s
    <2>3. Behind(r) = Behind(s)
      BY <2>2 DEF Behind
    <2>4. Careful("write", s, processed'[Id(w)])
      BY <1>1, <1>2, <1>7, <2>2, <2>3 DEF Careful, OpenFile
    <2>. QED  BY <1>1, <1>7, <2>1, <2>4, WorkerRewrite DEF OpenFile, Goto, s
  <1>8. CASE WriteFile(w)
    <2>1. Careful("markRead", r, processed'[Id(w)])
      BY <1>1, <1>2, <1>8 DEF Careful, WriteFile
    <2>2. task' = [task EXCEPT ![w] = r]
      BY <1>1, <1>8 DEF WriteFile
    <2>. QED  BY <1>1, <1>8, <2>1, <2>2, WorkerRewrite DEF WriteFile, Goto
  <1>. QED  BY <1>3, <1>4, <1>5, <1>6, <1>7, <1>8

(* The key that is marked belongs to the entity the loop leaves behind.     *)
LEMMA MarkRewrite ==
    ASSUME OneWorker, TypeInv, FilesSound, RewriteInv, NEW w \in Workers,
           MarkRead(w) \/ MarkWrite(w)
    PROVE  RewriteInv'
  <1>. DEFINE r == task[w]
              done == processed[Id(w)]
  <1>1. /\ r \in Tasks
        /\ task \in [Workers -> Tasks]
        /\ r.at \in Nat \ {0}
        /\ Id(w) \in Transcripts
        /\ processed \in [Transcripts -> SUBSET Keys]
        /\ UNCHANGED job
    BY TaskEntities, BusyWorker DEF TypeInv, TypeOK, PipelineTypeOK, StoreTypeOK, MarkRead,
       MarkWrite, Goto
  <1>2. Careful(pc[w], r, done)
    BY RewriteForm
  <1>3. CASE MarkRead(w)
    <2>. DEFINE s == [r EXCEPT !.marks = done]
    <2>1. s.ext = r.ext /\ s.already = r.already /\ s.at = r.at /\ s.marks = done
      BY <1>1 DEF Tasks
    <2>2. UNCHANGED processed /\ pc[w] = "markRead"
      BY <1>3 DEF MarkRead, storeVars
    <2>. HIDE DEF s
    <2>3. Behind(r) = Behind(s)
      BY <2>1 DEF Behind
    <2>4. Careful("markWrite", s, processed'[Id(w)])
      BY <1>2, <2>1, <2>2, <2>3 DEF Careful
    <2>. QED  BY <1>1, <1>3, <2>4, WorkerRewrite DEF MarkRead, Goto, Keep, s
  <1>4. CASE MarkWrite(w)
    <2>. DEFINE s == [r EXCEPT !.at = @ + 1, !.key = NoKey, !.path = NoKey,
                               !.existing = {}, !.marks = {}]
    <2>1. s \in Tasks /\ s.ext = r.ext /\ s.already = r.already /\ s.at = r.at + 1
      <3>1. {} \in SUBSET Keys /\ {} \in SUBSET Transcripts /\ NoKey \in Keys \cup {NoKey}
        OBVIOUS
      <3>2. r.at + 1 \in Nat \ {0}
        BY <1>1
      <3>. QED  BY <1>1, <3>1, <3>2 DEF Tasks
    <2>. HIDE DEF s
    <2>2. Behind(r) \subseteq Behind(s)
      BY <1>1, <2>1, BehindGrows
    <2>3. pc[w] = "markWrite"
      BY <1>4 DEF MarkWrite
    <2>4. PICK day \in Days : r.key = EntityKey(r.ext.entities[r.at], day)
      BY <2>3 DEF FilesSound, Sound, Body
    <2>5. r.at \in DOMAIN r.ext.entities
      BY <2>3 DEF TypeInv, EntitiesAtHand
    <2>6. r.key \in Behind(s)
      BY <1>1, <2>1, <2>4, <2>5 DEF Behind
    <2>7. processed'[Id(w)] \subseteq done \cup r.marks \cup {r.key}
      BY <1>1, <1>4 DEF MarkWrite
    <2>8. Careful("loop", s, processed'[Id(w)])
      BY <1>2, <2>1, <2>2, <2>3, <2>6, <2>7 DEF Careful
    <2>. QED  BY <1>1, <1>4, <2>8, WorkerRewrite DEF MarkWrite, Goto, Keep, s
  <1>. QED  BY <1>3, <1>4

LEMMA RestRewrite ==
    ASSUME TypeInv, RewriteInv,
           \/ ApiNext /\ UNCHANGED pipelineVars
           \/ Midnight
           \/ UNCHANGED vars
    PROVE  RewriteInv'
  <1>1. UNCHANGED <<pc, job, task>>
    BY DEF pipelineVars, workerVars, Midnight, vars
  <1>2. \A t \in Transcripts : processed'[t] \subseteq processed[t]
    <2>1. CASE UNCHANGED processed
      BY <2>1
    <2>2. CASE \E r \in Requests : RetryCommit(r)
      BY <2>2 DEF RetryCommit, TypeInv, TypeOK, StoreTypeOK
    <2>. QED  BY <2>1, <2>2 DEF ApiNext, CreateStep, RetryStep, CreateFlush, CreateEnqueue,
                 CreateCommit, CreateRollback, RetryRead, RetryFlush, RetryEnqueue,
                 RetryRollback, Midnight, vars, storeVars
  <1>3. ASSUME NEW w \in Workers PROVE Careful(pc'[w], task'[w], processed'[Id(w)'])
    <2>1. Careful(pc[w], task[w], processed[Id(w)])
      BY RewriteForm
    <2>2. CASE pc[w] = "idle"
      BY <1>1, <2>2 DEF Careful
    <2>3. CASE pc[w] # "idle"
      <3>1. Id(w) \in Transcripts
        BY <2>3, BusyWorker
      <3>2. processed'[Id(w)'] \subseteq processed[Id(w)]
        BY <1>1, <1>2, <3>1 DEF Id
      <3>. QED  BY <1>1, <2>1, <3>2 DEF Careful
    <2>. QED  BY <2>2, <2>3
  <1>. QED  BY <1>3 DEF RewriteInv, Careful

LEMMA RewriteStep ==
    ASSUME OneWorker
    PROVE  TypeInv /\ FilesInv /\ RewriteInv /\ [Next]_vars => RewriteInv'
  <1>. SUFFICES ASSUME TypeInv, FilesInv, RewriteInv, [Next]_vars PROVE RewriteInv'
    OBVIOUS
  <1>1. FilesSound
    BY FilesForm
  <1>2. ASSUME NEW w \in Workers, Step(w) \/ Fault(w) PROVE RewriteInv'
    BY <1>1, <1>2, OutsideRewrite, LoopRewrite, MarkRewrite
  <1>. QED  BY <1>2, RestRewrite DEF Next, PipelineNext

LEMMA RewriteInit == Init => RewriteInv
  BY DEF Init, PipelineInit, RewriteInv

(* A marked key at hand when the file is written is of an earlier entity.   *)
LEMMA RewriteImplies == TypeInv /\ RewriteInv => RewritesOnlyRepeats
  <1>. SUFFICES ASSUME TypeInv, RewriteInv,
                       NEW w \in Workers, pc[w] = "write", task[w].key \in processed[Id(w)]
                PROVE  \E i \in 1 .. task[w].at - 1, day \in Days :
                          EntityKey(task[w].ext.entities[i], day) = task[w].key
    BY DEF RewritesOnlyRepeats
  <1>1. task[w].key \in Behind(task[w])
    BY DEF RewriteInv
  <1>2. /\ task[w].at \in Nat
        /\ \A i \in DOMAIN task[w].ext.entities : i \in Nat \ {0}
    BY TaskEntities DEF TypeInv, TypeOK, PipelineTypeOK
  <1>. QED  BY <1>1, <1>2 DEF Behind

-------------------------------------------------------------------------------
(* What completed transcripts have been merged into.                        *)

Looping == {"loop", "open", "write", "markRead", "markWrite"}

Closing == {"index", "graph", "graphWrite", "indexWrite", "complete"}

Holds(files, k, t) == k \in MergedKeys => t \in files[k]

(* What FiledInv says of a worker at point p with locals r on behalf of t.  *)
Merged(files, p, r, t) ==
    /\ p \in {"extract"} \cup Looping => \A k \in r.already : Holds(files, k, t)
    /\ p \in Looping =>
          \A i \in DOMAIN r.ext.entities : i < r.at => Holds(files, r.ext.entities[i], t)
    /\ p \in Closing => \A i \in DOMAIN r.ext.entities : Holds(files, r.ext.entities[i], t)

LEMMA FiledForm ==
    FiledInv <=>
        /\ CompletedFiled
        /\ \A w \in Workers : Merged(mem, pc[w], task[w], Id(w))
  BY DEF FiledInv, Merged, Holds, Filed, Looping, Closing

(* No step takes anything from the file of a person or a topic.             *)
LEMMA MergedGrows ==
    ASSUME OneWorker, TypeInv, FilesInv, TreeInv, [Next]_vars
    PROVE  \A k \in MergedKeys : mem[k] \subseteq mem'[k]
  <1>1. [Tree!Next]_mem
    BY TreeStep
  <1>2. mem \in [Keys -> SUBSET Transcripts]
    BY DEF TypeInv, TypeOK, PipelineTypeOK
  <1>. QED
    BY <1>1, <1>2, KeysAssumption
    DEF Tree!Next, Tree!Merge, Tree!Record, Tree!Keys, Tree!MergedKeys, Tree!EventKeys,
        Tree!Days, Keys, MergedKeys, EventKeys, Days

(* What is filed stays filed while files grow.                              *)
LEMMA StillFiled ==
    ASSUME CompletedFiled,
           \A t \in Transcripts : status'[t] = "completed" => status[t] = "completed",
           \A k \in MergedKeys : mem[k] \subseteq mem'[k]
    PROVE  CompletedFiled'
  BY DEF CompletedFiled, Filed

(* A step of the sole worker that completes nothing.                        *)
LEMMA WorkerFiled ==
    ASSUME OneWorker, TypeInv, FiledInv, NEW w \in Workers, NEW point, NEW r,
           pc' = [pc EXCEPT ![w] = point],
           task' = [task EXCEPT ![w] = r],
           \A t \in Transcripts : status'[t] = "completed" => status[t] = "completed",
           \A k \in MergedKeys : mem[k] \subseteq mem'[k],
           Merged(mem, point, r, job'[w].id)
    PROVE  FiledInv'
  <1>1. CompletedFiled'
    BY StillFiled DEF FiledInv
  <1>2. Merged(mem', point, r, job'[w].id)
    BY DEF Merged, Holds
  <1>3. \A v \in Workers : v = w /\ pc'[v] = point /\ task'[v] = r
    BY DEF OneWorker, TypeInv, TypeOK, PipelineTypeOK
  <1>4. \A v \in Workers : Merged(mem', pc'[v], task'[v], Id(v)')
    BY <1>2, <1>3 DEF Id
  <1>. QED  BY <1>1, <1>4 DEF FiledInv, Merged, Holds, Filed, Looping, Closing

(* The same where FiledInv does not look.                                   *)
LEMMA QuietFiled ==
    ASSUME OneWorker, TypeInv, FiledInv, NEW w \in Workers, NEW point,
           pc' = [pc EXCEPT ![w] = point], point \notin {"extract"} \cup Looping \cup Closing,
           \A t \in Transcripts : status'[t] = "completed" => status[t] = "completed",
           UNCHANGED mem
    PROVE  FiledInv'
  <1>1. CompletedFiled'
    BY StillFiled DEF FiledInv
  <1>2. \A v \in Workers : pc'[v] \notin {"extract"} \cup Looping \cup Closing
    BY DEF OneWorker, TypeInv, TypeOK, PipelineTypeOK
  <1>. QED  BY <1>1, <1>2 DEF FiledInv, Looping, Closing

LEMMA OutsideFiled ==
    ASSUME OneWorker, TypeInv, FiledInv, NEW w \in Workers,
           \/ Deliver(w) \/ Ack(w) \/ FetchMissing(w) \/ FetchCompleted(w) \/ Fetch(w)
           \/ Lock(w) \/ RefreshCompleted(w) \/ ExtractNothing(w)
           \/ GiveUp(w) \/ DropValueError(w) \/ TryAgain(w) \/ Retry(w) \/ MarkTimedOut(w)
           \/ CallFails(w) \/ SoftLimit(w) \/ HardLimit(w) \/ Crash(w)
           \/ GiveUpUnmarked(w) \/ RetryRefused(w) \/ TimedOutUnmarked(w) \/ TimedOutReplyLost(w)
    PROVE  FiledInv'
  <1>. USE DEF Looping, Closing, Leave, Throw, Goto, Skip, storeVars, fileVars
  <1>1. CASE Deliver(w) \/ Ack(w) \/ FetchMissing(w) \/ FetchCompleted(w) \/ Fetch(w)
    BY <1>1, QuietFiled DEF Deliver, Ack, FetchMissing, FetchCompleted, Fetch
  <1>2. CASE Lock(w)
    <2>1. \A t \in Transcripts : status'[t] = "completed" => status[t] = "completed"
      BY <1>2 DEF Lock, SetStatus, TypeInv, TypeOK, StoreTypeOK
    <2>. QED  BY <1>2, <2>1, QuietFiled DEF Lock
  <1>3. CASE RefreshCompleted(w) \/ ExtractNothing(w)
    BY <1>3, QuietFiled DEF RefreshCompleted, ExtractNothing
  <1>4. CASE GiveUp(w) \/ MarkTimedOut(w) \/ TimedOutReplyLost(w)
    <2>1. \A t \in Transcripts : status'[t] = "completed" => status[t] = "completed"
      BY <1>4 DEF GiveUp, MarkTimedOut, TimedOutReplyLost, UpdateFailed, SetStatus, TypeInv,
         TypeOK, StoreTypeOK
    <2>. QED  BY <1>4, <2>1, QuietFiled DEF GiveUp, MarkTimedOut, TimedOutReplyLost
  <1>5. CASE DropValueError(w) \/ TryAgain(w) \/ Retry(w)
    BY <1>5, QuietFiled DEF DropValueError, TryAgain, Retry
  <1>6. CASE CallFails(w) \/ SoftLimit(w) \/ HardLimit(w) \/ Crash(w)
    BY <1>6, QuietFiled DEF CallFails, SoftLimit, HardLimit, Crash
  <1>7. CASE GiveUpUnmarked(w) \/ RetryRefused(w) \/ TimedOutUnmarked(w)
    BY <1>7, QuietFiled DEF GiveUpUnmarked, RetryRefused, TimedOutUnmarked
  <1>. QED  BY <1>1, <1>2, <1>3, <1>4, <1>5, <1>6, <1>7

(* The marks are read; the extraction comes after them.                     *)
LEMMA ReadingFiled ==
    ASSUME OneWorker, TypeInv, FilesSound, TreeInv, FiledInv, NEW w \in Workers,
           Refresh(w) \/ Extract(w)
    PROVE  FiledInv'
  <1>. DEFINE r == task[w]
              t == Id(w)
  <1>1. /\ r \in Tasks
        /\ t \in Transcripts
        /\ UNCHANGED <<status, mem, job>>
    BY BusyWorker DEF Refresh, Extract, Goto, storeVars, fileVars, TypeInv, TypeOK, PipelineTypeOK
  <1>2. CASE Refresh(w)
    <2>1. \A k \in processed[t] : Holds(mem, k, t)
      BY <1>1 DEF TreeInv, MergeSurvives, Holds
    <2>. DEFINE s == [r EXCEPT !.already = processed[t]]
    <2>2. s.already = processed[t]
      BY <1>1 DEF Tasks
    <2>3. pc' = [pc EXCEPT ![w] = "extract"] /\ task' = [task EXCEPT ![w] = s]
      BY <1>2 DEF Refresh, Goto, Keep
    <2>. HIDE DEF s, t
    <2>4. Merged(mem, "extract", s, t)
      BY <2>1, <2>2 DEF Merged, Looping, Closing
    <2>5. job'[w].id = t
      BY <1>1 DEF Id, t
    <2>. QED  BY <1>1, <2>3, <2>4, <2>5, WorkerFiled
  <1>3. CASE Extract(w)
    <2>1. PICK x \in Extractions[t] : task' = [task EXCEPT ![w] = [r EXCEPT !.ext = x]]
      BY <1>3 DEF Extract, Keep
    <2>2. pc[w] = "extract" /\ pc' = [pc EXCEPT ![w] = "loop"]
      BY <1>3 DEF Extract, Goto
    <2>3. r.at = 1
      BY <2>2 DEF FilesSound, Sound, Early
    <2>4. \A k \in r.already : Holds(mem, k, t)
      BY <2>2, FiledForm DEF Merged
    <2>. DEFINE s == [r EXCEPT !.ext = x]
    <2>5. s.ext = x /\ s.at = 1 /\ s.already = r.already
      BY <1>1, <2>3 DEF Tasks
    <2>6. x.entities \in Seq(Entities)
      BY <1>1, ExtractionType DEF AllExtractions
    <2>. HIDE DEF s, t
    <2>7. \A i \in DOMAIN s.ext.entities : ~ (i < s.at)
      BY <2>5, <2>6
    <2>8. Merged(mem, "loop", s, t)
      BY <2>4, <2>5, <2>7 DEF Merged, Looping, Closing
    <2>9. job'[w].id = t
      BY <1>1 DEF Id, t
    <2>. QED  BY <1>1, <2>1, <2>2, <2>8, <2>9, WorkerFiled DEF s
  <1>. QED  BY <1>2, <1>3

(* The entity that the loop leaves behind has been merged.                  *)
LEMMA PassingFiled ==
    ASSUME OneWorker, TypeInv, FilesSound, TreeInv, FiledInv, NEW w \in Workers,
           SkipEntity(w) \/ MarkWrite(w) \/ EndEntities(w)
    PROVE  FiledInv'
  <1>. DEFINE r == task[w]
              t == Id(w)
  <1>1. /\ r \in Tasks
        /\ task \in [Workers -> Tasks]
        /\ t \in Transcripts
        /\ UNCHANGED <<status, mem, job>>
    BY BusyWorker DEF SkipEntity, MarkWrite, EndEntities, Goto, storeVars, fileVars, TypeInv,
       TypeOK, PipelineTypeOK
  <1>2. /\ r.at \in Nat \ {0}
        /\ r.ext.entities \in Seq(Entities)
        /\ \A i \in DOMAIN r.ext.entities : i \in Nat /\ r.ext.entities[i] \in Entities
    BY <1>1, TaskEntities
  <1>3. /\ pc[w] \in {"loop", "markWrite"}
        /\ \A k \in r.already : Holds(mem, k, t)
        /\ \A i \in DOMAIN r.ext.entities : i < r.at => Holds(mem, r.ext.entities[i], t)
    BY FiledForm DEF SkipEntity, MarkWrite, EndEntities, Merged, Looping
  <1>4. job'[w].id = t
    BY <1>1 DEF Id
  <1>5. ASSUME NEW s, s.ext = r.ext, s.already = r.already, s.at = r.at + 1,
               Holds(mem, r.ext.entities[r.at], t)
        PROVE  Merged(mem, "loop", s, t)
    <2>1. \A i \in DOMAIN r.ext.entities :
             i < r.at + 1 => Holds(mem, r.ext.entities[i], t)
      <3>1. SUFFICES ASSUME NEW i \in DOMAIN r.ext.entities, i < r.at + 1
                     PROVE  i < r.at \/ i = r.at
        BY <1>3, <1>5
      <3>. QED  BY <1>2, <3>1
    <2>. QED  BY <1>3, <1>5, <2>1 DEF Merged, Looping, Closing
  <1>6. CASE SkipEntity(w)
    <2>. DEFINE s == [r EXCEPT !.at = @ + 1]
    <2>1. s.ext = r.ext /\ s.already = r.already /\ s.at = r.at + 1
      BY <1>1 DEF Tasks
    <2>2. pc' = [pc EXCEPT ![w] = "loop"] /\ task' = [task EXCEPT ![w] = s]
      BY <1>6 DEF SkipEntity, Goto, Keep
    <2>3. Holds(mem, r.ext.entities[r.at], t)
      BY <1>3, <1>6 DEF SkipEntity, Entity, EntityKey, Holds
    <2>. HIDE DEF s
    <2>4. Merged(mem, "loop", s, t)
      BY <1>5, <2>1, <2>3
    <2>. QED  BY <1>1, <1>4, <2>2, <2>4, WorkerFiled
  <1>7. CASE MarkWrite(w)
    <2>. DEFINE s == [r EXCEPT !.at = @ + 1, !.key = NoKey, !.path = NoKey,
                               !.existing = {}, !.marks = {}]
    <2>1. s.ext = r.ext /\ s.already = r.already /\ s.at = r.at + 1
      BY <1>1 DEF Tasks
    <2>2. /\ pc' = [pc EXCEPT ![w] = "loop"]
          /\ task' = [task EXCEPT ![w] = s]
          /\ pc[w] = "markWrite"
      BY <1>7 DEF MarkWrite, Goto, Keep
    <2>3. PICK day \in Days : r.key = EntityKey(r.ext.entities[r.at], day)
      BY <2>2 DEF FilesSound, Sound, Body
    <2>4. r.key \in MergedKeys => t \in mem[r.key]
      BY <2>2 DEF TreeInv
    <2>5. Holds(mem, r.ext.entities[r.at], t)
      BY <2>3, <2>4 DEF EntityKey, Holds
    <2>. HIDE DEF s
    <2>6. Merged(mem, "loop", s, t)
      BY <1>5, <2>1, <2>5
    <2>. QED  BY <1>1, <1>4, <2>2, <2>6, WorkerFiled
  <1>8. CASE EndEntities(w)
    <2>1. /\ pc' = [pc EXCEPT ![w] = "index"]
          /\ task' = [task EXCEPT ![w] = r]
          /\ r.at \notin DOMAIN r.ext.entities
      BY <1>1, <1>8 DEF EndEntities, Goto
    <2>2. ASSUME NEW i \in DOMAIN r.ext.entities PROVE i < r.at
      <3>1. /\ DOMAIN r.ext.entities = 1 .. Len(r.ext.entities)
            /\ Len(r.ext.entities) \in Nat
        BY <1>2
      <3>. QED  BY <1>2, <2>1, <3>1
    <2>3. Merged(mem, "index", r, t)
      BY <1>3, <2>2 DEF Merged, Looping, Closing
    <2>. QED  BY <1>1, <1>4, <2>1, <2>3, WorkerFiled
  <1>. QED  BY <1>6, <1>7, <1>8

(* In the body of the loop, and after it.                                   *)
LEMMA BodyFiled ==
    ASSUME OneWorker, TypeInv, FiledInv, NEW w \in Workers,
           \A k \in MergedKeys : mem[k] \subseteq mem'[k],
           \/ StartEntity(w) \/ OpenFile(w) \/ WriteFile(w) \/ MarkRead(w)
           \/ ReadIndex(w) \/ ReadGraph(w) \/ WriteGraph(w) \/ WriteIndex(w)
    PROVE  FiledInv'
  <1>. DEFINE r == task[w]
              s == task'[w]
  <1>1. r \in Tasks /\ task \in [Workers -> Tasks]
    BY DEF TypeInv, TypeOK, PipelineTypeOK
  <1>2. /\ UNCHANGED <<status, job>>
        /\ \/ \E point \in Looping : pc[w] \in Looping /\ pc' = [pc EXCEPT ![w] = point]
           \/ \E q \in Closing : pc[w] \in Closing /\ pc' = [pc EXCEPT ![w] = q]
    BY DEF StartEntity, OpenFile, WriteFile, MarkRead, ReadIndex, ReadGraph, WriteGraph,
           WriteIndex, Goto, storeVars, Looping, Closing
  <1>3. /\ s.ext = r.ext
        /\ s.at = r.at
        /\ s.already = r.already
        /\ task' = [task EXCEPT ![w] = s]
    <2>1. CASE WriteFile(w) \/ WriteGraph(w) \/ WriteIndex(w)
      BY <1>1, <2>1 DEF WriteFile, WriteGraph, WriteIndex
    <2>2. CASE StartEntity(w) \/ MarkRead(w)
      BY <1>1, <2>2 DEF StartEntity, MarkRead, Keep, Tasks
    <2>3. CASE OpenFile(w)
      BY <1>1, <2>3 DEF OpenFile, Keep, Tasks
    <2>4. CASE ReadIndex(w)
      BY <1>1, <2>4 DEF ReadIndex, Keep, Tasks
    <2>5. CASE ReadGraph(w)
      BY <1>1, <2>5 DEF ReadGraph, Keep, Tasks
    <2>. QED  BY <2>1, <2>2, <2>3, <2>4, <2>5
  <1>4. PICK point : /\ pc' = [pc EXCEPT ![w] = point]
                     /\ \/ point \in Looping /\ pc[w] \in Looping
                        \/ point \in Closing /\ pc[w] \in Closing
    BY <1>2
  <1>5. Merged(mem, pc[w], r, Id(w))
    BY FiledForm
  <1>. HIDE DEF s
  <1>6. Merged(mem, point, s, job'[w].id)
    BY <1>2, <1>3, <1>4, <1>5 DEF Merged, Looping, Closing, Id
  <1>. QED  BY <1>2, <1>3, <1>4, <1>6, WorkerFiled

(* A transcript becomes completed when its whole extraction is filed.       *)
LEMMA CompleteFiled ==
    ASSUME OneWorker, TypeInv, IndexInv, FiledInv, NEW w \in Workers,
           Complete(w) \/ CompleteReplyLost(w)
    PROVE  FiledInv'
  <1>. DEFINE t == Id(w)
  <1>1. /\ pc[w] = "complete"
        /\ \A v \in Transcripts : status'[v] = "completed" => v = t \/ status[v] = "completed"
        /\ UNCHANGED mem
    BY DEF Complete, CompleteReplyLost, SetStatus, fileVars, TypeInv, TypeOK, StoreTypeOK
  <1>2. \E point \in {"return", "handler"} : pc' = [pc EXCEPT ![w] = point]
    BY DEF Complete, CompleteReplyLost, Leave, Throw, Goto
  <1>3. \E x \in Extractions[t] : \A i \in DOMAIN x.entities : Filed(x.entities[i], t)
    BY <1>1 DEF IndexInv, FiledInv
  <1>4. CompletedFiled'
    BY <1>1, <1>3 DEF FiledInv, CompletedFiled, Filed
  <1>5. \A v \in Workers : pc'[v] \notin {"extract"} \cup Looping \cup Closing
    BY <1>2 DEF OneWorker, TypeInv, TypeOK, PipelineTypeOK, Looping, Closing
  <1>. QED  BY <1>4, <1>5 DEF FiledInv, Looping, Closing

LEMMA RestFiled ==
    ASSUME TypeInv, FiledInv,
           \/ ApiNext /\ UNCHANGED pipelineVars
           \/ Midnight
           \/ UNCHANGED vars
    PROVE  FiledInv'
  <1>1. UNCHANGED <<mem, pc, job, task>>
    BY DEF pipelineVars, fileVars, workerVars, Midnight, vars
  <1>2. \A t \in Transcripts : status'[t] = "completed" => status[t] = "completed"
    <2>1. CASE UNCHANGED status
      BY <2>1
    <2>2. CASE \E r \in Requests : RetryCommit(r)
      BY <2>2 DEF RetryCommit, SetStatus, TypeInv, TypeOK, StoreTypeOK
    <2>3. CASE \E t \in Transcripts : CreateCommit(t)
      BY <2>3 DEF CreateCommit, SetStatus, TypeInv, TypeOK, StoreTypeOK
    <2>. QED  BY <2>1, <2>2, <2>3 DEF ApiNext, CreateStep, RetryStep, CreateFlush, CreateEnqueue,
                 CreateRollback, RetryRead, RetryFlush, RetryEnqueue, RetryRollback, Midnight,
                 vars, storeVars
  <1>3. CompletedFiled'
    BY <1>1, <1>2, StillFiled DEF FiledInv
  <1>. QED  BY <1>1, <1>3 DEF FiledInv, Id, Filed

LEMMA FiledStep ==
    ASSUME OneWorker
    PROVE  TypeInv /\ FilesInv /\ TreeInv /\ IndexInv /\ FiledInv /\ [Next]_vars => FiledInv'
  <1>. SUFFICES ASSUME TypeInv, FilesInv, TreeInv, IndexInv, FiledInv, [Next]_vars
                PROVE  FiledInv'
    OBVIOUS
  <1>1. FilesSound /\ \A k \in MergedKeys : mem[k] \subseteq mem'[k]
    BY FilesForm, MergedGrows
  <1>2. ASSUME NEW w \in Workers, Step(w) \/ Fault(w) PROVE FiledInv'
    BY <1>1, <1>2, OutsideFiled, ReadingFiled, PassingFiled, BodyFiled, CompleteFiled
    DEF Step, Fault
  <1>. QED  BY <1>2, RestFiled DEF Next, PipelineNext

LEMMA FiledInit == Init => FiledInv
  <1>. SUFFICES ASSUME Init PROVE FiledInv
    OBVIOUS
  <1>1. \A t \in Transcripts : status[t] = "absent"
    BY DEF Init, StoreInit
  <1>2. \A w \in Workers : pc[w] = "idle"
    BY DEF Init, PipelineInit
  <1>. QED  BY <1>1, <1>2 DEF FiledInv, CompletedFiled

-------------------------------------------------------------------------------

(* With one worker no transcript is completed before the index names it and *)
(* every entity of its extraction, and the graph has its relationships:     *)
(* whatever crashes, retries and second deliveries come between the writes  *)
(* of _update_meta_index and _mark_completed, and for any number of         *)
(* transcripts, entities and retry calls.                                   *)
THEOREM CompletedAreIndexed == ASSUME OneWorker PROVE Spec => []CompletedIndexed
  <1>1. IndexInv => CompletedIndexed
    BY DEF IndexInv
  <1>2. Init => TypeInv
    BY TypeInit DEF TypeInv, Init, PipelineInit, WorkersHaveJobs, EntitiesAtHand
  <1>3. TypeInv /\ IndexInv /\ [Next]_vars => IndexInv'
    BY IndexStep
  <1>. QED  BY <1>1, <1>2, <1>3, TypeStep, IndexInit, PTL DEF Spec

(* With one worker an attempt writes a file for an entity already marked    *)
(* processed only when its extraction lists the entity twice: the retry     *)
(* calls that clear the marks meanwhile make it write less, never more.     *)
THEOREM RerunsSkip == ASSUME OneWorker PROVE Spec => []RewritesOnlyRepeats
  <1>1. Init => TypeInv
    BY TypeInit DEF TypeInv, Init, PipelineInit, WorkersHaveJobs, EntitiesAtHand
  <1>2. TypeInv /\ FilesInv /\ RewriteInv /\ [Next]_vars => RewriteInv'
    BY RewriteStep
  <1>. QED  BY <1>1, <1>2, FilesInit, FilesStep, TypeStep, RewriteInit, RewriteImplies, PTL
            DEF Spec
(* What a sole worker keeps true of the files and of its own locals.        *)
SoleInv == TypeInv /\ FilesInv /\ TreeInv /\ IndexInv /\ FiledInv

LEMMA SoleInvariant == ASSUME OneWorker PROVE Spec => []SoleInv
  <1>1. Init => TypeInv
    BY TypeInit DEF TypeInv, Init, PipelineInit, WorkersHaveJobs, EntitiesAtHand
  <1>2. Init => SoleInv
    BY <1>1, FilesInit, TreeInit, IndexInit, FiledInit DEF SoleInv
  <1>3. SoleInv /\ [Next]_vars => SoleInv'
    BY TypeStep, FilesStep, TreeStep, IndexStep, FiledStep DEF SoleInv
  <1>. QED  BY <1>2, <1>3, PTL DEF Spec

(* With one worker a completed transcript has been merged into the file of  *)
(* every person and topic of its extraction, whichever attempt merged it,   *)
(* and is still there after any number of other transcripts, crashes,       *)
(* retries and retry calls: an entity is passed over only for a mark, and   *)
(* marks tell of merges.                                                    *)
THEOREM CompletedAreFiled == ASSUME OneWorker PROVE Spec => []CompletedFiled
  <1>1. SoleInv => CompletedFiled
    BY DEF SoleInv, FiledInv
  <1>. QED  BY <1>1, SoleInvariant, PTL
===============================================================================
