------------------------------ MODULE FilesProofs ------------------------------
(***************************************************************************)
(* What the bookkeeping says is there is there: the proofs of              *)
(* ProcessedIsWritten and NoDanglingIndex, for any number of workers.      *)
(***************************************************************************)
EXTENDS MemoryWikiProofs

(* Keys whose file, up to the day in its name, exists.                      *)
Done(files) ==
    { k \in Keys : \E file \in Keys : SameUpToDate(file, k) /\ files[file] # {} }

(* An entity with a file in W.                                              *)
Present(W, entity) == \E day \in Days : EntityKey(entity, day) \in W

Early == {"idle", "fetch", "lock", "refresh", "extract"}

Body == {"open", "write", "markRead", "markWrite"}

(* What FilesInv says of a worker at point p with locals r, when W exists.  *)
Sound(W, p, r) ==
    /\ p \in Early => r.at = 1
    /\ r.already \cup r.marks \cup r.idx.entities \subseteq W
    /\ p \in Body => \E day \in Days : r.key = EntityKey(r.ext.entities[r.at], day)
    /\ p \in {"write", "markRead", "markWrite"} =>
          \E day \in Days : r.path = EntityKey(r.ext.entities[r.at], day)
    /\ p \in {"markRead", "markWrite"} => r.key \in W
    /\ p \in Body \cup {"loop"} =>
          \A i \in DOMAIN r.ext.entities : i < r.at => Present(W, r.ext.entities[i])
    /\ p = "index" => \A i \in DOMAIN r.ext.entities : Present(W, r.ext.entities[i])

(* FilesInv in these terms.                                                 *)
FilesSound ==
    /\ \A t \in Transcripts : processed[t] \subseteq Done(mem)
    /\ index.entities \subseteq Done(mem)
    /\ \A w \in Workers : Sound(Done(mem), pc[w], task[w])

-------------------------------------------------------------------------------
(* Facts about keys and locals.                                             *)

LEMMA DoneIsWritten == \A k \in Keys : k \in Done(mem) <=> Written(k)
  BY DEF Done, Written

(* Whatever days an entity is named on, its names are the same file's.      *)
LEMMA SameEntity ==
    ASSUME NEW entity \in Entities, NEW d1 \in Days, NEW d2 \in Days, NEW files,
           EntityKey(entity, d1) \in Done(files)
    PROVE  EntityKey(entity, d2) \in Done(files)
  <1>1. EntityKey(entity, d1) \in Keys /\ EntityKey(entity, d2) \in Keys
    BY EntityKeyType
  <1>2. PICK file \in Keys : SameUpToDate(file, EntityKey(entity, d1)) /\ files[file] # {}
    BY DEF Done
  <1>3. CASE entity \in MergedKeys
    BY <1>3 DEF EntityKey
  <1>4. CASE entity \notin MergedKeys
    <2>1. entity \in Events
      BY <1>4 DEF Entities
    <2>2. /\ EntityKey(entity, d1) \in EventKeys
          /\ EntityKey(entity, d2) \in EventKeys
          /\ EntityKey(entity, d1).title = EntityKey(entity, d2).title
      BY <1>4, <2>1 DEF EntityKey, MakeEventSlug, Events, EventKeys
    <2>3. SameUpToDate(file, EntityKey(entity, d2))
      BY <1>2, <2>2 DEF SameUpToDate
    <2>. QED  BY <1>1, <1>2, <2>3 DEF Done
  <1>. QED  BY <1>3, <1>4

(* More files do not make a worker's locals wrong.                          *)
LEMMA SoundGrows ==
    ASSUME NEW W, NEW V, W \subseteq V, NEW p, NEW r, Sound(W, p, r)
    PROVE  Sound(V, p, r)
  BY DEF Sound, Present

(* A fresh attempt knows nothing that could be wrong.                       *)
LEMMA SoundBlank ==
    ASSUME NEW W, NEW p, p \notin Body \cup {"loop", "index"}
    PROVE  /\ Sound(W, p, Blank)
           /\ \A e : Sound(W, p, [Blank EXCEPT !.exn = e])
  BY DEF Sound, Blank, Body

(* Beyond the loop only the keys matter.                                    *)
LEMMA SoundPasses ==
    ASSUME NEW W, NEW p, NEW q, NEW r, Sound(W, p, r),
           q \in Early => p \in Early,
           q \notin Body \cup {"loop", "index"}
    PROVE  Sound(W, q, r)
  BY DEF Sound, Body

(* The entities of an attempt.                                              *)
LEMMA TaskEntities ==
    ASSUME NEW r \in Tasks
    PROVE  /\ r.ext.entities \in Seq(Entities)
           /\ \A i \in DOMAIN r.ext.entities : r.ext.entities[i] \in Entities
           /\ r.at \in Nat \ {0}
  <1>1. r.ext.entities \in Seq(Entities) /\ r.at \in Nat \ {0}
    BY ExtractionType DEF Tasks
  <1>. QED  BY <1>1

LEMMA FilesForm == TypeInv => (FilesInv <=> FilesSound)
  <1>. SUFFICES ASSUME TypeInv PROVE FilesInv <=> FilesSound
    OBVIOUS
  <1>. DEFINE W == Done(mem)
  <1>1. \A k \in Keys : k \in W <=> Written(k)
    BY DoneIsWritten
  <1>. HIDE DEF W
  <1>2. \A t \in Transcripts : processed[t] \subseteq Keys
    BY DEF TypeInv, TypeOK, StoreTypeOK
  <1>3. index.entities \subseteq Keys
    BY DEF TypeInv, TypeOK, PipelineTypeOK, Index
  <1>4. ProcessedIsWritten /\ NoDanglingIndex <=>
          (\A t \in Transcripts : processed[t] \subseteq W) /\ index.entities \subseteq W
    BY <1>1, <1>2, <1>3 DEF ProcessedIsWritten, NoDanglingIndex
  <1>. DEFINE Fine(w) ==
          /\ pc[w] \in {"idle", "fetch", "lock", "refresh", "extract"} => task[w].at = 1
          /\ \A k \in task[w].already \cup task[w].marks \cup task[w].idx.entities : Written(k)
          /\ pc[w] \in {"open", "write", "markRead", "markWrite"} =>
                \E day \in Days : task[w].key = EntityKey(Entity(w), day)
          /\ pc[w] \in {"write", "markRead", "markWrite"} =>
                \E day \in Days : task[w].path = EntityKey(Entity(w), day)
          /\ pc[w] \in {"markRead", "markWrite"} => Written(task[w].key)
          /\ pc[w] \in {"loop", "open", "write", "markRead", "markWrite"} =>
                \A i \in DOMAIN task[w].ext.entities :
                    i < task[w].at => EntityWritten(task[w].ext.entities[i])
          /\ pc[w] = "index" =>
                \A i \in DOMAIN task[w].ext.entities : EntityWritten(task[w].ext.entities[i])
  <1>5. ASSUME NEW w \in Workers PROVE Fine(w) <=> Sound(W, pc[w], task[w])
    <2>1. task[w] \in Tasks
      BY DEF TypeInv, TypeOK, PipelineTypeOK
    <2>2. task[w].already \cup task[w].marks \cup task[w].idx.entities \subseteq Keys
      BY <2>1 DEF Tasks, Index
    <2>3. pc[w] \in {"markRead", "markWrite"} => task[w].key \in Keys
      BY DEF TypeInv, EntitiesAtHand
    <2>4. \A i \in DOMAIN task[w].ext.entities :
             EntityWritten(task[w].ext.entities[i]) <=> Present(W, task[w].ext.entities[i])
      BY <1>1, <2>1, TaskEntities, EntityKeyType DEF EntityWritten, Present
    <2>. QED  BY <1>1, <2>2, <2>3, <2>4 DEF Sound, Early, Body, Entity
  <1>6. FilesInv <=> ProcessedIsWritten /\ NoDanglingIndex /\ \A w \in Workers : Fine(w)
    BY DEF FilesInv
  <1>. HIDE DEF Fine
  <1>. QED  BY <1>4, <1>5, <1>6 DEF FilesSound, W

-------------------------------------------------------------------------------
(* Steps.                                                                   *)

(* Only w's own row of the workers' table changes, no file vanishes, and    *)
(* what w now knows or has recorded exists.                                 *)
LEMMA FilesMove ==
    ASSUME TypeInv, FilesSound, NEW w \in Workers, NEW point, NEW record,
           pc' = [pc EXCEPT ![w] = point],
           task' = [task EXCEPT ![w] = record],
           Done(mem) \subseteq Done(mem'),
           \A t \in Transcripts : processed'[t] \subseteq Done(mem'),
           index'.entities \subseteq Done(mem'),
           Sound(Done(mem'), point, record)
    PROVE  FilesSound'
  <1>. USE DEF TypeInv, TypeOK, PipelineTypeOK
  <1>1. ASSUME NEW v \in Workers PROVE Sound(Done(mem'), pc'[v], task'[v])
    <2>1. CASE v = w
      BY <2>1
    <2>2. CASE v # w
      <3>1. pc'[v] = pc[v] /\ task'[v] = task[v]
        BY <2>2
      <3>2. Sound(Done(mem), pc[v], task[v])
        BY DEF FilesSound
      <3>. QED  BY <3>1, <3>2, SoundGrows
    <2>. QED  BY <2>1, <2>2
  <1>. QED  BY <1>1 DEF FilesSound

(* The same, no mark or index entry made and no file written.               *)
LEMMA QuietFiles ==
    ASSUME TypeInv, FilesSound, NEW w \in Workers, NEW point, NEW record,
           pc' = [pc EXCEPT ![w] = point],
           task' = [task EXCEPT ![w] = record],
           UNCHANGED <<processed, fileVars>>,
           Sound(Done(mem), point, record)
    PROVE  FilesSound'
  BY FilesMove DEF FilesSound, fileVars

(* The locals are gone or unchanged, outside the loop.                      *)
LEMMA LeavingFiles ==
    ASSUME TypeInv, FilesSound, NEW w \in Workers, NEW point,
           pc' = [pc EXCEPT ![w] = point],
           UNCHANGED <<processed, fileVars>>,
           point \notin Body \cup {"loop", "index"},
           \/ Keep(w, Blank)
           \/ \E e \in Exceptions : Keep(w, [Blank EXCEPT !.exn = e])
           \/ UNCHANGED task /\ (point \in Early => pc[w] \in Early)
    PROVE  FilesSound'
  <1>1. CASE Keep(w, Blank)
    BY <1>1, SoundBlank, QuietFiles DEF Keep
  <1>2. CASE \E e \in Exceptions : Keep(w, [Blank EXCEPT !.exn = e])
    <2>1. PICK e \in Exceptions : Keep(w, [Blank EXCEPT !.exn = e])
      BY <1>2
    <2>2. Sound(Done(mem), point, [Blank EXCEPT !.exn = e])
      BY SoundBlank
    <2>. QED  BY <2>1, <2>2, QuietFiles DEF Keep
  <1>3. CASE UNCHANGED task /\ (point \in Early => pc[w] \in Early)
    <2>1. task' = [task EXCEPT ![w] = task[w]]
      BY <1>3 DEF TypeInv, TypeOK, PipelineTypeOK
    <2>2. Sound(Done(mem), pc[w], task[w])
      BY DEF FilesSound
    <2>3. Sound(Done(mem), point, task[w])
      BY <1>3, <2>2, SoundPasses
    <2>. QED  BY <2>1, <2>3, QuietFiles
  <1>. QED  BY <1>1, <1>2, <1>3

(* Every step of a worker but those of the loop and of the index.           *)
LEMMA OutsideFiles ==
    ASSUME TypeInv, FilesSound, NEW w \in Workers,
           \/ Deliver(w) \/ Ack(w) \/ FetchMissing(w) \/ FetchCompleted(w) \/ Lock(w)
           \/ RefreshCompleted(w) \/ ExtractNothing(w) \/ Complete(w)
           \/ GiveUp(w) \/ DropValueError(w) \/ TryAgain(w) \/ Retry(w) \/ MarkTimedOut(w)
           \/ Fault(w)
    PROVE  FilesSound'
  <1>. USE DEF Early, Body, Leave, Throw, Goto, Skip, Exceptions, storeVars
  <1>1. CASE Deliver(w) \/ Ack(w) \/ Lock(w) \/ Retry(w) \/ MarkTimedOut(w)
    BY <1>1, LeavingFiles DEF Deliver, Ack, Lock, Retry, MarkTimedOut
  <1>2. CASE FetchMissing(w) \/ FetchCompleted(w) \/ RefreshCompleted(w) \/ ExtractNothing(w)
    BY <1>2, LeavingFiles DEF FetchMissing, FetchCompleted, RefreshCompleted, ExtractNothing
  <1>3. CASE Complete(w) \/ GiveUp(w) \/ DropValueError(w) \/ TryAgain(w)
    BY <1>3, LeavingFiles DEF Complete, GiveUp, DropValueError, TryAgain
  <1>4. CASE CallFails(w) \/ CompleteReplyLost(w) \/ SoftLimit(w) \/ GiveUpUnmarked(w)
    BY <1>4, LeavingFiles DEF CallFails, CompleteReplyLost, SoftLimit, GiveUpUnmarked
  <1>5. CASE HardLimit(w) \/ Crash(w) \/ RetryRefused(w) \/ TimedOutUnmarked(w) \/ TimedOutReplyLost(w)
    BY <1>5, LeavingFiles DEF HardLimit, Crash, RetryRefused, TimedOutUnmarked, TimedOutReplyLost
  <1>. QED  BY <1>1, <1>2, <1>3, <1>4, <1>5 DEF Fault

(* What an attempt reads of the row, and the extraction.                    *)
LEMMA ReadingFiles ==
    ASSUME TypeInv, FilesSound, NEW w \in Workers, Fetch(w) \/ Refresh(w) \/ Extract(w)
    PROVE  FilesSound'
  <1>. DEFINE W == Done(mem)
              r == task[w]
  <1>0. /\ r \in Tasks
        /\ Id(w) \in Transcripts
        /\ Sound(W, pc[w], r)
    BY BusyWorker DEF Fetch, Refresh, Extract, FilesSound
  <1>1. CASE Fetch(w)
    <2> DEFINE record == [r EXCEPT !.seen = status[Id(w)]]
    <2>1. Sound(W, "lock", record)
      BY <1>0, <1>1 DEF Fetch, Sound, Early, Body, Tasks
    <2>. QED  BY <1>1, <2>1, QuietFiles DEF Fetch, Goto, Keep, storeVars
  <1>2. CASE Refresh(w)
    <2> DEFINE record == [r EXCEPT !.already = processed[Id(w)]]
    <2>1. processed[Id(w)] \subseteq W
      BY <1>0 DEF FilesSound
    <2>2. Sound(W, "extract", record)
      BY <1>0, <1>2, <2>1 DEF Refresh, Sound, Early, Body, Tasks
    <2>. QED  BY <1>2, <2>2, QuietFiles DEF Refresh, Goto, Keep, storeVars
  <1>3. CASE Extract(w)
    <2>1. PICK x \in Extractions[Id(w)] : Keep(w, [r EXCEPT !.ext = x])
      BY <1>3 DEF Extract
    <2> DEFINE record == [r EXCEPT !.ext = x]
    <2>2. record.at = 1 /\ record.ext = x
      BY <1>0, <1>3 DEF Extract, Sound, Early, Tasks
    <2>3. x.entities \in Seq(Entities)
      BY <1>0, ExtractionType DEF AllExtractions
    <2>4. \A i \in DOMAIN record.ext.entities : ~ (i < record.at)
      BY <2>2, <2>3
    <2>5. record.already \cup record.marks \cup record.idx.entities \subseteq W
      BY <1>0 DEF Sound, Tasks
    <2>6. Sound(W, "loop", record)
      BY <2>4, <2>5 DEF Sound, Early, Body
    <2>. QED  BY <1>3, <2>1, <2>6, QuietFiles DEF Extract, Goto, Keep, storeVars
  <1>. QED  BY <1>1, <1>2, <1>3

(* The entity at hand, and the ones before it.                              *)
LEMMA AtHand ==
    ASSUME TypeInv, FilesSound, NEW w \in Workers, pc[w] \in Body \cup {"loop"}
    PROVE  /\ task[w] \in Tasks
           /\ Id(w) \in Transcripts
           /\ Sound(Done(mem), pc[w], task[w])
           /\ today \in Days
           /\ task[w].at \in DOMAIN task[w].ext.entities => Entity(w) \in Entities
           /\ task[w].ext.entities \in Seq(Entities)
           /\ task[w].at \in Nat \ {0}
  BY BusyWorker, EntityType, TaskEntities
  DEF FilesSound, Body, TypeInv, TypeOK, PipelineTypeOK

(* Skipping an entity, starting one, and the end of the loop.               *)
LEMMA LoopFiles ==
    ASSUME TypeInv, FilesSound, NEW w \in Workers,
           SkipEntity(w) \/ StartEntity(w) \/ EndEntities(w)
    PROVE  FilesSound'
  <1>. DEFINE W == Done(mem)
              r == task[w]
  <1>0. pc[w] = "loop"
    BY DEF SkipEntity, StartEntity, EndEntities
  <1>1. /\ r \in Tasks
        /\ Sound(W, "loop", r)
        /\ today \in Days
        /\ r.at \in DOMAIN r.ext.entities => Entity(w) \in Entities
        /\ r.ext.entities \in Seq(Entities)
        /\ r.at \in Nat \ {0}
    BY <1>0, AtHand
  <1>. HIDE DEF W
  <1>2. CASE SkipEntity(w)
    <2> DEFINE record == [r EXCEPT !.at = @ + 1]
    <2>1. /\ record.at = r.at + 1
          /\ record.ext = r.ext
          /\ record.already \cup record.marks \cup record.idx.entities \subseteq W
      BY <1>1 DEF Sound, Tasks
    <2>2. Present(W, r.ext.entities[r.at])
      BY <1>1, <1>2 DEF SkipEntity, Present, Sound, Entity
    <2>3. \A i \in DOMAIN r.ext.entities : i < r.at + 1 => Present(W, r.ext.entities[i])
      <3>1. ASSUME NEW i \in DOMAIN r.ext.entities, i < r.at + 1
            PROVE  Present(W, r.ext.entities[i])
        <4>1. i \in Nat
          BY <1>1
        <4>2. i < r.at \/ i = r.at
          BY <1>1, <3>1, <4>1
        <4>3. CASE i < r.at
          BY <1>1, <4>3 DEF Sound
        <4>. QED  BY <2>2, <4>2, <4>3
      <3>. QED  BY <3>1
    <2> HIDE DEF record
    <2>4. Sound(W, "loop", record)
      BY <2>1, <2>3 DEF Sound, Early, Body
    <2>. QED  BY <1>2, <2>4, QuietFiles DEF SkipEntity, Goto, Keep, storeVars, W, record
  <1>3. CASE StartEntity(w)
    <2> DEFINE record == [r EXCEPT !.key = EntityKey(Entity(w), today)]
    <2>1. /\ record.at = r.at
          /\ record.ext = r.ext
          /\ record.key = EntityKey(r.ext.entities[r.at], today)
          /\ record.already \cup record.marks \cup record.idx.entities \subseteq W
      BY <1>1 DEF Sound, Tasks, Entity
    <2> HIDE DEF record
    <2>2. Sound(W, "open", record)
      BY <1>1, <2>1 DEF Sound, Early, Body
    <2>. QED  BY <1>3, <2>2, QuietFiles DEF StartEntity, Goto, Keep, storeVars, W, record
  <1>4. CASE EndEntities(w)
    <2>1. \A i \in DOMAIN r.ext.entities : i < r.at
      BY <1>1, <1>4 DEF EndEntities
    <2>2. Sound(W, "index", r)
      BY <1>1, <2>1 DEF Sound, Early, Body
    <2>3. task' = [task EXCEPT ![w] = r]
      BY <1>4 DEF EndEntities, TypeInv, TypeOK, PipelineTypeOK
    <2>. QED  BY <1>4, <2>2, <2>3, QuietFiles DEF EndEntities, Goto, storeVars, W
  <1>. QED  BY <1>2, <1>3, <1>4

(* Opening a file, and reading the marks.                                   *)
LEMMA OpenFiles ==
    ASSUME TypeInv, FilesSound, NEW w \in Workers, OpenFile(w) \/ MarkRead(w)
    PROVE  FilesSound'
  <1>. DEFINE W == Done(mem)
              r == task[w]
  <1>1. /\ r \in Tasks
        /\ Id(w) \in Transcripts
        /\ Sound(W, pc[w], r)
        /\ today \in Days
    BY AtHand DEF OpenFile, MarkRead, Body
  <1>2. processed[Id(w)] \subseteq W
    BY <1>1 DEF FilesSound
  <1>. HIDE DEF W
  <1>3. CASE OpenFile(w)
    <2> DEFINE path == EntityKey(Entity(w), today)
               existing == IF path \in MergedKeys THEN mem[path] ELSE {}
               record == [r EXCEPT !.path = path, !.existing = existing]
    <2>1. Keep(w, record)
      BY <1>3 DEF OpenFile
    <2> HIDE DEF existing
    <2>2. /\ record.at = r.at
          /\ record.ext = r.ext
          /\ record.key = r.key
          /\ record.path = EntityKey(r.ext.entities[r.at], today)
          /\ record.already \cup record.marks \cup record.idx.entities \subseteq W
      BY <1>1 DEF Sound, Tasks, Entity
    <2> HIDE DEF record
    <2>3. Sound(W, "write", record)
      BY <1>1, <1>3, <2>2 DEF OpenFile, Sound, Early, Body
    <2>. QED  BY <1>3, <2>1, <2>3, QuietFiles DEF OpenFile, Goto, Keep, storeVars, W
  <1>4. CASE MarkRead(w)
    <2> DEFINE record == [r EXCEPT !.marks = processed[Id(w)]]
    <2>1. /\ record.at = r.at
          /\ record.ext = r.ext
          /\ record.key = r.key
          /\ record.path = r.path
          /\ record.already \cup record.marks \cup record.idx.entities \subseteq W
      BY <1>1, <1>2 DEF Sound, Tasks
    <2> HIDE DEF record
    <2>2. Sound(W, "markWrite", record)
      BY <1>1, <1>4, <2>1 DEF MarkRead, Sound, Early, Body
    <2>. QED  BY <1>4, <2>2, QuietFiles DEF MarkRead, Goto, Keep, storeVars, W, record
  <1>. QED  BY <1>3, <1>4

(* Writing the file: its key is there from now on, and no other goes.       *)
LEMMA WriteFiles ==
    ASSUME TypeInv, FilesSound, NEW w \in Workers, WriteFile(w)
    PROVE  FilesSound'
  <1>. DEFINE W == Done(mem)
              V == Done(mem')
              r == task[w]
              stored == r.existing \cup {Id(w)}
  <1>1. /\ r \in Tasks
        /\ Id(w) \in Transcripts
        /\ Sound(W, "write", r)
        /\ pc[w] = "write"
    BY AtHand DEF WriteFile, Body
  <1>2. /\ r.path \in Keys
        /\ r.key \in Keys
        /\ Entity(w) \in Entities
    BY <1>1, EntityType DEF TypeInv, EntitiesAtHand
  <1>3. mem \in [Keys -> SUBSET Transcripts]
    BY DEF TypeInv, TypeOK, PipelineTypeOK
  <1>4. mem' = [mem EXCEPT ![r.path] = stored] /\ stored # {}
    BY DEF WriteFile
  <1>5. \A k \in Keys : mem[k] # {} => mem'[k] # {}
    BY <1>2, <1>3, <1>4
  <1>6. W \subseteq V
    BY <1>5 DEF Done
  <1>7. r.path \in V
    <2>1. mem'[r.path] # {}
      BY <1>2, <1>3, <1>4
    <2>. QED  BY <1>2, <2>1 DEF Done, SameUpToDate
  <1>8. r.key \in V
    <2>1. PICK d1 \in Days : r.path = EntityKey(Entity(w), d1)
      BY <1>1 DEF Sound, Entity
    <2>2. PICK d2 \in Days : r.key = EntityKey(Entity(w), d2)
      BY <1>1 DEF Sound, Body, Entity
    <2>. QED  BY <1>2, <1>7, <2>1, <2>2, SameEntity
  <1>. HIDE DEF W, V
  <1>9. Sound(V, "write", r)
    BY <1>1, <1>6, SoundGrows
  <1>10. Sound(V, "markRead", r)
    BY <1>8, <1>9 DEF Sound, Early, Body
  <1>11. task' = [task EXCEPT ![w] = r]
    BY DEF WriteFile, TypeInv, TypeOK, PipelineTypeOK
  <1>12. /\ \A t \in Transcripts : processed'[t] \subseteq V
         /\ index'.entities \subseteq V
    BY <1>6 DEF WriteFile, storeVars, FilesSound, W
  <1>. QED  BY <1>6, <1>10, <1>11, <1>12, FilesMove DEF WriteFile, Goto, W, V

(* Marking an entity: its file was written before.                          *)
LEMMA MarkFiles ==
    ASSUME TypeInv, FilesSound, NEW w \in Workers, MarkWrite(w)
    PROVE  FilesSound'
  <1>. DEFINE W == Done(mem)
              r == task[w]
              record == [r EXCEPT !.at = @ + 1, !.key = NoKey, !.path = NoKey,
                                  !.existing = {}, !.marks = {}]
  <1>1. /\ r \in Tasks
        /\ Id(w) \in Transcripts
        /\ Sound(W, "markWrite", r)
        /\ r.ext.entities \in Seq(Entities)
        /\ r.at \in Nat \ {0}
    BY AtHand DEF MarkWrite, Body
  <1>2. processed \in [Transcripts -> SUBSET Keys]
    BY DEF TypeInv, TypeOK, StoreTypeOK
  <1>. HIDE DEF W
  <1>3. r.key \in W /\ r.marks \subseteq W
    BY <1>1 DEF Sound
  <1>4. \A t \in Transcripts : processed'[t] \subseteq W
    <2>1. \A t \in Transcripts : processed[t] \subseteq W
      BY DEF FilesSound, W
    <2>. QED  BY <1>1, <1>2, <1>3, <2>1 DEF MarkWrite
  <1>5. /\ record.at = r.at + 1
        /\ record.ext = r.ext
        /\ record.marks = {}
        /\ record.already = r.already
        /\ record.idx = r.idx
    BY <1>1 DEF Tasks
  <1>6. Present(W, r.ext.entities[r.at])
    BY <1>1, <1>3 DEF Sound, Body, Present
  <1>7. ASSUME NEW i \in DOMAIN r.ext.entities, i < r.at + 1
        PROVE  Present(W, r.ext.entities[i])
    <2>1. i \in Nat
      BY <1>1
    <2>2. i < r.at \/ i = r.at
      BY <1>1, <1>7, <2>1
    <2>3. CASE i < r.at
      BY <1>1, <2>3 DEF Sound, Body
    <2>. QED  BY <1>6, <2>2, <2>3
  <1>. HIDE DEF record
  <1>8. Sound(W, "loop", record)
    BY <1>1, <1>5, <1>7 DEF Sound, Early, Body
  <1>9. index.entities \subseteq W
    BY DEF FilesSound, W
  <1>. QED  BY <1>4, <1>8, <1>9, FilesMove DEF MarkWrite, Goto, Keep, fileVars, W, record

(* The index and the graph: every entity indexed has its file.              *)
LEMMA IndexFiles ==
    ASSUME TypeInv, FilesSound, NEW w \in Workers,
           ReadIndex(w) \/ ReadGraph(w) \/ WriteGraph(w) \/ WriteIndex(w)
    PROVE  FilesSound'
  <1>. DEFINE W == Done(mem)
              r == task[w]
  <1>1. /\ r \in Tasks
        /\ Sound(W, pc[w], r)
        /\ r.ext.entities \in Seq(Entities)
    BY BusyWorker, TaskEntities DEF ReadIndex, ReadGraph, WriteGraph, WriteIndex, FilesSound
  <1>2. /\ \A t \in Transcripts : processed[t] \subseteq W
        /\ index.entities \subseteq W
        /\ today \in Days
    BY DEF FilesSound, TypeInv, TypeOK, PipelineTypeOK
  <1>3. CASE ReadIndex(w)
    <2> DEFINE keys == { EntityKey(r.ext.entities[i], today) : i \in DOMAIN r.ext.entities }
               idx == [entities    |-> index.entities \cup keys,
                       transcripts |-> index.transcripts \cup {Id(w)}]
               record == [r EXCEPT !.idx = idx]
               point == IF r.ext.relationships = {} THEN "indexWrite" ELSE "graph"
    <2>1. ASSUME NEW i \in DOMAIN r.ext.entities
          PROVE  EntityKey(r.ext.entities[i], today) \in W
      <3>1. r.ext.entities[i] \in Entities
        BY <1>1
      <3>2. PICK day \in Days : EntityKey(r.ext.entities[i], day) \in W
        BY <1>1, <1>3 DEF ReadIndex, Sound, Present
      <3>. QED  BY <1>2, <3>1, <3>2, SameEntity
    <2>2. keys \subseteq W
      BY <2>1
    <2>3. Keep(w, record) /\ Goto(w, point)
      BY <1>3 DEF ReadIndex
    <2> HIDE DEF W, keys
    <2>4. /\ record.idx.entities = index.entities \cup keys
          /\ record.already = r.already
          /\ record.marks = r.marks
      BY <1>1 DEF Tasks
    <2> HIDE DEF record
    <2>5. Sound(W, point, record)
      BY <1>1, <1>2, <2>2, <2>4 DEF Sound, Early, Body
    <2> HIDE DEF point
    <2>. QED  BY <1>3, <2>3, <2>5, QuietFiles DEF ReadIndex, Goto, Keep, storeVars, W
  <1>4. CASE ReadGraph(w)
    <2> DEFINE record == [r EXCEPT !.net = graph \cup (r.ext.relationships \X {Id(w)})]
    <2>1. /\ record.idx = r.idx
          /\ record.already = r.already
          /\ record.marks = r.marks
      BY <1>1 DEF Tasks
    <2>2. Keep(w, record)
      BY <1>4 DEF ReadGraph
    <2> HIDE DEF W, record
    <2>3. Sound(W, "graphWrite", record)
      BY <1>1, <2>1 DEF Sound, Early, Body
    <2>. QED  BY <1>4, <2>2, <2>3, QuietFiles DEF ReadGraph, Goto, Keep, storeVars, W
  <1>5. CASE WriteGraph(w) \/ WriteIndex(w)
    <2>1. pc' = [pc EXCEPT ![w] = "indexWrite"] \/ pc' = [pc EXCEPT ![w] = "complete"]
      BY <1>5 DEF WriteGraph, WriteIndex, Goto
    <2>2. task' = [task EXCEPT ![w] = r]
      BY <1>5 DEF WriteGraph, WriteIndex, TypeInv, TypeOK, PipelineTypeOK
    <2>3. UNCHANGED <<mem, processed>>
      BY <1>5 DEF WriteGraph, WriteIndex, storeVars
    <2>4. index'.entities \subseteq W
      BY <1>1, <1>2, <1>5 DEF WriteGraph, WriteIndex, Sound
    <2> HIDE DEF W
    <2>5. Sound(W, "indexWrite", r) /\ Sound(W, "complete", r)
      BY <1>1 DEF Sound, Early, Body
    <2>. QED  BY <1>2, <2>1, <2>2, <2>3, <2>4, <2>5, FilesMove DEF W
  <1>. QED  BY <1>3, <1>4, <1>5

-------------------------------------------------------------------------------
(* All steps.                                                               *)

LEMMA FilesInit == Init => FilesInv
  <1>. SUFFICES ASSUME Init PROVE FilesInv
    OBVIOUS
  <1>1. \A w \in Workers : pc[w] = "idle" /\ task[w] = Blank
    BY DEF Init, PipelineInit
  <1>2. \A t \in Transcripts : processed[t] = {}
    BY DEF Init, StoreInit
  <1>3. index.entities = {}
    BY DEF Init, PipelineInit
  <1>4. Blank.at = 1 /\ Blank.already = {} /\ Blank.marks = {} /\ Blank.idx.entities = {}
    BY DEF Blank
  <1>. QED  BY <1>1, <1>2, <1>3, <1>4 DEF FilesInv, ProcessedIsWritten, NoDanglingIndex

(* Calls and the clock leave the files alone; a retry call clears marks.    *)
LEMMA RestFiles ==
    ASSUME TypeInv, FilesSound,
           \/ ApiNext /\ UNCHANGED pipelineVars
           \/ Midnight
           \/ UNCHANGED vars
    PROVE  FilesSound'
  <1>1. UNCHANGED <<mem, index, pc, task>>
    BY DEF pipelineVars, fileVars, workerVars, Midnight, vars
  <1>2. \A t \in Transcripts : processed'[t] \subseteq processed[t]
    <2>1. CASE UNCHANGED processed
      BY <2>1
    <2>2. CASE \E r \in Requests : RetryCommit(r)
      BY <2>2 DEF RetryCommit, TypeInv, TypeOK, StoreTypeOK
    <2>. QED  BY <2>1, <2>2 DEF ApiNext, CreateStep, RetryStep, CreateFlush, CreateEnqueue,
                 CreateCommit, CreateRollback, RetryRead, RetryFlush, RetryEnqueue,
                 RetryRollback, Midnight, vars, storeVars
  <1>. QED  BY <1>1, <1>2 DEF FilesSound

LEMMA FilesStep == TypeInv /\ FilesInv /\ [Next]_vars => FilesInv'
  <1>1. TypeInv /\ FilesSound /\ [Next]_vars => FilesSound'
    <2>. SUFFICES ASSUME TypeInv, FilesSound, [Next]_vars PROVE FilesSound'
      OBVIOUS
    <2>1. ASSUME NEW w \in Workers, Step(w) \/ Fault(w) PROVE FilesSound'
      BY <2>1, OutsideFiles, ReadingFiles, LoopFiles, OpenFiles, WriteFiles, MarkFiles, IndexFiles
      DEF Step
    <2>. QED  BY <2>1, RestFiles DEF Next, PipelineNext
  <1>. QED  BY <1>1, TypeStep, FilesForm, PTL

(* A mark in processed_entities always has its file: writing comes before   *)
(* marking (pipeline.py), whatever is lost, retried or cleared, and however *)
(* many workers there are.                                                  *)
THEOREM MarksHaveFiles == Spec => []ProcessedIsWritten
  <1>1. FilesInv => ProcessedIsWritten
    BY DEF FilesInv
  <1>2. Init => TypeInv
    BY TypeInit DEF TypeInv, Init, PipelineInit, WorkersHaveJobs, EntitiesAtHand
  <1>. QED  BY <1>1, <1>2, FilesInit, FilesStep, TypeStep, PTL DEF Spec

(* An entry of the index always has its file, up to the day an undated      *)
(* event is named on (_update_meta_index), although an attempt indexes      *)
(* entities that only an earlier attempt has written.                       *)
THEOREM IndexHasFiles == Spec => []NoDanglingIndex
  <1>1. FilesInv => NoDanglingIndex
    BY DEF FilesInv
  <1>2. Init => TypeInv
    BY TypeInit DEF TypeInv, Init, PipelineInit, WorkersHaveJobs, EntitiesAtHand
  <1>. QED  BY <1>1, <1>2, FilesInit, FilesStep, TypeStep, PTL DEF Spec
===============================================================================
