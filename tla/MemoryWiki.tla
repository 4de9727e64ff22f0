------------------------------ MODULE MemoryWiki ------------------------------
(***************************************************************************)
(* The write path of the memory wiki, end to end: clients post transcripts *)
(* and ask for retries (TranscriptApi), the broker carries the tasks       *)
(* (TaskQueue), the workers turn transcripts into files (MemoryPipeline),  *)
(* and both sides meet in the transcripts table (TranscriptStore).         *)
(***************************************************************************)
EXTENDS TranscriptApi, MemoryPipeline

vars == <<storeVars, queueVars, apiVars, pipelineVars>>

TypeOK == StoreTypeOK /\ QueueTypeOK /\ ApiTypeOK /\ PipelineTypeOK

Init == StoreInit /\ QueueInit /\ ApiInit /\ PipelineInit

Next ==
    \/ ApiNext /\ UNCHANGED pipelineVars
    \/ PipelineNext /\ UNCHANGED apiVars

Spec == Init /\ [][Next]_vars

(* An API call that was begun goes on until it commits, and a worker never  *)
(* stops for good between two steps: what it waits for answers or times     *)
(* out.  Nothing is assumed of clients, of faults or of the clock.          *)
Fairness ==
    /\ \A t \in Transcripts : WF_vars(CreateStep(t) /\ UNCHANGED pipelineVars)
    /\ \A r \in Requests : WF_vars(RetryStep(r) /\ UNCHANGED pipelineVars)
    /\ \A w \in Workers : WF_vars(Step(w) /\ UNCHANGED apiVars)

FairSpec == Spec /\ Fairness

Transaction(r) == reqPc[r] \in {"flushed", "enqueued"} /\ reqDiff[r] # {}

-------------------------------------------------------------------------------
(* Jobs: nothing is lost without a trace.                                   *)

(* Somebody will still act on t.                                            *)
Owned(t) ==
    \/ Queued(t)
    \/ \E w \in Workers : pc[w] \in Owing /\ Id(w) = t

Accounted(t) == Owned(t) \/ t \in dropped

(* A transcript whose status tells the client that work is under way has a  *)
(* message in the queue or a worker on it, unless the pipeline took one of  *)
(* the steps that drop a job (those with Drop): acknowledging late and      *)
(* republishing before the acknowledgement leave no other gap, whatever     *)
(* crashes, retries and API calls come between (tasks.py, celery_app.py,    *)
(* transcripts.py).                                                         *)
NoSilentLoss ==
    \A t \in Transcripts :
        status[t] \in {"pending", "processing"} => Accounted(t)

(* A failed transcript carries its error_message: no interleaving of        *)
(* mark_failed with the reset in retry_transcript leaves one without.       *)
FailedHasError == \A t \in Transcripts : status[t] = "failed" => error[t]

(* A row lock belongs to exactly the retry transaction that has sent its    *)
(* UPDATE and not committed: no path of retry_transcript leaks it.          *)
LocksAreHeld ==
    \A t \in Transcripts, r \in Requests :
        rowLock[t] = r <=> Transaction(r) /\ reqFor[r] = t

(* A busy worker has a message, and one about to retry may.                 *)
WorkersHaveJobs ==
    \A w \in Workers :
        /\ pc[w] # "idle" => job[w] \in Messages
        /\ pc[w] = "retry" => job[w].retries < MaxRetries

(* A worker in the body of the loop has an entity, its key and its file.    *)
EntitiesAtHand ==
    \A w \in Workers :
        /\ pc[w] \in {"open", "write", "markRead", "markWrite"} =>
              /\ task[w].at \in DOMAIN task[w].ext.entities
              /\ task[w].key \in Keys
        /\ pc[w] \in {"write", "markRead", "markWrite"} => task[w].path \in Keys

(* Inductive.                                                               *)
TypeInv == TypeOK /\ WorkersHaveJobs /\ EntitiesAtHand

(* Why no failure is without error.  Inductive.                             *)
ErrorInv ==
    /\ FailedHasError
    /\ \A t \in Transcripts : status[t] \in {"absent", "pending"} => ~error[t]
    /\ \A r \in Requests :
          reqPc[r] \in {"read", "flushed", "enqueued"} =>
              ("status" \in reqDiff[r] <=> "error" \in reqDiff[r])

(* Why nothing is lost.  A row exists once its POST has committed, and      *)
(* every call and worker that acts on a row has seen it.                    *)
RowsAreCommitted ==
    /\ \A t \in Transcripts : status[t] = "absent" <=> posting[t] # "committed"
    /\ \A r \in Requests : reqPc[r] # "idle" => status[reqFor[r]] # "absent"
    /\ \A w \in Workers :
          pc[w] \in TryPoints \ {"fetch"} => status[Id(w)] # "absent"

(* A call that has enqueued its task and may yet make the row pending is    *)
(* accounted for, although its commit is still to come.                     *)
EnqueuedIsAccounted ==
    /\ \A t \in Transcripts : posting[t] = "enqueued" => Accounted(t)
    /\ \A r \in Requests :
          reqPc[r] = "enqueued" /\ reqDiff[r] # {} => Accounted(reqFor[r])

(* Inductive.                                                               *)
JobsInv ==
    /\ TypeInv
    /\ LocksAreHeld
    /\ RowsAreCommitted
    /\ EnqueuedIsAccounted
    /\ NoSilentLoss

-------------------------------------------------------------------------------
(* Files: what the bookkeeping says is there is there.                      *)

Written(k) == \E file \in Keys : SameUpToDate(file, k) /\ mem[file] # {}

(* An entity is in processed_entities only after its file was written, for  *)
(* any number of workers: a crash between the two loses the mark and never  *)
(* the file (_mark_entity_processed after write_file).                      *)
ProcessedIsWritten == \A t \in Transcripts : \A k \in processed[t] : Written(k)

(* The index names no file that does not exist, up to the day an undated    *)
(* event is named on, although entities skipped as processed in an earlier  *)
(* attempt are indexed without being looked at (_update_meta_index).        *)
NoDanglingIndex == \A k \in index.entities : Written(k)

EntityWritten(entity) == \E day \in Days : Written(EntityKey(entity, day))

(* Why: what a worker has read, marked or indexed was written before.  The  *)
(* file it opens is the entity's, if named on another day.  Inductive.      *)
FilesInv ==
    /\ ProcessedIsWritten
    /\ NoDanglingIndex
    /\ \A w \in Workers :
          /\ pc[w] \in {"idle", "fetch", "lock", "refresh", "extract"} => task[w].at = 1
          /\ \A k \in task[w].already \cup task[w].marks \cup task[w].idx.entities : Written(k)
          /\ pc[w] \in {"open", "write", "markRead", "markWrite"} =>
                \E day \in Days : task[w].key = EntityKey(Entity(w), day)
          /\ pc[w] \in {"write", "markRead", "markWrite"} =>
                \E day \in Days : task[w].path = EntityKey(Entity(w), day)
          /\ pc[w] \in {"markRead", "markWrite"} => Written(task[w].key)
          /\ pc[w] \in {"loop", "open", "write", "markRead", "markWrite"} =>
                \A i \in DOMAIN task[w].ext.entities :
                    i < task[w].at => EntityWritten(task[w].ext.entities[i])
          /\ pc[w] = "index" =>
                \A i \in DOMAIN task[w].ext.entities : EntityWritten(task[w].ext.entities[i])

(* With one worker, as deployed: once an entity is marked processed for t,  *)
(* file k holds t's facts, and later merges by other transcripts keep them. *)
MergeSurvives ==
    \A t \in Transcripts : \A k \in processed[t] \cap MergedKeys : t \in mem[k]

(* With one worker: a completed transcript is in the index with every       *)
(* entity of one extraction, and its relationships are in the graph; a      *)
(* crash or retry between the graph, the index and the status update leaves *)
(* no completed transcript half indexed.                                    *)
CompletedIndexed ==
    \A t \in Transcripts :
        status[t] = "completed" =>
            /\ t \in index.transcripts
            /\ \E x \in Extractions[t] :
                  /\ \A i \in DOMAIN x.entities :
                        \E k \in index.entities :
                            \E day \in Days : k = EntityKey(x.entities[i], day)
                  /\ x.relationships \X {t} \subseteq graph

(* File k holds what t says of it, if k is a person or a topic.             *)
Filed(k, t) == k \in MergedKeys => t \in mem[k]

(* With one worker: a completed transcript has been merged into the file of *)
(* every person and topic of one extraction, those included that the last   *)
(* attempt skipped because an attempt before a crash or a retry had marked  *)
(* them; and it stays there whatever other transcripts are merged later     *)
(* (process, _process_person, _process_topic, _mark_completed).             *)
CompletedFiled ==
    \A t \in Transcripts :
        status[t] = "completed" =>
            \E x \in Extractions[t] : \A i \in DOMAIN x.entities : Filed(x.entities[i], t)

(* With one worker: a file is written for an entity already marked          *)
(* processed for the transcript only if the same extraction lists the       *)
(* entity twice; whatever attempts, crashes and retry calls came before,    *)
(* re-running skips processed entities (process, tasks.py).                 *)
RewritesOnlyRepeats ==
    \A w \in Workers :
        pc[w] = "write" /\ task[w].key \in processed[Id(w)] =>
            \E i \in 1 .. task[w].at - 1, day \in Days :
                EntityKey(task[w].ext.entities[i], day) = task[w].key

(* Why merges survive: what a sole worker read of a file is still there     *)
(* when it writes, and a key is marked only after t is in.  Inductive.      *)
TreeInv ==
    /\ MergeSurvives
    /\ \A w \in Workers :
          /\ pc[w] = "write" =>
                task[w].existing = IF task[w].path \in MergedKeys
                                   THEN mem[task[w].path] ELSE {}
          /\ pc[w] \in {"markRead", "markWrite"} /\ task[w].key \in MergedKeys =>
                Id(w) \in mem[task[w].key]
          /\ pc[w] = "markWrite" =>
                \A k \in task[w].marks \cap MergedKeys : Id(w) \in mem[k]

Indexed(x, keys) ==
    \A i \in DOMAIN x.entities :
        \E k \in keys : \E day \in Days : k = EntityKey(x.entities[i], day)

(* Why completed transcripts are indexed: what a sole worker read of the    *)
(* index and the graph is still all there is when it writes them back.      *)
(* Inductive.                                                               *)
IndexInv ==
    /\ CompletedIndexed
    /\ \A w \in Workers :
          /\ pc[w] \in {"loop", "open", "write", "markRead", "markWrite", "index",
                        "graph", "graphWrite", "indexWrite", "complete"} =>
                task[w].ext \in Extractions[Id(w)]
          /\ pc[w] \in {"graph", "graphWrite", "indexWrite"} =>
                /\ index.entities \subseteq task[w].idx.entities
                /\ index.transcripts \cup {Id(w)} \subseteq task[w].idx.transcripts
                /\ Indexed(task[w].ext, task[w].idx.entities)
          /\ pc[w] = "graphWrite" =>
                graph \cup (task[w].ext.relationships \X {Id(w)}) \subseteq task[w].net
          /\ pc[w] \in {"indexWrite", "complete"} =>
                task[w].ext.relationships \X {Id(w)} \subseteq graph
          /\ pc[w] = "complete" =>
                Id(w) \in index.transcripts /\ Indexed(task[w].ext, index.entities)

(* Why completed transcripts are filed: an entity is skipped only for a     *)
(* mark, which tells of a merge, and passed only when it was merged.        *)
(* Inductive.                                                               *)
FiledInv ==
    /\ CompletedFiled
    /\ \A w \in Workers :
          /\ pc[w] \in {"extract", "loop", "open", "write", "markRead", "markWrite"} =>
                \A k \in task[w].already : Filed(k, Id(w))
          /\ pc[w] \in {"loop", "open", "write", "markRead", "markWrite"} =>
                \A i \in DOMAIN task[w].ext.entities :
                    i < task[w].at => Filed(task[w].ext.entities[i], Id(w))
          /\ pc[w] \in {"index", "graph", "graphWrite", "indexWrite", "complete"} =>
                \A i \in DOMAIN task[w].ext.entities : Filed(task[w].ext.entities[i], Id(w))

(* Keys of the entities an attempt is done with, on whatever day.           *)
Behind(r) ==
    { EntityKey(r.ext.entities[i], day) :
        i \in { j \in DOMAIN r.ext.entities : j < r.at }, day \in Days }

(* Why only repeats are rewritten: all that is marked was marked before the *)
(* sole worker looked, or by itself in this attempt.  Inductive.            *)
RewriteInv ==
    \A w \in Workers :
        /\ pc[w] = "extract" => processed[Id(w)] \subseteq task[w].already
        /\ pc[w] \in {"loop", "open", "write", "markRead", "markWrite"} =>
              processed[Id(w)] \subseteq task[w].already \cup Behind(task[w])
        /\ pc[w] \in {"open", "write"} => task[w].key \notin task[w].already
        /\ pc[w] = "markWrite" => task[w].marks \subseteq task[w].already \cup Behind(task[w])

(* With one worker, every file evolves as the abstract memory tree says.    *)
Tree == INSTANCE MemoryTree WITH tree <- mem

AtomicTree == Tree!Spec

-------------------------------------------------------------------------------
(* Progress.                                                                *)

(* Every job ends: with automatic retries bounded, each transcript that was *)
(* posted is at last left alone by queue and workers (tasks.py).            *)
JobsEnd == \A t \in Transcripts : <>[]~Owned(t)

(* A transcript whose status says that work is under way reaches an outcome *)
(* that a client polling it can see, or one of its jobs was dropped.        *)
Settles ==
    \A t \in Transcripts :
        status[t] \in {"pending", "processing"} ~>
            status[t] \in {"completed", "failed"} \/ t \in dropped
===============================================================================
