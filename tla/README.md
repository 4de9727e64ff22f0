# Memory wiki: a TLA+ model

The memory wiki takes conversation transcripts over a REST API, has an LLM
extract people, topics and events from them in Celery workers, and keeps one
Markdown file per person, topic and event in an object store, with an index
and a relationship graph beside them. Clients read the files with `ls`, `cat`
and `grep`, and a web page submits transcripts and follows their progress. This
directory models how a transcript becomes files, what of that survives
concurrency, crashes, retries and time limits, and what clients may rely on who
read meanwhile: TLA+ modules, TLC configurations that check them on small
instances, and proofs that TLAPS checks for instances of any size.

Line numbers below refer to files of the repository (`pipeline.py` is
`src/workers/pipeline.py`, and so on).

## The system

| component | state it keeps | operations |
|---|---|---|
| API server (`api/transcripts.py`, `services/transcript_service.py`, `db/session.py`) | one open transaction per call | `POST /transcripts`, `POST /transcripts/:id/retry`, reads |
| transcripts table (`models/transcript.py`) | `status`, `processed_entities`, `error_message`, row locks | SELECT and UPDATE by id, under READ COMMITTED |
| Redis and Celery (`workers/celery_app.py`, decorator in `tasks.py`) | waiting messages with their `retries` header | publish, deliver, late acknowledgement, redelivery, retry with backoff, soft and hard time limit |
| worker (`tasks.py`, `pipeline.py`) | the locals of one attempt | `process_transcript`: fetch, extract, one file per entity, mark, index, complete; three exception handlers |
| memory tree (`services/storage_service.py`) | `people/…`, `topics/…`, `events/…`, `_meta/index.json`, `_meta/graph.json` | `write_file`, `read_file`, listing, search |
| LLM (`llm/client.py`, `extraction.py`, `merger.py`) | none | extract (with its own three attempts), create a file, merge into a file |
| read API (`api/memories.py`, `services/memory_service.py`) | none | `ls`, `cat`, `grep` |
| web page (`static/index.html`) | two intervals with their handles, the submit button, the list | submit, poll, retry, browse |
| start-up (`entrypoint.sh`, `main.py`, migrations) | schema, bucket | migrate, `ensure_bucket` |

The API and the workers share the transcripts table and the broker and nothing
else; the workers alone write the memory tree, and the read API sees it without
any coordination. The web page knows of all this only what answers tell it, and
answers may come late, out of order, or not at all. Every API container migrates
the database and makes sure of the bucket before it serves; workers do neither.

What is hard here:

- **Order across two systems.** Both endpoints publish the task *before*
  `get_db` commits (`transcripts.py:52`, `:166`; `session.py:48`). A worker may
  run in between.
- **Reads without locks.** The retry endpoint checks a status it read earlier;
  `_fetch_and_lock` locks nothing; `processed_entities`, the index, the graph
  and every file are read, changed and written back as a whole.
- **At-least-once delivery.** Late acknowledgement, redelivery after a crash and
  automatic retries make duplicate and overlapping attempts at one transcript.
- **Two time limits** that may strike between any two steps, one of which ends
  the process and yet acknowledges the message.
- **Partial failure.** File, mark, graph, index and status are five separate
  writes; an attempt may end after any of them, and the next one asks the LLM
  again and may get another answer.
- **The clock.** An undated event is named from today's date three times in an
  attempt.
- **Reads that take many steps.** `grep` lists a page of keys, reads its files one
  by one and lists the next page, while files grow; the list of transcripts
  takes its count and its page from two statements, and its pages shift.
- **Retries inside retries.** The LLM client retries every exception, the soft
  time limit among them, below a task that is itself retried.
- **Lists changed under their own iterator** by `_validate_extraction`.
- **Answers out of order** in the page: a status of an earlier submission clears
  the interval of a later one; an old list restarts the refreshing.
- **Starting together.** Two containers may both find no table or no bucket and
  both create it.

What makes each part correct:

- *API*: a row lock never outlives its call; status and error change together.
- *Queue and workers*: a transcript shown as under way has a message or a
  worker, or one of a few known steps gave it up; every job ends.
- *Pipeline*: a key is marked only after its file is written; marked entities
  are not redone; a completed transcript is in the file of every person and topic
  it speaks of, and indexed, with its relationships.
- *Memory tree*: a file only ever gains contributions, one at a time (people and
  topics), or is replaced whole (events).
- *Reads*: an answer lies between what was there when the call began and what is
  there when it ends; no answer takes back an earlier one; a path means what a
  walk through directories would make of it.
- *Readers and pipeline together*: who has seen a transcript completed finds what
  it says from then on.
- *List of transcripts*: a walk through its pages misses nothing that was there.
- *LLM extraction*: nothing with a name is dropped or reordered; a failure is
  permanent only for a transcript without entities; every call ends.
- *Web page*: no timer is left behind; only a transcript that never comes to rest
  keeps the button disabled, an interval firing or a spinner turning.
- *Start-up*: workers find table and bucket; one of several servers comes up.

## Modules

| module | what it models |
|---|---|
| `MemoryKeys` | transcripts, entities, the keys of files, how an event is named, what an extraction may be |
| `TranscriptStore` | the table: committed columns and row locks |
| `TaskQueue` | messages in the broker (a bag), and `dropped`, the transcripts that lost a delivery without an outcome |
| `TranscriptApi` | the two writing endpoints |
| `MemoryPipeline` | the workers, the files and every fault |
| `MemoryWiki` | the composition, its properties and its inductive invariants |
| `MemoryTree` | abstract: what the files promise, contribution by contribution |
| `DocumentedClaims` | sentences of the README and docstrings that the code does not keep (that of `nameless` is in `LlmExtraction`) |
| `MemoryPaths` | what a path is and what `_normalize_path` makes of it |
| `MemoryReads` | `ls`, `cat` and `grep` as their store calls, over a tree that grows |
| `TranscriptPages` | `GET /transcripts`: count and page, and a walk through the pages |
| `LlmExtraction` | one extraction: the client's attempts, parsing, validation |
| `SubmitForm` | the form of the web page and its polling interval |
| `RecentList` | the list of the web page, its interval and the retry buttons |
| `ServerStart` | API servers coming up, and when a worker gets its first task |
| `WholeWiki` | `MemoryWiki` and `MemoryReads` over the same files, and clients that wait for status completed |
| `MCMemoryWiki`, `MCWholeWiki`, `MCParts`, `MCExtraction` | small instances for TLC |
| `MemoryWikiProofs`, `FilesProofs`, `SoleWorkerProofs` | theorems about `MemoryWiki`: types and jobs; files, for any number of workers; what holds with one worker |
| `ReadProofs`, `WholeWikiProofs` | theorems about `MemoryReads` and paths, and about `WholeWiki` |
| `FrontProofs`, `ExtractionProofs` | theorems about `TranscriptPages`, `ServerStart` and the web page, and about `LlmExtraction` |
| `LoopTheorems` | what a recursive function over positions computes, and induction on positions |

`MemoryKeys` is extended by `TranscriptStore`, `TaskQueue`, `MemoryTree` and
`MemoryReads`; the first two by `TranscriptApi` and `MemoryPipeline`; `MemoryWiki`
extends these. `MemoryTree` is where the halves meet: `MemoryWiki` implements
it (with one worker), and `MemoryReads` takes it, and nothing else, for the
writers that its clients read beside. `WholeWiki` puts the two together without
it: there `tree` is `mem`, the files of the pipeline, and that the composition
implements `MemoryReads` is a property (`ReadersSeeTree`). In the same way the pipeline takes an
extraction as one step that gives a result, nothing, a failure or a time-out,
and `LlmExtraction` looks inside. The page sees of a transcript only whether it
is at rest (completed or failed). It may come to rest and be reopened by a retry,
and it need not ever come to rest: `JobsEnd` says that every job ends, not that it
leaves an outcome behind.

### How state and actions correspond to the code

*Table.* `status[t]` is `"absent"` until the INSERT is committed. `error[t]` says
that `error_message` is not NULL. Only committed values are in the state: what
an API transaction has flushed is in `reqDiff`, and `rowLock` holds the row
from its UPDATE to its end. Worker transactions write once and commit at
once; each is one step that waits for the lock.

*API.* `CreateFlush`, `CreateEnqueue`, `CreateCommit` are the INSERT, `.delay()` and
the commit in `get_db`; `CreateRollback` ends the call at any point before that.
A retry call is `RetryRead` (SELECT and status check), `RetryFlush`, `RetryEnqueue`
and `RetryCommit`, or `RetryRollback`. SQLAlchemy sends only the columns whose
new value differs from the one read, hence `reqDiff`. 404 and 400 answers
change nothing and are no step.

*Queue.* A message is a transcript and its `retries` header. The queue is a bag:
backoff and redelivery make any order possible. `Deliver` moves a message to a
free worker (prefetch 1), `Ack` ends it.

*Worker.* `pc[w]` stands before the next transaction, store call or message to the
broker; `task[w]` holds the locals. The steps of `process` are `Fetch`, `Lock`,
`Refresh` (`_fetch_and_lock`; a row that is `processing` already gets no UPDATE),
`Extract` or `ExtractNothing`, then for each entity `SkipEntity` or
`StartEntity`, `OpenFile`, `WriteFile`, `MarkRead`, `MarkWrite`, then `ReadIndex`,
`ReadGraph`, `WriteGraph`, `WriteIndex` and `Complete`. An exception leads to
`"handler"`: `GiveUp` (last attempt, `mark_failed`), `DropValueError` (not retried),
`TryAgain` and `Retry`. The soft limit leads to `"timeout"` and `MarkTimedOut`.

*Faults.* `CallFails` (database, store or LLM refuse the next call; the LLM
client's own attempts are spent), `CompleteReplyLost` (the commit went through
and the connection broke), `TimedOutReplyLost` (the same of `mark_failed` in the
soft-limit handler: the row is failed and the task is retried), `GiveUpUnmarked`
and `TimedOutUnmarked` (`mark_failed` itself fails), `RetryRefused` (the broker refuses a retry), `SoftLimit`,
`HardLimit`, `Crash`. A failed call is taken not to raise a subclass of
`ValueError`.

*Files.* A file is the set of transcripts whose facts it holds: text is left out,
and a merge is taken to keep what was there, as its prompt asks. A person or
topic is its own key; an event's key is its title and the day it was named on.

*Giving up.* `dropped` is a history variable, not state of the program: a transcript
joins it when a delivery ends with no outcome recorded and no message left. It
names the ways this can happen, so that `NoSilentLoss` can say there is no
other: no row to mark yet (`GiveUp`, `MarkTimedOut` on an uncommitted row),
`GiveUpUnmarked`, `TimedOutUnmarked` on the last attempt, `DropValueError`,
`RetryRefused`, `HardLimit`, and a completed row passed over while a retry call
is about to turn it pending (`Skip`). An explicit retry forgives it.

*Reads.* `at[c]` and `call[c]` are where a call stands and the handler's locals.
`Resolve` normalizes the path, `GetObject` is `cat`'s one store call, `ListPage` one
page of the paginator, `ReadListed` one file that a grep reads, `EndPage` the
turn of the page. How many keys a page holds is left to the store (at most 1000
in S3), so every page break is tried. A client greps for words that stand in a
file from some transcript's merge on, so that a match is a member of `tree[k]`.
Left out are `_meta`, the depth (0 and None give the same entries, although a
docstring calls None recursive), case, line numbers, the order of results, and
the front matter. `cat` of the root fails, for its key is empty (`ReadFails`).
`Told`, `known` and `base` record for the properties what clients learnt.

*Clients that wait.* In `WholeWiki`, `SeeCompleted` is the answer of
`GET /transcripts/:id` (or `/status`) that a client waits for before it reads, and
`learned[c]` the transcripts it has seen completed; `CallStep` is a step of a call of
`MemoryReads` over the pipeline's files.

*Pages.* `created` is the order of `created_at`, taken when the row is made, and
`committed` the rows that a statement sees. `CountRows` and `FetchPage` are the two
statements of `list_all`. Times are taken to be distinct: the code leaves the
order of equal ones open. Two ways to end a walk are modelled, at a short page
and at the count of the last answer.

*Extraction.* `Answer`, `AttemptFails`, `LimitSwallowed` and `TryAnew` are
`generate_json` under its decorator; `Parse` types the reply and counts the
entities; `Examine` is one turn of either loop of `_validate_extraction`, with the
index of the iterator and `list.remove` on what is equal; `ExamineFails` is a name
that is no string. An entry is told apart by whether it has a name and whether its
slug is too long.

*Web page.* A fetch is sent, answered and received in three steps, and may be lost.
`timers` are the live intervals, `current` and `listHandle` what the page's two
handles hold. Fetches of the same thing that wait, or carry the same answer, at
the same time count as one. What the form does to the list is a reload, which
`RecentList` allows at any time. The list shows the newest `PageLength` transcripts,
and an error answer with a JSON body is an empty list to the script, which then
leaves the interval alone (`AnswerListError`; `index.html:790` returns before it).

*Start-up.* `ReadVersion` and `Migrate` are `alembic upgrade head`: the version is read,
then everything is created and committed in one transaction, which fails if
another has committed meanwhile. `HeadBucket`, `HeadRefused` and `CreateBucket` are
`ensure_bucket`. A server that fails exits (`set -e`, the lifespan), and only an
operator starts it again: the compose file names no restart policy.

## Runs

They turn off the deadlock check because the system may rightly stop: when all
calls are answered and the queue is empty, nothing is left to do.

| run | instance | shows |
|---|---|---|
| `jobs` | fair; 1 worker, 1 transcript, 1 retry call, 2 automatic retries, 1 crash | types, `NoSilentLoss`, `FailedHasError`, `LocksAreHeld`, `RewritesOnlyRepeats`, `JobsEnd`, `Settles` |
| `scaled_out` | 2 workers, 1 transcript, 1 retry call, 1 crash | `JobsInv` (inductive), `ProcessedIsWritten` |
| `deployed` | 1 worker, 2 transcripts sharing a person, a topic, an undated event, a relationship, a midnight, 1 crash | `NoDanglingIndex`, `CompletedIndexed`, `CompletedFiled`, `MergeSurvives`, the refinement `AtomicTree` |
| `whole` | 1 worker, 2 transcripts sharing a person, a topic, 1 client asking for a directory and a file | types, `CompletedIsFound`, the refinement `ReadersSeeTree` |
| `parts` | `MemoryReads`: 1 client, 3 files, 2 transcripts, 87 paths | `GrepBetween`, `LsBetween`, `NothingForgotten`, `PathsResolve` |
| | `TranscriptPages`: 4 rows in pages of 2 | `WalkIsComplete`, `CountedMissesNoMore` |
| | `ServerStart`, fair: 3 servers, 1 restart | `TasksFindTheirPlace`, `OneServes` |
| | `SubmitForm`, fair: 3 submissions, 2 lost answers | `NoLeakedTimer`, `BusyHasCause`, `ButtonReturns`, `PollingEnds` |
| | `RecentList`, fair: 3 transcripts, pages of 2, 2 reloads or retries, 2 lost answers | `SpinnerEnds`, `RefreshingEnds` |
| | `LlmExtraction`, fair: all replies of up to 4 people and 2 topics out of 4 kinds, 3 attempts | `NamedKept`, `PermanentOnlyIfEmpty`, `ExtractionEnds` |
| | all of them | types (`PartTypes`) |

`whole` uses the module `MCWholeWiki` and `parts` the module `MCParts`, which puts
parts that share no state side by side: each behaviour moves one of them, so that
no time goes into interleaving what cannot interfere. The refuting run `nameless`
uses `MCExtraction`, the rest `MCMemoryWiki`.

The bounds are large enough for what they are there for. Two workers on one
transcript give every overlap of two attempts, and a crash adds a duplicate
message; two transcripts that share a person give every merge of one
contribution into another; two automatic retries make a first attempt, a last
one, and one that is neither, which is all the code distinguishes. A retry call
that clears the marks under a worker is in `jobs` (marks are of one transcript, so
one suffices), a midnight and a second transcript in `deployed`; two retry
calls at once, one to be overtaken and one to overtake, are in `stale_retry`, and
in the theorems, any number of them. Three files in three directories
give an ls or grep up to three pages, and writes ahead of the cursor, at it
and behind it (two files do not: a cursor that skips a page goes unnoticed then). To
keep the run short only one of the two transcripts speaks of the topic
(`TopicOfOne`); both speak of the person and of the event. One client suffices, for
calls do not affect each other. `whole` has
neither crash nor retry, which `deployed` has: there it is the merge of one
transcript beside a client that waits for the other that matters. The paths
asked for are all those of up to three components over a name, "", "." and "..", and
one written in a roundabout way to each file; the theorem `NormalizedIsMeant` is
about all paths. Four rows in pages of two make a walk of
two pages that insertions push to three. Three submissions are a current one, an
earlier one whose answers are late, and one more that starts polling after both.
Three transcripts in pages of two push one off the list while it is under way.
Four people make every run of nameless entries between named ones; three
attempts are the program's own number. `LastDay`, `MaxCrashes`, the numbers of retry
calls, submissions, lost answers, reloads, restarts and waiting tasks are bounds
of the model; the program has none. `MaxCrashes` counts lost workers (`Crash`)
and lost replies to `mark_failed` (`TimedOutReplyLost`) together; the
theorems hold for every value of it. Symmetry (of workers and of retry calls) is
used only for invariants.

### What the documentation says and the code does not do

Seven runs each refute one sentence. Those marked *calm* need no fault at all.

| run | the sentence | what happens instead |
|---|---|---|
| `early_pickup` (calm) | "Persists the transcript … and enqueues an async job" (`transcripts.py:39`) | the worker is faster than the commit; the transcript stays pending, with no job |
| `no_entities` (calm) | "Raises ValueError … so the pipeline can mark the transcript as failed" (`extraction.py:206`) | it is not retried, not marked, and stays processing |
| `stale_retry` | "Only 'failed' or 'pending' transcripts can be retried" (`transcripts.py:154`) | a call that read "failed" is overtaken by another retry call and by the worker; its UPDATE, by id alone, turns the completed transcript pending |
| `midnight` (calm) | "current state of all memory files" (`pipeline.py:201`) | an indexed event has no file of that name |
| `hard_limit` | "pending → processing → completed/failed" (`README.md:171`) | processing for ever, and the retry endpoint refuses it |
| `next_day` | "re-running it for the same transcript will skip already-processed entities" (`tasks.py:45`) | an undated event is marked under the day of one attempt, and an attempt after midnight writes it again |
| `nameless` (calm) | "Validate entity names aren't empty", "Skipping person with empty name" (`extraction.py:218`) | the entry after a removed one is never looked at: every other nameless one of a row stays |

### What the properties do not claim

They are stated as strongly as the code allows. In particular `MemoryWiki` has
behaviours in which a completed transcript turns failed (the soft limit strikes
after the commit of `_mark_completed`, and `mark_failed` does not look at the
status); a file that was written but not yet marked is merged into again;
two transcripts that name the same meeting share one event file, although
"each meeting gets its own file" (`README.md:119`); the index
lacks a file that only an earlier attempt's extraction named; and, with two
workers, one merge overwrites another or two attempts at one transcript write
an entity twice. `MergeSurvives`, `RewritesOnlyRepeats`, `CompletedIndexed`,
`CompletedFiled`, `AtomicTree` and what `whole` shows are therefore about one worker, which is what
`docker-compose.yml` starts (`--concurrency=1`).

The reads are no snapshots: a grep may report a file that was merged after
another it does not report although that one was merged first. An ls may show
a directory whose files it cannot count on. A walk that trusts the count may
miss transcripts, though no more than were committed meanwhile. What
validation does to nameless entities, and that it leaves uncut the slug after a
removed one, is proved as it is (`EveryOtherRemoved`, `Iterated`).

The page has no end of its own. A transcript that stays pending or processing
(the first, second and fifth row above) is polled for ever, keeps the submit button disabled
until the page is reloaded, and keeps its spinner and the refreshing of the list
going while it is among the newest. What is claimed is that nothing else does:
`ButtonReturns`, `PollingEnds`, `SpinnerEnds` and `RefreshingEnds` each allow for a
transcript that is not at rest again and again, and for that alone. The badge of the
form may end on the status of an earlier submission, since a late answer clears the
interval that would correct it. The page's search panel expects
another answer than the search endpoint gives (a list with snippets), and its
entity chips build `profile.md` paths for topics too: one look at either shows
it, and no model is needed.

## Fairness

`FairSpec` assumes that an API call once begun is carried on (each of its steps is
weakly fair; a rollback is an alternative, never forced), and that a worker
takes its next step (`Step`): the libraries it waits for answer, fail or time
out, the event loop and the worker loop do not stop, and a free worker takes
a waiting message. No fairness is assumed of clients, faults or the clock, and
weak fairness of the `Step` disjunction makes no choice of the LLM come true.
A worker that waits for a row lock gets it because the retry call that holds it
goes on. `JobsEnd` needs crashes to be bounded: a message that kills its worker
on every delivery comes back for ever, since redelivery has no count.

`StartFairness` lets a server that was started take its next step, for the calls
it waits for answer or fail; nothing is assumed of operators. `ExtractSpec` assumes
that the provider's client answers or gives up and that pauses end. `FormFairness`
and `ListFairness` assume of the server that requests are answered, of the network
that a bounded number of answers is lost, and of the browser that intervals fire and
callbacks run. Nothing is assumed of the order of answers, of the user, or of the
workers: `FinishJob` and `EndRow` are not fair, for the code leaves some transcripts
pending or processing for ever. `OneServes`, `ButtonReturns` and the others hold
under these and fail without.

## Proofs

TLC's runs are about a few workers, transcripts, files, rows, servers and
submissions; the theorems are about any number of them, any page breaks and any
bounds. They rest on the named assumptions of
the modules that declare the constants and on nothing else: there is a
transcript (`TranscriptsAssumption`), days are numbers and `NoDate` is none of
them, no slug of a person or topic is an event (`KeysAssumption`), the markers
`NoRequest`, `NoMessage` and `NoKey` are no real values, the LLM reports people
before topics before at most one event (`PipelineAssumption`, the order
`process` walks them in), no file lies below another and the store lists keys in
some order (`PathsAssumption`), plain names are none of "", "." and ".."
(`NamesAssumption`), rows are finitely many and a page has at least one
(`PagesAssumption`), and bounds are natural numbers. TLC evaluates each in
the runs of its module. Those marked so assume `OneWorker` as well.

| theorem | says | module |
|---|---|---|
| `TypeCorrect` | `Spec => []TypeOK` | `MemoryWikiProofs` |
| `LocalsAreSet` | `Spec => []TypeInv` | `MemoryWikiProofs` |
| `JobsInvariant` | `Spec => []JobsInv` | `MemoryWikiProofs` |
| `LocksCorrect` | `Spec => []LocksAreHeld` | `MemoryWikiProofs` |
| `NothingLostSilently` | `Spec => []NoSilentLoss` | `MemoryWikiProofs` |
| `FailuresExplained` | `Spec => []FailedHasError` | `MemoryWikiProofs` |
| `MarksHaveFiles` | `Spec => []ProcessedIsWritten` | `FilesProofs` |
| `IndexHasFiles` | `Spec => []NoDanglingIndex` | `FilesProofs` |
| `MergesSurvive` (one worker) | `Spec => []MergeSurvives` | `SoleWorkerProofs` |
| `PipelineImplementsTree` (one worker) | `Spec => AtomicTree` | `SoleWorkerProofs` |
| `CompletedAreIndexed` (one worker) | `Spec => []CompletedIndexed` | `SoleWorkerProofs` |
| `CompletedAreFiled` (one worker) | `Spec => []CompletedFiled` | `SoleWorkerProofs` |
| `RerunsSkip` (one worker) | `Spec => []RewritesOnlyRepeats` | `SoleWorkerProofs` |
| `ReadersAreServed` (one worker) | `WholeSpec => ReadersSeeTree` | `WholeWikiProofs` |
| `WhatIsCompletedIsFound` (one worker) | `WholeSpec => []CompletedIsFound` | `WholeWikiProofs` |
| `WholeTypeCorrect` (one worker) | `WholeSpec => []WholeTypeOK` | `WholeWikiProofs` |
| `NormalizedIsNames` | `Normalize(path) \in Seq(Names)` for every path | `ReadProofs` |
| `NormalizedOnce` | normalizing twice changes nothing | `ReadProofs` |
| `NormalizedIsMeant` | `Means(path, Normalize(path))` for every path | `ReadProofs` |
| `AskedPathsResolve` | `ReadsSpec => []PathsResolve` | `ReadProofs` |
| `ReadsTypeCorrect` | `ReadsSpec => []ReadsTypeOK` | `ReadProofs` |
| `GrepCorrect`, `LsCorrect`, `NothingIsForgotten` | `ReadsSpec` implies `[]GrepBetween`, `[]LsBetween`, `[]NothingForgotten` | `ReadProofs` |
| `ExtractInvariant`, `ExtractionTypes` | `ExtractSpec` implies `[]ExtractInv`, `[]ExtractTypeOK` | `ExtractionProofs` |
| `NamedEntriesKept`, `EveryOtherNamelessRemoved` | `ExtractSpec` implies `[]NamedKept`, `[]EveryOtherRemoved` | `ExtractionProofs` |
| `PermanentFailureIsEmpty` | `ExtractSpec => []PermanentOnlyIfEmpty` | `ExtractionProofs` |
| `WalksAreComplete`, `CountsMissNoMore` | `PagesSpec` implies `[]WalkIsComplete`, `[]CountedMissesNoMore` | `FrontProofs` |
| `WorkersFindTheirPlace` | `StartSpec => []TasksFindTheirPlace` | `FrontProofs` |
| `TimersDoNotLeak`, `DisabledForACause` | `FormSpec` implies `[]NoLeakedTimer`, `[]BusyHasCause` | `FrontProofs` |
| `ListTypeCorrect` | `ListSpec => []ListTypeOK` | `FrontProofs` |

Those about `MemoryWiki` are shown by inductive invariants stated there:

- **`TypeInv`.** Types alone are not inductive: that a file written is one of `Keys`
  needs to know that the worker has an entity at hand when it names the file
  (`EntitiesAtHand`), and that a retry stays within `MaxRetries` needs to know
  where `"retry"` is reached from (`WorkersHaveJobs`).
- **`JobsInv`** adds to `NoSilentLoss` who holds which lock, that every call and
  worker acting on a row has seen it committed, and that a call which has
  published its task is accounted for although its commit is still to come
  (`EnqueuedIsAccounted`). The last is the point of the proof: between `.delay()`
  and the commit a worker may take the task, finish it, and leave; then either
  it found no row, or it found one that was complete, and both count as drops.
- **`ErrorInv`** adds to `FailedHasError` that a retry call resets status and
  error together or neither, which holds because it read the two together.
- **`FilesInv`** follows a key through the locals of an attempt: what is read from
  `processed_entities`, carried in the loop and collected for the index was
  written before. `FilesProofs` restates it as `FilesSound`, with the set `Done`
  of written keys made explicit, because a larger `Done` then leaves the locals of
  every other worker sound at once (`SoundGrows`), so that each step is about one
  worker only. `SameEntity` is why a midnight does no harm here: names of one
  entity from two days are names of the same file up to its day.
- **`TreeInv`** says that what the sole worker read of a file is what the file
  still holds when it writes. It needs `FilesInv`, to know that the key it marks
  is the file it wrote (`KeyIsPath`), and it fails for two workers. From it each
  `WriteFile` is a `Merge` or a `Record` of `MemoryTree`, and every other step
  leaves the tree alone.
- **`IndexInv`** says the same of the index and the graph: between the sole worker's
  read and its write nobody else writes, so what it writes contains what is
  there, and neither ever shrinks. What was complete stays indexed, and a
  transcript becomes complete only where the index has all of one extraction.
  Extraction, loop and index carry the same `ext`, which is why the extraction
  of the last attempt is the one indexed.
- **`FiledInv`** says that an attempt has merged, itself or by an earlier one whose
  marks it read, all it has passed. A mark tells of a merge (`TreeInv`), the key
  marked is the key of the entity at hand (`FilesInv`), an entity is skipped only for
  its mark, and no step takes anything out of a person's or topic's file
  (`MergedGrows`, from the refinement). With `IndexInv`, which has the extraction
  at hand be one of the transcript's, completion then is of an extraction all filed.
- **`RewriteInv`** says that all that is marked for a transcript was marked before the
  sole worker looked (`already`) or belongs to an entity its loop has left
  behind. Retry calls take marks away and never add one, and `FilesInv` gives that
  the key marked is the key of the entity at hand.

The others:

- **`ReadsInv`** (`MemoryReads`) splits what a call seeks into found, about to be read,
  and still ahead of the cursor (`NothingPassedOver`), and says that what was found
  or told is still true, because files only grow (`FilesGrow`). That the store's
  page is a least part of what is ahead carries the first over a page break.
- **`FoundInv`** (`WholeWiki`): what a client has seen completed is filed, and was when
  its call began. `ReadProofs` is instantiated with the pipeline's files for the
  tree; the steps of readers leave the writers alone, and those of the writers
  are, by the refinement, the tree's. So `ReadsInv` holds of the composition, and
  what was in the files at the beginning is in the answer (`BaseIsShown`).
- **Paths.** `Normalize` is a recursive function over positions. The library's
  induction theorems take an operator for a parameter, which the provers cannot
  instantiate, so `LoopTheorems` states induction for sets of positions
  (`TurnInduction`: a set that has the first and with each position the next has all;
  else there were a least one outside, `LeastOfSet`) and what such a function computes at each position
  (`LoopFunction`). With them `NormalizedIsMeant` follows a stack of positions through
  the loop: the names on it are those that no ".." up to here takes back, a name
  pushes its position (`PushStack`), ".." pops the last (`PopStack`), and counting
  the names and the ".." after a position tells whether it is still there.
- **`ExtractInv`** (`LlmExtraction`) says where the iterator is in what was reported.
  `removed` entries are gone from the list and all lie before it, so that position
  `n` of the list is entry `n + removed` of the reply, from where on nothing has changed;
  before it the named entries stand in their order, each cut if it was examined
  and too long (`Iterated`). `list.remove` takes out the first equal entry, which is
  the one at hand or an equal nameless one before it; either way the named ones keep
  their order, and those behind move up by one (`RemoveFirstValue`,
  `ExamineNameless`). That one after a removed entry is passed over is in
  `Examined`, which the reply alone determines.
- **`PagesInv`** (`TranscriptPages`): a row that was there at the start and was not
  shown yet has at least a full page of newer rows for every page passed. Rows
  that commit late only push it further back, and a short page leaves no room.
- **`PlaceInv`** (`ServerStart`) follows a server's stages: who serves found or made both.
- `NoLeakedTimer` is inductive with the types, and `BusyHasCause` with it: an answer
  that clears the last interval enables the button in the same callback. The types
  of the list need that the handle is set exactly while its interval lives.

TLC has checked each inductive invariant on the instances of the runs before it
was proved; `scaled_out` checks `JobsInv` in every run.

Model-checked only: everything about liveness (`JobsEnd`, `Settles`, `OneServes`,
`ButtonReturns`, `PollingEnds`, `SpinnerEnds`, `RefreshingEnds`, `ExtractionEnds`), for
fairness and ENABLED are beyond the proof system; and the refuted sentences. Every
safety property that a passing run checks is a theorem (`PartTypes` part by part:
`ReadsTypeCorrect`, `ListTypeCorrect`, `ExtractionTypes`, and within the invariants of
pages, start and form).

## How it was built, and what could follow

The order was: the write path and its composition first, with its runs and the
theorems on jobs and files; then the abstract tree and the refinement; then the
readers over that tree, the page, the extraction and the start-up, each with its
run; then the theorems on the index, on the readers and on the extraction, and the
composition of readers and pipeline. What could follow:

1. **A life cycle of one transcript** as an abstract specification (pending,
   processing, completed or failed, retried, given up), implemented by
   `MemoryWiki`. As the code stands nearly every transition is possible; it is
   worth stating once the sentences above hold.
2. **The badge**, once somebody decides whose status it shows.
3. **Events as groups**: which of several transcripts of one meeting its file tells
   of, if merging them is ever wanted.

## Not modelled, and why

- **Text**: prompts, Markdown, JSON, front matter, code fences, slugs character by
  character. A merge
  is taken to keep what the file held; whether an LLM does is not a property
  of this code.
- **The store's consistency**: a read sees the last completed write of the same
  object, as MinIO promises.
- **Loss of the broker's or the database's own data**, and changes made to either
  by hand.
- **Redelivery by the visibility timeout** (one hour by default, longer than the
  hard limit allows any task to run): it adds only duplicates of messages, which
  `Crash` adds as well.
- **Redelivery without end**: a transcript that kills its worker on every delivery.
  It is so by configuration, and crashes are bounded in the model.
- **What the page only displays**: tree, files, search results, the badge's text.
- **Hiding of dot directories** in `list_directory`: no slug begins with a dot.
- **`file_exists`**, which nothing calls, and the migration's `downgrade`.
- **Schemas, error formatting, configuration, routing, the health probe**: they
  are declarative or keep no state.
- **The seed script and deployment files**: a client of the API, and the layout that
  the runs with one worker assume.
