------------------------------ MODULE ServerStart ------------------------------
(***************************************************************************)
(* How API servers come up: entrypoint.sh migrates the database, and then  *)
(* uvicorn's lifespan makes sure that the bucket exists.  Several servers  *)
(* may start at once, on a first deployment or over the volumes of an      *)
(* earlier one.  Nothing starts a server again that has exited, but an     *)
(* operator may.  A worker checks neither table nor bucket; it works on    *)
(* the tasks that serving servers enqueue.                                 *)
(***************************************************************************)
EXTENDS Naturals

CONSTANTS
    Servers,
    MaxTasks,       \* bound: tasks that wait at once
    MaxRestarts     \* bound: how often an operator starts a server again

ASSUME StartAssumption == MaxTasks \in Nat /\ MaxRestarts \in Nat

VARIABLES
    schema,     \* the migrations are applied (table and alembic_version, one commit)
    bucket,     \* the bucket exists
    server,     \* server[s]: how far s has come
    sawSchema,  \* sawSchema[s]: what s's alembic read in alembic_version
    tasks,      \* tasks that wait in the broker
    restarts,   \* how often a server was started again
    faulty      \* a call was refused or a server stopped so far (history)

startVars == <<schema, bucket, server, sawSchema, tasks, restarts, faulty>>

Stages == {"down", "version", "migrate", "head", "create", "serving", "exited"}

StartTypeOK ==
    /\ schema \in BOOLEAN
    /\ bucket \in BOOLEAN
    /\ server \in [Servers -> Stages]
    /\ sawSchema \in [Servers -> BOOLEAN]
    /\ tasks \in 0 .. MaxTasks
    /\ restarts \in 0 .. MaxRestarts
    /\ faulty \in BOOLEAN

(* A first deployment, or one over what an earlier one left.                *)
StartInit ==
    /\ schema \in BOOLEAN
    /\ bucket \in BOOLEAN
    /\ server = [s \in Servers |-> "down"]
    /\ sawSchema = [s \in Servers |-> FALSE]
    /\ tasks = 0
    /\ restarts = 0
    /\ faulty = FALSE

Become(s, stage) == server' = [server EXCEPT ![s] = stage]

-------------------------------------------------------------------------------

Launch(s) ==
    /\ server[s] = "down"
    /\ Become(s, "version")
    /\ UNCHANGED <<schema, bucket, sawSchema, tasks, restarts, faulty>>

(* alembic upgrade head: read the version; if there is none, create type,   *)
(* table, indexes and version row in one transaction.                       *)
ReadVersion(s) ==
    /\ server[s] = "version"
    /\ sawSchema' = [sawSchema EXCEPT ![s] = schema]
    /\ Become(s, "migrate")
    /\ UNCHANGED <<schema, bucket, tasks, restarts, faulty>>

(* Another server may have created the table in between: CREATE TABLE waits *)
(* for its transaction and fails, alembic exits, and so, by set -e, does    *)
(* the container.                                                           *)
Migrate(s) ==
    /\ server[s] = "migrate"
    /\ IF schema /\ ~sawSchema[s]
       THEN Become(s, "exited") /\ UNCHANGED schema
       ELSE Become(s, "head") /\ schema' = TRUE
    /\ UNCHANGED <<bucket, sawSchema, tasks, restarts, faulty>>

(* Mutant: head_bucket is left out.                                         *)
CreateUnseen(s) ==
    /\ server[s] = "head"
    /\ Become(s, "create")
    /\ UNCHANGED <<schema, bucket, sawSchema, tasks, restarts, faulty>>

HeadBucket(s) ==
    /\ server[s] = "head"
    /\ Become(s, IF bucket THEN "serving" ELSE "create")
    /\ UNCHANGED <<schema, bucket, sawSchema, tasks, restarts, faulty>>

(* ensure_bucket takes every ClientError for a missing bucket.              *)
HeadRefused(s) ==
    /\ server[s] = "head"
    /\ Become(s, "create")
    /\ faulty' = TRUE
    /\ UNCHANGED <<schema, bucket, sawSchema, tasks, restarts>>

(* create_bucket raises if the bucket exists by now (BucketAlreadyOwnedByYou*)
(* of MinIO), which ends the lifespan and the process.                      *)
CreateBucket(s) ==
    /\ server[s] = "create"
    /\ Become(s, IF bucket THEN "exited" ELSE "serving")
    /\ bucket' = TRUE
    /\ UNCHANGED <<schema, sawSchema, tasks, restarts, faulty>>

(* Mutant: the error is logged and the server starts without a bucket.      *)
ServeAnyway(s) ==
    /\ server[s] \in {"version", "migrate", "create"}
    /\ Become(s, IF server[s] = "create" THEN "serving" ELSE "exited")
    /\ faulty' = TRUE
    /\ UNCHANGED <<schema, bucket, sawSchema, tasks, restarts>>

(* Database or store refuse a call.                                         *)
StartRefused(s) ==
    /\ server[s] \in {"version", "migrate", "create"}
    /\ Become(s, "exited")
    /\ faulty' = TRUE
    /\ UNCHANGED <<schema, bucket, sawSchema, tasks, restarts>>

(* A serving server stops, and an operator starts one that has stopped.     *)
Stop(s) ==
    /\ server[s] = "serving"
    /\ Become(s, "exited")
    /\ faulty' = TRUE
    /\ UNCHANGED <<schema, bucket, sawSchema, tasks, restarts>>

Restart(s) ==
    /\ server[s] = "exited"
    /\ restarts < MaxRestarts
    /\ restarts' = restarts + 1
    /\ Become(s, "version")
    /\ UNCHANGED <<schema, bucket, sawSchema, tasks, faulty>>

-------------------------------------------------------------------------------

(* POST /transcripts needs a server; the worker needs nothing but a task.   *)
PostTask(s) ==
    /\ server[s] = "serving"
    /\ tasks < MaxTasks
    /\ tasks' = tasks + 1
    /\ UNCHANGED <<schema, bucket, server, sawSchema, restarts, faulty>>

TakeTask ==
    /\ tasks > 0
    /\ tasks' = tasks - 1
    /\ UNCHANGED <<schema, bucket, server, sawSchema, restarts, faulty>>

StartStep(s) == ReadVersion(s) \/ Migrate(s) \/ HeadBucket(s) \/ CreateBucket(s)

StartNext ==
    \/ \E s \in Servers :
          \/ Launch(s) \/ StartStep(s) \/ HeadRefused(s) \/ StartRefused(s)
          \/ Stop(s) \/ Restart(s) \/ PostTask(s)
    \/ TakeTask

(* A server that has been started goes on.                                  *)
StartFairness == \A s \in Servers : WF_startVars(StartStep(s))

StartSpec == StartInit /\ [][StartNext]_startVars /\ StartFairness

-------------------------------------------------------------------------------

(* A worker never meets a missing table or bucket, although it starts       *)
(* beside the servers and looks for neither: what it works on comes from a  *)
(* server that had both (docker-compose.yml, entrypoint.sh, ensure_bucket). *)
TasksFindTheirPlace == tasks > 0 => schema /\ bucket

(* Servers that start together may push each other out, in the migration    *)
(* and at the bucket, but never all of them: if nothing is refused, one     *)
(* comes to serve.                                                          *)
OneServes ==
    []<>(\/ \A s \in Servers : server[s] = "down"
         \/ \E s \in Servers : server[s] = "serving"
         \/ faulty)

(* Why: who serves has found both.  Inductive with the types.               *)
PlaceInv ==
    /\ TasksFindTheirPlace
    /\ \A s \in Servers :
          /\ server[s] \in {"head", "create", "serving"} => schema
          /\ server[s] = "serving" => bucket
          /\ sawSchema[s] => schema
===============================================================================
