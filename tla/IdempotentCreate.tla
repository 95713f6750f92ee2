-------------------------- MODULE IdempotentCreate --------------------------
(***************************************************************************)
(* CreateJob calls that carry one idempotency key: the claim of the key in *)
(* Redis, the unique index on jobs.idempotency_key behind it, the publish  *)
(* and its compensation (services/jobs/server.go, idempotency.go).         *)
(*                                                                         *)
(* Every command to Redis or Postgres is one step.  A request's new job id *)
(* (NewID) is the request itself.                                          *)
(***************************************************************************)
EXTENDS Integers

CONSTANTS
    Requests,     \* the calls, each with a job id of its own
    NoJob,        \* no job id, and not one of them
    Owner,        \* Owner[r]: the caller of r
    MaxFaults     \* bound: errors, expiries and crashes

VARIABLES
    redis,      \* the job id under idem:<key>, or NoJob
    stored,     \* the job id of the row that has the key, or NoJob
    status,     \* the status of that row
    published,  \* the jobs whose message is on the broker
    pc,         \* where each request is
    existing,   \* the job id it read from Redis
    answer,     \* the job it returned, NoJob for an error or no answer
    faults

vars == <<redis, stored, status, published, pc, existing, answer, faults>>

PC == {"claim", "read", "getJob", "reclaim", "insertJob", "byKey", "publish",
       "markFailed", "release", "done"}

Init ==
    /\ redis     = NoJob
    /\ stored    = NoJob
    /\ status    = "ABSENT"
    /\ published = {}
    /\ pc        = [r \in Requests |-> "claim"]
    /\ existing  = [r \in Requests |-> NoJob]
    /\ answer    = [r \in Requests |-> NoJob]
    /\ faults    = 0

Goto(r, l) == pc' = [pc EXCEPT ![r] = l]

\* An error, an expiry or a crash.
Fault == faults < MaxFaults /\ faults' = faults + 1

\* The request returns job j.
Return(r, j) == /\ Goto(r, "done")
                /\ answer' = [answer EXCEPT ![r] = j]

\* The request returns an error.
Fail(r) == Goto(r, "done") /\ answer' = answer

\* CanAccessJob: only the owner gets the job back.
CanAccessJob(r, j) == Owner[r] = Owner[j]
-----------------------------------------------------------------------------
\* SET idem:<key> NX
SetNX(r) ==
    /\ pc[r] = "claim"
    /\ IF redis = NoJob
       THEN redis' = r /\ Goto(r, "insertJob")
       ELSE redis' = redis /\ Goto(r, "read")
    /\ UNCHANGED <<stored, status, published, existing, answer, faults>>

\* GET idem:<key>.  A key that is gone by now is an error like any other.
GetKey(r) ==
    /\ pc[r] = "read"
    /\ existing' = [existing EXCEPT ![r] = redis]
    /\ Goto(r, IF redis = NoJob THEN "insertJob" ELSE "getJob")
    /\ UNCHANGED <<redis, stored, status, published, answer, faults>>

\* Redis failed: rely on the database.
ClaimFails(r) ==
    /\ pc[r] \in {"claim", "read"}
    /\ Fault
    /\ \/ redis' = redis
       \/ pc[r] = "claim" /\ redis = NoJob /\ redis' = r   \* the answer was lost
    /\ Goto(r, "insertJob")
    /\ UNCHANGED <<stored, status, published, existing, answer>>

\* Mutant: the claimed id is returned without looking whether its row exists.
getJobUnchecked(r) ==
    /\ pc[r] = "getJob"
    /\ IF CanAccessJob(r, existing[r]) THEN Return(r, existing[r]) ELSE Fail(r)
    /\ UNCHANGED <<redis, stored, status, published, existing, faults>>

\* The key is taken: look the job up.
getJob(r) ==
    /\ pc[r] = "getJob"
    /\ IF stored # existing[r]
       THEN Goto(r, "reclaim") /\ answer' = answer
       ELSE IF CanAccessJob(r, stored) THEN Return(r, stored) ELSE Fail(r)
    /\ UNCHANGED <<redis, stored, status, published, existing, faults>>

\* A claim without a row: drop it, whoever holds it, and create.
Reclaim(r) ==
    /\ pc[r] = "reclaim"
    /\ \/ redis' = NoJob /\ faults' = faults
       \/ redis' = redis /\ Fault
    /\ Goto(r, "insertJob")
    /\ UNCHANGED <<stored, status, published, existing, answer>>

\* INSERT, against the unique index.
insertJob(r) ==
    /\ pc[r] = "insertJob"
    /\ IF stored = NoJob
       THEN stored' = r /\ status' = "QUEUED" /\ Goto(r, "publish")
       ELSE UNCHANGED <<stored, status>> /\ Goto(r, "byKey")
    /\ UNCHANGED <<redis, published, existing, answer, faults>>

\* Another error of the INSERT; the row may have been committed all the same.
insertJobFails(r) ==
    /\ pc[r] = "insertJob"
    /\ Fault
    /\ \/ UNCHANGED <<stored, status>>
       \/ stored = NoJob /\ stored' = r /\ status' = "QUEUED"
    /\ Goto(r, "release")
    /\ UNCHANGED <<redis, published, existing, answer>>

\* Mutant: the call publishes its own job although the key has one.
jobByIdempotencyKeyPublish(r) ==
    /\ pc[r] = "byKey"
    /\ IF CanAccessJob(r, stored) THEN Return(r, stored) ELSE Fail(r)
    /\ published' = published \cup {r}
    /\ UNCHANGED <<redis, stored, status, existing, faults>>

\* The index refused the row: return the job that has the key.
jobByIdempotencyKey(r) ==
    /\ pc[r] = "byKey"
    /\ IF CanAccessJob(r, stored) THEN Return(r, stored) ELSE Fail(r)
    /\ UNCHANGED <<redis, stored, status, published, existing, faults>>

\* A lookup fails: on the fast path the call returns, on the other the key is
\* released first.
LookupFails(r) ==
    /\ pc[r] \in {"getJob", "byKey"}
    /\ Fault
    /\ Goto(r, IF pc[r] = "byKey" THEN "release" ELSE "done")
    /\ UNCHANGED <<redis, stored, status, published, existing, answer>>

PublishExecution(r) ==
    /\ pc[r] = "publish"
    /\ published' = published \cup {r}
    /\ Return(r, r)
    /\ UNCHANGED <<redis, stored, status, existing, faults>>

\* The publish fails, with or without a copy of the message on the broker.
PublishFails(r) ==
    /\ pc[r] = "publish"
    /\ Fault
    /\ published' \in {published, published \cup {r}}
    /\ Goto(r, "markFailed")
    /\ UNCHANGED <<redis, stored, status, existing, answer>>

\* WHERE id = r AND status = 'QUEUED'; an error is only logged.
markQueuedFailed(r) ==
    /\ pc[r] = "markFailed"
    /\ \/ status' = (IF status = "QUEUED" THEN "FAILED" ELSE status) /\ faults' = faults
       \/ status' = status /\ Fault
    /\ Goto(r, "release")
    /\ UNCHANGED <<redis, stored, published, existing, answer>>

\* DEL idem:<key>, whoever holds it; an error is only logged.
releaseIdempotencyKey(r) ==
    /\ pc[r] = "release"
    /\ \/ redis' = NoJob /\ faults' = faults
       \/ redis' = redis /\ Fault
    /\ Fail(r)
    /\ UNCHANGED <<stored, status, published, existing>>

\* The service crashes or the call is cancelled.
Crash(r) ==
    /\ pc[r] # "done"
    /\ Fault
    /\ Fail(r)
    /\ UNCHANGED <<redis, stored, status, published, existing>>

\* The key's TTL passes, or Redis evicts it.
KeyExpires ==
    /\ redis # NoJob
    /\ Fault
    /\ redis' = NoJob
    /\ UNCHANGED <<stored, status, published, pc, existing, answer>>

\* The published job is picked up and finishes, one way or another.
JobRuns ==
    /\ stored \in published
    /\ status = "QUEUED"
    /\ status' = "PROCESSING"
    /\ UNCHANGED <<redis, stored, published, pc, existing, answer, faults>>

Next == \/ \E r \in Requests :
              \/ SetNX(r) \/ GetKey(r) \/ ClaimFails(r)
              \/ getJob(r) \/ Reclaim(r)
              \/ insertJob(r) \/ insertJobFails(r)
              \/ jobByIdempotencyKey(r) \/ LookupFails(r)
              \/ PublishExecution(r) \/ PublishFails(r)
              \/ markQueuedFailed(r) \/ releaseIdempotencyKey(r) \/ Crash(r)
        \/ KeyExpires \/ JobRuns

Spec == Init /\ [][Next]_vars
-----------------------------------------------------------------------------
\* Types; a row exists exactly when some request holds the key in the database.
TypeOK ==
    /\ redis     \in Requests \cup {NoJob}
    /\ stored    \in Requests \cup {NoJob}
    /\ status    \in {"ABSENT", "QUEUED", "PROCESSING", "FAILED"}
    /\ status = "ABSENT" <=> stored = NoJob
    /\ published \subseteq Requests
    /\ pc        \in [Requests -> PC]
    /\ existing  \in [Requests -> Requests \cup {NoJob}]
    /\ answer    \in [Requests -> Requests \cup {NoJob}]
    /\ faults    \in Nat

\* "same key, same job": however the calls interleave, the Redis claim expires
\* or is dropped by another call, and whatever fails, every call that returns a
\* job returns the one that is stored under the key.
SameKeySameJob ==
    \A r \in Requests : answer[r] # NoJob => answer[r] = stored

\* A call never gets the job of another owner back, by the Redis path or by the
\* database path.
OwnersApart ==
    \A r \in Requests : answer[r] # NoJob => CanAccessJob(r, answer[r])

\* The key is worth one execution: no two jobs that carry it are published.
PublishedOnce == \A i, j \in published : i = j

=============================================================================
