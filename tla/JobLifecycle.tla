---------------------------- MODULE JobLifecycle ----------------------------
(***************************************************************************)
(* The life of a job: the jobs table, the execution messages on the        *)
(* broker, the workers that claim and run jobs, the sweeper that takes     *)
(* stranded jobs over, and the jobs-service operations that create,        *)
(* release, cancel and requeue them (services/jobs, services/worker).      *)
(*                                                                         *)
(* One SQL statement or transaction is one step; so is one PublishExecution*)
(* call (its partial failures included).  A crash, an error or a lease     *)
(* running out may happen between any two steps.  A worker process with    *)
(* concurrency n is n members of Workers.                                  *)
(***************************************************************************)
EXTENDS Integers, FiniteSets

CONSTANTS
    Jobs,          \* job ids
    NoJob,         \* not one of them
    Workers,       \* worker slots
    Origins,       \* how jobs come to be: subset of {"now", "scheduled", "cron"}
    Fanout,        \* topics of one execution publish: 1, or 2 with the legacy topic
    MaxAttempts,   \* max_attempts of every job
    MaxGen,        \* bound: largest execution_generation
    MaxRequeues,   \* bound: RequeueJob calls
    FaultKinds,    \* the faults that may happen
    MaxFaults      \* bound: how many of them happen

ASSUME NoJobAssumption       == NoJob \notin Jobs
ASSUME FanoutAssumption      == Fanout \in {1, 2}
ASSUME MaxAttemptsAssumption == MaxAttempts \in Nat \ {0}
ASSUME MaxGenAssumption      == MaxGen \in Nat \ {0}

VARIABLES
    status,      \* jobs.status, "ABSENT" before the row is committed
    generation,  \* jobs.execution_generation, the fencing token
    attempts,    \* jobs.attempts
    lease,       \* jobs.lease_until: NULL, in the future, or in the past
    copies,      \* copies[j][g]: undelivered messages of job j, generation g
    ops,         \* jobs-service operations that have not finished
    pc,          \* where each worker slot is
    wjob,        \* the job it works on
    wgen,        \* the message's generation; once claimed, the claimed one
    wattempt,    \* the number of the attempt it runs
    timers,      \* timers[w][j][g]: republishes a worker holds in a timer
    faults,      \* faults so far
    requeues     \* RequeueJob calls so far

row    == <<status, generation, attempts, lease>>
worker == <<pc, wjob, wgen, wattempt>>
vars   == <<status, generation, attempts, lease, copies, ops,
            pc, wjob, wgen, wattempt, timers, faults, requeues>>

Status == {"ABSENT", "QUEUED", "PROCESSING", "SUCCESS", "FAILED", "RETRYING",
           "CANCELLED", "DEAD", "SCHEDULED"}
Lease  == {"none", "live", "expired"}
Gens   == 0 .. MaxGen     \* 0: the message does not say (ParseJobMessage)
PC     == {"idle", "fence", "run", "success", "failed", "permanent"}
Ops    == [kind : {"create", "requeue", "sweep", "dispatch", "cron"},
           job : Jobs, gen : Gens, step : {"publish", "compensate", "commit"}]

startable   == {"QUEUED", "RETRYING"}
cancellable == {"QUEUED", "RETRYING", "SCHEDULED"}
sweepable   == {"PROCESSING", "RETRYING"}
terminal    == {"SUCCESS", "FAILED", "CANCELLED", "DEAD"}

initialGeneration == 1

\* A fault of kind k happens in this step.
Fault(k) == /\ k \in FaultKinds
            /\ faults < MaxFaults
            /\ faults' = faults + 1

NoFault  == faults' = faults

\* Worker w is executing, or about to write the result of, its claimed job.
Executing(w) == pc[w] \in {"run", "success", "failed", "permanent"}
Holds(w, j)  == Executing(w) /\ wjob[w] = j /\ wgen[w] = generation[j]

\* The row is locked by the open transaction of a dispatcher pass.
Locked(j) == \E o \in ops : o.job = j /\ o.kind = "dispatch"

\* Nobody is going to act on the job's current generation any more.
Unattended(j) ==
    /\ \A w \in Workers : /\ ~Holds(w, j)
                          /\ ~(pc[w] = "fence" /\ wjob[w] = j)
                          /\ timers[w][j][generation[j]] = 0 /\ timers[w][j][0] = 0
    /\ copies[j][generation[j]] = 0 /\ copies[j][0] = 0
    /\ \A o \in ops : o.job # j

\* An id NewID may return: nothing refers to it.
Fresh(j) == status[j] = "ABSENT" /\ Unattended(j)

SetRow(j, st, g, a, l) == /\ status'     = [status EXCEPT ![j] = st]
                          /\ generation' = [generation EXCEPT ![j] = g]
                          /\ attempts'   = [attempts EXCEPT ![j] = a]
                          /\ lease'      = [lease EXCEPT ![j] = l]

Publish(j, g, n) == copies' = [copies EXCEPT ![j][g] = @ + n]

Init ==
    /\ status     = [j \in Jobs |-> "ABSENT"]
    /\ generation = [j \in Jobs |-> initialGeneration]
    /\ attempts   = [j \in Jobs |-> 0]
    /\ lease      = [j \in Jobs |-> "none"]
    /\ copies     = [j \in Jobs |-> [g \in Gens |-> 0]]
    /\ ops        = {}
    /\ pc         = [w \in Workers |-> "idle"]
    /\ wjob       = [w \in Workers |-> NoJob]
    /\ wgen       = [w \in Workers |-> 0]
    /\ wattempt   = [w \in Workers |-> 0]
    /\ timers     = [w \in Workers |-> [j \in Jobs |-> [g \in Gens |-> 0]]]
    /\ faults     = 0
    /\ requeues   = 0
-----------------------------------------------------------------------------
(* The jobs service.                                                        *)

NewOp(kind, j, g, step) ==
    ops' = ops \cup {[kind |-> kind, job |-> j, gen |-> g, step |-> step]}

\* CreateJob inserts the row.  A job to run now is published next; a scheduled
\* one is parked for the dispatcher.  ReplayJob is the same two steps.
CreateJob(j) ==
    /\ Fresh(j)
    /\ "now" \in Origins
    /\ status' = [status EXCEPT ![j] = "QUEUED"]
    /\ NewOp("create", j, initialGeneration, "publish")
    /\ UNCHANGED <<generation, attempts, lease, copies, worker, timers, faults, requeues>>

CreateScheduledJob(j) ==
    /\ Fresh(j)
    /\ "scheduled" \in Origins
    /\ status' = [status EXCEPT ![j] = "SCHEDULED"]
    /\ UNCHANGED <<generation, attempts, lease, copies, ops, worker, timers, faults, requeues>>

\* A dispatcher pass claims a due row: the row is locked and flipped inside a
\* transaction, so to everybody else it is SCHEDULED until the commit.
claimDueScheduled(j) ==
    /\ status[j] = "SCHEDULED"
    /\ ~Locked(j)
    /\ NewOp("dispatch", j, generation[j], "publish")
    /\ UNCHANGED <<row, copies, worker, timers, faults, requeues>>

\* A cron pass inserts the row inside its transaction: invisible so far.
fireCron(j) ==
    /\ Fresh(j)
    /\ "cron" \in Origins
    /\ NewOp("cron", j, initialGeneration, "publish")
    /\ UNCHANGED <<row, copies, worker, timers, faults, requeues>>

\* PublishExecution put the message on every topic.  Inside a transaction the
\* commit is still to come.
PublishExecution(o) ==
    /\ o.step = "publish"
    /\ Publish(o.job, o.gen, Fanout)
    /\ ops' = IF o.kind \in {"dispatch", "cron"}
              THEN (ops \ {o}) \cup {[o EXCEPT !.step = "commit"]}
              ELSE ops \ {o}
    /\ UNCHANGED <<row, worker, timers, faults, requeues>>

\* PublishExecution returned an error: some of the topics, in order, may have
\* the message (all of them when only the last answer was lost).  CreateJob and
\* RequeueJob compensate; a transaction rolls back; the sweeper only logs.
PublishFails(o) ==
    /\ o.step = "publish"
    /\ Fault("publish")
    /\ \E n \in 0 .. Fanout : Publish(o.job, o.gen, n)
    /\ ops' = IF o.kind \in {"create", "requeue"}
              THEN (ops \ {o}) \cup {[o EXCEPT !.step = "compensate"]}
              ELSE ops \ {o}
    /\ UNCHANGED <<row, worker, timers, requeues>>

\* The dispatcher's or the cron loop's transaction commits.
CommitTx(o) ==
    /\ o.step = "commit"
    /\ status' = [status EXCEPT ![o.job] = "QUEUED"]
    /\ ops' = ops \ {o}
    /\ UNCHANGED <<generation, attempts, lease, copies, worker, timers, faults, requeues>>

\* Mutant: the compensation forgets WHERE status = 'QUEUED'.
CompensateUnguarded(o) ==
    /\ o.step = "compensate"
    /\ status' = [status EXCEPT ![o.job] = IF o.kind = "create" THEN "FAILED" ELSE "DEAD"]
    /\ ops' = ops \ {o}
    /\ UNCHANGED <<generation, attempts, lease, copies, worker, timers, faults, requeues>>

\* The compensations, on the row's status: of a create, of a requeue.
markQueuedFailed(st) == IF st = "QUEUED" THEN "FAILED" ELSE st

\* Mutant: the revert of a requeue also takes a job back that waits for a retry.
requeueRevertRetrying(st) == IF st \in {"QUEUED", "RETRYING"} THEN "DEAD" ELSE st

requeueRevert(st) == IF st = "QUEUED" THEN "DEAD" ELSE st

Compensate(o) ==
    /\ o.step = "compensate"
    /\ status' = [status EXCEPT ![o.job] = IF o.kind = "create" THEN markQueuedFailed(@)
                                                               ELSE requeueRevert(@)]
    /\ ops' = ops \ {o}
    /\ UNCHANGED <<generation, attempts, lease, copies, worker, timers, faults, requeues>>

\* The operation ends where it is: the service crashed, the request's context
\* was cancelled (the compensation runs under it too), a commit failed, or a
\* later publish of the same batch failed.  An open transaction rolls back.
AbandonOp(o) ==
    /\ Fault("service")
    /\ ops' = ops \ {o}
    /\ UNCHANGED <<row, copies, worker, timers, requeues>>

\* UPDATE ... WHERE status IN (...): waits for a dispatcher's row lock.
\* lease_until is not cleared.
cancelJob(j) ==
    /\ status[j] \in cancellable
    /\ ~Locked(j)
    /\ status' = [status EXCEPT ![j] = "CANCELLED"]
    /\ UNCHANGED <<generation, attempts, lease, copies, ops, worker, timers, faults, requeues>>

\* Mutant: the message carries the generation the row had before the requeue.
requeueJobOldMessage(j) ==
    /\ status[j] = "DEAD"
    /\ generation[j] < MaxGen
    /\ requeues < MaxRequeues
    /\ requeues' = requeues + 1
    /\ SetRow(j, "QUEUED", generation[j] + 1, 0, "none")
    /\ NewOp("requeue", j, generation[j], "publish")
    /\ UNCHANGED <<copies, worker, timers, faults>>

requeueJob(j) ==
    /\ status[j] = "DEAD"
    /\ generation[j] < MaxGen
    /\ requeues < MaxRequeues
    /\ requeues' = requeues + 1
    /\ SetRow(j, "QUEUED", generation[j] + 1, 0, "none")
    /\ NewOp("requeue", j, generation[j] + 1, "publish")
    /\ UNCHANGED <<copies, worker, timers, faults>>
-----------------------------------------------------------------------------
(* The workers.                                                             *)

\* The consumer hands a message to Handle, which starts a goroutine and lets
\* the offset commit.
Deliver(w, j, g) ==
    /\ pc[w] = "idle"
    /\ copies[j][g] > 0
    /\ pc'   = [pc EXCEPT ![w] = "fence"]
    /\ wjob' = [wjob EXCEPT ![w] = j]
    /\ wgen' = [wgen EXCEPT ![w] = g]
    /\ \/ copies' = [copies EXCEPT ![j][g] = @ - 1] /\ NoFault
       \/ copies' = copies /\ Fault("redeliver")  \* the commit was lost
    /\ UNCHANGED <<row, ops, wattempt, timers, requeues>>

GoIdle(w) == /\ pc'       = [pc EXCEPT ![w] = "idle"]
             /\ wjob'     = [wjob EXCEPT ![w] = NoJob]
             /\ wgen'     = [wgen EXCEPT ![w] = 0]
             /\ wattempt' = [wattempt EXCEPT ![w] = 0]

\* Mutant: the fence compares the generation but not the status.
ClaimableAnyStatus(w) ==
    /\ status[wjob[w]] \notin terminal
    /\ wgen[w] = 0 \/ wgen[w] = generation[wjob[w]]

\* The WHERE clause of StartJobFence, on committed rows.
Claimable(w) ==
    /\ status[wjob[w]] \in startable
    /\ wgen[w] = 0 \/ wgen[w] = generation[wjob[w]]

Claim(w) ==
    /\ status' = [status EXCEPT ![wjob[w]] = "PROCESSING"]
    /\ lease'  = [lease EXCEPT ![wjob[w]] = "live"]
    /\ UNCHANGED <<generation, attempts>>

StartJobFence(w) ==
    /\ pc[w] = "fence"
    /\ Claimable(w)
    /\ Claim(w)
    /\ pc'       = [pc EXCEPT ![w] = "run"]
    /\ wgen'     = [wgen EXCEPT ![w] = generation[wjob[w]]]
    /\ wattempt' = [wattempt EXCEPT ![w] = attempts[wjob[w]] + 1]
    /\ UNCHANGED <<copies, ops, wjob, timers, faults, requeues>>

\* The fence matches no row: the message is dropped.
SkipMessage(w) ==
    /\ pc[w] = "fence"
    /\ ~Claimable(w)
    /\ GoIdle(w)
    /\ UNCHANGED <<row, copies, ops, timers, faults, requeues>>

StartTimer(w, j, g) == timers' = [timers EXCEPT ![w][j][g] = @ + 1]

\* The fence returned an error: the raw message is republished later.  The
\* claim may have been committed all the same.
FenceFails(w) ==
    /\ pc[w] = "fence"
    /\ Fault("db")
    /\ \/ UNCHANGED row
       \/ Claimable(w) /\ Claim(w)
    /\ StartTimer(w, wjob[w], wgen[w])
    /\ GoIdle(w)
    /\ UNCHANGED <<copies, ops, requeues>>

\* A write of worker w, guarded by status and generation, matches no row.
Fenced(w) == ~(status[wjob[w]] = "PROCESSING" /\ generation[wjob[w]] = wgen[w])

\* A renewal that matches no row makes the worker abandon the handler and
\* write nothing.
RenewJobLease(w) ==
    /\ pc[w] = "run"
    /\ IF Fenced(w)
       THEN GoIdle(w) /\ lease' = lease
       ELSE UNCHANGED worker /\ lease' = [lease EXCEPT ![wjob[w]] = "live"]
    /\ UNCHANGED <<status, generation, attempts, copies, ops, timers, faults, requeues>>

\* The handler returns: nil, an error, or a permanent error.
HandlerReturns(w) ==
    /\ pc[w] = "run"
    /\ \E r \in {"success", "failed", "permanent"} : pc' = [pc EXCEPT ![w] = r]
    /\ UNCHANGED <<row, copies, ops, wjob, wgen, wattempt, timers, faults, requeues>>

Retries(w) == pc[w] = "failed" /\ wattempt[w] < MaxAttempts

\* Mutant: a failed attempt clears the lease, as the terminal states do.
WriteResultNoRetryLease(w) ==
    IF Fenced(w) THEN UNCHANGED row
    ELSE IF pc[w] = "success"
    THEN SetRow(wjob[w], "SUCCESS", generation[wjob[w]], wattempt[w], "none")
    ELSE SetRow(wjob[w], IF Retries(w) THEN "RETRYING" ELSE "DEAD",
                generation[wjob[w]], wattempt[w], "none")

\* The transaction of FinishJobSuccess and FinishJobFailure.
WriteResult(w) ==
    IF Fenced(w) THEN UNCHANGED row
    ELSE IF pc[w] = "success"
    THEN SetRow(wjob[w], "SUCCESS", generation[wjob[w]], wattempt[w], "none")
    ELSE IF Retries(w)
    THEN SetRow(wjob[w], "RETRYING", generation[wjob[w]], wattempt[w], "live")
    ELSE SetRow(wjob[w], "DEAD", generation[wjob[w]], wattempt[w], "none")

\* finishSuccess, finishFailed, finishDeadWithTimes.
FinishJob(w) ==
    /\ pc[w] \in {"success", "failed", "permanent"}
    /\ WriteResult(w)
    /\ IF Retries(w) /\ ~Fenced(w) THEN StartTimer(w, wjob[w], wgen[w]) ELSE timers' = timers
    /\ GoIdle(w)
    /\ UNCHANGED <<copies, ops, faults, requeues>>

\* The finish write returned an error, whether or not it was committed: no
\* retry timer is started.
FinishFails(w) ==
    /\ pc[w] \in {"success", "failed", "permanent"}
    /\ Fault("db")
    /\ WriteResult(w) \/ UNCHANGED row
    /\ GoIdle(w)
    /\ UNCHANGED <<copies, ops, timers, requeues>>

\* A timer fires and republishes the message; a failure is only logged.
RetryFires(w, j, g) ==
    /\ timers[w][j][g] > 0
    /\ timers' = [timers EXCEPT ![w][j][g] = @ - 1]
    /\ \/ Publish(j, g, 1) /\ NoFault
       \/ copies' = copies /\ Fault("publish")
    /\ UNCHANGED <<row, ops, worker, requeues>>

\* The process is killed: its execution and its timers are gone.
WorkerCrash(w) ==
    /\ Fault("crash")
    /\ GoIdle(w)
    /\ timers' = [timers EXCEPT ![w] = [j \in Jobs |-> [g \in Gens |-> 0]]]
    /\ UNCHANGED <<row, copies, ops, requeues>>
-----------------------------------------------------------------------------
(* Time, the sweeper, and messages of older producers.                      *)

\* lease_until passes.
Expire(j) == /\ status[j] \in sweepable
             /\ lease[j] = "live"
             /\ lease' = [lease EXCEPT ![j] = "expired"]
             /\ UNCHANGED <<status, generation, attempts, copies, ops, worker,
                            timers, requeues>>

LeaseRunsOut(j) == Expire(j) /\ Unattended(j) /\ NoFault

\* The lease passes although somebody may still act: a stalled worker, renewals
\* that fail, a handler past its timeout, a backlog longer than the lease.
LeaseLost(j) == Expire(j) /\ ~Unattended(j) /\ Fault("expire")

\* Mutant: the sweeper leaves jobs alone that wait for a retry.
recoverJobProcessing(j) ==
    /\ status[j] = "PROCESSING"
    /\ lease[j] = "expired"
    /\ generation[j] < MaxGen
    /\ IF attempts[j] >= MaxAttempts
       THEN /\ SetRow(j, "DEAD", generation[j] + 1, attempts[j], "none")
            /\ ops' = ops
       ELSE /\ SetRow(j, "RETRYING", generation[j] + 1, attempts[j], "live")
            /\ NewOp("sweep", j, generation[j] + 1, "publish")
    /\ UNCHANGED <<copies, worker, timers, faults, requeues>>

\* One stranded job is taken over.  The republish is the operation's next step;
\* a DEAD job gets a copy on the DLQ instead.
recoverJob(j) ==
    /\ status[j] \in sweepable
    /\ lease[j] = "expired"
    /\ generation[j] < MaxGen
    /\ IF attempts[j] >= MaxAttempts
       THEN /\ SetRow(j, "DEAD", generation[j] + 1, attempts[j], "none")
            /\ ops' = ops
       ELSE /\ SetRow(j, "RETRYING", generation[j] + 1, attempts[j], "live")
            /\ NewOp("sweep", j, generation[j] + 1, "publish")
    /\ UNCHANGED <<copies, worker, timers, faults, requeues>>

\* A producer that does not know generations publishes the job's message.
UnknownGeneration(j) ==
    /\ status[j] # "ABSENT"
    /\ Fault("unknown_generation")
    /\ Publish(j, 0, 1)
    /\ UNCHANGED <<row, ops, worker, timers, requeues>>
-----------------------------------------------------------------------------
ServiceStep == \/ \E j \in Jobs : \/ CreateJob(j) \/ CreateScheduledJob(j)
                                  \/ claimDueScheduled(j) \/ fireCron(j)
                                  \/ cancelJob(j) \/ requeueJob(j)
                                  \/ recoverJob(j)
               \/ \E o \in ops : \/ PublishExecution(o) \/ PublishFails(o)
                                 \/ CommitTx(o) \/ Compensate(o) \/ AbandonOp(o)

WorkerStep == \E w \in Workers :
    \/ \E j \in Jobs, g \in Gens : Deliver(w, j, g) \/ RetryFires(w, j, g)
    \/ StartJobFence(w) \/ SkipMessage(w) \/ FenceFails(w)
    \/ RenewJobLease(w) \/ HandlerReturns(w)
    \/ FinishJob(w) \/ FinishFails(w) \/ WorkerCrash(w)

Environment == \E j \in Jobs : LeaseRunsOut(j) \/ LeaseLost(j) \/ UnknownGeneration(j)

Next == ServiceStep \/ WorkerStep \/ Environment

Spec == Init /\ [][Next]_vars

(* Loops run for as long as their process does, handlers run under a        *)
(* timeout, and time passes.  Nobody has to call the API.                   *)
Fairness ==
    /\ \A j \in Jobs : /\ WF_vars(claimDueScheduled(j))
                       /\ WF_vars(LeaseRunsOut(j))
                       /\ WF_vars(recoverJob(j))
    /\ WF_vars(\E o \in ops : PublishExecution(o) \/ CommitTx(o) \/ Compensate(o))
    /\ \A w \in Workers :
          /\ WF_vars(\E j \in Jobs, g \in Gens : Deliver(w, j, g))
          /\ WF_vars(\E j \in Jobs, g \in Gens : RetryFires(w, j, g))
          /\ WF_vars(StartJobFence(w) \/ SkipMessage(w))
          /\ WF_vars(HandlerReturns(w))
          /\ WF_vars(FinishJob(w))

FairSpec == Spec /\ Fairness
-----------------------------------------------------------------------------
(* What is checked.                                                         *)

\* Every variable has its type; in particular no message or timer count is
\* ever negative.
TypeOK ==
    /\ status     \in [Jobs -> Status]
    /\ generation \in [Jobs -> 1 .. MaxGen]
    /\ attempts   \in [Jobs -> 0 .. MaxAttempts]
    /\ lease      \in [Jobs -> Lease]
    /\ copies     \in [Jobs -> [Gens -> Nat]]
    /\ ops        \subseteq Ops
    /\ pc         \in [Workers -> PC]
    /\ wjob       \in [Workers -> Jobs \cup {NoJob}]
    /\ wgen       \in [Workers -> Gens]
    /\ wattempt   \in [Workers -> 0 .. MaxAttempts]
    /\ timers     \in [Workers -> [Jobs -> [Gens -> Nat]]]
    /\ faults     \in Nat
    /\ requeues   \in Nat
    /\ \A w \in Workers : pc[w] # "idle" => wjob[w] \in Jobs

\* The fencing token works: whatever crashes, expires or is delivered twice, at
\* most one worker holds a job's current generation, and only while the row says
\* PROCESSING.  Every other worker still running the job is a zombie whose
\* writes match no row (StartJobFence, the sweeper's generation bump).
SoleOwner ==
    \A j \in Jobs : \A w \in Workers : Holds(w, j) =>
        /\ status[j] = "PROCESSING"
        /\ \A v \in Workers : Holds(v, j) => v = w

\* A job that can still run has attempts left: exhausted jobs are DEAD, so the
\* sweeper never meets one (recoverJob's attempts >= max_attempts branch) and no
\* attempt number exceeds max_attempts.
AttemptsLeft ==
    \A j \in Jobs : status[j] \notin terminal => attempts[j] < MaxAttempts

\* No row is beyond the sweeper: a job that is running or waiting for its retry
\* always carries a lease that can run out (ADR 009).
AlwaysSweepable ==
    \A j \in Jobs : status[j] \in sweepable => lease[j] # "none"

\* A PROCESSING or RETRYING row changes only by the hand of the worker that
\* holds its current generation, by the claim, by the sweeper (which takes a new
\* generation) or by a cancel: a late write of a fenced worker changes nothing.
ZombiesWriteNothing ==
    [][\A j \in Jobs :
         status[j] \in sweepable /\ <<status[j], attempts[j]>>' # <<status[j], attempts[j]>> =>
            \/ status[j] = "RETRYING" /\ status'[j] \in {"PROCESSING", "CANCELLED"}
            \/ generation'[j] = generation[j] + 1
            \/ \E w \in Workers : Holds(w, j) /\ ~Executing(w)']_vars

\* SUCCESS, FAILED and CANCELLED are final, and a DEAD job comes back only under
\* a new generation: no late message, zombie, compensation or sweep revives it.
FinalIsFinal ==
    [][\A j \in Jobs : status[j] \in terminal /\ status'[j] # status[j] =>
         status[j] = "DEAD" /\ status'[j] = "QUEUED" /\ generation'[j] = generation[j] + 1]_vars

\* Nothing that happens after the claim loses a job for good: a job that is
\* running or waiting for a retry reaches a terminal state, however its worker,
\* its messages, its timer or the sweeper's republish are lost.
Recovers ==
    \A j \in Jobs : status[j] \in sweepable ~> status[j] \in terminal

\* A QUEUED job that nobody will act on: no message, no timer, no worker about
\* to run the fence and no jobs-service operation is of its generation.
Stranded(j) ==
    LET current == {0, generation[j]}
    IN  /\ status[j] = "QUEUED"
        /\ \A g \in current : copies[j][g] = 0 /\ \A w \in Workers : timers[w][j][g] = 0
        /\ \A w \in Workers : ~(pc[w] = "fence" /\ wjob[w] = j /\ wgen[w] \in current)
        /\ \A o \in ops : ~(o.job = j /\ o.gen \in current)

\* Nothing but a loss strands a QUEUED job: a fault takes its last message, or a
\* message that overtook the commit of the dispatcher's or the cron loop's
\* transaction was already skipped when the commit made the job visible.
NotStranded ==
    [][\A j \in Jobs : Stranded(j)' /\ ~Stranded(j) =>
         faults' # faults \/ \E o \in ops : o.job = j /\ CommitTx(o)]_vars

\* docs/failure-scenarios.md on a worker that "Died **after** dispatch: recovered
\* by the sweeper": no QUEUED job is out of everybody's sight.
NeverStranded == \A j \in Jobs : ~Stranded(j)
=============================================================================
