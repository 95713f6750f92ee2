-------------------------- MODULE JobsServiceProofs -------------------------
(***************************************************************************)
(* Proofs about the jobs service, for any set of jobs, workers and calls,  *)
(* any max_attempts and any sequence of faults: the fencing of             *)
(* JobLifecycle works, and an idempotency key (IdempotentCreate) stands    *)
(* for one job.                                                            *)
(***************************************************************************)
EXTENDS JobsService, TLAPS

\* Leaves are proved by Zenon unless they name another prover.
USE Zenon

\* Transactions of the dispatcher and of the cron loop commit over the row they
\* read: SCHEDULED and locked, or not yet there; nobody else has one open.
InTx(o) == o.kind \in {"dispatch", "cron"}

OpsOK ==
    /\ \A o \in ops : /\ o.kind = "dispatch" => status[o.job] = "SCHEDULED"
                      /\ o.kind = "cron" => status[o.job] = "ABSENT"
                      /\ o.step = "commit" => InTx(o)
                      /\ o.step = "compensate" => ~InTx(o)
    /\ \A o, p \in ops : InTx(o) /\ InTx(p) /\ o.job = p.job => o = p

\* SoleOwner, strengthened: a claimed generation is at most the row's, and the
\* owner runs the attempt after the last one the row has recorded.
OwnersOK ==
    \A w \in Workers :
        /\ Executing(w) => wgen[w] >= 1 /\ wgen[w] <= generation[wjob[w]]
        /\ \A j \in Jobs : Holds(w, j) =>
              /\ status[j] = "PROCESSING"
              /\ wattempt[w] = attempts[j] + 1
              /\ \A v \in Workers : Holds(v, j) => v = w

IInv == TypeOK /\ OpsOK /\ OwnersOK /\ AttemptsLeft /\ AlwaysSweepable

LEMMA Initially == Init => IInv
  BY SMT, MaxAttemptsAssumption, MaxGenAssumption, NoJobAssumption
     DEF Init, IInv, TypeOK, OpsOK, OwnersOK, AttemptsLeft, AlwaysSweepable,
         Status, Lease, Gens, PC, Ops, Executing, Holds, InTx, initialGeneration,
         terminal, sweepable
-----------------------------------------------------------------------------
(* Facts the steps share.                                                   *)

LEMMA Constants ==
    MaxAttempts \in Nat /\ MaxAttempts >= 1 /\ MaxGen \in Nat /\ MaxGen >= 1 /\ Fanout \in Nat
  BY SMT, MaxAttemptsAssumption, MaxGenAssumption, FanoutAssumption

\* A new operation is well typed.
LEMMA NewOpType ==
    ASSUME TypeOK, NEW j \in Jobs, NEW g \in 1 .. MaxGen,
           NEW kind \in {"create", "requeue", "sweep", "dispatch", "cron"},
           NewOp(kind, j, g, "publish")
    PROVE  ops' \subseteq Ops
<1>1. [kind |-> kind, job |-> j, gen |-> g, step |-> "publish"] \in Ops
  BY SMT DEF Ops, Gens
<1> QED BY <1>1 DEF NewOp, TypeOK

\* Publishing keeps the message counts natural numbers.
LEMMA PublishType ==
    ASSUME TypeOK, NEW j \in Jobs, NEW g \in Gens, NEW n \in Nat, Publish(j, g, n)
    PROVE  copies' \in [Jobs -> [Gens -> Nat]]
  BY SMT DEF TypeOK, Publish

\* So does starting a timer.
LEMMA TimerType ==
    ASSUME TypeOK, NEW w \in Workers, NEW j \in Jobs, NEW g \in Gens, StartTimer(w, j, g)
    PROVE  timers' \in [Workers -> [Jobs -> [Gens -> Nat]]]
  BY SMT DEF TypeOK, StartTimer

\* A worker that stops working keeps its variables well typed.
LEMMA GoIdleType ==
    ASSUME TypeOK, NEW w \in Workers, GoIdle(w)
    PROVE  /\ pc' \in [Workers -> PC]
           /\ wjob' \in [Workers -> Jobs \cup {NoJob}]
           /\ wgen' \in [Workers -> Gens]
           /\ wattempt' \in [Workers -> 0 .. MaxAttempts]
           /\ \A v \in Workers : pc'[v] # "idle" => wjob'[v] \in Jobs
  BY SMT, Constants DEF TypeOK, GoIdle, PC, Gens

\* Among the rows only that of job j changes, and its generation does not sink.
OnlyRow(j) ==
    /\ generation' \in [Jobs -> 1 .. MaxGen]
    /\ generation'[j] >= generation[j]
    /\ \A i \in Jobs \ {j} : /\ status'[i] = status[i]
                            /\ generation'[i] = generation[i]
                            /\ attempts'[i] = attempts[i]

\* A change of one row by anybody but a worker keeps the owners in order when
\* nobody owns the row afterwards.
LEMMA RowChange ==
    ASSUME TypeOK, OwnersOK, NEW j \in Jobs, UNCHANGED worker, OnlyRow(j),
           \A w \in Workers : ~(Executing(w) /\ wjob[w] = j /\ wgen[w] = generation'[j])
    PROVE  OwnersOK'
<1>1. \A w \in Workers : Executing(w)' <=> Executing(w)
  BY DEF Executing, worker
<1>2. \A w \in Workers, i \in Jobs : Holds(w, i)' => i # j /\ Holds(w, i)
  BY <1>1 DEF Holds, worker, OnlyRow
<1>3. ASSUME NEW w \in Workers, Executing(w)
      PROVE  wgen[w] >= 1 /\ wgen[w] <= generation'[wjob[w]]
  <2>1. wjob[w] \in Jobs /\ wgen[w] >= 1 /\ wgen[w] <= generation[wjob[w]] /\ wgen[w] \in Gens
    BY <1>3 DEF OwnersOK, TypeOK, Executing
  <2>2. generation[wjob[w]] \in Nat /\ generation'[wjob[w]] \in Nat
    BY SMT, <2>1, Constants DEF TypeOK, OnlyRow
  <2>3. generation'[wjob[w]] >= generation[wjob[w]]
    BY SMT, <2>1, <2>2 DEF OnlyRow
  <2> QED BY SMT, <2>1, <2>2, <2>3 DEF Gens
<1> QED BY <1>1, <1>2, <1>3 DEF OwnersOK, worker, OnlyRow

\* Nobody owns a row that is not PROCESSING, and nobody owns a generation that
\* is only being handed out.
LEMMA NoOwner ==
    ASSUME TypeOK, OwnersOK, NEW j \in Jobs, NEW w \in Workers
    PROVE  /\ status[j] # "PROCESSING" => ~Holds(w, j)
           /\ ~(Executing(w) /\ wjob[w] = j /\ wgen[w] = generation[j] + 1)
  BY SMT DEF TypeOK, OwnersOK, Gens, Executing

\* A worker that stops working keeps the owners in order when it changed no
\* row that somebody else owns.
LEMMA WorkerRests ==
    ASSUME TypeOK, OwnersOK, NEW w \in Workers, GoIdle(w), UNCHANGED generation,
           \A v \in Workers \ {w}, i \in Jobs :
               Holds(v, i) => status'[i] = status[i] /\ attempts'[i] = attempts[i]
    PROVE  OwnersOK'
<1>1. ~Executing(w)'
  BY DEF Executing, GoIdle, TypeOK
<1>2. \A v \in Workers \ {w} : /\ Executing(v)' <=> Executing(v)
                               /\ wjob'[v] = wjob[v] /\ wgen'[v] = wgen[v]
                               /\ wattempt'[v] = wattempt[v]
  BY DEF Executing, GoIdle, TypeOK
<1>3. \A v \in Workers, i \in Jobs : Holds(v, i)' => v # w /\ Holds(v, i)
  BY <1>1, <1>2 DEF Holds
<1> QED BY SMT, <1>1, <1>2, <1>3 DEF OwnersOK
-----------------------------------------------------------------------------
(* The jobs service preserves the invariant.                                *)

LEMMA CreateJobStep ==
    ASSUME IInv, NEW j \in Jobs, CreateJob(j) PROVE IInv'
<1>1. status[j] = "ABSENT" /\ \A o \in ops : o.job # j
  BY DEF CreateJob, Fresh, Unattended
<1>2. TypeOK'
  <2>1. ops' \subseteq Ops
    BY SMT, NewOpType, Constants DEF IInv, CreateJob, initialGeneration
  <2> QED BY <2>1 DEF IInv, TypeOK, CreateJob, worker, Status
<1>3. OpsOK'
  BY SMT, <1>1 DEF IInv, OpsOK, TypeOK, Ops, InTx, CreateJob, NewOp
<1>4. OwnersOK'
  <2>1. \A w \in Workers : ~Holds(w, j)
    BY <1>1, NoOwner DEF IInv
  <2>2. OnlyRow(j) /\ generation'[j] = generation[j] /\ UNCHANGED worker
    BY SMT, Constants DEF IInv, TypeOK, CreateJob, OnlyRow
  <2> QED BY <2>1, <2>2, RowChange DEF IInv, Holds
<1>5. AttemptsLeft' /\ AlwaysSweepable'
  BY <1>1 DEF IInv, TypeOK, CreateJob, AttemptsLeft, AlwaysSweepable, sweepable, terminal
<1> QED BY <1>2, <1>3, <1>4, <1>5 DEF IInv

LEMMA CreateScheduledJobStep ==
    ASSUME IInv, NEW j \in Jobs, CreateScheduledJob(j) PROVE IInv'
<1>1. status[j] = "ABSENT" /\ \A o \in ops : o.job # j
  BY DEF CreateScheduledJob, Fresh, Unattended
<1>2. TypeOK'
  BY DEF IInv, TypeOK, CreateScheduledJob, worker, Status
<1>3. OpsOK'
  BY <1>1 DEF IInv, OpsOK, TypeOK, Ops, InTx, CreateScheduledJob
<1>4. OwnersOK'
  <2>1. \A w \in Workers : ~Holds(w, j)
    BY <1>1, NoOwner DEF IInv
  <2>2. OnlyRow(j) /\ generation'[j] = generation[j] /\ UNCHANGED worker
    BY SMT, Constants DEF IInv, TypeOK, CreateScheduledJob, OnlyRow
  <2> QED BY <2>1, <2>2, RowChange DEF IInv, Holds
<1>5. AttemptsLeft' /\ AlwaysSweepable'
  BY <1>1 DEF IInv, TypeOK, CreateScheduledJob, AttemptsLeft, AlwaysSweepable, sweepable, terminal
<1> QED BY <1>2, <1>3, <1>4, <1>5 DEF IInv

\* A step that changes neither rows nor workers leaves the rest as it is.
LEMMA Elsewhere ==
    ASSUME IInv, UNCHANGED <<row, worker>>
    PROVE  OwnersOK' /\ AttemptsLeft' /\ AlwaysSweepable'
  BY SMT DEF IInv, row, worker, OwnersOK, Holds, Executing, AttemptsLeft, AlwaysSweepable

LEMMA claimDueScheduledStep ==
    ASSUME IInv, NEW j \in Jobs, claimDueScheduled(j) PROVE IInv'
<1>1. TypeOK'
  <2>1. ops' \subseteq Ops
    BY NewOpType DEF IInv, TypeOK, claimDueScheduled
  <2> QED BY <2>1 DEF IInv, TypeOK, claimDueScheduled, row, worker
<1>2. OpsOK'
  BY SMT DEF IInv, OpsOK, TypeOK, Ops, InTx, Locked, claimDueScheduled, NewOp, row
<1> QED BY <1>1, <1>2, Elsewhere DEF IInv, claimDueScheduled

LEMMA fireCronStep ==
    ASSUME IInv, NEW j \in Jobs, fireCron(j) PROVE IInv'
<1>1. TypeOK'
  <2>1. ops' \subseteq Ops
    BY SMT, NewOpType, Constants DEF IInv, fireCron, initialGeneration
  <2> QED BY <2>1 DEF IInv, TypeOK, fireCron, row, worker
<1>2. OpsOK'
  BY SMT DEF IInv, OpsOK, TypeOK, Ops, InTx, Fresh, Unattended, fireCron, NewOp, row
<1> QED BY <1>1, <1>2, Elsewhere DEF IInv, fireCron

LEMMA cancelJobStep ==
    ASSUME IInv, NEW j \in Jobs, cancelJob(j) PROVE IInv'
<1>1. TypeOK'
  BY DEF IInv, TypeOK, cancelJob, worker, Status
<1>2. OpsOK'
  BY DEF IInv, OpsOK, TypeOK, Ops, InTx, Locked, cancelJob, cancellable
<1>3. OwnersOK'
  <2>1. \A w \in Workers : ~Holds(w, j)
    BY NoOwner DEF IInv, cancelJob, cancellable
  <2>2. OnlyRow(j) /\ generation'[j] = generation[j] /\ UNCHANGED worker
    BY SMT, Constants DEF IInv, TypeOK, cancelJob, OnlyRow
  <2> QED BY <2>1, <2>2, RowChange DEF IInv, Holds
<1>4. AttemptsLeft' /\ AlwaysSweepable'
  BY DEF IInv, TypeOK, cancelJob, AttemptsLeft, AlwaysSweepable, sweepable, terminal
<1> QED BY <1>1, <1>2, <1>3, <1>4 DEF IInv

LEMMA requeueJobStep ==
    ASSUME IInv, NEW j \in Jobs, requeueJob(j) PROVE IInv'
<1>1. generation[j] + 1 \in 1 .. MaxGen
  BY SMT, Constants DEF IInv, TypeOK, requeueJob
<1>2. TypeOK'
  <2>1. ops' \subseteq Ops
    BY <1>1, NewOpType DEF IInv, requeueJob
  <2> QED BY SMT, <1>1, <2>1, Constants DEF IInv, TypeOK, requeueJob, SetRow, worker, Status, Lease
<1>3. OpsOK'
  BY SMT DEF IInv, OpsOK, TypeOK, Ops, InTx, requeueJob, NewOp, SetRow
<1>4. OwnersOK'
  <2>1. generation'[j] = generation[j] + 1
    BY DEF IInv, TypeOK, requeueJob, SetRow
  <2>2. \A w \in Workers : ~(Executing(w) /\ wjob[w] = j /\ wgen[w] = generation'[j])
    BY <2>1, NoOwner DEF IInv
  <2>3. OnlyRow(j) /\ UNCHANGED worker
    BY SMT, <1>1, <2>1, Constants DEF IInv, TypeOK, requeueJob, SetRow, OnlyRow
  <2> QED BY <2>2, <2>3, RowChange DEF IInv
<1>5. AttemptsLeft' /\ AlwaysSweepable'
  BY SMT, Constants DEF IInv, TypeOK, requeueJob, SetRow, AttemptsLeft, AlwaysSweepable, sweepable, terminal
<1> QED BY <1>2, <1>3, <1>4, <1>5 DEF IInv

LEMMA recoverJobStep ==
    ASSUME IInv, NEW j \in Jobs, recoverJob(j) PROVE IInv'
<1>1. generation[j] + 1 \in 1 .. MaxGen
  BY SMT, Constants DEF IInv, TypeOK, recoverJob
<1>2. /\ attempts[j] < MaxAttempts
      /\ SetRow(j, "RETRYING", generation[j] + 1, attempts[j], "live")
      /\ NewOp("sweep", j, generation[j] + 1, "publish")
  <2>1. attempts[j] < MaxAttempts
    BY DEF IInv, recoverJob, AttemptsLeft, sweepable, terminal
  <2>2. ~(attempts[j] >= MaxAttempts)
    BY SMT, <2>1, Constants DEF IInv, TypeOK
  <2> QED BY <2>1, <2>2 DEF recoverJob
<1>3. TypeOK'
  <2>1. ops' \subseteq Ops
    BY <1>1, <1>2, NewOpType DEF IInv
  <2> QED BY <1>1, <1>2, <2>1 DEF IInv, TypeOK, recoverJob, SetRow, worker, Status, Lease
<1>4. OpsOK'
  BY SMT, <1>2 DEF IInv, OpsOK, TypeOK, Ops, InTx, recoverJob, NewOp, SetRow, sweepable
<1>5. OwnersOK'
  <2>1. generation'[j] = generation[j] + 1
    BY <1>2 DEF IInv, TypeOK, SetRow
  <2>2. \A w \in Workers : ~(Executing(w) /\ wjob[w] = j /\ wgen[w] = generation'[j])
    BY <2>1, NoOwner DEF IInv
  <2>3. OnlyRow(j) /\ UNCHANGED worker
    BY SMT, <1>1, <1>2, <2>1, Constants DEF IInv, TypeOK, recoverJob, SetRow, OnlyRow
  <2> QED BY <2>2, <2>3, RowChange DEF IInv
<1>6. AttemptsLeft' /\ AlwaysSweepable'
  BY <1>2 DEF IInv, TypeOK, SetRow, AttemptsLeft, AlwaysSweepable, sweepable, terminal
<1> QED BY <1>3, <1>4, <1>5, <1>6 DEF IInv
-----------------------------------------------------------------------------
(* The steps of an operation that is under way.                             *)

\* Moving an operation to another step keeps it well typed.
LEMMA MoveOp ==
    ASSUME TypeOK, NEW o \in ops, NEW st \in {"publish", "compensate", "commit"}
    PROVE  /\ [o EXCEPT !.step = st] \in Ops
           /\ [o EXCEPT !.step = st].kind = o.kind
           /\ [o EXCEPT !.step = st].job = o.job
           /\ [o EXCEPT !.step = st].step = st
<1>1. o \in Ops
  BY DEF TypeOK
<1> QED BY <1>1 DEF Ops

LEMMA PublishExecutionStep ==
    ASSUME IInv, NEW o \in ops, PublishExecution(o) PROVE IInv'
<1> DEFINE p == [o EXCEPT !.step = "commit"]
<1>1. p \in Ops /\ p.kind = o.kind /\ p.job = o.job /\ p.step = "commit"
  BY MoveOp DEF IInv
<1>2. \/ InTx(o) /\ ops' = (ops \ {o}) \cup {p}
      \/ ops' = ops \ {o}
  BY DEF PublishExecution, InTx
<1>3. TypeOK'
  <2>1. copies' \in [Jobs -> [Gens -> Nat]]
    BY PublishType, Constants DEF IInv, TypeOK, Ops, PublishExecution
  <2>2. ops' \subseteq Ops
    BY <1>1, <1>2 DEF IInv, TypeOK
  <2> QED BY <2>1, <2>2 DEF IInv, TypeOK, PublishExecution, row, worker
<1>4. OpsOK'
  <2> HIDE DEF p
  <2> QED BY SMT, <1>1, <1>2 DEF IInv, OpsOK, InTx, PublishExecution, row
<1> QED BY <1>3, <1>4, Elsewhere DEF IInv, PublishExecution

LEMMA PublishFailsStep ==
    ASSUME IInv, NEW o \in ops, PublishFails(o) PROVE IInv'
<1> DEFINE p == [o EXCEPT !.step = "compensate"]
<1>1. p \in Ops /\ p.kind = o.kind /\ p.job = o.job /\ p.step = "compensate"
  BY MoveOp DEF IInv
<1>2. \/ ~InTx(o) /\ ops' = (ops \ {o}) \cup {p}
      \/ ops' = ops \ {o}
  BY DEF PublishFails, InTx
<1>3. TypeOK'
  <2>1. copies' \in [Jobs -> [Gens -> Nat]]
    BY SMT, PublishType, Constants DEF IInv, TypeOK, Ops, PublishFails
  <2>2. ops' \subseteq Ops
    BY <1>1, <1>2 DEF IInv, TypeOK
  <2> QED BY SMT, <2>1, <2>2 DEF IInv, TypeOK, PublishFails, Fault, row, worker
<1>4. OpsOK'
  <2> HIDE DEF p
  <2> QED BY ZenonT(60), <1>1, <1>2 DEF IInv, OpsOK, InTx, PublishFails, row
<1> QED BY <1>3, <1>4, Elsewhere DEF IInv, PublishFails

LEMMA CommitTxStep ==
    ASSUME IInv, NEW o \in ops, CommitTx(o) PROVE IInv'
<1>1. o.job \in Jobs /\ InTx(o) /\ status[o.job] \in {"SCHEDULED", "ABSENT"}
  BY DEF IInv, TypeOK, Ops, OpsOK, InTx, CommitTx
<1>2. TypeOK'
  BY <1>1 DEF IInv, TypeOK, CommitTx, worker, Status
<1>3. OpsOK'
  BY SMT, <1>1 DEF IInv, OpsOK, TypeOK, Ops, InTx, CommitTx
<1>4. OwnersOK'
  <2>1. \A w \in Workers : ~Holds(w, o.job)
    BY <1>1, NoOwner DEF IInv
  <2>2. OnlyRow(o.job) /\ generation'[o.job] = generation[o.job] /\ UNCHANGED worker
    BY SMT, <1>1, Constants DEF IInv, TypeOK, CommitTx, OnlyRow
  <2> QED BY <1>1, <2>1, <2>2, RowChange DEF IInv, Holds
<1>5. AttemptsLeft' /\ AlwaysSweepable'
  BY <1>1 DEF IInv, TypeOK, CommitTx, AttemptsLeft, AlwaysSweepable, sweepable, terminal
<1> QED BY <1>2, <1>3, <1>4, <1>5 DEF IInv

LEMMA CompensateStep ==
    ASSUME IInv, NEW o \in ops, Compensate(o) PROVE IInv'
<1>1. o.job \in Jobs
  BY DEF IInv, TypeOK, Ops
<1>2. \/ UNCHANGED status
      \/ /\ status[o.job] = "QUEUED"
         /\ \E st \in {"FAILED", "DEAD"} : status' = [status EXCEPT ![o.job] = st]
  BY <1>1 DEF IInv, TypeOK, Compensate, markQueuedFailed, requeueRevert
<1>3. TypeOK'
  BY <1>1, <1>2 DEF IInv, TypeOK, Compensate, worker, Status
<1>4. OpsOK'
  BY SMTT(60), <1>1, <1>2 DEF IInv, OpsOK, TypeOK, Ops, InTx, Compensate
<1>5. OwnersOK'
  <2>1. CASE UNCHANGED status
    BY SMT, <2>1 DEF IInv, OwnersOK, Holds, Executing, Compensate, worker
  <2>2. CASE status[o.job] = "QUEUED"
    <3>1. \A w \in Workers : ~Holds(w, o.job)
      BY <1>1, <2>2, NoOwner DEF IInv
    <3>2. OnlyRow(o.job) /\ generation'[o.job] = generation[o.job] /\ UNCHANGED worker
      BY SMT, <1>1, <1>2, Constants DEF IInv, TypeOK, Compensate, OnlyRow
    <3> QED BY <1>1, <3>1, <3>2, RowChange DEF IInv, Holds
  <2> QED BY <1>2, <2>1, <2>2
<1>6. AttemptsLeft' /\ AlwaysSweepable'
  BY <1>1, <1>2 DEF IInv, TypeOK, Compensate, AttemptsLeft, AlwaysSweepable, sweepable, terminal
<1> QED BY <1>3, <1>4, <1>5, <1>6 DEF IInv

LEMMA AbandonOpStep ==
    ASSUME IInv, NEW o \in ops, AbandonOp(o) PROVE IInv'
<1>1. TypeOK'
  BY SMT DEF IInv, TypeOK, AbandonOp, Fault, row, worker
<1>2. OpsOK'
  BY DEF IInv, OpsOK, AbandonOp, InTx, row
<1> QED BY <1>1, <1>2, Elsewhere DEF IInv, AbandonOp
-----------------------------------------------------------------------------
(* The environment.                                                         *)

LEMMA ExpireStep ==
    ASSUME IInv, NEW j \in Jobs, Expire(j), faults' \in Nat PROVE IInv'
<1>1. TypeOK'
  BY DEF IInv, TypeOK, Expire, worker, Lease
<1>2. OpsOK'
  BY DEF IInv, OpsOK, Expire, InTx
<1>3. OwnersOK' /\ AttemptsLeft'
  BY SMT DEF IInv, OwnersOK, AttemptsLeft, Holds, Executing, Expire, worker
<1>4. AlwaysSweepable'
  BY DEF IInv, TypeOK, AlwaysSweepable, Expire
<1> QED BY <1>1, <1>2, <1>3, <1>4 DEF IInv

LEMMA UnknownGenerationStep ==
    ASSUME IInv, NEW j \in Jobs, UnknownGeneration(j) PROVE IInv'
<1>1. TypeOK'
  <2>1. copies' \in [Jobs -> [Gens -> Nat]]
    BY SMT, PublishType, Constants DEF IInv, UnknownGeneration, Gens
  <2> QED BY SMT, <2>1 DEF IInv, TypeOK, UnknownGeneration, Fault, row, worker
<1>2. OpsOK'
  BY DEF IInv, OpsOK, UnknownGeneration, InTx, row
<1> QED BY <1>1, <1>2, Elsewhere DEF IInv, UnknownGeneration
-----------------------------------------------------------------------------
(* The workers.                                                             *)

\* Without a change of rows or operations the operations stay in order.
LEMMA OpsElsewhere ==
    ASSUME IInv, UNCHANGED ops,
           \A j \in Jobs : status'[j] # status[j] =>
               status[j] \notin {"SCHEDULED", "ABSENT"}
    PROVE  OpsOK'
  BY DEF IInv, TypeOK, Ops, OpsOK, InTx

LEMMA DeliverStep ==
    ASSUME IInv, NEW w \in Workers, NEW j \in Jobs, NEW g \in Gens, Deliver(w, j, g) PROVE IInv'
<1>1. TypeOK'
  <2>1. copies' \in [Jobs -> [Gens -> Nat]]
    <3>1. copies[j][g] - 1 \in Nat
      BY SMT DEF IInv, TypeOK, Deliver
    <3>2. copies' = [copies EXCEPT ![j][g] = @ - 1] \/ copies' = copies
      BY DEF Deliver
    <3>3. copies \in [Jobs -> [Gens -> Nat]]
      BY DEF IInv, TypeOK
    <3>4. CASE copies' = [copies EXCEPT ![j][g] = @ - 1]
      BY <3>1, <3>3, <3>4
    <3> QED BY <3>2, <3>3, <3>4
  <2>2. faults' \in Nat
    BY SMT DEF IInv, TypeOK, Deliver, NoFault, Fault
  <2> QED BY <2>1, <2>2 DEF IInv, TypeOK, Deliver, row, PC
<1>2. OpsOK'
  BY OpsElsewhere DEF Deliver, row
<1>3. OwnersOK'
  BY SMT DEF IInv, TypeOK, OwnersOK, Holds, Executing, Deliver, row
<1>4. AttemptsLeft' /\ AlwaysSweepable'
  BY DEF IInv, AttemptsLeft, AlwaysSweepable, Deliver, row
<1> QED BY <1>1, <1>2, <1>3, <1>4 DEF IInv

LEMMA StartJobFenceStep ==
    ASSUME IInv, NEW w \in Workers, StartJobFence(w) PROVE IInv'
<1> DEFINE j == wjob[w]
<1>1. j \in Jobs /\ status[j] \in {"QUEUED", "RETRYING"} /\ attempts[j] < MaxAttempts
  BY DEF IInv, TypeOK, AttemptsLeft, StartJobFence, Claimable, startable, terminal
<1>2. TypeOK'
  <2>1. attempts[j] \in 0 .. MaxAttempts /\ generation[j] \in 1 .. MaxGen
    BY <1>1 DEF IInv, TypeOK
  <2>2. attempts[j] + 1 \in 0 .. MaxAttempts /\ generation[j] \in Gens
    <3> HIDE DEF j
    <3> QED BY SMT, <1>1, <2>1, Constants DEF Gens
  <2> QED BY <1>1, <2>2 DEF IInv, TypeOK, StartJobFence, Claim, Status, Lease, PC
<1>3. OpsOK'
  BY <1>1, OpsElsewhere DEF IInv, TypeOK, StartJobFence, Claim
<1>4. OwnersOK'
  <2>1. \A v \in Workers : ~Holds(v, j)
    BY <1>1, NoOwner DEF IInv
  <2>2. /\ Executing(w)' /\ wjob'[w] = j /\ wgen'[w] = generation[j]
        /\ wattempt'[w] = attempts[j] + 1 /\ status'[j] = "PROCESSING"
    BY <1>1 DEF IInv, TypeOK, StartJobFence, Claim, Executing
  <2>3. UNCHANGED <<generation, attempts>> /\ \A i \in Jobs \ {j} : status'[i] = status[i]
    BY <1>1 DEF IInv, TypeOK, StartJobFence, Claim
  <2>4. \A v \in Workers \ {w} : /\ Executing(v)' <=> Executing(v)
                                 /\ wjob'[v] = wjob[v] /\ wgen'[v] = wgen[v]
                                 /\ wattempt'[v] = wattempt[v]
    BY DEF IInv, TypeOK, StartJobFence, Executing
  <2>5. generation[j] >= 1
    BY SMT, <1>1, Constants DEF IInv, TypeOK
  <2> HIDE DEF j
  <2>6. \A v \in Workers \ {w}, i \in Jobs : Holds(v, i)' <=> i # j /\ Holds(v, i)
    BY <2>1, <2>3, <2>4 DEF Holds
  <2>7. \A i \in Jobs : Holds(w, i)' <=> i = j
    BY <1>1, <2>2, <2>3 DEF Holds
  <2>8. ASSUME NEW v \in Workers, Executing(v)'
        PROVE  wgen'[v] >= 1 /\ wgen'[v] <= generation'[wjob'[v]]
    <3>1. CASE v = w
      <4>1. generation[j] \in Nat
        BY SMT, <1>1, Constants DEF IInv, TypeOK
      <4> QED BY SMT, <3>1, <4>1, <2>2, <2>3, <2>5
    <3>2. CASE v # w
      BY <3>2, <2>3, <2>4, <2>8 DEF IInv, OwnersOK
    <3> QED BY <3>1, <3>2
  <2>9. ASSUME NEW v \in Workers, NEW i \in Jobs, Holds(v, i)'
        PROVE  /\ status'[i] = "PROCESSING"
               /\ wattempt'[v] = attempts'[i] + 1
               /\ \A u \in Workers : Holds(u, i)' => u = v
    <3>1. CASE v = w
      <4>1. i = j
        BY <2>7, <2>9, <3>1
      <4>2. \A u \in Workers : Holds(u, i)' => u = w
        BY <2>6, <4>1
      <4> QED BY <2>2, <2>3, <3>1, <4>1, <4>2
    <3>2. CASE v # w
      <4>1. i # j /\ Holds(v, i)
        BY <2>6, <2>9, <3>2
      <4>2. /\ status[i] = "PROCESSING" /\ wattempt[v] = attempts[i] + 1
            /\ \A u \in Workers : Holds(u, i) => u = v
        BY <4>1 DEF IInv, OwnersOK
      <4>3. \A u \in Workers : Holds(u, i)' => u = v
        BY <2>6, <2>7, <4>1, <4>2
      <4> QED BY <2>3, <2>4, <3>2, <4>1, <4>2, <4>3
    <3> QED BY <3>1, <3>2
  <2> QED BY <2>8, <2>9 DEF OwnersOK
<1>5. AttemptsLeft' /\ AlwaysSweepable'
  BY <1>1 DEF IInv, TypeOK, AttemptsLeft, AlwaysSweepable, StartJobFence, Claim, sweepable, terminal
<1> QED BY <1>2, <1>3, <1>4, <1>5 DEF IInv

LEMMA SkipMessageStep ==
    ASSUME IInv, NEW w \in Workers, SkipMessage(w) PROVE IInv'
<1>1. TypeOK'
  BY GoIdleType DEF IInv, TypeOK, SkipMessage, row
<1>2. OpsOK'
  BY OpsElsewhere DEF SkipMessage, row
<1>3. OwnersOK'
  BY WorkerRests DEF IInv, SkipMessage, row
<1>4. AttemptsLeft' /\ AlwaysSweepable'
  BY DEF IInv, AttemptsLeft, AlwaysSweepable, SkipMessage, row
<1> QED BY <1>1, <1>2, <1>3, <1>4 DEF IInv

LEMMA FenceFailsStep ==
    ASSUME IInv, NEW w \in Workers, FenceFails(w) PROVE IInv'
<1> DEFINE j == wjob[w]
<1>1. j \in Jobs /\ wgen[w] \in Gens
  BY DEF IInv, TypeOK, FenceFails
<1>2. \/ UNCHANGED row
      \/ status[j] \in {"QUEUED", "RETRYING"} /\ Claim(w)
  BY DEF FenceFails, Claimable, startable
<1>3. UNCHANGED <<generation, attempts>>
  BY <1>2 DEF row, Claim
<1>4. TypeOK'
  <2>1. timers' \in [Workers -> [Jobs -> [Gens -> Nat]]]
    BY <1>1, TimerType DEF IInv, FenceFails
  <2>2. status' \in [Jobs -> Status] /\ lease' \in [Jobs -> Lease]
    BY <1>1, <1>2 DEF IInv, TypeOK, row, Claim, Status, Lease
  <2> QED BY SMT, <1>3, <2>1, <2>2, GoIdleType DEF IInv, TypeOK, FenceFails, Fault
<1>5. OpsOK'
  BY <1>1, <1>2, OpsElsewhere DEF IInv, TypeOK, FenceFails, row, Claim
<1>6. OwnersOK'
  <2>1. \A v \in Workers, i \in Jobs : Holds(v, i) => status'[i] = status[i]
    <3>1. CASE UNCHANGED row
      BY <3>1 DEF row
    <3>2. CASE status[j] \in {"QUEUED", "RETRYING"} /\ Claim(w)
      <4>1. \A v \in Workers : ~Holds(v, j)
        BY <1>1, <3>2, NoOwner DEF IInv
      <4> QED BY <1>1, <3>2, <4>1 DEF Claim, IInv, TypeOK
    <3> QED BY <1>2, <3>1, <3>2
  <2> QED BY <1>3, <2>1, WorkerRests DEF IInv, FenceFails
<1>7. AttemptsLeft' /\ AlwaysSweepable'
  BY <1>1, <1>2 DEF IInv, TypeOK, AttemptsLeft, AlwaysSweepable, row, Claim, sweepable, terminal
<1> QED BY <1>4, <1>5, <1>6, <1>7 DEF IInv

LEMMA RenewJobLeaseStep ==
    ASSUME IInv, NEW w \in Workers, RenewJobLease(w) PROVE IInv'
<1>1. wjob[w] \in Jobs
  BY DEF IInv, TypeOK, RenewJobLease
<1>2. OpsOK'
  BY OpsElsewhere DEF RenewJobLease
<1>3. AttemptsLeft'
  BY DEF IInv, AttemptsLeft, RenewJobLease
<1>4. CASE Fenced(w)
  <2>1. GoIdle(w) /\ lease' = lease
    BY <1>4 DEF RenewJobLease
  <2>2. TypeOK'
    BY <2>1, GoIdleType DEF IInv, TypeOK, RenewJobLease
  <2>3. OwnersOK'
    BY <2>1, WorkerRests DEF IInv, RenewJobLease
  <2>4. AlwaysSweepable'
    BY <2>1 DEF IInv, AlwaysSweepable, RenewJobLease
  <2> QED BY <1>2, <1>3, <2>2, <2>3, <2>4 DEF IInv
<1>5. CASE ~Fenced(w)
  <2>1. UNCHANGED worker /\ lease' = [lease EXCEPT ![wjob[w]] = "live"]
    BY <1>5 DEF RenewJobLease
  <2>2. TypeOK'
    BY <1>1, <2>1 DEF IInv, TypeOK, RenewJobLease, worker, Lease
  <2>3. OwnersOK'
    BY SMTT(60), <2>1 DEF IInv, OwnersOK, Holds, Executing, RenewJobLease, worker
  <2>4. AlwaysSweepable'
    BY <1>1, <2>1 DEF IInv, TypeOK, AlwaysSweepable, RenewJobLease
  <2> QED BY <1>2, <1>3, <2>2, <2>3, <2>4 DEF IInv
<1> QED BY <1>4, <1>5

LEMMA HandlerReturnsStep ==
    ASSUME IInv, NEW w \in Workers, HandlerReturns(w) PROVE IInv'
<1>1. TypeOK'
  BY DEF IInv, TypeOK, HandlerReturns, row, PC
<1>2. OpsOK'
  BY OpsElsewhere DEF HandlerReturns, row
<1>3. OwnersOK'
  <2>1. \A v \in Workers : Executing(v)' <=> Executing(v)
    BY DEF IInv, TypeOK, HandlerReturns, Executing
  <2>2. UNCHANGED <<status, generation, attempts, lease, wjob, wgen, wattempt>>
    BY DEF HandlerReturns, row
  <2> QED BY <2>1, <2>2 DEF IInv, OwnersOK, Holds
<1>4. AttemptsLeft' /\ AlwaysSweepable'
  BY DEF IInv, AttemptsLeft, AlwaysSweepable, HandlerReturns, row
<1> QED BY <1>1, <1>2, <1>3, <1>4 DEF IInv

\* What a finish write does to the row: nothing when it is fenced; otherwise the
\* worker was the owner.
LEMMA WriteResultEffect ==
    ASSUME IInv, NEW w \in Workers, pc[w] \in {"success", "failed", "permanent"}, WriteResult(w)
    PROVE  /\ wjob[w] \in Jobs
           /\ UNCHANGED generation
           /\ \/ UNCHANGED row
              \/ /\ Holds(w, wjob[w])
                 /\ attempts' = [attempts EXCEPT ![wjob[w]] = wattempt[w]]
                 /\ \/ \E st \in {"SUCCESS", "DEAD"} :
                          /\ status' = [status EXCEPT ![wjob[w]] = st]
                          /\ lease' = [lease EXCEPT ![wjob[w]] = "none"]
                    \/ /\ wattempt[w] < MaxAttempts
                       /\ status' = [status EXCEPT ![wjob[w]] = "RETRYING"]
                       /\ lease' = [lease EXCEPT ![wjob[w]] = "live"]
<1>1. wjob[w] \in Jobs
  BY DEF IInv, TypeOK
<1>2. CASE Fenced(w)
  BY <1>1, <1>2 DEF WriteResult, row
<1>3. CASE ~Fenced(w)
  <2>1. Holds(w, wjob[w])
    BY <1>3 DEF Fenced, Holds, Executing
  <2>2. generation \in [Jobs -> Nat]
    BY SMT DEF IInv, TypeOK
  <2>3. CASE pc[w] = "failed" /\ wattempt[w] < MaxAttempts
    <3>1. SetRow(wjob[w], "RETRYING", generation[wjob[w]], wattempt[w], "live")
      BY <1>3, <2>3 DEF WriteResult, Retries
    <3> QED BY <1>1, <2>1, <2>2, <2>3, <3>1 DEF SetRow
  <2>4. CASE ~(pc[w] = "failed" /\ wattempt[w] < MaxAttempts)
    <3>1. \/ SetRow(wjob[w], "SUCCESS", generation[wjob[w]], wattempt[w], "none")
          \/ SetRow(wjob[w], "DEAD", generation[wjob[w]], wattempt[w], "none")
      BY <1>3, <2>4 DEF WriteResult, Retries
    <3> QED BY <1>1, <2>1, <2>2, <3>1 DEF SetRow
  <2> QED BY <2>3, <2>4
<1> QED BY <1>2, <1>3

\* Both ways a finish ends: the row is written or not, the worker is idle.
LEMMA FinishEffect ==
    ASSUME IInv, NEW w \in Workers, pc[w] \in {"success", "failed", "permanent"},
           WriteResult(w) \/ UNCHANGED row, GoIdle(w), UNCHANGED ops,
           UNCHANGED copies, timers' \in [Workers -> [Jobs -> [Gens -> Nat]]],
           faults' \in Nat, UNCHANGED requeues
    PROVE  IInv'
<1> DEFINE j == wjob[w]
<1>1. j \in Jobs
  BY DEF IInv, TypeOK
<1>2. UNCHANGED generation
  BY WriteResultEffect DEF row
<1>3. CASE UNCHANGED row
  <2>1. TypeOK'
    BY <1>3, GoIdleType DEF IInv, TypeOK, row
  <2>2. OpsOK'
    BY <1>3, OpsElsewhere DEF row
  <2>3. OwnersOK'
    BY <1>3, WorkerRests DEF IInv, row
  <2>4. AttemptsLeft' /\ AlwaysSweepable'
    BY <1>3 DEF IInv, AttemptsLeft, AlwaysSweepable, row
  <2> QED BY <2>1, <2>2, <2>3, <2>4 DEF IInv
<1>4. CASE ~UNCHANGED row
  <2>1. /\ Holds(w, j)
        /\ attempts' = [attempts EXCEPT ![j] = wattempt[w]]
        /\ \/ \E st \in {"SUCCESS", "DEAD"} : /\ status' = [status EXCEPT ![j] = st]
                                             /\ lease' = [lease EXCEPT ![j] = "none"]
           \/ /\ wattempt[w] < MaxAttempts
              /\ status' = [status EXCEPT ![j] = "RETRYING"]
              /\ lease' = [lease EXCEPT ![j] = "live"]
    BY <1>4, WriteResultEffect
  <2>2. status[j] = "PROCESSING" /\ \A v \in Workers \ {w} : ~Holds(v, j)
    BY <1>1, <2>1 DEF IInv, OwnersOK
  <2> HIDE DEF j
  <2>3. TypeOK'
    <3>1. wattempt[w] \in 0 .. MaxAttempts
      BY DEF IInv, TypeOK
    <3>2. attempts' \in [Jobs -> 0 .. MaxAttempts]
      BY <1>1, <2>1, <3>1 DEF IInv, TypeOK
    <3>3. status' \in [Jobs -> Status]
      BY <1>1, <2>1 DEF IInv, TypeOK, Status
    <3>4. lease' \in [Jobs -> Lease]
      BY <1>1, <2>1 DEF IInv, TypeOK, Lease
    <3> QED BY <1>2, <3>2, <3>3, <3>4, GoIdleType DEF IInv, TypeOK
  <2>4. OpsOK'
    BY <1>1, <2>1, <2>2, OpsElsewhere DEF IInv, TypeOK
  <2>5. OwnersOK'
    <3>1. \A i \in Jobs \ {j} : status'[i] = status[i] /\ attempts'[i] = attempts[i]
      BY <2>1 DEF IInv, TypeOK
    <3> QED BY <1>2, <2>2, <3>1, WorkerRests DEF IInv
  <2>6. AttemptsLeft' /\ AlwaysSweepable'
    BY <1>1, <2>1 DEF IInv, TypeOK, AttemptsLeft, AlwaysSweepable, sweepable, terminal
  <2> QED BY <2>3, <2>4, <2>5, <2>6 DEF IInv
<1> QED BY <1>3, <1>4

LEMMA FinishJobStep ==
    ASSUME IInv, NEW w \in Workers, FinishJob(w) PROVE IInv'
<1>1. wjob[w] \in Jobs /\ wgen[w] \in Gens
  BY DEF IInv, TypeOK, FinishJob
<1>2. timers' \in [Workers -> [Jobs -> [Gens -> Nat]]]
  <2>1. CASE Retries(w) /\ ~Fenced(w)
    BY <1>1, <2>1, TimerType DEF IInv, FinishJob
  <2>2. CASE ~(Retries(w) /\ ~Fenced(w))
    BY <2>2 DEF IInv, TypeOK, FinishJob
  <2> QED BY <2>1, <2>2
<1>3. faults' \in Nat
  BY DEF IInv, TypeOK, FinishJob
<1> QED BY <1>2, <1>3, FinishEffect DEF FinishJob

LEMMA FinishFailsStep ==
    ASSUME IInv, NEW w \in Workers, FinishFails(w) PROVE IInv'
<1>1. timers' \in [Workers -> [Jobs -> [Gens -> Nat]]] /\ faults' \in Nat
  BY SMT DEF IInv, TypeOK, FinishFails, Fault
<1> QED BY <1>1, FinishEffect DEF FinishFails

LEMMA RetryFiresStep ==
    ASSUME IInv, NEW w \in Workers, NEW j \in Jobs, NEW g \in Gens, RetryFires(w, j, g) PROVE IInv'
<1>1. TypeOK'
  <2>1. copies' \in [Jobs -> [Gens -> Nat]]
    BY PublishType DEF IInv, TypeOK, RetryFires
  <2>2. timers' \in [Workers -> [Jobs -> [Gens -> Nat]]]
    <3>1. timers[w][j][g] - 1 \in Nat
      BY SMT DEF IInv, TypeOK, RetryFires
    <3> QED BY <3>1 DEF IInv, TypeOK, RetryFires
  <2>3. faults' \in Nat
    BY SMT DEF IInv, TypeOK, RetryFires, NoFault, Fault
  <2> QED BY <2>1, <2>2, <2>3 DEF IInv, TypeOK, RetryFires, row, worker
<1>2. OpsOK'
  BY OpsElsewhere DEF RetryFires, row
<1> QED BY <1>1, <1>2, Elsewhere DEF IInv, RetryFires

LEMMA WorkerCrashStep ==
    ASSUME IInv, NEW w \in Workers, WorkerCrash(w) PROVE IInv'
<1>1. TypeOK'
  <2>1. timers' \in [Workers -> [Jobs -> [Gens -> Nat]]] /\ faults' \in Nat
    BY SMT DEF IInv, TypeOK, WorkerCrash, Fault
  <2> QED BY <2>1, GoIdleType DEF IInv, TypeOK, WorkerCrash, row
<1>2. OpsOK'
  BY OpsElsewhere DEF WorkerCrash, row
<1>3. OwnersOK'
  BY WorkerRests DEF IInv, WorkerCrash, row
<1>4. AttemptsLeft' /\ AlwaysSweepable'
  BY DEF IInv, AttemptsLeft, AlwaysSweepable, WorkerCrash, row
<1> QED BY <1>1, <1>2, <1>3, <1>4 DEF IInv
-----------------------------------------------------------------------------
(* The theorems.                                                            *)

\* Every step of the system, whoever takes it, preserves the invariant.
LEMMA Preserved == IInv /\ [Next]_vars => IInv'
<1> SUFFICES ASSUME IInv, [Next]_vars PROVE IInv'
  OBVIOUS
<1>1. ASSUME NEW j \in Jobs,
             \/ CreateJob(j) \/ CreateScheduledJob(j) \/ claimDueScheduled(j) \/ fireCron(j)
             \/ cancelJob(j) \/ requeueJob(j) \/ recoverJob(j)
      PROVE  IInv'
  BY <1>1, CreateJobStep, CreateScheduledJobStep, claimDueScheduledStep, fireCronStep,
     cancelJobStep, requeueJobStep, recoverJobStep
<1>2. ASSUME NEW o \in ops,
             \/ PublishExecution(o) \/ PublishFails(o) \/ CommitTx(o)
             \/ Compensate(o) \/ AbandonOp(o)
      PROVE  IInv'
  BY <1>2, PublishExecutionStep, PublishFailsStep, CommitTxStep, CompensateStep, AbandonOpStep
<1>3. ASSUME NEW w \in Workers, NEW j \in Jobs, NEW g \in Gens,
             Deliver(w, j, g) \/ RetryFires(w, j, g)
      PROVE  IInv'
  BY <1>3, DeliverStep, RetryFiresStep
<1>4. ASSUME NEW w \in Workers,
             \/ StartJobFence(w) \/ SkipMessage(w) \/ FenceFails(w)
             \/ RenewJobLease(w) \/ HandlerReturns(w)
             \/ FinishJob(w) \/ FinishFails(w) \/ WorkerCrash(w)
      PROVE  IInv'
  BY <1>4, StartJobFenceStep, SkipMessageStep, FenceFailsStep, RenewJobLeaseStep,
     HandlerReturnsStep, FinishJobStep, FinishFailsStep, WorkerCrashStep
<1>5. ASSUME NEW j \in Jobs, LeaseRunsOut(j) \/ LeaseLost(j) \/ UnknownGeneration(j)
      PROVE  IInv'
  <2>1. CASE LeaseRunsOut(j)
    BY <2>1, ExpireStep DEF IInv, TypeOK, LeaseRunsOut, NoFault
  <2>2. CASE LeaseLost(j)
    <3>1. Expire(j) /\ faults' = faults + 1
      BY <2>2 DEF LeaseLost, Fault
    <3>2. faults \in Nat
      BY DEF IInv, TypeOK
    <3> QED BY SMT, <3>1, <3>2, ExpireStep
  <2> QED BY <1>5, <2>1, <2>2, UnknownGenerationStep
<1>6. CASE UNCHANGED vars
  <2>1. UNCHANGED <<row, worker, copies, ops, timers, faults, requeues>>
    BY <1>6 DEF vars, row, worker
  <2>2. TypeOK' /\ OpsOK'
    BY <2>1 DEF IInv, TypeOK, OpsOK, InTx, row, worker
  <2> QED BY <2>1, <2>2, Elsewhere DEF IInv
<1> QED BY <1>1, <1>2, <1>3, <1>4, <1>5, <1>6 DEF Next, ServiceStep, WorkerStep, Environment

\* A step of the service is a step, or none, of each of its sides.
LEMMA SideSteps ==
    [ServiceNext]_<<side, vars, keyVars>> => [Next]_vars /\ [Keys!Next]_(Keys!vars)
BY DEF ServiceNext, keyVars, Keys!vars

\* The invariant holds in every reachable state.
THEOREM Invariance == ServiceSpec => []IInv
  BY Initially, Preserved, SideSteps, PTL DEF ServiceSpec, ServiceInit

\* The types are right, for any constants.
THEOREM Typing == ServiceSpec => []TypeOK
  BY Invariance, PTL DEF IInv

\* Fencing: whatever fails, at most one worker owns a job's current generation,
\* and only while the row is PROCESSING.
THEOREM Fencing == ServiceSpec => []SoleOwner
<1>1. IInv => SoleOwner
  BY DEF IInv, OwnersOK, SoleOwner
<1> QED BY <1>1, Invariance, PTL

\* A job that can still run has attempts left, so the sweeper never meets an
\* exhausted one.
THEOREM Attempts == ServiceSpec => []AttemptsLeft
  BY Invariance, PTL DEF IInv

\* Every running or retrying row carries a lease the sweeper can wait for.
THEOREM Leases == ServiceSpec => []AlwaysSweepable
  BY Invariance, PTL DEF IInv

\* How one step may change the row of one job.
RowStep(j) ==
    \/ UNCHANGED <<status[j], attempts[j]>>
    \/ status[j] \in {"ABSENT", "SCHEDULED", "QUEUED"}
    \/ status[j] = "RETRYING" /\ status'[j] \in {"PROCESSING", "CANCELLED"}
    \/ status[j] \in sweepable /\ generation'[j] = generation[j] + 1
    \/ status[j] = "DEAD" /\ status'[j] = "QUEUED" /\ generation'[j] = generation[j] + 1
    \/ status[j] = "PROCESSING" /\ \E w \in Workers : Holds(w, j) /\ ~Executing(w)'

\* Every step changes every row in one of these ways.
LEMMA RowSteps == ASSUME IInv, [Next]_vars, NEW i \in Jobs PROVE RowStep(i)
<1>1. ASSUME NEW j \in Jobs,
             \/ CreateJob(j) \/ CreateScheduledJob(j) \/ claimDueScheduled(j) \/ fireCron(j)
      PROVE  RowStep(i)
  BY <1>1 DEF RowStep, CreateJob, CreateScheduledJob, claimDueScheduled, fireCron, Fresh,
              row, IInv, TypeOK
<1>2. ASSUME NEW j \in Jobs, cancelJob(j) PROVE RowStep(i)
  BY <1>2 DEF RowStep, cancelJob, cancellable, IInv, TypeOK
<1>3. ASSUME NEW j \in Jobs, requeueJob(j) PROVE RowStep(i)
  BY <1>3 DEF RowStep, requeueJob, SetRow, IInv, TypeOK
<1>4. ASSUME NEW j \in Jobs, recoverJob(j) PROVE RowStep(i)
  <2>1. \E st \in Status, l \in Lease : SetRow(j, st, generation[j] + 1, attempts[j], l)
    BY <1>4 DEF recoverJob, Status, Lease
  <2> QED BY <1>4, <2>1 DEF RowStep, recoverJob, SetRow, IInv, TypeOK
<1>5. ASSUME NEW o \in ops, PublishExecution(o) \/ PublishFails(o) \/ AbandonOp(o)
      PROVE  RowStep(i)
  BY <1>5 DEF RowStep, PublishExecution, PublishFails, AbandonOp, row
<1>6. ASSUME NEW o \in ops, CommitTx(o) PROVE RowStep(i)
  <2>1. o.job \in Jobs /\ status[o.job] \in {"SCHEDULED", "ABSENT"}
    BY <1>6 DEF IInv, TypeOK, Ops, OpsOK, InTx, CommitTx
  <2> QED BY <1>6, <2>1 DEF RowStep, CommitTx, IInv, TypeOK
<1>7. ASSUME NEW o \in ops, Compensate(o) PROVE RowStep(i)
  <2>1. o.job \in Jobs
    BY DEF IInv, TypeOK, Ops
  <2> QED BY <1>7, <2>1 DEF RowStep, Compensate, markQueuedFailed, requeueRevert, IInv, TypeOK
<1>8. ASSUME NEW w \in Workers,
             \/ \E j \in Jobs, g \in Gens : Deliver(w, j, g) \/ RetryFires(w, j, g)
             \/ SkipMessage(w) \/ RenewJobLease(w) \/ HandlerReturns(w) \/ WorkerCrash(w)
      PROVE  RowStep(i)
  BY <1>8 DEF RowStep, Deliver, RetryFires, SkipMessage, RenewJobLease, HandlerReturns,
              WorkerCrash, row
<1>9. ASSUME NEW w \in Workers, StartJobFence(w) \/ FenceFails(w) PROVE RowStep(i)
  <2>1. wjob[w] \in Jobs
    BY <1>9 DEF IInv, TypeOK, StartJobFence, FenceFails
  <2>2. UNCHANGED row \/ (status[wjob[w]] \in {"QUEUED", "RETRYING"} /\ Claim(w))
    BY <1>9 DEF StartJobFence, FenceFails, Claimable, startable
  <2> QED BY <2>1, <2>2 DEF RowStep, Claim, row, IInv, TypeOK
<1>10. ASSUME NEW w \in Workers, FinishJob(w) \/ FinishFails(w) PROVE RowStep(i)
  <2>1. pc[w] \in {"success", "failed", "permanent"} /\ GoIdle(w)
        /\ (WriteResult(w) \/ UNCHANGED row)
    BY <1>10 DEF FinishJob, FinishFails
  <2>2. CASE UNCHANGED row
    BY <2>2 DEF RowStep, row
  <2>3. CASE ~UNCHANGED row
    <3>1. /\ wjob[w] \in Jobs /\ Holds(w, wjob[w])
          /\ \E st \in Status : status' = [status EXCEPT ![wjob[w]] = st]
          /\ attempts' = [attempts EXCEPT ![wjob[w]] = wattempt[w]]
      BY <2>1, <2>3, WriteResultEffect DEF Status
    <3>4. \A k \in Jobs \ {wjob[w]} : status'[k] = status[k] /\ attempts'[k] = attempts[k]
      BY <3>1 DEF IInv, TypeOK
    <3>2. status[wjob[w]] = "PROCESSING"
      BY <3>1 DEF IInv, OwnersOK
    <3>3. ~Executing(w)'
      BY <2>1 DEF GoIdle, Executing, IInv, TypeOK
    <3> QED BY <3>1, <3>2, <3>3, <3>4 DEF RowStep
  <2> QED BY <2>2, <2>3
<1>11. ASSUME NEW j \in Jobs, LeaseRunsOut(j) \/ LeaseLost(j) \/ UnknownGeneration(j)
       PROVE  RowStep(i)
  BY <1>11 DEF RowStep, LeaseRunsOut, LeaseLost, Expire, UnknownGeneration, row
<1>12. CASE UNCHANGED vars
  BY <1>12 DEF vars, RowStep
<1> QED BY <1>1, <1>2, <1>3, <1>4, <1>5, <1>6, <1>7, <1>8, <1>9, <1>10, <1>11, <1>12
           DEF Next, ServiceStep, WorkerStep, Environment

\* SUCCESS, FAILED and CANCELLED are final; DEAD is left only under a new
\* generation.
THEOREM Finality == ServiceSpec => FinalIsFinal
<1>1. ASSUME IInv, [Next]_vars
      PROVE  \A j \in Jobs : status[j] \in terminal /\ status'[j] # status[j] =>
               status[j] = "DEAD" /\ status'[j] = "QUEUED" /\ generation'[j] = generation[j] + 1
  BY <1>1, RowSteps DEF RowStep, terminal, sweepable
<1> QED BY <1>1, Invariance, SideSteps, PTL DEF ServiceSpec, ServiceInit, FinalIsFinal

\* A running or retrying row changes only by its owner, a claim, a cancel or a
\* takeover under a new generation: fenced workers write nothing.
THEOREM Zombies == ServiceSpec => ZombiesWriteNothing
<1>1. ASSUME IInv, [Next]_vars
      PROVE  \A j \in Jobs :
         status[j] \in sweepable /\ <<status[j], attempts[j]>>' # <<status[j], attempts[j]>> =>
            \/ status[j] = "RETRYING" /\ status'[j] \in {"PROCESSING", "CANCELLED"}
            \/ generation'[j] = generation[j] + 1
            \/ \E w \in Workers : Holds(w, j) /\ ~Executing(w)'
  BY <1>1, RowSteps DEF RowStep, sweepable
<1> QED BY <1>1, Invariance, SideSteps, PTL DEF ServiceSpec, ServiceInit, ZombiesWriteNothing

\* Somebody will act on the job's current generation.
Covered(j) ==
    \/ \E g \in {0, generation[j]} : copies[j][g] # 0 \/ \E w \in Workers : timers[w][j][g] # 0
    \/ \E w \in Workers : pc[w] = "fence" /\ wjob[w] = j /\ wgen[w] \in {0, generation[j]}
    \/ \E o \in ops : o.job = j /\ o.gen \in {0, generation[j]}

LEMMA StrandedNotCovered == \A j \in Jobs : Stranded(j) <=> status[j] = "QUEUED" /\ ~Covered(j)
  BY DEF Stranded, Covered

LEMMA StrandedNext == \A j \in Jobs : Stranded(j)' => status'[j] = "QUEUED" /\ ~Covered(j)'
  BY DEF Stranded, Covered

LEMMA CoverTypes ==
    ASSUME IInv
    PROVE  /\ \A j \in Jobs : generation[j] \in Gens
           /\ 0 \in Gens
           /\ copies \in [Jobs -> [Gens -> Nat]]
           /\ timers \in [Workers -> [Jobs -> [Gens -> Nat]]]
           /\ Fanout \in Nat /\ Fanout # 0
<1>1. \A g \in 1 .. MaxGen : g \in Gens
  BY SMT, Constants DEF Gens
<1>2. 0 \in Gens
  BY SMT, Constants DEF Gens
<1>3. generation \in [Jobs -> 1 .. MaxGen]
  BY DEF IInv, TypeOK
<1> QED
  BY SMT, <1>1, <1>2, <1>3, FanoutAssumption DEF IInv, TypeOK

LEMMA FaultCounted == ASSUME faults \in Nat, faults' = faults + 1 PROVE faults' # faults
  BY SMT

\* A timer that is started or fires is the only one whose count changes.
OneTimer(w, j, h) ==
    \A v \in Workers, i \in Jobs, g \in Gens :
        ~(v = w /\ i = j /\ g = h) => timers'[v][i][g] = timers[v][i][g]

LEMMA TimerStarts ==
    ASSUME timers \in [Workers -> [Jobs -> [Gens -> Nat]]],
           NEW w \in Workers, NEW j \in Jobs, NEW h \in Gens, StartTimer(w, j, h)
    PROVE  OneTimer(w, j, h) /\ timers'[w][j][h] # 0
<1>1. timers'[w][j][h] = timers[w][j][h] + 1 /\ timers[w][j][h] \in Nat
  BY SMT DEF StartTimer
<1>2. timers'[w][j][h] # 0
  BY SMT, <1>1
<1>3. OneTimer(w, j, h)
  BY SMT DEF StartTimer, OneTimer
<1> QED BY <1>2, <1>3

LEMMA TimerFires ==
    ASSUME timers \in [Workers -> [Jobs -> [Gens -> Nat]]],
           NEW w \in Workers, NEW j \in Jobs, NEW h \in Gens,
           timers' = [timers EXCEPT ![w][j][h] = @ - 1]
    PROVE  OneTimer(w, j, h)
  BY ZenonT(60) DEF OneTimer

\* A QUEUED job that stays QUEUED keeps somebody who will act on it, in a step
\* that is no fault.
LEMMA StaysCovered ==
    ASSUME IInv, [Next]_vars, NEW i \in Jobs, faults' = faults, Covered(i),
           status[i] = "QUEUED", status'[i] = "QUEUED", \A o \in ops : o.job = i => ~CommitTx(o)
    PROVE  Covered(i)'
<1> USE DEF Covered
<1>1. ASSUME NEW k, Fault(k) PROVE FALSE
  BY <1>1, FaultCounted DEF Fault, IInv, TypeOK
<1>2. ASSUME NEW j \in Jobs, CreateJob(j) \/ claimDueScheduled(j) \/ fireCron(j) PROVE Covered(i)'
  <2>1. ops \subseteq ops' /\ UNCHANGED <<generation, copies, worker, timers>>
    BY <1>2 DEF CreateJob, claimDueScheduled, fireCron, NewOp, row
  <2> QED BY <2>1 DEF worker
<1>3. ASSUME NEW j \in Jobs, \/ CreateScheduledJob(j) \/ cancelJob(j)
                             \/ LeaseRunsOut(j) \/ LeaseLost(j) \/ UnknownGeneration(j)
      PROVE  Covered(i)'
  <2>1. UNCHANGED <<generation, copies, ops, worker, timers>>
    BY <1>1, <1>3 DEF CreateScheduledJob, cancelJob, LeaseRunsOut, LeaseLost, Expire, UnknownGeneration
  <2> QED BY <2>1 DEF worker
<1>4. ASSUME NEW j \in Jobs, requeueJob(j) \/ recoverJob(j) PROVE Covered(i)'
  <2>1. j # i
    BY <1>4 DEF requeueJob, recoverJob, sweepable
  <2>2. ops \subseteq ops' /\ UNCHANGED <<copies, worker, timers>>
    BY <1>4 DEF requeueJob, recoverJob, NewOp
  <2>3. generation'[i] = generation[i]
    BY <1>4, <2>1 DEF requeueJob, recoverJob, SetRow, IInv, TypeOK
  <2> QED BY <2>2, <2>3 DEF worker
<1>5. ASSUME NEW o \in ops, PublishExecution(o) PROVE Covered(i)'
  <2>1. o.job \in Jobs /\ o.gen \in Gens /\ UNCHANGED <<generation, worker, timers>>
    BY <1>5 DEF PublishExecution, row, IInv, TypeOK, Ops
  <2>2. copies \in [Jobs -> [Gens -> Nat]] /\ generation[i] \in Gens /\ 0 \in Gens /\ Fanout \in Nat \ {0}
    BY CoverTypes
  <2>3. \A g \in Gens : copies[i][g] # 0 => copies'[i][g] # 0
    BY SMT, <1>5, <2>1, <2>2 DEF PublishExecution, Publish
  <2>4. o.job = i => copies'[i][o.gen] # 0
    BY SMT, <1>5, <2>1, <2>2 DEF PublishExecution, Publish
  <2>5. \A p \in ops : p # o => p \in ops'
    BY <1>5 DEF PublishExecution
  <2>6. CASE \E g \in {0, generation[i]} : copies[i][g] # 0
    BY <2>1, <2>2, <2>3, <2>6
  <2>7. CASE \E p \in ops : p.job = i /\ p.gen \in {0, generation[i]}
    BY <2>1, <2>4, <2>5, <2>7
  <2> QED BY <2>1, <2>6, <2>7 DEF worker
<1>6. ASSUME NEW o \in ops, CommitTx(o) \/ Compensate(o) PROVE Covered(i)'
  <2>1. o.job \in Jobs /\ UNCHANGED <<generation, copies, worker, timers>> /\ ops' = ops \ {o}
    BY <1>6 DEF CommitTx, Compensate, IInv, TypeOK, Ops
  <2>2. o.job # i
    BY <1>6, <2>1 DEF Compensate, markQueuedFailed, requeueRevert, IInv, TypeOK
  <2> QED BY <2>1, <2>2 DEF worker
<1>7. ASSUME NEW o \in ops, PublishFails(o) \/ AbandonOp(o) PROVE Covered(i)'
  BY <1>1, <1>7 DEF PublishFails, AbandonOp
<1>8. ASSUME NEW w \in Workers, NEW j \in Jobs, NEW h \in Gens, Deliver(w, j, h) PROVE Covered(i)'
  <2>1. /\ pc[w] = "idle" /\ copies' = [copies EXCEPT ![j][h] = @ - 1]
        /\ pc' = [pc EXCEPT ![w] = "fence"] /\ wjob' = [wjob EXCEPT ![w] = j] /\ wgen' = [wgen EXCEPT ![w] = h]
        /\ UNCHANGED <<generation, ops, timers>>
    BY <1>1, <1>8 DEF Deliver, row
  <2>2. /\ pc' \in [Workers -> PC] /\ pc'[w] = "fence" /\ wjob'[w] = j /\ wgen'[w] = h
        /\ \A v \in Workers : v # w => pc'[v] = pc[v] /\ wjob'[v] = wjob[v] /\ wgen'[v] = wgen[v]
    BY <2>1 DEF IInv, TypeOK, PC
  <2>3. \A g \in Gens : (j # i \/ g # h) => copies'[i][g] = copies[i][g]
    BY <2>1 DEF IInv, TypeOK
  <2>4. generation[i] \in Gens /\ 0 \in Gens
    BY CoverTypes
  <2>5. CASE j = i /\ h \in {0, generation[i]}
    BY <2>1, <2>2, <2>5
  <2>6. CASE ~(j = i /\ h \in {0, generation[i]})
    <3>1. \A g \in {0, generation[i]} : copies'[i][g] = copies[i][g]
      BY <2>3, <2>4, <2>6
    <3> QED BY <2>1, <2>2, <3>1
  <2> QED BY <2>5, <2>6
<1>9. ASSUME NEW w \in Workers, NEW j \in Jobs, NEW h \in Gens, RetryFires(w, j, h) PROVE Covered(i)'
  <2>1. /\ timers' = [timers EXCEPT ![w][j][h] = @ - 1] /\ copies' = [copies EXCEPT ![j][h] = @ + 1]
        /\ UNCHANGED <<generation, ops, worker>>
    BY <1>1, <1>9 DEF RetryFires, row, Publish
  <2>2. generation[i] \in Gens /\ 0 \in Gens /\ copies \in [Jobs -> [Gens -> Nat]]
    BY CoverTypes
  <2>3. \A g \in Gens : copies[i][g] # 0 => copies'[i][g] # 0
    BY SMTT(60), <2>1, <2>2
  <2>4. j = i => copies'[i][h] # 0
    BY SMT, <2>1, <2>2
  <2>5. \A v \in Workers, g \in Gens : timers'[v][i][g] = timers[v][i][g] \/ (j = i /\ g = h)
    <3>1. OneTimer(w, j, h)
      BY <2>1, CoverTypes, TimerFires
    <3> QED BY <3>1 DEF OneTimer
  <2>6. CASE \E g \in {0, generation[i]} : copies[i][g] # 0 \/ \E v \in Workers : timers[v][i][g] # 0
    <3>1. PICK g \in {0, generation[i]} : copies[i][g] # 0 \/ \E v \in Workers : timers[v][i][g] # 0
      BY <2>6
    <3>2. g \in Gens /\ g \in {0, generation'[i]}
      BY <2>1, <2>2
    <3>3. copies'[i][g] # 0 \/ \E v \in Workers : timers'[v][i][g] # 0
      BY <2>3, <2>4, <2>5, <3>1, <3>2
    <3> QED BY <3>2, <3>3
  <2> QED BY <2>1, <2>6 DEF worker
<1>10. ASSUME NEW w \in Workers, StartJobFence(w) \/ SkipMessage(w) PROVE Covered(i)'
  <2>1. UNCHANGED <<generation, copies, ops, timers>>
    BY <1>10 DEF StartJobFence, Claim, SkipMessage, row
  <2>2. \A v \in Workers : v # w => pc'[v] = pc[v] /\ wjob'[v] = wjob[v] /\ wgen'[v] = wgen[v]
    BY <1>10 DEF StartJobFence, SkipMessage, GoIdle, IInv, TypeOK
  <2>3. ~(wjob[w] = i /\ wgen[w] \in {0, generation[i]})
    BY <1>10 DEF StartJobFence, SkipMessage, Claimable, Claim, startable, IInv, TypeOK
  <2> QED BY <2>1, <2>2, <2>3
<1>11. ASSUME NEW w \in Workers, RenewJobLease(w) \/ HandlerReturns(w) \/ FinishJob(w) PROVE Covered(i)'
  <2>1. UNCHANGED <<generation, copies, ops>> /\ pc[w] # "fence"
    <3>1. ASSUME FinishJob(w) PROVE generation' = generation
      BY <3>1 DEF FinishJob, WriteResult, SetRow, row, IInv, TypeOK
    <3> QED BY <1>11, <3>1 DEF RenewJobLease, HandlerReturns, FinishJob, row
  <2>2. \A v \in Workers : v # w => pc'[v] = pc[v] /\ wjob'[v] = wjob[v] /\ wgen'[v] = wgen[v]
    BY <1>11 DEF RenewJobLease, HandlerReturns, FinishJob, GoIdle, worker, IInv, TypeOK
  <2>3. \A v \in Workers, g \in {0, generation[i]} : timers[v][i][g] # 0 => timers'[v][i][g] # 0
    <3>1. generation[i] \in Gens /\ 0 \in Gens /\ timers \in [Workers -> [Jobs -> [Gens -> Nat]]]
      BY CoverTypes
    <3>2. CASE timers' = timers
      BY <3>2
    <3>3. CASE FinishJob(w) /\ StartTimer(w, wjob[w], wgen[w])
      <4>1. wjob[w] \in Jobs /\ wgen[w] \in Gens
        BY <3>3 DEF FinishJob, IInv, TypeOK
      <4>2. OneTimer(w, wjob[w], wgen[w]) /\ timers'[w][wjob[w]][wgen[w]] # 0
        BY <3>1, <3>3, <4>1, TimerStarts
      <4> QED
        <5> TAKE v \in Workers, g \in {0, generation[i]}
        <5>1. g \in Gens
          BY <3>1
        <5>2. CASE v = w /\ i = wjob[w] /\ g = wgen[w]
          BY <4>2, <5>2
        <5>3. CASE ~(v = w /\ i = wjob[w] /\ g = wgen[w])
          BY <4>2, <5>1, <5>3 DEF OneTimer
        <5> QED BY <5>2, <5>3
    <3> QED BY <1>11, <3>2, <3>3 DEF RenewJobLease, HandlerReturns, FinishJob
  <2> QED BY <2>1, <2>2, <2>3
<1>12. ASSUME NEW w \in Workers, FenceFails(w) \/ FinishFails(w) \/ WorkerCrash(w) PROVE Covered(i)'
  BY <1>1, <1>12 DEF FenceFails, FinishFails, WorkerCrash
<1>13. CASE UNCHANGED vars
  BY <1>13 DEF vars
<1> QED
  BY <1>2, <1>3, <1>4, <1>5, <1>6, <1>7, <1>8, <1>9, <1>10, <1>11, <1>12, <1>13
     DEF Next, ServiceStep, WorkerStep, Environment

\* A row that is not there has the generation it will be created with.
FreshRows == \A j \in Jobs : status[j] = "ABSENT" => generation[j] = initialGeneration

\* Of a worker's steps only the fence and the finish write a row's status or
\* generation.
LEMMA RowSpared ==
    ASSUME WorkerStep
    PROVE  \/ \E w \in Workers : StartJobFence(w) \/ FenceFails(w) \/ FinishJob(w) \/ FinishFails(w)
           \/ UNCHANGED <<status, generation>>
<1>1. ASSUME NEW w \in Workers, \/ SkipMessage(w) \/ RenewJobLease(w) \/ HandlerReturns(w) \/ WorkerCrash(w)
      PROVE  UNCHANGED <<status, generation>>
  BY <1>1 DEF SkipMessage, RenewJobLease, HandlerReturns, WorkerCrash, row
<1>2. ASSUME NEW w \in Workers, NEW j \in Jobs, NEW g \in Gens, Deliver(w, j, g) \/ RetryFires(w, j, g)
      PROVE  UNCHANGED <<status, generation>>
  BY <1>2 DEF Deliver, RetryFires, row
<1> QED
  BY <1>1, <1>2 DEF WorkerStep

LEMMA FreshRowsStep == ASSUME IInv, [Next]_vars, FreshRows PROVE FreshRows'
<1> SUFFICES ASSUME NEW i \in Jobs, status'[i] = "ABSENT"
             PROVE  status[i] = "ABSENT" /\ generation'[i] = generation[i]
  BY DEF FreshRows, initialGeneration
<1> DEFINE Same == status[i] = "ABSENT" /\ generation'[i] = generation[i]
<1>1. ASSUME NEW j \in Jobs, \/ CreateJob(j) \/ CreateScheduledJob(j) \/ cancelJob(j)
                             \/ requeueJob(j) \/ recoverJob(j)
      PROVE  Same
  BY ZenonT(60), <1>1 DEF CreateJob, CreateScheduledJob, cancelJob, requeueJob, recoverJob, SetRow, IInv, TypeOK
<1>2. ASSUME NEW o \in ops, CommitTx(o) \/ Compensate(o) PROVE Same
  BY <1>2 DEF CommitTx, Compensate, markQueuedFailed, requeueRevert, IInv, TypeOK, Ops
<1>3. ASSUME NEW w \in Workers, StartJobFence(w) \/ FenceFails(w) PROVE Same
  BY <1>3 DEF StartJobFence, FenceFails, Claim, SetRow, row, IInv, TypeOK
<1>4. ASSUME NEW w \in Workers, FinishJob(w) \/ FinishFails(w) PROVE Same
  BY ZenonT(60), <1>4 DEF FinishJob, FinishFails, WriteResult, SetRow, row, IInv, TypeOK
<1>5. CASE UNCHANGED <<status, generation>>
  BY <1>5
<1>6. ASSUME ServiceStep PROVE Same
  BY <1>1, <1>2, <1>5, <1>6
     DEF ServiceStep, claimDueScheduled, fireCron, PublishExecution, PublishFails, AbandonOp, row
<1>7. ASSUME WorkerStep PROVE Same
  BY <1>3, <1>4, <1>5, <1>7, RowSpared
<1>8. ASSUME Environment PROVE Same
  BY <1>5, <1>8 DEF Environment, LeaseRunsOut, LeaseLost, Expire, UnknownGeneration, row
<1> QED
  BY <1>5, <1>6, <1>7, <1>8 DEF Next, vars

\* A job becomes QUEUED with an operation that will publish it, or by a commit.
LEMMA BecomesCovered ==
    ASSUME IInv, [Next]_vars, FreshRows, NEW i \in Jobs, status[i] # "QUEUED", status'[i] = "QUEUED",
           \A o \in ops : o.job = i => ~CommitTx(o)
    PROVE  Covered(i)'
<1> USE DEF Covered
<1>1. ASSUME NEW j \in Jobs, CreateJob(j) \/ requeueJob(j) PROVE Covered(i)'
  <2>1. j = i
    BY <1>1 DEF CreateJob, requeueJob, SetRow, IInv, TypeOK
  <2>2. CASE CreateJob(j)
    <3>1. generation'[i] = initialGeneration
      BY <2>1, <2>2 DEF CreateJob, Fresh, FreshRows
    <3>2. \E o \in ops' : o.job = i /\ o.gen = initialGeneration
      <4>1. [kind |-> "create", job |-> i, gen |-> initialGeneration, step |-> "publish"] \in ops'
        BY <2>1, <2>2 DEF CreateJob, NewOp
      <4> QED BY <4>1
    <3> QED BY <3>1, <3>2
  <2>3. CASE requeueJob(j)
    <3>1. generation'[i] = generation[i] + 1
      BY <2>1, <2>3 DEF requeueJob, SetRow, IInv, TypeOK
    <3>2. \E o \in ops' : o.job = i /\ o.gen = generation[i] + 1
      <4>1. [kind |-> "requeue", job |-> i, gen |-> generation[i] + 1, step |-> "publish"] \in ops'
        BY <2>1, <2>3 DEF requeueJob, NewOp
      <4> QED BY <4>1
    <3> QED BY <3>1, <3>2
  <2> QED BY <1>1, <2>2, <2>3
<1>2. ASSUME NEW j \in Jobs, \/ CreateScheduledJob(j) \/ cancelJob(j) \/ recoverJob(j)
                             \/ LeaseRunsOut(j) \/ LeaseLost(j) \/ UnknownGeneration(j)
      PROVE  FALSE
  BY <1>2 DEF CreateScheduledJob, cancelJob, recoverJob, SetRow, LeaseRunsOut, LeaseLost, Expire,
              UnknownGeneration, row, IInv, TypeOK
<1>3. ASSUME NEW o \in ops, CommitTx(o) PROVE FALSE
  <2>1. o.job # i /\ o.job \in Jobs
    BY <1>3 DEF IInv, TypeOK, Ops
  <2> QED BY <1>3, <2>1 DEF CommitTx, IInv, TypeOK
<1>4. ASSUME NEW o \in ops, Compensate(o) PROVE FALSE
  BY <1>4 DEF Compensate, markQueuedFailed, requeueRevert, SetRow, row, IInv, TypeOK, Ops
<1>5. ASSUME NEW w \in Workers, StartJobFence(w) \/ FenceFails(w) PROVE FALSE
  BY <1>5 DEF StartJobFence, FenceFails, Claim, SetRow, row, IInv, TypeOK
<1>6. ASSUME NEW w \in Workers, FinishJob(w) \/ FinishFails(w) PROVE FALSE
  BY <1>6 DEF FinishJob, FinishFails, WriteResult, SetRow, row, IInv, TypeOK
<1>7. CASE UNCHANGED status
  BY <1>7
<1>8. ASSUME Next PROVE Covered(i)'
  <2>1. ASSUME ServiceStep PROVE Covered(i)'
    BY <2>1, <1>1, <1>2, <1>3, <1>4, <1>7
       DEF ServiceStep, claimDueScheduled, fireCron, PublishExecution, PublishFails, AbandonOp, row
  <2>2. ASSUME WorkerStep PROVE Covered(i)'
    BY <2>2, <1>5, <1>6, <1>7, RowSpared
  <2> QED BY <1>8, <2>1, <2>2, <1>2 DEF Next, Environment
<1> QED
  BY <1>7, <1>8 DEF vars

\* Nothing but a fault or a commit that comes after its own message strands a
\* QUEUED job: the service publishes before it answers or compensates, the
\* fence takes every delivery of the current generation of a QUEUED row, and a
\* timer that fires publishes (internal/jobs, internal/worker).
THEOREM StrandedOnlyByLoss == ServiceSpec => NotStranded
<1>1. ASSUME IInv, FreshRows, [Next]_vars, NEW j \in Jobs, Stranded(j)', ~Stranded(j), faults' = faults,
             \A o \in ops : o.job = j => ~CommitTx(o)
      PROVE  FALSE
  BY <1>1, StrandedNotCovered, StrandedNext, StaysCovered, BecomesCovered
<1>2. IInv /\ FreshRows /\ [Next]_vars =>
        [\A j \in Jobs : Stranded(j)' /\ ~Stranded(j) =>
           faults' # faults \/ \E o \in ops : o.job = j /\ CommitTx(o)]_vars
  BY <1>1
<1>3. Init => FreshRows
  BY ZenonT(60) DEF Init, FreshRows
<1>4. IInv /\ FreshRows /\ [Next]_vars => FreshRows'
  BY FreshRowsStep
<1> QED
  BY <1>2, <1>3, <1>4, Invariance, SideSteps, PTL DEF ServiceSpec, ServiceInit, NotStranded

-----------------------------------------------------------------------------
(* The CreateJob calls that carry one idempotency key.                      *)

\* A call that is about to publish or to compensate stored the row, a call that
\* was refused by the index finds one, and nothing else was ever published.
CallsOK ==
    /\ \A r \in Requests : callPc[r] \in {"publish", "markFailed"} => stored = r
    /\ \A r \in Requests : callPc[r] = "byKey" => stored # NoJob
    /\ \A r \in Requests : callPc[r] = "getJob" => existing[r] # NoJob
    /\ published \subseteq {stored}

KeyInv == Keys!TypeOK /\ Keys!SameKeySameJob /\ Keys!OwnersApart /\ CallsOK

\* Nothing is stored, published or answered yet.
LEMMA KeyInitially == Keys!Init => KeyInv
BY SMT DEF Keys!Init, KeyInv, Keys!TypeOK, Keys!PC, Keys!SameKeySameJob, Keys!OwnersApart, CallsOK

\* A step that leaves the row, the answers and the published jobs alone, and
\* moves one call to a place that promises nothing it does not have.
LEMMA CallMoves ==
    ASSUME KeyInv, NEW r \in Requests, NEW l \in Keys!PC,
           l \in {"publish", "markFailed"} => stored = r,
           l = "byKey" => stored # NoJob,
           l = "getJob" => existing'[r] # NoJob,
           Keys!Goto(r, l),
           redis' \in Requests \cup {NoJob},
           existing' \in [Requests -> Requests \cup {NoJob}],
           \A q \in Requests \ {r} : existing'[q] = existing[q],
           keyFaults' \in Nat,
           UNCHANGED <<stored, keyStatus, published, answer>>
    PROVE  KeyInv'
BY DEF KeyInv, Keys!TypeOK, Keys!SameKeySameJob, Keys!OwnersApart, CallsOK, Keys!Goto, Keys!CanAccessJob

\* A call ends with the stored job.
LEMMA CallReturns ==
    ASSUME KeyInv, NEW r \in Requests, stored # NoJob, Keys!CanAccessJob(r, stored),
           Keys!Return(r, stored),
           published' \subseteq {stored}, UNCHANGED <<redis, stored, keyStatus, existing, keyFaults>>
    PROVE  KeyInv'
<1>1. Keys!TypeOK'
  BY DEF KeyInv, Keys!TypeOK, Keys!Return, Keys!Goto, Keys!PC
<1>2. Keys!SameKeySameJob' /\ Keys!OwnersApart'
  BY DEF KeyInv, Keys!TypeOK, Keys!Return, Keys!SameKeySameJob, Keys!OwnersApart, Keys!CanAccessJob
<1>3. CallsOK'
  BY DEF KeyInv, Keys!TypeOK, Keys!Return, Keys!Goto, CallsOK
<1> QED BY <1>1, <1>2, <1>3 DEF KeyInv

\* Every step keeps the invariant.
LEMMA KeyPreserved == KeyInv /\ [Keys!Next]_(Keys!vars) => KeyInv'
<1> SUFFICES ASSUME KeyInv, [Keys!Next]_(Keys!vars) PROVE KeyInv'
  OBVIOUS
<1> USE RequestsAssumption
<1> keyFaults \in Nat /\ redis \in Requests \cup {NoJob}
    /\ existing \in [Requests -> Requests \cup {NoJob}]
  BY DEF KeyInv, Keys!TypeOK
<1>1. ASSUME NEW r \in Requests, Keys!SetNX(r) PROVE KeyInv'
  BY <1>1, CallMoves DEF Keys!SetNX, Keys!PC
<1>2. ASSUME NEW r \in Requests, Keys!GetKey(r) PROVE KeyInv'
  BY <1>2, CallMoves DEF Keys!GetKey, Keys!PC
<1>3. ASSUME NEW r \in Requests, Keys!ClaimFails(r) PROVE KeyInv'
  BY SMT, <1>3, CallMoves DEF Keys!ClaimFails, Keys!Fault, Keys!PC
<1>4. ASSUME NEW r \in Requests, Keys!getJob(r) PROVE KeyInv'
  <2>1. CASE stored # existing[r]
    BY <1>4, <2>1, CallMoves DEF Keys!getJob, Keys!PC
  <2>2. CASE stored = existing[r] /\ Keys!CanAccessJob(r, stored)
    <3>1. stored # NoJob /\ published' \subseteq {stored}
      BY <1>4, <2>2 DEF KeyInv, CallsOK, Keys!getJob
    <3> QED BY <1>4, <2>2, <3>1, CallReturns DEF Keys!getJob
  <2>3. CASE stored = existing[r] /\ ~Keys!CanAccessJob(r, stored)
    BY <1>4, <2>3, CallMoves DEF Keys!getJob, Keys!Fail, Keys!PC
  <2> QED BY <2>1, <2>2, <2>3
<1>5. ASSUME NEW r \in Requests, Keys!Reclaim(r) PROVE KeyInv'
  BY SMT, <1>5, CallMoves DEF Keys!Reclaim, Keys!Fault, Keys!PC
<1>6. ASSUME NEW r \in Requests, Keys!insertJob(r) PROVE KeyInv'
  <2>1. CASE stored # NoJob
    BY <1>6, <2>1, CallMoves DEF Keys!insertJob, Keys!PC
  <2>2. CASE stored = NoJob
    BY ZenonT(60), <1>6, <2>2 DEF KeyInv, Keys!TypeOK, Keys!PC, Keys!SameKeySameJob, Keys!OwnersApart, CallsOK, Keys!insertJob,
                      Keys!Goto, Keys!CanAccessJob
  <2> QED BY <2>1, <2>2
<1>7. ASSUME NEW r \in Requests, Keys!insertJobFails(r) PROVE KeyInv'
  <2>1. CASE stored' = stored /\ keyStatus' = keyStatus
    BY SMT, <1>7, <2>1, CallMoves DEF Keys!insertJobFails, Keys!Fault, Keys!PC
  <2>2. CASE stored = NoJob /\ stored' = r /\ keyStatus' = "QUEUED"
    BY SMTT(60), <1>7, <2>2 DEF KeyInv, Keys!TypeOK, Keys!PC, Keys!SameKeySameJob, Keys!OwnersApart, CallsOK, Keys!insertJobFails,
                      Keys!Fault, Keys!Goto, Keys!CanAccessJob
  <2> QED BY <1>7, <2>1, <2>2 DEF Keys!insertJobFails
<1>8. ASSUME NEW r \in Requests, Keys!jobByIdempotencyKey(r) PROVE KeyInv'
  <2>1. CASE Keys!CanAccessJob(r, stored)
    <3>1. stored # NoJob /\ published' \subseteq {stored}
      BY <1>8 DEF KeyInv, CallsOK, Keys!jobByIdempotencyKey
    <3> QED BY <1>8, <2>1, <3>1, CallReturns DEF Keys!jobByIdempotencyKey
  <2>2. CASE ~Keys!CanAccessJob(r, stored)
    BY <1>8, <2>2, CallMoves DEF Keys!jobByIdempotencyKey, Keys!Fail, Keys!PC
  <2> QED BY <2>1, <2>2
<1>9. ASSUME NEW r \in Requests, Keys!LookupFails(r) PROVE KeyInv'
  BY SMT, <1>9, CallMoves DEF Keys!LookupFails, Keys!Fault, Keys!PC
<1>10. ASSUME NEW r \in Requests, Keys!PublishExecution(r) PROVE KeyInv'
  <2>1. stored = r /\ stored # NoJob /\ published' \subseteq {stored}
    BY <1>10 DEF KeyInv, CallsOK, Keys!PublishExecution
  <2> QED BY <1>10, <2>1, CallReturns DEF Keys!PublishExecution, Keys!CanAccessJob
<1>11. ASSUME NEW r \in Requests, Keys!PublishFails(r) PROVE KeyInv'
  BY SMTT(60), <1>11 DEF KeyInv, Keys!TypeOK, Keys!PC, Keys!SameKeySameJob, Keys!OwnersApart, CallsOK, Keys!PublishFails, Keys!Fault,
               Keys!Goto, Keys!CanAccessJob
<1>12. ASSUME NEW r \in Requests, Keys!markQueuedFailed(r) PROVE KeyInv'
  BY SMTT(60), <1>12 DEF KeyInv, Keys!TypeOK, Keys!PC, Keys!SameKeySameJob, Keys!OwnersApart, CallsOK, Keys!markQueuedFailed, Keys!Fault,
               Keys!Goto, Keys!CanAccessJob
<1>13. ASSUME NEW r \in Requests, Keys!releaseIdempotencyKey(r) PROVE KeyInv'
  BY SMTT(60), <1>13, CallMoves DEF Keys!releaseIdempotencyKey, Keys!Fail, Keys!Fault, Keys!PC
<1>14. ASSUME NEW r \in Requests, Keys!Crash(r) PROVE KeyInv'
  BY SMTT(120), <1>14, CallMoves DEF Keys!Crash, Keys!Fail, Keys!Fault, Keys!PC
<1>15. CASE Keys!KeyExpires
  BY SMT, <1>15 DEF KeyInv, Keys!TypeOK, Keys!SameKeySameJob, Keys!OwnersApart, CallsOK, Keys!KeyExpires, Keys!Fault, Keys!CanAccessJob
<1>16. CASE Keys!JobRuns
  BY <1>16 DEF KeyInv, Keys!TypeOK, Keys!SameKeySameJob, Keys!OwnersApart, CallsOK, Keys!JobRuns, Keys!CanAccessJob
<1>17. CASE UNCHANGED Keys!vars
  BY <1>17 DEF KeyInv, Keys!TypeOK, Keys!SameKeySameJob, Keys!OwnersApart, CallsOK, Keys!vars, Keys!CanAccessJob
<1> QED BY <1>1, <1>2, <1>3, <1>4, <1>5, <1>6, <1>7, <1>8, <1>9, <1>10, <1>11, <1>12, <1>13,
           <1>14, <1>15, <1>16, <1>17 DEF Keys!Next

\* The invariant holds in every state of every run of CreateJob calls.
THEOREM KeyInvariance == ServiceSpec => []KeyInv
BY KeyInitially, KeyPreserved, SideSteps, PTL DEF ServiceSpec, ServiceInit

\* Same key, same job, whatever happens to the claim in Redis.
THEOREM OneJobPerKey == ServiceSpec => []SameKeySameJob
BY KeyInvariance, PTL DEF KeyInv, SameKeySameJob

\* A call never returns the job of another owner.
THEOREM OwnJobsOnly == ServiceSpec => []Keys!OwnersApart
BY KeyInvariance, PTL DEF KeyInv

\* No two jobs of one key are published.
THEOREM OnePublish == ServiceSpec => []PublishedOnce
<1>1. KeyInv => PublishedOnce
  BY DEF KeyInv, CallsOK, PublishedOnce, Keys!PublishedOnce
<1> QED BY <1>1, KeyInvariance, PTL
=============================================================================
