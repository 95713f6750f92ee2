# A formal model of RAVEN

RAVEN is a job platform: clients create jobs through a gateway, a jobs service
keeps them in Postgres and publishes them on a broker of its own, workers claim
and run them, and a sweeper takes over the jobs whose worker is lost. This
directory holds TLA+ modules that model its parts, configurations that
model-check them with TLC, and theorems checked by the TLAPS proof system.
Every definition that models code is a translation of it; the `map` of
`PROJECT.json` says of which lines.

Contents: 1 the system, 2 the modules and how they correspond to the code,
3 what TLC checks, with bounds and fairness, 4 what is proved and how, 5 what is
only model-checked, 6 what is not modelled, 7 where code and comments disagree.

## 1. The system

| Part | State | What makes it hard | Module |
|------|-------|--------------------|--------|
| jobs service, dispatcher, sweeper (`services/jobs`) | the `jobs` rows: status, execution generation, attempts, lease | a row and a message that no transaction spans; zombies, late writes, lost or repeated messages, a crash anywhere | `JobLifecycle` |
| idempotency keys (`idempotency.go`) | a key in Redis, a unique index in Postgres | one fact kept in two stores | `IdempotentCreate` |
| cron (`cron*.go`, `sched_server.go`) | schedules, open transactions with row locks | several replicas, publishes inside a transaction, calendar arithmetic | `Schedules` |
| worker (`services/worker`) | an execution semaphore with priorities, retry timers, a registry entry | a grant that meets a cancellation, starvation, a stop while timers fire | `WorkerPool` |
| consumer groups (`internal/broker/group`, `client/consumer.go`) | members, generation, assignment, committed offsets | members of an old generation, expiry, offsets written outside the lock | `ConsumerGroup` |
| broker log (`internal/broker/storage`) | segments, indexes, swap files, a marker | a crash between two file operations, appends during a rewrite | `PartitionLog`, `AbstractLog` |
| replication (`internal/broker/replication.go`, `cluster`) | logs of the replicas, progress, committed offset | lost and late answers, truncation, restarts that forget the marks | `Replication` |
| broker connection (`internal/broker/client`, `server`) | sockets, pending calls, batches, handlers, response queues | answers after a timeout, a connection replaced while its reader runs, shutdown with requests under way | `BrokerConnection` |
| gateway and audit log (`services/gateway`, `internal/audit`) | breaker, rate-limit buckets, requests under way, the audit buffer | a timeout that answers before the handler, clocks, a stop with events in the buffer | `GatewayEdge` |
| sessions (`services/auth`, `services/users`, `internal/auth`, gateway cache, SDKs, CLI) | token pairs, sessions, denylist, cache, signing secrets | two refreshes of one token, a lost answer, stale verdicts, a rolling change of the secret | `Sessions` |
| websocket service (`services/websocket`) | connections, rooms, goroutines, presence keys | evictions that race, a send to a connection being closed, a drain | `WebsocketHub` |

The parts meet in few places. The jobs service and the workers share the `jobs`
rows and the broker's topics: `JobLifecycle` has both ends, `JobsService` puts
the calls of `CreateJob` with an idempotency key beside it, and `Schedules`
extends `WorkerPool`, so that a job fired by the cron loop is followed into the
worker. Workers consume as members of a group: `ConsumerGroup` has the broker's
and the client's side and as much of the log as they depend on. The broker
replicates its log (`Replication`), keeps it on disk (`PartitionLog`) and serves
it (`BrokerConnection`). The gateway stands between the clients and the services:
`Sessions` composes clients, gateway, auth service and users service for what
concerns credentials, `GatewayEdge` the path of any request to one upstream.

## 2. The modules

Each component has a module with its state, one action per operation, and its
properties; an `MC...` module with the scenarios TLC checks; and five have a
`...Proofs` module. Operators marked *Mutant* in a comment are plausible bugs and
part of no specification. Each of them, put in the place of the definition below
it, violates a property, which shows that the property depends on that code.

Three conventions are used throughout. One SQL statement or transaction, one
Redis command, one critical section, one file operation is one step, and anything
else may happen between two steps. Faults are steps too, of a kind named in
`FaultKinds` (or the `kinds` of a scenario), at most `MaxFaults` of them. Where a
module has `Modes`, a mode is a deployment or scenario chosen in the initial state
and kept: which parts there are, what callers may do, which faults may happen.

### JobLifecycle

A job row is four functions of the job id: `status`, `generation` (the
`execution_generation` fencing token), `attempts` and `lease` (`none` for NULL,
`live`, `expired`). Messages are counted per job and generation (`copies`);
generation 0 is a message whose producer did not know the generation. An
operation of the jobs service that has written its row and still has to publish
is a record of `ops`; the dispatcher and the cron loop hold a transaction open
while they publish, and their row becomes visible at `CommitTx`. A worker slot
goes from `idle` to `fence` (message handed over, offset committed), `run`
(claimed, `StartJobFence`) and, once the handler has returned, `success`, `failed`
or `permanent`; then `FinishJob` writes the result. A retry that waits for its
backoff, and a message whose claim failed, sit in `timers`. `recoverJob` is the
sweeper.

Faults: a publish fails after 0, 1 or all of its topics (`publish`); the service
crashes or the request is cancelled inside an operation (`service`); an offset
commit is lost (`redeliver`); a claim or finish write returns an error, whether or
not it was committed (`db`); a worker is killed (`crash`); a lease runs out
although somebody still acts on the job (`expire`); a message without a generation
is on the topic (`unknown_generation`). A lease runs out freely when nobody is
left to act; that is what the sweeper is for.

Left out: payloads, events on Redis, DLQ copies, metrics, `job_attempts` rows
(nothing reads them back into a decision). A batch of the dispatcher is modelled
one job at a time; `AbandonOp` covers the rollback caused by another job of it.

### IdempotentCreate

Calls of `CreateJob` with the same key, each with a job id of its own. `redis` is
the job id under `idem:<key>`, `stored` the row that the unique index lets have
the key. `pc[r]` follows `CreateJob`: claim (`SetNX`), read the claim, look the
job up, drop a claim without a row (`Reclaim`), insert, fall back to the row that
has the key, publish, mark failed, release the key. Every Redis and SQL command
may fail, with or without effect; a call may be cancelled or crash between any
two; the key may expire. Left out: validation, the job's content, and everything
that happens to the job after it was picked up (`JobLifecycle`).

### JobsService

`JobLifecycle` and an instance `Keys` of `IdempotentCreate`, side by side: one
specification for the life of the jobs and for the calls that create one under a
key. The two share no variable, since a key decides only whether a row is created;
`side` names the half TLC explores in a behaviour, so that the state space is the
sum of the two and not the product. The runs and the theorems are about this
specification.

### WorkerPool and Schedules

`WorkerPool` is one worker process. `lanes` are the topics with the messages not
yet committed, `consumer` where the consumer of each topic is (`Handle` waits for
a slot inside it), `free`, `waiters` and `granted` are `prioSem`: a permit goes to
the waiter with the best rank after aging (`effRankLocked`, `grantNextLocked`),
and a waiter whose context ends, at a stop or at a rebalance, while a permit is
being handed to it passes it on (`Cancel`); after a rebalance its lane queues again
with its age lost. `running` and `handling` are the goroutines in `execute`; `timers` the
retries that wait, `tracked` those of them that `Worker.timers` knows (it is keyed
by job: the second message of a job takes the place of the first). `worker`
follows `Run` from boot to the end: consumers return, the drain with its deadline,
`flushRetries`, `producer.Close`, the registry entry. The topic list
(`ParsePriorityTopics`) is computed as the code does. `WebhookHandler` and
`outcome` give what an attempt returns and what is recorded of it. A message may be
poison, its type unknown, its row not yet committed, its claim or result refused by
the database, its lease lost (`execute`). `lost` are the messages that were turned
away in one of the ways the code provides for. Offsets are kept as far as a message
is committed after it was handed over; batches, failed commits and redelivery are
`ConsumerGroup`'s.

`Schedules` adds the cron side. Expressions are five fields of parts;
`parseCronField`, `matchesDay` and `CronNext` are the code's search over days,
hours and minutes, on a calendar that is a parameter (the days of a year, the
length of a week, a day, an hour). `sched` is the transaction of a pass of each
replica: due rows taken `FOR UPDATE SKIP LOCKED` in order and up to a batch, then
one `fireCron` after the other that stages its changes and publishes, then the
commit (`withTx`). RPCs create and delete schedules; a row may be damaged; a
publish may fail, a transaction may abort, a replica may die in a pass. What is due
is decided by the clock of the database (`now`), the next run is computed from that
of the replica (`Clock`), which a scenario sets ahead or behind.

### ConsumerGroup

One group on one topic. The coordinator is `members`, `generation`,
`assignments`; the assignor is the source's arithmetic (`Rank`, `RangeStart`,
`rangeAssign`). A consumer is `out` (not joined), `poll`, `handle` (its handler
has a batch), `commit` (waits for the answer) or `down`; its view (`cgen`,
`cparts`, `pos`) may be stale. `COMMIT_OFFSET` is two steps, `CheckCommit` under
the coordinator's lock and `Set` in the offset store after it; a request may
outlive the call that sent it. `Append` and `hwm` are what the group sees of a
partition. Faults: a call fails at the client before or after it took effect, a
handler fails, a consumer stops, dies or stalls, the broker restarts (the members
are forgotten, the offsets are not), the machine loses power (records that were
not fsynced are gone). Left out: several topics per member, limits on groups and
members, compaction of the offset file.

### PartitionLog and AbstractLog

A partition is its directory (`logs`, `idxs` and the swap files of a compaction,
the `_compacted` marker) and what the process keeps in memory (`segs`,
`nextOffset`, `dirty`, `dirtySegStart`). A segment is a set of records, a record an
offset and a key. `pc` follows the one cleaner of the broker through a sweep:
`ApplyRetention`, then `Compact` in its four phases; the swap of phase 4 is one
step per file operation (`RemoveLog`, `RemoveIndex`, `RenameLog`, `RenameIndex`).
`Kill` may come between any two steps, `KillInAppend` within an append.
`PowerLoss` also takes records that were not fsynced, in each file from some
record on. The next start runs `resolveSwapFiles` and `OpenPartition`; either may
refuse (`up = "failed"`). Which of retention, compaction and replication (then
`TruncateTo`) apply is the `policy` of the topic.

`AbstractLog` is what a partition promises: records, the next offset, the durable
prefix. A record leaves it by retention, by truncation, because a later one has
its key, or in a power loss if it was not durable. `Expire` may take any prefix
and `Truncate`, `Jump` and `Lose` are as free as the code's callers make them, so the
refinement says nothing on how much retention or a truncation takes at either end:
that is for `GroupKeepsPlace`, `SurvivesCrash` and `LogMatching`. What it says is
that nothing goes in the middle, nothing comes back or is renumbered, and that a
killed process and the steps of a compaction do not show.

Left out: failing file operations, the content of index files (checked or rebuilt
at open), timestamps (age and size decide nondeterministically how much retention
deletes), the flush interval, and record encoding: a torn record is a record that
is not there. Two combinations break the promise and are in no scenario:
compaction of a replica that truncates its log at the same time, and a power loss
of a replica that had closed segments unsynced.

### Replication

One partition: the leader of a static ring (`AssignmentFor`) and its followers.
`log[n][o]` is the record node `n` holds at an offset, `first` and `hwm` delimit it. A
`REPLICATE` call is sent (`followOnce`), handled (`handleReplicate` notes the
follower's progress, then `maybeAdvanceCommit` in a step of its own), answered and
applied (`AppendReplica`, or `applyTruncate`); its follower may give up in between and
the leader still handles what it has read (the `late` call). `committed` is the mark
of each node, `progress` the leader's `followerOffsets`, `sent` (a history variable)
how far answers to a follower, or its own requests, have gone, `alive` what the
leader's membership says of a follower. The cleaner runs on every node; an offset it
removed is `Removed`, which is not the same as never written. Producers append,
advance, and with `acks=all` wait for the mark or time out. Topics appear on one node
and spread (`syncTopics`). Faults: a call that fails, silence, a node that leaves, a
crash with or without loss of what was not fsynced, retention, compaction. Membership
is kept as whether a node counts as alive, which is all this code asks of it.

### BrokerConnection

A producer, its reconnecting transport and the broker's server. A call is named by
its first message; the messages that share it (a micro-batch) are its `riders`.
`pc` follows a call through `ensureConnected`, `authHandshake`, `install`,
`register`, `write` and the wait; connections are numbered, one for each dial. At
the other end a connection has a read loop (`serve`), handlers (`handling`), a
queue of responses and its writer. The shutdown is `Server.Run` and then
`Broker.Run`: drain, the deadline that closes the connections, the second deadline,
`closeWriters`. `applied` counts how often the backend executed a message. Faults:
a cut connection, a stalled one, a context that ends, idling, a handler slower than
the deadlines, a backend error, `Close`, shutdown. Of the requests only AUTH and
PRODUCE are followed; in the pre-AUTH state every frame goes through
`handlePreAuth`.

### GatewayEdge

A request is two goroutines: the outer one reads the body of a state-changing request
(`readBody`), the inner one runs the chain (`authenticate`, `authorize`, `rateLimit`,
the upstream `call` with its retries; a handler may refuse the body or panic), the
outer one answers the client with what the inner one wrote, or with 503 when the
context ends first, and emits the audit event. `breaker` is the circuit breaker of
each replica, `memory`, `shared` and `circuit` are the rate limiter (in process, in
Redis, and the time it avoids Redis after an error), `writer`, `rows` and `dropped`
the audit trail, `pager` an administrator who reads it page by page, `srv` the
shutdown, which gives up after its deadline on requests still reading their body
(`late`). Time is counted in ticks: deadlines, cool-down, refill. A handler is its
method, its upstream call and whether that may be repeated (`Table`); health probes go
through the same path with a context of their own.

### Sessions

The token pairs of one account. A session is the number of its row and stands for
its refresh token and for the access token minted with it; `root` is the login it
descends from. `th` is what each thread of a client is doing: the three SDKs and
the CLI differ in who may refresh when (`refreshNowGo`, `refreshNowJS`,
`refreshNowPython`; the CLI never does), in the retry of a 401 and in `logout()`.
The auth service reads a row `FOR UPDATE`, mints, and commits in steps of its own;
a spent token revokes what its statement sees (`snap`), unless that transaction
fails and is rolled back. The gateway asks or takes a
verdict from its cache; the denylist in Redis fails open. `secrets`, `pod` and
`script` are a rotation of `JWT_SECRET` over several replicas. `bad` counts, for the
property, for how long a credential has been bad; for a token on the denylist it
starts again when Redis goes down, because the code then takes the token for good.

### WebsocketHub

A goroutine is the sequence of operations it has still to do (`todo`): one operation
is one critical section of the hub, one Redis command or one close. A connection's
goroutine is its HTTP handler first and its `readPump` then; a node's is its Redis
subscriber first and then `Hub.Shutdown`. `registered`, `rooms` and `total` are the
hub's maps and count, `reader`, `writer` and `refresher` the pumps, `key` the presence
keys, `inbox` the subscription of a node. A job event is sent to the jobs room and, in
a frame of its own, to the personal room of its owner (`ToOwner`). `Starts` are the
placements and memberships a scenario begins with. Faults: a client goes away, a queue
is full, a Redis command or the subscription fails, a node is stopped or killed. Left
out: the announcements of presence, the content of frames.

## 3. What TLC checks

| Run | Checks | Shows |
|-----|--------|-------|
| `jobs` | `SoleOwner`, `AlwaysSweepable`, `ZombiesWriteNothing`, `FinalIsFinal`, `NotStranded`, `Recovers`, `SameKeySameJob`, `PublishedOnce` | the fencing token does its work under any two faults, a claimed job ends, a QUEUED job is stranded only by a loss; one key is one job and one execution, whichever of the two stores is used |
| `job_stranded` | `NeverStranded` | violated: workers killed between dispatch and claim, once for each copy of a message, leave a job nobody looks at |
| `group` | `SoleConsumer`, `NothingSkipped`, `EverythingHandled` | current consumers never share a partition; at least once; every record is handled |
| `log_keeps` | `ReadsEverything`, `SurvivesCrash`, `GroupKeepsPlace`, `KeepsLog` | the files, the cleaner and recovery implement `AbstractLog`; a group keeps its place but for three exceptions |
| `replication` | `LogMatching`, `CommittedWasSent`, `CommittedOnlyGrows`, `CatchesUp` | replicas agree and have no holes, committed means sent to a majority, marks only grow, followers catch up |
| `acked_lost` | `AckedSurvives` | violated: a record confirmed with acks=all is gone after one power failure |
| `broker_connection` | `AppliedOnce`, `BackendOutlivesHandlers`, `EveryCallReturns` | no request is executed twice or without its grant, success is true, shutdown waits, no call hangs |
| `sessions` | `OneLivePerLogin`, `NoFalseAlarm`, `CredentialsHonoured`, `AlarmEndsLogin`, `EveryOpReturns` | rotation of refresh tokens, reuse detection, the life of bad credentials, the window of a secret rotation |
| `gateway` | `OneProbe`, `UpstreamSpared`, `AuditTrail`, `GatewayStops` | one probe, no repeated mutation, the rate budget, an audit trail that says what the client was told and loses nothing uncounted, a stop that ends |
| `breaker_stuck` | `BreakerRecovers` | violated: a probe whose caller goes away keeps the breaker from closing |
| `dispatch` | `SemaphoreSound`, `WorkAccounted`, `NextIsFirst`, `FiresOnce`, `EverybodyServed` | no permit is lost, no retry or message forgotten but in the ways the code provides for, no slot fires twice, nobody waits for ever |
| `realtime` | `TotalCounts`, `AtMostOnce`, `TornDown`, `KeyFollows` | counts, deliveries, teardown and presence |

### Bounds

- *Jobs.* One job: no action reads or writes two jobs and no property relates two.
  Two worker slots give an owner and a zombie, two attempts a first run, a retry and
  an exhausted job, four generations a requeue and two takeovers, two faults a crash
  during the recovery from another one.
- *Keys.* Three calls: a holder, one that finds its claim, one that drops it; the
  third has another owner.
- *Group.* Two members, two partitions: a rebalance that moves a partition and one
  that does not. One record per partition can be skipped and repeated. An uneven
  split and a rewind need more; the theorems cover the first.
- *Log.* Four offsets in segments that rotate after one record (a batch of two makes
  a longer one): two closed segments to compact, one with survivors and one
  without, beside the active one. One key and keyless records tell superseded
  records from others. One fault, at any file operation.
- *Replication.* Two nodes with three records, where the follower is the other half
  of the quorum; three nodes, where either follower makes it. One fault of each
  scenario's kinds. `acked_lost` has three nodes and one crash.
- *Connection.* Two or three messages over one or two dials, one slot for requests
  and one for connections, so that every limit is met. With one slot answers come
  late but not out of order; `ExecutedOnce` is for every number of slots.
- *Sessions.* Two clients, up to two threads each, five sessions, an access token of
  two ticks; ten scenarios, each with the operations that interfere.
- *Gateway.* Two requests at a time, two replicas, a breaker that opens after two
  failures, a bucket of one token, an audit buffer of one event, pages of one row.
  Which scenario has outages, a shared key, callers without token, permission or good
  body, a paging administrator or a stop is in `MCGatewayEdge`.
- *Dispatch.* Three topics, up to two slots, four jobs; a year of three days, a week
  of two, days of two hours of two minutes; eight expressions with every form of
  field, one that never comes and one that does not parse. Replicas on time, ahead
  and behind. A stop, a kill, a rebalance; poison and unknown types.
- *Websocket.* Two tabs of one user on one replica or on two, one message, two
  frames, one fault, from the placements and rooms of `Starts`.

The theorems of section 4 lift these bounds for the properties they name.

### Fairness

Weak fairness, and only for what the code schedules by itself: loops run for as
long as their process does, goroutines that can run do, handlers and calls run
under a timeout, timers and tickers fire, leases and keys run out with time, a
request at the broker is answered. Nobody has to call an API, produce, join, close
or restart, no fault has to happen, and a process that died need not come back.
In `GatewayEdge` requests keep coming, because only they can close a breaker. In
`Schedules` time passes for waiters (`age`), since aging is what keeps the least
urgent topic alive.

### Deadlock

The bounds on jobs, records, calls and faults make every model stop in the end, as
the programs do when nothing is left to do, so deadlock is not checked. Where being
stuck would be wrong, a liveness property says so (`Recovers`, `EverythingHandled`,
`EveryCallReturns`, `EveryOpReturns`, `TornDown`, `GatewayStops`,
`EverybodyServed`, `CatchesUp`).

## 4. What is proved

Each theorem holds for every value of the constants that satisfies the assumptions
its module names, and for every sequence of faults. The argument has the same
shape everywhere: an invariant `IInv` that is inductive, one lemma for each action
that the action preserves it, a lemma `Preserved` or `Invariance` that puts them
together, and the properties as consequences. Action properties follow from the
invariant and one step.

**`JobsServiceProofs`**, all of `ServiceSpec`: `Typing`, `Fencing` (`SoleOwner`),
`Attempts`, `Leases` (`AlwaysSweepable`), `Finality` (`FinalIsFinal`), `Zombies`
(`ZombiesWriteNothing`), `StrandedOnlyByLoss` (`NotStranded`), for every set of
jobs and workers, every `max_attempts` and number of generations. `SoleOwner` is
not inductive: that a claim finds no owner needs `OwnersOK` (a worker that holds the
current generation implies PROCESSING, and carries the attempt number that the
row's `attempts` precedes), and that a commit or a compensation meets the right row
needs `OpsOK` (an operation in flight and the row it is about). `StrandedOnlyByLoss`
goes through the actions and names for each who will act on the job after it. For
the instance `Keys`: `OneJobPerKey` (`SameKeySameJob`), `OwnJobsOnly`, `OnePublish`
(`PublishedOnce`), for any number of calls and owners. The strengthening `KeyInv`
says, by where a request is, whether it has inserted the row. `SideSteps` splits a
step of the service into one of either half.

**`ConsumerGroupProofs`**: `TypeCorrect`, `AtLeastOnce` (`NothingSkipped`, unless
machines lose power), `OneOwner` (`SoleConsumer`), for any finite set of members.
The assignor's arithmetic is proved first: its ranges lie within the topic
(`RangesWithin`) and do not meet (`RangesDisjoint`). `SInv` carries "handled" along
with everything that leads to a commit (a position, a batch, a request at the
broker); `OInv` ties the view of a current consumer to the assignment.

**`ReplicationProofs`**: `TypeCorrect`, `LogsMatch` (`LogMatching`), `MarksOnlyGrow`
(`CommittedOnlyGrows`), `CommittedIsSent` (`CommittedWasSent`), for every cluster,
replication factor and ISR minimum, with cleaners on every node. `IInv` says what an
answer in flight carries, that a log is whole between its ends but for what was
compacted, and that no follower is ahead of a leader that lost nothing. For
`CommittedIsSent` a second invariant, `Sends`, says that the leader counts for a
follower no more than was sent to it, and that every mark in the system, also one
inside an answer, is below offsets sent to a majority. No step takes back what was
sent, so it survives crashes and lost answers; what does not is in `acked_lost`.

**`BrokerConnectionProofs`**: `TypeCorrect`, `ExecutedOnce` (`AppliedOnce`),
`ClosedUnderNobody` (`BackendOutlivesHandlers`), for every set of messages and
dials. A request is in one place only (`Sole`), is there only before it was
executed, and its success only after (`Wired`, `Executed`); what remains of a
connection once `Run` has returned cannot move (`Still`).

**`WebsocketHubProofs`**: `TypeCorrect`, `CountsRight` (`TotalCounts`),
`DeliveredOnce` (`AtMostOnce`), for every set of replicas, connections, rooms and
messages; an owner in the jobs room gets a job event in two frames, one for each room,
and neither twice. `Placed` says where in a goroutine's sequence the operations stand
that must not be lost or repeated; `Sole`, that at most one way is left for a message
to reach a replica.

## 5. What is only model-checked

Liveness under fairness is beyond this prover: `Recovers`, `EverythingHandled`,
`TornDown`, `KeyFollows`, `CatchesUp`, `EveryCallReturns`, `EveryOpReturns`,
`GatewayStops`, `EverybodyServed`.

The properties of `PartitionLog` are checked on its topics only: the refinement
`KeepsLog`, and `ReadsEverything`, `SurvivesCrash` and `GroupKeepsPlace`.

The properties of `GatewayEdge` (`OneProbe`, `UpstreamSpared`, `AuditTrail`), of
`Sessions` (`OneLivePerLogin`, `NoFalseAlarm`, `CredentialsHonoured`,
`AlarmEndsLogin`) and of `WorkerPool` and `Schedules` (`SemaphoreSound`,
`WorkAccounted`, `NextIsFirst`, `FiresOnce`) are checked on their scenarios only.

## 6. What is not modelled

`PROJECT.json` lists every part of the repository. Not modelled are the SDKs' and
CLI's plumbing apart from tokens, metrics, tracing, logging, configuration, the
generated protocol code, the dashboard and the deployment files: they hold no state
that two steps could disagree about, or none that this directory's properties are
about. Of the modelled parts, section 2 names what each model leaves out.

Properties whose exceptions a reader should know:

- `CommittedWasSent` says what the mark tells, and no more: records were sent to a
  majority, not that they are there (section 7).
- `LogMatching` compares logs while the leader has lost nothing. Offsets carry no
  epoch: after a power failure of the leader that loses its tail, a follower may keep
  other records at the same offsets (`internal/broker/replication.go:290`).
- `NothingSkipped` does not exclude that a commit of an old generation, between its
  check and its write (`coordinator.go:331`), takes the offset back; records are then
  handled again, which at-least-once delivery allows.
- `NotStranded` excepts, besides faults, a message that was skipped because its job's
  row was not yet visible (`scheduler.go:99`).
- `GroupKeepsPlace` names three exceptions: a sweep that took its snapshot before the
  first commit of a group, or before the group moved back (`cleanup.go:68`), and a
  compaction that deletes a leading segment without survivors (`compaction.go:290`).
- `TornDown` and `TotalCounts` are about `Hub.users`; a frame read before an eviction
  may join a room after it, and that entry in `Hub.rooms` stays (`hub.go:142-155`).
- `OneLivePerLogin` excepts a `logout()` that a refresh of the same client overlaps,
  also one that its own request sets off; `AlarmEndsLogin` excepts a rotation of the
  same login that overlaps the statement, and a reuse whose transaction failed.
- `CredentialsHonoured` bounds a bad credential by `authCacheTTL` after the end of a
  validation that was under way, and starts again when Redis goes down.
- `RateBudget` (in `UpstreamSpared`) gives a replica whose call of Redis failed, also
  by its client going away, a budget of its own.
- `AuditTrail` and `GatewayStops` except requests that the shutdown gave up (`late`).
- `FiresOnce` compares slots while no replica's clock is behind the database's, and
  says that the message of a committed job was published, not that the job runs: a
  worker may have taken the message before the commit and found no row.
- `EveryCallReturns` excepts a connection whose response queue is jammed by a peer that
  reads nothing (`server.go:384`).
- `WorkAccounted` excepts the messages in `lost`: the broker refused them, the producer
  was closed before a timer that had already fired could publish (`worker.go:649`), or
  they were taken before the row of their job was committed.

## 7. Where code and comments disagree

- `job_stranded`: `docs/failure-scenarios.md:73` says of a worker that died after
  dispatch "recovered by the sweeper, as above". `Handle` lets the offset commit before
  the claim (`worker.go:178`); when both copies of a message are lost that way, a QUEUED
  row remains without a lease, which the sweeper does not look at, and no message.
- `acked_lost`: `internal/broker/client/producer.go:85-86` says that with `acks=all` "the
  record is then committed and survives any single-replica failure", and
  `internal/broker/protocol/replication.go:21-22` that records below the mark "are on a
  quorum and will never be rolled back" (also `broker.go:534-536`). `handleReplicate`
  (`replication.go:323`) counts for a follower the records it is about to send. If the
  leader loses power before the follower has appended them, no replica has a record
  that was confirmed.
- `breaker_stuck`: `services/gateway/breaker.go:3` says that after a cool-down one probe
  is let through and that the breaker closes if it succeeds. A call whose caller went
  away is not reported to the breaker (`grpc_client.go:119`); if it was the probe, the
  breaker stays half-open and rejects every later call.

Others have no run of their own: the properties hold with the exceptions of section 6,
which are what these sentences leave out.

- `broker.go:758-761`: a committed group "can never be stranded on OFFSET_OUT_OF_RANGE
  by a cleanup sweep". Compaction does not look at committed offsets.
- `docs/security/auth.md:163-166`: presenting a rotated-out token revokes all sessions of
  the user. A failed audit insert rolls the revocation back, and a session minted by an
  overlapping transaction is not seen.
- `authn.go:22-24`, `gateway.md:195`: a revoked token is served for at most 30 s. A
  validation under way adds its own time.
- `ratelimit.go:6-9`: one shared budget per key. A client that disconnects during the
  call of Redis moves its replica to a bucket of its own for the cool-down.
- `docs/audit.md:50`: an event says that "the change did not happen" when the request
  failed. After a timeout the handler goes on and may still succeed.
- `worker.go:647-648`: the flush is there "so a graceful restart never strands a RETRYING
  job" (also `worker.go:38-39`, `failure-scenarios.md:17`). A timer that fired just before
  may meet a closed producer; the sweeper then takes the job over when its lease ends.
- `docs/scheduling.md:111-122` and `cron_store.go:175-176`: a due schedule fires exactly
  once. A worker may skip the message before the commit, and a replica whose clock is
  behind the database computes the same slot again.
- `cron.go:30-32` calls a field restricted that is not `*`; the code asks whether it holds
  fewer than all values. `NextIsFirst` follows the code.
- `server.go:391-393` (broker): sends of responses can never block. They do behind a
  writer that gave up, and the connection's goroutines then stay.
