------------------------------ MODULE WorkerPool ------------------------------
(* One worker process (services/worker): a consumer per priority topic, the  *)
(* semaphore that gives the execution slots to the most urgent of them       *)
(* (priority.go), the goroutines that execute jobs, the timers of retries,   *)
(* the registry entry, and the shutdown (service.go Run, worker.go           *)
(* Shutdown).  Leases, generations and the sweeper are in JobLifecycle, how  *)
(* offsets are committed, or fail to be, in ConsumerGroup: here a batch is   *)
(* one record, and its commit succeeds.                                      *)
EXTENDS Integers, Sequences, FiniteSets

CONSTANTS
    Lanes,              \* topics: n for jobs.p<n>, Legacy for jobs
    maxPriorityLevel,
    MaxAttempts,
    Jobs,               \* jobs that are there at the start; the ids of others are numbers
    Modes               \* scenarios: slots (WORKER_CONCURRENCY), spec (of the topics), lanes (messages
                        \* at the start), poison (ids of those that cannot be parsed), endless (a job
                        \* that is done is submitted again), calls (what may happen to a job), faults
                        \* (how many) of kinds

Legacy     == 0
legacyRank == maxPriorityLevel + 1

Calls == {"unknown", "payload", "url", "refused", "redirect", "dns", "transport", "2xx", "5xx"}

ASSUME LanesAssumption == maxPriorityLevel \in Nat /\ Lanes \subseteq 0 .. maxPriorityLevel

ASSUME JobsAssumption == \A id \in Jobs : id \notin Nat

(* The messages of a topic are its own, and different.                       *)
ASSUME ModesAssumption ==
    \A md \in Modes :
        /\ md.slots \in Nat \ {0} /\ md.calls \subseteq Calls /\ md.poison \subseteq Jobs
        /\ md.lanes \in [Lanes -> Seq([id : Jobs, lane : Lanes])]
        /\ \A l \in Lanes : \A i, j \in 1 .. Len(md.lanes[l]) :
              md.lanes[l][i].lane = l /\ (md.lanes[l][i] = md.lanes[l][j] => i = j)

VARIABLES
    mode,
    rows,       \* the jobs table: id -> status and attempts
    lanes,      \* Lanes -> the messages of the topic that are not committed
    consumer,   \* Lanes -> "none", "idle", "waiting", "handled" (not committed yet), "stopped"
    free,       \* prioSem.free
    waiters,    \* prioSem.waiters, in order of arrival: lane, aging intervals waited
    granted,    \* lanes with a permit that is not picked up yet
    running,    \* messages in execute
    handling,   \* those of them whose job is claimed
    started,    \* history: messages that got into execute
    timers,     \* messages that wait for the timer of their retry
    tracked,    \* Worker.timers: those of them a stop knows of, one for a job
    pending,    \* those that flushRetries has still to publish
    flying,     \* republish calls that nobody waits for
    lost,       \* history: messages that are gone although they were not dealt with
    deliveries, \* webhook_deliveries: what is recorded of an attempt, and what it returned
    worker,     \* where Run is
    registry,   \* the entry worker:<id>
    faults

sem   == <<free, waiters, granted>>
exec  == <<running, handling>>
retry == <<timers, tracked, pending, flying, lost>>
proc  == <<worker, registry, faults>>
pool  == <<rows, lanes, consumer, sem, exec, started, retry, deliveries, proc>>

Msg(id, lane)    == [id |-> id, lane |-> lane]
Row(st, n)       == [status |-> st, attempts |-> n]
Message          == [id : Jobs \cup Nat, lane : Lanes]

Alive  == worker \notin {"down", "dead"}
closed == worker \notin {"boot", "run", "stopping"}

Fault(k) ==
    /\ k \in mode.kinds \ faults
    /\ Cardinality(faults) < mode.faults
    /\ faults' = faults \cup {k}

Messages == UNION {{mode.lanes[l][i] : i \in 1 .. Len(mode.lanes[l])} : l \in Lanes}

PoolInit ==
    /\ mode \in Modes
    /\ rows = [id \in {m.id : m \in Messages} \ mode.poison |-> Row("QUEUED", 0)]
    /\ lanes = mode.lanes
    /\ consumer = [l \in Lanes |-> "none"]
    /\ free = mode.slots /\ waiters = <<>> /\ granted = {}
    /\ running = {} /\ handling = {} /\ started = {}
    /\ timers = {} /\ tracked = {} /\ pending = {} /\ flying = {} /\ lost = {}
    /\ deliveries = {}
    /\ worker = "boot" /\ registry = "absent" /\ faults = {}

-----------------------------------------------------------------------------
(* The boot, with the topics of WORKER_PRIORITY_TOPICS: a list of "legacy"   *)
(* and of ranges of levels.                                                  *)

LegacyItem == [lo |-> Legacy, hi |-> Legacy]

(* The levels of an item, none when it is not valid.                         *)
parseLevelItem(item) ==
    {n \in item.lo .. item.hi : 1 <= item.lo /\ item.hi <= maxPriorityLevel}

DefaultPriorityTopicsSpec == {[lo |-> 1, hi |-> maxPriorityLevel], LegacyItem}

(* The topics (their order in the list has no effect), none for an error.    *)
ParsePriorityTopics(spec) ==
    LET items == (IF spec = {} THEN DefaultPriorityTopicsSpec ELSE spec) \ {LegacyItem}
    IN IF \E it \in items : parseLevelItem(it) = {} THEN {}
       ELSE UNION {parseLevelItem(it) : it \in items}
            \cup {l \in {Legacy} : spec = {} \/ LegacyItem \in spec}

TopicRank(l) == IF l \in 1 .. maxPriorityLevel THEN l ELSE legacyRank

(* A topic that cannot be created fails the boot, and so does the list.      *)
ensureTopics(topics) ==
    \/ topics # {} /\ worker' = "run" /\ UNCHANGED faults
    \/ topics = {} /\ worker' = "down" /\ UNCHANGED faults
    \/ topics # {} /\ Fault("boot") /\ worker' = "down"

(* The first heartbeat; the others find the entry there.                     *)
beat == registry' = "present"

(* Run, up to the consumers.                                                 *)
boot ==
    /\ worker = "boot"
    /\ LET topics == ParsePriorityTopics(mode.spec)
       IN /\ ensureTopics(topics)
          /\ consumer' = [l \in Lanes |-> IF l \in topics /\ worker' = "run" THEN "idle" ELSE "none"]
    /\ IF worker' = "run" THEN beat ELSE UNCHANGED registry
    /\ UNCHANGED <<rows, lanes, sem, exec, started, retry, deliveries>>

-----------------------------------------------------------------------------
(* prioSem.                                                                  *)

(* Mutant: strict priority.                                                  *)
effRankStrict(w) == TopicRank(w.lane)

(* A rank improves by one for every aging interval spent waiting.            *)
effRankLocked(w) == IF TopicRank(w.lane) - w.waited > 0 THEN TopicRank(w.lane) - w.waited ELSE 0

Best(i) == \A j \in 1 .. Len(waiters) :
              \/ effRankLocked(waiters[i]) < effRankLocked(waiters[j])
              \/ effRankLocked(waiters[i]) = effRankLocked(waiters[j]) /\ i <= j

Without(i) == [j \in 1 .. Len(waiters) - 1 |-> IF j < i THEN waiters[j] ELSE waiters[j + 1]]

(* Mutant: the permit goes back to the pool, and whoever comes next takes it. *)
grantLoses(others) ==
    /\ free' = free + 1 /\ granted' = others
    /\ UNCHANGED waiters

(* A permit goes to the best waiter, or back to the pool; others have one    *)
(* already.                                                                  *)
grantNextLocked(others) ==
    \/ waiters = <<>> /\ free' = free + 1 /\ granted' = others /\ UNCHANGED waiters
    \/ \E i \in 1 .. Len(waiters) :
          /\ Best(i)
          /\ waiters' = Without(i) /\ granted' = others \cup {waiters[i].lane}
          /\ UNCHANGED free

Release == grantNextLocked(granted)

dispatch(l) ==
    /\ running' = running \cup {Head(lanes[l])}
    /\ started' = started \cup {Head(lanes[l])}
    /\ consumer' = [consumer EXCEPT ![l] = "handled"]

Consuming == worker \in {"run", "stopping"}

(* Handle: a permit at once, or a place in the queue.                        *)
Acquire(l) ==
    /\ consumer[l] = "idle" /\ lanes[l] # <<>> /\ Consuming
    /\ \/ /\ free > 0 /\ waiters = <<>>
          /\ free' = free - 1
          /\ dispatch(l)
          /\ UNCHANGED waiters
       \/ /\ ~(free > 0 /\ waiters = <<>>)
          /\ waiters' = Append(waiters, [lane |-> l, waited |-> 0])
          /\ consumer' = [consumer EXCEPT ![l] = "waiting"]
          /\ UNCHANGED <<free, running, started>>
    /\ UNCHANGED <<rows, lanes, granted, handling, retry, deliveries, proc>>

(* Handle goes on with the permit it was handed, and returns nil.            *)
Handle(l) ==
    /\ consumer[l] = "waiting" /\ l \in granted /\ Consuming
    /\ granted' = granted \ {l}
    /\ dispatch(l)
    /\ UNCHANGED <<rows, lanes, free, waiters, handling, retry, deliveries, proc>>

(* Handle returns the error of the context, which ends with the worker and   *)
(* with the generation of its consumer: the batch is not committed.  After a *)
(* rebalance the consumer fetches it again, and Handle starts anew.          *)
Leave(l) ==
    /\ consumer[l] = "waiting"
    /\ \/ worker = "stopping" /\ consumer' = [consumer EXCEPT ![l] = "stopped"] /\ UNCHANGED faults
       \/ worker = "run" /\ Fault("rebalance") /\ consumer' = [consumer EXCEPT ![l] = "idle"]
    /\ UNCHANGED <<rows, lanes, exec, started, retry, deliveries, worker, registry>>

RemoveWaiter(l) ==
    /\ \E i \in 1 .. Len(waiters) : waiters[i].lane = l /\ waiters' = Without(i)
    /\ UNCHANGED <<free, granted>>

(* Acquire's ctx.Done: a permit that was handed over is passed on.           *)
Cancel(l) ==
    /\ Leave(l)
    /\ \/ l \in granted /\ grantNextLocked(granted \ {l})
       \/ l \notin granted /\ RemoveWaiter(l)

(* The consumer commits what Handle took, or stops.                          *)
commit(l) ==
    /\ consumer[l] = "handled" /\ Consuming
    /\ lanes' = [lanes EXCEPT ![l] = Tail(@)]
    /\ consumer' = [consumer EXCEPT ![l] = "idle"]
    /\ UNCHANGED <<rows, sem, exec, started, retry, deliveries, proc>>

consumerStops(l) ==
    /\ worker = "stopping" /\ consumer[l] \in {"idle", "handled"}
    /\ consumer' = [consumer EXCEPT ![l] = "stopped"]
    /\ UNCHANGED <<rows, lanes, sem, exec, started, retry, deliveries, proc>>

(* An aging interval passes.                                                 *)
age ==
    /\ \E i \in 1 .. Len(waiters) : waiters[i].waited < legacyRank
    /\ waiters' = [i \in 1 .. Len(waiters) |->
                      [waiters[i] EXCEPT !.waited = IF @ < TopicRank(waiters[i].lane) THEN @ + 1 ELSE @]]
    /\ waiters' # waiters
    /\ UNCHANGED <<rows, lanes, consumer, free, granted, exec, started, retry, deliveries, proc>>

-----------------------------------------------------------------------------
(* execute.                                                                  *)

Publish(m) == lanes' = [lanes EXCEPT ![m.lane] = Append(@, m)]

OfOtherJobs(m) == {x \in tracked : x.id # m.id}

(* A retry waits for its timer, or, once the worker is closed, is published  *)
(* by a goroutine of its own.  Timers are tracked by job: the second message *)
(* of a job takes the place of the first.                                    *)
scheduleRawRepublish(m) ==
    IF closed THEN flying' = flying \cup {m} /\ UNCHANGED <<timers, tracked>>
              ELSE /\ timers' = timers \cup {m} /\ tracked' = OfOtherJobs(m) \cup {m}
                   /\ UNCHANGED flying

ParseJobMessage(m) == m.id \notin mode.poison

Claimable(m) == m.id \in DOMAIN rows /\ rows[m.id].status \in {"QUEUED", "RETRYING"}

(* execute, up to the handler.  A message that cannot be parsed goes to the  *)
(* DLQ.  The claim is of a job that is there, and not claimed or finished;   *)
(* otherwise the message is skipped, and with it the job when its row is not *)
(* committed yet.  When the database fails the message is published again.   *)
StartJobFence(m) ==
    /\ m \in running \ handling /\ Alive
    /\ \/ /\ ParseJobMessage(m) /\ Claimable(m)
          /\ rows' = [rows EXCEPT ![m.id].status = "PROCESSING"]
          /\ handling' = handling \cup {m}
          /\ UNCHANGED <<sem, running, timers, tracked, flying, lost, faults>>
       \/ /\ ~(ParseJobMessage(m) /\ Claimable(m))
          /\ running' = running \ {m} /\ Release
          /\ lost' = lost \cup {x \in {m} : m.id \notin DOMAIN rows}
          /\ UNCHANGED <<rows, handling, timers, tracked, flying, faults>>
       \/ /\ ParseJobMessage(m) /\ Fault("database")
          /\ running' = running \ {m} /\ Release
          /\ scheduleRawRepublish(m)
          /\ UNCHANGED <<rows, handling, lost>>
    /\ UNCHANGED <<lanes, consumer, started, pending, deliveries, worker, registry>>

(* A job of a type nobody handles is given up.                               *)
lookupHandler(call) == call # "unknown"

(* The facts of a webhook attempt, by what happened to it.                   *)
WebhookHandler(call) ==
    [dispatched |-> call \in {"transport", "redirect", "2xx", "5xx"},
     blocked    |-> call \in {"refused", "redirect"},
     invalid    |-> call \in {"payload", "url"},
     status     |-> CASE call = "2xx" -> 200 [] call = "5xx" -> 500 [] OTHER -> 0,
     err        |-> call # "2xx"]

(* And what the handler returns: nil, a permanent error or another one.      *)
runErr(call) == CASE call = "2xx" -> "nil"
                  [] call \in {"unknown", "payload", "url", "refused", "redirect"} -> "permanent"
                  [] call \in {"dns", "transport", "5xx"} -> "error"

outcome(rec) ==
    IF rec.blocked THEN "blocked"
    ELSE IF rec.invalid THEN "invalid"
    ELSE IF ~rec.dispatched \/ (rec.err /\ rec.status = 0) THEN "transport_error"
    ELSE IF rec.status \in 200 .. 299 /\ ~rec.err THEN "success" ELSE "http_error"

recordDelivery(call) ==
    deliveries' = deliveries \cup {[outcome |-> outcome(WebhookHandler(call)), err |-> runErr(call)]}

Finish(m, st) == rows' = [rows EXCEPT ![m.id] = Row(st, @.attempts + 1)]

Again(m) == rows' = [rows EXCEPT ![m.id] = Row("QUEUED", 0)] /\ Publish(m)

(* The row, and the retry.                                                   *)
Finished(m, err) ==
    CASE err = "nil" /\ mode.endless /\ ~closed -> Again(m) /\ UNCHANGED <<timers, tracked, flying>>
      [] err = "nil" /\ ~(mode.endless /\ ~closed) ->
           Finish(m, "SUCCESS") /\ UNCHANGED <<lanes, timers, tracked, flying>>
      [] err = "error" /\ rows[m.id].attempts + 1 < MaxAttempts ->
           Finish(m, "RETRYING") /\ scheduleRawRepublish(m) /\ UNCHANGED lanes
      [] OTHER -> Finish(m, "DEAD") /\ UNCHANGED <<lanes, timers, tracked, flying>>

(* The handler has returned.  When the database fails the row stays as it is *)
(* until its lease is over, and so it does when the lease was lost.          *)
execute(m) ==
    /\ m \in handling /\ Alive
    /\ running' = running \ {m} /\ handling' = handling \ {m}
    /\ Release
    /\ \E call \in mode.calls :
          /\ IF lookupHandler(call) THEN recordDelivery(call) ELSE UNCHANGED deliveries
          /\ \/ Finished(m, runErr(call)) /\ UNCHANGED faults
             \/ /\ Fault("database") \/ (lookupHandler(call) /\ Fault("lease"))
                /\ UNCHANGED <<rows, lanes, timers, tracked, flying>>
    /\ UNCHANGED <<consumer, started, pending, lost, worker, registry>>

timerFires(m) ==
    /\ m \in timers /\ Alive
    /\ timers' = timers \ {m} /\ tracked' = OfOtherJobs(m) /\ flying' = flying \cup {m}
    /\ UNCHANGED <<rows, lanes, consumer, sem, exec, started, pending, lost, deliveries, proc>>

(* The producer takes it; an error leaves the row to the sweeper, and so     *)
(* does a producer that is closed.                                           *)
Produced(m) == Publish(m) /\ UNCHANGED <<lost, faults>>
Refused(m)  == lost' = lost \cup {m} /\ UNCHANGED lanes
Failed(m)   == Fault("publish") /\ Refused(m)

republish(m) ==
    /\ m \in flying /\ Alive
    /\ flying' = flying \ {m}
    /\ \/ worker # "del" /\ (Produced(m) \/ Failed(m))
       \/ worker = "del" /\ Refused(m) /\ UNCHANGED faults
    /\ UNCHANGED <<rows, consumer, sem, exec, started, timers, tracked, pending, deliveries, worker, registry>>

-----------------------------------------------------------------------------
(* The shutdown, step by step, and the registry entry.                       *)

Others == <<rows, consumer, sem, started, deliveries>>

stopConsumers ==
    /\ worker = "run" /\ Fault("stop")
    /\ worker' = "stopping"
    /\ UNCHANGED <<Others, lanes, exec, retry, registry>>

(* Every consumer is back; from here on closed.                              *)
Shutdown ==
    /\ worker = "stopping" /\ \A l \in Lanes : consumer[l] \in {"none", "stopped"}
    /\ worker' = "drain"
    /\ UNCHANGED <<Others, lanes, exec, retry, registry, faults>>

(* The jobs under way are over, or the deadline has passed.                  *)
shutdownDrain ==
    /\ worker = "drain"
    /\ IF running = {} THEN UNCHANGED faults ELSE Fault("deadline")
    /\ worker' = "flush" /\ pending' = tracked /\ tracked' = {}
    /\ UNCHANGED <<Others, lanes, exec, timers, flying, lost, registry>>

(* Mutant: the timers are stopped and forgotten, as when it is killed.       *)
flushForgets ==
    /\ worker = "flush"
    /\ timers' = timers \ pending /\ pending' = {} /\ worker' = "close"
    /\ UNCHANGED <<Others, lanes, exec, tracked, flying, lost, registry, faults>>

(* flushRetries: one after the other is stopped, if it did not fire in the   *)
(* meantime, and published.                                                  *)
flushRetries ==
    /\ worker = "flush"
    /\ \/ /\ pending = {} /\ worker' = "close"
          /\ UNCHANGED <<lanes, timers, pending, lost, faults>>
       \/ \E m \in pending :
             /\ pending' = pending \ {m} /\ timers' = timers \ {m}
             /\ Produced(m) \/ Failed(m)
             /\ UNCHANGED worker
    /\ UNCHANGED <<Others, exec, tracked, flying, registry>>

(* producer.Close.                                                           *)
Close ==
    /\ worker = "close" /\ worker' = "del"
    /\ UNCHANGED <<Others, lanes, exec, retry, registry, faults>>

(* The entry is deleted (Redis may not have it so, and a heartbeat that was  *)
(* on its way may come after it), and the process ends with the goroutines   *)
(* it still has.                                                             *)
del ==
    /\ worker = "del" /\ worker' = "down"
    /\ registry' \in {"absent", registry}
    /\ running' = {} /\ handling' = {} /\ timers' = {} /\ flying' = {}
    /\ lost' = lost \cup flying \cup (running \ handling)
    /\ UNCHANGED <<Others, lanes, tracked, pending, faults>>

(* Without heartbeats the entry expires.                                     *)
expire ==
    /\ ~Alive /\ registry = "present"
    /\ registry' = "absent"
    /\ UNCHANGED <<Others, lanes, exec, retry, worker, faults>>

(* The process is killed.                                                    *)
HardStop ==
    /\ Alive /\ worker # "boot" /\ Fault("kill")
    /\ worker' = "dead"
    /\ consumer' = [l \in Lanes |-> "none"]
    /\ free' = 0 /\ waiters' = <<>> /\ granted' = {}
    /\ running' = {} /\ handling' = {}
    /\ timers' = {} /\ tracked' = {} /\ pending' = {} /\ flying' = {}
    /\ UNCHANGED <<rows, lanes, started, lost, deliveries, registry>>

-----------------------------------------------------------------------------
ConsumerStep(l) == Acquire(l) \/ Handle(l) \/ Cancel(l) \/ commit(l) \/ consumerStops(l)

Working == \/ \E m \in running : StartJobFence(m) \/ execute(m)
           \/ \E m \in timers : timerFires(m)
           \/ \E m \in flying : republish(m)

Running == boot \/ Shutdown \/ shutdownDrain \/ flushRetries \/ Close \/ del

(* The steps of goroutines that are ready to run, and the entry's expiry.    *)
PoolProgress == (\E l \in Lanes : ConsumerStep(l)) \/ Working \/ Running \/ expire

PoolNext == (PoolProgress \/ age \/ stopConsumers \/ HardStop) /\ UNCHANGED mode

PoolVars == <<mode, pool>>

PoolSpec == PoolInit /\ [][PoolNext]_PoolVars

-----------------------------------------------------------------------------
Waiting == {waiters[i].lane : i \in 1 .. Len(waiters)}

Statuses == {"QUEUED", "PROCESSING", "RETRYING", "SUCCESS", "DEAD"}

PoolTypeOK ==
    /\ mode \in Modes
    /\ rows \in [DOMAIN rows -> [status : Statuses, attempts : Nat]]
    /\ lanes \in [Lanes -> Seq(Message)]
    /\ consumer \in [Lanes -> {"none", "idle", "waiting", "handled", "stopped"}]
    /\ free \in Nat /\ granted \subseteq Lanes
    /\ waiters \in Seq([lane : Lanes, waited : 0 .. legacyRank])
    /\ running \subseteq Message /\ handling \subseteq running /\ started \subseteq Message
    /\ timers \subseteq Message /\ tracked \subseteq timers /\ pending \subseteq Message
    /\ flying \subseteq Message /\ lost \subseteq Message
    /\ worker \in {"boot", "run", "stopping", "drain", "flush", "close", "del", "down", "dead"}
    /\ registry \in {"absent", "present"} /\ faults \subseteq mode.kinds

(* The execution slots are neither lost nor multiplied: each is free, handed *)
(* to a waiter or used by a job, also when it is handed to a waiter that is  *)
(* giving up at that moment (priority.go Acquire).                           *)
PermitsConserved == Alive => free + Cardinality(granted) + Cardinality(running) = mode.slots

(* No wake-up is lost: a slot is never free while a message waits for one,   *)
(* and every consumer that waits is in the queue once, or has its permit     *)
(* (priority.go Acquire, grantNextLocked).                                   *)
NoIdleSlot ==
    /\ free > 0 => waiters = <<>>
    /\ \A l \in Lanes : consumer[l] = "waiting" <=> l \in Waiting \cup granted
    /\ Waiting \cap granted = {}
    /\ \A i, j \in 1 .. Len(waiters) : waiters[i].lane = waiters[j].lane => i = j

(* A message leaves its topic only when execute has it, whenever the worker  *)
(* is stopped or killed (worker.go Handle).                                  *)
CommittedIsStarted ==
    \A m \in Messages : m \in started \/ \E i \in 1 .. Len(lanes[m.lane]) : lanes[m.lane][i] = m

(* The messages of a topic that will be handed to a consumer.                *)
Unread(l) == {lanes[l][i] : i \in {k \in 1 .. Len(lanes[l]) : k > 1 \/ consumer[l] # "handled"}}

OnItsWay(m) == m \in Unread(m.lane) \cup (running \ handling) \cup tracked \cup pending \cup flying

(* A job that is to be executed is not forgotten, also when the worker is    *)
(* stopped: a message of it is on its topic, in execute or with a timer the  *)
(* flush will find, or it was lost in one of the ways the code provides for. *)
(* The broker refused it; its timer had fired and the producer was closed    *)
(* first, or the process ended; or it was taken before the row of its job    *)
(* was committed.  "so a graceful restart never strands a RETRYING job"      *)
(* (worker.go flushRetries) holds but for the second of these.               *)
NothingForgotten ==
    worker # "dead" =>
        \A id \in DOMAIN rows : rows[id].status \in {"QUEUED", "RETRYING"} =>
            \E l \in Lanes : OnItsWay(Msg(id, l)) \/ Msg(id, l) \in lost

(* What is recorded of a webhook agrees with what becomes of the job: a      *)
(* success when the handler succeeded, a refused or malformed one when the   *)
(* job is given up, the others when it is retried (handlers.go               *)
(* WebhookHandler, deliveries.go outcome).                                   *)
DeliveryMatchesResult ==
    \A d \in deliveries : /\ d.outcome = "success" <=> d.err = "nil"
                          /\ d.outcome \in {"blocked", "invalid"} <=> d.err = "permanent"

(* The semaphore loses no permit and no wake-up (priority.go).              *)
SemaphoreSound == PermitsConserved /\ NoIdleSlot

(* The worker answers for every job it took: none is gone from its topic     *)
(* before it was started, none that is to be tried again is forgotten, and   *)
(* what is recorded of a delivery is true.                                   *)
WorkAccounted == CommittedIsStarted /\ NothingForgotten /\ DeliveryMatchesResult

(* Whoever waits for a slot gets one or is told to stop, also the least      *)
(* urgent topic while urgent messages keep coming (effRankLocked), and also  *)
(* when a rebalance makes it queue anew: as many rebalances as there are     *)
(* faults, for one in every wait would start its aging over for ever.        *)
NobodyStarves == \A l \in Lanes : (consumer[l] = "waiting") ~> (consumer[l] \in {"handled", "stopped", "none"})

(* A worker that is told to stop ends, and one that has ended disappears     *)
(* from the registry, also when it was killed (service.go Run, registry.go). *)
WorkerStops == <>[](worker = "run" \/ (~Alive /\ registry = "absent"))
=============================================================================
