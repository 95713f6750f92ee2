------------------------------ MODULE Schedules ------------------------------
(* Recurring jobs: the cron expressions (cron.go), the cron RPCs             *)
(* (sched_server.go, cron_store.go), and the loop every replica of the jobs  *)
(* service runs over the due schedules (cron_scheduler.go), in front of the  *)
(* worker that gets the jobs (WorkerPool).                                   *)
EXTENDS WorkerPool

CONSTANTS
    Crons, Schedulers,  \* Modes have more: crons, requests, callers, broken (expressions),
                        \* topics, batch, horizon (<= Horizon), prompt (passes come in time),
                        \* skew (of the replicas' clocks), fires (a bound on firings)
    Exprs,              \* the expressions in use, by number; those of the scenarios are numbers
    Horizon,            \* the last tick
    TicksPerMinute, MinutesPerHour, HoursPerDay,
    Year,               \* the days of a year: month, dom
    DomMax, MonthMax, WeekDays,
    cronMaxSearchDays

Part == [base : {"*", "value", "range"}, lo : Int, hi : Int, step : Int]
Expr == [minute : SUBSET Part, hour : SUBSET Part, dom : SUBSET Part, month : SUBSET Part, dow : SUBSET Part]

ASSUME ExprsAssumption ==
    /\ Exprs \in Seq(Expr)
    /\ \A e \in 1 .. Len(Exprs) :
          \A p \in Exprs[e].minute \cup Exprs[e].hour \cup Exprs[e].dom \cup Exprs[e].month \cup Exprs[e].dow :
              p.base = "value" => p.lo = p.hi

ASSUME CalendarAssumption ==
    /\ {TicksPerMinute, MinutesPerHour, HoursPerDay, DomMax, MonthMax, WeekDays} \subseteq Nat \ {0}
    /\ Year \in Seq([month : 1 .. MonthMax, dom : 1 .. DomMax]) /\ Year # <<>>
    /\ {Horizon, cronMaxSearchDays} \subseteq Nat

ASSUME CronModesAssumption ==
    \A md \in Modes :
        /\ md.horizon \in 0 .. Horizon /\ md.batch \in Nat /\ md.topics \in Seq(Lanes) /\ md.crons \subseteq Crons
        /\ md.skew \in [Schedulers -> Int] /\ \A s \in Schedulers : md.horizon + md.skew[s] <= Horizon
        /\ \A req \in md.requests : req.expr \in 1 .. Len(Exprs) /\ req.enabled \in BOOLEAN
        /\ md.broken \subseteq 1 .. Len(Exprs)

VARIABLES
    now,        \* the clock of the database, now()
    crons,      \* cron_schedules: state, enabled, owner, expr, next, last
    sched,      \* Schedulers -> the transaction of a pass: due, what it has locked and staged
    ids,        \* ids given to jobs
    spawned     \* history: Crons -> the last job that was committed, and when the one before fired,
                \* by the clocks of the replicas that fired them

cron  == <<crons, sched, ids, spawned>>
vars  == <<mode, pool, now, cron>>

-----------------------------------------------------------------------------
(* Expressions: five fields of parts "*", "a-b" or "a", with a step or 0.    *)

Star          == [base |-> "*", lo |-> 0, hi |-> 0, step |-> 0]
Value(v)      == [base |-> "value", lo |-> v, hi |-> v, step |-> 0]
Between(a, b) == [base |-> "range", lo |-> a, hi |-> b, step |-> 0]
Every(p, n)   == [p EXCEPT !.step = n]

parseCronValue(v, min, max) == v \in min .. max

(* Mutant: "a/n" is "a".                                                     *)
partOnlyFirst(p, min, max) ==
    LET lo == IF p.base = "*" THEN min ELSE p.lo
        hi == IF p.base = "*" THEN max ELSE p.hi
    IN {v \in lo .. hi : p.step = 0 \/ (v - lo) % p.step = 0}

part(p, min, max) ==
    LET lo == IF p.base = "*" THEN min ELSE p.lo
        hi == IF p.base = "*" \/ (p.base = "value" /\ p.step # 0) THEN max ELSE p.hi
    IN {v \in lo .. hi : p.step = 0 \/ (v - lo) % p.step = 0}

(* The values of a field, none for an error.                                 *)
parseCronField(field, min, max) ==
    IF \A p \in field : /\ p.step >= 0
                        /\ p.base # "*" => parseCronValue(p.lo, min, max) /\ parseCronValue(p.hi, min, max)
                        /\ p.lo <= p.hi
    THEN UNION {part(p, min, max) : p \in field} ELSE {}

Invalid == [invalid |-> TRUE]

ParseCron(expr) ==
    LET minutes == parseCronField(expr.minute, 0, MinutesPerHour - 1)
        hours   == parseCronField(expr.hour, 0, HoursPerDay - 1)
        dom     == parseCronField(expr.dom, 1, DomMax)
        months  == parseCronField(expr.month, 1, MonthMax)
        dow     == {v % WeekDays : v \in parseCronField(expr.dow, 0, WeekDays)}
    IN IF {} \in {minutes, hours, dom, months, dow} THEN Invalid
       ELSE [minutes |-> minutes, hours |-> hours, dom |-> dom, months |-> months, dow |-> dow,
             domRestricted |-> Cardinality(dom) < DomMax, dowRestricted |-> Cardinality(dow) < WeekDays]

Month(d)   == Year[(d % Len(Year)) + 1].month
Day(d)     == Year[(d % Len(Year)) + 1].dom
Weekday(d) == d % WeekDays

matchesDay(c, d) ==
    /\ Month(d) \in c.months
    /\ IF c.domRestricted /\ c.dowRestricted
       THEN Day(d) \in c.dom \/ Weekday(d) \in c.dow
       ELSE Day(d) \in c.dom /\ Weekday(d) \in c.dow

MinutesPerDay == MinutesPerHour * HoursPerDay
Never         == -1
First(S)      == CHOOSE x \in S : \A y \in S : x <= y

(* The first candidate of a day, and of the days to be searched.             *)
Candidates(c, d, earliest) ==
    {x \in {d * MinutesPerDay + h * MinutesPerHour + m : h \in c.hours, m \in c.minutes} : x >= earliest}

(* The first match strictly after the minute of from.                        *)
CronNext(c, from) ==
    LET earliest == from \div TicksPerMinute + 1
        days == {d \in earliest \div MinutesPerDay .. earliest \div MinutesPerDay + cronMaxSearchDays - 1 :
                    matchesDay(c, d) /\ Candidates(c, d, earliest) # {}}
    IN IF days = {} THEN Never ELSE First(Candidates(c, First(days), earliest)) * TicksPerMinute

(* The next run by expression and time.                                      *)
NextRun == [e \in 1 .. Len(Exprs) |->
               [t \in 0 .. Horizon |->
                   IF ParseCron(Exprs[e]) = Invalid THEN Never ELSE CronNext(ParseCron(Exprs[e]), t)]]

(* time.Now() of a replica, which is not the clock of the database, and what *)
(* an expression is worth then: it fires when it parses and has a next time. *)
Clock(s) == IF now + mode.skew[s] >= 0 THEN now + mode.skew[s] ELSE 0

Fires(e, t) == NextRun[e][t] # Never

-----------------------------------------------------------------------------
(* The RPCs.                                                                 *)

NoCron == [state |-> "none", enabled |-> FALSE, owner |-> "system", expr |-> 0, next |-> 0, last |-> 0]

Init ==
    /\ PoolInit
    /\ now = 0
    /\ crons = [c \in Crons |-> NoCron]
    /\ sched = [s \in Schedulers |-> [pc |-> "idle", due |-> <<>>, locked |-> {}, staged |-> <<>>]]
    /\ ids = 0
    /\ spawned = [c \in Crons |-> [slot |-> 0, at |-> 0, prev |-> -1]]

Locked(c) == \E s \in Schedulers : c \in sched[s].locked

(* A name, an expression that fires, and a job CreateJob would accept.       *)
validateCronRequest(req, t) == req.name \in 1 .. 255 /\ Fires(req.expr, t) /\ req.job = "valid"

CreateCron(s, c, req) ==
    /\ crons[c].state = "none"
    /\ validateCronRequest(req, Clock(s))
    /\ crons' = [crons EXCEPT ![c] = [state |-> "there", enabled |-> req.enabled, owner |-> req.owner,
                                      expr |-> req.expr, next |-> NextRun[req.expr][Clock(s)], last |-> Clock(s)]]
    /\ UNCHANGED <<sched, ids, spawned>>

CanAccessJob(caller, owner) == caller \in {"system", owner}

(* The DELETE waits for the lock of a pass.                                  *)
DeleteCron(c, caller) ==
    /\ crons[c].state = "there" /\ CanAccessJob(caller, crons[c].owner)
    /\ ~Locked(c)
    /\ crons' = [crons EXCEPT ![c] = [NoCron EXCEPT !.state = "gone"]]
    /\ UNCHANGED <<sched, ids, spawned>>

(* A row is damaged, or written by another version.                          *)
Corrupt(c, expr) ==
    /\ Fault("corrupt")
    /\ crons[c].state = "there" /\ ~Locked(c)
    /\ crons' = [crons EXCEPT ![c].expr = expr]
    /\ UNCHANGED <<sched, ids, spawned>>

-----------------------------------------------------------------------------
(* A pass of the loop.                                                       *)

(* By the clock of the database.                                             *)
Due(c) == crons[c].state = "there" /\ crons[c].enabled /\ crons[c].next <= now

(* Mutant: a plain SELECT.                                                   *)
dueCronsUnlocked == {c \in Crons : Due(c)}

cronDueBatchSize == mode.batch

(* FOR UPDATE SKIP LOCKED.                                                   *)
dueCrons == {c \in Crons : Due(c) /\ ~Locked(c)}

(* ORDER BY next_run_at, id LIMIT n.                                         *)
Batch(due) ==
    {q \in UNION {[1 .. n -> due] : n \in 1 .. cronDueBatchSize} :
        /\ \A i, j \in 1 .. Len(q) : i < j => q[i] # q[j] /\ crons[q[i]].next <= crons[q[j]].next
        /\ \A c \in due : \/ \E i \in 1 .. Len(q) : q[i] = c
                          \/ Len(q) = cronDueBatchSize /\ \A i \in 1 .. Len(q) : crons[q[i]].next <= crons[c].next}

TickOnce(s) ==
    /\ sched[s].pc = "idle" /\ dueCrons # {}
    /\ \E q \in Batch(dueCrons) :
          sched' = [sched EXCEPT ![s] = [pc |-> "fire", due |-> q, locked |-> {q[i] : i \in 1 .. Len(q)}, staged |-> <<>>]]
    /\ UNCHANGED <<crons, ids, spawned>>

(* The end of a transaction, also of one that is committed.                  *)
Rollback(s) == sched' = [sched EXCEPT ![s] = [pc |-> "idle", due |-> <<>>, locked |-> {}, staged |-> <<>>]]

Staged(s, change) ==
    sched' = [sched EXCEPT ![s].due = Tail(@), ![s].staged = Append(@, change),
                           ![s].pc = IF Len(sched[s].due) = 1 THEN "commit" ELSE "fire"]

executionTopics == mode.topics

(* PublishExecution puts the message on the first n of the topics.           *)
PublishExecution(id, n) ==
    lanes' = [l \in Lanes |-> IF \E i \in 1 .. n : executionTopics[i] = l
                              THEN Append(lanes[l], Msg(id, l)) ELSE lanes[l]]

(* The change of a row: off, or advanced, with the job it spawns.            *)
disableCron(c)    == [cron |-> c, id |-> 0, slot |-> 0, at |-> 0, next |-> Never]
advanceCron(s, c) == [cron |-> c, id |-> ids + 1, slot |-> crons[c].next, at |-> Clock(s),
                      next |-> NextRun[crons[c].expr][Clock(s)]]

(* A row whose expression is of no use is disabled.                          *)
fireBroken(s, c) == Staged(s, disableCron(c)) /\ UNCHANGED <<lanes, ids, faults>>

(* The job is inserted, the row advanced and the message published, all of   *)
(* it inside the transaction; an error rolls it back.                        *)
fireJob(s, c) ==
    /\ ids < mode.fires /\ ids' = ids + 1
    /\ \/ /\ PublishExecution(ids + 1, Len(executionTopics))
          /\ Staged(s, advanceCron(s, c))
          /\ UNCHANGED faults
       \/ /\ Fault("publish")
          /\ \E n \in 0 .. Len(executionTopics) : PublishExecution(ids + 1, n)
          /\ Rollback(s)

fireCron(s) ==
    /\ sched[s].pc = "fire"
    /\ LET c == Head(sched[s].due)
       IN IF Fires(crons[c].expr, Clock(s)) THEN fireJob(s, c) ELSE fireBroken(s, c)
    /\ UNCHANGED <<crons, spawned>>

(* The changes of a transaction, by cron, and the jobs it inserts.           *)
Changed(s, c) == {i \in 1 .. Len(sched[s].staged) : sched[s].staged[i].cron = c}
Inserted(s)   == {i \in 1 .. Len(sched[s].staged) : sched[s].staged[i].next # Never}

Applied(s, c) ==
    LET row == crons[c]
        chg == sched[s].staged[First(Changed(s, c))]
    IN IF Changed(s, c) = {} THEN row
       ELSE IF chg.next = Never THEN [row EXCEPT !.enabled = FALSE]
       ELSE [row EXCEPT !.last = chg.at, !.next = chg.next]

withTx(s) ==
    /\ sched[s].pc = "commit"
    /\ crons' = [c \in Crons |-> Applied(s, c)]
    /\ rows' = [id \in DOMAIN rows \cup {sched[s].staged[i].id : i \in Inserted(s)} |->
                   IF id \in DOMAIN rows THEN rows[id] ELSE Row("QUEUED", 0)]
    /\ spawned' = [c \in Crons |-> IF Changed(s, c) \cap Inserted(s) = {} THEN spawned[c]
                                  ELSE LET chg == sched[s].staged[First(Changed(s, c))]
                                       IN [slot |-> chg.slot, at |-> chg.at, prev |-> spawned[c].at]]
    /\ Rollback(s)
    /\ UNCHANGED <<ids, faults>>

(* The commit fails, or the replica dies and starts again.                   *)
Abort(s) ==
    /\ sched[s].pc # "idle"
    /\ Fault("abort")
    /\ Rollback(s)
    /\ UNCHANGED <<crons, ids, spawned, rows>>

Tick ==
    /\ now < mode.horizon /\ now' = now + 1
    /\ mode.prompt => \A c \in Crons : ~Due(c)
    /\ UNCHANGED <<mode, pool, cron>>

-----------------------------------------------------------------------------
PoolRest == <<consumer, sem, exec, started, retry, deliveries, worker, registry>>

Rpc(c) == /\ \/ \E s \in Schedulers, req \in mode.requests : CreateCron(s, c, req) /\ UNCHANGED faults
             \/ \E caller \in mode.callers : DeleteCron(c, caller) /\ UNCHANGED faults
             \/ \E expr \in mode.broken : Corrupt(c, expr)
          /\ UNCHANGED <<mode, rows, lanes, PoolRest, now>>

Pass(s) == /\ \/ TickOnce(s) /\ UNCHANGED <<rows, lanes, faults>>
              \/ fireCron(s) /\ UNCHANGED rows
              \/ withTx(s) /\ UNCHANGED lanes
           /\ UNCHANGED <<mode, PoolRest, now>>

Next ==
    \/ PoolNext /\ UNCHANGED <<now, cron>>
    \/ \E c \in mode.crons : Rpc(c)
    \/ \E s \in Schedulers : Pass(s) \/ (Abort(s) /\ UNCHANGED <<mode, lanes, PoolRest, now>>)
    \/ Tick

(* Goroutines that can run do, each consumer among them, handlers return     *)
(* (they have a timeout), the loop makes its passes, and time passes for     *)
(* those that wait.                                                          *)
Progress == \/ PoolProgress /\ UNCHANGED <<mode, now, cron>>
            \/ \E s \in Schedulers : Pass(s)

Spec == /\ Init /\ [][Next]_vars
        /\ WF_vars(Progress) /\ WF_pool(age)
        /\ \A l \in Lanes : WF_pool(ConsumerStep(l))

-----------------------------------------------------------------------------
Owners == {"system"} \cup {req.owner : req \in mode.requests}
Change == [cron : Crons, id : Nat, slot : Int, at : Nat, next : Int]

CronTypeOK ==
    /\ PoolTypeOK
    /\ now \in 0 .. mode.horizon /\ ids \in Nat
    /\ crons \in [Crons -> [state : {"none", "there", "gone"}, enabled : BOOLEAN, owner : Owners,
                           expr : 0 .. Len(Exprs), next : Int, last : Nat]]
    /\ sched \in [Schedulers -> [pc : {"idle", "fire", "commit"}, due : Seq(Crons), locked : SUBSET Crons,
                                 staged : Seq(Change)]]
    /\ spawned \in [Crons -> [slot : Int, at : Nat, prev : Int]]

(* What an expression means, minute by minute (the head of cron.go).         *)
(* Day-of-month and day-of-week are or-ed when both are restricted.  A field *)
(* is restricted when it lacks a value, as ParseCron has it; the head of     *)
(* cron.go says (not "*"), which for 1-31 or */1 is something else.          *)
PartHas(p, v, min) ==
    CASE p.base = "*" -> p.step = 0 \/ (v - min) % p.step = 0
      [] p.base = "range" -> v \in p.lo .. p.hi /\ (p.step = 0 \/ (v - p.lo) % p.step = 0)
      [] p.base = "value" -> v = p.lo \/ (p.step # 0 /\ v > p.lo /\ (v - p.lo) % p.step = 0)

FieldHas(field, v, min) == \E p \in field : PartHas(p, v, min)

Matches(expr, x) ==
    LET d == x \div MinutesPerDay
        dom(v) == FieldHas(expr.dom, v, 1)
        dow(v) == FieldHas(expr.dow, v, 0) \/ (v = 0 /\ FieldHas(expr.dow, WeekDays, 0))
    IN /\ FieldHas(expr.minute, x % MinutesPerHour, 0)
       /\ FieldHas(expr.hour, (x \div MinutesPerHour) % HoursPerDay, 0)
       /\ FieldHas(expr.month, Month(d), 1)
       /\ IF (\A v \in 1 .. DomMax : dom(v)) \/ (\A v \in 0 .. WeekDays - 1 : dow(v))
          THEN dom(Day(d)) /\ dow(Weekday(d)) ELSE dom(Day(d)) \/ dow(Weekday(d))

LastMinute == Horizon \div TicksPerMinute + cronMaxSearchDays * MinutesPerDay

Named == [e \in 1 .. Len(Exprs) |-> {x \in 0 .. LastMinute : Matches(Exprs[e], x)}]

(* No run is left out and none is made up: next_run_at is the first minute   *)
(* after the last run, or after the creation, that the expression names      *)
(* (cron.go Next, cron_scheduler.go fireCron).                               *)
NextIsFirst ==
    \A c \in Crons :
        crons[c].state = "there" /\ "corrupt" \notin faults =>
            LET next == crons[c].next \div TicksPerMinute
                last == crons[c].last \div TicksPerMinute
            IN {x \in last + 1 .. next : x \in Named[crons[c].expr]} = {next}

(* No replica reads a time the database has not come to; a replica that is   *)
(* behind it finds the slot it has just fired still ahead of it.             *)
NoneBehind == \A s \in Schedulers : mode.skew[s] >= 0

(* "a due schedule fires exactly once even across restarts", and "missed     *)
(* runs do NOT catch up": the jobs of a schedule are for different times,    *)
(* each after the firing before, over both replicas (cron_store.go dueCrons, *)
(* cron_scheduler.go TickOnce), as long as no replica's clock is behind that *)
(* of the database.                                                          *)
SlotFiredOnce ==
    NoneBehind => \A c \in Crons :
        spawned[c].prev = -1 \/ (spawned[c].prev < spawned[c].slot /\ spawned[c].slot <= spawned[c].at)

(* A job that a pass commits has its message on every topic it goes to, or a *)
(* worker has taken it from there (cron_scheduler.go fireCron publishes      *)
(* inside the transaction).  That does not make it run: a worker that takes  *)
(* the message before the commit finds no row and skips it, and the job      *)
(* stays QUEUED (NothingForgotten counts the message as lost).               *)
SpawnedIsPublished ==
    \A id \in DOMAIN rows \cap 1 .. ids : \A k \in 1 .. Len(executionTopics) :
        LET m == Msg(id, executionTopics[k])
        IN m \in started \/ \E n \in 1 .. Len(lanes[m.lane]) : lanes[m.lane][n] = m

(* A slot fires one job, and its message is published.                       *)
FiresOnce == SlotFiredOnce /\ SpawnedIsPublished

(* A schedule that is due fires, is switched off or is deleted, also when a  *)
(* row is broken, a replica dies in the middle of a pass or the broker fails *)
(* (cron_scheduler.go TickOnce, disableCron).                                *)
DueFires == NoneBehind => <>[](\A c \in Crons : ~Due(c))

(* Nobody waits for ever: the consumers of every lane for a slot, a worker   *)
(* for its own end, a schedule for its firing.                               *)
EverybodyServed == NobodyStarves /\ WorkerStops /\ DueFires
=============================================================================
