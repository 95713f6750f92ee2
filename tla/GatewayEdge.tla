----------------------------- MODULE GatewayEdge -----------------------------
(* The gateway between its clients and one upstream service: the middleware  *)
(* chain of a route (services/gateway/server.go wrapAPI), its timeout, the   *)
(* rate limiters, the circuit breaker and the retries of an upstream call,   *)
(* the health probes, the audit trail (audit_middleware.go, internal/audit)  *)
(* and the shutdown (internal/httpserver).                                   *)
(*                                                                           *)
(* A request is served by two goroutines.  The outer one reads the body of a *)
(* state-changing request.  http.TimeoutHandler runs the chain below it in a *)
(* goroutine of its own, the inner one; the outer one answers the client     *)
(* with what the inner one wrote, or with 503 when the context ends first,   *)
(* and then writes the audit event.  Time is counted in ticks.               *)
EXTENDS Naturals, Sequences, FiniteSets

CONSTANTS
    Requests,           \* the requests under way at a time
    Replicas,           \* gateway processes
    Modes,              \* scenarios: requests, routes, replicas, store, faults (how many) of kinds, ticks
                        \* (bound, for limited), once (a request is not followed by another),
                        \* limited (all requests have one rate-limit key), anyone (requests
                        \* without a good token, permission or body), slow (steps take time), paging
    breakerThreshold, breakerOpenFor, upstreamMaxRetries, upstreamCallTimeout,
    probeTimeout, apiTimeout,
    burst, bucketIdleTTL, rateLimitRedisCooldown,    \* one token per tick
    BufferSize, BatchSize, PageSize

ASSUME TimesAssumption ==
    /\ probeTimeout < upstreamCallTimeout /\ upstreamCallTimeout < apiTimeout
    /\ upstreamCallTimeout < breakerOpenFor
    /\ burst <= bucketIdleTTL
    /\ {breakerThreshold, probeTimeout, burst, BufferSize, BatchSize, PageSize} \subseteq Nat \ {0}

VARIABLES
    mode,
    req,        \* Requests -> its two goroutines
    breaker,    \* Replicas -> the circuit breaker of the upstream
    upstream,   \* "up", "down" (refuses at once) or "hung" (does not answer)
    memory,     \* Replicas -> the in-process bucket: tokens, idle
    shared,     \* the bucket in Redis
    circuit,    \* Replicas -> ticks the limiter still avoids Redis
    admitted,   \* history: requests admitted from the shared and from each in-process bucket,
                \* and the replicas whose calls of Redis have failed
    writer,     \* Replicas -> audit.Writer: where Run is, its channel, its batch
    rows,       \* the audit_events table, by id
    pager,      \* an administrator reading it page by page, newest first
    dropped,    \* events counted as dropped, or as a failed insert
    srv,        \* Replicas -> "up", "stopping", "drained", "stopped"
    ticks, faults

limiter == <<memory, shared, circuit, admitted>>
trail   == <<writer, rows, pager, dropped>>
vars    == <<mode, req, breaker, upstream, limiter, trail, srv, ticks, faults>>

-----------------------------------------------------------------------------
(* The routes: what the handlers ask of the upstream, and whether they say   *)
(* that it may be repeated.                                                  *)
Route(name, method, idempotent) == [name |-> name, method |-> method, idempotent |-> idempotent]

create     == Route("CreateJob", "POST", FALSE)
list       == Route("ListJobs", "GET", TRUE)
get        == Route("GetJob", "GET", TRUE)
cancel     == Route("CancelJob", "POST", FALSE)
requeue    == Route("RequeueJob", "POST", FALSE)
replay     == Route("ReplayJob", "POST", FALSE)
deliveries == Route("ListDeliveries", "GET", TRUE)
createCron == Route("CreateCron", "POST", FALSE)
listCrons  == Route("ListCrons", "GET", TRUE)
deleteCron == Route("DeleteCron", "DELETE", FALSE)
listUsers  == Route("ListUsers", "GET", TRUE)
getUser    == Route("GetUser", "GET", TRUE)
createUser == Route("CreateUser", "POST", FALSE)
updateUser == Route("UpdateUser", "PUT", FALSE)
removeUser == Route("DeleteUser", "DELETE", FALSE)

(* A probe of GET /api/health/services goes through the same call path, with *)
(* a context of its own that ends after probeTimeout.                        *)
grpcAlive  == Route("HealthProbe", "GET", TRUE)

Table == {create, list, get, cancel, requeue, replay, deliveries, createCron, listCrons, deleteCron,
          listUsers, getUser, createUser, updateUser, removeUser, grpcAlive}

auditableRequest(r) == req[r].route.method # "GET"

-----------------------------------------------------------------------------
OK           == 200
Unauthorized == 401
Forbidden    == 403
BadRequest   == 400
NotFound     == 404
TooMany      == 429
Internal     == 500
Unavailable  == 503
Status == {OK, BadRequest, Unauthorized, Forbidden, NotFound, TooMany, Internal, Unavailable}
None   == 0

(* kindFromGRPCCode and httpStatusForKind, for the codes of the model.       *)
fromGRPCError(code) ==
    CASE code = "OK" -> OK
      [] code = "NotFound" -> NotFound
      [] code \in {"Unavailable", "DeadlineExceeded"} -> Unavailable
      [] OTHER -> Internal

Inner == {"none", "authn", "authz", "limit", "eval", "before", "call", "backoff", "end"}
Outer == {"none", "reading", "open", "answered", "closed"}

Resting == [pc |-> "none", outer |-> "none", route |-> list, g |-> CHOOSE g \in Replicas : TRUE,
            token |-> TRUE, perm |-> TRUE, actor |-> FALSE, ctx |-> "live", attempt |-> 0, sends |-> 0,
            probe |-> FALSE, age |-> 0, callAge |-> 0, status |-> None, answer |-> None, late |-> FALSE]

Event == [r : Requests, outcome : {"success", "denied", "failure"}, actor : BOOLEAN]

TypeOK ==
    /\ mode \in Modes
    /\ \A r \in Requests :
          /\ req[r].pc \in Inner /\ req[r].outer \in Outer
          /\ req[r].route \in Table /\ req[r].g \in Replicas
          /\ {req[r].token, req[r].perm, req[r].actor, req[r].probe, req[r].late} \subseteq BOOLEAN
          /\ req[r].ctx \in {"live", "done"}
          /\ req[r].attempt \in 0 .. upstreamMaxRetries /\ req[r].sends \in 0 .. upstreamMaxRetries + 1
          /\ req[r].age \in 0 .. apiTimeout /\ req[r].callAge \in 0 .. upstreamCallTimeout
          /\ {req[r].status, req[r].answer} \subseteq Status \cup {None}
    /\ breaker \in [Replicas -> [state : {"closed", "open", "half-open"}, failures : 0 .. breakerThreshold,
                                 probeActive : BOOLEAN, age : 0 .. breakerOpenFor]]
    /\ upstream \in {"up", "down", "hung"}
    /\ memory \in [Replicas -> [tokens : 0 .. burst, idle : 0 .. bucketIdleTTL]]
    /\ shared \in [tokens : 0 .. burst, idle : 0 .. bucketIdleTTL]
    /\ circuit \in [Replicas -> 0 .. rateLimitRedisCooldown]
    /\ admitted \in [shared : Nat, memory : [Replicas -> Nat], failed : SUBSET Replicas]
    /\ \A g \in Replicas : /\ writer[g].pc \in {"run", "insert", "drain", "last", "done"}
                           /\ writer[g].ch \in Seq(Event) /\ Len(writer[g].ch) <= BufferSize
                           /\ writer[g].buf \in Seq(Event) /\ Len(writer[g].buf) <= BatchSize
    /\ rows \in Seq(Event) /\ dropped \subseteq Event
    /\ pager.pc \in {"idle", "paging", "done"} /\ pager.before \in Nat /\ pager.start \in Nat
    /\ pager.seen \in Seq(1 .. Len(rows))
    /\ srv \in [Replicas -> {"up", "stopping", "drained", "stopped"}]
    /\ ticks \in 0 .. mode.ticks
    /\ faults \subseteq mode.kinds

Full == [tokens |-> burst, idle |-> 0]

Init ==
    /\ mode \in Modes
    /\ req = [r \in Requests |-> Resting]
    /\ breaker = [g \in Replicas |-> [state |-> "closed", failures |-> 0, probeActive |-> FALSE, age |-> 0]]
    /\ upstream = "up"
    /\ memory = [g \in Replicas |-> Full] /\ shared = Full
    /\ circuit = [g \in Replicas |-> 0]
    /\ admitted = [shared |-> 0, memory |-> [g \in Replicas |-> 0], failed |-> {}]
    /\ writer = [g \in Replicas |-> [pc |-> "run", ch |-> <<>>, buf |-> <<>>]]
    /\ rows = <<>> /\ dropped = {}
    /\ pager = [pc |-> "idle", before |-> 0, start |-> 0, seen |-> <<>>]
    /\ srv = [g \in Replicas |-> "up"]
    /\ ticks = 0 /\ faults = {}

Fault(k) ==
    /\ k \in mode.kinds \ faults
    /\ Cardinality(faults) < mode.faults
    /\ faults' = faults \cup {k}

Min(a, b) == IF a < b THEN a ELSE b
Less(n)   == IF n = 0 THEN 0 ELSE n - 1

-----------------------------------------------------------------------------
(* The way in: auditRecord, TimeoutHandler, AuthN, auditActor, AuthZ.        *)

End(r, status) == [req[r] EXCEPT !.pc = "end", !.status = status, !.attempt = 0, !.callAge = 0, !.probe = FALSE]

(* The health report is a public route: the rate limit is its first layer.   *)
First(route) == IF route = grpcAlive THEN "limit" ELSE "authn"

Arrive(r, g, route, token, perm) ==
    /\ r \in mode.requests /\ req[r].outer = "none" /\ req[r].age = 0
    /\ g \in mode.replicas /\ srv[g] = "up" /\ route \in mode.routes
    /\ mode.anyone \/ (token /\ perm)
    /\ LET q == [Resting EXCEPT !.route = route, !.g = g, !.token = token, !.perm = perm]
       IN req' = [req EXCEPT ![r] = IF route.method # "GET" THEN [q EXCEPT !.outer = "reading"]
                                    ELSE [q EXCEPT !.outer = "open", !.pc = First(route)]]
    /\ UNCHANGED <<mode, breaker, upstream, limiter, trail, srv, ticks, faults>>

(* auditRecord has read the whole body, as slowly as the client sends it: no *)
(* timeout covers it.                                                        *)
readBody(r) ==
    /\ req[r].outer = "reading"
    /\ req' = [req EXCEPT ![r].outer = "open", ![r].pc = First(req[r].route)]
    /\ UNCHANGED <<mode, breaker, upstream, limiter, trail, srv, ticks, faults>>

auditActor(q) == [q EXCEPT !.actor = TRUE]

authenticate(r) ==
    /\ req[r].pc = "authn"
    /\ req' = [req EXCEPT ![r] = IF req[r].token THEN [auditActor(@) EXCEPT !.pc = "authz"]
                                 ELSE End(r, Unauthorized)]
    /\ UNCHANGED <<mode, breaker, upstream, limiter, trail, srv, ticks, faults>>

authorize(r) ==
    /\ req[r].pc = "authz"
    /\ req' = [req EXCEPT ![r] = IF req[r].perm THEN [@ EXCEPT !.pc = "limit"] ELSE End(r, Forbidden)]
    /\ UNCHANGED <<mode, breaker, upstream, limiter, trail, srv, ticks, faults>>

-----------------------------------------------------------------------------
(* The rate limit.                                                           *)

(* The time of a health probe counts from its start.                         *)
Admit(r, yes) ==
    req' = [req EXCEPT ![r] = CASE yes /\ @.route = grpcAlive -> [@ EXCEPT !.pc = "before", !.age = 0]
                                [] yes /\ @.route # grpcAlive -> [@ EXCEPT !.pc = "before"]
                                [] OTHER -> End(r, TooMany)]

(* allow: one token of the in-process bucket of g; why is g when a failure   *)
(* of Redis led here.                                                        *)
allow(r, g, why) ==
    LET yes == memory[g].tokens > 0 IN
    /\ memory' = [memory EXCEPT ![g] = [tokens |-> Less(@.tokens), idle |-> 0]]
    /\ admitted' = [admitted EXCEPT !.memory[g] = IF yes THEN @ + 1 ELSE @, !.failed = @ \cup why]
    /\ Admit(r, yes)

(* The script: one token of the shared bucket, for all replicas.             *)
redisTokenBucketScript(r) ==
    LET yes == shared.tokens > 0 IN
    /\ shared' = [tokens |-> Less(shared.tokens), idle |-> 0]
    /\ admitted' = [admitted EXCEPT !.shared = IF yes THEN @ + 1 ELSE @]
    /\ Admit(r, yes)

(* rateLimit and allowRequest, up to the call of Redis.                      *)
rateLimit(r) ==
    LET g == req[r].g IN
    /\ req[r].pc = "limit"
    /\ CASE ~mode.limited -> Admit(r, TRUE) /\ UNCHANGED <<memory, admitted>>
         [] mode.limited /\ (mode.store = "memory" \/ circuit[g] > 0) -> allow(r, g, {})
         [] OTHER -> req' = [req EXCEPT ![r].pc = "eval"] /\ UNCHANGED <<memory, admitted>>
    /\ UNCHANGED <<mode, breaker, upstream, shared, circuit, trail, srv, ticks, faults>>

Eval(r) ==
    /\ req[r].pc = "eval" /\ req[r].ctx = "live"
    /\ redisTokenBucketScript(r)
    /\ UNCHANGED <<mode, breaker, upstream, memory, circuit, trail, srv, ticks, faults>>

(* Any error of the call, the end of the request's own context included,     *)
(* opens the circuit, and the request takes its token in process.            *)
allowRequest(r) ==
    LET g == req[r].g IN
    /\ req[r].pc = "eval"
    /\ IF req[r].ctx = "live" THEN Fault("redis") ELSE UNCHANGED faults
    /\ circuit' = [circuit EXCEPT ![g] = rateLimitRedisCooldown]
    /\ allow(r, g, {g})
    /\ UNCHANGED <<mode, breaker, upstream, shared, trail, srv, ticks>>

(* The janitor drops an idle bucket; the next request finds a full one.      *)
sweepOnce(g) ==
    /\ mode.limited /\ memory[g] # Full
    /\ memory[g].idle = bucketIdleTTL
    /\ memory' = [memory EXCEPT ![g] = Full]
    /\ UNCHANGED <<mode, req, breaker, upstream, shared, circuit, admitted, trail, srv, ticks, faults>>

-----------------------------------------------------------------------------
(* The circuit breaker and the upstream call.                                *)

setStateLocked(b, to) == [b EXCEPT !.state = to, !.age = 0]

openError(b) == \/ b.state = "open" /\ b.age < breakerOpenFor
                \/ b.state = "half-open" /\ b.probeActive

(* Mutant: nobody notes that a probe is under way.                           *)
beforeMany(b) == IF b.state = "closed" THEN b ELSE setStateLocked(b, "half-open")

(* before, when it lets the call through.                                    *)
before(b) == IF b.state = "closed" THEN b
             ELSE [setStateLocked(b, "half-open") EXCEPT !.probeActive = TRUE]

after(b, success) ==
    CASE success -> [setStateLocked(b, "closed") EXCEPT !.failures = 0, !.probeActive = FALSE]
      [] ~success /\ b.state = "half-open" ->
            [setStateLocked(b, "open") EXCEPT !.failures = breakerThreshold, !.probeActive = FALSE]
      [] ~success /\ b.state = "closed" /\ b.failures + 1 >= breakerThreshold ->
            [setStateLocked(b, "open") EXCEPT !.failures = breakerThreshold]
      [] ~success /\ b.state = "closed" /\ b.failures + 1 < breakerThreshold -> [b EXCEPT !.failures = @ + 1]
      [] OTHER -> b

(* The handler finds fault with the request and makes no call.               *)
decodeJSON(r) ==
    /\ req[r].pc = "before" /\ req[r].attempt = 0 /\ auditableRequest(r)
    /\ mode.anyone
    /\ req' = [req EXCEPT ![r] = End(r, BadRequest)]
    /\ UNCHANGED <<mode, breaker, upstream, limiter, trail, srv, ticks, faults>>

(* It panics: the outer goroutine passes the panic on to Recovery, which     *)
(* answers 500, and on its way up auditRecord writes its event.              *)
panicked(r) ==
    /\ req[r].pc = "before" /\ req[r].attempt = 0
    /\ Fault("panic")
    /\ req' = [req EXCEPT ![r] = End(r, Internal)]
    /\ UNCHANGED <<mode, breaker, upstream, limiter, trail, srv, ticks>>

(* call: the breaker is asked before every attempt; an attempt is sent.      *)
call(r) ==
    LET g == req[r].g IN
    /\ req[r].pc = "before"
    /\ IF openError(breaker[g])
       THEN req' = [req EXCEPT ![r] = End(r, Unavailable)] /\ UNCHANGED breaker
       ELSE /\ breaker' = [breaker EXCEPT ![g] = before(@)]
            /\ req' = [req EXCEPT ![r].pc = "call", ![r].sends = @ + 1, ![r].callAge = 0,
                                  ![r].probe = breaker[g].state # "closed"]
    /\ UNCHANGED <<mode, upstream, limiter, trail, srv, ticks, faults>>

Return(r, success, next) ==
    /\ breaker' = [breaker EXCEPT ![req[r].g] = after(@, success)]
    /\ req' = [req EXCEPT ![r] = next]
    /\ UNCHANGED <<mode, upstream, limiter, trail, srv, ticks, faults>>

(* The upstream answers, with a result or with an error of its own; either   *)
(* shows that it is alive.                                                   *)
answered(r, code) ==
    /\ req[r].pc = "call" /\ upstream = "up"
    /\ code = "OK" \/ (code = "NotFound" /\ req[r].ctx = "live")
    /\ Return(r, TRUE, End(r, fromGRPCError(code)))

Backoff(r) == [req[r] EXCEPT !.pc = "backoff", !.callAge = 0, !.probe = FALSE]

(* Mutant: whatever failed is tried again.                                   *)
unavailableRetries(r) ==
    /\ req[r].pc = "call" /\ req[r].ctx = "live" /\ upstream = "down"
    /\ Return(r, FALSE, IF req[r].attempt < upstreamMaxRetries THEN Backoff(r) ELSE End(r, fromGRPCError("Unavailable")))

(* Unavailable is tried again for calls that may be repeated.                *)
unavailable(r) ==
    /\ req[r].pc = "call" /\ req[r].ctx = "live" /\ upstream = "down"
    /\ Return(r, FALSE, IF req[r].route.idempotent /\ req[r].attempt < upstreamMaxRetries THEN Backoff(r)
                        ELSE End(r, fromGRPCError("Unavailable")))

(* The timeout of the attempt.                                               *)
deadlineExceeded(r) ==
    /\ req[r].pc = "call" /\ req[r].ctx = "live"
    /\ upstream = "hung" /\ req[r].callAge = upstreamCallTimeout
    /\ Return(r, FALSE, End(r, fromGRPCError("DeadlineExceeded")))

(* The caller went away: the upstream is not blamed, and after is not        *)
(* called.                                                                   *)
callerGone(r) ==
    /\ req[r].pc = "call" /\ req[r].ctx = "done"
    /\ \E code \in {"Canceled", "DeadlineExceeded"} : req' = [req EXCEPT ![r] = End(r, fromGRPCError(code))]
    /\ UNCHANGED <<mode, breaker, upstream, limiter, trail, srv, ticks, faults>>

retryBackoff(r) ==
    /\ req[r].pc = "backoff"
    /\ \/ req' = [req EXCEPT ![r].pc = "before", ![r].attempt = @ + 1]
       \/ req[r].ctx = "done" /\ req' = [req EXCEPT ![r] = End(r, Unavailable)]
    /\ UNCHANGED <<mode, breaker, upstream, limiter, trail, srv, ticks, faults>>

-----------------------------------------------------------------------------
(* The way out.                                                              *)

(* A request whose two goroutines are over makes room for another, from the  *)
(* next tick on.                                                             *)
Rested  == [Resting EXCEPT !.age = 1]
Rest(q) == IF q.pc = "end" /\ q.outer = "closed" /\ ~mode.once THEN Rested ELSE q

(* TimeoutHandler: the inner goroutine is over, or the context is.  The      *)
(* health report is a 200 whatever its probes found, and waits for them.     *)
Timeout(r) ==
    /\ req[r].outer = "open"
    /\ \/ /\ req[r].pc = "end"
          /\ req' = [req EXCEPT ![r].outer = "answered",
                                ![r].answer = IF req[r].route = grpcAlive /\ req[r].status # TooMany THEN OK
                                                ELSE req[r].status]
       \/ /\ req[r].ctx = "done" /\ req[r].route # grpcAlive
          /\ req' = [req EXCEPT ![r].outer = "answered", ![r].answer = Unavailable]
    /\ UNCHANGED <<mode, breaker, upstream, limiter, trail, srv, ticks, faults>>

auditOutcome(status) == CASE status = OK -> "success"
                          [] status \in {Unauthorized, Forbidden} -> "denied"
                          [] OTHER -> "failure"

(* Emit: never blocks; an event that finds the channel full is counted.      *)
Emit(g, e) ==
    IF Len(writer[g].ch) < BufferSize
    THEN writer' = [writer EXCEPT ![g].ch = Append(@, e)] /\ UNCHANGED dropped
    ELSE dropped' = dropped \cup {e} /\ UNCHANGED writer

Finalized(r, outcome) ==
    /\ req[r].outer = "answered"
    /\ req' = [req EXCEPT ![r] = Rest([@ EXCEPT !.outer = "closed", !.age = 0])]
    /\ IF auditableRequest(r) THEN Emit(req[r].g, [r |-> r, outcome |-> outcome, actor |-> req[r].actor])
       ELSE UNCHANGED <<writer, dropped>>
    /\ UNCHANGED <<mode, breaker, upstream, limiter, rows, pager, srv, ticks, faults>>

finalizeAudit(r) == Finalized(r, auditOutcome(req[r].answer))

(* The inner goroutine of a request that has been answered is over.          *)
unwound(r) ==
    /\ req[r].pc = "end" /\ req[r].outer = "closed" /\ ~mode.once
    /\ req' = [req EXCEPT ![r] = Rested]
    /\ UNCHANGED <<mode, breaker, upstream, limiter, trail, srv, ticks, faults>>

(* The context ends: the client disconnects.                                 *)
disconnect(r) ==
    /\ req[r].outer \in {"reading", "open"} /\ req[r].ctx = "live"
    /\ Fault("client")
    /\ req' = [req EXCEPT ![r].ctx = "done"]
    /\ UNCHANGED <<mode, breaker, upstream, limiter, trail, srv, ticks>>

(* Or its time is up: apiTimeout of a request, probeTimeout of a probe.      *)
Deadline(r) == IF req[r].route = grpcAlive THEN probeTimeout ELSE apiTimeout

timeUp(r) ==
    /\ req[r].outer = "open" /\ req[r].ctx = "live" /\ req[r].age = Deadline(r)
    /\ req' = [req EXCEPT ![r].ctx = "done"]
    /\ UNCHANGED <<mode, breaker, upstream, limiter, trail, srv, ticks, faults>>

-----------------------------------------------------------------------------
(* The audit writer: one goroutine per replica.                              *)

InFlight(g) == {r \in Requests : req[r].g = g /\ req[r].outer \in {"reading", "open", "answered"}}

Write(g, w) == writer' = [writer EXCEPT ![g] = w]

(* Run takes an event; a full batch is inserted.                             *)
takeEvent(g) ==
    LET w    == writer[g]
        full == Len(w.buf) + 1 >= BatchSize
    IN /\ w.pc = "run" /\ w.ch # <<>>
       /\ Write(g, [pc |-> IF full THEN "insert" ELSE "run", ch |-> Tail(w.ch), buf |-> Append(w.buf, Head(w.ch))])
       /\ UNCHANGED <<mode, req, breaker, upstream, limiter, rows, pager, dropped, srv, ticks, faults>>

(* Run's ticker: what has been taken is inserted.                            *)
ticker(g) ==
    /\ writer[g].pc = "run" /\ writer[g].buf # <<>>
    /\ Write(g, [writer[g] EXCEPT !.pc = "insert"])
    /\ UNCHANGED <<mode, req, breaker, upstream, limiter, rows, pager, dropped, srv, ticks, faults>>

(* Mutant: the writer's context ends after Wait (the order of two defers).   *)
runDoneLate(g) ==
    /\ writer[g].pc = "run" /\ srv[g] = "stopped"
    /\ Write(g, [writer[g] EXCEPT !.pc = "drain"])
    /\ UNCHANGED <<mode, req, breaker, upstream, limiter, rows, pager, dropped, srv, ticks, faults>>

(* Run's ctx.Done: the server is down.                                       *)
runDone(g) ==
    /\ writer[g].pc = "run" /\ srv[g] = "drained"
    /\ Write(g, [writer[g] EXCEPT !.pc = "drain"])
    /\ UNCHANGED <<mode, req, breaker, upstream, limiter, rows, pager, dropped, srv, ticks, faults>>

(* drain: the channel is emptied batch by batch.                             *)
drain(g) ==
    LET w    == writer[g]
        full == Len(w.buf) + 1 >= BatchSize
    IN /\ w.pc = "drain"
       /\ Write(g, CASE w.ch # <<>> -> [pc |-> IF full THEN "last" ELSE "drain",
                                        ch |-> Tail(w.ch), buf |-> Append(w.buf, Head(w.ch))]
                     [] w.ch = <<>> /\ w.buf # <<>> -> [w EXCEPT !.pc = "last"]
                     [] OTHER -> [w EXCEPT !.pc = "done"])
       /\ UNCHANGED <<mode, req, breaker, upstream, limiter, rows, pager, dropped, srv, ticks, faults>>

Batch(g) == {writer[g].buf[i] : i \in 1 .. Len(writer[g].buf)}

(* flushUntil: the batch is inserted as one, or dropped and counted.         *)
flushUntil(g) ==
    /\ writer[g].pc \in {"insert", "last"}
    /\ Write(g, [writer[g] EXCEPT !.pc = IF @ = "insert" THEN "run" ELSE "drain", !.buf = <<>>])
    /\ \/ rows' = rows \o writer[g].buf /\ UNCHANGED <<dropped, faults>>
       \/ Fault("insert") /\ dropped' = dropped \cup Batch(g) /\ UNCHANGED rows
    /\ UNCHANGED <<mode, req, breaker, upstream, limiter, pager, srv, ticks>>

-----------------------------------------------------------------------------
(* GET /api/audit: the pages of the trail, newest first.                     *)

(* List: the ids of a page, the rows below the cursor.                       *)
List(cursor) ==
    LET top == IF cursor = 0 THEN Len(rows) ELSE cursor - 1
        n   == Min(PageSize, top)
    IN [i \in 1 .. n |-> top + 1 - i]

(* The handler: a full page comes with the cursor of the next one.           *)
auditList ==
    LET page == List(pager.before) IN
    /\ mode.paging /\ pager.pc # "done"
    /\ pager' = [pc     |-> IF Len(page) = PageSize THEN "paging" ELSE "done",
                 before |-> IF Len(page) = PageSize THEN page[Len(page)] ELSE pager.before,
                 start  |-> IF pager.pc = "idle" THEN Len(rows) ELSE pager.start,
                 seen   |-> pager.seen \o page]
    /\ UNCHANGED <<mode, req, breaker, upstream, limiter, writer, rows, dropped, srv, ticks, faults>>

-----------------------------------------------------------------------------
(* The shutdown, the upstream and time.                                      *)

(* SIGTERM: the listener is closed.  The context that ends is the base       *)
(* context of every request under way.                                       *)
ListenAndServe(g) ==
    /\ srv[g] = "up"
    /\ Fault("sigterm")
    /\ srv' = [srv EXCEPT ![g] = "stopping"]
    /\ req' = [r \in Requests |-> IF req[r].g = g /\ req[r].outer \in {"reading", "open"}
                                  THEN [req[r] EXCEPT !.ctx = "done"]
                                  ELSE req[r]]
    /\ UNCHANGED <<mode, breaker, upstream, limiter, trail, ticks>>

(* Mutant: the writer is stopped with the server, not after it.              *)
ShutdownEarly(g) ==
    /\ srv[g] = "stopping"
    /\ srv' = [srv EXCEPT ![g] = "drained"]
    /\ UNCHANGED <<mode, req, breaker, upstream, limiter, trail, ticks, faults>>

(* Shutdown returns when every request has been answered, or with an error   *)
(* when its 15 seconds are over: then only requests whose body is still      *)
(* being read are left, as the others are cut off by their context.  Either  *)
(* way Run goes on to end the writer's context.                              *)
Shutdown(g) ==
    /\ srv[g] = "stopping"
    /\ \A r \in InFlight(g) : req[r].outer = "reading"
    /\ srv' = [srv EXCEPT ![g] = "drained"]
    /\ req' = [r \in Requests |-> IF r \in InFlight(g) THEN [req[r] EXCEPT !.late = TRUE] ELSE req[r]]
    /\ UNCHANGED <<mode, breaker, upstream, limiter, trail, ticks, faults>>

(* Run waits for the writer and returns.                                     *)
Wait(g) ==
    /\ srv[g] = "drained" /\ writer[g].pc = "done"
    /\ srv' = [srv EXCEPT ![g] = "stopped"]
    /\ UNCHANGED <<mode, req, breaker, upstream, limiter, trail, ticks, faults>>

Outage(u) ==
    /\ upstream # u
    /\ \/ u = "up" /\ UNCHANGED faults
       \/ u # "up" /\ Fault(u)
    /\ upstream' = u
    /\ UNCHANGED <<mode, req, breaker, limiter, trail, srv, ticks>>

(* A bucket refilled for a tick.                                             *)
refill(b) == [tokens |-> Min(burst, b.tokens + 1), idle |-> Min(bucketIdleTTL, b.idle + 1)]

Aged(q) ==
    [q EXCEPT !.age = IF q.outer = "open" THEN @ + 1 ELSE 0,
              !.callAge = IF q.pc = "call" THEN Min(upstreamCallTimeout, @ + 1) ELSE @]

(* A tick waits for the deadlines that are due, and, where the scenario is   *)
(* not slow, for every step but the wait for an upstream that hangs.         *)
Quick(r) == \/ req[r].pc \in {"none", "end"} /\ req[r].outer \in {"none", "reading", "closed"}
            \/ req[r].pc = "call" /\ upstream = "hung"

Due(r) == /\ req[r].ctx = "live"
          /\ \/ req[r].outer = "open" /\ req[r].age = Deadline(r)
             \/ req[r].pc = "call" /\ req[r].callAge = upstreamCallTimeout

Timed == \/ \E r \in Requests : req[r].outer = "open" \/ req[r].age > 0
         \/ \E g \in Replicas : breaker[g].state = "open" /\ breaker[g].age < breakerOpenFor
         \/ mode.limited

Tick ==
    /\ Timed
    /\ \A r \in Requests : ~Due(r) /\ (req[r].ctx = "done" => req[r].outer # "open")
    /\ mode.slow \/ \A r \in Requests : Quick(r)
    /\ mode.limited => ticks < mode.ticks
    /\ ticks' = IF mode.limited THEN ticks + 1 ELSE ticks
    /\ req' = [r \in Requests |-> Aged(req[r])]
    /\ breaker' = [g \in Replicas |-> [breaker[g] EXCEPT
                      !.age = IF breaker[g].state = "open" THEN Min(breakerOpenFor, @ + 1) ELSE @]]
    /\ memory' = [g \in Replicas |-> IF mode.limited THEN refill(memory[g]) ELSE memory[g]]
    /\ shared' = IF mode.limited THEN refill(shared) ELSE shared
    /\ circuit' = [g \in Replicas |-> Less(circuit[g])]
    /\ UNCHANGED <<mode, upstream, admitted, trail, srv, faults>>

-----------------------------------------------------------------------------
InnerStep(r) ==
    \/ authenticate(r) \/ authorize(r) \/ rateLimit(r) \/ Eval(r) \/ allowRequest(r)
    \/ decodeJSON(r) \/ panicked(r)
    \/ call(r) \/ (\E code \in {"OK", "NotFound"} : answered(r, code)) \/ unavailable(r)
    \/ deadlineExceeded(r) \/ callerGone(r) \/ retryBackoff(r)

OuterStep(r) == timeUp(r) \/ Timeout(r) \/ finalizeAudit(r) \/ unwound(r)

Traffic(r) == \E g \in Replicas, route \in mode.routes, token, perm \in BOOLEAN : Arrive(r, g, route, token, perm)

WriterStep(g) == takeEvent(g) \/ ticker(g) \/ runDone(g) \/ drain(g) \/ flushUntil(g)

Stopping(g) == Shutdown(g) \/ Wait(g)

Next ==
    \/ \E r \in Requests : InnerStep(r) \/ OuterStep(r) \/ Traffic(r) \/ readBody(r) \/ disconnect(r)
    \/ \E g \in Replicas : WriterStep(g) \/ Stopping(g) \/ ListenAndServe(g) \/ sweepOnce(g)
    \/ \E u \in {"up", "down", "hung"} : Outage(u)
    \/ auditList
    \/ Tick

(* Every goroutine is scheduled, time passes, and requests keep coming.  No  *)
(* client has to send the rest of its body.                                  *)
Fairness ==
    /\ \A r \in Requests : WF_vars(InnerStep(r)) /\ WF_vars(OuterStep(r) \/ Traffic(r))
    /\ \A g \in Replicas : WF_vars(WriterStep(g) \/ Stopping(g))
    /\ WF_vars(Tick)

Spec == Init /\ [][Next]_vars /\ Fairness

-----------------------------------------------------------------------------
(* One probe: while the breaker is half-open at most one call of the replica *)
(* is with the upstream (breaker.go before), also when calls from before it  *)
(* opened are still to be answered.                                          *)
OneProbe ==
    \A g \in Replicas :
        /\ Cardinality({r \in Requests : req[r].g = g /\ req[r].pc = "call" /\ req[r].probe}) <= 1
        /\ (\E r \in Requests : req[r].g = g /\ req[r].pc = "call" /\ req[r].probe)
              => breaker[g].state # "open"

(* A state-changing request reaches the upstream at most once, whatever      *)
(* fails (grpc_client.go call: retries are for idempotent calls), and no     *)
(* request more than upstreamMaxRetries + 1 times.                           *)
MutationsOnce ==
    \A r \in Requests : req[r].sends <= IF auditableRequest(r) THEN 1 ELSE upstreamMaxRetries + 1

(* The rate limit: all replicas together admit no more than the burst and    *)
(* the refill from the shared bucket.  A replica none of whose calls of      *)
(* Redis has failed admits nothing else; one whose call has admits a budget  *)
(* of its own beside it, also when the janitor drops buckets (ratelimit.go   *)
(* sweepOnce).  A call that its client cuts off counts as failed             *)
(* (ratelimit_redis.go allowRequest), so that this is what is left of "ONE   *)
(* shared budget per key" of ratelimit.go with a Redis that is well.         *)
RateBudget ==
    /\ admitted.shared <= burst + ticks
    /\ \A g \in Replicas : admitted.memory[g] <= IF mode.store = "memory" \/ g \in admitted.failed
                                                 THEN burst + ticks ELSE 0

Written == {rows[i] : i \in 1 .. Len(rows)}
Events  == Written \cup dropped \cup UNION {{writer[g].ch[i] : i \in 1 .. Len(writer[g].ch)} \cup Batch(g) : g \in Replicas}

(* The audit trail says what the client was told: an event has the outcome   *)
(* of the status that was sent, also when the timeout answered before the    *)
(* handler, and a request refused for its permissions is attributed          *)
(* (audit_middleware.go: auditRecord is outside the timeout, auditActor      *)
(* before authorize).                                                        *)
AuditMatchesAnswer ==
    \A e \in Events : /\ e.outcome = auditOutcome(req[e.r].answer)
                      /\ req[e.r].answer = Forbidden => e.actor
                      /\ e.actor => req[e.r].token

Copies(e) == Cardinality({g \in Replicas : \E i \in 1 .. Len(writer[g].ch) : writer[g].ch[i] = e})
             + Cardinality({g \in Replicas : e \in Batch(g)})
             + Cardinality({i \in 1 .. Len(rows) : rows[i] = e})
             + Cardinality(dropped \cap {e})

(* No audit event is lost without being counted, and none is written twice:  *)
(* every state-changing request that was answered has one event, waiting,    *)
(* written or counted as dropped.  What a gateway that has stopped still     *)
(* holds is the events of requests that were reading their body when         *)
(* Shutdown's deadline passed (server.go: the writer stops after the server; *)
(* audit.go Run: "events emitted after the drain gives up").                 *)
AuditConserved ==
    /\ \A r \in Requests : (mode.once /\ req[r].outer = "closed" /\ auditableRequest(r))
                              => Cardinality({e \in Events : e.r = r}) = 1
    /\ \A e \in Events : Copies(e) = 1
    /\ \A g \in Replicas : srv[g] = "stopped" =>
          writer[g].buf = <<>> /\ \A i \in 1 .. Len(writer[g].ch) : req[writer[g].ch[i].r].late

(* Reading the trail page by page while it grows: no row is shown twice, and *)
(* a reader who has come to the end has seen every row that was there when   *)
(* they began (audit store.go List, audit_handler.go list).                  *)
PagesCover ==
    /\ \A i, j \in 1 .. Len(pager.seen) : i < j => pager.seen[i] > pager.seen[j]
    /\ pager.pc = "done" => \A id \in 1 .. pager.start : \E i \in 1 .. Len(pager.seen) : pager.seen[i] = id

(* What the gateway lets through is bounded: no state-changing call is made  *)
(* twice and no client gets more than its share, counted per bucket          *)
(* (grpc_client.go, ratelimit.go).                                           *)
UpstreamSpared == MutationsOnce /\ RateBudget

(* The audit trail says what the clients were told, accounts for every       *)
(* event, and can be read (internal/audit).                                  *)
AuditTrail == AuditMatchesAnswer /\ AuditConserved /\ PagesCover

(* A gateway that is told to stop does, also when a client never sends the   *)
(* rest of its body: its requests are answered or given up, the writer       *)
(* drains, Run returns (httpserver.go, server.go).  And every audit event is *)
(* written or counted in the end, a lone one too (Run's ticker), but for     *)
(* those of the requests given up.                                           *)
GatewayStops ==
    /\ \A g \in Replicas : (srv[g] = "stopping") ~> (srv[g] = "stopped")
    /\ <>[](\A e \in Events : e \in Written \cup dropped \/ req[e.r].late)

(* "After a cool-down it lets one probe through; if the probe succeeds the   *)
(* breaker closes again": once the upstream is back for good, the breaker is *)
(* closed again and again while requests keep coming (breaker.go).           *)
BreakerRecovers ==
    <>[](upstream = "up" /\ ~mode.once) => \A g \in Replicas : []<>(breaker[g].state = "closed")
=============================================================================
