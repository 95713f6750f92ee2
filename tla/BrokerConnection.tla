-------------------------- MODULE BrokerConnection --------------------------
(* A producer, the reconnecting transport under it, and the broker's server *)
(* at the other end: internal/broker/client (Producer, transport),          *)
(* internal/broker/server (Run, serveConn, handlePreAuth) and the shutdown  *)
(* of Broker.Run.                                                           *)
(*                                                                          *)
(* A message is produced once, directly or in a micro-batch.  A call is     *)
(* named by its first message, which stands for its correlation id; the     *)
(* messages that share the call are its riders.  Connections are numbered,  *)
(* one number for each dial.                                                *)
EXTENDS Naturals, Sequences, FiniteSets

CONSTANTS
    Msgs,
    Modes,              \* deployments and their bounds: auth, tls and batch (BOOLEAN), creds
                        \* ("good", "reader", "bad", "none"), msgs (the messages produced), dials
                        \* (connections ever dialled), faults (how many) of kinds, a subset of
                        \* {"cut", "stall", "ctx", "idle", "slow", "backend", "close", "shutdown"}
    MaxDials,           \* bound: the largest dials of a mode
    maxInFlightPerConn, \* requests of one connection handled at once
    maxConns,           \* connections served at once
    maxAuthFailures,    \* rejected frames before a connection is closed
    flushCount          \* messages that make a full batch

None  == 0
Conns == 1 .. MaxDials
AUTH  == "AUTH"

ASSUME BoundsAssumption == {maxInFlightPerConn, maxAuthFailures, flushCount} \subseteq Nat \ {0}
ASSUME DialsAssumption  == MaxDials \in Nat
ASSUME NamesAssumption  == {AUTH, "busy", "none"} \cap Msgs = {}
ASSUME ModesAssumption  == \A md \in Modes : /\ md.msgs \subseteq Msgs /\ md.dials \in 0 .. MaxDials
                                            /\ md.faults \in Nat
                                            /\ {md.auth, md.batch, md.tls} \subseteq BOOLEAN

VARIABLES
    mode,       \* how broker and client are configured
    pc,         \* Msgs -> where the message or its call is
    res,        \* Msgs -> what Produce returned
    riders,     \* Msgs -> the messages of the call
    at,         \* Msgs -> the connection the call got
    conn,       \* transport.conn
    pending,    \* transport.pending: calls with an answer to come
    closed,     \* transport.closed
    batchCh,    \* Producer.batchCh
    batch,      \* what batchLoop has collected
    intake,     \* "open", "closed" (batchCh), "done" (batchDone)
    toServer,   \* Conns -> frames on their way to the broker
    toClient,   \* Conns -> frames on their way to the client
    copen,      \* Conns -> the client's socket is open
    sopen,      \* Conns -> the broker's socket is open
    reader,     \* Conns -> the transport's readLoop
    serve,      \* Conns -> serveConn
    principal,  \* Conns -> AUTH succeeded
    failures,   \* Conns -> authFailures
    handling,   \* Conns -> requests with a handler in dispatch
    held,       \* Conns -> the frame the read loop waits with for a free slot
    sending,    \* Conns -> responses of handlers about to send to resCh
    resCh,      \* Conns -> the response queue
    writer,     \* Conns -> the writer goroutine runs
    run,        \* Server.Run and Broker.Run
    applied,    \* Msgs -> times the backend executed the message
    faults      \* how many there were, and whether a handler was too slow

producer == <<batchCh, batch, intake>>
client   == <<pc, res, riders, at, conn, pending, closed>>
wire     == <<toServer, toClient, copen, sopen>>
server   == <<serve, principal, failures, handling, held, sending, resCh, writer>>
vars     == <<mode, producer, client, wire, reader, server, run, applied, faults>>

Calling == {"ensure", "auth", "install", "register", "write", "wait"}
Serving == {"read", "slot", "drain"}
Frame   == [id : Msgs \cup {AUTH, "busy"}, ok : BOOLEAN]

TypeOK ==
    /\ mode \in Modes
    /\ pc \in [Msgs -> Calling \cup {"idle", "queued", "batched", "riding", "done"}]
    /\ res \in [Msgs -> {"none", "ok", "error", "closed", "timeout"}]
    /\ riders \in [Msgs -> SUBSET Msgs]
    /\ at \in [Msgs -> Conns \cup {None}]
    /\ conn \in Conns \cup {None}
    /\ pending \subseteq Msgs
    /\ closed \in BOOLEAN
    /\ batchCh \in Seq(Msgs) /\ Len(batchCh) <= flushCount * 4
    /\ batch \in Seq(Msgs) /\ Len(batch) <= flushCount
    /\ intake \in {"open", "closed", "done"}
    /\ toServer \in [Conns -> Seq(Msgs \cup {AUTH})]
    /\ toClient \in [Conns -> Seq(Frame)]
    /\ copen \in [Conns -> BOOLEAN] /\ sopen \in [Conns -> BOOLEAN]
    /\ reader \in [Conns -> {"none", "on", "swept", "off"}]
    /\ serve \in [Conns -> {"none", "backlog", "ended"} \cup Serving]
    /\ principal \in [Conns -> BOOLEAN]
    /\ failures \in [Conns -> 0 .. maxAuthFailures]
    /\ handling \in [Conns -> SUBSET (Msgs \cup {AUTH})]
    /\ held \in [Conns -> Msgs \cup {AUTH, "none"}]
    /\ sending \in [Conns -> SUBSET Frame]
    /\ resCh \in [Conns -> Seq(Frame)]
    /\ \A k \in Conns : Len(resCh[k]) <= maxInFlightPerConn
    /\ writer \in [Conns -> BOOLEAN]
    /\ run \in {"up", "draining", "forced", "returned", "stopped"}
    /\ applied \in [Msgs -> Nat]
    /\ faults \in [count : 0 .. mode.faults, slow : BOOLEAN]

NoFault  == UNCHANGED faults
Fault(k) == /\ k \in mode.kinds
            /\ faults.count < mode.faults
            /\ faults' = [count |-> faults.count + 1, slow |-> faults.slow \/ k = "slow"]

Init ==
    /\ mode \in Modes
    /\ pc = [m \in Msgs |-> "idle"] /\ res = [m \in Msgs |-> "none"]
    /\ riders = [m \in Msgs |-> {}] /\ at = [m \in Msgs |-> None]
    /\ conn = None /\ pending = {} /\ closed = FALSE
    /\ batchCh = <<>> /\ batch = <<>> /\ intake = "open"
    /\ toServer = [k \in Conns |-> <<>>] /\ toClient = [k \in Conns |-> <<>>]
    /\ copen = [k \in Conns |-> FALSE] /\ sopen = [k \in Conns |-> FALSE]
    /\ reader = [k \in Conns |-> "none"] /\ serve = [k \in Conns |-> "none"]
    /\ principal = [k \in Conns |-> FALSE] /\ failures = [k \in Conns |-> 0]
    /\ handling = [k \in Conns |-> {}] /\ sending = [k \in Conns |-> {}]
    /\ held = [k \in Conns |-> "none"]
    /\ resCh = [k \in Conns |-> <<>>] /\ writer = [k \in Conns |-> FALSE]
    /\ run = "up" /\ applied = [m \in Msgs |-> 0]
    /\ faults = [count |-> 0, slow |-> FALSE]
-----------------------------------------------------------------------------
(* Returning from a call.                                                   *)

\* Produce returns once; a caller whose context ended has returned before.
Settle(S, r) == res' = [m \in Msgs |-> IF m \in S /\ res[m] = "none" THEN r ELSE res[m]]

\* The messages of a set of calls.
Carried(C) == UNION {riders[c] : c \in C}

\* The calls of C return r, flushTopic handing it to every rider.
Return(C, r) ==
    /\ pc' = [m \in Msgs |-> IF m \in Carried(C) THEN "done" ELSE pc[m]]
    /\ at' = [m \in Msgs |-> IF m \in C THEN None ELSE at[m]]
    /\ Settle(Carried(C), r)

Goto(m, p) == pc' = [pc EXCEPT ![m] = p]

\* The call goes on at p, with connection k.
Move(c, p, k) == Goto(c, p) /\ at' = [at EXCEPT ![c] = k] /\ UNCHANGED res
-----------------------------------------------------------------------------
(* The producer.                                                            *)

\* produce without batching: the caller's goroutine makes the call.
sendBatch(m) ==
    /\ ~mode.batch /\ m \in mode.msgs /\ pc[m] = "idle"
    /\ riders' = [riders EXCEPT ![m] = {m}]
    /\ IF closed
       THEN pc' = [pc EXCEPT ![m] = "done"] /\ Settle({m}, "closed")
       ELSE Goto(m, "ensure") /\ UNCHANGED res
    /\ UNCHANGED <<mode, producer, at, conn, pending, closed, wire, reader, server, run,
                   applied, faults>>

\* produce with batching: the message waits in the channel.
produce(m) ==
    /\ mode.batch /\ m \in mode.msgs /\ pc[m] = "idle" /\ intake = "open"
    /\ Len(batchCh) < flushCount * 4
    /\ batchCh' = Append(batchCh, m)
    /\ Goto(m, "queued")
    /\ UNCHANGED <<mode, batch, intake, res, riders, at, conn, pending, closed, wire, reader,
                   server, run, applied, faults>>

\* batchLoop is inside flushTopic.
Flushing == \E m \in Msgs : pc[m] \in Calling

batchLoop ==
    /\ mode.batch /\ batchCh # <<>>
    /\ ~Flushing /\ Len(batch) < flushCount
    /\ batch' = Append(batch, Head(batchCh))
    /\ batchCh' = Tail(batchCh)
    /\ Goto(Head(batchCh), "batched")
    /\ UNCHANGED <<mode, intake, res, riders, at, conn, pending, closed, wire, reader, server,
                   run, applied, faults>>

\* A full batch, the ticker, or the closed channel: one call for the batch.
flushTopic ==
    /\ batch # <<>> /\ ~Flushing
    /\ LET msgs == {batch[i] : i \in DOMAIN batch} IN
       /\ riders' = [riders EXCEPT ![Head(batch)] = msgs]
       /\ pc' = [m \in Msgs |-> IF m = Head(batch) THEN "ensure"
                                ELSE IF m \in msgs THEN "riding" ELSE pc[m]]
    /\ batch' = <<>>
    /\ UNCHANGED <<mode, batchCh, intake, res, at, conn, pending, closed, wire, reader, server,
                   run, applied, faults>>

\* A batching producer closes the channel and waits for batchLoop.  Nobody
\* produces any more: a send on the closed channel would panic.
CloseIntake ==
    /\ mode.batch /\ intake = "open" /\ Fault("close")
    /\ intake' = "closed"
    /\ UNCHANGED <<mode, batchCh, batch, client, wire, reader, server, run, applied>>

batchDone ==
    /\ intake = "closed" /\ batchCh = <<>> /\ batch = <<>> /\ ~Flushing
    /\ intake' = "done"
    /\ UNCHANGED <<mode, batchCh, batch, client, wire, reader, server, run, applied, faults>>
-----------------------------------------------------------------------------
(* The transport.                                                           *)

\* The connections the kernel still carries frames on.
Up(k) == copen[k] /\ sopen[k]

\* The client closes its socket: what was on its way to it is lost.
CloseClient(K) == /\ copen' = [k \in Conns |-> copen[k] /\ k \notin K]
                  /\ toClient' = [k \in Conns |-> IF k \in K THEN <<>> ELSE toClient[k]]

\* A dial can succeed: the listener is up and the bound is not reached.
Undialled == {k \in 1 .. mode.dials : serve[k] = "none"}
Dialable  == run = "up" /\ Undialled # {}

\* ensureConnected: the live connection, or a dial.  With credentials the AUTH
\* frame follows at once.
ensureConnected(c) ==
    /\ pc[c] = "ensure"
    /\ \/ /\ conn # None
          /\ Move(c, "register", conn)
          /\ UNCHANGED <<wire, serve>>
       \/ /\ conn = None /\ closed
          /\ Return({c}, "closed")
          /\ UNCHANGED <<wire, serve>>
       \/ /\ conn = None /\ ~closed /\ Dialable
          /\ LET k == CHOOSE j \in Undialled : TRUE
             IN  /\ Move(c, IF mode.creds = "none" THEN "install" ELSE "auth", k)
                 /\ serve' = [serve EXCEPT ![k] = "backlog"]
                 /\ copen' = [copen EXCEPT ![k] = TRUE]
                 /\ sopen' = [sopen EXCEPT ![k] = TRUE]
                 /\ toServer' = [toServer EXCEPT ![k] = IF mode.creds = "none" THEN @ ELSE Append(@, AUTH)]
          /\ UNCHANGED toClient
    /\ UNCHANGED <<mode, producer, riders, conn, pending, closed, reader, principal, failures,
                   handling, held, sending, resCh, writer, run, applied, faults>>

\* authHandshake: a protocol error fails the call, a lost connection makes it
\* dial again.
authHandshake(c) ==
    /\ pc[c] = "auth"
    /\ LET k == at[c] IN
       \/ /\ toClient[k] # <<>>
          /\ IF Head(toClient[k]).ok
             THEN /\ toClient' = [toClient EXCEPT ![k] = Tail(@)]
                  /\ Move(c, "install", k)
                  /\ UNCHANGED copen
             ELSE CloseClient({k}) /\ Return({c}, "error")
       \/ /\ toClient[k] = <<>> /\ ~Up(k)
          /\ CloseClient({k})
          /\ Move(c, "ensure", None)
    /\ UNCHANGED <<mode, producer, riders, conn, pending, closed, toServer, sopen, reader,
                   server, run, applied, faults>>

\* The end of ensureConnected: the dialled connection becomes the live one,
\* unless another goroutine was faster.  closed is not looked at again.
install(c) ==
    /\ pc[c] = "install"
    /\ IF conn # None
       THEN CloseClient({at[c]}) /\ Move(c, "ensure", None) /\ UNCHANGED <<conn, reader>>
       ELSE /\ conn' = at[c]
            /\ reader' = [reader EXCEPT ![at[c]] = "on"]
            /\ Move(c, "register", at[c])
            /\ UNCHANGED <<copen, toClient>>
    /\ UNCHANGED <<mode, producer, riders, pending, closed, toServer, sopen, server,
                   run, applied, faults>>

register(c) ==
    /\ pc[c] = "register"
    /\ IF closed
       THEN Return({c}, "closed") /\ UNCHANGED pending
       ELSE Move(c, "write", at[c]) /\ pending' = pending \cup {c}
    /\ UNCHANGED <<mode, producer, riders, conn, closed, wire, reader, server, run, applied,
                   faults>>

\* The calls fail that are in the map when it is taken.
FailPending(C) == pending' = pending \ C /\ Return(C, "error")

\* removePending and dropConn: every call on the live connection fails with
\* the one whose write failed.
dropConn(c) ==
    IF conn = at[c]
    THEN conn' = None /\ CloseClient({at[c]}) /\ FailPending(pending \cup {c})
    ELSE UNCHANGED <<conn, copen, toClient>> /\ FailPending({c})

\* WriteFrame of a call.  A socket this side closed refuses the frame; one the
\* peer closed may or may not seem to take it; a stalled one takes a part of it,
\* which the broker never sees as a frame.
write(c) ==
    /\ pc[c] = "write"
    /\ \/ /\ copen[at[c]]
          /\ toServer' = IF sopen[at[c]] THEN [toServer EXCEPT ![at[c]] = Append(@, c)] ELSE toServer
          /\ Move(c, "wait", at[c])
          /\ UNCHANGED <<conn, pending, copen, toClient>> /\ NoFault
       \/ /\ IF Up(at[c]) THEN Fault("stall") ELSE NoFault
          /\ dropConn(c) /\ UNCHANGED toServer
    /\ UNCHANGED <<mode, producer, riders, closed, sopen, reader, server, run, applied>>

\* No response can come: the call registered after readLoop took the map and
\* wrote before readLoop closed the socket.
Orphaned(c) == pc[c] = "wait" /\ reader[at[c]] \in {"swept", "off"}

\* The caller's context ends.  It does so of itself when nothing else can end
\* the call, and may at any time.
CtxDone(c) ==
    /\ pc[c] \in {"ensure", "wait"}
    /\ IF Orphaned(c) \/ (pc[c] = "ensure" /\ conn = None /\ ~Dialable) THEN NoFault ELSE Fault("ctx")
    /\ pending' = pending \ {c}
    /\ Return({c}, "timeout")
    /\ UNCHANGED <<mode, producer, riders, conn, closed, wire, reader, server, run, applied>>

\* The caller of a batched message stops waiting; the message stays where it is.
CallerGone(m) ==
    /\ pc[m] \in {"queued", "batched", "riding"} /\ res[m] = "none" /\ Fault("ctx")
    /\ Settle({m}, "timeout")
    /\ UNCHANGED <<mode, producer, pc, riders, at, conn, pending, closed, wire, reader, server,
                   run, applied>>

\* readLoop: a response goes to the call with its correlation id, if that one
\* still waits.
readLoop(k) ==
    /\ reader[k] = "on" /\ copen[k] /\ toClient[k] # <<>>
    /\ LET f == Head(toClient[k])
           C == pending \cap {f.id}
       IN  pending' = pending \ C /\ Return(C, IF f.ok THEN "ok" ELSE "error")
    /\ toClient' = [toClient EXCEPT ![k] = Tail(@)]
    /\ UNCHANGED <<mode, producer, riders, conn, closed, toServer, copen, sopen, reader,
                   server, run, applied, faults>>

\* The read of readLoop(k) returns an error.
ReadFails(k) == reader[k] = "on" /\ (~copen[k] \/ (~sopen[k] /\ toClient[k] = <<>>))

\* Mutant: the calls that waited on the connection are made again.
readLoopErrorRetries(k) ==
    /\ ReadFails(k)
    /\ conn' = IF conn = k THEN None ELSE conn
    /\ pending' = {}
    /\ pc' = [m \in Msgs |-> IF m \in pending THEN "ensure" ELSE pc[m]]
    /\ reader' = [reader EXCEPT ![k] = "swept"]
    /\ UNCHANGED <<mode, producer, res, riders, at, closed, wire, server, run, applied, faults>>

\* readLoop on an error: the whole map is taken and failed, also the calls that
\* are on a newer connection.
readLoopError(k) ==
    /\ ReadFails(k)
    /\ conn' = IF conn = k THEN None ELSE conn
    /\ FailPending(pending)
    /\ reader' = [reader EXCEPT ![k] = "swept"]
    /\ UNCHANGED <<mode, producer, riders, closed, wire, server, run, applied, faults>>

readLoopEnd(k) ==
    /\ reader[k] = "swept"
    /\ reader' = [reader EXCEPT ![k] = "off"]
    /\ CloseClient({k})
    /\ UNCHANGED <<mode, producer, client, toServer, sopen, server, run, applied, faults>>

\* transport.Close; a batching producer has flushed before.
Close ==
    /\ ~closed /\ (IF mode.batch THEN intake = "done" /\ NoFault ELSE Fault("close"))
    /\ closed' = TRUE
    /\ conn' = None
    /\ CloseClient({conn})
    /\ pending' = {}
    /\ Return(pending, "closed")
    /\ UNCHANGED <<mode, producer, riders, toServer, sopen, reader, server, run, applied>>
-----------------------------------------------------------------------------
(* The broker's server.                                                     *)

Tracked == {k \in Conns : serve[k] \in Serving}

\* The broker closes its socket.  What the client sent is lost.
CloseServer(K) == /\ sopen' = [k \in Conns |-> sopen[k] /\ k \notin K]
                  /\ toServer' = [k \in Conns |-> IF k \in K THEN <<>> ELSE toServer[k]]

\* Mutant: the accept loop does not look whether shutdown has begun.
ClosingUnseen == FALSE

Closing == run # "up"

\* The accept loop: closing, at capacity (rejectConn), or one more connection.
Accept(k) ==
    /\ serve[k] = "backlog"
    /\ IF Closing
       THEN /\ serve' = [serve EXCEPT ![k] = "ended"]
            /\ CloseServer({k}) /\ UNCHANGED <<toClient, writer>>
       ELSE IF Cardinality(Tracked) >= maxConns
       THEN /\ serve' = [serve EXCEPT ![k] = "ended"]
            /\ toClient' = IF mode.tls \/ ~copen[k] THEN toClient
                           ELSE [toClient EXCEPT ![k] = Append(@, [id |-> "busy", ok |-> FALSE])]
            /\ CloseServer({k}) /\ UNCHANGED writer
       ELSE /\ serve' = [serve EXCEPT ![k] = "read"]
            /\ writer' = [writer EXCEPT ![k] = TRUE]
            /\ UNCHANGED <<sopen, toServer, toClient>>
    /\ UNCHANGED <<mode, producer, client, copen, reader, principal, failures, handling, held,
                   sending, resCh, run, applied, faults>>

\* The read loop of serveConn has a frame.
HasFrame(k) == serve[k] = "read" /\ sopen[k] /\ toServer[k] # <<>>
Gated(k)    == mode.auth /\ ~principal[k]
TakeFrame(k) == toServer' = [toServer EXCEPT ![k] = Tail(@)]

\* Authenticate, and that nothing but AUTH passes the gate.
Authenticate(f) == f = AUTH /\ mode.creds \in {"good", "reader"}

\* authorize for a produce: in open mode, or with a grant to write the topic.
authorize(k) == mode.auth => principal[k] /\ mode.creds # "reader"

\* handlePreAuth, on the read loop's own goroutine.
handlePreAuth(k) ==
    /\ HasFrame(k) /\ Gated(k)
    /\ Len(resCh[k]) < maxInFlightPerConn
    /\ LET f  == Head(toServer[k])
           ok == Authenticate(f)
       IN  /\ resCh' = [resCh EXCEPT ![k] = Append(@, [id |-> f, ok |-> ok])]
           /\ principal' = [principal EXCEPT ![k] = ok]
           /\ failures' = [failures EXCEPT ![k] = IF ok THEN @ ELSE @ + 1]
           /\ serve' = [serve EXCEPT ![k] = IF failures'[k] < maxAuthFailures THEN @ ELSE "drain"]
    /\ TakeFrame(k)
    /\ UNCHANGED <<mode, producer, client, toClient, copen, sopen, reader, handling, held,
                   sending, writer, run, applied, faults>>

InFlight(k) == Cardinality(handling[k]) + Cardinality(sending[k])

\* serveConn starts a handler for the frame, or waits with it for a free slot.
serveFrame(k) ==
    /\ HasFrame(k) /\ ~Gated(k)
    /\ IF InFlight(k) < maxInFlightPerConn
       THEN /\ handling' = [handling EXCEPT ![k] = @ \cup {Head(toServer[k])}]
            /\ serve' = [serve EXCEPT ![k] = IF Closing THEN "drain" ELSE @]
            /\ UNCHANGED held
       ELSE /\ held' = [held EXCEPT ![k] = Head(toServer[k])]
            /\ serve' = [serve EXCEPT ![k] = "slot"]
            /\ UNCHANGED handling
    /\ TakeFrame(k)
    /\ UNCHANGED <<mode, producer, client, toClient, copen, sopen, reader, principal, failures,
                   sending, resCh, writer, run, applied, faults>>

\* A slot is free; or shutdown begins and the frame is dropped.
slotFree(k) ==
    /\ serve[k] = "slot"
    /\ \/ /\ InFlight(k) < maxInFlightPerConn
          /\ handling' = [handling EXCEPT ![k] = @ \cup {held[k]}]
          /\ serve' = [serve EXCEPT ![k] = IF Closing THEN "drain" ELSE "read"]
       \/ /\ Closing
          /\ serve' = [serve EXCEPT ![k] = "drain"]
          /\ UNCHANGED handling
    /\ held' = [held EXCEPT ![k] = "none"]
    /\ UNCHANGED <<mode, producer, client, wire, reader, principal, failures, sending, resCh,
                   writer, run, applied, faults>>

Answer(k, f, ok) == /\ handling' = [handling EXCEPT ![k] = @ \ {f}]
                    /\ sending' = [sending EXCEPT ![k] = @ \cup {[id |-> f, ok |-> ok]}]

\* dispatch: one answer for each frame.  In open mode AUTH is answered
\* UNKNOWN_OPCODE, which the client takes as leave to go on.  A failed produce
\* may have appended all the same.
dispatch(k, f) ==
    /\ f \in handling[k]
    /\ \/ f = AUTH /\ Answer(k, f, ~mode.auth) /\ UNCHANGED applied /\ NoFault
       \/ f # AUTH /\ ~authorize(k) /\ Answer(k, f, FALSE) /\ UNCHANGED applied /\ NoFault
       \/ /\ f # AUTH /\ authorize(k)
          /\ applied' = [m \in Msgs |-> applied[m] + (IF m \in riders[f] THEN 1 ELSE 0)]
          /\ \/ Answer(k, f, TRUE) /\ NoFault
             \/ Answer(k, f, FALSE) /\ Fault("backend")
       \/ f # AUTH /\ authorize(k) /\ Answer(k, f, FALSE) /\ Fault("backend") /\ UNCHANGED applied
    /\ UNCHANGED <<mode, producer, client, wire, reader, serve, principal, failures, held, resCh,
                   writer, run>>

\* The handler sends to resCh, which may be full, and frees its slot.
sendResponse(k, r) ==
    /\ r \in sending[k] /\ Len(resCh[k]) < maxInFlightPerConn
    /\ sending' = [sending EXCEPT ![k] = @ \ {r}]
    /\ resCh' = [resCh EXCEPT ![k] = Append(@, r)]
    /\ UNCHANGED <<mode, producer, client, wire, reader, serve, principal, failures, handling,
                   held, writer, run, applied, faults>>

\* Mutant: a failed write ends the writer and leaves the connection open.
writeErrorOpen(k) == writer' = [writer EXCEPT ![k] = FALSE] /\ UNCHANGED <<sopen, toServer>>

\* The writer gives up: it closes the connection and returns, without taking
\* what else is in resCh.
writeError(k) == writer' = [writer EXCEPT ![k] = FALSE] /\ CloseServer({k})

\* The writer goroutine takes a response.  A write to a socket the peer closed
\* may or may not seem to succeed; a client that does not read makes it fail.
writeResponse(k) ==
    /\ writer[k] /\ resCh[k] # <<>>
    /\ resCh' = [resCh EXCEPT ![k] = Tail(@)]
    /\ \/ /\ sopen[k]
          /\ toClient' = IF copen[k] THEN [toClient EXCEPT ![k] = Append(@, Head(resCh[k]))] ELSE toClient
          /\ UNCHANGED <<writer, sopen, toServer>> /\ NoFault
       \/ /\ IF Up(k) THEN Fault("stall") ELSE NoFault
          /\ writeError(k) /\ UNCHANGED toClient
    /\ UNCHANGED <<mode, producer, client, copen, reader, serve, principal, failures, handling,
                   held, sending, run, applied>>

\* No call is being made.
Quiet == \A m \in Msgs : pc[m] \in {"idle", "done"}

\* A connection that sends nothing for the idle (or AUTH) timeout.
idleTimeout(k) == toServer[k] = <<>> /\ (IF Quiet THEN NoFault ELSE Fault("idle"))

\* The read loop ends: EOF, a closed socket, the deadline.
serveReadError(k) ==
    /\ serve[k] = "read"
    /\ \/ (~sopen[k] \/ (~copen[k] /\ toServer[k] = <<>>)) /\ NoFault
       \/ Up(k) /\ idleTimeout(k)
    /\ serve' = [serve EXCEPT ![k] = "drain"]
    /\ UNCHANGED <<mode, producer, client, wire, reader, principal, failures, handling, held,
                   sending, resCh, writer, run, applied>>

\* The epilogue: handlers.Wait, close(resCh), the writer's end, the defers.
serveEnd(k) ==
    /\ serve[k] = "drain"
    /\ handling[k] = {} /\ sending[k] = {}
    /\ writer[k] => resCh[k] = <<>>
    /\ serve' = [serve EXCEPT ![k] = "ended"]
    /\ writer' = [writer EXCEPT ![k] = FALSE]
    /\ resCh' = [resCh EXCEPT ![k] = <<>>]
    /\ principal' = [principal EXCEPT ![k] = FALSE] /\ failures' = [failures EXCEPT ![k] = 0]
    /\ CloseServer({k})
    /\ UNCHANGED <<mode, producer, client, toClient, copen, reader, handling, held, sending, run,
                   applied, faults>>

\* The network drops a connection.
Cut(k) ==
    /\ Up(k) /\ Fault("cut")
    /\ copen' = [copen EXCEPT ![k] = FALSE] /\ sopen' = [sopen EXCEPT ![k] = FALSE]
    /\ toServer' = [toServer EXCEPT ![k] = <<>>] /\ toClient' = [toClient EXCEPT ![k] = <<>>]
    /\ UNCHANGED <<mode, producer, client, reader, server, run, applied>>
-----------------------------------------------------------------------------
(* Shutdown.                                                                *)

\* The writer is gone, resCh is full and a handler wants to send to it.
Jammed(k) == ~writer[k] /\ Len(resCh[k]) = maxInFlightPerConn /\ sending[k] # {}

RunStep == UNCHANGED <<mode, producer, client, toClient, copen, reader, server, applied>>

Shutdown == run = "up" /\ run' = "draining" /\ UNCHANGED <<sopen, toServer>> /\ Fault("shutdown") /\ RunStep

\* wg.Wait returns.
drained == /\ run \in {"draining", "forced"} /\ Tracked = {}
           /\ run' = "returned" /\ UNCHANGED <<sopen, toServer>> /\ NoFault /\ RunStep

\* The drain deadline: closeAllConns.
drainDeadline == /\ run = "draining" /\ Tracked # {}
                 /\ run' = "forced" /\ CloseServer(Tracked) /\ NoFault /\ RunStep

\* Only handlers that cannot send keep the connection: nothing of it can move.
Stuck(k) == serve[k] = "drain" /\ Jammed(k) /\ handling[k] = {}

\* The second deadline: Run returns although a connection is still there.
giveUp == /\ run = "forced" /\ Tracked # {}
          /\ run' = "returned" /\ UNCHANGED <<sopen, toServer>>
          /\ IF \A k \in Tracked : Stuck(k) THEN NoFault ELSE Fault("slow")
          /\ RunStep

\* Broker.Run after the server: the writers' channels and the store close.
closeWriters == run = "returned" /\ run' = "stopped" /\ UNCHANGED <<sopen, toServer>> /\ NoFault /\ RunStep
-----------------------------------------------------------------------------
Optional == \/ \E m \in Msgs : sendBatch(m) \/ produce(m) \/ CallerGone(m)
            \/ CloseIntake \/ Close \/ Shutdown \/ (\E k \in Conns : Cut(k))

Progress == \/ batchLoop \/ flushTopic \/ batchDone
            \/ \E c \in Msgs : \/ ensureConnected(c) \/ authHandshake(c) \/ install(c)
                               \/ register(c) \/ write(c) \/ CtxDone(c)
            \/ \E k \in Conns : \/ readLoop(k) \/ readLoopError(k) \/ readLoopEnd(k)
                                \/ Accept(k) \/ handlePreAuth(k) \/ serveFrame(k) \/ slotFree(k)
                                \/ (\E f \in handling[k] : dispatch(k, f))
                                \/ (\E r \in sending[k] : sendResponse(k, r))
                                \/ writeResponse(k) \/ serveReadError(k) \/ serveEnd(k)
            \/ drained \/ drainDeadline \/ giveUp \/ closeWriters

Next == Optional \/ Progress

Spec     == Init /\ [][Next]_vars
\* Goroutines run, deadlines pass.  Nobody has to produce, close or shut down.
FairSpec == Spec /\ WF_vars(Progress)
-----------------------------------------------------------------------------
(* Properties.                                                              *)

\* transport.call never makes a request twice: whatever connection is lost and
\* whenever, the broker executes a message at most once, and never without the
\* AUTH and the grant it asks for, however the frames are pipelined (serveConn,
\* dispatch).  Produce reports success only for what was executed: responses
\* find their own call although calls time out and change connection.
AppliedOnce ==
    \A m \in Msgs : /\ applied[m] <= 1
                    /\ mode.auth /\ mode.creds # "good" => applied[m] = 0
                    /\ res[m] = "ok" => applied[m] = 1

\* When Broker.Run closes the partition writers no handler is in the backend,
\* unless one outlived both drain deadlines.
BackendOutlivesHandlers ==
    run = "stopped" /\ ~faults.slow => \A k \in Conns : handling[k] = {}

\* Every call returns; its context has to end it only when the broker cannot be
\* dialled or when it registered after its connection's sweep.  And every
\* connection's goroutine ends and frees its slot, also that of a connection
\* installed after Close, unless a response queue is jammed behind a writer that
\* gave up.
EveryCallReturns ==
    <>[](/\ \A m \in Msgs : pc[m] \in {"idle", "done"}
         /\ \A k \in Conns : serve[k] \in {"none", "ended"} \/ Jammed(k))
=============================================================================
