---------------------------- MODULE WebsocketHub ----------------------------
(***************************************************************************)
(* The realtime service (services/websocket): connections in rooms, frames *)
(* queued for slow or closing clients, the fanout between replicas over    *)
(* Redis pub/sub, presence keys, and the drain at shutdown.                *)
(*                                                                         *)
(* A goroutine is the sequence of operations it has still to do (todo):    *)
(* one operation is one critical section of the hub, one Redis command or  *)
(* one close.  A connection's goroutine is its HTTP handler first and its  *)
(* readPump then; a node's is its Redis subscriber first and, once that    *)
(* has returned, the main goroutine in Hub.Shutdown.                       *)
(*                                                                         *)
(* Left out: the presence announcements (announce), frames that only tell  *)
(* other clients of a change of the key; the content of frames; metrics.   *)
(***************************************************************************)
EXTENDS Integers, FiniteSets, Sequences

CONSTANTS
    Conns,        \* connections, each of one user
    Nodes,        \* replicas of the service
    Starts,       \* where the load balancer sends them, and what is left of the bounds
    User,         \* User[c]: the user whose token connection c presents
    Topics,       \* rooms a client may join
    Messages,     \* room messages and job events
    AllowList,    \* WS_ALLOWED_ORIGINS is set
    AllowAnon,    \* WS_ALLOW_ANONYMOUS
    MaxFrames,    \* bound: frames the clients send
    FaultKinds,   \* the faults that may happen
    MaxFaults     \* bound: how many of them happen

ASSUME JobsRoomAssumption   == <<"room", "jobs">> \in Topics
ASSUME ConnsAssumption      == IsFiniteSet(Conns) /\ Conns \cap Nodes = {}
ASSUME StartsAssumption     ==
    Starts \subseteq [node : [Conns -> Nodes], frames : 0 .. MaxFrames, faults : 0 .. MaxFaults]
ASSUME BoundsAssumption     == MaxFrames \in Nat /\ MaxFaults \in Nat

VARIABLES
    node,         \* node[c]: the replica that serves connection c
    registered,   \* Hub.users: c is in its user's set
    rooms,        \* conn.rooms and Hub.rooms: the rooms of c
    total,        \* Hub.total
    done,         \* conn.done is closed
    socket,       \* the websocket of c
    reader,       \* readPump
    writer,       \* writePump
    refresher,    \* Presence.RefreshLoop
    todo,         \* what each goroutine has still to do
    key,          \* presence:user:<id> exists in Redis
    inbox,        \* messages of the node's Redis subscription, in order
    status,       \* of the replica's process
    got,          \* got[k][c][m]: how often m was queued for c by a broadcast of kind k
    unsent,       \* messages nobody has published yet
    late,         \* connections registered after the drain took its snapshot
    frames,       \* frames of clients so far
    faults        \* faults so far

hub   == <<registered, rooms, total>>
pumps == <<reader, writer, refresher, socket>>
vars  == <<node, registered, rooms, total, done, socket, reader, writer,
           refresher, todo, key, inbox, status, got, unsent, late, frames, faults>>

Users      == {User[c] : c \in Conns}
jobsRoom   == <<"room", "jobs">>      \* carries the job events
userRoom(u) == <<"user", u>>
AllRooms   == Topics \cup {userRoom(u) : u \in Users}
Goroutines == Conns \cup Nodes
Pump       == {"none", "run", "exit"}
Events     == [kind : {"room"}, arg : Topics, msg : Messages]
                \cup [kind : {"event"}, arg : Users, msg : Messages]
Ops        == [op : {"register", "pumps", "shut", "reply"}, arg : Conns]
                \cup [op : {"set", "del", "deliver"}, arg : Users]
                \cup [op : {"broadcast", "fanout"}, arg : Topics, msg : Messages]
                \cup [op : {"owner"}, arg : Users, msg : Messages]
                \cup [op : {"unregister", "close"}, arg : SUBSET Conns]

\* The calls of BroadcastRoom that carry messages: to the room a message or a job
\* event is for, and to the personal room of a job event's owner.
Broadcasts == {"broadcast", "owner"}

Fault(k) == k \in FaultKinds /\ faults < MaxFaults /\ faults' = faults + 1

\* The connections in a replica's users map.
Local(n) == {c \in Conns : node[c] = n /\ registered[c]}
NodeOf(g) == IF g \in Nodes THEN g ELSE node[g]

Init ==
    /\ \E s \in Starts : node = s.node /\ frames = s.frames /\ faults = s.faults
    /\ registered = [c \in Conns |-> FALSE]
    /\ rooms      = [c \in Conns |-> {}]
    /\ total      = [n \in Nodes |-> 0]
    /\ done       = [c \in Conns |-> FALSE]
    /\ socket     = [c \in Conns |-> "none"]
    /\ reader     = [c \in Conns |-> "none"]
    /\ writer     = [c \in Conns |-> "none"]
    /\ refresher  = [c \in Conns |-> "none"]
    /\ todo       = [g \in Goroutines |-> <<>>]
    /\ key        = [u \in Users |-> FALSE]
    /\ inbox      = [n \in Nodes |-> <<>>]
    /\ status     = [n \in Nodes |-> "up"]
    /\ got        = [k \in Broadcasts |-> [c \in Conns |-> [m \in Messages |-> 0]]]
    /\ unsent     = Messages
    /\ late       = {}
-----------------------------------------------------------------------------
(* Operations of a goroutine, as data.                                      *)

Op(name, x)       == [op |-> name, arg |-> x]
Broadcast(r, m)   == [op |-> "broadcast", arg |-> r, msg |-> m]
PublishRoom(r, m) == [op |-> "fanout", arg |-> r, msg |-> m]
ToOwner(u, m)     == [op |-> "owner", arg |-> u, msg |-> m]

\* Hub.dropSlow of the connections of cs, one after the other in any order (a Go
\* map is ranged over), and the tail of readPump, which does the same for its own.
dropSlow(cs)   == IF cs = {} THEN <<>> ELSE <<Op("unregister", cs)>>
cleanup(c)     == <<Op("unregister", {c}), Op("shut", c)>>

\* Every connection of cs is asked to close.
CloseAll(cs)   == IF cs = {} THEN <<>> ELSE <<Op("close", cs)>>

\* Mutant: done is left open.
AfterwardsOpen(c, cs) == dropSlow(cs \ {c})

\* What follows the Unregister of c, one of cs: c is closed, then the next one.
Afterwards(c, cs) == <<Op("close", {c})>> \o dropSlow(cs \ {c})

\* The goroutine's head operation is replaced by those it starts with.
Then(g, ops)  == todo' = [todo EXCEPT ![g] = ops \o Tail(@)]
Head1(g)      == todo[g][1]
Doing(g, name) == todo[g] # <<>> /\ Head1(g).op = name
-----------------------------------------------------------------------------
(* Frames.                                                                  *)

\* The connections of cs that take a frame: a closing connection does not, and
\* one whose queue is full (a slow consumer) does not either.  Those that do not
\* are evicted once the lock is released.
Accepting(cs, slow) == {c \in cs \ slow : ~done[c]}

\* Which connections are slow at this moment: nobody, or one.
Slow(slow, cs) == \/ slow = {} /\ faults' = faults
                  \/ Fault("slow") /\ \E c \in cs : ~done[c] /\ slow = {c}

\* The room a broadcast of kind k is for.
RoomOf(k, x) == IF k = "owner" THEN userRoom(x) ELSE x

BroadcastRoom(k, g) ==
    /\ Doing(g, k)
    /\ LET m  == Head1(g).msg
           cs == {c \in Conns : node[c] = NodeOf(g) /\ RoomOf(k, Head1(g).arg) \in rooms[c]}
       IN  \E slow \in SUBSET cs :
             /\ Slow(slow, cs)
             /\ Then(g, dropSlow(cs \ Accepting(cs, slow)))
             /\ got' = [got EXCEPT ![k] =
                          [c \in Conns |-> IF c \in Accepting(cs, slow)
                                           THEN [got[k][c] EXCEPT ![m] = @ + 1] ELSE got[k][c]]]
    /\ UNCHANGED <<node, hub, done, pumps, key, inbox, status, unsent, late, frames>>

\* A direct message: the sender is told when nobody took it.
DeliverUser(c) ==
    /\ Doing(c, "deliver")
    /\ LET cs == {d \in Local(node[c]) : User[d] = Head1(c).arg}
       IN  \E slow \in SUBSET cs :
             /\ Slow(slow, cs)
             /\ Then(c, dropSlow(cs \ Accepting(cs, slow))
                        \o IF Accepting(cs, slow) = {} THEN <<Op("reply", c)>> ELSE <<>>)
    /\ UNCHANGED <<node, hub, done, pumps, key, inbox, status, got, unsent, late, frames>>

\* sendOut: a connection whose own queue is full evicts itself.
sendOut(c) ==
    /\ Doing(c, "reply")
    /\ \E slow \in SUBSET {c} : Slow(slow, {c}) /\ Then(c, dropSlow(slow))
    /\ UNCHANGED <<node, hub, done, pumps, key, inbox, status, got, unsent, late, frames>>
-----------------------------------------------------------------------------
(* The hub's maps.                                                          *)

Register(c) ==
    /\ Doing(c, "register")
    /\ Then(c, <<Op("set", User[c])>>)
    /\ registered' = [registered EXCEPT ![c] = TRUE]
    /\ rooms' = [rooms EXCEPT ![c] = @ \cup {userRoom(User[c])}]
    /\ total' = [total EXCEPT ![node[c]] = @ + 1]
    /\ late' = IF status[node[c]] = "drain" THEN late \cup {c} ELSE late
    /\ UNCHANGED <<node, done, pumps, key, inbox, status, got, unsent, frames, faults>>

\* The connection is still in its user's set: Unregister is idempotent.
Known(c) == registered[c]

\* Mutant: the count is not taken back.
CountKept(n) == total[n]

\* Hub.total once a connection is off.
CountDown(n) == total[n] - 1

Unregister(g) ==
    /\ Doing(g, "unregister")
    /\ \E c \in Head1(g).arg :
          LET last == ~\E d \in Local(node[c]) \ {c} : User[d] = User[c]
              next == Afterwards(c, Head1(g).arg)
          IN  IF Known(c)
              THEN /\ registered' = [registered EXCEPT ![c] = FALSE]
                   /\ rooms' = [rooms EXCEPT ![c] = {}]
                   /\ total' = [total EXCEPT ![node[c]] = CountDown(node[c])]
                   /\ Then(g, IF last THEN <<Op("del", User[c])>> \o next ELSE next)
              ELSE Then(g, next) /\ UNCHANGED hub
    /\ UNCHANGED <<node, done, pumps, key, inbox, status, got, unsent, late, frames, faults>>

\* Hub.Join takes a connection whether or not it is registered.
Join(c, r) ==
    /\ rooms' = [rooms EXCEPT ![c] = @ \cup {r}]
    /\ todo' = [todo EXCEPT ![c] = IF r \in rooms[c] THEN <<>> ELSE <<Op("reply", c)>>]
    /\ UNCHANGED unsent

Leave(c, r) ==
    /\ rooms' = [rooms EXCEPT ![c] = @ \ {r}]
    /\ UNCHANGED <<todo, unsent>>

\* Only a member publishes: the local broadcast first, the fanout after it.
Publish(c, r) ==
    /\ UNCHANGED rooms
    /\ IF r \in rooms[c]
       THEN \E m \in unsent :
               /\ unsent' = unsent \ {m}
               /\ todo' = [todo EXCEPT ![c] = <<Broadcast(r, m), PublishRoom(r, m)>>]
       ELSE unsent' = unsent /\ todo' = [todo EXCEPT ![c] = <<Op("reply", c)>>]

\* readPump hands one frame to handleFrame.  A ping, a frame over the rate limit
\* and one that decodeInbound or a reserved room name refuses only get a reply.
handleFrame(c) ==
    /\ reader[c] = "run" /\ socket[c] = "open" /\ todo[c] = <<>>
    /\ frames < MaxFrames
    /\ frames' = frames + 1
    /\ \/ \E r \in Topics : Join(c, r) \/ Leave(c, r) \/ Publish(c, r)
       \/ /\ \E u \in Users : todo' = [todo EXCEPT ![c] = <<Op("deliver", u)>>]
          /\ UNCHANGED <<rooms, unsent>>
       \/ /\ todo' = [todo EXCEPT ![c] = <<Op("reply", c)>>]
          /\ UNCHANGED <<rooms, unsent>>
    /\ UNCHANGED <<node, registered, total, done, pumps, key, inbox, status, got,
                   late, faults>>
-----------------------------------------------------------------------------
(* A connection from handshake to teardown.                                 *)

\* originAllowed, for an Origin header that is absent, of the same host, listed,
\* or anything else.
originAllowed(origin, anonymous) ==
    \/ origin \in {"absent", "same"}
    \/ AllowList /\ origin = "listed"
    \/ ~AllowList /\ anonymous

authenticate(token) == token = "jwt" \/ (AllowAnon /\ token = "anon")

\* serveWS: a refused handshake leaves nothing behind.
serveWS(c) ==
    /\ socket[c] = "none" /\ status[node[c]] = "up"
    /\ \E token \in {"jwt", "anon", "bad"}, origin \in {"absent", "same", "listed", "other"} :
          authenticate(token) /\ originAllowed(origin, token = "anon")
    /\ socket' = [socket EXCEPT ![c] = "open"]
    /\ todo' = [todo EXCEPT ![c] = <<Op("register", c), Op("pumps", c)>>]
    /\ UNCHANGED <<node, hub, done, reader, writer, refresher, key, inbox, status, got,
                   unsent, late, frames, faults>>

\* The handler starts the three goroutines of the connection.
StartPumps(c) ==
    /\ Doing(c, "pumps")
    /\ reader'    = [reader EXCEPT ![c] = "run"]
    /\ writer'    = [writer EXCEPT ![c] = "run"]
    /\ refresher' = [refresher EXCEPT ![c] = "run"]
    /\ Then(c, <<>>)
    /\ UNCHANGED <<node, hub, done, socket, key, inbox, status, got, unsent, late,
                   frames, faults>>

\* closeWithReason; only the first call has an effect.
closeWithReason(g) ==
    /\ Doing(g, "close")
    /\ \E c \in Head1(g).arg :
          /\ done' = [done EXCEPT ![c] = TRUE]
          /\ Then(g, CloseAll(Head1(g).arg \ {c}))
    /\ UNCHANGED <<node, hub, pumps, key, inbox, status, got, unsent, late, frames, faults>>

\* The last line of readPump.
Shut(c) ==
    /\ Doing(c, "shut")
    /\ socket' = [socket EXCEPT ![c] = "closed"]
    /\ reader' = [reader EXCEPT ![c] = "exit"]
    /\ Then(c, <<>>)
    /\ UNCHANGED <<node, hub, done, writer, refresher, key, inbox, status, got, unsent,
                   late, frames, faults>>

\* ReadMessage fails: the socket was closed under it, or the client went away.
ReadFails(c) ==
    /\ reader[c] = "run" /\ todo[c] = <<>>
    /\ IF socket[c] = "closed" THEN faults' = faults ELSE Fault("client")
    /\ todo' = [todo EXCEPT ![c] = cleanup(c)]
    /\ UNCHANGED <<node, hub, done, pumps, key, inbox, status, got, unsent, late, frames>>

\* writePump returns, after the close frame or because a write or ping failed,
\* and closes the socket.
WriterExits(c) ==
    /\ writer[c] = "run"
    /\ IF done[c] \/ socket[c] = "closed" THEN faults' = faults ELSE Fault("client")
    /\ writer' = [writer EXCEPT ![c] = "exit"]
    /\ socket' = [socket EXCEPT ![c] = "closed"]
    /\ UNCHANGED <<node, hub, done, reader, refresher, todo, key, inbox, status, got,
                   unsent, late, frames>>
-----------------------------------------------------------------------------
(* Redis: presence keys and pub/sub.                                        *)

\* OnConnect and OnDisconnect; a command that fails is only logged.
SetKey(c) ==
    /\ Doing(c, "set")
    /\ \/ key' = [key EXCEPT ![Head1(c).arg] = TRUE] /\ faults' = faults
       \/ key' = key /\ Fault("redis")
    /\ Then(c, <<>>)
    /\ UNCHANGED <<node, hub, done, pumps, inbox, status, got, unsent, late, frames>>

DelKey(g) ==
    /\ Doing(g, "del")
    /\ \/ key' = [key EXCEPT ![Head1(g).arg] = FALSE] /\ faults' = faults
       \/ key' = key /\ Fault("redis")
    /\ Then(g, <<>>)
    /\ UNCHANGED <<node, hub, done, pumps, inbox, status, got, unsent, late, frames>>

\* Mutant: a tick only prolongs the life of a key that exists.
RefreshExtends(c) == refresher[c] = "run" /\ key[User[c]] /\ UNCHANGED vars

\* One tick of RefreshLoop; a tick may win against a closed done once more.
Refresh(c) ==
    /\ refresher[c] = "run"
    /\ ~key[User[c]]
    /\ key' = [key EXCEPT ![User[c]] = TRUE]
    /\ UNCHANGED <<node, hub, done, pumps, todo, inbox, status, got, unsent, late,
                   frames, faults>>

RefresherExits(c) ==
    /\ refresher[c] = "run" /\ done[c]
    /\ refresher' = [refresher EXCEPT ![c] = "exit"]
    /\ UNCHANGED <<node, hub, done, reader, writer, socket, todo, key, inbox, status, got,
                   unsent, late, frames, faults>>

\* The key outlives presenceTTL: nobody refreshes it, or the refreshes fail.
Expire(u) ==
    /\ key[u]
    /\ IF \E c \in Conns : User[c] = u /\ refresher[c] = "run" THEN Fault("redis")
                                                              ELSE faults' = faults
    /\ key' = [key EXCEPT ![u] = FALSE]
    /\ UNCHANGED <<node, hub, done, pumps, todo, inbox, status, got, unsent, late, frames>>

\* Mutant: a replica delivers what it published itself.
ReceiversAll(n) == {o \in Nodes : status[o] = "up"}

\* Every subscriber gets what a replica publishes; dispatch skips the replica's
\* own, already delivered locally.
Receivers(n) == {o \in Nodes : status[o] = "up" /\ o # n}

ToAll(ns, m) == inbox' = [n \in Nodes |-> IF n \in ns THEN Append(inbox[n], m) ELSE inbox[n]]

PublishFanout(c) ==
    /\ Doing(c, "fanout")
    /\ ToAll(Receivers(node[c]), [kind |-> "room", arg |-> Head1(c).arg, msg |-> Head1(c).msg])
    /\ Then(c, <<>>)
    /\ UNCHANGED <<node, hub, done, pumps, key, status, got, unsent, late, frames, faults>>

\* A service announces a job of user u: PublishJobEvent.
PublishJobEvent(u) ==
    /\ \E m \in unsent : /\ unsent' = unsent \ {m}
                         /\ ToAll({n \in Nodes : status[n] = "up"},
                                  [kind |-> "event", arg |-> u, msg |-> m])
    /\ UNCHANGED <<node, hub, done, pumps, todo, key, status, got, late, frames, faults>>

\* dispatch of one message.
dispatch(n) ==
    /\ status[n] = "up" /\ todo[n] = <<>> /\ inbox[n] # <<>>
    /\ LET m == Head(inbox[n])
       IN  todo' = [todo EXCEPT ![n] =
             CASE m.kind = "room"     -> <<Broadcast(m.arg, m.msg)>>
               [] m.kind = "event"    -> <<Broadcast(jobsRoom, m.msg), ToOwner(m.arg, m.msg)>>]
    /\ inbox' = [inbox EXCEPT ![n] = Tail(@)]
    /\ UNCHANGED <<node, hub, done, pumps, key, status, got, unsent, late, frames, faults>>

\* The subscription breaks and is made again: what was published in between,
\* or not yet read, is gone.
Resubscribe(n) ==
    /\ status[n] = "up" /\ inbox[n] # <<>>
    /\ Fault("redis")
    /\ inbox' = [inbox EXCEPT ![n] = <<>>]
    /\ UNCHANGED <<node, hub, done, pumps, todo, key, status, got, unsent, late, frames>>
-----------------------------------------------------------------------------
(* The process of a replica.                                                *)

\* SIGTERM: the listener closes, the subscriber returns, and Hub.Shutdown asks
\* the connections it finds to close.
Shutdown(n) ==
    /\ status[n] = "up" /\ todo[n] = <<>>
    /\ Fault("shutdown")
    /\ status' = [status EXCEPT ![n] = "drain"]
    /\ inbox' = [inbox EXCEPT ![n] = <<>>]
    /\ todo' = [todo EXCEPT ![n] = CloseAll(Local(n))]
    /\ UNCHANGED <<node, hub, done, pumps, key, got, unsent, late, frames>>

\* The process ends with everything it holds.
Ends(n) ==
    LET gone(c) == node[c] = n
    IN  /\ status'     = [status EXCEPT ![n] = "exited"]
        /\ registered' = [c \in Conns |-> registered[c] /\ ~gone(c)]
        /\ rooms'      = [c \in Conns |-> IF gone(c) THEN {} ELSE rooms[c]]
        /\ total'      = [total EXCEPT ![n] = 0]
        /\ done'       = [c \in Conns |-> done[c] \/ gone(c)]
        /\ socket'     = [c \in Conns |-> IF gone(c) THEN "closed" ELSE socket[c]]
        /\ reader'     = [c \in Conns |-> IF gone(c) THEN "exit" ELSE reader[c]]
        /\ writer'     = [c \in Conns |-> IF gone(c) THEN "exit" ELSE writer[c]]
        /\ refresher'  = [c \in Conns |-> IF gone(c) THEN "exit" ELSE refresher[c]]
        /\ todo'       = [g \in Goroutines |-> IF NodeOf(g) = n THEN <<>> ELSE todo[g]]
        /\ inbox'      = [inbox EXCEPT ![n] = <<>>]
        /\ UNCHANGED <<node, key, got, unsent, late, frames>>

\* Hub.Shutdown polls Stats until no connection is left.
Drained(n) == /\ status[n] = "drain" /\ todo[n] = <<>> /\ total[n] = 0
              /\ Ends(n) /\ UNCHANGED faults

\* The drain's deadline passes first, or the process is killed.
Killed(n) == status[n] # "exited" /\ Fault("kill") /\ Ends(n)
-----------------------------------------------------------------------------
\* What the goroutines of the service do without anybody else.
Work ==
    \/ \E g \in Goroutines : \/ \E k \in Broadcasts : BroadcastRoom(k, g)
                             \/ Unregister(g) \/ closeWithReason(g) \/ DelKey(g)
    \/ \E c \in Conns : \/ DeliverUser(c) \/ sendOut(c) \/ Register(c) \/ StartPumps(c) \/ Shut(c)
                        \/ SetKey(c) \/ PublishFanout(c) \/ Refresh(c) \/ RefresherExits(c)
                        \/ WriterExits(c) /\ (done[c] \/ socket[c] = "closed")
                        \/ ReadFails(c) /\ socket[c] = "closed"
    \/ \E n \in Nodes : dispatch(n) \/ Drained(n)
    \/ \E u \in Users : Expire(u) /\ faults' = faults

Next == \/ Work
        \/ \E c \in Conns : WriterExits(c) \/ ReadFails(c) \/ handleFrame(c) \/ serveWS(c)
        \/ \E n \in Nodes : Resubscribe(n) \/ Shutdown(n) \/ Killed(n)
        \/ \E u \in Users : Expire(u) \/ PublishJobEvent(u)

Spec == Init /\ [][Next]_vars

\* Goroutines run, reads from a closed socket fail, tickers tick, keys expire;
\* clients and services need not do anything.  Work that is left ends after
\* finitely many steps, so fairness to all of it together is enough.
FairSpec == Spec /\ WF_vars(Work)
-----------------------------------------------------------------------------
(* What is checked.                                                         *)

TypeOK ==
    /\ node       \in [Conns -> Nodes]
    /\ registered \in [Conns -> BOOLEAN]
    /\ rooms      \in [Conns -> SUBSET AllRooms]
    /\ total      \in [Nodes -> Nat]
    /\ done       \in [Conns -> BOOLEAN]
    /\ socket     \in [Conns -> {"none", "open", "closed"}]
    /\ reader \in [Conns -> Pump] /\ writer \in [Conns -> Pump] /\ refresher \in [Conns -> Pump]
    /\ todo       \in [Goroutines -> Seq(Ops)]
    /\ key        \in [Users -> BOOLEAN]
    /\ inbox      \in [Nodes -> Seq(Events)]
    /\ status     \in [Nodes -> {"up", "drain", "exited"}]
    /\ got        \in [Broadcasts -> [Conns -> [Messages -> Nat]]]
    /\ unsent     \subseteq Messages
    /\ late       \subseteq Conns
    /\ frames     \in 0 .. MaxFrames /\ faults \in 0 .. MaxFaults

\* Hub.total, which the drain waits on, counts the registered connections: the
\* eviction of a slow consumer and the cleanup of its readPump, and several
\* evictions at once, take a connection off once (Hub.Unregister).
TotalCounts == \A n \in Nodes : total[n] = Cardinality(Local(n))

\* A connection gets a room message or a job event at most once in the room it was
\* published to, whichever replica it was published on (the fanout's origin check,
\* local delivery before the fanout), and a job event at most once more, in its
\* owner's personal room (Fanout.dispatch).
AtMostOnce == \A k \in Broadcasts, c \in Conns, m \in Messages : got[k][c][m] <= 1

\* No teardown gets stuck: once a connection's done is closed, or its socket is,
\* both pumps and the refresher end, and it is registered nowhere; and a drain
\* ends without its deadline, unless a handshake that was already upgraded
\* registers after the snapshot (conn.go, Hub.Shutdown, serveWS).
TornDown ==
    <>[](/\ \A c \in Conns : done[c] \/ socket[c] = "closed" =>
               /\ reader[c] = "exit" /\ writer[c] = "exit" /\ refresher[c] = "exit"
               /\ ~registered[c]
         /\ \A n \in Nodes : status[n] = "drain" => \E c \in late : node[c] = n)

\* The presence key follows the connections, though OnConnect, OnDisconnect and
\* the refreshers of two tabs or two replicas interleave and commands fail: it
\* comes back for a user who stays connected, and goes for one who does not.
Online(u) == \E c \in Conns : User[c] = u /\ refresher[c] = "run" /\ ~done[c]
KeyFollows ==
    <>[](\A u \in Users : key[u] <=> Online(u))
=============================================================================
