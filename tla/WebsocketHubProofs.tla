------------------------- MODULE WebsocketHubProofs -------------------------
(***************************************************************************)
(* Proofs about WebsocketHub, for every set of connections, replicas,      *)
(* rooms and messages and every sequence of faults.                        *)
(*                                                                         *)
(* The count of a hub is right because a connection is registered once: a  *)
(* handler that has still to register its connection finds it in no map    *)
(* (Placed).  A message reaches a connection once in its room, and once in *)
(* the room of a job's owner, because at any time at most one thing can    *)
(* still bring it to a replica: a broadcast some goroutine of the replica  *)
(* has yet to do, an entry of its subscription, or a fanout elsewhere that *)
(* has yet to publish it (Sole, the same for either kind of broadcast).    *)
(***************************************************************************)
EXTENDS WebsocketHub, FiniteSetTheorems, TLAPS

\* Leaves are proved by Zenon unless they name another prover.
USE Zenon
-----------------------------------------------------------------------------
(* The inductive invariant.                                                 *)

\* Goroutine g begins with the broadcast of m to its room; it ends with the one to
\* its owner's room; it ends with the fanout of m.
Firsts(g, m) == todo[g] # <<>> /\ todo[g][1].op = "broadcast" /\ todo[g][1].msg = m
Lasts(op, g, m) == /\ todo[g] # <<>> /\ todo[g][Len(todo[g])].op = op
                   /\ todo[g][Len(todo[g])].msg = m
Casts(k, g, m) == \/ k = "broadcast" /\ Firsts(g, m)
                  \/ k = "owner" /\ Lasts("owner", g, m)
Fans(g, m)     == Lasts("fanout", g, m)
\* Entry i of a replica's subscription is m.
Queued(n, i, m) == i \in 1 .. Len(inbox[n]) /\ inbox[n][i].msg = m

\* Where the operations stand that must not be lost or repeated.
Ordered(s) == \A i \in 1 .. Len(s) :
                 /\ s[i].op \in {"register", "broadcast"} => i = 1
                 /\ s[i].op \in {"fanout", "owner"} => i = Len(s)
Placed ==
    /\ \A g \in Goroutines : Ordered(todo[g])
    /\ \A c \in Conns : Doing(c, "register") => ~registered[c] /\ socket[c] # "none"
    /\ \A n \in Nodes : ~Doing(n, "register")
    /\ \A c \in Conns : socket[c] = "none" => ~registered[c]

\* At most one way is left for a message to reach a replica in a broadcast of kind
\* k, and none once one of its connections has it from one.
Nowhere(k, m) ==
    /\ \A g \in Goroutines : ~Casts(k, g, m) /\ ~Fans(g, m)
    /\ \A n \in Nodes, i \in Nat : ~Queued(n, i, m)
    /\ \A c \in Conns : got[k][c][m] = 0
SoleCast(k, g, m) ==
    /\ \A h \in Goroutines : Casts(k, h, m) /\ NodeOf(h) = NodeOf(g) => h = g
    /\ \A n \in Nodes, i \in Nat : Queued(n, i, m) => n # NodeOf(g)
    /\ \A c \in Conns : node[c] = NodeOf(g) => got[k][c][m] = 0
SoleFan(k, g, m) ==
    /\ \A h \in Goroutines : Fans(h, m) => h = g
    /\ \A h \in Goroutines : Casts(k, h, m) => NodeOf(h) = NodeOf(g)
    /\ \A n \in Nodes, i \in Nat : ~Queued(n, i, m)
    /\ \A c \in Conns : node[c] # NodeOf(g) => got[k][c][m] = 0
SoleEntry(k, n, i, m) ==
    /\ \A j \in Nat : Queued(n, j, m) => j = i
    /\ \A c \in Conns : node[c] = n => got[k][c][m] = 0
SoleWay(k, m) ==
    /\ m \in unsent => Nowhere(k, m)
    /\ \A g \in Goroutines : Casts(k, g, m) => SoleCast(k, g, m)
    /\ \A g \in Goroutines : Fans(g, m) => SoleFan(k, g, m)
    /\ \A n \in Nodes, i \in Nat : Queued(n, i, m) => SoleEntry(k, n, i, m)
Sole == \A k \in Broadcasts, m \in Messages : SoleWay(k, m)

IInv == TypeOK /\ Placed /\ TotalCounts /\ Sole /\ AtMostOnce

-----------------------------------------------------------------------------
(* Sequences of operations.                                                 *)

\* Nothing in s registers, broadcasts or publishes.
Modest(s) == \A i \in 1 .. Len(s) : s[i].op \notin {"register", "broadcast", "fanout", "owner"}

\* What a goroutine does next, t, after s: at most the fanout or the owner's
\* broadcast at the end is left of what Placed and Sole are about.
Follows(t, s) ==
    /\ t \in Seq(Ops)
    /\ \A i \in 1 .. Len(t) : t[i].op \notin {"register", "broadcast"}
    /\ \A i \in 1 .. Len(t) : t[i].op \in {"fanout", "owner"} =>
          i = Len(t) /\ s # <<>> /\ t[i] = s[Len(s)]

\* Operations that are performed before the rest of a goroutine's work (Then).
LEMMA ThenFollows ==
    ASSUME NEW s \in Seq(Ops), s # <<>>, Ordered(s), NEW ops \in Seq(Ops), Modest(ops)
    PROVE  Follows(ops \o Tail(s), s)
<1> DEFINE t == ops \o Tail(s)
<1>1. /\ Len(s) \in Nat \ {0} /\ Len(ops) \in Nat /\ Tail(s) \in Seq(Ops)
      /\ Len(Tail(s)) = Len(s) - 1
      /\ \A j \in 1 .. Len(s) - 1 : Tail(s)[j] = s[j + 1]
  BY SMT
<1>2. t \in Seq(Ops) /\ Len(t) = Len(ops) + (Len(s) - 1)
  BY SMT, <1>1
<1>3. \A i \in 1 .. Len(t) : t[i] = IF i <= Len(ops) THEN ops[i] ELSE s[(i - Len(ops)) + 1]
  BY SMT, <1>1, <1>2
<1>4. ASSUME NEW i \in 1 .. Len(t), i > Len(ops)
      PROVE  /\ (i - Len(ops)) + 1 \in 2 .. Len(s)
             /\ t[i] = s[(i - Len(ops)) + 1]
             /\ (i - Len(ops)) + 1 = Len(s) => i = Len(t)
  BY SMT, <1>1, <1>2, <1>3, <1>4
<1>5. \A i \in 1 .. Len(t) : i <= Len(ops) => t[i].op \notin {"register", "broadcast", "fanout", "owner"}
  BY SMT, <1>1, <1>2, <1>3 DEF Modest
<1>6. ASSUME NEW i \in 1 .. Len(t), i > Len(ops)
      PROVE  /\ t[i].op \notin {"register", "broadcast"}
             /\ t[i].op \in {"fanout", "owner"} => i = Len(t) /\ t[i] = s[Len(s)]
  <2> DEFINE k == (i - Len(ops)) + 1
  <2>1. k \in 1 .. Len(s) /\ k # 1 /\ t[i] = s[k] /\ (k = Len(s) => i = Len(t))
    BY SMT, <1>1, <1>4, <1>6
  <2>2. /\ s[k].op \in {"register", "broadcast"} => k = 1
        /\ s[k].op \in {"fanout", "owner"} => k = Len(s)
    BY SMT, <2>1 DEF Ordered
  <2> HIDE DEF k, t
  <2> QED
    BY SMT, <2>1, <2>2
<1>7. \A i \in 1 .. Len(t) : (i <= Len(ops) \/ i > Len(ops))
  BY SMT, <1>1, <1>2
<1> HIDE DEF t
<1>8. Follows(t, s)
  <2>1. \A i \in 1 .. Len(t) : t[i].op \notin {"register", "broadcast"}
    BY Zenon, <1>5, <1>6, <1>7
  <2>2. \A i \in 1 .. Len(t) : t[i].op \in {"fanout", "owner"} =>
           i = Len(t) /\ s # <<>> /\ t[i] = s[Len(s)]
    BY Zenon, <1>5, <1>6, <1>7
  <2> QED
    BY Zenon, <1>2, <2>1, <2>2 DEF Follows
<1> QED
  BY SMT, <1>8 DEF t

LEMMA NoneLeft ==
    ASSUME NEW s \in Seq(Ops), Len(s) = 0
    PROVE  s = <<>>
  BY SMT

\* Work without them leaves nothing of them.
LEMMA ModestFollows ==
    ASSUME NEW t \in Seq(Ops), Modest(t), NEW s
    PROVE  Follows(t, s)
  BY SMT DEF Modest, Follows

\* The operations are well typed.
LEMMA OpTypes ==
    /\ \A c \in Conns, name \in {"register", "pumps", "shut", "reply"} : Op(name, c) \in Ops
    /\ \A cs \in SUBSET Conns, name \in {"unregister", "close"} : Op(name, cs) \in Ops
    /\ \A u \in Users, name \in {"set", "del", "deliver"} : Op(name, u) \in Ops
    /\ \A u \in Users, m \in Messages : ToOwner(u, m) \in Ops
    /\ \A r \in Topics, m \in Messages : Broadcast(r, m) \in Ops /\ PublishRoom(r, m) \in Ops
  BY SMT DEF Op, Broadcast, PublishRoom, ToOwner, Ops

\* One operation, and two.
LEMMA OneOp ==
    ASSUME NEW o \in Ops, o.op \notin {"register", "broadcast", "fanout", "owner"}
    PROVE  <<o>> \in Seq(Ops) /\ Modest(<<o>>)
  BY SMT DEF Modest

LEMMA NoOp == <<>> \in Seq(Ops) /\ Modest(<<>>)
  BY SMT DEF Modest

LEMMA TwoOps ==
    ASSUME NEW s \in Seq(Ops), Modest(s), NEW t \in Seq(Ops), Modest(t)
    PROVE  s \o t \in Seq(Ops) /\ Modest(s \o t)
<1>1. s \o t \in Seq(Ops) /\ Len(s \o t) = Len(s) + Len(t) /\ Len(s) \in Nat /\ Len(t) \in Nat
  BY SMT
<1>2. \A i \in 1 .. Len(s) + Len(t) :
         \/ i \in 1 .. Len(s) /\ (s \o t)[i] = s[i]
         \/ i - Len(s) \in 1 .. Len(t) /\ (s \o t)[i] = t[i - Len(s)]
  BY SMT, <1>1
<1> QED
  BY SMT, <1>1, <1>2 DEF Modest

\* Evictions and closes (dropSlow, Afterwards, CloseAll).
LEMMA DropOps ==
    ASSUME NEW cs \in SUBSET Conns
    PROVE  /\ dropSlow(cs) \in Seq(Ops) /\ Modest(dropSlow(cs))
           /\ CloseAll(cs) \in Seq(Ops) /\ Modest(CloseAll(cs))
<1>1. Op("unregister", cs) \in Ops /\ Op("close", cs) \in Ops
  BY SMT, OpTypes
<1>2. Op("unregister", cs).op = "unregister" /\ Op("close", cs).op = "close"
  BY SMT DEF Op
<1>3. /\ <<Op("unregister", cs)>> \in Seq(Ops) /\ Modest(<<Op("unregister", cs)>>)
      /\ <<Op("close", cs)>> \in Seq(Ops) /\ Modest(<<Op("close", cs)>>)
  BY SMT, <1>1, <1>2, OneOp
<1> QED
  BY SMT, <1>3, NoOp DEF dropSlow, CloseAll

-----------------------------------------------------------------------------
(* Steps that only use up what is there.                                    *)

LEMMA ConnNode ==
    ASSUME NEW c \in Conns
    PROVE  c \in Goroutines /\ NodeOf(c) = node[c]
  BY Zenon, ConnsAssumption DEF Goroutines, NodeOf

\* No way of a message to a replica is new, and nobody got it.
LEMMA SoleWayKept ==
    ASSUME NEW k \in Broadcasts, NEW m \in Messages, SoleWay(k, m), node' = node, m \in unsent' => m \in unsent,
           \A c \in Conns : got'[k][c][m] = got[k][c][m],
           \A g \in Goroutines : Casts(k, g, m)' => Casts(k, g, m),
           \A g \in Goroutines : Fans(g, m)' => Fans(g, m),
           \A n \in Nodes, i \in Nat : Queued(n, i, m)' => Queued(n, i, m)
    PROVE  SoleWay(k, m)'
<1>1. \A g \in Goroutines : NodeOf(g)' = NodeOf(g)
  BY Zenon DEF NodeOf
<1>2. (m \in unsent => Nowhere(k, m))'
  BY Zenon DEF SoleWay, Nowhere
<1>3. ASSUME NEW g \in Goroutines, Casts(k, g, m)' PROVE SoleCast(k, g, m)'
  <2>1. SoleCast(k, g, m)
    BY Zenon, <1>3 DEF SoleWay
  <2> QED
    BY Zenon, <1>1, <2>1 DEF SoleCast
<1>4. ASSUME NEW g \in Goroutines, Fans(g, m)' PROVE SoleFan(k, g, m)'
  <2>1. SoleFan(k, g, m)
    BY Zenon, <1>4 DEF SoleWay
  <2> QED
    BY Zenon, <1>1, <2>1 DEF SoleFan
<1>5. ASSUME NEW n \in Nodes, NEW i \in Nat, Queued(n, i, m)' PROVE SoleEntry(k, n, i, m)'
  <2>1. SoleEntry(k, n, i, m)
    BY Zenon, <1>5 DEF SoleWay
  <2> QED
    BY Zenon, <2>1 DEF SoleEntry
<1> QED
  BY Zenon, <1>2, <1>3, <1>4, <1>5 DEF SoleWay

\* The same for all messages.
LEMMA SoleKept ==
    ASSUME Sole, AtMostOnce, node' = node, got' = got, unsent' = unsent,
           \A k \in Broadcasts, g \in Goroutines, m \in Messages : Casts(k, g, m)' => Casts(k, g, m),
           \A g \in Goroutines, m \in Messages : Fans(g, m)' => Fans(g, m),
           \A n \in Nodes, i \in Nat, m \in Messages : Queued(n, i, m)' => Queued(n, i, m)
    PROVE  Sole' /\ AtMostOnce'
<1>1. AtMostOnce'
  BY Zenon DEF AtMostOnce
<1>2. ASSUME NEW k \in Broadcasts, NEW m \in Messages PROVE SoleWay(k, m)'
  <2>1. SoleWay(k, m) /\ (m \in unsent' => m \in unsent) /\ \A c \in Conns : got'[k][c][m] = got[k][c][m]
    BY Zenon DEF Sole
  <2> QED
    BY Zenon, <2>1, SoleWayKept
<1> QED
  BY Zenon, <1>1, <1>2 DEF Sole

\* One goroutine goes on with t, and at most its own connection is registered.
LEMMA GoesOn ==
    ASSUME TypeOK, Placed, NEW g \in Goroutines, NEW t, Follows(t, todo[g]),
           todo' = [todo EXCEPT ![g] = t],
           \A c \in Conns : registered'[c] => registered[c] \/ c = g,
           \A c \in Conns : socket'[c] = "none" => socket[c] = "none" /\ ~registered'[c]
    PROVE  /\ todo' \in [Goroutines -> Seq(Ops)] /\ Placed'
           /\ \A k \in Broadcasts, h \in Goroutines, m \in Messages :
                 Casts(k, h, m)' => Casts(k, h, m)
           /\ \A m \in Messages : ~Casts("broadcast", g, m)'
           /\ \A h \in Goroutines, m \in Messages : Fans(h, m)' => Fans(h, m)
<1>1. /\ todo \in [Goroutines -> Seq(Ops)] /\ t \in Seq(Ops)
      /\ Len(t) \in Nat /\ (t # <<>> => 1 \in 1 .. Len(t) /\ Len(t) \in 1 .. Len(t))
  BY SMT DEF TypeOK, Follows
<1>2. /\ todo' \in [Goroutines -> Seq(Ops)]
      /\ todo'[g] = t /\ \A h \in Goroutines : h # g => todo'[h] = todo[h]
  BY Zenon, <1>1
<1>3. /\ Ordered(t) /\ (t # <<>> => t[1].op \notin {"register", "broadcast"})
      /\ t # <<>> /\ t[Len(t)].op \in {"fanout", "owner"} => todo[g] # <<>> /\ t[Len(t)] = todo[g][Len(todo[g])]
  BY SMT, <1>1 DEF Follows, Ordered
<1>4. \A h \in Goroutines : Ordered(todo'[h])
  BY Zenon, <1>2, <1>3 DEF Placed
<1>5. \A h \in Goroutines : Doing(h, "register")' => h # g /\ Doing(h, "register")
  BY Zenon, <1>2, <1>3 DEF Doing, Head1
<1>6. Placed'
  BY Zenon, <1>4, <1>5 DEF Placed, Goroutines, Ordered
<1>7. \A h \in Goroutines, m \in Messages : Firsts(h, m)' => h # g /\ Firsts(h, m)
  BY Zenon, <1>2, <1>3 DEF Firsts
<1>8. \A op \in {"fanout", "owner"}, h \in Goroutines, m \in Messages :
         Lasts(op, h, m)' => Lasts(op, h, m)
  BY Zenon, <1>2, <1>3 DEF Lasts
<1>9. "broadcast" # "owner"
  BY SMT
<1> QED
  BY Zenon, <1>2, <1>6, <1>7, <1>8, <1>9 DEF Casts, Fans

\* The message part of the invariant, over such a step that takes nothing in.
LEMMA Quiet ==
    ASSUME TypeOK, Placed, Sole, AtMostOnce,
           NEW g \in Goroutines, NEW t, Follows(t, todo[g]), todo' = [todo EXCEPT ![g] = t],
           \A c \in Conns : registered'[c] => registered[c] \/ c = g,
           \A c \in Conns : socket'[c] = "none" => socket[c] = "none" /\ ~registered'[c],
           node' = node, got' = got, unsent' = unsent,
           \A n \in Nodes : inbox'[n] \in {inbox[n], <<>>}
    PROVE  todo' \in [Goroutines -> Seq(Ops)] /\ Placed' /\ Sole' /\ AtMostOnce'
<1>1. /\ todo' \in [Goroutines -> Seq(Ops)] /\ Placed'
      /\ \A k \in Broadcasts, h \in Goroutines, m \in Messages : Casts(k, h, m)' => Casts(k, h, m)
      /\ \A h \in Goroutines, m \in Messages : Fans(h, m)' => Fans(h, m)
  BY Zenon, GoesOn
<1>2. \A n \in Nodes, i \in Nat, m \in Messages : Queued(n, i, m)' => Queued(n, i, m)
  BY SMT DEF Queued
<1> QED
  BY Zenon, <1>1, <1>2, SoleKept

\* The same over a step that leaves the goroutines alone.
LEMMA Still ==
    ASSUME TypeOK, Placed, Sole, AtMostOnce, todo' = todo, registered' = registered,
           \A c \in Conns : socket'[c] = "none" => socket[c] = "none",
           node' = node, got' = got, unsent' = unsent,
           \A n \in Nodes : inbox'[n] \in {inbox[n], <<>>}
    PROVE  Placed' /\ Sole' /\ AtMostOnce'
<1>1. Placed'
  BY Zenon DEF Placed, Ordered, Doing, Head1
<1>2. \A n \in Nodes, i \in Nat, m \in Messages : Queued(n, i, m)' => Queued(n, i, m)
  BY SMT DEF Queued
<1>3. /\ \A k \in Broadcasts, h \in Goroutines, m \in Messages : Casts(k, h, m)' => Casts(k, h, m)
      /\ \A h \in Goroutines, m \in Messages : Fans(h, m)' => Fans(h, m)
  BY Zenon DEF Casts, Fans, Firsts, Lasts
<1> QED
  BY Zenon, <1>1, <1>2, <1>3, SoleKept

\* The hub's maps are left alone.
LEMMA CountsKept ==
    ASSUME TotalCounts, registered' = registered, total' = total, node' = node
    PROVE  TotalCounts'
  BY Zenon DEF TotalCounts, Local

\* A fault is counted, or none happens.
LEMMA Faults ==
    ASSUME faults \in 0 .. MaxFaults
    PROVE  /\ \A k : Fault(k) => faults' \in 0 .. MaxFaults
           /\ \A slow, cs : Slow(slow, cs) => faults' \in 0 .. MaxFaults
  BY SMT, BoundsAssumption DEF Fault, Slow

\* The operation a goroutine does is well typed.
LEMMA HeadTypes ==
    ASSUME TypeOK, NEW g \in Goroutines, todo[g] # <<>>
    PROVE  /\ Head1(g).op \in {"unregister", "close"} => Head1(g).arg \in SUBSET Conns
           /\ Head1(g).op \in {"set", "del", "deliver"} => Head1(g).arg \in Users
           /\ Head1(g).op \in {"broadcast", "fanout"} => Head1(g).arg \in Topics
           /\ Head1(g).op \in {"broadcast", "fanout", "owner"} => Head1(g).msg \in Messages
<1>1. todo[g] \in Seq(Ops)
  BY Zenon DEF TypeOK
<1>2. todo[g][1] \in Ops
  BY SMT, <1>1
<1> QED
  BY SMT, <1>2 DEF Head1, Ops

\* Quiet, for the end of an operation.
LEMMA Ended ==
    ASSUME TypeOK, Placed, Sole, AtMostOnce,
           NEW g \in Goroutines, todo[g] # <<>>,
           NEW ops \in Seq(Ops), Modest(ops), Then(g, ops),
           \A c \in Conns : registered'[c] => registered[c] \/ c = g,
           \A c \in Conns : socket'[c] = "none" => socket[c] = "none" /\ ~registered'[c],
           node' = node, got' = got, unsent' = unsent, inbox' = inbox
    PROVE  todo' \in [Goroutines -> Seq(Ops)] /\ Placed' /\ Sole' /\ AtMostOnce'
<1>1. todo[g] \in Seq(Ops) /\ Ordered(todo[g])
  BY Zenon DEF TypeOK, Placed
<1>2. Follows(ops \o Tail(todo[g]), todo[g])
  BY Zenon, <1>1, ThenFollows
<1>3. todo' = [todo EXCEPT ![g] = ops \o Tail(todo[g])]
  BY SMT DEF Then
<1>4. \A n \in Nodes : inbox'[n] \in {inbox[n], <<>>}
  BY Zenon
<1> QED
  BY Zenon, <1>2, <1>3, <1>4, Quiet

\* The whole invariant, when the operation has left the hub's maps alone.
LEMMA Routine ==
    ASSUME IInv, NEW g \in Goroutines, todo[g] # <<>>,
           NEW ops \in Seq(Ops), Modest(ops), Then(g, ops),
           UNCHANGED <<node, hub, got, unsent, inbox>>,
           \A c \in Conns : socket'[c] = "none" => socket[c] = "none",
           todo' \in [Goroutines -> Seq(Ops)] => TypeOK'
    PROVE  IInv'
<1>1. UNCHANGED <<registered, total, rooms>>
  BY Zenon DEF hub
<1>2. \A c \in Conns : socket'[c] = "none" => socket[c] = "none" /\ ~registered'[c]
  BY Zenon, <1>1 DEF IInv, Placed
<1>3. todo' \in [Goroutines -> Seq(Ops)] /\ Placed' /\ Sole' /\ AtMostOnce'
  BY Zenon, <1>1, <1>2, Ended DEF IInv
<1>4. TotalCounts'
  BY Zenon, <1>1, CountsKept DEF IInv
<1> QED
  BY Zenon, <1>3, <1>4 DEF IInv
-----------------------------------------------------------------------------
(* Frames.                                                                  *)

LEMMA StepDeliverUser ==
    ASSUME IInv, NEW c \in Conns, DeliverUser(c)
    PROVE  IInv'
<1> DEFINE cs == {d \in Local(node[c]) : User[d] = Head1(c).arg}
<1>1. PICK slow \in SUBSET cs :
         /\ Slow(slow, cs)
         /\ Then(c, dropSlow(cs \ Accepting(cs, slow))
                    \o IF Accepting(cs, slow) = {} THEN <<Op("reply", c)>> ELSE <<>>)
  BY Zenon DEF DeliverUser
<1>2. /\ UNCHANGED <<node, hub, done, pumps, key, inbox, status, got, unsent, late, frames>>
      /\ todo[c] # <<>> /\ c \in Goroutines
  BY Zenon DEF DeliverUser, Doing, Goroutines
<1>3. cs \ Accepting(cs, slow) \in SUBSET Conns
  BY Zenon DEF Local
<1> HIDE DEF cs
<1> DEFINE ops == IF Accepting(cs, slow) = {} THEN <<Op("reply", c)>> ELSE <<>>
<1>4. ops \in Seq(Ops) /\ Modest(ops)
  <2>1. Op("reply", c) \in Ops /\ Op("reply", c).op = "reply"
    BY Zenon, OpTypes DEF Op
  <2> QED
    BY SMT, <2>1, OneOp, NoOp
<1>5. dropSlow(cs \ Accepting(cs, slow)) \in Seq(Ops) /\ Modest(dropSlow(cs \ Accepting(cs, slow)))
  BY Zenon, <1>3, DropOps
<1>6. /\ dropSlow(cs \ Accepting(cs, slow)) \o ops \in Seq(Ops)
      /\ Modest(dropSlow(cs \ Accepting(cs, slow)) \o ops)
  BY Zenon, <1>4, <1>5, TwoOps
<1>7. todo' \in [Goroutines -> Seq(Ops)] => TypeOK'
  BY SMT, <1>1, <1>2, Faults DEF IInv, TypeOK, hub, pumps
<1> QED
  BY Zenon, <1>1, <1>2, <1>6, <1>7, Routine DEF pumps

LEMMA StepSendOut ==
    ASSUME IInv, NEW c \in Conns, sendOut(c)
    PROVE  IInv'
<1>1. PICK slow \in SUBSET {c} : Slow(slow, {c}) /\ Then(c, dropSlow(slow))
  BY Zenon DEF sendOut
<1>2. /\ UNCHANGED <<node, hub, done, pumps, key, inbox, status, got, unsent, late, frames>>
      /\ todo[c] # <<>> /\ c \in Goroutines /\ slow \in SUBSET Conns
  BY Zenon DEF sendOut, Doing, Goroutines
<1>3. dropSlow(slow) \in Seq(Ops) /\ Modest(dropSlow(slow))
  BY Zenon, <1>2, DropOps
<1>4. todo' \in [Goroutines -> Seq(Ops)] => TypeOK'
  BY SMT, <1>1, <1>2, Faults DEF IInv, TypeOK, hub, pumps
<1> QED
  BY Zenon, <1>1, <1>2, <1>3, <1>4, Routine DEF pumps

\* A replica delivers a message to the members of a room: none of its connections
\* had it from a broadcast of this kind, and nothing else brings it to the replica
\* in one any more.
LEMMA StepBroadcastRoom ==
    ASSUME IInv, NEW k \in Broadcasts, NEW g \in Goroutines, BroadcastRoom(k, g)
    PROVE  IInv'
<1> USE DEF IInv
<1>1. todo[g] # <<>> /\ todo[g][1].op = k /\ Head1(g) = todo[g][1]
  BY Zenon DEF BroadcastRoom, Doing, Head1
<1>2. PICK m \in Messages : m = Head1(g).msg
  BY Zenon, <1>1, HeadTypes DEF Broadcasts
<1>3. PICK cs \in SUBSET Conns :
         cs = {c \in Conns : node[c] = NodeOf(g) /\ RoomOf(k, Head1(g).arg) \in rooms[c]}
  BY Zenon
<1>4. PICK slow \in SUBSET cs :
         /\ Slow(slow, cs) /\ Then(g, dropSlow(cs \ Accepting(cs, slow)))
         /\ got' = [got EXCEPT ![k] =
                      [c \in Conns |-> IF c \in Accepting(cs, slow)
                                       THEN [got[k][c] EXCEPT ![m] = @ + 1] ELSE got[k][c]]]
  BY Zenon, <1>2, <1>3 DEF BroadcastRoom
<1>5. UNCHANGED <<node, hub, done, pumps, key, inbox, status, unsent, late, frames>>
  BY Zenon DEF BroadcastRoom
<1>6. UNCHANGED <<registered, total, rooms, socket, reader, writer, refresher>>
  BY Zenon, <1>5 DEF hub, pumps
<1> DEFINE A == Accepting(cs, slow)
<1>7. A \in SUBSET Conns /\ \A c \in A : node[c] = NodeOf(g)
  BY Zenon, <1>3 DEF Accepting
<1> HIDE DEF A
<1>8. /\ todo' \in [Goroutines -> Seq(Ops)] /\ Placed'
      /\ \A j \in Broadcasts, h \in Goroutines, x \in Messages : Casts(j, h, x)' => Casts(j, h, x)
      /\ \A h \in Goroutines, x \in Messages : Fans(h, x)' => Fans(h, x)
      /\ Casts(k, g, m) /\ ~Casts(k, g, m)'
  <2>1. cs \ A \in SUBSET Conns
    BY Zenon
  <2>2. dropSlow(cs \ A) \in Seq(Ops) /\ Modest(dropSlow(cs \ A))
    BY Zenon, <2>1, DropOps
  <2>3. todo[g] \in Seq(Ops) /\ Ordered(todo[g]) /\ todo \in [Goroutines -> Seq(Ops)]
    BY Zenon DEF TypeOK, Placed
  <2>4. Follows(dropSlow(cs \ A) \o Tail(todo[g]), todo[g])
    BY Zenon, <1>1, <2>2, <2>3, ThenFollows
  <2>5. todo' = [todo EXCEPT ![g] = dropSlow(cs \ A) \o Tail(todo[g])]
    BY SMT, <1>4 DEF Then, A
  <2>6. \A c \in Conns : socket'[c] = "none" => socket[c] = "none" /\ ~registered'[c]
    BY Zenon, <1>6 DEF Placed
  <2>7. /\ todo' \in [Goroutines -> Seq(Ops)] /\ Placed'
        /\ \A j \in Broadcasts, h \in Goroutines, x \in Messages : Casts(j, h, x)' => Casts(j, h, x)
        /\ \A h \in Goroutines, x \in Messages : Fans(h, x)' => Fans(h, x)
        /\ \A x \in Messages : ~Casts("broadcast", g, x)'
    BY Zenon, <1>6, <2>4, <2>5, <2>6, GoesOn
  <2>8. CASE k = "broadcast"
    BY Zenon, <1>1, <1>2, <2>7, <2>8 DEF Casts, Firsts
  <2>9. CASE k = "owner"
    <3>1. 1 \in 1 .. Len(todo[g])
      BY SMT, <1>1, <2>3
    <3>2. Len(todo[g]) = 1
      BY Zenon, <1>1, <2>3, <2>9, <3>1 DEF Ordered
    <3>3. Casts(k, g, m)
      BY Zenon, <1>1, <1>2, <2>9, <3>2 DEF Casts, Lasts
    <3>4. dropSlow(cs \ A) \o Tail(todo[g]) = dropSlow(cs \ A)
      <4>1. Tail(todo[g]) \in Seq(Ops) /\ Len(Tail(todo[g])) = 0
        BY SMT, <1>1, <2>3, <3>2
      <4>2. Tail(todo[g]) = <<>>
        BY Zenon, <4>1, NoneLeft
      <4>3. \A q \in Seq(Ops) : q \o <<>> = q
        BY SMT
      <4> QED
        BY Zenon, <2>2, <4>2, <4>3
    <3>5. todo'[g] = dropSlow(cs \ A)
      BY Zenon, <2>3, <2>5, <3>4
    <3>6. todo'[g] # <<>> => todo'[g][Len(todo'[g])].op # "owner"
      <4>1. ASSUME NEW q \in Seq(Ops), Modest(q), q # <<>> PROVE q[Len(q)].op # "owner"
        <5>1. Len(q) \in 1 .. Len(q)
          BY SMT, <4>1
        <5> QED
          BY Zenon, <4>1, <5>1 DEF Modest
      <4> QED
        BY Zenon, <2>2, <3>5, <4>1
    <3>7. k # "broadcast"
      BY SMT, <2>9
    <3> QED
      BY Zenon, <2>7, <3>3, <3>6, <3>7 DEF Casts, Lasts
  <2> QED
    BY Zenon, <2>7, <2>8, <2>9 DEF Broadcasts
<1>9. /\ \A j \in Broadcasts, c \in Conns, x \in Messages :
            j # k \/ x # m \/ c \notin A => got'[j][c][x] = got[j][c][x]
      /\ \A c \in A : got'[k][c][m] = got[k][c][m] + 1
      /\ got' \in [Broadcasts -> [Conns -> [Messages -> Nat]]]
  <2>1. got \in [Broadcasts -> [Conns -> [Messages -> Nat]]]
    BY Zenon DEF TypeOK
  <2> DEFINE f == [c \in Conns |-> IF c \in A THEN [got[k][c] EXCEPT ![m] = @ + 1] ELSE got[k][c]]
  <2>2. got' = [got EXCEPT ![k] = f]
    BY SMT, <1>4, <2>1 DEF A
  <2>3. /\ f \in [Conns -> [Messages -> Nat]]
        /\ \A c \in Conns, x \in Messages : x # m \/ c \notin A => f[c][x] = got[k][c][x]
        /\ \A c \in A : f[c][m] = got[k][c][m] + 1
    BY SMT, <1>7, <2>1
  <2> HIDE DEF f
  <2>4. got'[k] = f /\ \A j \in Broadcasts : j # k => got'[j] = got[j]
    BY Zenon, <2>1, <2>2
  <2>5. got' \in [Broadcasts -> [Conns -> [Messages -> Nat]]]
    BY Zenon, <2>1, <2>2, <2>3
  <2> QED
    BY Zenon, <2>3, <2>4, <2>5
<1>10. TypeOK'
  <2>1. faults' \in 0 .. MaxFaults
    BY Zenon, <1>4, Faults DEF TypeOK
  <2> QED
    BY Zenon, <1>5, <1>6, <1>8, <1>9, <2>1 DEF TypeOK
<1>11. TotalCounts'
  BY Zenon, <1>5, <1>6, CountsKept
<1>12. SoleWay(k, m) /\ SoleCast(k, g, m)
  BY Zenon, <1>8 DEF Sole, SoleWay
<1>13. \A c \in A : got[k][c][m] = 0
  BY Zenon, <1>7, <1>12 DEF SoleCast
<1>14. AtMostOnce'
  <2>1. \A j \in Broadcasts, c \in Conns, x \in Messages : got[j][c][x] <= 1
    BY Zenon DEF AtMostOnce
  <2>2. ASSUME NEW j \in Broadcasts, NEW c \in Conns, NEW x \in Messages PROVE got'[j][c][x] <= 1
    <3>1. CASE j # k \/ x # m \/ c \notin A
      <4>1. got'[j][c][x] = got[j][c][x]
        BY Zenon, <1>9, <3>1
      <4> QED
        BY SMT, <2>1, <4>1
    <3>2. CASE j = k /\ x = m /\ c \in A
      <4>1. got'[j][c][x] = got[k][c][m] + 1 /\ got[k][c][m] = 0
        BY Zenon, <1>9, <1>13, <3>2
      <4> QED
        BY SMT, <4>1
    <3> QED
      BY Zenon, <3>1, <3>2
  <2> QED
    BY Zenon, <2>2 DEF AtMostOnce
<1>15. \A n \in Nodes, i \in Nat, x \in Messages : Queued(n, i, x)' <=> Queued(n, i, x)
  BY Zenon, <1>5 DEF Queued
<1>16. \A h \in Goroutines : NodeOf(h)' = NodeOf(h)
  BY Zenon, <1>5 DEF NodeOf
<1>17. ASSUME NEW j \in Broadcasts, NEW x \in Messages PROVE SoleWay(j, x)'
  <2>1. CASE j # k \/ x # m
    <3>1. /\ SoleWay(j, x) /\ (x \in unsent' => x \in unsent)
          /\ \A c \in Conns : got'[j][c][x] = got[j][c][x]
      BY Zenon, <1>5, <1>9, <2>1 DEF Sole
    <3> QED
      BY Zenon, <1>5, <1>8, <1>15, <3>1, SoleWayKept
  <2>2. m \notin unsent'
    BY Zenon, <1>5, <1>8, <1>12 DEF SoleWay, Nowhere
  <2>3. ASSUME NEW h \in Goroutines, Casts(k, h, m)' PROVE SoleCast(k, h, m)'
    <3>1. h # g /\ Casts(k, h, m) /\ NodeOf(h) # NodeOf(g) /\ SoleCast(k, h, m)
      BY Zenon, <1>8, <1>12, <2>3 DEF SoleCast, SoleWay
    <3>2. \A c \in Conns : node[c] = NodeOf(h) => got'[k][c][m] = 0
      BY Zenon, <1>7, <1>9, <3>1 DEF SoleCast
    <3> QED
      BY Zenon, <1>5, <1>8, <1>15, <1>16, <3>1, <3>2 DEF SoleCast
  <2>4. ASSUME NEW h \in Goroutines, Fans(h, m)' PROVE SoleFan(k, h, m)'
    <3>1. SoleFan(k, h, m) /\ NodeOf(g) = NodeOf(h)
      BY Zenon, <1>8, <1>12, <2>4 DEF SoleFan, SoleWay
    <3>2. \A c \in Conns : node[c] # NodeOf(h) => got'[k][c][m] = 0
      BY Zenon, <1>7, <1>9, <3>1 DEF SoleFan
    <3> QED
      BY Zenon, <1>5, <1>8, <1>15, <1>16, <3>1, <3>2 DEF SoleFan
  <2>5. ASSUME NEW n \in Nodes, NEW i \in Nat, Queued(n, i, m)' PROVE SoleEntry(k, n, i, m)'
    <3>1. SoleEntry(k, n, i, m) /\ n # NodeOf(g)
      BY Zenon, <1>12, <1>15, <2>5 DEF SoleCast, SoleWay
    <3>2. \A c \in Conns : node[c] = n => got'[k][c][m] = 0
      BY Zenon, <1>7, <1>9, <3>1 DEF SoleEntry
    <3> QED
      BY Zenon, <1>5, <1>15, <3>1, <3>2 DEF SoleEntry
  <2>6. CASE j = k /\ x = m
    BY Zenon, <2>2, <2>3, <2>4, <2>5, <2>6 DEF SoleWay
  <2> QED
    BY Zenon, <2>1, <2>6
<1> QED
  BY Zenon, <1>8, <1>10, <1>11, <1>14, <1>17 DEF Sole

-----------------------------------------------------------------------------
(* The hub's maps.                                                          *)

\* A connection that was in no map is counted once (Hub.Register).
LEMMA CountUp ==
    ASSUME TypeOK, TotalCounts, NEW c \in Conns, ~registered[c], node' = node,
           registered' = [registered EXCEPT ![c] = TRUE],
           total' = [total EXCEPT ![node[c]] = @ + 1]
    PROVE  TotalCounts' /\ total' \in [Nodes -> Nat]
<1>1. /\ node[c] \in Nodes /\ registered \in [Conns -> BOOLEAN] /\ total \in [Nodes -> Nat]
  BY Zenon DEF TypeOK
<1>2. Local(node[c])' = Local(node[c]) \cup {c} /\ c \notin Local(node[c])
  BY SMT, <1>1 DEF Local
<1>3. \A n \in Nodes : n # node[c] => Local(n)' = Local(n)
  BY SMT, <1>1 DEF Local
<1>4. IsFiniteSet(Local(node[c]))
  <2>1. Local(node[c]) \subseteq Conns
    BY Zenon DEF Local
  <2> QED
    BY Zenon, <2>1, ConnsAssumption, FS_Subset
<1>5. Cardinality(Local(node[c]) \cup {c}) = Cardinality(Local(node[c])) + 1
  BY Zenon, <1>2, <1>4, FS_AddElement
<1>6. total' \in [Nodes -> Nat]
  BY SMT, <1>1
<1>7. /\ total'[node[c]] = total[node[c]] + 1 /\ total[node[c]] = Cardinality(Local(node[c]))
      /\ \A n \in Nodes : n # node[c] => total'[n] = total[n]
  BY SMT, <1>1 DEF TotalCounts
<1>8. total'[node[c]] = Cardinality(Local(node[c])')
  BY Zenon, <1>2, <1>5, <1>7
<1>9. TotalCounts'
  BY Zenon, <1>3, <1>7, <1>8 DEF TotalCounts
<1> QED
  BY Zenon, <1>6, <1>9

\* One that was in a map is taken off once (Hub.Unregister).
LEMMA CountsDown ==
    ASSUME TypeOK, TotalCounts, NEW c \in Conns, registered[c], node' = node,
           registered' = [registered EXCEPT ![c] = FALSE],
           total' = [total EXCEPT ![node[c]] = CountDown(node[c])]
    PROVE  TotalCounts' /\ total' \in [Nodes -> Nat]
<1>1. /\ node[c] \in Nodes /\ registered \in [Conns -> BOOLEAN] /\ total \in [Nodes -> Nat]
  BY Zenon DEF TypeOK
<1>2. Local(node[c])' = Local(node[c]) \ {c} /\ c \in Local(node[c])
  BY SMT, <1>1 DEF Local
<1>3. \A n \in Nodes : n # node[c] => Local(n)' = Local(n)
  BY SMT, <1>1 DEF Local
<1>4. IsFiniteSet(Local(node[c]))
  <2>1. Local(node[c]) \subseteq Conns
    BY Zenon DEF Local
  <2> QED
    BY Zenon, <2>1, ConnsAssumption, FS_Subset
<1>5. /\ Cardinality(Local(node[c]) \ {c}) = Cardinality(Local(node[c])) - 1
      /\ Cardinality(Local(node[c]) \ {c}) \in Nat
  <2>1. IsFiniteSet(Local(node[c]) \ {c})
    BY Zenon, <1>2, <1>4, FS_RemoveElement
  <2> QED
    BY SMT, <1>2, <1>4, <2>1, FS_RemoveElement, FS_CardinalityType
<1> QED
  BY Zenon, <1>1, <1>2, <1>3, <1>5 DEF TotalCounts, CountDown

LEMMA StepRegister ==
    ASSUME IInv, NEW c \in Conns, Register(c)
    PROVE  IInv'
<1> USE DEF IInv
<1>1. /\ todo[c] # <<>> /\ c \in Goroutines /\ ~registered[c] /\ socket[c] # "none"
  BY Zenon DEF Register, Doing, Placed, Goroutines
<1>2. /\ Then(c, <<Op("set", User[c])>>)
      /\ registered' = [registered EXCEPT ![c] = TRUE]
      /\ rooms' = [rooms EXCEPT ![c] = @ \cup {userRoom(User[c])}]
      /\ total' = [total EXCEPT ![node[c]] = @ + 1]
      /\ late' = IF status[node[c]] = "drain" THEN late \cup {c} ELSE late
      /\ UNCHANGED <<node, done, pumps, key, inbox, status, got, unsent, frames, faults>>
  BY Zenon DEF Register
<1>3. UNCHANGED <<socket, reader, writer, refresher>>
  BY Zenon, <1>2 DEF pumps
<1>4. TotalCounts' /\ total' \in [Nodes -> Nat]
  BY Zenon, <1>1, <1>2, CountUp
<1>5. /\ <<Op("set", User[c])>> \in Seq(Ops) /\ Modest(<<Op("set", User[c])>>)
  <2>1. Op("set", User[c]) \in Ops /\ Op("set", User[c]).op = "set"
    BY Zenon, OpTypes DEF Op, Users
  <2> QED
    BY SMT, <2>1, OneOp
<1>6. /\ \A d \in Conns : registered'[d] => registered[d] \/ d = c
      /\ \A d \in Conns : socket'[d] = "none" => socket[d] = "none" /\ ~registered'[d]
  BY SMT, <1>1, <1>2, <1>3 DEF Placed, TypeOK
<1>7. todo' \in [Goroutines -> Seq(Ops)] /\ Placed' /\ Sole' /\ AtMostOnce'
  BY Zenon, <1>1, <1>2, <1>5, <1>6, Ended
<1>8. /\ registered' \in [Conns -> BOOLEAN] /\ late' \subseteq Conns
      /\ rooms' \in [Conns -> SUBSET AllRooms]
  <2>1. userRoom(User[c]) \in AllRooms
    BY Zenon DEF AllRooms, Users
  <2> QED
    BY SMT, <1>2, <2>1 DEF TypeOK
<1>9. TypeOK'
  BY SMT, <1>2, <1>3, <1>4, <1>7, <1>8 DEF TypeOK
<1> QED
  BY Zenon, <1>4, <1>7, <1>9

LEMMA StepUnregister ==
    ASSUME IInv, NEW g \in Goroutines, Unregister(g)
    PROVE  IInv'
<1> USE DEF IInv
<1>1. todo[g] # <<>> /\ Head1(g).arg \in SUBSET Conns
  BY Zenon, HeadTypes DEF Unregister, Doing
<1>2. PICK c \in Head1(g).arg :
         LET last == ~\E d \in Local(node[c]) \ {c} : User[d] = User[c]
             next == Afterwards(c, Head1(g).arg)
         IN  IF Known(c)
             THEN /\ registered' = [registered EXCEPT ![c] = FALSE]
                  /\ rooms' = [rooms EXCEPT ![c] = {}]
                  /\ total' = [total EXCEPT ![node[c]] = CountDown(node[c])]
                  /\ Then(g, IF last THEN <<Op("del", User[c])>> \o next ELSE next)
             ELSE Then(g, next) /\ UNCHANGED hub
  BY Zenon DEF Unregister
<1>3. /\ c \in Conns
      /\ UNCHANGED <<node, done, pumps, key, inbox, status, got, unsent, late, frames, faults>>
  BY Zenon, <1>1 DEF Unregister
<1>4. UNCHANGED <<socket, reader, writer, refresher>>
  BY Zenon, <1>3 DEF pumps
<1> DEFINE next == Afterwards(c, Head1(g).arg)
           del  == <<Op("del", User[c])>>
<1>5. next \in Seq(Ops) /\ Modest(next)
  <2>1. {c} \in SUBSET Conns /\ Head1(g).arg \ {c} \in SUBSET Conns
    BY Zenon, <1>1, <1>3
  <2>2. Op("close", {c}) \in Ops /\ Op("close", {c}).op = "close"
    BY Zenon, <2>1, OpTypes DEF Op
  <2>3. <<Op("close", {c})>> \in Seq(Ops) /\ Modest(<<Op("close", {c})>>)
    BY SMT, <2>2, OneOp
  <2>4. dropSlow(Head1(g).arg \ {c}) \in Seq(Ops) /\ Modest(dropSlow(Head1(g).arg \ {c}))
    BY Zenon, <2>1, DropOps
  <2> QED
    BY Zenon, <2>3, <2>4, TwoOps DEF Afterwards
<1> HIDE DEF next
<1>6. del \in Seq(Ops) /\ Modest(del)
  <2>1. Op("del", User[c]) \in Ops /\ Op("del", User[c]).op = "del"
    BY Zenon, <1>3, OpTypes DEF Op, Users
  <2> QED
    BY SMT, <2>1, OneOp
<1>7. del \o next \in Seq(Ops) /\ Modest(del \o next)
  BY Zenon, <1>5, <1>6, TwoOps
<1>8. PICK ops \in Seq(Ops) : Modest(ops) /\ Then(g, ops)
  <2>1. Then(g, del \o next) \/ Then(g, next)
    BY Zenon, <1>2 DEF next
  <2> QED
    BY Zenon, <2>1, <1>5, <1>7
<1>9. CASE ~registered[c]
  <2>1. UNCHANGED hub
    BY Zenon, <1>2, <1>9 DEF Known
  <2>2. UNCHANGED <<registered, total, rooms>>
    BY Zenon, <2>1 DEF hub
  <2>3. todo' \in [Goroutines -> Seq(Ops)] => TypeOK'
    BY Zenon, <1>3, <1>4, <2>2 DEF TypeOK
  <2> QED
    BY Zenon, <1>1, <1>3, <1>4, <1>8, <2>1, <2>3, Routine
<1>10. CASE registered[c]
  <2>1. /\ registered' = [registered EXCEPT ![c] = FALSE]
        /\ rooms' = [rooms EXCEPT ![c] = {}]
        /\ total' = [total EXCEPT ![node[c]] = CountDown(node[c])]
    BY Zenon, <1>2, <1>10 DEF Known
  <2>2. TotalCounts' /\ total' \in [Nodes -> Nat]
    BY Zenon, <1>3, <1>10, <2>1, CountsDown
  <2>3. /\ registered' \in [Conns -> BOOLEAN] /\ rooms' \in [Conns -> SUBSET AllRooms]
        /\ \A d \in Conns : registered'[d] => registered[d] \/ d = g
        /\ \A d \in Conns : socket'[d] = "none" => socket[d] = "none" /\ ~registered'[d]
    BY Zenon, <1>4, <2>1 DEF TypeOK, Placed
  <2>4. todo' \in [Goroutines -> Seq(Ops)] /\ Placed' /\ Sole' /\ AtMostOnce'
    BY Zenon, <1>1, <1>3, <1>8, <2>3, Ended
  <2>5. TypeOK'
    BY Zenon, <1>3, <1>4, <2>2, <2>3, <2>4 DEF TypeOK
  <2> QED
    BY Zenon, <2>2, <2>4, <2>5
<1> QED
  BY Zenon, <1>9, <1>10

\* A goroutine takes up new work that neither registers nor carries a message.
LEMMA Begun ==
    ASSUME IInv, NEW g \in Goroutines, NEW t \in Seq(Ops), Modest(t),
           todo' = [todo EXCEPT ![g] = t],
           UNCHANGED <<node, registered, total, socket, got, unsent>>,
           \A n \in Nodes : inbox'[n] \in {inbox[n], <<>>},
           todo' \in [Goroutines -> Seq(Ops)] => TypeOK'
    PROVE  IInv'
<1>1. Follows(t, todo[g])
  BY Zenon, ModestFollows
<1>2. \A c \in Conns : socket'[c] = "none" => socket[c] = "none" /\ ~registered'[c]
  BY Zenon DEF IInv, Placed
<1>3. todo' \in [Goroutines -> Seq(Ops)] /\ Placed' /\ Sole' /\ AtMostOnce'
  BY Zenon, <1>1, <1>2, Quiet DEF IInv
<1>4. TotalCounts'
  BY Zenon, CountsKept DEF IInv
<1> QED
  BY Zenon, <1>3, <1>4 DEF IInv

\* Goroutines, messages and maps are left alone.
LEMMA Idle ==
    ASSUME IInv, UNCHANGED <<node, registered, total, todo, got, unsent>>,
           \A c \in Conns : socket'[c] = "none" => socket[c] = "none",
           \A n \in Nodes : inbox'[n] \in {inbox[n], <<>>},
           TypeOK'
    PROVE  IInv'
<1>1. Placed' /\ Sole' /\ AtMostOnce'
  BY Zenon, Still DEF IInv
<1>2. TotalCounts'
  BY Zenon, CountsKept DEF IInv
<1> QED
  BY Zenon, <1>1, <1>2 DEF IInv
-----------------------------------------------------------------------------
(* Frames of clients.                                                       *)

\* A member publishes a message nobody has published: its broadcast and its fanout
\* are the only ways of the message.
LEMMA PublishStep ==
    ASSUME IInv, NEW c \in Conns, todo[c] = <<>>, NEW r \in Topics,
           NEW m \in unsent, unsent' = unsent \ {m},
           todo' = [todo EXCEPT ![c] = <<Broadcast(r, m), PublishRoom(r, m)>>],
           UNCHANGED <<node, registered, socket, got, inbox>>
    PROVE  todo' \in [Goroutines -> Seq(Ops)] /\ Placed' /\ Sole'
<1> USE DEF IInv
<1>1. /\ todo \in [Goroutines -> Seq(Ops)] /\ m \in Messages /\ c \in Goroutines /\ c \notin Nodes
  BY Zenon, ConnsAssumption DEF TypeOK, Goroutines
<1> DEFINE t == <<Broadcast(r, m), PublishRoom(r, m)>>
<1>2. /\ t \in Seq(Ops) /\ Len(t) = 2 /\ t # <<>>
      /\ t[1].op = "broadcast" /\ t[1].msg = m /\ t[2].op = "fanout" /\ t[2].msg = m
  BY SMT, <1>1, OpTypes DEF Broadcast, PublishRoom
<1>3. Ordered(t)
  BY SMT, <1>2 DEF Ordered
<1> HIDE DEF t
<1>4. /\ todo' \in [Goroutines -> Seq(Ops)] /\ todo'[c] = t
      /\ \A h \in Goroutines : h # c => todo'[h] = todo[h]
  BY Zenon, <1>1, <1>2 DEF t
<1>5. Placed'
  <2>1. \A h \in Goroutines : Ordered(todo'[h])
    BY Zenon, <1>3, <1>4 DEF Placed
  <2>2. \A h \in Goroutines : Doing(h, "register")' => Doing(h, "register")
    BY SMT, <1>2, <1>4 DEF Doing, Head1
  <2> QED
    BY Zenon, <2>1, <2>2 DEF Placed, Goroutines, Ordered
<1>6. /\ \A k \in Broadcasts, h \in Goroutines, x \in Messages :
            Casts(k, h, x)' => Casts(k, h, x) \/ (h = c /\ x = m)
      /\ \A h \in Goroutines, x \in Messages : Fans(h, x)' => Fans(h, x) \/ (h = c /\ x = m)
  BY SMT, <1>2, <1>4 DEF Casts, Fans, Firsts, Lasts
<1>7. \A n \in Nodes, i \in Nat, x \in Messages : Queued(n, i, x)' <=> Queued(n, i, x)
  BY Zenon DEF Queued
<1>8. (\A k \in Broadcasts : Nowhere(k, m)) /\ m \notin unsent'
  BY Zenon, <1>1 DEF Sole, SoleWay
<1>9. ASSUME NEW k \in Broadcasts, NEW x \in Messages PROVE SoleWay(k, x)'
  <2>1. CASE x # m
    <3>1. /\ SoleWay(k, x) /\ (x \in unsent' => x \in unsent)
          /\ \A d \in Conns : got'[k][d][x] = got[k][d][x]
          /\ \A h \in Goroutines : Casts(k, h, x)' => Casts(k, h, x)
          /\ \A h \in Goroutines : Fans(h, x)' => Fans(h, x)
      BY Zenon, <1>6, <2>1 DEF Sole
    <3> QED
      BY Zenon, <1>7, <3>1, SoleWayKept
  <2>2. /\ \A h \in Goroutines : Casts(k, h, m)' => h = c
        /\ \A h \in Goroutines : Fans(h, m)' => h = c
        /\ \A n \in Nodes, i \in Nat : ~Queued(n, i, m)'
        /\ \A d \in Conns : got'[k][d][m] = 0
    BY Zenon, <1>1, <1>6, <1>7, <1>8 DEF Nowhere
  <2>3. CASE x = m
    BY Zenon, <1>8, <2>2, <2>3 DEF SoleWay, SoleCast, SoleFan, SoleEntry
  <2> QED
    BY Zenon, <2>1, <2>3
<1> QED
  BY Zenon, <1>4, <1>5, <1>9 DEF Sole

LEMMA StepHandleFrame ==
    ASSUME IInv, NEW c \in Conns, handleFrame(c)
    PROVE  IInv'
<1>1. /\ UNCHANGED <<node, registered, total, done, pumps, key, inbox, status, got, late, faults>>
      /\ todo[c] = <<>> /\ frames < MaxFrames /\ frames' = frames + 1 /\ c \in Goroutines
  BY Zenon DEF handleFrame, Goroutines
<1>2. UNCHANGED <<socket, reader, writer, refresher>>
  BY Zenon, <1>1 DEF pumps
<1>3. frames' \in 0 .. MaxFrames
  BY SMT, <1>1, BoundsAssumption DEF IInv, TypeOK
<1>4. /\ <<Op("reply", c)>> \in Seq(Ops) /\ Modest(<<Op("reply", c)>>)
      /\ <<>> \in Seq(Ops) /\ Modest(<<>>)
  <2>1. Op("reply", c) \in Ops /\ Op("reply", c).op = "reply"
    BY Zenon, OpTypes DEF Op
  <2> QED
    BY SMT, <2>1, OneOp, NoOp
<1>5. ASSUME NEW t \in Seq(Ops), Modest(t), todo' = [todo EXCEPT ![c] = t], unsent' = unsent,
             rooms' \in [Conns -> SUBSET AllRooms]
      PROVE  IInv'
  <2>1. todo' \in [Goroutines -> Seq(Ops)] => TypeOK'
    BY Zenon, <1>1, <1>2, <1>3, <1>5 DEF IInv, TypeOK
  <2> QED
    BY Zenon, <1>1, <1>2, <1>5, <2>1, Begun
<1>6. rooms \in [Conns -> SUBSET AllRooms] /\ Topics \subseteq AllRooms /\ todo \in [Goroutines -> Seq(Ops)]
  BY Zenon DEF IInv, TypeOK, AllRooms
<1>7. ASSUME NEW r \in Topics, Join(c, r) PROVE IInv'
  <2>1. rooms' \in [Conns -> SUBSET AllRooms]
    BY SMT, <1>6, <1>7 DEF Join
  <2>2. PICK t \in {<<>>, <<Op("reply", c)>>} : todo' = [todo EXCEPT ![c] = t] /\ unsent' = unsent
    BY Zenon, <1>7 DEF Join
  <2> QED
    BY Zenon, <1>4, <1>5, <2>1, <2>2
<1>8. ASSUME NEW r \in Topics, Leave(c, r) PROVE IInv'
  <2>1. rooms' \in [Conns -> SUBSET AllRooms]
    BY SMT, <1>6, <1>8 DEF Leave
  <2>2. todo' = [todo EXCEPT ![c] = <<>>] /\ unsent' = unsent
    BY SMT, <1>1, <1>6, <1>8 DEF Leave
  <2> QED
    BY Zenon, <1>4, <1>5, <2>1, <2>2
<1>9. ASSUME NEW r \in Topics, Publish(c, r) PROVE IInv'
  <2>1. rooms' \in [Conns -> SUBSET AllRooms]
    BY Zenon, <1>6, <1>9 DEF Publish
  <2>2. CASE r \notin rooms[c]
    BY Zenon, <1>4, <1>5, <1>9, <2>1, <2>2 DEF Publish
  <2>3. CASE r \in rooms[c]
    <3>1. PICK m \in unsent :
             /\ unsent' = unsent \ {m}
             /\ todo' = [todo EXCEPT ![c] = <<Broadcast(r, m), PublishRoom(r, m)>>]
      BY Zenon, <1>9, <2>3 DEF Publish
    <3>2. todo' \in [Goroutines -> Seq(Ops)] /\ Placed' /\ Sole'
      BY Zenon, <1>1, <1>2, <3>1, PublishStep
    <3>3. TypeOK'
      BY Zenon, <1>1, <1>2, <1>3, <2>1, <3>1, <3>2 DEF IInv, TypeOK
    <3>4. TotalCounts' /\ AtMostOnce'
      BY Zenon, <1>1, CountsKept DEF IInv, AtMostOnce
    <3> QED
      BY Zenon, <3>2, <3>3, <3>4 DEF IInv
  <2> QED
    BY Zenon, <2>2, <2>3
<1>10. ASSUME NEW u \in Users, todo' = [todo EXCEPT ![c] = <<Op("deliver", u)>>], UNCHANGED <<rooms, unsent>>
       PROVE  IInv'
  <2>1. Op("deliver", u) \in Ops /\ Op("deliver", u).op = "deliver"
    BY Zenon, OpTypes DEF Op
  <2>2. <<Op("deliver", u)>> \in Seq(Ops) /\ Modest(<<Op("deliver", u)>>)
    BY SMT, <2>1, OneOp
  <2> QED
    BY Zenon, <1>5, <1>6, <1>10, <2>2
<1>11. ASSUME todo' = [todo EXCEPT ![c] = <<Op("reply", c)>>], UNCHANGED <<rooms, unsent>>
       PROVE  IInv'
  BY Zenon, <1>4, <1>5, <1>6, <1>11
<1> QED
  BY Zenon, <1>7, <1>8, <1>9, <1>10, <1>11 DEF handleFrame

-----------------------------------------------------------------------------
(* A connection from handshake to teardown.                                 *)

\* The handler of a new connection is to register it; it is in no map yet.
LEMMA StepServeWS ==
    ASSUME IInv, NEW c \in Conns, serveWS(c)
    PROVE  IInv'
<1> USE DEF IInv
<1> DEFINE t == <<Op("register", c), Op("pumps", c)>>
<1>1. /\ UNCHANGED <<node, hub, done, reader, writer, refresher, key, inbox, status, got,
                     unsent, late, frames, faults>>
      /\ socket[c] = "none" /\ socket' = [socket EXCEPT ![c] = "open"]
      /\ todo' = [todo EXCEPT ![c] = t] /\ c \in Goroutines /\ c \notin Nodes
  BY Zenon, ConnsAssumption DEF serveWS, Goroutines
<1>2. UNCHANGED <<registered, total, rooms>> /\ ~registered[c] /\ todo \in [Goroutines -> Seq(Ops)]
  BY Zenon, <1>1 DEF hub, Placed, TypeOK
<1>3. /\ t \in Seq(Ops) /\ Len(t) = 2 /\ t[1].op = "register" /\ t[2].op = "pumps"
  <2>1. /\ Op("register", c) \in Ops /\ Op("register", c).op = "register"
        /\ Op("pumps", c) \in Ops /\ Op("pumps", c).op = "pumps"
    BY Zenon, OpTypes DEF Op
  <2> QED
    BY SMT, <2>1
<1>4. Ordered(t)
  BY SMT, <1>3 DEF Ordered
<1> HIDE DEF t
<1>5. /\ todo' \in [Goroutines -> Seq(Ops)] /\ todo'[c] = t
      /\ \A h \in Goroutines : h # c => todo'[h] = todo[h]
  BY Zenon, <1>1, <1>2, <1>3
<1>6. /\ socket' \in [Conns -> {"none", "open", "closed"}] /\ socket'[c] # "none"
      /\ \A d \in Conns : socket'[d] = "none" => socket[d] = "none"
      /\ \A d \in Conns : socket[d] # "none" => socket'[d] # "none"
  BY SMT, <1>1 DEF TypeOK
<1>7. TypeOK'
  BY Zenon, <1>1, <1>2, <1>5, <1>6 DEF TypeOK
<1>8. Placed'
  <2>1. \A h \in Goroutines : Ordered(todo'[h])
    BY Zenon, <1>4, <1>5 DEF Placed
  <2>2. \A h \in Goroutines : Doing(h, "register")' => Doing(h, "register") \/ h = c
    BY Zenon, <1>5 DEF Doing, Head1
  <2> QED
    BY Zenon, <1>1, <1>2, <1>6, <2>1, <2>2 DEF Placed, Goroutines, Ordered
<1>9. Sole' /\ AtMostOnce'
  <2>1. /\ \A k \in Broadcasts, h \in Goroutines, m \in Messages : Casts(k, h, m)' => Casts(k, h, m)
        /\ \A h \in Goroutines, m \in Messages : Fans(h, m)' => Fans(h, m)
    BY SMT, <1>3, <1>5 DEF Casts, Fans, Firsts, Lasts
  <2>2. \A n \in Nodes, i \in Nat, m \in Messages : Queued(n, i, m)' => Queued(n, i, m)
    BY Zenon, <1>1 DEF Queued
  <2> QED
    BY Zenon, <1>1, <2>1, <2>2, SoleKept
<1>10. TotalCounts'
  BY Zenon, <1>1, <1>2, CountsKept
<1> QED
  BY Zenon, <1>7, <1>8, <1>9, <1>10

LEMMA StepStartPumps ==
    ASSUME IInv, NEW c \in Conns, StartPumps(c)
    PROVE  IInv'
<1>1. /\ Then(c, <<>>) /\ todo[c] # <<>> /\ c \in Goroutines /\ Modest(<<>>) /\ <<>> \in Seq(Ops)
      /\ UNCHANGED <<node, hub, done, socket, key, inbox, status, got, unsent, late, frames, faults>>
  BY Zenon, NoOp DEF StartPumps, Doing, Goroutines
<1>2. /\ reader' \in [Conns -> Pump] /\ writer' \in [Conns -> Pump] /\ refresher' \in [Conns -> Pump]
  BY SMT DEF StartPumps, IInv, TypeOK, Pump
<1>3. todo' \in [Goroutines -> Seq(Ops)] => TypeOK'
  BY Zenon, <1>1, <1>2 DEF IInv, TypeOK, hub
<1> QED
  BY Zenon, <1>1, <1>3, Routine

LEMMA StepCloseWithReason ==
    ASSUME IInv, NEW g \in Goroutines, closeWithReason(g)
    PROVE  IInv'
<1>1. todo[g] # <<>> /\ Head1(g).arg \in SUBSET Conns
  BY Zenon, HeadTypes DEF closeWithReason, Doing, IInv
<1>2. PICK c \in Head1(g).arg :
         done' = [done EXCEPT ![c] = TRUE] /\ Then(g, CloseAll(Head1(g).arg \ {c}))
  BY Zenon DEF closeWithReason
<1>3. UNCHANGED <<node, hub, pumps, key, inbox, status, got, unsent, late, frames, faults>>
  BY Zenon DEF closeWithReason
<1>4. Head1(g).arg \ {c} \in SUBSET Conns
  BY Zenon, <1>1
<1>5. CloseAll(Head1(g).arg \ {c}) \in Seq(Ops) /\ Modest(CloseAll(Head1(g).arg \ {c}))
  BY Zenon, <1>4, DropOps
<1>6. done' \in [Conns -> BOOLEAN]
  BY Zenon, <1>2 DEF IInv, TypeOK
<1>7. todo' \in [Goroutines -> Seq(Ops)] => TypeOK'
  BY Zenon, <1>3, <1>6 DEF IInv, TypeOK, hub, pumps
<1> QED
  BY Zenon, <1>1, <1>2, <1>3, <1>5, <1>7, Routine DEF pumps

LEMMA StepShut ==
    ASSUME IInv, NEW c \in Conns, Shut(c)
    PROVE  IInv'
<1>1. /\ Then(c, <<>>) /\ todo[c] # <<>> /\ c \in Goroutines /\ Modest(<<>>) /\ <<>> \in Seq(Ops)
      /\ UNCHANGED <<node, hub, done, writer, refresher, key, inbox, status, got, unsent, late,
                     frames, faults>>
  BY Zenon, NoOp DEF Shut, Doing, Goroutines
<1>2. /\ reader' \in [Conns -> Pump] /\ socket' \in [Conns -> {"none", "open", "closed"}]
      /\ \A d \in Conns : socket'[d] = "none" => socket[d] = "none"
  BY SMT DEF Shut, IInv, TypeOK, Pump
<1>3. todo' \in [Goroutines -> Seq(Ops)] => TypeOK'
  BY Zenon, <1>1, <1>2 DEF IInv, TypeOK, hub
<1> QED
  BY Zenon, <1>1, <1>2, <1>3, Routine

LEMMA StepReadFails ==
    ASSUME IInv, NEW c \in Conns, ReadFails(c)
    PROVE  IInv'
<1>1. /\ todo' = [todo EXCEPT ![c] = cleanup(c)] /\ c \in Goroutines
      /\ UNCHANGED <<node, hub, done, pumps, key, inbox, status, got, unsent, late, frames>>
  BY Zenon DEF ReadFails, Goroutines
<1>2. cleanup(c) \in Seq(Ops) /\ Modest(cleanup(c))
  <2>1. /\ Op("unregister", {c}) \in Ops /\ Op("unregister", {c}).op = "unregister"
        /\ Op("shut", c) \in Ops /\ Op("shut", c).op = "shut"
    BY Zenon, OpTypes DEF Op
  <2> QED
    BY SMT, <2>1 DEF cleanup, Modest
<1>3. faults' \in 0 .. MaxFaults
  BY SMT, Faults DEF ReadFails, IInv, TypeOK
<1>4. todo' \in [Goroutines -> Seq(Ops)] => TypeOK'
  BY Zenon, <1>1, <1>3 DEF IInv, TypeOK, hub, pumps
<1>5. \A n \in Nodes : inbox'[n] \in {inbox[n], <<>>}
  BY Zenon, <1>1
<1> QED
  BY Zenon, <1>1, <1>2, <1>4, <1>5, Begun DEF hub, pumps

LEMMA StepWriterExits ==
    ASSUME IInv, NEW c \in Conns, WriterExits(c)
    PROVE  IInv'
<1>1. UNCHANGED <<node, hub, done, reader, refresher, todo, key, inbox, status, got, unsent, late, frames>>
  BY Zenon DEF WriterExits
<1>2. /\ writer' \in [Conns -> Pump] /\ socket' \in [Conns -> {"none", "open", "closed"}]
      /\ \A d \in Conns : socket'[d] = "none" => socket[d] = "none"
  BY SMT DEF WriterExits, IInv, TypeOK, Pump
<1>3. faults' \in 0 .. MaxFaults
  BY SMT, Faults DEF WriterExits, IInv, TypeOK
<1>4. TypeOK'
  BY Zenon, <1>1, <1>2, <1>3 DEF IInv, TypeOK, hub
<1> QED
  BY Zenon, <1>1, <1>2, <1>4, Idle DEF hub
-----------------------------------------------------------------------------
(* Redis and the replicas' processes.                                       *)

\* The presence keys.
LEMMA StepSetKey ==
    ASSUME IInv, NEW c \in Conns, SetKey(c)
    PROVE  IInv'
<1>1. /\ Then(c, <<>>) /\ todo[c] # <<>> /\ c \in Goroutines /\ Modest(<<>>) /\ <<>> \in Seq(Ops)
      /\ UNCHANGED <<node, hub, done, pumps, inbox, status, got, unsent, late, frames>>
  BY Zenon, NoOp DEF SetKey, Doing, Goroutines
<1>2. key' \in [Users -> BOOLEAN] /\ faults' \in 0 .. MaxFaults
  BY Zenon, Faults DEF SetKey, IInv, TypeOK
<1>3. todo' \in [Goroutines -> Seq(Ops)] => TypeOK'
  BY Zenon, <1>1, <1>2 DEF IInv, TypeOK, hub, pumps
<1> QED
  BY Zenon, <1>1, <1>3, Routine DEF pumps

LEMMA StepDelKey ==
    ASSUME IInv, NEW g \in Goroutines, DelKey(g)
    PROVE  IInv'
<1>1. /\ Then(g, <<>>) /\ todo[g] # <<>> /\ Modest(<<>>) /\ <<>> \in Seq(Ops)
      /\ UNCHANGED <<node, hub, done, pumps, inbox, status, got, unsent, late, frames>>
  BY Zenon, NoOp DEF DelKey, Doing
<1>2. key' \in [Users -> BOOLEAN] /\ faults' \in 0 .. MaxFaults
  BY Zenon, Faults DEF DelKey, IInv, TypeOK
<1>3. todo' \in [Goroutines -> Seq(Ops)] => TypeOK'
  BY Zenon, <1>1, <1>2 DEF IInv, TypeOK, hub, pumps
<1> QED
  BY Zenon, <1>1, <1>3, Routine DEF pumps

LEMMA StepRefresh ==
    ASSUME IInv, NEW c \in Conns, Refresh(c) \/ RefresherExits(c)
    PROVE  IInv'
<1>1. UNCHANGED <<node, hub, done, reader, writer, socket, todo, inbox, status, got, unsent, late, frames, faults>>
  BY Zenon DEF Refresh, RefresherExits, pumps
<1>2. key' \in [Users -> BOOLEAN] /\ refresher' \in [Conns -> Pump]
  BY Zenon DEF Refresh, RefresherExits, pumps, IInv, TypeOK, Pump
<1>3. TypeOK'
  BY Zenon, <1>1, <1>2 DEF IInv, TypeOK, hub
<1> QED
  BY Zenon, <1>1, <1>3, Idle DEF hub

LEMMA StepExpire ==
    ASSUME IInv, NEW u \in Users, Expire(u)
    PROVE  IInv'
<1>1. UNCHANGED <<node, hub, done, pumps, todo, inbox, status, got, unsent, late, frames>>
  BY Zenon DEF Expire
<1>2. key' \in [Users -> BOOLEAN] /\ faults' \in 0 .. MaxFaults
  BY SMT, Faults DEF Expire, IInv, TypeOK
<1>3. TypeOK'
  BY Zenon, <1>1, <1>2 DEF IInv, TypeOK, hub, pumps
<1> QED
  BY Zenon, <1>1, <1>3, Idle DEF hub, pumps

LEMMA StepResubscribe ==
    ASSUME IInv, NEW n \in Nodes, Resubscribe(n)
    PROVE  IInv'
<1>1. /\ UNCHANGED <<node, hub, done, pumps, todo, key, status, got, unsent, late, frames>>
      /\ inbox' = [inbox EXCEPT ![n] = <<>>]
  BY Zenon DEF Resubscribe
<1>2. /\ inbox' \in [Nodes -> Seq(Events)] /\ faults' \in 0 .. MaxFaults
      /\ \A o \in Nodes : inbox'[o] \in {inbox[o], <<>>}
  BY SMT, <1>1, Faults DEF Resubscribe, IInv, TypeOK
<1>3. TypeOK'
  BY Zenon, <1>1, <1>2 DEF IInv, TypeOK, hub, pumps
<1> QED
  BY Zenon, <1>1, <1>2, <1>3, Idle DEF hub, pumps

LEMMA StepShutdown ==
    ASSUME IInv, NEW n \in Nodes, Shutdown(n)
    PROVE  IInv'
<1>1. /\ todo' = [todo EXCEPT ![n] = CloseAll(Local(n))] /\ n \in Goroutines
      /\ inbox' = [inbox EXCEPT ![n] = <<>>]
      /\ UNCHANGED <<node, hub, done, pumps, key, got, unsent, late, frames>>
  BY Zenon DEF Shutdown, Goroutines
<1>2. CloseAll(Local(n)) \in Seq(Ops) /\ Modest(CloseAll(Local(n)))
  <2>1. Local(n) \in SUBSET Conns
    BY Zenon DEF Local
  <2> QED
    BY Zenon, <2>1, DropOps
<1>3. /\ inbox' \in [Nodes -> Seq(Events)] /\ faults' \in 0 .. MaxFaults
      /\ status' \in [Nodes -> {"up", "drain", "exited"}]
      /\ \A o \in Nodes : inbox'[o] \in {inbox[o], <<>>}
  BY SMT, <1>1, Faults DEF Shutdown, IInv, TypeOK
<1>4. todo' \in [Goroutines -> Seq(Ops)] => TypeOK'
  BY Zenon, <1>1, <1>3 DEF IInv, TypeOK, hub, pumps
<1> QED
  BY Zenon, <1>1, <1>2, <1>3, <1>4, Begun DEF hub, pumps

\* An entry e is appended to the subscriptions of the replicas ns.
LEMMA Appended ==
    ASSUME TypeOK, NEW ns \in SUBSET Nodes, NEW e \in Events, ToAll(ns, e)
    PROVE  /\ inbox' \in [Nodes -> Seq(Events)]
           /\ \A n \in Nodes, i \in Nat, m \in Messages : Queued(n, i, m)' =>
                 Queued(n, i, m) \/ (n \in ns /\ m = e.msg /\ i = Len(inbox[n]) + 1)
<1>1. inbox \in [Nodes -> Seq(Events)]
  BY Zenon DEF TypeOK
<1>2. inbox' = [n \in Nodes |-> IF n \in ns THEN Append(inbox[n], e) ELSE inbox[n]]
  BY Zenon DEF ToAll
<1>3. ASSUME NEW n \in Nodes
      PROVE  /\ inbox'[n] \in Seq(Events)
             /\ \A i \in Nat, m \in Messages : Queued(n, i, m)' =>
                   Queued(n, i, m) \/ (n \in ns /\ m = e.msg /\ i = Len(inbox[n]) + 1)
  <2>1. inbox[n] \in Seq(Events) /\ Len(inbox[n]) \in Nat
    BY SMT, <1>1
  <2>2. CASE n \notin ns
    BY Zenon, <1>2, <2>1, <2>2 DEF Queued
  <2>3. CASE n \in ns
    <3>1. inbox'[n] = Append(inbox[n], e)
      BY Zenon, <1>2, <2>3
    <3>2. /\ inbox'[n] \in Seq(Events) /\ Len(inbox'[n]) = Len(inbox[n]) + 1
          /\ inbox'[n][Len(inbox[n]) + 1] = e
          /\ \A i \in 1 .. Len(inbox[n]) : inbox'[n][i] = inbox[n][i]
      BY SMT, <2>1, <3>1
    <3> QED
      BY SMT, <2>1, <2>3, <3>2 DEF Queued
  <2> QED
    BY Zenon, <2>2, <2>3
<1> QED
  BY Zenon, <1>2, <1>3

\* Two entries of the new queues are never the same message m when none was queued.
LEMMA StepPublishFanout ==
    ASSUME IInv, NEW c \in Conns, PublishFanout(c)
    PROVE  IInv'
<1> USE DEF IInv
<1>1. /\ todo[c] # <<>> /\ todo[c][1].op = "fanout" /\ Head1(c) = todo[c][1]
      /\ c \in Goroutines /\ NodeOf(c) = node[c]
      /\ Then(c, <<>>)
      /\ UNCHANGED <<node, hub, done, pumps, key, status, got, unsent, late, frames, faults>>
  BY Zenon, ConnNode DEF PublishFanout, Doing, Head1
<1>2. UNCHANGED <<registered, total, rooms, socket, reader, writer, refresher>>
  BY Zenon, <1>1 DEF hub, pumps
<1>3. PICK m \in Messages : m = Head1(c).msg
  BY Zenon, <1>1, HeadTypes
<1>4. PICK e \in Events : e.msg = m /\ ToAll(Receivers(node[c]), e)
  <2>1. Head1(c).arg \in Topics
    BY Zenon, <1>1, HeadTypes
  <2> DEFINE e == [kind |-> "room", arg |-> Head1(c).arg, msg |-> Head1(c).msg]
  <2>2. e \in Events /\ e.msg = m
    BY SMT, <1>3, <2>1 DEF Events
  <2>3. ToAll(Receivers(node[c]), e)
    BY Zenon DEF PublishFanout
  <2> QED
    BY Zenon, <2>2, <2>3
<1>5. /\ inbox' \in [Nodes -> Seq(Events)]
      /\ \A n \in Nodes, i \in Nat, x \in Messages : Queued(n, i, x)' =>
            Queued(n, i, x) \/ (n # node[c] /\ x = m /\ i = Len(inbox[n]) + 1)
  <2>1. Receivers(node[c]) \in SUBSET Nodes /\ node[c] \notin Receivers(node[c])
    BY Zenon DEF Receivers
  <2>2. /\ inbox' \in [Nodes -> Seq(Events)]
        /\ \A n \in Nodes, i \in Nat, x \in Messages : Queued(n, i, x)' =>
              Queued(n, i, x) \/ (n \in Receivers(node[c]) /\ x = e.msg /\ i = Len(inbox[n]) + 1)
    BY Zenon, <1>4, <2>1, Appended
  <2> QED
    BY Zenon, <1>4, <2>1, <2>2
<1>6. todo[c] \in Seq(Ops) /\ Ordered(todo[c]) /\ Len(todo[c]) = 1
  <2>1. todo[c] \in Seq(Ops) /\ Ordered(todo[c])
    BY Zenon, <1>1 DEF TypeOK, Placed
  <2>2. 1 \in 1 .. Len(todo[c])
    BY SMT, <1>1, <2>1
  <2> QED
    BY Zenon, <1>1, <2>1, <2>2 DEF Ordered
<1>7. Fans(c, m)
  BY SMT, <1>1, <1>3, <1>6 DEF Fans, Lasts
<1>8. todo' = [todo EXCEPT ![c] = <<>>]
  <2>1. <<>> \o Tail(todo[c]) \in Seq(Ops) /\ Len(<<>> \o Tail(todo[c])) = 0
    BY SMT, <1>1, <1>6
  <2>2. <<>> \o Tail(todo[c]) = <<>>
    BY Zenon, <2>1, NoneLeft
  <2> QED
    BY Zenon, <1>1, <2>2 DEF Then
<1>9. /\ todo' \in [Goroutines -> Seq(Ops)] /\ Placed'
      /\ \A k \in Broadcasts, h \in Goroutines, x \in Messages : Casts(k, h, x)' => Casts(k, h, x)
      /\ \A h \in Goroutines, x \in Messages : Fans(h, x)' => Fans(h, x)
  <2>1. Follows(<<>>, todo[c])
    BY Zenon, NoOp, ModestFollows
  <2>2. \A d \in Conns : socket'[d] = "none" => socket[d] = "none" /\ ~registered'[d]
    BY Zenon, <1>2 DEF Placed
  <2> QED
    BY Zenon, <1>1, <1>2, <1>8, <2>1, <2>2, GoesOn
<1>10. TypeOK'
  BY Zenon, <1>1, <1>2, <1>5, <1>9 DEF TypeOK
<1>11. TotalCounts' /\ AtMostOnce'
  BY Zenon, <1>1, <1>2, CountsKept DEF AtMostOnce
<1>12. \A k \in Broadcasts : SoleWay(k, m) /\ SoleFan(k, c, m)
  BY Zenon, <1>1, <1>7 DEF Sole, SoleWay
<1>13. ASSUME NEW k \in Broadcasts, NEW x \in Messages PROVE SoleWay(k, x)'
  <2>1. CASE x # m
    <3>1. /\ SoleWay(k, x) /\ (x \in unsent' => x \in unsent)
          /\ \A d \in Conns : got'[k][d][x] = got[k][d][x]
          /\ \A n \in Nodes, i \in Nat : Queued(n, i, x)' => Queued(n, i, x)
      BY Zenon, <1>1, <1>5, <2>1 DEF Sole
    <3> QED
      BY Zenon, <1>1, <1>9, <3>1, SoleWayKept
  <2>2. m \notin unsent' /\ \A h \in Goroutines : NodeOf(h)' = NodeOf(h)
    BY Zenon, <1>1, <1>7, <1>12 DEF SoleWay, Nowhere, NodeOf
  <2>3. \A h \in Goroutines : ~Fans(h, m)'
    <3>1. todo'[c] = <<>>
      BY Zenon, <1>1, <1>8 DEF TypeOK
    <3> QED
      BY Zenon, <1>9, <1>12, <3>1 DEF SoleFan, Fans, Lasts
  <2>4. \A n \in Nodes, i \in Nat : Queued(n, i, m)' => n # node[c] /\ i = Len(inbox[n]) + 1
    BY Zenon, <1>5, <1>12 DEF SoleFan
  <2>5. ASSUME NEW h \in Goroutines, Casts(k, h, m)' PROVE SoleCast(k, h, m)'
    <3>1. Casts(k, h, m) /\ NodeOf(h) = node[c] /\ SoleCast(k, h, m)
      BY Zenon, <1>1, <1>9, <1>12, <2>5 DEF SoleFan, SoleWay
    <3> QED
      BY Zenon, <1>1, <1>9, <2>2, <2>4, <3>1 DEF SoleCast
  <2>6. ASSUME NEW n \in Nodes, NEW i \in Nat, Queued(n, i, m)' PROVE SoleEntry(k, n, i, m)'
    <3>1. n # node[c] /\ i = Len(inbox[n]) + 1
      BY Zenon, <2>4, <2>6
    <3>2. \A j \in Nat : Queued(n, j, m)' => j = i
      BY Zenon, <2>4, <3>1
    <3>3. \A d \in Conns : node[d] = n => got[k][d][m] = 0
      BY Zenon, <1>1, <1>12, <3>1 DEF SoleFan
    <3> QED
      BY Zenon, <1>1, <3>2, <3>3 DEF SoleEntry
  <2>7. CASE x = m
    BY Zenon, <2>2, <2>3, <2>5, <2>6, <2>7 DEF SoleWay
  <2> QED
    BY Zenon, <2>1, <2>7
<1> QED
  BY Zenon, <1>9, <1>10, <1>11, <1>13 DEF Sole

LEMMA StepPublishJobEvent ==
    ASSUME IInv, NEW u \in Users, PublishJobEvent(u)
    PROVE  IInv'
<1> USE DEF IInv
<1>1. UNCHANGED <<node, hub, done, pumps, todo, key, status, got, late, frames, faults>>
  BY Zenon DEF PublishJobEvent
<1>2. UNCHANGED <<registered, total, rooms, socket, reader, writer, refresher>>
  BY Zenon, <1>1 DEF hub, pumps
<1> DEFINE up == {n \in Nodes : status[n] = "up"}
<1>3. PICK m \in unsent : unsent' = unsent \ {m} /\ ToAll(up, [kind |-> "event", arg |-> u, msg |-> m])
  BY Zenon DEF PublishJobEvent
<1>4. m \in Messages /\ unsent' \subseteq Messages
  BY Zenon, <1>3 DEF TypeOK
<1>5. PICK e \in Events : e.msg = m /\ ToAll(up, e)
  <2> DEFINE e == [kind |-> "event", arg |-> u, msg |-> m]
  <2>1. e \in Events /\ e.msg = m
    BY SMT, <1>4 DEF Events
  <2> QED
    BY Zenon, <1>3, <2>1
<1>6. /\ inbox' \in [Nodes -> Seq(Events)]
      /\ \A n \in Nodes, i \in Nat, x \in Messages : Queued(n, i, x)' =>
            Queued(n, i, x) \/ (x = m /\ i = Len(inbox[n]) + 1)
  <2>1. up \in SUBSET Nodes
    BY Zenon
  <2> HIDE DEF up
  <2>2. /\ inbox' \in [Nodes -> Seq(Events)]
        /\ \A n \in Nodes, i \in Nat, x \in Messages : Queued(n, i, x)' =>
              Queued(n, i, x) \/ (n \in up /\ x = e.msg /\ i = Len(inbox[n]) + 1)
    BY Zenon, <1>5, <2>1, Appended
  <2> QED
    BY Zenon, <1>5, <2>2
<1>7. TypeOK'
  BY Zenon, <1>1, <1>2, <1>4, <1>6 DEF TypeOK
<1>8. Placed'
  BY Zenon, <1>1, <1>2 DEF Placed, Ordered, Doing, Head1
<1>9. TotalCounts' /\ AtMostOnce'
  BY Zenon, <1>1, <1>2, CountsKept DEF AtMostOnce
<1>10. /\ \A k \in Broadcasts, h \in Goroutines, x \in Messages : Casts(k, h, x)' <=> Casts(k, h, x)
       /\ \A h \in Goroutines, x \in Messages : Fans(h, x)' <=> Fans(h, x)
  BY Zenon, <1>1 DEF Casts, Fans, Firsts, Lasts
<1>11. (\A k \in Broadcasts : Nowhere(k, m)) /\ m \notin unsent'
  BY Zenon, <1>3, <1>4 DEF Sole, SoleWay
<1>12. ASSUME NEW k \in Broadcasts, NEW x \in Messages PROVE SoleWay(k, x)'
  <2>1. CASE x # m
    <3>1. /\ SoleWay(k, x) /\ (x \in unsent' => x \in unsent)
          /\ \A d \in Conns : got'[k][d][x] = got[k][d][x]
          /\ \A n \in Nodes, i \in Nat : Queued(n, i, x)' => Queued(n, i, x)
      BY Zenon, <1>1, <1>3, <1>6, <2>1 DEF Sole
    <3> QED
      BY Zenon, <1>1, <1>10, <3>1, SoleWayKept
  <2>2. /\ \A h \in Goroutines : ~Casts(k, h, m)' /\ ~Fans(h, m)'
        /\ \A n \in Nodes, i \in Nat : Queued(n, i, m)' => i = Len(inbox[n]) + 1
        /\ \A d \in Conns : got'[k][d][m] = 0
    BY Zenon, <1>1, <1>4, <1>6, <1>10, <1>11 DEF Nowhere
  <2>3. CASE x = m
    BY Zenon, <1>11, <2>2, <2>3 DEF SoleWay, SoleEntry
  <2> QED
    BY Zenon, <2>1, <2>3
<1> QED
  BY Zenon, <1>7, <1>8, <1>9, <1>12 DEF Sole

\* A replica takes a message off its subscription: the broadcast takes the place of
\* the entry as the one way of the message to the replica.
LEMMA StepDispatch ==
    ASSUME IInv, NEW n \in Nodes, dispatch(n)
    PROVE  IInv'
<1> USE DEF IInv
<1>1. /\ UNCHANGED <<node, hub, done, pumps, key, status, got, unsent, late, frames, faults>>
      /\ inbox[n] # <<>> /\ inbox' = [inbox EXCEPT ![n] = Tail(@)]
      /\ n \in Goroutines /\ NodeOf(n) = n /\ n \notin Conns
  BY Zenon, ConnsAssumption DEF dispatch, Goroutines, NodeOf
<1>2. UNCHANGED <<registered, total, rooms, socket, reader, writer, refresher>>
  BY Zenon, <1>1 DEF hub, pumps
<1>3. /\ inbox \in [Nodes -> Seq(Events)] /\ todo \in [Goroutines -> Seq(Ops)]
      /\ inbox[n] \in Seq(Events) /\ Len(inbox[n]) \in Nat \ {0} /\ inbox[n][1] \in Events
      /\ Head(inbox[n]) = inbox[n][1]
  BY SMT, <1>1 DEF TypeOK
<1>4. PICK m \in Messages : m = inbox[n][1].msg
  BY SMT, <1>3 DEF Events
<1>5. /\ inbox' \in [Nodes -> Seq(Events)]
      /\ \A i \in Nat, x \in Messages : Queued(n, i, x)' => Queued(n, i + 1, x) /\ i + 1 # 1
      /\ \A o \in Nodes, i \in Nat, x \in Messages : o # n => (Queued(o, i, x)' <=> Queued(o, i, x))
  <2>1. /\ inbox'[n] = Tail(inbox[n]) /\ Tail(inbox[n]) \in Seq(Events)
        /\ \A o \in Nodes : o # n => inbox'[o] = inbox[o]
    BY SMT, <1>1, <1>3
  <2>2. inbox' \in [Nodes -> Seq(Events)]
    BY Zenon, <1>1, <1>3, <2>1
  <2>3. /\ Len(Tail(inbox[n])) = Len(inbox[n]) - 1
        /\ \A i \in 1 .. Len(inbox[n]) - 1 : Tail(inbox[n])[i] = inbox[n][i + 1]
    BY SMT, <1>1, <1>3
  <2>4. \A i \in Nat, x \in Messages : Queued(n, i, x)' => Queued(n, i + 1, x) /\ i + 1 # 1
    BY SMT, <1>3, <2>1, <2>3 DEF Queued
  <2> QED
    BY Zenon, <2>1, <2>2, <2>4 DEF Queued
<1>6. PICK t \in Seq(Ops) :
         /\ todo' = [todo EXCEPT ![n] = t] /\ t # <<>> /\ Len(t) \in {1, 2}
         /\ t[1].op = "broadcast" /\ t[1].msg = m
         /\ Len(t) = 2 => t[2].op = "owner" /\ t[2].msg = m
  <2> DEFINE e == inbox[n][1]
  <2>1. todo' = [todo EXCEPT ![n] =
                   CASE e.kind = "room"  -> <<Broadcast(e.arg, e.msg)>>
                     [] e.kind = "event" -> <<Broadcast(jobsRoom, e.msg), ToOwner(e.arg, e.msg)>>]
    BY Zenon, <1>3 DEF dispatch
  <2>2. CASE e.kind = "room"
    <3>1. e.arg \in Topics
      BY SMT, <1>3, <2>2 DEF Events
    <3>2. /\ Broadcast(e.arg, m) \in Ops /\ Broadcast(e.arg, m).op = "broadcast"
          /\ Broadcast(e.arg, m).msg = m
      BY SMT, <3>1, OpTypes DEF Broadcast
    <3>3. todo' = [todo EXCEPT ![n] = <<Broadcast(e.arg, m)>>]
      BY SMT, <1>4, <2>1, <2>2
    <3> DEFINE s == <<Broadcast(e.arg, m)>>
    <3>4. /\ s \in Seq(Ops) /\ s # <<>> /\ Len(s) \in {1, 2}
          /\ s[1].op = "broadcast" /\ s[1].msg = m /\ (Len(s) = 2 => s[2].op = "owner" /\ s[2].msg = m)
      BY SMT, <3>2
    <3> HIDE DEF s
    <3> QED
      BY Zenon, <3>3, <3>4 DEF s
  <2>3. CASE e.kind = "event"
    <3>1. e.arg \in Users
      BY SMT, <1>3, <2>3 DEF Events
    <3>2. /\ Broadcast(jobsRoom, m) \in Ops /\ Broadcast(jobsRoom, m).op = "broadcast"
          /\ Broadcast(jobsRoom, m).msg = m
          /\ ToOwner(e.arg, m) \in Ops /\ ToOwner(e.arg, m).op = "owner" /\ ToOwner(e.arg, m).msg = m
      BY SMT, <3>1, OpTypes, JobsRoomAssumption DEF Broadcast, ToOwner, jobsRoom
    <3>3. todo' = [todo EXCEPT ![n] = <<Broadcast(jobsRoom, m), ToOwner(e.arg, m)>>]
      BY SMT, <1>4, <2>1, <2>3
    <3> DEFINE s == <<Broadcast(jobsRoom, m), ToOwner(e.arg, m)>>
    <3>4. /\ s \in Seq(Ops) /\ s # <<>> /\ Len(s) \in {1, 2}
          /\ s[1].op = "broadcast" /\ s[1].msg = m /\ (Len(s) = 2 => s[2].op = "owner" /\ s[2].msg = m)
      BY SMT, <3>2
    <3> HIDE DEF s
    <3> QED
      BY Zenon, <3>3, <3>4 DEF s
  <2>4. e.kind \in {"room", "event"}
    BY SMT, <1>3 DEF Events
  <2> QED
    BY Zenon, <2>2, <2>3, <2>4
<1>7. /\ todo' \in [Goroutines -> Seq(Ops)] /\ todo'[n] = t
      /\ \A h \in Goroutines : h # n => todo'[h] = todo[h]
  BY Zenon, <1>1, <1>3, <1>6
<1>8. Placed'
  <2>1. Ordered(t)
    <3>1. \A i \in 1 .. Len(t) : i = 1 \/ (i = 2 /\ i = Len(t))
      <4>1. \A l \in {1, 2} : \A i \in 1 .. l : i = 1 \/ (i = 2 /\ i = l)
        BY ONLY SMTT(60)
      <4> QED
        BY Zenon, <1>6, <4>1
    <3>2. t[1].op \notin {"fanout", "owner"}
      BY SMT, <1>6
    <3>3. Len(t) = 2 => t[2].op \notin {"register", "broadcast"}
      BY SMT, <1>6
    <3> QED
      BY Zenon, <3>1, <3>2, <3>3 DEF Ordered
  <2>2. \A h \in Goroutines : Ordered(todo'[h])
    BY Zenon, <1>7, <2>1 DEF Placed
  <2>3. \A h \in Goroutines : Doing(h, "register")' => Doing(h, "register")
    BY SMT, <1>6, <1>7 DEF Doing, Head1
  <2> QED
    BY Zenon, <1>2, <2>2, <2>3 DEF Placed, Goroutines, Ordered
<1>9. TypeOK'
  BY Zenon, <1>1, <1>2, <1>5, <1>7 DEF TypeOK
<1>10. TotalCounts' /\ AtMostOnce'
  BY Zenon, <1>1, <1>2, CountsKept DEF AtMostOnce
<1>11. /\ \A k \in Broadcasts, h \in Goroutines, x \in Messages :
             Casts(k, h, x)' => Casts(k, h, x) \/ (h = n /\ x = m)
       /\ \A h \in Goroutines, x \in Messages : Fans(h, x)' => Fans(h, x)
  BY SMT, <1>6, <1>7 DEF Casts, Fans, Firsts, Lasts
<1>12. /\ Queued(n, 1, m)
       /\ \A k \in Broadcasts : SoleWay(k, m) /\ SoleEntry(k, n, 1, m)
  <2>1. Queued(n, 1, m) /\ 1 \in Nat
    BY SMT, <1>3, <1>4 DEF Queued
  <2> QED
    BY Zenon, <2>1 DEF Sole, SoleWay
<1>13. /\ \A i \in Nat : ~Queued(n, i, m)'
       /\ \A o \in Nodes, i \in Nat : Queued(o, i, m)' => o # n /\ Queued(o, i, m)
  <2>1. (\A i \in Nat : i + 1 \in Nat) /\ "owner" \in Broadcasts
    BY SMT DEF Broadcasts
  <2> QED
    BY Zenon, <1>5, <1>12, <2>1 DEF SoleEntry
<1>14. ASSUME NEW k \in Broadcasts, NEW x \in Messages PROVE SoleWay(k, x)'
  <2>1. \A h \in Goroutines : NodeOf(h)' = NodeOf(h)
    BY Zenon, <1>1 DEF NodeOf
  <2>2. CASE x # m
    <3>1. /\ x \in unsent => Nowhere(k, x)
          /\ \A g \in Goroutines : Casts(k, g, x) => SoleCast(k, g, x)
          /\ \A g \in Goroutines : Fans(g, x) => SoleFan(k, g, x)
          /\ \A o \in Nodes, i \in Nat : Queued(o, i, x) => SoleEntry(k, o, i, x)
      BY Zenon DEF Sole, SoleWay
    <3>2. /\ \A h \in Goroutines : Casts(k, h, x)' => Casts(k, h, x)
          /\ \A h \in Goroutines : Fans(h, x)' => Fans(h, x)
      BY Zenon, <1>11, <2>2
    <3>3. \A o \in Nodes, i \in Nat : Queued(o, i, x)' =>
             \E j \in Nat : Queued(o, j, x) /\ j = IF o = n THEN i + 1 ELSE i
      BY SMT, <1>5
    <3>4. (x \in unsent => Nowhere(k, x))'
      BY Zenon, <1>1, <3>1, <3>2, <3>3 DEF Nowhere
    <3>5. ASSUME NEW g \in Goroutines, Casts(k, g, x)' PROVE SoleCast(k, g, x)'
      BY Zenon, <1>1, <2>1, <3>1, <3>2, <3>3, <3>5 DEF SoleCast
    <3>6. ASSUME NEW g \in Goroutines, Fans(g, x)' PROVE SoleFan(k, g, x)'
      BY Zenon, <1>1, <2>1, <3>1, <3>2, <3>3, <3>6 DEF SoleFan
    <3>7. ASSUME NEW o \in Nodes, NEW i \in Nat, Queued(o, i, x)' PROVE SoleEntry(k, o, i, x)'
      <4>1. PICK p \in Nat : Queued(o, p, x) /\ p = IF o = n THEN i + 1 ELSE i
        BY Zenon, <3>3, <3>7
      <4>2. SoleEntry(k, o, p, x)
        BY Zenon, <3>1, <4>1
      <4>3. ASSUME NEW j \in Nat, Queued(o, j, x)' PROVE j = i
        <5>1. PICK l \in Nat : Queued(o, l, x) /\ l = IF o = n THEN j + 1 ELSE j
          BY Zenon, <3>3, <4>3
        <5>2. l = p
          BY Zenon, <4>2, <5>1 DEF SoleEntry
        <5> QED
          BY SMT, <4>1, <5>1, <5>2
      <4> QED
        BY Zenon, <1>1, <4>2, <4>3 DEF SoleEntry
    <3> QED
      BY Zenon, <3>4, <3>5, <3>6, <3>7 DEF SoleWay
  <2>3. m \notin unsent' /\ \A h \in Goroutines : ~Fans(h, m)'
    <3>1. m \notin unsent /\ \A h \in Goroutines : ~Fans(h, m)
      <4>1. 1 \in Nat
        BY SMT
      <4> QED
        BY Zenon, <1>12, <4>1 DEF SoleWay, Nowhere, SoleFan
    <3> QED
      BY Zenon, <1>1, <1>11, <3>1
  <2>4. \A h \in Goroutines : Casts(k, h, m) => NodeOf(h) # n /\ SoleCast(k, h, m)
    <3>1. 1 \in Nat
      BY SMT
    <3> QED
      BY Zenon, <1>12, <3>1 DEF SoleWay, SoleCast
  <2>5. ASSUME NEW h \in Goroutines, Casts(k, h, m)' PROVE SoleCast(k, h, m)'
    <3>1. CASE h = n
      <4>1. \A o \in Goroutines : Casts(k, o, m)' /\ NodeOf(o)' = NodeOf(h)' => o = h
        BY Zenon, <1>1, <1>11, <2>1, <2>4, <3>1
      <4>2. \A o \in Nodes, i \in Nat : Queued(o, i, m)' => o # NodeOf(h)'
        BY Zenon, <1>1, <1>13, <2>1, <3>1
      <4>3. \A c \in Conns : node'[c] = NodeOf(h)' => got'[k][c][m] = 0
        BY Zenon, <1>1, <1>12, <2>1, <3>1 DEF SoleEntry
      <4> QED
        BY Zenon, <4>1, <4>2, <4>3 DEF SoleCast
    <3>2. CASE h # n
      <4>1. Casts(k, h, m) /\ NodeOf(h) # n /\ SoleCast(k, h, m)
        BY Zenon, <1>11, <2>4, <2>5, <3>2
      <4> QED
        BY Zenon, <1>1, <1>11, <1>13, <2>1, <4>1 DEF SoleCast
    <3> QED
      BY Zenon, <3>1, <3>2
  <2>6. ASSUME NEW o \in Nodes, NEW i \in Nat, Queued(o, i, m)' PROVE SoleEntry(k, o, i, m)'
    <3>1. Queued(o, i, m) /\ SoleEntry(k, o, i, m)
      BY Zenon, <1>12, <1>13, <2>6 DEF SoleWay
    <3> QED
      BY Zenon, <1>1, <1>13, <3>1 DEF SoleEntry
  <2>7. CASE x = m
    BY Zenon, <2>3, <2>5, <2>6, <2>7 DEF SoleWay
  <2> QED
    BY Zenon, <2>2, <2>7
<1> QED
  BY Zenon, <1>8, <1>9, <1>10, <1>14 DEF Sole

\* A replica's process ends with everything it holds.
LEMMA StepEnds ==
    ASSUME IInv, NEW n \in Nodes, Ends(n), faults' \in 0 .. MaxFaults
    PROVE  IInv'
<1> USE DEF IInv
<1>1. /\ status'     = [status EXCEPT ![n] = "exited"]
      /\ registered' = [c \in Conns |-> registered[c] /\ ~(node[c] = n)]
      /\ rooms'      = [c \in Conns |-> IF node[c] = n THEN {} ELSE rooms[c]]
      /\ total'      = [total EXCEPT ![n] = 0]
      /\ done'       = [c \in Conns |-> done[c] \/ node[c] = n]
      /\ socket'     = [c \in Conns |-> IF node[c] = n THEN "closed" ELSE socket[c]]
      /\ todo'       = [g \in Goroutines |-> IF NodeOf(g) = n THEN <<>> ELSE todo[g]]
      /\ inbox'      = [inbox EXCEPT ![n] = <<>>]
      /\ UNCHANGED <<node, key, got, unsent, late, frames>>
  BY Zenon DEF Ends
<1>2. /\ reader'     = [c \in Conns |-> IF node[c] = n THEN "exit" ELSE reader[c]]
      /\ writer'     = [c \in Conns |-> IF node[c] = n THEN "exit" ELSE writer[c]]
      /\ refresher'  = [c \in Conns |-> IF node[c] = n THEN "exit" ELSE refresher[c]]
  BY Zenon DEF Ends
<1>3. /\ todo' \in [Goroutines -> Seq(Ops)]
      /\ \A g \in Goroutines : todo'[g] \in {todo[g], <<>>}
      /\ \A c \in Conns : registered'[c] => registered[c]
      /\ \A c \in Conns : socket'[c] \in {socket[c], "closed"}
      /\ \A o \in Nodes : inbox'[o] \in {inbox[o], <<>>}
  BY SMT, <1>1, NoOp DEF TypeOK
<1>4. TypeOK'
  <2>1. /\ reader' \in [Conns -> Pump] /\ writer' \in [Conns -> Pump] /\ refresher' \in [Conns -> Pump]
    BY SMT, <1>2 DEF TypeOK, Pump
  <2>2. /\ registered' \in [Conns -> BOOLEAN] /\ done' \in [Conns -> BOOLEAN]
        /\ rooms' \in [Conns -> SUBSET AllRooms] /\ total' \in [Nodes -> Nat]
        /\ socket' \in [Conns -> {"none", "open", "closed"}]
        /\ status' \in [Nodes -> {"up", "drain", "exited"}]
        /\ inbox' \in [Nodes -> Seq(Events)]
    BY SMT, <1>1 DEF TypeOK
  <2> QED
    BY Zenon, <1>1, <1>3, <2>1, <2>2 DEF TypeOK
<1>5. Placed'
  <2>1. Ordered(<<>>)
    BY SMT DEF Ordered
  <2>2. \A g \in Goroutines : Ordered(todo'[g])
    BY Zenon, <1>3, <2>1 DEF Placed
  <2>3. \A g \in Goroutines : Doing(g, "register")' => Doing(g, "register")
    BY Zenon, <1>3 DEF Doing, Head1
  <2>4. \A c \in Conns : socket'[c] = "none" => socket[c] = "none"
    BY SMT, <1>3
  <2>5. \A c \in Conns : socket[c] # "none" => socket'[c] # "none"
    BY SMT, <1>3
  <2> QED
    BY Zenon, <1>3, <2>2, <2>3, <2>4, <2>5 DEF Placed, Goroutines, Ordered
<1>6. Sole' /\ AtMostOnce'
  <2>1. /\ \A k \in Broadcasts, g \in Goroutines, m \in Messages : Casts(k, g, m)' => Casts(k, g, m)
        /\ \A g \in Goroutines, m \in Messages : Fans(g, m)' => Fans(g, m)
    BY Zenon, <1>3 DEF Casts, Fans, Firsts, Lasts
  <2>2. \A o \in Nodes, i \in Nat, m \in Messages : Queued(o, i, m)' => Queued(o, i, m)
    BY SMT, <1>3 DEF Queued
  <2> QED
    BY Zenon, <1>1, <2>1, <2>2, SoleKept
<1>7. TotalCounts'
  <2>1. Local(n)' = {}
    BY Zenon, <1>1 DEF Local
  <2>2. \A o \in Nodes : o # n => Local(o)' = Local(o)
    BY SMT, <1>1 DEF Local, TypeOK
  <2>3. total'[n] = 0 /\ \A o \in Nodes : o # n => total'[o] = total[o]
    BY Zenon, <1>1 DEF TypeOK
  <2>4. Cardinality({}) = 0
    BY Zenon, FS_EmptySet
  <2> QED
    BY Zenon, <2>1, <2>2, <2>3, <2>4 DEF TotalCounts
<1> QED
  BY Zenon, <1>4, <1>5, <1>6, <1>7

LEMMA StepProcess ==
    ASSUME IInv, NEW n \in Nodes, Drained(n) \/ Killed(n)
    PROVE  IInv'
<1>1. faults' \in 0 .. MaxFaults
  BY SMT, Faults DEF Drained, Killed, IInv, TypeOK
<1> QED
  BY Zenon, <1>1, StepEnds DEF Drained, Killed
-----------------------------------------------------------------------------
(* The theorems.                                                            *)

LEMMA InitIInv == Init => IInv
<1> SUFFICES ASSUME Init PROVE IInv
  BY Zenon
<1>1. TypeOK
  <2>1. node \in [Conns -> Nodes] /\ frames \in 0 .. MaxFrames /\ faults \in 0 .. MaxFaults
    BY SMT, StartsAssumption DEF Init
  <2> QED
    BY SMT, <2>1, NoOp DEF Init, TypeOK, Pump
<1>2. Placed
  BY SMT DEF Init, Placed, Goroutines, Ordered, Doing
<1>3. TotalCounts
  <2>1. \A n \in Nodes : Local(n) = {} /\ total[n] = 0
    BY Zenon DEF Init, Local
  <2>2. Cardinality({}) = 0
    BY Zenon, FS_EmptySet
  <2> QED
    BY Zenon, <2>1, <2>2 DEF TotalCounts
<1>4. /\ \A g \in Goroutines, m \in Messages : ~Fans(g, m)
      /\ \A k \in Broadcasts, g \in Goroutines, m \in Messages : ~Casts(k, g, m)
      /\ \A n \in Nodes, i \in Nat, m \in Messages : ~Queued(n, i, m)
      /\ \A k \in Broadcasts, c \in Conns, m \in Messages : got[k][c][m] = 0
  BY SMT DEF Init, Casts, Fans, Firsts, Lasts, Queued
<1>5. Sole
  BY Zenon, <1>4 DEF Sole, SoleWay, Nowhere
<1>6. AtMostOnce
  BY SMT, <1>4 DEF AtMostOnce
<1> QED
  BY Zenon, <1>1, <1>2, <1>3, <1>5, <1>6 DEF IInv

LEMMA Preserved == IInv /\ [Next]_vars => IInv'
<1> SUFFICES ASSUME IInv, [Next]_vars PROVE IInv'
  BY Zenon
<1>1. CASE UNCHANGED vars
  <2>1. TypeOK'
    BY Zenon, <1>1 DEF IInv, TypeOK, vars
  <2>2. \A n \in Nodes : inbox'[n] \in {inbox[n], <<>>}
    BY Zenon, <1>1 DEF vars
  <2> QED
    BY Zenon, <1>1, <2>1, <2>2, Idle DEF vars
<1>2. CASE Work
  <2>1. ASSUME NEW g \in Goroutines,
               \/ \E k \in Broadcasts : BroadcastRoom(k, g)
               \/ Unregister(g) \/ closeWithReason(g) \/ DelKey(g)
        PROVE  IInv'
    BY Zenon, <2>1, StepBroadcastRoom, StepUnregister, StepCloseWithReason, StepDelKey
  <2>2. ASSUME NEW c \in Conns,
               DeliverUser(c) \/ sendOut(c) \/ Register(c) \/ StartPumps(c) \/ Shut(c) \/ SetKey(c)
        PROVE  IInv'
    BY Zenon, <2>2, StepDeliverUser, StepSendOut, StepRegister, StepStartPumps, StepShut, StepSetKey
  <2>3. ASSUME NEW c \in Conns,
               PublishFanout(c) \/ Refresh(c) \/ RefresherExits(c) \/ WriterExits(c) \/ ReadFails(c)
        PROVE  IInv'
    BY Zenon, <2>3, StepPublishFanout, StepRefresh, StepWriterExits, StepReadFails
  <2>4. ASSUME NEW n \in Nodes, dispatch(n) \/ Drained(n)
        PROVE  IInv'
    BY Zenon, <2>4, StepDispatch, StepProcess
  <2> QED
    BY Zenon, <1>2, <2>1, <2>2, <2>3, <2>4, StepExpire DEF Work
<1>3. ASSUME NEW c \in Conns, WriterExits(c) \/ ReadFails(c) \/ handleFrame(c) \/ serveWS(c)
      PROVE  IInv'
  BY Zenon, <1>3, StepWriterExits, StepReadFails, StepHandleFrame, StepServeWS
<1>4. ASSUME NEW n \in Nodes, Resubscribe(n) \/ Shutdown(n) \/ Killed(n)
      PROVE  IInv'
  BY Zenon, <1>4, StepResubscribe, StepShutdown, StepProcess
<1>5. ASSUME NEW u \in Users, Expire(u) \/ PublishJobEvent(u)
      PROVE  IInv'
  BY Zenon, <1>5, StepExpire, StepPublishJobEvent
<1> QED
  BY Zenon, <1>1, <1>2, <1>3, <1>4, <1>5 DEF Next

\* The invariant holds in every state of the realtime service.
LEMMA Invariance == Spec => []IInv
  BY InitIInv, Preserved, PTL DEF Spec

\* The realtime service is well typed: a goroutine only ever holds operations the
\* code has, and a subscription only events some replica or service published.
THEOREM TypeCorrect == Spec => []TypeOK
<1>1. IInv => TypeOK
  BY Zenon DEF IInv
<1> QED
  BY <1>1, Invariance, PTL

\* Hub.total counts the registered connections, however evictions, cleanups,
\* handshakes and the drain interleave, for every number of connections.
THEOREM CountsRight == Spec => []TotalCounts
<1>1. IInv => TotalCounts
  BY Zenon DEF IInv
<1> QED
  BY <1>1, Invariance, PTL

\* No connection is sent a room message twice, or a job event more than once in the
\* jobs room and once in its owner's personal room, for every number of replicas
\* and messages, though a publisher's replica delivers locally and publishes to
\* all, and whatever the subscriptions lose.
THEOREM DeliveredOnce == Spec => []AtMostOnce
<1>1. IInv => AtMostOnce
  BY Zenon DEF IInv
<1> QED
  BY <1>1, Invariance, PTL
=============================================================================
