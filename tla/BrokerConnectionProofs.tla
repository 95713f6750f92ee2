----------------------- MODULE BrokerConnectionProofs -----------------------
(***************************************************************************)
(* Every message is executed at most once and only with the grant it       *)
(* needs, success is reported only for what was executed, and the backend  *)
(* is closed under no handler: proofs for every number of messages,        *)
(* connections and faults, and for every limit.                            *)
(***************************************************************************)
EXTENDS BrokerConnection, TLAPS

Early    == {"idle", "queued", "batched"}
Seated   == {"auth", "install", "register", "write", "wait"}
In(x, s) == \E i \in DOMAIN s : s[i] = x

\* Who shares a call, and what waits to be flushed.
Carriage ==
    /\ \A c \in Msgs : /\ pc[c] \in Early => riders[c] = {}
                       /\ pc[c] \in Calling => c \in riders[c]
                       /\ pc[c] \in Seated => at[c] \in Conns
    /\ \A c, m \in Msgs : m \in riders[c] => pc[m] \notin Early
    /\ \A c, d, m \in Msgs : m \in riders[c] /\ m \in riders[d] => c = d
    /\ \A i \in DOMAIN batchCh : pc[batchCh[i]] = "queued"
    /\ \A i, j \in DOMAIN batchCh : batchCh[i] = batchCh[j] => i = j
    /\ \A i \in DOMAIN batch : pc[batch[i]] = "batched"

\* The request of call c is at connection k: on the wire, held back or handled.
Requested(k, c) == In(c, toServer[k]) \/ held[k] = c \/ c \in handling[k]

\* A response that reports success to call c is at connection k.
Yes(c)          == [id |-> c, ok |-> TRUE]
Confirmed(k, c) == Yes(c) \in sending[k] \/ In(Yes(c), resCh[k]) \/ In(Yes(c), toClient[k])

Sent(c)    == pc[c] \in {"wait", "done"}
Untried(c) == \A m \in riders[c] : applied[m] = 0
Tried(c)   == \A m \in riders[c] : applied[m] = 1

\* A request is there only before it is executed, a success only after.
Wired ==
    \A k \in Conns, c \in Msgs : /\ Requested(k, c) => Sent(c) /\ Untried(c)
                                 /\ Confirmed(k, c) => Sent(c) /\ Tried(c)

\* What was executed, and what is known of it.
Executed ==
    \A c \in Msgs : /\ pc[c] \in Calling \ {"wait"} => Untried(c)
                    /\ pc[c] \in Early => applied[c] = 0
                    /\ applied[c] \in {0, 1}
                    /\ res[c] = "ok" => applied[c] = 1

\* A request is in one place, of one connection.
InOne(k) ==
    \A c \in Msgs : /\ In(c, toServer[k]) => held[k] # c /\ c \notin handling[k]
                    /\ held[k] = c => c \notin handling[k]
                    /\ \A i, j \in DOMAIN toServer[k] : toServer[k][i] = c /\ toServer[k][j] = c => i = j

Sole == /\ \A k, l \in Conns, c \in Msgs : Requested(k, c) /\ Requested(l, c) => k = l
        /\ \A k \in Conns : InOne(k)

\* Who passed the gate, and what that allows.
Access ==
    /\ \A k \in Conns : principal[k] => mode.creds \in {"good", "reader"}
    /\ mode.auth /\ mode.creds # "good" => \A m \in Msgs : applied[m] = 0

\* Handlers belong to a connection that is served.
Served(k) == /\ handling[k] # {} \/ sending[k] # {} => serve[k] \in Serving
             /\ serve[k] = "slot" => held[k] # "none"
             /\ serve[k] # "drain" => failures[k] < maxAuthFailures

\* Once Run has returned, what is left of a connection cannot move.
Still == run \in {"returned", "stopped"} /\ ~faults.slow => \A k \in Tracked : Stuck(k)

Serves == (\A k \in Conns : Served(k)) /\ Still

IInv == TypeOK /\ Carriage /\ Wired /\ Executed /\ Sole /\ Access /\ Serves

\* Leaves are proved by Zenon unless they name another prover.
USE Zenon
-----------------------------------------------------------------------------
(* Sequences.                                                               *)

LEMMA InEmpty == \A x : ~In(x, <<>>)
BY SMT DEF In

LEMMA AppendFacts ==
    ASSUME NEW S, NEW s \in Seq(S), NEW x \in S
    PROVE  /\ DOMAIN s = 1 .. Len(s) /\ DOMAIN Append(s, x) = 1 .. Len(s) + 1 /\ Len(s) \in Nat
           /\ \A i \in 1 .. Len(s) : Append(s, x)[i] = s[i]
           /\ Append(s, x)[Len(s) + 1] = x
           /\ Append(s, x) \in Seq(S) /\ Len(Append(s, x)) = Len(s) + 1
BY SMT

LEMMA InAppend ==
    ASSUME NEW S, NEW s \in Seq(S), NEW x \in S, NEW y
    PROVE  In(y, Append(s, x)) <=> In(y, s) \/ y = x
<1>1. /\ DOMAIN s = 1 .. Len(s) /\ DOMAIN Append(s, x) = 1 .. Len(s) + 1 /\ Len(s) \in Nat
      /\ \A i \in 1 .. Len(s) : Append(s, x)[i] = s[i]
      /\ Append(s, x)[Len(s) + 1] = x
  BY SMT
<1> QED BY SMT, <1>1 DEF In

LEMMA InTail ==
    ASSUME NEW S, NEW s \in Seq(S), s # <<>>
    PROVE  /\ Head(s) \in S /\ Tail(s) \in Seq(S) /\ In(Head(s), s)
           /\ \A y : In(y, Tail(s)) => In(y, s)
           /\ \A y : (\A i, j \in DOMAIN s : s[i] = y /\ s[j] = y => i = j) =>
                 /\ y = Head(s) => ~In(y, Tail(s))
                 /\ \A i, j \in DOMAIN Tail(s) : Tail(s)[i] = y /\ Tail(s)[j] = y => i = j
<1>1. /\ DOMAIN s = 1 .. Len(s) /\ Len(s) \in Nat /\ Len(s) > 0 /\ Head(s) = s[1]
      /\ DOMAIN Tail(s) = 1 .. Len(s) - 1
      /\ \A i \in 1 .. Len(s) - 1 : Tail(s)[i] = s[i + 1]
  BY SMT
<1>2. Head(s) \in S /\ Tail(s) \in Seq(S) /\ In(Head(s), s)
  BY SMT, <1>1 DEF In
<1>3. ASSUME NEW y, In(y, Tail(s)) PROVE In(y, s)
  BY SMT, <1>1, <1>3 DEF In
<1>4. ASSUME NEW y, \A i, j \in DOMAIN s : s[i] = y /\ s[j] = y => i = j
      PROVE  /\ y = Head(s) => ~In(y, Tail(s))
             /\ \A i, j \in DOMAIN Tail(s) : Tail(s)[i] = y /\ Tail(s)[j] = y => i = j
  <2>1. ASSUME y = Head(s), NEW i \in 1 .. Len(s) - 1, Tail(s)[i] = y PROVE FALSE
    <3>1. s[i + 1] = y /\ s[1] = y /\ i + 1 \in DOMAIN s /\ 1 \in DOMAIN s /\ i + 1 # 1
      BY SMT, <1>1, <2>1
    <3> QED BY SMT, <1>4, <3>1
  <2>2. ASSUME NEW i \in 1 .. Len(s) - 1, NEW j \in 1 .. Len(s) - 1, Tail(s)[i] = y, Tail(s)[j] = y
        PROVE  i = j
    <3>1. s[i + 1] = y /\ s[j + 1] = y /\ i + 1 \in DOMAIN s /\ j + 1 \in DOMAIN s
      BY SMT, <1>1, <2>2
    <3>2. i + 1 = j + 1
      BY Zenon, <1>4, <3>1
    <3> QED BY SMT, <3>2
  <2> QED BY Zenon, <1>1, <2>1, <2>2 DEF In
<1> QED BY Zenon, <1>2, <1>3, <1>4

LEMMA OneMore ==
    ASSUME NEW S, NEW s \in Seq(S), NEW x \in S, ~In(x, s), NEW y,
           \A i, j \in DOMAIN s : s[i] = y /\ s[j] = y => i = j
    PROVE  \A i, j \in DOMAIN Append(s, x) : Append(s, x)[i] = y /\ Append(s, x)[j] = y => i = j
<1>1. /\ DOMAIN s = 1 .. Len(s) /\ DOMAIN Append(s, x) = 1 .. Len(s) + 1 /\ Len(s) \in Nat
      /\ \A i \in 1 .. Len(s) : Append(s, x)[i] = s[i]
      /\ Append(s, x)[Len(s) + 1] = x
  BY SMT
<1>2. \A i \in DOMAIN s : s[i] # x
  BY Zenon DEF In
<1> QED BY SMT, <1>1, <1>2
-----------------------------------------------------------------------------
(* The parts of the state.                                                  *)

ClientOK ==
    /\ pc \in [Msgs -> Calling \cup {"idle", "queued", "batched", "riding", "done"}]
    /\ res \in [Msgs -> {"none", "ok", "error", "closed", "timeout"}]
    /\ riders \in [Msgs -> SUBSET Msgs]
    /\ at \in [Msgs -> Conns \cup {None}]
    /\ conn \in Conns \cup {None} /\ pending \subseteq Msgs /\ closed \in BOOLEAN

ProducerOK ==
    /\ batchCh \in Seq(Msgs) /\ Len(batchCh) <= flushCount * 4
    /\ batch \in Seq(Msgs) /\ Len(batch) <= flushCount
    /\ intake \in {"open", "closed", "done"}

WireOK ==
    /\ toServer \in [Conns -> Seq(Msgs \cup {AUTH})]
    /\ toClient \in [Conns -> Seq(Frame)]
    /\ copen \in [Conns -> BOOLEAN] /\ sopen \in [Conns -> BOOLEAN]

ServerOK ==
    /\ serve \in [Conns -> {"none", "backlog", "ended"} \cup Serving]
    /\ principal \in [Conns -> BOOLEAN]
    /\ failures \in [Conns -> 0 .. maxAuthFailures]
    /\ handling \in [Conns -> SUBSET (Msgs \cup {AUTH})]
    /\ held \in [Conns -> Msgs \cup {AUTH, "none"}]
    /\ sending \in [Conns -> SUBSET Frame]
    /\ resCh \in [Conns -> Seq(Frame)]
    /\ \A k \in Conns : Len(resCh[k]) <= maxInFlightPerConn
    /\ writer \in [Conns -> BOOLEAN]

RestOK ==
    /\ mode \in Modes
    /\ reader \in [Conns -> {"none", "on", "swept", "off"}]
    /\ run \in {"up", "draining", "forced", "returned", "stopped"}
    /\ applied \in [Msgs -> Nat]
    /\ faults \in [count : 0 .. mode.faults, slow : BOOLEAN]

LEMMA Types == TypeOK <=> ClientOK /\ ProducerOK /\ WireOK /\ ServerOK /\ RestOK
BY Zenon DEF TypeOK, ClientOK, ProducerOK, WireOK, ServerOK, RestOK

\* What a call may do after it was begun.
Onward ==
    \A m \in Msgs : \/ pc'[m] = pc[m]
                    \/ pc[m] \notin Early /\ pc'[m] = "done"
                    \/ pc[m] \in Calling \ {"wait"} /\ pc'[m] \in Calling

Settles ==
    /\ Onward
    /\ \A m \in Msgs : pc'[m] \in Seated => at'[m] \in Conns
    /\ \A m \in Msgs : res'[m] = "ok" => res[m] = "ok" \/ applied[m] = 1

LEMMA CallsKept ==
    ASSUME ClientOK, ProducerOK, Carriage, Executed,
           UNCHANGED <<riders, batch, batchCh, applied>>, Settles
    PROVE  Carriage' /\ Executed' /\ \A m \in Msgs : Sent(m) => Sent(m)'
<1>1. /\ \A m \in Msgs : pc'[m] \in Early => pc'[m] = pc[m]
      /\ \A m \in Msgs : pc[m] \in Early => pc'[m] = pc[m]
      /\ \A m \in Msgs : pc'[m] \in Calling => pc[m] \in Calling
      /\ \A m \in Msgs : pc'[m] \in Calling \ {"wait"} => pc[m] \in Calling \ {"wait"}
  BY Zenon DEF Settles, Onward, Early, Calling
<1>2. /\ \A i \in DOMAIN batch : batch[i] \in Msgs
      /\ \A i \in DOMAIN batchCh : batchCh[i] \in Msgs
  BY SMT DEF ProducerOK
<1>3. \A c \in Msgs : /\ pc'[c] \in Early => riders'[c] = {}
                      /\ pc'[c] \in Calling => c \in riders'[c]
                      /\ pc'[c] \in Seated => at'[c] \in Conns
  BY Zenon, <1>1 DEF Carriage, Settles
<1>4. \A c, m \in Msgs : m \in riders'[c] => pc'[m] \notin Early
  BY Zenon, <1>1 DEF Carriage
<1>5. /\ \A i \in DOMAIN batchCh' : pc'[batchCh'[i]] = "queued"
      /\ \A i \in DOMAIN batch' : pc'[batch'[i]] = "batched"
  BY Zenon, <1>1, <1>2 DEF Carriage, Early
<1>6. Carriage'
  BY Zenon, <1>3, <1>4, <1>5 DEF Carriage
<1>7. Executed'
  BY Zenon, <1>1 DEF Executed, Untried, Settles
<1>8. \A m \in Msgs : Sent(m) => Sent(m)'
  BY Zenon DEF Settles, Onward, Sent, Calling
<1> QED BY Zenon, <1>6, <1>7, <1>8

LEMMA WiredKept ==
    ASSUME Wired, UNCHANGED <<riders, applied>>, \A m \in Msgs : Sent(m) => Sent(m)',
           \A k \in Conns, c \in Msgs : /\ Requested(k, c)' => Requested(k, c)
                                        /\ Confirmed(k, c)' => Confirmed(k, c)
    PROVE  Wired'
<1> SUFFICES ASSUME NEW k \in Conns, NEW c \in Msgs
             PROVE  /\ Requested(k, c)' => Sent(c)' /\ Untried(c)'
                    /\ Confirmed(k, c)' => Sent(c)' /\ Tried(c)'
  BY Zenon DEF Wired
<1>1. (Untried(c) => Untried(c)') /\ (Tried(c) => Tried(c)')
  BY Zenon DEF Untried, Tried
<1> QED BY Zenon, <1>1 DEF Wired

LEMMA FaultsKept ==
    ASSUME TypeOK, UNCHANGED mode, UNCHANGED faults \/ \E x : Fault(x)
    PROVE  /\ faults' \in [count : 0 .. mode'.faults, slow : BOOLEAN]
           /\ ~faults'.slow => ~faults.slow
<1>1. mode.faults \in Nat /\ faults \in [count : 0 .. mode.faults, slow : BOOLEAN]
  BY SMT, ModesAssumption DEF TypeOK
<1>2. CASE UNCHANGED faults
  BY Zenon, <1>1, <1>2
<1>3. CASE \E x : Fault(x)
  <2> PICK x : Fault(x)
    BY Zenon, <1>3
  <2> DEFINE b == faults.slow \/ x = "slow"
  <2>1. faults' = [count |-> faults.count + 1, slow |-> b] /\ faults.count < mode.faults
    BY Zenon DEF Fault
  <2>2. b \in BOOLEAN /\ (~b => ~faults.slow)
    BY Zenon
  <2> HIDE DEF b
  <2> QED BY SMT, <1>1, <2>1, <2>2
<1> QED BY Zenon, <1>2, <1>3

LEMMA ServesKept ==
    ASSUME Serves, UNCHANGED <<handling, held, sending, serve, failures, writer, resCh, run>>,
           ~faults'.slow => ~faults.slow
    PROVE  Serves'
BY Zenon DEF Serves, Served, Still, Tracked, Stuck, Jammed

LEMMA SoleKept ==
    ASSUME Sole, UNCHANGED <<toServer, held, handling>>
    PROVE  Sole'
BY Zenon DEF Sole, InOne, Requested

LEMMA AccessKept ==
    ASSUME Access, UNCHANGED <<mode, principal, applied>>
    PROVE  Access'
BY Zenon DEF Access

LEMMA MoveSettles ==
    ASSUME ClientOK, Carriage, NEW c \in Msgs, NEW p \in Calling, NEW k \in Conns \cup {None},
           Move(c, p, k), pc[c] \in Calling \ {"wait"}, p \in Seated => k \in Conns
    PROVE  /\ Settles
           /\ pc' \in [Msgs -> Calling \cup {"idle", "queued", "batched", "riding", "done"}]
           /\ res' \in [Msgs -> {"none", "ok", "error", "closed", "timeout"}]
           /\ at' \in [Msgs -> Conns \cup {None}]
<1>1. /\ pc' = [pc EXCEPT ![c] = p] /\ at' = [at EXCEPT ![c] = k] /\ res' = res
  BY Zenon DEF Move, Goto
<1>2. /\ pc'[c] = p /\ at'[c] = k /\ res' \in [Msgs -> {"none", "ok", "error", "closed", "timeout"}]
      /\ \A m \in Msgs \ {c} : pc'[m] = pc[m] /\ at'[m] = at[m]
  BY Zenon, <1>1 DEF ClientOK
<1>3. /\ pc' \in [Msgs -> Calling \cup {"idle", "queued", "batched", "riding", "done"}]
      /\ at' \in [Msgs -> Conns \cup {None}]
  BY SMT, <1>1 DEF ClientOK
<1>4. Onward
  BY Zenon, <1>2 DEF Onward
<1>5. ASSUME NEW m \in Msgs, pc'[m] \in Seated PROVE at'[m] \in Conns
  BY Zenon, <1>2, <1>5 DEF Carriage
<1>6. Settles
  BY Zenon, <1>1, <1>4, <1>5 DEF Settles
<1> QED BY Zenon, <1>2, <1>3, <1>6

LEMMA ReturnSettles ==
    ASSUME ClientOK, Carriage, NEW C \in SUBSET Msgs, NEW r \in {"ok", "error", "closed", "timeout"},
           r = "ok" => \A c \in C : Tried(c), Return(C, r)
    PROVE  /\ Settles
           /\ pc' \in [Msgs -> Calling \cup {"idle", "queued", "batched", "riding", "done"}]
           /\ res' \in [Msgs -> {"none", "ok", "error", "closed", "timeout"}]
           /\ at' \in [Msgs -> Conns \cup {None}]
<1> DEFINE R == Carried(C)
<1>1. /\ pc' = [m \in Msgs |-> IF m \in R THEN "done" ELSE pc[m]]
      /\ at' = [m \in Msgs |-> IF m \in C THEN None ELSE at[m]]
      /\ res' = [m \in Msgs |-> IF m \in R /\ res[m] = "none" THEN r ELSE res[m]]
  BY Zenon DEF Return, Settle
<1>2. /\ \A m \in R : \E c \in C : m \in riders[c]
      /\ \A c \in C : riders[c] \subseteq R
  BY Zenon DEF Carried
<1> HIDE DEF R
<1>3. /\ pc' \in [Msgs -> Calling \cup {"idle", "queued", "batched", "riding", "done"}]
      /\ res' \in [Msgs -> {"none", "ok", "error", "closed", "timeout"}]
      /\ at' \in [Msgs -> Conns \cup {None}]
  BY SMT, <1>1 DEF ClientOK
<1>4. Onward
  BY Zenon, <1>1, <1>2 DEF Onward, Carriage
<1>5. ASSUME NEW m \in Msgs, pc'[m] \in Seated PROVE at'[m] \in Conns
  <2>1. m \notin R /\ pc[m] \in Seated
    BY Zenon, <1>1, <1>5 DEF Seated
  <2>2. m \notin C
    BY Zenon, <1>2, <2>1 DEF Carriage, Seated, Calling
  <2> QED BY Zenon, <1>1, <2>1, <2>2 DEF Carriage
<1>6. ASSUME NEW m \in Msgs, res'[m] = "ok", res[m] # "ok" PROVE applied[m] = 1
  <2>1. m \in R /\ r = "ok"
    BY Zenon, <1>1, <1>6
  <2> QED BY Zenon, <1>2, <2>1 DEF Tried
<1> QED BY Zenon, <1>3, <1>4, <1>5, <1>6 DEF Settles

\* The client takes a frame, or loses what was on its way to it.
Receives ==
    /\ toClient' \in [Conns -> Seq(Frame)]
    /\ \A k \in Conns : \/ toClient'[k] = toClient[k]
                        \/ toClient'[k] = <<>>
                        \/ toClient[k] # <<>> /\ toClient'[k] = Tail(toClient[k])

LEMMA ClientStep ==
    ASSUME IInv, Settles, Receives,
           UNCHANGED <<mode, producer, riders, toServer, sopen, server, run, applied>>,
           UNCHANGED faults \/ \E x : Fault(x),
           ClientOK', copen' \in [Conns -> BOOLEAN], reader' \in [Conns -> {"none", "on", "swept", "off"}]
    PROVE  IInv'
<1>1. ClientOK /\ ProducerOK /\ WireOK /\ ServerOK /\ RestOK
  BY Zenon, Types DEF IInv
<1>2. Carriage /\ Wired /\ Executed /\ Sole /\ Access /\ Serves
  BY Zenon DEF IInv
<1>3. /\ UNCHANGED <<mode, riders, batch, batchCh, intake, toServer, sopen, run, applied>>
      /\ UNCHANGED <<serve, principal, failures, handling, held, sending, resCh, writer>>
  BY Zenon DEF producer, server
<1>4. Carriage' /\ Executed' /\ \A m \in Msgs : Sent(m) => Sent(m)'
  BY Zenon, CallsKept, <1>1, <1>2, <1>3
<1>5. /\ faults' \in [count : 0 .. mode'.faults, slow : BOOLEAN]
      /\ ~faults'.slow => ~faults.slow
  BY Zenon, FaultsKept, <1>3 DEF IInv
<1>6. TypeOK'
  <2>1. ProducerOK' /\ ServerOK'
    BY Zenon, <1>1, <1>3 DEF ProducerOK, ServerOK
  <2>2. WireOK' /\ RestOK'
    BY Zenon, <1>1, <1>3, <1>5 DEF WireOK, RestOK, Receives
  <2> QED BY Zenon, Types, <2>1, <2>2 DEF TypeOK, ClientOK, ProducerOK, ServerOK, WireOK, RestOK
<1>7. ASSUME NEW k \in Conns, NEW c \in Msgs
      PROVE  (Requested(k, c)' => Requested(k, c)) /\ (Confirmed(k, c)' => Confirmed(k, c))
  <2>1. toClient[k] \in Seq(Frame)
    BY Zenon, <1>1 DEF WireOK
  <2>2. In(Yes(c), toClient'[k]) => In(Yes(c), toClient[k])
    <3>1. CASE toClient'[k] = toClient[k] \/ toClient'[k] = <<>>
      BY Zenon, <3>1, InEmpty DEF In
    <3>2. CASE toClient[k] # <<>> /\ toClient'[k] = Tail(toClient[k])
      <4>1. \A y : In(y, Tail(toClient[k])) => In(y, toClient[k])
        BY SMT, <2>1, <3>2, InTail
      <4> QED BY Zenon, <3>2, <4>1
    <3> QED BY Zenon, <3>1, <3>2 DEF Receives
  <2> QED BY Zenon, <1>3, <2>2 DEF Requested, Confirmed, Yes
<1>8. Wired'
  BY Zenon, WiredKept, <1>2, <1>3, <1>4, <1>7
<1>9. Sole' /\ Access' /\ Serves'
  BY Zenon, SoleKept, AccessKept, ServesKept, <1>2, <1>3, <1>5
<1> QED BY Zenon, <1>4, <1>6, <1>8, <1>9 DEF IInv

LEMMA KeepReceives ==
    ASSUME WireOK, UNCHANGED <<toClient, copen>>
    PROVE  Receives /\ copen' \in [Conns -> BOOLEAN]
BY Zenon DEF WireOK, Receives

LEMMA CloseReceives ==
    ASSUME WireOK, NEW K, CloseClient(K)
    PROVE  Receives /\ copen' \in [Conns -> BOOLEAN]
<1>1. /\ copen' = [k \in Conns |-> copen[k] /\ k \notin K]
      /\ toClient' = [k \in Conns |-> IF k \in K THEN <<>> ELSE toClient[k]]
  BY Zenon DEF CloseClient
<1>2. copen' \in [Conns -> BOOLEAN]
  BY Zenon, <1>1
<1>3. toClient' \in [Conns -> Seq(Frame)]
  BY SMT, <1>1 DEF WireOK
<1>4. \A k \in Conns : toClient'[k] = toClient[k] \/ toClient'[k] = <<>>
  BY Zenon, <1>1
<1> QED BY Zenon, <1>2, <1>3, <1>4 DEF Receives

LEMMA TakeReceives ==
    ASSUME WireOK, NEW k \in Conns, toClient[k] # <<>>,
           toClient' = [toClient EXCEPT ![k] = Tail(@)], UNCHANGED copen
    PROVE  Receives /\ copen' \in [Conns -> BOOLEAN]
<1>1. toClient[k] \in Seq(Frame) /\ toClient \in [Conns -> Seq(Frame)]
  BY Zenon DEF WireOK
<1>2. Tail(toClient[k]) \in Seq(Frame)
  BY Zenon, <1>1, InTail
<1>3. /\ toClient' \in [Conns -> Seq(Frame)] /\ toClient'[k] = Tail(toClient[k])
      /\ \A l \in Conns \ {k} : toClient'[l] = toClient[l]
  BY Zenon, <1>1, <1>2
<1> QED BY Zenon, <1>3 DEF Receives, WireOK

LEMMA Parts == IInv => /\ ClientOK /\ ProducerOK /\ WireOK /\ ServerOK /\ RestOK
                       /\ Carriage /\ Wired /\ Executed /\ Sole /\ Access /\ Serves
BY Zenon, Types DEF IInv

LEMMA StepAuthHandshake ==
    ASSUME IInv, NEW c \in Msgs, authHandshake(c)
    PROVE  IInv'
<1> USE Parts
<1> DEFINE k == at[c]
<1>1. /\ pc[c] = "auth"
      /\ UNCHANGED <<mode, producer, riders, toServer, sopen, server, run, applied>>
      /\ UNCHANGED <<conn, pending, closed, reader, faults>>
  BY Zenon DEF authHandshake
<1>2. /\ pc[c] \in Calling \ {"wait"} /\ {"install", "ensure"} \subseteq Calling /\ {c} \in SUBSET Msgs
      /\ pc[c] \in Seated /\ "ensure" \notin Seated /\ None \in Conns \cup {None}
  BY Zenon, <1>1 DEF Calling, Seated
<1>3. k \in Conns
  BY Zenon, <1>2 DEF Carriage
<1>4. \/ /\ toClient[k] # <<>> /\ toClient' = [toClient EXCEPT ![k] = Tail(@)]
         /\ Move(c, "install", k) /\ UNCHANGED copen
      \/ CloseClient({k}) /\ Return({c}, "error")
      \/ CloseClient({k}) /\ Move(c, "ensure", None)
  BY Zenon DEF authHandshake
<1> HIDE DEF k
<1>5. Receives /\ copen' \in [Conns -> BOOLEAN]
  BY Zenon, <1>3, <1>4, TakeReceives, CloseReceives
<1>6. /\ Settles
      /\ pc' \in [Msgs -> Calling \cup {"idle", "queued", "batched", "riding", "done"}]
      /\ res' \in [Msgs -> {"none", "ok", "error", "closed", "timeout"}]
      /\ at' \in [Msgs -> Conns \cup {None}]
  <2>1. CASE Move(c, "install", k)
    BY Zenon, <1>2, <1>3, <2>1, MoveSettles
  <2>2. CASE Move(c, "ensure", None)
    BY Zenon, <1>2, <2>2, MoveSettles
  <2>3. CASE Return({c}, "error")
    BY Zenon, <1>2, <2>3, ReturnSettles
  <2> QED BY Zenon, <1>4, <2>1, <2>2, <2>3
<1>7. ClientOK' /\ reader' \in [Conns -> {"none", "on", "swept", "off"}]
  BY Zenon, <1>1, <1>6 DEF ClientOK, RestOK
<1> QED BY Zenon, <1>1, <1>5, <1>6, <1>7, ClientStep

LEMMA StepInstall ==
    ASSUME IInv, NEW c \in Msgs, install(c)
    PROVE  IInv'
<1> USE Parts
<1> DEFINE k == at[c]
<1>1. /\ pc[c] = "install"
      /\ UNCHANGED <<mode, producer, riders, toServer, sopen, server, run, applied>>
      /\ UNCHANGED <<pending, closed, faults>>
  BY Zenon DEF install
<1>2. /\ pc[c] \in Calling \ {"wait"} /\ {"register", "ensure"} \subseteq Calling
      /\ pc[c] \in Seated /\ "ensure" \notin Seated /\ None \in Conns \cup {None}
  BY Zenon, <1>1 DEF Calling, Seated
<1>3. k \in Conns
  BY Zenon, <1>2 DEF Carriage
<1>4. \/ CloseClient({k}) /\ Move(c, "ensure", None) /\ UNCHANGED <<conn, reader>>
      \/ /\ conn' = k /\ reader' = [reader EXCEPT ![k] = "on"] /\ Move(c, "register", k)
         /\ UNCHANGED <<copen, toClient>>
  BY Zenon DEF install
<1> HIDE DEF k
<1>5. Receives /\ copen' \in [Conns -> BOOLEAN]
  BY Zenon, <1>4, KeepReceives, CloseReceives
<1>6. /\ Settles
      /\ pc' \in [Msgs -> Calling \cup {"idle", "queued", "batched", "riding", "done"}]
      /\ res' \in [Msgs -> {"none", "ok", "error", "closed", "timeout"}]
      /\ at' \in [Msgs -> Conns \cup {None}]
  BY Zenon, <1>2, <1>3, <1>4, MoveSettles
<1>7. ClientOK'
  BY Zenon, <1>1, <1>3, <1>4, <1>6 DEF ClientOK
<1>8. reader' \in [Conns -> {"none", "on", "swept", "off"}]
  BY SMT, <1>4 DEF RestOK
<1> QED BY Zenon, <1>1, <1>5, <1>6, <1>7, <1>8, ClientStep

LEMMA StepRegister ==
    ASSUME IInv, NEW c \in Msgs, register(c)
    PROVE  IInv'
<1> USE Parts
<1>1. /\ pc[c] = "register"
      /\ UNCHANGED <<mode, producer, riders, toServer, sopen, server, run, applied>>
      /\ UNCHANGED <<conn, closed, toClient, copen, reader, faults>>
  BY Zenon DEF register, wire
<1>2. /\ pc[c] \in Calling \ {"wait"} /\ "write" \in Calling /\ {c} \in SUBSET Msgs
      /\ pc[c] \in Seated
  BY Zenon, <1>1 DEF Calling, Seated
<1>3. at[c] \in Conns
  BY Zenon, <1>2 DEF Carriage
<1>4. \/ Return({c}, "closed") /\ pending' = pending
      \/ Move(c, "write", at[c]) /\ pending' = pending \cup {c}
  BY Zenon DEF register
<1>5. Receives /\ copen' \in [Conns -> BOOLEAN]
  BY Zenon, <1>1, KeepReceives
<1>6. /\ Settles
      /\ pc' \in [Msgs -> Calling \cup {"idle", "queued", "batched", "riding", "done"}]
      /\ res' \in [Msgs -> {"none", "ok", "error", "closed", "timeout"}]
      /\ at' \in [Msgs -> Conns \cup {None}]
  <2>1. CASE Move(c, "write", at[c])
    BY Zenon, <1>2, <1>3, <2>1, MoveSettles
  <2>2. CASE Return({c}, "closed")
    BY Zenon, <1>2, <2>2, ReturnSettles
  <2> QED BY Zenon, <1>4, <2>1, <2>2
<1>7. pending' \subseteq Msgs
  BY Zenon, <1>4 DEF ClientOK
<1>8. ClientOK' /\ reader' \in [Conns -> {"none", "on", "swept", "off"}]
  BY Zenon, <1>1, <1>6, <1>7 DEF ClientOK, RestOK
<1> QED BY Zenon, <1>1, <1>5, <1>6, <1>8, ClientStep

\* A step in which calls return: what is left to show of it.
LEMMA ReturnStep ==
    ASSUME IInv, NEW C \in SUBSET Msgs, NEW r \in {"ok", "error", "closed", "timeout"},
           r = "ok" => \A c \in C : Tried(c), Return(C, r),
           UNCHANGED <<mode, producer, riders, toServer, sopen, server, run, applied>>,
           UNCHANGED faults \/ \E x : Fault(x),
           conn' \in {conn, None}, pending' \subseteq pending, closed' \in BOOLEAN,
           Receives, copen' \in [Conns -> BOOLEAN], reader' \in [Conns -> {"none", "on", "swept", "off"}]
    PROVE  IInv'
<1> USE Parts
<1>1. /\ Settles
      /\ pc' \in [Msgs -> Calling \cup {"idle", "queued", "batched", "riding", "done"}]
      /\ res' \in [Msgs -> {"none", "ok", "error", "closed", "timeout"}]
      /\ at' \in [Msgs -> Conns \cup {None}]
  BY Zenon, ReturnSettles
<1>2. conn' \in Conns \cup {None} /\ pending' \subseteq Msgs
  BY Zenon DEF ClientOK
<1>3. ClientOK'
  BY Zenon, <1>1, <1>2 DEF ClientOK
<1> QED BY Zenon, <1>1, <1>3, ClientStep

LEMMA StepCtxDone ==
    ASSUME IInv, NEW c \in Msgs, CtxDone(c)
    PROVE  IInv'
<1> USE Parts
<1>1. /\ UNCHANGED <<mode, producer, riders, toServer, sopen, server, run, applied>>
      /\ UNCHANGED <<conn, closed, toClient, copen, reader>>
      /\ UNCHANGED faults \/ Fault("ctx")
      /\ pending' = pending \ {c} /\ Return({c}, "timeout")
  BY Zenon DEF CtxDone, wire, NoFault
<1>2. {c} \in SUBSET Msgs /\ pending' \subseteq pending
  BY Zenon, <1>1
<1>3. Receives /\ copen' \in [Conns -> BOOLEAN]
  BY Zenon, <1>1, KeepReceives
<1>4. closed' \in BOOLEAN /\ reader' \in [Conns -> {"none", "on", "swept", "off"}]
  BY Zenon, <1>1 DEF ClientOK, RestOK
<1> QED BY Zenon, <1>1, <1>2, <1>3, <1>4, ReturnStep

LEMMA StepCallerGone ==
    ASSUME IInv, NEW m \in Msgs, CallerGone(m)
    PROVE  IInv'
<1> USE Parts
<1>1. /\ UNCHANGED <<mode, producer, riders, toServer, sopen, server, run, applied>>
      /\ UNCHANGED <<pc, at, conn, pending, closed, toClient, copen, reader>>
      /\ Fault("ctx") /\ Settle({m}, "timeout")
  BY Zenon DEF CallerGone, wire
<1>2. /\ res' \in [Msgs -> {"none", "ok", "error", "closed", "timeout"}]
      /\ \A x \in Msgs : res'[x] = "ok" => res[x] = "ok"
  BY SMT, <1>1 DEF Settle, ClientOK
<1>3. Receives /\ copen' \in [Conns -> BOOLEAN]
  BY Zenon, <1>1, KeepReceives
<1>4. ClientOK' /\ reader' \in [Conns -> {"none", "on", "swept", "off"}]
  BY Zenon, <1>1, <1>2 DEF ClientOK, RestOK
<1>5. Settles
  BY Zenon, <1>1, <1>2 DEF Settles, Onward, Carriage
<1> QED BY Zenon, <1>1, <1>3, <1>4, <1>5, ClientStep

LEMMA StepReadLoop ==
    ASSUME IInv, NEW k \in Conns, readLoop(k)
    PROVE  IInv'
<1> USE Parts
<1> DEFINE f == Head(toClient[k])
           C == pending \cap {f.id}
           r == IF f.ok THEN "ok" ELSE "error"
<1>1. /\ UNCHANGED <<mode, producer, riders, toServer, sopen, server, run, applied>>
      /\ UNCHANGED <<conn, closed, copen, reader, faults>>
      /\ toClient[k] # <<>> /\ toClient' = [toClient EXCEPT ![k] = Tail(@)]
      /\ pending' = pending \ C /\ Return(C, r)
  BY Zenon DEF readLoop
<1>2. /\ C \in SUBSET Msgs /\ pending' \subseteq pending
      /\ r \in {"ok", "error", "closed", "timeout"} /\ (r = "ok" => f.ok)
  BY Zenon, <1>1 DEF ClientOK
<1>3. Receives /\ copen' \in [Conns -> BOOLEAN]
  BY Zenon, <1>1, TakeReceives
<1>4. closed' \in BOOLEAN /\ reader' \in [Conns -> {"none", "on", "swept", "off"}]
  BY Zenon, <1>1 DEF ClientOK, RestOK
<1>5. ASSUME r = "ok", NEW c \in C PROVE Tried(c)
  <2>1. toClient[k] \in Seq(Frame) /\ c \in Msgs /\ c = f.id /\ f.ok
    BY Zenon, <1>2, <1>5 DEF WireOK
  <2>2. f \in Frame /\ In(f, toClient[k])
    BY Zenon, <1>1, <2>1, InTail
  <2> HIDE DEF f, C, r
  <2>3. f = Yes(c)
    BY SMT, <2>1, <2>2 DEF Frame, Yes
  <2> QED BY Zenon, <2>1, <2>2, <2>3 DEF Wired, Confirmed
<1> HIDE DEF f, C, r
<1> QED BY Zenon, <1>1, <1>2, <1>3, <1>4, <1>5, ReturnStep

LEMMA StepReadLoopError ==
    ASSUME IInv, NEW k \in Conns, readLoopError(k)
    PROVE  IInv'
<1> USE Parts
<1>1. /\ UNCHANGED <<mode, producer, riders, toServer, sopen, server, run, applied>>
      /\ UNCHANGED <<closed, copen, toClient, faults>>
      /\ reader' = [reader EXCEPT ![k] = "swept"]
      /\ conn' \in {conn, None} /\ pending' = pending \ pending /\ Return(pending, "error")
  BY Zenon DEF readLoopError, FailPending, wire
<1>2. pending \in SUBSET Msgs /\ pending' \subseteq pending
  BY Zenon, <1>1 DEF ClientOK
<1>3. Receives /\ copen' \in [Conns -> BOOLEAN]
  BY Zenon, <1>1, KeepReceives
<1>4. closed' \in BOOLEAN
  BY Zenon, <1>1 DEF ClientOK
<1>5. reader' \in [Conns -> {"none", "on", "swept", "off"}]
  BY SMT, <1>1 DEF RestOK
<1> QED BY Zenon, <1>1, <1>2, <1>3, <1>4, <1>5, ReturnStep

LEMMA StepReadLoopEnd ==
    ASSUME IInv, NEW k \in Conns, readLoopEnd(k)
    PROVE  IInv'
<1> USE Parts
<1>1. /\ UNCHANGED <<mode, producer, riders, toServer, sopen, server, run, applied>>
      /\ UNCHANGED <<pc, res, at, conn, pending, closed, faults>>
      /\ reader' = [reader EXCEPT ![k] = "off"] /\ CloseClient({k})
  BY Zenon DEF readLoopEnd, client
<1>2. Receives /\ copen' \in [Conns -> BOOLEAN]
  BY Zenon, <1>1, CloseReceives
<1>3. reader' \in [Conns -> {"none", "on", "swept", "off"}]
  BY SMT, <1>1 DEF RestOK
<1>4. ClientOK' /\ Settles
  BY Zenon, <1>1 DEF ClientOK, Settles, Onward, Carriage
<1> QED BY Zenon, <1>1, <1>2, <1>3, <1>4, ClientStep

LEMMA StepClose ==
    ASSUME IInv, Close
    PROVE  IInv'
<1> USE Parts
<1>1. /\ UNCHANGED <<mode, producer, riders, toServer, sopen, server, run, applied>>
      /\ UNCHANGED reader /\ closed' = TRUE /\ conn' = None /\ pending' = {}
      /\ UNCHANGED faults \/ Fault("close")
      /\ CloseClient({conn}) /\ Return(pending, "closed")
  BY Zenon DEF Close, NoFault
<1>2. pending \in SUBSET Msgs /\ pending' \subseteq pending /\ closed' \in BOOLEAN /\ conn' \in {conn, None}
  BY Zenon, <1>1 DEF ClientOK
<1>3. Receives /\ copen' \in [Conns -> BOOLEAN]
  BY Zenon, <1>1, CloseReceives
<1>4. reader' \in [Conns -> {"none", "on", "swept", "off"}]
  BY Zenon, <1>1 DEF RestOK
<1> QED BY Zenon, <1>1, <1>2, <1>3, <1>4, ReturnStep

-----------------------------------------------------------------------------
(* One connection of the server.                                            *)

\* What a step of connection k leaves alone.
Elsewhere(k) ==
    \A l \in Conns \ {k} :
        /\ toServer'[l] = toServer[l] /\ held'[l] = held[l] /\ handling'[l] = handling[l]
        /\ toClient'[l] = toClient[l] /\ sending'[l] = sending[l] /\ resCh'[l] = resCh[l]
        /\ serve'[l] = serve[l] /\ failures'[l] = failures[l] /\ writer'[l] = writer[l]
        /\ principal'[l] = principal[l]

LEMMA ElsewhereWire ==
    ASSUME NEW k \in Conns, Elsewhere(k), NEW l \in Conns \ {k}, NEW c
    PROVE  /\ Requested(l, c)' <=> Requested(l, c)
           /\ Confirmed(l, c)' <=> Confirmed(l, c)
           /\ InOne(l) => InOne(l)'
           /\ Served(l) => Served(l)'
<1>1. /\ toServer'[l] = toServer[l] /\ held'[l] = held[l] /\ handling'[l] = handling[l]
      /\ toClient'[l] = toClient[l] /\ sending'[l] = sending[l] /\ resCh'[l] = resCh[l]
      /\ serve'[l] = serve[l] /\ failures'[l] = failures[l]
  BY Zenon DEF Elsewhere
<1>2. (Requested(l, c)' <=> Requested(l, c)) /\ (Confirmed(l, c)' <=> Confirmed(l, c))
  BY Zenon, <1>1 DEF Requested, Confirmed
<1>3. (InOne(l) => InOne(l)') /\ (Served(l) => Served(l)')
  BY Zenon, <1>1 DEF InOne, Served
<1> QED BY Zenon, <1>2, <1>3

LEMMA SoleFrom ==
    ASSUME Sole, NEW k \in Conns, Elsewhere(k), InOne(k)',
           \A c \in Msgs : Requested(k, c)' => Requested(k, c) \/ \A l \in Conns : ~Requested(l, c)
    PROVE  Sole'
<1>1. \A l \in Conns, c \in Msgs : l # k => (Requested(l, c)' <=> Requested(l, c))
  BY Zenon, ElsewhereWire
<1>2. \A l \in Conns : InOne(l)'
  BY Zenon, ElsewhereWire DEF Sole
<1>3. ASSUME NEW i \in Conns, NEW j \in Conns, NEW c \in Msgs, Requested(i, c)', Requested(j, c)'
      PROVE  i = j
  BY Zenon, <1>1, <1>3 DEF Sole
<1> QED BY Zenon, <1>2, <1>3 DEF Sole

LEMMA ServesFrom ==
    ASSUME Serves, NEW k \in Conns, Elsewhere(k), Served(k)', UNCHANGED run,
           ~faults'.slow => ~faults.slow,
           run = "up" \/ serve'[k] \notin Serving \/ (serve[k] \in Serving /\ ~Stuck(k))
    PROVE  Serves'
<1>1. \A l \in Conns : Served(l)'
  BY Zenon, ElsewhereWire DEF Serves
<1>2. ASSUME run \in {"returned", "stopped"}, ~faults'.slow, NEW l \in Tracked' PROVE Stuck(l)'
  <2>1. l \in Conns /\ serve'[l] \in Serving
    BY Zenon, <1>2 DEF Tracked
  <2>2. CASE l = k
    <3>1. serve[k] \in Serving /\ ~Stuck(k)
      BY Zenon, <1>2, <2>1, <2>2
    <3> QED BY Zenon, <1>2, <3>1 DEF Serves, Still, Tracked
  <2>3. CASE l # k
    <3>1. /\ serve'[l] = serve[l] /\ handling'[l] = handling[l] /\ writer'[l] = writer[l]
          /\ resCh'[l] = resCh[l] /\ sending'[l] = sending[l]
      BY Zenon, <2>1, <2>3 DEF Elsewhere
    <3>2. Stuck(l)
      BY Zenon, <1>2, <2>1, <3>1 DEF Serves, Still, Tracked
    <3> QED BY Zenon, <3>1, <3>2 DEF Stuck, Jammed
  <2> QED BY Zenon, <2>2, <2>3
<1> QED BY Zenon, <1>1, <1>2 DEF Serves, Still

LEMMA Types2 ==
    ASSUME ClientOK', ProducerOK', WireOK', ServerOK', RestOK'
    PROVE  TypeOK'
BY Zenon DEF TypeOK, ClientOK, ProducerOK, ServerOK, WireOK, RestOK

LEMMA ServerStep ==
    ASSUME IInv, UNCHANGED <<mode, producer, client, reader, applied>>, WireOK', ServerOK',
           run' \in {"up", "draining", "forced", "returned", "stopped"},
           UNCHANGED faults \/ \E x : Fault(x),
           \A k \in Conns, c \in Msgs : /\ Requested(k, c)' => Requested(k, c)
                                        /\ Confirmed(k, c)' => Confirmed(k, c),
           \A k \in Conns : principal'[k] => mode.creds \in {"good", "reader"},
           Sole', Serves'
    PROVE  IInv'
<1> USE Parts
<1>1. /\ UNCHANGED <<mode, riders, batch, batchCh, intake, applied, reader>>
      /\ UNCHANGED <<pc, res, at, conn, pending, closed>>
  BY Zenon DEF producer, client
<1>2. Settles
  BY Zenon, <1>1 DEF Settles, Onward, Carriage
<1>3. Carriage' /\ Executed' /\ \A m \in Msgs : Sent(m) => Sent(m)'
  BY Zenon, CallsKept, <1>1, <1>2
<1>4. faults' \in [count : 0 .. mode'.faults, slow : BOOLEAN]
  BY Zenon, FaultsKept, <1>1 DEF IInv
<1>5. ClientOK' /\ ProducerOK'
  BY Zenon, <1>1 DEF ClientOK, ProducerOK
<1>6. RestOK'
  BY Zenon, <1>1, <1>4 DEF RestOK
<1>7. TypeOK'
  BY Zenon, <1>5, <1>6, Types2
<1>8. Wired'
  BY Zenon, WiredKept, <1>1, <1>3
<1>9. Access'
  BY Zenon, <1>1 DEF Access
<1> QED BY Zenon, <1>3, <1>7, <1>8, <1>9 DEF IInv

LEMMA OneConn ==
    ASSUME IInv, UNCHANGED <<mode, producer, client, reader, applied>>, WireOK', ServerOK',
           UNCHANGED run, UNCHANGED faults \/ \E x : Fault(x), NEW k \in Conns, Elsewhere(k),
           \A c \in Msgs : /\ Requested(k, c)' => Requested(k, c)
                           /\ Confirmed(k, c)' => Confirmed(k, c),
           principal'[k] => mode.creds \in {"good", "reader"},
           InOne(k)', Served(k)',
           run = "up" \/ serve'[k] \notin Serving \/ (serve[k] \in Serving /\ ~Stuck(k))
    PROVE  IInv'
<1> USE Parts
<1>1. Sole'
  BY Zenon, SoleFrom
<1>2. ~faults'.slow => ~faults.slow
  BY Zenon, FaultsKept DEF IInv
<1>3. Serves'
  BY Zenon, <1>2, ServesFrom
<1>4. \A l \in Conns, c \in Msgs : /\ Requested(l, c)' => Requested(l, c)
                                   /\ Confirmed(l, c)' => Confirmed(l, c)
  BY Zenon, ElsewhereWire
<1>5. \A l \in Conns : principal'[l] => mode.creds \in {"good", "reader"}
  BY Zenon DEF Elsewhere, Access
<1>6. run' \in {"up", "draining", "forced", "returned", "stopped"}
  BY Zenon DEF RestOK
<1> QED BY Zenon, <1>1, <1>3, <1>4, <1>5, <1>6, ServerStep

LEMMA InOneLess ==
    ASSUME NEW k \in Conns, InOne(k), held'[k] = held[k], handling'[k] = handling[k],
           toServer'[k] \in {toServer[k], <<>>}
    PROVE  InOne(k)' /\ \A c \in Msgs : Requested(k, c)' => Requested(k, c)
<1>1. CASE toServer'[k] = toServer[k]
  BY Zenon, <1>1 DEF InOne, Requested
<1>2. CASE toServer'[k] = <<>>
  <2>1. /\ \A c : ~In(c, toServer'[k])
        /\ DOMAIN toServer'[k] = {}
    BY SMT, <1>2, InEmpty
  <2> QED BY Zenon, <2>1 DEF InOne, Requested
<1> QED BY Zenon, <1>1, <1>2

LEMMA CloseServerOne ==
    ASSUME WireOK, NEW k \in Conns, CloseServer({k})
    PROVE  /\ toServer' \in [Conns -> Seq(Msgs \cup {AUTH})] /\ sopen' \in [Conns -> BOOLEAN]
           /\ toServer'[k] = <<>>
           /\ \A l \in Conns \ {k} : toServer'[l] = toServer[l]
<1>1. /\ toServer' = [l \in Conns |-> IF l \in {k} THEN <<>> ELSE toServer[l]]
      /\ sopen' = [l \in Conns |-> sopen[l] /\ l \notin {k}]
  BY Zenon DEF CloseServer
<1>2. toServer' \in [Conns -> Seq(Msgs \cup {AUTH})]
  BY SMT, <1>1 DEF WireOK
<1> QED BY Zenon, <1>1, <1>2

LEMMA StepAccept ==
    ASSUME IInv, NEW k \in Conns, Accept(k)
    PROVE  IInv'
<1> USE Parts
<1> DEFINE b == [id |-> "busy", ok |-> FALSE]
<1>1. /\ serve[k] = "backlog"
      /\ UNCHANGED <<mode, producer, client, reader, applied>>
      /\ UNCHANGED <<copen, principal, failures, handling, held, sending, resCh, run, faults>>
  BY Zenon DEF Accept
<1>2. \/ /\ serve' = [serve EXCEPT ![k] = "ended"] /\ CloseServer({k}) /\ UNCHANGED writer
         /\ toClient' = toClient \/ toClient' = [toClient EXCEPT ![k] = Append(@, b)]
      \/ /\ ~Closing /\ serve' = [serve EXCEPT ![k] = "read"] /\ writer' = [writer EXCEPT ![k] = TRUE]
         /\ UNCHANGED <<sopen, toServer, toClient>>
  BY Zenon DEF Accept
<1>3. /\ b \in Frame /\ \A c \in Msgs : Yes(c) # b
  BY SMT, NamesAssumption DEF Frame, Yes
<1> HIDE DEF b
<1>4. /\ serve' \in [Conns -> {"none", "backlog", "ended"} \cup Serving]
      /\ serve'[k] \in {"ended", "read"} /\ (serve'[k] = "read" => run = "up")
      /\ \A l \in Conns \ {k} : serve'[l] = serve[l]
  BY Zenon, <1>2 DEF ServerOK, Serving, Closing
<1>5. /\ writer' \in [Conns -> BOOLEAN]
      /\ \A l \in Conns \ {k} : writer'[l] = writer[l]
  BY Zenon, <1>2 DEF ServerOK
<1>6. /\ toServer' \in [Conns -> Seq(Msgs \cup {AUTH})] /\ sopen' \in [Conns -> BOOLEAN]
      /\ toServer'[k] \in {toServer[k], <<>>}
      /\ \A l \in Conns \ {k} : toServer'[l] = toServer[l]
  BY Zenon, <1>2, CloseServerOne DEF WireOK
<1>7. /\ toClient' \in [Conns -> Seq(Frame)]
      /\ \A l \in Conns \ {k} : toClient'[l] = toClient[l]
      /\ \A c \in Msgs : In(Yes(c), toClient'[k]) => In(Yes(c), toClient[k])
  <2>1. CASE toClient' = toClient
    BY Zenon, <2>1 DEF WireOK
  <2>2. CASE toClient' = [toClient EXCEPT ![k] = Append(@, b)]
    <3>1. toClient[k] \in Seq(Frame)
      BY Zenon DEF WireOK
    <3>2. /\ Append(toClient[k], b) \in Seq(Frame)
          /\ \A y : In(y, Append(toClient[k], b)) <=> In(y, toClient[k]) \/ y = b
      BY SMT, <1>3, <3>1, InAppend
    <3>3. toClient'[k] = Append(toClient[k], b) /\ \A l \in Conns \ {k} : toClient'[l] = toClient[l]
      BY Zenon, <2>2 DEF WireOK
    <3>4. toClient' \in [Conns -> Seq(Frame)]
      BY Zenon, <2>2, <3>2 DEF WireOK
    <3> QED BY Zenon, <1>3, <3>2, <3>3, <3>4
  <2> QED BY Zenon, <1>2, <2>1, <2>2
<1>8. WireOK'
  BY Zenon, <1>1, <1>6, <1>7 DEF WireOK
<1>9. ServerOK'
  BY Zenon, <1>1, <1>4, <1>5 DEF ServerOK
<1>10. Elsewhere(k)
  BY Zenon, <1>1, <1>4, <1>5, <1>6, <1>7 DEF Elsewhere
<1>11. InOne(k)' /\ \A c \in Msgs : Requested(k, c)' => Requested(k, c)
  BY Zenon, <1>1, <1>6, InOneLess DEF Sole
<1>12. \A c \in Msgs : Confirmed(k, c)' => Confirmed(k, c)
  BY Zenon, <1>1, <1>7 DEF Confirmed, Yes
<1>13. Served(k)'
  <2>1. Served(k) /\ serve[k] \notin Serving /\ serve[k] # "drain"
    BY Zenon, <1>1 DEF Serves, Serving
  <2>2. serve'[k] # "slot"
    BY Zenon, <1>4
  <2> QED BY Zenon, <1>1, <2>1, <2>2 DEF Served
<1>14. run = "up" \/ serve'[k] \notin Serving
  BY Zenon, <1>4 DEF Serving
<1>15. principal'[k] => mode.creds \in {"good", "reader"}
  BY Zenon, <1>1 DEF Access
<1> QED BY Zenon, <1>1, <1>8, <1>9, <1>10, <1>11, <1>12, <1>13, <1>14, <1>15, OneConn

\* A frame the read loop has taken.
LEMMA Taken ==
    ASSUME WireOK, Sole, NEW k \in Conns, toServer[k] # <<>>, TakeFrame(k)
    PROVE  /\ toServer' \in [Conns -> Seq(Msgs \cup {AUTH})]
           /\ \A l \in Conns \ {k} : toServer'[l] = toServer[l]
           /\ Head(toServer[k]) \in Msgs \cup {AUTH} /\ In(Head(toServer[k]), toServer[k])
           /\ \A c \in Msgs : /\ In(c, toServer'[k]) => In(c, toServer[k]) /\ c # Head(toServer[k])
                              /\ \A i, j \in DOMAIN toServer'[k] :
                                    toServer'[k][i] = c /\ toServer'[k][j] = c => i = j
<1> DEFINE s == toServer[k]
<1>1. s \in Seq(Msgs \cup {AUTH}) /\ s # <<>>
  BY Zenon DEF WireOK
<1>2. toServer' = [toServer EXCEPT ![k] = Tail(s)]
  BY Zenon DEF TakeFrame
<1>3. InOne(k)
  BY Zenon DEF Sole
<1>4. \A c \in Msgs : \A i, j \in DOMAIN s : s[i] = c /\ s[j] = c => i = j
  BY Zenon, <1>3 DEF InOne
<1> HIDE DEF s
<1>5. /\ Head(s) \in Msgs \cup {AUTH} /\ Tail(s) \in Seq(Msgs \cup {AUTH}) /\ In(Head(s), s)
      /\ \A y : In(y, Tail(s)) => In(y, s)
  BY SMT, <1>1, InTail
<1>6. ASSUME NEW c \in Msgs
      PROVE  /\ c = Head(s) => ~In(c, Tail(s))
             /\ \A i, j \in DOMAIN Tail(s) : Tail(s)[i] = c /\ Tail(s)[j] = c => i = j
  <2>1. \A i, j \in DOMAIN s : s[i] = c /\ s[j] = c => i = j
    BY Zenon, <1>4
  <2>2. \A y : (\A i, j \in DOMAIN s : s[i] = y /\ s[j] = y => i = j) =>
                 /\ y = Head(s) => ~In(y, Tail(s))
                 /\ \A i, j \in DOMAIN Tail(s) : Tail(s)[i] = y /\ Tail(s)[j] = y => i = j
    BY Zenon, <1>1, InTail
  <2> QED BY Zenon, <2>1, <2>2
<1>7. /\ toServer'[k] = Tail(s) /\ toServer' \in [Conns -> Seq(Msgs \cup {AUTH})]
      /\ \A l \in Conns \ {k} : toServer'[l] = toServer[l]
  BY Zenon, <1>2, <1>5 DEF WireOK
<1> QED BY Zenon, <1>5, <1>6, <1>7 DEF s

LEMMA Limits == /\ maxInFlightPerConn \in Nat \ {0} /\ maxAuthFailures \in Nat \ {0} /\ flushCount \in Nat \ {0}
                /\ AUTH \notin Msgs /\ "busy" \notin Msgs /\ "none" \notin Msgs /\ AUTH # "none"
BY SMT, BoundsAssumption, NamesAssumption DEF AUTH

LEMMA StepHandlePreAuth ==
    ASSUME IInv, NEW k \in Conns, handlePreAuth(k)
    PROVE  IInv'
<1> USE Parts
<1> DEFINE f  == Head(toServer[k])
           ok == Authenticate(f)
           r  == [id |-> f, ok |-> ok]
           n  == IF ok THEN failures[k] ELSE failures[k] + 1
           s  == IF n < maxAuthFailures THEN serve[k] ELSE "drain"
<1>1. /\ serve[k] = "read" /\ toServer[k] # <<>> /\ TakeFrame(k) /\ Len(resCh[k]) < maxInFlightPerConn
      /\ UNCHANGED <<mode, producer, client, reader, applied>>
      /\ UNCHANGED <<toClient, copen, sopen, handling, held, sending, writer, run, faults>>
      /\ resCh' = [resCh EXCEPT ![k] = Append(@, r)]
      /\ principal' = [principal EXCEPT ![k] = ok]
      /\ failures' = [failures EXCEPT ![k] = n]
      /\ serve' = [serve EXCEPT ![k] = IF failures'[k] < maxAuthFailures THEN @ ELSE "drain"]
  BY Zenon DEF handlePreAuth, HasFrame
<1>2. failures'[k] = n
  BY Zenon, <1>1 DEF ServerOK
<1>3. serve' = [serve EXCEPT ![k] = s]
  BY Zenon, <1>1, <1>2
<1>4. /\ ok \in BOOLEAN /\ (ok => mode.creds \in {"good", "reader"}) /\ f \in Msgs \cup {AUTH}
      /\ \A c \in Msgs : ok => f # c
  <2>1. f \in Msgs \cup {AUTH}
    BY Zenon, <1>1, Taken
  <2> QED BY Zenon, <2>1, Limits DEF Authenticate
<1>5. failures[k] \in 0 .. maxAuthFailures /\ failures[k] < maxAuthFailures /\ Served(k) /\ serve[k] \in Serving
  BY Zenon, <1>1 DEF Serves, Served, ServerOK, Serving
<1>6. n \in 0 .. maxAuthFailures /\ s \in {"read", "drain"} /\ (s # "drain" => n < maxAuthFailures)
  <2> HIDE DEF ok
  <2> QED BY SMT, <1>1, <1>5, Limits
<1> HIDE DEF ok, n, s, f
<1>7. r \in Frame /\ \A c \in Msgs : Yes(c) # r
  BY SMT, <1>4 DEF Frame, Yes
<1> HIDE DEF r
<1>8. resCh[k] \in Seq(Frame) /\ Len(resCh[k]) <= maxInFlightPerConn
  BY Zenon DEF ServerOK
<1>9. /\ Append(resCh[k], r) \in Seq(Frame) /\ Len(Append(resCh[k], r)) <= maxInFlightPerConn
      /\ \A y : In(y, Append(resCh[k], r)) <=> In(y, resCh[k]) \/ y = r
  BY SMT, <1>1, <1>7, <1>8, InAppend, Limits
<1>10. /\ resCh'[k] = Append(resCh[k], r) /\ serve'[k] = s /\ principal'[k] = ok
       /\ \A l \in Conns \ {k} : /\ resCh'[l] = resCh[l] /\ serve'[l] = serve[l]
                                 /\ principal'[l] = principal[l] /\ failures'[l] = failures[l]
  BY Zenon, <1>1, <1>3 DEF ServerOK
<1>11. WireOK'
  BY Zenon, <1>1, Taken DEF WireOK
<1>12. ServerOK'
  <2>1. resCh' \in [Conns -> Seq(Frame)] /\ principal' \in [Conns -> BOOLEAN]
    BY Zenon, <1>1, <1>4, <1>9 DEF ServerOK
  <2>2. /\ failures' \in [Conns -> 0 .. maxAuthFailures]
        /\ serve' \in [Conns -> {"none", "backlog", "ended"} \cup Serving]
    <3>1. s \in {"none", "backlog", "ended"} \cup Serving
      BY Zenon, <1>6 DEF Serving
    <3>2. failures' \in [Conns -> 0 .. maxAuthFailures]
      BY Zenon, <1>1, <1>6 DEF ServerOK
    <3>3. serve' \in [Conns -> {"none", "backlog", "ended"} \cup Serving]
      BY Zenon, <1>3, <3>1 DEF ServerOK
    <3> QED BY Zenon, <3>2, <3>3
  <2>3. \A l \in Conns : Len(resCh'[l]) <= maxInFlightPerConn
    BY Zenon, <1>1, <1>9, <1>10 DEF ServerOK
  <2> QED BY Zenon, <1>1, <2>1, <2>2, <2>3 DEF ServerOK
<1>13. Elsewhere(k)
  BY Zenon, <1>1, <1>10, Taken DEF Elsewhere
<1>14. InOne(k)' /\ \A c \in Msgs : Requested(k, c)' => Requested(k, c)
  <2>1. InOne(k)
    BY Zenon DEF Sole
  <2> QED BY Zenon, <1>1, <2>1, Taken DEF InOne, Requested
<1>15. \A c \in Msgs : Confirmed(k, c)' => Confirmed(k, c)
  BY Zenon, <1>1, <1>7, <1>9, <1>10 DEF Confirmed, Yes
<1>16. Served(k)'
  <2>1. s \in Serving
    BY Zenon, <1>6 DEF Serving
  <2>2. s # "slot"
    BY Zenon, <1>6
  <2> QED BY Zenon, <1>1, <1>2, <1>5, <1>6, <1>10, <2>1, <2>2 DEF Served
<1>17. serve[k] \in Serving /\ ~Stuck(k)
  BY Zenon, <1>1, <1>5 DEF Stuck
<1> QED BY Zenon, <1>1, <1>4, <1>10, <1>11, <1>12, <1>13, <1>14, <1>15, <1>16, <1>17, OneConn

LEMMA StepServeFrame ==
    ASSUME IInv, NEW k \in Conns, serveFrame(k)
    PROVE  IInv'
<1> USE Parts
<1> DEFINE f == Head(toServer[k])
<1>1. /\ serve[k] = "read" /\ toServer[k] # <<>> /\ TakeFrame(k)
      /\ UNCHANGED <<mode, producer, client, reader, applied>>
      /\ UNCHANGED <<toClient, copen, sopen, principal, failures, sending, resCh, writer, run, faults>>
  BY Zenon DEF serveFrame, HasFrame
<1>2. \/ /\ InFlight(k) < maxInFlightPerConn
         /\ handling' = [handling EXCEPT ![k] = @ \cup {f}] /\ UNCHANGED held
         /\ serve' = [serve EXCEPT ![k] = IF Closing THEN "drain" ELSE @]
      \/ /\ held' = [held EXCEPT ![k] = f] /\ UNCHANGED handling
         /\ serve' = [serve EXCEPT ![k] = "slot"]
  BY Zenon DEF serveFrame
<1>3. /\ f \in Msgs \cup {AUTH} /\ In(f, toServer[k])
      /\ toServer' \in [Conns -> Seq(Msgs \cup {AUTH})]
      /\ \A l \in Conns \ {k} : toServer'[l] = toServer[l]
      /\ \A c \in Msgs : /\ In(c, toServer'[k]) => In(c, toServer[k]) /\ c # f
                         /\ \A i, j \in DOMAIN toServer'[k] :
                               toServer'[k][i] = c /\ toServer'[k][j] = c => i = j
  BY Zenon, <1>1, Taken
<1> HIDE DEF f
<1>4. /\ serve' \in [Conns -> {"none", "backlog", "ended"} \cup Serving]
      /\ serve'[k] \in Serving
      /\ \A l \in Conns \ {k} : serve'[l] = serve[l]
  BY Zenon, <1>1, <1>2 DEF ServerOK, Serving
<1>5. /\ \/ handling'[k] = handling[k] \cup {f} /\ held'[k] = held[k]
         \/ handling'[k] = handling[k] /\ held'[k] = f
      /\ \A l \in Conns \ {k} : handling'[l] = handling[l] /\ held'[l] = held[l]
  <2>1. CASE handling' = [handling EXCEPT ![k] = @ \cup {f}] /\ UNCHANGED held
    BY Zenon, <2>1 DEF ServerOK
  <2>2. CASE held' = [held EXCEPT ![k] = f] /\ UNCHANGED handling
    BY Zenon, <2>2 DEF ServerOK
  <2> QED BY Zenon, <1>2, <2>1, <2>2
<1>6. /\ handling' \in [Conns -> SUBSET (Msgs \cup {AUTH})]
      /\ held' \in [Conns -> Msgs \cup {AUTH, "none"}]
  <2>1. handling[k] \cup {f} \in SUBSET (Msgs \cup {AUTH}) /\ f \in Msgs \cup {AUTH, "none"}
    BY Zenon, <1>3 DEF ServerOK
  <2>2. CASE handling' = [handling EXCEPT ![k] = @ \cup {f}] /\ UNCHANGED held
    BY Zenon, <2>1, <2>2 DEF ServerOK
  <2>3. CASE held' = [held EXCEPT ![k] = f] /\ UNCHANGED handling
    BY Zenon, <2>1, <2>3 DEF ServerOK
  <2> QED BY Zenon, <1>2, <2>2, <2>3
<1>7. WireOK'
  BY Zenon, <1>1, <1>3 DEF WireOK
<1>8. ServerOK'
  <2>1. \A l \in Conns : Len(resCh'[l]) <= maxInFlightPerConn
    BY Zenon, <1>1, <1>5 DEF ServerOK
  <2> QED BY Zenon, <1>1, <1>4, <1>6, <2>1 DEF ServerOK
<1>9. Elsewhere(k)
  BY Zenon, <1>1, <1>3, <1>4, <1>5 DEF Elsewhere
<1>10. InOne(k)
  BY Zenon DEF Sole
<1>11. InOne(k)'
  <2> SUFFICES ASSUME NEW c \in Msgs
               PROVE  /\ In(c, toServer'[k]) => held'[k] # c /\ c \notin handling'[k]
                      /\ held'[k] = c => c \notin handling'[k]
    BY Zenon, <1>3 DEF InOne
  <2>1. /\ In(c, toServer[k]) => held[k] # c /\ c \notin handling[k]
        /\ held[k] = c => c \notin handling[k]
        /\ In(c, toServer'[k]) => In(c, toServer[k]) /\ c # f
    BY Zenon, <1>3, <1>10 DEF InOne
  <2>2. CASE handling'[k] = handling[k] \cup {f} /\ held'[k] = held[k]
    BY Zenon, <1>3, <2>1, <2>2
  <2>3. CASE handling'[k] = handling[k] /\ held'[k] = f
    BY Zenon, <1>3, <2>1, <2>3
  <2> QED BY Zenon, <1>5, <2>2, <2>3
<1>12. \A c \in Msgs : Requested(k, c)' => Requested(k, c)
  BY Zenon, <1>3, <1>5 DEF Requested
<1>13. \A c \in Msgs : Confirmed(k, c)' => Confirmed(k, c)
  BY Zenon, <1>1 DEF Confirmed, Yes
<1>14. Served(k) /\ serve[k] \in Serving /\ ~Stuck(k) /\ serve[k] # "drain"
  BY Zenon, <1>1 DEF Serves, Stuck, Serving
<1>15. Served(k)'
  <2>1. serve'[k] = "slot" => held'[k] # "none"
    <3>1. f # "none"
      BY Zenon, <1>3, Limits
    <3>2. serve'[k] = "slot" => held'[k] = f
      BY SMT, <1>1, <1>2 DEF ServerOK
    <3> QED BY Zenon, <3>1, <3>2
  <2> QED BY Zenon, <1>1, <1>4, <1>14, <2>1 DEF Served
<1>16. principal'[k] => mode.creds \in {"good", "reader"}
  BY Zenon, <1>1 DEF Access
<1> QED BY Zenon, <1>1, <1>7, <1>8, <1>9, <1>11, <1>12, <1>13, <1>14, <1>15, <1>16, OneConn

LEMMA StepSlotFree ==
    ASSUME IInv, NEW k \in Conns, slotFree(k)
    PROVE  IInv'
<1> USE Parts
<1> DEFINE f == held[k]
<1>1. /\ serve[k] = "slot" /\ held' = [held EXCEPT ![k] = "none"]
      /\ UNCHANGED <<mode, producer, client, reader, applied>>
      /\ UNCHANGED <<toServer, toClient, copen, sopen, principal, failures, sending, resCh, writer, run, faults>>
  BY Zenon DEF slotFree, wire
<1>2. \/ /\ InFlight(k) < maxInFlightPerConn
         /\ handling' = [handling EXCEPT ![k] = @ \cup {f}]
         /\ serve' = [serve EXCEPT ![k] = IF Closing THEN "drain" ELSE "read"]
      \/ /\ UNCHANGED handling
         /\ serve' = [serve EXCEPT ![k] = "drain"]
  BY Zenon DEF slotFree
<1>3. Served(k) /\ InOne(k) /\ serve[k] \in Serving /\ ~Stuck(k) /\ serve[k] # "drain"
  BY Zenon, <1>1 DEF Serves, Sole, Stuck, Serving
<1>4. f \in Msgs \cup {AUTH} /\ "none" \notin Msgs
  BY SMT, <1>1, <1>3, Limits DEF Served, ServerOK
<1>5. /\ serve' \in [Conns -> {"none", "backlog", "ended"} \cup Serving]
      /\ serve'[k] \in Serving /\ serve'[k] # "slot"
      /\ \A l \in Conns \ {k} : serve'[l] = serve[l]
  BY Zenon, <1>2 DEF ServerOK, Serving
<1>6. /\ handling'[k] \in {handling[k] \cup {f}, handling[k]} /\ held'[k] = "none"
      /\ \A l \in Conns \ {k} : handling'[l] = handling[l] /\ held'[l] = held[l]
  BY Zenon, <1>1, <1>2 DEF ServerOK
<1>7. handling' \in [Conns -> SUBSET (Msgs \cup {AUTH})]
  <2>1. handling[k] \cup {f} \in SUBSET (Msgs \cup {AUTH})
    BY Zenon, <1>4 DEF ServerOK
  <2>2. handling \in [Conns -> SUBSET (Msgs \cup {AUTH})]
    BY Zenon DEF ServerOK
  <2>3. handling' = [handling EXCEPT ![k] = handling[k] \cup {f}] \/ handling' = handling
    BY Zenon, <1>2
  <2> QED BY Zenon, <2>1, <2>2, <2>3
<1>8. held' \in [Conns -> Msgs \cup {AUTH, "none"}]
  BY SMT, <1>1 DEF ServerOK
<1>9. WireOK'
  BY Zenon, <1>1 DEF WireOK
<1>10. ServerOK'
  <2>1. \A l \in Conns : Len(resCh'[l]) <= maxInFlightPerConn
    BY Zenon, <1>1, <1>6 DEF ServerOK
  <2> QED BY Zenon, <1>1, <1>5, <1>7, <1>8, <2>1 DEF ServerOK
<1>11. Elsewhere(k)
  BY Zenon, <1>1, <1>5, <1>6 DEF Elsewhere
<1>12. InOne(k)'
  BY Zenon, <1>1, <1>3, <1>4, <1>6 DEF InOne
<1>13. \A c \in Msgs : Requested(k, c)' => Requested(k, c)
  BY Zenon, <1>1, <1>4, <1>6 DEF Requested
<1>14. \A c \in Msgs : Confirmed(k, c)' => Confirmed(k, c)
  BY Zenon, <1>1 DEF Confirmed, Yes
<1>15. Served(k)'
  BY Zenon, <1>1, <1>3, <1>5 DEF Served
<1>16. principal'[k] => mode.creds \in {"good", "reader"}
  BY Zenon, <1>1 DEF Access
<1> QED BY Zenon, <1>1, <1>3, <1>9, <1>10, <1>11, <1>12, <1>13, <1>14, <1>15, <1>16, OneConn

LEMMA StepSendResponse ==
    ASSUME IInv, NEW k \in Conns, NEW r \in sending[k], sendResponse(k, r)
    PROVE  IInv'
<1> USE Parts
<1>1. /\ Len(resCh[k]) < maxInFlightPerConn
      /\ sending' = [sending EXCEPT ![k] = @ \ {r}] /\ resCh' = [resCh EXCEPT ![k] = Append(@, r)]
      /\ UNCHANGED <<mode, producer, client, reader, applied>>
      /\ UNCHANGED <<toServer, toClient, copen, sopen, serve, principal, failures, handling, held,
                     writer, run, faults>>
  BY Zenon DEF sendResponse, wire
<1>2. Served(k) /\ InOne(k) /\ sending[k] # {} /\ sending[k] \subseteq Frame /\ r \in Frame
  BY Zenon DEF Serves, Sole, ServerOK
<1>3. serve[k] \in Serving /\ ~Stuck(k)
  <2>1. serve[k] \in Serving
    BY Zenon, <1>2 DEF Served
  <2>2. resCh[k] \in Seq(Frame)
    BY Zenon DEF ServerOK
  <2>3. Len(resCh[k]) # maxInFlightPerConn
    BY SMT, <1>1, <2>2, Limits
  <2> QED BY Zenon, <2>1, <2>3 DEF Stuck, Jammed
<1>4. /\ resCh[k] \in Seq(Frame)
      /\ Append(resCh[k], r) \in Seq(Frame) /\ Len(Append(resCh[k], r)) <= maxInFlightPerConn
      /\ \A y : In(y, Append(resCh[k], r)) <=> In(y, resCh[k]) \/ y = r
  <2>1. resCh[k] \in Seq(Frame)
    BY Zenon DEF ServerOK
  <2> QED BY SMT, <1>1, <1>2, <2>1, InAppend, Limits
<1>5. /\ sending'[k] = sending[k] \ {r} /\ resCh'[k] = Append(resCh[k], r)
      /\ \A l \in Conns \ {k} : sending'[l] = sending[l] /\ resCh'[l] = resCh[l]
  BY Zenon, <1>1 DEF ServerOK
<1>6. sending' \in [Conns -> SUBSET Frame] /\ resCh' \in [Conns -> Seq(Frame)]
  <2>1. sending[k] \ {r} \in SUBSET Frame
    BY Zenon, <1>2
  <2> QED BY Zenon, <1>1, <1>4, <2>1 DEF ServerOK
<1>7. WireOK'
  BY Zenon, <1>1 DEF WireOK
<1>8. ServerOK'
  <2>1. \A l \in Conns : Len(resCh'[l]) <= maxInFlightPerConn
    BY Zenon, <1>1, <1>4, <1>5 DEF ServerOK
  <2> QED BY Zenon, <1>1, <1>6, <2>1 DEF ServerOK
<1>9. Elsewhere(k)
  BY Zenon, <1>1, <1>5 DEF Elsewhere
<1>10. InOne(k)' /\ \A c \in Msgs : Requested(k, c)' => Requested(k, c)
  BY Zenon, <1>1, <1>2, InOneLess
<1>11. \A c \in Msgs : Confirmed(k, c)' => Confirmed(k, c)
  BY Zenon, <1>1, <1>4, <1>5 DEF Confirmed, Yes
<1>12. Served(k)'
  BY Zenon, <1>1, <1>2, <1>3 DEF Served
<1>13. principal'[k] => mode.creds \in {"good", "reader"}
  BY Zenon, <1>1 DEF Access
<1> QED BY Zenon, <1>1, <1>3, <1>7, <1>8, <1>9, <1>10, <1>11, <1>12, <1>13, OneConn

LEMMA StepWriteResponse ==
    ASSUME IInv, NEW k \in Conns, writeResponse(k)
    PROVE  IInv'
<1> USE Parts
<1> DEFINE r == Head(resCh[k])
<1>1. /\ writer[k] /\ resCh[k] # <<>> /\ resCh' = [resCh EXCEPT ![k] = Tail(@)]
      /\ UNCHANGED <<mode, producer, client, reader, applied>>
      /\ UNCHANGED <<copen, serve, principal, failures, handling, held, sending, run>>
      /\ UNCHANGED faults \/ Fault("stall")
  BY Zenon DEF writeResponse, NoFault
<1>2. \/ /\ toClient' \in {toClient, [toClient EXCEPT ![k] = Append(@, r)]}
         /\ UNCHANGED <<writer, sopen, toServer>>
      \/ writer' = [writer EXCEPT ![k] = FALSE] /\ CloseServer({k}) /\ UNCHANGED toClient
  BY Zenon DEF writeResponse, writeError
<1>3. /\ resCh[k] \in Seq(Frame) /\ Len(resCh[k]) <= maxInFlightPerConn
  BY Zenon DEF ServerOK
<1>4. /\ r \in Frame /\ In(r, resCh[k]) /\ Tail(resCh[k]) \in Seq(Frame)
      /\ \A y : In(y, Tail(resCh[k])) => In(y, resCh[k])
  BY SMT, <1>1, <1>3, InTail
<1>5. Len(Tail(resCh[k])) <= maxInFlightPerConn
  BY SMT, <1>1, <1>3, Limits
<1>6. /\ resCh'[k] = Tail(resCh[k]) /\ resCh' \in [Conns -> Seq(Frame)]
      /\ \A l \in Conns \ {k} : resCh'[l] = resCh[l]
  BY Zenon, <1>1, <1>4 DEF ServerOK
<1> HIDE DEF r
<1>7. /\ toServer' \in [Conns -> Seq(Msgs \cup {AUTH})] /\ sopen' \in [Conns -> BOOLEAN]
      /\ toServer'[k] \in {toServer[k], <<>>}
      /\ \A l \in Conns \ {k} : toServer'[l] = toServer[l]
  BY Zenon, <1>2, CloseServerOne DEF WireOK
<1>8. /\ writer' \in [Conns -> BOOLEAN]
      /\ \A l \in Conns \ {k} : writer'[l] = writer[l]
  BY Zenon, <1>2 DEF ServerOK
<1>9. /\ toClient' \in [Conns -> Seq(Frame)]
      /\ \A l \in Conns \ {k} : toClient'[l] = toClient[l]
      /\ \A y : In(y, toClient'[k]) => In(y, toClient[k]) \/ y = r
  <2>1. CASE toClient' = toClient
    BY Zenon, <2>1 DEF WireOK
  <2>2. CASE toClient' = [toClient EXCEPT ![k] = Append(@, r)]
    <3>1. toClient[k] \in Seq(Frame)
      BY Zenon DEF WireOK
    <3>2. /\ Append(toClient[k], r) \in Seq(Frame)
          /\ \A y : In(y, Append(toClient[k], r)) <=> In(y, toClient[k]) \/ y = r
      BY SMT, <1>4, <3>1, InAppend
    <3>3. toClient'[k] = Append(toClient[k], r) /\ \A l \in Conns \ {k} : toClient'[l] = toClient[l]
      BY Zenon, <2>2 DEF WireOK
    <3>4. toClient' \in [Conns -> Seq(Frame)]
      BY Zenon, <2>2, <3>2 DEF WireOK
    <3> QED BY Zenon, <3>2, <3>3, <3>4
  <2> QED BY Zenon, <1>2, <2>1, <2>2
<1>10. WireOK'
  BY Zenon, <1>1, <1>7, <1>9 DEF WireOK
<1>11. ServerOK'
  <2>1. \A l \in Conns : Len(resCh'[l]) <= maxInFlightPerConn
    BY Zenon, <1>1, <1>5, <1>6 DEF ServerOK
  <2> QED BY Zenon, <1>1, <1>6, <1>8, <2>1 DEF ServerOK
<1>12. Elsewhere(k)
  BY Zenon, <1>1, <1>6, <1>7, <1>8, <1>9 DEF Elsewhere
<1>13. InOne(k)' /\ \A c \in Msgs : Requested(k, c)' => Requested(k, c)
  BY Zenon, <1>1, <1>7, InOneLess DEF Sole
<1>14. \A c \in Msgs : Confirmed(k, c)' => Confirmed(k, c)
  BY Zenon, <1>1, <1>4, <1>6, <1>9 DEF Confirmed, Yes
<1>15. Served(k)'
  BY Zenon, <1>1 DEF Serves, Served
<1>16. serve'[k] \notin Serving \/ (serve[k] \in Serving /\ ~Stuck(k))
  BY Zenon, <1>1 DEF Stuck, Jammed
<1>17. principal'[k] => mode.creds \in {"good", "reader"}
  BY Zenon, <1>1 DEF Access
<1> QED BY Zenon, <1>1, <1>10, <1>11, <1>12, <1>13, <1>14, <1>15, <1>16, <1>17, OneConn

LEMMA StepServeReadError ==
    ASSUME IInv, NEW k \in Conns, serveReadError(k)
    PROVE  IInv'
<1> USE Parts
<1>1. /\ serve[k] = "read" /\ serve' = [serve EXCEPT ![k] = "drain"]
      /\ UNCHANGED <<mode, producer, client, reader, applied>>
      /\ UNCHANGED <<toServer, toClient, copen, sopen, principal, failures, handling, held, sending,
                     resCh, writer, run>>
      /\ UNCHANGED faults \/ Fault("idle")
  BY Zenon DEF serveReadError, idleTimeout, NoFault, wire
<1>2. /\ serve' \in [Conns -> {"none", "backlog", "ended"} \cup Serving]
      /\ serve'[k] = "drain" /\ \A l \in Conns \ {k} : serve'[l] = serve[l]
  BY SMT, <1>1 DEF ServerOK, Serving
<1>3. WireOK' /\ ServerOK'
  BY Zenon, <1>1, <1>2 DEF WireOK, ServerOK
<1>4. Elsewhere(k)
  BY Zenon, <1>1, <1>2 DEF Elsewhere
<1>5. InOne(k)' /\ \A c \in Msgs : Requested(k, c)' => Requested(k, c)
  BY Zenon, <1>1, InOneLess DEF Sole
<1>6. \A c \in Msgs : Confirmed(k, c)' => Confirmed(k, c)
  BY Zenon, <1>1 DEF Confirmed, Yes
<1>7. serve[k] \in Serving /\ ~Stuck(k) /\ serve'[k] \in Serving /\ serve'[k] # "slot"
  BY Zenon, <1>1, <1>2 DEF Stuck, Serving
<1>8. Served(k)'
  BY Zenon, <1>1, <1>2, <1>7 DEF Serves, Served
<1>9. principal'[k] => mode.creds \in {"good", "reader"}
  BY Zenon, <1>1 DEF Access
<1> QED BY Zenon, <1>1, <1>3, <1>4, <1>5, <1>6, <1>7, <1>8, <1>9, OneConn

LEMMA StepServeEnd ==
    ASSUME IInv, NEW k \in Conns, serveEnd(k)
    PROVE  IInv'
<1> USE Parts
<1>1. /\ handling[k] = {} /\ sending[k] = {}
      /\ serve' = [serve EXCEPT ![k] = "ended"] /\ writer' = [writer EXCEPT ![k] = FALSE]
      /\ resCh' = [resCh EXCEPT ![k] = <<>>] /\ principal' = [principal EXCEPT ![k] = FALSE]
      /\ failures' = [failures EXCEPT ![k] = 0] /\ CloseServer({k})
      /\ UNCHANGED <<mode, producer, client, reader, applied>>
      /\ UNCHANGED <<toClient, copen, handling, held, sending, run, faults>>
  BY Zenon DEF serveEnd
<1>2. /\ serve'[k] = "ended" /\ resCh'[k] = <<>> /\ failures'[k] = 0 /\ principal'[k] = FALSE
      /\ \A l \in Conns \ {k} : /\ serve'[l] = serve[l] /\ writer'[l] = writer[l] /\ resCh'[l] = resCh[l]
                                /\ principal'[l] = principal[l] /\ failures'[l] = failures[l]
  BY Zenon, <1>1 DEF ServerOK
<1>3. /\ toServer' \in [Conns -> Seq(Msgs \cup {AUTH})] /\ sopen' \in [Conns -> BOOLEAN]
      /\ toServer'[k] \in {toServer[k], <<>>}
      /\ \A l \in Conns \ {k} : toServer'[l] = toServer[l]
  BY Zenon, <1>1, CloseServerOne
<1>4. /\ <<>> \in Seq(Frame) /\ Len(<<>>) <= maxInFlightPerConn /\ 0 \in 0 .. maxAuthFailures
      /\ 0 < maxAuthFailures
  BY SMT, Limits
<1>5. WireOK'
  BY Zenon, <1>1, <1>3 DEF WireOK
<1>6. ServerOK'
  <2>1. \A l \in Conns : Len(resCh'[l]) <= maxInFlightPerConn
    BY Zenon, <1>1, <1>2, <1>4 DEF ServerOK
  <2>2. /\ serve' \in [Conns -> {"none", "backlog", "ended"} \cup Serving]
        /\ principal' \in [Conns -> BOOLEAN] /\ writer' \in [Conns -> BOOLEAN]
    BY Zenon, <1>1 DEF ServerOK
  <2>3. resCh' \in [Conns -> Seq(Frame)] /\ failures' \in [Conns -> 0 .. maxAuthFailures]
    BY Zenon, <1>1, <1>4 DEF ServerOK
  <2> QED BY Zenon, <1>1, <2>1, <2>2, <2>3 DEF ServerOK
<1>7. Elsewhere(k)
  BY Zenon, <1>1, <1>2, <1>3 DEF Elsewhere
<1>8. InOne(k)' /\ \A c \in Msgs : Requested(k, c)' => Requested(k, c)
  BY Zenon, <1>1, <1>3, InOneLess DEF Sole
<1>9. \A c \in Msgs : Confirmed(k, c)' => Confirmed(k, c)
  BY Zenon, <1>1, <1>2, InEmpty DEF Confirmed, Yes
<1>10. Served(k)'
  BY Zenon, <1>1, <1>2, <1>4 DEF Serves, Served
<1>11. serve'[k] \notin Serving
  BY Zenon, <1>2 DEF Serving
<1> QED BY Zenon, <1>1, <1>2, <1>5, <1>6, <1>7, <1>8, <1>9, <1>10, <1>11, OneConn

LEMMA StepCut ==
    ASSUME IInv, NEW k \in Conns, Cut(k)
    PROVE  IInv'
<1> USE Parts
<1>1. /\ copen' = [copen EXCEPT ![k] = FALSE] /\ sopen' = [sopen EXCEPT ![k] = FALSE]
      /\ toServer' = [toServer EXCEPT ![k] = <<>>] /\ toClient' = [toClient EXCEPT ![k] = <<>>]
      /\ UNCHANGED <<mode, producer, client, reader, applied>> /\ Fault("cut")
      /\ UNCHANGED <<serve, principal, failures, handling, held, sending, resCh, writer, run>>
  BY Zenon DEF Cut, server
<1>2. /\ toServer'[k] = <<>> /\ toClient'[k] = <<>>
      /\ \A l \in Conns \ {k} : toServer'[l] = toServer[l] /\ toClient'[l] = toClient[l]
  BY Zenon, <1>1 DEF WireOK
<1>3. <<>> \in Seq(Frame) /\ <<>> \in Seq(Msgs \cup {AUTH})
  BY SMT
<1>4. WireOK'
  BY Zenon, <1>1, <1>3 DEF WireOK
<1>5. ServerOK'
  BY Zenon, <1>1 DEF ServerOK
<1>6. Serves'
  <2>1. ~faults'.slow => ~faults.slow
    BY Zenon, <1>1, FaultsKept DEF IInv
  <2> QED BY Zenon, <1>1, <2>1, ServesKept
<1>7. Elsewhere(k)
  BY Zenon, <1>1, <1>2 DEF Elsewhere
<1>8. InOne(k)' /\ \A c \in Msgs : Requested(k, c)' => Requested(k, c)
  BY Zenon, <1>1, <1>2, InOneLess DEF Sole
<1>9. \A c \in Msgs : Confirmed(k, c)' => Confirmed(k, c)
  BY Zenon, <1>1, <1>2, InEmpty DEF Confirmed, Yes
<1>10. \A l \in Conns, c \in Msgs : /\ Requested(l, c)' => Requested(l, c)
                                    /\ Confirmed(l, c)' => Confirmed(l, c)
  BY Zenon, <1>7, <1>8, <1>9, ElsewhereWire
<1>11. Sole'
  BY Zenon, <1>7, <1>8, SoleFrom
<1>12. \A l \in Conns : principal'[l] => mode.creds \in {"good", "reader"}
  BY Zenon, <1>1 DEF Access
<1>13. run' \in {"up", "draining", "forced", "returned", "stopped"}
  BY Zenon, <1>1 DEF RestOK
<1> QED BY Zenon, <1>1, <1>4, <1>5, <1>6, <1>10, <1>11, <1>12, <1>13, ServerStep

-----------------------------------------------------------------------------
(* Shutdown, and the handlers.                                              *)

LEMMA RunSteps ==
    ASSUME IInv, RunStep, UNCHANGED <<sopen, toServer>> \/ CloseServer(Tracked),
           run' \in {"up", "draining", "forced", "returned", "stopped"},
           UNCHANGED faults \/ \E x : Fault(x), Still'
    PROVE  IInv'
<1> USE Parts
<1>1. /\ UNCHANGED <<mode, producer, client, reader, applied>> /\ UNCHANGED <<toClient, copen>>
      /\ UNCHANGED <<serve, principal, failures, handling, held, sending, resCh, writer>>
  BY Zenon DEF RunStep, server
<1>2. /\ sopen' \in [Conns -> BOOLEAN] /\ toServer' \in [Conns -> Seq(Msgs \cup {AUTH})]
      /\ \A k \in Conns : toServer'[k] \in {toServer[k], <<>>}
  <2>1. CASE UNCHANGED <<sopen, toServer>>
    BY Zenon, <2>1 DEF WireOK
  <2>2. CASE CloseServer(Tracked)
    <3>1. /\ sopen' = [k \in Conns |-> sopen[k] /\ k \notin Tracked]
          /\ toServer' = [k \in Conns |-> IF k \in Tracked THEN <<>> ELSE toServer[k]]
      BY Zenon, <2>2 DEF CloseServer
    <3>2. toServer' \in [Conns -> Seq(Msgs \cup {AUTH})]
      BY SMT, <3>1 DEF WireOK
    <3> QED BY Zenon, <3>1, <3>2
  <2> QED BY Zenon, <2>1, <2>2
<1>3. WireOK' /\ ServerOK'
  BY Zenon, <1>1, <1>2 DEF WireOK, ServerOK
<1>4. \A k \in Conns : InOne(k)' /\ \A c \in Msgs : Requested(k, c)' => Requested(k, c)
  BY Zenon, <1>1, <1>2, InOneLess DEF Sole
<1>5. \A k \in Conns, c \in Msgs : Confirmed(k, c)' => Confirmed(k, c)
  BY Zenon, <1>1 DEF Confirmed, Yes
<1>6. Sole'
  BY Zenon, <1>4 DEF Sole
<1>7. Serves'
  BY Zenon, <1>1 DEF Serves, Served
<1>8. \A l \in Conns : principal'[l] => mode.creds \in {"good", "reader"}
  BY Zenon, <1>1 DEF Access
<1> QED BY Zenon, <1>1, <1>3, <1>4, <1>5, <1>6, <1>7, <1>8, ServerStep

LEMMA StepShutdown ==
    ASSUME IInv, Shutdown \/ drained \/ drainDeadline \/ giveUp \/ closeWriters
    PROVE  IInv'
<1> USE Parts
<1>1. CASE Shutdown
  <2>1. Still'
    BY Zenon, <1>1 DEF Shutdown, Still
  <2> QED BY Zenon, <1>1, <2>1, RunSteps DEF Shutdown
<1>2. CASE drained
  <2>1. Still'
    BY Zenon, <1>2 DEF drained, Still, Tracked, RunStep, server
  <2> QED BY Zenon, <1>2, <2>1, RunSteps DEF drained, NoFault
<1>3. CASE drainDeadline
  <2>1. Still'
    BY Zenon, <1>3 DEF drainDeadline, Still
  <2> QED BY Zenon, <1>3, <2>1, RunSteps DEF drainDeadline, NoFault
<1>4. CASE giveUp
  <2>1. /\ RunStep /\ run' = "returned" /\ UNCHANGED <<sopen, toServer>>
        /\ (\A k \in Tracked : Stuck(k)) \/ Fault("slow")
        /\ UNCHANGED faults \/ Fault("slow")
    BY Zenon, <1>4 DEF giveUp, NoFault
  <2>2. UNCHANGED <<serve, handling, sending, resCh, writer>>
    BY Zenon, <2>1 DEF RunStep, server
  <2>3. Still'
    <3>1. CASE \A k \in Tracked : Stuck(k)
      BY Zenon, <2>2, <3>1 DEF Still, Tracked, Stuck, Jammed
    <3>2. CASE Fault("slow")
      <4> DEFINE b == faults.slow \/ "slow" = "slow"
      <4>1. faults' = [count |-> faults.count + 1, slow |-> b] /\ b
        BY Zenon, <3>2 DEF Fault
      <4> HIDE DEF b
      <4>2. faults'.slow = b
        BY Zenon, <4>1
      <4> QED BY Zenon, <4>1, <4>2 DEF Still
    <3> QED BY Zenon, <2>1, <3>1, <3>2
  <2> QED BY Zenon, <2>1, <2>3, RunSteps
<1>5. CASE closeWriters
  <2>1. RunStep /\ run = "returned" /\ run' = "stopped" /\ UNCHANGED <<sopen, toServer>> /\ UNCHANGED faults
    BY Zenon, <1>5 DEF closeWriters, NoFault
  <2>2. UNCHANGED <<serve, handling, sending, resCh, writer>>
    BY Zenon, <2>1 DEF RunStep, server
  <2>3. Still'
    BY Zenon, <2>1, <2>2 DEF Serves, Still, Tracked, Stuck, Jammed
  <2> QED BY Zenon, <2>1, <2>3, RunSteps
<1> QED BY Zenon, <1>1, <1>2, <1>3, <1>4, <1>5

\* What a handler's answer does to its connection.
LEMMA Answers ==
    ASSUME IInv, NEW k \in Conns, NEW f \in handling[k], NEW ok \in BOOLEAN, Answer(k, f, ok),
           UNCHANGED <<wire, serve, principal, failures, held, resCh, writer>>
    PROVE  /\ WireOK' /\ ServerOK' /\ Elsewhere(k) /\ InOne(k)' /\ Served(k)'
           /\ serve[k] \in Serving /\ ~Stuck(k) /\ f \in Msgs \cup {AUTH}
           /\ \A c \in Msgs : /\ Requested(k, c)' => Requested(k, c) /\ c # f
                              /\ Confirmed(k, c)' => Confirmed(k, c) \/ (c = f /\ ok)
<1> USE Parts
<1> DEFINE r == [id |-> f, ok |-> ok]
<1>1. /\ handling' = [handling EXCEPT ![k] = @ \ {f}] /\ sending' = [sending EXCEPT ![k] = @ \cup {r}]
      /\ UNCHANGED <<toServer, toClient, copen, sopen, serve, principal, failures, held, resCh, writer>>
  BY Zenon DEF Answer, wire
<1>2. Served(k) /\ InOne(k) /\ handling[k] \subseteq Msgs \cup {AUTH} /\ sending[k] \subseteq Frame
  BY Zenon DEF Serves, Sole, ServerOK
<1>3. r \in Frame /\ \A c \in Msgs : Yes(c) = r => c = f /\ ok
  BY SMT, <1>2 DEF Frame, Yes
<1> HIDE DEF r
<1>4. /\ handling'[k] = handling[k] \ {f} /\ sending'[k] = sending[k] \cup {r}
      /\ \A l \in Conns \ {k} : handling'[l] = handling[l] /\ sending'[l] = sending[l]
  BY Zenon, <1>1 DEF ServerOK
<1>5. handling' \in [Conns -> SUBSET (Msgs \cup {AUTH})] /\ sending' \in [Conns -> SUBSET Frame]
  <2>1. handling[k] \ {f} \in SUBSET (Msgs \cup {AUTH}) /\ sending[k] \cup {r} \in SUBSET Frame
    BY Zenon, <1>2, <1>3
  <2> QED BY Zenon, <1>1, <2>1 DEF ServerOK
<1>6. WireOK'
  BY Zenon, <1>1 DEF WireOK
<1>7. ServerOK'
  <2>1. \A l \in Conns : Len(resCh'[l]) <= maxInFlightPerConn
    BY Zenon, <1>1, <1>4 DEF ServerOK
  <2> QED BY Zenon, <1>1, <1>5, <2>1 DEF ServerOK
<1>8. Elsewhere(k)
  BY Zenon, <1>1, <1>4 DEF Elsewhere
<1>9. serve[k] \in Serving /\ ~Stuck(k)
  BY Zenon, <1>2 DEF Served, Stuck
<1>10. InOne(k)'
  BY Zenon, <1>1, <1>2, <1>4 DEF InOne
<1>11. Served(k)'
  BY Zenon, <1>1, <1>2, <1>9 DEF Served
<1>12. ASSUME NEW c \in Msgs
       PROVE  /\ Requested(k, c)' => Requested(k, c) /\ c # f
              /\ Confirmed(k, c)' => Confirmed(k, c) \/ (c = f /\ ok)
  <2>1. Requested(k, c)' => Requested(k, c) /\ c # f
    BY Zenon, <1>1, <1>2, <1>4 DEF Requested, InOne
  <2>2. Confirmed(k, c)' => Confirmed(k, c) \/ (c = f /\ ok)
    BY Zenon, <1>1, <1>3, <1>4 DEF Confirmed, Yes
  <2> QED BY Zenon, <2>1, <2>2
<1> QED BY Zenon, <1>2, <1>6, <1>7, <1>8, <1>9, <1>10, <1>11, <1>12

LEMMA StepDispatch ==
    ASSUME IInv, NEW k \in Conns, NEW f \in handling[k], dispatch(k, f)
    PROVE  IInv'
<1> USE Parts
<1>1. /\ UNCHANGED <<mode, producer, client, reader, run>>
      /\ UNCHANGED <<wire, serve, principal, failures, held, resCh, writer>>
      /\ UNCHANGED faults \/ Fault("backend")
  BY Zenon DEF dispatch, NoFault
<1>2. \/ UNCHANGED applied /\ \E ok \in BOOLEAN : Answer(k, f, ok) /\ (f # AUTH => ok = FALSE)
      \/ /\ f # AUTH /\ authorize(k)
         /\ applied' = [m \in Msgs |-> applied[m] + (IF m \in riders[f] THEN 1 ELSE 0)]
         /\ \E ok \in BOOLEAN : Answer(k, f, ok)
  BY Zenon DEF dispatch
<1>3. CASE UNCHANGED applied /\ \E ok \in BOOLEAN : Answer(k, f, ok) /\ (f # AUTH => ok = FALSE)
  <2> PICK ok \in BOOLEAN : Answer(k, f, ok) /\ (f # AUTH => ok = FALSE)
    BY Zenon, <1>3
  <2>1. /\ WireOK' /\ ServerOK' /\ Elsewhere(k) /\ InOne(k)' /\ Served(k)'
        /\ serve[k] \in Serving /\ ~Stuck(k)
        /\ \A c \in Msgs : /\ Requested(k, c)' => Requested(k, c)
                           /\ Confirmed(k, c)' => Confirmed(k, c) \/ (c = f /\ ok)
    BY Zenon, <1>1, Answers
  <2>2. \A c \in Msgs : Confirmed(k, c)' => Confirmed(k, c)
    BY Zenon, <2>1, Limits
  <2>3. principal'[k] => mode.creds \in {"good", "reader"}
    BY Zenon, <1>1 DEF Access
  <2> QED BY Zenon, <1>1, <1>3, <2>1, <2>2, <2>3, OneConn
<1>4. CASE /\ f # AUTH /\ authorize(k)
           /\ applied' = [m \in Msgs |-> applied[m] + (IF m \in riders[f] THEN 1 ELSE 0)]
           /\ \E ok \in BOOLEAN : Answer(k, f, ok)
  <2> PICK ok \in BOOLEAN : Answer(k, f, ok)
    BY Zenon, <1>4
  <2>1. /\ WireOK' /\ ServerOK' /\ Elsewhere(k) /\ InOne(k)' /\ Served(k)'
        /\ serve[k] \in Serving /\ ~Stuck(k) /\ f \in Msgs
        /\ \A c \in Msgs : /\ Requested(k, c)' => Requested(k, c) /\ c # f
                           /\ Confirmed(k, c)' => Confirmed(k, c) \/ c = f
    BY Zenon, <1>1, <1>4, Answers
  <2>2. UNCHANGED <<mode, reader, run, batch, batchCh, intake, pc, res, riders, at, conn, pending, closed>>
    BY Zenon, <1>1 DEF producer, client
  <2>3. Sent(f) /\ Untried(f) /\ Requested(k, f)
    BY Zenon, <2>1 DEF Wired, Requested
  <2>4. /\ \A m \in Msgs : m \in riders[f] => applied[m] = 0 /\ applied'[m] = 1
        /\ \A m \in Msgs : m \notin riders[f] => applied'[m] = applied[m]
        /\ applied' \in [Msgs -> Nat]
    <3>1. \A m \in riders[f] : applied[m] = 0
      BY Zenon, <2>3 DEF Untried
    <3> QED BY SMT, <1>4, <3>1 DEF RestOK
  <2>5. TypeOK'
    <3>1. faults' \in [count : 0 .. mode'.faults, slow : BOOLEAN]
      BY Zenon, <1>1, FaultsKept DEF IInv
    <3>2. ClientOK' /\ ProducerOK'
      BY Zenon, <2>2 DEF ClientOK, ProducerOK
    <3>3. RestOK'
      BY Zenon, <2>2, <2>4, <3>1 DEF RestOK
    <3> QED BY Zenon, <2>1, <3>2, <3>3, Types2
  <2>6. Carriage'
    BY Zenon, <2>2 DEF Carriage
  <2>7. ASSUME NEW d \in Msgs, d # f PROVE (Untried(d) => Untried(d)') /\ (Tried(d) => Tried(d)')
    <3>1. \A m \in riders[d] : m \in Msgs /\ m \notin riders[f]
      BY Zenon, <2>1, <2>7 DEF Carriage, ClientOK
    <3> QED BY Zenon, <2>2, <2>4, <3>1 DEF Untried, Tried
  <2>8. Tried(f)'
    <3>1. riders[f] \subseteq Msgs
      BY Zenon, <2>1 DEF ClientOK
    <3> QED BY Zenon, <2>2, <2>4, <3>1 DEF Tried
  <2>9. \A m \in Msgs : Sent(m)' <=> Sent(m)
    BY Zenon, <2>2 DEF Sent
  <2>10. Wired'
    <3> SUFFICES ASSUME NEW l \in Conns, NEW c \in Msgs
                 PROVE  /\ Requested(l, c)' => Sent(c)' /\ Untried(c)'
                        /\ Confirmed(l, c)' => Sent(c)' /\ Tried(c)'
      BY Zenon DEF Wired
    <3>1. Requested(l, c)' => Requested(l, c) /\ c # f
      <4>1. CASE l = k
        BY Zenon, <2>1, <4>1
      <4>2. CASE l # k
        BY Zenon, <2>1, <2>3, <4>2, ElsewhereWire DEF Sole
      <4> QED BY Zenon, <4>1, <4>2
    <3>2. Confirmed(l, c)' => Confirmed(l, c) \/ c = f
      BY Zenon, <2>1, ElsewhereWire
    <3> QED BY Zenon, <2>3, <2>7, <2>8, <2>9, <3>1, <3>2 DEF Wired
  <2>11. Executed'
    <3> SUFFICES ASSUME NEW c \in Msgs
                 PROVE  /\ pc'[c] \in Calling \ {"wait"} => Untried(c)'
                        /\ pc'[c] \in Early => applied'[c] = 0
                        /\ applied'[c] \in {0, 1}
                        /\ res'[c] = "ok" => applied'[c] = 1
      BY Zenon DEF Executed
    <3>1. pc'[c] \in Calling \ {"wait"} => Untried(c)'
      <4>1. pc[c] \in Calling \ {"wait"} => c # f
        BY Zenon, <2>3 DEF Sent, Calling
      <4> QED BY Zenon, <2>2, <2>7, <4>1 DEF Executed
    <3>2. pc'[c] \in Early => applied'[c] = 0
      BY Zenon, <2>1, <2>2, <2>4 DEF Executed, Carriage
    <3>3. applied'[c] \in {0, 1} /\ (res'[c] = "ok" => applied'[c] = 1)
      BY Zenon, <2>2, <2>4 DEF Executed
    <3> QED BY Zenon, <3>1, <3>2, <3>3
  <2>12. Sole'
    BY Zenon, <2>1, SoleFrom
  <2>13. Access'
    <3>1. UNCHANGED principal
      BY Zenon, <1>1
    <3>2. ~(mode.auth /\ mode.creds # "good")
      BY Zenon, <1>4 DEF authorize, Access
    <3> QED BY Zenon, <2>2, <3>1, <3>2 DEF Access
  <2>14. Serves'
    <3>1. ~faults'.slow => ~faults.slow
      BY Zenon, <1>1, FaultsKept DEF IInv
    <3> QED BY Zenon, <2>1, <2>2, <3>1, ServesFrom
  <2> QED BY Zenon, <2>5, <2>6, <2>10, <2>11, <2>12, <2>13, <2>14 DEF IInv
<1> QED BY Zenon, <1>2, <1>3, <1>4

-----------------------------------------------------------------------------
(* Steps that put a request or a connection in place.                       *)

LEMMA StepWrite ==
    ASSUME IInv, NEW c \in Msgs, write(c), NEW k, k = at[c]
    PROVE  IInv'
<1> USE Parts
<1>1. /\ pc[c] = "write"
      /\ UNCHANGED <<mode, producer, riders, sopen, server, run, applied>> /\ UNCHANGED <<closed, reader>>
  BY Zenon DEF write
<1>2. /\ pc[c] \in Calling \ {"wait"} /\ "wait" \in Calling /\ pc[c] \in Seated /\ {c} \in SUBSET Msgs
  BY Zenon, <1>1 DEF Calling, Seated
<1>3. k \in Conns
  BY Zenon, <1>2 DEF Carriage
<1>4. reader' \in [Conns -> {"none", "on", "swept", "off"}] /\ closed' \in BOOLEAN /\ pending \subseteq Msgs
  BY Zenon, <1>1 DEF RestOK, ClientOK
<1>5. CASE /\ dropConn(c) /\ UNCHANGED toServer
           /\ UNCHANGED faults \/ Fault("stall")
  <2>1. CASE conn' = None /\ CloseClient({k}) /\ FailPending(pending \cup {c})
    <3>1. Return(pending \cup {c}, "error") /\ pending' \subseteq pending /\ pending \cup {c} \in SUBSET Msgs
      BY Zenon, <1>4, <2>1 DEF FailPending
    <3>2. Receives /\ copen' \in [Conns -> BOOLEAN]
      BY Zenon, <2>1, CloseReceives
    <3> QED BY Zenon, <1>1, <1>4, <1>5, <2>1, <3>1, <3>2, ReturnStep
  <2>2. CASE UNCHANGED <<conn, copen, toClient>> /\ FailPending({c})
    <3>1. Return({c}, "error") /\ pending' \subseteq pending
      BY Zenon, <2>2 DEF FailPending
    <3>2. Receives /\ copen' \in [Conns -> BOOLEAN]
      BY Zenon, <2>2, KeepReceives
    <3> QED BY Zenon, <1>1, <1>2, <1>4, <1>5, <2>2, <3>1, <3>2, ReturnStep
  <2> QED BY Zenon, <1>5, <2>1, <2>2 DEF dropConn
<1>6. CASE /\ toServer' = IF sopen[k] THEN [toServer EXCEPT ![k] = Append(@, c)] ELSE toServer
           /\ Move(c, "wait", k) /\ UNCHANGED <<conn, pending, copen, toClient>> /\ NoFault
  <2>1. /\ Settles
        /\ pc' \in [Msgs -> Calling \cup {"idle", "queued", "batched", "riding", "done"}]
        /\ res' \in [Msgs -> {"none", "ok", "error", "closed", "timeout"}]
        /\ at' \in [Msgs -> Conns \cup {None}]
    BY Zenon, <1>2, <1>3, <1>6, MoveSettles
  <2>2. ClientOK'
    BY Zenon, <1>1, <1>6, <2>1 DEF ClientOK
  <2>3. CASE UNCHANGED toServer
    <3>1. Receives /\ copen' \in [Conns -> BOOLEAN]
      BY Zenon, <1>6, KeepReceives
    <3> QED BY Zenon, <1>1, <1>4, <1>6, <2>1, <2>2, <2>3, <3>1, ClientStep DEF NoFault
  <2>4. CASE toServer' = [toServer EXCEPT ![k] = Append(@, c)]
    <3>1. /\ UNCHANGED <<mode, riders, batch, batchCh, intake, sopen, run, applied, faults, reader, copen, toClient>>
          /\ UNCHANGED <<serve, principal, failures, handling, held, sending, resCh, writer>>
      BY Zenon, <1>1, <1>6 DEF producer, server, NoFault
    <3>2. Carriage' /\ Executed' /\ \A m \in Msgs : Sent(m) => Sent(m)'
      BY Zenon, <2>1, <3>1, CallsKept
    <3>3. toServer[k] \in Seq(Msgs \cup {AUTH}) /\ c \in Msgs \cup {AUTH}
      BY Zenon, <1>3 DEF WireOK
    <3>4. /\ Append(toServer[k], c) \in Seq(Msgs \cup {AUTH})
          /\ \A y : In(y, Append(toServer[k], c)) <=> In(y, toServer[k]) \/ y = c
      BY SMT, <3>3, InAppend
    <3>5. /\ toServer'[k] = Append(toServer[k], c) /\ toServer' \in [Conns -> Seq(Msgs \cup {AUTH})]
          /\ \A l \in Conns \ {k} : toServer'[l] = toServer[l]
      BY Zenon, <1>3, <2>4, <3>4 DEF WireOK
    <3>6. TypeOK'
      <4>1. ProducerOK' /\ ServerOK' /\ RestOK'
        BY Zenon, <3>1 DEF ProducerOK, ServerOK, RestOK
      <4>2. WireOK'
        BY Zenon, <3>1, <3>5 DEF WireOK
      <4> QED BY Zenon, <2>2, <4>1, <4>2, Types2
    <3>7. \A l \in Conns : ~Requested(l, c)
      BY Zenon, <1>1 DEF Wired, Sent
    <3>8. Elsewhere(k)
      BY Zenon, <3>1, <3>5 DEF Elsewhere
    <3>9. \A d \in Msgs : Requested(k, d)' => Requested(k, d) \/ d = c
      BY Zenon, <3>1, <3>4, <3>5 DEF Requested
    <3>10. InOne(k)'
      <4>1. InOne(k) /\ ~Requested(k, c)
        BY Zenon, <1>3, <3>7 DEF Sole
      <4>2. ASSUME NEW d \in Msgs
            PROVE  \A i, j \in DOMAIN toServer'[k] : toServer'[k][i] = d /\ toServer'[k][j] = d => i = j
        <5>1. ~In(c, toServer[k]) /\ \A i, j \in DOMAIN toServer[k] : toServer[k][i] = d /\ toServer[k][j] = d => i = j
          BY Zenon, <4>1 DEF InOne, Requested
        <5> DEFINE s == toServer[k]
                   S == Msgs \cup {AUTH}
        <5>2. /\ s \in Seq(S) /\ c \in S /\ ~In(c, s) /\ toServer'[k] = Append(s, c)
              /\ \A i, j \in DOMAIN s : s[i] = d /\ s[j] = d => i = j
          BY Zenon, <3>3, <3>5, <5>1
        <5> HIDE DEF s, S
        <5>3. \A i, j \in DOMAIN Append(s, c) : Append(s, c)[i] = d /\ Append(s, c)[j] = d => i = j
          BY Zenon, <5>2, OneMore
        <5> QED BY Zenon, <5>2, <5>3
      <4>3. ASSUME NEW d \in Msgs
            PROVE  /\ In(d, toServer'[k]) => held'[k] # d /\ d \notin handling'[k]
                   /\ held'[k] = d => d \notin handling'[k]
        BY Zenon, <3>1, <3>4, <3>5, <4>1 DEF InOne, Requested
      <4> QED BY Zenon, <4>2, <4>3 DEF InOne
    <3>11. Sole'
      BY Zenon, <1>3, <3>7, <3>8, <3>9, <3>10, SoleFrom
    <3>12. Wired'
      <4>1. Sent(c)' /\ Untried(c)'
        <5>1. pc'[c] = "wait"
          BY Zenon, <1>6 DEF Move, Goto, ClientOK
        <5>2. Untried(c)
          BY Zenon, <1>2 DEF Executed
        <5> QED BY Zenon, <3>1, <5>1, <5>2 DEF Sent, Untried
      <4> SUFFICES ASSUME NEW l \in Conns, NEW d \in Msgs
                   PROVE  /\ Requested(l, d)' => Sent(d)' /\ Untried(d)'
                          /\ Confirmed(l, d)' => Sent(d)' /\ Tried(d)'
        BY Zenon DEF Wired
      <4>2. Requested(l, d)' => Requested(l, d) \/ d = c
        BY Zenon, <1>3, <3>8, <3>9, ElsewhereWire
      <4>3. Confirmed(l, d)' => Confirmed(l, d)
        BY Zenon, <3>1 DEF Confirmed, Yes
      <4>4. (Untried(d) => Untried(d)') /\ (Tried(d) => Tried(d)')
        BY Zenon, <3>1 DEF Untried, Tried
      <4> QED BY Zenon, <3>2, <4>1, <4>2, <4>3, <4>4 DEF Wired
    <3>13. Access' /\ Serves'
      BY Zenon, <3>1, AccessKept, ServesKept
    <3> QED BY Zenon, <3>2, <3>6, <3>11, <3>12, <3>13 DEF IInv
  <2> QED BY Zenon, <1>6, <2>3, <2>4
<1> QED BY Zenon, <1>5, <1>6 DEF write, NoFault

LEMMA DialNext ==
    ASSUME Undialled # {}
    PROVE  \E k \in Undialled : k = (CHOOSE j \in Undialled : TRUE)
BY Zenon

LEMMA StepEnsureConnected ==
    ASSUME IInv, NEW c \in Msgs, ensureConnected(c)
    PROVE  IInv'
<1> USE Parts
<1>1. /\ pc[c] = "ensure"
      /\ UNCHANGED <<mode, producer, riders, conn, pending, closed, reader, principal, failures,
                     handling, held, sending, resCh, writer, run, applied, faults>>
  BY Zenon DEF ensureConnected
<1>2. /\ pc[c] \in Calling \ {"wait"} /\ {"register", "install", "auth"} \subseteq Calling /\ {c} \in SUBSET Msgs
  BY Zenon, <1>1 DEF Calling
<1>3. reader' \in [Conns -> {"none", "on", "swept", "off"}]
  BY Zenon, <1>1 DEF RestOK
<1>4. CASE UNCHANGED <<wire, serve>> /\ ((conn # None /\ Move(c, "register", conn)) \/ Return({c}, "closed"))
  <2>1. UNCHANGED <<toServer, toClient, copen, sopen, server>>
    BY Zenon, <1>1, <1>4 DEF wire, server
  <2>2. Receives /\ copen' \in [Conns -> BOOLEAN]
    BY Zenon, <2>1, KeepReceives
  <2>3. /\ Settles
        /\ pc' \in [Msgs -> Calling \cup {"idle", "queued", "batched", "riding", "done"}]
        /\ res' \in [Msgs -> {"none", "ok", "error", "closed", "timeout"}]
        /\ at' \in [Msgs -> Conns \cup {None}]
    <3>1. CASE Return({c}, "closed")
      BY Zenon, <1>2, <3>1, ReturnSettles
    <3>2. CASE conn # None /\ Move(c, "register", conn)
      <4>1. conn \in Conns
        BY Zenon, <3>2 DEF ClientOK
      <4> QED BY Zenon, <1>2, <3>2, <4>1, MoveSettles
    <3> QED BY Zenon, <1>4, <3>1, <3>2
  <2>4. ClientOK'
    BY Zenon, <1>1, <2>3 DEF ClientOK
  <2> QED BY Zenon, <1>1, <1>3, <2>1, <2>2, <2>3, <2>4, ClientStep
<1>5. ASSUME NEW k \in Undialled, run = "up",
             Move(c, IF mode.creds = "none" THEN "install" ELSE "auth", k),
             serve' = [serve EXCEPT ![k] = "backlog"],
             copen' = [copen EXCEPT ![k] = TRUE], sopen' = [sopen EXCEPT ![k] = TRUE],
             toServer' = [toServer EXCEPT ![k] = IF mode.creds = "none" THEN @ ELSE Append(@, AUTH)],
             UNCHANGED toClient
      PROVE  IInv'
  <2>1. k \in Conns /\ serve[k] = "none"
    BY SMT, <1>5, ModesAssumption, DialsAssumption DEF Undialled, RestOK, Conns
  <2>2. /\ Settles
        /\ pc' \in [Msgs -> Calling \cup {"idle", "queued", "batched", "riding", "done"}]
        /\ res' \in [Msgs -> {"none", "ok", "error", "closed", "timeout"}]
        /\ at' \in [Msgs -> Conns \cup {None}]
    BY Zenon, <1>2, <1>5, <2>1, MoveSettles
  <2>3. /\ UNCHANGED <<mode, riders, batch, batchCh, intake, run, applied, faults, reader, conn, pending, closed>>
        /\ UNCHANGED <<principal, failures, handling, held, sending, resCh, writer>>
    BY Zenon, <1>1 DEF producer
  <2>4. Carriage' /\ Executed' /\ \A m \in Msgs : Sent(m) => Sent(m)'
    BY Zenon, <2>2, <2>3, CallsKept
  <2>5. toServer[k] \in Seq(Msgs \cup {AUTH}) /\ AUTH \in Msgs \cup {AUTH} /\ AUTH \notin Msgs
    BY Zenon, <2>1, Limits DEF WireOK
  <2>6. /\ toServer'[k] \in {toServer[k], Append(toServer[k], AUTH)}
        /\ \A l \in Conns \ {k} : toServer'[l] = toServer[l]
        /\ serve'[k] = "backlog" /\ \A l \in Conns \ {k} : serve'[l] = serve[l]
    BY Zenon, <1>5, <2>1 DEF WireOK, ServerOK
  <2>7. /\ Append(toServer[k], AUTH) \in Seq(Msgs \cup {AUTH})
        /\ \A y : In(y, Append(toServer[k], AUTH)) <=> In(y, toServer[k]) \/ y = AUTH
    BY SMT, <2>5, InAppend
  <2>8. \A d \in Msgs : In(d, toServer'[k]) => In(d, toServer[k])
    BY Zenon, <2>5, <2>6, <2>7
  <2>9. TypeOK'
    <3>1. ClientOK' /\ ProducerOK' /\ RestOK'
      BY Zenon, <2>2, <2>3 DEF ClientOK, ProducerOK, RestOK
    <3>2. /\ toServer' \in [Conns -> Seq(Msgs \cup {AUTH})]
          /\ copen' \in [Conns -> BOOLEAN] /\ sopen' \in [Conns -> BOOLEAN]
      BY Zenon, <1>5, <2>5, <2>7 DEF WireOK
    <3>3. WireOK'
      BY Zenon, <1>5, <3>2 DEF WireOK
    <3>4. ServerOK'
      <4>1. serve' \in [Conns -> {"none", "backlog", "ended"} \cup Serving]
        BY Zenon, <1>5 DEF ServerOK
      <4> QED BY Zenon, <2>3, <4>1 DEF ServerOK
    <3> QED BY Zenon, <3>1, <3>3, <3>4, Types2
  <2>10. Elsewhere(k)
    BY Zenon, <1>5, <2>3, <2>6 DEF Elsewhere
  <2>11. \A d \in Msgs : /\ Requested(k, d)' => Requested(k, d)
                         /\ Confirmed(k, d)' => Confirmed(k, d)
    BY Zenon, <1>5, <2>3, <2>8 DEF Requested, Confirmed, Yes
  <2>12. InOne(k)'
    <3>1. InOne(k)
      BY Zenon, <2>1 DEF Sole
    <3>2. ASSUME NEW d \in Msgs
          PROVE  \A i, j \in DOMAIN toServer'[k] : toServer'[k][i] = d /\ toServer'[k][j] = d => i = j
      <4>1. \A i, j \in DOMAIN toServer[k] : toServer[k][i] = d /\ toServer[k][j] = d => i = j
        BY Zenon, <3>1 DEF InOne
      <4>2. CASE toServer'[k] = toServer[k]
        BY Zenon, <4>1, <4>2
      <4>3. CASE toServer'[k] = Append(toServer[k], AUTH)
        <5> DEFINE s == toServer[k]
        <5>1. s \in Seq(Msgs \cup {AUTH}) /\ d # AUTH /\ \A i, j \in DOMAIN s : s[i] = d /\ s[j] = d => i = j
          BY Zenon, <2>5, <4>1
        <5> HIDE DEF s
        <5>2. /\ DOMAIN s = 1 .. Len(s) /\ DOMAIN Append(s, AUTH) = 1 .. Len(s) + 1 /\ Len(s) \in Nat
              /\ \A i \in 1 .. Len(s) : Append(s, AUTH)[i] = s[i]
              /\ Append(s, AUTH)[Len(s) + 1] = AUTH
          BY SMT, <5>1
        <5>3. \A i, j \in DOMAIN Append(s, AUTH) : Append(s, AUTH)[i] = d /\ Append(s, AUTH)[j] = d => i = j
          BY SMT, <5>1, <5>2
        <5> QED BY Zenon, <4>3, <5>3 DEF s
      <4> QED BY Zenon, <2>6, <4>2, <4>3
    <3>3. ASSUME NEW d \in Msgs
          PROVE  /\ In(d, toServer'[k]) => held'[k] # d /\ d \notin handling'[k]
                 /\ held'[k] = d => d \notin handling'[k]
      BY Zenon, <2>3, <2>8, <3>1 DEF InOne
    <3> QED BY Zenon, <3>2, <3>3 DEF InOne
  <2>13. Sole'
    BY Zenon, <2>1, <2>10, <2>11, <2>12, SoleFrom
  <2>14. \A l \in Conns, d \in Msgs : /\ Requested(l, d)' => Requested(l, d)
                                      /\ Confirmed(l, d)' => Confirmed(l, d)
    BY Zenon, <2>1, <2>10, <2>11, ElsewhereWire
  <2>15. Wired'
    BY Zenon, <2>3, <2>4, <2>14, WiredKept
  <2>16. Serves'
    <3>1. Served(k)'
      <4>1. Served(k) /\ serve[k] # "drain" /\ serve[k] \notin Serving /\ serve'[k] # "slot"
        BY Zenon, <2>1, <2>6 DEF Serves, Serving
      <4> QED BY Zenon, <2>3, <4>1 DEF Served
    <3> QED BY Zenon, <1>5, <2>1, <2>3, <2>10, <3>1, ServesFrom
  <2> QED BY Zenon, <2>3, <2>4, <2>9, <2>13, <2>15, <2>16, AccessKept DEF IInv
<1>6. \/ UNCHANGED <<wire, serve>> /\ ((conn # None /\ Move(c, "register", conn)) \/ Return({c}, "closed"))
      \/ /\ Dialable
         /\ LET k == CHOOSE j \in Undialled : TRUE
            IN  /\ Move(c, IF mode.creds = "none" THEN "install" ELSE "auth", k)
                /\ serve' = [serve EXCEPT ![k] = "backlog"]
                /\ copen' = [copen EXCEPT ![k] = TRUE] /\ sopen' = [sopen EXCEPT ![k] = TRUE]
                /\ toServer' = [toServer EXCEPT ![k] = IF mode.creds = "none" THEN @ ELSE Append(@, AUTH)]
         /\ UNCHANGED toClient
  BY Zenon DEF ensureConnected
<1>7. CASE /\ Dialable
           /\ LET k == CHOOSE j \in Undialled : TRUE
              IN  /\ Move(c, IF mode.creds = "none" THEN "install" ELSE "auth", k)
                  /\ serve' = [serve EXCEPT ![k] = "backlog"]
                  /\ copen' = [copen EXCEPT ![k] = TRUE] /\ sopen' = [sopen EXCEPT ![k] = TRUE]
                  /\ toServer' = [toServer EXCEPT ![k] = IF mode.creds = "none" THEN @ ELSE Append(@, AUTH)]
           /\ UNCHANGED toClient
  <2>1. run = "up" /\ Undialled # {} /\ TypeOK
    BY Zenon, <1>7 DEF Dialable, IInv
  <2>2. PICK k \in Undialled : k = (CHOOSE j \in Undialled : TRUE)
    BY Zenon, <2>1, DialNext
  <2> QED BY Zenon, <1>5, <1>7, <2>1, <2>2
<1> QED BY Zenon, <1>4, <1>6, <1>7

-----------------------------------------------------------------------------
(* The producer.                                                            *)

LEMMA ProducerStep ==
    ASSUME IInv, UNCHANGED <<mode, at, conn, pending, closed, wire, reader, server, run, applied>>,
           UNCHANGED faults \/ \E x : Fault(x), ProducerOK',
           pc' \in [Msgs -> Calling \cup {"idle", "queued", "batched", "riding", "done"}],
           res' \in [Msgs -> {"none", "ok", "error", "closed", "timeout"}],
           riders' \in [Msgs -> SUBSET Msgs],
           Carriage', Executed',
           \A c \in Msgs : Sent(c) => Sent(c)' /\ riders'[c] = riders[c]
    PROVE  IInv'
<1> USE Parts
<1>1. /\ UNCHANGED <<mode, at, conn, pending, closed, reader, run, applied, toServer, toClient, copen, sopen>>
      /\ UNCHANGED <<serve, principal, failures, handling, held, sending, resCh, writer>>
  BY Zenon DEF wire, server
<1>2. /\ faults' \in [count : 0 .. mode'.faults, slow : BOOLEAN]
      /\ ~faults'.slow => ~faults.slow
  BY Zenon, FaultsKept, <1>1 DEF IInv
<1>3. TypeOK'
  <2>1. ClientOK' /\ WireOK' /\ ServerOK'
    BY Zenon, <1>1 DEF ClientOK, WireOK, ServerOK
  <2>2. RestOK'
    BY Zenon, <1>1, <1>2 DEF RestOK
  <2> QED BY Zenon, <2>1, <2>2, Types2
<1>4. Wired'
  <2> SUFFICES ASSUME NEW k \in Conns, NEW c \in Msgs
               PROVE  /\ Requested(k, c)' => Sent(c)' /\ Untried(c)'
                      /\ Confirmed(k, c)' => Sent(c)' /\ Tried(c)'
    BY Zenon DEF Wired
  <2>1. (Requested(k, c)' => Requested(k, c)) /\ (Confirmed(k, c)' => Confirmed(k, c))
    BY Zenon, <1>1 DEF Requested, Confirmed, Yes
  <2>2. Sent(c) => (Untried(c) => Untried(c)') /\ (Tried(c) => Tried(c)')
    <3> SUFFICES ASSUME Sent(c) PROVE (Untried(c) => Untried(c)') /\ (Tried(c) => Tried(c)')
      BY Zenon
    <3>1. riders'[c] = riders[c] /\ applied' = applied
      BY Zenon, <1>1
    <3> QED BY SMT, <3>1 DEF Untried, Tried
  <2> QED BY Zenon, <2>1, <2>2 DEF Wired
<1>5. Sole' /\ Access' /\ Serves'
  BY Zenon, <1>1, <1>2, SoleKept, AccessKept, ServesKept
<1> QED BY Zenon, <1>3, <1>4, <1>5 DEF IInv

LEMMA StepIntake ==
    ASSUME IInv, CloseIntake \/ batchDone
    PROVE  IInv'
<1> USE Parts
<1>1. /\ UNCHANGED <<mode, at, conn, pending, closed, wire, reader, server, run, applied>>
      /\ UNCHANGED <<pc, res, riders, batch, batchCh>>
      /\ intake' \in {"closed", "done"} /\ (UNCHANGED faults \/ Fault("close"))
  BY Zenon DEF CloseIntake, batchDone, client
<1>2. ProducerOK'
  BY Zenon, <1>1 DEF ProducerOK
<1>3. /\ pc' \in [Msgs -> Calling \cup {"idle", "queued", "batched", "riding", "done"}]
      /\ res' \in [Msgs -> {"none", "ok", "error", "closed", "timeout"}]
      /\ riders' \in [Msgs -> SUBSET Msgs]
  BY Zenon, <1>1 DEF ClientOK
<1>4. Carriage' /\ Executed'
  BY Zenon, <1>1 DEF Carriage, Executed, Untried
<1>5. \A c \in Msgs : Sent(c) => Sent(c)' /\ riders'[c] = riders[c]
  BY Zenon, <1>1 DEF Sent
<1> QED BY Zenon, <1>1, <1>2, <1>3, <1>4, <1>5, ProducerStep

LEMMA StepSendBatch ==
    ASSUME IInv, NEW m \in Msgs, sendBatch(m)
    PROVE  IInv'
<1> USE Parts
<1>1. /\ UNCHANGED <<mode, at, conn, pending, closed, wire, reader, server, run, applied, faults>>
      /\ UNCHANGED <<batch, batchCh, intake>>
      /\ pc[m] = "idle" /\ riders' = [riders EXCEPT ![m] = {m}]
      /\ \/ pc' = [pc EXCEPT ![m] = "done"] /\ Settle({m}, "closed")
         \/ pc' = [pc EXCEPT ![m] = "ensure"] /\ UNCHANGED res
  BY Zenon DEF sendBatch, Goto, producer
<1>2. /\ pc'[m] \in {"done", "ensure"} /\ riders'[m] = {m}
      /\ \A c \in Msgs \ {m} : pc'[c] = pc[c] /\ riders'[c] = riders[c]
  BY Zenon, <1>1 DEF ClientOK
<1>3. /\ pc' \in [Msgs -> Calling \cup {"idle", "queued", "batched", "riding", "done"}]
      /\ res' \in [Msgs -> {"none", "ok", "error", "closed", "timeout"}]
      /\ riders' \in [Msgs -> SUBSET Msgs]
      /\ \A c \in Msgs : res'[c] = "ok" => res[c] = "ok"
  <2>1. pc' \in [Msgs -> Calling \cup {"idle", "queued", "batched", "riding", "done"}]
    BY SMT, <1>1 DEF ClientOK, Calling
  <2>2. riders' \in [Msgs -> SUBSET Msgs]
    BY SMT, <1>1 DEF ClientOK
  <2>3. /\ res' \in [Msgs -> {"none", "ok", "error", "closed", "timeout"}]
        /\ \A c \in Msgs : res'[c] = "ok" => res[c] = "ok"
    BY SMT, <1>1 DEF ClientOK, Settle
  <2> QED BY Zenon, <2>1, <2>2, <2>3
<1>4. ProducerOK'
  BY Zenon, <1>1 DEF ProducerOK
<1>5. /\ pc[m] \in Early /\ pc[m] \notin {"queued", "batched"} /\ pc'[m] \notin Early /\ pc'[m] \notin Seated
  BY Zenon, <1>1, <1>2 DEF Early, Seated
<1>6. Carriage'
  <2>1. \A c \in Msgs : /\ pc'[c] \in Early => riders'[c] = {}
                        /\ pc'[c] \in Calling => c \in riders'[c]
                        /\ pc'[c] \in Seated => at'[c] \in Conns
    BY Zenon, <1>1, <1>2, <1>5 DEF Carriage
  <2>2. \A c, n \in Msgs : n \in riders'[c] => pc'[n] \notin Early
    <3> SUFFICES ASSUME NEW c \in Msgs, NEW n \in Msgs, n \in riders'[c], n # m PROVE pc'[n] \notin Early
      BY Zenon, <1>5
    <3>1. c # m
      BY SMT, <1>2
    <3> QED BY Zenon, <1>2, <3>1 DEF Carriage
  <2>3. \A c, d, n \in Msgs : n \in riders'[c] /\ n \in riders'[d] => c = d
    <3>1. \A c \in Msgs : m \in riders'[c] => c = m
      BY Zenon, <1>2, <1>5 DEF Carriage
    <3>2. ASSUME NEW c \in Msgs, NEW d \in Msgs, NEW n \in Msgs, n # m,
                 n \in riders'[c], n \in riders'[d]
          PROVE  c = d
      <4>1. c # m /\ d # m
        BY SMT, <1>2, <3>2
      <4> QED BY Zenon, <1>2, <3>2, <4>1 DEF Carriage
    <3> QED BY Zenon, <3>1, <3>2
  <2>4. /\ \A i \in DOMAIN batchCh : batchCh[i] \in Msgs \ {m}
        /\ \A i \in DOMAIN batch : batch[i] \in Msgs \ {m}
    <3>1. /\ \A i \in DOMAIN batchCh : batchCh[i] \in Msgs
          /\ \A i \in DOMAIN batch : batch[i] \in Msgs
      BY SMT DEF ProducerOK
    <3> QED BY Zenon, <1>1, <3>1 DEF Carriage
  <2>5. /\ \A i \in DOMAIN batchCh' : pc'[batchCh'[i]] = "queued"
        /\ \A i, j \in DOMAIN batchCh' : batchCh'[i] = batchCh'[j] => i = j
        /\ \A i \in DOMAIN batch' : pc'[batch'[i]] = "batched"
    <3>1. /\ \A i \in DOMAIN batchCh : pc[batchCh[i]] = "queued"
          /\ \A i, j \in DOMAIN batchCh : batchCh[i] = batchCh[j] => i = j
          /\ \A i \in DOMAIN batch : pc[batch[i]] = "batched"
      BY Zenon DEF Carriage
    <3>2. /\ \A i \in DOMAIN batchCh : pc'[batchCh[i]] = "queued"
          /\ \A i \in DOMAIN batch : pc'[batch[i]] = "batched"
      BY Zenon, <1>2, <2>4, <3>1
    <3> QED BY Zenon, <1>1, <3>1, <3>2
  <2> QED BY Zenon, <2>1, <2>2, <2>3, <2>5 DEF Carriage
<1>7. Executed'
  <2>1. Untried(m)'
    BY Zenon, <1>1, <1>2, <1>5 DEF Untried, Executed
  <2>2. ASSUME NEW c \in Msgs PROVE pc'[c] \in Calling \ {"wait"} => Untried(c)'
    <3>1. CASE c = m
      BY Zenon, <2>1, <3>1
    <3>2. CASE c # m
      BY Zenon, <1>1, <1>2, <3>2 DEF Executed, Untried
    <3> QED BY Zenon, <3>1, <3>2
  <2>3. \A c \in Msgs : /\ pc'[c] \in Early => applied'[c] = 0
                        /\ applied'[c] \in {0, 1}
                        /\ res'[c] = "ok" => applied'[c] = 1
    BY Zenon, <1>1, <1>2, <1>3, <1>5 DEF Executed
  <2> QED BY Zenon, <2>2, <2>3 DEF Executed
<1>8. \A c \in Msgs : Sent(c) => Sent(c)' /\ riders'[c] = riders[c]
  BY Zenon, <1>1, <1>2 DEF Sent
<1> QED BY Zenon, <1>1, <1>3, <1>4, <1>6, <1>7, <1>8, ProducerStep

\* A message waits longer: only where it waits changes.
LEMMA Queues ==
    ASSUME IInv, NEW m \in Msgs, NEW p \in {"queued", "batched"}, pc[m] \in Early, Goto(m, p),
           UNCHANGED <<mode, at, conn, pending, closed, wire, reader, server, run, applied, faults>>,
           UNCHANGED <<res, riders>>, ProducerOK',
           \A i \in DOMAIN batchCh' : pc'[batchCh'[i]] = "queued",
           \A i, j \in DOMAIN batchCh' : batchCh'[i] = batchCh'[j] => i = j,
           \A i \in DOMAIN batch' : pc'[batch'[i]] = "batched"
    PROVE  IInv'
<1> USE Parts
<1>1. /\ pc' \in [Msgs -> Calling \cup {"idle", "queued", "batched", "riding", "done"}]
      /\ pc'[m] = p /\ \A c \in Msgs \ {m} : pc'[c] = pc[c]
  BY SMT DEF Goto, ClientOK
<1>2. p \in Early /\ p \notin Seated /\ p \notin Calling
  BY Zenon DEF Early, Seated, Calling
<1>3. Carriage'
  <2>1. \A c \in Msgs : /\ pc'[c] \in Early => riders'[c] = {}
                        /\ pc'[c] \in Calling => c \in riders'[c]
                        /\ pc'[c] \in Seated => at'[c] \in Conns
    BY Zenon, <1>1, <1>2 DEF Carriage
  <2>2. \A c, n \in Msgs : n \in riders'[c] => pc'[n] \notin Early
    BY Zenon, <1>1, <1>2 DEF Carriage
  <2> QED BY Zenon, <2>1, <2>2 DEF Carriage
<1>4. Executed'
  BY Zenon, <1>1, <1>2 DEF Executed, Untried
<1>5. \A c \in Msgs : Sent(c) => Sent(c)' /\ riders'[c] = riders[c]
  BY Zenon, <1>1, <1>2 DEF Sent, Early
<1>6. /\ res' \in [Msgs -> {"none", "ok", "error", "closed", "timeout"}]
      /\ riders' \in [Msgs -> SUBSET Msgs]
  BY Zenon DEF ClientOK
<1> QED BY Zenon, <1>1, <1>3, <1>4, <1>5, <1>6, ProducerStep

LEMMA StepProduce ==
    ASSUME IInv, NEW m \in Msgs, produce(m)
    PROVE  IInv'
<1> USE Parts
<1>1. /\ UNCHANGED <<mode, at, conn, pending, closed, wire, reader, server, run, applied, faults>>
      /\ UNCHANGED <<res, riders>> /\ UNCHANGED <<batch, intake>>
      /\ pc[m] = "idle" /\ Goto(m, "queued") /\ batchCh' = Append(batchCh, m) /\ Len(batchCh) < flushCount * 4
  BY Zenon DEF produce
<1>2. pc'[m] = "queued" /\ (\A c \in Msgs \ {m} : pc'[c] = pc[c]) /\ pc[m] \in Early
  BY Zenon, <1>1 DEF Goto, ClientOK, Early
<1>3. batchCh \in Seq(Msgs) /\ batch \in Seq(Msgs)
  BY Zenon DEF ProducerOK
<1>4. /\ DOMAIN batchCh = 1 .. Len(batchCh) /\ DOMAIN batchCh' = 1 .. Len(batchCh) + 1 /\ Len(batchCh) \in Nat
      /\ \A i \in 1 .. Len(batchCh) : batchCh'[i] = batchCh[i]
      /\ batchCh'[Len(batchCh) + 1] = m /\ batchCh' \in Seq(Msgs) /\ Len(batchCh') = Len(batchCh) + 1
  <2>1. batchCh' = Append(batchCh, m) /\ batchCh \in Seq(Msgs)
    BY Zenon, <1>1, <1>3
  <2> QED BY SMT, <2>1, AppendFacts
<1>5. /\ \A i \in DOMAIN batchCh : batchCh[i] \in Msgs \ {m}
      /\ \A i \in DOMAIN batch : batch[i] \in Msgs \ {m}
  <2>1. /\ \A i \in DOMAIN batchCh : batchCh[i] \in Msgs
        /\ \A i \in DOMAIN batch : batch[i] \in Msgs
    BY SMT, <1>3
  <2> QED BY Zenon, <1>1, <2>1 DEF Carriage
<1>6. ProducerOK'
  <2>1. Len(batchCh') <= flushCount * 4
    BY SMT, <1>1, <1>4, Limits
  <2> QED BY Zenon, <1>1, <1>4, <2>1 DEF ProducerOK
<1>7. /\ \A i \in DOMAIN batchCh : pc[batchCh[i]] = "queued"
      /\ \A i, j \in DOMAIN batchCh : batchCh[i] = batchCh[j] => i = j
      /\ \A i \in DOMAIN batch : pc[batch[i]] = "batched"
  BY Zenon DEF Carriage
<1>8. \A i \in DOMAIN batchCh' : pc'[batchCh'[i]] = "queued"
  BY SMT, <1>2, <1>4, <1>5, <1>7
<1>9. \A i, j \in DOMAIN batchCh' : batchCh'[i] = batchCh'[j] => i = j
  BY SMT, <1>4, <1>5, <1>7
<1>10. \A i \in DOMAIN batch' : pc'[batch'[i]] = "batched"
  BY Zenon, <1>1, <1>2, <1>5, <1>7
<1> QED BY Zenon, <1>1, <1>2, <1>6, <1>8, <1>9, <1>10, Queues

LEMMA StepBatchLoop ==
    ASSUME IInv, batchLoop
    PROVE  IInv'
<1> USE Parts
<1>1. /\ UNCHANGED <<mode, at, conn, pending, closed, wire, reader, server, run, applied, faults>>
      /\ UNCHANGED <<res, riders>> /\ UNCHANGED intake
      /\ batchCh # <<>> /\ Len(batch) < flushCount /\ batchCh' = Tail(batchCh)
      /\ batch' = Append(batch, Head(batchCh)) /\ Goto(Head(batchCh), "batched")
  BY Zenon DEF batchLoop
<1>2. /\ batchCh \in Seq(Msgs) /\ batch \in Seq(Msgs) /\ Len(batchCh) <= flushCount * 4
  BY Zenon DEF ProducerOK
<1>3. /\ DOMAIN batchCh = 1 .. Len(batchCh) /\ Len(batchCh) \in Nat \ {0} /\ 1 \in DOMAIN batchCh
      /\ DOMAIN batchCh' = 1 .. Len(batchCh) - 1 /\ batchCh' \in Seq(Msgs) /\ Len(batchCh') = Len(batchCh) - 1
      /\ \A i \in DOMAIN batchCh' : i + 1 \in DOMAIN batchCh /\ batchCh'[i] = batchCh[i + 1] /\ i + 1 # 1
      /\ Head(batchCh) = batchCh[1]
  BY SMT, <1>1, <1>2
<1>4. PICK m \in Msgs : m = Head(batchCh)
  BY SMT, <1>2, <1>3
<1>5. /\ pc[m] = "queued" /\ pc[m] \in Early
  <2>1. \A i \in DOMAIN batchCh : pc[batchCh[i]] = "queued"
    BY Zenon DEF Carriage
  <2>2. pc[m] = "queued"
    BY Zenon, <1>3, <1>4, <2>1
  <2> QED BY Zenon, <2>2 DEF Early
<1>6. pc'[m] = "batched" /\ \A c \in Msgs \ {m} : pc'[c] = pc[c]
  BY Zenon, <1>1, <1>4 DEF Goto, ClientOK
<1>7. /\ \A i \in DOMAIN batchCh : batchCh[i] \in Msgs
      /\ \A i \in DOMAIN batch : batch[i] \in Msgs
  BY SMT, <1>2
<1>8. /\ \A i \in DOMAIN batchCh : pc[batchCh[i]] = "queued"
      /\ \A i, j \in DOMAIN batchCh : batchCh[i] = batchCh[j] => i = j
      /\ \A i \in DOMAIN batch : pc[batch[i]] = "batched"
  BY Zenon DEF Carriage
<1>9. /\ DOMAIN batch = 1 .. Len(batch) /\ DOMAIN batch' = 1 .. Len(batch) + 1 /\ Len(batch) \in Nat
      /\ \A i \in 1 .. Len(batch) : batch'[i] = batch[i]
      /\ batch'[Len(batch) + 1] = m /\ batch' \in Seq(Msgs) /\ Len(batch') = Len(batch) + 1
  <2>1. batch' = Append(batch, m) /\ batch \in Seq(Msgs)
    BY Zenon, <1>1, <1>2, <1>4
  <2> QED BY SMT, <2>1, AppendFacts
<1>10. ProducerOK'
  <2>1. Len(batchCh') <= flushCount * 4 /\ Len(batch') <= flushCount
    BY SMT, <1>1, <1>2, <1>3, <1>9, Limits
  <2> QED BY Zenon, <1>1, <1>3, <1>9, <2>1 DEF ProducerOK
<1>11. \A i \in DOMAIN batchCh' : pc'[batchCh'[i]] = "queued"
  <2> SUFFICES ASSUME NEW i \in DOMAIN batchCh' PROVE pc'[batchCh'[i]] = "queued"
    BY Zenon
  <2>1. i + 1 \in DOMAIN batchCh /\ batchCh'[i] = batchCh[i + 1] /\ i + 1 # 1
    BY Zenon, <1>3
  <2>2. batchCh[i + 1] # m
    BY Zenon, <1>3, <1>4, <1>8, <2>1
  <2>3. batchCh[i + 1] \in Msgs \ {m} /\ pc[batchCh[i + 1]] = "queued"
    BY Zenon, <1>7, <1>8, <2>1, <2>2
  <2> QED BY Zenon, <1>6, <2>1, <2>3
<1>12. ASSUME NEW i \in DOMAIN batchCh', NEW j \in DOMAIN batchCh', batchCh'[i] = batchCh'[j] PROVE i = j
  <2>1. i + 1 = j + 1
    <3>1. /\ i + 1 \in DOMAIN batchCh /\ batchCh'[i] = batchCh[i + 1]
          /\ j + 1 \in DOMAIN batchCh /\ batchCh'[j] = batchCh[j + 1]
      BY Zenon, <1>3, <1>12
    <3> QED BY Zenon, <1>8, <1>12, <3>1
  <2> QED BY SMT, <1>3, <2>1
<1>13. \A i \in DOMAIN batch : batch[i] \in Msgs \ {m}
  BY Zenon, <1>5, <1>7, <1>8
<1>14. \A i \in DOMAIN batch' : pc'[batch'[i]] = "batched"
  BY SMT, <1>6, <1>8, <1>9, <1>13
<1> QED BY Zenon, <1>1, <1>4, <1>5, <1>10, <1>11, <1>12, <1>14, Queues

LEMMA StepFlushTopic ==
    ASSUME IInv, flushTopic
    PROVE  IInv'
<1> USE Parts
<1> DEFINE msgs == {batch[i] : i \in DOMAIN batch}
<1>1. /\ UNCHANGED <<mode, at, conn, pending, closed, wire, reader, server, run, applied, faults>>
      /\ UNCHANGED <<res, batchCh, intake>> /\ batch # <<>> /\ batch' = <<>>
      /\ riders' = [riders EXCEPT ![Head(batch)] = msgs]
      /\ pc' = [m \in Msgs |-> IF m = Head(batch) THEN "ensure"
                               ELSE IF m \in msgs THEN "riding" ELSE pc[m]]
  BY Zenon DEF flushTopic
<1>2. batch \in Seq(Msgs) /\ batchCh \in Seq(Msgs)
  BY Zenon DEF ProducerOK
<1>3. 1 \in DOMAIN batch /\ Head(batch) = batch[1] /\ \A i \in DOMAIN batch : batch[i] \in Msgs
  BY SMT, <1>1, <1>2
<1>4. PICK h \in Msgs : h = Head(batch) /\ h \in msgs
  BY Zenon, <1>3
<1>5. /\ msgs \subseteq Msgs /\ \A m \in msgs : pc[m] = "batched"
  <2>1. \A i \in DOMAIN batch : pc[batch[i]] = "batched"
    BY Zenon DEF Carriage
  <2> QED BY Zenon, <1>3, <2>1
<1> HIDE DEF msgs
<1>6. \A m \in msgs : pc[m] \in Early /\ riders[m] = {} /\ applied[m] = 0 /\ \A c \in Msgs : m \notin riders[c]
  BY Zenon, <1>5 DEF Carriage, Executed, Early
<1>7. /\ pc'[h] = "ensure" /\ riders'[h] = msgs
      /\ \A m \in Msgs : m \in msgs /\ m # h => pc'[m] = "riding"
      /\ \A m \in Msgs : m \notin msgs => pc'[m] = pc[m]
      /\ \A m \in Msgs : m # h => riders'[m] = riders[m]
  BY Zenon, <1>1, <1>4 DEF ClientOK
<1>8. /\ "ensure" \notin Early /\ "riding" \notin Early /\ "ensure" \notin Seated /\ "riding" \notin Seated
      /\ "riding" \notin Calling /\ "ensure" \in Calling
  BY Zenon DEF Early, Seated, Calling
<1>9. /\ pc' \in [Msgs -> Calling \cup {"idle", "queued", "batched", "riding", "done"}]
      /\ riders' \in [Msgs -> SUBSET Msgs]
      /\ res' \in [Msgs -> {"none", "ok", "error", "closed", "timeout"}]
  <2>1. pc' \in [Msgs -> Calling \cup {"idle", "queued", "batched", "riding", "done"}]
    BY SMT, <1>1, <1>8 DEF ClientOK
  <2>2. riders' \in [Msgs -> SUBSET Msgs]
    BY Zenon, <1>1, <1>5 DEF ClientOK
  <2> QED BY Zenon, <1>1, <2>1, <2>2 DEF ClientOK
<1>10. ProducerOK'
  <2>1. <<>> \in Seq(Msgs) /\ Len(<<>>) <= flushCount
    BY SMT, Limits
  <2> QED BY Zenon, <1>1, <2>1 DEF ProducerOK
<1>11. Carriage'
  <2>1. ASSUME NEW c \in Msgs
        PROVE  /\ pc'[c] \in Early => riders'[c] = {}
               /\ pc'[c] \in Calling => c \in riders'[c]
               /\ pc'[c] \in Seated => at'[c] \in Conns
    <3>1. CASE c = h
      BY Zenon, <1>4, <1>7, <1>8, <3>1
    <3>2. CASE c # h /\ c \in msgs
      BY Zenon, <1>7, <1>8, <3>2
    <3>3. CASE c \notin msgs
      <4>1. pc'[c] = pc[c] /\ riders'[c] = riders[c] /\ at'[c] = at[c]
        BY Zenon, <1>1, <1>4, <1>7, <3>3
      <4>2. /\ pc[c] \in Early => riders[c] = {}
            /\ pc[c] \in Calling => c \in riders[c]
            /\ pc[c] \in Seated => at[c] \in Conns
        BY Zenon DEF Carriage
      <4> QED BY Zenon, <4>1, <4>2
    <3> QED BY Zenon, <3>1, <3>2, <3>3
  <2>2. ASSUME NEW c \in Msgs, NEW n \in Msgs, n \in riders'[c] PROVE pc'[n] \notin Early
    <3>1. CASE n \in msgs
      BY Zenon, <1>7, <1>8, <3>1
    <3>2. CASE n \notin msgs
      BY Zenon, <1>7, <2>2, <3>2 DEF Carriage
    <3> QED BY Zenon, <3>1, <3>2
  <2>3. ASSUME NEW c \in Msgs, NEW d \in Msgs, NEW n \in Msgs, n \in riders'[c], n \in riders'[d] PROVE c = d
    <3>1. CASE n \in msgs
      <4>1. \A e \in Msgs : n \in riders'[e] => e = h
        BY Zenon, <1>6, <1>7, <3>1
      <4> QED BY Zenon, <2>3, <4>1
    <3>2. CASE n \notin msgs
      BY Zenon, <1>7, <2>3, <3>2 DEF Carriage
    <3> QED BY Zenon, <3>1, <3>2
  <2>4. \A i \in DOMAIN batchCh : batchCh[i] \in Msgs \ msgs
    <3>1. \A i \in DOMAIN batchCh : batchCh[i] \in Msgs
      BY SMT, <1>2
    <3>2. \A i \in DOMAIN batchCh : pc[batchCh[i]] = "queued"
      BY Zenon DEF Carriage
    <3> QED BY Zenon, <1>5, <3>1, <3>2
  <2>5. /\ \A i \in DOMAIN batchCh' : pc'[batchCh'[i]] = "queued"
        /\ \A i, j \in DOMAIN batchCh' : batchCh'[i] = batchCh'[j] => i = j
    <3>1. /\ \A i \in DOMAIN batchCh : pc[batchCh[i]] = "queued"
          /\ \A i, j \in DOMAIN batchCh : batchCh[i] = batchCh[j] => i = j
      BY Zenon DEF Carriage
    <3>2. \A i \in DOMAIN batchCh : pc'[batchCh[i]] = "queued"
      BY Zenon, <1>7, <2>4, <3>1
    <3> QED BY Zenon, <1>1, <3>1, <3>2
  <2>6. \A i \in DOMAIN batch' : pc'[batch'[i]] = "batched"
    <3>1. DOMAIN batch' = {}
      BY SMT, <1>1
    <3> QED BY Zenon, <3>1
  <2> QED BY Zenon, <2>1, <2>2, <2>3, <2>5, <2>6 DEF Carriage
<1>12. Executed'
  <2>1. ASSUME NEW c \in Msgs, pc'[c] \in Calling \ {"wait"} PROVE Untried(c)'
    <3>1. CASE c = h
      BY Zenon, <1>1, <1>6, <1>7, <3>1 DEF Untried
    <3>2. CASE c # h
      <4>1. c \notin msgs
        BY Zenon, <1>7, <1>8, <2>1, <3>2
      <4> QED BY Zenon, <1>1, <1>7, <2>1, <3>2, <4>1 DEF Executed, Untried
    <3> QED BY Zenon, <3>1, <3>2
  <2>2. \A c \in Msgs : /\ pc'[c] \in Early => applied'[c] = 0
                        /\ applied'[c] \in {0, 1}
                        /\ res'[c] = "ok" => applied'[c] = 1
    BY Zenon, <1>1, <1>6, <1>7 DEF Executed
  <2> QED BY Zenon, <2>1, <2>2 DEF Executed
<1>13. ASSUME NEW c \in Msgs, Sent(c) PROVE Sent(c)' /\ riders'[c] = riders[c]
  <2>1. c \notin msgs /\ c # h
    BY Zenon, <1>4, <1>5, <1>13 DEF Sent
  <2> QED BY Zenon, <1>7, <1>13, <2>1 DEF Sent
<1> QED BY Zenon, <1>1, <1>9, <1>10, <1>11, <1>12, <1>13, ProducerStep

-----------------------------------------------------------------------------
(* The invariant, and what follows from it.                                 *)

LEMMA InitIInv == Init => IInv
<1> SUFFICES ASSUME Init PROVE IInv
  BY Zenon
<1>1. <<>> \in Seq(Msgs) /\ <<>> \in Seq(Frame) /\ <<>> \in Seq(Msgs \cup {AUTH}) /\ DOMAIN <<>> = {}
  BY SMT
<1>2. /\ 0 \in 0 .. maxAuthFailures /\ 0 < maxAuthFailures /\ Len(<<>>) <= flushCount * 4 /\ Len(<<>>) <= flushCount
      /\ Len(<<>>) <= maxInFlightPerConn
  BY SMT, Limits
<1>3. TypeOK
  <2>1. ClientOK /\ WireOK
    BY Zenon, <1>1 DEF Init, ClientOK, WireOK
  <2>2. ProducerOK
    BY Zenon, <1>1, <1>2 DEF Init, ProducerOK
  <2>3. ServerOK
    <3>1. \A k \in Conns : Len(resCh[k]) <= maxInFlightPerConn
      BY Zenon, <1>2 DEF Init
    <3>2. /\ serve \in [Conns -> {"none", "backlog", "ended"} \cup Serving]
          /\ principal \in [Conns -> BOOLEAN] /\ writer \in [Conns -> BOOLEAN]
          /\ failures \in [Conns -> 0 .. maxAuthFailures]
      BY Zenon, <1>2 DEF Init
    <3>3. /\ handling \in [Conns -> SUBSET (Msgs \cup {AUTH})] /\ held \in [Conns -> Msgs \cup {AUTH, "none"}]
          /\ sending \in [Conns -> SUBSET Frame] /\ resCh \in [Conns -> Seq(Frame)]
      BY Zenon, <1>1 DEF Init
    <3> QED BY Zenon, <3>1, <3>2, <3>3 DEF ServerOK
  <2>4. RestOK
    <3>1. mode \in Modes /\ applied \in [Msgs -> Nat] /\ run = "up" /\ reader = [k \in Conns |-> "none"]
      BY SMT DEF Init
    <3>2. faults \in [count : 0 .. mode.faults, slow : BOOLEAN]
      BY SMT, <3>1, ModesAssumption DEF Init
    <3> QED BY Zenon, <3>1, <3>2 DEF RestOK
  <2> QED BY Zenon, Types, <2>1, <2>2, <2>3, <2>4
<1>4. Carriage
  <2>1. \A c \in Msgs : pc[c] = "idle" /\ riders[c] = {}
    BY Zenon DEF Init
  <2>2. DOMAIN batch = {} /\ DOMAIN batchCh = {}
    BY Zenon, <1>1 DEF Init
  <2>3. "idle" \notin Calling /\ "idle" \notin Seated
    BY Zenon DEF Calling, Seated
  <2> QED BY Zenon, <2>1, <2>2, <2>3 DEF Carriage
<1>5. Executed
  <2>1. "idle" \notin Calling
    BY Zenon DEF Calling
  <2> QED BY Zenon, <2>1 DEF Init, Executed
<1>6. \A k \in Conns, c \in Msgs : ~Requested(k, c) /\ ~Confirmed(k, c)
  BY Zenon, InEmpty, Limits DEF Init, Requested, Confirmed
<1>7. Wired
  BY Zenon, <1>6 DEF Wired
<1>8. Sole
  <2>1. ASSUME NEW k \in Conns PROVE InOne(k)
    <3>1. DOMAIN toServer[k] = {}
      BY Zenon, <1>1 DEF Init
    <3> QED BY Zenon, <1>6, <3>1 DEF InOne, Requested
  <2> QED BY Zenon, <1>6, <2>1 DEF Sole
<1>9. Access
  BY Zenon DEF Init, Access
<1>10. Serves
  BY Zenon, <1>2 DEF Init, Serves, Served, Still
<1> QED BY Zenon, <1>3, <1>4, <1>5, <1>7, <1>8, <1>9, <1>10 DEF IInv

\* Every step keeps the invariant.
LEMMA Preserved == IInv /\ [Next]_vars => IInv'
<1> SUFFICES ASSUME IInv, [Next]_vars PROVE IInv'
  BY Zenon
<1>1. CASE UNCHANGED vars
  <2>1. /\ UNCHANGED <<mode, producer, riders, toServer, sopen, server, run, applied>>
        /\ UNCHANGED <<pc, res, at, conn, pending, closed, copen, toClient, reader, faults>>
    BY Zenon, <1>1 DEF vars, client, wire
  <2>2. Receives /\ copen' \in [Conns -> BOOLEAN]
    BY Zenon, <2>1, Parts, KeepReceives
  <2>3. ClientOK' /\ Settles /\ reader' \in [Conns -> {"none", "on", "swept", "off"}]
    BY Zenon, <2>1, Parts DEF ClientOK, RestOK, Settles, Onward, Carriage
  <2> QED BY Zenon, <2>1, <2>2, <2>3, ClientStep
<1>2. CASE Optional
  BY Zenon, <1>2, StepSendBatch, StepProduce, StepCallerGone, StepIntake, StepClose, StepShutdown, StepCut
     DEF Optional
<1>3. CASE batchLoop \/ flushTopic \/ batchDone \/ drained \/ drainDeadline \/ giveUp \/ closeWriters
  BY Zenon, <1>3, StepBatchLoop, StepFlushTopic, StepIntake, StepShutdown
<1>4. ASSUME NEW c \in Msgs, \/ ensureConnected(c) \/ authHandshake(c) \/ install(c)
                             \/ register(c) \/ write(c) \/ CtxDone(c)
      PROVE  IInv'
  BY Zenon, <1>4, StepEnsureConnected, StepAuthHandshake, StepInstall, StepRegister, StepWrite, StepCtxDone
<1>5. ASSUME NEW k \in Conns, \/ readLoop(k) \/ readLoopError(k) \/ readLoopEnd(k)
                              \/ Accept(k) \/ handlePreAuth(k) \/ serveFrame(k) \/ slotFree(k)
                              \/ (\E f \in handling[k] : dispatch(k, f))
                              \/ (\E r \in sending[k] : sendResponse(k, r))
                              \/ writeResponse(k) \/ serveReadError(k) \/ serveEnd(k)
      PROVE  IInv'
  <2>1. CASE readLoop(k) \/ readLoopError(k) \/ readLoopEnd(k)
    BY Zenon, <2>1, StepReadLoop, StepReadLoopError, StepReadLoopEnd
  <2>2. CASE Accept(k) \/ handlePreAuth(k) \/ serveFrame(k) \/ slotFree(k)
    BY Zenon, <2>2, StepAccept, StepHandlePreAuth, StepServeFrame, StepSlotFree
  <2>3. CASE (\E f \in handling[k] : dispatch(k, f)) \/ (\E r \in sending[k] : sendResponse(k, r))
    BY Zenon, <2>3, StepDispatch, StepSendResponse
  <2>4. CASE writeResponse(k) \/ serveReadError(k) \/ serveEnd(k)
    BY Zenon, <2>4, StepWriteResponse, StepServeReadError, StepServeEnd
  <2> QED BY Zenon, <1>5, <2>1, <2>2, <2>3, <2>4
<1> QED BY Zenon, <1>1, <1>2, <1>3, <1>4, <1>5 DEF Next, Progress

LEMMA Invariance == Spec => []IInv
BY InitIInv, Preserved, PTL DEF Spec

\* The queues keep to their capacity, a connection to its slots, and the count
\* of rejected frames to its limit (transport, producer, serveConn).
THEOREM TypeCorrect == Spec => []TypeOK
<1>1. IInv => TypeOK
  BY Zenon DEF IInv
<1> QED BY <1>1, Invariance, PTL

\* The broker executes a message at most once and never without the AUTH and the
\* grant it asks for, and Produce reports success only for what was executed:
\* for every number of messages, connections, faults and slots.
THEOREM ExecutedOnce == Spec => []AppliedOnce
<1>1. IInv => AppliedOnce
  <2> SUFFICES ASSUME IInv, NEW m \in Msgs
               PROVE  /\ applied[m] <= 1
                      /\ mode.auth /\ mode.creds # "good" => applied[m] = 0
                      /\ res[m] = "ok" => applied[m] = 1
    BY Zenon DEF AppliedOnce
  <2>1. applied[m] \in {0, 1} /\ (res[m] = "ok" => applied[m] = 1)
    BY Zenon DEF IInv, Executed
  <2>2. mode.auth /\ mode.creds # "good" => applied[m] = 0
    BY Zenon DEF IInv, Access
  <2>3. applied[m] <= 1
    BY SMT, <2>1
  <2> QED BY Zenon, <2>1, <2>2, <2>3
<1> QED BY <1>1, Invariance, PTL

\* When Broker.Run closes the partition writers no handler is in the backend,
\* unless one outlived both drain deadlines.
THEOREM ClosedUnderNobody == Spec => []BackendOutlivesHandlers
<1>1. IInv => BackendOutlivesHandlers
  <2> SUFFICES ASSUME IInv, run = "stopped", ~faults.slow, NEW k \in Conns PROVE handling[k] = {}
    BY Zenon DEF BackendOutlivesHandlers
  <2>1. Served(k) /\ Still
    BY Zenon DEF IInv, Serves
  <2>2. CASE k \in Tracked
    BY Zenon, <2>1, <2>2 DEF Still, Stuck
  <2>3. CASE k \notin Tracked
    BY Zenon, <2>1, <2>3 DEF Served, Tracked
  <2> QED BY Zenon, <2>2, <2>3
<1> QED BY <1>1, Invariance, PTL
=============================================================================
