----------------------------- MODULE Replication -----------------------------
(***************************************************************************)
(* One replicated partition: its leader, the followers that pull from it,  *)
(* the leader's view of their liveness, the committed offset and producers *)
(* that wait for it (internal/broker/replication.go, internal/broker/      *)
(* cluster, Produce and Fetch of internal/broker/broker.go).               *)
(*                                                                         *)
(* The leader is fixed: AssignmentFor walks a static ring and no code      *)
(* writes its overlay.  A REPLICATE call is sent, handled and answered in  *)
(* steps of its own; its follower may give up in between, and the leader   *)
(* still handles what it has read.  maybeAdvanceCommit reads the leader's  *)
(* end of log with the step before it, the followers' progress in a step   *)
(* of its own; what a handler reads of its own log before that is one step. *)
(* A node's MemberState is kept as whether it is Alive: ACTIVE and SUSPECT *)
(* are, JOINING, DEAD and LEAVING are not, and nothing else is asked of it. *)
(***************************************************************************)
EXTENDS Integers, FiniteSets, FiniteSetsExt

CONSTANTS
    Clusters,           \* the clusters looked at, see the fields below
    Hash,               \* hash of the topic plus the partition
    MaxRecords,         \* records of one REPLICATE answer
    ReplicaLagMax

VARIABLE cluster        \* the one of this behaviour

-----------------------------------------------------------------------------
(* Placement.                                                               *)

\* AssignmentFor: the replicas follow each other on the ring, the node ids of
\* cluster c in sorted order (sortedIDs).
AssignmentFor(c) ==
    [i \in 0 .. c.rf - 1 |-> c.ring[((Hash + i) % Cardinality(DOMAIN c.ring)) + 1]]

Placed(c) ==
    LET a == AssignmentFor(c)
        replicas == {a[i] : i \in DOMAIN a}
    IN  [leader |-> a[0], replicas |-> replicas, followers |-> replicas \ {a[0]}, rf |-> c.rf,
         bound |-> c.bound, acks |-> c.acks, kinds |-> c.kinds, faults |-> c.faults]

Leader            == cluster.leader
Replicas          == cluster.replicas
Followers         == cluster.followers
ReplicationFactor == cluster.rf
Bound             == cluster.bound   \* bound: PRODUCE requests, one record each
AckModes          == cluster.acks    \* the acks modes they use
FaultKinds        == cluster.kinds   \* the faults that may happen
MaxFaults         == cluster.faults  \* bound: how many of them happen

ASSUME ClustersAssumption ==
    \A c \in Clusters : /\ DOMAIN c.ring = 1 .. Cardinality(DOMAIN c.ring)
                        /\ c.rf \in 1 .. Cardinality(DOMAIN c.ring)
                        /\ {c.bound, c.faults} \subseteq Nat /\ c.acks \subseteq {"leader", "all"}
ASSUME BoundsAssumption == Hash \in Nat /\ MaxRecords \in Nat \ {0} /\ ReplicaLagMax \in Nat

VARIABLES
    known,        \* known[n]: node n has the topic
    up,           \* each node's process: up, leaving or down
    log,          \* log[n][o]: the record node n holds at offset o; Removed if its
                  \* compaction took it, NoRecord if it never had one or cut it off
    first, hwm,   \* where each log starts and ends
    committed,    \* partitionRepl.committed of each node
    progress,     \* partitionRepl.followerOffsets at the leader, None if absent
    sent,         \* history: the highest progress ever noted of each follower
    alive,        \* the leader's MemberState of each follower is Alive
    call,         \* the REPLICATE calls, see Calls
    producer,     \* the PRODUCE requests
    lost,         \* history: a crash of the leader cost it records
    faults        \* the kinds of fault so far, each at most once

logs   == <<log, first, hwm>>
table  == <<progress, sent>>
vars   == <<known, up, log, first, hwm, committed, progress, sent, alive, call, producer,
            lost, faults>>

NoRecord == 0
Removed  == -1            \* the code keeps no trace of it; the readers below skip it
None     == -1
Producers == 1 .. Bound
Offsets  == 0 .. Bound - 1
Records  == 1 .. Bound            \* a record is the number of its append

\* The call a follower waits for, and one it gave up that the leader still has.
Calls    == Followers \X {"now", "late"}
Idle     == [st |-> "idle", off |-> 0, status |-> "OK", first |-> 0, hwm |-> 0,
             committed |-> 0, recs |-> {}]

Fault(k) == /\ k \in FaultKinds \ faults /\ Cardinality(faults) < MaxFaults
            /\ faults' = faults \cup {k}

Init ==
    /\ cluster \in {Placed(c) : c \in Clusters}
    /\ known     = [n \in Replicas |-> FALSE]
    /\ up        = [n \in Replicas |-> "up"]
    /\ log       = [n \in Replicas |-> [o \in Offsets |-> NoRecord]]
    /\ first     = [n \in Replicas |-> 0]
    /\ hwm       = [n \in Replicas |-> 0]
    /\ committed = [n \in Replicas |-> 0]
    /\ progress  = [f \in Followers |-> None]
    /\ sent      = [f \in Followers |-> 0]
    /\ alive     = [f \in Followers |-> TRUE]
    /\ call      = [c \in Calls |-> Idle]
    /\ producer  = [p \in Producers |-> [pc |-> "idle", acks |-> "leader", end |-> 0]]
    /\ lost      = FALSE
    /\ faults    = {}
-----------------------------------------------------------------------------
(* The committed offset.                                                    *)

\* committedFor: never above the local end of log.
committedFor(n) == IF committed[n] > hwm[n] THEN hwm[n] ELSE committed[n]

\* The offsets a consumer can read on node n.
Fetch(n) == {o \in Offsets : first[n] <= o /\ o < committedFor(n) /\ log[n][o] \in Records}

\* Mutant: the mark is replaced, and may fall.
setCommittedAny(n, off) == committed' = [committed EXCEPT ![n] = off]

\* setCommitted: a stable mark, it is only ever raised.
setCommitted(n, off) ==
    committed' = [committed EXCEPT ![n] = IF off > @ THEN off ELSE @]

\* The in-sync followers of a leader whose log ends at end.  hwm - off is
\* unsigned: a follower noted beyond end is far away and is left out.
isr(end) == {f \in Followers : /\ progress[f] # None /\ alive[f]
                               /\ progress[f] <= end /\ end - progress[f] <= ReplicaLagMax}

quorum == ReplicationFactor \div 2 + 1

\* Mutant: the ISR need not be a majority.
maybeAdvanceMinority(end) ==
    setCommitted(Leader, Min({end} \cup {progress[f] : f \in isr(end)}))

\* The second half of maybeAdvanceCommit, with the end of log read by the first.
maybeAdvanceCommit(end) ==
    IF Cardinality(isr(end)) + 1 < quorum
    THEN UNCHANGED committed
    ELSE setCommitted(Leader, Min({end} \cup {progress[f] : f \in isr(end)}))
-----------------------------------------------------------------------------
(* REPLICATE at the leader.                                                 *)

\* Partition.Read: up to MaxRecords records from off on, skipping what
\* compaction removed.
Read(off) ==
    {o \in Offsets : /\ off <= o /\ o < hwm[Leader] /\ log[Leader][o] \in Records
                     /\ Cardinality({q \in off .. o - 1 : log[Leader][q] \in Records}) < MaxRecords}

Answer(c, st, status, offs) ==
    call' = [call EXCEPT ![c] =
                IF c[2] = "late"
                THEN IF st = "noted" THEN [Idle EXCEPT !.st = st, !.hwm = hwm[Leader]] ELSE Idle
                ELSE [st |-> st, off |-> 0, status |-> status, first |-> first[Leader],
                      hwm |-> hwm[Leader], committed |-> committedFor(Leader),
                      recs |-> {<<o, log[Leader][o]>> : o \in offs}]]

\* handleReplicate up to noteFollowerProgress: the follower's progress counts
\* the records it is about to be sent.
noteFollowerProgress(f, off) ==
    /\ progress' = [progress EXCEPT ![f] = off]
    /\ sent' = [sent EXCEPT ![f] = IF off > @ THEN off ELSE @]

handleReplicate(c) ==
    /\ call[c].st = "sent" /\ up[Leader] # "down"
    /\ LET off == call[c].off
       IN  IF ~known[Leader] THEN Answer(c, "answered", "TopicUnknown", {}) /\ UNCHANGED table
           ELSE IF off > hwm[Leader] \/ (off < first[Leader] /\ off # hwm[Leader])
           THEN Answer(c, "answered", "Truncate", {}) /\ UNCHANGED table
           ELSE /\ Answer(c, "noted", "OK", Read(off))
                /\ noteFollowerProgress(c[1], off + Cardinality(Read(off)))
    /\ UNCHANGED <<known, up, logs, committed, alive, producer, lost, faults>>

\* maybeAdvanceCommit ends and the answer is written.
Respond(c) ==
    /\ call[c].st = "noted"
    /\ maybeAdvanceCommit(call[c].hwm)
    /\ call' = [call EXCEPT ![c] = IF c[2] = "now" THEN [@ EXCEPT !.st = "answered"] ELSE Idle]
    /\ UNCHANGED <<known, up, logs, table, alive, producer, lost, faults>>
-----------------------------------------------------------------------------
(* A follower.                                                              *)

\* reconcile keeps a follow loop for every topic the node has and does not lead.
Following(f) == up[f] = "up" /\ known[f]

\* Polls that would find and change nothing are left out.
Useful(f) == \/ hwm[f] # hwm[Leader] \/ committed[f] # committed[Leader]
             \/ progress[f] # hwm[f] \/ committed[Leader] # hwm[Leader]

followOnce(f) ==
    /\ Following(f) /\ up[Leader] # "down" /\ call[<<f, "now">>].st = "idle" /\ Useful(f)
    /\ call' = [call EXCEPT ![<<f, "now">>] = [Idle EXCEPT !.st = "sent", !.off = hwm[f]]]
    /\ UNCHANGED <<known, up, logs, committed, table, alive, producer, lost, faults>>

\* What the leader still works at when the follower goes away.
Abandoned(f) ==
    LET c == call[<<f, "now">>]
    IN  CASE c.st = "sent"  -> c
          [] c.st = "noted" -> [Idle EXCEPT !.st = "noted", !.hwm = c.hwm]
          [] OTHER -> call[<<f, "late">>]

\* The call fails: the connection breaks or ten seconds pass.
CallFails(f) ==
    /\ call[<<f, "now">>].st # "idle"
    /\ Fault("timeout")
    /\ call' = [call EXCEPT ![<<f, "now">>] = Idle,
                            ![<<f, "late">>] = Abandoned(f)]
    /\ UNCHANGED <<known, up, logs, committed, table, alive, producer, lost>>

\* TruncateTo: cut the tail, or start again, empty, further on.
TruncateTo(n, t) ==
    /\ hwm' = [hwm EXCEPT ![n] = t]
    /\ first' = [first EXCEPT ![n] = IF t > hwm[n] \/ t < @ THEN t ELSE @]
    /\ log' = [log EXCEPT ![n] = [o \in Offsets |-> IF t > hwm[n] \/ o >= t THEN NoRecord ELSE @[o]]]

\* applyTruncate: the target is the leader's end, or its start when the follower
\* is below it.
TargetOwn(f, a) == hwm[f]         \* mutant: the log stays as it is

Target(f, a) == IF hwm[f] <= a.hwm /\ a.first > hwm[f] THEN a.first ELSE a.hwm

applyTruncate(f, a) ==
    /\ TruncateTo(f, Target(f, a))
    /\ setCommitted(f, Min({a.committed, Target(f, a)}))

\* Mutant: a batch with a gap is appended, its records numbered by place.
ContiguousAny(f, a) == TRUE

\* AppendReplica takes a batch that continues the log without a gap.
Contiguous(f, a) == {r[1] : r \in a.recs} = hwm[f] .. hwm[f] + Cardinality(a.recs) - 1

\* The record a batch has for offset o, by its place in the batch.
RecordFor(f, a, o) ==
    (CHOOSE r \in a.recs : Cardinality({q \in a.recs : q[1] < r[1]}) = o - hwm[f])[2]

AppendReplica(f, a) ==
    /\ log' = [log EXCEPT ![f] = [o \in Offsets |->
                   IF o \in hwm[f] .. hwm[f] + Cardinality(a.recs) - 1
                   THEN RecordFor(f, a, o) ELSE @[o]]]
    /\ hwm' = [hwm EXCEPT ![f] = @ + Cardinality(a.recs)]
    /\ UNCHANGED first

\* The rest of followOnce: the answer is applied.
Apply(f) ==
    /\ call[<<f, "now">>].st = "answered"
    /\ LET a == call[<<f, "now">>]
       IN  IF a.status = "TopicUnknown"
           THEN UNCHANGED <<logs, committed>>
           ELSE IF a.status = "Truncate" \/ ~Contiguous(f, a)
           THEN applyTruncate(f, a)
           ELSE /\ AppendReplica(f, a)
                /\ setCommitted(f, Min({a.committed, hwm[f] + Cardinality(a.recs)}))
    /\ call' = [call EXCEPT ![<<f, "now">>] = Idle]
    /\ UNCHANGED <<known, up, table, alive, producer, lost, faults>>

\* The topic, its partitions and their writers appear on node n.
ensureTopicLocal(n) == known' = [known EXCEPT ![n] = TRUE]

\* CREATE_TOPIC lands on one node.
CreateTopic(n) ==
    /\ up[n] = "up" /\ \A m \in Replicas : ~known[m]
    /\ ensureTopicLocal(n)
    /\ UNCHANGED <<up, logs, committed, table, alive, call, producer, lost, faults>>

\* What CLUSTER_STATUS of node m reports.
handleClusterStatus(m) == up[m] = "up" /\ known[m]

\* topicSyncLoop: a replica creates the topic a peer reports.
syncTopics(n) ==
    /\ up[n] = "up" /\ ~known[n]
    /\ \E m \in Replicas \ {n} : handleClusterStatus(m)
    /\ ensureTopicLocal(n)
    /\ UNCHANGED <<up, logs, committed, table, alive, call, producer, lost, faults>>
-----------------------------------------------------------------------------
(* PRODUCE at the leader.                                                   *)

Set(p, r) == [producer EXCEPT ![p] = r]

\* The partition's writer appends one request after the other.
partWriterRun(p) ==
    /\ log' = [log EXCEPT ![Leader][hwm[Leader]] = p]
    /\ hwm' = [hwm EXCEPT ![Leader] = @ + 1]
    /\ UNCHANGED first

Produce(p) ==
    /\ producer[p].pc = "idle" /\ up[Leader] = "up" /\ known[Leader]
    /\ \A q \in Producers : q < p => producer[q].pc # "idle"     \* they are numbered as they come
    /\ partWriterRun(p)
    /\ \E acks \in AckModes :
          producer' = Set(p, [pc |-> "noted", acks |-> acks, end |-> hwm[Leader] + 1])
    /\ UNCHANGED <<known, up, committed, table, alive, call, lost, faults>>

\* maybeAdvanceCommit ends; acks=leader is confirmed, acks=all waits.
ProduceAdvance(p) ==
    /\ producer[p].pc = "noted"
    /\ maybeAdvanceCommit(producer[p].end)
    /\ producer' = Set(p, [producer[p] EXCEPT !.pc = IF producer[p].acks = "leader" THEN "acked" ELSE "wait"])
    /\ UNCHANGED <<known, up, logs, table, alive, call, lost, faults>>

Confirmed(p) == committedFor(Leader) >= producer[p].end

\* waitCommitted, woken by a raise or finding the mark high enough at once.
waitCommitted(p) ==
    /\ producer[p].pc = "wait" /\ Confirmed(p)
    /\ producer' = Set(p, [producer[p] EXCEPT !.pc = "acked"])
    /\ UNCHANGED <<known, up, logs, committed, table, alive, call, lost, faults>>

\* QuorumAckTimeout, NOT_ENOUGH_REPLICAS.  It may strike a producer whose offset
\* is committed: a raise between its look at the mark and its look at commitCh
\* does not wake it.
AckTimeout(p) ==
    /\ producer[p].pc = "wait"
    /\ IF Cardinality(isr(hwm[Leader])) + 1 < quorum THEN faults' = faults ELSE Fault("timeout")
    /\ producer' = Set(p, [producer[p] EXCEPT !.pc = "refused"])
    /\ UNCHANGED <<known, up, logs, committed, table, alive, call, lost>>
-----------------------------------------------------------------------------
(* Membership at the leader.                                                *)

\* A frame from f, or the answer to one: ACTIVE, whatever it was.
MarkSeen(f) ==
    /\ up[Leader] # "down" /\ ~alive[f]
    /\ alive' = [alive EXCEPT ![f] = TRUE]
    /\ UNCHANGED <<known, up, logs, committed, table, call, producer, lost, faults>>

\* The heartbeat of a follower arrives.
handlePing(f) == up[f] = "up" /\ MarkSeen(f)

\* The leader's own ping is answered: also by a node that has said it leaves.
pingAll(f) == up[f] # "down" /\ MarkSeen(f)

\* The failure detector: f was silent for DeadAfter.
Tick(f) ==
    /\ up[Leader] # "down" /\ alive[f]
    /\ IF up[f] = "down" THEN faults' = faults ELSE Fault("silence")
    /\ alive' = [alive EXCEPT ![f] = FALSE]
    /\ UNCHANGED <<known, up, logs, committed, table, call, producer, lost>>

\* A graceful shutdown: announceLeaving, and some time later the listener closes.
MarkLeaving(f) ==
    /\ up[f] = "up" /\ Fault("leave")
    /\ up' = [up EXCEPT ![f] = "leaving"]
    /\ alive' = [alive EXCEPT ![f] = up[Leader] = "down" /\ @]
    /\ UNCHANGED <<known, logs, committed, table, call, producer, lost>>
-----------------------------------------------------------------------------
(* Processes and machines.                                                  *)

\* A new Membership knows its peers as JOINING.
NewMembership == [f \in Followers |-> FALSE]

\* What the memory of node n held is gone; what it had sent is not.
Forget(n) ==
    /\ up' = [up EXCEPT ![n] = "down"]
    /\ committed' = [committed EXCEPT ![n] = 0]
    /\ IF n = Leader
       THEN /\ progress' = [f \in Followers |-> None] /\ UNCHANGED sent
            /\ alive' = NewMembership
            /\ call' = [c \in Calls |-> IF call[c].st = "answered" THEN call[c] ELSE Idle]
            /\ producer' = [p \in Producers |->
                              IF producer[p].pc \in {"idle", "acked", "refused"} THEN producer[p]
                              ELSE [producer[p] EXCEPT !.pc = "refused"]]
       ELSE /\ call' = [call EXCEPT ![<<n, "now">>] = Idle,
                                    ![<<n, "late">>] = Abandoned(n)]
            /\ UNCHANGED <<table, alive, producer>>
    /\ UNCHANGED known

Exit(f) == up[f] = "leaving" /\ Forget(f) /\ UNCHANGED <<logs, lost, faults>>

\* A process is killed, and nothing is missing afterwards, or its machine loses
\* power, and records since the last fsync are.  Recovery ends behind a record or
\* at the base of the last segment, and cuts there what follows a gap.
Crash(n) ==
    /\ up[n] # "down" /\ Fault("crash") /\ Forget(n)
    /\ \E t \in first[n] .. hwm[n] :
          /\ hwm' = [hwm EXCEPT ![n] = t]
          /\ log' = [log EXCEPT ![n] = [o \in Offsets |-> IF o >= t THEN NoRecord ELSE @[o]]]
          /\ lost' = (lost \/ (n = Leader /\ t < hwm[n]))
    /\ UNCHANGED first

Restart(n) ==
    /\ up[n] = "down"
    /\ up' = [up EXCEPT ![n] = "up"]
    /\ UNCHANGED <<known, logs, committed, table, alive, call, producer, lost, faults>>

\* ApplyRetention deletes the oldest records of a node.
ApplyRetention(n) ==
    /\ up[n] = "up" /\ Fault("retention")
    /\ \E t \in first[n] + 1 .. hwm[n] - 1 :
          /\ first' = [first EXCEPT ![n] = t]
          /\ log' = [log EXCEPT ![n] = [o \in Offsets |-> IF o < t THEN NoRecord ELSE @[o]]]
    /\ UNCHANGED <<known, up, hwm, committed, table, alive, call, producer, lost>>

\* Compact removes superseded records from the closed segments of any node, the
\* leader's or a follower's; the last record is in the active segment, and the
\* one that supersedes is closed too.  Leading segments that are left without
\* records are deleted, up to the one that starts at t.
Compact(n) ==
    /\ up[n] = "up" /\ Fault("compact")
    /\ \E S \in SUBSET (first[n] .. hwm[n] - 3) : \E t \in first[n] .. hwm[n] - 2 :
          /\ S # {} /\ \A o \in first[n] .. t - 1 : o \in S \/ log[n][o] = Removed
          /\ first' = [first EXCEPT ![n] = t]
          /\ log' = [log EXCEPT ![n] = [o \in Offsets |->
                        IF o < t THEN NoRecord ELSE IF o \in S THEN Removed ELSE @[o]]]
    /\ UNCHANGED <<known, up, hwm, committed, table, alive, call, producer, lost>>
-----------------------------------------------------------------------------
Handler(c)  == handleReplicate(c) \/ Respond(c)
Follower(f) == \/ Handler(<<f, "now">>) \/ followOnce(f) \/ Apply(f)
Produces(p) == \/ Produce(p) \/ ProduceAdvance(p)
               \/ waitCommitted(p) \/ AckTimeout(p)

Step ==
    \/ \E f \in Followers : \/ Handler(<<f, "now">>) \/ Handler(<<f, "late">>) \/ followOnce(f) \/ Apply(f)
                            \/ CallFails(f) \/ handlePing(f) \/ pingAll(f) \/ Tick(f) \/ MarkLeaving(f) \/ Exit(f)
    \/ \E p \in Producers : Produces(p)
    \/ \E n \in Replicas : CreateTopic(n) \/ syncTopics(n) \/ Crash(n) \/ Restart(n)
                             \/ ApplyRetention(n) \/ Compact(n)

Next == Step /\ UNCHANGED cluster

\* The loops of every node run, heartbeats arrive or time out, a node that went
\* down need not come back and a producer need not send.
Nodes      == UNION {{c.ring[i] : i \in DOMAIN c.ring} : c \in Clusters}
Polls(f)   == f \in Followers /\ Follower(f)
Background == \/ \E f \in Followers : \/ Handler(<<f, "late">>) \/ pingAll(f)
                                      \/ (Tick(f) /\ faults' = faults)
              \/ \E n \in Replicas : syncTopics(n)

Spec == /\ Init /\ [][Next]_<<cluster, vars>>
        /\ \A n \in Nodes : WF_vars(Polls(n))
        /\ WF_vars(Background)
-----------------------------------------------------------------------------
(* Properties.                                                              *)

CallRec == [st : {"idle", "sent", "noted", "answered"}, off : 0 .. Bound,
            status : {"OK", "Truncate", "TopicUnknown"}, first : 0 .. Bound, hwm : 0 .. Bound,
            committed : 0 .. Bound, recs : SUBSET (Offsets \X Records)]

\* Every variable has its type: logs, marks, calls and requests are what the
\* fields of Partition, partitionRepl and ReplicateResponse can hold.
TypeOK ==
    /\ known \in [Replicas -> BOOLEAN]
    /\ up \in [Replicas -> {"up", "leaving", "down"}]
    /\ log \in [Replicas -> [Offsets -> Records \cup {NoRecord, Removed}]]
    /\ first \in [Replicas -> 0 .. Bound] /\ hwm \in [Replicas -> 0 .. Bound]
    /\ \A n \in Replicas : first[n] <= hwm[n]
    /\ committed \in [Replicas -> 0 .. Bound]
    /\ progress \in [Followers -> None .. Bound] /\ sent \in [Followers -> 0 .. Bound]
    /\ alive \in [Followers -> BOOLEAN]
    /\ call \in [Calls -> CallRec]
    /\ producer \in [Producers -> [pc : {"idle", "noted", "wait", "acked", "refused"},
                                   acks : {"leader", "all"}, end : 0 .. Bound]]
    /\ lost \in BOOLEAN /\ faults \subseteq FaultKinds

\* As long as the leader lost nothing, two replicas that hold a record at the
\* same offset hold the same one, through retries, truncations, resets, and
\* compaction on either (AppendReplica: "every replica stores the identical log").
\* And no replica lacks an offset between its first and its last but those its own
\* cleaner removed: a gap in what the leader sends ends in a truncation or a reset
\* ("silently accepting a gap would fork the log").
LogMatching ==
    /\ ~lost => \A n, m \in Replicas : \A o \in Offsets :
                   log[n][o] \in Records /\ log[m][o] \in Records => log[n][o] = log[m][o]
    /\ \A n \in Replicas : \A o \in Offsets :
          (log[n][o] # NoRecord) <=> (first[n] <= o /\ o < hwm[n])

\* What any node shows as committed has been sent to, or asked for beyond by, enough
\* followers for a majority with the leader, through late handlers, stale ends of
\* log, crashes and a leader that starts with an empty table (maybeAdvanceCommit).
\* That an answer was sent is all the mark tells: see AckedSurvives.
CommittedWasSent ==
    \A n \in Replicas : \A o \in 0 .. committed[n] - 1 :
        1 + Cardinality({f \in Followers : sent[f] > o}) >= quorum

\* A record confirmed to an acks=all producer is in some replica's log, as long as
\* no cleaner ran (WithAcks: "the record is then committed and survives any
\* single-replica failure").
AckedSurvives ==
    faults \cap {"retention", "compact"} = {} =>
        \A p \in Producers : producer[p].pc = "acked" /\ producer[p].acks = "all"
                                 => \E n \in Replicas : log[n][producer[p].end - 1] = p

\* What a running node shows as committed is never taken back: the mark its
\* consumers read up to only grows while the leader loses nothing
\* (partitionRepl.committed: "never be rolled back").
CommittedOnlyGrows ==
    [][\A n \in Replicas : ~lost' /\ up[n] # "down" /\ up'[n] # "down"
                             => committedFor(n)' >= committedFor(n)]_vars

\* Every replica is up, for ever.
AllUp == \A n \in Replicas : up[n] = "up"

\* When every node stays up, each follower ends with the leader's end of log and
\* committed offset, whatever went wrong before (followLoop polls for ever); and
\* when the leader and enough followers stay up, every record the leader has is
\* committed: no follower that went away holds the mark back (isr).
CatchesUp ==
    <>[](/\ AllUp => \A f \in Followers : /\ hwm[f] = hwm[Leader]
                                          /\ committedFor(f) = committedFor(Leader)
         /\ up[Leader] = "up" /\ 1 + Cardinality({f \in Followers : up[f] = "up"}) >= quorum
               => committed[Leader] = hwm[Leader])
=============================================================================
