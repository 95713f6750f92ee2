---------------------------- MODULE ConsumerGroup ----------------------------
(***************************************************************************)
(* One consumer group on one topic: the broker's coordinator and offset    *)
(* store (internal/broker/group), the consumers that join, fetch, handle   *)
(* and commit (internal/broker/client/consumer.go), and as much of the     *)
(* partition logs as they depend on.                                       *)
(*                                                                         *)
(* Calls other than COMMIT_OFFSET are one step.  A commit is checked under *)
(* the coordinator's lock and written to the offset store after it, and    *)
(* may outlive the call of the client that sent it.                        *)
(***************************************************************************)
EXTENDS Integers, FiniteSets

CONSTANTS
    Members,        \* member ids, ordered as the assignor sorts them
    NumPartitions,
    LogEnd,         \* bound: records produced to each partition
    FaultKinds,     \* the faults that may happen
    MaxFaults       \* bound: how many of them happen

ASSUME MembersAssumption == Members \subseteq Nat /\ IsFiniteSet(Members)
ASSUME PartitionsAssumption == NumPartitions \in Nat \ {0}
ASSUME LogEndAssumption == LogEnd \in Nat

VARIABLES
    members,      \* groupState.members; the group exists while there is one
    generation,   \* groupState.generation
    assignments,  \* groupState.assignments, {} for everybody else
    committed,    \* the offset store: next offset to consume per partition
    hwm,          \* high-water mark of each partition
    handled,      \* the records some handler call has returned nil for
    state,        \* where each consumer is
    cgen,         \* the generation it joined
    cparts,       \* the partitions it was assigned
    pos,          \* its position in each of them, -1 before FETCH_OFFSET
    cpart, cend,  \* the batch in hand: partition and end
    commits,      \* COMMIT_OFFSET requests at the broker
    faults

coordinator == <<members, generation, assignments>>
consumer    == <<state, cgen, cparts, pos, cpart, cend>>
vars == <<members, generation, assignments, committed, hwm, handled,
          state, cgen, cparts, pos, cpart, cend, commits, faults>>

Parts   == 0 .. NumPartitions - 1
Offsets == 0 .. LogEnd

\* out: not joined (or told to re-join); poll: between batches; handle: the
\* handler has a batch; commit: waits for the answer to a commit; down: stopped.
State == {"out", "poll", "handle", "commit", "down"}

Commit == [member : Members, part : Parts, off : Offsets, gen : Nat,
           checked : BOOLEAN,    \* passed the coordinator's checks
           waiting : BOOLEAN]    \* its consumer still waits for the answer

Fault(k) == /\ k \in FaultKinds /\ faults.count < MaxFaults
            /\ faults' = [count |-> faults.count + 1, power |-> faults.power \/ k = "power"]

NoFault  == faults' = faults

Init ==
    /\ members     = {}
    /\ generation  = 0
    /\ assignments = [m \in Members |-> {}]
    /\ committed   = [p \in Parts |-> 0]
    /\ hwm         = [p \in Parts |-> 0]
    /\ handled     = [p \in Parts |-> {}]
    /\ state       = [m \in Members |-> "out"]
    /\ cgen        = [m \in Members |-> 0]
    /\ cparts      = [m \in Members |-> {}]
    /\ pos         = [m \in Members |-> [p \in Parts |-> -1]]
    /\ cpart       = [m \in Members |-> 0]
    /\ cend        = [m \in Members |-> 0]
    /\ commits     = {}
    /\ faults      = [count |-> 0, power |-> FALSE]
-----------------------------------------------------------------------------
(* The coordinator.                                                         *)

\* Position of member m in the sorted subscribers, counted from 0.
Rank(ms, m) == Cardinality({k \in ms : k < m})

\* n partitions dealt to k members: where the range of the i-th one starts.
RangeStart(n, k, i) == i * (n \div k) + IF i < n % k THEN i ELSE n % k

\* Contiguous ranges, one partition more for the first n % k members.
rangeAssign(ms) ==
    [m \in Members |->
        IF m \notin ms THEN {}
        ELSE LET k == Cardinality(ms)
                 i == Rank(ms, m)
             IN  RangeStart(NumPartitions, k, i) .. RangeStart(NumPartitions, k, i + 1) - 1]

\* Mutant: the generation stays when the membership changes.
RebalanceSameGeneration(ms) ==
    /\ members'     = ms
    /\ generation'  = IF ms = {} THEN 0 ELSE 1
    /\ assignments' = rangeAssign(ms)

\* Membership becomes ms: a new generation and a new assignment, or no group.
rebalanceLocked(ms) ==
    /\ members'     = ms
    /\ generation'  = IF ms = {} THEN 0 ELSE generation + 1
    /\ assignments' = rangeAssign(ms)

\* Mutant: the expelled member's partitions are not dealt out again.
RemoveNoRebalance(m) ==
    /\ members'     = members \ {m}
    /\ generation'  = IF members = {m} THEN 0 ELSE generation + 1
    /\ assignments' = assignments

\* Leave, and the removal by expireDeadMembers.
Remove(m) == rebalanceLocked(members \ {m})

\* Heartbeat, CheckFetch and CheckOffsetAccess.
Current(m, g) == m \in members /\ g = generation

\* Join: only a new member moves the generation.
JoinGroup(m) == IF m \in members THEN UNCHANGED coordinator
                                 ELSE rebalanceLocked(members \cup {m})
-----------------------------------------------------------------------------
(* The consumers.                                                           *)

Goto(m, s) == state' = [state EXCEPT ![m] = s]

\* The calls of consumer m are given up; what it sent stays at the broker.
Abandon(m) == {IF c.member = m THEN [c EXCEPT !.waiting = FALSE] ELSE c : c \in commits}

DropBatch(m) == cpart' = [cpart EXCEPT ![m] = 0] /\ cend' = [cend EXCEPT ![m] = 0]

\* runGeneration returns, with its positions.
EndGeneration(m, s) ==
    /\ Goto(m, s)
    /\ pos'     = [pos EXCEPT ![m] = [p \in Parts |-> -1]]
    /\ commits' = Abandon(m)
    /\ cgen'    = [cgen EXCEPT ![m] = 0]
    /\ cparts'  = [cparts EXCEPT ![m] = {}]
    /\ DropBatch(m)

join(m) ==
    /\ state[m] = "out"
    /\ JoinGroup(m)
    /\ Goto(m, "poll")
    /\ cgen'   = [cgen EXCEPT ![m] = generation']
    /\ cparts' = [cparts EXCEPT ![m] = assignments'[m]]
    /\ UNCHANGED <<committed, hwm, handled, pos, cpart, cend, commits, faults>>

\* The answer to the join is lost; the consumer tries again.
joinLost(m) ==
    /\ state[m] = "out"
    /\ Fault("network")
    /\ JoinGroup(m)
    /\ UNCHANGED <<committed, hwm, handled, consumer, commits>>

\* Any call is answered by REBALANCE, or FETCH_OFFSET fails: the heartbeat
\* loop, fetchOffset, fetch and commit end the generation.  A handler call is
\* finished first.
Rebalanced(m) ==
    /\ \/ state[m] \in {"poll", "commit"} /\ ~Current(m, cgen[m]) /\ NoFault
       \/ state[m] = "poll" /\ (\E p \in cparts[m] : pos[m][p] = -1) /\ Fault("network")
    /\ EndGeneration(m, "out")
    /\ UNCHANGED <<coordinator, committed, hwm, handled>>

fetchOffset(m, p) ==
    /\ state[m] = "poll"
    /\ p \in cparts[m]
    /\ pos[m][p] = -1
    /\ Current(m, cgen[m])
    /\ pos' = [pos EXCEPT ![m][p] = committed[p]]
    /\ UNCHANGED <<coordinator, committed, hwm, handled, state, cgen, cparts, cpart, cend,
                   commits, faults>>

\* A batch, as long as the limits allow.  At the high-water mark there is
\* nothing; beyond it the broker answers OFFSET_OUT_OF_RANGE and the consumer
\* keeps trying.
fetch(m, p) ==
    /\ state[m] = "poll"
    /\ p \in cparts[m]
    /\ \A q \in cparts[m] : pos[m][q] # -1
    /\ Current(m, cgen[m])
    /\ pos[m][p] < hwm[p]
    /\ Goto(m, "handle")
    /\ cpart' = [cpart EXCEPT ![m] = p]
    /\ \E e \in pos[m][p] + 1 .. hwm[p] : cend' = [cend EXCEPT ![m] = e]
    /\ UNCHANGED <<coordinator, committed, hwm, handled, cgen, cparts, pos, commits, faults>>

\* Mutant: the batch is committed before its records are handled.
HandleBatchCommitFirst(m) ==
    /\ state[m] = "handle"
    /\ handled' = handled
    /\ NoFault
    /\ Goto(m, "commit")
    /\ commits' = commits \cup {[member |-> m, part |-> cpart[m], off |-> cend[m],
                                 gen |-> cgen[m], checked |-> FALSE, waiting |-> TRUE]}
    /\ DropBatch(m)
    /\ UNCHANGED <<coordinator, committed, hwm, cgen, cparts, pos>>

\* The handler is called for each record; the batch is committed if none
\* fails, and left alone at the first that does.  A heartbeat that met a
\* rebalance cancels the handler's context, and with it perhaps the handler.
HandleBatch(m) ==
    /\ state[m] = "handle"
    /\ \/ /\ handled' = [handled EXCEPT ![cpart[m]] = @ \cup pos[m][cpart[m]] .. cend[m] - 1]
          /\ NoFault
          /\ Goto(m, "commit")
          /\ commits' = commits \cup {[member |-> m, part |-> cpart[m], off |-> cend[m],
                                       gen |-> cgen[m], checked |-> FALSE, waiting |-> TRUE]}
       \/ /\ \E e \in pos[m][cpart[m]] .. cend[m] - 1 :
                handled' = [handled EXCEPT ![cpart[m]] = @ \cup pos[m][cpart[m]] .. e - 1]
          /\ Fault("handler") \/ (~Current(m, cgen[m]) /\ NoFault)
          /\ Goto(m, "poll")
          /\ commits' = commits
    /\ DropBatch(m)
    /\ UNCHANGED <<coordinator, committed, hwm, cgen, cparts, pos>>

\* The broker's checks of a commit.
CommitAllowed(c) == /\ c.off <= hwm[c.part]
                    /\ Current(c.member, c.gen)
                    /\ c.part \in assignments[c.member]

\* The checks pass and the lock is released.
CheckCommit(c) ==
    /\ ~c.checked
    /\ CommitAllowed(c)
    /\ commits' = (commits \ {c}) \cup {[c EXCEPT !.checked = TRUE]}
    /\ UNCHANGED <<coordinator, committed, hwm, handled, consumer, faults>>

\* They do not: a consumer that waits fetches the batch again or, after
\* REBALANCE or UNKNOWN_MEMBER, re-joins (Rebalanced).
RefuseCommit(c) ==
    /\ ~c.checked
    /\ ~CommitAllowed(c)
    /\ commits' = commits \ {c}
    /\ state' = IF c.waiting THEN [state EXCEPT ![c.member] = "poll"] ELSE state
    /\ UNCHANGED <<coordinator, committed, hwm, handled, cgen, cparts, pos, cpart, cend, faults>>

\* The offset store writes and fsyncs the offset; the answer, if somebody waits
\* for it, moves the consumer on.
Set(c) ==
    /\ c.checked
    /\ committed' = [committed EXCEPT ![c.part] = c.off]
    /\ commits' = commits \ {c}
    /\ IF c.waiting
       THEN Goto(c.member, "poll") /\ pos' = [pos EXCEPT ![c.member][c.part] = c.off]
       ELSE UNCHANGED <<state, pos>>
    /\ UNCHANGED <<coordinator, hwm, handled, cgen, cparts, cpart, cend, faults>>

\* The connection breaks while a commit is out: the call fails, the request may
\* or may not have reached the broker, and the batch is fetched again.
commitLost(m) ==
    /\ state[m] = "commit"
    /\ Fault("network")
    /\ Goto(m, "poll")
    /\ \/ commits' = Abandon(m)
       \/ commits' = {c \in commits : ~(c.member = m /\ c.waiting)}
    /\ UNCHANGED <<coordinator, committed, hwm, handled, cgen, cparts, pos, cpart, cend>>

\* Run returns: the consumer leaves the group.
Stop(m) ==
    /\ state[m] \in {"out", "poll", "commit"}
    /\ Fault("stop")
    /\ EndGeneration(m, "down")
    /\ IF m \in members THEN Remove(m) ELSE UNCHANGED coordinator
    /\ UNCHANGED <<committed, hwm, handled>>

\* The consumer's process dies, perhaps in the middle of a batch.
Die(m) ==
    /\ state[m] # "down"
    /\ Fault("die")
    /\ EndGeneration(m, "down")
    /\ IF state[m] = "handle"
       THEN \E e \in pos[m][cpart[m]] .. cend[m] :
               handled' = [handled EXCEPT ![cpart[m]] = @ \cup pos[m][cpart[m]] .. e - 1]
       ELSE handled' = handled
    /\ UNCHANGED <<coordinator, committed, hwm>>
-----------------------------------------------------------------------------
(* The broker on its own.                                                   *)

\* No heartbeat of m for a session timeout: it is down, or it stalls.
expireDeadMembers(m) ==
    /\ m \in members
    /\ (state[m] = "down" /\ NoFault) \/ (state[m] # "down" /\ Fault("stall"))
    /\ Remove(m)
    /\ UNCHANGED <<committed, hwm, handled, consumer, commits>>

Append(p) ==
    /\ hwm[p] < LogEnd
    /\ hwm' = [hwm EXCEPT ![p] = @ + 1]
    /\ UNCHANGED <<coordinator, committed, handled, consumer, commits, faults>>

\* The broker restarts.  Groups live in memory; offsets were fsynced one by
\* one; a power loss takes what the log's flush interval had not written yet,
\* and the lost offsets are given to new records.
Restart ==
    /\ \/ Fault("restart") /\ hwm' = hwm
       \/ Fault("power") /\ \E p \in Parts : \E h \in 0 .. hwm[p] : hwm' = [hwm EXCEPT ![p] = h]
    /\ members' = {} /\ generation' = 0 /\ assignments' = rangeAssign({})
    /\ handled' = [p \in Parts |-> {o \in handled[p] : o < hwm'[p]}]
    /\ commits' = {}
    /\ state' = [m \in Members |-> IF state[m] = "commit" THEN "poll" ELSE state[m]]
    /\ UNCHANGED <<committed, cgen, cparts, pos, cpart, cend>>
-----------------------------------------------------------------------------
Broker ==
    \/ \E m \in Members : expireDeadMembers(m)
    \/ \E p \in Parts : Append(p)
    \/ \E c \in commits : CheckCommit(c) \/ RefuseCommit(c) \/ Set(c)
    \/ Restart

Consumer(m) ==
    \/ join(m) \/ joinLost(m) \/ Rebalanced(m)
    \/ \E p \in Parts : fetchOffset(m, p) \/ fetch(m, p)
    \/ HandleBatch(m) \/ commitLost(m) \/ Stop(m) \/ Die(m)

Next == Broker \/ \E m \in Members : Consumer(m)

Spec == Init /\ [][Next]_vars

\* Loops that never stop by themselves: each consumer's, the heartbeats', the
\* reaper's, the request goroutines' of the broker, and producers until LogEnd.
Fairness ==
    /\ \A m \in Members :
         /\ WF_vars(join(m)) /\ WF_vars(Rebalanced(m)) /\ WF_vars(HandleBatch(m))
         /\ WF_vars(expireDeadMembers(m))
         /\ \A p \in Parts : WF_vars(fetchOffset(m, p)) /\ WF_vars(fetch(m, p))
    /\ \A p \in Parts : WF_vars(Append(p))
    /\ WF_vars(\E c \in commits : CheckCommit(c) \/ RefuseCommit(c) \/ Set(c))

FairSpec == Spec /\ Fairness
-----------------------------------------------------------------------------
TypeOK ==
    /\ members \subseteq Members
    /\ generation \in Nat
    /\ assignments \in [Members -> SUBSET Parts]
    /\ committed \in [Parts -> Offsets]
    /\ hwm \in [Parts -> Offsets]
    /\ handled \in [Parts -> SUBSET (0 .. LogEnd - 1)]
    /\ state \in [Members -> State]
    /\ cgen \in [Members -> Nat]
    /\ cparts \in [Members -> SUBSET Parts]
    /\ pos \in [Members -> [Parts -> {-1} \cup Offsets]]
    /\ cpart \in [Members -> Parts]
    /\ cend \in [Members -> Offsets]
    /\ commits \subseteq Commit
    /\ faults \in [count : Nat, power : BOOLEAN]

\* At-least-once: whatever rebalances, stale commits, lost answers and handler
\* errors happen, every record below a partition's committed offset has been
\* handled, unless the broker lost power (Consumer.runGeneration,
\* Coordinator.Commit).
NothingSkipped ==
    ~faults.power => \A p \in Parts : \A o \in 0 .. committed[p] - 1 : o \in handled[p]

\* Of two consumers whose generation is current, none was given a partition of
\* the other: the generation check of FETCH and COMMIT_OFFSET keeps a
\* partition's old owner out (rangeAssign, Join, rebalanceLocked).
SoleConsumer ==
    \A m, n \in Members :
        /\ m # n
        /\ state[m] \notin {"out", "down"} /\ Current(m, cgen[m])
        /\ state[n] \notin {"out", "down"} /\ Current(n, cgen[n])
        => cparts[m] \cap cparts[n] = {}

\* If one consumer survives, every record is handled in the end: partitions of
\* the members that left, died or stalled are dealt out again.
EverythingHandled ==
    <>(\/ \A m \in Members : state[m] = "down"
       \/ \A p \in Parts : handled[p] = 0 .. LogEnd - 1
       \/ faults.power)
=============================================================================
