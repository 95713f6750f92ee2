------------------------- MODULE ConsumerGroupProofs -------------------------
(***************************************************************************)
(* The type invariant of ConsumerGroup, at-least-once delivery and the     *)
(* exclusive ownership of partitions, for any number of members,           *)
(* partitions, records and faults.                                         *)
(***************************************************************************)
EXTENDS ConsumerGroup, FiniteSetTheorems, TLAPS

\* A consumer with a batch in hand knows its position in that partition.
BatchKnown == \A m \in Members : state[m] = "handle" => pos[m][cpart[m]] \in Offsets

\* The first n records of partition p have been handled.
Done(p, n) == \A o \in 0 .. n - 1 : o \in handled[p]

\* Positions and commits, not only committed offsets, stand behind what is
\* handled: this is what makes NothingSkipped inductive.
HandledFirst ==
    /\ \A p \in Parts : Done(p, committed[p])
    /\ \A m \in Members, p \in Parts : Done(p, pos[m][p])
    /\ \A c \in commits : Done(c.part, c.off)

Running(m) == state[m] \notin {"out", "down"}

\* What a running member was given is what the coordinator has for it, unless
\* the generation has moved on.
ViewCurrent ==
    \A m \in Members : m \in members /\ Running(m) =>
        /\ cgen[m] <= generation
        /\ cgen[m] = generation => cparts[m] = assignments[m]

Dealt == assignments = rangeAssign(members)

\* A consumer waits for at most one commit, and only where it commits.
OneCommit ==
    /\ \A c \in commits : c.waiting => state[c.member] = "commit"
    /\ \A c, d \in commits : c.waiting /\ d.waiting /\ c.member = d.member => c = d
-----------------------------------------------------------------------------
(* The assignor.                                                            *)

\* Multiplication is monotone; the ranges are multiples of a quotient.
LEMMA TimesMonotone ==
    ASSUME NEW a \in Nat, NEW b \in Nat, NEW q \in Nat, a <= b
    PROVE  a * q <= b * q
<1>1. PICK d \in Nat : b = a + d
  <2>1. b - a \in Nat /\ b = a + (b - a)
    BY SMTT(60)
  <2> QED BY Zenon, <2>1
<1>2. b * q = a * q + d * q
  BY SMTT(60), <1>1
<1>3. d * q >= 0
  BY SMTT(60)
<1>4. a * q \in Int /\ b * q \in Int /\ d * q \in Int
  BY SMTT(60)
<1> QED BY SMTT(60), <1>2, <1>3, <1>4

\* A range ends before the ranges of the members after it start.
LEMMA RangesOrdered ==
    ASSUME NEW n \in Nat, NEW k \in Nat \ {0}, NEW i \in Nat, NEW j \in Nat, i <= j
    PROVE  /\ RangeStart(n, k, i) \in Int
           /\ RangeStart(n, k, i) <= RangeStart(n, k, j)
<1> DEFINE q == n \div k
           r == n % k
<1>1. q \in Nat /\ r \in Nat
  BY SMTT(60)
<1>2. i * q <= j * q
  BY Zenon, <1>1, TimesMonotone
<1>3. i * q \in Int /\ j * q \in Int
  BY SMTT(60), <1>1
<1>4. RangeStart(n, k, i) = i * q + (IF i < r THEN i ELSE r)
  BY Zenon DEF RangeStart
<1>5. RangeStart(n, k, j) = j * q + (IF j < r THEN j ELSE r)
  BY Zenon DEF RangeStart
<1> HIDE DEF q, r
<1> QED BY SMTT(60), <1>1, <1>2, <1>3, <1>4, <1>5

LEMMA StrictSubset ==
    ASSUME NEW S, IsFiniteSet(S), NEW T \in SUBSET S, T # S
    PROVE  /\ Cardinality(T) \in Nat
           /\ Cardinality(S) \in Nat
           /\ Cardinality(T) + 1 <= Cardinality(S)
<1>1. IsFiniteSet(T) /\ Cardinality(T) <= Cardinality(S) /\ Cardinality(S) # Cardinality(T)
  BY Zenon, FS_Subset
<1>2. Cardinality(T) \in Nat /\ Cardinality(S) \in Nat
  BY Zenon, <1>1, FS_CardinalityType
<1> QED BY SMTT(60), <1>1, <1>2

\* Positions are counted from 0 and below the number of members.
LEMMA RankFact ==
    ASSUME NEW ms \in SUBSET Members, NEW m \in ms
    PROVE  /\ Rank(ms, m) \in Nat
           /\ Cardinality(ms) \in Nat \ {0}
           /\ Rank(ms, m) + 1 <= Cardinality(ms)
<1> DEFINE A == {k \in ms : k < m}
<1>1. IsFiniteSet(ms)
  BY Zenon, MembersAssumption, FS_Subset
<1>2. A \in SUBSET ms /\ A # ms
  BY SMTT(60), MembersAssumption
<1>3. Cardinality(A) \in Nat /\ Cardinality(ms) \in Nat /\ Cardinality(A) + 1 <= Cardinality(ms)
  <2> HIDE DEF A
  <2> QED BY Zenon, <1>1, <1>2, StrictSubset
<1>4. Rank(ms, m) = Cardinality(A)
  BY Zenon DEF Rank
<1> HIDE DEF A
<1> QED BY SMTT(60), <1>3, <1>4

\* The sort order: a later member has a later position.
LEMMA RankOrdered ==
    ASSUME NEW ms \in SUBSET Members, NEW m \in ms, NEW n \in ms, m < n
    PROVE  Rank(ms, m) + 1 <= Rank(ms, n)
<1> DEFINE A == {k \in ms : k < m}
           B == {k \in ms : k < n}
<1>1. m \in Nat /\ n \in Nat /\ \A k \in ms : k \in Nat
  BY Zenon, MembersAssumption
<1>2. IsFiniteSet(B)
  <2>1. B \subseteq Members
    BY Zenon
  <2> QED BY Zenon, <2>1, MembersAssumption, FS_Subset
<1>3. m \in B /\ m \notin A
  BY SMTT(60), <1>1
<1>4. A \in SUBSET B
  <2>1. \A k \in ms : k < m => k < n
    BY SMTT(60), <1>1
  <2> QED BY Zenon, <2>1
<1>5. Rank(ms, m) = Cardinality(A) /\ Rank(ms, n) = Cardinality(B)
  BY Zenon DEF Rank
<1> HIDE DEF A, B
<1>6. Cardinality(A) + 1 <= Cardinality(B)
  BY Zenon, <1>2, <1>3, <1>4, StrictSubset
<1> QED BY Zenon, <1>5, <1>6

\* rangeAssign gives no partition to two members.
LEMMA RangesDisjoint ==
    ASSUME NEW ms \in SUBSET Members, NEW m \in ms, NEW n \in ms, m # n
    PROVE  rangeAssign(ms)[m] \cap rangeAssign(ms)[n] = {}
<1> DEFINE k == Cardinality(ms)
           S(i) == RangeStart(NumPartitions, k, i)
<1>1. k \in Nat \ {0}
  BY Zenon, RankFact
<1>2. \A x \in ms : rangeAssign(ms)[x] = S(Rank(ms, x)) .. S(Rank(ms, x) + 1) - 1
  BY Zenon DEF rangeAssign
<1>3. \A i \in Nat, j \in Nat : i <= j => S(i) \in Int /\ S(i) <= S(j)
  BY Zenon, <1>1, RangesOrdered, PartitionsAssumption
<1>4. \A x \in ms : Rank(ms, x) \in Nat
  BY Zenon, RankFact
<1> HIDE DEF k, S
<1>5. ASSUME NEW x \in ms, NEW y \in ms, x < y
      PROVE  rangeAssign(ms)[x] \cap rangeAssign(ms)[y] = {}
  <2> DEFINE i == Rank(ms, x)
             j == Rank(ms, y)
  <2>1. i \in Nat /\ j \in Nat /\ i + 1 \in Nat /\ i + 1 <= j
    BY SMTT(60), <1>4, <1>5, RankOrdered
  <2>2. S(i) \in Int /\ S(i + 1) \in Int /\ S(j) \in Int /\ S(j + 1) \in Int
    BY SMTT(60), <1>3, <2>1
  <2>3. S(i + 1) <= S(j)
    BY Zenon, <1>3, <2>1
  <2>4. /\ rangeAssign(ms)[x] = S(i) .. S(i + 1) - 1
        /\ rangeAssign(ms)[y] = S(j) .. S(j + 1) - 1
    BY Zenon, <1>2
  <2> HIDE DEF i, j
  <2> QED BY SMTT(60), <2>2, <2>3, <2>4
<1>6. m < n \/ n < m
  BY SMTT(60), MembersAssumption
<1>7. CASE m < n
  BY Zenon, <1>5, <1>7
<1>8. CASE n < m
  BY Zenon, <1>5, <1>8
<1> QED BY Zenon, <1>6, <1>7, <1>8

\* The ranges stay within the topic.
LEMMA RangesWithin ==
    ASSUME NEW ms \in SUBSET Members
    PROVE  rangeAssign(ms) \in [Members -> SUBSET Parts]
<1> DEFINE k == Cardinality(ms)
           S(i) == RangeStart(NumPartitions, k, i)
<1>1. ASSUME NEW m \in ms
      PROVE  rangeAssign(ms)[m] \subseteq Parts
  <2> DEFINE i == Rank(ms, m)
  <2>1. i \in Nat /\ k \in Nat \ {0} /\ i + 1 <= k
    BY Zenon, RankFact
  <2>2. rangeAssign(ms)[m] = S(i) .. S(i + 1) - 1
    BY Zenon DEF rangeAssign
  <2> HIDE DEF i
  <2>3. S(k) = NumPartitions
    <3> HIDE DEF k
    <3> DEFINE q == NumPartitions \div k
               r == NumPartitions % k
    <3>1. q \in Nat /\ r \in Nat /\ r < k /\ NumPartitions = k * q + r
      BY SMTT(60), <2>1, PartitionsAssumption
    <3>2. S(k) = k * q + (IF k < r THEN k ELSE r)
      BY Zenon DEF RangeStart
    <3>3. k * q \in Int
      BY SMTT(60), <3>1, <2>1
    <3> HIDE DEF q, r, S
    <3> QED BY SMTT(60), <2>1, <3>1, <3>2, <3>3
  <2>4. S(0) = 0
    <3> HIDE DEF k
    <3> DEFINE q == NumPartitions \div k
               r == NumPartitions % k
    <3>1. q \in Nat /\ r \in Nat
      BY SMTT(60), <2>1, PartitionsAssumption
    <3>2. S(0) = 0 * q + (IF 0 < r THEN 0 ELSE r)
      BY Zenon DEF RangeStart
    <3> HIDE DEF q, r, S
    <3> QED BY SMTT(60), <3>1, <3>2
  <2>5. S(0) <= S(i) /\ S(i + 1) <= S(k) /\ S(i) \in Int /\ S(i + 1) \in Int
    BY SMTT(60), <2>1, RangesOrdered, PartitionsAssumption
  <2> HIDE DEF k, S
  <2> QED BY SMTT(60), <2>2, <2>3, <2>4, <2>5, PartitionsAssumption DEF Parts
<1>2. \A m \in Members : m \notin ms => rangeAssign(ms)[m] = {}
  BY Zenon DEF rangeAssign
<1>3. rangeAssign(ms) = [m \in Members |-> rangeAssign(ms)[m]]
  BY Zenon DEF rangeAssign
<1>4. \A m \in Members : rangeAssign(ms)[m] \in SUBSET Parts
  BY Zenon, <1>1, <1>2
<1> QED BY Zenon, <1>3, <1>4
-----------------------------------------------------------------------------
(* The type invariant.                                                      *)

TInv == TypeOK /\ BatchKnown

LEMMA OffsetFacts ==
    /\ 0 \in Offsets /\ 0 \in Parts
    /\ \A o \in Offsets : o \in Nat /\ o <= LogEnd
    /\ \A a \in Offsets, b \in Offsets : a .. b - 1 \subseteq 0 .. LogEnd - 1
    /\ \A a \in Offsets : a < LogEnd => a + 1 \in Offsets
BY SMTT(60), LogEndAssumption, PartitionsAssumption DEF Offsets, Parts

\* Giving up calls keeps the requests.
LEMMA AbandonFact ==
    ASSUME commits \subseteq Commit, NEW m \in Members
    PROVE  /\ Abandon(m) \subseteq Commit
           /\ \A c \in Abandon(m) : \E d \in commits : d.part = c.part /\ d.off = c.off
<1> SUFFICES ASSUME NEW c \in Abandon(m)
             PROVE  c \in Commit /\ \E d \in commits : d.part = c.part /\ d.off = c.off
  BY Zenon
<1>1. PICK d \in commits : c = IF d.member = m THEN [d EXCEPT !.waiting = FALSE] ELSE d
  BY Zenon DEF Abandon
<1>2. d \in Commit
  BY Zenon
<1>3. c \in Commit /\ d.part = c.part /\ d.off = c.off
  BY Zenon, <1>1, <1>2 DEF Commit
<1> QED BY Zenon, <1>3

\* The coordinator's part of the state is well typed after any membership change.
LEMMA CoordinatorTyped ==
    ASSUME TypeOK, NEW ms \in SUBSET Members, rebalanceLocked(ms)
    PROVE  members' \subseteq Members /\ generation' \in Nat /\ assignments' \in [Members -> SUBSET Parts]
BY SMTT(60), RangesWithin DEF TypeOK, rebalanceLocked

LEMMA RemoveTyped ==
    ASSUME TypeOK, NEW m \in Members, Remove(m) \/ UNCHANGED coordinator \/ JoinGroup(m)
    PROVE  members' \subseteq Members /\ generation' \in Nat /\ assignments' \in [Members -> SUBSET Parts]
<1>1. members \ {m} \in SUBSET Members /\ members \cup {m} \in SUBSET Members
  BY Zenon DEF TypeOK
<1>2. CASE rebalanceLocked(members \ {m})
  BY Zenon, <1>1, <1>2, CoordinatorTyped
<1>3. CASE rebalanceLocked(members \cup {m})
  BY Zenon, <1>1, <1>3, CoordinatorTyped
<1>4. CASE UNCHANGED coordinator
  BY Zenon, <1>4 DEF TypeOK, coordinator
<1> QED BY Zenon, <1>2, <1>3, <1>4 DEF Remove, JoinGroup

\* A consumer that ends its generation is well typed and has no batch.
LEMMA EndTyped ==
    ASSUME TInv, NEW m \in Members, NEW s \in {"out", "down"}, EndGeneration(m, s)
    PROVE  /\ state' \in [Members -> State]
           /\ cgen' \in [Members -> Nat]
           /\ cparts' \in [Members -> SUBSET Parts]
           /\ pos' \in [Members -> [Parts -> {-1} \cup Offsets]]
           /\ cpart' \in [Members -> Parts]
           /\ cend' \in [Members -> Offsets]
           /\ commits' \subseteq Commit
           /\ BatchKnown'
<1> USE OffsetFacts DEF TInv, TypeOK, EndGeneration, DropBatch, Goto
<1>1. state' \in [Members -> State]
  BY Zenon DEF State
<1>2. cgen' \in [Members -> Nat] /\ cparts' \in [Members -> SUBSET Parts]
  BY Zenon
<1>3. pos' \in [Members -> [Parts -> {-1} \cup Offsets]]
  BY Zenon
<1>4. cpart' \in [Members -> Parts] /\ cend' \in [Members -> Offsets]
  BY Zenon
<1>5. commits' \subseteq Commit
  BY Zenon, AbandonFact
<1>6. BatchKnown'
  BY Zenon DEF BatchKnown
<1> QED BY Zenon, <1>1, <1>2, <1>3, <1>4, <1>5, <1>6

LEMMA TInit == Init => TInv
BY SMTT(60), OffsetFacts, PartitionsAssumption DEF Init, TInv, TypeOK, BatchKnown, State, Parts

\* The type invariant is preserved by every step.
\* A fault is counted, and a power loss remembered.
LEMMA FaultTyped ==
    ASSUME TypeOK
    PROVE  /\ \A k : Fault(k) => /\ faults' \in [count : Nat, power : BOOLEAN]
                                 /\ faults.power => faults'.power
           /\ Fault("power") => faults'.power
<1>1. faults.count \in Nat /\ faults.power \in BOOLEAN
  BY Zenon DEF TypeOK
<1>2. ASSUME NEW k, Fault(k)
      PROVE  faults' = [count |-> faults.count + 1, power |-> faults.power \/ k = "power"]
  BY Zenon, <1>2 DEF Fault
<1>3. \A k : (faults.power \/ k = "power") \in BOOLEAN
  BY Zenon
<1>4. \A k : Fault(k) => faults' \in [count : Nat, power : BOOLEAN]
  <2>1. \A n, b : n \in Nat /\ b \in BOOLEAN
                   => [count |-> n, power |-> b] \in [count : Nat, power : BOOLEAN]
    BY Zenon
  <2>2. faults.count + 1 \in Nat
    BY SMTT(60), <1>1
  <2> QED BY <1>2, <1>3, <2>1, <2>2, Zenon
<1>5. \A k : Fault(k) => faults'.power = (faults.power \/ k = "power")
  BY SMTT(60), <1>2
<1> QED BY Zenon, <1>4, <1>5

LEMMA TNext == TInv /\ [Next]_vars => TInv'
<1> SUFFICES ASSUME TInv, [Next]_vars PROVE TInv'
  BY Zenon
<1> USE OffsetFacts
<1>1. ASSUME NEW m \in Members, join(m) PROVE TInv'
  <2>1. members' \subseteq Members /\ generation' \in Nat /\ assignments' \in [Members -> SUBSET Parts]
    BY Zenon, <1>1, RemoveTyped DEF join, TInv
  <2>2. state' \in [Members -> State] /\ cgen' \in [Members -> Nat]
        /\ cparts' \in [Members -> SUBSET Parts]
    BY Zenon, <1>1, <2>1 DEF join, TInv, TypeOK, Goto, State
  <2>3. BatchKnown'
    BY Zenon, <1>1 DEF join, TInv, TypeOK, Goto, BatchKnown
  <2> QED BY Zenon, <1>1, <2>1, <2>2, <2>3 DEF join, TInv, TypeOK
<1>2. ASSUME NEW m \in Members, joinLost(m) PROVE TInv'
  <2>1. members' \subseteq Members /\ generation' \in Nat /\ assignments' \in [Members -> SUBSET Parts]
    BY Zenon, <1>2, RemoveTyped DEF joinLost, TInv
  <2> QED BY Zenon, <1>2, <2>1, FaultTyped DEF joinLost, TInv, TypeOK, BatchKnown, consumer
<1>3. ASSUME NEW m \in Members, Rebalanced(m) PROVE TInv'
  <2>1. EndGeneration(m, "out")
    BY Zenon, <1>3 DEF Rebalanced
  <2> QED BY Zenon, <1>3, <2>1, EndTyped, FaultTyped DEF Rebalanced, TInv, TypeOK, NoFault, coordinator
<1>4. ASSUME NEW m \in Members, NEW p \in Parts, fetchOffset(m, p) PROVE TInv'
  <2>1. pos' \in [Members -> [Parts -> {-1} \cup Offsets]]
    BY Zenon, <1>4 DEF fetchOffset, TInv, TypeOK
  <2>2. BatchKnown'
    BY Zenon, <1>4 DEF fetchOffset, TInv, TypeOK, BatchKnown
  <2> QED BY Zenon, <1>4, <2>1, <2>2 DEF fetchOffset, TInv, TypeOK, coordinator
<1>5. ASSUME NEW m \in Members, NEW p \in Parts, fetch(m, p) PROVE TInv'
  <2>1. PICK e \in pos[m][p] + 1 .. hwm[p] : cend' = [cend EXCEPT ![m] = e]
    BY Zenon, <1>5 DEF fetch
  <2>2. pos[m][p] \in Offsets
    BY SMTT(60), <1>5 DEF fetch, TInv, TypeOK
  <2>3. e \in Offsets
    <3>1. hwm[p] \in Offsets
      BY Zenon DEF TInv, TypeOK
    <3> QED BY SMTT(60), <2>1, <2>2, <3>1, LogEndAssumption DEF Offsets
  <2>4. cend' \in [Members -> Offsets] /\ cpart' \in [Members -> Parts]
    BY Zenon, <1>5, <2>1, <2>3 DEF fetch, TInv, TypeOK
  <2>5. BatchKnown'
    BY Zenon, <1>5, <2>2 DEF fetch, TInv, TypeOK, BatchKnown, Goto
  <2> QED BY Zenon, <1>5, <2>4, <2>5 DEF fetch, TInv, TypeOK, coordinator, Goto, State
<1>6. ASSUME NEW m \in Members, HandleBatch(m) PROVE TInv'
  <2>1. /\ pos[m][cpart[m]] \in Offsets /\ cend[m] \in Offsets /\ cpart[m] \in Parts
    BY Zenon, <1>6 DEF HandleBatch, TInv, TypeOK, BatchKnown
  <2>2. handled' \in [Parts -> SUBSET (0 .. LogEnd - 1)]
    <3>1. \A e \in pos[m][cpart[m]] .. cend[m] : pos[m][cpart[m]] .. e - 1 \subseteq 0 .. LogEnd - 1
      BY SMTT(60), <2>1 DEF Offsets
    <3>2. \A e \in pos[m][cpart[m]] .. cend[m] - 1 : e \in pos[m][cpart[m]] .. cend[m]
      BY SMTT(60), <2>1 DEF Offsets
    <3>3. PICK X \in SUBSET (0 .. LogEnd - 1) : handled' = [handled EXCEPT ![cpart[m]] = @ \cup X]
      BY Zenon, <1>6, <2>1, <3>1, <3>2 DEF HandleBatch
    <3> QED BY Zenon, <2>1, <3>3 DEF TInv, TypeOK
  <2>3. commits' \subseteq Commit
    <3> DEFINE c == [member |-> m, part |-> cpart[m], off |-> cend[m], gen |-> cgen[m],
                     checked |-> FALSE, waiting |-> TRUE]
    <3>1. c \in Commit
      BY Zenon, <2>1 DEF TInv, TypeOK, Commit
    <3>2. commits' = commits \/ commits' = commits \cup {c}
      BY Zenon, <1>6 DEF HandleBatch
    <3> QED BY Zenon, <3>1, <3>2 DEF TInv, TypeOK
  <2>4. state' \in [Members -> State] /\ cpart' \in [Members -> Parts] /\ cend' \in [Members -> Offsets]
    BY Zenon, <1>6 DEF HandleBatch, TInv, TypeOK, Goto, State, DropBatch
  <2>5. BatchKnown'
    BY Zenon, <1>6 DEF HandleBatch, TInv, TypeOK, Goto, BatchKnown, DropBatch
  <2>6. faults' \in [count : Nat, power : BOOLEAN]
    BY Zenon, <1>6, FaultTyped DEF HandleBatch, TInv, TypeOK, NoFault
  <2> QED BY Zenon, <1>6, <2>2, <2>3, <2>4, <2>5, <2>6 DEF HandleBatch, TInv, TypeOK, coordinator
<1>7. ASSUME NEW m \in Members, commitLost(m) PROVE TInv'
  <2>1. commits' \subseteq Commit
    BY Zenon, <1>7, AbandonFact DEF commitLost, TInv, TypeOK
  <2>2. state' \in [Members -> State] /\ BatchKnown'
    BY Zenon, <1>7 DEF commitLost, TInv, TypeOK, Goto, State, BatchKnown
  <2> QED BY Zenon, <1>7, <2>1, <2>2, FaultTyped DEF commitLost, TInv, TypeOK, coordinator
<1>8. ASSUME NEW m \in Members, Stop(m) PROVE TInv'
  <2>1. EndGeneration(m, "down")
    BY Zenon, <1>8 DEF Stop
  <2>2. members' \subseteq Members /\ generation' \in Nat /\ assignments' \in [Members -> SUBSET Parts]
    BY Zenon, <1>8, RemoveTyped DEF Stop, TInv
  <2> QED BY Zenon, <1>8, <2>1, <2>2, EndTyped, FaultTyped DEF Stop, TInv, TypeOK
<1>9. ASSUME NEW m \in Members, Die(m) PROVE TInv'
  <2>1. EndGeneration(m, "down")
    BY Zenon, <1>9 DEF Die
  <2>2. handled' \in [Parts -> SUBSET (0 .. LogEnd - 1)]
    <3>1. CASE state[m] # "handle"
      BY Zenon, <1>9, <3>1 DEF Die, TInv, TypeOK
    <3>2. CASE state[m] = "handle"
      <4>1. pos[m][cpart[m]] \in Offsets /\ cend[m] \in Offsets /\ cpart[m] \in Parts
        BY Zenon, <3>2 DEF TInv, TypeOK, BatchKnown
      <4>2. \A e \in pos[m][cpart[m]] .. cend[m] : pos[m][cpart[m]] .. e - 1 \subseteq 0 .. LogEnd - 1
        BY SMTT(60), <4>1 DEF Offsets
      <4>3. PICK X \in SUBSET (0 .. LogEnd - 1) : handled' = [handled EXCEPT ![cpart[m]] = @ \cup X]
        BY Zenon, <1>9, <3>2, <4>2 DEF Die
      <4> QED BY Zenon, <4>1, <4>3 DEF TInv, TypeOK
    <3> QED BY Zenon, <3>1, <3>2
  <2> QED BY Zenon, <1>9, <2>1, <2>2, EndTyped, FaultTyped DEF Die, TInv, TypeOK, coordinator
<1>10. ASSUME NEW m \in Members, expireDeadMembers(m) PROVE TInv'
  <2>1. members' \subseteq Members /\ generation' \in Nat /\ assignments' \in [Members -> SUBSET Parts]
    BY Zenon, <1>10, RemoveTyped DEF expireDeadMembers, TInv
  <2> QED BY Zenon, <1>10, <2>1, FaultTyped DEF expireDeadMembers, TInv, TypeOK, BatchKnown, consumer, NoFault
<1>11. ASSUME NEW p \in Parts, Append(p) PROVE TInv'
  <2>1. hwm' \in [Parts -> Offsets]
    BY Zenon, <1>11 DEF Append, TInv, TypeOK
  <2> QED BY Zenon, <1>11, <2>1 DEF Append, TInv, TypeOK, BatchKnown, consumer, coordinator
<1>12. ASSUME NEW c \in commits, CheckCommit(c) PROVE TInv'
  <2>1. c \in Commit
    BY Zenon DEF TInv, TypeOK
  <2>2. [c EXCEPT !.checked = TRUE] \in Commit
    BY Zenon, <2>1 DEF Commit
  <2> QED BY Zenon, <1>12, <2>2 DEF CheckCommit, TInv, TypeOK, BatchKnown, consumer, coordinator
<1>13. ASSUME NEW c \in commits, RefuseCommit(c) PROVE TInv'
  <2>1. state' \in [Members -> State] /\ BatchKnown'
    BY Zenon, <1>13 DEF RefuseCommit, TInv, TypeOK, State, BatchKnown, Commit
  <2> QED BY Zenon, <1>13, <2>1 DEF RefuseCommit, TInv, TypeOK, coordinator
<1>14. ASSUME NEW c \in commits, Set(c) PROVE TInv'
  <2>1. c.member \in Members /\ c.part \in Parts /\ c.off \in Offsets
    BY Zenon DEF TInv, TypeOK, Commit
  <2>2. committed' \in [Parts -> Offsets]
    BY Zenon, <1>14, <2>1 DEF Set, TInv, TypeOK
  <2>3. state' \in [Members -> State]
    BY Zenon, <1>14, <2>1 DEF Set, TInv, TypeOK, Goto, State
  <2>4. pos' \in [Members -> [Parts -> {-1} \cup Offsets]]
    <3>1. CASE c.waiting
      <4>1. [pos[c.member] EXCEPT ![c.part] = c.off] \in [Parts -> {-1} \cup Offsets]
        BY Zenon, <2>1 DEF TInv, TypeOK
      <4>2. pos' = [pos EXCEPT ![c.member] = [pos[c.member] EXCEPT ![c.part] = c.off]]
        BY Zenon, <1>14, <3>1 DEF Set
      <4> QED BY Zenon, <2>1, <4>1, <4>2 DEF TInv, TypeOK
    <3>2. CASE ~c.waiting
      BY Zenon, <1>14, <3>2 DEF Set, TInv, TypeOK
    <3> QED BY Zenon, <3>1, <3>2
  <2>5. BatchKnown'
    <3>1. cpart' = cpart
      BY Zenon, <1>14 DEF Set
    <3>2. \A n \in Members : state'[n] = "handle" => state[n] = "handle"
      BY ZenonT(60), <1>14, <2>1 DEF Set, TInv, TypeOK, Goto
    <3>3. \A n \in Members : pos'[n] = pos[n] \/ (n = c.member /\ c.waiting)
      BY Zenon, <1>14, <2>1 DEF Set, TInv, TypeOK
    <3>4. c.waiting => state'[c.member] = "poll"
      BY Zenon, <1>14, <2>1 DEF Set, TInv, TypeOK, Goto
    <3> QED BY Zenon, <3>1, <3>2, <3>3, <3>4 DEF TInv, BatchKnown
  <2> QED BY Zenon, <1>14, <2>2, <2>3, <2>4, <2>5 DEF Set, TInv, TypeOK, coordinator
<1>15. ASSUME Restart PROVE TInv'
  <2>1. hwm' \in [Parts -> Offsets] /\ faults' \in [count : Nat, power : BOOLEAN]
    <3>1. \A p \in Parts : \A h \in 0 .. hwm[p] : h \in Offsets
      <4>1. \A p \in Parts : hwm[p] \in Offsets
        BY Zenon DEF TInv, TypeOK
      <4> QED BY SMTT(60), <4>1, LogEndAssumption DEF Offsets
    <3>2. hwm' = hwm \/ \E p \in Parts : \E h \in 0 .. hwm[p] : hwm' = [hwm EXCEPT ![p] = h]
      BY Zenon, <1>15 DEF Restart
    <3>3. hwm' \in [Parts -> Offsets]
      BY Zenon, <3>1, <3>2 DEF TInv, TypeOK
    <3>4. faults' \in [count : Nat, power : BOOLEAN]
      BY Zenon, <1>15, FaultTyped DEF Restart, TInv, TypeOK
    <3> QED BY Zenon, <3>3, <3>4
  <2>2. handled' \in [Parts -> SUBSET (0 .. LogEnd - 1)]
    BY Zenon, <1>15 DEF Restart, TInv, TypeOK
  <2>3. state' \in [Members -> State] /\ BatchKnown'
    BY Zenon, <1>15 DEF Restart, TInv, TypeOK, State, BatchKnown
  <2>4. assignments' \in [Members -> SUBSET Parts] /\ members' \subseteq Members /\ generation' \in Nat
    BY Zenon, <1>15, RangesWithin DEF Restart
  <2> QED BY Zenon, <1>15, <2>1, <2>2, <2>3, <2>4 DEF Restart, TInv, TypeOK
<1>16. CASE UNCHANGED vars
  BY Zenon, <1>16 DEF vars, TInv, TypeOK, BatchKnown
<1> QED BY Zenon, <1>1, <1>2, <1>3, <1>4, <1>5, <1>6, <1>7, <1>8, <1>9, <1>10, <1>11, <1>12, <1>13, <1>14,
           <1>15, <1>16 DEF Next, Broker, Consumer

\* Every reachable state of the group is well typed.
THEOREM TypeCorrect == Spec => []TypeOK
<1>1. TInv => TypeOK
  BY Zenon DEF TInv
<1> QED BY <1>1, TInit, TNext, PTL DEF Spec
-----------------------------------------------------------------------------
(* At-least-once delivery.                                                  *)

\* Only records of the log are handled.
HandledInLog ==
    /\ \A p \in Parts : \A o \in handled[p] : o < hwm[p]
    /\ \A m \in Members : state[m] = "handle" => cend[m] <= hwm[cpart[m]]

SInv == TInv /\ HandledInLog /\ HandledFirst

\* Handling more keeps what was done, and moving the end of a batch that was
\* handled from a done position is done too.
LEMMA DoneGrows ==
    ASSUME NEW p \in Parts, NEW n \in {-1} \cup Offsets, Done(p, n), handled[p] \subseteq handled'[p]
    PROVE  Done(p, n)'
BY Zenon DEF Done

\* The common case: nothing handled is forgotten, and every position, commit
\* and committed offset was one already.
LEMMA HandledFirstKept ==
    ASSUME SInv, \A p \in Parts : handled[p] \subseteq handled'[p],
           \A p \in Parts : committed'[p] = committed[p]
                \/ \E c \in commits : c.part = p /\ c.off = committed'[p],
           \A m \in Members, p \in Parts : pos'[m][p] \in {-1, pos[m][p], committed[p]}
                \/ \E c \in commits : c.part = p /\ c.off = pos'[m][p],
           \A c \in commits' : \E d \in commits : d.part = c.part /\ d.off = c.off
    PROVE  HandledFirst'
<1>1. \A p \in Parts : \A n : Done(p, n) => \A o \in 0 .. n - 1 : o \in handled'[p]
  BY Zenon DEF Done
<1>2. \A c \in commits : c.part \in Parts /\ Done(c.part, c.off)
  BY SMTT(60) DEF SInv, TInv, TypeOK, Commit, HandledFirst
<1>3. \A p \in Parts : Done(p, committed[p]) /\ Done(p, -1)
  BY SMTT(60) DEF SInv, HandledFirst, Done
<1>4. \A p \in Parts : Done(p, committed'[p])
  BY Zenon, <1>2, <1>3
<1>5. \A m \in Members, p \in Parts : Done(p, pos'[m][p])
  BY SMTT(60), <1>2, <1>3 DEF SInv, HandledFirst
<1>6. \A c \in commits' : c.part \in Parts /\ Done(c.part, c.off)
  BY Zenon, <1>2
<1> QED BY Zenon, <1>1, <1>4, <1>5, <1>6 DEF HandledFirst, Done

LEMMA SInit == Init => SInv
BY SMTT(60), TInit DEF Init, SInv, HandledInLog, HandledFirst, Done

\* Without a power loss the log only grows, and batches stay within it.
LEMMA LogNext == TInv /\ HandledInLog /\ [Next]_vars /\ ~faults'.power => HandledInLog'
<1> SUFFICES ASSUME TInv, HandledInLog, [Next]_vars, ~faults'.power PROVE HandledInLog'
  BY Zenon
<1>t. TypeOK
  BY Zenon DEF TInv
<1>h. /\ \A p \in Parts : hwm[p] \in Nat
      /\ \A m \in Members : cend[m] \in Nat /\ cpart[m] \in Parts
  BY Zenon, <1>t, OffsetFacts DEF TypeOK
<1>1. ASSUME NEW m \in Members, join(m) \/ joinLost(m) \/ expireDeadMembers(m) PROVE HandledInLog'
  BY Zenon, <1>1, <1>t DEF join, joinLost, expireDeadMembers, consumer, HandledInLog, Goto, TypeOK
<1>2. ASSUME NEW m \in Members, NEW s \in {"out", "down"}, EndGeneration(m, s), hwm' = hwm
      PROVE  \A n \in Members : state'[n] = "handle" => cend'[n] <= hwm'[cpart'[n]]
  BY Zenon, <1>2, <1>t DEF EndGeneration, Goto, DropBatch, HandledInLog, TypeOK
<1>3. ASSUME NEW m \in Members, Rebalanced(m) \/ Stop(m) PROVE HandledInLog'
  <2>1. hwm' = hwm /\ handled' = handled /\ (EndGeneration(m, "out") \/ EndGeneration(m, "down"))
    BY Zenon, <1>3 DEF Rebalanced, Stop
  <2> QED BY Zenon, <1>2, <2>1 DEF HandledInLog
<1>4. ASSUME NEW m \in Members, state[m] = "handle",
             NEW e \in pos[m][cpart[m]] .. cend[m],
             handled' = [handled EXCEPT ![cpart[m]] = @ \cup pos[m][cpart[m]] .. e - 1]
      PROVE  \A p \in Parts : \A o \in handled'[p] : o < hwm[p]
  <2>1. cpart[m] \in Parts /\ cend[m] <= hwm[cpart[m]] /\ pos[m][cpart[m]] \in Nat
    BY Zenon, <1>4, <1>t, OffsetFacts DEF HandledInLog, TInv, TypeOK, BatchKnown
  <2>2. \A o \in pos[m][cpart[m]] .. e - 1 : o < hwm[cpart[m]]
    BY SMTT(60), <1>h, <2>1
  <2> QED BY Zenon, <1>4, <1>t, <2>1, <2>2 DEF HandledInLog, TypeOK
<1>5. ASSUME NEW m \in Members, Die(m) PROVE HandledInLog'
  <2>1. hwm' = hwm /\ EndGeneration(m, "down")
    BY Zenon, <1>5 DEF Die
  <2>2. \A p \in Parts : \A o \in handled'[p] : o < hwm[p]
    BY Zenon, <1>4, <1>5 DEF Die, HandledInLog
  <2> QED BY Zenon, <1>2, <2>1, <2>2 DEF HandledInLog
<1>6. ASSUME NEW m \in Members, HandleBatch(m) PROVE HandledInLog'
  <2>1. hwm' = hwm
    BY Zenon, <1>6 DEF HandleBatch
  <2>2. \A n \in Members : state'[n] = "handle" => cend'[n] <= hwm'[cpart'[n]]
    BY Zenon, <1>6, <1>t, <2>1 DEF HandleBatch, Goto, DropBatch, HandledInLog, TypeOK
  <2>0. state[m] = "handle"
    BY Zenon, <1>6 DEF HandleBatch
  <2>3. pos[m][cpart[m]] \in Int /\ cend[m] \in Int
    <3>1. pos[m][cpart[m]] \in Offsets
      BY Zenon, <2>0, <1>t DEF TInv, BatchKnown
    <3>2. pos[m][cpart[m]] \in Nat
      BY Zenon, <3>1, OffsetFacts
    <3> QED BY SMTT(60), <1>h, <3>2
  <2>4. CASE handled' = [handled EXCEPT ![cpart[m]] = @ \cup pos[m][cpart[m]] .. cend[m] - 1]
    <3>1. CASE pos[m][cpart[m]] <= cend[m]
      <4>1. cend[m] \in pos[m][cpart[m]] .. cend[m]
        BY SMTT(60), <2>3, <3>1
      <4>2. state[m] = "handle"
        BY Zenon, <1>6 DEF HandleBatch
      <4>3. \A p \in Parts : \A o \in handled'[p] : o < hwm[p]
        BY Zenon, <1>4, <2>4, <4>1, <4>2
      <4> QED BY Zenon, <2>1, <2>2, <4>3 DEF HandledInLog
    <3>2. CASE pos[m][cpart[m]] > cend[m]
      <4>1. pos[m][cpart[m]] .. cend[m] - 1 = {}
        BY SMTT(60), <2>3, <3>2
      <4>2. handled' = handled
        BY Zenon, <1>t, <2>4, <4>1 DEF TypeOK
      <4> QED BY Zenon, <2>1, <2>2, <4>2 DEF HandledInLog
    <3> QED BY SMTT(60), <2>3, <3>1, <3>2
  <2>5. CASE \E e \in pos[m][cpart[m]] .. cend[m] - 1 :
                handled' = [handled EXCEPT ![cpart[m]] = @ \cup pos[m][cpart[m]] .. e - 1]
    <3>1. PICK e \in pos[m][cpart[m]] .. cend[m] - 1 :
                handled' = [handled EXCEPT ![cpart[m]] = @ \cup pos[m][cpart[m]] .. e - 1]
      BY Zenon, <2>5
    <3>2. e \in pos[m][cpart[m]] .. cend[m]
      BY SMTT(60), <2>3
    <3> QED BY Zenon, <1>4, <1>6, <2>1, <2>2, <3>1, <3>2 DEF HandleBatch, HandledInLog
  <2> QED BY Zenon, <1>6, <2>4, <2>5 DEF HandleBatch
<1>7. ASSUME NEW m \in Members, NEW p \in Parts, fetchOffset(m, p) \/ commitLost(m) PROVE HandledInLog'
  BY Zenon, <1>7, <1>t DEF fetchOffset, commitLost, HandledInLog, Goto, TypeOK
<1>8. ASSUME NEW m \in Members, NEW p \in Parts, fetch(m, p) PROVE HandledInLog'
  <2>1. PICK e \in pos[m][p] + 1 .. hwm[p] : cend' = [cend EXCEPT ![m] = e]
    BY Zenon, <1>8 DEF fetch
  <2>2. e <= hwm[p]
    BY SMTT(60), <2>1
  <2> QED BY Zenon, <1>8, <1>t, <2>1, <2>2 DEF fetch, HandledInLog, Goto, TypeOK
<1>9. ASSUME NEW p \in Parts, Append(p) PROVE HandledInLog'
  <2>1. \A q \in Parts : hwm[q] <= hwm'[q] /\ hwm'[q] \in Nat
    BY SMTT(60), <1>9, <1>t, <1>h DEF Append, TypeOK
  <2>2. handled' = handled /\ state' = state /\ cend' = cend /\ cpart' = cpart
    BY Zenon, <1>9 DEF Append, consumer
  <2>3. \A q \in Parts : \A o \in handled[q] : o \in Int
    BY SMTT(60), <1>t DEF TypeOK
  <2>4. \A q \in Parts : \A o \in handled[q] : o < hwm'[q]
    BY SMTT(60), <1>h, <2>1, <2>3 DEF HandledInLog
  <2>5. \A m \in Members : state[m] = "handle" => cend[m] <= hwm'[cpart[m]]
    BY SMTT(60), <1>h, <2>1 DEF HandledInLog
  <2> QED BY Zenon, <2>2, <2>4, <2>5 DEF HandledInLog
<1>10. ASSUME NEW c \in commits, CheckCommit(c) \/ RefuseCommit(c) \/ Set(c) PROVE HandledInLog'
  BY SMTT(60), <1>10, <1>t DEF CheckCommit, RefuseCommit, Set, consumer, HandledInLog, Goto, TypeOK
<1>11. ASSUME Restart PROVE HandledInLog'
  <2>1. hwm' = hwm
    BY Zenon, <1>11, <1>t, FaultTyped DEF Restart
  <2> QED BY Zenon, <1>11, <1>t, <2>1 DEF Restart, HandledInLog, TypeOK
<1>12. CASE UNCHANGED vars
  BY Zenon, <1>12 DEF vars, HandledInLog
<1> QED BY SMTT(60), <1>1, <1>3, <1>5, <1>6, <1>7, <1>8, <1>9, <1>10, <1>11, <1>12, PartitionsAssumption
        DEF Next, Broker, Consumer, Parts

\* Without a power loss at the broker, HandledFirst is preserved by every step.
LEMMA SNext == SInv /\ [Next]_vars /\ ~faults'.power => SInv'
<1> SUFFICES ASSUME SInv, [Next]_vars, ~faults'.power PROVE HandledFirst'
  BY Zenon, TNext, LogNext DEF SInv
<1>t. TypeOK /\ commits \subseteq Commit
  BY Zenon DEF SInv, TInv, TypeOK
<1>a. \A m \in Members : \A s : EndGeneration(m, s) =>
        /\ \A n \in Members, p \in Parts : pos'[n][p] \in {-1, pos[n][p], committed[p]}
        /\ \A c \in commits' : \E d \in commits : d.part = c.part /\ d.off = c.off
  <2> SUFFICES ASSUME NEW m \in Members, NEW s, EndGeneration(m, s)
               PROVE  /\ \A n \in Members, p \in Parts : pos'[n][p] \in {-1, pos[n][p], committed[p]}
                      /\ \A c \in commits' : \E d \in commits : d.part = c.part /\ d.off = c.off
    BY Zenon
  <2>1. \A n \in Members, p \in Parts : pos'[n][p] \in {-1, pos[n][p], committed[p]}
    BY Zenon, <1>t DEF EndGeneration, TypeOK
  <2>2. commits' = Abandon(m)
    BY Zenon DEF EndGeneration
  <2> QED BY Zenon, <1>t, <2>1, <2>2, AbandonFact
<1>1. ASSUME NEW m \in Members, join(m) \/ joinLost(m) \/ expireDeadMembers(m) PROVE HandledFirst'
  BY Zenon, <1>1 DEF join, joinLost, expireDeadMembers, consumer, SInv, HandledFirst, Done
<1>2. ASSUME NEW m \in Members, Rebalanced(m) \/ Stop(m) PROVE HandledFirst'
  <2>1. /\ \A n \in Members, p \in Parts : pos'[n][p] \in {-1, pos[n][p], committed[p]}
        /\ \A c \in commits' : \E d \in commits : d.part = c.part /\ d.off = c.off
    BY Zenon, <1>2, <1>a DEF Rebalanced, Stop
  <2>2. committed' = committed /\ handled' = handled
    BY Zenon, <1>2 DEF Rebalanced, Stop
  <2> QED BY Zenon, <2>1, <2>2, HandledFirstKept
<1>3. ASSUME NEW m \in Members, Die(m) PROVE HandledFirst'
  <2>1. /\ \A n \in Members, p \in Parts : pos'[n][p] \in {-1, pos[n][p], committed[p]}
        /\ \A c \in commits' : \E d \in commits : d.part = c.part /\ d.off = c.off
    BY Zenon, <1>3, <1>a DEF Die
  <2>2. committed' = committed
    BY Zenon, <1>3 DEF Die
  <2>3. \A p \in Parts : handled[p] \subseteq handled'[p]
    <3>1. CASE state[m] = "handle"
      <4>1. PICK e \in pos[m][cpart[m]] .. cend[m] :
               handled' = [handled EXCEPT ![cpart[m]] = @ \cup pos[m][cpart[m]] .. e - 1]
        BY Zenon, <1>3, <3>1 DEF Die
      <4> QED BY Zenon, <1>t, <4>1 DEF TypeOK
    <3>2. CASE state[m] # "handle"
      BY Zenon, <1>3, <3>2 DEF Die
    <3> QED BY Zenon, <3>1, <3>2
  <2> QED BY Zenon, <2>1, <2>2, <2>3, HandledFirstKept
<1>4. ASSUME NEW m \in Members, NEW p \in Parts, fetchOffset(m, p) PROVE HandledFirst'
  <2>1. \A n \in Members, q \in Parts : pos'[n][q] \in {-1, pos[n][q], committed[q]}
    BY Zenon, <1>4, <1>t DEF fetchOffset, TypeOK
  <2>2. committed' = committed /\ handled' = handled /\ commits' = commits
    BY Zenon, <1>4 DEF fetchOffset
  <2> QED BY Zenon, <2>1, <2>2, HandledFirstKept
<1>5. ASSUME NEW m \in Members, NEW p \in Parts, fetch(m, p) PROVE HandledFirst'
  BY Zenon, <1>5 DEF fetch, SInv, HandledFirst, Done
<1>6. ASSUME NEW m \in Members, HandleBatch(m) PROVE HandledFirst'
  <2> DEFINE p == cpart[m]
             c == [member |-> m, part |-> p, off |-> cend[m], gen |-> cgen[m],
                   checked |-> FALSE, waiting |-> TRUE]
  <2>1. p \in Parts /\ pos[m][p] \in Offsets /\ cend[m] \in Offsets /\ Done(p, pos[m][p])
    BY Zenon, <1>6 DEF HandleBatch, SInv, TInv, TypeOK, BatchKnown, HandledFirst
  <2>2. committed' = committed /\ pos' = pos
    BY Zenon, <1>6 DEF HandleBatch
  <2>3. \A q \in Parts : handled[q] \subseteq handled'[q]
    <3>1. \E X : handled' = [handled EXCEPT ![cpart[m]] = @ \cup X]
      BY Zenon, <1>6 DEF HandleBatch
    <3> QED BY SMTT(60), <1>t, <3>1 DEF TypeOK
  <2>4. CASE commits' = commits
    BY Zenon, <2>2, <2>3, <2>4, HandledFirstKept
  <2>5. CASE commits' = commits \cup {c} /\ handled' = [handled EXCEPT ![p] = @ \cup pos[m][p] .. cend[m] - 1]
    <3>1. \A o \in 0 .. cend[m] - 1 : o \in 0 .. pos[m][p] - 1 \/ o \in pos[m][p] .. cend[m] - 1
      BY SMTT(60), <2>1, OffsetFacts
    <3>2. handled'[p] = handled[p] \cup pos[m][p] .. cend[m] - 1
      BY Zenon, <1>t, <2>1, <2>5 DEF TypeOK
    <3>3. \A o \in 0 .. c.off - 1 : o \in handled'[c.part]
      BY Zenon, <2>1, <3>1, <3>2 DEF Done
    <3>4. \A d \in commits : \A o \in 0 .. d.off - 1 : o \in handled'[d.part]
      BY Zenon, <1>t, <2>3 DEF SInv, HandledFirst, Done, Commit
    <3>5. \A d \in commits' : \A o \in 0 .. d.off - 1 : o \in handled'[d.part]
      BY Zenon, <2>5, <3>3, <3>4
    <3>6. \A q \in Parts : \A o \in 0 .. committed'[q] - 1 : o \in handled'[q]
      BY Zenon, <2>2, <2>3 DEF SInv, HandledFirst, Done
    <3>7. \A n \in Members, q \in Parts : \A o \in 0 .. pos'[n][q] - 1 : o \in handled'[q]
      BY Zenon, <2>2, <2>3 DEF SInv, HandledFirst, Done
    <3> QED BY Zenon, <3>5, <3>6, <3>7 DEF HandledFirst, Done
  <2> QED BY Zenon, <1>6, <2>4, <2>5 DEF HandleBatch
<1>7. ASSUME NEW m \in Members, commitLost(m) PROVE HandledFirst'
  <2>1. \A c \in commits' : \E d \in commits : d.part = c.part /\ d.off = c.off
    BY Zenon, <1>7, <1>t, AbandonFact DEF commitLost
  <2>2. committed' = committed /\ handled' = handled /\ pos' = pos
    BY Zenon, <1>7 DEF commitLost
  <2> QED BY Zenon, <2>1, <2>2, HandledFirstKept
<1>8. ASSUME NEW p \in Parts, Append(p) PROVE HandledFirst'
  BY Zenon, <1>8 DEF Append, consumer, SInv, HandledFirst, Done
<1>9. ASSUME NEW c \in commits, CheckCommit(c) PROVE HandledFirst'
  <2>1. c \in Commit
    BY Zenon, <1>t
  <2>2. [c EXCEPT !.checked = TRUE].part = c.part /\ [c EXCEPT !.checked = TRUE].off = c.off
    BY Zenon, <2>1 DEF Commit
  <2>3. \A e \in commits' : \E d \in commits : d.part = e.part /\ d.off = e.off
    BY Zenon, <1>9, <2>2 DEF CheckCommit
  <2>4. committed' = committed /\ handled' = handled /\ pos' = pos
    BY Zenon, <1>9 DEF CheckCommit, consumer
  <2> QED BY Zenon, <2>3, <2>4, HandledFirstKept
<1>10. ASSUME NEW c \in commits, RefuseCommit(c) PROVE HandledFirst'
  BY Zenon, <1>10 DEF RefuseCommit, SInv, HandledFirst, Done
<1>11. ASSUME NEW c \in commits, Set(c) PROVE HandledFirst'
  <2>1. c.member \in Members /\ c.part \in Parts
    BY Zenon, <1>t DEF Commit
  <2>2. \A p \in Parts : committed'[p] = committed[p] \/ (c.part = p /\ c.off = committed'[p])
    BY Zenon, <1>11, <1>t DEF Set, TypeOK
  <2>3. \A m \in Members, p \in Parts : pos'[m][p] \in {-1, pos[m][p], committed[p]}
                                      \/ (c.part = p /\ c.off = pos'[m][p])
    <3>1. CASE c.waiting
      <4>1. pos' = [pos EXCEPT ![c.member][c.part] = c.off]
        BY Zenon, <1>11, <3>1 DEF Set
      <4> QED BY Zenon, <1>t, <2>1, <4>1 DEF TypeOK
    <3>2. CASE ~c.waiting
      <4>1. pos' = pos
        BY Zenon, <1>11, <3>2 DEF Set
      <4> QED BY Zenon, <4>1
    <3> QED BY Zenon, <3>1, <3>2
  <2>4. handled' = handled /\ commits' \subseteq commits
    BY Zenon, <1>11 DEF Set
  <2> QED BY Zenon, <2>2, <2>3, <2>4, HandledFirstKept
<1>12. ASSUME Restart PROVE HandledFirst'
  <2>1. hwm' = hwm
    BY Zenon, <1>12, <1>t, FaultTyped DEF Restart
  <2>2. handled' = [p \in Parts |-> {o \in handled[p] : o < hwm[p]}]
    BY Zenon, <1>12, <2>1 DEF Restart
  <2>3. \A p \in Parts : handled'[p] = handled[p]
    BY Zenon, <2>2 DEF SInv, HandledInLog
  <2>4. committed' = committed /\ pos' = pos /\ commits' = {}
    BY Zenon, <1>12 DEF Restart
  <2> QED BY Zenon, <2>3, <2>4, HandledFirstKept
<1>13. CASE UNCHANGED vars
  BY Zenon, <1>13 DEF vars, SInv, HandledFirst, Done
<1> QED BY Zenon, <1>1, <1>2, <1>3, <1>4, <1>5, <1>6, <1>7, <1>8, <1>9, <1>10, <1>11, <1>12, <1>13
        DEF Next, Broker, Consumer

\* A power loss is never forgotten.
LEMMA PowerStays == TInv /\ [Next]_vars /\ ~faults'.power => ~faults.power
<1> SUFFICES ASSUME TInv, [Next]_vars PROVE faults' = faults \/ \E k : Fault(k)
  BY Zenon, FaultTyped DEF TInv
<1>1. ASSUME NEW m \in Members, Consumer(m) PROVE faults' = faults \/ \E k : Fault(k)
  BY Zenon, <1>1 DEF Consumer, join, joinLost, Rebalanced, fetchOffset, fetch, HandleBatch, commitLost,
              Stop, Die, NoFault
<1>2. ASSUME Broker PROVE faults' = faults \/ \E k : Fault(k)
  BY Zenon, <1>2 DEF Broker, expireDeadMembers, Append, CheckCommit, RefuseCommit, Set, Restart, NoFault
<1> QED BY Zenon, <1>1, <1>2 DEF Next, vars

\* At-least-once delivery: as long as the broker's disk keeps what it has
\* acknowledged, no commit moves past a record no handler has finished,
\* whatever the members, partitions and other faults (NothingSkipped).
THEOREM AtLeastOnce == Spec => []NothingSkipped
<1> DEFINE KInv == TInv /\ (~faults.power => SInv)
<1>1. Init => KInv
  BY Zenon, TInit, SInit
<1>2. KInv /\ [Next]_vars => KInv'
  BY Zenon, TNext, SNext, PowerStays
<1>3. KInv => NothingSkipped
  BY Zenon DEF SInv, HandledFirst, Done, NothingSkipped
<1> QED BY <1>1, <1>2, <1>3, PTL DEF Spec
-----------------------------------------------------------------------------
(* Exclusive ownership.                                                     *)

LEMMA OneCommitNext == TInv /\ OneCommit /\ [Next]_vars => OneCommit'
<1> SUFFICES ASSUME TInv, OneCommit, [Next]_vars PROVE OneCommit'
  BY Zenon
<1>t. TypeOK /\ commits \subseteq Commit
  BY Zenon DEF TInv, TypeOK
<1>c. \A c \in commits : c.member \in Members
  BY Zenon, <1>t DEF Commit
<1>a. ASSUME NEW m \in Members
      PROVE  \A c \in Abandon(m) : c.waiting => c \in commits /\ c.member # m
  <2> SUFFICES ASSUME NEW c \in Abandon(m), c.waiting PROVE c \in commits /\ c.member # m
    BY Zenon
  <2>1. PICK d \in commits : c = IF d.member = m THEN [d EXCEPT !.waiting = FALSE] ELSE d
    BY Zenon DEF Abandon
  <2>2. d \in Commit
    BY Zenon, <1>t
  <2> QED BY Zenon, <2>1, <2>2 DEF Commit
<1>1. ASSUME NEW m \in Members, NEW s,
             \A c \in commits' : c.waiting => c \in commits /\ c.member # m, Goto(m, s)
      PROVE  OneCommit'
  BY Zenon, <1>1, <1>t, <1>c DEF OneCommit, Goto, TypeOK
<1>2. ASSUME commits' = commits, \A n \in Members : state[n] = "commit" => state'[n] = "commit"
      PROVE  OneCommit'
  BY Zenon, <1>2, <1>c DEF OneCommit
<1>3. ASSUME NEW m \in Members, join(m) \/ joinLost(m) \/ expireDeadMembers(m) PROVE OneCommit'
  BY Zenon, <1>2, <1>3, <1>t DEF join, joinLost, expireDeadMembers, consumer, Goto, TypeOK
<1>4. ASSUME NEW m \in Members, Rebalanced(m) \/ Stop(m) \/ Die(m) PROVE OneCommit'
  <2>1. PICK s : Goto(m, s) /\ commits' = Abandon(m)
    BY Zenon, <1>4 DEF Rebalanced, Stop, Die, EndGeneration
  <2> QED BY Zenon, <1>1, <1>a, <2>1
<1>5. ASSUME NEW m \in Members, NEW p \in Parts, fetchOffset(m, p) \/ fetch(m, p) PROVE OneCommit'
  BY Zenon, <1>2, <1>5, <1>t DEF fetchOffset, fetch, Goto, TypeOK
<1>6. ASSUME NEW m \in Members, HandleBatch(m) PROVE OneCommit'
  <2> DEFINE c == [member |-> m, part |-> cpart[m], off |-> cend[m], gen |-> cgen[m],
                   checked |-> FALSE, waiting |-> TRUE]
  <2>1. state[m] = "handle" /\ \A d \in commits : d.waiting => d.member # m
    BY Zenon, <1>6 DEF HandleBatch, OneCommit
  <2>2. CASE commits' = commits /\ Goto(m, "poll")
    BY Zenon, <1>1, <2>1, <2>2
  <2>3. CASE commits' = commits \cup {c} /\ Goto(m, "commit")
    <3>1. c.member = m
      BY Zenon
    <3>2. \A d \in commits' : d.waiting => state'[d.member] = "commit"
      BY ZenonT(60), <1>t, <1>c, <2>3, <3>1 DEF OneCommit, Goto, TypeOK
    <3>3. \A d, e \in commits' : d.waiting /\ e.waiting /\ d.member = e.member => d = e
      <4>1. \A d \in commits' : d \in commits \/ d = c
        BY Zenon, <2>3
      <4> HIDE DEF c
      <4> QED BY Zenon, <2>1, <3>1, <4>1 DEF OneCommit
    <3> QED BY Zenon, <3>2, <3>3 DEF OneCommit
  <2> QED BY Zenon, <1>6, <2>2, <2>3 DEF HandleBatch
<1>7. ASSUME NEW m \in Members, commitLost(m) PROVE OneCommit'
  <2>1. \A c \in commits' : c.waiting => c \in commits /\ c.member # m
    BY Zenon, <1>7, <1>a DEF commitLost
  <2> QED BY Zenon, <1>1, <1>7, <2>1 DEF commitLost
<1>8. ASSUME NEW p \in Parts, Append(p) PROVE OneCommit'
  BY Zenon, <1>2, <1>8 DEF Append, consumer
<1>9. ASSUME NEW c \in commits, CheckCommit(c) PROVE OneCommit'
  <2> DEFINE d == [c EXCEPT !.checked = TRUE]
  <2>1. d.member = c.member /\ d.waiting = c.waiting
    BY Zenon, <1>t DEF Commit
  <2>2. commits' = (commits \ {c}) \cup {d} /\ state' = state
    BY Zenon, <1>9 DEF CheckCommit, consumer
  <2> HIDE DEF d
  <2>3. \A e \in commits' : e \in commits \/ e = d
    BY Zenon, <2>2
  <2>4. \A e \in commits' : e.waiting => state'[e.member] = "commit"
    BY Zenon, <2>1, <2>2, <2>3 DEF OneCommit
  <2>5. \A e, f \in commits' : e.waiting /\ f.waiting /\ e.member = f.member => e = f
    BY SMTT(60), <2>1, <2>2 DEF OneCommit
  <2> QED BY Zenon, <2>4, <2>5 DEF OneCommit
<1>10. ASSUME NEW c \in commits, RefuseCommit(c) \/ Set(c) PROVE OneCommit'
  <2>1. commits' = commits \ {c}
    BY Zenon, <1>10 DEF RefuseCommit, Set
  <2>2. CASE c.waiting
    <3>1. Goto(c.member, "poll")
      BY Zenon, <1>10, <2>2 DEF RefuseCommit, Set, Goto
    <3>2. \A d \in commits' : d.waiting => d \in commits /\ d.member # c.member
      BY Zenon, <2>1, <2>2 DEF OneCommit
    <3> QED BY Zenon, <1>1, <1>c, <3>1, <3>2
  <2>3. CASE ~c.waiting
    <3>1. state' = state
      BY Zenon, <1>10, <2>3 DEF RefuseCommit, Set
    <3> QED BY Zenon, <2>1, <3>1 DEF OneCommit
  <2> QED BY Zenon, <2>2, <2>3
<1>11. ASSUME Restart PROVE OneCommit'
  BY Zenon, <1>11 DEF Restart, OneCommit
<1>12. CASE UNCHANGED vars
  BY Zenon, <1>12 DEF vars, OneCommit
<1> QED BY Zenon, <1>3, <1>4, <1>5, <1>6, <1>7, <1>8, <1>9, <1>10, <1>11, <1>12 DEF Next, Broker, Consumer

OInv == TypeOK /\ OneCommit /\ Dealt /\ ViewCurrent

LEMMA OInit == Init => OInv
<1> SUFFICES ASSUME Init PROVE OInv
  BY Zenon
<1>1. TypeOK
  BY Zenon, TInit DEF TInv
<1>2. Dealt
  BY Zenon DEF Init, Dealt, rangeAssign
<1> QED BY Zenon, <1>1, <1>2 DEF Init, OInv, ViewCurrent, OneCommit

\* A membership change gives every running member an older generation.
LEMMA RebalanceView ==
    ASSUME OInv, NEW ms \in SUBSET Members, rebalanceLocked(ms),
           \A n \in Members : n \in ms /\ Running(n) => n \in members
    PROVE  /\ Dealt'
           /\ \A n \in Members : n \in members' /\ Running(n) => cgen[n] < generation'
<1>1. generation \in Nat /\ \A n \in Members : cgen[n] \in Nat
  BY Zenon DEF OInv, TypeOK
<1>2. Dealt'
  BY Zenon DEF rebalanceLocked, Dealt
<1>3. ms # {} => generation' = generation + 1
  BY Zenon DEF rebalanceLocked
<1> QED BY SMTT(60), <1>1, <1>2, <1>3 DEF OInv, ViewCurrent, rebalanceLocked

\* The same for the three ways to change the membership, or not to.
LEMMA CoordinatorView ==
    ASSUME OInv, NEW m \in Members,
           Remove(m) \/ UNCHANGED coordinator \/ (JoinGroup(m) /\ ~Running(m))
    PROVE  /\ Dealt'
           /\ \A n \in Members : n \in members' /\ Running(n) =>
                 /\ cgen[n] <= generation'
                 /\ cgen[n] = generation' => cparts[n] = assignments'[n]
<1>t. members \subseteq Members /\ generation \in Nat /\ \A n \in Members : cgen[n] \in Nat
  BY Zenon DEF OInv, TypeOK
<1>1. CASE UNCHANGED coordinator
  BY Zenon, <1>1 DEF coordinator, OInv, Dealt, ViewCurrent
<1>2. CASE rebalanceLocked(members \ {m}) \/ (rebalanceLocked(members \cup {m}) /\ ~Running(m))
  <2>1. PICK ms \in SUBSET Members : /\ rebalanceLocked(ms)
                                     /\ \A n \in Members : n \in ms /\ Running(n) => n \in members
    BY Zenon, <1>2, <1>t
  <2>2. Dealt' /\ \A n \in Members : n \in members' /\ Running(n) => cgen[n] < generation'
    BY Zenon, <2>1, RebalanceView
  <2>3. generation' \in Nat
    BY SMTT(60), <1>t, <2>1 DEF rebalanceLocked
  <2> QED BY SMTT(60), <1>t, <2>2, <2>3
<1> QED BY Zenon, <1>1, <1>2 DEF Remove, JoinGroup

\* Dealt and ViewCurrent are preserved by every step.
LEMMA ONext == TInv /\ OInv /\ [Next]_vars => OInv'
<1> SUFFICES ASSUME TInv, OInv, [Next]_vars PROVE Dealt' /\ ViewCurrent'
  BY Zenon, TNext, OneCommitNext DEF OInv, TInv
<1>t. TypeOK /\ TypeOK'
  BY Zenon, TNext DEF TInv
<1>1. ASSUME NEW m \in Members, join(m) PROVE Dealt' /\ ViewCurrent'
  <2>1. /\ Dealt'
        /\ \A n \in Members : n \in members' /\ Running(n) =>
              /\ cgen[n] <= generation'
              /\ cgen[n] = generation' => cparts[n] = assignments'[n]
    BY Zenon, <1>1, CoordinatorView DEF join, Running
  <2>2. ASSUME NEW n \in Members, n \in members', Running(n)'
        PROVE  cgen'[n] <= generation' /\ (cgen'[n] = generation' => cparts'[n] = assignments'[n])
    <3>1. CASE n = m
      BY SMTT(60), <1>1, <1>t, <3>1 DEF join, TypeOK
    <3>2. CASE n # m
      <4>1. Running(n) /\ cgen'[n] = cgen[n] /\ cparts'[n] = cparts[n]
        BY Zenon, <1>1, <1>t, <2>2, <3>2 DEF join, Running, Goto, TypeOK
      <4> QED BY Zenon, <2>1, <2>2, <4>1
    <3> QED BY Zenon, <3>1, <3>2
  <2> QED BY Zenon, <2>1, <2>2 DEF ViewCurrent
<1>2. ASSUME NEW m \in Members, joinLost(m) \/ expireDeadMembers(m) PROVE Dealt' /\ ViewCurrent'
  <2>1. Remove(m) \/ (JoinGroup(m) /\ ~Running(m))
    BY Zenon, <1>2 DEF joinLost, expireDeadMembers, Running
  <2>2. state' = state /\ cgen' = cgen /\ cparts' = cparts
    BY Zenon, <1>2 DEF joinLost, expireDeadMembers, consumer
  <2>3. /\ Dealt'
        /\ \A n \in Members : n \in members' /\ Running(n) =>
              /\ cgen[n] <= generation'
              /\ cgen[n] = generation' => cparts[n] = assignments'[n]
    BY Zenon, <2>1, CoordinatorView
  <2> QED BY Zenon, <2>2, <2>3 DEF ViewCurrent, Running
<1>3. ASSUME NEW m \in Members, NEW s \in {"out", "down"}, EndGeneration(m, s),
             Remove(m) \/ UNCHANGED coordinator
      PROVE  Dealt' /\ ViewCurrent'
  <2>1. \A n \in Members : Running(n)' => Running(n) /\ cgen'[n] = cgen[n] /\ cparts'[n] = cparts[n]
    BY Zenon, <1>3, <1>t DEF EndGeneration, Goto, Running, TypeOK
  <2>2. /\ Dealt'
        /\ \A n \in Members : n \in members' /\ Running(n) =>
              /\ cgen[n] <= generation'
              /\ cgen[n] = generation' => cparts[n] = assignments'[n]
    BY Zenon, <1>3, CoordinatorView
  <2> QED BY Zenon, <2>1, <2>2 DEF ViewCurrent
<1>4. ASSUME NEW m \in Members, Rebalanced(m) \/ Stop(m) \/ Die(m) PROVE Dealt' /\ ViewCurrent'
  <2>1. (EndGeneration(m, "out") \/ EndGeneration(m, "down")) /\ (Remove(m) \/ UNCHANGED coordinator)
    BY Zenon, <1>4 DEF Rebalanced, Stop, Die, coordinator
  <2> QED BY Zenon, <1>3, <2>1
<1>5. ASSUME UNCHANGED <<coordinator, cgen, cparts>>, \A n \in Members : Running(n)' => Running(n)
      PROVE  Dealt' /\ ViewCurrent'
  BY Zenon, <1>5 DEF coordinator, OInv, Dealt, ViewCurrent
<1>6. ASSUME NEW m \in Members, NEW p \in Parts,
             fetchOffset(m, p) \/ fetch(m, p) \/ HandleBatch(m) \/ commitLost(m)
      PROVE  Dealt' /\ ViewCurrent'
  <2>1. UNCHANGED <<coordinator, cgen, cparts>>
    BY Zenon, <1>6 DEF fetchOffset, fetch, HandleBatch, commitLost, coordinator
  <2>2. \A n \in Members : Running(n)' => Running(n)
    BY Zenon, <1>6, <1>t DEF fetchOffset, fetch, HandleBatch, commitLost, Goto, Running, TypeOK
  <2> QED BY Zenon, <1>5, <2>1, <2>2
<1>7. ASSUME NEW p \in Parts, Append(p) PROVE Dealt' /\ ViewCurrent'
  BY Zenon, <1>5, <1>7 DEF Append, consumer, coordinator, Running
<1>8. ASSUME NEW c \in commits, CheckCommit(c) PROVE Dealt' /\ ViewCurrent'
  BY Zenon, <1>5, <1>8 DEF CheckCommit, consumer, coordinator, Running
<1>9. ASSUME NEW c \in commits, RefuseCommit(c) \/ Set(c) PROVE Dealt' /\ ViewCurrent'
  <2>1. UNCHANGED <<coordinator, cgen, cparts>>
    BY Zenon, <1>9 DEF RefuseCommit, Set, coordinator
  <2>2. c.member \in Members /\ (c.waiting => state[c.member] = "commit")
    BY Zenon, <1>t DEF TypeOK, Commit, OInv, OneCommit
  <2>3. \A n \in Members : Running(n)' => Running(n)
    <3>1. state' = state \/ (c.waiting /\ state' = [state EXCEPT ![c.member] = "poll"])
      BY Zenon, <1>9 DEF RefuseCommit, Set, Goto
    <3>2. state \in [Members -> State]
      BY Zenon, <1>t DEF TypeOK
    <3> QED BY Zenon, <2>2, <3>1, <3>2 DEF Running
  <2> QED BY Zenon, <1>5, <2>1, <2>3
<1>10. ASSUME Restart PROVE Dealt' /\ ViewCurrent'
  BY Zenon, <1>10 DEF Restart, Dealt, ViewCurrent
<1>11. CASE UNCHANGED vars
  BY Zenon, <1>11 DEF vars, OInv, Dealt, ViewCurrent, Running
<1> QED BY SMTT(60), <1>1, <1>2, <1>4, <1>6, <1>7, <1>8, <1>9, <1>10, <1>11, PartitionsAssumption
        DEF Next, Broker, Consumer, Parts

\* Two consumers in the current generation never hold the same partition, even
\* when the group is dropped and its generations start again (SoleConsumer).
THEOREM OneOwner == Spec => []SoleConsumer
<1>1. OInv => SoleConsumer
  <2> SUFFICES ASSUME OInv, NEW m \in Members, NEW n \in Members, m # n,
                      state[m] \notin {"out", "down"}, Current(m, cgen[m]),
                      state[n] \notin {"out", "down"}, Current(n, cgen[n])
               PROVE  cparts[m] \cap cparts[n] = {}
    BY Zenon DEF SoleConsumer
  <2>1. m \in members /\ n \in members /\ members \in SUBSET Members
    BY Zenon DEF Current, OInv, TypeOK
  <2>2. cparts[m] = rangeAssign(members)[m] /\ cparts[n] = rangeAssign(members)[n]
    BY Zenon, <2>1 DEF Current, OInv, ViewCurrent, Running, Dealt
  <2> QED BY Zenon, <2>1, <2>2, RangesDisjoint
<1>2. Init => TInv /\ OInv
  BY Zenon, TInit, OInit
<1>3. TInv /\ OInv /\ [Next]_vars => TInv' /\ OInv'
  BY Zenon, TNext, ONext
<1> QED BY <1>1, <1>2, <1>3, PTL DEF Spec
=============================================================================
