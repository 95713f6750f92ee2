-------------------------- MODULE ReplicationProofs --------------------------
(***************************************************************************)
(* Logs match, committed offsets never fall, and what is committed has     *)
(* been sent to a majority: proofs for every cluster, every number of      *)
(* records and every sequence of faults.                                   *)
(***************************************************************************)
EXTENDS Replication, FiniteSetTheorems, WellFoundedInduction, TLAPS

\* Leaves are proved by Zenon unless they name another prover.
USE Zenon

\* The cluster is one of those given and never changes.
ClusterOK == cluster \in {Placed(c) : c \in Clusters}

\* A request that has not come yet will get an offset at its number or below,
\* and one that has come holds the offset below its number.
Numbered ==
    \A p \in Producers : /\ producer[p].pc = "idle" => hwm[Leader] < p
                         /\ producer[p].pc # "idle" /\ ~lost => p <= hwm[Leader]

\* Record o + 1 is the only one offset o ever holds while the leader loses none.
Content ==
    ~lost => \A n \in Replicas : \A o \in Offsets : log[n][o] \in {NoRecord, Removed, o + 1}

\* A log has no hole but those its own cleaner made.
NoHoles ==
    \A n \in Replicas : \A o \in Offsets :
        (log[n][o] # NoRecord) <=> (first[n] <= o /\ o < hwm[n])

\* No follower is ahead of a leader that lost nothing.
Behind == ~lost => \A f \in Followers : hwm[f] <= hwm[Leader]

\* What an answer a of call c carries: one record for an offset below the end of
\* log it states, and, while the leader loses nothing, an end that is not below
\* that of the follower that waits for it.
CallOK(c, a) ==
    /\ a \in CallRec
    /\ a.first <= a.hwm
    /\ \A r \in a.recs : r[1] < a.hwm
    /\ \A r, q \in a.recs : r[1] = q[1] => r = q
    /\ ~lost => /\ \A r \in a.recs : r[2] = r[1] + 1
                /\ a.hwm <= hwm[Leader]
                /\ c[2] = "now" /\ a.st \in {"noted", "answered"} => hwm[c[1]] <= a.hwm

Answers == \A c \in Calls : CallOK(c, call[c])

IInv == ClusterOK /\ TypeOK /\ Numbered /\ Content /\ NoHoles /\ Behind /\ Answers
-----------------------------------------------------------------------------
(* The operators.                                                           *)

\* A set of numbers has a least one.
LEMMA MinOf ==
    ASSUME NEW S, S \subseteq Nat, S # {}
    PROVE  Min(S) \in S /\ \A x \in S : Min(S) <= x
<1> DEFINE R == {ss \in Nat \X Nat : ss[1] < ss[2]}
<1>1. IsWellFoundedOn(R, Nat)
  BY NatLessThanWellFounded DEF OpToRel
<1>2. PICK x \in S : \A y \in S : ~ (<<y, x>> \in R)
  <2> HIDE DEF R
  <2> QED BY <1>1, WFMin
<1>3. ASSUME NEW y \in S PROVE x <= y
  <2>1. ~ (<<y, x>> \in R)
    BY <1>2
  <2>2. <<y, x>> \in Nat \X Nat
    OBVIOUS
  <2>3. ~ (y < x)
    BY <2>1, <2>2
  <2> QED BY SMTT(60), <2>3
<1> QED BY <1>3 DEF Min

LEMMA MinOfTwo ==
    ASSUME NEW x \in Int, NEW y \in Int
    PROVE  Min({x, y}) = IF x <= y THEN x ELSE y
BY SMTT(60) DEF Min

\* AssignmentFor gives a leader and its followers, finitely many.
LEMMA Places ==
    ASSUME ClusterOK
    PROVE  /\ Leader \in Replicas /\ Followers = Replicas \ {Leader}
           /\ Bound \in Nat /\ ReplicationFactor \in Nat \ {0}
           /\ AckModes \subseteq {"leader", "all"}
           /\ IsFiniteSet(Followers)
<1>1. PICK c \in Clusters : cluster = Placed(c)
  BY DEF ClusterOK
<1> DEFINE a == AssignmentFor(c)
<1>2. c.rf \in Nat \ {0} /\ c.bound \in Nat /\ c.acks \subseteq {"leader", "all"}
  BY SMTT(60), ClustersAssumption
<1>3. a \in [0 .. c.rf - 1 -> {a[i] : i \in DOMAIN a}] /\ DOMAIN a = 0 .. c.rf - 1
  BY DEF AssignmentFor
<1>4. a[0] \in {a[i] : i \in DOMAIN a}
  BY SMTT(60), <1>2, <1>3
<1>5. /\ Leader = a[0] /\ Replicas = {a[i] : i \in DOMAIN a} /\ Followers = Replicas \ {Leader}
      /\ Bound = c.bound /\ ReplicationFactor = c.rf /\ AckModes = c.acks
  BY <1>1 DEF Placed, Leader, Replicas, Followers, Bound, ReplicationFactor, AckModes
<1>6. a \in Surjection(0 .. c.rf - 1, Replicas)
  BY <1>3, <1>5 DEF Surjection
<1>7. IsFiniteSet(0 .. c.rf - 1)
  BY SMTT(60), <1>2, FS_Interval
<1>8. IsFiniteSet(Replicas)
  BY <1>6, <1>7, FS_Surjection
<1>9. IsFiniteSet(Followers)
  BY <1>5, <1>8, FS_Subset
<1> QED BY <1>2, <1>4, <1>5, <1>9

\* A set of records for the offsets from lo up to hi has as many as there are.
LEMMA RecordCount ==
    ASSUME NEW R, NEW lo \in Int, NEW hi \in Int, \A r, q \in R : r[1] = q[1] => r = q,
           {r[1] : r \in R} = lo .. hi - 1, lo <= hi
    PROVE  Cardinality(R) = hi - lo
<1> DEFINE g == [r \in R |-> r[1]]
<1>1. g \in Bijection(R, lo .. hi - 1)
  BY DEF Bijection, Injection, Surjection, IsInjective
<1>2. IsFiniteSet(lo .. hi - 1) /\ Cardinality(lo .. hi - 1) = hi - lo
  BY SMTT(60), FS_Interval
<1>3. IsFiniteSet(R) /\ Cardinality(R) = Cardinality(lo .. hi - 1)
  BY <1>1, <1>2, FS_Injection, Z3 DEF Bijection
<1> QED BY <1>2, <1>3

\* The record AppendReplica writes at an offset of a contiguous batch is the one
\* the batch has for it.
LEMMA RecordForOffset ==
    ASSUME NEW f, NEW a, NEW o \in Int, hwm[f] \in Int, Cardinality(a.recs) \in Int,
           \A r, q \in a.recs : r[1] = q[1] => r = q,
           Contiguous(f, a), o \in hwm[f] .. hwm[f] + Cardinality(a.recs) - 1
    PROVE  \E r \in a.recs : r[1] = o /\ RecordFor(f, a, o) = r[2]
<1> DEFINE Below(x) == {q \in a.recs : q[1] < x}
<1>1. ASSUME NEW x \in hwm[f] .. hwm[f] + Cardinality(a.recs) - 1
      PROVE  Cardinality(Below(x)) = x - hwm[f]
  <2>1. {q[1] : q \in Below(x)} = hwm[f] .. x - 1
    BY SMTT(60) DEF Contiguous
  <2>2. \A r, q \in Below(x) : r[1] = q[1] => r = q
    OBVIOUS
  <2>3. x \in Int /\ hwm[f] <= x
    BY SMTT(60)
  <2> HIDE DEF Below
  <2> QED BY <2>1, <2>2, <2>3, RecordCount
<1>2. PICK r \in a.recs : r[1] = o
  BY DEF Contiguous
<1>3. Cardinality(Below(r[1])) = o - hwm[f]
  BY <1>1, <1>2
<1>4. ASSUME NEW q \in a.recs, Cardinality(Below(q[1])) = o - hwm[f]
      PROVE  q = r
  <2>1. q[1] \in hwm[f] .. hwm[f] + Cardinality(a.recs) - 1
    BY DEF Contiguous
  <2>2. q[1] - hwm[f] = o - hwm[f] /\ q[1] \in Int
    BY SMTT(60), <2>1, <1>1, <1>4
  <2> QED BY SMTT(60), <2>2, <1>2
<1>5. (CHOOSE q \in a.recs : Cardinality(Below(q[1])) = o - hwm[f]) = r
  BY <1>3, <1>4
<1> QED BY <1>2, <1>5 DEF RecordFor

\* Partition.Read returns records between the offset asked for and the end.
LEMMA ReadWithin ==
    ASSUME ClusterOK, TypeOK, NEW off \in 0 .. hwm[Leader]
    PROVE  /\ Read(off) \subseteq Offsets
           /\ \A o \in Read(off) : off <= o /\ o < hwm[Leader] /\ log[Leader][o] \in Records
           /\ Cardinality(Read(off)) \in Nat /\ off + Cardinality(Read(off)) <= hwm[Leader]
<1>1. Leader \in Replicas /\ hwm[Leader] \in Nat /\ hwm[Leader] <= Bound /\ Bound \in Nat
  BY SMTT(60), Places DEF TypeOK
<1>2. /\ Read(off) \subseteq Offsets
      /\ \A o \in Read(off) : off <= o /\ o < hwm[Leader] /\ log[Leader][o] \in Records
  BY SMTT(60), <1>1 DEF TypeOK, Read
<1>3. Read(off) \subseteq off .. hwm[Leader] - 1
  BY SMTT(60), <1>1, <1>2 DEF Offsets
<1>4. IsFiniteSet(off .. hwm[Leader] - 1) /\ Cardinality(off .. hwm[Leader] - 1) = hwm[Leader] - off
  <2>1. off \in Int /\ hwm[Leader] - 1 \in Int /\ off <= hwm[Leader]
    BY SMTT(60), <1>1
  <2> DEFINE h == hwm[Leader] - 1
  <2>2. IsFiniteSet(off .. h) /\ Cardinality(off .. h) = IF off > h THEN 0 ELSE h - off + 1
    <3> HIDE DEF h
    <3> QED BY <2>1, FS_Interval DEF h
  <2> QED BY SMTT(60), <1>1, <2>1, <2>2
<1>5. IsFiniteSet(Read(off)) /\ Cardinality(Read(off)) <= hwm[Leader] - off
  <2>1. IsFiniteSet(Read(off)) /\ Cardinality(Read(off)) <= Cardinality(off .. hwm[Leader] - 1)
    BY <1>3, <1>4, FS_Subset
  <2> QED BY <1>4, <2>1
<1> QED BY SMTT(60), <1>1, <1>2, <1>5, FS_CardinalityType

\* What does not change when the cluster does not.
LEMMA Fixed ==
    ASSUME UNCHANGED cluster
    PROVE  /\ Leader' = Leader /\ Replicas' = Replicas /\ Followers' = Followers
           /\ Bound' = Bound /\ AckModes' = AckModes /\ FaultKinds' = FaultKinds
           /\ Calls' = Calls /\ Offsets' = Offsets /\ Records' = Records
           /\ Producers' = Producers /\ CallRec' = CallRec /\ quorum' = quorum
           /\ (ClusterOK => ClusterOK')
BY DEF Leader, Replicas, Followers, Bound, AckModes, FaultKinds, Calls, Offsets, Records,
       Producers, CallRec, quorum, ReplicationFactor, ClusterOK
-----------------------------------------------------------------------------
(* Initially.                                                               *)

LEMMA Initially == Init => IInv
<1> SUFFICES ASSUME Init PROVE IInv
  OBVIOUS
<1>1. ClusterOK
  BY DEF Init, ClusterOK
<1>2. Leader \in Replicas /\ Followers \subseteq Replicas /\ Bound \in Nat
  BY <1>1, Places
<1>3. Idle \in CallRec
  BY SMTT(60), <1>2 DEF Idle, CallRec
<1>4. TypeOK
  <2>1. /\ known \in [Replicas -> BOOLEAN] /\ up \in [Replicas -> {"up", "leaving", "down"}]
        /\ alive \in [Followers -> BOOLEAN] /\ lost \in BOOLEAN /\ faults \subseteq FaultKinds
    BY DEF Init
  <2>2. /\ log \in [Replicas -> [Offsets -> Records \cup {NoRecord, Removed}]]
        /\ call \in [Calls -> CallRec]
    BY <1>3 DEF Init
  <2>3. /\ first \in [Replicas -> 0 .. Bound] /\ hwm \in [Replicas -> 0 .. Bound]
        /\ committed \in [Replicas -> 0 .. Bound] /\ progress \in [Followers -> None .. Bound]
        /\ sent \in [Followers -> 0 .. Bound] /\ \A n \in Replicas : first[n] <= hwm[n]
    BY SMTT(60), <1>2 DEF Init, None
  <2>4. producer \in [Producers -> [pc : {"idle", "noted", "wait", "acked", "refused"},
                                    acks : {"leader", "all"}, end : 0 .. Bound]]
    BY SMTT(60), <1>2 DEF Init
  <2> QED BY <2>1, <2>2, <2>3, <2>4 DEF TypeOK
<1>5. Numbered
  BY SMTT(60), <1>2 DEF Init, Numbered, Producers
<1>7. Content /\ NoHoles /\ Behind
  BY SMTT(60), <1>2 DEF Init, Content, NoHoles, Behind, Offsets
<1>6. Answers
  BY SMTT(60), <1>2, <1>3 DEF Init, Answers, CallOK, Idle
<1> QED BY <1>1, <1>4, <1>5, <1>6, <1>7 DEF IInv
-----------------------------------------------------------------------------
(* Steps that leave the logs alone.                                         *)

LEMMA LogsKept ==
    ASSUME IInv, UNCHANGED <<cluster, log, first, hwm, lost>>,
           known' \in [Replicas -> BOOLEAN],
           up' \in [Replicas -> {"up", "leaving", "down"}],
           committed' \in [Replicas -> 0 .. Bound],
           progress' \in [Followers -> None .. Bound], sent' \in [Followers -> 0 .. Bound],
           alive' \in [Followers -> BOOLEAN],
           producer' \in [Producers -> [pc : {"idle", "noted", "wait", "acked", "refused"},
                                        acks : {"leader", "all"}, end : 0 .. Bound]],
           \A p \in Producers : producer'[p].pc = "idle" <=> producer[p].pc = "idle",
           faults' \subseteq FaultKinds,
           call' \in [Calls -> CallRec], \A c \in Calls : CallOK(c, call'[c])
    PROVE  IInv'
<1> USE Fixed
<1>1. ClusterOK'
  BY DEF IInv
<1>2. TypeOK'
  BY DEF IInv, TypeOK
<1>3. Numbered' /\ Content' /\ NoHoles' /\ Behind'
  BY DEF IInv, Numbered, Content, NoHoles, Behind
<1>4. Answers'
  BY DEF IInv, Answers, CallOK
<1> QED BY <1>1, <1>2, <1>3, <1>4 DEF IInv

\* setCommitted raises one mark.
LEMMA Raises ==
    ASSUME IInv, NEW n \in Replicas, NEW off \in 0 .. Bound, setCommitted(n, off)
    PROVE  /\ committed' \in [Replicas -> 0 .. Bound]
           /\ \A m \in Replicas : committed'[m] >= committed[m]
           /\ \A m \in Replicas : committed'[m] = committed[m] \/ (m = n /\ committed'[m] = off)
BY SMTT(60) DEF IInv, TypeOK, setCommitted

\* maybeAdvanceCommit raises the leader's mark at most, to a value no in-sync
\* follower is behind and only when those followers and the leader are a majority.
LEMMA Advances ==
    ASSUME IInv, NEW end \in 0 .. Bound, maybeAdvanceCommit(end)
    PROVE  /\ committed' \in [Replicas -> 0 .. Bound]
           /\ \A m \in Replicas : committed'[m] >= committed[m]
           /\ \A m \in Replicas \ {Leader} : committed'[m] = committed[m]
           /\ \/ committed'[Leader] = committed[Leader]
              \/ /\ Cardinality(isr(end)) + 1 >= quorum
                 /\ committed'[Leader] <= end
                 /\ \A f \in isr(end) : committed'[Leader] <= progress[f]
<1>1. Leader \in Replicas /\ Bound \in Nat /\ ReplicationFactor \in Nat /\ IsFiniteSet(Followers)
  BY Places DEF IInv
<1> DEFINE S == {end} \cup {progress[f] : f \in isr(end)}
           m == Min(S)
<1>2. S \subseteq 0 .. Bound
  BY SMTT(60), <1>1 DEF IInv, TypeOK, isr, None
<1>3. m \in S /\ \A x \in S : m <= x
  <2> HIDE DEF S
  <2>1. S \subseteq Nat
    BY SMTT(60), <1>2
  <2>2. S # {}
    BY DEF S
  <2> QED BY <2>1, <2>2, MinOf
<1>4. m \in 0 .. Bound /\ m <= end /\ \A f \in isr(end) : m <= progress[f]
  BY <1>2, <1>3
<1>5. CASE Cardinality(isr(end)) + 1 < quorum
  BY SMTT(60), <1>1, <1>5 DEF maybeAdvanceCommit, IInv, TypeOK
<1>6. CASE ~(Cardinality(isr(end)) + 1 < quorum)
  <2>1. setCommitted(Leader, m)
    BY <1>6 DEF maybeAdvanceCommit
  <2>2. isr(end) \in SUBSET Followers
    BY DEF isr
  <2>3. Cardinality(isr(end)) \in Nat
    BY <1>1, <2>2, FS_Subset, FS_CardinalityType
  <2>4. Cardinality(isr(end)) + 1 >= quorum
    BY SMTT(60), <1>1, <1>6, <2>3 DEF quorum
  <2> HIDE DEF m
  <2> QED BY SMTT(60), <1>1, <1>4, <2>1, <2>4, Raises DEF IInv, TypeOK
<1> QED BY <1>5, <1>6

\* committedFor is a mark between 0 and the end of log.
LEMMA CommittedForBounds ==
    ASSUME IInv, NEW n \in Replicas
    PROVE  /\ committedFor(n) \in 0 .. Bound /\ committedFor(n) <= hwm[n]
           /\ committedFor(n) <= committed[n]
BY SMTT(60) DEF IInv, TypeOK, committedFor

LEMMA IdleOK ==
    ASSUME IInv, NEW c \in Calls
    PROVE  CallOK(c, Idle)
BY SMTT(60), Places DEF IInv, TypeOK, CallOK, CallRec, Idle

\* handleReplicate answers with what the leader has.
LEMMA AnswerOK ==
    ASSUME IInv, NEW c \in Calls, NEW st \in {"noted", "answered"},
           NEW s \in {"OK", "Truncate", "TopicUnknown"},
           NEW offs \in SUBSET Offsets,
           \A o \in offs : o < hwm[Leader] /\ log[Leader][o] \in Records,
           Answer(c, st, s, offs)
    PROVE  /\ call' \in [Calls -> CallRec]
           /\ \A d \in Calls : CallOK(d, call'[d])
           /\ c[2] = "now" => /\ call'[c].st = st /\ call'[c].status = s
                              /\ call'[c].hwm = hwm[Leader]
                              /\ call'[c].committed = committedFor(Leader)
                              /\ {r[1] : r \in call'[c].recs} = offs
           /\ \A d \in Calls \ {c} : call'[d] = call[d]
<1> DEFINE R == {<<o, log[Leader][o]>> : o \in offs}
           a == [st |-> st, off |-> 0, status |-> s, first |-> first[Leader],
                 hwm |-> hwm[Leader], committed |-> committedFor(Leader), recs |-> R]
           b == [Idle EXCEPT !.st = st, !.hwm = hwm[Leader]]
<1>1. /\ Leader \in Replicas /\ Followers = Replicas \ {Leader} /\ Bound \in Nat
      /\ first[Leader] \in 0 .. Bound /\ hwm[Leader] \in 0 .. Bound
      /\ first[Leader] <= hwm[Leader] /\ call \in [Calls -> CallRec]
  BY Places DEF IInv, TypeOK
<1>2. CallOK(c, a)
  <2>1. a \in CallRec
    BY SMTT(60), <1>1, CommittedForBounds DEF CallRec
  <2>2. ~lost => hwm[c[1]] <= hwm[Leader]
    BY <1>1 DEF Calls, IInv, Behind
  <2>3. ~lost => \A r \in R : r[2] = r[1] + 1
    <3>1. ASSUME ~lost, NEW o \in offs PROVE log[Leader][o] = o + 1
      <4>1. o \in Offsets /\ log[Leader][o] \in Records
        OBVIOUS
      <4>2. log[Leader][o] \in {NoRecord, Removed, o + 1}
        BY <1>1, <3>1, <4>1 DEF IInv, Content
      <4>3. NoRecord \notin Records /\ Removed \notin Records
        BY SMTT(60), <1>1 DEF Records, NoRecord, Removed
      <4> QED BY <4>1, <4>2, <4>3
    <3> QED BY SMTT(60), <3>1
  <2>4. a.first <= a.hwm /\ a.hwm <= hwm[Leader] /\ a.hwm = hwm[Leader] /\ a.recs = R
    BY SMTT(60), <1>1
  <2>5. \A r \in R : r[1] < hwm[Leader]
    BY SMTT(60)
  <2>6. \A r, q \in R : r[1] = q[1] => r = q
    BY SMTT(60)
  <2> HIDE DEF a, R
  <2> QED BY <2>1, <2>2, <2>3, <2>4, <2>5, <2>6 DEF CallOK
<1>3. c[2] = "late" => CallOK(c, b)
  <2>1. b.st = st /\ b.hwm = hwm[Leader] /\ b.first = 0 /\ b.recs = {}
    BY DEF Idle
  <2>2. b \in CallRec
    <3>1. Idle \in CallRec
      BY IdleOK DEF CallOK
    <3> QED BY <1>1, <3>1 DEF CallRec
  <2> HIDE DEF b
  <2> QED BY SMTT(60), <1>1, <2>1, <2>2 DEF CallOK
<1>4. CallOK(c, Idle)
  BY IdleOK
<1>5. call' = [call EXCEPT ![c] = IF c[2] = "late" THEN IF st = "noted" THEN b ELSE Idle ELSE a]
  BY DEF Answer
<1>6. CallOK(c, call'[c])
  BY <1>1, <1>2, <1>3, <1>4, <1>5
<1>7. \A d \in Calls \ {c} : call'[d] = call[d]
  BY <1>1, <1>5
<1>8. \A d \in Calls : CallOK(d, call'[d])
  BY <1>6, <1>7 DEF IInv, Answers
<1>9. call' \in [Calls -> CallRec]
  BY <1>1, <1>5, <1>8 DEF CallOK
<1>10. c[2] = "now" => call'[c] = a
  BY <1>1, <1>5
<1>11. {r[1] : r \in R} = offs
  <2>1. ASSUME NEW o \in offs PROVE <<o, log[Leader][o]>> \in R /\ <<o, log[Leader][o]>>[1] = o
    OBVIOUS
  <2>2. ASSUME NEW r \in R PROVE r[1] \in offs
    BY SMTT(60)
  <2> HIDE DEF R
  <2> QED BY <2>1, <2>2
<1> QED BY SMTT(60), <1>7, <1>8, <1>9, <1>10, <1>11
-----------------------------------------------------------------------------
(* The steps that leave the logs alone.                                     *)

LEMMA HandleStep ==
    ASSUME IInv, UNCHANGED cluster, NEW c \in Calls, handleReplicate(c)
    PROVE  IInv'
<1>1. /\ call[c].off \in Nat /\ hwm[Leader] \in 0 .. Bound /\ first[Leader] \in 0 .. hwm[Leader]
      /\ Bound \in Nat /\ c[1] \in Followers /\ progress \in [Followers -> None .. Bound]
      /\ sent \in [Followers -> 0 .. Bound]
  BY SMTT(60), Places DEF IInv, TypeOK, Calls, CallRec
<1> DEFINE off == call[c].off
<1>2. /\ call' \in [Calls -> CallRec] /\ \A d \in Calls : CallOK(d, call'[d])
      /\ progress' \in [Followers -> None .. Bound] /\ sent' \in [Followers -> 0 .. Bound]
  <2>1. CASE ~known[Leader] \/ off > hwm[Leader] \/ (off < first[Leader] /\ off # hwm[Leader])
    <3>1. UNCHANGED <<progress, sent>>
      BY <2>1 DEF handleReplicate, table
    <3>2. Answer(c, "answered", "TopicUnknown", {}) \/ Answer(c, "answered", "Truncate", {})
      BY <2>1 DEF handleReplicate
    <3> QED BY SMTT(60), <1>1, <3>1, <3>2, AnswerOK
  <2>2. CASE ~(~known[Leader] \/ off > hwm[Leader] \/ (off < first[Leader] /\ off # hwm[Leader]))
    <3>1. /\ Answer(c, "noted", "OK", Read(off))
          /\ noteFollowerProgress(c[1], off + Cardinality(Read(off)))
      BY <2>2 DEF handleReplicate
    <3>2. off \in 0 .. hwm[Leader]
      BY SMTT(60), <1>1, <2>2
    <3> HIDE DEF off
    <3>3. /\ Read(off) \in SUBSET Offsets
          /\ \A o \in Read(off) : o < hwm[Leader] /\ log[Leader][o] \in Records
          /\ Cardinality(Read(off)) \in Nat /\ off + Cardinality(Read(off)) <= hwm[Leader]
      BY <3>2, ReadWithin DEF IInv
    <3>4. call' \in [Calls -> CallRec] /\ \A d \in Calls : CallOK(d, call'[d])
      BY <3>1, <3>3, AnswerOK
    <3>5. off + Cardinality(Read(off)) \in None .. Bound /\ off + Cardinality(Read(off)) \in 0 .. Bound
      BY SMTT(60), <1>1, <3>2, <3>3 DEF None
    <3> QED BY <1>1, <3>1, <3>4, <3>5 DEF noteFollowerProgress
  <2> QED BY <2>1, <2>2
<1>3. UNCHANGED <<known, up, log, first, hwm, committed, alive, producer, lost, faults>>
  BY DEF handleReplicate, logs, table
<1> QED BY <1>2, <1>3, LogsKept DEF IInv, TypeOK

LEMMA RespondStep ==
    ASSUME IInv, UNCHANGED cluster, NEW c \in Calls, Respond(c)
    PROVE  IInv'
<1>1. call[c] \in CallRec /\ call[c].hwm \in 0 .. Bound /\ call \in [Calls -> CallRec]
  BY DEF IInv, TypeOK, CallRec
<1>2. committed' \in [Replicas -> 0 .. Bound]
  BY <1>1, Advances DEF Respond
<1>3. CallOK(c, call[c]) /\ CallOK(c, Idle)
  BY IdleOK DEF IInv, Answers
<1>4. call[c].st = "noted" /\ CallOK(c, [call[c] EXCEPT !.st = "answered"])
  <2>1. [call[c] EXCEPT !.st = "answered"] \in CallRec
    BY <1>1 DEF CallRec
  <2>2. call[c].st = "noted"
    BY DEF Respond
  <2> QED BY <1>1, <1>3, <2>1, <2>2 DEF CallOK, CallRec
<1>5. call' = [call EXCEPT ![c] = IF c[2] = "now" THEN [call[c] EXCEPT !.st = "answered"] ELSE Idle]
  BY <1>1 DEF Respond
<1>6. call' \in [Calls -> CallRec] /\ \A d \in Calls : CallOK(d, call'[d])
  BY <1>1, <1>3, <1>4, <1>5 DEF IInv, Answers, CallOK
<1>7. UNCHANGED <<known, up, log, first, hwm, progress, sent, alive, producer, lost, faults>>
  BY DEF Respond, logs, table
<1> QED BY <1>2, <1>6, <1>7, LogsKept DEF IInv, TypeOK

LEMMA FollowStep ==
    ASSUME IInv, UNCHANGED cluster, NEW f \in Followers, followOnce(f)
    PROVE  IInv'
<1> DEFINE c == <<f, "now">>
           a == [Idle EXCEPT !.st = "sent", !.off = hwm[f]]
<1>1. c \in Calls /\ hwm[f] \in 0 .. Bound /\ call \in [Calls -> CallRec] /\ Idle \in CallRec
  BY SMTT(60), IdleOK, Places DEF IInv, TypeOK, Calls, CallOK
<1>2. a.st = "sent" /\ a.hwm = 0 /\ a.first = 0 /\ a.recs = {}
  BY DEF Idle
<1>3. a \in CallRec
  BY <1>1 DEF CallRec
<1>4. CallOK(c, a)
  <2>1. hwm[Leader] \in Nat
    BY SMTT(60), Places DEF IInv, TypeOK
  <2> HIDE DEF a
  <2> QED BY SMTT(60), <1>2, <1>3, <2>1 DEF CallOK
<1>5. call' = [call EXCEPT ![c] = a]
  BY DEF followOnce
<1>6. call' \in [Calls -> CallRec] /\ \A d \in Calls : CallOK(d, call'[d])
  <2> HIDE DEF a, c
  <2> QED BY <1>1, <1>3, <1>4, <1>5 DEF IInv, Answers
<1>7. UNCHANGED <<known, up, log, first, hwm, committed, progress, sent, alive, producer, lost, faults>>
  BY DEF followOnce, logs, table
<1> QED BY <1>6, <1>7, LogsKept DEF IInv, TypeOK

\* What the leader still works at is as good for a call that nobody waits for.
LEMMA AbandonedOK ==
    ASSUME IInv, NEW f \in Followers
    PROVE  CallOK(<<f, "late">>, Abandoned(f))
<1> DEFINE c == <<f, "now">>
           d == <<f, "late">>
           b == [Idle EXCEPT !.st = "noted", !.hwm = call[c].hwm]
<1>1. c \in Calls /\ d \in Calls /\ CallOK(c, call[c]) /\ CallOK(d, call[d]) /\ CallOK(d, Idle)
  BY IdleOK DEF IInv, Calls, Answers
<1>2. CallOK(d, b)
  <2>1. b.st = "noted" /\ b.hwm = call[c].hwm /\ b.first = 0 /\ b.recs = {}
    BY DEF Idle
  <2>2. Idle \in CallRec /\ call[c] \in CallRec /\ call[c].hwm \in 0 .. Bound
    BY <1>1 DEF CallOK, CallRec
  <2>3. b \in CallRec
    BY <2>2 DEF CallRec
  <2>4. ~lost => call[c].hwm <= hwm[Leader]
    BY <1>1 DEF CallOK
  <2> HIDE DEF b, c
  <2> QED BY SMTT(60), <2>1, <2>2, <2>3, <2>4 DEF CallOK
<1>3. CallOK(d, call[c])
  BY <1>1 DEF CallOK
<1>4. Abandoned(f) \in {call[c], b, call[d]}
  BY DEF Abandoned
<1> QED BY <1>1, <1>2, <1>3, <1>4

\* The calls of a follower that gives up or goes away.
LEMMA Abandons ==
    ASSUME IInv, NEW f \in Followers,
           call' = [call EXCEPT ![<<f, "now">>] = Idle, ![<<f, "late">>] = Abandoned(f)]
    PROVE  call' \in [Calls -> CallRec] /\ \A d \in Calls : CallOK(d, call'[d])
<1>1. /\ call \in [Calls -> CallRec] /\ <<f, "now">> \in Calls /\ <<f, "late">> \in Calls
      /\ <<f, "now">> # <<f, "late">>
  BY DEF IInv, TypeOK, Calls
<1>2. CallOK(<<f, "now">>, Idle) /\ CallOK(<<f, "late">>, Abandoned(f))
  BY <1>1, IdleOK, AbandonedOK
<1>3. Idle \in CallRec /\ Abandoned(f) \in CallRec
  BY <1>2 DEF CallOK
<1>4. /\ call'[<<f, "now">>] = Idle /\ call'[<<f, "late">>] = Abandoned(f)
      /\ \A d \in Calls \ {<<f, "now">>, <<f, "late">>} : call'[d] = call[d]
  BY <1>1, Zenon
<1>5. call' \in [Calls -> CallRec]
  BY <1>1, <1>3
<1> QED BY <1>2, <1>4, <1>5 DEF IInv, Answers

LEMMA CallFailsStep ==
    ASSUME IInv, UNCHANGED cluster, NEW f \in Followers, CallFails(f)
    PROVE  IInv'
<1>1. call' \in [Calls -> CallRec] /\ \A d \in Calls : CallOK(d, call'[d])
  BY Abandons DEF CallFails
<1>2. faults' \subseteq FaultKinds
  BY DEF CallFails, Fault, IInv, TypeOK
<1>3. UNCHANGED <<known, up, log, first, hwm, committed, progress, sent, alive, producer, lost>>
  BY DEF CallFails, logs, table
<1> QED BY <1>1, <1>2, <1>3, LogsKept DEF IInv, TypeOK

\* Topics and restarts.
LEMMA TopicStep ==
    ASSUME IInv, UNCHANGED cluster, NEW n \in Replicas,
           CreateTopic(n) \/ syncTopics(n) \/ Restart(n)
    PROVE  IInv'
<1>1. known' \in [Replicas -> BOOLEAN] /\ up' \in [Replicas -> {"up", "leaving", "down"}]
  BY DEF CreateTopic, syncTopics, Restart, ensureTopicLocal, IInv, TypeOK
<1>2. UNCHANGED <<log, first, hwm, committed, progress, sent, alive, call, producer, lost, faults>>
  BY DEF CreateTopic, syncTopics, Restart, logs, table
<1> QED BY <1>1, <1>2, LogsKept DEF IInv, TypeOK, Answers

\* Heartbeats and the failure detector.
LEMMA MemberStep ==
    ASSUME IInv, UNCHANGED cluster, NEW f \in Followers,
           handlePing(f) \/ pingAll(f) \/ Tick(f) \/ MarkLeaving(f)
    PROVE  IInv'
<1>1. f \in Replicas
  BY Places DEF IInv
<1>2. /\ up' \in [Replicas -> {"up", "leaving", "down"}]
      /\ alive' \in [Followers -> BOOLEAN] /\ faults' \subseteq FaultKinds
  <2>1. CASE handlePing(f) \/ pingAll(f) \/ Tick(f)
    BY <2>1 DEF handlePing, pingAll, MarkSeen, Tick, Fault, IInv, TypeOK
  <2>2. CASE MarkLeaving(f)
    BY <1>1, <2>2 DEF MarkLeaving, Fault, IInv, TypeOK
  <2> QED BY <2>1, <2>2
<1>3. UNCHANGED <<known, log, first, hwm, committed, progress, sent, call, producer, lost>>
  BY DEF handlePing, pingAll, MarkSeen, Tick, MarkLeaving, logs, table
<1> QED BY <1>2, <1>3, LogsKept DEF IInv, TypeOK, Answers

\* A producer's steps after its append.
LEMMA AckStep ==
    ASSUME IInv, UNCHANGED cluster, NEW p \in Producers,
           ProduceAdvance(p) \/ waitCommitted(p) \/ AckTimeout(p)
    PROVE  IInv'
<1>1. /\ producer[p].end \in 0 .. Bound
      /\ producer \in [Producers -> [pc : {"idle", "noted", "wait", "acked", "refused"},
                                     acks : {"leader", "all"}, end : 0 .. Bound]]
  BY DEF IInv, TypeOK
<1>2. producer[p].pc # "idle"
  BY DEF ProduceAdvance, waitCommitted, AckTimeout
<1>3. PICK l \in {"wait", "acked", "refused"} : producer' = [producer EXCEPT ![p] = [producer[p] EXCEPT !.pc = l]]
  BY DEF ProduceAdvance, waitCommitted, AckTimeout, Set
<1>4. /\ producer' \in [Producers -> [pc : {"idle", "noted", "wait", "acked", "refused"},
                                      acks : {"leader", "all"}, end : 0 .. Bound]]
      /\ \A q \in Producers : producer'[q].pc = "idle" <=> producer[q].pc = "idle"
  BY <1>1, <1>2, <1>3
<1>5. committed' \in [Replicas -> 0 .. Bound]
  BY <1>1, Advances DEF ProduceAdvance, waitCommitted, AckTimeout, IInv, TypeOK
<1>6. faults' \subseteq FaultKinds
  BY DEF ProduceAdvance, waitCommitted, AckTimeout, Fault, IInv, TypeOK
<1>7. UNCHANGED <<known, up, log, first, hwm, progress, sent, alive, call, lost>>
  BY DEF ProduceAdvance, waitCommitted, AckTimeout, logs, table
<1> QED BY <1>4, <1>5, <1>6, <1>7, LogsKept DEF IInv, TypeOK, Answers

\* A process that ends.
LEMMA Forgets ==
    ASSUME IInv, NEW n \in Replicas, Forget(n)
    PROVE  /\ up' \in [Replicas -> {"up", "leaving", "down"}]
           /\ up' = [up EXCEPT ![n] = "down"]
           /\ committed' \in [Replicas -> 0 .. Bound]
           /\ \A m \in Replicas \ {n} : committed'[m] = committed[m]
           /\ progress' \in [Followers -> None .. Bound] /\ UNCHANGED sent
           /\ \A f \in Followers : progress'[f] \in {None, progress[f]}
           /\ alive' \in [Followers -> BOOLEAN]
           /\ producer' \in [Producers -> [pc : {"idle", "noted", "wait", "acked", "refused"},
                                           acks : {"leader", "all"}, end : 0 .. Bound]]
           /\ \A p \in Producers : producer'[p].pc = "idle" <=> producer[p].pc = "idle"
           /\ call' \in [Calls -> CallRec] /\ \A d \in Calls : CallOK(d, call'[d])
           /\ UNCHANGED known
<1>1. Bound \in Nat /\ Followers = Replicas \ {Leader}
  BY Places DEF IInv
<1>2. /\ up' \in [Replicas -> {"up", "leaving", "down"}]
      /\ up' = [up EXCEPT ![n] = "down"]
      /\ committed' \in [Replicas -> 0 .. Bound]
      /\ \A m \in Replicas \ {n} : committed'[m] = committed[m]
      /\ UNCHANGED known
  BY SMTT(60), <1>1 DEF Forget, IInv, TypeOK
<1>3. CASE n = Leader
  <2>1. /\ progress' \in [Followers -> None .. Bound] /\ alive' \in [Followers -> BOOLEAN]
        /\ UNCHANGED sent /\ \A f \in Followers : progress'[f] = None
    <3>1. None \in None .. Bound
      BY SMTT(60), <1>1 DEF None
    <3>2. progress' = [f \in Followers |-> None] /\ alive' = [f \in Followers |-> FALSE] /\ sent' = sent
      BY <1>3 DEF Forget, NewMembership
    <3> QED BY <3>1, <3>2
  <2>2. producer' = [p \in Producers |->
                       IF producer[p].pc \in {"idle", "acked", "refused"} THEN producer[p]
                       ELSE [producer[p] EXCEPT !.pc = "refused"]]
    BY <1>3 DEF Forget
  <2>3. /\ producer' \in [Producers -> [pc : {"idle", "noted", "wait", "acked", "refused"},
                                        acks : {"leader", "all"}, end : 0 .. Bound]]
        /\ \A p \in Producers : producer'[p].pc = "idle" <=> producer[p].pc = "idle"
    BY <2>2 DEF IInv, TypeOK
  <2>4. call' = [c \in Calls |-> IF call[c].st = "answered" THEN call[c] ELSE Idle]
    BY <1>3 DEF Forget
  <2>5. \A d \in Calls : CallOK(d, call'[d])
    BY <2>4, IdleOK DEF IInv, Answers
  <2>6. call' \in [Calls -> CallRec]
    BY <2>4, <2>5 DEF CallOK
  <2> QED BY <1>2, <2>1, <2>3, <2>5, <2>6
<1>4. CASE n # Leader
  <2>1. UNCHANGED <<progress, sent, alive, producer>>
    BY <1>4 DEF Forget, table
  <2>2. call' \in [Calls -> CallRec] /\ \A d \in Calls : CallOK(d, call'[d])
    BY <1>1, <1>4, Abandons DEF Forget
  <2> QED BY <1>2, <2>1, <2>2 DEF IInv, TypeOK
<1> QED BY <1>3, <1>4

LEMMA ExitStep ==
    ASSUME IInv, UNCHANGED cluster, NEW f \in Followers, Exit(f)
    PROVE  IInv'
<1>1. f \in Replicas /\ Forget(f) /\ UNCHANGED <<log, first, hwm, lost, faults>>
  BY Places DEF IInv, Exit, logs, table
<1> QED BY <1>1, Forgets, LogsKept DEF IInv, TypeOK
-----------------------------------------------------------------------------
(* The steps that change a log.                                             *)

\* A crash cuts a log; one that cuts the leader's is remembered.
LEMMA CrashStep ==
    ASSUME IInv, UNCHANGED cluster, NEW n \in Replicas, Crash(n)
    PROVE  IInv'
<1> USE Fixed
<1>1. PICK t \in first[n] .. hwm[n] :
          /\ hwm' = [hwm EXCEPT ![n] = t]
          /\ log' = [log EXCEPT ![n] = [o \in Offsets |-> IF o >= t THEN NoRecord ELSE log[n][o]]]
          /\ lost' = (lost \/ (n = Leader /\ t < hwm[n]))
  BY DEF Crash, IInv, TypeOK
<1>2. /\ Bound \in Nat /\ Followers = Replicas \ {Leader} /\ Leader \in Replicas
      /\ hwm \in [Replicas -> 0 .. Bound] /\ first \in [Replicas -> 0 .. Bound]
      /\ log \in [Replicas -> [Offsets -> Records \cup {NoRecord, Removed}]]
      /\ \A m \in Replicas : first[m] <= hwm[m]
      /\ lost \in BOOLEAN
  BY Places DEF IInv, TypeOK
<1>3. /\ first' = first /\ faults' \subseteq FaultKinds
  BY DEF Crash, Fault, IInv, TypeOK
<1>4. Forget(n)
  BY DEF Crash
<1>5. /\ hwm' \in [Replicas -> 0 .. Bound] /\ \A m \in Replicas : first[m] <= hwm'[m] /\ hwm'[m] <= hwm[m]
      /\ log' \in [Replicas -> [Offsets -> Records \cup {NoRecord, Removed}]] /\ lost' \in BOOLEAN
      /\ ~lost' => ~lost /\ hwm'[Leader] = hwm[Leader]
      /\ \A m \in Replicas, o \in Offsets :
            log'[m][o] = IF m = n /\ o >= t THEN NoRecord ELSE log[m][o]
  <2>1. t \in 0 .. Bound /\ t <= hwm[n] /\ first[n] <= t
    BY SMTT(60), <1>2
  <2>2. hwm' \in [Replicas -> 0 .. Bound]
    BY <1>1, <1>2, <2>1
  <2>3. \A m \in Replicas : first[m] <= hwm'[m] /\ hwm'[m] <= hwm[m]
    BY SMTT(60), <1>1, <1>2, <2>1
  <2>4. lost' \in BOOLEAN /\ (~lost' => ~lost /\ hwm'[Leader] = hwm[Leader])
    <3>1. lost' \in BOOLEAN /\ (~lost' => ~lost /\ ~(n = Leader /\ t < hwm[n]))
      BY <1>1, Zenon
    <3>2. hwm'[Leader] = IF n = Leader THEN t ELSE hwm[Leader]
      BY <1>1, <1>2
    <3>3. hwm[n] \in Int /\ t \in Int
      BY SMTT(60), <1>2
    <3>4. ~(n = Leader /\ t < hwm[n]) => hwm'[Leader] = hwm[Leader]
      BY SMTT(60), <2>1, <3>2, <3>3
    <3> QED BY <3>1, <3>4, Zenon
  <2>5. log' \in [Replicas -> [Offsets -> Records \cup {NoRecord, Removed}]]
    BY <1>1, <1>2
  <2>6. \A m \in Replicas, o \in Offsets :
            log'[m][o] = IF m = n /\ o >= t THEN NoRecord ELSE log[m][o]
    BY <1>1, <1>2
  <2> QED BY <2>2, <2>3, <2>4, <2>5, <2>6
<1>6. ClusterOK' /\ TypeOK'
  BY <1>3, <1>4, <1>5, Forgets DEF IInv, TypeOK
<1>7. Numbered'
  <2>1. \A p \in Producers : producer'[p].pc = "idle" <=> producer[p].pc = "idle"
    BY <1>4, Forgets
  <2>2. hwm[Leader] \in Nat /\ hwm'[Leader] \in Nat /\ hwm'[Leader] <= hwm[Leader]
    BY SMTT(60), <1>2, <1>5
  <2> SUFFICES ASSUME NEW p \in Producers
               PROVE  /\ producer'[p].pc = "idle" => hwm'[Leader] < p
                      /\ producer'[p].pc # "idle" /\ ~lost' => p <= hwm'[Leader]
    BY DEF Numbered
  <2>3. p \in Int /\ (producer[p].pc = "idle" => hwm[Leader] < p)
        /\ (producer[p].pc # "idle" /\ ~lost => p <= hwm[Leader])
    BY SMTT(60), <1>2 DEF IInv, Numbered, Producers
  <2> QED BY SMTT(60), <1>5, <2>1, <2>2, <2>3
<1>8. Content' /\ Behind'
  BY SMTT(60), <1>2, <1>5 DEF IInv, Content, Behind
<1>9. NoHoles'
  BY SMTT(60), <1>1, <1>2, <1>3, <1>5 DEF IInv, NoHoles, Offsets
<1>10. Answers'
  <2>1. \A d \in Calls : CallOK(d, call'[d])
    BY <1>4, Forgets
  <2>2. \A d \in Calls : d[1] \in Replicas
    BY <1>2 DEF Calls
  <2> SUFFICES ASSUME NEW d \in Calls PROVE CallOK(d, call[d])'
    BY DEF Answers
  <2>3. CallOK(d, call'[d]) /\ d[1] \in Replicas
    BY <2>1, <2>2
  <2>4. call'[d].hwm \in 0 .. Bound
    BY <2>3 DEF CallOK, CallRec
  <2> QED BY SMTT(60), <1>2, <1>5, <2>3, <2>4 DEF CallOK
<1> QED BY <1>6, <1>7, <1>8, <1>9, <1>10 DEF IInv

\* Retention and compaction only take records away.
LEMMA RemovalStep ==
    ASSUME IInv, UNCHANGED cluster, NEW n \in Replicas, Compact(n) \/ ApplyRetention(n)
    PROVE  IInv'
<1> USE Fixed
<1>1. /\ Bound \in Nat /\ Followers = Replicas \ {Leader} /\ Leader \in Replicas
      /\ hwm \in [Replicas -> 0 .. Bound] /\ first \in [Replicas -> 0 .. Bound]
      /\ log \in [Replicas -> [Offsets -> Records \cup {NoRecord, Removed}]]
      /\ \A m \in Replicas : first[m] <= hwm[m]
  BY Places DEF IInv, TypeOK
<1>2. /\ UNCHANGED <<known, up, hwm, committed, progress, sent, alive, call, producer, lost>>
      /\ faults' \subseteq FaultKinds
  BY DEF Compact, ApplyRetention, Fault, IInv, TypeOK, table
<1>3. /\ first' \in [Replicas -> 0 .. Bound] /\ \A m \in Replicas : first'[m] <= hwm[m]
      /\ log' \in [Replicas -> [Offsets -> Records \cup {NoRecord, Removed}]]
      /\ \A m \in Replicas, o \in Offsets : log'[m][o] \in {NoRecord, Removed, log[m][o]}
      /\ \A m \in Replicas, o \in Offsets :
            (log'[m][o] # NoRecord) <=> (first'[m] <= o /\ o < hwm[m])
  <2>1. CASE Compact(n)
    <3>1. PICK S \in SUBSET (first[n] .. hwm[n] - 3), t \in first[n] .. hwm[n] - 2 :
             /\ first' = [first EXCEPT ![n] = t]
             /\ log' = [log EXCEPT ![n] = [o \in Offsets |->
                           IF o < t THEN NoRecord ELSE IF o \in S THEN Removed ELSE log[n][o]]]
      BY <1>1, <2>1 DEF Compact
    <3>2. \A m \in Replicas, q \in Offsets :
              log'[m][q] = IF m = n THEN IF q < t THEN NoRecord ELSE IF q \in S THEN Removed ELSE log[m][q]
                                    ELSE log[m][q]
      BY <1>1, <3>1
    <3>3. /\ first' \in [Replicas -> 0 .. Bound]
          /\ \A m \in Replicas : first'[m] = IF m = n THEN t ELSE first[m]
      BY SMTT(60), <1>1, <3>1
    <3>4. log' \in [Replicas -> [Offsets -> Records \cup {NoRecord, Removed}]]
      BY <1>1, <3>1
    <3>5. \A m \in Replicas : first'[m] <= hwm[m]
      BY SMTT(60), <1>1, <3>1, <3>3
    <3>6. ASSUME NEW m \in Replicas, NEW o \in Offsets
          PROVE  (log'[m][o] # NoRecord) <=> (first'[m] <= o /\ o < hwm[m])
      <4>1. (log[m][o] # NoRecord) <=> (first[m] <= o /\ o < hwm[m])
        BY DEF IInv, NoHoles
      <4>2. CASE m = n
        <5>1. /\ first[n] \in Int /\ hwm[n] \in Int /\ t \in Int /\ o \in Int
              /\ first[n] <= t /\ t <= hwm[n] - 2
          BY SMTT(60), <1>1, <3>1 DEF Offsets
        <5>2. o \in S => first[n] <= o /\ o <= hwm[n] - 3
          BY SMTT(60), <5>1, <3>1
        <5>3. first'[n] = t /\ Removed # NoRecord
          BY SMTT(60), <3>3 DEF Removed, NoRecord
        <5>4. log'[n][o] = IF o < t THEN NoRecord ELSE IF o \in S THEN Removed ELSE log[n][o]
          BY <3>2
        <5> QED BY SMTT(60), <4>1, <4>2, <5>1, <5>2, <5>3, <5>4
      <4>3. CASE m # n
        BY <3>2, <3>3, <4>1, <4>3
      <4> QED BY <4>2, <4>3
    <3> QED BY <3>2, <3>3, <3>4, <3>5, <3>6
  <2>2. CASE ApplyRetention(n)
    <3>2. PICK t \in first[n] + 1 .. hwm[n] - 1 :
             /\ first' = [first EXCEPT ![n] = t]
             /\ log' = [log EXCEPT ![n] = [o \in Offsets |-> IF o < t THEN NoRecord ELSE log[n][o]]]
      BY <1>1, <2>2 DEF ApplyRetention
    <3>3. \A m \in Replicas, q \in Offsets :
              log'[m][q] = IF m = n /\ q < t THEN NoRecord ELSE log[m][q]
      BY <1>1, <3>2
    <3>4. /\ first' \in [Replicas -> 0 .. Bound]
          /\ \A m \in Replicas : first'[m] = IF m = n THEN t ELSE first[m]
      BY SMTT(60), <1>1, <3>2
    <3>5. log' \in [Replicas -> [Offsets -> Records \cup {NoRecord, Removed}]]
      BY <1>1, <3>2
    <3>6. \A m \in Replicas, o \in Offsets :
              (log'[m][o] # NoRecord) <=> (first'[m] <= o /\ o < hwm[m])
      BY SMTT(60), <1>1, <3>2, <3>3, <3>4 DEF IInv, NoHoles, Offsets
    <3>7. \A m \in Replicas : first'[m] <= hwm[m]
      BY SMTT(60), <1>1, <3>2, <3>4
    <3> QED BY <3>3, <3>4, <3>5, <3>6, <3>7
  <2> QED BY <2>1, <2>2
<1>4. ClusterOK' /\ TypeOK'
  BY <1>1, <1>2, <1>3 DEF IInv, TypeOK
<1>5. Numbered' /\ Behind' /\ Content' /\ NoHoles'
  BY <1>1, <1>2, <1>3 DEF IInv, Numbered, Behind, Content, NoHoles
<1>6. Answers'
  BY <1>2 DEF IInv, Answers, CallOK
<1> QED BY <1>4, <1>5, <1>6 DEF IInv

\* The partition's writer gives the request of number p the offset below p.
LEMMA ProduceStep ==
    ASSUME IInv, UNCHANGED cluster, NEW p \in Producers, Produce(p)
    PROVE  /\ IInv'
           /\ hwm' = [hwm EXCEPT ![Leader] = @ + 1] /\ hwm[Leader] \in Offsets
           /\ log' = [log EXCEPT ![Leader][hwm[Leader]] = p]
<1> USE Fixed
<1>1. /\ Bound \in Nat /\ Followers = Replicas \ {Leader} /\ Leader \in Replicas
      /\ hwm \in [Replicas -> 0 .. Bound] /\ first \in [Replicas -> 0 .. Bound]
      /\ log \in [Replicas -> [Offsets -> Records \cup {NoRecord, Removed}]]
      /\ \A m \in Replicas : first[m] <= hwm[m]
  BY Places DEF IInv, TypeOK
<1>2. /\ UNCHANGED <<known, up, first, committed, progress, sent, alive, call, lost, faults>>
      /\ log' = [log EXCEPT ![Leader][hwm[Leader]] = p]
      /\ hwm' = [hwm EXCEPT ![Leader] = @ + 1]
  BY DEF Produce, partWriterRun, table
<1>3. PICK acks \in AckModes :
          producer' = [producer EXCEPT ![p] = [pc |-> "noted", acks |-> acks, end |-> hwm[Leader] + 1]]
  BY DEF Produce, Set
<1>4. /\ producer[p].pc = "idle" /\ p \in 1 .. Bound /\ hwm[Leader] < p
      /\ \A q \in Producers : q < p => producer[q].pc # "idle"
  BY DEF Produce, Producers, IInv, Numbered
<1>5. hwm[Leader] \in Offsets
  BY SMTT(60), <1>1, <1>4 DEF Offsets
<1>6. ~lost => p = hwm[Leader] + 1
  <2>0. hwm[Leader] \in Nat
    BY SMTT(60), <1>1
  <2>1. CASE p = 1
    BY SMTT(60), <2>0, <1>4, <2>1
  <2>2. CASE p # 1
    <3>1. p - 1 \in Producers /\ p - 1 < p
      BY SMTT(60), <1>1, <1>4, <2>2 DEF Producers
    <3>2. ~lost => p - 1 <= hwm[Leader]
      BY <1>4, <3>1 DEF IInv, Numbered
    <3> QED BY SMTT(60), <2>0, <1>4, <3>2
  <2> QED BY <2>1, <2>2
<1>7. \A m \in Replicas, o \in Offsets :
          log'[m][o] = IF m = Leader /\ o = hwm[Leader] THEN p ELSE log[m][o]
  BY <1>1, <1>2, <1>5
<1>8. /\ hwm' \in [Replicas -> 0 .. Bound]
      /\ \A m \in Replicas : hwm'[m] = IF m = Leader THEN hwm[m] + 1 ELSE hwm[m]
      /\ log' \in [Replicas -> [Offsets -> Records \cup {NoRecord, Removed}]]
  BY SMTT(60), <1>1, <1>2, <1>4, <1>5 DEF Records
<1>9. producer' \in [Producers -> [pc : {"idle", "noted", "wait", "acked", "refused"},
                                   acks : {"leader", "all"}, end : 0 .. Bound]]
  <2>1. acks \in {"leader", "all"} /\ hwm[Leader] + 1 \in 0 .. Bound
    BY SMTT(60), <1>1, <1>4, Places DEF IInv
  <2> QED BY <1>3, <2>1 DEF IInv, TypeOK
<1>10. ClusterOK' /\ TypeOK'
  BY SMTT(60), <1>1, <1>2, <1>8, <1>9 DEF IInv, TypeOK
<1>11. Numbered'
  <2>1. producer'[p].pc = "noted" /\ \A q \in Producers \ {p} : producer'[q].pc = producer[q].pc
    BY <1>3 DEF IInv, TypeOK
  <2>2. hwm'[Leader] = hwm[Leader] + 1 /\ hwm[Leader] \in Nat /\ lost' = lost
    BY SMTT(60), <1>1, <1>2, <1>8
  <2> SUFFICES ASSUME NEW q \in Producers
               PROVE  /\ producer'[q].pc = "idle" => hwm'[Leader] < q
                      /\ producer'[q].pc # "idle" /\ ~lost => q <= hwm'[Leader]
    BY <2>2 DEF Numbered
  <2>3. q \in Nat /\ p \in Nat
    BY SMTT(60) DEF Producers
  <2>4. CASE q = p
    BY SMTT(60), <1>6, <2>1, <2>2, <2>3, <2>4
  <2>5. CASE q # p
    <3>1. producer'[q].pc = producer[q].pc /\ (producer[q].pc = "idle" => ~(q < p))
      BY <1>4, <2>1, <2>5
    <3>2. /\ producer[q].pc = "idle" => hwm[Leader] < q
          /\ producer[q].pc # "idle" /\ ~lost => q <= hwm[Leader]
      BY DEF IInv, Numbered
    <3>3. hwm[Leader] < p
      BY <1>4
    <3> QED BY SMTT(60), <2>2, <2>3, <2>5, <3>1, <3>2, <3>3
  <2> QED BY <2>4, <2>5
<1>12. Content' /\ Behind'
  BY SMTT(60), <1>1, <1>2, <1>6, <1>7, <1>8 DEF IInv, Content, Behind
<1>13. NoHoles'
  <2> SUFFICES ASSUME NEW m \in Replicas, NEW o \in Offsets
               PROVE  (log'[m][o] # NoRecord) <=> (first[m] <= o /\ o < hwm'[m])
    BY <1>2 DEF NoHoles
  <2>1. (log[m][o] # NoRecord) <=> (first[m] <= o /\ o < hwm[m])
    BY DEF IInv, NoHoles
  <2>2. CASE m = Leader
    <3>1. /\ hwm'[m] = hwm[m] + 1 /\ hwm[m] \in Int /\ first[m] \in Int /\ o \in Int
          /\ first[m] <= hwm[m] /\ p # NoRecord
      BY SMTT(60), <1>1, <1>8, <2>2 DEF Offsets, Producers, NoRecord
    <3>2. log'[m][o] = IF o = hwm[m] THEN p ELSE log[m][o]
      BY <1>7, <2>2
    <3> QED BY SMTT(60), <2>1, <3>1, <3>2
  <2>3. CASE m # Leader
    BY <1>7, <1>8, <2>1, <2>3
  <2> QED BY <2>2, <2>3
<1>14. Answers'
  <2> SUFFICES ASSUME NEW d \in Calls PROVE CallOK(d, call[d])'
    BY DEF Answers
  <2>1. CallOK(d, call[d]) /\ d[1] \in Followers /\ call[d].hwm \in 0 .. Bound
    BY DEF IInv, Answers, Calls, TypeOK, CallRec
  <2>2. hwm'[Leader] = hwm[Leader] + 1 /\ hwm'[d[1]] = hwm[d[1]] /\ hwm[Leader] \in Int
        /\ call'[d] = call[d] /\ lost' = lost
    BY SMTT(60), <1>1, <1>2, <1>8, <2>1
  <2>3. call[d].hwm <= hwm[Leader] => call[d].hwm <= hwm'[Leader]
    BY SMTT(60), <2>1, <2>2
  <2> QED BY <2>1, <2>2, <2>3 DEF CallOK
<1> QED BY <1>2, <1>5, <1>10, <1>11, <1>12, <1>13, <1>14 DEF IInv

\* A follower ends a call with a log that has no hole and, while the leader loses
\* nothing, holds its records and no more of them.
LEMMA FollowerLog ==
    ASSUME IInv, NEW f \in Followers,
           UNCHANGED <<cluster, known, up, progress, sent, alive, producer, lost, faults>>,
           call' = [call EXCEPT ![<<f, "now">>] = Idle],
           committed' \in [Replicas -> 0 .. Bound],
           NEW lo \in 0 .. Bound, NEW hi \in lo .. Bound,
           first' = [first EXCEPT ![f] = lo], hwm' = [hwm EXCEPT ![f] = hi],
           log' \in [Replicas -> [Offsets -> Records \cup {NoRecord, Removed}]],
           \A m \in Replicas \ {f} : log'[m] = log[m],
           \A o \in Offsets : (log'[f][o] # NoRecord) <=> (lo <= o /\ o < hi),
           ~lost => /\ hi <= hwm[Leader]
                    /\ \A o \in Offsets : log'[f][o] \in {NoRecord, Removed, o + 1}
    PROVE  IInv'
<1> USE Fixed
<1>1. /\ Bound \in Nat /\ Followers = Replicas \ {Leader} /\ Leader \in Replicas
      /\ hwm \in [Replicas -> 0 .. Bound] /\ first \in [Replicas -> 0 .. Bound]
      /\ \A m \in Replicas : first[m] <= hwm[m]
      /\ call \in [Calls -> CallRec] /\ <<f, "now">> \in Calls
  BY Places DEF IInv, TypeOK, Calls
<1>2. /\ first' \in [Replicas -> 0 .. Bound] /\ hwm' \in [Replicas -> 0 .. Bound]
      /\ \A m \in Replicas : /\ first'[m] = IF m = f THEN lo ELSE first[m]
                             /\ hwm'[m] = IF m = f THEN hi ELSE hwm[m]
      /\ \A m \in Replicas : first'[m] <= hwm'[m]
  BY SMTT(60), <1>1
<1>3. /\ call'[<<f, "now">>] = Idle
      /\ \A d \in Calls \ {<<f, "now">>} : call'[d] = call[d]
  BY <1>1
<1>4. call' \in [Calls -> CallRec]
  BY <1>1, IdleOK DEF CallOK
<1>5. ClusterOK' /\ TypeOK'
  BY <1>2, <1>4 DEF IInv, TypeOK
<1>6. Numbered' /\ Content' /\ Behind'
  BY <1>1, <1>2 DEF IInv, Numbered, Content, Behind
<1>7. NoHoles'
  BY SMTT(60), <1>1, <1>2 DEF IInv, NoHoles
<1>8. hwm'[Leader] = hwm[Leader]
  BY <1>1, <1>2
<1>9. Answers'
  <2> SUFFICES ASSUME NEW d \in Calls PROVE CallOK(d, call[d])'
    BY DEF Answers
  <2>1. CASE d = <<f, "now">>
    <3>1. CallOK(d, Idle)
      BY IdleOK
    <3>2. call'[d] = Idle /\ Idle.st = "idle"
      BY <1>3, <2>1 DEF Idle
    <3> QED BY <1>8, <3>1, <3>2 DEF CallOK
  <2>2. CASE d # <<f, "now">>
    <3>1. call'[d] = call[d] /\ CallOK(d, call[d])
      BY <1>3, <2>2 DEF IInv, Answers
    <3>2. d[2] = "now" => d[1] # f
      BY SMTT(60), <2>2 DEF Calls
    <3>3. d[1] \in Replicas
      BY <1>1 DEF Calls
    <3>4. d[2] = "now" => hwm'[d[1]] = hwm[d[1]]
      BY <1>2, <3>2, <3>3
    <3> QED BY <1>8, <3>1, <3>4 DEF CallOK
  <2> QED BY <2>1, <2>2
<1> QED BY <1>5, <1>6, <1>7, <1>9 DEF IInv

\* followOnce applies an answer; its log is never cut while the leader loses
\* nothing.
LEMMA ApplyStep ==
    ASSUME IInv, UNCHANGED cluster, NEW f \in Followers, Apply(f)
    PROVE  /\ IInv'
           /\ \A m \in Replicas \ {f} : hwm'[m] = hwm[m] /\ committed'[m] = committed[m]
           /\ committed'[f] >= committed[f]
           /\ committed'[f] = committed[f] \/ committed'[f] <= call[<<f, "now">>].committed
           /\ ~lost => hwm'[f] >= hwm[f]
<1> DEFINE c == <<f, "now">>
           a == call[c]
<1>1. /\ Bound \in Nat /\ Followers = Replicas \ {Leader} /\ Leader \in Replicas /\ f \in Replicas
      /\ hwm \in [Replicas -> 0 .. Bound] /\ first \in [Replicas -> 0 .. Bound]
      /\ committed \in [Replicas -> 0 .. Bound]
      /\ \A m \in Replicas : first[m] <= hwm[m]
      /\ log \in [Replicas -> [Offsets -> Records \cup {NoRecord, Removed}]]
      /\ call \in [Calls -> CallRec] /\ c \in Calls
  BY Places DEF IInv, TypeOK, Calls
<1>2. /\ UNCHANGED <<known, up, progress, sent, alive, producer, lost, faults>>
      /\ call' = [call EXCEPT ![c] = Idle] /\ a.st = "answered"
  BY DEF Apply, table
<1>3. CallOK(c, a)
  BY <1>1 DEF IInv, Answers
<1>4. /\ a.first \in 0 .. Bound /\ a.hwm \in 0 .. Bound /\ a.committed \in 0 .. Bound
      /\ a.recs \in SUBSET (Offsets \X Records) /\ a.first <= a.hwm
      /\ \A r \in a.recs : r[1] < a.hwm
      /\ \A r, q \in a.recs : r[1] = q[1] => r = q
      /\ ~lost => /\ \A r \in a.recs : r[2] = r[1] + 1
                  /\ a.hwm <= hwm[Leader] /\ hwm[f] <= a.hwm
  BY <1>2, <1>3 DEF CallOK, CallRec
<1>5. Cardinality(a.recs) \in Nat
  <2>1. IsFiniteSet(Offsets) /\ IsFiniteSet(Records)
    BY SMTT(60), <1>1, FS_Interval DEF Offsets, Records
  <2>2. IsFiniteSet(Offsets \X Records)
    BY <2>1, FS_Product
  <2>3. IsFiniteSet(a.recs)
    BY <1>4, <2>2, FS_Subset
  <2> QED BY <2>3, FS_CardinalityType
<1>nums. /\ Bound \in Nat /\ hwm[f] \in 0 .. Bound /\ hwm[Leader] \in 0 .. Bound
         /\ a.first \in 0 .. Bound /\ a.hwm \in 0 .. Bound /\ a.committed \in 0 .. Bound
         /\ a.first <= a.hwm
         /\ ~lost => a.hwm <= hwm[Leader] /\ hwm[f] <= a.hwm
  BY <1>1, <1>4
<1> HIDE DEF a
<1>6. CASE a.status = "TopicUnknown"
  <2>1. UNCHANGED <<log, first, hwm, committed>>
    BY <1>6 DEF Apply, a, logs, table
  <2>2. call' \in [Calls -> CallRec] /\ \A d \in Calls : CallOK(d, call'[d])
    BY SMTT(60), <1>1, <1>2, IdleOK DEF IInv, Answers, CallOK
  <2>3. IInv'
    BY <1>2, <2>1, <2>2, LogsKept DEF IInv, TypeOK
  <2> QED BY SMTT(60), <1>1, <2>1, <2>3
<1>7. CASE a.status # "TopicUnknown" /\ (a.status = "Truncate" \/ ~Contiguous(f, a))
  <2> DEFINE t == Target(f, a)
             lo == IF t > hwm[f] \/ t < first[f] THEN t ELSE first[f]
  <2>1. applyTruncate(f, a)
    BY <1>7 DEF Apply, a
  <2>2. t \in 0 .. Bound /\ (~lost => hwm[f] <= t /\ t <= hwm[Leader])
    BY SMTT(60), <1>nums DEF Target
  <2> HIDE DEF t
  <2>3. /\ hwm' = [hwm EXCEPT ![f] = t] /\ first' = [first EXCEPT ![f] = lo]
        /\ log' = [log EXCEPT ![f] = [o \in Offsets |-> IF t > hwm[f] \/ o >= t THEN NoRecord ELSE log[f][o]]]
    BY <1>1, <2>1 DEF applyTruncate, TruncateTo, t
  <2>4. Min({a.committed, t}) \in 0 .. Bound /\ setCommitted(f, Min({a.committed, t}))
    <3>1. a.committed \in Int /\ t \in Int
      BY SMTT(60), <1>nums, <2>2
    <3>2. Min({a.committed, t}) \in {a.committed, t}
      BY <3>1, MinOfTwo
    <3> QED BY <1>nums, <2>1, <2>2, <3>2 DEF applyTruncate, t
  <2>5. /\ committed' \in [Replicas -> 0 .. Bound] /\ committed'[f] >= committed[f]
        /\ \A m \in Replicas \ {f} : committed'[m] = committed[m]
        /\ committed'[f] = committed[f] \/ committed'[f] <= a.committed
    <3>1. a.committed \in Int /\ t \in Int
      BY SMTT(60), <1>nums, <2>2
    <3>2. Min({a.committed, t}) <= a.committed
      BY SMTT(60), <3>1, MinOfTwo
    <3> QED BY <1>1, <2>4, <3>2, Raises
  <2>6. lo \in 0 .. Bound /\ t \in lo .. Bound
    BY SMTT(60), <1>1, <2>2
  <2>7. /\ log' \in [Replicas -> [Offsets -> Records \cup {NoRecord, Removed}]]
        /\ \A m \in Replicas \ {f} : log'[m] = log[m]
        /\ \A o \in Offsets : log'[f][o] = IF t > hwm[f] \/ o >= t THEN NoRecord ELSE log[f][o]
    BY <1>1, <2>3
  <2>8. \A o \in Offsets : (log'[f][o] # NoRecord) <=> (lo <= o /\ o < t)
    BY SMTT(60), <1>1, <2>2, <2>7 DEF IInv, NoHoles, Offsets
  <2>9. ~lost => \A o \in Offsets : log'[f][o] \in {NoRecord, Removed, o + 1}
    BY <1>1, <2>7 DEF IInv, Content
  <2> HIDE DEF lo
  <2>10. IInv'
    BY <1>2, <2>2, <2>3, <2>5, <2>6, <2>7, <2>8, <2>9, FollowerLog
  <2> QED BY <1>1, <2>2, <2>3, <2>5, <2>10 DEF a
<1>8. CASE a.status # "TopicUnknown" /\ ~(a.status = "Truncate" \/ ~Contiguous(f, a))
  <2> DEFINE hi == hwm[f] + Cardinality(a.recs)
  <2>0. hwm[f] .. hwm[f] + Cardinality(a.recs) - 1 = hwm[f] .. hi - 1
    BY SMTT(60), <1>1, <1>5
  <2>1. /\ AppendReplica(f, a) /\ setCommitted(f, Min({a.committed, hi}))
        /\ Contiguous(f, a)
    BY <1>8 DEF Apply, a
  <2>2. {r[1] : r \in a.recs} = hwm[f] .. hi - 1
    BY <2>0, <2>1, Zenon DEF Contiguous
  <2>3. hi \in hwm[f] .. Bound /\ (~lost => hi <= hwm[Leader])
    <3>1. CASE Cardinality(a.recs) = 0
      BY SMTT(60), <1>nums, <3>1
    <3>2. CASE Cardinality(a.recs) > 0
      <4>1. hi - 1 \in hwm[f] .. hi - 1
        BY SMTT(60), <1>nums, <1>5, <3>2
      <4>2. PICK r \in a.recs : r[1] = hi - 1
        BY <2>2, <4>1
      <4>3. r[1] \in Offsets /\ r[1] < a.hwm
        BY <1>4
      <4>4. hwm[f] \in Nat /\ hi \in Nat /\ a.hwm \in Nat /\ hwm[Leader] \in Nat
        BY SMTT(60), <1>nums, <1>5
      <4> HIDE DEF hi
      <4>5. hi - 1 <= Bound - 1 /\ hi - 1 < a.hwm
        BY SMTT(60), <1>nums, <4>2, <4>3, <4>4 DEF Offsets
      <4>6. hi \in 0 .. Bound /\ (~lost => hi <= hwm[Leader])
        BY SMTT(60), <1>nums, <4>4, <4>5
      <4> QED BY SMTT(60), <1>nums, <1>5, <4>4, <4>6 DEF hi
    <3> QED BY SMTT(60), <1>5, <3>1, <3>2
  <2>4. ASSUME NEW o \in hwm[f] .. hi - 1
        PROVE  RecordFor(f, a, o) \in Records /\ (~lost => RecordFor(f, a, o) = o + 1)
    <3>1. hwm[f] \in Int /\ Cardinality(a.recs) \in Int /\ o \in Int
      BY SMTT(60), <1>nums, <1>5
    <3>2. o \in hwm[f] .. hwm[f] + Cardinality(a.recs) - 1
      BY <2>0
    <3>3. \A r, q \in a.recs : r[1] = q[1] => r = q
      BY <1>4
    <3>4. \E r \in a.recs : r[1] = o /\ RecordFor(f, a, o) = r[2]
      BY SMTT(60), <2>1, <3>1, <3>2, <3>3, RecordForOffset
    <3> QED BY <1>4, <3>4
  <2>5. /\ log' = [log EXCEPT ![f] = [o \in Offsets |->
                     IF o \in hwm[f] .. hi - 1 THEN RecordFor(f, a, o) ELSE log[f][o]]]
        /\ hwm' = [hwm EXCEPT ![f] = hi] /\ first' = first
    BY <1>1, <2>0, <2>1 DEF AppendReplica
  <2> HIDE DEF hi
  <2>6. Min({a.committed, hi}) \in 0 .. Bound
    <3>1. a.committed \in 0 .. Bound /\ hi \in 0 .. Bound
      BY SMTT(60), <1>nums, <2>3
    <3> QED BY SMTT(60), <3>1, MinOfTwo
  <2>7. /\ committed' \in [Replicas -> 0 .. Bound] /\ committed'[f] >= committed[f]
        /\ \A m \in Replicas \ {f} : committed'[m] = committed[m]
        /\ committed'[f] = committed[f] \/ committed'[f] <= a.committed
    <3>1. a.committed \in Int /\ hi \in Int
      BY SMTT(60), <1>1, <1>4, <2>3
    <3>2. Min({a.committed, hi}) <= a.committed
      BY SMTT(60), <3>1, MinOfTwo
    <3> QED BY <1>1, <2>1, <2>6, <3>2, Raises
  <2>8. /\ log' \in [Replicas -> [Offsets -> Records \cup {NoRecord, Removed}]]
        /\ \A m \in Replicas \ {f} : log'[m] = log[m]
        /\ \A o \in Offsets : log'[f][o] = IF o \in hwm[f] .. hi - 1 THEN RecordFor(f, a, o) ELSE log[f][o]
    BY <1>1, <2>4, <2>5
  <2>9. \A o \in Offsets : (log'[f][o] # NoRecord) <=> (first[f] <= o /\ o < hi)
    BY SMTT(60), <1>1, <2>3, <2>4, <2>8 DEF IInv, NoHoles, Offsets, Records, NoRecord
  <2>10. ~lost => \A o \in Offsets : log'[f][o] \in {NoRecord, Removed, o + 1}
    BY <1>1, <2>4, <2>8 DEF IInv, Content
  <2>11. first[f] \in 0 .. Bound /\ hi \in first[f] .. Bound /\ first' = [first EXCEPT ![f] = first[f]]
    BY SMTT(60), <1>1, <2>3, <2>5
  <2>12. IInv'
    BY <1>2, <2>3, <2>5, <2>7, <2>8, <2>9, <2>10, <2>11, FollowerLog
  <2> QED BY SMTT(60), <1>1, <2>3, <2>5, <2>7, <2>12 DEF a
<1> QED BY <1>6, <1>7, <1>8
-----------------------------------------------------------------------------
(* Theorems about the logs.                                                 *)

\* Every step keeps the invariant.
LEMMA Preserved == IInv /\ [Next]_<<cluster, vars>> => IInv'
<1> SUFFICES ASSUME IInv, [Next]_<<cluster, vars>> PROVE IInv'
  OBVIOUS
<1>1. CASE UNCHANGED <<cluster, vars>>
  <2>1. UNCHANGED <<cluster, known, up, log, first, hwm, committed, progress, sent, alive, call, producer, lost, faults>>
    BY <1>1 DEF vars
  <2> QED BY <2>1, LogsKept DEF IInv, TypeOK, Answers
<1>2. CASE Next
  <2>1. UNCHANGED cluster /\ Step
    BY <1>2 DEF Next
  <2>2. ASSUME NEW f \in Followers,
               \/ Handler(<<f, "now">>) \/ Handler(<<f, "late">>) \/ followOnce(f) \/ Apply(f)
               \/ CallFails(f) \/ handlePing(f) \/ pingAll(f) \/ Tick(f) \/ MarkLeaving(f) \/ Exit(f)
        PROVE  IInv'
    <3>1. <<f, "now">> \in Calls /\ <<f, "late">> \in Calls
      BY DEF Calls
    <3>2. CASE Handler(<<f, "now">>) \/ Handler(<<f, "late">>)
      BY <2>1, <3>1, <3>2, HandleStep, RespondStep DEF Handler
    <3>3. CASE followOnce(f) \/ Apply(f) \/ CallFails(f)
      BY <2>1, <3>3, FollowStep, ApplyStep, CallFailsStep
    <3>4. CASE handlePing(f) \/ pingAll(f) \/ Tick(f) \/ MarkLeaving(f) \/ Exit(f)
      BY <2>1, <3>4, MemberStep, ExitStep
    <3> QED BY <2>2, <3>2, <3>3, <3>4
  <2>3. ASSUME NEW p \in Producers, Produces(p) PROVE IInv'
    BY <2>1, <2>3, ProduceStep, AckStep DEF Produces
  <2>4. ASSUME NEW n \in Replicas,
               \/ CreateTopic(n) \/ syncTopics(n) \/ Crash(n) \/ Restart(n)
               \/ ApplyRetention(n) \/ Compact(n)
        PROVE  IInv'
    BY <2>1, <2>4, TopicStep, CrashStep, RemovalStep
  <2> QED BY <2>1, <2>2, <2>3, <2>4 DEF Step
<1> QED BY <1>1, <1>2

\* Every variable has its type: no step leaves an offset, a mark or an answer
\* out of range.
THEOREM TypeCorrect == Spec => []TypeOK
<1>1. IInv => TypeOK
  BY DEF IInv
<1> QED BY <1>1, Initially, Preserved, PTL DEF Spec

\* Replicas agree on every record they both hold so long as the leader loses none,
\* and no log has a hole that its own cleaner did not make, for any cluster, any
\* faults, and compaction and retention on any node.
THEOREM LogsMatch == Spec => []LogMatching
<1>1. IInv => LogMatching
  BY SMT DEF IInv, Content, NoHoles, LogMatching, Records, NoRecord, Removed
<1> QED BY <1>1, Initially, Preserved, PTL DEF Spec

\* A step that does not stop node n takes nothing back that n shows.
LEMMA StepGrows ==
    ASSUME IInv, Next, ~lost', NEW n \in Replicas, up'[n] # "down"
    PROVE  committed'[n] >= committed[n] /\ hwm'[n] >= hwm[n]
<1>1. UNCHANGED cluster /\ Step
  BY DEF Next
<1>2. /\ Leader \in Replicas /\ Followers = Replicas \ {Leader}
      /\ hwm \in [Replicas -> 0 .. Bound] /\ committed \in [Replicas -> 0 .. Bound]
      /\ up \in [Replicas -> {"up", "leaving", "down"}]
  BY Places DEF IInv, TypeOK
<1>3. hwm[n] \in Nat /\ committed[n] \in Nat
  BY SMTT(60), <1>2
<1>4. ASSUME UNCHANGED <<hwm, committed>>
      PROVE  committed'[n] >= committed[n] /\ hwm'[n] >= hwm[n]
  BY SMTT(60), <1>3, <1>4
<1>5. ASSUME UNCHANGED hwm, NEW end \in 0 .. Bound, maybeAdvanceCommit(end)
      PROVE  committed'[n] >= committed[n] /\ hwm'[n] >= hwm[n]
  BY SMTT(60), <1>3, <1>5, Advances
<1>6. ASSUME NEW m \in Replicas, Forget(m)
      PROVE  m # n /\ committed'[n] >= committed[n]
  BY SMTT(60), <1>2, <1>3, <1>6, Forgets
<1>7. ASSUME NEW f \in Followers,
             \/ Handler(<<f, "now">>) \/ Handler(<<f, "late">>) \/ followOnce(f) \/ Apply(f)
             \/ CallFails(f) \/ handlePing(f) \/ pingAll(f) \/ Tick(f) \/ MarkLeaving(f) \/ Exit(f)
      PROVE  committed'[n] >= committed[n] /\ hwm'[n] >= hwm[n]
  <2>1. /\ <<f, "now">> \in Calls /\ <<f, "late">> \in Calls
        /\ \A c \in Calls : call[c].hwm \in 0 .. Bound
    BY DEF Calls, IInv, TypeOK, CallRec
  <2>2. CASE handleReplicate(<<f, "now">>) \/ handleReplicate(<<f, "late">>)
    BY <1>4, <2>2 DEF handleReplicate, logs, table
  <2>3. CASE Respond(<<f, "now">>) \/ Respond(<<f, "late">>)
    BY <1>5, <2>1, <2>3 DEF Respond, logs, table
  <2>4. CASE followOnce(f) \/ CallFails(f) \/ handlePing(f) \/ pingAll(f) \/ Tick(f) \/ MarkLeaving(f)
    BY <1>4, <2>4 DEF followOnce, CallFails, handlePing, pingAll, MarkSeen, Tick, MarkLeaving, logs, table
  <2>5. CASE Exit(f)
    BY SMTT(60), <1>2, <1>3, <1>6, <2>5 DEF Exit, logs, table
  <2>6. CASE Apply(f)
    <3>1. ~lost
      BY <2>6 DEF Apply
    <3>2. /\ \A m \in Replicas \ {f} : hwm'[m] = hwm[m] /\ committed'[m] = committed[m]
          /\ committed'[f] >= committed[f] /\ hwm'[f] >= hwm[f]
      BY <1>1, <2>6, <3>1, ApplyStep
    <3> QED BY SMTT(60), <1>3, <3>2
  <2> QED BY <1>7, <2>2, <2>3, <2>4, <2>5, <2>6 DEF Handler
<1>8. ASSUME NEW p \in Producers, Produces(p)
      PROVE  committed'[n] >= committed[n] /\ hwm'[n] >= hwm[n]
  <2>1. producer[p].end \in 0 .. Bound
    BY DEF IInv, TypeOK
  <2>2. CASE Produce(p)
    BY SMTT(60), <1>2, <1>3, <2>2 DEF Produce, partWriterRun
  <2>3. CASE ProduceAdvance(p)
    BY <1>5, <2>1, <2>3 DEF ProduceAdvance, logs, table
  <2>4. CASE waitCommitted(p) \/ AckTimeout(p)
    BY <1>4, <2>4 DEF waitCommitted, AckTimeout, logs, table
  <2> QED BY <1>8, <2>2, <2>3, <2>4 DEF Produces
<1>9. ASSUME NEW m \in Replicas,
             \/ CreateTopic(m) \/ syncTopics(m) \/ Crash(m) \/ Restart(m)
             \/ ApplyRetention(m) \/ Compact(m)
      PROVE  committed'[n] >= committed[n] /\ hwm'[n] >= hwm[n]
  <2>1. CASE Crash(m)
    BY SMTT(60), <1>2, <1>3, <1>6, <2>1 DEF Crash
  <2>2. CASE CreateTopic(m) \/ syncTopics(m) \/ Restart(m) \/ ApplyRetention(m) \/ Compact(m)
    BY <1>4, <2>2 DEF CreateTopic, syncTopics, Restart, ApplyRetention, Compact, logs
  <2> QED BY <1>9, <2>1, <2>2
<1> QED BY <1>1, <1>7, <1>8, <1>9 DEF Step

\* What a running node shows as committed is never taken back while the leader
\* loses nothing: setCommitted only raises, and no truncation cuts below the mark.
THEOREM MarksOnlyGrow == Spec => CommittedOnlyGrows
<1> DEFINE Grow == \A n \in Replicas : ~lost' /\ up[n] # "down" /\ up'[n] # "down"
                                         => committedFor(n)' >= committedFor(n)
<1>1. IInv /\ IInv' /\ [Next]_<<cluster, vars>> => [Grow]_vars
  <2> SUFFICES ASSUME IInv, IInv', Next, NEW n \in Replicas, ~lost', up'[n] # "down"
               PROVE  committedFor(n)' >= committedFor(n)
    OBVIOUS
  <2>1. committed'[n] >= committed[n] /\ hwm'[n] >= hwm[n]
    BY StepGrows
  <2>2. UNCHANGED cluster
    BY DEF Next
  <2>3. {hwm[n], committed[n], hwm'[n], committed'[n]} \subseteq Int
    <3>1. hwm[n] \in Int /\ committed[n] \in Int
      BY SMTT(60) DEF IInv, TypeOK
    <3>2. hwm'[n] \in Int /\ committed'[n] \in Int
      BY SMTT(60), <2>2, Fixed DEF IInv, TypeOK
    <3> QED BY <3>1, <3>2
  <2> QED BY SMTT(60), <2>1, <2>3 DEF committedFor
<1> QED BY <1>1, Initially, Preserved, PTL DEF Spec, CommittedOnlyGrows

-----------------------------------------------------------------------------
(* What is committed has been sent to a majority.                           *)

\* Every offset below e has been sent to enough followers.
WasSent(e) ==
    \A o \in 0 .. e - 1 : 1 + Cardinality({f \in Followers : sent[f] > o}) >= quorum

\* The leader's table is never ahead of what was sent, and a mark that a node has
\* or that is on its way in an answer is below what was sent to a majority.
Sends ==
    /\ \A f \in Followers : progress[f] <= sent[f]
    /\ \A c \in Calls : WasSent(call[c].committed)
    /\ \A n \in Replicas : WasSent(committed[n])

\* A lower mark is as good, and the lowest always is.
LEMMA WasSentBelow ==
    ASSUME NEW d \in Int, NEW e \in Int, d <= e, WasSent(e)
    PROVE  WasSent(d)
BY SMTT(60) DEF WasSent

LEMMA WasSentZero == WasSent(0)
BY SMTT(60) DEF WasSent

\* What was sent stays sent.
LEMMA StaysSent ==
    ASSUME IInv, UNCHANGED cluster, sent' \in [Followers -> 0 .. Bound],
           \A f \in Followers : sent'[f] >= sent[f],
           NEW e \in Int, WasSent(e), NEW o \in 0 .. e - 1
    PROVE  1 + Cardinality({f \in Followers : sent'[f] > o}) >= quorum
<1> DEFINE S == {f \in Followers : sent[f] > o}
           T == {f \in Followers : sent'[f] > o}
<1>1. IsFiniteSet(Followers) /\ ReplicationFactor \in Nat /\ sent \in [Followers -> 0 .. Bound]
  BY Places DEF IInv, TypeOK
<1>2. T \in SUBSET Followers
  OBVIOUS
<1>3. S \in SUBSET T
  BY SMTT(60), <1>1
<1>4. IsFiniteSet(T)
  BY <1>1, <1>2, FS_Subset
<1>5. 1 + Cardinality(S) >= quorum
  BY DEF WasSent
<1> HIDE DEF S, T
<1>6. IsFiniteSet(S) /\ Cardinality(S) <= Cardinality(T)
  BY <1>3, <1>4, FS_Subset
<1>7. Cardinality(S) \in Nat /\ Cardinality(T) \in Nat
  BY <1>4, <1>6, FS_CardinalityType
<1>8. quorum \in Int
  BY SMTT(60), <1>1 DEF quorum
<1>9. 1 + Cardinality(T) >= quorum
  BY ONLY SMTT(60), <1>5, <1>6, <1>7, <1>8
<1> QED BY <1>9 DEF T

\* What a step has to show: it sends more, and its new marks were sent before.
LEMMA SendsFrom ==
    ASSUME IInv, IInv', UNCHANGED cluster,
           \A f \in Followers : sent'[f] >= sent[f] /\ progress'[f] <= sent'[f],
           \A c \in Calls : WasSent(call'[c].committed),
           \A n \in Replicas : WasSent(committed'[n])
    PROVE  Sends'
<1> USE Fixed
<1>1. /\ sent' \in [Followers -> 0 .. Bound]
      /\ \A c \in Calls : call'[c].committed \in Int
      /\ \A n \in Replicas : committed'[n] \in Int
  BY SMTT(60) DEF IInv, TypeOK, CallRec
<1>2. ASSUME NEW e \in Int, WasSent(e)
      PROVE  \A o \in 0 .. e - 1 : 1 + Cardinality({f \in Followers : sent'[f] > o}) >= quorum
  BY <1>1, <1>2, StaysSent
<1>3. ASSUME NEW c \in Calls PROVE WasSent(call[c].committed)'
  BY <1>1, <1>2 DEF WasSent
<1>4. ASSUME NEW n \in Replicas PROVE WasSent(committed[n])'
  BY <1>1, <1>2 DEF WasSent
<1> QED BY <1>3, <1>4 DEF Sends

\* maybeAdvanceCommit counts only followers that were sent what it commits.
LEMMA AdvanceWasSent ==
    ASSUME IInv, Sends, UNCHANGED cluster, NEW end \in 0 .. Bound, maybeAdvanceCommit(end),
           NEW n \in Replicas
    PROVE  WasSent(committed'[n])
<1>1. /\ Leader \in Replicas /\ Bound \in Nat /\ IsFiniteSet(Followers) /\ ReplicationFactor \in Nat
      /\ progress \in [Followers -> None .. Bound] /\ sent \in [Followers -> 0 .. Bound]
  BY Places DEF IInv, TypeOK
<1>2. CASE committed'[n] = committed[n]
  BY <1>2 DEF Sends
<1>3. CASE committed'[n] # committed[n]
  <2>1. /\ n = Leader /\ Cardinality(isr(end)) + 1 >= quorum /\ committed'[n] \in 0 .. Bound
        /\ \A f \in isr(end) : committed'[n] <= progress[f]
    BY <1>3, Advances
  <2> SUFFICES ASSUME NEW o \in 0 .. committed'[n] - 1
               PROVE  1 + Cardinality({f \in Followers : sent[f] > o}) >= quorum
    BY DEF WasSent
  <2> DEFINE S == {f \in Followers : sent[f] > o}
  <2>2. ASSUME NEW f \in isr(end) PROVE f \in S
    <3>1. f \in Followers /\ committed'[n] <= progress[f] /\ progress[f] <= sent[f]
      BY <2>1 DEF isr, Sends
    <3>2. progress[f] \in Int /\ sent[f] \in Int /\ committed'[n] \in Int /\ o \in Int /\ o < committed'[n]
      BY SMTT(60), <1>1, <2>1, <3>1 DEF None
    <3>3. sent[f] > o
      BY ONLY SMTT(60), <3>1, <3>2
    <3> QED BY <3>1, <3>3
  <2>3. isr(end) \in SUBSET S /\ S \in SUBSET Followers
    BY <2>2
  <2> HIDE DEF S
  <2>4. IsFiniteSet(S)
    BY <1>1, <2>3, FS_Subset
  <2>5. IsFiniteSet(isr(end)) /\ Cardinality(isr(end)) <= Cardinality(S)
    BY <2>3, <2>4, FS_Subset
  <2>6. Cardinality(S) \in Nat /\ Cardinality(isr(end)) \in Nat
    BY <2>4, <2>5, FS_CardinalityType
  <2>7. quorum \in Int
    BY SMTT(60), <1>1 DEF quorum
  <2>8. 1 + Cardinality(S) >= quorum
    BY ONLY SMTT(60), <2>1, <2>5, <2>6, <2>7
  <2> QED BY <2>8 DEF S
<1> QED BY <1>2, <1>3

\* handleReplicate notes what it sends, and its answer carries the leader's mark.
LEMMA HandleSends ==
    ASSUME IInv, IInv', Sends, UNCHANGED cluster, NEW c \in Calls, handleReplicate(c)
    PROVE  Sends'
<1>1. /\ Leader \in Replicas /\ c[1] \in Followers /\ Bound \in Nat
      /\ progress \in [Followers -> None .. Bound] /\ sent \in [Followers -> 0 .. Bound]
      /\ call \in [Calls -> CallRec] /\ committed \in [Replicas -> 0 .. Bound]
      /\ committed' = committed
  BY Places DEF IInv, TypeOK, Calls, handleReplicate
<1>2. WasSent(committedFor(Leader))
  <2>1. committedFor(Leader) \in 0 .. Bound /\ committedFor(Leader) <= committed[Leader]
    BY <1>1, CommittedForBounds
  <2>2. committedFor(Leader) \in Int /\ committed[Leader] \in Int
    BY SMTT(60), <1>1, <2>1
  <2>3. WasSent(committed[Leader])
    BY <1>1 DEF Sends
  <2> QED BY <2>1, <2>2, <2>3, WasSentBelow
<1>3. ASSUME NEW st, NEW status, NEW offs, Answer(c, st, status, offs), NEW d \in Calls
      PROVE  WasSent(call'[d].committed)
  <2>1. CASE d = c
    <3>1. call'[c].committed \in {0, committedFor(Leader)}
      BY <1>1, <1>3 DEF Answer, Idle
    <3> QED BY <1>2, <2>1, <3>1, WasSentZero
  <2>2. CASE d # c
    <3>1. call'[d] = call[d]
      BY <1>1, <1>3, <2>2 DEF Answer
    <3> QED BY <3>1 DEF Sends
  <2> QED BY <2>1, <2>2
<1>4. \A d \in Calls : WasSent(call'[d].committed)
  BY <1>3 DEF handleReplicate
<1>5. \A f \in Followers : sent'[f] >= sent[f] /\ progress'[f] <= sent'[f]
  <2>0. \A f \in Followers : sent[f] \in Int /\ progress[f] \in Int /\ progress[f] <= sent[f]
    BY SMTT(60), <1>1 DEF Sends, None
  <2>1. CASE UNCHANGED table
    <3>1. sent' = sent /\ progress' = progress
      BY <2>1 DEF table
    <3> QED BY SMTT(60), <2>0, <3>1
  <2>2. ASSUME NEW off \in Int, noteFollowerProgress(c[1], off), NEW f \in Followers
        PROVE  sent'[f] >= sent[f] /\ progress'[f] <= sent'[f]
    <3>1. /\ progress'[f] = IF f = c[1] THEN off ELSE progress[f]
          /\ sent'[f] = IF f = c[1] THEN IF off > sent[f] THEN off ELSE sent[f] ELSE sent[f]
      BY <1>1, <2>2 DEF noteFollowerProgress
    <3> QED BY SMTT(60), <2>0, <3>1
  <2>3. CASE ~UNCHANGED table
    <3> DEFINE off == call[c].off
    <3>1. ~(off > hwm[Leader]) /\ noteFollowerProgress(c[1], off + Cardinality(Read(off)))
      BY <2>3 DEF handleReplicate
    <3>2. off \in 0 .. hwm[Leader]
      BY SMTT(60), <1>1, <3>1 DEF IInv, TypeOK, CallRec
    <3> HIDE DEF off
    <3>3. off + Cardinality(Read(off)) \in Int
      <4>1. Cardinality(Read(off)) \in Nat
        BY <3>2, ReadWithin DEF IInv
      <4> QED BY SMTT(60), <1>1, <3>2, <4>1
    <3> QED BY <2>2, <3>1, <3>3
  <2> QED BY <2>1, <2>3
<1>6. \A n \in Replicas : WasSent(committed'[n])
  BY <1>1 DEF Sends
<1> QED BY <1>4, <1>5, <1>6, SendsFrom

\* A step that leaves the leader's table alone.
LEMMA OtherSends ==
    ASSUME IInv, IInv', Sends, UNCHANGED <<cluster, progress, sent>>,
           \A c \in Calls : WasSent(call'[c].committed),
           \A n \in Replicas : WasSent(committed'[n])
    PROVE  Sends'
<1>1. \A f \in Followers : sent[f] \in Int /\ progress[f] <= sent[f]
  BY SMTT(60), Places DEF IInv, TypeOK, Sends
<1>2. \A f \in Followers : sent'[f] >= sent[f] /\ progress'[f] <= sent'[f]
  BY SMTT(60), <1>1
<1> QED BY <1>2, SendsFrom

\* The calls of a follower that gives up or goes away.
LEMMA AbandonedSends ==
    ASSUME IInv, Sends, NEW f \in Followers,
           call' = [call EXCEPT ![<<f, "now">>] = Idle, ![<<f, "late">>] = Abandoned(f)],
           NEW d \in Calls
    PROVE  WasSent(call'[d].committed)
<1>1. call \in [Calls -> CallRec] /\ <<f, "now">> \in Calls /\ <<f, "late">> \in Calls
  BY DEF IInv, TypeOK, Calls
<1>2. Idle.committed = 0 /\ [Idle EXCEPT !.st = "noted", !.hwm = call[<<f, "now">>].hwm].committed = 0
  BY DEF Idle
<1>3. WasSent(Abandoned(f).committed)
  <2>1. Abandoned(f) \in {call[<<f, "now">>], [Idle EXCEPT !.st = "noted", !.hwm = call[<<f, "now">>].hwm],
                          call[<<f, "late">>]}
    BY DEF Abandoned
  <2> QED BY <1>1, <1>2, <2>1, WasSentZero DEF Sends
<1>4. call'[d] \in {Idle, Abandoned(f), call[d]}
  BY <1>1
<1> QED BY <1>2, <1>3, <1>4, WasSentZero DEF Sends

\* A process that ends forgets its mark and, at the leader, the table.
LEMMA ForgetSends ==
    ASSUME IInv, IInv', Sends, UNCHANGED cluster, NEW n \in Replicas, Forget(n)
    PROVE  Sends'
<1>1. /\ sent' = sent /\ \A f \in Followers : progress'[f] \in {None, progress[f]}
      /\ \A m \in Replicas \ {n} : committed'[m] = committed[m]
  BY Forgets
<1>2. committed'[n] = 0
  BY DEF Forget, IInv, TypeOK
<1>3. \A m \in Replicas : WasSent(committed'[m])
  BY <1>1, <1>2, WasSentZero DEF Sends
<1>4. \A f \in Followers : sent'[f] >= sent[f] /\ progress'[f] <= sent'[f]
  <2>1. \A f \in Followers : sent[f] \in 0 .. Bound /\ progress[f] <= sent[f] /\ Bound \in Nat
    BY Places DEF IInv, TypeOK, Sends
  <2> QED BY SMTT(60), <1>1, <2>1 DEF None
<1>5. \A c \in Calls : WasSent(call'[c].committed)
  <2>1. CASE n = Leader
    <3>1. call' = [c \in Calls |-> IF call[c].st = "answered" THEN call[c] ELSE Idle]
      BY <2>1 DEF Forget
    <3>2. Idle.committed = 0
      BY DEF Idle
    <3> QED BY <3>1, <3>2, WasSentZero DEF Sends
  <2>2. CASE n # Leader
    <3>1. n \in Followers
      BY <2>2, Places DEF IInv
    <3> QED BY <2>2, <3>1, AbandonedSends DEF Forget
  <2> QED BY <2>1, <2>2
<1> QED BY <1>3, <1>4, <1>5, SendsFrom

\* A step of a follower, of its calls and of the leader's view of it.
LEMMA FollowerSends ==
    ASSUME IInv, IInv', Sends, UNCHANGED cluster, NEW f \in Followers,
           \/ Handler(<<f, "now">>) \/ Handler(<<f, "late">>) \/ followOnce(f) \/ Apply(f)
           \/ CallFails(f) \/ handlePing(f) \/ pingAll(f) \/ Tick(f) \/ MarkLeaving(f) \/ Exit(f)
    PROVE  Sends'
<1>1. /\ <<f, "now">> \in Calls /\ <<f, "late">> \in Calls /\ call \in [Calls -> CallRec]
      /\ f \in Replicas /\ committed \in [Replicas -> 0 .. Bound]
  BY Places DEF Calls, IInv, TypeOK
<1>2. Idle.committed = 0
  BY DEF Idle
<1>3. ASSUME NEW c \in Calls, Respond(c) PROVE Sends'
  <2>1. call[c] \in CallRec /\ call[c].hwm \in 0 .. Bound /\ UNCHANGED <<progress, sent>>
    BY <1>1, <1>3 DEF CallRec, Respond, table
  <2>2. \A n \in Replicas : WasSent(committed'[n])
    BY <1>3, <2>1, AdvanceWasSent DEF Respond
  <2>3. call'[c].committed \in {0, call[c].committed} /\ \A d \in Calls \ {c} : call'[d] = call[d]
    <3>1. call' = [call EXCEPT ![c] = IF c[2] = "now" THEN [call[c] EXCEPT !.st = "answered"] ELSE Idle]
      BY <1>1, <1>3 DEF Respond
    <3>2. [call[c] EXCEPT !.st = "answered"].committed = call[c].committed
      BY <2>1 DEF CallRec
    <3> QED BY <1>1, <1>2, <3>1, <3>2
  <2> QED BY <2>1, <2>2, <2>3, OtherSends, WasSentZero DEF Sends
<1>4. CASE Handler(<<f, "now">>) \/ Handler(<<f, "late">>)
  BY <1>1, <1>3, <1>4, HandleSends DEF Handler
<1>5. CASE followOnce(f)
  <2>1. UNCHANGED <<committed, progress, sent>>
    BY <1>5 DEF followOnce, table
  <2>2. /\ call'[<<f, "now">>] = [Idle EXCEPT !.st = "sent", !.off = hwm[f]]
        /\ \A d \in Calls \ {<<f, "now">>} : call'[d] = call[d]
    BY <1>1, <1>5 DEF followOnce
  <2>3. call'[<<f, "now">>].committed = 0
    BY <2>2 DEF Idle
  <2> QED BY <2>1, <2>2, <2>3, OtherSends, WasSentZero DEF Sends
<1>6. CASE Apply(f)
  <2>1. UNCHANGED <<progress, sent>> /\ call' = [call EXCEPT ![<<f, "now">>] = Idle]
    BY <1>6 DEF Apply, table
  <2>2. \A d \in Calls : WasSent(call'[d].committed)
    BY <1>1, <1>2, <2>1, WasSentZero DEF Sends
  <2>3. /\ \A m \in Replicas \ {f} : committed'[m] = committed[m]
        /\ committed'[f] = committed[f] \/ committed'[f] <= call[<<f, "now">>].committed
    BY <1>6, ApplyStep
  <2>4. committed'[f] \in Int /\ call[<<f, "now">>].committed \in Int
    BY SMTT(60), <1>1, Fixed DEF IInv, TypeOK, CallRec
  <2>5. WasSent(committed'[f])
    BY <1>1, <2>3, <2>4, WasSentBelow DEF Sends
  <2>6. \A n \in Replicas : WasSent(committed'[n])
    BY <2>3, <2>5 DEF Sends
  <2> QED BY <2>1, <2>2, <2>6, OtherSends
<1>7. CASE CallFails(f)
  <2>1. UNCHANGED <<committed, progress, sent>>
    BY <1>7 DEF CallFails, table
  <2>2. \A d \in Calls : WasSent(call'[d].committed)
    BY <1>7, AbandonedSends DEF CallFails
  <2> QED BY <2>1, <2>2, OtherSends DEF Sends
<1>8. CASE handlePing(f) \/ pingAll(f) \/ Tick(f) \/ MarkLeaving(f)
  <2>1. UNCHANGED <<committed, progress, sent, call>>
    BY <1>8 DEF handlePing, pingAll, MarkSeen, Tick, MarkLeaving, table
  <2> QED BY <2>1, OtherSends DEF Sends
<1>9. CASE Exit(f)
  BY <1>1, <1>9, ForgetSends DEF Exit
<1> QED BY <1>4, <1>5, <1>6, <1>7, <1>8, <1>9

\* Every step keeps committed offsets below what was sent to a majority.
LEMMA SendsPreserved == IInv /\ IInv' /\ Sends /\ [Next]_<<cluster, vars>> => Sends'
<1> SUFFICES ASSUME IInv, IInv', Sends, [Next]_<<cluster, vars>> PROVE Sends'
  OBVIOUS
<1>1. CASE UNCHANGED <<cluster, vars>>
  <2>1. UNCHANGED <<cluster, committed, progress, sent, call>>
    BY <1>1 DEF vars
  <2> QED BY <2>1, OtherSends DEF Sends
<1>2. CASE Next
  <2>1. UNCHANGED cluster /\ Step
    BY <1>2 DEF Next
  <2>2. ASSUME NEW p \in Producers, Produces(p) PROVE Sends'
    <3>1. UNCHANGED <<progress, sent, call>>
      BY <2>2 DEF Produces, Produce, ProduceAdvance, waitCommitted, AckTimeout, table
    <3>2. producer[p].end \in 0 .. Bound
      BY DEF IInv, TypeOK
    <3>3. \A n \in Replicas : WasSent(committed'[n])
      <4>1. CASE ProduceAdvance(p)
        BY <2>1, <3>2, <4>1, AdvanceWasSent DEF ProduceAdvance
      <4>2. CASE Produce(p) \/ waitCommitted(p) \/ AckTimeout(p)
        <5>1. UNCHANGED committed
          BY <4>2 DEF Produce, waitCommitted, AckTimeout
        <5> QED BY <5>1 DEF Sends
      <4> QED BY <2>2, <4>1, <4>2 DEF Produces
    <3> QED BY <2>1, <3>1, <3>3, OtherSends DEF Sends
  <2>3. ASSUME NEW n \in Replicas,
               \/ CreateTopic(n) \/ syncTopics(n) \/ Crash(n) \/ Restart(n)
               \/ ApplyRetention(n) \/ Compact(n)
        PROVE  Sends'
    <3>1. CASE Crash(n)
      BY <2>1, <3>1, ForgetSends DEF Crash
    <3>2. CASE \/ CreateTopic(n) \/ syncTopics(n) \/ Restart(n)
               \/ ApplyRetention(n) \/ Compact(n)
      <4>1. UNCHANGED <<committed, progress, sent, call>>
        BY <3>2 DEF CreateTopic, syncTopics, Restart, ApplyRetention, Compact, table
      <4> QED BY <2>1, <4>1, OtherSends DEF Sends
    <3> QED BY <2>3, <3>1, <3>2
  <2> QED BY <2>1, <2>2, <2>3, FollowerSends DEF Step
<1> QED BY <1>1, <1>2

LEMMA SendsInitially == Init => Sends
<1> SUFFICES ASSUME Init PROVE Sends
  OBVIOUS
<1>1. \A f \in Followers : progress[f] <= sent[f]
  BY SMTT(60) DEF Init, None
<1>2. Idle.committed = 0
  BY DEF Idle
<1>3. /\ \A c \in Calls : call[c].committed = 0
      /\ \A n \in Replicas : committed[n] = 0
  BY <1>2 DEF Init
<1> QED BY <1>1, <1>3, WasSentZero DEF Sends

\* Whatever is lost, delayed, abandoned or stopped, what a node shows as committed
\* has been sent to enough followers for a majority with the leader: the mark is a
\* minimum over in-sync followers, and a table that a restart empties is filled
\* again only by followers that ask (maybeAdvanceCommit).
THEOREM CommittedIsSent == Spec => []CommittedWasSent
<1>1. Sends => CommittedWasSent
  BY DEF Sends, WasSent, CommittedWasSent
<1> QED BY <1>1, Initially, Preserved, SendsInitially, SendsPreserved, PTL DEF Spec
=============================================================================
