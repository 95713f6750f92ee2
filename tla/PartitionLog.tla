---------------------------- MODULE PartitionLog ----------------------------
(***************************************************************************)
(* One partition of a topic on disk (internal/broker/storage): segments    *)
(* that are appended to, rotated, flushed, expired, compacted, truncated,  *)
(* and recovered after the broker or its machine went down.                *)
(*                                                                         *)
(* A record is its offset and key; records lie in a segment in the order   *)
(* of their offsets, so a segment is a set of records.  Records have one   *)
(* size, so that a file's size is how many it holds.  Of an index file     *)
(* only its existence matters: its content is checked or rebuilt at open.  *)
(* Creating, removing, renaming and truncating files survive a power loss  *)
(* in the order they were done; the written records may not.               *)
(***************************************************************************)
EXTENDS Integers, FiniteSets

CONSTANTS
    Keys, NoKey,
    MaxOffset,        \* bound: offsets assigned
    MaxBatch,         \* bound: records of one append
    SegmentRecords,   \* MaxSegmentBytes: an active segment of this size is rotated
    Policies,         \* the topic policies considered
    FaultKinds,       \* the faults that may happen under each policy
    MaxFaults         \* bound: how many of them happen

ASSUME NoKeyAssumption == NoKey \notin Keys
ASSUME BoundsAssumption ==
    MaxOffset \in Nat /\ MaxBatch \in Nat \ {0} /\ SegmentRecords \in Nat \ {0}

VARIABLES
    policy,         \* which of retention, compact and replica apply to the topic
    logs, log,      \* the .log files and what is in them
    idxs,           \* the .index files
    logSwaps, logSwap, idxSwaps,   \* the .log.swap and .index.swap files
    marker,         \* the _compacted file, and gapsAllowed
    unsynced,       \* offsets of the records that were not fsynced
    up,             \* open, down (not running), or failed: OpenPartition refuses
    segs,           \* Partition.segments, by base offset; the last one is active
    nextOffset,     \* of a partition that is down: where recovery will find it
    dirty, dirtySegStart,
    openedAt,       \* history: nextOffset when the partition was opened
    pc,             \* the cleaner: idle, retain, scan, rewrite, swap
    minSafe,        \* its snapshot of the committed offset for retention, or NoCommit
    todo,           \* segments it has still to rewrite, then to swap
    last, sizes,    \* its offset map, and the sizes of the segments it scanned
    rewrites, empties,   \* segments with a complete swap pair, without survivors
    committed,      \* the committed offset of a consumer group, or NoCommit
    faults

directory == <<logs, log, idxs, logSwaps, logSwap, idxSwaps, marker, unsynced>>
memory    == <<up, segs, nextOffset, dirty, dirtySegStart, openedAt>>
cleaner   == <<pc, minSafe, todo, last, sizes, rewrites, empties>>
vars == <<policy, directory, memory, cleaner, committed, faults>>

Offsets  == 0 .. MaxOffset
NoCommit == -1
Record   == [off : Offsets, key : Keys \cup {NoKey}]

MinOf(S) == CHOOSE x \in S : \A y \in S : x <= y
MaxOf(S) == CHOOSE x \in S : \A y \in S : x >= y

Offs(R) == {r.off : r \in R}

Fault(k) == k \in FaultKinds[policy] /\ faults < MaxFaults /\ faults' = faults + 1

NoneLast  == [k \in Keys |-> -1]
NoneSized == [b \in Offsets |-> 0]

Init ==
    /\ policy \in Policies
    /\ logs = {0} /\ idxs = {0} /\ log = [b \in Offsets |-> {}]
    /\ logSwaps = {} /\ idxSwaps = {} /\ logSwap = [b \in Offsets |-> {}]
    /\ marker = FALSE
    /\ unsynced = {}
    /\ up = "open"
    /\ segs = {0}
    /\ nextOffset = 0 /\ openedAt = 0
    /\ dirty = FALSE /\ dirtySegStart = 0
    /\ pc = "idle" /\ minSafe = NoCommit /\ todo = {}
    /\ last = NoneLast /\ sizes = NoneSized
    /\ rewrites = {} /\ empties = {}
    /\ committed = NoCommit
    /\ faults = 0
-----------------------------------------------------------------------------
(* Appending, reading and flushing.                                         *)

active      == MaxOf(segs)
FirstOffset == MinOf(segs)

\* The index of segment b in Partition.segments, here the list S.
IndexIn(S, b) == Cardinality({c \in S : c < b})

\* The cleaner holds the partition's lock while it swaps.
Unlocked == up = "open" /\ pc # "swap"

Count(ks) == Cardinality(DOMAIN ks)

Batch(ks) == {[off |-> nextOffset + i - 1, key |-> ks[i]] : i \in DOMAIN ks}

\* The segment that takes a batch: a full active one is rotated.
Target == IF Cardinality(log[active]) >= SegmentRecords THEN nextOffset ELSE active

\* Mutant: the new segment is not listed.
ForgetRotated == segs

\* Partition.segments after a rotation.
Rotated == segs \cup {Target}

\* The records of batch ks reach the file of the target segment.
Write(ks) ==
    /\ logs' = logs \cup {Target}
    /\ idxs' = idxs \cup {Target}
    /\ log' = [log EXCEPT ![Target] = @ \cup Batch(ks)]
    /\ unsynced' = unsynced \cup Offs(Batch(ks))
    /\ nextOffset' = nextOffset + Count(ks)
    /\ UNCHANGED <<logSwaps, logSwap, idxSwaps, marker>>

\* Append, and AppendReplica of a batch that continues the log.
Append(ks) ==
    /\ Unlocked
    /\ Count(ks) > 0
    /\ nextOffset + Count(ks) <= MaxOffset
    /\ Write(ks)
    /\ segs' = Rotated
    /\ dirty' = TRUE
    /\ dirtySegStart' = IF Cardinality(segs') - 1 < dirtySegStart THEN Cardinality(segs') - 1
                                                                 ELSE dirtySegStart
    /\ UNCHANGED <<policy, up, openedAt, cleaner, committed, faults>>

\* Read: the search for the segment, then records from there on.
OutOfRange(o) == o > nextOffset \/ \A b \in segs : b > o

Read(o) ==
    LET idx == MaxOf({b \in segs : b <= o})
    IN  {r \in UNION {log[b] : b \in {c \in segs : c >= idx}} : r.off >= o}

\* The offsets in the segments that Flush and Close sync.
Synced == UNION {Offs(log[b]) : b \in {c \in segs : IndexIn(segs, c) >= dirtySegStart}}

Flush ==
    /\ Unlocked
    /\ dirty
    /\ unsynced' = unsynced \ Synced
    /\ dirty' = FALSE
    /\ dirtySegStart' = Cardinality(segs) - 1
    /\ UNCHANGED <<policy, logs, log, idxs, logSwaps, logSwap, idxSwaps, marker,
                   up, segs, nextOffset, openedAt, cleaner, committed, faults>>

\* CommitOffset of a consumer group: any offset up to the high-water mark, also
\* one before its last.
Commit(o) ==
    /\ up = "open" /\ "replica" \notin policy
    /\ o <= nextOffset /\ o # committed
    /\ committed' = o
    /\ UNCHANGED <<policy, directory, memory, cleaner, faults>>
-----------------------------------------------------------------------------
(* The directory of the segments in B is cleared.                           *)
Delete(B) ==
    /\ logs' = logs \ B
    /\ idxs' = idxs \ B
    /\ log' = [b \in Offsets |-> IF b \in B THEN {} ELSE log[b]]
    /\ unsynced' = unsynced \ UNION {Offs(log[b]) : b \in B}
    /\ UNCHANGED <<logSwaps, logSwap, idxSwaps, marker>>

ResetCleaner ==
    /\ pc' = "idle" /\ todo' = {} /\ rewrites' = {} /\ empties' = {}
    /\ last' = NoneLast /\ sizes' = NoneSized

\* SweepOnce begins: one snapshot of the committed offsets for the whole sweep.
SweepOnce ==
    /\ up = "open" /\ pc = "idle"
    /\ policy \cap {"retention", "compact"} # {}
    /\ pc' = "retain"
    /\ minSafe' = committed
    /\ UNCHANGED <<policy, directory, memory, todo, last, sizes, rewrites, empties,
                   committed, faults>>

AfterRetention == IF "compact" \in policy THEN "scan" ELSE "idle"

\* Mutant: the base of the last segment to go is checked instead of its end.
BaseBelow(x) == \A b \in segs : b < x => b < minSafe

\* No committed group still needs what lies below x.
Safe(x) == minSafe = NoCommit \/ x <= minSafe

\* dirtySegStart after the first n segments went.
Shift(n) == IF n <= dirtySegStart THEN dirtySegStart - n ELSE 0

\* Retention deletes the oldest segments, up to the one that starts at x.  Age
\* and size decide how many; the active segment stays, and so does everything
\* from the snapshot's committed offset on.  The files go one by one; a kill in
\* between is a retention with a smaller x, since nothing looks at an index
\* file without its log.
ApplyRetention(x) ==
    /\ up = "open" /\ pc = "retain"
    /\ x \in segs
    /\ x # FirstOffset => "retention" \in policy /\ Safe(x)
    /\ LET B == {b \in segs : b < x}
       IN  /\ Delete(B)
           /\ segs' = segs \ B
           /\ dirtySegStart' = Shift(Cardinality(B))
    /\ pc' = AfterRetention
    /\ minSafe' = NoCommit
    /\ UNCHANGED <<policy, up, nextOffset, dirty, openedAt,
                   todo, last, sizes, rewrites, empties, committed, faults>>
-----------------------------------------------------------------------------
(* Compaction.                                                              *)

\* Phases 1 and 2: the closed segments and, per key, the highest offset in them.
Scan ==
    /\ up = "open" /\ pc = "scan"
    /\ LET targets == {b \in segs \ {active} : log[b] # {}}
           offsOf(k) == {r.off : r \in {q \in UNION {log[b] : b \in targets} : q.key = k}}
       IN  IF \A k \in Keys : offsOf(k) = {}
           THEN ResetCleaner
           ELSE /\ pc' = "rewrite"
                /\ todo' = targets
                /\ sizes' = [b \in Offsets |-> IF b \in targets THEN Cardinality(log[b]) ELSE 0]
                /\ last' = [k \in Keys |-> IF offsOf(k) = {} THEN -1 ELSE MaxOf(offsOf(k))]
                /\ UNCHANGED <<rewrites, empties>>
    /\ UNCHANGED <<policy, directory, memory, minSafe, committed, faults>>

\* Mutant: records without a key are dropped too.
SurvivorsKeyed(b) == {r \in log[b] : r.key # NoKey /\ last[r.key] = r.off}

Survivors(b) == {r \in log[b] : r.key = NoKey \/ last[r.key] = r.off}

RemoveSwaps == /\ logSwaps' = logSwaps \ rewrites
               /\ idxSwaps' = idxSwaps \ rewrites
               /\ logSwap' = [b \in Offsets |-> IF b \in rewrites THEN {} ELSE logSwap[b]]

\* Phase 3, one segment: its survivors go to a swap pair, which is fsynced (a
\* kill before that leaves swap files, discarded at open like complete ones).  A
\* segment that a truncation has closed meanwhile cannot be read: the pass ends,
\* and the empty swap pair of this segment stays.
Rewrite ==
    /\ up = "open" /\ pc = "rewrite" /\ todo # {}
    /\ LET b == MinOf(todo)
       IN  IF b \notin segs
           THEN /\ ResetCleaner
                /\ logSwaps' = (logSwaps \ rewrites) \cup {b}
                /\ idxSwaps' = (idxSwaps \ rewrites) \cup {b}
                /\ logSwap' = [c \in Offsets |-> IF c \in rewrites \cup {b} THEN {} ELSE logSwap[c]]
           ELSE /\ todo' = todo \ {b}
                /\ IF Survivors(b) \in {{}, log[b]}
                   THEN /\ empties' = IF Survivors(b) = {} THEN empties \cup {b} ELSE empties
                        /\ logSwaps' = logSwaps \ {b}
                        /\ idxSwaps' = idxSwaps \ {b}
                        /\ logSwap' = [logSwap EXCEPT ![b] = {}]
                        /\ UNCHANGED rewrites
                   ELSE /\ rewrites' = rewrites \cup {b}
                        /\ logSwaps' = logSwaps \cup {b}
                        /\ idxSwaps' = idxSwaps \cup {b}
                        /\ logSwap' = [logSwap EXCEPT ![b] = Survivors(b)]
                        /\ UNCHANGED empties
                /\ UNCHANGED <<pc, last, sizes>>
    /\ UNCHANGED <<policy, logs, log, idxs, marker, unsynced, memory, minSafe, committed, faults>>

\* Mutant: no marker.
SkipMarker == marker' = marker

writeMarker == marker' = TRUE

\* Phase 4 takes the lock and writes the marker before any file is touched.  The
\* segments that are still closed and as large as when they were scanned follow.
SwapBegin ==
    /\ up = "open" /\ pc = "rewrite" /\ todo = {}
    /\ IF rewrites \cup empties = {}
       THEN ResetCleaner /\ marker' = marker
       ELSE /\ pc' = "swap"
            /\ writeMarker
            /\ todo' = {b \in (rewrites \cup empties) \cap (segs \ {active}) :
                           sizes[b] = Cardinality(log[b])}
            /\ UNCHANGED <<last, sizes, rewrites, empties>>
    /\ UNCHANGED <<policy, logs, log, idxs, logSwaps, logSwap, idxSwaps, unsynced, memory,
                   minSafe, committed, faults>>

Swapping(b) == up = "open" /\ pc = "swap" /\ todo # {} /\ b = MinOf(todo)

\* The segment without survivors leaves the list with its last file.
Drop(b) ==
    /\ segs' = segs \ {b}
    /\ todo' = todo \ {b}
    /\ dirtySegStart' = IF IndexIn(segs, b) < dirtySegStart THEN dirtySegStart - 1
                                                            ELSE dirtySegStart

RemoveLog(b) ==
    /\ Swapping(b)
    /\ b \in logs
    /\ b \in logSwaps \cup empties
    /\ logs' = logs \ {b}
    /\ log' = [log EXCEPT ![b] = {}]
    /\ unsynced' = unsynced \ Offs(log[b])
    /\ UNCHANGED <<policy, idxs, logSwaps, logSwap, idxSwaps, marker, memory, cleaner,
                   committed, faults>>

RemoveIndex(b) ==
    /\ Swapping(b)
    /\ b \notin logs /\ b \in idxs
    /\ idxs' = idxs \ {b}
    /\ IF b \in empties THEN Drop(b) ELSE UNCHANGED <<segs, todo, dirtySegStart>>
    /\ UNCHANGED <<policy, logs, log, logSwaps, logSwap, idxSwaps, marker, unsynced,
                   up, nextOffset, dirty, openedAt,
                   pc, minSafe, last, sizes, rewrites, empties, committed, faults>>

RenameLog(b) ==
    /\ Swapping(b)
    /\ b \notin logs /\ b \notin idxs
    /\ logs' = logs \cup {b} /\ logSwaps' = logSwaps \ {b}
    /\ log' = [log EXCEPT ![b] = logSwap[b]] /\ logSwap' = [logSwap EXCEPT ![b] = {}]
    /\ UNCHANGED <<policy, idxs, idxSwaps, marker, unsynced, memory, cleaner, committed, faults>>

\* The pair is in place and the segment is opened again.
RenameIndex(b) ==
    /\ Swapping(b)
    /\ b \in logs /\ b \notin idxs
    /\ idxs' = idxs \cup {b} /\ idxSwaps' = idxSwaps \ {b}
    /\ todo' = todo \ {b}
    /\ UNCHANGED <<policy, logs, log, logSwaps, logSwap, marker, unsynced, memory,
                   pc, minSafe, last, sizes, rewrites, empties, committed, faults>>

SwapEnd ==
    /\ up = "open" /\ pc = "swap" /\ todo = {}
    /\ RemoveSwaps
    /\ ResetCleaner
    /\ UNCHANGED <<policy, logs, log, idxs, marker, unsynced, memory, minSafe, committed, faults>>
-----------------------------------------------------------------------------
(* A follower cuts its log to match the leader, or jumps over a hole.       *)
(* Whole segments go from the end on: a kill in between is a truncation to  *)
(* the base of the last one that went.                                      *)
TruncateTo(o) ==
    /\ Unlocked
    /\ "replica" \in policy
    /\ o # nextOffset
    /\ LET keep == IF o > nextOffset THEN {} ELSE {b \in segs : b <= o}
           B    == segs \ keep
       IN  IF keep = {}
           THEN /\ logs' = (logs \ B) \cup {o}
                /\ idxs' = (idxs \ B) \cup {o}
                /\ log' = [b \in Offsets |-> IF b \in B THEN {} ELSE log[b]]
                /\ segs' = {o}
                /\ dirtySegStart' = IF o > nextOffset THEN 0 ELSE dirtySegStart
           ELSE /\ logs' = logs \ B
                /\ idxs' = idxs \ B
                /\ log' = [b \in Offsets |-> IF b \in B THEN {}
                                             ELSE IF b = MaxOf(keep)
                                                  THEN {r \in log[b] : r.off < o} ELSE log[b]]
                /\ segs' = keep
                /\ dirtySegStart' = IF Cardinality(keep) - 1 < dirtySegStart
                                    THEN Cardinality(keep) - 1 ELSE dirtySegStart
    /\ unsynced' = IF o > nextOffset THEN {} ELSE {u \in unsynced : u < o}
    /\ nextOffset' = o
    /\ dirty' = TRUE
    /\ UNCHANGED <<policy, logSwaps, logSwap, idxSwaps, marker, up, openedAt, cleaner,
                   committed, faults>>
-----------------------------------------------------------------------------
(* Going down and coming back.                                              *)

\* Without a process there are no segments and there is no cleaner.
Down ==
    /\ up' = "down"
    /\ segs' = {} /\ dirty' = FALSE /\ dirtySegStart' = 0 /\ openedAt' = 0
    /\ ResetCleaner /\ minSafe' = NoCommit

\* Close waits for the cleaner, which stops between two segments and removes its
\* swap files, but finishes once all of them are rewritten.
Close ==
    /\ Unlocked
    /\ ~(pc = "rewrite" /\ todo = {})
    /\ RemoveSwaps
    /\ unsynced' = IF dirty THEN unsynced \ Synced ELSE unsynced
    /\ Down
    /\ UNCHANGED <<policy, logs, log, idxs, marker, nextOffset, committed, faults>>

Kill ==
    /\ up = "open"
    /\ Fault("kill")
    /\ Down
    /\ UNCHANGED <<policy, directory, nextOffset, committed>>

\* The process dies inside an append, after the first records of the batch (ks,
\* perhaps none); the next one may be torn.
KillInAppend(ks) ==
    /\ Unlocked
    /\ nextOffset + Count(ks) <= MaxOffset
    /\ Fault("kill")
    /\ Write(ks)
    /\ Down
    /\ UNCHANGED <<policy, committed>>

\* The records of segment b up to the first gap.
Gapless(b, R) == {r \in R : \A o \in b .. r.off : o \in Offs(R)}

RecoveredOffset(ls, lg) == LET a == MaxOf(ls) IN a + Cardinality(Gapless(a, lg[a]))

\* The machine goes down: from some record on, each file may lack what was not
\* fsynced.
PowerLoss(L) ==
    /\ up = "open"
    /\ Fault("power")
    /\ L \subseteq unsynced
    /\ \A b \in logs : \A r, s \in log[b] : r.off \in L /\ s.off > r.off => s.off \in L
    /\ log' = [b \in Offsets |-> {r \in log[b] : r.off \notin L}]
    /\ unsynced' = {}
    /\ nextOffset' = RecoveredOffset(logs, log')
    /\ Down
    /\ UNCHANGED <<policy, logs, idxs, logSwaps, logSwap, idxSwaps, marker, committed>>

WholePair(b) == b \in logs \cap idxs

\* resolveSwapFiles, one segment: while the pair is whole its swap files are
\* garbage; otherwise they replace what is missing.
resolveSwapFiles(b) ==
    /\ up = "down"
    /\ b \in logSwaps \cup idxSwaps
    /\ IF WholePair(b)
       THEN UNCHANGED <<logs, log, idxs, up>>
       ELSE /\ logs' = IF b \in logSwaps THEN logs \cup {b} ELSE logs
            /\ log' = IF b \in logSwaps THEN [log EXCEPT ![b] = logSwap[b]] ELSE log
            /\ idxs' = IF b \in idxSwaps THEN idxs \cup {b} ELSE idxs
            /\ up' = IF b \in logs \cup logSwaps /\ b \in idxs \cup idxSwaps THEN up ELSE "failed"
    /\ logSwaps' = logSwaps \ {b} /\ idxSwaps' = idxSwaps \ {b}
    /\ logSwap' = [logSwap EXCEPT ![b] = {}]
    /\ UNCHANGED <<policy, marker, unsynced, segs, nextOffset, dirty, dirtySegStart, openedAt,
                   cleaner, committed, faults>>

\* OpenPartition: the last segment is recovered up to its first gap; in the
\* others, whose indexes are empty (they are shorter than the index interval) and
\* so rebuilt, a gap is an error unless the partition has been compacted.
OpenPartition ==
    /\ up = "down"
    /\ logSwaps \cup idxSwaps = {}
    /\ LET bases == IF logs = {} THEN {0} ELSE logs
           a     == MaxOf(bases)
           kept  == Gapless(a, log[a])
       IN  IF ~marker /\ \E b \in bases \ {a} : Gapless(b, log[b]) # log[b]
           THEN up' = "failed" /\ UNCHANGED <<directory, segs, nextOffset, dirtySegStart, openedAt>>
           ELSE /\ up' = "open"
                /\ segs' = bases
                /\ logs' = bases
                /\ idxs' = idxs \cup bases
                /\ log' = [log EXCEPT ![a] = kept]
                /\ unsynced' = unsynced \ Offs(log[a] \ kept)
                /\ nextOffset' = a + Cardinality(kept)
                /\ openedAt' = nextOffset'
                /\ dirtySegStart' = Cardinality(bases) - 1
                /\ UNCHANGED <<logSwaps, logSwap, idxSwaps, marker>>
    /\ UNCHANGED <<policy, dirty, cleaner, committed, faults>>
-----------------------------------------------------------------------------
Batches == UNION {[1 .. n -> Keys \cup {NoKey}] : n \in 0 .. MaxBatch}

Cleaner ==
    \/ SweepOnce
    \/ \E x \in segs : ApplyRetention(x)
    \/ Scan \/ Rewrite \/ SwapBegin \/ SwapEnd
    \/ \E b \in todo : RemoveLog(b) \/ RemoveIndex(b) \/ RenameLog(b) \/ RenameIndex(b)

Next ==
    \/ \E ks \in Batches : Append(ks) \/ KillInAppend(ks)
    \/ Flush
    \/ \E o \in Offsets : Commit(o) \/ TruncateTo(o)
    \/ Cleaner
    \/ Close \/ Kill
    \/ \E L \in SUBSET unsynced : PowerLoss(L)
    \/ \E b \in Offsets : resolveSwapFiles(b)
    \/ OpenPartition

Spec == Init /\ [][Next]_vars
-----------------------------------------------------------------------------
Cleaning == {"idle", "retain", "scan", "rewrite", "swap"}

\* The type invariant; an open partition has a segment.
TypeOK ==
    /\ policy \subseteq {"retention", "compact", "replica"}
    /\ logs \subseteq Offsets /\ idxs \subseteq Offsets
    /\ logSwaps \subseteq Offsets /\ idxSwaps \subseteq Offsets
    /\ log \in [Offsets -> SUBSET Record] /\ logSwap \in [Offsets -> SUBSET Record]
    /\ marker \in BOOLEAN /\ dirty \in BOOLEAN
    /\ unsynced \subseteq Offsets
    /\ up \in {"open", "down", "failed"}
    /\ segs \subseteq Offsets /\ (up = "open" => segs # {})
    /\ nextOffset \in Offsets /\ openedAt \in Offsets
    /\ dirtySegStart \in Nat
    /\ pc \in Cleaning
    /\ minSafe \in Offsets \cup {NoCommit} /\ committed \in Offsets \cup {NoCommit}
    /\ todo \subseteq Offsets /\ rewrites \subseteq Offsets /\ empties \subseteq Offsets
    /\ last \in [Keys -> Offsets \cup {-1}] /\ sizes \in [Offsets -> Nat]
    /\ faults \in 0 .. MaxFaults

\* What a restart would find in segment b: the file, or the swap file once the
\* pair is broken.
Effective(b) == IF b \in logSwaps /\ ~(b \in logs /\ b \in idxs) THEN logSwap[b] ELSE log[b]

Durable == IF unsynced = {} THEN nextOffset ELSE MinOf(unsynced)

Abstract == INSTANCE AbstractLog WITH
    content <- UNION {Effective(b) : b \in Offsets},
    next    <- nextOffset,
    durable <- Durable

\* The partition keeps the promises of AbstractLog: rotation, every file
\* operation of a compaction, a kill at any of them and the recovery after it
\* cannot be told apart from an atomic step on a log.
KeepsLog == Abstract!Spec

\* Read finds every record from the requested offset on, in any segment.
ReadsEverything ==
    Unlocked => \A o \in FirstOffset .. nextOffset :
        /\ ~OutOfRange(o)
        /\ Read(o) = {r \in UNION {log[b] : b \in Offsets} : r.off >= o}

\* A crash costs nothing that was flushed and stops nobody: after a flush only
\* records of an earlier process may still be unsynced (dirtySegStart follows the
\* segments that are deleted in front of it), and OpenPartition never refuses
\* (resolveSwapFiles and the _compacted marker).
SurvivesCrash ==
    /\ up # "failed"
    /\ up = "open" /\ ~dirty => \A u \in unsynced : u < openedAt

\* Where the log starts: what a restart would find.
Start == MinOf(logs \cup logSwaps)

\* A group keeps its place: what it has to read next does not fall below the
\* first segment while it stays where it is ("a committed group can never be
\* stranded on OFFSET_OUT_OF_RANGE by a cleanup sweep", minCommittedSnapshot).
\* Three ways to lose it remain, and no other: the sweep took its snapshot before
\* the group's first commit, or before the group moved back; and compaction
\* deletes a leading segment without survivors whatever is committed.
GroupKeepsPlace ==
    [][committed # NoCommit /\ committed' = committed
       /\ committed >= Start /\ committed < Start'
       => \/ pc = "retain" /\ (minSafe = NoCommit \/ minSafe > committed)
          \/ pc = "swap" /\ empties # {}]_vars
=============================================================================
