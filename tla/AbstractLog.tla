----------------------------- MODULE AbstractLog -----------------------------
(***************************************************************************)
(* What a partition promises, whatever its files and background work look  *)
(* like: a set of records with distinct offsets below the next one, which   *)
(* loses records only by retention (from the start), by truncation (from    *)
(* the end), by compaction (superseded ones) and, when the machine goes     *)
(* down, by losing what was never fsynced.  The death of the process is     *)
(* not among these steps: it must not be visible.                           *)
(***************************************************************************)
EXTENDS Integers

CONSTANT NoKey

VARIABLES
    content,   \* the records that can be read
    next,      \* the high-water mark
    durable    \* every record below this offset has been fsynced

lvars == <<content, next, durable>>

Init == content = {} /\ next = 0 /\ durable = 0

\* Fsync may come with any step that keeps the records.
Sync == durable' >= durable /\ durable' <= next'

\* New records take the offsets from next on, one each.
Append ==
    /\ next' > next
    /\ content \subseteq content'
    /\ \A r \in content' \ content : r.off \in next .. next' - 1
    /\ \A o \in next .. next' - 1 : \E r \in content' \ content : r.off = o
    /\ \A r, s \in content' \ content : r.off = s.off => r = s
    /\ Sync

\* Only records whose key has a later one are dropped.
Compact ==
    /\ content' \subseteq content
    /\ \A r \in content \ content' :
          r.key # NoKey /\ \E s \in content' : s.key = r.key /\ s.off > r.off
    /\ next' = next
    /\ Sync

Expire ==
    /\ \E o \in 0 .. next : content' = {r \in content : r.off >= o}
    /\ next' = next
    /\ Sync

Truncate ==
    /\ next' < next
    /\ content' = {r \in content : r.off < next'}
    /\ durable' = IF durable < next' THEN durable ELSE next'

\* A replica that fell behind the leader's first offset starts anew there.
Jump == next' > next /\ content' = {} /\ durable' = next'

\* The machine goes down.
Lose ==
    /\ content' \subseteq content
    /\ \A r \in content \ content' : r.off >= durable
    /\ next' \in durable .. next
    /\ \A r \in content' : r.off < next'
    /\ durable' = next'

Next == Append \/ Compact \/ Expire \/ Truncate \/ Jump \/ Lose

Spec == Init /\ [][Next]_lvars
=============================================================================
