--------------------------- MODULE MCPartitionLog ---------------------------
(* Instances of PartitionLog for TLC.                                       *)
EXTENDS PartitionLog

OneKey == {"a"}

\* A topic with retention, one that is also compacted, and a replica.
Topics == {{"retention"}, {"retention", "compact"}, {"replica"}}

\* Processes are killed, machines lose power; a replica's does not.
Crashes == [t \in Topics |-> IF "replica" \in t THEN {"kill"} ELSE {"kill", "power"}]
=============================================================================
