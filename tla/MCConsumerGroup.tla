--------------------------- MODULE MCConsumerGroup ---------------------------
(* Instances of ConsumerGroup for TLC: two members, two partitions.         *)
EXTENDS ConsumerGroup

TwoMembers == {1, 2}

AllFaults  == {"network", "handler", "stop", "die", "stall", "restart", "power"}
=============================================================================
