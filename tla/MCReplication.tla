--------------------------- MODULE MCReplication ----------------------------
(* Two nodes and every fault, where a single follower is the other half of   *)
(* the quorum; two nodes with acks=leader next to acks=all; three nodes,     *)
(* where either follower makes the quorum and one may be silent; and three   *)
(* nodes with calls that fail.                                               *)
EXTENDS Replication
CONSTANTS n1, n2, n3
Two    == [ring |-> <<n1, n2>>, rf |-> 2, bound |-> 3, acks |-> {"all"}, faults |-> 1,
           kinds |-> {"timeout", "silence", "leave", "crash", "retention", "compact"}]
Mixed  == [Two EXCEPT !.bound = 2, !.acks = {"leader", "all"}]
Three  == [Two EXCEPT !.ring = <<n1, n2, n3>>, !.rf = 3, !.bound = 2, !.kinds = {"silence"}]
Breaks == [Three EXCEPT !.bound = 1, !.acks = {"leader", "all"}, !.kinds = {"timeout", "silence"}]
(* Three nodes of which one loses power.                                      *)
Power  == [Three EXCEPT !.bound = 1, !.kinds = {"crash"}]
PowerClusters == {Power}
MCClusters == {Two, Mixed, Three, Breaks}
=============================================================================
