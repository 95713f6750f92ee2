------------------------- MODULE MCBrokerConnection -------------------------
(* Instances of BrokerConnection for TLC.                                   *)
EXTENDS BrokerConnection

CONSTANTS m1, m2, m3

AllMsgs == {m1, m2, m3}

AllFaults == {"cut", "stall", "ctx", "idle", "slow", "backend", "close", "shutdown"}
Jamming   == {"stall", "slow", "shutdown"}

Mode(auth, tls, batching, creds, msgs, dials, budget, kinds) ==
    [auth |-> auth, tls |-> tls, batch |-> batching, creds |-> creds, msgs |-> msgs,
     dials |-> dials, faults |-> budget, kinds |-> kinds]

AllModes ==
    {Mode(TRUE, FALSE, FALSE, "good", {m1, m2}, 2, 1, AllFaults),
     Mode(TRUE, FALSE, FALSE, "bad",  {m1, m2}, 2, 1, AllFaults),
     Mode(TRUE, FALSE, FALSE, "none", {m1, m2}, 2, 1, AllFaults),
     Mode(TRUE, FALSE, FALSE, "reader", {m1, m2}, 1, 1, AllFaults),
     Mode(FALSE, FALSE, FALSE, "none", {m1, m2}, 2, 1, AllFaults),
     Mode(FALSE, FALSE, FALSE, "none", AllMsgs, 1, 2, Jamming),
     Mode(FALSE, FALSE, TRUE, "good", AllMsgs, 1, 1, AllFaults),
     Mode(TRUE, TRUE, TRUE, "good", {m1, m2}, 2, 2, AllFaults)}
=============================================================================
