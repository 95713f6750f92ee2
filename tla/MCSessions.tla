------------------------------ MODULE MCSessions ------------------------------
(* Instances of Sessions for TLC.                                            *)
EXTENDS Sessions, TLC

CONSTANTS t1, t2, t3, laptop, phone, p1, p2

AllThreads == {t1, t2, t3}
AllClients == {laptop, phone}
AllPods    == {p1, p2}
Uses       == t1 :> laptop @@ t2 :> laptop @@ t3 :> phone

Mode(kinds, first, second, threads, pods, ops, ncalls, nticks, nfaults, faultKinds, nrotations) ==
    [kind |-> laptop :> kinds[1] @@ phone :> kinds[2], holds |-> laptop :> first @@ phone :> second,
     threads |-> threads, pods |-> pods, ops |-> ops, calls |-> ncalls, ticks |-> nticks,
     faults |-> nfaults, kinds |-> faultKinds, rotations |-> nrotations]

AllModes ==
    {Mode(<<"go", "cli">>, 1, 0, {t1, t2}, {p1}, {"api", "refresh", "login"}, 2, 2, 1, {"lost"}, 0),
     Mode(<<"js", "cli">>, 1, 0, {t1, t2}, {p1}, {"api", "refresh", "login"}, 2, 2, 1, {"lost"}, 0),
     Mode(<<"js", "python">>, 1, 2, {t1, t3}, {p1}, {"api", "logout"}, 2, 2, 1, {"lost", "expiry"}, 0),
     Mode(<<"js", "cli">>, 1, 0, {t1, t2}, {p1}, {"refresh", "logout"}, 3, 1, 0, {}, 0),
     Mode(<<"go", "python">>, 1, 1, {t1, t3}, {p1}, {"api", "refresh"}, 3, 2, 1, {"tx"}, 0),
     Mode(<<"cli", "cli">>, 1, 0, {t1}, {p1, p2}, {"api", "login"}, 2, 6, 0, {}, 1),
     Mode(<<"cli", "cli">>, 1, 0, {t1}, {p1}, {"api", "revoke", "login"}, 2, 5, 1, {"redis"}, 0),
     Mode(<<"cli", "cli">>, 1, 0, {t1}, {p1}, {"api", "delete", "login"}, 2, 7, 0, {}, 0),
     Mode(<<"cli", "cli">>, 1, 0, {t1}, {p1}, {"mkkey", "key"}, 3, 4, 0, {}, 0),
     Mode(<<"cli", "cli">>, 0, 0, {t1}, {p1}, {"register", "create", "login", "logout"}, 2, 2, 0, {}, 0)}
=============================================================================
