--------------------------- MODULE MCJobsService ----------------------------
(* Instances of the jobs service for TLC; of three calls with one key one   *)
(* comes from another owner.                                                *)
EXTENDS JobsService

CONSTANTS j1, w1, w2, r1, r2, r3

OneJob  == {j1}
TwoWorkers == {w1, w2}
OneWorker  == {w1}

AllOrigins == {"now", "scheduled", "cron"}
NowOnly    == {"now"}

AllFaults  == {"publish", "service", "redeliver", "db", "crash", "expire",
               "unknown_generation"}
CrashOnly  == {"crash"}

BothSides == {"life", "create"}
LifeOnly  == {"life"}

ThreeRequests == {r1, r2, r3}
TwoOwners     == [r \in ThreeRequests |-> IF r = r3 THEN "bob" ELSE "alice"]
=============================================================================
