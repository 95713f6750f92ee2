---------------------------- MODULE JobsService -----------------------------
(***************************************************************************)
(* The two sides of the jobs service side by side: the life of jobs        *)
(* (JobLifecycle) and CreateJob calls that carry one idempotency key       *)
(* (IdempotentCreate).  JobLifecycle creates a job in one step and looks   *)
(* at what follows; IdempotentCreate looks into that step and ends where   *)
(* the job is picked up.  A behaviour is of one side.                      *)
(***************************************************************************)
EXTENDS JobLifecycle

CONSTANTS
    Sides,        \* the sides looked at: subset of {"life", "create"}
    Requests, Owner, MaxKeyFaults     \* of IdempotentCreate

ASSUME RequestsAssumption == NoJob \notin Requests

VARIABLES
    side,
    redis, stored, keyStatus, published, callPc, existing, answer, keyFaults

Keys == INSTANCE IdempotentCreate
            WITH status <- keyStatus, pc <- callPc, faults <- keyFaults, MaxFaults <- MaxKeyFaults

keyVars == <<redis, stored, keyStatus, published, callPc, existing, answer, keyFaults>>

ServiceInit == side \in Sides /\ Init /\ Keys!Init

ServiceNext == \/ side = "life" /\ Next /\ UNCHANGED <<side, keyVars>>
               \/ side = "create" /\ Keys!Next /\ UNCHANGED <<side, vars>>

ServiceSpec == ServiceInit /\ [][ServiceNext]_<<side, vars, keyVars>> /\ Fairness

\* "same key, same job": however the calls interleave, the Redis claim expires
\* or is dropped by another call, and whatever fails, every call that returns a
\* job returns the one that is stored under the key.
SameKeySameJob == Keys!SameKeySameJob

\* The key is worth one execution: no two jobs that carry it are published.
PublishedOnce == Keys!PublishedOnce
=============================================================================
