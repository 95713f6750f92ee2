--------------------------- MODULE MCWebsocketHub ---------------------------
(* An instance of WebsocketHub for TLC: two tabs of one user, on one replica *)
(* or on two.                                                                *)
EXTENDS WebsocketHub

CONSTANTS c1, c2, n1, n2, m1, alice

TwoConns  == {c1, c2}
Owners    == [c \in Conns |-> alice]
TwoNodes  == {n1, n2}
OneServes == [c \in Conns |-> n1]
TwoServe  == [c \in Conns |-> IF c = c1 THEN n1 ELSE n2]
\* On two replicas, two frames and a fault, or three frames (both tabs join, one
\* publishes) and none; on one replica, one frame and a fault, or two frames and none.
SomeStarts == {[node |-> TwoServe,  frames |-> 1, faults |-> 0],
               [node |-> TwoServe,  frames |-> 0, faults |-> 1],
               [node |-> OneServes, frames |-> 2, faults |-> 0],
               [node |-> OneServes, frames |-> 1, faults |-> 1]}
OneRoom   == {<<"room", "jobs">>}
OneMessage == {m1}
AllFaults == {"client", "slow", "redis", "shutdown", "kill"}
=============================================================================
