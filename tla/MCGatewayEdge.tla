---------------------------- MODULE MCGatewayEdge ----------------------------
(* The gateway for TLC: two requests at a time, two replicas.                *)
EXTENDS GatewayEdge

CONSTANTS r1, r2, g1, g2

Base == [requests |-> {r1, r2}, routes |-> {list}, replicas |-> {g1}, store |-> "memory", faults |-> 0,
         kinds |-> {}, ticks |-> 0, once |-> TRUE, limited |-> FALSE, anyone |-> FALSE, slow |-> FALSE, paging |-> FALSE]

(* The breaker under an outage, with traffic that goes on.                   *)
Recovery == [Base EXCEPT !.once = FALSE, !.kinds = {"down", "hung"}, !.faults = 2]

(* Every handler under an upstream that comes and goes.                      *)
Handlers == [Base EXCEPT !.requests = {r1}, !.routes = Table, !.kinds = {"down", "hung", "client"}, !.faults = 2]

(* One rate-limit key over two replicas, and over one without Redis.         *)
Limits == [Base EXCEPT !.replicas = {g1, g2}, !.store = "redis", !.limited = TRUE, !.ticks = 1, !.once = FALSE,
                       !.kinds = {"redis", "client"}, !.faults = 1]
Local  == [Base EXCEPT !.limited = TRUE, !.ticks = 4, !.once = FALSE]

(* The audit trail of requests that are refused, time out or are cut off,    *)
(* and of those under way when the gateway stops.                            *)
Refused == [Base EXCEPT !.routes = {create}, !.anyone = TRUE, !.kinds = {"insert"}, !.faults = 1,
                        !.paging = TRUE]
CutOff  == [Base EXCEPT !.requests = {r1}, !.routes = {create}, !.slow = TRUE, !.anyone = TRUE,
                        !.kinds = {"client", "hung", "panic"}, !.faults = 1]
Stopped == [Base EXCEPT !.routes = {create}, !.kinds = {"sigterm"}, !.faults = 1]
Dropped == [Base EXCEPT !.requests = {r1}, !.routes = {create}, !.kinds = {"insert", "sigterm"}, !.faults = 2]

MCModes == {Recovery, Handlers, Limits, Local, Refused, CutOff, Stopped, Dropped}

(* A health probe of an upstream that hangs is given up before the call's    *)
(* own timeout.                                                              *)
Probed == [Base EXCEPT !.routes = {list, grpcAlive}, !.once = FALSE, !.kinds = {"hung"}, !.faults = 1]
MCProbedModes == {Probed}
=============================================================================
