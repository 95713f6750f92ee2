----------------------------- MODULE MCSchedules -----------------------------
(* A worker and the cron loop for TLC.  A year has the days 1 and 2 of month *)
(* 1 and the day 1 of month 2, a week two days, a day two hours of two       *)
(* minutes, a minute two ticks.                                              *)
EXTENDS Schedules

CONSTANTS c1, c2, s1, s2, j1, j2, j3, j4

MCYear == <<[month |-> 1, dom |-> 1], [month |-> 1, dom |-> 2], [month |-> 2, dom |-> 1]>>

Base == [slots |-> 1, spec |-> {}, lanes |-> [l \in Lanes |-> <<>>], poison |-> {}, endless |-> FALSE, calls |-> {"2xx"},
         faults |-> 0, kinds |-> {}, horizon |-> 0, crons |-> {c1, c2}, requests |-> {}, callers |-> {}, broken |-> {},
         topics |-> <<1>>, batch |-> 1, prompt |-> FALSE, skew |-> [s \in Schedulers |-> 0], fires |-> 8 * Horizon]

(* Messages at the start: of jobs.p1, of jobs.p2 and of jobs.                *)
Lane(a, b, c) == [l \in Lanes |-> CASE l = 1 -> a [] l = 2 -> b [] l = Legacy -> c]

(* Urgent messages that keep coming, and a rebalance of a consumer.          *)
Urgent == [Base EXCEPT !.lanes = Lane(<<Msg(j1, 1), Msg(j2, 1)>>, <<Msg(j3, 2)>>, <<Msg(j4, Legacy)>>), !.endless = TRUE,
                       !.kinds = {"rebalance"}, !.faults = 1]

(* A stop with consumers that wait, with retries that wait, and a kill.      *)
Stop  == [Base EXCEPT !.slots = 2, !.lanes = Lane(<<Msg(j1, 1), Msg(j2, 1)>>, <<Msg(j3, 2)>>, <<Msg(j4, Legacy)>>),
                      !.kinds = {"stop"}, !.faults = 1]
Stops == {[Base EXCEPT !.lanes = Lane(<<Msg(j1, 1)>>, <<>>, <<Msg(j2, Legacy)>>), !.calls = {"5xx"},
                       !.kinds = {"stop", k}, !.faults = 2] : k \in {"deadline", "kill", "publish"}}

(* A job that is on two topics.                                              *)
Twice == [Base EXCEPT !.lanes = Lane(<<Msg(j1, 1)>>, <<>>, <<Msg(j1, Legacy)>>), !.calls = {"5xx"},
                      !.kinds = {"stop", "database"}, !.faults = 2]

Webhooks == [Base EXCEPT !.slots = 2, !.lanes = Lane(<<Msg(j1, 1)>>, <<Msg(j1, 2)>>, <<Msg(j2, Legacy)>>),
                         !.calls = Calls, !.poison = {j2}, !.kinds = {"lease"}, !.faults = 1]

Item(a, b) == [lo |-> a, hi |-> b]
Boots == {[Base EXCEPT !.spec = s, !.lanes = Lane(<<Msg(j1, 1)>>, <<Msg(j2, 2)>>, <<Msg(j3, Legacy)>>),
                       !.kinds = {"boot"}, !.faults = 1]
             : s \in SUBSET {Item(1, 1), Item(2, 1), Item(2, 3), LegacyItem}}

(* Expressions: every minute; a value, a list, a range with a step, a value  *)
(* with a step; both kinds of day, where 2 is day 0 of the week; a month; a  *)
(* day that never comes; an hour that is not there.                          *)
Always   == [minute |-> {Star}, hour |-> {Star}, dom |-> {Star}, month |-> {Star}, dow |-> {Star}]
Noon     == [Always EXCEPT !.minute = {Value(1)}, !.hour = {Every(Star, 2), Value(1)}]
Stepped  == [Always EXCEPT !.minute = {Every(Value(0), 1)}, !.hour = {Every(Between(0, 1), 2)}, !.dom = {Value(2)}]
Either   == [Always EXCEPT !.minute = {Value(0)}, !.dom = {Value(2)}, !.dow = {Value(2)}]
Weekly   == [Always EXCEPT !.hour = {Between(1, 1)}, !.dow = {Value(1)}]
Monthly  == [Always EXCEPT !.minute = {Value(0)}, !.hour = {Value(0)}, !.dom = {Between(1, 2)}, !.month = {Value(2)}]
Feb31    == [Always EXCEPT !.dom = {Value(2)}, !.month = {Value(2)}]
Bad      == [Always EXCEPT !.hour = {Value(2)}]

MCExprs == <<Always, Noon, Stepped, Either, Weekly, Monthly, Feb31, Bad>>

Req(expr) == [name |-> 1, expr |-> expr, job |-> "valid", enabled |-> TRUE, owner |-> "u1"]

(* The calendar, one schedule at a time and without a worker.                *)
Calendars == {[Base EXCEPT !.spec = {Item(2, 1)}, !.crons = {c1}, !.horizon = Horizon, !.prompt = TRUE,
                           !.requests = {Req(e), [Req(e) EXCEPT !.name = 0], [Req(e) EXCEPT !.job = "invalid"]}]
                 : e \in 1 .. Len(MCExprs)}

(* Two replicas: with deletions, and with every fault; and the jobs on their *)
(* way to the worker.                                                        *)
Two        == [Base EXCEPT !.spec = {Item(2, 1)}, !.horizon = 4, !.requests = {Req(1)}]
Deleted    == [Two EXCEPT !.callers = {"u1", "u2"}]
Replicated == {[Two EXCEPT !.horizon = 3, !.broken = {7, 8}, !.kinds = {k}, !.faults = 1, !.batch = 2]
                  : k \in {"publish", "abort", "corrupt"}}
Delivered  == [Base EXCEPT !.crons = {c1}, !.horizon = 3, !.requests = {Req(1)}, !.kinds = {"publish", "abort"},
                           !.faults = 1, !.topics = <<1, Legacy>>]

(* Replicas whose clocks are not the one of the database.                    *)
Ahead   == [Two EXCEPT !.skew = [s \in Schedulers |-> IF s = s1 THEN 1 ELSE 0]]
Behind  == [Two EXCEPT !.horizon = 2, !.skew = [s \in Schedulers |-> IF s = s1 THEN -1 ELSE 0], !.fires = 3]

MCModes == {Urgent, Stop, Twice, Webhooks, Deleted, Delivered, Ahead, Behind} \cup Stops \cup Boots \cup Calendars \cup Replicated
=============================================================================
