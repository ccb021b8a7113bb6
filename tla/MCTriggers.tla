----------------------------- MODULE MCTriggers -----------------------------
(* Days around month ends, leap days and ISO year ends, times of day at their
   limits; triggers over a few instants, alone and in pairs. *)
EXTENDS Triggers, TLC

Each == {Every(0)}
At(v) == {Between(v, NoValue, 0)}
Months == {Each, At(2), {Between(4, 11, 5), Between(12, NoValue, 0)}}
Days   == {Each, At(31), {LastDay}, {Position(1, 3)}, {Position(5, 4)}, {Every(10)},
           {Position(4, 1), Between(29, 30, 0)}}
Weeks  == {Each, At(53) \cup At(9), {Between(1, 50, 12)}}
Wdays  == {Each, {Between(0, 4, 0)}, At(6)}
Calendars == {("month" :> m) @@ ("day" :> d) @@ ("week" :> w) @@ ("day_of_week" :> x) :
             m \in Months, d \in Days, w \in Weeks, x \in Wdays}
Times  == {("hour" :> h) @@ ("minute" :> mi) @@ ("second" :> s) :
             h \in {Each, {Between(9, 17, 8)}}, mi \in {Each, {Every(30)}, At(59)},
             s \in {At(0), {Between(58, 59, 0)}}}
Years  == {("year" :> y) @@ ("hour" :> At(12)) : y \in {At(2023), At(2025)}}
Wrong  == {"day" :> At(0), "hour" :> {Between(9, 5, 0)}, "minute" :> {Every(60)}}
MCSchedules == Calendars \cup Times \cup Years \cup Wrong

MCStarts == {Date(2023, 12, 30, 23, 59, 59), Date(2024, 2, 29, 0, 0, 0), Date(2024, 1, 31, 12, 0, 0)}
MCEndAt  == Date(2025, 3, 1, 12, 0, 0)

MCInstants == {0, 1, 3, 6}
Interval(from, every, end, jitter) ==
  [kind |-> "interval", start_at |-> from, interval |-> every, end_at |-> end, jitter |-> jitter]
Cron(times, jitter) == [kind |-> "cron", times |-> times, jitter |-> jitter]
DateAt(x) == [kind |-> "date", run_at |-> x]
Singles == {DateAt(3), DateAt(8), Interval(0, 2, 14, 0), Interval(1, 3, 13, 0), Interval(2, 4, 12, 2),
            Cron({1, 4, 7, 8, 13}, 0), Cron({2, 4, 5, 10}, 1), Cron({}, 0), [kind |-> "shutdown"]}
Pairs == {[kind |-> k, triggers |-> <<a, b>>, jitter |-> j] :
            k \in {"and", "or"}, a \in Singles, b \in Singles, j \in 0..1}
MCTriggersAll == Singles \cup Pairs

Init == (CronCall /\ NoTriggerCall) \/ (NoCronCall /\ TriggerCall)
Walk == CronNextStep /\ UNCHANGED calls
Loop == LoopNext /\ UNCHANGED cron
vars == <<cron, calls>>
Spec == Init /\ [][Walk \/ Loop]_vars /\ WF_vars(Walk) /\ WF_vars(Loop)
==============================================================================
