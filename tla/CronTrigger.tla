----------------------------- MODULE CronTrigger -----------------------------
(***************************************************************************)
(* CronTrigger.get_next_trigger_time (triggers/cron/): the walk from the   *)
(* first instant that may match to the next one that does, field by field, *)
(* one action per iteration of its loop, next to what the answer should    *)
(* be.  Dates are naive: the walk of a fixed offset.                       *)
(***************************************************************************)
EXTENDS Calendar, Sequences, SequencesExt, Functions, FiniteSets

CONSTANTS
  NoValue,     \* Python's None
  NoAnswer,    \* the call has not returned
  Schedules,   \* keyword arguments of triggers: functions from field names
  Starts,      \* the instants from which a next one is asked for
  EndAt        \* end_at of every trigger, which bounds the walks

VARIABLES
  trigger,     \* the fields of the trigger
  previous,    \* previous_time, or NoValue
  start,       \* the first instant that may match
  next_date,   \* the locals of get_next_trigger_time
  fieldnum,
  answer       \* what it returned, NoAnswer until then

cron == <<trigger, previous, start, next_date, fieldnum, answer>>

-----------------------------------------------------------------------------
(* Fields and expressions *)

FieldNames == <<"year", "month", "day", "week", "day_of_week", "hour", "minute", "second">>
Name(n)    == FieldNames[n + 1]         \* Python's fields[n]
LastField  == 7
Real(n)    == Name(n) \notin {"week", "day_of_week"}

MinValue == [year |-> 1970, month |-> 1, day |-> 1, week |-> 1,
             day_of_week |-> 0, hour |-> 0, minute |-> 0, second |-> 0]
MaxValue == [year |-> 9999, month |-> 12, day |-> 31, week |-> 53,
             day_of_week |-> 6, hour |-> 23, minute |-> 59, second |-> 59]

\* Expressions; 0 is no step.
Every(step)     == [kind |-> "all", step |-> step]
Between(f, l, step) ==
  [kind |-> "range", first |-> f, step |-> step,
   last |-> IF l = NoValue /\ step = 0 THEN f ELSE l]
Position(nth, weekday) == [kind |-> "position", nth |-> nth, weekday |-> weekday]
LastDay         == [kind |-> "last"]

\* The checks of the constructors and of validate_range; a trigger that fails
\* one is not made.
ValidStep(step, low, high) == step = 0 \/ step <= high - low
Valid(e, name) ==
  CASE e.kind = "all"   -> ValidStep(e.step, MinValue[name], MaxValue[name])
    [] e.kind = "range" ->
         /\ ValidStep(e.step, MinValue[name], MaxValue[name])
         /\ e.first >= MinValue[name]
         /\ e.last # NoValue => e.first <= e.last /\ e.last <= MaxValue[name]
         /\ ValidStep(e.step, e.first,
              IF e.last \in {NoValue, 0} THEN MaxValue[name] ELSE e.last)
    [] e.kind \in {"position", "last"} -> name = "day"

\* The fields left of the least significant one that is given are "*", those
\* right of it their minimum.
Defaults == [year |-> Every(0), month |-> Between(1, NoValue, 0), day |-> Between(1, NoValue, 0),
             week |-> Every(0), day_of_week |-> Every(0), hour |-> Between(0, NoValue, 0),
             minute |-> Between(0, NoValue, 0), second |-> Between(0, NoValue, 0)]
Fields(given) ==
  LET least == Max({n \in 0..LastField : Name(n) \in DOMAIN given} \cup {-1})
  IN [n \in 0..LastField |->
        CASE Name(n) \in DOMAIN given -> given[Name(n)]
          [] Name(n) \notin DOMAIN given /\ least >= 0 /\ n > least -> {Defaults[Name(n)]}
          [] OTHER -> {Every(0)}]

get_min(n, d) == MinValue[Name(n)]
get_max(n, d) == IF Name(n) = "day" THEN DaysIn(d.year, d.month) ELSE MaxValue[Name(n)]
get_value(n, d) ==
  CASE Name(n) = "week"        -> IsoWeek(d)
    [] Name(n) = "day_of_week" -> Weekday(d)
    [] OTHER                   -> d[Name(n)]

\* The next value of one expression, or NoValue.  A mutant leaves out the last.
Below(value, high) == IF value < high THEN value ELSE NoValue
UpTo(value, high) == IF value <= high THEN value ELSE NoValue
Larger(a, b) == IF a >= b THEN a ELSE b
StepUp(value, low, step) ==
  IF step = 0 THEN value ELSE value + ((step - (value - low)) % step)

NextOfAll(e, n, d) ==
  LET low == get_min(n, d)
  IN UpTo(StepUp(Larger(get_value(n, d), low), low, e.step), get_max(n, d))
NextOfRange(e, n, d) ==
  LET low  == Larger(get_min(n, d), e.first)
      high == IF e.last # NoValue /\ e.last < get_max(n, d) THEN e.last ELSE get_max(n, d)
  IN UpTo(StepUp(Larger(get_value(n, d), low), low, e.step), high)
NextOfPosition(e, n, d) ==
  LET wday   == e.weekday - Weekday([d EXCEPT !.day = 1]) + 1
      hit    == IF wday <= 0 THEN wday + 7 ELSE wday
      last   == DaysIn(d.year, d.month)
      target == IF e.nth < 5 THEN hit + e.nth * 7 ELSE hit + ((last - hit) \div 7) * 7
  IN IF target <= last /\ target >= d.day THEN target ELSE NoValue

get_next_value(n, d) ==
  LET values == {CASE e.kind = "all"      -> NextOfAll(e, n, d)
                   [] e.kind = "range"    -> NextOfRange(e, n, d)
                   [] e.kind = "position" -> NextOfPosition(e, n, d)
                   [] e.kind = "last"     -> DaysIn(d.year, d.month) : e \in trigger[n]}
                \ {NoValue}
  IN IF values = {} THEN NoValue ELSE Min(values)

-----------------------------------------------------------------------------
(* The walk *)

\* A date with the real fields before n as in d, n set to value, and those
\* after it at their minimum.
Reset(d, n, value) ==
  LET At(m) == CASE m < n -> d[Name(m)] [] m = n -> value [] OTHER -> MinValue[Name(m)]
  IN Date(At(0), At(1), At(2), At(5), At(6), At(7))

\* increment_field_value: one up in field n, or in the next more significant
\* one that is not at its maximum.  A mutant forgets that months differ.
Carry31(d, n) == Max({-1} \cup {m \in 0..n : Real(m) /\ d[Name(m)] < MaxValue[Name(m)]})
Carry(d, n)   == Max({-1} \cup {m \in 0..n : Real(m) /\ d[Name(m)] < get_max(m, d)})
Increment(d, n) ==
  LET m == Carry(d, n)
  IN Reset(d, m, IF m < 0 THEN 0 ELSE d[Name(m)] + 1)
set_field_value(d, n, value) == Reset(d, n, value)

\* A microsecond after the previous run, rounded up to a second.
AfterPrevious(d) == Increment(d, LastField)
StartOf(prev, now) ==
  CASE prev = NoValue                -> now
    [] prev # NoValue /\ Seconds(now) < Seconds(prev) -> now
    [] OTHER                         -> AfterPrevious(prev)

\* The constructors turn each keyword argument into expressions; the clock is
\* past 1970, the first year of a field.
Expressions == [kind : {"all"}, step : Nat]
                 \cup [kind : {"range"}, first : Nat, last : Nat \cup {NoValue}, step : Nat]
                 \cup [kind : {"position"}, nth : 0..5, weekday : 0..6]
                 \cup [kind : {"last"}]
Dates == {d \in [year : 1970..9999, month : 1..12, day : 1..31,
                 hour : 0..23, minute : 0..59, second : 0..59] : d.day <= DaysIn(d.year, d.month)}
ASSUME CronAssumption ==
  /\ NoValue \notin Nat \cup Dates /\ NoAnswer \notin Dates \cup {NoValue}
  /\ \A given \in Schedules : \A name \in DOMAIN given : given[name] \subseteq Expressions
  /\ Starts \subseteq Dates /\ EndAt \in Dates

Accepted(given) == \A n \in 0..LastField : \A e \in Fields(given)[n] : Valid(e, Name(n))

CronCall ==
  \E given \in {g \in Schedules : Accepted(g)},
     prev \in Starts \cup {NoValue}, now \in Starts :
    /\ trigger = Fields(given)
    /\ previous = prev
    /\ start = StartOf(prev, now)
    /\ next_date = start
    /\ fieldnum = 0
    /\ answer = NoAnswer
NoCronCall ==
  /\ trigger = <<>> /\ previous = NoValue /\ start = NoValue
  /\ next_date = NoValue /\ fieldnum = 0 /\ answer = NoValue

PastEnd(d) == Seconds(d) > Seconds(EndAt)

\* A field that already fits is passed; one that has a later value is set, or
\* counted up when it is not a real one; one without is carried.
Move ==
  LET next == get_next_value(fieldnum, next_date)
      curr == get_value(fieldnum, next_date)
      Moved(date, n) == next_date' = date /\ fieldnum' = n
  IN CASE next = NoValue ->
            Moved(Increment(next_date, fieldnum - 1), Carry(next_date, fieldnum - 1))
       [] next # NoValue /\ next > curr /\ Real(fieldnum) ->
            Moved(set_field_value(next_date, fieldnum, next), fieldnum + 1)
       [] next # NoValue /\ next > curr /\ ~Real(fieldnum) ->
            Moved(Increment(next_date, fieldnum), Carry(next_date, fieldnum))
       [] OTHER -> Moved(next_date, fieldnum + 1)

CronStep ==
  /\ answer = NoAnswer
  /\ fieldnum \in 0..LastField
  /\ Move
  /\ answer' = IF PastEnd(next_date') THEN NoValue ELSE NoAnswer
  /\ UNCHANGED <<trigger, previous, start>>

CronReturn ==
  /\ answer = NoAnswer
  /\ fieldnum \notin 0..LastField
  /\ answer' = IF fieldnum >= 0 THEN next_date ELSE NoValue
  /\ UNCHANGED <<trigger, previous, start, next_date, fieldnum>>

CronNextStep == CronStep \/ CronReturn
CronSpec == CronCall /\ [][CronNextStep]_cron

-----------------------------------------------------------------------------
(* What a schedule means, without a walk *)

Matches(e, n, d) ==
  LET v == get_value(n, d)
  IN CASE e.kind = "all"   -> e.step = 0 \/ (v - MinValue[Name(n)]) % e.step = 0
       [] e.kind = "range" -> /\ e.first <= v
                              /\ e.last # NoValue => v <= e.last
                              /\ e.step = 0 \/ (v - e.first) % e.step = 0
       [] e.kind = "position" ->
            /\ Weekday(d) = e.weekday
            /\ IF e.nth < 5 THEN (d.day - 1) \div 7 = e.nth
                            ELSE d.day + 7 > DaysIn(d.year, d.month)
       [] e.kind = "last"  -> d.day = DaysIn(d.year, d.month)
Fits(n, d) == \E e \in trigger[n] : Matches(e, n, d)

DayFits(d)  == \A n \in 0..4 : Fits(n, d)
TimeFits(d) == \A n \in 5..LastField : Fits(n, d)

\* No instant of [from, to) matches; hours, minutes and seconds are
\* independent of the day, so that a day between the two has a matching
\* instant exactly if its fields match and there is any matching time.
DaysFrom(from, to) ==
  {d \in {Date(y, m, x, 0, 0, 0) : y \in from.year..to.year, m \in 1..12, x \in 1..31} :
     /\ d.day <= DaysIn(d.year, d.month)
     /\ Ordinal(from) <= Ordinal(d) /\ Ordinal(d) <= Ordinal(to)}
Values(n) == {v \in MinValue[Name(n)]..MaxValue[Name(n)] :
                Fits(n, [start EXCEPT ![Name(n)] = v])}
TimesBetween(d, from, to) ==
  \E h \in Values(5), mi \in Values(6), s \in Values(7) :
    LET t == Date(d.year, d.month, d.day, h, mi, s)
    IN Seconds(from) <= Seconds(t) /\ Seconds(t) < Seconds(to)
Skips(from, to) == \E d \in DaysFrom(from, to) : DayFits(d) /\ TimesBetween(d, from, to)

-----------------------------------------------------------------------------
(* Properties *)

\* The answer of get_next_trigger_time (triggers/cron/trigger.py:223) matches
\* every field, lies after the previous run and at or after the start, and no
\* matching instant before it, or before end_at when there is none, is skipped.
CronFindsNext ==
  answer # NoAnswer /\ trigger # <<>> =>
    IF answer = NoValue THEN ~Skips(start, [EndAt EXCEPT !.second = @ + 1])
    ELSE /\ DayFits(answer) /\ TimeFits(answer)
         /\ Seconds(start) <= Seconds(answer) /\ ~PastEnd(answer)
         /\ ~Skips(start, answer)

CronTypeOK ==
  trigger # <<>> =>
    /\ fieldnum \in -1..(LastField + 1)
    /\ next_date.day \in 1..DaysIn(next_date.year, next_date.month)
    /\ \A n \in 0..LastField : Real(n) => next_date[Name(n)] \in MinValue[Name(n)]..MaxValue[Name(n)]

\* Every turn of the loop goes on to the next field or forward in time, so
\* that the walk ends (trigger.py:252).
CronReturns == trigger # <<>> ~> answer # NoAnswer
==============================================================================
