------------------------------ MODULE Triggers ------------------------------
(***************************************************************************)
(* The triggers over plain instants (seconds from some origin) and the     *)
(* loops that ask them: AndTrigger, which asks its members again until     *)
(* they agree (triggers/combination.py), Task.get_run_times and            *)
(* BaseScheduler.preview_task_runs.  A cron trigger is the set of instants *)
(* that CronTrigger shows its walk to find.  next_run_time moves by one    *)
(* action per call and per turn of AndTrigger's loop.                      *)
(***************************************************************************)
EXTENDS CronTrigger

CONSTANTS
  AllTriggers,  \* the triggers of the instance
  Instants,     \* the instants a call is made at or about
  MaxCount      \* bound on preview_task_runs' count, which the code caps at 50

\* The triggers that a combination here consists of.  Neither an interval nor a
\* jitter is negative: that the constructors do not refuse one is no schedule.
Plain == {t \in [kind : {"date"}, run_at : Nat]
            \cup [kind : {"interval"}, start_at : Nat, interval : Nat \ {0}, end_at : Nat, jitter : Nat]
            \cup [kind : {"cron"}, times : SUBSET Nat, jitter : Nat]
            \cup [kind : {"shutdown"}] : t.kind = "cron" => IsFiniteSet(t.times)}

ASSUME TriggersAssumption ==
  /\ Instants \subseteq Nat /\ IsFiniteSet(Instants)
  /\ NoAnswer \notin Nat
  /\ \A t \in AllTriggers :
       t \notin Plain =>
         /\ t \in [kind : {"and", "or"}, triggers : Seq(Plain), jitter : Nat]
         /\ t.kind = "and" => t.triggers # <<>>

VARIABLES
  task,         \* its trigger, or NoValue before a call
  operation,    \* "next", "runs" (get_run_times) or "preview"
  now, count,   \* the arguments
  asked,        \* AndTrigger's local now
  given,        \* previous_time of the call in progress
  next,         \* next_run_time: NoAnswer while the trigger is asked
  run_times     \* what the loop has collected

calls == <<task, operation, now, count, asked, given, next, run_times>>

-----------------------------------------------------------------------------
(* The answers of a trigger: a set, for jitter is drawn *)

Smaller(a, b) == IF a <= b THEN a ELSE b
Jittered(x, jitter) == IF x = NoValue THEN {NoValue} ELSE x..(x + jitter)
CeilDiv(a, b) == (a + b - 1) \div b
\* A mutant counts the interval already under way.
GridDown(t, at) == t.start_at + t.interval * ((at - t.start_at) \div t.interval)
Grid(t, at) == t.start_at + t.interval * CeilDiv(at - t.start_at, t.interval)

\* A mutant lets the search start at the previous run itself.
StartAtPrevious(prev, at) == IF prev = NoValue THEN at ELSE Smaller(at, prev)
FirstInstant(prev, at) ==
  CASE prev = NoValue              -> at
    [] prev # NoValue /\ at < prev -> at
    [] OTHER                       -> prev + 1

DateNext(t, prev) == {IF prev = NoValue THEN t.run_at ELSE NoValue}
IntervalNext(t, prev, at) ==
  LET x == CASE prev # NoValue                        -> prev + t.interval
             [] prev = NoValue /\ t.start_at > at     -> t.start_at
             [] OTHER                                 -> Grid(t, at)
  IN {IF y <= t.end_at THEN y ELSE NoValue : y \in Jittered(x, t.jitter)}
CronNext(t, prev, at) ==
  LET later == {x \in t.times : x >= FirstInstant(prev, at)}
  IN IF later = {} THEN {NoValue}
     ELSE {Smaller(y, Max(t.times)) : y \in Jittered(Min(later), t.jitter)}

MemberNext(t, prev, at) ==
  CASE t.kind = "date"     -> DateNext(t, prev)
    [] t.kind = "interval" -> IntervalNext(t, prev, at)
    [] t.kind = "cron"     -> CronNext(t, prev, at)
    [] t.kind = "shutdown" -> {NoValue}
Members(t) == DOMAIN t.triggers
\* One round of questions: an answer of every member.
Asked(t, prev, at) ==
  LET all == UNION {MemberNext(t.triggers[i], prev, at) : i \in Members(t)}
  IN {a \in [Members(t) -> all] : \A i \in Members(t) : a[i] \in MemberNext(t.triggers[i], prev, at)}
Given(answers) == Range(answers) \ {NoValue}

\* Calls that need no loop.
OrNext(t, prev, at) ==
  UNION {IF Given(a) = {} THEN {NoValue} ELSE Jittered(Min(Given(a)), t.jitter)
           : a \in Asked(t, prev, at)}
TriggerNext(t, prev, at) ==
  IF t.kind = "or" THEN OrNext(t, prev, at) ELSE MemberNext(t, prev, at)

-----------------------------------------------------------------------------
(* The loops *)

\* get_run_times starts from the task's next_run_time; preview_task_runs from
\* it, or from a first call when the task has none.
TriggerCall ==
  /\ task \in AllTriggers
  /\ operation \in {"next", "runs", "preview"}
  /\ now \in Instants
  /\ count \in IF operation = "preview" THEN 1..MaxCount ELSE {0}
  /\ asked = now
  /\ given \in IF operation = "next" THEN Instants \cup {NoValue} ELSE {NoValue}
  /\ next \in CASE operation = "next"    -> {NoAnswer}
                [] operation = "runs"    -> Instants
                [] operation = "preview" -> Instants \cup {NoAnswer}
  /\ run_times = <<>>
NoTriggerCall ==
  /\ task = NoValue /\ operation = NoValue /\ now = 0 /\ count = 0
  /\ asked = 0 /\ given = NoValue /\ next = NoValue /\ run_times = <<>>

Answers(value) ==
  /\ next' = value
  /\ UNCHANGED <<task, operation, now, count, asked, given, run_times>>

Ask ==
  /\ task # NoValue /\ next = NoAnswer
  /\ task.kind # "and"
  /\ \E x \in TriggerNext(task, given, asked) : Answers(x)

\* AndTrigger: a member without an answer ends it, equal answers are the
\* answer, and different ones are asked about again from the latest on.  A
\* mutant goes on from the earliest.
Earliest(answers) == Min(Given(answers))
Recheck(answers)  == Max(Given(answers))
Agree ==
  /\ task # NoValue /\ next = NoAnswer
  /\ task.kind = "and"
  /\ \E a \in Asked(task, given, asked) :
       \/ NoValue \in Range(a) /\ Answers(NoValue)
       \/ /\ NoValue \notin Range(a)
          /\ Cardinality(Range(a)) = 1
          /\ \E x \in Jittered(a[1], task.jitter) : Answers(x)
       \/ /\ NoValue \notin Range(a)
          /\ Cardinality(Range(a)) > 1
          /\ asked' = Recheck(a)
          /\ UNCHANGED <<task, operation, now, count, given, next, run_times>>

\* The bodies of the while loops: the time is kept and the next one asked for,
\* by get_run_times about now, by preview_task_runs about the time itself.
Collecting ==
  /\ next \notin {NoAnswer, NoValue}
  /\ \/ operation = "runs" /\ next <= now
     \/ operation = "preview" /\ Len(run_times) < count
Collect ==
  /\ Collecting
  /\ run_times' = Append(run_times, next)
  /\ given' = next
  /\ asked' = IF operation = "runs" THEN now ELSE next
  /\ next' = NoAnswer
  /\ UNCHANGED <<task, operation, now, count>>

LoopNext == Ask \/ Agree \/ Collect
LoopSpec == TriggerCall /\ [][LoopNext]_calls

-----------------------------------------------------------------------------
(* Properties *)

\* What a trigger stands for when nothing has run yet.
Fires(t, x) ==
  CASE t.kind = "date"     -> x = t.run_at
    [] t.kind = "interval" -> x >= t.start_at /\ x <= t.end_at /\ (x - t.start_at) % t.interval = 0
    [] t.kind = "cron"     -> x \in t.times
    [] t.kind = "shutdown" -> FALSE
FiresAt(t, x) ==
  CASE t.kind = "and" -> \A i \in Members(t) : Fires(t.triggers[i], x)
    [] t.kind = "or"  -> \E i \in Members(t) : Fires(t.triggers[i], x)
    [] OTHER          -> Fires(t, x)
Horizon == 0..(Max(Instants) + Max(Instants))
Parts(t) == IF t.kind \in {"and", "or"} THEN {t} \cup Range(t.triggers) ELSE {t}
Drawn(t) == \E u \in Parts(t) : "jitter" \in DOMAIN u /\ u.jitter > 0

\* The first answer of a trigger without jitter is an instant it stands for,
\* not in the past but for a date, and none from now on is passed over: for a
\* combination the earliest one all its members share (combination.py:24), or
\* any of them has (combination.py:52).
FindsEarliest ==
  (operation = "next" /\ given = NoValue /\ next # NoAnswer /\ ~Drawn(task)) =>
    IF next = NoValue THEN \A x \in Horizon : x >= now => ~FiresAt(task, x)
    ELSE /\ FiresAt(task, next)
         /\ next >= now \/ \E t \in Parts(task) : t.kind = "date"
         /\ \A x \in Horizon : now <= x /\ x < next => ~FiresAt(task, x)

\* No run time comes up twice or out of order, whatever jitter draws: what
\* get_run_times and preview_task_runs collect only grows, and the answer
\* lies after the last of them (tasks/base.py:70, schedulers/base.py:1066).
RunTimesAdvance ==
  /\ \A i, j \in DOMAIN run_times : i < j => run_times[i] < run_times[j]
  /\ (next \notin {NoAnswer, NoValue} /\ run_times # <<>>) => Last(run_times) < next

\* A loop ends when its trigger's does: every trigger but AndTrigger, and
\* AndTrigger while nothing has run and its members look at now, which a date
\* does not (combination.py:24).  After a run interval and cron members answer
\* from the previous time alone: answers that differ then differ for ever.
Settles(t) ==
  \/ t.kind # "and"
  \/ operation = "next" /\ given = NoValue /\ \A u \in Parts(t) : u.kind # "date" /\ ~Drawn(t)
LoopsReturn ==
  (task # NoValue /\ Settles(task)) ~> (next # NoAnswer /\ ~Collecting)

\* Both kinds of loop end: the walk of a cron trigger from field to field
\* (cron/trigger.py:252) and those above.
Returns == CronReturns /\ LoopsReturn
==============================================================================
