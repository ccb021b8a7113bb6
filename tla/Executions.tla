----------------------------- MODULE Executions -----------------------------
(***************************************************************************)
(* What becomes of a submitted task: its executor (executors/), the count  *)
(* of running instances, the events of its runs, the dashboard listeners   *)
(* that record them (contrib/dashboard/history.py, events.py), and a       *)
(* shutdown that meets them.  Senders are the thread of the rounds and one *)
(* that calls run_task; jobs end in worker threads or on the event loop.   *)
(* There is one task: others would share the history and keep a round      *)
(* from its dispatch for longer.  A run time is a number.                  *)
(***************************************************************************)
EXTENDS Integers, Sequences, FiniteSets, SequencesExt

CONSTANTS
  Kinds,               \* executors: "pool", "loop" (asyncio), "debug"
  Coalesced,           \* the executors whose task has coalesce set
  max_instances, grace,
  maxlen,              \* of the run history
  Waits,               \* the values of shutdown's wait, or of overwrite_wait
  cancel_futures,      \* pools drop the jobs they have not begun when they stop
  MaxSends, MaxTimes   \* bounds on submissions and on run times

Senders == {"round", "manual"}

ASSUME ExecutionsAssumption ==
  /\ Kinds \subseteq {"pool", "loop", "debug"} /\ Waits \subseteq BOOLEAN
  /\ {max_instances, maxlen} \subseteq Nat \ {0}
  /\ Coalesced \subseteq Kinds /\ grace \in BOOLEAN /\ cancel_futures \in BOOLEAN
  /\ {MaxSends, MaxTimes} \subseteq Nat

VARIABLES
  kind, wait, \* of the executor; shutdown's argument
  state,      \* "up", "stopping" (stopped, locks not yet taken), "joining", "down"
  instances,  \* scheduler.instances[task], 0 for no entry
  jobs,       \* futures: sequence of records
  senders,    \* threads in process_tasks and run_task
  lock,       \* the sender that holds the executor's lock, or "free"
  due,        \* next_run_time of the task
  records,    \* the RunRecords made, kept or evicted
  order,      \* MemoryRunHistoryStorage._order: indices of records
  observed,   \* MemorySchedulerEventStorage: events
  sends       \* submissions so far, up to MaxSends

scheduler == <<kind, wait, state>>
history   == <<records, order, observed>>
vars == <<scheduler, instances, jobs, senders, lock, due, history, sends>>

Idle == [pc |-> "idle", times |-> <<>>, job |-> 0, code |-> "", record |-> 0, seen |-> ""]

Rest ==
  /\ instances = 0
  /\ jobs = <<>>
  /\ senders = [s \in Senders |-> Idle]
  /\ lock = "free"
  /\ due = 1
  /\ records = <<>>
  /\ order = <<>>
  /\ observed = {}
  /\ sends = 0
Init == kind \in Kinds /\ wait \in Waits /\ state = "up" /\ Rest

-----------------------------------------------------------------------------
(* Locks and threads *)

\* The round holds store_lock until it dispatches, shutdown while it stops the
\* executors; run_task sends without it.  The locks are reentrant: a callback
\* that runs inside the round's add_done_callback has store_lock.
RoundHolds == senders["round"].pc \in {"send", "hook", "inline"}
StoreFree  == state # "joining" /\ ~RoundHolds
Inline(j)  == senders["round"].pc = "inline" /\ senders["round"].job = j
\* Rounds of the asyncio scheduler and callbacks are steps of the event loop,
\* one after the other.
Dispatching == \E j \in DOMAIN jobs : jobs[j].phase = "dispatching"
LoopFree    == kind = "loop" => senders["round"].pc = "idle" /\ ~Dispatching

Going(s, pc) == [senders[s] EXCEPT !.pc = pc]
Step(s, thread) == senders' = [senders EXCEPT ![s] = thread]

-----------------------------------------------------------------------------
(* The run history *)

Terminal == {"succeeded", "failed", "missed", "max_instances"}

\* _upsert: the record of a run time, made when there is none, whereupon the
\* oldest over maxlen go; n is its index.  A mutant leaves the run time out of
\* the key.
AnyRecord(time) == ToSet(order)
Kept(ns) == IF Len(ns) > maxlen THEN Tail(ns) ELSE ns
RecordOf(time) == {n \in ToSet(order) : records[n].time = time}
Touched(time) == IF RecordOf(time) # {} THEN RecordOf(time) ELSE {Len(records) + 1}
Upsert(n, time) ==
  IF n \in DOMAIN records THEN UNCHANGED <<records, order>>
  ELSE /\ records' = Append(records, [time |-> time, status |-> "running"])
       /\ order' = Kept(Append(order, n))
UpsertAs(n, time, status) ==
  IF n \in DOMAIN records
  THEN records' = [records EXCEPT ![n].status = status] /\ UNCHANGED order
  ELSE /\ records' = Append(records, [time |-> time, status |-> status])
       /\ order' = Kept(Append(order, n))

-----------------------------------------------------------------------------
(* Submission: _process_tasks_of_store, run_task and send_task *)

\* The run times that are due by now: one, or those a late caller finds, of
\* which coalesce leaves the last.
DueTimes ==
  {IF kind \in Coalesced THEN <<latest>> ELSE [i \in 1..(latest - due + 1) |-> due + i - 1] :
     latest \in due..MaxTimes}

Begin(s) ==
  /\ state = "up" /\ senders[s].pc = "idle" /\ StoreFree
  /\ s = "round" => LoopFree
  /\ sends < MaxSends /\ sends' = sends + 1
  /\ \E times \in DueTimes : Step(s, [Going(s, "send") EXCEPT !.times = times])
  /\ UNCHANGED <<scheduler, instances, jobs, lock, due, history>>

\* What is left of a submission: run_task moves next_run_time on only after
\* one that got through, and then after its event; a round in any case, and
\* before it dispatches.  Without an event, after an exception, no dispatch.
NextDue(s) == Last(senders[s].times) + 1
After(s, code) ==
  /\ Step(s, IF code = "" THEN Idle
              ELSE [Going(s, "dispatch") EXCEPT !.job = 0, !.code = code])
  /\ due' = IF s = "round" THEN NextDue(s) ELSE due

\* do_send_task under the executor's lock: the limit, a pool that is shut
\* down, a job.  A mutant tests the limit after one job too many.
PastMaximum(n) == n > max_instances
AtMaximum(n)   == n >= max_instances
PoolDown       == kind = "pool" /\ state \in {"joining", "down"}
Send(s) ==
  /\ senders[s].pc = "send" /\ lock = "free"
  /\ \/ AtMaximum(instances) /\ After(s, "max_instances") /\ UNCHANGED <<jobs, lock>>
     \/ /\ ~AtMaximum(instances) /\ PoolDown
        /\ After(s, "")
        /\ UNCHANGED <<jobs, lock>>
     \/ /\ ~AtMaximum(instances) /\ ~PoolDown
        /\ jobs' = Append(jobs, [times |-> senders[s].times, left |-> senders[s].times,
                                 events |-> <<>>, hooked |-> FALSE, phase |-> "running"])
        /\ lock' = s
        /\ Step(s, [Going(s, "hook") EXCEPT !.job = Len(jobs) + 1])
        /\ UNCHANGED due
  /\ UNCHANGED <<scheduler, instances, history, sends>>

\* add_done_callback calls back at once when the future is done, in the sender
\* and under its locks, before the job is counted; DebugExecutor runs the job
\* there.  An event loop calls back later.  A mutant dispatches nothing.
Done(j) == jobs[j].phase \in {"ended", "died"}
Past(j) == jobs[j].phase \in {"over", "failed", "cancelled"}
Silent(j) == [jobs EXCEPT ![j].phase = IF @ = "died" THEN "failed" ELSE "over"]
CalledBack(j) == [jobs EXCEPT ![j].phase = IF @ = "died" THEN "failed" ELSE "dispatching"]
\* run_task_success and run_task_error.  A mutant forgets the failed ones.
SuccessOnly(j) == IF jobs[j].phase = "ended" THEN 1 ELSE 0
Uncounted(j)   == IF jobs[j].phase \in {"ended", "died"} THEN 1 ELSE 0

Hook(s) ==
  LET j == senders[s].job
  IN /\ senders[s].pc = "hook" /\ Done(j) /\ kind # "loop"
     /\ instances' = instances - Uncounted(j)
     /\ jobs' = CalledBack(j)
     /\ Step(s, Going(s, "inline"))
     /\ UNCHANGED <<scheduler, lock, due, history, sends>>

\* A later callback waits for the lock: to add it and to count is one step.
Count(s) ==
  LET j == senders[s].job
  IN /\ \/ senders[s].pc = "hook" /\ (Done(j) => kind = "loop") /\ kind # "debug"
           /\ jobs' = [jobs EXCEPT ![j].hooked = TRUE]
        \/ senders[s].pc = "inline" /\ Past(j) /\ UNCHANGED jobs
     /\ instances' = instances + 1
     /\ lock' = "free"
     /\ After(s, "submitted")
     /\ UNCHANGED <<scheduler, history, sends>>

\* dispatch_event to the two listeners.  record_submission finds the record,
\* and sets its status to running unless it has read a final one; the record
\* is not locked in between.
Record(s) ==
  LET time == Head(senders[s].times)
  IN /\ senders[s].pc = "dispatch" /\ StoreFree
     /\ observed' = observed \cup {<<senders[s].code, time>>}
     /\ \E n \in Touched(time) :
          /\ Upsert(n, time)
          /\ Step(s, [Going(s, "write") EXCEPT !.record = n, !.seen = records'[n].status])
     /\ UNCHANGED <<scheduler, instances, jobs, lock, due, sends>>

\* A mutant sets it whatever it has read.
Overwritten(seen, status, now) == status
Merged(seen, status, now) == IF seen \in Terminal THEN now ELSE status
Write(s) ==
  LET status == IF senders[s].code = "submitted" THEN "running" ELSE senders[s].code
      rest   == Tail(senders[s].times)
  IN /\ senders[s].pc = "write"
     /\ records' = [records EXCEPT ![senders[s].record].status = Merged(senders[s].seen, status, @)]
     /\ Step(s, IF rest # <<>> THEN [Going(s, "dispatch") EXCEPT !.times = rest, !.record = 0, !.seen = ""]
                ELSE IF senders[s].code = "submitted" /\ s = "manual" THEN [Going(s, "end") EXCEPT !.record = 0, !.seen = ""]
                ELSE Idle)
     /\ UNCHANGED <<scheduler, instances, jobs, lock, due, order, observed, sends>>

End ==
  /\ senders["manual"].pc = "end" /\ StoreFree
  /\ due' = NextDue("manual")
  /\ Step("manual", Idle)
  /\ UNCHANGED <<scheduler, instances, jobs, lock, history, sends>>

-----------------------------------------------------------------------------
(* Execution: run_task, run_coroutine_task and the callbacks *)

\* One run time: too late, or run, with an outcome.
Outcomes == {"succeeded", "failed"} \cup (IF grace THEN {"missed"} ELSE {})
Run(j) ==
  /\ jobs[j].phase = "running"
  /\ \E outcome \in Outcomes :
       jobs' = [jobs EXCEPT ![j].left = Tail(@), ![j].events = Append(@, <<outcome, Head(jobs[j].left)>>),
                            ![j].phase = IF Len(jobs[j].left) = 1 THEN "ended" ELSE @]
  /\ UNCHANGED <<scheduler, instances, senders, lock, due, history, sends>>

\* A BaseException that is no Exception leaves run_task: the future fails, and
\* the events of the run times before it are lost.  What DebugExecutor does
\* not catch ends its caller, and is left out.
Die(j) ==
  /\ jobs[j].phase = "running" /\ kind # "debug"
  /\ jobs' = [jobs EXCEPT ![j].phase = "died"]
  /\ UNCHANGED <<scheduler, instances, senders, lock, due, history, sends>>

Callback(j) ==
  /\ Done(j) /\ jobs[j].hooked /\ lock = "free" /\ LoopFree
  /\ instances' = instances - Uncounted(j)
  /\ jobs' = CalledBack(j)
  /\ UNCHANGED <<scheduler, senders, lock, due, history, sends>>

\* The events one by one: record_execution looks the task up, which takes
\* store_lock, and sets the outcome.  In run_task's thread that waits for a round
\* while the executor's lock is held, which the round may be waiting for.
Deliver(j) ==
  LET e == Head(jobs[j].events)
  IN /\ jobs[j].phase = "dispatching"
     /\ StoreFree \/ Inline(j)
     /\ observed' = observed \cup {e}
     /\ \E n \in Touched(e[2]) : UpsertAs(n, e[2], e[1])
     /\ jobs' = [jobs EXCEPT ![j].events = Tail(@), ![j].phase = IF Len(jobs[j].events) = 1 THEN "over" ELSE @]
     /\ UNCHANGED <<scheduler, instances, senders, lock, due, sends>>

-----------------------------------------------------------------------------
(* Shutdown *)

Stop ==
  /\ state = "up"
  /\ state' = "stopping"
  /\ UNCHANGED <<kind, wait, instances, jobs, senders, lock, due, history, sends>>

\* Under executor_lock and store_lock: the futures of the event loop are
\* cancelled whatever wait says, a pool takes no more jobs and, if wait, is
\* joined with the callbacks its workers run.  With cancel_futures it drops the
\* last of its jobs, those that no worker has taken: they are called back, but
\* fn.exception() raises there, and they are never taken off the count.
Cancellable(j) == kind = "pool" /\ cancel_futures /\ jobs[j].phase = "running" /\ jobs[j].events = <<>>
Drops == {drop \in SUBSET {j \in DOMAIN jobs : Cancellable(j)} :
            \A j \in drop : \A k \in DOMAIN jobs : k > j => k \in drop}
Cancelled(job) ==
  IF kind = "loop" /\ job.hooked /\ job.phase = "running" THEN [job EXCEPT !.phase = "died"] ELSE job
StopExecutors ==
  /\ state = "stopping" /\ ~RoundHolds
  /\ state' = IF wait /\ kind = "pool" THEN "joining" ELSE "down"
  /\ \E drop \in Drops :
       jobs' = [j \in DOMAIN jobs |-> IF j \in drop THEN [jobs[j] EXCEPT !.phase = "cancelled"]
                                      ELSE Cancelled(jobs[j])]
  /\ UNCHANGED <<kind, wait, instances, senders, lock, due, history, sends>>
\* A job that is called back in its sender keeps no worker.
Joined ==
  /\ state = "joining"
  /\ \A j \in DOMAIN jobs : Past(j) \/ (~jobs[j].hooked /\ jobs[j].phase # "running")
  /\ state' = "down"
  /\ UNCHANGED <<kind, wait, instances, jobs, senders, lock, due, history, sends>>

Submission(s) == Begin(s) \/ Send(s) \/ Hook(s) \/ Count(s) \/ Record(s) \/ Write(s)
Execution(j) == Run(j) \/ Die(j) \/ Callback(j) \/ Deliver(j)
Next ==
  \/ \E s \in Senders : Submission(s)
  \/ End
  \/ \E j \in DOMAIN jobs : Execution(j)
  \/ Stop \/ StopExecutors \/ Joined

\* A sender that has begun goes on, a worker runs its job to an end (tasks
\* return) and calls back, a shutdown goes on; nobody has to begin or to stop.
Spec == Init /\ [][Next]_vars
Fairness ==
  /\ \A s \in Senders : WF_vars(senders[s].pc # "idle" /\ Submission(s))
  /\ WF_vars(End)
  /\ \A j \in 1..MaxSends : WF_vars(j \in DOMAIN jobs /\ Execution(j))
  /\ WF_vars(StopExecutors \/ Joined)
FairSpec == Spec /\ Fairness

-----------------------------------------------------------------------------
(* Properties *)

Sending == {s \in Senders : senders[s].pc \in {"hook", "inline"}}
Unreleased == {j \in DOMAIN jobs : jobs[j].phase \in {"running", "ended", "died", "cancelled"}}

\* Whenever nobody is in the middle of sending the task, its count is the
\* number of its jobs that have not given it back, wherever they have ended,
\* failed or been cancelled on the event loop, and never more than
\* max_instances (executors/base.py:63).  The jobs that a pool has cancelled
\* stay in it for good (pool.py:29, 54).
InstancesMatch == Sending = {} => instances = Cardinality(Unreleased) /\ instances <= max_instances

\* A run of the history that is over ended that way: its outcome is one its
\* job had, and max_instances one that was refused (history.py:209).
HistoryTruthful ==
  \A n \in DOMAIN records :
    records[n].status \in Terminal => <<records[n].status, records[n].time>> \in observed

\* An outcome that a submission has found in the history is not overwritten by
\* it, however late its event comes (history.py:188); only one that comes
\* between the test and the assignment is lost.
OutcomeKept ==
  [][\A n \in DOMAIN records :
       (records[n].status \in Terminal /\ records'[n].status \notin Terminal) =>
         \E s \in Senders : senders[s].record = n /\ senders[s].seen \notin Terminal]_vars

\* Every job that is sent is called back, also when the scheduler stops without
\* waiting, and one that neither failed nor was cancelled has told the listeners
\* of each of its run times (executors/base.py:70).  There is one exception: a
\* round, with store_lock, and run_task, with the executor's lock, wait for each
\* other (executors/base.py:63, history.py:437).
Told(j) == \A i \in DOMAIN jobs[j].times :
  \E outcome \in Terminal : <<outcome, jobs[j].times[i]>> \in observed
Embraced == /\ senders["round"].pc = "send" /\ lock = "manual"
            /\ senders["manual"].pc = "inline"
            /\ jobs[senders["manual"].job].phase = "dispatching"
Accounted ==
  \A j \in 1..MaxSends :
    (j \in DOMAIN jobs) ~> \/ j \in DOMAIN jobs /\ Past(j) /\ (jobs[j].phase = "over" => Told(j))
                           \/ Embraced

\* "wait: True to wait until all currently executing tasks have finished"
\* (schedulers/base.py:270): a shutdown comes to its end.
ShutdownReturns == (state = "stopping") ~> (state = "down")
==============================================================================
