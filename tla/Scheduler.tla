------------------------------ MODULE Scheduler ------------------------------
(***************************************************************************)
(* A started scheduler with one store and one executor: BaseScheduler      *)
(* (schedulers/base.py) driven by AsyncIOScheduler (schedulers/asyncio.py).*)
(*                                                                         *)
(* One event loop processes the due tasks, in rounds.  A round starts with *)
(* a wakeup, which the API and the timer put in the loop's queue of        *)
(* callbacks, and ends by arming the timer.  Client threads call the API.  *)
(* store_lock makes the table of the store change one call at a time; the  *)
(* loop holds it from the query for due tasks to the end of the round,     *)
(* while run_task takes it only for its last write.  The executor's        *)
(* workers finish jobs at any time.                                        *)
(*                                                                         *)
(* start and shutdown are in module Lifecycle, the store in MemoryStore;   *)
(* here the store is its table.                                            *)
(***************************************************************************)
EXTENDS TaskTable, FiniteSetsExt

CONSTANTS
  Clients,        \* threads that call the API
  Api,            \* the calls they make, of AllCalls
  MaxTime,        \* the last instant, which is also end_at of every interval
  Interval,       \* the objects with an IntervalTrigger; the others have a
                  \* DateTrigger
  Period,         \* IntervalTrigger.interval
  Starts,         \* start_at and run_at of the triggers
  Settings,       \* next_run_time of the calls of update_task
  Coalesce,       \* the objects with coalesce set
  MaxInstances,   \* max_instances of every task
  Retry,          \* store_retry_interval
  MaxFailures,    \* bound on rounds that cannot read the store
  MaxSendErrors,  \* bound on submissions that raise
  MaxQueue,       \* bound on the wakeups queued in the event loop
  Idle            \* a client that is not in a call

AllCalls == {"add_task", "update_task", "reschedule_task", "resume_task", "delete_task",
             "remove_all_tasks", "pause", "executors", "run_task"}

ASSUME SchedulerAssumption ==
  /\ MaxTime \in Nat /\ Times = 0 .. MaxTime
  /\ Starts \subseteq Times /\ Settings \subseteq Stamp
  /\ Interval \subseteq Tasks /\ Coalesce \subseteq Tasks
  /\ Period \in Nat \ {0} /\ Retry \in Nat \ {0} /\ MaxInstances \in Nat \ {0}
  /\ {MaxFailures, MaxSendErrors} \subseteq Nat /\ MaxQueue \in Nat \ {0}
  /\ Api \subseteq AllCalls
  /\ Never > 2 * MaxTime + Retry

VARIABLES
  now,             \* the clock
  state,           \* STATE_RUNNING or STATE_PAUSED
  rows,            \* the table of the store
  next_run_time,   \* the attribute of each object
  start_at,        \* start_at, or run_at, of each object's trigger
  executor,        \* whether the executor the tasks name is there
  instances,       \* per id, the jobs submitted and not finished
  loop,            \* the event loop: where it is in a round
  timer,           \* when the armed timer fires, Never if none is armed
  queue,           \* the wakeups waiting in the event loop
  client,          \* per client, where it is in a call
  failures, errors \* what is used up of MaxFailures and MaxSendErrors

\* History: what the properties remember of the past.
VARIABLES
  submitted,       \* objects that were given to add_task
  removed,         \* objects that the API removed from the store
  paused,          \* objects whose last API call left next_run_time None
  base,            \* per object, the next_run_time its last API call set
  handed,          \* per object, the runs the loop took to the executor since
  lag              \* how long the round took that armed the timer, Never if it
                   \* has to be retried

schedule == <<rows, next_run_time, start_at>>
budget   == <<failures, errors>>
history  == <<submitted, removed, paused, base, handed>>
vars == <<now, state, schedule, executor, instances, loop, timer, queue, client,
          budget, history, lag>>

LoopIdle == [pc |-> "idle", now |-> 0, todo |-> {}, row |-> NoRow, last |-> Never,
             next |-> Never, retry |-> FALSE]

Init ==
  /\ now = 0
  /\ state = "RUNNING"
  /\ rows = EmptyTable
  /\ next_run_time = [t \in Tasks |-> Never]
  /\ start_at \in [Tasks -> Starts]
  /\ executor = TRUE
  /\ instances = [id \in Ids |-> 0]
  /\ loop = LoopIdle
  /\ timer = Never
  /\ queue = 1                      \* start() ends with a wakeup
  /\ client = [c \in Clients |-> Idle]
  /\ failures = 0 /\ errors = 0
  /\ submitted = {} /\ removed = {} /\ paused = {}
  /\ base = [t \in Tasks |-> Never]
  /\ handed = [t \in Tasks |-> {}]
  /\ lag = 0

-----------------------------------------------------------------------------
(* Triggers *)

\* get_next_trigger_time of the two triggers; at is run_at or start_at.  Never
\* stands for None, of previous too.
DateTime(at, previous) == IF previous = Never THEN at ELSE Never

IntervalTime(at, previous, time) ==
  LET passed == (time - at + Period - 1) \div Period
      next   == IF previous # Never THEN previous + Period
                ELSE IF at > time THEN at ELSE at + Period * passed
  IN IF next <= MaxTime THEN next ELSE Never

NextTime(t, at, previous, time) ==
  IF t \in Interval THEN IntervalTime(at, previous, time) ELSE DateTime(at, previous)

\* Task.get_run_times: the runs from next_run_time to time.
RunTimes(t, time) ==
  LET first == next_run_time[t]
  IN {x \in Times : /\ first <= x /\ x <= time
                    /\ x = first \/ (t \in Interval /\ (x - first) % Period = 0)}

\* A mutant that takes the first run.
IsFirst(x, runs) == x \in runs /\ \A y \in runs : x <= y
IsLast(x, runs) == x \in runs /\ \A y \in runs : y <= x

\* _coalesce_run_times: the last run stands for all.  A mutant does so for every
\* task.
AlwaysCoalesced(t, runs) == {x \in runs : IsLast(x, runs)}
Coalesced(t, runs) == {x \in runs : t \in Coalesce => IsLast(x, runs)}

-----------------------------------------------------------------------------
(* Pieces of the calls *)

\* store_lock is free: the loop is not between the query and the end of its round.
\* Mutants: no lock, and one that is not held from the advance to the save.
NeverLocked == TRUE
UnlockedForAdvance == loop.pc \notin {"task", "save"}
Unlocked == loop.pc \notin {"task", "sent", "save"}

\* wakeup: a callback in the event loop.
Wakeup == queue < MaxQueue /\ queue' = queue + 1

\* A mutant that does not wake the loop.
NoWakeup == UNCHANGED queue

WakeupIfRunning ==
  \/ state = "RUNNING" /\ Wakeup
  \/ state # "RUNNING" /\ UNCHANGED queue

\* The row of t is written, with the time stamp that t has.  A mutant takes the
\* one it had.
StoreTooEarly(t) == rows' = Put(rows, NewRow(t, next_run_time[t]))
Store(t) == rows' = Put(rows, NewRow(t, next_run_time'[t]))

\* A call of the API sets the schedule of t.
Schedule(t, stamp) ==
  /\ next_run_time' = [next_run_time EXCEPT ![t] = stamp]
  /\ base' = [base EXCEPT ![t] = stamp]
  /\ handed' = [handed EXCEPT ![t] = {}]
  /\ paused' = IF stamp = Never THEN paused \cup {t} ELSE paused \ {t}

\* executor.send_task accepts the runs of t, or raises MaximumInstancesError
\* (Refuse) or what the pool raised (Break).  A mutant accepts every run.
AcceptAll(t) ==
  /\ instances' = [instances EXCEPT ![IdOf[t]] = @ + 1]
  /\ UNCHANGED errors
Accept(t) ==
  /\ instances[IdOf[t]] < MaxInstances
  /\ instances' = [instances EXCEPT ![IdOf[t]] = @ + 1]
  /\ UNCHANGED errors
Refuse(t) ==
  /\ instances[IdOf[t]] >= MaxInstances
  /\ UNCHANGED <<instances, errors>>
Break(t) ==
  /\ instances[IdOf[t]] < MaxInstances
  /\ errors < MaxSendErrors
  /\ errors' = errors + 1
  /\ UNCHANGED instances

-----------------------------------------------------------------------------
(* The event loop: wakeup and process_tasks *)

\* wakeup runs: the timer is cancelled, a paused scheduler does nothing more.
StartRound ==
  /\ loop.pc = "idle"
  /\ queue > 0
  /\ queue' = queue - 1
  /\ timer' = Never /\ lag' = 0
  /\ loop' = IF state = "PAUSED" THEN LoopIdle
             ELSE [LoopIdle EXCEPT !.pc = "lock", !.now = now]
  /\ UNCHANGED <<now, state, schedule, executor, instances, client, budget, history>>

\* store_lock is taken and the due tasks are read.
QueryStore ==
  /\ loop.pc = "lock"
  /\ loop' = [loop EXCEPT !.pc = "task", !.todo = DueRows(rows, loop.now)]
  /\ UNCHANGED <<now, state, schedule, executor, instances, timer, queue, client,
                 budget, history, lag>>

\* The store's own lock is taken by another process, or the query raises.
StoreUnavailable ==
  /\ loop.pc = "lock"
  /\ failures < MaxFailures
  /\ failures' = failures + 1
  /\ loop' = [loop EXCEPT !.pc = "arm", !.next = loop.now + Retry, !.retry = TRUE]
  /\ UNCHANGED <<now, state, schedule, executor, instances, timer, queue, client,
                 errors, history, lag>>

\* r comes first among the rows of S.
First(r, S) == r \in S /\ \A s \in S \ {r} : Before(r, s)

\* The loop is done with row r of the round.
Rest(r) == [loop EXCEPT !.pc = "task", !.todo = @ \ {r}, !.row = NoRow, !.last = Never]

\* The executor lookup fails: the task is removed from the store.
DropTask(r) ==
  /\ loop.pc = "task" /\ First(r, loop.todo)
  /\ ~executor
  /\ rows' = Drop(rows, IdOf[r.task])
  /\ loop' = Rest(r)
  /\ UNCHANGED <<now, state, next_run_time, start_at, executor, instances, timer, queue,
                 client, budget, history, lag>>

\* The object has no run up to the time of the round, whatever its row says.
SkipTask(r) ==
  /\ loop.pc = "task" /\ First(r, loop.todo)
  /\ executor
  /\ RunTimes(r.task, loop.now) = {}
  /\ loop' = Rest(r)
  /\ UNCHANGED <<now, state, schedule, executor, instances, timer, queue, client,
                 budget, history, lag>>

\* The runs are taken to the executor.  What it refuses, or what it fails to
\* take, is reported and not tried again.
SendTask(r) ==
  LET runs == Coalesced(r.task, RunTimes(r.task, loop.now))
  IN /\ loop.pc = "task" /\ First(r, loop.todo)
     /\ executor
     /\ \E x \in runs :
          /\ IsLast(x, runs)
          /\ loop' = [loop EXCEPT !.pc = "sent", !.row = r, !.last = x]
     /\ Accept(r.task) \/ Refuse(r.task) \/ Break(r.task)
     /\ handed' = [handed EXCEPT ![r.task] = @ \cup runs]
     /\ UNCHANGED <<now, state, schedule, executor, timer, queue, client, failures,
                    submitted, removed, paused, base, lag>>

\* The task that was sent: its object gets its next run time, or, when there is
\* none, it is deleted.
AdvanceTask ==
  LET t    == loop.row.task
      next == NextTime(t, start_at[t], loop.last, loop.now)
  IN /\ loop.pc = "sent"
     /\ \/ /\ next # Never
           /\ next_run_time' = [next_run_time EXCEPT ![t] = next]
           /\ loop' = [loop EXCEPT !.pc = "save"]
           /\ UNCHANGED rows
        \/ /\ next = Never
           /\ rows' = Drop(rows, IdOf[t])
           /\ loop' = Rest(loop.row)
           /\ UNCHANGED next_run_time
     /\ UNCHANGED <<now, state, start_at, executor, instances, timer, queue, client,
                    budget, history, lag>>

\* store.update_task
SaveTask ==
  /\ loop.pc = "save"
  /\ rows' = Put(rows, NewRow(loop.row.task, next_run_time[loop.row.task]))
  /\ loop' = Rest(loop.row)
  /\ UNCHANGED <<now, state, next_run_time, start_at, executor, instances, timer, queue,
                 client, budget, history, lag>>

\* store.get_next_run_time, which asks the object of the first row; store_lock
\* is released.
EndRound ==
  /\ loop.pc = "task" /\ loop.todo = {}
  /\ \/ /\ Rows(rows) = {}
        /\ loop' = [loop EXCEPT !.pc = "arm"]
     \/ \E r \in Rows(rows) :
          /\ First(r, Rows(rows))
          /\ loop' = [loop EXCEPT !.pc = "arm", !.next = next_run_time[r.task]]
  /\ UNCHANGED <<now, state, schedule, executor, instances, timer, queue, client,
                 budget, history, lag>>

\* The end of process_tasks and start_timer.  The wait is counted from the start
\* of the round, the timer from its end.
ArmTimer ==
  /\ loop.pc = "arm"
  /\ \/ /\ state = "PAUSED" \/ loop.next = Never
        /\ UNCHANGED <<timer, lag>>
     \/ /\ state = "RUNNING" /\ loop.next # Never
        /\ timer' = now + Max({loop.next - loop.now, 0})
        /\ lag' = IF loop.retry THEN Never ELSE now - loop.now
  /\ loop' = LoopIdle
  /\ UNCHANGED <<now, state, schedule, executor, instances, queue, client, budget, history>>

\* call_later calls wakeup, which puts another callback in the queue.  The last
\* instant of the model stands for all later ones.
FireTimer ==
  /\ timer # Never
  /\ timer <= now \/ now = MaxTime
  /\ Wakeup
  /\ timer' = Never /\ lag' = 0
  /\ UNCHANGED <<now, state, schedule, executor, instances, loop, client, budget,
                 history>>

-----------------------------------------------------------------------------
(* The API, called by a client thread *)

\* c starts a call that needs store_lock.
Enter(c, call) == call \in Api /\ client[c] = Idle /\ Unlocked
Leave(c)       == client' = [client EXCEPT ![c] = Idle]
Continue(c, pc) == client' = [client EXCEPT ![c] = [pc |-> pc]]

\* add_task with a new object: next_run_time=None adds it paused, else the
\* trigger says when it runs first.  An id in use is a conflict unless the call
\* replaces; the object keeps the run time it was given.
AddTask(c, t, start, replace) ==
  LET stamp    == IF start THEN NextTime(t, start_at[t], Never, now) ELSE Never
      conflict == rows[IdOf[t]] # NoRow /\ ~replace
  IN /\ Enter(c, "add_task")
     /\ t \notin submitted
     /\ submitted' = submitted \cup {t}
     /\ Schedule(t, stamp)
     /\ \/ conflict /\ UNCHANGED <<rows, queue>>
        \/ ~conflict /\ Store(t) /\ start /\ WakeupIfRunning
        \/ ~conflict /\ Store(t) /\ ~start /\ UNCHANGED queue
     /\ UNCHANGED <<now, state, start_at, executor, instances, loop, timer, client,
                    budget, removed, lag>>

\* What update_task does to the task of an id under store_lock.
Update(id, stamp) ==
  /\ rows[id] # NoRow
  /\ Schedule(rows[id].task, stamp)
  /\ Store(rows[id].task)

\* update_task(next_run_time=stamp); with None it is pause_task.
UpdateTask(c, id, stamp) ==
  /\ Enter(c, "update_task")
  /\ Update(id, stamp)
  /\ Continue(c, "notify")
  /\ UNCHANGED <<now, state, start_at, executor, instances, loop, timer, queue,
                 budget, submitted, removed, lag>>

\* A new trigger; its first time was computed before the lock was taken, at the
\* instant seen.
RescheduleTask(c, id, start, seen) ==
  /\ Enter(c, "reschedule_task")
  /\ seen <= now
  /\ Update(id, NextTime(rows[id].task, start, Never, seen))
  /\ start_at' = [start_at EXCEPT ![rows[id].task] = start]
  /\ Continue(c, "notify")
  /\ UNCHANGED <<now, state, executor, instances, loop, timer, queue, budget,
                 submitted, removed, lag>>

\* The end of update_task, outside the lock.
Notify(c) ==
  /\ client[c] = [pc |-> "notify"]
  /\ WakeupIfRunning
  /\ Leave(c)
  /\ UNCHANGED <<now, state, schedule, executor, instances, loop, timer, budget,
                 history, lag>>

Remove(ids) ==
  /\ rows' = [id \in Ids |-> IF id \in ids THEN NoRow ELSE rows[id]]
  /\ removed' = removed \cup {r.task : r \in {rows[id] : id \in ids} \ {NoRow}}

\* resume_task holds the (reentrant) lock while it updates, wakes the loop or
\* deletes a task that has no run left.
ResumeTask(c, id) ==
  LET t == rows[id].task
      stamp == NextTime(t, start_at[t], Never, now)
  IN /\ Enter(c, "resume_task")
     /\ rows[id] # NoRow
     /\ \/ /\ stamp # Never
           /\ Update(id, stamp)
           /\ WakeupIfRunning
           /\ UNCHANGED removed
        \/ /\ stamp = Never
           /\ Remove({id})
           /\ UNCHANGED <<next_run_time, base, handed, paused, queue>>
     /\ UNCHANGED <<now, state, start_at, executor, instances, loop, timer, client,
                    budget, submitted, lag>>

DeleteTask(c, id) ==
  /\ Enter(c, "delete_task")
  /\ rows[id] # NoRow
  /\ Remove({id})
  /\ UNCHANGED <<now, state, next_run_time, start_at, executor, instances, loop, timer,
                 queue, client, budget, submitted, paused, base, handed, lag>>

RemoveAllTasks(c) ==
  /\ Enter(c, "remove_all_tasks")
  /\ Remove(Ids)
  /\ UNCHANGED <<now, state, next_run_time, start_at, executor, instances, loop, timer,
                 queue, client, budget, submitted, paused, base, handed, lag>>

\* pause takes no lock: it may fall anywhere in a round.
Pause(c) ==
  /\ "pause" \in Api /\ client[c] = Idle
  /\ state = "RUNNING"
  /\ state' = "PAUSED"
  /\ UNCHANGED <<now, schedule, executor, instances, loop, timer, queue, client, budget,
                 history, lag>>

Resume(c) ==
  /\ "pause" \in Api /\ client[c] = Idle
  /\ state = "PAUSED"
  /\ state' = "RUNNING"
  /\ Continue(c, "wake")
  /\ UNCHANGED <<now, schedule, executor, instances, loop, timer, queue, budget,
                 history, lag>>

\* The end of resume.
Wake(c) ==
  /\ client[c] = [pc |-> "wake"]
  /\ Wakeup
  /\ Leave(c)
  /\ UNCHANGED <<now, state, schedule, executor, instances, loop, timer, budget,
                 history, lag>>

\* remove_executor and add_executor take executor_lock, which the loop does not.
ChangeExecutor(c) ==
  /\ "executors" \in Api /\ client[c] = Idle
  /\ executor' = ~executor
  /\ UNCHANGED <<now, state, schedule, instances, loop, timer, queue, client, budget,
                 history, lag>>

-----------------------------------------------------------------------------
(* run_task: the task is looked up, sent and advanced without store_lock *)

\* The task and its due runs, or now if none is due (force).  The last instant
\* is left out, to keep "now + 1 ms" inside the model.
LookUp(c, id) ==
  /\ "run_task" \in Api /\ client[c] = Idle
  /\ rows[id] # NoRow
  /\ executor
  /\ now < MaxTime
  /\ \E last \in Times :
       /\ LET due == RunTimes(rows[id].task, now)
          IN IF due = {} THEN last = now ELSE IsLast(last, due)
       /\ client' = [client EXCEPT ![c] =
            [pc |-> "send", task |-> rows[id].task, now |-> now, last |-> last]]
  /\ UNCHANGED <<now, state, schedule, executor, instances, loop, timer, queue, budget,
                 history, lag>>

At(c, pc) == client[c] # Idle /\ client[c].pc = pc

\* An exception of send_task ends the call.
Submit(c) ==
  /\ At(c, "send")
  /\ \/ Accept(client[c].task) /\ client' = [client EXCEPT ![c].pc = "sent"]
     \/ (Refuse(client[c].task) \/ Break(client[c].task)) /\ Leave(c)
  /\ UNCHANGED <<now, state, schedule, executor, loop, timer, queue, failures, history, lag>>

\* The object's next run time is set; one that has passed is moved after now.
\* A finished task is left paused if the call keeps it (remove_finished=False).
Advance(c, keep) ==
  LET t     == client[c].task
      next  == NextTime(t, start_at[t], client[c].last, client[c].now)
      later == IF next <= client[c].now THEN client[c].now + 1 ELSE next
  IN /\ At(c, "sent")
     /\ next # Never \/ keep
     /\ next_run_time' = [next_run_time EXCEPT ![t] = later]
     /\ client' = [client EXCEPT ![c].pc = "save"]
     /\ UNCHANGED <<now, state, rows, start_at, executor, instances, loop, timer, queue,
                    budget, history, lag>>

\* A finished task is deleted, whichever object is under its id by now; if
\* there is none, TaskLookupError ends the call.
Finish(c) ==
  LET t == client[c].task
  IN /\ At(c, "sent") /\ Unlocked
     /\ NextTime(t, start_at[t], client[c].last, client[c].now) = Never
     /\ Remove({IdOf[t]})
     /\ Leave(c)
     /\ UNCHANGED <<now, state, next_run_time, start_at, executor, instances, loop, timer,
                    queue, budget, submitted, paused, base, handed, lag>>

\* A mutant that files the task under the time of its last run.
SaveLast(c) ==
  /\ At(c, "save") /\ Unlocked
  /\ rows' = Put(rows, NewRow(client[c].task, client[c].last))
  /\ Leave(c)
  /\ UNCHANGED <<now, state, next_run_time, start_at, executor, instances, loop, timer,
                 queue, budget, history, lag>>

\* store.update_task, under store_lock; the loop is not woken.
Save(c) ==
  /\ At(c, "save") /\ Unlocked
  /\ rows' = Put(rows, NewRow(client[c].task, next_run_time[client[c].task]))
  /\ Leave(c)
  /\ UNCHANGED <<now, state, next_run_time, start_at, executor, instances, loop, timer,
                 queue, budget, history, lag>>

-----------------------------------------------------------------------------
\* A worker has run a job: run_task_success or run_task_error.
FinishJob(id) ==
  /\ instances[id] > 0
  /\ instances' = [instances EXCEPT ![id] = @ - 1]
  /\ UNCHANGED <<now, state, schedule, executor, loop, timer, queue, client, budget,
                 history, lag>>

Tick ==
  /\ now < MaxTime
  /\ now' = now + 1
  /\ UNCHANGED <<state, schedule, executor, instances, loop, timer, queue, client, budget,
                 history, lag>>

Round ==
  \/ StartRound \/ QueryStore \/ StoreUnavailable
  \/ \E r \in loop.todo : DropTask(r) \/ SkipTask(r) \/ SendTask(r)
  \/ AdvanceTask \/ SaveTask \/ EndRound \/ ArmTimer

Call(c) ==
  \/ \E t \in Tasks, start, replace \in BOOLEAN : AddTask(c, t, start, replace)
  \/ \E id \in Ids :
       \/ \E stamp \in Settings : UpdateTask(c, id, stamp)
       \/ \E start \in Starts, seen \in Times : RescheduleTask(c, id, start, seen)
       \/ ResumeTask(c, id) \/ DeleteTask(c, id) \/ LookUp(c, id)
  \/ RemoveAllTasks(c) \/ Pause(c) \/ Resume(c) \/ ChangeExecutor(c)

\* The rest of a call that has started.
Continued(c) ==
  \/ Notify(c) \/ Wake(c)
  \/ Submit(c) \/ Finish(c) \/ Save(c)
  \/ \E keep \in BOOLEAN : Advance(c, keep)

Next ==
  \/ Round \/ FireTimer \/ Tick
  \/ \E c \in Clients : Call(c) \/ Continued(c)
  \/ \E id \in Ids : FinishJob(id)

\* The event loop runs its callbacks and its timers, a call that has started
\* goes on and time passes; nobody has to make a call, no job has to end.
Spec ==
  /\ Init /\ [][Next]_vars
  /\ WF_vars(Round) /\ WF_vars(FireTimer) /\ WF_vars(Tick)
  /\ \A c \in Clients : WF_vars(Continued(c))

-----------------------------------------------------------------------------
RoundState ==
  [pc : {"idle", "lock", "task", "sent", "save", "arm"}, now : Times, todo : SUBSET Row,
   row : Row \cup {NoRow}, last : Stamp, next : Stamp \cup 0 .. MaxTime + Retry, retry : BOOLEAN]

CallState ==
  [pc : {"notify", "wake"}]
    \cup [pc : {"send", "sent", "save"}, task : Tasks, now : 0 .. MaxTime - 1, last : Times]

ASSUME IdleAssumption == Idle \notin CallState

TypeOK ==
  /\ now \in Times
  /\ state \in {"RUNNING", "PAUSED"}
  /\ rows \in Table
  /\ next_run_time \in [Tasks -> Stamp]
  /\ start_at \in [Tasks -> Starts]
  /\ executor \in BOOLEAN
  /\ instances \in [Ids -> 0 .. MaxInstances]
  /\ loop \in RoundState
  /\ timer \in 0 .. 2 * MaxTime + Retry \/ timer = Never
  /\ queue \in 0 .. MaxQueue
  /\ client \in [Clients -> {Idle} \cup CallState]
  /\ failures \in 0 .. MaxFailures /\ errors \in 0 .. MaxSendErrors
  /\ submitted \subseteq Tasks /\ removed \subseteq Tasks /\ paused \subseteq Tasks
  /\ base \in [Tasks -> Stamp]
  /\ handed \in [Tasks -> SUBSET Times]
  /\ lag \in Times \cup {Never}

\* The object that the loop, or a run_task of c, has advanced and not yet saved.
Unsaved(t) ==
  \/ loop.pc = "save" /\ loop.row.task = t
  \/ \E c \in Clients : At(c, "save") /\ client[c].task = t

\* The loop has sent t and is not yet done with it.
InHand(t) == loop.pc \in {"sent", "save"} /\ loop.row.task = t

\* The sort key of every row is its object's next_run_time, except between the
\* two writes of an advance: a task that is due by its object is never filed in
\* the store under another time, so get_due_tasks does not miss it
\* (schedulers/base.py:677-682, 1635-1639, 858-861).
TimestampsAgree ==
  \A r \in Rows(rows) : r.timestamp = next_run_time[r.task] \/ Unsaved(r.task)

\* Nothing will wake the loop but its timer.
Asleep ==
  /\ loop.pc = "idle" /\ queue = 0
  /\ \A c \in Clients : client[c] = Idle

\* No task is forgotten: when a running scheduler sleeps and the store has a task
\* to run, the timer is armed, for the earliest run time at the latest but for
\* the time the last round took (schedulers/base.py:1641-1646,
\* 1683-1700, schedulers/asyncio.py:81-95).
TimerCovers ==
  \A r \in Rows(rows) :
    state = "RUNNING" /\ Asleep /\ r.timestamp # Never =>
      timer # Never /\ timer <= r.timestamp + lag

\* The loop never takes a run to the executor twice: once it is done with a task,
\* the next run time lies after every run handed out since the API last set the
\* schedule (schedulers/base.py:1597-1639).
RunOnce ==
  \A r \in Rows(rows) :
    ~InHand(r.task) =>
      \A x \in handed[r.task] : x < r.timestamp

\* No run of an interval is skipped: without coalesce, all the runs from the time
\* the API set to the next run time have been handed out, however late the rounds
\* were and whatever pauses came between (tasks/base.py:64-74,
\* schedulers/base.py:1597-1639).
NoRunLost ==
  \A r \in Rows(rows) :
    r.task \in Interval \ Coalesce /\ r.timestamp # Never
        /\ ~InHand(r.task) =>
      \A x \in Times :
        base[r.task] <= x /\ x < r.timestamp /\ (x - base[r.task]) % Period = 0
          => x \in handed[r.task]

\* "Removes a task, preventing it from being run anymore": an object that was
\* removed does not come back to the store (schedulers/base.py:1175-1179).
RemovedStaysOut == \A r \in Rows(rows) : r.task \notin removed

\* A paused task stays so until the API resumes it: its row has no run time and
\* the round in progress does not hold it (schedulers/base.py:712-720).
PausedStays ==
  \A r \in Rows(rows) :
    r.task \in paused => r.timestamp = Never /\ r \notin loop.todo

\* A task that is due in a running scheduler is taken up: its row changes, or
\* the scheduler is paused (schedulers/base.py:1648-1700,
\* schedulers/asyncio.py:81-95).
DueIsTakenUp ==
  \A id \in Ids, x \in Times :
    (rows[id] # NoRow /\ rows[id].timestamp = x /\ x <= now /\ state = "RUNNING")
      ~> (rows[id] = NoRow \/ rows[id].timestamp # x \/ state = "PAUSED")
=============================================================================
