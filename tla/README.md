# Asyncz in TLA+

A formal model of [asyncz](https://github.com/dymmond/asyncz), a task scheduler
for Python programs built on asyncio: what its scheduler, its stores, triggers,
executors, life cycle, dashboard and command line promise when threads, an event
loop, timers and other processes interleave. Paths are relative to `src/asyncz/` unless they start with `docs/`.

## The system

| Component | State it keeps | Operations | How it interacts |
|---|---|---|---|
| Scheduler (`schedulers/base.py`) | `state`, `ref_counter`, `stores`, `executors`, `pending_tasks`, `instances`, `listeners` | start, shutdown, pause, resume, add/update/reschedule/pause/resume/run/delete task, `process_tasks` | calls stores and executors, dispatches events to listeners |
| AsyncIOScheduler (`schedulers/asyncio.py`) | the event loop, `timer` | `wakeup`, `start_timer`, `stop_timer`, `_shutdown` | the API queues callbacks with `call_soon_threadsafe`; the timer queues a wakeup |
| Task stores (`stores/`) | a table from ids to tasks, ordered by run time | add, update, delete, query | called by the scheduler under `store_lock`; the file, redis, mongo and SQL stores are shared by processes |
| Tasks (`tasks/`) | `next_run_time`, trigger, coalesce, max_instances | `update_task`, `get_run_times` | one object is shared by the store, the scheduler and the program |
| Triggers (`triggers/`) | start, end, interval or fields | `get_next_trigger_time` | called by tasks and the scheduler |
| Executors (`executors/`) | a pool, futures; `instances` of the scheduler | `send_task`, completion callbacks, shutdown | workers call back into executor and scheduler |
| Locks (`locks.py`, `file_locking.py`) | a thread lock or a lock file | `protected`, shutdown | one processing scheduler at a time, over threads or processes |
| Events (`events/`, `dispatch_event`) | the listeners | add, remove, dispatch | after a round, after a job, inside some API calls |
| Dashboard (`contrib/dashboard/`) | run history, event log, audit log, task log, remote client | listeners, HTTP handlers | reads and drives schedulers, also remote ones |
| Command line (`cli/`) | an event loop for one command; for `asyncz start` a generation of scheduler | one command each, hooks, reload | starts a scheduler on a shared store, makes one call, shuts it down |
| Shapes, settings | - | conversions | around the calls of the scheduler |

What is hard in it:

* **interleavings**: API threads, the loop's rounds and the executors' workers
  share task objects; `run_task` works on them without `store_lock`;
* **ordering**: wakeups, timers and `_shutdown` wait in one queue of callbacks;
  events of a job may overtake the event of its submission;
* **lateness**: a round may come long after a run was due, find several runs
  missed, fail to read the store, or be refused by the executor;
* **life cycle**: several parts of a program start and stop one scheduler, and
  a start may fail half way;
* **search by a changing key**: the memory store finds rows by a sort key that
  its callers change on the shared object;
* **several processes**: lock files, shared databases, files that are truncated
  and rewritten, crashes between two commands to a backend;
* **calendars**: a cron trigger walks from field to field and carries, resets and
  skips; combinations search for an instant their members share;
* **observation**: the dashboard reads tasks, runs and logs in several queries
  while they change, and may talk to a worker that answers too late or not.

What makes each component correct: a store is a table whose queries are in the
order of run times; the scheduler hands every due run to the executor once, in
spite of late rounds, and wakes up in time for the next one; what the API removed
or paused stays so; the scheduler is up exactly while somebody holds it; of
several processes one adds a task and one submits a run; a trigger passes over no
instant; every job that is sent leaves the count and the history says how it ended;
the audit trail says what was done, and a page shows what is there. The
list `hazards` of `PROJECT.json` says where each of these could go wrong.

## Modules

| Module | Models |
|---|---|
| `TaskTable` | tasks, ids, instants, the table of a store and its order |
| `TaskStore` | the abstract store: what `stores/types.py` promises |
| `MemoryStore` | `stores/memory.py`, its binary search probe by probe; implements `TaskStore` |
| `MemoryStoreProofs` | theorems about `MemoryStore` |
| `Scheduler` | the rounds of the event loop, the timer, the API calls of threads, `run_task` |
| `SchedulerProofs` | theorems about every use of `Scheduler`, and about those without `run_task`: what `store_lock` gives |
| `Lifecycle` | start, shutdown, pause, resume, pending tasks, reference counting |
| `LifecycleProofs` | theorems about `Lifecycle` |
| `SharedStore` | several processes on a file, redis, mongo or SQL store, with the lock file |
| `SharedStoreProofs` | theorems about `SharedStore` |
| `Calendar` | dates: what `datetime` and `calendar` compute |
| `CronTrigger` | `triggers/cron/`: the walk of `get_next_trigger_time` over the fields |
| `Triggers` | date, interval, cron, shutdown, And and Or triggers with jitter, and the loops that ask them |
| `TriggersProofs` | theorems about `Triggers` and `CronTrigger` |
| `Executions` | executors, the count of instances, events, the run history, a shutdown that meets them |
| `ExecutionsProofs` | theorems about `Executions` |
| `Dashboard` | the actions of the dashboard on tasks, local or remote, and the audit trail |
| `CommandLine` | the commands, and `asyncz start` |
| `ControlProofs` | theorems about `Dashboard` and `CommandLine` |
| `Views` | the task table and its pages, the overview, a task's page, the timeline |
| `RunLogs` | the log buffer, and the page of a run |
| `Orders` | sorting and filtering, as both use them |
| `ViewsProofs` | theorems about `Views`, `RunLogs` and `Orders` |
| `MCMemoryStore`, `MCScheduler`, `MCLifecycle`, `MCSharedStore`, `MCTriggers`, `MCExecutions`, `MCShutdownWait` | instances for TLC |

`Scheduler` and `MemoryStore` meet in `TaskTable`: the scheduler's store is the
table that `TaskStore` specifies and `MemoryStore` is shown to implement. Since
every write of the store is made under `store_lock` and takes effect at once, the
scheduler model may use the table in place of the list. `Lifecycle` keeps only as
much of a round as start and stop can be confused by. `SharedStore` has rounds of
its own, in which a run is only its time; `Executions` has what happens to a run
after a round or `run_task` has submitted it. `Triggers` uses the answers of
`CronTrigger` as a set of instants. `Dashboard`, `CommandLine`, `Views` and
`RunLogs` each take one user of the scheduler, whose calls are atomic there as
`Scheduler` shows them to be.

Some modules define operators that nothing uses, with a comment that begins "A
mutant": each is a plausible mistake in the definition that follows it, and shows
which property catches it (`mutants` in `PROJECT.json`).

### MemoryStore

`tasks` is the list (Python's `tasks[i]` is `tasks[i + 1]`), `tasks_index` the
dictionary, `next_run_time` the attribute of each shared object. A call that
writes is split into its search, one action per probe of `get_task_index`, and
its effect; in between, any holder of an object may set its run time
(`SetNextRunTime`), as `Scheduler.run_task` does without the lock. `add_task`
raises `ConflictIdError` and `delete_task` `TaskLookupError`; an update of an
absent task inserts it. Calls do not overlap: the scheduler makes them under
`store_lock`. `get_task` and `lookup_task` only read the dictionary.

### Scheduler

One loop, one store, one executor, any number of client threads. A round is
`StartRound` (the wakeup runs and cancels the timer), `QueryStore` or
`StoreUnavailable`, then for every due row in order `DropTask`, `SkipTask` or
`SendTask`, `AdvanceTask`, `SaveTask`, and finally `EndRound` and `ArmTimer`.
`loop.pc` says where it is; `store_lock` is held from `QueryStore` to `EndRound`
(`Unlocked`). API calls that take the lock for their whole effect are one action;
`update_task` has a second one for the wakeup it makes after it has released the
lock (`Notify`), `resume` likewise (`Wake`), and `run_task` is the sequence
`LookUp`, `Submit`, `Advance`, `Save` or `Finish`, of which only the last takes
the lock. `FinishJob` is a worker that ends a job at any time.

Data is reduced to what the properties tell apart. A task has an id, an interval
or a date trigger, `coalesce`; an id may belong to two objects. Instants are
integers, `Never` is `None` and sorts last, as `float("inf")` does. `end_at` of
every interval is the last instant of the model. Not in this module: several
stores, jitter and time zones, `mistrigger_grace_time` (a property of the job,
not of the schedule), events, several processes (`lock_path`), tasks added with a
run time of their own, start and shutdown.

History variables record what the API asked for: `submitted`, `removed`,
`paused`, the base of the schedule and the runs handed to the executor since.
`lag` is how long the round took that armed the timer, because the wait is
counted from the start of the round while `call_later` counts from its end.

### Lifecycle

A start is the sequence `Start` (the reference), `Assert`, `StartExecutors`,
`StartStores`, `SetState`, `EndStart`; a shutdown queues `_shutdown`, which the loop
runs as `Decrement`, `Stop`, `StopParts`, `StopTimer`. `FailToStart` is a start that
raises while it brings the parts up. `threads` says whether the users are
functions of the loop's own thread, whose calls run from end to end between
callbacks, or threads. `AddTask` and `DeleteTask` are there for the pending tasks,
`Round` and `FireTimer` for what a shutdown must put to rest. The program's event
loop outlives the scheduler: the scheduler that runs a loop of its own
(`isolated_event_loop`) and `NativeAsyncIOScheduler` are not modelled.

### SharedStore

A step is one command to the backend: an `open`, `flock`, `read`, `write` at close or
`unlink` of a file, a redis command or `MULTI` pipeline, a query of MongoDB or SQL. A
call (`Write`, `Read`) is a sequence of them, in `op`; a row is its run time, or
`Empty` for a file that was truncated and not yet written. Kept from the code:
`add_task` of a file is an exclusive create; `update_task` truncates before it writes,
and what it writes reaches the file when the file is closed, after its lock is
released; readers remove rows they cannot rebuild, because the row is empty or because
the process lacks the task's function (`strangers`); redis tests for the id in a
command of its own and keeps the run times in a sorted set beside the rows. A round
opens the lock file if `lock_path` is set (`RoundStart`) and then locks it
(`RoundLock`), submits what is due, writes each task's next time and asks for the
earliest; an exception leaves the round with no timer (`armed`). `shutdown` reads all
tasks first, which removes rows as any query does, or raises when the directory is
gone, and then the scheduler goes on with its rounds; `StoresDown` may remove the
directory and does remove the lock file, whoever holds it or has opened it to lock it.
Who locks a removed file is among `orphans`: he keeps nobody out of the next one. A
crash loses what was not written, and the kernel gives the lock back. `excused`
records why a run may come twice although rounds exclude each other.

### Calendar, CronTrigger, Triggers

`CronTrigger` has the walk as a state machine: `next_date` and `fieldnum` are the
variables of the loop in `get_next_trigger_time`, a turn is `CronStep`, with the
carry of `increment_field_value` and the reset of `set_field_value`. Expressions are
records, the operators `NextOfAll`, `NextOfRange`, `NextOfPosition` what their
`get_next_value` computes. The reference definition is by brute force: the days and
the times of day that match, in order. `Triggers` has instants as numbers; the calls
are `get_next_trigger_time` with and without a previous time, `get_run_times` and
`preview_task_runs`, with a step per turn of `AndTrigger`'s loop.

### Executions

Two senders, the round and `run_task`, submit runs of one task: `Begin`, `Send` (the
limit and the submission under the executor's lock), `Hook` (`add_done_callback`), `Count`,
`Record` and `Write` (the event, then `record_submission`, which tests the status
outside the history's lock), `End`. A job runs its run times (`Run`), is misfired,
dies, is cancelled; its callback (`Callback`) may run in a worker, on the loop, or inside
the call that adds it; `Deliver` hands one event to the run history. The history has
room for `maxlen` records and evicts the oldest also while its run goes on.

Two locks matter. A round holds `store_lock` from its query until it dispatches
(`RoundHolds`), and the executor's lock besides while it sends. `run_task` sends with the
executor's lock alone, so a callback inside its call waits for the round before it can
look its task up; one inside the round's own call has the lock already (`Inline`). A
pool that is stopped drops with `cancel_futures` the jobs it has not begun: they are
called back, but the callback raises before it takes them off the count, which keeps
them (`Unreleased`).

### Dashboard

A request goes from its form over a call for each task to the entry in the audit
trail. In one process a handler awaits nothing after its form is read; with a
`RemoteSchedulerClient` requests of several dashboards interleave call by call, a call
may not reach the worker, or be carried out after its client has given up. The
exceptions that a handler does not know leave it. `run_task` is two steps; a task of a
memory store (`InMemory`) that goes away in between is put back by the second, and the
answer is then that it ran.

### CommandLine

A command's event loop is the queue `ready`: the wakeup of its scheduler, what its call
queued, the shutdown, the end. `CallOutcomes` has what each command does and says.
`asyncz start` goes through generations of schedulers with hooks that may raise, with a
shutdown that is queued in the loop and a reload that may fail half way. `refs` is the
reference counter of each generation. With `--bootstrap` every boot starts the same
scheduler once more and none calls `on_start`, while a change still calls `on_stop` and
shuts it down. That scheduler is taken to be an `AsyncIOScheduler` which nothing else has
started. `asyncz doctor` looks at the environment and is left out.

### Views, RunLogs

Each query is a step, between which tasks change. `Views` has the sort keys, filters,
pages, previews and limits; names and executors are numbers in their alphabetical
order. `RunLogs` has the buffer, who fills it in which order, and `logs_for_run` with
its two queries, whose record is live in between. `Orders` has what both take from
Python: `sorted` puts an element behind those that come before it, and a comprehension
keeps the order. It says so by ranks, because the sorting of the community modules
and `SelectSeq` rest on definitions the prover does not know.

## What is checked

| Run | Instance | Shows |
|---|---|---|
| `memory_store` | 4 objects, 3 ids, 2 instants | `Consistent`, `SearchLands`: list and dictionary stay one sorted table in every probe of every call, and a search lands on its row, whatever run times are set meanwhile; `CallReturns`; `ImplementsTaskStore` |
| `scheduler` | 2 threads, an interval and a date task, instants 0-3, all calls but `run_task`, one submission that raises | `TimestampsAgree`, `TimerCovers`, `RunOnce`, `NoRunLost`, `RemovedStaysOut`, `PausedStays` |
| `scheduler_progress` | 1 thread, one unreadable round, a coalesced interval | `DueIsTakenUp` |
| `scheduler_run_task` | 2 threads, 2 objects under one id, `run_task` | `TimestampsAgree` also when tasks are advanced without the lock |
| `run_task_delete` | 2 threads, 1 task | a violation of `RemovedStaysOut`, see below |
| `lifecycle` | 2 users, 2 tasks, one thread and several, one start that raises | `RefCounts`, `OneBringUp`, `UpWhileHeld`, `PendingAreScheduledOnLoop`, `AssertionHoldsOnLoop`, `LastOutStops` |
| `start_assertion`, `pending_lost` | 2 threads | violations, see below |
| `shared_store` | 2 processes, one task, 2 instants, each kind of store, 2 calls, one crash or shutdown, with a lock file | `OneWinner`: one of two adds wins, except on redis; `SubmittedOnce`: no run twice but for a crash, a stale copy or a lock file removed while it was locked or open; `IndexComplete`: the sorted set of redis knows what is scheduled; `DueIsServed`: what is due is served while somebody is left to do it |
| `triggers` | 3 starts around a year's end, a leap day and a month's end, some hundred schedules; 9 triggers and all pairs of them under And and Or | `CronFindsNext`, `FindsEarliest`: no matching instant is passed over; `RunTimesAdvance`; `Returns`: the loops end, except those of an `AndTrigger` named below |
| `executions` | each executor with 2 submissions of up to 2 run times, `max_instances` 1, one record of history, no waiting shutdown, pools with `cancel_futures` | `InstancesMatch`, `HistoryTruthful`, `OutcomeKept`, `Accounted` |
| | 2 requests, 2 tasks, of which one is in memory, one form that names a task twice, local and remote | `AuditMatchesEffects` |
| | every command on 2 tasks, one a coroutine; `asyncz start` with 2 reloads, with a bootstrap and without | `CommandsKeepTheirWord` |
| | 3 tasks that share names and executors, 2 changes, pages of 2, every filter and order | `PagesCoverTheList`, `TimelineShowsTheNext` |
| | 2 runs, a log buffer of 2, a history of 1 | `PageShowsTheRun` |
| `shutdown_wait` | a pool, a shutdown that waits | a violation of `ShutdownReturns`, see below |

`executions` and `triggers` each hold machines that share no variable; one of them moves
in a behaviour and the others are at rest, so the run's states are the sum of
theirs and none is less explored than in a run of its own.

Every passing run also checks the `TypeOK` of its module where it says something:
the bounds of the search are never negative, no task exceeds `max_instances`, the
reference counter never falls below zero.

**Bounds.** Three rows make the search probe on both sides and find ties; two
instants and `Never` give equal, smaller and greater keys. Four instants with a
period of one let a round be late by two runs, and still have a next run to
compare with. Two threads suffice for each race of a call with another call and
with the loop; the second object under an id is what `replace_existing` makes. Two
wakeups in the queue (`MaxQueue`) are one that runs and one that finds nothing left
to do; a third changes nothing that the second does not. `MaxTime` is the last
instant: time that passes it is represented by a timer that fires at it.
`MaxFailures` and `MaxSendErrors` let each failure happen once; the lifecycle run
adds one failing start. A run with symmetry checks invariants only. Of the shared
stores every promise is about one id, and a race needs two processes; two calls let
an add, an update or a delete of one meet a round or a call of the other. Two
instants make a run, and a next run that may be submitted twice. The dates of
`triggers` have every carry: second to year, a 31st and a 29th that the next month
lacks, a week 53, a fifth weekday. `max_instances` 1 with two senders reaches the
limit, `maxlen` 1 evicts with two run times. Three tasks make a page that is full and
one that is not; two entries in the log buffer are pushed out by a third.

**Fairness.** `Scheduler!Spec` assumes that the event loop runs its callbacks and
timers (asyncio does), that a call which has started goes on (its threads are
scheduled and the locks are held for a bounded time), and that time passes.
Nobody has to make a call and no job has to end. `Lifecycle!Spec` assumes the same
of the loop and of started calls; a timer need not fire. `MemoryStore!Spec` assumes
that a call which was made runs on. `SharedStore!FairSpec` assumes that every process
goes on with its call and starts its rounds: with `lock_path`, `process_tasks` always
asks for another. It does not assume that time passes or that anybody starts a
process again. `Executions!Fairness` assumes that senders go on, that tasks return
and workers call back, that a shutdown goes on; nobody has to submit or stop. (A callback
that waits for a lock waits as long as the lock is held.)
`MCTriggers` assumes that a call which was made runs on.

CHECK_DEADLOCK is off in all runs: a scheduler nobody uses may stop, a call or a
request that is answered is over, and in `shared_store` the processes may all be
down, or up without a timer after an exception.

### Disagreements with the code's own words

* `run_task_delete`: `delete_task` "Removes a task, preventing it from being run
  anymore" (`schedulers/base.py:1179`). A `run_task` that has sent the task before,
  and saves it after, puts it back: its last write is an update, and the memory
  store inserts what it does not find (`stores/memory.py:70-75`).
* `start_assertion`: "should not happen, ref_counter should protect"
  (`schedulers/base.py:201`). `shutdown` gives the last reference back before it
  sets the state; a start in another thread comes in between and its assertion
  fails. On the loop's own thread it cannot (`AssertionHoldsOnLoop`).
* `pending_lost`: "Adding task tentatively. It will be properly scheduled when the
  scheduler starts." (`schedulers/base.py:599`). A task that another thread adds after
  `start` has drained the pending tasks and before it sets the state is never
  scheduled. On the loop's own thread this cannot happen
  (`PendingAreScheduledOnLoop`).
* `shutdown_wait`: "wait: True to wait until all currently executing tasks have
  finished" (`schedulers/base.py:270`). It holds `store_lock` while it joins the workers
  of a pool; a worker's event reaches the run history of the dashboard, which asks
  the scheduler for the task and waits for `store_lock`.

Beside these the models record what the code does where no document says
otherwise, or where only a part of it is in a run:

* `AndTrigger` never returns once something has run and its members' answers differ,
  because interval and cron members then answer from the previous time alone
  (`triggers/combination.py:24`); also with a date that is over, or members that
  never meet. `Settles` in `Triggers` says when it does return. `OrTrigger` of two dates
  ends after the first. In the model every interval trigger has an `end_at`; without one, which is the default, members that never meet loop for ever.
* A round and a `run_task` may submit one run time twice. A task at the end of its
  schedule that is run from the dashboard while it goes away is audited as not found
  although it ran, unless its store is in memory; a resume that deletes its task is audited as resumed.
* A `run_task` and a round may wait for each other for ever. `run_task` sends with the
  executor's lock and without `store_lock`; if the executor calls back at once, the
  event of the job waits for `store_lock` (`history.py:437`), and a round that has it and
  sends to the same executor waits for the executor's lock (`executors/base.py:63`).
  `Accounted` makes an exception of this state (`Embraced`) and of no other.
* A job that a pool with `cancel_futures` has cancelled when it was shut down stays in
  the count (`executors/pool.py:29-36`, `54`), so that the task may be refused though no
  instance of it runs. `InstancesMatch` counts these jobs.
* `asyncz start --bootstrap` says that it ignores `--watch` (`cli/commands/start.py:77`), but
  watches and reloads all the same (`cli/commands/start.py:120-144`).
* The instances of all executors are counted in one dictionary under a lock of each.
* A command of the CLI starts a scheduler whose round takes up what is due in the
  shared store, past the lock file, and its coroutines are cancelled with the
  command: those runs are lost, also by `list`, `status`, `inspect`, `preview`,
  `instances` and `timeline`, of which the last and `preview` say "without" mutating
  or modifying the scheduler (`cli/commands/timeline.py:95`). With `--bootstrap` a start that
  fails is ignored, so `add` says that it has added a task that is only pending.
  Tasks loaded by `--module` or `--config` are built with an argument `Task` does not
  have (`cli/loader.py:23`). A reload that fails calls `on_stop` twice.
* Redis tests for an id in a command of its own: two adds may both succeed, and an update
  brings back a task that was deleted since its test (`stores/redis.py:110`). A file store
  may lose a task that one process has truncated to write it anew when another reads it
  and removes it as broken (`stores/file.py:156`).
* An exception that leaves a round leaves no timer either (`schedulers/asyncio.py:94`), nor
  is the in-process lock of the rounds released (`locks.py:39`), which only a scheduler
  that moves to another thread would notice.
* An edit in the dashboard writes all fields of its form; the entry in the audit trail
  has only those that differ from what it had read (`controllers/tasks.py:574`).
* The counts above the task table and its rows come from two queries. Pages are cut
  by position, so tasks that go away move others to a page that was seen. A paused
  task is previewed as if it ran. `RemoteSchedulerClient.preview_task_runs` sends `now`,
  and the worker does not read it.
* The page of a run that is still going on ends its window five seconds after the
  record was last changed (`history.py:374`): what the task logs later is missing until
  the run has ended.

`RunOnce`, `NoRunLost`, `TimerCovers` and `PausedStays` are checked without
`run_task`. With it they fail, by design (a manual run is not one of the
schedule) or by the race that `run_task_delete` shows for deletions.

## What is proved

TLAPS proves what follows for every value of the constants: any number of tasks,
ids, users, processes, requests and commands, any instants, periods, schedules and
bounds. The list `theorems` of `PROJECT.json` has each theorem with the property it
states.

**The memory store** (`MemoryStoreProofs`). `IInv` adds to `TypeOK` and `Consistent`
what a search knows while it runs: the rows below `low` come before the target and
those from `high` on after it, and the key of the search is the one under which the
row of an update or a delete is filed. Without the latter a search could miss its
row when `next_run_time` changes. It gives `StoreConsistent`, `StoreTypes` and
`SearchCorrect`: a row that is not below `low` and not from `high` on is found when
the bounds meet. `StoreImplements` is the refinement: every step of the list is one
call of `TaskStore` or none. Between calls the list has the rows of the dictionary
(`ListsRows`), and what a query cuts off at the first row that is not due are the rows
that are due (`PrefixIsDue`).

**The scheduler** (`SchedulerProofs`). `SchedulerTypes` and `SortKeysAgree` hold for
every call, `run_task` among them. `IInv` adds that a row is filed under the id of
its object and that the objects of rows, rounds and calls were given to `add_task`:
a new object then meets no call that is between its two writes, and a written row
replaces no row of another id. That the round began in the past bounds `lag`; that
an interval's next run is an instant is arithmetic (`IntervalTimeType`).

The other theorems assume `"run_task" \notin Api`, without which they fail (see
above), and prove what `store_lock` gives. `JInv`: the rows of a round are those of
the store, and due, until the round is done with them. From it `RemovedIsForGood` and
`PausedIsLeftAlone` follow. `KInv`: outside the loop's hands a row's time is the
first run the loop has not taken (`Fresh`), and what the round is done with lies
after its start; between `SendTask` and `AdvanceTask` the last run taken has
nothing due behind it (`Taken`). The lemmas on multiples of the period
(`SpacedFacts`) carry it over an advance. It gives `EveryRunOnce` and
`NoRunIsSkipped`. `TInv`: when nothing else will wake a running loop, the timer is
armed in time for every row, or the loop is about to arm it with a wait that ends in
time. It needs `KInv` (the first row is the earliest and lies ahead of the round) and
gives `SleepIsTimed`.

**Start and shutdown** (`LifecycleProofs`). `ReferencesAreCounted`, `LifecycleTypes`
and `BringUpIsExclusive` hold with threads and failing starts. `IInv` adds that a user
who is starting the scheduler does not hold it; the counter is then at least one
while somebody starts, so a second `Start` is told that it is not the first. That the
counter never falls below zero follows from the count and not from its type. The
lemmas on queues (`AskedAppend`, `AskedTail`) count the waiting shutdowns. For users
on the loop's own thread `LoopInv` adds that one call or one chain of callbacks is on
its way at a time (`Alone`), that a scheduler which is up has references, executors
and no pending tasks (`Upright`), and that nothing of a stopped one is up unless a
start has raised (`Cleared`). `HeldMeansUp`, `NothingStaysPending` and
`AssertionIsProtected` follow; the last is the comment that threads refute.

**Shared stores** (`SharedStoreProofs`). `SharedStoreTypes`; `SortedSetIsComplete`
on redis; `OneProcessAdds`: the process that has made a file and not yet written
to it (`Adding`) is the only one, and while it is there the row has no winner.
`RoundsSubmitOnce` needs most: with a lock file only one process is in a round, as
long as the lock file was not removed since it was opened or locked (`Attended`), and the row of a task, every
copy of it in a round or a query and every write that a round has begun lie after
the runs already submitted, but for the row that the round is about to write
(`Ahead`). The attempt to prove it showed what two calls of TLC's instance cannot: a third
call may find a file that another one has emptied, while a write with an old copy
has it open and restores the old time; that copy is now among what excuses a run
(`OpenCopy`).

**Executions and history** (`ExecutionsProofs`). `InstancesAreJobs`: the count is
the number of jobs that have not given it back, less one between the making of a job
and its count, when the sender that made it holds the lock (`Attached`, `Counted`).
The jobs that a pool has cancelled have not given their count back, and are in
it for good. `HistoryOfEvents`: who is about to write has found a record of its run time and
entered the event that it writes (`Announced`). `OutcomesStay` is the action property
`OutcomeKept`, from the same invariant; `ExecutionTypes`.

**Dashboard** (`ControlProofs`). `AuditIsTrue`, from `BoardInv`: a call that is
under way belongs to the task its request is at, and a run of it that has begun was
carried out (`Outstanding`); an answer is awaited and tells whether the call was
carried out (`Answered`); what was carried out has an entry or is what its request
is at (`Entered`). A request passes each task once, because a form names none twice:
`FormsNameTasksOnce` proves of the fold that removes duplicates that it keeps every
id once, by the smallest prefix on which it would not.

**Command line** (`ControlProofs`). `WordIsKept`: a coroutine of which `run` says
that it was triggered stands in the loop's queue before the shutdown and the end
(`Comes`, `Loops`); of `asyncz start` each generation has one reference for every shutdown that waits for
it in the queue and one more if it is the current one (`RefsInv`), from which it follows
that nothing else is up; `HooksInv` counts the hooks, against the reloads when a bootstrap
calls no `on_start`.

**Views** (`ViewsProofs`). The lemmas on `Orders` come first: for any strict order of
a finite set `Sorted` has every element once, behind those that come before it
(`SortedArranges`, since the ranks of n elements are 0 to n - 1 without a gap), and
`Subsequence` keeps the order of the places it keeps (`SubsequencePicks`). Sort keys
are tuples, whose order is strict and total where keys differ (`PrecedesIsStrict`),
and every key ends in the id, so the table's order is one (`InfosAre`).
`PagesAreTheList` then needs two facts. One is arithmetic: the pages `1 .. PageCount`
cut a list into pieces that join, the last one not empty (`PageBounds`, `PagesJoin`).
The other is the invariant, `TableInv`: while no task has changed since the request
began, the counts and the list are those of the tasks, and what was shown is the
list up to the end of this page, or, when a link is followed, up to its beginning
(`PagesSoFar`, `PagesToHere`); without the latter nothing ties the rows of one page
to those of the page before it. `TimelineIsNext` has `TimelineInv`: no task is
previewed twice and none is among the rows that has yet to be (`RowsOnce`), so a row
comes once; each task to be told of is still to be previewed or has its next
`PerTask` runs among the rows (`RunsTold`); and the rows of a detail page are of one
task (`DetailRows`), so they ascend although that page does not sort them.
`LimitedAre` is what sorting and cutting keep: no row left out is earlier than the
last that is shown.

**The page of a run** (`ViewsProofs`). `PageIsOfTheRun`, from `LogsInv`: entries
have serial numbers in the order of the buffer and the task of their run (`InTurn`);
the record that the page works from is that of a run, and stays so when the history
evicts it (`RecordHeld`); what the first query found is of the run, with every entry
that was there if it did not reach the limit (`DirectFound`); what the second found
is of the run's task and window (`CorrelatedFound`). Joining them and dropping
entries that look alike keeps one of each kind, the first, and so those of the run
before the others (`OneOfEachDeduplicates`, `TogetherShows`).

**Triggers** (`TriggersProofs`). `RunsAdvance`: each loop asks from the last run time
or later, and an answer lies after the previous time, with any jitter and in any
combination. `FirstIsFound`: until a first answer AndTrigger has passed over no
instant its members share (`PassesNothing`). `WalkStaysInTheCalendar` and
`WalkFindsTheNext` are about the walk of a cron trigger over its fields. `CronInv`: the walk's date
is one of the calendar, the fields it has passed fit it, and no date from the start
on that matches lies before it; when a carry runs out of years, none is left. It rests on
three groups of lemmas: the order of dates, field by field, is that of `Seconds`,
because a month and a year end before the next begins (`LowerIsEarlier`, from
`MonthOrder` and `YearFacts`); a move of the walk goes to the first date that is
later in its field (`ResetIsFirst`, `CarryFacts`); and the answer of each
expression is the least value that it hits (`ExpressionNext`, with weeks and
positions in the month). Where the walk answers None, a day and a time of day that
fit would make a date that matches (`SkippedMatches`).

The assumptions are named and stand beside the constants; TLC evaluates all of them on
every run. `TaskTable`: `NoRow` is not a row, `Never` is later than every instant;
`Scheduler`: `Times` is `0 .. MaxTime`, periods and bounds are positive, `Never` lies
beyond every wait; `Lifecycle`: finitely many users; `SharedStore`: the markers for a
missing, an emptied and a paused row differ from each other and from instants;
`Executions`: `max_instances` and the length of the history are positive;
`Dashboard`: ids of tasks are not names of requests, and those in memory are ids; `CommandLine`: jobs are not
named as the loop's other callbacks; `Triggers`: triggers are combined one level
deep, with a member at least under And; `CronTrigger`: expressions are those of the
parser, starts and `end_at` are dates from 1970 to 9999. (After a run in the last
second of 9999, where Python raises `OverflowError`, the model's walk begins in
1970; no run of that kind is of interest.) `Views`: finitely many tasks with finitely
many instants, and page sizes and limits that are positive; `RunLogs`: positive
limits, and `NoRun` is not a run. In each module `Idle` or `NoValue`
is none of the values it stands beside.

Every invariant and every action property that a run checks is proved, `LogsInv` and
`ViewsInv` among what they rest on. Only model-checked are the liveness properties
(`CallReturns`, `DueIsTakenUp`, `LastOutStops`, `DueIsServed`, `Returns`,
`Accounted`), which are out of the prover's reach. What recursive definitions compute
is proved where it could be stated without recursion: over prefixes of a sequence
(`Deduplicated`), by ranks (`Sorted`), by the smallest counterexample.

## What is left

In this order:

1. schedulers with several stores and executors that are added and removed, and a
   restart with a pool that was shut down: the hazards at `executors/pool.py:54` and
   `schedulers/base.py:1592`;
2. time zones of cron triggers.

Not modelled: the pages' rendering, login, sessions and routing of the dashboard;
shapes, encryption, configuration, the conversion of dates, references and
arguments: they keep no state that a property of the scheduler is about. Time
zones: every instant is one of UTC. `process_pool` executors differ from the pools of
`Executions` by pickling only. The scheduler that runs a loop of its own and
`NativeAsyncIOScheduler` are thin layers over `AsyncIOScheduler`.
