------------------------------ MODULE Lifecycle ------------------------------
(***************************************************************************)
(* Starting and stopping an AsyncIOScheduler that several parts of a       *)
(* program share: schedulers/base.py and schedulers/asyncio.py.            *)
(*                                                                         *)
(* start and shutdown count references: the first start brings up the      *)
(* executors and the stores and schedules the pending tasks, the last      *)
(* shutdown tears them down.  shutdown only queues _shutdown in the event  *)
(* loop.  ref_lock covers the counter and nothing else; state is read and  *)
(* written under no lock.                                                  *)
(*                                                                         *)
(* The users are functions of the loop's own thread (ASGI lifespans,       *)
(* middleware), whose calls run from end to end, or threads, whose calls   *)
(* interleave with the loop and with each other.  The event loop belongs   *)
(* to the program and never stops; the store is a MemoryStore.             *)
(***************************************************************************)
EXTENDS Integers, Sequences, FiniteSets

CONSTANTS
  Users,        \* the parts of the program that start and stop the scheduler
  Threads,      \* the values that threads may have: TRUE, FALSE or both
  Tasks,        \* task objects
  MaxQueue,     \* bound on the queued callbacks: no call starts above it
  MaxFailures,  \* bound on the starts that raise while they bring up
  Idle          \* a user that is not in a call

\* Where a user may be in a call; paused is the argument of start.
StartSteps == {"assert", "executors", "stores", "state", "wakeup"}
CallState  == [step : StartSteps \cup {"pause", "resume"}, paused : BOOLEAN]

ASSUME LifecycleAssumption ==
  /\ IsFiniteSet(Users)
  /\ Threads \subseteq BOOLEAN
  /\ MaxQueue \in Nat \ {0} /\ MaxFailures \in Nat
  /\ Idle \notin CallState

VARIABLES
  threads,        \* whether the users are threads of their own
  ref_counter,    \* self.ref_counter
  state,          \* self.state
  executors,      \* "up" when the executors are started
  stored,         \* the tasks in the store
  pending_tasks,  \* the tasks added while the scheduler was stopped
  timer,          \* whether the timer is armed
  queue,          \* the callbacks of the event loop, first to run first
  loop,           \* where the loop is in _shutdown, "idle" between callbacks
  user            \* where each user is in a call

\* History.
VARIABLES
  holders,        \* the users that started the scheduler and did not stop it
  leaked,         \* the starts that raised, whose references nobody gives back
  submitted,      \* the tasks that were given to add_task
  asserted        \* whether the assertion of start has failed

parts    == <<executors, stored, pending_tasks>>
history  == <<holders, leaked, submitted, asserted>>
vars == <<threads, ref_counter, state, parts, timer, queue, loop, user, history>>

Init ==
  /\ threads \in Threads
  /\ ref_counter = 0
  /\ state = "STOPPED"
  /\ executors = "down" /\ stored = {} /\ pending_tasks = {}
  /\ timer = FALSE
  /\ queue = <<>>
  /\ loop = "idle"
  /\ user = [u \in Users |-> Idle]
  /\ holders = {} /\ leaked = 0 /\ submitted = {} /\ asserted = FALSE

-----------------------------------------------------------------------------
\* On one thread, a call starts and a callback runs when no other is on its way.
NoneElse(u)  == threads \/ (loop = "idle" /\ \A v \in Users \ {u} : user[v] = Idle)
LoopsTurn    == threads \/ \A u \in Users : user[u] = Idle

Free(u)      == user[u] = Idle /\ NoneElse(u) /\ Len(queue) < MaxQueue
In(u, steps) == user[u] # Idle /\ user[u].step \in steps
Go(u, step)  == user' = [user EXCEPT ![u].step = step]
Return(u)    == user' = [user EXCEPT ![u] = Idle]

\* call_soon_threadsafe
Enqueue(callback) == queue' = Append(queue, callback)

\* Under ref_lock.  Mutants: a flag for a counter, and a counter that is cut off.
inc_to_one      == ref_counter' = 1
inc_refcount    == ref_counter' = ref_counter + 1
decr_to_zero    == ref_counter' = 0
decr_above_zero == ref_counter' = IF ref_counter > 1 THEN ref_counter - 1 ELSE ref_counter
decr_refcount   == ref_counter' = ref_counter - 1

-----------------------------------------------------------------------------
(* start *)

\* Only the first user goes on.
Start(u, paused) ==
  /\ Free(u)
  /\ u \notin holders
  /\ inc_refcount
  /\ \/ /\ ref_counter' > 1
        /\ holders' = holders \cup {u}
        /\ UNCHANGED user
     \/ /\ ref_counter' <= 1
        /\ user' = [user EXCEPT ![u] = [step |-> "assert", paused |-> paused]]
        /\ UNCHANGED holders
  /\ UNCHANGED <<threads, state, parts, timer, queue, loop, leaked, submitted,
                 asserted>>

\* assert self.state == SchedulerState.STATE_STOPPED
Assert(u) ==
  /\ In(u, {"assert"})
  /\ \/ /\ state = "STOPPED"
        /\ Go(u, "executors")
        /\ UNCHANGED <<leaked, asserted>>
     \/ /\ state # "STOPPED"
        /\ asserted' = TRUE
        /\ leaked' = leaked + 1
        /\ Return(u)
  /\ UNCHANGED <<threads, ref_counter, state, parts, timer, queue, loop, holders,
                 submitted>>

StartExecutors(u) ==
  /\ In(u, {"executors"})
  /\ executors' = "up"
  /\ Go(u, "stores")
  /\ UNCHANGED <<threads, ref_counter, state, stored, pending_tasks, timer, queue, loop,
                 history>>

\* A mutant that leaves the tasks among the pending ones.
StartStoresOnly(u) ==
  /\ In(u, {"stores"})
  /\ stored' = stored \cup pending_tasks
  /\ Go(u, "state")
  /\ UNCHANGED <<threads, ref_counter, state, executors, pending_tasks, timer, queue, loop,
                 history>>

\* Under store_lock the stores are started and the pending tasks go to them.
StartStores(u) ==
  /\ In(u, {"stores"})
  /\ stored' = stored \cup pending_tasks
  /\ pending_tasks' = {}
  /\ Go(u, "state")
  /\ UNCHANGED <<threads, ref_counter, state, executors, timer, queue, loop, history>>

\* An executor or a store does not start, or a pending task cannot be added:
\* the exception leaves start with what was done so far, the reference too.
FailToStart(u) ==
  /\ In(u, {"executors", "stores"})
  /\ leaked < MaxFailures
  /\ leaked' = leaked + 1
  /\ \E some \in SUBSET pending_tasks :
       /\ user[u].step = "executors" => some = {}
       /\ stored' = stored \cup some
  /\ Return(u)
  /\ UNCHANGED <<threads, ref_counter, state, executors, pending_tasks, timer, queue,
                 loop, holders, submitted, asserted>>

\* The state is set after store_lock was released.
SetState(u) ==
  /\ In(u, {"state"})
  /\ state' = IF user[u].paused THEN "PAUSED" ELSE "RUNNING"
  /\ Go(u, "wakeup")
  /\ UNCHANGED <<threads, ref_counter, parts, timer, queue, loop, history>>

EndStart(u) ==
  /\ In(u, {"wakeup"})
  /\ \/ user[u].paused /\ UNCHANGED queue
     \/ ~user[u].paused /\ Enqueue("wakeup")
  /\ holders' = holders \cup {u}
  /\ Return(u)
  /\ UNCHANGED <<threads, ref_counter, state, parts, timer, loop, leaked, submitted,
                 asserted>>

-----------------------------------------------------------------------------
(* shutdown *)

Shutdown(u) ==
  /\ Free(u)
  /\ u \in holders
  /\ Enqueue("_shutdown")
  /\ holders' = holders \ {u}
  /\ UNCHANGED <<threads, ref_counter, state, parts, timer, loop, user, leaked, submitted,
                 asserted>>

NextCallback(callback) ==
  /\ loop = "idle" /\ LoopsTurn
  /\ queue # <<>> /\ Head(queue) = callback
  /\ queue' = Tail(queue)

\* Only the last user goes on.
Decrement ==
  /\ NextCallback("_shutdown")
  /\ decr_refcount
  /\ loop' = IF ref_counter' > 0 THEN "idle" ELSE "check"
  /\ UNCHANGED <<threads, state, parts, timer, user, holders, leaked, submitted, asserted>>

\* A stopped scheduler raises SchedulerNotRunningError.
Stop ==
  /\ loop = "check"
  /\ \/ state = "STOPPED" /\ loop' = "idle" /\ UNCHANGED state
     \/ state # "STOPPED" /\ loop' = "parts" /\ state' = "STOPPED"
  /\ UNCHANGED <<threads, ref_counter, parts, timer, queue, user, history>>

\* Under executor_lock and store_lock; a MemoryStore forgets its tasks.
StopParts ==
  /\ loop = "parts"
  /\ executors' = "down"
  /\ stored' = {}
  /\ loop' = "timer"
  /\ UNCHANGED <<threads, ref_counter, state, pending_tasks, timer, queue, user, history>>

StopTimer ==
  /\ loop = "timer"
  /\ timer' = FALSE
  /\ loop' = "idle"
  /\ UNCHANGED <<threads, ref_counter, state, parts, queue, user, history>>

-----------------------------------------------------------------------------
\* wakeup: a round of module Scheduler, which asks only whether the scheduler is
\* paused; every task of the store is to run again.
Round ==
  /\ NextCallback("wakeup")
  /\ timer' = (state # "PAUSED" /\ stored # {})
  /\ UNCHANGED <<threads, ref_counter, state, parts, loop, user, history>>

FireTimer ==
  /\ timer
  /\ Len(queue) < MaxQueue
  /\ timer' = FALSE
  /\ Enqueue("wakeup")
  /\ UNCHANGED <<threads, ref_counter, state, parts, loop, user, history>>

\* add_task tests the state under store_lock: a stopped scheduler keeps the task
\* for its start, another one gives it to the store.
AddTask(u, t) ==
  /\ Free(u)
  /\ t \notin submitted
  /\ submitted' = submitted \cup {t}
  /\ \/ /\ state = "STOPPED"
        /\ pending_tasks' = pending_tasks \cup {t}
        /\ UNCHANGED <<stored, queue>>
     \/ /\ state # "STOPPED"
        /\ stored' = stored \cup {t}
        /\ \/ state = "RUNNING" /\ Enqueue("wakeup")
           \/ state # "RUNNING" /\ UNCHANGED queue
        /\ UNCHANGED pending_tasks
  /\ UNCHANGED <<threads, ref_counter, state, executors, timer, loop, user, holders,
                 leaked, asserted>>

\* delete_task looks among the pending tasks or in the store, by the state.
DeleteTask(u, t) ==
  /\ Free(u)
  /\ \/ /\ state = "STOPPED" /\ t \in pending_tasks
        /\ pending_tasks' = pending_tasks \ {t}
        /\ UNCHANGED stored
     \/ /\ state # "STOPPED" /\ t \in stored
        /\ stored' = stored \ {t}
        /\ UNCHANGED pending_tasks
  /\ UNCHANGED <<threads, ref_counter, state, executors, timer, queue, loop, user, history>>

\* pause and resume read the state and then write it.
ReadState(u, step, from) ==
  /\ Free(u)
  /\ state = from
  /\ user' = [user EXCEPT ![u] = [step |-> step, paused |-> FALSE]]
  /\ UNCHANGED <<threads, ref_counter, state, parts, timer, queue, loop, history>>

Pause(u)  == ReadState(u, "pause", "RUNNING")
Resume(u) == ReadState(u, "resume", "PAUSED")

EndPause(u) ==
  /\ In(u, {"pause"})
  /\ state' = "PAUSED"
  /\ Return(u)
  /\ UNCHANGED <<threads, ref_counter, parts, timer, queue, loop, history>>

EndResume(u) ==
  /\ In(u, {"resume"})
  /\ state' = "RUNNING"
  /\ Enqueue("wakeup")
  /\ Return(u)
  /\ UNCHANGED <<threads, ref_counter, parts, timer, loop, history>>

-----------------------------------------------------------------------------
Callbacks == Decrement \/ Stop \/ StopParts \/ StopTimer \/ Round

Call(u) ==
  \/ \E paused \in BOOLEAN : Start(u, paused)
  \/ Shutdown(u) \/ Pause(u) \/ Resume(u)
  \/ \E t \in Tasks : AddTask(u, t) \/ DeleteTask(u, t)

\* The rest of a call that has started.
Continued(u) ==
  \/ Assert(u) \/ StartExecutors(u) \/ StartStores(u) \/ FailToStart(u) \/ SetState(u)
  \/ EndStart(u) \/ EndPause(u) \/ EndResume(u)

Next == Callbacks \/ FireTimer \/ \E u \in Users : Call(u) \/ Continued(u)

\* The event loop runs its callbacks and a call that has started goes on; nobody
\* has to start or stop the scheduler.
Spec ==
  /\ Init /\ [][Next]_vars
  /\ WF_vars(Callbacks)
  /\ \A u \in Users : WF_vars(Continued(u))

-----------------------------------------------------------------------------
Starting == {u \in Users : In(u, StartSteps)}
\* The shutdowns that the loop has not yet come to.
Asked(q) == {i \in 1 .. Len(q) : q[i] = "_shutdown"}
Quiet    == loop = "idle" /\ queue = <<>> /\ \A u \in Users : user[u] = Idle

TypeOK ==
  /\ threads \in Threads
  /\ ref_counter \in Nat
  /\ state \in {"STOPPED", "PAUSED", "RUNNING"}
  /\ executors \in {"up", "down"}
  /\ stored \subseteq Tasks /\ pending_tasks \subseteq Tasks /\ submitted \subseteq Tasks
  /\ timer \in BOOLEAN /\ asserted \in BOOLEAN
  /\ queue \in Seq({"wakeup", "_shutdown"})
  /\ loop \in {"idle", "check", "parts", "timer"}
  /\ user \in [Users -> {Idle} \cup CallState]
  /\ holders \subseteq Users
  /\ leaked \in Nat

\* The counter counts the users of the scheduler exactly: those that hold it, the
\* one that is starting it, those whose _shutdown still waits in the loop, and
\* the starts that raised, which nobody takes back (schedulers/base.py:176-190).
RefCounts ==
  ref_counter = Cardinality(holders) + Cardinality(Starting) + Cardinality(Asked(queue)) + leaked

\* Two users never bring the scheduler up at the same time, with threads too: the
\* counter lets the first one through and no other until it is back to zero
\* (schedulers/base.py:199-236).
OneBringUp == Cardinality(Starting) <= 1

\* "Asyncz schedulers use reference counting [...] safe to use from nested
\* context managers, lifespan handlers, and wrapper middleware": on one thread,
\* when all calls have returned and the loop has run its callbacks, the scheduler
\* and its executors are up exactly while somebody holds it, and nothing runs or
\* is kept in the store of a stopped one (docs/en/docs/asgi.md:3).
UpWhileHeld ==
  ~threads /\ Quiet /\ leaked = 0 =>
    /\ state # "STOPPED" <=> holders # {}
    /\ executors = "up" <=> holders # {}
    /\ state = "STOPPED" => ~timer /\ stored = {}

\* "Adding task tentatively. It will be properly scheduled when the scheduler
\* starts": when the scheduler is up and quiet, no task is left among the pending
\* ones (schedulers/base.py:216-228, 589-604).
PendingAreScheduled == Quiet /\ state # "STOPPED" => pending_tasks = {}

\* The same of users on the loop's own thread.
PendingAreScheduledOnLoop == ~threads => PendingAreScheduled

\* "should not happen, ref_counter should protect": the assertion at the head of
\* start never fails (schedulers/base.py:201-202).
AssertionHolds == ~asserted

\* On the loop's own thread the reference counter does protect the assertion.
AssertionHoldsOnLoop == ~threads => AssertionHolds

\* On one thread, when the last user has left, the scheduler stops, unless it is
\* started again (schedulers/asyncio.py:59-74, schedulers/base.py:264-301).
LastOutStops ==
  (~threads /\ leaked = 0 /\ holders = {} /\ Starting = {} /\ state # "STOPPED")
    ~> (state = "STOPPED" \/ holders # {} \/ Starting # {})
=============================================================================
