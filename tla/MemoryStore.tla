----------------------------- MODULE MemoryStore -----------------------------
(***************************************************************************)
(* MemoryStore (stores/memory.py): a list of (task, timestamp) kept sorted *)
(* by (timestamp, id), and a dictionary from ids to the same pairs.  Every *)
(* write finds its place in the list by binary search; the search is       *)
(* modelled probe by probe, because next_run_time may be set by another    *)
(* thread while it runs and because its loop invariant is what makes the   *)
(* store correct.  The calls themselves do not overlap: the scheduler      *)
(* makes them under store_lock.                                            *)
(*                                                                         *)
(* Python's indices start at 0: low and high are Python's, tasks[i] of the *)
(* code is tasks[i + 1] here.                                              *)
(***************************************************************************)
EXTENDS TaskTable, SequencesExt

VARIABLES
  tasks,           \* self.tasks
  tasks_index,     \* self.tasks_index
  next_run_time,   \* task.next_run_time of each object
  call,            \* the write in progress, NoCall between calls
  low, high,       \* the locals of get_task_index
  reply            \* what a call returned or raised, until the caller has it

vars == <<tasks, tasks_index, next_run_time, call, low, high, reply>>
data == <<tasks, tasks_index, next_run_time>>

\* "insert", "replace" and "delete" search for a row's place; "reinsert" is
\* the second search of an update that moves its row.
Call   == [op : {"insert", "replace", "reinsert", "delete"},
           task : Tasks, key : Stamp, stamp : Stamp]
NoCall == [op |-> "none"]

Reply(kind, list, time) == [kind |-> kind, list |-> list, time |-> time]
Returned == Reply("None", <<>>, Never)
Conflict == Reply("ConflictIdError", <<>>, Never)
Missing  == Reply("TaskLookupError", <<>>, Never)

Init ==
  /\ tasks = <<>>
  /\ tasks_index = EmptyTable
  /\ next_run_time \in [Tasks -> Stamp]
  /\ call = NoCall
  /\ low = 0 /\ high = 0
  /\ reply = Returned

-----------------------------------------------------------------------------
(* get_task_index *)

\* No call is in progress and the caller has the last answer.
Ready == call = NoCall /\ reply = Returned

\* Look for (key, id of t) in a list of n rows.
Search(op, t, key, stamp, n) ==
  /\ call' = [op |-> op, task |-> t, key |-> key, stamp |-> stamp]
  /\ low' = 0
  /\ high' = n

\* What the search compares the rows of the list with.  A mutant looks for the
\* place the row will have, not for the one it has.
TargetByStamp == NewRow(call.task, call.stamp)
Target        == NewRow(call.task, call.key)

\* The bounds after a probe at mid: high if the target comes before its row, low
\* if it comes after.  Mutants: one too far, and no progress.
OneTooLow(mid) == mid - 1
HighFrom(mid)  == mid
NoProgress(mid) == mid
LowFrom(mid)    == mid + 1

Probe ==
  /\ call # NoCall
  /\ low < high
  /\ LET mid == (low + high) \div 2
         row == tasks[mid + 1]
     IN \/ Before(Target, row) /\ high' = HighFrom(mid) /\ UNCHANGED low
        \/ Before(row, Target) /\ low' = LowFrom(mid) /\ UNCHANGED high
        \/ /\ ~Before(Target, row) /\ ~Before(row, Target)
           /\ low' = mid /\ high' = mid
  /\ UNCHANGED <<data, call, reply>>

\* The search has ended: low is the index it returns.
Found(op) == call # NoCall /\ call.op = op /\ low = high

\* A write that worked returns None.
Return ==
  /\ call' = NoCall
  /\ low' = 0 /\ high' = 0
  /\ UNCHANGED reply

-----------------------------------------------------------------------------
(* The calls that write *)

AddTask(t) ==
  /\ Ready
  /\ \/ /\ tasks_index[IdOf[t]] # NoRow
        /\ reply' = Conflict
        /\ UNCHANGED <<data, call, low, high>>
     \/ /\ tasks_index[IdOf[t]] = NoRow
        /\ Search("insert", t, next_run_time[t], next_run_time[t], Len(tasks))
        /\ UNCHANGED <<data, reply>>

\* An absent task is inserted: the branch "Not present yet: be tolerant".
UpdateTask(t) ==
  /\ Ready
  /\ LET old == tasks_index[IdOf[t]]
     IN \/ /\ old = NoRow
           /\ Search("insert", t, next_run_time[t], next_run_time[t], Len(tasks))
        \/ /\ old # NoRow
           /\ Search("replace", t, old.timestamp, next_run_time[t], Len(tasks))
  /\ UNCHANGED <<data, reply>>

\* A mutant that takes the object's run time for the sort key of its row.
DeleteTaskByRunTime(id) ==
  /\ Ready
  /\ tasks_index[id] # NoRow
  /\ LET t == tasks_index[id].task
     IN Search("delete", t, next_run_time[t], next_run_time[t], Len(tasks))
  /\ UNCHANGED <<data, reply>>

DeleteTask(id) ==
  /\ Ready
  /\ LET old == tasks_index[id]
     IN \/ /\ old = NoRow
           /\ reply' = Missing
           /\ UNCHANGED <<data, call, low, high>>
        \/ /\ old # NoRow
           /\ Search("delete", old.task, old.timestamp, old.timestamp, Len(tasks))
           /\ UNCHANGED <<data, reply>>

Insert ==
  LET row == NewRow(call.task, call.stamp)
  IN /\ Found("insert") \/ Found("reinsert")
     /\ tasks' = InsertAt(tasks, low + 1, row)
     /\ tasks_index' = Put(tasks_index, row)
     /\ Return
     /\ UNCHANGED next_run_time

\* update_task of a task that is there: the same timestamp keeps the slot,
\* another one takes the row out and searches for its new place.
Replace ==
  LET row == NewRow(call.task, call.stamp)
  IN /\ Found("replace")
     /\ \/ /\ call.key = call.stamp
           /\ tasks' = ReplaceAt(tasks, low + 1, row)
           /\ tasks_index' = Put(tasks_index, row)
           /\ Return
        \/ /\ call.key # call.stamp
           /\ tasks' = RemoveAt(tasks, low + 1)
           /\ Search("reinsert", call.task, call.stamp, call.stamp, Len(tasks) - 1)
           /\ UNCHANGED <<tasks_index, reply>>
     /\ UNCHANGED next_run_time

Delete ==
  /\ Found("delete")
  /\ tasks' = RemoveAt(tasks, low + 1)
  /\ tasks_index' = Drop(tasks_index, IdOf[call.task])
  /\ Return
  /\ UNCHANGED next_run_time

\* remove_all_tasks, which is also all that shutdown does to the tasks.
RemoveAllTasks ==
  /\ Ready
  /\ tasks' = <<>>
  /\ tasks_index' = EmptyTable
  /\ UNCHANGED <<next_run_time, call, low, high, reply>>

-----------------------------------------------------------------------------
(* The calls that read *)

\* A mutant that leaves out the task due just now.
DuePrefixBefore(now) ==
  LET stop == {i \in DOMAIN tasks : tasks[i].timestamp >= now}
  IN SubSeq(tasks, 1, IF stop = {} THEN Len(tasks) ELSE Min(stop) - 1)

\* The rows before the first one that is paused or later than now.
DuePrefix(now) ==
  LET stop == {i \in DOMAIN tasks : tasks[i].timestamp = Never \/ tasks[i].timestamp > now}
  IN SubSeq(tasks, 1, IF stop = {} THEN Len(tasks) ELSE Min(stop) - 1)

GetDueTasks(now) ==
  /\ Ready
  /\ reply' = Reply("due", DuePrefix(now), Never)
  /\ UNCHANGED <<data, call, low, high>>

GetAllTasks ==
  /\ Ready
  /\ reply' = Reply("all", tasks, Never)
  /\ UNCHANGED <<data, call, low, high>>

GetNextRunTime ==
  /\ Ready
  /\ reply' = Reply("next", <<>>,
                    IF tasks = <<>> THEN Never ELSE next_run_time[tasks[1].task])
  /\ UNCHANGED <<data, call, low, high>>

-----------------------------------------------------------------------------
\* The caller has the answer, or has handled the exception.
TakeReply ==
  /\ reply # Returned
  /\ reply' = Returned
  /\ UNCHANGED <<data, call, low, high>>

\* Task.update_task(next_run_time=...) by a holder of the object.
SetNextRunTime(t, stamp) ==
  /\ next_run_time' = [next_run_time EXCEPT ![t] = stamp]
  /\ UNCHANGED <<tasks, tasks_index, call, low, high, reply>>

InCall == Probe \/ Insert \/ Replace \/ Delete

Next ==
  \/ \E t \in Tasks : AddTask(t) \/ UpdateTask(t)
  \/ \E id \in Ids : DeleteTask(id)
  \/ \E now \in Times : GetDueTasks(now)
  \/ \E t \in Tasks, stamp \in Stamp : SetNextRunTime(t, stamp)
  \/ RemoveAllTasks \/ GetAllTasks \/ GetNextRunTime \/ TakeReply
  \/ InCall

\* A call that was made runs to its end; nobody has to make one.
Spec == Init /\ [][Next]_vars /\ WF_vars(InCall)

-----------------------------------------------------------------------------
TypeOK ==
  /\ tasks \in Seq(Row)
  /\ tasks_index \in Table
  /\ next_run_time \in [Tasks -> Stamp]
  /\ call \in Call \cup {NoCall}
  /\ low \in Nat /\ high \in Nat

\* Strictly increasing: no two rows of the list share a sort key.
Increasing(list) == \A i, j \in 1 .. Len(list) : i < j => Before(list[i], list[j])

\* The rows of the list are those of the table, but for the ids in absent.
Agrees(list, table, absent) ==
  /\ \A i \in 1 .. Len(list) :
       /\ table[IdOf[list[i].task]] = list[i]
       /\ IdOf[list[i].task] \notin absent
  /\ \A id \in Ids :
       table[id] # NoRow =>
         /\ IdOf[table[id].task] = id
         /\ id \in absent \/ \E i \in 1 .. Len(list) : list[i] = table[id]

\* The id whose row an update has taken out of the list and not put back.
Moving == IF call # NoCall /\ call.op = "reinsert" THEN {IdOf[call.task]} ELSE {}

\* The list is sorted and holds the rows of the dictionary, the one being moved
\* excepted, at every step of every call and whatever the interleaving of
\* writes to next_run_time: no row is orphaned in the list, none is only in the
\* dictionary (stores/memory.py:53-97).
Consistent == Increasing(tasks) /\ Agrees(tasks, tasks_index, Moving)

\* When an update or a delete of a stored task stops searching, the index it
\* got is that task's: "del self.tasks[index]" never takes out another row and
\* never raises IndexError, although the sort keys of the objects may have
\* changed since the row was written (stores/memory.py:77-97).
SearchLands ==
  Found("replace") \/ Found("delete") =>
    low < Len(tasks) /\ tasks[low + 1] = tasks_index[IdOf[call.task]]

\* Every call returns: the binary search ends (stores/memory.py:107-129).
CallReturns == call # NoCall ~> call = NoCall

\* The store implements the abstract one: each write takes effect at once, at
\* its last step, and each query answers with the rows and in the order that
\* the table calls for (stores/memory.py).
Abstract == INSTANCE TaskStore WITH rows <- tasks_index
ImplementsTaskStore == Abstract!TaskStoreSpec
==============================================================================
