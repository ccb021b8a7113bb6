------------------------------ MODULE TaskStore ------------------------------
(***************************************************************************)
(* What a task store promises the scheduler (stores/types.py): a table     *)
(* from ids to rows, changed one operation at a time, whose queries answer *)
(* in the order of run times.                                              *)
(*                                                                         *)
(* stamp is the next_run_time the store read from the object when it was   *)
(* called.  The object is shared with its users, who may set it while the  *)
(* call runs (Scheduler.run_task does), so the stamp is an input here.     *)
(***************************************************************************)
EXTENDS TaskTable

VARIABLES
  rows,            \* the table
  next_run_time,   \* the attribute of each object
  reply            \* what an operation returned or raised, until the caller
                   \* has it; Returned is Python's None, of a write that worked

storeVars == <<rows, next_run_time, reply>>

Reply(kind, list, time) == [kind |-> kind, list |-> list, time |-> time]
Returned == Reply("None", <<>>, Never)
Conflict == Reply("ConflictIdError", <<>>, Never)
Missing  == Reply("TaskLookupError", <<>>, Never)

TaskStoreInit ==
  /\ rows = EmptyTable
  /\ next_run_time \in [Tasks -> Stamp]
  /\ reply = Returned

AddTask(t, stamp) ==
  /\ reply = Returned
  /\ \/ /\ rows[IdOf[t]] = NoRow
        /\ rows' = Put(rows, NewRow(t, stamp))
        /\ UNCHANGED reply
     \/ /\ rows[IdOf[t]] # NoRow
        /\ reply' = Conflict
        /\ UNCHANGED rows
  /\ UNCHANGED next_run_time

\* An update writes the row whether or not the id is there.
UpdateTask(t, stamp) ==
  /\ reply = Returned
  /\ rows' = Put(rows, NewRow(t, stamp))
  /\ UNCHANGED <<next_run_time, reply>>

DeleteTask(id) ==
  /\ reply = Returned
  /\ \/ /\ rows[id] # NoRow
        /\ rows' = Drop(rows, id)
        /\ UNCHANGED reply
     \/ /\ rows[id] = NoRow
        /\ reply' = Missing
        /\ UNCHANGED rows
  /\ UNCHANGED next_run_time

RemoveAllTasks ==
  /\ reply = Returned
  /\ rows' = EmptyTable
  /\ UNCHANGED <<next_run_time, reply>>

GetDueTasks(now) ==
  /\ reply = Returned
  /\ reply'.kind = "due"
  /\ reply'.time = Never
  /\ Lists(reply'.list, DueRows(rows, now))
  /\ UNCHANGED <<rows, next_run_time>>

GetAllTasks ==
  /\ reply = Returned
  /\ reply'.kind = "all"
  /\ reply'.time = Never
  /\ Lists(reply'.list, Rows(rows))
  /\ UNCHANGED <<rows, next_run_time>>

\* The time comes from the object of the first row, not from the row.
GetNextRunTime ==
  /\ reply = Returned
  /\ reply'.kind = "next"
  /\ reply'.list = <<>>
  /\ \/ Rows(rows) = {} /\ reply'.time = Never
     \/ \E r \in Rows(rows) :
          /\ \A s \in Rows(rows) \ {r} : Before(r, s)
          /\ reply'.time = next_run_time[r.task]
  /\ UNCHANGED <<rows, next_run_time>>

\* The caller has the answer, or has handled the exception.
TakeReply ==
  /\ reply # Returned
  /\ reply' = Returned
  /\ UNCHANGED <<rows, next_run_time>>

\* A user of an object sets its next_run_time; the table does not change.
SetNextRunTime(t, stamp) ==
  /\ next_run_time' = [next_run_time EXCEPT ![t] = stamp]
  /\ UNCHANGED <<rows, reply>>

TaskStoreNext ==
  \/ \E t \in Tasks, stamp \in Stamp :
       AddTask(t, stamp) \/ UpdateTask(t, stamp) \/ SetNextRunTime(t, stamp)
  \/ \E id \in Ids : DeleteTask(id)
  \/ \E now \in Times : GetDueTasks(now)
  \/ RemoveAllTasks \/ GetAllTasks \/ GetNextRunTime \/ TakeReply

TaskStoreSpec == TaskStoreInit /\ [][TaskStoreNext]_storeVars
==============================================================================
