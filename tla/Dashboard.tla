----------------------------- MODULE Dashboard ------------------------------
(***************************************************************************)
(* Operations of the dashboard on tasks (contrib/dashboard/controllers/    *)
(* tasks.py): single and bulk run, pause, resume and remove, the edit and  *)
(* the creation, each with its entry in the audit trail (audit.py).  The   *)
(* scheduler is in the same process or behind RemoteSchedulerClient and    *)
(* its control app (remote.py), where a call may be refused, or answered   *)
(* too late and carried out all the same.                                  *)
(***************************************************************************)
EXTENDS Sequences, SequencesExt, Naturals

CONSTANTS
  Ids,         \* tasks of the worker
  InMemory,    \* those of them in a memory store
  Requests,    \* HTTP requests, in remote operation of several dashboards
  IdLists,     \* what the forms hold: sequences of ids
  MaxRemovals  \* bound on the tasks that go away by themselves

\* A new task has an id of its own.
ASSUME DashboardAssumption ==
  /\ IdLists \subseteq Seq(Ids)
  /\ Ids \cap Requests = {} /\ InMemory \subseteq Ids
  /\ MaxRemovals \in Nat

VARIABLES
  remote,      \* the dashboard's scheduler is a RemoteSchedulerClient
  table,       \* the worker's tasks: "scheduled", "paused" or "gone"
  requests,    \* the handlers
  calls,       \* of the scheduler: on their way, or run_task half done
  replies,     \* the answers
  audit,       \* MemoryAuditTrailStorage: <<request, id, status>>, none trimmed
  performed,   \* history: the operations carried out
  removals     \* tasks gone by themselves, up to MaxRemovals

board == <<remote, table, requests, calls, replies, audit, performed, removals>>

NoReply == "none"

\* Duplicates go, the first appearance stays.  Whatever the form of the list,
\* its parsing ends in this loop.
Deduplicated(ids) ==
  FoldLeft(LAMBDA found, id : IF id \in ToSet(found) THEN found ELSE Append(found, id), <<>>, ids)

\* A task that a request creates goes by the name of the request.
Handler(action, ids) == [action |-> action, ids |-> ids, pc |-> "form"]
Single == {Handler(a, <<id>>) : a \in {"run", "pause", "resume", "remove"}, id \in Ids}
Bulk   == {Handler(a, Deduplicated(ids)) : a \in {"run", "pause", "resume", "remove"}, ids \in IdLists}
Edit   == {Handler("edit", <<id>>) : id \in Ids}
Create == {Handler("create", <<r>>) : r \in Requests}
BoardStart(handlers) ==
  /\ remote \in BOOLEAN
  /\ table = [id \in Ids \cup Requests |-> IF id \in Ids THEN "scheduled" ELSE "gone"]
  /\ requests = handlers
  /\ calls = {}
  /\ replies = [r \in Requests |-> NoReply]
  /\ audit = {}
  /\ performed = {}
  /\ removals = 0
BoardInit ==
  \E handlers \in [Requests -> Single \cup Bulk \cup Edit \cup Create] :
    /\ \A r \in Requests : handlers[r].action = "create" => handlers[r].ids = <<r>>
    /\ BoardStart(handlers)

-----------------------------------------------------------------------------
(* The worker: the routes of create_remote_scheduler_app and what they call *)

Current(r) == Head(requests[r].ids)
Waiting(c) == requests[c.request].pc = "waiting" /\ Current(c.request) = c.id

\* The worker's answer, an exception by its name; nobody may be waiting for it
\* any more.
Answer(c, reply) ==
  /\ calls' = calls \ {c}
  /\ replies' = IF Waiting(c) THEN [replies EXCEPT ![c.request] = reply] ELSE replies
Carried(c) == performed' = performed \cup {<<c.request, c.id>>}

\* The token is looked at first.
Unauthorized(c) ==
  /\ ~c.begun /\ remote
  /\ Answer(c, "Unauthorized")
  /\ UNCHANGED <<remote, table, requests, audit, performed, removals>>

\* A task that is gone and a run that is not taken change nothing.  Task checks
\* every update before it makes the first, and a new task with a trigger or
\* store of no known name is not made.
Invalid == {"ValueError", "TypeError"}
NotMade == Invalid \cup {"LookupError", "KeyError"}
Errors(c) ==
  CASE c.action = "run"    -> {"MaximumInstancesError", "SchedulerNotRunningError"}
    [] c.action = "edit"   -> Invalid
    [] c.action = "create" -> NotMade
    [] OTHER               -> {}
Refused(c) ==
  /\ ~c.begun
  /\ \E e \in Errors(c) \cup IF c.action # "create" /\ table[c.id] = "gone"
                              THEN {"TaskLookupError"} ELSE {} : Answer(c, e)
  /\ UNCHANGED <<remote, table, requests, audit, performed, removals>>

\* Under store_lock from the lookup on.
Performs(c, row) ==
  /\ ~c.begun
  /\ table' = [table EXCEPT ![c.id] = row]
  /\ Carried(c)
  /\ Answer(c, "ok")
  /\ UNCHANGED <<remote, requests, audit, removals>>
Paused(c)  == c.action = "pause" /\ table[c.id] # "gone" /\ Performs(c, "paused")
\* A task whose trigger has no next time is deleted.
Resumed(c) == c.action = "resume" /\ table[c.id] # "gone"
                /\ \E row \in {"scheduled", "gone"} : Performs(c, row)
Removed(c) == c.action = "remove" /\ table[c.id] # "gone" /\ Performs(c, "gone")
Updated(c) == c.action = "edit" /\ table[c.id] # "gone" /\ Performs(c, table[c.id])
Added(c)   == c.action = "create" /\ Performs(c, "scheduled")

\* run_task sends the task without the lock, and then looks for its row, which
\* may be gone: a task that has been run is not found, or a memory store has it
\* again.  With remove_finished FALSE the task stays, paused after its last run.
Submitted(c) ==
  /\ ~c.begun /\ table[c.id] # "gone" /\ c.action = "run"
  /\ calls' = (calls \ {c}) \cup {[c EXCEPT !.begun = TRUE]}
  /\ Carried(c)
  /\ UNCHANGED <<remote, table, requests, replies, audit, removals>>
Advanced(c) ==
  /\ c.begun
  /\ \/ table[c.id] = "gone" /\ c.id \notin InMemory
        /\ Answer(c, "TaskLookupError") /\ UNCHANGED table
     \/ /\ table[c.id] # "gone" \/ c.id \in InMemory
        /\ Answer(c, "ok")
        /\ \E row \in {"scheduled", "paused"} : table' = [table EXCEPT ![c.id] = row]
  /\ UNCHANGED <<remote, requests, audit, performed, removals>>

Serve ==
  \E c \in calls :
    \/ Unauthorized(c) \/ Refused(c) \/ Submitted(c) \/ Advanced(c)
    \/ Paused(c) \/ Resumed(c) \/ Removed(c) \/ Updated(c) \/ Added(c)

\* A round removes a task whose schedule is over, or a task removes itself.
Gone ==
  \E id \in Ids :
    /\ table[id] = "scheduled" /\ removals < MaxRemovals
    /\ table' = [table EXCEPT ![id] = "gone"]
    /\ removals' = removals + 1
    /\ UNCHANGED <<remote, requests, calls, replies, audit, performed>>

-----------------------------------------------------------------------------
(* The handlers *)

Goes(r, pc) == requests' = [requests EXCEPT ![r].pc = pc]
Entry(r, status) == audit' = audit \cup {<<r, Current(r), status>>}

\* From the form on a handler awaits nothing: in one process the others wait.
Alone == remote \/ \A q \in Requests : requests[q].pc \notin {"ready", "waiting"}

Parsed(r) ==
  /\ requests[r].pc = "form" /\ requests[r].action \notin {"edit", "create"} /\ Alone
  /\ Goes(r, IF requests[r].ids = <<>> THEN "over" ELSE "ready")
  /\ UNCHANGED <<remote, table, calls, replies, audit, performed, removals>>

\* An edit looks its task up before it reads the form; from a remote worker it
\* may not learn anything.
LookedUp(r) ==
  /\ requests[r].pc = "form" /\ requests[r].action = "edit"
  /\ \/ table[Current(r)] # "gone" /\ Goes(r, "looked_up") /\ UNCHANGED audit
     \/ table[Current(r)] = "gone" /\ Goes(r, "over") /\ Entry(r, "failed")
     \/ remote /\ Goes(r, "raised") /\ UNCHANGED audit
  /\ UNCHANGED <<remote, table, calls, replies, performed, removals>>

\* What a form for an edit may hold: fields that cannot be read, or that a copy
\* of the task refuses, or no change, or a change, to be seen or applied.
Unreadable(form) == form = "unreadable"
Unfit(form)      == form = "unfit"
Applies(form)    == form = "apply changes"
EditForms == {"unreadable", "unfit", "apply nothing", "preview", "apply changes"}

\* A preview, and a form that changes nothing, leave no entry; one that is not
\* valid does.
Validated(r) ==
  /\ requests[r].pc = "looked_up" /\ Alone
  /\ \E form \in EditForms :
       IF Unreadable(form) \/ Unfit(form) THEN Goes(r, "over") /\ Entry(r, "failed")
       ELSE Goes(r, IF Applies(form) THEN "ready" ELSE "over") /\ UNCHANGED audit
  /\ UNCHANGED <<remote, table, calls, replies, performed, removals>>

\* Arguments that are no JSON leave the creation by an exception.  Then the
\* callable is imported, by the worker if it is remote, and the trigger parsed.
NotJSON(form)  == form = "not JSON"
NoImport(form) == ~remote /\ form = "no callable"
NoTrigger(form) == form = "no trigger"
CreateForms == {"not JSON", "no callable", "no trigger", "good"}
Imported(r) ==
  /\ requests[r].pc = "form" /\ requests[r].action = "create" /\ Alone
  /\ \E form \in CreateForms :
       IF NotJSON(form) THEN Goes(r, "raised") /\ UNCHANGED audit
       ELSE IF NoImport(form) \/ NoTrigger(form) THEN Goes(r, "over") /\ Entry(r, "failed")
       ELSE Goes(r, "ready") /\ UNCHANGED audit
  /\ UNCHANGED <<remote, table, calls, replies, performed, removals>>

Call(r) == [request |-> r, id |-> Current(r), action |-> requests[r].action, begun |-> FALSE]
Calls(r) ==
  /\ requests[r].pc = "ready"
  /\ calls' = calls \cup {Call(r)}
  /\ Goes(r, "waiting")
  /\ UNCHANGED <<remote, table, replies, audit, performed, removals>>

\* An exception of the worker is raised again if the client knows its name.
Raised(reply) ==
  IF ~remote \/ reply \in {"ok", "TaskLookupError", "SchedulerNotRunningError",
                            "MaximumInstancesError", "ValueError"}
  THEN reply ELSE "RemoteSchedulerError"

\* The exceptions a handler knows become an entry, and a bulk action goes on;
\* any other one leaves it, with the rest neither done nor audited.  A mutant
\* takes a task at its limit for one that has been run.
Unchecked(exception) == IF exception = "TaskLookupError" THEN "failed" ELSE "succeeded"
Status(exception) ==
  CASE exception = "ok"                    -> "succeeded"
    [] exception = "MaximumInstancesError" -> "warning"
    [] exception = "TaskLookupError"       -> "failed"
Handled(action) ==
  {"ok"} \cup CASE action = "run"              -> {"MaximumInstancesError", "TaskLookupError"}
                [] action \in {"edit", "create"} -> {}
                [] OTHER                        -> {"TaskLookupError"}
Receive(r) ==
  /\ requests[r].pc = "waiting" /\ replies[r] # NoReply
  /\ replies' = [replies EXCEPT ![r] = NoReply]
  /\ LET exception == Raised(replies[r])
     IN  \/ /\ exception \in Handled(requests[r].action)
            /\ Entry(r, Status(exception))
            /\ requests' = [requests EXCEPT ![r].pc = IF Len(requests[r].ids) = 1 THEN "over" ELSE "ready",
                                            ![r].ids = Tail(@)]
         \/ exception \notin Handled(requests[r].action) /\ Goes(r, "raised") /\ UNCHANGED audit
  /\ UNCHANGED <<remote, table, calls, performed, removals>>

\* No connection, or no answer in ten seconds: RemoteSchedulerError or
\* TimeoutError.  After the latter the worker may still take up the call.
Unreachable(r) ==
  /\ requests[r].pc = "waiting" /\ remote /\ Call(r) \in calls
  /\ calls' = calls \ {Call(r)}
  /\ Goes(r, "raised")
  /\ UNCHANGED <<remote, table, replies, audit, performed, removals>>
TimeOut(r) ==
  /\ requests[r].pc = "waiting" /\ remote
  /\ Goes(r, "raised")
  /\ replies' = [replies EXCEPT ![r] = NoReply]
  /\ UNCHANGED <<remote, table, calls, audit, performed, removals>>

Handle(r) == \/ Parsed(r) \/ LookedUp(r) \/ Validated(r) \/ Imported(r)
             \/ Calls(r) \/ Receive(r) \/ Unreachable(r) \/ TimeOut(r)
BoardNext == Serve \/ Gone \/ \E r \in Requests : Handle(r)
BoardSpec == BoardInit /\ [][BoardNext]_board

-----------------------------------------------------------------------------
(* Properties *)

\* The audit trail and the worker agree: what is entered as succeeded was
\* carried out, and what is entered otherwise was not, also when the task went
\* away meanwhile or another dashboard was faster, unless it is a run whose
\* task went away, from a store that is not in memory, while it was sent; and what was carried out has an entry,
\* unless its handler still waits or was left by an exception
\* (controllers/tasks.py:262, remote.py:614).
AuditMatchesEffects ==
  /\ \A e \in audit :
       \/ (e[3] = "succeeded") <=> (<<e[1], e[2]>> \in performed)
       \/ e[3] = "failed" /\ requests[e[1]].action = "run" /\ table[e[2]] = "gone" /\ e[2] \notin InMemory
  /\ \A p \in performed :
       \/ \E e \in audit : e[1] = p[1] /\ e[2] = p[2]
       \/ requests[p[1]].pc \in {"waiting", "raised"}
==============================================================================
