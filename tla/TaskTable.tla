------------------------------ MODULE TaskTable ------------------------------
(***************************************************************************)
(* The data every store and the scheduler share: task objects, the ids     *)
(* they carry, the instants they may run at, and the table that a store    *)
(* keeps of them, a row per id.                                            *)
(*                                                                         *)
(* A task object and its id are two things in the code: add_task with      *)
(* replace_existing puts a second object under an id that is in use, and a *)
(* caller may still hold the first.  A row is the pair (task, timestamp)   *)
(* of stores/memory.py: the timestamp is the sort key taken when the row   *)
(* was written, next_run_time is an attribute of the object, and the two   *)
(* may differ for a while.                                                 *)
(***************************************************************************)
EXTENDS Integers, Sequences, FiniteSets

CONSTANTS
  Tasks,   \* task objects (asyncz.tasks.Task)
  Ids,     \* task ids; the order on strings is the order on integers
  IdOf,    \* the id of each object, fixed when the object is made
  Times,   \* instants
  Never,   \* next_run_time = None: a paused task, sorted as float("inf")
  NoRow    \* an id that is not in the store

Stamp == Times \cup {Never}
Row   == [task : Tasks, timestamp : Stamp]

ASSUME TableAssumption ==
  /\ Ids \subseteq Int
  /\ IdOf \in [Tasks -> Ids]
  /\ Times \subseteq Int
  /\ Never \in Int
  /\ \A t \in Times : t < Never
  /\ NoRow \notin Row

NewRow(t, stamp) == [task |-> t, timestamp |-> stamp]

\* The order of a store: by timestamp, then by id.
Before(r, s) ==
  \/ r.timestamp < s.timestamp
  \/ r.timestamp = s.timestamp /\ IdOf[r.task] < IdOf[s.task]

\* A table maps every id to its row or to NoRow.
Table      == [Ids -> Row \cup {NoRow}]
EmptyTable == [id \in Ids |-> NoRow]

Rows(table)         == {table[id] : id \in Ids} \ {NoRow}
Put(table, row)     == [table EXCEPT ![IdOf[row.task]] = row]
Drop(table, id)     == [table EXCEPT ![id] = NoRow]
DueRows(table, now) == {r \in Rows(table) : r.timestamp # Never /\ r.timestamp <= now}

\* s lists the rows of S, each once, in the order of a store.
Lists(s, S) ==
  /\ {s[i] : i \in DOMAIN s} = S
  /\ \A i, j \in DOMAIN s : i < j => Before(s[i], s[j])
==============================================================================
