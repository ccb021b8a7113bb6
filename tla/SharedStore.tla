----------------------------- MODULE SharedStore -----------------------------
(***************************************************************************)
(* Schedulers of several processes that share one persistent store: a      *)
(* directory (stores/file.py), a Redis server, a MongoDB collection or an  *)
(* SQL table.  A step is one command to the backend, so that commands of   *)
(* different processes interleave.  Within a process store_lock makes the  *)
(* calls and the rounds take turns; among processes the rounds, and only   *)
(* the rounds, exclude each other by the lock file of lock_path.           *)
(*                                                                         *)
(* A stored task is its next run time.  A process may be unable to rebuild *)
(* a task that another one stored, when it cannot import its function.     *)
(***************************************************************************)
EXTENDS Integers, FiniteSets

CONSTANTS
  Procs,       \* processes, one scheduler each
  Ids,         \* task ids
  Times,       \* instants, and the run times of every task: one per instant
  Paused,      \* next_run_time = None
  NoRow,       \* nothing is stored under the id
  Empty,       \* a file without contents
  NoProc,      \* nobody holds the lock file
  Keep,        \* an update that leaves next_run_time alone
  Strangers,   \* processes that may be without the functions of the tasks
  LockPath,    \* the schedulers are configured with lock_path
  UserTimes,   \* bound: the run times that users choose
  MaxCalls,    \* bound: calls of the API
  MaxDowns     \* bound: shutdowns and crashes

Stamp == Times \cup {Paused}
Cell  == Stamp \cup {NoRow, Empty}

ASSUME SharedStoreAssumption ==
  /\ Times = 1..Cardinality(Times) /\ Cardinality(Times) \in Nat
  /\ Paused \notin {NoRow, Empty, Keep} /\ NoRow \notin {Empty, Keep} /\ Empty # Keep
  /\ {Paused, NoRow, Empty, Keep} \cap Times = {}
  /\ NoProc \notin Procs
  /\ Strangers \subseteq Procs
  /\ LockPath \in BOOLEAN /\ UserTimes \subseteq Stamp
  /\ MaxCalls \in Nat /\ MaxDowns \in Nat

VARIABLES
  backend,     \* the kind of store, and whether it is a file store that
  cleanup,     \* removes its directory at shutdown, and
  strangers,   \* the processes that cannot rebuild a task: fixed in Init
  cells,       \* what is stored under each id
  scores,      \* redis: the sorted set of run times
  directory,   \* file: the directory exists
  now,         \* the clock; 0 is before every run time
  up,          \* the processes whose scheduler is started
  armed,       \* those of them that will start another round
  op,          \* the call of a store that a process is in
  round,       \* the tasks its round has still to process
  holder,      \* who holds the lock file
  orphans,     \* who holds a lock on a lock file that was removed
  excused,     \* history: the ids for which something other than rounds
               \* that overlap explains a second run; of the others,
  ran,         \* the run times submitted since a user chose the schedule,
  twice,       \* and the ids of which a run time was submitted twice
  winners,     \* history: who added the task that is stored under an id
  calls, downs

stored  == <<cells, scores, directory>>
history == <<ran, twice, excused, winners>>
locking == <<holder, orphans>>
control == <<up, armed, round>>
fixed   == <<backend, cleanup, strangers>>
bounds  == <<calls, downs>>
vars    == <<fixed, stored, now, control, op, locking, history, bounds>>

-----------------------------------------------------------------------------
(* The calls of a store.  by tells who chose the run time that is written: *)
(* the user, a copy of the row that was looked up, or the round.           *)

Idle == [do |-> "idle"]
Write(do, id, time, by, stage) ==
  [do |-> do, id |-> id, time |-> time, by |-> by, stage |-> stage]
NothingRead == [id \in Ids |-> NoRow]
Read(do, ids, then) ==
  [do |-> do, ids |-> ids, then |-> then, stage |-> "list",
   got |-> NothingRead, bad |-> {}]

WriteOp == [do : {"add", "replace", "update", "delete"}, id : Ids, time : Stamp,
            by : {"user", "copy", "round"},
            stage : {"begin", "checked", "opened", "unlinked"}]
ReadOp  == [do : {"lookup", "all", "due", "next", "clear", "stop"}, ids : SUBSET Ids,
            then : Stamp \cup {Keep}, stage : {"list", "read"},
            got : [Ids -> Stamp \cup {NoRow}], bad : SUBSET Ids]
LockOp  == [do : {"lock"}, at : Times \cup {0}, stage : {"opened", "unlinked"}]
NoRound == [at |-> -1, tasks |-> NothingRead]

TypeOK ==
  /\ backend \in {"file", "redis", "mongo", "sqlalchemy"} /\ cleanup \in BOOLEAN
  /\ strangers \subseteq Procs
  /\ cells \in [Ids -> Cell]
  /\ \A id \in Ids : cells[id] = Empty => backend = "file"
  /\ scores \in [Ids -> Times \cup {Paused}]
  /\ directory \in BOOLEAN
  /\ now \in Times \cup {0}
  /\ armed \subseteq up /\ up \subseteq Procs
  /\ op \in [Procs -> WriteOp \cup ReadOp \cup LockOp \cup {Idle}]
  /\ round \in [Procs -> [at : Times \cup {0, -1}, tasks : [Ids -> Stamp \cup {NoRow}]]]
  /\ holder \in Procs \cup {NoProc} /\ orphans \subseteq Procs
  /\ ran \in [Ids -> SUBSET Times] /\ twice \subseteq Ids /\ excused \subseteq Ids
  /\ winners \in [Ids -> SUBSET Procs]
  /\ calls \in 0..MaxCalls /\ downs \in 0..MaxDowns

Init ==
  /\ backend \in {"file", "redis", "mongo", "sqlalchemy"}
  /\ cleanup \in {FALSE, backend = "file"}
  /\ strangers \in {{}, Strangers}
  /\ cells = [id \in Ids |-> NoRow]
  /\ scores = [id \in Ids |-> Paused]
  /\ directory = TRUE
  /\ now = 0
  /\ up = Procs /\ armed = Procs
  /\ op = [p \in Procs |-> Idle]
  /\ round = [p \in Procs |-> NoRound]
  /\ holder = NoProc /\ orphans = {}
  /\ ran = [id \in Ids |-> {}] /\ twice = {} /\ excused = {}
  /\ winners = [id \in Ids |-> {}]
  /\ calls = 0 /\ downs = 0

InRound(p) == round[p].at # -1

\* A process leaves its round, by whatever way, and gives the lock file back.
Release(p) ==
  /\ round' = [round EXCEPT ![p] = NoRound]
  /\ holder' = IF holder = p THEN NoProc ELSE holder
  /\ orphans' = orphans \ {p}

-----------------------------------------------------------------------------
(* How a call changes the store and ends *)

\* A write that has landed.
Land(p, time) ==
  LET w == op[p]
  IN /\ cells' = [cells EXCEPT ![w.id] = time]
     /\ ran' = IF w.by = "user" THEN [ran EXCEPT ![w.id] = {}] ELSE ran
     /\ winners' = IF w.do \in {"add", "replace"}
                   THEN [winners EXCEPT ![w.id] = @ \cup {p}] ELSE winners
     /\ armed' = IF w.by = "user" THEN armed \cup {p} ELSE armed
     /\ UNCHANGED <<directory, now, up, round, locking, twice, fixed, bounds>>

\* A copy that is written over another row brings an earlier run time back.
Excuse(ids) == excused' = excused \cup ids
StaleCopy(w, expected) == IF w.by = "copy" /\ cells[w.id] # expected THEN {w.id} ELSE {}

\* The rows of these ids are gone; who has one of their files open for
\* writing writes to a file without a name.
Gone(ids, ops) ==
  /\ cells' = [id \in Ids |-> IF id \in ids THEN NoRow ELSE cells[id]]
  /\ winners' = [id \in Ids |-> IF id \in ids THEN {} ELSE winners[id]]
  /\ op' = [p \in Procs |->
              IF ops[p].do \in {"add", "replace", "update"} /\ ops[p].stage = "opened"
                 /\ ops[p].id \in ids
              THEN [ops[p] EXCEPT !.stage = "unlinked"] ELSE ops[p]]
  /\ UNCHANGED <<now, up, armed, round, locking, ran, twice, excused, fixed, bounds>>

Becomes(p, call) == op' = [op EXCEPT ![p] = call]
Done(p) == Becomes(p, Idle)

\* An exception.  Out of a round it is one that process_tasks lets through:
\* the lock file is given back, and nobody arms the timer.
Raise(p) ==
  /\ Done(p)
  /\ IF InRound(p)
     THEN Release(p) /\ armed' = armed \ {p}
     ELSE UNCHANGED <<locking, round, armed>>
  /\ UNCHANGED <<stored, now, up, history, fixed, bounds>>

\* ConflictIdError: with replace_existing real_add_task updates instead.
Conflict(p) ==
  IF op[p].do = "replace"
  THEN /\ Becomes(p, [op[p] EXCEPT !.do = "update", !.stage = "begin"])
       /\ UNCHANGED <<stored, now, control, locking, history, fixed, bounds>>
  ELSE Raise(p)

Adds(p)    == op[p].do \in {"add", "replace"}
Updates(p) == op[p].do = "update"
Deletes(p) == op[p].do = "delete"
Writes(p)  == Adds(p) \/ Updates(p) \/ Deletes(p)
Stored(id) == cells[id] # NoRow

-----------------------------------------------------------------------------
(* MongoDB and SQL: a write is one command, that tells whether it applied *)

InsertOne(p) ==
  \/ ~Stored(op[p].id) /\ Land(p, op[p].time) /\ Done(p) /\ UNCHANGED <<scores, excused>>
  \/ Stored(op[p].id) /\ Conflict(p)
UpdateMatching(p) ==
  \/ /\ Stored(op[p].id)
     /\ Land(p, op[p].time)
     /\ Excuse(StaleCopy(op[p], op[p].time))
     /\ Done(p) /\ UNCHANGED scores
  \/ ~Stored(op[p].id) /\ Raise(p)
DeleteMatching(p) ==
  \/ /\ Stored(op[p].id)
     /\ Gone({op[p].id}, [op EXCEPT ![p] = Idle])
     /\ UNCHANGED <<scores, directory>>
  \/ ~Stored(op[p].id) /\ Raise(p)

MongoWrite(p) ==
  /\ backend = "mongo"
  /\ \/ Adds(p) /\ InsertOne(p)
     \/ Updates(p) /\ UpdateMatching(p)
     \/ Deletes(p) /\ DeleteMatching(p)

\* A mutant inserts without the primary key.
SqlWriteNoKey(p) ==
  /\ backend = "sqlalchemy"
  /\ \/ Adds(p) /\ Land(p, op[p].time) /\ Done(p) /\ UNCHANGED <<scores, excused>>
     \/ Updates(p) /\ UpdateMatching(p)
     \/ Deletes(p) /\ DeleteMatching(p)
SqlWrite(p) ==
  /\ backend = "sqlalchemy"
  /\ \/ Adds(p) /\ InsertOne(p)
     \/ Updates(p) /\ UpdateMatching(p)
     \/ Deletes(p) /\ DeleteMatching(p)

-----------------------------------------------------------------------------
(* Redis: a write asks for the id first, and acts in a second command *)

RedisExists(p) ==
  /\ Writes(p) /\ op[p].stage = "begin"
  /\ \/ /\ Adds(p) = ~Stored(op[p].id)
        /\ Becomes(p, [op[p] EXCEPT !.stage = "checked"])
        /\ UNCHANGED <<stored, now, control, locking, history, fixed, bounds>>
     \/ Adds(p) /\ Stored(op[p].id) /\ Conflict(p)
     \/ ~Adds(p) /\ ~Stored(op[p].id) /\ Raise(p)

\* The pipelines.  add leaves the sorted set alone when the task is paused.
RedisAdd(p) ==
  /\ Adds(p) /\ op[p].stage = "checked"
  /\ Land(p, op[p].time)
  /\ scores' = IF op[p].time = Paused THEN scores
               ELSE [scores EXCEPT ![op[p].id] = op[p].time]
  /\ Done(p) /\ UNCHANGED excused
\* A mutant forgets zadd, and zrem with it.
RedisUpdateStateOnly(p) ==
  /\ Updates(p) /\ op[p].stage = "checked"
  /\ Land(p, op[p].time)
  /\ Excuse(StaleCopy(op[p], op[p].time))
  /\ Done(p) /\ UNCHANGED scores
RedisUpdate(p) ==
  /\ Updates(p) /\ op[p].stage = "checked"
  /\ Land(p, op[p].time)
  /\ scores' = [scores EXCEPT ![op[p].id] = op[p].time]
  /\ Excuse(StaleCopy(op[p], op[p].time))
  /\ Done(p)
RedisDelete(p) ==
  /\ Deletes(p) /\ op[p].stage = "checked"
  /\ Gone({op[p].id}, [op EXCEPT ![p] = Idle])
  /\ scores' = [scores EXCEPT ![op[p].id] = Paused]
  /\ UNCHANGED directory

RedisWrite(p) ==
  /\ backend = "redis"
  /\ RedisExists(p) \/ RedisAdd(p) \/ RedisUpdate(p) \/ RedisDelete(p)

-----------------------------------------------------------------------------
(* Files: an add makes the file and an update truncates it, under the lock *)
(* of the file; the contents are flushed when the file is closed, after    *)
(* the lock is given back.                                                 *)

FileTruncate(p) ==
  /\ cells' = [cells EXCEPT ![op[p].id] = Empty]
  /\ Becomes(p, [op[p] EXCEPT !.stage = "opened"])
  /\ UNCHANGED <<scores, directory, now, control, locking, ran, twice, fixed, bounds>>

FileAdd(p) ==
  /\ Adds(p) /\ op[p].stage = "begin"
  /\ \/ directory /\ ~Stored(op[p].id) /\ FileTruncate(p) /\ UNCHANGED <<excused, winners>>
     \/ Stored(op[p].id) /\ Conflict(p)
     \/ ~directory /\ Raise(p)
\* A file that has been written since a copy opened it is empty again, and the
\* copy no longer to be told from one that still fits.
OpenCopy(q, id) ==
  op[q].do = "update" /\ op[q].by = "copy" /\ op[q].stage = "opened" /\ op[q].id = id
Hidden(id) == IF cells[id] # Empty /\ \E q \in Procs : OpenCopy(q, id) THEN {id} ELSE {}

FileUpdate(p) ==
  /\ Updates(p) /\ op[p].stage = "begin"
  /\ \/ /\ Stored(op[p].id)
        /\ FileTruncate(p)
        /\ Excuse(StaleCopy(op[p], op[p].time) \cup Hidden(op[p].id)) /\ UNCHANGED winners
     \/ ~Stored(op[p].id) /\ Raise(p)
FileFlush(p) ==
  /\ op[p].do \in {"add", "replace", "update"}
  /\ \/ /\ op[p].stage = "opened"
        /\ Land(p, op[p].time)
        /\ Excuse(StaleCopy(op[p], Empty)) /\ UNCHANGED scores
        /\ Done(p)
     \/ /\ op[p].stage = "unlinked"
        /\ Done(p)
        /\ UNCHANGED <<stored, now, control, locking, history, fixed, bounds>>
FileDelete(p) == Deletes(p) /\ DeleteMatching(p)

FileWrite(p) ==
  /\ backend = "file"
  /\ FileAdd(p) \/ FileUpdate(p) \/ FileFlush(p) \/ FileDelete(p)

-----------------------------------------------------------------------------
(* Queries: they list ids, read the rows and remove those that cannot be   *)
(* rebuilt.  Redis reads the due rows in a second command; files are read  *)
(* one at a time; everything else is one command.                          *)

CanRebuild(p, id) == cells[id] \in Stamp /\ p \notin strangers
DueCell(c, at)    == c \in Times /\ c <= at

\* at is the time of the round, for a query of due tasks.
Selected(r, at) ==
  CASE r.do = "lookup" -> IF backend = "file" THEN r.ids ELSE {id \in r.ids : Stored(id)}
    [] r.do = "due" /\ backend = "redis" -> {id \in Ids : DueCell(scores[id], at)}
    [] r.do = "due" /\ backend # "file"  -> {id \in Ids : DueCell(cells[id], at)}
    [] OTHER -> {id \in Ids : Stored(id)}

\* Redis and MongoDB let the error of a lookup out and remove nothing.
Removes(r) == r.do # "lookup" \/ backend \in {"file", "sqlalchemy"}

ReadRows(p, ids) ==
  LET good == {id \in ids : CanRebuild(p, id)}
  IN Becomes(p, [op[p] EXCEPT
       !.stage = "read", !.ids = {},
       !.got = [id \in Ids |-> IF id \in good THEN cells[id] ELSE NoRow],
       !.bad = IF Removes(op[p]) THEN ids \ good ELSE {}])

Queries(p) == op[p].do \in {"lookup", "all", "stop", "due"} /\ op[p].stage = "list"
ListIds(p) == Becomes(p, [op[p] EXCEPT !.stage = "read", !.ids = Selected(op[p], round[p].at)])

MongoQuery(p) ==
  /\ backend = "mongo" /\ Queries(p)
  /\ ReadRows(p, Selected(op[p], round[p].at))
  /\ UNCHANGED <<stored, now, control, locking, history, fixed, bounds>>
SqlQuery(p) ==
  /\ backend = "sqlalchemy" /\ Queries(p)
  /\ ReadRows(p, Selected(op[p], round[p].at))
  /\ UNCHANGED <<stored, now, control, locking, history, fixed, bounds>>
RedisQuery(p) ==
  /\ backend = "redis" /\ Queries(p)
  /\ IF op[p].do = "due" THEN ListIds(p) ELSE ReadRows(p, Selected(op[p], round[p].at))
  /\ UNCHANGED <<stored, now, control, locking, history, fixed, bounds>>
FileList(p) ==
  /\ backend = "file" /\ Queries(p)
  /\ directory \/ op[p].do = "lookup"
  /\ ListIds(p)
  /\ UNCHANGED <<stored, now, control, locking, history, fixed, bounds>>

RedisGetDue(p) ==
  /\ backend = "redis"
  /\ op[p].do = "due" /\ op[p].stage = "read" /\ op[p].ids # {}
  /\ ReadRows(p, op[p].ids)
  /\ UNCHANGED <<stored, now, control, locking, history, fixed, bounds>>

\* get_next_run_time of a file store reads all files again.
FileQueryNext(p) ==
  /\ op[p].do = "next" /\ op[p].stage = "list" /\ directory
  /\ ListIds(p)
  /\ UNCHANGED <<stored, now, control, locking, history, fixed, bounds>>

\* scandir of a directory that is gone: _process_tasks_of_store catches it
\* for get_due_tasks, and only there.  A shutdown that fails so has not come to
\* the timer: its rounds go on.
FileNoDirectory(p) ==
  /\ backend = "file" /\ ~directory
  /\ op[p].do \in {"all", "stop", "due", "next"} /\ op[p].stage = "list"
  /\ IF op[p].do = "due"
     THEN /\ Done(p) /\ Release(p)
          /\ UNCHANGED <<stored, now, up, armed, history, fixed, bounds>>
     ELSE Raise(p)

FileRead(p) ==
  /\ backend = "file"
  /\ op[p].do \in {"lookup", "all", "stop", "due", "next"} /\ op[p].stage = "read" /\ op[p].bad = {}
  /\ \E id \in op[p].ids :
       Becomes(p, IF CanRebuild(p, id)
                  THEN [op[p] EXCEPT !.ids = @ \ {id}, !.got[id] = cells[id]]
                  ELSE [op[p] EXCEPT !.ids = @ \ {id}, !.bad = {id}])
  /\ UNCHANGED <<stored, now, control, locking, history, fixed, bounds>>

\* What could not be rebuilt is removed by its id, whatever is there by now.
RemoveBad(p) ==
  /\ op[p].do \in {"lookup", "all", "stop", "due", "next"} /\ op[p].bad # {}
  /\ Gone(op[p].bad, [op EXCEPT ![p].bad = {}])
  /\ scores' = [id \in Ids |-> IF id \in op[p].bad THEN Paused ELSE scores[id]]
  /\ UNCHANGED directory

\* remove_all_tasks: one command, or one unlink after the other.
RemoveAll(p) ==
  /\ op[p].do = "clear"
  /\ \/ /\ backend # "file"
        /\ Gone(Ids, [op EXCEPT ![p] = Idle])
        /\ scores' = [id \in Ids |-> Paused] /\ UNCHANGED directory
     \/ /\ backend = "file" /\ op[p].stage = "list"
        /\ Becomes(p, [op[p] EXCEPT !.stage = "read", !.ids = {id \in Ids : Stored(id)}])
        /\ UNCHANGED <<stored, now, control, locking, history, fixed, bounds>>
     \/ /\ backend = "file" /\ op[p].stage = "read" /\ op[p].ids = {}
        /\ Done(p) /\ UNCHANGED <<stored, now, control, locking, history, fixed, bounds>>
     \/ /\ backend = "file" /\ op[p].stage = "read"
        /\ \E id \in op[p].ids : Gone({id}, [op EXCEPT ![p].ids = @ \ {id}])
        /\ UNCHANGED <<scores, directory>>

-----------------------------------------------------------------------------
(* The caller has the rows *)

RowsRead(p, do) ==
  /\ op[p].do = do /\ op[p].stage = "read" /\ op[p].bad = {} /\ op[p].ids = {}

\* update_task, pause_task and reschedule_task change the copy and write it.
LookedUp(p) ==
  /\ RowsRead(p, "lookup")
  /\ \E id \in Ids :
       /\ op[p].got[id] # NoRow
       /\ Becomes(p, IF op[p].then = Keep
                     THEN Write("update", id, op[p].got[id], "copy", "begin")
                     ELSE Write("update", id, op[p].then, "user", "begin"))
  /\ UNCHANGED <<stored, now, control, locking, history, fixed, bounds>>
NotFound(p) == RowsRead(p, "lookup") /\ op[p].got = NothingRead /\ Raise(p)

Listed(p) ==
  /\ RowsRead(p, "all")
  /\ Done(p)
  /\ UNCHANGED <<stored, now, control, locking, history, fixed, bounds>>

DueTasks(p) ==
  /\ RowsRead(p, "due")
  /\ Done(p)
  /\ round' = [round EXCEPT ![p].tasks =
       [id \in Ids |-> IF backend # "file" \/ DueCell(op[p].got[id], round[p].at)
                       THEN op[p].got[id] ELSE NoRow]]
  /\ UNCHANGED <<stored, now, up, armed, locking, history, fixed, bounds>>

NextRead(p) ==
  /\ RowsRead(p, "next")
  /\ Done(p) /\ Release(p)
  /\ UNCHANGED <<stored, now, up, armed, history, fixed, bounds>>

-----------------------------------------------------------------------------
(* Rounds *)

Ready(p) == p \in up /\ op[p] = Idle

\* A mutant ignores the lock.
NullLock(p) == TRUE
LockFree(p) == ~LockPath \/ holder = NoProc

\* process_tasks reads the clock and opens the lock file, which makes it when
\* it is not there; flock comes after that.
RoundStart(p) ==
  /\ Ready(p) /\ p \in armed /\ ~InRound(p)
  /\ Becomes(p, [do |-> "lock", at |-> now, stage |-> "opened"])
  /\ UNCHANGED <<stored, now, control, locking, history, fixed, bounds>>

\* The lock is free, or taken, and the round comes back after
\* store_retry_interval.  The lock of a file that was removed since it was
\* opened keeps nobody out but those who had opened it too.
Enters(p) ==
  /\ round' = [round EXCEPT ![p].at = op[p].at]
  /\ Becomes(p, Read("due", {}, Keep))
RoundLock(p) ==
  /\ op[p].do = "lock"
  /\ \/ /\ op[p].stage = "opened" /\ LockFree(p)
        /\ holder' = IF LockPath THEN p ELSE holder
        /\ Enters(p) /\ UNCHANGED orphans
     \/ /\ op[p].stage = "unlinked"
        /\ orphans' = orphans \cup {p}
        /\ Enters(p) /\ UNCHANGED holder
     \/ /\ IF op[p].stage = "opened" THEN ~LockFree(p) ELSE orphans # {}
        /\ Done(p) /\ UNCHANGED <<locking, round>>
  /\ UNCHANGED <<stored, now, up, armed, history, fixed, bounds>>

RunTimes(time, at) == IF time = Paused THEN {} ELSE {t \in Times : time <= t /\ t <= at}

\* One due task: its runs are submitted, unless the executor refuses them, and
\* its row is advanced, or removed when there are no further runs.
Submit(p) ==
  /\ Ready(p) /\ InRound(p)
  /\ \E id \in Ids, accepted \in BOOLEAN :
       LET r == round[p]
           runs == RunTimes(r.tasks[id], r.at)
           next == r.at + 1
       IN /\ r.tasks[id] # NoRow
          /\ round' = [round EXCEPT ![p].tasks[id] = NoRow]
          /\ IF runs = {} \/ ~accepted \/ id \in excused THEN UNCHANGED <<ran, twice>>
             ELSE /\ ran' = [ran EXCEPT ![id] = @ \cup runs]
                  /\ twice' = IF ran[id] \cap runs # {} THEN twice \cup {id} ELSE twice
          /\ IF runs = {} THEN UNCHANGED op
             ELSE Becomes(p, IF next \in Times
                             THEN Write("update", id, next, "round", "begin")
                             ELSE Write("delete", id, Paused, "round", "begin"))
  /\ UNCHANGED <<stored, now, up, armed, locking, excused, winners, fixed, bounds>>

RoundEnd(p) ==
  /\ Ready(p) /\ InRound(p) /\ round[p].tasks = NothingRead
  /\ IF backend = "file"
     THEN Becomes(p, Read("next", {}, Keep)) /\ UNCHANGED <<locking, round>>
     ELSE Release(p) /\ UNCHANGED op
  /\ UNCHANGED <<stored, now, up, armed, history, fixed, bounds>>

-----------------------------------------------------------------------------
(* Calls of the API, and the life of the processes *)

Call(p, call) ==
  /\ Ready(p) /\ ~InRound(p) /\ calls < MaxCalls
  /\ calls' = calls + 1
  /\ Becomes(p, call)
  /\ UNCHANGED <<stored, now, control, locking, history, fixed, downs>>

add_task(p, id, time, do)  == Call(p, Write(do, id, time, "user", "begin"))
update_task(p, id, then)   == Call(p, Read("lookup", {id}, then))
delete_task(p, id)         == Call(p, Write("delete", id, Paused, "user", "begin"))
get_tasks(p)               == Call(p, Read("all", {}, Keep))
remove_all_tasks(p)        == Call(p, Read("clear", {}, Keep))

\* The timer stops with the scheduler.  In a mutant it does not.
LateTimer(p) == up' = up \ {p} /\ UNCHANGED armed
Stops(p)     == up' = up \ {p} /\ armed' = armed \ {p}

\* A shutdown holds store_lock: it reads the tasks, to run those of the
\* shutdown trigger, and then the stores go down.  The directory goes with all
\* that is in it, and the lock file is removed, whoever holds it or has opened
\* it to do so.
shutdown(p) ==
  /\ Ready(p) /\ ~InRound(p) /\ downs < MaxDowns
  /\ downs' = downs + 1
  /\ Becomes(p, Read("stop", {}, Keep))
  /\ UNCHANGED <<stored, now, control, locking, history, fixed, calls>>

RemoveDirectory ==
  /\ directory' = FALSE
  /\ cells' = [id \in Ids |-> NoRow]
  /\ winners' = [id \in Ids |-> {}]
Opening == {q \in Procs : op[q].do = "lock"}
RemoveLockFile ==
  IF LockPath /\ (holder # NoProc \/ Opening # {})
  THEN holder' = NoProc /\ orphans' = orphans \cup ({holder} \cap Procs) /\ Excuse(Ids)
  ELSE UNCHANGED <<locking, excused>>
HasOpen(q) == \/ cleanup /\ op[q].do \in {"add", "replace", "update"} /\ op[q].stage = "opened"
              \/ LockPath /\ op[q].do = "lock"
StoresDown(p) ==
  /\ RowsRead(p, "stop")
  /\ Stops(p)
  /\ IF cleanup THEN RemoveDirectory ELSE UNCHANGED <<cells, directory, winners>>
  /\ RemoveLockFile
  /\ op' = [q \in Procs |-> IF q = p THEN Idle
                            ELSE IF HasOpen(q) THEN [op[q] EXCEPT !.stage = "unlinked"] ELSE op[q]]
  /\ UNCHANGED <<scores, now, round, ran, twice, fixed, bounds>>

\* The kernel gives back what a dead process had locked.  A mutant does not.
CrashKeepsLock(p) == round' = [round EXCEPT ![p] = NoRound] /\ UNCHANGED locking
CrashLock(p)      == Release(p)

crash(p) ==
  /\ p \in up /\ downs < MaxDowns
  /\ downs' = downs + 1
  /\ Stops(p)
  /\ Done(p)
  /\ Excuse(IF op[p].do \in {"update", "delete"} /\ op[p].by = "round" THEN {op[p].id} ELSE {})
  /\ CrashLock(p)
  /\ UNCHANGED <<stored, now, ran, twice, winners, fixed, calls>>

start(p) ==
  /\ p \notin up
  /\ up' = up \cup {p} /\ armed' = armed \cup {p}
  /\ directory' = TRUE
  /\ UNCHANGED <<cells, scores, now, op, round, locking, history, fixed, bounds>>

Tick ==
  /\ now + 1 \in Times
  /\ now' = now + 1
  /\ UNCHANGED <<stored, control, op, locking, history, fixed, bounds>>

StoreStep(p) ==
  \/ MongoWrite(p) \/ SqlWrite(p) \/ RedisWrite(p) \/ FileWrite(p)
  \/ MongoQuery(p) \/ SqlQuery(p) \/ RedisQuery(p) \/ RedisGetDue(p)
  \/ FileList(p) \/ FileQueryNext(p) \/ FileNoDirectory(p) \/ FileRead(p)
  \/ RemoveBad(p) \/ RemoveAll(p)
  \/ LookedUp(p) \/ NotFound(p) \/ Listed(p) \/ DueTasks(p) \/ NextRead(p)
  \/ StoresDown(p)
RoundStep(p) == RoundStart(p) \/ RoundLock(p) \/ Submit(p) \/ RoundEnd(p)

Next ==
  \/ \E p \in Procs :
       \/ StoreStep(p) \/ RoundStep(p)
       \/ \E id \in Ids : delete_task(p, id)
       \/ \E id \in Ids, time \in UserTimes, do \in {"add", "replace"} : add_task(p, id, time, do)
       \/ \E id \in Ids, then \in UserTimes \cup {Keep} : update_task(p, id, then)
       \/ get_tasks(p) \/ remove_all_tasks(p)
       \/ shutdown(p) \/ crash(p) \/ start(p)
  \/ Tick

\* A process goes on with its call, and starts a round again and again: with
\* lock_path process_tasks always asks for another wakeup.
Fairness == \A p \in Procs : WF_vars(StoreStep(p)) /\ WF_vars(RoundStep(p))
Spec     == Init /\ [][Next]_vars
FairSpec == Spec /\ Fairness

-----------------------------------------------------------------------------
(* Properties *)

\* add_task is exclusive (stores/file.py:141, mongo.py:116, sqlalchemy.py:137):
\* of the processes that add one id, one has added the task that is stored,
\* through truncated files, readers that remove them and crashes.  Redis tests
\* for the id in a command of its own and gives no such promise (redis.py:110).
OneWinner == backend = "redis" \/ \A id \in Ids : Cardinality(winners[id]) <= 1

\* Rounds of different processes submit no run time twice (base.py:1569): when
\* it does happen a process died between submitting and advancing the task, a
\* copy of an older row was written back by update_task, or a shutdown removed
\* the lock file that a round had locked, or opened to lock it.
SubmittedOnce == LockPath => twice = {}

\* The sorted set of redis knows the run time of every scheduled task
\* (redis.py:123, 143), so that get_due_tasks finds it, and no task that is
\* not stored, whatever pipelines interleave.
IndexComplete ==
  backend = "redis" => \A id \in Ids :
    /\ cells[id] \in Times => scores[id] = cells[id]
    /\ cells[id] = NoRow => scores[id] = Paused

\* A due task is run, moved or removed, or no process is left to do it: the
\* lock of a process that dies does not hold up the others, and a round that
\* found the lock taken comes back (base.py:1570).
DueIsServed ==
  \A id \in Ids : (DueCell(cells[id], now) ~> (~DueCell(cells[id], now) \/ armed = {}))
==============================================================================
