-------------------------- MODULE SharedStoreProofs --------------------------
(***************************************************************************)
(* What SharedStore promises, for any number of processes, ids, instants,  *)
(* calls and crashes:                                                      *)
(*   SharedStoreTypes     what rows, calls, rounds and locks may be;       *)
(*   SortedSetIsComplete  the sorted set of redis;                         *)
(*   OneProcessAdds       an add that succeeded is the only one;           *)
(*   RoundsSubmitOnce     rounds of several processes run nothing twice.   *)
(* The first part says what every call leaves of the types; the second     *)
(* sorts the steps by what they do to the rows (Effects), so that each of  *)
(* the later invariants is shown for a few kinds of steps.                 *)
(***************************************************************************)
EXTENDS SharedStore, FiniteSetTheorems, TLAPS

\* A process that is in a call is up.
Ops == WriteOp \cup ReadOp \cup LockOp \cup {Idle}

Rounds == [at : Times \cup {0, -1}, tasks : [Ids -> Stamp \cup {NoRow}]]

Busy == \A p \in Procs : op[p] # Idle => p \in up
Typed == TypeOK /\ Busy

LEMMA ConstantFacts ==
  /\ Paused # NoRow /\ Paused # Empty /\ Paused # Keep
  /\ NoRow # Empty /\ NoRow # Keep /\ Empty # Keep
  /\ {Paused, NoRow, Empty, Keep} \cap Times = {}
  /\ Times \subseteq Nat /\ -1 \notin Times /\ 0 \notin Times
BY SharedStoreAssumption

\* What kind of record a call is, by what it does.
LEMMA Kinds ==
  ASSUME TypeOK, NEW p \in Procs
  PROVE  /\ op[p] \in Ops
         /\ Writes(p) <=> op[p] \in WriteOp
         /\ op[p] \in WriteOp => op[p].do \in {"add", "replace", "update", "delete"}
         /\ op[p] \in ReadOp => op[p].do \in {"lookup", "all", "due", "next", "clear", "stop"}
         /\ op[p].do \in {"add", "replace", "update", "delete"} => op[p] \in WriteOp
         /\ op[p].do \in {"lookup", "all", "due", "next", "clear", "stop"} => op[p] \in ReadOp
         /\ op[p].do = "lock" <=> op[p] \in LockOp
         /\ op[p] = Idle => op[p].do = "idle"
BY DEF TypeOK, Ops, WriteOp, ReadOp, LockOp, Idle, Writes, Adds, Updates, Deletes

LEMMA Staged ==
  ASSUME NEW w \in WriteOp, NEW s \in {"begin", "checked", "opened", "unlinked"}
  PROVE  [w EXCEPT !.stage = s] \in WriteOp
BY DEF WriteOp

LEMMA ReadType ==
  ASSUME NEW do \in {"lookup", "all", "due", "next", "clear", "stop"}, NEW ids \in SUBSET Ids,
         NEW then \in Stamp \cup {Keep}
  PROVE  /\ Read(do, ids, then) \in ReadOp /\ Read(do, ids, then) \notin WriteOp
         /\ Read(do, ids, then).do = do /\ Read(do, ids, then).got = NothingRead
BY DEF Read, ReadOp, WriteOp, NothingRead

LEMMA WriteType ==
  ASSUME NEW do \in {"add", "replace", "update", "delete"}, NEW id \in Ids, NEW time \in Stamp,
         NEW by \in {"user", "copy", "round"}
  PROVE  Write(do, id, time, by, "begin") \in WriteOp
BY DEF Write, WriteOp

\* A query that has read rows.
LEMMA ReadRowsType ==
  ASSUME TypeOK, NEW p \in Procs, NEW ids \in SUBSET Ids, op[p] \in ReadOp, ReadRows(p, ids)
  PROVE  \E v \in ReadOp : /\ op' = [op EXCEPT ![p] = v] /\ v.do = op[p].do
                           /\ \A id \in Ids : v.got[id] \in {NoRow, cells[id]}
<1> DEFINE good == {id \in ids : CanRebuild(p, id)}
           got  == [id \in Ids |-> IF id \in good THEN cells[id] ELSE NoRow]
           bad  == IF Removes(op[p]) THEN ids \ good ELSE {}
           v    == [op[p] EXCEPT !.stage = "read", !.ids = {}, !.got = got, !.bad = bad]
<1>1. got \in [Ids -> Stamp \cup {NoRow}] /\ bad \subseteq Ids
  BY DEF TypeOK, CanRebuild
<1>2. op' = [op EXCEPT ![p] = v]
  BY DEF ReadRows, Becomes
<1>3. \A id \in Ids : got[id] \in {NoRow, cells[id]}
  OBVIOUS
<1> HIDE DEF got, bad
<1>4. v \in ReadOp /\ v.do = op[p].do /\ v.got = got
  BY <1>1 DEF ReadOp
<1> HIDE DEF v
<1> QED
  BY <1>2, <1>3, <1>4

\* A call that goes on, or ends, in its own record alone.
Moves(p, v) == op' = [op EXCEPT ![p] = v]
Quiet(p) == /\ \E v \in Ops : Moves(p, v) /\ (v # Idle => p \in up)
            /\ UNCHANGED <<stored, now, control, locking, history, fixed, bounds>>

LEMMA QuietTyped ==
  ASSUME Typed, NEW p \in Procs, Quiet(p)
  PROVE  Typed'
<1>1. op' \in [Procs -> Ops] /\ Busy'
  BY DEF Typed, TypeOK, Busy, Quiet, Moves, control, Ops
<1> QED
  BY <1>1 DEF Typed, TypeOK, Quiet, Ops, stored, control, locking, history, fixed, bounds

LEMMA LandTyped ==
  ASSUME Typed, NEW p \in Procs, op[p] \in WriteOp, Land(p, op[p].time), Done(p),
         scores' \in [Ids -> Times \cup {Paused}], excused' \subseteq Ids
  PROVE  Typed'
<1>1. p \in up /\ op[p].id \in Ids /\ op[p].time \in Stamp
  BY DEF Typed, Busy, Idle, WriteOp
<1>2. op' \in [Procs -> Ops] /\ Busy'
  BY DEF Typed, TypeOK, Busy, Done, Becomes, Ops, Land
<1>3. cells' \in [Ids -> Cell] /\ \A id \in Ids : cells'[id] = Empty => backend' = "file"
  BY <1>1, ConstantFacts DEF Typed, TypeOK, Land, Cell, Stamp, fixed
<1>4. /\ ran' \in [Ids -> SUBSET Times] /\ winners' \in [Ids -> SUBSET Procs]
      /\ armed' \subseteq up'
  BY <1>1 DEF Typed, TypeOK, Land
<1> QED
  BY <1>2, <1>3, <1>4 DEF Typed, TypeOK, Land, Ops, locking, fixed, bounds

LEMMA GoneTyped ==
  ASSUME Typed, NEW ids \in SUBSET Ids, NEW ops \in [Procs -> Ops], Gone(ids, ops),
         \A p \in Procs : ops[p] # Idle => p \in up,
         scores' \in [Ids -> Times \cup {Paused}], directory' \in BOOLEAN
  PROVE  Typed'
<1>1. op' \in [Procs -> Ops] /\ Busy'
  <2> SUFFICES ASSUME NEW p \in Procs PROVE op'[p] \in Ops /\ (op'[p] # Idle => p \in up')
    BY DEF Busy, Gone
  <2>1. CASE ops[p].do \in {"add", "replace", "update"}
    <3>1. ops[p] \in WriteOp /\ ops[p] # Idle
      BY <2>1 DEF Ops, WriteOp, ReadOp, LockOp, Idle
    <3> QED
      BY <3>1, Staged DEF Gone, Ops
  <2>2. CASE ops[p].do \notin {"add", "replace", "update"}
    BY <2>2 DEF Gone
  <2> QED
    BY <2>1, <2>2
<1>2. cells' \in [Ids -> Cell] /\ \A id \in Ids : cells'[id] = Empty => backend' = "file"
  BY ConstantFacts DEF Typed, TypeOK, Gone, Cell, fixed
<1>3. winners' \in [Ids -> SUBSET Procs]
  BY DEF Typed, TypeOK, Gone
<1> QED
  BY <1>1, <1>2, <1>3 DEF Typed, TypeOK, Gone, Ops, locking, fixed, bounds

LEMMA ReleaseTyped ==
  ASSUME Typed, NEW p \in Procs, Release(p)
  PROVE  /\ round' \in [Procs -> [at : Times \cup {0, -1}, tasks : [Ids -> Stamp \cup {NoRow}]]]
         /\ holder' \in Procs \cup {NoProc} /\ orphans' \subseteq Procs
<1>1. NoRound \in [at : Times \cup {0, -1}, tasks : [Ids -> Stamp \cup {NoRow}]]
  BY DEF NoRound, NothingRead
<1> QED
  BY <1>1 DEF Typed, TypeOK, Release

LEMMA DoneTyped ==
  ASSUME Typed, NEW p \in Procs, Done(p), up' = up \/ p \notin up'
  PROVE  op' \in [Procs -> Ops] /\ (up' = up => Busy')
BY DEF Typed, TypeOK, Busy, Done, Becomes, Ops

LEMMA RaiseTyped ==
  ASSUME Typed, NEW p \in Procs, Raise(p)
  PROVE  Typed'
<1>1. op' \in [Procs -> Ops] /\ Busy'
  BY DoneTyped DEF Raise
<1>2. /\ round' \in [Procs -> [at : Times \cup {0, -1}, tasks : [Ids -> Stamp \cup {NoRow}]]]
      /\ holder' \in Procs \cup {NoProc} /\ orphans' \subseteq Procs /\ armed' \subseteq up'
  BY ReleaseTyped DEF Raise, Typed, TypeOK, locking
<1> QED
  BY <1>1, <1>2 DEF Typed, TypeOK, Raise, Ops, stored, history, fixed, bounds

-----------------------------------------------------------------------------
(* The calls of a store keep the types *)

\* A call that is under way goes on to another of its stages.
LEMMA GoesOn ==
  ASSUME Typed, NEW p \in Procs, op[p] # Idle, NEW v \in Ops, Becomes(p, v),
         UNCHANGED <<stored, now, control, locking, history, fixed, bounds>>
  PROVE  Quiet(p)
BY DEF Quiet, Moves, Becomes, Typed, Busy

LEMMA ConflictTyped ==
  ASSUME Typed, NEW p \in Procs, op[p] \in WriteOp, Conflict(p)
  PROVE  Typed'
<1>1. CASE op[p].do = "replace"
  <2> DEFINE v == [op[p] EXCEPT !.do = "update", !.stage = "begin"]
  <2>1. v \in WriteOp
    BY DEF WriteOp
  <2>2. Becomes(p, v) /\ UNCHANGED <<stored, now, control, locking, history, fixed, bounds>>
    BY <1>1 DEF Conflict
  <2>3. op[p] # Idle
    BY <1>1 DEF Idle, WriteOp
  <2> HIDE DEF v
  <2> QED
    BY <2>1, <2>2, <2>3, GoesOn, QuietTyped DEF Ops
<1>2. CASE op[p].do # "replace"
  BY <1>2, RaiseTyped DEF Conflict
<1> QED
  BY <1>1, <1>2

LEMMA ExcuseType ==
  ASSUME Typed, NEW ids \in SUBSET Ids, Excuse(ids)
  PROVE  excused' \subseteq Ids
BY DEF Typed, TypeOK, Excuse

LEMMA UpdateMatchingTyped ==
  ASSUME Typed, NEW p \in Procs, op[p] \in WriteOp, UpdateMatching(p)
  PROVE  Typed'
<1>1. CASE Raise(p)
  BY <1>1, RaiseTyped
<1>2. CASE Land(p, op[p].time) /\ Excuse(StaleCopy(op[p], op[p].time)) /\ Done(p) /\ UNCHANGED scores
  <2>1. StaleCopy(op[p], op[p].time) \in SUBSET Ids
    BY DEF StaleCopy, WriteOp
  <2> QED
    BY <1>2, <2>1, ExcuseType, LandTyped DEF Typed, TypeOK
<1> QED
  BY <1>1, <1>2 DEF UpdateMatching

LEMMA InsertOneTyped ==
  ASSUME Typed, NEW p \in Procs, op[p] \in WriteOp, InsertOne(p)
  PROVE  Typed'
BY LandTyped, ConflictTyped DEF InsertOne, Typed, TypeOK

LEMMA IdleOps ==
  ASSUME Typed, NEW p \in Procs
  PROVE  /\ [op EXCEPT ![p] = Idle] \in [Procs -> Ops]
         /\ \A q \in Procs : [op EXCEPT ![p] = Idle][q] # Idle => q \in up
BY DEF Typed, TypeOK, Busy, Ops

LEMMA DeleteMatchingTyped ==
  ASSUME Typed, NEW p \in Procs, op[p] \in WriteOp, DeleteMatching(p)
  PROVE  Typed'
<1>1. CASE Raise(p)
  BY <1>1, RaiseTyped
<1>2. CASE Gone({op[p].id}, [op EXCEPT ![p] = Idle]) /\ UNCHANGED <<scores, directory>>
  <2>1. {op[p].id} \in SUBSET Ids
    BY DEF WriteOp
  <2> QED
    BY <1>2, <2>1, IdleOps, GoneTyped DEF Typed, TypeOK
<1> QED
  BY <1>1, <1>2 DEF DeleteMatching

LEMMA DatabaseTyped ==
  ASSUME Typed, NEW p \in Procs, MongoWrite(p) \/ SqlWrite(p)
  PROVE  Typed'
<1>1. op[p] \in WriteOp
  BY Kinds DEF Typed, MongoWrite, SqlWrite, Adds, Updates, Deletes
<1> QED
  BY <1>1, InsertOneTyped, UpdateMatchingTyped, DeleteMatchingTyped DEF MongoWrite, SqlWrite

LEMMA RedisTyped ==
  ASSUME Typed, NEW p \in Procs, RedisWrite(p)
  PROVE  Typed'
<1>1. op[p] \in WriteOp /\ op[p].id \in Ids /\ op[p].time \in Stamp
  BY Kinds DEF Typed, RedisWrite, RedisExists, RedisAdd, RedisUpdate, RedisDelete, Writes,
               Adds, Updates, Deletes, WriteOp
<1>2. CASE RedisExists(p)
  <2>1. CASE /\ Becomes(p, [op[p] EXCEPT !.stage = "checked"])
             /\ UNCHANGED <<stored, now, control, locking, history, fixed, bounds>>
    <3> DEFINE v == [op[p] EXCEPT !.stage = "checked"]
    <3>1. v \in Ops /\ op[p] # Idle
      BY <1>1, Staged DEF Ops, Idle, WriteOp
    <3>2. Becomes(p, v) /\ UNCHANGED <<stored, now, control, locking, history, fixed, bounds>>
      BY <2>1
    <3> HIDE DEF v
    <3> QED
      BY <3>1, <3>2, GoesOn, QuietTyped
  <2>2. CASE Conflict(p) \/ Raise(p)
    BY <1>1, <2>2, ConflictTyped, RaiseTyped
  <2> QED
    BY <1>2, <2>1, <2>2 DEF RedisExists
<1>3. CASE RedisAdd(p)
  <2>1. scores' \in [Ids -> Times \cup {Paused}] /\ excused' \subseteq Ids
    BY <1>1, <1>3 DEF RedisAdd, Typed, TypeOK, Stamp
  <2> QED
    BY <1>1, <1>3, <2>1, LandTyped DEF RedisAdd
<1>4. CASE RedisUpdate(p)
  <2>1. scores' \in [Ids -> Times \cup {Paused}]
    BY <1>1, <1>4 DEF RedisUpdate, Typed, TypeOK, Stamp
  <2>2. StaleCopy(op[p], op[p].time) \in SUBSET Ids
    BY <1>1 DEF StaleCopy
  <2> QED
    BY <1>1, <1>4, <2>1, <2>2, ExcuseType, LandTyped DEF RedisUpdate
<1>5. CASE RedisDelete(p)
  <2>1. scores' \in [Ids -> Times \cup {Paused}] /\ directory' \in BOOLEAN /\ {op[p].id} \in SUBSET Ids
    BY <1>1, <1>5 DEF RedisDelete, Typed, TypeOK
  <2> QED
    BY <1>5, <2>1, IdleOps, GoneTyped DEF RedisDelete
<1> QED
  BY <1>2, <1>3, <1>4, <1>5 DEF RedisWrite

LEMMA TruncateTyped ==
  ASSUME Typed, NEW p \in Procs, op[p] \in WriteOp, backend = "file", FileTruncate(p),
         excused' \subseteq Ids, winners' = winners
  PROVE  Typed'
<1>1. p \in up /\ op[p].id \in Ids
  BY DEF Typed, Busy, Idle, WriteOp
<1>2. op' \in [Procs -> Ops] /\ Busy'
  <2>1. [op[p] EXCEPT !.stage = "opened"] \in Ops
    BY Staged DEF Ops
  <2> QED
    BY <1>1, <2>1 DEF Typed, TypeOK, Busy, FileTruncate, Becomes, Ops, control
<1>3. cells' \in [Ids -> Cell] /\ backend' = "file"
  BY <1>1 DEF Typed, TypeOK, FileTruncate, Cell, fixed
<1> QED
  BY <1>2, <1>3 DEF Typed, TypeOK, FileTruncate, Ops, control, locking, fixed, bounds

LEMMA FileTyped ==
  ASSUME Typed, NEW p \in Procs, FileWrite(p)
  PROVE  Typed'
<1>1. op[p] \in WriteOp /\ op[p].id \in Ids /\ backend = "file"
  BY Kinds DEF Typed, FileWrite, FileAdd, FileUpdate, FileFlush, FileDelete, Adds, Updates,
               Deletes, WriteOp
<1>2. CASE FileAdd(p)
  BY <1>1, <1>2, TruncateTyped, ConflictTyped, RaiseTyped DEF FileAdd, Typed, TypeOK
<1>3. CASE FileUpdate(p)
  <2>1. StaleCopy(op[p], op[p].time) \cup Hidden(op[p].id) \in SUBSET Ids
    BY <1>1 DEF StaleCopy, Hidden
  <2> QED
    BY <1>1, <1>3, <2>1, ExcuseType, TruncateTyped, RaiseTyped DEF FileUpdate
<1>4. CASE FileFlush(p)
  <2>1. StaleCopy(op[p], Empty) \in SUBSET Ids
    BY <1>1 DEF StaleCopy
  <2>2. CASE Land(p, op[p].time) /\ Excuse(StaleCopy(op[p], Empty)) /\ UNCHANGED scores /\ Done(p)
    BY <1>1, <2>1, <2>2, ExcuseType, LandTyped DEF Typed, TypeOK
  <2>3. CASE Done(p) /\ UNCHANGED <<stored, now, control, locking, history, fixed, bounds>>
    BY <2>3, QuietTyped DEF Quiet, Moves, Done, Becomes, Ops
  <2> QED
    BY <1>4, <2>2, <2>3 DEF FileFlush
<1>5. CASE FileDelete(p)
  BY <1>1, <1>5, DeleteMatchingTyped DEF FileDelete
<1> QED
  BY <1>2, <1>3, <1>4, <1>5 DEF FileWrite

\* A query that goes on: it lists ids, or has more of the rows that are there.
ReadsOn(p) ==
  /\ op[p] \in ReadOp
  /\ \E v \in ReadOp : /\ Moves(p, v) /\ v.do = op[p].do
                       /\ \A id \in Ids : v.got[id] \in {NoRow, cells[id], op[p].got[id]}
  /\ UNCHANGED <<stored, now, control, locking, history, fixed, bounds>>

LEMMA ReadsOnIsQuiet ==
  ASSUME Typed, NEW p \in Procs, ReadsOn(p)
  PROVE  Quiet(p)
BY DEF ReadsOn, Quiet, Ops, Typed, Busy, ReadOp, Idle

LEMMA SelectedType ==
  ASSUME NEW r \in ReadOp, NEW at
  PROVE  Selected(r, at) \in SUBSET Ids
BY DEF Selected, ReadOp

LEMMA ListIdsReadsOn ==
  ASSUME Typed, NEW p \in Procs, op[p] \in ReadOp, NEW ids \in SUBSET Ids,
         Becomes(p, [op[p] EXCEPT !.stage = "read", !.ids = ids]),
         UNCHANGED <<stored, now, control, locking, history, fixed, bounds>>
  PROVE  ReadsOn(p)
<1> DEFINE v == [op[p] EXCEPT !.stage = "read", !.ids = ids]
<1>1. v \in ReadOp /\ v.do = op[p].do /\ v.got = op[p].got
  BY DEF ReadOp
<1>2. Moves(p, v)
  BY DEF Moves, Becomes
<1> HIDE DEF v
<1> QED
  BY <1>1, <1>2 DEF ReadsOn

LEMMA ReadRowsReadsOn ==
  ASSUME Typed, NEW p \in Procs, op[p] \in ReadOp, NEW ids \in SUBSET Ids, ReadRows(p, ids),
         UNCHANGED <<stored, now, control, locking, history, fixed, bounds>>
  PROVE  ReadsOn(p)
<1>1. PICK v \in ReadOp : /\ op' = [op EXCEPT ![p] = v] /\ v.do = op[p].do
                          /\ \A id \in Ids : v.got[id] \in {NoRow, cells[id]}
  BY ReadRowsType DEF Typed
<1> QED
  BY <1>1 DEF ReadsOn, Moves

\* A file is read, or is to be removed.
LEMMA FileReadReadsOn ==
  ASSUME Typed, NEW p \in Procs, FileRead(p)
  PROVE  ReadsOn(p)
<1>1. op[p] \in ReadOp
  BY Kinds DEF Typed, FileRead
<1>2. PICK id \in op[p].ids :
        Becomes(p, IF CanRebuild(p, id)
                   THEN [op[p] EXCEPT !.ids = @ \ {id}, !.got[id] = cells[id]]
                   ELSE [op[p] EXCEPT !.ids = @ \ {id}, !.bad = {id}])
  BY DEF FileRead
<1>3. id \in Ids
  BY <1>1 DEF ReadOp
<1> DEFINE good == [op[p] EXCEPT !.ids = @ \ {id}, !.got[id] = cells[id]]
           bad  == [op[p] EXCEPT !.ids = @ \ {id}, !.bad = {id}]
<1>4. CanRebuild(p, id) => /\ good \in ReadOp /\ good.do = op[p].do
                           /\ good.got = [op[p].got EXCEPT ![id] = cells[id]]
  BY <1>1, <1>3 DEF ReadOp, CanRebuild
<1>5. bad \in ReadOp /\ bad.do = op[p].do /\ bad.got = op[p].got
  BY <1>1, <1>3 DEF ReadOp
<1>6. op[p].got \in [Ids -> Stamp \cup {NoRow}]
  BY <1>1 DEF ReadOp
<1>7. \E v \in ReadOp : /\ Moves(p, v) /\ v.do = op[p].do
                        /\ \A i \in Ids : v.got[i] \in {NoRow, cells[i], op[p].got[i]}
  <2>1. CASE CanRebuild(p, id)
    <3>1. Moves(p, good)
      BY <1>2, <2>1 DEF Moves, Becomes
    <3> HIDE DEF good
    <3> QED
      BY <2>1, <3>1, <1>4, <1>6
  <2>2. CASE ~CanRebuild(p, id)
    <3>1. Moves(p, bad)
      BY <1>2, <2>2 DEF Moves, Becomes
    <3> HIDE DEF bad
    <3> QED
      BY <3>1, <1>5, <1>6
  <2> QED
    BY <2>1, <2>2
<1> QED
  BY <1>1, <1>7 DEF ReadsOn, FileRead

LEMMA QueriesReadOn ==
  ASSUME Typed, NEW p \in Procs,
         \/ MongoQuery(p) \/ SqlQuery(p) \/ RedisQuery(p) \/ RedisGetDue(p)
         \/ FileList(p) \/ FileQueryNext(p) \/ FileRead(p)
  PROVE  ReadsOn(p)
<1>1. op[p] \in ReadOp
  BY Kinds DEF Typed, MongoQuery, SqlQuery, RedisQuery, RedisGetDue, FileList, FileQueryNext,
               FileRead, Queries
<1>2. Selected(op[p], round[p].at) \in SUBSET Ids /\ op[p].ids \in SUBSET Ids
  BY <1>1, SelectedType DEF ReadOp
<1>3. \/ /\ \E ids \in SUBSET Ids : ReadRows(p, ids)
         /\ UNCHANGED <<stored, now, control, locking, history, fixed, bounds>>
      \/ /\ \E ids \in SUBSET Ids : Becomes(p, [op[p] EXCEPT !.stage = "read", !.ids = ids])
         /\ UNCHANGED <<stored, now, control, locking, history, fixed, bounds>>
      \/ FileRead(p)
  BY <1>2 DEF MongoQuery, SqlQuery, RedisQuery, RedisGetDue, FileList, FileQueryNext, ListIds
<1> QED
  BY <1>1, <1>3, ReadRowsReadsOn, ListIdsReadsOn, FileReadReadsOn

\* A call that ends without a trace.
LEMMA EndIsQuiet ==
  ASSUME NEW p \in Procs, Done(p),
         UNCHANGED <<stored, now, control, locking, history, fixed, bounds>>
  PROVE  Quiet(p)
BY DEF Quiet, Moves, Done, Becomes, Ops

\* The copy that update_task writes.
LEMMA LookedUpWrites ==
  ASSUME Typed, NEW p \in Procs, LookedUp(p)
  PROVE  \E id \in Ids, time \in Stamp, by \in {"copy", "user"} :
           Becomes(p, Write("update", id, time, by, "begin"))
<1>1. op[p] \in ReadOp
  BY Kinds DEF Typed, LookedUp, RowsRead
<1>2. PICK id \in Ids :
       /\ op[p].got[id] # NoRow
       /\ Becomes(p, IF op[p].then = Keep
                     THEN Write("update", id, op[p].got[id], "copy", "begin")
                     ELSE Write("update", id, op[p].then, "user", "begin"))
  BY DEF LookedUp
<1>3. op[p].got[id] \in Stamp /\ (op[p].then # Keep => op[p].then \in Stamp)
  BY <1>1, <1>2 DEF ReadOp
<1> QED
  BY <1>2, <1>3

LEMMA LookedUpTyped ==
  ASSUME Typed, NEW p \in Procs, LookedUp(p)
  PROVE  Typed'
<1>1. PICK id \in Ids, time \in Stamp, by \in {"copy", "user"} :
        Becomes(p, Write("update", id, time, by, "begin"))
  BY LookedUpWrites
<1>2. Write("update", id, time, by, "begin") \in Ops
  BY WriteType DEF Ops
<1>3. op[p] # Idle
  BY Kinds DEF Typed, LookedUp, RowsRead, Idle
<1> HIDE DEF Write
<1> QED
  BY <1>1, <1>2, <1>3, GoesOn, QuietTyped DEF LookedUp

LEMMA RemoveBadTyped ==
  ASSUME Typed, NEW p \in Procs, RemoveBad(p)
  PROVE  Typed'
<1>1. op[p] \in ReadOp /\ op[p].bad \in SUBSET Ids
  BY Kinds DEF Typed, RemoveBad, ReadOp
<1> DEFINE v == [op[p] EXCEPT !.bad = {}]
<1>2. v \in ReadOp
  BY <1>1 DEF ReadOp
<1>3. [op EXCEPT ![p].bad = {}] = [op EXCEPT ![p] = v]
  OBVIOUS
<1>4. op[p] # Idle
  BY <1>1 DEF ReadOp, Idle
<1> HIDE DEF v
<1>5. /\ [op EXCEPT ![p] = v] \in [Procs -> Ops]
      /\ \A q \in Procs : [op EXCEPT ![p] = v][q] # Idle => q \in up
  BY <1>2, <1>4 DEF Typed, TypeOK, Busy, Ops
<1>6. scores' \in [Ids -> Times \cup {Paused}] /\ directory' \in BOOLEAN
  BY DEF RemoveBad, Typed, TypeOK
<1> QED
  BY <1>1, <1>3, <1>5, <1>6, GoneTyped DEF RemoveBad

LEMMA RemoveAllTyped ==
  ASSUME Typed, NEW p \in Procs, RemoveAll(p)
  PROVE  Typed'
<1>1. op[p] \in ReadOp /\ op[p].ids \in SUBSET Ids
  BY Kinds DEF Typed, RemoveAll, ReadOp
<1>2. CASE /\ Gone(Ids, [op EXCEPT ![p] = Idle])
           /\ scores' = [id \in Ids |-> Paused] /\ UNCHANGED directory
  <2>1. scores' \in [Ids -> Times \cup {Paused}] /\ directory' \in BOOLEAN
    BY <1>2 DEF Typed, TypeOK
  <2> QED
    BY <1>2, <2>1, IdleOps, GoneTyped
<1>3. CASE /\ Becomes(p, [op[p] EXCEPT !.stage = "read", !.ids = {id \in Ids : Stored(id)}])
           /\ UNCHANGED <<stored, now, control, locking, history, fixed, bounds>>
  BY <1>1, <1>3, ListIdsReadsOn, ReadsOnIsQuiet, QuietTyped
<1>4. CASE Done(p) /\ UNCHANGED <<stored, now, control, locking, history, fixed, bounds>>
  BY <1>4, EndIsQuiet, QuietTyped
<1>5. ASSUME NEW id \in op[p].ids, Gone({id}, [op EXCEPT ![p].ids = @ \ {id}]),
             UNCHANGED <<scores, directory>>
      PROVE  Typed'
  <2> DEFINE v == [op[p] EXCEPT !.ids = @ \ {id}]
  <2>1. v \in ReadOp
    BY <1>1 DEF ReadOp
  <2>2. [op EXCEPT ![p].ids = @ \ {id}] = [op EXCEPT ![p] = v]
    OBVIOUS
  <2>3. op[p] # Idle /\ {id} \in SUBSET Ids
    BY <1>1 DEF ReadOp, Idle
  <2> HIDE DEF v
  <2>4. /\ [op EXCEPT ![p] = v] \in [Procs -> Ops]
        /\ \A q \in Procs : [op EXCEPT ![p] = v][q] # Idle => q \in up
    BY <2>1, <2>3 DEF Typed, TypeOK, Busy, Ops
  <2> QED
    BY <1>5, <2>2, <2>3, <2>4, GoneTyped DEF Typed, TypeOK
<1> QED
  BY <1>2, <1>3, <1>4, <1>5 DEF RemoveAll

\* A call that ends and with it the round.
LEMMA DoneReleaseTyped ==
  ASSUME Typed, NEW p \in Procs, Done(p), Release(p),
         UNCHANGED <<stored, now, up, armed, history, fixed, bounds>>
  PROVE  Typed'
<1>1. op' \in [Procs -> Ops] /\ Busy'
  BY DoneTyped
<1> QED
  BY <1>1, ReleaseTyped DEF Typed, TypeOK, Ops, stored, history, fixed, bounds

LEMMA DueTasksTyped ==
  ASSUME Typed, NEW p \in Procs, DueTasks(p)
  PROVE  Typed'
<1>1. op[p] \in ReadOp
  BY Kinds DEF Typed, DueTasks, RowsRead
<1>2. round' \in [Procs -> Rounds]
  <2> DEFINE tasks == [id \in Ids |-> IF backend # "file" \/ DueCell(op[p].got[id], round[p].at)
                                      THEN op[p].got[id] ELSE NoRow]
  <2>1. tasks \in [Ids -> Stamp \cup {NoRow}]
    BY <1>1 DEF ReadOp
  <2>2. round' = [round EXCEPT ![p].tasks = tasks]
    BY DEF DueTasks
  <2>3. round \in [Procs -> Rounds]
    BY DEF Typed, TypeOK, Rounds
  <2> HIDE DEF tasks
  <2> QED
    BY <2>1, <2>2, <2>3 DEF Rounds
<1>3. op' \in [Procs -> Ops] /\ Busy'
  BY DoneTyped DEF DueTasks
<1> QED
  BY <1>2, <1>3 DEF Typed, TypeOK, DueTasks, Rounds, Ops, stored, locking, history, fixed, bounds

\* What a shutdown does to the calls of the others: the file that one has open
\* has lost its name.
LEMMA DownOps ==
  ASSUME Typed, NEW p \in Procs, StoresDown(p)
  PROVE  /\ op[p] \in ReadOp /\ op'[p] = Idle /\ op' \in [Procs -> Ops]
         /\ \A q \in Procs : q # p /\ op'[q] # op[q] =>
              /\ op'[q] = [op[q] EXCEPT !.stage = "unlinked"] /\ op'[q].stage = "unlinked"
              /\ op'[q].do = op[q].do
              /\ \/ op[q] \in WriteOp /\ cleanup
                 \/ op[q] \in LockOp /\ LockPath
         /\ \A q \in Procs : ~(op'[q].stage = "opened" /\ cleanup
                                /\ op'[q].do \in {"add", "replace", "update"})
<1>1. op[p] \in ReadOp /\ op \in [Procs -> Ops]
  BY Kinds DEF StoresDown, RowsRead, Typed, TypeOK, Ops
<1>2. op' = [q \in Procs |-> IF q = p THEN Idle
                             ELSE IF HasOpen(q) THEN [op[q] EXCEPT !.stage = "unlinked"] ELSE op[q]]
  BY DEF StoresDown
<1>3. op'[p] = Idle
  BY <1>2
<1>4. ASSUME NEW q \in Procs, q # p, HasOpen(q)
      PROVE  /\ op'[q] \in Ops
             /\ op'[q] = [op[q] EXCEPT !.stage = "unlinked"] /\ op'[q].stage = "unlinked"
             /\ op'[q].do = op[q].do
             /\ \/ op[q] \in WriteOp /\ cleanup
                \/ op[q] \in LockOp /\ LockPath
  <2>1. op'[q] = [op[q] EXCEPT !.stage = "unlinked"]
    BY <1>2, <1>4
  <2>2. CASE cleanup /\ op[q].do \in {"add", "replace", "update"}
    BY <2>1, <2>2, Kinds, Staged DEF Typed, WriteOp, Ops
  <2>3. CASE LockPath /\ op[q].do = "lock"
    BY <2>1, <2>3, Kinds DEF Typed, LockOp, Ops
  <2> QED
    BY <1>4, <2>2, <2>3 DEF HasOpen
<1>5. \A q \in Procs : q # p /\ ~HasOpen(q) => op'[q] = op[q]
  BY <1>2
<1>6. op' \in [Procs -> Ops]
  <2>1. \A q \in Procs : op'[q] \in Ops
    BY <1>1, <1>3, <1>4, <1>5 DEF Ops
  <2> QED
    BY <1>2, <2>1
<1>7. ASSUME NEW q \in Procs, op'[q].stage = "opened", cleanup,
             op'[q].do \in {"add", "replace", "update"}
      PROVE  FALSE
  <2>1. q # p
    BY <1>3, <1>7 DEF Idle
  <2>2. HasOpen(q)
    BY <1>5, <1>7, <2>1 DEF HasOpen
  <2> QED
    BY <1>4, <1>7, <2>1, <2>2
<1> QED
  BY <1>1, <1>3, <1>4, <1>5, <1>6, <1>7

LEMMA StoresDownTyped ==
  ASSUME Typed, NEW p \in Procs, StoresDown(p)
  PROVE  Typed'
<1>1. up' = up \ {p} /\ armed' \subseteq up'
  BY DEF StoresDown, Stops, Typed, TypeOK
<1>2. op' \in [Procs -> Ops]
  BY DownOps
<1>3. Busy'
  <2> SUFFICES ASSUME NEW q \in Procs, op'[q] # Idle PROVE q \in up'
    BY DEF Busy
  <2>1. q # p
    BY DownOps
  <2>2. op[q] # Idle
    BY <2>1, DownOps DEF Idle, WriteOp, LockOp
  <2> QED
    BY <1>1, <2>1, <2>2 DEF Typed, Busy
<1>4. /\ cells' \in [Ids -> Cell]
      /\ \A id \in Ids : cells'[id] = Empty => backend' = "file"
      /\ directory' \in BOOLEAN /\ winners' \in [Ids -> SUBSET Procs]
  <2>1. backend' = backend
    BY DEF StoresDown, fixed
  <2>2. CASE cleanup
    <3>1. /\ cells' = [id \in Ids |-> NoRow] /\ directory' = FALSE
          /\ winners' = [id \in Ids |-> {}]
      BY <2>2 DEF StoresDown, RemoveDirectory
    <3>2. NoRow \in Cell /\ NoRow # Empty
      BY ConstantFacts DEF Cell
    <3> QED
      BY <3>1, <3>2
  <2>3. CASE ~cleanup
    BY <2>1, <2>3 DEF StoresDown, Typed, TypeOK
  <2> QED
    BY <2>2, <2>3
<1>5. holder' \in Procs \cup {NoProc} /\ orphans' \subseteq Procs /\ excused' \subseteq Ids
  BY DEF StoresDown, RemoveLockFile, Excuse, locking, Typed, TypeOK
<1> QED
  BY <1>1, <1>2, <1>3, <1>4, <1>5 DEF Typed, TypeOK, StoresDown, Ops, fixed, bounds

LEMMA StoreStepTyped ==
  ASSUME Typed, NEW p \in Procs, StoreStep(p)
  PROVE  Typed'
<1>1. CASE \/ MongoQuery(p) \/ SqlQuery(p) \/ RedisQuery(p) \/ RedisGetDue(p)
           \/ FileList(p) \/ FileQueryNext(p) \/ FileRead(p)
  BY <1>1, QueriesReadOn, ReadsOnIsQuiet, QuietTyped
<1>2. CASE MongoWrite(p) \/ SqlWrite(p) \/ RedisWrite(p) \/ FileWrite(p)
  BY <1>2, DatabaseTyped, RedisTyped, FileTyped
<1>3. CASE FileNoDirectory(p) \/ NotFound(p) \/ Listed(p) \/ NextRead(p)
  BY <1>3, RaiseTyped, EndIsQuiet, QuietTyped, DoneReleaseTyped
     DEF FileNoDirectory, NotFound, Listed, NextRead
<1>4. CASE RemoveBad(p) \/ RemoveAll(p) \/ LookedUp(p) \/ DueTasks(p)
  BY <1>4, RemoveBadTyped, RemoveAllTyped, LookedUpTyped, DueTasksTyped
<1> QED
  BY <1>1, <1>2, <1>3, <1>4, StoresDownTyped DEF StoreStep

\* A process that is up and in no call begins one.
LEMMA ReadyType ==
  ASSUME Typed, NEW p \in Procs, Ready(p), NEW v \in Ops, Becomes(p, v), up' = up
  PROVE  op' \in [Procs -> Ops] /\ Busy'
BY DEF Typed, TypeOK, Busy, Ready, Becomes, Ops

\* A round that has opened the lock file.
LEMMA LockType ==
  ASSUME Typed, NEW p \in Procs, RoundStart(p)
  PROVE  \E v \in LockOp : Moves(p, v) /\ v.stage = "opened" /\ v \notin WriteOp /\ v.do = "lock"
<1> DEFINE v == [do |-> "lock", at |-> now, stage |-> "opened"]
<1>1. v \in LockOp /\ v.stage = "opened" /\ v \notin WriteOp /\ v.do = "lock"
  BY DEF LockOp, WriteOp, Typed, TypeOK
<1>2. Moves(p, v)
  BY DEF RoundStart, Becomes, Moves
<1> HIDE DEF v
<1> QED
  BY <1>1, <1>2

LEMMA RoundStartTyped ==
  ASSUME Typed, NEW p \in Procs, RoundStart(p)
  PROVE  Typed'
<1>1. PICK v \in LockOp : Moves(p, v)
  BY LockType
<1>2. v \in Ops /\ p \in up
  BY DEF Ops, RoundStart, Ready
<1> QED
  BY <1>1, <1>2, QuietTyped DEF Quiet, RoundStart

LEMMA RoundLockTyped ==
  ASSUME Typed, NEW p \in Procs, RoundLock(p)
  PROVE  Typed'
<1>1. op[p] \in LockOp /\ op[p].at \in Times \cup {0} /\ p \in up
  BY Kinds DEF RoundLock, Typed, Busy, LockOp, Idle
<1>2. CASE Enters(p)
  <2>1. Read("due", {}, Keep) \in Ops
    BY ReadType DEF Ops
  <2>2. op' \in [Procs -> Ops] /\ Busy'
    BY <1>1, <1>2, <2>1 DEF Enters, Becomes, RoundLock, Typed, TypeOK, Busy, Ops
  <2>3. round \in [Procs -> Rounds]
    BY DEF Typed, TypeOK, Rounds
  <2>4. round' \in [Procs -> Rounds]
    BY <1>1, <1>2, <2>3 DEF Enters, Rounds
  <2>5. holder' \in Procs \cup {NoProc} /\ orphans' \subseteq Procs
    BY DEF RoundLock, locking, Typed, TypeOK
  <2> QED
    BY <2>2, <2>4, <2>5 DEF Typed, TypeOK, RoundLock, Rounds, Ops, stored, history, fixed, bounds
<1>3. CASE Done(p) /\ UNCHANGED <<locking, round>>
  BY <1>3, EndIsQuiet, QuietTyped DEF RoundLock, control
<1> QED
  BY <1>2, <1>3 DEF RoundLock

\* What Submit makes of its task.
LEMMA SubmitEffect ==
  ASSUME Typed, NEW p \in Procs, Submit(p)
  PROVE  \E id \in Ids, accepted \in BOOLEAN :
           LET runs == RunTimes(round[p].tasks[id], round[p].at)
           IN /\ round[p].tasks[id] # NoRow
              /\ round' = [round EXCEPT ![p].tasks[id] = NoRow]
              /\ IF runs = {} \/ ~accepted \/ id \in excused THEN UNCHANGED <<ran, twice>>
                 ELSE /\ ran' = [ran EXCEPT ![id] = @ \cup runs]
                      /\ twice' = IF ran[id] \cap runs # {} THEN twice \cup {id} ELSE twice
              /\ \/ runs = {} /\ UNCHANGED op
                 \/ /\ runs # {}
                    /\ \E v \in WriteOp :
                         /\ Becomes(p, v) /\ v.id = id /\ v.by = "round" /\ v.stage = "begin"
                         /\ v.do = "delete" \/ (v.do = "update" /\ v.time = round[p].at + 1)
              /\ runs \subseteq Times
<1>1. PICK id \in Ids, accepted \in BOOLEAN :
       LET r == round[p]
           runs == RunTimes(r.tasks[id], r.at)
           next == r.at + 1
       IN /\ r.tasks[id] # NoRow
          /\ round' = [round EXCEPT ![p].tasks[id] = NoRow]
          /\ IF runs = {} \/ ~accepted \/ id \in excused THEN UNCHANGED <<ran, twice>>
             ELSE /\ ran' = [ran EXCEPT ![id] = @ \cup runs]
                  /\ twice' = IF ran[id] \cap runs # {} THEN twice \cup {id} ELSE twice
          /\ IF runs = {} THEN UNCHANGED op
             ELSE Becomes(p, IF next \in Times
                             THEN Write("update", id, next, "round", "begin")
                             ELSE Write("delete", id, Paused, "round", "begin"))
  BY DEF Submit
<1> DEFINE runs == RunTimes(round[p].tasks[id], round[p].at)
           next == round[p].at + 1
           u    == Write("update", id, next, "round", "begin")
           d    == Write("delete", id, Paused, "round", "begin")
<1>2. runs \subseteq Times
  BY DEF RunTimes
<1>3. /\ next \in Times => u \in WriteOp /\ u.do = "update" /\ u.time = next
      /\ u.id = id /\ u.by = "round" /\ u.stage = "begin"
  BY WriteType DEF Stamp, Write
<1>4. d \in WriteOp /\ d.do = "delete" /\ d.id = id /\ d.by = "round" /\ d.stage = "begin"
  BY WriteType DEF Stamp, Write
<1>5. runs # {} => \E v \in WriteOp :
         /\ Becomes(p, v) /\ v.id = id /\ v.by = "round" /\ v.stage = "begin"
         /\ v.do = "delete" \/ (v.do = "update" /\ v.time = next)
  <2> SUFFICES ASSUME runs # {} PROVE \E v \in WriteOp :
         /\ Becomes(p, v) /\ v.id = id /\ v.by = "round" /\ v.stage = "begin"
         /\ v.do = "delete" \/ (v.do = "update" /\ v.time = next)
    OBVIOUS
  <2>1. Becomes(p, IF next \in Times THEN u ELSE d)
    BY <1>1
  <2> HIDE DEF u, d
  <2> QED
    BY <1>3, <1>4, <2>1
<1>6. runs = {} => UNCHANGED op
  BY <1>1
<1> HIDE DEF u, d
<1> QED
  BY <1>1, <1>2, <1>5, <1>6

LEMMA SubmitTyped ==
  ASSUME Typed, NEW p \in Procs, Submit(p)
  PROVE  Typed'
<1>1. PICK id \in Ids, accepted \in BOOLEAN :
        LET runs == RunTimes(round[p].tasks[id], round[p].at)
        IN /\ round' = [round EXCEPT ![p].tasks[id] = NoRow]
           /\ IF runs = {} \/ ~accepted \/ id \in excused THEN UNCHANGED <<ran, twice>>
              ELSE /\ ran' = [ran EXCEPT ![id] = @ \cup runs]
                   /\ twice' = IF ran[id] \cap runs # {} THEN twice \cup {id} ELSE twice
           /\ UNCHANGED op \/ \E v \in WriteOp : Becomes(p, v)
           /\ runs \subseteq Times
  <2> HIDE DEF RunTimes
  <2> QED
    BY SubmitEffect
<1>2. op' \in [Procs -> Ops] /\ Busy'
  BY <1>1, ReadyType DEF Submit, Typed, TypeOK, Busy, Ops
<1>3. round' \in [Procs -> Rounds]
  <2>1. round \in [Procs -> Rounds]
    BY DEF Typed, TypeOK, Rounds
  <2> QED
    BY <1>1, <2>1 DEF Rounds
<1>4. ran' \in [Ids -> SUBSET Times] /\ twice' \subseteq Ids
  BY <1>1 DEF Typed, TypeOK
<1> QED
  BY <1>2, <1>3, <1>4 DEF Typed, TypeOK, Submit, Rounds, Ops, stored, locking, fixed, bounds

LEMMA RoundEndTyped ==
  ASSUME Typed, NEW p \in Procs, RoundEnd(p)
  PROVE  Typed'
<1>1. Read("next", {}, Keep) \in Ops
  BY ReadType DEF Ops
<1>2. op' \in [Procs -> Ops] /\ Busy'
  BY <1>1, ReadyType DEF RoundEnd, Typed, TypeOK, Busy, Ops
<1>3. /\ round' \in [Procs -> [at : Times \cup {0, -1}, tasks : [Ids -> Stamp \cup {NoRow}]]]
      /\ holder' \in Procs \cup {NoProc} /\ orphans' \subseteq Procs
  BY ReleaseTyped DEF RoundEnd, Typed, TypeOK, locking
<1> QED
  BY <1>2, <1>3 DEF Typed, TypeOK, RoundEnd, Ops, stored, history, fixed, bounds

LEMMA CallTyped ==
  ASSUME Typed, NEW p \in Procs, NEW v \in Ops, Call(p, v)
  PROVE  Typed'
<1>1. op' \in [Procs -> Ops] /\ Busy'
  BY ReadyType DEF Call, control
<1>2. calls' \in 0..MaxCalls
  BY SharedStoreAssumption DEF Call, Typed, TypeOK
<1> QED
  BY <1>1, <1>2 DEF Typed, TypeOK, Call, Ops, stored, control, locking, history, fixed

\* The calls of users, and what each begins with.
LEMMA ApiCalls ==
  ASSUME NEW p \in Procs,
         \/ \E id \in Ids : delete_task(p, id)
         \/ \E id \in Ids, time \in UserTimes, do \in {"add", "replace"} : add_task(p, id, time, do)
         \/ \E id \in Ids, then \in UserTimes \cup {Keep} : update_task(p, id, then)
         \/ get_tasks(p) \/ remove_all_tasks(p)
  PROVE  \E v \in Ops : /\ Call(p, v)
                        /\ \/ v \in WriteOp /\ v.by = "user" /\ v.do # "update" /\ v.stage = "begin"
                           \/ v \in ReadOp /\ v.do # "due"
<1>1. CASE \E id \in Ids : delete_task(p, id)
  <2>1. PICK id \in Ids : delete_task(p, id)
    BY <1>1
  <2> DEFINE v == Write("delete", id, Paused, "user", "begin")
  <2>2. v \in WriteOp /\ v.by = "user" /\ v.do # "update" /\ v.stage = "begin"
    BY WriteType DEF Write, Stamp
  <2>3. Call(p, v)
    BY <2>1 DEF delete_task
  <2> HIDE DEF v
  <2> QED
    BY <2>2, <2>3 DEF Ops
<1>2. CASE \E id \in Ids, time \in UserTimes, do \in {"add", "replace"} : add_task(p, id, time, do)
  <2>1. PICK id \in Ids, time \in UserTimes, do \in {"add", "replace"} : add_task(p, id, time, do)
    BY <1>2
  <2> DEFINE v == Write(do, id, time, "user", "begin")
  <2>2. v \in WriteOp /\ v.by = "user" /\ v.do # "update" /\ v.stage = "begin"
    BY WriteType, SharedStoreAssumption DEF Write
  <2>3. Call(p, v)
    BY <2>1 DEF add_task
  <2> HIDE DEF v
  <2> QED
    BY <2>2, <2>3 DEF Ops
<1>3. CASE \/ \E id \in Ids, then \in UserTimes \cup {Keep} : update_task(p, id, then)
           \/ get_tasks(p) \/ remove_all_tasks(p)
  <2>1. PICK do \in {"lookup", "all", "clear"}, ids \in SUBSET Ids, then \in UserTimes \cup {Keep} :
          Call(p, Read(do, ids, then))
    BY <1>3 DEF update_task, get_tasks, remove_all_tasks
  <2> DEFINE v == Read(do, ids, then)
  <2>2. v \in ReadOp /\ v.do # "due"
    BY ReadType, SharedStoreAssumption DEF Read
  <2> HIDE DEF v
  <2> QED
    BY <2>1, <2>2 DEF Ops, v
<1> QED
  BY <1>1, <1>2, <1>3

LEMMA ShutdownTyped ==
  ASSUME Typed, NEW p \in Procs, shutdown(p)
  PROVE  Typed'
<1>1. Read("stop", {}, Keep) \in Ops
  BY ReadType DEF Ops
<1>2. op' \in [Procs -> Ops] /\ Busy'
  BY <1>1, ReadyType DEF shutdown, control
<1>3. downs' \in 0..MaxDowns
  BY SharedStoreAssumption DEF shutdown, Typed, TypeOK
<1> QED
  BY <1>2, <1>3 DEF Typed, TypeOK, shutdown, Ops, stored, control, locking, history, fixed

LEMMA CrashTyped ==
  ASSUME Typed, NEW p \in Procs, crash(p)
  PROVE  Typed'
<1>1. up' = up \ {p} /\ armed' \subseteq up'
  BY DEF crash, Stops, Typed, TypeOK
<1>2. op' \in [Procs -> Ops] /\ Busy'
  BY <1>1 DEF crash, Done, Becomes, Typed, TypeOK, Busy, Ops
<1>3. excused' \subseteq Ids
  BY Kinds DEF crash, Excuse, Typed, TypeOK, WriteOp
<1>4. downs' \in 0..MaxDowns
  BY SharedStoreAssumption DEF crash, Typed, TypeOK
<1>5. /\ round' \in [Procs -> [at : Times \cup {0, -1}, tasks : [Ids -> Stamp \cup {NoRow}]]]
      /\ holder' \in Procs \cup {NoProc} /\ orphans' \subseteq Procs
  BY ReleaseTyped DEF crash, CrashLock
<1> QED
  BY <1>1, <1>2, <1>3, <1>4, <1>5 DEF Typed, TypeOK, crash, Ops, stored, fixed

LEMMA StartTyped ==
  ASSUME Typed, NEW p \in Procs, start(p)
  PROVE  Typed'
<1>1. Busy'
  BY DEF start, Typed, Busy
<1> QED
  BY <1>1 DEF start, Typed, TypeOK, locking, history, fixed, bounds

LEMMA TickTyped ==
  ASSUME Typed, Tick
  PROVE  Typed'
<1>1. Busy' /\ now' \in Times
  BY DEF Tick, Typed, Busy, control
<1> QED
  BY <1>1 DEF Tick, Typed, TypeOK, stored, control, locking, history, fixed, bounds

LEMMA InitTyped == Init => Typed
<1> SUFFICES ASSUME Init PROVE Typed
  OBVIOUS
<1>1. Busy
  BY DEF Init, Busy
<1>2. calls \in 0..MaxCalls /\ downs \in 0..MaxDowns
  BY SharedStoreAssumption DEF Init
<1>3. round \in [Procs -> [at : Times \cup {0, -1}, tasks : [Ids -> Stamp \cup {NoRow}]]]
  BY DEF Init, NoRound, NothingRead
<1>4. cells \in [Ids -> Cell] /\ \A id \in Ids : cells[id] # Empty
  BY ConstantFacts DEF Init, Cell
<1>5. cleanup \in BOOLEAN
  BY DEF Init
<1> QED
  BY <1>1, <1>2, <1>3, <1>4, <1>5, SharedStoreAssumption DEF Init, Typed, TypeOK, Ops

LEMMA StepTyped == Typed /\ [Next]_vars => Typed'
<1> SUFFICES ASSUME Typed, [Next]_vars PROVE Typed'
  OBVIOUS
<1>1. ASSUME NEW p \in Procs, StoreStep(p) \/ RoundStep(p) PROVE Typed'
  BY <1>1, StoreStepTyped, RoundStartTyped, RoundLockTyped, SubmitTyped, RoundEndTyped DEF RoundStep
<1>2. ASSUME NEW p \in Procs, NEW v \in Ops, Call(p, v) PROVE Typed'
  BY <1>2, CallTyped
<1>3. ASSUME NEW p \in Procs, shutdown(p) \/ crash(p) \/ start(p) PROVE Typed'
  BY <1>3, ShutdownTyped, CrashTyped, StartTyped
<1>4. CASE UNCHANGED vars
  BY <1>4 DEF Typed, TypeOK, Busy, vars, stored, history, locking, control, fixed, bounds
<1> QED
  BY <1>1, <1>2, <1>3, <1>4, ApiCalls, TickTyped DEF Next

\* What every process, row and lock may be, in every state: only a file is ever
\* without contents, and only a process that is up waits for a round.
THEOREM SharedStoreTypes == Spec => []TypeOK
<1>1. Typed => TypeOK
  BY DEF Typed
<1> QED
  BY <1>1, InitTyped, StepTyped, PTL DEF Spec

-----------------------------------------------------------------------------
(* What a step does to the rows: nothing, one is written, some go away, or *)
(* a file is truncated                                                     *)

\* A call that goes on without a write; its next stage opens no file.
Still(p) ==
  /\ \E v \in Ops : Moves(p, v) /\ (v \in WriteOp => v.stage \in {"begin", "checked"})
  /\ UNCHANGED <<cells, scores, winners>>

Inserts(p) == backend \in {"mongo", "sqlalchemy"} /\ Adds(p) /\ ~Stored(op[p].id)
                /\ UNCHANGED <<scores, excused>>
Replaces(p) == backend \in {"mongo", "sqlalchemy"} /\ Updates(p) /\ Stored(op[p].id)
                 /\ Excuse(StaleCopy(op[p], op[p].time)) /\ UNCHANGED scores
Flushes(p) == backend = "file" /\ op[p].stage = "opened" /\ (Adds(p) \/ Updates(p))
                /\ Excuse(StaleCopy(op[p], Empty)) /\ UNCHANGED scores
Lands(p) ==
  /\ op[p] \in WriteOp /\ Land(p, op[p].time) /\ Done(p)
  /\ \/ Inserts(p) \/ Replaces(p) \/ Flushes(p)
     \/ backend = "redis" /\ (RedisAdd(p) \/ RedisUpdate(p))
Loses(p) ==
  \E ids \in SUBSET Ids, v \in Ops :
    /\ Gone(ids, [op EXCEPT ![p] = v])
    /\ \/ v = Idle /\ (op[p] \in ReadOp \/ op[p].id \in ids)
       \/ v \in ReadOp /\ op[p] \in ReadOp /\ v.do = op[p].do /\ v.got = op[p].got
    /\ backend = "redis" =>
         scores' = [id \in Ids |-> IF id \in ids THEN Paused ELSE scores[id]]
Truncates(p) ==
  /\ op[p] \in WriteOp /\ backend = "file" /\ FileTruncate(p)
  /\ \/ Adds(p) /\ ~Stored(op[p].id) /\ UNCHANGED <<excused, winners>>
     \/ /\ Updates(p) /\ Stored(op[p].id)
        /\ Excuse(StaleCopy(op[p], op[p].time) \cup Hidden(op[p].id)) /\ UNCHANGED winners

LEMMA QuietIsStill ==
  ASSUME NEW p \in Procs, NEW v \in Ops, Becomes(p, v),
         v \in WriteOp => v.stage \in {"begin", "checked"},
         UNCHANGED <<cells, scores, winners>>
  PROVE  Still(p)
BY DEF Still, Becomes, Moves

LEMMA DoneIsStill ==
  ASSUME NEW p \in Procs, Done(p), UNCHANGED <<cells, scores, winners>>
  PROVE  Still(p)
BY QuietIsStill DEF Done, Ops, Idle, WriteOp

LEMMA ConflictIsStill ==
  ASSUME Typed, NEW p \in Procs, op[p] \in WriteOp, Conflict(p) \/ Raise(p)
  PROVE  Still(p)
<1>1. CASE op[p].do = "replace" /\ Conflict(p)
  <2> DEFINE v == [op[p] EXCEPT !.do = "update", !.stage = "begin"]
  <2>1. v \in WriteOp /\ v.stage = "begin"
    BY DEF WriteOp
  <2>2. Becomes(p, v) /\ UNCHANGED <<cells, scores, winners>>
    BY <1>1 DEF Conflict, stored, history
  <2> HIDE DEF v
  <2> QED
    BY <2>1, <2>2, QuietIsStill DEF Ops
<1>2. CASE Raise(p)
  BY <1>2, DoneIsStill DEF Raise, stored, history
<1> QED
  BY <1>1, <1>2 DEF Conflict

\* A write that fails: an add of what is there, another write of what is not.
Fails(p) ==
  \/ Adds(p) /\ Conflict(p)
  \/ (Adds(p) \/ ~Stored(op[p].id)) /\ Raise(p)
\* A pipeline that has made sure of its id.
Checks(p) == /\ Becomes(p, [op[p] EXCEPT !.stage = "checked"])
             /\ UNCHANGED <<stored, now, control, locking, history, fixed, bounds>>
\* What is written to a file without a name.
Vanishes(p) == /\ op[p].stage = "unlinked" /\ Done(p)
               /\ UNCHANGED <<stored, now, control, locking, history, fixed, bounds>>

LEMMA WriteOutcomes ==
  ASSUME Typed, NEW p \in Procs, MongoWrite(p) \/ SqlWrite(p) \/ RedisWrite(p) \/ FileWrite(p)
  PROVE  /\ op[p] \in WriteOp
         /\ Fails(p) \/ Checks(p) \/ Vanishes(p) \/ Lands(p) \/ Loses(p) \/ Truncates(p)
<1>1. op[p] \in WriteOp /\ op[p].id \in Ids
  BY Kinds DEF Typed, MongoWrite, SqlWrite, RedisWrite, RedisExists, RedisAdd, RedisUpdate,
               RedisDelete, Writes, FileWrite, FileAdd, FileUpdate, FileFlush, FileDelete, Adds,
               Updates, Deletes, WriteOp
<1>2. ASSUME DeleteMatching(p), backend # "redis" PROVE Fails(p) \/ Loses(p)
  <2>1. CASE Gone({op[p].id}, [op EXCEPT ![p] = Idle])
    <3>1. {op[p].id} \in SUBSET Ids /\ Idle \in Ops /\ op[p].id \in {op[p].id}
      BY <1>1 DEF Ops
    <3> QED
      BY <1>2, <2>1, <3>1 DEF Loses
  <2> QED
    BY <1>2, <2>1 DEF DeleteMatching, Fails
<1>3. CASE MongoWrite(p) \/ SqlWrite(p)
  <2>1. backend \in {"mongo", "sqlalchemy"}
    BY <1>3 DEF MongoWrite, SqlWrite
  <2>2. CASE Adds(p) /\ InsertOne(p)
    BY <1>1, <2>1, <2>2 DEF InsertOne, Lands, Inserts, Fails
  <2>3. CASE Updates(p) /\ UpdateMatching(p)
    BY <1>1, <2>1, <2>3 DEF UpdateMatching, Lands, Replaces, Fails
  <2> QED
    BY <1>1, <1>2, <1>3, <2>1, <2>2, <2>3 DEF MongoWrite, SqlWrite
<1>4. CASE RedisWrite(p)
  <2>1. backend = "redis"
    BY <1>4 DEF RedisWrite
  <2>2. CASE RedisExists(p)
    <3>1. Checks(p) \/ (Adds(p) /\ Conflict(p)) \/ (~Stored(op[p].id) /\ Raise(p))
      BY <2>2 DEF RedisExists, Checks
    <3> QED
      BY <1>1, <3>1 DEF Fails
  <2>3. CASE RedisAdd(p) \/ RedisUpdate(p)
    BY <1>1, <2>1, <2>3 DEF RedisAdd, RedisUpdate, Lands
  <2>4. CASE RedisDelete(p)
    <3>1. {op[p].id} \in SUBSET Ids /\ Idle \in Ops /\ op[p].id \in {op[p].id}
      BY <1>1 DEF Ops
    <3>2. scores' = [id \in Ids |-> IF id \in {op[p].id} THEN Paused ELSE scores[id]]
      BY <2>4 DEF RedisDelete, Typed, TypeOK
    <3>3. Loses(p)
      BY <2>4, <3>1, <3>2 DEF Loses, RedisDelete
    <3> QED
      BY <1>1, <3>3
  <2> QED
    BY <1>1, <1>4, <2>2, <2>3, <2>4 DEF RedisWrite
<1>5. CASE FileWrite(p)
  <2>1. backend = "file"
    BY <1>5 DEF FileWrite
  <2>2. CASE FileAdd(p) \/ FileUpdate(p)
    BY <1>1, <2>1, <2>2 DEF FileAdd, FileUpdate, Truncates, Fails
  <2>3. CASE FileFlush(p)
    BY <1>1, <2>1, <2>3 DEF FileFlush, Lands, Flushes, Adds, Updates, Vanishes
  <2> QED
    BY <1>1, <1>2, <1>5, <2>1, <2>2, <2>3 DEF FileWrite, FileDelete
<1> QED
  BY <1>1, <1>3, <1>4, <1>5

LEMMA WriteEffects ==
  ASSUME Typed, NEW p \in Procs, MongoWrite(p) \/ SqlWrite(p) \/ RedisWrite(p) \/ FileWrite(p)
  PROVE  Still(p) \/ Lands(p) \/ Loses(p) \/ Truncates(p)
<1>1. op[p] \in WriteOp
  BY WriteOutcomes
<1>2. CASE Fails(p)
  BY <1>1, <1>2, ConflictIsStill DEF Fails
<1>3. CASE Checks(p)
  <2> DEFINE v == [op[p] EXCEPT !.stage = "checked"]
  <2>1. v \in WriteOp /\ v.stage = "checked"
    BY <1>1, Staged DEF WriteOp
  <2>2. Becomes(p, v) /\ UNCHANGED <<cells, scores, winners>>
    BY <1>3 DEF Checks, stored, history
  <2> HIDE DEF v
  <2> QED
    BY <2>1, <2>2, QuietIsStill DEF Ops
<1>4. CASE Vanishes(p)
  BY <1>4, DoneIsStill DEF Vanishes, stored, history
<1> QED
  BY <1>2, <1>3, <1>4, WriteOutcomes

LEMMA RemovalEffects ==
  ASSUME Typed, NEW p \in Procs, RemoveBad(p) \/ RemoveAll(p)
  PROVE  Loses(p) \/ ReadsOn(p)
         \/ (Done(p) /\ UNCHANGED <<stored, now, control, locking, history, fixed, bounds>>)
<1>1. op[p] \in ReadOp /\ op[p].ids \in SUBSET Ids /\ op[p].bad \in SUBSET Ids /\ Idle \in Ops
  BY Kinds DEF Typed, RemoveBad, RemoveAll, ReadOp, Ops
<1>2. CASE RemoveBad(p)
  <2> DEFINE v == [op[p] EXCEPT !.bad = {}]
  <2>1. v \in ReadOp /\ v.do = op[p].do /\ v.got = op[p].got
    BY <1>1 DEF ReadOp
  <2>2. [op EXCEPT ![p].bad = {}] = [op EXCEPT ![p] = v]
    OBVIOUS
  <2> HIDE DEF v
  <2> QED
    BY <1>1, <1>2, <2>1, <2>2 DEF RemoveBad, Loses, Ops
<1>3. CASE /\ backend # "file" /\ Gone(Ids, [op EXCEPT ![p] = Idle])
           /\ scores' = [id \in Ids |-> Paused]
  BY <1>1, <1>3 DEF Loses
<1>4. CASE /\ Becomes(p, [op[p] EXCEPT !.stage = "read", !.ids = {id \in Ids : Stored(id)}])
           /\ UNCHANGED <<stored, now, control, locking, history, fixed, bounds>>
  BY <1>1, <1>4, ListIdsReadsOn
<1>5. ASSUME NEW id \in op[p].ids, Gone({id}, [op EXCEPT ![p].ids = @ \ {id}]), backend = "file"
      PROVE  Loses(p)
  <2> DEFINE v == [op[p] EXCEPT !.ids = @ \ {id}]
  <2>1. v \in ReadOp /\ v.do = op[p].do /\ v.got = op[p].got /\ {id} \in SUBSET Ids
    BY <1>1 DEF ReadOp
  <2>2. [op EXCEPT ![p].ids = @ \ {id}] = [op EXCEPT ![p] = v]
    OBVIOUS
  <2> HIDE DEF v
  <2> QED
    BY <1>1, <1>5, <2>1, <2>2 DEF Loses, Ops
<1> QED
  BY <1>2, <1>3, <1>4, <1>5 DEF RemoveAll

LEMMA ReadsOnIsStill ==
  ASSUME NEW p \in Procs, ReadsOn(p)
  PROVE  Still(p)
<1>1. PICK v \in ReadOp : Moves(p, v) /\ v.do = op[p].do
  BY DEF ReadsOn
<1>2. v \notin WriteOp /\ v \in Ops
  BY DEF ReadOp, WriteOp, Ops
<1> QED
  BY <1>1, <1>2 DEF ReadsOn, Still, stored, history

LEMMA StoreEffects ==
  ASSUME Typed, NEW p \in Procs, StoreStep(p)
  PROVE  Still(p) \/ Lands(p) \/ Loses(p) \/ Truncates(p) \/ StoresDown(p)
<1>1. CASE \/ MongoQuery(p) \/ SqlQuery(p) \/ RedisQuery(p) \/ RedisGetDue(p)
           \/ FileList(p) \/ FileQueryNext(p) \/ FileRead(p)
  BY <1>1, QueriesReadOn, ReadsOnIsStill
<1>2. CASE \/ MongoWrite(p) \/ SqlWrite(p) \/ RedisWrite(p) \/ FileWrite(p)
  BY <1>2, WriteEffects
<1>3. CASE FileNoDirectory(p) \/ NotFound(p) \/ Listed(p) \/ NextRead(p) \/ DueTasks(p)
  BY <1>3, DoneIsStill
     DEF FileNoDirectory, NotFound, Listed, NextRead, DueTasks, Raise, stored, history
<1>4. CASE RemoveBad(p) \/ RemoveAll(p)
  BY <1>4, RemovalEffects, ReadsOnIsStill, DoneIsStill DEF stored, history
<1>5. CASE LookedUp(p)
  <2>1. PICK id \in Ids, time \in Stamp, by \in {"copy", "user"} :
          Becomes(p, Write("update", id, time, by, "begin"))
    BY <1>5, LookedUpWrites
  <2> DEFINE v == Write("update", id, time, by, "begin")
  <2>2. v \in WriteOp /\ v.stage = "begin"
    BY WriteType DEF Write
  <2>3. Becomes(p, v) /\ UNCHANGED <<cells, scores, winners>>
    BY <1>5, <2>1 DEF LookedUp, stored, history
  <2> HIDE DEF v
  <2> QED
    BY <2>2, <2>3, QuietIsStill DEF Ops
<1> QED
  BY <1>1, <1>2, <1>3, <1>4, <1>5 DEF StoreStep

LEMMA CallIsStill ==
  ASSUME NEW p \in Procs, NEW v \in Ops, Call(p, v),
         \/ v \in WriteOp /\ v.by = "user" /\ v.do # "update" /\ v.stage = "begin"
         \/ v \in ReadOp /\ v.do # "due"
  PROVE  Still(p)
<1>1. v \in WriteOp => v.stage \in {"begin", "checked"}
  BY DEF WriteOp, ReadOp
<1> QED
  BY <1>1, QuietIsStill DEF Call, stored, history

LEMMA RoundEffects ==
  ASSUME Typed, NEW p \in Procs, RoundStep(p)
  PROVE  Still(p) \/ UNCHANGED <<cells, scores, winners, op>>
<1>1. CASE RoundStart(p)
  <2>1. PICK v \in LockOp : Moves(p, v) /\ v \notin WriteOp
    BY <1>1, LockType
  <2> QED
    BY <1>1, <2>1 DEF Still, RoundStart, Ops, stored, history
<1>2. CASE RoundLock(p)
  <2>1. Read("due", {}, Keep) \in Ops /\ Read("due", {}, Keep) \notin WriteOp
    BY ReadType DEF Ops
  <2>2. Becomes(p, Read("due", {}, Keep)) \/ Done(p)
    BY <1>2 DEF RoundLock, Enters
  <2> QED
    BY <1>2, <2>1, <2>2, QuietIsStill, DoneIsStill DEF RoundLock, stored, history
<1>3. CASE Submit(p)
  <2>1. UNCHANGED op \/ \E v \in WriteOp : Becomes(p, v) /\ v.stage = "begin"
    BY <1>3, SubmitEffect
  <2> QED
    BY <1>3, <2>1, QuietIsStill DEF Submit, stored, Ops
<1>4. CASE RoundEnd(p)
  <2>1. Read("next", {}, Keep) \in Ops /\ Read("next", {}, Keep) \notin WriteOp
    BY ReadType DEF Ops
  <2> QED
    BY <1>4, <2>1, QuietIsStill DEF RoundEnd, stored, history
<1> QED
  BY <1>1, <1>2, <1>3, <1>4 DEF RoundStep

LEMMA ShutdownIsStill ==
  ASSUME NEW p \in Procs, shutdown(p)
  PROVE  Still(p)
<1>1. Read("stop", {}, Keep) \in Ops /\ Read("stop", {}, Keep) \notin WriteOp
  BY ReadType DEF Ops
<1> QED
  BY <1>1, QuietIsStill DEF shutdown, stored, history

\* Every step is one of these, or stores go down.
LEMMA Effects ==
  ASSUME Typed, Next
  PROVE  \/ UNCHANGED <<cells, scores, winners, op>>
         \/ \E p \in Procs : Still(p) \/ Lands(p) \/ Loses(p) \/ Truncates(p) \/ StoresDown(p)
<1>1. CASE Tick
  BY <1>1 DEF Tick, stored, history
<1>2. ASSUME NEW p \in Procs, StoreStep(p) \/ RoundStep(p)
      PROVE  \/ UNCHANGED <<cells, scores, winners, op>>
             \/ Still(p) \/ Lands(p) \/ Loses(p) \/ Truncates(p) \/ StoresDown(p)
  BY <1>2, StoreEffects, RoundEffects
<1>3. ASSUME NEW p \in Procs, shutdown(p) \/ crash(p) PROVE Still(p)
  BY <1>3, ShutdownIsStill, DoneIsStill DEF crash, stored
<1>4. ASSUME NEW p \in Procs, start(p) PROVE UNCHANGED <<cells, scores, winners, op>>
  BY <1>4 DEF start, history
<1>5. ASSUME NEW p \in Procs,
         \/ \E id \in Ids : delete_task(p, id)
         \/ \E id \in Ids, time \in UserTimes, do \in {"add", "replace"} : add_task(p, id, time, do)
         \/ \E id \in Ids, then \in UserTimes \cup {Keep} : update_task(p, id, then)
         \/ get_tasks(p) \/ remove_all_tasks(p)
      PROVE Still(p)
  BY <1>5, ApiCalls, CallIsStill
<1> QED
  BY <1>1, <1>2, <1>3, <1>4, <1>5 DEF Next

\* The kind of store is fixed, and only files have a directory to remove.
CleanupOfFiles == cleanup => backend = "file"

LEMMA FixedStays ==
  ASSUME [Next]_vars
  PROVE  UNCHANGED <<backend, cleanup, strangers>>
<1>1. ASSUME NEW p \in Procs, StoreStep(p) PROVE UNCHANGED fixed
  <2>1. Raise(p) \/ Conflict(p) => UNCHANGED fixed
    BY DEF Raise, Conflict
  <2>2. Land(p, op[p].time) => UNCHANGED fixed
    BY DEF Land
  <2>3. \A ids, ops : Gone(ids, ops) => UNCHANGED fixed
    BY DEF Gone
  <2>4. MongoWrite(p) \/ SqlWrite(p) \/ RedisWrite(p) \/ FileWrite(p) => UNCHANGED fixed
    BY <2>1, <2>2, <2>3
       DEF MongoWrite, SqlWrite, RedisWrite, FileWrite, InsertOne, UpdateMatching, DeleteMatching,
           RedisExists, RedisAdd, RedisUpdate, RedisDelete, FileAdd, FileUpdate, FileFlush,
           FileDelete, FileTruncate
  <2>5. RemoveBad(p) \/ RemoveAll(p) => UNCHANGED fixed
    BY <2>3 DEF RemoveBad, RemoveAll
  <2>6. \/ MongoQuery(p) \/ SqlQuery(p) \/ RedisQuery(p) \/ RedisGetDue(p)
        \/ FileList(p) \/ FileQueryNext(p) \/ FileNoDirectory(p) \/ FileRead(p)
        => UNCHANGED fixed
    BY <2>1 DEF MongoQuery, SqlQuery, RedisQuery, RedisGetDue, FileList, FileQueryNext,
                FileNoDirectory, FileRead
  <2>7. LookedUp(p) \/ NotFound(p) \/ Listed(p) \/ DueTasks(p) \/ NextRead(p) \/ StoresDown(p)
        => UNCHANGED fixed
    BY <2>1 DEF LookedUp, NotFound, Listed, DueTasks, NextRead, StoresDown
  <2> QED
    BY <1>1, <2>4, <2>5, <2>6, <2>7 DEF StoreStep
<1>2. ASSUME NEW p \in Procs, RoundStep(p) PROVE UNCHANGED fixed
  BY <1>2 DEF RoundStep, RoundStart, RoundLock, Submit, RoundEnd
<1>3. ASSUME NEW p \in Procs, shutdown(p) \/ crash(p) \/ start(p) PROVE UNCHANGED fixed
  BY <1>3 DEF shutdown, crash, start
<1>4. ASSUME NEW p \in Procs, NEW v, Call(p, v) PROVE UNCHANGED fixed
  BY <1>4 DEF Call
<1>5. Tick \/ UNCHANGED vars => UNCHANGED fixed
  BY DEF Tick, vars
<1> QED
  BY <1>1, <1>2, <1>3, <1>4, <1>5
     DEF Next, fixed, delete_task, add_task, update_task, get_tasks, remove_all_tasks

-----------------------------------------------------------------------------
(* The sorted set of redis *)

IndexInv == Typed /\ CleanupOfFiles /\ IndexComplete

LEMMA StepIndex == IndexInv /\ [Next]_vars => IndexInv'
<1> SUFFICES ASSUME IndexInv, [Next]_vars PROVE IndexInv'
  OBVIOUS
<1>1. Typed' /\ CleanupOfFiles' /\ Typed
  BY StepTyped, FixedStays DEF IndexInv, CleanupOfFiles
<1> SUFFICES ASSUME backend = "redis" PROVE IndexComplete'
  BY <1>1, FixedStays DEF IndexInv, IndexComplete
<1>2. /\ \A id \in Ids : /\ cells[id] \in Times => scores[id] = cells[id]
                         /\ cells[id] = NoRow => scores[id] = Paused
      /\ cells \in [Ids -> Cell] /\ scores \in [Ids -> Times \cup {Paused}]
      /\ ~cleanup
  BY DEF IndexInv, IndexComplete, Typed, TypeOK, CleanupOfFiles
<1>3. CASE UNCHANGED <<cells, scores>>
  BY <1>2, <1>3 DEF IndexComplete
<1>4. ASSUME NEW p \in Procs, Lands(p) PROVE IndexComplete'
  <2>1. op[p].id \in Ids /\ op[p].time \in Stamp
    BY <1>4 DEF Lands, WriteOp
  <2>2. cells' = [cells EXCEPT ![op[p].id] = op[p].time]
    BY <1>4 DEF Lands, Land
  <2>3. \/ scores' = [scores EXCEPT ![op[p].id] = op[p].time]
        \/ op[p].time = Paused /\ scores' = scores
    BY <1>4 DEF Lands, Inserts, Replaces, Flushes, RedisAdd, RedisUpdate
  <2> QED
    BY <1>2, <2>1, <2>2, <2>3, ConstantFacts DEF IndexComplete, Stamp
<1>5. ASSUME NEW p \in Procs, Loses(p) PROVE IndexComplete'
  <2>1. PICK ids \in SUBSET Ids :
          /\ cells' = [id \in Ids |-> IF id \in ids THEN NoRow ELSE cells[id]]
          /\ scores' = [id \in Ids |-> IF id \in ids THEN Paused ELSE scores[id]]
    BY <1>5 DEF Loses, Gone
  <2> QED
    BY <1>2, <2>1, ConstantFacts DEF IndexComplete
<1>6. ASSUME NEW p \in Procs, Still(p) \/ StoresDown(p) PROVE UNCHANGED <<cells, scores>>
  BY <1>2, <1>6 DEF Still, StoresDown
<1>7. ASSUME NEW p \in Procs, Truncates(p) PROVE FALSE
  BY <1>7 DEF Truncates
<1> QED
  BY <1>1, <1>3, <1>4, <1>5, <1>6, <1>7, Effects DEF vars, stored

\* The sorted set of redis has the run time of every scheduled task and of no
\* task that is not stored, whatever the pipelines of however many processes
\* do in between (stores/redis.py:110-160).
THEOREM SortedSetIsComplete == Spec => []IndexComplete
<1>1. Init => IndexInv
  <2> SUFFICES ASSUME Init PROVE CleanupOfFiles /\ IndexComplete
    BY InitTyped DEF IndexInv
  <2> QED
    BY ConstantFacts DEF Init, CleanupOfFiles, IndexComplete
<1>2. IndexInv => IndexComplete
  BY DEF IndexInv
<1> QED
  BY <1>1, <1>2, StepIndex, PTL DEF Spec

-----------------------------------------------------------------------------
(* Who added the task *)

\* A process that has made a file, and not yet written the task to it.
Adding(p, id) == op[p].do \in {"add", "replace"} /\ op[p].stage = "opened" /\ op[p].id = id

\* A row has one winner, and while a file is being made it has none.
Wins ==
  \A id \in Ids :
    /\ cells[id] = NoRow => winners[id] = {}
    /\ \A p, q \in winners[id] : p = q
    /\ \A p \in Procs : Adding(p, id) => cells[id] # NoRow /\ winners[id] = {}
    /\ \A p, q \in Procs : Adding(p, id) /\ Adding(q, id) => p = q
WinInv == Typed /\ CleanupOfFiles /\ (backend # "redis" => Wins)

LEMMA StillWins ==
  ASSUME Typed, Wins, UNCHANGED <<cells, winners>>,
         \A p \in Procs : op'[p] # op[p] => \A id \in Ids : ~Adding(p, id)'
  PROVE  Wins'
BY DEF Wins, Adding

LEMMA LandWins ==
  ASSUME Typed, Wins, backend # "redis", NEW p \in Procs, Lands(p)
  PROVE  Wins'
<1>1. op[p] \in WriteOp /\ op[p].id \in Ids /\ op[p].time \in Stamp /\ op[p].time # NoRow
  BY ConstantFacts DEF Lands, WriteOp, Stamp
<1> DEFINE i == op[p].id
<1>2. /\ cells' = [cells EXCEPT ![i] = op[p].time]
      /\ winners' = IF Adds(p) THEN [winners EXCEPT ![i] = @ \cup {p}] ELSE winners
      /\ op' = [op EXCEPT ![p] = Idle]
  BY DEF Lands, Land, Done, Becomes, Adds
<1>3. op \in [Procs -> Ops] /\ cells \in [Ids -> Cell] /\ winners \in [Ids -> SUBSET Procs]
  BY DEF Typed, TypeOK, Ops
<1>4. Adds(p) => winners[i] = {} /\ \A q \in Procs : Adding(q, i) => q = p
  BY <1>1 DEF Lands, Inserts, Replaces, Flushes, Wins, Adding, Adds, Updates, Stored
<1>5. \A q \in Procs, id \in Ids : Adding(q, id)' => q # p /\ Adding(q, id)
  BY <1>2, <1>3 DEF Adding, Idle
<1> SUFFICES ASSUME NEW id \in Ids
             PROVE  /\ cells'[id] = NoRow => winners'[id] = {}
                    /\ \A q, r \in winners'[id] : q = r
                    /\ \A q \in Procs : Adding(q, id)' => cells'[id] # NoRow /\ winners'[id] = {}
                    /\ \A q, r \in Procs : Adding(q, id)' /\ Adding(r, id)' => q = r
  BY DEF Wins
<1>6. CASE id # i
  BY <1>2, <1>3, <1>5, <1>6 DEF Wins
<1>7. CASE id = i
  <2>1. cells'[id] # NoRow
    BY <1>1, <1>2, <1>3, <1>7
  <2>2. CASE Adds(p)
    BY <1>2, <1>3, <1>4, <1>5, <1>7, <2>1, <2>2
  <2>3. CASE ~Adds(p)
    BY <1>2, <1>3, <1>5, <1>7, <2>1, <2>3 DEF Wins
  <2> QED
    BY <2>2, <2>3
<1> QED
  BY <1>6, <1>7

\* Of a row that went away nobody is the winner, and nobody adds it any more.
LEMMA GoneWins ==
  ASSUME Typed, Wins, NEW ids \in SUBSET Ids,
         cells' = [id \in Ids |-> IF id \in ids THEN NoRow ELSE cells[id]],
         winners' = [id \in Ids |-> IF id \in ids THEN {} ELSE winners[id]],
         \A q \in Procs, id \in Ids : Adding(q, id)' => Adding(q, id) /\ id \notin ids
  PROVE  Wins'
BY DEF Wins

LEMMA LosesWins ==
  ASSUME Typed, Wins, NEW p \in Procs, Loses(p)
  PROVE  Wins'
<1>1. PICK ids \in SUBSET Ids, v \in Ops :
        /\ Gone(ids, [op EXCEPT ![p] = v])
        /\ v = Idle \/ v \in ReadOp
  BY DEF Loses
<1> DEFINE ops == [op EXCEPT ![p] = v]
<1>2. op \in [Procs -> Ops]
  BY DEF Typed, TypeOK, Ops
<1>3. ASSUME NEW q \in Procs, NEW id \in Ids, Adding(q, id)'
      PROVE  Adding(q, id) /\ id \notin ids
  <2>1. op'[q] = IF ops[q].do \in {"add", "replace", "update"} /\ ops[q].stage = "opened"
                    /\ ops[q].id \in ids
                 THEN [ops[q] EXCEPT !.stage = "unlinked"] ELSE ops[q]
    BY <1>1 DEF Gone
  <2>2. ops[q] \in Ops
    BY <1>2
  <2> HIDE DEF ops
  <2>3. ~(ops[q].do \in {"add", "replace", "update"} /\ ops[q].stage = "opened" /\ ops[q].id \in ids)
    <3> SUFFICES ASSUME ops[q].do \in {"add", "replace", "update"}, ops[q].stage = "opened",
                        ops[q].id \in ids
                 PROVE  FALSE
      OBVIOUS
    <3>1. ops[q] \in WriteOp
      BY <2>2 DEF Ops, WriteOp, ReadOp, LockOp, Idle
    <3>2. op'[q].stage = "unlinked"
      BY <2>1, <3>1 DEF WriteOp
    <3> QED
      BY <1>3, <3>2 DEF Adding
  <2>4. op'[q] = ops[q]
    BY <2>1, <2>3
  <2>5. q # p
    BY <1>1, <1>2, <1>3, <2>4 DEF Adding, ops, Idle, ReadOp
  <2>6. ops[q] = op[q]
    BY <1>2, <2>5 DEF ops
  <2> QED
    BY <1>3, <2>3, <2>4, <2>6 DEF Adding
<1> QED
  BY <1>1, <1>3, GoneWins DEF Gone

LEMMA TruncateWins ==
  ASSUME Typed, Wins, NEW p \in Procs, Truncates(p)
  PROVE  Wins'
<1>1. op[p] \in WriteOp /\ op[p].id \in Ids
  BY DEF Truncates, WriteOp
<1> DEFINE i == op[p].id
           v == [op[p] EXCEPT !.stage = "opened"]
<1>2. v.do = op[p].do /\ v.id = i /\ v.stage = "opened"
  BY <1>1 DEF WriteOp
<1>3. /\ cells' = [cells EXCEPT ![i] = Empty] /\ winners' = winners
      /\ op' = [op EXCEPT ![p] = v]
  BY DEF Truncates, FileTruncate, Becomes
<1>4. op \in [Procs -> Ops] /\ cells \in [Ids -> Cell]
  BY DEF Typed, TypeOK, Ops
<1> HIDE DEF v
<1>5. \A q \in Procs, id \in Ids :
        Adding(q, id)' => Adding(q, id) \/ (q = p /\ id = i /\ Adds(p))
  BY <1>2, <1>3, <1>4 DEF Adding, Adds
<1>6. Adds(p) => cells[i] = NoRow
  BY DEF Truncates, Adds, Updates, Stored
<1>7. cells'[i] # NoRow /\ \A id \in Ids : id # i => cells'[id] = cells[id]
  BY <1>1, <1>3, <1>4, ConstantFacts
<1>8. Adds(p) => winners[i] = {} /\ \A q \in Procs : ~Adding(q, i)
  BY <1>1, <1>6 DEF Wins
<1> SUFFICES ASSUME NEW id \in Ids
             PROVE  /\ cells'[id] = NoRow => winners'[id] = {}
                    /\ \A q, r \in winners'[id] : q = r
                    /\ \A q \in Procs : Adding(q, id)' => cells'[id] # NoRow /\ winners'[id] = {}
                    /\ \A q, r \in Procs : Adding(q, id)' /\ Adding(r, id)' => q = r
  BY DEF Wins
<1>9. CASE id = i
  BY <1>3, <1>5, <1>7, <1>8, <1>9 DEF Wins
<1>10. CASE id # i
  BY <1>3, <1>5, <1>7, <1>10 DEF Wins
<1> QED
  BY <1>9, <1>10

LEMMA StoresDownWins ==
  ASSUME Typed, Wins, NEW p \in Procs, StoresDown(p)
  PROVE  Wins'
<1>1. CASE cleanup
  <2>1. RemoveDirectory
    BY <1>1 DEF StoresDown
  <2>2. ASSUME NEW q \in Procs, NEW id \in Ids, Adding(q, id)' PROVE FALSE
    BY <1>1, <2>2, DownOps DEF Adding
  <2> QED
    BY <2>1, <2>2 DEF Wins, RemoveDirectory
<1>2. CASE ~cleanup
  <2>1. ASSUME NEW q \in Procs, op'[q] # op[q], NEW id \in Ids, Adding(q, id)' PROVE FALSE
    <3>1. q # p
      BY <2>1, DownOps DEF Adding, Idle
    <3>2. op'[q].do = "lock"
      BY <1>2, <2>1, <3>1, DownOps DEF LockOp
    <3> QED
      BY <2>1, <3>2 DEF Adding
  <2> QED
    BY <1>2, <2>1, StillWins DEF StoresDown
<1> QED
  BY <1>1, <1>2

LEMMA StepWins == WinInv /\ [Next]_vars => WinInv'
<1> SUFFICES ASSUME WinInv, [Next]_vars PROVE WinInv'
  OBVIOUS
<1>1. Typed' /\ CleanupOfFiles' /\ Typed
  BY StepTyped, FixedStays DEF WinInv, CleanupOfFiles
<1> SUFFICES ASSUME backend # "redis" PROVE Wins'
  BY <1>1, FixedStays DEF WinInv
<1>2. Wins
  BY DEF WinInv
<1>3. CASE UNCHANGED <<cells, winners, op>>
  BY <1>1, <1>2, <1>3, StillWins
<1>4. ASSUME NEW p \in Procs, Still(p) PROVE Wins'
  <2>1. PICK v \in Ops : Moves(p, v) /\ (v \in WriteOp => v.stage \in {"begin", "checked"})
    BY <1>4 DEF Still
  <2>2. op \in [Procs -> Ops]
    BY <1>1 DEF Typed, TypeOK, Ops
  <2>3. ASSUME NEW q \in Procs, op'[q] # op[q], NEW id \in Ids PROVE ~Adding(q, id)'
    BY <2>1, <2>2, <2>3 DEF Moves, Adding, Ops, WriteOp, ReadOp, LockOp, Idle
  <2> QED
    BY <1>1, <1>2, <1>4, <2>3, StillWins DEF Still
<1> QED
  BY <1>1, <1>2, <1>3, <1>4, Effects, LandWins, LosesWins, TruncateWins, StoresDownWins
     DEF vars, stored, history

\* Of the processes that add one id, one has added the task that is stored, for
\* files, MongoDB and SQL: through files that are made and not yet written,
\* readers that remove them, shutdowns and crashes (stores/file.py:141,
\* mongo.py:116, sqlalchemy.py:137).
THEOREM OneProcessAdds == Spec => []OneWinner
<1>1. Init => WinInv
  <2> SUFFICES ASSUME Init PROVE CleanupOfFiles /\ Wins
    BY InitTyped DEF WinInv
  <2> QED
    BY DEF Init, CleanupOfFiles, Wins, Adding, Idle
<1>2. WinInv => OneWinner
  <2> SUFFICES ASSUME WinInv, backend # "redis", NEW id \in Ids
               PROVE  Cardinality(winners[id]) <= 1
    BY DEF OneWinner
  <2>1. \A p, q \in winners[id] : p = q
    BY DEF WinInv, Wins
  <2>2. CASE winners[id] = {}
    BY <2>2, FS_EmptySet
  <2>3. ASSUME NEW p \in winners[id] PROVE Cardinality(winners[id]) <= 1
    <3>1. winners[id] = {p}
      BY <2>1
    <3>2. Cardinality({p}) = 1
      BY FS_Singleton
    <3> QED
      BY <3>1, <3>2
  <2> QED
    BY <2>2, <2>3
<1> QED
  BY <1>1, <1>2, StepWins, PTL DEF Spec

-----------------------------------------------------------------------------
(* Rounds of schedulers that are configured with lock_path *)

\* A round's write of a task it has submitted, as long as it can reach the store.
Pending(q, id) ==
  /\ op[q].do \in {"update", "delete"} /\ op[q].by = "round"
  /\ op[q].id = id /\ op[q].stage # "unlinked"
\* Nothing was submitted at this time or later since a user chose the schedule.
Fresh(id, time) == time \in Times => \A t \in ran[id] : t < time

\* What a process does for a round it does in one, and a round holds the lock
\* file, unless it was removed since it was opened or locked.
Attended(p) ==
  /\ ~InRound(p) => round[p] = NoRound
  /\ op[p].do = "due" => InRound(p)
  /\ op[p].do \in {"update", "delete"} /\ op[p].by = "round" => InRound(p)
  /\ op[p].do \in {"add", "replace"} => op[p].by = "user"
  /\ InRound(p) => holder = p \/ excused = Ids
  /\ op[p].do = "lock" => ~InRound(p) /\ (op[p].stage = "unlinked" => excused = Ids)

\* The row of a task, its copies in rounds and queries and what a round is to
\* write lie ahead of its runs.  A row may be behind, and a copy that a file is
\* open for, while the round that has run the task is about to write.
Ahead(id) ==
  /\ Fresh(id, cells[id]) \/ \E q \in Procs : Pending(q, id)
  /\ \A p \in Procs :
       /\ Fresh(id, round[p].tasks[id])
       /\ op[p].do = "due" => Fresh(id, op[p].got[id])
       /\ op[p].do = "update" /\ op[p].by = "round" /\ op[p].id = id => Fresh(id, op[p].time)
       /\ OpenCopy(p, id) => cells[id] # NoRow
       /\ OpenCopy(p, id) /\ cells[id] = Empty =>
            Fresh(id, op[p].time) \/ \E q \in Procs : Pending(q, id)

Excluded == (\A p \in Procs : Attended(p)) /\ (\A id \in Ids \ excused : Ahead(id)) /\ twice = {}

\* Only one process is in a round, as long as something is not excused.
LEMMA OneRound ==
  ASSUME Excluded, Typed, NEW id \in Ids \ excused, NEW p \in Procs, NEW q \in Procs,
         InRound(p), InRound(q)
  PROVE  p = q
BY DEF Excluded, Attended, Typed, TypeOK

LEMMA PendingInRound ==
  ASSUME Excluded, NEW q \in Procs, NEW id, Pending(q, id)
  PROVE  InRound(q)
BY DEF Excluded, Attended, Pending

\* A call goes on: a query for due tasks has read rows, a write of a round is the
\* same write.
LEMMA QuietRounds ==
  ASSUME Excluded, Typed, NEW p \in Procs, NEW v \in Ops, Moves(p, v),
         UNCHANGED <<cells, round, holder, excused, ran, twice>>,
         v.do = "due" => /\ op[p].do = "due"
                         /\ \A id \in Ids : v.got[id] \in {NoRow, cells[id], op[p].got[id]},
         v.do \in {"update", "delete"} /\ v.by = "round" =>
           op[p].do = v.do /\ op[p].by = "round" /\ op[p].id = v.id /\ op[p].time = v.time,
         v.do \in {"add", "replace"} => v.by = "user",
         v \in WriteOp => v.stage \in {"begin", "checked"},
         v.do = "lock" => ~InRound(p) /\ v.stage = "opened",
         \A id \in Ids \ excused : Pending(p, id) =>
           v.do \in {"update", "delete"} /\ v.by = "round" /\ v.id = id /\ v.stage # "unlinked"
  PROVE  Excluded'
<1>1. op \in [Procs -> Ops] /\ op' = [op EXCEPT ![p] = v]
  BY DEF Typed, TypeOK, Ops, Moves
<1>2. \A q \in Procs : Attended(q)'
  BY <1>1 DEF Excluded, Attended, InRound
<1>3. ASSUME NEW id \in Ids \ excused' PROVE Ahead(id)'
  <2>1. \A q \in Procs : Pending(q, id) => Pending(q, id)'
    BY <1>1, <1>3 DEF Pending
  <2>2. \A t : Fresh(id, t)' <=> Fresh(id, t)
    BY DEF Fresh
  <2>3. Ahead(id)
    BY <1>3 DEF Excluded
  <2>4. ASSUME v.do = "due" PROVE Fresh(id, v.got[id])
    <3>1. Fresh(id, NoRow) /\ Fresh(id, op[p].got[id])
      BY <2>3, <2>4, ConstantFacts DEF Ahead, Fresh
    <3>2. Fresh(id, cells[id])
      <4>1. ASSUME NEW q \in Procs, Pending(q, id) PROVE FALSE
        <5>1. InRound(q) /\ InRound(p)
          BY <2>4, <4>1, PendingInRound DEF Excluded, Attended
        <5>2. q = p
          BY <5>1, <1>3, OneRound
        <5> QED
          BY <2>4, <4>1, <5>2 DEF Pending
      <4> QED
        BY <2>3, <4>1 DEF Ahead
    <3> QED
      BY <2>4, <3>1, <3>2
  <2>5. \A q \in Procs : OpenCopy(q, id)' => OpenCopy(q, id) /\ op'[q] = op[q]
    <3> SUFFICES ASSUME NEW q \in Procs, OpenCopy(q, id)' PROVE q # p
      BY <1>1 DEF OpenCopy
    <3> QED
      BY <1>1 DEF OpenCopy, Ops, WriteOp, ReadOp, LockOp, Idle
  <2>6. Fresh(id, cells[id])' \/ \E q \in Procs : Pending(q, id)'
    BY <2>1, <2>2, <2>3 DEF Ahead
  <2>7. ASSUME NEW q \in Procs
        PROVE  /\ Fresh(id, round[q].tasks[id])'
               /\ op'[q].do = "due" => Fresh(id, op[q].got[id])'
               /\ op'[q].do = "update" /\ op'[q].by = "round" /\ op'[q].id = id
                    => Fresh(id, op[q].time)'
               /\ OpenCopy(q, id)' => cells'[id] # NoRow
               /\ OpenCopy(q, id)' /\ cells'[id] = Empty =>
                    Fresh(id, op[q].time)' \/ \E r \in Procs : Pending(r, id)'
    <3>1. Fresh(id, round[q].tasks[id])'
      BY <2>2, <2>3 DEF Ahead
    <3>2. op'[q].do = "due" => Fresh(id, op[q].got[id])'
      BY <1>1, <2>2, <2>3, <2>4 DEF Ahead
    <3>3. op'[q].do = "update" /\ op'[q].by = "round" /\ op'[q].id = id => Fresh(id, op[q].time)'
      BY <1>1, <2>2, <2>3 DEF Ahead
    <3>4. /\ OpenCopy(q, id)' => cells'[id] # NoRow
          /\ OpenCopy(q, id)' /\ cells'[id] = Empty =>
               Fresh(id, op[q].time)' \/ \E r \in Procs : Pending(r, id)'
      BY <2>1, <2>2, <2>3, <2>5 DEF Ahead
    <3> QED
      BY <3>1, <3>2, <3>3, <3>4
  <2> QED
    BY <2>6, <2>7 DEF Ahead
<1> QED
  BY <1>2, <1>3 DEF Excluded

\* A round that is over leaves no trace, when what it had to write is gone.
LEMMA ReleaseRounds ==
  ASSUME Excluded, Typed, NEW p \in Procs, Done(p), Release(p), UNCHANGED <<cells, ran, twice>>,
         excused \subseteq excused', excused' \subseteq Ids,
         \A id \in Ids \ excused' : Pending(p, id) => cells[id] = NoRow
  PROVE  Excluded'
<1>1. op \in [Procs -> Ops] /\ op' = [op EXCEPT ![p] = Idle]
  BY DEF Typed, TypeOK, Ops, Done, Becomes
<1>2. round' = [round EXCEPT ![p] = NoRound] /\ round \in [Procs -> Rounds]
  BY DEF Release, Typed, TypeOK, Rounds
<1>3. NoRound.at = -1 /\ \A id \in Ids : NoRound.tasks[id] = NoRow
  BY DEF NoRound, NothingRead
<1>4. ASSUME NEW q \in Procs PROVE Attended(q)'
  <2>1. CASE q = p
    BY <1>1, <1>2, <1>3, <2>1 DEF Attended, InRound, Idle
  <2>2. CASE q # p
    <3>1. op'[q] = op[q] /\ round'[q] = round[q] /\ (holder = q => holder' = q)
      BY <1>1, <1>2, <2>2 DEF Release
    <3> QED
      BY <3>1 DEF Excluded, Attended, InRound
  <2> QED
    BY <2>1, <2>2
<1>5. ASSUME NEW id \in Ids \ excused' PROVE Ahead(id)'
  <2>1. Ahead(id)
    BY <1>5 DEF Excluded
  <2>2. \A t : Fresh(id, t)' <=> Fresh(id, t)
    BY DEF Fresh
  <2>3. Fresh(id, NoRow)
    BY ConstantFacts DEF Fresh
  <2>4. \A q \in Procs : q # p /\ Pending(q, id) => Pending(q, id)'
    BY <1>1 DEF Pending
  <2>5. cells[id] = NoRow \/ \A q \in Procs : Pending(q, id) => Pending(q, id)'
    BY <1>5, <2>4
  <2>6. \A q \in Procs : Fresh(id, round'[q].tasks[id])
    BY <1>2, <1>3, <1>5, <2>1, <2>3 DEF Ahead
  <2>7. ASSUME NEW q \in Procs
        PROVE  /\ op'[q].do = "due" => Fresh(id, op'[q].got[id])
               /\ op'[q].do = "update" /\ op'[q].by = "round" /\ op'[q].id = id
                    => Fresh(id, op'[q].time)
               /\ OpenCopy(q, id)' => OpenCopy(q, id) /\ op'[q] = op[q]
    BY <1>1, <2>1 DEF Ahead, OpenCopy, Idle
  <2> QED
    BY <2>1, <2>2, <2>3, <2>5, <2>6, <2>7, ConstantFacts DEF Ahead
<1> QED
  BY <1>4, <1>5 DEF Excluded

LEMMA RaiseRounds ==
  ASSUME Excluded, Typed, NEW p \in Procs, Raise(p),
         \A id \in Ids \ excused : Pending(p, id) => cells[id] = NoRow
  PROVE  Excluded'
<1>1. Done(p) /\ UNCHANGED <<cells, ran, twice, excused>> /\ excused \subseteq Ids
  BY DEF Raise, stored, history, Typed, TypeOK
<1>2. CASE InRound(p)
  BY <1>1, <1>2, ReleaseRounds DEF Raise
<1>3. CASE ~InRound(p)
  <2>1. Moves(p, Idle) /\ UNCHANGED <<round, holder>>
    BY <1>1, <1>3 DEF Raise, Done, Becomes, Moves, locking
  <2>2. \A id \in Ids : ~Pending(p, id)
    BY <1>3, PendingInRound
  <2>3. Idle \in Ops /\ Idle \notin WriteOp /\ Idle.do = "idle"
    BY DEF Ops, Idle, WriteOp
  <2> QED
    BY <1>1, <2>1, <2>2, <2>3, QuietRounds
<1> QED
  BY <1>2, <1>3

\* A call of no consequence for a round ends, or another begins or goes on.
LEMMA AsideRounds ==
  ASSUME Excluded, Typed, NEW p \in Procs, NEW v \in Ops, Moves(p, v),
         UNCHANGED <<cells, round, holder, excused, ran, twice>>,
         \A id \in Ids : ~Pending(p, id), v.do # "due",
         v.do = "lock" => ~InRound(p) /\ v.stage = "opened",
         v \in WriteOp => v.by \in {"user", "copy"} /\ v.stage \in {"begin", "checked"}
                          /\ (v.by = "copy" => v.do = "update")
  PROVE  Excluded'
<1>1. v.do \in {"add", "replace", "update", "delete"} => v \in WriteOp
  BY DEF Ops, WriteOp, ReadOp, LockOp, Idle
<1> QED
  BY <1>1, QuietRounds

LEMMA DoneRounds ==
  ASSUME Excluded, Typed, NEW p \in Procs, Done(p), \A id \in Ids : ~Pending(p, id),
         UNCHANGED <<cells, round, holder, excused, ran, twice>>
  PROVE  Excluded'
<1>1. Moves(p, Idle) /\ Idle \in Ops /\ Idle \notin WriteOp /\ Idle.do = "idle"
  BY DEF Done, Becomes, Moves, Ops, Idle, WriteOp
<1> QED
  BY <1>1, AsideRounds

LEMMA ReadsOnRounds ==
  ASSUME Excluded, Typed, NEW p \in Procs, ReadsOn(p)
  PROVE  Excluded'
<1>1. PICK v \in ReadOp : /\ Moves(p, v) /\ v.do = op[p].do
                          /\ \A id \in Ids : v.got[id] \in {NoRow, cells[id], op[p].got[id]}
  BY DEF ReadsOn
<1>2. UNCHANGED <<cells, round, holder, excused, ran, twice>> /\ v \in Ops /\ v \notin WriteOp
      /\ v.do \notin {"add", "replace", "update", "delete", "lock"}
  BY DEF ReadsOn, stored, control, locking, history, Ops, ReadOp, WriteOp
<1>3. \A id \in Ids : ~Pending(p, id)
  BY <1>1, <1>2 DEF Pending
<1> QED
  BY <1>1, <1>2, <1>3, QuietRounds

LEMMA FailsRounds ==
  ASSUME Excluded, Typed, NEW p \in Procs, op[p] \in WriteOp,
         Fails(p) \/ Checks(p) \/ Vanishes(p)
  PROVE  Excluded'
<1>1. Adds(p) => op[p].by = "user" /\ \A id \in Ids : ~Pending(p, id)
  BY DEF Excluded, Attended, Adds, Pending
<1>2. CASE Raise(p) /\ (Adds(p) \/ ~Stored(op[p].id))
  <2>1. \A id \in Ids \ excused : Pending(p, id) => cells[id] = NoRow
    BY <1>1, <1>2 DEF Pending, Stored
  <2> QED
    BY <1>2, <2>1, RaiseRounds
<1>3. CASE Adds(p) /\ op[p].do = "replace" /\ Conflict(p)
  <2> DEFINE v == [op[p] EXCEPT !.do = "update", !.stage = "begin"]
  <2>1. v \in WriteOp /\ v.do = "update" /\ v.by = "user" /\ v.stage = "begin"
    BY <1>1, <1>3 DEF WriteOp
  <2>2. Moves(p, v) /\ UNCHANGED <<cells, round, holder, excused, ran, twice>>
    BY <1>3 DEF Conflict, Becomes, Moves, stored, control, locking, history
  <2> HIDE DEF v
  <2> QED
    BY <1>1, <1>3, <2>1, <2>2, AsideRounds DEF Ops
<1>4. CASE Checks(p)
  <2> DEFINE v == [op[p] EXCEPT !.stage = "checked"]
  <2>1. v \in WriteOp /\ v.stage = "checked" /\ v.do = op[p].do /\ v.by = op[p].by
        /\ v.id = op[p].id /\ v.time = op[p].time
    BY DEF WriteOp
  <2>2. Moves(p, v) /\ UNCHANGED <<cells, round, holder, excused, ran, twice>>
    BY <1>4 DEF Checks, Becomes, Moves, stored, control, locking, history
  <2>3. v.do \notin {"due", "lock"} /\ (v.do \in {"add", "replace"} => v.by = "user")
    BY <1>1, <2>1 DEF WriteOp, Adds
  <2>4. \A id \in Ids \ excused : Pending(p, id) =>
          v.do \in {"update", "delete"} /\ v.by = "round" /\ v.id = id /\ v.stage # "unlinked"
    BY <2>1 DEF Pending
  <2> HIDE DEF v
  <2> QED
    BY <2>1, <2>2, <2>3, <2>4, QuietRounds DEF Ops
<1>5. CASE Vanishes(p)
  <2>1. \A id \in Ids : ~Pending(p, id)
    BY <1>5 DEF Vanishes, Pending
  <2> QED
    BY <1>5, <2>1, DoneRounds DEF Vanishes, stored, control, locking, history
<1> QED
  BY <1>1, <1>2, <1>3, <1>4, <1>5 DEF Fails, Conflict

LEMMA DueTasksRounds ==
  ASSUME Excluded, Typed, NEW p \in Procs, DueTasks(p)
  PROVE  Excluded'
<1>1. op[p].do = "due" /\ InRound(p) /\ (\A id \in Ids : ~Pending(p, id))
  BY DEF DueTasks, RowsRead, Excluded, Attended, Pending
<1> DEFINE tasks == [id \in Ids |-> IF backend # "file" \/ DueCell(op[p].got[id], round[p].at)
                                    THEN op[p].got[id] ELSE NoRow]
           r == [round[p] EXCEPT !.tasks = tasks]
<1>2. round \in [Procs -> Rounds] /\ op \in [Procs -> Ops] /\ op' = [op EXCEPT ![p] = Idle]
  BY DEF Typed, TypeOK, Rounds, Ops, DueTasks, Done, Becomes
<1>3. round' = [round EXCEPT ![p] = r]
  BY DEF DueTasks
<1>4. r.at = round[p].at /\ r.tasks = tasks /\ \A id \in Ids : tasks[id] \in {NoRow, op[p].got[id]}
  BY <1>2 DEF Rounds
<1> HIDE DEF r, tasks
<1>5. UNCHANGED <<cells, holder, excused, ran, twice>>
  BY DEF DueTasks, stored, locking, history
<1>6. ASSUME NEW q \in Procs PROVE Attended(q)'
  BY <1>1, <1>2, <1>3, <1>4, <1>5 DEF Excluded, Attended, InRound, Idle
<1>7. ASSUME NEW id \in Ids \ excused' PROVE Ahead(id)'
  <2>1. Ahead(id)
    BY <1>5, <1>7 DEF Excluded
  <2>2. \A t : Fresh(id, t)' <=> Fresh(id, t)
    BY <1>5 DEF Fresh
  <2>3. Fresh(id, NoRow) /\ Fresh(id, op[p].got[id])
    BY <1>1, <2>1, ConstantFacts DEF Fresh, Ahead
  <2>4. \A q \in Procs : Pending(q, id) => Pending(q, id)'
    BY <1>1, <1>2 DEF Pending
  <2>5. \A q \in Procs : Fresh(id, round'[q].tasks[id])
    BY <1>2, <1>3, <1>4, <2>1, <2>3 DEF Ahead
  <2>6. ASSUME NEW q \in Procs
        PROVE  /\ op'[q].do = "due" => Fresh(id, op'[q].got[id])
               /\ op'[q].do = "update" /\ op'[q].by = "round" /\ op'[q].id = id
                    => Fresh(id, op'[q].time)
               /\ OpenCopy(q, id)' => OpenCopy(q, id) /\ op'[q] = op[q]
    BY <1>2, <2>1 DEF Ahead, OpenCopy, Idle
  <2> QED
    BY <1>5, <2>1, <2>2, <2>4, <2>5, <2>6 DEF Ahead
<1> QED
  BY <1>5, <1>6, <1>7 DEF Excluded

\* A copy is written over the row it was read from, or it is excused; a user
\* chooses anew; and what a round writes is later than what it has run.
LEMMA LandsRounds ==
  ASSUME Excluded, Typed, NEW p \in Procs, Lands(p)
  PROVE  Excluded'
<1>1. /\ op[p] \in WriteOp /\ op[p].id \in Ids /\ op[p].time \in Stamp
      /\ op[p].by \in {"user", "copy", "round"} /\ op[p].do # "due"
  BY DEF Lands, WriteOp
<1> DEFINE i == op[p].id
<1>2. /\ cells' = [cells EXCEPT ![i] = op[p].time]
      /\ ran' = IF op[p].by = "user" THEN [ran EXCEPT ![i] = {}] ELSE ran
      /\ op' = [op EXCEPT ![p] = Idle]
      /\ UNCHANGED <<round, holder, twice>>
  BY DEF Lands, Land, Done, Becomes, locking
<1>3. /\ op \in [Procs -> Ops] /\ cells \in [Ids -> Cell] /\ ran \in [Ids -> SUBSET Times]
      /\ excused \subseteq Ids
  BY DEF Typed, TypeOK, Ops
<1>4. excused \subseteq excused' /\ excused' \subseteq Ids
  BY <1>1, <1>3 DEF Lands, Inserts, Replaces, Flushes, RedisAdd, RedisUpdate, Excuse, StaleCopy
<1>5. Adds(p) \/ Updates(p)
  BY DEF Lands, Inserts, Replaces, Flushes, RedisAdd, RedisUpdate
<1>6. Adds(p) => op[p].by = "user"
  BY DEF Adds, Excluded, Attended
<1>7. op[p].by = "copy" /\ i \notin excused' =>
        cells[i] = op[p].time \/ (cells[i] = Empty /\ OpenCopy(p, i))
  BY <1>5, <1>6 DEF Lands, Inserts, Replaces, Flushes, RedisAdd, RedisUpdate, Excuse, StaleCopy,
                    OpenCopy, Updates
<1>8. ASSUME NEW q \in Procs PROVE Attended(q)'
  BY <1>2, <1>3, <1>4 DEF Excluded, Attended, InRound, Idle
<1>9. ASSUME NEW id \in Ids \ excused' PROVE Ahead(id)'
  <2>1. Ahead(id) /\ id \notin excused
    BY <1>4, <1>9 DEF Excluded
  <2>2. \A t : Fresh(id, t) => Fresh(id, t)'
    BY <1>1, <1>2, <1>3, <1>9 DEF Fresh
  <2>3. \A q \in Procs : q # p /\ Pending(q, id) => Pending(q, id)'
    BY <1>2, <1>3 DEF Pending
  <2>4. \A q \in Procs : OpenCopy(q, id)' => q # p /\ OpenCopy(q, id) /\ op'[q] = op[q]
    BY <1>2, <1>3 DEF OpenCopy, Idle
  <2>5. Fresh(id, cells[id])' \/ \E q \in Procs : Pending(q, id)'
    <3>1. CASE id # i
      BY <1>2, <1>3, <2>1, <2>2, <2>3, <3>1 DEF Ahead, Pending
    <3>2. CASE id = i /\ op[p].by = "user"
      BY <1>1, <1>2, <1>3, <3>2 DEF Fresh
    <3>3. CASE id = i /\ op[p].by = "round"
      <4>1. Fresh(id, op[p].time)
        BY <1>5, <1>6, <2>1, <3>3 DEF Ahead, Updates
      <4> QED
        BY <1>2, <1>3, <2>2, <3>3, <4>1
    <3>4. CASE id = i /\ op[p].by = "copy"
      <4>1. Fresh(id, op[p].time) \/ \E q \in Procs : Pending(q, id)
        BY <1>7, <1>9, <2>1, <3>4 DEF Ahead
      <4>2. ~Pending(p, id)
        BY <3>4 DEF Pending
      <4> QED
        BY <1>2, <1>3, <2>2, <2>3, <3>4, <4>1, <4>2
    <3> QED
      BY <1>1, <3>1, <3>2, <3>3, <3>4
  <2>6. cells'[id] = Empty => id # i
    BY <1>1, <1>2, <1>3, ConstantFacts DEF Stamp
  <2>7. id # i => ~Pending(p, id) /\ cells'[id] = cells[id]
    BY <1>2, <1>3 DEF Pending
  <2>8. cells[id] # NoRow => cells'[id] # NoRow
    BY <1>1, <1>2, <1>3, <1>9, ConstantFacts DEF Stamp
  <2>9. ASSUME NEW q \in Procs
        PROVE  /\ Fresh(id, round[q].tasks[id])'
               /\ op'[q].do = "due" => Fresh(id, op[q].got[id])'
               /\ op'[q].do = "update" /\ op'[q].by = "round" /\ op'[q].id = id
                    => Fresh(id, op[q].time)'
    BY <1>2, <1>3, <2>1, <2>2 DEF Ahead, Idle
  <2>10. ASSUME NEW q \in Procs, OpenCopy(q, id)'
         PROVE  /\ cells'[id] # NoRow
                /\ cells'[id] = Empty =>
                     Fresh(id, op[q].time)' \/ \E r \in Procs : Pending(r, id)'
    BY <2>1, <2>2, <2>3, <2>4, <2>6, <2>7, <2>8, <2>10 DEF Ahead
  <2> QED
    BY <2>5, <2>9, <2>10 DEF Ahead
<1> QED
  BY <1>2, <1>8, <1>9 DEF Excluded

\* What the processes do when rows go away: who has one of the files open
\* writes to no row any more.
LEMMA GoneOps ==
  ASSUME Typed, NEW p \in Procs, NEW ids \in SUBSET Ids, NEW v \in Ops,
         Gone(ids, [op EXCEPT ![p] = v]), v = Idle \/ v \in ReadOp
  PROVE  /\ op'[p] = v
         /\ \A q \in Procs : q # p /\ op'[q] # op[q] =>
              /\ op'[q] = [op[q] EXCEPT !.stage = "unlinked"]
              /\ op[q] \in WriteOp /\ op[q].id \in ids
         /\ \A q \in Procs, id \in ids : ~OpenCopy(q, id)'
<1> DEFINE ops == [op EXCEPT ![p] = v]
<1>1. op \in [Procs -> Ops]
  BY DEF Typed, TypeOK, Ops
<1>2. ASSUME NEW q \in Procs
      PROVE  op'[q] = IF ops[q].do \in {"add", "replace", "update"} /\ ops[q].stage = "opened"
                         /\ ops[q].id \in ids
                      THEN [ops[q] EXCEPT !.stage = "unlinked"] ELSE ops[q]
  BY DEF Gone
<1>3. ops[p] = v /\ \A q \in Procs : q # p => ops[q] = op[q]
  BY <1>1
<1> HIDE DEF ops
<1>4. v.do \notin {"add", "replace", "update"}
  BY DEF ReadOp, Idle
<1>5. op'[p] = v
  BY <1>2, <1>3, <1>4
<1>6. ASSUME NEW q \in Procs, q # p, op'[q] # op[q]
      PROVE  /\ op'[q] = [op[q] EXCEPT !.stage = "unlinked"]
             /\ op[q] \in WriteOp /\ op[q].id \in ids
  BY <1>1, <1>2, <1>3, <1>6 DEF Ops, WriteOp, ReadOp, LockOp, Idle
<1>7. ASSUME NEW q \in Procs, NEW id \in ids, OpenCopy(q, id)' PROVE FALSE
  <2>1. q # p
    BY <1>4, <1>5, <1>7 DEF OpenCopy
  <2>2. CASE op'[q] = op[q]
    <3>1. op[q] \in WriteOp /\ op[q].do = "update" /\ op[q].stage = "opened" /\ op[q].id \in ids
      BY <1>1, <1>7, <2>2 DEF OpenCopy, Ops, WriteOp, ReadOp, LockOp, Idle
    <3>2. op'[q] = [op[q] EXCEPT !.stage = "unlinked"]
      BY <1>2, <1>3, <2>1, <3>1
    <3> QED
      BY <1>7, <3>1, <3>2 DEF OpenCopy, WriteOp
  <2>3. CASE op'[q] # op[q]
    BY <1>6, <1>7, <2>1, <2>3 DEF OpenCopy, WriteOp
  <2> QED
    BY <2>2, <2>3
<1> QED
  BY <1>5, <1>6, <1>7

\* Rows that are gone are due no more; who had their files open lands nowhere.
LEMMA GoneAhead ==
  ASSUME Excluded, Typed, NEW p \in Procs, NEW ids \in SUBSET Ids, NEW id \in Ids \ excused,
         cells' = [j \in Ids |-> IF j \in ids THEN NoRow ELSE cells[j]],
         UNCHANGED <<round, ran>>,
         \/ op'[p] = op[p]
         \/ op'[p].do = "due" => op[p].do = "due" /\ op'[p].got = op[p].got,
         op'[p] = op[p] \/ op'[p].do \notin {"add", "replace", "update", "delete"},
         op'[p] = op[p] \/ op[p] \notin WriteOp \/ op[p].id \in ids,
         \A q \in Procs : q # p /\ op'[q] # op[q] =>
              /\ op'[q] = [op[q] EXCEPT !.stage = "unlinked"]
              /\ op[q] \in WriteOp /\ op[q].id \in ids,
         \A q \in Procs, j \in ids : ~OpenCopy(q, j)'
  PROVE  Ahead(id)'
<1>1. Ahead(id)
  BY DEF Excluded
<1>2. \A t : Fresh(id, t)' <=> Fresh(id, t)
  BY DEF Fresh
<1>3. Fresh(id, NoRow)
  BY ConstantFacts DEF Fresh
<1>4. op \in [Procs -> Ops]
  BY DEF Typed, TypeOK, Ops
<1>5. ASSUME NEW q \in Procs
      PROVE  /\ op'[q].do = "due" => op[q].do = "due" /\ op'[q].got = op[q].got
             /\ op'[q].do = "update" /\ op'[q].by = "round" /\ op'[q].id = id
                  => /\ op[q].do = "update" /\ op[q].by = "round" /\ op[q].id = id
                     /\ op'[q].time = op[q].time
  <2>1. CASE op'[q] = op[q]
    BY <2>1
  <2>2. CASE op'[q] # op[q] /\ q = p
    BY <2>2
  <2>3. CASE op'[q] # op[q] /\ q # p
    BY <2>3 DEF WriteOp
  <2> QED
    BY <2>1, <2>2, <2>3
<1>6. ASSUME NEW q \in Procs
      PROVE  /\ Fresh(id, round[q].tasks[id])'
             /\ op'[q].do = "due" => Fresh(id, op[q].got[id])'
             /\ op'[q].do = "update" /\ op'[q].by = "round" /\ op'[q].id = id
                  => Fresh(id, op[q].time)'
  BY <1>1, <1>2, <1>5 DEF Ahead
<1>7. CASE id \in ids
  BY <1>2, <1>3, <1>6, <1>7 DEF Ahead
<1>8. CASE id \notin ids
  <2>1. cells'[id] = cells[id]
    BY <1>8
  <2>2. \A q \in Procs : Pending(q, id) => Pending(q, id)'
    <3> SUFFICES ASSUME NEW q \in Procs, Pending(q, id) PROVE op'[q] = op[q]
      BY DEF Pending
    <3>1. op[q] \in WriteOp /\ op[q].id = id
      BY <1>4 DEF Pending, Ops, WriteOp, ReadOp, LockOp, Idle
    <3> QED
      BY <1>8, <3>1
  <2>3. \A q \in Procs : OpenCopy(q, id)' => op'[q] = op[q] /\ OpenCopy(q, id)
    <3> SUFFICES ASSUME NEW q \in Procs, OpenCopy(q, id)' PROVE op'[q] = op[q]
      BY DEF OpenCopy
    <3>1. CASE q = p
      BY <3>1 DEF OpenCopy
    <3>2. CASE q # p
      BY <3>2 DEF OpenCopy, WriteOp
    <3> QED
      BY <3>1, <3>2
  <2>4. Fresh(id, cells[id])' \/ \E q \in Procs : Pending(q, id)'
    BY <1>1, <1>2, <2>1, <2>2 DEF Ahead
  <2>5. ASSUME NEW q \in Procs, OpenCopy(q, id)'
        PROVE  /\ cells'[id] # NoRow
               /\ cells'[id] = Empty =>
                    Fresh(id, op[q].time)' \/ \E r \in Procs : Pending(r, id)'
    BY <1>1, <1>2, <2>1, <2>2, <2>3, <2>5 DEF Ahead
  <2> QED
    BY <1>6, <2>4, <2>5 DEF Ahead
<1> QED
  BY <1>7, <1>8

LEMMA LosesRounds ==
  ASSUME Excluded, Typed, NEW p \in Procs, Loses(p)
  PROVE  Excluded'
<1>1. PICK ids \in SUBSET Ids, v \in Ops :
        /\ Gone(ids, [op EXCEPT ![p] = v])
        /\ \/ v = Idle /\ (op[p] \in ReadOp \/ op[p].id \in ids)
           \/ v \in ReadOp /\ op[p] \in ReadOp /\ v.do = op[p].do /\ v.got = op[p].got
  BY DEF Loses
<1>2. /\ op'[p] = v
      /\ \A q \in Procs : q # p /\ op'[q] # op[q] =>
           /\ op'[q] = [op[q] EXCEPT !.stage = "unlinked"]
           /\ op[q] \in WriteOp /\ op[q].id \in ids
      /\ \A q \in Procs, id \in ids : ~OpenCopy(q, id)'
  BY <1>1, GoneOps
<1>3. /\ cells' = [id \in Ids |-> IF id \in ids THEN NoRow ELSE cells[id]]
      /\ UNCHANGED <<round, holder, ran, twice, excused>>
  BY <1>1 DEF Gone, locking
<1>4. v.do \notin {"add", "replace", "update", "delete", "lock"}
      /\ (v.do = "due" => op[p].do = "due" /\ v.got = op[p].got)
      /\ (op[p] \notin WriteOp \/ op[p].id \in ids)
  <2>1. CASE v = Idle /\ (op[p] \in ReadOp \/ op[p].id \in ids)
    <3>1. v.do = "idle"
      BY <2>1 DEF Idle
    <3>2. op[p] \in ReadOp => op[p] \notin WriteOp
      BY DEF ReadOp, WriteOp
    <3> QED
      BY <2>1, <3>1, <3>2
  <2>2. CASE v \in ReadOp /\ op[p] \in ReadOp /\ v.do = op[p].do /\ v.got = op[p].got
    <3>1. v.do \in {"lookup", "all", "due", "next", "clear", "stop"}
      BY <2>2 DEF ReadOp
    <3>2. op[p] \notin WriteOp
      BY <2>2 DEF ReadOp, WriteOp
    <3> QED
      BY <2>2, <3>1, <3>2
  <2> QED
    BY <1>1, <2>1, <2>2
<1>5. ASSUME NEW q \in Procs PROVE Attended(q)'
  <2>1. CASE q = p
    BY <1>2, <1>3, <1>4, <2>1 DEF Excluded, Attended, InRound
  <2>2. CASE q # p
    <3>1. op'[q] = op[q] \/ (op'[q].do = op[q].do /\ op'[q].by = op[q].by /\ op[q].do # "lock")
      BY <1>2, <2>2 DEF WriteOp
    <3> QED
      BY <1>3, <3>1 DEF Excluded, Attended, InRound
  <2> QED
    BY <2>1, <2>2
<1>6. ASSUME NEW id \in Ids \ excused' PROVE Ahead(id)'
  <2>1. id \in Ids \ excused
    BY <1>3, <1>6
  <2>2. op'[p].do = "due" => op[p].do = "due" /\ op'[p].got = op[p].got
    BY <1>2, <1>4
  <2>3. op'[p].do \notin {"add", "replace", "update", "delete"}
    BY <1>2, <1>4
  <2>4. op[p] \notin WriteOp \/ op[p].id \in ids
    BY <1>4
  <2>5. cells' = [j \in Ids |-> IF j \in ids THEN NoRow ELSE cells[j]] /\ UNCHANGED <<round, ran>>
    BY <1>3
  <2>6. /\ \A q \in Procs : q # p /\ op'[q] # op[q] =>
             /\ op'[q] = [op[q] EXCEPT !.stage = "unlinked"]
             /\ op[q] \in WriteOp /\ op[q].id \in ids
        /\ \A q \in Procs, j \in ids : ~OpenCopy(q, j)'
    BY <1>2
  <2> QED
    BY <2>1, <2>2, <2>3, <2>4, <2>5, <2>6, GoneAhead
<1> QED
  BY <1>3, <1>5, <1>6 DEF Excluded

\* A file that is made anew or truncated: the copies that are open for it were
\* of the row that is no longer to be seen.
LEMMA TruncatesRounds ==
  ASSUME Excluded, Typed, NEW p \in Procs, Truncates(p)
  PROVE  Excluded'
<1>1. op[p] \in WriteOp /\ op[p].id \in Ids /\ op[p].time \in Stamp
      /\ op[p].do \notin {"due", "lock"}
  BY DEF Truncates, WriteOp
<1> DEFINE i == op[p].id
           v == [op[p] EXCEPT !.stage = "opened"]
<1>2. /\ v.do = op[p].do /\ v.id = i /\ v.stage = "opened" /\ v.by = op[p].by
      /\ v.time = op[p].time
  BY <1>1 DEF WriteOp
<1>3. /\ cells' = [cells EXCEPT ![i] = Empty] /\ op' = [op EXCEPT ![p] = v]
      /\ UNCHANGED <<round, holder, ran, twice>>
  BY DEF Truncates, FileTruncate, Becomes, control, locking
<1>4. op \in [Procs -> Ops] /\ cells \in [Ids -> Cell] /\ excused \subseteq Ids
  BY DEF Typed, TypeOK, Ops
<1>5. excused \subseteq excused' /\ excused' \subseteq Ids
  BY <1>1, <1>4 DEF Truncates, Excuse, StaleCopy, Hidden
<1>6. ASSUME NEW q \in Procs PROVE Attended(q)'
  BY <1>1, <1>2, <1>3, <1>4, <1>5 DEF Excluded, Attended, InRound
<1>7. ASSUME NEW id \in Ids \ excused' PROVE Ahead(id)'
  <2>1. Ahead(id) /\ id \notin excused
    BY <1>5, <1>7 DEF Excluded
  <2>2. \A t : Fresh(id, t)' <=> Fresh(id, t)
    BY <1>3 DEF Fresh
  <2>3. \A q \in Procs : Pending(q, id) => Pending(q, id)'
    BY <1>2, <1>3, <1>4 DEF Pending
  <2>4. ASSUME NEW q \in Procs
        PROVE  /\ op'[q].do = op[q].do /\ op'[q].by = op[q].by /\ op'[q].id = op[q].id
               /\ op'[q].time = op[q].time
               /\ op[q].do = "due" => op'[q] = op[q]
    BY <1>1, <1>2, <1>3, <1>4
  <2>5. Fresh(id, cells[id])' \/ \E q \in Procs : Pending(q, id)'
    <3>1. Fresh(id, Empty)
      BY ConstantFacts DEF Fresh
    <3>2. cells'[id] = Empty \/ cells'[id] = cells[id]
      BY <1>3, <1>4, <1>7
    <3> QED
      BY <2>1, <2>2, <2>3, <3>1, <3>2 DEF Ahead
  <2>6. ASSUME NEW q \in Procs
        PROVE  /\ Fresh(id, round[q].tasks[id])'
               /\ op'[q].do = "due" => Fresh(id, op[q].got[id])'
               /\ op'[q].do = "update" /\ op'[q].by = "round" /\ op'[q].id = id
                    => Fresh(id, op[q].time)'
    BY <1>3, <2>1, <2>2, <2>4 DEF Ahead
  <2>7. cells[id] # NoRow => cells'[id] # NoRow
    BY <1>3, <1>4, <1>7, ConstantFacts
  <2>8. ASSUME NEW q \in Procs, OpenCopy(q, id)'
        PROVE  /\ cells'[id] # NoRow
               /\ cells'[id] = Empty =>
                    Fresh(id, op[q].time)' \/ \E r \in Procs : Pending(r, id)'
    <3>1. CASE q = p
      <4>1. op[p].do = "update" /\ op[p].by = "copy" /\ id = i /\ Updates(p) /\ ~Adds(p)
        BY <1>2, <1>3, <1>4, <2>8, <3>1 DEF OpenCopy, Updates, Adds
      <4>2. cells[id] = op[p].time
        BY <1>7, <4>1 DEF Truncates, Excuse, StaleCopy
      <4> QED
        BY <1>3, <1>4, <1>7, <2>1, <2>2, <2>3, <2>4, <3>1, <4>1, <4>2, ConstantFacts DEF Ahead
    <3>2. CASE q # p
      <4>1. OpenCopy(q, id) /\ op'[q] = op[q]
        BY <1>3, <1>4, <2>8, <3>2 DEF OpenCopy
      <4>2. cells[id] # NoRow
        BY <2>1, <4>1 DEF Ahead
      <4>3. id = i => cells[id] = Empty
        BY <1>7, <4>1, <4>2 DEF Truncates, Excuse, Hidden, Stored
      <4>4. cells'[id] = Empty => cells[id] = Empty
        BY <1>3, <1>4, <1>7, <4>3
      <4> QED
        BY <2>1, <2>2, <2>3, <2>7, <4>1, <4>2, <4>4 DEF Ahead
    <3> QED
      BY <3>1, <3>2
  <2> QED
    BY <2>5, <2>6, <2>8 DEF Ahead
<1> QED
  BY <1>3, <1>6, <1>7 DEF Excluded

LEMMA RoundStartRounds ==
  ASSUME Excluded, Typed, NEW p \in Procs, RoundStart(p)
  PROVE  Excluded'
<1>1. PICK v \in LockOp : Moves(p, v) /\ v.stage = "opened" /\ v \notin WriteOp /\ v.do = "lock"
  BY LockType
<1>2. v \in Ops /\ ~InRound(p) /\ UNCHANGED <<cells, round, holder, excused, ran, twice>>
  BY DEF RoundStart, Ops, stored, control, locking, history
<1>3. \A id \in Ids : ~Pending(p, id)
  BY DEF RoundStart, Ready, Pending, Idle
<1> QED
  BY <1>1, <1>2, <1>3, AsideRounds

\* Who gets the lock file is alone, or has opened one that was removed since.
LEMMA RoundLockRounds ==
  ASSUME LockPath, Excluded, Typed, NEW p \in Procs, RoundLock(p)
  PROVE  Excluded'
<1> DEFINE at == op[p].at
<1>1. /\ op[p].do = "lock" /\ ~InRound(p) /\ round[p] = NoRound /\ at \in Times \cup {0}
      /\ UNCHANGED <<cells, excused, ran, twice>>
  BY Kinds DEF RoundLock, Excluded, Attended, stored, history, Typed, LockOp
<1>2. CASE Done(p) /\ UNCHANGED <<locking, round>>
  BY <1>1, <1>2, DoneRounds DEF Pending, locking
<1>3. CASE Enters(p)
  <2> DEFINE v == Read("due", {}, Keep)
  <2>1. v.do = "due" /\ v.got = NothingRead
    BY ReadType
  <2>2. op' = [op EXCEPT ![p] = v] /\ round' = [round EXCEPT ![p].at = at]
    BY <1>3 DEF Enters, Becomes
  <2>3. op \in [Procs -> Ops] /\ round \in [Procs -> Rounds]
    BY DEF Typed, TypeOK, Ops, Rounds
  <2>4. (holder = NoProc /\ holder' = p) \/ (holder' = holder /\ excused = Ids)
    BY <1>1, <2>1, <2>2, <2>3 DEF RoundLock, LockFree, Excluded, Attended, Done, Becomes, Idle
  <2>5. round'[p].at = at /\ round'[p].tasks = NothingRead /\ at # -1
    BY <1>1, <2>2, <2>3, ConstantFacts DEF NoRound
  <2> HIDE DEF v
  <2>6. ASSUME NEW q \in Procs PROVE Attended(q)'
    <3>1. CASE q = p
      BY <1>1, <2>1, <2>2, <2>3, <2>5, <2>4, <3>1 DEF Attended, InRound
    <3>2. CASE q # p
      <4>1. op'[q] = op[q] /\ round'[q] = round[q] /\ (holder # q \/ holder' = holder)
        BY <2>2, <2>3, <2>4, <3>2, SharedStoreAssumption
      <4> QED
        BY <1>1, <4>1 DEF Excluded, Attended, InRound
    <3> QED
      BY <3>1, <3>2
  <2>7. ASSUME NEW id \in Ids \ excused' PROVE Ahead(id)'
    <3>1. Ahead(id)
      BY <1>1, <2>7 DEF Excluded
    <3>2. \A t : Fresh(id, t)' <=> Fresh(id, t)
      BY <1>1 DEF Fresh
    <3>3. Fresh(id, NothingRead[id])
      BY ConstantFacts DEF Fresh, NothingRead
    <3>4. \A q \in Procs : Pending(q, id) => Pending(q, id)'
      BY <1>1, <2>2, <2>3 DEF Pending
    <3>5. \A q \in Procs : OpenCopy(q, id)' => OpenCopy(q, id) /\ op'[q] = op[q]
      BY <2>1, <2>2, <2>3 DEF OpenCopy
    <3>6. ASSUME NEW q \in Procs
          PROVE  /\ Fresh(id, round[q].tasks[id])'
                 /\ op'[q].do = "due" => Fresh(id, op[q].got[id])'
                 /\ op'[q].do = "update" /\ op'[q].by = "round" /\ op'[q].id = id
                      => Fresh(id, op[q].time)'
      <4>1. CASE q = p
        BY <2>1, <2>2, <2>3, <2>5, <3>2, <3>3, <4>1
      <4>2. CASE q # p
        <5>1. op'[q] = op[q] /\ round'[q] = round[q]
          BY <2>2, <2>3, <4>2
        <5> QED
          BY <3>1, <3>2, <5>1 DEF Ahead
      <4> QED
        BY <4>1, <4>2
    <3>7. Fresh(id, cells[id])' \/ \E q \in Procs : Pending(q, id)'
      BY <1>1, <3>1, <3>2, <3>4 DEF Ahead
    <3>8. ASSUME NEW q \in Procs, OpenCopy(q, id)'
          PROVE  /\ cells'[id] # NoRow
                 /\ cells'[id] = Empty =>
                      Fresh(id, op[q].time)' \/ \E r \in Procs : Pending(r, id)'
      BY <1>1, <3>1, <3>2, <3>4, <3>5, <3>8 DEF Ahead
    <3> QED
      BY <3>6, <3>7, <3>8 DEF Ahead
  <2> QED
    BY <1>1, <2>6, <2>7 DEF Excluded
<1> QED
  BY <1>2, <1>3 DEF RoundLock

\* The runs that a round submits lie after all that were submitted before, and
\* before the run time that it writes.
LEMMA SubmitRounds ==
  ASSUME Excluded, Typed, NEW p \in Procs, Submit(p)
  PROVE  Excluded'
<1> USE DEF Rounds
<1>1. PICK i \in Ids, accepted \in BOOLEAN :
        LET runs == RunTimes(round[p].tasks[i], round[p].at)
        IN /\ round[p].tasks[i] # NoRow
           /\ round' = [round EXCEPT ![p].tasks[i] = NoRow]
           /\ IF runs = {} \/ ~accepted \/ i \in excused THEN UNCHANGED <<ran, twice>>
              ELSE /\ ran' = [ran EXCEPT ![i] = @ \cup runs]
                   /\ twice' = IF ran[i] \cap runs # {} THEN twice \cup {i} ELSE twice
           /\ \/ runs = {} /\ UNCHANGED op
              \/ /\ runs # {}
                 /\ \E v \in WriteOp :
                      /\ Becomes(p, v) /\ v.id = i /\ v.by = "round" /\ v.stage = "begin"
                      /\ v.do = "delete" \/ (v.do = "update" /\ v.time = round[p].at + 1)
           /\ runs \subseteq Times
  <2> HIDE DEF RunTimes
  <2> QED
    BY SubmitEffect
<1> DEFINE runs == RunTimes(round[p].tasks[i], round[p].at)
           at   == round[p].at
<1>2. /\ op \in [Procs -> Ops] /\ round \in [Procs -> Rounds] /\ ran \in [Ids -> SUBSET Times]
      /\ op[p] = Idle /\ InRound(p) /\ Idle.do = "idle" /\ at \in Int
      /\ UNCHANGED <<cells, holder, excused>> /\ Times \subseteq Nat
  BY ConstantFacts DEF Typed, TypeOK, Ops, Submit, Ready, Idle, stored, locking
<1>3. /\ \A q \in Procs : round'[q].at = round[q].at
      /\ \A q \in Procs, id \in Ids : round'[q].tasks[id] \in {NoRow, round[q].tasks[id]}
      /\ round'[p].tasks[i] = NoRow
      /\ \A q \in Procs : q # p => round'[q] = round[q]
  BY <1>1, <1>2
<1>4. \A q \in Procs : q # p => op'[q] = op[q]
  BY <1>1, <1>2 DEF Becomes
<1>5. \/ op'[p] = Idle
      \/ /\ op'[p].do \in {"update", "delete"} /\ op'[p].id = i /\ op'[p].by = "round"
         /\ op'[p].stage = "begin" /\ runs # {}
         /\ op'[p].do = "update" => op'[p].time = at + 1
  BY <1>1, <1>2 DEF Becomes
<1>6. i \notin excused => \A t \in ran[i], r \in runs : t < r
  <2> SUFFICES ASSUME i \notin excused, NEW t \in ran[i], NEW r \in runs PROVE t < r
    OBVIOUS
  <2>1. Fresh(i, round[p].tasks[i])
    BY DEF Excluded, Ahead
  <2>2. round[p].tasks[i] \in Times /\ r \in Times /\ round[p].tasks[i] <= r
    BY <1>1, <1>2 DEF RunTimes, Stamp
  <2>3. t < round[p].tasks[i] /\ t \in Nat
    BY <1>2, <2>1, <2>2 DEF Fresh
  <2>4. round[p].tasks[i] \in Nat /\ r \in Nat
    BY <1>2, <2>2
  <2> QED
    BY <2>2, <2>3, <2>4
<1>7. \A r \in runs : r \in Nat /\ r < at + 1
  BY <1>1, <1>2 DEF RunTimes
<1> HIDE DEF runs
<1>8. \A id \in Ids : id # i => ran'[id] = ran[id]
  BY <1>1, <1>2
<1>9. ran'[i] \subseteq ran[i] \cup runs
  BY <1>1, <1>2 DEF runs
<1>10. twice' = {}
  <2>1. i \notin excused => ran[i] \cap runs = {}
    <3> SUFFICES ASSUME i \notin excused, NEW t \in ran[i], t \in runs PROVE FALSE
      OBVIOUS
    <3> QED
      BY <1>6, <1>7
  <2> QED
    BY <1>1, <2>1 DEF Excluded, runs
<1>11. ASSUME NEW q \in Procs PROVE Attended(q)'
  <2>1. CASE q = p
    BY <1>2, <1>3, <1>5, <2>1 DEF Excluded, Attended, InRound
  <2>2. CASE q # p
    BY <1>2, <1>3, <1>4, <2>2 DEF Excluded, Attended, InRound
  <2> QED
    BY <2>1, <2>2
<1>12. ASSUME NEW id \in Ids \ excused', id # i PROVE Ahead(id)'
  <2>1. Ahead(id)
    BY <1>2, <1>12 DEF Excluded
  <2>2. \A t : Fresh(id, t)' <=> Fresh(id, t)
    BY <1>8, <1>12 DEF Fresh
  <2>3. Fresh(id, NoRow)
    BY ConstantFacts DEF Fresh
  <2>4. \A q \in Procs : Pending(q, id) => Pending(q, id)'
    BY <1>2, <1>4 DEF Pending
  <2>5. \A q \in Procs : OpenCopy(q, id)' => OpenCopy(q, id) /\ op'[q] = op[q]
    BY <1>2, <1>4, <1>5, <1>12 DEF OpenCopy
  <2>6. ASSUME NEW q \in Procs
        PROVE  /\ Fresh(id, round[q].tasks[id])'
               /\ op'[q].do = "due" => Fresh(id, op[q].got[id])'
               /\ op'[q].do = "update" /\ op'[q].by = "round" /\ op'[q].id = id
                    => Fresh(id, op[q].time)'
    <3>1. Fresh(id, round[q].tasks[id])'
      BY <1>3, <1>12, <2>1, <2>2, <2>3 DEF Ahead
    <3>2. op'[q] = op[q] \/ (op'[q].do # "due" /\ ~(op'[q].do = "update" /\ op'[q].id = id))
      BY <1>2, <1>4, <1>5, <1>12
    <3> QED
      BY <2>1, <2>2, <3>1, <3>2 DEF Ahead
  <2>7. Fresh(id, cells[id])' \/ \E q \in Procs : Pending(q, id)'
    BY <1>2, <2>1, <2>2, <2>4 DEF Ahead
  <2>8. ASSUME NEW q \in Procs, OpenCopy(q, id)'
        PROVE  /\ cells'[id] # NoRow
               /\ cells'[id] = Empty =>
                    Fresh(id, op[q].time)' \/ \E r \in Procs : Pending(r, id)'
    BY <1>2, <2>1, <2>2, <2>4, <2>5, <2>8 DEF Ahead
  <2> QED
    BY <2>6, <2>7, <2>8 DEF Ahead
<1>13. ASSUME i \notin excused' PROVE Ahead(i)'
  <2>1. Ahead(i) /\ i \notin excused /\ i \in Ids
    BY <1>2, <1>13 DEF Excluded
  <2>2. \A q \in Procs : InRound(q) => q = p
    BY <1>2, <2>1, OneRound
  <2>3. Fresh(i, NoRow)' /\ Fresh(i, NoRow)
    BY ConstantFacts DEF Fresh
  <2>4. ASSUME NEW q \in Procs PROVE Fresh(i, round[q].tasks[i])' /\ op'[q].do # "due"
    <3>1. CASE q = p
      BY <1>2, <1>3, <1>5, <2>3, <3>1
    <3>2. CASE q # p
      <4>1. ~InRound(q) /\ round'[q] = NoRound /\ op'[q] = op[q] /\ op[q].do # "due"
        BY <1>3, <1>4, <2>2, <3>2 DEF Excluded, Attended
      <4> QED
        BY <2>1, <2>3, <4>1 DEF NoRound, NothingRead
    <3> QED
      BY <3>1, <3>2
  <2>5. ASSUME NEW q \in Procs, op'[q].do = "update", op'[q].by = "round", op'[q].id = i
        PROVE  Fresh(i, op[q].time)'
    <3>1. q = p
      BY <1>2, <1>4, <2>2, <2>5 DEF Excluded, Attended
    <3>2. op'[p].time = at + 1 /\ runs # {}
      BY <1>2, <1>5, <2>5, <3>1
    <3>3. \A t \in ran[i] : t < at + 1
      BY <1>2, <1>6, <1>7, <2>1, <3>2
    <3>4. \A t \in ran'[i] : t < at + 1
      BY <1>7, <1>9, <3>3
    <3> QED
      BY <3>1, <3>2, <3>4 DEF Fresh
  <2>6. ASSUME NEW q \in Procs, OpenCopy(q, i)'
        PROVE  OpenCopy(q, i) /\ op'[q] = op[q] /\ cells[i] # NoRow
    <3>1. q # p
      BY <1>2, <1>5, <2>6 DEF OpenCopy
    <3> QED
      BY <1>4, <2>1, <2>6, <3>1 DEF OpenCopy, Ahead
  <2>7. CASE op'[p] = Idle
    <3>1. runs = {}
      BY <1>1, <1>2, <2>7 DEF runs, Becomes, Idle, WriteOp
    <3>2. UNCHANGED <<ran, op>>
      BY <1>1, <3>1 DEF runs
    <3>3. \A t : Fresh(i, t)' <=> Fresh(i, t)
      BY <3>2 DEF Fresh
    <3>4. \A q \in Procs : Pending(q, i)' <=> Pending(q, i)
      BY <3>2 DEF Pending
    <3>5. Fresh(i, cells[i])' \/ \E q \in Procs : Pending(q, i)'
      BY <1>2, <2>1, <3>3, <3>4 DEF Ahead
    <3>6. ASSUME NEW q \in Procs, OpenCopy(q, i)'
          PROVE  cells'[i] = Empty => Fresh(i, op[q].time)' \/ \E r \in Procs : Pending(r, i)'
      BY <1>2, <2>1, <2>6, <3>3, <3>4, <3>6 DEF Ahead
    <3> QED
      BY <1>2, <2>4, <2>5, <2>6, <3>5, <3>6 DEF Ahead
  <2>8. CASE op'[p] # Idle
    <3>1. Pending(p, i)'
      BY <1>5, <2>8 DEF Pending
    <3> QED
      BY <1>2, <2>4, <2>5, <2>6, <3>1 DEF Ahead
  <2> QED
    BY <2>7, <2>8
<1> QED
  BY <1>10, <1>11, <1>12, <1>13 DEF Excluded

LEMMA RoundEndRounds ==
  ASSUME Excluded, Typed, NEW p \in Procs, RoundEnd(p)
  PROVE  Excluded'
<1>1. op[p] = Idle /\ Idle.do = "idle" /\ UNCHANGED <<cells, excused, ran, twice>>
      /\ excused \subseteq Ids /\ op \in [Procs -> Ops]
  BY DEF RoundEnd, Ready, Idle, stored, history, Typed, TypeOK, Ops
<1>2. \A id \in Ids : ~Pending(p, id)
  BY <1>1 DEF Pending
<1>3. CASE Becomes(p, Read("next", {}, Keep)) /\ UNCHANGED <<locking, round>>
  <2> DEFINE v == Read("next", {}, Keep)
  <2>1. v \in Ops /\ v.do = "next" /\ v \notin WriteOp
    BY ReadType DEF Ops
  <2>2. Moves(p, v) /\ UNCHANGED <<round, holder>>
    BY <1>3 DEF Moves, Becomes, locking
  <2> HIDE DEF v
  <2> QED
    BY <1>1, <1>2, <2>1, <2>2, AsideRounds
<1>4. CASE Release(p) /\ UNCHANGED op
  <2>1. Done(p)
    BY <1>1, <1>4 DEF Done, Becomes
  <2> QED
    BY <1>1, <1>2, <1>4, <2>1, ReleaseRounds
<1> QED
  BY <1>3, <1>4 DEF RoundEnd

LEMMA LookedUpRounds ==
  ASSUME Excluded, Typed, NEW p \in Procs, LookedUp(p)
  PROVE  Excluded'
<1>1. PICK id \in Ids, time \in Stamp, by \in {"copy", "user"} :
        Becomes(p, Write("update", id, time, by, "begin"))
  BY LookedUpWrites
<1> DEFINE v == Write("update", id, time, by, "begin")
<1>2. v \in WriteOp /\ v.do = "update" /\ v.by \in {"user", "copy"} /\ v.stage = "begin"
  BY WriteType DEF Write
<1>3. Moves(p, v) /\ UNCHANGED <<cells, round, holder, excused, ran, twice>>
  BY <1>1 DEF LookedUp, Moves, Becomes, stored, control, locking, history
<1>4. \A i \in Ids : ~Pending(p, i)
  BY DEF LookedUp, RowsRead, Pending
<1> HIDE DEF v
<1> QED
  BY <1>2, <1>3, <1>4, AsideRounds DEF Ops

\* A shutdown that removes the lock file that a round has opened or locked is
\* the excuse; one that removes the directory removes what was due.
LEMMA StoresDownRounds ==
  ASSUME LockPath, Excluded, Typed, NEW p \in Procs, StoresDown(p)
  PROVE  Excluded'
<1>1. UNCHANGED <<round, ran, twice>> /\ op[p].do = "stop"
  BY DEF StoresDown, RowsRead
<1>2. /\ excused \subseteq excused' /\ excused' \subseteq Ids
      /\ excused' = Ids \/ UNCHANGED <<holder, excused>>
      /\ (\E q \in Procs : op[q].do = "lock") => excused' = Ids
  BY StoresDownTyped DEF StoresDown, RemoveLockFile, Opening, Excuse, Typed, TypeOK, locking
<1>3. \A q \in Procs : q # p /\ op'[q] # op[q] =>
        /\ op'[q].do = op[q].do
        /\ op[q] \in WriteOp \/ op[q].do = "lock"
        /\ op[q] \in WriteOp => op'[q] = [op[q] EXCEPT !.stage = "unlinked"] /\ cleanup
  BY DownOps DEF LockOp, WriteOp
<1>4. op'[p] = Idle /\ Idle.do = "idle"
  BY DownOps DEF Idle
<1>5. ASSUME NEW q \in Procs PROVE Attended(q)'
  <2>1. CASE q = p
    BY <1>1, <1>2, <1>4, <2>1 DEF Excluded, Attended, InRound
  <2>2. CASE q # p
    <3>1. op'[q] = op[q] \/ /\ op'[q].do = op[q].do
                            /\ op[q].do # "lock" => op'[q].by = op[q].by
      BY <1>3, <2>2 DEF WriteOp
    <3> QED
      BY <1>1, <1>2, <3>1 DEF Excluded, Attended, InRound
  <2> QED
    BY <2>1, <2>2
<1>6. ASSUME NEW id \in Ids \ excused' PROVE Ahead(id)'
  <2>1. id \in Ids \ excused /\ \A q \in Procs : op[q].do # "lock"
    BY <1>2, <1>6
  <2>2. \A q \in Procs : q # p /\ op'[q] # op[q] =>
          op'[q] = [op[q] EXCEPT !.stage = "unlinked"] /\ op[q] \in WriteOp /\ cleanup
    BY <1>3, <2>1
  <2>3. op[p] \notin WriteOp
    BY <1>1 DEF WriteOp
  <2>4. CASE cleanup
    <3>1. cells' = [j \in Ids |-> IF j \in Ids THEN NoRow ELSE cells[j]]
      BY <2>4 DEF StoresDown, RemoveDirectory
    <3>2. \A q \in Procs, j \in Ids : ~OpenCopy(q, j)'
      BY <2>4, DownOps DEF OpenCopy
    <3>3. \A q \in Procs : q # p /\ op'[q] # op[q] =>
            /\ op'[q] = [op[q] EXCEPT !.stage = "unlinked"]
            /\ op[q] \in WriteOp /\ op[q].id \in Ids
      BY <2>2 DEF WriteOp
    <3> QED
      BY <1>1, <1>4, <2>1, <2>3, <3>1, <3>2, <3>3, GoneAhead
  <2>5. CASE ~cleanup
    <3>1. cells' = [j \in Ids |-> IF j \in {} THEN NoRow ELSE cells[j]]
      BY <2>5 DEF StoresDown, Typed, TypeOK
    <3>2. \A q \in Procs : q # p /\ op'[q] # op[q] =>
            /\ op'[q] = [op[q] EXCEPT !.stage = "unlinked"]
            /\ op[q] \in WriteOp /\ op[q].id \in {}
      BY <2>2, <2>5
    <3>3. /\ {} \in SUBSET Ids /\ \A q \in Procs, j \in {} : ~OpenCopy(q, j)'
          /\ op'[p].do \notin {"add", "replace", "update", "delete", "due"}
      BY <1>4
    <3> QED
      BY <1>1, <2>1, <2>3, <3>1, <3>2, <3>3, GoneAhead
  <2> QED
    BY <2>4, <2>5
<1> QED
  BY <1>1, <1>5, <1>6 DEF Excluded

LEMMA StoreRounds ==
  ASSUME LockPath, Excluded, Typed, NEW p \in Procs, StoreStep(p)
  PROVE  Excluded'
<1>1. CASE \/ MongoQuery(p) \/ SqlQuery(p) \/ RedisQuery(p) \/ RedisGetDue(p)
           \/ FileList(p) \/ FileQueryNext(p) \/ FileRead(p)
  BY <1>1, QueriesReadOn, ReadsOnRounds
<1>2. CASE \/ MongoWrite(p) \/ SqlWrite(p) \/ RedisWrite(p) \/ FileWrite(p)
  BY <1>2, WriteOutcomes, FailsRounds, LandsRounds, LosesRounds, TruncatesRounds
<1>3. CASE FileNoDirectory(p) \/ NotFound(p) \/ Listed(p) \/ NextRead(p)
  <2>1. \A id \in Ids : ~Pending(p, id)
    BY <1>3 DEF FileNoDirectory, NotFound, Listed, NextRead, RowsRead, Pending
  <2>2. \/ Raise(p)
        \/ /\ Done(p) /\ UNCHANGED <<cells, excused, ran, twice>>
           /\ Release(p) \/ UNCHANGED <<round, holder>>
    BY <1>3 DEF FileNoDirectory, NotFound, Listed, NextRead, stored, control, locking, history
  <2>3. excused \subseteq Ids
    BY DEF Typed, TypeOK
  <2> QED
    BY <2>1, <2>2, <2>3, RaiseRounds, ReleaseRounds, DoneRounds
<1>4. CASE RemoveBad(p) \/ RemoveAll(p)
  <2>1. \A id \in Ids : ~Pending(p, id)
    BY <1>4 DEF RemoveBad, RemoveAll, Pending
  <2> QED
    BY <1>4, <2>1, RemovalEffects, LosesRounds, ReadsOnRounds, DoneRounds
       DEF stored, control, locking, history
<1> QED
  BY <1>1, <1>2, <1>3, <1>4, LookedUpRounds, DueTasksRounds, StoresDownRounds DEF StoreStep

LEMMA CallRounds ==
  ASSUME Excluded, Typed, NEW p \in Procs, NEW v \in Ops, Call(p, v),
         \/ v \in WriteOp /\ v.by = "user" /\ v.do # "update" /\ v.stage = "begin"
         \/ v \in ReadOp /\ v.do # "due"
  PROVE  Excluded'
<1>1. Moves(p, v) /\ UNCHANGED <<cells, round, holder, excused, ran, twice>>
  BY DEF Call, Moves, Becomes, stored, control, locking, history
<1>2. \A id \in Ids : ~Pending(p, id)
  BY DEF Call, Ready, Pending, Idle
<1>3. v.do \notin {"due", "lock"} /\ (v \in WriteOp => v.by = "user" /\ v.stage = "begin")
  BY DEF WriteOp, ReadOp
<1> QED
  BY <1>1, <1>2, <1>3, AsideRounds

\* A process that dies between submitting and writing is the excuse.
LEMMA CrashRounds ==
  ASSUME Excluded, Typed, NEW p \in Procs, crash(p)
  PROVE  Excluded'
<1>1. Done(p) /\ Release(p) /\ UNCHANGED <<cells, ran, twice>>
  BY DEF crash, CrashLock, stored
<1>2. excused \subseteq excused' /\ excused' \subseteq Ids
  BY CrashTyped DEF crash, Excuse, Typed, TypeOK
<1>3. \A id \in Ids \ excused' : ~Pending(p, id)
  BY DEF crash, Excuse, Pending
<1> QED
  BY <1>1, <1>2, <1>3, ReleaseRounds

RoundsInv == Typed /\ (LockPath => Excluded)

\* It begins by reading the tasks.
LEMMA ShutdownRounds ==
  ASSUME Excluded, Typed, NEW p \in Procs, shutdown(p)
  PROVE  Excluded'
<1> DEFINE v == Read("stop", {}, Keep)
<1>1. v \in Ops /\ v \notin WriteOp /\ v.do = "stop"
  BY ReadType DEF Ops
<1>2. Moves(p, v) /\ UNCHANGED <<cells, round, holder, excused, ran, twice>>
  BY DEF shutdown, Moves, Becomes, stored, control, locking, history
<1>3. \A id \in Ids : ~Pending(p, id)
  BY DEF shutdown, Ready, Pending, Idle
<1> HIDE DEF v
<1> QED
  BY <1>1, <1>2, <1>3, AsideRounds

LEMMA StepRounds == RoundsInv /\ [Next]_vars => RoundsInv'
<1> SUFFICES ASSUME RoundsInv, [Next]_vars PROVE RoundsInv'
  OBVIOUS
<1>1. Typed /\ Typed'
  BY StepTyped DEF RoundsInv
<1> SUFFICES ASSUME LockPath PROVE Excluded'
  BY <1>1 DEF RoundsInv
<1>2. Excluded
  BY DEF RoundsInv
<1>3. CASE UNCHANGED <<cells, round, op, holder, excused, ran, twice>>
  BY <1>2, <1>3 DEF Excluded, Attended, Ahead, Fresh, InRound, Pending, OpenCopy
<1>4. ASSUME NEW p \in Procs, StoreStep(p) \/ RoundStep(p) PROVE Excluded'
  BY <1>1, <1>2, <1>4, StoreRounds, RoundStartRounds, RoundLockRounds, SubmitRounds, RoundEndRounds DEF RoundStep
<1>5. ASSUME NEW p \in Procs, shutdown(p) \/ crash(p) PROVE Excluded'
  BY <1>1, <1>2, <1>5, ShutdownRounds, CrashRounds
<1>6. ASSUME NEW p \in Procs,
         \/ \E id \in Ids : delete_task(p, id)
         \/ \E id \in Ids, time \in UserTimes, do \in {"add", "replace"} : add_task(p, id, time, do)
         \/ \E id \in Ids, then \in UserTimes \cup {Keep} : update_task(p, id, then)
         \/ get_tasks(p) \/ remove_all_tasks(p)
      PROVE Excluded'
  BY <1>1, <1>2, <1>6, ApiCalls, CallRounds
<1>7. (\E p \in Procs : start(p)) \/ Tick \/ UNCHANGED vars =>
        UNCHANGED <<cells, round, op, holder, excused, ran, twice>>
  BY DEF start, Tick, vars, stored, control, locking, history
<1> QED
  BY <1>3, <1>4, <1>5, <1>6, <1>7 DEF Next

\* Rounds of however many processes submit no run time twice, unless one of
\* the events of excused explains it (schedulers/base.py:1569).  It is not the
\* lock file alone: what a round reads may be behind the runs only while the
\* process that submitted them is in its round.
THEOREM RoundsSubmitOnce == Spec => []SubmittedOnce
<1>1. Init => RoundsInv
  <2> SUFFICES ASSUME Init PROVE Excluded
    BY InitTyped DEF RoundsInv
  <2>1. /\ \A p \in Procs : op[p] = Idle /\ round[p] = NoRound
        /\ \A id \in Ids : cells[id] = NoRow
        /\ twice = {} /\ Idle.do = "idle" /\ NoRound.at = -1
        /\ \A id \in Ids : NoRound.tasks[id] = NoRow
    BY DEF Init, Idle, NoRound, NothingRead
  <2>2. \A id \in Ids : Fresh(id, NoRow)
    BY ConstantFacts DEF Fresh
  <2> QED
    BY <2>1, <2>2 DEF Excluded, Attended, Ahead, InRound, OpenCopy
<1>2. RoundsInv => SubmittedOnce
  BY DEF RoundsInv, Excluded, SubmittedOnce
<1> QED
  BY <1>1, <1>2, StepRounds, PTL DEF Spec
==============================================================================
