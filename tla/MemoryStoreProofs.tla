-------------------------- MODULE MemoryStoreProofs --------------------------
(***************************************************************************)
(* What MemoryStore promises, for any objects, ids and instants:           *)
(*   StoreConsistent   the list stays sorted and stays the dictionary's;   *)
(*   SearchCorrect     the binary search lands on the row it is after;     *)
(*   StoreImplements   to its callers it is the table of TaskStore.        *)
(* The invariant IInv has what a search knows while it runs.               *)
(***************************************************************************)
EXTENDS MemoryStore, SequenceTheorems, WellFoundedInduction, TLAPS

-----------------------------------------------------------------------------
(* What the two list operations do, position by position *)

\* list.insert: the rows from the index on move up by one.
LEMMA InsertAtProperties ==
  ASSUME NEW s \in Seq(Row), NEW i \in 1 .. Len(s) + 1, NEW e \in Row
  PROVE  /\ InsertAt(s, i, e) \in Seq(Row)
         /\ Len(InsertAt(s, i, e)) = Len(s) + 1
         /\ \A k \in 1 .. Len(s) + 1 :
              InsertAt(s, i, e)[k] =
                IF k < i THEN s[k] ELSE IF k = i THEN e ELSE s[k - 1]
<1> DEFINE left  == SubSeq(s, 1, i - 1)
           right == SubSeq(s, i, Len(s))
           one   == <<e>>
<1>1. /\ left \in Seq(Row) /\ Len(left) = i - 1
      /\ \A k \in 1 .. i - 1 : left[k] = s[k]
  BY SubSeqProperties
<1>2. /\ right \in Seq(Row) /\ Len(right) = Len(s) - i + 1
      /\ \A k \in 1 .. Len(s) - i + 1 : right[k] = s[i + k - 1]
  BY SubSeqProperties
<1>3. one \in Seq(Row) /\ Len(one) = 1 /\ one[1] = e
  OBVIOUS
<1> HIDE DEF left, right, one
<1>4. /\ left \o one \in Seq(Row)
      /\ Len(left \o one) = Len(left) + Len(one)
      /\ \A k \in 1 .. Len(left) + Len(one) :
           (left \o one)[k] = IF k <= Len(left) THEN left[k] ELSE one[k - Len(left)]
  BY <1>1, <1>3, ConcatProperties
<1> DEFINE front == left \o one
<1> HIDE DEF front
<1>5. /\ front \in Seq(Row) /\ Len(front) = i
      /\ \A k \in 1 .. i : front[k] = IF k < i THEN s[k] ELSE e
  BY <1>1, <1>3, <1>4 DEF front
<1>6. /\ front \o right \in Seq(Row)
      /\ Len(front \o right) = Len(front) + Len(right)
      /\ \A k \in 1 .. Len(front) + Len(right) :
           (front \o right)[k] = IF k <= Len(front) THEN front[k] ELSE right[k - Len(front)]
  BY <1>2, <1>5, ConcatProperties
<1>7. InsertAt(s, i, e) = front \o right
  BY DEF InsertAt, front, left, right, one
<1> QED
  BY <1>2, <1>5, <1>6, <1>7

\* t is s with e in place i and the rest moved up.
Shifted(s, i, e, t) ==
  /\ Len(t) = Len(s) + 1
  /\ \A k \in 1 .. Len(s) + 1 : t[k] = IF k < i THEN s[k] ELSE IF k = i THEN e ELSE s[k - 1]

LEMMA InsertShifts ==
  ASSUME NEW s \in Seq(Row), NEW i \in 1 .. Len(s) + 1, NEW e \in Row
  PROVE  Shifted(s, i, e, InsertAt(s, i, e))
<1> DEFINE t == InsertAt(s, i, e)
<1>1. /\ Len(t) = Len(s) + 1
      /\ \A k \in 1 .. Len(s) + 1 : t[k] = IF k < i THEN s[k] ELSE IF k = i THEN e ELSE s[k - 1]
  BY InsertAtProperties
<1> HIDE DEF t
<1>2. Shifted(s, i, e, t)
  BY <1>1 DEF Shifted
<1> QED
  BY <1>2 DEF t

\* del list[index]: the rows after the index move down by one.
LEMMA RemoveAtProperties ==
  ASSUME NEW s \in Seq(Row), NEW i \in 1 .. Len(s)
  PROVE  /\ RemoveAt(s, i) \in Seq(Row)
         /\ Len(RemoveAt(s, i)) = Len(s) - 1
         /\ \A k \in 1 .. Len(s) - 1 :
              RemoveAt(s, i)[k] = IF k < i THEN s[k] ELSE s[k + 1]
<1> DEFINE left  == SubSeq(s, 1, i - 1)
           right == SubSeq(s, i + 1, Len(s))
<1>1. /\ left \in Seq(Row) /\ Len(left) = i - 1
      /\ \A k \in 1 .. i - 1 : left[k] = s[k]
  BY SubSeqProperties
<1>2. /\ right \in Seq(Row) /\ Len(right) = Len(s) - i
      /\ \A k \in 1 .. Len(s) - i : right[k] = s[i + k]
  BY SubSeqProperties
<1> HIDE DEF left, right
<1>3. RemoveAt(s, i) = left \o right
  BY DEF RemoveAt, left, right
<1>4. /\ left \o right \in Seq(Row)
      /\ Len(left \o right) = Len(left) + Len(right)
      /\ \A k \in 1 .. Len(left) + Len(right) :
           (left \o right)[k] = IF k <= Len(left) THEN left[k] ELSE right[k - Len(left)]
  BY <1>1, <1>2, ConcatProperties
<1> QED
  BY <1>1, <1>2, <1>3, <1>4
-----------------------------------------------------------------------------
(* The order of the rows *)

LEMMA RowFacts ==
  ASSUME NEW r \in Row
  PROVE  /\ r.task \in Tasks /\ IdOf[r.task] \in Ids /\ IdOf[r.task] \in Int
         /\ r.timestamp \in Stamp /\ r.timestamp \in Int
         /\ r # NoRow
BY TableAssumption DEF Row, Stamp

\* Before is a strict weak order, total on rows of different ids.
LEMMA OrderFacts ==
  ASSUME NEW r \in Row, NEW s \in Row, NEW u \in Row
  PROVE  /\ ~Before(r, r)
         /\ Before(r, s) => ~Before(s, r)
         /\ Before(r, s) /\ Before(s, u) => Before(r, u)
         /\ Before(r, s) /\ ~Before(u, s) => Before(r, u)
         /\ ~Before(s, r) /\ Before(s, u) => Before(r, u)
         /\ IdOf[r.task] # IdOf[s.task] => Before(r, s) \/ Before(s, r)
BY RowFacts DEF Before

\* A row put where all before it is smaller and all after it is larger.
LEMMA InsertKeepsOrder ==
  ASSUME NEW s \in Seq(Row), Increasing(s), NEW p \in 1 .. Len(s) + 1, NEW r \in Row,
         \A i \in 1 .. p - 1 : Before(s[i], r),
         \A i \in p .. Len(s) : Before(r, s[i])
  PROVE  Increasing(InsertAt(s, p, r))
<1> DEFINE t == InsertAt(s, p, r)
<1>1. /\ Len(t) = Len(s) + 1
      /\ \A k \in 1 .. Len(s) + 1 : t[k] = IF k < p THEN s[k] ELSE IF k = p THEN r ELSE s[k - 1]
  BY InsertShifts DEF Shifted
<1> HIDE DEF t
<1> SUFFICES ASSUME NEW i \in 1 .. Len(s) + 1, NEW j \in 1 .. Len(s) + 1, i < j
             PROVE  Before(t[i], t[j])
  BY <1>1 DEF Increasing, t
<1>2. CASE j < p
  BY <1>1, <1>2 DEF Increasing
<1>3. CASE j = p
  BY <1>1, <1>3
<1>4. CASE j > p /\ i < p
  BY <1>1, <1>4 DEF Increasing
<1>5. CASE j > p /\ i = p
  BY <1>1, <1>5
<1>6. CASE j > p /\ i > p
  BY <1>1, <1>6 DEF Increasing
<1> QED
  BY <1>2, <1>3, <1>4, <1>5, <1>6

LEMMA RemoveKeepsOrder ==
  ASSUME NEW s \in Seq(Row), Increasing(s), NEW p \in 1 .. Len(s)
  PROVE  Increasing(RemoveAt(s, p))
<1> DEFINE t == RemoveAt(s, p)
<1>1. /\ Len(t) = Len(s) - 1
      /\ \A k \in 1 .. Len(s) - 1 : t[k] = IF k < p THEN s[k] ELSE s[k + 1]
  BY RemoveAtProperties
<1> HIDE DEF t
<1> SUFFICES ASSUME NEW i \in 1 .. Len(s) - 1, NEW j \in 1 .. Len(s) - 1, i < j
             PROVE  Before(t[i], t[j])
  BY <1>1 DEF Increasing, t
<1>2. CASE j < p
  BY <1>1, <1>2 DEF Increasing
<1>3. CASE j >= p /\ i < p
  BY <1>1, <1>3 DEF Increasing
<1>4. CASE j >= p /\ i >= p
  BY <1>1, <1>4 DEF Increasing
<1> QED
  BY <1>2, <1>3, <1>4

-----------------------------------------------------------------------------
(* The agreement of a list with a table *)

\* In an increasing list that agrees with a table no id has two rows.
LEMMA OneRowPerId ==
  ASSUME NEW s \in Seq(Row), NEW table, NEW absent, Increasing(s), Agrees(s, table, absent),
         NEW i \in 1 .. Len(s), NEW j \in 1 .. Len(s),
         IdOf[s[i].task] = IdOf[s[j].task]
  PROVE  i = j
<1>1. s[i] = s[j] /\ s[i] \in Row
  BY DEF Agrees
<1>2. i < j => Before(s[i], s[j])
  BY DEF Increasing
<1>3. j < i => Before(s[j], s[i])
  BY DEF Increasing
<1> QED
  BY <1>1, <1>2, <1>3, OrderFacts

\* Writing a row whose id is not in the list to both.
LEMMA InsertAgrees ==
  ASSUME NEW s \in Seq(Row), NEW table \in Table, NEW absent,
         NEW p \in 1 .. Len(s) + 1, NEW r \in Row,
         Agrees(s, table, absent), absent \subseteq {IdOf[r.task]},
         \A i \in 1 .. Len(s) : IdOf[s[i].task] # IdOf[r.task]
  PROVE  Agrees(InsertAt(s, p, r), Put(table, r), {})
<1> DEFINE t  == InsertAt(s, p, r)
           u  == Put(table, r)
           id == IdOf[r.task]
<1>1. /\ Len(t) = Len(s) + 1
      /\ \A k \in 1 .. Len(s) + 1 : t[k] = IF k < p THEN s[k] ELSE IF k = p THEN r ELSE s[k - 1]
  BY InsertShifts DEF Shifted
<1>2. u[id] = r /\ \A d \in Ids \ {id} : u[d] = table[d]
  BY RowFacts DEF Put, Table
<1>3. id \in Ids
  BY RowFacts
<1> HIDE DEF t, u, id
<1>4. ASSUME NEW k \in 1 .. Len(s) + 1
      PROVE  u[IdOf[t[k].task]] = t[k]
  <2>1. CASE k = p
    BY <1>1, <1>2, <2>1 DEF id
  <2>2. CASE k # p
    <3>1. PICK i \in 1 .. Len(s) : t[k] = s[i]
      BY <1>1, <2>2
    <3>2. s[i] \in Row /\ table[IdOf[s[i].task]] = s[i] /\ IdOf[s[i].task] # id
      BY DEF Agrees, id
    <3> QED
      BY <1>2, <3>1, <3>2, RowFacts
  <2> QED
    BY <2>1, <2>2
<1>5. ASSUME NEW d \in Ids, u[d] # NoRow
      PROVE  IdOf[u[d].task] = d /\ \E k \in 1 .. Len(s) + 1 : t[k] = u[d]
  <2>1. CASE d = id
    BY <1>1, <1>2, <2>1 DEF id
  <2>2. CASE d # id
    <3>1. u[d] = table[d] /\ d \notin absent
      BY <1>2, <2>2 DEF id
    <3>2. IdOf[table[d].task] = d /\ \E i \in 1 .. Len(s) : s[i] = table[d]
      BY <1>5, <3>1 DEF Agrees
    <3>3. PICK i \in 1 .. Len(s) : s[i] = table[d]
      BY <3>2
    <3>4. i < p => t[i] = s[i] /\ i \in 1 .. Len(s) + 1
      BY <1>1
    <3>5. i >= p => t[i + 1] = s[i] /\ i + 1 \in 1 .. Len(s) + 1
      BY <1>1
    <3> QED
      BY <3>1, <3>2, <3>3, <3>4, <3>5
  <2> QED
    BY <2>1, <2>2
<1> QED
  BY <1>1, <1>4, <1>5 DEF Agrees, t, u

\* Writing a row over the one of its id in both.
LEMMA ReplaceAgrees ==
  ASSUME NEW s \in Seq(Row), NEW table \in Table, NEW p \in 1 .. Len(s), NEW r \in Row,
         Increasing(s), Agrees(s, table, {}), IdOf[s[p].task] = IdOf[r.task]
  PROVE  Agrees(ReplaceAt(s, p, r), Put(table, r), {})
<1> DEFINE t  == ReplaceAt(s, p, r)
           u  == Put(table, r)
           id == IdOf[r.task]
<1>1. /\ Len(t) = Len(s)
      /\ \A k \in 1 .. Len(s) : t[k] = IF k = p THEN r ELSE s[k]
  BY DEF ReplaceAt
<1>2. u[id] = r /\ \A d \in Ids \ {id} : u[d] = table[d]
  BY RowFacts DEF Put, Table
<1>3. id \in Ids
  BY RowFacts
<1> HIDE DEF t, u, id
<1>4. ASSUME NEW k \in 1 .. Len(s)
      PROVE  u[IdOf[t[k].task]] = t[k]
  <2>1. CASE k = p
    BY <1>1, <1>2, <2>1 DEF id
  <2>2. CASE k # p
    <3>1. s[k] \in Row /\ table[IdOf[s[k].task]] = s[k]
      BY DEF Agrees
    <3>2. IdOf[s[k].task] # id
      BY <2>2, OneRowPerId DEF id
    <3> QED
      BY <1>1, <1>2, <2>2, <3>1, <3>2, RowFacts
  <2> QED
    BY <2>1, <2>2
<1>5. ASSUME NEW d \in Ids, u[d] # NoRow
      PROVE  IdOf[u[d].task] = d /\ \E k \in 1 .. Len(s) : t[k] = u[d]
  <2>1. CASE d = id
    BY <1>1, <1>2, <2>1 DEF id
  <2>2. CASE d # id
    <3>1. u[d] = table[d]
      BY <1>2, <2>2
    <3>2. PICK i \in 1 .. Len(s) : s[i] = table[d] /\ IdOf[table[d].task] = d
      BY <1>5, <3>1 DEF Agrees
    <3>3. i # p
      BY <2>2, <3>2 DEF id
    <3> QED
      BY <1>1, <3>1, <3>2, <3>3
  <2> QED
    BY <2>1, <2>2
<1> QED
  BY <1>1, <1>4, <1>5 DEF Agrees, t, u

\* Taking a row out of the list only.
LEMMA RemoveAgrees ==
  ASSUME NEW s \in Seq(Row), NEW table, NEW p \in 1 .. Len(s),
         Increasing(s), Agrees(s, table, {})
  PROVE  Agrees(RemoveAt(s, p), table, {IdOf[s[p].task]})
<1> DEFINE t  == RemoveAt(s, p)
           id == IdOf[s[p].task]
<1>1. /\ Len(t) = Len(s) - 1
      /\ \A k \in 1 .. Len(s) - 1 : t[k] = IF k < p THEN s[k] ELSE s[k + 1]
  BY RemoveAtProperties
<1> HIDE DEF t
<1>2. ASSUME NEW k \in 1 .. Len(s) - 1
      PROVE  table[IdOf[t[k].task]] = t[k] /\ IdOf[t[k].task] # id
  <2>1. PICK i \in 1 .. Len(s) : t[k] = s[i] /\ i # p
    BY <1>1
  <2>2. IdOf[s[i].task] # id
    BY <2>1, OneRowPerId
  <2> QED
    BY <2>1, <2>2 DEF Agrees
<1>3. ASSUME NEW d \in Ids, table[d] # NoRow, d # id
      PROVE  \E k \in 1 .. Len(s) - 1 : t[k] = table[d]
  <2>1. PICK i \in 1 .. Len(s) : s[i] = table[d] /\ IdOf[table[d].task] = d
    BY <1>3 DEF Agrees
  <2>2. i # p
    BY <1>3, <2>1
  <2>3. i < p => t[i] = s[i] /\ i \in 1 .. Len(s) - 1
    BY <1>1
  <2>4. i > p => t[i - 1] = s[i] /\ i - 1 \in 1 .. Len(s) - 1
    BY <1>1
  <2> QED
    BY <2>1, <2>2, <2>3, <2>4
<1> QED
  BY <1>1, <1>2, <1>3 DEF Agrees, t

\* Taking an id that is not in the list out of the table.
LEMMA DropAgrees ==
  ASSUME NEW s \in Seq(Row), NEW table \in Table, NEW id \in Ids, Agrees(s, table, {id})
  PROVE  Agrees(s, Drop(table, id), {})
<1>1. Drop(table, id)[id] = NoRow /\ \A d \in Ids \ {id} : Drop(table, id)[d] = table[d]
  BY DEF Drop, Table
<1>2. \A i \in 1 .. Len(s) : s[i] \in Row /\ IdOf[s[i].task] \in Ids
  BY RowFacts
<1> QED
  BY <1>1, <1>2 DEF Agrees

-----------------------------------------------------------------------------
(* The inductive invariant *)

\* The loop invariant of get_task_index: the rows below low are before the
\* row searched for, those from high on are not.  An insert searches for an
\* id that is not in the list; a replace or a delete searches for the sort
\* key under which the dictionary has the task.
SearchInvariant ==
  call # NoCall =>
    /\ low <= high /\ high <= Len(tasks)
    /\ \A i \in 1 .. low : Before(tasks[i], Target)
    /\ \A i \in high + 1 .. Len(tasks) : ~Before(tasks[i], Target)
    /\ call.op = "insert" => tasks_index[IdOf[call.task]] = NoRow
    /\ call.op \in {"insert", "reinsert"} => call.key = call.stamp
    /\ call.op \in {"replace", "delete"} =>
         /\ tasks_index[IdOf[call.task]] # NoRow
         /\ tasks_index[IdOf[call.task]].timestamp = call.key

IInv == TypeOK /\ Consistent /\ SearchInvariant

LEMMA CallFacts ==
  ASSUME TypeOK, call # NoCall
  PROVE  /\ call \in Call
         /\ call.op \in {"insert", "replace", "reinsert", "delete"}
         /\ call.task \in Tasks /\ IdOf[call.task] \in Ids
         /\ call.key \in Stamp /\ call.stamp \in Stamp
         /\ Target \in Row
         /\ Target.task = call.task /\ Target.timestamp = call.key
BY TableAssumption DEF TypeOK, Call, Target, NewRow, Row

\* Where a search for a row that is there ends.
LEMMA LandsOnRow ==
  ASSUME IInv, Found("replace") \/ Found("delete")
  PROVE  /\ low \in Nat /\ low < Len(tasks)
         /\ tasks[low + 1] = tasks_index[IdOf[call.task]]
         /\ IdOf[tasks[low + 1].task] = IdOf[call.task]
<1> DEFINE id == IdOf[call.task]
<1>1. call # NoCall /\ call.op \in {"replace", "delete"} /\ low = high /\ low \in Nat
  BY DEF Found, IInv, TypeOK
<1>2. /\ id \in Ids /\ Target \in Row
      /\ Target.task = call.task /\ Target.timestamp = call.key
  BY <1>1, CallFacts DEF IInv
<1>3. tasks_index[id] # NoRow /\ tasks_index[id].timestamp = call.key
  BY <1>1 DEF IInv, SearchInvariant
<1>4. Moving = {}
  BY <1>1 DEF Moving
<1>5. PICK i \in 1 .. Len(tasks) : tasks[i] = tasks_index[id] /\ IdOf[tasks_index[id].task] = id
  BY <1>2, <1>3, <1>4 DEF IInv, Consistent, Agrees
<1>6. i \in 1 .. Len(tasks) /\ Len(tasks) \in Nat /\ tasks[i] \in Row
  BY DEF IInv, TypeOK
<1>7. ~Before(tasks[i], Target) /\ ~Before(Target, tasks[i])
  BY <1>2, <1>3, <1>5, <1>6, RowFacts DEF Before
<1>8. i > low
  BY <1>1, <1>6, <1>7 DEF IInv, SearchInvariant
<1>9. low + 1 \in 1 .. Len(tasks) /\ tasks[low + 1] \in Row
  BY <1>1, <1>6, <1>8 DEF IInv, TypeOK
<1>10. ~Before(tasks[low + 1], Target)
  BY <1>1, <1>9 DEF IInv, SearchInvariant
<1>11. i = low + 1
  <2>1. CASE i > low + 1
    <3>1. Before(tasks[low + 1], tasks[i])
      BY <1>6, <1>9, <2>1 DEF IInv, Consistent, Increasing
    <3> QED
      BY <3>1, <1>2, <1>6, <1>7, <1>9, <1>10, OrderFacts
  <2> QED
    BY <1>1, <1>6, <1>8, <2>1
<1> QED
  BY <1>1, <1>5, <1>6, <1>11

\* Where a search for a new row ends: all that is before it is below low.
LEMMA LandsOnSlot ==
  ASSUME IInv, Found("insert") \/ Found("reinsert")
  PROVE  /\ low \in Nat /\ low <= Len(tasks)
         /\ NewRow(call.task, call.stamp) = Target
         /\ \A i \in 1 .. Len(tasks) : IdOf[tasks[i].task] # IdOf[call.task]
         /\ \A i \in 1 .. low : Before(tasks[i], Target)
         /\ \A i \in low + 1 .. Len(tasks) : Before(Target, tasks[i])
<1>1. call # NoCall /\ call.op \in {"insert", "reinsert"} /\ low = high /\ low \in Nat
  BY DEF Found, IInv, TypeOK
<1>2. /\ IdOf[call.task] \in Ids /\ Target \in Row
      /\ Target.task = call.task
  BY <1>1, CallFacts DEF IInv
<1>3. Len(tasks) \in Nat /\ low <= Len(tasks)
  BY <1>1 DEF IInv, TypeOK, SearchInvariant
<1>4. NewRow(call.task, call.stamp) = Target
  BY <1>1 DEF IInv, SearchInvariant, Target
<1>5. ASSUME NEW i \in 1 .. Len(tasks)
      PROVE  tasks[i] \in Row /\ IdOf[tasks[i].task] # IdOf[call.task]
  <2>1. /\ tasks[i] \in Row /\ tasks_index[IdOf[tasks[i].task]] = tasks[i]
        /\ IdOf[tasks[i].task] \notin Moving
    BY DEF IInv, TypeOK, Consistent, Agrees
  <2>2. call.op = "insert" => tasks_index[IdOf[call.task]] = NoRow
    BY <1>1 DEF IInv, SearchInvariant
  <2> QED
    BY <1>1, <2>1, <2>2, RowFacts DEF Moving
<1>6. ASSUME NEW i \in low + 1 .. Len(tasks)
      PROVE  Before(Target, tasks[i])
  <2>1. i \in 1 .. Len(tasks) /\ ~Before(tasks[i], Target)
    BY <1>1, <1>3 DEF IInv, SearchInvariant
  <2> QED
    BY <1>2, <1>5, <2>1, OrderFacts
<1> QED
  BY <1>1, <1>3, <1>4, <1>5, <1>6 DEF IInv, SearchInvariant

-----------------------------------------------------------------------------
(* Each step preserves the invariant *)

\* A new row goes in at the slot the search found.
LEMMA InsertStep ==
  ASSUME IInv, Insert
  PROVE  IInv'
<1> DEFINE row == NewRow(call.task, call.stamp)
<1>1. /\ Found("insert") \/ Found("reinsert")
      /\ tasks' = InsertAt(tasks, low + 1, row)
      /\ tasks_index' = Put(tasks_index, row)
      /\ call' = NoCall /\ low' = 0 /\ high' = 0
      /\ next_run_time' = next_run_time
  BY DEF Insert, Return
<1>2. /\ low \in Nat /\ low <= Len(tasks) /\ row = Target
      /\ \A i \in 1 .. Len(tasks) : IdOf[tasks[i].task] # IdOf[call.task]
      /\ \A i \in 1 .. low : Before(tasks[i], row)
      /\ \A i \in low + 1 .. Len(tasks) : Before(row, tasks[i])
  BY <1>1, LandsOnSlot
<1>3. row \in Row /\ row.task = call.task
  BY <1>1, <1>2, CallFacts DEF IInv, Found
<1>4. /\ tasks \in Seq(Row) /\ tasks_index \in Table /\ Len(tasks) \in Nat
      /\ Increasing(tasks) /\ Agrees(tasks, tasks_index, Moving)
  BY DEF IInv, TypeOK, Consistent
<1>5. Moving \subseteq {IdOf[row.task]}
  BY <1>3 DEF Moving
<1> HIDE DEF row
<1> DEFINE p == low + 1
<1>6. /\ p \in 1 .. Len(tasks) + 1
      /\ \A i \in 1 .. p - 1 : Before(tasks[i], row)
      /\ \A i \in p .. Len(tasks) : Before(row, tasks[i])
      /\ tasks' = InsertAt(tasks, p, row)
  BY <1>1, <1>2, <1>4
<1> HIDE DEF p
<1>7. tasks' \in Seq(Row) /\ Increasing(tasks')
  BY <1>3, <1>4, <1>6, InsertAtProperties, InsertKeepsOrder
<1>8. Agrees(tasks', tasks_index', {})
  BY <1>1, <1>2, <1>3, <1>4, <1>5, <1>6, InsertAgrees
<1>9. TypeOK'
  <2>1. tasks_index' \in Table
    BY <1>1, <1>3, <1>4 DEF Put, Table
  <2> QED
    BY <1>1, <1>7, <2>1 DEF IInv, TypeOK
<1>10. Moving' = {} /\ SearchInvariant'
  BY <1>1 DEF Moving, SearchInvariant
<1> QED
  BY <1>7, <1>8, <1>9, <1>10 DEF IInv, Consistent

\* An update writes over the row it found, or takes it out and searches again.
LEMMA ReplaceStep ==
  ASSUME IInv, Replace
  PROVE  IInv'
<1> DEFINE row == NewRow(call.task, call.stamp)
           id  == IdOf[call.task]
           p   == low + 1
<1>1. Found("replace") /\ next_run_time' = next_run_time
  BY DEF Replace
<1>2. /\ p \in 1 .. Len(tasks) /\ IdOf[tasks[p].task] = id
      /\ tasks[p] = tasks_index[id]
  <2>1. low \in Nat /\ low < Len(tasks) /\ Len(tasks) \in Nat
    BY <1>1, LandsOnRow DEF IInv, TypeOK
  <2> QED
    BY <1>1, <2>1, LandsOnRow
<1>3. row \in Row /\ row.task = call.task /\ id \in Ids /\ call \in Call
  BY <1>1, CallFacts DEF IInv, Found, NewRow, Row
<1>4. Moving = {}
  BY <1>1 DEF Found, Moving
<1>5. /\ tasks \in Seq(Row) /\ tasks_index \in Table /\ Len(tasks) \in Nat
      /\ Increasing(tasks) /\ Agrees(tasks, tasks_index, {})
  BY <1>4 DEF IInv, TypeOK, Consistent
<1>6. CASE call.key = call.stamp /\ tasks' = ReplaceAt(tasks, p, row)
           /\ tasks_index' = Put(tasks_index, row) /\ Return
  <2>1. call' = NoCall /\ low' = 0 /\ high' = 0
    BY <1>6 DEF Return
  <2> HIDE DEF row, p
  <2>2. /\ tasks' \in Seq(Row) /\ Len(tasks') = Len(tasks)
        /\ \A k \in 1 .. Len(tasks) : tasks'[k] = IF k = p THEN row ELSE tasks[k]
    BY <1>2, <1>3, <1>5, <1>6 DEF ReplaceAt
  <2>3. row.timestamp = tasks[p].timestamp
    BY <1>1, <1>2, <1>6 DEF row, NewRow, Found, IInv, SearchInvariant
  <2>4. Increasing(tasks')
    BY <1>2, <1>3, <1>5, <2>2, <2>3 DEF Increasing, Before
  <2>5. Agrees(tasks', tasks_index', {})
    BY <1>2, <1>3, <1>5, <1>6, ReplaceAgrees
  <2>6. tasks_index' \in Table
    BY <1>3, <1>5, <1>6 DEF Put, Table
  <2>7. Moving' = {} /\ SearchInvariant'
    BY <2>1 DEF Moving, SearchInvariant
  <2> QED
    BY <1>1, <2>1, <2>2, <2>4, <2>5, <2>6, <2>7 DEF IInv, TypeOK, Consistent
<1>7. CASE call.key # call.stamp /\ tasks' = RemoveAt(tasks, p)
           /\ Search("reinsert", call.task, call.stamp, call.stamp, Len(tasks) - 1)
           /\ UNCHANGED <<tasks_index, reply>>
  <2>1. /\ call' = [op |-> "reinsert", task |-> call.task, key |-> call.stamp, stamp |-> call.stamp]
        /\ low' = 0 /\ high' = Len(tasks) - 1 /\ tasks_index' = tasks_index
    BY <1>7 DEF Search
  <2> HIDE DEF p
  <2>2. tasks' \in Seq(Row) /\ Len(tasks') = Len(tasks) - 1 /\ Increasing(tasks')
    BY <1>2, <1>5, <1>7, RemoveAtProperties, RemoveKeepsOrder
  <2>3. Agrees(tasks', tasks_index', {id})
    BY <1>2, <1>5, <1>7, <2>1, RemoveAgrees
  <2>4. call' \in Call /\ call'.task = call.task
    BY <1>3, <2>1 DEF Call
  <2>5. call' # NoCall
    BY <2>1 DEF NoCall
  <2>6. Moving' = {id}
    BY <2>1, <2>5 DEF Moving
  <2>7. SearchInvariant'
    BY <1>2, <1>5, <2>1, <2>2 DEF SearchInvariant
  <2> QED
    BY <1>1, <1>2, <1>5, <2>1, <2>2, <2>3, <2>4, <2>6, <2>7 DEF IInv, TypeOK, Consistent
<1> QED
  BY <1>6, <1>7 DEF Replace

\* A delete takes the row it found out of both.
LEMMA DeleteStep ==
  ASSUME IInv, Delete
  PROVE  IInv'
<1> DEFINE id == IdOf[call.task]
           p  == low + 1
<1>1. /\ Found("delete") /\ next_run_time' = next_run_time
      /\ tasks' = RemoveAt(tasks, p) /\ tasks_index' = Drop(tasks_index, id)
      /\ call' = NoCall /\ low' = 0 /\ high' = 0
  BY DEF Delete, Return
<1>2. p \in 1 .. Len(tasks) /\ IdOf[tasks[p].task] = id
  <2>1. low \in Nat /\ low < Len(tasks) /\ Len(tasks) \in Nat
    BY <1>1, LandsOnRow DEF IInv, TypeOK
  <2> QED
    BY <1>1, <2>1, LandsOnRow
<1>3. id \in Ids
  BY <1>1, CallFacts DEF IInv, Found
<1>4. Moving = {}
  BY <1>1 DEF Found, Moving
<1>5. /\ tasks \in Seq(Row) /\ tasks_index \in Table /\ Len(tasks) \in Nat
      /\ Increasing(tasks) /\ Agrees(tasks, tasks_index, {})
  BY <1>4 DEF IInv, TypeOK, Consistent
<1> HIDE DEF id, p
<1>6. tasks' \in Seq(Row) /\ Increasing(tasks')
  BY <1>1, <1>2, <1>5, RemoveAtProperties, RemoveKeepsOrder
<1>7. Agrees(tasks', tasks_index, {id})
  BY <1>1, <1>2, <1>5, RemoveAgrees
<1>8. Agrees(tasks', tasks_index', {})
  BY <1>1, <1>3, <1>5, <1>6, <1>7, DropAgrees
<1>9. tasks_index' \in Table
  BY <1>1, <1>3, <1>5 DEF Drop, Table
<1>10. Moving' = {} /\ SearchInvariant'
  BY <1>1 DEF Moving, SearchInvariant
<1> QED
  BY <1>1, <1>6, <1>8, <1>9, <1>10 DEF IInv, TypeOK, Consistent

\* Starting a search over the whole list leaves nothing below low.
LEMMA SearchStarts ==
  ASSUME IInv, call = NoCall, NEW t \in Tasks,
         NEW op \in {"insert", "replace", "delete"},
         NEW key \in Stamp, NEW stamp \in Stamp,
         op = "insert" => tasks_index[IdOf[t]] = NoRow /\ key = stamp,
         op \in {"replace", "delete"} =>
           tasks_index[IdOf[t]] # NoRow /\ tasks_index[IdOf[t]].timestamp = key,
         Search(op, t, key, stamp, Len(tasks)),
         UNCHANGED data
  PROVE  IInv'
<1>1. /\ call' = [op |-> op, task |-> t, key |-> key, stamp |-> stamp]
      /\ low' = 0 /\ high' = Len(tasks) /\ Len(tasks) \in Nat
      /\ tasks' = tasks /\ tasks_index' = tasks_index /\ next_run_time' = next_run_time
  BY DEF Search, data, IInv, TypeOK
<1>2. call' \in Call /\ call'.op = op /\ call'.task = t /\ call'.key = key /\ call'.stamp = stamp
  BY <1>1 DEF Call
<1>3. Moving = {} /\ Moving' = {}
  BY <1>2 DEF Moving
<1>4. TypeOK'
  BY <1>1, <1>2 DEF IInv, TypeOK
<1>5. Consistent'
  BY <1>1, <1>3 DEF IInv, Consistent
<1>6. SearchInvariant'
  BY <1>1, <1>2 DEF SearchInvariant
<1> QED
  BY <1>4, <1>5, <1>6 DEF IInv

\* A row of the dictionary has the id it is stored under.
LEMMA StoredRow ==
  ASSUME IInv, NEW id \in Ids, tasks_index[id] # NoRow
  PROVE  /\ tasks_index[id] \in Row
         /\ tasks_index[id].task \in Tasks /\ tasks_index[id].timestamp \in Stamp
         /\ IdOf[tasks_index[id].task] = id
<1>1. tasks_index[id] \in Row
  BY DEF IInv, TypeOK, Table
<1> QED
  BY <1>1, RowFacts DEF IInv, Consistent, Agrees

LEMMA AddStep ==
  ASSUME IInv, NEW t \in Tasks, AddTask(t)
  PROVE  IInv'
<1>1. CASE UNCHANGED <<data, call, low, high>>
  BY <1>1 DEF IInv, TypeOK, Consistent, Moving, SearchInvariant, Target, data
<1>2. CASE /\ tasks_index[IdOf[t]] = NoRow
           /\ Search("insert", t, next_run_time[t], next_run_time[t], Len(tasks))
           /\ UNCHANGED <<data, reply>>
  <2>1. next_run_time[t] \in Stamp
    BY DEF IInv, TypeOK
  <2> QED
    BY <1>2, <2>1, SearchStarts DEF AddTask, Ready
<1> QED
  BY <1>1, <1>2 DEF AddTask

LEMMA UpdateStep ==
  ASSUME IInv, NEW t \in Tasks, UpdateTask(t)
  PROVE  IInv'
<1> DEFINE old == tasks_index[IdOf[t]]
<1>1. /\ call = NoCall /\ UNCHANGED data
      /\ \/ old = NoRow /\ Search("insert", t, next_run_time[t], next_run_time[t], Len(tasks))
         \/ old # NoRow /\ Search("replace", t, old.timestamp, next_run_time[t], Len(tasks))
  BY DEF UpdateTask, Ready
<1>2. next_run_time[t] \in Stamp /\ IdOf[t] \in Ids
  BY TableAssumption DEF IInv, TypeOK
<1>3. CASE old = NoRow
  BY <1>1, <1>2, <1>3, SearchStarts
<1>4. CASE old # NoRow
  <2>1. old.timestamp \in Stamp
    BY <1>2, <1>4, StoredRow
  <2> QED
    BY <1>1, <1>2, <1>4, <2>1, SearchStarts
<1> QED
  BY <1>3, <1>4

LEMMA DeleteTaskStep ==
  ASSUME IInv, NEW id \in Ids, DeleteTask(id)
  PROVE  IInv'
<1> DEFINE old == tasks_index[id]
<1>1. CASE UNCHANGED <<data, call, low, high>>
  BY <1>1 DEF IInv, TypeOK, Consistent, Moving, SearchInvariant, Target, data
<1>2. CASE /\ old # NoRow /\ UNCHANGED data
           /\ Search("delete", old.task, old.timestamp, old.timestamp, Len(tasks))
  <2>1. old.task \in Tasks /\ old.timestamp \in Stamp /\ IdOf[old.task] = id
    BY <1>2, StoredRow
  <2>2. call = NoCall
    BY DEF DeleteTask, Ready
  <2> QED
    BY <1>2, <2>1, <2>2, SearchStarts
<1> QED
  BY <1>1, <1>2 DEF DeleteTask

\* A probe halves the range that is left, and keeps what it left out sorted.
LEMMA ProbeStep ==
  ASSUME IInv, Probe
  PROVE  IInv'
<1> DEFINE mid == (low + high) \div 2
           row == tasks[mid + 1]
<1>1. /\ call # NoCall /\ low < high /\ call' = call
      /\ tasks' = tasks /\ tasks_index' = tasks_index /\ next_run_time' = next_run_time
      /\ \/ Before(Target, row) /\ high' = mid /\ low' = low
         \/ Before(row, Target) /\ low' = mid + 1 /\ high' = high
         \/ ~Before(Target, row) /\ ~Before(row, Target) /\ low' = mid /\ high' = mid
  BY DEF Probe, HighFrom, LowFrom, data
<1>2. low \in Nat /\ high \in Nat /\ Len(tasks) \in Nat /\ high <= Len(tasks)
  BY <1>1 DEF IInv, TypeOK, SearchInvariant
<1>3. mid \in Nat /\ low <= mid /\ mid < high
  BY <1>1, <1>2
<1>4. Target \in Row /\ Target' = Target
  BY <1>1, CallFacts DEF IInv, Target
<1>5. \A i \in 1 .. Len(tasks) : tasks[i] \in Row
  BY DEF IInv, TypeOK
<1>6. row \in Row /\ mid + 1 \in 1 .. Len(tasks)
  BY <1>2, <1>3, <1>5
<1> HIDE DEF mid
<1>7. \A i \in 1 .. mid : Before(tasks[i], row)
  BY <1>2, <1>3, <1>6 DEF IInv, Consistent, Increasing
<1>8. \A i \in mid + 2 .. Len(tasks) : Before(row, tasks[i])
  BY <1>2, <1>3, <1>6 DEF IInv, Consistent, Increasing
<1>9. /\ \A i \in 1 .. low : Before(tasks[i], Target)
      /\ \A i \in high + 1 .. Len(tasks) : ~Before(tasks[i], Target)
  BY <1>1 DEF IInv, SearchInvariant
<1>10. ASSUME ~Before(row, Target)
       PROVE  \A i \in mid + 1 .. Len(tasks) : ~Before(tasks[i], Target)
  <2> SUFFICES ASSUME NEW i \in mid + 1 .. Len(tasks)
               PROVE  ~Before(tasks[i], Target)
    OBVIOUS
  <2>1. CASE i = mid + 1
    BY <1>10, <2>1
  <2>2. CASE i # mid + 1
    <3>1. i \in mid + 2 .. Len(tasks) /\ tasks[i] \in Row
      BY <1>2, <1>3, <1>5, <2>2
    <3>2. Before(row, tasks[i])
      BY <1>8, <3>1
    <3> QED
      BY <1>4, <1>6, <1>10, <3>1, <3>2, OrderFacts
  <2> QED
    BY <2>1, <2>2
<1>11. ASSUME ~Before(Target, row)
       PROVE  \A i \in 1 .. mid : Before(tasks[i], Target)
  <2> SUFFICES ASSUME NEW i \in 1 .. mid
               PROVE  Before(tasks[i], Target)
    OBVIOUS
  <2>1. tasks[i] \in Row /\ Before(tasks[i], row)
    BY <1>2, <1>3, <1>5, <1>7
  <2> QED
    BY <1>4, <1>6, <1>11, <2>1, OrderFacts
<1>12. /\ low' \in Nat /\ high' \in Nat /\ low' <= high' /\ high' <= Len(tasks)
       /\ \A i \in 1 .. low' : Before(tasks[i], Target)
       /\ \A i \in high' + 1 .. Len(tasks) : ~Before(tasks[i], Target)
  <2>1. CASE Before(Target, row) /\ high' = mid /\ low' = low
    <3>1. ~Before(row, Target)
      BY <1>4, <1>6, <2>1, OrderFacts
    <3> QED
      BY <1>2, <1>3, <1>9, <1>10, <2>1, <3>1
  <2>2. CASE Before(row, Target) /\ low' = mid + 1 /\ high' = high
    <3>1. ~Before(Target, row)
      BY <1>4, <1>6, <2>2, OrderFacts
    <3> QED
      BY <1>2, <1>3, <1>9, <1>11, <2>2, <3>1
  <2>3. CASE ~Before(Target, row) /\ ~Before(row, Target) /\ low' = mid /\ high' = mid
    BY <1>2, <1>3, <1>10, <1>11, <2>3
  <2> QED
    BY <1>1, <2>1, <2>2, <2>3
<1>13. SearchInvariant'
  BY <1>1, <1>4, <1>12 DEF IInv, SearchInvariant
<1> QED
  BY <1>1, <1>12, <1>13 DEF IInv, TypeOK, Consistent, Moving

\* The steps that leave the list, the dictionary and the call alone.
LEMMA OtherSteps ==
  ASSUME IInv,
         \/ \E now \in Times : GetDueTasks(now)
         \/ \E t \in Tasks, stamp \in Stamp : SetNextRunTime(t, stamp)
         \/ GetAllTasks \/ GetNextRunTime \/ TakeReply \/ UNCHANGED vars
  PROVE  IInv'
<1>1. /\ UNCHANGED <<tasks, tasks_index, call, low, high>>
      /\ next_run_time' \in [Tasks -> Stamp]
  BY DEF IInv, TypeOK, GetDueTasks, GetAllTasks, GetNextRunTime, TakeReply,
         SetNextRunTime, data, vars
<1> QED
  BY <1>1 DEF IInv, TypeOK, Consistent, Moving, SearchInvariant, Target

LEMMA RemoveAllStep ==
  ASSUME IInv, RemoveAllTasks
  PROVE  IInv'
<1>1. /\ call = NoCall /\ UNCHANGED <<next_run_time, call, low, high>>
      /\ tasks' = <<>> /\ tasks_index' = EmptyTable
  BY DEF RemoveAllTasks, Ready
<1>2. tasks' \in Seq(Row) /\ Len(tasks') = 0 /\ tasks_index' \in Table
  BY <1>1 DEF EmptyTable, Table
<1> QED
  BY <1>1, <1>2 DEF IInv, TypeOK, Consistent, Moving, SearchInvariant, Increasing, Agrees,
                    EmptyTable

-----------------------------------------------------------------------------
(* The theorems *)

LEMMA InitIInv == Init => IInv
<1> SUFFICES ASSUME Init PROVE IInv
  OBVIOUS
<1>1. /\ tasks \in Seq(Row) /\ Len(tasks) = 0 /\ tasks_index \in Table
      /\ tasks_index = EmptyTable /\ call = NoCall
  BY DEF Init, EmptyTable, Table
<1> QED
  BY <1>1 DEF Init, IInv, TypeOK, Consistent, Moving, SearchInvariant, Increasing, Agrees,
              EmptyTable

LEMMA StepIInv == IInv /\ [Next]_vars => IInv'
<1> SUFFICES ASSUME IInv, [Next]_vars PROVE IInv'
  OBVIOUS
<1>1. CASE \E t \in Tasks : AddTask(t) \/ UpdateTask(t)
  BY <1>1, AddStep, UpdateStep
<1>2. CASE \E id \in Ids : DeleteTask(id)
  BY <1>2, DeleteTaskStep
<1>3. CASE InCall
  BY <1>3, ProbeStep, InsertStep, ReplaceStep, DeleteStep DEF InCall
<1>4. CASE RemoveAllTasks
  BY <1>4, RemoveAllStep
<1>5. CASE \/ \E now \in Times : GetDueTasks(now)
           \/ \E t \in Tasks, stamp \in Stamp : SetNextRunTime(t, stamp)
           \/ GetAllTasks \/ GetNextRunTime \/ TakeReply \/ UNCHANGED vars
  BY <1>5, OtherSteps
<1> QED
  BY <1>1, <1>2, <1>3, <1>4, <1>5 DEF Next

\* The invariant of the store and of its binary search holds in every state.
THEOREM StoreInvariant == Spec => []IInv
  BY InitIInv, StepIInv, PTL DEF Spec

\* The list stays sorted and stays the dictionary's, whatever the calls and
\* the writes to next_run_time (stores/memory.py:53-97).
THEOREM StoreConsistent == Spec => []Consistent
<1>1. IInv => Consistent
  BY DEF IInv
<1> QED
  BY <1>1, StoreInvariant, PTL

\* The bounds of a binary search never go below the first row, the rows are of
\* tasks, and every task has a run time or none (stores/memory.py:40-129).
THEOREM StoreTypes == Spec => []TypeOK
<1>1. IInv => TypeOK
  BY DEF IInv
<1> QED
  BY <1>1, StoreInvariant, PTL

\* get_task_index lands on the row of the task that is updated or deleted
\* (stores/memory.py:107-129).
THEOREM SearchCorrect == Spec => []SearchLands
<1>1. IInv => SearchLands
  BY LandsOnRow DEF SearchLands
<1> QED
  BY <1>1, StoreInvariant, PTL

-----------------------------------------------------------------------------
(* The store implements TaskStore *)

LEMMA MinExists ==
  ASSUME NEW T \in SUBSET Nat, T # {}
  PROVE  Min(T) \in T /\ \A y \in T : Min(T) <= y
<1> DEFINE Less == OpToRel(<, Nat)
<1>1. IsWellFoundedOn(Less, Nat)
  BY NatLessThanWellFounded
<1>2. \A x, y \in Nat : <<y, x>> \in Less <=> y < x
  BY DEF OpToRel
<1> HIDE DEF Less
<1>3. PICK x \in T : \A y \in T : <<y, x>> \notin Less
  BY <1>1, WFMin
<1>4. \A y \in T : x <= y
  <2> SUFFICES ASSUME NEW y \in T, ~(x <= y)
               PROVE  FALSE
    OBVIOUS
  <2>1. x \in Nat /\ y \in Nat /\ y < x
    OBVIOUS
  <2>2. <<y, x>> \in Less
    BY <1>2, <2>1
  <2> QED
    BY <1>3, <2>2
<1> QED
  BY <1>4 DEF Min

\* Between calls the list has the rows of the dictionary, in order.
LEMMA ListsRows ==
  ASSUME IInv, call = NoCall
  PROVE  /\ Len(tasks) \in Nat /\ DOMAIN tasks = 1 .. Len(tasks)
         /\ \A i \in 1 .. Len(tasks) : tasks[i] \in Row
         /\ Rows(tasks_index) = {tasks[i] : i \in 1 .. Len(tasks)}
         /\ \A i, j \in 1 .. Len(tasks) : i < j => Before(tasks[i], tasks[j])
<1>1. Increasing(tasks) /\ Agrees(tasks, tasks_index, {})
  BY DEF IInv, Consistent, Moving
<1>2. /\ Len(tasks) \in Nat /\ DOMAIN tasks = 1 .. Len(tasks)
      /\ \A i \in 1 .. Len(tasks) : tasks[i] \in Row
  BY DEF IInv, TypeOK
<1>3. ASSUME NEW i \in 1 .. Len(tasks)
      PROVE  tasks[i] \in Rows(tasks_index)
  <2>1. tasks[i] \in Row /\ tasks_index[IdOf[tasks[i].task]] = tasks[i]
    BY <1>1, <1>2 DEF Agrees
  <2> QED
    BY <2>1, RowFacts DEF Rows
<1>4. ASSUME NEW r \in Rows(tasks_index)
      PROVE  \E i \in 1 .. Len(tasks) : tasks[i] = r
  <2>1. PICK id \in Ids : r = tasks_index[id] /\ r # NoRow
    BY DEF Rows
  <2> QED
    BY <1>1, <2>1 DEF Agrees
<1> QED
  BY <1>1, <1>2, <1>3, <1>4 DEF Increasing

\* The rows before the first that is not due are those that are due.
LEMMA PrefixIsDue ==
  ASSUME IInv, call = NoCall, NEW now \in Times
  PROVE  /\ {DuePrefix(now)[i] : i \in DOMAIN DuePrefix(now)} = DueRows(tasks_index, now)
         /\ \A i, j \in DOMAIN DuePrefix(now) : i < j => Before(DuePrefix(now)[i], DuePrefix(now)[j])
<1> DEFINE NotDue(i) == tasks[i].timestamp = Never \/ tasks[i].timestamp > now
           stop == {i \in DOMAIN tasks : NotDue(i)}
           last == IF stop = {} THEN Len(tasks) ELSE Min(stop) - 1
           s == SubSeq(tasks, 1, last)
<1>1. /\ Len(tasks) \in Nat /\ DOMAIN tasks = 1 .. Len(tasks)
      /\ \A i \in 1 .. Len(tasks) : tasks[i] \in Row
      /\ Rows(tasks_index) = {tasks[i] : i \in 1 .. Len(tasks)}
      /\ \A i, j \in 1 .. Len(tasks) : i < j => Before(tasks[i], tasks[j])
  BY ListsRows
<1>2. now \in Int /\ Never \in Int /\ (\A t \in Times : t \in Int /\ t < Never)
  BY TableAssumption
<1>3. last \in Nat /\ last <= Len(tasks) /\ \A i \in 1 .. Len(tasks) : i <= last <=> ~NotDue(i)
  <2>1. CASE stop = {}
    BY <1>1, <2>1
  <2>2. CASE stop # {}
    <3> DEFINE m == Min(stop)
    <3>1. m \in stop /\ \A y \in stop : m <= y
      <4>1. stop \in SUBSET Nat
        BY <1>1
      <4> HIDE DEF stop
      <4> QED
        BY <2>2, <4>1, MinExists
    <3> HIDE DEF m
    <3>2. m \in 1 .. Len(tasks) /\ NotDue(m) /\ last = m - 1
      BY <1>1, <2>2, <3>1 DEF m
    <3>3. ASSUME NEW i \in 1 .. Len(tasks), i >= m
          PROVE  NotDue(i)
      <4>1. CASE i = m
        BY <3>2, <4>1
      <4>2. CASE i # m
        <5>1. Before(tasks[m], tasks[i]) /\ tasks[m] \in Row /\ tasks[i] \in Row
          BY <1>1, <3>2, <3>3, <4>2
        <5>2. /\ tasks[m].timestamp \in Stamp /\ tasks[i].timestamp \in Stamp
              /\ tasks[m].timestamp \in Int /\ tasks[i].timestamp \in Int
          BY <5>1, RowFacts
        <5>3. tasks[m].timestamp <= tasks[i].timestamp
          BY <5>1, <5>2 DEF Before
        <5> QED
          BY <1>2, <3>2, <5>2, <5>3 DEF Stamp
      <4> QED
        BY <4>1, <4>2
    <3>4. \A i \in 1 .. Len(tasks) : i < m => ~NotDue(i)
      BY <1>1, <3>1, <3>2
    <3> HIDE DEF NotDue, last, stop
    <3>5. ASSUME NEW i \in 1 .. Len(tasks)
          PROVE  i <= last <=> ~NotDue(i)
      <4>1. i \in Int /\ m \in Int /\ (i <= last <=> i < m)
        BY <1>1, <3>2
      <4> QED
        BY <3>3, <3>4, <4>1
    <3> QED
      BY <1>1, <3>2, <3>5
  <2> QED
    BY <2>1, <2>2
<1>4. DuePrefix(now) = s
  BY DEF DuePrefix
<1> HIDE DEF last, stop, NotDue
<1>5. DOMAIN s = 1 .. last /\ \A i \in 1 .. last : s[i] = tasks[i] /\ i \in 1 .. Len(tasks)
  <2>1. tasks \in Seq(Row)
    BY DEF IInv, TypeOK
  <2>2. s \in Seq(Row) /\ Len(s) = last /\ \A i \in 1 .. last : s[i] = tasks[i]
    BY <1>1, <1>3, <2>1, SubSeqProperties
  <2> HIDE DEF s
  <2> QED
    BY <1>1, <1>3, <2>2
<1> HIDE DEF s
<1>6. DueRows(tasks_index, now) = {tasks[i] : i \in 1 .. last}
  <2>1. ASSUME NEW i \in 1 .. Len(tasks)
        PROVE  i <= last <=> tasks[i].timestamp # Never /\ tasks[i].timestamp <= now
    <3>1. tasks[i].timestamp \in Int
      BY <1>1, RowFacts
    <3> QED
      BY <1>2, <1>3, <3>1 DEF NotDue
  <2>2. \A i \in 1 .. last : i \in 1 .. Len(tasks) /\ i <= last
    BY <1>1, <1>3
  <2>3. \A i \in 1 .. Len(tasks) : i <= last => i \in 1 .. last
    BY <1>1, <1>3
  <2> QED
    BY <1>1, <2>1, <2>2, <2>3 DEF DueRows
<1>7. {s[i] : i \in DOMAIN s} = {tasks[i] : i \in 1 .. last}
  BY <1>5
<1>8. \A i, j \in DOMAIN s : i < j => Before(s[i], s[j])
  BY <1>1, <1>5
<1> QED
  BY <1>4, <1>6, <1>7, <1>8

\* A call in progress follows on an answer that was taken.
Unanswered == call # NoCall => reply = Returned

LEMMA UnansweredKeeps ==
  ASSUME Unanswered, [Next]_vars
  PROVE  Unanswered'
<1>1. call' = NoCall \/ reply' = Returned \/ UNCHANGED <<call, reply>>
  <2>1. CASE \E t \in Tasks : AddTask(t) \/ UpdateTask(t)
    BY <2>1 DEF AddTask, UpdateTask, Ready
  <2>2. CASE \E id \in Ids : DeleteTask(id)
    BY <2>2 DEF DeleteTask, Ready
  <2>3. CASE InCall
    BY <2>3 DEF InCall, Probe, Insert, Replace, Delete, Return, Found, Unanswered
  <2>4. CASE RemoveAllTasks \/ GetAllTasks \/ GetNextRunTime \/ \E now \in Times : GetDueTasks(now)
    BY <2>4 DEF RemoveAllTasks, GetAllTasks, GetNextRunTime, GetDueTasks, Ready
  <2>5. CASE TakeReply \/ \E t \in Tasks, stamp \in Stamp : SetNextRunTime(t, stamp)
    BY <2>5 DEF TakeReply, SetNextRunTime
  <2>6. CASE UNCHANGED vars
    BY <2>6 DEF vars
  <2> QED
    BY <2>1, <2>2, <2>3, <2>4, <2>5, <2>6 DEF Next
<1> QED
  BY <1>1 DEF Unanswered

\* The abstract store speaks of the same replies, rows and tables.
LEMMA SameWords ==
  /\ Abstract!Returned = Returned /\ Abstract!Conflict = Conflict /\ Abstract!Missing = Missing
  /\ \A t, stamp : Abstract!NewRow(t, stamp) = NewRow(t, stamp)
  /\ \A table, row : Abstract!Put(table, row) = Put(table, row)
  /\ \A table, id : Abstract!Drop(table, id) = Drop(table, id)
  /\ Abstract!EmptyTable = EmptyTable
  /\ Abstract!Stamp = Stamp
  /\ Abstract!Rows(tasks_index) = Rows(tasks_index)
  /\ \A now : Abstract!DueRows(tasks_index, now) = DueRows(tasks_index, now)
  /\ \A r, s : Abstract!Before(r, s) <=> Before(r, s)
BY DEF Abstract!Returned, Abstract!Conflict, Abstract!Missing, Abstract!Reply, Returned, Conflict, Missing, Reply,
       Abstract!NewRow, NewRow, Abstract!Put, Put, Abstract!Drop, Drop, Abstract!EmptyTable, EmptyTable,
       Abstract!Stamp, Stamp, Abstract!Rows, Rows, Abstract!DueRows, DueRows, Abstract!Before, Before

\* A write takes effect at its last step, and that all at once.
LEMMA WriteImplements ==
  ASSUME IInv, Unanswered, InCall
  PROVE  Abstract!TaskStoreNext \/ UNCHANGED Abstract!storeVars
<1> DEFINE row == NewRow(call.task, call.stamp)
<1>1. call # NoCall /\ reply = Returned
  BY DEF InCall, Probe, Insert, Replace, Delete, Found, Unanswered
<1>2. call.task \in Tasks /\ call.stamp \in Stamp /\ IdOf[call.task] \in Ids
  BY <1>1, CallFacts DEF IInv
<1>3. CASE tasks_index' = Put(tasks_index, row) /\ UNCHANGED <<next_run_time, reply>>
  <2>1. Abstract!UpdateTask(call.task, call.stamp)
    BY <1>1, <1>3, SameWords DEF Abstract!UpdateTask
  <2> QED
    BY <1>2, <2>1, SameWords DEF Abstract!TaskStoreNext
<1>4. CASE UNCHANGED <<tasks_index, next_run_time, reply>>
  BY <1>4 DEF Abstract!storeVars
<1>5. CASE Delete
  <2>1. tasks_index' = Drop(tasks_index, IdOf[call.task]) /\ UNCHANGED <<next_run_time, reply>>
    BY <1>5 DEF Delete, Return
  <2>2. tasks_index[IdOf[call.task]] # NoRow
    BY <1>1, <1>5 DEF Delete, Found, IInv, SearchInvariant
  <2>3. Abstract!DeleteTask(IdOf[call.task])
    BY <1>1, <2>1, <2>2, SameWords DEF Abstract!DeleteTask
  <2> QED
    BY <1>2, <2>3 DEF Abstract!TaskStoreNext
<1> QED
  BY <1>3, <1>4, <1>5 DEF InCall, Probe, Insert, Replace, Return, Search, data

LEMMA QueryImplements ==
  ASSUME IInv, (\E now \in Times : GetDueTasks(now)) \/ GetAllTasks \/ GetNextRunTime
  PROVE  Abstract!TaskStoreNext
<1>1. call = NoCall /\ reply = Returned /\ UNCHANGED <<tasks_index, next_run_time>>
  BY DEF GetDueTasks, GetAllTasks, GetNextRunTime, Ready, data
<1>2. \A kind, list, time : /\ Reply(kind, list, time).kind = kind
                            /\ Reply(kind, list, time).list = list
                            /\ Reply(kind, list, time).time = time
  BY DEF Reply
<1>3. ASSUME NEW now \in Times, GetDueTasks(now)
      PROVE  Abstract!TaskStoreNext
  <2> DEFINE s == DuePrefix(now)
  <2>1. reply' = Reply("due", s, Never)
    BY <1>3 DEF GetDueTasks
  <2>2. /\ {s[i] : i \in DOMAIN s} = DueRows(tasks_index, now)
        /\ \A i, j \in DOMAIN s : i < j => Before(s[i], s[j])
    BY <1>1, PrefixIsDue
  <2> HIDE DEF s
  <2>3. Abstract!Lists(s, Abstract!DueRows(tasks_index, now))
    BY <2>2, SameWords DEF Abstract!Lists
  <2>4. Abstract!GetDueTasks(now)
    BY <1>1, <1>2, <2>1, <2>3, SameWords DEF Abstract!GetDueTasks
  <2> QED
    BY <2>4 DEF Abstract!TaskStoreNext
<1>4. CASE GetAllTasks
  <2>1. reply' = Reply("all", tasks, Never)
    BY <1>4 DEF GetAllTasks
  <2>2. Abstract!Lists(tasks, Abstract!Rows(tasks_index))
    BY <1>1, ListsRows, SameWords DEF Abstract!Lists
  <2>3. Abstract!GetAllTasks
    BY <1>1, <1>2, <2>1, <2>2, SameWords DEF Abstract!GetAllTasks
  <2> QED
    BY <2>3 DEF Abstract!TaskStoreNext
<1>5. CASE GetNextRunTime
  <2>1. reply' = Reply("next", <<>>, IF tasks = <<>> THEN Never ELSE next_run_time[tasks[1].task])
    BY <1>5 DEF GetNextRunTime
  <2>2. /\ Len(tasks) \in Nat
        /\ \A i \in 1 .. Len(tasks) : tasks[i] \in Row
        /\ Rows(tasks_index) = {tasks[i] : i \in 1 .. Len(tasks)}
        /\ \A i, j \in 1 .. Len(tasks) : i < j => Before(tasks[i], tasks[j])
    BY <1>1, ListsRows
  <2>3. tasks = <<>> <=> Len(tasks) = 0
    BY DEF IInv, TypeOK
  <2>4. CASE tasks = <<>>
    <3>1. Rows(tasks_index) = {}
      BY <2>2, <2>3, <2>4
    <3>2. Abstract!GetNextRunTime
      BY <1>1, <1>2, <2>1, <2>4, <3>1, SameWords DEF Abstract!GetNextRunTime
    <3> QED
      BY <3>2 DEF Abstract!TaskStoreNext
  <2>5. CASE tasks # <<>>
    <3> DEFINE r == tasks[1]
    <3>1. 1 \in 1 .. Len(tasks)
      BY <2>2, <2>3, <2>5
    <3>2. r \in Rows(tasks_index)
      BY <2>2, <3>1
    <3>3. ASSUME NEW s \in Rows(tasks_index) \ {r}
          PROVE  Before(r, s)
      <4>1. PICK i \in 1 .. Len(tasks) : s = tasks[i]
        BY <2>2
      <4>2. i # 1
        BY <4>1
      <4> QED
        BY <2>2, <3>1, <4>1, <4>2
    <3>4. reply' = Reply("next", <<>>, next_run_time[r.task])
      BY <2>1, <2>5
    <3> HIDE DEF r
    <3>5. Abstract!GetNextRunTime
      BY <1>1, <1>2, <3>2, <3>3, <3>4, SameWords DEF Abstract!GetNextRunTime
    <3> QED
      BY <3>5 DEF Abstract!TaskStoreNext
  <2> QED
    BY <2>4, <2>5
<1> QED
  BY <1>3, <1>4, <1>5

LEMMA StepImplements ==
  ASSUME IInv, Unanswered, [Next]_vars
  PROVE  Abstract!TaskStoreNext \/ UNCHANGED Abstract!storeVars
<1>1. ASSUME NEW t \in Tasks, AddTask(t)
      PROVE  Abstract!TaskStoreNext \/ UNCHANGED Abstract!storeVars
  <2>1. next_run_time[t] \in Stamp
    BY DEF IInv, TypeOK
  <2>2. CASE tasks_index[IdOf[t]] # NoRow /\ reply' = Conflict /\ UNCHANGED data
    <3>1. Abstract!AddTask(t, next_run_time[t])
      BY <1>1, <2>2, SameWords DEF Abstract!AddTask, AddTask, Ready, data
    <3> QED
      BY <2>1, <3>1, SameWords DEF Abstract!TaskStoreNext
  <2>3. CASE UNCHANGED <<data, reply>>
    BY <2>3 DEF Abstract!storeVars, data
  <2> QED
    BY <1>1, <2>2, <2>3 DEF AddTask
<1>2. ASSUME NEW id \in Ids, DeleteTask(id)
      PROVE  Abstract!TaskStoreNext \/ UNCHANGED Abstract!storeVars
  <2>1. CASE tasks_index[id] = NoRow /\ reply' = Missing /\ UNCHANGED data
    <3>1. Abstract!DeleteTask(id)
      BY <1>2, <2>1, SameWords DEF Abstract!DeleteTask, DeleteTask, Ready, data
    <3> QED
      BY <3>1 DEF Abstract!TaskStoreNext
  <2>2. CASE UNCHANGED <<data, reply>>
    BY <2>2 DEF Abstract!storeVars, data
  <2> QED
    BY <1>2, <2>1, <2>2 DEF DeleteTask
<1>3. CASE \E t \in Tasks : UpdateTask(t)
  BY <1>3 DEF UpdateTask, Abstract!storeVars, data
<1>4. CASE RemoveAllTasks
  <2>1. Abstract!RemoveAllTasks
    BY <1>4, SameWords DEF RemoveAllTasks, Ready, Abstract!RemoveAllTasks
  <2> QED
    BY <2>1 DEF Abstract!TaskStoreNext
<1>5. CASE TakeReply
  <2>1. Abstract!TakeReply
    BY <1>5, SameWords DEF TakeReply, data, Abstract!TakeReply
  <2> QED
    BY <2>1 DEF Abstract!TaskStoreNext
<1>6. ASSUME NEW t \in Tasks, NEW stamp \in Stamp, SetNextRunTime(t, stamp)
      PROVE  Abstract!TaskStoreNext
  <2>1. Abstract!SetNextRunTime(t, stamp)
    BY <1>6 DEF SetNextRunTime, Abstract!SetNextRunTime
  <2> QED
    BY <2>1, SameWords DEF Abstract!TaskStoreNext
<1>7. CASE UNCHANGED vars
  BY <1>7 DEF vars, Abstract!storeVars
<1> QED
  BY <1>1, <1>2, <1>3, <1>4, <1>5, <1>6, <1>7, WriteImplements, QueryImplements DEF Next

\* The list, the dictionary and the search are one table to a caller: a write
\* takes effect at once, at its last step, and a query answers with the rows and
\* in the order of the table, for any objects, ids and instants
\* (stores/memory.py:36-129).
THEOREM StoreImplements == Spec => ImplementsTaskStore
<1>1. Init => Abstract!TaskStoreInit
  BY SameWords DEF Init, Abstract!TaskStoreInit
<1>2. Init => Unanswered
  BY DEF Init, Unanswered
<1>3. Unanswered /\ [Next]_vars => Unanswered'
  BY UnansweredKeeps
<1>4. IInv /\ Unanswered /\ [Next]_vars => [Abstract!TaskStoreNext]_(Abstract!storeVars)
  BY StepImplements
<1> QED
  BY <1>1, <1>2, <1>3, <1>4, StoreInvariant, PTL DEF Spec, ImplementsTaskStore, Abstract!TaskStoreSpec
==============================================================================
