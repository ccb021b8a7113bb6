-------------------------- MODULE SchedulerProofs ---------------------------
(***************************************************************************)
(* What Scheduler promises, for any tasks, clients, clock and calls.       *)
(* The first part has every call, run_task among them: the types, and that *)
(* the sort keys of the store and the tasks' own run times agree.  The     *)
(* second has what store_lock gives: while no client calls run_task, which *)
(* does without it, no run is taken twice and none is lost, what was       *)
(* removed or paused stays so, and a sleeping scheduler has its timer      *)
(* armed in time.                                                          *)
(***************************************************************************)
EXTENDS Scheduler, TLAPS

-----------------------------------------------------------------------------
(* Instants and triggers *)

LEMMA TimeFacts ==
  /\ Times = 0 .. MaxTime /\ MaxTime \in Nat
  /\ Never \in Int /\ Never > MaxTime /\ Never > 2 * MaxTime + Retry
  /\ Retry \in Nat \ {0} /\ Period \in Nat \ {0} /\ MaxInstances \in Nat \ {0}
  /\ Starts \subseteq Times
BY SchedulerAssumption, TableAssumption

LEMMA ProductIsNat ==
  ASSUME NEW m \in Nat, NEW n \in Nat
  PROVE  m * n \in Nat
OBVIOUS

\* The next run of an interval is a run time or Never.
LEMMA IntervalTimeType ==
  ASSUME NEW at \in Times, NEW previous \in Stamp, NEW time \in Times
  PROVE  IntervalTime(at, previous, time) \in Stamp
<1> DEFINE passed == (time - at + Period - 1) \div Period
           next   == IF previous # Never THEN previous + Period
                     ELSE IF at > time THEN at ELSE at + Period * passed
<1>1. next \in Int /\ next >= 0
  <2>1. CASE previous # Never
    BY <2>1, TimeFacts DEF Stamp
  <2>2. CASE previous = Never /\ at > time
    BY <2>2, TimeFacts
  <2>3. CASE previous = Never /\ at <= time
    <3>1. time - at + Period - 1 \in Nat
      BY <2>3, TimeFacts
    <3>2. passed \in Nat
      BY <3>1, TimeFacts
    <3>3. Period * passed \in Nat
      BY <3>2, ProductIsNat, TimeFacts
    <3> HIDE DEF passed
    <3> QED
      BY <2>3, <3>3, TimeFacts
  <2> QED
    BY <2>1, <2>2, <2>3, TimeFacts
<1> HIDE DEF next
<1>2. (IF next <= MaxTime THEN next ELSE Never) \in Stamp
  BY <1>1, TimeFacts DEF Stamp
<1> QED
  BY <1>2 DEF IntervalTime, next, passed

LEMMA NextTimeType ==
  ASSUME NEW t \in Tasks, NEW at \in Times, NEW previous \in Stamp, NEW time \in Times
  PROVE  NextTime(t, at, previous, time) \in Stamp
BY IntervalTimeType DEF NextTime, DateTime, Stamp

-----------------------------------------------------------------------------
(* The table *)

LEMMA TableFacts ==
  /\ IdOf \in [Tasks -> Ids] /\ NoRow \notin Row
  /\ \A r \in Row : r.task \in Tasks /\ r.timestamp \in Stamp
  /\ \A t \in Tasks, x \in Stamp : /\ NewRow(t, x) \in Row
                                   /\ NewRow(t, x).task = t
                                   /\ NewRow(t, x).timestamp = x
BY TableAssumption DEF Row, NewRow

LEMMA PutFacts ==
  ASSUME NEW table \in Table, NEW row \in Row
  PROVE  /\ Put(table, row) \in Table
         /\ Put(table, row)[IdOf[row.task]] = row
         /\ \A id \in Ids \ {IdOf[row.task]} : Put(table, row)[id] = table[id]
BY TableFacts DEF Put, Table

LEMMA DropFacts ==
  ASSUME NEW table \in Table, NEW i \in Ids
  PROVE  /\ Drop(table, i) \in Table
         /\ Drop(table, i)[i] = NoRow
         /\ \A id \in Ids \ {i} : Drop(table, i)[id] = table[id]
BY DEF Drop, Table


-----------------------------------------------------------------------------
(* The inductive invariant *)

\* Every row is filed under the id of its object, which was given to add_task.
Filed ==
  \A id \in Ids :
    rows[id] # NoRow => IdOf[rows[id].task] = id /\ rows[id].task \in submitted

\* So were the objects that the round in progress holds; the round began in the
\* past.
RoundHolds ==
  /\ loop.now <= now
  /\ \A r \in loop.todo : r.task \in submitted
  /\ loop.pc \in {"sent", "save"} =>
       /\ loop.row \in Row /\ loop.row.task \in submitted
       /\ loop.last \in Times

\* So were the objects that a run_task holds: add_task never meets an object that
\* is between the two writes of an advance.
CallsHold ==
  \A c \in Clients :
    client[c] # Idle /\ client[c].pc \in {"send", "sent", "save"} =>
      client[c].task \in submitted

\* TimestampsAgree, told by ids.
AgreesAt(id) ==
  rows[id] # NoRow =>
    rows[id].timestamp = next_run_time[rows[id].task] \/ Unsaved(rows[id].task)

IInv == TypeOK /\ Filed /\ RoundHolds /\ CallsHold /\ \A id \in Ids : AgreesAt(id)

LEMMA AgreesEverywhere ==
  ASSUME \A id \in Ids : AgreesAt(id)
  PROVE  TimestampsAgree
BY DEF AgreesAt, TimestampsAgree, Rows

LEMMA CallFacts ==
  /\ Idle \notin CallState
  /\ [pc |-> "notify"] \in CallState /\ [pc |-> "wake"] \in CallState
  /\ \A v \in CallState :
       v.pc \in {"send", "sent", "save"} =>
         /\ v.task \in Tasks /\ v.now \in 0 .. MaxTime - 1 /\ v.last \in Times
         /\ v.now \in Times
         /\ [v EXCEPT !.pc = "sent"] \in CallState
         /\ [v EXCEPT !.pc = "save"] \in CallState
         /\ [v EXCEPT !.pc = "sent"].task = v.task
         /\ [v EXCEPT !.pc = "save"].task = v.task
<1>1. \A v \in CallState :
       v.pc \in {"send", "sent", "save"} =>
         v \in [pc : {"send", "sent", "save"}, task : Tasks, now : 0 .. MaxTime - 1, last : Times]
  BY DEF CallState
<1> QED
  BY <1>1, IdleAssumption, TimeFacts DEF CallState

\* A step of the loop that writes no row and no run time.
LEMMA RoundMoves ==
  ASSUME IInv, TypeOK', RoundHolds', UNCHANGED <<rows, next_run_time, submitted, client>>,
         loop.pc = "save" => loop' = loop
  PROVE  IInv'
<1>1. Filed' /\ CallsHold'
  BY DEF IInv, Filed, CallsHold
<1>2. ASSUME NEW id \in Ids PROVE AgreesAt(id)'
  BY DEF IInv, AgreesAt, Unsaved, At
<1> QED
  BY <1>1, <1>2 DEF IInv

\* A step that leaves the loop where it is and no object between two writes.
LEMMA CallMoves ==
  ASSUME IInv, TypeOK', NEW c \in Clients, NEW v,
         UNCHANGED <<now, rows, next_run_time, submitted, loop>>,
         client' = [client EXCEPT ![c] = v], client[c] = v \/ ~At(c, "save"),
         v # Idle /\ v.pc \in {"send", "sent", "save"} => v.task \in submitted
  PROVE  IInv'
<1>1. Filed' /\ RoundHolds'
  BY DEF IInv, Filed, RoundHolds
<1>2. \A d \in Clients : client'[d] = IF d = c THEN v ELSE client[d]
  BY DEF IInv, TypeOK
<1>3. CallsHold'
  BY <1>2 DEF IInv, CallsHold
<1>4. ASSUME NEW id \in Ids PROVE AgreesAt(id)'
  <2>1. \A d \in Clients : At(d, "save") => At(d, "save")' /\ client'[d] = client[d]
    BY <1>2 DEF At
  <2> QED
    BY <2>1 DEF IInv, AgreesAt, Unsaved
<1> QED
  BY <1>1, <1>3, <1>4 DEF IInv

\* The row of t is written with the run time that t has after the step; t may
\* have a new one.
LEMMA StoreMoves ==
  ASSUME IInv, TypeOK', NEW t \in Tasks, UNCHANGED now,
         rows' = Put(rows, NewRow(t, next_run_time'[t])),
         \A u \in Tasks \ {t} : next_run_time'[u] = next_run_time[u],
         t \in submitted', submitted \subseteq submitted',
         RoundHolds', CallsHold',
         \A u \in Tasks \ {t} : Unsaved(u) => Unsaved(u)'
  PROVE  IInv'
<1> DEFINE row == NewRow(t, next_run_time'[t])
<1>1. rows \in Table /\ row \in Row /\ row.task = t /\ row.timestamp = next_run_time'[t]
  BY TableFacts DEF IInv, TypeOK
<1> HIDE DEF row
<1>2. /\ rows'[IdOf[t]] = row
      /\ \A id \in Ids \ {IdOf[t]} : rows'[id] = rows[id]
  BY <1>1, PutFacts DEF row
<1>3. \A id \in Ids : rows[id] # NoRow => rows[id].task \in Tasks
  BY <1>1, TableFacts DEF Table
<1>4. Filed'
  BY <1>1, <1>2 DEF IInv, Filed
<1>5. ASSUME NEW id \in Ids PROVE AgreesAt(id)'
  <2>1. CASE id = IdOf[t]
    BY <1>1, <1>2, <2>1 DEF AgreesAt
  <2>2. CASE id # IdOf[t]
    <3>1. rows'[id] = rows[id]
      BY <1>2, <2>2
    <3>2. rows[id] # NoRow => rows[id].task \in Tasks \ {t}
      BY <1>3, <2>2 DEF IInv, Filed
    <3>3. AgreesAt(id)
      BY DEF IInv
    <3> QED
      BY <3>1, <3>2, <3>3 DEF AgreesAt
  <2> QED
    BY <2>1, <2>2
<1> QED
  BY <1>4, <1>5 DEF IInv

\* Rows are taken out; no object gets another run time.
LEMMA DropMoves ==
  ASSUME IInv, TypeOK', UNCHANGED <<now, next_run_time, submitted>>,
         \A id \in Ids : rows'[id] = rows[id] \/ rows'[id] = NoRow,
         RoundHolds', CallsHold',
         \A u \in Tasks : Unsaved(u) => Unsaved(u)'
  PROVE  IInv'
<1>1. Filed'
  BY DEF IInv, Filed
<1>2. ASSUME NEW id \in Ids PROVE AgreesAt(id)'
  <2>1. rows[id] # NoRow => rows[id].task \in Tasks
    BY TableFacts DEF IInv, TypeOK, Table
  <2> QED
    BY <2>1 DEF IInv, AgreesAt
<1> QED
  BY <1>1, <1>2 DEF IInv

-----------------------------------------------------------------------------
(* The steps of the event loop *)

LEMMA RoundFacts ==
  ASSUME IInv
  PROVE  /\ loop \in RoundState /\ LoopIdle \in RoundState
         /\ loop.now \in Times /\ now \in Times /\ rows \in Table
         /\ loop.todo \subseteq Row
         /\ next_run_time \in [Tasks -> Stamp] /\ start_at \in [Tasks -> Times]
         /\ \A r \in loop.todo :
              /\ Rest(r) \in RoundState
              /\ Rest(r).now = loop.now /\ Rest(r).pc = "task"
              /\ Rest(r).todo \subseteq loop.todo
<1>1. loop \in RoundState /\ now \in Times /\ rows \in Table
      /\ next_run_time \in [Tasks -> Stamp] /\ start_at \in [Tasks -> Starts]
  BY DEF IInv, TypeOK
<1>2. LoopIdle \in RoundState
  BY TimeFacts DEF LoopIdle, RoundState, Stamp
<1>3. Never \in Stamp
  BY DEF Stamp
<1>4. \A r \in loop.todo : Rest(r) \in RoundState
  BY <1>1, <1>3 DEF RoundState, Rest
<1>5. \A r \in loop.todo :
        Rest(r).now = loop.now /\ Rest(r).pc = "task" /\ Rest(r).todo \subseteq loop.todo
  BY <1>1 DEF RoundState, Rest
<1>6. loop.now \in Times /\ loop.todo \subseteq Row
  BY <1>1 DEF RoundState
<1> QED
  BY <1>1, <1>2, <1>4, <1>5, <1>6, TimeFacts

LEMMA StartRoundStep == IInv /\ StartRound => IInv'
<1> SUFFICES ASSUME IInv, StartRound PROVE IInv'
  OBVIOUS
<1> USE DEF schedule, budget, history
<1>1. loop' \in RoundState
  BY RoundFacts DEF StartRound, LoopIdle, RoundState
<1>2. TypeOK'
  <2>1. queue' \in 0 .. MaxQueue
    BY SchedulerAssumption DEF IInv, TypeOK, StartRound
  <2>2. 0 \in Times
    BY TimeFacts
  <2> QED
    BY <1>1, <2>1, <2>2 DEF IInv, TypeOK, StartRound
<1>3. RoundHolds'
  BY RoundFacts, TimeFacts DEF StartRound, RoundHolds, LoopIdle
<1> QED
  BY <1>2, <1>3, RoundMoves DEF StartRound

LEMMA DueRowsFacts ==
  ASSUME IInv, NEW r \in DueRows(rows, loop.now)
  PROVE  /\ r \in Row /\ r.task \in submitted /\ rows[IdOf[r.task]] = r
         /\ r.timestamp # Never /\ r.timestamp <= loop.now
BY TableFacts DEF IInv, TypeOK, Filed, DueRows, Rows, Table

LEMMA QueryStoreStep == IInv /\ QueryStore => IInv'
<1> SUFFICES ASSUME IInv, QueryStore PROVE IInv'
  OBVIOUS
<1> USE DEF schedule, budget, history
<1>1. loop' \in RoundState /\ loop'.now = loop.now /\ loop'.pc = "task"
      /\ loop'.todo = DueRows(rows, loop.now)
  BY RoundFacts, DueRowsFacts DEF QueryStore, RoundState
<1>2. TypeOK'
  BY <1>1 DEF IInv, TypeOK, QueryStore
<1>3. RoundHolds'
  BY <1>1, DueRowsFacts DEF QueryStore, RoundHolds, IInv
<1> QED
  BY <1>2, <1>3, RoundMoves DEF QueryStore

LEMMA StoreUnavailableStep == IInv /\ StoreUnavailable => IInv'
<1> SUFFICES ASSUME IInv, StoreUnavailable PROVE IInv'
  OBVIOUS
<1> USE DEF schedule, budget, history
<1>1. loop' \in RoundState /\ loop'.now = loop.now /\ loop'.pc = "arm"
      /\ loop'.todo = loop.todo
  <2>1. loop.now + Retry \in 0 .. MaxTime + Retry
    BY RoundFacts, TimeFacts
  <2> QED
    BY <2>1, RoundFacts DEF StoreUnavailable, RoundState
<1>2. TypeOK'
  <2>1. failures' \in 0 .. MaxFailures
    BY SchedulerAssumption DEF IInv, TypeOK, StoreUnavailable
  <2> QED
    BY <1>1, <2>1 DEF IInv, TypeOK, StoreUnavailable
<1>3. RoundHolds'
  BY <1>1 DEF StoreUnavailable, RoundHolds, IInv
<1> QED
  BY <1>2, <1>3, RoundMoves DEF StoreUnavailable

LEMMA DropTaskStep == ASSUME IInv, NEW r \in loop.todo, DropTask(r) PROVE IInv'
<1> USE DEF schedule, budget, history
<1>1. r.task \in Tasks /\ IdOf[r.task] \in Ids
  BY RoundFacts, TableFacts
<1>2. rows' \in Table /\ \A id \in Ids : rows'[id] = rows[id] \/ rows'[id] = NoRow
  BY <1>1, RoundFacts, DropFacts DEF DropTask
<1>3. TypeOK'
  BY <1>2, RoundFacts DEF IInv, TypeOK, DropTask
<1>4. RoundHolds' /\ CallsHold'
  BY RoundFacts DEF IInv, RoundHolds, CallsHold, DropTask
<1>5. \A u \in Tasks : Unsaved(u) => Unsaved(u)'
  BY DEF DropTask, Unsaved, At
<1> QED
  BY <1>2, <1>3, <1>4, <1>5, DropMoves DEF DropTask

LEMMA SkipTaskStep == ASSUME IInv, NEW r \in loop.todo, SkipTask(r) PROVE IInv'
<1> USE DEF schedule, budget, history
<1>1. TypeOK'
  BY RoundFacts DEF IInv, TypeOK, SkipTask
<1>2. RoundHolds'
  BY RoundFacts DEF IInv, RoundHolds, SkipTask
<1> QED
  BY <1>1, <1>2, RoundMoves DEF SkipTask

LEMMA RunsAreTimes ==
  ASSUME NEW t, NEW time
  PROVE  Coalesced(t, RunTimes(t, time)) \subseteq Times
BY DEF Coalesced, RunTimes

\* The executor's count of jobs stays within bounds.
LEMMA SendTypes ==
  ASSUME TypeOK, NEW t \in Tasks, Accept(t) \/ Refuse(t) \/ Break(t)
  PROVE  instances' \in [Ids -> 0 .. MaxInstances] /\ errors' \in 0 .. MaxSendErrors
<1>1. IdOf[t] \in Ids /\ instances \in [Ids -> 0 .. MaxInstances]
      /\ errors \in 0 .. MaxSendErrors
  BY TableFacts DEF TypeOK
<1>2. MaxInstances \in Nat /\ MaxSendErrors \in Nat
  BY SchedulerAssumption
<1>3. instances' \in [Ids -> 0 .. MaxInstances]
  BY <1>1, <1>2 DEF Accept, Refuse, Break
<1>4. errors' \in 0 .. MaxSendErrors
  BY <1>1, <1>2 DEF Accept, Refuse, Break
<1> QED
  BY <1>3, <1>4

LEMMA SendTaskStep == ASSUME IInv, NEW r \in loop.todo, SendTask(r) PROVE IInv'
<1> USE DEF schedule, budget, history
<1> DEFINE runs == Coalesced(r.task, RunTimes(r.task, loop.now))
<1>1. r \in Row /\ r.task \in Tasks /\ r.task \in submitted
  BY RoundFacts, TableFacts DEF IInv, RoundHolds
<1>2. PICK x \in runs :
        loop' = [loop EXCEPT !.pc = "sent", !.row = r, !.last = x]
  BY DEF SendTask
<1>3. x \in Times /\ runs \subseteq Times
  BY RunsAreTimes
<1> HIDE DEF runs
<1>4. loop' \in RoundState /\ loop'.now = loop.now /\ loop'.todo = loop.todo
      /\ loop'.row = r /\ loop'.last = x
  BY <1>1, <1>2, <1>3, RoundFacts DEF RoundState, Stamp
<1>5. handed' \in [Tasks -> SUBSET Times]
  BY <1>1, <1>3 DEF SendTask, IInv, TypeOK, runs
<1>6. instances' \in [Ids -> 0 .. MaxInstances] /\ errors' \in 0 .. MaxSendErrors
  BY <1>1, SendTypes DEF SendTask, IInv
<1>7. TypeOK'
  BY <1>4, <1>5, <1>6 DEF IInv, TypeOK, SendTask
<1>8. RoundHolds'
  BY <1>1, <1>3, <1>4 DEF IInv, RoundHolds, SendTask
<1> QED
  BY <1>7, <1>8, RoundMoves DEF SendTask

LEMMA AdvanceTaskStep == ASSUME IInv, AdvanceTask PROVE IInv'
<1> USE DEF schedule, budget, history
<1> DEFINE t    == loop.row.task
           next == NextTime(t, start_at[t], loop.last, loop.now)
<1>1. /\ loop.row \in Row /\ t \in Tasks /\ t \in submitted
      /\ loop.last \in Times /\ IdOf[t] \in Ids
  BY TableFacts DEF AdvanceTask, IInv, RoundHolds
<1>2. next \in Stamp
  BY <1>1, RoundFacts, NextTimeType DEF Stamp
<1> HIDE DEF next
<1>3. CASE next # Never /\ next_run_time' = [next_run_time EXCEPT ![t] = next]
             /\ loop' = [loop EXCEPT !.pc = "save"] /\ UNCHANGED rows
  <2>1. loop' \in RoundState /\ loop'.now = loop.now /\ loop'.todo = loop.todo
        /\ loop'.row = loop.row /\ loop'.last = loop.last /\ loop'.pc = "save"
    BY <1>3, RoundFacts DEF RoundState
  <2>2. next_run_time' \in [Tasks -> Stamp]
    BY <1>2, <1>3, RoundFacts
  <2>3. TypeOK'
    BY <1>3, <2>1, <2>2 DEF IInv, TypeOK, AdvanceTask
  <2>4. Filed' /\ CallsHold'
    BY <1>3 DEF IInv, Filed, CallsHold, AdvanceTask
  <2>5. RoundHolds'
    BY <1>1, <2>1 DEF IInv, RoundHolds, AdvanceTask
  <2>6. ASSUME NEW id \in Ids PROVE AgreesAt(id)'
    <3>1. rows[id] # NoRow => rows[id].task \in Tasks
      BY RoundFacts, TableFacts DEF Table
    <3>2. AgreesAt(id)
      BY DEF IInv
    <3>3. CASE rows[id] # NoRow /\ rows[id].task = t
      BY <1>3, <2>1, <3>3 DEF AgreesAt, Unsaved
    <3>4. CASE rows[id] # NoRow /\ rows[id].task # t
      <4>1. next_run_time'[rows[id].task] = next_run_time[rows[id].task]
        BY <1>3, <3>1, <3>4, RoundFacts
      <4>2. Unsaved(rows[id].task) => Unsaved(rows[id].task)'
        BY <1>3 DEF AdvanceTask, Unsaved, At
      <4> QED
        BY <1>3, <3>2, <4>1, <4>2 DEF AgreesAt
    <3> QED
      BY <1>3, <3>3, <3>4 DEF AgreesAt
  <2> QED
    BY <2>3, <2>4, <2>5, <2>6 DEF IInv
<1>4. CASE rows' = Drop(rows, IdOf[t]) /\ loop' = Rest(loop.row) /\ UNCHANGED next_run_time
  <2>1. rows' \in Table /\ \A id \in Ids : rows'[id] = rows[id] \/ rows'[id] = NoRow
    BY <1>1, <1>4, RoundFacts, DropFacts
  <2>2. loop' \in RoundState /\ loop'.now = loop.now /\ loop'.pc = "task"
        /\ loop'.todo \subseteq loop.todo
    BY <1>4, RoundFacts DEF Rest, RoundState, Stamp
  <2>3. TypeOK'
    BY <1>4, <2>1, <2>2 DEF IInv, TypeOK, AdvanceTask
  <2>4. RoundHolds' /\ CallsHold'
    BY <2>2 DEF IInv, RoundHolds, CallsHold, AdvanceTask
  <2>5. \A u \in Tasks : Unsaved(u) => Unsaved(u)'
    BY DEF AdvanceTask, Unsaved, At
  <2> QED
    BY <1>4, <2>1, <2>3, <2>4, <2>5, DropMoves DEF AdvanceTask
<1> QED
  BY <1>3, <1>4 DEF AdvanceTask, next

LEMMA SaveTaskStep == ASSUME IInv, SaveTask PROVE IInv'
<1> USE DEF schedule, budget, history
<1> DEFINE t == loop.row.task
<1>1. loop.row \in Row /\ t \in Tasks /\ t \in submitted
  BY TableFacts DEF SaveTask, IInv, RoundHolds
<1>2. NewRow(t, next_run_time[t]) \in Row /\ NewRow(t, next_run_time[t]).task = t
  BY <1>1, TableFacts, RoundFacts
<1>3. rows' \in Table
  BY <1>2, RoundFacts, PutFacts DEF SaveTask
<1>4. loop' \in RoundState /\ loop'.now = loop.now /\ loop'.pc = "task"
      /\ loop'.todo \subseteq loop.todo
  BY RoundFacts DEF SaveTask, Rest, RoundState, Stamp
<1>5. TypeOK'
  BY <1>3, <1>4 DEF IInv, TypeOK, SaveTask
<1>6. RoundHolds' /\ CallsHold'
  BY <1>4 DEF IInv, RoundHolds, CallsHold, SaveTask
<1>7. \A u \in Tasks \ {t} : Unsaved(u) => Unsaved(u)'
  BY DEF SaveTask, Unsaved, At
<1>8. /\ rows' = Put(rows, NewRow(t, next_run_time'[t]))
      /\ UNCHANGED <<now, next_run_time, submitted>>
  BY DEF SaveTask
<1> HIDE DEF t
<1> QED
  BY <1>1, <1>5, <1>6, <1>7, <1>8, StoreMoves

LEMMA EndRoundStep == ASSUME IInv, EndRound PROVE IInv'
<1> USE DEF schedule, budget, history
<1>1. loop' \in RoundState /\ loop'.now = loop.now /\ loop'.pc = "arm"
      /\ loop'.todo = loop.todo
  <2>1. CASE Rows(rows) = {} /\ loop' = [loop EXCEPT !.pc = "arm"]
    BY <2>1, RoundFacts DEF RoundState
  <2>2. ASSUME NEW r \in Rows(rows),
               loop' = [loop EXCEPT !.pc = "arm", !.next = next_run_time[r.task]]
        PROVE  /\ loop' \in RoundState /\ loop'.now = loop.now /\ loop'.pc = "arm"
               /\ loop'.todo = loop.todo
    <3>1. r.task \in Tasks
      BY RoundFacts, TableFacts DEF Rows, Table
    <3> QED
      BY <2>2, <3>1, RoundFacts DEF RoundState
  <2> QED
    BY <2>1, <2>2 DEF EndRound
<1>2. TypeOK'
  BY <1>1 DEF IInv, TypeOK, EndRound
<1>3. RoundHolds'
  BY <1>1 DEF IInv, RoundHolds, EndRound
<1> QED
  BY <1>2, <1>3, RoundMoves DEF EndRound

LEMMA WaitIs ==
  ASSUME NEW d \in Int
  PROVE  Max({d, 0}) = IF d > 0 THEN d ELSE 0
BY DEF Max

LEMMA ArmTimerStep == ASSUME IInv, ArmTimer PROVE IInv'
<1> USE DEF schedule, budget, history
<1>1. timer' \in 0 .. 2 * MaxTime + Retry \/ timer' = Never
  <2>1. CASE UNCHANGED timer
    BY <2>1 DEF IInv, TypeOK
  <2>2. CASE loop.next # Never /\ timer' = now + Max({loop.next - loop.now, 0})
    <3>1. loop.next \in 0 .. MaxTime + Retry
      BY <2>2, RoundFacts, TimeFacts DEF RoundState, Stamp
    <3> QED
      BY <2>2, <3>1, WaitIs, RoundFacts, TimeFacts
  <2> QED
    BY <2>1, <2>2 DEF ArmTimer
<1>2. lag' \in Times \cup {Never}
  <2>1. loop.now <= now
    BY DEF IInv, RoundHolds
  <2> QED
    BY <2>1, RoundFacts, TimeFacts DEF IInv, TypeOK, ArmTimer
<1>3. TypeOK'
  BY <1>1, <1>2, RoundFacts DEF IInv, TypeOK, ArmTimer
<1>4. RoundHolds'
  BY RoundFacts, TimeFacts DEF IInv, RoundHolds, ArmTimer, LoopIdle
<1> QED
  BY <1>3, <1>4, RoundMoves DEF ArmTimer

LEMMA RoundStep == IInv /\ Round => IInv'
BY StartRoundStep, QueryStoreStep, StoreUnavailableStep, DropTaskStep, SkipTaskStep,
   SendTaskStep, AdvanceTaskStep, SaveTaskStep, EndRoundStep, ArmTimerStep DEF Round

-----------------------------------------------------------------------------
(* The timer, the clock and the workers *)

LEMMA WakeupType ==
  ASSUME TypeOK, Wakeup \/ WakeupIfRunning \/ UNCHANGED queue
  PROVE  queue' \in 0 .. MaxQueue
BY SchedulerAssumption DEF TypeOK, Wakeup, WakeupIfRunning

LEMMA FireTimerStep == IInv /\ FireTimer => IInv'
<1> SUFFICES ASSUME IInv, FireTimer PROVE IInv'
  OBVIOUS
<1> USE DEF schedule, budget, history
<1>1. TypeOK'
  <2>1. queue' \in 0 .. MaxQueue /\ 0 \in Times
    BY WakeupType, TimeFacts DEF FireTimer, IInv
  <2> QED
    BY <2>1 DEF IInv, TypeOK, FireTimer
<1>2. RoundHolds'
  BY DEF IInv, RoundHolds, FireTimer
<1> QED
  BY <1>1, <1>2, RoundMoves DEF FireTimer

LEMMA TickStep == IInv /\ Tick => IInv'
<1> SUFFICES ASSUME IInv, Tick PROVE IInv'
  OBVIOUS
<1> USE DEF schedule, budget, history
<1>1. now' \in Times /\ loop.now <= now'
  BY RoundFacts, TimeFacts DEF Tick, IInv, RoundHolds
<1>2. TypeOK'
  BY <1>1 DEF IInv, TypeOK, Tick
<1>3. RoundHolds'
  BY <1>1 DEF IInv, RoundHolds, Tick
<1> QED
  BY <1>2, <1>3, RoundMoves DEF Tick

LEMMA FinishJobStep == ASSUME IInv, NEW id \in Ids, FinishJob(id) PROVE IInv'
<1> USE DEF schedule, budget, history
<1>1. instances' \in [Ids -> 0 .. MaxInstances]
  BY TimeFacts DEF IInv, TypeOK, FinishJob
<1>2. TypeOK'
  BY <1>1 DEF IInv, TypeOK, FinishJob
<1>3. RoundHolds'
  BY DEF IInv, RoundHolds, FinishJob
<1> QED
  BY <1>2, <1>3, RoundMoves DEF FinishJob

LEMMA Stutter == IInv /\ UNCHANGED vars => IInv'
<1> SUFFICES ASSUME IInv, UNCHANGED vars PROVE IInv'
  OBVIOUS
<1> USE DEF vars, schedule, budget, history
<1>1. TypeOK'
  BY DEF IInv, TypeOK
<1>2. RoundHolds'
  BY DEF IInv, RoundHolds
<1> QED
  BY <1>1, <1>2, RoundMoves

-----------------------------------------------------------------------------
(* The API *)

LEMMA ScheduleFacts ==
  ASSUME TypeOK, NEW t \in Tasks, NEW stamp \in Stamp, Schedule(t, stamp)
  PROVE  /\ next_run_time' \in [Tasks -> Stamp] /\ base' \in [Tasks -> Stamp]
         /\ handed' \in [Tasks -> SUBSET Times] /\ paused' \subseteq Tasks
         /\ next_run_time'[t] = stamp
         /\ \A u \in Tasks \ {t} : next_run_time'[u] = next_run_time[u]
<1>1. next_run_time' \in [Tasks -> Stamp] /\ base' \in [Tasks -> Stamp]
  BY DEF TypeOK, Schedule
<1>2. handed' \in [Tasks -> SUBSET Times]
  BY DEF TypeOK, Schedule
<1>3. paused' \subseteq Tasks
  BY DEF TypeOK, Schedule
<1>4. /\ next_run_time'[t] = stamp
      /\ \A u \in Tasks \ {t} : next_run_time'[u] = next_run_time[u]
  BY DEF TypeOK, Schedule
<1> QED
  BY <1>1, <1>2, <1>3, <1>4

LEMMA StoreType ==
  ASSUME TypeOK, NEW t \in Tasks, Store(t), next_run_time' \in [Tasks -> Stamp]
  PROVE  rows' \in Table
<1>1. rows \in Table /\ NewRow(t, next_run_time'[t]) \in Row
  BY TableFacts DEF TypeOK
<1> QED
  BY <1>1, PutFacts DEF Store

\* A client that goes from Idle to a call that holds no task.
LEMMA ContinueFacts ==
  ASSUME IInv, NEW c \in Clients, client[c] = Idle,
         \/ UNCHANGED client
         \/ \E pc \in {"notify", "wake"} : Continue(c, pc)
  PROVE  /\ client' \in [Clients -> {Idle} \cup CallState]
         /\ submitted \subseteq submitted' => CallsHold'
         /\ \A d \in Clients : At(d, "save") => At(d, "save")' /\ client'[d] = client[d]
<1>1. client \in [Clients -> {Idle} \cup CallState]
  BY DEF IInv, TypeOK
<1>2. CASE UNCHANGED client
  BY <1>1, <1>2 DEF IInv, CallsHold, At
<1>3. ASSUME NEW pc \in {"notify", "wake"}, Continue(c, pc)
      PROVE  /\ client' \in [Clients -> {Idle} \cup CallState]
             /\ submitted \subseteq submitted' => CallsHold'
             /\ \A d \in Clients : At(d, "save") => At(d, "save")' /\ client'[d] = client[d]
  <2>1. \A d \in Clients : client'[d] = IF d = c THEN [pc |-> pc] ELSE client[d]
    BY <1>1, <1>3 DEF Continue
  <2>2. [pc |-> pc] \in CallState /\ [pc |-> pc].pc = pc
    BY CallFacts
  <2>3. client' \in [Clients -> {Idle} \cup CallState]
    BY <1>1, <1>3, <2>2 DEF Continue
  <2>4. submitted \subseteq submitted' => CallsHold'
    BY <2>1, <2>2 DEF IInv, CallsHold
  <2>5. \A d \in Clients : At(d, "save") => At(d, "save")' /\ client'[d] = client[d]
    BY <2>1 DEF At
  <2> QED
    BY <2>3, <2>4, <2>5
<1> QED
  BY <1>2, <1>3

LEMMA AddTaskStep ==
  ASSUME IInv, NEW c \in Clients, NEW t \in Tasks, NEW start \in BOOLEAN,
         NEW replace \in BOOLEAN, AddTask(c, t, start, replace)
  PROVE  IInv'
<1> USE DEF schedule, budget, history
<1> DEFINE stamp == IF start THEN NextTime(t, start_at[t], Never, now) ELSE Never
<1>1. stamp \in Stamp
  BY RoundFacts, NextTimeType DEF Stamp
<1> HIDE DEF stamp
<1>2. /\ Schedule(t, stamp) /\ t \notin submitted /\ submitted' = submitted \cup {t}
      /\ UNCHANGED rows \/ Store(t)
      /\ UNCHANGED queue \/ WakeupIfRunning
      /\ UNCHANGED <<now, state, start_at, executor, instances, loop, timer, client,
                     budget, removed, lag>>
  BY DEF AddTask, stamp
<1>3. /\ next_run_time' \in [Tasks -> Stamp] /\ base' \in [Tasks -> Stamp]
      /\ handed' \in [Tasks -> SUBSET Times] /\ paused' \subseteq Tasks
      /\ \A u \in Tasks \ {t} : next_run_time'[u] = next_run_time[u]
  BY <1>1, <1>2, ScheduleFacts DEF IInv
<1>4. rows' \in Table
  BY <1>2, <1>3, StoreType, RoundFacts DEF IInv
<1>5. queue' \in 0 .. MaxQueue
  BY <1>2, WakeupType DEF IInv
<1>6. TypeOK'
  BY <1>2, <1>3, <1>4, <1>5 DEF IInv, TypeOK
<1>7. RoundHolds'
  BY <1>2 DEF IInv, RoundHolds
<1>8. CallsHold'
  BY <1>2 DEF IInv, CallsHold
<1>9. \A u \in Tasks : Unsaved(u) => Unsaved(u)'
  BY <1>2 DEF Unsaved, At
<1>10. CASE Store(t)
  BY <1>2, <1>3, <1>6, <1>7, <1>8, <1>9, <1>10, StoreMoves DEF Store
<1>11. CASE UNCHANGED rows
  <2>1. Filed'
    BY <1>2, <1>11 DEF IInv, Filed
  <2>2. ASSUME NEW id \in Ids PROVE AgreesAt(id)'
    <3>1. rows[id] # NoRow => rows[id].task \in Tasks \ {t}
      BY <1>2, RoundFacts, TableFacts DEF Table, IInv, Filed
    <3>2. AgreesAt(id)
      BY DEF IInv
    <3> QED
      BY <1>3, <1>9, <1>11, <3>1, <3>2 DEF AgreesAt
  <2> QED
    BY <1>6, <1>7, <1>8, <2>1, <2>2 DEF IInv
<1> QED
  BY <1>2, <1>10, <1>11

\* What update_task, reschedule_task and resume_task have in common.
LEMMA UpdateMoves ==
  ASSUME IInv, NEW c \in Clients, NEW id \in Ids, NEW stamp \in Stamp,
         Update(id, stamp), client[c] = Idle,
         UNCHANGED client \/ Continue(c, "notify"),
         UNCHANGED queue \/ WakeupIfRunning,
         start_at' \in [Tasks -> Starts],
         UNCHANGED <<now, state, executor, instances, loop, timer, budget, submitted,
                     removed, lag>>
  PROVE  IInv'
<1> USE DEF schedule, budget, history
<1> DEFINE t == rows[id].task
<1>1. t \in Tasks /\ t \in submitted
  BY RoundFacts, TableFacts DEF Update, Table, IInv, Filed
<1> HIDE DEF t
<1>2. Schedule(t, stamp) /\ Store(t)
  BY DEF Update, t
<1>3. /\ next_run_time' \in [Tasks -> Stamp] /\ base' \in [Tasks -> Stamp]
      /\ handed' \in [Tasks -> SUBSET Times] /\ paused' \subseteq Tasks
      /\ \A u \in Tasks \ {t} : next_run_time'[u] = next_run_time[u]
  BY <1>1, <1>2, ScheduleFacts DEF IInv
<1>4. rows' \in Table
  BY <1>1, <1>2, <1>3, StoreType DEF IInv
<1>5. queue' \in 0 .. MaxQueue
  BY WakeupType DEF IInv
<1>6. client' \in [Clients -> {Idle} \cup CallState] /\ CallsHold'
  BY ContinueFacts
<1>7. TypeOK'
  BY <1>3, <1>4, <1>5, <1>6 DEF IInv, TypeOK
<1>8. RoundHolds'
  BY DEF IInv, RoundHolds
<1>9. \A u \in Tasks : Unsaved(u) => Unsaved(u)'
  BY ContinueFacts DEF Unsaved
<1> QED
  BY <1>1, <1>2, <1>3, <1>6, <1>7, <1>8, <1>9, StoreMoves DEF Store

LEMMA UpdateTaskStep ==
  ASSUME IInv, NEW c \in Clients, NEW id \in Ids, NEW stamp \in Settings,
         UpdateTask(c, id, stamp)
  PROVE  IInv'
<1>1. stamp \in Stamp /\ start_at' \in [Tasks -> Starts]
  BY SchedulerAssumption DEF UpdateTask, IInv, TypeOK
<1> QED
  BY <1>1, UpdateMoves DEF UpdateTask, Enter

LEMMA RescheduleTaskStep ==
  ASSUME IInv, NEW c \in Clients, NEW id \in Ids, NEW start \in Starts, NEW seen \in Times,
         RescheduleTask(c, id, start, seen)
  PROVE  IInv'
<1> DEFINE stamp == NextTime(rows[id].task, start, Never, seen)
<1>1. rows[id].task \in Tasks
  BY RoundFacts, TableFacts DEF RescheduleTask, Update, Table
<1>2. stamp \in Stamp
  BY <1>1, NextTimeType, TimeFacts DEF Stamp
<1>3. start_at' \in [Tasks -> Starts]
  BY <1>1 DEF RescheduleTask, IInv, TypeOK
<1>4. Update(id, stamp)
  BY DEF RescheduleTask
<1> HIDE DEF stamp
<1> QED
  BY <1>2, <1>3, <1>4, UpdateMoves DEF RescheduleTask, Enter

LEMMA RemoveFacts ==
  ASSUME TypeOK, NEW ids \in SUBSET Ids, Remove(ids)
  PROVE  /\ rows' \in Table /\ removed' \subseteq Tasks
         /\ \A id \in Ids : rows'[id] = IF id \in ids THEN NoRow ELSE rows[id]
<1>1. rows' \in Table
  BY DEF TypeOK, Remove, Table
<1>2. \A id \in Ids : rows'[id] = IF id \in ids THEN NoRow ELSE rows[id]
  BY DEF Remove
<1>3. removed' \subseteq Tasks
  BY TableFacts DEF TypeOK, Remove, Table
<1> QED
  BY <1>1, <1>2, <1>3

\* What the calls that remove tasks have in common.
LEMMA RemoveMoves ==
  ASSUME IInv, NEW c \in Clients, NEW ids \in SUBSET Ids, Remove(ids),
         UNCHANGED client \/ (~At(c, "save") /\ Leave(c)),
         UNCHANGED <<now, state, next_run_time, start_at, executor, instances, loop, timer,
                     queue, budget, submitted, paused, base, handed, lag>>
  PROVE  IInv'
<1> USE DEF schedule, budget, history
<1>1. /\ rows' \in Table /\ removed' \subseteq Tasks
      /\ \A id \in Ids : rows'[id] = rows[id] \/ rows'[id] = NoRow
  BY RemoveFacts DEF IInv
<1>2. /\ client' \in [Clients -> {Idle} \cup CallState]
      /\ \A d \in Clients : client'[d] = client[d] \/ (d = c /\ client'[d] = Idle)
      /\ \A d \in Clients : At(d, "save") => client'[d] = client[d]
  BY DEF IInv, TypeOK, Leave
<1>3. TypeOK'
  BY <1>1, <1>2 DEF IInv, TypeOK
<1>4. RoundHolds'
  BY DEF IInv, RoundHolds
<1>5. CallsHold'
  BY <1>2 DEF IInv, CallsHold
<1>6. \A u \in Tasks : Unsaved(u) => Unsaved(u)'
  BY <1>2 DEF Unsaved, At
<1> QED
  BY <1>1, <1>3, <1>4, <1>5, <1>6, DropMoves

LEMMA ResumeTaskStep ==
  ASSUME IInv, NEW c \in Clients, NEW id \in Ids, ResumeTask(c, id)
  PROVE  IInv'
<1> DEFINE t     == rows[id].task
           stamp == NextTime(t, start_at[t], Never, now)
<1>1. t \in Tasks
  BY RoundFacts, TableFacts DEF ResumeTask, Table
<1>2. stamp \in Stamp
  BY <1>1, RoundFacts, NextTimeType DEF Stamp
<1>3. CASE Update(id, stamp) /\ WakeupIfRunning /\ UNCHANGED removed
  <2>1. start_at' \in [Tasks -> Starts] /\ client[c] = Idle
    BY DEF ResumeTask, Enter, IInv, TypeOK
  <2> HIDE DEF stamp
  <2> QED
    BY <1>2, <1>3, <2>1, UpdateMoves DEF ResumeTask
<1>4. CASE Remove({id}) /\ UNCHANGED <<next_run_time, base, handed, paused, queue>>
  BY <1>4, RemoveMoves DEF ResumeTask
<1> QED
  BY <1>3, <1>4 DEF ResumeTask

LEMMA DeletionSteps ==
  ASSUME IInv, NEW c \in Clients,
         RemoveAllTasks(c) \/ \E id \in Ids : DeleteTask(c, id)
  PROVE  IInv'
<1>1. CASE RemoveAllTasks(c)
  BY <1>1, RemoveMoves DEF RemoveAllTasks
<1>2. ASSUME NEW id \in Ids, DeleteTask(c, id) PROVE IInv'
  BY <1>2, RemoveMoves DEF DeleteTask
<1> QED
  BY <1>1, <1>2

LEMMA ClientTypes ==
  ASSUME TypeOK, NEW c \in Clients, NEW v \in {Idle} \cup CallState,
         client' = [client EXCEPT ![c] = v]
  PROVE  client' \in [Clients -> {Idle} \cup CallState]
BY DEF TypeOK

LEMMA WakeupSteps ==
  ASSUME IInv, NEW c \in Clients, Notify(c) \/ Wake(c)
  PROVE  IInv'
<1> USE DEF schedule, budget, history
<1>1. queue' \in 0 .. MaxQueue
  BY WakeupType DEF Notify, Wake, IInv
<1>2. client' = [client EXCEPT ![c] = Idle] /\ ~At(c, "save")
  BY DEF Notify, Wake, Leave, At
<1>3. client' \in [Clients -> {Idle} \cup CallState]
  BY <1>2, ClientTypes DEF IInv
<1>4. TypeOK'
  BY <1>1, <1>3 DEF IInv, TypeOK, Notify, Wake
<1>5. UNCHANGED <<now, rows, next_run_time, submitted, loop>>
  BY DEF Notify, Wake
<1> QED
  BY <1>2, <1>4, <1>5, CallMoves

LEMMA ModeSteps ==
  ASSUME IInv, NEW c \in Clients, Pause(c) \/ Resume(c) \/ ChangeExecutor(c)
  PROVE  IInv'
<1> USE DEF schedule, budget, history
<1> DEFINE v == [pc |-> "wake"]
<1>1. client[c] = Idle /\ ~At(c, "save")
  BY DEF Pause, Resume, ChangeExecutor, At
<1>2. v \in CallState /\ v.pc = "wake"
  BY CallFacts
<1>3. UNCHANGED <<now, rows, next_run_time, submitted, loop>>
  BY DEF Pause, Resume, ChangeExecutor
<1>4. client' = [client EXCEPT ![c] = v] \/ client' = [client EXCEPT ![c] = Idle]
  <2>1. UNCHANGED client => client' = [client EXCEPT ![c] = Idle]
    BY <1>1 DEF IInv, TypeOK
  <2> QED
    BY <2>1 DEF Pause, Resume, ChangeExecutor, Continue
<1>5. client' \in [Clients -> {Idle} \cup CallState]
  BY <1>2, <1>4, ClientTypes DEF IInv
<1>6. state' \in {"RUNNING", "PAUSED"} /\ executor' \in BOOLEAN
  BY DEF Pause, Resume, ChangeExecutor, IInv, TypeOK
<1>7. TypeOK'
  BY <1>5, <1>6 DEF Pause, Resume, ChangeExecutor, IInv, TypeOK
<1> HIDE DEF v
<1> QED
  BY <1>1, <1>2, <1>3, <1>4, <1>7, CallMoves

-----------------------------------------------------------------------------
(* run_task *)

LEMMA LookUpStep ==
  ASSUME IInv, NEW c \in Clients, NEW id \in Ids, LookUp(c, id)
  PROVE  IInv'
<1> USE DEF schedule, budget, history
<1>1. rows[id].task \in Tasks /\ rows[id].task \in submitted
  BY RoundFacts, TableFacts DEF LookUp, Table, IInv, Filed
<1>2. now \in 0 .. MaxTime - 1
  BY RoundFacts, TimeFacts DEF LookUp
<1>3. PICK last \in Times :
        client' = [client EXCEPT ![c] =
          [pc |-> "send", task |-> rows[id].task, now |-> now, last |-> last]]
  BY DEF LookUp
<1> DEFINE v == [pc |-> "send", task |-> rows[id].task, now |-> now, last |-> last]
<1>4. v \in CallState /\ v.task \in submitted
  BY <1>1, <1>2 DEF CallState
<1>5. client' \in [Clients -> {Idle} \cup CallState]
  BY <1>3, <1>4, ClientTypes DEF IInv
<1>6. TypeOK'
  BY <1>5 DEF IInv, TypeOK, LookUp
<1>7. ~At(c, "save") /\ UNCHANGED <<now, rows, next_run_time, submitted, loop>>
  BY DEF LookUp, At
<1>8. client' = [client EXCEPT ![c] = v]
  BY <1>3
<1> HIDE DEF v
<1> QED
  BY <1>4, <1>6, <1>7, <1>8, CallMoves

\* What a client at "send", "sent" or "save" holds, and where it may go.
LEMMA HoldsTask ==
  ASSUME IInv, NEW c \in Clients, NEW pc \in {"send", "sent", "save"}, At(c, pc)
  PROVE  /\ client[c] \in CallState /\ client[c].pc = pc
         /\ client[c].task \in Tasks /\ client[c].task \in submitted
         /\ client[c].now \in 0 .. MaxTime - 1 /\ client[c].now \in Times
         /\ client[c].last \in Times
         /\ \A q \in {"sent", "save"} :
              /\ [client[c] EXCEPT !.pc = q] \in CallState
              /\ [client[c] EXCEPT !.pc = q].task = client[c].task
              /\ [client EXCEPT ![c].pc = q] = [client EXCEPT ![c] = [client[c] EXCEPT !.pc = q]]
<1>1. client[c] \in CallState
  BY DEF IInv, TypeOK, At
<1>2. client[c].pc = pc /\ client[c].task \in submitted
  BY DEF IInv, CallsHold, At
<1> QED
  BY <1>1, <1>2, CallFacts

LEMMA SubmitStep ==
  ASSUME IInv, NEW c \in Clients, Submit(c)
  PROVE  IInv'
<1> USE DEF schedule, budget, history
<1> DEFINE v == [client[c] EXCEPT !.pc = "sent"]
<1>1. At(c, "send") /\ ~At(c, "save")
  BY DEF Submit, At
<1>2. v \in CallState /\ v.task \in submitted /\ client[c].task \in Tasks
  BY <1>1, HoldsTask
<1>3. client' = [client EXCEPT ![c] = v] \/ client' = [client EXCEPT ![c] = Idle]
  BY <1>1, HoldsTask DEF Submit, Leave
<1>4. client' \in [Clients -> {Idle} \cup CallState]
  BY <1>2, <1>3, ClientTypes DEF IInv
<1>5. instances' \in [Ids -> 0 .. MaxInstances] /\ errors' \in 0 .. MaxSendErrors
  BY <1>2, SendTypes DEF Submit, IInv
<1>6. TypeOK'
  BY <1>4, <1>5 DEF IInv, TypeOK, Submit
<1>7. UNCHANGED <<now, rows, next_run_time, submitted, loop>>
  BY DEF Submit
<1> HIDE DEF v
<1> QED
  BY <1>1, <1>2, <1>3, <1>6, <1>7, CallMoves

LEMMA AdvanceStep ==
  ASSUME IInv, NEW c \in Clients, NEW keep \in BOOLEAN, Advance(c, keep)
  PROVE  IInv'
<1> USE DEF schedule, budget, history
<1>0. At(c, "sent")
  BY DEF Advance
<1>1. PICK t \in Tasks : t = client[c].task
  BY <1>0, HoldsTask
<1> DEFINE next  == NextTime(t, start_at[t], client[c].last, client[c].now)
           later == IF next <= client[c].now THEN client[c].now + 1 ELSE next
           v     == [client[c] EXCEPT !.pc = "save"]
<1>2. /\ t \in Tasks /\ t \in submitted /\ v \in CallState /\ v.task = t
      /\ client[c].now \in 0 .. MaxTime - 1 /\ client[c].now \in Times
      /\ client[c].last \in Times
  BY <1>0, <1>1, HoldsTask
<1>3. client' = [client EXCEPT ![c] = v]
  BY <1>0, HoldsTask DEF Advance
<1>4. next \in Stamp
  BY <1>2, RoundFacts, NextTimeType DEF Stamp
<1> HIDE DEF next
<1>5. later \in Stamp
  BY <1>2, <1>4, TimeFacts DEF Stamp
<1>6. next_run_time' = [next_run_time EXCEPT ![t] = later]
  BY <1>1 DEF Advance, next
<1> HIDE DEF later
<1>7. client' \in [Clients -> {Idle} \cup CallState]
  BY <1>2, <1>3, ClientTypes DEF IInv
<1>8. TypeOK'
  <2>1. next_run_time' \in [Tasks -> Stamp]
    BY <1>5, <1>6, RoundFacts
  <2> QED
    BY <1>7, <2>1 DEF IInv, TypeOK, Advance
<1>9. \A d \in Clients : client'[d] = IF d = c THEN v ELSE client[d]
  BY <1>3 DEF IInv, TypeOK
<1>10. v # Idle /\ v.pc = "save"
  BY <1>0, <1>2, CallFacts, HoldsTask DEF CallState
<1> HIDE DEF v
<1>11. Filed' /\ RoundHolds'
  BY DEF IInv, Filed, RoundHolds, Advance
<1>12. CallsHold'
  <2>1. submitted' = submitted
    BY DEF Advance
  <2>2. \A d \in Clients :
          client[d] # Idle /\ client[d].pc \in {"send", "sent", "save"} =>
            client[d].task \in submitted
    BY DEF IInv, CallsHold
  <2> QED
    BY <1>2, <1>9, <2>1, <2>2 DEF CallsHold
<1>13. ASSUME NEW id \in Ids PROVE AgreesAt(id)'
  <2>1. Unsaved(t)'
    BY <1>2, <1>9, <1>10 DEF Unsaved, At
  <2>2. \A u \in Tasks : Unsaved(u) => Unsaved(u)'
    <3>1. \A d \in Clients : At(d, "save") => At(d, "save")' /\ client'[d] = client[d]
      BY <1>0, <1>9 DEF At
    <3> QED
      BY <3>1 DEF Unsaved, Advance
  <2>3. rows[id] # NoRow => rows[id].task \in Tasks
    BY RoundFacts, TableFacts DEF Table
  <2>4. AgreesAt(id) /\ UNCHANGED rows
    BY DEF IInv, Advance
  <2>5. rows[id] # NoRow /\ rows[id].task # t =>
          next_run_time'[rows[id].task] = next_run_time[rows[id].task]
    BY <1>6, <2>3, RoundFacts
  <2> QED
    BY <2>1, <2>2, <2>3, <2>4, <2>5 DEF AgreesAt
<1> QED
  BY <1>8, <1>11, <1>12, <1>13 DEF IInv

LEMMA FinishStep ==
  ASSUME IInv, NEW c \in Clients, Finish(c)
  PROVE  IInv'
<1>1. client[c].task \in Tasks /\ ~At(c, "save")
  BY HoldsTask DEF Finish, At
<1>2. {IdOf[client[c].task]} \in SUBSET Ids
  BY <1>1, TableFacts
<1> QED
  BY <1>1, <1>2, RemoveMoves DEF Finish

LEMMA SaveStep ==
  ASSUME IInv, NEW c \in Clients, Save(c)
  PROVE  IInv'
<1> USE DEF schedule, budget, history
<1> DEFINE t == client[c].task
<1>1. At(c, "save")
  BY DEF Save
<1>2. t \in Tasks /\ t \in submitted
  BY <1>1, HoldsTask
<1>3. rows' = Put(rows, NewRow(t, next_run_time'[t]))
      /\ UNCHANGED <<now, next_run_time, submitted, loop>>
  BY DEF Save
<1>4. NewRow(t, next_run_time[t]) \in Row
  BY <1>2, TableFacts, RoundFacts
<1>5. rows' \in Table
  BY <1>3, <1>4, RoundFacts, PutFacts
<1>6. \A d \in Clients : client'[d] = IF d = c THEN Idle ELSE client[d]
  BY DEF Save, Leave, IInv, TypeOK
<1>7. client' \in [Clients -> {Idle} \cup CallState]
  BY ClientTypes DEF Save, Leave, IInv
<1>8. TypeOK'
  BY <1>5, <1>7 DEF IInv, TypeOK, Save
<1>9. RoundHolds'
  BY DEF IInv, RoundHolds, Save
<1>10. CallsHold'
  BY <1>6 DEF IInv, CallsHold, Save
<1>11. \A u \in Tasks \ {t} : Unsaved(u) => Unsaved(u)'
  BY <1>6 DEF Unsaved, At, Save
<1> HIDE DEF t
<1> QED
  BY <1>2, <1>3, <1>8, <1>9, <1>10, <1>11, StoreMoves

-----------------------------------------------------------------------------
LEMMA InitIInv == Init => IInv
<1> SUFFICES ASSUME Init PROVE IInv
  OBVIOUS
<1> USE DEF Init
<1>1. rows \in Table /\ \A id \in Ids : rows[id] = NoRow
  BY DEF EmptyTable, Table
<1>2. LoopIdle \in RoundState
  BY TimeFacts DEF LoopIdle, RoundState, Stamp
<1>3. 0 \in Times /\ Never \in Stamp
  BY TimeFacts DEF Stamp
<1>4. queue \in 0 .. MaxQueue /\ failures \in 0 .. MaxFailures /\ errors \in 0 .. MaxSendErrors
  BY SchedulerAssumption
<1>5. instances \in [Ids -> 0 .. MaxInstances]
  BY TimeFacts
<1>6. TypeOK
  BY <1>1, <1>2, <1>3, <1>4, <1>5 DEF TypeOK
<1>7. Filed /\ \A id \in Ids : AgreesAt(id)
  BY <1>1 DEF Filed, AgreesAt
<1>8. RoundHolds
  BY DEF RoundHolds, LoopIdle
<1>9. CallsHold
  BY DEF CallsHold
<1> QED
  BY <1>6, <1>7, <1>8, <1>9 DEF IInv

LEMMA StepIInv == IInv /\ [Next]_vars => IInv'
<1> SUFFICES ASSUME IInv, [Next]_vars PROVE IInv'
  OBVIOUS
<1>1. CASE Round \/ FireTimer \/ Tick \/ UNCHANGED vars
  BY <1>1, RoundStep, FireTimerStep, TickStep, Stutter
<1>2. ASSUME NEW c \in Clients, Call(c) PROVE IInv'
  BY <1>2, AddTaskStep, UpdateTaskStep, RescheduleTaskStep, ResumeTaskStep, DeletionSteps,
     LookUpStep, ModeSteps DEF Call
<1>3. ASSUME NEW c \in Clients, Continued(c) PROVE IInv'
  BY <1>3, WakeupSteps, SubmitStep, FinishStep, SaveStep, AdvanceStep DEF Continued
<1>4. ASSUME NEW id \in Ids, FinishJob(id) PROVE IInv'
  BY <1>4, FinishJobStep
<1> QED
  BY <1>1, <1>2, <1>3, <1>4 DEF Next

\* Every variable keeps its type: the counters of jobs and of callbacks stay within
\* their bounds, the timer within the model's time.
THEOREM SchedulerTypes == Spec => []TypeOK
<1>1. IInv => TypeOK
  BY DEF IInv
<1> QED
  BY <1>1, InitIInv, StepIInv, PTL DEF Spec

\* A task that is due by its object is never filed under another time, but between
\* the two writes of an advance, whichever calls overlap
\* (schedulers/base.py:677-682, 1635-1639, 858-861).
THEOREM SortKeysAgree == Spec => []TimestampsAgree
<1>1. IInv => TimestampsAgree
  BY AgreesEverywhere DEF IInv
<1> QED
  BY <1>1, InitIInv, StepIInv, PTL DEF Spec

-----------------------------------------------------------------------------
(* Without run_task *)

\* No client holds a task.
Undisturbed == \A c \in Clients : client[c] # Idle => client[c].pc \in {"notify", "wake"}

\* The rows of the round are still the rows of the store, and due; outside the
\* lock there are none.
Held ==
  /\ removed \subseteq submitted
  /\ loop.pc \notin {"task", "sent", "save"} => loop.todo = {}
  /\ \A r \in loop.todo :
       rows[IdOf[r.task]] = r /\ r.timestamp # Never /\ r.timestamp <= loop.now
  /\ loop.pc \in {"sent", "save"} => loop.row \in loop.todo

StaysOut == \A id \in Ids : rows[id] # NoRow => rows[id].task \notin removed

StaysPaused ==
  \A id \in Ids : rows[id] # NoRow /\ rows[id].task \in paused => rows[id].timestamp = Never

JInv == IInv /\ Undisturbed /\ Held /\ StaysOut /\ StaysPaused

LEMMA RowsById ==
  ASSUME TypeOK, NEW id \in Ids, rows[id] # NoRow
  PROVE  /\ rows[id] \in Row /\ rows[id].task \in Tasks /\ rows[id].timestamp \in Stamp
         /\ IdOf[rows[id].task] \in Ids
BY TableFacts DEF TypeOK, Table

\* Two rows of a round have two ids.
LEMMA OtherRows ==
  ASSUME IInv, Held, NEW r \in loop.todo, NEW s \in loop.todo \ {r}
  PROVE  IdOf[s.task] # IdOf[r.task]
BY DEF Held

\* The loop holds store_lock, or the round holds no row.
LEMMA CallersAreAlone ==
  ASSUME JInv, Unlocked
  PROVE  loop.pc \notin {"task", "sent", "save"} /\ loop.todo = {}
BY DEF Unlocked, JInv, Held

-----------------------------------------------------------------------------
(* What is removed or paused stays so *)

\* run_task is not called.
LEMMA UndisturbedStep ==
  ASSUME "run_task" \notin Api, JInv, [Next]_vars
  PROVE  Undisturbed'
<1>1. Undisturbed /\ client \in [Clients -> {Idle} \cup CallState]
  BY DEF JInv, IInv, TypeOK
<1>2. CASE UNCHANGED client
  BY <1>1, <1>2 DEF Undisturbed
<1>3. ASSUME NEW c \in Clients,
             Leave(c) \/ Continue(c, "notify") \/ Continue(c, "wake")
      PROVE  Undisturbed'
  <2>1. \A d \in Clients \ {c} : client'[d] = client[d]
    BY <1>1, <1>3 DEF Leave, Continue
  <2>2. client'[c] = Idle \/ client'[c].pc \in {"notify", "wake"}
    BY <1>1, <1>3 DEF Leave, Continue
  <2> QED
    BY <1>1, <2>1, <2>2 DEF Undisturbed
<1>4. ASSUME NEW c \in Clients, Call(c) PROVE Undisturbed'
  <2>1. \/ UNCHANGED client
        \/ Continue(c, "notify") \/ Continue(c, "wake")
    BY <1>4 DEF Call, AddTask, UpdateTask, RescheduleTask, ResumeTask, DeleteTask, LookUp,
                RemoveAllTasks, Pause, Resume, ChangeExecutor
  <2> QED
    BY <1>2, <1>3, <2>1
<1>5. ASSUME NEW c \in Clients, Continued(c) PROVE Undisturbed'
  <2>1. ~At(c, "send") /\ ~At(c, "sent") /\ ~At(c, "save")
    BY <1>1 DEF Undisturbed, At
  <2>2. Notify(c) \/ Wake(c)
    BY <1>5, <2>1 DEF Continued, Submit, Finish, Save, Advance
  <2> QED
    BY <1>3, <2>2 DEF Notify, Wake
<1>6. CASE Round
  BY <1>2, <1>6 DEF Round, StartRound, QueryStore, StoreUnavailable, DropTask, SkipTask,
                    SendTask, AdvanceTask, SaveTask, EndRound, ArmTimer
<1>7. CASE FireTimer \/ Tick \/ (\E id \in Ids : FinishJob(id)) \/ UNCHANGED vars
  BY <1>2, <1>7 DEF FireTimer, Tick, FinishJob, vars
<1> QED
  BY <1>4, <1>5, <1>6, <1>7 DEF Next

Kept == Held /\ StaysOut /\ StaysPaused

\* A step of the loop that writes no row.
LEMMA KeptByRound ==
  ASSUME JInv, Held', UNCHANGED <<rows, removed, paused>>
  PROVE  Kept'
BY DEF JInv, Kept, StaysOut, StaysPaused

\* Rows are taken out, those of new members of removed among them.
LEMMA KeptByDrop ==
  ASSUME JInv, Held', paused' = paused,
         \A id \in Ids : rows'[id] = rows[id] \/ rows'[id] = NoRow,
         \A id \in Ids : rows'[id] # NoRow => rows[id].task \notin removed'
  PROVE  Kept'
<1>1. StaysOut'
  BY DEF StaysOut
<1>2. StaysPaused'
  BY DEF JInv, StaysPaused
<1> QED
  BY <1>1, <1>2 DEF Kept

\* The row of t is written.
LEMMA KeptByPut ==
  ASSUME JInv, Held', NEW t \in Tasks, NEW x \in Stamp,
         rows' = Put(rows, NewRow(t, x)), removed' = removed, t \notin removed,
         t \in paused' => x = Never, \A u \in Tasks \ {t} : u \in paused' => u \in paused
  PROVE  Kept'
<1> DEFINE row == NewRow(t, x)
<1>1. rows \in Table /\ row \in Row /\ row.task = t /\ row.timestamp = x
  BY TableFacts DEF JInv, IInv, TypeOK
<1> HIDE DEF row
<1>2. /\ rows'[IdOf[t]] = row
      /\ \A id \in Ids \ {IdOf[t]} : rows'[id] = rows[id]
  BY <1>1, PutFacts DEF row
<1>3. \A id \in Ids \ {IdOf[t]} : rows[id] # NoRow => rows[id].task \in Tasks \ {t}
  BY RowsById DEF JInv, IInv, Filed
<1>4. StaysOut'
  BY <1>1, <1>2 DEF JInv, StaysOut
<1>5. StaysPaused'
  BY <1>1, <1>2, <1>3 DEF JInv, StaysPaused
<1> QED
  BY <1>4, <1>5 DEF Kept

\* The rows that remain when the loop is done with r are not touched.
LEMMA HeldByRest ==
  ASSUME JInv, NEW r \in loop.todo, loop' = Rest(r), UNCHANGED <<removed, submitted>>,
         \A id \in Ids \ {IdOf[r.task]} : rows'[id] = rows[id]
  PROVE  Held'
<1>1. loop'.pc = "task" /\ loop'.todo = loop.todo \ {r} /\ loop'.now = loop.now
  BY RoundFacts DEF JInv, RoundState, Rest
<1>2. \A s \in loop.todo \ {r} : IdOf[s.task] \in Ids \ {IdOf[r.task]}
  BY OtherRows, RoundFacts, TableFacts DEF JInv
<1> QED
  BY <1>1, <1>2 DEF JInv, Held

LEMMA KeptByTheRound ==
  ASSUME JInv, Round
  PROVE  Kept'
<1> USE DEF schedule, budget, history
<1>1. IInv /\ Held /\ loop \in RoundState /\ rows \in Table
  BY RoundFacts DEF JInv
<1>2. CASE StartRound \/ StoreUnavailable \/ ArmTimer
  <2>1. Held'
    <3>1. loop'.pc \in {"idle", "lock", "arm"} /\ loop'.todo = {}
      <4>1. CASE StartRound \/ ArmTimer
        <5>1. loop' = LoopIdle \/ loop' = [LoopIdle EXCEPT !.pc = "lock", !.now = now]
          BY <4>1 DEF StartRound, ArmTimer
        <5>2. LoopIdle \in RoundState /\ LoopIdle.pc = "idle" /\ LoopIdle.todo = {}
          BY <1>1, RoundFacts DEF LoopIdle
        <5>3. [LoopIdle EXCEPT !.pc = "lock", !.now = now].todo = LoopIdle.todo
              /\ [LoopIdle EXCEPT !.pc = "lock", !.now = now].pc = "lock"
          BY <5>2 DEF RoundState
        <5> QED
          BY <5>1, <5>2, <5>3
      <4>2. CASE StoreUnavailable
        <5>1. loop.todo = {}
          BY <1>1, <4>2 DEF StoreUnavailable, Held
        <5> QED
          BY <1>1, <4>2, <5>1 DEF StoreUnavailable, RoundState
      <4> QED
        BY <1>2, <4>1, <4>2
    <3>2. UNCHANGED <<removed, submitted>>
      BY <1>2 DEF StartRound, StoreUnavailable, ArmTimer
    <3> QED
      BY <1>1, <3>1, <3>2 DEF Held
  <2> QED
    BY <1>2, <2>1, KeptByRound DEF StartRound, StoreUnavailable, ArmTimer
<1>3. CASE EndRound
  <2>1. Held'
    <3>1. loop'.pc = "arm" /\ loop'.todo = {}
      BY <1>1, <1>3 DEF EndRound, RoundState
    <3> QED
      BY <1>1, <1>3, <3>1 DEF Held, EndRound
  <2> QED
    BY <1>3, <2>1, KeptByRound DEF EndRound
<1>4. CASE QueryStore
  <2>1. loop'.pc = "task" /\ loop'.now = loop.now /\ loop'.todo = DueRows(rows, loop.now)
    BY <1>1, <1>4, DueRowsFacts DEF QueryStore, RoundState
  <2>2. Held'
    BY <1>1, <1>4, <2>1, DueRowsFacts DEF Held, QueryStore
  <2> QED
    BY <1>4, <2>2, KeptByRound DEF QueryStore
<1>5. ASSUME NEW r \in loop.todo, SkipTask(r) PROVE Kept'
  <2>1. Held'
    BY <1>5, HeldByRest DEF SkipTask
  <2> QED
    BY <1>5, <2>1, KeptByRound DEF SkipTask
<1>6. ASSUME NEW r \in loop.todo, SendTask(r) PROVE Kept'
  <2>1. loop'.todo = loop.todo /\ loop'.now = loop.now /\ loop'.pc = "sent" /\ loop'.row = r
    BY <1>1, <1>6 DEF SendTask, RoundState
  <2>2. Held'
    BY <1>1, <1>6, <2>1 DEF Held, SendTask
  <2> QED
    BY <1>6, <2>2, KeptByRound DEF SendTask
<1>7. ASSUME NEW r \in loop.todo, rows' = Drop(rows, IdOf[r.task]), loop' = Rest(r),
             UNCHANGED <<removed, paused, submitted>>
      PROVE  Kept'
  <2>1. IdOf[r.task] \in Ids
    BY RoundFacts, TableFacts DEF JInv
  <2>2. /\ rows'[IdOf[r.task]] = NoRow
        /\ \A id \in Ids \ {IdOf[r.task]} : rows'[id] = rows[id]
    BY <1>1, <1>7, <2>1, DropFacts
  <2>3. Held'
    BY <1>7, <2>2, HeldByRest
  <2>4. /\ \A id \in Ids : rows'[id] = rows[id] \/ rows'[id] = NoRow
        /\ \A id \in Ids : rows'[id] # NoRow => rows[id].task \notin removed'
    BY <1>7, <2>2 DEF JInv, StaysOut
  <2> QED
    BY <1>7, <2>3, <2>4, KeptByDrop
<1>8. ASSUME NEW r \in loop.todo, DropTask(r) PROVE Kept'
  BY <1>7, <1>8 DEF DropTask
<1>9. CASE AdvanceTask
  <2>1. loop.row \in loop.todo
    BY <1>1, <1>9 DEF AdvanceTask, Held
  <2>2. CASE rows' = Drop(rows, IdOf[loop.row.task]) /\ loop' = Rest(loop.row)
    BY <1>7, <1>9, <2>1, <2>2 DEF AdvanceTask
  <2>3. CASE UNCHANGED rows /\ loop' = [loop EXCEPT !.pc = "save"]
    <3>1. loop'.todo = loop.todo /\ loop'.now = loop.now /\ loop'.pc = "save"
          /\ loop'.row = loop.row
      BY <1>1, <2>3 DEF RoundState
    <3>2. Held'
      BY <1>1, <1>9, <2>1, <2>3, <3>1 DEF Held, AdvanceTask
    <3> QED
      BY <1>9, <2>3, <3>2, KeptByRound DEF AdvanceTask
  <2> QED
    BY <1>9, <2>2, <2>3 DEF AdvanceTask
<1>10. CASE SaveTask
  <2> DEFINE r == loop.row
             t == r.task
             x == next_run_time[t]
  <2>1. r \in loop.todo /\ r \in Row /\ t \in Tasks /\ IdOf[t] \in Ids /\ rows[IdOf[t]] = r
        /\ r # NoRow /\ r.timestamp # Never
    BY <1>1, <1>10, RoundFacts, TableFacts DEF SaveTask, Held
  <2>2. t \notin removed /\ t \notin paused
    BY <2>1 DEF JInv, StaysOut, StaysPaused
  <2>3. x \in Stamp /\ NewRow(t, x) \in Row /\ NewRow(t, x).task = t
    BY <1>1, <2>1, RoundFacts, TableFacts
  <2>4. rows' = Put(rows, NewRow(t, x)) /\ loop' = Rest(r)
        /\ UNCHANGED <<removed, paused, submitted>>
    BY <1>10 DEF SaveTask
  <2>5. \A id \in Ids \ {IdOf[t]} : rows'[id] = rows[id]
    BY <1>1, <2>3, <2>4, PutFacts
  <2> HIDE DEF x, t, r
  <2>6. Held'
    <3>1. t = r.task
      BY DEF t
    <3> QED
      BY <2>1, <2>4, <2>5, <3>1, HeldByRest
  <2> QED
    BY <2>1, <2>2, <2>3, <2>4, <2>6, KeptByPut
<1> QED
  BY <1>2, <1>3, <1>4, <1>5, <1>6, <1>8, <1>9, <1>10 DEF Round

LEMMA KeptByUpdate ==
  ASSUME JInv, Unlocked, NEW id \in Ids, NEW stamp \in Stamp, Update(id, stamp),
         UNCHANGED <<loop, removed, submitted>>
  PROVE  Kept'
<1> DEFINE t == rows[id].task
<1>1. t \in Tasks /\ t \notin removed
  BY RowsById DEF Update, JInv, IInv, StaysOut
<1> HIDE DEF t
<1>2. Schedule(t, stamp) /\ rows' = Put(rows, NewRow(t, next_run_time'[t]))
  BY DEF Update, Store, t
<1>3. next_run_time'[t] = stamp
  BY <1>1, <1>2, ScheduleFacts DEF JInv, IInv
<1>4. /\ t \in paused' => stamp = Never
      /\ \A u \in Tasks \ {t} : u \in paused' => u \in paused
  BY <1>2 DEF Schedule
<1>5. Held'
  BY CallersAreAlone DEF JInv, Held
<1> QED
  BY <1>1, <1>2, <1>3, <1>4, <1>5, KeptByPut

LEMMA KeptByRemove ==
  ASSUME JInv, Unlocked, NEW ids \in SUBSET Ids, Remove(ids),
         UNCHANGED <<loop, submitted, paused>>
  PROVE  Kept'
<1>1. \A id \in Ids : rows'[id] = IF id \in ids THEN NoRow ELSE rows[id]
  BY RemoveFacts DEF JInv, IInv
<1>2. removed' \subseteq submitted
  BY DEF Remove, JInv, IInv, Held, Filed
<1>3. Held'
  BY <1>2, CallersAreAlone DEF JInv, Held
<1>4. ASSUME NEW id \in Ids, rows'[id] # NoRow PROVE rows[id].task \notin removed'
  <2>1. rows[id] # NoRow /\ id \notin ids
    BY <1>1, <1>4
  <2>2. \A d \in ids : rows[d] # NoRow => rows[d].task # rows[id].task
    BY <2>1 DEF JInv, IInv, Filed
  <2> QED
    BY <2>1, <2>2 DEF Remove, JInv, StaysOut
<1> QED
  BY <1>1, <1>3, <1>4, KeptByDrop

LEMMA KeptByCall ==
  ASSUME JInv, NEW c \in Clients, Call(c)
  PROVE  Kept'
<1> USE DEF schedule, budget, history
<1>1. ASSUME NEW t \in Tasks, NEW start \in BOOLEAN, NEW replace \in BOOLEAN,
             AddTask(c, t, start, replace)
      PROVE  Kept'
  <2> DEFINE stamp == IF start THEN NextTime(t, start_at[t], Never, now) ELSE Never
  <2>1. stamp \in Stamp
    BY RoundFacts, NextTimeType DEF Stamp, JInv
  <2> HIDE DEF stamp
  <2>2. /\ Unlocked /\ Schedule(t, stamp) /\ t \notin submitted
        /\ submitted' = submitted \cup {t} /\ UNCHANGED <<loop, removed>>
        /\ UNCHANGED rows \/ Store(t)
    BY <1>1 DEF AddTask, Enter, stamp
  <2>3. next_run_time'[t] = stamp
    BY <2>1, <2>2, ScheduleFacts DEF JInv, IInv
  <2>4. /\ t \in paused' => stamp = Never
        /\ \A u \in Tasks \ {t} : u \in paused' => u \in paused
    BY <2>2 DEF Schedule
  <2>5. Held'
    BY <2>2, CallersAreAlone DEF JInv, Held
  <2>6. t \notin removed
    BY <2>2 DEF JInv, Held
  <2>7. CASE Store(t)
    BY <2>1, <2>2, <2>3, <2>4, <2>5, <2>6, <2>7, KeptByPut DEF Store
  <2>8. CASE UNCHANGED rows
    <3>1. \A id \in Ids : rows[id] # NoRow => rows[id].task \in Tasks \ {t}
      BY <2>2, RowsById DEF JInv, IInv, Filed
    <3>2. StaysPaused'
      BY <2>4, <2>8, <3>1 DEF JInv, StaysPaused
    <3>3. StaysOut'
      BY <2>2, <2>8 DEF JInv, StaysOut
    <3> QED
      BY <2>5, <3>2, <3>3 DEF Kept
  <2> QED
    BY <2>2, <2>7, <2>8
<1>2. ASSUME NEW id \in Ids, NEW stamp \in Settings, UpdateTask(c, id, stamp) PROVE Kept'
  BY <1>2, KeptByUpdate, SchedulerAssumption DEF UpdateTask, Enter
<1>3. ASSUME NEW id \in Ids, NEW start \in Starts, NEW seen \in Times,
             RescheduleTask(c, id, start, seen)
      PROVE  Kept'
  <2> DEFINE stamp == NextTime(rows[id].task, start, Never, seen)
  <2>1. stamp \in Stamp
    <3>1. rows[id].task \in Tasks
      BY <1>3, RowsById DEF RescheduleTask, Update, JInv, IInv
    <3> QED
      BY <3>1, NextTimeType, TimeFacts DEF Stamp
  <2>2. Update(id, stamp) /\ Unlocked /\ UNCHANGED <<loop, removed, submitted>>
    BY <1>3 DEF RescheduleTask, Enter
  <2> HIDE DEF stamp
  <2> QED
    BY <2>1, <2>2, KeptByUpdate
<1>4. ASSUME NEW id \in Ids, ResumeTask(c, id) PROVE Kept'
  <2> DEFINE stamp == NextTime(rows[id].task, start_at[rows[id].task], Never, now)
  <2>1. stamp \in Stamp
    <3>1. rows[id].task \in Tasks
      BY <1>4, RowsById DEF ResumeTask, JInv, IInv
    <3> QED
      BY <3>1, RoundFacts, NextTimeType DEF Stamp, JInv
  <2>2. /\ Unlocked /\ UNCHANGED <<loop, submitted>>
        /\ \/ Update(id, stamp) /\ UNCHANGED removed
           \/ Remove({id}) /\ UNCHANGED paused
    BY <1>4 DEF ResumeTask, Enter
  <2> HIDE DEF stamp
  <2> QED
    BY <2>1, <2>2, KeptByUpdate, KeptByRemove
<1>5. CASE RemoveAllTasks(c)
  BY <1>5, KeptByRemove DEF RemoveAllTasks, Enter
<1>6. ASSUME NEW id \in Ids, DeleteTask(c, id) PROVE Kept'
  BY <1>6, KeptByRemove DEF DeleteTask, Enter
<1>7. CASE UNCHANGED <<rows, loop, removed, paused, submitted>>
  BY <1>7 DEF JInv, Kept, Held, StaysOut, StaysPaused
<1>8. CASE Pause(c) \/ Resume(c) \/ ChangeExecutor(c) \/ \E id \in Ids : LookUp(c, id)
  BY <1>7, <1>8 DEF Pause, Resume, ChangeExecutor, LookUp
<1> QED
  BY <1>1, <1>2, <1>3, <1>4, <1>5, <1>6, <1>8 DEF Call

\* What a step of a client without run_task may be.
LEMMA ContinuedWithoutRunTask ==
  ASSUME JInv, NEW c \in Clients, Continued(c)
  PROVE  Notify(c) \/ Wake(c)
<1>1. ~At(c, "send") /\ ~At(c, "sent") /\ ~At(c, "save")
  BY DEF JInv, Undisturbed, At
<1> QED
  BY <1>1 DEF Continued, Submit, Finish, Save, Advance

LEMMA StepJInv == "run_task" \notin Api /\ JInv /\ [Next]_vars => JInv'
<1> SUFFICES ASSUME "run_task" \notin Api, JInv, [Next]_vars PROVE JInv'
  OBVIOUS
<1> USE DEF schedule, budget, history
<1>1. IInv'
  BY StepIInv DEF JInv
<1>2. Undisturbed'
  BY UndisturbedStep
<1>3. ASSUME UNCHANGED <<rows, loop, removed, paused, submitted>> PROVE Kept'
  BY <1>3 DEF JInv, Kept, Held, StaysOut, StaysPaused
<1>4. ASSUME NEW c \in Clients, Continued(c) PROVE Kept'
  BY <1>3, <1>4, ContinuedWithoutRunTask DEF Notify, Wake
<1>5. ASSUME FireTimer \/ Tick \/ (\E id \in Ids : FinishJob(id)) \/ UNCHANGED vars
      PROVE  Kept'
  BY <1>3, <1>5 DEF FireTimer, Tick, FinishJob, vars
<1>6. Kept'
  BY <1>4, <1>5, KeptByTheRound, KeptByCall DEF Next
<1> QED
  BY <1>1, <1>2, <1>6 DEF JInv, Kept

LEMMA InitJInv == Init => JInv
<1> SUFFICES ASSUME Init PROVE JInv
  OBVIOUS
<1>1. IInv
  BY InitIInv
<1>2. Undisturbed
  BY DEF Init, Undisturbed
<1>3. Held
  BY DEF Init, Held, LoopIdle
<1>4. StaysOut /\ StaysPaused
  BY DEF Init, StaysOut, StaysPaused, EmptyTable
<1> QED
  BY <1>1, <1>2, <1>3, <1>4 DEF JInv

-----------------------------------------------------------------------------
(* Multiples of Period *)

Spaced(x, y) == (y - x) % Period = 0

LEMMA MultipleIs ==
  ASSUME NEW d \in Int, d % Period = 0
  PROVE  \E k \in Int : d = k * Period
<1>1. d = (d \div Period) * Period /\ d \div Period \in Int
  BY TimeFacts
<1> QED
  BY <1>1

LEMMA MultipleHas ==
  ASSUME NEW k \in Int, NEW d \in Int, d = k * Period
  PROVE  d % Period = 0
BY TimeFacts

LEMMA MultiplesAdd ==
  ASSUME NEW d \in Int, NEW e \in Int, d % Period = 0, e % Period = 0
  PROVE  (d + e) % Period = 0 /\ (d - e) % Period = 0
<1>1. PICK k \in Int : d = k * Period
  BY MultipleIs
<1>2. PICK j \in Int : e = j * Period
  BY MultipleIs
<1>3. d + e = (k + j) * Period /\ d - e = (k - j) * Period
  BY <1>1, <1>2, TimeFacts
<1>4. (d + e) % Period = 0
  BY <1>3, MultipleHas
<1>5. (d - e) % Period = 0
  BY <1>3, MultipleHas
<1> QED
  BY <1>4, <1>5

\* Spacing from one point is spacing between points, and carries over to the
\* next run; nothing lies between two runs.
LEMMA SpacedFacts ==
  ASSUME NEW x \in Int, NEW y \in Int
  PROVE  /\ Spaced(x, x)
         /\ \A z \in Int : Spaced(x, y) /\ Spaced(y, z) => Spaced(x, z)
         /\ \A z \in Int : Spaced(x, y) /\ Spaced(x, z) => Spaced(y, z)
         /\ Spaced(x, y) => Spaced(x, y + Period)
         /\ Spaced(x, y) /\ x < y => x + Period <= y
<1>1. Spaced(x, x) /\ Period % Period = 0 /\ Period \in Int
  BY TimeFacts DEF Spaced
<1>2. ASSUME NEW z \in Int, Spaced(x, y), Spaced(y, z) PROVE Spaced(x, z)
  <2>1. z - x = (z - y) + (y - x)
    OBVIOUS
  <2> QED
    BY <1>2, <2>1, MultiplesAdd DEF Spaced
<1>3. ASSUME NEW z \in Int, Spaced(x, y), Spaced(x, z) PROVE Spaced(y, z)
  <2>1. z - y = (z - x) - (y - x)
    OBVIOUS
  <2> QED
    BY <1>3, <2>1, MultiplesAdd DEF Spaced
<1>4. ASSUME Spaced(x, y) PROVE Spaced(x, y + Period)
  <2>1. (y + Period) - x = (y - x) + Period
    BY <1>1
  <2>2. y - x \in Int /\ (y - x) % Period = 0
    BY <1>4 DEF Spaced
  <2>3. ((y - x) + Period) % Period = 0
    BY <1>1, <2>2, MultiplesAdd
  <2> QED
    BY <2>1, <2>3 DEF Spaced
<1>5. ASSUME Spaced(x, y), x < y PROVE x + Period <= y
  BY <1>5, TimeFacts DEF Spaced
<1> QED
  BY <1>1, <1>2, <1>3, <1>4, <1>5

-----------------------------------------------------------------------------
(* No run is taken twice, none is lost *)

\* x is the first run of t that the loop has not taken: those it took lie before,
\* and, of an interval without coalesce, all that lie before were taken.
Fresh(t, x) ==
  /\ \A y \in handed[t] : y < x
  /\ t \in Interval \ Coalesce /\ x # Never =>
       /\ base[t] # Never /\ base[t] <= x /\ Spaced(base[t], x)
       /\ \A y \in Times :
            base[t] <= y /\ y < x /\ Spaced(base[t], y) => y \in handed[t]

\* last is the last run of t that the loop took, in a round that began at time.
Taken(t, last, time) ==
  /\ \A y \in handed[t] : y <= last
  /\ t \in Interval => last + Period > time
  /\ t \in Interval \ Coalesce =>
       /\ base[t] # Never /\ base[t] <= last /\ Spaced(base[t], last)
       /\ \A y \in Times :
            base[t] <= y /\ y <= last /\ Spaced(base[t], y) => y \in handed[t]

RowsAreFresh ==
  \A id \in Ids :
    rows[id] # NoRow /\ ~InHand(rows[id].task) => Fresh(rows[id].task, rows[id].timestamp)

\* What the round has done with already, or has not read, is not due in it.
RestIsLater ==
  loop.pc \in {"task", "sent", "save"} =>
    \A id \in Ids :
      rows[id] # NoRow /\ rows[id] \notin loop.todo => rows[id].timestamp > loop.now

TakenInRound ==
  /\ loop.pc = "sent" => Taken(loop.row.task, loop.last, loop.now)
  /\ loop.pc = "save" => LET x == next_run_time[loop.row.task]
                         IN Fresh(loop.row.task, x) /\ x > loop.now

KInv == RowsAreFresh /\ RestIsLater /\ TakenInRound

LEMMA LastOfAll ==
  ASSUME TypeOK, NEW t \in Tasks, NEW time \in Times, next_run_time[t] \in Times,
         NEW x, IsLast(x, Coalesced(t, RunTimes(t, time)))
  PROVE  x \in RunTimes(t, time) /\ \A y \in RunTimes(t, time) : y <= x
BY DEF IsLast, Coalesced

LEMMA SendTakes ==
  ASSUME TypeOK, NEW t \in Tasks, NEW time \in Times,
         next_run_time[t] \in Times, next_run_time[t] <= time, Fresh(t, next_run_time[t]),
         NEW x, IsLast(x, Coalesced(t, RunTimes(t, time))),
         handed' = [handed EXCEPT ![t] = @ \cup Coalesced(t, RunTimes(t, time))],
         base' = base
  PROVE  Taken(t, x, time)'
<1> DEFINE first == next_run_time[t]
           runs  == RunTimes(t, time)
<1>1. /\ x \in Times /\ x \in Int /\ first \in Int /\ time \in Int /\ Period \in Int
      /\ first <= x /\ x <= time
      /\ x = first \/ (t \in Interval /\ Spaced(first, x))
      /\ \A y \in runs : y <= x
  BY LastOfAll, TimeFacts DEF RunTimes, Spaced
<1>2. \A y \in Times :
        first <= y /\ y <= time /\ t \in Interval /\ Spaced(first, y) => y \in runs
  BY DEF RunTimes, Spaced
<1>3. handed'[t] = handed[t] \cup Coalesced(t, runs) /\ handed[t] \subseteq Times
  BY DEF TypeOK
<1>4. Coalesced(t, runs) \subseteq runs /\ (t \notin Coalesce => Coalesced(t, runs) = runs)
  BY DEF Coalesced
<1> HIDE DEF runs, first
<1>5. \A y \in handed'[t] : y <= x
  <2>1. \A y \in handed[t] : y < first
    BY DEF Fresh, first
  <2> QED
    BY <1>1, <1>3, <1>4, <2>1, TimeFacts
<1>6. t \in Interval => Spaced(first, x)
  BY <1>1, SpacedFacts
<1>7. ASSUME t \in Interval PROVE x + Period > time
  <2> SUFFICES ASSUME x + Period <= time PROVE FALSE
    BY <1>1
  <2>1. Spaced(first, x + Period)
    BY <1>1, <1>6, <1>7, SpacedFacts
  <2>2. x + Period \in Times /\ first <= x + Period
    BY <1>1, TimeFacts
  <2>3. x + Period \in runs
    BY <1>2, <1>7, <2>1, <2>2
  <2> QED
    BY <1>1, <2>3, TimeFacts
<1>8. ASSUME t \in Interval \ Coalesce
      PROVE  /\ base[t] # Never /\ base[t] <= x /\ Spaced(base[t], x)
             /\ \A y \in Times :
                  base[t] <= y /\ y <= x /\ Spaced(base[t], y) => y \in handed'[t]
  <2>1. /\ base[t] # Never /\ base[t] <= first /\ Spaced(base[t], first)
        /\ \A y \in Times :
             base[t] <= y /\ y < first /\ Spaced(base[t], y) => y \in handed[t]
    BY <1>8, TimeFacts DEF Fresh, first
  <2>2. base[t] \in Int
    BY <2>1, TimeFacts DEF TypeOK, Stamp
  <2>3. Spaced(base[t], x) /\ base[t] <= x
    BY <1>1, <1>6, <1>8, <2>1, <2>2, SpacedFacts
  <2>4. ASSUME NEW y \in Times, base[t] <= y, y <= x, Spaced(base[t], y)
        PROVE  y \in handed'[t]
    <3>1. y \in Int
      BY TimeFacts
    <3>2. CASE y < first
      BY <1>3, <2>1, <2>4, <3>2
    <3>3. CASE first <= y
      <4>1. Spaced(first, y)
        BY <1>1, <2>1, <2>2, <2>4, <3>1, SpacedFacts
      <4>2. y \in runs
        BY <1>1, <1>2, <1>8, <2>4, <3>1, <3>3, <4>1
      <4> QED
        BY <1>3, <1>4, <1>8, <4>2
    <3> QED
      BY <1>1, <3>1, <3>2, <3>3
  <2> QED
    BY <2>1, <2>3, <2>4
<1> QED
  BY <1>5, <1>7, <1>8 DEF Taken

LEMMA AdvanceIsFresh ==
  ASSUME TypeOK, NEW t \in Tasks, NEW last \in Times, NEW time \in Times,
         Taken(t, last, time), NextTime(t, start_at[t], last, time) # Never
  PROVE  LET next == NextTime(t, start_at[t], last, time)
         IN Fresh(t, next) /\ next > time
<1> DEFINE next == NextTime(t, start_at[t], last, time)
<1>1. last \in Int /\ last # Never /\ time \in Int /\ Period \in Int /\ Period > 0
  BY TimeFacts
<1>2. t \in Interval /\ next = last + Period
  BY <1>1 DEF NextTime, DateTime, IntervalTime
<1> HIDE DEF next
<1>3. next > time /\ next \in Int
  BY <1>1, <1>2 DEF Taken
<1>4. \A y \in handed[t] : y < next
  <2>1. handed[t] \subseteq Int
    BY TimeFacts DEF TypeOK
  <2> QED
    BY <1>1, <1>2, <2>1 DEF Taken
<1>5. ASSUME t \notin Coalesce
      PROVE  /\ base[t] # Never /\ base[t] <= next /\ Spaced(base[t], next)
             /\ \A y \in Times :
                  base[t] <= y /\ y < next /\ Spaced(base[t], y) => y \in handed[t]
  <2>1. /\ base[t] # Never /\ base[t] <= last /\ Spaced(base[t], last)
        /\ \A y \in Times :
             base[t] <= y /\ y <= last /\ Spaced(base[t], y) => y \in handed[t]
    BY <1>2, <1>5 DEF Taken
  <2>2. base[t] \in Int
    BY <2>1, TimeFacts DEF TypeOK, Stamp
  <2>3. base[t] <= next /\ Spaced(base[t], next)
    BY <1>1, <1>2, <2>1, <2>2, SpacedFacts
  <2>4. ASSUME NEW y \in Times, base[t] <= y, y < next, Spaced(base[t], y)
        PROVE  y <= last
    <3>1. y \in Int
      BY TimeFacts
    <3>2. Spaced(last, y)
      BY <1>1, <2>1, <2>2, <2>4, <3>1, SpacedFacts
    <3>3. last < y => last + Period <= y
      BY <1>1, <3>1, <3>2, SpacedFacts
    <3> QED
      BY <1>1, <1>2, <2>4, <3>1, <3>3
  <2> QED
    BY <2>1, <2>3, <2>4
<1>6. Fresh(t, next)
  BY <1>4, <1>5 DEF Fresh
<1> QED
  BY <1>3, <1>6 DEF next

\* Fresh depends on handed[t] and base[t] only.
LEMMA StaysFresh ==
  ASSUME NEW t, NEW x, Fresh(t, x), handed'[t] = handed[t], base'[t] = base[t]
  PROVE  Fresh(t, x)'
BY DEF Fresh

LEMMA NotInHand ==
  ASSUME JInv, NEW id \in Ids, rows[id] # NoRow, KInv,
         loop.pc \in {"sent", "save"} => id # IdOf[loop.row.task]
  PROVE  ~InHand(rows[id].task) /\ Fresh(rows[id].task, rows[id].timestamp)
<1>1. ~InHand(rows[id].task)
  BY DEF InHand, JInv, IInv, Filed
<1> QED
  BY <1>1 DEF KInv, RowsAreFresh

\* A row of the round that the loop has not come to: its object is due.
LEMMA DueHasRun ==
  ASSUME JInv, KInv, loop.pc = "task", NEW r \in loop.todo
  PROVE  /\ r.task \in Tasks /\ IdOf[r.task] \in Ids
         /\ next_run_time[r.task] = r.timestamp
         /\ r.timestamp \in Times /\ r.timestamp <= loop.now
         /\ Fresh(r.task, r.timestamp)
         /\ RunTimes(r.task, loop.now) # {}
<1>1. /\ r \in Row /\ r # NoRow /\ r.task \in Tasks /\ IdOf[r.task] \in Ids
      /\ rows[IdOf[r.task]] = r /\ r.timestamp \in Times /\ r.timestamp <= loop.now
  BY RoundFacts, TableFacts DEF JInv, Held, Row, Stamp
<1>2. ~Unsaved(r.task)
  BY DEF Unsaved, At, JInv, Undisturbed
<1>3. next_run_time[r.task] = r.timestamp
  BY <1>1, <1>2 DEF JInv, IInv, AgreesAt
<1>4. Fresh(r.task, r.timestamp)
  BY <1>1, NotInHand
<1>5. r.timestamp \in RunTimes(r.task, loop.now)
  BY <1>1, <1>3, TimeFacts DEF RunTimes
<1> QED
  BY <1>1, <1>3, <1>4, <1>5

\* A step at whose end the loop holds no row leaves every row fresh.
LEMMA FreshOutside ==
  ASSUME JInv, KInv, loop.pc \notin {"sent", "save"}, loop'.pc \in {"idle", "lock", "arm"},
         UNCHANGED <<rows, base, handed>>
  PROVE  KInv'
<1>1. RowsAreFresh'
  BY DEF KInv, RowsAreFresh, InHand, Fresh
<1> QED
  BY <1>1 DEF KInv, RestIsLater, TakenInRound

\* The loop is done with r: its row is out, or has a run after the round.
LEMMA FreshAfter ==
  ASSUME JInv, KInv, loop.pc \in {"task", "sent", "save"}, NEW r \in loop.todo,
         loop.pc \in {"sent", "save"} => r = loop.row,
         loop' = Rest(r), UNCHANGED <<base, handed>>,
         \A id \in Ids \ {IdOf[r.task]} : rows'[id] = rows[id],
         LET row == rows'[IdOf[r.task]]
         IN row = NoRow \/ (/\ row.timestamp > loop.now
                            /\ Fresh(row.task, row.timestamp))
  PROVE  KInv'
<1>1. loop'.pc = "task" /\ loop'.todo = loop.todo \ {r} /\ loop'.now = loop.now
  BY RoundFacts DEF JInv, RoundState, Rest
<1>2. IdOf[r.task] \in Ids /\ rows[IdOf[r.task]] = r
  BY RoundFacts, TableFacts DEF JInv, Held
<1>3. ASSUME NEW id \in Ids, NEW t, NEW x, rows'[id] # NoRow,
             t = rows'[id].task, x = rows'[id].timestamp
      PROVE  Fresh(t, x)'
  <2>1. Fresh(t, x)
    <3>1. CASE id = IdOf[r.task]
      BY <1>3, <3>1
    <3>2. CASE id # IdOf[r.task]
      BY <1>3, <3>2, NotInHand
    <3> QED
      BY <3>1, <3>2
  <2> QED
    BY <2>1, StaysFresh
<1>4. RowsAreFresh'
  BY <1>3 DEF RowsAreFresh, Fresh
<1>5. ASSUME NEW id \in Ids, rows'[id] # NoRow, rows'[id] \notin loop'.todo
      PROVE  rows'[id].timestamp > loop.now
  <2>1. CASE id = IdOf[r.task]
    BY <1>5, <2>1
  <2>2. CASE id # IdOf[r.task]
    <3>1. rows[id] # r
      BY <1>5, <2>2 DEF JInv, IInv, Filed
    <3>2. rows[id] \notin loop.todo
      BY <1>1, <1>5, <2>2, <3>1
    <3> QED
      BY <1>5, <2>2, <3>2 DEF KInv, RestIsLater
  <2> QED
    BY <2>1, <2>2
<1>6. RestIsLater' /\ TakenInRound'
  BY <1>1, <1>5 DEF RestIsLater, TakenInRound
<1> QED
  BY <1>4, <1>6 DEF KInv

LEMMA KInvByRound ==
  ASSUME JInv, KInv, Round
  PROVE  KInv'
<1> USE DEF schedule, budget, history
<1>1. IInv /\ Held /\ loop \in RoundState /\ rows \in Table /\ loop.now \in Times
  BY RoundFacts DEF JInv
<1>2. CASE StartRound \/ StoreUnavailable \/ ArmTimer \/ EndRound
  <2>1. loop'.pc \in {"idle", "lock", "arm"} /\ loop.pc \notin {"sent", "save"}
    <3>1. LoopIdle.pc = "idle" /\ [LoopIdle EXCEPT !.pc = "lock", !.now = now].pc = "lock"
      BY DEF LoopIdle
    <3> QED
      BY <1>1, <1>2, <3>1 DEF StartRound, StoreUnavailable, ArmTimer, EndRound, RoundState
  <2>2. UNCHANGED <<rows, base, handed>>
    BY <1>2 DEF StartRound, StoreUnavailable, ArmTimer, EndRound
  <2> QED
    BY <2>1, <2>2, FreshOutside
<1>3. CASE QueryStore
  <2>1. loop'.pc = "task" /\ loop'.now = loop.now /\ loop'.todo = DueRows(rows, loop.now)
    BY <1>1, <1>3, DueRowsFacts DEF QueryStore, RoundState
  <2>2. loop.pc = "lock" /\ UNCHANGED <<rows, base, handed>>
    BY <1>3 DEF QueryStore
  <2>3. RowsAreFresh'
    BY <2>1, <2>2 DEF KInv, RowsAreFresh, InHand, Fresh
  <2>4. ASSUME NEW id \in Ids, rows[id] # NoRow, rows[id] \notin DueRows(rows, loop.now)
        PROVE  rows[id].timestamp > loop.now
    <3>1. rows[id].timestamp = Never \/ ~(rows[id].timestamp <= loop.now)
      BY <2>4 DEF DueRows, Rows
    <3>2. rows[id].timestamp \in Int /\ loop.now \in Int /\ Never > loop.now
      BY <1>1, <2>4, RowsById, TimeFacts DEF IInv, Stamp
    <3> QED
      BY <3>1, <3>2
  <2>5. RestIsLater' /\ TakenInRound'
    BY <2>1, <2>2, <2>4 DEF RestIsLater, TakenInRound
  <2> QED
    BY <2>3, <2>5 DEF KInv
<1>4. ASSUME NEW r \in loop.todo, SkipTask(r) PROVE KInv'
  BY <1>4, DueHasRun DEF SkipTask
<1>5. ASSUME NEW r \in loop.todo, SendTask(r) PROVE KInv'
  <2> DEFINE t == r.task
  <2>1. PICK x : /\ IsLast(x, Coalesced(t, RunTimes(t, loop.now)))
                 /\ loop' = [loop EXCEPT !.pc = "sent", !.row = r, !.last = x]
    BY <1>5 DEF SendTask
  <2>2. loop'.pc = "sent" /\ loop'.row = r /\ loop'.last = x /\ loop'.todo = loop.todo
        /\ loop'.now = loop.now /\ loop.pc = "task"
    BY <1>1, <1>5, <2>1 DEF SendTask, RoundState
  <2>3. /\ t \in Tasks /\ next_run_time[t] \in Times /\ next_run_time[t] <= loop.now
        /\ Fresh(t, next_run_time[t])
    BY <2>2, DueHasRun
  <2>4. /\ handed' = [handed EXCEPT ![t] = @ \cup Coalesced(t, RunTimes(t, loop.now))]
        /\ UNCHANGED <<rows, base, next_run_time>>
    BY <1>5 DEF SendTask
  <2>5. Taken(t, x, loop.now)'
    <3>1. PICK time \in Times : time = loop.now
      BY <1>1
    <3>2. Taken(t, x, time)'
      BY <1>1, <2>1, <2>3, <2>4, <3>1, SendTakes DEF IInv
    <3> QED
      BY <2>2, <3>1, <3>2
  <2>6. ASSUME NEW id \in Ids, rows[id] # NoRow, rows[id].task # t
        PROVE  Fresh(rows[id].task, rows[id].timestamp)'
    <3>1. Fresh(rows[id].task, rows[id].timestamp)
      BY <2>2, <2>6 DEF KInv, RowsAreFresh, InHand
    <3>2. handed'[rows[id].task] = handed[rows[id].task]
      BY <1>1, <2>4, <2>6, RowsById DEF IInv, TypeOK
    <3> QED
      BY <2>4, <3>1, <3>2, StaysFresh
  <2>7. RowsAreFresh'
    BY <2>2, <2>4, <2>6 DEF RowsAreFresh, InHand
  <2>8. RestIsLater'
    BY <2>2, <2>4 DEF KInv, RestIsLater
  <2>9. TakenInRound'
    BY <2>2, <2>5 DEF TakenInRound
  <2> QED
    BY <2>7, <2>8, <2>9 DEF KInv
<1>6. ASSUME NEW r \in loop.todo, loop.pc \in {"task", "sent"},
             loop.pc = "sent" => r = loop.row,
             rows' = Drop(rows, IdOf[r.task]), loop' = Rest(r), UNCHANGED <<base, handed>>
      PROVE  KInv'
  <2>1. IdOf[r.task] \in Ids
    BY RoundFacts, TableFacts DEF JInv
  <2>2. /\ rows'[IdOf[r.task]] = NoRow
        /\ \A id \in Ids \ {IdOf[r.task]} : rows'[id] = rows[id]
    BY <1>1, <1>6, <2>1, DropFacts
  <2> QED
    BY <1>6, <2>2, FreshAfter
<1>7. ASSUME NEW r \in loop.todo, DropTask(r) PROVE KInv'
  BY <1>6, <1>7 DEF DropTask
<1>8. CASE AdvanceTask
  <2> DEFINE t    == loop.row.task
             next == NextTime(t, start_at[t], loop.last, loop.now)
  <2>1. loop.row \in loop.todo /\ loop.pc = "sent"
    BY <1>1, <1>8 DEF AdvanceTask, Held
  <2>2. CASE rows' = Drop(rows, IdOf[t]) /\ loop' = Rest(loop.row)
    BY <1>6, <1>8, <2>1, <2>2 DEF AdvanceTask
  <2>3. CASE UNCHANGED rows /\ loop' = [loop EXCEPT !.pc = "save"]
             /\ next # Never /\ next_run_time' = [next_run_time EXCEPT ![t] = next]
    <3>1. loop'.todo = loop.todo /\ loop'.now = loop.now /\ loop'.pc = "save"
          /\ loop'.row = loop.row
      BY <1>1, <2>3 DEF RoundState
    <3>2. t \in Tasks /\ loop.last \in Times
      BY <1>1, <2>1, TableFacts DEF IInv, RoundHolds
    <3>3. Fresh(t, next) /\ next > loop.now
      BY <1>1, <2>1, <2>3, <3>2, AdvanceIsFresh DEF KInv, TakenInRound, IInv
    <3> HIDE DEF next
    <3>4. next_run_time'[t] = next
      BY <1>1, <2>3, <3>2, RoundFacts
    <3>5. UNCHANGED <<base, handed>>
      BY <1>8 DEF AdvanceTask
    <3>6. RowsAreFresh'
      BY <2>1, <2>3, <3>1, <3>5 DEF KInv, RowsAreFresh, InHand, Fresh
    <3>7. RestIsLater'
      BY <2>1, <2>3, <3>1 DEF KInv, RestIsLater
    <3>8. TakenInRound'
      BY <3>1, <3>3, <3>4, <3>5 DEF TakenInRound, Fresh
    <3> QED
      BY <3>6, <3>7, <3>8 DEF KInv
  <2> QED
    BY <1>8, <2>2, <2>3 DEF AdvanceTask
<1>9. CASE SaveTask
  <2>1. PICK t \in Tasks : t = loop.row.task
    BY <1>1, <1>9, TableFacts DEF SaveTask, IInv, RoundHolds
  <2>2. PICK x \in Stamp : x = next_run_time[t]
    BY <1>1, <2>1, RoundFacts
  <2>3. loop.row \in loop.todo /\ loop.pc = "save"
    BY <1>1, <1>9 DEF SaveTask, Held
  <2>4. rows' = Put(rows, NewRow(t, x)) /\ loop' = Rest(loop.row) /\ UNCHANGED <<base, handed>>
    BY <1>9, <2>1, <2>2 DEF SaveTask
  <2>5. NewRow(t, x) \in Row /\ NewRow(t, x).task = t /\ NewRow(t, x).timestamp = x
    BY TableFacts
  <2>6. /\ rows'[IdOf[t]] = NewRow(t, x)
        /\ \A id \in Ids \ {IdOf[t]} : rows'[id] = rows[id]
    BY <1>1, <2>4, <2>5, PutFacts
  <2>7. Fresh(t, x) /\ x > loop.now
    BY <2>1, <2>2, <2>3 DEF KInv, TakenInRound
  <2> QED
    BY <2>1, <2>3, <2>4, <2>5, <2>6, <2>7, FreshAfter
<1> QED
  BY <1>2, <1>3, <1>4, <1>5, <1>7, <1>8, <1>9 DEF Round

\* A call gives t a schedule, and its row, if it has one, the time of it.
LEMMA FreshBySchedule ==
  ASSUME JInv, KInv, Unlocked, UNCHANGED loop, NEW t \in Tasks, NEW x \in Stamp, Schedule(t, x),
         \/ rows' = Put(rows, NewRow(t, x))
         \/ UNCHANGED rows /\ t \notin submitted
  PROVE  KInv'
<1>1. loop.pc \notin {"task", "sent", "save"}
  BY CallersAreAlone
<1>2. handed'[t] = {} /\ base'[t] = x
  BY DEF Schedule, JInv, IInv, TypeOK
<1>3. \A u \in Tasks \ {t} : handed'[u] = handed[u] /\ base'[u] = base[u]
  BY DEF Schedule, JInv, IInv, TypeOK
<1>4. Fresh(t, x)'
  <2>1. x # Never => x \in Int
    BY TimeFacts DEF Stamp
  <2> QED
    BY <1>2, <2>1, SpacedFacts, TimeFacts DEF Fresh
<1>5. ASSUME NEW id \in Ids, NEW u, NEW y, rows'[id] # NoRow,
             u = rows'[id].task, y = rows'[id].timestamp
      PROVE  Fresh(u, y)'
  <2>1. rows \in Table /\ NewRow(t, x) \in Row
        /\ NewRow(t, x).task = t /\ NewRow(t, x).timestamp = x
    BY TableFacts DEF JInv, IInv, TypeOK
  <2>2. CASE rows' = Put(rows, NewRow(t, x)) /\ id = IdOf[t]
    BY <1>4, <1>5, <2>1, <2>2, PutFacts
  <2>3. CASE rows'[id] = rows[id] /\ (id # IdOf[t] \/ t \notin submitted)
    <3>1. u \in Tasks \ {t}
      BY <1>5, <2>3, RowsById DEF JInv, IInv, Filed
    <3>2. Fresh(u, y)
      BY <1>1, <1>5, <2>3, NotInHand
    <3> QED
      BY <1>3, <3>1, <3>2, StaysFresh
  <2> QED
    BY <2>1, <2>2, <2>3, PutFacts
<1>6. RowsAreFresh'
  BY <1>5 DEF RowsAreFresh, Fresh
<1> QED
  BY <1>1, <1>6 DEF KInv, RestIsLater, TakenInRound

\* A call takes rows out.
LEMMA FreshByRemove ==
  ASSUME JInv, KInv, Unlocked, NEW ids \in SUBSET Ids, Remove(ids),
         UNCHANGED <<loop, base, handed>>
  PROVE  KInv'
<1>1. loop.pc \notin {"task", "sent", "save"}
  BY CallersAreAlone
<1>2. \A id \in Ids : rows'[id] = rows[id] \/ rows'[id] = NoRow
  BY RemoveFacts DEF JInv, IInv
<1>3. RowsAreFresh'
  BY <1>1, <1>2 DEF KInv, RowsAreFresh, InHand, Fresh
<1> QED
  BY <1>1, <1>3 DEF KInv, RestIsLater, TakenInRound

LEMMA FreshByUpdate ==
  ASSUME JInv, KInv, Unlocked, UNCHANGED loop, NEW id \in Ids, NEW stamp \in Stamp,
         Update(id, stamp)
  PROVE  KInv'
<1>1. PICK t \in Tasks : t = rows[id].task
  BY RowsById DEF Update, JInv, IInv
<1>2. Schedule(t, stamp) /\ rows' = Put(rows, NewRow(t, next_run_time'[t]))
  BY <1>1 DEF Update, Store
<1>3. next_run_time'[t] = stamp
  BY <1>2, ScheduleFacts DEF JInv, IInv
<1> QED
  BY <1>2, <1>3, FreshBySchedule

LEMMA KInvByCall ==
  ASSUME JInv, KInv, NEW c \in Clients, Call(c)
  PROVE  KInv'
<1> USE DEF schedule, budget, history
<1>1. ASSUME NEW t \in Tasks, NEW start \in BOOLEAN, NEW replace \in BOOLEAN,
             AddTask(c, t, start, replace)
      PROVE  KInv'
  <2> DEFINE stamp == IF start THEN NextTime(t, start_at[t], Never, now) ELSE Never
  <2>1. stamp \in Stamp
    BY RoundFacts, NextTimeType DEF Stamp, JInv
  <2> HIDE DEF stamp
  <2>2. /\ Unlocked /\ Schedule(t, stamp) /\ t \notin submitted /\ UNCHANGED loop
        /\ UNCHANGED rows \/ Store(t)
    BY <1>1 DEF AddTask, Enter, stamp
  <2>3. next_run_time'[t] = stamp
    BY <2>1, <2>2, ScheduleFacts DEF JInv, IInv
  <2> QED
    BY <2>1, <2>2, <2>3, FreshBySchedule DEF Store
<1>2. ASSUME NEW id \in Ids, NEW stamp \in Settings, UpdateTask(c, id, stamp) PROVE KInv'
  BY <1>2, FreshByUpdate, SchedulerAssumption DEF UpdateTask, Enter
<1>3. ASSUME NEW id \in Ids, NEW start \in Starts, NEW seen \in Times,
             RescheduleTask(c, id, start, seen)
      PROVE  KInv'
  <2> DEFINE stamp == NextTime(rows[id].task, start, Never, seen)
  <2>1. stamp \in Stamp
    <3>1. rows[id].task \in Tasks
      BY <1>3, RowsById DEF RescheduleTask, Update, JInv, IInv
    <3> QED
      BY <3>1, NextTimeType, TimeFacts DEF Stamp
  <2>2. Update(id, stamp) /\ Unlocked /\ UNCHANGED loop
    BY <1>3 DEF RescheduleTask, Enter
  <2> HIDE DEF stamp
  <2> QED
    BY <2>1, <2>2, FreshByUpdate
<1>4. ASSUME NEW id \in Ids, ResumeTask(c, id) PROVE KInv'
  <2> DEFINE stamp == NextTime(rows[id].task, start_at[rows[id].task], Never, now)
  <2>1. stamp \in Stamp
    <3>1. rows[id].task \in Tasks
      BY <1>4, RowsById DEF ResumeTask, JInv, IInv
    <3> QED
      BY <3>1, RoundFacts, NextTimeType DEF Stamp, JInv
  <2>2. /\ Unlocked /\ UNCHANGED loop
        /\ Update(id, stamp) \/ (Remove({id}) /\ UNCHANGED <<base, handed>>)
    BY <1>4 DEF ResumeTask, Enter
  <2> HIDE DEF stamp
  <2> QED
    BY <2>1, <2>2, FreshByUpdate, FreshByRemove
<1>5. CASE RemoveAllTasks(c)
  BY <1>5, FreshByRemove DEF RemoveAllTasks, Enter
<1>6. ASSUME NEW id \in Ids, DeleteTask(c, id) PROVE KInv'
  BY <1>6, FreshByRemove DEF DeleteTask, Enter
<1>7. ASSUME UNCHANGED <<rows, loop, base, handed, next_run_time>> PROVE KInv'
  BY <1>7 DEF KInv, RowsAreFresh, RestIsLater, TakenInRound, Fresh, Taken, InHand
<1>8. CASE Pause(c) \/ Resume(c) \/ ChangeExecutor(c) \/ \E id \in Ids : LookUp(c, id)
  BY <1>7, <1>8 DEF Pause, Resume, ChangeExecutor, LookUp
<1> QED
  BY <1>1, <1>2, <1>3, <1>4, <1>5, <1>6, <1>8 DEF Call

LEMMA StepKInv == JInv /\ KInv /\ [Next]_vars => KInv'
<1> SUFFICES ASSUME JInv, KInv, [Next]_vars PROVE KInv'
  OBVIOUS
<1> USE DEF schedule, budget, history
<1>1. ASSUME UNCHANGED <<rows, loop, base, handed, next_run_time>> PROVE KInv'
  BY <1>1 DEF KInv, RowsAreFresh, RestIsLater, TakenInRound, Fresh, Taken, InHand
<1>2. ASSUME NEW c \in Clients, Continued(c) PROVE KInv'
  BY <1>1, <1>2, ContinuedWithoutRunTask DEF Notify, Wake
<1>3. CASE FireTimer \/ Tick \/ (\E id \in Ids : FinishJob(id)) \/ UNCHANGED vars
  BY <1>1, <1>3 DEF FireTimer, Tick, FinishJob, vars
<1> QED
  BY <1>2, <1>3, KInvByRound, KInvByCall DEF Next

LEMMA InitKInv == Init => KInv
<1> SUFFICES ASSUME Init PROVE KInv
  OBVIOUS
<1>1. loop.pc = "idle" /\ \A id \in Ids : rows[id] = NoRow
  BY DEF Init, LoopIdle, EmptyTable
<1> QED
  BY <1>1 DEF KInv, RowsAreFresh, RestIsLater, TakenInRound

-----------------------------------------------------------------------------
(* The timer is armed in time *)

\* A running scheduler that no wakeup waits for and no client is about to wake.
Quiet == state = "RUNNING" /\ queue = 0 /\ \A c \in Clients : client[c] = Idle

\* A row with a run time.
HasRun(id) == rows[id] # NoRow /\ rows[id].timestamp # Never

\* The timer is armed for the row of id, or the loop is about to arm it.
Timed(id) ==
  HasRun(id) =>
    /\ loop.pc = "idle" => timer # Never /\ timer <= rows[id].timestamp + lag
    /\ loop.pc = "arm" =>
         /\ loop.next # Never
         /\ loop.retry \/ (loop.now < loop.next /\ loop.next <= rows[id].timestamp)

TInv == Quiet => \A id \in Ids : Timed(id)

LEMMA SameTimed ==
  ASSUME TInv, UNCHANGED <<loop, timer, lag>>, Quiet' => Quiet,
         \A id \in Ids : rows'[id] = rows[id] \/ ~HasRun(id)'
  PROVE  TInv'
BY DEF TInv, Timed, HasRun

LEMMA NotQuiet ==
  ASSUME JInv, ~Quiet'
  PROVE  TInv'
BY DEF TInv

LEMMA WakesUp ==
  ASSUME JInv, Wakeup
  PROVE  ~Quiet'
BY SchedulerAssumption DEF Wakeup, Quiet, JInv, IInv, TypeOK

LEMMA WakesUpIfRunning ==
  ASSUME JInv, WakeupIfRunning, state' = state
  PROVE  ~Quiet'
BY WakesUp DEF WakeupIfRunning, Quiet

LEMMA IsCalling ==
  ASSUME JInv, NEW c \in Clients, Continue(c, "notify") \/ Continue(c, "wake")
  PROVE  ~Quiet'
<1>1. client'[c] = [pc |-> "notify"] \/ client'[c] = [pc |-> "wake"]
  BY DEF Continue, JInv, IInv, TypeOK
<1> QED
  BY <1>1, CallFacts DEF Quiet

\* At the end of a round the earliest row tells the wait, and it lies ahead.
LEMMA EndRoundIsTimed ==
  ASSUME JInv, KInv, EndRound
  PROVE  TInv'
<1> USE DEF schedule, budget, history
<1>1. /\ loop.pc = "task" /\ loop.todo = {} /\ loop \in RoundState /\ loop.now \in Times
      /\ loop.now \in Int /\ rows \in Table /\ UNCHANGED <<rows, next_run_time>>
  <2>1. loop.pc = "task" /\ loop.todo = {} /\ UNCHANGED <<rows, next_run_time>>
    BY DEF EndRound
  <2>2. loop \in RoundState /\ loop.now \in Times /\ rows \in Table
    BY RoundFacts DEF JInv
  <2> QED
    BY <2>1, <2>2, TimeFacts
<1>2. CASE Rows(rows) = {}
  <2>1. \A id \in Ids : rows[id] = NoRow
    BY <1>2 DEF Rows
  <2> QED
    BY <1>1, <2>1 DEF TInv, Timed, HasRun
<1>3. ASSUME NEW r \in Rows(rows), First(r, Rows(rows)),
             loop' = [loop EXCEPT !.pc = "arm", !.next = next_run_time[r.task]]
      PROVE  TInv'
  <2>1. PICK i \in Ids : rows[i] = r /\ r # NoRow
    BY DEF Rows
  <2>2. r.task \in Tasks /\ r.timestamp \in Int
    BY <2>1, RowsById, TimeFacts DEF JInv, IInv, Stamp
  <2>3. next_run_time[r.task] = r.timestamp
    <3>1. ~Unsaved(r.task)
      BY <1>1 DEF Unsaved, At, JInv, Undisturbed
    <3> QED
      BY <2>1, <3>1 DEF JInv, IInv, AgreesAt
  <2>4. r.timestamp > loop.now
    BY <1>1, <2>1 DEF KInv, RestIsLater
  <2>5. ASSUME NEW id \in Ids, rows[id] # NoRow
        PROVE  rows[id].timestamp \in Int /\ r.timestamp <= rows[id].timestamp
    <3>1. rows[id].timestamp \in Int
      BY <2>5, RowsById, TimeFacts DEF JInv, IInv, Stamp
    <3>2. rows[id] = r \/ Before(r, rows[id])
      BY <1>3, <2>5 DEF First, Rows
    <3> QED
      BY <2>2, <3>1, <3>2 DEF Before
  <2>6. /\ loop'.pc = "arm" /\ loop'.next = r.timestamp /\ loop'.now = loop.now
    BY <1>1, <1>3, <2>3 DEF RoundState
  <2>7. ASSUME NEW id \in Ids, HasRun(id)
        PROVE  r.timestamp # Never
    <3>1. rows[id].timestamp < Never
      BY <2>7, RowsById, TimeFacts DEF HasRun, JInv, IInv, Stamp
    <3> QED
      BY <2>2, <2>5, <2>7, <3>1, TimeFacts DEF HasRun
  <2>8. ASSUME NEW id \in Ids PROVE Timed(id)'
    BY <1>1, <2>2, <2>4, <2>5, <2>6, <2>7 DEF Timed, HasRun
  <2> QED
    BY <2>8 DEF TInv
<1> QED
  BY <1>2, <1>3 DEF EndRound

\* The wait is counted from the start of the round and the timer from its end:
\* it is late by the time the round took, lag.
LEMMA ArmTimerIsTimed ==
  ASSUME JInv, TInv, ArmTimer
  PROVE  TInv'
<1> USE DEF schedule, budget, history
<1> SUFFICES ASSUME Quiet', NEW id \in Ids, HasRun(id)' PROVE Timed(id)'
  BY DEF TInv, Timed
<1>1. /\ loop.pc = "arm" /\ loop' = LoopIdle /\ LoopIdle.pc = "idle"
      /\ Quiet /\ HasRun(id) /\ UNCHANGED rows
  BY DEF ArmTimer, Quiet, HasRun, LoopIdle
<1>2. /\ loop.next # Never
      /\ loop.retry \/ (loop.now < loop.next /\ loop.next <= rows[id].timestamp)
  BY <1>1 DEF TInv, Timed
<1>3. loop \in RoundState /\ loop.now \in Int /\ now \in Int
      /\ loop.now \in 0 .. MaxTime /\ now \in 0 .. MaxTime
  BY RoundFacts, TimeFacts DEF JInv
<1>4. loop.next \in 0 .. MaxTime + Retry
  BY <1>2, <1>3, TimeFacts DEF RoundState, Stamp
<1>5. timer' = now + Max({loop.next - loop.now, 0})
      /\ lag' = IF loop.retry THEN Never ELSE now - loop.now
  BY <1>1, <1>2 DEF ArmTimer, Quiet
<1>6. timer' = now + (IF loop.next - loop.now > 0 THEN loop.next - loop.now ELSE 0)
  BY <1>3, <1>4, <1>5, WaitIs
<1>7. timer' # Never /\ timer' \in Int /\ timer' < Never
  BY <1>3, <1>4, <1>6, TimeFacts
<1>8. rows[id].timestamp \in Int /\ rows[id].timestamp >= 0
  BY <1>1, RowsById, TimeFacts DEF HasRun, JInv, IInv, Stamp
<1>9. timer' <= rows[id].timestamp + lag'
  <2>1. CASE loop.retry
    BY <1>5, <1>7, <1>8, <2>1, TimeFacts
  <2>2. CASE ~loop.retry
    <3>1. lag' = now - loop.now
      BY <1>5, <2>2
    <3>2. timer' = now + (loop.next - loop.now) /\ loop.next <= rows[id].timestamp
      BY <1>2, <1>3, <1>4, <1>6, <2>2
    <3> QED
      BY <1>3, <1>4, <1>8, <3>1, <3>2
  <2> QED
    BY <2>1, <2>2
<1> QED
  BY <1>1, <1>7, <1>9 DEF Timed

LEMMA TInvByRound ==
  ASSUME JInv, KInv, TInv, Round
  PROVE  TInv'
<1> USE DEF schedule, budget, history
<1>1. loop \in RoundState /\ loop.now \in 0 .. MaxTime
  BY RoundFacts, TimeFacts DEF JInv
<1>2. ASSUME loop'.pc \notin {"idle", "arm"} PROVE TInv'
  BY <1>2 DEF TInv, Timed
<1>3. CASE StartRound
  <2>1. LoopIdle \in RoundState
    BY RoundFacts DEF JInv
  <2>2. CASE state = "PAUSED"
    BY <1>3, <2>2 DEF StartRound, TInv, Quiet
  <2>3. CASE state # "PAUSED"
    <3>1. loop'.pc = "lock"
      BY <1>3, <2>1, <2>3 DEF StartRound, RoundState
    <3> QED
      BY <1>2, <3>1
  <2> QED
    BY <2>2, <2>3
<1>4. CASE StoreUnavailable
  <2>1. loop'.pc = "arm" /\ loop'.retry = TRUE /\ loop'.next = loop.now + Retry
    BY <1>1, <1>4 DEF StoreUnavailable, RoundState
  <2>2. loop'.next # Never
    BY <1>1, <2>1, TimeFacts
  <2> QED
    BY <2>1, <2>2 DEF TInv, Timed
<1>5. CASE QueryStore \/ AdvanceTask \/ SaveTask
           \/ \E r \in loop.todo : DropTask(r) \/ SkipTask(r) \/ SendTask(r)
  <2>1. loop'.pc \in {"task", "sent", "save"}
    BY <1>1, <1>5 DEF QueryStore, AdvanceTask, SaveTask, DropTask, SkipTask, SendTask, Rest,
                      RoundState
  <2> QED
    BY <1>2, <2>1
<1> QED
  BY <1>3, <1>4, <1>5, EndRoundIsTimed, ArmTimerIsTimed DEF Round

LEMMA TInvByCall ==
  ASSUME "run_task" \notin Api, JInv, TInv, NEW c \in Clients, Call(c)
  PROVE  TInv'
<1> USE DEF schedule, budget, history
<1>1. ASSUME NEW t \in Tasks, NEW start \in BOOLEAN, NEW replace \in BOOLEAN,
             AddTask(c, t, start, replace)
      PROVE  TInv'
  <2>1. /\ t \notin submitted
        /\ UNCHANGED <<state, loop, timer, client, lag>>
        /\ Schedule(t, IF start THEN NextTime(t, start_at[t], Never, now) ELSE Never)
        /\ \/ UNCHANGED <<rows, queue>>
           \/ Store(t) /\ WakeupIfRunning
           \/ Store(t) /\ ~start /\ UNCHANGED queue
    BY <1>1 DEF AddTask
  <2>2. CASE WakeupIfRunning
    BY <2>1, <2>2, WakesUpIfRunning, NotQuiet
  <2>3. CASE UNCHANGED <<rows, queue>>
    BY <2>1, <2>3, SameTimed DEF Quiet
  <2>4. CASE Store(t) /\ ~start /\ UNCHANGED queue
    <3>1. next_run_time'[t] = Never
      BY <2>1, <2>4 DEF Schedule, JInv, IInv, TypeOK
    <3>2. rows \in Table /\ NewRow(t, Never) \in Row
          /\ NewRow(t, Never).task = t /\ NewRow(t, Never).timestamp = Never
      BY TableFacts DEF JInv, IInv, TypeOK, Stamp
    <3>3. rows' = Put(rows, NewRow(t, Never))
      BY <2>4, <3>1 DEF Store
    <3>4. \A id \in Ids : rows'[id] = rows[id] \/ rows'[id].timestamp = Never
      BY <3>2, <3>3, PutFacts
    <3> QED
      BY <2>1, <2>4, <3>4, SameTimed DEF Quiet, HasRun
  <2> QED
    BY <2>1, <2>2, <2>3, <2>4
<1>2. CASE Resume(c) \/ \E id \in Ids :
             \/ \E stamp \in Settings : UpdateTask(c, id, stamp)
             \/ \E start \in Starts, seen \in Times : RescheduleTask(c, id, start, seen)
  BY <1>2, IsCalling, NotQuiet DEF Resume, UpdateTask, RescheduleTask
<1>3. ASSUME NEW ids \in SUBSET Ids, Remove(ids), UNCHANGED <<state, queue, client, loop, timer, lag>>
      PROVE  TInv'
  <2>1. \A id \in Ids : rows'[id] = rows[id] \/ rows'[id] = NoRow
    BY <1>3, RemoveFacts DEF JInv, IInv
  <2> QED
    BY <1>3, <2>1, SameTimed DEF Quiet, HasRun
<1>4. ASSUME NEW id \in Ids, ResumeTask(c, id) PROVE TInv'
  <2>1. CASE WakeupIfRunning
    BY <1>4, <2>1, WakesUpIfRunning, NotQuiet DEF ResumeTask
  <2>2. CASE Remove({id}) /\ UNCHANGED queue
    BY <1>3, <1>4, <2>2 DEF ResumeTask
  <2> QED
    BY <1>4, <2>1, <2>2 DEF ResumeTask
<1>5. CASE RemoveAllTasks(c)
  BY <1>3, <1>5 DEF RemoveAllTasks
<1>6. ASSUME NEW id \in Ids, DeleteTask(c, id) PROVE TInv'
  BY <1>3, <1>6 DEF DeleteTask
<1>7. CASE Pause(c)
  BY <1>7, NotQuiet DEF Pause, Quiet
<1>8. CASE ChangeExecutor(c)
  BY <1>8, SameTimed DEF ChangeExecutor, Quiet
<1>9. ~\E id \in Ids : LookUp(c, id)
  BY DEF LookUp
<1> QED
  BY <1>1, <1>2, <1>4, <1>5, <1>6, <1>7, <1>8, <1>9 DEF Call

LEMMA StepTInv == "run_task" \notin Api /\ JInv /\ KInv /\ TInv /\ [Next]_vars => TInv'
<1> SUFFICES ASSUME "run_task" \notin Api, JInv, KInv, TInv, [Next]_vars PROVE TInv'
  OBVIOUS
<1> USE DEF schedule, budget, history
<1>1. ASSUME NEW c \in Clients, Continued(c) PROVE TInv'
  BY <1>1, ContinuedWithoutRunTask, WakesUp, WakesUpIfRunning, NotQuiet DEF Notify, Wake
<1>2. CASE FireTimer
  BY <1>2, WakesUp, NotQuiet DEF FireTimer
<1>3. CASE Tick \/ (\E id \in Ids : FinishJob(id)) \/ UNCHANGED vars
  BY <1>3, SameTimed DEF Tick, FinishJob, vars, Quiet
<1> QED
  BY <1>1, <1>2, <1>3, TInvByRound, TInvByCall DEF Next

LEMMA InitTInv == Init => TInv
BY DEF Init, TInv, Quiet

-----------------------------------------------------------------------------
\* The whole invariant.
RoundsInv == JInv /\ KInv /\ TInv

LEMMA RoundsInvHolds ==
  ASSUME "run_task" \notin Api
  PROVE  Spec => []RoundsInv
<1>1. Init => RoundsInv
  BY InitJInv, InitKInv, InitTInv DEF RoundsInv
<1>2. RoundsInv /\ [Next]_vars => RoundsInv'
  BY StepJInv, StepKInv, StepTInv DEF RoundsInv
<1> QED
  BY <1>1, <1>2, PTL DEF Spec

\* "Removes a task, preventing it from being run anymore": an object that was
\* removed does not come back, unless run_task is in use
\* (schedulers/base.py:1175-1179).
THEOREM RemovedIsForGood ==
  ASSUME "run_task" \notin Api
  PROVE  Spec => []RemovedStaysOut
<1>1. RoundsInv => RemovedStaysOut
  BY DEF RoundsInv, JInv, StaysOut, RemovedStaysOut, Rows
<1> QED
  BY <1>1, RoundsInvHolds, PTL

\* A paused task has no run time, and the round in progress does not hold it, until
\* the API resumes it (schedulers/base.py:712-720).
THEOREM PausedIsLeftAlone ==
  ASSUME "run_task" \notin Api
  PROVE  Spec => []PausedStays
<1>1. RoundsInv => PausedStays
  BY DEF RoundsInv, JInv, Held, StaysPaused, PausedStays, Rows
<1> QED
  BY <1>1, RoundsInvHolds, PTL

\* The loop takes no run to the executor twice, however late its rounds are
\* (tasks/base.py:64-74, schedulers/base.py:1597-1639).
THEOREM EveryRunOnce ==
  ASSUME "run_task" \notin Api
  PROVE  Spec => []RunOnce
<1>1. RoundsInv => RunOnce
  BY DEF RoundsInv, KInv, RowsAreFresh, Fresh, RunOnce, Rows
<1> QED
  BY <1>1, RoundsInvHolds, PTL

\* The loop takes every run of an interval without coalesce to the executor
\* (tasks/base.py:64-74, schedulers/base.py:1597-1639).
THEOREM NoRunIsSkipped ==
  ASSUME "run_task" \notin Api
  PROVE  Spec => []NoRunLost
<1>1. RoundsInv => NoRunLost
  BY DEF RoundsInv, KInv, RowsAreFresh, Fresh, Spaced, NoRunLost, Rows
<1> QED
  BY <1>1, RoundsInvHolds, PTL

\* No task is forgotten: a running scheduler that sleeps has its timer armed for
\* the earliest run time, late at most by the time the last round took
\* (schedulers/base.py:1641-1646, 1683-1700, schedulers/asyncio.py:81-95).
THEOREM SleepIsTimed ==
  ASSUME "run_task" \notin Api
  PROVE  Spec => []TimerCovers
<1>1. RoundsInv => TimerCovers
  BY DEF RoundsInv, TInv, Quiet, Timed, HasRun, TimerCovers, Asleep, Rows
<1> QED
  BY <1>1, RoundsInvHolds, PTL
==============================================================================
