--------------------------- MODULE LifecycleProofs ---------------------------
(***************************************************************************)
(* The reference counter of module Lifecycle is exact, and lets one user   *)
(* at a time bring the scheduler up, for any number of users, on one       *)
(* thread or on several, and whatever fails.  When the users are functions *)
(* of the loop's own thread, the scheduler is up while somebody holds it,  *)
(* leaves no task pending, and never fails its assertion (OnLoop).         *)
(***************************************************************************)
EXTENDS Lifecycle, FiniteSetTheorems, FunctionTheorems, TLAPS

\* A user that is starting the scheduler does not hold it yet; with that, the
\* count is inductive and the single bring-up follows from it.
IInv == TypeOK /\ RefCounts /\ OneBringUp /\ holders \cap Starting = {}

-----------------------------------------------------------------------------
(* Counting *)

LEMMA AskedIsFinite ==
  ASSUME NEW q \in Seq({"wakeup", "_shutdown"})
  PROVE  IsFiniteSet(Asked(q)) /\ Cardinality(Asked(q)) \in Nat
<1>1. Asked(q) \in SUBSET (1 .. Len(q))
  BY DEF Asked
<1>2. IsFiniteSet(1 .. Len(q))
  BY FS_Interval
<1>3. IsFiniteSet(Asked(q))
  BY <1>1, <1>2, FS_Subset
<1> QED
  BY <1>3, FS_CardinalityType

\* A callback put at the end counts if it is a _shutdown.
LEMMA AskedAppend ==
  ASSUME NEW q \in Seq({"wakeup", "_shutdown"}), NEW e \in {"wakeup", "_shutdown"}
  PROVE  Cardinality(Asked(Append(q, e))) =
           Cardinality(Asked(q)) + (IF e = "_shutdown" THEN 1 ELSE 0)
<1> DEFINE n == Len(q) + 1
<1>1. n \notin Asked(q)
  BY DEF Asked
<1>2. CASE e = "_shutdown"
  <2>1. Asked(Append(q, e)) = Asked(q) \cup {n}
    BY <1>2 DEF Asked
  <2> QED
    BY <1>1, <1>2, <2>1, AskedIsFinite, FS_AddElement
<1>3. CASE e # "_shutdown"
  <2>1. Asked(Append(q, e)) = Asked(q)
    BY <1>3 DEF Asked
  <2> QED
    BY <1>3, <2>1, AskedIsFinite
<1> QED
  BY <1>2, <1>3

LEMMA WakeupIsNotAsked ==
  ASSUME NEW q \in Seq({"wakeup", "_shutdown"}), NEW r, r = q \/ r = Append(q, "wakeup")
  PROVE  /\ Cardinality(Asked(r)) = Cardinality(Asked(q))
         /\ Cardinality(Asked(q)) \in Nat
<1>1. Cardinality(Asked(q)) \in Nat
  BY AskedIsFinite
<1>2. CASE r = Append(q, "wakeup")
  BY <1>1, <1>2, AskedAppend
<1> QED
  BY <1>1, <1>2

\* A callback taken from the front counts if it is a _shutdown.
LEMMA AskedTail ==
  ASSUME NEW q \in Seq({"wakeup", "_shutdown"}), q # <<>>
  PROVE  Cardinality(Asked(Tail(q))) =
           Cardinality(Asked(q)) - (IF Head(q) = "_shutdown" THEN 1 ELSE 0)
<1> DEFINE S == Asked(q) \ {1}
           T == Asked(Tail(q))
           f == [i \in S |-> i - 1]
<1>1. /\ Tail(q) \in Seq({"wakeup", "_shutdown"}) /\ Len(Tail(q)) = Len(q) - 1
      /\ \A i \in 1 .. Len(q) - 1 : Tail(q)[i] = q[i + 1]
  OBVIOUS
<1>2. f \in [S -> T]
  BY <1>1 DEF Asked
<1>3. \A i, j \in S : f[i] = f[j] => i = j
  BY DEF Asked
<1>4. \A j \in T : \E i \in S : f[i] = j
  <2> TAKE j \in T
  <2>1. j + 1 \in S /\ f[j + 1] = j
    BY <1>1 DEF Asked
  <2> QED
    BY <2>1
<1> HIDE DEF f
<1>5. f \in Bijection(S, T)
  BY <1>2, <1>3, <1>4, Fun_IsBij
<1>6. IsFiniteSet(S) /\ Cardinality(S) = Cardinality(Asked(q)) - (IF 1 \in Asked(q) THEN 1 ELSE 0)
  BY AskedIsFinite, FS_RemoveElement
<1>7. Cardinality(T) = Cardinality(S)
  BY <1>5, <1>6, FS_Bijection DEF ExistsBijection
<1>8. 1 \in Asked(q) <=> Head(q) = "_shutdown"
  BY DEF Asked
<1> QED
  BY <1>6, <1>7, <1>8

-----------------------------------------------------------------------------
(* The users that are starting the scheduler *)

LEMMA UsersAreFinite ==
  ASSUME TypeOK
  PROVE  /\ IsFiniteSet(holders) /\ Cardinality(holders) \in Nat
         /\ IsFiniteSet(Starting) /\ Cardinality(Starting) \in Nat
<1>1. holders \in SUBSET Users /\ Starting \in SUBSET Users /\ IsFiniteSet(Users)
  BY LifecycleAssumption DEF TypeOK, Starting
<1>2. IsFiniteSet(holders) /\ IsFiniteSet(Starting)
  BY <1>1, FS_Subset
<1> QED
  BY <1>2, FS_CardinalityType

\* A user joins them, or leaves them, by where it goes.
LEMMA StartingChanges ==
  ASSUME TypeOK, NEW u \in Users, NEW v \in {Idle} \cup CallState,
         user' = [user EXCEPT ![u] = v]
  PROVE  /\ v \in CallState /\ v.step \in StartSteps => Starting' = Starting \cup {u}
         /\ v = Idle \/ v.step \notin StartSteps => Starting' = Starting \ {u}
         /\ user' \in [Users -> {Idle} \cup CallState]
<1>1. user \in [Users -> {Idle} \cup CallState] /\ Idle \notin CallState
  BY LifecycleAssumption DEF TypeOK
<1> QED
  BY <1>1 DEF Starting, In

\* A user that goes on with start stays among them.
LEMMA StartingGoesOn ==
  ASSUME TypeOK, NEW u \in Users, In(u, StartSteps), NEW step \in StartSteps, Go(u, step)
  PROVE  Starting' = Starting /\ user' \in [Users -> {Idle} \cup CallState]
<1> DEFINE v == [user[u] EXCEPT !.step = step]
<1>1. user \in [Users -> {Idle} \cup CallState] /\ user[u] \in CallState
  BY DEF TypeOK, In
<1>2. v \in CallState /\ v.step = step
  BY <1>1 DEF CallState
<1>3. user' = [user EXCEPT ![u] = v]
  BY DEF Go
<1>4. u \in Starting
  BY DEF Starting
<1> HIDE DEF v
<1>5. Starting' = Starting \cup {u} /\ user' \in [Users -> {Idle} \cup CallState]
  BY <1>2, <1>3, StartingChanges
<1> QED
  BY <1>4, <1>5

-----------------------------------------------------------------------------
(* The actions *)

\* An action that leaves the counts alone.
LEMMA SameCounts ==
  ASSUME IInv, TypeOK', UNCHANGED <<ref_counter, holders, leaked>>, Starting' = Starting,
         Cardinality(Asked(queue')) = Cardinality(Asked(queue))
  PROVE  IInv'
BY DEF IInv, RefCounts, OneBringUp

LEMMA StartStep ==
  ASSUME IInv, NEW u \in Users, NEW paused \in BOOLEAN, Start(u, paused)
  PROVE  IInv'
<1>1. TypeOK /\ user[u] = Idle /\ u \notin holders /\ u \notin Starting
  BY DEF IInv, Start, Free, Starting, In
<1>2. UNCHANGED <<queue, leaked>> /\ ref_counter' = ref_counter + 1 /\ ref_counter \in Nat
  BY DEF Start, inc_refcount, IInv, TypeOK
<1>3. /\ Cardinality(Asked(queue)) \in Nat /\ leaked \in Nat
      /\ Cardinality(holders) \in Nat /\ Cardinality(Starting) \in Nat
      /\ Cardinality(holders \cup {u}) = Cardinality(holders) + 1
      /\ Cardinality(Starting \cup {u}) = Cardinality(Starting) + 1
  BY <1>1, AskedIsFinite, UsersAreFinite, FS_AddElement DEF TypeOK
<1>4. CASE ref_counter' > 1
  <2>1. holders' = holders \cup {u} /\ UNCHANGED user /\ Starting' = Starting
    BY <1>4, <1>2 DEF Start, Starting, In
  <2>2. TypeOK'
    BY <1>1, <1>2, <2>1 DEF TypeOK, Start, parts
  <2> QED
    BY <1>1, <1>2, <1>3, <2>1, <2>2 DEF IInv, RefCounts, OneBringUp
<1>5. CASE ref_counter' <= 1
  <2> DEFINE v == [step |-> "assert", paused |-> paused]
  <2>1. user' = [user EXCEPT ![u] = v] /\ UNCHANGED holders
    BY <1>5, <1>2 DEF Start
  <2>2. v \in CallState /\ v.step \in StartSteps
    BY DEF CallState, StartSteps
  <2>3. Starting' = Starting \cup {u} /\ user' \in [Users -> {Idle} \cup CallState]
    BY <1>1, <2>1, <2>2, StartingChanges
  <2>4. TypeOK'
    BY <1>1, <1>2, <2>1, <2>3 DEF TypeOK, Start, parts
  <2> QED
    BY <1>1, <1>2, <1>3, <1>5, <2>1, <2>3, <2>4 DEF IInv, RefCounts, OneBringUp
<1> QED
  BY <1>2, <1>4, <1>5

\* The steps of start between the first and the last.
LEMMA BringUpStep ==
  ASSUME IInv, NEW u \in Users,
         \/ Assert(u) /\ state = "STOPPED"
         \/ StartExecutors(u) \/ StartStores(u) \/ SetState(u)
  PROVE  IInv'
<1>1. /\ In(u, StartSteps) /\ \E step \in StartSteps : Go(u, step)
      /\ UNCHANGED <<ref_counter, holders, leaked, queue>>
  BY DEF Assert, StartExecutors, StartStores, SetState, In, StartSteps, history
<1>2. Starting' = Starting /\ user' \in [Users -> {Idle} \cup CallState]
  BY <1>1, StartingGoesOn DEF IInv
<1>3. TypeOK'
  BY <1>1, <1>2 DEF IInv, TypeOK, Assert, StartExecutors, StartStores, SetState, parts, history
<1> QED
  BY <1>1, <1>2, <1>3, SameCounts

\* A start that raises: its reference is counted as leaked.
LEMMA RaiseStep ==
  ASSUME IInv, NEW u \in Users, (Assert(u) /\ state # "STOPPED") \/ FailToStart(u)
  PROVE  IInv'
<1>1. /\ In(u, StartSteps) /\ Return(u) /\ leaked' = leaked + 1
      /\ UNCHANGED <<ref_counter, holders, queue>>
  BY DEF Assert, FailToStart, In, StartSteps
<1>2. u \in Starting /\ TypeOK
  BY <1>1 DEF Starting, IInv
<1>3. Starting' = Starting \ {u} /\ user' \in [Users -> {Idle} \cup CallState]
  BY <1>1, <1>2, StartingChanges DEF Return
<1>4. TypeOK'
  <2>1. CASE Assert(u) /\ state # "STOPPED"
    <3>1. /\ asserted' = TRUE
          /\ UNCHANGED <<threads, state, executors, stored, pending_tasks, timer, loop, submitted>>
      BY <2>1 DEF Assert, parts
    <3>2. asserted' \in BOOLEAN
      BY <3>1
    <3> QED
      BY <1>1, <1>2, <1>3, <3>1, <3>2 DEF TypeOK
  <2>2. CASE FailToStart(u)
    <3>1. stored' \subseteq Tasks
      BY <1>2, <2>2 DEF TypeOK, FailToStart
    <3> QED
      BY <1>1, <1>2, <1>3, <2>2, <3>1 DEF TypeOK, FailToStart
  <2> QED
    BY <2>1, <2>2
<1>5. /\ Cardinality(Starting') = Cardinality(Starting) - 1
      /\ Cardinality(holders) \in Nat /\ Cardinality(Asked(queue)) \in Nat
      /\ Cardinality(Starting) \in Nat /\ leaked \in Nat
  BY <1>2, <1>3, UsersAreFinite, AskedIsFinite, FS_RemoveElement DEF TypeOK
<1> QED
  BY <1>1, <1>3, <1>4, <1>5 DEF IInv, RefCounts, OneBringUp

LEMMA EndStartStep ==
  ASSUME IInv, NEW u \in Users, EndStart(u)
  PROVE  IInv'
<1>1. /\ In(u, StartSteps) /\ Return(u) /\ holders' = holders \cup {u}
      /\ UNCHANGED <<ref_counter, leaked>>
      /\ queue' = queue \/ queue' = Append(queue, "wakeup")
  BY DEF EndStart, In, StartSteps, Enqueue
<1>2. u \in Starting /\ TypeOK /\ u \notin holders
  BY <1>1 DEF Starting, IInv
<1>3. Starting' = Starting \ {u} /\ user' \in [Users -> {Idle} \cup CallState]
  BY <1>1, <1>2, StartingChanges DEF Return
<1>4. TypeOK'
  BY <1>1, <1>2, <1>3 DEF TypeOK, EndStart, parts
<1>5. /\ Cardinality(Starting') = Cardinality(Starting) - 1
      /\ Cardinality(holders') = Cardinality(holders) + 1
      /\ Cardinality(holders) \in Nat /\ Cardinality(Starting) \in Nat /\ leaked \in Nat
  BY <1>1, <1>2, <1>3, UsersAreFinite, FS_RemoveElement, FS_AddElement DEF TypeOK
<1>6. /\ Cardinality(Asked(queue')) = Cardinality(Asked(queue))
      /\ Cardinality(Asked(queue)) \in Nat
  BY <1>1, <1>2, WakeupIsNotAsked DEF TypeOK
<1> QED
  BY <1>1, <1>3, <1>4, <1>5, <1>6 DEF IInv, RefCounts, OneBringUp

LEMMA ShutdownStep ==
  ASSUME IInv, NEW u \in Users, Shutdown(u)
  PROVE  IInv'
<1>1. /\ TypeOK /\ u \in holders /\ holders' = holders \ {u}
      /\ queue' = Append(queue, "_shutdown")
      /\ UNCHANGED <<ref_counter, leaked, user>> /\ Starting' = Starting
  BY DEF IInv, Shutdown, Enqueue, Starting, In
<1>2. TypeOK'
  BY <1>1 DEF TypeOK, Shutdown, parts
<1>3. /\ Cardinality(holders') = Cardinality(holders) - 1
      /\ Cardinality(holders) \in Nat /\ Cardinality(Starting) \in Nat /\ leaked \in Nat
  BY <1>1, UsersAreFinite, FS_RemoveElement DEF TypeOK
<1>4. /\ Cardinality(Asked(queue')) = Cardinality(Asked(queue)) + 1
      /\ Cardinality(Asked(queue)) \in Nat
  BY <1>1, AskedIsFinite, AskedAppend DEF TypeOK
<1> QED
  BY <1>1, <1>2, <1>3, <1>4 DEF IInv, RefCounts, OneBringUp

LEMMA DecrementStep ==
  ASSUME IInv, Decrement
  PROVE  IInv'
<1>1. /\ TypeOK /\ queue # <<>> /\ Head(queue) = "_shutdown" /\ queue' = Tail(queue)
      /\ ref_counter' = ref_counter - 1
      /\ UNCHANGED <<holders, leaked, user>> /\ Starting' = Starting
  BY DEF IInv, Decrement, decr_refcount, NextCallback, Starting, In
<1>2. /\ Cardinality(Asked(queue')) = Cardinality(Asked(queue)) - 1
      /\ Cardinality(Asked(queue')) \in Nat /\ Cardinality(Asked(queue)) \in Nat
      /\ Cardinality(holders) \in Nat /\ Cardinality(Starting) \in Nat /\ leaked \in Nat
  <2>1. Tail(queue) \in Seq({"wakeup", "_shutdown"})
    BY <1>1 DEF TypeOK
  <2> QED
    BY <1>1, <2>1, AskedIsFinite, AskedTail, UsersAreFinite DEF TypeOK
<1>3. RefCounts'
  BY <1>1, <1>2 DEF IInv, RefCounts
<1>4. ref_counter' \in Nat
  BY <1>1, <1>2, <1>3 DEF RefCounts
<1>5. TypeOK'
  BY <1>1, <1>4 DEF TypeOK, Decrement, NextCallback, parts
<1> QED
  BY <1>1, <1>3, <1>5 DEF IInv, OneBringUp

\* The steps of the loop that follow Decrement, and the round.
LEMMA CallbackStep ==
  ASSUME IInv, Stop \/ StopParts \/ StopTimer \/ Round
  PROVE  IInv'
<1>1. /\ TypeOK /\ UNCHANGED <<ref_counter, holders, leaked, user>> /\ Starting' = Starting
      /\ \/ UNCHANGED queue
         \/ queue # <<>> /\ Head(queue) = "wakeup" /\ queue' = Tail(queue)
  BY DEF IInv, Stop, StopParts, StopTimer, Round, NextCallback, Starting, In, history
<1>2. TypeOK'
  <2>1. CASE Stop \/ StopParts
    BY <1>1, <2>1 DEF TypeOK, Stop, StopParts, parts, history
  <2>2. CASE StopTimer \/ Round
    <3>1. timer' \in BOOLEAN
      BY <2>2 DEF StopTimer, Round
    <3>2. UNCHANGED <<threads, state, executors, stored, pending_tasks, submitted, asserted>>
      BY <2>2 DEF StopTimer, Round, parts, history
    <3>3. loop' \in {"idle", "check", "parts", "timer"}
      BY <1>1, <2>2 DEF TypeOK, StopTimer, Round
    <3> QED
      BY <1>1, <3>1, <3>2, <3>3 DEF TypeOK
  <2> QED
    BY <2>1, <2>2
<1>3. Cardinality(Asked(queue)) \in Nat
  BY <1>1, AskedIsFinite DEF TypeOK
<1>4. Cardinality(Asked(queue')) = Cardinality(Asked(queue))
  <2>1. CASE queue # <<>> /\ Head(queue) = "wakeup" /\ queue' = Tail(queue)
    BY <1>1, <1>3, <2>1, AskedTail DEF TypeOK
  <2>2. CASE UNCHANGED queue
    BY <2>2
  <2> QED
    BY <1>1, <2>1, <2>2
<1> QED
  BY <1>1, <1>2, <1>4, SameCounts

\* The calls that change the tasks.
LEMMA TaskSteps ==
  ASSUME IInv, NEW u \in Users, NEW t \in Tasks, AddTask(u, t) \/ DeleteTask(u, t)
  PROVE  IInv'
<1>1. /\ TypeOK /\ UNCHANGED <<ref_counter, holders, leaked, user>> /\ Starting' = Starting
      /\ queue' = queue \/ queue' = Append(queue, "wakeup")
  BY DEF IInv, AddTask, DeleteTask, Enqueue, Starting, In, history
<1>2. TypeOK'
  <2>1. CASE AddTask(u, t)
    BY <1>1, <2>1 DEF TypeOK, AddTask
  <2>2. CASE DeleteTask(u, t)
    BY <1>1, <2>2 DEF TypeOK, DeleteTask, history
  <2> QED
    BY <2>1, <2>2
<1>3. Cardinality(Asked(queue')) = Cardinality(Asked(queue))
  BY <1>1, WakeupIsNotAsked DEF TypeOK
<1> QED
  BY <1>1, <1>2, <1>3, SameCounts

\* A user that pauses or resumes is not starting, before and after.
LEMMA PauseSteps ==
  ASSUME IInv, NEW u \in Users, Pause(u) \/ Resume(u) \/ EndPause(u) \/ EndResume(u)
  PROVE  IInv'
<1>1. /\ TypeOK /\ UNCHANGED <<ref_counter, holders, leaked>> /\ u \notin Starting
      /\ queue' = queue \/ queue' = Append(queue, "wakeup")
  BY DEF IInv, Pause, Resume, EndPause, EndResume, ReadState, Free, Enqueue, Starting, In,
         StartSteps, history
<1>2. PICK v \in {Idle} \cup CallState :
        user' = [user EXCEPT ![u] = v] /\ (v = Idle \/ v.step \notin StartSteps)
  <2>1. CASE Pause(u) \/ Resume(u)
    <3>1. PICK step \in {"pause", "resume"} :
            user' = [user EXCEPT ![u] = [step |-> step, paused |-> FALSE]]
      BY <2>1 DEF Pause, Resume, ReadState
    <3>2. [step |-> step, paused |-> FALSE] \in CallState /\ step \notin StartSteps
      BY DEF CallState, StartSteps
    <3> DEFINE v == [step |-> step, paused |-> FALSE]
    <3>3. v \in {Idle} \cup CallState /\ v.step \notin StartSteps
      BY <3>2
    <3> HIDE DEF v
    <3> QED
      BY <3>1, <3>3 DEF v
  <2>2. CASE EndPause(u) \/ EndResume(u)
    BY <2>2 DEF EndPause, EndResume, Return
  <2> QED
    BY <2>1, <2>2
<1>3. Starting' = Starting \ {u} /\ user' \in [Users -> {Idle} \cup CallState]
  BY <1>1, <1>2, StartingChanges
<1>4. TypeOK'
  BY <1>1, <1>3 DEF TypeOK, Pause, Resume, EndPause, EndResume, ReadState, parts, history
<1>5. Cardinality(Asked(queue')) = Cardinality(Asked(queue))
  BY <1>1, WakeupIsNotAsked DEF TypeOK
<1>6. Starting' = Starting
  BY <1>1, <1>3
<1> QED
  BY <1>1, <1>4, <1>5, <1>6, SameCounts

-----------------------------------------------------------------------------
(* The theorems *)

LEMMA InitIInv == Init => IInv
<1> SUFFICES ASSUME Init PROVE IInv
  OBVIOUS
<1>1. TypeOK
  <2>1. timer \in BOOLEAN /\ asserted \in BOOLEAN
    BY DEF Init
  <2>2. user \in [Users -> {Idle} \cup CallState] /\ queue \in Seq({"wakeup", "_shutdown"})
    BY DEF Init
  <2>3. /\ threads \in Threads /\ ref_counter \in Nat /\ leaked \in Nat /\ loop = "idle"
        /\ state = "STOPPED" /\ executors = "down"
        /\ stored = {} /\ pending_tasks = {} /\ submitted = {} /\ holders = {}
    BY DEF Init
  <2> QED
    BY <2>1, <2>2, <2>3 DEF TypeOK
<1>2. Starting = {} /\ Asked(queue) = {} /\ holders = {} /\ leaked = 0 /\ ref_counter = 0
  BY DEF Init, Starting, In, Asked
<1>3. Cardinality({}) = 0
  BY FS_EmptySet
<1> QED
  BY <1>1, <1>2, <1>3 DEF IInv, RefCounts, OneBringUp

LEMMA StepIInv == IInv /\ [Next]_vars => IInv'
<1> SUFFICES ASSUME IInv, [Next]_vars PROVE IInv'
  OBVIOUS
<1>1. CASE Callbacks
  BY <1>1, DecrementStep, CallbackStep DEF Callbacks
<1>2. CASE FireTimer \/ UNCHANGED vars
  <2>1. TypeOK
    BY DEF IInv
  <2>2. Starting' = Starting /\ (queue' = queue \/ queue' = Append(queue, "wakeup"))
    BY <1>2 DEF FireTimer, Enqueue, vars, Starting, In
  <2>3. TypeOK' /\ UNCHANGED <<ref_counter, holders, leaked>>
    <3>1. /\ UNCHANGED <<threads, ref_counter, state, executors, stored, pending_tasks, loop,
                          user, holders, leaked, submitted, asserted>>
          /\ timer' = FALSE \/ timer' = timer
      BY <1>2 DEF FireTimer, vars, parts, history
    <3>2. timer' \in BOOLEAN
      BY <2>1, <3>1 DEF TypeOK
    <3> QED
      BY <2>1, <2>2, <3>1, <3>2 DEF TypeOK
  <2>4. Cardinality(Asked(queue')) = Cardinality(Asked(queue))
    BY <2>1, <2>2, WakeupIsNotAsked DEF TypeOK
  <2> QED
    BY <2>2, <2>3, <2>4, SameCounts
<1>3. ASSUME NEW u \in Users, Call(u) PROVE IInv'
  BY <1>3, StartStep, ShutdownStep, PauseSteps, TaskSteps DEF Call
<1>4. ASSUME NEW u \in Users, Continued(u) PROVE IInv'
  BY <1>4, BringUpStep, RaiseStep, EndStartStep, PauseSteps DEF Continued
<1> QED
  BY <1>1, <1>2, <1>3, <1>4 DEF Next

\* The reference counter is exact in every state: the users that hold the
\* scheduler, those that are starting it, the shutdowns that wait in the loop
\* and the starts that raised (schedulers/base.py:176-190).
THEOREM ReferencesAreCounted == Spec => []RefCounts
<1>1. IInv => RefCounts
  BY DEF IInv
<1> QED
  BY <1>1, InitIInv, StepIInv, PTL DEF Spec

\* At most one user at a time is between inc_refcount and the end of start
\* (schedulers/base.py:192-236).
THEOREM BringUpIsExclusive == Spec => []OneBringUp
<1>1. IInv => OneBringUp
  BY DEF IInv
<1> QED
  BY <1>1, InitIInv, StepIInv, PTL DEF Spec

\* The counter is a natural number in every state, also when shutdowns and
\* starts meet that raise, and users, queue and loop are where the code can be.
THEOREM LifecycleTypes == Spec => []TypeOK
<1>1. IInv => TypeOK
  BY DEF IInv
<1> QED
  BY <1>1, InitIInv, StepIInv, PTL DEF Spec

-----------------------------------------------------------------------------
(* Users on the loop's own thread *)

\* One call or one chain of callbacks is on its way at a time.
Alone ==
  /\ loop # "idle" => \A u \in Users : user[u] = Idle
  /\ \A u, v \in Users : user[u] # Idle /\ user[v] # Idle => u = v

\* A scheduler that is up has references, executors and no pending tasks; a
\* user finds it stopped up to the moment in which it brings it up.
Upright ==
  /\ loop # "idle" => ref_counter = 0
  /\ loop \in {"parts", "timer"} => state = "STOPPED"
  /\ state # "STOPPED" => /\ executors = "up" /\ pending_tasks = {}
                          /\ loop = "idle" => ref_counter > 0
  /\ \A u \in Users : user[u] # Idle =>
       /\ user[u].step \in {"assert", "executors", "stores", "state"} <=> state = "STOPPED"
       /\ user[u].step \in StartSteps => ref_counter > 0
       /\ user[u].step \in {"stores", "state"} => executors = "up"
       /\ user[u].step = "state" => pending_tasks = {}
  /\ ~asserted

\* Of a stopped scheduler nothing is up but what is on its way, up or down, as
\* long as no start has raised.
Cleared ==
  /\ ref_counter = 0 \/ \E u \in Users : In(u, StartSteps)
  /\ executors = "up" => loop = "parts" \/ \E u \in Users : In(u, {"stores", "state"})
  /\ stored # {} => loop = "parts" \/ \E u \in Users : In(u, {"state"})
  /\ timer => loop \in {"parts", "timer"}

OnLoop == Alone /\ Upright /\ (leaked = 0 /\ state = "STOPPED" => Cleared)
LoopInv == ~threads => OnLoop

\* The user whose call is on its way is alone, and so is one that begins.
LEMMA AloneInCall ==
  ASSUME ~threads, OnLoop, NEW u \in Users, user[u] # Idle \/ Free(u)
  PROVE  loop = "idle" /\ \A v \in Users : v # u => user[v] = Idle
BY DEF OnLoop, Alone, Free, NoneElse

LEMMA UserGoes ==
  ASSUME TypeOK, NEW u \in Users, NEW w \in CallState, user' = [user EXCEPT ![u] = w],
         loop = "idle", loop' = loop, \A v \in Users : v # u => user[v] = Idle
  PROVE  /\ Alone' /\ user'[u] = w /\ w # Idle
         /\ \A v \in Users : user'[v] # Idle => v = u
BY LifecycleAssumption DEF TypeOK, Alone

LEMMA UserReturns ==
  ASSUME TypeOK, NEW u \in Users, Return(u), loop' = loop,
         \A v \in Users : v # u => user[v] = Idle
  PROVE  Alone' /\ \A v \in Users : user'[v] = Idle
BY DEF TypeOK, Alone, Return

\* A call that goes on to its next step.
LEMMA GoesToStep ==
  ASSUME TypeOK, ~threads, OnLoop, NEW u \in Users, user[u] # Idle, NEW step \in StartSteps,
         Go(u, step), loop' = loop
  PROVE  /\ Alone' /\ loop = "idle" /\ user'[u] # Idle /\ user'[u].step = step
         /\ user'[u].paused = user[u].paused
         /\ \A v \in Users : user'[v] # Idle => v = u
<1> DEFINE w == [user[u] EXCEPT !.step = step]
<1>1. w \in CallState /\ w.step = step /\ w.paused = user[u].paused
  BY DEF TypeOK, CallState
<1>2. user' = [user EXCEPT ![u] = w]
  BY DEF Go
<1>3. loop = "idle" /\ \A v \in Users : v # u => user[v] = Idle
  BY AloneInCall
<1> HIDE DEF w
<1> QED
  BY <1>1, <1>2, <1>3, UserGoes

LEMMA StartOnLoop ==
  ASSUME TypeOK, ~threads, OnLoop, NEW u \in Users, NEW paused \in BOOLEAN, Start(u, paused)
  PROVE  OnLoop'
<1>1. loop = "idle" /\ (\A v \in Users : user[v] = Idle) /\ ref_counter' = ref_counter + 1
      /\ ref_counter \in Nat
  BY AloneInCall DEF Start, Free, inc_refcount, TypeOK
<1>2. UNCHANGED <<state, executors, stored, pending_tasks, timer, loop, leaked, asserted>>
  BY DEF Start, parts
<1>3. CASE ref_counter' > 1
  <2>1. UNCHANGED user /\ ref_counter > 0
    BY <1>1, <1>3 DEF Start
  <2>2. leaked = 0 /\ state = "STOPPED" => FALSE
    BY <1>1, <2>1 DEF OnLoop, Cleared, In
  <2> QED
    BY <1>1, <1>2, <2>1, <2>2 DEF OnLoop, Alone, Upright
<1>4. CASE ref_counter' <= 1
  <2> DEFINE w == [step |-> "assert", paused |-> paused]
  <2>1. user' = [user EXCEPT ![u] = w] /\ w \in CallState /\ w.step = "assert"
    BY <1>1, <1>4 DEF Start, CallState, StartSteps
  <2> HIDE DEF w
  <2>2. Alone' /\ user'[u] = w /\ w # Idle /\ \A v \in Users : user'[v] # Idle => v = u
    BY <1>1, <1>2, <2>1, UserGoes
  <2>3. ref_counter = 0 /\ state = "STOPPED" /\ ref_counter' > 0
    BY <1>1, <1>4 DEF OnLoop, Upright
  <2>4. Upright'
    BY <1>1, <1>2, <2>1, <2>2, <2>3 DEF OnLoop, Upright, StartSteps
  <2>5. leaked = 0 => Cleared'
    BY <1>1, <1>2, <2>1, <2>2, <2>3 DEF OnLoop, Cleared, In, StartSteps
  <2> QED
    BY <1>2, <2>2, <2>4, <2>5 DEF OnLoop
<1> QED
  BY <1>1, <1>3, <1>4

LEMMA BringUpOnLoop ==
  ASSUME TypeOK, ~threads, OnLoop, NEW u \in Users,
         Assert(u) \/ StartExecutors(u) \/ StartStores(u) \/ SetState(u)
  PROVE  OnLoop'
<1>1. user[u] # Idle /\ user[u].step \in {"assert", "executors", "stores", "state"}
      /\ state = "STOPPED" /\ ref_counter > 0 /\ loop = "idle"
      /\ UNCHANGED <<loop, ref_counter>>
  BY AloneInCall DEF Assert, StartExecutors, StartStores, SetState, In, OnLoop, Upright,
                     StartSteps
<1>2. UNCHANGED <<leaked, asserted, timer>>
  BY <1>1 DEF Assert, StartExecutors, StartStores, SetState, history
<1>3. PICK step \in {"executors", "stores", "state", "wakeup"} : Go(u, step)
  BY <1>1 DEF Assert, StartExecutors, StartStores, SetState
<1>4. /\ Alone' /\ user'[u] # Idle /\ user'[u].step = step
      /\ \A v \in Users : user'[v] # Idle => v = u
  BY <1>1, <1>3, GoesToStep DEF StartSteps
<1>5. user[u] \in CallState /\ \A v \in Users : v # u => user[v] = Idle
  BY <1>1, AloneInCall DEF TypeOK
<1>6. CASE Assert(u)
  <2>1. step = "executors" /\ user[u].step = "assert"
        /\ UNCHANGED <<state, executors, stored, pending_tasks>>
    BY <1>1, <1>3, <1>4, <1>5, <1>6 DEF Assert, Go, In, parts, TypeOK, CallState
  <2>2. Upright'
    BY <1>1, <1>2, <1>4, <2>1 DEF OnLoop, Upright, StartSteps
  <2>3. leaked = 0 => Cleared'
    BY <1>1, <1>2, <1>4, <1>5, <2>1 DEF OnLoop, Cleared, In, StartSteps
  <2> QED
    BY <1>2, <1>4, <2>2, <2>3 DEF OnLoop
<1>7. CASE StartExecutors(u)
  <2>1. step = "stores" /\ user[u].step = "executors" /\ executors' = "up"
        /\ UNCHANGED <<state, stored, pending_tasks>>
    BY <1>1, <1>3, <1>4, <1>5, <1>7 DEF StartExecutors, Go, In, TypeOK, CallState
  <2>2. Upright'
    BY <1>1, <1>2, <1>4, <2>1 DEF OnLoop, Upright, StartSteps
  <2>3. leaked = 0 => Cleared'
    BY <1>1, <1>2, <1>4, <1>5, <2>1 DEF OnLoop, Cleared, In, StartSteps
  <2> QED
    BY <1>2, <1>4, <2>2, <2>3 DEF OnLoop
<1>8. CASE StartStores(u)
  <2>1. step = "state" /\ user[u].step = "stores" /\ pending_tasks' = {}
        /\ UNCHANGED <<state, executors>>
    BY <1>1, <1>3, <1>4, <1>5, <1>8 DEF StartStores, Go, In, TypeOK, CallState
  <2>2. Upright'
    BY <1>1, <1>2, <1>4, <2>1 DEF OnLoop, Upright, StartSteps
  <2>3. leaked = 0 => Cleared'
    BY <1>1, <1>2, <1>4, <1>5, <2>1 DEF OnLoop, Cleared, In, StartSteps
  <2> QED
    BY <1>2, <1>4, <2>2, <2>3 DEF OnLoop
<1>9. CASE SetState(u)
  <2>1. step = "wakeup" /\ user[u].step = "state" /\ state' # "STOPPED"
        /\ UNCHANGED <<executors, pending_tasks>>
    BY <1>1, <1>3, <1>4, <1>5, <1>9 DEF SetState, Go, In, parts, TypeOK, CallState
  <2>2. Upright'
    BY <1>1, <1>2, <1>4, <2>1 DEF OnLoop, Upright, StartSteps
  <2> QED
    BY <1>4, <2>1, <2>2 DEF OnLoop
<1> QED
  BY <1>6, <1>7, <1>8, <1>9

\* The ends of calls.
LEMMA ReturnOnLoop ==
  ASSUME TypeOK, ~threads, OnLoop, NEW u \in Users,
         FailToStart(u) \/ EndStart(u) \/ EndPause(u) \/ EndResume(u)
  PROVE  OnLoop'
<1>1. /\ user[u] # Idle /\ Return(u) /\ loop' = loop /\ loop = "idle" /\ ref_counter' = ref_counter
      /\ \A v \in Users : user'[v] = Idle
      /\ Alone'
  <2>1. user[u] # Idle /\ Return(u) /\ loop' = loop /\ ref_counter' = ref_counter
    BY DEF FailToStart, EndStart, EndPause, EndResume, In
  <2>2. loop = "idle" /\ \A v \in Users : v # u => user[v] = Idle
    BY <2>1, AloneInCall
  <2> QED
    BY <2>1, <2>2, UserReturns
<1>2. CASE FailToStart(u)
  <2>1. state = "STOPPED" /\ UNCHANGED <<state, asserted>> /\ leaked' > 0
    BY <1>2 DEF FailToStart, In, OnLoop, Upright, TypeOK
  <2> QED
    BY <1>1, <2>1 DEF OnLoop, Upright
<1>3. CASE EndStart(u) \/ EndPause(u) \/ EndResume(u)
  <2>1. state # "STOPPED" /\ state' # "STOPPED" /\ UNCHANGED <<executors, pending_tasks, asserted>>
    BY <1>3 DEF EndStart, EndPause, EndResume, In, OnLoop, Upright, parts, history
  <2> QED
    BY <1>1, <2>1 DEF OnLoop, Upright
<1> QED
  BY <1>2, <1>3

\* The calls that are over at once, and the first steps of pause and resume.
LEMMA CallsOnLoop ==
  ASSUME TypeOK, ~threads, OnLoop, NEW u \in Users,
         \/ Shutdown(u) \/ Pause(u) \/ Resume(u)
         \/ \E t \in Tasks : AddTask(u, t) \/ DeleteTask(u, t)
  PROVE  OnLoop'
<1>1. /\ loop = "idle" /\ \A v \in Users : user[v] = Idle
      /\ UNCHANGED <<loop, ref_counter, state, executors, timer, leaked, asserted>>
  BY AloneInCall DEF Shutdown, Pause, Resume, ReadState, AddTask, DeleteTask, Free, parts, history
<1>2. CASE Shutdown(u) \/ \E t \in Tasks : AddTask(u, t) \/ DeleteTask(u, t)
  <2>1. /\ UNCHANGED user
        /\ state # "STOPPED" /\ pending_tasks = {} => pending_tasks' = {}
        /\ state = "STOPPED" => UNCHANGED stored
    BY <1>2 DEF Shutdown, AddTask, DeleteTask, parts
  <2> QED
    BY <1>1, <2>1 DEF OnLoop, Alone, Upright, Cleared, In
<1>3. CASE Pause(u) \/ Resume(u)
  <2>1. PICK step \in {"pause", "resume"} :
          user' = [user EXCEPT ![u] = [step |-> step, paused |-> FALSE]]
    BY <1>3 DEF Pause, Resume, ReadState
  <2> DEFINE w == [step |-> step, paused |-> FALSE]
  <2>2. w \in CallState /\ w.step = step
    BY DEF CallState
  <2>3. state # "STOPPED" /\ UNCHANGED pending_tasks
    BY <1>3 DEF Pause, Resume, ReadState, parts
  <2>4. user' = [user EXCEPT ![u] = w]
    BY <2>1
  <2> HIDE DEF w
  <2>5. Alone' /\ user'[u] = w /\ w # Idle /\ \A v \in Users : user'[v] # Idle => v = u
    BY <1>1, <2>2, <2>4, UserGoes
  <2> QED
    BY <1>1, <2>2, <2>3, <2>5 DEF OnLoop, Upright, StartSteps
<1> QED
  BY <1>2, <1>3

LEMMA CallbacksOnLoop ==
  ASSUME TypeOK, ref_counter' \in Nat, ~threads, OnLoop, Callbacks \/ FireTimer
  PROVE  OnLoop'
<1>1. UNCHANGED <<user, leaked, asserted, pending_tasks>>
  BY DEF Callbacks, Decrement, Stop, StopParts, StopTimer, Round, FireTimer, parts, history
<1>2. CASE Decrement
  <2>1. /\ loop = "idle" /\ (\A v \in Users : user[v] = Idle)
        /\ UNCHANGED <<state, executors, stored, timer>>
        /\ loop' = IF ref_counter' > 0 THEN "idle" ELSE "check"
        /\ ref_counter' = ref_counter - 1
    BY <1>2 DEF Decrement, NextCallback, LoopsTurn, decr_refcount, parts
  <2>2. leaked = 0 /\ state = "STOPPED" => ref_counter = 0
    BY <2>1 DEF OnLoop, Cleared, In
  <2>3. ~(leaked = 0 /\ state = "STOPPED")
    BY <2>1, <2>2
  <2>4. Alone'
    BY <1>1, <2>1 DEF Alone
  <2>5. Upright'
    <3>1. loop' \in {"idle", "check"} /\ (loop' # "idle" => ref_counter' = 0)
      <4>1. ref_counter \in Nat
        BY DEF TypeOK
      <4> QED
        BY <2>1, <4>1
    <3>2. loop' = "idle" => ref_counter' > 0
      BY <2>1
    <3>3. \A u \in Users : user'[u] = Idle
      BY <1>1, <2>1
    <3> QED
      BY <1>1, <2>1, <3>1, <3>2, <3>3 DEF OnLoop, Upright
  <2> QED
    BY <1>1, <2>1, <2>3, <2>4, <2>5 DEF OnLoop
<1>3. CASE Stop
  BY <1>1, <1>3 DEF Stop, OnLoop, Alone, Upright, Cleared, parts, In
<1>4. CASE StopParts
  BY <1>1, <1>4 DEF StopParts, OnLoop, Alone, Upright, Cleared, In
<1>5. CASE StopTimer
  BY <1>1, <1>5 DEF StopTimer, OnLoop, Alone, Upright, Cleared, parts, In
<1>6. CASE Round
  BY <1>1, <1>6 DEF Round, NextCallback, LoopsTurn, OnLoop, Alone, Upright, Cleared, parts, In
<1>7. CASE FireTimer
  BY <1>1, <1>7 DEF FireTimer, OnLoop, Alone, Upright, Cleared, parts, In
<1> QED
  BY <1>2, <1>3, <1>4, <1>5, <1>6, <1>7 DEF Callbacks

LEMMA StepOnLoop == IInv /\ LoopInv /\ [Next]_vars => LoopInv'
<1> SUFFICES ASSUME IInv, LoopInv, [Next]_vars PROVE LoopInv'
  OBVIOUS
<1>1. TypeOK /\ TypeOK' /\ ref_counter' \in Nat
  BY StepIInv DEF IInv, TypeOK
<1>2. threads' = threads
  BY DEF Next, vars, Callbacks, Decrement, Stop, StopParts, StopTimer, Round, FireTimer, Call,
         Continued, Start, Shutdown, Pause, Resume, ReadState, AddTask, DeleteTask, Assert,
         StartExecutors, StartStores, FailToStart, SetState, EndStart, EndPause, EndResume
<1> SUFFICES ASSUME ~threads PROVE OnLoop'
  BY <1>2 DEF LoopInv
<1>3. OnLoop
  BY DEF LoopInv
<1>4. CASE UNCHANGED vars
  BY <1>3, <1>4 DEF vars, parts, history, OnLoop, Alone, Upright, Cleared, In
<1>5. ASSUME NEW u \in Users, Call(u) PROVE OnLoop'
  BY <1>1, <1>3, <1>5, StartOnLoop, CallsOnLoop DEF Call
<1>6. ASSUME NEW u \in Users, Continued(u) PROVE OnLoop'
  BY <1>1, <1>3, <1>6, BringUpOnLoop, ReturnOnLoop DEF Continued
<1> QED
  BY <1>1, <1>3, <1>4, <1>5, <1>6, CallbacksOnLoop DEF Next

LEMMA InitOnLoop == Init => LoopInv
<1> SUFFICES ASSUME Init PROVE OnLoop
  BY DEF LoopInv
<1> QED
  BY DEF Init, OnLoop, Alone, Upright, Cleared

\* What a quiet scheduler is.
LEMMA QuietLoop ==
  ASSUME IInv, LoopInv, ~threads, Quiet, leaked = 0
  PROVE  /\ state # "STOPPED" <=> holders # {}
         /\ executors = "up" <=> holders # {}
         /\ state = "STOPPED" => ~timer /\ stored = {}
<1>1. loop = "idle" /\ OnLoop /\ \A u \in Users : user[u] = Idle
  BY DEF Quiet, LoopInv
<1>2. Starting = {} /\ Asked(queue) = {}
  BY <1>1 DEF Starting, In, Quiet, Asked
<1>3. ref_counter = Cardinality(holders) /\ IsFiniteSet(holders) /\ ref_counter \in Nat
  <2>1. Cardinality({}) = 0 /\ IsFiniteSet(holders) /\ Cardinality(holders) \in Nat
    BY FS_EmptySet, UsersAreFinite DEF IInv
  <2> QED
    BY <1>2, <2>1 DEF IInv, RefCounts
<1>4. ref_counter = 0 <=> holders = {}
  BY <1>3, FS_EmptySet
<1>5. state # "STOPPED" => ref_counter # 0 /\ executors = "up"
  BY <1>1, <1>3 DEF OnLoop, Upright
<1>6. state = "STOPPED" => ref_counter = 0 /\ executors # "up" /\ stored = {} /\ ~timer
  BY <1>1 DEF OnLoop, Cleared, In
<1> QED
  BY <1>4, <1>5, <1>6

\* On one thread a scheduler that has come to rest is up exactly while somebody
\* holds it, and nothing of a stopped one is left (schedulers/base.py:176-301,
\* schedulers/asyncio.py:59-74), for any number of users and tasks.
THEOREM HeldMeansUp == Spec => []UpWhileHeld
<1>1. IInv /\ LoopInv => UpWhileHeld
  BY QuietLoop DEF UpWhileHeld
<1> QED
  BY <1>1, InitIInv, StepIInv, InitOnLoop, StepOnLoop, PTL DEF Spec

\* On one thread no task is left among the pending ones of a scheduler that is
\* up (schedulers/base.py:216-228, 589-604).
THEOREM NothingStaysPending == Spec => []PendingAreScheduledOnLoop
<1>1. LoopInv => PendingAreScheduledOnLoop
  BY DEF LoopInv, OnLoop, Upright, PendingAreScheduledOnLoop, PendingAreScheduled
<1> QED
  BY <1>1, InitIInv, StepIInv, InitOnLoop, StepOnLoop, PTL DEF Spec

\* On one thread the reference counter protects the assertion of start
\* (schedulers/base.py:201).
THEOREM AssertionIsProtected == Spec => []AssertionHoldsOnLoop
<1>1. LoopInv => AssertionHoldsOnLoop
  BY DEF LoopInv, OnLoop, Upright, AssertionHoldsOnLoop, AssertionHolds
<1> QED
  BY <1>1, InitIInv, StepIInv, InitOnLoop, StepOnLoop, PTL DEF Spec
==============================================================================
