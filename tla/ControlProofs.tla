---------------------------- MODULE ControlProofs ------------------------------
(***************************************************************************)
(* What a scheduler is asked to do from outside: the requests to the       *)
(* dashboard and the commands of the CLI.                                  *)
(*                                                                         *)
(* The audit trail of the dashboard says what the worker did.  The         *)
(* invariant is BoardInv: every call on its way is that of the task its    *)
(* request is at and has no answer yet, every answer tells what was        *)
(* carried out, and every entry is behind its request.  That a request     *)
(* names no task twice, without which a second failure would contradict    *)
(* the first success, is the theorem on Deduplicated.                      *)
(*                                                                         *)
(* A command does what it says it did.  CommandInv follows the coroutine   *)
(* of run through the callbacks of the loop: until it has begun it is      *)
(* queued before the shutdown that would cancel it and before the loop's   *)
(* end.  StarterInv counts what holds each generation of asyncz start up:  *)
(* a reference for every shutdown that the loop has not got to, and one    *)
(* for the current generation.                                             *)
(***************************************************************************)
EXTENDS Dashboard, CommandLine, Integers, FunctionTheorems, SequenceTheorems, FiniteSetTheorems, WellFoundedInduction, TLAPS

-----------------------------------------------------------------------------
(* The list of a form, without its duplicates *)

\* Lists in which no id comes twice.
OnceEach(S) == {q \in Seq(S) : \A i, k \in DOMAIN q : q[i] = q[k] => i = k}

\* Among subsets of a finite set there is one that has no other below it: what
\* the inductions of this part are made of.
HasSmallest(X) == \E s \in X : \A t \in X : t \subseteq s => t = s
LEMMA SmallestSubset ==
  ASSUME NEW S, IsFiniteSet(S), NEW X \in SUBSET SUBSET S, X # {}
  PROVE  HasSmallest(X)
<1>1. IsWellFoundedOn(StrictSubsetOrdering(S), SUBSET S)
  BY FS_StrictSubsetOrderingWellFounded, FS_FiniteSubsetsOfFinite
<1>2. PICK s \in X : \A t \in X : <<t, s>> \notin StrictSubsetOrdering(S)
  BY <1>1, WFMin
<1>3. ASSUME NEW t \in X, t \subseteq s, t # s
      PROVE  FALSE
  <2>1. t \in FiniteSubsetsOf(S) /\ s \in FiniteSubsetsOf(S)
    BY FS_FiniteSubsetsOfFinite
  <2>2. <<t, s>> \in StrictSubsetOrdering(S)
    BY <1>3, <2>1 DEF StrictSubsetOrdering
  <2> QED
    BY <1>2, <2>2
<1> QED
  BY <1>3 DEF HasSmallest

LEMMA MaxExists ==
  ASSUME NEW D, IsFiniteSet(D), D \subseteq Nat, NEW T \in SUBSET D, T # {}
  PROVE  Max(T) \in T /\ \A y \in T : Max(T) >= y
<1> DEFINE HasMax(s) == \E x \in s : \A y \in s : x >= y
           X == {s \in SUBSET D : s # {} /\ ~HasMax(s)}
<1>1. X = {}
  <2> SUFFICES ASSUME X # {}
               PROVE  FALSE
    OBVIOUS
  <2>1. X \subseteq SUBSET D
    OBVIOUS
  <2>0. HasSmallest(X)
    <3> HIDE DEF X
    <3> QED
      BY <2>1, SmallestSubset
  <2>2. PICK s \in X : \A t \in X : t \subseteq s => t = s
    BY <2>0 DEF HasSmallest
  <2>3. PICK x \in s : TRUE
    OBVIOUS
  <2>4. x \in Nat /\ s \subseteq Nat
    OBVIOUS
  <2>5. CASE s = {x}
    BY <2>4, <2>5
  <2>6. CASE s # {x}
    <3>1. s \ {x} # {} /\ s \ {x} \in SUBSET D /\ s \ {x} # s
      BY <2>6
    <3>2. HasMax(s \ {x})
      BY <2>2, <3>1
    <3>3. PICK y \in s \ {x} : \A z \in s \ {x} : y >= z
      BY <3>2
    <3>4. y \in Nat /\ \A z \in s : z \in Nat
      BY <2>4
    <3>5. CASE y >= x
      BY <3>3, <3>5
    <3>6. CASE ~(y >= x)
      BY <2>4, <3>3, <3>4, <3>6
    <3> QED
      BY <3>5, <3>6
  <2> QED
    BY <2>5, <2>6
<1>2. HasMax(T)
  BY <1>1
<1> QED
  BY <1>2 DEF Max

\* One turn of the loop: of the elements s of the list, all but the last are
\* done, with result f.
Turn(f, ids, s) ==
  IF s = {} THEN <<>>
  ELSE IF ids[Max(s)] \in ToSet(f[s \ {Max(s)}]) THEN f[s \ {Max(s)}]
       ELSE Append(f[s \ {Max(s)}], ids[Max(s)])

LEMMA LoopIsFold ==
  ASSUME NEW ids
  PROVE  Deduplicated(ids) = (CHOOSE f : f = [s \in SUBSET DOMAIN ids |-> Turn(f, ids, s)])[DOMAIN ids]
BY DEF Deduplicated, FoldLeft, MapThenFoldSet, Turn

\* The loop comes to a result.
LEMMA LoopEnds ==
  ASSUME NEW S, NEW ids \in Seq(S)
  PROVE  \E f : f = [s \in SUBSET DOMAIN ids |-> Turn(f, ids, s)]
<1> DEFINE Ends(T) == \E g : g = [s \in SUBSET T |-> Turn(g, ids, s)]
           D == DOMAIN ids
           X == {T \in SUBSET D : ~Ends(T)}
<1>1. IsFiniteSet(D) /\ D \subseteq Nat
  BY FS_Interval
<1> HIDE DEF D
<1>2. X = {}
  <2> SUFFICES ASSUME X # {}
               PROVE  FALSE
    OBVIOUS
  <2>1. X \subseteq SUBSET D
    OBVIOUS
  <2>0. HasSmallest(X)
    <3> HIDE DEF X
    <3> QED
      BY <1>1, <2>1, SmallestSubset
  <2>2. PICK T \in X : \A t \in X : t \subseteq T => t = T
    BY <2>0 DEF HasSmallest
  <2>3. CASE T = {}
    <3> DEFINE g == [s \in SUBSET {} |-> <<>>]
    <3>1. g = [s \in SUBSET {} |-> Turn(g, ids, s)]
      BY DEF Turn
    <3> QED
      BY <2>3, <3>1
  <2>4. CASE T # {}
    <3> DEFINE x == Max(T)
               R == T \ {x}
    <3>1. x \in T /\ \A y \in T : x >= y
      BY <1>1, <2>4, MaxExists
    <3>2. R \in SUBSET D /\ R \subseteq T /\ R # T
      BY <3>1
    <3>3. Ends(R)
      BY <2>2, <3>2
    <3>4. PICK h : h = [s \in SUBSET R |-> Turn(h, ids, s)]
      BY <3>3
    <3> DEFINE g == [s \in SUBSET T |-> IF x \in s THEN Turn(h, ids, s) ELSE h[s]]
    <3> HIDE DEF x
    <3>5. ASSUME NEW s \in SUBSET T
          PROVE  g[s] = Turn(g, ids, s)
      <4>1. CASE s = {}
        <5>1. s \in SUBSET R /\ x \notin s
          BY <4>1
        <5>2. g[s] = h[s] /\ h[s] = Turn(h, ids, s)
          BY <3>4, <5>1
        <5> QED
          BY <4>1, <5>2 DEF Turn
      <4>2. CASE s # {}
        <5> DEFINE m == Max(s)
                   p == s \ {m}
        <5>1. m \in s /\ \A y \in s : m >= y
          BY <1>1, <4>2, MaxExists
        <5>2. x \in s => m = x
          <6>1. x \in Nat /\ m \in Nat
            BY <1>1, <3>1, <5>1
          <6> HIDE DEF m
          <6> QED
            BY <1>1, <3>1, <5>1, <6>1
        <5> HIDE DEF m
        <5>3. p \in SUBSET R /\ x \notin p /\ p \in SUBSET T
          BY <5>1, <5>2
        <5>4. g[p] = h[p]
          BY <5>3
        <5>5. Turn(h, ids, s) = Turn(g, ids, s)
          BY <5>4 DEF Turn, m
        <5>6. g[s] = Turn(h, ids, s)
          <6>1. CASE x \in s
            BY <6>1
          <6>2. CASE x \notin s
            <7>1. s \in SUBSET R
              BY <6>2
            <7> QED
              BY <3>4, <6>2, <7>1
          <6> QED
            BY <6>1, <6>2
        <5> QED
          BY <5>5, <5>6
      <4> QED
        BY <4>1, <4>2
    <3>6. g = [s \in SUBSET T |-> Turn(g, ids, s)]
      <4>1. g = [s \in SUBSET T |-> g[s]]
        OBVIOUS
      <4> HIDE DEF g
      <4> QED
        BY <3>5, <4>1
    <3> QED
      BY <3>6
  <2> QED
    BY <2>3, <2>4
<1>3. Ends(D)
  BY <1>2
<1> QED
  BY <1>3 DEF D

\* Whatever the list, every id of it is left, and once (Deduplicated,
\* controllers/_helpers.py).
THEOREM FormsNameTasksOnce ==
  ASSUME NEW S, NEW ids \in Seq(S)
  PROVE  Deduplicated(ids) \in OnceEach(S) /\ ToSet(Deduplicated(ids)) = ToSet(ids)
<1> DEFINE D == DOMAIN ids
           f == CHOOSE f : f = [s \in SUBSET DOMAIN ids |-> Turn(f, ids, s)]
           Right(s) == f[s] \in OnceEach(S) /\ ToSet(f[s]) = {ids[i] : i \in s}
           X == {s \in SUBSET D : ~Right(s)}
<1>1. IsFiniteSet(D) /\ D \subseteq Nat /\ \A i \in D : ids[i] \in S
  BY FS_Interval
<1>2. f = [s \in SUBSET D |-> Turn(f, ids, s)]
  BY LoopEnds
<1> HIDE DEF D, f
<1>3. X = {}
  <2> SUFFICES ASSUME X # {}
               PROVE  FALSE
    OBVIOUS
  <2>1. X \subseteq SUBSET D
    OBVIOUS
  <2>0. HasSmallest(X)
    <3> HIDE DEF X
    <3> QED
      BY <1>1, <2>1, SmallestSubset
  <2>2. PICK s \in X : \A t \in X : t \subseteq s => t = s
    BY <2>0 DEF HasSmallest
  <2>3. f[s] = Turn(f, ids, s)
    BY <1>2
  <2>4. CASE s = {}
    <3>1. f[s] = <<>>
      BY <2>3, <2>4 DEF Turn
    <3>2. <<>> \in OnceEach(S) /\ ToSet(<<>>) = {}
      BY DEF OnceEach, ToSet
    <3> QED
      BY <2>4, <3>1, <3>2
  <2>5. CASE s # {}
    <3> DEFINE m == Max(s)
               p == s \ {m}
               q == f[p]
    <3>1. m \in s
      BY <1>1, <2>5, MaxExists
    <3> HIDE DEF m
    <3>2. q \in OnceEach(S) /\ ToSet(q) = {ids[i] : i \in p}
      <4>1. p \in SUBSET D /\ p \subseteq s /\ p # s
        BY <3>1
      <4>2. Right(p)
        BY <2>2, <4>1
      <4> QED
        BY <4>2
    <3>3. f[s] = IF ids[m] \in ToSet(q) THEN q ELSE Append(q, ids[m])
      BY <2>3, <2>5 DEF Turn, m
    <3>4. ids[m] \in S
      BY <1>1, <3>1
    <3> HIDE DEF q
    <3>5. ids[m] \notin ToSet(q) =>
            Append(q, ids[m]) \in OnceEach(S) /\ ToSet(Append(q, ids[m])) = ToSet(q) \cup {ids[m]}
      <4> SUFFICES ASSUME ids[m] \notin ToSet(q)
                   PROVE  Append(q, ids[m]) \in OnceEach(S) /\ ToSet(Append(q, ids[m])) = ToSet(q) \cup {ids[m]}
        OBVIOUS
      <4> DEFINE v == ids[m]
                 a == Append(q, v)
      <4>1. q \in Seq(S) /\ \A i, k \in DOMAIN q : q[i] = q[k] => i = k
        BY <3>2 DEF OnceEach
      <4>2. \A i \in DOMAIN q : q[i] # v
        BY DEF ToSet
      <4>3. v \in S
        BY <3>4
      <4> HIDE DEF v
      <4>4. /\ a \in Seq(S) /\ DOMAIN a = DOMAIN q \cup {Len(q) + 1} /\ a[Len(q) + 1] = v
            /\ \A i \in DOMAIN q : a[i] = q[i]
        BY <4>1, <4>3
      <4> HIDE DEF a
      <4>5. a \in OnceEach(S)
        BY <4>1, <4>2, <4>4 DEF OnceEach
      <4>6. ToSet(a) = ToSet(q) \cup {v}
        BY <4>4 DEF ToSet
      <4> QED
        BY <4>5, <4>6 DEF a, v
    <3>6. {ids[i] : i \in s} = {ids[i] : i \in p} \cup {ids[m]}
      BY <3>1
    <3>7. Right(s)
      BY <3>2, <3>3, <3>5, <3>6
    <3> QED
      BY <3>7
  <2> QED
    BY <2>4, <2>5
<1>4. Right(D)
  BY <1>3
<1>5. ToSet(ids) = {ids[i] : i \in D}
  BY DEF ToSet, D
<1> QED
  BY <1>4, <1>5, LoopIsFold DEF D, f

-----------------------------------------------------------------------------
(* Types *)

All     == Ids \cup Requests
Actions == {"run", "pause", "resume", "remove", "edit", "create"}
Replies == {NoReply, "ok", "Unauthorized", "TaskLookupError", "MaximumInstancesError",
            "SchedulerNotRunningError", "ValueError", "TypeError", "LookupError", "KeyError"}
Rows    == {"scheduled", "paused", "gone"}
HandlerType ==
  {h \in [action : Actions, ids : OnceEach(All),
          pc : {"form", "looked_up", "ready", "waiting", "raised", "over"}] :
     \/ h.ids # <<>> \/ h.pc = "over"
     \/ h.pc = "form" /\ h.action \notin {"edit", "create"}}
CallType == [request : Requests, id : All, action : Actions, begun : BOOLEAN]

\* A request to create names its own task, the others those of the worker; no
\* request names a task twice, and one that goes on has a task left.
TypeOK ==
  /\ remote \in BOOLEAN
  /\ table \in [All -> Rows]
  /\ requests \in [Requests -> HandlerType]
  /\ \A r \in Requests :
       ToSet(requests[r].ids) \subseteq IF requests[r].action = "create" THEN {r} ELSE Ids
  /\ calls \subseteq CallType
  /\ replies \in [Requests -> Replies]
  /\ audit \subseteq Requests \X All \X {"succeeded", "failed", "warning"}
  /\ performed \subseteq Requests \X All

\* The task that a request is at, and what is left when it is done.
LEMMA IdsLeft ==
  ASSUME NEW S, NEW q \in OnceEach(S), q # <<>>
  PROVE  /\ Head(q) \in S /\ Head(q) \in ToSet(q)
         /\ Tail(q) \in OnceEach(S) /\ ToSet(Tail(q)) \subseteq ToSet(q)
         /\ Head(q) \notin ToSet(Tail(q))
         /\ Len(q) # 1 => Tail(q) # <<>>
<1>1. q \in Seq(S) /\ \A i, k \in DOMAIN q : q[i] = q[k] => i = k
  BY DEF OnceEach
<1>2. Len(q) \in Nat /\ Len(q) # 0 /\ DOMAIN q = 1..Len(q)
  BY <1>1
<1>3. /\ Tail(q) \in Seq(S) /\ Len(Tail(q)) = Len(q) - 1 /\ DOMAIN Tail(q) = 1..(Len(q) - 1)
      /\ \A i \in 1..(Len(q) - 1) : Tail(q)[i] = q[i + 1]
  BY <1>1, <1>2
<1>4. Head(q) = q[1] /\ 1 \in DOMAIN q
  BY <1>1, <1>2
<1>5. Head(q) \in S /\ Head(q) \in ToSet(q)
  BY <1>1, <1>4 DEF ToSet
<1>6. \A i \in 1..(Len(q) - 1) : i + 1 \in 1..Len(q) /\ i + 1 # 1
  BY <1>2
<1>7. ToSet(Tail(q)) \subseteq ToSet(q)
  BY <1>2, <1>3, <1>6 DEF ToSet
<1>8. Head(q) \notin ToSet(Tail(q))
  BY <1>1, <1>2, <1>3, <1>4, <1>6 DEF ToSet
<1>9. Tail(q) \in OnceEach(S)
  <2> SUFFICES ASSUME NEW i \in 1..(Len(q) - 1), NEW k \in 1..(Len(q) - 1), Tail(q)[i] = Tail(q)[k]
               PROVE  i = k
    BY <1>3 DEF OnceEach
  <2>1. q[i + 1] = q[k + 1]
    BY <1>3
  <2>2. i + 1 = k + 1
    BY <1>1, <1>2, <1>6, <2>1
  <2> QED
    BY <1>2, <2>2
<1>10. Len(q) # 1 => Tail(q) # <<>>
  <2>1. Len(<<>>) = 0
    OBVIOUS
  <2> SUFFICES ASSUME Len(q) # 1, Tail(q) = <<>>
               PROVE  FALSE
    OBVIOUS
  <2>2. Len(Tail(q)) = 0
    BY <2>1
  <2>3. Len(q) \in Nat /\ Len(Tail(q)) = Len(q) - 1
    BY <1>2, <1>3
  <2> QED
    BY <2>2, <2>3
<1> QED
  BY <1>5, <1>7, <1>8, <1>9, <1>10

LEMMA CurrentType ==
  ASSUME TypeOK, NEW r \in Requests, requests[r].ids # <<>>
  PROVE  /\ Current(r) \in All /\ Current(r) \in ToSet(requests[r].ids)
         /\ requests[r].action # "create" => Current(r) \in Ids
         /\ requests[r].action = "create" => Current(r) = r
<1>1. requests[r].ids \in OnceEach(All)
      /\ ToSet(requests[r].ids) \subseteq IF requests[r].action = "create" THEN {r} ELSE Ids
  BY DEF TypeOK, HandlerType
<1>2. Head(requests[r].ids) \in All /\ Head(requests[r].ids) \in ToSet(requests[r].ids)
  BY <1>1, IdsLeft
<1> QED
  BY <1>1, <1>2 DEF Current

-----------------------------------------------------------------------------
(* The invariant *)

\* A call is that of the task its request is at, and a request has one; while
\* it waits there is no answer, and what has begun has been carried out.
Outstanding ==
  /\ \A c \in calls :
       /\ requests[c.request].pc \in {"waiting", "raised"}
       /\ c.id = Current(c.request) /\ c.action = requests[c.request].action
       /\ requests[c.request].pc = "waiting" => replies[c.request] = NoReply
       /\ c.begun => c.action = "run"
       /\ c.begun <=> <<c.request, c.id>> \in performed
  /\ \A c, d \in calls : c.request = d.request => c = d

\* An answer is awaited, and tells whether the call was carried out, but for a
\* run whose task has gone.
Answered ==
  \A r \in Requests : replies[r] # NoReply =>
    /\ requests[r].pc = "waiting"
    /\ replies[r] = "ok" => <<r, Current(r)>> \in performed
    /\ replies[r] # "ok" =>
         \/ <<r, Current(r)>> \notin performed
         \/ replies[r] = "TaskLookupError" /\ requests[r].action = "run" /\ table[Current(r)] = "gone" /\ Current(r) \notin InMemory

\* What has an entry is behind its request; what was carried out has one, or
\* is what its request is at.
Entered ==
  /\ \A e \in audit :
       /\ requests[e[1]].pc = "over" \/ e[2] \notin ToSet(requests[e[1]].ids)
       /\ requests[e[1]].action # "create" => e[2] \in Ids
  /\ \A p \in performed :
       \/ \E e \in audit : e[1] = p[1] /\ e[2] = p[2]
       \/ requests[p[1]].pc \in {"waiting", "raised"} /\ p[2] = Current(p[1])

\* The first half of AuditMatchesEffects; Entered has more than the other.
Truthful ==
  \A e \in audit :
    \/ (e[3] = "succeeded") <=> (<<e[1], e[2]>> \in performed)
    \/ e[3] = "failed" /\ requests[e[1]].action = "run" /\ table[e[2]] = "gone" /\ e[2] \notin InMemory

BoardInv == TypeOK /\ Outstanding /\ Answered /\ Entered /\ Truthful

LEMMA InvImplies == ASSUME BoardInv PROVE AuditMatchesEffects
BY DEF BoardInv, Entered, Truthful, AuditMatchesEffects

LEMMA HandlerFacts ==
  ASSUME TypeOK, NEW r \in Requests
  PROVE  /\ requests[r] \in HandlerType
         /\ requests[r].pc \in {"looked_up", "ready", "waiting", "raised"} => requests[r].ids # <<>>
         /\ requests[r].pc = "form" /\ requests[r].action \in {"edit", "create"} => requests[r].ids # <<>>
BY DEF TypeOK, HandlerType

\* What a request has not asked for yet was not carried out.
LEMMA NotYet ==
  ASSUME BoardInv, NEW r \in Requests, requests[r].ids # <<>>, requests[r].pc \notin {"waiting", "raised", "over"}
  PROVE  <<r, Current(r)>> \notin performed
<1>1. Current(r) \in ToSet(requests[r].ids)
  BY CurrentType DEF BoardInv
<1>2. \A e \in audit : e[1] = r => e[2] # Current(r)
  BY <1>1 DEF BoardInv, Entered
<1> QED
  BY <1>2 DEF BoardInv, Entered

LEMMA CallFacts ==
  ASSUME BoardInv, NEW c \in calls
  PROVE  /\ c.request \in Requests /\ c.id \in All /\ c.action \in Actions /\ c.begun \in BOOLEAN
         /\ requests[c.request].pc \in {"waiting", "raised"} /\ requests[c.request].ids # <<>>
         /\ c.id = Current(c.request) /\ c.action = requests[c.request].action
         /\ c.id \in ToSet(requests[c.request].ids)
         /\ c.action # "create" => c.id \in Ids
         /\ c.action = "create" => c.id \notin Ids
         /\ \A d \in calls : d.request = c.request => d = c
         /\ \A e \in audit : ~(e[1] = c.request /\ e[2] = c.id)
         /\ Waiting(c) <=> requests[c.request].pc = "waiting"
         /\ replies[c.request] = NoReply
<1>1. c.request \in Requests /\ c.id \in All /\ c.action \in Actions /\ c.begun \in BOOLEAN
  BY DEF BoardInv, TypeOK, CallType
<1>2. /\ requests[c.request].pc \in {"waiting", "raised"}
      /\ c.id = Current(c.request) /\ c.action = requests[c.request].action
      /\ \A d \in calls : d.request = c.request => d = c
  BY DEF BoardInv, Outstanding
<1>3. requests[c.request].ids # <<>>
  BY <1>1, <1>2, HandlerFacts DEF BoardInv
<1>4. /\ c.id \in ToSet(requests[c.request].ids)
      /\ c.action # "create" => c.id \in Ids
      /\ c.action = "create" => c.id = c.request
  BY <1>1, <1>2, <1>3, CurrentType DEF BoardInv
<1>5. \A e \in audit : ~(e[1] = c.request /\ e[2] = c.id)
  BY <1>2, <1>4 DEF BoardInv, Entered
<1>6. Waiting(c) <=> requests[c.request].pc = "waiting"
  BY <1>2 DEF Waiting
<1>7. replies[c.request] = NoReply
  BY <1>1, <1>2 DEF BoardInv, Outstanding, Answered
<1> QED
  BY <1>1, <1>2, <1>3, <1>4, <1>5, <1>6, <1>7, DashboardAssumption

-----------------------------------------------------------------------------
(* The worker *)

\* A task that is gone comes back only to a memory store: elsewhere a run that
\* is under way does not bring it back, and only a new one is added.
StaysGone == \A id \in Ids \ InMemory : table[id] = "gone" => table'[id] = "gone"

\* Entries stay true when a call is carried out, which has none.
LEMMA WorkerEntries ==
  ASSUME BoardInv, NEW c \in calls, UNCHANGED <<requests, audit>>, StaysGone,
         performed' = performed \/ performed' = performed \cup {<<c.request, c.id>>}
  PROVE  Entered' /\ Truthful'
<1>1. /\ \A e \in audit : ~(e[1] = c.request /\ e[2] = c.id)
      /\ requests[c.request].pc \in {"waiting", "raised"} /\ c.id = Current(c.request)
  BY CallFacts
<1>2. \A r : Current(r)' = Current(r)
  BY DEF Current
<1>3. Entered'
  <2>1. \A e \in audit' :
          /\ requests'[e[1]].pc = "over" \/ e[2] \notin ToSet(requests'[e[1]].ids)
          /\ requests'[e[1]].action # "create" => e[2] \in Ids
    BY DEF BoardInv, Entered
  <2>2. ASSUME NEW p \in performed'
        PROVE  \/ \E e \in audit' : e[1] = p[1] /\ e[2] = p[2]
               \/ requests'[p[1]].pc \in {"waiting", "raised"} /\ p[2] = Current(p[1])'
    <3>1. CASE p \in performed
      BY <1>2, <3>1 DEF BoardInv, Entered
    <3>2. CASE p = <<c.request, c.id>>
      BY <1>1, <1>2, <3>2
    <3> QED
      BY <3>1, <3>2
  <2> QED
    BY <2>1, <2>2 DEF Entered
<1>4. ASSUME NEW e \in audit
      PROVE  \/ (e[3] = "succeeded") <=> (<<e[1], e[2]>> \in performed')
             \/ e[3] = "failed" /\ requests'[e[1]].action = "run" /\ table'[e[2]] = "gone" /\ e[2] \notin InMemory
  <2>1. <<e[1], e[2]>> # <<c.request, c.id>>
    BY <1>1
  <2>2. <<e[1], e[2]>> \in performed' <=> <<e[1], e[2]>> \in performed
    BY <2>1
  <2>3. requests[e[1]].action = "run" => e[2] \in Ids
    BY DEF BoardInv, Entered
  <2>4. \/ (e[3] = "succeeded") <=> (<<e[1], e[2]>> \in performed)
        \/ e[3] = "failed" /\ requests[e[1]].action = "run" /\ table[e[2]] = "gone" /\ e[2] \notin InMemory
    BY DEF BoardInv, Truthful
  <2> QED
    BY <2>2, <2>3, <2>4 DEF StaysGone
<1> QED
  BY <1>3, <1>4 DEF Truthful

\* Calls and answers of the other requests stay as they were.
LEMMA OtherRequests ==
  ASSUME BoardInv, NEW c \in calls, UNCHANGED <<requests, audit>>, StaysGone,
         performed' = performed \/ performed' = performed \cup {<<c.request, c.id>>},
         \A r \in Requests \ {c.request} : replies'[r] = replies[r]
  PROVE  /\ \A d \in calls \ {c} :
              /\ d.request # c.request
              /\ requests'[d.request].pc \in {"waiting", "raised"}
              /\ d.id = Current(d.request)' /\ d.action = requests'[d.request].action
              /\ requests'[d.request].pc = "waiting" => replies'[d.request] = NoReply
              /\ d.begun => d.action = "run"
              /\ d.begun <=> <<d.request, d.id>> \in performed'
         /\ \A r \in Requests \ {c.request} : replies'[r] # NoReply =>
              /\ requests'[r].pc = "waiting"
              /\ replies'[r] = "ok" => <<r, Current(r)'>> \in performed'
              /\ replies'[r] # "ok" =>
                   \/ <<r, Current(r)'>> \notin performed'
                   \/ replies'[r] = "TaskLookupError" /\ requests'[r].action = "run" /\ table'[Current(r)'] = "gone" /\ Current(r)' \notin InMemory
<1>1. \A r : Current(r)' = Current(r)
  BY DEF Current
<1>2. ASSUME NEW d \in calls \ {c}
      PROVE  /\ d.request # c.request
             /\ requests'[d.request].pc \in {"waiting", "raised"}
             /\ d.id = Current(d.request)' /\ d.action = requests'[d.request].action
             /\ requests'[d.request].pc = "waiting" => replies'[d.request] = NoReply
             /\ d.begun => d.action = "run"
             /\ d.begun <=> <<d.request, d.id>> \in performed'
  <2>1. d.request # c.request /\ d.request \in Requests
    BY CallFacts
  <2>2. <<d.request, d.id>> \in performed' <=> <<d.request, d.id>> \in performed
    BY <2>1
  <2> QED
    BY <1>1, <2>1, <2>2 DEF BoardInv, Outstanding
<1>3. ASSUME NEW r \in Requests \ {c.request}, replies'[r] # NoReply
      PROVE  /\ requests'[r].pc = "waiting"
             /\ replies'[r] = "ok" => <<r, Current(r)'>> \in performed'
             /\ replies'[r] # "ok" =>
                  \/ <<r, Current(r)'>> \notin performed'
                  \/ replies'[r] = "TaskLookupError" /\ requests'[r].action = "run" /\ table'[Current(r)'] = "gone" /\ Current(r)' \notin InMemory
  <2>1. replies'[r] = replies[r]
    OBVIOUS
  <2>2. <<r, Current(r)>> \in performed' <=> <<r, Current(r)>> \in performed
    BY <1>3
  <2>3. requests[r].pc = "waiting"
    BY <1>3, <2>1 DEF BoardInv, Answered
  <2>4. requests[r].action = "run" => Current(r) \in Ids
    BY <2>3, HandlerFacts, CurrentType DEF BoardInv
  <2> QED
    BY <1>1, <1>3, <2>1, <2>2, <2>3, <2>4 DEF BoardInv, Answered, StaysGone
<1> QED
  BY <1>2, <1>3

\* The worker answers: what it says is true.
LEMMA AnswerKeeps ==
  ASSUME BoardInv, NEW c \in calls, NEW reply \in Replies \ {NoReply}, Answer(c, reply),
         UNCHANGED <<remote, requests, audit>>, StaysGone, table' \in [All -> Rows],
         performed' = performed \/ performed' = performed \cup {<<c.request, c.id>>},
         reply = "ok" => <<c.request, c.id>> \in performed',
         reply # "ok" => \/ <<c.request, c.id>> \notin performed'
                         \/ reply = "TaskLookupError" /\ c.action = "run" /\ table'[c.id] = "gone" /\ c.id \notin InMemory
  PROVE  BoardInv'
<1> DEFINE r == c.request
<1>1. /\ r \in Requests /\ c.id \in All /\ c.id = Current(r) /\ c.action = requests[r].action
      /\ Waiting(c) <=> requests[r].pc = "waiting"
      /\ replies[r] = NoReply
  BY CallFacts
<1>2. /\ calls' = calls \ {c}
      /\ replies' = IF Waiting(c) THEN [replies EXCEPT ![r] = reply] ELSE replies
  BY DEF Answer
<1>3. /\ replies' \in [Requests -> Replies]
      /\ \A q \in Requests \ {r} : replies'[q] = replies[q]
      /\ replies'[r] # NoReply => requests[r].pc = "waiting" /\ replies'[r] = reply
  BY <1>1, <1>2 DEF BoardInv, TypeOK
<1>4. TypeOK'
  <2>1. performed' \subseteq Requests \X All /\ calls' \subseteq CallType
    BY <1>1, <1>2 DEF BoardInv, TypeOK
  <2> QED
    BY <1>3, <2>1 DEF BoardInv, TypeOK
<1>5. Entered' /\ Truthful'
  BY WorkerEntries
<1>6. Outstanding'
  <2>1. ASSUME NEW d \in calls'
        PROVE  /\ requests'[d.request].pc \in {"waiting", "raised"}
               /\ d.id = Current(d.request)' /\ d.action = requests'[d.request].action
               /\ requests'[d.request].pc = "waiting" => replies'[d.request] = NoReply
               /\ d.begun => d.action = "run"
               /\ d.begun <=> <<d.request, d.id>> \in performed'
    <3>1. d \in calls \ {c}
      BY <1>2
    <3>2. \A q \in Requests \ {c.request} : replies'[q] = replies[q]
      BY <1>3
    <3> HIDE DEF r
    <3> QED
      BY <3>1, <3>2, OtherRequests
  <2>2. \A d, e \in calls' : d.request = e.request => d = e
    BY <1>2 DEF BoardInv, Outstanding
  <2> QED
    BY <2>1, <2>2 DEF Outstanding
<1>7. Answered'
  <2> SUFFICES ASSUME NEW q \in Requests, replies'[q] # NoReply
               PROVE  /\ requests'[q].pc = "waiting"
                      /\ replies'[q] = "ok" => <<q, Current(q)'>> \in performed'
                      /\ replies'[q] # "ok" =>
                           \/ <<q, Current(q)'>> \notin performed'
                           \/ replies'[q] = "TaskLookupError" /\ requests'[q].action = "run" /\ table'[Current(q)'] = "gone" /\ Current(q)' \notin InMemory
    BY DEF Answered
  <2>1. CASE q = r
    <3>1. Current(q)' = c.id
      BY <1>1, <2>1 DEF Current
    <3>2. requests[r].pc = "waiting" /\ replies'[q] = reply
      BY <1>3, <2>1
    <3> QED
      BY <1>1, <2>1, <3>1, <3>2
  <2>2. CASE q # r
    BY <1>3, <2>2, OtherRequests
  <2> QED
    BY <2>1, <2>2
<1> QED
  BY <1>4, <1>5, <1>6, <1>7 DEF BoardInv

LEMMA RefusedKeeps ==
  ASSUME BoardInv, NEW c \in calls, Unauthorized(c) \/ Refused(c)
  PROVE  BoardInv'
<1>1. PICK e \in Replies \ {NoReply} : Answer(c, e) /\ e # "ok"
  <2>1. CASE Unauthorized(c)
    BY <2>1 DEF Unauthorized, Replies, NoReply
  <2>2. CASE Refused(c)
    <3>1. PICK e \in Errors(c) \cup IF c.action # "create" /\ table[c.id] = "gone"
                                    THEN {"TaskLookupError"} ELSE {} : Answer(c, e)
      BY <2>2 DEF Refused
    <3>2. c.action \in Actions
      BY CallFacts
    <3>3. e \in Replies \ {NoReply} /\ e # "ok"
      BY <3>1, <3>2 DEF Errors, Invalid, NotMade, Replies, NoReply, Actions
    <3> QED
      BY <3>1, <3>3
  <2> QED
    BY <2>1, <2>2
<1>2. ~c.begun /\ UNCHANGED <<remote, table, requests, audit, performed>>
  BY DEF Unauthorized, Refused
<1>3. <<c.request, c.id>> \notin performed'
  BY <1>2 DEF BoardInv, Outstanding
<1>4. StaysGone /\ table' \in [All -> Rows]
  BY <1>2 DEF StaysGone, BoardInv, TypeOK
<1> QED
  BY <1>1, <1>2, <1>3, <1>4, AnswerKeeps

LEMMA PerformsKeeps ==
  ASSUME BoardInv, NEW c \in calls, NEW row \in Rows, Performs(c, row),
         c.action = "create" \/ table[c.id] # "gone"
  PROVE  BoardInv'
<1>1. /\ table' = [table EXCEPT ![c.id] = row] /\ Answer(c, "ok")
      /\ performed' = performed \cup {<<c.request, c.id>>}
      /\ UNCHANGED <<remote, requests, audit>>
  BY DEF Performs, Carried
<1>2. c.id \in All /\ (c.action = "create" => c.id \notin Ids)
  BY CallFacts
<1>3. table' \in [All -> Rows] /\ StaysGone
  BY <1>1, <1>2 DEF BoardInv, TypeOK, StaysGone, All
<1>4. "ok" \in Replies \ {NoReply}
  BY DEF Replies, NoReply
<1> QED
  BY <1>1, <1>3, <1>4, AnswerKeeps

LEMMA AdvancedKeeps ==
  ASSUME BoardInv, NEW c \in calls, Advanced(c)
  PROVE  BoardInv'
<1>1. c.begun /\ UNCHANGED <<remote, requests, audit, performed>>
  BY DEF Advanced
<1>2. <<c.request, c.id>> \in performed /\ c.action = "run"
  BY <1>1 DEF BoardInv, Outstanding
<1>3. {"ok", "TaskLookupError"} \subseteq Replies \ {NoReply}
  BY DEF Replies, NoReply
<1>4. CASE table[c.id] = "gone" /\ c.id \notin InMemory /\ Answer(c, "TaskLookupError") /\ UNCHANGED table
  <2>1. StaysGone /\ table' \in [All -> Rows]
    BY <1>4 DEF StaysGone, BoardInv, TypeOK
  <2> QED
    BY <1>1, <1>2, <1>3, <1>4, <2>1, AnswerKeeps
<1>5. CASE /\ table[c.id] # "gone" \/ c.id \in InMemory
           /\ Answer(c, "ok")
           /\ \E row \in {"scheduled", "paused"} : table' = [table EXCEPT ![c.id] = row]
  <2>1. StaysGone /\ table' \in [All -> Rows]
    <3>1. PICK row \in {"scheduled", "paused"} : table' = [table EXCEPT ![c.id] = row]
      BY <1>5
    <3>2. c.id \in All
      BY CallFacts
    <3> QED
      BY <1>5, <3>1, <3>2 DEF StaysGone, BoardInv, TypeOK, All, Rows
  <2> QED
    BY <1>1, <1>2, <1>3, <1>5, <2>1, AnswerKeeps
<1> QED
  BY <1>4, <1>5 DEF Advanced

\* A run that is sent is still called for.
LEMMA SubmittedKeeps ==
  ASSUME BoardInv, NEW c \in calls, Submitted(c)
  PROVE  BoardInv'
<1> DEFINE b == [c EXCEPT !.begun = TRUE]
<1>1. /\ ~c.begun /\ c.action = "run"
      /\ calls' = (calls \ {c}) \cup {b} /\ performed' = performed \cup {<<c.request, c.id>>}
      /\ UNCHANGED <<remote, table, requests, replies, audit>>
  BY DEF Submitted, Carried
<1>2. c \in CallType
  BY DEF BoardInv, TypeOK
<1>3. b \in CallType /\ b.request = c.request /\ b.id = c.id /\ b.action = c.action /\ b.begun = TRUE
  BY <1>2 DEF CallType
<1> HIDE DEF b
<1>4. /\ c.request \in Requests /\ c.id \in All /\ requests[c.request].pc \in {"waiting", "raised"}
      /\ c.id = Current(c.request) /\ c.action = requests[c.request].action /\ replies[c.request] = NoReply
      /\ \A d \in calls : d.request = c.request => d = c
  BY CallFacts
<1>5. StaysGone
  BY <1>1 DEF StaysGone
<1>6. TypeOK'
  <2>1. performed' \subseteq Requests \X All /\ calls' \subseteq CallType
    BY <1>1, <1>3, <1>4 DEF BoardInv, TypeOK
  <2> QED
    BY <1>1, <2>1 DEF BoardInv, TypeOK
<1>7. Entered' /\ Truthful'
  BY <1>1, <1>5, WorkerEntries
<1>8. Outstanding'
  <2>1. ASSUME NEW d \in calls'
        PROVE  /\ requests'[d.request].pc \in {"waiting", "raised"}
               /\ d.id = Current(d.request)' /\ d.action = requests'[d.request].action
               /\ requests'[d.request].pc = "waiting" => replies'[d.request] = NoReply
               /\ d.begun => d.action = "run"
               /\ d.begun <=> <<d.request, d.id>> \in performed'
    <3>1. CASE d = b
      <4>1. Current(d.request)' = Current(c.request)
        BY <1>1, <1>3, <3>1 DEF Current
      <4> QED
        BY <1>1, <1>3, <1>4, <3>1, <4>1
    <3>2. CASE d \in calls \ {c}
      BY <1>1, <1>5, <3>2, OtherRequests
    <3> QED
      BY <1>1, <3>1, <3>2
  <2>2. \A d, e \in calls' : d.request = e.request => d = e
    BY <1>1, <1>3, <1>4 DEF BoardInv, Outstanding
  <2> QED
    BY <2>1, <2>2 DEF Outstanding
<1>9. Answered'
  <2> SUFFICES ASSUME NEW q \in Requests, replies'[q] # NoReply
               PROVE  /\ requests'[q].pc = "waiting"
                      /\ replies'[q] = "ok" => <<q, Current(q)'>> \in performed'
                      /\ replies'[q] # "ok" =>
                           \/ <<q, Current(q)'>> \notin performed'
                           \/ replies'[q] = "TaskLookupError" /\ requests'[q].action = "run" /\ table'[Current(q)'] = "gone" /\ Current(q)' \notin InMemory
    BY DEF Answered
  <2>1. q # c.request
    BY <1>1, <1>4
  <2> QED
    BY <1>1, <1>5, <2>1, OtherRequests
<1> QED
  BY <1>6, <1>7, <1>8, <1>9 DEF BoardInv

LEMMA ServeKeeps ==
  ASSUME BoardInv, Serve
  PROVE  BoardInv'
<1>1. PICK c \in calls :
        \/ Unauthorized(c) \/ Refused(c) \/ Submitted(c) \/ Advanced(c)
        \/ Paused(c) \/ Resumed(c) \/ Removed(c) \/ Updated(c) \/ Added(c)
  BY DEF Serve
<1>2. CASE Paused(c) \/ Resumed(c) \/ Removed(c) \/ Updated(c) \/ Added(c)
  <2>1. c.id \in All /\ table[c.id] \in Rows
    BY CallFacts DEF BoardInv, TypeOK
  <2>2. \E row \in Rows : Performs(c, row) /\ (c.action = "create" \/ table[c.id] # "gone")
    BY <1>2, <2>1 DEF Paused, Resumed, Removed, Updated, Added, Rows
  <2> QED
    BY <2>2, PerformsKeeps
<1> QED
  BY <1>1, <1>2, RefusedKeeps, SubmittedKeeps, AdvancedKeeps

LEMMA GoneKeeps ==
  ASSUME BoardInv, Gone
  PROVE  BoardInv'
<1>1. PICK id \in Ids : table' = [table EXCEPT ![id] = "gone"]
  BY DEF Gone
<1>2. UNCHANGED <<remote, requests, calls, replies, audit, performed>>
  BY DEF Gone
<1>3. table' \in [All -> Rows] /\ StaysGone
  BY <1>1 DEF BoardInv, TypeOK, StaysGone, All, Rows
<1>4. TypeOK'
  BY <1>2, <1>3 DEF BoardInv, TypeOK
<1>5. \A r : Current(r)' = Current(r)
  BY <1>2 DEF Current
<1>6. Outstanding' /\ Entered'
  BY <1>2, <1>5 DEF BoardInv, Outstanding, Entered
<1>7. ASSUME NEW r \in Requests, replies'[r] # NoReply
      PROVE  /\ requests'[r].pc = "waiting"
             /\ replies'[r] = "ok" => <<r, Current(r)'>> \in performed'
             /\ replies'[r] # "ok" =>
                  \/ <<r, Current(r)'>> \notin performed'
                  \/ replies'[r] = "TaskLookupError" /\ requests'[r].action = "run" /\ table'[Current(r)'] = "gone" /\ Current(r)' \notin InMemory
  <2>1. requests[r].pc = "waiting"
    BY <1>2, <1>7 DEF BoardInv, Answered
  <2>2. requests[r].action = "run" => Current(r) \in Ids
    BY <2>1, HandlerFacts, CurrentType DEF BoardInv
  <2> QED
    BY <1>2, <1>3, <1>5, <1>7, <2>1, <2>2 DEF BoardInv, Answered, StaysGone
<1>8. ASSUME NEW e \in audit
      PROVE  \/ (e[3] = "succeeded") <=> (<<e[1], e[2]>> \in performed)
             \/ e[3] = "failed" /\ requests[e[1]].action = "run" /\ table'[e[2]] = "gone" /\ e[2] \notin InMemory
  <2>1. requests[e[1]].action = "run" => e[2] \in Ids
    BY DEF BoardInv, Entered
  <2> QED
    BY <1>3, <2>1 DEF BoardInv, Truthful, StaysGone
<1>9. Answered' /\ Truthful'
  BY <1>2, <1>7, <1>8 DEF Answered, Truthful
<1> QED
  BY <1>4, <1>6, <1>9 DEF BoardInv

-----------------------------------------------------------------------------
(* The handlers keep the invariant *)

LEMMA GoesFacts ==
  ASSUME BoardInv, NEW r \in Requests, NEW pc, Goes(r, pc)
  PROVE  /\ requests'[r].pc = pc
         /\ \A q \in Requests : /\ requests'[q].ids = requests[q].ids
                                /\ requests'[q].action = requests[q].action
                                /\ Current(q)' = Current(q)
                                /\ q # r => requests'[q] = requests[q]
         /\ pc \in {"looked_up", "ready", "waiting", "raised", "over"} /\ (requests[r].ids # <<>> \/ pc = "over") =>
              /\ requests' \in [Requests -> HandlerType]
              /\ \A q \in Requests :
                   ToSet(requests'[q].ids) \subseteq IF requests'[q].action = "create" THEN {q} ELSE Ids
<1>1. requests \in [Requests -> HandlerType] /\ requests' = [requests EXCEPT ![r].pc = pc]
  BY DEF BoardInv, TypeOK, Goes
<1>2. requests[r] \in HandlerType /\ requests'[r] = [requests[r] EXCEPT !.pc = pc]
  BY <1>1
<1>3. /\ requests'[r].pc = pc /\ requests'[r].ids = requests[r].ids
      /\ requests'[r].action = requests[r].action
  BY <1>2 DEF HandlerType
<1>4. \A q \in Requests : q # r => requests'[q] = requests[q]
  BY <1>1
<1>5. \A q \in Requests : /\ requests'[q].ids = requests[q].ids
                          /\ requests'[q].action = requests[q].action
  BY <1>3, <1>4
<1>6. \A q \in Requests : Current(q)' = Current(q)
  BY <1>5 DEF Current
<1>7. ASSUME pc \in {"looked_up", "ready", "waiting", "raised", "over"}, requests[r].ids # <<>> \/ pc = "over"
      PROVE  requests' \in [Requests -> HandlerType]
  <2>1. requests'[r] \in HandlerType
    BY <1>2, <1>7 DEF HandlerType
  <2> QED
    BY <1>1, <2>1
<1>8. \A q \in Requests :
        ToSet(requests'[q].ids) \subseteq IF requests'[q].action = "create" THEN {q} ELSE Ids
  BY <1>5 DEF BoardInv, TypeOK
<1> QED
  BY <1>3, <1>4, <1>5, <1>6, <1>7, <1>8

\* Before its call a handler may leave an entry of a failure, and is over.
LEMMA BeforeCall ==
  ASSUME BoardInv, NEW r \in Requests, requests[r].pc \in {"form", "looked_up"},
         NEW pc \in {"looked_up", "ready", "raised", "over"}, Goes(r, pc),
         requests[r].ids # <<>> \/ (pc = "over" /\ audit' = audit),
         audit' = audit \/ (pc = "over" /\ Entry(r, "failed")),
         UNCHANGED <<remote, table, calls, replies, performed>>
  PROVE  BoardInv'
<1>1. /\ requests'[r].pc = pc
      /\ \A q \in Requests : /\ requests'[q].ids = requests[q].ids
                             /\ requests'[q].action = requests[q].action
                             /\ Current(q)' = Current(q)
                             /\ q # r => requests'[q] = requests[q]
      /\ requests' \in [Requests -> HandlerType]
      /\ \A q \in Requests :
           ToSet(requests'[q].ids) \subseteq IF requests'[q].action = "create" THEN {q} ELSE Ids
  BY GoesFacts
<1>2. ASSUME NEW e \in audit', e \notin audit
      PROVE  /\ pc = "over" /\ e = <<r, Current(r), "failed">> /\ e[1] = r /\ e[2] = Current(r) /\ e[3] = "failed"
             /\ Current(r) \in All /\ (requests[r].action # "create" => Current(r) \in Ids)
             /\ <<r, Current(r)>> \notin performed
  <2>1. pc = "over" /\ e = <<r, Current(r), "failed">> /\ requests[r].ids # <<>>
    BY <1>2 DEF Entry
  <2> QED
    BY <2>1, CurrentType, NotYet DEF BoardInv
<1>3. TypeOK'
  <2>1. audit' \subseteq Requests \X All \X {"succeeded", "failed", "warning"}
    BY <1>2 DEF BoardInv, TypeOK
  <2> QED
    BY <1>1, <2>1 DEF BoardInv, TypeOK
<1>4. Outstanding'
  <2>1. \A c \in calls : c.request \in Requests /\ c.request # r
    BY CallFacts
  <2> QED
    BY <1>1, <2>1 DEF BoardInv, Outstanding
<1>5. Answered'
  <2>1. \A q \in Requests : replies[q] # NoReply => q # r
    BY DEF BoardInv, Answered
  <2> QED
    BY <1>1, <2>1 DEF BoardInv, Answered
<1>6. audit \subseteq audit' /\ \A e \in audit : e[1] \in Requests
  BY DEF Entry, BoardInv, TypeOK
<1>7. Entered'
  <2>1. ASSUME NEW e \in audit'
        PROVE  /\ requests'[e[1]].pc = "over" \/ e[2] \notin ToSet(requests'[e[1]].ids)
               /\ requests'[e[1]].action # "create" => e[2] \in Ids
    <3>1. CASE e \in audit
      <4>1. /\ e[1] \in Requests
            /\ requests[e[1]].pc = "over" \/ e[2] \notin ToSet(requests[e[1]].ids)
            /\ requests[e[1]].action # "create" => e[2] \in Ids
        BY <1>6, <3>1 DEF BoardInv, Entered
      <4>2. CASE e[1] = r
        BY <1>1, <4>1, <4>2
      <4>3. CASE e[1] # r
        BY <1>1, <4>1, <4>3
      <4> QED
        BY <4>2, <4>3
    <3>2. CASE e \notin audit
      BY <1>1, <1>2, <3>2
    <3> QED
      BY <3>1, <3>2
  <2>2. ASSUME NEW p \in performed
        PROVE  \/ \E e \in audit' : e[1] = p[1] /\ e[2] = p[2]
               \/ requests'[p[1]].pc \in {"waiting", "raised"} /\ p[2] = Current(p[1])'
    <3>1. p[1] \in Requests
      BY DEF BoardInv, TypeOK
    <3>2. \/ \E e \in audit : e[1] = p[1] /\ e[2] = p[2]
          \/ requests[p[1]].pc \in {"waiting", "raised"} /\ p[2] = Current(p[1])
      BY DEF BoardInv, Entered
    <3> QED
      BY <1>1, <1>6, <3>1, <3>2
  <2> QED
    BY <2>1, <2>2 DEF Entered
<1>8. Truthful'
  <2> SUFFICES ASSUME NEW e \in audit'
               PROVE  \/ (e[3] = "succeeded") <=> (<<e[1], e[2]>> \in performed)
                      \/ e[3] = "failed" /\ requests'[e[1]].action = "run" /\ table[e[2]] = "gone" /\ e[2] \notin InMemory
    BY DEF Truthful
  <2>1. CASE e \in audit
    BY <1>1, <1>6, <2>1 DEF BoardInv, Truthful
  <2>2. CASE e \notin audit
    BY <1>2, <2>2
  <2> QED
    BY <2>1, <2>2
<1> QED
  BY <1>3, <1>4, <1>5, <1>7, <1>8 DEF BoardInv

LEMMA ParsedKeeps ==
  ASSUME BoardInv, NEW r \in Requests, Parsed(r)
  PROVE  BoardInv'
<1> DEFINE pc == IF requests[r].ids = <<>> THEN "over" ELSE "ready"
<1>1. /\ requests[r].pc = "form" /\ Goes(r, pc) /\ pc \in {"looked_up", "ready", "raised", "over"}
      /\ requests[r].ids # <<>> \/ pc = "over"
      /\ UNCHANGED <<remote, table, calls, replies, audit, performed>>
  BY DEF Parsed
<1> HIDE DEF pc
<1> QED
  BY <1>1, BeforeCall

LEMMA LookedUpKeeps ==
  ASSUME BoardInv, NEW r \in Requests, LookedUp(r)
  PROVE  BoardInv'
<1>1. /\ requests[r].pc = "form" /\ requests[r].ids # <<>>
      /\ UNCHANGED <<remote, table, calls, replies, performed>>
  BY HandlerFacts DEF LookedUp, BoardInv
<1>2. \E pc \in {"looked_up", "ready", "raised", "over"} :
        Goes(r, pc) /\ (audit' = audit \/ (pc = "over" /\ Entry(r, "failed")))
  BY DEF LookedUp
<1> QED
  BY <1>1, <1>2, BeforeCall

LEMMA ValidatedKeeps ==
  ASSUME BoardInv, NEW r \in Requests, Validated(r)
  PROVE  BoardInv'
<1>1. /\ requests[r].pc = "looked_up" /\ requests[r].ids # <<>>
      /\ UNCHANGED <<remote, table, calls, replies, performed>>
  BY HandlerFacts DEF Validated, BoardInv
<1>2. PICK form \in EditForms :
        IF Unreadable(form) \/ Unfit(form) THEN Goes(r, "over") /\ Entry(r, "failed")
        ELSE Goes(r, IF Applies(form) THEN "ready" ELSE "over") /\ UNCHANGED audit
  BY DEF Validated
<1>3. \E pc \in {"looked_up", "ready", "raised", "over"} :
        Goes(r, pc) /\ (audit' = audit \/ (pc = "over" /\ Entry(r, "failed")))
  <2>1. CASE Unreadable(form) \/ Unfit(form)
    BY <1>2, <2>1
  <2>2. CASE ~(Unreadable(form) \/ Unfit(form)) /\ Applies(form)
    BY <1>2, <2>2
  <2>3. CASE ~(Unreadable(form) \/ Unfit(form)) /\ ~Applies(form)
    BY <1>2, <2>3
  <2> QED
    BY <2>1, <2>2, <2>3
<1> QED
  BY <1>1, <1>3, BeforeCall

LEMMA ImportedKeeps ==
  ASSUME BoardInv, NEW r \in Requests, Imported(r)
  PROVE  BoardInv'
<1>1. /\ requests[r].pc = "form" /\ requests[r].ids # <<>>
      /\ UNCHANGED <<remote, table, calls, replies, performed>>
  BY HandlerFacts DEF Imported, BoardInv
<1>2. \E pc \in {"looked_up", "ready", "raised", "over"} :
        Goes(r, pc) /\ (audit' = audit \/ (pc = "over" /\ Entry(r, "failed")))
  BY DEF Imported
<1> QED
  BY <1>1, <1>2, BeforeCall

\* A request calls for its task, once.
LEMMA CallsKeeps ==
  ASSUME BoardInv, NEW r \in Requests, Calls(r)
  PROVE  BoardInv'
<1>1. /\ requests[r].pc = "ready" /\ calls' = calls \cup {Call(r)} /\ Goes(r, "waiting")
      /\ UNCHANGED <<remote, table, replies, audit, performed>>
  BY DEF Calls
<1>2. requests[r].ids # <<>>
  BY <1>1, HandlerFacts DEF BoardInv
<1>3. /\ requests'[r].pc = "waiting"
      /\ \A q \in Requests : /\ requests'[q].ids = requests[q].ids
                             /\ requests'[q].action = requests[q].action
                             /\ Current(q)' = Current(q)
                             /\ q # r => requests'[q] = requests[q]
      /\ requests' \in [Requests -> HandlerType]
      /\ \A q \in Requests :
           ToSet(requests'[q].ids) \subseteq IF requests'[q].action = "create" THEN {q} ELSE Ids
  BY <1>1, <1>2, GoesFacts
<1>4. /\ Call(r) \in CallType /\ Call(r).request = r /\ Call(r).id = Current(r)
      /\ Call(r).action = requests[r].action /\ Call(r).begun = FALSE
  BY <1>2, CurrentType, HandlerFacts DEF Call, CallType, HandlerType, BoardInv
<1>5. <<r, Current(r)>> \notin performed /\ replies[r] = NoReply /\ \A c \in calls : c.request # r
  BY <1>1, <1>2, NotYet DEF BoardInv, Outstanding, Answered
<1>6. TypeOK'
  BY <1>1, <1>3, <1>4 DEF BoardInv, TypeOK
<1>7. Outstanding'
  <2>1. ASSUME NEW c \in calls'
        PROVE  /\ requests'[c.request].pc \in {"waiting", "raised"}
               /\ c.id = Current(c.request)' /\ c.action = requests'[c.request].action
               /\ requests'[c.request].pc = "waiting" => replies'[c.request] = NoReply
               /\ c.begun => c.action = "run"
               /\ c.begun <=> <<c.request, c.id>> \in performed'
    <3>1. CASE c = Call(r)
      <4>1. /\ requests'[r].pc = "waiting" /\ Current(r)' = Current(r)
            /\ requests'[r].action = requests[r].action
        BY <1>3
      <4> QED
        BY <1>1, <1>4, <1>5, <3>1, <4>1
    <3>2. CASE c \in calls
      <4>1. c.request \in Requests /\ c.request # r
        BY <1>5, <3>2, CallFacts
      <4> QED
        BY <1>1, <1>3, <3>2, <4>1 DEF BoardInv, Outstanding
    <3> QED
      BY <1>1, <3>1, <3>2
  <2>2. \A c, d \in calls' : c.request = d.request => c = d
    BY <1>1, <1>4, <1>5 DEF BoardInv, Outstanding
  <2> QED
    BY <2>1, <2>2 DEF Outstanding
<1>8. Answered'
  <2>1. \A q \in Requests : replies[q] # NoReply => q # r
    BY <1>5
  <2> QED
    BY <1>1, <1>3, <2>1 DEF BoardInv, Answered
<1>9. Entered' /\ Truthful'
  <2>1. (\A e \in audit : e[1] \in Requests) /\ \A p \in performed : p[1] \in Requests
    BY DEF BoardInv, TypeOK
  <2>2. ASSUME NEW e \in audit
        PROVE  /\ requests'[e[1]].pc = "over" \/ e[2] \notin ToSet(requests'[e[1]].ids)
               /\ requests'[e[1]].action # "create" => e[2] \in Ids
    <3>1. requests[e[1]].pc = "over" => e[1] # r
      BY <1>1
    <3>2. /\ requests[e[1]].pc = "over" \/ e[2] \notin ToSet(requests[e[1]].ids)
          /\ requests[e[1]].action # "create" => e[2] \in Ids
      BY DEF BoardInv, Entered
    <3> QED
      BY <1>3, <2>1, <3>1, <3>2
  <2>3. Entered'
    BY <1>1, <1>3, <2>1, <2>2 DEF BoardInv, Entered
  <2>4. Truthful'
    <3>1. \A e \in audit : requests'[e[1]].action = requests[e[1]].action
      BY <1>3, <2>1
    <3>2. Truthful /\ UNCHANGED <<table, audit, performed>>
      BY <1>1 DEF BoardInv
    <3> QED
      BY ONLY <3>1, <3>2 DEF Truthful
  <2> QED
    BY <2>3, <2>4
<1> QED
  BY <1>6, <1>7, <1>8, <1>9 DEF BoardInv

\* A handler is left by an exception: what it was at has no entry, whatever the
\* worker does.
LEMMA RaisesKeeps ==
  ASSUME BoardInv, NEW r \in Requests, requests[r].pc = "waiting", Goes(r, "raised"),
         replies' = [replies EXCEPT ![r] = NoReply], calls' \in SUBSET calls,
         UNCHANGED <<remote, table, audit, performed>>
  PROVE  BoardInv'
<1>1. requests[r].ids # <<>>
  BY HandlerFacts DEF BoardInv
<1>2. /\ requests'[r].pc = "raised"
      /\ \A q \in Requests : /\ requests'[q].ids = requests[q].ids
                             /\ requests'[q].action = requests[q].action
                             /\ Current(q)' = Current(q)
                             /\ q # r => requests'[q] = requests[q]
      /\ requests' \in [Requests -> HandlerType]
      /\ \A q \in Requests :
           ToSet(requests'[q].ids) \subseteq IF requests'[q].action = "create" THEN {q} ELSE Ids
  BY <1>1, GoesFacts
<1>3. /\ replies' \in [Requests -> Replies] /\ replies'[r] = NoReply
      /\ \A q \in Requests : q # r => replies'[q] = replies[q]
  BY DEF BoardInv, TypeOK, Replies
<1>4. TypeOK'
  BY <1>2, <1>3 DEF BoardInv, TypeOK
<1>5. Outstanding'
  <2>1. ASSUME NEW c \in calls'
        PROVE  /\ requests'[c.request].pc \in {"waiting", "raised"}
               /\ c.id = Current(c.request)' /\ c.action = requests'[c.request].action
               /\ requests'[c.request].pc = "waiting" => replies'[c.request] = NoReply
               /\ c.begun => c.action = "run"
               /\ c.begun <=> <<c.request, c.id>> \in performed'
    <3>1. c \in calls /\ c.request \in Requests
      BY CallFacts
    <3>2. /\ requests[c.request].pc \in {"waiting", "raised"}
          /\ c.id = Current(c.request) /\ c.action = requests[c.request].action
          /\ requests[c.request].pc = "waiting" => replies[c.request] = NoReply
          /\ c.begun => c.action = "run"
          /\ c.begun <=> <<c.request, c.id>> \in performed
      BY <3>1 DEF BoardInv, Outstanding
    <3>3. requests'[c.request].pc \in {"waiting", "raised"}
      BY <1>2, <3>1, <3>2
    <3>4. c.id = Current(c.request)' /\ c.action = requests'[c.request].action
      BY <1>2, <3>1, <3>2
    <3>5. requests'[c.request].pc = "waiting" => replies'[c.request] = NoReply
      BY <1>2, <1>3, <3>1, <3>2
    <3> QED
      BY <3>2, <3>3, <3>4, <3>5
  <2>2. \A c, d \in calls' : c.request = d.request => c = d
    BY DEF BoardInv, Outstanding
  <2> QED
    BY <2>1, <2>2 DEF Outstanding
<1>6. Answered'
  <2>1. \A q \in Requests : replies'[q] # NoReply => q # r
    BY <1>3
  <2> QED
    BY <1>2, <1>3, <2>1 DEF BoardInv, Answered
<1>7. (\A e \in audit : e[1] \in Requests) /\ \A p \in performed : p[1] \in Requests
  BY DEF BoardInv, TypeOK
<1>8. Entered'
  <2>1. ASSUME NEW e \in audit
        PROVE  /\ requests'[e[1]].pc = "over" \/ e[2] \notin ToSet(requests'[e[1]].ids)
               /\ requests'[e[1]].action # "create" => e[2] \in Ids
    <3>1. requests[e[1]].pc = "over" => e[1] # r
      OBVIOUS
    <3>2. /\ requests[e[1]].pc = "over" \/ e[2] \notin ToSet(requests[e[1]].ids)
          /\ requests[e[1]].action # "create" => e[2] \in Ids
      BY DEF BoardInv, Entered
    <3> QED
      BY <1>2, <1>7, <3>1, <3>2
  <2>2. ASSUME NEW p \in performed
        PROVE  \/ \E e \in audit : e[1] = p[1] /\ e[2] = p[2]
               \/ requests'[p[1]].pc \in {"waiting", "raised"} /\ p[2] = Current(p[1])'
    BY <1>2, <1>7 DEF BoardInv, Entered
  <2> QED
    BY <2>1, <2>2 DEF Entered
<1>9. Truthful'
  <2>1. \A e \in audit : requests'[e[1]].action = requests[e[1]].action
    BY <1>2, <1>7
  <2>2. Truthful /\ UNCHANGED <<table, audit, performed>>
    BY DEF BoardInv
  <2> QED
    BY ONLY <2>1, <2>2 DEF Truthful
<1> QED
  BY <1>4, <1>5, <1>6, <1>8, <1>9 DEF BoardInv

LEMMA LostKeeps ==
  ASSUME BoardInv, NEW r \in Requests, Unreachable(r) \/ TimeOut(r)
  PROVE  BoardInv'
<1>1. requests[r].pc = "waiting" /\ Goes(r, "raised") /\ UNCHANGED <<remote, table, audit, performed>>
  BY DEF Unreachable, TimeOut
<1>2. CASE Unreachable(r)
  <2>1. Call(r) \in calls /\ Call(r).request = r /\ calls' \in SUBSET calls /\ replies' = replies
    BY <1>2 DEF Unreachable, Call
  <2>2. replies[r] = NoReply
    BY <2>1, CallFacts
  <2>3. replies' = [replies EXCEPT ![r] = NoReply]
    BY <2>1, <2>2 DEF BoardInv, TypeOK
  <2> QED
    BY <1>1, <2>1, <2>3, RaisesKeeps
<1>3. CASE TimeOut(r)
  BY <1>1, <1>3, RaisesKeeps DEF TimeOut
<1> QED
  BY <1>2, <1>3

\* The exceptions a handler knows, and what they tell of the answer.
LEMMA StatusFacts ==
  ASSUME NEW action \in Actions, NEW reply \in Replies \ {NoReply}, Raised(reply) \in Handled(action)
  PROVE  /\ Status(Raised(reply)) \in {"succeeded", "failed", "warning"}
         /\ Status(Raised(reply)) = "succeeded" <=> reply = "ok"
         /\ reply = "TaskLookupError" => Status(Raised(reply)) = "failed"
<1>1. Raised(reply) \in {"ok", "MaximumInstancesError", "TaskLookupError"}
  BY DEF Handled
<1>2. Raised(reply) = reply
  BY <1>1 DEF Raised
<1> QED
  BY <1>1, <1>2 DEF Status

\* An answer becomes an entry, and the request goes on to its next task.
LEMMA EntryKeeps ==
  ASSUME BoardInv, NEW r \in Requests, requests[r].pc = "waiting", replies[r] # NoReply,
         replies' = [replies EXCEPT ![r] = NoReply],
         Raised(replies[r]) \in Handled(requests[r].action),
         Entry(r, Status(Raised(replies[r]))),
         requests' = [requests EXCEPT ![r].pc = IF Len(requests[r].ids) = 1 THEN "over" ELSE "ready",
                                      ![r].ids = Tail(@)],
         UNCHANGED <<remote, table, calls, performed>>
  PROVE  BoardInv'
<1> DEFINE h == requests[r]
           id == Current(r)
           status == Status(Raised(replies[r]))
<1>1. h \in HandlerType /\ h.ids # <<>> /\ h.ids \in OnceEach(All) /\ h.action \in Actions
  BY HandlerFacts DEF BoardInv, HandlerType
<1>2. /\ Head(h.ids) = id /\ Tail(h.ids) \in OnceEach(All) /\ ToSet(Tail(h.ids)) \subseteq ToSet(h.ids)
      /\ id \notin ToSet(Tail(h.ids)) /\ (Len(h.ids) # 1 => Tail(h.ids) # <<>>)
  BY <1>1, IdsLeft DEF Current
<1>3. id \in All /\ (h.action # "create" => id \in Ids)
  BY <1>1, CurrentType DEF BoardInv
<1>4. /\ requests'[r].action = h.action /\ requests'[r].ids = Tail(h.ids)
      /\ requests'[r].pc = IF Len(h.ids) = 1 THEN "over" ELSE "ready"
      /\ requests'[r] \in HandlerType
  <2>1. requests'[r] = [action |-> h.action, ids |-> Tail(h.ids), pc |-> IF Len(h.ids) = 1 THEN "over" ELSE "ready"]
    BY <1>1 DEF BoardInv, TypeOK, HandlerType
  <2> DEFINE pc == IF Len(h.ids) = 1 THEN "over" ELSE "ready"
             a  == h.action
             t  == Tail(h.ids)
  <2>2. pc \in {"over", "ready"} /\ (t # <<>> \/ pc = "over") /\ t \in OnceEach(All) /\ a \in Actions
    BY <1>1, <1>2
  <2>3. requests'[r] = [action |-> a, ids |-> t, pc |-> pc]
    BY <2>1
  <2> HIDE DEF pc, a, t
  <2>4. requests'[r].action = a /\ requests'[r].ids = t /\ requests'[r].pc = pc
    BY ONLY <2>3
  <2>5. requests'[r] \in HandlerType
    BY ONLY <2>2, <2>3 DEF HandlerType
  <2> QED
    BY <2>4, <2>5 DEF pc, a, t
<1>5. \A q \in Requests : q # r => requests'[q] = requests[q] /\ Current(q)' = Current(q)
  BY DEF BoardInv, TypeOK, Current
<1>6. /\ replies' \in [Requests -> Replies] /\ replies'[r] = NoReply
      /\ \A q \in Requests : q # r => replies'[q] = replies[q]
  BY DEF BoardInv, TypeOK, Replies
<1>7. /\ status \in {"succeeded", "failed", "warning"} /\ (status = "succeeded" <=> replies[r] = "ok")
      /\ replies[r] = "TaskLookupError" => status = "failed"
  BY <1>1, StatusFacts DEF BoardInv, TypeOK
<1>8. audit' = audit \cup {<<r, id, status>>}
  BY DEF Entry
<1>9. \A c \in calls : c.request \in Requests /\ c.request # r
  BY CallFacts
<1>10. (\A e \in audit : e[1] \in Requests) /\ \A p \in performed : p[1] \in Requests
  BY DEF BoardInv, TypeOK
<1>11. /\ replies[r] = "ok" => <<r, id>> \in performed
       /\ replies[r] # "ok" =>
            \/ <<r, id>> \notin performed
            \/ replies[r] = "TaskLookupError" /\ h.action = "run" /\ table[id] = "gone" /\ id \notin InMemory
  BY DEF BoardInv, Answered
<1> HIDE DEF h, id, status
<1>12. TypeOK'
  <2>1. requests' \in [Requests -> HandlerType]
    BY <1>4 DEF BoardInv, TypeOK
  <2>2. \A q \in Requests :
          ToSet(requests'[q].ids) \subseteq IF requests'[q].action = "create" THEN {q} ELSE Ids
    BY <1>2, <1>4, <1>5 DEF BoardInv, TypeOK, h
  <2>3. audit' \subseteq Requests \X All \X {"succeeded", "failed", "warning"}
    BY <1>3, <1>7, <1>8 DEF BoardInv, TypeOK
  <2> QED
    BY <1>6, <2>1, <2>2, <2>3 DEF BoardInv, TypeOK
<1>13. Outstanding'
  <2>1. ASSUME NEW c \in calls
        PROVE  /\ requests'[c.request].pc \in {"waiting", "raised"}
               /\ c.id = Current(c.request)' /\ c.action = requests'[c.request].action
               /\ requests'[c.request].pc = "waiting" => replies'[c.request] = NoReply
               /\ c.begun => c.action = "run"
               /\ c.begun <=> <<c.request, c.id>> \in performed
    <3>1. /\ requests'[c.request] = requests[c.request] /\ Current(c.request)' = Current(c.request)
          /\ replies'[c.request] = replies[c.request]
      BY <1>5, <1>6, <1>9
    <3>2. /\ requests[c.request].pc \in {"waiting", "raised"}
          /\ c.id = Current(c.request) /\ c.action = requests[c.request].action
          /\ requests[c.request].pc = "waiting" => replies[c.request] = NoReply
          /\ c.begun => c.action = "run"
          /\ c.begun <=> <<c.request, c.id>> \in performed
      BY DEF BoardInv, Outstanding
    <3> QED
      BY ONLY <3>1, <3>2
  <2>2. \A c, d \in calls : c.request = d.request => c = d
    BY DEF BoardInv, Outstanding
  <2> QED
    BY <2>1, <2>2 DEF Outstanding
<1>14. Answered'
  <2> SUFFICES ASSUME NEW q \in Requests, replies'[q] # NoReply
               PROVE  /\ requests'[q].pc = "waiting"
                      /\ replies'[q] = "ok" => <<q, Current(q)'>> \in performed
                      /\ replies'[q] # "ok" =>
                           \/ <<q, Current(q)'>> \notin performed
                           \/ replies'[q] = "TaskLookupError" /\ requests'[q].action = "run" /\ table[Current(q)'] = "gone" /\ Current(q)' \notin InMemory
    BY DEF Answered
  <2>1. requests'[q] = requests[q] /\ Current(q)' = Current(q) /\ replies'[q] = replies[q]
    BY <1>5, <1>6
  <2>2. Answered
    BY DEF BoardInv
  <2> QED
    BY ONLY <2>1, <2>2, q \in Requests, replies'[q] # NoReply DEF Answered
<1>15. Entered'
  <2>1. ASSUME NEW e \in audit'
        PROVE  /\ requests'[e[1]].pc = "over" \/ e[2] \notin ToSet(requests'[e[1]].ids)
               /\ requests'[e[1]].action # "create" => e[2] \in Ids
    <3>1. CASE e \in audit
      <4>1. /\ e[1] \in Requests
            /\ requests[e[1]].pc = "over" \/ e[2] \notin ToSet(requests[e[1]].ids)
            /\ requests[e[1]].action # "create" => e[2] \in Ids
        BY <1>10, <3>1 DEF BoardInv, Entered
      <4>2. CASE e[1] = r
        BY <1>2, <1>4, <4>1, <4>2 DEF h
      <4>3. CASE e[1] # r
        BY <1>5, <4>1, <4>3
      <4> QED
        BY <4>2, <4>3
    <3>2. CASE e = <<r, id, status>>
      BY <1>2, <1>3, <1>4, <3>2
    <3> QED
      BY <1>8, <3>1, <3>2
  <2>2. ASSUME NEW p \in performed
        PROVE  \/ \E e \in audit' : e[1] = p[1] /\ e[2] = p[2]
               \/ requests'[p[1]].pc \in {"waiting", "raised"} /\ p[2] = Current(p[1])'
    <3>1. p[1] \in Requests
      BY <1>10
    <3>2. \/ \E e \in audit : e[1] = p[1] /\ e[2] = p[2]
          \/ requests[p[1]].pc \in {"waiting", "raised"} /\ p[2] = Current(p[1])
      BY DEF BoardInv, Entered
    <3>3. CASE p[1] = r /\ p[2] = id
      <4>1. <<r, id, status>> \in audit'
        BY <1>8
      <4> QED
        BY <3>3, <4>1
    <3>4. CASE ~(p[1] = r /\ p[2] = id)
      BY <1>5, <1>8, <3>1, <3>2, <3>4 DEF id
    <3> QED
      BY <3>3, <3>4
  <2> QED
    BY <2>1, <2>2 DEF Entered
<1>16. Truthful'
  <2> SUFFICES ASSUME NEW e \in audit'
               PROVE  \/ (e[3] = "succeeded") <=> (<<e[1], e[2]>> \in performed)
                      \/ e[3] = "failed" /\ requests'[e[1]].action = "run" /\ table[e[2]] = "gone" /\ e[2] \notin InMemory
    BY DEF Truthful
  <2>1. CASE e \in audit
    <3>1. requests'[e[1]].action = requests[e[1]].action
      BY <1>4, <1>5, <1>10, <2>1 DEF h
    <3> QED
      BY <2>1, <3>1 DEF BoardInv, Truthful
  <2>2. CASE e = <<r, id, status>>
    BY <1>4, <1>7, <1>11, <2>2
  <2> QED
    BY <1>8, <2>1, <2>2
<1> QED
  BY <1>12, <1>13, <1>14, <1>15, <1>16 DEF BoardInv

LEMMA ReceiveKeeps ==
  ASSUME BoardInv, NEW r \in Requests, Receive(r)
  PROVE  BoardInv'
<1>1. /\ requests[r].pc = "waiting" /\ replies[r] # NoReply
      /\ replies' = [replies EXCEPT ![r] = NoReply]
      /\ UNCHANGED <<remote, table, calls, performed>>
  BY DEF Receive
<1>2. CASE Raised(replies[r]) \in Handled(requests[r].action)
  <2>1. /\ Entry(r, Status(Raised(replies[r])))
        /\ requests' = [requests EXCEPT ![r].pc = IF Len(requests[r].ids) = 1 THEN "over" ELSE "ready",
                                        ![r].ids = Tail(@)]
    BY <1>2 DEF Receive
  <2> QED
    BY <1>1, <1>2, <2>1, EntryKeeps
<1>3. CASE Raised(replies[r]) \notin Handled(requests[r].action)
  <2>1. Goes(r, "raised") /\ UNCHANGED audit
    BY <1>3 DEF Receive
  <2> QED
    BY <1>1, <2>1, RaisesKeeps
<1> QED
  BY <1>2, <1>3

-----------------------------------------------------------------------------
(* The theorem *)

LEMMA BoardStarts == ASSUME BoardInit PROVE BoardInv
<1>1. PICK handlers \in [Requests -> Single \cup Bulk \cup Edit \cup Create] :
        /\ \A r \in Requests : handlers[r].action = "create" => handlers[r].ids = <<r>>
        /\ BoardStart(handlers)
  BY DEF BoardInit
<1>2. ASSUME NEW id \in All
      PROVE  <<id>> \in OnceEach(All) /\ ToSet(<<id>>) = {id} /\ <<id>> # <<>>
  BY DEF OnceEach, ToSet
<1>3. ASSUME NEW r \in Requests
      PROVE  /\ handlers[r] \in HandlerType /\ handlers[r].pc = "form"
             /\ ToSet(handlers[r].ids) \subseteq IF handlers[r].action = "create" THEN {r} ELSE Ids
  <2>1. CASE handlers[r] \in Single \cup Edit
    <3>1. PICK a \in {"run", "pause", "resume", "remove", "edit"}, id \in Ids :
            handlers[r] = [action |-> a, ids |-> <<id>>, pc |-> "form"]
      BY <2>1 DEF Single, Edit, Handler
    <3>2. <<id>> \in OnceEach(All) /\ ToSet(<<id>>) \subseteq Ids /\ <<id>> # <<>>
      BY <1>2 DEF All
    <3> DEFINE q == <<id>>
    <3> HIDE DEF q
    <3>3. handlers[r] = [action |-> a, ids |-> q, pc |-> "form"] /\ q \in OnceEach(All) /\ ToSet(q) \subseteq Ids /\ q # <<>>
      BY <3>1, <3>2 DEF q
    <3> QED
      BY <3>3 DEF HandlerType, Actions
  <2>3. CASE handlers[r] \in Create
    <3>1. handlers[r].action = "create" /\ handlers[r].pc = "form"
          /\ handlers[r] \in [action : Actions, ids : {handlers[r].ids}, pc : {"form"}]
      BY <2>3 DEF Create, Handler, Actions
    <3>2. handlers[r].ids = <<r>>
      BY <1>1, <3>1
    <3> QED
      BY <1>2, <3>1, <3>2 DEF HandlerType, All
  <2>4. CASE handlers[r] \in Bulk
    <3>1. PICK a \in {"run", "pause", "resume", "remove"}, ids \in IdLists :
            handlers[r] = Handler(a, Deduplicated(ids))
      BY <2>4 DEF Bulk
    <3>2. ids \in Seq(Ids)
      BY DashboardAssumption
    <3>3. Deduplicated(ids) \in OnceEach(Ids) /\ ToSet(Deduplicated(ids)) \subseteq Ids
      <4>1. Deduplicated(ids) \in OnceEach(Ids) /\ ToSet(Deduplicated(ids)) = ToSet(ids)
        BY <3>2, FormsNameTasksOnce
      <4>2. ToSet(ids) \subseteq Ids
        BY <3>2 DEF ToSet
      <4> QED
        BY ONLY <4>1, <4>2
    <3>4. Deduplicated(ids) \in OnceEach(All)
      BY <3>3 DEF OnceEach, All
    <3> HIDE DEF Deduplicated
    <3> QED
      BY <3>1, <3>3, <3>4 DEF Handler, HandlerType, Actions
  <2> QED
    BY <2>1, <2>3, <2>4
<1>4. /\ remote \in BOOLEAN /\ requests = handlers /\ calls = {} /\ audit = {} /\ performed = {}
      /\ table = [id \in All |-> IF id \in Ids THEN "scheduled" ELSE "gone"]
      /\ replies = [r \in Requests |-> NoReply]
  BY <1>1 DEF BoardStart, All
<1>5. TypeOK
  <2>1. requests \in [Requests -> HandlerType]
    BY <1>3, <1>4
  <2> QED
    BY <1>3, <1>4, <2>1 DEF TypeOK, Rows, Replies
<1>6. Outstanding /\ Answered /\ Entered /\ Truthful
  BY <1>4 DEF Outstanding, Answered, Entered, Truthful
<1> QED
  BY <1>5, <1>6 DEF BoardInv

LEMMA BoardKeeps ==
  ASSUME BoardInv, [BoardNext]_board
  PROVE  BoardInv'
<1>1. CASE UNCHANGED board
  BY <1>1 DEF board, BoardInv, TypeOK, Outstanding, Answered, Entered, Truthful, Current
<1>2. ASSUME NEW r \in Requests, Handle(r)
      PROVE  BoardInv'
  BY <1>2, ParsedKeeps, LookedUpKeeps, ValidatedKeeps, ImportedKeeps, CallsKeeps, ReceiveKeeps,
     LostKeeps DEF Handle
<1> QED
  BY <1>1, <1>2, ServeKeeps, GoneKeeps DEF BoardNext

\* What is on its way, answered, entered and carried out fits together in every
\* state (controllers/tasks.py, remote.py).
THEOREM BoardInvariant == BoardSpec => []BoardInv
BY BoardStarts, BoardKeeps, PTL DEF BoardSpec

\* The audit trail and the worker agree, for any number of requests, tasks and
\* calls and whatever is lost, late or refused on the way (controllers/
\* tasks.py, remote.py).
THEOREM AuditIsTrue == BoardSpec => []AuditMatchesEffects
BY BoardInvariant, InvImplies, PTL

-----------------------------------------------------------------------------
(* The queue of callbacks *)

\* What is not the first callback stays, with all that is before it, when the
\* first is taken and others are queued.
Moved(w, s, k) ==
  /\ k - 1 \in 1..Len(w) /\ w[k - 1] = s[k]
  /\ \A i \in 1..(k - 1) : w[i] = s[i + 1] /\ i + 1 \in 1..k
LEMMA QueueMoves ==
  ASSUME NEW S, NEW s \in Seq(S), NEW u \in Seq(S), NEW k \in 1..Len(s), k # 1
  PROVE  Moved(Tail(s) \o u, s, k)
<1> DEFINE t == Tail(s)
<1>1. s # <<>> /\ Len(s) \in Nat
  OBVIOUS
<1>2. t \in Seq(S) /\ Len(t) = Len(s) - 1 /\ \A i \in 1..(Len(s) - 1) : t[i] = s[i + 1]
  BY <1>1, HeadTailProperties
<1> HIDE DEF t
<1>3. /\ t \o u \in Seq(S) /\ Len(t \o u) = Len(t) + Len(u) /\ Len(u) \in Nat
      /\ \A i \in 1..(Len(t) + Len(u)) : (t \o u)[i] = IF i <= Len(t) THEN t[i] ELSE u[i - Len(t)]
  <2>1. Len(u) \in Nat /\ t \in Seq(S) /\ u \in Seq(S)
    BY <1>2
  <2> QED
    BY <2>1, ConcatProperties
<1> DEFINE w == t \o u
<1> HIDE DEF w
<1>4. \A i \in 1..(k - 1) : w[i] = s[i + 1] /\ i + 1 \in 1..k
  <2> SUFFICES ASSUME NEW i \in 1..(k - 1)
               PROVE  w[i] = s[i + 1] /\ i + 1 \in 1..k
    OBVIOUS
  <2>1. i \in 1..Len(t) /\ i + 1 \in 1..k
    BY <1>1, <1>2
  <2>2. i \in 1..(Len(t) + Len(u)) /\ i <= Len(t)
    BY <1>2, <1>3, <2>1
  <2>3. w[i] = t[i] /\ t[i] = s[i + 1]
    BY <1>2, <1>3, <2>1, <2>2 DEF w
  <2> QED
    BY <2>1, <2>3
<1>5. k - 1 \in 1..(k - 1) /\ k - 1 \in 1..Len(w)
  BY <1>1, <1>2, <1>3 DEF w
<1>6. w[k - 1] = s[k]
  BY <1>4, <1>5
<1> QED
  BY <1>4, <1>5, <1>6 DEF w, t, Moved

LEMMA SetToSeqType ==
  ASSUME NEW S, IsFiniteSet(S)
  PROVE  SetToSeq(S) \in Seq(S)
<1>1. Cardinality(S) \in Nat /\ ExistsBijection(1..Cardinality(S), S)
  BY FS_CardinalityType
<1>2. \E f \in [1..Cardinality(S) -> S] : IsInjective(f)
  BY <1>1 DEF ExistsBijection, Bijection, Injection
<1>3. SetToSeq(S) \in [1..Cardinality(S) -> S]
  BY <1>2 DEF SetToSeq
<1> QED
  BY <1>1, <1>3

-----------------------------------------------------------------------------
(* The invariant of a command *)

Callbacks   == Jobs \cup {"wakeup", "shutdown", "stop"}
CommandType == [name : Names, job : Jobs, bootstrap : BOOLEAN, pc : {"options", "main", "loop", "over"}]

CommandTypes ==
  /\ command \in CommandType \/ (command.pc = "over" /\ told = "nothing")
  /\ rows \in [Jobs -> {"due", "later", "paused", "gone"}]
  /\ ready \in Seq(Callbacks)
  /\ futures \subseteq Jobs /\ begun \subseteq Jobs

\* The loop is told to stop, and the coroutine of run begins before that and
\* before its future is cancelled.
Comes(callback, before) ==
  \E k \in 1..Len(ready) : ready[k] = callback /\ \A i \in 1..k : ready[i] \notin before
Loops ==
  command.pc = "loop" =>
    /\ Comes("stop", {})
    /\ told = "Triggered" /\ command.job \in Coroutines \ begun =>
         command.job \in futures /\ Comes(command.job, {"shutdown", "stop"})

Keeps ==
  /\ command.pc \in {"options", "main"} => told = "nothing"
  /\ told = "Paused" => rows[command.job] = "paused"
  /\ command.pc = "over" /\ told = "Triggered" /\ command.job \in Coroutines => command.job \in begun

CommandInv == CommandTypes /\ Loops /\ Keeps

\* What the calls of a command say, and what it queues.
LEMMA OutcomeFacts ==
  ASSUME CommandTypes, command \in CommandType, NEW o \in CallOutcomes
  PROVE  /\ o.row \in {"due", "later", "paused", "gone"}
         /\ o.queued \in {<<>>, Wakes, Submits}
         /\ o.message = "Triggered" => o.queued = Submits /\ Starting = Wakes
         /\ o.message = "Paused" => o.row = "paused"
<1>1. command.job \in Jobs /\ command.name \in Names /\ rows[command.job] \in {"due", "later", "paused", "gone"}
  BY DEF CommandTypes, CommandType
<1>2. CASE command.name = "add"
  BY <1>1, <1>2 DEF CallOutcomes, Outcome
<1>3. CASE command.name = "list"
  BY <1>1, <1>3 DEF CallOutcomes, Outcome, Listed, Asking
<1>4. CASE command.name = "status"
  BY <1>1, <1>4 DEF CallOutcomes, Outcome, StatusTold, Asking
<1>5. CASE command.name = "inspect"
  BY <1>1, <1>5 DEF CallOutcomes, Outcome, Inspected, Asking
<1>6. CASE command.name = "preview"
  BY <1>1, <1>6 DEF CallOutcomes, Outcome, Previewed, Asking
<1>7. CASE command.name \notin Asking \cup {"add"} /\ ~Found
  <2>1. CallOutcomes = {}
    BY <1>1, <1>7 DEF CallOutcomes, Asking, Names
  <2> QED
    BY <2>1
<1>8. CASE command.name = "pause" /\ Found
  BY <1>1, <1>8 DEF CallOutcomes, Outcome, Asking
<1>9. CASE command.name = "resume" /\ Found
  BY <1>1, <1>9 DEF CallOutcomes, Outcome, Asking
<1>10. CASE command.name = "remove" /\ Found
  BY <1>1, <1>10 DEF CallOutcomes, Outcome, Asking
<1>11. CASE command.name = "run" /\ Found
  BY <1>1, <1>11 DEF CallOutcomes, Outcome, Asking, Starting
<1>12. CASE command.name = "update" /\ Found
  BY <1>1, <1>12 DEF CallOutcomes, Outcome, Asking
<1> QED
  BY <1>1, <1>2, <1>3, <1>4, <1>5, <1>6, <1>7, <1>8, <1>9, <1>10, <1>11, <1>12 DEF Names, Asking

\* The end of the loop is queued, and the coroutine of run before it.
LEMMA QueueStarts ==
  ASSUME command \in CommandType, NEW q \in {<<>>, Wakes, Submits}, NEW asks \in BOOLEAN, ready' = Queued(q, asks)
  PROVE  /\ ready' \in Seq(Callbacks)
         /\ Comes("stop", {})'
         /\ q = Submits /\ Starting = Wakes /\ command.job \in Coroutines =>
              \E k \in 1..Len(ready') : ready'[k] = command.job
                                        /\ \A i \in 1..k : ready'[i] \notin {"shutdown", "stop"}
<1> DEFINE first == IF Temporary /\ asks THEN <<"shutdown">> ELSE <<>>
           stop  == <<"stop">>
           end   == first \o stop
           front == Starting \o q
<1>1. command.job \in Jobs
  BY DEF CommandType
<1>2. Starting \in Seq(Callbacks) /\ q \in Seq(Callbacks)
  <2>1. <<>> \in Seq(Callbacks) /\ \A x \in Callbacks : <<x>> \in Seq(Callbacks)
    OBVIOUS
  <2>2. "wakeup" \in Callbacks /\ command.job \in Callbacks
    BY <1>1 DEF Callbacks
  <2>3. Wakes \in Seq(Callbacks) /\ Submits \in Seq(Callbacks)
    BY <2>1, <2>2 DEF Wakes, Submits
  <2> QED
    BY <2>1, <2>3 DEF Starting
<1>3. first \in Seq(Callbacks) /\ stop \in Seq(Callbacks) /\ Len(stop) = 1 /\ stop[1] = "stop" /\ Len(first) \in Nat
  <2>1. <<>> \in Seq(Callbacks) /\ \A x \in Callbacks : <<x>> \in Seq(Callbacks)
    OBVIOUS
  <2>2. "stop" \in Callbacks /\ "shutdown" \in Callbacks
    BY DEF Callbacks
  <2>3. stop \in Seq(Callbacks) /\ <<"shutdown">> \in Seq(Callbacks)
    BY <2>1, <2>2
  <2>4. first = <<"shutdown">> \/ first = <<>>
    OBVIOUS
  <2>5. first \in Seq(Callbacks)
    BY <2>1, <2>3, <2>4
  <2>6. Len(stop) = 1 /\ stop[1] = "stop"
    OBVIOUS
  <2> HIDE DEF first
  <2> QED
    BY <2>3, <2>5, <2>6
<1>4. ready' = front \o end
  BY DEF Queued, Ending
<1> HIDE DEF first, stop
<1>5. /\ end \in Seq(Callbacks) /\ Len(end) = Len(first) + Len(stop)
      /\ end[Len(first) + 1] = "stop"
  <2>1. /\ end \in Seq(Callbacks) /\ Len(end) = Len(first) + Len(stop)
        /\ \A i \in 1..(Len(first) + Len(stop)) :
             end[i] = IF i <= Len(first) THEN first[i] ELSE stop[i - Len(first)]
    BY <1>3, ConcatProperties
  <2> HIDE DEF end
  <2>2. Len(first) + 1 \in 1..(Len(first) + Len(stop)) /\ Len(first) + 1 - Len(first) = 1
        /\ ~(Len(first) + 1 <= Len(first))
    BY <1>3
  <2> QED
    BY <1>3, <2>1, <2>2
<1>6. /\ front \in Seq(Callbacks) /\ Len(front) = Len(Starting) + Len(q) /\ Len(front) \in Nat
      /\ \A i \in 1..(Len(Starting) + Len(q)) :
           front[i] = IF i <= Len(Starting) THEN Starting[i] ELSE q[i - Len(Starting)]
  BY <1>2, ConcatProperties
<1> HIDE DEF front, end
<1>7. /\ ready' \in Seq(Callbacks) /\ Len(ready') = Len(front) + Len(end) /\ Len(end) \in Nat
      /\ \A i \in 1..(Len(front) + Len(end)) :
           ready'[i] = IF i <= Len(front) THEN front[i] ELSE end[i - Len(front)]
  BY <1>4, <1>5, <1>6, ConcatProperties
<1>8. Comes("stop", {})'
  <2> DEFINE k == Len(front) + Len(end)
  <2>1. k \in 1..Len(ready') /\ ~(k <= Len(front)) /\ k - Len(front) = Len(first) + 1
    BY <1>3, <1>5, <1>6, <1>7
  <2>2. ready'[k] = "stop"
    BY <1>5, <1>7, <2>1
  <2> HIDE DEF k
  <2> QED
    BY <2>1, <2>2 DEF Comes
<1>9. ASSUME q = Submits, Starting = Wakes, command.job \in Coroutines
      PROVE  \E k \in 1..Len(ready') : ready'[k] = command.job
                                       /\ \A i \in 1..k : ready'[i] \notin {"shutdown", "stop"}
  <2>1. q = <<command.job>> /\ Starting = <<"wakeup">>
    BY <1>9 DEF Submits, Wakes
  <2>2. Len(front) = 2 /\ front[1] = "wakeup" /\ front[2] = command.job
    BY <1>6, <2>1
  <2>3. 2 \in 1..Len(ready') /\ ready'[1] = "wakeup" /\ ready'[2] = command.job
    BY <1>7, <2>2
  <2>4. command.job \notin {"shutdown", "stop"}
    BY <1>1, CommandLineAssumption
  <2>5. \A i \in 1..2 : i = 1 \/ i = 2
    OBVIOUS
  <2> QED
    BY <2>3, <2>4, <2>5
<1> QED
  BY <1>7, <1>8, <1>9

\* When the first callback is taken, what comes later still does.
LEMMA StillComes ==
  ASSUME NEW S, ready \in Seq(S), NEW u \in Seq(S), ready' = Tail(ready) \o u,
         NEW x, NEW before, Comes(x, before), Head(ready) # x
  PROVE  Comes(x, before)'
<1>1. PICK k \in 1..Len(ready) : ready[k] = x /\ \A i \in 1..k : ready[i] \notin before
  BY DEF Comes
<1>2. k # 1
  BY <1>1
<1>3. /\ k - 1 \in 1..Len(ready')
      /\ \A i \in 1..(k - 1) : ready'[i] = ready[i + 1] /\ i + 1 \in 1..k
      /\ ready'[k - 1] = ready[k]
  <2>1. ready \in Seq(S) /\ u \in Seq(S) /\ k \in 1..Len(ready) /\ k # 1
    BY <1>2
  <2>2. Moved(Tail(ready) \o u, ready, k)
    BY ONLY <2>1, QueueMoves
  <2>3. Moved(ready', ready, k)
    BY <2>2
  <2> QED
    BY <2>3 DEF Moved
<1>4. \A i \in 1..(k - 1) : ready'[i] \notin before
  BY <1>1, <1>3
<1> QED
  BY <1>1, <1>3, <1>4 DEF Comes

\* The loop has something to do until it stops.
LEMMA LoopFacts ==
  ASSUME CommandInv, command.pc = "loop"
  PROVE  /\ command \in CommandType /\ ready # <<>>
         /\ Head(ready) \in Callbacks
         /\ Tail(ready) \in Seq(Callbacks) /\ Tail(ready) = Tail(ready) \o <<>>
         /\ Comes("stop", {})
<1>1. command \in CommandType /\ Comes("stop", {}) /\ ready \in Seq(Callbacks)
  BY DEF CommandInv, CommandTypes, Loops
<1>2. ready # <<>>
  BY <1>1 DEF Comes
<1> QED
  BY <1>1, <1>2

-----------------------------------------------------------------------------
(* A command keeps the invariant *)

LEMMA OptionsKeep ==
  ASSUME CommandInv, Options
  PROVE  CommandInv'
<1>1. /\ command.pc = "options" /\ command' \in {[command EXCEPT !.pc = "over"], [command EXCEPT !.pc = "main"]}
      /\ UNCHANGED <<rows, ready, futures, begun, told>>
  BY DEF Options, Rejects, Accepts, Reaches
<1>2. command \in CommandType /\ told = "nothing"
  BY <1>1 DEF CommandInv, CommandTypes, Keeps
<1>3. command' \in CommandType /\ command'.pc # "loop"
  BY <1>1, <1>2 DEF CommandType
<1> QED
  BY <1>1, <1>2, <1>3 DEF CommandInv, CommandTypes, Loops, Keeps

LEMMA MainKeeps ==
  ASSUME CommandInv, Main
  PROVE  CommandInv'
<1>1. command.pc = "main" /\ command' = [command EXCEPT !.pc = "loop"] /\ begun' = begun
  BY DEF Main, Reaches
<1>2. command \in CommandType /\ told = "nothing" /\ CommandTypes
  BY <1>1 DEF CommandInv, CommandTypes, Keeps
<1>3. command' \in CommandType /\ command'.pc = "loop" /\ command'.job = command.job
  BY <1>1, <1>2 DEF CommandType
<1>4. CASE Succeeds
  <2>1. PICK o \in CallOutcomes :
          /\ rows' = [rows EXCEPT ![command.job] = o.row]
          /\ ready' = Queued(o.queued, TRUE)
          /\ futures' = IF o.message = "Triggered" THEN {command.job} ELSE {}
          /\ told' = o.message
    BY <1>4 DEF Succeeds
  <2>2. /\ o.row \in {"due", "later", "paused", "gone"}
        /\ o.queued \in {<<>>, Wakes, Submits}
        /\ o.message = "Triggered" => o.queued = Submits /\ Starting = Wakes
        /\ o.message = "Paused" => o.row = "paused"
    BY <1>2, OutcomeFacts
  <2>3. command.job \in Jobs
    BY <1>2 DEF CommandType
  <2>4. /\ ready' \in Seq(Callbacks) /\ Comes("stop", {})'
        /\ told' = "Triggered" /\ command.job \in Coroutines =>
             \E k \in 1..Len(ready') : ready'[k] = command.job
                                       /\ \A i \in 1..k : ready'[i] \notin {"shutdown", "stop"}
    BY <1>2, <2>1, <2>2, QueueStarts
  <2>5. rows' \in [Jobs -> {"due", "later", "paused", "gone"}] /\ rows'[command.job] = o.row
    BY <1>2, <2>1, <2>2, <2>3 DEF CommandTypes
  <2>6. CommandTypes'
    BY <1>1, <1>2, <1>3, <2>1, <2>3, <2>4, <2>5 DEF CommandTypes
  <2>7. Loops'
    BY <1>3, <2>1, <2>4 DEF Loops, Comes
  <2>8. Keeps'
    BY <1>3, <2>1, <2>2, <2>5 DEF Keeps
  <2> QED
    BY <2>6, <2>7, <2>8 DEF CommandInv
<1>5. CASE Fails
  <2>1. UNCHANGED <<rows, futures, told>> /\ \E asks \in BOOLEAN : ready' = Queued(<<>>, asks)
    <3> DEFINE asks == command.name \in {"update"} \cup Asking
    <3>1. asks \in BOOLEAN /\ ready' = Queued(<<>>, asks) /\ UNCHANGED <<rows, futures, told>>
      BY <1>5 DEF Fails
    <3> HIDE DEF asks
    <3> QED
      BY <3>1
  <2>2. ready' \in Seq(Callbacks) /\ Comes("stop", {})'
    BY <1>2, <2>1, QueueStarts
  <2> QED
    BY <1>1, <1>2, <1>3, <2>1, <2>2 DEF CommandInv, CommandTypes, Loops, Keeps
<1> QED
  BY <1>4, <1>5 DEF Main

LEMMA NotStartedKeeps ==
  ASSUME CommandInv, NotStarted
  PROVE  CommandInv'
<1>1. /\ command.pc = "main" /\ command' = [command EXCEPT !.pc = "over"]
      /\ told' \in {"Added tentatively", "nothing"} /\ UNCHANGED <<rows, ready, futures, begun>>
  BY DEF NotStarted, Reaches
<1>2. command \in CommandType
  BY <1>1 DEF CommandInv, CommandTypes
<1>3. command' \in CommandType /\ command'.pc = "over"
  BY <1>1, <1>2 DEF CommandType
<1> QED
  BY <1>1, <1>3 DEF CommandInv, CommandTypes, Loops, Keeps

\* Before the coroutine of run, which is not the first, or begins.
LEMMA TakesCallback ==
  ASSUME CommandInv, command.pc = "loop", Head(ready) # "stop", NEW u \in Seq(Callbacks),
         ready' = Tail(ready) \o u, UNCHANGED <<command, told>>,
         rows' \in [Jobs -> {"due", "later", "paused", "gone"}],
         told = "Paused" => rows'[command.job] = rows[command.job],
         futures' \subseteq Jobs, begun' \subseteq Jobs, begun \subseteq begun',
         told = "Triggered" /\ command.job \in Coroutines \ begun' =>
           (command.job \in futures => command.job \in futures' \/ Head(ready) = "shutdown")
             /\ Head(ready) # command.job
  PROVE  CommandInv'
<1>1. /\ command \in CommandType /\ ready # <<>> /\ Tail(ready) \in Seq(Callbacks)
      /\ ready \in Seq(Callbacks) /\ Comes("stop", {})
  BY LoopFacts DEF CommandInv, CommandTypes
<1>2. ready' \in Seq(Callbacks)
  BY <1>1, ConcatProperties
<1>3. Comes("stop", {})'
  BY <1>1, StillComes
<1>4. ASSUME told = "Triggered", command.job \in Coroutines \ begun'
      PROVE  command.job \in futures' /\ Comes(command.job, {"shutdown", "stop"})'
  <2>1. command.job \in futures /\ Comes(command.job, {"shutdown", "stop"}) /\ Head(ready) # command.job
    BY <1>4 DEF CommandInv, Loops
  <2>2. Comes(command.job, {"shutdown", "stop"})'
    BY <1>1, <2>1, StillComes
  <2>3. Head(ready) # "shutdown"
    <3>1. PICK k \in 1..Len(ready) : \A i \in 1..k : ready[i] \notin {"shutdown", "stop"}
      BY <2>1 DEF Comes
    <3>2. 1 \in 1..k /\ Head(ready) = ready[1]
      BY <1>1
    <3> QED
      BY <3>1, <3>2
  <2> QED
    BY <1>4, <2>1, <2>2, <2>3
<1>5. CommandTypes'
  BY <1>1, <1>2 DEF CommandTypes
<1>6. Loops'
  BY <1>3, <1>4 DEF Loops, Comes
<1>7. Keeps'
  BY DEF CommandInv, Keeps
<1> QED
  BY <1>5, <1>6, <1>7 DEF CommandInv

\* A round of the command queues behind what is there.
LEMMA WakeupKeeps ==
  ASSUME CommandInv, Wakeup
  PROVE  CommandInv'
<1> DEFINE u == SetToSeq(Due \cap Coroutines)
<1>1. /\ command.pc = "loop" /\ Head(ready) = "wakeup"
      /\ futures' = futures \cup Due /\ ready' = Tail(ready) \o u
      /\ UNCHANGED <<command, begun, told>>
  BY DEF Wakeup
<1>2. PICK later \in [Due -> {"later", "gone"}] :
        rows' = [j \in Jobs |-> IF j \in Due THEN later[j] ELSE rows[j]]
  BY DEF Wakeup
<1>3. command.job \in Jobs /\ Due \subseteq Jobs /\ rows \in [Jobs -> {"due", "later", "paused", "gone"}]
  BY <1>1, LoopFacts DEF CommandType, CommandInv, CommandTypes, Due
<1>4. u \in Seq(Callbacks)
  <2> DEFINE S == Due \cap Coroutines
  <2>1. S \in SUBSET Jobs
    BY <1>3
  <2> HIDE DEF S
  <2>2. SetToSeq(S) \in Seq(S)
    BY <2>1, CommandLineAssumption, FS_Subset, SetToSeqType
  <2>3. Seq(S) \subseteq Seq(Callbacks)
    <3>1. S \subseteq Callbacks
      BY <2>1 DEF Callbacks
    <3> QED
      BY <3>1
  <2> QED
    BY <2>2, <2>3 DEF S
<1>5. rows' \in [Jobs -> {"due", "later", "paused", "gone"}]
  BY <1>2, <1>3
<1>6. told = "Paused" => rows'[command.job] = rows[command.job]
  <2>1. told = "Paused" => command.job \notin Due
    BY DEF CommandInv, Keeps, Due
  <2> QED
    BY <1>2, <1>3, <2>1
<1>7. futures' \subseteq Jobs /\ begun' \subseteq Jobs /\ command.job # "wakeup"
  BY <1>1, <1>3, CommandLineAssumption DEF CommandInv, CommandTypes
<1> HIDE DEF u
<1> QED
  BY <1>1, <1>4, <1>5, <1>6, <1>7, TakesCallback

LEMMA CallbackKeeps ==
  ASSUME CommandInv, CoroutineStep \/ Shutdown
  PROVE  CommandInv'
<1>1. /\ command.pc = "loop" /\ ready' = Tail(ready) /\ UNCHANGED <<command, rows, told>>
      /\ Head(ready) \in Jobs \/ Head(ready) = "shutdown"
  BY DEF CoroutineStep, Shutdown
<1>2. /\ command \in CommandType /\ ready' = Tail(ready) \o <<>> /\ <<>> \in Seq(Callbacks)
  BY <1>1, LoopFacts
<1>3. /\ command.job \in Jobs /\ rows \in [Jobs -> {"due", "later", "paused", "gone"}]
      /\ futures \subseteq Jobs /\ begun \subseteq Jobs
  BY <1>2 DEF CommandType, CommandInv, CommandTypes
<1>4. Head(ready) # "stop"
  BY <1>1, CommandLineAssumption
<1>5. /\ futures' \subseteq Jobs /\ begun' \subseteq Jobs /\ begun \subseteq begun'
      /\ futures' = futures \/ Head(ready) = "shutdown"
  BY <1>3 DEF CoroutineStep, Shutdown
<1>6. ASSUME told = "Triggered", command.job \in Coroutines \ begun'
      PROVE  Head(ready) # command.job
  <2>1. command.job \in futures
    BY <1>1, <1>5, <1>6 DEF CommandInv, Loops
  <2>2. CASE CoroutineStep
    BY <1>6, <2>1, <2>2 DEF CoroutineStep
  <2>3. CASE Shutdown
    BY <1>3, <2>3, CommandLineAssumption DEF Shutdown
  <2> QED
    BY <2>2, <2>3
<1> QED
  BY <1>1, <1>2, <1>3, <1>4, <1>5, <1>6, TakesCallback

LEMMA ThreadKeeps ==
  ASSUME CommandInv, Thread
  PROVE  CommandInv'
<1>1. begun \subseteq begun' /\ UNCHANGED <<rows, command, ready, futures, told>>
  BY DEF Thread
<1>2. begun' \subseteq Jobs
  BY DEF Thread, CommandInv, CommandTypes
<1>3. CommandTypes' /\ Keeps'
  BY <1>1, <1>2 DEF CommandInv, CommandTypes, Keeps
<1>4. Loops'
  BY <1>1 DEF CommandInv, Loops, Comes
<1> QED
  BY <1>3, <1>4 DEF CommandInv

\* What run has queued comes before the end.
LEMMA LoopStopsKeeps ==
  ASSUME CommandInv, LoopStops
  PROVE  CommandInv'
<1>1. /\ command.pc = "loop" /\ Head(ready) = "stop" /\ command' = [command EXCEPT !.pc = "over"]
      /\ ready' = <<>> /\ UNCHANGED <<rows, futures, begun, told>>
  BY DEF LoopStops, Reaches
<1>2. command \in CommandType /\ ready # <<>> /\ ready \in Seq(Callbacks)
  BY <1>1, LoopFacts DEF CommandInv, CommandTypes
<1>3. command' \in CommandType /\ command'.pc = "over" /\ command'.job = command.job
  BY <1>1, <1>2 DEF CommandType
<1>4. ASSUME told = "Triggered", command.job \in Coroutines
      PROVE  command.job \in begun
  <2> SUFFICES ASSUME command.job \notin begun
               PROVE  FALSE
    OBVIOUS
  <2>1. PICK k \in 1..Len(ready) : \A i \in 1..k : ready[i] \notin {"shutdown", "stop"}
    BY <1>1, <1>4 DEF CommandInv, Loops, Comes
  <2>2. 1 \in 1..k /\ Head(ready) = ready[1]
    BY <1>2
  <2> QED
    BY <1>1, <2>1, <2>2
<1>5. CommandTypes'
  BY <1>1, <1>3 DEF CommandInv, CommandTypes
<1> QED
  BY <1>1, <1>3, <1>4, <1>5 DEF CommandInv, Loops, Keeps

-----------------------------------------------------------------------------
(* asyncz start *)

Stages == {"boot", "started", "watching", "reload", "finally", "left", "over"}
ServerType == [pc : Stages, bootstrap : BOOLEAN, generation : Nat, reloads : Nat]
HooksType  == [on_start : Nat, on_stop : Nat]

\* Of each generation the counter holds a reference for every shutdown that has
\* still to come to it, and one more for the current generation, or for the one
\* that its hook is called for.
Times(q, g) == Cardinality({i \in DOMAIN q : q[i] = g})
CurrentUp ==
  CASE server.pc = "watching" -> {server.generation}
    [] server.pc = "started"  -> {server.generation + 1}
    [] OTHER                  -> {}
Held(g) == IF g \in CurrentUp THEN 1 ELSE 0
Going == server.pc \in {"boot", "started", "watching", "reload"}

ServerInv ==
  /\ server \in ServerType
  /\ server.reloads <= MaxReloads
  /\ server.pc \in {"boot", "started"} => server.generation <= server.reloads
  /\ server.pc = "watching" => server.generation \in 1..(server.reloads + 1)
  /\ server.pc \in {"reload", "finally"} => server.generation \in Generations
  /\ server.pc = "reload" => server.generation <= server.reloads
  /\ server.pc = "started" => ~server.bootstrap
RefsInv ==
  /\ asked \in Seq(Generations)
  /\ refs \in [Generations -> Int]
  /\ Going => \A g \in Generations : refs[g] = Times(asked, g) + Held(g)
\* on_stop has been called for every start that is over, and possibly once more.
HooksInv ==
  /\ hooks \in HooksType
  /\ hooks.on_stop <= Starts + 1
  /\ server.pc \in {"boot", "started", "reload", "finally"} => hooks.on_stop <= Starts
  /\ server.pc = "watching" => hooks.on_stop <= Starts /\ (~server.bootstrap => hooks.on_stop < Starts)
StarterInv == ServerInv /\ RefsInv /\ HooksInv

LEMMA PlacesFinite ==
  ASSUME NEW q \in Seq(Generations), NEW g
  PROVE  IsFiniteSet({i \in DOMAIN q : q[i] = g}) /\ Times(q, g) \in Nat
<1>1. DOMAIN q = 1..Len(q) /\ 1 \in Int /\ Len(q) \in Int
  BY LenProperties
<1>2. IsFiniteSet(1..Len(q))
  BY <1>1, FS_Interval
<1>3. IsFiniteSet({i \in DOMAIN q : q[i] = g})
  BY <1>1, <1>2, FS_Subset
<1> QED
  BY <1>3, FS_CardinalityType DEF Times

\* A shutdown more in the queue.
LEMMA QueueGrows ==
  ASSUME NEW q \in Seq(Generations), NEW h \in Generations, NEW g \in Generations
  PROVE  /\ Append(q, h) \in Seq(Generations)
         /\ Times(Append(q, h), g) = Times(q, g) + (IF h = g THEN 1 ELSE 0)
<1> DEFINE a == Append(q, h)
           S == {i \in DOMAIN q : q[i] = g}
           T == {i \in DOMAIN a : a[i] = g}
<1>1. /\ a \in Seq(Generations) /\ Len(q) \in Nat /\ DOMAIN q = 1..Len(q) /\ DOMAIN a = 1..(Len(q) + 1)
      /\ a[Len(q) + 1] = h /\ \A i \in 1..Len(q) : a[i] = q[i]
  BY AppendProperties, LenProperties
<1>2. IsFiniteSet(S) /\ Cardinality(S) = Times(q, g) /\ Times(q, g) \in Nat
  BY PlacesFinite DEF Times
<1>3. Times(a, g) = Cardinality(T)
  BY DEF Times
<1>4. Len(q) + 1 \notin S
  BY <1>1
<1> HIDE DEF a
<1>5. ASSUME h = g PROVE Times(a, g) = Times(q, g) + 1
  <2>1. T = S \cup {Len(q) + 1}
    BY <1>1, <1>5
  <2> HIDE DEF S, T
  <2>2. Cardinality(T) = Cardinality(S) + 1
    BY <1>2, <1>4, <2>1, FS_AddElement
  <2> QED
    BY <1>2, <1>3, <1>5, <2>2
<1>6. ASSUME h # g PROVE Times(a, g) = Times(q, g)
  <2>1. T = S
    BY <1>1, <1>6
  <2> QED
    BY <1>2, <1>3, <1>6, <2>1
<1>7. Times(a, g) = Times(q, g) + (IF h = g THEN 1 ELSE 0)
  BY <1>2, <1>5, <1>6
<1> QED
  BY <1>1, <1>7 DEF a

\* The shutdown at the head has come to its generation: the places of the
\* others move by one.
LEMMA QueuePops ==
  ASSUME NEW q \in Seq(Generations), q # <<>>, NEW g \in Generations
  PROVE  /\ Tail(q) \in Seq(Generations) /\ Head(q) \in Generations
         /\ Times(q, g) = Times(Tail(q), g) + (IF Head(q) = g THEN 1 ELSE 0)
<1> DEFINE t == Tail(q)
           S == {i \in DOMAIN q : q[i] = g}
           T == {i \in DOMAIN t : t[i] = g}
           Shift == [i \in T |-> i + 1]
<1>1. /\ t \in Seq(Generations) /\ Head(q) \in Generations /\ Len(q) \in Nat /\ Len(q) # 0
      /\ Len(t) = Len(q) - 1 /\ \A i \in 1..Len(t) : t[i] = q[i + 1]
  BY HeadTailProperties, LenProperties, EmptySeq
<1>2. DOMAIN q = 1..Len(q) /\ DOMAIN t = 1..Len(t)
  BY <1>1, LenProperties
<1>3. Head(q) = q[1]
  OBVIOUS
<1>4. /\ IsFiniteSet(S) /\ Times(q, g) = Cardinality(S)
      /\ IsFiniteSet(T) /\ Times(t, g) = Cardinality(T) /\ Times(t, g) \in Nat
  BY <1>1, PlacesFinite DEF Times
<1> HIDE DEF t
<1>5. \A i \in T : i \in Nat /\ i + 1 \in S \ {1}
  BY <1>1, <1>2
<1>6. \A i \in S \ {1} : i - 1 \in T /\ (i - 1) + 1 = i
  BY <1>1, <1>2
<1>7. 1 \in S <=> Head(q) = g
  BY <1>1, <1>2, <1>3
<1> HIDE DEF S, T
<1>8. Shift \in Bijection(T, S \ {1})
  <2>1. Shift \in [T -> S \ {1}]
    BY <1>5
  <2>2. \A i, k \in T : Shift[i] = Shift[k] => i = k
    BY <1>5
  <2>3. \A i \in S \ {1} : \E k \in T : Shift[k] = i
    BY <1>6
  <2> QED
    BY <2>1, <2>2, <2>3, Fun_IsBij
<1>9. Cardinality(S \ {1}) = Cardinality(T)
  BY <1>4, <1>8, FS_Bijection DEF ExistsBijection
<1>10. ASSUME Head(q) = g PROVE Times(q, g) = Times(t, g) + 1
  <2>1. 1 \in S /\ S = (S \ {1}) \cup {1} /\ 1 \notin S \ {1} /\ IsFiniteSet(S \ {1})
    BY <1>4, <1>7, <1>10, FS_RemoveElement
  <2>2. Cardinality(S) = Cardinality(S \ {1}) + 1
    BY <2>1, FS_AddElement
  <2> QED
    BY <1>4, <1>9, <2>2
<1>11. ASSUME Head(q) # g PROVE Times(q, g) = Times(t, g)
  <2>1. S = S \ {1}
    BY <1>7, <1>11
  <2> QED
    BY <1>4, <1>9, <2>1
<1>12. Times(q, g) = Times(t, g) + (IF Head(q) = g THEN 1 ELSE 0)
  BY <1>4, <1>10, <1>11
<1> QED
  BY <1>1, <1>12 DEF t

\* What a step makes of where the server is, and of its hooks.
LEMMA Moves ==
  ASSUME server \in ServerType, NEW pc \in Stages, At(pc)
  PROVE  /\ server' \in ServerType /\ server'.pc = pc /\ server'.bootstrap = server.bootstrap
         /\ server'.generation = server.generation /\ server'.reloads = server.reloads
BY DEF At, ServerType

LEMMA HookCalled ==
  ASSUME hooks \in HooksType
  PROVE  /\ CallsHook("on_start") => /\ hooks' \in HooksType /\ hooks'.on_start = hooks.on_start + 1
                                     /\ hooks'.on_stop = hooks.on_stop
         /\ CallsHook("on_stop") => /\ hooks' \in HooksType /\ hooks'.on_start = hooks.on_start
                                    /\ hooks'.on_stop = hooks.on_stop + 1
BY DEF CallsHook, HooksType

LEMMA Advances ==
  ASSUME server \in ServerType, NEW pc \in Stages, NEW g \in Nat
  PROVE  /\ server' = [server EXCEPT !.pc = pc, !.generation = g] =>
              /\ server' \in ServerType /\ server'.pc = pc /\ server'.generation = g
              /\ server'.bootstrap = server.bootstrap /\ server'.reloads = server.reloads
         /\ server' = [server EXCEPT !.pc = pc, !.reloads = g] =>
              /\ server' \in ServerType /\ server'.pc = pc /\ server'.reloads = g
              /\ server'.bootstrap = server.bootstrap /\ server'.generation = server.generation
BY DEF ServerType

\* What the invariant says of the types.
LEMMA StarterFacts ==
  ASSUME StarterInv
  PROVE  /\ server \in ServerType /\ server.pc \in Stages /\ server.bootstrap \in BOOLEAN
         /\ server.generation \in Nat /\ server.reloads \in Nat
         /\ hooks \in HooksType /\ hooks.on_start \in Nat /\ hooks.on_stop \in Nat /\ Starts \in Nat
         /\ asked \in Seq(Generations) /\ refs \in [Generations -> Int] /\ MaxReloads \in Nat
BY CommandLineAssumption DEF StarterInv, ServerInv, RefsInv, HooksInv, ServerType, HooksType, Starts

\* With the queue and the counters as they were, the counters still match if
\* the current generation is as it was, or the server is on its way out.
LEMMA RefsStay ==
  ASSUME RefsInv, UNCHANGED <<asked, refs>>, Going' => Going /\ CurrentUp' = CurrentUp
  PROVE  RefsInv'
BY DEF RefsInv, Held

LEMMA LoadFailsKeeps ==
  ASSUME StarterInv, LoadFails
  PROVE  StarterInv'
<1>1. /\ server.pc = "boot" /\ BootFails \in {"finally", "over"} /\ At(BootFails)
      /\ UNCHANGED <<asked, refs, hooks>>
  BY DEF LoadFails, BootFails
<1>2. /\ server' \in ServerType /\ server'.pc = BootFails /\ server'.bootstrap = server.bootstrap
      /\ server'.generation = server.generation /\ server'.reloads = server.reloads
  BY <1>1, StarterFacts, Moves DEF Stages
<1>3. ServerInv'
  <2>1. server'.pc = "finally" => server.generation # 0
    BY <1>2 DEF BootFails
  <2> QED
    BY <1>1, <1>2, <2>1, StarterFacts DEF StarterInv, ServerInv, Generations
<1>4. RefsInv'
  BY <1>1, <1>2, RefsStay DEF StarterInv, Going
<1>5. HooksInv'
  BY <1>1, <1>2 DEF StarterInv, HooksInv, Starts
<1> QED
  BY <1>3, <1>4, <1>5 DEF StarterInv

LEMMA BootKeeps ==
  ASSUME StarterInv, Boot
  PROVE  StarterInv'
<1> DEFINE n == Booted
<1>1. /\ server.pc = "boot" /\ refs' = [refs EXCEPT ![n] = @ + 1] /\ UNCHANGED <<asked, hooks>>
      /\ \/ ~server.bootstrap /\ At("started")
         \/ server.bootstrap /\ server' = [server EXCEPT !.pc = "watching", !.generation = n]
  BY DEF Boot
<1>2. server.generation <= server.reloads /\ server.reloads <= MaxReloads
  BY <1>1 DEF StarterInv, ServerInv
<1>3. n \in Generations /\ n \in Nat
  BY <1>2, StarterFacts DEF Generations, Booted
<1>4. /\ server' \in ServerType /\ server'.bootstrap = server.bootstrap /\ server'.reloads = server.reloads
      /\ ~server.bootstrap => server'.pc = "started" /\ server'.generation = server.generation
      /\ server.bootstrap => server'.pc = "watching" /\ server'.generation = 1
  <2>1. CASE server.bootstrap
    <3>1. server' = [server EXCEPT !.pc = "watching", !.generation = 1]
      BY <1>1, <2>1 DEF Booted
    <3> QED
      BY <2>1, <3>1, StarterFacts, Advances DEF Stages
  <2>2. CASE ~server.bootstrap
    BY <1>1, <2>2, StarterFacts, Moves DEF Stages
  <2> QED
    BY <2>1, <2>2, StarterFacts
<1>5. ServerInv'
  BY <1>2, <1>4, StarterFacts DEF ServerInv
<1>6. RefsInv'
  <2>1. CurrentUp = {} /\ CurrentUp' = {n} /\ Going
    BY <1>1, <1>4 DEF CurrentUp, Going, Booted
  <2> HIDE DEF n
  <2>2. /\ refs' \in [Generations -> Int]
        /\ \A g \in Generations : refs'[g] = IF g = n THEN refs[g] + 1 ELSE refs[g]
    BY <1>1, <1>3, StarterFacts
  <2>3. ASSUME NEW g \in Generations
        PROVE  refs'[g] = Times(asked, g) + Held(g)'
    <3>1. refs[g] = Times(asked, g) + 0 /\ Times(asked, g) \in Nat
      BY <2>1, StarterFacts, PlacesFinite DEF StarterInv, RefsInv, Held
    <3>2. Held(g)' = IF g = n THEN 1 ELSE 0
      BY <2>1 DEF Held
    <3> QED
      BY <2>2, <3>1, <3>2
  <2> QED
    BY <1>1, <2>2, <2>3, StarterFacts DEF RefsInv
<1>7. HooksInv'
  BY <1>1, <1>4, StarterFacts DEF StarterInv, HooksInv, Starts
<1> QED
  BY <1>5, <1>6, <1>7 DEF StarterInv

LEMMA StartHookKeeps ==
  ASSUME StarterInv, StartHook
  PROVE  StarterInv'
<1> DEFINE n == server.generation + 1
<1>1. /\ server.pc = "started" /\ CallsHook("on_start") /\ UNCHANGED <<asked, refs>>
      /\ server' = [server EXCEPT !.pc = "watching", !.generation = n] \/ At(BootFails)
  BY DEF StartHook
<1>2. ~server.bootstrap /\ server.generation <= server.reloads /\ server.reloads <= MaxReloads /\ n \in Nat
  BY <1>1, StarterFacts DEF StarterInv, ServerInv
<1>3. hooks' \in HooksType /\ hooks'.on_start = hooks.on_start + 1 /\ hooks'.on_stop = hooks.on_stop
  BY <1>1, StarterFacts, HookCalled
<1>4. hooks.on_stop <= hooks.on_start
  BY <1>1, <1>2 DEF StarterInv, HooksInv, Starts
<1>5. CASE server' = [server EXCEPT !.pc = "watching", !.generation = n]
  <2> HIDE DEF n
  <2>1. /\ server' \in ServerType /\ server'.pc = "watching" /\ server'.bootstrap = server.bootstrap
        /\ server'.generation = n /\ server'.reloads = server.reloads
    BY <1>2, <1>5, StarterFacts, Advances DEF Stages
  <2>2. ServerInv'
    BY <1>2, <2>1, StarterFacts DEF ServerInv, n
  <2>3. CurrentUp' = CurrentUp /\ Going
    BY <1>1, <2>1 DEF CurrentUp, Going, n
  <2>4. RefsInv'
    BY <1>1, <2>3, RefsStay DEF StarterInv
  <2>5. HooksInv'
    BY <1>2, <1>3, <1>4, <2>1, StarterFacts DEF HooksInv, Starts
  <2> QED
    BY <2>2, <2>4, <2>5 DEF StarterInv
<1>6. CASE At(BootFails)
  <2>1. BootFails \in {"finally", "over"}
    BY DEF BootFails
  <2>2. /\ server' \in ServerType /\ server'.pc = BootFails /\ server'.bootstrap = server.bootstrap
        /\ server'.generation = server.generation /\ server'.reloads = server.reloads
    BY <1>6, <2>1, StarterFacts, Moves DEF Stages
  <2>3. server'.pc = "finally" => server.generation # 0
    BY <2>2 DEF BootFails
  <2>4. ServerInv'
    BY <1>2, <2>1, <2>2, <2>3, StarterFacts DEF ServerInv, Generations
  <2>5. RefsInv'
    BY <1>1, <2>1, <2>2, RefsStay DEF StarterInv, Going
  <2>6. HooksInv'
    BY <1>2, <1>3, <1>4, <2>1, <2>2, StarterFacts DEF HooksInv, Starts
  <2> QED
    BY <2>4, <2>5, <2>6 DEF StarterInv
<1> QED
  BY <1>1, <1>5, <1>6

LEMMA ChangedKeeps ==
  ASSUME StarterInv, Changed
  PROVE  StarterInv'
<1> DEFINE n == server.reloads + 1
<1>1. /\ server.pc = "watching" /\ server.reloads < MaxReloads /\ CallsHook("on_stop") /\ refs' = refs
      /\ \/ Asks /\ server' = [server EXCEPT !.pc = "reload", !.reloads = n]
         \/ asked' = asked /\ server' = [server EXCEPT !.pc = "finally", !.reloads = n]
  BY DEF Changed
<1>2. n \in Nat /\ server.generation \in 1..n /\ server.generation \in Generations
  BY <1>1, StarterFacts DEF StarterInv, ServerInv, Generations
<1>3. /\ server' \in ServerType /\ server'.bootstrap = server.bootstrap
      /\ server'.generation = server.generation /\ server'.reloads = n
      /\ (server'.pc = "reload" /\ Asks) \/ (server'.pc = "finally" /\ asked' = asked)
  BY <1>1, <1>2, StarterFacts, Advances DEF Stages
<1>4. hooks' \in HooksType /\ hooks'.on_start = hooks.on_start /\ hooks'.on_stop = hooks.on_stop + 1
  BY <1>1, StarterFacts, HookCalled
<1>5. ServerInv'
  BY <1>1, <1>2, <1>3, StarterFacts DEF ServerInv, Generations
<1>6. RefsInv'
  <2>1. CASE server'.pc = "finally" /\ asked' = asked
    BY <1>1, <2>1, StarterFacts DEF RefsInv, Going
  <2>2. CASE server'.pc = "reload" /\ Asks
    <3>1. asked' = Append(asked, server.generation) /\ CurrentUp = {server.generation} /\ CurrentUp' = {} /\ Going
      BY <1>1, <2>2 DEF Asks, CurrentUp, Going
    <3>2. ASSUME NEW g \in Generations
          PROVE  refs[g] = Times(asked', g) + Held(g)'
      <4>1. refs[g] = Times(asked, g) + Held(g)
        BY <3>1 DEF StarterInv, RefsInv
      <4>2. Held(g) = (IF server.generation = g THEN 1 ELSE 0) /\ Held(g)' = 0
        BY <3>1 DEF Held
      <4>3. Times(asked', g) = Times(asked, g) + (IF server.generation = g THEN 1 ELSE 0)
        BY <1>2, <3>1, StarterFacts, QueueGrows
      <4>4. Times(asked, g) \in Nat
        BY StarterFacts, PlacesFinite
      <4> QED
        BY <4>1, <4>2, <4>3, <4>4
    <3>3. asked' \in Seq(Generations)
      BY <1>2, <3>1, StarterFacts, AppendProperties
    <3> QED
      BY <1>1, <3>2, <3>3, StarterFacts DEF RefsInv
  <2> QED
    BY <1>3, <2>1, <2>2
<1>7. HooksInv'
  <2>1. hooks.on_stop <= Starts /\ (~server.bootstrap => hooks.on_stop < Starts)
    BY <1>1 DEF StarterInv, HooksInv
  <2> QED
    BY <1>3, <1>4, <2>1, StarterFacts DEF HooksInv, Starts
<1> QED
  BY <1>5, <1>6, <1>7 DEF StarterInv

\* The reload of the module, and the way to the end.
LEMMA LeavesKeep ==
  ASSUME StarterInv, Reload \/ Interrupt
  PROVE  StarterInv'
<1>1. /\ server.pc \in {"reload", "watching"} /\ UNCHANGED <<asked, refs, hooks>>
      /\ \/ server.pc = "reload" /\ At("boot")
         \/ At("finally")
         \/ At("left")
  BY DEF Reload, Interrupt
<1>2. PICK pc \in {"boot", "finally", "left"} : At(pc) /\ (pc = "boot" => server.pc = "reload")
  BY <1>1
<1>3. /\ server' \in ServerType /\ server'.pc = pc /\ server'.bootstrap = server.bootstrap
      /\ server'.generation = server.generation /\ server'.reloads = server.reloads
  BY <1>2, StarterFacts, Moves DEF Stages
<1>4. ServerInv'
  BY <1>1, <1>2, <1>3, StarterFacts DEF StarterInv, ServerInv, Generations
<1>5. RefsInv'
  <2>1. Going' => Going /\ CurrentUp' = CurrentUp
    BY <1>2, <1>3 DEF Going, CurrentUp
  <2> QED
    BY <1>1, <2>1, RefsStay DEF StarterInv
<1>6. HooksInv'
  BY <1>1, <1>2, <1>3, StarterFacts DEF StarterInv, HooksInv, Starts
<1> QED
  BY <1>4, <1>5, <1>6 DEF StarterInv

LEMMA FinallyKeeps ==
  ASSUME StarterInv, Finally
  PROVE  StarterInv'
<1>1. /\ server.pc = "finally" /\ CallsHook("on_stop") /\ At("over") /\ refs' = refs
      /\ Asks \/ asked' = asked
  BY DEF Finally
<1>2. /\ server' \in ServerType /\ server'.pc = "over" /\ server'.bootstrap = server.bootstrap
      /\ server'.generation = server.generation /\ server'.reloads = server.reloads
  BY <1>1, StarterFacts, Moves DEF Stages
<1>3. hooks' \in HooksType /\ hooks'.on_start = hooks.on_start /\ hooks'.on_stop = hooks.on_stop + 1
  BY <1>1, StarterFacts, HookCalled
<1>4. ServerInv'
  BY <1>1, <1>2 DEF StarterInv, ServerInv
<1>5. asked' \in Seq(Generations)
  <2>1. server.generation \in Generations
    BY <1>1 DEF StarterInv, ServerInv
  <2>2. Append(asked, server.generation) \in Seq(Generations)
    BY <2>1, StarterFacts, AppendProperties
  <2> QED
    BY <1>1, <2>2, StarterFacts DEF Asks
<1>6. RefsInv'
  BY <1>1, <1>2, <1>5, StarterFacts DEF RefsInv, Going
<1>7. HooksInv'
  <2>1. hooks.on_stop <= Starts
    BY <1>1 DEF StarterInv, HooksInv
  <2> QED
    BY <1>2, <1>3, <2>1, StarterFacts DEF HooksInv, Starts
<1> QED
  BY <1>4, <1>6, <1>7 DEF StarterInv

LEMMA DownKeeps ==
  ASSUME StarterInv, Down
  PROVE  StarterInv'
<1> DEFINE h == Head(asked)
<1>1. /\ asked # <<>> /\ refs' = [refs EXCEPT ![h] = @ - 1] /\ asked' = Tail(asked)
      /\ UNCHANGED <<server, hooks>>
  BY DEF Down
<1>2. h \in Generations /\ asked' \in Seq(Generations)
  BY <1>1, StarterFacts, HeadTailProperties
<1>3. /\ refs' \in [Generations -> Int]
      /\ \A g \in Generations : refs'[g] = IF g = h THEN refs[g] - 1 ELSE refs[g]
  <2> HIDE DEF h
  <2> QED
    BY <1>1, <1>2, StarterFacts
<1>4. ASSUME Going, NEW g \in Generations
      PROVE  refs'[g] = Times(asked', g) + Held(g)
  <2>1. refs[g] = Times(asked, g) + Held(g)
    BY <1>4 DEF StarterInv, RefsInv
  <2>2. Times(asked, g) = Times(asked', g) + (IF h = g THEN 1 ELSE 0)
    BY <1>1, StarterFacts, QueuePops
  <2>3. \A q \in Seq(Generations) : Times(q, g) \in Nat
    BY PlacesFinite
  <2>4. Times(asked', g) \in Nat /\ Held(g) \in Int
    BY <1>2, <2>3 DEF Held
  <2> HIDE DEF h
  <2> QED
    BY <1>3, <2>1, <2>2, <2>4
<1>5. Going' = Going /\ CurrentUp' = CurrentUp
  BY <1>1 DEF Going, CurrentUp
<1>6. RefsInv'
  BY <1>2, <1>3, <1>4, <1>5 DEF RefsInv, Held
<1>7. ServerInv' /\ HooksInv'
  BY <1>1 DEF StarterInv, ServerInv, HooksInv, Starts
<1> QED
  BY <1>6, <1>7 DEF StarterInv

LEMMA StarterKeeps ==
  ASSUME StarterInv, ServerNext
  PROVE  StarterInv'
BY LoadFailsKeeps, BootKeeps, StartHookKeeps, ChangedKeeps, LeavesKeep, FinallyKeeps, DownKeeps DEF ServerNext

-----------------------------------------------------------------------------
(* The theorem *)

LEMMA CliStarts == ASSUME CliInit PROVE CommandInv /\ StarterInv
<1>1. /\ rows \in [Jobs -> {"due", "later", "paused", "gone"}]
      /\ ready = <<>> /\ futures = {} /\ begun = {} /\ told = "nothing"
  BY DEF CliInit, CommandStart
<1>2. command.pc \in {"options", "over"} /\ (command \in CommandType \/ command.pc = "over")
  <2>1. CASE \E name \in Names, j \in Jobs, b \in BOOLEAN : command = Command(name, j, b)
    BY <2>1 DEF Command, CommandType
  <2>2. CASE command = [NoCommand EXCEPT !.pc = "over"]
    BY <2>2 DEF NoCommand, Command
  <2> QED
    BY <2>1, <2>2 DEF CliInit, CommandStart
<1>3. CommandInv
  <2>1. CommandTypes
    BY <1>1, <1>2 DEF CommandTypes
  <2> QED
    BY <1>1, <1>2, <2>1 DEF CommandInv, Loops, Keeps
<1>4. PICK pc \in {"over", "boot"}, b \in BOOLEAN :
        /\ server = [pc |-> pc, bootstrap |-> b, generation |-> 0, reloads |-> 0]
        /\ asked = <<>> /\ refs = [g \in Generations |-> 0] /\ hooks = [on_start |-> 0, on_stop |-> 0]
  BY DEF CliInit, ServerStart
<1>5. /\ server \in ServerType /\ server.pc \in {"over", "boot"} /\ server.generation = 0 /\ server.reloads = 0
      /\ hooks \in HooksType /\ hooks.on_start = 0 /\ hooks.on_stop = 0
  BY <1>4 DEF ServerType, Stages, HooksType
<1>6. StarterInv
  <2>1. ServerInv
    BY <1>5, CommandLineAssumption DEF ServerInv
  <2>2. HooksInv
    BY <1>5 DEF HooksInv, Starts
  <2>3. asked \in Seq(Generations) /\ refs \in [Generations -> Int]
    BY <1>4
  <2>4. \A g \in Generations : Times(asked, g) = 0 /\ Held(g) = 0
    <3>1. \A g \in Generations : {i \in DOMAIN asked : asked[i] = g} = {}
      BY <1>4
    <3> QED
      BY <1>5, <3>1, FS_EmptySet DEF Times, Held, CurrentUp
  <2>5. RefsInv
    BY <1>4, <2>3, <2>4 DEF RefsInv
  <2> QED
    BY <2>1, <2>2, <2>5 DEF StarterInv
<1> QED
  BY <1>3, <1>6

LEMMA CliKeeps ==
  ASSUME CommandInv, StarterInv, [CliNext]_<<cli, starter>>
  PROVE  CommandInv' /\ StarterInv'
<1>1. UNCHANGED cli => CommandInv'
  BY DEF cli, CommandInv, CommandTypes, Loops, Keeps, Comes
<1>2. UNCHANGED starter => StarterInv'
  BY DEF starter, StarterInv, ServerInv, RefsInv, HooksInv, Starts, Going, Held, CurrentUp
<1>3. CommandNext => CommandInv'
  BY OptionsKeep, MainKeeps, NotStartedKeeps, WakeupKeeps, CallbackKeeps, ThreadKeeps, LoopStopsKeeps DEF CommandNext
<1>4. ServerNext => StarterInv'
  BY StarterKeeps
<1> QED
  BY <1>1, <1>2, <1>3, <1>4 DEF CliNext

\* For any jobs and any number of reloads: what run says it triggered has begun,
\* what pause says it paused is, and asyncz start, with a bootstrap or without,
\* leaves no generation behind, does not stop the current one, and calls on_stop
\* at most once more than it has starts or reloads to end (run.py:58,
\* start.py:74, 134, 155).
THEOREM WordIsKept == CliSpec => []CommandsKeepTheirWord
<1>1. CommandInv /\ StarterInv => CommandsKeepTheirWord
  <2> SUFFICES ASSUME CommandInv, StarterInv PROVE CommandsKeepTheirWord
    OBVIOUS
  <2>1. ASSUME server.pc = "watching", asked = <<>>
        PROVE  Up = {server.generation}
    <3>1. \A g \in Generations : Times(asked, g) = 0
      <4>1. \A g \in Generations : {i \in DOMAIN asked : asked[i] = g} = {}
        BY <2>1
      <4> QED
        BY <4>1, FS_EmptySet DEF Times
    <3>2. \A g \in Generations : refs[g] = IF g = server.generation THEN 1 ELSE 0
      BY <2>1, <3>1 DEF StarterInv, RefsInv, Going, Held, CurrentUp
    <3>3. server.generation \in Generations
      BY <2>1, StarterFacts DEF StarterInv, ServerInv, Generations
    <3> QED
      BY <3>2, <3>3 DEF Up
  <2> QED
    BY <2>1 DEF CommandInv, Keeps, StarterInv, HooksInv, CommandsKeepTheirWord
<1> QED
  BY <1>1, CliStarts, CliKeeps, PTL DEF CliSpec
==============================================================================
