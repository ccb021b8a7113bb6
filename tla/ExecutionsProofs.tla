--------------------------- MODULE ExecutionsProofs ---------------------------
(***************************************************************************)
(* What Executions promises, for every executor, any max_instances, grace, *)
(* length of the history, and any number of submissions and run times:     *)
(*   ExecutionTypes    what jobs, senders and records may be;              *)
(*   InstancesAreJobs  the count of instances is that of the jobs, those   *)
(*                     included that a pool has dropped;                   *)
(*   HistoryOfEvents   the history tells what happened;                    *)
(*   OutcomesStay      an outcome is not overwritten by a submission.      *)
(* The first part says of each action that it keeps the types and what it  *)
(* does to jobs, senders and records; the invariants are shown from that.  *)
(***************************************************************************)
EXTENDS Executions, FiniteSetTheorems, TLAPS

Statuses == Terminal \cup {"running"}
Phases   == {"running", "ended", "died", "dispatching", "over", "failed", "cancelled"}
\* Nobody takes the first of an empty list, and an event has its code.
Sender ==
  {t \in [pc : {"idle", "send", "hook", "inline", "dispatch", "write", "end"},
          times : Seq(Nat), job : Nat, code : {"", "submitted", "max_instances"},
          record : Nat, seen : Statuses \cup {""}] :
     /\ t.pc # "idle" => t.times # <<>>
     /\ t.pc \in {"dispatch", "write"} => t.code # ""}
Job ==
  {job \in [times : Seq(Nat), left : Seq(Nat), events : Seq(Terminal \X Nat),
            hooked : BOOLEAN, phase : Phases] :
     /\ job.phase = "running" => job.left # <<>>
     /\ job.phase \in {"ended", "dispatching"} => job.events # <<>>}
RunRecord == [time : Nat, status : Statuses]

\* Every record that the history keeps exists, and the one that a listener is
\* about to write.
TypeOK ==
  /\ kind \in Kinds /\ wait \in BOOLEAN
  /\ state \in {"up", "stopping", "joining", "down"}
  /\ instances \in Int
  /\ jobs \in Seq(Job)
  /\ senders \in [Senders -> Sender]
  /\ lock \in Senders \cup {"free"}
  /\ due \in Nat
  /\ records \in Seq(RunRecord)
  /\ order \in Seq(Nat) /\ ToSet(order) \subseteq DOMAIN records
  /\ \A s \in Senders : senders[s].pc = "write" => senders[s].record \in DOMAIN records

-----------------------------------------------------------------------------
(* Types *)

\* What the first, the last and the rest of a sequence are.
LEMMA SeqFacts ==
  ASSUME NEW S, NEW q \in Seq(S), q # <<>>
  PROVE  /\ Len(q) \in Nat \ {0} /\ Head(q) \in S /\ Last(q) \in S /\ Tail(q) \in Seq(S)
         /\ Len(q) # 1 => Tail(q) # <<>>
         /\ DOMAIN q = 1..Len(q)
         /\ Len(Tail(q)) = Len(q) - 1
         /\ \A i \in 1..(Len(q) - 1) : Tail(q)[i] = q[i + 1]
         /\ Head(q) = q[1]
<1>1. Len(q) \in Nat /\ DOMAIN q = 1..Len(q) /\ (\A i \in 1..Len(q) : q[i] \in S)
  OBVIOUS
<1>2. Len(q) # 0
  OBVIOUS
<1>3. Tail(q) \in Seq(S) /\ Len(Tail(q)) = Len(q) - 1 /\ \A i \in 1..(Len(q) - 1) : Tail(q)[i] = q[i + 1]
  BY <1>2
<1>4. Head(q) = q[1] /\ Last(q) = q[Len(q)]
  BY DEF Last
<1>5. Len(q) # 1 => Tail(q) # <<>>
  <2>1. Len(<<>>) = 0
    OBVIOUS
  <2> SUFFICES ASSUME Len(q) # 1, Tail(q) = <<>>
               PROVE FALSE
    OBVIOUS
  <2>2. Len(Tail(q)) = 0
    BY <2>1
  <2>3. Len(q) \in Nat /\ Len(Tail(q)) = Len(q) - 1
    BY <1>1, <1>3
  <2> QED
    BY <2>2, <2>3
<1> QED
  BY <1>1, <1>2, <1>3, <1>4, <1>5

\* Nobody is anywhere at first.
LEMMA IdleType == Idle \in Sender
<1>1. <<>> \in Seq(Nat)
  OBVIOUS
<1> QED
  BY <1>1 DEF Idle, Sender

\* The initial state has the types.
LEMMA InitTyped == ASSUME Init PROVE TypeOK
<1>1. senders = [s \in Senders |-> Idle]
  BY DEF Init, Rest
<1>2. kind \in Kinds /\ wait \in BOOLEAN /\ state = "up" /\ instances = 0 /\ jobs = <<>> /\ lock = "free"
      /\ due = 1 /\ records = <<>> /\ order = <<>>
  BY ExecutionsAssumption DEF Init, Rest
<1>3. ToSet(order) = {}
  BY <1>2 DEF ToSet
<1>4. \A s \in Senders : senders[s].pc = "idle"
  BY <1>1 DEF Idle
<1> QED
  BY <1>1, <1>2, <1>3, <1>4, IdleType DEF TypeOK

\* A sender that becomes t.
LEMMA StepTyped ==
  ASSUME TypeOK, NEW s \in Senders, NEW t \in Sender, Step(s, t)
  PROVE  /\ senders' \in [Senders -> Sender] /\ senders'[s] = t
         /\ \A r \in Senders \ {s} : senders'[r] = senders[r]
BY DEF TypeOK, Step

\* Sequences of records of which one is replaced, or to which one is added.
LEMMA Replaced ==
  ASSUME NEW S, NEW q \in Seq(S), NEW i \in DOMAIN q, NEW v \in S
  PROVE  /\ [q EXCEPT ![i] = v] \in Seq(S) /\ DOMAIN [q EXCEPT ![i] = v] = DOMAIN q
         /\ [q EXCEPT ![i] = v][i] = v
         /\ \A k \in DOMAIN q \ {i} : [q EXCEPT ![i] = v][k] = q[k]
OBVIOUS

LEMMA Added ==
  ASSUME NEW S, NEW q \in Seq(S), NEW v \in S
  PROVE  /\ Append(q, v) \in Seq(S) /\ DOMAIN Append(q, v) = DOMAIN q \cup {Len(q) + 1}
         /\ Append(q, v)[Len(q) + 1] = v /\ Len(q) + 1 \notin DOMAIN q
         /\ \A k \in DOMAIN q : Append(q, v)[k] = q[k]
OBVIOUS

\* A submission has at least one run time.
LEMMA DueTimesType ==
  ASSUME TypeOK, NEW times \in DueTimes
  PROVE  times \in Seq(Nat) /\ times # <<>>
<1>1. PICK latest \in due..MaxTimes :
        times = IF kind \in Coalesced THEN <<latest>> ELSE [i \in 1..(latest - due + 1) |-> due + i - 1]
  BY DEF DueTimes
<1>2. latest \in Nat /\ latest - due + 1 \in Nat \ {0} /\ due \in Nat
  BY <1>1, ExecutionsAssumption DEF TypeOK
<1>3. CASE kind \in Coalesced
  BY <1>1, <1>2, <1>3
<1>4. CASE kind \notin Coalesced
  <2>1. \A i \in 1..(latest - due + 1) : due + i - 1 \in Nat
    BY <1>2
  <2> DEFINE n == latest - due + 1
             f == [i \in 1..n |-> due + i - 1]
  <2>2. f \in Seq(Nat) /\ Len(f) = n
    BY <2>1, <1>2
  <2>3. times = f
    BY <1>1, <1>4
  <2> QED
    BY <2>2, <2>3, <1>2
<1> QED
  BY <1>3, <1>4
-----------------------------------------------------------------------------
\* Submission

\* A step that leaves the records alone, and lets nobody begin to write.
LEMMA UntouchedRecords ==
  ASSUME TypeOK, UNCHANGED <<records, order>>, senders' \in [Senders -> Sender],
         \A r \in Senders : senders'[r].pc = "write" => senders'[r] = senders[r]
  PROVE  /\ records' \in Seq(RunRecord) /\ order' \in Seq(Nat) /\ ToSet(order') \subseteq DOMAIN records'
         /\ \A r \in Senders : senders'[r].pc = "write" => senders'[r].record \in DOMAIN records'
BY DEF TypeOK

LEMMA BeginTyped ==
  ASSUME TypeOK, NEW s \in Senders, Begin(s)
  PROVE  TypeOK'
<1>1. PICK times \in DueTimes : Step(s, [Going(s, "send") EXCEPT !.times = times])
  BY DEF Begin
<1> DEFINE t == [Going(s, "send") EXCEPT !.times = times]
<1>2. senders[s] \in Sender /\ times \in Seq(Nat) /\ times # <<>>
  BY <1>1, DueTimesType DEF TypeOK
<1>3. t \in Sender
  BY <1>2 DEF Sender, Going
<1>4. t.pc = "send"
  BY <1>2 DEF Sender, Going
<1>5. Step(s, t)
  BY <1>1
<1> HIDE DEF t
<1>6. senders' \in [Senders -> Sender] /\ \A r \in Senders : senders'[r].pc = "write" => senders'[r] = senders[r]
  BY <1>3, <1>4, <1>5, StepTyped
<1>7. UNCHANGED <<kind, wait, state, instances, jobs, lock, due, records, order>>
  BY DEF Begin, scheduler, history
<1> QED
  BY <1>6, <1>7, UntouchedRecords DEF TypeOK

\* The next run time after a submission.
LEMMA NextDueType ==
  ASSUME NEW s \in Senders, senders[s].times \in Seq(Nat), senders[s].times # <<>>
  PROVE  NextDue(s) \in Nat
<1>1. Last(senders[s].times) \in Nat
  BY SeqFacts
<1>2. Last(senders[s].times) + 1 \in Nat
  BY <1>1
<1> QED
  BY <1>2 DEF NextDue

LEMMA AfterTyped ==
  ASSUME TypeOK, NEW s \in Senders, senders[s].pc # "idle", NEW code \in {"", "submitted", "max_instances"},
         After(s, code)
  PROVE  /\ senders' \in [Senders -> Sender] /\ due' \in Nat
         /\ senders'[s].pc \in {"idle", "dispatch"}
         /\ \A r \in Senders \ {s} : senders'[r] = senders[r]
         /\ \A r \in Senders : senders'[r].pc = "write" => senders'[r] = senders[r]
<1> DEFINE t == IF code = "" THEN Idle ELSE [Going(s, "dispatch") EXCEPT !.job = 0, !.code = code]
<1>1. senders[s] \in Sender /\ senders[s].times # <<>> /\ senders[s].times \in Seq(Nat)
  BY DEF TypeOK, Sender
<1>2. t \in Sender /\ t.pc \in {"idle", "dispatch"}
  BY <1>1, IdleType DEF Sender, Going, Idle
<1>3. Step(s, t)
  BY DEF After
<1> HIDE DEF t
<1>4. senders' \in [Senders -> Sender] /\ senders'[s].pc \in {"idle", "dispatch"}
      /\ \A r \in Senders \ {s} : senders'[r] = senders[r]
  BY <1>2, <1>3, StepTyped
<1>5. NextDue(s) \in Nat
  BY <1>1, NextDueType
<1> QED
  BY <1>4, <1>5 DEF After, TypeOK

\* The job that a submission makes.
NewJob(s) ==
  [times |-> senders[s].times, left |-> senders[s].times, events |-> <<>>, hooked |-> FALSE, phase |-> "running"]

LEMMA NewJobType ==
  ASSUME TypeOK, NEW s \in Senders, senders[s].pc = "send"
  PROVE  NewJob(s) \in Job
<1>1. <<>> \in Seq(Terminal \X Nat)
  OBVIOUS
<1>2. senders[s] \in Sender
  BY DEF TypeOK
<1> QED
  BY <1>1, <1>2 DEF NewJob, Job, Sender, Phases

\* What a call of Send does.
LEMMA SendCases ==
  ASSUME NEW s \in Senders, Send(s)
  PROVE  /\ senders[s].pc = "send" /\ lock = "free"
         /\ UNCHANGED <<kind, wait, state, instances, records, order, observed>>
         /\ \/ /\ After(s, "max_instances") \/ After(s, "")
               /\ UNCHANGED <<jobs, lock>>
            \/ /\ ~AtMaximum(instances)
               /\ jobs' = Append(jobs, NewJob(s)) /\ lock' = s /\ due' = due
               /\ Step(s, [Going(s, "hook") EXCEPT !.job = Len(jobs) + 1])
BY DEF Send, NewJob, scheduler, history

LEMMA HookSender ==
  ASSUME TypeOK, NEW s \in Senders, senders[s].pc = "send"
  PROVE  LET t == [Going(s, "hook") EXCEPT !.job = Len(jobs) + 1]
         IN  t \in Sender /\ t.pc = "hook" /\ t.job = Len(jobs) + 1
<1>1. senders[s] \in Sender /\ Len(jobs) + 1 \in Nat
  BY DEF TypeOK
<1> QED
  BY <1>1 DEF Going, Sender

\* The sender that has made a job goes on to attach its callback.
LEMMA HookStep ==
  ASSUME TypeOK, NEW s \in Senders, senders[s].pc = "send",
         Step(s, [Going(s, "hook") EXCEPT !.job = Len(jobs) + 1])
  PROVE  /\ senders' \in [Senders -> Sender]
         /\ \A r \in Senders : senders'[r].pc = "write" => senders'[r] = senders[r]
<1> DEFINE t == [Going(s, "hook") EXCEPT !.job = Len(jobs) + 1]
<1>1. t \in Sender /\ t.pc = "hook"
  BY HookSender
<1>2. Step(s, t)
  OBVIOUS
<1> HIDE DEF t
<1>3. /\ senders' \in [Senders -> Sender] /\ senders'[s] = t
      /\ \A r \in Senders \ {s} : senders'[r] = senders[r]
  BY <1>1, <1>2, StepTyped
<1> QED
  BY <1>1, <1>3

LEMMA SendTyped ==
  ASSUME TypeOK, NEW s \in Senders, Send(s)
  PROVE  TypeOK'
<1>1. senders[s].pc = "send" /\ UNCHANGED <<kind, wait, state, instances, records, order>>
  BY SendCases
<1>2. CASE (After(s, "max_instances") \/ After(s, "")) /\ UNCHANGED <<jobs, lock>>
  <2>1. /\ senders' \in [Senders -> Sender] /\ due' \in Nat
        /\ \A r \in Senders : senders'[r].pc = "write" => senders'[r] = senders[r]
    BY <1>1, <1>2, AfterTyped
  <2> QED
    BY <1>1, <1>2, <2>1, UntouchedRecords DEF TypeOK
<1>3. CASE /\ jobs' = Append(jobs, NewJob(s)) /\ lock' = s /\ due' = due
           /\ Step(s, [Going(s, "hook") EXCEPT !.job = Len(jobs) + 1])
  <2>1. senders' \in [Senders -> Sender] /\ \A r \in Senders : senders'[r].pc = "write" => senders'[r] = senders[r]
    BY <1>1, <1>3, HookStep
  <2>2. jobs' \in Seq(Job)
    BY <1>1, <1>3, NewJobType, Added DEF TypeOK
  <2> QED
    BY <1>1, <1>3, <2>1, <2>2, UntouchedRecords DEF TypeOK
<1> QED
  BY <1>2, <1>3, SendCases

\* What a callback makes of a job.
LEMMA CalledBackTyped ==
  ASSUME TypeOK, NEW j \in DOMAIN jobs, Done(j)
  PROVE  /\ CalledBack(j) \in Seq(Job) /\ DOMAIN CalledBack(j) = DOMAIN jobs
         /\ CalledBack(j)[j].phase \in {"failed", "dispatching"}
         /\ \A k \in DOMAIN jobs \ {j} : CalledBack(j)[k] = jobs[k]
<1> DEFINE v == [jobs[j] EXCEPT !.phase = IF jobs[j].phase = "died" THEN "failed" ELSE "dispatching"]
<1>1. jobs[j] \in Job
  BY DEF TypeOK
<1>2. v \in Job /\ v.phase \in {"failed", "dispatching"}
  BY <1>1 DEF Job, Done, Phases
<1>3. CalledBack(j) = [jobs EXCEPT ![j] = v]
  BY DEF CalledBack
<1> HIDE DEF v
<1>4. jobs \in Seq(Job)
  BY DEF TypeOK
<1> QED
  BY <1>2, <1>3, <1>4, Replaced

LEMMA HookTyped ==
  ASSUME TypeOK, NEW s \in Senders, Hook(s), senders[s].job \in DOMAIN jobs
  PROVE  TypeOK'
<1> DEFINE j == senders[s].job
           t == Going(s, "inline")
<1>1. senders[s] \in Sender /\ senders[s].pc = "hook"
  BY DEF TypeOK, Hook
<1>2. t \in Sender /\ t.pc = "inline"
  BY <1>1 DEF Going, Sender
<1>3. Step(s, t) /\ Done(j) /\ jobs' = CalledBack(j) /\ instances' = instances - Uncounted(j)
      /\ UNCHANGED <<kind, wait, state, lock, due, records, order>>
  BY DEF Hook, scheduler, history
<1>4. senders' \in [Senders -> Sender] /\ \A r \in Senders : senders'[r].pc = "write" => senders'[r] = senders[r]
  BY <1>2, <1>3, StepTyped
<1>5. jobs' \in Seq(Job)
  BY <1>3, CalledBackTyped
<1>6. instances' \in Int
  BY <1>3 DEF TypeOK, Uncounted
<1> QED
  BY <1>3, <1>4, <1>5, <1>6, UntouchedRecords DEF TypeOK

\* What a call of Count does.
LEMMA CountCases ==
  ASSUME NEW s \in Senders, Count(s)
  PROVE  /\ instances' = instances + 1 /\ lock' = "free" /\ After(s, "submitted")
         /\ UNCHANGED <<kind, wait, state, records, order, observed>>
         /\ \/ senders[s].pc = "hook" /\ jobs' = [jobs EXCEPT ![senders[s].job].hooked = TRUE]
            \/ senders[s].pc = "inline" /\ jobs' = jobs
BY DEF Count, scheduler, history

LEMMA HookedTyped ==
  ASSUME TypeOK, NEW j \in DOMAIN jobs, NEW q, q = [jobs EXCEPT ![j].hooked = TRUE]
  PROVE  /\ q \in Seq(Job) /\ DOMAIN q = DOMAIN jobs
         /\ q[j].hooked = TRUE /\ q[j].phase = jobs[j].phase
         /\ \A k \in DOMAIN jobs \ {j} : q[k] = jobs[k]
<1> DEFINE v == [jobs[j] EXCEPT !.hooked = TRUE]
<1>1. jobs[j] \in Job /\ jobs \in Seq(Job)
  BY DEF TypeOK
<1>2. v \in Job /\ v.hooked = TRUE /\ v.phase = jobs[j].phase
  BY <1>1 DEF Job
<1>3. q = [jobs EXCEPT ![j] = v]
  OBVIOUS
<1> HIDE DEF v
<1>4. v \in Job
  BY <1>2
<1>5. /\ q \in Seq(Job) /\ DOMAIN q = DOMAIN jobs /\ q[j] = v
      /\ \A k \in DOMAIN jobs \ {j} : q[k] = jobs[k]
  BY ONLY <1>1, <1>3, <1>4, Replaced
<1> QED
  BY <1>2, <1>5

LEMMA CountTyped ==
  ASSUME TypeOK, NEW s \in Senders, Count(s), senders[s].job \in DOMAIN jobs
  PROVE  TypeOK'
<1>1. senders[s].pc # "idle"
  BY CountCases
<1>2. /\ senders' \in [Senders -> Sender] /\ due' \in Nat
      /\ \A r \in Senders : senders'[r].pc = "write" => senders'[r] = senders[r]
  BY <1>1, AfterTyped, CountCases
<1>3. jobs' \in Seq(Job)
  BY HookedTyped, CountCases DEF TypeOK
<1>4. instances' \in Int
  <2>1. instances' = instances + 1 /\ instances \in Int
    BY CountCases DEF TypeOK
  <2> QED
    BY <2>1
<1> QED
  BY <1>2, <1>3, <1>4, CountCases, UntouchedRecords DEF TypeOK

-----------------------------------------------------------------------------
\* The history

\* The record that a listener finds, or makes.
LEMMA TouchedType ==
  ASSUME TypeOK, NEW time, NEW n \in Touched(time)
  PROVE  \/ n \in DOMAIN records /\ records[n].time = time
         \/ n \notin DOMAIN records /\ n = Len(records) + 1
<1>1. Len(records) \in Nat /\ DOMAIN records = 1..Len(records) /\ ToSet(order) \subseteq DOMAIN records
  BY DEF TypeOK
<1>2. CASE RecordOf(time) # {}
  BY <1>1, <1>2 DEF Touched, RecordOf
<1>3. CASE RecordOf(time) = {}
  BY <1>1, <1>3 DEF Touched
<1> QED
  BY <1>2, <1>3

\* The oldest go, and only they.
LEMMA KeptOrder ==
  ASSUME TypeOK, NEW n \in Nat
  PROVE  /\ Kept(Append(order, n)) \in Seq(Nat)
         /\ ToSet(Kept(Append(order, n))) \subseteq ToSet(order) \cup {n}
<1> DEFINE q == Append(order, n)
<1>1. q \in Seq(Nat) /\ Len(q) \in Nat /\ q # <<>>
  <2>1. order \in Seq(Nat)
    BY DEF TypeOK
  <2>2. q \in Seq(Nat) /\ Len(q) = Len(order) + 1 /\ Len(order) \in Nat
    BY <2>1
  <2>3. Len(<<>>) = 0
    OBVIOUS
  <2> HIDE DEF q
  <2> QED
    BY <2>2, <2>3
<1>2. ToSet(q) \subseteq ToSet(order) \cup {n}
  BY DEF ToSet, TypeOK
<1>3. Tail(q) \in Seq(Nat) /\ DOMAIN Tail(q) = 1..(Len(q) - 1) /\ DOMAIN q = 1..Len(q)
      /\ \A i \in 1..(Len(q) - 1) : Tail(q)[i] = q[i + 1]
  BY <1>1, SeqFacts
<1> HIDE DEF q
<1>4. ToSet(Tail(q)) \subseteq ToSet(q)
  <2> SUFFICES ASSUME NEW i \in 1..(Len(q) - 1)
               PROVE  Tail(q)[i] \in ToSet(q)
    BY <1>3 DEF ToSet
  <2>1. i + 1 \in 1..Len(q)
    BY <1>1
  <2> QED
    BY <1>3, <2>1 DEF ToSet
<1> QED
  BY <1>1, <1>2, <1>3, <1>4 DEF Kept, q

\* One record is made or gets another status; it is of its run time.
Writes(n, time) ==
  /\ records' \in Seq(RunRecord) /\ order' \in Seq(Nat) /\ ToSet(order') \subseteq DOMAIN records'
  /\ n \in Nat /\ n \in DOMAIN records' /\ records'[n].time = time
  /\ DOMAIN records \subseteq DOMAIN records'
  /\ \A k \in DOMAIN records' : k # n => k \in DOMAIN records /\ records'[k] = records[k]
  /\ \A k \in DOMAIN records : records'[k].time = records[k].time

LEMMA RecordMade ==
  ASSUME TypeOK, NEW time \in Nat, NEW status \in Statuses, NEW n, n = Len(records) + 1,
         records' = Append(records, [time |-> time, status |-> status]),
         order' = Kept(Append(order, n))
  PROVE  Writes(n, time) /\ n \notin DOMAIN records /\ records'[n].status = status
<1> DEFINE r == [time |-> time, status |-> status]
<1>1. r \in RunRecord /\ r.time = time /\ r.status = status
  BY DEF RunRecord
<1>2. records \in Seq(RunRecord) /\ n \in Nat
  BY DEF TypeOK
<1>3. records' = Append(records, r)
  OBVIOUS
<1> HIDE DEF r
<1>4. /\ records' \in Seq(RunRecord) /\ DOMAIN records' = DOMAIN records \cup {n}
      /\ records'[n] = r /\ n \notin DOMAIN records
      /\ \A k \in DOMAIN records : records'[k] = records[k]
  BY <1>1, <1>2, <1>3, Added
<1>5. order' \in Seq(Nat) /\ ToSet(order') \subseteq ToSet(order) \cup {n} /\ ToSet(order) \subseteq DOMAIN records
  BY <1>2, KeptOrder DEF TypeOK
<1> QED
  BY <1>1, <1>2, <1>4, <1>5 DEF Writes

LEMMA StatusSet ==
  ASSUME TypeOK, NEW n \in DOMAIN records, NEW status \in Statuses, UNCHANGED order,
         records' = [records EXCEPT ![n].status = status]
  PROVE  Writes(n, records[n].time) /\ records'[n].status = status
<1> DEFINE r == [records[n] EXCEPT !.status = status]
<1>1. records \in Seq(RunRecord) /\ records[n] \in RunRecord /\ n \in Nat
  BY DEF TypeOK
<1>2. r \in RunRecord /\ r.time = records[n].time /\ r.status = status
  BY <1>1 DEF RunRecord
<1>3. records' = [records EXCEPT ![n] = r]
  OBVIOUS
<1> HIDE DEF r
<1>4. /\ records' \in Seq(RunRecord) /\ DOMAIN records' = DOMAIN records
      /\ records'[n] = r
      /\ \A k \in DOMAIN records \ {n} : records'[k] = records[k]
  BY <1>1, <1>2, <1>3, Replaced
<1> QED
  BY <1>1, <1>2, <1>4 DEF Writes, TypeOK

LEMMA UpsertWrites ==
  ASSUME TypeOK, NEW time \in Nat, NEW n \in Touched(time), Upsert(n, time)
  PROVE  /\ Writes(n, time)
         /\ n \in DOMAIN records => records' = records
         /\ n \notin DOMAIN records => records'[n].status = "running"
<1>1. CASE n \in DOMAIN records
  <2>1. records' = records /\ order' = order /\ records[n].time = time
    BY <1>1, TouchedType DEF Upsert
  <2>2. n \in Nat
    BY <1>1 DEF TypeOK
  <2> QED
    BY <1>1, <2>1, <2>2 DEF Writes, TypeOK
<1>2. CASE n \notin DOMAIN records
  <2>1. n = Len(records) + 1
    BY <1>2, TouchedType
  <2> QED
    BY <1>2, <2>1, RecordMade DEF Upsert, Statuses
<1> QED
  BY <1>1, <1>2

LEMMA UpsertAsWrites ==
  ASSUME TypeOK, NEW time \in Nat, NEW n \in Touched(time), NEW status \in Statuses, UpsertAs(n, time, status)
  PROVE  Writes(n, time) /\ records'[n].status = status
<1>1. CASE n \in DOMAIN records
  BY <1>1, TouchedType, StatusSet DEF UpsertAs
<1>2. CASE n \notin DOMAIN records
  <2>1. n = Len(records) + 1
    BY <1>2, TouchedType
  <2> QED
    BY <1>2, <2>1, RecordMade DEF UpsertAs
<1> QED
  BY <1>1, <1>2

\* The status that a listener has read, and the one that it writes.
LEMMA RecordTyped ==
  ASSUME TypeOK, NEW s \in Senders, Record(s)
  PROVE  /\ TypeOK'
         /\ senders'[s].pc = "write" /\ senders'[s].times = senders[s].times /\ senders'[s].code = senders[s].code
         /\ senders[s].times # <<>> /\ Head(senders[s].times) \in Nat
         /\ Writes(senders'[s].record, Head(senders[s].times))
         /\ senders'[s].record \in DOMAIN records => records' = records
         /\ senders'[s].record \notin DOMAIN records => records'[senders'[s].record].status = "running"
         /\ \A r \in Senders \ {s} : senders'[r] = senders[r]
<1> DEFINE time == Head(senders[s].times)
<1>1. senders[s] \in Sender /\ senders[s].pc = "dispatch" /\ senders[s].times # <<>> /\ senders[s].times \in Seq(Nat)
      /\ senders[s].code # ""
  BY DEF TypeOK, Record, Sender
<1>2. time \in Nat
  BY <1>1, SeqFacts
<1>3. PICK n \in Touched(time) :
        /\ Upsert(n, time)
        /\ Step(s, [Going(s, "write") EXCEPT !.record = n, !.seen = records'[n].status])
  BY DEF Record
<1>4. /\ Writes(n, time)
      /\ n \in DOMAIN records => records' = records
      /\ n \notin DOMAIN records => records'[n].status = "running"
  BY <1>2, <1>3, UpsertWrites
<1>5. records'[n].status \in Statuses /\ n \in Nat
  <2>1. records'[n] \in RunRecord
    BY <1>4 DEF Writes
  <2> QED
    BY <1>4, <2>1 DEF Writes, RunRecord
<1> DEFINE t == [Going(s, "write") EXCEPT !.record = n, !.seen = records'[n].status]
<1>6. t \in Sender /\ t.pc = "write" /\ t.record = n /\ t.times = senders[s].times /\ t.code = senders[s].code
  BY <1>1, <1>5 DEF Going, Sender
<1>7. Step(s, t)
  BY <1>3
<1> HIDE DEF t
<1>8. senders' \in [Senders -> Sender] /\ senders'[s] = t /\ \A r \in Senders \ {s} : senders'[r] = senders[r]
  BY <1>6, <1>7, StepTyped
<1>9. \A r \in Senders : senders'[r].pc = "write" => senders'[r].record \in DOMAIN records'
  BY <1>4, <1>6, <1>8 DEF Writes, TypeOK
<1>10. TypeOK'
  BY <1>4, <1>8, <1>9 DEF Record, Writes, TypeOK, scheduler
<1> QED
  BY <1>1, <1>2, <1>4, <1>6, <1>8, <1>10

\* What is written is a status that was entered as an event, or the one that
\* the record has.
Written(s) == Merged(senders[s].seen, IF senders[s].code = "submitted" THEN "running" ELSE senders[s].code,
                     records[senders[s].record].status)

LEMMA WriteTyped ==
  ASSUME TypeOK, NEW s \in Senders, Write(s)
  PROVE  /\ TypeOK'
         /\ senders[s].pc = "write" /\ senders[s].code \in {"submitted", "max_instances"}
         /\ senders[s].record \in DOMAIN records
         /\ Writes(senders[s].record, records[senders[s].record].time)
         /\ records'[senders[s].record].status = Written(s)
         /\ senders'[s].pc \in {"idle", "dispatch", "end"}
         /\ \A r \in Senders \ {s} : senders'[r] = senders[r]
<1> DEFINE n == senders[s].record
           w == Written(s)
           rest == Tail(senders[s].times)
           t == IF rest # <<>> THEN [Going(s, "dispatch") EXCEPT !.times = rest, !.record = 0, !.seen = ""]
                ELSE IF senders[s].code = "submitted" /\ s = "manual"
                     THEN [Going(s, "end") EXCEPT !.record = 0, !.seen = ""] ELSE Idle
<1>1. /\ senders[s] \in Sender /\ senders[s].pc = "write" /\ senders[s].times # <<>> /\ senders[s].times \in Seq(Nat)
      /\ senders[s].code \in {"submitted", "max_instances"} /\ n \in DOMAIN records
  BY DEF TypeOK, Write, Sender
<1>2. records[n] \in RunRecord
  BY <1>1 DEF TypeOK
<1>3. w \in Statuses
  BY <1>1, <1>2 DEF Written, Merged, RunRecord, Statuses, Terminal
<1>4. records' = [records EXCEPT ![n].status = w] /\ order' = order
  BY DEF Write, Written
<1> HIDE DEF w
<1>5. Writes(n, records[n].time) /\ records'[n].status = w
  BY <1>1, <1>3, <1>4, StatusSet
<1>6. rest \in Seq(Nat)
  BY <1>1, SeqFacts
<1>7. t \in Sender /\ t.pc \in {"idle", "dispatch", "end"}
  <2>1. "" \in Statuses \cup {""} /\ 0 \in Nat
    OBVIOUS
  <2>2. CASE rest # <<>>
    BY <1>1, <1>6, <2>1, <2>2 DEF Going, Sender
  <2>3. CASE rest = <<>> /\ senders[s].code = "submitted" /\ s = "manual"
    BY <1>1, <2>1, <2>3 DEF Going, Sender
  <2>4. CASE rest = <<>> /\ ~(senders[s].code = "submitted" /\ s = "manual")
    <3>1. t = Idle
      BY <2>4
    <3> QED
      BY <3>1, IdleType DEF Idle
  <2> QED
    BY <2>2, <2>3, <2>4
<1>8. Step(s, t)
  BY DEF Write
<1> HIDE DEF t
<1>9. senders' \in [Senders -> Sender] /\ senders'[s] = t /\ \A r \in Senders \ {s} : senders'[r] = senders[r]
  BY <1>7, <1>8, StepTyped
<1>10. \A r \in Senders : senders'[r].pc = "write" => senders'[r].record \in DOMAIN records'
  <2> SUFFICES ASSUME NEW r \in Senders, senders'[r].pc = "write"
               PROVE  senders'[r].record \in DOMAIN records'
    OBVIOUS
  <2>1. r # s /\ senders'[r] = senders[r]
    BY <1>7, <1>9
  <2>2. senders[r].record \in DOMAIN records
    BY <2>1 DEF TypeOK
  <2> QED
    BY <1>5, <2>1, <2>2 DEF Writes
<1>11. TypeOK'
  <2>1. UNCHANGED <<kind, wait, state, instances, jobs, lock, due>>
    BY DEF Write, scheduler
  <2> QED
    BY <1>5, <1>9, <1>10, <2>1 DEF Writes, TypeOK
<1> QED
  BY <1>1, <1>5, <1>7, <1>9, <1>11 DEF w

LEMMA EndTyped ==
  ASSUME TypeOK, End
  PROVE  /\ TypeOK'
         /\ senders["manual"].pc = "end" /\ senders'["manual"].pc = "idle"
         /\ \A r \in Senders \ {"manual"} : senders'[r] = senders[r]
<1>1. "manual" \in Senders
  BY DEF Senders
<1>2. senders["manual"] \in Sender /\ senders["manual"].times \in Seq(Nat) /\ senders["manual"].times # <<>>
      /\ senders["manual"].pc = "end"
  BY <1>1 DEF TypeOK, End, Sender
<1>3. NextDue("manual") \in Nat
  BY <1>1, <1>2, NextDueType
<1>4. Step("manual", Idle) /\ due' = NextDue("manual")
      /\ UNCHANGED <<kind, wait, state, instances, jobs, lock, records, order>>
  BY DEF End, scheduler, history
<1>5. /\ senders' \in [Senders -> Sender] /\ senders'["manual"] = Idle
      /\ \A r \in Senders \ {"manual"} : senders'[r] = senders[r]
  BY <1>1, <1>4, IdleType, StepTyped
<1>6. Idle.pc = "idle"
  BY DEF Idle
<1>7. \A r \in Senders : senders'[r].pc = "write" => senders'[r] = senders[r]
  BY <1>5, <1>6
<1>8. TypeOK'
  BY <1>3, <1>4, <1>5, <1>7, UntouchedRecords DEF TypeOK
<1> QED
  BY <1>2, <1>5, <1>6, <1>8

-----------------------------------------------------------------------------
\* Execution

LEMMA JobType == ASSUME TypeOK, NEW j \in DOMAIN jobs PROVE jobs[j] \in Job
<1>1. jobs \in Seq(Job)
  BY DEF TypeOK
<1> QED
  BY <1>1

\* A job that becomes another one.
LEMMA JobStep ==
  ASSUME TypeOK, NEW j \in DOMAIN jobs, NEW v \in Job, jobs' = [jobs EXCEPT ![j] = v]
  PROVE  /\ jobs' \in Seq(Job) /\ DOMAIN jobs' = DOMAIN jobs /\ jobs'[j] = v
         /\ \A k \in DOMAIN jobs \ {j} : jobs'[k] = jobs[k]
<1>1. jobs \in Seq(Job)
  BY DEF TypeOK
<1> QED
  BY <1>1, Replaced

LEMMA RunTyped ==
  ASSUME TypeOK, NEW j \in DOMAIN jobs, Run(j)
  PROVE  /\ TypeOK'
         /\ jobs[j].phase = "running" /\ jobs'[j].phase \in {"running", "ended"} /\ jobs'[j].hooked = jobs[j].hooked
         /\ DOMAIN jobs' = DOMAIN jobs /\ \A k \in DOMAIN jobs \ {j} : jobs'[k] = jobs[k]
<1>1. PICK outcome \in Outcomes :
        jobs' = [jobs EXCEPT ![j].left = Tail(@), ![j].events = Append(@, <<outcome, Head(jobs[j].left)>>),
                             ![j].phase = IF Len(jobs[j].left) = 1 THEN "ended" ELSE @]
  BY DEF Run
<1>2. jobs[j] \in Job /\ jobs[j].phase = "running" /\ jobs[j].left # <<>> /\ jobs[j].left \in Seq(Nat)
      /\ jobs[j].events \in Seq(Terminal \X Nat)
  <2>1. jobs[j] \in Job
    BY JobType
  <2>2. jobs[j].phase = "running"
    BY DEF Run
  <2> QED
    BY <2>1, <2>2 DEF Job
<1> DEFINE left == Tail(jobs[j].left)
           e == <<outcome, Head(jobs[j].left)>>
           events == Append(jobs[j].events, e)
           phase == IF Len(jobs[j].left) = 1 THEN "ended" ELSE jobs[j].phase
           v == [jobs[j] EXCEPT !.left = left, !.events = events, !.phase = phase]
<1>3. left \in Seq(Nat) /\ (phase = "running" => left # <<>>) /\ phase \in {"running", "ended"}
  BY <1>2, SeqFacts
<1>4. events \in Seq(Terminal \X Nat) /\ events # <<>>
  <2>1. outcome \in Terminal
    BY <1>1 DEF Outcomes, Terminal
  <2>2. Head(jobs[j].left) \in Nat
    BY <1>2, SeqFacts
  <2>3. e \in Terminal \X Nat
    BY <2>1, <2>2
  <2> HIDE DEF e
  <2>4. Len(<<>>) = 0
    OBVIOUS
  <2>5. events \in Seq(Terminal \X Nat) /\ Len(events) = Len(jobs[j].events) + 1 /\ Len(jobs[j].events) \in Nat
    BY <1>2, <2>3
  <2> HIDE DEF events
  <2> QED
    BY <2>4, <2>5
<1>5. jobs' = [jobs EXCEPT ![j] = v]
  BY <1>1
<1> HIDE DEF left, events, phase
<1>6. v \in Job /\ v.phase = phase /\ v.hooked = jobs[j].hooked
  BY <1>2, <1>3, <1>4 DEF Job, Phases
<1> HIDE DEF v
<1>7. /\ jobs' \in Seq(Job) /\ DOMAIN jobs' = DOMAIN jobs /\ jobs'[j] = v
      /\ \A k \in DOMAIN jobs \ {j} : jobs'[k] = jobs[k]
  BY <1>5, <1>6, JobStep
<1>8. UNCHANGED <<kind, wait, state, instances, senders, lock, due, records, order>>
  BY DEF Run, scheduler, history
<1>9. TypeOK'
  BY <1>7, <1>8 DEF TypeOK
<1> QED
  BY <1>2, <1>3, <1>6, <1>7, <1>9

LEMMA DieTyped ==
  ASSUME TypeOK, NEW j \in DOMAIN jobs, Die(j)
  PROVE  /\ TypeOK'
         /\ jobs[j].phase = "running" /\ jobs'[j].phase = "died" /\ jobs'[j].hooked = jobs[j].hooked
         /\ DOMAIN jobs' = DOMAIN jobs /\ \A k \in DOMAIN jobs \ {j} : jobs'[k] = jobs[k]
<1> DEFINE v == [jobs[j] EXCEPT !.phase = "died"]
<1>1. jobs[j] \in Job /\ jobs[j].phase = "running"
  BY DEF TypeOK, Die
<1>2. v \in Job /\ v.phase = "died" /\ v.hooked = jobs[j].hooked
  BY <1>1 DEF Job, Phases
<1>3. jobs' = [jobs EXCEPT ![j] = v]
  BY DEF Die
<1> HIDE DEF v
<1>4. /\ jobs' \in Seq(Job) /\ DOMAIN jobs' = DOMAIN jobs /\ jobs'[j] = v
      /\ \A k \in DOMAIN jobs \ {j} : jobs'[k] = jobs[k]
  BY <1>2, <1>3, JobStep
<1>5. TypeOK'
  BY <1>4 DEF Die, TypeOK, scheduler, history
<1> QED
  BY <1>1, <1>2, <1>4, <1>5

LEMMA CallbackTyped ==
  ASSUME TypeOK, NEW j \in DOMAIN jobs, Callback(j)
  PROVE  TypeOK'
<1>1. Done(j) /\ jobs' = CalledBack(j) /\ instances' = instances - Uncounted(j)
      /\ UNCHANGED <<kind, wait, state, senders, lock, due, records, order>>
  BY DEF Callback, scheduler, history
<1>2. jobs' \in Seq(Job)
  BY <1>1, CalledBackTyped
<1>3. instances' \in Int
  BY <1>1 DEF TypeOK, Uncounted
<1> QED
  BY <1>1, <1>2, <1>3 DEF TypeOK

LEMMA DeliverTyped ==
  ASSUME TypeOK, NEW j \in DOMAIN jobs, Deliver(j)
  PROVE  /\ TypeOK'
         /\ jobs[j].phase = "dispatching" /\ jobs'[j].phase \in {"dispatching", "over"}
         /\ jobs'[j].hooked = jobs[j].hooked
         /\ DOMAIN jobs' = DOMAIN jobs /\ \A k \in DOMAIN jobs \ {j} : jobs'[k] = jobs[k]
         /\ \E status \in Terminal, time \in Nat, n \in Nat :
              /\ observed' = observed \cup {<<status, time>>}
              /\ Writes(n, time) /\ records'[n].status = status
<1> DEFINE e == Head(jobs[j].events)
           events == Tail(jobs[j].events)
           phase == IF Len(jobs[j].events) = 1 THEN "over" ELSE jobs[j].phase
           v == [jobs[j] EXCEPT !.events = events, !.phase = phase]
<1>1. jobs[j] \in Job /\ jobs[j].phase = "dispatching" /\ jobs[j].events \in Seq(Terminal \X Nat)
      /\ jobs[j].events # <<>>
  <2>1. jobs[j] \in Job
    BY JobType
  <2>2. jobs[j].phase = "dispatching"
    BY DEF Deliver
  <2> QED
    BY <2>1, <2>2 DEF Job
<1>2. /\ e \in Terminal \X Nat /\ events \in Seq(Terminal \X Nat) /\ phase \in {"dispatching", "over"}
      /\ phase = "dispatching" => events # <<>>
  BY <1>1, SeqFacts
<1>3. jobs' = [jobs EXCEPT ![j] = v]
  BY DEF Deliver
<1>4. PICK n \in Touched(e[2]) : UpsertAs(n, e[2], e[1])
  BY DEF Deliver
<1>5. observed' = observed \cup {e}
  BY DEF Deliver
<1> HIDE DEF events, phase, e
<1>6. v \in Job /\ v.phase = phase /\ v.hooked = jobs[j].hooked
  BY <1>1, <1>2 DEF Job, Phases
<1> HIDE DEF v
<1>7. /\ jobs' \in Seq(Job) /\ DOMAIN jobs' = DOMAIN jobs /\ jobs'[j] = v
      /\ \A k \in DOMAIN jobs \ {j} : jobs'[k] = jobs[k]
  BY <1>3, <1>6, JobStep
<1>8. e[1] \in Terminal /\ e[1] \in Statuses /\ e[2] \in Nat /\ e = <<e[1], e[2]>>
  BY <1>2 DEF Statuses
<1>9. Writes(n, e[2]) /\ records'[n].status = e[1]
  BY <1>4, <1>8, UpsertAsWrites
<1>10. TypeOK'
  <2>1. UNCHANGED <<kind, wait, state, instances, senders, lock, due>>
    BY DEF Deliver, scheduler
  <2>2. \A r \in Senders : senders'[r].pc = "write" => senders'[r].record \in DOMAIN records'
    BY <1>9, <2>1 DEF TypeOK, Writes
  <2> QED
    BY <1>7, <1>9, <2>1, <2>2 DEF TypeOK, Writes
<1>11. n \in Nat
  BY <1>9 DEF Writes
<1> QED
  BY <1>1, <1>2, <1>5, <1>6, <1>7, <1>8, <1>9, <1>10, <1>11

\* A job that is cancelled, and the rest, keep their place.
LEMMA StopExecutorsTyped ==
  ASSUME TypeOK, StopExecutors
  PROVE  /\ TypeOK'
         /\ DOMAIN jobs' = DOMAIN jobs
         /\ \A j \in DOMAIN jobs :
              jobs'[j] = jobs[j]
              \/ (jobs[j].phase = "running" /\ jobs'[j].phase \in {"died", "cancelled"})
<1>1. state' \in {"joining", "down"}
      /\ UNCHANGED <<kind, wait, instances, senders, lock, due, records, order>>
  BY DEF StopExecutors, history
<1>2. jobs \in Seq(Job) /\ DOMAIN jobs = 1..Len(jobs) /\ Len(jobs) \in Nat
  BY DEF TypeOK
<1>3. PICK drop \in Drops :
        jobs' = [j \in DOMAIN jobs |-> IF j \in drop THEN [jobs[j] EXCEPT !.phase = "cancelled"]
                                       ELSE Cancelled(jobs[j])]
  BY DEF StopExecutors
<1> DEFINE f == [j \in 1..Len(jobs) |-> IF j \in drop THEN [jobs[j] EXCEPT !.phase = "cancelled"]
                                        ELSE Cancelled(jobs[j])]
<1>4. jobs' = f
  BY <1>2, <1>3
<1>5. ASSUME NEW j \in 1..Len(jobs)
      PROVE  /\ f[j] \in Job
             /\ \/ f[j] = jobs[j]
                \/ jobs[j].phase = "running" /\ f[j].phase \in {"died", "cancelled"}
  <2>1. jobs[j] \in Job
    BY <1>2
  <2>2. CASE j \in drop
    <3>1. jobs[j].phase = "running"
      BY <1>3, <2>2 DEF Drops, Cancellable
    <3> QED
      BY <2>1, <2>2, <3>1 DEF Job, Phases
  <2>3. CASE j \notin drop
    BY <2>1, <2>3 DEF Cancelled, Job, Phases
  <2> QED
    BY <2>2, <2>3
<1>6. f \in Seq(Job) /\ DOMAIN f = 1..Len(jobs)
  <2>1. \A j \in 1..Len(jobs) : f[j] \in Job
    BY <1>5
  <2> QED
    BY <1>2, <2>1
<1> HIDE DEF f
<1> QED
  BY <1>1, <1>2, <1>4, <1>5, <1>6 DEF TypeOK

LEMMA StopTyped ==
  ASSUME TypeOK, Stop \/ Joined
  PROVE  TypeOK' /\ UNCHANGED <<instances, jobs, senders, lock, history>>
BY DEF TypeOK, Stop, Joined, history

-----------------------------------------------------------------------------
\* The count

Sends == {"hook", "inline"}

\* The lock is held by the one that has made a job and not yet counted it; in
\* hook the job has not called back, inline it has.
Attached ==
  \A s \in Senders :
    /\ lock = s <=> senders[s].pc \in Sends
    /\ senders[s].pc \in Sends => senders[s].job \in DOMAIN jobs
    /\ senders[s].pc = "hook" => senders[s].job \in Unreleased
    /\ senders[s].pc = "inline" => senders[s].job \notin Unreleased

\* Between the making of a job and its count there is one less.
Counted ==
  /\ instances = Cardinality(Unreleased) - (IF lock = "free" THEN 0 ELSE 1)
  /\ Cardinality(Unreleased) <= max_instances
CountInv == TypeOK /\ Attached /\ Counted

LEMMA HeldFinite ==
  ASSUME TypeOK
  PROVE  IsFiniteSet(Unreleased) /\ Cardinality(Unreleased) \in Nat
<1>1. Unreleased \subseteq 1..Len(jobs) /\ Len(jobs) \in Nat
  BY DEF Unreleased, TypeOK
<1>2. IsFiniteSet(1..Len(jobs))
  BY <1>1, FS_Interval
<1>3. IsFiniteSet(Unreleased)
  BY <1>1, <1>2, FS_Subset
<1> QED
  BY <1>3, FS_CardinalityType

\* A step of somebody else.
LEMMA Aside ==
  ASSUME CountInv, UNCHANGED <<instances, lock>>, DOMAIN jobs' = DOMAIN jobs, Unreleased' = Unreleased,
         \A s \in Senders : senders'[s].pc \in Sends \/ senders[s].pc \in Sends => senders'[s] = senders[s]
  PROVE  Attached' /\ Counted'
<1>1. Counted'
  BY DEF CountInv, Counted
<1>2. ASSUME NEW s \in Senders
      PROVE  /\ lock' = s <=> senders'[s].pc \in Sends
             /\ senders'[s].pc \in Sends => senders'[s].job \in DOMAIN jobs'
             /\ senders'[s].pc = "hook" => senders'[s].job \in Unreleased'
             /\ senders'[s].pc = "inline" => senders'[s].job \notin Unreleased'
  BY DEF CountInv, Attached, Sends
<1> QED
  BY <1>1, <1>2 DEF Attached

UnreleasedPhases == {"running", "ended", "died", "cancelled"}
LEMMA HeldSame ==
  ASSUME DOMAIN jobs' = DOMAIN jobs,
         \A j \in DOMAIN jobs : jobs'[j].phase \in UnreleasedPhases <=> jobs[j].phase \in UnreleasedPhases
  PROVE  Unreleased' = Unreleased
BY DEF Unreleased, UnreleasedPhases

\* A refused submission leaves the senders of the lock alone.
LEMMA AsideSend ==
  ASSUME CountInv, NEW s \in Senders, senders[s].pc \notin Sends, senders'[s].pc \notin Sends,
         \A r \in Senders \ {s} : senders'[r] = senders[r],
         UNCHANGED <<instances, lock, jobs>>
  PROVE  Attached' /\ Counted'
<1>1. Unreleased' = Unreleased
  BY DEF Unreleased
<1> QED
  BY <1>1, Aside

LEMMA SendCounts ==
  ASSUME CountInv, NEW s \in Senders, Send(s)
  PROVE  Attached' /\ Counted'
<1>1. senders[s].pc = "send" /\ lock = "free" /\ instances' = instances /\ TypeOK
  BY SendCases DEF CountInv
<1>2. CASE (After(s, "max_instances") \/ After(s, "")) /\ UNCHANGED <<jobs, lock>>
  <2>1. /\ senders'[s].pc \in {"idle", "dispatch"}
        /\ \A r \in Senders \ {s} : senders'[r] = senders[r]
    BY <1>1, <1>2, AfterTyped
  <2> QED
    BY <1>1, <1>2, <2>1, AsideSend DEF Sends
<1>3. CASE /\ ~AtMaximum(instances)
           /\ jobs' = Append(jobs, NewJob(s)) /\ lock' = s /\ due' = due
           /\ Step(s, [Going(s, "hook") EXCEPT !.job = Len(jobs) + 1])
  <2> DEFINE j == Len(jobs) + 1
  <2>1. /\ senders'[s].pc = "hook" /\ senders'[s].job = j
        /\ \A r \in Senders \ {s} : senders'[r] = senders[r]
    BY <1>1, <1>3, HookSender, StepTyped
  <2>2. /\ DOMAIN jobs' = DOMAIN jobs \cup {j} /\ jobs'[j] = NewJob(s) /\ j \notin DOMAIN jobs
        /\ \A k \in DOMAIN jobs : jobs'[k] = jobs[k]
    BY <1>1, <1>3, NewJobType, Added DEF TypeOK
  <2>3. NewJob(s).phase = "running"
    BY DEF NewJob
  <2> HIDE DEF j
  <2>4. Unreleased' = Unreleased \cup {j} /\ j \notin Unreleased
    BY <2>2, <2>3 DEF Unreleased
  <2>5. Cardinality(Unreleased') = Cardinality(Unreleased) + 1
    BY <1>1, <2>4, HeldFinite, FS_AddElement
  <2>6. Cardinality(Unreleased) \in Nat /\ max_instances \in Nat /\ instances = Cardinality(Unreleased)
    BY <1>1, HeldFinite, ExecutionsAssumption DEF CountInv, Counted
  <2>7. Cardinality(Unreleased) < max_instances
    BY <1>3, <2>6 DEF AtMaximum
  <2>8. s # "free"
    BY DEF Senders
  <2>9. Counted'
    <3>1. instances' = Cardinality(Unreleased') - 1 /\ Cardinality(Unreleased') <= max_instances
      BY <1>1, <2>5, <2>6, <2>7
    <3> QED
      BY <1>3, <2>8, <3>1 DEF Counted
  <2>10. ASSUME NEW r \in Senders \ {s}
         PROVE  senders'[r].pc \notin Sends /\ lock' # r
    <3>1. senders[r].pc \notin Sends
      BY <1>1 DEF CountInv, Attached, Senders
    <3> QED
      BY <1>3, <2>1, <3>1
  <2>11. Attached'
    <3>1. ASSUME NEW r \in Senders
          PROVE  /\ lock' = r <=> senders'[r].pc \in Sends
                 /\ senders'[r].pc \in Sends => senders'[r].job \in DOMAIN jobs'
                 /\ senders'[r].pc = "hook" => senders'[r].job \in Unreleased'
                 /\ senders'[r].pc = "inline" => senders'[r].job \notin Unreleased'
      <4>1. CASE r = s
        BY <1>3, <2>1, <2>2, <2>4, <4>1 DEF Sends
      <4>2. CASE r # s
        BY <2>10, <4>2 DEF Sends
      <4> QED
        BY <4>1, <4>2
    <3> QED
      BY <3>1 DEF Attached
  <2> QED
    BY <2>9, <2>11
<1> QED
  BY <1>2, <1>3, SendCases

\* A callback takes its job from the count.
LEMMA HeldLess ==
  ASSUME CountInv, NEW j \in DOMAIN jobs, Done(j), jobs' = CalledBack(j), instances' = instances - Uncounted(j),
         lock' = lock
  PROVE  /\ Unreleased' = Unreleased \ {j} /\ j \in Unreleased /\ DOMAIN jobs' = DOMAIN jobs
         /\ Counted'
<1>1. TypeOK
  BY DEF CountInv
<1>2. /\ DOMAIN jobs' = DOMAIN jobs /\ jobs'[j].phase \in {"failed", "dispatching"}
      /\ \A k \in DOMAIN jobs \ {j} : jobs'[k] = jobs[k]
  BY <1>1, CalledBackTyped
<1>3. Unreleased' = Unreleased \ {j} /\ j \in Unreleased
  BY <1>2 DEF Unreleased, Done
<1>4. Cardinality(Unreleased') = Cardinality(Unreleased) - 1
  BY <1>1, <1>3, HeldFinite, FS_RemoveElement
<1>5. Uncounted(j) = 1
  BY DEF Uncounted, Done
<1>6. Cardinality(Unreleased) \in Nat /\ instances \in Int /\ max_instances \in Nat
  BY <1>1, HeldFinite, ExecutionsAssumption DEF TypeOK
<1>7. Counted'
  BY <1>4, <1>5, <1>6 DEF CountInv, Counted
<1> QED
  BY <1>2, <1>3, <1>7

LEMMA HookCounts ==
  ASSUME CountInv, NEW s \in Senders, Hook(s)
  PROVE  Attached' /\ Counted' /\ senders[s].job \in DOMAIN jobs
<1> DEFINE j == senders[s].job
           t == Going(s, "inline")
<1>1. TypeOK /\ senders[s].pc = "hook" /\ senders[s] \in Sender
  BY DEF CountInv, Hook, TypeOK
<1>2. j \in DOMAIN jobs /\ lock = s
  BY <1>1 DEF CountInv, Attached, Sends
<1>3. Done(j) /\ jobs' = CalledBack(j) /\ instances' = instances - Uncounted(j) /\ Step(s, t) /\ lock' = lock
  BY DEF Hook
<1>4. t \in Sender /\ t.pc = "inline" /\ t.job = j
  BY <1>1 DEF Going, Sender
<1> HIDE DEF t
<1>5. senders'[s] = t /\ \A r \in Senders \ {s} : senders'[r] = senders[r]
  BY <1>1, <1>3, <1>4, StepTyped
<1>6. Unreleased' = Unreleased \ {j} /\ DOMAIN jobs' = DOMAIN jobs /\ Counted'
  BY <1>2, <1>3, HeldLess
<1>7. ASSUME NEW r \in Senders
      PROVE  /\ lock' = r <=> senders'[r].pc \in Sends
             /\ senders'[r].pc \in Sends => senders'[r].job \in DOMAIN jobs'
             /\ senders'[r].pc = "hook" => senders'[r].job \in Unreleased'
             /\ senders'[r].pc = "inline" => senders'[r].job \notin Unreleased'
  <2>1. CASE r = s
    BY <1>2, <1>3, <1>4, <1>5, <1>6, <2>1 DEF Sends
  <2>2. CASE r # s
    <3>1. senders[r].pc \notin Sends
      BY <1>2, <2>2 DEF CountInv, Attached
    <3>2. senders'[r] = senders[r]
      BY <1>5, <2>2
    <3> QED
      BY <1>2, <1>3, <2>2, <3>1, <3>2 DEF Sends
  <2> QED
    BY <2>1, <2>2
<1> QED
  BY <1>2, <1>6, <1>7 DEF Attached

LEMMA CallbackCounts ==
  ASSUME CountInv, NEW j \in DOMAIN jobs, Callback(j)
  PROVE  Attached' /\ Counted'
<1>1. Done(j) /\ jobs' = CalledBack(j) /\ instances' = instances - Uncounted(j)
      /\ lock = "free" /\ lock' = lock /\ senders' = senders
  BY DEF Callback
<1>2. Counted'
  BY <1>1, HeldLess
<1>3. \A s \in Senders : lock # s /\ senders[s].pc \notin Sends
  BY <1>1 DEF CountInv, Attached, Senders
<1>4. Attached'
  BY <1>1, <1>3 DEF Attached, Sends
<1> QED
  BY <1>2, <1>4

LEMMA CountCounts ==
  ASSUME CountInv, NEW s \in Senders, Count(s)
  PROVE  Attached' /\ Counted' /\ senders[s].job \in DOMAIN jobs
<1> DEFINE j == senders[s].job
<1>1. TypeOK /\ senders[s].pc \in Sends
  BY CountCases DEF CountInv, Sends
<1>2. j \in DOMAIN jobs /\ lock = s /\ s # "free"
  BY <1>1 DEF CountInv, Attached, Senders
<1>3. lock' = "free" /\ instances' = instances + 1
  BY CountCases
<1>4. senders[s].pc # "idle"
  BY <1>1 DEF Sends
<1>5. senders'[s].pc \in {"idle", "dispatch"} /\ \A r \in Senders \ {s} : senders'[r] = senders[r]
  BY <1>1, <1>4, AfterTyped, CountCases
<1>6. Unreleased' = Unreleased
  <2>1. CASE jobs' = jobs
    BY <2>1 DEF Unreleased
  <2>2. CASE jobs' = [jobs EXCEPT ![j].hooked = TRUE]
    <3>1. /\ DOMAIN jobs' = DOMAIN jobs /\ jobs'[j].phase = jobs[j].phase
          /\ \A k \in DOMAIN jobs \ {j} : jobs'[k] = jobs[k]
      BY <1>1, <1>2, <2>2, HookedTyped
    <3> QED
      BY <3>1, HeldSame
  <2> QED
    BY <2>1, <2>2, CountCases
<1>7. Counted'
  <2>1. Cardinality(Unreleased) \in Nat /\ instances = Cardinality(Unreleased) - 1
    BY <1>1, <1>2, HeldFinite DEF CountInv, Counted
  <2>2. instances' = Cardinality(Unreleased)
    BY <1>3, <2>1
  <2> QED
    BY <1>3, <1>6, <2>1, <2>2 DEF CountInv, Counted
<1>8. ASSUME NEW r \in Senders
      PROVE  senders'[r].pc \notin Sends /\ lock' # r
  <2>1. CASE r = s
    BY <1>3, <1>5, <2>1 DEF Sends, Senders
  <2>2. CASE r # s
    BY <1>2, <1>3, <1>5, <2>2 DEF CountInv, Attached, Senders
  <2> QED
    BY <2>1, <2>2
<1>9. Attached'
  BY <1>8 DEF Attached, Sends
<1> QED
  BY <1>2, <1>7, <1>9

\* A step of one job that stays what it is to the count.
LEMMA AsideJob ==
  ASSUME CountInv, NEW j \in DOMAIN jobs, UNCHANGED <<instances, lock, senders>>, DOMAIN jobs' = DOMAIN jobs,
         jobs'[j].phase \in UnreleasedPhases <=> jobs[j].phase \in UnreleasedPhases,
         \A k \in DOMAIN jobs \ {j} : jobs'[k] = jobs[k]
  PROVE  Attached' /\ Counted'
<1>1. Unreleased' = Unreleased
  BY HeldSame
<1> QED
  BY <1>1, Aside

LEMMA SubmissionCounts ==
  ASSUME CountInv, NEW s \in Senders, Submission(s)
  PROVE  CountInv'
<1> USE DEF Sends
<1>1. TypeOK
  BY DEF CountInv
<1>2. CASE Begin(s)
  <2>1. senders[s].pc = "idle" /\ UNCHANGED <<instances, lock, jobs>>
    BY <1>2 DEF Begin
  <2>2. PICK times : Step(s, [Going(s, "send") EXCEPT !.times = times])
    BY <1>2 DEF Begin
  <2>3. senders'[s].pc = "send" /\ \A r \in Senders \ {s} : senders'[r] = senders[r]
    BY <1>1, <2>2 DEF Step, Going, TypeOK, Sender
  <2> QED
    BY <1>1, <1>2, <2>1, <2>3, AsideSend, BeginTyped DEF CountInv
<1>3. CASE Send(s)
  BY <1>1, <1>3, SendCounts, SendTyped DEF CountInv
<1>4. CASE Hook(s)
  BY <1>1, <1>4, HookCounts, HookTyped DEF CountInv
<1>5. CASE Count(s)
  BY <1>1, <1>5, CountCounts, CountTyped DEF CountInv
<1>6. CASE Record(s)
  <2>1. senders[s].pc = "dispatch" /\ UNCHANGED <<instances, lock, jobs>>
    BY <1>6 DEF Record
  <2>2. TypeOK' /\ senders'[s].pc = "write" /\ \A r \in Senders \ {s} : senders'[r] = senders[r]
    BY <1>1, <1>6, RecordTyped
  <2> QED
    BY <2>1, <2>2, AsideSend DEF CountInv
<1>7. CASE Write(s)
  <2>1. UNCHANGED <<instances, lock, jobs>>
    BY <1>7 DEF Write
  <2>2. /\ TypeOK' /\ senders[s].pc = "write" /\ senders'[s].pc \in {"idle", "dispatch", "end"}
        /\ \A r \in Senders \ {s} : senders'[r] = senders[r]
    BY <1>1, <1>7, WriteTyped
  <2> QED
    BY <2>1, <2>2, AsideSend DEF CountInv
<1> QED
  BY <1>2, <1>3, <1>4, <1>5, <1>6, <1>7 DEF Submission

LEMMA ExecutionCounts ==
  ASSUME CountInv, NEW j \in DOMAIN jobs, Execution(j)
  PROVE  CountInv'
<1> USE DEF UnreleasedPhases
<1>1. TypeOK
  BY DEF CountInv
<1>2. CASE Run(j)
  <2>1. UNCHANGED <<instances, lock, senders>>
    BY <1>2 DEF Run
  <2> QED
    BY <1>1, <1>2, <2>1, RunTyped, AsideJob DEF CountInv
<1>3. CASE Die(j)
  <2>1. UNCHANGED <<instances, lock, senders>>
    BY <1>3 DEF Die
  <2> QED
    BY <1>1, <1>3, <2>1, DieTyped, AsideJob DEF CountInv
<1>4. CASE Callback(j)
  BY <1>1, <1>4, CallbackCounts, CallbackTyped DEF CountInv
<1>5. CASE Deliver(j)
  <2>1. UNCHANGED <<instances, lock, senders>>
    BY <1>5 DEF Deliver
  <2> QED
    BY <1>1, <1>5, <2>1, DeliverTyped, AsideJob DEF CountInv
<1> QED
  BY <1>2, <1>3, <1>4, <1>5 DEF Execution

LEMMA NextCounts ==
  ASSUME CountInv, [Next]_vars
  PROVE  CountInv'
<1>1. TypeOK
  BY DEF CountInv
<1>2. CASE \E s \in Senders : Submission(s)
  BY <1>2, SubmissionCounts
<1>3. CASE End
  <2>1. UNCHANGED <<instances, lock, jobs>> /\ "manual" \in Senders
    BY <1>3 DEF End, Senders
  <2> QED
    BY <1>1, <1>3, <2>1, EndTyped, AsideSend DEF CountInv, Sends
<1>4. CASE \E j \in DOMAIN jobs : Execution(j)
  BY <1>4, ExecutionCounts
<1>5. CASE Stop \/ Joined
  <2>1. TypeOK' /\ UNCHANGED <<instances, jobs, senders, lock>>
    BY <1>1, <1>5, StopTyped
  <2>2. Unreleased' = Unreleased
    BY <2>1 DEF Unreleased
  <2> QED
    BY <2>1, <2>2, Aside DEF CountInv
<1>6. CASE StopExecutors
  <2>1. UNCHANGED <<instances, senders, lock>>
    BY <1>6 DEF StopExecutors
  <2>2. Unreleased' = Unreleased
    BY <1>1, <1>6, StopExecutorsTyped, HeldSame DEF UnreleasedPhases
  <2> QED
    BY <1>1, <1>6, <2>1, <2>2, StopExecutorsTyped, Aside DEF CountInv
<1>7. CASE UNCHANGED vars
  <2>1. UNCHANGED <<kind, wait, state, instances, jobs, senders, lock, due, records, order>>
    BY <1>7 DEF vars, scheduler, history
  <2>2. Unreleased' = Unreleased
    BY <2>1 DEF Unreleased
  <2>3. TypeOK'
    BY <2>1 DEF CountInv, TypeOK
  <2> QED
    BY <2>1, <2>2, <2>3, Aside DEF CountInv
<1> QED
  BY <1>2, <1>3, <1>4, <1>5, <1>6, <1>7 DEF Next

LEMMA InitCounts == ASSUME Init PROVE CountInv
<1>1. TypeOK
  BY InitTyped
<1>2. instances = 0 /\ jobs = <<>> /\ lock = "free" /\ senders = [s \in Senders |-> Idle]
  BY DEF Init, Rest
<1>3. Unreleased = {} /\ Cardinality(Unreleased) = 0
  BY <1>2, FS_EmptySet DEF Unreleased
<1>4. Attached
  BY <1>2 DEF Attached, Sends, Idle, Senders
<1>5. Counted
  BY <1>2, <1>3, ExecutionsAssumption DEF Counted
<1> QED
  BY <1>1, <1>4, <1>5 DEF CountInv

\* Whenever nobody is in the middle of sending the task, its count is that of
\* the jobs that have not called back and of those that a pool has dropped, and
\* at most max_instances (InstancesMatch, executors/base.py:63, pool.py:54).
THEOREM InstancesAreJobs == Spec => []InstancesMatch
<1>1. Init => CountInv
  BY InitCounts
<1>2. CountInv /\ [Next]_vars => CountInv'
  BY NextCounts
<1>3. CountInv => InstancesMatch
  <2> SUFFICES ASSUME CountInv, Sending = {}
               PROVE  instances = Cardinality(Unreleased) /\ instances <= max_instances
    BY DEF InstancesMatch
  <2>1. lock = "free"
    BY DEF CountInv, TypeOK, Attached, Sends, Sending
  <2>2. Cardinality(Unreleased) \in Nat
    BY HeldFinite DEF CountInv
  <2> QED
    BY <2>1, <2>2 DEF CountInv, Counted
<1> QED
  BY <1>1, <1>2, <1>3, PTL DEF Spec

\* Jobs, senders, records and the lock have their types: the order of the history
\* names records that exist, and a sender writes to one that exists
\* (executors/base.py, history.py:151).
THEOREM ExecutionTypes == Spec => []TypeOK
<1>1. Init => CountInv
  BY InitCounts
<1>2. CountInv /\ [Next]_vars => CountInv'
  BY NextCounts
<1>3. CountInv => TypeOK
  BY DEF CountInv
<1> QED
  BY <1>1, <1>2, <1>3, PTL DEF Spec

-----------------------------------------------------------------------------
\* The truth of the history

\* Who is about to write has found a record of its run time, and entered the
\* event that it writes.
Announced ==
  \A s \in Senders : senders[s].pc = "write" =>
    /\ records[senders[s].record].time = Head(senders[s].times)
    /\ <<senders[s].code, Head(senders[s].times)>> \in observed
HistoryInv == CountInv /\ Announced /\ HistoryTruthful

\* A step that is none of a listener.
LEMMA NoListener ==
  ASSUME HistoryInv, UNCHANGED <<records, observed>>,
         \A r \in Senders : senders'[r].pc = "write" => senders'[r] = senders[r]
  PROVE  Announced' /\ HistoryTruthful'
<1>1. Announced'
  BY DEF HistoryInv, Announced
<1>2. HistoryTruthful'
  BY DEF HistoryInv, HistoryTruthful
<1> QED
  BY <1>1, <1>2

\* A listener that leaves a truthful record.
LEMMA Listener ==
  ASSUME HistoryInv, NEW time, NEW n, Writes(n, time), observed \subseteq observed',
         records'[n].status \in Terminal => <<records'[n].status, time>> \in observed'
  PROVE  /\ HistoryTruthful'
         /\ \A r \in Senders : (senders'[r].pc = "write" /\ senders'[r] = senders[r]) =>
              /\ records'[senders'[r].record].time = Head(senders'[r].times)
              /\ <<senders'[r].code, Head(senders'[r].times)>> \in observed'
<1>1. TypeOK /\ Announced /\ HistoryTruthful
  BY DEF HistoryInv, CountInv
<1>2. HistoryTruthful'
  <2> SUFFICES ASSUME NEW k \in DOMAIN records', records'[k].status \in Terminal
               PROVE  <<records'[k].status, records'[k].time>> \in observed'
    BY DEF HistoryTruthful
  <2>1. CASE k = n
    BY <2>1 DEF Writes
  <2>2. CASE k # n
    <3>1. k \in DOMAIN records /\ records'[k] = records[k]
      BY <2>2 DEF Writes
    <3> QED
      BY <1>1, <3>1 DEF HistoryTruthful
  <2> QED
    BY <2>1, <2>2
<1>3. ASSUME NEW r \in Senders, senders'[r].pc = "write", senders'[r] = senders[r]
      PROVE  /\ records'[senders'[r].record].time = Head(senders'[r].times)
             /\ <<senders'[r].code, Head(senders'[r].times)>> \in observed'
  <2>1. senders[r].record \in DOMAIN records
    BY <1>1, <1>3 DEF TypeOK
  <2> QED
    BY <1>1, <1>3, <2>1 DEF Announced, Writes
<1> QED
  BY <1>2, <1>3

LEMMA RecordTruthful ==
  ASSUME HistoryInv, NEW s \in Senders, Record(s)
  PROVE  Announced' /\ HistoryTruthful'
<1> DEFINE time == Head(senders[s].times)
           n == senders'[s].record
<1>1. TypeOK /\ HistoryTruthful
  BY DEF HistoryInv, CountInv
<1>2. /\ senders'[s].pc = "write" /\ senders'[s].times = senders[s].times /\ senders'[s].code = senders[s].code
      /\ Writes(n, time)
      /\ n \in DOMAIN records => records' = records
      /\ n \notin DOMAIN records => records'[n].status = "running"
      /\ \A r \in Senders \ {s} : senders'[r] = senders[r]
  BY <1>1, RecordTyped
<1>3. observed' = observed \cup {<<senders[s].code, time>>}
  BY DEF Record
<1> HIDE DEF n
<1>4. records'[n].status \in Terminal => <<records'[n].status, time>> \in observed'
  <2>1. CASE n \in DOMAIN records
    <3>1. records' = records /\ records[n].time = time
      BY <1>2, <2>1 DEF Writes
    <3> QED
      BY <1>1, <1>3, <2>1, <3>1 DEF HistoryTruthful
  <2>2. CASE n \notin DOMAIN records
    BY <1>2, <2>2 DEF Terminal
  <2> QED
    BY <2>1, <2>2
<1>5. /\ HistoryTruthful'
      /\ \A r \in Senders : (senders'[r].pc = "write" /\ senders'[r] = senders[r]) =>
           /\ records'[senders'[r].record].time = Head(senders'[r].times)
           /\ <<senders'[r].code, Head(senders'[r].times)>> \in observed'
  BY <1>2, <1>3, <1>4, Listener
<1>6. Announced'
  <2> SUFFICES ASSUME NEW r \in Senders, senders'[r].pc = "write"
               PROVE  /\ records'[senders'[r].record].time = Head(senders'[r].times)
                      /\ <<senders'[r].code, Head(senders'[r].times)>> \in observed'
    BY DEF Announced
  <2>1. CASE r = s
    <3>1. records'[n].time = time /\ n = senders'[s].record
      BY <1>2 DEF Writes, n
    <3> QED
      BY <1>2, <1>3, <2>1, <3>1
  <2>2. CASE r # s
    BY <1>2, <1>5, <2>2
  <2> QED
    BY <2>1, <2>2
<1> QED
  BY <1>5, <1>6

LEMMA WriteTruthful ==
  ASSUME HistoryInv, NEW s \in Senders, Write(s)
  PROVE  Announced' /\ HistoryTruthful'
<1> DEFINE n == senders[s].record
           time == records[n].time
<1>1. TypeOK /\ HistoryTruthful /\ Announced
  BY DEF HistoryInv, CountInv
<1>2. /\ senders[s].pc = "write" /\ senders[s].code \in {"submitted", "max_instances"}
      /\ n \in DOMAIN records /\ Writes(n, time) /\ records'[n].status = Written(s)
      /\ senders'[s].pc \in {"idle", "dispatch", "end"}
      /\ \A r \in Senders \ {s} : senders'[r] = senders[r]
  BY <1>1, WriteTyped
<1>3. observed' = observed
  BY DEF Write
<1>4. time = Head(senders[s].times) /\ <<senders[s].code, time>> \in observed
  BY <1>1, <1>2 DEF Announced
<1>5. \/ Written(s) = "running"
      \/ Written(s) = senders[s].code
      \/ Written(s) = records[n].status
  BY DEF Written, Merged
<1>6. records[n].status \in Terminal => <<records[n].status, time>> \in observed
  BY <1>1, <1>2 DEF HistoryTruthful
<1>7. records'[n].status \in Terminal => <<records'[n].status, time>> \in observed'
  BY <1>2, <1>3, <1>4, <1>5, <1>6 DEF Terminal
<1>8. /\ HistoryTruthful'
      /\ \A r \in Senders : (senders'[r].pc = "write" /\ senders'[r] = senders[r]) =>
           /\ records'[senders'[r].record].time = Head(senders'[r].times)
           /\ <<senders'[r].code, Head(senders'[r].times)>> \in observed'
  BY <1>2, <1>3, <1>7, Listener
<1>9. \A r \in Senders : senders'[r].pc = "write" => senders'[r] = senders[r]
  BY <1>2
<1> QED
  BY <1>8, <1>9 DEF Announced

LEMMA DeliverTruthful ==
  ASSUME HistoryInv, NEW j \in DOMAIN jobs, Deliver(j)
  PROVE  Announced' /\ HistoryTruthful'
<1>1. TypeOK /\ senders' = senders
  BY DEF HistoryInv, CountInv, Deliver
<1>2. PICK status \in Terminal, time \in Nat, n \in Nat :
        /\ observed' = observed \cup {<<status, time>>}
        /\ Writes(n, time) /\ records'[n].status = status
  BY <1>1, DeliverTyped
<1>3. /\ HistoryTruthful'
      /\ \A r \in Senders : (senders'[r].pc = "write" /\ senders'[r] = senders[r]) =>
           /\ records'[senders'[r].record].time = Head(senders'[r].times)
           /\ <<senders'[r].code, Head(senders'[r].times)>> \in observed'
  BY <1>2, Listener
<1> QED
  BY <1>1, <1>3 DEF Announced

\* Every other step leaves records and events alone, and nobody in write.
LEMMA OtherSteps ==
  ASSUME TypeOK, [Next]_vars,
         \A s \in Senders : ~Record(s) /\ ~Write(s), \A j \in DOMAIN jobs : ~Deliver(j)
  PROVE  /\ UNCHANGED <<records, observed>>
         /\ \A r \in Senders : senders'[r].pc = "write" => senders'[r] = senders[r]
<1>1. ASSUME NEW s \in Senders, Begin(s)
      PROVE  /\ UNCHANGED <<records, observed>>
             /\ \A r \in Senders : senders'[r].pc = "write" => senders'[r] = senders[r]
  <2>1. PICK times : Step(s, [Going(s, "send") EXCEPT !.times = times])
    BY <1>1 DEF Begin
  <2>2. senders'[s].pc = "send" /\ \A r \in Senders \ {s} : senders'[r] = senders[r]
    BY <2>1 DEF Step, Going, TypeOK, Sender
  <2> QED
    BY <1>1, <2>2 DEF Begin, history
<1>2. ASSUME NEW s \in Senders, Send(s)
      PROVE  /\ UNCHANGED <<records, observed>>
             /\ \A r \in Senders : senders'[r].pc = "write" => senders'[r] = senders[r]
  <2>1. senders[s].pc = "send" /\ UNCHANGED <<records, observed>>
    BY <1>2, SendCases
  <2>2. CASE After(s, "max_instances") \/ After(s, "")
    BY <2>1, <2>2, AfterTyped
  <2>3. CASE Step(s, [Going(s, "hook") EXCEPT !.job = Len(jobs) + 1])
    BY <2>1, <2>3, HookStep
  <2> QED
    BY <1>2, <2>1, <2>2, <2>3, SendCases
<1>3. ASSUME NEW s \in Senders, Hook(s)
      PROVE  /\ UNCHANGED <<records, observed>>
             /\ \A r \in Senders : senders'[r].pc = "write" => senders'[r] = senders[r]
  <2>1. Step(s, Going(s, "inline"))
    BY <1>3 DEF Hook
  <2>2. senders'[s].pc = "inline" /\ \A r \in Senders \ {s} : senders'[r] = senders[r]
    BY <2>1 DEF Step, Going, TypeOK, Sender
  <2> QED
    BY <1>3, <2>2 DEF Hook, history
<1>4. ASSUME NEW s \in Senders, Count(s)
      PROVE  /\ UNCHANGED <<records, observed>>
             /\ \A r \in Senders : senders'[r].pc = "write" => senders'[r] = senders[r]
  <2>1. senders[s].pc # "idle" /\ After(s, "submitted") /\ UNCHANGED <<records, observed>>
    BY <1>4, CountCases
  <2> QED
    BY <2>1, AfterTyped
<1>5. ASSUME End
      PROVE  /\ UNCHANGED <<records, observed>>
             /\ \A r \in Senders : senders'[r].pc = "write" => senders'[r] = senders[r]
  BY <1>5, EndTyped DEF End, history
<1>6. ASSUME NEW j \in DOMAIN jobs, Run(j) \/ Die(j) \/ Callback(j)
      PROVE  UNCHANGED <<records, observed, senders>>
  BY <1>6 DEF Run, Die, Callback, history
<1>7. Stop \/ Joined \/ StopExecutors \/ UNCHANGED vars => UNCHANGED <<records, observed, senders>>
  BY DEF Stop, Joined, StopExecutors, vars, history
<1> QED
  BY <1>1, <1>2, <1>3, <1>4, <1>5, <1>6, <1>7 DEF Next, Submission, Execution

LEMMA NextTruthful ==
  ASSUME HistoryInv, [Next]_vars
  PROVE  HistoryInv'
<1>1. CountInv'
  BY NextCounts DEF HistoryInv
<1>2. TypeOK
  BY DEF HistoryInv, CountInv
<1>3. Announced' /\ HistoryTruthful'
  <2>1. CASE \E s \in Senders : Record(s)
    BY <2>1, RecordTruthful
  <2>2. CASE \E s \in Senders : Write(s)
    BY <2>2, WriteTruthful
  <2>3. CASE \E j \in DOMAIN jobs : Deliver(j)
    BY <2>3, DeliverTruthful
  <2>4. CASE (\A s \in Senders : ~Record(s) /\ ~Write(s)) /\ \A j \in DOMAIN jobs : ~Deliver(j)
    BY <1>2, <2>4, OtherSteps, NoListener
  <2> QED
    BY <2>1, <2>2, <2>3, <2>4
<1> QED
  BY <1>1, <1>3 DEF HistoryInv

LEMMA InitTruthful == ASSUME Init PROVE HistoryInv
<1>1. CountInv
  BY InitCounts
<1>2. records = <<>> /\ senders = [s \in Senders |-> Idle]
  BY DEF Init, Rest
<1>3. HistoryTruthful
  BY <1>2 DEF HistoryTruthful
<1>4. Announced
  BY <1>2 DEF Announced, Idle
<1> QED
  BY <1>1, <1>3, <1>4 DEF HistoryInv

\* A run of the history that is over has the outcome of an event of its run
\* time (HistoryTruthful, history.py:209).
THEOREM HistoryOfEvents == Spec => []HistoryTruthful
<1>1. Init => HistoryInv
  BY InitTruthful
<1>2. HistoryInv /\ [Next]_vars => HistoryInv'
  BY NextTruthful
<1>3. HistoryInv => HistoryTruthful
  BY DEF HistoryInv
<1> QED
  BY <1>1, <1>2, <1>3, PTL DEF Spec

-----------------------------------------------------------------------------
\* The outcome of a record

LEMMA NextKeeps ==
  ASSUME CountInv, [Next]_vars, NEW n \in DOMAIN records,
         records[n].status \in Terminal, records'[n].status \notin Terminal
  PROVE  \E s \in Senders : senders[s].record = n /\ senders[s].seen \notin Terminal
<1>1. TypeOK
  BY DEF CountInv
<1>2. ASSUME NEW s \in Senders, Record(s)
      PROVE  FALSE
  <2> DEFINE k == senders'[s].record
  <2>1. /\ Writes(k, Head(senders[s].times))
        /\ k \in DOMAIN records => records' = records
    BY <1>1, <1>2, RecordTyped
  <2>2. records'[n] = records[n]
    BY <2>1 DEF Writes
  <2> QED
    BY <2>2
<1>3. ASSUME NEW j \in DOMAIN jobs, Deliver(j)
      PROVE  FALSE
  <2>1. PICK status \in Terminal, time \in Nat, k \in Nat : Writes(k, time) /\ records'[k].status = status
    BY <1>1, <1>3, DeliverTyped
  <2> QED
    BY <2>1 DEF Writes
<1>4. ASSUME NEW s \in Senders, Write(s)
      PROVE  senders[s].record = n /\ senders[s].seen \notin Terminal
  <2> DEFINE k == senders[s].record
  <2>1. k \in DOMAIN records /\ Writes(k, records[k].time) /\ records'[k].status = Written(s)
    BY <1>1, <1>4, WriteTyped
  <2>2. n = k
    BY <2>1 DEF Writes
  <2>3. senders[s].seen \in Terminal => Written(s) = records[k].status
    BY DEF Written, Merged
  <2> QED
    BY <2>1, <2>2, <2>3
<1>5. CASE (\A s \in Senders : ~Record(s) /\ ~Write(s)) /\ \A j \in DOMAIN jobs : ~Deliver(j)
  BY <1>1, <1>5, OtherSteps
<1> QED
  BY <1>2, <1>3, <1>4, <1>5

\* What a submission has found to be over stays over (OutcomeKept,
\* history.py:188).
THEOREM OutcomesStay == Spec => OutcomeKept
<1>1. Init => CountInv
  BY InitCounts
<1>2. CountInv /\ [Next]_vars => CountInv'
  BY NextCounts
<1>3. CountInv /\ [Next]_vars =>
        [\A n \in DOMAIN records :
           (records[n].status \in Terminal /\ records'[n].status \notin Terminal) =>
             \E s \in Senders : senders[s].record = n /\ senders[s].seen \notin Terminal]_vars
  BY NextKeeps
<1> QED
  BY <1>1, <1>2, <1>3, PTL DEF Spec, OutcomeKept
==============================================================================
