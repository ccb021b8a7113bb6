------------------------------ MODULE ViewsProofs -------------------------------
(***************************************************************************)
(* What the dashboard and the CLI show is what there is.                   *)
(*                                                                         *)
(* Sorting and filtering: Sorted puts every element at the place of its    *)
(* rank, whatever the strict order, and Subsequence keeps the order.       *)
(*                                                                         *)
(* The page of a run has the entries of the run.  The invariant is         *)
(* LogsInv: the buffer is in the order of serial numbers and each of its   *)
(* entries has the task of its run, the record the page is of is one of    *)
(* the runs, what was found by the id of the run is of that run, with all  *)
(* that was known of it when there is room, and what was found by task and *)
(* time is of that task and time.                                          *)
(*                                                                         *)
(* The table, the timeline and the detail page show the tasks.  The        *)
(* invariant is ViewsInv: while no task changes, the counts and the list   *)
(* are those of the tasks and the pages followed so far are the list up to *)
(* here; and of the tasks whose runs are to be told each is either still   *)
(* to be previewed or has its next runs among the rows, none of them twice.*)
(***************************************************************************)
EXTENDS Views, RunLogs, Integers, FiniteSetTheorems, FunctionTheorems, SequenceTheorems,
        WellFoundedInduction, TLAPS

-----------------------------------------------------------------------------
(* Sorted and Subsequence *)

\* before is the strict order of a finite set: nothing comes before itself, what
\* comes before comes before all that follows, and of two one comes first.
Ordering(S, before) ==
  /\ IsFiniteSet(S) /\ before \in [S -> SUBSET S]
  /\ \A x \in S : x \notin before[x]
  /\ \A x, y \in S : y \in before[x] => before[y] \subseteq before[x]
  /\ \A x, y \in S : x = y \/ x \in before[y] \/ y \in before[x]
Arranges(q, S, before) ==
  /\ q \in Seq(S) /\ DOMAIN q = 1..Len(q) /\ Len(q) = Cardinality(S) /\ Len(q) \in Nat
  /\ \A x \in S : \E n \in DOMAIN q : q[n] = x
  /\ \A m, n \in DOMAIN q : m < n => q[m] \in before[q[n]]
  /\ \A n \in DOMAIN q : Cardinality(before[q[n]]) = n - 1
  /\ \A m, n \in DOMAIN q : q[m] = q[n] => m = n

LEMMA SortedArranges ==
  ASSUME NEW S, NEW before, Ordering(S, before)
  PROVE  Arranges(Sorted(before), S, before)
<1> DEFINE N == Cardinality(S)
           rank == [x \in S |-> Cardinality(before[x])]
           q == Sorted(before)
<1>1. IsFiniteSet(S) /\ before \in [S -> SUBSET S] /\ DOMAIN before = S  BY DEF Ordering
<1>2. N \in Nat  BY <1>1, FS_CardinalityType
<1>3. ASSUME NEW x \in S PROVE IsFiniteSet(before[x]) /\ rank[x] \in Nat /\ rank[x] < N
  <2>1. before[x] \in SUBSET S  BY <1>1
  <2>2. x \notin before[x]  BY DEF Ordering
  <2>3. IsFiniteSet(before[x]) /\ Cardinality(before[x]) <= Cardinality(S)
        /\ (Cardinality(S) = Cardinality(before[x]) => S = before[x])
    BY <1>1, <2>1, FS_Subset
  <2>4. Cardinality(before[x]) \in Nat  BY <2>3, FS_CardinalityType
  <2> QED  BY <1>2, <2>2, <2>3, <2>4
<1>4. ASSUME NEW x \in S, NEW y \in S, y \in before[x] PROVE rank[y] < rank[x]
  <2>1. before[y] \in SUBSET before[x] /\ y \notin before[y]  BY <1>4 DEF Ordering
  <2>2. IsFiniteSet(before[x])  BY <1>3
  <2>3. Cardinality(before[y]) <= Cardinality(before[x])
        /\ (Cardinality(before[x]) = Cardinality(before[y]) => before[x] = before[y])
    BY <2>1, <2>2, FS_Subset
  <2>4. rank[x] \in Nat /\ rank[y] \in Nat  BY <1>3
  <2> QED  BY <2>1, <2>3, <2>4, <1>4
<1>5. ASSUME NEW x \in S, NEW y \in S, rank[x] = rank[y] PROVE x = y
  <2>1. x = y \/ x \in before[y] \/ y \in before[x]  BY DEF Ordering
  <2>2. rank[x] \in Nat /\ rank[y] \in Nat  BY <1>3
  <2> QED  BY <2>1, <2>2, <1>4, <1>5
<1> HIDE DEF N, rank
<1>6. ASSUME NEW n \in 1..N PROVE \E x \in S : rank[x] = n - 1
  <2>1. IsFiniteSet(0..(N-1)) /\ Cardinality(0..(N-1)) = N
    <3>1. 0 \in Int /\ N - 1 \in Int  BY <1>2
    <3>2. IsFiniteSet(0..(N-1)) /\ Cardinality(0..(N-1)) = IF 0 > N-1 THEN 0 ELSE N-1-0+1
      BY <3>1, FS_Interval
    <3> QED  BY <3>2, <1>2
  <2>2. rank \in [S -> 0..(N-1)]
    <3>1. rank = [x \in S |-> rank[x]]  BY DEF rank
    <3>2. \A x \in S : rank[x] \in 0..(N-1)  BY <1>3, <1>2
    <3> QED  BY <3>1, <3>2
  <2>3. rank \in Injection(S, 0..(N-1))  BY <2>2, <1>5 DEF Injection, IsInjective
  <2>4. rank \in Surjection(S, 0..(N-1))  BY <2>1, <2>3, <1>2, FS_Injection DEF N
  <2>5. n - 1 \in 0..(N-1)  BY <1>2
  <2> QED  BY <2>4, <2>5 DEF Surjection
<1>7. DOMAIN q = 1..N /\ \A n \in 1..N : q[n] \in S /\ rank[q[n]] = n - 1
  <2>1. q = [n \in 1..N |-> CHOOSE x \in S : Cardinality(before[x]) = n - 1]  BY <1>1 DEF Sorted, N
  <2>2. ASSUME NEW n \in 1..N PROVE q[n] \in S /\ rank[q[n]] = n - 1
    <3>1. PICK x \in S : rank[x] = n - 1  BY <1>6
    <3>2. \A y \in S : rank[y] = Cardinality(before[y])  BY DEF rank
    <3>3. q[n] = CHOOSE y \in S : Cardinality(before[y]) = n - 1  BY <2>1
    <3> HIDE DEF q
    <3> QED  BY <3>1, <3>2, <3>3
  <2> HIDE DEF q
  <2> QED  BY <2>1, <2>2
<1> HIDE DEF q
<1>8. q \in Seq(S) /\ Len(q) = N
  <2>1. q = [n \in 1..N |-> q[n]]
    <3>1. q = [n \in DOMAIN q |-> q[n]]  BY DEF q, Sorted
    <3> QED  BY <3>1, <1>7
  <2>2. q \in [1..N -> S]  BY <2>1, <1>7
  <2>3. q \in Seq(S)  BY <2>2, <1>2
  <2> QED  BY <2>2, <2>3, <1>2
<1>9. ASSUME NEW x \in S PROVE \E n \in 1..N : q[n] = x
  <2>1. rank[x] \in Nat /\ rank[x] < N  BY <1>3
  <2>2. rank[x] + 1 \in 1..N  BY <2>1, <1>2
  <2>3. rank[q[rank[x] + 1]] = rank[x] /\ q[rank[x] + 1] \in S  BY <2>1, <2>2, <1>7
  <2> QED  BY <2>2, <2>3, <1>5
<1>10. ASSUME NEW m \in 1..N, NEW n \in 1..N, m < n PROVE q[m] \in before[q[n]]
  <2>1. q[m] \in S /\ q[n] \in S /\ rank[q[m]] = m - 1 /\ rank[q[n]] = n - 1  BY <1>7
  <2>2. rank[q[m]] < rank[q[n]] /\ q[m] # q[n]  BY <2>1, <1>10
  <2>3. q[m] \in before[q[n]] \/ q[n] \in before[q[m]]  BY <2>1, <2>2 DEF Ordering
  <2>4. ~(rank[q[n]] < rank[q[m]])  BY <2>1, <1>10
  <2> QED  BY <2>1, <2>3, <2>4, <1>4
<1>11. ASSUME NEW m \in 1..N, NEW n \in 1..N, q[m] = q[n] PROVE m = n
  <2>1. rank[q[m]] = m - 1 /\ rank[q[n]] = n - 1  BY <1>7
  <2> QED  BY <2>1, <1>11
<1>12. \A n \in 1..N : Cardinality(before[q[n]]) = n - 1  BY <1>7 DEF rank
<1> QED  BY <1>2, <1>7, <1>8, <1>9, <1>10, <1>11, <1>12 DEF Arranges, N, q

\* Of some places of a sequence, those before each.
Before(places) == [n \in places |-> {m \in places : m < n}]
Picks(s, q, places) ==
  /\ \A T : q \in Seq(T) => s \in Seq(T)
  /\ Len(s) = Cardinality(places) /\ Len(s) \in Nat /\ DOMAIN s = 1..Len(s)
  /\ \A k \in DOMAIN s : \E n \in places : s[k] = q[n]
  /\ \A n \in places : \E k \in DOMAIN s : k <= n /\ s[k] = q[n]
  /\ \A k, l \in DOMAIN s : k < l => \E m, n \in places : m < n /\ s[k] = q[m] /\ s[l] = q[n]

LEMMA SubsequencePicks ==
  ASSUME NEW T, NEW q \in Seq(T), NEW places \in SUBSET DOMAIN q
  PROVE  Picks(Subsequence(q, places), q, places)
<1> DEFINE order == Sorted(Before(places))
           s == Subsequence(q, places)
<1>1. Len(q) \in Nat /\ DOMAIN q = 1..Len(q)  OBVIOUS
<1>2. IsFiniteSet(places)
  <2>1. IsFiniteSet(1..Len(q))  BY <1>1, FS_Interval
  <2> QED  BY <1>1, <2>1, FS_Subset
<1>3. \A n \in places : n \in Nat  BY <1>1
<1>4. Ordering(places, Before(places))  BY <1>2, <1>3 DEF Ordering, Before
<1>5. Arranges(order, places, Before(places))  BY <1>4, SortedArranges
<1>6. s = [k \in DOMAIN order |-> q[order[k]]]  BY DEF Subsequence, Before
<1> HIDE DEF order, s
<1>7. Len(order) \in Nat /\ DOMAIN order = 1..Len(order) /\ Len(order) = Cardinality(places) /\ order \in Seq(places)
  BY <1>5 DEF Arranges
<1>8. \A k \in DOMAIN order : order[k] \in places  BY <1>7
<1>9. DOMAIN s = 1..Len(order) /\ \A k \in DOMAIN order : s[k] = q[order[k]]  BY <1>6, <1>7
<1>10. ASSUME NEW U, q \in Seq(U) PROVE s \in Seq(U)
  <2>1. \A k \in DOMAIN order : q[order[k]] \in U  BY <1>8, <1>10
  <2>2. PICK n \in Nat : DOMAIN order = 1..n  BY <1>7
  <2>3. s \in [1..n -> U]  BY <1>6, <2>1, <2>2
  <2> QED  BY <2>3
<1>11. Len(s) = Len(order)
  <2>1. s \in Seq(T)  BY <1>10
  <2> QED  BY <2>1, <1>9, <1>7
<1>12. \A n \in places : \E k \in DOMAIN order : order[k] = n  BY <1>5 DEF Arranges
<1>13. ASSUME NEW k \in DOMAIN s, NEW l \in DOMAIN s, k < l
       PROVE \E m, n \in places : m < n /\ s[k] = q[m] /\ s[l] = q[n]
  <2>1. k \in DOMAIN order /\ l \in DOMAIN order  BY <1>7, <1>9
  <2>2. order[k] \in Before(places)[order[l]]  BY <2>1, <1>5, <1>13 DEF Arranges
  <2>3. order[k] < order[l]  BY <2>1, <2>2, <1>8 DEF Before
  <2> QED  BY <2>1, <2>3, <1>8, <1>9
<1>14. \A k \in DOMAIN s : \E n \in places : s[k] = q[n]  BY <1>7, <1>8, <1>9
<1>15. ASSUME NEW n \in places
       PROVE  \E k \in DOMAIN s : k <= n /\ s[k] = q[n]
  <2>1. PICK k \in DOMAIN order : order[k] = n  BY <1>12
  <2>2. Before(places)[n] \in SUBSET (1..(n - 1))  BY <1>1 DEF Before
  <2>3. n \in Nat /\ n >= 1 /\ k \in Nat  BY <1>1, <1>7
  <2>4. IsFiniteSet(1..(n - 1)) /\ Cardinality(1..(n - 1)) = n - 1
    <3>1. 1 \in Int /\ n - 1 \in Int  BY <2>3
    <3>2. IsFiniteSet(1..(n-1)) /\ Cardinality(1..(n-1)) = IF 1 > n-1 THEN 0 ELSE n-1-1+1
      BY <3>1, FS_Interval
    <3> QED  BY <3>2, <2>3
  <2>5. Cardinality(Before(places)[n]) <= n - 1  BY <2>2, <2>4, FS_Subset
  <2>6. Cardinality(Before(places)[n]) = k - 1  BY <2>1, <1>5 DEF Arranges
  <2> QED  BY <2>1, <2>3, <2>5, <2>6, <1>7, <1>9
<1> QED  BY <1>7, <1>9, <1>10, <1>11, <1>13, <1>14, <1>15 DEF Picks, s

LEMMA MinOfTwo ==
  ASSUME NEW a \in Nat, NEW b \in Nat
  PROVE  Min({a, b}) = IF a <= b THEN a ELSE b
<1> DEFINE m == IF a <= b THEN a ELSE b
<1>1. m \in {a, b} /\ \A y \in {a, b} : m <= y  OBVIOUS
<1>2. \A x \in {a, b} : (\A y \in {a, b} : x <= y) => x = m  OBVIOUS
<1> QED  BY <1>1, <1>2 DEF Min

\* What SubSeq(s, 1, Min({limit, Len(s)})) is, with which every list is cut off.
Cut(s, limit) == SubSeq(s, 1, Min({limit, Len(s)}))
CutFacts(r, s, limit) ==
  /\ Len(r) = IF limit <= Len(s) THEN limit ELSE Len(s)
  /\ Len(r) \in Nat /\ Len(s) \in Nat /\ DOMAIN r = 1..Len(r) /\ DOMAIN s = 1..Len(s)
  /\ \A k \in DOMAIN r : k \in DOMAIN s /\ r[k] = s[k]
LEMMA CutIs ==
  ASSUME NEW T, NEW s \in Seq(T), NEW limit \in Nat
  PROVE  Cut(s, limit) \in Seq(T) /\ CutFacts(Cut(s, limit), s, limit)
<1> DEFINE n == IF limit <= Len(s) THEN limit ELSE Len(s)
<1>1. Len(s) \in Nat /\ DOMAIN s = 1..Len(s)  OBVIOUS
<1>2. n \in Nat /\ n <= Len(s)  BY <1>1
<1>3. Cut(s, limit) = SubSeq(s, 1, n)  BY <1>1, MinOfTwo DEF Cut
<1> HIDE DEF n
<1>4. SubSeq(s, 1, n) \in Seq(T) /\ Len(SubSeq(s, 1, n)) = n  BY <1>1, <1>2
<1>5. \A k \in 1..n : SubSeq(s, 1, n)[k] = s[k]  BY <1>1, <1>2
<1> QED  BY <1>1, <1>2, <1>3, <1>4, <1>5 DEF CutFacts, n

\* Of the naturals with a property there is a least one.
LEMMA LeastNat ==
  ASSUME NEW P \in SUBSET Nat, P # {}
  PROVE  \E n \in P : \A m \in P : n <= m
<1> DEFINE Less == OpToRel(<, Nat)
<1>1. IsWellFoundedOn(Less, Nat)  BY NatLessThanWellFounded
<1>2. \A x, y \in Nat : <<y, x>> \in Less <=> y < x  BY DEF OpToRel
<1> HIDE DEF Less
<1>3. PICK n \in P : \A m \in P : <<m, n>> \notin Less  BY <1>1, WFMin
<1>4. \A m \in P : ~(m < n)  BY <1>2, <1>3
<1> QED  BY <1>4

-----------------------------------------------------------------------------
(* The entries and records of runs *)

Entry == [run : Runs \cup {NoRun}, task : {TaskOf[r] : r \in Runs},
          message : {"submitted", "finished", "working"}, ts : Nat, serial : Nat]
RunRecord == [run : Runs, submitted : Nat \cup {NoTime}, finished : Nat \cup {NoTime}, updated : Nat]
PageType == [pc : {"list", "open", "missing", "direct", "correlated", "shown"}, record : Nat,
             direct : Seq(Entry), correlated : Seq(Entry), since : Int, until : Int, known : SUBSET Entry]
LogsType ==
  /\ clock \in Nat /\ serial \in Nat
  /\ buffer \in Seq(Entry) /\ runs \in Seq(RunRecord)
  /\ stored \in Seq(DOMAIN runs)
  /\ logging \in SUBSET (Runs \X {"submitted", "finished"})
  /\ page \in PageType

\* An entry with the id of a run carries the run's task.
OfItsTask(e) == e.run # NoRun => e.task = TaskOf[e.run]
\* The entries are in the order they were logged in.
InTurn(entries, last) ==
  /\ \A n \in DOMAIN entries : entries[n].serial < last /\ OfItsTask(entries[n])
  /\ \A m, n \in DOMAIN entries : m < n => entries[m].serial < entries[n].serial

\* The record of the page stays that of its run.
RecordHeld == page.pc \in {"direct", "correlated", "shown"} => page.record \in DOMAIN runs

\* The entries found by the id of the run.
OfTheRun(direct, known, r) ==
  /\ Len(direct) <= PageLimit
  /\ \A m, n \in DOMAIN direct : direct[m] = direct[n] => m = n
  /\ \A n \in DOMAIN direct : direct[n].run = r /\ direct[n].task = TaskOf[r]
  /\ \A e \in known : e.run = r /\ e.task = TaskOf[r]
  /\ Len(direct) < PageLimit => \A e \in known : \E n \in DOMAIN direct : direct[n] = e
DirectFound == page.pc \in {"correlated", "shown"} =>
  OfTheRun(page.direct, page.known, Shown.run)
\* Those found by its task and time.
NearTheRun(correlated, since, until, r) ==
  \A n \in DOMAIN correlated : correlated[n].task = TaskOf[r] /\ correlated[n].ts \in since..until
CorrelatedFound == page.pc = "shown" /\ Len(page.direct) < PageLimit =>
  NearTheRun(page.correlated, page.since, page.until, Shown.run)

LogsInv == LogsType /\ InTurn(buffer, serial) /\ RecordHeld /\ DirectFound /\ CorrelatedFound

LEMMA LogsConstants ==
  /\ PageLimit \in Nat /\ PageLimit > 0 /\ BufferLen \in Nat /\ BufferLen > 0
  /\ NoRun \notin Runs
BY RunLogsAssumption

-----------------------------------------------------------------------------
(* The storage *)

\* What an append leaves of the buffer.
LEMMA EntriesTyped ==
  ASSUME NEW q \in Seq(Entry)
  PROVE  \A n \in DOMAIN q : q[n] \in Entry /\ q[n].serial \in Nat
<1>1. \A n \in DOMAIN q : q[n] \in Entry  OBVIOUS
<1>2. \A e \in Entry : e.serial \in Nat  BY DEF Entry
<1> QED  BY <1>1, <1>2
LEMMA PushedKeeps ==
  ASSUME LogsType, InTurn(buffer, serial), NEW entry \in Entry, OfItsTask(entry), entry.serial = serial
  PROVE  Pushed(entry) \in Seq(Entry) /\ InTurn(Pushed(entry), serial + 1)
<1>1. Len(buffer) \in Nat /\ DOMAIN buffer = 1..Len(buffer) /\ buffer \in Seq(Entry) /\ serial \in Nat
  BY DEF LogsType
<1>0. \A n \in DOMAIN buffer : buffer[n] \in Entry /\ buffer[n].serial \in Nat  BY <1>1, EntriesTyped
<1>2. CASE Len(buffer) < BufferLen
  <2> DEFINE b == Append(buffer, entry)
  <2>1. Pushed(entry) = b  BY <1>2 DEF Pushed
  <2>2. b \in Seq(Entry) /\ DOMAIN b = 1..(Len(buffer) + 1) /\ b[Len(buffer) + 1] = entry
        /\ \A n \in 1..Len(buffer) : b[n] = buffer[n]
    BY <1>1
  <2> HIDE DEF b
  <2>3. \A n \in DOMAIN b : b[n].serial < serial + 1 /\ OfItsTask(b[n])
    BY <2>2, <1>1, <1>0 DEF InTurn
  <2>4. \A m, n \in DOMAIN b : m < n => b[m].serial < b[n].serial
    BY <2>2, <1>1, <1>0 DEF InTurn
  <2> QED  BY <2>1, <2>2, <2>3, <2>4 DEF InTurn
<1>3. CASE ~(Len(buffer) < BufferLen)
  <2> DEFINE b == Append(Tail(buffer), entry)
             L == Len(buffer)
  <2>0. L > 0  BY <1>3, <1>1, LogsConstants
  <2>1. Pushed(entry) = b  BY <1>3 DEF Pushed
  <2>2. Tail(buffer) \in Seq(Entry) /\ Len(Tail(buffer)) = L - 1
        /\ \A n \in 1..(L - 1) : Tail(buffer)[n] = buffer[n + 1]
    BY <1>1, <2>0
  <2>3. b \in Seq(Entry) /\ DOMAIN b = 1..L /\ b[L] = entry /\ \A n \in 1..(L - 1) : b[n] = buffer[n + 1]
    <3> DEFINE tl == Tail(buffer)
    <3>1. L \in Nat /\ L - 1 \in Nat  BY <1>1, <2>0
    <3>2. tl \in Seq(Entry) /\ Len(tl) = L - 1 /\ \A n \in 1..(L - 1) : tl[n] = buffer[n + 1]  BY <2>2
    <3> HIDE DEF tl, L
    <3>3. Append(tl, entry) \in Seq(Entry) /\ DOMAIN Append(tl, entry) = 1..L
          /\ Append(tl, entry)[L] = entry /\ \A n \in 1..(L - 1) : Append(tl, entry)[n] = tl[n]
      BY <3>1, <3>2
    <3> QED  BY <3>1, <3>2, <3>3 DEF tl
  <2>4. \A n \in 1..(L - 1) : n + 1 \in DOMAIN buffer /\ n + 1 \in Nat  BY <1>1
  <2> HIDE DEF b
  <2>5. \A n \in DOMAIN b : b[n].serial < serial + 1 /\ OfItsTask(b[n])
    <3> SUFFICES ASSUME NEW n \in DOMAIN b PROVE b[n].serial < serial + 1 /\ OfItsTask(b[n])  OBVIOUS
    <3>1. CASE n = L  BY <3>1, <2>3, <1>1
    <3>2. CASE n # L
      <4>1. n \in 1..(L - 1)  BY <3>2, <2>3, <1>1
      <4>2. b[n] = buffer[n + 1] /\ n + 1 \in DOMAIN buffer  BY <4>1, <2>3, <2>4
      <4> QED  BY <4>2, <1>0, <1>1 DEF InTurn
    <3> QED  BY <3>1, <3>2
  <2>6. \A m, n \in DOMAIN b : m < n => b[m].serial < b[n].serial
    <3> SUFFICES ASSUME NEW m \in DOMAIN b, NEW n \in DOMAIN b, m < n PROVE b[m].serial < b[n].serial  OBVIOUS
    <3>1. m \in 1..(L - 1) /\ n \in 1..L  BY <2>3, <1>1
    <3>2. b[m] = buffer[m + 1] /\ m + 1 \in DOMAIN buffer  BY <3>1, <2>3, <2>4
    <3>3. CASE n = L  BY <3>2, <3>3, <2>3 DEF InTurn
    <3>4. CASE n # L
      <4>1. n \in 1..(L - 1)  BY <3>1, <3>4, <1>1
      <4>2. b[n] = buffer[n + 1] /\ n + 1 \in DOMAIN buffer /\ m + 1 < n + 1  BY <4>1, <3>1, <2>3, <2>4
      <4> QED  BY <3>2, <4>2 DEF InTurn
    <3> QED  BY <3>3, <3>4
  <2> QED  BY <2>1, <2>3, <2>5, <2>6 DEF InTurn
<1> QED  BY <1>2, <1>3

\* What a query finds: entries of the buffer from the places that pass its
\* filter, all of them unless they are more than limit.
Found(r, places, limit) ==
  /\ r \in Seq(Entry) /\ Len(r) <= limit /\ Len(r) \in Nat /\ DOMAIN r = 1..Len(r)
  /\ \A k \in DOMAIN r : \E n \in places : r[k] = buffer[n]
  /\ \A k, l \in DOMAIN r : r[k] = r[l] => k = l
  /\ Len(r) < limit => \A n \in places : \E k \in DOMAIN r : r[k] = buffer[n]
LEMMA NewestFinds ==
  ASSUME LogsType, InTurn(buffer, serial), NEW places \in SUBSET DOMAIN buffer, NEW limit \in Nat
  PROVE  Found(Newest(Subsequence(buffer, places), limit), places, limit)
<1> DEFINE s == Subsequence(buffer, places)
           v == Reverse(s)
           r == Cut(v, limit)
<1>1. buffer \in Seq(Entry) /\ DOMAIN buffer = 1..Len(buffer) /\ Len(buffer) \in Nat  BY DEF LogsType
<1>2. Picks(s, buffer, places)  BY <1>1, SubsequencePicks
<1> HIDE DEF s
<1>3. s \in Seq(Entry) /\ Len(s) \in Nat /\ DOMAIN s = 1..Len(s)  BY <1>1, <1>2 DEF Picks
<1>4. v \in Seq(Entry) /\ Len(v) = Len(s) /\ DOMAIN v = 1..Len(s) /\ \A k \in 1..Len(s) : v[k] = s[Len(s) - k + 1]
  <2> DEFINE L == Len(s)
  <2>1. v = [k \in 1..L |-> s[L - k + 1]]  BY DEF Reverse
  <2>2. L \in Nat /\ \A k \in 1..L : L - k + 1 \in 1..L  BY <1>3
  <2> HIDE DEF L, v
  <2>3. \A k \in 1..L : s[L - k + 1] \in Entry  BY <2>2, <1>3 DEF L
  <2>4. v \in [1..L -> Entry]  BY <2>1, <2>3
  <2>5. v \in Seq(Entry) /\ Len(v) = L  BY <2>2, <2>4
  <2> QED  BY <2>1, <2>4, <2>5 DEF L
<1> HIDE DEF v
<1>5. r = Newest(s, limit)  BY <1>3, <1>4 DEF Newest, Cut, v
<1>6. r \in Seq(Entry) /\ CutFacts(r, v, limit)  BY <1>4, CutIs
<1> HIDE DEF r
<1>7. Len(r) \in Nat /\ DOMAIN r = 1..Len(r) /\ Len(r) <= limit /\ Len(r) <= Len(s)
      /\ \A k \in DOMAIN r : k \in 1..Len(s) /\ r[k] = s[Len(s) - k + 1]
  BY <1>3, <1>4, <1>6 DEF CutFacts
<1>8. \A k \in 1..Len(s) : Len(s) - k + 1 \in DOMAIN s  BY <1>3
<1>9. ASSUME NEW k \in DOMAIN s, NEW l \in DOMAIN s, k < l PROVE s[k] # s[l]
  <2>1. PICK m \in places, n \in places : m < n /\ s[k] = buffer[m] /\ s[l] = buffer[n]
    BY <1>2, <1>9 DEF Picks
  <2>2. buffer[m].serial < buffer[n].serial /\ buffer[m].serial \in Nat  BY <2>1, <1>1, EntriesTyped DEF InTurn
  <2> QED  BY <2>1, <2>2
<1>10. ASSUME NEW k \in DOMAIN r, NEW l \in DOMAIN r, r[k] = r[l] PROVE k = l
  <2> DEFINE kk == Len(s) - k + 1
             ll == Len(s) - l + 1
  <2>1. kk \in DOMAIN s /\ ll \in DOMAIN s /\ s[kk] = s[ll]  BY <1>7, <1>8, <1>10
  <2>2. ~(kk < ll) /\ ~(ll < kk)  BY <2>1, <1>9
  <2>3. kk = ll  BY <2>1, <2>2, <1>3
  <2> QED  BY <2>3, <1>3, <1>7
<1>11. ASSUME Len(r) < limit, NEW n \in places PROVE \E k \in DOMAIN r : r[k] = buffer[n]
  <2>0. Len(r) = IF limit <= Len(v) THEN limit ELSE Len(v)  BY <1>6 DEF CutFacts
  <2>4. Len(v) = Len(s) /\ Len(s) \in Nat /\ Len(r) \in Nat  BY <1>3, <1>4, <1>7
  <2>1. Len(r) = Len(s)  BY <1>11, <2>0, <2>4
  <2>2. PICK k \in DOMAIN s : s[k] = buffer[n]  BY <1>2 DEF Picks
  <2>3. Len(s) - k + 1 \in DOMAIN r /\ Len(s) - (Len(s) - k + 1) + 1 = k  BY <2>1, <1>3, <1>7
  <2> QED  BY <2>2, <2>3, <1>7
<1>12. \A k \in DOMAIN r : \E n \in places : r[k] = buffer[n]  BY <1>2, <1>7, <1>8 DEF Picks
<1> QED  BY <1>5, <1>6, <1>7, <1>10, <1>11, <1>12 DEF Found, s

-----------------------------------------------------------------------------
(* The page of a run *)

Shows(rows, known, since, until, r) ==
  /\ Len(rows) <= PageLimit /\ IsInjective(rows)
  /\ \A e \in known :
       \/ \E s \in ToSet(rows) : Key(s) = Key(e) /\ s.task = e.task
       \/ Len(rows) = PageLimit /\ \A s \in ToSet(rows) : s.run = r
  /\ \A s \in ToSet(rows) : s.run # r => s.task = TaskOf[r] /\ s.ts \in since..until

\* The entries of a sequence, each once: the first of each key, no later than it
\* was.
FirstOfEach(q) == {n \in DOMAIN q : \A m \in 1..(n - 1) : Key(q[m]) # Key(q[n])}
Deduplicates(s, q) ==
  /\ s \in Seq(Entry) /\ Len(s) \in Nat /\ DOMAIN s = 1..Len(s)
  /\ \A k \in DOMAIN s : \E n \in DOMAIN q : s[k] = q[n]
  /\ \A k, l \in DOMAIN s : s[k] = s[l] => k = l
  /\ \A n \in DOMAIN q : \E k \in DOMAIN s : \E m \in DOMAIN q :
       k <= m /\ m <= n /\ s[k] = q[m] /\ Key(q[m]) = Key(q[n])
LEMMA OneOfEachDeduplicates ==
  ASSUME NEW q \in Seq(Entry)
  PROVE  Deduplicates(OneOfEach(q), q)
<1> DEFINE places == FirstOfEach(q)
           s == OneOfEach(q)
<1>1. DOMAIN q = 1..Len(q) /\ Len(q) \in Nat  OBVIOUS
<1>2. places \in SUBSET DOMAIN q /\ s = Subsequence(q, places)  BY DEF FirstOfEach, OneOfEach
<1> HIDE DEF s
<1>3. Picks(s, q, places)  BY <1>2, SubsequencePicks
<1>4. s \in Seq(Entry) /\ Len(s) \in Nat /\ DOMAIN s = 1..Len(s)  BY <1>3 DEF Picks
<1>5. \A k \in DOMAIN s : \E n \in DOMAIN q : s[k] = q[n]  BY <1>2, <1>3 DEF Picks
<1>6. ASSUME NEW k \in DOMAIN s, NEW l \in DOMAIN s, k < l PROVE s[k] # s[l]
  <2>1. PICK m \in places, n \in places : m < n /\ s[k] = q[m] /\ s[l] = q[n]  BY <1>3, <1>6 DEF Picks
  <2>2. m \in 1..(n - 1)  BY <2>1, <1>1 DEF FirstOfEach
  <2>3. Key(q[m]) # Key(q[n])  BY <2>2 DEF FirstOfEach
  <2> QED  BY <2>1, <2>3
<1>7. \A k, l \in DOMAIN s : s[k] = s[l] => k = l
  <2> SUFFICES ASSUME NEW k \in DOMAIN s, NEW l \in DOMAIN s, s[k] = s[l] PROVE k = l  OBVIOUS
  <2>1. ~(k < l) /\ ~(l < k)  BY <1>6
  <2> QED  BY <2>1, <1>4
<1>8. ASSUME NEW n \in DOMAIN q
      PROVE  \E k \in DOMAIN s : \E m \in DOMAIN q : k <= m /\ m <= n /\ s[k] = q[m] /\ Key(q[m]) = Key(q[n])
  <2> DEFINE P == {m \in DOMAIN q : Key(q[m]) = Key(q[n])}
  <2>1. P \in SUBSET Nat /\ n \in P  BY <1>1
  <2> HIDE DEF P
  <2>2. PICK m \in P : \A l \in P : m <= l  BY <2>1, LeastNat
  <2>3. m \in DOMAIN q /\ Key(q[m]) = Key(q[n]) /\ m <= n  BY <2>1, <2>2 DEF P
  <2>4. \A l \in 1..(m - 1) : Key(q[l]) # Key(q[m])
    <3> SUFFICES ASSUME NEW l \in 1..(m - 1), Key(q[l]) = Key(q[m]) PROVE FALSE  OBVIOUS
    <3>1. l \in DOMAIN q /\ l < m  BY <2>3, <1>1
    <3>2. l \in P  BY <3>1, <2>3 DEF P
    <3>3. m <= l  BY <3>2, <2>2
    <3> QED  BY <3>1, <3>3, <2>3, <1>1
  <2>5. m \in places  BY <2>3, <2>4 DEF FirstOfEach
  <2>6. PICK k \in DOMAIN s : k <= m /\ s[k] = q[m]  BY <2>5, <1>3 DEF Picks
  <2> QED  BY <2>3, <2>6
<1> QED  BY <1>4, <1>5, <1>7, <1>8 DEF Deduplicates, s

LEMMA TogetherShows ==
  ASSUME NEW direct \in Seq(Entry), NEW correlated \in Seq(Entry), NEW known, NEW r \in Runs,
         NEW since, NEW until, OfTheRun(direct, known, r),
         Len(direct) < PageLimit => NearTheRun(correlated, since, until, r)
  PROVE  Shows(Together(direct, correlated), known, since, until, r)
<1> DEFINE rows == Together(direct, correlated)
           D == Len(direct)
<1>1. D \in Nat /\ DOMAIN direct = 1..D /\ PageLimit \in Nat  BY LogsConstants
<1>2. CASE D >= PageLimit
  <2>1. rows = direct  BY <1>2 DEF Together
  <2>0. Len(direct) <= PageLimit  BY DEF OfTheRun
  <2>6. D <= PageLimit  BY <2>0
  <2>7. D = PageLimit
    <3> HIDE DEF D
    <3> QED  BY <1>1, <1>2, <2>6
  <2>2. Len(direct) = PageLimit  BY <2>7
  <2>3. \A s \in ToSet(direct) : s.run = r  BY DEF OfTheRun, ToSet
  <2>4. IsInjective(direct)  BY DEF OfTheRun, IsInjective
  <2> HIDE DEF rows
  <2>5. Shows(direct, known, since, until, r)
    <3>1. \A s \in ToSet(direct) : s.run # r => s.task = TaskOf[r] /\ s.ts \in since..until  BY <2>3
    <3> QED  BY <2>0, <2>2, <2>3, <2>4, <3>1 DEF Shows
  <2> QED  BY <2>1, <2>5 DEF rows
<1>3. CASE D < PageLimit
  <2> DEFINE all == direct \o correlated
             s == OneOfEach(all)
  <2>1. all \in Seq(Entry) /\ DOMAIN all = 1..(D + Len(correlated)) /\ Len(correlated) \in Nat
        /\ DOMAIN correlated = 1..Len(correlated)
        /\ (\A n \in 1..D : all[n] = direct[n])
        /\ \A n \in DOMAIN all : n > D => n - D \in DOMAIN correlated /\ all[n] = correlated[n - D]
    BY <1>1
  <2> HIDE DEF all
  <2>2. Deduplicates(s, all)  BY <2>1, OneOfEachDeduplicates
  <2>3. rows = Cut(s, PageLimit)
    <3>1. ~(Len(direct) >= PageLimit)  BY <1>1, <1>3
    <3> QED  BY <3>1 DEF Together, Shorter, Cut, all
  <2> HIDE DEF s, rows
  <2>4. s \in Seq(Entry) /\ Len(s) \in Nat /\ DOMAIN s = 1..Len(s)  BY <2>2 DEF Deduplicates
  <2>5. rows \in Seq(Entry) /\ CutFacts(rows, s, PageLimit)  BY <2>3, <2>4, <1>1, CutIs
  <2>6. Len(rows) = (IF PageLimit <= Len(s) THEN PageLimit ELSE Len(s)) /\ DOMAIN rows = 1..Len(rows)
        /\ \A k \in DOMAIN rows : k \in DOMAIN s /\ rows[k] = s[k]
    BY <2>5 DEF CutFacts
  <2>7. \A k, l \in DOMAIN rows : rows[k] = rows[l] => k = l  BY <2>2, <2>6 DEF Deduplicates
  <2>8. Len(rows) <= PageLimit /\ IsInjective(rows)
    <3>1. Len(rows) <= PageLimit  BY <2>6, <2>4, <1>1
    <3> QED  BY <3>1, <2>7 DEF IsInjective
  <2>9. ASSUME NEW e \in known PROVE \E x \in ToSet(rows) : Key(x) = Key(e) /\ x.task = e.task
    <3>1. PICK n \in DOMAIN direct : direct[n] = e  BY <1>3 DEF OfTheRun
    <3>2. n \in DOMAIN all /\ all[n] = e  BY <3>1, <2>1, <1>1
    <3>3. PICK k \in DOMAIN s, m \in DOMAIN all :
            k <= m /\ m <= n /\ s[k] = all[m] /\ Key(all[m]) = Key(all[n])
      BY <2>2, <3>2 DEF Deduplicates
    <3>4. m \in 1..D /\ k \in Nat /\ k <= D  BY <3>1, <3>3, <2>1, <2>4, <1>1
    <3>5. s[k] = direct[m] /\ s[k].task = TaskOf[r]  BY <3>3, <3>4, <2>1, <1>1 DEF OfTheRun
    <3>6. k \in DOMAIN rows /\ rows[k] = s[k]  BY <3>3, <3>4, <2>4, <2>6, <1>1, <1>3
    <3>7. rows[k] \in ToSet(rows)  BY <3>6 DEF ToSet
    <3>8. e.task = TaskOf[r]  BY DEF OfTheRun
    <3>9. Key(rows[k]) = Key(e) /\ rows[k].task = e.task  BY <3>2, <3>3, <3>5, <3>6, <3>8
    <3> QED  BY <3>7, <3>9
  <2>10. ASSUME NEW x \in ToSet(rows), x.run # r PROVE x.task = TaskOf[r] /\ x.ts \in since..until
    <3>1. PICK k \in DOMAIN rows : x = rows[k]  BY DEF ToSet
    <3>2. PICK n \in DOMAIN all : x = all[n]  BY <3>1, <2>2, <2>6 DEF Deduplicates
    <3>3. n \notin 1..D
      <4>1. \A m \in 1..D : all[m].run = r  BY <2>1, <1>1 DEF OfTheRun
      <4> QED  BY <3>2, <4>1, <2>10
    <3>4. n > D  BY <3>3, <2>1, <1>1
    <3>5. n - D \in DOMAIN correlated /\ x = correlated[n - D]  BY <3>2, <3>4, <2>1
    <3> QED  BY <3>5, <1>3 DEF NearTheRun
  <2> QED  BY <2>8, <2>9, <2>10 DEF Shows, rows
<1> QED  BY <1>1, <1>2, <1>3

LEMMA LogsInvImplies == ASSUME LogsInv PROVE PageShowsTheRun
<1> SUFFICES ASSUME page.pc = "shown" PROVE Shows(Together(page.direct, page.correlated), page.known, page.since, page.until, Shown.run)
  <2>1. Shows(Together(page.direct, page.correlated), page.known, page.since, page.until, Shown.run) => PageShowsTheRun
    BY DEF Shows, PageShowsTheRun
  <2>2. page.pc # "shown" => PageShowsTheRun  BY DEF PageShowsTheRun
  <2> QED  BY <2>1, <2>2
<1>1. Shown.run \in Runs
  <2>1. page.record \in DOMAIN runs /\ runs \in Seq(RunRecord)  BY DEF LogsInv, RecordHeld, LogsType
  <2>2. Shown \in RunRecord  BY <2>1 DEF Shown
  <2> QED  BY <2>2 DEF RunRecord
<1>2. page.direct \in Seq(Entry) /\ page.correlated \in Seq(Entry)  BY DEF LogsInv, LogsType, PageType
<1>3. OfTheRun(page.direct, page.known, Shown.run)  BY DEF LogsInv, DirectFound
<1>4. Len(page.direct) < PageLimit => NearTheRun(page.correlated, page.since, page.until, Shown.run)
  BY DEF LogsInv, CorrelatedFound
<1> QED  BY <1>1, <1>2, <1>3, <1>4, TogetherShows

LEMMA LogsBegin == ASSUME LogsInit PROVE LogsInv
<1>1. clock = 1 /\ runs = <<>> /\ logging = {} /\ buffer = <<>> /\ serial = 0 /\ page = Closed
  BY DEF LogsInit, LogsStart
<1>0. page \in PageType  BY <1>1 DEF Closed, PageType
<1>2. LogsType
  <2>1. stored = <<>>  BY DEF LogsInit, LogsStart
  <2> QED  BY <1>0, <1>1, <2>1 DEF LogsType
<1>3. InTurn(buffer, serial)  BY <1>1 DEF InTurn
<1>4. page.pc = "list"  BY <1>1 DEF Closed
<1> QED  BY <1>2, <1>3, <1>4 DEF LogsInv, RecordHeld, DirectFound, CorrelatedFound

\* A record that is kept stays that of its run; the page is not touched.
Lasting == \A n \in DOMAIN runs : n \in DOMAIN runs' /\ runs'[n].run = runs[n].run
LEMMA LastingKeeps ==
  ASSUME LogsInv, LogsType', InTurn(buffer, serial)', Lasting, UNCHANGED page
  PROVE  LogsInv'
<1>1. RecordHeld'  BY DEF LogsInv, RecordHeld, Lasting
<1>2. page.pc \in {"direct", "correlated", "shown"} => Shown'.run = Shown.run
  BY DEF LogsInv, RecordHeld, Lasting, Shown
<1>3. DirectFound'
  <2>1. page.pc \in {"correlated", "shown"} => OfTheRun(page.direct, page.known, Shown.run) /\ Shown'.run = Shown.run
    BY <1>2 DEF LogsInv, DirectFound
  <2> QED  BY <2>1 DEF DirectFound, OfTheRun
<1>4. CorrelatedFound'
  <2>1. page.pc = "shown" /\ Len(page.direct) < PageLimit =>
          NearTheRun(page.correlated, page.since, page.until, Shown.run) /\ Shown'.run = Shown.run
    BY <1>2 DEF LogsInv, CorrelatedFound
  <2> QED  BY <2>1 DEF CorrelatedFound, NearTheRun
<1> QED  BY <1>1, <1>3, <1>4 DEF LogsInv

\* What record_* keep: a record of the run, in its place or as the last.
LEMMA KeepLasts ==
  ASSUME LogsType, NEW r \in Runs, NEW record \in RunRecord, record.run = Held(r).run, Keep(r, record)
  PROVE  runs' \in Seq(RunRecord) /\ stored' \in Seq(DOMAIN runs') /\ Lasting
<1>1. runs \in Seq(RunRecord) /\ Len(runs) \in Nat /\ DOMAIN runs = 1..Len(runs)  BY DEF LogsType
<1>0. stored \in Seq(DOMAIN runs) /\ Len(stored) \in Nat /\ DOMAIN stored = 1..Len(stored)  BY DEF LogsType
<1>2. CASE Place(r) \in DOMAIN runs
  <2> DEFINE p == Place(r)
  <2>1. runs' = [runs EXCEPT ![p] = record] /\ record.run = runs[p].run /\ p \in DOMAIN runs
    BY <1>2 DEF Keep, Held
  <2> HIDE DEF p
  <2>2. runs' \in Seq(RunRecord) /\ DOMAIN runs' = DOMAIN runs  BY <1>1, <2>1
  <2>3. \A n \in DOMAIN runs : runs'[n] = IF n = p THEN record ELSE runs[n]  BY <2>1
  <2>4. stored' = stored  BY <1>2 DEF Keep
  <2> QED  BY <1>0, <2>1, <2>2, <2>3, <2>4 DEF Lasting
<1>3. CASE Place(r) \notin DOMAIN runs
  <2>1. runs' = Append(runs, record)  BY <1>3 DEF Keep
  <2>2. runs' \in Seq(RunRecord) /\ DOMAIN runs' = 1..(Len(runs) + 1) /\ \A n \in DOMAIN runs : runs'[n] = runs[n]
    BY <1>1, <2>1
  <2> DEFINE D == DOMAIN runs'
             q == Append(stored, Len(runs) + 1)
  <2>3. Len(runs) + 1 \in D /\ DOMAIN runs \subseteq D  BY <1>1, <2>2
  <2>4. stored' = IF Len(q) > HistoryLen THEN Tail(q) ELSE q  BY <1>3 DEF Keep
  <2> HIDE DEF D
  <2>5. stored \in Seq(D)
    <3>1. stored = [n \in 1..Len(stored) |-> stored[n]] /\ \A n \in 1..Len(stored) : stored[n] \in D
      BY <1>0, <2>3
    <3>2. stored \in [1..Len(stored) -> D]  BY <3>1
    <3> QED  BY <1>0, <3>2
  <2>6. q \in Seq(D) /\ Len(q) = Len(stored) + 1 /\ q # <<>>  BY <1>0, <2>3, <2>5
  <2> HIDE DEF q
  <2>7. Tail(q) \in Seq(D)  BY <2>6
  <2>8. stored' \in Seq(D)  BY <2>4, <2>6, <2>7
  <2> QED  BY <1>1, <2>2, <2>8 DEF Lasting, D
<1> QED  BY <1>2, <1>3

LEMMA HeldTyped ==
  ASSUME LogsType, NEW r \in Runs
  PROVE  Held(r) \in RunRecord
<1>1. CASE Place(r) \in DOMAIN runs  BY <1>1 DEF LogsType, Held
<1>2. CASE Place(r) \notin DOMAIN runs
  <2>1. New(r) \in RunRecord  BY DEF New, RunRecord, LogsType
  <2> QED  BY <1>2, <2>1 DEF Held
<1> QED  BY <1>1, <1>2

LEMMA SubmissionKeeps ==
  ASSUME LogsInv, NEW r \in Runs, RecordSubmission(r) PROVE LogsInv'
<1>0. LogsType /\ InTurn(buffer, serial)  BY DEF LogsInv
<1> DEFINE h == Held(r)
           record == [h EXCEPT !.submitted = OrElse(@, OrElse(h.finished, clock)), !.updated = clock]
<1>1. h \in RunRecord  BY <1>0, HeldTyped
<1>2. Keep(r, record) /\ UNCHANGED <<clock, buffer, serial, page>>
      /\ logging' = IF h.finished = NoTime THEN logging \cup {<<r, "submitted">>} ELSE logging
  BY DEF RecordSubmission
<1> HIDE DEF h
<1>3. clock \in Nat  BY <1>0 DEF LogsType
<1>4. record \in RunRecord /\ record.run = h.run  BY <1>1, <1>3 DEF RunRecord, OrElse, NoTime
<1> HIDE DEF record
<1>5. runs' \in Seq(RunRecord) /\ stored' \in Seq(DOMAIN runs') /\ Lasting  BY <1>0, <1>2, <1>4, KeepLasts DEF h
<1>6. logging' \in SUBSET (Runs \X {"submitted", "finished"})  BY <1>0, <1>2 DEF LogsType
<1>7. LogsType'  BY <1>0, <1>2, <1>5, <1>6 DEF LogsType
<1>8. InTurn(buffer, serial)'  BY <1>0, <1>2 DEF InTurn, OfItsTask
<1> QED  BY <1>2, <1>5, <1>7, <1>8, LastingKeeps

LEMMA ExecutionKeeps ==
  ASSUME LogsInv, NEW r \in Runs, RecordExecution(r) PROVE LogsInv'
<1>0. LogsType /\ InTurn(buffer, serial)  BY DEF LogsInv
<1> DEFINE h == Held(r)
           record == [h EXCEPT !.finished = clock, !.submitted = OrElse(@, clock), !.updated = clock]
<1>1. h \in RunRecord  BY <1>0, HeldTyped
<1>2. Keep(r, record) /\ UNCHANGED <<clock, buffer, serial, page>>
      /\ logging' = logging \cup {<<r, "finished">>}
  BY DEF RecordExecution
<1> HIDE DEF h
<1>3. clock \in Nat  BY <1>0 DEF LogsType
<1>4. record \in RunRecord /\ record.run = h.run  BY <1>1, <1>3 DEF RunRecord, OrElse, NoTime
<1> HIDE DEF record
<1>5. runs' \in Seq(RunRecord) /\ stored' \in Seq(DOMAIN runs') /\ Lasting  BY <1>0, <1>2, <1>4, KeepLasts DEF h
<1>6. logging' \in SUBSET (Runs \X {"submitted", "finished"})  BY <1>0, <1>2 DEF LogsType
<1>7. LogsType'  BY <1>0, <1>2, <1>5, <1>6 DEF LogsType
<1>8. InTurn(buffer, serial)'  BY <1>0, <1>2 DEF InTurn, OfItsTask
<1> QED  BY <1>2, <1>5, <1>7, <1>8, LastingKeeps

\* An entry of a run, or of a task, is appended.
LEMMA LoggedKeeps ==
  ASSUME LogsInv, NEW run \in Runs \cup {NoRun}, NEW task \in {TaskOf[r] : r \in Runs},
         NEW message \in {"submitted", "finished", "working"}, run # NoRun => task = TaskOf[run],
         Logged(LogEntry(run, task, message)), UNCHANGED <<clock, runs, stored, page>>, logging' \subseteq logging
  PROVE  LogsInv'
<1>0. LogsType /\ InTurn(buffer, serial)  BY DEF LogsInv
<1> DEFINE entry == LogEntry(run, task, message)
<1>1. clock \in Nat /\ serial \in Nat  BY <1>0 DEF LogsType
<1>2. entry \in Entry /\ OfItsTask(entry) /\ entry.serial = serial  BY <1>1 DEF LogEntry, Entry, OfItsTask
<1>3. buffer' = Pushed(entry) /\ serial' = serial + 1  BY DEF Logged
<1> HIDE DEF entry
<1>4. Pushed(entry) \in Seq(Entry) /\ InTurn(Pushed(entry), serial + 1)  BY <1>0, <1>2, PushedKeeps
<1>5. LogsType'  BY <1>0, <1>1, <1>3, <1>4 DEF LogsType
<1>6. InTurn(buffer, serial)'  BY <1>3, <1>4 DEF InTurn, OfItsTask
<1>7. Lasting  BY DEF Lasting
<1> QED  BY <1>5, <1>6, <1>7, LastingKeeps

LEMMA RunLogKeeps == ASSUME LogsInv, RunLog PROVE LogsInv'
<1>1. PICK log \in logging : Logged(LogEntry(log[1], TaskOf[log[1]], log[2])) /\ logging' = logging \ {log}
                             /\ UNCHANGED <<clock, coming, runs, stored, page>>
  BY DEF RunLog
<1>2. log[1] \in Runs /\ log[2] \in {"submitted", "finished", "working"}  BY DEF LogsInv, LogsType
<1>3. TaskOf[log[1]] \in {TaskOf[r] : r \in Runs}  BY <1>2
<1> QED  BY <1>1, <1>2, <1>3, LoggedKeeps

LEMMA EmitKeeps == ASSUME LogsInv, NEW r \in Runs, Emit(TaskOf[r]) PROVE LogsInv'
<1>1. Logged(LogEntry(NoRun, TaskOf[r], "working")) /\ UNCHANGED <<clock, runs, stored, page>> /\ logging' \subseteq logging
  BY DEF Emit
<1>2. NoRun \in Runs \cup {NoRun} /\ TaskOf[r] \in {TaskOf[q] : q \in Runs}
      /\ "working" \in {"submitted", "finished", "working"} /\ (NoRun # NoRun => TaskOf[r] = TaskOf[NoRun])
  OBVIOUS
<1> QED  BY <1>1, <1>2, LoggedKeeps

-----------------------------------------------------------------------------
(* The steps of the logs *)

\* A step of the request changes the page alone.
LEMMA PageKeeps ==
  ASSUME LogsInv, Requesting, page' \in PageType
  PROVE  LogsType' /\ InTurn(buffer, serial)' /\ DOMAIN runs' = DOMAIN runs
         /\ (page'.record = page.record => Shown' = Shown)
<1>0. LogsType /\ InTurn(buffer, serial)  BY DEF LogsInv
<1>1. UNCHANGED <<clock, logging, runs, stored, buffer, serial>>  BY DEF Requesting
<1>2. InTurn(buffer, serial)'  BY <1>0, <1>1 DEF InTurn, OfItsTask
<1>3. LogsType'  BY <1>0, <1>1 DEF LogsType
<1>4. page'.record = page.record => Shown' = Shown  BY <1>1 DEF Shown
<1> QED  BY <1>1, <1>2, <1>3, <1>4

LEMMA PlaceTyped ==
  ASSUME LogsType, NEW r
  PROVE  Place(r) \in Nat
<1> DEFINE places == {n \in ToSet(stored) : runs[n].run = r}
<1>1. Len(runs) \in Nat /\ DOMAIN runs = 1..Len(runs) /\ stored \in Seq(DOMAIN runs)  BY DEF LogsType
<1>2. places \subseteq Nat  BY <1>1 DEF ToSet
<1>3. CASE places = {}
  <2>1. Place(r) = Len(runs) + 1  BY <1>3 DEF Place
  <2> QED  BY <1>1, <2>1
<1>4. CASE places # {}
  <2>1. Place(r) = Min(places)  BY <1>4 DEF Place
  <2> HIDE DEF places
  <2>2. PICK n \in places : \A m \in places : n <= m  BY <1>2, <1>4, LeastNat
  <2>3. Min(places) \in places  BY <2>2 DEF Min
  <2> QED  BY <1>2, <2>1, <2>3
<1> QED  BY <1>3, <1>4

LEMMA HistoryRowsTyped ==
  ASSUME LogsType
  PROVE  \A n \in ToSet(HistoryRows) : n \in Nat
<1> DEFINE S == ToSet(stored)
           before == [n \in S |-> {m \in S : Moment(m) > Moment(n) \/ (Moment(m) = Moment(n) /\ m < n)}]
           latest == Sorted(before)
<1>1. Len(runs) \in Nat /\ DOMAIN runs = 1..Len(runs) /\ stored \in Seq(DOMAIN runs) /\ runs \in Seq(RunRecord)
  BY DEF LogsType
<1>2. S \in SUBSET (1..Len(runs))  BY <1>1 DEF ToSet
<1>3. IsFiniteSet(S)
  <2>1. IsFiniteSet(1..Len(runs))  BY <1>1, FS_Interval
  <2> QED  BY <2>1, <1>2, FS_Subset
<1>4. \A n \in S : n \in Nat /\ Moment(n) \in Int
  <2>1. \A e \in RunRecord : e.finished \in Int /\ e.submitted \in Int  BY DEF RunRecord, NoTime
  <2>2. \A n \in S : runs[n] \in RunRecord  BY <1>1, <1>2
  <2> QED  BY <1>1, <1>2, <2>1, <2>2 DEF Moment, OrElse
<1> HIDE DEF S
<1>5. Ordering(S, before)
  <2>1. before \in [S -> SUBSET S]  OBVIOUS
  <2>2. \A x \in S : x \notin before[x]  BY <1>4
  <2>3. \A x, y \in S : y \in before[x] => before[y] \subseteq before[x]  BY <1>4
  <2>4. \A x, y \in S : x = y \/ x \in before[y] \/ y \in before[x]  BY <1>4
  <2> QED  BY <1>3, <2>1, <2>2, <2>3, <2>4 DEF Ordering
<1>6. latest \in Seq(S) /\ Len(latest) \in Nat  BY <1>5, SortedArranges DEF Arranges
<1>7. HistoryRows = Cut(latest, PageLimit)  BY DEF HistoryRows, Cut, S
<1> HIDE DEF latest
<1>8. HistoryRows \in Seq(S)  BY <1>6, <1>7, LogsConstants, CutIs
<1> QED  BY <1>4, <1>8 DEF ToSet

LEMMA PickKeeps == ASSUME LogsInv, Pick PROVE LogsInv'
<1>0. LogsType  BY DEF LogsInv
<1>1. PICK n \in ToSet(HistoryRows) : page' = [page EXCEPT !.pc = "open", !.record = n]  BY DEF Pick
<1>2. page \in PageType /\ n \in Nat  BY <1>0, HistoryRowsTyped DEF LogsType
<1>3. page' \in PageType /\ page'.pc = "open"  BY <1>1, <1>2 DEF PageType
<1>4. LogsType' /\ InTurn(buffer, serial)'  BY <1>3, PageKeeps DEF Pick
<1> QED  BY <1>3, <1>4 DEF LogsInv, RecordHeld, DirectFound, CorrelatedFound

LEMMA OpenKeeps == ASSUME LogsInv, Open PROVE LogsInv'
<1>0. LogsType  BY DEF LogsInv
<1> DEFINE p == Place(Shown.run)
<1>1. page' = IF p \in DOMAIN runs THEN [page EXCEPT !.pc = "direct", !.record = p] ELSE [page EXCEPT !.pc = "missing"]
  BY DEF Open
<1>2. page \in PageType /\ p \in Nat  BY <1>0, PlaceTyped DEF LogsType
<1> HIDE DEF p
<1>3. page' \in PageType /\ page'.pc \in {"direct", "missing"} /\ (page'.pc = "direct" => page'.record \in DOMAIN runs)
  BY <1>1, <1>2 DEF PageType
<1>4. LogsType' /\ InTurn(buffer, serial)' /\ DOMAIN runs' = DOMAIN runs  BY <1>3, PageKeeps DEF Open
<1> QED  BY <1>3, <1>4 DEF LogsInv, RecordHeld, DirectFound, CorrelatedFound

LEMMA ShownTyped ==
  ASSUME LogsType, page.record \in DOMAIN runs
  PROVE  Shown.run \in Runs /\ Shown.submitted \in Int /\ Shown.finished \in Int /\ Shown.updated \in Int
<1>1. Shown \in RunRecord  BY DEF LogsType, Shown
<1> QED  BY <1>1 DEF RunRecord, NoTime

LEMMA DirectKeeps == ASSUME LogsInv, Direct PROVE LogsInv'
<1>0. LogsType /\ InTurn(buffer, serial)  BY DEF LogsInv
<1> DEFINE places == {n \in DOMAIN buffer : buffer[n].run = Shown.run}
           direct == Newest(Own, PageLimit)
<1>1. buffer \in Seq(Entry) /\ page \in PageType  BY <1>0 DEF LogsType
<1>2. page.record \in DOMAIN runs  BY DEF LogsInv, RecordHeld, Direct
<1>3. Shown.run \in Runs  BY <1>0, <1>2, ShownTyped
<1>4. Own = Subsequence(buffer, places) /\ places \in SUBSET DOMAIN buffer  BY DEF Own
<1>5. \A n \in places : buffer[n].run = Shown.run /\ buffer[n].task = TaskOf[Shown.run] /\ buffer[n] \in Entry
  BY <1>0, <1>1, <1>3, LogsConstants DEF InTurn, OfItsTask
<1> HIDE DEF places
<1>6. Found(direct, places, PageLimit)  BY <1>0, <1>4, LogsConstants, NewestFinds
<1>7. Picks(Own, buffer, places)  BY <1>1, <1>4, SubsequencePicks
<1>8. \A e \in ToSet(Own) : \E n \in places : e = buffer[n]
  <2>1. \A k \in DOMAIN Own : \E n \in places : Own[k] = buffer[n]  BY <1>7 DEF Picks
  <2> QED  BY <2>1 DEF ToSet
<1>9. page' = [page EXCEPT !.pc = IF Len(direct) >= PageLimit THEN "shown" ELSE "correlated",
                           !.direct = direct, !.known = ToSet(Own)]
  BY DEF Direct
<1> HIDE DEF direct
<1>10. ToSet(Own) \in SUBSET Entry  BY <1>5, <1>8
<1>11. direct \in Seq(Entry) /\ Len(direct) \in Nat  BY <1>6 DEF Found
<1>12. page' \in PageType /\ page'.direct = direct /\ page'.known = ToSet(Own) /\ page'.record = page.record
       /\ page'.pc = (IF Len(direct) >= PageLimit THEN "shown" ELSE "correlated")
  BY <1>1, <1>9, <1>10, <1>11 DEF PageType
<1>13. LogsType' /\ InTurn(buffer, serial)' /\ DOMAIN runs' = DOMAIN runs /\ Shown' = Shown
  BY <1>12, PageKeeps DEF Direct
<1>14. OfTheRun(direct, ToSet(Own), Shown.run)
  <2>1. Len(direct) <= PageLimit /\ \A m, n \in DOMAIN direct : direct[m] = direct[n] => m = n  BY <1>6 DEF Found
  <2>2. \A n \in DOMAIN direct : direct[n].run = Shown.run /\ direct[n].task = TaskOf[Shown.run]  BY <1>5, <1>6 DEF Found
  <2>3. \A e \in ToSet(Own) : e.run = Shown.run /\ e.task = TaskOf[Shown.run]  BY <1>5, <1>8
  <2>4. Len(direct) < PageLimit => \A e \in ToSet(Own) : \E n \in DOMAIN direct : direct[n] = e
    BY <1>6, <1>8 DEF Found
  <2> QED  BY <2>1, <2>2, <2>3, <2>4 DEF OfTheRun
<1>15. DirectFound'
  <2>1. OfTheRun(page'.direct, page'.known, Shown'.run)  BY <1>12, <1>13, <1>14
  <2> QED  BY <2>1 DEF DirectFound, OfTheRun
<1>16. RecordHeld'  BY <1>2, <1>12, <1>13 DEF RecordHeld
<1>17. CorrelatedFound'
  <2>1. ~(page'.pc = "shown" /\ Len(page'.direct) < PageLimit)  BY <1>11, <1>12, LogsConstants
  <2> QED  BY <2>1 DEF CorrelatedFound
<1> QED  BY <1>13, <1>15, <1>16, <1>17 DEF LogsInv

LEMMA CorrelatedKeeps == ASSUME LogsInv, Correlated PROVE LogsInv'
<1>0. LogsType /\ InTurn(buffer, serial)  BY DEF LogsInv
<1> DEFINE since == Shown.submitted - Slack
           until == OrElse(Shown.finished, Shown.updated) + Slack
           places == {n \in DOMAIN buffer : buffer[n].task = TaskOf[Shown.run] /\ buffer[n].ts \in since..until}
           correlated == Newest(Near(since, until), PageLimit)
<1>1. page \in PageType  BY <1>0 DEF LogsType
<1>2. page.record \in DOMAIN runs /\ page.pc = "correlated"  BY DEF LogsInv, RecordHeld, Correlated
<1>3. since \in Int /\ until \in Int
  <2>1. Shown.submitted \in Int /\ Shown.finished \in Int /\ Shown.updated \in Int  BY <1>0, <1>2, ShownTyped
  <2>2. Slack \in Int  BY RunLogsAssumption
  <2> QED  BY <2>1, <2>2 DEF OrElse
<1>4. page' = [page EXCEPT !.pc = "shown", !.since = since, !.until = until, !.correlated = correlated]
  BY DEF Correlated
<1> HIDE DEF since, until
<1>5. Near(since, until) = Subsequence(buffer, places) /\ places \in SUBSET DOMAIN buffer  BY DEF Near
<1>6. \A n \in places : buffer[n].task = TaskOf[Shown.run] /\ buffer[n].ts \in since..until  OBVIOUS
<1> HIDE DEF places
<1>7. Found(correlated, places, PageLimit)  BY <1>0, <1>5, LogsConstants, NewestFinds
<1> HIDE DEF correlated
<1>8. correlated \in Seq(Entry) /\ NearTheRun(correlated, since, until, Shown.run)
  BY <1>6, <1>7 DEF Found, NearTheRun
<1>9. page' \in PageType /\ page'.correlated = correlated /\ page'.since = since /\ page'.until = until
      /\ page'.direct = page.direct /\ page'.known = page.known /\ page'.record = page.record /\ page'.pc = "shown"
  BY <1>1, <1>3, <1>4, <1>8 DEF PageType
<1>10. LogsType' /\ InTurn(buffer, serial)' /\ DOMAIN runs' = DOMAIN runs /\ Shown' = Shown
  BY <1>9, PageKeeps DEF Correlated
<1>11. OfTheRun(page.direct, page.known, Shown.run)  BY <1>2 DEF LogsInv, DirectFound
<1>12. DirectFound'
  <2>1. OfTheRun(page'.direct, page'.known, Shown'.run)  BY <1>9, <1>10, <1>11
  <2> QED  BY <2>1 DEF DirectFound, OfTheRun
<1>13. RecordHeld'  BY <1>2, <1>9, <1>10 DEF RecordHeld
<1>14. CorrelatedFound'
  <2>1. NearTheRun(page'.correlated, page'.since, page'.until, Shown'.run)  BY <1>8, <1>9, <1>10
  <2> QED  BY <2>1 DEF CorrelatedFound, NearTheRun
<1> QED  BY <1>10, <1>12, <1>13, <1>14 DEF LogsInv

LEMMA TickKeeps == ASSUME LogsInv, Tick PROVE LogsInv'
<1>1. UNCHANGED <<runs, stored, logging, buffer, serial, page>> /\ clock' = clock + 1  BY DEF Tick
<1>2. LogsType'  BY <1>1 DEF LogsInv, LogsType
<1>3. InTurn(buffer, serial)'  BY <1>1 DEF LogsInv, InTurn, OfItsTask
<1>4. Lasting  BY <1>1 DEF Lasting
<1> QED  BY <1>1, <1>2, <1>3, <1>4, LastingKeeps

LEMMA LogsKeep == ASSUME LogsInv, [LogsNext]_logs PROVE LogsInv'
<1>1. CASE UNCHANGED logs
  BY <1>1 DEF logs, LogsInv, LogsType, InTurn, OfItsTask, RecordHeld, DirectFound, CorrelatedFound, OfTheRun, NearTheRun, Shown
<1>2. CASE Tick  BY <1>2, TickKeeps
<1>3. CASE RunLog  BY <1>3, RunLogKeeps
<1>4. CASE Pick  BY <1>4, PickKeeps
<1>5. CASE Open  BY <1>5, OpenKeeps
<1>6. CASE Direct  BY <1>6, DirectKeeps
<1>7. CASE Correlated  BY <1>7, CorrelatedKeeps
<1>8. ASSUME NEW r \in Runs, RecordSubmission(r) PROVE LogsInv'  BY <1>8, SubmissionKeeps
<1>9. ASSUME NEW r \in Runs, RecordExecution(r) PROVE LogsInv'  BY <1>9, ExecutionKeeps
<1>10. ASSUME NEW r \in Runs, Emit(TaskOf[r]) PROVE LogsInv'  BY <1>10, EmitKeeps
<1> QED  BY <1>1, <1>2, <1>3, <1>4, <1>5, <1>6, <1>7, <1>8, <1>9, <1>10 DEF LogsNext

\* What the page of a run has found so far is of that run or near it, however
\* runs begin, end and log in between (history.py:303).
THEOREM LogsInvariant == LogsSpec => []LogsInv
<1>1. LogsInit => LogsInv  BY LogsBegin
<1>2. LogsInv /\ [LogsNext]_logs => LogsInv'  BY LogsKeep
<1> QED  BY <1>1, <1>2, PTL DEF LogsSpec

\* The page of a run shows every entry of the run it could know of, each once,
\* and of others only those of its task and time (history.py:303).
THEOREM PageIsOfTheRun == LogsSpec => []PageShowsTheRun
<1>1. LogsInv => PageShowsTheRun  BY LogsInvImplies
<1> QED  BY <1>1, LogsInvariant, PTL

-----------------------------------------------------------------------------
(* Sort keys compare as tuples do *)

Keys(n) == [1..n -> Nat]

\* The order of tuples is strict, and total on tuples that differ.
LEMMA PrecedesIsStrict ==
  ASSUME NEW n \in Nat, NEW k \in Keys(n), NEW l \in Keys(n), NEW m \in Keys(n)
  PROVE  /\ ~Precedes(k, k)
         /\ Precedes(k, l) /\ Precedes(l, m) => Precedes(k, m)
         /\ k = l \/ Precedes(k, l) \/ Precedes(l, k)
<1>0. DOMAIN k = 1..n /\ DOMAIN l = 1..n /\ DOMAIN m = 1..n
      /\ \A i \in 1..n : k[i] \in Nat /\ l[i] \in Nat /\ m[i] \in Nat
  BY DEF Keys
<1>1. ~Precedes(k, k)  BY <1>0 DEF Precedes
<1>2. ASSUME Precedes(k, l), Precedes(l, m) PROVE Precedes(k, m)
  <2>1. PICK i \in 1..n : k[i] < l[i] /\ \A x \in 1..(i - 1) : k[x] = l[x]  BY <1>0, <1>2 DEF Precedes
  <2>2. PICK j \in 1..n : l[j] < m[j] /\ \A x \in 1..(j - 1) : l[x] = m[x]  BY <1>0, <1>2 DEF Precedes
  <2>3. CASE i < j
    <3>1. i \in 1..(j - 1) /\ \A x \in 1..(i - 1) : x \in 1..(j - 1)  BY <2>3
    <3>2. k[i] < m[i] /\ \A x \in 1..(i - 1) : k[x] = m[x]  BY <2>1, <2>2, <3>1
    <3> QED  BY <1>0, <3>2 DEF Precedes
  <2>4. CASE i = j
    <3>1. k[i] < m[i]  BY <1>0, <2>1, <2>2, <2>4
    <3>2. \A x \in 1..(i - 1) : k[x] = m[x]  BY <2>1, <2>2, <2>4
    <3> QED  BY <1>0, <3>1, <3>2 DEF Precedes
  <2>5. CASE j < i
    <3>1. j \in 1..(i - 1) /\ \A x \in 1..(j - 1) : x \in 1..(i - 1)  BY <2>5
    <3>2. k[j] < m[j] /\ \A x \in 1..(j - 1) : k[x] = m[x]  BY <2>1, <2>2, <3>1
    <3> QED  BY <1>0, <3>2 DEF Precedes
  <2> QED  BY <2>3, <2>4, <2>5
<1>3. ASSUME k # l PROVE Precedes(k, l) \/ Precedes(l, k)
  <2> DEFINE P == {i \in 1..n : k[i] # l[i]}
  <2>1. P # {}
    <3>1. k = [i \in 1..n |-> k[i]] /\ l = [i \in 1..n |-> l[i]]  BY DEF Keys
    <3> QED  BY <1>3, <3>1
  <2>2. P \in SUBSET Nat  OBVIOUS
  <2> HIDE DEF P
  <2>3. PICK i \in P : \A j \in P : i <= j  BY <2>1, <2>2, LeastNat
  <2>4. i \in 1..n /\ k[i] # l[i]  BY <2>3 DEF P
  <2>5. \A x \in 1..(i - 1) : k[x] = l[x]
    <3> SUFFICES ASSUME NEW x \in 1..(i - 1), k[x] # l[x] PROVE FALSE  OBVIOUS
    <3>1. x \in P /\ x < i  BY <2>4 DEF P
    <3>2. i <= x  BY <2>3, <3>1
    <3> QED  BY <2>4, <3>1, <3>2
  <2>6. \A x \in 1..(i - 1) : l[x] = k[x]  BY <2>5
  <2>7. k[i] < l[i] \/ l[i] < k[i]  BY <1>0, <2>4
  <2> QED  BY <1>0, <2>4, <2>5, <2>6, <2>7 DEF Precedes
<1> QED  BY <1>1, <1>2, <1>3

\* What the order says of the first components.
LEMMA PrecedesFirst ==
  ASSUME NEW n \in Nat, NEW k \in Keys(n), NEW l \in Keys(n), Precedes(k, l)
  PROVE  /\ k[1] <= l[1]
         /\ k[1] = l[1] /\ 2 <= n => k[2] <= l[2]
         /\ k[1] = l[1] /\ 3 <= n /\ k[2] = l[2] => k[3] <= l[3]
<1>0. DOMAIN k = 1..n /\ DOMAIN l = 1..n /\ \A i \in 1..n : k[i] \in Nat /\ l[i] \in Nat  BY DEF Keys
<1>1. PICK i \in 1..n : k[i] < l[i] /\ \A x \in 1..(i - 1) : k[x] = l[x]  BY <1>0 DEF Precedes
<1>2. CASE i = 1  BY <1>0, <1>1, <1>2
<1>3. CASE i = 2
  <2>1. 1 \in 1..(i - 1) /\ 1 \in 1..n  BY <1>3
  <2>2. k[1] = l[1] /\ k[2] < l[2] /\ k[1] \in Nat /\ k[2] \in Nat /\ l[2] \in Nat  BY <1>0, <1>1, <1>3, <2>1
  <2> QED  BY <2>2
<1>4. CASE i = 3
  <2>1. 1 \in 1..(i - 1) /\ 2 \in 1..(i - 1) /\ 1 \in 1..n /\ 2 \in 1..n  BY <1>4
  <2>2. k[1] = l[1] /\ k[2] = l[2] /\ k[3] < l[3] /\ k[1] \in Nat /\ k[2] \in Nat /\ k[3] \in Nat /\ l[3] \in Nat
    BY <1>0, <1>1, <1>4, <2>1
  <2> QED  BY <2>2
<1>5. CASE i > 3
  <2>1. 1 \in 1..(i - 1) /\ 2 \in 1..(i - 1) /\ 3 \in 1..(i - 1) /\ 1 \in 1..n /\ 2 \in 1..n /\ 3 \in 1..n  BY <1>5
  <2>2. k[1] = l[1] /\ k[2] = l[2] /\ k[3] = l[3] /\ k[1] \in Nat /\ k[2] \in Nat /\ k[3] \in Nat
    BY <1>0, <1>1, <2>1
  <2> QED  BY <2>2
<1> QED  BY <1>1, <1>2, <1>3, <1>4, <1>5

-----------------------------------------------------------------------------
(* Tasks, requests and answers *)

SortKeys == {"id", "name", "next_run_time", "schedule_state", "executor"}
ListedType == DOMAIN listed \subseteq Items /\ \A i \in DOMAIN listed : listed[i] \in {None} \cup Instants[i]
Row == [id : Items, time : Nat]

LEMMA ViewsConstants ==
  /\ IsFiniteSet(Items) /\ \A i \in Items : i \in Nat /\ Title[i] \in Nat /\ Executor[i] \in Nat
  /\ \A i \in Items : IsFiniteSet(Instants[i]) /\ (\A t \in Instants[i] : t \in Nat /\ t # 0)
  /\ PerPage \in Nat /\ PerPage > 0 /\ PerTask \in Nat /\ PerTask > 0 /\ Limit \in Nat /\ Limit > 0
  /\ Recent \in Nat /\ Recent > 0 /\ Now \in Nat
BY ViewsAssumption

LEMMA ListedFacts ==
  ASSUME ListedType, NEW i \in DOMAIN listed
  PROVE  i \in Items /\ listed[i] \in Nat /\ i \in Nat /\ Title[i] \in Nat /\ Executor[i] \in Nat
BY ViewsConstants DEF ListedType, None

\* The components of a key; its length depends on the order alone.
Width(sort_by) == IF sort_by = "id" THEN 1 ELSE IF sort_by \in {"name", "executor"} THEN 2 ELSE 4
LEMMA FourIs ==
  ASSUME NEW T, NEW q \in Seq(T), Len(q) = 4, NEW a, NEW b, NEW c, NEW d, q[1] = a, q[2] = b, q[3] = c, q[4] = d
  PROVE  q = <<a, b, c, d>>
<1>1. DOMAIN q = 1..4 /\ DOMAIN <<a, b, c, d>> = 1..4  OBVIOUS
<1>2. q = [i \in 1..4 |-> q[i]]  BY <1>1
<1>3. \A i \in 1..4 : i = 1 \/ i = 2 \/ i = 3 \/ i = 4  OBVIOUS
<1>4. \A i \in 1..4 : q[i] = <<a, b, c, d>>[i]  BY <1>3
<1>5. <<a, b, c, d>> = [i \in 1..4 |-> <<a, b, c, d>>[i]]  OBVIOUS
<1> QED  BY <1>2, <1>4, <1>5
LEMMA JoinTwo == ASSUME NEW a, NEW b, NEW c, NEW d PROVE <<a, b>> \o <<c, d>> = <<a, b, c, d>>
<1> DEFINE T == {a, b, c, d}
           s == <<a, b>>
           t == <<c, d>>
           q == s \o t
<1>1. s \in Seq(T) /\ Len(s) = 2 /\ s[1] = a /\ s[2] = b  OBVIOUS
<1>2. t \in Seq(T) /\ Len(t) = 2 /\ t[1] = c /\ t[2] = d  OBVIOUS
<1> HIDE DEF T, s, t
<1>3. /\ q \in Seq(T) /\ Len(q) = Len(s) + Len(t)
      /\ \A i \in 1..Len(s) + Len(t) : q[i] = IF i <= Len(s) THEN s[i] ELSE t[i - Len(s)]
  BY <1>1, <1>2, ConcatProperties
<1> HIDE DEF q
<1>4. Len(q) = 4 /\ \A i \in 1..4 : q[i] = IF i <= 2 THEN s[i] ELSE t[i - 2]  BY <1>1, <1>2, <1>3
<1>5. q[1] = s[1] /\ q[2] = s[2] /\ q[3] = t[1] /\ q[4] = t[2]
  <2>1. q[1] = s[1] /\ q[2] = s[2]  BY <1>4
  <2>2. q[3] = t[3 - 2] /\ q[4] = t[4 - 2]  BY <1>4
  <2> QED  BY <2>1, <2>2
<1>6. q = <<a, b, c, d>>  BY <1>1, <1>2, <1>3, <1>4, <1>5, FourIs
<1> QED  BY <1>6 DEF q, s, t
LEMMA JoinThree == ASSUME NEW a, NEW b, NEW c, NEW d PROVE (<<a>> \o <<b, c>>) \o <<d>> = <<a, b, c, d>>
<1> DEFINE T == {a, b, c, d}
           r == <<a>>
           s == <<b, c>>
           t == <<d>>
           q == r \o s
           p == q \o t
<1>1. r \in Seq(T) /\ Len(r) = 1 /\ r[1] = a  OBVIOUS
<1>2. s \in Seq(T) /\ Len(s) = 2 /\ s[1] = b /\ s[2] = c  OBVIOUS
<1>3. t \in Seq(T) /\ Len(t) = 1 /\ t[1] = d  OBVIOUS
<1> HIDE DEF T, r, s, t
<1>4. /\ q \in Seq(T) /\ Len(q) = Len(r) + Len(s)
      /\ \A i \in 1..Len(r) + Len(s) : q[i] = IF i <= Len(r) THEN r[i] ELSE s[i - Len(r)]
  BY <1>1, <1>2, ConcatProperties
<1> HIDE DEF q
<1>5. Len(q) = 3 /\ \A i \in 1..3 : q[i] = IF i <= 1 THEN r[i] ELSE s[i - 1]  BY <1>1, <1>2, <1>4
<1>6. /\ p \in Seq(T) /\ Len(p) = Len(q) + Len(t)
      /\ \A i \in 1..Len(q) + Len(t) : p[i] = IF i <= Len(q) THEN q[i] ELSE t[i - Len(q)]
  <2>1. q \in Seq(T) /\ t \in Seq(T)  BY <1>3, <1>4
  <2> QED  BY <2>1, ConcatProperties
<1> HIDE DEF p
<1>7. Len(p) = 4 /\ \A i \in 1..4 : p[i] = IF i <= 3 THEN q[i] ELSE t[i - 3]  BY <1>3, <1>5, <1>6
<1>8. p[1] = r[1] /\ p[2] = s[1] /\ p[3] = s[2] /\ p[4] = t[1]
  <2>1. q[1] = r[1] /\ q[2] = s[2 - 1] /\ q[3] = s[3 - 1]  BY <1>5
  <2>2. p[1] = q[1] /\ p[2] = q[2] /\ p[3] = q[3] /\ p[4] = t[4 - 3]  BY <1>7
  <2> QED  BY <2>1, <2>2
<1>9. p = <<a, b, c, d>>
  <2>1. p \in Seq(T) /\ Len(p) = 4 /\ p[1] = a /\ p[2] = b /\ p[3] = c /\ p[4] = d
    BY <1>1, <1>2, <1>3, <1>6, <1>7, <1>8
  <2> QED  BY <2>1, FourIs
<1> QED  BY <1>9 DEF p, q, r, s, t
LEMMA KeyForms ==
  ASSUME NEW i
  PROVE  /\ SortKey(i, "id") = <<i>>
         /\ SortKey(i, "name") = <<Title[i], i>>
         /\ SortKey(i, "executor") = <<Executor[i], i>>
         /\ SortKey(i, "next_run_time") =
              <<IF listed[i] = None THEN 1 ELSE 0, IF listed[i] = None THEN 0 ELSE listed[i], Title[i], i>>
         /\ SortKey(i, "schedule_state") =
              <<IF listed[i] = None THEN 0 ELSE 1, IF listed[i] = None THEN 1 ELSE 0,
                IF listed[i] = None THEN 0 ELSE listed[i], i>>
<1> DEFINE a == IF listed[i] = None THEN 1 ELSE 0
           b == IF listed[i] = None THEN 0 ELSE listed[i]
           c == IF listed[i] = None THEN 0 ELSE 1
<1>1. NextKey(i) = <<a, b>>  BY DEF NextKey
<1>2. (IF schedule_state(i) = "paused" THEN 0 ELSE 1) = c  BY DEF schedule_state
<1> HIDE DEF a, b, c
<1>3. SortKey(i, "next_run_time") = <<a, b, Title[i], i>>  BY <1>1, JoinTwo DEF SortKey
<1>4. SortKey(i, "schedule_state") = <<c, a, b, i>>
  <2>1. SortKey(i, "schedule_state") = <<c>> \o <<a, b>> \o <<i>>  BY <1>1, <1>2 DEF SortKey
  <2> QED  BY <2>1, JoinThree
<1>5. SortKey(i, "id") = <<i>> /\ SortKey(i, "name") = <<Title[i], i>> /\ SortKey(i, "executor") = <<Executor[i], i>>
  BY DEF SortKey
<1> QED  BY <1>3, <1>4, <1>5 DEF a, b, c
LEMMA KeysTyped ==
  ASSUME ListedType, NEW i \in DOMAIN listed, NEW sort_by \in SortKeys
  PROVE  SortKey(i, sort_by) \in Keys(Width(sort_by)) /\ SortKey(i, sort_by)[Width(sort_by)] = i
<1>1. listed[i] \in Nat /\ i \in Nat /\ Title[i] \in Nat /\ Executor[i] \in Nat  BY ListedFacts
<1>2. /\ \A a \in Nat : <<a>> \in Keys(1) /\ <<a>>[1] = a
      /\ \A a, b \in Nat : <<a, b>> \in Keys(2) /\ <<a, b>>[2] = b
      /\ \A a, b, c, d \in Nat : <<a, b, c, d>> \in Keys(4) /\ <<a, b, c, d>>[4] = d
  BY DEF Keys
<1>8. Width("id") = 1 /\ Width("name") = 2 /\ Width("executor") = 2 /\ Width("next_run_time") = 4
      /\ Width("schedule_state") = 4
  BY DEF Width
<1>3. CASE sort_by = "id"
  <2>1. SortKey(i, sort_by) = <<i>>  BY <1>3, KeyForms
  <2> QED  BY <1>1, <1>2, <1>3, <1>8, <2>1
<1>4. CASE sort_by = "name"
  <2>1. SortKey(i, sort_by) = <<Title[i], i>>  BY <1>4, KeyForms
  <2> QED  BY <1>1, <1>2, <1>4, <1>8, <2>1
<1>5. CASE sort_by = "executor"
  <2>1. SortKey(i, sort_by) = <<Executor[i], i>>  BY <1>5, KeyForms
  <2> QED  BY <1>1, <1>2, <1>5, <1>8, <2>1
<1>6. CASE sort_by = "next_run_time"
  <2>1. PICK a \in Nat, b \in Nat : SortKey(i, sort_by) = <<a, b, Title[i], i>>  BY <1>1, <1>6, KeyForms
  <2> QED  BY <1>1, <1>2, <1>6, <1>8, <2>1
<1>7. CASE sort_by = "schedule_state"
  <2>1. PICK a \in Nat, b \in Nat, c \in Nat : SortKey(i, sort_by) = <<a, b, c, i>>  BY <1>1, <1>7, KeyForms
  <2> QED  BY <1>1, <1>2, <1>7, <1>8, <2>1
<1> QED  BY <1>3, <1>4, <1>5, <1>6, <1>7 DEF SortKeys

-----------------------------------------------------------------------------
(* The list of the tasks *)

KeyBefore(form) == [i \in Matching(form) |->
  {j \in Matching(form) : Precedes(SortKey(j, form.sort_by), SortKey(i, form.sort_by))}]
LEMMA KeysOrder ==
  ASSUME ListedType, NEW form, form.sort_by \in SortKeys
  PROVE  Ordering(Matching(form), KeyBefore(form)) /\ IsFiniteSet(Matching(form))
<1> DEFINE S == Matching(form)
           key == [i \in S |-> SortKey(i, form.sort_by)]
           n == Width(form.sort_by)
<1>1. S \in SUBSET Items /\ S \subseteq DOMAIN listed  BY DEF Matching, ListedType
<1>2. IsFiniteSet(S)  BY <1>1, ViewsConstants, FS_Subset
<1>3. n \in Nat  BY DEF Width
<1>4. ASSUME NEW i \in S PROVE key[i] \in Keys(n) /\ key[i][n] = i  BY <1>1, KeysTyped
<1>5. KeyBefore(form) = [i \in S |-> {j \in S : Precedes(key[j], key[i])}]  BY DEF KeyBefore
<1> HIDE DEF S, key, n
<1>6. \A x \in S : ~Precedes(key[x], key[x])  BY <1>3, <1>4, PrecedesIsStrict
<1>7. \A x, y, z \in S : Precedes(key[x], key[y]) /\ Precedes(key[y], key[z]) => Precedes(key[x], key[z])
  BY <1>3, <1>4, PrecedesIsStrict
<1>8. \A x, y \in S : x = y \/ Precedes(key[x], key[y]) \/ Precedes(key[y], key[x])
  <2> SUFFICES ASSUME NEW x \in S, NEW y \in S PROVE x = y \/ Precedes(key[x], key[y]) \/ Precedes(key[y], key[x])
    OBVIOUS
  <2>1. key[x] = key[y] \/ Precedes(key[x], key[y]) \/ Precedes(key[y], key[x])
    BY <1>3, <1>4, PrecedesIsStrict
  <2> QED  BY <2>1, <1>4
<1>9. Ordering(S, KeyBefore(form))
  <2> DEFINE before == KeyBefore(form)
  <2>1. before \in [S -> SUBSET S] /\ \A x, y \in S : y \in before[x] <=> Precedes(key[y], key[x])  BY <1>5
  <2> HIDE DEF before
  <2>2. \A x \in S : x \notin before[x]  BY <1>6, <2>1
  <2>3. \A x, y \in S : y \in before[x] => before[y] \subseteq before[x]  BY <1>7, <2>1
  <2>4. \A x, y \in S : x = y \/ x \in before[y] \/ y \in before[x]  BY <1>8, <2>1
  <2> QED  BY <1>2, <2>1, <2>2, <2>3, <2>4 DEF Ordering, before
<1> QED  BY <1>2, <1>9 DEF S

\* The order of the list is that of the field it is sorted by.
LEMMA KeysInOrder ==
  ASSUME ListedType, NEW form, form.sort_by \in SortKeys, NEW i \in DOMAIN listed, NEW j \in DOMAIN listed,
         Precedes(SortKey(i, form.sort_by), SortKey(j, form.sort_by))
  PROVE  InOrder(i, j, form)
<1> DEFINE k == SortKey(i, form.sort_by)
           l == SortKey(j, form.sort_by)
           n == Width(form.sort_by)
<1>1. listed[i] \in Nat /\ i \in Nat /\ Title[i] \in Nat /\ Executor[i] \in Nat  BY ListedFacts
<1>2. listed[j] \in Nat /\ j \in Nat /\ Title[j] \in Nat /\ Executor[j] \in Nat  BY ListedFacts
<1>3. k \in Keys(n) /\ l \in Keys(n) /\ n \in Nat  BY KeysTyped DEF Width
<1> HIDE DEF k, l
<1>4. /\ k[1] <= l[1]
      /\ k[1] = l[1] /\ 2 <= n => k[2] <= l[2]
      /\ k[1] = l[1] /\ 3 <= n /\ k[2] = l[2] => k[3] <= l[3]
  BY <1>3, PrecedesFirst DEF k, l
<1>5. CASE form.sort_by = "id"
  <2>1. k = <<i>> /\ l = <<j>> /\ n = 1  BY <1>5, KeyForms DEF k, l, Width
  <2>2. i <= j  BY <1>4, <2>1
  <2>3. i # j  BY <1>3, PrecedesIsStrict DEF k, l
  <2> QED  BY <1>1, <1>2, <1>5, <2>2, <2>3 DEF InOrder
<1>6. CASE form.sort_by = "name"
  <2>1. k = <<Title[i], i>> /\ l = <<Title[j], j>>  BY <1>6, KeyForms DEF k, l
  <2>2. Title[i] <= Title[j]  BY <1>4, <2>1
  <2> QED  BY <1>6, <2>2 DEF InOrder
<1>7. CASE form.sort_by = "executor"
  <2>1. k = <<Executor[i], i>> /\ l = <<Executor[j], j>>  BY <1>7, KeyForms DEF k, l
  <2>2. Executor[i] <= Executor[j]  BY <1>4, <2>1
  <2> QED  BY <1>7, <2>2 DEF InOrder
<1>8. CASE form.sort_by = "next_run_time"
  <2>1. /\ k = <<IF listed[i] = None THEN 1 ELSE 0, IF listed[i] = None THEN 0 ELSE listed[i], Title[i], i>>
        /\ l = <<IF listed[j] = None THEN 1 ELSE 0, IF listed[j] = None THEN 0 ELSE listed[j], Title[j], j>>
        /\ n = 4
    BY <1>8, KeyForms DEF k, l, Width
  <2>2. listed[j] = None \/ (listed[i] # None /\ listed[i] <= listed[j])
    <3>1. CASE listed[j] # None /\ listed[i] = None
      <4>1. k[1] = 1 /\ l[1] = 0  BY <2>1, <3>1
      <4> QED  BY <1>4, <4>1
    <3>2. CASE listed[j] # None /\ listed[i] # None
      <4>1. k[1] = 0 /\ l[1] = 0 /\ k[2] = listed[i] /\ l[2] = listed[j]  BY <2>1, <3>2
      <4>2. k[2] <= l[2]  BY <1>4, <2>1, <4>1
      <4> QED  BY <3>2, <4>1, <4>2
    <3> QED  BY <3>1, <3>2
  <2> QED  BY <1>8, <2>2 DEF InOrder
<1>9. CASE form.sort_by = "schedule_state"
  <2>1. /\ k = <<IF listed[i] = None THEN 0 ELSE 1, IF listed[i] = None THEN 1 ELSE 0,
                 IF listed[i] = None THEN 0 ELSE listed[i], i>>
        /\ l = <<IF listed[j] = None THEN 0 ELSE 1, IF listed[j] = None THEN 1 ELSE 0,
                 IF listed[j] = None THEN 0 ELSE listed[j], j>>
        /\ n = 4
    BY <1>9, KeyForms DEF k, l, Width
  <2>2. listed[i] = None \/ (listed[j] # None /\ listed[i] <= listed[j])
    <3>1. CASE listed[i] # None /\ listed[j] = None
      <4>1. k[1] = 1 /\ l[1] = 0  BY <2>1, <3>1
      <4> QED  BY <1>4, <4>1
    <3>2. CASE listed[i] # None /\ listed[j] # None
      <4>1. k[1] = 1 /\ l[1] = 1 /\ k[2] = 0 /\ l[2] = 0 /\ k[3] = listed[i] /\ l[3] = listed[j]  BY <2>1, <3>2
      <4>2. k[3] <= l[3]  BY <1>4, <2>1, <4>1
      <4> QED  BY <3>2, <4>1, <4>2
    <3> QED  BY <3>1, <3>2
  <2> QED  BY <1>9, <2>2 DEF InOrder
<1> QED  BY <1>5, <1>6, <1>7, <1>8, <1>9 DEF SortKeys

\* What get_task_infos returns: every task that matches, once and in order.
IsInfos(infos, form) ==
  /\ infos \in Seq(Matching(form)) /\ Len(infos) = Cardinality(Matching(form))
  /\ Len(infos) \in Nat /\ DOMAIN infos = 1..Len(infos)
  /\ \A i \in Matching(form) : \E n \in DOMAIN infos : infos[n] = i
  /\ \A m, n \in DOMAIN infos : infos[m] = infos[n] => m = n
  /\ \A m, n \in DOMAIN infos : m < n =>
       IF form.descending THEN InOrder(infos[n], infos[m], form) ELSE InOrder(infos[m], infos[n], form)
LEMMA InfosAre ==
  ASSUME ListedType, NEW form, form.sort_by \in SortKeys, form.descending \in BOOLEAN
  PROVE  IsInfos(Infos(form), form)
<1> DEFINE S == Matching(form)
           up == Sorted(KeyBefore(form))
<1>1. Arranges(up, S, KeyBefore(form))  BY KeysOrder, SortedArranges
<1>2. Infos(form) = IF form.descending THEN Reverse(up) ELSE up  BY DEF Infos, KeyBefore
<1>3. S \subseteq DOMAIN listed  BY DEF Matching
<1> HIDE DEF S, up
<1>4. up \in Seq(S) /\ DOMAIN up = 1..Len(up) /\ Len(up) = Cardinality(S) /\ Len(up) \in Nat
      /\ (\A x \in S : \E n \in DOMAIN up : up[n] = x)
      /\ \A m, n \in DOMAIN up : up[m] = up[n] => m = n
  BY <1>1 DEF Arranges
<1>5. ASSUME NEW m \in DOMAIN up, NEW n \in DOMAIN up, m < n
      PROVE  InOrder(up[m], up[n], form)
  <2>1. up[m] \in S /\ up[n] \in S  BY <1>4
  <2>2. up[m] \in KeyBefore(form)[up[n]]  BY <1>1, <1>5 DEF Arranges
  <2>3. Precedes(SortKey(up[m], form.sort_by), SortKey(up[n], form.sort_by))  BY <2>1, <2>2 DEF KeyBefore, S
  <2>4. up[m] \in DOMAIN listed /\ up[n] \in DOMAIN listed  BY <1>3, <2>1
  <2> QED  BY <2>3, <2>4, KeysInOrder
<1>6. CASE ~form.descending
  <2>1. Infos(form) = up  BY <1>2, <1>6
  <2> QED  BY <2>1, <1>4, <1>5, <1>6 DEF IsInfos, S
<1>7. CASE form.descending
  <2> DEFINE L == Len(up)
             v == Reverse(up)
  <2>1. v = [k \in 1..L |-> up[L - k + 1]]  BY DEF Reverse
  <2>2. L \in Nat /\ \A k \in 1..L : L - k + 1 \in 1..L  BY <1>4
  <2> HIDE DEF L, v
  <2>3. \A k \in 1..L : up[L - k + 1] \in S  BY <2>2, <1>4 DEF L
  <2>4. v \in [1..L -> S]  BY <2>1, <2>3
  <2>5. v \in Seq(S) /\ Len(v) = L /\ DOMAIN v = 1..L  BY <2>2, <2>4
  <2>6. \A k \in 1..L : v[k] = up[L - k + 1]  BY <2>1
  <2>7. \A x \in S : \E n \in 1..L : v[n] = x
    <3> SUFFICES ASSUME NEW x \in S PROVE \E n \in 1..L : v[n] = x  OBVIOUS
    <3>1. PICK k \in 1..L : up[k] = x  BY <1>4 DEF L
    <3>2. L - k + 1 \in 1..L /\ L - (L - k + 1) + 1 = k  BY <2>2
    <3> QED  BY <2>6, <3>1, <3>2
  <2>8. \A m, n \in 1..L : v[m] = v[n] => m = n
    <3> SUFFICES ASSUME NEW m \in 1..L, NEW n \in 1..L, v[m] = v[n] PROVE m = n  OBVIOUS
    <3>1. L - m + 1 = L - n + 1  BY <1>4, <2>2, <2>6 DEF L
    <3> QED  BY <2>2, <3>1
  <2>9. \A m, n \in 1..L : m < n => InOrder(v[n], v[m], form)
    <3> SUFFICES ASSUME NEW m \in 1..L, NEW n \in 1..L, m < n PROVE InOrder(v[n], v[m], form)  OBVIOUS
    <3>1. L - n + 1 \in DOMAIN up /\ L - m + 1 \in DOMAIN up  BY <1>4, <2>2 DEF L
    <3>2. L - n + 1 < L - m + 1  BY <2>2
    <3>3. InOrder(up[L - n + 1], up[L - m + 1], form)  BY <1>5, <3>1, <3>2
    <3> QED  BY <2>6, <3>3
  <2>10. Infos(form) = v  BY <1>2, <1>7 DEF v
  <2>11. L = Cardinality(S)  BY <1>4 DEF L
  <2> QED  BY <2>2, <2>5, <2>7, <2>8, <2>9, <2>10, <2>11, <1>7 DEF IsInfos, S
<1> QED  BY <1>6, <1>7

LEMMA DefaultMatches ==
  /\ Matching(Default) = DOMAIN listed /\ Default.sort_by \in SortKeys /\ Default.descending \in BOOLEAN
  /\ \A form : Matching(form) \subseteq DOMAIN listed
  /\ \A form : form.state = "any" /\ form.executor = Anyone => Matching(form) = DOMAIN listed
BY DEF Matching, Default, Form, SortKeys

\* The counts of all tasks: the paused ones, and the rest.
Paused == {i \in DOMAIN listed : listed[i] = None}
LEMMA CountsAre ==
  ASSUME ListedType
  PROVE  LET c == Counts(Infos(Default)) IN
         /\ c.total \in Nat /\ c.paused \in Nat /\ c.scheduled \in Nat
         /\ c \in [total : Nat, paused : Nat, scheduled : Nat]
         /\ c.scheduled + c.paused = c.total /\ c.total = Cardinality(DOMAIN listed)
         /\ c.paused >= Cardinality(Paused)
<1> DEFINE q == Infos(Default)
           N == {n \in DOMAIN q : schedule_state(q[n]) = "paused"}
           M == {n \in DOMAIN q : schedule_state(q[n]) = "scheduled"}
<1>1. IsInfos(q, Default)  BY DefaultMatches, InfosAre
<1>2. Counts(q) = [total |-> Len(q), paused |-> Cardinality(N), scheduled |-> Cardinality(M)]  BY DEF Counts
<1> HIDE DEF q
<1>3. q \in Seq(DOMAIN listed) /\ Len(q) = Cardinality(DOMAIN listed) /\ Len(q) \in Nat /\ DOMAIN q = 1..Len(q)
      /\ \A i \in DOMAIN listed : \E n \in DOMAIN q : q[n] = i
  BY <1>1, DefaultMatches DEF IsInfos
<1>4. IsFiniteSet(DOMAIN q) /\ Cardinality(DOMAIN q) = Len(q)
  <2>1. IsFiniteSet(1..Len(q)) /\ Cardinality(1..Len(q)) = IF 1 > Len(q) THEN 0 ELSE Len(q) - 1 + 1
    <3>1. 1 \in Int /\ Len(q) \in Int  BY <1>3
    <3> QED  BY <3>1, FS_Interval
  <2> QED  BY <1>3, <2>1
<1>5. N \in SUBSET DOMAIN q /\ M \in SUBSET DOMAIN q /\ N \cup M = DOMAIN q /\ N \cap M = {}
  BY DEF schedule_state
<1>6. IsFiniteSet(N) /\ IsFiniteSet(M)  BY <1>4, <1>5, FS_Subset
<1>7. \A n \in DOMAIN q : q[n] \in DOMAIN listed  BY <1>3
<1>8. Cardinality(Paused) <= Cardinality(N)
  <2> DEFINE f == [n \in N |-> q[n]]
  <2>1. \A n \in N : q[n] \in Paused  BY <1>7 DEF Paused, schedule_state
  <2>2. \A i \in Paused : \E n \in N : q[n] = i
    <3> SUFFICES ASSUME NEW i \in Paused PROVE \E n \in N : q[n] = i  OBVIOUS
    <3>1. i \in DOMAIN listed /\ schedule_state(i) = "paused"  BY DEF Paused, schedule_state
    <3>2. PICK n \in DOMAIN q : q[n] = i  BY <1>3, <3>1
    <3> QED  BY <3>1, <3>2
  <2> HIDE DEF N
  <2>3. f \in Surjection(N, Paused)  BY <2>1, <2>2 DEF Surjection
  <2> QED  BY <1>6, <2>3, FS_Surjection
<1> HIDE DEF N, M
<1>9. Cardinality(N) \in Nat /\ Cardinality(M) \in Nat  BY <1>6, FS_CardinalityType
<1>10. Cardinality(N) + Cardinality(M) = Len(q)
  <2>1. Cardinality(N \cup M) = Cardinality(N) + Cardinality(M) - Cardinality(N \cap M)  BY <1>6, FS_Union
  <2>2. Cardinality(N \cap M) = 0  BY <1>5, FS_EmptySet
  <2> QED  BY <1>4, <1>5, <1>9, <2>1, <2>2
<1>11. Counts(q).total = Len(q) /\ Counts(q).paused = Cardinality(N) /\ Counts(q).scheduled = Cardinality(M)
       /\ Counts(q) \in [total : Nat, paused : Nat, scheduled : Nat]
  BY <1>2, <1>3, <1>9
<1>12. Cardinality(M) + Cardinality(N) = Len(q)  BY <1>9, <1>10
<1> QED  BY <1>3, <1>8, <1>9, <1>11, <1>12 DEF q

-----------------------------------------------------------------------------
(* The pages *)

LEMMA MaxOfTwo ==
  ASSUME NEW a \in Nat, NEW b \in Nat
  PROVE  Max({a, b}) = IF a >= b THEN a ELSE b
<1> DEFINE m == IF a >= b THEN a ELSE b
<1>1. m \in {a, b} /\ \A y \in {a, b} : m >= y  OBVIOUS
<1>2. \A x \in {a, b} : (\A y \in {a, b} : x >= y) => x = m  OBVIOUS
<1> QED  BY <1>1, <1>2 DEF Max
LEMMA Times == ASSUME NEW a \in Nat, NEW b \in Nat, NEW p \in Nat, p > 0
               PROVE  a * p \in Nat /\ (a <= b => a * p <= b * p) /\ (a < b => a * p + p <= b * p)
                      /\ (a * p < b * p => a < b) /\ (a * p = 0 => a = 0)
OBVIOUS

\* The pages have room for the list, and the last one is not empty.
LEMMA PageCountIs ==
  ASSUME NEW total \in Nat
  PROVE  /\ PageCount(total) \in Nat /\ PageCount(total) >= 1
         /\ total <= PageCount(total) * PerPage
         /\ PageCount(total) = 1 \/ (PageCount(total) - 1) * PerPage < total
<1> DEFINE a == total + PerPage - 1
           d == a \div PerPage
<1>1. PerPage \in Nat /\ PerPage > 0 /\ a \in Nat  BY ViewsConstants
<1>2. d \in Nat /\ d * PerPage <= a /\ a < d * PerPage + PerPage
  <2> HIDE DEF a
  <2> QED  BY <1>1
<1>3. PageCount(total) = IF 1 >= d THEN 1 ELSE d
  <2>1. PageCount(total) = Max({1, d})  BY DEF PageCount
  <2> HIDE DEF d
  <2> QED  BY <1>2, <2>1, MaxOfTwo
<1> HIDE DEF d
<1>4. CASE d = 0
  <2>1. PageCount(total) = 1  BY <1>3, <1>4
  <2>2. total = 0  BY <1>1, <1>2, <1>4
  <2> QED  BY <1>1, <2>1, <2>2
<1>5. CASE d >= 1
  <2>1. PageCount(total) = d  BY <1>2, <1>3, <1>5
  <2>2. (d - 1) * PerPage = d * PerPage - PerPage  BY <1>1, <1>2
  <2>3. d * PerPage \in Nat  BY <1>1, <1>2
  <2>4. total <= d * PerPage /\ (d - 1) * PerPage < total  BY <1>1, <1>2, <2>2, <2>3
  <2> QED  BY <1>2, <1>5, <2>1, <2>4
<1> QED  BY <1>2, <1>4, <1>5

\* The rows of a page: those after the pages before it, up to its end or that of
\* the list.
Start(p) == (p - 1) * PerPage
EndOf(p, total) == IF p * PerPage <= total THEN p * PerPage ELSE total
IsPage(p, total) == p \in 1..PageCount(total)
LEMMA PageBounds ==
  ASSUME NEW total \in Nat, NEW p \in Nat, IsPage(p, total)
  PROVE  /\ Start(p) \in Nat /\ EndOf(p, total) \in Nat /\ Start(p) + PerPage = p * PerPage
         /\ Start(p) <= EndOf(p, total) /\ EndOf(p, total) <= total
         /\ total > 0 => Start(p) < EndOf(p, total)
         /\ p < PageCount(total) => EndOf(p, total) = p * PerPage /\ p * PerPage < total
         /\ ~(p < PageCount(total)) => EndOf(p, total) = total
<1> DEFINE C == PageCount(total)
<1>0. PerPage \in Nat /\ PerPage > 0  BY ViewsConstants
<1>1. C \in Nat /\ C >= 1 /\ total <= C * PerPage /\ (C = 1 \/ (C - 1) * PerPage < total)  BY PageCountIs
<1>2. p >= 1 /\ p <= C  BY DEF IsPage
<1> HIDE DEF C
<1>3. p * PerPage \in Nat /\ Start(p) \in Nat /\ Start(p) + PerPage = p * PerPage
  <2>1. Start(p) = p * PerPage - PerPage  BY <1>0, <1>2 DEF Start
  <2>2. p * PerPage \in Nat /\ (p - 1) * PerPage \in Nat
    <3>1. p - 1 \in Nat  BY <1>2
    <3> QED  BY <1>0, <3>1, Times
  <2> QED  BY <1>0, <2>1, <2>2 DEF Start
<1>4. Start(p) <= total /\ (total > 0 => Start(p) < total)
  <2>1. CASE p = 1
    <3>1. Start(p) = 0  BY <1>0, <2>1 DEF Start
    <3> QED  BY <3>1
  <2>2. CASE p > 1
    <3>1. p - 1 \in Nat /\ C - 1 \in Nat /\ p - 1 <= C - 1 /\ C # 1  BY <1>1, <1>2, <2>2
    <3>2. (p - 1) * PerPage <= (C - 1) * PerPage /\ (C - 1) * PerPage \in Nat  BY <1>0, <3>1, Times
    <3>3. (C - 1) * PerPage < total  BY <1>1, <3>1
    <3> QED  BY <1>3, <3>2, <3>3 DEF Start
  <2> QED  BY <1>2, <2>1, <2>2
<1>5. ASSUME p < C PROVE p * PerPage < total
  <2>1. p <= C - 1 /\ C - 1 \in Nat /\ C # 1  BY <1>1, <1>2, <1>5
  <2>2. p * PerPage <= (C - 1) * PerPage /\ (C - 1) * PerPage \in Nat  BY <1>0, <2>1, Times
  <2>3. (C - 1) * PerPage < total  BY <1>1, <2>1
  <2> QED  BY <1>3, <2>2, <2>3
<1>6. ASSUME ~(p < C) PROVE total <= p * PerPage
  <2>1. p = C  BY <1>1, <1>2, <1>6
  <2> QED  BY <1>1, <2>1
<1> DEFINE w == p * PerPage
           st == Start(p)
           e == EndOf(p, total)
<1>7. e = IF w <= total THEN w ELSE total  BY DEF EndOf
<1>8. w \in Nat /\ st \in Nat /\ st + PerPage = w /\ st <= total /\ (total > 0 => st < total)  BY <1>3, <1>4
<1>9. (p < C => w < total) /\ (~(p < C) => total <= w)  BY <1>5, <1>6
<1> HIDE DEF w, st, e
<1>10. e \in Nat /\ st <= e /\ e <= total /\ (total > 0 => st < e) /\ (p < C => e = w) /\ (~(p < C) => e = total)
  BY <1>0, <1>7, <1>8, <1>9
<1> QED  BY <1>8, <1>9, <1>10 DEF C, w, st, e
\* Who comes from a page before the last is on a page.
LEMMA NextIsPage ==
  ASSUME NEW total \in Nat, NEW p \in Nat, p >= 1, p = 1 \/ Start(p) < total
  PROVE  IsPage(p, total)
<1> DEFINE C == PageCount(total)
<1>0. PerPage \in Nat /\ PerPage > 0  BY ViewsConstants
<1>1. C \in Nat /\ C >= 1 /\ total <= C * PerPage  BY PageCountIs
<1> HIDE DEF C
<1>2. p <= C
  <2>1. CASE p = 1  BY <1>1, <2>1
  <2>2. CASE Start(p) < total
    <3>1. p - 1 \in Nat  OBVIOUS
    <3>2. (p - 1) * PerPage \in Nat /\ C * PerPage \in Nat  BY <1>0, <1>1, <3>1, Times
    <3>3. (p - 1) * PerPage < C * PerPage  BY <1>1, <2>2, <3>2 DEF Start
    <3>4. p - 1 < C  BY <1>0, <1>1, <3>1, <3>3, Times
    <3> QED  BY <1>1, <3>4
  <2> QED  BY <2>1, <2>2
<1> QED  BY <1>1, <1>2 DEF IsPage, C

\* The list up to some place, with the rows that follow.
Upto(infos, n) == SubSeq(infos, 1, n)
LEMMA PagesJoin ==
  ASSUME NEW T, NEW infos \in Seq(T), NEW k \in Nat, NEW n \in Nat, k <= n, n <= Len(infos)
  PROVE  /\ Upto(infos, k) \o SubSeq(infos, k + 1, n) = Upto(infos, n)
         /\ Upto(infos, n) \in Seq(T) /\ Len(Upto(infos, n)) = n
         /\ SubSeq(infos, k + 1, n) \in Seq(T) /\ (k < n => SubSeq(infos, k + 1, n) # <<>>)
<1>1. Len(infos) \in Nat  OBVIOUS
<1>2. 1 \in 1..Len(infos)+1 /\ k \in 1-1..Len(infos) /\ n \in k..Len(infos)  BY <1>1
<1>3. SubSeq(infos, 1, k) \o SubSeq(infos, k + 1, n) = SubSeq(infos, 1, n)  BY <1>2, ConcatAdjacentSubSeq
<1>4. SubSeq(infos, 1, n) \in Seq(T) /\ Len(SubSeq(infos, 1, n)) = n  BY <1>1
<1>5. SubSeq(infos, k + 1, n) \in Seq(T) /\ Len(SubSeq(infos, k + 1, n)) = n - k  BY <1>1
<1>6. k < n => SubSeq(infos, k + 1, n) # <<>>
  <2>1. k < n => Len(SubSeq(infos, k + 1, n)) # 0  BY <1>5
  <2>2. Len(<<>>) = 0  OBVIOUS
  <2> QED  BY <2>1, <2>2
<1> QED  BY <1>3, <1>4, <1>5, <1>6 DEF Upto
LEMMA WholeList ==
  ASSUME NEW T, NEW infos \in Seq(T)
  PROVE  Upto(infos, Len(infos)) = infos /\ Upto(infos, 0) = <<>>
BY DEF Upto

-----------------------------------------------------------------------------
(* What a request has read *)

FormType == [view : {"table", "overview", "timeline", "detail"}, state : {"any", "paused", "scheduled", "late"},
             executor : Nat, sort_by : SortKeys, descending : BOOLEAN, page : Nat]
FormOk(form) ==
  /\ form \in FormType
  /\ form.view = "table" => form.page >= 1
  /\ form.view = "detail" => form.page \in Items
  /\ form.view # "table" => form.state = "any" /\ form.executor = Anyone
Lists == Seq(Items) \cup Seq(Row)
ReaderType ==
  /\ reader \in [form : FormType, pc : {"begin", "count", "infos", "preview", "shown", "failed"}]
  /\ FormOk(reader.form)
  /\ IF Counting THEN reader.pc # "preview" ELSE reader.pc # "count"
AnswerType ==
  /\ answer \in [counts : [total : Nat, paused : Nat, scheduled : Nat], infos : Seq(Items),
                 rows : Lists, shown : Lists, steady : BOOLEAN]
  /\ IF Counting THEN answer.shown \in Seq(Items) ELSE answer.rows \in Seq(Row) /\ answer.shown \in Seq(Row)

\* The table and the overview: while nothing changes, the counts and the list
\* are those of the tasks, and the pages shown are the list up to here.
CountsNow == Counting /\ answer.steady /\ reader.pc \in {"infos", "shown"} => answer.counts = Counts(Infos(Default))
ListNow   == Counting /\ answer.steady /\ reader.pc = "shown" => answer.infos = Infos(reader.form)
OnAPage   == reader.form.view = "table" /\ reader.pc = "shown" =>
  IsPage(reader.form.page, Len(answer.infos)) /\ (answer.infos # <<>> => answer.rows # <<>>)
PagesSoFar == reader.form.view = "table" /\ reader.pc # "shown" /\ answer.steady =>
  IF reader.form.page = 1 THEN answer.shown = <<>>
  ELSE /\ Start(reader.form.page) < Len(Infos(reader.form))
       /\ answer.shown = Upto(Infos(reader.form), Start(reader.form.page))
PagesToHere == reader.form.view = "table" /\ reader.pc = "shown" /\ answer.steady =>
  answer.shown = Upto(Infos(reader.form), EndOf(reader.form.page, Len(Infos(reader.form))))
RecentShown == reader.form.view = "overview" /\ reader.pc = "shown" =>
  Len(answer.shown) = Min({Recent, Len(answer.infos)})
TableInv == CountsNow /\ ListNow /\ OnAPage /\ PagesSoFar /\ PagesToHere /\ RecentShown

LEMMA InfosTyped ==
  ASSUME ListedType, NEW form, FormOk(form)
  PROVE  IsInfos(Infos(form), form) /\ Infos(form) \in Seq(Items) /\ Len(Infos(form)) \in Nat
<1>1. IsInfos(Infos(form), form)  BY InfosAre DEF FormOk, FormType
<1>2. Matching(form) \subseteq Items  BY DEF Matching, ListedType
<1>3. Infos(form) \in Seq(Matching(form)) /\ Len(Infos(form)) \in Nat  BY <1>1 DEF IsInfos
<1>4. Infos(form) \in Seq(Items)
  <2> DEFINE q == Infos(form)
  <2>1. q = [n \in 1..Len(q) |-> q[n]] /\ \A n \in 1..Len(q) : q[n] \in Items  BY <1>2, <1>3
  <2> HIDE DEF q
  <2>2. q \in [1..Len(q) -> Items]  BY <2>1
  <2>3. Len(q) \in Nat  BY <1>3 DEF q
  <2> QED  BY <2>2, <2>3 DEF q
<1> QED  BY <1>1, <1>3, <1>4

LEMMA TableInvImplies ==
  ASSUME ListedType, ReaderType, AnswerType, TableInv
  PROVE  PagesCoverTheList
<1> DEFINE form == reader.form
           q == Infos(form)
<1>1. FormOk(form) /\ IsInfos(q, form) /\ q \in Seq(Items) /\ Len(q) \in Nat  BY InfosTyped DEF ReaderType
<1>2. Len(q) = Cardinality(Matching(form))  BY <1>1 DEF IsInfos
<1>3. ASSUME reader.pc = "shown", Counting, answer.steady PROVE CountsAgree
  <2> DEFINE c == Counts(Infos(Default))
  <2>1. answer.counts = c /\ answer.infos = q  BY <1>3 DEF TableInv, CountsNow, ListNow
  <2>2. c.scheduled + c.paused = c.total /\ c.total = Cardinality(DOMAIN listed) /\ c.total \in Nat
        /\ c.paused \in Nat /\ c.paused >= Cardinality(Paused)
    BY CountsAre
  <2> HIDE DEF c
  <2>3. IsFiniteSet(DOMAIN listed) /\ Matching(form) \in SUBSET DOMAIN listed
    <3>1. DOMAIN listed \in SUBSET Items  BY DEF ListedType
    <3> QED  BY <3>1, DefaultMatches, ViewsConstants, FS_Subset
  <2>4. Cardinality(Matching(form)) <= Cardinality(DOMAIN listed)  BY <2>3, FS_Subset
  <2>5. answer.counts.total >= Len(answer.infos)
    <3>1. c.total >= Len(q)  BY <1>1, <1>2, <2>2, <2>4
    <3> QED  BY <2>1, <3>1
  <2>6. ASSUME form.state = "paused" PROVE answer.counts.paused >= Len(answer.infos)
    <3>1. Matching(form) \subseteq Paused /\ Paused \in SUBSET DOMAIN listed
      BY <2>6 DEF Matching, Paused, schedule_state
    <3>2. IsFiniteSet(Paused)  BY <2>3, <3>1, FS_Subset
    <3>3. Cardinality(Matching(form)) <= Cardinality(Paused)  BY <3>1, <3>2, FS_Subset
    <3>4. Cardinality(Paused) \in Nat  BY <3>2, FS_CardinalityType
    <3>5. c.paused >= Len(q)  BY <1>1, <1>2, <2>2, <3>3, <3>4
    <3> QED  BY <2>1, <3>5
  <2>7. ASSUME form.view = "overview" PROVE Len(answer.shown) = Min({Recent, answer.counts.total})
    <3>1. Matching(form) = DOMAIN listed  BY <1>1, <2>7, DefaultMatches DEF FormOk
    <3>2. c.total = Len(q)  BY <1>2, <2>2, <3>1
    <3>3. Len(answer.shown) = Min({Recent, Len(answer.infos)})  BY <1>3, <2>7 DEF TableInv, RecentShown
    <3> QED  BY <2>1, <3>2, <3>3
  <2>8. answer.counts.scheduled + answer.counts.paused = answer.counts.total  BY <2>1, <2>2
  <2> QED  BY <2>5, <2>6, <2>7, <2>8 DEF CountsAgree
<1>4. ASSUME reader.pc = "shown", form.view = "table", answer.infos # <<>> PROVE answer.rows # <<>>
  BY <1>4 DEF TableInv, OnAPage
<1>5. ASSUME reader.pc = "shown", form.view = "table", ~HasNext, answer.steady PROVE answer.shown = q
  <2>1. answer.infos = q /\ IsPage(form.page, Len(answer.infos))
        /\ answer.shown = Upto(q, EndOf(form.page, Len(q)))
    BY <1>5 DEF TableInv, ListNow, OnAPage, PagesToHere, Counting
  <2>2. ~(form.page < PageCount(Len(q)))  BY <1>5, <2>1 DEF HasNext
  <2>3. form.page \in Nat  BY <1>1 DEF FormOk, FormType
  <2>4. EndOf(form.page, Len(q)) = Len(q)  BY <1>1, <2>1, <2>2, <2>3, PageBounds
  <2> QED  BY <1>1, <2>1, <2>4, WholeList
<1>6. ASSUME answer.shown = q
      PROVE  /\ ToSet(answer.shown) = Matching(form)
             /\ Len(answer.shown) = Cardinality(Matching(form))
             /\ \A m, n \in DOMAIN answer.shown : m < n =>
                  IF form.descending THEN InOrder(answer.shown[n], answer.shown[m], form)
                  ELSE InOrder(answer.shown[m], answer.shown[n], form)
  <2>1. ToSet(q) = Matching(form)  BY <1>1 DEF IsInfos, ToSet
  <2> QED  BY <1>1, <1>6, <2>1 DEF IsInfos
<1> QED  BY <1>3, <1>4, <1>5, <1>6 DEF PagesCoverTheList

LEMMA ListStays ==
  ASSUME listed' = listed, NEW form
  PROVE  Infos(form)' = Infos(form)
BY DEF Infos, Matching, SortKey, NextKey, schedule_state, Precedes, None, Anyone
LEMMA CountsStay ==
  ASSUME listed' = listed, NEW infos
  PROVE  Counts(infos)' = Counts(infos)
BY DEF Counts, schedule_state, None
\* The page and the view are no filter.
SameList(form, other) ==
  form.state = other.state /\ form.executor = other.executor /\ form.sort_by = other.sort_by
  /\ form.descending = other.descending
LEMMA SameListSame ==
  ASSUME NEW form, NEW other, SameList(form, other)
  PROVE  Infos(form) = Infos(other)
<1>1. Matching(form) = Matching(other)  BY DEF Matching, SameList
<1> QED  BY <1>1 DEF Infos, SameList

-----------------------------------------------------------------------------
(* The steps of the table and the overview *)

ViewsType == ListedType /\ ReaderType /\ AnswerType
Steps == {"begin", "count", "infos", "preview", "shown", "failed"}

LEMMA ReadingTyped ==
  ASSUME ReaderType, NEW pc \in Steps, Reading(pc), IF Counting THEN pc # "preview" ELSE pc # "count"
  PROVE  ReaderType' /\ reader'.form = reader.form /\ reader'.pc = pc /\ (Counting' <=> Counting)
<1>1. reader' = [reader EXCEPT !.pc = pc]  BY DEF Reading
<1>2. reader'.form = reader.form /\ reader'.pc = pc  BY <1>1 DEF ReaderType
<1>3. reader' \in [form : FormType, pc : {"begin", "count", "infos", "preview", "shown", "failed"}]
  BY <1>1 DEF ReaderType, Steps
<1>4. Counting' <=> Counting  BY <1>2 DEF Counting
<1>5. FormOk(reader.form)'
  <2>1. FormOk(reader.form)  BY DEF ReaderType
  <2> QED  BY <1>2, <2>1 DEF FormOk
<1> QED  BY <1>2, <1>3, <1>4, <1>5 DEF ReaderType

LEMMA LookingTyped == ASSUME ListedType, Looking PROVE ListedType' /\ listed' = listed
BY DEF Looking, ListedType

LEMMA AnswerStays ==
  ASSUME AnswerType, answer' = answer, Counting' <=> Counting
  PROVE  AnswerType'
BY DEF AnswerType

LEMMA SoFarStays ==
  ASSUME PagesSoFar, reader.pc # "shown", listed' = listed, reader'.form = reader.form,
         answer'.steady = answer.steady, answer'.shown = answer.shown
  PROVE  PagesSoFar'
<1>1. PICK f : f = reader.form  OBVIOUS
<1>2. Infos(f)' = Infos(f)  BY ListStays
<1>3. Start(f.page)' = Start(f.page)  BY DEF Start
<1> QED  BY <1>1, <1>2, <1>3 DEF PagesSoFar, Upto

LEMMA OthersTable == ASSUME ~Counting' PROVE TableInv'
BY DEF Counting, TableInv, CountsNow, ListNow, OnAPage, PagesSoFar, PagesToHere, RecentShown

LEMMA ParseTable == ASSUME ViewsType, TableInv, Parse PROVE ViewsType' /\ TableInv'
<1>1. PICK pc \in Steps : Reading(pc) /\ pc = (IF Counting THEN "count" ELSE "infos")  BY DEF Parse, Steps
<1>2. ReaderType' /\ reader'.form = reader.form /\ reader'.pc = pc /\ (Counting' <=> Counting)
  BY <1>1, ReadingTyped DEF ViewsType
<1>3. ListedType' /\ listed' = listed  BY LookingTyped DEF ViewsType, Parse
<1>4. AnswerType'  BY <1>2, AnswerStays DEF ViewsType, Parse
<1>5. PagesSoFar'  BY <1>3, <1>2, SoFarStays DEF Parse, TableInv
<1>6. TableInv'
  <2>1. CASE ~Counting  BY <1>2, <2>1, OthersTable
  <2>2. CASE Counting
    <3>1. reader'.pc = "count"  BY <1>1, <1>2, <2>2
    <3> QED  BY <1>5, <3>1 DEF TableInv, CountsNow, ListNow, OnAPage, PagesToHere, RecentShown
  <2> QED  BY <2>1, <2>2
<1> QED  BY <1>2, <1>3, <1>4, <1>6 DEF ViewsType

LEMMA CountTable == ASSUME ViewsType, TableInv, CountTasks PROVE ViewsType' /\ TableInv' /\ Counting'
<1>0. Counting /\ reader.pc = "count"  BY DEF CountTasks, ViewsType, ReaderType
<1>1. PICK pc \in Steps : Reading(pc) /\ pc \in {"infos", "failed"}  BY DEF CountTasks, Steps
<1>2. ReaderType' /\ reader'.form = reader.form /\ reader'.pc = pc /\ (Counting' <=> Counting)
  BY <1>0, <1>1, ReadingTyped DEF ViewsType
<1>3. ListedType' /\ listed' = listed  BY LookingTyped DEF ViewsType, CountTasks
<1> DEFINE c == Counts(Infos(Default))
<1>4. c \in [total : Nat, paused : Nat, scheduled : Nat]  BY CountsAre DEF ViewsType
<1>5. answer' = [answer EXCEPT !.counts = c]  BY DEF CountTasks
<1>6. c' = c
  <2>1. PICK q : q = Infos(Default)  OBVIOUS
  <2>2. Infos(Default)' = Infos(Default)  BY <1>3, ListStays DEF Default, Form
  <2>3. Counts(q)' = Counts(q)  BY <1>3, CountsStay
  <2> QED  BY <2>1, <2>2, <2>3
<1> HIDE DEF c
<1>7. AnswerType' /\ answer'.counts = c /\ answer'.steady = answer.steady /\ answer'.shown = answer.shown
  <2>1. answer'.counts = c /\ answer'.steady = answer.steady /\ answer'.shown = answer.shown
        /\ answer' \in [counts : [total : Nat, paused : Nat, scheduled : Nat], infos : Seq(Items),
                        rows : Lists, shown : Lists, steady : BOOLEAN]
    BY <1>4, <1>5 DEF ViewsType, AnswerType
  <2> QED  BY <1>0, <1>2, <2>1 DEF ViewsType, AnswerType
<1>8. PagesSoFar'  BY <1>0, <1>2, <1>3, <1>7, SoFarStays DEF TableInv
<1>9. CountsNow'
  <2>1. answer'.counts = Counts(Infos(Default))'  BY <1>6, <1>7 DEF c
  <2> QED  BY <2>1 DEF CountsNow
<1>10. reader'.pc # "shown"  BY <1>1, <1>2
<1>11. TableInv'  BY <1>8, <1>9, <1>10 DEF TableInv, ListNow, OnAPage, PagesToHere, RecentShown
<1> QED  BY <1>0, <1>2, <1>3, <1>7, <1>11 DEF ViewsType

LEMMA OverviewTable == ASSUME ViewsType, TableInv, Overview PROVE ViewsType' /\ TableInv' /\ Counting'
<1>0. Counting /\ reader.form.view = "overview" /\ reader.pc = "infos"  BY DEF Overview, Counting
<1>1. Reading("shown") /\ "shown" \in Steps  BY DEF Overview, Steps
<1>2. ReaderType' /\ reader'.form = reader.form /\ reader'.pc = "shown" /\ (Counting' <=> Counting)
  BY <1>0, <1>1, ReadingTyped DEF ViewsType
<1>3. ListedType' /\ listed' = listed  BY LookingTyped DEF ViewsType, Overview
<1>4. PICK f : f = reader.form  OBVIOUS
<1> DEFINE q == Infos(f)
<1>5. q \in Seq(Items) /\ Len(q) \in Nat  BY <1>4, InfosTyped DEF ViewsType, ReaderType
<1>6. answer' = [answer EXCEPT !.infos = q, !.shown = Cut(q, Recent)]  BY <1>4 DEF Overview, Cut
<1>7. q' = q  BY <1>3, ListStays
<1> HIDE DEF q
<1>8. Cut(q, Recent) \in Seq(Items) /\ CutFacts(Cut(q, Recent), q, Recent)  BY <1>5, ViewsConstants, CutIs
<1>9. answer'.infos = q /\ answer'.shown = Cut(q, Recent) /\ answer'.steady = answer.steady
      /\ answer'.counts = answer.counts
      /\ answer' \in [counts : [total : Nat, paused : Nat, scheduled : Nat], infos : Seq(Items),
                      rows : Lists, shown : Lists, steady : BOOLEAN]
  BY <1>5, <1>6, <1>8 DEF ViewsType, AnswerType, Lists
<1>10. AnswerType'  BY <1>0, <1>2, <1>8, <1>9 DEF AnswerType
<1>11. RecentShown'
  <2>1. Len(Cut(q, Recent)) = IF Recent <= Len(q) THEN Recent ELSE Len(q)  BY <1>8 DEF CutFacts
  <2>2. Len(Cut(q, Recent)) = Min({Recent, Len(q)})  BY <1>5, <2>1, ViewsConstants, MinOfTwo
  <2> QED  BY <1>9, <2>2 DEF RecentShown
<1>12. CountsNow'
  <2>1. Infos(Default)' = Infos(Default)  BY <1>3, ListStays DEF Default, Form
  <2>2. PICK i : i = Infos(Default)  OBVIOUS
  <2>3. Counts(i)' = Counts(i)  BY <1>3, CountsStay
  <2> QED  BY <1>0, <1>9, <2>1, <2>2, <2>3 DEF TableInv, CountsNow
<1>13. ListNow'  BY <1>2, <1>4, <1>7, <1>9 DEF ListNow, q
<1>14. reader'.form.view = "overview"  BY <1>0, <1>2
<1> QED  BY <1>0, <1>2, <1>3, <1>10, <1>11, <1>12, <1>13, <1>14 DEF ViewsType, TableInv, OnAPage, PagesSoFar, PagesToHere

LEMMA TableTable == ASSUME ViewsType, TableInv, Table PROVE ViewsType' /\ TableInv' /\ Counting'
<1>0. Counting /\ reader.form.view = "table" /\ reader.pc = "infos"  BY DEF Table, Counting
<1>1. PICK f : f = reader.form  OBVIOUS
<1> DEFINE q == Infos(f)
           L == Len(q)
           C == PageCount(L)
           p == f.page
           g == Page(q)
           r == PageRows(q)
<1>2. f \in FormType /\ FormOk(f) /\ p \in Nat /\ p >= 1  BY <1>0, <1>1 DEF ViewsType, ReaderType, FormOk, FormType
<1>3. q \in Seq(Items) /\ L \in Nat  BY <1>2, InfosTyped DEF ViewsType
<1>4. C \in Nat /\ C >= 1  BY <1>3, PageCountIs
<1>5. g = (IF p <= C THEN p ELSE C)  BY <1>1, <1>2, <1>4, MinOfTwo DEF Page
<1>6. answer' = [answer EXCEPT !.infos = q, !.rows = r, !.shown = answer.shown \o r]
      /\ reader' = [reader EXCEPT !.pc = "shown", !.form.page = g]
  BY <1>1 DEF Table
<1>7. ListedType' /\ listed' = listed  BY LookingTyped DEF ViewsType, Table
<1>8. q' = q  BY <1>7, ListStays
<1> HIDE DEF C, p, g
<1>9. g \in Nat /\ g >= 1 /\ g <= C  BY <1>2, <1>4, <1>5
<1>10. IsPage(g, L)  BY <1>4, <1>9 DEF IsPage, C
<1> DEFINE e == EndOf(g, L)
<1>11. Start(g) \in Nat /\ e \in Nat /\ Start(g) + PerPage = g * PerPage /\ Start(g) <= e /\ e <= L
       /\ (L > 0 => Start(g) < e)
  BY <1>3, <1>9, <1>10, PageBounds
<1>12. r = SubSeq(q, Start(g) + 1, e)
  <2>1. r = SubSeq(q, Start(g) + 1, Min({Start(g) + PerPage, L}))  BY DEF PageRows, Start, g
  <2>2. Start(g) + PerPage \in Nat  BY <1>11, ViewsConstants
  <2>3. Min({Start(g) + PerPage, L}) = IF Start(g) + PerPage <= L THEN Start(g) + PerPage ELSE L
    BY <1>3, <2>2, MinOfTwo
  <2> QED  BY <1>11, <2>1, <2>3 DEF EndOf
<1> HIDE DEF q, L, r, e
<1>13. r \in Seq(Items) /\ (L > 0 => r # <<>>) /\ Upto(q, Start(g)) \o r = Upto(q, e)
  BY <1>3, <1>11, <1>12, PagesJoin DEF L
<1>14. answer.shown \in Seq(Items)  BY <1>0 DEF ViewsType, AnswerType
<1>15. answer.shown \o r \in Seq(Items)  BY <1>13, <1>14, ConcatProperties
<1>16. /\ answer'.infos = q /\ answer'.rows = r /\ answer'.shown = answer.shown \o r
       /\ answer'.steady = answer.steady /\ answer'.counts = answer.counts
       /\ answer' \in [counts : [total : Nat, paused : Nat, scheduled : Nat], infos : Seq(Items),
                       rows : Lists, shown : Lists, steady : BOOLEAN]
  BY <1>3, <1>6, <1>13, <1>15 DEF ViewsType, AnswerType, Lists
<1>17. /\ reader'.form = [f EXCEPT !.page = g] /\ reader'.pc = "shown"
       /\ reader' \in [form : FormType, pc : {"begin", "count", "infos", "preview", "shown", "failed"}]
  BY <1>1, <1>2, <1>6, <1>9 DEF ViewsType, ReaderType, FormType
<1>18. PICK h : h = reader'.form  OBVIOUS
<1>19. h.page = g /\ h.view = "table" /\ SameList(h, f) /\ FormOk(h) /\ h.page \in Nat
  <2>1. h = [f EXCEPT !.page = g] /\ f.view = "table"  BY <1>0, <1>1, <1>17, <1>18
  <2>2. h.page = g /\ h.view = "table" /\ SameList(h, f) /\ h \in FormType
    BY <1>2, <1>9, <2>1 DEF FormType, SameList
  <2> QED  BY <1>9, <2>2 DEF FormOk
<1>20. Infos(h)' = q
  <2>1. Infos(h) = Infos(f)  BY <1>19, SameListSame
  <2>2. Infos(h)' = Infos(h)  BY <1>7, ListStays
  <2> QED  BY <2>1, <2>2 DEF q
<1>21. Counting'  BY <1>18, <1>19 DEF Counting
<1>22. ReaderType'  BY <1>17, <1>18, <1>19, <1>21 DEF ReaderType, FormOk
<1>23. AnswerType'  BY <1>15, <1>16, <1>21 DEF AnswerType
<1>24. CountsNow'
  <2>1. Infos(Default)' = Infos(Default)  BY <1>7, ListStays DEF Default, Form
  <2>2. PICK i : i = Infos(Default)  OBVIOUS
  <2>3. Counts(i)' = Counts(i)  BY <1>7, CountsStay
  <2> QED  BY <1>0, <1>16, <2>1, <2>2, <2>3 DEF TableInv, CountsNow
<1>25. ListNow'  BY <1>16, <1>18, <1>20 DEF ListNow
<1>26. OnAPage'
  <2>2. q # <<>> => L > 0  BY <1>3 DEF L
  <2>3. answer'.infos # <<>> => answer'.rows # <<>>  BY <1>13, <1>16, <2>2
  <2> QED  BY <1>10, <1>16, <1>18, <1>19, <2>3 DEF OnAPage, IsPage, PageCount, L
<1>27. PagesToHere'
  <2> SUFFICES ASSUME answer.steady PROVE answer'.shown = Upto(q, e)
    <3>1. answer'.shown = Upto(q, e) => PagesToHere'
      BY <1>16, <1>18, <1>19, <1>20 DEF PagesToHere, Upto, EndOf, e, L
    <3>2. ~answer.steady => PagesToHere'  BY <1>16 DEF PagesToHere
    <3> QED  BY <3>1, <3>2
  <2>5. IF p = 1 THEN answer.shown = <<>> ELSE Start(p) < L /\ answer.shown = Upto(q, Start(p))
    BY <1>0, <1>1 DEF TableInv, PagesSoFar, p, q, L
  <2>6. Start(1) = 0 /\ Upto(q, 0) = <<>>  BY <1>3, ViewsConstants, WholeList DEF Start
  <2>1. (p = 1 \/ Start(p) < L) /\ answer.shown = Upto(q, Start(p))  BY <2>5, <2>6
  <2>2. IsPage(p, L)  BY <1>2, <1>3, <2>1, NextIsPage DEF p, L
  <2>3. p <= C  BY <2>2 DEF IsPage, C
  <2>4. g = p  BY <1>5, <2>3
  <2> QED  BY <1>13, <1>16, <2>1, <2>4
<1>28. PagesSoFar' /\ RecentShown'
  <2>1. reader'.pc = "shown" /\ reader'.form.view = "table"  BY <1>17, <1>18, <1>19
  <2> QED  BY <2>1 DEF PagesSoFar, RecentShown
<1> QED  BY <1>7, <1>21, <1>22, <1>23, <1>24, <1>25, <1>26, <1>27, <1>28 DEF ViewsType, TableInv

LEMMA FollowTable == ASSUME ViewsType, TableInv, FollowNext PROVE ViewsType' /\ TableInv' /\ Counting'
<1>0. Counting /\ reader.form.view = "table" /\ reader.pc = "shown" /\ HasNext  BY DEF FollowNext, Counting
<1>1. PICK f : f = reader.form  OBVIOUS
<1> DEFINE q == Infos(f)
           p == f.page
<1>2. f \in FormType /\ FormOk(f) /\ p \in Nat /\ p >= 1  BY <1>0, <1>1 DEF ViewsType, ReaderType, FormOk, FormType
<1>3. q \in Seq(Items) /\ Len(q) \in Nat  BY <1>2, InfosTyped DEF ViewsType
<1>15. PICK n \in Nat : n = p + 1  BY <1>2
<1>4. answer' = answer /\ reader' = [reader EXCEPT !.pc = "begin", !.form.page = n]
  BY <1>1, <1>15 DEF FollowNext
<1>5. ListedType' /\ listed' = listed  BY LookingTyped DEF ViewsType, FollowNext
<1>6. /\ reader'.form = [f EXCEPT !.page = n] /\ reader'.pc = "begin"
      /\ reader' \in [form : FormType, pc : {"begin", "count", "infos", "preview", "shown", "failed"}]
  BY <1>1, <1>2, <1>4 DEF ViewsType, ReaderType, FormType
<1>7. PICK h : h = reader'.form  OBVIOUS
<1>8. h.page = p + 1 /\ h.view = "table" /\ SameList(h, f) /\ FormOk(h)
  <2>1. h = [f EXCEPT !.page = n] /\ f.view = "table"  BY <1>0, <1>1, <1>6, <1>7
  <2> HIDE DEF p
  <2>2. h.page = n /\ h.view = "table" /\ SameList(h, f) /\ h \in FormType
    BY <1>2, <2>1 DEF FormType, SameList
  <2>3. n >= 1  BY <1>2, <1>15 DEF p
  <2> QED  BY <1>15, <2>2, <2>3 DEF FormOk
<1>9. Infos(h)' = q
  <2>1. Infos(h) = Infos(f)  BY <1>8, SameListSame
  <2>2. Infos(h)' = Infos(h)  BY <1>5, ListStays
  <2> QED  BY <2>1, <2>2
<1>10. Counting'  BY <1>7, <1>8 DEF Counting
<1>11. ReaderType'  BY <1>6, <1>7, <1>8, <1>10 DEF ReaderType, FormOk
<1>12. AnswerType'  BY <1>0, <1>4, <1>10, AnswerStays DEF ViewsType
<1> HIDE DEF q, p
<1>13. PagesSoFar'
  <2> SUFFICES ASSUME answer.steady PROVE Start(p + 1) < Len(q) /\ answer.shown = Upto(q, Start(p + 1))
    <3>0. n # 1  BY <1>2, <1>15 DEF p
    <3>1. Start(p + 1) < Len(q) /\ answer.shown = Upto(q, Start(p + 1)) => PagesSoFar'
      BY <1>4, <1>7, <1>8, <1>9, <1>15, <3>0 DEF PagesSoFar, Upto, Start
    <3>2. ~answer.steady => PagesSoFar'  BY <1>4 DEF PagesSoFar
    <3> QED  BY <3>1, <3>2
  <2>1. answer.infos = q /\ IsPage(p, Len(answer.infos)) /\ answer.shown = Upto(q, EndOf(p, Len(q)))
    BY <1>0, <1>1 DEF TableInv, ListNow, OnAPage, PagesToHere, p, q
  <2>2. p < PageCount(Len(q))  BY <1>0, <1>1, <2>1 DEF HasNext, p
  <2>3. EndOf(p, Len(q)) = p * PerPage /\ p * PerPage < Len(q)  BY <1>2, <1>3, <2>1, <2>2, PageBounds DEF p, q
  <2>4. Start(p + 1) = p * PerPage
    <3>1. p + 1 - 1 = p  BY <1>2 DEF p
    <3> QED  BY <1>2, <3>1 DEF Start, p
  <2> QED  BY <2>1, <2>3, <2>4
<1>14. CountsNow' /\ ListNow' /\ OnAPage' /\ PagesToHere' /\ RecentShown'
  BY <1>6 DEF CountsNow, ListNow, OnAPage, PagesToHere, RecentShown
<1> QED  BY <1>5, <1>10, <1>11, <1>12, <1>13, <1>14 DEF ViewsType, TableInv

LEMMA ChangeTyped ==
  ASSUME ViewsType, Change
  PROVE  /\ ViewsType' /\ reader' = reader /\ answer'.steady = (answer.steady /\ NothingRead)
         /\ answer'.infos = answer.infos /\ answer'.rows = answer.rows /\ answer'.shown = answer.shown
         /\ answer'.counts = answer.counts
<1>1. reader' = reader /\ answer' = [answer EXCEPT !.steady = answer.steady /\ NothingRead]  BY DEF Change
<1>2. answer.steady \in BOOLEAN /\ NothingRead \in BOOLEAN
  BY DEF ViewsType, AnswerType, NothingRead
<1>3. PICK b \in BOOLEAN : b = (answer.steady /\ NothingRead)  BY <1>2
<1>4. answer' = [answer EXCEPT !.steady = b]  BY <1>1, <1>3
<1>5. /\ answer'.steady = b /\ answer'.infos = answer.infos /\ answer'.rows = answer.rows
      /\ answer'.shown = answer.shown /\ answer'.counts = answer.counts
      /\ answer' \in [counts : [total : Nat, paused : Nat, scheduled : Nat], infos : Seq(Items),
                      rows : Lists, shown : Lists, steady : BOOLEAN]
  BY <1>4 DEF ViewsType, AnswerType
<1>6. AnswerType'  BY <1>1, <1>5 DEF ViewsType, AnswerType, Counting
<1>7. ReaderType'  BY <1>1 DEF ViewsType, ReaderType, Counting, FormOk
<1>8. ListedType'
  <2>1. PICK i \in Items :
          \/ \E t \in {None} \cup Instants[i] :
               listed' = [j \in DOMAIN listed \cup {i} |-> IF j = i THEN t ELSE listed[j]]
          \/ listed' = [j \in DOMAIN listed \ {i} |-> listed[j]]
    BY DEF Change
  <2>2. CASE \E t \in {None} \cup Instants[i] :
               listed' = [j \in DOMAIN listed \cup {i} |-> IF j = i THEN t ELSE listed[j]]
    BY <2>2 DEF ViewsType, ListedType
  <2>3. CASE listed' = [j \in DOMAIN listed \ {i} |-> listed[j]]
    BY <2>3 DEF ViewsType, ListedType
  <2> QED  BY <2>1, <2>2, <2>3
<1> QED  BY <1>1, <1>3, <1>5, <1>6, <1>7, <1>8 DEF ViewsType

LEMMA ChangeTable == ASSUME ViewsType, TableInv, Change PROVE TableInv'
<1>1. /\ reader' = reader /\ answer'.steady = (answer.steady /\ NothingRead)
      /\ answer'.infos = answer.infos /\ answer'.rows = answer.rows /\ answer'.shown = answer.shown
  BY ChangeTyped
<1>2. CASE ~Counting
  <2>1. ~Counting'  BY <1>1, <1>2 DEF Counting
  <2> QED  BY <2>1, OthersTable
<1>3. CASE Counting
  <2>1. NothingRead => answer.shown = <<>> /\ reader.pc \in {"begin", "count"}  BY <1>3 DEF NothingRead
  <2>2. CountsNow' /\ ListNow' /\ PagesToHere'  BY <1>1, <2>1 DEF CountsNow, ListNow, PagesToHere
  <2>3. OnAPage' /\ RecentShown'  BY <1>1 DEF TableInv, OnAPage, RecentShown, IsPage, PageCount
  <2>4. PagesSoFar'
    <3> SUFFICES ASSUME reader.form.view = "table", answer.steady, NothingRead
                 PROVE  reader.form.page = 1 /\ answer.shown = <<>>
      <4>1. reader.form.page = 1 /\ answer.shown = <<>> => PagesSoFar'  BY <1>1 DEF PagesSoFar
      <4>2. ~(reader.form.view = "table" /\ answer.steady /\ NothingRead) => PagesSoFar'  BY <1>1 DEF PagesSoFar
      <4> QED  BY <4>1, <4>2
    <3>1. PICK f : f = reader.form  OBVIOUS
    <3> DEFINE q == Infos(f)
    <3>2. FormOk(f) /\ f.page \in Nat /\ f.page >= 1  BY <3>1 DEF ViewsType, ReaderType, FormOk, FormType
    <3>3. q \in Seq(Items) /\ Len(q) \in Nat  BY <3>2, InfosTyped DEF ViewsType
    <3>4. f.page # 1 => Start(f.page) < Len(q) /\ answer.shown = Upto(q, Start(f.page))
      BY <2>1, <3>1 DEF TableInv, PagesSoFar
    <3> HIDE DEF q
    <3>5. ASSUME f.page # 1 PROVE FALSE
      <4>1. f.page - 1 \in Nat /\ f.page - 1 # 0  BY <3>2, <3>5
      <4>2. Start(f.page) \in Nat /\ Start(f.page) # 0  BY <4>1, ViewsConstants, Times DEF Start
      <4>3. Start(f.page) <= Len(q)  BY <3>3, <3>4, <3>5, <4>2
      <4>4. Len(Upto(q, Start(f.page))) = Start(f.page)  BY <3>3, <4>2, <4>3, PagesJoin
      <4>5. answer.shown = <<>> /\ answer.shown = Upto(q, Start(f.page))  BY <2>1, <3>4, <3>5
      <4>6. Len(<<>>) = 0  OBVIOUS
      <4> QED  BY <4>2, <4>4, <4>5, <4>6
    <3> QED  BY <2>1, <3>1, <3>5
  <2> QED  BY <2>2, <2>3, <2>4 DEF TableInv
<1> QED  BY <1>2, <1>3

-----------------------------------------------------------------------------
(* The rows of the timeline *)

Distinct(q) == \A m, n \in DOMAIN q : q[m] = q[n] => m = n
Ascending(rows) == \A m, n \in DOMAIN rows : m < n => rows[m].time < rows[n].time
\* The next PerTask runs of a task are among the rows.
Covered(i, rows) ==
  \A t \in Upcoming(i) :
    \/ \E n \in DOMAIN rows : rows[n] = [id |-> i, time |-> t]
    \/ Cardinality({u \in Upcoming(i) : u < t}) >= PerTask

LEMMA UpcomingIs ==
  ASSUME ListedType, NEW i \in DOMAIN listed
  PROVE  IsFiniteSet(Upcoming(i)) /\ Upcoming(i) \subseteq Nat
<1>1. i \in Items /\ listed[i] \in Nat  BY ListedFacts
<1>2. IsFiniteSet(Instants[i]) /\ \A t \in Instants[i] : t \in Nat  BY <1>1, ViewsConstants
<1>3. IsFiniteSet({listed[i]})  BY FS_Singleton
<1>4. IsFiniteSet(Instants[i] \cup {listed[i]})  BY <1>2, <1>3, FS_Union
<1>5. Upcoming(i) \in SUBSET (Instants[i] \cup {listed[i]})  BY DEF Upcoming
<1>6. IsFiniteSet(Upcoming(i))  BY <1>4, <1>5, FS_Subset
<1> QED  BY <1>1, <1>2, <1>5, <1>6

RowsFacts(r, i) ==
  /\ r \in Seq(Row) /\ Len(r) \in Nat /\ DOMAIN r = 1..Len(r)
  /\ \A n \in DOMAIN r : r[n].id = i
  /\ Ascending(r)
  /\ i \in DOMAIN listed => Covered(i, r)
LEMMA RowsAre ==
  ASSUME ListedType, NEW i \in Items
  PROVE  RowsFacts(Rows(i), i)
<1>1. CASE Missing(i)
  <2>1. Rows(i) = <<>>  BY <1>1 DEF Rows
  <2>2. <<>> \in Seq(Row) /\ Len(<<>>) = 0 /\ DOMAIN <<>> = 1..Len(<<>>) /\ DOMAIN <<>> = {}  OBVIOUS
  <2> QED  BY <1>1, <2>1, <2>2 DEF RowsFacts, Ascending, Missing
<1>2. CASE ~Missing(i)
  <2> DEFINE U == Upcoming(i)
             before == [t \in U |-> {u \in U : u < t}]
             q == Sorted(before)
             times == Cut(q, PerTask)
             r == Rows(i)
  <2>0. i \in DOMAIN listed  BY <1>2 DEF Missing
  <2>1. IsFiniteSet(U) /\ \A t \in U : t \in Nat  BY <2>0, UpcomingIs
  <2>2. Ordering(U, before)
    <3> HIDE DEF U
    <3>1. before \in [U -> SUBSET U]  OBVIOUS
    <3>2. \A x \in U : x \notin before[x]  BY <2>1
    <3>3. \A x, y \in U : y \in before[x] => before[y] \subseteq before[x]  BY <2>1
    <3>4. \A x, y \in U : x = y \/ x \in before[y] \/ y \in before[x]  BY <2>1
    <3> QED  BY <2>1, <3>1, <3>2, <3>3, <3>4 DEF Ordering
  <2>3. Arranges(q, U, before)  BY <2>2, SortedArranges
  <2>4. r = [n \in DOMAIN times |-> [id |-> i, time |-> times[n]]]
    <3>1. times = Preview(i, PerTask)  BY DEF Preview, Cut
    <3> HIDE DEF times
    <3> QED  BY <1>2, <3>1 DEF Rows
  <2> HIDE DEF U, q, r
  <2>5. q \in Seq(U) /\ Len(q) \in Nat /\ DOMAIN q = 1..Len(q)  BY <2>3 DEF Arranges
  <2>6. times \in Seq(U) /\ CutFacts(times, q, PerTask)  BY <2>5, ViewsConstants, CutIs
  <2> HIDE DEF times
  <2>7. /\ Len(times) = IF PerTask <= Len(q) THEN PerTask ELSE Len(q)
        /\ Len(times) \in Nat /\ DOMAIN times = 1..Len(times)
        /\ \A k \in DOMAIN times : k \in DOMAIN q /\ times[k] = q[k]
    BY <2>6 DEF CutFacts
  <2>8. \A k \in DOMAIN times : times[k] \in U /\ times[k] \in Nat  BY <2>1, <2>6
  <2>9. DOMAIN r = 1..Len(times) /\ \A k \in 1..Len(times) : r[k] = [id |-> i, time |-> times[k]]
    BY <2>4, <2>7
  <2>10. r \in Seq(Row) /\ Len(r) = Len(times)
    <3>1. PICK n \in Nat : n = Len(times)  BY <2>7
    <3>5. \A t \in Nat : [id |-> i, time |-> t] \in Row  BY DEF Row
    <3>2. \A k \in 1..n : r[k] \in Row  BY <2>7, <2>8, <2>9, <3>1, <3>5
    <3>3. r = [k \in 1..n |-> r[k]]  BY <2>4, <2>7, <3>1
    <3>4. r \in [1..n -> Row]  BY <3>2, <3>3
    <3> QED  BY <3>1, <3>4
  <2>11. Ascending(r)
    <3> SUFFICES ASSUME NEW m \in DOMAIN r, NEW n \in DOMAIN r, m < n PROVE r[m].time < r[n].time
      BY DEF Ascending
    <3>1. m \in DOMAIN times /\ n \in DOMAIN times  BY <2>7, <2>9
    <3>2. times[m] = q[m] /\ times[n] = q[n] /\ m \in DOMAIN q /\ n \in DOMAIN q  BY <2>7, <3>1
    <3>3. q[m] \in before[q[n]]  BY <2>3, <3>2 DEF Arranges
    <3>4. q[n] \in U  BY <2>8, <3>1, <3>2
    <3>5. q[m] < q[n]  BY <3>3, <3>4
    <3> QED  BY <2>9, <3>2, <3>5
  <2>12. \A n \in DOMAIN r : r[n].id = i  BY <2>9
  <2>13. Covered(i, r)
    <3> SUFFICES ASSUME NEW t \in U
                 PROVE  \/ \E n \in DOMAIN r : r[n] = [id |-> i, time |-> t]
                        \/ Cardinality({u \in U : u < t}) >= PerTask
      BY DEF Covered, U
    <3>1. PICK k \in DOMAIN q : q[k] = t  BY <2>3 DEF Arranges
    <3>2. Cardinality(before[t]) = k - 1  BY <2>3, <3>1 DEF Arranges
    <3>3. before[t] = {u \in U : u < t}  OBVIOUS
    <3>4. CASE k <= PerTask
      <4>1. k \in DOMAIN times  BY <2>5, <2>7, <3>1, <3>4, ViewsConstants
      <4> QED  BY <2>7, <2>9, <3>1, <4>1
    <3>5. CASE k > PerTask
      <4>1. k - 1 >= PerTask  BY <2>5, <3>5, ViewsConstants
      <4> QED  BY <3>2, <3>3, <4>1
    <3> QED  BY <2>5, <3>4, <3>5, ViewsConstants
  <2> QED  BY <2>10, <2>9, <2>11, <2>12, <2>13, <2>7 DEF RowsFacts, r
<1> QED  BY <1>1, <1>2

\* What the timeline shows of its rows.
LimitedFacts(shown, rows) ==
  /\ shown \in Seq(Row) /\ DOMAIN shown = 1..Len(shown) /\ Len(shown) \in Nat
  /\ \A m, n \in DOMAIN shown : m < n => shown[m].time <= shown[n].time /\ shown[m] # shown[n]
  /\ \A row \in ToSet(rows) \ ToSet(shown) : Len(shown) >= Limit /\ row.time >= Last(shown).time
LEMMA LimitedAre ==
  ASSUME NEW rows \in Seq(Row), Distinct(rows)
  PROVE  LimitedFacts(Limited(rows), rows)
<1> DEFINE D == DOMAIN rows
           before == [n \in D |-> {m \in D : Precedes(<<rows[m].time, m>>, <<rows[n].time, n>>)}]
           places == Sorted(before)
           bt == ByTime(rows)
           shown == Limited(rows)
<1>1. Len(rows) \in Nat /\ D = 1..Len(rows) /\ \A n \in D : n \in Nat /\ rows[n] \in Row /\ rows[n].time \in Nat
  <2>1. \A e \in Row : e.time \in Nat  BY DEF Row
  <2>2. Len(rows) \in Nat /\ D = 1..Len(rows) /\ \A n \in D : n \in Nat /\ rows[n] \in Row  OBVIOUS
  <2> QED  BY <2>1, <2>2
<1>2. IsFiniteSet(D) /\ Cardinality(D) = Len(rows)
  <2>1. 1 \in Int /\ Len(rows) \in Int  BY <1>1
  <2>2. IsFiniteSet(1..Len(rows)) /\ Cardinality(1..Len(rows)) = IF 1 > Len(rows) THEN 0 ELSE Len(rows) - 1 + 1
    BY <2>1, FS_Interval
  <2> QED  BY <1>1, <2>2
<1> DEFINE key == [n \in D |-> <<rows[n].time, n>>]
<1>3. before = [n \in D |-> {m \in D : Precedes(key[m], key[n])}]  OBVIOUS
<1>4. \A n \in D : key[n] \in Keys(2) /\ key[n] = <<rows[n].time, n>> /\ key[n][1] = rows[n].time /\ key[n][2] = n
  <2>1. \A a, b \in Nat : <<a, b>> \in Keys(2) /\ <<a, b>>[1] = a /\ <<a, b>>[2] = b  BY DEF Keys
  <2>2. \A n \in D : key[n] = <<rows[n].time, n>>  OBVIOUS
  <2>3. \A n \in D : n \in Nat /\ rows[n].time \in Nat  BY <1>1
  <2> HIDE DEF key, D
  <2> SUFFICES ASSUME NEW n \in D
               PROVE  key[n] \in Keys(2) /\ key[n] = <<rows[n].time, n>> /\ key[n][1] = rows[n].time /\ key[n][2] = n
    OBVIOUS
  <2>4. n \in Nat /\ key[n] = <<rows[n].time, n>>  BY <2>2, <2>3
  <2>5. PICK a \in Nat : a = rows[n].time  BY <2>3
  <2>6. <<a, n>> \in Keys(2) /\ <<a, n>>[1] = a /\ <<a, n>>[2] = n  BY <2>1, <2>4
  <2> QED  BY <2>4, <2>5, <2>6
<1>5. bt = [n \in D |-> rows[places[n]]]  BY DEF ByTime
<1> HIDE DEF before, key, D, bt
<1>6. Ordering(D, before)
  <2>1. before \in [D -> SUBSET D] /\ \A x, y \in D : y \in before[x] <=> Precedes(key[y], key[x])  BY <1>3
  <2>2. \A x \in D : x \notin before[x]
    <3>1. \A x \in D : ~Precedes(key[x], key[x])  BY <1>4, PrecedesIsStrict
    <3> QED  BY <2>1, <3>1
  <2>3. \A x, y \in D : y \in before[x] => before[y] \subseteq before[x]
    <3>1. \A x, y, z \in D : Precedes(key[x], key[y]) /\ Precedes(key[y], key[z]) => Precedes(key[x], key[z])
      BY <1>4, PrecedesIsStrict
    <3> QED  BY <2>1, <3>1
  <2>4. \A x, y \in D : x = y \/ x \in before[y] \/ y \in before[x]
    <3> SUFFICES ASSUME NEW x \in D, NEW y \in D PROVE x = y \/ x \in before[y] \/ y \in before[x]  OBVIOUS
    <3>1. key[x] = key[y] \/ Precedes(key[x], key[y]) \/ Precedes(key[y], key[x])
      <4>1. key[x] \in Keys(2) /\ key[y] \in Keys(2) /\ 2 \in Nat  BY <1>4
      <4> QED  BY <4>1, PrecedesIsStrict
    <3>2. key[x] = key[y] => x = y  BY <1>4
    <3> QED  BY <2>1, <3>1, <3>2
  <2> QED  BY <1>2, <2>1, <2>2, <2>3, <2>4 DEF Ordering
<1>7. Arranges(places, D, before)  BY <1>6, SortedArranges
<1> HIDE DEF places
<1>8. DOMAIN places = D /\ Len(places) = Len(rows) /\ \A n \in D : places[n] \in D
  <2>1. places \in Seq(D) /\ DOMAIN places = 1..Len(places) /\ Len(places) = Cardinality(D)  BY <1>7 DEF Arranges
  <2> QED  BY <1>1, <1>2, <2>1
<1>9. bt \in Seq(Row) /\ Len(bt) = Len(rows) /\ DOMAIN bt = D /\ \A n \in D : bt[n] = rows[places[n]]
  <2>1. PICK n \in Nat : D = 1..n /\ n = Len(rows)  BY <1>1
  <2>2. \A k \in D : rows[places[k]] \in Row  BY <1>1, <1>8
  <2>3. bt \in [1..n -> Row]  BY <1>5, <2>1, <2>2
  <2> QED  BY <1>5, <2>1, <2>3
<1>10. ASSUME NEW m \in D, NEW n \in D, m < n PROVE bt[m].time <= bt[n].time /\ bt[m] # bt[n]
  <2>1. places[m] \in D /\ places[n] \in D /\ places[m] \in before[places[n]]
    BY <1>7, <1>8, <1>10 DEF Arranges
  <2>2. Precedes(key[places[m]], key[places[n]])  BY <1>3, <2>1
  <2>3. key[places[m]][1] <= key[places[n]][1]  BY <1>4, <2>1, <2>2, PrecedesFirst
  <2>4. rows[places[m]].time <= rows[places[n]].time  BY <1>4, <2>1, <2>3
  <2>5. places[m] # places[n]  BY <2>1, <1>6 DEF Ordering
  <2>6. rows[places[m]] # rows[places[n]]  BY <2>1, <2>5 DEF Distinct, D
  <2> QED  BY <1>9, <2>4, <2>6
<1>11. \A k \in D : \E n \in D : bt[n] = rows[k]
  <2>1. \A k \in D : \E n \in D : places[n] = k  BY <1>7, <1>8 DEF Arranges
  <2> QED  BY <1>9, <2>1
<1>12. shown = Cut(bt, Limit)  BY DEF Limited, First, Cut, bt
<1> HIDE DEF shown
<1>13. shown \in Seq(Row) /\ CutFacts(shown, bt, Limit)  BY <1>9, <1>12, ViewsConstants, CutIs
<1>14. /\ Len(shown) = IF Limit <= Len(rows) THEN Limit ELSE Len(rows)
       /\ Len(shown) \in Nat /\ DOMAIN shown = 1..Len(shown)
       /\ \A k \in DOMAIN shown : k \in D /\ shown[k] = bt[k]
  BY <1>9, <1>13 DEF CutFacts
<1>15. \A m, n \in DOMAIN shown : m < n => shown[m].time <= shown[n].time /\ shown[m] # shown[n]
  BY <1>10, <1>14
<1>16. ASSUME NEW row \in ToSet(rows), row \notin ToSet(shown)
       PROVE  Len(shown) >= Limit /\ row.time >= Last(shown).time
  <2>1. PICK j \in D : rows[j] = row  BY DEF ToSet, D
  <2>2. PICK k \in D : bt[k] = row  BY <1>11, <2>1
  <2>3. k \notin DOMAIN shown  BY <1>14, <1>16, <2>2 DEF ToSet
  <2>4. k \in Nat /\ k >= 1 /\ k <= Len(rows)  BY <1>1, <2>2
  <2>5. k > Len(shown)  BY <1>14, <2>3, <2>4
  <2>6. Len(shown) = Limit /\ Limit \in D
    <3>1. Limit \in Nat /\ Limit > 0  BY ViewsConstants
    <3>2. Len(shown) = Limit  BY <1>1, <1>14, <2>4, <2>5, <3>1
    <3> QED  BY <1>1, <2>4, <2>5, <3>1, <3>2
  <2>7. Limit \in DOMAIN shown /\ shown[Limit] = bt[Limit]  BY <1>14, <2>6, ViewsConstants
  <2>8. Last(shown) = bt[Limit]  BY <2>6, <2>7 DEF Last
  <2>9. Limit < k  BY <2>5, <2>6
  <2>10. bt[Limit].time <= bt[k].time  BY <1>10, <2>6, <2>9
  <2>11. bt[Limit] \in Row /\ bt[k] \in Row  BY <1>9, <2>6
  <2>12. bt[Limit].time \in Nat /\ bt[k].time \in Nat  BY <2>11 DEF Row
  <2>13. row.time >= bt[Limit].time  BY <2>2, <2>10, <2>12
  <2> QED  BY <2>6, <2>8, <2>13, ViewsConstants
<1> QED  BY <1>13, <1>14, <1>15, <1>16 DEF LimitedFacts, shown

-----------------------------------------------------------------------------
(* The steps of the timeline and the detail page *)

\* The tasks whose runs the page has to tell.
Wanted == IF reader.form.view = "detail" THEN {reader.form.page} ELSE DOMAIN listed
Among(i, q) == \E n \in DOMAIN q : q[n] = i
\* No task is previewed twice, and none is in the rows that has yet to be.
EachOnce(infos, rows) ==
  /\ Distinct(infos) /\ Distinct(rows)
  /\ \A n \in DOMAIN rows, k \in DOMAIN infos : rows[n].id # infos[k]
OneTask(infos, rows) == Ascending(rows) /\ (infos = <<>> \/ (rows = <<>> /\ Len(infos) = 1))
\* While nothing changes, a task is to be previewed or has been.
ToldOrToCome(infos, rows) ==
  /\ \A n \in DOMAIN infos : infos[n] \in DOMAIN listed
  /\ \A i \in Wanted : i \in DOMAIN listed /\ (Among(i, infos) \/ Covered(i, rows))
Previewing == reader.pc \in {"preview", "shown"}
RowsOnce   == ~Counting => EachOnce(answer.infos, answer.rows)
NoRowsYet  == ~Counting /\ reader.pc \in {"begin", "infos"} => answer.infos = <<>> /\ answer.rows = <<>>
DetailRows == reader.form.view = "detail" /\ Previewing => OneTask(answer.infos, answer.rows)
RunsTold   == ~Counting /\ answer.steady /\ Previewing => ToldOrToCome(answer.infos, answer.rows)
RowsShown  == ~Counting /\ reader.pc = "shown" =>
  answer.infos = <<>> /\ answer.shown = IF reader.form.view = "timeline" THEN Limited(answer.rows) ELSE answer.rows
TimelineInv == RowsOnce /\ NoRowsYet /\ DetailRows /\ RunsTold /\ RowsShown

LEMMA TimelineInvImplies ==
  ASSUME ListedType, ReaderType, AnswerType, TimelineInv
  PROVE  TimelineShowsTheNext
<1> DEFINE rows == answer.rows
           shown == answer.shown
<1> SUFFICES ASSUME ~Counting, reader.pc = "shown"
             PROVE  /\ \A m, n \in DOMAIN shown : m < n => shown[m].time <= shown[n].time /\ shown[m] # shown[n]
                    /\ \A row \in ToSet(rows) \ ToSet(shown) :
                         Len(shown) >= Limit /\ row.time >= Last(shown).time
                    /\ answer.steady =>
                         \A i \in Wanted : \A t \in Upcoming(i) :
                             \/ [id |-> i, time |-> t] \in ToSet(rows)
                             \/ Cardinality({u \in Upcoming(i) : u < t}) >= PerTask
  BY DEF TimelineShowsTheNext, Wanted
<1>1. rows \in Seq(Row) /\ EachOnce(answer.infos, rows) /\ answer.infos = <<>>
      /\ shown = IF reader.form.view = "timeline" THEN Limited(rows) ELSE rows
  BY DEF AnswerType, TimelineInv, RowsOnce, RowsShown
<1>3. ASSUME answer.steady, NEW i \in Wanted, NEW t \in Upcoming(i)
      PROVE  [id |-> i, time |-> t] \in ToSet(rows) \/ Cardinality({u \in Upcoming(i) : u < t}) >= PerTask
  <2>1. ToldOrToCome(answer.infos, rows)  BY <1>3 DEF TimelineInv, RunsTold, Previewing
  <2>2. ~Among(i, answer.infos)  BY <1>1 DEF Among
  <2>3. Covered(i, rows)  BY <2>1, <2>2 DEF ToldOrToCome
  <2> QED  BY <2>3 DEF Covered, ToSet
<1>2. CASE reader.form.view = "timeline"
  <2>1. LimitedFacts(shown, rows)  BY <1>1, <1>2, LimitedAre DEF EachOnce
  <2> QED  BY <2>1, <1>3 DEF LimitedFacts
<1>4. CASE reader.form.view # "timeline"
  <2>1. reader.form.view = "detail" /\ shown = rows  BY <1>1, <1>4 DEF ReaderType, FormType, Counting
  <2>2. Ascending(rows)  BY <2>1 DEF TimelineInv, DetailRows, Previewing, OneTask
  <2>3. \A n \in DOMAIN rows : rows[n].time \in Nat
    <3>1. \A e \in Row : e.time \in Nat  BY DEF Row
    <3>2. \A n \in DOMAIN rows : rows[n] \in Row  BY <1>1
    <3> QED  BY <3>1, <3>2
  <2>4. \A m, n \in DOMAIN rows : m < n => rows[m].time <= rows[n].time /\ rows[m] # rows[n]
    <3> SUFFICES ASSUME NEW m \in DOMAIN rows, NEW n \in DOMAIN rows, m < n
                 PROVE  rows[m].time <= rows[n].time /\ rows[m] # rows[n]
      OBVIOUS
    <3>1. rows[m].time < rows[n].time  BY <2>2 DEF Ascending
    <3> QED  BY <2>3, <3>1
  <2> QED  BY <2>1, <2>4, <1>3
<1> QED  BY <1>2, <1>4

LEMMA CoveredStays ==
  ASSUME listed' = listed, NEW i, NEW rows, Covered(i, rows)
  PROVE  Covered(i, rows)'
BY DEF Covered, Upcoming, None
LEMMA ToldStays ==
  ASSUME listed' = listed, reader'.form = reader.form, NEW infos, NEW rows, ToldOrToCome(infos, rows)
  PROVE  ToldOrToCome(infos, rows)'
<1>1. Wanted' = Wanted  BY DEF Wanted
<1>2. \A i \in Wanted : i \in DOMAIN listed /\ (Among(i, infos) \/ Covered(i, rows))  BY DEF ToldOrToCome
<1>3. \A i \in Wanted : i \in DOMAIN listed' /\ (Among(i, infos) \/ Covered(i, rows)')  BY <1>2, CoveredStays
<1>4. \A n \in DOMAIN infos : infos[n] \in DOMAIN listed'  BY DEF ToldOrToCome
<1> QED  BY <1>1, <1>3, <1>4 DEF ToldOrToCome, Among

LEMMA OthersTimeline == ASSUME Counting' PROVE TimelineInv'
BY DEF Counting, TimelineInv, RowsOnce, NoRowsYet, DetailRows, RunsTold, RowsShown

LEMMA EmptyFacts ==
  /\ DOMAIN <<>> = {} /\ Len(<<>>) = 0 /\ EachOnce(<<>>, <<>>) /\ Ascending(<<>>)
BY DEF EachOnce, Distinct, Ascending

LEMMA ParseTimeline == ASSUME ViewsType, TimelineInv, Parse PROVE TimelineInv'
<1>1. reader' = [reader EXCEPT !.pc = IF Counting THEN "count" ELSE "infos"] /\ answer' = answer /\ reader.pc = "begin"
  BY DEF Parse, Reading
<1>2. reader'.form = reader.form /\ reader'.pc = (IF Counting THEN "count" ELSE "infos")
  BY <1>1 DEF ViewsType, ReaderType
<1>3. Counting' <=> Counting  BY <1>2 DEF Counting
<1>4. CASE Counting  BY <1>3, <1>4, OthersTimeline
<1>5. CASE ~Counting
  <2>1. reader'.pc = "infos"  BY <1>2, <1>5
  <2>2. answer.infos = <<>> /\ answer.rows = <<>>  BY <1>1, <1>5 DEF TimelineInv, NoRowsYet
  <2> QED  BY <1>1, <2>1, <2>2, EmptyFacts DEF TimelineInv, RowsOnce, NoRowsYet, DetailRows, RunsTold, RowsShown, Previewing
<1> QED  BY <1>4, <1>5

LEMMA ChangeTimeline == ASSUME ViewsType, TimelineInv, Change PROVE TimelineInv'
<1>1. /\ reader' = reader /\ answer'.steady = (answer.steady /\ NothingRead)
      /\ answer'.infos = answer.infos /\ answer'.rows = answer.rows /\ answer'.shown = answer.shown
  BY ChangeTyped
<1>2. ~Counting => (NothingRead => reader.pc \in {"begin", "count", "infos"})  BY DEF NothingRead
<1>3. RunsTold'  BY <1>1, <1>2 DEF RunsTold, Previewing, Counting
<1>4. RowsOnce' /\ NoRowsYet' /\ RowsShown'
  BY <1>1 DEF TimelineInv, RowsOnce, NoRowsYet, RowsShown, Counting, EachOnce, Distinct
<1>5. DetailRows'  BY <1>1 DEF TimelineInv, DetailRows, Previewing, OneTask, Ascending
<1> QED  BY <1>3, <1>4, <1>5 DEF TimelineInv

\* A page that fails shows nothing; the others have what they want to preview.
LEMMA DetailTimeline == ASSUME ViewsType, TimelineInv, Detail PROVE ViewsType' /\ TimelineInv' /\ ~Counting'
<1>0. ~Counting /\ reader.form.view = "detail" /\ reader.pc = "infos"  BY DEF Detail, Counting
<1>1. PICK f : f = reader.form  OBVIOUS
<1> DEFINE i == f.page
<1>2. i \in Items  BY <1>0, <1>1 DEF ViewsType, ReaderType, FormOk
<1>3. ListedType' /\ listed' = listed  BY LookingTyped DEF ViewsType, Detail
<1>4. answer.infos = <<>> /\ answer.rows = <<>>  BY <1>0 DEF TimelineInv, NoRowsYet
<1>5. CASE Missing(i)
  <2>1. Reading("failed") /\ "failed" \in Steps /\ answer' = answer  BY <1>1, <1>5 DEF Detail, Steps
  <2>2. ReaderType' /\ reader'.form = reader.form /\ reader'.pc = "failed" /\ (Counting' <=> Counting)
    BY <1>0, <2>1, ReadingTyped DEF ViewsType
  <2>3. AnswerType'  BY <2>1, <2>2, AnswerStays DEF ViewsType
  <2>4. TimelineInv'
    BY <1>4, <2>1, <2>2, EmptyFacts DEF TimelineInv, RowsOnce, NoRowsYet, DetailRows, RunsTold, RowsShown, Previewing
  <2> QED  BY <1>0, <1>3, <2>2, <2>3, <2>4 DEF ViewsType
<1>6. CASE ~Missing(i)
  <2>1. Reading("preview") /\ "preview" \in Steps /\ answer' = [answer EXCEPT !.infos = <<i>>]
    BY <1>1, <1>6 DEF Detail, Steps
  <2>2. ReaderType' /\ reader'.form = reader.form /\ reader'.pc = "preview" /\ (Counting' <=> Counting)
    BY <1>0, <2>1, ReadingTyped DEF ViewsType
  <2>3. i \in DOMAIN listed  BY <1>6 DEF Missing
  <2>4. PICK q : q = <<i>>  OBVIOUS
  <2>5. q \in Seq(Items) /\ Len(q) = 1 /\ DOMAIN q = {1} /\ q[1] = i  BY <1>2, <2>4
  <2>6. /\ answer'.infos = q /\ answer'.rows = <<>> /\ answer'.shown = answer.shown /\ answer'.steady = answer.steady
        /\ answer' \in [counts : [total : Nat, paused : Nat, scheduled : Nat], infos : Seq(Items),
                        rows : Lists, shown : Lists, steady : BOOLEAN]
    BY <1>4, <2>1, <2>4, <2>5 DEF ViewsType, AnswerType
  <2>7. AnswerType'  BY <1>0, <1>4, <2>2, <2>6 DEF ViewsType, AnswerType
  <2>8. EachOnce(q, <<>>) /\ OneTask(q, <<>>)  BY <2>5, EmptyFacts DEF EachOnce, Distinct, OneTask
  <2>9. ToldOrToCome(q, <<>>)
    <3>1. Wanted = {i}  BY <1>0, <1>1 DEF Wanted
    <3> QED  BY <2>3, <2>5, <3>1 DEF ToldOrToCome, Among
  <2>10. ToldOrToCome(q, <<>>)'  BY <1>3, <2>2, <2>9, ToldStays
  <2>11. RowsOnce' /\ DetailRows'  BY <2>6, <2>8 DEF RowsOnce, DetailRows
  <2>12. RunsTold'  BY <2>6, <2>10 DEF RunsTold
  <2>13. NoRowsYet' /\ RowsShown'  BY <2>2 DEF NoRowsYet, RowsShown
  <2> QED  BY <1>0, <1>3, <2>2, <2>7, <2>11, <2>12, <2>13 DEF ViewsType, TimelineInv
<1> QED  BY <1>5, <1>6

LEMMA TimelineTimeline == ASSUME ViewsType, TimelineInv, Timeline PROVE ViewsType' /\ TimelineInv' /\ ~Counting'
<1>0. ~Counting /\ reader.form.view = "timeline" /\ reader.pc = "infos"  BY DEF Timeline, Counting
<1>1. PICK f : f = reader.form  OBVIOUS
<1> DEFINE q == Infos(f)
<1>2. FormOk(f)  BY <1>1 DEF ViewsType, ReaderType
<1>3. ListedType' /\ listed' = listed  BY LookingTyped DEF ViewsType, Timeline
<1>4. answer.infos = <<>> /\ answer.rows = <<>>  BY <1>0 DEF TimelineInv, NoRowsYet
<1>5. IsInfos(q, f) /\ q \in Seq(Items)  BY <1>2, InfosTyped DEF ViewsType
<1>6. Matching(f) = DOMAIN listed  BY <1>0, <1>1, <1>2, DefaultMatches DEF FormOk
<1>7. Reading("preview") /\ "preview" \in Steps /\ answer' = [answer EXCEPT !.infos = q]
  BY <1>1 DEF Timeline, Steps
<1> HIDE DEF q
<1>8. ReaderType' /\ reader'.form = reader.form /\ reader'.pc = "preview" /\ (Counting' <=> Counting)
  BY <1>0, <1>7, ReadingTyped DEF ViewsType
<1>9. /\ answer'.infos = q /\ answer'.rows = <<>> /\ answer'.shown = answer.shown /\ answer'.steady = answer.steady
      /\ answer' \in [counts : [total : Nat, paused : Nat, scheduled : Nat], infos : Seq(Items),
                      rows : Lists, shown : Lists, steady : BOOLEAN]
  BY <1>4, <1>5, <1>7 DEF ViewsType, AnswerType
<1>10. AnswerType'  BY <1>0, <1>4, <1>8, <1>9 DEF ViewsType, AnswerType
<1>11. EachOnce(q, <<>>)  BY <1>5, EmptyFacts DEF IsInfos, EachOnce, Distinct
<1>12. ToldOrToCome(q, <<>>)
  <2>1. Wanted = DOMAIN listed  BY <1>0 DEF Wanted
  <2>2. \A n \in DOMAIN q : q[n] \in DOMAIN listed  BY <1>5, <1>6 DEF IsInfos
  <2>3. \A i \in DOMAIN listed : Among(i, q)  BY <1>5, <1>6 DEF IsInfos, Among
  <2> QED  BY <2>1, <2>2, <2>3 DEF ToldOrToCome
<1>13. PICK qq : qq = q  OBVIOUS
<1>14. ToldOrToCome(qq, <<>>)'  BY <1>3, <1>8, <1>12, <1>13, ToldStays
<1>15. RowsOnce'  BY <1>9, <1>11 DEF RowsOnce
<1>16. RunsTold'  BY <1>9, <1>13, <1>14 DEF RunsTold
<1>17. NoRowsYet' /\ RowsShown' /\ DetailRows'  BY <1>0, <1>8 DEF NoRowsYet, RowsShown, DetailRows
<1> QED  BY <1>0, <1>3, <1>8, <1>10, <1>15, <1>16, <1>17 DEF ViewsType, TimelineInv

LEMMA JoinCovers ==
  ASSUME NEW r \in Seq(Row), NEW s \in Seq(Row), NEW i, Covered(i, r) \/ Covered(i, s)
  PROVE  Covered(i, r \o s)
<1> DEFINE q == r \o s
<1>1. Len(r) \in Nat /\ DOMAIN r = 1..Len(r) /\ Len(s) \in Nat /\ DOMAIN s = 1..Len(s)  OBVIOUS
<1>2. DOMAIN q = 1..(Len(r) + Len(s)) /\ (\A n \in DOMAIN r : q[n] = r[n])
      /\ \A n \in DOMAIN s : q[Len(r) + n] = s[n]
  <2>1. q \in Seq(Row) /\ Len(q) = Len(r) + Len(s)
        /\ \A n \in 1..Len(r) + Len(s) : q[n] = IF n <= Len(r) THEN r[n] ELSE s[n - Len(r)]
    BY ConcatProperties
  <2> HIDE DEF q
  <2>2. \A n \in DOMAIN r : n \in 1..Len(r) + Len(s) /\ n <= Len(r)  BY <1>1
  <2>3. \A n \in DOMAIN s : Len(r) + n \in 1..Len(r) + Len(s) /\ ~(Len(r) + n <= Len(r)) /\ Len(r) + n - Len(r) = n
    BY <1>1
  <2>4. DOMAIN q = 1..(Len(r) + Len(s))  BY <2>1
  <2> QED  BY <2>1, <2>2, <2>3, <2>4
<1> HIDE DEF q
<1>3. ASSUME NEW t \in Upcoming(i)
      PROVE  \/ \E n \in DOMAIN q : q[n] = [id |-> i, time |-> t]
             \/ Cardinality({u \in Upcoming(i) : u < t}) >= PerTask
  <2>1. \A n \in DOMAIN r : n \in DOMAIN q /\ q[n] = r[n]  BY <1>1, <1>2
  <2>2. \A n \in DOMAIN s : Len(r) + n \in DOMAIN q /\ q[Len(r) + n] = s[n]  BY <1>1, <1>2
  <2>3. CASE Covered(i, r)  BY <2>1, <2>3 DEF Covered
  <2>4. CASE Covered(i, s)  BY <2>2, <2>4 DEF Covered
  <2> QED  BY <2>3, <2>4
<1> QED  BY <1>3 DEF Covered, q

\* The rows of a task that was in none of them, added to the others.
LEMMA JoinOnce ==
  ASSUME NEW infos \in Seq(Items), infos # <<>>, NEW rows \in Seq(Row), EachOnce(infos, rows),
         NEW r, RowsFacts(r, infos[1])
  PROVE  EachOnce(Tail(infos), rows \o r) /\ rows \o r \in Seq(Row)
<1> DEFINE q == rows \o r
           i == infos[1]
           tl == Tail(infos)
           R == Len(rows)
           S == Len(r)
<1>1. R \in Nat /\ DOMAIN rows = 1..R /\ r \in Seq(Row) /\ S \in Nat /\ DOMAIN r = 1..S  BY DEF RowsFacts
<1>2. q \in Seq(Row) /\ Len(q) = R + S
      /\ \A n \in 1..R + S : q[n] = IF n <= R THEN rows[n] ELSE r[n - R]
  BY <1>1, ConcatProperties
<1>3. Len(infos) \in Nat /\ DOMAIN infos = 1..Len(infos) /\ 1 \in DOMAIN infos  OBVIOUS
<1>4. tl \in Seq(Items) /\ DOMAIN tl = 1..(Len(infos) - 1) /\ \A n \in DOMAIN tl : tl[n] = infos[n + 1]  OBVIOUS
<1>5. (\A n \in DOMAIN r : r[n].id = i) /\ Ascending(r)  BY DEF RowsFacts
<1>6. Distinct(infos) /\ Distinct(rows) /\ \A n \in DOMAIN rows, k \in DOMAIN infos : rows[n].id # infos[k]
  BY DEF EachOnce
<1> HIDE DEF q, i, tl, R, S
<1>7. DOMAIN q = 1..(R + S)  BY <1>1, <1>2
<1>8. \A n \in DOMAIN tl : n + 1 \in DOMAIN infos /\ tl[n] = infos[n + 1] /\ infos[n + 1] # i
  <2> SUFFICES ASSUME NEW n \in DOMAIN tl PROVE n + 1 \in DOMAIN infos /\ tl[n] = infos[n + 1] /\ infos[n + 1] # i
    OBVIOUS
  <2>1. n + 1 \in DOMAIN infos /\ n + 1 # 1 /\ tl[n] = infos[n + 1]  BY <1>3, <1>4
  <2> QED  BY <1>3, <1>6, <2>1 DEF Distinct, i
<1>9. Distinct(tl)
  <2>1. \A m, n \in DOMAIN tl : infos[m + 1] = infos[n + 1] => m + 1 = n + 1  BY <1>6, <1>8 DEF Distinct
  <2>2. \A m \in DOMAIN tl : m \in Nat  BY <1>3, <1>4
  <2> QED  BY <1>8, <2>1, <2>2 DEF Distinct
<1>10. \A n \in DOMAIN q : (n \in DOMAIN rows /\ q[n] = rows[n]) \/ (n - R \in DOMAIN r /\ q[n] = r[n - R])
  BY <1>1, <1>2, <1>7
<1>11. \A n \in DOMAIN q, k \in DOMAIN tl : q[n].id # tl[k]
  BY <1>5, <1>6, <1>8, <1>10
<1>12. \A m, n \in DOMAIN r : r[m] = r[n] => m = n
  <2> SUFFICES ASSUME NEW m \in DOMAIN r, NEW n \in DOMAIN r, r[m] = r[n] PROVE m = n  OBVIOUS
  <2>1. r[m].time \in Nat
    <3>1. r[m] \in Row  BY <1>1
    <3> QED  BY <3>1 DEF Row
  <2>2. ~(m < n) /\ ~(n < m)  BY <1>5, <2>1 DEF Ascending
  <2> QED  BY <1>1, <2>2
<1>13. Distinct(q)
  <2> SUFFICES ASSUME NEW m \in DOMAIN q, NEW n \in DOMAIN q, q[m] = q[n] PROVE m = n  BY DEF Distinct
  <2>0. m \in Int /\ n \in Int  BY <1>7
  <2>1. CASE m \in DOMAIN rows /\ q[m] = rows[m] /\ n \in DOMAIN rows /\ q[n] = rows[n]
    BY <2>1, <1>6 DEF Distinct
  <2>2. CASE m - R \in DOMAIN r /\ q[m] = r[m - R] /\ n - R \in DOMAIN r /\ q[n] = r[n - R]
    <3>1. m - R = n - R  BY <2>2, <1>12
    <3> QED  BY <2>0, <3>1, <1>1
  <2>3. CASE m \in DOMAIN rows /\ q[m] = rows[m] /\ n - R \in DOMAIN r /\ q[n] = r[n - R]
    <3>1. rows[m].id # i /\ r[n - R].id = i  BY <2>3, <1>3, <1>5, <1>6 DEF i
    <3> QED  BY <2>3, <3>1
  <2>4. CASE n \in DOMAIN rows /\ q[n] = rows[n] /\ m - R \in DOMAIN r /\ q[m] = r[m - R]
    <3>1. rows[n].id # i /\ r[m - R].id = i  BY <2>4, <1>3, <1>5, <1>6 DEF i
    <3> QED  BY <2>4, <3>1
  <2> QED  BY <1>10, <2>1, <2>2, <2>3, <2>4
<1> QED  BY <1>2, <1>9, <1>11, <1>13 DEF EachOnce, q, tl

LEMMA PreviewTimeline == ASSUME ViewsType, TimelineInv, PreviewOne PROVE ViewsType' /\ TimelineInv' /\ ~Counting'
<1>0. ~Counting /\ reader.pc = "preview"  BY DEF PreviewOne, ViewsType, ReaderType
<1>1. PICK infos, rows : infos = answer.infos /\ rows = answer.rows  OBVIOUS
<1>2. infos \in Seq(Items) /\ infos # <<>> /\ rows \in Seq(Row) /\ EachOnce(infos, rows)
  BY <1>0, <1>1 DEF PreviewOne, ViewsType, AnswerType, TimelineInv, RowsOnce
<1> DEFINE i == infos[1]
           r == Rows(i)
           q == rows \o r
           tl == Tail(infos)
<1>3. ListedType' /\ listed' = listed /\ reader' = reader  BY LookingTyped DEF ViewsType, PreviewOne
<1>4. i \in Items /\ Head(infos) = i /\ tl \in Seq(Items)  BY <1>2
<1>5. RowsFacts(r, i)  BY <1>4, RowsAre DEF ViewsType
<1>6. answer' = [answer EXCEPT !.infos = tl, !.rows = q]  BY <1>1, <1>4 DEF PreviewOne
<1>7. EachOnce(tl, q) /\ q \in Seq(Row)  BY <1>2, <1>5, JoinOnce
<1> HIDE DEF r
<1>8. r \in Seq(Row)  BY <1>5 DEF RowsFacts
<1>9. ASSUME answer.steady PROVE ToldOrToCome(tl, q)
  <2>1. ToldOrToCome(infos, rows)  BY <1>0, <1>1, <1>9 DEF TimelineInv, RunsTold, Previewing
  <2>2. DOMAIN infos = 1..Len(infos) /\ Len(infos) \in Nat /\ 1 \in DOMAIN infos
        /\ DOMAIN tl = 1..(Len(infos) - 1) /\ \A n \in DOMAIN tl : tl[n] = infos[n + 1]
    BY <1>2
  <2>3. \A n \in DOMAIN tl : n + 1 \in DOMAIN infos  BY <2>2
  <2>4. \A n \in DOMAIN tl : tl[n] \in DOMAIN listed  BY <2>1, <2>2, <2>3 DEF ToldOrToCome
  <2>5. ASSUME NEW j \in Wanted PROVE j \in DOMAIN listed /\ (Among(j, tl) \/ Covered(j, q))
    <3>1. j \in DOMAIN listed /\ (Among(j, infos) \/ Covered(j, rows))  BY <2>1 DEF ToldOrToCome
    <3>2. CASE Covered(j, rows)  BY <1>2, <1>8, <3>1, <3>2, JoinCovers
    <3>3. CASE Among(j, infos)
      <4>1. PICK n \in DOMAIN infos : infos[n] = j  BY <3>3 DEF Among
      <4>2. CASE n = 1
        <5>1. j = i  BY <4>1, <4>2
        <5>2. Covered(j, r)  BY <1>5, <3>1, <5>1 DEF RowsFacts
        <5> QED  BY <1>2, <1>8, <3>1, <5>2, JoinCovers
      <4>3. CASE n # 1
        <5>1. n - 1 \in DOMAIN tl /\ n - 1 + 1 = n  BY <2>2, <4>1, <4>3
        <5>2. tl[n - 1] = j  BY <2>2, <4>1, <5>1
        <5> QED  BY <3>1, <5>1, <5>2 DEF Among
      <4> QED  BY <4>2, <4>3
    <3> QED  BY <3>1, <3>2, <3>3
  <2> QED  BY <2>4, <2>5 DEF ToldOrToCome
<1>10. ASSUME reader.form.view = "detail" PROVE OneTask(tl, q)
  <2>1. OneTask(infos, rows)  BY <1>0, <1>1, <1>10 DEF TimelineInv, DetailRows, Previewing
  <2>2. rows = <<>> /\ Len(infos) = 1  BY <1>2, <2>1 DEF OneTask
  <2>3. q = r  BY <1>8, <2>2, ConcatEmptySeq
  <2>4. Len(tl) = 0 /\ tl = <<>>
    <3>1. Len(tl) = 0  BY <1>2, <2>2
    <3> QED  BY <1>4, <3>1, EmptySeq
  <2>5. Ascending(r)  BY <1>5 DEF RowsFacts
  <2> QED  BY <2>3, <2>4, <2>5 DEF OneTask
<1> HIDE DEF q, tl
<1>11. /\ answer'.infos = tl /\ answer'.rows = q /\ answer'.shown = answer.shown /\ answer'.steady = answer.steady
       /\ answer' \in [counts : [total : Nat, paused : Nat, scheduled : Nat], infos : Seq(Items),
                       rows : Lists, shown : Lists, steady : BOOLEAN]
  BY <1>4, <1>6, <1>7 DEF ViewsType, AnswerType, Lists
<1>12. Counting' <=> Counting  BY <1>3 DEF Counting
<1>13. ReaderType'  BY <1>3 DEF ViewsType, ReaderType, FormOk, Counting
<1>14. AnswerType'  BY <1>0, <1>7, <1>11, <1>12 DEF ViewsType, AnswerType
<1>15. PICK qq, tt : qq = q /\ tt = tl  OBVIOUS
<1>16. RowsOnce'  BY <1>7, <1>11 DEF RowsOnce
<1>17. DetailRows'  BY <1>3, <1>10, <1>11 DEF DetailRows
<1>18. RunsTold'
  <2>1. answer.steady => ToldOrToCome(tt, qq)'  BY <1>3, <1>9, <1>15, ToldStays
  <2> QED  BY <1>11, <1>15, <2>1 DEF RunsTold
<1>19. NoRowsYet' /\ RowsShown'  BY <1>0, <1>3 DEF NoRowsYet, RowsShown
<1> QED  BY <1>0, <1>3, <1>12, <1>13, <1>14, <1>16, <1>17, <1>18, <1>19 DEF ViewsType, TimelineInv

LEMMA ShowTimeline == ASSUME ViewsType, TimelineInv, ShowRows PROVE ViewsType' /\ TimelineInv' /\ ~Counting'
<1>0. ~Counting /\ reader.pc = "preview" /\ answer.infos = <<>>  BY DEF ShowRows, ViewsType, ReaderType
<1>1. PICK rows : rows = answer.rows  OBVIOUS
<1>2. rows \in Seq(Row) /\ EachOnce(<<>>, rows)
  BY <1>0, <1>1 DEF ViewsType, AnswerType, TimelineInv, RowsOnce
<1> DEFINE s == IF reader.form.view = "timeline" THEN Limited(rows) ELSE rows
<1>3. Reading("shown") /\ "shown" \in Steps /\ answer' = [answer EXCEPT !.shown = s]
  BY <1>1 DEF ShowRows, Steps
<1>4. s \in Seq(Row)  BY <1>2, LimitedAre DEF LimitedFacts, EachOnce
<1>5. ReaderType' /\ reader'.form = reader.form /\ reader'.pc = "shown" /\ (Counting' <=> Counting)
  BY <1>0, <1>3, ReadingTyped DEF ViewsType
<1>6. ListedType' /\ listed' = listed  BY LookingTyped DEF ViewsType, ShowRows
<1>7. s = IF reader'.form.view = "timeline" THEN Limited(rows) ELSE rows  BY <1>5
<1> HIDE DEF s
<1>8. /\ answer'.infos = <<>> /\ answer'.rows = rows /\ answer'.shown = s /\ answer'.steady = answer.steady
      /\ answer' \in [counts : [total : Nat, paused : Nat, scheduled : Nat], infos : Seq(Items),
                      rows : Lists, shown : Lists, steady : BOOLEAN]
  BY <1>0, <1>1, <1>3, <1>4 DEF ViewsType, AnswerType, Lists
<1>9. AnswerType'  BY <1>0, <1>2, <1>4, <1>5, <1>8 DEF AnswerType
<1>10. RowsOnce'  BY <1>2, <1>8 DEF RowsOnce
<1>11. DetailRows'
  <2>1. reader.form.view = "detail" => OneTask(<<>>, rows)
    BY <1>0, <1>1 DEF TimelineInv, DetailRows, Previewing
  <2> QED  BY <1>5, <1>8, <2>1 DEF DetailRows
<1>12. RunsTold'
  <2>1. answer.steady => ToldOrToCome(<<>>, rows)  BY <1>0, <1>1 DEF TimelineInv, RunsTold, Previewing
  <2>2. answer.steady => ToldOrToCome(<<>>, rows)'  BY <1>5, <1>6, <2>1, ToldStays
  <2> QED  BY <1>8, <2>2 DEF RunsTold
<1>13. NoRowsYet'  BY <1>5 DEF NoRowsYet
<1>14. RowsShown'  BY <1>7, <1>8 DEF RowsShown
<1> QED  BY <1>0, <1>5, <1>6, <1>9, <1>10, <1>11, <1>12, <1>13, <1>14 DEF ViewsType, TimelineInv

-----------------------------------------------------------------------------
(* The theorems about views *)

ViewsInv == ViewsType /\ TableInv /\ TimelineInv

\* The requests of the model, and what they have got together before they begin.
LEMMA FormsOk ==
  ASSUME NEW form \in Forms
  PROVE  FormOk(form) /\ (form.view = "table" => form.page = 1 \/ form.page = 9)
<1>1. /\ {"any", "paused", "scheduled"} \subseteq {"any", "paused", "scheduled", "late"}
      /\ Anyone \in Nat /\ \A i \in Items : i \in Nat /\ Executor[i] \in Nat
  BY ViewsConstants DEF Anyone
<1>2. ASSUME NEW f \in Filters, NEW d \in BOOLEAN, NEW p \in {1, 9}, NEW k \in SortKeys,
             form = Form("table", f[1], f[2], k, d, p)
      PROVE  FormOk(form) /\ form.view = "table" /\ (form.page = 1 \/ form.page = 9)
  <2>1. f[1] \in {"any", "paused", "scheduled"} /\ f[2] \in Nat  BY <1>1 DEF Filters
  <2> QED  BY <1>2, <2>1 DEF Form, FormOk, FormType
<1>3. PICK plain : plain = Default  OBVIOUS
<1>4. plain = [view |-> "timeline", state |-> "any", executor |-> Anyone, sort_by |-> "next_run_time",
           descending |-> FALSE, page |-> 1]
  BY <1>3 DEF Default, Form
<1>5. "next_run_time" \in SortKeys  BY DEF SortKeys
<1>6. CASE form = [plain EXCEPT !.view = "table", !.state = "late"]
  <2>1. form = [view |-> "table", state |-> "late", executor |-> Anyone, sort_by |-> "next_run_time",
                descending |-> FALSE, page |-> 1]
    BY <1>4, <1>6
  <2> QED  BY <1>1, <1>5, <2>1 DEF FormOk, FormType
<1>7. CASE form = [plain EXCEPT !.view = "overview"]
  <2>1. form = [view |-> "overview", state |-> "any", executor |-> Anyone, sort_by |-> "next_run_time",
                descending |-> FALSE, page |-> 1]
    BY <1>4, <1>7
  <2> QED  BY <1>1, <1>5, <2>1 DEF FormOk, FormType
<1>8. ASSUME NEW i \in Items, form = [plain EXCEPT !.view = "detail", !.page = i]
      PROVE  FormOk(form) /\ form.view # "table"
  <2>1. form = [view |-> "detail", state |-> "any", executor |-> Anyone, sort_by |-> "next_run_time",
                descending |-> FALSE, page |-> i]
    BY <1>4, <1>8
  <2> QED  BY <1>1, <1>5, <2>1 DEF FormOk, FormType
<1>9. CASE form = plain  BY <1>1, <1>4, <1>5, <1>9 DEF FormOk, FormType
<1>10. CASE form \in TableForms
  <2>1. PICK f \in Filters, e \in BOOLEAN, p \in {1, 9}, k \in SortKeys : form = Form("table", f[1], f[2], k, e, p)
    BY <1>10 DEF TableForms, SortKeys
  <2> QED  BY <1>2, <2>1
<1>11. \/ form \in TableForms
       \/ form \in {[Default EXCEPT !.view = "table", !.state = "late"], Default, [Default EXCEPT !.view = "overview"]}
       \/ \E i \in Items : form = [Default EXCEPT !.view = "detail", !.page = i]
  BY DEF Forms
<1> QED  BY <1>3, <1>6, <1>7, <1>8, <1>9, <1>10, <1>11

LEMMA ViewsBegin == ASSUME ViewsInit PROVE ViewsInv
<1>1. PICK form \in Forms, there \in SUBSET Items :
        \E tasks \in [there -> {None} \cup UNION {Instants[i] : i \in Items}] :
          /\ \A i \in there : tasks[i] \in {None} \cup Instants[i]
          /\ ViewsStart(Request(form), tasks)
  BY DEF ViewsInit
<1>2. PICK tasks \in [there -> {None} \cup UNION {Instants[i] : i \in Items}] :
        (\A i \in there : tasks[i] \in {None} \cup Instants[i]) /\ ViewsStart(Request(form), tasks)
  BY <1>1
<1>3. FormOk(form) /\ (form.view = "table" => form.page = 1 \/ form.page = 9)  BY FormsOk
<1>4. reader = [form |-> form, pc |-> "begin"] /\ listed = tasks  BY <1>2 DEF ViewsStart, Request
<1>5. PICK b \in BOOLEAN : b = (form.view # "table" \/ form.page = 1)  OBVIOUS
<1>6. answer = [counts |-> NoCounts, infos |-> <<>>, rows |-> <<>>, shown |-> <<>>, steady |-> b]
  BY <1>2, <1>5 DEF ViewsStart, Request
<1>7. reader.form = form /\ reader.pc = "begin"  BY <1>4
<1>8. ListedType  BY <1>2, <1>4 DEF ListedType
<1>9. ReaderType  BY <1>3, <1>4, <1>7 DEF ReaderType, FormOk, Counting
<1>10. <<>> \in Seq(Items) /\ <<>> \in Seq(Row) /\ <<>> \in Lists  BY DEF Lists
<1>11. NoCounts \in [total : Nat, paused : Nat, scheduled : Nat]  BY DEF NoCounts
<1>12. AnswerType  BY <1>6, <1>10, <1>11 DEF AnswerType
<1>13. answer.infos = <<>> /\ answer.rows = <<>> /\ answer.shown = <<>> /\ answer.steady = b  BY <1>6
<1>14. TableInv
  <2>1. PagesSoFar  BY <1>3, <1>5, <1>7, <1>13 DEF PagesSoFar
  <2> QED  BY <1>7, <2>1 DEF TableInv, CountsNow, ListNow, OnAPage, PagesToHere, RecentShown
<1>15. TimelineInv
  BY <1>7, <1>13, EmptyFacts DEF TimelineInv, RowsOnce, NoRowsYet, DetailRows, RunsTold, RowsShown, Previewing
<1> QED  BY <1>8, <1>9, <1>12, <1>14, <1>15 DEF ViewsInv, ViewsType

LEMMA ViewsStep == ASSUME ViewsInv, [ViewsNext]_views PROVE ViewsInv'
<1> USE DEF ViewsInv
<1>1. CASE Parse  BY <1>1, ParseTable, ParseTimeline
<1>2. CASE CountTasks  BY <1>2, CountTable, OthersTimeline
<1>3. CASE Table  BY <1>3, TableTable, OthersTimeline
<1>4. CASE Overview  BY <1>4, OverviewTable, OthersTimeline
<1>5. CASE FollowNext  BY <1>5, FollowTable, OthersTimeline
<1>6. CASE Detail  BY <1>6, DetailTimeline, OthersTable
<1>7. CASE Timeline  BY <1>7, TimelineTimeline, OthersTable
<1>8. CASE PreviewOne  BY <1>8, PreviewTimeline, OthersTable
<1>9. CASE ShowRows  BY <1>9, ShowTimeline, OthersTable
<1>10. CASE Change  BY <1>10, ChangeTyped, ChangeTable, ChangeTimeline
<1>11. CASE UNCHANGED views
  <2>1. listed' = listed /\ reader' = reader /\ answer' = answer  BY <1>11 DEF views
  <2>2. ViewsType'
    BY <2>1 DEF ViewsType, ListedType, ReaderType, AnswerType, FormOk, Counting
  <2>3. TimelineInv'
    <3>1. PICK infos, rows : infos = answer.infos /\ rows = answer.rows  OBVIOUS
    <3>2. ToldOrToCome(infos, rows) => ToldOrToCome(infos, rows)'  BY <2>1, ToldStays
    <3>3. RunsTold'  BY <2>1, <3>1, <3>2 DEF TimelineInv, RunsTold, Previewing, Counting
    <3> QED  BY <2>1, <3>3 DEF TimelineInv, RowsOnce, NoRowsYet, DetailRows, RowsShown, Counting, Previewing
  <2>4. TableInv'
    <3>1. PICK f : f = reader.form  OBVIOUS
    <3>2. Infos(f)' = Infos(f) /\ Counts(Infos(Default))' = Counts(Infos(Default))  BY <2>1, ListStays, CountsStay
    <3> QED  BY <2>1, <3>1, <3>2
          DEF TableInv, CountsNow, ListNow, OnAPage, PagesSoFar, PagesToHere, RecentShown, Counting
  <2> QED  BY <2>2, <2>3, <2>4
<1> QED  BY <1>1, <1>2, <1>3, <1>4, <1>5, <1>6, <1>7, <1>8, <1>9, <1>10, <1>11 DEF ViewsNext, ReaderNext

\* What a request for a view of the tasks has read and shown at each of its
\* calls is what the tasks make of it.
THEOREM ViewsInvariant == ViewsSpec => []ViewsInv
<1>1. ViewsInit => ViewsInv  BY ViewsBegin
<1>2. ViewsInv /\ [ViewsNext]_views => ViewsInv'  BY ViewsStep
<1> QED  BY <1>1, <1>2, PTL DEF ViewsSpec

\* Whoever follows the links through the pages of the task table has seen every
\* task that matches once and in order (_helpers.py:333).
THEOREM PagesAreTheList == ViewsSpec => []PagesCoverTheList
<1>1. ViewsInv => PagesCoverTheList  BY TableInvImplies DEF ViewsInv, ViewsType
<1> QED  BY <1>1, ViewsInvariant, PTL

\* The timeline is in the order of time, leaves out nothing that is earlier than
\* what it shows, and has the next runs of every task (controllers/timeline.py:74).
THEOREM TimelineIsNext == ViewsSpec => []TimelineShowsTheNext
<1>1. ViewsInv => TimelineShowsTheNext  BY TimelineInvImplies DEF ViewsInv, ViewsType
<1> QED  BY <1>1, ViewsInvariant, PTL
==============================================================================
