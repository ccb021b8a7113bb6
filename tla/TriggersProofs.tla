--------------------------- MODULE TriggersProofs ----------------------------
(***************************************************************************)
(* What Triggers and CronTrigger promise, for any triggers and instants:   *)
(*   RunsAdvance       no run time comes twice or out of order, for        *)
(*                     triggers of every kind, alone or combined, whatever *)
(*                     is drawn;                                           *)
(*   FirstIsFound      the first answer passes over no instant;            *)
(*   WalkFindsTheNext  the walk of a cron trigger finds the next match.    *)
(***************************************************************************)
EXTENDS Triggers, FiniteSetTheorems, WellFoundedInduction, SequenceTheorems, TLAPS

-----------------------------------------------------------------------------
(* Least and greatest instants *)

HasSmallest(X) == \E s \in X : \A t \in X : t \subseteq s => t = s
LEMMA SmallestSubset ==
  ASSUME NEW S, IsFiniteSet(S), NEW X \in SUBSET SUBSET S, X # {}
  PROVE  HasSmallest(X)
<1>1. IsWellFoundedOn(StrictSubsetOrdering(S), SUBSET S)
  BY FS_StrictSubsetOrderingWellFounded, FS_FiniteSubsetsOfFinite
<1>2. PICK s \in X : \A t \in X : <<t, s>> \notin StrictSubsetOrdering(S)
  BY <1>1, WFMin
<1>3. ASSUME NEW t \in X, t \subseteq s, t # s
      PROVE  FALSE
  <2>1. t \in FiniteSubsetsOf(S) /\ s \in FiniteSubsetsOf(S)
    BY FS_FiniteSubsetsOfFinite
  <2>2. <<t, s>> \in StrictSubsetOrdering(S)
    BY <1>3, <2>1 DEF StrictSubsetOrdering
  <2> QED
    BY <1>2, <2>2
<1> QED
  BY <1>3 DEF HasSmallest

LEMMA MaxExists ==
  ASSUME NEW D, IsFiniteSet(D), D \subseteq Int, D # {}
  PROVE  Max(D) \in D /\ \A y \in D : y <= Max(D)
<1> DEFINE HasMax(s) == \E x \in s : \A y \in s : x >= y
           X == {s \in SUBSET D : s # {} /\ ~HasMax(s)}
<1>1. X = {}
  <2> SUFFICES ASSUME X # {}
               PROVE  FALSE
    OBVIOUS
  <2>1. X \subseteq SUBSET D
    OBVIOUS
  <2>2. HasSmallest(X)
    <3> HIDE DEF X
    <3> QED
      BY <2>1, SmallestSubset
  <2>3. PICK s \in X : \A t \in X : t \subseteq s => t = s
    BY <2>2 DEF HasSmallest
  <2>4. PICK x \in s : TRUE
    OBVIOUS
  <2>5. x \in Int /\ s \subseteq Int
    OBVIOUS
  <2>6. CASE s = {x}
    BY <2>5, <2>6
  <2>7. CASE s # {x}
    <3>1. s \ {x} # {} /\ s \ {x} \in SUBSET D /\ s \ {x} # s
      BY <2>7
    <3>2. HasMax(s \ {x})
      BY <2>3, <3>1
    <3>3. PICK y \in s \ {x} : \A z \in s \ {x} : y >= z
      BY <3>2
    <3>4. y \in Int /\ \A z \in s : z \in Int
      BY <2>5
    <3>5. CASE y >= x
      BY <3>3, <3>5
    <3>6. CASE ~(y >= x)
      BY <2>5, <3>3, <3>4, <3>6
    <3> QED
      BY <3>5, <3>6
  <2> QED
    BY <2>6, <2>7
<1>2. HasMax(D)
  BY <1>1
<1> QED
  BY <1>2 DEF Max

LEMMA MinExists ==
  ASSUME NEW T \in SUBSET Nat, T # {}
  PROVE  Min(T) \in T /\ \A y \in T : Min(T) <= y
<1> DEFINE Less == OpToRel(<, Nat)
<1>1. IsWellFoundedOn(Less, Nat)
  BY NatLessThanWellFounded
<1>2. \A x, y \in Nat : <<y, x>> \in Less <=> y < x
  BY DEF OpToRel
<1> HIDE DEF Less
<1>3. PICK x \in T : \A y \in T : <<y, x>> \notin Less
  BY <1>1, WFMin
<1>4. \A y \in T : x <= y
  <2> SUFFICES ASSUME NEW y \in T, ~(x <= y)
               PROVE  FALSE
    OBVIOUS
  <2>1. x \in Nat /\ y \in Nat /\ y < x
    OBVIOUS
  <2>2. <<y, x>> \in Less
    BY <1>2, <2>1
  <2> QED
    BY <1>3, <2>2
<1> QED
  BY <1>4 DEF Min

-----------------------------------------------------------------------------
(* Intervals *)

\* The next grid point from an instant on: none lies between.
LEMMA MultipleBelow ==
  ASSUME NEW n \in Nat \ {0}, NEW k \in Int, NEW q \in Int, n * k < n * q
  PROVE  n * k <= n * q - n
<1>1. k < q
  <2> SUFFICES ASSUME q <= k PROVE FALSE
    OBVIOUS
  <2>1. k - q \in Nat /\ n * (k - q) >= 0
    OBVIOUS
  <2> QED
    BY <2>1
<1>2. q - 1 - k \in Nat /\ n * (q - 1 - k) >= 0
  BY <1>1
<1> QED
  BY <1>2

LEMMA DivisionFacts ==
  ASSUME NEW n \in Nat \ {0}, NEW d \in Int
  PROVE  /\ d \div n \in Int
         /\ n * (d \div n) <= d /\ d < n * (d \div n) + n
         /\ d % n = 0 <=> d = n * (d \div n)
         /\ \A k \in Int : (n * k) % n = 0
OBVIOUS

LEMMA NextMultiple ==
  ASSUME NEW n \in Nat \ {0}, NEW d \in Nat
  PROVE  /\ CeilDiv(d, n) \in Int /\ n * CeilDiv(d, n) \in Nat
         /\ d <= n * CeilDiv(d, n) /\ (n * CeilDiv(d, n)) % n = 0
         /\ \A e \in Int : d <= e /\ e < n * CeilDiv(d, n) => e % n # 0
<1> DEFINE q == CeilDiv(d, n)
<1>1. q \in Int /\ n * q <= d + n - 1 /\ d + n - 1 < n * q + n /\ (n * q) % n = 0
  BY DivisionFacts, d + n - 1 \in Int DEF CeilDiv
<1> HIDE DEF q
<1>2. n * q \in Int
  BY <1>1
<1>3. d <= n * q
  BY <1>1, <1>2
<1>4. ASSUME NEW e \in Int, d <= e, e < n * q, e % n = 0
      PROVE  FALSE
  <2>1. e \div n \in Int /\ e = n * (e \div n)
    BY <1>4, DivisionFacts
  <2> DEFINE k == e \div n
  <2> HIDE DEF k
  <2>2. n * k <= n * q - n
    BY <1>1, <1>4, <2>1, MultipleBelow DEF k
  <2> QED
    BY <1>1, <1>2, <1>4, <2>1, <2>2 DEF k
<1> QED
  BY <1>1, <1>2, <1>3, <1>4 DEF q

-----------------------------------------------------------------------------
(* What one trigger answers *)

LEMMA PlainFacts ==
  ASSUME NEW t \in Plain
  PROVE  \/ t.kind = "date" /\ t.run_at \in Nat /\ "jitter" \notin DOMAIN t
         \/ /\ t.kind = "interval" /\ t.start_at \in Nat /\ t.interval \in Nat \ {0} /\ t.end_at \in Nat
            /\ t.jitter \in Nat /\ "jitter" \in DOMAIN t
         \/ /\ t.kind = "cron" /\ t.times \in SUBSET Nat /\ IsFiniteSet(t.times)
            /\ t.jitter \in Nat /\ "jitter" \in DOMAIN t
         \/ t.kind = "shutdown"
BY DEF Plain

LEMMA JitterFacts ==
  ASSUME NEW x \in Nat, NEW j \in Nat, NEW y \in Jittered(x, j)
  PROVE  y \in Nat /\ x <= y /\ (j = 0 => y = x)
BY TriggersAssumption, CronAssumption DEF Jittered

\* The greatest instant of a cron trigger is its last, and no jitter passes it.
LEMMA CronFacts ==
  ASSUME NEW t \in Plain, t.kind = "cron", NEW prev \in Nat \cup {NoValue}, NEW at \in Nat,
         NEW x \in CronNext(t, prev, at), x # NoValue
  PROVE  \E y \in t.times :
           /\ y \in Nat /\ x \in Nat /\ FirstInstant(prev, at) <= y /\ y <= x
           /\ \A z \in t.times : FirstInstant(prev, at) <= z => y <= z
           /\ t.jitter = 0 => x = y
<1> DEFINE first == FirstInstant(prev, at)
           later == {z \in t.times : z >= first}
<1>1. t.times \in SUBSET Nat /\ IsFiniteSet(t.times) /\ t.jitter \in Nat
  BY PlainFacts
<1>2. later # {} /\ later \in SUBSET Nat /\ later \subseteq t.times
  BY <1>1 DEF CronNext
<1>3. PICK y \in Jittered(Min(later), t.jitter) : x = Smaller(y, Max(t.times))
  BY <1>2 DEF CronNext
<1>4. Min(later) \in later /\ \A z \in later : Min(later) <= z
  BY <1>2, MinExists
<1>5. Max(t.times) \in t.times /\ \A z \in t.times : z <= Max(t.times)
  <2>1. t.times \subseteq Int /\ t.times # {}
    BY <1>1, <1>2
  <2> QED
    BY <1>1, <2>1, MaxExists
<1> DEFINE least == Min(later)
           most  == Max(t.times)
<1>6. least \in t.times /\ least \in Nat /\ first <= least /\ most \in Nat /\ least <= most
      /\ \A z \in t.times : first <= z => least <= z
  <2>1. least \in t.times /\ least \in Nat /\ least >= first
    BY <1>2, <1>4
  <2>2. first \in Int
    BY TriggersAssumption, CronAssumption DEF FirstInstant
  <2> QED
    BY <1>1, <1>4, <1>5, <2>1, <2>2
<1>7. y \in Jittered(least, t.jitter) /\ x = Smaller(y, most)
  BY <1>3
<1> HIDE DEF least, most, first, later
<1>8. y \in Nat /\ least <= y /\ (t.jitter = 0 => y = least)
  BY <1>1, <1>6, <1>7, JitterFacts
<1>9. x \in Nat /\ least <= x /\ (t.jitter = 0 => x = least)
  BY <1>6, <1>7, <1>8 DEF Smaller
<1> QED
  BY <1>6, <1>9 DEF first

LEMMA GridFacts ==
  ASSUME NEW t \in Plain, t.kind = "interval", NEW at \in Nat, t.start_at <= at
  PROVE  /\ Grid(t, at) \in Nat /\ at <= Grid(t, at) /\ t.start_at <= Grid(t, at)
         /\ (Grid(t, at) - t.start_at) % t.interval = 0
         /\ \A y \in Nat : at <= y /\ y < Grid(t, at) => (y - t.start_at) % t.interval # 0
<1>1. t.start_at \in Nat /\ t.interval \in Nat \ {0}
  BY PlainFacts
<1> DEFINE s == t.start_at
           n == t.interval
           g == n * CeilDiv(at - s, n)
<1>2. s \in Nat /\ n \in Nat \ {0} /\ at - s \in Nat
  BY <1>1
<1>3. /\ g \in Nat /\ at - s <= g /\ g % n = 0
      /\ \A e \in Int : at - s <= e /\ e < g => e % n # 0
  BY <1>2, NextMultiple
<1>4. Grid(t, at) = s + g
  BY DEF Grid
<1> HIDE DEF s, n, g
<1>5. /\ s + g \in Nat /\ at <= s + g /\ s <= s + g /\ (s + g) - s = g
      /\ \A y \in Nat : at <= y /\ y < s + g => y - s \in Int /\ at - s <= y - s /\ y - s < g
  BY <1>2, <1>3
<1> QED
  BY <1>3, <1>4, <1>5 DEF s, n

\* A trigger that has run answers with a later time, if asked about that time or
\* a later one.
LEMMA MemberType ==
  ASSUME NEW t \in Plain, NEW prev \in Nat \cup {NoValue}, NEW at \in Nat,
         NEW x \in MemberNext(t, prev, at)
  PROVE  x \in Nat \cup {NoValue} /\ (x # NoValue /\ prev # NoValue /\ prev <= at => prev < x)
<1>1. CASE t.kind = "date"
  <2>1. x = IF prev = NoValue THEN t.run_at ELSE NoValue
    BY <1>1 DEF MemberNext, DateNext
  <2> QED
    BY <1>1, <2>1, PlainFacts
<1>2. CASE t.kind = "interval"
  <2>1. /\ t.start_at \in Nat /\ t.interval \in Nat \ {0} /\ t.end_at \in Nat /\ t.jitter \in Nat
    BY <1>2, PlainFacts
  <2> DEFINE x0 == CASE prev # NoValue                        -> prev + t.interval
                     [] prev = NoValue /\ t.start_at > at     -> t.start_at
                     [] OTHER                                 -> Grid(t, at)
  <2>2. x0 \in Nat /\ (prev # NoValue => prev < x0)
    <3>1. CASE prev # NoValue
      BY <2>1, <3>1
    <3>2. CASE prev = NoValue /\ t.start_at > at
      BY <2>1, <3>2
    <3>3. CASE prev = NoValue /\ ~(t.start_at > at)
      BY <1>2, <2>1, <3>3, GridFacts
    <3> QED
      BY <3>1, <3>2, <3>3
  <2>3. PICK y \in Jittered(x0, t.jitter) : x = IF y <= t.end_at THEN y ELSE NoValue
    BY <1>2 DEF MemberNext, IntervalNext
  <2> HIDE DEF x0
  <2>4. y \in Nat /\ x0 <= y
    BY <2>1, <2>2, <2>3, JitterFacts
  <2> QED
    BY <2>2, <2>3, <2>4
<1>3. CASE t.kind = "cron"
  <2> SUFFICES ASSUME x # NoValue
               PROVE  x \in Nat /\ (prev # NoValue /\ prev <= at => prev < x)
    OBVIOUS
  <2>1. x \in CronNext(t, prev, at)
    BY <1>3 DEF MemberNext
  <2>2. PICK y \in t.times : y \in Nat /\ x \in Nat /\ FirstInstant(prev, at) <= y /\ y <= x
    BY <1>3, <2>1, CronFacts
  <2>3. prev # NoValue /\ prev <= at => FirstInstant(prev, at) = prev + 1 /\ prev \in Nat
    BY DEF FirstInstant
  <2> QED
    BY <2>2, <2>3
<1>4. CASE t.kind = "shutdown"
  BY <1>4 DEF MemberNext
<1> QED
  BY <1>1, <1>2, <1>3, <1>4, PlainFacts

\* The first answer of a trigger without jitter is the first instant it stands
\* for from now on; that of a date is its own in any case.
Undrawn(t) == "jitter" \in DOMAIN t => t.jitter = 0
FirstFrom(t, at, x) ==
  IF x = NoValue THEN \A y \in Nat : at <= y => ~Fires(t, y)
  ELSE /\ x \in Nat /\ Fires(t, x)
       /\ at <= x \/ t.kind = "date"
       /\ \A y \in Nat : at <= y /\ Fires(t, y) => x <= y

LEMMA MemberFirst ==
  ASSUME NEW t \in Plain, Undrawn(t), NEW at \in Nat, NEW x \in MemberNext(t, NoValue, at)
  PROVE  FirstFrom(t, at, x)
<1>0. NoValue \notin Nat
  BY TriggersAssumption, CronAssumption
<1>1. CASE t.kind = "date"
  <2>1. t.run_at \in Nat
    BY <1>1, PlainFacts
  <2>2. x = t.run_at
    BY <1>1 DEF MemberNext, DateNext
  <2>3. \A y : Fires(t, y) <=> y = t.run_at
    BY <1>1 DEF Fires
  <2> QED
    BY <1>0, <1>1, <2>1, <2>2, <2>3 DEF FirstFrom
<1>2. CASE t.kind = "interval"
  <2>1. /\ t.start_at \in Nat /\ t.interval \in Nat \ {0} /\ t.end_at \in Nat /\ t.jitter = 0
    BY <1>2, PlainFacts DEF Undrawn
  <2> DEFINE x0 == IF t.start_at > at THEN t.start_at ELSE Grid(t, at)
  <2>2. /\ x0 \in Nat /\ at <= x0 /\ t.start_at <= x0 /\ (x0 - t.start_at) % t.interval = 0
        /\ \A y \in Nat : at <= y /\ t.start_at <= y /\ (y - t.start_at) % t.interval = 0 => x0 <= y
    <3>1. CASE t.start_at > at
      <4>1. x0 = t.start_at
        BY <3>1
      <4>2. (t.start_at - t.start_at) % t.interval = 0
        <5>1. t.start_at - t.start_at = 0 /\ t.interval * 0 = 0
          BY <2>1
        <5>2. (t.interval * 0) % t.interval = 0
          BY <2>1, DivisionFacts
        <5> QED
          BY <5>1, <5>2
      <4> QED
        BY <2>1, <3>1, <4>1, <4>2
    <3>2. CASE ~(t.start_at > at)
      <4>1. x0 = Grid(t, at) /\ t.start_at <= at
        BY <2>1, <3>2
      <4>2. /\ Grid(t, at) \in Nat /\ at <= Grid(t, at) /\ t.start_at <= Grid(t, at)
            /\ (Grid(t, at) - t.start_at) % t.interval = 0
            /\ \A y \in Nat : at <= y /\ y < Grid(t, at) => (y - t.start_at) % t.interval # 0
        BY <1>2, <4>1, GridFacts
      <4> QED
        BY <4>1, <4>2
    <3> QED
      BY <3>1, <3>2
  <2>3. PICK y \in Jittered(x0, t.jitter) : x = IF y <= t.end_at THEN y ELSE NoValue
    BY <1>2 DEF MemberNext, IntervalNext
  <2> HIDE DEF x0
  <2>4. y = x0
    BY <2>1, <2>2, <2>3, JitterFacts
  <2>5. \A z : Fires(t, z) <=> z >= t.start_at /\ z <= t.end_at /\ (z - t.start_at) % t.interval = 0
    BY <1>2 DEF Fires
  <2>6. CASE x0 <= t.end_at
    BY <1>0, <2>1, <2>2, <2>3, <2>4, <2>5, <2>6 DEF FirstFrom
  <2>7. CASE ~(x0 <= t.end_at)
    BY <1>0, <2>1, <2>2, <2>3, <2>4, <2>5, <2>7 DEF FirstFrom
  <2> QED
    BY <2>6, <2>7
<1>3. CASE t.kind = "cron"
  <2>1. t.times \in SUBSET Nat /\ t.jitter = 0
    BY <1>3, PlainFacts DEF Undrawn
  <2>2. x \in CronNext(t, NoValue, at) /\ FirstInstant(NoValue, at) = at
    BY <1>3 DEF MemberNext, FirstInstant
  <2>3. \A z : Fires(t, z) <=> z \in t.times
    BY <1>3 DEF Fires
  <2>4. CASE x = NoValue
    <3> DEFINE later == {z \in t.times : z >= at}
    <3>1. later = {}
      <4> SUFFICES ASSUME later # {} PROVE FALSE
        OBVIOUS
      <4>1. PICK y \in Jittered(Min(later), t.jitter) : x = Smaller(y, Max(t.times))
        BY <2>2 DEF CronNext
      <4>2. later \in SUBSET Nat
        BY <2>1
      <4>3. Min(later) \in Nat /\ t.jitter \in Nat
        BY <2>1, <4>2, MinExists
      <4> DEFINE least == Min(later)
      <4> HIDE DEF later, least
      <4>4. y \in Nat
        BY <4>1, <4>3, JitterFacts DEF least
      <4>5. Max(t.times) \in Nat
        <5>1. t.times \subseteq Int /\ IsFiniteSet(t.times) /\ t.times # {}
          BY <1>3, <2>1, <4>2, PlainFacts DEF later
        <5>2. Max(t.times) \in t.times
          BY <5>1, MaxExists
        <5> QED
          BY <2>1, <5>2
      <4>6. x \in Nat
        BY <4>1, <4>4, <4>5 DEF Smaller
      <4> QED
        BY <1>0, <2>4, <4>6
    <3> QED
      BY <2>1, <2>3, <2>4, <3>1 DEF FirstFrom
  <2>5. CASE x # NoValue
    <3>1. PICK y \in t.times : /\ y \in Nat /\ at <= y /\ x = y
                               /\ \A z \in t.times : at <= z => y <= z
      <4>1. \E y \in t.times :
              /\ y \in Nat /\ x \in Nat /\ FirstInstant(NoValue, at) <= y /\ y <= x
              /\ \A z \in t.times : FirstInstant(NoValue, at) <= z => y <= z
              /\ t.jitter = 0 => x = y
        BY <1>3, <2>2, <2>5, CronFacts, NoValue \in Nat \cup {NoValue}
      <4> QED
        BY <2>1, <2>2, <4>1
    <3> QED
      BY <2>3, <2>5, <3>1 DEF FirstFrom
  <2> QED
    BY <2>4, <2>5
<1>4. CASE t.kind = "shutdown"
  BY <1>4 DEF MemberNext, Fires, FirstFrom
<1> QED
  BY <1>1, <1>2, <1>3, <1>4, PlainFacts

-----------------------------------------------------------------------------
(* What a combination answers *)

Combined == {t \in [kind : {"and", "or"}, triggers : Seq(Plain), jitter : Nat] :
               t.kind = "and" => t.triggers # <<>>}

LEMMA Kinds == \A t \in AllTriggers : t \in Plain \/ t \in Combined
BY TriggersAssumption, CronAssumption DEF Combined

LEMMA CombinedFacts ==
  ASSUME NEW t \in Combined
  PROVE  /\ t.kind \in {"and", "or"} /\ t.jitter \in Nat /\ "jitter" \in DOMAIN t
         /\ t.triggers \in Seq(Plain) /\ Len(t.triggers) \in Nat
         /\ Members(t) = 1..Len(t.triggers)
         /\ \A i \in Members(t) : t.triggers[i] \in Plain
         /\ t.kind = "and" => 1 \in Members(t)
BY DEF Combined, Members

\* The answers of all members, some of which have none.
LEMMA GivenFacts ==
  ASSUME NEW t, NEW prev, NEW at, NEW a \in Asked(t, prev, at)
  PROVE  Given(a) = {a[i] : i \in {k \in Members(t) : a[k] # NoValue}}
<1>1. DOMAIN a = Members(t)
  BY DEF Asked
<1> QED
  BY <1>1 DEF Given, Range

LEMMA AnswersFacts ==
  ASSUME NEW t \in Combined, NEW prev \in Nat \cup {NoValue}, NEW at \in Nat,
         NEW a \in Asked(t, prev, at)
  PROVE  /\ DOMAIN a = Members(t)
         /\ \A i \in Members(t) :
              /\ t.triggers[i] \in Plain /\ a[i] \in MemberNext(t.triggers[i], prev, at)
              /\ a[i] \in Nat \cup {NoValue}
              /\ a[i] # NoValue /\ prev # NoValue /\ prev <= at => prev < a[i]
         /\ Given(a) = {a[i] : i \in {k \in Members(t) : a[k] # NoValue}}
         /\ Given(a) \in SUBSET Nat /\ IsFiniteSet(Given(a))
<1>1. DOMAIN a = Members(t) /\ \A i \in Members(t) : a[i] \in MemberNext(t.triggers[i], prev, at)
  BY DEF Asked
<1>2. \A i \in Members(t) :
        /\ t.triggers[i] \in Plain /\ a[i] \in Nat \cup {NoValue}
        /\ a[i] # NoValue /\ prev # NoValue /\ prev <= at => prev < a[i]
  BY <1>1, CombinedFacts, MemberType
<1>3. Given(a) = {a[i] : i \in {k \in Members(t) : a[k] # NoValue}}
  BY GivenFacts
<1>4. Given(a) \in SUBSET Nat
  BY <1>2, <1>3
<1>5. IsFiniteSet(Given(a))
  <2>1. IsFiniteSet(Members(t))
    <3>1. Members(t) = 1..Len(t.triggers) /\ Len(t.triggers) \in Nat
      BY CombinedFacts
    <3> QED
      BY <3>1, FS_Interval
  <2>2. a \in Surjection(Members(t), Range(a))
    <3>1. a = [i \in Members(t) |-> a[i]]
      BY <1>1 DEF Asked
    <3>2. \A y \in Range(a) : \E i \in Members(t) : a[i] = y
      BY <1>1 DEF Range
    <3>3. \A i \in Members(t) : a[i] \in Range(a)
      BY <1>1 DEF Range
    <3> HIDE DEF Members, Range
    <3> QED
      BY <3>1, <3>2, <3>3 DEF Surjection
  <2>3. IsFiniteSet(Range(a))
    BY <2>1, <2>2, FS_Surjection
  <2> QED
    BY <2>3, FS_Subset DEF Given
<1> QED
  BY <1>1, <1>2, <1>3, <1>4, <1>5

\* A combination asks all its members, and answers with one of their answers,
\* delayed by its own jitter.
Earlier(t, a, x) ==
  IF Given(a) = {} THEN x = NoValue
  ELSE \E y \in Given(a) : /\ y \in Nat /\ \A z \in Given(a) : y <= z
                           /\ x \in Nat /\ y <= x /\ (t.jitter = 0 => x = y)
LEMMA OrFacts ==
  ASSUME NEW t \in Combined, NEW prev \in Nat \cup {NoValue}, NEW at \in Nat,
         NEW x \in OrNext(t, prev, at)
  PROVE  \E a \in Asked(t, prev, at) : Earlier(t, a, x)
<1>1. PICK a \in Asked(t, prev, at) :
        x \in IF Given(a) = {} THEN {NoValue} ELSE Jittered(Min(Given(a)), t.jitter)
  BY DEF OrNext
<1>2. CASE Given(a) = {}
  BY <1>1, <1>2 DEF Earlier
<1>3. CASE Given(a) # {}
  <2> DEFINE least == Min(Given(a))
  <2>1. Given(a) \in SUBSET Nat /\ t.jitter \in Nat
    BY AnswersFacts, CombinedFacts
  <2>2. least \in Given(a) /\ \A z \in Given(a) : least <= z
    BY <1>3, <2>1, MinExists
  <2>3. x \in Jittered(least, t.jitter)
    BY <1>1, <1>3
  <2> HIDE DEF least
  <2>4. least \in Nat /\ x \in Nat /\ least <= x /\ (t.jitter = 0 => x = least)
    BY <2>1, <2>2, <2>3, JitterFacts
  <2> QED
    BY <1>1, <1>3, <2>2, <2>4 DEF Earlier
<1> QED
  BY <1>1, <1>2, <1>3

LEMMA NextType ==
  ASSUME NEW t \in AllTriggers, t.kind # "and", NEW prev \in Nat \cup {NoValue}, NEW at \in Nat,
         NEW x \in TriggerNext(t, prev, at)
  PROVE  x \in Nat \cup {NoValue} /\ (x # NoValue /\ prev # NoValue /\ prev <= at => prev < x)
<1>1. CASE t \in Combined
  <2>1. t.kind = "or" /\ x \in OrNext(t, prev, at)
    BY <1>1, CombinedFacts DEF TriggerNext
  <2>2. PICK a \in Asked(t, prev, at) : Earlier(t, a, x)
    BY <1>1, <2>1, OrFacts
  <2>3. \A y \in Given(a) : prev # NoValue /\ prev <= at => prev < y
    BY <1>1, AnswersFacts
  <2> QED
    BY <2>2, <2>3 DEF Earlier
<1>2. CASE t \in Plain
  <2>1. t.kind # "or"
    BY <1>2, PlainFacts
  <2> QED
    BY <1>2, <2>1, MemberType DEF TriggerNext
<1> QED
  BY <1>1, <1>2, Kinds

\* What a turn of AndTrigger's loop has in hand: the latest answer, which all
\* may have given.
LEMMA AndFacts ==
  ASSUME NEW t \in Combined, t.kind = "and", NEW prev \in Nat \cup {NoValue}, NEW at \in Nat,
         NEW a \in Asked(t, prev, at), NoValue \notin Range(a)
  PROVE  /\ \A i \in Members(t) : a[i] \in Nat /\ a[i] \in MemberNext(t.triggers[i], prev, at)
         /\ a[1] \in Nat /\ 1 \in Members(t)
         /\ prev # NoValue /\ prev <= at => prev < a[1]
         /\ Recheck(a) \in Nat
         /\ \E i \in Members(t) : a[i] = Recheck(a)
         /\ \A i \in Members(t) : a[i] <= Recheck(a)
         /\ prev # NoValue /\ prev <= at => prev < Recheck(a)
         /\ Cardinality(Range(a)) = 1 => \A i \in Members(t) : a[i] = a[1]
<1>1. /\ DOMAIN a = Members(t) /\ 1 \in Members(t)
      /\ \A i \in Members(t) :
           /\ a[i] \in MemberNext(t.triggers[i], prev, at)
           /\ a[i] \in Nat \cup {NoValue}
           /\ a[i] # NoValue /\ prev # NoValue /\ prev <= at => prev < a[i]
      /\ Given(a) \in SUBSET Nat /\ IsFiniteSet(Given(a))
  <2>1. 1 \in Members(t)
    BY CombinedFacts
  <2> QED
    BY <2>1, AnswersFacts
<1>2. Range(a) = Given(a) /\ \A i \in Members(t) : a[i] \in Range(a) /\ a[i] # NoValue
  BY <1>1 DEF Given, Range
<1>3. Given(a) # {} /\ Given(a) \subseteq Int
  BY <1>1, <1>2
<1>4. Recheck(a) \in Given(a) /\ \A y \in Given(a) : y <= Recheck(a)
  BY <1>1, <1>3, MaxExists DEF Recheck
<1>5. \E i \in Members(t) : a[i] = Recheck(a)
  BY <1>1, <1>2, <1>4 DEF Range
<1>6. Cardinality(Range(a)) = 1 => \A i \in Members(t) : a[i] = a[1]
  <2> SUFFICES ASSUME Cardinality(Range(a)) = 1, NEW i \in Members(t) PROVE a[i] = a[1]
    OBVIOUS
  <2>1. \E y : Range(a) = {y}
    BY <1>1, <1>2, FS_Singleton
  <2> QED
    BY <1>1, <1>2, <2>1
<1> QED
  BY <1>1, <1>2, <1>4, <1>5, <1>6

-----------------------------------------------------------------------------
(* The run times advance *)

CallType ==
  /\ task \in AllTriggers /\ operation \in {"next", "runs", "preview"}
  /\ now \in Nat /\ asked \in Nat
  /\ given \in Nat \cup {NoValue} /\ next \in Nat \cup {NoValue, NoAnswer}
  /\ run_times \in Seq(Nat)

\* A loop asks about the last run time or a later instant, so that the answer
\* lies behind it.
Grows ==
  /\ \A i, j \in DOMAIN run_times : i < j => run_times[i] < run_times[j]
  /\ run_times # <<>> =>
       /\ given = Last(run_times) /\ given <= asked
       /\ next \notin {NoAnswer, NoValue} => given < next
RunsInv == CallType /\ Grows

LEMMA CallStarts == ASSUME TriggerCall PROVE RunsInv
<1>1. CallType
  BY TriggersAssumption, CronAssumption DEF TriggerCall, CallType
<1> QED
  BY <1>1 DEF TriggerCall, RunsInv, Grows

LEMMA AnswerGrows ==
  ASSUME RunsInv, NEW x \in Nat \cup {NoValue}, Answers(x),
         x # NoValue /\ given # NoValue /\ given <= asked => given < x
  PROVE  RunsInv'
<1>1. CallType'
  BY DEF RunsInv, CallType, Answers
<1>2. run_times # <<>> => given \in Nat
  BY DEF RunsInv, CallType, Grows, Last
<1>3. NoValue \notin Nat
  BY TriggersAssumption, CronAssumption
<1>4. Grows'
  BY <1>2, <1>3 DEF RunsInv, Grows, Answers
<1> QED
  BY <1>1, <1>4 DEF RunsInv

LEMMA AskRuns == ASSUME RunsInv, Ask PROVE RunsInv'
<1>1. PICK x \in TriggerNext(task, given, asked) : Answers(x)
  BY DEF Ask
<1>2. task \in AllTriggers /\ task.kind # "and" /\ given \in Nat \cup {NoValue} /\ asked \in Nat
  BY DEF Ask, RunsInv, CallType
<1>3. x \in Nat \cup {NoValue} /\ (x # NoValue /\ given # NoValue /\ given <= asked => given < x)
  BY <1>2, NextType
<1> QED
  BY <1>1, <1>3, AnswerGrows

LEMMA AgreeRuns == ASSUME RunsInv, Agree PROVE RunsInv'
<1>1. task \in Combined /\ task.kind = "and" /\ given \in Nat \cup {NoValue} /\ asked \in Nat
  BY Kinds, PlainFacts DEF Agree, RunsInv, CallType
<1>2. PICK a \in Asked(task, given, asked) :
       \/ NoValue \in Range(a) /\ Answers(NoValue)
       \/ NoValue \notin Range(a) /\ \E x \in Jittered(a[1], task.jitter) : Answers(x)
       \/ /\ NoValue \notin Range(a) /\ next = NoAnswer
          /\ asked' = Recheck(a)
          /\ UNCHANGED <<task, operation, now, count, given, next, run_times>>
  BY DEF Agree
<1>3. CASE NoValue \in Range(a) /\ Answers(NoValue)
  BY <1>3, AnswerGrows
<1>4. CASE NoValue \notin Range(a) /\ \E x \in Jittered(a[1], task.jitter) : Answers(x)
  <2>1. PICK x \in Jittered(a[1], task.jitter) : Answers(x)
    BY <1>4
  <2>2. a[1] \in Nat /\ (given # NoValue /\ given <= asked => given < a[1]) /\ task.jitter \in Nat
    BY <1>1, <1>4, AndFacts, CombinedFacts
  <2>3. x \in Nat /\ a[1] <= x
    BY <2>1, <2>2, JitterFacts
  <2>4. given # NoValue /\ given <= asked => given < x
    BY <1>1, <2>2, <2>3
  <2> QED
    BY <2>1, <2>3, <2>4, AnswerGrows
<1>5. CASE /\ NoValue \notin Range(a) /\ next = NoAnswer
           /\ asked' = Recheck(a)
           /\ UNCHANGED <<task, operation, now, count, given, next, run_times>>
  <2>1. Recheck(a) \in Nat /\ (given # NoValue /\ given <= asked => given < Recheck(a))
    BY <1>1, <1>5, AndFacts
  <2>2. CallType'
    BY <1>5, <2>1 DEF RunsInv, CallType
  <2>3. run_times # <<>> => given \in Nat /\ given # NoValue
    BY TriggersAssumption, CronAssumption DEF RunsInv, CallType, Grows, Last
  <2>4. Grows'
    BY <1>1, <1>5, <2>1, <2>3 DEF RunsInv, Grows
  <2> QED
    BY <2>2, <2>4 DEF RunsInv
<1> QED
  BY <1>2, <1>3, <1>4, <1>5

LEMMA CollectRuns == ASSUME RunsInv, Collect PROVE RunsInv'
<1>1. /\ next \in Nat /\ run_times' = Append(run_times, next) /\ given' = next
      /\ next' = NoAnswer /\ UNCHANGED <<task, operation, now, count>>
      /\ asked' \in Nat /\ next <= asked'
  BY DEF RunsInv, CallType, Collect, Collecting
<1>2. run_times \in Seq(Nat) /\ Len(run_times) \in Nat /\ run_times' \in Seq(Nat)
      /\ Len(run_times') = Len(run_times) + 1 /\ run_times'[Len(run_times) + 1] = next
      /\ \A i \in 1..Len(run_times) : run_times'[i] = run_times[i] /\ run_times[i] \in Nat
      /\ DOMAIN run_times = 1..Len(run_times) /\ DOMAIN run_times' = 1..(Len(run_times) + 1)
  BY <1>1 DEF RunsInv, CallType
<1>3. CallType'
  BY <1>1, <1>2 DEF RunsInv, CallType
<1>4. Last(run_times') = next /\ run_times' # <<>>
  BY <1>2 DEF Last
<1>5. ASSUME NEW i \in 1..Len(run_times)
      PROVE  run_times[i] < next
  <2>1. given = run_times[Len(run_times)] /\ given < next /\ given \in Nat /\ Len(run_times) \in 1..Len(run_times)
    BY <1>1, <1>2, <1>5, TriggersAssumption, CronAssumption DEF RunsInv, Grows, Last
  <2>2. i = Len(run_times) \/ run_times[i] < given
    BY <1>2, <1>5, <2>1 DEF RunsInv, Grows
  <2> QED
    BY <1>1, <1>2, <1>5, <2>1, <2>2
<1>6. ASSUME NEW i \in DOMAIN run_times', NEW j \in DOMAIN run_times', i < j
      PROVE  run_times'[i] < run_times'[j]
  <2>1. i \in 1..Len(run_times)
    BY <1>2, <1>6
  <2>2. CASE j \in 1..Len(run_times)
    BY <1>2, <1>6, <2>1, <2>2 DEF RunsInv, Grows
  <2>3. CASE j = Len(run_times) + 1
    BY <1>2, <1>5, <2>1, <2>3
  <2> QED
    BY <1>2, <2>2, <2>3
<1>7. Grows'
  BY <1>1, <1>4, <1>6 DEF Grows
<1> QED
  BY <1>3, <1>7 DEF RunsInv

LEMMA LoopRuns == RunsInv /\ [LoopNext]_calls => RunsInv'
<1> SUFFICES ASSUME RunsInv, [LoopNext]_calls PROVE RunsInv'
  OBVIOUS
<1>1. CASE UNCHANGED calls
  BY <1>1 DEF calls, RunsInv, CallType, Grows
<1> QED
  BY <1>1, AskRuns, AgreeRuns, CollectRuns DEF LoopNext

\* Whatever the triggers and the draws of jitter, what get_run_times and
\* preview_task_runs collect only grows (tasks/base.py:70, schedulers/
\* base.py:1066).
THEOREM RunsAdvance == LoopSpec => []RunTimesAdvance
<1>1. RunsInv => RunTimesAdvance
  BY DEF RunsInv, Grows, RunTimesAdvance
<1> QED
  BY <1>1, CallStarts, LoopRuns, PTL DEF LoopSpec

-----------------------------------------------------------------------------
(* The first answer *)

HasDate(t) == \E u \in Parts(t) : u.kind = "date"
FoundFirst(t, at, x) ==
  IF x = NoValue THEN \A y \in Nat : at <= y => ~FiresAt(t, y)
  ELSE /\ x \in Nat /\ FiresAt(t, x)
       /\ at <= x \/ HasDate(t)
       /\ \A y \in Nat : at <= y /\ y < x => ~FiresAt(t, y)

\* Asked for the first time, nothing has been passed over: neither by the
\* answer nor by the instants from which AndTrigger has gone on.
First == operation = "next" /\ given = NoValue /\ ~Drawn(task)
PassesNothing ==
  First =>
    /\ now <= asked \/ HasDate(task)
    /\ task.kind # "and" => asked = now
    /\ \A y \in Nat : now <= y /\ y < asked => ~FiresAt(task, y)
    /\ next # NoAnswer => FoundFirst(task, now, next)
FirstInv == RunsInv /\ PassesNothing

LEMMA UndrawnParts ==
  ASSUME NEW t \in AllTriggers, ~Drawn(t)
  PROVE  /\ t \in Plain => Undrawn(t) /\ \A x : FiresAt(t, x) <=> Fires(t, x)
         /\ t \in Combined => /\ t.jitter = 0
                              /\ \A i \in Members(t) : Undrawn(t.triggers[i])
<1>1. ASSUME t \in Plain PROVE Undrawn(t) /\ \A x : FiresAt(t, x) <=> Fires(t, x)
  <2>1. t.kind \notin {"and", "or"}
    BY <1>1, PlainFacts
  <2>2. Parts(t) = {t}
    BY <2>1 DEF Parts
  <2>3. "jitter" \in DOMAIN t => t.jitter \in Nat
    BY <1>1 DEF Plain
  <2>4. Undrawn(t)
    BY <2>2, <2>3 DEF Drawn, Undrawn
  <2> QED
    BY <2>1, <2>4 DEF FiresAt
<1>2. ASSUME t \in Combined
      PROVE  t.jitter = 0 /\ \A i \in Members(t) : Undrawn(t.triggers[i])
  <2>1. Parts(t) = {t} \cup Range(t.triggers) /\ t.jitter \in Nat /\ "jitter" \in DOMAIN t
    BY <1>2, CombinedFacts DEF Parts
  <2>2. t.jitter = 0
    BY <2>1 DEF Drawn
  <2>3. ASSUME NEW i \in Members(t) PROVE Undrawn(t.triggers[i])
    <3>1. t.triggers[i] \in Parts(t) /\ t.triggers[i] \in Plain
      BY <1>2, <2>1, <2>3, CombinedFacts DEF Members, Range
    <3> DEFINE u == t.triggers[i]
    <3> HIDE DEF u
    <3>2. "jitter" \in DOMAIN u => u.jitter \in Nat
      BY <3>1 DEF Plain, u
    <3>3. ~("jitter" \in DOMAIN u /\ u.jitter > 0)
      BY <3>1 DEF Drawn, u
    <3>4. Undrawn(u)
      BY <3>2, <3>3 DEF Undrawn
    <3> QED
      BY <3>4 DEF u
  <2> QED
    BY <2>2, <2>3
<1> QED
  BY <1>1, <1>2

\* A member of a combination that is a date.
LEMMA DateMember ==
  ASSUME NEW t \in Combined, NEW i \in Members(t), t.triggers[i].kind = "date"
  PROVE  HasDate(t)
BY CombinedFacts DEF HasDate, Parts, Members, Range

LEMMA OrFirst ==
  ASSUME NEW t \in AllTriggers, t \in Combined, t.kind = "or", ~Drawn(t), NEW at \in Nat,
         NEW x \in OrNext(t, NoValue, at)
  PROVE  FoundFirst(t, at, x)
<1>0. NoValue \notin Nat /\ NoValue \in Nat \cup {NoValue}
  BY TriggersAssumption, CronAssumption
<1>1. t.jitter = 0 /\ \A i \in Members(t) : Undrawn(t.triggers[i])
  BY UndrawnParts
<1>2. PICK a \in Asked(t, NoValue, at) : Earlier(t, a, x)
  BY <1>0, OrFacts
<1>3. Given(a) = {a[i] : i \in {k \in Members(t) : a[k] # NoValue}}
  BY GivenFacts
<1>4. \A i \in Members(t) : FirstFrom(t.triggers[i], at, a[i])
  <2> SUFFICES ASSUME NEW i \in Members(t)
               PROVE  FirstFrom(t.triggers[i], at, a[i])
    OBVIOUS
  <2>1. t.triggers[i] \in Plain /\ a[i] \in MemberNext(t.triggers[i], NoValue, at)
    BY <1>0, AnswersFacts
  <2> QED
    BY <1>1, <2>1, MemberFirst
<1>5. \A y : FiresAt(t, y) <=> \E i \in Members(t) : Fires(t.triggers[i], y)
  BY DEF FiresAt
<1>6. CASE Given(a) = {}
  <2>1. \A i \in Members(t) : a[i] = NoValue
    BY <1>3, <1>6
  <2> QED
    BY <1>2, <1>4, <1>5, <1>6, <2>1 DEF FoundFirst, FirstFrom, Earlier
<1>7. CASE Given(a) # {}
  <2>1. x \in Given(a) /\ x \in Nat /\ \A z \in Given(a) : x <= z
    BY <1>1, <1>2, <1>7 DEF Earlier
  <2>2. PICK i \in Members(t) : a[i] = x
    BY <1>3, <2>1
  <2>3. Fires(t.triggers[i], x) /\ (at <= x \/ t.triggers[i].kind = "date")
    BY <1>0, <1>4, <2>1, <2>2 DEF FirstFrom
  <2>4. ASSUME NEW y \in Nat, at <= y, NEW k \in Members(t), Fires(t.triggers[k], y)
        PROVE  x <= y
    <3>1. a[k] # NoValue
      BY <1>4, <2>4 DEF FirstFrom
    <3>2. a[k] \in Nat /\ a[k] <= y
      BY <1>4, <2>4, <3>1 DEF FirstFrom
    <3>3. x <= a[k]
      BY <1>3, <2>1, <3>1
    <3> QED
      BY <2>1, <3>2, <3>3
  <2>5. \A y \in Nat : at <= y /\ y < x => ~FiresAt(t, y)
    BY <1>5, <2>1, <2>4
  <2>6. at <= x \/ HasDate(t)
    BY <2>3, DateMember
  <2> QED
    BY <1>0, <1>5, <2>1, <2>2, <2>3, <2>5, <2>6 DEF FoundFirst
<1> QED
  BY <1>6, <1>7

LEMMA NextFirst ==
  ASSUME NEW t \in AllTriggers, t.kind # "and", ~Drawn(t), NEW at \in Nat,
         NEW x \in TriggerNext(t, NoValue, at)
  PROVE  FoundFirst(t, at, x)
<1>1. CASE t \in Combined
  <2>1. t.kind = "or" /\ x \in OrNext(t, NoValue, at)
    BY <1>1, CombinedFacts DEF TriggerNext
  <2> QED
    BY <1>1, <2>1, OrFirst
<1>2. CASE t \in Plain
  <2>1. t.kind \notin {"and", "or"}
    BY <1>2, PlainFacts
  <2>2. x \in MemberNext(t, NoValue, at) /\ Undrawn(t) /\ \A y : FiresAt(t, y) <=> Fires(t, y)
    BY <1>2, <2>1, UndrawnParts DEF TriggerNext
  <2>3. FirstFrom(t, at, x)
    BY <1>2, <2>2, MemberFirst
  <2>4. t.kind = "date" => HasDate(t)
    BY <2>1 DEF HasDate, Parts
  <2>5. CASE x = NoValue
    BY <2>2, <2>3, <2>5 DEF FirstFrom, FoundFirst
  <2>6. CASE x # NoValue
    <3>1. /\ x \in Nat /\ Fires(t, x) /\ (at <= x \/ t.kind = "date")
          /\ \A y \in Nat : at <= y /\ Fires(t, y) => x <= y
      BY <2>3, <2>6 DEF FirstFrom
    <3>2. \A y \in Nat : at <= y /\ y < x => ~Fires(t, y)
      BY <3>1
    <3> QED
      BY <2>2, <2>4, <2>6, <3>1, <3>2 DEF FoundFirst
  <2> QED
    BY <2>5, <2>6
<1> QED
  BY <1>1, <1>2, Kinds

LEMMA FirstStarts == ASSUME TriggerCall PROVE FirstInv
<1>1. RunsInv /\ CallType
  BY CallStarts DEF RunsInv
<1>2. asked = now /\ (operation = "next" => next = NoAnswer) /\ now \in Nat
  BY <1>1 DEF TriggerCall, CallType
<1> QED
  BY <1>1, <1>2 DEF FirstInv, PassesNothing, First

\* What an answer leaves as it was.
LEMMA AnswerFirst ==
  ASSUME FirstInv, NEW x \in Nat \cup {NoValue}, Answers(x), First => FoundFirst(task, now, x)
  PROVE  PassesNothing'
<1>1. /\ next' = x /\ task' = task /\ operation' = operation /\ now' = now
      /\ asked' = asked /\ given' = given
  BY DEF Answers
<1> SUFFICES ASSUME First'
             PROVE  /\ now <= asked \/ HasDate(task)
                    /\ task.kind # "and" => asked = now
                    /\ \A y \in Nat : now <= y /\ y < asked => ~FiresAt(task, y)
                    /\ FoundFirst(task, now, x)
  BY <1>1 DEF PassesNothing
<1>2. First
  BY <1>1 DEF First
<1> QED
  BY <1>2 DEF FirstInv, PassesNothing

LEMMA AskFirst == ASSUME FirstInv, Ask PROVE PassesNothing'
<1>1. PICK x \in TriggerNext(task, given, asked) : Answers(x)
  BY DEF Ask
<1>2. task \in AllTriggers /\ task.kind # "and" /\ given \in Nat \cup {NoValue} /\ asked \in Nat
  BY DEF Ask, FirstInv, RunsInv, CallType
<1>3. x \in Nat \cup {NoValue}
  BY <1>2, NextType
<1>4. ASSUME First PROVE FoundFirst(task, now, x)
  <2>1. asked = now /\ given = NoValue /\ ~Drawn(task)
    BY <1>2, <1>4 DEF FirstInv, PassesNothing, First
  <2> QED
    BY <1>1, <1>2, <2>1, NextFirst
<1> QED
  BY <1>1, <1>3, <1>4, AnswerFirst

\* A turn in which every member has an answer.
TurnOf(t, a) ==
  /\ \A i \in Members(t) : a[i] \in Nat
  /\ 1 \in Members(t) /\ Recheck(a) \in Nat
  /\ \E i \in Members(t) : a[i] = Recheck(a)
  /\ \A i \in Members(t) : a[i] <= Recheck(a)
  /\ Cardinality(Range(a)) = 1 => \A i \in Members(t) : a[i] = a[1]

LEMMA TurnFacts ==
  ASSUME NEW t \in Combined, t.kind = "and", NEW prev \in Nat \cup {NoValue}, NEW at \in Nat,
         NEW a \in Asked(t, prev, at), NoValue \notin Range(a)
  PROVE  TurnOf(t, a)
BY AndFacts DEF TurnOf

\* Of the answers of a turn none passes over an instant all members share.
LEMMA TurnFirst ==
  ASSUME NEW t \in AllTriggers, t \in Combined, t.kind = "and", ~Drawn(t), NEW at \in Nat,
         NEW a \in Asked(t, NoValue, at)
  PROVE  /\ NoValue \in Range(a) => \A y \in Nat : at <= y => ~FiresAt(t, y)
         /\ NoValue \notin Range(a) => \A y \in Nat : at <= y /\ y < Recheck(a) => ~FiresAt(t, y)
         /\ NoValue \notin Range(a) => at <= Recheck(a) \/ HasDate(t)
         /\ NoValue \notin Range(a) /\ Cardinality(Range(a)) = 1 =>
              a[1] \in Nat /\ a[1] = Recheck(a) /\ FiresAt(t, a[1]) /\ (at <= a[1] \/ HasDate(t))
<1>0. NoValue \notin Nat /\ NoValue \in Nat \cup {NoValue}
  BY TriggersAssumption, CronAssumption
<1>1. \A i \in Members(t) : Undrawn(t.triggers[i])
  BY UndrawnParts
<1>2. DOMAIN a = Members(t) /\ \A i \in Members(t) :
        t.triggers[i] \in Plain /\ a[i] \in MemberNext(t.triggers[i], NoValue, at)
  BY <1>0, AnswersFacts
<1>3. \A i \in Members(t) : FirstFrom(t.triggers[i], at, a[i])
  BY <1>1, <1>2, MemberFirst
<1>4. \A y : FiresAt(t, y) <=> \A i \in Members(t) : Fires(t.triggers[i], y)
  BY DEF FiresAt
<1>5. ASSUME NoValue \in Range(a), NEW y \in Nat, at <= y
      PROVE  ~FiresAt(t, y)
  <2>1. PICK i \in Members(t) : a[i] = NoValue
    BY <1>2, <1>5 DEF Range
  <2>2. ~Fires(t.triggers[i], y)
    BY <1>3, <1>5, <2>1 DEF FirstFrom
  <2> QED
    BY <1>4, <2>2
<1>7. NoValue \notin Range(a) => TurnOf(t, a)
  BY <1>0, TurnFacts
<1>6. ASSUME NoValue \notin Range(a)
      PROVE  /\ \A y \in Nat : at <= y /\ y < Recheck(a) => ~FiresAt(t, y)
             /\ at <= Recheck(a) \/ HasDate(t)
             /\ Cardinality(Range(a)) = 1 =>
                  a[1] \in Nat /\ a[1] = Recheck(a) /\ FiresAt(t, a[1]) /\ (at <= a[1] \/ HasDate(t))
  <2>1. /\ \A i \in Members(t) : a[i] \in Nat
        /\ 1 \in Members(t) /\ Recheck(a) \in Nat
        /\ \E i \in Members(t) : a[i] = Recheck(a)
        /\ \A i \in Members(t) : a[i] <= Recheck(a)
        /\ Cardinality(Range(a)) = 1 => \A i \in Members(t) : a[i] = a[1]
    BY <1>6, <1>7 DEF TurnOf
  <2>2. \A i \in Members(t) : /\ Fires(t.triggers[i], a[i])
                              /\ at <= a[i] \/ t.triggers[i].kind = "date"
                              /\ \A y \in Nat : at <= y /\ Fires(t.triggers[i], y) => a[i] <= y
    BY <1>0, <1>3, <2>1 DEF FirstFrom
  <2>3. ASSUME NEW y \in Nat, at <= y, y < Recheck(a) PROVE ~FiresAt(t, y)
    BY <1>4, <2>1, <2>2, <2>3
  <2>4. ASSUME Cardinality(Range(a)) = 1
        PROVE  a[1] \in Nat /\ a[1] = Recheck(a) /\ FiresAt(t, a[1]) /\ (at <= a[1] \/ HasDate(t))
    BY <1>4, <2>1, <2>2, <2>4, DateMember
  <2>5. at <= Recheck(a) \/ HasDate(t)
    BY <2>1, <2>2, DateMember
  <2> QED
    BY <2>3, <2>4, <2>5
<1> QED
  BY <1>5, <1>6

LEMMA AgreeFirst == ASSUME FirstInv, Agree PROVE PassesNothing'
<1>0. NoValue \notin Nat
  BY TriggersAssumption, CronAssumption
<1>1. task \in Combined /\ task \in AllTriggers /\ task.kind = "and" /\ now \in Nat /\ asked \in Nat
      /\ given \in Nat \cup {NoValue}
  BY Kinds, PlainFacts DEF Agree, FirstInv, RunsInv, CallType
<1>2. PICK a \in Asked(task, given, asked) :
       \/ NoValue \in Range(a) /\ Answers(NoValue)
       \/ /\ NoValue \notin Range(a) /\ Cardinality(Range(a)) = 1
          /\ \E x \in Jittered(a[1], task.jitter) : Answers(x)
       \/ /\ NoValue \notin Range(a) /\ next = NoAnswer
          /\ asked' = Recheck(a)
          /\ UNCHANGED <<task, operation, now, count, given, next, run_times>>
  BY DEF Agree
<1>3. ASSUME First
      PROVE  /\ given = NoValue /\ task.jitter = 0 /\ (now <= asked \/ HasDate(task))
             /\ \A y \in Nat : now <= y /\ y < asked => ~FiresAt(task, y)
             /\ NoValue \in Range(a) => \A y \in Nat : asked <= y => ~FiresAt(task, y)
             /\ NoValue \notin Range(a) => \A y \in Nat : asked <= y /\ y < Recheck(a) => ~FiresAt(task, y)
             /\ NoValue \notin Range(a) => asked <= Recheck(a) \/ HasDate(task)
             /\ NoValue \notin Range(a) /\ Cardinality(Range(a)) = 1 =>
                  /\ a[1] \in Nat /\ a[1] = Recheck(a) /\ FiresAt(task, a[1])
                  /\ asked <= a[1] \/ HasDate(task)
  <2>1. given = NoValue /\ ~Drawn(task) /\ (now <= asked \/ HasDate(task))
        /\ \A y \in Nat : now <= y /\ y < asked => ~FiresAt(task, y)
    BY <1>3 DEF First, FirstInv, PassesNothing
  <2>2. task.jitter = 0
    BY <1>1, <2>1, UndrawnParts
  <2> QED
    BY <1>1, <2>1, <2>2, TurnFirst
<1>4. CASE NoValue \in Range(a) /\ Answers(NoValue)
  <2>1. First => FoundFirst(task, now, NoValue)
    BY <1>1, <1>3, <1>4 DEF FoundFirst
  <2> QED
    BY <1>4, <2>1, AnswerFirst
<1>5. ASSUME NoValue \notin Range(a), Cardinality(Range(a)) = 1,
             NEW x \in Jittered(a[1], task.jitter), Answers(x)
      PROVE  PassesNothing'
  <2>1. a[1] \in Nat /\ task.jitter \in Nat
    BY <1>1, <1>5, AndFacts, CombinedFacts
  <2>2. x \in Nat /\ (task.jitter = 0 => x = a[1])
    BY <1>5, <2>1, JitterFacts
  <2>3. First => FoundFirst(task, now, x)
    BY <1>0, <1>1, <1>3, <1>5, <2>2 DEF FoundFirst
  <2> QED
    BY <1>5, <2>2, <2>3, AnswerFirst
<1>6. CASE /\ NoValue \notin Range(a) /\ next = NoAnswer
           /\ asked' = Recheck(a)
           /\ UNCHANGED <<task, operation, now, count, given, next, run_times>>
  <2> SUFFICES ASSUME First'
               PROVE  /\ now <= Recheck(a) \/ HasDate(task)
                      /\ \A y \in Nat : now <= y /\ y < Recheck(a) => ~FiresAt(task, y)
    BY <1>1, <1>6 DEF PassesNothing
  <2>1. First
    BY <1>6 DEF First
  <2>2. Recheck(a) \in Nat
    BY <1>1, <1>6, AndFacts
  <2>3. \A y \in Nat : now <= y /\ y < Recheck(a) => ~FiresAt(task, y)
    BY <1>1, <1>3, <1>6, <2>1, <2>2
  <2>4. now <= Recheck(a) \/ HasDate(task)
    BY <1>1, <1>3, <1>6, <2>1, <2>2
  <2> QED
    BY <2>3, <2>4
<1> QED
  BY <1>2, <1>4, <1>5, <1>6

LEMMA LoopFirst == FirstInv /\ [LoopNext]_calls => FirstInv'
<1> SUFFICES ASSUME FirstInv, [LoopNext]_calls PROVE FirstInv'
  OBVIOUS
<1>1. RunsInv'
  BY LoopRuns DEF FirstInv
<1>2. CASE UNCHANGED calls
  BY <1>1, <1>2 DEF calls, FirstInv, PassesNothing, First
<1>3. CASE Collect
  <2>1. operation' # "next"
    BY <1>3 DEF Collect, Collecting
  <2> QED
    BY <1>1, <2>1 DEF FirstInv, PassesNothing, First
<1> QED
  BY <1>1, <1>2, <1>3, AskFirst, AgreeFirst DEF LoopNext, FirstInv

LEMMA HorizonType ==
  ASSUME CallType, now \in Instants, NEW x \in Horizon
  PROVE  x \in Nat
<1>1. Max(Instants) \in Instants /\ Instants \subseteq Nat
  <2>1. Instants \subseteq Int /\ IsFiniteSet(Instants) /\ Instants # {}
    BY TriggersAssumption, CronAssumption
  <2> QED
    BY <2>1, MaxExists, TriggersAssumption, CronAssumption
<1> DEFINE m == Max(Instants)
<1>2. m \in Nat
  BY <1>1
<1>3. x \in 0..(m + m)
  BY DEF Horizon
<1> HIDE DEF m
<1> QED
  BY <1>2, <1>3

\* The first answer of a trigger passes over no instant that it stands for, and is
\* one; of a combination under And one that all its members share (triggers/
\* combination.py:24), under Or one that any of them has (combination.py:52).
THEOREM FirstIsFound == LoopSpec => []FindsEarliest
<1>1. FirstInv /\ now \in Instants => FindsEarliest
  <2> SUFFICES ASSUME FirstInv, now \in Instants, First, next # NoAnswer
               PROVE  IF next = NoValue THEN \A x \in Horizon : x >= now => ~FiresAt(task, x)
                      ELSE /\ FiresAt(task, next)
                           /\ next >= now \/ \E t \in Parts(task) : t.kind = "date"
                           /\ \A x \in Horizon : now <= x /\ x < next => ~FiresAt(task, x)
    BY DEF FindsEarliest, First
  <2>1. CallType /\ now \in Nat /\ FoundFirst(task, now, next)
    BY DEF FirstInv, RunsInv, CallType, PassesNothing
  <2>2. \A x \in Horizon : x \in Nat
    BY <2>1, HorizonType
  <2> QED
    BY <2>1, <2>2 DEF FoundFirst, HasDate
<1>2. TriggerCall => FirstInv /\ now \in Instants
  BY FirstStarts DEF TriggerCall
<1>3. FirstInv /\ now \in Instants /\ [LoopNext]_calls => (FirstInv /\ now \in Instants)'
  <2>1. [LoopNext]_calls => now' = now
    BY DEF LoopNext, Ask, Agree, Collect, Answers, calls
  <2> QED
    BY <2>1, LoopFirst
<1> QED
  BY <1>1, <1>2, <1>3, PTL DEF LoopSpec

-----------------------------------------------------------------------------
(* The calendar: dates compare by their parts *)

\* The real fields, and a date's part of one.
RealFields == {0, 1, 2, 5, 6, 7}
Part(d, n) == d[Name(n)]

LEMMA Names ==
  /\ Name(0) = "year" /\ Name(1) = "month" /\ Name(2) = "day" /\ Name(3) = "week"
  /\ Name(4) = "day_of_week" /\ Name(5) = "hour" /\ Name(6) = "minute" /\ Name(7) = "second"
BY DEF Name, FieldNames

LEMMA RealOnes == \A n \in 0..LastField : Real(n) <=> n \in RealFields
<1>1. \A n \in 0..7 : n \in {0, 1, 2, 3, 4, 5, 6, 7}
  OBVIOUS
<1> QED
  BY <1>1, Names DEF Real, RealFields, LastField

LEMMA DateParts ==
  ASSUME NEW d \in Dates
  PROVE  /\ Part(d, 0) = d.year /\ Part(d, 1) = d.month /\ Part(d, 2) = d.day
         /\ Part(d, 5) = d.hour /\ Part(d, 6) = d.minute /\ Part(d, 7) = d.second
BY Names DEF Part

\* Bounds are stated as inequalities, for the provers go through an interval.
LEMMA DateBounds ==
  ASSUME NEW d \in Dates
  PROVE  /\ d.year \in Int /\ 1970 <= d.year /\ d.year <= 9999
         /\ d.month \in Int /\ 1 <= d.month /\ d.month <= 12
         /\ d.day \in Int /\ 1 <= d.day /\ d.day <= DaysIn(d.year, d.month)
         /\ d.hour \in Int /\ 0 <= d.hour /\ d.hour <= 23
         /\ d.minute \in Int /\ 0 <= d.minute /\ d.minute <= 59
         /\ d.second \in Int /\ 0 <= d.second /\ d.second <= 59
<1> DEFINE y == d.year
<1>1. y \in 1970..9999
  BY DEF Dates
<1>2. /\ d.month \in 1..12 /\ d.day \in 1..31 /\ d.hour \in 0..23 /\ d.minute \in 0..59
      /\ d.second \in 0..59 /\ d.day <= DaysIn(d.year, d.month)
  BY DEF Dates
<1> HIDE DEF y
<1>3. y \in Int /\ 1970 <= y /\ y <= 9999
  BY <1>1
<1>4. /\ d.month \in Int /\ 1 <= d.month /\ d.month <= 12
      /\ d.day \in Int /\ 1 <= d.day
      /\ d.hour \in Int /\ 0 <= d.hour /\ d.hour <= 23
  BY <1>2
<1>5. /\ d.minute \in Int /\ 0 <= d.minute /\ d.minute <= 59
      /\ d.second \in Int /\ 0 <= d.second /\ d.second <= 59
  BY <1>2
<1> QED
  BY <1>2, <1>3, <1>4, <1>5 DEF y

\* The day a leap year has more.
Leap(y) == IF IsLeap(y) THEN 1 ELSE 0

\* A month ends before any later one begins.
MonthOrder(y, m) ==
  \A k \in Int : m < k /\ k <= 12 => DaysBefore(y, m) + DaysIn(y, m) <= DaysBefore(y, k)

LEMMA MonthFacts ==
  ASSUME NEW y \in Int, NEW m \in Int, 1 <= m, m <= 12
  PROVE  /\ DaysIn(y, m) \in Int /\ 28 <= DaysIn(y, m) /\ DaysIn(y, m) <= 31
         /\ DaysBefore(y, m) \in Int /\ 0 <= DaysBefore(y, m)
         /\ DaysBefore(y, m) + DaysIn(y, m) <= 365 + Leap(y)
         /\ MonthOrder(y, m)
<1>1. \A k \in Int : 1 <= k /\ k <= 12 => k \in {1, 2, 3, 4, 5, 6, 7, 8, 9, 10, 11, 12}
  OBVIOUS
<1> DEFINE leap == IF IsLeap(y) THEN 1 ELSE 0
<1>2. /\ DaysBefore(y, 1) = 0 /\ DaysBefore(y, 2) = 31 /\ DaysBefore(y, 3) = 59 + leap
      /\ DaysBefore(y, 4) = 90 + leap /\ DaysBefore(y, 5) = 120 + leap
      /\ DaysBefore(y, 6) = 151 + leap /\ DaysBefore(y, 7) = 181 + leap
      /\ DaysBefore(y, 8) = 212 + leap /\ DaysBefore(y, 9) = 243 + leap
      /\ DaysBefore(y, 10) = 273 + leap /\ DaysBefore(y, 11) = 304 + leap
      /\ DaysBefore(y, 12) = 334 + leap
  BY DEF DaysBefore
<1>3. /\ DaysIn(y, 1) = 31 /\ DaysIn(y, 2) = 28 + leap /\ DaysIn(y, 3) = 31 /\ DaysIn(y, 4) = 30
      /\ DaysIn(y, 5) = 31 /\ DaysIn(y, 6) = 30 /\ DaysIn(y, 7) = 31 /\ DaysIn(y, 8) = 31
      /\ DaysIn(y, 9) = 30 /\ DaysIn(y, 10) = 31 /\ DaysIn(y, 11) = 30 /\ DaysIn(y, 12) = 31
  BY DEF DaysIn
<1>4. leap \in {0, 1}
  OBVIOUS
<1> HIDE DEF leap
<1>5. /\ DaysIn(y, m) \in Int /\ 28 <= DaysIn(y, m) /\ DaysIn(y, m) <= 31
      /\ DaysBefore(y, m) \in Int /\ 0 <= DaysBefore(y, m)
      /\ DaysBefore(y, m) + DaysIn(y, m) <= 365 + leap
  BY <1>1, <1>2, <1>3, <1>4
<1>6. ASSUME NEW k \in Int, m < k, k <= 12
      PROVE  DaysBefore(y, m) + DaysIn(y, m) <= DaysBefore(y, k)
  BY <1>1, <1>2, <1>3, <1>4, <1>6
<1> QED
  BY <1>5, <1>6 DEF leap, Leap, MonthOrder

\* The days of the years before.
YearStart(y) == 365 * (y - 1) + (y - 1) \div 4 - (y - 1) \div 100 + (y - 1) \div 400

LEMMA YearFacts ==
  ASSUME NEW y \in Nat
  PROVE  /\ YearStart(y) \in Int
         /\ YearStart(y + 1) = YearStart(y) + 365 + Leap(y)
         /\ \A z \in Nat : y < z => YearStart(y + 1) <= YearStart(z)
<1>1. YearStart(y) \in Int
  BY DEF YearStart
<1>2. /\ y \div 4 = (y - 1) \div 4 + (IF y % 4 = 0 THEN 1 ELSE 0)
      /\ y \div 100 = (y - 1) \div 100 + (IF y % 100 = 0 THEN 1 ELSE 0)
      /\ y \div 400 = (y - 1) \div 400 + (IF y % 400 = 0 THEN 1 ELSE 0)
  OBVIOUS
<1>3. (y % 400 = 0 => y % 100 = 0) /\ (y % 100 = 0 => y % 4 = 0)
  OBVIOUS
<1>4. YearStart(y + 1) = YearStart(y) + 365 + Leap(y)
  BY <1>2, <1>3 DEF YearStart, IsLeap, Leap
<1>5. ASSUME NEW z \in Nat, y < z
      PROVE  YearStart(y + 1) <= YearStart(z)
  BY <1>5 DEF YearStart
<1> QED
  BY <1>1, <1>4, <1>5

\* The day of a date, counted in all and in seconds of the day.
Clock(d) == d.hour * 3600 + d.minute * 60 + d.second

LEMMA SecondsFacts ==
  ASSUME NEW d \in Dates
  PROVE  /\ Ordinal(d) = YearStart(d.year) + DaysBefore(d.year, d.month) + d.day
         /\ Ordinal(d) \in Int /\ Clock(d) \in Int /\ 0 <= Clock(d) /\ Clock(d) <= 86399
         /\ Seconds(d) = (Ordinal(d) - 730120) * 86400 + Clock(d) /\ Seconds(d) \in Int
         /\ YearStart(d.year) < Ordinal(d) /\ Ordinal(d) <= YearStart(d.year + 1)
<1>1. d.year \in Nat /\ d.year \in Int /\ d.month \in Int /\ 1 <= d.month /\ d.month <= 12
      /\ d.day \in Int /\ 1 <= d.day /\ d.day <= DaysIn(d.year, d.month)
  BY DateBounds
<1> DEFINE y == d.year
           before == DaysBefore(d.year, d.month)
           days == DaysIn(d.year, d.month)
           leap == Leap(d.year)
<1>2. before \in Int /\ 0 <= before /\ days \in Int /\ before + days <= 365 + leap
  BY <1>1, MonthFacts
<1>3. YearStart(y) \in Int /\ YearStart(y + 1) = YearStart(y) + 365 + leap
  BY <1>1, YearFacts
<1>4. Ordinal(d) = YearStart(y) + before + d.day
  <2> DEFINE l == 365 * (d.year - 1) + (d.year - 1) \div 4 - (d.year - 1) \div 100 + (d.year - 1) \div 400
  <2>1. Ordinal(d) = l + (before + d.day)
    BY DEF Ordinal, DayOfYear
  <2>2. YearStart(y) = l
    BY DEF YearStart
  <2> HIDE DEF l, before, y
  <2> QED
    BY <1>1, <1>2, <1>3, <2>1, <2>2
<1>9. leap \in Int /\ d.day <= days
  BY <1>1 DEF Leap
<1> HIDE DEF before, days, leap
<1>5. Ordinal(d) \in Int /\ YearStart(y) < Ordinal(d) /\ Ordinal(d) <= YearStart(y + 1)
  BY <1>1, <1>2, <1>3, <1>4, <1>9
<1>6. Clock(d) \in Int /\ 0 <= Clock(d) /\ Clock(d) <= 86399
  BY DateBounds DEF Clock
<1>7. Seconds(d) = (Ordinal(d) - 730120) * 86400 + Clock(d)
  <2> DEFINE o == (Ordinal(d) - 730120) * 86400
  <2>1. Seconds(d) = o + d.hour * 3600 + d.minute * 60 + d.second
    BY DEF Seconds
  <2>2. o \in Int
    BY <1>5
  <2> HIDE DEF o
  <2>3. Seconds(d) = o + Clock(d)
    BY <2>1, <2>2, DateBounds DEF Clock
  <2> QED
    BY <2>3 DEF o
<1>8. Seconds(d) \in Int
  BY <1>5, <1>6, <1>7
<1> QED
  BY <1>4, <1>5, <1>6, <1>7, <1>8 DEF before, y

\* An earlier day comes before any time of a later one.
LEMMA DaysOrder ==
  ASSUME NEW d \in Dates, NEW e \in Dates
  PROVE  /\ Ordinal(d) < Ordinal(e) => Seconds(d) < Seconds(e)
         /\ Ordinal(d) = Ordinal(e) => (Seconds(d) < Seconds(e) <=> Clock(d) < Clock(e))
<1> DEFINE a == Ordinal(d)
           b == Ordinal(e)
           s == Clock(d)
           t == Clock(e)
<1>1. a \in Int /\ b \in Int /\ s \in Int /\ 0 <= s /\ s <= 86399 /\ t \in Int /\ 0 <= t /\ t <= 86399
  BY SecondsFacts
<1>2. Seconds(d) = (a - 730120) * 86400 + s /\ Seconds(e) = (b - 730120) * 86400 + t
  BY SecondsFacts
<1> HIDE DEF a, b, s, t
<1>3. (a < b => Seconds(d) < Seconds(e)) /\ (a = b => (Seconds(d) < Seconds(e) <=> s < t))
  BY <1>1, <1>2
<1> QED
  BY <1>3 DEF a, b, s, t

\* Dates with the same real fields before n.
SameTo(d, e, n) == \A m \in RealFields : m < n => Part(d, m) = Part(e, m)
\* d and e first differ in field n, and d is the earlier one.
LowerAt(d, e, n) == n \in RealFields /\ SameTo(d, e, n) /\ Part(d, n) < Part(e, n)

LEMMA LowerIsEarlier ==
  ASSUME NEW d \in Dates, NEW e \in Dates, NEW n, LowerAt(d, e, n)
  PROVE  Seconds(d) < Seconds(e)
<1>1. n \in {0, 1, 2, 5, 6, 7} /\ Part(d, n) < Part(e, n)
      /\ (0 < n => d.year = e.year) /\ (1 < n => d.month = e.month) /\ (2 < n => d.day = e.day)
      /\ (5 < n => d.hour = e.hour) /\ (6 < n => d.minute = e.minute)
  BY DateParts DEF LowerAt, SameTo, RealFields
<1>2. /\ d.year \in Nat /\ e.year \in Nat /\ d.month \in Int /\ e.month \in Int
      /\ 1 <= d.month /\ e.month <= 12 /\ d.month <= 12 /\ 1 <= e.month /\ d.year \in Int /\ e.year \in Int
      /\ d.day \in Int /\ e.day \in Int /\ 1 <= e.day /\ d.day <= DaysIn(d.year, d.month)
  BY DateBounds
<1>3. CASE n = 0
  <2>1. d.year < e.year
    BY <1>1, <1>3, DateParts
  <2>2. YearStart(d.year + 1) <= YearStart(e.year) /\ YearStart(d.year + 1) \in Int /\ YearStart(e.year) \in Int
    BY <1>2, <2>1, YearFacts, d.year + 1 \in Nat
  <2>3. Ordinal(d) < Ordinal(e)
    BY <2>2, SecondsFacts
  <2> QED
    BY <2>3, DaysOrder
<1>4. CASE n = 1
  <2>1. d.year = e.year /\ d.month < e.month
    BY <1>1, <1>4, DateParts
  <2>2. /\ DaysBefore(d.year, d.month) \in Int /\ DaysIn(d.year, d.month) \in Int
        /\ MonthOrder(d.year, d.month) /\ DaysBefore(e.year, e.month) \in Int
    BY <1>2, MonthFacts
  <2>5. DaysBefore(d.year, d.month) + DaysIn(d.year, d.month) <= DaysBefore(e.year, e.month)
    BY <1>2, <2>1, <2>2 DEF MonthOrder
  <2>3. YearStart(d.year) \in Int
    BY <1>2, YearFacts
  <2>4. Ordinal(d) < Ordinal(e)
    BY <1>2, <2>1, <2>2, <2>3, <2>5, SecondsFacts
  <2> QED
    BY <2>4, DaysOrder
<1>5. CASE n = 2
  <2>1. d.year = e.year /\ d.month = e.month /\ d.day < e.day
    BY <1>1, <1>5, DateParts
  <2>2. DaysBefore(d.year, d.month) \in Int /\ YearStart(d.year) \in Int
    BY <1>2, MonthFacts, YearFacts
  <2>3. Ordinal(d) < Ordinal(e)
    BY <1>2, <2>1, <2>2, SecondsFacts
  <2> QED
    BY <2>3, DaysOrder
<1>6. CASE n \in {5, 6, 7}
  <2>1. d.year = e.year /\ d.month = e.month /\ d.day = e.day
    BY <1>1, <1>6
  <2>2. Ordinal(d) = Ordinal(e)
    BY <2>1, SecondsFacts
  <2>3. \/ n = 5 /\ d.hour < e.hour
        \/ n = 6 /\ d.hour = e.hour /\ d.minute < e.minute
        \/ n = 7 /\ d.hour = e.hour /\ d.minute = e.minute /\ d.second < e.second
    BY <1>1, <1>6, DateParts
  <2>4. Clock(d) < Clock(e)
    BY <2>3, DateBounds DEF Clock
  <2> QED
    BY <2>2, <2>4, DaysOrder
<1> QED
  BY <1>1, <1>3, <1>4, <1>5, <1>6

LEMMA RealOrder ==
  \A n \in RealFields : n \in 0..7 /\ n \in Int
BY DEF RealFields

\* Two dates are the same up to a field or differ first in one before it.
LEMMA FirstDifference ==
  ASSUME NEW d \in Dates, NEW e \in Dates, NEW k \in 0..8, ~SameTo(d, e, k)
  PROVE  \E n \in RealFields : n < k /\ (LowerAt(d, e, n) \/ LowerAt(e, d, n))
<1> DEFINE T == {n \in RealFields : n < k /\ Part(d, n) # Part(e, n)}
<1>1. T # {} /\ T \in SUBSET Nat
  BY RealOrder DEF SameTo
<1>2. Min(T) \in T /\ \A y \in T : Min(T) <= y
  BY <1>1, MinExists
<1> DEFINE n == Min(T)
<1>3. n \in RealFields /\ n < k /\ Part(d, n) # Part(e, n) /\ n \in Nat
  BY <1>1, <1>2
<1>4. \A m \in RealFields : m < n => Part(d, m) = Part(e, m)
  BY <1>2, <1>3, RealOrder
<1> HIDE DEF n
<1>5. Part(d, n) \in Int /\ Part(e, n) \in Int
  <2>1. n \in {0, 1, 2, 5, 6, 7}
    BY <1>3 DEF RealFields
  <2> QED
    BY <2>1, DateParts, DateBounds
<1>6. LowerAt(d, e, n) \/ LowerAt(e, d, n)
  BY <1>3, <1>4, <1>5 DEF LowerAt, SameTo
<1> QED
  BY <1>3, <1>6

\* A date that is not earlier is the same up to a field, or higher in an earlier one.
LEMMA NotEarlier ==
  ASSUME NEW d \in Dates, NEW e \in Dates, Seconds(d) <= Seconds(e)
  PROVE  /\ \A k \in 0..8 : SameTo(d, e, k) \/ \E n \in RealFields : n < k /\ LowerAt(d, e, n)
         /\ \A n \in RealFields : SameTo(d, e, n) => Part(d, n) <= Part(e, n)
<1>1. Seconds(d) \in Int /\ Seconds(e) \in Int
  BY SecondsFacts
<1>2. \A n : ~LowerAt(e, d, n)
  BY <1>1, LowerIsEarlier
<1>3. ASSUME NEW k \in 0..8
      PROVE  SameTo(d, e, k) \/ \E n \in RealFields : n < k /\ LowerAt(d, e, n)
  BY <1>2, FirstDifference
<1>4. ASSUME NEW n \in RealFields, SameTo(d, e, n), ~(Part(d, n) <= Part(e, n))
      PROVE  FALSE
  <2>1. n \in {0, 1, 2, 5, 6, 7}
    BY <1>4 DEF RealFields
  <2>2. Part(d, n) \in Int /\ Part(e, n) \in Int
    BY <2>1, DateParts, DateBounds
  <2>3. LowerAt(e, d, n)
    BY <1>4, <2>2 DEF LowerAt, SameTo
  <2> QED
    BY <1>2, <2>3
<1> QED
  BY <1>3, <1>4

-----------------------------------------------------------------------------
(* Moves of the walk *)

LEMMA Limits ==
  /\ MinValue[Name(0)] = 1970 /\ MinValue[Name(1)] = 1 /\ MinValue[Name(2)] = 1
  /\ MinValue[Name(3)] = 1 /\ MinValue[Name(4)] = 0
  /\ MinValue[Name(5)] = 0 /\ MinValue[Name(6)] = 0 /\ MinValue[Name(7)] = 0
  /\ \A d : /\ get_max(0, d) = 9999 /\ get_max(1, d) = 12
            /\ get_max(2, d) = DaysIn(d.year, d.month)
            /\ get_max(3, d) = 53 /\ get_max(4, d) = 6
            /\ get_max(5, d) = 23 /\ get_max(6, d) = 59 /\ get_max(7, d) = 59
<1>1. \A d : get_max(2, d) = DaysIn(d.year, d.month)
  BY Names DEF get_max
<1>2. \A d, n : Name(n) # "day" => get_max(n, d) = MaxValue[Name(n)]
  BY DEF get_max
<1> QED
  BY <1>1, <1>2, Names DEF MinValue, MaxValue

LEMMA MonthLength ==
  ASSUME NEW d \in Dates
  PROVE  DaysIn(d.year, d.month) \in Int /\ 28 <= DaysIn(d.year, d.month)
<1>1. d.year \in Int /\ d.month \in Int /\ 1 <= d.month /\ d.month <= 12
  BY DateBounds
<1> QED
  BY <1>1, MonthFacts

\* Every part of a date lies within the limits of its field.
LEMMA PartLimits ==
  ASSUME NEW d \in Dates, NEW n \in RealFields
  PROVE  /\ Part(d, n) \in Int /\ get_max(n, d) \in Int /\ MinValue[Name(n)] \in Int
         /\ MinValue[Name(n)] <= Part(d, n) /\ Part(d, n) <= get_max(n, d)
<1>1. n \in {0, 1, 2, 5, 6, 7}
  BY DEF RealFields
<1>2. CASE n \in {0, 1, 2}
  BY <1>2, Limits, DateParts, DateBounds, MonthLength
<1>3. CASE n \in {5, 6, 7}
  BY <1>3, Limits, DateParts, DateBounds
<1> QED
  BY <1>1, <1>2, <1>3

LEMMA SameMax ==
  ASSUME NEW d \in Dates, NEW e \in Dates, NEW n \in RealFields, SameTo(d, e, n)
  PROVE  get_max(n, d) = get_max(n, e)
<1>1. n \in {0, 1, 2, 5, 6, 7}
  BY DEF RealFields
<1>2. CASE n # 2
  BY <1>1, <1>2, Limits
<1>3. CASE n = 2
  <2>1. d.year = e.year /\ d.month = e.month
    BY <1>3, DateParts DEF SameTo, RealFields
  <2> QED
    BY <1>3, <2>1, Limits
<1> QED
  BY <1>2, <1>3

LEMMA DateMade ==
  ASSUME NEW y \in Int, 1970 <= y, y <= 9999, NEW mo \in Int, 1 <= mo, mo <= 12,
         NEW x \in Int, 1 <= x, x <= DaysIn(y, mo), NEW h \in Int, 0 <= h, h <= 23,
         NEW mi \in Int, 0 <= mi, mi <= 59, NEW s \in Int, 0 <= s, s <= 59
  PROVE  Date(y, mo, x, h, mi, s) \in Dates
<1>1. x <= 31
  BY MonthFacts
<1>2. y \in 1970..9999 /\ mo \in 1..12 /\ x \in 1..31 /\ h \in 0..23 /\ mi \in 0..59 /\ s \in 0..59
  BY <1>1
<1> QED
  BY <1>2 DEF Date, Dates

LEMMA ResetForms ==
  ASSUME NEW d, NEW v
  PROVE  /\ Reset(d, -1, v) = Date(1970, 1, 1, 0, 0, 0)
         /\ Reset(d, 0, v) = Date(v, 1, 1, 0, 0, 0)
         /\ Reset(d, 1, v) = Date(d.year, v, 1, 0, 0, 0)
         /\ Reset(d, 2, v) = Date(d.year, d.month, v, 0, 0, 0)
         /\ Reset(d, 5, v) = Date(d.year, d.month, d.day, v, 0, 0)
         /\ Reset(d, 6, v) = Date(d.year, d.month, d.day, d.hour, v, 0)
         /\ Reset(d, 7, v) = Date(d.year, d.month, d.day, d.hour, d.minute, v)
<1> USE Limits, Names DEF Reset
<1>1. Reset(d, -1, v) = Date(1970, 1, 1, 0, 0, 0)
  OBVIOUS
<1>2. Reset(d, 0, v) = Date(v, 1, 1, 0, 0, 0)
  OBVIOUS
<1>3. Reset(d, 1, v) = Date(d.year, v, 1, 0, 0, 0)
  OBVIOUS
<1>4. Reset(d, 2, v) = Date(d.year, d.month, v, 0, 0, 0)
  OBVIOUS
<1>5. Reset(d, 5, v) = Date(d.year, d.month, d.day, v, 0, 0)
  OBVIOUS
<1>6. Reset(d, 6, v) = Date(d.year, d.month, d.day, d.hour, v, 0)
  OBVIOUS
<1>7. Reset(d, 7, v) = Date(d.year, d.month, d.day, d.hour, d.minute, v)
  OBVIOUS
<1> QED
  BY <1>1, <1>2, <1>3, <1>4, <1>5, <1>6, <1>7

\* A field set to a value within its limits makes a date.
LEMMA ResetFacts ==
  ASSUME NEW d \in Dates, NEW n \in RealFields, NEW v \in Int,
         MinValue[Name(n)] <= v, v <= get_max(n, d)
  PROVE  /\ Reset(d, n, v) \in Dates
         /\ SameTo(d, Reset(d, n, v), n) /\ Part(Reset(d, n, v), n) = v
         /\ \A m \in RealFields : n < m => Part(Reset(d, n, v), m) = MinValue[Name(m)]
<1>1. n \in {0, 1, 2, 5, 6, 7}
  BY DEF RealFields
<1> DEFINE r == Reset(d, n, v)
<1>2. /\ d.year \in Int /\ 1970 <= d.year /\ d.year <= 9999
      /\ d.month \in Int /\ 1 <= d.month /\ d.month <= 12
      /\ d.day \in Int /\ 1 <= d.day /\ d.day <= DaysIn(d.year, d.month)
      /\ d.hour \in Int /\ 0 <= d.hour /\ d.hour <= 23
      /\ d.minute \in Int /\ 0 <= d.minute /\ d.minute <= 59
  BY DateBounds
<1>3. DaysIn(d.year, d.month) \in Int /\ \A y, m \in Int : 1 <= m /\ m <= 12 => 1 <= DaysIn(y, m)
  BY MonthLength, MonthFacts
<1>4. r \in Dates
  <2>0. CASE n = 0
    <3>1. 1970 <= v /\ v <= 9999
      BY <2>0, Limits
    <3>2. r = Date(v, 1, 1, 0, 0, 0)
      BY <2>0, ResetForms
    <3>3. 1 <= DaysIn(v, 1)
      BY <1>3
    <3> QED
      BY <3>1, <3>2, <3>3, DateMade
  <2>1. CASE n = 1
    <3>1. 1 <= v /\ v <= 12
      BY <2>1, Limits
    <3>2. r = Date(d.year, v, 1, 0, 0, 0)
      BY <2>1, ResetForms
    <3>3. 1 <= DaysIn(d.year, v)
      BY <1>2, <1>3, <3>1
    <3> QED
      BY <1>2, <3>1, <3>2, <3>3, DateMade
  <2>2. CASE n = 2
    <3>1. 1 <= v /\ v <= DaysIn(d.year, d.month)
      BY <2>2, Limits
    <3>2. r = Date(d.year, d.month, v, 0, 0, 0)
      BY <2>2, ResetForms
    <3> QED
      BY <1>2, <3>1, <3>2, DateMade
  <2>5. CASE n = 5
    <3>1. 0 <= v /\ v <= 23
      BY <2>5, Limits
    <3>2. r = Date(d.year, d.month, d.day, v, 0, 0)
      BY <2>5, ResetForms
    <3> QED
      BY <1>2, <3>1, <3>2, DateMade
  <2>6. CASE n = 6
    <3>1. 0 <= v /\ v <= 59
      BY <2>6, Limits
    <3>2. r = Date(d.year, d.month, d.day, d.hour, v, 0)
      BY <2>6, ResetForms
    <3> QED
      BY <1>2, <3>1, <3>2, DateMade
  <2>7. CASE n = 7
    <3>1. 0 <= v /\ v <= 59
      BY <2>7, Limits
    <3>2. r = Date(d.year, d.month, d.day, d.hour, d.minute, v)
      BY <2>7, ResetForms
    <3> QED
      BY <1>2, <3>1, <3>2, DateMade
  <2> QED
    BY <1>1, <2>0, <2>1, <2>2, <2>5, <2>6, <2>7
<1>5. /\ Part(r, 0) = r.year /\ Part(r, 1) = r.month /\ Part(r, 2) = r.day
      /\ Part(r, 5) = r.hour /\ Part(r, 6) = r.minute /\ Part(r, 7) = r.second
      /\ Part(d, 0) = d.year /\ Part(d, 1) = d.month /\ Part(d, 2) = d.day
      /\ Part(d, 5) = d.hour /\ Part(d, 6) = d.minute /\ Part(d, 7) = d.second
  BY <1>4, DateParts
<1>6. \A m \in RealFields :
         Part(r, m) = IF m < n THEN Part(d, m) ELSE IF m = n THEN v ELSE MinValue[Name(m)]
  <2>1. CASE n \in {0, 1, 2}
    BY <1>5, <2>1, ResetForms, Limits DEF RealFields, Date
  <2>2. CASE n \in {5, 6, 7}
    BY <1>5, <2>2, ResetForms, Limits DEF RealFields, Date
  <2> QED
    BY <1>1, <2>1, <2>2
<1> HIDE DEF r
<1>7. SameTo(d, r, n) /\ Part(r, n) = v /\ \A m \in RealFields : n < m => Part(r, m) = MinValue[Name(m)]
  BY <1>1, <1>6, RealOrder DEF SameTo
<1> QED
  BY <1>4, <1>7 DEF r

\* It is the first date from d's earlier fields on with that value.
LEMMA ResetIsFirst ==
  ASSUME NEW d \in Dates, NEW e \in Dates, NEW n \in RealFields, NEW v \in Int,
         MinValue[Name(n)] <= v, v <= get_max(n, d)
  PROVE  /\ SameTo(d, e, n) /\ v <= Part(e, n) => Seconds(Reset(d, n, v)) <= Seconds(e)
         /\ \A k \in RealFields : k < n /\ LowerAt(d, e, k) => Seconds(Reset(d, n, v)) < Seconds(e)
<1> DEFINE r == Reset(d, n, v)
<1>1. /\ r \in Dates /\ SameTo(d, r, n) /\ Part(r, n) = v
      /\ \A m \in RealFields : n < m => Part(r, m) = MinValue[Name(m)]
  BY ResetFacts
<1> HIDE DEF r
<1>2. Seconds(r) \in Int /\ Seconds(e) \in Int
  BY <1>1, SecondsFacts
<1>3. ASSUME NEW k \in RealFields, k < n, LowerAt(d, e, k)
      PROVE  Seconds(r) < Seconds(e)
  <2>1. LowerAt(r, e, k)
    BY <1>1, <1>3, RealOrder DEF LowerAt, SameTo
  <2> QED
    BY <1>1, <2>1, LowerIsEarlier
<1>4. ASSUME SameTo(d, e, n), v <= Part(e, n), ~(Seconds(r) <= Seconds(e))
      PROVE  FALSE
  <2>1. Seconds(e) <= Seconds(r) /\ Seconds(e) # Seconds(r)
    BY <1>2, <1>4
  <2>2. SameTo(e, r, n)
    BY <1>1, <1>4 DEF SameTo
  <2>3. \A m \in RealFields : SameTo(e, r, m) => Part(e, m) <= Part(r, m)
    BY <1>1, <2>1, NotEarlier
  <2>4. \A m \in RealFields : LowerAt(e, r, m) => FALSE
    <3> SUFFICES ASSUME NEW m \in RealFields, LowerAt(e, r, m)
                 PROVE  FALSE
      OBVIOUS
    <3>1. Part(e, m) < Part(r, m) /\ Part(e, m) \in Int /\ Part(r, m) \in Int /\ MinValue[Name(m)] <= Part(e, m)
      BY <1>1, PartLimits DEF LowerAt
    <3>2. CASE m < n
      BY <2>2, <3>1, <3>2 DEF SameTo
    <3>3. CASE m = n
      BY <1>1, <1>4, <3>1, <3>3
    <3>4. CASE n < m
      BY <1>1, <3>1, <3>4, PartLimits
    <3> QED
      BY <3>2, <3>3, <3>4, RealOrder
  <2>5. SameTo(e, r, 8)
    BY <1>1, <2>1, <2>4, NotEarlier
  <2>6. Seconds(e) = Seconds(r)
    <3>1. /\ e.year = r.year /\ e.month = r.month /\ e.day = r.day
          /\ e.hour = r.hour /\ e.minute = r.minute /\ e.second = r.second
      BY <1>1, <2>5, DateParts DEF SameTo, RealFields
    <3>2. Ordinal(e) = Ordinal(r) /\ Clock(e) = Clock(r)
      BY <1>1, <3>1, SecondsFacts DEF Clock
    <3> QED
      BY <1>1, <3>2, SecondsFacts
  <2> QED
    BY <2>1, <2>6
<1> QED
  BY <1>2, <1>3, <1>4 DEF r

\* The field that a carry ends in is the least significant one not at its limit.
LEMMA CarryFacts ==
  ASSUME NEW d \in Dates, NEW k \in -1..7
  PROVE  /\ Carry(d, k) = -1 \/ (Carry(d, k) \in RealFields /\ Carry(d, k) <= k /\ Carry(d, k) \in Nat
                                 /\ Part(d, Carry(d, k)) < get_max(Carry(d, k), d))
         /\ \A m \in RealFields : m <= k /\ Part(d, m) < get_max(m, d) => m <= Carry(d, k)
<1> DEFINE T == {m \in 0..k : Real(m) /\ d[Name(m)] < get_max(m, d)}
           D == {-1} \cup T
<1>1. T \subseteq 0..7 /\ T \subseteq Nat
  OBVIOUS
<1>2. IsFiniteSet(T)
  <2>1. T \in SUBSET Nat /\ 7 \in Nat /\ \A s \in T : s <= 7
    BY <1>1
  <2> HIDE DEF T
  <2> QED
    BY <2>1, FS_BoundedSetOfNaturals
<1>3. IsFiniteSet(D) /\ D \subseteq Int /\ D # {}
  <2>1. IsFiniteSet({-1})
    BY FS_Singleton
  <2> HIDE DEF T
  <2>2. IsFiniteSet({-1} \cup T)
    BY <1>2, <2>1, FS_Union
  <2> QED
    BY <1>1, <2>2
<1>4. Max(D) \in D /\ \A y \in D : y <= Max(D)
  <2> HIDE DEF D
  <2> QED
    BY <1>3, MaxExists
<1>5. Carry(d, k) = Max(D)
  BY DEF Carry
<1>6. \A m \in T : m \in RealFields /\ m <= k /\ m \in Nat /\ Part(d, m) < get_max(m, d)
  BY <1>1, RealOnes DEF Part, LastField
<1>7. \A m \in RealFields : m <= k /\ Part(d, m) < get_max(m, d) => m \in T
  BY RealOnes, RealOrder DEF Part, LastField
<1> HIDE DEF T
<1> QED
  BY <1>4, <1>5, <1>6, <1>7

\* A date that is later than d in one of the fields up to k is not before the
\* date counted up there; without one to count up there is none.
LEMMA IncrementFacts ==
  ASSUME NEW d \in Dates, NEW k \in -1..7
  PROVE  LET c == Carry(d, k)
             r == Increment(d, k)
         IN /\ r \in Dates
            /\ c >= 0 => c \in RealFields /\ SameTo(d, r, c) /\ Seconds(d) < Seconds(r)
            /\ \A e \in Dates, n \in RealFields : n <= k /\ LowerAt(d, e, n) =>
                 c >= 0 /\ Seconds(r) <= Seconds(e)
<1> DEFINE c == Carry(d, k)
           r == Increment(d, k)
<1>1. c = -1 \/ (c \in RealFields /\ c <= k /\ c \in Nat /\ Part(d, c) < get_max(c, d))
  BY CarryFacts
<1>2. \A m \in RealFields : m <= k /\ Part(d, m) < get_max(m, d) => m <= c
  BY CarryFacts
<1>3. r = Reset(d, c, IF c < 0 THEN 0 ELSE d[Name(c)] + 1)
  BY DEF Increment
<1> HIDE DEF c, r
<1>4. CASE c = -1
  <2>1. r \in Dates
    <3>1. r = Date(1970, 1, 1, 0, 0, 0)
      BY <1>3, <1>4, ResetForms
    <3>2. 1 <= DaysIn(1970, 1)
      BY MonthFacts
    <3> QED
      BY <3>1, <3>2, DateMade
  <2>2. ASSUME NEW e \in Dates, NEW n \in RealFields, n <= k, LowerAt(d, e, n)
        PROVE  FALSE
    <3>1. Part(d, n) < Part(e, n) /\ SameTo(d, e, n)
      BY <2>2 DEF LowerAt
    <3>2. get_max(n, d) = get_max(n, e)
      BY <3>1, SameMax
    <3>3. Part(d, n) < get_max(n, d)
      BY <3>1, <3>2, PartLimits
    <3> QED
      BY <1>2, <1>4, <2>2, <3>3, RealOrder
  <2> QED
    BY <1>4, <2>1, <2>2 DEF c, r
<1>5. CASE c # -1
  <2>1. c \in RealFields /\ c \in Nat /\ c <= k /\ Part(d, c) < get_max(c, d)
    BY <1>1, <1>5
  <2> DEFINE v == Part(d, c) + 1
  <2>2. v \in Int /\ MinValue[Name(c)] <= v /\ v <= get_max(c, d) /\ Part(d, c) \in Int
    BY <2>1, PartLimits
  <2>3. r = Reset(d, c, v)
    BY <1>3, <2>1 DEF Part
  <2>4. r \in Dates /\ SameTo(d, r, c) /\ Part(r, c) = v
    <3> HIDE DEF v
    <3> QED
      BY <2>1, <2>2, <2>3, ResetFacts
  <2>5. Seconds(d) < Seconds(r)
    <3>1. LowerAt(d, r, c)
      BY <2>1, <2>2, <2>4 DEF LowerAt
    <3> QED
      BY <2>4, <3>1, LowerIsEarlier
  <2>6. ASSUME NEW e \in Dates, NEW n \in RealFields, n <= k, LowerAt(d, e, n)
        PROVE  Seconds(r) <= Seconds(e)
    <3>1. Part(d, n) < Part(e, n) /\ SameTo(d, e, n)
      BY <2>6 DEF LowerAt
    <3>2. get_max(n, d) = get_max(n, e)
      BY <3>1, SameMax
    <3>3. Part(d, n) < get_max(n, d)
      BY <3>1, <3>2, PartLimits
    <3>4. n <= c /\ n \in Int
      BY <1>2, <2>6, <3>3, RealOrder
    <3>5. CASE n = c
      <4>1. v <= Part(e, c) /\ SameTo(d, e, c)
        BY <2>1, <2>2, <3>1, <3>5, PartLimits
      <4> HIDE DEF v
      <4> QED
        BY <2>1, <2>2, <2>3, <4>1, ResetIsFirst
    <3>6. CASE n < c
      <4> HIDE DEF v
      <4>1. Seconds(r) < Seconds(e)
        BY <2>1, <2>2, <2>3, <2>6, <3>6, ResetIsFirst
      <4> QED
        BY <2>4, <4>1, SecondsFacts
    <3> QED
      BY <2>1, <3>4, <3>5, <3>6
  <2> QED
    BY <1>5, <2>1, <2>4, <2>5, <2>6 DEF c, r
<1> QED
  BY <1>4, <1>5

-----------------------------------------------------------------------------
(* Expressions: the next value of one is the least that it takes *)

LEMMA ModFacts ==
  ASSUME NEW n \in Nat \ {0}, NEW d \in Int
  PROVE  /\ d % n \in Int /\ 0 <= d % n /\ d % n < n
         /\ d = n * (d \div n) + (d % n)
OBVIOUS

Steps(v, low, step) == step = 0 \/ (v - low) % step = 0

\* w is the least from value on that is a number of steps from low.
LeastStep(w, value, low, step) ==
  /\ w \in Int /\ value <= w /\ Steps(w, low, step)
  /\ \A v \in Int : value <= v /\ Steps(v, low, step) => w <= v

LEMMA StepUpFacts ==
  ASSUME NEW value \in Int, NEW low \in Int, low <= value, NEW step \in Nat
  PROVE  LeastStep(StepUp(value, low, step), value, low, step)
<1>1. CASE step = 0
  BY <1>1 DEF StepUp, Steps, LeastStep
<1>2. CASE step # 0
  <2> DEFINE a == step - (value - low)
             q == a \div step
             r == a % step
             w == value + r
             m == 1 - q
             p == step * m
  <2>1. a \in Int /\ step \in Nat \ {0}
    BY <1>2
  <2>2. q \in Int /\ r \in Int /\ 0 <= r /\ r < step /\ a = step * q + r
    <3> HIDE DEF a
    <3> QED
      BY <2>1, ModFacts, DivisionFacts
  <2>3. StepUp(value, low, step) = w
    BY <1>2 DEF StepUp
  <2>4. step * q \in Int /\ m \in Int /\ p = step - step * q
    <3> HIDE DEF q
    <3> QED
      BY <2>2
  <2>5. w \in Int /\ value <= w /\ w - low = p
    <3> DEFINE z == step * q
    <3> HIDE DEF q, r, p, z
    <3> QED
      BY <2>1, <2>2, <2>4 DEF z
  <2>6. p % step = 0
    <3> HIDE DEF m
    <3> QED
      BY <2>1, <2>4, DivisionFacts
  <2>7. ASSUME NEW v \in Int, value <= v, (v - low) % step = 0, ~(w <= v)
        PROVE  FALSE
    <3> DEFINE b == v - low
               k == b \div step
    <3>1. b \in Int /\ b < p /\ b >= value - low
      <4> HIDE DEF w, p
      <4> QED
        BY <2>4, <2>5, <2>7
    <3>2. k \in Int /\ b = step * k
      <4>1. b % step = 0
        BY <2>7
      <4> HIDE DEF b
      <4> QED
        BY <2>1, <3>1, <4>1, DivisionFacts
    <3>3. step * k <= step * m - step
      <4>1. step * k < step * m
        BY <3>1, <3>2
      <4> HIDE DEF k, m
      <4> QED
        BY <2>1, <2>4, <3>2, <4>1, MultipleBelow
    <3>4. b <= p - step
      BY <3>2, <3>3
    <3>5. p = value + r - low
      <4> HIDE DEF r, p
      <4> QED
        BY <2>2, <2>4, <2>5
    <3> HIDE DEF b, p, r
    <3> QED
      BY <2>1, <2>2, <3>1, <3>4, <3>5
  <2> HIDE DEF w
  <2> QED
    BY <1>2, <2>3, <2>5, <2>6, <2>7 DEF Steps, LeastStep
<1> QED
  BY <1>1, <1>2

\* The days before the first of the month of d, in all.
MonthStart(d) == YearStart(d.year) + DaysBefore(d.year, d.month)

\* e takes the value v in field n of a date with the earlier fields of d.
Hit(e, n, d, v) ==
  CASE e.kind = "all"   -> Steps(v, MinValue[Name(n)], e.step)
    [] e.kind = "range" -> e.first <= v /\ (e.last # NoValue => v <= e.last) /\ Steps(v, e.first, e.step)
    [] e.kind = "position" ->
         /\ (MonthStart(d) + v + 6) % 7 = e.weekday
         /\ IF e.nth < 5 THEN (v - 1) \div 7 = e.nth ELSE v + 7 > DaysIn(d.year, d.month)
    [] e.kind = "last"  -> v = DaysIn(d.year, d.month)
NextOf(e, n, d) ==
  CASE e.kind = "all"      -> NextOfAll(e, n, d)
    [] e.kind = "range"    -> NextOfRange(e, n, d)
    [] e.kind = "position" -> NextOfPosition(e, n, d)
    [] e.kind = "last"     -> DaysIn(d.year, d.month)
ValidFor(n) == {e \in Expressions : Valid(e, Name(n))}

LEMMA DayNames == \A n \in 0..7 : Name(n) = "day" <=> n = 2
<1>1. \A n \in 0..7 : n \in {0, 1, 2, 3, 4, 5, 6, 7}
  OBVIOUS
<1> QED
  BY <1>1, Names

LEMMA ExpressionFacts ==
  ASSUME NEW n \in 0..7, NEW e \in ValidFor(n)
  PROVE  \/ e.kind = "all" /\ e.step \in Nat
         \/ /\ e.kind = "range" /\ e.step \in Nat /\ e.first \in Nat /\ e.last \in Nat \cup {NoValue}
            /\ MinValue[Name(n)] <= e.first
         \/ e.kind = "position" /\ n = 2 /\ e.nth \in 0..5 /\ e.weekday \in 0..6
         \/ e.kind = "last" /\ n = 2
<1>1. e \in Expressions /\ Valid(e, Name(n))
  BY DEF ValidFor
<1>2. CASE e.kind = "all"
  BY <1>1, <1>2 DEF Expressions
<1>3. CASE e.kind = "range"
  <2>1. e.step \in Nat /\ e.first \in Nat /\ e.last \in Nat \cup {NoValue}
    BY <1>1, <1>3 DEF Expressions
  <2>2. MinValue[Name(n)] <= e.first
    BY <1>1, <1>3 DEF Valid
  <2> QED
    BY <1>3, <2>1, <2>2
<1>4. CASE e.kind = "position"
  <2>1. e.nth \in 0..5 /\ e.weekday \in 0..6
    BY <1>1, <1>4 DEF Expressions
  <2>2. n = 2
    BY <1>1, <1>4, DayNames DEF Valid
  <2> QED
    BY <1>4, <2>1, <2>2
<1>5. CASE e.kind = "last"
  BY <1>1, <1>5, DayNames DEF Valid
<1>6. e.kind \in {"all", "range", "position", "last"}
  BY <1>1 DEF Expressions
<1> QED
  BY <1>2, <1>3, <1>4, <1>5, <1>6

LEMMA DayFacts ==
  ASSUME NEW d \in Dates
  PROVE  /\ MonthStart(d) \in Int /\ Ordinal(d) = MonthStart(d) + d.day
         /\ Weekday(d) = (MonthStart(d) + d.day + 6) % 7
         /\ Weekday([d EXCEPT !.day = 1]) = (MonthStart(d) + 7) % 7
<1>1. d.year \in Nat /\ d.year \in Int /\ d.month \in Int /\ 1 <= d.month /\ d.month <= 12 /\ d.day \in Int
  BY DateBounds
<1>2. YearStart(d.year) \in Int /\ DaysBefore(d.year, d.month) \in Int
  BY <1>1, YearFacts, MonthFacts
<1>3. MonthStart(d) \in Int /\ Ordinal(d) = MonthStart(d) + d.day
  BY <1>1, <1>2, SecondsFacts DEF MonthStart
<1> DEFINE f == [d EXCEPT !.day = 1]
<1>4. f.year = d.year /\ f.month = d.month /\ f.day = 1
  BY DEF Dates
<1> HIDE DEF f
<1>5. Ordinal(f) = MonthStart(d) + 1
  <2> DEFINE l == 365 * (d.year - 1) + (d.year - 1) \div 4 - (d.year - 1) \div 100 + (d.year - 1) \div 400
  <2>1. Ordinal(f) = l + (DaysBefore(d.year, d.month) + 1)
    BY <1>4 DEF Ordinal, DayOfYear
  <2>2. YearStart(d.year) = l
    BY DEF YearStart
  <2> HIDE DEF l
  <2> QED
    BY <1>2, <2>1, <2>2 DEF MonthStart
<1>6. Weekday(f) = (MonthStart(d) + 7) % 7
  <2>1. MonthStart(d) + 1 + 6 = MonthStart(d) + 7
    BY <1>3
  <2> QED
    BY <1>5, <2>1 DEF Weekday
<1> QED
  BY <1>3, <1>6 DEF Weekday, f

LEMMA SevenDays ==
  ASSUME NEW x \in Int
  PROVE  x % 7 \in Int /\ 0 <= x % 7 /\ x % 7 <= 6
OBVIOUS

LEMMA WeekFacts ==
  ASSUME NEW d \in Dates
  PROVE  /\ IsoWeek(d) \in Int /\ 1 <= IsoWeek(d) /\ IsoWeek(d) <= 53
         /\ Weekday(d) \in Int /\ 0 <= Weekday(d) /\ Weekday(d) <= 6
<1>1. Weekday(d) \in Int /\ 0 <= Weekday(d) /\ Weekday(d) <= 6
  <2>0. d.day \in Int
    BY DateBounds
  <2>1. MonthStart(d) \in Int /\ Weekday(d) = (MonthStart(d) + d.day + 6) % 7
    BY DayFacts
  <2> DEFINE x == MonthStart(d) + d.day + 6
  <2>2. x \in Int /\ Weekday(d) = x % 7
    BY <2>0, <2>1
  <2> HIDE DEF x
  <2> QED
    BY <2>2, SevenDays
<1>2. DayOfYear(d) \in Int /\ 1 <= DayOfYear(d) /\ DayOfYear(d) <= 366
  <2>1. d.year \in Int /\ d.month \in Int /\ 1 <= d.month /\ d.month <= 12
        /\ d.day \in Int /\ 1 <= d.day /\ d.day <= DaysIn(d.year, d.month)
    BY DateBounds
  <2> DEFINE before == DaysBefore(d.year, d.month)
             days == DaysIn(d.year, d.month)
  <2>2. before \in Int /\ 0 <= before /\ before + days <= 366 /\ days \in Int
    <3> DEFINE leap == Leap(d.year)
    <3>1. before \in Int /\ 0 <= before /\ before + days <= 365 + leap /\ days \in Int
      BY <2>1, MonthFacts
    <3>2. leap \in Int /\ leap <= 1
      BY DEF Leap
    <3> HIDE DEF leap, before, days
    <3> QED
      BY <3>1, <3>2
  <2>3. DayOfYear(d) = before + d.day
    BY DEF DayOfYear
  <2> HIDE DEF before
  <2> QED
    BY <2>1, <2>2, <2>3
<1> DEFINE w == (DayOfYear(d) - Weekday(d) + 9) \div 7
<1>3. w \in Int
  BY <1>1, <1>2
<1>4. \A y : IsoWeeks(y) \in {52, 53}
  BY DEF IsoWeeks
<1>5. IsoWeek(d) = CASE w < 1 -> IsoWeeks(d.year - 1)
                     [] w > IsoWeeks(d.year) -> 1
                     [] OTHER -> w
  BY DEF IsoWeek
<1> HIDE DEF w
<1>6. IsoWeek(d) \in Int /\ 1 <= IsoWeek(d) /\ IsoWeek(d) <= 53
  <2>1. IsoWeeks(d.year) \in {52, 53} /\ IsoWeeks(d.year - 1) \in {52, 53}
    BY <1>4
  <2>2. CASE w < 1
    BY <1>3, <1>5, <2>1, <2>2
  <2>3. CASE w >= 1 /\ w > IsoWeeks(d.year)
    BY <1>3, <1>5, <2>1, <2>3
  <2>4. CASE w >= 1 /\ w <= IsoWeeks(d.year)
    BY <1>3, <1>5, <2>1, <2>4
  <2> QED
    BY <1>3, <2>1, <2>2, <2>3, <2>4
<1> QED
  BY <1>1, <1>6

\* The value of a field lies within its limits.
LEMMA ValueFacts ==
  ASSUME NEW d \in Dates, NEW n \in 0..7
  PROVE  /\ get_value(n, d) \in Int /\ get_max(n, d) \in Int /\ MinValue[Name(n)] \in Nat
         /\ MinValue[Name(n)] <= get_value(n, d) /\ get_value(n, d) <= get_max(n, d)
         /\ n \in RealFields => get_value(n, d) = Part(d, n)
<1>1. n \in {0, 1, 2, 3, 4, 5, 6, 7}
  OBVIOUS
<1>2. get_value(3, d) = IsoWeek(d) /\ get_value(4, d) = Weekday(d)
  BY Names DEF get_value
<1>3. n \in RealFields => get_value(n, d) = Part(d, n)
  BY Names DEF get_value, Part, RealFields
<1>4. CASE n = 3
  BY <1>2, <1>4, WeekFacts, Limits DEF RealFields
<1>5. CASE n = 4
  BY <1>2, <1>5, WeekFacts, Limits DEF RealFields
<1>6. CASE n \notin {3, 4}
  <2>1. n \in RealFields
    BY <1>1, <1>6 DEF RealFields
  <2>2. MinValue[Name(n)] \in Nat
    BY <1>1, Limits
  <2> QED
    BY <1>3, <2>1, <2>2, PartLimits
<1> QED
  BY <1>4, <1>5, <1>6

\* What an expression matches is decided by the value of the field.
LEMMA HitMeans ==
  ASSUME NEW d \in Dates, NEW n \in 0..7, NEW e \in ValidFor(n)
  PROVE  Matches(e, n, d) <=> Hit(e, n, d, get_value(n, d))
<1>1. n = 2 => get_value(n, d) = d.day
  BY ValueFacts, DateParts DEF RealFields
<1>2. CASE e.kind = "all"
  BY <1>2 DEF Matches, Hit, Steps
<1>3. CASE e.kind = "range"
  BY <1>3 DEF Matches, Hit, Steps
<1>4. CASE e.kind = "position"
  <2>1. n = 2
    BY <1>4, ExpressionFacts
  <2> QED
    BY <1>1, <1>4, <2>1, DayFacts DEF Matches, Hit
<1>5. CASE e.kind = "last"
  <2>1. n = 2
    BY <1>5, ExpressionFacts
  <2> QED
    BY <1>1, <1>5, <2>1 DEF Matches, Hit
<1> QED
  BY <1>2, <1>3, <1>4, <1>5, ExpressionFacts

\* What a field is given does not depend on the fields after it.
LEMMA HitAgrees ==
  ASSUME NEW d \in Dates, NEW d2 \in Dates, NEW n \in 0..7, NEW e \in ValidFor(n), SameTo(d, d2, n), NEW v
  PROVE  Hit(e, n, d, v) <=> Hit(e, n, d2, v)
<1>1. n = 2 => d.year = d2.year /\ d.month = d2.month
  BY DateParts DEF SameTo, RealFields
<1>2. CASE e.kind = "all"
  BY <1>2 DEF Hit
<1>3. CASE e.kind = "range"
  BY <1>3 DEF Hit
<1>4. CASE e.kind \in {"position", "last"}
  <2>1. n = 2
    BY <1>4, ExpressionFacts
  <2>2. d.year = d2.year /\ d.month = d2.month
    BY <1>1, <2>1
  <2> QED
    BY <1>4, <2>2 DEF Hit, MonthStart
<1> QED
  BY <1>2, <1>3, <1>4, ExpressionFacts

\* x is the least value from c on that e takes, if there is one.
IsNext(x, e, n, d, c) ==
  /\ x = NoValue \/ (x \in Int /\ c <= x /\ x <= get_max(n, d) /\ Hit(e, n, d, x))
  /\ \A v \in Int : c <= v /\ v <= get_max(n, d) /\ Hit(e, n, d, v) => x # NoValue /\ x <= v

LEMMA AllNext ==
  ASSUME NEW d \in Dates, NEW n \in 0..7, NEW e \in ValidFor(n), e.kind = "all"
  PROVE  IsNext(NextOf(e, n, d), e, n, d, get_value(n, d))
<1> DEFINE c == get_value(n, d)
           low == MinValue[Name(n)]
           high == get_max(n, d)
           step == e.step
           w == StepUp(c, low, step)
<1>1. c \in Int /\ low \in Nat /\ high \in Int /\ low <= c /\ c <= high
  BY ValueFacts
<1>2. step \in Nat
  BY ExpressionFacts
<1>3. NextOf(e, n, d) = UpTo(w, high)
  <2>1. Larger(c, low) = c
    BY <1>1 DEF Larger
  <2> QED
    BY <2>1 DEF NextOf, NextOfAll, get_min
<1>4. \A v : Hit(e, n, d, v) <=> Steps(v, low, step)
  BY DEF Hit
<1> HIDE DEF c, low, high, step
<1>5. /\ w \in Int /\ c <= w /\ Steps(w, low, step)
      /\ \A v \in Int : c <= v /\ Steps(v, low, step) => w <= v
  <2>1. LeastStep(w, c, low, step)
    BY <1>1, <1>2, StepUpFacts
  <2> QED
    BY <2>1 DEF LeastStep
<1> HIDE DEF w
<1>6. w # NoValue
  BY <1>1, <1>5, CronAssumption
<1> QED
  BY <1>1, <1>3, <1>4, <1>5, <1>6 DEF IsNext, UpTo, c, high

LEMMA RangeNext ==
  ASSUME NEW d \in Dates, NEW n \in 0..7, NEW e \in ValidFor(n), e.kind = "range"
  PROVE  IsNext(NextOf(e, n, d), e, n, d, get_value(n, d))
<1> DEFINE c == get_value(n, d)
           low == e.first
           max == get_max(n, d)
           high == IF e.last # NoValue /\ e.last < max THEN e.last ELSE max
           from == Larger(c, low)
           step == e.step
           w == StepUp(from, low, step)
<1>1. c \in Int /\ max \in Int /\ MinValue[Name(n)] \in Nat /\ MinValue[Name(n)] <= c /\ c <= max
  BY ValueFacts
<1>2. /\ step \in Nat /\ low \in Nat /\ MinValue[Name(n)] <= low /\ e.last \in Nat \cup {NoValue}
  BY ExpressionFacts
<1>3. NextOf(e, n, d) = UpTo(w, high)
  <2>1. Larger(get_min(n, d), e.first) = e.first
    BY <1>1, <1>2 DEF Larger, get_min
  <2> QED
    BY <2>1 DEF NextOf, NextOfRange
<1>4. \A v : Hit(e, n, d, v) <=> low <= v /\ (e.last # NoValue => v <= e.last) /\ Steps(v, low, step)
  BY DEF Hit
<1>5. high \in Int /\ \A v \in Int : v <= high <=> v <= max /\ (e.last # NoValue => v <= e.last)
  BY <1>1, <1>2
<1> HIDE DEF c, low, high, max, step
<1>6. from \in Int /\ low <= from /\ c <= from /\ \A v \in Int : c <= v /\ low <= v => from <= v
  BY <1>1, <1>2 DEF Larger
<1> HIDE DEF from
<1>7. /\ w \in Int /\ from <= w /\ Steps(w, low, step)
      /\ \A v \in Int : from <= v /\ Steps(v, low, step) => w <= v
  <2>1. LeastStep(w, from, low, step)
    BY <1>2, <1>6, StepUpFacts
  <2> QED
    BY <2>1 DEF LeastStep
<1> HIDE DEF w
<1>8. w # NoValue
  BY <1>1, <1>2, <1>6, <1>7, CronAssumption
<1>9. c <= w /\ low <= w
  BY <1>1, <1>2, <1>6, <1>7
<1>10. UpTo(w, high) = NoValue \/ (UpTo(w, high) \in Int /\ c <= UpTo(w, high) /\ UpTo(w, high) <= max /\ Hit(e, n, d, UpTo(w, high)))
  BY <1>4, <1>5, <1>7, <1>9 DEF UpTo
<1>11. ASSUME NEW v \in Int, c <= v, v <= max, Hit(e, n, d, v)
       PROVE  UpTo(w, high) # NoValue /\ UpTo(w, high) <= v
  <2>1. low <= v /\ v <= high /\ Steps(v, low, step)
    BY <1>4, <1>5, <1>11
  <2>2. w <= v
    BY <1>6, <1>7, <1>11, <2>1
  <2> QED
    BY <1>5, <1>7, <1>8, <2>1, <2>2 DEF UpTo
<1> QED
  BY <1>3, <1>10, <1>11 DEF IsNext, c, max

\* The first day of a month that is a given weekday, and the days that are it.
LEMMA FirstWeekday ==
  ASSUME NEW m \in Int, NEW weekday \in Int, 0 <= weekday, weekday <= 6, NEW hit,
         LET w == weekday - ((m + 7) % 7) + 1
         IN hit = IF w <= 0 THEN w + 7 ELSE w
  PROVE  /\ hit \in Int /\ 1 <= hit /\ hit <= 7
         /\ \A v \in Int : (m + v + 6) % 7 = weekday <=> (v - hit) % 7 = 0
<1> DEFINE a == (m + 7) % 7
<1>1. a \in Int /\ 0 <= a /\ a <= 6
  OBVIOUS
<1>2. \A v \in Int : (m + v + 6) % 7 = weekday <=> (a + v - 1 - weekday) % 7 = 0
  OBVIOUS
<1> HIDE DEF a
<1>3. hit = (IF weekday - a + 1 <= 0 THEN weekday - a + 8 ELSE weekday - a + 1)
  BY DEF a
<1>4. hit \in Int /\ 1 <= hit /\ hit <= 7
  BY <1>1, <1>3
<1>5. \A v \in Int : (a + v - 1 - weekday) % 7 = 0 <=> (v - hit) % 7 = 0
  BY <1>1, <1>3
<1> QED
  BY <1>2, <1>4, <1>5

LEMMA NthWeekday ==
  ASSUME NEW hit \in Int, 1 <= hit, hit <= 7, NEW v \in Int, NEW nth \in Int
  PROVE  (v - hit) % 7 = 0 /\ (v - 1) \div 7 = nth <=> v = hit + nth * 7
OBVIOUS

LEMMA LastWeekday ==
  ASSUME NEW hit \in Int, NEW v \in Int, NEW last \in Int
  PROVE  (v - hit) % 7 = 0 /\ v <= last /\ v + 7 > last <=> v = hit + ((last - hit) \div 7) * 7
OBVIOUS

LEMMA PositionNext ==
  ASSUME NEW d \in Dates, NEW n \in 0..7, NEW e \in ValidFor(n), e.kind = "position"
  PROVE  IsNext(NextOf(e, n, d), e, n, d, get_value(n, d))
<1> DEFINE c == d.day
           last == DaysIn(d.year, d.month)
           m == MonthStart(d)
           weekday == e.weekday
           nth == e.nth
           w == weekday - ((m + 7) % 7) + 1
           hit == IF w <= 0 THEN w + 7 ELSE w
           target == IF nth < 5 THEN hit + nth * 7 ELSE hit + ((last - hit) \div 7) * 7
           x == IF target <= last /\ target >= c THEN target ELSE NoValue
<1>1. n = 2 /\ nth \in 0..5 /\ weekday \in 0..6
  BY ExpressionFacts
<1>2. get_value(n, d) = c /\ get_max(n, d) = last
  BY <1>1, ValueFacts, DateParts, Limits DEF RealFields
<1>3. c \in Int /\ 1 <= c /\ c <= last
  BY DateBounds
<1>4. last \in Int /\ 28 <= last
  BY MonthLength
<1>5. m \in Int /\ Weekday([d EXCEPT !.day = 1]) = (m + 7) % 7
  BY DayFacts
<1>6. NextOf(e, n, d) = x
  BY <1>5 DEF NextOf, NextOfPosition
<1>7. \A v : Hit(e, n, d, v) <=>
               /\ (m + v + 6) % 7 = weekday
               /\ IF nth < 5 THEN (v - 1) \div 7 = nth ELSE v + 7 > last
  BY DEF Hit
<1>8. weekday \in Int /\ 0 <= weekday /\ weekday <= 6 /\ nth \in Int /\ 0 <= nth
  BY <1>1
<1> HIDE DEF c, last, m, weekday, nth
<1>9. /\ hit \in Int /\ 1 <= hit /\ hit <= 7
      /\ \A v \in Int : (m + v + 6) % 7 = weekday <=> (v - hit) % 7 = 0
  <2> DEFINE h == hit
  <2>1. LET u == weekday - ((m + 7) % 7) + 1 IN h = IF u <= 0 THEN u + 7 ELSE u
    OBVIOUS
  <2> HIDE DEF h
  <2>2. /\ h \in Int /\ 1 <= h /\ h <= 7
        /\ \A v \in Int : (m + v + 6) % 7 = weekday <=> (v - h) % 7 = 0
    BY <1>5, <1>8, <2>1, FirstWeekday
  <2> QED
    BY <2>2 DEF h
<1> HIDE DEF hit
<1>10. target \in Int /\ 1 <= target
  BY <1>4, <1>8, <1>9
<1>11. ASSUME NEW v \in Int, v <= last
       PROVE  Hit(e, n, d, v) <=> v = target
  <2>1. CASE nth < 5
    <3>1. Hit(e, n, d, v) <=> (v - hit) % 7 = 0 /\ (v - 1) \div 7 = nth
      BY <1>7, <1>9, <1>11, <2>1
    <3> QED
      BY <1>8, <1>9, <1>11, <2>1, <3>1, NthWeekday
  <2>2. CASE ~(nth < 5)
    <3>1. Hit(e, n, d, v) <=> (v - hit) % 7 = 0 /\ v <= last /\ v + 7 > last
      BY <1>7, <1>9, <1>11, <2>2
    <3> QED
      BY <1>4, <1>9, <1>11, <2>2, <3>1, LastWeekday
  <2> QED
    BY <2>1, <2>2
<1> HIDE DEF target
<1>12. target # NoValue
  <2>1. target \in Nat
    BY <1>10
  <2> QED
    BY <2>1, CronAssumption
<1> QED
  BY <1>2, <1>3, <1>4, <1>6, <1>10, <1>11, <1>12 DEF IsNext

LEMMA LastNext ==
  ASSUME NEW d \in Dates, NEW n \in 0..7, NEW e \in ValidFor(n), e.kind = "last"
  PROVE  IsNext(NextOf(e, n, d), e, n, d, get_value(n, d))
<1> DEFINE last == DaysIn(d.year, d.month)
<1>1. n = 2
  BY ExpressionFacts
<1>2. get_value(n, d) = d.day /\ get_max(n, d) = last
  BY <1>1, ValueFacts, DateParts, Limits DEF RealFields
<1>3. d.day \in Int /\ d.day <= last
  BY DateBounds
<1>4. last \in Nat
  BY MonthLength
<1>5. NextOf(e, n, d) = last /\ \A v : Hit(e, n, d, v) <=> v = last
  BY DEF NextOf, Hit
<1> HIDE DEF last
<1>6. last # NoValue
  BY <1>4, CronAssumption
<1> QED
  BY <1>2, <1>3, <1>4, <1>5, <1>6 DEF IsNext

LEMMA ExpressionNext ==
  ASSUME NEW d \in Dates, NEW n \in 0..7, NEW e \in ValidFor(n)
  PROVE  IsNext(NextOf(e, n, d), e, n, d, get_value(n, d))
<1>1. CASE e.kind = "all"
  BY <1>1, AllNext
<1>2. CASE e.kind = "range"
  BY <1>2, RangeNext
<1>3. CASE e.kind = "position"
  BY <1>3, PositionNext
<1>4. CASE e.kind = "last"
  BY <1>4, LastNext
<1> QED
  BY <1>1, <1>2, <1>3, <1>4, ExpressionFacts

\* A field takes the value v, with the earlier fields of d.
Takes(n, d, v) == \E e \in trigger[n] : Hit(e, n, d, v)

\* The next value of a field is the least of its expressions' (fields.py).
LEMMA FieldNext ==
  ASSUME NEW d \in Dates, NEW n \in 0..7, trigger[n] \subseteq ValidFor(n)
  PROVE  LET x == get_next_value(n, d)
             c == get_value(n, d)
         IN /\ x = NoValue \/ (x \in Int /\ c <= x /\ x <= get_max(n, d) /\ Takes(n, d, x))
            /\ \A v \in Int : c <= v /\ v <= get_max(n, d) /\ Takes(n, d, v) => x # NoValue /\ x <= v
<1> DEFINE c == get_value(n, d)
           high == get_max(n, d)
           values == {NextOf(e, n, d) : e \in trigger[n]} \ {NoValue}
           x == IF values = {} THEN NoValue ELSE Min(values)
<1>1. get_next_value(n, d) = x
  BY DEF get_next_value, NextOf
<1>2. c \in Int /\ high \in Int /\ 0 <= c
  BY ValueFacts
<1>3. \A e \in trigger[n] : IsNext(NextOf(e, n, d), e, n, d, c)
  BY ExpressionNext
<1>4. \A y \in values : y \in Nat /\ c <= y /\ y <= high /\ Takes(n, d, y)
  <2> SUFFICES ASSUME NEW y \in values
               PROVE  y \in Nat /\ c <= y /\ y <= high /\ Takes(n, d, y)
    OBVIOUS
  <2>1. PICK e \in trigger[n] : y = NextOf(e, n, d) /\ y # NoValue
    OBVIOUS
  <2>2. y \in Int /\ c <= y /\ y <= high /\ Hit(e, n, d, y)
    BY <1>3, <2>1 DEF IsNext
  <2> HIDE DEF c, high, values
  <2> QED
    BY <1>2, <2>2 DEF Takes
<1>5. \A v \in Int : c <= v /\ v <= high /\ Takes(n, d, v) => \E y \in values : y <= v
  <2> SUFFICES ASSUME NEW v \in Int, c <= v, v <= high, Takes(n, d, v)
               PROVE  \E y \in values : y <= v
    OBVIOUS
  <2>1. PICK e \in trigger[n] : Hit(e, n, d, v)
    BY DEF Takes
  <2>2. NextOf(e, n, d) # NoValue /\ NextOf(e, n, d) <= v
    BY <1>3, <2>1 DEF IsNext
  <2> QED
    BY <2>2
<1> HIDE DEF values, c, high
<1>6. CASE values = {}
  BY <1>1, <1>5, <1>6 DEF c, high
<1>7. CASE values # {}
  <2> DEFINE least == Min(values)
  <2>1. least \in values /\ \A y \in values : least <= y
    BY <1>4, <1>7, MinExists
  <2>2. x = least
    BY <1>7
  <2> HIDE DEF least
  <2>3. least \in Nat /\ c <= least /\ least <= high /\ Takes(n, d, least)
    BY <1>4, <2>1
  <2>4. least # NoValue
    BY <2>3, CronAssumption
  <2>5. ASSUME NEW v \in Int, c <= v, v <= high, Takes(n, d, v)
        PROVE  least <= v
    <3>1. PICK y \in values : y <= v
      BY <1>5, <2>5
    <3>2. y \in Nat /\ least <= y
      BY <1>4, <2>1, <3>1
    <3> QED
      BY <2>3, <3>1, <3>2
  <2> QED
    BY <1>1, <2>2, <2>3, <2>4, <2>5 DEF c, high
<1> QED
  BY <1>6, <1>7

\* A date fits a field if the field takes the date's value; earlier fields
\* decide which those are.
LEMMA FitsMeans ==
  ASSUME NEW d \in Dates, NEW n \in 0..7, trigger[n] \subseteq ValidFor(n)
  PROVE  /\ Fits(n, d) <=> Takes(n, d, get_value(n, d))
         /\ \A e \in Dates : \A v : SameTo(d, e, n) => (Takes(n, d, v) <=> Takes(n, e, v))
<1>1. Fits(n, d) <=> Takes(n, d, get_value(n, d))
  <2>1. \A x \in trigger[n] : Matches(x, n, d) <=> Hit(x, n, d, get_value(n, d))
    BY HitMeans
  <2> QED
    BY <2>1 DEF Fits, Takes
<1>2. ASSUME NEW e \in Dates, NEW v, SameTo(d, e, n)
      PROVE  Takes(n, d, v) <=> Takes(n, e, v)
  <2>1. \A x \in trigger[n] : Hit(x, n, d, v) <=> Hit(x, n, e, v)
    BY <1>2, HitAgrees
  <2> QED
    BY <2>1 DEF Takes
<1> QED
  BY <1>1, <1>2

-----------------------------------------------------------------------------
(* The walk finds the next match *)

LEMMA ValueAgrees ==
  ASSUME NEW d \in Dates, NEW e \in Dates, NEW n \in 0..7, SameTo(d, e, n)
  PROVE  /\ n \in RealFields /\ Part(d, n) = Part(e, n) => get_value(n, d) = get_value(n, e)
         /\ n \notin RealFields => get_value(n, d) = get_value(n, e) /\ get_max(n, d) = get_max(n, e)
<1>1. CASE n \in RealFields
  BY <1>1, ValueFacts
<1>2. CASE n \notin RealFields
  <2>1. n \in {3, 4}
    BY <1>2 DEF RealFields
  <2>2. d.year = e.year /\ d.month = e.month /\ d.day = e.day
    BY <2>1, DateParts DEF SameTo, RealFields
  <2>3. Ordinal(d) = Ordinal(e) /\ DayOfYear(d) = DayOfYear(e)
    BY <2>2 DEF Ordinal, DayOfYear
  <2>4. Weekday(d) = Weekday(e)
    BY <2>3 DEF Weekday
  <2>5. IsoWeek(d) = IsoWeek(e)
    BY <2>2, <2>3, <2>4 DEF IsoWeek
  <2>6. get_value(n, d) = get_value(n, e)
    BY <2>1, <2>4, <2>5, Names DEF get_value
  <2>7. get_max(n, d) = get_max(n, e)
    BY <2>1, Limits
  <2> QED
    BY <1>2, <2>6, <2>7
<1> QED
  BY <1>1, <1>2

\* Among dates with the same earlier fields a later one has no lower value.
LEMMA LaterIsNoLower ==
  ASSUME NEW d \in Dates, NEW e \in Dates, NEW n \in 0..7, SameTo(d, e, n), Seconds(d) <= Seconds(e)
  PROVE  get_value(n, d) <= get_value(n, e) /\ get_value(n, e) <= get_max(n, d) /\ get_value(n, e) \in Int
<1>1. CASE n \in RealFields
  <2>1. Part(d, n) <= Part(e, n)
    BY <1>1, NotEarlier
  <2>2. get_max(n, d) = get_max(n, e)
    BY <1>1, SameMax
  <2>3. get_value(n, d) = Part(d, n)
    BY <1>1, ValueFacts
  <2>4. get_value(n, e) = Part(e, n) /\ get_value(n, e) \in Int /\ get_value(n, e) <= get_max(n, e)
    BY <1>1, ValueFacts
  <2> QED
    BY <2>1, <2>2, <2>3, <2>4
<1>2. CASE n \notin RealFields
  <2>1. get_value(n, d) = get_value(n, e) /\ get_max(n, d) = get_max(n, e)
    BY <1>2, ValueAgrees
  <2>2. get_value(n, d) \in Int /\ get_value(n, d) <= get_max(n, d)
    BY ValueFacts
  <2> QED
    BY <2>1, <2>2
<1> QED
  BY <1>1, <1>2

LEMMA FitsAgrees ==
  ASSUME NEW d \in Dates, NEW e \in Dates, NEW n \in 0..7, SameTo(d, e, n + 1),
         trigger[n] \subseteq ValidFor(n), Fits(n, d)
  PROVE  Fits(n, e)
<1>1. SameTo(d, e, n) /\ (n \in RealFields => Part(d, n) = Part(e, n))
  BY RealOrder DEF SameTo
<1>2. get_value(n, d) = get_value(n, e)
  BY <1>1, ValueAgrees
<1>3. Takes(n, d, get_value(n, d))
  BY FitsMeans
<1>4. Takes(n, e, get_value(n, e))
  BY <1>1, <1>2, <1>3, FitsMeans
<1> QED
  BY <1>4, FitsMeans

FitsAll(d) == \A n \in 0..LastField : Fits(n, d)
\* The matching instants are not before d.
NoneBefore(d) == \A e \in Dates : FitsAll(e) /\ Seconds(start) <= Seconds(e) => Seconds(d) <= Seconds(e)
NoneLeft == \A e \in Dates : FitsAll(e) => ~(Seconds(start) <= Seconds(e))

\* Where the walk is: the fields it has passed fit, and no match is behind it.
CronTypes ==
  /\ \A n \in 0..7 : trigger[n] \subseteq ValidFor(n)
  /\ start \in Dates /\ next_date \in Dates /\ fieldnum \in -1..8
Walked ==
  /\ fieldnum >= 0 => /\ Seconds(start) <= Seconds(next_date)
                      /\ \A m \in 0..7 : m < fieldnum => Fits(m, next_date)
                      /\ NoneBefore(next_date)
  /\ fieldnum < 0 => NoneLeft

\* A match from the walk's date on, and the value the walk's field has there.
LEMMA MatchAhead ==
  ASSUME CronTypes, Walked, fieldnum \in 0..7, NEW e \in Dates, FitsAll(e), Seconds(start) <= Seconds(e)
  PROVE  LET n == fieldnum
             d == next_date
             v == get_value(n, e)
         IN \/ \E m \in RealFields : m < n /\ LowerAt(d, e, m)
            \/ /\ SameTo(d, e, n) /\ get_value(n, d) <= v /\ v \in Int
               /\ get_next_value(n, d) # NoValue /\ get_next_value(n, d) <= v
<1> DEFINE n == fieldnum
           d == next_date
           v == get_value(n, e)
<1>1. d \in Dates /\ n \in 0..7 /\ n \in 0..8 /\ trigger[n] \subseteq ValidFor(n)
  BY DEF CronTypes
<1>2. Seconds(d) <= Seconds(e)
  BY DEF Walked, NoneBefore
<1>3. Fits(n, e)
  BY DEF FitsAll, LastField
<1> HIDE DEF n, d
<1>4. SameTo(d, e, n) \/ \E m \in RealFields : m < n /\ LowerAt(d, e, m)
  BY <1>1, <1>2, NotEarlier
<1>5. ASSUME SameTo(d, e, n)
      PROVE  /\ get_value(n, d) <= v /\ v \in Int
             /\ get_next_value(n, d) # NoValue /\ get_next_value(n, d) <= v
  <2>1. get_value(n, d) <= v /\ v <= get_max(n, d) /\ v \in Int
    BY <1>1, <1>2, <1>5, LaterIsNoLower
  <2>2. Takes(n, e, v)
    BY <1>1, <1>3, FitsMeans
  <2>3. Takes(n, d, v)
    BY <1>1, <1>5, <2>2, FitsMeans
  <2> HIDE DEF v
  <2>4. get_next_value(n, d) # NoValue /\ get_next_value(n, d) <= v
    BY <1>1, <2>1, <2>3, FieldNext
  <2> QED
    BY <2>1, <2>4
<1> QED
  BY <1>4, <1>5 DEF n, d

\* The trigger and the start do not change during a walk.
LEMMA Unmoved ==
  ASSUME UNCHANGED <<trigger, start>>
  PROVE  /\ \A m, e : Fits(m, e)' <=> Fits(m, e)
         /\ \A e : FitsAll(e)' <=> FitsAll(e)
         /\ \A r : NoneBefore(r)' <=> NoneBefore(r)
         /\ NoneLeft' <=> NoneLeft
<1>1. \A m, e : Fits(m, e)' <=> Fits(m, e)
  BY DEF Fits
<1>2. \A e : FitsAll(e)' <=> FitsAll(e)
  BY <1>1 DEF FitsAll
<1>3. \A r : NoneBefore(r)' <=> NoneBefore(r)
  BY <1>2 DEF NoneBefore
<1>4. NoneLeft' <=> NoneLeft
  BY <1>2 DEF NoneLeft
<1> QED
  BY <1>1, <1>2, <1>3, <1>4

\* A step to the date r and the field c.
LEMMA StepsTo ==
  ASSUME CronTypes, UNCHANGED <<trigger, start>>, NEW r \in Dates, next_date' = r,
         NEW c \in -1..8, fieldnum' = c,
         c >= 0 => /\ Seconds(start) <= Seconds(r)
                   /\ \A m \in 0..7 : m < c => Fits(m, r)
                   /\ NoneBefore(r),
         c < 0 => NoneLeft
  PROVE  CronTypes' /\ Walked'
<1>1. CronTypes'
  BY DEF CronTypes
<1>2. Walked'
  <2>1. CASE c < 0
    <3>1. NoneLeft'
      BY <2>1, Unmoved
    <3> QED
      BY <2>1, <3>1 DEF Walked
  <2>2. CASE c >= 0
    <3>1. NoneBefore(r)' /\ \A m \in 0..7 : m < c => Fits(m, r)'
      BY <2>2, Unmoved
    <3>2. (Seconds(start) <= Seconds(next_date))'
      BY <2>2
    <3>3. NoneBefore(next_date)'
      BY <3>1 DEF NoneBefore
    <3>4. \A m \in 0..7 : m < c => Fits(m, next_date)'
      BY <3>1 DEF Fits
    <3> QED
      BY <2>2, <3>2, <3>3, <3>4 DEF Walked
  <2> QED
    BY <2>1, <2>2
<1> QED
  BY <1>1, <1>2

\* Counting up in a field or one before it passes over no match, if none has the
\* earlier fields of the walk's date.
LEMMA CountedUp ==
  ASSUME CronTypes, Walked, fieldnum \in 0..7, NEW k \in {fieldnum - 1, fieldnum},
         \A e \in Dates : FitsAll(e) /\ Seconds(start) <= Seconds(e) =>
           \E m \in RealFields : m < fieldnum /\ LowerAt(next_date, e, m),
         k \in RealFields => k < fieldnum,
         next_date' = Increment(next_date, k), fieldnum' = Carry(next_date, k),
         UNCHANGED <<trigger, start>>
  PROVE  CronTypes' /\ Walked'
<1> DEFINE n == fieldnum
           d == next_date
           c == Carry(d, k)
           r == Increment(d, k)
<1>1. d \in Dates /\ start \in Dates /\ n \in 0..7 /\ k \in -1..7 /\ \A m \in 0..7 : trigger[m] \subseteq ValidFor(m)
  BY DEF CronTypes
<1>2. Seconds(start) <= Seconds(d) /\ \A m \in 0..7 : m < n => Fits(m, d)
  BY DEF Walked
<1>3. \A m \in RealFields : m < n => m <= k
  BY <1>1, RealOrder
<1>4. /\ r \in Dates
      /\ c >= 0 => c \in RealFields /\ SameTo(d, r, c) /\ Seconds(d) < Seconds(r)
      /\ \A e \in Dates, m \in RealFields : m <= k /\ LowerAt(d, e, m) => c >= 0 /\ Seconds(r) <= Seconds(e)
  BY <1>1, IncrementFacts
<1>5. c = -1 \/ (c \in RealFields /\ c <= k /\ c \in 0..7)
  BY <1>1, CarryFacts, RealOrder
<1>6. \A e \in Dates : FitsAll(e) /\ Seconds(start) <= Seconds(e) => c >= 0 /\ Seconds(r) <= Seconds(e)
  BY <1>3, <1>4
<1>7. Seconds(start) \in Int /\ Seconds(d) \in Int /\ Seconds(r) \in Int
  BY <1>1, <1>4, SecondsFacts
<1>8. next_date' = r /\ fieldnum' = c
  OBVIOUS
<1> HIDE DEF c, r, d, n
<1>9. c < 0 => NoneLeft
  <2>1. c < 0 => ~(c >= 0)
    BY <1>5
  <2> QED
    BY <1>6, <2>1 DEF NoneLeft
<1>10. c >= 0 => /\ Seconds(start) <= Seconds(r)
                 /\ \A m \in 0..7 : m < c => Fits(m, r)
                 /\ NoneBefore(r)
  <2> SUFFICES ASSUME c >= 0
               PROVE  /\ Seconds(start) <= Seconds(r)
                      /\ \A m \in 0..7 : m < c => Fits(m, r)
                      /\ NoneBefore(r)
    OBVIOUS
  <2>1. c \in RealFields /\ c <= k /\ c \in 0..7 /\ SameTo(d, r, c) /\ Seconds(d) < Seconds(r)
    BY <1>4, <1>5
  <2>2. Seconds(start) <= Seconds(r)
    BY <1>2, <1>7, <2>1
  <2>3. ASSUME NEW m \in 0..7, m < c
        PROVE  Fits(m, r)
    <3>1. SameTo(d, r, m + 1)
      BY <2>1, <2>3, RealOrder DEF SameTo
    <3>2. m < n
      BY <1>1, <2>1, <2>3 DEF n
    <3>3. Fits(m, d)
      BY <1>2, <3>2
    <3> QED
      BY <1>1, <1>4, <3>1, <3>3, FitsAgrees
  <2>4. NoneBefore(r)
    BY <1>6 DEF NoneBefore
  <2> QED
    BY <2>2, <2>3, <2>4
<1>11. PICK date \in Dates : date = r
  BY <1>4
<1>12. PICK field \in -1..8 : field = c
  BY <1>5
<1> QED
  BY <1>8, <1>9, <1>10, <1>11, <1>12, StepsTo

\* One turn of the loop: the field is carried, counted up, set or passed.
LEMMA MoveWalks ==
  ASSUME CronTypes, Walked, fieldnum \in 0..7, Move, UNCHANGED <<trigger, start>>
  PROVE  CronTypes' /\ Walked'
<1> DEFINE n == fieldnum
           d == next_date
           x == get_next_value(n, d)
           c == get_value(n, d)
<1>1. d \in Dates /\ start \in Dates /\ n \in 0..7 /\ n \in Int /\ trigger[n] \subseteq ValidFor(n)
  BY DEF CronTypes
<1>2. Seconds(start) <= Seconds(d) /\ (\A m \in 0..7 : m < n => Fits(m, d)) /\ NoneBefore(d)
  BY DEF Walked
<1>3. /\ c \in Int /\ MinValue[Name(n)] \in Nat /\ MinValue[Name(n)] <= c
      /\ n \in RealFields => c = Part(d, n)
  BY <1>1, ValueFacts
<1>4. x = NoValue \/ (x \in Int /\ c <= x /\ x <= get_max(n, d) /\ Takes(n, d, x))
  BY <1>1, FieldNext
<1>5. Real(n) <=> n \in RealFields
  BY <1>1, RealOnes DEF LastField
<1>6. ASSUME NEW e \in Dates, FitsAll(e), Seconds(start) <= Seconds(e)
      PROVE  \/ \E m \in RealFields : m < n /\ LowerAt(d, e, m)
             \/ /\ SameTo(d, e, n) /\ c <= get_value(n, e) /\ get_value(n, e) \in Int
                /\ x # NoValue /\ x <= get_value(n, e)
  BY <1>6, MatchAhead
<1>7. \/ /\ x = NoValue
         /\ next_date' = Increment(d, n - 1) /\ fieldnum' = Carry(d, n - 1)
      \/ /\ x # NoValue /\ x > c /\ n \in RealFields
         /\ next_date' = Reset(d, n, x) /\ fieldnum' = n + 1
      \/ /\ x # NoValue /\ x > c /\ n \notin RealFields
         /\ next_date' = Increment(d, n) /\ fieldnum' = Carry(d, n)
      \/ /\ x # NoValue /\ ~(x > c)
         /\ next_date' = d /\ fieldnum' = n + 1
  BY <1>5 DEF Move, set_field_value
<1> HIDE DEF x, c
<1>8. CASE x = NoValue
  <2>1. next_date' = Increment(d, n - 1) /\ fieldnum' = Carry(d, n - 1)
    BY <1>7, <1>8
  <2>2. \A e \in Dates : FitsAll(e) /\ Seconds(start) <= Seconds(e) =>
           \E m \in RealFields : m < n /\ LowerAt(d, e, m)
    BY <1>6, <1>8
  <2> QED
    BY <1>1, <2>1, <2>2, CountedUp
<1>9. CASE x # NoValue /\ x > c /\ n \notin RealFields
  <2>1. next_date' = Increment(d, n) /\ fieldnum' = Carry(d, n)
    BY <1>7, <1>9
  <2>2. ASSUME NEW e \in Dates, FitsAll(e), Seconds(start) <= Seconds(e)
        PROVE  \E m \in RealFields : m < n /\ LowerAt(d, e, m)
    <3>1. SameTo(d, e, n) => get_value(n, e) = c
      BY <1>1, <1>9, ValueAgrees DEF c
    <3> QED
      BY <1>3, <1>4, <1>6, <1>9, <2>2, <3>1
  <2> QED
    BY <1>1, <1>9, <2>1, <2>2, CountedUp
<1>10. CASE x # NoValue /\ x > c /\ n \in RealFields
  <2> DEFINE r == Reset(d, n, x)
  <2>1. next_date' = r /\ fieldnum' = n + 1
    BY <1>7, <1>10
  <2>2. x \in Int /\ MinValue[Name(n)] <= x /\ x <= get_max(n, d) /\ Takes(n, d, x) /\ c = Part(d, n)
    BY <1>3, <1>4, <1>10
  <2>3. r \in Dates /\ SameTo(d, r, n) /\ Part(r, n) = x
    BY <1>1, <1>10, <2>2, ResetFacts
  <2>4. Seconds(start) <= Seconds(r)
    <3>1. LowerAt(d, r, n)
      BY <1>10, <2>2, <2>3 DEF LowerAt
    <3>2. Seconds(d) < Seconds(r)
      BY <1>1, <2>3, <3>1, LowerIsEarlier
    <3>3. Seconds(start) \in Int /\ Seconds(d) \in Int /\ Seconds(r) \in Int
      BY <1>1, <2>3, SecondsFacts
    <3> QED
      BY <1>2, <3>2, <3>3
  <2>5. ASSUME NEW m \in 0..7, m < n + 1
        PROVE  Fits(m, r)
    <3>1. trigger[m] \subseteq ValidFor(m)
      BY DEF CronTypes
    <3>2. CASE m < n
      <4>1. SameTo(d, r, m + 1)
        BY <1>1, <2>3, <3>2, RealOrder DEF SameTo
      <4>2. Fits(m, d)
        BY <1>2, <3>2
      <4> QED
        BY <1>1, <2>3, <3>1, <4>1, <4>2, FitsAgrees
    <3>3. CASE ~(m < n)
      <4>1. m = n
        BY <1>1, <2>5, <3>3
      <4>2. Takes(n, r, x)
        BY <1>1, <2>2, <2>3, FitsMeans
      <4>3. get_value(n, r) = x
        BY <1>1, <1>10, <2>3, ValueFacts
      <4> QED
        BY <1>1, <2>3, <4>1, <4>2, <4>3, FitsMeans
    <3> QED
      BY <3>2, <3>3
  <2>6. NoneBefore(r)
    <3> SUFFICES ASSUME NEW e \in Dates, FitsAll(e), Seconds(start) <= Seconds(e)
                 PROVE  Seconds(r) <= Seconds(e)
      BY DEF NoneBefore
    <3>1. CASE \E m \in RealFields : m < n /\ LowerAt(d, e, m)
      <4>1. Seconds(r) < Seconds(e)
        BY <1>1, <1>10, <2>2, <3>1, ResetIsFirst
      <4>2. Seconds(r) \in Int /\ Seconds(e) \in Int
        BY <2>3, SecondsFacts
      <4> QED
        BY <4>1, <4>2
    <3>2. CASE SameTo(d, e, n) /\ x <= get_value(n, e)
      <4>1. get_value(n, e) = Part(e, n)
        BY <1>1, <1>10, ValueFacts
      <4> QED
        BY <1>1, <1>10, <2>2, <3>2, <4>1, ResetIsFirst
    <3> QED
      BY <1>6, <3>1, <3>2
  <2> HIDE DEF r
  <2>7. PICK date \in Dates : date = r
    BY <2>3
  <2>8. PICK field \in -1..8 : field = n + 1
    BY <1>1
  <2> QED
    BY <1>1, <2>1, <2>4, <2>5, <2>6, <2>7, <2>8, StepsTo
<1>11. CASE x # NoValue /\ ~(x > c)
  <2>1. next_date' = d /\ fieldnum' = n + 1
    BY <1>7, <1>11
  <2>2. x = c /\ Takes(n, d, c)
    BY <1>3, <1>4, <1>11
  <2>3. Fits(n, d)
    BY <1>1, <2>2, FitsMeans DEF c
  <2>4. \A m \in 0..7 : m < n + 1 => Fits(m, d)
    BY <1>1, <1>2, <2>3
  <2>5. PICK date \in Dates : date = d
    BY <1>1
  <2>6. PICK field \in -1..8 : field = n + 1
    BY <1>1
  <2> HIDE DEF d, n
  <2>7. CronTypes' /\ Walked'
    BY <1>1, <1>2, <2>1, <2>4, <2>5, <2>6, StepsTo
  <2> QED
    BY <2>7
<1> QED
  BY <1>7, <1>8, <1>9, <1>10, <1>11

LEMMA FieldsValid ==
  ASSUME NEW g \in Schedules, Accepted(g)
  PROVE  \A n \in 0..7 : Fields(g)[n] \subseteq ValidFor(n)
<1> SUFFICES ASSUME NEW n \in 0..7
             PROVE  Fields(g)[n] \subseteq ValidFor(n)
  OBVIOUS
<1>1. \A e \in Fields(g)[n] : Valid(e, Name(n))
  BY DEF Accepted, LastField
<1>2. Fields(g)[n] \subseteq Expressions
  <2>1. Name(n) \in DOMAIN g => g[Name(n)] \subseteq Expressions
    BY CronAssumption
  <2>2. Every(0) \in Expressions /\ \A v \in Nat : Between(v, NoValue, 0) \in Expressions
    BY DEF Every, Between, Expressions
  <2>3. Name(n) \in {"year", "month", "day", "week", "day_of_week", "hour", "minute", "second"}
    <3>1. n \in {0, 1, 2, 3, 4, 5, 6, 7}
      OBVIOUS
    <3> QED
      BY <3>1, Names
  <2>4. Defaults[Name(n)] \in Expressions
    BY <2>2, <2>3 DEF Defaults
  <2>5. \/ Fields(g)[n] = g[Name(n)] /\ Name(n) \in DOMAIN g
        \/ Fields(g)[n] \in {{Defaults[Name(n)]}, {Every(0)}}
    BY DEF Fields, LastField
  <2> QED
    BY <2>1, <2>2, <2>4, <2>5
<1> QED
  BY <1>1, <1>2 DEF ValidFor

LEMMA StartIsDate ==
  ASSUME NEW prev \in Starts \cup {NoValue}, NEW from \in Starts
  PROVE  StartOf(prev, from) \in Dates
<1>1. from \in Dates /\ (prev # NoValue => prev \in Dates)
  BY CronAssumption
<1>2. prev # NoValue => AfterPrevious(prev) \in Dates
  <2>1. 7 \in -1..7
    OBVIOUS
  <2> QED
    BY <1>1, <2>1, IncrementFacts DEF AfterPrevious, LastField
<1> QED
  BY <1>1, <1>2 DEF StartOf

CronInv ==
  /\ CronTypes /\ Walked
  /\ answer \in Dates \cup {NoAnswer, NoValue}
  /\ answer = NoAnswer /\ fieldnum > 0 => ~PastEnd(next_date)
  /\ answer = NoValue => \A e \in Dates : FitsAll(e) /\ Seconds(start) <= Seconds(e) => PastEnd(e)
  /\ answer \in Dates => answer = next_date /\ fieldnum = 8 /\ ~PastEnd(next_date)

LEMMA CronStarts == CronCall => CronInv
<1> SUFFICES ASSUME CronCall
             PROVE  CronInv
  OBVIOUS
<1>1. PICK g \in Schedules, prev \in Starts \cup {NoValue}, n0 \in Starts :
         /\ Accepted(g) /\ trigger = Fields(g) /\ start = StartOf(prev, n0)
         /\ next_date = start /\ fieldnum = 0 /\ answer = NoAnswer
  BY DEF CronCall
<1>2. start \in Dates
  BY <1>1, StartIsDate
<1>3. CronTypes
  BY <1>1, <1>2, FieldsValid DEF CronTypes
<1>4. Seconds(start) \in Int
  BY <1>2, SecondsFacts
<1>5. Walked
  BY <1>1, <1>4 DEF Walked, NoneBefore
<1> QED
  BY <1>1, <1>3, <1>5, CronAssumption DEF CronInv

LEMMA StepKeeps == ASSUME CronInv, CronStep PROVE CronInv'
<1>1. fieldnum \in 0..7 /\ Move /\ UNCHANGED <<trigger, start>>
      /\ answer' = IF PastEnd(next_date') THEN NoValue ELSE NoAnswer
  BY DEF CronStep, LastField
<1>2. CronTypes' /\ Walked'
  BY <1>1, MoveWalks DEF CronInv
<1>3. PICK r \in Dates : r = next_date'
  BY <1>2 DEF CronTypes
<1>4. CASE ~PastEnd(r)
  <2>1. answer' = NoAnswer /\ ~PastEnd(next_date)'
    BY <1>1, <1>3, <1>4 DEF PastEnd
  <2> QED
    BY <1>2, <2>1, CronAssumption DEF CronInv
<1>5. CASE PastEnd(r)
  <2>1. answer' = NoValue
    BY <1>1, <1>3, <1>5
  <2>2. ASSUME NEW e \in Dates, FitsAll(e)', Seconds(start') <= Seconds(e)
        PROVE  PastEnd(e)
    <3>1. CASE fieldnum' < 0
      <4>1. NoneLeft'
        BY <1>2, <3>1 DEF Walked
      <4> QED
        BY <2>2, <4>1 DEF NoneLeft
    <3>2. CASE ~(fieldnum' < 0)
      <4>1. fieldnum' >= 0
        BY <1>2, <3>2 DEF CronTypes
      <4>2. NoneBefore(next_date)'
        BY <1>2, <4>1 DEF Walked
      <4>3. Seconds(r) <= Seconds(e)
        BY <1>3, <2>2, <4>2 DEF NoneBefore
      <4>4. Seconds(r) \in Int /\ Seconds(e) \in Int
        BY SecondsFacts
      <4>5. Seconds(EndAt) \in Int
        BY CronAssumption, SecondsFacts
      <4> QED
        BY <1>5, <4>3, <4>4, <4>5 DEF PastEnd
    <3> QED
      BY <3>1, <3>2
  <2>3. NoValue # NoAnswer /\ NoValue \notin Dates
    BY CronAssumption
  <2>4. \A e \in Dates : FitsAll(e)' /\ (Seconds(start) <= Seconds(e))' => PastEnd(e)'
    BY <2>2 DEF PastEnd
  <2> QED
    BY <1>2, <2>1, <2>3, <2>4 DEF CronInv
<1> QED
  BY <1>4, <1>5

LEMMA ReturnKeeps == ASSUME CronInv, CronReturn PROVE CronInv'
<1>1. /\ answer = NoAnswer /\ fieldnum \notin 0..7
      /\ answer' = (IF fieldnum >= 0 THEN next_date ELSE NoValue)
      /\ UNCHANGED <<trigger, start, next_date, fieldnum>>
  BY DEF CronReturn, LastField
<1>2. /\ CronTypes /\ Walked /\ (fieldnum > 0 => ~PastEnd(next_date))
  BY <1>1 DEF CronInv
<1>3. fieldnum = -1 \/ fieldnum = 8
  BY <1>1, <1>2 DEF CronTypes
<1>4. CronTypes' /\ Walked'
  BY <1>1, <1>2 DEF CronTypes, Walked, NoneBefore, NoneLeft, FitsAll, Fits
<1>5. CASE fieldnum = -1
  <2>1. NoneLeft
    BY <1>2, <1>5 DEF Walked
  <2>2. NoneLeft'
    BY <1>1, <2>1, Unmoved
  <2>3. answer' = NoValue /\ NoValue # NoAnswer /\ NoValue \notin Dates
    BY <1>1, <1>5, CronAssumption
  <2> QED
    BY <1>4, <2>2, <2>3 DEF CronInv, NoneLeft
<1>6. CASE fieldnum = 8
  <2>1. answer' = next_date' /\ fieldnum' = 8 /\ next_date' \in Dates /\ ~PastEnd(next_date)'
    BY <1>1, <1>2, <1>6 DEF CronTypes, PastEnd
  <2>2. answer' # NoValue /\ answer' # NoAnswer
    BY <2>1, CronAssumption
  <2> QED
    BY <1>4, <2>1, <2>2 DEF CronInv
<1> QED
  BY <1>3, <1>5, <1>6

LEMMA CronKeeps == CronInv /\ [CronNextStep]_cron => CronInv'
<1> SUFFICES ASSUME CronInv, [CronNextStep]_cron
             PROVE  CronInv'
  OBVIOUS
<1>1. CASE CronStep
  BY <1>1, StepKeeps
<1>2. CASE CronReturn
  BY <1>2, ReturnKeeps
<1>3. CASE UNCHANGED cron
  BY <1>3 DEF cron, CronInv, CronTypes, Walked, NoneBefore, NoneLeft, FitsAll, Fits, PastEnd
<1> QED
  BY <1>1, <1>2, <1>3 DEF CronNextStep

\* A record of which one part is another.
LEMMA OtherPart ==
  ASSUME NEW Y, NEW M, NEW D, NEW H, NEW I, NEW S,
         NEW d \in [year : Y, month : M, day : D, hour : H, minute : I, second : S],
         NEW h \in H, NEW i \in I, NEW s \in S
  PROVE  /\ [d EXCEPT !["hour"] = h] \in [year : Y, month : M, day : D, hour : H, minute : I, second : S]
         /\ [d EXCEPT !["minute"] = i] \in [year : Y, month : M, day : D, hour : H, minute : I, second : S]
         /\ [d EXCEPT !["second"] = s] \in [year : Y, month : M, day : D, hour : H, minute : I, second : S]
OBVIOUS

\* Another time of the same day.
At(d, name, v) == [d EXCEPT ![name] = v]
AnotherTime(d, name, v) ==
  /\ At(d, name, v) \in Dates /\ At(d, name, v)[name] = v
  /\ At(d, name, v).year = d.year /\ At(d, name, v).month = d.month /\ At(d, name, v).day = d.day

LEMMA OtherTimes ==
  ASSUME NEW d \in Dates, NEW h \in Int, 0 <= h, h <= 23, NEW i \in Int, 0 <= i, i <= 59,
         NEW s \in Int, 0 <= s, s <= 59
  PROVE  AnotherTime(d, "hour", h) /\ AnotherTime(d, "minute", i) /\ AnotherTime(d, "second", s)
<1> DEFINE Y == 1970..9999
           M == 1..12
           D == 1..31
           H == 0..23
           I == 0..59
           R == [year : Y, month : M, day : D, hour : H, minute : I, second : I]
<1>1. d \in R /\ d.day <= DaysIn(d.year, d.month) /\ h \in H /\ i \in I /\ s \in I
  BY DEF Dates
<1>2. Dates = {e \in R : e.day <= DaysIn(e.year, e.month)}
  BY DEF Dates
<1> HIDE DEF Y, M, D, H, I
<1>3. /\ [d EXCEPT !["hour"] = h] \in R
      /\ [d EXCEPT !["minute"] = i] \in R
      /\ [d EXCEPT !["second"] = s] \in R
  BY <1>1, OtherPart
<1>4. DOMAIN d = {"year", "month", "day", "hour", "minute", "second"}
  BY <1>1
<1>5. ASSUME NEW name \in {"hour", "minute", "second"}, NEW v
      PROVE  /\ At(d, name, v).year = d.year /\ At(d, name, v).month = d.month
             /\ At(d, name, v).day = d.day /\ At(d, name, v)[name] = v
  BY <1>1, <1>4 DEF At
<1> HIDE DEF R
<1>6. ASSUME NEW name \in {"hour", "minute", "second"}, NEW v, At(d, name, v) \in R
      PROVE  AnotherTime(d, name, v)
  BY <1>1, <1>2, <1>5, <1>6 DEF AnotherTime
<1>7. At(d, "hour", h) \in R /\ At(d, "minute", i) \in R /\ At(d, "second", s) \in R
  BY <1>3 DEF At
<1> QED
  BY <1>6, <1>7

\* A day between the two instants whose fields fit, with a time that fits, is
\* an instant that matches.
LEMMA SkippedMatches ==
  ASSUME CronTypes, NEW to, to.year \in Int, to.year <= 9999, Skips(start, to)
  PROVE  \E t \in Dates : FitsAll(t) /\ Seconds(start) <= Seconds(t) /\ Seconds(t) < Seconds(to)
<1>1. start \in Dates /\ \A n \in 0..7 : trigger[n] \subseteq ValidFor(n)
  BY DEF CronTypes
<1>2. PICK d \in DaysFrom(start, to) : DayFits(d) /\ TimesBetween(d, start, to)
  BY DEF Skips
<1>3. PICK h \in Values(5), mi \in Values(6), s \in Values(7) :
         LET t == Date(d.year, d.month, d.day, h, mi, s)
         IN Seconds(start) <= Seconds(t) /\ Seconds(t) < Seconds(to)
  BY <1>2 DEF TimesBetween
<1>4. PICK y \in start.year..to.year, m \in 1..12, x \in 1..31 :
         d = Date(y, m, x, 0, 0, 0) /\ d.day <= DaysIn(d.year, d.month)
  BY <1>2 DEF DaysFrom
<1>5. d.year = y /\ d.month = m /\ d.day = x
  BY <1>4 DEF Date
<1>6. /\ y \in Int /\ 1970 <= y /\ y <= 9999 /\ m \in Int /\ 1 <= m /\ m <= 12
      /\ x \in Int /\ 1 <= x /\ x <= DaysIn(y, m)
  <2>1. start.year \in Int /\ 1970 <= start.year
    BY <1>1, DateBounds
  <2> QED
    BY <1>4, <1>5, <2>1
<1>7. /\ h \in Int /\ 0 <= h /\ h <= 23 /\ Fits(5, [start EXCEPT !["hour"] = h])
      /\ mi \in Int /\ 0 <= mi /\ mi <= 59 /\ Fits(6, [start EXCEPT !["minute"] = mi])
      /\ s \in Int /\ 0 <= s /\ s <= 59 /\ Fits(7, [start EXCEPT !["second"] = s])
  <2>1. /\ MaxValue[Name(5)] = 23 /\ MaxValue[Name(6)] = 59 /\ MaxValue[Name(7)] = 59
        /\ MinValue[Name(5)] = 0 /\ MinValue[Name(6)] = 0 /\ MinValue[Name(7)] = 0
    BY Names DEF MinValue, MaxValue
  <2>2. h \in MinValue[Name(5)]..MaxValue[Name(5)] /\ Fits(5, [start EXCEPT ![Name(5)] = h])
    BY DEF Values
  <2>3. mi \in MinValue[Name(6)]..MaxValue[Name(6)] /\ Fits(6, [start EXCEPT ![Name(6)] = mi])
    BY DEF Values
  <2>4. s \in MinValue[Name(7)]..MaxValue[Name(7)] /\ Fits(7, [start EXCEPT ![Name(7)] = s])
    BY DEF Values
  <2>5. /\ Fits(5, [start EXCEPT !["hour"] = h]) /\ Fits(6, [start EXCEPT !["minute"] = mi])
        /\ Fits(7, [start EXCEPT !["second"] = s])
    <3>1. Name(5) = "hour" /\ Name(6) = "minute" /\ Name(7) = "second"
      BY Names
    <3> DEFINE with(a, v) == [start EXCEPT ![a] = v]
    <3>2. Fits(5, with(Name(5), h)) /\ Fits(6, with(Name(6), mi)) /\ Fits(7, with(Name(7), s))
      BY <2>2, <2>3, <2>4
    <3> HIDE DEF with
    <3>3. Fits(5, with("hour", h)) /\ Fits(6, with("minute", mi)) /\ Fits(7, with("second", s))
      BY <3>1, <3>2
    <3> QED
      BY <3>3 DEF with
  <2>6. h \in 0..23 /\ mi \in 0..59 /\ s \in 0..59
    BY <2>1, <2>2, <2>3, <2>4
  <2> QED
    BY <2>5, <2>6
<1> DEFINE t == Date(y, m, x, h, mi, s)
<1>8. d \in Dates
  BY <1>4, <1>6, DateMade
<1>9. t \in Dates
  BY <1>6, <1>7, DateMade
<1>10. t.year = y /\ t.month = m /\ t.day = x /\ t.hour = h /\ t.minute = mi /\ t.second = s
  BY DEF Date
<1>11. Seconds(start) <= Seconds(t) /\ Seconds(t) < Seconds(to)
  BY <1>3, <1>5
<1> HIDE DEF t
<1>12. SameTo(d, t, 5)
  BY <1>5, <1>8, <1>9, <1>10, DateParts DEF SameTo, RealFields
<1>13. \A n \in 0..4 : Fits(n, t)
  <2> SUFFICES ASSUME NEW n \in 0..4
               PROVE  Fits(n, t)
    OBVIOUS
  <2>1. SameTo(d, t, n + 1)
    BY <1>12, RealOrder DEF SameTo
  <2>2. Fits(n, d)
    BY <1>2 DEF DayFits
  <2> QED
    BY <1>1, <1>8, <1>9, <2>1, <2>2, FitsAgrees
\* What fits a field of the time does not depend on the day.
<1>14. ASSUME NEW n \in {5, 6, 7}, NEW e \in Dates, Part(e, n) = Part(t, n), Fits(n, e)
       PROVE  Fits(n, t)
  <2>1. n \in 0..7 /\ n \in RealFields
    BY DEF RealFields
  <2>2. get_value(n, e) = get_value(n, t)
    BY <1>9, <1>14, <2>1, ValueFacts
  <2>3. PICK z \in trigger[n] : Hit(z, n, e, get_value(n, e))
    BY <1>1, <1>14, <2>1, FitsMeans DEF Takes
  <2>4. z \in ValidFor(n)
    BY <1>1, <2>1
  <2>5. z.kind \in {"all", "range"}
    BY <2>1, <2>4, ExpressionFacts
  <2>6. Hit(z, n, t, get_value(n, t))
    <3>1. CASE z.kind = "all"
      BY <2>2, <2>3, <3>1 DEF Hit
    <3>2. CASE z.kind = "range"
      BY <2>2, <2>3, <3>2 DEF Hit
    <3> QED
      BY <2>5, <3>1, <3>2
  <2> QED
    BY <1>1, <1>9, <2>1, <2>6, FitsMeans DEF Takes
<1>19. /\ AnotherTime(start, "hour", h) /\ AnotherTime(start, "minute", mi)
       /\ AnotherTime(start, "second", s)
  BY <1>1, <1>7, OtherTimes
<1>15. Fits(5, t)
  <2> DEFINE e == [start EXCEPT !["hour"] = h]
  <2>1. e \in Dates /\ e.hour = h
    BY <1>19 DEF AnotherTime, At
  <2> HIDE DEF e
  <2>2. Part(e, 5) = Part(t, 5)
    BY <1>9, <1>10, <2>1, DateParts
  <2> QED
    BY <1>7, <1>14, <2>1, <2>2 DEF e
<1>16. Fits(6, t)
  <2> DEFINE e == [start EXCEPT !["minute"] = mi]
  <2>1. e \in Dates /\ e.minute = mi
    BY <1>19 DEF AnotherTime, At
  <2> HIDE DEF e
  <2>2. Part(e, 6) = Part(t, 6)
    BY <1>9, <1>10, <2>1, DateParts
  <2> QED
    BY <1>7, <1>14, <2>1, <2>2 DEF e
<1>17. Fits(7, t)
  <2> DEFINE e == [start EXCEPT !["second"] = s]
  <2>1. e \in Dates /\ e.second = s
    BY <1>19 DEF AnotherTime, At
  <2> HIDE DEF e
  <2>2. Part(e, 7) = Part(t, 7)
    BY <1>9, <1>10, <2>1, DateParts
  <2> QED
    BY <1>7, <1>14, <2>1, <2>2 DEF e
<1>18. FitsAll(t)
  <2>1. \A n \in 0..7 : n \in 0..4 \/ n \in {5, 6, 7}
    OBVIOUS
  <2> QED
    BY <1>13, <1>15, <1>16, <1>17, <2>1 DEF FitsAll, LastField
<1> QED
  BY <1>9, <1>11, <1>18

LEMMA EndFacts ==
  LET end == [EndAt EXCEPT !.second = @ + 1]
  IN /\ end.year \in Int /\ end.year <= 9999
     /\ Seconds(EndAt) \in Int /\ Seconds(end) = Seconds(EndAt) + 1
<1> DEFINE end == [EndAt EXCEPT !.second = @ + 1]
<1>1. EndAt \in Dates
  BY CronAssumption
<1>2. /\ end.year = EndAt.year /\ end.month = EndAt.month /\ end.day = EndAt.day
      /\ end.hour = EndAt.hour /\ end.minute = EndAt.minute /\ end.second = EndAt.second + 1
  BY <1>1 DEF Dates
<1> HIDE DEF end
<1>3. Ordinal(end) = Ordinal(EndAt) /\ Ordinal(EndAt) \in Int
  <2>1. Ordinal(end) = Ordinal(EndAt)
    BY <1>2 DEF Ordinal, DayOfYear
  <2> QED
    BY <1>1, <2>1, SecondsFacts
<1>4. /\ EndAt.year \in Int /\ EndAt.year <= 9999 /\ EndAt.hour \in Int
      /\ EndAt.minute \in Int /\ EndAt.second \in Int
  BY <1>1, DateBounds
<1>5. Seconds(end) = Seconds(EndAt) + 1
  <2> DEFINE o == Ordinal(EndAt)
  <2>1. /\ Seconds(end) = (o - 730120) * 86400 + EndAt.hour * 3600 + EndAt.minute * 60 + (EndAt.second + 1)
        /\ Seconds(EndAt) = (o - 730120) * 86400 + EndAt.hour * 3600 + EndAt.minute * 60 + EndAt.second
    BY <1>2, <1>3 DEF Seconds
  <2>2. o \in Int
    BY <1>3
  <2> HIDE DEF o
  <2> QED
    BY <1>4, <2>1, <2>2
<1>6. Seconds(EndAt) \in Int
  BY <1>1, SecondsFacts
<1> QED
  BY <1>2, <1>4, <1>5, <1>6 DEF end

LEMMA WalkFinds == CronInv => CronFindsNext
<1> SUFFICES ASSUME CronInv, answer # NoAnswer, trigger # <<>>
             PROVE  IF answer = NoValue THEN ~Skips(start, [EndAt EXCEPT !.second = @ + 1])
                    ELSE /\ DayFits(answer) /\ TimeFits(answer)
                         /\ Seconds(start) <= Seconds(answer) /\ ~PastEnd(answer)
                         /\ ~Skips(start, answer)
  BY DEF CronFindsNext
<1>1. CronTypes /\ Walked
  BY DEF CronInv
<1>2. CASE answer = NoValue
  <2> DEFINE end == [EndAt EXCEPT !.second = @ + 1]
  <2> SUFFICES ASSUME Skips(start, end)
               PROVE  FALSE
    BY <1>2
  <2>1. /\ end.year \in Int /\ end.year <= 9999
        /\ Seconds(EndAt) \in Int /\ Seconds(end) = Seconds(EndAt) + 1
    BY EndFacts
  <2> HIDE DEF end
  <2>2. PICK t \in Dates : FitsAll(t) /\ Seconds(start) <= Seconds(t) /\ Seconds(t) < Seconds(end)
    BY <1>1, <2>1, SkippedMatches
  <2>3. Seconds(t) > Seconds(EndAt)
    BY <1>2, <2>2 DEF CronInv, PastEnd
  <2>4. Seconds(t) \in Int
    BY SecondsFacts
  <2> QED
    BY <2>1, <2>2, <2>3, <2>4
<1>3. CASE answer # NoValue
  <2>1. answer \in Dates /\ answer = next_date /\ fieldnum = 8 /\ ~PastEnd(answer)
    BY <1>3 DEF CronInv
  <2>2. /\ Seconds(start) <= Seconds(answer) /\ NoneBefore(answer)
        /\ \A m \in 0..7 : Fits(m, answer)
    BY <1>1, <2>1 DEF Walked
  <2>3. DayFits(answer) /\ TimeFits(answer)
    BY <2>2 DEF DayFits, TimeFits, LastField
  <2>4. ASSUME Skips(start, answer)
        PROVE  FALSE
    <3>1. answer.year \in Int /\ answer.year <= 9999
      BY <2>1, DateBounds
    <3>2. PICK t \in Dates : FitsAll(t) /\ Seconds(start) <= Seconds(t) /\ Seconds(t) < Seconds(answer)
      BY <1>1, <2>4, <3>1, SkippedMatches
    <3>3. Seconds(answer) <= Seconds(t)
      BY <2>2, <3>2 DEF NoneBefore
    <3>4. Seconds(t) \in Int /\ Seconds(answer) \in Int
      BY <2>1, SecondsFacts
    <3> QED
      BY <3>2, <3>3, <3>4
  <2> QED
    BY <1>3, <2>1, <2>2, <2>3, <2>4
<1> QED
  BY <1>2, <1>3

LEMMA WalkTypes == CronInv => CronTypeOK
<1> SUFFICES ASSUME CronInv
             PROVE  /\ fieldnum \in -1..(LastField + 1)
                    /\ next_date.day \in 1..DaysIn(next_date.year, next_date.month)
                    /\ \A n \in 0..LastField : Real(n) =>
                         next_date[Name(n)] \in MinValue[Name(n)]..MaxValue[Name(n)]
  BY DEF CronTypeOK
<1>1. next_date \in Dates /\ fieldnum \in -1..8
  BY DEF CronInv, CronTypes
<1>2. next_date.day \in 1..DaysIn(next_date.year, next_date.month)
  <2>1. /\ next_date.day \in Int /\ 1 <= next_date.day
        /\ next_date.day <= DaysIn(next_date.year, next_date.month)
    BY <1>1, DateBounds
  <2>2. DaysIn(next_date.year, next_date.month) \in Int
    BY <1>1, MonthLength
  <2> QED
    BY <2>1, <2>2
<1>3. ASSUME NEW n \in RealFields
      PROVE  Part(next_date, n) \in MinValue[Name(n)]..MaxValue[Name(n)]
  <2>1. /\ Part(next_date, n) \in Int /\ get_max(n, next_date) \in Int /\ MinValue[Name(n)] \in Int
        /\ MinValue[Name(n)] <= Part(next_date, n) /\ Part(next_date, n) <= get_max(n, next_date)
    BY <1>1, PartLimits
  <2>2. MaxValue[Name(n)] \in Int /\ get_max(n, next_date) <= MaxValue[Name(n)]
    <3>1. CASE n = 2
      <4>1. next_date.year \in Int /\ next_date.month \in Int /\ 1 <= next_date.month /\ next_date.month <= 12
        BY <1>1, DateBounds
      <4>2. DaysIn(next_date.year, next_date.month) \in Int /\ DaysIn(next_date.year, next_date.month) <= 31
        BY <4>1, MonthFacts
      <4> QED
        BY <3>1, <4>2, Names, Limits DEF MaxValue
    <3>2. CASE n # 2
      <4>1. get_max(n, next_date) = MaxValue[Name(n)]
        BY <3>2, RealOrder, DayNames DEF get_max
      <4> QED
        BY <2>1, <4>1
    <3> QED
      BY <3>1, <3>2
  <2> QED
    BY <2>1, <2>2
<1> QED
  BY <1>1, <1>2, <1>3, RealOnes DEF LastField, Part

\* The walk's date is always one of the calendar: a month is never given a day
\* that it does not have, whatever is counted up, set or carried
\* (CronTrigger.increment_field_value, triggers/cron/trigger.py:172).
THEOREM WalkStaysInTheCalendar == CronSpec => []CronTypeOK
<1>1. CronSpec => []CronInv
  BY CronStarts, CronKeeps, PTL DEF CronSpec
<1> QED
  BY <1>1, WalkTypes, PTL

\* get_next_trigger_time answers with the first instant from its start on that
\* matches every field, and with None only if there is none until end_at: for
\* any expressions, of the week and of positions in the month among them, and
\* any start (triggers/cron/trigger.py:223).
THEOREM WalkFindsTheNext == CronSpec => []CronFindsNext
<1>1. CronSpec => []CronInv
  BY CronStarts, CronKeeps, PTL DEF CronSpec
<1> QED
  BY <1>1, WalkFinds, PTL
==============================================================================
