--------------------------- MODULE DetectionProofs ---------------------------
(***************************************************************************)
(* Lemmas about windows, baselines and detectors: what the operators of    *)
(* SweepWindows, Detection and WindowQueries return, for every step and    *)
(* lag and every set of events; and what the overlap of the windows        *)
(* guarantees.                                                             *)
(***************************************************************************)
EXTENDS WindowQueries, FiniteSetTheorems, WellFoundedInduction, TLAPS

-----------------------------------------------------------------------------
(* Windows *)

\* time.Truncate lands on an aligned instant less than a step before.
LEMMA TruncateBounds ==
  ASSUME NEW ts \in Nat
  PROVE  /\ Truncate(ts) \in Nat /\ Aligned(Truncate(ts))
         /\ Truncate(ts) <= ts /\ ts < Truncate(ts) + Step
  <1>1. ts % Step \in 0 .. Step - 1
    BY StepAssumption
  <1>2. ts = (Step * (ts \div Step)) + (ts % Step)
    BY StepAssumption
  <1>3. Truncate(ts) = Step * (ts \div Step)
    BY <1>1, <1>2, StepAssumption DEF Truncate
  <1>4. ts \div Step \in Nat
    BY StepAssumption
  <1>5. (Step * (ts \div Step)) % Step = 0
    BY <1>4, StepAssumption
  <1>6. QED
    BY <1>1, <1>3, <1>4, <1>5, StepAssumption DEF Truncate, Aligned

\* next.Add(p.Step) stays aligned.
LEMMA NextAligned ==
  ASSUME NEW t \in Nat, Aligned(t)
  PROVE  Aligned(t + Step)
  <1> DEFINE q == t \div Step
             d == (t + Step) \div Step
             r == (t + Step) % Step
             m == q + 1 - d
  <1>1. q \in Nat /\ t = Step * q
    BY StepAssumption DEF Aligned
  <1>2. d \in Nat /\ r \in 0 .. Step - 1 /\ t + Step = (Step * d) + r
    BY StepAssumption
  <1> HIDE DEF q, d, r
  <1>3. m \in Int /\ r = Step * m
    BY <1>1, <1>2, StepAssumption
  <1> HIDE DEF m
  <1>4. m < 1 /\ -1 < m
    BY <1>2, <1>3, StepAssumption
  <1>5. m = 0
    BY <1>3, <1>4
  <1>6. QED
    BY <1>3, <1>5, StepAssumption DEF Aligned, r

\* Two aligned instants less than a step apart are the same.
LEMMA AlignedApart ==
  ASSUME NEW s \in Nat, NEW t \in Nat, Aligned(s), Aligned(t), s < t + Step, t < s + Step
  PROVE  s = t
  <1>1. s = Step * (s \div Step) /\ t = Step * (t \div Step)
    BY StepAssumption DEF Aligned
  <1>2. s \div Step \in Nat /\ t \div Step \in Nat
    BY StepAssumption
  <1> DEFINE m == s \div Step
             n == t \div Step
  <1> HIDE DEF m, n
  <1>3. m \in Nat /\ n \in Nat /\ s = Step * m /\ t = Step * n
    BY <1>1, <1>2 DEF m, n
  <1>4. Step * (m - n) < Step /\ Step * (n - m) < Step
    BY <1>3, StepAssumption
  <1>5. m - n < 1 /\ n - m < 1
    BY <1>3, <1>4, StepAssumption
  <1>6. QED
    BY <1>3, <1>5

LEMMA TruncateMonotone ==
  ASSUME NEW a \in Nat, NEW b \in Nat, a <= b
  PROVE  Truncate(a) <= Truncate(b)
  <1>1. /\ Truncate(a) \in Nat /\ Aligned(Truncate(a)) /\ Truncate(a) <= a
        /\ Truncate(b) \in Nat /\ Aligned(Truncate(b)) /\ b < Truncate(b) + Step
    BY TruncateBounds
  <1>2. SUFFICES ASSUME Truncate(b) < Truncate(a) PROVE FALSE
    BY <1>1
  <1>3. Truncate(a) = Truncate(b)
    BY <1>1, <1>2, AlignedApart, StepAssumption
  <1>4. QED
    BY <1>1, <1>2, <1>3

\* No burst is split below a detector's threshold: two events at most a step
\* apart lie together in some window (pipeline.sweep, WindowEvents).
THEOREM BurstContained ==
  ASSUME NEW a \in Nat, NEW b \in Nat, a <= b, b <= a + Step
  PROVE  \E t \in Nat : Aligned(t) /\ InWindow(a, t) /\ InWindow(b, t)
  <1>1. InWindow(a, Truncate(a)) /\ InWindow(b, Truncate(a))
    BY TruncateBounds, StepAssumption DEF InWindow
  <1>2. QED
    BY <1>1, TruncateBounds

\* The bound is tight: a step and a tick apart, two events at the last tick
\* of one step and the first of the next but one share no window.
THEOREM BurstBoundTight ==
  ASSUME NEW t \in Nat, NEW w \in Nat, Aligned(t), Aligned(w),
         InWindow(t + Step - 1, w)
  PROVE  ~ InWindow(t + 2 * Step, w)
  <1>1. SUFFICES ASSUME InWindow(t + 2 * Step, w) PROVE FALSE
    OBVIOUS
  <1>2. w <= t + Step - 1 /\ t < w
    BY <1>1, StepAssumption DEF InWindow
  <1>3. w = t
    BY <1>2, AlignedApart, StepAssumption
  <1>4. QED
    BY <1>2, <1>3

\* Every event is merged by exactly one sweep: it leads exactly one window.
THEOREM LeadsOnce ==
  ASSUME NEW ts \in Nat
  PROVE  /\ InLead(ts, Truncate(ts))
         /\ \A t \in Nat : Aligned(t) /\ InLead(ts, t) => t = Truncate(ts)
  <1>1. InLead(ts, Truncate(ts))
    BY TruncateBounds DEF InLead
  <1>2. ASSUME NEW t \in Nat, Aligned(t), InLead(ts, t)
        PROVE  t = Truncate(ts)
    BY <1>2, TruncateBounds, AlignedApart, StepAssumption DEF InLead
  <1>3. QED
    BY <1>1, <1>2

\* A settled window is complete: no event of it can still arrive in time.
THEOREM SettledIsFrozen ==
  ASSUME NEW t \in Nat, NEW now \in Nat, NEW ts \in Nat, Settled(t, now), now <= ts + Lag
  PROVE  ~ InWindow(ts, t)
  BY StepAssumption, LagAssumption DEF Settled, InWindow

-----------------------------------------------------------------------------
(* Sets of naturals *)

\* A non-empty set of naturals has a least element, and Min finds it.
LEMMA MinOfNat ==
  ASSUME NEW S \in SUBSET Nat, S # {}
  PROVE  Min(S) \in S /\ \A y \in S : Min(S) <= y
  <1>1. PICK x \in S : \A y \in S : ~ (<<y, x>> \in OpToRel(<, Nat))
    BY NatLessThanWellFounded, WFMin
  <1>2. ASSUME NEW y \in S
        PROVE  x <= y
    <2>1. <<y, x>> \in Nat \X Nat /\ <<y, x>>[1] = y /\ <<y, x>>[2] = x
      OBVIOUS
    <2>2. y < x => <<y, x>> \in OpToRel(<, Nat)
      BY <2>1, Zenon DEF OpToRel
    <2>3. ~ (y < x)
      BY <1>1, <2>2
    <2>4. QED
      BY <2>3
  <1>3. QED
    BY <1>1, <1>2 DEF Min

\* A bounded one has a greatest element, and Max finds it.
LEMMA MaxOfNat ==
  ASSUME NEW S \in SUBSET Nat, S # {}, NEW n \in Nat, \A x \in S : x <= n
  PROVE  Max(S) \in S /\ \A y \in S : y <= Max(S)
  <1> DEFINE T == {n - x : x \in S}
  <1>1. T \in SUBSET Nat /\ T # {}
    <2>1. \A x \in S : n - x \in Nat
      OBVIOUS
    <2>2. QED
      BY <2>1
  <1>2. Min(T) \in T /\ \A y \in T : Min(T) <= y
    BY <1>1, MinOfNat
  <1>3. PICK x \in S : Min(T) = n - x
    BY <1>2
  <1>4. ASSUME NEW y \in S
        PROVE  x >= y
    <2>1. n - y \in T
      BY <1>4
    <2>2. n - x <= n - y /\ x \in Nat /\ y \in Nat
      BY <1>2, <1>3, <2>1
    <2>3. QED
      BY <2>2
  <1>5. QED
    BY <1>4 DEF Max

\* A finite set of naturals has an upper bound: a smallest one without would
\* not be the smallest.
LEMMA FiniteBounded ==
  ASSUME NEW S \in SUBSET Nat, IsFiniteSet(S)
  PROVE  \E n \in Nat : \A x \in S : x <= n
  <1> DEFINE Bounded(X) == \E n \in Nat : \A x \in X : x <= n
             Sizes == {k \in Nat : \E X \in SUBSET Nat :
                                     IsFiniteSet(X) /\ Cardinality(X) = k /\ ~ Bounded(X)}
  <1>1. SUFFICES ASSUME ~ Bounded(S) PROVE FALSE
    OBVIOUS
  <1>2. Cardinality(S) \in Sizes
    BY <1>1, FS_CardinalityType
  <1> DEFINE k == Min(Sizes)
  <1>3. k \in Sizes /\ k \in Nat /\ \A j \in Sizes : k <= j
    BY <1>2, MinOfNat
  <1>4. PICK X \in SUBSET Nat : IsFiniteSet(X) /\ Cardinality(X) = k /\ ~ Bounded(X)
    BY <1>3
  <1> HIDE DEF Sizes, k
  <1>5. PICK x \in X : TRUE
    BY <1>4
  <1>6. IsFiniteSet(X \ {x}) /\ Cardinality(X \ {x}) = k - 1
    BY <1>4, <1>5, FS_RemoveElement
  <1>7. k - 1 \in Nat
    BY <1>6, FS_CardinalityType
  <1>8. Bounded(X \ {x})
    <2>1. ~ (k - 1 \in Sizes)
      BY <1>3, <1>7
    <2>2. QED
      BY <1>6, <1>7, <2>1 DEF Sizes
  <1>9. PICK n \in Nat : \A y \in X \ {x} : y <= n
    BY <1>8
  <1>10. x \in Nat /\ n + x \in Nat /\ \A y \in X : y <= n + x
    BY <1>4, <1>5, <1>9
  <1>11. QED
    BY <1>4, <1>10

-----------------------------------------------------------------------------
(* Baselines *)

LEMMA ClockTypes ==
  ASSUME NEW ts \in Nat
  PROVE  HourOf(ts) \in HourOfDay /\ DayOf(ts) \in Nat
  <1>1. TicksPerHour \in Nat \ {0} /\ 24 * TicksPerHour \in Nat \ {0}
    BY ThresholdAssumption
  <1>2. ts \div TicksPerHour \in Nat
    BY <1>1
  <1>3. HourOf(ts) \in HourOfDay
    BY <1>2 DEF HourOf, HourOfDay
  <1> DEFINE d == 24 * TicksPerHour
  <1>4. d \in Nat \ {0}
    BY <1>1
  <1>5. ts \div d \in Nat
    <2> HIDE DEF d
    <2> QED BY <1>4
  <1>6. QED
    BY <1>3, <1>5 DEF DayOf

\* The events a sweep, a detector or a baseline may be given
EventSets == {S \in SUBSET Event : IsFiniteSet(S)}

LEMMA EventSubset ==
  ASSUME NEW S \in EventSets, NEW T \in SUBSET S
  PROVE  T \in EventSets
  BY FS_Subset DEF EventSets

LEMMA CountType ==
  ASSUME NEW S \in EventSets, NEW T \in SUBSET S
  PROVE  IsFiniteSet(T) /\ Cardinality(T) \in Nat
  BY EventSubset, FS_CardinalityType DEF EventSets

LEMMA EmptyBaselinesType == EmptyBaselines \in [Users -> UserBaseline]
  BY DEF EmptyBaselines, NoBaseline, UserBaseline, HourOfDay

\* Merging events into a baseline gives a baseline.
LEMMA MergeType ==
  ASSUME NEW b \in UserBaseline, NEW known \in UserBaseline, NEW S \in EventSets
  PROVE  Merge(b, known, S) \in UserBaseline
  <1>1. b.ips \cup ({e.ip : e \in S} \ (known.ips \cup {NoIP})) \in SUBSET IPs
    BY DEF Event, EventSets, UserBaseline
  <1>2. [h \in HourOfDay |-> b.hours[h] + Cardinality({e \in S : HourOf(e.ts) = h})]
          \in [HourOfDay -> Nat]
    <2>1. ASSUME NEW h \in HourOfDay
          PROVE  b.hours[h] + Cardinality({e \in S : HourOf(e.ts) = h}) \in Nat
      <3>1. Cardinality({e \in S : HourOf(e.ts) = h}) \in Nat
        BY CountType
      <3>2. b.hours[h] \in Nat
        BY DEF UserBaseline
      <3>3. QED
        BY <3>1, <3>2
    <2>2. QED
      BY <2>1
  <1>3. b.days \cup ({DayOf(e.ts) : e \in S} \ known.days) \in SUBSET Nat
    <2>1. \A e \in S : DayOf(e.ts) \in Nat
      BY ClockTypes DEF Event, EventSets
    <2>2. b.days \in SUBSET Nat
      BY DEF UserBaseline
    <2>3. QED
      BY <2>1, <2>2
  <1>4. b.logins + Cardinality({e \in S : e.type = "console_login"}) \in Nat
    <2>1. Cardinality({e \in S : e.type = "console_login"}) \in Nat
      BY CountType
    <2>2. QED
      BY <2>1 DEF UserBaseline
  <1>5. b.events + Cardinality(S) \in Nat
    BY CountType DEF UserBaseline
  <1>6. QED
    BY <1>1, <1>2, <1>3, <1>4, <1>5 DEF Merge, UserBaseline

LEMMA LearnType ==
  ASSUME NEW bl \in [Users -> UserBaseline], NEW known \in [Users -> UserBaseline],
         NEW S \in EventSets
  PROVE  /\ Learn(bl, S) \in [Users -> UserBaseline]
         /\ WriteThrough(bl, known, S) \in [Users -> UserBaseline]
  <1>1. ASSUME NEW u \in Users
        PROVE  /\ Merge(bl[u], bl[u], Feeding(S, u)) \in UserBaseline
               /\ Merge(bl[u], known[u], Feeding(S, u)) \in UserBaseline
    <2>1. Feeding(S, u) \in EventSets
      BY EventSubset DEF Feeding
    <2>2. QED
      BY <2>1, MergeType
  <1>2. QED
    BY <1>1 DEF Learn, WriteThrough

\* What Overlay holds for a user, field by field
LEMMA OverlayAt ==
  ASSUME NEW base, NEW from, NEW keys, NEW u \in Users, NEW f \in Fields
  PROVE  Overlay(base, from, keys)[u][f] = IF <<u, f>> \in keys THEN from[u][f] ELSE base[u][f]
  BY DEF Overlay

\* A table with these fields for every user
Table(t) == t = [u \in Users |-> [f \in Fields |-> t[u][f]]]

LEMMA Tables ==
  /\ Table(EmptyBaselines)
  /\ \A t \in [Users -> UserBaseline] : Table(t)
  /\ \A base, from, keys : Table(Overlay(base, from, keys))
  <1>1. \A r \in UserBaseline : r = [f \in Fields |-> r[f]]
    BY DEF UserBaseline, Fields
  <1>2. \A t \in [Users -> UserBaseline] : Table(t)
    BY <1>1 DEF Table
  <1>3. ASSUME NEW base, NEW from, NEW keys PROVE Table(Overlay(base, from, keys))
    BY DEF Table, Overlay
  <1>4. QED
    BY <1>2, <1>3, EmptyBaselinesType

\* Tables that agree in every field are the same.
LEMMA SameTable ==
  ASSUME NEW s, NEW t, Table(s), Table(t), \A u \in Users : \A f \in Fields : s[u][f] = t[u][f]
  PROVE  s = t
  BY DEF Table

LEMMA OverlayType ==
  ASSUME NEW base \in [Users -> UserBaseline], NEW from \in [Users -> UserBaseline], NEW keys
  PROVE  Overlay(base, from, keys) \in [Users -> UserBaseline]
  <1> DEFINE o == Overlay(base, from, keys)
  <1>1. ASSUME NEW u \in Users PROVE o[u] \in UserBaseline
    <2>1. base[u] \in UserBaseline /\ from[u] \in UserBaseline
      OBVIOUS
    <2>2. o[u] = [f \in Fields |-> o[u][f]]
      BY DEF Overlay
    <2>3. ASSUME NEW f \in Fields PROVE o[u][f] = from[u][f] \/ o[u][f] = base[u][f]
      <3>1. o[u][f] = IF <<u, f>> \in keys THEN from[u][f] ELSE base[u][f]
        BY OverlayAt
      <3>2. QED
        BY <3>1
    <2> HIDE DEF o
    <2>4. /\ o[u]["ips"] \in SUBSET IPs /\ o[u]["hours"] \in [HourOfDay -> Nat]
          /\ o[u]["days"] \in SUBSET Nat /\ o[u]["logins"] \in Nat /\ o[u]["events"] \in Nat
      BY <2>1, <2>3 DEF UserBaseline, Fields
    <2>5. QED
      BY <2>2, <2>4 DEF UserBaseline, Fields
  <1>2. QED
    BY <1>1 DEF Overlay

\* What is read in two parts is read at once.
LEMMA OverlayTwice ==
  ASSUME NEW base, NEW from, NEW J, NEW K
  PROVE  Overlay(Overlay(base, from, J), from, K) = Overlay(base, from, J \cup K)
  <1> DEFINE o == Overlay(base, from, J)
             a == Overlay(o, from, K)
             b == Overlay(base, from, J \cup K)
  <1>1. ASSUME NEW u \in Users, NEW f \in Fields PROVE a[u][f] = b[u][f]
    <2>1. o[u][f] = IF <<u, f>> \in J THEN from[u][f] ELSE base[u][f]
      BY OverlayAt
    <2>2. a[u][f] = IF <<u, f>> \in K THEN from[u][f] ELSE o[u][f]
      BY OverlayAt
    <2>3. b[u][f] = IF <<u, f>> \in J \cup K THEN from[u][f] ELSE base[u][f]
      BY OverlayAt
    <2> HIDE DEF o, a, b
    <2>4. QED
      BY <2>1, <2>2, <2>3
  <1>2. Table(a) /\ Table(b)
    BY Tables
  <1>3. a = b
    <2> HIDE DEF o, a, b
    <2> QED BY <1>1, <1>2, SameTable
  <1>4. QED
    BY <1>3

\* Nothing read changes nothing, ...
LEMMA OverlayNothing ==
  ASSUME NEW base \in [Users -> UserBaseline], NEW from
  PROVE  Overlay(base, from, {}) = base
  <1>1. ASSUME NEW u \in Users, NEW f \in Fields
        PROVE  Overlay(base, from, {})[u][f] = base[u][f]
    <2> DEFINE none == {}
    <2>1. <<u, f>> \notin none
      OBVIOUS
    <2> HIDE DEF none
    <2>2. Overlay(base, from, none)[u][f] =
            IF <<u, f>> \in none THEN from[u][f] ELSE base[u][f]
      BY OverlayAt
    <2>3. Overlay(base, from, none)[u][f] = base[u][f]
      BY <2>1, <2>2
    <2>4. QED
      BY <2>3 DEF none
  <1>2. QED
    BY <1>1, Tables, SameTable

\* ... and what is left to be read makes of the memory behind a key what it would
\* have made of it before.
LEMMA OverlayRest ==
  ASSUME NEW base, NEW from, NEW keys, NEW k \in keys
  PROVE  Overlay(Overlay(base, from, {k}), from, keys \ {k}) = Overlay(base, from, keys)
  <1>1. {k} \cup (keys \ {k}) = keys
    OBVIOUS
  <1>2. QED
    BY <1>1, OverlayTwice

\* What is known of a user comes from either table.
LEMMA OverlayOrigins ==
  ASSUME NEW base, NEW from, NEW keys, NEW u \in Users
  PROVE  \/ Overlay(base, from, keys)[u].ips = base[u].ips
         \/ Overlay(base, from, keys)[u].ips = from[u].ips
  <1>1. \A r : r.ips = r["ips"]
    OBVIOUS
  <1>2. "ips" \in Fields
    BY DEF Fields
  <1>3. \/ Overlay(base, from, keys)[u]["ips"] = base[u]["ips"]
        \/ Overlay(base, from, keys)[u]["ips"] = from[u]["ips"]
    <2>1. Overlay(base, from, keys)[u]["ips"] =
            IF <<u, "ips">> \in keys THEN from[u]["ips"] ELSE base[u]["ips"]
      BY <1>2, OverlayAt
    <2>2. QED
      BY <2>1
  <1>4. QED
    BY <1>1, <1>3

\* Without the keys that were found there is nothing left.
LEMMA DeletedAll ==
  ASSUME NEW r
  PROVE  Overlay(r, EmptyBaselines, StoredKeys(r)) = EmptyBaselines
  <1> DEFINE E == EmptyBaselines
             o == Overlay(r, E, StoredKeys(r))
  <1>1. ASSUME NEW u \in Users, NEW f \in Fields PROVE o[u][f] = E[u][f]
    <2>1. o[u][f] = IF <<u, f>> \in StoredKeys(r) THEN E[u][f] ELSE r[u][f]
      BY OverlayAt
    <2>2. CASE <<u, f>> \in StoredKeys(r)
      BY <2>1, <2>2
    <2>3. CASE <<u, f>> \notin StoredKeys(r)
      <3>1. Overlay(E, r, {<<u, f>>}) = E
        BY <2>3 DEF StoredKeys
      <3> DEFINE k == <<u, f>>
                 one == {k}
      <3>2. k \in one
        OBVIOUS
      <3> HIDE DEF one
      <3>3. Overlay(E, r, one)[u][f] = IF k \in one THEN r[u][f] ELSE E[u][f]
        BY OverlayAt
      <3>4. Overlay(E, r, one) = E
        BY <3>1 DEF one
      <3>5. r[u][f] = E[u][f]
        <4> HIDE DEF k
        <4> QED BY <3>2, <3>3, <3>4
      <3>6. QED
        BY <2>1, <2>3, <3>5
    <2>4. QED
      BY <2>2, <2>3
  <1>2. QED
    BY <1>1, Tables, SameTable

LEMMA LoadType ==
  ASSUME NEW r \in [Users -> UserBaseline]
  PROVE  Load(r) \in [Users -> UserBaseline]
  BY OverlayType, EmptyBaselinesType DEF Load

LEMMA WrittenType ==
  ASSUME NEW r \in [Users -> UserBaseline], NEW m \in [Users -> UserBaseline],
         NEW S \in EventSets, NEW e \in S, NEW n
  PROVE  WrittenUpTo(r, m, S, e, n) \in [Users -> UserBaseline]
  <1>1. Earlier(S, e) \in EventSets /\ Earlier(S, e) \cup {e} \in EventSets
    BY EventSubset DEF Earlier
  <1>2. QED
    BY <1>1, LearnType, OverlayType DEF WrittenUpTo

\* What is learned at once is what is learned in two parts.
LEMMA MergeParts ==
  ASSUME NEW A \in EventSets, NEW B \in EventSets, A \cap B = {},
         NEW b, b = Merge(NoBaseline, NoBaseline, A)
  PROVE  Merge(b, b, B) = Merge(NoBaseline, NoBaseline, A \cup B)
  <1> DEFINE c == Merge(NoBaseline, NoBaseline, A \cup B)
             AtHour(S, h) == {e \in S : HourOf(e.ts) = h}
             Logins(S) == {e \in S : e.type = "console_login"}
  <1>1. ASSUME NEW X \in SUBSET A, NEW Y \in SUBSET B, NEW Z, Z = X \cup Y
        PROVE  Cardinality(Z) = Cardinality(X) + Cardinality(Y)
    <2>1. IsFiniteSet(X) /\ IsFiniteSet(Y) /\ Cardinality(X) \in Nat /\ Cardinality(Y) \in Nat
      BY CountType
    <2>2. Cardinality(X \cap Y) = 0
      <3>1. X \cap Y = {}
        OBVIOUS
      <3>2. QED
        BY <3>1, FS_EmptySet, Zenon
    <2>3. Cardinality(X \cup Y) = Cardinality(X) + Cardinality(Y) - Cardinality(X \cap Y)
      BY <2>1, FS_Union
    <2>4. QED
      BY <1>1, <2>1, <2>2, <2>3
  <1>2. b.ips \cup ({e.ip : e \in B} \ (b.ips \cup {NoIP})) = {e.ip : e \in A \cup B} \ {NoIP}
    <2>1. b.ips = {e.ip : e \in A} \ {NoIP}
      BY DEF Merge, NoBaseline
    <2>2. QED
      BY <2>1
  <1>3. ASSUME NEW h \in HourOfDay
        PROVE  b.hours[h] + Cardinality(AtHour(B, h)) = 0 + Cardinality(AtHour(A \cup B, h))
    <2>1. b.hours[h] = 0 + Cardinality(AtHour(A, h))
      BY DEF Merge, NoBaseline
    <2>2. Cardinality(AtHour(A \cup B, h)) = Cardinality(AtHour(A, h)) + Cardinality(AtHour(B, h))
      BY <1>1, AtHour(A \cup B, h) = AtHour(A, h) \cup AtHour(B, h)
    <2>3. Cardinality(AtHour(A, h)) \in Nat /\ Cardinality(AtHour(B, h)) \in Nat
      BY CountType, AtHour(A, h) \in SUBSET A, AtHour(B, h) \in SUBSET B
    <2> HIDE DEF AtHour
    <2>4. QED
      BY <2>1, <2>2, <2>3
  <1>4. b.days \cup ({DayOf(e.ts) : e \in B} \ b.days) = {DayOf(e.ts) : e \in A \cup B}
    <2>1. b.days = {DayOf(e.ts) : e \in A}
      BY DEF Merge, NoBaseline
    <2>2. QED
      BY <2>1
  <1>5. b.logins + Cardinality(Logins(B)) = 0 + Cardinality(Logins(A \cup B))
    <2>1. b.logins = 0 + Cardinality(Logins(A))
      BY DEF Merge, NoBaseline
    <2>2. Cardinality(Logins(A \cup B)) = Cardinality(Logins(A)) + Cardinality(Logins(B))
      BY <1>1, Logins(A \cup B) = Logins(A) \cup Logins(B)
    <2>3. Cardinality(Logins(A)) \in Nat /\ Cardinality(Logins(B)) \in Nat
      BY CountType, Logins(A) \in SUBSET A, Logins(B) \in SUBSET B
    <2> HIDE DEF Logins
    <2>4. QED
      BY <2>1, <2>2, <2>3
  <1>6. b.events + Cardinality(B) = 0 + Cardinality(A \cup B)
    <2>1. b.events = 0 + Cardinality(A)
      BY DEF Merge, NoBaseline
    <2>2. Cardinality(A) \in Nat /\ Cardinality(B) \in Nat
      BY CountType
    <2>3. QED
      BY <1>1, <2>1, <2>2
  <1>7. /\ c.ips = {e.ip : e \in A \cup B} \ {NoIP}
        /\ c.days = {DayOf(e.ts) : e \in A \cup B}
    BY DEF Merge, NoBaseline
  <1>8. [h \in HourOfDay |-> b.hours[h] + Cardinality(AtHour(B, h))]
          = [h \in HourOfDay |-> NoBaseline.hours[h] + Cardinality(AtHour(A \cup B, h))]
    BY <1>3 DEF NoBaseline
  <1>9. QED
    BY <1>2, <1>4, <1>5, <1>6, <1>7, <1>8 DEF Merge, NoBaseline

\* Learning the events of two sets one after the other is learning their union.
LEMMA LearnParts ==
  ASSUME NEW A \in EventSets, NEW B \in EventSets, A \cap B = {}
  PROVE  Learn(BaselineOf(A), B) = BaselineOf(A \cup B)
  <1>1. ASSUME NEW u \in Users
        PROVE  LET b == BaselineOf(A)[u]
               IN Merge(b, b, Feeding(B, u))
                    = Merge(NoBaseline, NoBaseline, Feeding(A \cup B, u))
    <2>1. /\ Feeding(A, u) \in SUBSET A /\ Feeding(B, u) \in SUBSET B
      BY DEF Feeding
    <2>2. /\ Feeding(A, u) \cap Feeding(B, u) = {}
          /\ Feeding(A \cup B, u) = Feeding(A, u) \cup Feeding(B, u)
      BY DEF Feeding
    <2>3. BaselineOf(A)[u] = Merge(NoBaseline, NoBaseline, Feeding(A, u))
      BY DEF BaselineOf, Learn, EmptyBaselines
    <2>4. Feeding(A, u) \in EventSets /\ Feeding(B, u) \in EventSets
      BY <2>1, EventSubset
    <2>5. \A b : b = Merge(NoBaseline, NoBaseline, Feeding(A, u)) =>
            Merge(b, b, Feeding(B, u))
              = Merge(NoBaseline, NoBaseline, Feeding(A, u) \cup Feeding(B, u))
      BY <2>2, <2>4, MergeParts
    <2>6. QED
      BY <2>2, <2>3, <2>5
  <1>2. QED
    BY <1>1 DEF BaselineOf, Learn, EmptyBaselines

LEMMA MergeNone == Merge(NoBaseline, NoBaseline, {}) = NoBaseline
  <1>1. /\ {e.ip : e \in {}} = {} /\ {DayOf(e.ts) : e \in {}} = {}
        /\ \A h : {e \in {} : HourOf(e.ts) = h} = {}
        /\ {e \in {} : e.type = "console_login"} = {}
    OBVIOUS
  <1>2. Cardinality({}) = 0
    BY FS_EmptySet
  <1>3. QED
    BY <1>1, <1>2 DEF Merge, NoBaseline

LEMMA BaselineOfNone == BaselineOf({}) = EmptyBaselines
  <1>1. \A u : Feeding({}, u) = {}
    BY DEF Feeding
  <1>2. QED
    BY <1>1, MergeNone DEF BaselineOf, Learn, EmptyBaselines

\* A baseline without an origin is one without any event, as long as every
\* successful access has an origin: Load then reads back what was written.
LEMMA OriginsTell ==
  ASSUME NEW E, AccessesHaveOrigin(E), NEW S \in SUBSET E, NEW u \in Users,
         BaselineOf(S)[u].ips = {}
  PROVE  BaselineOf(S)[u] = NoBaseline
  <1>1. BaselineOf(S)[u] = Merge(NoBaseline, NoBaseline, Feeding(S, u))
    BY DEF BaselineOf, Learn, EmptyBaselines
  <1>2. {e.ip : e \in Feeding(S, u)} \subseteq {NoIP}
    <2>1. BaselineOf(S)[u].ips = {e.ip : e \in Feeding(S, u)} \ {NoIP}
      BY <1>1 DEF Merge, NoBaseline
    <2>2. QED
      BY <2>1
  <1>3. \A e \in Feeding(S, u) : e.ip # NoIP
    BY DEF AccessesHaveOrigin, Feeding
  <1>4. Feeding(S, u) = {}
    BY <1>2, <1>3
  <1>5. QED
    BY <1>1, <1>4, MergeNone

\* Load reads back any table in which a user without an origin has nothing.
LEMMA LoadsAll ==
  ASSUME NEW r \in [Users -> UserBaseline],
         \A u \in Users : r[u].ips = {} => r[u] = NoBaseline
  PROVE  Load(r) = r
  <1>1. ASSUME NEW u \in Users, NEW f \in Fields PROVE Load(r)[u][f] = r[u][f]
    <2>1. CASE r[u].ips = {}
      <3>1. <<u, f>> \notin LoadKeys(r)
        BY <2>1 DEF LoadKeys
      <3>2. EmptyBaselines[u] = r[u]
        BY <2>1 DEF EmptyBaselines
      <3>3. QED
        BY <3>1, <3>2, OverlayAt DEF Load
    <2>2. CASE r[u].ips # {}
      <3>1. <<u, f>> \in LoadKeys(r)
        BY <2>2 DEF LoadKeys
      <3>2. QED
        BY <3>1, OverlayAt DEF Load
    <2>3. QED
      BY <2>1, <2>2
  <1>2. Table(Load(r)) /\ Table(r)
    BY Tables DEF Load
  <1>3. QED
    BY <1>1, <1>2, SameTable

LEMMA LoadsWhatWasLearned ==
  ASSUME NEW E, AccessesHaveOrigin(E), NEW S \in SUBSET E, S \in EventSets
  PROVE  Load(BaselineOf(S)) = BaselineOf(S)
  <1>1. BaselineOf(S) \in [Users -> UserBaseline]
    BY LearnType, EmptyBaselinesType DEF BaselineOf
  <1>2. QED
    BY <1>1, OriginsTell, LoadsAll

-----------------------------------------------------------------------------
(* Findings *)

\* The sum over no element, by the definition of the fold as a recursive function.
LEMMA NoBytes == ASSUME NEW S, S = {} PROVE MapThenSumSet(LAMBDA e : e.bytes, S) = 0
  <1> DEFINE Iter(f) == f = [s \in SUBSET S |->
                               IF s = {} THEN 0
                               ELSE LET x == CHOOSE x \in s : TRUE IN x.bytes + f[s \ {x}]]
             iter == CHOOSE f : Iter(f)
  <1>1. SUBSET S = {{}}
    OBVIOUS
  <1>2. Iter([s \in SUBSET S |-> 0])
    BY <1>1
  <1>3. Iter(iter)
    BY <1>2, Zenon
  <1>4. iter[S] = 0
    BY <1>3
  <1>5. MapThenSumSet(LAMBDA e : e.bytes, S) = iter[S]
    BY DEF MapThenSumSet, MapThenFoldSet
  <1>6. QED
    BY <1>4, <1>5

\* A window without events holds no finding, whatever the baselines.
LEMMA FindingsOfNone == ASSUME NEW bl PROVE Findings({}, bl) = {}
  <1>1. Cardinality({}) = 0
    BY FS_EmptySet
  <1>2. CredentialStuffing({}) = {}
    BY <1>1, ThresholdAssumption DEF CredentialStuffing
  <1>3. PrivilegeEscalation({}) = {}
    BY DEF PrivilegeEscalation
  <1>4. LateralMovement({}) = {}
    BY <1>1, ThresholdAssumption DEF LateralMovement
  <1>5. DataExfiltration({}) = {}
    <2> DEFINE Transfers(u) == {e \in {} : e.type = "data_transfer" /\ e.user = u}
               Volume(u)    == MapThenSumSet(LAMBDA e : e.bytes, Transfers(u))
    <2>1. ASSUME NEW u
          PROVE  Volume(u) = 0
      <3>1. Transfers(u) = {}
        OBVIOUS
      <3>2. QED
        BY <3>1, NoBytes
    <2>2. ASSUME NEW u
          PROVE  ~ (Volume(u) >= ExfilBytes)
      <3> HIDE DEF Volume
      <3> QED BY <2>1, ThresholdAssumption
    <2>3. {v \in Users : Volume(v) >= ExfilBytes} = {}
      <3> HIDE DEF Volume
      <3> QED BY <2>2
    <2>4. QED
      <3> DEFINE Found(u) == Finding("data_exfiltration", u, u, Earliest(Transfers(u)).ip, Transfers(u))
      <3>1. DataExfiltration({}) = {Found(u) : u \in {v \in Users : Volume(v) >= ExfilBytes}}
        BY DEF DataExfiltration
      <3> HIDE DEF Found, Volume
      <3>2. QED
        BY <2>3, <3>1
  <1>6. SensitiveDataExposure({}) = {}
    BY DEF SensitiveDataExposure
  <1>7. IdentityAnomaly({}, bl) = {}
    BY DEF IdentityAnomaly
  <1>8. OffHoursAccess({}, bl) = {}
    BY DEF OffHoursAccess, Feeding
  <1>9. QED
    BY <1>2, <1>3, <1>4, <1>5, <1>6, <1>7, <1>8 DEF Findings, RuleFindings

-----------------------------------------------------------------------------
(* Queries *)

LEMMA OriginType ==
  ASSUME NEW L \in EventSets, L # {}
  PROVE  Origin(L) \in Nat /\ \A e \in L : Origin(L) <= e.ts
  <1> DEFINE T == {e.ts : e \in L}
  <1>1. T \in SUBSET Nat /\ T # {}
    BY DEF Event, EventSets
  <1>2. Min(T) \in Nat /\ \A y \in T : Min(T) <= y
    BY <1>1, MinOfNat
  <1> DEFINE m == Min(T)
  <1>3. m \in Nat /\ Truncate(m) \in Nat /\ Truncate(m) <= m
    <2>1. m \in Nat
      BY <1>2
    <2>2. QED
      BY <2>1, TruncateBounds
  <1>4. ASSUME NEW e \in L
        PROVE  e.ts \in Nat /\ m <= e.ts
    BY <1>1, <1>2
  <1>5. Origin(L) = Truncate(m)
    BY DEF Origin
  <1> HIDE DEF m
  <1>6. QED
    BY <1>3, <1>4, <1>5

LEMMA OriginIs ==
  ASSUME NEW L \in EventSets, L # {}
  PROVE  \E e \in L : Origin(L) = Truncate(e.ts) /\ \A f \in L : e.ts <= f.ts
  <1> DEFINE T == {e.ts : e \in L}
  <1>1. T \in SUBSET Nat /\ T # {}
    BY DEF Event, EventSets
  <1>2. Min(T) \in T /\ \A y \in T : Min(T) <= y
    BY <1>1, MinOfNat
  <1>3. PICK e \in L : Min(T) = e.ts
    BY <1>2
  <1>4. \A f \in L : e.ts <= f.ts
    BY <1>2, <1>3
  <1>5. QED
    BY <1>3, <1>4 DEF Origin

LEMMA NothingBeforeOrigin ==
  ASSUME NEW L \in EventSets, L # {}
  PROVE  Before(L, Origin(L)) = {}
  <1>1. Origin(L) \in Nat /\ \A e \in L : Origin(L) <= e.ts /\ e.ts \in Nat
    BY OriginType DEF Event, EventSets
  <1>2. QED
    BY <1>1 DEF Before

\* The history before a window and the leading step of the window are the
\* history before the next window.
LEMMA HistoryParts ==
  ASSUME NEW L \in EventSets, NEW t \in Nat
  PROVE  LET lead == LeadEvents(WindowEvents(L, t), t)
         IN /\ Before(L, t) \in EventSets /\ lead \in EventSets
            /\ Before(L, t) \cap lead = {}
            /\ Before(L, t + Step) = Before(L, t) \cup lead
  <1> DEFINE lead == LeadEvents(WindowEvents(L, t), t)
  <1>1. /\ Before(L, t) \in SUBSET L /\ lead \in SUBSET L
        /\ Before(L, t) \cap lead = {}
        /\ Before(L, t + Step) = Before(L, t) \cup lead
    BY StepAssumption DEF Event, EventSets, Before, LeadEvents, WindowEvents, InWindow, InLead
  <1>2. Before(L, t) \in EventSets /\ lead \in EventSets
    BY <1>1, EventSubset
  <1>3. QED
    BY <1>1, <1>2

=============================================================================
