--------------------------- MODULE BackfillProofs ---------------------------
(***************************************************************************)
(* Proofs about the life of a dataset: an evaluation passes only on a      *)
(* dataset that is there as a whole, whoever sweeps judges by the history  *)
(* before the window, an evaluation records what the batch definition      *)
(* gives, and a server that has caught up shows the same, whatever ran and *)
(* died before.                                                            *)
(***************************************************************************)
EXTENDS Backfill, ScoringProofs

\* The rows of logs are finitely many events.
LEMMA LogRows ==
  ASSUME NEW L \in SUBSET Events
  PROVE  L \in EventSets
  BY FS_Subset, EventsAssumption DEF EventSets

Typed ==
  /\ logs \subseteq Events
  /\ watermark = Unset \/ watermark \in Nat
  /\ next \in Nat

LEMMA DatasetEvents ==
  ASSUME NEW d \in Datasets
  PROVE  d.events \subseteq Events /\ d.events # {}
  BY DatasetsAssumption

LEMMA EventsMax ==
  ASSUME NEW L \in SUBSET Events, L # {}
  PROVE  LET last == Max({e.ts : e \in L})
         IN last \in Nat /\ (\A e \in L : e.ts <= last) /\ \E e \in L : e.ts = last
  <1> DEFINE T == {e.ts : e \in L}
  <1>1. T \in SUBSET Nat /\ T # {}
    BY EventsAssumption DEF Event
  <1>2. IsFiniteSet(T)
    <2>1. IsFiniteSet(L)
      BY CountType, LogRows
    <2>2. [e \in L |-> e.ts] \in Surjection(L, T)
      BY DEF Surjection
    <2> HIDE DEF T
    <2>3. QED
      BY <2>1, <2>2, FS_Surjection
  <1>3. PICK n \in Nat : \A x \in T : x <= n
    <2> HIDE DEF T
    <2> QED BY <1>1, <1>2, FiniteBounded
  <1>4. Max(T) \in T /\ \A x \in T : x <= Max(T)
    <2> HIDE DEF T
    <2> QED BY <1>1, <1>3, MaxOfNat
  <1>5. QED
    BY <1>1, <1>4

LEMMA LastEventIs ==
  ASSUME Typed, logs # {}
  PROVE  /\ LastEvent \in Nat /\ \A e \in logs : e.ts <= LastEvent
         /\ \E e \in logs : e.ts = LastEvent
  BY EventsMax DEF LastEvent, Typed

\* No event lies behind the watermark of a drain.
LEMMA DrainedPastLast ==
  ASSUME Typed, logs # {}
  PROVE  DrainedTo \in Nat /\ \A e \in logs : e.ts < DrainedTo
  <1>1. LastEvent \in Nat /\ \A e \in logs : e.ts <= LastEvent /\ e.ts \in Nat
    BY LastEventIs, EventsAssumption DEF Typed, Event
  <1>2. Truncate(LastEvent) \in Nat /\ LastEvent < Truncate(LastEvent) + Step
    BY <1>1, TruncateBounds
  <1> DEFINE last == LastEvent
             from == Truncate(LastEvent)
  <1>3. DrainedTo = from + Step
    BY DEF DrainedTo
  <1> HIDE DEF last, from
  <1>4. last \in Nat /\ from \in Nat /\ last < from + Step
        /\ \A e \in logs : e.ts <= last /\ e.ts \in Nat
    BY <1>1, <1>2 DEF last, from
  <1>5. QED
    BY <1>3, <1>4, StepAssumption

-----------------------------------------------------------------------------
(* The alerts of a batch *)

\* The first n rows of the recursion, ...
FirstRows(L, f, n) ==
  f = [t \in 0 .. n |-> IF t = 0 THEN <<>> ELSE SweepAt(L, f[t - 1], t - 1)]

\* ... which exist, one more at a time, ...
LEMMA FirstRowsExist ==
  ASSUME NEW L, NEW n \in Nat
  PROVE  \E f : FirstRows(L, f, n)
  <1> DEFINE Bad == {k \in Nat : ~ \E f : FirstRows(L, f, k)}
             k == Min(Bad)
  <1>1. SUFFICES ASSUME Bad # {} PROVE FALSE
    OBVIOUS
  <1>2. k \in Nat /\ (~ \E f : FirstRows(L, f, k)) /\ \A y \in Bad : k <= y
    <2> HIDE DEF Bad
    <2>1. k \in Bad /\ \A y \in Bad : k <= y
      BY <1>1, MinOfNat DEF Bad
    <2>2. QED
      BY <2>1 DEF Bad
  <1> HIDE DEF k
  <1>3. CASE k = 0
    <2>1. FirstRows(L, [t \in 0 .. 0 |-> <<>>], 0)
      BY DEF FirstRows
    <2>2. QED
      BY <1>2, <1>3, <2>1
  <1>4. CASE k # 0
    <2>1. k - 1 \in Nat /\ k - 1 \notin Bad
      BY <1>2, <1>4
    <2>2. PICK f : FirstRows(L, f, k - 1)
      BY <2>1
    <2> DEFINE g == [t \in 0 .. k |-> IF t = k THEN SweepAt(L, f[k - 1], k - 1) ELSE f[t]]
    <2>3. ASSUME NEW t \in 0 .. k
          PROVE  g[t] = IF t = 0 THEN <<>> ELSE SweepAt(L, g[t - 1], t - 1)
      <3>1. CASE t = k
        BY <1>2, <1>4, <3>1
      <3>2. CASE t # k
        <4>1. t \in 0 .. k - 1 /\ g[t] = f[t] /\ (t # 0 => t - 1 \in 0 .. k /\ g[t - 1] = f[t - 1])
          BY <1>2, <3>2
        <4>2. f[t] = IF t = 0 THEN <<>> ELSE SweepAt(L, f[t - 1], t - 1)
          BY <2>2, <4>1 DEF FirstRows
        <4>3. QED
          BY <4>1, <4>2
      <3>3. QED
        BY <3>1, <3>2
    <2>4. FirstRows(L, g, k)
      <3> HIDE DEF g
      <3>1. g = [t \in 0 .. k |-> g[t]]
        BY DEF g
      <3>2. QED
        BY <2>3, <3>1, Zenon DEF FirstRows
    <2>5. QED
      BY <1>2, <2>4
  <1>5. QED
    BY <1>3, <1>4

\* ... and agree where they overlap, ...
LEMMA FirstRowsAgree ==
  ASSUME NEW L, NEW n \in Nat, NEW m \in Nat, NEW f, NEW g,
         FirstRows(L, f, n), FirstRows(L, g, m), n <= m,
         NEW t \in 0 .. n
  PROVE  f[t] = g[t]
  <1> DEFINE Bad == {k \in 0 .. n : f[k] # g[k]}
             k == Min(Bad)
  <1>1. SUFFICES ASSUME Bad # {} PROVE FALSE
    OBVIOUS
  <1>2. k \in 0 .. n /\ f[k] # g[k] /\ \A y \in Bad : k <= y
    <2> HIDE DEF Bad
    <2>1. k \in Bad /\ \A y \in Bad : k <= y
      BY <1>1, MinOfNat DEF Bad
    <2>2. QED
      BY <2>1 DEF Bad
  <1> HIDE DEF k
  <1>3. k \in 0 .. m
    BY <1>2
  <1>4. /\ f[k] = IF k = 0 THEN <<>> ELSE SweepAt(L, f[k - 1], k - 1)
        /\ g[k] = IF k = 0 THEN <<>> ELSE SweepAt(L, g[k - 1], k - 1)
    BY <1>2, <1>3 DEF FirstRows
  <1>5. k # 0 => f[k - 1] = g[k - 1]
    BY <1>2
  <1>6. QED
    BY <1>2, <1>4, <1>5

\* ... so the recursion defines a function.
LEMMA BatchAlertsNext ==
  ASSUME NEW L, NEW t \in Nat
  PROVE  /\ BatchAlerts(L, 0) = <<>>
         /\ BatchAlerts(L, t + 1) = SweepAt(L, BatchAlerts(L, t), t)
  <1> DEFINE Rows(f) == f = [x \in Nat |-> IF x = 0 THEN <<>> ELSE SweepAt(L, f[x - 1], x - 1)]
             rows == CHOOSE f : Rows(f)
             first(n) == CHOOSE f : FirstRows(L, f, n)
             g == [x \in Nat |-> first(x)[x]]
  <1>1. ASSUME NEW n \in Nat
        PROVE  FirstRows(L, first(n), n)
    BY FirstRowsExist
  <1>2. ASSUME NEW x \in Nat
        PROVE  g[x] = IF x = 0 THEN <<>> ELSE SweepAt(L, g[x - 1], x - 1)
    <2> HIDE DEF first
    <2>1. first(x)[x] = IF x = 0 THEN <<>> ELSE SweepAt(L, first(x)[x - 1], x - 1)
      <3>1. FirstRows(L, first(x), x) /\ x \in 0 .. x
        BY <1>1
      <3>2. QED
        BY <3>1 DEF FirstRows
    <2>2. ASSUME x # 0
          PROVE  first(x)[x - 1] = first(x - 1)[x - 1]
      <3>1. x - 1 \in Nat /\ x - 1 \in 0 .. x - 1 /\ x - 1 <= x
        BY <2>2
      <3>2. FirstRows(L, first(x - 1), x - 1) /\ FirstRows(L, first(x), x)
        BY <1>1, <3>1
      <3>3. QED
        BY <3>1, <3>2, FirstRowsAgree
    <2>3. g[x] = first(x)[x] /\ (x # 0 => g[x - 1] = first(x - 1)[x - 1])
      OBVIOUS
    <2>4. QED
      BY <2>1, <2>2, <2>3
  <1>3. Rows(g)
    <2> HIDE DEF first
    <2>1. g = [x \in Nat |-> g[x]]
      OBVIOUS
    <2> HIDE DEF g
    <2>2. QED
      BY <1>2, <2>1, Zenon
  <1>4. Rows(rows)
    <2> HIDE DEF g
    <2> QED BY <1>3, Zenon
  <1>5. \A n : BatchAlerts(L, n) = rows[n]
    BY DEF BatchAlerts
  <1> HIDE DEF rows
  <1>6. /\ rows[0] = <<>>
        /\ rows[t + 1] = SweepAt(L, rows[t], t)
    <2>1. \A x \in Nat : rows[x] = IF x = 0 THEN <<>> ELSE SweepAt(L, rows[x - 1], x - 1)
      BY <1>4
    <2>2. t + 1 \in Nat /\ t + 1 # 0 /\ (t + 1) - 1 = t
      OBVIOUS
    <2>3. QED
      BY <2>1, <2>2
  <1>7. QED
    BY <1>5, <1>6

\* No window starts between an aligned instant and less than a step before it.
LEMMA BetweenStarts ==
  ASSUME NEW L, NEW t \in Nat, Aligned(t), NEW b \in Nat, b <= t, t < b + Step
  PROVE  BatchAlerts(L, b) = BatchAlerts(L, t)
  <1> DEFINE Bad == {k \in Nat : k <= t /\ k < Step /\ BatchAlerts(L, t - k) # BatchAlerts(L, t)}
             k == Min(Bad)
  <1>1. SUFFICES ASSUME Bad # {} PROVE FALSE
    <2>1. t - b \in Nat /\ t - b <= t /\ t - b < Step /\ t - (t - b) = b
      BY StepAssumption
    <2>2. QED
      BY <2>1
  <1>2. /\ k \in Nat /\ k <= t /\ k < Step /\ BatchAlerts(L, t - k) # BatchAlerts(L, t)
        /\ \A y \in Bad : k <= y
    <2> HIDE DEF Bad
    <2>1. k \in Bad /\ \A y \in Bad : k <= y
      BY <1>1, MinOfNat DEF Bad
    <2>2. QED
      BY <2>1 DEF Bad
  <1> HIDE DEF k
  <1>3. k # 0
    BY <1>2
  <1> DEFINE s == t - k
  <1>4. s \in Nat /\ s < t /\ s + 1 = t - (k - 1) /\ s < t + Step /\ t < s + Step
    BY <1>2, <1>3, StepAssumption
  <1>5. k - 1 \notin Bad /\ k - 1 \in Nat /\ k - 1 <= t /\ k - 1 < Step
    BY <1>2, <1>3, StepAssumption
  <1>6. BatchAlerts(L, s + 1) = BatchAlerts(L, t)
    BY <1>4, <1>5
  <1>7. ~ Aligned(s)
    BY <1>4, AlignedApart
  <1> HIDE DEF s
  <1>8. BatchAlerts(L, s + 1) = BatchAlerts(L, s)
    BY <1>4, <1>7, BatchAlertsNext DEF SweepAt
  <1>9. QED
    BY <1>2, <1>6, <1>8 DEF s

\* Nor does one start before the origin.
LEMMA NoneUpToOrigin ==
  ASSUME NEW L \in EventSets, L # {}
  PROVE  BatchAlerts(L, Origin(L)) = <<>>
  <1> DEFINE o == Origin(L)
             Bad == {k \in Nat : k <= o /\ BatchAlerts(L, k) # <<>>}
             k == Min(Bad)
  <1>1. o \in Nat
    BY OriginType
  <1>2. SUFFICES ASSUME Bad # {} PROVE FALSE
    BY <1>1
  <1>3. k \in Nat /\ k <= o /\ BatchAlerts(L, k) # <<>> /\ \A y \in Bad : k <= y
    <2> HIDE DEF Bad
    <2>1. k \in Bad /\ \A y \in Bad : k <= y
      BY <1>2, MinOfNat DEF Bad
    <2>2. QED
      BY <2>1 DEF Bad
  <1> HIDE DEF k
  <1>4. k # 0
    BY <1>3, BatchAlertsNext
  <1>5. k - 1 \in Nat /\ (k - 1) + 1 = k /\ ~ (o <= k - 1) /\ BatchAlerts(L, k - 1) = <<>>
    <2> HIDE DEF o
    <2> QED BY <1>1, <1>3, <1>4
  <1>6. BatchAlerts(L, (k - 1) + 1) = BatchAlerts(L, k - 1)
    BY <1>5, BatchAlertsNext DEF SweepAt
  <1>7. QED
    BY <1>3, <1>5, <1>6

\* One window more.
LEMMA WindowAlerts ==
  ASSUME NEW L, NEW t \in Nat, Aligned(t), Origin(L) <= t
  PROVE  BatchAlerts(L, t + Step) = Store(BatchAlerts(L, t), InOrder(FindingsAt(L, t)))
  <1>1. BatchAlerts(L, t + 1) = Store(BatchAlerts(L, t), InOrder(FindingsAt(L, t)))
    BY BatchAlertsNext DEF SweepAt
  <1>2. /\ t + Step \in Nat /\ t + 1 \in Nat /\ t + 1 <= t + Step /\ t + Step < (t + 1) + Step
        /\ Aligned(t + Step)
    BY NextAligned, StepAssumption
  <1>3. BatchAlerts(L, t + 1) = BatchAlerts(L, t + Step)
    BY <1>2, BetweenStarts
  <1>4. QED
    BY <1>1, <1>3

-----------------------------------------------------------------------------
(* The inductive invariant *)

\* What a loader may find: the dataset it generated, its events in part and no
\* attack, or all its events and its attacks in part.
LoadInv ==
  /\ pc \in {"reset_all", "flush", "load"} => dataset \in Datasets
  /\ pc = "flush" => logs = {} /\ attacks = {}
  /\ pc = "load" => /\ logs \subseteq dataset.events
                    /\ attacks # {} => logs = dataset.events
                    /\ attacks \subseteq dataset.attacks

\* A manifest that is not empty belongs to the events in the table.
ManifestInv ==
  attacks # {} => \E d \in Datasets : logs = d.events /\ attacks \subseteq d.attacks

\* Who is where, and what the watermark can be there.
PlaceInv ==
  /\ pc \in {"boot", "live"} => proc = "server"
  /\ pc \in {"reset_detections", "drain", "sweep", "score"} => logs # {}
  /\ logs = {} => watermark = Unset
  /\ pc \in {"flush", "load", "drain"} => watermark = Unset
  /\ proc = "eval" /\ pc = "sweep" => watermark = Unset
  /\ proc = "server" /\ pc = "sweep" /\ watermark # Unset => next = watermark

\* Baselines are those of the history before t, if an event is left to judge.
Knows(bl, t) == (\E e \in logs : t <= e.ts) => bl = BaselineOf(Before(logs, t))

\* Nothing was learned twice, and what is learned is loaded again.
Faithful == AccessesHaveOrigin(Events) /\ ~relearned

\* The stores agree with the watermark, the process with where it stands.
HistoryInv ==
  Faithful =>
    /\ watermark # Unset => Knows(redis, watermark)
    /\ pc = "live" /\ watermark # Unset => Knows(mem, watermark)
    /\ pc = "sweep" => Knows(redis, next) /\ Knows(mem, next)

BackInv == Typed /\ LoadInv /\ ManifestInv /\ GateNeedsAllEvents /\ PlaceInv /\ HistoryInv

LEMMA BackInit == Init => BackInv
  BY DEF Init, BackInv, Typed, LoadInv, ManifestInv, GateNeedsAllEvents, PlaceInv,
         HistoryInv, Faithful

-----------------------------------------------------------------------------
(* Steps that leave the tables and the baselines alone *)

LEMMA TablesKept ==
  ASSUME BackInv, UNCHANGED <<logs, attacks, recorded>>
  PROVE  ManifestInv' /\ GateNeedsAllEvents'
  BY DEF BackInv, ManifestInv, GateNeedsAllEvents

LEMMA KnowsKept ==
  ASSUME UNCHANGED logs, NEW bl, NEW t, Knows(bl, t)
  PROVE  (\E e \in logs' : t <= e.ts) => bl = BaselineOf(Before(logs', t))
  BY DEF Knows

\* The process ends: what it held is gone, what it wrote is not.
LEMMA ExitStep ==
  ASSUME BackInv, Exit, UNCHANGED <<logs, attacks, watermark, recorded>>,
         relearned' \/ UNCHANGED <<redis, relearned>>
  PROVE  BackInv'
  <1>1. ManifestInv' /\ GateNeedsAllEvents'
    BY TablesKept
  <1>2. Typed' /\ LoadInv' /\ PlaceInv'
    BY DEF BackInv, Typed, LoadInv, PlaceInv, Exit, Goto
  <1>3. HistoryInv'
    BY DEF BackInv, HistoryInv, Faithful, Knows, Exit, Goto
  <1>4. QED
    BY <1>1, <1>2, <1>3 DEF BackInv

LEMMA FinishStep ==
  ASSUME BackInv, FinishSeed \/ Stop
  PROVE  BackInv'
  BY ExitStep DEF FinishSeed, Stop, tables

-----------------------------------------------------------------------------
(* The seeder *)

LEMMA StartSeedStep == ASSUME BackInv, StartSeed PROVE BackInv'
  <1>1. ManifestInv' /\ GateNeedsAllEvents'
    BY TablesKept DEF StartSeed, tables
  <1>2. Typed' /\ LoadInv' /\ PlaceInv'
    BY DEF BackInv, Typed, LoadInv, PlaceInv, StartSeed, Goto, tables
  <1>3. HistoryInv'
    BY DEF BackInv, HistoryInv, Faithful, Knows, StartSeed, Goto, tables
  <1>4. QED
    BY <1>1, <1>2, <1>3 DEF BackInv

LEMMA ResetAllStep == ASSUME BackInv, ResetAll PROVE BackInv'
  BY DEF BackInv, Typed, LoadInv, ManifestInv, GateNeedsAllEvents, PlaceInv, HistoryInv, Faithful,
         ResetAll, Goto

LEMMA FlushDBStep == ASSUME BackInv, FlushDB PROVE BackInv'
  <1>1. ManifestInv' /\ GateNeedsAllEvents'
    BY TablesKept DEF FlushDB, tables
  <1>2. Typed' /\ LoadInv' /\ PlaceInv' /\ HistoryInv'
    BY DEF BackInv, Typed, LoadInv, PlaceInv, HistoryInv, Faithful, FlushDB, Goto, tables
  <1>3. QED
    BY <1>1, <1>2 DEF BackInv

\* Rows are only added to the tables of a fresh dataset.
LEMMA SeedingStep == ASSUME BackInv, Seeding PROVE BackInv'
  <1>1. pc = "load" /\ dataset \in Datasets /\ logs \subseteq dataset.events
        /\ (attacks # {} => logs = dataset.events) /\ watermark = Unset
        /\ attacks \subseteq dataset.attacks
    BY DEF BackInv, LoadInv, PlaceInv, Seeding, LoadChunk, LoadAttack
  <1>2. UNCHANGED <<watermark, redis, recorded, proc, pc, dataset, mem, next, relearned>>
    BY DEF Seeding, LoadChunk, LoadAttack, process
  <1>3. /\ logs' \subseteq dataset.events /\ logs \subseteq logs'
        /\ attacks' \subseteq dataset.attacks
        /\ attacks' # {} => logs' = dataset.events
    <2>1. CASE LoadChunk
      BY <1>1, <2>1 DEF LoadChunk
    <2>2. CASE LoadAttack
      BY <1>1, <2>2 DEF LoadAttack, feedVars
    <2>3. QED
      BY <2>1, <2>2 DEF Seeding
  <1>4. Typed'
    BY <1>1, <1>2, <1>3, DatasetEvents DEF BackInv, Typed
  <1>5. LoadInv' /\ ManifestInv'
    BY <1>1, <1>2, <1>3 DEF LoadInv, ManifestInv
  <1>6. GateNeedsAllEvents'
    BY <1>2 DEF BackInv, GateNeedsAllEvents
  <1>7. PlaceInv' /\ HistoryInv'
    BY <1>1, <1>2 DEF BackInv, PlaceInv, HistoryInv, Faithful
  <1>8. QED
    BY <1>4, <1>5, <1>6, <1>7 DEF BackInv

-----------------------------------------------------------------------------
(* A window *)

\* A fresh start: baselines without a history, at the origin.
LEMMA FreshKnows ==
  ASSUME Typed, logs # {}
  PROVE  Origin(logs) \in Nat /\ Knows(EmptyBaselines, Origin(logs))
  BY OriginType, LogRows, NothingBeforeOrigin, BaselineOfNone DEF Typed, Knows

\* Sweeping a window learns what the next one's history has more.
LEMMA SweepLearns ==
  ASSUME Typed, Knows(redis, next), Knows(mem, next), SweepWindow(next)
  PROVE  Knows(redis', next + Step) /\ Knows(mem', next + Step)
  <1>1. SUFFICES ASSUME \E e \in logs : next + Step <= e.ts
                 PROVE  /\ redis' = BaselineOf(Before(logs, next + Step))
                        /\ mem' = BaselineOf(Before(logs, next + Step))
    BY DEF Knows
  <1>2. \E e \in logs : next <= e.ts
    BY <1>1, EventsAssumption, StepAssumption DEF Typed, Event
  <1>3. redis = BaselineOf(Before(logs, next)) /\ mem = redis
    BY <1>2 DEF Knows
  <1>4. /\ Before(logs, next) \in EventSets /\ Lead(next) \in EventSets
        /\ Before(logs, next) \cap Lead(next) = {}
        /\ Before(logs, next + Step) = Before(logs, next) \cup Lead(next)
    BY HistoryParts, LogRows DEF Typed, Lead
  <1>5. Learn(mem, Lead(next)) = BaselineOf(Before(logs, next + Step))
    BY <1>3, <1>4, LearnParts
  <1>6. redis' = Learn(mem, Lead(next)) /\ mem' = Learn(mem, Lead(next))
    BY <1>3 DEF SweepWindow, WriteThrough, Learn
  <1>7. QED
    BY <1>5, <1>6

\* Knowing the history is judging as the batch definition does.
LEMMA KnowingIsJudging ==
  ASSUME Knows(mem, next)
  PROVE  Findings(WindowEvents(logs, next), mem) = FindingsAt(logs, next)
  <1>1. CASE WindowEvents(logs, next) = {}
    BY <1>1, FindingsOfNone DEF FindingsAt
  <1>2. CASE WindowEvents(logs, next) # {}
    <2>1. \E e \in logs : next <= e.ts
      BY <1>2 DEF WindowEvents, InWindow
    <2>2. QED
      BY <2>1 DEF Knows, FindingsAt
  <1>3. QED
    BY <1>1, <1>2

LEMMA DieStep ==
  ASSUME BackInv, DieSweeping(next)
  PROVE  BackInv'
  <1>1. Exit /\ UNCHANGED <<logs, attacks, watermark, recorded>>
    BY DEF DieSweeping
  <1>2. relearned' \/ UNCHANGED <<redis, relearned>>
    BY DEF DieSweeping
  <1>3. QED
    BY <1>1, <1>2, ExitStep

-----------------------------------------------------------------------------
(* The evaluator *)

LEMMA StartEvalStep == ASSUME BackInv, StartEval \/ ResetDetections PROVE BackInv'
  <1>1. UNCHANGED <<logs, attacks, recorded, redis, mem, next, dataset, relearned>>
        /\ logs # {} /\ pc' \in {"reset_detections", "drain"}
        /\ (watermark' = watermark \/ watermark' = Unset)
        /\ (pc' = "drain" => watermark' = Unset)
    BY DEF BackInv, PlaceInv, StartEval, ResetDetections, Goto, tables
  <1>2. ManifestInv' /\ GateNeedsAllEvents'
    BY <1>1, TablesKept
  <1>3. Typed' /\ LoadInv' /\ PlaceInv'
    BY <1>1 DEF BackInv, Typed, LoadInv, PlaceInv
  <1>4. HistoryInv'
    BY <1>1 DEF BackInv, HistoryInv, Faithful, Knows
  <1>5. QED
    BY <1>2, <1>3, <1>4 DEF BackInv

LEMMA DrainStep == ASSUME BackInv, Drain PROVE BackInv'
  <1>1. UNCHANGED <<logs, attacks, recorded, watermark, proc>> /\ logs # {} /\ watermark = Unset
        /\ redis' = EmptyBaselines /\ mem' = EmptyBaselines /\ next' = Origin(logs)
        /\ pc' = "sweep"
    BY DEF BackInv, PlaceInv, Drain, ResetBaselines, Goto, tables
  <1>2. ManifestInv' /\ GateNeedsAllEvents'
    BY <1>1, TablesKept
  <1>3. Origin(logs) \in Nat /\ Knows(EmptyBaselines, Origin(logs))
    BY <1>1, FreshKnows DEF BackInv
  <1>4. Typed' /\ LoadInv' /\ PlaceInv'
    BY <1>1, <1>3 DEF BackInv, Typed, LoadInv, PlaceInv
  <1>5. HistoryInv'
    BY <1>1, <1>3 DEF HistoryInv, Faithful, Knows
  <1>6. QED
    BY <1>2, <1>4, <1>5 DEF BackInv

LEMMA DrainWindowStep == ASSUME BackInv, DrainWindow PROVE BackInv'
  <1>1. CASE DieSweeping(next)
    BY <1>1, DieStep
  <1>2. CASE SweepWindow(next) /\ next' = next + Step
             /\ UNCHANGED <<now, logs, attacks, watermark, recorded, proc, pc, dataset, relearned>>
    <2>1. ManifestInv' /\ GateNeedsAllEvents'
      BY <1>2, TablesKept
    <2>2. pc = "sweep" /\ proc = "eval" /\ watermark = Unset /\ logs # {}
      BY DEF BackInv, PlaceInv, DrainWindow
    <2>3. Typed' /\ LoadInv' /\ PlaceInv'
      BY <1>2, <2>2, StepAssumption DEF BackInv, Typed, LoadInv, PlaceInv
    <2>4. Faithful => Knows(redis', next + Step) /\ Knows(mem', next + Step)
      BY <1>2, <2>2, SweepLearns DEF BackInv, HistoryInv, Faithful
    <2>5. HistoryInv'
      BY <1>2, <2>2, <2>4 DEF HistoryInv, Faithful, Knows
    <2>6. QED
      BY <2>1, <2>3, <2>5 DEF BackInv
  <1>3. QED
    BY <1>1, <1>2 DEF DrainWindow

LEMMA SaveWatermarkStep == ASSUME BackInv, SaveWatermark PROVE BackInv'
  <1>1. UNCHANGED <<logs, attacks, recorded, redis, proc, mem, next, dataset, relearned>>
        /\ logs # {} /\ pc' = "score" /\ watermark' = DrainedTo
    BY DEF BackInv, PlaceInv, SaveWatermark, Goto
  <1>2. ManifestInv' /\ GateNeedsAllEvents'
    BY <1>1, TablesKept
  <1>3. DrainedTo \in Nat /\ \A e \in logs : e.ts < DrainedTo /\ e.ts \in Nat
    BY <1>1, DrainedPastLast, EventsAssumption DEF BackInv, Typed, Event
  <1>4. Typed' /\ LoadInv' /\ PlaceInv'
    BY <1>1, <1>3 DEF BackInv, Typed, LoadInv, PlaceInv
  <1>5. HistoryInv'
    <2>1. ~ \E e \in logs : DrainedTo <= e.ts
      BY <1>3
    <2>2. QED
      BY <1>1, <2>1 DEF HistoryInv, Faithful, Knows
  <1>6. QED
    BY <1>2, <1>4, <1>5 DEF BackInv

\* Exit code 0 asks for a manifest, and a manifest for its events.
LEMMA RecordStep == ASSUME BackInv, Record PROVE BackInv'
  <1>1. Exit /\ UNCHANGED <<logs, attacks, alerts, watermark, redis, relearned>>
    BY DEF Record
  <1>2. GateNeedsAllEvents'
    <2>1. SUFFICES ASSUME recorded'.exit = 0
                   PROVE  \E d \in Datasets :
                            recorded'.logs = d.events /\ recorded'.attacks \subseteq d.attacks
      BY DEF GateNeedsAllEvents
    <2>2. PICK r \in Scores(attacks, alerts) :
            recorded' = [logs |-> logs, attacks |-> attacks, result |-> r,
                         exit |-> ExitCode(attacks, r)]
      BY DEF Record
    <2>3. attacks # {} /\ recorded'.logs = logs /\ recorded'.attacks = attacks
      BY <2>1, <2>2 DEF ExitCode, FullRecall
    <2>4. QED
      BY <2>3 DEF BackInv, ManifestInv
  <1>3. ManifestInv'
    BY <1>1 DEF BackInv, ManifestInv
  <1>4. Typed' /\ LoadInv' /\ PlaceInv'
    BY <1>1 DEF BackInv, Typed, LoadInv, PlaceInv, Exit, Goto
  <1>5. HistoryInv'
    BY <1>1 DEF BackInv, HistoryInv, Faithful, Knows, Exit, Goto
  <1>6. QED
    BY <1>2, <1>3, <1>4, <1>5 DEF BackInv

-----------------------------------------------------------------------------
(* The server *)

\* It seeds only an empty table, which has no manifest and no watermark.
LEMMA StartServerStep == ASSUME BackInv, StartServer PROVE BackInv'
  <1>1. UNCHANGED <<logs, attacks, watermark, recorded, redis, mem, next, relearned>>
        /\ pc' \in {"boot", "load"} /\ proc' = "server"
        /\ (pc' = "load" => logs = {} /\ dataset' \in Datasets)
    BY DEF StartServer, Goto, tables
  <1>2. ManifestInv' /\ GateNeedsAllEvents'
    BY <1>1, TablesKept
  <1>3. logs = {} => attacks = {}
    BY DatasetEvents DEF BackInv, ManifestInv
  <1>4. Typed' /\ LoadInv' /\ PlaceInv'
    BY <1>1, <1>3 DEF BackInv, Typed, LoadInv, PlaceInv
  <1>5. HistoryInv'
    BY <1>1 DEF BackInv, HistoryInv, Faithful, Knows
  <1>6. QED
    BY <1>2, <1>4, <1>5 DEF BackInv

LEMMA FinishServerSeedStep == ASSUME BackInv, FinishServerSeed PROVE BackInv'
  <1>1. ManifestInv' /\ GateNeedsAllEvents'
    BY TablesKept DEF FinishServerSeed, tables
  <1>2. Typed' /\ LoadInv' /\ PlaceInv' /\ HistoryInv'
    BY DEF BackInv, Typed, LoadInv, PlaceInv, HistoryInv, Faithful, Knows,
           FinishServerSeed, Goto, tables
  <1>3. QED
    BY <1>1, <1>2 DEF BackInv

\* Load reads back the history that Redis holds.
LEMMA BootStep == ASSUME BackInv, Boot PROVE BackInv'
  <1>1. UNCHANGED <<logs, attacks, watermark, recorded, redis, proc, dataset, next, relearned>>
        /\ mem' = Load(redis) /\ pc = "boot" /\ pc' = "live"
    BY DEF Boot, Goto, tables
  <1>2. ManifestInv' /\ GateNeedsAllEvents'
    BY <1>1, TablesKept
  <1>3. Typed' /\ LoadInv' /\ PlaceInv'
    BY <1>1 DEF BackInv, Typed, LoadInv, PlaceInv
  <1>4. ASSUME Faithful, watermark # Unset
        PROVE  Knows(redis, watermark) /\ Knows(mem', watermark)
    <2>1. Before(logs, watermark) \in SUBSET Events
      BY DEF BackInv, Typed, Before
    <2>2. Load(BaselineOf(Before(logs, watermark))) = BaselineOf(Before(logs, watermark))
      BY <1>4, <2>1, LogRows, LoadsWhatWasLearned DEF Faithful
    <2>3. Knows(redis, watermark)
      BY <1>4 DEF BackInv, HistoryInv
    <2>4. QED
      BY <1>1, <2>2, <2>3 DEF Knows
  <1>5. HistoryInv'
    BY <1>1, <1>4 DEF HistoryInv, Faithful, Knows
  <1>6. QED
    BY <1>2, <1>3, <1>5 DEF BackInv

LEMMA BeginLiveStep == ASSUME BackInv, BeginLive PROVE BackInv'
  <1>1. UNCHANGED <<logs, attacks, watermark, recorded, proc, dataset>>
        /\ pc = "live" /\ pc' = "sweep" /\ proc = "server"
    BY DEF BackInv, PlaceInv, BeginLive, Goto, tables
  <1>2. ManifestInv' /\ GateNeedsAllEvents'
    BY <1>1, TablesKept
  <1>3. CASE watermark # Unset /\ next' = watermark /\ UNCHANGED <<redis, mem, relearned>>
    <2>1. Typed' /\ LoadInv' /\ PlaceInv'
      BY <1>1, <1>3 DEF BackInv, Typed, LoadInv, PlaceInv
    <2>2. HistoryInv'
      BY <1>1, <1>3 DEF BackInv, HistoryInv, Faithful, Knows
    <2>3. QED
      BY <1>2, <2>1, <2>2 DEF BackInv
  <1>4. CASE watermark = Unset /\ logs # {} /\ next' = Origin(logs) /\ ResetBaselines
    <2>1. Origin(logs) \in Nat /\ Knows(EmptyBaselines, Origin(logs))
      BY <1>4, FreshKnows DEF BackInv
    <2>2. Typed' /\ LoadInv' /\ PlaceInv'
      BY <1>1, <1>4, <2>1 DEF BackInv, Typed, LoadInv, PlaceInv
    <2>3. HistoryInv'
      BY <1>1, <1>4, <2>1 DEF HistoryInv, Faithful, Knows, ResetBaselines
    <2>4. QED
      BY <1>2, <2>2, <2>3 DEF BackInv
  <1>5. QED
    BY <1>3, <1>4 DEF BeginLive

LEMMA LiveWindowStep == ASSUME BackInv, LiveWindow PROVE BackInv'
  <1>1. CASE DieSweeping(next)
    BY <1>1, DieStep
  <1>2. CASE SweepWindow(next) /\ next' = next + Step /\ watermark' = next + Step
             /\ UNCHANGED <<now, logs, attacks, recorded, proc, pc, dataset, relearned>>
    <2>1. ManifestInv' /\ GateNeedsAllEvents'
      BY <1>2, TablesKept
    <2>2. pc = "sweep" /\ proc = "server" /\ logs # {}
      BY DEF BackInv, PlaceInv, LiveWindow
    <2>3. Typed' /\ LoadInv' /\ PlaceInv'
      BY <1>2, <2>2, StepAssumption DEF BackInv, Typed, LoadInv, PlaceInv
    <2>4. Faithful => Knows(redis', next + Step) /\ Knows(mem', next + Step)
      BY <1>2, <2>2, SweepLearns DEF BackInv, HistoryInv, Faithful
    <2>5. HistoryInv'
      BY <1>2, <2>2, <2>4 DEF HistoryInv, Faithful, Knows
    <2>6. QED
      BY <2>1, <2>3, <2>5 DEF BackInv
  <1>3. QED
    BY <1>1, <1>2 DEF LiveWindow

LEMMA EndLiveStep == ASSUME BackInv, EndLive PROVE BackInv'
  <1>1. UNCHANGED <<logs, attacks, watermark, recorded, redis, proc, dataset, mem, next, relearned>>
        /\ pc = "sweep" /\ pc' = "live" /\ proc = "server"
    BY DEF EndLive, CaughtUp, Goto, tables
  <1>2. ManifestInv' /\ GateNeedsAllEvents'
    BY <1>1, TablesKept
  <1>3. Typed' /\ LoadInv' /\ PlaceInv'
    BY <1>1 DEF BackInv, Typed, LoadInv, PlaceInv
  <1>4. watermark # Unset => next = watermark
    BY <1>1 DEF BackInv, PlaceInv
  <1>5. HistoryInv'
    BY <1>1, <1>4 DEF BackInv, HistoryInv, Faithful, Knows
  <1>6. QED
    BY <1>2, <1>3, <1>5 DEF BackInv

-----------------------------------------------------------------------------
(* A step *)

LEMMA BackStep == BackInv /\ [Next]_vars => BackInv'
  <1> SUFFICES ASSUME BackInv, [Next]_vars PROVE BackInv'
    OBVIOUS
  <1>1. CASE Seeding
    BY <1>1, SeedingStep
  <1>2. CASE SeedProcess
    BY <1>2, StartSeedStep, ResetAllStep, FlushDBStep, FinishStep DEF SeedProcess
  <1>3. CASE EvalProcess
    BY <1>3, StartEvalStep, DrainStep, DrainWindowStep, SaveWatermarkStep, RecordStep
       DEF EvalProcess
  <1>4. CASE ServerProcess
    BY <1>4, StartServerStep, FinishServerSeedStep, BootStep, BeginLiveStep,
        LiveWindowStep, EndLiveStep
       DEF ServerProcess
  <1>5. CASE Stop
    BY <1>5, FinishStep
  <1>6. CASE UNCHANGED vars
    BY <1>6 DEF vars, feedVars, process, BackInv, Typed, LoadInv, ManifestInv,
                GateNeedsAllEvents, PlaceInv, HistoryInv, Faithful, Knows
  <1>7. QED
    BY <1>1, <1>2, <1>3, <1>4, <1>5, <1>6 DEF Next

-----------------------------------------------------------------------------
(* What an evaluation records *)

\* A drain starts without alerts and without baselines, so at every window it
\* has those of the history before: whatever the operator ran earlier, and
\* whatever died, is gone.  It stops at the first window past the last event.
DrainInv ==
  /\ pc = "drain" => alerts = <<>>
  /\ proc = "eval" /\ pc = "sweep" =>
       /\ Knows(redis, next) /\ Knows(mem, next)
       /\ Aligned(next) /\ Origin(logs) <= next /\ next < LastEvent + Step

\* If the findings of a window have one order, it has the alerts of the windows before.
ShownInv ==
  /\ proc = "eval" /\ pc = "sweep" => alerts = BatchAlerts(logs, next)
  /\ pc = "score" => alerts = BatchAlerts(logs, LastEvent)

RecordInv ==
  recorded # NoRun =>
    /\ recorded.result \in BatchScores(recorded.logs, recorded.attacks)
    /\ recorded.exit = ExitCode(recorded.attacks, recorded.result)

EvalInv == DrainInv /\ (LoginsApart => ShownInv /\ RecordInv)

LEMMA EvalInit == Init => EvalInv
  BY DEF Init, EvalInv, DrainInv, ShownInv, RecordInv

\* They have one if nobody logs in from two places at one instant.
LEMMA FoundOnce ==
  ASSUME LoginsApart, NEW L \in SUBSET Events, NEW t, NEW bl
  PROVE  Orders(Findings(WindowEvents(L, t), bl)) = {InOrder(Findings(WindowEvents(L, t), bl))}
  <1> DEFINE S == WindowEvents(L, t)
  <1>1. S \in SUBSET Events /\ S \in EventSets
    BY LogRows, EventSubset DEF WindowEvents
  <1> HIDE DEF S
  <1>2. Apart(S)
    BY <1>1 DEF LoginsApart, Apart
  <1> DEFINE F == Findings(S, bl)
  <1>3. Untied(F) /\ F \subseteq Candidate /\ IsFiniteSet(F)
    BY <1>1, <1>2, FindingsUntied, FindingsType
  <1> HIDE DEF F
  <1>4. Orders(F) = {InOrder(F)}
    BY <1>3, OneOrder
  <1>5. QED
    BY <1>4 DEF F, S

\* The steps that leave an evaluation alone, or end it.
LEMMA ElsewhereStep ==
  ASSUME EvalInv, UNCHANGED recorded,
         \/ pc' \notin {"drain", "sweep", "score"}
         \/ proc' # "eval" /\ pc' = "sweep"
  PROVE  EvalInv'
  BY DEF EvalInv, DrainInv, ShownInv, RecordInv

LEMMA OriginAligned ==
  ASSUME Typed, logs # {}
  PROVE  /\ Origin(logs) \in Nat /\ Aligned(Origin(logs))
         /\ LastEvent \in Nat /\ Origin(logs) <= LastEvent
  <1>1. PICK e \in logs : Origin(logs) = Truncate(e.ts)
    BY OriginIs, LogRows DEF Typed
  <1>2. e.ts \in Nat /\ Truncate(e.ts) \in Nat /\ Truncate(e.ts) <= e.ts /\ Aligned(Truncate(e.ts))
    BY TruncateBounds, EventsAssumption DEF Typed, Event
  <1>3. LastEvent \in Nat /\ e.ts <= LastEvent
    BY LastEventIs
  <1>4. QED
    BY <1>1, <1>2, <1>3

LEMMA DrainFinds == ASSUME BackInv, EvalInv, Drain PROVE EvalInv'
  <1>1. /\ UNCHANGED <<logs, alerts, recorded>> /\ logs # {} /\ pc = "drain" /\ pc' = "sweep"
        /\ redis' = EmptyBaselines /\ mem' = EmptyBaselines /\ next' = Origin(logs)
    BY DEF BackInv, PlaceInv, Drain, ResetBaselines, Goto, tables
  <1>2. /\ Origin(logs) \in Nat /\ Aligned(Origin(logs)) /\ LastEvent \in Nat
        /\ Origin(logs) < LastEvent + Step
    BY <1>1, OriginAligned, StepAssumption DEF BackInv
  <1>3. Knows(EmptyBaselines, Origin(logs))
    BY <1>1, FreshKnows DEF BackInv
  <1>4. alerts = BatchAlerts(logs, Origin(logs))
    BY <1>1, NoneUpToOrigin, LogRows DEF BackInv, Typed, EvalInv, DrainInv
  <1>5. LastEvent' = LastEvent
    BY <1>1 DEF LastEvent
  <1>6. DrainInv' /\ ShownInv'
    BY <1>1, <1>2, <1>3, <1>4, <1>5 DEF DrainInv, ShownInv, Knows
  <1>7. QED
    BY <1>1, <1>6 DEF EvalInv, RecordInv

LEMMA DrainWindowFinds == ASSUME BackInv, EvalInv, DrainWindow PROVE EvalInv'
  <1>1. CASE DieSweeping(next)
    BY <1>1, ElsewhereStep DEF DieSweeping, Exit, Goto
  <1>2. CASE SweepWindow(next) /\ next' = next + Step
             /\ UNCHANGED <<now, logs, attacks, watermark, recorded, proc, pc, dataset, relearned>>
    <2>1. /\ pc = "sweep" /\ proc = "eval" /\ logs # {} /\ Typed /\ next \in Nat
          /\ next < LastEvent
      BY DEF BackInv, Typed, PlaceInv, DrainWindow
    <2>2. Knows(redis, next) /\ Knows(mem, next) /\ Aligned(next) /\ Origin(logs) <= next
      BY <2>1 DEF EvalInv, DrainInv
    <2>3. Knows(redis', next + Step) /\ Knows(mem', next + Step)
      BY <1>2, <2>1, <2>2, SweepLearns
    <2>4. ASSUME LoginsApart
          PROVE  alerts' = BatchAlerts(logs, next + Step)
      <3>1. alerts = BatchAlerts(logs, next)
        BY <2>1, <2>4 DEF EvalInv, ShownInv
      <3>2. Orders(Found(next)) = {InOrder(Found(next))} /\ Found(next) = FindingsAt(logs, next)
        BY <2>1, <2>2, <2>4, FoundOnce, KnowingIsJudging DEF Found, Typed
      <3>3. alerts' = Store(alerts, InOrder(FindingsAt(logs, next)))
        BY <1>2, <3>2 DEF SweepWindow
      <3>4. QED
        BY <2>1, <2>2, <3>1, <3>3, WindowAlerts
    <2>6. /\ Aligned(next + Step) /\ LastEvent \in Nat /\ Origin(logs) \in Nat
          /\ Origin(logs) <= next + Step /\ next + Step < LastEvent + Step
      BY <2>1, <2>2, NextAligned, OriginAligned, StepAssumption
    <2>7. LastEvent' = LastEvent
      BY <1>2 DEF LastEvent
    <2>8. DrainInv'
      BY <1>2, <2>1, <2>3, <2>6, <2>7 DEF DrainInv, Knows
    <2>9. LoginsApart => ShownInv' /\ RecordInv'
      BY <1>2, <2>1, <2>4 DEF EvalInv, ShownInv, RecordInv
    <2>10. QED
      BY <2>8, <2>9 DEF EvalInv
  <1>3. QED
    BY <1>1, <1>2 DEF DrainWindow

\* The drain is done: no window starts between the last event and where it stands.
LEMMA SaveWatermarkFinds == ASSUME BackInv, EvalInv, SaveWatermark PROVE EvalInv'
  <1>1. /\ UNCHANGED <<logs, alerts, recorded>> /\ logs # {} /\ pc' = "score"
        /\ Typed /\ next \in Nat /\ ~ (next < LastEvent)
    BY DEF BackInv, Typed, PlaceInv, SaveWatermark, Goto
  <1>2. /\ Aligned(next) /\ next < LastEvent + Step
        /\ LoginsApart => alerts = BatchAlerts(logs, next)
    BY DEF EvalInv, DrainInv, ShownInv, SaveWatermark
  <1>3. LastEvent \in Nat /\ LastEvent <= next
    BY <1>1, LastEventIs
  <1>4. BatchAlerts(logs, LastEvent) = BatchAlerts(logs, next)
    BY <1>1, <1>2, <1>3, BetweenStarts
  <1>5. LastEvent' = LastEvent
    BY <1>1 DEF LastEvent
  <1>6. QED
    BY <1>1, <1>2, <1>4, <1>5 DEF EvalInv, DrainInv, ShownInv, RecordInv

LEMMA RecordFinds == ASSUME BackInv, EvalInv, Record PROVE EvalInv'
  <1>1. /\ recorded'.logs = logs /\ recorded'.attacks = attacks
        /\ recorded'.result \in Scores(attacks, alerts)
        /\ recorded'.exit = ExitCode(attacks, recorded'.result)
        /\ pc' = "idle" /\ pc = "score"
    <2>1. PICK r \in Scores(attacks, alerts) :
            recorded' = [logs |-> logs, attacks |-> attacks, result |-> r,
                         exit |-> ExitCode(attacks, r)]
      BY DEF Record
    <2>2. QED
      BY <2>1 DEF Record, Exit, Goto
  <1>2. LoginsApart => alerts = BatchAlerts(logs, LastEvent)
    BY <1>1 DEF EvalInv, ShownInv
  <1>3. LoginsApart => recorded'.result \in BatchScores(logs, attacks)
    BY <1>1, <1>2 DEF BatchScores, LastEvent
  <1>4. QED
    BY <1>1, <1>3 DEF EvalInv, DrainInv, ShownInv, RecordInv

LEMMA EvalStep == BackInv /\ EvalInv /\ [Next]_vars => EvalInv'
  <1> SUFFICES ASSUME BackInv, EvalInv, [Next]_vars PROVE EvalInv'
    OBVIOUS
  <1>1. CASE Seeding \/ SeedProcess
    <2>1. UNCHANGED recorded /\ pc' \notin {"drain", "sweep", "score"}
      BY <1>1 DEF Seeding, LoadChunk, LoadAttack, SeedProcess, StartSeed, ResetAll, FlushDB,
                  FinishSeed, Exit, Goto, tables, process
    <2>2. QED
      BY <2>1, ElsewhereStep
  <1>2. CASE EvalProcess
    <2>1. CASE StartEval
      BY <2>1, ElsewhereStep DEF StartEval, Goto, tables
    <2>2. CASE ResetDetections
      BY <2>2 DEF ResetDetections, Cleared, Goto, EvalInv, DrainInv, ShownInv, RecordInv
    <2>3. QED
      BY <1>2, <2>1, <2>2, DrainFinds, DrainWindowFinds, SaveWatermarkFinds, RecordFinds
         DEF EvalProcess
  <1>3. CASE ServerProcess
    <2>1. CASE LiveWindow
      BY <2>1, ElsewhereStep DEF LiveWindow, DieSweeping, Exit, Goto
    <2>2. CASE BeginLive
      BY <2>2, ElsewhereStep DEF BeginLive, BackInv, PlaceInv, Goto, tables
    <2>3. CASE StartServer \/ FinishServerSeed \/ Boot \/ EndLive
      BY <2>3, ElsewhereStep DEF StartServer, FinishServerSeed, Boot, EndLive, Goto, tables
    <2>4. QED
      BY <1>3, <2>1, <2>2, <2>3 DEF ServerProcess
  <1>4. CASE Stop
    BY <1>4, ElsewhereStep DEF Stop, Exit, Goto, tables
  <1>5. CASE UNCHANGED vars
    <2>1. LastEvent' = LastEvent
      BY <1>5 DEF LastEvent, vars, feedVars
    <2>2. QED
      BY <1>5, <2>1 DEF vars, feedVars, process, EvalInv, DrainInv, ShownInv, RecordInv, Knows
  <1>6. QED
    BY <1>1, <1>2, <1>3, <1>4, <1>5 DEF Next

-----------------------------------------------------------------------------
(* Sweeping again what was swept *)

\* The alerts after the windows before m and n findings of the one at m
Partial(L, m, n) == StoreFirst(BatchAlerts(L, m), InOrder(FindingsAt(L, m)), n)

\* What the windows before m found
FoundBefore(L, m) ==
  UNION {FindingsAt(L, s) : s \in {x \in Nat : Aligned(x) /\ Origin(L) <= x /\ x < m}}

LEMMA AlignedBefore ==
  ASSUME NEW s \in Nat, NEW t \in Nat, Aligned(s), Aligned(t), s < t
  PROVE  s + Step <= t /\ t - Step \in Nat /\ Aligned(t - Step)
  <1>1. s + Step <= t
    BY AlignedApart, StepAssumption
  <1>2. t = Step * (t \div Step) /\ t \div Step \in Nat
    BY StepAssumption DEF Aligned
  <1> DEFINE q == t \div Step
             d == (t - Step) \div Step
             r == (t - Step) % Step
  <1>3. t - Step \in Nat
    BY <1>1, StepAssumption
  <1>4. d \in Nat /\ r \in 0 .. Step - 1 /\ t - Step = (Step * d) + r
    BY <1>3, StepAssumption
  <1> HIDE DEF q, d, r
  <1>5. r = Step * (q - 1 - d) /\ q \in Nat
    BY <1>2, <1>4, StepAssumption DEF q
  <1> DEFINE m == q - 1 - d
  <1>6. m \in Int /\ r = Step * m
    BY <1>4, <1>5
  <1> HIDE DEF m
  <1>7. r = 0
    BY <1>4, <1>6, StepAssumption
  <1>8. QED
    BY <1>1, <1>3, <1>7 DEF r, Aligned

LEMMA TimelyStarts ==
  ASSUME NEW F, Timely(F)
  PROVE  \A n \in 1 .. Len(F) : F[n] \in Candidate /\ F[n].start \in Nat
  <1>1. F \in Seq(Candidate)
    BY DEF Timely
  <1>2. \A n \in 1 .. Len(F) : F[n] \in Candidate
    BY <1>1
  <1>3. QED
    BY <1>2 DEF Candidate

LEMMA WindowFindings ==
  ASSUME NEW L \in EventSets, NEW t \in Nat
  PROVE  LET F == InOrder(FindingsAt(L, t))
         IN /\ FindingsAt(L, t) \subseteq Candidate /\ Timely(F)
            /\ \A n \in 1 .. Len(F) : /\ F[n] \in FindingsAt(L, t)
                                      /\ t <= F[n].start /\ F[n].start < t + 2 * Step
            /\ \A c \in FindingsAt(L, t) : /\ c.start < t + 2 * Step
                                           /\ \E n \in 1 .. Len(F) : F[n] = c
  <1> DEFINE C == FindingsAt(L, t)
             F == InOrder(C)
  <1>1. WindowEvents(L, t) \in EventSets
    BY EventSubset DEF WindowEvents
  <1>2. C \subseteq Candidate /\ IsFiniteSet(C)
    BY <1>1, FindingsType DEF FindingsAt
  <1>3. ASSUME NEW c \in C
        PROVE  c.start <= c.end /\ t <= c.start /\ c.start < t + 2 * Step
    <2>1. c \in Findings(WindowEvents(L, t), BaselineOf(Before(L, t)))
      BY DEF FindingsAt
    <2>2. c.start <= c.end /\ \E e \in WindowEvents(L, t) : e.ts = c.start
      BY <2>1, FindingInWindow
    <2>3. QED
      BY <2>2 DEF WindowEvents, InWindow
  <1> HIDE DEF C
  <1>4. /\ F \in Seq(C) /\ F \in Seq(Candidate)
        /\ \A c \in C : \E n \in 1 .. Len(F) : F[n] = c
        /\ \A m, n \in 1 .. Len(F) : m < n => F[m].start <= F[n].start
    BY <1>2, InOrderIs
  <1> HIDE DEF F
  <1>5. \A n \in 1 .. Len(F) : F[n] \in C
    BY <1>4
  <1>6. Timely(F)
    BY <1>3, <1>4, <1>5 DEF Timely
  <1>7. QED
    BY <1>2, <1>3, <1>4, <1>5, <1>6 DEF C, F

\* What the windows before m leave has absorbed all they found.
BatchInv(L, m) ==
  /\ BatchAlerts(L, m) \in Seq(AlertRow)
  /\ \A c \in FoundBefore(L, m) : Absorbed(BatchAlerts(L, m), c)
  /\ StartBy(BatchAlerts(L, m), m + Step)

LEMMA FoundContinues ==
  ASSUME NEW L \in EventSets, Step <= MergePad, NEW m \in Nat, Aligned(m)
  PROVE  /\ FoundBefore(L, m) \in SUBSET Candidate
         /\ Continues(FoundBefore(L, m), InOrder(FindingsAt(L, m)))
  <1> DEFINE P == FoundBefore(L, m)
             F == InOrder(FindingsAt(L, m))
  <1>1. P \subseteq Candidate
    BY WindowFindings DEF FoundBefore
  <1>2. ASSUME NEW c \in P, NEW n \in 1 .. Len(F), Same(c, F[n])
        PROVE  \/ c.start <= F[n].start
               \/ \E b \in P : /\ Same(b, F[n]) /\ b.start <= F[n].start /\ F[n].start <= b.end
                               /\ c.start <= b.end + MergePad
    <2>1. PICK s \in Nat : Aligned(s) /\ Origin(L) <= s /\ s < m /\ c \in FindingsAt(L, s)
      BY DEF FoundBefore
    <2>2. s + Step <= m
      BY <2>1, AlignedBefore
    <2>3. F[n] \in FindingsAt(L, m)
      BY WindowFindings
    <2>4. FindingsAt(L, s) \subseteq P
      BY <2>1 DEF FoundBefore
    <2> HIDE DEF P, F
    <2>5. \/ c.start <= F[n].start
          \/ \E b \in FindingsAt(L, s) : /\ Same(b, F[n]) /\ b.start <= F[n].start
                                         /\ F[n].start <= b.end /\ c.start <= b.end + MergePad
      BY <1>2, <2>1, <2>2, <2>3, FoundEarlier
    <2>6. QED
      BY <2>4, <2>5
  <1>3. QED
    BY <1>1, <1>2 DEF Continues

\* A window that is being stored on top of them.
LEMMA PartialInv ==
  ASSUME NEW L \in EventSets, Step <= MergePad, NEW m \in Nat, Aligned(m), BatchInv(L, m),
         NEW n \in 0 .. Len(InOrder(FindingsAt(L, m)))
  PROVE  WindowInv(BatchAlerts(L, m), FoundBefore(L, m), InOrder(FindingsAt(L, m)), n)
  <1> DEFINE A == BatchAlerts(L, m)
             P == FoundBefore(L, m)
             F == InOrder(FindingsAt(L, m))
  <1>1. P \in SUBSET Candidate /\ Continues(P, F)
    BY FoundContinues
  <1>2. Timely(F) /\ \A i \in 1 .. Len(F) : m <= F[i].start
    BY WindowFindings
  <1>3. /\ A \in Seq(AlertRow) /\ \A c \in P : Absorbed(A, c)
        /\ StartBy(A, m + Step) /\ n \in 0 .. Len(F)
    BY DEF BatchInv
  <1> HIDE DEF A, P, F
  <1>4. ASSUME NEW i \in 1 .. Len(F)
        PROVE  StartBy(A, F[i].start + MergePad)
    <2>1. F[i].start \in Nat /\ m <= F[i].start
      BY <1>2, TimelyStarts
    <2>2. m + Step <= F[i].start + MergePad
      BY <2>1, StepAssumption, PadAssumption
    <2>3. F[i].start + MergePad \in Nat
      BY <2>1, PadAssumption
    <2>4. \A j \in 1 .. Len(A) : A[j].start \in Nat
      BY <1>3, RowNumbers
    <2> DEFINE b == F[i].start + MergePad
    <2> HIDE DEF b
    <2>5. b \in Nat /\ m + Step <= b
      BY <2>2, <2>3 DEF b
    <2>6. StartBy(A, b)
      BY <1>3, <2>4, <2>5, StepAssumption, SMTT(60) DEF StartBy
    <2>7. QED
      BY <2>6 DEF b
  <1>5. WindowInv(A, P, F, n)
    BY <1>1, <1>2, <1>3, <1>4, WindowAbsorbed
  <1>6. QED
    BY <1>5 DEF A, P, F

LEMMA BatchInvNext ==
  ASSUME NEW L \in EventSets, Step <= MergePad, NEW m \in Nat, Aligned(m), Origin(L) <= m,
         Origin(L) \in Nat, BatchInv(L, m)
  PROVE  BatchInv(L, m + Step)
  <1> DEFINE A == BatchAlerts(L, m)
             P == FoundBefore(L, m)
             C == FindingsAt(L, m)
             F == InOrder(C)
             B == StoreFirst(A, F, Len(F))
  <1>1. BatchAlerts(L, m + Step) = B
    BY WindowAlerts DEF Store
  <1>2. Timely(F) /\ (\A i \in 1 .. Len(F) : F[i].start < m + 2 * Step)
        /\ \A c \in C : \E i \in 1 .. Len(F) : F[i] = c
    BY WindowFindings
  <1>3. Len(F) \in 0 .. Len(F) /\ Len(F) \in Nat
    BY <1>2 DEF Timely
  <1>4. WindowInv(A, P, F, Len(F))
    BY <1>3, PartialInv
  <1>5. StartBy(A, m + Step) /\ A \in Seq(AlertRow)
    BY DEF BatchInv
  <1>6. FoundBefore(L, m + Step) \subseteq P \cup C
    <2>1. ASSUME NEW s \in Nat, Aligned(s), s < m + Step, ~ (s < m)
          PROVE  s = m
      BY <2>1, AlignedApart, StepAssumption
    <2>2. QED
      BY <2>1 DEF FoundBefore
  <1> HIDE DEF A, P, C, F
  <1>7. /\ B \in Seq(AlertRow) /\ (\A c \in P : Absorbed(B, c))
        /\ (\A i \in 1 .. Len(F) : Absorbed(B, F[i]))
        /\ \A b \in Nat : StartBy(A, b) /\ (\A i \in 1 .. Len(F) : F[i].start <= b) => StartBy(B, b)
    BY <1>4 DEF WindowInv
  <1> HIDE DEF B
  <1>8. \A c \in P \cup C : Absorbed(B, c)
    BY <1>2, <1>7
  <1>9. StartBy(B, m + Step + Step)
    <2> DEFINE b == m + Step + Step
    <2>1. b \in Nat /\ m + Step <= b /\ m + 2 * Step = b
      BY StepAssumption
    <2> HIDE DEF b
    <2>2. \A j \in 1 .. Len(A) : A[j].start \in Nat
      BY <1>5, RowNumbers
    <2>3. StartBy(A, b)
      BY <1>5, <2>1, <2>2, StepAssumption DEF StartBy
    <2>4. \A i \in 1 .. Len(F) : F[i].start \in Nat
      BY <1>2, TimelyStarts
    <2>5. \A i \in 1 .. Len(F) : F[i].start <= b
      BY <1>2, <2>1, <2>4
    <2>6. StartBy(B, b)
      BY <1>7, <2>1, <2>3, <2>5
    <2>7. QED
      BY <2>6 DEF b
  <1>10. QED
    BY <1>1, <1>6, <1>7, <1>8, <1>9 DEF BatchInv

LEMMA BatchAbsorbs ==
  ASSUME NEW L \in EventSets, L # {}, Step <= MergePad, Aligned(Origin(L)),
         NEW m \in Nat, Aligned(m), Origin(L) <= m
  PROVE  BatchInv(L, m)
  <1> DEFINE o == Origin(L)
             Bad == {k \in Nat : Aligned(k) /\ o <= k /\ ~ BatchInv(L, k)}
             k == Min(Bad)
  <1>1. o \in Nat
    BY OriginType
  <1>2. SUFFICES ASSUME Bad # {} PROVE FALSE
    OBVIOUS
  <1>3. k \in Nat /\ Aligned(k) /\ o <= k /\ ~ BatchInv(L, k) /\ \A y \in Bad : k <= y
    <2> HIDE DEF Bad
    <2>1. k \in Bad /\ \A y \in Bad : k <= y
      BY <1>2, MinOfNat DEF Bad
    <2>2. QED
      BY <2>1 DEF Bad
  <1> HIDE DEF k
  <1>4. BatchInv(L, o)
    <2>1. BatchAlerts(L, o) = <<>>
      BY NoneUpToOrigin
    <2>2. FoundBefore(L, o) = {}
      BY <1>1 DEF FoundBefore
    <2>3. QED
      BY <2>1, <2>2 DEF BatchInv, StartBy
  <1>5. o < k
    <2> HIDE DEF o, Bad
    <2> QED BY <1>1, <1>3, <1>4
  <1>6. o + Step <= k /\ k - Step \in Nat /\ Aligned(k - Step)
    <2> HIDE DEF Bad
    <2>1. Aligned(o)
      OBVIOUS
    <2> HIDE DEF o
    <2> QED BY <1>1, <1>3, <1>5, <2>1, AlignedBefore
  <1> DEFINE j == k - Step
  <1>7. j \in Nat /\ Aligned(j) /\ o <= j /\ j < k /\ j + Step = k
    <2> HIDE DEF o, Bad
    <2> QED BY <1>1, <1>3, <1>6, StepAssumption
  <1> HIDE DEF j
  <1>8. BatchInv(L, j)
    <2>1. j \notin Bad
      <3> HIDE DEF Bad
      <3> QED BY <1>3, <1>7
    <2>2. QED
      BY <1>7, <2>1
  <1>9. BatchInv(L, k)
    BY <1>1, <1>7, <1>8, BatchInvNext
  <1>10. QED
    BY <1>3, <1>9

\* Alerts that are those of a batch up to b or further, down to a finding.
Reached(L, A, b) ==
  \E m \in Nat : /\ Aligned(m) /\ Origin(L) <= m /\ b <= m
                 /\ \E n \in 0 .. Len(InOrder(FindingsAt(L, m))) : A = Partial(L, m, n)

LEMMA PartialEnds ==
  ASSUME NEW L \in EventSets, NEW m \in Nat, Aligned(m), Origin(L) <= m
  PROVE  /\ Len(InOrder(FindingsAt(L, m))) \in Nat
         /\ Partial(L, m, 0) = BatchAlerts(L, m)
         /\ Partial(L, m, Len(InOrder(FindingsAt(L, m)))) = BatchAlerts(L, m + Step)
  <1> DEFINE F == InOrder(FindingsAt(L, m))
  <1>1. Timely(F)
    BY WindowFindings
  <1>2. Len(F) \in Nat
    <2> HIDE DEF F
    <2> QED BY <1>1 DEF Timely
  <1>3. Partial(L, m, 0) = BatchAlerts(L, m)
    BY StoreNext DEF Partial
  <1>4. Partial(L, m, Len(F)) = BatchAlerts(L, m + Step)
    BY WindowAlerts DEF Partial, Store
  <1>5. QED
    BY <1>2, <1>3, <1>4

LEMMA BatchReached ==
  ASSUME NEW L \in EventSets, NEW m \in Nat, Aligned(m), Origin(L) <= m
  PROVE  Reached(L, BatchAlerts(L, m), m)
  <1>1. 0 \in 0 .. Len(InOrder(FindingsAt(L, m))) /\ Partial(L, m, 0) = BatchAlerts(L, m)
    BY PartialEnds
  <1>2. m <= m
    OBVIOUS
  <1>3. QED
    BY <1>1, <1>2 DEF Reached

LEMMA ReachedEarlier ==
  ASSUME NEW L, NEW A, NEW a \in Nat, NEW b \in Nat, a <= b, Reached(L, A, b)
  PROVE  Reached(L, A, a)
  <1>1. PICK m \in Nat : /\ Aligned(m) /\ Origin(L) <= m /\ b <= m
          /\ \E n \in 0 .. Len(InOrder(FindingsAt(L, m))) : A = Partial(L, m, n)
    BY DEF Reached
  <1>2. a <= m
    BY <1>1
  <1>3. QED
    BY <1>1, <1>2 DEF Reached

\* Sweeping a window again changes nothing, up to where the alerts have come.
LEMMA SweepReached ==
  ASSUME NEW L \in EventSets, L # {}, Step <= MergePad, Aligned(Origin(L)), NEW A,
         NEW t \in Nat, Aligned(t), Origin(L) <= t, Reached(L, A, t),
         NEW F, F = InOrder(FindingsAt(L, t))
  PROVE  /\ \A k \in 0 .. Len(F) : Reached(L, StoreFirst(A, F, k), t)
         /\ Reached(L, Store(A, F), t + Step)
  <1>1. PICK m \in Nat : /\ Aligned(m) /\ Origin(L) <= m /\ t <= m
          /\ \E n \in 0 .. Len(InOrder(FindingsAt(L, m))) : A = Partial(L, m, n)
    BY DEF Reached
  <1>2. PICK n \in 0 .. Len(InOrder(FindingsAt(L, m))) : A = Partial(L, m, n)
    BY <1>1
  <1>3. Timely(F) /\ Len(F) \in Nat /\ Len(F) \in 0 .. Len(F)
    <2>1. Timely(F)
      BY WindowFindings
    <2>2. QED
      BY <2>1 DEF Timely
  <1>4. BatchInv(L, m)
    BY <1>1, BatchAbsorbs
  <1>5. WindowInv(BatchAlerts(L, m), FoundBefore(L, m), InOrder(FindingsAt(L, m)), n)
    BY <1>1, <1>4, PartialInv
  <1>6. /\ A \in Seq(AlertRow) /\ (\A c \in FoundBefore(L, m) : Absorbed(A, c))
        /\ \A i \in 1 .. n : Absorbed(A, InOrder(FindingsAt(L, m))[i])
    BY <1>2, <1>5 DEF WindowInv, Partial
  <1>7. CASE t < m
    <2>1. t + Step <= m
      BY <1>1, <1>7, AlignedBefore
    <2>2. \A i \in 1 .. Len(F) : F[i] \in FindingsAt(L, t)
      BY WindowFindings
    <2>3. FindingsAt(L, t) \subseteq FoundBefore(L, m)
      BY <1>7 DEF FoundBefore
    <2>4. \A i \in 1 .. Len(F) : Absorbed(A, F[i])
      BY <1>6, <2>2, <2>3
    <2>5. ASSUME NEW k \in 0 .. Len(F)
          PROVE  StoreFirst(A, F, k) = A
      <3>1. \A i \in 1 .. k : Absorbed(A, F[i])
        BY <1>3, <2>4
      <3>2. QED
        BY <1>3, <1>6, <3>1, StoreIdle
    <2>6. Store(A, F) = A
      BY <1>3, <2>5 DEF Store
    <2>7. Reached(L, A, t + Step)
      BY <1>1, <2>1 DEF Reached
    <2>8. QED
      BY <2>5, <2>6, <2>7
  <1>8. CASE t = m
    <2> DEFINE B == BatchAlerts(L, m)
    <2>1. n \in 0 .. Len(F) /\ A = StoreFirst(B, F, n) /\ \A i \in 1 .. n : Absorbed(A, F[i])
      BY <1>2, <1>6, <1>8 DEF Partial
    <2>2. ASSUME NEW k \in 0 .. Len(F)
          PROVE  /\ (IF k <= n THEN n ELSE k) \in 0 .. Len(F)
                 /\ StoreFirst(A, F, k) = Partial(L, t, IF k <= n THEN n ELSE k)
      <3>1. StoreFirst(A, F, k) = StoreFirst(B, F, IF k <= n THEN n ELSE k)
        <4> HIDE DEF B
        <4> QED BY <1>3, <1>6, <2>1, StoreResumed
      <3>2. QED
        BY <1>3, <1>8, <2>1, <3>1 DEF Partial
    <2>3. \A k \in 0 .. Len(F) : Reached(L, StoreFirst(A, F, k), t)
      <3>1. t <= t
        OBVIOUS
      <3>2. QED
        BY <1>1, <1>8, <2>2, <3>1 DEF Reached
    <2>4. Store(A, F) = BatchAlerts(L, t + Step)
      <3>1. (IF Len(F) <= n THEN n ELSE Len(F)) = Len(F)
        BY <1>3, <2>1
      <3>2. Store(A, F) = Partial(L, t, Len(F))
        BY <1>3, <2>2, <3>1 DEF Store
      <3>3. QED
        BY <3>2, PartialEnds
    <2>5. t + Step \in Nat /\ Aligned(t + Step) /\ Origin(L) <= t + Step
      <3>1. Origin(L) \in Nat
        BY OriginType
      <3>2. QED
        BY <3>1, NextAligned, StepAssumption
    <2>6. QED
      BY <2>3, <2>4, <2>5, BatchReached
  <1>9. QED
    BY <1>1, <1>7, <1>8

LEMMA BatchType ==
  ASSUME NEW L \in EventSets, NEW t \in Nat
  PROVE  BatchAlerts(L, t) \in Seq(AlertRow)
  <1> DEFINE Bad == {k \in Nat : BatchAlerts(L, k) \notin Seq(AlertRow)}
             k == Min(Bad)
  <1>1. SUFFICES ASSUME Bad # {} PROVE FALSE
    OBVIOUS
  <1>2. k \in Nat /\ BatchAlerts(L, k) \notin Seq(AlertRow) /\ \A y \in Bad : k <= y
    <2> HIDE DEF Bad
    <2>1. k \in Bad /\ \A y \in Bad : k <= y
      BY <1>1, MinOfNat DEF Bad
    <2>2. QED
      BY <2>1 DEF Bad
  <1> HIDE DEF k
  <1>3. <<>> \in Seq(AlertRow)
    OBVIOUS
  <1>4. k # 0
    BY <1>2, <1>3, BatchAlertsNext
  <1> DEFINE j == k - 1
  <1>5. j \in Nat /\ j + 1 = k /\ j < k
    BY <1>2, <1>4
  <1>6. BatchAlerts(L, j) \in Seq(AlertRow)
    BY <1>2, <1>5
  <1> HIDE DEF j
  <1> DEFINE F == InOrder(FindingsAt(L, j))
  <1>7. Timely(F)
    BY <1>5, WindowFindings
  <1> HIDE DEF F
  <1>8. F \in Seq(Candidate) /\ Len(F) \in 0 .. Len(F)
    BY <1>7 DEF Timely
  <1>9. Store(BatchAlerts(L, j), F) \in Seq(AlertRow)
    BY <1>6, <1>8, StoreType DEF Store
  <1>10. SweepAt(L, BatchAlerts(L, j), j) \in Seq(AlertRow)
    BY <1>6, <1>9 DEF SweepAt, F
  <1>11. QED
    BY <1>2, <1>5, <1>10, BatchAlertsNext

\* What is absorbed covers any shorter finding that ends with it.
LEMMA AbsorbedShorter ==
  ASSUME NEW A \in Seq(AlertRow), NEW d \in Candidate, NEW c \in Candidate, Absorbed(A, d),
         Same(d, c), d.start <= c.start, c.end = d.end
  PROVE  Absorbed(A, c)
  <1>1. PICK p \in Nat : AbsorbedBy(A, d, p)
    BY DEF Absorbed
  <1>2. /\ p \in 1 .. Len(A) /\ A[p].start \in Nat /\ \A q \in 1 .. p - 1 : A[q].end \in Nat
        /\ c.start \in Nat /\ d.start \in Nat /\ MergePad \in Nat
    <2>1. p \in 1 .. Len(A)
      BY <1>1 DEF AbsorbedBy
    <2>2. \A q \in 1 .. p - 1 : q \in 1 .. Len(A)
      BY <2>1
    <2>3. QED
      BY <2>1, <2>2, RowNumbers, PadAssumption DEF Candidate
  <1>3. Same(A[p], c) /\ A[p].start <= c.start /\ c.end <= A[p].end
    BY <1>1, <1>2 DEF AbsorbedBy, Same
  <1>4. ASSUME NEW q \in 1 .. p - 1, Same(A[q], c)
        PROVE  A[q].start <= c.end + MergePad /\ A[q].end < c.start - MergePad
    <2>1. Same(A[q], d)
      BY <1>4 DEF Same
    <2>2. A[q].start <= d.end + MergePad /\ A[q].end < d.start - MergePad
      BY <1>1, <2>1 DEF AbsorbedBy
    <2>3. QED
      BY <1>2, <2>2, SMTT(60)
  <1>5. AbsorbedBy(A, c, p)
    BY <1>2, <1>3, <1>4 DEF AbsorbedBy
  <1>6. QED
    BY <1>5 DEF Absorbed

\* What the window at the last event finds by a rule, the one before it found.
LEMMA EdgeFound ==
  ASSUME NEW L \in EventSets, NEW t \in Nat, Step <= t, \A e \in L : e.ts <= t,
         NEW c \in RuleFindings(WindowEvents(L, t))
  PROVE  \E d \in FindingsAt(L, t - Step) : Same(d, c) /\ d.start <= c.start /\ c.end = d.end
  <1> DEFINE s == t - Step
             V == WindowEvents(L, s)
             W == WindowEvents(L, t)
  <1>1. V \in EventSets /\ W \in EventSets
    BY EventSubset DEF WindowEvents
  <1>2. s \in Nat /\ s + Step = t
    BY StepAssumption
  <1>3. \A e \in L : e.ts \in Nat /\ e.ts <= t
    BY DEF EventSets, Event
  <1> HIDE DEF s
  <1>4. W \in SUBSET V /\ \A e \in W : e.ts = t
    BY <1>2, <1>3, StepAssumption DEF WindowEvents, InWindow
  <1>5. \A e \in V : e.ts \in Nat /\ e.ts <= t
    BY <1>3 DEF WindowEvents
  <1>6. FindingsAt(L, s) = Findings(V, BaselineOf(Before(L, s)))
    BY DEF FindingsAt
  <1>7. c \in RuleFindings(W)
    OBVIOUS
  <1> HIDE DEF V, W
  <1>8. PICK d \in RuleFindings(V) : Same(d, c) /\ d.start <= c.start /\ c.end <= d.end
    BY <1>1, <1>4, <1>7, RulesGrow
  <1>9. (\E e \in W : e.ts = c.end) /\ \E e \in V : e.ts = d.end
    BY <1>1, <1>7, <1>8, RuleSpans DEF Spans
  <1>10. c.end = d.end
    BY <1>4, <1>5, <1>8, <1>9
  <1>11. d \in FindingsAt(L, s)
    BY <1>6, <1>8 DEF Findings
  <1>12. QED
    BY <1>8, <1>10, <1>11 DEF s

\* The window at the last event adds nothing, ...
LEMMA EdgeAbsorbed ==
  ASSUME Typed, logs # {}, Written(logs), QuietEdges, Step <= MergePad,
         Aligned(LastEvent), NEW c \in FindingsAt(logs, LastEvent)
  PROVE  Absorbed(BatchAlerts(logs, LastEvent), c)
  <1> DEFINE t == LastEvent
             s == t - Step
  <1>1. /\ logs \in EventSets /\ t \in Nat /\ Origin(logs) \in Nat /\ Aligned(Origin(logs))
        /\ \A e \in logs : e.ts <= t
    BY LastEventIs, LogRows, OriginAligned DEF Typed
  <1>2. Origin(logs) < t /\ c.type \notin {"identity_anomaly", "off_hours_access"}
    <2> DEFINE last(L) == Max({e.ts : e \in L})
               quiet(L, d) == /\ Origin(L) < last(L)
                              /\ d.type \notin {"identity_anomaly", "off_hours_access"}
    <2>1. \A L \in SUBSET Events : L # {} /\ Written(L) =>
            (Aligned(last(L)) => \A d \in FindingsAt(L, last(L)) : quiet(L, d))
      BY Zenon DEF QuietEdges
    <2>2. last(logs) = t
      BY DEF LastEvent
    <2>3. quiet(logs, c)
      <3> HIDE DEF last, quiet
      <3> QED BY <2>1, <2>2 DEF Typed
    <2>4. QED
      BY <2>2, <2>3
  <1> HIDE DEF t
  <1>3. Origin(logs) <= s /\ s \in Nat /\ Aligned(s) /\ Step <= t /\ s < t
    <2> DEFINE o == Origin(logs)
    <2>1. o \in Nat /\ Aligned(o) /\ o < t /\ t \in Nat /\ Aligned(t)
      BY <1>1, <1>2 DEF t
    <2> HIDE DEF o
    <2>2. o + Step <= t /\ s \in Nat /\ Aligned(s)
      BY <2>1, AlignedBefore
    <2>3. o <= s /\ Step <= t /\ s < t
      BY <2>1, <2>2, StepAssumption
    <2>4. QED
      BY <2>2, <2>3 DEF o
  <1>4. c \in RuleFindings(WindowEvents(logs, t))
    <2> DEFINE W == WindowEvents(logs, t)
               bl == BaselineOf(Before(logs, t))
    <2>1. c \in Findings(W, bl)
      BY DEF FindingsAt, t
    <2>2. W \in EventSets
      BY <1>1, EventSubset DEF WindowEvents
    <2> HIDE DEF W, bl
    <2>3. ASSUME c \in IdentityAnomaly(W, bl)
          PROVE  c.type = "identity_anomaly"
      <3>1. PICK u \in Users, ip \in IPs :
              c = Finding("identity_anomaly", u, u, ip, NewOriginOf(W, bl, u, ip))
        BY <2>2, <2>3, AnomalySpans
      <3>2. QED
        BY <3>1 DEF Finding
    <2>4. ASSUME c \in OffHoursAccess(W, bl)
          PROVE  c.type = "off_hours_access"
      <3>1. PICK u \in Users :
              c = Finding("off_hours_access", u, u, Earliest(OddOf(W, bl, u)).ip, OddOf(W, bl, u))
        BY <2>2, <2>4, OffHoursSpans
      <3>2. QED
        BY <3>1 DEF Finding
    <2>5. c \in RuleFindings(W)
      BY <1>2, <2>1, <2>3, <2>4 DEF Findings
    <2>6. QED
      BY <2>5 DEF W
  <1>5. PICK d \in FindingsAt(logs, s) : Same(d, c) /\ d.start <= c.start /\ c.end = d.end
    BY <1>1, <1>3, <1>4, EdgeFound
  <1>6. BatchInv(logs, t)
    <2>1. Origin(logs) <= t /\ Aligned(t)
      BY <1>1, <1>2 DEF t
    <2>2. QED
      BY <1>1, <2>1, BatchAbsorbs
  <1>7. Absorbed(BatchAlerts(logs, t), d) /\ BatchAlerts(logs, t) \in Seq(AlertRow)
    <2>1. d \in FoundBefore(logs, t)
      BY <1>3, <1>5 DEF FoundBefore
    <2>2. QED
      BY <1>6, <2>1 DEF BatchInv
  <1>8. c \in Candidate /\ d \in Candidate
    BY <1>1, <1>3, <1>5, WindowFindings DEF t
  <1>9. Absorbed(BatchAlerts(logs, t), c)
    BY <1>5, <1>7, <1>8, AbsorbedShorter
  <1>10. QED
    BY <1>9 DEF t

\* ... and those that start later find nothing.
LEMMA AfterLast ==
  ASSUME Typed, logs # {}, Written(logs), QuietEdges, Step <= MergePad,
         NEW t \in Nat, LastEvent <= t, Aligned(t), BatchAlerts(logs, t) = BatchAlerts(logs, LastEvent),
         NEW n \in 0 .. Len(InOrder(FindingsAt(logs, t)))
  PROVE  Partial(logs, t, n) = BatchAlerts(logs, t)
  <1> DEFINE A == BatchAlerts(logs, t)
             F == InOrder(FindingsAt(logs, t))
  <1>1. /\ logs \in EventSets /\ LastEvent \in Nat
        /\ \A e \in logs : e.ts \in Nat /\ e.ts <= LastEvent
    BY LastEventIs, LogRows, EventsAssumption DEF Typed, Event
  <1>2. A \in Seq(AlertRow)
    BY <1>1, BatchType
  <1>3. Timely(F) /\ \A i \in 1 .. Len(F) : F[i] \in FindingsAt(logs, t)
    BY <1>1, WindowFindings
  <1>4. ASSUME NEW c \in FindingsAt(logs, t)
        PROVE  Absorbed(A, c)
    <2>1. CASE t = LastEvent
      BY <2>1, EdgeAbsorbed
    <2>2. CASE t # LastEvent
      <3> DEFINE last == LastEvent
      <3> HIDE DEF last
      <3>1. last \in Nat /\ last < t /\ \A e \in logs : e.ts \in Nat /\ e.ts <= last
        BY <1>1, <2>2 DEF last
      <3>2. WindowEvents(logs, t) = {}
        BY <3>1 DEF WindowEvents, InWindow
      <3>3. QED
        BY <3>2, FindingsOfNone DEF FindingsAt
    <2>3. QED
      BY <2>1, <2>2
  <1>5. n \in 0 .. Len(F) /\ \A i \in 1 .. n : Absorbed(A, F[i])
    <2>1. Len(F) \in Nat
      BY <1>3 DEF Timely
    <2>2. n \in 0 .. Len(F)
      OBVIOUS
    <2> HIDE DEF F, A
    <2>3. \A i \in 1 .. n : i \in 1 .. Len(F)
      BY <2>1, <2>2
    <2>4. QED
      BY <1>3, <1>4, <2>2, <2>3
  <1> HIDE DEF A, F
  <1>6. StoreFirst(A, F, n) = A
    BY <1>2, <1>3, <1>5, StoreIdle
  <1>7. QED
    BY <1>6 DEF Partial, A, F

LEMMA BatchEnds ==
  ASSUME Typed, logs # {}, Written(logs), QuietEdges, Step <= MergePad,
         NEW t \in Nat, LastEvent <= t
  PROVE  BatchAlerts(logs, t) = BatchAlerts(logs, LastEvent)
  <1> DEFINE last == LastEvent
             Bad == {k \in Nat : last <= k /\ BatchAlerts(logs, k) # BatchAlerts(logs, last)}
             k == Min(Bad)
  <1>1. last \in Nat
    BY LastEventIs
  <1>2. SUFFICES ASSUME Bad # {} PROVE FALSE
    OBVIOUS
  <1>3. /\ k \in Nat /\ last <= k /\ BatchAlerts(logs, k) # BatchAlerts(logs, last)
        /\ \A y \in Bad : k <= y
    <2> HIDE DEF Bad
    <2>1. k \in Bad /\ \A y \in Bad : k <= y
      BY <1>2, MinOfNat DEF Bad
    <2>2. QED
      BY <2>1 DEF Bad
  <1> HIDE DEF k
  <1> DEFINE j == k - 1
  <1>4. j \in Nat /\ last <= j /\ j + 1 = k /\ j < k
    <2>1. last # k
      BY <1>3
    <2> HIDE DEF last, Bad
    <2> QED BY <1>1, <1>3, <2>1
  <1> HIDE DEF j
  <1>5. BatchAlerts(logs, j) = BatchAlerts(logs, last)
    <2>1. j \notin Bad
      <3> HIDE DEF Bad
      <3> QED BY <1>3, <1>4
    <2>2. QED
      BY <1>4, <2>1
  <1>6. BatchAlerts(logs, j + 1) = SweepAt(logs, BatchAlerts(logs, j), j)
    BY <1>4, BatchAlertsNext
  <1>7. SweepAt(logs, BatchAlerts(logs, j), j) = BatchAlerts(logs, j)
    <2>1. CASE Aligned(j)
      <3> DEFINE n == Len(InOrder(FindingsAt(logs, j)))
      <3>1. n \in 0 .. n
        <4>1. Timely(InOrder(FindingsAt(logs, j)))
          BY <1>4, LogRows, WindowFindings DEF Typed
        <4>2. n \in Nat
          BY <4>1 DEF Timely
        <4> HIDE DEF n
        <4>3. QED
          BY <4>2
      <3>2. Store(BatchAlerts(logs, j), InOrder(FindingsAt(logs, j))) = BatchAlerts(logs, j)
        BY <1>4, <1>5, <2>1, <3>1, AfterLast DEF Store, Partial
      <3>3. QED
        BY <3>2 DEF SweepAt
    <2>2. CASE ~ Aligned(j)
      BY <2>2 DEF SweepAt
    <2>3. QED
      BY <2>1, <2>2
  <1>8. QED
    BY <1>3, <1>4, <1>5, <1>6, <1>7

-----------------------------------------------------------------------------
(* Catching up *)

\* Nobody loses an origin, the findings of a window have one order, a finding that
\* two windows share is one alert, and what the last windows could add is nothing or
\* is swept.
Regular ==
  AccessesHaveOrigin(Events) /\ LoginsApart /\ Step <= MergePad /\ QuietEdges /\ LateClock

\* A seeder writes the events of a dataset in their order.
WrittenInv ==
  /\ logs # {} => Written(logs)
  /\ pc = "load" => \A e \in logs : Earlier(dataset.events, e) \subseteq logs

LEMMA WrittenInit == Init => WrittenInv
  BY DEF Init, WrittenInv

LEMMA LoadWrites ==
  ASSUME BackInv, WrittenInv, LoadChunk
  PROVE  WrittenInv'
  <1> DEFINE D == dataset.events
             rest == D \ logs
  <1>1. /\ dataset \in Datasets /\ logs \subseteq D /\ pc' = pc /\ dataset' = dataset
        /\ \A e \in logs : Earlier(D, e) \subseteq logs
        /\ logs' = logs \cup {e \in rest : Cardinality(Earlier(rest, e)) < Chunk}
    BY DEF BackInv, LoadInv, WrittenInv, LoadChunk, process
  <1>2. D \in EventSets /\ rest \in EventSets
    BY <1>1, DatasetEvents, LogRows, EventSubset
  <1> HIDE DEF D
  <1>3. ASSUME NEW e \in rest, NEW f \in rest, f \in Earlier(rest, e),
               Cardinality(Earlier(rest, e)) < Chunk
        PROVE  Cardinality(Earlier(rest, f)) < Chunk
    <2> HIDE DEF rest
    <2>1. \A g \in rest : g.ts \in Nat /\ g.id \in Nat
      BY <1>2 DEF EventSets, Event
    <2>2. Earlier(rest, f) \in SUBSET Earlier(rest, e)
      BY <1>3, <2>1 DEF Earlier
    <2>3. Earlier(rest, e) \in EventSets
      BY <1>2, EventSubset DEF Earlier
    <2> DEFINE X == Earlier(rest, e)
               Y == Earlier(rest, f)
    <2>4. X \in EventSets /\ Y \in SUBSET X /\ Cardinality(X) < Chunk
      BY <1>3, <2>2, <2>3
    <2> HIDE DEF X, Y
    <2>5. Cardinality(Y) <= Cardinality(X) /\ Cardinality(X) \in Nat /\ Cardinality(Y) \in Nat
      BY <2>4, FS_Subset, CountType DEF EventSets
    <2>6. Cardinality(Y) < Chunk
      BY <2>4, <2>5, DatasetsAssumption
    <2>7. QED
      BY <2>6 DEF Y
  <1>4. ASSUME NEW e \in logs', NEW f \in Earlier(D, e)
        PROVE  f \in logs'
    <2>1. CASE e \in logs
      BY <1>1, <1>4, <2>1
    <2>2. CASE e \notin logs
      <3>1. e \in rest /\ Cardinality(Earlier(rest, e)) < Chunk
        BY <1>1, <1>4, <2>2
      <3>2. CASE f \in logs
        BY <1>1, <3>2
      <3>3. CASE f \notin logs
        <4>1. f \in rest /\ f \in Earlier(rest, e)
          BY <1>4, <3>3 DEF Earlier
        <4>2. Cardinality(Earlier(rest, f)) < Chunk
          BY <1>3, <3>1, <4>1
        <4>3. QED
          BY <1>1, <4>1, <4>2
      <3>4. QED
        BY <3>2, <3>3
    <2>3. QED
      BY <2>1, <2>2
  <1>5. logs' \subseteq D
    BY <1>1
  <1>6. \A e \in logs' : Earlier(D, e) \subseteq logs'
    BY <1>4
  <1>7. QED
    BY <1>1, <1>5, <1>6 DEF WrittenInv, Written, D

LEMMA WrittenStep == BackInv /\ WrittenInv /\ [Next]_vars => WrittenInv'
  <1> SUFFICES ASSUME BackInv, WrittenInv, [Next]_vars PROVE WrittenInv'
    OBVIOUS
  <1>1. CASE LoadChunk
    BY <1>1, LoadWrites
  <1>2. CASE logs' = logs /\ pc' # "load"
    BY <1>2 DEF WrittenInv, Written
  <1>3. CASE logs' = logs /\ pc' = "load" /\ pc = "load" /\ dataset' = dataset
    BY <1>3 DEF WrittenInv, Written
  <1>4. CASE logs' = {}
    BY <1>4 DEF WrittenInv
  <1>5. CASE Seeding \/ SeedProcess \/ Stop
    BY <1>1, <1>2, <1>3, <1>4, <1>5
       DEF Seeding, SeedProcess, LoadAttack, StartSeed, ResetAll, FlushDB, FinishSeed, Stop, Exit,
           Goto, Loaded, tables, feedVars, process, BackInv, LoadInv
  <1>6. CASE EvalProcess
    BY <1>2, <1>6
       DEF EvalProcess, StartEval, ResetDetections, Drain, DrainWindow, DieSweeping, SaveWatermark,
           Record, Exit, Goto, tables, feedVars, process
  <1>7. CASE ServerProcess
    BY <1>2, <1>3, <1>4, <1>7
       DEF ServerProcess, StartServer, FinishServerSeed, Boot, BeginLive, LiveWindow, DieSweeping,
           EndLive, Exit, Goto, Loaded, tables, feedVars, process
  <1>8. CASE UNCHANGED vars
    BY <1>8 DEF vars, feedVars, process, WrittenInv, Written
  <1>9. QED
    BY <1>5, <1>6, <1>7, <1>8 DEF Next

\* Before the first watermark, a sweep starts from the origin with fresh baselines,
\* and after it, from the watermark with those of the history before it: the
\* alerts it meets are those of a batch that came as far or further.
CatchInv ==
  /\ now = MaxNow
  /\ logs = {} \/ pc \in {"flush", "load", "drain"} => alerts = <<>>
  /\ watermark # Unset => Aligned(watermark) /\ Origin(logs) <= watermark
  /\ logs # {} /\ watermark = Unset => Reached(logs, alerts, Origin(logs))
  /\ watermark # Unset /\ ~relearned => Reached(logs, alerts, watermark)
  /\ pc = "sweep" =>
       /\ Aligned(next) /\ Origin(logs) <= next
       /\ watermark = Unset => ~relearned
       /\ ~relearned => Reached(logs, alerts, next)

LEMMA CatchInit == Init => CatchInv
  BY DEF Init, CatchInv, EmptyBaselines

\* Steps that leave the tables alone, away from the sweep.
LEMMA CatchKept ==
  ASSUME CatchInv, UNCHANGED <<now, logs, alerts, watermark>>,
         relearned' \/ UNCHANGED relearned, pc' # "sweep",
         pc' \in {"flush", "load", "drain"} => logs = {} \/ pc \in {"flush", "load", "drain"}
  PROVE  CatchInv'
  BY DEF CatchInv

\* Where a fresh sweep starts nothing is found yet.
LEMMA NoneReached ==
  ASSUME NEW L \in SUBSET Events, L # {}
  PROVE  /\ Origin(L) \in Nat /\ Aligned(Origin(L)) /\ Reached(L, <<>>, Origin(L))
  <1>1. L \in EventSets /\ Origin(L) \in Nat
    BY LogRows, OriginType
  <1>2. PICK e \in L : Origin(L) = Truncate(e.ts)
    BY <1>1, OriginIs
  <1>3. e.ts \in Nat
    BY <1>1 DEF EventSets, Event
  <1>4. Aligned(Origin(L))
    BY <1>2, <1>3, TruncateBounds
  <1>5. BatchAlerts(L, Origin(L)) = <<>>
    BY <1>1, NoneUpToOrigin
  <1>6. Origin(L) <= Origin(L)
    BY <1>1
  <1>7. Reached(L, BatchAlerts(L, Origin(L)), Origin(L))
    BY <1>1, <1>4, <1>6, BatchReached
  <1>8. QED
    BY <1>1, <1>4, <1>5, <1>7

\* A sweep, whole or in part, goes on as the batch does.
LEMMA CatchSweep ==
  ASSUME Regular, BackInv, CatchInv, pc = "sweep", ~relearned, NEW F \in Orders(Found(next))
  PROVE  /\ logs \in SUBSET Events /\ logs # {} /\ next \in Nat /\ Aligned(next)
         /\ Origin(logs) \in Nat /\ Origin(logs) <= next /\ Aligned(next + Step)
         /\ \A k \in 0 .. Len(F) : Reached(logs, StoreFirst(alerts, F, k), next)
         /\ Reached(logs, Store(alerts, F), next + Step)
         /\ Reached(logs, Store(alerts, F), next)
  <1>1. /\ logs \in SUBSET Events /\ logs # {} /\ next \in Nat
        /\ Knows(mem, next)
    BY DEF BackInv, Typed, PlaceInv, HistoryInv, Faithful, Regular
  <1>2. F = InOrder(FindingsAt(logs, next))
    <2>1. Orders(Found(next)) = {InOrder(Found(next))} /\ Found(next) = FindingsAt(logs, next)
      BY <1>1, FoundOnce, KnowingIsJudging DEF Found, Regular
    <2>2. QED
      BY <2>1
  <1>3. logs \in EventSets /\ Origin(logs) \in Nat /\ Aligned(Origin(logs))
    BY <1>1, LogRows, NoneReached
  <1>4. Aligned(next) /\ Origin(logs) <= next /\ Reached(logs, alerts, next)
    BY DEF CatchInv
  <1>5. /\ \A k \in 0 .. Len(F) : Reached(logs, StoreFirst(alerts, F, k), next)
        /\ Reached(logs, Store(alerts, F), next + Step)
    BY <1>1, <1>2, <1>3, <1>4, SweepReached DEF Regular
  <1>6. next + Step \in Nat /\ next <= next + Step
    BY <1>1, StepAssumption
  <1>7. Reached(logs, Store(alerts, F), next)
    BY <1>1, <1>5, <1>6, ReachedEarlier
  <1>8. QED
    BY <1>1, <1>3, <1>4, <1>5, <1>7, NextAligned

LEMMA CatchDie ==
  ASSUME Regular, BackInv, CatchInv, pc = "sweep", proc = "server" \/ proc = "eval",
         DieSweeping(next)
  PROVE  CatchInv'
  <1>1. /\ UNCHANGED <<now, logs, watermark>> /\ pc' = "idle" /\ logs # {}
        /\ watermark # Unset => next = watermark
        /\ watermark = Unset => ~relearned
    BY DEF BackInv, PlaceInv, CatchInv, DieSweeping, Exit, Goto
  <1>2. relearned' \/ UNCHANGED relearned
    BY DEF DieSweeping
  <1>3. ASSUME ~relearned
        PROVE  Reached(logs, alerts', next) /\ Origin(logs) \in Nat /\ Origin(logs) <= next
               /\ next \in Nat
    <2>1. PICK f \in Orders(Found(next)) :
            \/ \E n \in 0 .. Len(f) : alerts' = StoreFirst(alerts, f, n)
            \/ alerts' = Store(alerts, f)
      BY DEF DieSweeping
    <2>2. QED
      BY <1>3, <2>1, CatchSweep
  <1>4. watermark = Unset => Reached(logs, alerts', Origin(logs))
    BY <1>1, <1>3, ReachedEarlier
  <1>5. QED
    BY <1>1, <1>2, <1>3, <1>4 DEF CatchInv

-----------------------------------------------------------------------------
(* The seeder *)

LEMMA CatchSeed ==
  ASSUME Regular, BackInv, CatchInv, Seeding \/ SeedProcess \/ Stop
  PROVE  CatchInv'
  <1>1. CASE StartSeed \/ FinishSeed \/ Stop
    BY <1>1, CatchKept DEF StartSeed, FinishSeed, Stop, Exit, Goto, tables
  <1>2. CASE ResetAll
    BY <1>2 DEF ResetAll, Goto, CatchInv
  <1>3. CASE FlushDB
    <2>1. logs = {} /\ watermark = Unset
      BY <1>3 DEF BackInv, LoadInv, PlaceInv, FlushDB
    <2>2. QED
      BY <1>3, <2>1 DEF FlushDB, Goto, tables, CatchInv
  <1>4. CASE Seeding
    <2>1. /\ UNCHANGED <<now, alerts, watermark, pc, relearned>>
          /\ pc = "load" /\ watermark = Unset /\ alerts = <<>>
      BY <1>4 DEF Seeding, LoadChunk, LoadAttack, feedVars, process, BackInv, PlaceInv, CatchInv
    <2>2. logs' \in SUBSET Events
      BY <1>4, SeedingStep DEF BackInv, Typed
    <2>3. logs' # {} => Reached(logs', <<>>, Origin(logs'))
      BY <2>2, NoneReached
    <2>4. QED
      BY <2>1, <2>3 DEF CatchInv
  <1>5. QED
    BY <1>1, <1>2, <1>3, <1>4 DEF SeedProcess

-----------------------------------------------------------------------------
(* The evaluator *)

LEMMA CatchEval ==
  ASSUME Regular, BackInv, EvalInv, WrittenInv, CatchInv, EvalProcess
  PROVE  CatchInv'
  <1>1. CASE StartEval
    BY <1>1, CatchKept DEF StartEval, Goto, tables
  <1>2. CASE ResetDetections
    <2>1. logs # {} /\ logs \in SUBSET Events
      BY <1>2 DEF BackInv, PlaceInv, Typed, ResetDetections
    <2>2. Reached(logs, <<>>, Origin(logs))
      BY <2>1, NoneReached
    <2>3. QED
      BY <1>2, <2>1, <2>2 DEF ResetDetections, Cleared, Goto, CatchInv
  <1>3. CASE Drain
    <2>1. logs # {} /\ logs \in SUBSET Events /\ watermark = Unset
      BY <1>3 DEF BackInv, PlaceInv, Typed, Drain
    <2>2. Origin(logs) \in Nat /\ Aligned(Origin(logs))
      BY <2>1, NoneReached
    <2>3. Origin(logs) <= Origin(logs) /\ Reached(logs, alerts, Origin(logs))
      BY <2>1, <2>2 DEF CatchInv
    <2>4. QED
      BY <1>3, <2>1, <2>2, <2>3 DEF Drain, ResetBaselines, Goto, tables, CatchInv
  <1>4. CASE DrainWindow
    <2>1. proc = "eval" /\ pc = "sweep" /\ watermark = Unset /\ ~relearned
      BY <1>4 DEF DrainWindow, BackInv, PlaceInv, CatchInv
    <2>2. CASE DieSweeping(next)
      BY <2>1, <2>2, CatchDie
    <2>3. CASE SweepWindow(next) /\ next' = next + Step
               /\ UNCHANGED <<now, logs, attacks, watermark, recorded, proc, pc, dataset, relearned>>
      <3>1. /\ logs # {} /\ next \in Nat /\ Aligned(next + Step)
            /\ Origin(logs) \in Nat /\ Origin(logs) <= next
            /\ Reached(logs, alerts', next + Step)
        <4>1. PICK f \in Orders(Found(next)) : alerts' = Store(alerts, f)
          BY <2>3 DEF SweepWindow
        <4>2. QED
          BY <2>1, <4>1, CatchSweep
      <3>2. next + Step \in Nat /\ Origin(logs) <= next + Step
        BY <3>1, StepAssumption
      <3>3. Reached(logs, alerts', Origin(logs))
        BY <3>1, <3>2, ReachedEarlier
      <3>4. QED
        BY <2>1, <2>3, <3>1, <3>2, <3>3 DEF CatchInv
    <2>4. QED
      BY <1>4, <2>2, <2>3 DEF DrainWindow
  <1>5. CASE SaveWatermark
    <2>1. /\ UNCHANGED <<now, logs, alerts, relearned>> /\ watermark' = DrainedTo
          /\ pc' = "score" /\ logs # {} /\ Typed
      BY <1>5 DEF SaveWatermark, Goto, BackInv, PlaceInv
    <2>2. alerts = BatchAlerts(logs, LastEvent)
      <3>1. EvalInv' /\ LastEvent' = LastEvent
        BY <1>5, <2>1, SaveWatermarkFinds DEF LastEvent
      <3>2. QED
        BY <2>1, <3>1 DEF EvalInv, ShownInv, Regular
    <2>3. /\ LastEvent \in Nat /\ Origin(logs) \in Nat /\ Origin(logs) <= LastEvent
      BY <2>1, OriginAligned
    <2>4. /\ DrainedTo \in Nat /\ Aligned(DrainedTo) /\ LastEvent <= DrainedTo
          /\ Origin(logs) <= DrainedTo
      <3>1. /\ Truncate(LastEvent) \in Nat /\ Aligned(Truncate(LastEvent))
            /\ LastEvent < Truncate(LastEvent) + Step
        BY <2>3, TruncateBounds
      <3>2. Aligned(DrainedTo)
        BY <3>1, NextAligned DEF DrainedTo
      <3> DEFINE x == LastEvent
                 y == Truncate(LastEvent)
                 z == Origin(logs)
      <3>3. DrainedTo = y + Step
        BY DEF DrainedTo
      <3>4. x \in Nat /\ y \in Nat /\ z \in Nat /\ z <= x /\ x < y + Step
        BY <2>3, <3>1
      <3> HIDE DEF x, y, z
      <3>5. y + Step \in Nat /\ x <= y + Step /\ z <= y + Step
        BY <3>4, StepAssumption
      <3>6. QED
        BY <3>2, <3>3, <3>5 DEF x, z
    <2>5. alerts = BatchAlerts(logs, DrainedTo)
      BY <2>1, <2>2, <2>4, BatchEnds DEF WrittenInv, Regular
    <2>6. Reached(logs, alerts, DrainedTo)
      BY <2>1, <2>4, <2>5, BatchReached, LogRows DEF Typed
    <2>7. Unset \notin Nat
      BY ClockAssumption
    <2>8. QED
      BY <2>1, <2>4, <2>6, <2>7 DEF CatchInv
  <1>6. CASE Record
    BY <1>6, CatchKept DEF Record, Exit, Goto
  <1>7. QED
    BY <1>1, <1>2, <1>3, <1>4, <1>5, <1>6 DEF EvalProcess

-----------------------------------------------------------------------------
(* The server *)

LEMMA CatchServer ==
  ASSUME Regular, BackInv, CatchInv, ServerProcess
  PROVE  CatchInv'
  <1>1. CASE StartServer \/ FinishServerSeed \/ Boot \/ EndLive
    BY <1>1, CatchKept DEF StartServer, FinishServerSeed, Boot, EndLive, Goto, tables
  <1>2. CASE BeginLive
    <2>1. UNCHANGED <<now, logs, alerts, watermark>> /\ pc' = "sweep"
      BY <1>2 DEF BeginLive, Goto, tables
    <2>2. CASE watermark # Unset /\ next' = watermark /\ UNCHANGED <<redis, mem, relearned>>
      BY <2>1, <2>2 DEF CatchInv
    <2>3. CASE watermark = Unset /\ logs # {} /\ next' = Origin(logs) /\ ResetBaselines
      <3>1. Origin(logs) \in Nat /\ Aligned(Origin(logs))
        BY <2>3, NoneReached DEF BackInv, Typed
      <3>2. Origin(logs) <= Origin(logs) /\ Reached(logs, alerts, Origin(logs))
        BY <2>3, <3>1 DEF CatchInv
      <3>3. QED
        BY <2>1, <2>3, <3>1, <3>2 DEF CatchInv, ResetBaselines
    <2>4. QED
      BY <1>2, <2>2, <2>3 DEF BeginLive
  <1>3. CASE LiveWindow
    <2>1. proc = "server" /\ pc = "sweep" /\ logs # {}
      BY <1>3 DEF LiveWindow, BackInv, PlaceInv
    <2>2. CASE DieSweeping(next)
      BY <2>1, <2>2, CatchDie
    <2>3. CASE SweepWindow(next) /\ next' = next + Step /\ watermark' = next + Step
               /\ UNCHANGED <<now, logs, attacks, recorded, proc, pc, dataset, relearned>>
      <3>1. /\ next \in Nat /\ Aligned(next) /\ Origin(logs) <= next /\ Origin(logs) \in Nat
            /\ next + Step \in Nat
        BY <2>1, NoneReached, StepAssumption DEF BackInv, Typed, CatchInv
      <3>2. /\ Aligned(next + Step) /\ Origin(logs) <= next + Step /\ next + Step # Unset
        BY <3>1, NextAligned, StepAssumption, ClockAssumption
      <3>3. ~relearned => Reached(logs, alerts', next + Step)
        <4>1. PICK f \in Orders(Found(next)) : alerts' = Store(alerts, f)
          BY <2>3 DEF SweepWindow
        <4>2. QED
          BY <2>1, <4>1, CatchSweep
      <3>4. QED
        BY <2>1, <2>3, <3>1, <3>2, <3>3 DEF CatchInv
    <2>4. QED
      BY <1>3, <2>2, <2>3 DEF LiveWindow
  <1>4. QED
    BY <1>1, <1>2, <1>3 DEF ServerProcess

LEMMA CatchStep ==
  Regular /\ BackInv /\ EvalInv /\ WrittenInv /\ CatchInv /\ [Next]_vars => CatchInv'
  <1> SUFFICES ASSUME Regular, BackInv, EvalInv, WrittenInv, CatchInv, [Next]_vars PROVE CatchInv'
    OBVIOUS
  <1>1. CASE UNCHANGED vars
    BY <1>1 DEF vars, feedVars, process, CatchInv
  <1>2. QED
    BY <1>1, CatchSeed, CatchEval, CatchServer DEF Next

\* Whoever has caught up stands behind the last event.
LEMMA BehindLast ==
  ASSUME LateClock, BackInv, now = MaxNow, CaughtUp
  PROVE  Typed /\ logs # {} /\ next \in Nat /\ LastEvent \in Nat /\ LastEvent < next
  <1>1. /\ Typed /\ logs # {} /\ next \in Nat /\ ~ Settled(next, now)
    BY DEF CaughtUp, BackInv, PlaceInv, Typed
  <1>2. LastEvent \in Nat /\ \E e \in logs : e.ts = LastEvent
    BY <1>1, LastEventIs
  <1>3. PICK e \in logs : e.ts = LastEvent
    BY <1>2
  <1> DEFINE last == LastEvent
  <1>4. Settled(last, MaxNow)
    BY <1>1, <1>3 DEF LateClock, Typed
  <1>5. last \in Nat
    BY <1>2
  <1> HIDE DEF last
  <1>6. last < next
    BY <1>1, <1>4, <1>5, StepAssumption, LagAssumption, ClockAssumption DEF Settled
  <1>7. QED
    BY <1>1, <1>2, <1>6 DEF last

\* Whoever has caught up stands behind the last event, where the batch ends.
LEMMA CaughtUpShows ==
  ASSUME Regular, BackInv, WrittenInv, CatchInv, CaughtUp, ~relearned
  PROVE  Typed /\ logs # {} /\ alerts = BatchAlerts(logs, LastEvent)
  <1>1. Typed /\ logs # {} /\ next \in Nat /\ LastEvent \in Nat /\ LastEvent < next
    BY BehindLast DEF CatchInv, Regular
  <1>2. Reached(logs, alerts, next)
    BY DEF CaughtUp, CatchInv
  <1>3. PICK m \in Nat : /\ Aligned(m) /\ Origin(logs) <= m /\ next <= m
          /\ \E n \in 0 .. Len(InOrder(FindingsAt(logs, m))) : alerts = Partial(logs, m, n)
    BY <1>2 DEF Reached
  <1>4. LastEvent <= m
    BY <1>1, <1>3
  <1>5. BatchAlerts(logs, m) = BatchAlerts(logs, LastEvent)
    BY <1>1, <1>4, BatchEnds DEF WrittenInv, Regular
  <1>6. alerts = BatchAlerts(logs, m)
    BY <1>1, <1>3, <1>4, <1>5, AfterLast DEF WrittenInv, Regular
  <1>7. QED
    BY <1>1, <1>5, <1>6

-----------------------------------------------------------------------------
(* Types *)

LEMMA TypeInit == Init => TypeOK
  <1> SUFFICES ASSUME Init PROVE TypeOK
    OBVIOUS
  <1>1. 0 % Step = 0 /\ MaxNow \in 0 .. MaxNow
    BY StepAssumption, ClockAssumption
  <1>2. <<>> \in Seq(AlertRow)
    OBVIOUS
  <1>3. QED
    BY <1>1, <1>2, EmptyBaselinesType DEF Init, TypeOK, FeedTypeOK, Aligned

\* The findings of a window, as far as they are stored, make rows of alerts,
\* and its lead makes baselines.
LEMMA SweptTypes ==
  ASSUME BackInv, TypeOK, NEW t
  PROVE  /\ \A f \in Orders(Found(t)) : /\ Len(f) \in Nat
                                         /\ \A k \in 0 .. Len(f) : StoreFirst(alerts, f, k) \in Seq(AlertRow)
                                         /\ Store(alerts, f) \in Seq(AlertRow)
         /\ WriteThrough(redis, mem, Lead(t)) \in [Users -> UserBaseline]
         /\ Learn(mem, Lead(t)) \in [Users -> UserBaseline]
  <1>1. logs \in EventSets
    BY LogRows DEF BackInv, Typed
  <1>2. WindowEvents(logs, t) \in EventSets
    BY <1>1, EventSubset DEF WindowEvents
  <1>3. Lead(t) \in EventSets
    BY <1>2, EventSubset DEF Lead, LeadEvents
  <1>4. alerts \in Seq(AlertRow)
    BY DEF TypeOK
  <1> DEFINE C == Findings(WindowEvents(logs, t), mem)
  <1>5. C \subseteq Candidate /\ IsFiniteSet(C) /\ Found(t) = C
    BY <1>2, FindingsType DEF Found
  <1> HIDE DEF C
  <1>6. ASSUME NEW f \in Orders(Found(t))
        PROVE  /\ Len(f) \in Nat
               /\ \A k \in 0 .. Len(f) : StoreFirst(alerts, f, k) \in Seq(AlertRow)
               /\ Store(alerts, f) \in Seq(AlertRow)
    <2>1. f \in Seq(Candidate)
      BY <1>5, <1>6, OrdersAre
    <2>2. Len(f) \in Nat /\ Len(f) \in 0 .. Len(f)
      BY <2>1
    <2>3. \A k \in 0 .. Len(f) : StoreFirst(alerts, f, k) \in Seq(AlertRow)
      BY <1>4, <2>1, StoreType
    <2>4. QED
      BY <2>2, <2>3 DEF Store
  <1>7. QED
    BY <1>3, <1>6, LearnType DEF TypeOK

\* What is typed by the invariant of the tables
LEMMA TableTypes ==
  ASSUME BackInv
  PROVE  logs \subseteq Events /\ attacks \in SUBSET Attack
  BY DatasetsAssumption DEF BackInv, Typed, ManifestInv

LEMMA ExitTypes ==
  ASSUME TypeOK, BackInv', Exit, UNCHANGED <<now, watermark>>,
         alerts' \in Seq(AlertRow), redis' \in [Users -> UserBaseline]
  PROVE  TypeOK'
  <1>1. logs' \subseteq Events /\ attacks' \in SUBSET Attack
    BY DatasetsAssumption DEF BackInv, Typed, ManifestInv
  <1>2. 0 % Step = 0
    BY StepAssumption
  <1>3. QED
    BY <1>1, <1>2, EmptyBaselinesType DEF TypeOK, FeedTypeOK, Exit, Goto, Aligned

LEMMA DieTypes ==
  ASSUME BackInv, TypeOK, BackInv', DieSweeping(next)
  PROVE  TypeOK'
  <1>1. Exit /\ UNCHANGED <<now, watermark>>
    BY DEF DieSweeping
  <1>2. alerts' \in Seq(AlertRow) /\ redis' \in [Users -> UserBaseline]
    <2>1. CASE (\E f \in Orders(Found(next)) : \E n \in 0 .. Len(f) : alerts' = StoreFirst(alerts, f, n))
               /\ UNCHANGED <<redis, relearned>>
      BY <2>1, SweptTypes DEF TypeOK
    <2>2. CASE (\E f \in Orders(Found(next)) : alerts' = Store(alerts, f))
               /\ redis' = WriteThrough(redis, mem, Lead(next))
      BY <2>2, SweptTypes
    <2>3. QED
      BY <2>1, <2>2 DEF DieSweeping
  <1>3. QED
    BY <1>1, <1>2, ExitTypes

\* Steps that only move a process, or reset what it moves among.
LEMMA MoveTypes ==
  ASSUME TypeOK, BackInv', UNCHANGED now,
         alerts' = alerts \/ alerts' = <<>>, watermark' = watermark \/ watermark' = Unset,
         redis' = redis \/ redis' = EmptyBaselines,
         mem' = mem \/ mem' = EmptyBaselines \/ mem' = Load(redis),
         next' = next, proc' \in {"seed", "eval", "server"}, pc' # "idle"
  PROVE  TypeOK'
  <1>1. logs' \subseteq Events /\ attacks' \in SUBSET Attack
    BY DatasetsAssumption DEF BackInv, Typed, ManifestInv
  <1>2. Load(redis) \in [Users -> UserBaseline]
    BY LoadType DEF TypeOK
  <1>3. /\ alerts' \in Seq(AlertRow) /\ redis' \in [Users -> UserBaseline]
        /\ mem' \in [Users -> UserBaseline]
    <2>1. alerts' \in Seq(AlertRow)
      <3>1. alerts \in Seq(AlertRow) /\ <<>> \in Seq(AlertRow)
        BY DEF TypeOK
      <3>2. QED
        BY <3>1
    <2>2. redis' \in [Users -> UserBaseline] /\ mem' \in [Users -> UserBaseline]
      BY <1>2, EmptyBaselinesType DEF TypeOK
    <2>3. QED
      BY <2>1, <2>2
  <1>4. watermark' = Unset \/ (watermark' \in Nat /\ Aligned(watermark'))
    BY DEF TypeOK
  <1>5. (proc' = "none") <=> (pc' = "idle")
    OBVIOUS
  <1>6. now' \in 0 .. MaxNow /\ next' \in Nat /\ Aligned(next')
    BY DEF TypeOK, FeedTypeOK
  <1>7. QED
    BY <1>1, <1>3, <1>4, <1>5, <1>6 DEF TypeOK, FeedTypeOK

LEMMA SeedTypes ==
  ASSUME BackInv, TypeOK, BackInv', Seeding \/ SeedProcess \/ Stop
  PROVE  TypeOK'
  <1>1. CASE StartSeed \/ ResetAll \/ FlushDB
    <2>1. proc' \in {"seed", "eval", "server"}
      BY <1>1 DEF StartSeed, ResetAll, FlushDB, TypeOK
    <2>2. QED
      BY <1>1, <2>1, MoveTypes DEF StartSeed, ResetAll, FlushDB, Goto, tables
  <1>2. CASE Seeding
    <2>1. UNCHANGED <<now, alerts, watermark, redis, mem, next, proc, pc>> /\ pc # "idle"
          /\ proc \in {"seed", "eval", "server"}
      BY <1>2 DEF Seeding, LoadChunk, LoadAttack, feedVars, process, TypeOK
    <2>2. QED
      BY <2>1, MoveTypes
  <1>3. CASE FinishSeed \/ Stop
    <2>1. Exit /\ UNCHANGED <<now, watermark, alerts, redis>>
      BY <1>3 DEF FinishSeed, Stop, tables
    <2>2. QED
      BY <2>1, ExitTypes DEF TypeOK
  <1>4. QED
    BY <1>1, <1>2, <1>3 DEF SeedProcess

LEMMA SweepTypes ==
  ASSUME BackInv, TypeOK, BackInv', SweepWindow(next), next' = next + Step,
         UNCHANGED <<now, proc, pc>>, watermark' = watermark \/ watermark' = next + Step
  PROVE  TypeOK'
  <1>1. logs' \subseteq Events /\ attacks' \in SUBSET Attack
    BY DatasetsAssumption DEF BackInv, Typed, ManifestInv
  <1>2. /\ alerts' \in Seq(AlertRow) /\ redis' \in [Users -> UserBaseline]
        /\ mem' \in [Users -> UserBaseline]
    BY SweptTypes DEF SweepWindow
  <1>3. next + Step \in Nat /\ Aligned(next + Step)
    BY NextAligned, StepAssumption DEF TypeOK
  <1>4. QED
    BY <1>1, <1>2, <1>3 DEF TypeOK, FeedTypeOK

LEMMA FreshTypes ==
  ASSUME BackInv, TypeOK, BackInv', logs # {}, next' = Origin(logs), ResetBaselines,
         UNCHANGED <<now, alerts, watermark, proc>>, proc # "none", pc' # "idle"
  PROVE  TypeOK'
  <1>1. logs' \subseteq Events /\ attacks' \in SUBSET Attack
    BY DatasetsAssumption DEF BackInv, Typed, ManifestInv
  <1>2. Origin(logs) \in Nat /\ Aligned(Origin(logs))
    BY NoneReached DEF BackInv, Typed
  <1>3. QED
    BY <1>1, <1>2, EmptyBaselinesType DEF TypeOK, FeedTypeOK, ResetBaselines

LEMMA EvalTypes ==
  ASSUME BackInv, TypeOK, BackInv', EvalProcess
  PROVE  TypeOK'
  <1>1. CASE StartEval
    BY <1>1, MoveTypes DEF StartEval, Goto, tables
  <1>2. CASE ResetDetections
    <2>1. proc' \in {"seed", "eval", "server"}
      BY <1>2 DEF ResetDetections, TypeOK
    <2>2. QED
      BY <1>2, <2>1, MoveTypes DEF ResetDetections, Cleared, Goto
  <1>3. CASE Drain
    <2>1. logs # {} /\ proc # "none"
      BY <1>3 DEF Drain, TypeOK, BackInv, PlaceInv
    <2>2. QED
      BY <1>3, <2>1, FreshTypes DEF Drain, Goto, tables
  <1>4. CASE DrainWindow
    BY <1>4, DieTypes, SweepTypes DEF DrainWindow
  <1>5. CASE SaveWatermark
    <2>1. logs # {} /\ Typed
      BY <1>5 DEF SaveWatermark, BackInv, PlaceInv
    <2>2. DrainedTo \in Nat /\ Aligned(DrainedTo)
      <3>1. LastEvent \in Nat
        BY <2>1, LastEventIs
      <3>2. Truncate(LastEvent) \in Nat /\ Aligned(Truncate(LastEvent))
        BY <3>1, TruncateBounds
      <3>3. QED
        BY <3>2, NextAligned, StepAssumption DEF DrainedTo
    <2>3. logs' \subseteq Events /\ attacks' \in SUBSET Attack
      BY DatasetsAssumption DEF BackInv, Typed, ManifestInv
    <2>4. QED
      BY <1>5, <2>2, <2>3 DEF SaveWatermark, Goto, TypeOK, FeedTypeOK
  <1>6. CASE Record
    BY <1>6, ExitTypes DEF Record, TypeOK
  <1>7. QED
    BY <1>1, <1>2, <1>3, <1>4, <1>5, <1>6 DEF EvalProcess

LEMMA ServerTypes ==
  ASSUME BackInv, TypeOK, BackInv', ServerProcess
  PROVE  TypeOK'
  <1>1. CASE StartServer \/ FinishServerSeed \/ Boot \/ EndLive
    <2>1. proc' \in {"seed", "eval", "server"}
      BY <1>1 DEF StartServer, FinishServerSeed, Boot, EndLive, CaughtUp, TypeOK
    <2>2. QED
      BY <1>1, <2>1, MoveTypes DEF StartServer, FinishServerSeed, Boot, EndLive, Goto, tables
  <1>2. CASE BeginLive
    <2>1. proc # "none" /\ pc' # "idle" /\ UNCHANGED <<now, alerts, watermark, proc>>
      BY <1>2 DEF BeginLive, Goto, tables, TypeOK
    <2>2. CASE watermark # Unset /\ next' = watermark /\ UNCHANGED <<redis, mem, relearned>>
      <3>1. logs' \subseteq Events /\ attacks' \in SUBSET Attack
        BY DatasetsAssumption DEF BackInv, Typed, ManifestInv
      <3>2. QED
        BY <2>1, <2>2, <3>1 DEF TypeOK, FeedTypeOK
    <2>3. CASE watermark = Unset /\ logs # {} /\ next' = Origin(logs) /\ ResetBaselines
      BY <2>1, <2>3, FreshTypes
    <2>4. QED
      BY <1>2, <2>2, <2>3 DEF BeginLive
  <1>3. CASE LiveWindow
    BY <1>3, DieTypes, SweepTypes DEF LiveWindow
  <1>4. QED
    BY <1>1, <1>2, <1>3 DEF ServerProcess

LEMMA TypeStep == BackInv /\ TypeOK /\ [Next]_vars => TypeOK'
  <1> SUFFICES ASSUME BackInv, TypeOK, [Next]_vars PROVE TypeOK'
    OBVIOUS
  <1>1. BackInv'
    BY BackStep
  <1>2. CASE UNCHANGED vars
    BY <1>2 DEF vars, feedVars, process, TypeOK, FeedTypeOK
  <1>3. QED
    BY <1>1, <1>2, SeedTypes, EvalTypes, ServerTypes DEF Next

-----------------------------------------------------------------------------
(* What an evaluation passes *)

\* Without a benign false positive, each alert is on the target of an attack.
LEMMA NothingBenign ==
  ASSUME NEW A, NEW listed, IsFiniteSet(listed), Score(A, listed).benignFP = 0,
         NEW al \in listed
  PROVE  \E atk \in A : OnTarget(al, atk)
  <1> DEFINE Exact(x) == \E atk \in A : atk.type = x.type /\ OnTarget(x, atk)
             Cross(x) == ~Exact(x) /\ \E atk \in A : OnTarget(x, atk)
             exact == {x \in listed : Exact(x)}
             cross == {x \in listed : Cross(x)}
             benign == listed \ (exact \cup cross)
  <1>1. Score(A, listed).benignFP = Cardinality(benign)
    BY DEF Score
  <1>2. IsFiniteSet(benign)
    BY FS_Subset
  <1>3. benign = {}
    <2> HIDE DEF benign
    <2> QED BY <1>1, <1>2, FS_EmptySet
  <1>4. al \in exact \cup cross
    BY <1>3
  <1>5. QED
    BY <1>4

LEMMA PassedIsWhole ==
  ASSUME LoginsApart, AttacksStandOut, BackInv, EvalInv
  PROVE  GateNeedsWholeDataset
  <1> SUFFICES ASSUME recorded # NoRun, recorded.exit = 0
               PROVE  [events |-> recorded.logs, attacks |-> recorded.attacks] \in Datasets
    BY DEF GateNeedsWholeDataset
  <1>1. PICK d \in Datasets : recorded.logs = d.events /\ recorded.attacks \subseteq d.attacks
    BY DEF BackInv, GateNeedsAllEvents
  <1>2. d \in [events : SUBSET Events, attacks : SUBSET Attack]
    BY DatasetsAssumption
  <1> DEFINE A == recorded.attacks
             last == Max({e.ts : e \in d.events})
             rows == BatchAlerts(d.events, last)
  <1>3. recorded.result \in Scores(A, rows) /\ recorded.exit = ExitCode(A, recorded.result)
    BY <1>1 DEF EvalInv, RecordInv, BatchScores
  <1>4. PICK listed \in Listings(rows) : recorded.result = Score(A, listed)
    BY <1>3 DEF Scores
  <1>5. Score(A, listed).benignFP = 0 /\ IsFiniteSet(listed)
    <2>1. d.events \in EventSets
      BY <1>2, LogRows
    <2>2. last \in Nat
      BY <1>2, EventsMax, DatasetsAssumption
    <2> HIDE DEF last
    <2>3. rows \in Seq(AlertRow)
      BY <2>1, <2>2, BatchType
    <2> HIDE DEF rows
    <2>4. IsFiniteSet(listed)
      BY <2>3, ListingsAre
    <2>5. QED
      BY <1>3, <1>4, <2>4 DEF ExitCode
  <1>6. ASSUME NEW a \in d.attacks
        PROVE  a \in A
    <2>1. PICK al \in listed : \A b \in d.attacks : OnTarget(al, b) => b = a
      BY DEF AttacksStandOut
    <2>2. PICK atk \in A : OnTarget(al, atk)
      BY <1>5, NothingBenign
    <2>3. QED
      BY <1>1, <2>1, <2>2
  <1>7. recorded.attacks = d.attacks
    BY <1>1, <1>6
  <1>8. d = [events |-> d.events, attacks |-> d.attacks]
    BY <1>2
  <1>9. QED
    BY <1>1, <1>7, <1>8

-----------------------------------------------------------------------------
(* No finding is lost *)

\* Every window that starts before a bound is one of those before some aligned
\* instant, up to which nothing else starts.
LEMMA UpToAligned ==
  ASSUME NEW L \in EventSets, NEW b \in Nat
  PROVE  \E m \in Nat : Aligned(m) /\ b <= m /\ BatchAlerts(L, b) = BatchAlerts(L, m)
  <1> DEFINE t == Truncate(b)
  <1>1. t \in Nat /\ Aligned(t) /\ t <= b /\ b < t + Step
    BY TruncateBounds
  <1>2. CASE t = b
    BY <1>1, <1>2
  <1>3. CASE t # b
    <2> HIDE DEF t
    <2>1. t + Step \in Nat /\ Aligned(t + Step) /\ b <= t + Step /\ t + Step < b + Step
      BY <1>1, <1>3, NextAligned, StepAssumption
    <2>2. BatchAlerts(L, b) = BatchAlerts(L, t + Step)
      BY <2>1, BetweenStarts
    <2>3. QED
      BY <2>1, <2>2
  <1>4. QED
    BY <1>2, <1>3

LEMMA FindingCovered ==
  ASSUME NEW L \in EventSets, L # {}, Aligned(Origin(L)), Step <= MergePad, NEW b \in Nat,
         NEW t \in Nat, Aligned(t), Origin(L) <= t, t < b, NEW c \in FindingsAt(L, t)
  PROVE  Covered(BatchAlerts(L, b), c)
  <1>1. PICK m \in Nat : Aligned(m) /\ b <= m /\ BatchAlerts(L, b) = BatchAlerts(L, m)
    BY UpToAligned
  <1>2. t < m /\ Origin(L) <= m
    <2>1. Origin(L) \in Nat
      BY OriginType
    <2>2. QED
      BY <1>1, <2>1
  <1>3. BatchInv(L, m)
    BY <1>1, <1>2, BatchAbsorbs
  <1>4. c \in FoundBefore(L, m)
    BY <1>2 DEF FoundBefore
  <1>5. Absorbed(BatchAlerts(L, m), c) /\ BatchAlerts(L, m) \in Seq(AlertRow)
    BY <1>3, <1>4 DEF BatchInv
  <1> DEFINE A == BatchAlerts(L, m)
  <1>6. A \in Seq(AlertRow) /\ Absorbed(A, c)
    BY <1>5
  <1> HIDE DEF A
  <1>7. Covered(A, c)
    <2>1. PICK n \in Nat : AbsorbedBy(A, c, n)
      BY <1>6 DEF Absorbed
    <2>2. n \in 1 .. Len(A) /\ Same(A[n], c) /\ A[n].start <= c.start /\ c.end <= A[n].end
      BY <2>1 DEF AbsorbedBy
    <2>3. QED
      BY <2>2 DEF Same, Covered
  <1>8. QED
    BY <1>1, <1>7 DEF A

\* The findings of the windows that start before a bound are covered, in whatever
\* order each window reported them, and whoever stored them again.
CoveredBefore(b) ==
  \A t \in Nat : Aligned(t) /\ Origin(logs) <= t /\ t < b /\ t < LastEvent =>
    \A c \in FindingsAt(logs, t) : Covered(alerts, c)

CoverInv ==
  /\ now = MaxNow
  /\ Faithful /\ watermark # Unset => CoveredBefore(watermark)
  /\ pc = "sweep" /\ (Faithful \/ proc = "eval") => CoveredBefore(next)
  /\ pc = "score" => CoveredBefore(LastEvent)

LEMMA CoverInit == Init => CoverInv
  BY DEF Init, CoverInv

\* Nothing stays covered that no alert loses, ...
LEMMA CoveredKept ==
  ASSUME BackInv, logs' = logs, NEW b, CoveredBefore(b),
         \A d \in Candidate : Covered(alerts, d) => Covered(alerts', d)
  PROVE  \A t \in Nat : Aligned(t) /\ Origin(logs') <= t /\ t < b /\ t < LastEvent' =>
           \A c \in FindingsAt(logs', t) : Covered(alerts', c)
  <1> SUFFICES ASSUME NEW t \in Nat, Aligned(t), Origin(logs) <= t, t < b, t < LastEvent,
                      NEW c \in FindingsAt(logs, t)
               PROVE  Covered(alerts', c)
    BY DEF LastEvent
  <1>1. logs \in EventSets
    BY LogRows DEF BackInv, Typed
  <1>2. c \in Candidate
    BY <1>1, WindowFindings
  <1>3. Covered(alerts, c)
    BY DEF CoveredBefore
  <1>4. QED
    BY <1>2, <1>3

\* ... a window that is judged by its history adds its own findings, ...
LEMMA CoveredNext ==
  ASSUME BackInv, TypeOK, logs' = logs, CoveredBefore(next), Knows(mem, next),
         SweepWindow(next)
  PROVE  \A t \in Nat : Aligned(t) /\ Origin(logs') <= t /\ t < next + Step /\ t < LastEvent' =>
           \A c \in FindingsAt(logs', t) : Covered(alerts', c)
  <1>1. PICK f \in Orders(Found(next)) : alerts' = Store(alerts, f)
    BY DEF SweepWindow
  <1>2. WindowEvents(logs, next) \in EventSets /\ alerts \in Seq(AlertRow)
        /\ next \in Nat /\ Aligned(next)
    BY LogRows, EventSubset DEF BackInv, Typed, TypeOK, WindowEvents
  <1>3. /\ \A d \in Candidate : Covered(alerts, d) => Covered(alerts', d)
        /\ \A c \in Found(next) : Covered(alerts', c)
    <2> DEFINE S == WindowEvents(logs, next)
    <2>1. f \in Orders(Findings(S, mem)) /\ S \in EventSets /\ Found(next) = Findings(S, mem)
      BY <1>1, <1>2 DEF Found
    <2> HIDE DEF S
    <2>2. /\ \A d \in Candidate : Covered(alerts, d) => Covered(Store(alerts, f), d)
          /\ \A c \in Findings(S, mem) : Covered(Store(alerts, f), c)
      BY <1>2, <2>1, FindingsCovered
    <2>3. QED
      BY <1>1, <2>1, <2>2
  <1>4. Found(next) = FindingsAt(logs, next)
    BY KnowingIsJudging DEF Found
  <1>5. ASSUME NEW t \in Nat, Aligned(t), t < next + Step, ~ (t < next)
        PROVE  t = next
    BY <1>2, <1>5, AlignedApart, StepAssumption
  <1>6. \A t \in Nat : Aligned(t) /\ Origin(logs') <= t /\ t < next /\ t < LastEvent' =>
          \A c \in FindingsAt(logs', t) : Covered(alerts', c)
    BY <1>3, CoveredKept
  <1>7. QED
    BY <1>3, <1>4, <1>5, <1>6

\* ... and one that dies on the way loses none.
LEMMA DieCovers ==
  ASSUME BackInv, TypeOK, DieSweeping(next)
  PROVE  \A d \in Candidate : Covered(alerts, d) => Covered(alerts', d)
  <1>1. PICK f \in Orders(Found(next)) :
          \/ \E n \in 0 .. Len(f) : alerts' = StoreFirst(alerts, f, n)
          \/ alerts' = Store(alerts, f)
    BY DEF DieSweeping
  <1>2. WindowEvents(logs, next) \in EventSets /\ alerts \in Seq(AlertRow)
    BY LogRows, EventSubset DEF BackInv, Typed, TypeOK, WindowEvents
  <1> DEFINE S == WindowEvents(logs, next)
  <1>3. f \in Orders(Findings(S, mem)) /\ S \in EventSets
    BY <1>1, <1>2 DEF Found
  <1> HIDE DEF S
  <1>4. /\ \A k \in 0 .. Len(f) : \A d \in Candidate :
             Covered(alerts, d) => Covered(StoreFirst(alerts, f, k), d)
        /\ \A d \in Candidate : Covered(alerts, d) => Covered(Store(alerts, f), d)
    BY <1>2, <1>3, FindingsCovered
  <1>5. QED
    BY <1>1, <1>4

LEMMA CoverDie ==
  ASSUME BackInv, TypeOK, CoverInv, pc = "sweep", DieSweeping(next)
  PROVE  CoverInv'
  <1>1. /\ UNCHANGED <<now, logs, watermark>> /\ pc' = "idle"
        /\ relearned' \/ UNCHANGED relearned
    BY DEF DieSweeping, Exit, Goto
  <1>2. ASSUME NEW b, CoveredBefore(b)
        PROVE  \A t \in Nat : Aligned(t) /\ Origin(logs') <= t /\ t < b /\ t < LastEvent' =>
                 \A c \in FindingsAt(logs', t) : Covered(alerts', c)
    BY <1>1, <1>2, DieCovers, CoveredKept
  <1>3. QED
    BY <1>1, <1>2 DEF CoverInv, CoveredBefore, Faithful

\* Nothing starts before the origin.
LEMMA NothingToCover ==
  ASSUME Typed, logs # {}
  PROVE  CoveredBefore(Origin(logs))
  <1> DEFINE o == Origin(logs)
  <1>1. o \in Nat
    BY OriginAligned
  <1> HIDE DEF o
  <1>2. \A t \in Nat : ~ (o <= t /\ t < o)
    BY <1>1
  <1>3. QED
    BY <1>2 DEF CoveredBefore, o

\* Steps that leave what is covered alone, away from the sweep.
LEMMA CoverElsewhere ==
  ASSUME CoverInv, now' = now, pc' \notin {"sweep", "score"},
         \/ watermark' = Unset
         \/ UNCHANGED <<logs, alerts, watermark>> /\ (relearned' \/ UNCHANGED relearned)
  PROVE  CoverInv'
  BY DEF CoverInv, CoveredBefore, LastEvent, Faithful

LEMMA CoverEval ==
  ASSUME BackInv, EvalInv, TypeOK, CoverInv, EvalProcess
  PROVE  CoverInv'
  <1>1. CASE StartEval \/ ResetDetections \/ Record
    BY <1>1, CoverElsewhere DEF StartEval, ResetDetections, Record, Exit, Goto, tables
  <1>2. CASE Drain
    <2>1. /\ UNCHANGED <<now, logs, alerts, watermark>> /\ watermark = Unset /\ pc' = "sweep"
          /\ next' = Origin(logs) /\ logs # {} /\ Typed
      BY <1>2 DEF Drain, Goto, tables, BackInv, PlaceInv
    <2>2. CoveredBefore(Origin(logs))
      BY <2>1, NothingToCover
    <2>3. QED
      BY <2>1, <2>2 DEF CoverInv, CoveredBefore, LastEvent
  <1>3. CASE DrainWindow
    <2>1. proc = "eval" /\ pc = "sweep" /\ watermark = Unset /\ Knows(mem, next)
          /\ CoveredBefore(next)
      BY <1>3 DEF DrainWindow, BackInv, PlaceInv, EvalInv, DrainInv, CoverInv
    <2>2. CASE DieSweeping(next)
      BY <2>1, <2>2, CoverDie
    <2>3. CASE SweepWindow(next) /\ next' = next + Step
               /\ UNCHANGED <<now, logs, attacks, watermark, recorded, proc, pc, dataset, relearned>>
      BY <2>1, <2>3, CoveredNext DEF CoverInv, CoveredBefore
    <2>4. QED
      BY <1>3, <2>2, <2>3 DEF DrainWindow
  <1>4. CASE SaveWatermark
    <2>1. /\ UNCHANGED <<now, logs, alerts>> /\ pc' = "score" /\ logs # {} /\ Typed
          /\ next \in Nat /\ ~ (next < LastEvent) /\ CoveredBefore(next)
      BY <1>4 DEF SaveWatermark, Goto, BackInv, PlaceInv, Typed, CoverInv
    <2> DEFINE last == LastEvent
    <2>2. last \in Nat
      BY <2>1, LastEventIs
    <2> HIDE DEF last
    <2>3. \A t \in Nat : t < last => t < next
      BY <2>1, <2>2 DEF last
    <2>4. \A t \in Nat : Aligned(t) /\ Origin(logs) <= t /\ t < last =>
            \A c \in FindingsAt(logs, t) : Covered(alerts, c)
      BY <2>1, <2>3 DEF CoveredBefore, last
    <2>5. last' = last
      BY <2>1 DEF last, LastEvent
    <2>6. QED
      BY <2>1, <2>4, <2>5 DEF CoverInv, CoveredBefore, last
  <1>5. QED
    BY <1>1, <1>2, <1>3, <1>4 DEF EvalProcess

LEMMA CoverServer ==
  ASSUME BackInv, TypeOK, CoverInv, ServerProcess
  PROVE  CoverInv'
  <1>1. CASE StartServer \/ FinishServerSeed \/ Boot \/ EndLive
    BY <1>1, CoverElsewhere DEF StartServer, FinishServerSeed, Boot, EndLive, Goto, tables
  <1>2. CASE BeginLive
    <2>1. /\ UNCHANGED <<now, logs, alerts, watermark, proc>> /\ pc' = "sweep" /\ proc = "server"
      BY <1>2 DEF BeginLive, Goto, tables, BackInv, PlaceInv
    <2>2. CASE watermark # Unset /\ next' = watermark /\ UNCHANGED <<redis, mem, relearned>>
      BY <2>1, <2>2 DEF CoverInv, CoveredBefore, LastEvent, Faithful
    <2>3. CASE watermark = Unset /\ logs # {} /\ next' = Origin(logs) /\ ResetBaselines
      <3>1. CoveredBefore(Origin(logs))
        BY <2>3, NothingToCover DEF BackInv
      <3>2. QED
        BY <2>1, <2>3, <3>1 DEF CoverInv, CoveredBefore, LastEvent
    <2>4. QED
      BY <1>2, <2>2, <2>3 DEF BeginLive
  <1>3. CASE LiveWindow
    <2>1. proc = "server" /\ pc = "sweep"
      BY <1>3 DEF LiveWindow
    <2>2. CASE DieSweeping(next)
      BY <2>1, <2>2, CoverDie
    <2>3. CASE SweepWindow(next) /\ next' = next + Step /\ watermark' = next + Step
               /\ UNCHANGED <<now, logs, attacks, recorded, proc, pc, dataset, relearned>>
      <3>1. ASSUME Faithful
            PROVE  CoveredBefore(next) /\ Knows(mem, next)
        BY <2>1, <3>1 DEF CoverInv, BackInv, HistoryInv
      <3>2. ASSUME Faithful
            PROVE  \A t \in Nat :
                     Aligned(t) /\ Origin(logs') <= t /\ t < next + Step /\ t < LastEvent' =>
                       \A c \in FindingsAt(logs', t) : Covered(alerts', c)
        BY <2>3, <3>1, <3>2, CoveredNext
      <3>3. QED
        BY <2>1, <2>3, <3>2 DEF CoverInv, CoveredBefore, Faithful
    <2>4. QED
      BY <1>3, <2>2, <2>3 DEF LiveWindow
  <1>4. QED
    BY <1>1, <1>2, <1>3 DEF ServerProcess

LEMMA CoverStep == BackInv /\ EvalInv /\ TypeOK /\ CoverInv /\ [Next]_vars => CoverInv'
  <1> SUFFICES ASSUME BackInv, EvalInv, TypeOK, CoverInv, [Next]_vars PROVE CoverInv'
    OBVIOUS
  <1>1. CASE StartSeed \/ ResetAll \/ FlushDB \/ FinishSeed \/ Stop
    <2>1. FlushDB => watermark' = Unset
      BY DEF FlushDB, tables, BackInv, PlaceInv
    <2>2. QED
      BY <1>1, <2>1, CoverElsewhere
         DEF StartSeed, ResetAll, FlushDB, FinishSeed, Stop, Exit, Goto, tables
  <1>2. CASE Seeding
    <2>1. watermark' = Unset /\ pc' = "load" /\ now' = now
      BY <1>2 DEF Seeding, LoadChunk, LoadAttack, feedVars, process, BackInv, PlaceInv
    <2>2. QED
      BY <2>1, CoverElsewhere
  <1>3. CASE UNCHANGED vars
    BY <1>3 DEF vars, feedVars, process, CoverInv, CoveredBefore, LastEvent, Faithful
  <1>4. QED
    BY <1>1, <1>2, <1>3, CoverEval, CoverServer DEF Next, SeedProcess

LEMMA KeptByAll ==
  ASSUME AccessesHaveOrigin(Events), LateClock, BackInv, CoverInv
  PROVE  FindingsKept
  <1> SUFFICES ASSUME pc = "score" \/ (CaughtUp /\ ~relearned), NEW t \in 0 .. LastEvent - 1,
                      Aligned(t), Origin(logs) <= t, NEW c \in FindingsAt(logs, t)
               PROVE  Covered(alerts, c)
    BY DEF FindingsKept
  <1> DEFINE last == LastEvent
  <1>1. last \in Nat
    BY LastEventIs, BehindLast DEF BackInv, PlaceInv, CoverInv
  <1>2. t \in 0 .. last - 1
    OBVIOUS
  <1> HIDE DEF last
  <1>3. t \in Nat /\ t < last
    BY <1>1, <1>2
  <1>4. CASE pc = "score"
    BY <1>3, <1>4 DEF CoverInv, CoveredBefore, last
  <1>5. CASE CaughtUp /\ ~relearned
    <2>1. last < next /\ next \in Nat
      BY <1>5, BehindLast DEF CoverInv, last
    <2>2. t < next
      BY <1>1, <1>3, <2>1
    <2>3. CoveredBefore(next)
      BY <1>5 DEF CaughtUp, CoverInv, Faithful
    <2>4. QED
      BY <1>3, <2>2, <2>3 DEF CoveredBefore, last
  <1>6. QED
    BY <1>4, <1>5

-----------------------------------------------------------------------------
(* No burst is lost *)

\* Events within a step of each other
Short(S) == \A e, f \in S : e.ts <= f.ts + Step

\* A burst no longer than a step lies in the window that starts in the step of
\* its first event.
LEMMA BurstInWindow ==
  ASSUME NEW L \in EventSets, NEW S \in SUBSET L, NEW a \in S,
         \A e \in S : a.ts <= e.ts /\ e.ts <= a.ts + Step
  PROVE  /\ Truncate(a.ts) \in Nat /\ Aligned(Truncate(a.ts)) /\ Truncate(a.ts) <= a.ts
         /\ Origin(L) <= Truncate(a.ts) /\ Aligned(Origin(L))
         /\ S \subseteq WindowEvents(L, Truncate(a.ts))
  <1> DEFINE first == a.ts
             t == Truncate(first)
  <1>1. \A e \in L : e.ts \in Nat
    BY DEF EventSets, Event
  <1>2. first \in Nat /\ \A e \in S : e.ts \in Nat /\ first <= e.ts /\ e.ts <= first + Step
    BY <1>1
  <1>3. PICK f \in L : Origin(L) = Truncate(f.ts) /\ \A g \in L : f.ts <= g.ts
    BY OriginIs
  <1>4. f.ts <= first
    BY <1>3
  <1> HIDE DEF first
  <1>5. t \in Nat /\ Aligned(t) /\ t <= first /\ first < t + Step
    BY <1>2, TruncateBounds
  <1>6. Origin(L) <= t /\ Aligned(Origin(L))
    BY <1>1, <1>2, <1>3, <1>4, TruncateMonotone, TruncateBounds
  <1> HIDE DEF t
  <1>7. ASSUME NEW e \in S
        PROVE  t <= e.ts /\ e.ts < t + 2 * Step
    <2> DEFINE x == e.ts
    <2>1. x \in Nat /\ first <= x /\ x <= first + Step
      BY <1>2
    <2> HIDE DEF x
    <2>2. t <= x /\ x < t + 2 * Step
      BY <1>2, <1>5, <2>1, StepAssumption
    <2>3. QED
      BY <2>2 DEF x
  <1>8. S \subseteq WindowEvents(L, t)
    BY <1>7 DEF WindowEvents, InWindow
  <1>9. QED
    BY <1>5, <1>6, <1>8 DEF t, first

\* What a finding covers, a row that covers a longer one covers too.
LEMMA CoversShorter ==
  ASSUME NEW A \in Seq(AlertRow), NEW c, NEW d \in Candidate, Covered(A, d), Same(d, c),
         c.start \in Nat, c.end \in Nat, d.start <= c.start, c.end <= d.end
  PROVE  Covered(A, c)
  <1>1. PICK n \in 1 .. Len(A) : /\ A[n].type = d.type /\ A[n].entity = d.entity
                                 /\ A[n].start <= d.start /\ d.end <= A[n].end
    BY DEF Covered
  <1>2. /\ A[n].start \in Nat /\ A[n].end \in Nat /\ d.start \in Nat /\ d.end \in Nat
    BY RowNumbers DEF Candidate
  <1>3. A[n].start <= c.start /\ c.end <= A[n].end
    BY <1>1, <1>2
  <1>4. QED
    BY <1>1, <1>3 DEF Covered, Same

LEMMA FoundTimes ==
  ASSUME NEW L \in EventSets, NEW S \in SUBSET L, NEW c \in RuleFindings(S)
  PROVE  c.start \in Nat /\ c.end \in Nat
  <1>1. S \in EventSets
    BY EventSubset
  <1>2. (\E e \in S : e.ts = c.start) /\ (\E e \in S : e.ts = c.end) /\ \A e \in S : e.ts \in Nat
    BY <1>1, RuleSpans DEF Spans, EventSets, Event
  <1>3. QED
    BY <1>2

\* What the rules find in a burst, one of the windows finds, and more.
LEMMA BurstFound ==
  ASSUME NEW L \in EventSets, NEW S \in SUBSET L, Short(S),
         NEW b \in Nat, \E e \in S : Truncate(e.ts) < b, NEW c \in RuleFindings(S)
  PROVE  \E t \in Nat : /\ Aligned(t) /\ Origin(L) <= t /\ t < b
                        /\ \E d \in FindingsAt(L, t) :
                             Same(d, c) /\ d.start <= c.start /\ c.end <= d.end
  <1>1. S \in EventSets /\ S # {}
    BY EventSubset
  <1>2. PICK a \in S : \A f \in S : a.ts <= f.ts
    BY <1>1, OriginIs
  <1>3. PICK e \in S : Truncate(e.ts) < b
    OBVIOUS
  <1>4. \A f \in S : f.ts \in Nat
    BY DEF EventSets, Event
  <1> DEFINE t == Truncate(a.ts)
             W == WindowEvents(L, t)
  <1>5. t < b
    <2>1. Truncate(a.ts) <= Truncate(e.ts) /\ Truncate(a.ts) \in Nat /\ Truncate(e.ts) \in Nat
      BY <1>2, <1>4, TruncateMonotone, TruncateBounds
    <2>2. QED
      BY <1>3, <2>1
  <1>6. \A f \in S : a.ts <= f.ts /\ f.ts <= a.ts + Step
    BY <1>2 DEF Short
  <1>7. t \in Nat /\ Aligned(t) /\ Origin(L) <= t /\ S \in SUBSET W
    BY <1>6, BurstInWindow
  <1>8. W \in EventSets
    BY EventSubset DEF WindowEvents
  <1>9. FindingsAt(L, t) = Findings(W, BaselineOf(Before(L, t)))
    BY DEF FindingsAt
  <1> HIDE DEF W, t
  <1>10. PICK d \in RuleFindings(W) : Same(d, c) /\ d.start <= c.start /\ c.end <= d.end
    BY <1>1, <1>7, <1>8, RulesGrow
  <1>11. d \in FindingsAt(L, t)
    BY <1>9, <1>10 DEF Findings
  <1>12. QED
    BY <1>5, <1>7, <1>10, <1>11

LEMMA BurstReported ==
  ASSUME NEW L \in EventSets, Step <= MergePad, NEW S \in SUBSET L, Short(S),
         NEW b \in Nat, \E e \in S : Truncate(e.ts) < b, NEW c \in RuleFindings(S)
  PROVE  Covered(BatchAlerts(L, b), c)
  <1>1. PICK t \in Nat : /\ Aligned(t) /\ Origin(L) <= t /\ t < b
                         /\ \E d \in FindingsAt(L, t) :
                              Same(d, c) /\ d.start <= c.start /\ c.end <= d.end
    BY BurstFound
  <1>2. PICK d \in FindingsAt(L, t) : Same(d, c) /\ d.start <= c.start /\ c.end <= d.end
    BY <1>1
  <1>3. L # {} /\ Aligned(Origin(L))
    <2>1. L # {}
      OBVIOUS
    <2>2. PICK e \in L : Origin(L) = Truncate(e.ts)
      BY <2>1, OriginIs
    <2>3. e.ts \in Nat
      BY DEF EventSets, Event
    <2>4. QED
      BY <2>1, <2>2, <2>3, TruncateBounds
  <1>4. Covered(BatchAlerts(L, b), d) /\ BatchAlerts(L, b) \in Seq(AlertRow) /\ d \in Candidate
    BY <1>1, <1>3, FindingCovered, BatchType, WindowFindings
  <1> DEFINE A == BatchAlerts(L, b)
  <1>5. A \in Seq(AlertRow) /\ Covered(A, d)
    BY <1>4
  <1> HIDE DEF A
  <1>6. Covered(A, c)
    BY <1>2, <1>4, <1>5, FoundTimes, CoversShorter
  <1>7. QED
    BY <1>6 DEF A

\* Each burst that begins before the step of the last event
BurstsKept ==
  pc = "score" \/ (CaughtUp /\ ~relearned) =>
    \A S \in SUBSET logs : Short(S) /\ (\E e \in S : Truncate(e.ts) < LastEvent) =>
      \A c \in RuleFindings(S) : Covered(alerts, c)

LEMMA BurstsKeptByAll ==
  ASSUME LateClock, BackInv, TypeOK, CoverInv, FindingsKept
  PROVE  BurstsKept
  <1> SUFFICES ASSUME pc = "score" \/ (CaughtUp /\ ~relearned), NEW S \in SUBSET logs, Short(S),
                      \E e \in S : Truncate(e.ts) < LastEvent, NEW c \in RuleFindings(S)
               PROVE  Covered(alerts, c)
    BY DEF BurstsKept
  <1>1. logs \in EventSets /\ LastEvent \in Nat
    BY LogRows, LastEventIs, BehindLast DEF BackInv, Typed, PlaceInv, CoverInv
  <1>2. PICK t \in Nat : /\ Aligned(t) /\ Origin(logs) <= t /\ t < LastEvent
                         /\ \E d \in FindingsAt(logs, t) :
                              Same(d, c) /\ d.start <= c.start /\ c.end <= d.end
    BY <1>1, BurstFound
  <1>3. PICK d \in FindingsAt(logs, t) : Same(d, c) /\ d.start <= c.start /\ c.end <= d.end
    BY <1>2
  <1>4. Covered(alerts, d)
    <2> DEFINE last == LastEvent
    <2>1. last \in Nat /\ t < last
      BY <1>1, <1>2
    <2> HIDE DEF last
    <2>2. t \in 0 .. last - 1
      BY <2>1
    <2>3. QED
      BY <1>2, <2>2 DEF FindingsKept, last
  <1>5. alerts \in Seq(AlertRow) /\ d \in Candidate
    BY <1>1, WindowFindings DEF TypeOK
  <1>6. c.start \in Nat /\ c.end \in Nat
    BY <1>1, FoundTimes
  <1>7. QED
    BY <1>3, <1>4, <1>5, <1>6, CoversShorter

-----------------------------------------------------------------------------
(* The theorems *)

\* Every table, store and process keeps its type, whatever runs and dies: rows of
\* alerts stay rows through any sweep, and windows and watermark stay aligned.
THEOREM BackfillTypes == Spec => []TypeOK
  BY TypeInit, TypeStep, BackInit, BackStep, PTL DEF Spec

\* An evaluation whose exit code is 0 has seen all events of one dataset, and
\* no attack of another: what a seeder left behind when it died among the events
\* never passes (cmd/seed loads them before the manifest, cmd/eval asks for one).
THEOREM GateHolds == Spec => []GateNeedsAllEvents
  <1>1. BackInv => GateNeedsAllEvents
    BY DEF BackInv
  <1>2. QED
    BY <1>1, BackInit, BackStep, PTL DEF Spec

\* An evaluation whose exit code is 0 has seen one dataset as a whole, if each of
\* its attacks raises an alert that no other explains and nobody logs in from two
\* places at one instant: an attack that the seeder had not inserted when it died
\* leaves that alert benign (Score, cmd/eval).
THEOREM GateWantsTheWhole ==
  ASSUME LoginsApart, AttacksStandOut
  PROVE  Spec => []GateNeedsWholeDataset
  <1>1. BackInv /\ EvalInv => GateNeedsWholeDataset
    BY PassedIsWhole
  <1>2. QED
    BY <1>1, BackInit, BackStep, EvalInit, EvalStep, PTL DEF Spec

\* What an evaluation scored was written by a seeder.
RecordedInv ==
  recorded # NoRun =>
    recorded.logs # {} /\ recorded.logs \in SUBSET Events /\ Written(recorded.logs)

LEMMA RecordedInit == Init => RecordedInv
  BY DEF Init, RecordedInv

LEMMA RecordedStep == BackInv /\ WrittenInv /\ RecordedInv /\ [Next]_vars => RecordedInv'
  <1> SUFFICES ASSUME BackInv, WrittenInv, RecordedInv, [Next]_vars PROVE RecordedInv'
    OBVIOUS
  <1>1. CASE Record
    <2>1. recorded'.logs = logs /\ pc = "score"
      <3>1. PICK r \in Scores(attacks, alerts) :
              recorded' = [logs |-> logs, attacks |-> attacks, result |-> r,
                           exit |-> ExitCode(attacks, r)]
        BY <1>1 DEF Record
      <3>2. QED
        BY <1>1, <3>1 DEF Record
    <2>2. logs # {} /\ logs \in SUBSET Events /\ Written(logs)
      BY <2>1 DEF BackInv, PlaceInv, Typed, WrittenInv
    <2>3. QED
      BY <2>1, <2>2 DEF RecordedInv, Written
  <1>2. CASE recorded' = recorded
    BY <1>2 DEF RecordedInv, Written
  <1>3. CASE Seeding \/ SeedProcess \/ Stop
    BY <1>2, <1>3
       DEF Seeding, SeedProcess, LoadChunk, LoadAttack, StartSeed, ResetAll, FlushDB, FinishSeed,
           Stop, tables
  <1>4. CASE EvalProcess
    BY <1>1, <1>2, <1>4
       DEF EvalProcess, StartEval, ResetDetections, Drain, DrainWindow, DieSweeping, SaveWatermark,
           tables
  <1>5. CASE ServerProcess
    BY <1>2, <1>5
       DEF ServerProcess, StartServer, FinishServerSeed, Boot, BeginLive, LiveWindow, DieSweeping,
           EndLive, tables
  <1>6. CASE UNCHANGED vars
    BY <1>2, <1>6 DEF vars
  <1>7. QED
    BY <1>3, <1>4, <1>5, <1>6 DEF Next

\* A batch that ListAlerts returns as a whole has one score.
LEMMA OneScore ==
  ASSUME WithinLimit, NEW L \in SUBSET Events, L # {}, Written(L), NEW attacked,
         NEW r \in BatchScores(L, attacked)
  PROVE  BatchScores(L, attacked) = {r}
  <1> DEFINE last == Max({e.ts : e \in L})
             rows == BatchAlerts(L, last)
  <1>1. last \in Nat /\ L \in EventSets
    BY EventsMax, LogRows
  <1>2. Len(rows) <= ListLimit
    BY DEF WithinLimit
  <1>3. BatchScores(L, attacked) = Scores(attacked, rows)
    BY DEF BatchScores
  <1> HIDE DEF last
  <1>4. rows \in Seq(AlertRow)
    BY <1>1, BatchType
  <1> HIDE DEF rows
  <1>5. Listings(rows) = {{rows[n] : n \in 1 .. Len(rows)}}
    BY <1>2, <1>4, AllListings
  <1> DEFINE whole == {rows[n] : n \in 1 .. Len(rows)}
  <1>6. Listings(rows) = {whole}
    BY <1>5
  <1> HIDE DEF whole
  <1>7. Scores(attacked, rows) = {Score(attacked, whole)}
    BY <1>6 DEF Scores
  <1>8. QED
    BY <1>3, <1>7

\* "results are reproducible": an evaluation records the score that the batch
\* definition gives the tables it found, and no other is possible, whatever ran
\* and died before it and whatever that left in Redis or among the alerts (cmd/eval,
\* Drain, sweep).  It takes that nobody logs in from two places at one instant,
\* because sortCands does not order such logins, and that ListAlerts cuts no row.
THEOREM EvaluationIsReproducible ==
  ASSUME LoginsApart, WithinLimit
  PROVE  Spec => []EvalReproducible
  <1>1. EvalInv /\ RecordedInv => EvalReproducible
    <2> SUFFICES ASSUME EvalInv, RecordedInv, recorded # NoRun
                 PROVE  BatchScores(recorded.logs, recorded.attacks) = {recorded.result}
      BY DEF EvalReproducible
    <2>1. recorded.result \in BatchScores(recorded.logs, recorded.attacks)
      BY DEF EvalInv, RecordInv
    <2>2. recorded.logs # {} /\ recorded.logs \in SUBSET Events /\ Written(recorded.logs)
      BY DEF RecordedInv
    <2>3. QED
      BY <2>1, <2>2, OneScore
  <1>2. QED
    BY <1>1, BackInit, BackStep, EvalInit, EvalStep, WrittenInit, WrittenStep, RecordedInit,
       RecordedStep, PTL
       DEF Spec

\* Evaluator and server find in each window what the batch definition finds, by
\* the baselines of the history before it, whatever ran and died before: the
\* evaluator because it resets them, the server because it resumes where they
\* end (sweep, Drain, liveStep, Baselines.Load and Reset).
THEOREM EveryoneJudgesAsBatch ==
  ASSUME AccessesHaveOrigin(Events)
  PROVE  Spec => []JudgedAsBatch
  <1>1. BackInv => JudgedAsBatch
    <2> SUFFICES ASSUME BackInv, pc = "sweep", ~relearned
                 PROVE  Findings(WindowEvents(logs, next), mem) = FindingsAt(logs, next)
      BY DEF JudgedAsBatch, Found
    <2>1. Knows(mem, next)
      BY DEF BackInv, HistoryInv, Faithful
    <2>2. QED
      BY <2>1, KnowingIsJudging
  <1>2. QED
    BY <1>1, BackInit, BackStep, PTL DEF Spec

\* "live detection and batch evaluation run the identical sweep() code, so the
\* live dashboard reproduces the evaluator's numbers exactly": a server that has
\* caught up shows alerts that score as an evaluation of the same tables does,
\* whatever died before and wherever it resumed, as long as no window was learned
\* twice (RunLive, sweep, Drain, UpsertAlert) and nobody logs in from two places
\* at one instant: such logins a server and an evaluator may report in another order.
THEOREM CaughtUpScoresAsBatch ==
  ASSUME AccessesHaveOrigin(Events), LoginsApart, Step <= MergePad, QuietEdges, LateClock
  PROVE  Spec => []CatchUpEqualsBatch
  <1>1. Regular
    BY DEF Regular
  <1>2. BackInv /\ WrittenInv /\ CatchInv => CatchUpEqualsBatch
    BY <1>1, CaughtUpShows DEF CatchUpEqualsBatch, BatchScores, LastEvent
  <1>3. BackInv /\ EvalInv /\ WrittenInv /\ CatchInv /\ [Next]_vars => CatchInv'
    BY <1>1, CatchStep
  <1>4. QED
    BY <1>2, <1>3, BackInit, BackStep, EvalInit, EvalStep, WrittenInit, WrittenStep, CatchInit, PTL
       DEF Spec

\* No finding is lost between a detector and the table, whatever died between two
\* of them, in whatever order they were reported and however often an evaluation
\* or a server swept their window again (sweep, UpsertAlert, Drain, liveStep).
THEOREM NoFindingIsLost ==
  ASSUME AccessesHaveOrigin(Events), LateClock
  PROVE  Spec => []FindingsKept
  <1>1. BackInv /\ CoverInv => FindingsKept
    BY KeptByAll
  <1>2. QED
    BY <1>1, BackInit, BackStep, EvalInit, EvalStep, TypeInit, TypeStep, CoverInit, CoverStep, PTL
       DEF Spec

\* "make successive windows overlap so any burst shorter than the step is fully
\* contained in at least one window" (EXPLAINER.md:513-514): whatever the rules of
\* a detector that learns nothing find in events that lie within a step of each
\* other, an alert of the same type and entity covers, however the events lie
\* across the windows and whatever else is in the log (CredentialStuffing,
\* PrivilegeEscalation, LateralMovement, DataExfiltration, SensitiveDataExposure,
\* sweep, UpsertAlert).
THEOREM EveryBurstIsReported ==
  ASSUME NEW L \in EventSets, Step <= MergePad, NEW S \in SUBSET L, Short(S),
         NEW b \in Nat, \E e \in S : Truncate(e.ts) < b, NEW c \in RuleFindings(S)
  PROVE  Covered(BatchAlerts(L, b), c)
  BY BurstReported

\* So an evaluation that scores, or a server that has caught up, shows an alert
\* for each burst that begins before the step of the last event, whoever died
\* before and wherever they resumed.
THEOREM NoBurstIsLost ==
  ASSUME AccessesHaveOrigin(Events), LateClock
  PROVE  Spec => []BurstsKept
  <1>1. BackInv /\ TypeOK /\ CoverInv => BurstsKept
    BY KeptByAll, BurstsKeptByAll
  <1>2. QED
    BY <1>1, BackInit, BackStep, EvalInit, EvalStep, TypeInit, TypeStep, CoverInit, CoverStep, PTL
       DEF Spec

=============================================================================
