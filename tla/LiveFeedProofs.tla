--------------------------- MODULE LiveFeedProofs ---------------------------
(***************************************************************************)
(* Proofs about LiveFeed: for every log, every pace and every schedule of  *)
(* arrivals, failing queries and reconnects, an event is judged in time,   *)
(* and a connection is sent each event once, in order, and skips none.     *)
(***************************************************************************)
EXTENDS LiveFeed, DetectionProofs, SequenceTheorems

-----------------------------------------------------------------------------
(* Bounds *)

\* The rows of logs are finitely many events.
LEMMA LogRows ==
  ASSUME NEW L \in SUBSET Events
  PROVE  L \in EventSets
  BY FS_Subset, EventsAssumption DEF EventSets

LEMMA Paces ==
  /\ Interval \in Nat \ {0} /\ TailEvery \in Nat \ {0} /\ MaxBatch \in Nat \ {0} /\ Lookback \in Nat
  /\ Step \in Nat \ {0} /\ Lag \in Nat /\ MaxNow \in Nat /\ Unset \notin Nat
  BY PaceAssumption, StepAssumption, LagAssumption, ClockAssumption

\* One step back from an aligned instant is aligned.
LEMMA PreviousAligned ==
  ASSUME NEW t \in Nat, Aligned(t), t - Step \in Nat
  PROVE  Aligned(t - Step)
  <1> DEFINE q == t \div Step
             k == q - 1
  <1>1. q \in Nat /\ t = Step * q
    BY StepAssumption DEF Aligned
  <1> HIDE DEF q
  <1>2. t - Step = Step * k /\ k \in Int
    BY <1>1, StepAssumption
  <1> HIDE DEF k
  <1>3. (Step * k) % Step = 0
    BY <1>2, StepAssumption
  <1>4. QED
    BY <1>2, <1>3 DEF Aligned

-----------------------------------------------------------------------------
(* Types *)

Connection == [on : BOOLEAN, from : Int, lastTS : Int, tick : Nat]

Typed == TypeOK /\ conn \in Connection

LEMMA TypedFacts ==
  ASSUME Typed
  PROVE  /\ now \in Nat /\ now <= MaxNow /\ logs \in SUBSET Events
         /\ wake \in Nat /\ now <= wake /\ wake <= now + Interval
         /\ conn \in Connection
         /\ conn.on => /\ now <= conn.tick /\ conn.tick <= now + TailEvery
                       /\ conn.from <= conn.lastTS /\ conn.lastTS <= now
  BY Paces DEF Typed, TypeOK, FeedTypeOK, Connection

\* The read of the stream: an element is the one that has as many before it as
\* its place tells.
LEMMA SoonerOrders ==
  ASSUME NEW e \in Events, NEW f \in Events
  PROVE  /\ ~ Sooner(e, e)
         /\ e # f => Sooner(e, f) \/ Sooner(f, e)
         /\ \A g \in Events : Sooner(e, f) /\ Sooner(f, g) => Sooner(e, g)
  <1>1. \A g \in Events : g.ts \in Nat /\ g.id \in Nat
    BY EventsAssumption DEF Event
  <1>2. e.id = f.id => e = f
    BY EventsAssumption
  <1>3. QED
    BY <1>1, <1>2 DEF Sooner

Prior(S, e) == {f \in S : Sooner(f, e)}

Rank(S, e) == Cardinality(Prior(S, e))

LEMMA AscendingIs ==
  ASSUME NEW S \in SUBSET Events, NEW s, s = Ascending(S)
  PROVE  /\ s \in Seq(S) /\ Len(s) = Cardinality(S)
         /\ \A m, n \in DOMAIN s : m < n => Sooner(s[m], s[n])
         /\ \A e \in S : \E n \in DOMAIN s : s[n] = e
  <1> DEFINE N == Cardinality(S)
             place == [e \in S |-> Rank(S, e) + 1]
  <1>1. IsFiniteSet(S) /\ N \in Nat
    BY CountType, LogRows
  <1>2. ASSUME NEW e \in S
        PROVE  IsFiniteSet(Prior(S, e)) /\ Rank(S, e) \in Nat /\ e \notin Prior(S, e)
    <2>1. Prior(S, e) \in SUBSET Events /\ e \notin Prior(S, e)
      BY SoonerOrders DEF Prior
    <2>2. QED
      BY <2>1, CountType, LogRows DEF Rank
  <1>3. ASSUME NEW e \in S, NEW T \in SUBSET S, Prior(S, e) \subseteq T, e \in T
        PROVE  Rank(S, e) + 1 <= Cardinality(T) /\ Cardinality(T) \in Nat
    <2> DEFINE P == Prior(S, e)
    <2>1. IsFiniteSet(P) /\ e \notin P /\ P \cup {e} \in SUBSET T /\ Cardinality(P) \in Nat
      BY <1>2, <1>3 DEF Rank
    <2>2. IsFiniteSet(T) /\ Cardinality(T) \in Nat
      BY CountType, LogRows
    <2> HIDE DEF P
    <2>3. Cardinality(P \cup {e}) = Cardinality(P) + 1
      BY <2>1, FS_AddElement
    <2>4. Cardinality(P \cup {e}) <= Cardinality(T)
      BY <2>1, <2>2, FS_Subset
    <2>5. QED
      BY <2>1, <2>2, <2>3, <2>4 DEF P, Rank
  <1>4. ASSUME NEW e \in S, NEW f \in S, Sooner(e, f)
        PROVE  Rank(S, e) < Rank(S, f)
    <2>1. Prior(S, e) \subseteq Prior(S, f) /\ e \in Prior(S, f) /\ Prior(S, f) \in SUBSET S
      BY <1>4, SoonerOrders DEF Prior
    <2>2. Rank(S, e) + 1 <= Rank(S, f)
      BY <1>3, <2>1 DEF Rank
    <2>3. QED
      BY <1>2, <2>2
  <1>5. ASSUME NEW e \in S
        PROVE  Rank(S, e) + 1 \in 1 .. N
    <2>1. Rank(S, e) + 1 <= N
      BY <1>3 DEF Prior
    <2> HIDE DEF N
    <2>2. QED
      BY <1>1, <1>2, <2>1
  <1>6. ASSUME NEW e \in S, NEW f \in S, Rank(S, e) = Rank(S, f)
        PROVE  e = f
    <2>1. ~ (Rank(S, e) < Rank(S, f)) /\ ~ (Rank(S, f) < Rank(S, e))
      BY <1>2, <1>6
    <2>2. QED
      BY <1>4, <2>1, SoonerOrders
  <1>7. \A n \in 1 .. N : \E e \in S : Rank(S, e) = n - 1
    <2> HIDE DEF N
    <2>1. place \in Injection(S, 1 .. N)
      <3>1. place \in [S -> 1 .. N]
        BY <1>5
      <3>2. \A e, f \in S : place[e] = place[f] => e = f
        BY <1>2, <1>6
      <3>3. QED
        BY <3>1, <3>2 DEF Injection, IsInjective
    <2>2. IsFiniteSet(1 .. N) /\ Cardinality(1 .. N) = N
      BY <1>1, FS_Interval
    <2>3. place \in Surjection(S, 1 .. N)
      BY <2>1, <2>2, FS_Injection DEF N
    <2>4. ASSUME NEW n \in 1 .. N
          PROVE  \E e \in S : Rank(S, e) = n - 1
      <3>1. PICK e \in S : place[e] = n
        BY <2>3 DEF Surjection
      <3>2. Rank(S, e) + 1 = n /\ Rank(S, e) \in Nat
        BY <1>2, <3>1
      <3>3. QED
        BY <3>2
    <2>5. QED
      BY <2>4
  <1>8. s = [n \in 1 .. N |-> CHOOSE e \in S : Rank(S, e) = n - 1]
    BY DEF Ascending, Rank, Prior
  <1> HIDE DEF N
  <1>9. \A n \in 1 .. N : s[n] \in S /\ Rank(S, s[n]) = n - 1
    BY <1>7, <1>8
  <1>10. s \in Seq(S) /\ Len(s) = N /\ DOMAIN s = 1 .. N
    BY <1>1, <1>8, <1>9
  <1>11. ASSUME NEW m \in 1 .. N, NEW n \in 1 .. N, m < n
         PROVE  Sooner(s[m], s[n])
    <2>1. Rank(S, s[m]) < Rank(S, s[n]) /\ Rank(S, s[m]) \in Nat /\ Rank(S, s[n]) \in Nat
      BY <1>1, <1>9, <1>11
    <2>2. s[m] # s[n] /\ ~ Sooner(s[n], s[m])
      BY <1>4, <1>9, <2>1
    <2>3. QED
      BY <1>9, <2>2, SoonerOrders
  <1>12. ASSUME NEW e \in S
         PROVE  \E n \in 1 .. N : s[n] = e
    <2>1. Rank(S, e) + 1 \in 1 .. N /\ Rank(S, e) \in Nat
      BY <1>2, <1>5
    <2>2. Rank(S, s[Rank(S, e) + 1]) = Rank(S, e) /\ s[Rank(S, e) + 1] \in S
      BY <1>9, <2>1
    <2>3. QED
      BY <1>6, <2>1, <2>2
  <1>13. QED
    BY <1>10, <1>11, <1>12 DEF N

\* What a read sends is in order, and what it leaves out makes room for maxBatch
\* newer events.
LEMMA CappedIs ==
  ASSUME NEW S \in SUBSET Events, NEW s, s = Capped(S)
  PROVE  /\ s \in Seq(S)
         /\ \A m, n \in DOMAIN s : m < n => Sooner(s[m], s[n])
         /\ \A e \in S : \/ \E n \in DOMAIN s : s[n] = e
                         \/ Len(s) = MaxBatch /\ \A n \in DOMAIN s : Sooner(e, s[n])
  <1> DEFINE all == Ascending(S)
             N == Len(all)
             cut == N - MaxBatch + 1
             first == Max({1, cut})
  <1>1. MaxBatch \in Nat \ {0}
    BY Paces
  <1>2. /\ all \in Seq(S) /\ N \in Nat /\ DOMAIN all = 1 .. N
        /\ \A m, n \in 1 .. N : m < n => Sooner(all[m], all[n])
        /\ \A e \in S : \E n \in 1 .. N : all[n] = e
    <2>1. /\ all \in Seq(S)
          /\ \A m, n \in DOMAIN all : m < n => Sooner(all[m], all[n])
          /\ \A e \in S : \E n \in DOMAIN all : all[n] = e
      BY AscendingIs
    <2> HIDE DEF all
    <2>2. QED
      BY <2>1
  <1>3. s = SubSeq(all, first, N)
    BY DEF Capped
  <1> HIDE DEF all, N
  <1>4. cut \in Int
    BY <1>1, <1>2
  <1> HIDE DEF cut
  <1>5. first \in {1, cut} /\ first >= 1 /\ first >= cut
    <2>1. \E x \in {1, cut} : \A y \in {1, cut} : x >= y
      BY <1>4
    <2>2. QED
      BY <2>1 DEF Max
  <1> HIDE DEF first
  <1>6. first \in Nat \ {0} /\ \A i \in first .. N : all[i] \in S
    BY <1>2, <1>4, <1>5
  <1>7. /\ s \in Seq(S) /\ Len(s) = IF first <= N THEN N - first + 1 ELSE 0
        /\ \A i \in 1 .. N - first + 1 : s[i] = all[first + i - 1]
    BY <1>2, <1>3, <1>6, SubSeqProperties
  <1> DEFINE L == Len(s)
  <1>8. /\ L \in Nat /\ DOMAIN s = 1 .. L
        /\ \A i \in 1 .. L : s[i] = all[first + i - 1] /\ first + i - 1 \in first .. N
    BY <1>2, <1>6, <1>7
  <1> HIDE DEF L
  <1>9. ASSUME NEW m \in 1 .. L, NEW n \in 1 .. L, m < n
        PROVE  Sooner(s[m], s[n])
    BY <1>2, <1>6, <1>8, <1>9
  <1>10. ASSUME NEW e \in S, ~ \E n \in 1 .. L : s[n] = e
         PROVE  L = MaxBatch /\ \A n \in 1 .. L : Sooner(e, s[n])
    <2>1. PICK k \in 1 .. N : all[k] = e
      BY <1>2
    <2>2. k < first
      <3> SUFFICES ASSUME first <= k PROVE FALSE
        BY <1>6
      <3>1. k - first + 1 \in 1 .. L
        BY <1>2, <1>6, <1>7 DEF L
      <3>2. s[k - first + 1] = all[k]
        BY <1>2, <1>6, <1>8, <3>1
      <3>3. QED
        BY <1>10, <2>1, <3>1, <3>2
    <2>3. first = cut
      BY <1>5, <2>1, <2>2
    <2>4. L = MaxBatch
      BY <1>1, <1>2, <1>7, <2>3 DEF L, cut
    <2>5. ASSUME NEW n \in 1 .. L
          PROVE  Sooner(e, s[n])
      BY <1>2, <1>6, <1>8, <2>1, <2>2, <2>5
    <2>6. QED
      BY <2>4, <2>5
  <1>11. QED
    BY <1>7, <1>8, <1>9, <1>10 DEF L

-----------------------------------------------------------------------------
(* The sweeps *)

\* Where a tick of RunLive starts to sweep.
Start == IF watermark = Unset THEN Origin(logs) ELSE watermark

LEMMA StartType ==
  ASSUME Typed, watermark # Unset \/ logs # {}
  PROVE  Start \in Nat /\ Aligned(Start)
  <1>1. CASE watermark = Unset
    <2>1. PICK e \in logs : Origin(logs) = Truncate(e.ts)
      BY <1>1, OriginIs, LogRows, TypedFacts
    <2>2. e.ts \in Nat
      BY <2>1, TypedFacts, EventsAssumption DEF Event
    <2>3. QED
      BY <1>1, <2>1, <2>2, TruncateBounds DEF Start
  <1>2. CASE watermark # Unset
    BY <1>2 DEF Start, Typed, TypeOK
  <1>3. QED
    BY <1>1, <1>2

\* A tick of RunLive reads every settled window from its start on, and moves the
\* watermark behind the last one.
LEMMA SweepIs ==
  ASSUME Typed, Sweep, watermark # Unset \/ logs # {}
  PROVE  LET swept == {t \in Start .. MaxNow : Aligned(t) /\ Settled(t, now)}
         IN /\ judged' = judged \cup UNION {WindowEvents(logs, t) : t \in swept}
            /\ swept = {} => watermark' = watermark
            /\ swept # {} => \E last \in swept : watermark' = last + Step /\ \A t \in swept : t <= last
  <1> DEFINE swept == {t \in Start .. MaxNow : Aligned(t) /\ Settled(t, now)}
  <1>1. swept = SweptFrom(Start) /\ swept \in SUBSET Nat /\ \A t \in swept : t <= MaxNow
    BY StartType DEF SweptFrom
  <1>2. ~ (watermark = Unset /\ logs = {})
    OBVIOUS
  <1>3. /\ judged' = judged \cup UNION {WindowEvents(logs, t) : t \in swept}
        /\ watermark' = IF swept = {} THEN watermark ELSE Max(swept) + Step
    BY <1>1, <1>2, Zenon DEF Sweep, Start
  <1> HIDE DEF swept
  <1>4. swept # {} => Max(swept) \in swept /\ \A t \in swept : t <= Max(swept)
    BY <1>1, MaxOfNat, Paces
  <1>5. QED
    BY <1>3, <1>4 DEF swept

LEMMA SweepSame ==
  ASSUME Typed, Sweep
  PROVE  /\ now = wake /\ wake' = now + Interval /\ now' = now /\ logs' = logs
         /\ conn' = conn /\ sent' = sent /\ late' = late
         /\ (watermark = Unset /\ logs = {}) => watermark' = watermark /\ judged' = judged
  BY DEF Sweep, NextWake, streamVars

-----------------------------------------------------------------------------
(* Types, action by action *)

LEMMA ClockTyped == ASSUME Typed, Clock PROVE Typed'
  <1>1. /\ now' = now + 1 /\ now < MaxNow /\ now < wake
        /\ conn.on => now < conn.tick
        /\ logs' = logs /\ watermark' = watermark /\ wake' = wake /\ judged' = judged
        /\ conn' = conn /\ sent' = sent /\ late' = late
    BY DEF Clock, Tick, sweepVars, streamVars
  <1>2. /\ now \in Nat /\ wake \in Nat /\ wake <= now + Interval /\ conn \in Connection
        /\ conn.on => now < conn.tick /\ conn.tick <= now + TailEvery
                      /\ conn.from <= conn.lastTS /\ conn.lastTS <= now
    BY <1>1, TypedFacts
  <1>3. now' \in 0 .. MaxNow /\ wake' \in now' .. now' + Interval
    BY <1>1, <1>2, Paces
  <1>4. conn.on => conn.tick \in now' .. now' + TailEvery /\ conn.lastTS \in conn.from .. now'
    BY <1>1, <1>2, Paces DEF Connection
  <1>5. QED
    BY <1>1, <1>2, <1>3, <1>4 DEF Typed, TypeOK, FeedTypeOK

LEMMA ArriveTyped == ASSUME Typed, NEW e \in Events, Arrive(e) PROVE Typed'
  <1>1. sent \in Seq(logs')
    BY SeqMonotonic DEF Typed, TypeOK, Arrive
  <1>2. QED
    BY <1>1 DEF Typed, TypeOK, FeedTypeOK, Arrive, sweepVars

LEMMA SweepTyped == ASSUME Typed, Sweep PROVE Typed'
  <1> DEFINE swept == {t \in Start .. MaxNow : Aligned(t) /\ Settled(t, now)}
  <1>1. /\ now = wake /\ wake' = now + Interval /\ now' = now /\ logs' = logs
        /\ conn' = conn /\ sent' = sent /\ late' = late /\ now \in Nat
    BY SweepSame, TypedFacts
  <1>2. wake' \in now' .. now' + Interval
    BY <1>1, Paces
  <1>3. judged' \subseteq logs /\ (watermark' = Unset \/ (watermark' \in Nat /\ Aligned(watermark')))
    <2>1. CASE watermark = Unset /\ logs = {}
      BY <2>1, SweepSame DEF Typed, TypeOK
    <2>2. CASE watermark # Unset \/ logs # {}
      <3>1. judged' = judged \cup UNION {WindowEvents(logs, t) : t \in swept}
        BY <2>2, SweepIs
      <3>2. judged' \subseteq logs
        BY <3>1 DEF Typed, TypeOK, WindowEvents
      <3>3. watermark' = watermark \/ \E last \in Nat : Aligned(last) /\ watermark' = last + Step
        BY <2>2, SweepIs, StartType
      <3>4. QED
        BY <3>2, <3>3, NextAligned, Paces DEF Typed, TypeOK
    <2>3. QED
      BY <2>1, <2>2
  <1>4. QED
    BY <1>1, <1>2, <1>3 DEF Typed, TypeOK, FeedTypeOK

LEMMA ConnectTyped == ASSUME Typed, Connect \/ Disconnect PROVE Typed'
  <1>1. /\ now' = now /\ logs' = logs /\ watermark' = watermark /\ wake' = wake /\ judged' = judged
        /\ sent' = <<>> /\ late' = {} /\ now \in Nat
    BY TypedFacts DEF Connect, Disconnect, sweepVars
  <1>2. /\ conn' \in Connection
        /\ conn'.on => conn'.tick \in now .. now + TailEvery /\ conn'.lastTS \in conn'.from .. now
    <2>1. CASE Connect
      <3> DEFINE from == now - Lookback
                 tick == now + TailEvery
      <3>1. from \in Int /\ from <= now /\ tick \in Nat /\ tick \in now .. now + TailEvery
        BY <1>1, Paces
      <3> HIDE DEF tick
      <3>2. conn' = [on |-> TRUE, from |-> from, lastTS |-> from, tick |-> tick]
        BY <2>1 DEF Connect, tick
      <3> HIDE DEF from
      <3>3. QED
        BY <1>1, <3>1, <3>2 DEF Connection
    <2>2. CASE Disconnect
      BY <2>2 DEF Disconnect, Closed, Connection
    <2>3. QED
      BY <2>1, <2>2
  <1>3. QED
    BY <1>1, <1>2 DEF Typed, TypeOK, FeedTypeOK

\* A tick of the tail: conn moves, and sent grows by what was read.
LEMMA TailIs ==
  ASSUME Typed, TailLogs
  PROVE  /\ conn.on /\ conn' \in Connection /\ conn'.on
         /\ conn'.from = conn.from /\ conn'.lastTS = now /\ conn'.tick = now + TailEvery
  <1>1. /\ conn \in Connection /\ conn.on /\ now \in Nat /\ now + TailEvery \in Nat
        /\ conn' = [conn EXCEPT !.lastTS = now, !.tick = now + TailEvery]
    BY TypedFacts, Paces DEF TailLogs
  <1> DEFINE c1 == [conn EXCEPT !.lastTS = now]
             c2 == [c1 EXCEPT !.tick = now + TailEvery]
  <1>2. c1 \in Connection
    BY <1>1 DEF Connection
  <1>3. \A c \in Connection, t \in Nat : [c EXCEPT !.tick = t] \in Connection
    BY DEF Connection
  <1>4. c2 \in Connection
    BY <1>1, <1>2, <1>3, Zenon
  <1>5. c2.on = conn.on /\ c2.from = conn.from /\ c2.lastTS = now /\ c2.tick = now + TailEvery
    BY <1>1, Zenon DEF Connection
  <1>6. QED
    BY <1>1, <1>4, <1>5

LEMMA TailLogsTyped == ASSUME Typed, TailLogs PROVE Typed'
  <1>1. /\ now' = now /\ logs' = logs /\ watermark' = watermark /\ wake' = wake /\ judged' = judged
        /\ late' = late /\ now \in Nat /\ logs \in SUBSET Events /\ sent \in Seq(logs)
    BY TypedFacts DEF TailLogs, sweepVars, Typed, TypeOK
  <1>2. sent' \in Seq(logs)
    <2> DEFINE S == Between(conn.lastTS, now)
    <2>1. S \in SUBSET logs /\ S \in SUBSET Events
      BY <1>1 DEF Between
    <2>2. Capped(S) \in Seq(S)
      BY <2>1, CappedIs
    <2> HIDE DEF S
    <2>3. Capped(S) \in Seq(logs)
      BY <2>1, <2>2, SeqMonotonic
    <2>4. QED
      BY <1>1, <2>3, ConcatProperties DEF TailLogs, S
  <1>3. /\ conn' \in Connection /\ conn'.tick \in now .. now + TailEvery /\ conn'.lastTS \in conn'.from .. now
    BY <1>1, TailIs, TypedFacts, Paces DEF Connection
  <1>4. QED
    BY <1>1, <1>2, <1>3 DEF Typed, TypeOK, FeedTypeOK

LEMMA FailIs ==
  ASSUME Typed, TailFails
  PROVE  /\ conn.on /\ conn' \in Connection /\ conn'.on
         /\ conn'.from = conn.from /\ conn'.lastTS = conn.lastTS /\ conn'.tick = now + TailEvery
  <1>1. conn \in Connection /\ conn.on /\ now + TailEvery \in Nat
    BY TypedFacts, Paces DEF TailFails
  <1>2. QED
    BY <1>1 DEF TailFails, Untouched, Connection

LEMMA TailFailsTyped == ASSUME Typed, TailFails PROVE Typed'
  <1>1. /\ now' = now /\ logs' = logs /\ watermark' = watermark /\ wake' = wake /\ judged' = judged
        /\ late' = late /\ sent' = sent /\ now \in Nat
    BY TypedFacts DEF TailFails, sweepVars
  <1>2. /\ conn' \in Connection /\ conn'.tick \in now .. now + TailEvery /\ conn'.lastTS \in conn'.from .. now
    BY <1>1, FailIs, TypedFacts, Paces DEF Connection
  <1>3. QED
    BY <1>1, <1>2 DEF Typed, TypeOK, FeedTypeOK

LEMMA TypedInit == Init => Typed
  <1> SUFFICES ASSUME Init PROVE Typed
    OBVIOUS
  <1>1. conn \in Connection /\ ~ conn.on
    BY DEF Init, Closed, Connection
  <1>2. now = 0 /\ logs = {} /\ wake = 0 /\ sent = <<>>
    BY DEF Init, FeedInit
  <1>3. now \in 0 .. MaxNow /\ wake \in now .. now + Interval
    BY <1>2, Paces
  <1>4. QED
    BY <1>1, <1>2, <1>3 DEF Init, Typed, TypeOK, FeedTypeOK

LEMMA TypedStep == Typed /\ [Next]_vars => Typed'
  <1> SUFFICES ASSUME Typed, [Next]_vars PROVE Typed'
    OBVIOUS
  <1>1. CASE Next
    BY <1>1, ClockTyped, ArriveTyped, SweepTyped, ConnectTyped, TailLogsTyped, TailFailsTyped DEF Next
  <1>2. CASE UNCHANGED vars
    BY <1>2 DEF vars, Typed, TypeOK, FeedTypeOK
  <1>3. QED
    BY <1>1, <1>2

\* The tickers never fall behind the clock, the watermark stands at the start of
\* a step, and only what is stored is judged or sent.
THEOREM TypeCorrect == Spec => []TypeOK
  <1>1. Typed => TypeOK
    BY DEF Typed
  <1>2. QED
    BY <1>1, TypedInit, TypedStep, PTL DEF Spec

-----------------------------------------------------------------------------
(* Every event is judged in time                                             *)

\* The window in which an event of the log L is first judged.
FirstIn(L, e) ==
  IF Truncate(e.ts) - Step >= Origin(L) THEN Truncate(e.ts) - Step ELSE Truncate(e.ts)

\* The tick that judges the event comes in time, and its window is still ahead
\* of the sweeps.
DueIn(L, e) ==
  /\ wake <= FirstIn(L, e) + 2 * Step + Lag + Interval
  /\ watermark # Unset => watermark <= FirstIn(L, e)

JudgeInv ==
  /\ Typed
  /\ watermark # Unset => watermark + Step < now - Lag
  /\ \A e \in logs \ judged : DueIn(logs, e)

LEMMA FirstInIs ==
  ASSUME NEW L \in SUBSET Events, NEW e \in L
  PROVE  /\ FirstIn(L, e) \in Nat /\ Aligned(FirstIn(L, e))
         /\ Origin(L) \in Nat /\ Origin(L) <= FirstIn(L, e)
         /\ InWindow(e.ts, FirstIn(L, e))
         /\ Truncate(e.ts) \in Nat /\ Truncate(e.ts) <= FirstIn(L, e) + Step
         /\ FirstIn(L, e) <= Truncate(e.ts)
         /\ e.ts \in Nat /\ Truncate(e.ts) <= e.ts /\ e.ts < Truncate(e.ts) + Step
  <1> DEFINE own == Truncate(e.ts)
  <1>1. e.ts \in Nat /\ Step \in Nat \ {0}
    BY Paces, EventsAssumption DEF Event
  <1>2. own \in Nat /\ Aligned(own) /\ own <= e.ts /\ e.ts < own + Step
    BY <1>1, TruncateBounds
  <1>3. PICK g \in L : Origin(L) = Truncate(g.ts) /\ \A h \in L : g.ts <= h.ts
    BY OriginIs, LogRows
  <1>4. g.ts \in Nat /\ g.ts <= e.ts
    BY <1>3, EventsAssumption DEF Event
  <1>5. Origin(L) \in Nat /\ Origin(L) <= own
    BY <1>1, <1>3, <1>4, TruncateBounds, TruncateMonotone
  <1>6. CASE own - Step >= Origin(L)
    <2>1. own - Step \in Nat /\ Aligned(own - Step) /\ FirstIn(L, e) = own - Step
      BY <1>1, <1>2, <1>5, <1>6, PreviousAligned DEF FirstIn
    <2> HIDE DEF own
    <2>2. QED
      BY <1>1, <1>2, <1>5, <1>6, <2>1 DEF InWindow, own
  <1>7. CASE ~ (own - Step >= Origin(L))
    <2>1. FirstIn(L, e) = own
      BY <1>7 DEF FirstIn
    <2> HIDE DEF own
    <2>2. QED
      BY <1>1, <1>2, <1>5, <2>1 DEF InWindow, own
  <1>8. QED
    BY <1>6, <1>7

\* An arrival moves the first window of another event only when it begins the
\* log, and then not before its own step.
LEMMA ArrivalMovesFirst ==
  ASSUME NEW L \in SUBSET Events, NEW e \in L, NEW g \in Events
  PROVE  \/ FirstIn(L \cup {g}, e) = FirstIn(L, e)
         \/ Truncate(g.ts) <= FirstIn(L \cup {g}, e)
  <1> DEFINE M == L \cup {g}
  <1>1. M \in SUBSET Events /\ e \in M /\ g \in M
    OBVIOUS
  <1>2. PICK f \in M : Origin(M) = Truncate(f.ts) /\ \A h \in M : f.ts <= h.ts
    BY <1>1, OriginIs, LogRows
  <1>3. CASE f = g
    BY <1>1, <1>2, <1>3, FirstInIs
  <1>4. CASE f # g
    <2>1. f \in L
      BY <1>2, <1>4
    <2>2. PICK h \in L : Origin(L) = Truncate(h.ts) /\ \A x \in L : h.ts <= x.ts
      BY OriginIs, LogRows
    <2>3. h.ts <= f.ts /\ f.ts <= h.ts /\ h.ts \in Nat /\ f.ts \in Nat
      BY <1>2, <2>1, <2>2, EventsAssumption DEF Event
    <2>4. f.ts = h.ts
      BY <2>3
    <2>5. Origin(M) = Origin(L)
      BY <1>2, <2>2, <2>4
    <2>6. QED
      BY <2>5 DEF FirstIn
  <1>5. QED
    BY <1>3, <1>4

LEMMA JudgeFrame ==
  ASSUME JudgeInv, Typed', logs' = logs, judged' = judged, watermark' = watermark, wake' = wake,
         now' = now \/ now' = now + 1
  PROVE  JudgeInv'
  <1>1. now \in Nat
    BY TypedFacts DEF JudgeInv
  <1>2. watermark' # Unset => watermark' + Step < now' - Lag
    <2>1. watermark # Unset => watermark \in Nat
      BY DEF JudgeInv, Typed, TypeOK
    <2>2. QED
      BY <1>1, <2>1, Paces DEF JudgeInv
  <1>3. ASSUME NEW e \in logs \ judged
        PROVE  DueIn(logs, e)'
    BY <1>3 DEF JudgeInv, DueIn, FirstIn
  <1>4. QED
    BY <1>2, <1>3 DEF JudgeInv

LEMMA ArriveJudge ==
  ASSUME JudgeInv, NEW g \in Events, Arrive(g)
  PROVE  JudgeInv'
  <1>1. /\ Typed /\ Typed' /\ now \in Nat /\ logs \in SUBSET Events /\ wake \in Nat /\ wake <= now + Interval
        /\ logs' = logs \cup {g} /\ now' = now /\ watermark' = watermark /\ wake' = wake /\ judged' = judged
        /\ now <= g.ts + Lag
    BY ArriveTyped, TypedFacts DEF JudgeInv, Arrive, sweepVars
  <1> DEFINE own == Truncate(g.ts)
  <1>2. g.ts \in Nat /\ own \in Nat /\ Aligned(own) /\ own <= g.ts /\ g.ts < own + Step
    BY TruncateBounds, EventsAssumption DEF Event
  <1> HIDE DEF own
  <1>3. watermark # Unset => watermark \in Nat /\ Aligned(watermark) /\ watermark + Step < now - Lag
    BY <1>1 DEF JudgeInv, Typed, TypeOK
  <1>4. watermark # Unset => watermark + Step <= own
    <2> SUFFICES ASSUME watermark # Unset, own < watermark + Step
                 PROVE  FALSE
      BY <1>2, <1>3, Paces
    <2>1. watermark + Step < g.ts /\ watermark < own
      BY <1>1, <1>2, <1>3, Paces
    <2>2. own = watermark
      BY <1>2, <1>3, <2>1, AlignedApart, Paces
    <2>3. QED
      BY <1>2, <1>3, <2>1, <2>2
  <1>5. ASSUME NEW e \in logs', own <= FirstIn(logs', e) + Step,
               e = g \/ own <= FirstIn(logs', e)
        PROVE  DueIn(logs', e)
    <2>1. FirstIn(logs', e) \in Nat
      BY <1>1, FirstInIs
    <2>2. QED
      BY <1>1, <1>2, <1>3, <1>4, <1>5, <2>1, Paces DEF DueIn
  <1>6. ASSUME NEW e \in logs' \ judged
        PROVE  DueIn(logs', e)
    <2>1. CASE e = g
      <3>1. own <= FirstIn(logs', e) + Step
        BY <1>1, <2>1, FirstInIs DEF own
      <3>2. QED
        BY <1>5, <2>1, <3>1
    <2>2. CASE e # g
      <3>1. e \in logs \ judged
        BY <1>1, <2>2
      <3>2. DueIn(logs, e)
        BY <3>1 DEF JudgeInv
      <3>3. CASE FirstIn(logs', e) = FirstIn(logs, e)
        BY <3>2, <3>3 DEF DueIn
      <3>4. CASE own <= FirstIn(logs', e)
        <4>1. FirstIn(logs', e) \in Nat
          BY <1>1, FirstInIs
        <4>2. QED
          BY <1>2, <1>5, <3>4, <4>1, Paces
      <3>5. QED
        BY <1>1, <3>1, <3>3, <3>4, ArrivalMovesFirst DEF own
    <2>3. QED
      BY <2>1, <2>2
  <1>7. \A e \in logs' \ judged' : DueIn(logs, e)'
    BY <1>1, <1>6 DEF DueIn, FirstIn
  <1>8. QED
    BY <1>1, <1>3, <1>7 DEF JudgeInv

LEMMA SweepJudge ==
  ASSUME JudgeInv, Sweep
  PROVE  JudgeInv'
  <1>1. /\ Typed /\ Typed' /\ now \in Nat /\ now <= MaxNow /\ logs \in SUBSET Events
        /\ now = wake /\ wake' = now + Interval /\ now' = now /\ logs' = logs
    BY SweepTyped, SweepSame, TypedFacts DEF JudgeInv
  <1>2. watermark # Unset => watermark \in Nat /\ Aligned(watermark) /\ watermark + Step < now - Lag
    BY DEF JudgeInv, Typed, TypeOK
  <1>3. CASE watermark = Unset /\ logs = {}
    <2>1. watermark' = Unset /\ judged' = judged
      BY <1>1, <1>3, SweepSame
    <2>2. QED
      BY <1>1, <1>3, <2>1 DEF JudgeInv
  <1>4. CASE watermark # Unset \/ logs # {}
    <2> DEFINE swept == {t \in Start .. MaxNow : Aligned(t) /\ Settled(t, now)}
    <2>1. /\ judged' = judged \cup UNION {WindowEvents(logs, t) : t \in swept}
          /\ swept = {} => watermark' = watermark
          /\ swept # {} => \E last \in swept : watermark' = last + Step /\ \A t \in swept : t <= last
      BY <1>1, <1>4, SweepIs
    <2>2. Start \in Nat /\ Aligned(Start)
      BY <1>1, <1>4, StartType
    <2>3. \A t \in swept : t \in Nat /\ Aligned(t) /\ Settled(t, now)
      BY <2>2
    <2>4. ASSUME NEW t \in Nat, Start <= t, Aligned(t), Settled(t, now)
          PROVE  t \in swept
      BY <1>1, <2>2, <2>4, Paces DEF Settled
    <2> HIDE DEF swept
    <2>5. ASSUME NEW e \in logs \ judged'
          PROVE  /\ FirstIn(logs, e) \in Nat /\ Aligned(FirstIn(logs, e))
                 /\ ~ Settled(FirstIn(logs, e), now)
      <3>1. /\ FirstIn(logs, e) \in Nat /\ Aligned(FirstIn(logs, e)) /\ InWindow(e.ts, FirstIn(logs, e))
            /\ Origin(logs) <= FirstIn(logs, e)
        BY <1>1, FirstInIs
      <3>2. Start <= FirstIn(logs, e)
        BY <2>1, <3>1 DEF JudgeInv, DueIn, Start
      <3>3. FirstIn(logs, e) \notin swept
        BY <2>1, <3>1 DEF WindowEvents
      <3>4. QED
        BY <2>4, <3>1, <3>2, <3>3
    <2>6. watermark' # Unset => watermark' + Step < now - Lag
      <3>1. CASE swept = {}
        BY <1>2, <2>1, <3>1
      <3>2. CASE swept # {}
        BY <1>1, <2>1, <2>3, <3>2, Paces DEF Settled
      <3>3. QED
        BY <3>1, <3>2
    <2>7. ASSUME NEW e \in logs \ judged'
          PROVE  watermark' # Unset => watermark' <= FirstIn(logs, e)
      <3>1. CASE swept = {}
        BY <2>1, <2>7, <3>1 DEF JudgeInv, DueIn
      <3>2. CASE swept # {}
        <4>1. PICK last \in swept : watermark' = last + Step
          BY <2>1, <3>2
        <4> DEFINE t == FirstIn(logs, e)
        <4>2. t \in Nat /\ Aligned(t) /\ ~ Settled(t, now)
          BY <2>5, <2>7
        <4> HIDE DEF t
        <4>3. last \in Nat /\ Aligned(last) /\ Settled(last, now)
          BY <2>3
        <4>4. last < t
          BY <1>1, <4>2, <4>3, Paces DEF Settled
        <4>5. ~ (t < last + Step)
          <5> SUFFICES ASSUME t < last + Step PROVE FALSE
            OBVIOUS
          <5>1. t = last
            BY <4>2, <4>3, <4>4, AlignedApart, Paces
          <5>2. QED
            BY <4>3, <4>4, <5>1
        <4>6. QED
          BY <4>1, <4>2, <4>3, <4>5, Paces DEF t
      <3>3. QED
        BY <3>1, <3>2
    <2>8. ASSUME NEW e \in logs \ judged'
          PROVE  wake' <= FirstIn(logs, e) + 2 * Step + Lag + Interval
      BY <1>1, <2>5, <2>8, Paces DEF Settled
    <2>9. \A e \in logs' \ judged' : DueIn(logs, e)'
      BY <1>1, <2>7, <2>8 DEF DueIn, FirstIn
    <2>10. QED
      BY <1>1, <2>6, <2>9 DEF JudgeInv
  <1>5. QED
    BY <1>3, <1>4

LEMMA JudgeInit == Init => JudgeInv
  BY TypedInit DEF Init, FeedInit, JudgeInv

LEMMA JudgeStep == JudgeInv /\ [Next]_vars => JudgeInv'
  <1> SUFFICES ASSUME JudgeInv, [Next]_vars PROVE JudgeInv'
    OBVIOUS
  <1>1. Typed'
    BY TypedStep DEF JudgeInv
  <1>2. CASE Clock
    BY <1>1, <1>2, JudgeFrame DEF Clock, Tick, sweepVars
  <1>3. CASE \E e \in Events : Arrive(e)
    BY <1>3, ArriveJudge
  <1>4. CASE Sweep
    BY <1>4, SweepJudge
  <1>5. CASE Connect \/ Disconnect \/ TailLogs \/ TailFails
    BY <1>1, <1>5, JudgeFrame DEF Connect, Disconnect, TailLogs, TailFails, sweepVars
  <1>6. CASE UNCHANGED vars
    BY <1>1, <1>6, JudgeFrame DEF vars
  <1>7. QED
    BY <1>2, <1>3, <1>4, <1>5, <1>6 DEF Next

\* No event waits longer for its verdict than a sweep interval after its first
\* window has settled, whatever arrives late and whenever the sweeps began.
THEOREM JudgedPromptly == Spec => []JudgedInTime
  <1>1. ASSUME JudgeInv
        PROVE  JudgedInTime
    <2> SUFFICES ASSUME NEW e \in logs \ judged
                 PROVE  now <= FirstWindow(e) + 2 * Step + Lag + Interval
      BY DEF JudgedInTime
    <2>1. FirstWindow(e) = FirstIn(logs, e)
      BY DEF FirstWindow, FirstIn
    <2>2. FirstIn(logs, e) \in Nat /\ now \in Nat /\ wake \in Nat /\ now <= wake
      BY <1>1, FirstInIs, TypedFacts DEF JudgeInv
    <2>3. wake <= FirstIn(logs, e) + 2 * Step + Lag + Interval
      BY <1>1 DEF JudgeInv, DueIn
    <2>4. QED
      BY <2>1, <2>2, <2>3, Paces
  <1>2. QED
    BY <1>1, JudgeInit, JudgeStep, PTL DEF Spec

-----------------------------------------------------------------------------
(* The stream sends every event once, in order                               *)

StreamInv ==
  /\ Typed
  /\ ~ conn.on => sent = <<>>
  /\ conn.on => \A n \in DOMAIN sent : sent[n].ts < conn.lastTS
  /\ SentOnceInOrder
  /\ NothingSkipped

\* What follows an event on the connection.
Newer(s, e) == {n \in DOMAIN s : Sooner(e, s[n])}

LEMMA NewerFinite ==
  ASSUME NEW S, NEW s \in Seq(S), NEW e
  PROVE  IsFiniteSet(Newer(s, e)) /\ Cardinality(Newer(s, e)) \in Nat
  <1>1. IsFiniteSet(1 .. Len(s)) /\ DOMAIN s = 1 .. Len(s)
    BY FS_Interval
  <1>2. Newer(s, e) \in SUBSET (1 .. Len(s))
    BY <1>1 DEF Newer
  <1>3. QED
    BY <1>1, <1>2, FS_Subset, FS_CardinalityType

\* The connection is as it was, and nothing was stored that its tail has passed.
LEMMA StreamFrame ==
  ASSUME StreamInv, Typed', sent' = sent, conn'.on = conn.on, conn'.from = conn.from,
         conn'.lastTS = conn.lastTS,
         \A e \in logs' \ late' : e \in logs \ late \/ (conn.on => conn.lastTS <= e.ts)
  PROVE  StreamInv'
  <1>1. conn.on => conn.lastTS \in Int
    BY TypedFacts DEF StreamInv, Connection
  <1>2. SentOnceInOrder'
    BY DEF StreamInv, SentOnceInOrder
  <1>3. ASSUME NEW e \in logs' \ late', conn.on, conn.from <= e.ts, e.ts < conn.lastTS
        PROVE  (\E n \in DOMAIN sent : sent[n] = e) \/ Cardinality(Newer(sent, e)) >= MaxBatch
    <2>1. e.ts \in Nat
      BY EventsAssumption DEF Typed, TypeOK, FeedTypeOK, Event
    <2>2. e \in logs \ late
      BY <1>1, <1>3, <2>1
    <2>3. QED
      BY <1>3, <2>2 DEF StreamInv, NothingSkipped, Newer
  <1>4. NothingSkipped'
    BY <1>3 DEF NothingSkipped, Newer
  <1>5. QED
    BY <1>2, <1>4 DEF StreamInv

LEMMA ArriveStream ==
  ASSUME StreamInv, NEW g \in Events, Arrive(g)
  PROVE  StreamInv'
  <1>1. Typed' /\ logs' = logs \cup {g} /\ conn' = conn /\ sent' = sent
    BY ArriveTyped DEF StreamInv, Arrive
  <1>2. late' = IF conn.on /\ g.ts < conn.lastTS THEN late \cup {g} ELSE late
    BY DEF Arrive
  <1>3. g.ts \in Nat /\ conn.lastTS \in Int
    BY TypedFacts, EventsAssumption DEF StreamInv, Connection, Event
  <1>4. ASSUME NEW e \in logs' \ late', ~ (e \in logs \ late), conn.on
        PROVE  conn.lastTS <= e.ts
    BY <1>1, <1>2, <1>3, <1>4
  <1>5. QED
    BY <1>1, <1>4, StreamFrame

LEMMA ConnectStream ==
  ASSUME StreamInv, Connect \/ Disconnect
  PROVE  StreamInv'
  <1>1. Typed' /\ sent' = <<>> /\ DOMAIN sent' = {}
    BY ConnectTyped DEF StreamInv, Connect, Disconnect
  <1>2. conn'.on => conn'.from = conn'.lastTS /\ conn'.from \in Int
    BY TypedFacts, Paces DEF StreamInv, Connect, Disconnect, Closed
  <1>3. NothingSkipped'
    <2> SUFFICES ASSUME NEW e \in logs', conn'.on, conn'.from <= e.ts, e.ts < conn'.lastTS
                 PROVE  FALSE
      BY DEF NothingSkipped
    <2>1. e.ts \in Nat
      BY <1>1, EventsAssumption DEF Typed, TypeOK, FeedTypeOK, Event
    <2>2. QED
      BY <1>2, <2>1
  <1>4. QED
    BY <1>1, <1>3 DEF StreamInv, SentOnceInOrder

LEMMA TailStream ==
  ASSUME StreamInv, TailLogs
  PROVE  StreamInv'
  <1> DEFINE S == Between(conn.lastTS, now)
             s == Capped(S)
             L == Len(sent)
  <1>1. /\ Typed /\ Typed' /\ logs' = logs /\ late' = late /\ sent \in Seq(logs) /\ sent' \in Seq(logs)
        /\ logs \in SUBSET Events /\ now \in Nat /\ conn.lastTS \in Int /\ conn.lastTS <= now
        /\ conn.on /\ conn'.on /\ conn'.from = conn.from /\ conn'.lastTS = now
    BY TailLogsTyped, TailIs, TypedFacts DEF StreamInv, TailLogs, Typed, TypeOK, Connection
  <1>2. S \in SUBSET logs /\ S \in SUBSET Events
    BY <1>1 DEF Between
  <1>3. ASSUME NEW e \in logs
        PROVE  e.ts \in Nat /\ (e \in S <=> conn.lastTS <= e.ts /\ e.ts < now)
    BY <1>1, EventsAssumption DEF Between, Event
  <1> HIDE DEF S
  <1>4. /\ s \in Seq(S)
        /\ \A m, n \in DOMAIN s : m < n => Sooner(s[m], s[n])
        /\ \A e \in S : \/ \E n \in DOMAIN s : s[n] = e
                        \/ Len(s) = MaxBatch /\ \A n \in DOMAIN s : Sooner(e, s[n])
    BY <1>2, CappedIs
  <1>5. sent' = sent \o s
    BY DEF TailLogs, S
  <1> HIDE DEF s
  <1>6. s \in Seq(logs) /\ L \in Nat /\ Len(s) \in Nat /\ DOMAIN sent = 1 .. L /\ DOMAIN s = 1 .. Len(s)
    BY <1>1, <1>2, <1>4, SeqMonotonic
  <1>7. /\ DOMAIN sent' = 1 .. L + Len(s)
        /\ \A n \in 1 .. L : sent'[n] = sent[n]
        /\ \A n \in 1 .. Len(s) : L + n \in 1 .. L + Len(s) /\ sent'[L + n] = s[n]
        /\ \A n \in 1 .. L + Len(s) : n \notin 1 .. L =>
             n - L \in 1 .. Len(s) /\ sent'[n] = s[n - L]
    <2>1. /\ Len(sent') = L + Len(s)
          /\ \A n \in 1 .. L + Len(s) : sent'[n] = IF n <= L THEN sent[n] ELSE s[n - L]
      BY <1>1, <1>5, <1>6, ConcatProperties
    <2>2. DOMAIN sent' = 1 .. L + Len(s)
      BY <1>1, <2>1
    <2> HIDE DEF L
    <2>3. QED
      BY <1>6, <2>1, <2>2
  <1> HIDE DEF L
  <1>8. /\ \A n \in 1 .. L : sent[n] \in logs /\ sent[n].ts < conn.lastTS
        /\ \A n \in 1 .. Len(s) : s[n] \in S /\ s[n] \in logs
    BY <1>1, <1>2, <1>4, <1>6 DEF StreamInv
  <1>9. \A n \in DOMAIN sent' : sent'[n].ts < conn'.lastTS
    <2>1. ASSUME NEW n \in 1 .. L
          PROVE  sent'[n].ts < now
      BY <1>1, <1>3, <1>7, <1>8
    <2>2. ASSUME NEW n \in 1 .. L + Len(s), n \notin 1 .. L
          PROVE  sent'[n].ts < now
      BY <1>3, <1>7, <1>8, <2>2
    <2>3. QED
      BY <1>1, <1>7, <2>1, <2>2
  <1>10. ASSUME NEW m \in 1 .. L + Len(s), NEW n \in 1 .. L + Len(s), m < n
         PROVE  Sooner(sent'[m], sent'[n])
    <2>1. CASE m \in 1 .. L /\ n \in 1 .. L
      BY <1>6, <1>7, <1>10, <2>1 DEF StreamInv, SentOnceInOrder
    <2>2. CASE m \in 1 .. L /\ n \notin 1 .. L
      <3>1. sent'[m] = sent[m] /\ sent[m].ts < conn.lastTS /\ sent[m].ts \in Nat
        BY <1>3, <1>7, <1>8, <2>2
      <3>2. sent'[n] \in S /\ conn.lastTS <= sent'[n].ts /\ sent'[n].ts \in Nat
        BY <1>3, <1>7, <1>8, <2>2
      <3>3. QED
        BY <1>1, <3>1, <3>2 DEF Sooner
    <2>3. CASE m \notin 1 .. L
      <3>1. n \notin 1 .. L
        BY <1>6, <1>10, <2>3
      <3>2. /\ m - L \in 1 .. Len(s) /\ sent'[m] = s[m - L]
            /\ n - L \in 1 .. Len(s) /\ sent'[n] = s[n - L] /\ m - L < n - L
        BY <1>6, <1>7, <1>10, <2>3, <3>1
      <3>3. QED
        BY <1>4, <1>6, <3>2
    <2>4. QED
      BY <2>1, <2>2, <2>3
  <1>11. SentOnceInOrder'
    BY <1>7, <1>10 DEF SentOnceInOrder
  <1>12. ASSUME NEW e \in logs \ late, conn.from <= e.ts, e.ts < now
         PROVE  (\E n \in DOMAIN sent' : sent'[n] = e) \/ Cardinality(Newer(sent', e)) >= MaxBatch
    <2>1. /\ IsFiniteSet(Newer(sent', e)) /\ Cardinality(Newer(sent', e)) \in Nat
          /\ Cardinality(Newer(sent, e)) \in Nat
      BY <1>1, NewerFinite
    <2>2. CASE e.ts < conn.lastTS
      <3>1. (\E n \in DOMAIN sent : sent[n] = e) \/ Cardinality(Newer(sent, e)) >= MaxBatch
        BY <1>1, <1>12, <2>2 DEF StreamInv, NothingSkipped, Newer
      <3>2. Newer(sent, e) \in SUBSET Newer(sent', e)
        BY <1>6, <1>7 DEF Newer
      <3>3. Cardinality(Newer(sent, e)) <= Cardinality(Newer(sent', e))
        BY <2>1, <3>2, FS_Subset
      <3>4. DOMAIN sent \subseteq DOMAIN sent' /\ \A n \in DOMAIN sent : sent'[n] = sent[n]
        BY <1>6, <1>7
      <3>5. QED
        BY <2>1, <3>1, <3>3, <3>4, Paces
    <2>3. CASE ~ (e.ts < conn.lastTS)
      <3>1. e \in S
        BY <1>1, <1>3, <1>12, <2>3
      <3>2. CASE \E n \in DOMAIN s : s[n] = e
        BY <1>6, <1>7, <3>2
      <3>3. CASE Len(s) = MaxBatch /\ \A n \in DOMAIN s : Sooner(e, s[n])
        <4> DEFINE tail == L + 1 .. L + Len(s)
        <4>1. \A n \in tail : n \in 1 .. L + Len(s) /\ n \notin 1 .. L
          BY <1>6
        <4>2. tail \in SUBSET Newer(sent', e)
          BY <1>6, <1>7, <3>3, <4>1 DEF Newer
        <4>3. Cardinality(tail) = Len(s)
          <5> DEFINE a == L + 1
                     b == L + Len(s)
          <5>1. a \in Int /\ b \in Int /\ b - a + 1 = Len(s) /\ (a > b => Len(s) = 0)
            BY <1>6
          <5>2. tail = a .. b
            OBVIOUS
          <5> HIDE DEF tail, a, b
          <5>3. Cardinality(a .. b) = IF a > b THEN 0 ELSE b - a + 1
            BY <5>1, FS_Interval
          <5>4. QED
            BY <5>1, <5>2, <5>3
        <4> HIDE DEF tail
        <4>4. Cardinality(tail) <= Cardinality(Newer(sent', e))
          BY <2>1, <4>2, FS_Subset
        <4>5. QED
          BY <2>1, <3>3, <4>3, <4>4, Paces
      <3>4. QED
        BY <1>4, <3>1, <3>2, <3>3
    <2>4. QED
      BY <2>2, <2>3
  <1>13. NothingSkipped'
    BY <1>1, <1>12 DEF NothingSkipped, Newer
  <1>14. QED
    BY <1>1, <1>9, <1>11, <1>13 DEF StreamInv

LEMMA StreamInit == Init => StreamInv
  <1> SUFFICES ASSUME Init PROVE StreamInv
    OBVIOUS
  <1>1. Typed /\ sent = <<>> /\ DOMAIN sent = {} /\ logs = {}
    BY TypedInit DEF Init, FeedInit
  <1>2. ~ conn.on
    BY DEF Init, Closed
  <1>3. QED
    BY <1>1, <1>2 DEF StreamInv, SentOnceInOrder, NothingSkipped

LEMMA StreamStep == StreamInv /\ [Next]_vars => StreamInv'
  <1> SUFFICES ASSUME StreamInv, [Next]_vars PROVE StreamInv'
    OBVIOUS
  <1>1. Typed /\ Typed'
    BY TypedStep DEF StreamInv
  <1>2. CASE Clock \/ Sweep \/ UNCHANGED vars
    <2>1. logs' = logs /\ late' = late /\ conn' = conn /\ sent' = sent
      BY <1>2, <1>1, SweepSame DEF Clock, Tick, streamVars, vars
    <2>2. QED
      BY <1>1, <2>1, StreamFrame
  <1>3. CASE \E e \in Events : Arrive(e)
    BY <1>3, ArriveStream
  <1>4. CASE Connect \/ Disconnect
    BY <1>4, ConnectStream
  <1>5. CASE TailLogs
    BY <1>5, TailStream
  <1>6. CASE TailFails
    <2>1. logs' = logs /\ late' = late /\ sent' = sent
      BY <1>6 DEF TailFails
    <2>2. conn.on /\ conn'.on /\ conn'.from = conn.from /\ conn'.lastTS = conn.lastTS
      BY <1>1, <1>6, FailIs
    <2>3. QED
      BY <1>1, <2>1, <2>2, StreamFrame DEF StreamInv, Typed, Connection
  <1>7. QED
    BY <1>2, <1>3, <1>4, <1>5, <1>6 DEF Next

\* On one connection no event comes twice, and none before an earlier one.
THEOREM InOrderOnTheStream == Spec => []SentOnceInOrder
  <1>1. StreamInv => SentOnceInOrder
    BY DEF StreamInv
  <1>2. QED
    BY <1>1, StreamInit, StreamStep, PTL DEF Spec

\* Whatever queries fail, an event that the tail has passed was sent, unless it
\* was stored behind the tail or made room for maxBatch newer ones.
THEOREM NoneSkippedOnTheStream == Spec => []NothingSkipped
  <1>1. StreamInv => NothingSkipped
    BY DEF StreamInv
  <1>2. QED
    BY <1>1, StreamInit, StreamStep, PTL DEF Spec

=============================================================================
