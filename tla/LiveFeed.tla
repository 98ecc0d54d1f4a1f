------------------------------ MODULE LiveFeed ------------------------------
(***************************************************************************)
(* The live feed in time: one server whose sweeps are prompt, on the       *)
(* ticker of RunLive (internal/pipeline), and a browser's connection to    *)
(* the SSE stream (stream of internal/api/api.go), which tails the logs    *)
(* table.  Time advances only when no ticker is due.  Unlike LogFeed's     *)
(* collectors, a seeder may store an event before its time.                *)
(***************************************************************************)
EXTENDS LogFeed, Sequences

CONSTANTS
  Interval,    \* SWEEP_INTERVAL
  TailEvery,   \* the stream's tick, 2 s
  Lookback,    \* how far before the connection its tail begins, 30 s
  MaxBatch     \* maxBatch, 50

ASSUME PaceAssumption ==
  /\ {Interval, TailEvery, MaxBatch} \subseteq Nat \ {0} /\ Lookback \in Nat

VARIABLES
  watermark,
  wake,        \* when RunLive's ticker fires next
  judged,      \* the events that a sweep has read
  conn,        \* the connection: its tail stands at lastTS and reads at tick
  sent,        \* the log events sent on it, in order
  late         \* the events that were stored behind its tail

sweepVars  == <<watermark, wake, judged>>
streamVars == <<conn, sent, late>>
vars == <<now, logs, watermark, wake, judged, conn, sent, late>>

Closed == [on |-> FALSE, from |-> 0, lastTS |-> 0, tick |-> 0]

Init ==
  /\ FeedInit
  /\ watermark = Unset /\ wake = 0 /\ judged = {}
  /\ conn = Closed /\ sent = <<>> /\ late = {}

Clock ==
  /\ now < wake /\ (conn.on => now < conn.tick)
  /\ Tick
  /\ UNCHANGED <<sweepVars, streamVars>>

Arrive(e) ==
  /\ e \notin logs /\ now <= e.ts + Lag
  /\ logs' = logs \cup {e}
  /\ late' = IF conn.on /\ e.ts < conn.lastTS THEN late \cup {e} ELSE late
  /\ UNCHANGED <<now, sweepVars, conn, sent>>

-----------------------------------------------------------------------------
(* RunLive: the windows that are settled at this tick *)

\* A mutant of SweptFrom: one window per tick.
OneWindow(start) == {start} \cap {t \in 0 .. MaxNow : Settled(t, now)}

SweptFrom(start) == {t \in start .. MaxNow : Aligned(t) /\ Settled(t, now)}

\* A mutant of NextWake: a tick is lost.
WakeLate == now + 2 * Interval

NextWake == now + Interval

Sweep ==
  /\ now = wake
  /\ wake' = NextWake
  /\ IF watermark = Unset /\ logs = {} THEN UNCHANGED <<watermark, judged>>
     ELSE LET start == IF watermark = Unset THEN Origin(logs) ELSE watermark
              Swept == SweptFrom(start)
          IN /\ judged' = judged \cup UNION {WindowEvents(logs, t) : t \in Swept}
             /\ watermark' = IF Swept = {} THEN watermark ELSE Max(Swept) + Step
  /\ UNCHANGED <<now, logs, streamVars>>

-----------------------------------------------------------------------------
(* stream *)

\* An EventSource that connects, or reconnects, gets a tail of its own.
Connect ==
  /\ ~conn.on
  /\ conn' = [on |-> TRUE, from |-> now - Lookback, lastTS |-> now - Lookback,
              tick |-> now + TailEvery]
  /\ sent' = <<>> /\ late' = {}
  /\ UNCHANGED <<now, logs, sweepVars>>

Disconnect ==
  /\ conn.on /\ conn' = Closed
  /\ sent' = <<>> /\ late' = {}
  /\ UNCHANGED <<now, logs, sweepVars>>

\* A mutant of Between: an event on the boundary belongs to two reads.
BetweenClosed(from, to) == {e \in logs : from <= e.ts /\ e.ts <= to}

\* WindowEvents(lastTS, now)
Between(from, to) == {e \in logs : from <= e.ts /\ e.ts < to}

Sooner(e, f) == e.ts < f.ts \/ (e.ts = f.ts /\ e.id < f.id)

\* The n-th event of a read has n - 1 before it.
Ascending(S) ==
  [n \in 1 .. Cardinality(S) |-> CHOOSE e \in S : Cardinality({f \in S : Sooner(f, e)}) = n - 1]

\* The newest maxBatch events of a read, in order.
Capped(S) ==
  LET all == Ascending(S)
  IN SubSeq(all, Max({1, Len(all) - MaxBatch + 1}), Len(all))

TailLogs ==
  /\ conn.on /\ now = conn.tick
  /\ sent' = sent \o Capped(Between(conn.lastTS, now))
  /\ conn' = [conn EXCEPT !.lastTS = now, !.tick = now + TailEvery]
  /\ UNCHANGED <<now, logs, sweepVars, late>>

\* A mutant of Untouched: the tail moves on although its query failed.
MovedOn(c) == [c EXCEPT !.lastTS = now, !.tick = now + TailEvery]

\* "continue": the next tick reads from where this one should have.
Untouched(c) == [c EXCEPT !.tick = now + TailEvery]

TailFails ==
  /\ conn.on /\ now = conn.tick
  /\ conn' = Untouched(conn)
  /\ UNCHANGED <<now, logs, sweepVars, sent, late>>

Next ==
  \/ Clock \/ \E e \in Events : Arrive(e)
  \/ Sweep
  \/ Connect \/ Disconnect \/ TailLogs \/ TailFails

Spec == Init /\ [][Next]_vars

-----------------------------------------------------------------------------
(* Properties *)

TypeOK ==
  /\ FeedTypeOK
  /\ watermark = Unset \/ (watermark \in Nat /\ Aligned(watermark))
  /\ wake \in now .. now + Interval
  /\ judged \subseteq logs
  /\ conn.on => conn.tick \in now .. now + TailEvery /\ conn.lastTS \in conn.from .. now
  /\ sent \in Seq(logs) /\ late \subseteq logs

\* The window in which an event is first judged: the one before its own, unless
\* the sweeps began with its own.
FirstWindow(e) ==
  LET own == Truncate(e.ts) IN IF own - Step >= Origin(logs) THEN own - Step ELSE own

\* An event is judged at the first tick after its first window has settled: at
\* most a step, the settling lag and a sweep interval after it happened, two
\* steps at the start of the log.
JudgedInTime ==
  \A e \in logs \ judged : now <= FirstWindow(e) + 2 * Step + Lag + Interval

\* "In live mode, detection latency is bounded by SWEEP_INTERVAL + DETECT_LAG"
\* (README), which the metrics endpoint reports as well.
LatencyAsDocumented == \A e \in logs \ judged : now <= e.ts + Lag + Interval

\* "new logs tail in as their event time passes" (LiveFeed of the dashboard): on
\* one connection no event is sent twice, and none before an earlier one.
SentOnceInOrder == \A m, n \in DOMAIN sent : m < n => Sooner(sent[m], sent[n])

\* ... and none is passed over, although queries fail and ticks are missed: what
\* the tail has passed was sent, unless it was stored behind the tail or made
\* room for maxBatch newer events.
NothingSkipped ==
  \A e \in logs \ late : conn.on /\ conn.from <= e.ts /\ e.ts < conn.lastTS =>
    \/ \E n \in DOMAIN sent : sent[n] = e
    \/ Cardinality({n \in DOMAIN sent : Sooner(e, sent[n])}) >= MaxBatch

=============================================================================
