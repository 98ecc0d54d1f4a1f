------------------------ MODULE LivePipelineProofs ------------------------
(***************************************************************************)
(* Proofs about LivePipeline: its types; what no fault takes away, the     *)
(* rule findings and the vetting of trusted origins; that the lease keeps  *)
(* every instance but one out of liveStep; and that the pipeline           *)
(* implements SweepSpec: as long as nothing worse happens than crashes,    *)
(* failing queries, failing lease commands and failing resets, the         *)
(* instances together sweep as the batch evaluation does, by the baselines *)
(* of exactly the history before each window.                              *)
(***************************************************************************)
EXTENDS LivePipeline, DetectionProofs

-----------------------------------------------------------------------------
(* The log *)

\* The rows of logs are finitely many events.
LEMMA LogRows ==
  ASSUME NEW L \in SUBSET Events
  PROVE  L \in EventSets
  BY FS_Subset, EventsAssumption DEF EventSets

\* What arrives in time changes no settled window and none of its history.
LEMMA IngestKeepsSettled ==
  ASSUME FeedTypeOK, NEW e \in Events, Ingest(e), NEW t \in Nat, Settled(t, now)
  PROVE  /\ WindowEvents(logs', t) = WindowEvents(logs, t)
         /\ Before(logs', t) = Before(logs, t)
         /\ Before(logs', t + Step) = Before(logs, t + Step)
  <1>1. e.ts \in Nat /\ now \in Nat /\ now <= e.ts + Lag
    BY EventsAssumption, ClockAssumption DEF Event, Ingest, FeedTypeOK
  <1>2. ~ (e.ts < t + 2 * Step)
    BY <1>1, StepAssumption, LagAssumption DEF Settled
  <1>3. logs' = logs \cup {e}
    BY DEF Ingest
  <1>4. ~ InWindow(e.ts, t) /\ ~ (e.ts < t) /\ ~ (e.ts < t + Step)
    BY <1>1, <1>2, StepAssumption DEF InWindow
  <1>5. QED
    BY <1>3, <1>4 DEF WindowEvents, Before

\* The sweep's origin moves only as long as its window has not settled.
LEMMA IngestKeepsOrigin ==
  ASSUME FeedTypeOK, NEW e \in Events, Ingest(e), logs # {}
  PROVE  Origin(logs') = Origin(logs) \/ ~ Settled(Origin(logs'), now)
  <1>1. logs' = logs \cup {e} /\ logs \in SUBSET Events /\ now \in Nat
    BY ClockAssumption DEF Ingest, FeedTypeOK
  <1>2. PICK f \in logs' : Origin(logs') = Truncate(f.ts) /\ \A g \in logs' : f.ts <= g.ts
    BY <1>1, OriginIs, LogRows
  <1>3. CASE f = e
    <2>1. e.ts \in Nat /\ now <= e.ts + Lag
      BY EventsAssumption DEF Event, Ingest
    <2>2. Truncate(e.ts) \in Nat /\ e.ts < Truncate(e.ts) + Step
      BY <2>1, TruncateBounds
    <2>3. ~ Settled(Truncate(e.ts), now)
      BY <1>1, <2>1, <2>2, StepAssumption, LagAssumption DEF Settled
    <2>4. QED
      BY <1>2, <1>3, <2>3
  <1>4. CASE f # e
    <2>1. PICK g \in logs : Origin(logs) = Truncate(g.ts) /\ \A h \in logs : g.ts <= h.ts
      BY <1>1, OriginIs, LogRows
    <2>2. f.ts <= g.ts /\ g.ts <= f.ts /\ f.ts \in Nat /\ g.ts \in Nat
      BY <1>1, <1>2, <1>4, <2>1, EventsAssumption DEF Event
    <2>3. f.ts = g.ts
      BY <2>2
    <2>4. QED
      BY <1>2, <2>1, <2>3
  <1>5. QED
    BY <1>3, <1>4

LEMMA OriginFalls ==
  ASSUME FeedTypeOK, NEW e \in Events, Ingest(e), logs # {}
  PROVE  Origin(logs') <= Origin(logs)
  <1>1. logs' = logs \cup {e} /\ logs \in SUBSET Events
    BY DEF Ingest, FeedTypeOK
  <1>2. PICK f \in logs' : Origin(logs') = Truncate(f.ts) /\ \A g \in logs' : f.ts <= g.ts
    BY <1>1, OriginIs, LogRows
  <1>3. PICK g \in logs : Origin(logs) = Truncate(g.ts)
    BY <1>1, OriginIs, LogRows
  <1>4. f.ts \in Nat /\ g.ts \in Nat /\ f.ts <= g.ts
    BY <1>1, <1>2, EventsAssumption DEF Event
  <1>5. QED
    BY <1>2, <1>3, <1>4, TruncateMonotone

LEMMA IngestKeepsBefore ==
  ASSUME FeedTypeOK, NEW e \in Events, Ingest(e), NEW t \in Nat, t < now - Lag
  PROVE  Before(logs', t) = Before(logs, t)
  <1>1. e.ts \in Nat /\ now \in Nat /\ now <= e.ts + Lag
    BY EventsAssumption, ClockAssumption DEF Event, Ingest, FeedTypeOK
  <1>2. ~ (e.ts < t)
    BY <1>1, LagAssumption
  <1>3. QED
    BY <1>2 DEF Ingest, Before

\* Once the window at the origin has settled, nothing can come before it.
LEMMA SettledOriginStays ==
  ASSUME FeedTypeOK, NEW e \in Events, Ingest(e), logs # {}, Settled(Origin(logs), now)
  PROVE  Origin(logs') = Origin(logs)
  <1>1. logs' = logs \cup {e} /\ logs \in SUBSET Events /\ now \in Nat
    BY ClockAssumption DEF Ingest, FeedTypeOK
  <1>2. PICK f \in logs' : Origin(logs') = Truncate(f.ts) /\ \A g \in logs' : f.ts <= g.ts
    BY <1>1, OriginIs, LogRows
  <1>3. PICK g \in logs : Origin(logs) = Truncate(g.ts) /\ \A h \in logs : g.ts <= h.ts
    BY <1>1, OriginIs, LogRows
  <1>4. e.ts \in Nat /\ f.ts \in Nat /\ g.ts \in Nat /\ now <= e.ts + Lag
    BY <1>1, EventsAssumption DEF Event, Ingest
  <1>5. Truncate(g.ts) \in Nat /\ g.ts < Truncate(g.ts) + Step
    BY <1>4, TruncateBounds
  <1>6. g.ts < e.ts
    BY <1>1, <1>3, <1>4, <1>5, StepAssumption, LagAssumption DEF Settled
  <1>7. f.ts <= g.ts
    BY <1>1, <1>2
  <1>8. f # e
    BY <1>4, <1>6, <1>7
  <1>9. g.ts <= f.ts
    BY <1>1, <1>3, <1>8
  <1>10. f.ts = g.ts
    BY <1>4, <1>7, <1>9
  <1>11. QED
    BY <1>2, <1>3, <1>10

-----------------------------------------------------------------------------
(* Type correctness *)

LEMMA TypeInit == Init => TypeOK
  BY EmptyBaselinesType, ClockAssumption, FaultsAssumption
     DEF Init, TypeOK, FeedInit, FeedTypeOK, Calls

LEMMA FaultType == ASSUME TypeOK, NEW kind, Fault(kind) PROVE faults' \in 0 .. MaxFaults
  BY FaultsAssumption DEF TypeOK, Fault

\* What Load goes on with is again a place in the process.
LEMMA LoadRestType ==
  ASSUME TypeOK, NEW i \in Instances, NEW keys \in SUBSET (Users \X Fields), LoadRest(i, keys)
  PROVE  /\ pc' \in [Instances -> Calls] /\ held' \in [Instances -> BOOLEAN]
         /\ scanned' \in [Instances -> SUBSET (Users \X Fields)]
  <1>1. CASE keys # {}
    BY <1>1 DEF LoadRest, Goto, Calls, TypeOK
  <1>2. CASE keys = {}
    <2>1. /\ pc' = [pc EXCEPT ![i] = IF Booting(i) THEN "idle" ELSE "open"]
          /\ held' = [held EXCEPT ![i] = Reloading(i)] /\ scanned' = [scanned EXCEPT ![i] = keys]
      BY <1>2 DEF LoadRest, Goto
    <2>2. Reloading(i) \in BOOLEAN
      BY DEF Reloading
    <2>3. held' \in [Instances -> BOOLEAN]
      BY <2>1, <2>2, Zenon DEF TypeOK
    <2>4. QED
      BY <2>1, <2>3 DEF TypeOK, Calls
  <1>3. QED
    BY <1>1, <1>2

LEMMA TypeProcess == ASSUME TypeOK, NEW i \in Instances, Process(i) PROVE TypeOK'
  <1> USE DEF TypeOK, FeedTypeOK, Goto, NoFault, Calls,
              feedVars, storeVars, leaseVars, memVars, stepVars
  <1>1. CASE LoadScan(i)
    <2>1. LoadKeys(redis) \in SUBSET (Users \X Fields)
      BY DEF LoadKeys
    <2>2. /\ pc' \in [Instances -> Calls] /\ held' \in [Instances -> BOOLEAN]
          /\ scanned' \in [Instances -> SUBSET (Users \X Fields)]
      <3>1. LoadRest(i, LoadKeys(redis))
        BY <1>1 DEF LoadScan
      <3> HIDE DEF TypeOK, Goto, Calls
      <3>2. QED
        BY <2>1, <3>1, LoadRestType
    <2>3. mem' \in [Instances -> [Users -> UserBaseline]]
      BY <1>1, EmptyBaselinesType DEF LoadScan
    <2>4. QED
      BY <1>1, <2>2, <2>3 DEF LoadScan
  <1>2. CASE Claim(i)
    BY <1>2 DEF Claim, SetNX
  <1>3. CASE LoadRead(i)
    <2>1. PICK k \in NextKeys(scanned[i]) : /\ mem' = [mem EXCEPT ![i] = Overlay(mem[i], redis, {k})]
                                            /\ LoadRest(i, scanned[i] \ {k})
      BY <1>3 DEF LoadRead
    <2>2. scanned[i] \ {k} \in SUBSET (Users \X Fields)
      OBVIOUS
    <2>3. /\ pc' \in [Instances -> Calls] /\ held' \in [Instances -> BOOLEAN]
          /\ scanned' \in [Instances -> SUBSET (Users \X Fields)]
      <3> HIDE DEF TypeOK, Goto, Calls
      <3>1. QED
        BY <2>1, <2>2, LoadRestType
    <2>4. mem' \in [Instances -> [Users -> UserBaseline]]
      <3>1. Overlay(mem[i], redis, {k}) \in [Users -> UserBaseline]
        BY OverlayType
      <3>2. QED
        BY <2>1, <3>1
    <2>5. QED
      BY <1>3, <2>3, <2>4 DEF LoadRead
  <1>4. CASE Renew(i)
    BY <1>4 DEF Renew
  <1>5. CASE Extend(i)
    BY <1>5 DEF Extend
  <1>6. CASE Reclaim(i)
    BY <1>6 DEF Reclaim, SetNX
  <1>7. CASE Open(i)
    BY <1>7, ZenonT(60) DEF Open
  <1>8. CASE Fresh(i)
    <2>1. ASSUME logs # {}
          PROVE  Origin(logs) \in Nat
      <3>1. logs \in SUBSET Events
        OBVIOUS
      <3>2. QED
        BY <2>1, <3>1, OriginType, LogRows
    <2>2. CASE logs = {}
      <3>1. Return(i) /\ UNCHANGED <<feedVars, storeVars, leaseVars, memVars, faults>>
        BY <1>8, <2>2 DEF Fresh
      <3>2. QED
        BY <3>1 DEF Return
    <2>3. CASE logs # {}
      BY <1>8, <2>1, <2>3 DEF Fresh
    <2>4. QED
      BY <2>2, <2>3
  <1>9. CASE ResetScan(i) \/ ResetDelete(i)
    <2>1. StoredKeys(redis) \in SUBSET (Users \X Fields)
      BY DEF StoredKeys
    <2>2. CASE ResetScan(i)
      <3>1. mem' \in [Instances -> [Users -> UserBaseline]]
        BY <2>2, EmptyBaselinesType DEF ResetScan
      <3>2. pc' \in [Instances -> Calls] /\ scanned' \in [Instances -> SUBSET (Users \X Fields)]
        BY <2>1, <2>2 DEF ResetScan
      <3>3. QED
        BY <2>2, <3>1, <3>2 DEF ResetScan
    <2>3. CASE ResetDelete(i)
      <3>1. Without(scanned[i]) \in [Users -> UserBaseline]
        BY OverlayType, EmptyBaselinesType DEF Without
      <3>2. QED
        BY <2>3, <3>1 DEF ResetDelete
    <2>4. QED
      BY <1>9, <2>2, <2>3
  <1>10. CASE CheckSettled(i)
    <2>1. CASE Return(i)
      BY <1>10, <2>1 DEF CheckSettled, Return
    <2>2. CASE ~ Return(i)
      BY <1>10, <2>2 DEF CheckSettled
    <2>3. QED
      BY <2>1, <2>2
  <1>11. CASE ReadWindow(i)
    BY <1>11 DEF ReadWindow, WindowEvents
  <1>12. CASE Raise(i)
    BY <1>12 DEF Raise
  <1>13. CASE LearnLead(i)
    <2>1. LeadEvents(batch[i], next[i]) \in SUBSET Events
      BY DEF LeadEvents
    <2>2. /\ Learn(mem[i], LeadEvents(batch[i], next[i])) \in [Users -> UserBaseline]
          /\ WriteThrough(redis, mem[i], LeadEvents(batch[i], next[i])) \in [Users -> UserBaseline]
      BY <2>1, LearnType, LogRows
    <2>3. QED
      BY <1>13, <2>2 DEF LearnLead
  <1>14. CASE Save(i)
    BY <1>14, StepAssumption DEF Save, NextStart
  <1>15. QED
    BY <1>1, <1>2, <1>3, <1>4, <1>5, <1>6, <1>7, <1>8, <1>9, <1>10, <1>11, <1>12,
       <1>13, <1>14 DEF Process

LEMMA TypeFailure == ASSUME TypeOK, Failure PROVE TypeOK'
  <1> USE DEF TypeOK, FeedTypeOK, Goto, Return, Calls,
              feedVars, storeVars, leaseVars, memVars, stepVars
  <1>1. faults' \in 0 .. MaxFaults
    BY FaultType DEF Failure, ExpireHeld, RedisRestarts, Crash, ClaimUnanswered, ExtendFails,
       ReclaimFails, LoadScanFails, LoadReadFails, QueryFails, RaiseFails, ResetFails, LearnFails,
       SaveFails
  <1>2. CASE ExpireHeld
    BY <1>1, <1>2 DEF ExpireHeld
  <1>3. CASE RedisRestarts
    BY <1>1, <1>3, EmptyBaselinesType DEF RedisRestarts
  <1>4. ASSUME NEW i \in Instances, Crash(i)
        PROVE  TypeOK'
    BY <1>1, <1>4, EmptyBaselinesType DEF Crash
  <1>5. ASSUME NEW i \in Instances, ClaimUnanswered(i)
        PROVE  TypeOK'
    BY <1>1, <1>5 DEF ClaimUnanswered, SetNX
  <1>6. ASSUME NEW i \in Instances, ExtendFails(i)
        PROVE  TypeOK'
    BY <1>1, <1>6 DEF ExtendFails
  <1>7. ASSUME NEW i \in Instances, ReclaimFails(i)
        PROVE  TypeOK'
    BY <1>1, <1>7 DEF ReclaimFails
  <1>8. ASSUME NEW i \in Instances, LoadScanFails(i) \/ LoadReadFails(i)
        PROVE  TypeOK'
    <2>1. ASSUME NEW keys, LoadRest(i, keys), keys = {} \/ keys \subseteq scanned[i]
          PROVE  /\ pc' \in [Instances -> Calls] /\ held' \in [Instances -> BOOLEAN]
                 /\ scanned' \in [Instances -> SUBSET (Users \X Fields)]
      <3>1. keys \in SUBSET (Users \X Fields)
        BY <2>1
      <3> HIDE DEF TypeOK, Goto, Calls
      <3>2. QED
        BY <2>1, <3>1, LoadRestType
    <2>2. CASE LoadScanFails(i)
      <3>1. mem' \in [Instances -> [Users -> UserBaseline]]
        BY <2>2, EmptyBaselinesType DEF LoadScanFails
      <3>2. LoadRest(i, {})
        BY <2>2 DEF LoadScanFails
      <3>3. QED
        BY <1>1, <2>1, <2>2, <3>1, <3>2 DEF LoadScanFails
    <2>3. CASE LoadReadFails(i)
      <3>1. PICK k \in NextKeys(scanned[i]) :
              \/ LoadRest(i, scanned[i] \ {k}) /\ UNCHANGED mem
              \/ LoadRest(i, {}) /\ mem' = [mem EXCEPT ![i][k[1]] = NoBaseline]
        BY <2>3 DEF LoadReadFails
      <3>2. /\ pc' \in [Instances -> Calls] /\ held' \in [Instances -> BOOLEAN]
            /\ scanned' \in [Instances -> SUBSET (Users \X Fields)]
        <4>1. scanned[i] \ {k} \subseteq scanned[i]
          OBVIOUS
        <4>2. QED
          BY <2>1, <3>1, <4>1
      <3>3. mem' \in [Instances -> [Users -> UserBaseline]]
        <4>1. NoBaseline \in UserBaseline
          BY DEF NoBaseline, UserBaseline, HourOfDay
        <4>2. k[1] \in Users
          BY DEF NextKeys
        <4>3. CASE UNCHANGED mem
          BY <4>3
        <4>4. CASE mem' = [mem EXCEPT ![i][k[1]] = NoBaseline]
          <5>1. mem' = [mem EXCEPT ![i] = [mem[i] EXCEPT ![k[1]] = NoBaseline]]
            BY <4>4
          <5>2. [mem[i] EXCEPT ![k[1]] = NoBaseline] \in [Users -> UserBaseline]
            BY <4>1
          <5>3. QED
            BY <5>1, <5>2
        <4>5. QED
          BY <3>1, <4>3, <4>4
      <3>4. QED
        BY <1>1, <2>3, <3>2, <3>3 DEF LoadReadFails
    <2>4. QED
      BY <1>8, <2>2, <2>3
  <1>9. ASSUME NEW i \in Instances, QueryFails(i)
        PROVE  TypeOK'
    BY <1>1, <1>9 DEF QueryFails
  <1>10. ASSUME NEW i \in Instances, RaiseFails(i)
         PROVE  TypeOK'
    BY <1>1, <1>10 DEF RaiseFails
  <1>11. ASSUME NEW i \in Instances, ResetFails(i)
         PROVE  TypeOK'
    <2>1. redis' \in [Users -> UserBaseline]
      <3>1. Without(scanned[i]) \in [Users -> UserBaseline]
        BY OverlayType, EmptyBaselinesType DEF Without
      <3>2. QED
        BY <1>11, <3>1 DEF ResetFails
    <2>2. mem' \in [Instances -> [Users -> UserBaseline]]
      BY <1>11, EmptyBaselinesType DEF ResetFails
    <2>3. QED
      BY <1>1, <1>11, <2>1, <2>2 DEF ResetFails
  <1>12. ASSUME NEW i \in Instances, LearnFails(i)
         PROVE  TypeOK'
    <2> DEFINE lead == UNION {Feeding(LeadEvents(batch[i], next[i]), u) : u \in Users}
    <2>1. lead \in SUBSET Events
      BY DEF LeadEvents, Feeding
    <2>2. Learn(mem[i], lead) \in [Users -> UserBaseline]
      BY <2>1, LearnType, LogRows
    <2>3. \A e \in lead : \A n : WrittenUpTo(redis, mem[i], lead, e, n) \in [Users -> UserBaseline]
      BY <2>1, WrittenType, LogRows
    <2>4. /\ redis' \in [Users -> UserBaseline]
          /\ mem' \in [Instances -> [Users -> UserBaseline]]
      <3> HIDE DEF lead
      <3>1. /\ mem' = [mem EXCEPT ![i] = Learn(mem[i], lead)]
            /\ \E e \in lead : \E n \in 0 .. 5 : redis' = WrittenUpTo(redis, mem[i], lead, e, n)
        BY <1>12 DEF LearnFails, lead
      <3>2. mem \in [Instances -> [Users -> UserBaseline]]
        OBVIOUS
      <3> HIDE DEF TypeOK
      <3>3. QED
        BY <2>2, <2>3, <3>1, <3>2
    <2>5. Return(i) /\ UNCHANGED <<feedVars, watermark, raised, leaseVars, scanned>>
      BY <1>12 DEF LearnFails
    <2>6. QED
      BY <1>1, <2>4, <2>5
  <1>13. ASSUME NEW i \in Instances, SaveFails(i)
         PROVE  TypeOK'
    BY <1>1, <1>13, StepAssumption DEF SaveFails, NextStart
  <1>14. QED
    BY <1>2, <1>3, <1>4, <1>5, <1>6, <1>7, <1>8, <1>9, <1>10, <1>11, <1>12, <1>13
       DEF Failure

LEMMA TypeStep == TypeOK /\ [Next]_vars => TypeOK'
  <1> SUFFICES ASSUME TypeOK, [Next]_vars PROVE TypeOK'
    OBVIOUS
  <1>1. CASE Feed
    BY <1>1, ClockAssumption DEF TypeOK, FeedTypeOK, Feed, Tick, Ingest, storeVars, leaseVars,
       memVars, stepVars
  <1>2. CASE Expire
    BY <1>2 DEF TypeOK, FeedTypeOK, Expire, NoFault, feedVars, storeVars, memVars, stepVars
  <1>3. CASE Failure
    BY <1>3, TypeFailure
  <1>4. ASSUME NEW i \in Instances, Process(i)
        PROVE  TypeOK'
    BY <1>4, TypeProcess
  <1>5. ASSUME NEW i \in Instances, Restart(i)
        PROVE  TypeOK'
    BY <1>5 DEF TypeOK, FeedTypeOK, Restart, Goto, NoFault, Calls,
                feedVars, storeVars, leaseVars, memVars, stepVars
  <1>6. CASE UNCHANGED vars
    BY <1>6 DEF TypeOK, FeedTypeOK, vars
  <1>7. QED
    BY <1>1, <1>2, <1>3, <1>4, <1>5, <1>6 DEF Next

\* Every variable of the pipeline keeps its type, whatever fails.
THEOREM TypeCorrect == Spec => []TypeOK
  BY TypeInit, TypeStep, PTL DEF Spec

-----------------------------------------------------------------------------
(* What no fault takes away *)

RuleOf(t) == RuleFindings(WindowEvents(logs, t))
IsRule(c) == c.type \notin {"identity_anomaly", "off_hours_access"}

\* Every window from the origin up to b has settled and its rule findings are raised.
Passed(b) ==
  \A t \in Nat : Aligned(t) /\ Origin(logs) <= t /\ t < b => Settled(t, now) /\ RuleOf(t) \subseteq raised

\* A start of the sweep of this log.
Reached(t) == logs # {} /\ Aligned(t) /\ Origin(logs) <= t

\* The persisted watermark is a start before which nothing is left to judge.  It
\* may run back, when two instances sweep at once.
WatermarkInv ==
  watermark # Unset => Reached(watermark) /\ Settled(Origin(logs), now) /\ Passed(watermark)

\* So is the place where an instance stands.  The origin of a fresh start may be
\* overtaken by an earlier event, but only while its window has not settled.
Walked(i) ==
  pc[i] \in {"reset", "delete", "check", "read", "detect", "save"} =>
    Reached(next[i]) /\ (Settled(Origin(logs), now) => Passed(next[i]))

Judges(i) ==
  /\ pc[i] \in {"read", "detect", "save"} => Settled(next[i], now)
  /\ pc[i] \in {"detect", "save"} => batch[i] = WindowEvents(logs, next[i])
  /\ pc[i] = "detect" => /\ RuleOf(next[i]) \subseteq raised \cup pending[i]
                         /\ \A c \in pending[i] : IsRule(c) => c \in RuleOf(next[i])
  /\ pc[i] = "save" => RuleOf(next[i]) \subseteq raised

\* No rule finding is made up.
Grounded == \A c \in raised : IsRule(c) => \E t \in Nat : Aligned(t) /\ Settled(t, now) /\ c \in RuleOf(t)

RuleInv == WatermarkInv /\ Grounded /\ \A i \in Instances : Walked(i) /\ Judges(i)

\* The rule findings are those of the detectors that need no baselines.
LEMMA RuleFindingsTell ==
  ASSUME NEW S, NEW bl
  PROVE  /\ RuleFindings(S) \subseteq Findings(S, bl)
         /\ \A c \in Findings(S, bl) : IsRule(c) => c \in RuleFindings(S)
  <1>1. \A c \in IdentityAnomaly(S, bl) : c.type = "identity_anomaly"
    <2> DEFINE Logins(u, ip) == {e \in S : /\ e.type = "console_login" /\ e.status = "success"
                                           /\ e.user = u /\ e.ip = ip
                                           /\ bl[u].logins >= IdentityMinLogins /\ ip \notin bl[u].ips}
               Found(k) == Finding("identity_anomaly", k[1], k[1], k[2], Logins(k[1], k[2]))
    <2>1. \A k : Found(k).type = "identity_anomaly"
      BY DEF Finding
    <2>2. IdentityAnomaly(S, bl) = {Found(k) : k \in {k \in Users \X IPs : Logins(k[1], k[2]) # {}}}
      BY DEF IdentityAnomaly
    <2> HIDE DEF Found, Logins
    <2>3. QED
      BY <2>1, <2>2
  <1>2. \A c \in OffHoursAccess(S, bl) : c.type = "off_hours_access"
    <2> DEFINE Mature(u) == /\ bl[u].events >= OffHoursMinEvents
                            /\ Cardinality(bl[u].days) >= OffHoursMinDays
               Quiet(u, h) == \A d \in -2 .. 2 : bl[u].hours[(h + d + 24) % 24] = 0
               Odd(u) == {e \in Feeding(S, u) : Mature(u) /\ Quiet(u, HourOf(e.ts))}
               Found(u) == Finding("off_hours_access", u, u, Earliest(Odd(u)).ip, Odd(u))
    <2>1. \A u : Found(u).type = "off_hours_access"
      BY DEF Finding
    <2>2. OffHoursAccess(S, bl) = {Found(u) : u \in {v \in Users : Odd(v) # {}}}
      BY DEF OffHoursAccess
    <2> HIDE DEF Found, Odd
    <2>3. QED
      BY <2>1, <2>2
  <1>3. QED
    BY <1>1, <1>2 DEF Findings, IsRule

\* Time passing settles windows and unsettles none.
LEMMA StaysSettled ==
  ASSUME NEW t \in Nat, NEW m \in Nat, NEW n \in Nat, m <= n, Settled(t, m)
  PROVE  Settled(t, n)
  BY StepAssumption, LagAssumption DEF Settled

LEMMA SettledBelow ==
  ASSUME NEW s \in Nat, NEW t \in Nat, NEW n \in Nat, s <= t, Settled(t, n)
  PROVE  Settled(s, n)
  BY StepAssumption, LagAssumption DEF Settled

\* Having left the window at t behind as well.
LEMMA PassOne ==
  ASSUME TypeOK, NEW t \in Nat, Aligned(t), Passed(t), Settled(t, now), RuleOf(t) \subseteq raised
  PROVE  Aligned(t + Step) /\ Passed(t + Step)
  <1>1. Aligned(t + Step)
    BY NextAligned
  <1>2. ASSUME NEW s \in Nat, Aligned(s), s < t + Step, ~ (s < t)
        PROVE  s = t
    BY <1>2, AlignedApart, StepAssumption
  <1>3. QED
    BY <1>1, <1>2 DEF Passed

\* More alerts make no difference to what is passed.
LEMMA MoreRaised ==
  ASSUME UNCHANGED <<now, logs>>, raised \subseteq raised', NEW b, Passed(b)
  PROVE  Passed(b)'
  BY DEF Passed, RuleOf

\* The clock and the log stand still, and no alert is taken back.
Onward == UNCHANGED <<now, logs>> /\ raised \subseteq raised'

Outside(i) == pc[i] \notin {"reset", "delete", "check", "read", "detect", "save"}

LEMMA WatermarkStays == ASSUME WatermarkInv, Onward, UNCHANGED watermark PROVE WatermarkInv'
  <1>1. watermark # Unset => Passed(watermark)'
    <2>1. \A b : Passed(b) => Passed(b)'
      BY MoreRaised DEF Onward
    <2>2. watermark # Unset => Passed(watermark)
      BY DEF WatermarkInv
    <2>3. QED
      BY <2>1, <2>2 DEF Passed, RuleOf
  <1>2. QED
    BY <1>1 DEF WatermarkInv, Onward, Reached

LEMMA GroundedStays == ASSUME Grounded, UNCHANGED <<now, logs, raised>> PROVE Grounded'
  BY DEF Grounded, RuleOf

LEMMA StandStill ==
  ASSUME Onward, NEW j \in Instances, Walked(j), Judges(j),
         pc'[j] = pc[j], next'[j] = next[j], batch'[j] = batch[j], pending'[j] = pending[j]
  PROVE  Walked(j)' /\ Judges(j)'
  <1>1. Passed(next[j]) => Passed(next[j])'
    <2>1. Passed(next[j])' <=> \A t \in Nat : Aligned(t) /\ Origin(logs) <= t /\ t < next[j]
                                  => Settled(t, now) /\ RuleOf(t) \subseteq raised'
      BY DEF Onward, Passed, RuleOf
    <2>2. QED
      BY <2>1 DEF Passed, Onward
  <1>2. RuleOf(next[j])' = RuleOf(next[j]) /\ WindowEvents(logs, next[j])' = WindowEvents(logs, next[j])
    BY DEF RuleOf, Onward
  <1>3. Walked(j)'
    BY <1>1 DEF Walked, Onward, Reached
  <1>4. Judges(j)'
    BY <1>2 DEF Judges, Onward
  <1>5. QED
    BY <1>3, <1>4

\* A step that leaves liveStep, or does not enter it, owes nothing.
LEMMA StepOut == ASSUME NEW i \in Instances, Outside(i)' PROVE Walked(i)' /\ Judges(i)'
  BY DEF Outside, Walked, Judges

\* What a step that raises and saves nothing must keep.
LEMMA RuleAround ==
  ASSUME RuleInv, NEW i \in Instances, UNCHANGED <<now, logs, watermark, raised>>,
         \A j \in Instances \ {i} : /\ pc'[j] = pc[j] /\ next'[j] = next[j]
                                    /\ batch'[j] = batch[j] /\ pending'[j] = pending[j],
         Walked(i)' /\ Judges(i)'
  PROVE  RuleInv'
  <1>1. Onward
    BY DEF Onward
  <1>2. WatermarkInv' /\ Grounded'
    BY <1>1, WatermarkStays, GroundedStays DEF RuleInv
  <1>3. \A j \in Instances \ {i} : Walked(j)' /\ Judges(j)'
    BY <1>1, StandStill DEF RuleInv
  <1>4. QED
    BY <1>2, <1>3 DEF RuleInv

LEMMA RuleOpen ==
  ASSUME TypeOK, RuleInv, NEW i \in Instances, Open(i)
  PROVE  RuleInv'
  <1>1. /\ UNCHANGED <<now, logs, watermark, raised, batch, pending>>
        /\ \A j \in Instances \ {i} : pc'[j] = pc[j] /\ next'[j] = next[j]
    BY DEF Open, Goto, TypeOK, feedVars, storeVars
  <1>2. CASE pc'[i] = "fresh"
    BY <1>1, <1>2, StepOut, RuleAround DEF Outside
  <1>3. CASE watermark # Unset /\ pc'[i] = "check" /\ next'[i] = watermark
    <2>1. Reached(watermark) /\ Passed(watermark)
      BY <1>3 DEF RuleInv, WatermarkInv
    <2>2. Reached(next[i])' /\ Passed(next[i])'
      BY <1>1, <1>3, <2>1 DEF Reached, Passed, RuleOf
    <2>3. Walked(i)' /\ Judges(i)'
      BY <1>3, <2>2 DEF Walked, Judges
    <2>4. QED
      BY <1>1, <2>3, RuleAround
  <1>4. QED
    BY <1>2, <1>3 DEF Open, Goto, TypeOK

LEMMA RuleFresh ==
  ASSUME TypeOK, RuleInv, NEW i \in Instances, Fresh(i)
  PROVE  RuleInv'
  <1>1. /\ UNCHANGED <<now, logs, watermark, raised>>
        /\ \A j \in Instances \ {i} : /\ pc'[j] = pc[j] /\ next'[j] = next[j]
                                      /\ batch'[j] = batch[j] /\ pending'[j] = pending[j]
    BY DEF Fresh, Return, Goto, TypeOK, feedVars, storeVars
  <1>2. CASE pc'[i] = "idle"
    BY <1>1, <1>2, StepOut, RuleAround DEF Outside
  <1>3. CASE logs # {} /\ pc'[i] = "reset" /\ next'[i] = Origin(logs)
    <2>1. PICK e \in logs : Origin(logs) = Truncate(e.ts)
      BY <1>3, OriginIs, LogRows DEF TypeOK, FeedTypeOK
    <2>2. Origin(logs) \in Nat /\ Aligned(Origin(logs))
      BY <2>1, TruncateBounds, EventsAssumption DEF TypeOK, FeedTypeOK, Event
    <2>3. Reached(next[i])' /\ Passed(next[i])'
      BY <1>1, <1>3, <2>2 DEF Reached, Passed
    <2>4. Walked(i)' /\ Judges(i)'
      BY <1>3, <2>3 DEF Walked, Judges
    <2>5. QED
      BY <1>1, <2>4, RuleAround
  <1>4. QED
    BY <1>2, <1>3 DEF Fresh, Return, Goto, TypeOK

LEMMA RuleCheck ==
  ASSUME TypeOK, RuleInv, NEW i \in Instances, CheckSettled(i)
  PROVE  RuleInv'
  <1>1. /\ UNCHANGED <<now, logs, watermark, raised>> /\ pc[i] = "check" /\ Walked(i)
        /\ \A j \in Instances \ {i} : /\ pc'[j] = pc[j] /\ next'[j] = next[j]
                                      /\ batch'[j] = batch[j] /\ pending'[j] = pending[j]
    BY DEF CheckSettled, Return, Goto, TypeOK, feedVars, storeVars, stepVars, RuleInv
  <1>2. CASE pc'[i] = "idle"
    BY <1>1, <1>2, StepOut, RuleAround DEF Outside
  <1>3. CASE Settled(next[i], now) /\ pc'[i] = "read" /\ next' = next
    <2>1. Reached(next[i])' /\ (Settled(Origin(logs), now) => Passed(next[i]))'
      BY <1>1, <1>3 DEF Walked, Reached, Passed, RuleOf
    <2>2. Walked(i)' /\ Judges(i)'
      BY <1>1, <1>3, <2>1 DEF Walked, Judges
    <2>3. QED
      BY <1>1, <2>2, RuleAround
  <1>4. QED
    BY <1>2, <1>3 DEF CheckSettled, Return, Goto, TypeOK, stepVars

LEMMA RuleReset ==
  ASSUME TypeOK, RuleInv, NEW i \in Instances, ResetScan(i) \/ ResetDelete(i) \/ ResetFails(i)
  PROVE  RuleInv'
  <1>1. /\ UNCHANGED <<now, logs, watermark, raised>> /\ pc[i] \in {"reset", "delete"} /\ Walked(i)
        /\ \A j \in Instances \ {i} : /\ pc'[j] = pc[j] /\ next'[j] = next[j]
                                      /\ batch'[j] = batch[j] /\ pending'[j] = pending[j]
    BY DEF ResetScan, ResetDelete, ResetFails, Return, Goto, TypeOK, feedVars, storeVars, stepVars,
           RuleInv
  <1>2. CASE pc'[i] = "idle"
    BY <1>1, <1>2, StepOut, RuleAround DEF Outside
  <1>3. CASE pc'[i] \in {"delete", "check"} /\ next' = next
    <2>1. Reached(next[i])' /\ (Settled(Origin(logs), now) => Passed(next[i]))'
      BY <1>1, <1>3 DEF Walked, Reached, Passed, RuleOf
    <2>2. Walked(i)' /\ Judges(i)'
      BY <1>3, <2>1 DEF Walked, Judges
    <2>3. QED
      BY <1>1, <2>2, RuleAround
  <1>4. QED
    BY <1>2, <1>3 DEF ResetScan, ResetDelete, ResetFails, Return, Goto, TypeOK, stepVars

LEMMA RuleRead ==
  ASSUME TypeOK, RuleInv, NEW i \in Instances, ReadWindow(i)
  PROVE  RuleInv'
  <1> DEFINE S == WindowEvents(logs, next[i])
  <1>1. /\ UNCHANGED <<now, logs, watermark, raised, next>> /\ pc[i] = "read"
        /\ pc'[i] = (IF S = {} THEN "save" ELSE "detect")
        /\ batch'[i] = S /\ pending'[i] = Findings(S, mem[i])
        /\ \A j \in Instances \ {i} : pc'[j] = pc[j] /\ batch'[j] = batch[j] /\ pending'[j] = pending[j]
    BY DEF ReadWindow, Goto, TypeOK, feedVars, storeVars
  <1>2. Walked(i) /\ Settled(next[i], now)
    BY <1>1 DEF RuleInv, Judges
  <1>3. Walked(i)'
    BY <1>1, <1>2 DEF Walked, Reached, Passed, RuleOf
  <1>4. RuleOf(next[i])' = RuleFindings(S) /\ WindowEvents(logs, next[i])' = S
    BY <1>1 DEF RuleOf
  <1>5. Judges(i)'
    <2>1. S = {} => RuleFindings(S) = {}
      <3>1. ASSUME S = {}
            PROVE  Findings(S, mem[i]) = {}
        BY <3>1, FindingsOfNone
      <3>2. QED
        BY <3>1, RuleFindingsTell
    <2>2. /\ RuleFindings(S) \subseteq pending'[i]
          /\ \A c \in pending'[i] : IsRule(c) => c \in RuleFindings(S)
      BY <1>1, RuleFindingsTell
    <2> HIDE DEF S
    <2>3. QED
      BY <1>1, <1>2, <1>4, <2>1, <2>2 DEF Judges
  <1>6. QED
    BY <1>1, <1>3, <1>5, RuleAround

LEMMA RuleRaise ==
  ASSUME TypeOK, RuleInv, NEW i \in Instances, Raise(i) \/ RaiseFails(i)
  PROVE  RuleInv'
  <1>1. /\ UNCHANGED <<now, logs, watermark>> /\ pc[i] = "detect" /\ Walked(i) /\ Judges(i)
        /\ next[i] \in Nat /\ Aligned(next[i])
        /\ \A j \in Instances \ {i} : /\ pc'[j] = pc[j] /\ next'[j] = next[j]
                                      /\ batch'[j] = batch[j] /\ pending'[j] = pending[j]
    BY DEF Raise, RaiseFails, Return, Goto, TypeOK, feedVars, RuleInv, Walked, Reached
  <1>2. raised' = raised \/ \E c \in pending[i] : raised' = raised \cup {c}
    BY DEF Raise, RaiseFails
  <1>3. Onward
    BY <1>1, <1>2 DEF Onward
  <1>4. WatermarkInv'
    BY <1>1, <1>3, WatermarkStays DEF RuleInv
  <1>5. Grounded'
    <2>1. \A c \in pending[i] : IsRule(c) => c \in RuleOf(next[i])
      BY <1>1 DEF Judges
    <2>2. Settled(next[i], now)
      BY <1>1 DEF Judges
    <2>3. \A c \in raised' : IsRule(c) => \E t \in Nat : Aligned(t) /\ Settled(t, now) /\ c \in RuleOf(t)
      BY <1>1, <1>2, <2>1, <2>2 DEF RuleInv, Grounded
    <2>4. QED
      BY <1>1, <2>3 DEF Grounded, RuleOf
  <1>6. Walked(i)' /\ Judges(i)'
    <2>1. CASE RaiseFails(i)
      <3>1. pc'[i] = "idle"
        BY <2>1 DEF RaiseFails, Return, Goto, TypeOK
      <3>2. QED
        BY <3>1, StepOut DEF Outside
    <2>2. CASE Raise(i)
      <3>1. PICK c \in pending[i] : raised' = raised \cup {c} /\ pending'[i] = pending[i] \ {c}
        BY <2>2 DEF Raise, TypeOK
      <3>2. UNCHANGED <<pc, next, batch>>
        BY <2>2 DEF Raise
      <3>3. \A b : Passed(b) => Passed(b)'
        BY <1>3, MoreRaised DEF Onward
      <3>4. Walked(i)'
        BY <1>1, <3>2, <3>3 DEF Walked, Reached, Passed, RuleOf
      <3>5. RuleOf(next[i])' = RuleOf(next[i]) /\ WindowEvents(logs, next[i])' = WindowEvents(logs, next[i])
        BY <1>1, <3>2 DEF RuleOf
      <3>6. Judges(i)'
        BY <1>1, <3>1, <3>2, <3>5 DEF Judges
      <3>7. QED
        BY <3>4, <3>6
    <2>3. QED
      BY <2>1, <2>2
  <1>7. \A j \in Instances \ {i} : Walked(j)' /\ Judges(j)'
    BY <1>1, <1>3, StandStill DEF RuleInv
  <1>8. QED
    BY <1>4, <1>5, <1>6, <1>7 DEF RuleInv

LEMMA RuleLearn ==
  ASSUME TypeOK, RuleInv, NEW i \in Instances, LearnLead(i) \/ LearnFails(i)
  PROVE  RuleInv'
  <1>1. /\ UNCHANGED <<now, logs, watermark, raised>> /\ pc[i] = "detect" /\ pending[i] = {}
        /\ Walked(i) /\ Judges(i)
        /\ \A j \in Instances \ {i} : /\ pc'[j] = pc[j] /\ next'[j] = next[j]
                                      /\ batch'[j] = batch[j] /\ pending'[j] = pending[j]
    BY DEF LearnLead, LearnFails, Judged, Return, Goto, TypeOK, feedVars, stepVars, RuleInv
  <1>2. CASE pc'[i] = "idle"
    BY <1>1, <1>2, StepOut, RuleAround DEF Outside
  <1>3. CASE pc'[i] = "save" /\ next' = next /\ batch' = batch
    <2>1. Walked(i)'
      BY <1>1, <1>3 DEF Walked, Reached, Passed, RuleOf
    <2>2. RuleOf(next[i])' = RuleOf(next[i]) /\ WindowEvents(logs, next[i])' = WindowEvents(logs, next[i])
      BY <1>1, <1>3 DEF RuleOf
    <2>3. Judges(i)'
      BY <1>1, <1>3, <2>2 DEF Judges
    <2>4. QED
      BY <1>1, <2>1, <2>3, RuleAround
  <1>4. QED
    BY <1>2, <1>3 DEF LearnLead, LearnFails, Return, Goto, TypeOK, stepVars

LEMMA RuleSave ==
  ASSUME TypeOK, RuleInv, NEW i \in Instances, Save(i) \/ SaveFails(i)
  PROVE  RuleInv'
  <1> DEFINE after == next[i] + Step
  <1>1. /\ UNCHANGED <<now, logs, raised>> /\ pc[i] = "save" /\ Walked(i) /\ Judges(i)
        /\ watermark' \in {watermark, after}
        /\ \A j \in Instances \ {i} : /\ pc'[j] = pc[j] /\ next'[j] = next[j]
                                      /\ batch'[j] = batch[j] /\ pending'[j] = pending[j]
    BY DEF Save, SaveFails, NextStart, Return, Goto, TypeOK, feedVars, RuleInv
  <1>2. Onward
    BY <1>1 DEF Onward
  <1>3. /\ next[i] \in Nat /\ Reached(next[i]) /\ Settled(next[i], now)
        /\ RuleOf(next[i]) \subseteq raised /\ Origin(logs) \in Nat /\ now \in Nat
    BY <1>1, OriginType, LogRows, ClockAssumption DEF Walked, Judges, Reached, TypeOK, FeedTypeOK
  <1>4. Settled(Origin(logs), now) /\ Passed(next[i])
    BY <1>1, <1>3, SettledBelow DEF Walked, Reached
  <1>5. Reached(after) /\ Passed(after) /\ after \in Nat
    <2>1. Aligned(after) /\ Passed(after)
      BY <1>3, <1>4, PassOne DEF Reached
    <2>2. Origin(logs) <= after /\ after \in Nat
      BY <1>3, StepAssumption DEF Reached
    <2>3. QED
      BY <1>3, <2>1, <2>2 DEF Reached
  <1> HIDE DEF after
  <1>6. WatermarkInv'
    <2>1. CASE watermark' = watermark
      BY <1>2, <2>1, WatermarkStays DEF RuleInv
    <2>2. CASE watermark' = after
      BY <1>1, <1>4, <1>5, <2>2 DEF WatermarkInv, Reached, Passed, RuleOf
    <2>3. QED
      BY <1>1, <2>1, <2>2
  <1>7. Grounded'
    BY <1>1, GroundedStays DEF RuleInv
  <1>8. Walked(i)' /\ Judges(i)'
    <2>1. CASE pc'[i] = "idle"
      BY <2>1, StepOut DEF Outside
    <2>2. CASE pc'[i] = "check" /\ next'[i] = after
      BY <1>1, <1>5, <2>2 DEF Walked, Judges, Reached, Passed, RuleOf
    <2>3. QED
      BY <2>1, <2>2 DEF Save, SaveFails, NextStart, Return, Goto, TypeOK, after
  <1>9. \A j \in Instances \ {i} : Walked(j)' /\ Judges(j)'
    BY <1>1, <1>2, StandStill DEF RuleInv
  <1>10. QED
    BY <1>6, <1>7, <1>8, <1>9 DEF RuleInv

\* The steps outside liveStep, and those that leave it empty-handed.
LEMMA RuleElse ==
  ASSUME TypeOK, RuleInv, NEW i \in Instances,
         \/ LoadScan(i) \/ LoadRead(i) \/ Claim(i) \/ Renew(i) \/ Extend(i) \/ Reclaim(i)
         \/ Restart(i) \/ Crash(i) \/ ClaimUnanswered(i) \/ ExtendFails(i) \/ ReclaimFails(i)
         \/ LoadScanFails(i) \/ LoadReadFails(i) \/ QueryFails(i)
  PROVE  RuleInv'
  <1>1. /\ UNCHANGED <<now, logs, watermark, raised>>
        /\ pc'[i] \in {"down", "boot", "boot_read", "idle", "reload", "reload_read", "extend",
                      "reclaim", "open"}
        /\ \A j \in Instances \ {i} : /\ pc'[j] = pc[j] /\ next'[j] = next[j]
                                      /\ batch'[j] = batch[j] /\ pending'[j] = pending[j]
    <2> USE DEF Goto, TypeOK, feedVars, storeVars, leaseVars, stepVars
    <2>1. CASE Claim(i) \/ Renew(i) \/ Extend(i) \/ Reclaim(i)
      BY <2>1 DEF Claim, Renew, Extend, Reclaim
    <2>2. CASE Restart(i) \/ Crash(i) \/ ClaimUnanswered(i) \/ ExtendFails(i) \/ ReclaimFails(i)
      BY <2>2 DEF Restart, Crash, ClaimUnanswered, ExtendFails, ReclaimFails
    <2>3. CASE LoadScan(i) \/ LoadRead(i) \/ LoadScanFails(i) \/ LoadReadFails(i)
      <3>1. \E keys : LoadRest(i, keys)
        BY <2>3 DEF LoadScan, LoadRead, LoadScanFails, LoadReadFails
      <3>2. UNCHANGED <<feedVars, storeVars, stepVars>>
        BY <2>3 DEF LoadScan, LoadRead, LoadScanFails, LoadReadFails
      <3>3. QED
        BY <3>1, <3>2 DEF LoadRest
    <2>4. CASE QueryFails(i)
      BY <2>4 DEF QueryFails, Return
    <2>5. QED
      BY <2>1, <2>2, <2>3, <2>4
  <1>2. QED
    BY <1>1, StepOut, RuleAround DEF Outside

LEMMA RuleTick ==
  ASSUME TypeOK, RuleInv, Tick, ~ Opening,
         UNCHANGED <<storeVars, leaseVars, pc, memVars, stepVars>>
  PROVE  RuleInv'
  <1>1. /\ now \in Nat /\ now' = now + 1
        /\ UNCHANGED <<logs, watermark, raised, pc, next, batch, pending>>
    BY ClockAssumption DEF Tick, TypeOK, FeedTypeOK, storeVars, stepVars
  <1>2. \A t \in Nat : Settled(t, now) => Settled(t, now')
    BY <1>1, StaysSettled
  <1>3. ASSUME NEW b, Passed(b)
        PROVE  Passed(b)'
    BY <1>1, <1>2, <1>3 DEF Passed, RuleOf
  <1>4. logs # {} => Origin(logs) \in Nat
    BY OriginType, LogRows DEF TypeOK, FeedTypeOK
  <1>5. WatermarkInv'
    <2>1. watermark # Unset => Passed(watermark)'
      <3>1. watermark # Unset => Passed(watermark)
        BY DEF RuleInv, WatermarkInv
      <3>2. QED
        BY <1>1, <1>3, <3>1 DEF Passed, RuleOf
    <2>2. QED
      BY <1>1, <1>2, <1>4, <2>1 DEF RuleInv, WatermarkInv, Reached
  <1>6. Grounded'
    BY <1>1, <1>2 DEF RuleInv, Grounded, RuleOf
  <1>7. ASSUME NEW i \in Instances
        PROVE  Walked(i)' /\ Judges(i)'
    <2>1. Walked(i) /\ Judges(i) /\ next[i] \in Nat
      BY DEF RuleInv, TypeOK
    <2>2. ~ Outside(i) => Settled(Origin(logs), now)
      <3>1. CASE pc[i] \in {"read", "detect", "save"}
        BY <1>1, <1>4, <2>1, <3>1, SettledBelow DEF Walked, Judges, Reached
      <3>2. CASE pc[i] \in {"reset", "delete"} \/ (pc[i] = "check" /\ watermark = Unset)
        BY <3>2 DEF Opening
      <3>3. CASE pc[i] = "check" /\ watermark # Unset
        BY <3>3 DEF RuleInv, WatermarkInv
      <3>4. QED
        BY <3>1, <3>2, <3>3 DEF Outside
    <2>3. Walked(i)'
      <3>1. ~ Outside(i) => Passed(next[i])
        BY <2>1, <2>2 DEF Walked, Outside
      <3>2. ~ Outside(i) => Passed(next[i])'
        BY <1>1, <1>3, <3>1 DEF Passed, RuleOf
      <3>3. QED
        BY <1>1, <2>1, <3>2 DEF Walked, Reached, Outside
    <2>4. RuleOf(next[i])' = RuleOf(next[i]) /\ WindowEvents(logs, next[i])' = WindowEvents(logs, next[i])
      BY <1>1 DEF RuleOf
    <2>5. Judges(i)'
      BY <1>1, <1>2, <2>1, <2>4 DEF Judges
    <2>6. QED
      BY <2>3, <2>5
  <1>8. QED
    BY <1>5, <1>6, <1>7 DEF RuleInv

LEMMA RuleIngest ==
  ASSUME TypeOK, RuleInv, NEW e \in Events, Ingest(e),
         UNCHANGED <<storeVars, leaseVars, pc, memVars, stepVars>>
  PROVE  RuleInv'
  <1>1. /\ now \in Nat /\ FeedTypeOK /\ logs' = logs \cup {e}
        /\ UNCHANGED <<now, watermark, raised, pc, next, batch, pending>>
    BY ClockAssumption DEF Ingest, TypeOK, FeedTypeOK, storeVars, stepVars
  <1>2. ASSUME NEW t \in Nat, Settled(t, now)
        PROVE  WindowEvents(logs', t) = WindowEvents(logs, t)
    BY <1>1, <1>2, IngestKeepsSettled
  <1>3. ASSUME logs # {}, Settled(Origin(logs'), now)
        PROVE  Origin(logs') = Origin(logs)
    BY <1>1, <1>3, IngestKeepsOrigin
  <1>4. ASSUME NEW b, Passed(b), Origin(logs') = Origin(logs)
        PROVE  Passed(b)'
    BY <1>1, <1>2, <1>4 DEF Passed, RuleOf
  <1>5. WatermarkInv'
    <2>1. SUFFICES ASSUME watermark # Unset PROVE WatermarkInv'
      BY <1>1 DEF WatermarkInv
    <2>2. logs # {} /\ Settled(Origin(logs), now) /\ Passed(watermark) /\ Reached(watermark)
      BY <2>1 DEF RuleInv, WatermarkInv, Reached
    <2>3. Origin(logs') = Origin(logs)
      BY <1>1, <2>2, SettledOriginStays
    <2>4. Passed(watermark)'
      BY <1>1, <1>4, <2>2, <2>3 DEF Passed, RuleOf
    <2>5. QED
      BY <1>1, <2>2, <2>3, <2>4 DEF WatermarkInv, Reached
  <1>6. Grounded'
    BY <1>1, <1>2 DEF RuleInv, Grounded, RuleOf
  <1>7. ASSUME NEW i \in Instances
        PROVE  Walked(i)' /\ Judges(i)'
    <2>1. Walked(i) /\ Judges(i) /\ next[i] \in Nat
      BY DEF RuleInv, TypeOK
    <2>2. Walked(i)'
      <3>1. SUFFICES ASSUME ~ Outside(i)' PROVE Walked(i)'
        BY StepOut
      <3>2. Reached(next[i]) /\ (Settled(Origin(logs), now) => Passed(next[i]))
        BY <1>1, <2>1, <3>1 DEF Walked, Outside
      <3>3. Origin(logs') \in Nat /\ Origin(logs) \in Nat /\ Origin(logs') <= Origin(logs)
        BY <1>1, <3>2, OriginType, LogRows, OriginFalls DEF Reached, FeedTypeOK
      <3>4. Reached(next[i])'
        BY <1>1, <2>1, <3>2, <3>3 DEF Reached
      <3>5. Settled(Origin(logs'), now) => Passed(next[i])'
        <4>1. Settled(Origin(logs'), now) => Passed(next[i]) /\ Origin(logs') = Origin(logs)
          BY <1>3, <3>2 DEF Reached
        <4>2. QED
          BY <1>1, <1>4, <4>1 DEF Passed, RuleOf
      <3>6. QED
        BY <1>1, <3>4, <3>5 DEF Walked
    <2>3. Judges(i)'
      <3>1. CASE Settled(next[i], now)
        <4>1. WindowEvents(logs, next[i])' = WindowEvents(logs, next[i]) /\ RuleOf(next[i])' = RuleOf(next[i])
          BY <1>1, <1>2, <2>1, <3>1 DEF RuleOf
        <4>2. QED
          BY <1>1, <2>1, <4>1 DEF Judges
      <3>2. CASE ~ Settled(next[i], now)
        BY <1>1, <2>1, <3>2 DEF Judges
      <3>3. QED
        BY <3>1, <3>2
    <2>4. QED
      BY <2>2, <2>3
  <1>8. QED
    BY <1>5, <1>6, <1>7 DEF RuleInv

LEMMA RuleInit == Init => RuleInv
  BY DEF Init, RuleInv, WatermarkInv, Grounded, Walked, Judges

LEMMA RuleStep == TypeOK /\ RuleInv /\ [Next]_vars => RuleInv'
  <1> SUFFICES ASSUME TypeOK, RuleInv, [Next]_vars PROVE RuleInv'
    OBVIOUS
  <1>1. CASE Feed
    <2>1. UNCHANGED <<storeVars, leaseVars, pc, memVars, stepVars>>
      BY <1>1 DEF Feed
    <2>2. QED
      BY <1>1, <2>1, RuleTick, RuleIngest DEF Feed
  <1>2. CASE UNCHANGED vars \/ Expire \/ ExpireHeld \/ RedisRestarts
    <2>1. UNCHANGED <<now, logs, watermark, raised, pc, next, batch, pending>>
      BY <1>2 DEF vars, Expire, ExpireHeld, RedisRestarts, feedVars, storeVars, stepVars
    <2>2. Onward
      BY <2>1 DEF Onward
    <2>3. QED
      BY <2>1, <2>2, WatermarkStays, GroundedStays, StandStill DEF RuleInv
  <1>3. CASE Failure
    BY <1>2, <1>3, RuleElse, RuleRaise, RuleReset, RuleLearn, RuleSave DEF Failure
  <1>4. ASSUME NEW i \in Instances, Process(i)
        PROVE  RuleInv'
    BY <1>4, RuleElse, RuleOpen, RuleFresh, RuleReset, RuleCheck, RuleRead, RuleRaise, RuleLearn,
       RuleSave DEF Process
  <1>5. ASSUME NEW i \in Instances, Restart(i)
        PROVE  RuleInv'
    BY <1>5, RuleElse
  <1>6. QED
    BY <1>1, <1>2, <1>3, <1>4, <1>5 DEF Next

\* Whatever fails, however often, and even when several instances sweep at once,
\* the detectors that need no baselines lose no finding and make none up.
THEOREM NoRuleFindingLost == Spec => []RuleFindingsKept
  <1>1. TypeOK /\ RuleInv => RuleFindingsKept
    <2> SUFFICES ASSUME TypeOK, RuleInv PROVE RuleFindingsKept
      OBVIOUS
    <2>1. now \in 0 .. MaxNow /\ MaxNow \in Nat
      BY ClockAssumption DEF TypeOK, FeedTypeOK
    <2>2. ASSUME NEW t \in Nat, Settled(t, now)
          PROVE  t \in 0 .. MaxNow
      BY <2>1, <2>2, StepAssumption, LagAssumption DEF Settled
    <2>3. ASSUME watermark # Unset, NEW t \in 0 .. MaxNow, Aligned(t),
                 Origin(logs) <= t, t < watermark
          PROVE  RuleFindings(WindowEvents(logs, t)) \subseteq raised
      <3>1. t \in Nat
        BY <2>1, <2>3
      <3>2. QED
        BY <2>3, <3>1 DEF RuleInv, WatermarkInv, Passed, RuleOf
    <2>4. ASSUME NEW c \in raised, c.type \notin {"identity_anomaly", "off_hours_access"}
          PROVE  \E t \in {n \in 0 .. MaxNow : Aligned(n)} :
                   Settled(t, now) /\ c \in RuleFindings(WindowEvents(logs, t))
      <3>1. PICK t \in Nat : Aligned(t) /\ Settled(t, now) /\ c \in RuleOf(t)
        BY <2>4 DEF RuleInv, Grounded, IsRule
      <3>2. QED
        BY <2>2, <3>1 DEF RuleOf
    <2>5. QED
      BY <2>3, <2>4 DEF RuleFindingsKept
  <1>2. QED
    BY <1>1, RuleInit, RuleStep, TypeInit, TypeStep, PTL DEF Spec

-----------------------------------------------------------------------------
(* Trusted origins *)

\* An origin of u that was judged: a successful access from it lies in a settled
\* window whose rule findings are all raised.
Trusted(u, ip) ==
  \E e \in logs : /\ e.user = u /\ e.ip = ip /\ e.status = "success"
                  /\ Settled(Truncate(e.ts), now) /\ RuleOf(Truncate(e.ts)) \subseteq raised

\* Every copy of the baselines, in Redis or in an instance, of a user's origins.
Known(u) == redis[u].ips \cup UNION {mem[i][u].ips : i \in Instances}

TrustInv == \A u \in Users : \A ip \in Known(u) : Trusted(u, ip)

\* What was judged stays judged.
LEMMA TrustStays ==
  ASSUME TypeOK, RuleInv, [Next]_vars, NEW u, NEW ip, Trusted(u, ip)
  PROVE  Trusted(u, ip)'
  <1>1. PICK e \in logs : /\ e.user = u /\ e.ip = ip /\ e.status = "success"
                          /\ Settled(Truncate(e.ts), now) /\ RuleOf(Truncate(e.ts)) \subseteq raised
    BY DEF Trusted
  <1> DEFINE t == Truncate(e.ts)
  <1>2. t \in Nat /\ now \in Nat /\ FeedTypeOK
    BY TruncateBounds, EventsAssumption, ClockAssumption DEF TypeOK, FeedTypeOK, Event
  <1>3. \/ UNCHANGED <<now, logs>> /\ raised \subseteq raised'
        \/ Feed
    <2>1. ASSUME NEW i \in Instances, Process(i)
          PROVE  UNCHANGED <<now, logs>> /\ raised \subseteq raised'
      BY <2>1 DEF Process, LoadScan, LoadRead, Claim, Renew, Extend, Reclaim, Open, Fresh,
         ResetScan, ResetDelete, CheckSettled, ReadWindow, Raise, LearnLead, Save, feedVars, storeVars
    <2>2. ASSUME Failure
          PROVE  UNCHANGED <<now, logs>> /\ raised \subseteq raised'
      BY <2>2 DEF Failure, ExpireHeld, RedisRestarts, Crash, ClaimUnanswered, ExtendFails,
         ReclaimFails, LoadScanFails, LoadReadFails, QueryFails, RaiseFails, ResetFails, LearnFails,
         SaveFails, feedVars, storeVars
    <2>3. ASSUME NEW i \in Instances, Restart(i)
          PROVE  UNCHANGED <<now, logs>> /\ raised \subseteq raised'
      BY <2>3 DEF Restart, feedVars, storeVars
    <2>4. CASE UNCHANGED vars \/ Expire
      BY <2>4 DEF vars, Expire, feedVars, storeVars
    <2>5. QED
      BY <2>1, <2>2, <2>3, <2>4 DEF Next
  <1>4. /\ e \in logs' /\ Settled(t, now') /\ RuleFindings(WindowEvents(logs', t)) \subseteq raised'
    <2>1. CASE UNCHANGED <<now, logs>> /\ raised \subseteq raised'
      BY <1>1, <2>1 DEF RuleOf
    <2>2. CASE Feed
      <3>1. raised' = raised
        BY <2>2 DEF Feed, storeVars
      <3>2. CASE Tick
        <4>1. now' \in Nat /\ now <= now' /\ logs' = logs
          BY <1>2, <3>2 DEF Tick
        <4>2. QED
          BY <1>1, <1>2, <3>1, <4>1, StaysSettled DEF RuleOf
      <3>3. ASSUME NEW f \in Events, Ingest(f)
            PROVE  now' = now /\ e \in logs' /\ WindowEvents(logs', t) = WindowEvents(logs, t)
        BY <1>1, <1>2, <3>3, IngestKeepsSettled DEF Ingest
      <3>4. QED
        BY <1>1, <2>2, <3>1, <3>2, <3>3 DEF Feed, RuleOf
    <2>3. QED
      BY <1>3, <2>1, <2>2
  <1>5. QED
    BY <1>1, <1>4 DEF Trusted, RuleOf

\* Merging adds origins of the merged events only.
LEMMA MergeAdds ==
  ASSUME NEW bl, NEW known, NEW S, NEW u \in Users
  PROVE  /\ Learn(bl, S)[u].ips \subseteq bl[u].ips \cup {e.ip : e \in Feeding(S, u)}
         /\ WriteThrough(bl, known, S)[u].ips \subseteq bl[u].ips \cup {e.ip : e \in Feeding(S, u)}
  BY DEF Learn, WriteThrough, Merge

LEMMA WrittenAdds ==
  ASSUME NEW bl, NEW known, NEW S, NEW e \in S, NEW n, NEW u \in Users
  PROVE  WrittenUpTo(bl, known, S, e, n)[u].ips \subseteq bl[u].ips \cup {f.ip : f \in Feeding(S, u)}
  <1> DEFINE A == Earlier(S, e)
             B == Earlier(S, e) \cup {e}
             w == WrittenUpTo(bl, known, S, e, n)
  <1>1. /\ WriteThrough(bl, known, A)[u].ips \subseteq bl[u].ips \cup {f.ip : f \in Feeding(A, u)}
        /\ WriteThrough(bl, known, B)[u].ips \subseteq bl[u].ips \cup {f.ip : f \in Feeding(B, u)}
    BY MergeAdds
  <1>2. Feeding(A, u) \subseteq Feeding(S, u) /\ Feeding(B, u) \subseteq Feeding(S, u)
    BY DEF Feeding, Earlier
  <1>3. \/ w[u].ips = WriteThrough(bl, known, A)[u].ips
        \/ w[u].ips = WriteThrough(bl, known, B)[u].ips
    BY OverlayOrigins DEF WrittenUpTo
  <1> HIDE DEF A, B, w
  <1>4. w[u].ips \subseteq bl[u].ips \cup {f.ip : f \in Feeding(S, u)}
    BY <1>1, <1>2, <1>3
  <1>5. QED
    BY <1>4 DEF w

\* Forgetting adds none.
LEMMA NothingKnown ==
  ASSUME NEW u \in Users
  PROVE  EmptyBaselines[u].ips = {} /\ NoBaseline.ips = {}
  BY DEF EmptyBaselines, NoBaseline

LEMMA WithoutKnows ==
  ASSUME NEW u \in Users, NEW keys
  PROVE  Without(keys)[u].ips \subseteq redis[u].ips
  BY OverlayOrigins, NothingKnown DEF Without

\* What Update learns has been judged.
LEMMA LeadTrusted ==
  ASSUME TypeOK, RuleInv, NEW i \in Instances, pc[i] = "detect", pending[i] = {},
         NEW u \in Users, NEW e \in Feeding(LeadEvents(batch[i], next[i]), u)
  PROVE  Trusted(u, e.ip)
  <1>1. Judges(i) /\ Walked(i) /\ next[i] \in Nat
    BY DEF RuleInv, TypeOK
  <1>2. /\ Settled(next[i], now) /\ batch[i] = WindowEvents(logs, next[i])
        /\ RuleOf(next[i]) \subseteq raised /\ Aligned(next[i])
    BY <1>1 DEF Judges, Walked, Reached
  <1>3. e \in logs /\ InLead(e.ts, next[i]) /\ e.user = u /\ e.status = "success"
    BY <1>2 DEF Feeding, LeadEvents, WindowEvents, IsSuccessfulAccess
  <1>4. Truncate(e.ts) = next[i]
    BY <1>1, <1>2, <1>3, LeadsOnce, EventsAssumption DEF TypeOK, FeedTypeOK, Event
  <1>5. QED
    BY <1>2, <1>3, <1>4 DEF Trusted

LEMMA KnownGrows ==
  ASSUME TypeOK, NEW i \in Instances, NEW u, NEW G,
         \A j \in Instances \ {i} : mem'[j] = mem[j],
         mem'[i][u].ips \subseteq Known(u) \cup G, redis'[u].ips \subseteq Known(u) \cup G
  PROVE  Known(u)' \subseteq Known(u) \cup G
  BY DEF Known

LEMMA TrustLearn ==
  ASSUME TypeOK, RuleInv, TrustInv, [Next]_vars, NEW i \in Instances, LearnLead(i) \/ LearnFails(i)
  PROVE  TrustInv'
  <1> DEFINE lead == LeadEvents(batch[i], next[i])
             fed == UNION {Feeding(lead, u) : u \in Users}
  <1>1. pc[i] = "detect" /\ pending[i] = {}
    BY DEF LearnLead, LearnFails, Judged
  <1>2. \/ /\ mem' = [mem EXCEPT ![i] = Learn(mem[i], lead)]
           /\ redis' = WriteThrough(redis, mem[i], lead)
        \/ /\ mem' = [mem EXCEPT ![i] = Learn(mem[i], fed)]
           /\ \E e \in fed : \E n \in 0 .. 5 : redis' = WrittenUpTo(redis, mem[i], fed, e, n)
    BY DEF LearnLead, LearnFails
  <1>3. \A u : Feeding(fed, u) \subseteq Feeding(lead, u)
    BY DEF Feeding
  <1> HIDE DEF lead, fed
  <1>4. ASSUME NEW u \in Users
        PROVE  /\ mem'[i][u].ips \subseteq mem[i][u].ips \cup {e.ip : e \in Feeding(lead, u)}
               /\ redis'[u].ips \subseteq redis[u].ips \cup {e.ip : e \in Feeding(lead, u)}
    <2>1. CASE /\ mem' = [mem EXCEPT ![i] = Learn(mem[i], lead)]
               /\ redis' = WriteThrough(redis, mem[i], lead)
      BY <2>1, MergeAdds DEF TypeOK
    <2>2. CASE /\ mem' = [mem EXCEPT ![i] = Learn(mem[i], fed)]
               /\ \E e \in fed : \E n \in 0 .. 5 : redis' = WrittenUpTo(redis, mem[i], fed, e, n)
      <3>1. mem'[i][u].ips \subseteq mem[i][u].ips \cup {e.ip : e \in Feeding(fed, u)}
        BY <2>2, MergeAdds DEF TypeOK
      <3>2. redis'[u].ips \subseteq redis[u].ips \cup {e.ip : e \in Feeding(fed, u)}
        BY <2>2, WrittenAdds
      <3>3. {e.ip : e \in Feeding(fed, u)} \subseteq {e.ip : e \in Feeding(lead, u)}
        BY <1>3
      <3>4. QED
        BY <3>1, <3>2, <3>3
    <2>3. QED
      BY <1>2, <2>1, <2>2
  <1>5. ASSUME NEW u \in Users, NEW ip \in Known(u)'
        PROVE  Trusted(u, ip)'
    <2> DEFINE G == {e.ip : e \in Feeding(lead, u)}
    <2>1. mem'[i][u].ips \subseteq Known(u) \cup G /\ redis'[u].ips \subseteq Known(u) \cup G
      BY <1>4 DEF Known
    <2>2. \A j \in Instances \ {i} : mem'[j] = mem[j]
      BY <1>2 DEF TypeOK
    <2>3. ip \in Known(u) \cup G
      <3> HIDE DEF G
      <3> QED BY <1>5, <2>1, <2>2, KnownGrows
    <2>4. \A e \in Feeding(lead, u) : Trusted(u, e.ip)
      BY <1>1, LeadTrusted DEF lead
    <2>5. Trusted(u, ip)
      BY <2>3, <2>4 DEF TrustInv
    <2>6. QED
      BY <2>5, TrustStays
  <1>6. QED
    BY <1>5 DEF TrustInv

LEMMA TrustElse ==
  ASSUME TypeOK, RuleInv, TrustInv, [Next]_vars,
         \A i \in Instances : ~ LearnLead(i) /\ ~ LearnFails(i)
  PROVE  TrustInv'
  <1>1. ASSUME NEW u \in Users
        PROVE  Known(u)' \subseteq Known(u)
    <2>1. CASE UNCHANGED mem /\ redis'[u].ips \subseteq redis[u].ips
      BY <2>1 DEF Known
    <2>2. ASSUME NEW i \in Instances, NEW X, mem' = [mem EXCEPT ![i] = X], X[u].ips \subseteq Known(u),
                 redis'[u].ips \subseteq redis[u].ips
          PROVE  Known(u)' \subseteq Known(u)
      <3>1. mem'[i][u].ips \subseteq Known(u) /\ redis'[u].ips \subseteq Known(u)
        BY <2>2 DEF Known, TypeOK
      <3>2. \A j \in Instances \ {i} : mem'[j] = mem[j]
        BY <2>2 DEF TypeOK
      <3>3. QED
        BY <3>1, <3>2, KnownGrows
    <2>3. ASSUME NEW i \in Instances, LoadScan(i) \/ LoadScanFails(i) \/ ResetScan(i) \/ Crash(i)
          PROVE  Known(u)' \subseteq Known(u)
      <3>1. mem' = [mem EXCEPT ![i] = EmptyBaselines] /\ redis' = redis
        BY <2>3 DEF LoadScan, LoadScanFails, ResetScan, Crash, storeVars
      <3>2. QED
        BY <2>2, <3>1, NothingKnown
    <2>4. ASSUME NEW i \in Instances, LoadRead(i)
          PROVE  Known(u)' \subseteq Known(u)
      <3>1. PICK k : mem' = [mem EXCEPT ![i] = Overlay(mem[i], redis, {k})]
        BY <2>4 DEF LoadRead
      <3>2. redis' = redis
        BY <2>4 DEF LoadRead, storeVars
      <3>3. Overlay(mem[i], redis, {k})[u].ips \in {mem[i][u].ips, redis[u].ips}
        BY OverlayOrigins
      <3>4. Overlay(mem[i], redis, {k})[u].ips \subseteq Known(u)
        BY <3>3 DEF Known
      <3>5. QED
        BY <2>2, <3>1, <3>2, <3>4
    <2>5. ASSUME NEW i \in Instances, LoadReadFails(i)
          PROVE  Known(u)' \subseteq Known(u)
      <3>1. redis' = redis
        BY <2>5 DEF LoadReadFails, storeVars
      <3>2. UNCHANGED mem \/ \E k \in NextKeys(scanned[i]) : mem' = [mem EXCEPT ![i][k[1]] = NoBaseline]
        BY <2>5 DEF LoadReadFails
      <3>3. ASSUME NEW k \in NextKeys(scanned[i]), mem' = [mem EXCEPT ![i][k[1]] = NoBaseline]
            PROVE  Known(u)' \subseteq Known(u)
        <4> DEFINE X == [mem[i] EXCEPT ![k[1]] = NoBaseline]
        <4>1. mem' = [mem EXCEPT ![i] = X]
          BY <3>3
        <4>2. mem[i] \in [Users -> UserBaseline]
          BY DEF TypeOK
        <4>3. X[u] = NoBaseline \/ X[u] = mem[i][u]
          BY <4>2
        <4>4. X[u].ips \subseteq Known(u)
          BY <4>3, NothingKnown DEF Known
        <4> HIDE DEF X
        <4>5. QED
          BY <2>2, <3>1, <4>1, <4>4
      <3>4. QED
        BY <2>1, <3>1, <3>2, <3>3
    <2>6. ASSUME NEW i \in Instances, ResetDelete(i) \/ ResetFails(i)
          PROVE  Known(u)' \subseteq Known(u)
      <3>1. redis' \in {redis, Without(scanned[i])}
        BY <2>6 DEF ResetDelete, ResetFails
      <3>2. redis'[u].ips \subseteq redis[u].ips
        BY <3>1, WithoutKnows
      <3>3. UNCHANGED mem \/ mem' = [mem EXCEPT ![i] = EmptyBaselines]
        BY <2>6 DEF ResetDelete, ResetFails
      <3>4. QED
        BY <2>1, <2>2, <3>2, <3>3, NothingKnown
    <2>7. ASSUME NEW i \in Instances, Process(i), ~ LoadScan(i), ~ LoadRead(i), ~ ResetScan(i),
                 ~ ResetDelete(i)
          PROVE  UNCHANGED <<mem, redis>>
      BY <2>7 DEF Process, Claim, Renew, Extend, Reclaim, Open, Fresh, CheckSettled, ReadWindow,
         Raise, Save, storeVars, memVars
    <2>8. ASSUME NEW i \in Instances,
                 \/ ClaimUnanswered(i) \/ ExtendFails(i) \/ ReclaimFails(i) \/ QueryFails(i)
                 \/ RaiseFails(i) \/ SaveFails(i) \/ Restart(i)
          PROVE  UNCHANGED <<mem, redis>>
      BY <2>8 DEF ClaimUnanswered, ExtendFails, ReclaimFails, QueryFails, RaiseFails, SaveFails,
         Restart, storeVars, memVars
    <2>9. CASE Feed \/ Expire \/ ExpireHeld \/ RedisRestarts \/ UNCHANGED vars
      <3>1. UNCHANGED mem /\ redis' \in {redis, EmptyBaselines}
        BY <2>9 DEF Feed, Expire, ExpireHeld, RedisRestarts, vars, storeVars, memVars
      <3>2. QED
        BY <2>1, <3>1, NothingKnown
    <2>10. QED
      BY <2>1, <2>3, <2>4, <2>5, <2>6, <2>7, <2>8, <2>9 DEF Next, Failure
  <1>2. QED
    BY <1>1, TrustStays DEF TrustInv

LEMMA TrustInit == Init => TrustInv
  <1>1. ASSUME Init, NEW u \in Users
        PROVE  Known(u) = {}
    BY <1>1 DEF Init, Known, EmptyBaselines, NoBaseline
  <1>2. QED
    BY <1>1 DEF TrustInv

LEMMA TrustStep == TypeOK /\ RuleInv /\ TrustInv /\ [Next]_vars => TrustInv'
  BY TrustLearn, TrustElse

\* Whatever fails, however often, and even when several instances sweep at once,
\* no copy of the baselines trusts an origin before it was judged ("an attack's
\* own events can never vouch for themselves", sweep).
THEOREM JudgedBeforeTrusted == Spec => []TrustedOnlyIfJudged
  <1>1. TrustInv => TrustedOnlyIfJudged
    <2> SUFFICES ASSUME TrustInv, NEW u \in Users,
                        NEW copy \in {redis} \cup {mem[i] : i \in Instances}, NEW ip \in copy[u].ips
                 PROVE  \E e \in logs : /\ e.user = u /\ e.ip = ip /\ e.status = "success"
                                        /\ RuleFindings(WindowEvents(logs, Truncate(e.ts))) \subseteq raised
      BY DEF TrustedOnlyIfJudged
    <2>1. ip \in Known(u)
      BY DEF Known
    <2>2. QED
      BY <2>1 DEF TrustInv, Trusted, RuleOf
  <1>2. QED
    BY <1>1, TypeInit, TypeStep, RuleInit, RuleStep, TrustInit, TrustStep, PTL DEF Spec

-----------------------------------------------------------------------------
(* The lease *)

\* No lease lapses under an instance that is renewing it or sweeping.
LeaseOutlivesStep == Faults \cap {"lapse_renewal", "lapse_sweep", "redis_restart"} = {}

\* Past acquireLease, or between its GET and its SET.
Leased(i) == pc[i] \in {"reload", "reload_read", "extend"} \/ Sweeping(i)

\* OneSweeper is not inductive: a second instance enters liveStep through the
\* calls that precede it, and those must already own the lease.
LeaseInv == \A i \in Instances : Leased(i) => lease = i

LEMMA LeaseInit == Init => LeaseInv
  BY DEF Init, LeaseInv, Leased, Sweeping

\* Load keeps its instance on the side of the lease on which it is.
LEMMA LoadLease ==
  ASSUME TypeOK, NEW i \in Instances, NEW keys, LoadRest(i, keys),
         Booting(i) \/ Reloading(i)
  PROVE  /\ pc'[i] \in (IF Booting(i) THEN {"boot_read", "idle"} ELSE {"reload_read", "open"})
         /\ \A j \in Instances \ {i} : pc'[j] = pc[j] /\ held'[j] = held[j]
         /\ held'[i] = (IF pc'[i] \in {"boot_read", "reload_read"} THEN held[i] ELSE pc'[i] = "open")
  <1>1. Booting(i) <=> ~ Reloading(i)
    BY DEF Booting, Reloading
  <1>2. CASE keys # {}
    <2>1. UNCHANGED held /\ pc' = [pc EXCEPT ![i] = IF Booting(i) THEN "boot_read" ELSE "reload_read"]
      BY <1>2 DEF LoadRest, Goto
    <2>2. QED
      BY <2>1 DEF TypeOK
  <1>3. CASE keys = {}
    <2>1. /\ held' = [held EXCEPT ![i] = Reloading(i)]
          /\ pc' = [pc EXCEPT ![i] = IF Booting(i) THEN "idle" ELSE "open"]
      BY <1>3 DEF LoadRest, Goto
    <2>2. CASE Booting(i)
      <3>1. ~ Reloading(i)
        BY <1>1, <2>2
      <3>2. held'[i] = FALSE
        BY <2>1, <3>1 DEF TypeOK
      <3>3. QED
        BY <2>1, <2>2, <3>2 DEF TypeOK
    <2>3. CASE Reloading(i)
      <3>1. ~ Booting(i)
        BY <1>1, <2>3
      <3>2. held'[i] = TRUE
        BY <2>1, <2>3 DEF TypeOK
      <3>3. QED
        BY <2>1, <3>1, <3>2 DEF TypeOK
    <2>4. QED
      BY <2>2, <2>3
  <1>4. QED
    BY <1>2, <1>3

LEMMA LeaseProcess ==
  ASSUME TypeOK, LeaseInv, NEW i \in Instances, Process(i)
  PROVE  LeaseInv'
  <1> USE DEF LeaseInv, Leased, Sweeping, Goto, TypeOK
  <1>1. \A j \in Instances \ {i} : pc'[j] = pc[j]
    BY DEF Process, LoadScan, LoadRead, LoadRest, Claim, Renew, Extend, Reclaim, Open, Fresh,
           ResetScan, ResetDelete, CheckSettled, ReadWindow, Raise, LearnLead, Save, Return
  <1>2. CASE LoadScan(i) \/ LoadRead(i)
    <2>1. lease' = lease /\ (Booting(i) \/ Reloading(i)) /\ \E keys : LoadRest(i, keys)
      BY <1>2 DEF LoadScan, LoadRead, Booting, Reloading
    <2>2. pc'[i] \in (IF Booting(i) THEN {"boot_read", "idle"} ELSE {"reload_read", "open"})
      <3> HIDE DEF TypeOK
      <3> QED BY <2>1, LoadLease
    <2>3. QED
      BY <1>1, <2>1, <2>2 DEF Booting, Reloading
  <1>3. CASE Claim(i)
    BY <1>3, <1>1, InstancesAssumption DEF Claim, SetNX
  <1>5. CASE Renew(i)
    BY <1>5, <1>1 DEF Renew
  <1>6. CASE Extend(i)
    BY <1>6, <1>1 DEF Extend
  <1>7. CASE Reclaim(i)
    BY <1>7, <1>1, InstancesAssumption DEF Reclaim, SetNX
  <1>8. CASE Open(i)
    BY <1>8, <1>1 DEF Open, leaseVars
  <1>9. CASE Fresh(i)
    BY <1>9, <1>1 DEF Fresh, Return, leaseVars
  <1>10. CASE ResetScan(i) \/ ResetDelete(i)
    BY <1>10, <1>1 DEF ResetScan, ResetDelete, leaseVars
  <1>11. CASE CheckSettled(i)
    BY <1>11, <1>1 DEF CheckSettled, Return, leaseVars
  <1>12. CASE ReadWindow(i)
    BY <1>12, <1>1 DEF ReadWindow, leaseVars
  <1>13. CASE Raise(i)
    BY <1>13, <1>1 DEF Raise, leaseVars
  <1>14. CASE LearnLead(i)
    BY <1>14, <1>1 DEF LearnLead, Judged, leaseVars
  <1>15. CASE Save(i)
    BY <1>15, <1>1 DEF Save, leaseVars
  <1>16. QED
    BY <1>2, <1>3, <1>5, <1>6, <1>7, <1>8, <1>9, <1>10, <1>11, <1>12, <1>13, <1>14, <1>15
       DEF Process

LEMMA LeaseFailure ==
  ASSUME TypeOK, LeaseInv, LeaseOutlivesStep, Failure
  PROVE  LeaseInv'
  <1> USE DEF LeaseInv, Leased, Sweeping, Goto, Return, TypeOK, leaseVars
  <1>1. CASE ExpireHeld
    <2>1. lease \in Instances /\ ~ Leased(lease)
      BY <1>1 DEF ExpireHeld, Fault, LeaseOutlivesStep, Reloading
    <2>2. \A j \in Instances : ~ Leased(j)
      BY <2>1
    <2>3. QED
      BY <1>1, <2>2 DEF ExpireHeld
  <1>2. CASE RedisRestarts
    BY <1>2 DEF RedisRestarts, Fault, LeaseOutlivesStep
  <1>3. ASSUME NEW i \in Instances, Crash(i)
        PROVE  LeaseInv'
    BY <1>3 DEF Crash
  <1>4. ASSUME NEW i \in Instances, ClaimUnanswered(i)
        PROVE  LeaseInv'
    BY <1>4, InstancesAssumption DEF ClaimUnanswered, SetNX
  <1>5. ASSUME NEW i \in Instances, ExtendFails(i)
        PROVE  LeaseInv'
    BY <1>5 DEF ExtendFails
  <1>6. ASSUME NEW i \in Instances, ReclaimFails(i)
        PROVE  LeaseInv'
    BY <1>6, InstancesAssumption DEF ReclaimFails
  <1>7. ASSUME NEW i \in Instances, LoadScanFails(i) \/ LoadReadFails(i)
        PROVE  LeaseInv'
    <2>1. lease' = lease /\ (Booting(i) \/ Reloading(i)) /\ \E keys : LoadRest(i, keys)
      BY <1>7 DEF LoadScanFails, LoadReadFails, Booting, Reloading
    <2>2. /\ pc'[i] \in (IF Booting(i) THEN {"boot_read", "idle"} ELSE {"reload_read", "open"})
          /\ \A j \in Instances \ {i} : pc'[j] = pc[j]
      <3> HIDE DEF TypeOK
      <3> QED BY <2>1, LoadLease
    <2>3. QED
      BY <2>1, <2>2 DEF Booting, Reloading
  <1>8. ASSUME NEW i \in Instances,
               QueryFails(i) \/ RaiseFails(i) \/ ResetFails(i) \/ LearnFails(i) \/ SaveFails(i)
        PROVE  LeaseInv'
    <2>1. lease' = lease /\ pc' = [pc EXCEPT ![i] = "idle"]
      BY <1>8 DEF QueryFails, RaiseFails, ResetFails, LearnFails, SaveFails
    <2>2. QED
      BY <2>1
  <1>9. QED
    BY <1>1, <1>2, <1>3, <1>4, <1>5, <1>6, <1>7, <1>8 DEF Failure

LEMMA LeaseStep ==
  ASSUME LeaseOutlivesStep
  PROVE  TypeOK /\ LeaseInv /\ [Next]_vars => LeaseInv'
  <1> SUFFICES ASSUME TypeOK, LeaseInv, [Next]_vars PROVE LeaseInv'
    OBVIOUS
  <1>1. CASE Feed
    BY <1>1 DEF Feed, LeaseInv, Leased, Sweeping, leaseVars
  <1>2. CASE Expire
    BY <1>2, InstancesAssumption DEF Expire, Unattended, LeaseInv, Leased, Sweeping
  <1>3. CASE Failure
    BY <1>3, LeaseFailure
  <1>4. ASSUME NEW i \in Instances, Process(i)
        PROVE  LeaseInv'
    BY <1>4, LeaseProcess
  <1>5. ASSUME NEW i \in Instances, Restart(i)
        PROVE  LeaseInv'
    BY <1>5 DEF Restart, Goto, LeaseInv, Leased, Sweeping, TypeOK, leaseVars
  <1>6. CASE UNCHANGED vars
    BY <1>6 DEF vars, LeaseInv, Leased, Sweeping
  <1>7. QED
    BY <1>1, <1>2, <1>3, <1>4, <1>5, <1>6 DEF Next

\* The single-writer lease does what RunLive says of it, whatever crashes and
\* fails, as long as no live step outlives the lease it was granted.
THEOREM MutualExclusion ==
  ASSUME LeaseOutlivesStep
  PROVE  Spec => []OneSweeper
  <1>1. LeaseInv => OneSweeper
    BY DEF LeaseInv, Leased, OneSweeper
  <1>2. QED
    BY <1>1, LeaseInit, LeaseStep, TypeInit, TypeStep, PTL DEF Spec

-----------------------------------------------------------------------------
(* The refinement of SweepSpec *)

\* The faults the pipeline hides altogether.  A lease that lapses under its
\* holder, a crash or a failed write between Update and SetState, and a failing
\* Redis read or write are not among them.
Tolerated == Faults \subseteq {"crash", "postgres", "redis_lease", "redis_reset"}

-----------------------------------------------------------------------------
(* The inductive invariant of the refinement *)

\* held is only ever true of the owner of the lease, so that a reload follows
\* every change of hands.  Whoever loads does not hold yet, and only a SCAN that
\* is being worked off has left keys.
HolderInv ==
  \A i \in Instances :
    /\ Leased(i) \/ held[i] => lease = i
    /\ pc[i] = "extend" \/ Sweeping(i) => held[i]
    /\ pc[i] # "reclaim"
    /\ pc[i] \in {"down", "boot", "boot_read", "reload", "reload_read"} => ~ held[i]
    /\ pc[i] \notin {"boot_read", "reload_read", "delete"} => scanned[i] = {}

HistoryBefore(t) == BaselineOf(Before(logs, t))

StandsAt(t) == logs # {} /\ t = (IF watermark = Unset THEN Origin(logs) ELSE watermark)

\* Load reads back all that Redis holds.
Loadable == \A u \in Users : redis[u].ips = {} => redis[u] = NoBaseline

\* The persisted window has settled, and Redis holds the history before it.
Persisted ==
  watermark # Unset =>
    /\ logs # {} /\ watermark + Step < now - Lag
    /\ (\A i \in Instances : pc[i] # "save") => redis = HistoryBefore(watermark)

\* The holder's memory mirrors Redis, but for what a fresh start will reset.  On
\* the way there, it lacks what is left of a SCAN to read, and Redis has left
\* what is left of one to delete.
InStep(i) ==
  /\ held[i] => \/ mem[i] = redis
                \/ /\ watermark = Unset
                   /\ pc[i] \in {"idle", "extend", "open", "fresh", "reset", "delete"}
  /\ pc[i] = "reload_read" => Overlay(mem[i], redis, scanned[i]) = redis
  /\ pc[i] = "delete" => mem[i] = EmptyBaselines /\ Without(scanned[i]) = EmptyBaselines

\* Where liveStep stands.  The origin of a fresh start may be overtaken by an
\* earlier event, but never once its window has settled.
Position(i) ==
  /\ pc[i] \in {"fresh", "reset", "delete"} => watermark = Unset
  /\ pc[i] \in {"reset", "delete", "check"} =>
       StandsAt(next[i]) \/ (watermark = Unset /\ logs # {} /\ ~ Settled(next[i], now))
  /\ pc[i] \in {"read", "detect", "save"} => StandsAt(next[i]) /\ Settled(next[i], now)

\* What it has read, found, raised and learned.
Progress(i) ==
  LET F == FindingsAt(logs, next[i])
  IN /\ pc[i] \in {"check", "read", "detect"} /\ watermark = Unset => redis = EmptyBaselines
     /\ pc[i] \in {"detect", "save"} => batch[i] = WindowEvents(logs, next[i])
     /\ pc[i] = "detect" => pending[i] \subseteq F /\ F \subseteq raised \cup pending[i]
     /\ pc[i] = "save" => F \subseteq raised /\ redis = HistoryBefore(next[i] + Step)

Local(i) == InStep(i) /\ Position(i) /\ Progress(i)

SweepInv == Loadable /\ Persisted /\ \A i \in Instances : Local(i)

-----------------------------------------------------------------------------
(* One holder *)

LEMMA HolderInit == Init => HolderInv
  BY DEF Init, HolderInv, Leased, Sweeping

LEMMA HolderProcess ==
  ASSUME TypeOK, HolderInv, NEW i \in Instances, Process(i)
  PROVE  HolderInv'
  <1> USE DEF HolderInv, Leased, Sweeping, Goto, TypeOK
  <1>1. \A j \in Instances \ {i} : pc'[j] = pc[j] /\ held'[j] = held[j] /\ scanned'[j] = scanned[j]
    <2> USE DEF leaseVars, memVars, Return
    <2>1. CASE LoadScan(i) \/ LoadRead(i)
      <3>1. PICK keys : LoadRest(i, keys)
        BY <2>1 DEF LoadScan, LoadRead
      <3>2. scanned' = [scanned EXCEPT ![i] = keys]
        BY <3>1 DEF LoadRest
      <3>3. UNCHANGED held \/ held' = [held EXCEPT ![i] = Reloading(i)]
        BY <3>1 DEF LoadRest
      <3>4. \E call : pc' = [pc EXCEPT ![i] = call]
        BY <3>1 DEF LoadRest
      <3>5. QED
        BY <3>2, <3>3, <3>4
    <2>2. CASE Claim(i) \/ Renew(i) \/ Extend(i) \/ Reclaim(i) \/ Open(i) \/ Fresh(i)
      BY <2>2 DEF Claim, Renew, Extend, Reclaim, Open, Fresh
    <2>3. CASE ResetScan(i) \/ ResetDelete(i) \/ CheckSettled(i) \/ ReadWindow(i) \/ Raise(i)
               \/ LearnLead(i) \/ Save(i)
      BY <2>3 DEF ResetScan, ResetDelete, CheckSettled, ReadWindow, Raise, LearnLead, Save
    <2>4. QED
      BY <2>1, <2>2, <2>3 DEF Process
  <1>2. CASE LoadScan(i) \/ LoadRead(i)
    <2>1. PICK keys : LoadRest(i, keys)
      BY <1>2 DEF LoadScan, LoadRead
    <2>2. lease' = lease /\ (Booting(i) \/ Reloading(i)) /\ ~ held[i]
      BY <1>2 DEF LoadScan, LoadRead, Booting, Reloading
    <2>3. /\ pc'[i] \in (IF Booting(i) THEN {"boot_read", "idle"} ELSE {"reload_read", "open"})
          /\ held'[i] = (IF pc'[i] \in {"boot_read", "reload_read"} THEN held[i] ELSE pc'[i] = "open")
      <3> HIDE DEF TypeOK
      <3> QED BY <2>1, <2>2, LoadLease
    <2>4. pc'[i] \in {"idle", "open"} => scanned'[i] = {}
      <3>1. pc'[i] = (IF keys # {} THEN IF Booting(i) THEN "boot_read" ELSE "reload_read"
                                   ELSE IF Booting(i) THEN "idle" ELSE "open")
        BY <2>1 DEF LoadRest
      <3>2. scanned'[i] = keys
        BY <2>1 DEF LoadRest
      <3>3. QED
        BY <3>1, <3>2
    <2>5. CASE Booting(i)
      <3>1. pc'[i] \in {"boot_read", "idle"} /\ ~ held'[i] /\ lease' = lease
        BY <2>2, <2>3, <2>5
      <3>2. QED
        BY <1>1, <2>4, <3>1
    <2>6. CASE ~ Booting(i)
      <3>1. /\ pc[i] \in {"reload", "reload_read"} /\ pc'[i] \in {"reload_read", "open"}
            /\ pc'[i] = "reload_read" => ~ held'[i]
            /\ pc'[i] = "open" => held'[i]
        BY <2>2, <2>3, <2>6 DEF Reloading
      <3>2. lease = i /\ lease' = lease
        BY <2>2, <3>1
      <3>3. QED
        BY <1>1, <2>4, <3>1, <3>2
    <2>7. QED
      BY <2>5, <2>6
  <1>3. CASE Claim(i)
    BY <1>3, <1>1, InstancesAssumption DEF Claim, SetNX, memVars
  <1>4. CASE Renew(i)
    BY <1>4, <1>1, InstancesAssumption DEF Renew, memVars
  <1>5. CASE Extend(i)
    BY <1>5, <1>1 DEF Extend, memVars
  <1>6. CASE Reclaim(i)
    BY <1>6 DEF Reclaim
  <1>7. CASE Open(i) \/ Fresh(i) \/ CheckSettled(i)
    BY <1>7, <1>1 DEF Open, Fresh, CheckSettled, Return, leaseVars, memVars
  <1>8. CASE ResetScan(i) \/ ResetDelete(i)
    BY <1>8, <1>1 DEF ResetScan, ResetDelete, leaseVars
  <1>9. CASE ReadWindow(i) \/ Raise(i) \/ LearnLead(i) \/ Save(i)
    BY <1>9, <1>1 DEF ReadWindow, Raise, LearnLead, Judged, Save, leaseVars, memVars
  <1>10. QED
    BY <1>2, <1>3, <1>4, <1>5, <1>6, <1>7, <1>8, <1>9 DEF Process

\* The failures that Tolerated admits.
LEMMA TolerableFailure ==
  ASSUME Tolerated, HolderInv, Failure
  PROVE  \E i \in Instances :
           \/ Crash(i) /\ ~ (pc[i] = "save" /\ batch[i] # {})
           \/ ClaimUnanswered(i) \/ ExtendFails(i)
           \/ QueryFails(i) \/ RaiseFails(i) \/ ResetFails(i)
  <1>1. ~ ExpireHeld /\ ~ RedisRestarts
    BY DEF Tolerated, ExpireHeld, RedisRestarts, Fault
  <1>2. \A i \in Instances :
          /\ ~ ReclaimFails(i) /\ ~ LoadScanFails(i) /\ ~ LoadReadFails(i)
          /\ ~ LearnFails(i) /\ ~ SaveFails(i)
    BY DEF Tolerated, HolderInv, ReclaimFails, LoadScanFails, LoadReadFails, LearnFails, SaveFails,
       Fault
  <1>3. \A i \in Instances : Crash(i) => ~ (pc[i] = "save" /\ batch[i] # {})
    BY DEF Tolerated, Crash, Fault
  <1>4. QED
    BY <1>1, <1>2, <1>3 DEF Failure

LEMMA HolderStep ==
  ASSUME Tolerated
  PROVE  TypeOK /\ HolderInv /\ [Next]_vars => HolderInv'
  <1> SUFFICES ASSUME TypeOK, HolderInv, [Next]_vars PROVE HolderInv'
    OBVIOUS
  <1> USE DEF HolderInv, Leased, Sweeping, TypeOK
  <1>1. CASE Feed
    BY <1>1 DEF Feed, leaseVars, memVars
  <1>2. CASE Expire
    BY <1>2, InstancesAssumption DEF Expire, Unattended, memVars
  <1>3. CASE Failure
    <2>1. PICK i \in Instances :
            \/ Crash(i)
            \/ ClaimUnanswered(i) \/ ExtendFails(i)
            \/ QueryFails(i) \/ RaiseFails(i) \/ ResetFails(i)
      BY <1>3, TolerableFailure
    <2>2. CASE Crash(i)
      BY <2>2 DEF Crash
    <2>3. CASE ClaimUnanswered(i)
      BY <2>3, InstancesAssumption DEF ClaimUnanswered, SetNX, memVars
    <2>4. CASE ExtendFails(i)
      BY <2>4 DEF ExtendFails, Goto, memVars
    <2>5. CASE QueryFails(i) \/ RaiseFails(i) \/ ResetFails(i)
      BY <2>5 DEF QueryFails, RaiseFails, ResetFails, Return, Goto, leaseVars, memVars
    <2>6. QED
      BY <2>1, <2>2, <2>3, <2>4, <2>5
  <1>4. ASSUME NEW i \in Instances, Process(i)
        PROVE  HolderInv'
    BY <1>4, HolderProcess
  <1>5. ASSUME NEW i \in Instances, Restart(i)
        PROVE  HolderInv'
    BY <1>5 DEF Restart, Goto, leaseVars, memVars
  <1>6. CASE UNCHANGED vars
    BY <1>6 DEF vars
  <1>7. QED
    BY <1>1, <1>2, <1>3, <1>4, <1>5, <1>6 DEF Next

-----------------------------------------------------------------------------
(* The sweep of one instance *)

\* Inside liveStep, the others are down, booting or waiting, without the lease.
LEMMA Alone ==
  ASSUME HolderInv, NEW i \in Instances, Leased(i) \/ held[i], NEW j \in Instances \ {i}
  PROVE  ~ Leased(j) /\ ~ held[j]
  BY DEF HolderInv

\* What an instance without the lease remembers does not matter.
LEMMA Bystander ==
  ASSUME NEW j \in Instances, ~ Leased(j)', ~ held'[j]
  PROVE  Local(j)'
  BY DEF Local, InStep, Position, Progress, Leased, Sweeping

\* A step of i that writes nothing, or that i takes within liveStep, leaves the
\* other instances where they are.
LEMMA OthersKeep ==
  ASSUME HolderInv, SweepInv, NEW i \in Instances,
         UNCHANGED <<now, logs, redis, watermark, raised>> \/ Leased(i),
         NEW j \in Instances \ {i},
         /\ pc'[j] = pc[j] /\ held'[j] = held[j] /\ mem'[j] = mem[j] /\ scanned'[j] = scanned[j]
         /\ next'[j] = next[j] /\ batch'[j] = batch[j] /\ pending'[j] = pending[j]
  PROVE  Local(j)'
  <1>1. CASE Leased(i)
    <2>1. ~ Leased(j) /\ ~ held[j]
      BY <1>1, Alone
    <2>2. ~ Leased(j)' /\ ~ held'[j]
      BY <2>1 DEF Leased, Sweeping
    <2>3. QED
      BY <2>2, Bystander
  <1>2. CASE UNCHANGED <<now, logs, redis, watermark, raised>>
    <2>1. Local(j)
      BY DEF SweepInv
    <2>2. HistoryBefore(next[j] + Step)' = HistoryBefore(next'[j] + Step)
      BY <1>2 DEF HistoryBefore
    <2>3. QED
      BY <1>2, <2>1
         DEF Local, InStep, Without, Position, Progress, StandsAt, HistoryBefore, FindingsAt
  <1>3. QED
    BY <1>1, <1>2

\* The history a sweep reads is the history before the window it stands at.
LEMMA HolderHistory ==
  ASSUME TypeOK, HolderInv, SweepInv, NEW i \in Instances, pc[i] \in {"check", "read", "detect"},
         StandsAt(next[i])
  PROVE  redis = HistoryBefore(next[i]) /\ mem[i] = redis
  <1>1. Sweeping(i) /\ Local(i)
    BY DEF Sweeping, SweepInv
  <1>2. held[i] /\ mem[i] = redis
    BY <1>1 DEF HolderInv, Local, InStep
  <1>3. CASE watermark = Unset
    <2>1. logs # {} /\ next[i] = Origin(logs) /\ logs \in SUBSET Events
      BY <1>3 DEF StandsAt, TypeOK, FeedTypeOK
    <2>2. HistoryBefore(next[i]) = BaselineOf({})
      BY <2>1, NothingBeforeOrigin, LogRows DEF HistoryBefore
    <2>3. redis = EmptyBaselines
      BY <1>1, <1>3 DEF Local, Progress
    <2>4. QED
      BY <1>2, <2>2, <2>3, BaselineOfNone
  <1>4. CASE watermark # Unset
    <2>1. \A j \in Instances : pc[j] # "save"
      BY <1>1, Alone DEF Leased, Sweeping
    <2>2. QED
      BY <1>2, <1>4, <2>1 DEF SweepInv, Persisted, StandsAt
  <1>5. QED
    BY <1>3, <1>4

\* A history is loaded as it was learned.
LEMMA HistoryLoads ==
  ASSUME AccessesHaveOrigin(Events), TypeOK, NEW t, NEW u \in Users, HistoryBefore(t)[u].ips = {}
  PROVE  HistoryBefore(t)[u] = NoBaseline
  <1>1. Before(logs, t) \in SUBSET Events
    BY DEF Before, TypeOK, FeedTypeOK
  <1>2. QED
    BY <1>1, OriginsTell DEF HistoryBefore

LEMMA LoadAll == ASSUME TypeOK, Loadable PROVE Load(redis) = redis
  BY LoadsAll DEF TypeOK, Loadable

\* The windows before the next one learned, the next one is complete.
LEMMA WindowOfNone ==
  ASSUME TypeOK, NEW t \in Nat, WindowEvents(logs, t) = {}
  PROVE  /\ HistoryBefore(t + Step) = HistoryBefore(t)
         /\ FindingsAt(logs, t) = {}
  <1>1. logs \in SUBSET Events
    BY DEF TypeOK, FeedTypeOK
  <1>2. LeadEvents({}, t) = {}
    BY DEF LeadEvents
  <1>3. Before(logs, t + Step) = Before(logs, t)
    BY <1>1, <1>2, HistoryParts, LogRows
  <1>4. QED
    BY <1>3, FindingsOfNone DEF HistoryBefore, FindingsAt

Elsewhere(i) ==
  \A j \in Instances \ {i} :
    /\ pc'[j] = pc[j] /\ held'[j] = held[j] /\ mem'[j] = mem[j] /\ scanned'[j] = scanned[j]
    /\ next'[j] = next[j] /\ batch'[j] = batch[j] /\ pending'[j] = pending[j]

LEMMA ElsewhereProcess == ASSUME TypeOK, NEW i \in Instances, Process(i) PROVE Elsewhere(i)
  <1> USE DEF Elsewhere, Goto, Return, TypeOK, leaseVars, memVars, stepVars
  <1>1. CASE LoadScan(i) \/ LoadRead(i) \/ Claim(i) \/ Renew(i) \/ Extend(i) \/ Reclaim(i)
    BY <1>1 DEF LoadScan, LoadRead, LoadRest, Claim, Renew, Extend, Reclaim
  <1>2. CASE Open(i) \/ ResetScan(i) \/ ResetDelete(i) \/ ReadWindow(i) \/ LearnLead(i) \/ Save(i)
    BY <1>2 DEF Open, ResetScan, ResetDelete, ReadWindow, LearnLead, Save
  <1>3. CASE Fresh(i)
    BY <1>3 DEF Fresh
  <1>4. CASE CheckSettled(i)
    BY <1>4 DEF CheckSettled
  <1>5. CASE Raise(i)
    BY <1>5 DEF Raise
  <1>6. QED
    BY <1>1, <1>2, <1>3, <1>4, <1>5 DEF Process

\* A step that writes nothing need only be looked at where it happens.
LEMMA Silent ==
  ASSUME HolderInv, SweepInv, NEW i \in Instances, Elsewhere(i),
         UNCHANGED <<now, logs, redis, watermark, raised>>, Local(i)',
         pc[i] = "save" => watermark = Unset \/ redis = HistoryBefore(watermark)
  PROVE  SweepInv'
  <1>1. \A j \in Instances : Local(j)'
    BY OthersKeep DEF Elsewhere
  <1>2. Loadable'
    BY DEF SweepInv, Loadable
  <1>3. Persisted'
    <2>1. (\A j \in Instances : pc'[j] # "save") /\ watermark # Unset => redis = HistoryBefore(watermark)
      BY DEF SweepInv, Persisted, Elsewhere
    <2>2. HistoryBefore(watermark)' = HistoryBefore(watermark)
      BY DEF HistoryBefore
    <2>3. QED
      BY <2>1, <2>2 DEF SweepInv, Persisted
  <1>4. QED
    BY <1>1, <1>2, <1>3 DEF SweepInv

\* Load moves the baselines into the memory key by key, and the holder starts to
\* sweep when none is left.
LEMMA LoadKeepsUp ==
  ASSUME TypeOK, HolderInv, SweepInv, NEW i \in Instances, LoadScan(i) \/ LoadRead(i)
  PROVE  Local(i)'
  <1>1. UNCHANGED <<now, logs, redis, watermark, raised>> /\ Local(i)
    BY DEF LoadScan, LoadRead, feedVars, storeVars, SweepInv
  <1>2. PICK keys : /\ LoadRest(i, keys)
                    /\ pc[i] \in {"reload", "reload_read"} => Overlay(mem'[i], redis, keys) = redis
    <2>1. CASE LoadScan(i)
      <3>1. LoadRest(i, LoadKeys(redis)) /\ mem'[i] = EmptyBaselines
        BY <2>1 DEF LoadScan, TypeOK
      <3>2. Overlay(EmptyBaselines, redis, LoadKeys(redis)) = redis
        BY LoadAll DEF Load, SweepInv
      <3>3. QED
        BY <3>1, <3>2
    <2>2. CASE LoadRead(i)
      <3>1. PICK k \in NextKeys(scanned[i]) : /\ mem' = [mem EXCEPT ![i] = Overlay(mem[i], redis, {k})]
                                              /\ LoadRest(i, scanned[i] \ {k})
        BY <2>2 DEF LoadRead
      <3>2. mem'[i] = Overlay(mem[i], redis, {k})
        BY <3>1 DEF TypeOK
      <3>3. k \in scanned[i]
        BY DEF NextKeys
      <3>4. Overlay(Overlay(mem[i], redis, {k}), redis, scanned[i] \ {k})
              = Overlay(mem[i], redis, scanned[i])
        BY <3>3, OverlayRest
      <3>5. pc[i] \in {"reload", "reload_read"} => Overlay(mem[i], redis, scanned[i]) = redis
        BY <1>1, <2>2 DEF LoadRead, Local, InStep
      <3>6. QED
        BY <3>1, <3>2, <3>4, <3>5
    <2>3. QED
      BY <2>1, <2>2
  <1>3. /\ scanned'[i] = keys
        /\ pc'[i] = (IF keys # {} THEN IF Booting(i) THEN "boot_read" ELSE "reload_read"
                                 ELSE IF Booting(i) THEN "idle" ELSE "open")
    BY <1>2 DEF LoadRest, Goto, TypeOK
  <1>4. CASE Booting(i)
    <2>1. ~ held'[i] /\ pc'[i] \in {"boot_read", "idle"}
      <3>1. ~ held[i] /\ ~ Reloading(i)
        BY <1>4 DEF HolderInv, Booting, Reloading
      <3>2. QED
        BY <1>2, <1>3, <1>4, <3>1 DEF LoadRest, TypeOK
    <2>2. QED
      BY <2>1 DEF Local, InStep, Position, Progress
  <1>5. CASE Reloading(i)
    <2>1. Overlay(mem'[i], redis, keys) = redis /\ ~ Booting(i) /\ ~ held[i]
      BY <1>2, <1>5 DEF Booting, Reloading, HolderInv
    <2>2. CASE keys # {}
      <3>1. pc'[i] = "reload_read" /\ ~ held'[i]
        BY <1>2, <1>3, <2>1, <2>2 DEF LoadRest
      <3>2. Overlay(mem[i], redis, scanned[i])' = redis'
        BY <1>1, <1>3, <2>1
      <3>3. QED
        BY <3>1, <3>2 DEF Local, InStep, Position, Progress
    <2>3. CASE keys = {}
      <3>1. pc'[i] = "open"
        BY <1>3, <2>1, <2>3
      <3>2. mem'[i] \in [Users -> UserBaseline]
        <4>1. TypeOK'
          BY TypeProcess DEF Process
        <4>2. QED
          BY <4>1 DEF TypeOK
      <3>3. mem'[i] = redis
        BY <2>1, <2>3, <3>2, OverlayNothing
      <3>4. QED
        BY <1>1, <3>1, <3>3 DEF Local, InStep, Position, Progress
    <2>4. QED
      BY <2>2, <2>3
  <1>6. QED
    BY <1>4, <1>5 DEF LoadScan, LoadRead, Booting, Reloading

\* The calls up to the window's own: the lease, the watermark, the origin.
LEMMA SweepApproach ==
  ASSUME TypeOK, HolderInv, SweepInv, NEW i \in Instances,
         \/ LoadScan(i) \/ LoadRead(i) \/ Claim(i) \/ Renew(i) \/ Extend(i) \/ Reclaim(i)
         \/ Open(i) \/ Fresh(i) \/ CheckSettled(i)
  PROVE  SweepInv'
  <1>1. Elsewhere(i)
    BY ElsewhereProcess DEF Process
  <1>2. UNCHANGED <<now, logs, redis, watermark, raised>> /\ pc[i] # "save"
    BY DEF LoadScan, LoadRead, Claim, Renew, Extend, Reclaim, Open, Fresh, CheckSettled,
           feedVars, storeVars
  <1>3. Local(i)
    BY DEF SweepInv
  <1>4. Local(i)'
    <2> USE DEF Goto, leaseVars, memVars, stepVars
    <2>1. CASE LoadScan(i) \/ LoadRead(i)
      BY <2>1, LoadKeepsUp
    <2>2. CASE Claim(i)
      <3>1. ~ held'[i] /\ pc'[i] = "reload"
        BY <2>2 DEF Claim, TypeOK
      <3>2. QED
        BY <3>1 DEF Local, InStep, Position, Progress
    <2>3. CASE Renew(i) \/ Extend(i) \/ Reclaim(i)
      <3>1. /\ pc[i] \in {"idle", "extend"} /\ pc'[i] \in {"idle", "extend", "open"}
            /\ (held'[i] => held[i]) /\ mem'[i] = mem[i]
        <4>1. CASE Renew(i)
          BY <4>1, InstancesAssumption DEF Renew, TypeOK, HolderInv
        <4>2. CASE Extend(i)
          BY <4>2 DEF Extend, TypeOK
        <4>3. CASE Reclaim(i)
          BY <4>3 DEF Reclaim, HolderInv
        <4>4. QED
          BY <2>3, <4>1, <4>2, <4>3
      <3>2. QED
        BY <1>2, <1>3, <3>1 DEF Local, InStep, Position, Progress
    <2>4. CASE Open(i)
      <3>1. mem'[i] = mem[i] /\ pc[i] = "open" /\ held'[i] = held[i]
        BY <2>4 DEF Open
      <3>2. CASE watermark = Unset /\ pc'[i] = "fresh"
        BY <1>2, <1>3, <3>1, <3>2 DEF Local, InStep, Position, Progress
      <3>3. CASE watermark # Unset /\ pc'[i] = "check" /\ next'[i] = watermark
        <4>1. StandsAt(next[i])'
          BY <1>2, <3>3 DEF StandsAt, SweepInv, Persisted
        <4>2. QED
          BY <1>2, <1>3, <3>1, <3>3, <4>1 DEF Local, InStep, Position, Progress
      <3>4. QED
        BY <2>4, <3>2, <3>3 DEF Open, TypeOK
    <2>5. CASE Fresh(i)
      <3>1. mem'[i] = mem[i] /\ pc[i] = "fresh" /\ held'[i] = held[i] /\ watermark = Unset
        BY <1>3, <2>5 DEF Fresh, Local, Position
      <3>2. CASE pc'[i] = "idle"
        BY <1>2, <1>3, <3>1, <3>2 DEF Local, InStep, Position, Progress
      <3>3. CASE logs # {} /\ pc'[i] = "reset" /\ next'[i] = Origin(logs)
        <4>1. StandsAt(next[i])'
          BY <1>2, <3>1, <3>3 DEF StandsAt
        <4>2. QED
          BY <1>2, <1>3, <3>1, <3>3, <4>1 DEF Local, InStep, Position, Progress
      <3>4. QED
        BY <2>5, <3>2, <3>3 DEF Fresh, Return, TypeOK
    <2>6. CASE CheckSettled(i)
      <3>1. /\ mem'[i] = mem[i] /\ pc[i] = "check" /\ held'[i] = held[i]
            /\ held[i] => mem[i] = redis
        BY <1>3, <2>6 DEF CheckSettled, Local, InStep
      <3>2. CASE pc'[i] = "idle"
        BY <1>2, <1>3, <3>1, <3>2 DEF Local, InStep, Position, Progress
      <3>3. CASE Settled(next[i], now) /\ pc'[i] = "read" /\ next'[i] = next[i]
        <4>1. StandsAt(next[i])
          BY <1>3, <3>1, <3>3 DEF Local, Position
        <4>2. StandsAt(next[i])' /\ Settled(next[i], now)'
          BY <1>2, <3>3, <4>1 DEF StandsAt
        <4>3. QED
          BY <1>2, <1>3, <3>1, <3>3, <4>2 DEF Local, InStep, Position, Progress
      <3>4. QED
        BY <2>6, <3>2, <3>3 DEF CheckSettled, Return, TypeOK
    <2>7. QED
      BY <2>1, <2>2, <2>3, <2>4, <2>5, <2>6
  <1>5. QED
    BY <1>1, <1>2, <1>4, Silent

LEMMA SweepReset ==
  ASSUME TypeOK, HolderInv, SweepInv, NEW i \in Instances,
         ResetScan(i) \/ ResetDelete(i) \/ ResetFails(i)
  PROVE  SweepInv'
  <1>1. /\ Elsewhere(i) /\ UNCHANGED <<now, logs, watermark, raised, held>>
        /\ pc[i] \in {"reset", "delete"}
        /\ redis' \in {redis, Without(scanned[i])}
    BY DEF ResetScan, ResetDelete, ResetFails, Return, Goto, Elsewhere, TypeOK,
           feedVars, storeVars, leaseVars, stepVars
  <1>2. Sweeping(i) /\ Leased(i) /\ Local(i)
    BY <1>1 DEF Sweeping, Leased, SweepInv
  <1>3. watermark = Unset /\ logs # {}
    BY <1>1, <1>2 DEF Local, Position, StandsAt
  <1>4. redis' \in {redis, EmptyBaselines}
    <2>1. CASE pc[i] = "reset"
      <3>1. scanned[i] = {} /\ redis \in [Users -> UserBaseline]
        BY <2>1 DEF HolderInv, TypeOK
      <3>2. Without(scanned[i]) = redis
        BY <3>1, OverlayNothing DEF Without
      <3>3. QED
        BY <1>1, <3>2
    <2>2. CASE pc[i] = "delete"
      BY <1>1, <1>2, <2>2 DEF Local, InStep
    <2>3. QED
      BY <1>1, <2>1, <2>2
  <1>5. Loadable'
    BY <1>4 DEF SweepInv, Loadable, EmptyBaselines
  <1>6. Persisted'
    BY <1>1, <1>3 DEF Persisted
  <1>7. Local(i)'
    <2>1. ASSUME pc'[i] = "check", redis' = EmptyBaselines, mem'[i] = EmptyBaselines,
                 next'[i] = next[i]
          PROVE  Local(i)'
      <3>1. StandsAt(next[i])' \/ ~ Settled(next[i], now)'
        BY <1>1, <1>2, <2>1 DEF Local, Position, StandsAt
      <3>2. QED
        BY <1>1, <1>3, <2>1, <3>1 DEF Local, InStep, Position, Progress
    <2>2. CASE ResetScan(i)
      <3>1. /\ redis' = redis /\ mem'[i] = EmptyBaselines /\ next'[i] = next[i]
            /\ scanned'[i] = StoredKeys(redis)
            /\ pc'[i] = IF StoredKeys(redis) = {} THEN "check" ELSE "delete"
        BY <2>2 DEF ResetScan, Goto, stepVars, storeVars, TypeOK
      <3>2. Overlay(redis, EmptyBaselines, StoredKeys(redis)) = EmptyBaselines
        BY DeletedAll
      <3>3. CASE StoredKeys(redis) = {}
        <4>1. redis = EmptyBaselines
          BY <3>2, <3>3, OverlayNothing DEF TypeOK
        <4>2. QED
          BY <2>1, <3>1, <3>3, <4>1
      <3>4. CASE StoredKeys(redis) # {}
        <4>1. pc'[i] = "delete" /\ Without(scanned[i])' = EmptyBaselines
          BY <3>1, <3>2, <3>4 DEF Without
        <4>2. StandsAt(next[i])' \/ ~ Settled(next[i], now)'
          BY <1>1, <1>2, <3>1 DEF Local, Position, StandsAt
        <4>3. QED
          BY <1>1, <1>3, <3>1, <4>1, <4>2 DEF Local, InStep, Position, Progress
      <3>5. QED
        BY <3>3, <3>4
    <2>3. CASE ResetDelete(i)
      <3>1. /\ pc[i] = "delete" /\ redis' = Without(scanned[i]) /\ mem'[i] = mem[i]
            /\ next'[i] = next[i] /\ pc'[i] = "check"
        BY <2>3 DEF ResetDelete, Goto, stepVars, TypeOK
      <3>2. redis' = EmptyBaselines /\ mem'[i] = EmptyBaselines
        BY <1>2, <3>1 DEF Local, InStep
      <3>3. QED
        BY <2>1, <3>1, <3>2
    <2>4. CASE ResetFails(i)
      <3>1. pc'[i] = "idle"
        BY <2>4 DEF ResetFails, Return, Goto, TypeOK
      <3>2. QED
        BY <1>1, <1>3, <3>1 DEF Local, InStep, Position, Progress
    <2>5. QED
      BY <2>2, <2>3, <2>4
  <1>8. \A j \in Instances \ {i} : Local(j)'
    BY <1>1, <1>2, OthersKeep DEF Elsewhere
  <1>9. QED
    BY <1>5, <1>6, <1>7, <1>8 DEF SweepInv

LEMMA SweepRead ==
  ASSUME TypeOK, HolderInv, SweepInv, NEW i \in Instances, ReadWindow(i)
  PROVE  SweepInv'
  <1> DEFINE S == WindowEvents(logs, next[i])
  <1>1. Elsewhere(i)
    BY ElsewhereProcess DEF Process
  <1>2. /\ UNCHANGED <<now, logs, redis, watermark, raised, held, mem, next>>
        /\ pc[i] = "read" /\ pc'[i] = (IF S = {} THEN "save" ELSE "detect")
        /\ batch'[i] = S /\ pending'[i] = Findings(S, mem[i])
    BY DEF ReadWindow, Goto, TypeOK, feedVars, storeVars, leaseVars, memVars
  <1>3. Local(i) /\ StandsAt(next[i]) /\ Settled(next[i], now) /\ next[i] \in Nat
    BY <1>2 DEF SweepInv, Local, Position, TypeOK
  <1>4. redis = HistoryBefore(next[i]) /\ mem[i] = redis
    BY <1>2, <1>3, HolderHistory
  <1>5. pending'[i] = FindingsAt(logs, next[i])
    BY <1>2, <1>4 DEF FindingsAt, HistoryBefore
  <1>6. S = {} => /\ FindingsAt(logs, next[i]) = {}
                  /\ redis = HistoryBefore(next[i] + Step)
    BY <1>3, <1>4, WindowOfNone
  <1>7. StandsAt(next[i])' /\ Settled(next[i], now)'
    BY <1>2, <1>3 DEF StandsAt
  <1>8. WindowEvents(logs, next[i])' = S /\ FindingsAt(logs, next[i])' = FindingsAt(logs, next[i])
    BY <1>2
  <1>9. HistoryBefore(next[i] + Step)' = HistoryBefore(next[i] + Step)
    BY <1>2 DEF HistoryBefore
  <1>10. Local(i)'
    <2>1. InStep(i)'
      BY <1>2, <1>4 DEF InStep
    <2>2. Position(i)'
      BY <1>2, <1>7 DEF Position
    <2>3. Progress(i)'
      <3> HIDE DEF S
      <3>1. CASE S = {}
        BY <1>2, <1>6, <1>8, <1>9, <3>1 DEF Progress
      <3>2. CASE S # {}
        BY <1>2, <1>3, <1>5, <1>8, <3>2 DEF Progress, Local
      <3>3. QED
        BY <3>1, <3>2
    <2>4. QED
      BY <2>1, <2>2, <2>3 DEF Local
  <1>11. QED
    BY <1>1, <1>2, <1>10, Silent

LEMMA SweepRaise ==
  ASSUME TypeOK, HolderInv, SweepInv, NEW i \in Instances, Raise(i) \/ RaiseFails(i)
  PROVE  SweepInv'
  <1>1. /\ Elsewhere(i) /\ UNCHANGED <<now, logs, redis, watermark, held, mem>>
        /\ pc[i] = "detect" /\ raised \subseteq raised'
    BY DEF Raise, RaiseFails, Return, Goto, Elsewhere, TypeOK, feedVars, leaseVars, memVars
  <1>2. Sweeping(i) /\ Leased(i) /\ Local(i) /\ mem[i] = redis
    BY <1>1 DEF Sweeping, Leased, SweepInv, HolderInv, Local, InStep
  <1>3. Loadable'
    BY <1>1 DEF SweepInv, Loadable
  <1>4. Persisted'
    <2>1. \A j \in Instances : pc[j] # "save"
      BY <1>1, <1>2, Alone DEF Leased, Sweeping
    <2>2. HistoryBefore(watermark)' = HistoryBefore(watermark)
      BY <1>1 DEF HistoryBefore
    <2>3. QED
      BY <1>1, <2>1, <2>2 DEF SweepInv, Persisted
  <1>5. Local(i)'
    <2>1. CASE Raise(i)
      <3>1. PICK c \in pending[i] : raised' = raised \cup {c} /\ pending'[i] = pending[i] \ {c}
        BY <2>1 DEF Raise, TypeOK
      <3>2. UNCHANGED <<pc, next, batch>>
        BY <2>1 DEF Raise
      <3>3. StandsAt(next[i])' = StandsAt(next[i]) /\ FindingsAt(logs, next[i])' = FindingsAt(logs, next[i])
        BY <1>1, <3>2 DEF StandsAt
      <3>4. QED
        BY <1>1, <1>2, <3>1, <3>2, <3>3 DEF Local, InStep, Position, Progress
    <2>2. CASE RaiseFails(i)
      <3>1. pc'[i] = "idle"
        BY <2>2 DEF RaiseFails, Return, Goto, TypeOK
      <3>2. QED
        BY <1>1, <1>2, <3>1 DEF Local, InStep, Position, Progress
    <2>3. QED
      BY <2>1, <2>2
  <1>6. \A j \in Instances \ {i} : Local(j)'
    BY <1>1, <1>2, OthersKeep DEF Elsewhere
  <1>7. QED
    BY <1>3, <1>4, <1>5, <1>6 DEF SweepInv

LEMMA SweepLearn ==
  ASSUME AccessesHaveOrigin(Events), TypeOK, HolderInv, SweepInv, NEW i \in Instances, LearnLead(i)
  PROVE  SweepInv'
  <1> DEFINE lead == LeadEvents(batch[i], next[i])
             grown == HistoryBefore(next[i] + Step)
  <1>1. /\ Elsewhere(i) /\ UNCHANGED <<now, logs, watermark, raised, held, next, batch>>
        /\ pc[i] = "detect" /\ pending[i] = {} /\ pc'[i] = "save"
        /\ mem'[i] = Learn(mem[i], lead) /\ redis' = WriteThrough(redis, mem[i], lead)
    <2>1. Elsewhere(i)
      BY ElsewhereProcess DEF Process
    <2>2. QED
      BY <2>1 DEF LearnLead, Judged, Goto, TypeOK, feedVars, leaseVars, stepVars
  <1>2. Sweeping(i) /\ Leased(i) /\ Local(i) /\ StandsAt(next[i]) /\ next[i] \in Nat
    BY <1>1 DEF Sweeping, Leased, SweepInv, Local, Position, TypeOK
  <1>3. redis = HistoryBefore(next[i]) /\ mem[i] = redis
    BY <1>1, <1>2, HolderHistory
  <1>4. Learn(redis, lead) = grown
    <2>1. batch[i] = WindowEvents(logs, next[i])
      BY <1>1, <1>2 DEF Local, Progress
    <2>2. logs \in SUBSET Events
      BY DEF TypeOK, FeedTypeOK
    <2>3. /\ Before(logs, next[i]) \in EventSets /\ lead \in EventSets
          /\ Before(logs, next[i]) \cap lead = {}
          /\ Before(logs, next[i] + Step) = Before(logs, next[i]) \cup lead
      BY <1>2, <2>1, <2>2, HistoryParts, LogRows
    <2>4. QED
      BY <1>3, <2>3, LearnParts DEF HistoryBefore
  <1>5. mem'[i] = grown /\ redis' = grown
    BY <1>1, <1>3, <1>4 DEF Learn, WriteThrough
  <1>6. Loadable'
    BY <1>5, HistoryLoads DEF Loadable
  <1>7. Persisted'
    BY <1>1, <1>2 DEF SweepInv, Persisted
  <1>8. Local(i)'
    <2>1. /\ StandsAt(next[i])' = StandsAt(next[i])
          /\ FindingsAt(logs, next[i])' = FindingsAt(logs, next[i])
      BY <1>1 DEF StandsAt
    <2>2. redis' = HistoryBefore(next[i] + Step)'
      BY <1>1, <1>5 DEF HistoryBefore
    <2> HIDE DEF grown, lead
    <2>3. InStep(i)'
      BY <1>1, <1>5 DEF InStep
    <2>4. Position(i)'
      BY <1>1, <1>2, <2>1 DEF Local, Position
    <2>5. Progress(i)'
      BY <1>1, <1>2, <2>1, <2>2 DEF Local, Progress
    <2>6. QED
      BY <2>3, <2>4, <2>5 DEF Local
  <1>9. \A j \in Instances \ {i} : Local(j)'
    BY <1>1, <1>2, OthersKeep DEF Elsewhere
  <1>10. QED
    BY <1>6, <1>7, <1>8, <1>9 DEF SweepInv

LEMMA SweepSave ==
  ASSUME TypeOK, HolderInv, SweepInv, NEW i \in Instances, Save(i)
  PROVE  SweepInv'
  <1>1. /\ Elsewhere(i) /\ UNCHANGED <<now, logs, redis, raised, held, mem>>
        /\ pc[i] = "save" /\ pc'[i] = "check"
        /\ watermark' = next[i] + Step /\ next'[i] = next[i] + Step
    <2>1. Elsewhere(i)
      BY ElsewhereProcess DEF Process
    <2>2. QED
      BY <2>1 DEF Save, NextStart, Goto, TypeOK, feedVars, leaseVars, memVars
  <1>2. /\ Sweeping(i) /\ Leased(i) /\ Local(i) /\ logs # {} /\ mem[i] = redis
        /\ next[i] \in Nat /\ Settled(next[i], now)
    BY <1>1 DEF Sweeping, Leased, SweepInv, HolderInv, Local, InStep, Position, StandsAt, TypeOK
  <1>3. watermark' \in Nat /\ watermark' # Unset
    BY <1>1, <1>2, StepAssumption, ClockAssumption
  <1>4. Loadable'
    BY <1>1 DEF SweepInv, Loadable
  <1>5. redis = HistoryBefore(watermark)'
    BY <1>1, <1>2 DEF Local, Progress, HistoryBefore
  <1>6. Persisted'
    <2>1. watermark' + Step < now - Lag
      BY <1>1, <1>2, StepAssumption, LagAssumption, ClockAssumption
         DEF Settled, TypeOK, FeedTypeOK
    <2>2. QED
      BY <1>1, <1>2, <1>5, <2>1 DEF Persisted
  <1>7. Local(i)'
    <2>1. StandsAt(next[i])'
      BY <1>1, <1>2, <1>3 DEF StandsAt
    <2>2. QED
      BY <1>1, <1>2, <1>3, <2>1 DEF Local, InStep, Position, Progress
  <1>8. \A j \in Instances \ {i} : Local(j)'
    BY <1>1, <1>2, OthersKeep DEF Elsewhere
  <1>9. QED
    BY <1>4, <1>6, <1>7, <1>8 DEF SweepInv

\* A crash inside the span of Update and SetState is tolerated only where Update
\* had nothing to do.
LEMMA SweepCrash ==
  ASSUME TypeOK, HolderInv, SweepInv, NEW i \in Instances, Crash(i),
         ~ (pc[i] = "save" /\ batch[i] # {})
  PROVE  SweepInv'
  <1>1. /\ Elsewhere(i) /\ UNCHANGED <<now, logs, redis, watermark, raised>>
        /\ pc'[i] = "down" /\ ~ held'[i]
    BY DEF Crash, Elsewhere, TypeOK, feedVars, storeVars
  <1>2. Local(i)'
    BY <1>1 DEF Local, InStep, Position, Progress
  <1>3. ASSUME pc[i] = "save", watermark # Unset
        PROVE  redis = HistoryBefore(watermark)
    <2>1. /\ WindowEvents(logs, next[i]) = {} /\ redis = HistoryBefore(next[i] + Step)
          /\ next[i] = watermark /\ next[i] \in Nat
      BY <1>3 DEF SweepInv, Local, Position, Progress, StandsAt, TypeOK
    <2>2. QED
      BY <2>1, WindowOfNone
  <1>4. QED
    BY <1>1, <1>2, <1>3, Silent

\* The other steps of an instance that write nothing.
LEMMA SweepGivesUp ==
  ASSUME TypeOK, HolderInv, SweepInv, NEW i \in Instances,
         ClaimUnanswered(i) \/ ExtendFails(i) \/ QueryFails(i) \/ Restart(i)
  PROVE  SweepInv'
  <1>1. /\ Elsewhere(i) /\ UNCHANGED <<now, logs, redis, watermark, raised, mem>>
        /\ pc[i] # "save" /\ (held'[i] => held[i])
        /\ pc'[i] = "idle" \/ (pc[i] = "down" /\ pc'[i] = "boot")
    <2> USE DEF Elsewhere, Goto, TypeOK, feedVars, storeVars, leaseVars, memVars, stepVars
    <2>1. CASE ClaimUnanswered(i)
      BY <2>1 DEF ClaimUnanswered
    <2>2. CASE ExtendFails(i)
      BY <2>2 DEF ExtendFails
    <2>3. CASE QueryFails(i)
      BY <2>3 DEF QueryFails, Return
    <2>4. CASE Restart(i)
      BY <2>4 DEF Restart
    <2>5. QED
      BY <2>1, <2>2, <2>3, <2>4
  <1>2. Local(i)
    BY DEF SweepInv
  <1>3. Local(i)'
    BY <1>1, <1>2 DEF Local, InStep, Position, Progress
  <1>4. QED
    BY <1>1, <1>3, Silent

-----------------------------------------------------------------------------
(* Time and arrivals *)

LEMMA SweepTick ==
  ASSUME TypeOK, SweepInv, Tick, ~ Opening,
         UNCHANGED <<storeVars, leaseVars, pc, memVars, stepVars>>
  PROVE  SweepInv'
  <1>1. /\ now \in Nat /\ now' = now + 1
        /\ UNCHANGED <<logs, redis, watermark, raised, held, pc, mem, scanned, next, batch, pending>>
    BY ClockAssumption DEF Tick, TypeOK, FeedTypeOK, storeVars, leaseVars, memVars, stepVars
  <1>2. Loadable'
    BY <1>1 DEF SweepInv, Loadable
  <1>3. Persisted'
    <2>1. HistoryBefore(watermark)' = HistoryBefore(watermark)
      BY <1>1 DEF HistoryBefore
    <2>2. watermark # Unset => watermark + Step < now' - Lag
      BY <1>1, StepAssumption, LagAssumption DEF SweepInv, Persisted, TypeOK
    <2>3. QED
      BY <1>1, <2>1, <2>2 DEF SweepInv, Persisted
  <1>4. ASSUME NEW i \in Instances
        PROVE  Local(i)'
    <2>1. Local(i) /\ next[i] \in Nat
      BY DEF SweepInv, TypeOK
    <2>2. InStep(i)'
      BY <1>1, <2>1 DEF Local, InStep, Without
    <2>3. Position(i)'
      <3>1. StandsAt(next[i])' = StandsAt(next[i])
        BY <1>1 DEF StandsAt
      <3>2. Settled(next[i], now) => Settled(next[i], now)'
        BY <1>1, <2>1, StepAssumption, LagAssumption DEF Settled
      <3>3. pc[i] \in {"reset", "delete"} \/ (pc[i] = "check" /\ watermark = Unset) => FALSE
        BY DEF Opening
      <3>4. QED
        BY <1>1, <2>1, <3>1, <3>2, <3>3 DEF Local, Position
    <2>4. Progress(i)'
      <3>1. /\ HistoryBefore(next[i] + Step)' = HistoryBefore(next[i] + Step)
            /\ WindowEvents(logs, next[i])' = WindowEvents(logs, next[i])
            /\ FindingsAt(logs, next[i])' = FindingsAt(logs, next[i])
        BY <1>1 DEF HistoryBefore
      <3>2. QED
        BY <1>1, <2>1, <3>1 DEF Local, Progress
    <2>5. QED
      BY <2>2, <2>3, <2>4 DEF Local
  <1>5. QED
    BY <1>2, <1>3, <1>4 DEF SweepInv

LEMMA SweepIngest ==
  ASSUME TypeOK, HolderInv, SweepInv, NEW e \in Events, Ingest(e),
         UNCHANGED <<storeVars, leaseVars, pc, memVars, stepVars>>
  PROVE  SweepInv'
  <1>1. /\ now \in Nat /\ FeedTypeOK /\ logs' = logs \cup {e}
        /\ UNCHANGED <<now, redis, watermark, raised, held, pc, mem, scanned, next, batch, pending>>
    BY ClockAssumption DEF Ingest, TypeOK, FeedTypeOK, storeVars, leaseVars, memVars, stepVars
  <1>2. Loadable'
    BY <1>1 DEF SweepInv, Loadable
  <1>3. Persisted'
    <2>1. ASSUME watermark # Unset
          PROVE  HistoryBefore(watermark)' = HistoryBefore(watermark)
      <3>1. watermark \in Nat /\ watermark < now - Lag
        BY <1>1, <2>1, StepAssumption, LagAssumption DEF SweepInv, Persisted, TypeOK
      <3>2. QED
        BY <1>1, <3>1, IngestKeepsBefore DEF HistoryBefore
    <2>2. QED
      BY <1>1, <2>1 DEF SweepInv, Persisted
  <1>4. ASSUME NEW i \in Instances
        PROVE  Local(i)'
    <2>1. Local(i) /\ next[i] \in Nat
      BY DEF SweepInv, TypeOK
    <2>2. InStep(i)'
      BY <1>1, <2>1 DEF Local, InStep, Without
    <2>3. Settled(next[i], now) /\ StandsAt(next[i]) => StandsAt(next[i])'
      BY <1>1, SettledOriginStays DEF StandsAt
    <2>4. StandsAt(next[i]) => StandsAt(next[i])' \/ (watermark = Unset /\ ~ Settled(next[i], now))
      BY <1>1, <2>3 DEF StandsAt
    <2>5. Position(i)'
      <3>1. logs' # {} /\ (StandsAt(next[i]) => logs # {})
        BY <1>1 DEF StandsAt
      <3>2. QED
        BY <1>1, <2>1, <2>3, <2>4, <3>1 DEF Local, Position
    <2>6. Progress(i)'
      <3>1. CASE Settled(next[i], now)
        <4>1. /\ HistoryBefore(next[i] + Step)' = HistoryBefore(next[i] + Step)
              /\ WindowEvents(logs, next[i])' = WindowEvents(logs, next[i])
              /\ FindingsAt(logs, next[i])' = FindingsAt(logs, next[i])
          BY <1>1, <2>1, <3>1, IngestKeepsSettled DEF HistoryBefore, FindingsAt
        <4>2. QED
          BY <1>1, <2>1, <4>1 DEF Local, Progress
      <3>2. CASE ~ Settled(next[i], now)
        BY <1>1, <2>1, <3>2 DEF Local, Position, Progress
      <3>3. QED
        BY <3>1, <3>2
    <2>7. QED
      BY <2>2, <2>5, <2>6 DEF Local
  <1>5. QED
    BY <1>2, <1>3, <1>4 DEF SweepInv

-----------------------------------------------------------------------------
(* The invariant of every tolerated run *)

LEMMA SweepInit == Init => SweepInv
  <1> SUFFICES ASSUME Init PROVE SweepInv
    OBVIOUS
  <1>1. /\ redis = EmptyBaselines /\ watermark = Unset
        /\ \A i \in Instances : pc[i] = "boot" /\ ~ held[i]
    BY DEF Init
  <1>2. QED
    BY <1>1 DEF SweepInv, Loadable, EmptyBaselines, Persisted, Local, InStep, Position, Progress

LEMMA SweepStep ==
  ASSUME Tolerated, AccessesHaveOrigin(Events)
  PROVE  TypeOK /\ HolderInv /\ SweepInv /\ [Next]_vars => SweepInv'
  <1> SUFFICES ASSUME TypeOK, HolderInv, SweepInv, [Next]_vars PROVE SweepInv'
    OBVIOUS
  <1>1. CASE Feed
    <2>1. UNCHANGED <<storeVars, leaseVars, pc, memVars, stepVars>>
      BY <1>1 DEF Feed
    <2>2. CASE Tick /\ ~ Opening
      BY <2>1, <2>2, SweepTick
    <2>3. ASSUME NEW e \in Events, Ingest(e)
          PROVE  SweepInv'
      BY <2>1, <2>3, SweepIngest
    <2>4. QED
      BY <1>1, <2>2, <2>3 DEF Feed
  <1>2. CASE UNCHANGED vars \/ Expire
    <2>1. UNCHANGED <<now, logs, redis, watermark, raised, held, pc, mem, scanned, next, batch,
                      pending>>
      BY <1>2 DEF vars, Expire, feedVars, storeVars, memVars, stepVars
    <2>2. QED
      BY <2>1 DEF SweepInv, Loadable, Persisted, Local, InStep, Without, Position, Progress, StandsAt,
                  HistoryBefore
  <1>3. CASE Failure
    <2>1. PICK i \in Instances :
            \/ Crash(i) /\ ~ (pc[i] = "save" /\ batch[i] # {})
            \/ ClaimUnanswered(i) \/ ExtendFails(i)
            \/ QueryFails(i) \/ RaiseFails(i) \/ ResetFails(i)
      BY <1>3, TolerableFailure
    <2>2. QED
      BY <2>1, SweepCrash, SweepGivesUp, SweepRaise, SweepReset
  <1>4. ASSUME NEW i \in Instances, Process(i)
        PROVE  SweepInv'
    BY <1>4, SweepApproach, SweepReset, SweepRead, SweepRaise, SweepLearn, SweepSave DEF Process
  <1>5. ASSUME NEW i \in Instances, Restart(i)
        PROVE  SweepInv'
    BY <1>5, SweepGivesUp
  <1>6. QED
    BY <1>1, <1>2, <1>3, <1>4, <1>5 DEF Next

LEMMA ToleratedRuns ==
  ASSUME Tolerated, AccessesHaveOrigin(Events)
  PROVE  Spec => [](TypeOK /\ HolderInv /\ SweepInv)
  BY TypeInit, TypeStep, HolderInit, HolderStep, SweepInit, SweepStep, PTL DEF Spec

\* A window is judged by the baselines of the whole history before it and of
\* nothing else: no event is learned twice, forgotten in a reload or a takeover,
\* or vouches for itself (RunLive, sweep), whatever crashes and fails among the
\* tolerated faults and however many instances compete.
THEOREM JudgedByHistory ==
  ASSUME Tolerated, AccessesHaveOrigin(Events)
  PROVE  Spec => []JudgesByHistory
  <1>1. TypeOK /\ HolderInv /\ SweepInv => JudgesByHistory
    <2> SUFFICES ASSUME TypeOK, HolderInv, SweepInv, NEW i \in Instances, pc[i] \in {"read", "detect"}
                 PROVE  mem[i] = BaselineOf(Before(logs, next[i]))
      BY DEF JudgesByHistory
    <2>1. StandsAt(next[i])
      BY DEF SweepInv, Local, Position
    <2>2. QED
      BY <2>1, HolderHistory DEF HistoryBefore
  <1>2. QED
    BY <1>1, ToleratedRuns, PTL

\* What the next holder will load is the history before the persisted watermark,
\* every event in it once ("every event is merged exactly once even though
\* successive windows overlap", sweep).
THEOREM EachLearnedOnce ==
  ASSUME Tolerated, AccessesHaveOrigin(Events)
  PROVE  Spec => []LearnedExactlyOnce
  <1>1. SweepInv => LearnedExactlyOnce
    BY DEF SweepInv, Persisted, LearnedExactlyOnce, HistoryBefore
  <1>2. QED
    BY <1>1, ToleratedRuns, PTL

-----------------------------------------------------------------------------
(* Refinement *)

LEMMA RefineInit == Init => Sweep!SpecInit
  BY DEF Init, FeedInit, Sweep!SpecInit

LEMMA RefineSkip ==
  ASSUME UNCHANGED <<now, logs, watermark, raised>>
  PROVE  [Sweep!SpecNext]_Sweep!specVars
  BY DEF Sweep!specVars

\* liveStep stands where the abstract sweep does.
LEMMA RefineStand ==
  ASSUME SweepInv, NEW i \in Instances, pc[i] \in {"read", "detect", "save"}
  PROVE  Sweep!Sweepable /\ next[i] = Sweep!Current
  <1>1. StandsAt(next[i]) /\ Settled(next[i], now)
    BY DEF SweepInv, Local, Position
  <1>2. next[i] = Sweep!Current /\ logs # {}
    BY <1>1 DEF StandsAt, Sweep!Current
  <1>3. Sweep!Settled(Sweep!Current, now)
    BY <1>1, <1>2 DEF Settled, Sweep!Settled
  <1>4. QED
    BY <1>2, <1>3 DEF Sweep!Sweepable

LEMMA RefineFeed == ASSUME TypeOK, Feed PROVE Sweep!Feed
  <1>1. now \in Nat /\ UNCHANGED <<watermark, raised>>
    BY ClockAssumption DEF Feed, storeVars, TypeOK, FeedTypeOK
  <1>2. now <= now' /\ logs \subseteq logs'
    <2>1. CASE Tick
      BY <1>1, <2>1 DEF Tick
    <2>2. ASSUME NEW e \in Events, Ingest(e)
          PROVE  now <= now' /\ logs \subseteq logs'
      BY <1>1, <2>2 DEF Ingest
    <2>3. QED
      BY <2>1, <2>2 DEF Feed
  <1>3. QED
    BY <1>1, <1>2 DEF Sweep!Feed

\* UpsertAlert of a finding, whether its call is answered or not.
LEMMA RefineRaise ==
  ASSUME SweepInv, NEW i \in Instances, Raise(i) \/ RaiseFails(i)
  PROVE  [Sweep!SpecNext]_Sweep!specVars
  <1>1. pc[i] = "detect" /\ UNCHANGED <<now, logs, watermark>>
    BY DEF Raise, RaiseFails, feedVars
  <1>2. Sweep!Sweepable /\ next[i] = Sweep!Current
    BY <1>1, RefineStand
  <1>3. pending[i] \subseteq FindingsAt(logs, Sweep!Current)
    BY <1>1, <1>2 DEF SweepInv, Local, Progress
  <1>4. (\E c \in pending[i] : raised' = raised \cup {c}) \/ raised' = raised
    BY DEF Raise, RaiseFails
  <1>5. CASE raised' = raised
    BY <1>1, <1>5, RefineSkip
  <1>6. CASE \E c \in pending[i] : raised' = raised \cup {c}
    <2>1. Sweep!RaiseFinding
      BY <1>1, <1>2, <1>3, <1>6 DEF Sweep!RaiseFinding
    <2>2. QED
      BY <2>1 DEF Sweep!SpecNext
  <1>7. QED
    BY <1>4, <1>5, <1>6

\* SetState, the only step that moves the watermark.
LEMMA RefineSave ==
  ASSUME SweepInv, NEW i \in Instances, Save(i)
  PROVE  Sweep!Advance
  <1>1. pc[i] = "save" /\ UNCHANGED <<now, logs, raised>> /\ watermark' = next[i] + Step
    BY DEF Save, NextStart, feedVars
  <1>2. Sweep!Sweepable /\ next[i] = Sweep!Current
    BY <1>1, RefineStand
  <1>3. FindingsAt(logs, Sweep!Current) \subseteq raised
    BY <1>1, <1>2 DEF SweepInv, Local, Progress
  <1>4. QED
    BY <1>1, <1>2, <1>3 DEF Sweep!Advance

LEMMA RefineStep ==
  ASSUME Tolerated
  PROVE  TypeOK /\ HolderInv /\ SweepInv /\ [Next]_vars => [Sweep!SpecNext]_Sweep!specVars
  <1> SUFFICES ASSUME TypeOK, HolderInv, SweepInv, [Next]_vars
               PROVE  [Sweep!SpecNext]_Sweep!specVars
    OBVIOUS
  <1>1. CASE Feed
    BY <1>1, RefineFeed DEF Sweep!SpecNext
  <1>2. CASE UNCHANGED vars \/ Expire
    BY <1>2, RefineSkip DEF vars, Expire, feedVars, storeVars
  <1>3. CASE Failure
    <2>1. PICK i \in Instances :
            \/ Crash(i) \/ ClaimUnanswered(i) \/ ExtendFails(i)
            \/ QueryFails(i) \/ RaiseFails(i) \/ ResetFails(i)
      BY <1>3, TolerableFailure
    <2>2. CASE RaiseFails(i)
      BY <2>2, RefineRaise
    <2>3. CASE ~ RaiseFails(i)
      BY <2>1, <2>3, RefineSkip
         DEF Crash, ClaimUnanswered, ExtendFails, QueryFails, ResetFails, feedVars, storeVars
    <2>4. QED
      BY <2>2, <2>3
  <1>4. ASSUME NEW i \in Instances, Process(i)
        PROVE  [Sweep!SpecNext]_Sweep!specVars
    <2>1. CASE Raise(i)
      BY <2>1, RefineRaise
    <2>2. CASE Save(i)
      BY <2>2, RefineSave DEF Sweep!SpecNext
    <2>3. CASE ~ Raise(i) /\ ~ Save(i)
      BY <1>4, <2>3, RefineSkip
         DEF Process, LoadScan, LoadRead, Claim, Renew, Extend, Reclaim, Open, Fresh, ResetScan,
             ResetDelete, CheckSettled, ReadWindow, LearnLead, feedVars, storeVars
    <2>4. QED
      BY <2>1, <2>2, <2>3
  <1>5. ASSUME NEW i \in Instances, Restart(i)
        PROVE  [Sweep!SpecNext]_Sweep!specVars
    BY <1>5, RefineSkip DEF Restart, feedVars, storeVars
  <1>6. QED
    BY <1>1, <1>2, <1>3, <1>4, <1>5 DEF Next

\* The live pipeline raises what the batch evaluation of the same logs finds,
\* window by window and nothing more, and passes a window only when all of it is
\* raised (NOTES: "Live pipeline == batch evaluator"), for any number of
\* instances and any number of tolerated faults.
THEOREM LiveImplementsBatch ==
  ASSUME Tolerated, AccessesHaveOrigin(Events)
  PROVE  Spec => LiveEqualsBatch
  BY RefineInit, RefineStep, ToleratedRuns, PTL DEF Spec, LiveEqualsBatch, Sweep!Batch

=============================================================================
