---------------------------- MODULE LivePipeline ----------------------------
(***************************************************************************)
(* RunLive of internal/pipeline/pipeline.go: server instances that share a *)
(* Postgres and a Redis, compete for the single-writer lease, and sweep    *)
(* the settled windows.  Every call to Postgres or Redis is a step of its  *)
(* own, so that instances interleave, crash and fail between any two: each *)
(* of the commands with which Load and Reset go through the keys of the    *)
(* baselines, and the one pipeline in which Update writes.                 *)
(*                                                                         *)
(* The alert store is the set of findings raised so far: UpsertAlert and   *)
(* CorrelateAlert are idempotent for a finding that was raised before, and *)
(* AlertStore models them in detail.  A lease is the name of the instance  *)
(* that holds it; an instance that restarts has a new owner id, so a crash *)
(* leaves the lease to nobody alive until it lapses.                       *)
(***************************************************************************)
EXTENDS LogFeed

CONSTANTS
  Instances,       \* server processes
  Nobody, Dead,    \* a free lease, and one owned by a process that is gone
  Faults,          \* the kinds of fault that may happen ...
  MaxFaults        \* ... and how many of them may

FaultKinds ==
  {"crash",          \* a process dies, except after Update and before SetState
   "crash_unsaved",  \* a process dies after Update and before SetState
   "lapse_idle",     \* a held lease expires while its holder waits for a tick
   "lapse_renewal",  \* a held lease expires between the GET and the SET that renew it
   "lapse_sweep",    \* a held lease expires during a live step longer than its TTL
   "postgres",       \* a query, an upsert or a correlation fails
   "save",           \* SetState fails
   "redis_lease",    \* a lease command fails, applied or not
   "redis_load", "redis_reset", "redis_learn",
   "redis_restart"}  \* Redis comes back empty: it persists nothing

ASSUME InstancesAssumption ==
  /\ IsFiniteSet(Instances)
  /\ Nobody \notin Instances /\ Dead \notin Instances /\ Nobody # Dead

ASSUME FaultsAssumption == Faults \subseteq FaultKinds /\ MaxFaults \in Nat

VARIABLES
  lease,       \* Redis key pipeline_lease
  redis,       \* Redis keys bl:*
  watermark,   \* Postgres detect_state[sweep_watermark]
  raised,      \* the findings stored as alerts
  pc,          \* the call the instance makes next
  held,        \* RunLive's held
  mem,         \* Baselines.users
  scanned,     \* the keys its SCAN of the baselines found and that it has not handled yet
  next,        \* liveStep's next, 0 outside a live step
  batch,       \* the events of the window being swept
  pending,     \* its findings that are not raised yet
  faults       \* how many faults happened

storeVars == <<redis, watermark, raised>>
leaseVars == <<lease, held>>
memVars   == <<mem, scanned>>
stepVars  == <<next, batch, pending>>
vars == <<now, logs, lease, redis, watermark, raised, pc, held, mem, scanned, next, batch, pending,
          faults>>

Calls == {"down", "boot", "boot_read", "idle", "extend", "reclaim", "reload", "reload_read",
          "open", "fresh", "reset", "delete", "check", "read", "detect", "save"}

\* Within liveStep.
Sweeping(i) == pc[i] \in {"open", "fresh", "reset", "delete", "check", "read", "detect", "save"}

Init ==
  /\ FeedInit
  /\ lease = Nobody /\ redis = EmptyBaselines /\ watermark = Unset /\ raised = {}
  /\ pc = [i \in Instances |-> "boot"]
  /\ held = [i \in Instances |-> FALSE]
  /\ mem = [i \in Instances |-> EmptyBaselines]
  /\ scanned = [i \in Instances |-> {}]
  /\ next = [i \in Instances |-> 0]
  /\ batch = [i \in Instances |-> {}]
  /\ pending = [i \in Instances |-> {}]
  /\ faults = 0

Goto(i, call) == pc' = [pc EXCEPT ![i] = call]

\* liveStep returns, with or without an error, and RunLive waits for the tick.
Return(i) ==
  /\ Goto(i, "idle")
  /\ next' = [next EXCEPT ![i] = 0]
  /\ batch' = [batch EXCEPT ![i] = {}]
  /\ pending' = [pending EXCEPT ![i] = {}]

NoFault == UNCHANGED faults

Fault(kind) == kind \in Faults /\ faults < MaxFaults /\ faults' = faults + 1

-----------------------------------------------------------------------------
(* RunLive and acquireLease *)

\* Load at the start of the process, and after a claim
Booting(i)   == pc[i] \in {"boot", "boot_read"}
Reloading(i) == pc[i] \in {"reload", "reload_read"}

\* Load goes on with these keys.  When none is left, or at an error, which is
\* only logged, the process waits for its first tick and the holder sweeps.
LoadRest(i, keys) ==
  /\ scanned' = [scanned EXCEPT ![i] = keys]
  /\ IF keys # {}
     THEN Goto(i, IF Booting(i) THEN "boot_read" ELSE "reload_read") /\ UNCHANGED held
     ELSE Goto(i, IF Booting(i) THEN "idle" ELSE "open") /\ held' = [held EXCEPT ![i] = Reloading(i)]

\* Load clears the memory and scans for the users, ...
LoadScan(i) ==
  /\ pc[i] \in {"boot", "reload"}
  /\ mem' = [mem EXCEPT ![i] = EmptyBaselines]
  /\ LoadRest(i, LoadKeys(redis))
  /\ NoFault
  /\ UNCHANGED <<feedVars, storeVars, lease, stepVars>>

\* ... and reads what they have key by key.
LoadRead(i) ==
  /\ pc[i] \in {"boot_read", "reload_read"}
  /\ \E k \in NextKeys(scanned[i]) :
       /\ mem' = [mem EXCEPT ![i] = Overlay(@, redis, {k})]
       /\ LoadRest(i, scanned[i] \ {k})
  /\ NoFault
  /\ UNCHANGED <<feedVars, storeVars, lease, stepVars>>

\* A mutant of SetNX: SET, which takes a lease that somebody holds.
SetAlways(i) == lease' = i

\* SETNX that finds no key.
SetNX(i) == lease = Nobody /\ lease' = i

\* The SETNX of an instance that does not hold the lease.  When the key exists
\* it answers false and nothing changes.
Claim(i) ==
  /\ pc[i] = "idle" /\ ~held[i]
  /\ SetNX(i)
  /\ Goto(i, "reload")
  /\ NoFault
  /\ UNCHANGED <<feedVars, storeVars, held, memVars, stepVars>>

\* A mutant of Renew: the holder extends without asking whose the lease is.
RenewBlind(i) ==
  /\ pc[i] = "idle" /\ held[i]
  /\ Goto(i, "extend")
  /\ NoFault
  /\ UNCHANGED <<feedVars, storeVars, leaseVars, memVars, stepVars>>

\* The holder's GET: its own name, no key, or somebody else's.
Renew(i) ==
  /\ pc[i] = "idle" /\ held[i]
  /\ \/ lease = i /\ Goto(i, "extend") /\ UNCHANGED held
     \/ lease = Nobody /\ Goto(i, "reclaim") /\ UNCHANGED held
     \/ lease \notin {i, Nobody} /\ held' = [held EXCEPT ![i] = FALSE] /\ UNCHANGED pc
  /\ NoFault
  /\ UNCHANGED <<feedVars, storeVars, lease, memVars, stepVars>>

\* SET after a GET that returned the own name: unconditional.
Extend(i) ==
  /\ pc[i] = "extend"
  /\ lease' = i
  /\ Goto(i, "open")
  /\ NoFault
  /\ UNCHANGED <<feedVars, storeVars, held, memVars, stepVars>>

\* SETNX after a GET that found no key.  held is still true, so the baselines
\* are not reloaded.
Reclaim(i) ==
  /\ pc[i] = "reclaim"
  /\ \/ SetNX(i) /\ Goto(i, "open") /\ UNCHANGED held
     \/ lease # Nobody /\ held' = [held EXCEPT ![i] = FALSE] /\ Goto(i, "idle") /\ UNCHANGED lease
  /\ NoFault
  /\ UNCHANGED <<feedVars, storeVars, memVars, stepVars>>

-----------------------------------------------------------------------------
(* liveStep and sweep *)

\* GetState
Open(i) ==
  /\ pc[i] = "open"
  /\ \/ /\ watermark = Unset
        /\ Goto(i, "fresh") /\ UNCHANGED next
     \/ /\ watermark # Unset
        /\ Goto(i, "check") /\ next' = [next EXCEPT ![i] = watermark]
  /\ NoFault
  /\ UNCHANGED <<feedVars, storeVars, leaseVars, memVars, batch, pending>>

\* MinMaxLogTS
Fresh(i) ==
  /\ pc[i] = "fresh"
  /\ \/ logs = {} /\ Return(i)
     \/ /\ logs # {}
        /\ Goto(i, "reset") /\ next' = [next EXCEPT ![i] = Origin(logs)]
        /\ UNCHANGED <<batch, pending>>
  /\ NoFault
  /\ UNCHANGED <<feedVars, storeVars, leaseVars, memVars>>

\* Baselines.Reset clears the memory and scans for the keys, ...
ResetScan(i) ==
  /\ pc[i] = "reset"
  /\ mem' = [mem EXCEPT ![i] = EmptyBaselines]
  /\ scanned' = [scanned EXCEPT ![i] = StoredKeys(redis)]
  /\ Goto(i, IF StoredKeys(redis) = {} THEN "check" ELSE "delete")
  /\ NoFault
  /\ UNCHANGED <<feedVars, storeVars, leaseVars, stepVars>>

\* Redis without the keys that a SCAN found
Without(keys) == Overlay(redis, EmptyBaselines, keys)

\* ... and deletes those it found with one command.
ResetDelete(i) ==
  /\ pc[i] = "delete"
  /\ redis' = Without(scanned[i])
  /\ scanned' = [scanned EXCEPT ![i] = {}]
  /\ Goto(i, "check")
  /\ NoFault
  /\ UNCHANGED <<feedVars, watermark, raised, leaseVars, mem, stepVars>>

CheckSettled(i) ==
  /\ pc[i] = "check"
  /\ \/ Settled(next[i], now) /\ Goto(i, "read") /\ UNCHANGED stepVars
     \/ ~Settled(next[i], now) /\ Return(i)
  /\ NoFault
  /\ UNCHANGED <<feedVars, storeVars, leaseVars, memVars>>

\* WindowEvents, and the detectors over what it returned: they read the
\* instance's own baselines, which nothing changes before Learn.
ReadWindow(i) ==
  /\ pc[i] = "read"
  /\ LET S == WindowEvents(logs, next[i])
     IN /\ batch' = [batch EXCEPT ![i] = S]
        /\ pending' = [pending EXCEPT ![i] = Findings(S, mem[i])]
        /\ Goto(i, IF S = {} THEN "save" ELSE "detect")
  /\ NoFault
  /\ UNCHANGED <<feedVars, storeVars, leaseVars, memVars, next>>

\* UpsertAlert and CorrelateAlert of one finding
Raise(i) ==
  /\ pc[i] = "detect"
  /\ \E c \in pending[i] :
       /\ raised' = raised \cup {c}
       /\ pending' = [pending EXCEPT ![i] = @ \ {c}]
  /\ NoFault
  /\ UNCHANGED <<feedVars, redis, watermark, leaseVars, pc, memVars, next, batch>>

\* A mutant of Judged: the baselines are updated before the alerts are stored.
Judging(i) == pc[i] = "detect"

\* Every detector has run and every finding is raised.
Judged(i) == pc[i] = "detect" /\ pending[i] = {}

\* Baselines.Update with the leading step
LearnLead(i) ==
  LET lead == LeadEvents(batch[i], next[i])
  IN /\ Judged(i)
     /\ mem' = [mem EXCEPT ![i] = Learn(@, lead)]
     /\ redis' = WriteThrough(redis, mem[i], lead)
     /\ Goto(i, "save")
     /\ NoFault
     /\ UNCHANGED <<feedVars, watermark, raised, leaseVars, scanned, stepVars>>

\* A mutant of NextStart: windows that do not overlap.
NextWindow(t) == t + 2 * Step

\* next.Add(p.Step)
NextStart(t) == t + Step

\* SetState
Save(i) ==
  /\ pc[i] = "save"
  /\ watermark' = NextStart(next[i])
  /\ next' = [next EXCEPT ![i] = NextStart(@)]
  /\ batch' = [batch EXCEPT ![i] = {}]
  /\ Goto(i, "check")
  /\ NoFault
  /\ UNCHANGED <<feedVars, redis, raised, leaseVars, memVars, pending>>

Process(i) ==
  \/ LoadScan(i) \/ LoadRead(i) \/ Claim(i) \/ Renew(i) \/ Extend(i) \/ Reclaim(i)
  \/ Open(i) \/ Fresh(i) \/ ResetScan(i) \/ ResetDelete(i) \/ CheckSettled(i)
  \/ ReadWindow(i) \/ Raise(i) \/ LearnLead(i) \/ Save(i)

-----------------------------------------------------------------------------
(* Faults *)

Crash(i) ==
  /\ pc[i] # "down"
  /\ Fault(IF pc[i] = "save" /\ batch[i] # {} THEN "crash_unsaved" ELSE "crash")
  /\ lease' = IF lease = i THEN Dead ELSE lease
  /\ held' = [held EXCEPT ![i] = FALSE]
  /\ mem' = [mem EXCEPT ![i] = EmptyBaselines]
  /\ scanned' = [scanned EXCEPT ![i] = {}]
  /\ pc' = [pc EXCEPT ![i] = "down"]
  /\ next' = [next EXCEPT ![i] = 0]
  /\ batch' = [batch EXCEPT ![i] = {}]
  /\ pending' = [pending EXCEPT ![i] = {}]
  /\ UNCHANGED <<feedVars, storeVars>>

Restart(i) ==
  /\ pc[i] = "down"
  /\ Goto(i, "boot")
  /\ NoFault
  /\ UNCHANGED <<feedVars, storeVars, leaseVars, memVars, stepVars>>

\* A mutant of Unattended: a lease without a TTL.
NeverUnattended == FALSE

\* A lease whose owner is gone, or does not know it has it, is never renewed.
Unattended == lease = Dead \/ \E i \in Instances : lease = i /\ pc[i] = "idle" /\ ~held[i]

\* The TTL runs out.
Expire == Unattended /\ lease' = Nobody /\ NoFault
          /\ UNCHANGED <<feedVars, storeVars, held, pc, memVars, stepVars>>

ExpireHeld ==
  /\ lease \in Instances
  /\ Fault(CASE pc[lease] = "extend" -> "lapse_renewal"
             [] Reloading(lease) \/ Sweeping(lease) -> "lapse_sweep"
             [] OTHER -> "lapse_idle")
  /\ lease' = Nobody
  /\ UNCHANGED <<feedVars, storeVars, held, pc, memVars, stepVars>>

\* SETNX whose reply is lost: the key is set and the instance does not know.
ClaimUnanswered(i) ==
  /\ pc[i] = "idle" /\ ~held[i]
  /\ SetNX(i)
  /\ Fault("redis_lease")
  /\ UNCHANGED <<feedVars, storeVars, held, pc, memVars, stepVars>>

\* acquireLease answers false, without an error, when its SET fails; the key
\* may be set all the same.
ExtendFails(i) ==
  /\ pc[i] = "extend"
  /\ Fault("redis_lease")
  /\ lease' \in {lease, i}
  /\ held' = [held EXCEPT ![i] = FALSE]
  /\ Goto(i, "idle")
  /\ UNCHANGED <<feedVars, storeVars, memVars, stepVars>>

\* An error of the renewing SETNX, applied or not, leaves held as it is.
ReclaimFails(i) ==
  /\ pc[i] = "reclaim"
  /\ Fault("redis_lease")
  /\ lease' \in {lease, IF lease = Nobody THEN i ELSE lease}
  /\ Goto(i, "idle")
  /\ UNCHANGED <<feedVars, storeVars, held, memVars, stepVars>>

\* An error of SCAN ends Load with nobody loaded.
LoadScanFails(i) ==
  /\ pc[i] \in {"boot", "reload"}
  /\ Fault("redis_load")
  /\ mem' = [mem EXCEPT ![i] = EmptyBaselines]
  /\ LoadRest(i, {})
  /\ UNCHANGED <<feedVars, storeVars, lease, stepVars>>

\* A failed GET counts as 0.  Any other error ends Load: a user it has not read to
\* the end, the one at which it fails included, has no baseline.
LoadReadFails(i) ==
  /\ pc[i] \in {"boot_read", "reload_read"}
  /\ Fault("redis_load")
  /\ \E k \in NextKeys(scanned[i]) :
       IF k[2] \in {"logins", "events"}
       THEN LoadRest(i, scanned[i] \ {k}) /\ UNCHANGED mem
       ELSE LoadRest(i, {}) /\ mem' = [mem EXCEPT ![i][k[1]] = NoBaseline]
  /\ UNCHANGED <<feedVars, storeVars, lease, stepVars>>

\* Postgres fails under GetState, MinMaxLogTS or WindowEvents ...
QueryFails(i) ==
  /\ pc[i] \in {"open", "fresh", "read"}
  /\ Fault("postgres")
  /\ Return(i)
  /\ UNCHANGED <<feedVars, storeVars, leaseVars, memVars>>

\* ... or under UpsertAlert or CorrelateAlert, with the alert stored or not.
RaiseFails(i) ==
  /\ pc[i] = "detect"
  /\ Fault("postgres")
  /\ \E c \in pending[i] : raised' \in {raised, raised \cup {c}}
  /\ Return(i)
  /\ UNCHANGED <<feedVars, redis, watermark, leaseVars, memVars>>

\* SCAN fails, or DEL does, applied or not.
ResetFails(i) ==
  /\ pc[i] \in {"reset", "delete"}
  /\ Fault("redis_reset")
  /\ mem' = [mem EXCEPT ![i] = EmptyBaselines]
  /\ scanned' = [scanned EXCEPT ![i] = {}]
  /\ redis' \in {redis, Without(scanned[i])}
  /\ Return(i)
  /\ UNCHANGED <<feedVars, watermark, raised, leaseVars>>

\* pipe.Exec is no transaction: the first commands are applied, up to some command
\* of some event.  The memory has learned all of the events.
LearnFails(i) ==
  LET lead == UNION {Feeding(LeadEvents(batch[i], next[i]), u) : u \in Users}
  IN /\ Judged(i)
     /\ Fault("redis_learn")
     /\ mem' = [mem EXCEPT ![i] = Learn(@, lead)]
     /\ \E e \in lead : \E n \in 0 .. 5 : redis' = WrittenUpTo(redis, mem[i], lead, e, n)
     /\ Return(i)
     /\ UNCHANGED <<feedVars, watermark, raised, leaseVars, scanned>>

\* SetState returns an error, with the row written or not.
SaveFails(i) ==
  /\ pc[i] = "save"
  /\ Fault("save")
  /\ watermark' \in {watermark, NextStart(next[i])}
  /\ Return(i)
  /\ UNCHANGED <<feedVars, redis, raised, leaseVars, memVars>>

RedisRestarts ==
  /\ Fault("redis_restart")
  /\ redis' = EmptyBaselines /\ lease' = Nobody
  /\ UNCHANGED <<feedVars, watermark, raised, held, pc, memVars, stepVars>>

Failure ==
  \/ ExpireHeld \/ RedisRestarts
  \/ \E i \in Instances :
       \/ Crash(i) \/ ClaimUnanswered(i) \/ ExtendFails(i) \/ ReclaimFails(i)
       \/ LoadScanFails(i) \/ LoadReadFails(i) \/ QueryFails(i) \/ RaiseFails(i)
       \/ ResetFails(i) \/ LearnFails(i) \/ SaveFails(i)

-----------------------------------------------------------------------------

\* Time does not run out between a fresh start's MinMaxLogTS and its first
\* check: the span in which an event older than the origin could still arrive
\* is two steps long, twenty minutes by default.
Opening ==
  \E i \in Instances : pc[i] \in {"reset", "delete"} \/ (pc[i] = "check" /\ watermark = Unset)

Feed ==
  /\ (Tick /\ ~Opening) \/ \E e \in Events : Ingest(e)
  /\ UNCHANGED <<storeVars, leaseVars, pc, memVars, stepVars, faults>>

Next == Feed \/ Expire \/ Failure \/ \E i \in Instances : Process(i) \/ Restart(i)

Spec == Init /\ [][Next]_vars

\* Every running process keeps making its calls (the ticker keeps firing), and
\* a key that nobody renews expires.
Fairness == WF_vars(Expire) /\ \A i \in Instances : WF_vars(Process(i))

LiveSpec == Spec /\ Fairness

-----------------------------------------------------------------------------
(* Properties *)

\* Every variable keeps its type; findings are data that control never looks
\* into and are not typed here.
TypeOK ==
  /\ FeedTypeOK
  /\ lease \in Instances \cup {Nobody, Dead}
  /\ redis \in [Users -> UserBaseline]
  /\ watermark \in Nat \cup {Unset}
  /\ pc \in [Instances -> Calls]
  /\ held \in [Instances -> BOOLEAN]
  /\ mem \in [Instances -> [Users -> UserBaseline]]
  /\ scanned \in [Instances -> SUBSET (Users \X Fields)]
  /\ next \in [Instances -> Nat]
  /\ batch \in [Instances -> SUBSET Events]
  /\ DOMAIN pending = Instances
  /\ faults \in 0 .. MaxFaults

\* "A Redis single-writer lease ensures only one pipeline instance sweeps at a
\* time" (RunLive): no two instances are inside liveStep.
OneSweeper == \A i, j \in Instances : Sweeping(i) /\ Sweeping(j) => i = j

\* An instance judges a window by the baselines of the history before it:
\* every earlier event learned once, none forgotten in a reload or a takeover,
\* and none of the window's own ("an attack's own events can never vouch for
\* themselves", sweep).
JudgesByHistory ==
  \A i \in Instances :
    pc[i] \in {"read", "detect"} => mem[i] = BaselineOf(Before(logs, next[i]))

\* What a takeover will find: unless a sweep has learned and not yet saved,
\* Redis holds exactly the history before the persisted watermark ("every event
\* is merged exactly once even though successive windows overlap", sweep).
LearnedExactlyOnce ==
  watermark # Unset /\ (\A i \in Instances : pc[i] # "save") =>
    redis = BaselineOf(Before(logs, watermark))

\* The live pipeline implements the batch sweep (NOTES: "Live pipeline == batch
\* evaluator"): it raises the same findings, no more and no fewer, and never
\* passes a window before all of its findings are raised.
Sweep == INSTANCE SweepSpec WITH watermark <- watermark, raised <- raised
LiveEqualsBatch == Sweep!Batch

\* The log reaches t: the window at t has settled and the sweep owes it.
Due(t) == logs # {} /\ Origin(logs) <= t /\ Settled(t, now)

\* Failover: a settled window is eventually swept and the watermark moves past
\* it, although lease holders crash and calls fail now and then.
KeepsUp ==
  \A t \in {n \in 0 .. MaxNow : Aligned(n)} : Due(t) ~> (watermark # Unset /\ watermark > t)

\* Whatever fails, the detectors that need no baselines lose nothing: every
\* finding of theirs in a window the watermark has passed is raised, and they
\* raise nothing a settled window does not hold.
RuleFindingsKept ==
  LET RuleOf(t) == RuleFindings(WindowEvents(logs, t))
      Starts == {n \in 0 .. MaxNow : Aligned(n)}
  IN /\ watermark # Unset =>
          \A t \in Starts : Origin(logs) <= t /\ t < watermark => RuleOf(t) \subseteq raised
     /\ \A c \in raised : c.type \notin {"identity_anomaly", "off_hours_access"} =>
          \E t \in Starts : Settled(t, now) /\ c \in RuleOf(t)

\* Whatever fails, no origin is trusted before it was judged: an IP that any copy
\* of the baselines holds for a user was the origin of a successful access of
\* that user, in a window whose rule findings are all raised ("an attack's own
\* events can never vouch for themselves", sweep; "Only successful events feed a
\* baseline", Baselines).
TrustedOnlyIfJudged ==
  \A u \in Users : \A copy \in {redis} \cup {mem[i] : i \in Instances} : \A ip \in copy[u].ips :
    \E e \in logs : /\ e.user = u /\ e.ip = ip /\ e.status = "success"
                    /\ RuleFindings(WindowEvents(logs, Truncate(e.ts))) \subseteq raised

=============================================================================
