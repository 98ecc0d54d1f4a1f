# SecurityLens: a TLA+ model

SecurityLens reads security logs from Postgres, sweeps overlapping windows of
event time with seven detectors, keeps per-user baselines in memory and in
Redis, stores what it finds as alerts and incidents, and serves them to
analysts, who may ask an LLM for a verdict. A generator makes the datasets it
is evaluated on. This directory models these parts, checks them with TLC and
proves some of what it checks with TLAPS.

Contents: [inventory](#inventory), [modules](#modules-and-the-code),
[runs](#what-the-runs-show), [proofs](#what-is-proved),
[limits](#bounds-assumptions-and-what-is-left-out), [plan](#plan).

## Inventory

| Component | State | Operations | Interacts with |
|---|---|---|---|
| Live pipeline (`internal/pipeline`) | `held`, the step's `next`, the ticker | `RunLive`, `acquireLease`, `liveStep`, `sweep` | lease and baselines in Redis; logs, alerts and watermark in Postgres; `OnAlert` |
| Baselines (`internal/detect/baseline.go`) | `users` in memory; `bl:*` in Redis | `Load`, `Reset`, `Update`, `View` | the pipeline is its only writer, as long as the lease holds |
| Detectors (`internal/detect`) | none | seven `Detect` functions of a window and the baselines | called by `sweep` |
| Secret classifier (`internal/detect/secrets.go`) | none | `ClassifyMessage`, `RedactMessage` | a detector, and the samples kept with alerts |
| Event log (`internal/store/store.go`) | `logs` | `InsertLogEvents`, `MinMaxLogTS`, `WindowEvents`, `ResetAll` | seeders write, the pipeline and the stream read |
| Detection state | `detect_state` | `GetState`, `SetState`, `ResetDetections` | the pipeline's watermark |
| Alerts and incidents (`internal/store/alerts.go`) | `alerts`, `incidents` | `UpsertAlert`, `CorrelateAlert`, `SetAlertStatus`, `SetTriage`, `ListAlerts` | the pipeline, the API, the evaluator |
| Batch drain, evaluator (`Drain`, `cmd/eval`, `internal/eval`) | `eval_runs` | reset, drain, score, record, exit code | the same tables and keys, without the lease |
| LLM service (`internal/llm`) | results in Redis, `llm_usage` | `Triage`, `Investigate`, `GenerateRule` | the API; external providers |
| Rule validation (`internal/rulegen`) | none | `Validate`: two gates, nothing is run | the API; the Go tool chain |
| API (`internal/api`) | none | handlers that write or call out; listings | everything above |
| Stream (`internal/api`) | the cursor of a connection | the tail of the logs, the relay of published alerts | logs; Redis pub/sub |
| Generator, seeder (`internal/gen`, `cmd/seed`) | none | `Generate`; reset, flush, load | the tables and Redis |
| Server start, configuration | none | `SEED_ON_START`, `Load`, `NewClient` | all |
| Runbooks, dashboard | none | static text, presentation | the API |

What is hard here: several server instances share a lease that expires while its
holder works; one process keeps a copy of what Redis holds; a sweep is a chain of
calls to two stores that no transaction spans, and any of them may fail or be the
last before a crash; the retry of a window repeats everything; two writers may
race in the alert tables; the tools that replace and score a dataset share tables
and keys with the server and may die half way; an LLM verdict is stored many
seconds after its alert was read; baselines are kept by the hours of UTC for users
of every time zone. The correctness of the whole is that none of this shows: the
live pipeline raises what a batch sweep of the same logs would raise, and an
evaluation of a dataset finds all that was planted in it and nothing else.

`PROJECT.json` lists each hazard at its line with the property aimed at it.

## Modules and the code

| Module | What it models |
|---|---|
| `SweepWindows` | window arithmetic of `sweep` and `liveStep`: `Truncate`, the window of two steps, its leading step, settling |
| `Detection` | `model.LogEvent`, the baselines (`Update`, its write-through, the keys that `Load` and `Reset` go through) and the seven detectors as functions of sets of events |
| `WindowQueries` | what a sweep reads of a log: the queries of `store.go`, the history before a window, the findings of the batch definition |
| `LogFeed` | the clock and the arrival of events |
| `SweepSpec` | the abstract pipeline: one sweep that raises the findings of each settled window and then moves on |
| `LivePipeline` | `RunLive`, `acquireLease`, `liveStep`, `sweep` of several instances, and their faults; implements `SweepSpec` |
| `AlertStore` | `UpsertAlert` and `CorrelateAlert` as several writers call them |
| `LLMClient` | configuration and choice of the LLM client; what each client makes of an HTTP exchange |
| `TriageDesk` | the requests of analysts: triage, investigation, status, rule generation, down to cache, provider and usage table |
| `LiveFeed` | when an event is judged, and the stream's tail of the logs |
| `Scoring` | the orders in which findings may come, the alerts table of a lone writer, the listings of it, and `eval.Score` over them |
| `Backfill` | `cmd/seed`, `cmd/eval` and `cmd/server` taking turns on one set of stores |
| `Secrets` | `ClassifyMessage` and `RedactMessage` over tokens |
| `Generator` | `internal/gen`: the fleet, seven attacks, forced and organic events; then a drain and the score |
| `MC*` | the small instances; `MCBatch` adds that what the theorems assume of the data holds of them |
| `DetectionProofs` | window arithmetic; lemmas about logs, baselines and detectors |
| `ScoringProofs` | lemmas about findings, the alerts table and the score |
| `LivePipelineProofs`, `AlertStoreProofs`, `TriageDeskProofs`, `LiveFeedProofs`, `BackfillProofs`, `GeneratorProofs` | theorems about the module of that name |

`WindowQueries` extends `Detection` and `SweepWindows`, and `LogFeed` extends it;
`LivePipeline`, `LiveFeed` and `Backfill` extend `LogFeed`, and `LivePipeline` instantiates `SweepSpec` as the
specification it implements. `SweepSpec` knows windows only: what the batch
evaluation finds at a window, and where it starts, are its parameters. `Backfill` and `Generator` extend
`Scoring`; `Generator` composes `WindowQueries`, `Secrets` and the score. The proof
modules build on one another the same way: `DetectionProofs` is about `WindowQueries`,
and `ScoringProofs`, `LivePipelineProofs` and `LiveFeedProofs` use it; `BackfillProofs`
and `GeneratorProofs` use `ScoringProofs`. `TriageDesk` extends `LLMClient`. `AlertStore` stands for what
`LivePipeline` calls `raised` and for what `Scoring` calls `Store`.

**LivePipeline.** `pc[i]` names the call that instance `i` makes next; each call to
Redis or Postgres is one action, so other instances, crashes and errors come
between any two. `Claim`, `Renew`, `Extend` and `Reclaim` are the four ways through
`acquireLease`: SETNX without the lease, the holder's GET, its SET, and the SETNX
after a GET that found no key. `Open`, `Fresh`, `ResetScan`, `ResetDelete` and
`CheckSettled` are `liveStep` up to the sweep; `ReadWindow`
the query and the detectors; `Raise` one finding, in any order; `LearnLead` the
`Update` with the leading step; `Save` the `SetState`. Detection and query are one
action because nothing an instance reads in between can change: the detectors
read its own memory. `Restart` is a new process.

`Load`, before the loop (`Booting`) and after a claim (`Reloading`), is `LoadScan`
and a `LoadRead` for each key of each user it found, in the order of the code;
`Reset` is `ResetScan` and `ResetDelete`. `scanned[i]` are the keys the SCAN returned
that are still to be handled. Whatever another instance or a restart of Redis does
between two of these commands is seen by the rest of them only: a load may be torn, and
a key that is written between the SCAN and the DEL of a reset may survive. What
remains one step: a SCAN that takes more than one cursor call (count 500), one command of
Redis on one key, the DEL of all keys, and the pipeline of an `Update` that succeeds
(with a second sweeper its commands might mix with that one's). In `Backfill`, where
a process is alone with its stores, `Load` is one step.

The lease is the name of its holder. Time is not modelled for it: a lease may
lapse whenever its holder may be too late to renew, as the faults `lapse_idle`,
`lapse_renewal` and `lapse_sweep`; a lease nobody renews (its owner crashed, or
never learned that its claim succeeded) lapses by `Expire`, which is fair. An
instance that restarts has a new owner id, so a crash leaves `lease = Dead`.

Faults are parameters. `Faults` says which kinds may happen and `MaxFaults` how
many, so that a run can ask what the design tolerates, and a single kind can be
shown to break a promise. A failing call that may have been applied (a lost reply)
is modelled both ways; `LearnFails` applies the commands of `Update` up to any of
them (an address, say, and not the count that goes with it), because a Redis pipeline
is no transaction. `LoadScanFails` and `LoadReadFails` end a load, which is only logged,
with the users read to the end so far; a failing GET of `bl:logins` or `bl:events` is
swallowed, and the user goes on with a count of 0.

**Detection.** Detectors are written over sets. The order of events matters to the
code only where it picks the first event's source IP, which `Earliest` does by
`(ts, id)`. A finding keeps its type, entity, user, IP, span and the number of
events behind it. A baseline has five keys in Redis (`Fields`); `LoadKeys` are those
that `Load` reads, which finds its users by `bl:ips:*`, and `StoredKeys` those that
exist and `Reset` deletes. `Merge` has two baselines as arguments because `Update` decides
by its memory which IPs and days are new, and sends commands to Redis accordingly.

**AlertStore.** One step per transaction that finds and locks its row; a separate
step for the insert of a transaction that found none, since it locks nothing.
Rows are keyed by `dedup_key` (type, entity, start), which is unique. `created_at`
is the time a transaction began, so rows that began between the same two inserts
may be ordered either way (`born`). A history is the list of findings of each
window; which one it is, is chosen in `Init`.

**TriageDesk.** A request for an id that no alert has (`Unknown`) is answered with 404 by
every handler that takes one. A request is a record whose `stage` names the call it makes next;
merges by sweeps, hang-ups, expiring results and restarts come between any two
calls. Evidence is a counter that a merge moves on; a verdict carries the alert,
evidence and model it was asked about, so that a stale or foreign one is told
apart. The hash of the cache key is taken to be free of collisions. A call with
the request's context fails after the browser hung up (`Works`); a write whose
answer is lost may have been applied. Provider exchanges are records of what
`doOnce` looks at, in the order each client looks at it. Answers are parsed or not
parsed; a generated rule is one of six classes of Go code, of which `Builds` names those
that compile beside the scaffold's `package rule`. After a restart with
another environment the old results are still in Redis.

**LiveFeed.** Both tickers are urgent: time stands still while one is due, which
models a server that keeps up (a `Sweep` catches up with all settled windows in
one step). A seeder may store an event long before its time, a collector up to the lag
after it; `late` remembers what was stored behind a connection's cursor.

**Scoring.** A detector takes its candidates out of a map, and `sortCands` sorts them
by start and entity, unstably. `Orders` are all sequences it may return: findings that
are `Tied` come in any order. Only logins of one user from two new
addresses that begin at one instant are. The rows that they leave differ, since a row
keeps the first one's source IP. `Listings` are what `ListAlerts` may return: which of the
rows that start together its limit cuts is open. `Scores` are the scores
of all listings. An evaluation chooses an order for each window and a listing when it scores.

**Backfill.** `proc` is the process that runs and `pc` its next step; `Stop`,
`DieSweeping` and a failing `FlushDB` are the faults. The operator runs one process
at a time. A sweep is one step here, or a part of one when the process dies in it;
its inner steps and the lease are `LivePipeline`'s. `recorded` is the newest row of
`eval_runs` together with the tables it was made of.

**Secrets.** A message is a set of tokens; a token says which pattern a word has, if
it is the value of a key, how it is marked as an example (the word EXAMPLE, one of the
placeholder words, or a reserved address), if it has two classes of characters, and if
it is unredacted. The order in which the classifier's rules claim
a word is kept: a key's value that a vendor pattern has claimed is not claimed again.

**Generator.** A draw is a choice of the ends of its range. One user is
followed, since baselines of different users do not touch; the fleet are the
others that a stuffing attack sprays. Benign traffic is reduced to what
lets the baselines mature (three calls a day) and one organic event of any kind.
Stages follow `Generate`; `DrainWindow` is `Pipeline.Drain` with the real
thresholds, step and time unit. Events behind the drain are dropped from the
state, and windows without events are stepped over, which changes no result.

## What the runs show

| Run | Expected | Shows |
|---|---|---|
| `live_tolerated` | pass | with up to three crashes (outside the gap between learning and saving), Postgres errors, lease errors or failing resets: `OneSweeper`, `JudgesByHistory`, `LearnedExactlyOnce`, and the refinement `LiveEqualsBatch` |
| `live_faults` | pass | with any two faults, lapsed leases, torn loads and Redis restarts included: `RuleFindingsKept`, `TrustedOnlyIfJudged`, types |
| `live_failover` | pass | with one fault: a settled window is eventually swept (`KeepsUp`); a holder whose lease lapsed between ticks never sweeps beside its successor |
| `live_crash_unsaved` | violation | a crash between `Update` and `SetState` has events learned twice |
| `live_reclaim` | violation | a holder that takes an expired lease again keeps stale baselines |
| `alerts` | pass | one writer failing anywhere on all 256 histories, or two on some: no finding lost, none counted twice, incidents cover their alerts; with one writer every swept finding is in an incident that spans it |
| `desk` | pass | two requests, four environments: verdicts are about what was read and of the server's own model, none is invented, an analyst's decision stands, no key switches on another provider, only vetted rules are called compiled, every request ends |
| `feed` | pass | every event is judged within a step, the lag and an interval of its happening (`JudgedInTime`); the stream's tail repeats, reorders and skips nothing |
| `feed_latency` | violation | the documented latency bound, without the step, does not hold |
| `batch` | pass | whatever died before, an evaluation records the score its tables define, passes only whole datasets, and a server that caught up shows the same score; both judge each window by the history before it (`JudgedAsBatch`), a drain learns each event once (`DrainMergesOnce`), and every finding is covered by an alert when they are done (`FindingsKept`) |
| `batch_ties` | violation | two new addresses of one user at one instant: two evaluations of the same tables record different scores |
| `dataset` | pass | generated datasets: all attacks found, no benign alert, nothing secret left in redacted samples |

The violations are disagreements between the code and its own comments and
documents; each is a finding in `PROJECT.json` with the line it contradicts.
`LiveEqualsBatch` with `live_crash_unsaved` and `live_reclaim` delimits the claim
"live pipeline == batch evaluator" (NOTES): it holds while no lease lapses, no
write-through fails and no process dies between learning and saving.

Five more disagreements are known from the models and have no run of their own: the
last event of a log that is drained is merged by no window if it stands where a window starts (`DrainMergesOnce`
excepts it; pipeline.go:47-48 says every event is merged exactly once); a
live step longer than the 30 s lease lets a second instance sweep (set `Faults`
to `{"lapse_sweep"}` and check `OneSweeper`; pipeline.go:125 promises one); a failed
write-through leaves Redis without an origin that the memory knows (`redis_learn`;
baseline.go:24); the evidence of an alert may be replaced by evidence of fewer
events when its span grows (alerts.go:57 says otherwise; `Merged`); `alert_count`
counts a merged alert twice (`Absorbed`; Incidents.tsx:36 shows the number).

Every pass run finishes its whole state space. Symmetry over instances and writers
is used for safety only. Definitions marked "A mutant of" are plausible slips in
the code (SET for SETNX, learning before the alerts are stored, windows that do
not overlap, a cache key without the model ...) which show that the properties can
fail.

**Instances.** *Live runs*: two servers, a step of two ticks, and a lag of one. Every subset of the
events may arrive, each at any time the lag allows. `live_tolerated`, `live_crash_unsaved` and
`live_reclaim` have five events and a clock up to 10: a user becomes known, two failed logins of a
stuffing burst straddle a window boundary, and the user logs in from the attacker's address in
a later window. Four windows settle, which leaves room for each event to lead one window and end
another, for a reset, a takeover between windows, and a retry.
`live_faults` and `live_failover`, in which the most may fail, have three events and a clock up to
8 (`MCFewEvents`): an access that a rule finds in the first window, and by which its
address becomes trusted, and a burst over the boundary of the next. Two windows in which something
is found are enough for a window to be retried, taken over, or swept by two at once, and for the
next to suffer from it.
*alerts*: five windows over all subsets of eight events,
among them a burst no window sees whole and two alerts bridged by a third. *desk*:
two requests, one alert, two versions of its evidence, four environments (the keys
that enable, force or must not enable a provider) and eleven exchanges, one for each
way an attempt may go; two requests are enough for one to change what the other
has read, and a third would only repeat one of them; a request that has ended keeps of its case
only what a property still compares (`Ended`). *feed*: five events with equal timestamps and on both sides of
boundaries, a cap of two, three intervals; the tail reads in steps shorter than
the sweeps. *batch*: two datasets, so that each may find the remains of the other, with three chunks each at most;
one becomes mature while it is swept, so baselines decide a finding, and the last event of
the other stands where a window starts and raises a finding there; what the theorems assume
of the data holds of them (`DataAssumption` of `MCBatch`). *batch_ties*: a user with a mature
baseline and two logins at one instant, one from the address of an attack. *dataset*: five
days (the least `Generate` allows) with the code's thresholds; users of UTC-8, UTC+5:30 and
UTC+9 with the longest and shortest working band, each attack type alone, and an
intrusion before an off-hours attack.

`CHECK_DEADLOCK FALSE` is set where the system stops: `alerts` (all windows are
swept), `desk` (all requests are answered), `feed` (the clock ends), `dataset` (the
score is there).

**Fairness.** `live_failover`: each running process keeps making its calls (its
ticker fires for ever and every call returns or fails), and a key that nobody
renews expires (Redis TTL). `Restart` is not fair: a crashed server may stay down,
and with at most one fault another is left. Events and time need no fairness.
`desk`: each request takes its next step, because the provider's HTTP client,
the compiler and the connections to the stores have time limits or fail; nothing
forces a merge, a hang-up, an expiry or a restart.

**What some properties leave out, and why.** `JudgedInTime` needs the ticker's
pace and a server that keeps up; a backlog is `KeepsUp`'s subject.
`CatchUpEqualsBatch` excepts a server that died between learning and saving
(`relearned`), which `live_crash_unsaved` shows to matter. `AttacksAreFound` excepts
one case, and does not catch that hazard: an intruder whose stuffing attack entered an account may, in the
generator, act from that account in the hours that its off-hours attack later uses, and so
teach the baseline to expect them; TLC reaches it. `CatchUpEqualsBatch` and
`EvalReproducible` are about data without ties (`LoginsApart`); with ties `batch_ties` refutes
the latter. `FindingsKept` and `JudgedAsBatch` hold with ties as well. `TrustedOnlyIfJudged`
speaks of trust that comes too early; trust that is lost with a failed write-through, a failed
load or a restart of Redis violates nothing that is stated. `SweptIsCorrelated` is about a lone
writer: with two, an insert swallowed by the dedup key may leave an alert without an incident. `VerdictFitsEvidence` is about
the row the request read: the copy stored with the alert may be older than its
evidence. `UsageIsReal` is one-sided: an answer may lack its row (the insert's error
is ignored, and an answer that does not parse is not recorded, although
EXPLAINER.md:729 says every call is).

## What is proved

Every theorem holds for all values of the constants that satisfy the assumptions
of the module (`StepAssumption`, `ClockAssumption` ...): any number of instances,
writers, requests, events and faults. Where one needs more, it says so in an
ASSUME, and that is discussed below.

**Lemmas.** `DetectionProofs`: two events at most a step apart share a window
(`BurstContained`), and a tick more is too much (`BurstBoundTight`); every event leads
exactly one aligned window (`LeadsOnce`); a settled window gets no more events
(`SettledIsFrozen`); least and greatest elements of sets of
naturals, the types of the operators on baselines, that learning two disjoint sets of
events one after the other is learning their union (`LearnParts`), that the history
before a window and its leading step are the history before the next
(`HistoryParts`), that what arrives within the lag changes neither a settled window
nor its history (`IngestKeepsSettled`), and that no detector finds anything in an
empty window (`FindingsOfNone`). `ScoringProofs`: what recursion leaves in the alerts
table (`Upsert` and `StoreFirst` keep rows rows, and grow them), what a finding spans,
that storing a finding the table covers changes nothing, and that a finding of the
lead of a window was found in the window before, by a table that covers it. That a rule
finds in more events what it finds in fewer, and as long a span (`RulesGrow`): this is
what an overlap of windows is good for.

**The live pipeline under all faults** (`LivePipelineProofs`).

* `TypeCorrect`: `Spec => []TypeOK`.
* `NoRuleFindingLost`: `Spec => []RuleFindingsKept`, for any faults, lapsed leases and
  two simultaneous sweepers included. The invariant `RuleInv` says of every instance
  that the windows between the origin and its `next` have been raised (`Walked`) and
  that what it holds and has raised of its current one is what the rule detectors
  find there; of the watermark, that its window has settled and so changes no more
  (`WatermarkInv`); of everything raised, that it has a settled window (`Grounded`).
* `JudgedBeforeTrusted`: `Spec => []TrustedOnlyIfJudged`, also under all faults. It
  rests on `RuleInv`, because an instance learns only what it has judged.
* `MutualExclusion`: `Spec => []OneSweeper` if no lease lapses under an instance
  that renews or sweeps (`LeaseOutlivesStep`). `OneSweeper` alone is not inductive:
  an instance enters `liveStep` behind a load or through `Extend`, and must own the lease
  there already, which is what `LeaseInv` says. A lease that lapses during a sweep
  breaks it, so the assumption is needed.

**The live pipeline implements the batch sweep** (`LivePipelineProofs`), if the
faults are among crashes outside the gap between learning and saving, Postgres
errors, lease errors and failing resets (`Tolerated`), and if every successful
access has a source IP (`AccessesHaveOrigin(Events)`).

* `JudgedByHistory` (`[]JudgesByHistory`), `EachLearnedOnce` (`[]LearnedExactlyOnce`) and
  `LiveImplementsBatch` (`Spec => LiveEqualsBatch`, with `raised` and `watermark`
  mapped to themselves).
* The invariant has two parts. `HolderInv`: who remembers to hold the lease owns it,
  hence reloads after every change of hands and never passes through `Reclaim`; nobody
  counts as holder before its load is through.
  `SweepInv`: Redis is loaded as it was written (`Loadable`), it holds the history before
  the persisted watermark (`Persisted`), and the holder's memory mirrors it, except
  for what a fresh start is about to reset (`InStep`). Of an instance between the commands of a
  load it says that what it has read, with what is left to read, is what Redis holds, and
  between those of a reset that what the SCAN found is all that is there: whoever loads or
  resets owns the lease, and nobody else writes. Then it says where the holder stands
  (`Position`) and what it has found, raised and learned there (`Progress`).
  A step of `LivePipeline` is then a step of `SweepSpec` or a stutter: `Raise`,
  and a `RaiseFails` that was applied, is `RaiseFinding`; `Save` is `Advance`, also for
  a window without events, in which nothing can be found (`FindingsOfNone`).
* Both assumptions delimit the claim and are not conveniences: without `Tolerated` TLC
  refutes it (`live_crash_unsaved`, `live_reclaim`). Without `AccessesHaveOrigin`,
  `Baselines.Load` forgets users without an IP (baseline.go:46, a listed hazard).
  The generator writes an IP with every access; another collector might not.

**The alert store** (`AlertStoreProofs`), for any finite set of writers and any
windows of findings.

* `NoFindingLost` (`[]SweptIsStored`). `StoredInv`: what lies before a writer's finding, in
  its window or an earlier one, lies within an alert; and each key in the table
  belongs to a finding whose predecessors are all stored. The second part is what makes a
  swallowed insert harmless: the key it met was inserted for the same type, entity
  and start, by a writer that was as far.
* `NeverUnderstated` (`[]IncidentCoversMembers`) and `CountsAreReal`
  (`[]CountsNewActivity`) are inductive together with the types.
* `NoFindingUncorrelated` (`[]SweptIsCorrelated`), which is about a lone writer: what it
  read is what is stored (`Alone`), so what it has passed is within an alert whose
  incident spans it (`SoloInv`).
* `TypeCorrect`. `WritersAssumption` says that there are finitely many server instances.

**The triage desk** (`TriageDeskProofs`): one invariant, `DeskInv`, for eight theorems.
It says of each request what its record tells at its stage (`Sane`: the client that
serves it is the running server's, a verdict in hand is about the row it read, a
rule past the compiler passed the import check), of each cache key that the verdict
under it is about that key (`CacheFits`), of every verdict that a client gave it
(`VerdictsGiven`), and counts answers against usage rows. From it: `TypeCorrect`,
`KeysNeverCross`, `DecisionsOutlive`, `VerdictsFit`, `VerdictsAreOwn`,
`NoVerdictInvented`, `UsageNeverInvented`, `CompiledIsVetted`.

**Latency and the stream** (`LiveFeedProofs`), for every log, pace, lag and cap.

* `JudgedPromptly` (`[]JudgedInTime`): an event that is stored and not judged has its
  first window still ahead of the watermark, and the next tick is due in time for it
  (`JudgeInv`). The work is in a late event that moves the origin of the log back.
* `InOrderOnTheStream` and `NoneSkippedOnTheStream`: everything sent is older than the
  connection's cursor, and all that lies between its start and its cursor was sent,
  came behind the cursor, or was cut off by a full batch (`StreamInv`).
* `TypeCorrect`.

**Datasets** (`BackfillProofs`), for any datasets, any crashes of a seeder, an evaluator
or a server, and any order in which they take turns. The alerts of a sweep are defined by
recursion, over the windows (`BatchAlerts`) and over the findings of one (`StoreFirst`);
an induction over them is an argument about the least counterexample.

* `BackfillTypes` (`[]TypeOK`).
* `GateHolds` (`[]GateNeedsAllEvents`): the manifest is not empty only over all events
  of a dataset of which its attacks are (`ManifestInv`), because a loader writes events
  first, and seeding starts only on an empty table (`LoadInv`).
* `EveryoneJudgesAsBatch` (`[]JudgedAsBatch`), if every successful access has an origin:
  Redis and the sweeping process hold the history before the watermark and before the
  next window, as long as an event is left to judge there (`HistoryInv`). The last
  clause is needed: an aligned last event is never merged (`DrainMergesOnce`), which
  changes no finding because no event follows.
* `EvaluationIsReproducible` (`[]EvalReproducible`), if no two findings of a window are
  tied (`LoginsApart`) and what is in the tables raises no more alerts than `ListAlerts`
  returns (`WithinLimit`). Both are needed: `batch_ties` refutes it with ties, and a limit that
  cuts between rows that start together leaves several listings. In a drain the
  alerts are those of the windows before the next one, and after it those of all windows
  that start before the last event (`DrainInv`, `ShownInv`); a row of `eval_runs` has a score
  that the tables next to it allow (`RecordInv`), and under the limit they allow one. It does not need `AccessesHaveOrigin` because an
  evaluator never loads baselines, it resets them.
* `GateWantsTheWhole` (`[]GateNeedsWholeDataset`), if findings are never tied and each attack of
  a dataset raises an alert, in every listing,
  that no other attack explains (`AttacksStandOut`): without the row of one of them that
  alert is a benign false positive, and the gate fails. A dataset in which two attacks
  hide behind one another's alerts would pass with half of its manifest.
* `CaughtUpScoresAsBatch` (`[]CatchUpEqualsBatch`): the set of scores that the alerts of a server
  may be given is that of the batch. A server resumes over alerts that a drain
  or a dead server left, which may be further than where it resumes. The argument is
  absorption. Every finding of a window before the ones that are done is covered by a row
  that `UpsertAlert` would choose for it, so storing it again changes nothing
  (`BatchInv`, `BatchAbsorbs`). The invariant `CatchInv` therefore says only that the
  alerts are those of the batch up to some finding at or after the next window
  (`Reached`), and a sweep either adds to them or repeats what they have. Besides
  `AccessesHaveOrigin(Events)` it assumes
    * `LoginsApart`: a server and an evaluator that take tied findings in different orders
      show different rows, and so may two servers;
    * `Step <= MergePad` (10 and 15 minutes): with less, a finding of a lead may start a
      second row beside the one it belongs to;
    * `QuietEdges`: a server sweeps the window that starts at the last event, a drain does not.
      If there is such a window, in a dataset or the part of one that a seeder has written
      (`WrittenInv`), it must not be the first, and nothing may be found in it by a detector
      that learns: what a rule finds there is in the window before (`EdgeFound`), and what
      `identity_anomaly` finds there may not be, as the event before may have been learned in
      between. Events of the generator have seconds at random;
    * `LateClock`: when a server says it has caught up, the lag of the last event has passed.
* `NoFindingIsLost` (`[]FindingsKept`), with ties or without, if accesses have origins and the
  clock is late. It does not look at which batch the alerts are: `CoverInv` says that
  each finding of each window behind the next one, or behind the saved watermark, has a row
  that covers it. Whatever order a sweep chooses, storing a finding covers it, and no later one
  uncovers it, since rows only grow.
* `EveryBurstIsReported`: for any log, what the rules find in events that lie within one
  step is covered by an alert of the batch (`BurstContained`, `RulesGrow` and absorption, hence
  `Step <= MergePad`). This is the sentence of EXPLAINER.md:513 for which the windows overlap.
  `NoBurstIsLost` states it of the alerts that an evaluation scores and that a server shows when
  it has caught up, in whichever order they were stored, from `FindingsKept`.

TLC evaluates all of these assumptions on the instance of `batch` (`MCBatch`).

**Redaction** (`GeneratorProofs`): `RedactionIsComplete` (`[]RedactionHides`), for every
dataset that `Generate` may choose, and `RedactedSamplesAreClean`: a message of any
number of tokens has no key and no password left after `RedactMessage`.

**Recall of the generated dataset** (`GeneratorProofs`), for every user the fleet may have,
every plan of attacks, number of days and draw at the ends of the ranges:

* `GeneratorTypes` (`Spec => []TypeOK`): rows, manifest, alerts and baselines are well-formed,
  and attacks lie where `AttackDays` and the user's zone put them (`TypesInv`).
* `RuleAttacksAreFound`: the evaluator misses no attack of the five types that a rule is
  about, which is the part of `AttacksAreFound` in which no baseline has a say. The
  invariant (`FoundInv`) follows an attack through the stages. The action that makes it leaves
  rows that its rule raises in some window (`Made`, `Raised`); until the drain has swept that
  window they lie ahead of it (`Pending`), since the stages only add rows and a drain drops those behind
  it; when a step sweeps it, a row of the alerts covers the finding (`StoreCovers`), and
  from then on one does, as merges only widen rows (`Seen`, `UpsertCovers`). The drain
  jumps from window to window of rows: it passes none in which something is due, and
  when it stops nothing is. A covered finding is within the padding of the score, hence a
  hit (`SeenIsHit`).

The theorem assumes of the constants `WithinReach`: thresholds no higher than what
the attacks draw at least (7 hosts, 25 failures at 25 names, 150 MB), a fleet of as many
users as the threshold of stuffing asks for, and the real step of ten minutes. The defaults
satisfy it, and `MCGenerator` has TLC evaluate it. `GeneratorAssumption` adds what the
code hard-wires or the actions need: 14 hosts (the most that a lateral movement
visits), a finite fleet, and a dataset that starts at least a day after the epoch.
It speaks of lists that `ListAlerts` does not cut: of more than 500 alerts the oldest are not
scored (store/alerts.go:225, a listed hazard), and then the claim is false.

**Only model-checked.**

* Liveness (`KeepsUp`, `EveryRequestEnds`): fairness and ENABLED are beyond the prover.
* `DrainMergesOnce` of `Backfill`. The theorems need of the baselines only what some event is left
  to be judged by.
* `BenignStaysQuiet` of `Generator`, and `AttacksAreFound` for `identity_anomaly` and
  `off_hours_access`. Both depend on what benign days leave in the baselines: how many
  logins, events, days and hours were learned when a window is judged. That is
  a count over a fold of all rows, of numbers that the generator draws. Also, every
  attack of the model comes from one address, `Fresh`, so that a plan of several attacks on one
  user may teach the baseline the address of the next: the runs have plans of one, and one of two.

## Bounds, assumptions and what is left out

* `MaxNow` bounds the clock, `MaxFaults` the faults, `Events` and `Datasets` the
  feed, `MaxEvidence` the merges into an alert, `Requests` the requests; nothing
  else is cut off. `Opening` keeps the clock from running out between a fresh start's
  `MinMaxLogTS` and its first check, a span of two steps in the code. `relearned`
  keeps a server of `Backfill` from dying twice in the gap between learning and saving,
  which would make counts grow without end.
* Collectors store an event within the lag. This is what "settled" means in the
  code; nothing in the repository enforces it. Events that were stored
  long before the pipeline starts (seeding) are covered: processes may start late.
* `gen.Generate` starts its days at a midnight. With `AnchorNow` (gen.go:117-118) it starts at
  the minute the server seeds, which shifts every local hour against the hours of UTC; the model
  has the midnight start only, the one that evaluations use, and says nothing of the regime
  that NOTES.md:58-63 reports a false positive from.
* Ticks stand for time; sub-second ordering in `dedup_key` is not distinguished.
* Severity, title and samples of findings are left out of `LivePipeline`.
* Message classification is an attribute (`leaks`) of an event; `Secrets` says what it
  is. Regular expressions and the Luhn checksum are attributes of a token there.
  SSNs, card numbers and private keys are left readable by
  `RedactMessage`, although its comment says "masks every live secret"; the model has
  it so, and `RedactionHides` is about keys and passwords.
* Seeding or evaluating while a server sweeps is not modelled: NOTES.md rules it out
  ("stop, seed, start"). Two servers that seed one empty table are not modelled.
* The relay of published alerts (`PublishAlert`, `stream`) is not modelled: Redis
  pub/sub drops what nobody is subscribed to, and no line promises otherwise.
* The draws inside a range, and many users' organic traffic at once, are not
  enumerated: an organic event is one at a time beside the warm-up. `SprayHours` bounds the
  hours of credential stuffing to those in which it meets working and off hours; API
  calls are denied in the warm-up alone (elsewhere no threshold is near), and organic
  ssh logins all succeed.
* `gen_test.go:22` says no attack starts before day 3; in the generator, and in the
  model's `TypeOK`, day 3 begins at the user's midnight, which is earlier for users
  east of UTC. A seed that
  draws such a user on that day would fail the test.
* Prompts, texts of verdicts, the timeline and the on-call report, runbooks, the
  dashboard and the schema's indexes are presentation or static data.

## Plan

1. Done: all modules above and their runs; the theorems above.
2. Proofs: that an alert of a lone writer in `AlertStore` is the one
   that `Scoring` makes of the same findings, one finding at a time.
3. Models: the relay of published alerts, if the code comes to promise something
   for them; two servers on an empty table.
