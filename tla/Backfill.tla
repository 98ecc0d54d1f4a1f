------------------------------ MODULE Backfill ------------------------------
(***************************************************************************)
(* The life of a dataset: cmd/seed replaces it, cmd/eval drains and scores *)
(* it, and cmd/server catches up with it (after seeding an empty table on  *)
(* its first boot).  The operator runs one of them at a time, as NOTES.md  *)
(* asks ("stop, seed, start"), and each may die between any two steps; the *)
(* tables and Redis are all that is left of it.                            *)
(*                                                                         *)
(* The clock stands still, later than every event.  The lease and the      *)
(* statements inside one sweep are the subject of LivePipeline.            *)
(***************************************************************************)
EXTENDS LogFeed, Scoring

CONSTANTS
  Datasets,       \* what gen.Generate may return: [events, attacks]
  Chunk,          \* rows per COPY, 20000
  NoRun           \* eval_runs is empty

ASSUME DatasetsAssumption ==
  /\ Chunk \in Nat \ {0}
  /\ \A d \in Datasets : /\ d \in [events : SUBSET Events, attacks : SUBSET Attack]
                         /\ d.events # {} /\ IsFiniteSet(d.attacks)

VARIABLES
  attacks,        \* the manifest
  alerts,         \* the rows of alerts, oldest first
  watermark,      \* detect_state
  redis,          \* the baselines in Redis
  recorded,       \* the newest row of eval_runs, and what it was made of
  proc, pc,       \* the process that runs, and what it does next
  dataset,        \* what it generated
  mem,            \* its baselines
  next,           \* the window it stands at
  relearned       \* a server died between learning a window and saving the watermark

tables  == <<logs, attacks, alerts, watermark, recorded>>
process == <<proc, pc, dataset, mem, next>>
vars    == <<feedVars, attacks, alerts, watermark, redis, recorded, process, relearned>>

Nothing == [events |-> {}, attacks |-> {}]

Init ==
  /\ now = MaxNow /\ logs = {}
  /\ attacks = {} /\ alerts = <<>> /\ watermark = Unset /\ recorded = NoRun
  /\ redis = EmptyBaselines /\ relearned = FALSE
  /\ proc = "none" /\ pc = "idle" /\ dataset = Nothing /\ mem = EmptyBaselines /\ next = 0

Goto(label) == pc' = label

-----------------------------------------------------------------------------
(* Shared steps *)

Exit ==
  /\ proc' = "none" /\ Goto("idle")
  /\ dataset' = Nothing /\ mem' = EmptyBaselines /\ next' = 0

\* A mutant of ResetBaselines: what an earlier dataset taught stays.
KeepBaselines == UNCHANGED <<redis, mem, relearned>>

\* Baselines.Reset
ResetBaselines == redis' = EmptyBaselines /\ mem' = EmptyBaselines /\ relearned' = FALSE

Found(t) == Findings(WindowEvents(logs, t), mem)

Lead(t) == LeadEvents(WindowEvents(logs, t), t)

\* Pipeline.sweep
SweepWindow(t) ==
  /\ \E f \in Orders(Found(t)) : alerts' = Store(alerts, f)
  /\ redis' = WriteThrough(redis, mem, Lead(t))
  /\ mem' = Learn(mem, Lead(t))

\* The process dies in the middle: after some findings, or after the baselines
\* are written and before the watermark is.  The latter makes the counts of the
\* baselines grow without end; it happens once until they are reset.
DieSweeping(t) ==
  /\ \/ /\ \E f \in Orders(Found(t)) : \E n \in 0 .. Len(f) : alerts' = StoreFirst(alerts, f, n)
        /\ UNCHANGED <<redis, relearned>>
     \/ /\ ~relearned
        /\ \E f \in Orders(Found(t)) : alerts' = Store(alerts, f)
        /\ redis' = WriteThrough(redis, mem, Lead(t))
        /\ relearned' = TRUE
  /\ Exit
  /\ UNCHANGED <<now, logs, attacks, watermark, recorded>>

\* InsertLogEvents, one chunk of the sorted events
LoadChunk ==
  LET rest == dataset.events \ logs
  IN /\ pc = "load" /\ rest # {}
     /\ logs' = logs \cup {e \in rest : Cardinality(Earlier(rest, e)) < Chunk}
     /\ UNCHANGED <<now, attacks, alerts, watermark, redis, recorded, process, relearned>>

\* A mutant of LoadAttack: the manifest does not wait for the events.
LoadAttackFirst ==
  LET rest == dataset.attacks \ attacks
  IN /\ pc = "load"
     /\ \E a \in rest : /\ \A b \in rest : a.start <= b.start
                        /\ attacks' = attacks \cup {a}
     /\ UNCHANGED <<feedVars, alerts, watermark, redis, recorded, process, relearned>>

\* InsertAttacks, row by row in the order of their start
LoadAttack ==
  LET rest == dataset.attacks \ attacks
  IN /\ pc = "load" /\ dataset.events \subseteq logs
     /\ \E a \in rest : /\ \A b \in rest : a.start <= b.start
                        /\ attacks' = attacks \cup {a}
     /\ UNCHANGED <<feedVars, alerts, watermark, redis, recorded, process, relearned>>

Loaded == pc = "load" /\ dataset.events \subseteq logs /\ dataset.attacks \subseteq attacks

\* The operator stops the process, or it dies, between two steps.
Stop ==
  /\ proc # "none"
  /\ Exit
  /\ UNCHANGED <<now, tables, redis, relearned>>

-----------------------------------------------------------------------------
(* cmd/seed *)

StartSeed ==
  /\ proc = "none"
  /\ proc' = "seed" /\ Goto("reset_all")
  /\ dataset' \in Datasets
  /\ UNCHANGED <<now, tables, redis, mem, next, relearned>>

ResetAll ==
  /\ pc = "reset_all"
  /\ logs' = {} /\ attacks' = {} /\ alerts' = <<>> /\ watermark' = Unset
  /\ Goto("flush")
  /\ UNCHANGED <<now, redis, recorded, proc, dataset, mem, next, relearned>>

\* When FlushDB fails, the seeder logs a warning and goes on.
FlushDB ==
  /\ pc = "flush"
  /\ \/ redis' = EmptyBaselines /\ relearned' = FALSE
     \/ UNCHANGED <<redis, relearned>>
  /\ Goto("load")
  /\ UNCHANGED <<now, tables, proc, dataset, mem, next>>

FinishSeed ==
  /\ proc = "seed" /\ Loaded
  /\ Exit
  /\ UNCHANGED <<now, tables, redis, relearned>>

-----------------------------------------------------------------------------
(* cmd/eval *)

\* It exits at once when logs is empty.
StartEval ==
  /\ proc = "none" /\ logs # {}
  /\ proc' = "eval" /\ Goto("reset_detections")
  /\ UNCHANGED <<now, tables, redis, dataset, mem, next, relearned>>

\* A mutant of Cleared: only the watermark is reset.
AlertsKept == alerts

\* What ResetDetections leaves of the alerts
Cleared == <<>>

ResetDetections ==
  /\ pc = "reset_detections"
  /\ alerts' = Cleared /\ watermark' = Unset
  /\ Goto("drain")
  /\ UNCHANGED <<now, logs, attacks, redis, recorded, proc, dataset, mem, next, relearned>>

Drain ==
  /\ pc = "drain"
  /\ ResetBaselines
  /\ next' = Origin(logs)
  /\ Goto("sweep")
  /\ UNCHANGED <<now, tables, proc, dataset>>

LastEvent == Max({e.ts : e \in logs})

DrainWindow ==
  /\ proc = "eval" /\ pc = "sweep" /\ next < LastEvent
  /\ \/ /\ SweepWindow(next)
        /\ next' = next + Step
        /\ UNCHANGED <<now, logs, attacks, watermark, recorded, proc, pc, dataset, relearned>>
     \/ DieSweeping(next)

\* A mutant of DrainedTo: the last event itself.
DrainedToLast == LastEvent + Step

DrainedTo == Truncate(LastEvent) + Step

SaveWatermark ==
  /\ proc = "eval" /\ pc = "sweep" /\ ~(next < LastEvent)
  /\ watermark' = DrainedTo
  /\ Goto("score")
  /\ UNCHANGED <<now, logs, attacks, alerts, redis, recorded, proc, dataset, mem, next, relearned>>

\* Score, InsertEvalRun and the exit code
Record ==
  /\ pc = "score"
  /\ \E r \in Scores(attacks, alerts) :
       recorded' = [logs |-> logs, attacks |-> attacks, result |-> r,
                    exit |-> ExitCode(attacks, r)]
  /\ Exit
  /\ UNCHANGED <<now, logs, attacks, alerts, watermark, redis, relearned>>

-----------------------------------------------------------------------------
(* cmd/server *)

StartServer ==
  /\ proc = "none"
  /\ proc' = "server"
  /\ \/ Goto("boot") /\ UNCHANGED dataset
     \/ logs = {} /\ Goto("load") /\ dataset' \in Datasets      \* SEED_ON_START
  /\ UNCHANGED <<now, tables, redis, mem, next, relearned>>

FinishServerSeed ==
  /\ proc = "server" /\ Loaded
  /\ Goto("boot")
  /\ UNCHANGED <<now, tables, redis, proc, dataset, mem, next, relearned>>

\* RunLive up to its first live step
Boot ==
  /\ pc = "boot"
  /\ mem' = Load(redis)
  /\ Goto("live")
  /\ UNCHANGED <<now, tables, redis, proc, dataset, next, relearned>>

\* liveStep reads where to start, ...
BeginLive ==
  /\ pc = "live"
  /\ \/ watermark # Unset /\ next' = watermark /\ UNCHANGED <<redis, mem, relearned>>
     \/ watermark = Unset /\ logs # {} /\ next' = Origin(logs) /\ ResetBaselines
  /\ Goto("sweep")
  /\ UNCHANGED <<now, tables, proc, dataset>>

\* ... sweeps the settled windows, saving the watermark behind each, ...
LiveWindow ==
  /\ proc = "server" /\ pc = "sweep" /\ Settled(next, now)
  /\ \/ /\ SweepWindow(next)
        /\ next' = next + Step /\ watermark' = next + Step
        /\ UNCHANGED <<now, logs, attacks, recorded, proc, pc, dataset, relearned>>
     \/ DieSweeping(next)

\* ... and returns until the next tick.
CaughtUp == proc = "server" /\ pc = "sweep" /\ ~Settled(next, now)

EndLive ==
  /\ CaughtUp
  /\ Goto("live")
  /\ UNCHANGED <<now, tables, redis, proc, dataset, mem, next, relearned>>

-----------------------------------------------------------------------------

Seeding == LoadChunk \/ LoadAttack
SeedProcess == StartSeed \/ ResetAll \/ FlushDB \/ FinishSeed
EvalProcess == StartEval \/ ResetDetections \/ Drain \/ DrainWindow \/ SaveWatermark \/ Record
ServerProcess == StartServer \/ FinishServerSeed \/ Boot \/ BeginLive \/ LiveWindow \/ EndLive

Next == Seeding \/ SeedProcess \/ EvalProcess \/ ServerProcess \/ Stop

Spec == Init /\ [][Next]_vars

-----------------------------------------------------------------------------
(* Properties *)

\* The alerts that sweeping the windows that start before a bound leaves, each
\* window judged by exactly the history before it: rows[t] are those of the
\* windows that start before t.  Of the orders of tied findings it takes one.
SweepAt(L, rows, t) ==
  IF Aligned(t) /\ Origin(L) <= t THEN Store(rows, InOrder(FindingsAt(L, t))) ELSE rows

BatchAlerts(L, bound) ==
  LET rows[t \in Nat] == IF t = 0 THEN <<>> ELSE SweepAt(L, rows[t - 1], t - 1)
  IN rows[bound]

BatchScores(L, A) == Scores(A, BatchAlerts(L, Max({e.ts : e \in L})))

TypeOK ==
  /\ FeedTypeOK
  /\ attacks \in SUBSET Attack
  /\ alerts \in Seq(AlertRow)
  /\ watermark = Unset \/ (watermark \in Nat /\ Aligned(watermark))
  /\ redis \in [Users -> UserBaseline] /\ mem \in [Users -> UserBaseline]
  /\ proc \in {"none", "seed", "eval", "server"}
  /\ (proc = "none") <=> (pc = "idle")
  /\ next \in Nat /\ Aligned(next)

\* "results are reproducible": whatever ran and died before, with stale
\* baselines and alerts in the stores, an evaluation records the score that the
\* batch definition gives the tables it found, and no other.
EvalReproducible ==
  recorded # NoRun => BatchScores(recorded.logs, recorded.attacks) = {recorded.result}

\* cmd/eval exits with success only on a dataset that is there as a whole: the
\* rows a seeder left behind when it died never pass.
GateNeedsWholeDataset ==
  recorded # NoRun /\ recorded.exit = 0 =>
    [events |-> recorded.logs, attacks |-> recorded.attacks] \in Datasets

\* Nor do events without some of their dataset, whatever the attacks look like.
GateNeedsAllEvents ==
  recorded # NoRun /\ recorded.exit = 0 =>
    \E d \in Datasets : recorded.logs = d.events /\ recorded.attacks \subseteq d.attacks

\* "live detection and batch evaluation run the identical sweep() code, so the
\* live dashboard reproduces the evaluator's numbers exactly" (EXPLAINER.md):
\* a server that has caught up shows alerts that score as the evaluation of the
\* same tables does, whatever it resumed from; except after a crash between
\* the baselines and the watermark of a window.
CatchUpEqualsBatch ==
  CaughtUp /\ ~relearned => Scores(attacks, alerts) = BatchScores(logs, attacks)

\* ... because whoever sweeps finds in a window exactly what the batch definition
\* finds there, by the baselines of the history before it: whatever an evaluation,
\* a server or a seeder that died left in Redis is reset or is that history.
JudgedAsBatch ==
  pc = "sweep" /\ ~relearned => Found(next) = FindingsAt(logs, next)

\* "the leading-step rule means every event is merged exactly once" (sweep): when a
\* drain is done, Redis has learned each event once and nothing else, whatever an
\* earlier process had taught it or died in the middle of teaching it; but for the
\* last event of the log, when it stands where a window starts: that window is not
\* drained, and no other one learns it.
DrainMergesOnce ==
  proc = "eval" /\ pc = "score" =>
    redis = BaselineOf({e \in logs : Truncate(e.ts) < LastEvent})

\* No finding is lost on the way to the table: when an evaluation scores, or a
\* server has caught up, an alert of its type and entity covers each finding of
\* each window before the last event, however often UpsertAlert merged two of
\* them and whoever died between two of them.
FindingsKept ==
  pc = "score" \/ (CaughtUp /\ ~relearned) =>
    \A t \in 0 .. LastEvent - 1 : Aligned(t) /\ Origin(logs) <= t =>
      \A c \in FindingsAt(logs, t) : Covered(alerts, c)

-----------------------------------------------------------------------------
(* What the theorems assume of the data *)

\* No two findings of a window are tied: nobody logs in from two places at one
\* instant.
LoginsApart ==
  LET Logins == {e \in Events : e.type = "console_login" /\ e.status = "success"}
  IN \A e, f \in Logins : e.user = f.user /\ e.ts = f.ts => e.ip = f.ip

\* Each attack of a dataset raises a listed alert that no other of them explains.
AttacksStandOut ==
  \A d \in Datasets : \A a \in d.attacks :
    \A listed \in Listings(BatchAlerts(d.events, Max({e.ts : e \in d.events}))) :
      \E al \in listed : \A b \in d.attacks : OnTarget(al, b) => b = a

\* What a seeder writes: the first events of a dataset.
Written(L) == \E d \in Datasets : L \subseteq d.events /\ \A e \in L : Earlier(d.events, e) \subseteq L

\* What is in the tables raises no more alerts than ListAlerts returns.
WithinLimit ==
  \A L \in SUBSET Events : L # {} /\ Written(L) =>
    Len(BatchAlerts(L, Max({e.ts : e \in L}))) <= ListLimit

\* A server sweeps the window that starts at the last event, a drain does not: if
\* there is one, it is not the first and the detectors that learn find nothing in it.
QuietEdges ==
  \A L \in SUBSET Events : L # {} /\ Written(L) =>
    LET last == Max({e.ts : e \in L})
    IN Aligned(last) => \A c \in FindingsAt(L, last) :
         Origin(L) < last /\ c.type \notin {"identity_anomaly", "off_hours_access"}

\* The clock stands after the lag of every event.
LateClock == \A e \in Events : Settled(e.ts, MaxNow)

=============================================================================
