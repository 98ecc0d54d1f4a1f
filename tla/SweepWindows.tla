---------------------------- MODULE SweepWindows ----------------------------
(***************************************************************************)
(* Event-time windows of the sweep (internal/pipeline/pipeline.go).        *)
(* A window is [t, t + 2*Step), successive windows start one Step apart,   *)
(* and the leading step [t, t + Step) of a window is what its sweep merges *)
(* into the baselines.  Time is counted in ticks since an epoch.           *)
(***************************************************************************)
EXTENDS Integers

CONSTANTS Step,   \* SWEEP_STEP, ten minutes by default
          Lag     \* DETECT_LAG, the settling lag

ASSUME StepAssumption == Step \in Nat \ {0}
ASSUME LagAssumption  == Lag \in Nat

\* A mutant of Truncate: one step too far back.
TruncateTwice(ts) == ts - (ts % Step) - Step

\* time.Time.Truncate(p.Step)
Truncate(ts) == ts - (ts % Step)

InWindow(ts, t) == t <= ts /\ ts < t + 2 * Step

InLead(ts, t) == t <= ts /\ ts < t + Step

\* next.Add(2 * p.Step).Before(now - lag)
Settled(t, now) == t + 2 * Step < now - Lag

\* The starts at which a sweep can stand: the aligned instants.
Aligned(t) == t % Step = 0

=============================================================================
