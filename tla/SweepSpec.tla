----------------------------- MODULE SweepSpec -----------------------------
(***************************************************************************)
(* What the live pipeline promises: one sweep that walks the settled       *)
(* windows in order, raises in each exactly the findings that the batch    *)
(* evaluation of the same logs would raise there, and leaves a window only *)
(* when all of them are raised.  Instances, leases, baselines kept in two  *)
(* places, crashes and retries must be invisible.                          *)
(*                                                                         *)
(* What a finding is, and where a fresh sweep starts, are parameters; time *)
(* and the arrival of events are the environment's.                        *)
(***************************************************************************)
EXTENDS SweepWindows

CONSTANTS
  Unset,              \* the watermark before the first window is left
  Origin(_),          \* where the sweep of a log starts
  FindingsAt(_, _)    \* what the batch evaluation of a log finds at a start

VARIABLES now, logs, watermark, raised

specVars == <<now, logs, watermark, raised>>

SpecInit == now = 0 /\ logs = {} /\ watermark = Unset /\ raised = {}

\* Time does not run back, and events are never taken back.
Feed == now <= now' /\ logs \subseteq logs' /\ UNCHANGED <<watermark, raised>>

\* The window the sweep stands at.
Current == IF watermark = Unset THEN Origin(logs) ELSE watermark

Sweepable == logs # {} /\ Settled(Current, now)

RaiseFinding ==
  /\ Sweepable
  /\ \E c \in FindingsAt(logs, Current) : raised' = raised \cup {c}
  /\ UNCHANGED <<now, logs, watermark>>

Advance ==
  /\ Sweepable
  /\ FindingsAt(logs, Current) \subseteq raised
  /\ watermark' = Current + Step
  /\ UNCHANGED <<now, logs, raised>>

SpecNext == Feed \/ RaiseFinding \/ Advance

Batch == SpecInit /\ [][SpecNext]_specVars
=============================================================================
