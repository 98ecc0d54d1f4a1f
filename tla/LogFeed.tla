------------------------------ MODULE LogFeed ------------------------------
(***************************************************************************)
(* The logs table as the pipeline sees it: a clock, and events that arrive *)
(* while it advances.  Collectors are outside the repository; the code     *)
(* assumes of them that an event is stored at most Lag after it happened,  *)
(* which is what makes a window settled.                                   *)
(***************************************************************************)
EXTENDS WindowQueries

CONSTANTS
  Events,     \* the events that may happen: any subset of them does
  MaxNow,     \* bound on the clock
  Unset       \* the watermark before the first sweep is saved

ASSUME EventsAssumption ==
  /\ Events \subseteq Event
  /\ IsFiniteSet(Events)
  /\ \A e, f \in Events : e.id = f.id => e = f

ASSUME ClockAssumption == MaxNow \in Nat /\ Unset \notin Nat

VARIABLES
  now,        \* the wall clock
  logs        \* the rows of logs

feedVars == <<now, logs>>

FeedTypeOK == now \in 0 .. MaxNow /\ logs \subseteq Events

FeedInit == now = 0 /\ logs = {}

Tick == now < MaxNow /\ now' = now + 1 /\ UNCHANGED logs

Ingest(e) ==
  /\ e \notin logs
  /\ e.ts <= now /\ now <= e.ts + Lag
  /\ logs' = logs \cup {e}
  /\ UNCHANGED now

=============================================================================
