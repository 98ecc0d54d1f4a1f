--------------------------- MODULE WindowQueries ---------------------------
(***************************************************************************)
(* What a sweep reads of a log (internal/pipeline/pipeline.go and the      *)
(* queries of internal/store/store.go it makes): where a fresh sweep       *)
(* starts, the events of a window, those it merges into the baselines and  *)
(* those it has merged before.                                             *)
(***************************************************************************)
EXTENDS Detection, SweepWindows

\* MinMaxLogTS, truncated: where a fresh sweep starts
Origin(L) == Truncate(Min({e.ts : e \in L}))

WindowEvents(L, t) == {e \in L : InWindow(e.ts, t)}

\* A mutant of LeadEvents: the whole window is learned.
AllEvents(S, t) == S

LeadEvents(S, t) == {e \in S : InLead(e.ts, t)}

\* The history a sweep at t has behind it.
Before(L, t) == {e \in L : e.ts < t}

\* What the batch evaluator finds at t: its baselines are those of the history.
FindingsAt(L, t) == Findings(WindowEvents(L, t), BaselineOf(Before(L, t)))

=============================================================================
