------------------------------ MODULE MCBatch ------------------------------
(***************************************************************************)
(* An instance of Backfill for which the hypotheses of its theorems        *)
(* hold.                                                                   *)
(***************************************************************************)
EXTENDS MCBackfill

ASSUME DataAssumption ==
  /\ AccessesHaveOrigin(Events) /\ Step <= MergePad /\ QuietEdges /\ LateClock
  /\ AttacksStandOut /\ LoginsApart /\ WithinLimit

=============================================================================
