----------------------------- MODULE MCLiveFeed -----------------------------
(***************************************************************************)
(* Small instances of LiveFeed: two events of one instant, and others on   *)
(* both sides of a step's boundary.                                        *)
(***************************************************************************)
EXTENDS LiveFeed

CONSTANTS u1, ipA, h1

MCEvent(id, ts) ==
  [id |-> id, ts |-> ts, type |-> "api_call", status |-> "success", user |-> u1, ip |-> ipA,
   host |-> NoHost, bytes |-> 0, target |-> NoUser, elevated |-> FALSE, leaks |-> {}]

MCEvents == {MCEvent(1, 1), MCEvent(2, 3), MCEvent(3, 3), MCEvent(4, 4), MCEvent(5, 7)}
=============================================================================
