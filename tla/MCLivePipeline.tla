--------------------------- MODULE MCLivePipeline ---------------------------
(***************************************************************************)
(* Small instances of LivePipeline: a step is two ticks, and a handful of *)
(* events that make every window matter.                                   *)
(***************************************************************************)
EXTENDS LivePipeline, TLC

CONSTANTS i1, i2, u1, u2, ipA, ipB, h1

MCEvent(id, ts, type, status, user, ip) ==
  [id |-> id, ts |-> ts, type |-> type, status |-> status, user |-> user, ip |-> ip,
   host |-> NoHost, bytes |-> 0, target |-> NoUser, elevated |-> FALSE, leaks |-> {}]

\* u1 becomes known in the first step and logs in from a new origin at tick 5.
\* The two failed logins from that origin straddle the boundary at tick 4, so
\* only the window [2, 6) holds both; u2 is learned beside u1.
MCEvents ==
  {MCEvent(1, 1, "console_login", "success", u1, ipA),
   MCEvent(2, 2, "api_call",      "success", u2, ipA),
   MCEvent(3, 3, "console_login", "failure", u1, ipB),
   MCEvent(4, 4, "ssh_login",     "failure", u2, ipB),
   MCEvent(5, 5, "console_login", "success", u1, ipB)}

\* Fewer events for the runs in which most may fail, with a finding in each of two
\* windows: u1 reaches a host, which one event suffices for, and becomes known by it;
\* the burst of failed logins from its address straddles the boundary at tick 4.
MCFewEvents ==
  {[MCEvent(1, 1, "ssh_login", "success", u1, ipB) EXCEPT !.host = h1],
   MCEvent(3, 3, "console_login", "failure", u2, ipB),
   MCEvent(4, 4, "ssh_login",     "failure", u1, ipB)}

MCSymmetry == Permutations(Instances)
=============================================================================
