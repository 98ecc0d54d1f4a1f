----------------------------- MODULE MCBackfill -----------------------------
(***************************************************************************)
(* Small instances of Backfill.  A tick is five minutes: a step is two of  *)
(* them, the score pad two and the merge pad three.                        *)
(***************************************************************************)
EXTENDS Backfill

CONSTANTS u1, u2, home, cafe, lab, bad, h1

MCEvent(id, ts, type, user, ip) ==
  [id |-> id, ts |-> ts, type |-> type, status |-> "success", user |-> user, ip |-> ip,
   host |-> NoHost, bytes |-> 0, target |-> IF type = "permission_change" THEN user ELSE NoUser,
   elevated |-> type = "permission_change", leaks |-> {}]

MCAttack(id, type, entity, start, end) ==
  [id |-> id, type |-> type, entity |-> entity, start |-> start, end |-> end]

\* u1 logs in from two places before its baseline is mature at the third login,
\* u2 grants itself a right, and u1's account is used from a third origin.
MCFirst ==
  [events  |-> {MCEvent(1, 1, "console_login", u1, home),
                MCEvent(2, 3, "console_login", u1, home),
                MCEvent(3, 5, "console_login", u1, cafe),
                MCEvent(4, 5, "permission_change", u2, home),
                MCEvent(5, 9, "console_login", u1, bad)},
   attacks |-> {MCAttack(1, "privilege_escalation", u2, 5, 5),
                MCAttack(2, "identity_anomaly", u1, 9, 9)}]

\* Another dataset, in which u1 works from the lab and u2 grants itself two rights,
\* a merge pad apart, the second where a window starts.
MCSecond ==
  [events  |-> {MCEvent(6, 0, "console_login", u1, lab),
                MCEvent(7, 3, "permission_change", u2, lab),
                MCEvent(8, 4, "console_login", u1, lab),
                MCEvent(9, 6, "permission_change", u2, lab)},
   attacks |-> {MCAttack(1, "privilege_escalation", u2, 3, 6)}]

\* u1, whose baseline is mature, logs in from two new places at one instant, one of
\* them that of an attack.
MCTies ==
  [events  |-> {MCEvent(1, 0, "console_login", u1, home),
                MCEvent(2, 1, "console_login", u1, home),
                MCEvent(3, 1, "console_login", u1, lab),
                MCEvent(4, 5, "console_login", u1, bad),
                MCEvent(5, 5, "console_login", u1, cafe)},
   attacks |-> {MCAttack(1, "credential_stuffing", bad, 5, 5)}]

MCDatasets == {MCFirst, MCSecond}
MCTied     == {MCTies}

MCEvents == UNION {d.events : d \in MCDatasets}
MCTiedEvents == MCTies.events

=============================================================================
