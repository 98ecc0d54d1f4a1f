------------------------------ MODULE Scoring ------------------------------
(***************************************************************************)
(* How the evaluator scores alerts against the manifest of attacks         *)
(* (internal/eval/eval.go), and what it scores: the rows that a batch of   *)
(* findings leaves in the alerts table when nobody else writes to it.      *)
(***************************************************************************)
EXTENDS Detection, SequencesExt

CONSTANTS
  MergePad,       \* pipeline.MergePad, 15 minutes
  ScorePad,       \* the pad cmd/eval passes to Score, 10 minutes
  ListLimit       \* the Limit it passes to ListAlerts, 500

ASSUME PadAssumption == MergePad \in Nat /\ ScorePad \in Nat /\ ListLimit \in Nat \ {0}

AlertTypes ==
  {"credential_stuffing", "privilege_escalation", "lateral_movement", "data_exfiltration",
   "sensitive_data_exposure", "identity_anomaly", "off_hours_access"}

Names == Users \cup IPs \cup Hosts \cup {NoUser, NoIP}

Attack == [id : Nat, type : AlertTypes, entity : Names, start : Nat, end : Nat]

AlertRow ==
  [type : AlertTypes, entity : Names, user : Names, ip : Names, start : Nat, end : Nat]

-----------------------------------------------------------------------------
(* The alerts table *)

SameThing(a, c) ==
  /\ a.type = c.type /\ a.entity = c.entity
  /\ a.start <= c.end + MergePad /\ a.end >= c.start - MergePad

\* A mutant of Grown: the row does not reach the end of what joins it.
GrownAtStart(a, c) == [a EXCEPT !.start = Min({@, c.start})]

\* The row that UpsertAlert widens keeps its user and source IP.
Grown(a, c) == [a EXCEPT !.start = Min({@, c.start}), !.end = Max({@, c.end})]

\* UpsertAlert without a competing writer: the oldest row it overlaps grows, or a
\* new row is inserted.
Upsert(alerts, c) ==
  LET hits == {n \in DOMAIN alerts : SameThing(alerts[n], c)}
  IN IF hits = {}
     THEN Append(alerts, [type |-> c.type, entity |-> c.entity, user |-> c.user, ip |-> c.ip,
                          start |-> c.start, end |-> c.end])
     ELSE [alerts EXCEPT ![Min(hits)] = Grown(@, c)]

\* An order that sortCands may give the findings of a window.  Between detectors it
\* does not matter: their types differ.
InOrder(F) ==
  CHOOSE s \in SetToSeqs(F) : \A m, n \in DOMAIN s : m < n => s[m].start <= s[n].start

\* What sortCands does not tell apart: logins of one user from two new origins that
\* began at one instant.
Tied(c, d) == c.type = d.type /\ c.entity = d.entity /\ c.start = d.start

\* The orders it may give them: it sorts what a map iteration returned and is not
\* stable, so tied findings come in any order.
Orders(F) == {s \in SetToSeqs(F) : \A n \in DOMAIN s : Tied(s[n], InOrder(F)[n])}

\* The rows after the first n findings, ...
StoreFirst(alerts, findings, n) ==
  LET rows[k \in Nat] == IF k = 0 THEN alerts ELSE Upsert(rows[k - 1], findings[k])
  IN rows[n]

\* ... and after all of them.
Store(alerts, findings) == StoreFirst(alerts, findings, Len(findings))

\* Some row says what a finding says.
Covered(rows, c) ==
  \E n \in 1 .. Len(rows) : /\ rows[n].type = c.type /\ rows[n].entity = c.entity
                             /\ rows[n].start <= c.start /\ c.end <= rows[n].end

\* ListAlerts: ORDER BY window_start DESC LIMIT.  Which of the rows that start
\* together the limit cuts is open.
Listings(alerts) ==
  {{alerts[n] : n \in S} : S \in {D \in SUBSET DOMAIN alerts :
     /\ Cardinality(D) = Min({Len(alerts), ListLimit})
     /\ \A m \in D, n \in DOMAIN alerts \ D : alerts[n].start <= alerts[m].start}}

-----------------------------------------------------------------------------
(* Score *)

EntityMatches(al, atk) == atk.entity \in {al.entity, al.user, al.ip}

InTime(al, atk) == al.start <= atk.end + ScorePad /\ al.end >= atk.start - ScorePad

OnTarget(al, atk) == EntityMatches(al, atk) /\ InTime(al, atk)

Score(attacks, listed) ==
  LET Hit(atk)   == \E al \in listed : al.type = atk.type /\ OnTarget(al, atk)
      Exact(al)  == \E atk \in attacks : atk.type = al.type /\ OnTarget(al, atk)
      Cross(al)  == ~Exact(al) /\ \E atk \in attacks : OnTarget(al, atk)
      Of(t, S)   == {x \in S : x.type = t}
      missed     == {atk \in attacks : ~Hit(atk)}
      exact      == {al \in listed : Exact(al)}
      cross      == {al \in listed : Cross(al)}
  IN [perType |-> [t \in AlertTypes |->
                     [attacks  |-> Cardinality(Of(t, attacks)),
                      detected |-> Cardinality(Of(t, attacks \ missed)),
                      alerts   |-> Cardinality(Of(t, listed)),
                      tp       |-> Cardinality(Of(t, exact)),
                      crossTP  |-> Cardinality(Of(t, cross))]],
      missed   |-> missed,
      benignFP |-> Cardinality(listed \ (exact \cup cross))]

\* The scores that an evaluation of these alerts may compute
Scores(attacks, alerts) == {Score(attacks, listed) : listed \in Listings(alerts)}

\* A mutant of FullRecall: an empty manifest counts as detected.
NothingMissed(attacks, r) == r.missed = {}

\* Overall.Recall is the share of attacks detected, and 0 without attacks.
FullRecall(attacks, r) == attacks # {} /\ r.missed = {}

\* The exit code of cmd/eval
ExitCode(attacks, r) == IF FullRecall(attacks, r) /\ r.benignFP = 0 THEN 0 ELSE 1

=============================================================================
