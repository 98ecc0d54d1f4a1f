----------------------------- MODULE AlertStore -----------------------------
(***************************************************************************)
(* UpsertAlert and CorrelateAlert of internal/store/alerts.go, under the   *)
(* sweeps that call them: what LivePipeline abstracts as the set "raised". *)
(* A writer is a sweeping instance; there is one of them as long as the    *)
(* lease holds, and more when it lapses under a live step.                 *)
(*                                                                         *)
(* A step is a statement or a transaction.  The transactions that find     *)
(* their row lock it (FOR UPDATE) and are one step; those that find none   *)
(* lock nothing, so their insert is a step of its own.                     *)
(***************************************************************************)
EXTENDS Integers, Sequences, FiniteSets

CONSTANTS
  Writers,
  Scenarios,      \* who sweeps, and what the windows hold: see crew and windows
  MergePad, IncidentGap

ASSUME WritersAssumption == IsFiniteSet(Writers)

\* The rank of a severity (model.SeverityRank) stands for it; names are the
\* entity, the user and the source IP, those that are not empty.
Candidate ==
  [type : STRING, entity : STRING, names : SUBSET STRING, rank : 1 .. 4,
   start : Nat, end : Nat, size : Nat]

ASSUME ScenariosAssumption ==
  /\ Scenarios \subseteq [crew : SUBSET Writers, windows : Seq(Seq(Candidate))]
  /\ \A s \in Scenarios : \A n \in DOMAIN s.windows : \A m \in DOMAIN s.windows[n] :
       s.windows[n][m].start <= s.windows[n][m].end

ASSUME GapAssumption == MergePad \in Nat /\ IncidentGap \in Nat

VARIABLES
  crew,           \* the writers that run: one, unless the lease lapsed
  windows,        \* the findings of each window, in the order they are stored
  alerts,         \* the rows of alerts, by dedup_key
  incidents,      \* the rows of incidents, in the order of their inserts
  watermark,      \* the window a live step starts at
  stage,          \* what a writer does next
  win, nth,       \* the window it sweeps, and the finding it stores
  key,            \* the alert it stored
  copy,           \* that alert as GetAlert returned it
  seen            \* rows that existed when its transaction began

store == <<alerts, incidents, watermark>>
given == <<crew, windows>>
vars  == <<given, alerts, incidents, watermark, stage, win, nth, key, copy, seen>>

Stages == {"idle", "select", "insert", "get", "correlate", "open", "save"}

NoKey == <<"", "", 0>>
NoRow == [type |-> "", entity |-> "", names |-> {}, rank |-> 1, start |-> 0, end |-> 0,
          size |-> 0, count |-> 0, incident |-> 0, born |-> 0]

Init ==
  /\ \E s \in Scenarios : crew = s.crew /\ windows = s.windows
  /\ alerts = [k \in {} |-> NoRow] /\ incidents = <<>> /\ watermark = 1
  /\ stage = [w \in Writers |-> "idle"]
  /\ win = [w \in Writers |-> 0] /\ nth = [w \in Writers |-> 0]
  /\ key = [w \in Writers |-> NoKey] /\ copy = [w \in Writers |-> NoRow]
  /\ seen = [w \in Writers |-> 0]

Goto(w, s) == stage' = [stage EXCEPT ![w] = s]

Forget(w) ==
  /\ key' = [key EXCEPT ![w] = NoKey] /\ copy' = [copy EXCEPT ![w] = NoRow]
  /\ seen' = [seen EXCEPT ![w] = 0]

\* A mutant of At: one finding too many.
AtPastEnd(w, n, m) ==
  /\ win' = [win EXCEPT ![w] = n] /\ nth' = [nth EXCEPT ![w] = m]
  /\ Goto(w, IF m <= Len(windows[n]) + 1 THEN "select" ELSE "save")
  /\ Forget(w)

\* The loop over the findings of window n goes to its m-th one, if there is one.
At(w, n, m) ==
  /\ win' = [win EXCEPT ![w] = n] /\ nth' = [nth EXCEPT ![w] = m]
  /\ Goto(w, IF m <= Len(windows[n]) THEN "select" ELSE "save")
  /\ Forget(w)

Done(w) ==
  /\ Goto(w, "idle")
  /\ win' = [win EXCEPT ![w] = 0] /\ nth' = [nth EXCEPT ![w] = 0]
  /\ Forget(w)

Current(w) == windows[win[w]][nth[w]]

\* ORDER BY created_at LIMIT 1.  created_at is when the transaction began;
\* transactions that began between the same two inserts may have any order.
Oldest(rows, S) == {k \in S : \A j \in S : rows[k].born <= rows[j].born}

-----------------------------------------------------------------------------
(* UpsertAlert *)

Key(c) == <<c.type, c.entity, c.start>>

Overlaps(a, c) == a.start <= c.end + MergePad /\ a.end >= c.start - MergePad

Matches(c) ==
  {k \in DOMAIN alerts :
     /\ alerts[k].type = c.type /\ alerts[k].entity = c.entity
     /\ Overlaps(alerts[k], c)}

Grows(a, c) == c.start < a.start \/ c.end > a.end

\* A mutant of Bump: a burst that is seen again counts again.
BumpAlways(a, c) == a.count + 1

Bump(a, c) == IF Grows(a, c) THEN a.count + 1 ELSE a.count

\* A mutant of Merged: the span follows the newest evidence.
Replaced(a, c) == [a EXCEPT !.start = c.start, !.end = c.end, !.count = Bump(a, c)]

Merged(a, c) ==
  [a EXCEPT
     !.start = IF c.start < a.start THEN c.start ELSE @,
     !.end   = IF c.end > a.end THEN c.end ELSE @,
     !.size  = IF Grows(a, c) THEN c.size ELSE @,
     !.count = Bump(a, c)]

NewRow(c, born) ==
  [type |-> c.type, entity |-> c.entity, names |-> c.names, rank |-> c.rank,
   start |-> c.start, end |-> c.end, size |-> c.size, count |-> 1, incident |-> 0,
   born |-> born]

\* The SELECT ... FOR UPDATE, and the UPDATE of the row it found and locked
Select(w) ==
  LET c == Current(w)
  IN /\ stage[w] = "select"
     /\ \/ /\ Matches(c) = {}
           /\ Goto(w, "insert")
           /\ seen' = [seen EXCEPT ![w] = Cardinality(DOMAIN alerts)]
           /\ UNCHANGED <<alerts, key>>
        \/ \E k \in Oldest(alerts, Matches(c)) :
             /\ alerts' = [alerts EXCEPT ![k] = Merged(@, c)]
             /\ key' = [key EXCEPT ![w] = k]
             /\ Goto(w, "get")
             /\ UNCHANGED seen
     /\ UNCHANGED <<incidents, watermark, win, nth, copy>>

\* INSERT ... ON CONFLICT (dedup_key) DO NOTHING.  After a conflict GetAlert
\* finds no row of the new id, and sweep goes on to the next finding.
Insert(w) ==
  LET c == Current(w)
      k == Key(c)
  IN /\ stage[w] = "insert"
     /\ \/ /\ k \notin DOMAIN alerts
           /\ alerts' = [j \in DOMAIN alerts \cup {k} |->
                           IF j = k THEN NewRow(c, seen[w]) ELSE alerts[j]]
           /\ key' = [key EXCEPT ![w] = k]
           /\ Goto(w, "get")
           /\ UNCHANGED <<win, nth, copy, seen>>
        \/ /\ k \in DOMAIN alerts
           /\ At(w, win[w], nth[w] + 1)
           /\ UNCHANGED alerts
     /\ UNCHANGED <<incidents, watermark>>

\* GetAlert, after the commit
Get(w) ==
  /\ stage[w] = "get"
  /\ copy' = [copy EXCEPT ![w] = alerts[key[w]]]
  /\ Goto(w, "correlate")
  /\ UNCHANGED <<store, win, nth, key, seen>>

-----------------------------------------------------------------------------
(* CorrelateAlert *)

Reaches(i, a) ==
  i.entity \in a.names /\ i.last >= a.start - IncidentGap /\ i.first <= a.end + IncidentGap

Reached(a) == {n \in DOMAIN incidents : Reaches(incidents[n], a)}

Members(n) == {k \in DOMAIN alerts : alerts[k].incident = n}

\* A mutant of Absorbed: the count leaves out the alert that is attached.
Uncounted(n, a) ==
  [incidents[n] EXCEPT
     !.tally = Cardinality(Members(n)),
     !.rank  = IF a.rank > @ THEN a.rank ELSE @,
     !.first = IF a.start < @ THEN a.start ELSE @,
     !.last  = IF a.end > @ THEN a.end ELSE @]

\* A mutant of Absorbed: the span of the incident stays as it was.
Kept(n, a) == [incidents[n] EXCEPT !.tally = Cardinality(Members(n)) + 1]

Absorbed(n, a) ==
  [incidents[n] EXCEPT
     !.tally = Cardinality(Members(n)) + 1,
     !.rank  = IF a.rank > @ THEN a.rank ELSE @,
     !.first = IF a.start < @ THEN a.start ELSE @,
     !.last  = IF a.end > @ THEN a.end ELSE @]

Attach(w, n) == alerts' = [alerts EXCEPT ![key[w]].incident = n]

\* The SELECT ... FOR UPDATE, and both UPDATEs when it found an incident
Correlate(w) ==
  LET a == copy[w]
  IN /\ stage[w] = "correlate"
     /\ \/ /\ Reached(a) = {}
           /\ Goto(w, "open")
           /\ seen' = [seen EXCEPT ![w] = Len(incidents)]
           /\ UNCHANGED <<alerts, incidents, win, nth, key, copy>>
        \/ \E n \in Oldest(incidents, Reached(a)) :
             /\ incidents' = [incidents EXCEPT ![n] = Absorbed(n, a)]
             /\ Attach(w, n)
             /\ At(w, win[w], nth[w] + 1)
     /\ UNCHANGED watermark

\* The INSERT of an incident, and the alert's UPDATE
OpenIncident(w) ==
  LET a == copy[w]
  IN /\ stage[w] = "open"
     /\ incidents' = Append(incidents, [entity |-> a.entity, rank |-> a.rank, tally |-> 1,
                                        first |-> a.start, last |-> a.end, born |-> seen[w]])
     /\ Attach(w, Len(incidents) + 1)
     /\ At(w, win[w], nth[w] + 1)
     /\ UNCHANGED watermark

-----------------------------------------------------------------------------
(* The sweeps *)

\* liveStep starts at the watermark.
Begin(w) ==
  /\ stage[w] = "idle" /\ watermark <= Len(windows)
  /\ At(w, watermark, 1)
  /\ UNCHANGED store

\* SetState, and the next window, if it has settled
Save(w) ==
  /\ stage[w] = "save"
  /\ watermark' = win[w] + 1
  /\ \/ win[w] < Len(windows) /\ At(w, win[w] + 1, 1)
     \/ Done(w)
  /\ UNCHANGED <<alerts, incidents>>

\* The process crashes, or a statement fails and liveStep returns.  What the
\* open transaction did is rolled back; what was committed stays.
Fail(w) ==
  /\ stage[w] # "idle"
  /\ Done(w)
  /\ UNCHANGED store

Sweep(w) ==
  Begin(w) \/ Select(w) \/ Insert(w) \/ Get(w) \/ Correlate(w) \/ OpenIncident(w) \/ Save(w)

Next == (\E w \in crew : Sweep(w) \/ Fail(w)) /\ UNCHANGED given

Spec == Init /\ [][Next]_vars

-----------------------------------------------------------------------------
(* Properties *)

Row ==
  [type : STRING, entity : STRING, names : SUBSET STRING, rank : 1 .. 4, start : Nat, end : Nat,
   size : Nat, count : Nat, incident : Nat, born : Nat]

Incident ==
  [entity : STRING, rank : 1 .. 4, tally : Nat, first : Nat, last : Nat, born : Nat]

\* A writer that is past its upsert stands at a stored alert, and one that works
\* stands at a finding of a window.
TypeOK ==
  /\ alerts \in [DOMAIN alerts -> Row]
  /\ incidents \in Seq(Incident)
  /\ \A k \in DOMAIN alerts : alerts[k].incident <= Len(incidents)
  /\ watermark \in 1 .. Len(windows) + 1
  /\ stage \in [Writers -> Stages]
  /\ \A w \in Writers :
       /\ stage[w] \in {"get", "correlate", "open"} => key[w] \in DOMAIN alerts
       /\ stage[w] # "idle" => win[w] \in DOMAIN windows
       /\ stage[w] \in {"select", "insert", "get", "correlate", "open"} =>
            nth[w] \in DOMAIN windows[win[w]]

Holds(a, c) ==
  a.type = c.type /\ a.entity = c.entity /\ a.start <= c.start /\ c.end <= a.end

\* The findings of the windows the watermark has passed.
Swept == UNION {{windows[n][m] : m \in DOMAIN windows[n]} : n \in 1 .. watermark - 1}

\* However many writers run and fail, a window is passed only when each of its
\* findings lies within an alert of its type and entity: so sweeping it again
\* merges and never duplicates (EXPLAINER: "running the same drain twice
\* produces the exact same alert count").
SweptIsStored == \A c \in Swept : \E k \in DOMAIN alerts : Holds(alerts[k], c)

\* ... and, with one writer, when that alert belongs to an incident that spans
\* the finding ("correlation: every alert must belong to an incident",
\* integration test), although the upsert and the correlation are transactions
\* of their own with a crash between them.
SweptIsCorrelated ==
  Cardinality(crew) = 1 => \A c \in Swept : \E k \in DOMAIN alerts :
    /\ Holds(alerts[k], c)
    /\ alerts[k].incident # 0
    /\ LET i == incidents[alerts[k].incident] IN i.first <= c.start /\ c.end <= i.last

Findings == UNION {{windows[n][m] : m \in DOMAIN windows[n]} : n \in DOMAIN windows}

\* "bump count only when the span grows (i.e. genuinely new activity, not the
\* same burst seen again)" (UpsertAlert): retries, overlapping windows and
\* racing writers never count one finding twice.
CountsNewActivity ==
  \A k \in DOMAIN alerts : alerts[k].count <= Cardinality({c \in Findings : Holds(alerts[k], c)})

\* An incident never understates its alerts, whoever writes: its severity is at
\* least that of each of them (CorrelateAlert escalates it), and its count is at
\* least their number.  The count may be too high: an alert that was merged is
\* attached already when it is correlated again.
IncidentCoversMembers ==
  \A n \in DOMAIN incidents :
    /\ \A k \in Members(n) : incidents[n].rank >= alerts[k].rank
    /\ incidents[n].tally >= Cardinality(Members(n))

=============================================================================
