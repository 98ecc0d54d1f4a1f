-------------------------- MODULE AlertStoreProofs --------------------------
(***************************************************************************)
(* Proofs about AlertStore: for any number of writers, whatever the        *)
(* windows hold and wherever a writer fails, every finding that was swept  *)
(* lies within an alert, no activity counts twice, and no incident         *)
(* understates its alerts; with one writer, every finding that was swept   *)
(* is in an incident.                                                      *)
(***************************************************************************)
EXTENDS AlertStore, FiniteSetTheorems, TLAPS

-----------------------------------------------------------------------------
(* The inductive invariants *)

GivenOK ==
  /\ crew \subseteq Writers /\ windows \in Seq(Seq(Candidate))
  /\ \A n \in DOMAIN windows : \A m \in DOMAIN windows[n] : windows[n][m].start <= windows[n][m].end

Tables ==
  /\ alerts \in [DOMAIN alerts -> Row] /\ IsFiniteSet(DOMAIN alerts) /\ incidents \in Seq(Incident)
  /\ \A k \in DOMAIN alerts : alerts[k].incident <= Len(incidents)
  /\ watermark \in 1 .. Len(windows) + 1

Hands ==
  /\ stage \in [Writers -> Stages]
  /\ win \in [Writers -> Nat] /\ nth \in [Writers -> Nat] /\ seen \in [Writers -> Nat]
  /\ DOMAIN key = Writers /\ DOMAIN copy = Writers

\* Where a writer stands, and what it holds.
Stands(w) ==
  /\ stage[w] # "idle" => w \in crew /\ win[w] \in DOMAIN windows /\ nth[w] >= 1
  /\ stage[w] \in {"select", "insert", "get", "correlate", "open"} => nth[w] \in DOMAIN windows[win[w]]
  /\ stage[w] = "save" => nth[w] > Len(windows[win[w]])
  /\ stage[w] \in {"get", "correlate", "open"} =>
       key[w] \in DOMAIN alerts /\ Holds(alerts[key[w]], Current(w))
  /\ stage[w] \in {"correlate", "open"} => copy[w] \in Row /\ copy[w].rank = alerts[key[w]].rank

Typed == GivenOK /\ Tables /\ Hands /\ \A w \in Writers : Stands(w)

\* Finding j of window i comes before finding m of window n, as a writer
\* walks through them.
Before(i, j, n, m) == i < n \/ (i = n /\ j < m)

Held(c) == \E k \in DOMAIN alerts : Holds(alerts[k], c)

\* Every finding before that position is in an alert.
Prior(n, m) ==
  \A i \in DOMAIN windows : \A j \in DOMAIN windows[i] : Before(i, j, n, m) => Held(windows[i][j])

\* A writer that found no row to merge into has passed no finding with its key.
FirstOfKey(w) ==
  \A i \in DOMAIN windows : \A j \in DOMAIN windows[i] :
    Before(i, j, win[w], nth[w]) => Key(windows[i][j]) # Key(Current(w))

\* The alert of a key was inserted by a writer that had passed all before it.
KeyKnown(k) ==
  \E n \in DOMAIN windows : \E m \in DOMAIN windows[n] :
    Key(windows[n][m]) = k /\ Prior(n, m + 1)

StoredInv ==
  /\ Typed
  /\ Prior(watermark, 1)
  /\ \A w \in Writers :
       /\ stage[w] # "idle" => Prior(win[w], nth[w])
       /\ stage[w] = "insert" => FirstOfKey(w)
  /\ \A k \in DOMAIN alerts : KeyKnown(k)

CoverInv == Typed /\ IncidentCoversMembers

CountInv == Typed /\ CountsNewActivity

\* With one writer: what it read is what is stored, and a finding is also in an
\* incident once the writer has passed it.
KeySpans(k) ==
  /\ k[3] \in Nat /\ alerts[k].type = k[1] /\ alerts[k].entity = k[2]
  /\ alerts[k].start <= k[3] /\ k[3] <= alerts[k].end

Sealed(c) ==
  \E k \in DOMAIN alerts :
    /\ Holds(alerts[k], c) /\ alerts[k].incident # 0
    /\ LET i == incidents[alerts[k].incident] IN i.first <= c.start /\ c.end <= i.last

SealedBefore(n, m) ==
  \A i \in DOMAIN windows : \A j \in DOMAIN windows[i] : Before(i, j, n, m) => Sealed(windows[i][j])

Alone(w) ==
  /\ stage[w] # "idle" => SealedBefore(win[w], nth[w])
  /\ stage[w] = "insert" => Matches(Current(w)) = {}
  /\ stage[w] \in {"correlate", "open"} => copy[w] = alerts[key[w]]

SoloInv ==
  /\ Typed
  /\ \A k \in DOMAIN alerts : KeySpans(k)
  /\ Cardinality(crew) = 1 => SealedBefore(watermark, 1) /\ \A w \in Writers : Alone(w)

-----------------------------------------------------------------------------
(* Findings and rows *)

LEMMA FindingAt ==
  ASSUME GivenOK, NEW n \in DOMAIN windows, NEW m \in DOMAIN windows[n]
  PROVE  /\ windows[n][m] \in Candidate /\ windows[n][m].start <= windows[n][m].end
         /\ n \in Nat \ {0} /\ m \in Nat \ {0}
         /\ windows[n] \in Seq(Candidate) /\ n \in 1 .. Len(windows) /\ m \in 1 .. Len(windows[n])
  <1>1. windows \in Seq(Seq(Candidate)) /\ n \in 1 .. Len(windows)
    BY DEF GivenOK
  <1>2. windows[n] \in Seq(Candidate)
    BY <1>1
  <1>3. m \in 1 .. Len(windows[n]) /\ windows[n][m] \in Candidate
    BY <1>2
  <1>4. QED
    BY <1>1, <1>2, <1>3 DEF GivenOK

LEMMA CurrentAt ==
  ASSUME Typed, NEW w \in Writers, stage[w] \in {"select", "insert", "get", "correlate", "open"}
  PROVE  /\ win[w] \in DOMAIN windows /\ nth[w] \in DOMAIN windows[win[w]]
         /\ Current(w) \in Candidate /\ Current(w).start <= Current(w).end
  <1>1. win[w] \in DOMAIN windows /\ nth[w] \in DOMAIN windows[win[w]]
    BY DEF Typed, Stands
  <1>2. QED
    BY <1>1, FindingAt DEF Typed, Current

LEMMA MergedParts ==
  ASSUME NEW a \in Row, NEW c \in Candidate
  PROVE  /\ Merged(a, c) \in Row
         /\ Merged(a, c).type = a.type /\ Merged(a, c).entity = a.entity /\ Merged(a, c).rank = a.rank
         /\ Merged(a, c).start = IF c.start < a.start THEN c.start ELSE a.start
         /\ Merged(a, c).end = IF c.end > a.end THEN c.end ELSE a.end
         /\ Merged(a, c).count = Bump(a, c) /\ Merged(a, c).incident = a.incident
  <1> DEFINE start == IF c.start < a.start THEN c.start ELSE a.start
             end   == IF c.end > a.end THEN c.end ELSE a.end
             size  == IF Grows(a, c) THEN c.size ELSE a.size
             count == Bump(a, c)
             b1 == [a EXCEPT !.start = start]
             b2 == [b1 EXCEPT !.end = end]
             b3 == [b2 EXCEPT !.size = size]
             b4 == [b3 EXCEPT !.count = count]
  <1>1. start \in Nat /\ end \in Nat /\ size \in Nat /\ count \in Nat
    BY DEF Row, Candidate, Bump
  <1>2. Merged(a, c) = b4
    BY DEF Merged
  <1> HIDE DEF start, end, size, count
  <1>3. b1 \in Row
    BY <1>1 DEF Row
  <1>4. \A b \in Row, n \in Nat : [b EXCEPT !.end = n] \in Row /\ [b EXCEPT !.size = n] \in Row
                               /\ [b EXCEPT !.count = n] \in Row
    BY DEF Row
  <1>5. b4 \in Row
    BY <1>1, <1>3, <1>4, Zenon
  <1>6. b4.type = a.type /\ b4.entity = a.entity /\ b4.rank = a.rank
    BY Zenon DEF Row
  <1>7. b4.start = start
    BY Zenon DEF Row
  <1>8. b4.end = end
    BY Zenon DEF Row
  <1>9. b4.count = count /\ b4.incident = a.incident
    BY Zenon DEF Row
  <1> HIDE DEF b4
  <1>10. QED
    BY <1>2, <1>5, <1>6, <1>7, <1>8, <1>9 DEF start, end, count

LEMMA AbsorbedParts ==
  ASSUME NEW i \in Incident, NEW n, i = incidents[n], NEW a \in Row, Cardinality(Members(n)) \in Nat
  PROVE  /\ Absorbed(n, a) \in Incident
         /\ Absorbed(n, a).tally = Cardinality(Members(n)) + 1
         /\ Absorbed(n, a).rank >= i.rank /\ Absorbed(n, a).rank >= a.rank
         /\ Absorbed(n, a).first <= i.first /\ Absorbed(n, a).first <= a.start
         /\ Absorbed(n, a).last >= i.last /\ Absorbed(n, a).last >= a.end
  <1> DEFINE tally == Cardinality(Members(n)) + 1
             rank  == IF a.rank > i.rank THEN a.rank ELSE i.rank
             first == IF a.start < i.first THEN a.start ELSE i.first
             last  == IF a.end > i.last THEN a.end ELSE i.last
             i1 == [i EXCEPT !.tally = tally]
             i2 == [i1 EXCEPT !.rank = rank]
             i3 == [i2 EXCEPT !.first = first]
             i4 == [i3 EXCEPT !.last = last]
  <1>1. /\ tally \in Nat /\ rank \in 1 .. 4 /\ first \in Nat /\ last \in Nat
        /\ rank >= i.rank /\ rank >= a.rank /\ first <= i.first /\ first <= a.start
        /\ last >= i.last /\ last >= a.end
    BY DEF Row, Incident
  <1>2. Absorbed(n, a) = i4
    BY DEF Absorbed
  <1> HIDE DEF tally, rank, first, last
  <1>3. i1 \in Incident
    BY <1>1 DEF Incident
  <1>4. /\ \A j \in Incident, x \in 1 .. 4 : [j EXCEPT !.rank = x] \in Incident
        /\ \A j \in Incident, x \in Nat : [j EXCEPT !.first = x] \in Incident /\ [j EXCEPT !.last = x] \in Incident
    BY DEF Incident
  <1>5. i4 \in Incident
    BY <1>1, <1>3, <1>4, Zenon
  <1>6. i4.tally = tally /\ i4.rank = rank
    BY Zenon DEF Incident
  <1>7. i4.first = first /\ i4.last = last
    BY Zenon DEF Incident
  <1> HIDE DEF i4
  <1>8. QED
    BY <1>1, <1>2, <1>5, <1>6, <1>7 DEF tally

LEMMA NewRowParts ==
  ASSUME NEW c \in Candidate, NEW born \in Nat
  PROVE  NewRow(c, born) \in Row /\ Holds(NewRow(c, born), c)
  BY DEF NewRow, Row, Candidate, Holds

-----------------------------------------------------------------------------
(* The frame of a step: rows only widen, and only one writer moves.          *)

Wider(a, b) ==
  /\ b.type = a.type /\ b.entity = a.entity /\ b.rank = a.rank
  /\ b.start <= a.start /\ a.end <= b.end

RowsWiden == \A k \in DOMAIN alerts : k \in DOMAIN alerts' /\ Wider(alerts[k], alerts'[k])

OnlyMoves(w) ==
  \A v \in Writers \ {w} :
    /\ stage'[v] = stage[v] /\ win'[v] = win[v] /\ nth'[v] = nth[v] /\ seen'[v] = seen[v]
    /\ key'[v] = key[v] /\ copy'[v] = copy[v]

LEMMA Widening ==
  ASSUME NEW a \in Row, NEW b \in Row, NEW c \in Candidate, Wider(a, b), Holds(a, c)
  PROVE  Holds(b, c)
  BY DEF Wider, Holds, Row, Candidate

LEMMA HeldStays ==
  ASSUME Tables, Tables', RowsWiden, NEW c \in Candidate, Held(c)
  PROVE  Held(c)'
  <1>1. PICK k \in DOMAIN alerts : Holds(alerts[k], c)
    BY DEF Held
  <1>2. k \in DOMAIN alerts' /\ Holds(alerts'[k], c)
    BY <1>1, Widening DEF Tables, RowsWiden
  <1>3. QED
    BY <1>2 DEF Held

LEMMA OthersStand ==
  ASSUME Typed, Tables', UNCHANGED given, RowsWiden, NEW w \in Writers, OnlyMoves(w), NEW v \in Writers, v # w
  PROVE  Stands(v)'
  <1>1. Stands(v) /\ windows' = windows /\ crew' = crew
    BY DEF Typed, given
  <1>2. /\ stage'[v] = stage[v] /\ win'[v] = win[v] /\ nth'[v] = nth[v]
        /\ key'[v] = key[v] /\ copy'[v] = copy[v]
    BY DEF OnlyMoves
  <1>3. Current(v)' = Current(v)
    BY <1>1, <1>2 DEF Current
  <1>4. ASSUME stage[v] \in {"get", "correlate", "open"}
        PROVE  /\ key[v] \in DOMAIN alerts' /\ Holds(alerts'[key[v]], Current(v))
               /\ alerts'[key[v]].rank = alerts[key[v]].rank
    <2>1. Current(v) \in Candidate
      BY <1>4, CurrentAt
    <2>2. /\ key[v] \in DOMAIN alerts /\ Holds(alerts[key[v]], Current(v))
          /\ key[v] \in DOMAIN alerts' /\ Wider(alerts[key[v]], alerts'[key[v]])
      BY <1>1, <1>4 DEF Stands, RowsWiden
    <2>3. alerts[key[v]] \in Row /\ alerts'[key[v]] \in Row
      BY <2>2 DEF Typed, Tables
    <2>4. QED
      BY <2>1, <2>2, <2>3, Widening DEF Wider
  <1>5. QED
    BY <1>1, <1>2, <1>3, <1>4 DEF Stands

LEMMA TypedFrame ==
  ASSUME Typed, UNCHANGED given, Tables', Hands', RowsWiden, NEW w \in Writers, OnlyMoves(w), Stands(w)'
  PROVE  Typed'
  <1>1. \A v \in Writers : Stands(v)'
    BY OthersStand
  <1>2. GivenOK'
    BY DEF Typed, GivenOK, given
  <1>3. QED
    BY <1>1, <1>2 DEF Typed

LEMMA WiderSelf == ASSUME NEW a \in Row PROVE Wider(a, a)
  BY DEF Wider, Row

LEMMA SameRows == ASSUME Typed, alerts' = alerts PROVE RowsWiden
  BY WiderSelf DEF Typed, Tables, RowsWiden

\* A writer that takes up finding m of window n.
LEMMA AtParts ==
  ASSUME Typed, UNCHANGED given, NEW w \in crew, NEW n \in DOMAIN windows, NEW m \in Nat \ {0}, At(w, n, m)
  PROVE  /\ Hands' /\ Stands(w)' /\ OnlyMoves(w)
         /\ stage'[w] = IF m <= Len(windows[n]) THEN "select" ELSE "save"
         /\ win'[w] = n /\ nth'[w] = m
  <1>1. w \in Writers /\ windows' = windows /\ crew' = crew
    BY DEF Typed, GivenOK, given
  <1>2. n \in Nat /\ windows[n] \in Seq(Candidate)
    BY DEF Typed, GivenOK
  <1>3. Hands'
    BY <1>1, <1>2 DEF Typed, Hands, At, Goto, Forget, Stages
  <1>4. /\ stage'[w] = IF m <= Len(windows[n]) THEN "select" ELSE "save"
        /\ win'[w] = n /\ nth'[w] = m
    BY <1>1 DEF Typed, Hands, At, Goto
  <1>5. OnlyMoves(w)
    BY <1>1 DEF Typed, Hands, At, Goto, Forget, OnlyMoves
  <1>6. Stands(w)'
    BY <1>1, <1>2, <1>4 DEF Stands
  <1>7. QED
    BY <1>3, <1>4, <1>5, <1>6

LEMMA DoneParts ==
  ASSUME Typed, UNCHANGED given, NEW w \in crew, Done(w)
  PROVE  Hands' /\ Stands(w)' /\ OnlyMoves(w) /\ stage'[w] = "idle"
  <1>1. w \in Writers
    BY DEF Typed, GivenOK
  <1>2. stage'[w] = "idle"
    BY <1>1 DEF Typed, Hands, Done, Goto
  <1>3. Hands'
    BY <1>1 DEF Typed, Hands, Done, Goto, Forget, Stages
  <1>4. OnlyMoves(w)
    BY <1>1 DEF Typed, Hands, Done, Goto, Forget, OnlyMoves
  <1>5. QED
    BY <1>2, <1>3, <1>4 DEF Stands

-----------------------------------------------------------------------------
(* Types, action by action *)

OneWriter(w) == Typed' /\ RowsWiden /\ OnlyMoves(w)

LEMMA SelectTyped ==
  ASSUME Typed, UNCHANGED given, NEW w \in crew, Select(w)
  PROVE  OneWriter(w)
  <1> DEFINE c == Current(w)
  <1>1. /\ w \in Writers /\ stage[w] = "select" /\ c \in Candidate /\ Stands(w)
        /\ win[w] \in DOMAIN windows /\ nth[w] \in DOMAIN windows[win[w]]
        /\ windows' = windows /\ crew' = crew
    BY CurrentAt DEF Typed, GivenOK, Select, given
  <1>2. Current(w)' = c
    BY <1>1 DEF Current, Select
  <1> HIDE DEF c
  <1>3. CASE Goto(w, "insert") /\ seen' = [seen EXCEPT ![w] = Cardinality(DOMAIN alerts)] /\ UNCHANGED <<alerts, key>>
    <2>1. Cardinality(DOMAIN alerts) \in Nat
      BY FS_CardinalityType DEF Typed, Tables
    <2>2. Hands' /\ OnlyMoves(w) /\ stage'[w] = "insert"
      BY <1>1, <1>3, <2>1 DEF Typed, Hands, Select, Goto, OnlyMoves, Stages
    <2>3. Tables'
      BY <1>1, <1>3 DEF Typed, Tables, Members, Select
    <2>4. Stands(w)'
      BY <1>1, <1>2, <1>3, <2>2 DEF Stands, Select
    <2>5. QED
      BY <1>1, <1>3, <2>2, <2>3, <2>4, SameRows, TypedFrame DEF OneWriter
  <1>4. ASSUME NEW k \in Oldest(alerts, Matches(c)),
               alerts' = [alerts EXCEPT ![k] = Merged(alerts[k], c)],
               key' = [key EXCEPT ![w] = k], Goto(w, "get"), UNCHANGED seen
        PROVE  OneWriter(w)
    <2>1. k \in DOMAIN alerts /\ alerts[k].type = c.type /\ alerts[k].entity = c.entity
      BY <1>4 DEF Oldest, Matches
    <2>2. alerts[k] \in Row
      BY <2>1 DEF Typed, Tables
    <2> DEFINE b == Merged(alerts[k], c)
    <2>3. /\ b \in Row /\ Wider(alerts[k], b) /\ Holds(b, c) /\ b.incident = alerts[k].incident
      <3>1. /\ b \in Row /\ b.type = alerts[k].type /\ b.entity = alerts[k].entity
            /\ b.rank = alerts[k].rank /\ b.incident = alerts[k].incident
            /\ b.start = IF c.start < alerts[k].start THEN c.start ELSE alerts[k].start
            /\ b.end = IF c.end > alerts[k].end THEN c.end ELSE alerts[k].end
        BY <1>1, <2>2, MergedParts
      <3> HIDE DEF b
      <3>2. QED
        BY <1>1, <2>1, <2>2, <3>1 DEF Wider, Holds, Row, Candidate
    <2> HIDE DEF b
    <2>4. /\ alerts' = [alerts EXCEPT ![k] = b] /\ DOMAIN alerts' = DOMAIN alerts /\ alerts'[k] = b
          /\ \A j \in DOMAIN alerts : j # k => alerts'[j] = alerts[j]
      BY <1>4, <2>1 DEF b, Typed, Tables
    <2>5. Tables'
      BY <1>1, <2>1, <2>3, <2>4 DEF Typed, Tables, Select
    <2>6. RowsWiden
      BY <2>1, <2>3, <2>4, WiderSelf DEF Typed, Tables, RowsWiden
    <2>7. Hands' /\ OnlyMoves(w) /\ stage'[w] = "get" /\ key'[w] = k
      BY <1>1, <1>4 DEF Typed, Hands, Select, Goto, OnlyMoves, Stages
    <2>8. Stands(w)'
      BY <1>1, <1>2, <2>1, <2>3, <2>4, <2>7 DEF Stands, Select
    <2>9. QED
      BY <1>1, <2>5, <2>6, <2>7, <2>8, TypedFrame DEF OneWriter
  <1>5. QED
    BY <1>3, <1>4 DEF Select, c

LEMMA InsertTyped ==
  ASSUME Typed, UNCHANGED given, NEW w \in crew, Insert(w)
  PROVE  OneWriter(w)
  <1> DEFINE c == Current(w)
             k == Key(c)
             b == NewRow(c, seen[w])
  <1>1. /\ w \in Writers /\ stage[w] = "insert" /\ c \in Candidate /\ Stands(w)
        /\ win[w] \in DOMAIN windows /\ nth[w] \in DOMAIN windows[win[w]]
        /\ windows' = windows /\ crew' = crew
    BY CurrentAt DEF Typed, GivenOK, Insert, given
  <1>2. CASE k \in DOMAIN alerts /\ At(w, win[w], nth[w] + 1) /\ UNCHANGED alerts
    <2>1. nth[w] + 1 \in Nat \ {0}
      BY <1>1 DEF Typed, Hands
    <2>2. Tables'
      BY <1>1, <1>2 DEF Typed, Tables, Insert
    <2>3. QED
      BY <1>1, <1>2, <2>1, <2>2, AtParts, SameRows, TypedFrame DEF OneWriter
  <1>3. ASSUME k \notin DOMAIN alerts,
               alerts' = [j \in DOMAIN alerts \cup {k} |-> IF j = k THEN b ELSE alerts[j]],
               key' = [key EXCEPT ![w] = k], Goto(w, "get"), UNCHANGED <<win, nth, copy, seen>>
        PROVE  OneWriter(w)
    <2>1. Current(w)' = c
      BY <1>1, <1>3 DEF Current
    <2>2. seen[w] \in Nat
      BY <1>1 DEF Typed, Hands
    <2>3. b \in Row /\ Holds(b, c) /\ b.incident = 0
      BY <1>1, <2>2, NewRowParts DEF NewRow
    <2> HIDE DEF c, k, b
    <2>4. /\ DOMAIN alerts' = DOMAIN alerts \cup {k} /\ alerts'[k] = b
          /\ \A j \in DOMAIN alerts : alerts'[j] = alerts[j]
      BY <1>3
    <2>5. IsFiniteSet(DOMAIN alerts')
      BY <2>4, FS_AddElement DEF Typed, Tables
    <2>6. Tables'
      BY <1>1, <1>3, <2>3, <2>4, <2>5 DEF Typed, Tables, Insert
    <2>7. RowsWiden
      BY <2>4 DEF Typed, Tables, RowsWiden, Wider, Row
    <2>8. Hands' /\ OnlyMoves(w) /\ stage'[w] = "get" /\ key'[w] = k
      BY <1>1, <1>3 DEF Typed, Hands, Goto, OnlyMoves, Stages
    <2>9. Stands(w)'
      BY <1>1, <1>3, <2>1, <2>3, <2>4, <2>8 DEF Stands
    <2>10. QED
      BY <1>1, <2>6, <2>7, <2>8, <2>9, TypedFrame DEF OneWriter
  <1>4. QED
    BY <1>2, <1>3 DEF Insert

LEMMA GetTyped ==
  ASSUME Typed, UNCHANGED given, NEW w \in crew, Get(w)
  PROVE  OneWriter(w) /\ copy'[w] = alerts[key[w]] /\ stage'[w] = "correlate"
  <1>1. /\ w \in Writers /\ stage[w] = "get" /\ Stands(w) /\ windows' = windows /\ crew' = crew
    BY DEF Typed, GivenOK, Get, given
  <1>2. alerts[key[w]] \in Row
    BY <1>1 DEF Typed, Tables, Stands
  <1>3. /\ Hands' /\ OnlyMoves(w) /\ stage'[w] = "correlate" /\ copy'[w] = alerts[key[w]]
    BY <1>1 DEF Typed, Hands, Get, Goto, OnlyMoves, Stages
  <1>4. Tables' /\ alerts' = alerts
    BY <1>1 DEF Typed, Tables, Get, store
  <1>5. Current(w)' = Current(w)
    BY <1>1 DEF Current, Get
  <1>6. Stands(w)'
    BY <1>1, <1>2, <1>3, <1>4, <1>5 DEF Stands, Get
  <1>7. QED
    BY <1>1, <1>3, <1>4, <1>6, SameRows, TypedFrame DEF OneWriter

\* The alert a writer attaches to an incident keeps everything else.
LEMMA AttachParts ==
  ASSUME Typed, NEW w \in crew, stage[w] \in {"correlate", "open"}, NEW n \in Nat, Attach(w, n)
  PROVE  /\ alerts' \in [DOMAIN alerts' -> Row] /\ DOMAIN alerts' = DOMAIN alerts
         /\ key[w] \in DOMAIN alerts /\ alerts'[key[w]].incident = n
         /\ \A k \in DOMAIN alerts : k # key[w] => alerts'[k] = alerts[k]
         /\ \A k \in DOMAIN alerts :
              /\ alerts'[k].type = alerts[k].type /\ alerts'[k].entity = alerts[k].entity
              /\ alerts'[k].rank = alerts[k].rank /\ alerts'[k].count = alerts[k].count
              /\ alerts'[k].start = alerts[k].start /\ alerts'[k].end = alerts[k].end
         /\ RowsWiden
  <1>1. key[w] \in DOMAIN alerts /\ alerts \in [DOMAIN alerts -> Row]
    BY DEF Typed, GivenOK, Stands, Tables
  <1>2. alerts' \in [DOMAIN alerts -> Row]
    BY <1>1 DEF Attach, Row
  <1>3. DOMAIN alerts' = DOMAIN alerts
    BY <1>2
  <1>4. /\ alerts'[key[w]].incident = n
        /\ \A k \in DOMAIN alerts : k # key[w] => alerts'[k] = alerts[k]
    BY <1>1 DEF Attach, Row
  <1>5. \A k \in DOMAIN alerts :
          /\ alerts'[k].type = alerts[k].type /\ alerts'[k].entity = alerts[k].entity
          /\ alerts'[k].rank = alerts[k].rank /\ alerts'[k].count = alerts[k].count
          /\ alerts'[k].start = alerts[k].start /\ alerts'[k].end = alerts[k].end
    BY <1>1 DEF Attach, Row
  <1>6. RowsWiden
    BY <1>1, <1>3, <1>5 DEF RowsWiden, Wider, Row
  <1>7. QED
    BY <1>1, <1>2, <1>3, <1>4, <1>5, <1>6

LEMMA CorrelateTyped ==
  ASSUME Typed, UNCHANGED given, NEW w \in crew, Correlate(w)
  PROVE  OneWriter(w)
  <1>1. /\ w \in Writers /\ stage[w] = "correlate" /\ Stands(w) /\ windows' = windows /\ crew' = crew
        /\ win[w] \in DOMAIN windows /\ nth[w] \in Nat /\ nth[w] + 1 \in Nat \ {0}
    BY DEF Typed, GivenOK, Hands, Stands, Correlate, given
  <1>2. CASE Goto(w, "open") /\ seen' = [seen EXCEPT ![w] = Len(incidents)]
             /\ UNCHANGED <<alerts, incidents, win, nth, key, copy>>
    <2>1. Hands' /\ OnlyMoves(w) /\ stage'[w] = "open"
      BY <1>1, <1>2 DEF Typed, Hands, Tables, Goto, OnlyMoves, Stages
    <2>2. Tables'
      BY <1>1, <1>2 DEF Typed, Tables, Correlate
    <2>3. Current(w)' = Current(w)
      BY <1>1, <1>2 DEF Current
    <2>4. Stands(w)'
      BY <1>1, <1>2, <2>1, <2>3 DEF Stands
    <2>5. QED
      BY <1>1, <1>2, <2>1, <2>2, <2>4, SameRows, TypedFrame DEF OneWriter
  <1>3. ASSUME NEW n \in Oldest(incidents, Reached(copy[w])),
               incidents' = [incidents EXCEPT ![n] = Absorbed(n, copy[w])],
               Attach(w, n), At(w, win[w], nth[w] + 1)
        PROVE  OneWriter(w)
    <2>1. n \in DOMAIN incidents /\ incidents \in Seq(Incident) /\ copy[w] \in Row
      BY <1>1, <1>3 DEF Oldest, Reached, Typed, Tables, Stands
    <2>2. n \in Nat /\ n <= Len(incidents) /\ incidents[n] \in Incident
      BY <2>1
    <2>3. Cardinality(Members(n)) \in Nat
      BY FS_CardinalityType, FS_Subset DEF Typed, Tables, Members
    <2>4. Absorbed(n, copy[w]) \in Incident
      BY <2>1, <2>2, <2>3, AbsorbedParts
    <2>5. incidents' \in Seq(Incident) /\ Len(incidents') = Len(incidents)
      BY <1>3, <2>1, <2>4
    <2>6. /\ alerts' \in [DOMAIN alerts' -> Row] /\ DOMAIN alerts' = DOMAIN alerts /\ RowsWiden
          /\ \A k \in DOMAIN alerts : k # key[w] => alerts'[k] = alerts[k]
          /\ alerts'[key[w]].incident = n
      BY <1>1, <1>3, <2>2, AttachParts
    <2>7. Tables'
      BY <1>1, <2>2, <2>5, <2>6 DEF Typed, Tables, Correlate
    <2>8. QED
      BY <1>1, <1>3, <2>6, <2>7, AtParts, TypedFrame DEF OneWriter
  <1>4. QED
    BY <1>2, <1>3 DEF Correlate

LEMMA OpenTyped ==
  ASSUME Typed, UNCHANGED given, NEW w \in crew, OpenIncident(w)
  PROVE  OneWriter(w)
  <1> DEFINE i == [entity |-> copy[w].entity, rank |-> copy[w].rank, tally |-> 1,
                   first |-> copy[w].start, last |-> copy[w].end, born |-> seen[w]]
             n == Len(incidents) + 1
  <1>1. /\ w \in Writers /\ stage[w] = "open" /\ Stands(w) /\ windows' = windows /\ crew' = crew
        /\ win[w] \in DOMAIN windows /\ nth[w] \in Nat /\ nth[w] + 1 \in Nat \ {0}
        /\ copy[w] \in Row /\ seen[w] \in Nat
    BY DEF Typed, GivenOK, Hands, Stands, OpenIncident, given
  <1>2. i \in Incident
    BY <1>1 DEF Incident, Row
  <1>3. incidents' = Append(incidents, i) /\ incidents \in Seq(Incident)
    BY DEF OpenIncident, Typed, Tables
  <1> HIDE DEF i
  <1>4. incidents' \in Seq(Incident) /\ Len(incidents') = n /\ n \in Nat
    BY <1>2, <1>3
  <1>5. /\ alerts' \in [DOMAIN alerts' -> Row] /\ DOMAIN alerts' = DOMAIN alerts /\ RowsWiden
        /\ \A k \in DOMAIN alerts : k # key[w] => alerts'[k] = alerts[k]
        /\ alerts'[key[w]].incident = n
    BY <1>1, <1>4, AttachParts DEF OpenIncident
  <1>6. Tables'
    <2>1. ASSUME NEW k \in DOMAIN alerts
          PROVE  alerts'[k].incident <= n
      <3>1. CASE k = key[w]
        BY <1>4, <1>5, <3>1
      <3>2. CASE k # key[w]
        <4>1. alerts'[k].incident \in Nat /\ alerts'[k].incident <= Len(incidents)
          BY <1>5, <3>2 DEF Typed, Tables, Row
        <4>2. QED
          BY <1>3, <4>1
      <3>3. QED
        BY <3>1, <3>2
    <2> HIDE DEF n
    <2>2. QED
      BY <1>1, <1>4, <1>5, <2>1 DEF Typed, Tables, OpenIncident
  <1>7. QED
    BY <1>1, <1>5, <1>6, AtParts, TypedFrame DEF OneWriter, OpenIncident

LEMMA BeginTyped ==
  ASSUME Typed, UNCHANGED given, NEW w \in crew, Begin(w)
  PROVE  OneWriter(w)
  <1>1. w \in Writers /\ watermark \in DOMAIN windows /\ windows' = windows
    BY DEF Typed, GivenOK, Tables, Begin, given
  <1>2. Tables'
    BY <1>1 DEF Typed, Tables, Begin, store
  <1>3. QED
    BY <1>1, <1>2, AtParts, SameRows, TypedFrame DEF OneWriter, Begin, store

LEMMA SaveTyped ==
  ASSUME Typed, UNCHANGED given, NEW w \in crew, Save(w)
  PROVE  OneWriter(w)
  <1>1. /\ w \in Writers /\ win[w] \in DOMAIN windows /\ windows' = windows
        /\ win[w] \in 1 .. Len(windows)
    BY DEF Typed, GivenOK, Stands, Save, given
  <1>2. Tables' /\ alerts' = alerts
    BY <1>1 DEF Typed, Tables, GivenOK, Save
  <1>3. CASE win[w] < Len(windows) /\ At(w, win[w] + 1, 1)
    <2>1. win[w] + 1 \in DOMAIN windows
      BY <1>1, <1>3 DEF Typed, GivenOK
    <2>2. QED
      BY <1>1, <1>2, <1>3, <2>1, AtParts, SameRows, TypedFrame DEF OneWriter
  <1>4. CASE Done(w)
    BY <1>1, <1>2, <1>4, DoneParts, SameRows, TypedFrame DEF OneWriter
  <1>5. QED
    BY <1>3, <1>4 DEF Save

LEMMA FailTyped ==
  ASSUME Typed, UNCHANGED given, NEW w \in crew, Fail(w)
  PROVE  OneWriter(w)
  <1>1. w \in Writers /\ windows' = windows
    BY DEF Typed, GivenOK, given
  <1>2. Tables' /\ alerts' = alerts
    BY <1>1 DEF Typed, Tables, Fail, store
  <1>3. QED
    BY <1>1, <1>2, DoneParts, SameRows, TypedFrame DEF OneWriter, Fail

LEMMA TypedInit == Init => Typed
  <1> SUFFICES ASSUME Init PROVE Typed
    OBVIOUS
  <1>1. GivenOK
    BY ScenariosAssumption DEF Init, GivenOK
  <1>2. DOMAIN alerts = {} /\ IsFiniteSet(DOMAIN alerts)
    BY FS_EmptySet DEF Init
  <1>3. Tables
    BY <1>1, <1>2 DEF Init, Tables, GivenOK
  <1>4. Hands /\ \A w \in Writers : Stands(w)
    BY DEF Init, Hands, Stands, Stages
  <1>5. QED
    BY <1>1, <1>3, <1>4 DEF Typed

LEMMA SweepTyped ==
  ASSUME Typed, UNCHANGED given, NEW w \in crew, Sweep(w) \/ Fail(w)
  PROVE  OneWriter(w)
  BY BeginTyped, SelectTyped, InsertTyped, GetTyped, CorrelateTyped, OpenTyped, SaveTyped, FailTyped DEF Sweep

LEMMA TypedStep == Typed /\ [Next]_vars => Typed'
  <1> SUFFICES ASSUME Typed, [Next]_vars PROVE Typed'
    OBVIOUS
  <1>1. CASE Next
    BY <1>1, SweepTyped DEF Next, OneWriter
  <1>2. CASE UNCHANGED vars
    BY <1>2 DEF vars, given, Typed, GivenOK, Tables, Hands, Stands, Current
  <1>3. QED
    BY <1>1, <1>2

\* Writers stand at findings of windows and, past their upsert, at stored alerts.
THEOREM TypeCorrect == Spec => []TypeOK
  <1>1. Typed => TypeOK
    BY DEF Typed, Tables, Hands, Stands, TypeOK
  <1>2. QED
    BY <1>1, TypedInit, TypedStep, PTL DEF Spec

-----------------------------------------------------------------------------
(* Every finding that was swept is in an alert                               *)

LEMMA PriorNext ==
  ASSUME GivenOK, NEW n \in DOMAIN windows, NEW m \in Nat, Prior(n, m),
         m \in DOMAIN windows[n] => Held(windows[n][m])
  PROVE  Prior(n, m + 1)
  <1> SUFFICES ASSUME NEW i \in DOMAIN windows, NEW j \in DOMAIN windows[i], Before(i, j, n, m + 1)
               PROVE  Held(windows[i][j])
    BY DEF Prior
  <1>1. i \in Nat /\ j \in Nat /\ n \in Nat
    BY FindingAt DEF GivenOK
  <1>2. CASE Before(i, j, n, m)
    BY <1>2 DEF Prior
  <1>3. CASE i = n /\ j = m
    BY <1>3
  <1>4. QED
    BY <1>1, <1>2, <1>3 DEF Before

LEMMA PriorWindow ==
  ASSUME GivenOK, NEW n \in DOMAIN windows, NEW m \in Nat, Prior(n, m), m > Len(windows[n])
  PROVE  Prior(n + 1, 1)
  <1> SUFFICES ASSUME NEW i \in DOMAIN windows, NEW j \in DOMAIN windows[i], Before(i, j, n + 1, 1)
               PROVE  Held(windows[i][j])
    BY DEF Prior
  <1>1. i \in Nat /\ j \in 1 .. Len(windows[i]) /\ Len(windows[i]) \in Nat /\ n \in Nat
    BY FindingAt DEF GivenOK
  <1>2. Before(i, j, n, m)
    BY <1>1 DEF Before
  <1>3. QED
    BY <1>2 DEF Prior

LEMMA PriorStays ==
  ASSUME Typed, Typed', RowsWiden, UNCHANGED given, NEW n, NEW m, Prior(n, m)
  PROVE  Prior(n, m)'
  <1>1. windows' = windows
    BY DEF given
  <1> SUFFICES ASSUME NEW i \in DOMAIN windows, NEW j \in DOMAIN windows[i], Before(i, j, n, m)
               PROVE  \E k \in DOMAIN alerts' : Holds(alerts'[k], windows[i][j])
    BY <1>1 DEF Prior, Held
  <1>2. Held(windows[i][j]) /\ windows[i][j] \in Candidate
    BY FindingAt DEF Prior, Typed
  <1>3. \A c \in Candidate : Held(c) => Held(c)'
    BY HeldStays DEF Typed
  <1>4. QED
    BY <1>2, <1>3 DEF Held

WalkOK(w) ==
  /\ stage[w] # "idle" => Prior(win[w], nth[w])
  /\ stage[w] = "insert" => FirstOfKey(w)

NewlyKnown(k) ==
  \E n \in DOMAIN windows : \E m \in DOMAIN windows[n] :
    Key(windows[n][m]) = k /\ Prior(n, m) /\ Holds(alerts'[k], windows[n][m])

\* What a step of w has to show, in the state before it.
LEMMA StoredFrame ==
  ASSUME StoredInv, NEW w \in crew, OneWriter(w), UNCHANGED given,
         Prior(watermark', 1),
         stage'[w] # "idle" => Prior(win'[w], nth'[w]),
         stage'[w] = "insert" => FirstOfKey(w) /\ win'[w] = win[w] /\ nth'[w] = nth[w],
         \A k \in DOMAIN alerts' \ DOMAIN alerts : NewlyKnown(k)
  PROVE  StoredInv'
  <1>1. Typed /\ Typed' /\ RowsWiden /\ windows' = windows /\ w \in Writers
    BY DEF StoredInv, OneWriter, given, Typed, GivenOK
  <1>2. \A n, m : Prior(n, m) => Prior(n, m)'
    BY <1>1, PriorStays
  <1>3. Prior(watermark, 1)'
    BY <1>2 DEF Prior, Held
  <1>4. WalkOK(w)'
    <2>1. stage'[w] # "idle" => Prior(win[w], nth[w])'
      BY <1>2 DEF Prior, Held
    <2>2. stage'[w] = "insert" => FirstOfKey(w)'
      BY <1>1 DEF FirstOfKey, Current
    <2>3. QED
      BY <2>1, <2>2 DEF WalkOK
  <1>5. ASSUME NEW v \in Writers, v # w
        PROVE  WalkOK(v)'
    <2>1. stage'[v] = stage[v] /\ win'[v] = win[v] /\ nth'[v] = nth[v]
      BY <1>5 DEF OneWriter, OnlyMoves
    <2>2. stage[v] # "idle" => Prior(win[v], nth[v])
      BY DEF StoredInv
    <2>3. stage'[v] # "idle" => Prior(win[v], nth[v])'
      BY <1>2, <2>1, <2>2 DEF Prior, Held
    <2>4. stage'[v] = "insert" => FirstOfKey(v)'
      BY <1>1, <2>1 DEF StoredInv, FirstOfKey, Current
    <2>5. QED
      BY <2>3, <2>4 DEF WalkOK
  <1>6. ASSUME NEW k \in DOMAIN alerts'
        PROVE  KeyKnown(k)'
    <2>1. CASE k \in DOMAIN alerts
      <3>1. PICK n \in DOMAIN windows : \E m \in DOMAIN windows[n] : Key(windows[n][m]) = k /\ Prior(n, m + 1)
        BY <2>1 DEF StoredInv, KeyKnown
      <3>2. PICK m \in DOMAIN windows[n] : Key(windows[n][m]) = k /\ Prior(n, m + 1)
        BY <3>1
      <3>3. Prior(n, m + 1)'
        BY <1>2, <3>2
      <3>4. QED
        BY <1>1, <3>2, <3>3 DEF KeyKnown
    <2>2. CASE k \notin DOMAIN alerts
      <3>1. PICK n \in DOMAIN windows :
               \E m \in DOMAIN windows[n] : Key(windows[n][m]) = k /\ Prior(n, m) /\ Holds(alerts'[k], windows[n][m])
        BY <1>6, <2>2 DEF NewlyKnown
      <3>2. PICK m \in DOMAIN windows[n] :
               Key(windows[n][m]) = k /\ Prior(n, m) /\ Holds(alerts'[k], windows[n][m])
        BY <3>1
      <3>3. Prior(n, m)' /\ GivenOK /\ m \in Nat
        BY <1>1, <1>2, <3>2, FindingAt DEF Typed
      <3>4. \E h \in DOMAIN alerts' : Holds(alerts'[h], windows[n][m])
        BY <1>6, <3>2
      <3>5. Prior(n, m + 1)'
        <4> SUFFICES ASSUME NEW i \in DOMAIN windows, NEW j \in DOMAIN windows[i], Before(i, j, n, m + 1)
                     PROVE  \E h \in DOMAIN alerts' : Holds(alerts'[h], windows[i][j])
          BY <1>1 DEF Prior, Held
        <4>1. i \in Nat /\ j \in Nat /\ n \in Nat
          BY <3>3, FindingAt
        <4>2. Before(i, j, n, m) \/ (i = n /\ j = m)
          BY <3>3, <4>1 DEF Before
        <4>3. QED
          BY <1>1, <3>3, <3>4, <4>2 DEF Prior, Held
      <3>6. QED
        BY <1>1, <3>2, <3>5 DEF KeyKnown
    <2>3. QED
      BY <2>1, <2>2
  <1>7. QED
    BY <1>1, <1>3, <1>4, <1>5, <1>6 DEF StoredInv, WalkOK

LEMMA WalkerAt ==
  ASSUME StoredInv, NEW w \in crew, stage[w] # "idle"
  PROVE  /\ w \in Writers /\ win[w] \in DOMAIN windows /\ nth[w] \in Nat \ {0} /\ Prior(win[w], nth[w])
         /\ GivenOK
  BY DEF StoredInv, Typed, GivenOK, Hands, Stands

LEMMA SelectStored ==
  ASSUME StoredInv, UNCHANGED given, NEW w \in crew, Select(w)
  PROVE  StoredInv'
  <1>1. OneWriter(w)
    BY SelectTyped DEF StoredInv
  <1>2. /\ w \in Writers /\ win[w] \in DOMAIN windows /\ Prior(win[w], nth[w])
        /\ Current(w) \in Candidate /\ stage[w] = "select" /\ Typed
    BY WalkerAt, CurrentAt DEF Select, StoredInv
  <1>3. win' = win /\ nth' = nth /\ watermark' = watermark
    BY DEF Select
  <1>4. ASSUME Matches(Current(w)) = {}
        PROVE  FirstOfKey(w)
    <2> SUFFICES ASSUME NEW i \in DOMAIN windows, NEW j \in DOMAIN windows[i], Before(i, j, win[w], nth[w]),
                        Key(windows[i][j]) = Key(Current(w))
                 PROVE  FALSE
      BY DEF FirstOfKey
    <2> DEFINE e == windows[i][j]
               c == Current(w)
    <2>1. e \in Candidate /\ e.start <= e.end /\ Held(e)
      BY <1>2, FindingAt DEF Prior, Typed
    <2>2. PICK k \in DOMAIN alerts : Holds(alerts[k], e)
      BY <2>1 DEF Held
    <2>3. e.type = c.type /\ e.entity = c.entity /\ e.start = c.start
      BY DEF Key
    <2>4. c.start <= c.end
      BY <1>2, CurrentAt
    <2>5. alerts[k] \in Row
      BY <1>2 DEF Typed, Tables
    <2> HIDE DEF e, c
    <2>6. Overlaps(alerts[k], c)
      BY <1>2, <2>1, <2>2, <2>3, <2>4, <2>5, GapAssumption DEF Overlaps, Holds, Row, Candidate, c
    <2>7. alerts[k].type = c.type /\ alerts[k].entity = c.entity
      BY <2>2, <2>3 DEF Holds
    <2>8. QED
      BY <1>4, <2>6, <2>7 DEF Matches, c
  <1>5. stage'[w] = "insert" => Matches(Current(w)) = {}
    BY <1>2 DEF Select, Goto, Typed, Hands
  <1>6. DOMAIN alerts' = DOMAIN alerts
    BY <1>2 DEF Select, Typed, Tables
  <1>7. Prior(watermark', 1) /\ Prior(win'[w], nth'[w])
    BY <1>2, <1>3 DEF StoredInv
  <1>8. QED
    BY <1>1, <1>3, <1>4, <1>5, <1>6, <1>7, StoredFrame

LEMMA InsertStored ==
  ASSUME StoredInv, UNCHANGED given, NEW w \in crew, Insert(w)
  PROVE  StoredInv'
  <1> DEFINE n == win[w]
             m == nth[w]
             c == Current(w)
             k == Key(c)
  <1>1. OneWriter(w)
    BY InsertTyped DEF StoredInv
  <1>2. /\ w \in Writers /\ n \in DOMAIN windows /\ m \in DOMAIN windows[n] /\ m \in Nat \ {0} /\ Prior(n, m)
        /\ c \in Candidate /\ stage[w] = "insert" /\ Typed /\ GivenOK /\ FirstOfKey(w) /\ windows' = windows
    BY WalkerAt, CurrentAt DEF Insert, StoredInv, given
  <1>3. watermark' = watermark
    BY DEF Insert
  <1>4. CASE k \notin DOMAIN alerts
    <2>1. /\ alerts' = [j \in DOMAIN alerts \cup {k} |-> IF j = k THEN NewRow(c, seen[w]) ELSE alerts[j]]
          /\ key' = [key EXCEPT ![w] = k] /\ Goto(w, "get") /\ UNCHANGED <<win, nth, copy, seen>>
      BY <1>4 DEF Insert
    <2>2. stage'[w] = "get" /\ win'[w] = n /\ nth'[w] = m
      BY <1>2, <2>1 DEF Typed, Hands, Goto
    <2>3. Holds(alerts'[k], windows[n][m]) /\ k = Key(windows[n][m])
      <3>1. seen[w] \in Nat
        BY <1>2 DEF Typed, Hands
      <3>2. alerts'[k] = NewRow(c, seen[w]) /\ k \in DOMAIN alerts'
        BY <2>1
      <3>3. Holds(alerts'[k], c)
        BY <1>2, <3>1, <3>2, NewRowParts
      <3>4. QED
        BY <3>3 DEF Current
    <2>4. \A j \in DOMAIN alerts' \ DOMAIN alerts : j = k
      BY <2>1
    <2>5. Prior(watermark', 1) /\ Prior(win'[w], nth'[w])
      BY <1>2, <1>3, <2>2 DEF StoredInv
    <2>6. QED
      <3> HIDE DEF n, m, k, c
      <3>1. \A j \in DOMAIN alerts' \ DOMAIN alerts : NewlyKnown(j)
        BY <1>2, <2>3, <2>4 DEF NewlyKnown
      <3>2. QED
        BY <1>1, <2>2, <2>5, <3>1, StoredFrame
  <1>5. CASE k \in DOMAIN alerts
    <2>1. At(w, n, m + 1) /\ alerts' = alerts
      BY <1>5 DEF Insert
    <2>2a. PICK i \in DOMAIN windows : \E j \in DOMAIN windows[i] : Key(windows[i][j]) = k /\ Prior(i, j + 1)
      BY <1>5 DEF StoredInv, KeyKnown
    <2>2. PICK j \in DOMAIN windows[i] : Key(windows[i][j]) = k /\ Prior(i, j + 1)
      BY <2>2a
    <2>3. ~Before(i, j, n, m)
      BY <1>2, <2>2 DEF FirstOfKey
    <2>4. i \in Nat /\ j \in Nat /\ n \in Nat /\ m \in Nat
      BY <1>2, FindingAt
    <2>5. Before(n, m, i, j + 1)
      BY <2>3, <2>4 DEF Before
    <2>6. Held(windows[n][m])
      BY <1>2, <2>2, <2>5 DEF Prior
    <2>7. Prior(n, m + 1)
      BY <1>2, <2>6, PriorNext
    <2>8. stage'[w] # "insert" /\ win'[w] = n /\ nth'[w] = m + 1
      BY <1>2, <2>1, AtParts
    <2>9. Prior(watermark', 1) /\ Prior(win'[w], nth'[w])
      BY <1>3, <2>7, <2>8 DEF StoredInv
    <2>10. QED
      BY <1>1, <2>1, <2>8, <2>9, StoredFrame
  <1>6. QED
    BY <1>4, <1>5

\* A writer that is done with its finding has passed it.
LEMMA PassesFinding ==
  ASSUME StoredInv, UNCHANGED given, NEW w \in crew, stage[w] \in {"correlate", "open"},
         At(w, win[w], nth[w] + 1)
  PROVE  Prior(win'[w], nth'[w]) /\ stage'[w] # "insert"
  <1>1. /\ win[w] \in DOMAIN windows /\ nth[w] \in Nat \ {0} /\ Prior(win[w], nth[w]) /\ GivenOK
        /\ key[w] \in DOMAIN alerts /\ Holds(alerts[key[w]], Current(w)) /\ Typed
    BY WalkerAt DEF StoredInv, Typed, Stands
  <1>2. Held(windows[win[w]][nth[w]])
    BY <1>1 DEF Held, Current
  <1>3. Prior(win[w], nth[w] + 1)
    BY <1>1, <1>2, PriorNext
  <1>4. win'[w] = win[w] /\ nth'[w] = nth[w] + 1 /\ stage'[w] # "insert"
    BY <1>1, AtParts
  <1>5. QED
    BY <1>3, <1>4

LEMMA OtherStored ==
  ASSUME StoredInv, UNCHANGED given, NEW w \in crew, Get(w) \/ Correlate(w) \/ OpenIncident(w)
  PROVE  StoredInv'
  <1>1. OneWriter(w) /\ stage[w] # "idle" /\ w \in Writers /\ Typed
    BY GetTyped, CorrelateTyped, OpenTyped DEF StoredInv, Get, Correlate, OpenIncident, Typed, GivenOK
  <1>2. Prior(watermark', 1)
    BY DEF StoredInv, Get, Correlate, OpenIncident, store
  <1>3. DOMAIN alerts' = DOMAIN alerts
    BY DEF Get, Correlate, OpenIncident, store, Attach
  <1>4. CASE win' = win /\ nth' = nth /\ (Goto(w, "correlate") \/ Goto(w, "open"))
    <2>1. Prior(win'[w], nth'[w])
      BY <1>1, <1>4, WalkerAt
    <2>2. stage'[w] # "insert"
      BY <1>1, <1>4 DEF Goto, Typed, Hands
    <2>3. QED
      BY <1>1, <1>2, <1>3, <2>1, <2>2, StoredFrame
  <1>5. CASE stage[w] \in {"correlate", "open"} /\ At(w, win[w], nth[w] + 1)
    BY <1>1, <1>2, <1>3, <1>5, PassesFinding, StoredFrame
  <1>6. QED
    BY <1>4, <1>5 DEF Get, Correlate, OpenIncident

LEMMA WindowStored ==
  ASSUME StoredInv, UNCHANGED given, NEW w \in crew, Begin(w) \/ Save(w) \/ Fail(w)
  PROVE  StoredInv'
  <1>1. OneWriter(w) /\ w \in Writers /\ Typed /\ GivenOK
    BY BeginTyped, SaveTyped, FailTyped DEF StoredInv, Typed, GivenOK
  <1>2. alerts' = alerts
    BY DEF Begin, Save, Fail, store
  <1>3. ASSUME NEW n \in DOMAIN windows, At(w, n, 1), Prior(n, 1), Prior(watermark', 1)
        PROVE  StoredInv'
    <2>1. stage'[w] # "insert" /\ win'[w] = n /\ nth'[w] = 1
      BY <1>1, <1>3, AtParts
    <2>2. Prior(win'[w], nth'[w])
      BY <1>3, <2>1
    <2>3. QED
      BY <1>1, <1>2, <1>3, <2>1, <2>2, StoredFrame
  <1>4. ASSUME Done(w), Prior(watermark', 1)
        PROVE  StoredInv'
    <2>1. stage'[w] = "idle"
      BY <1>1, <1>4, DoneParts
    <2>2. QED
      BY <1>1, <1>2, <1>4, <2>1, StoredFrame
  <1>5. CASE Begin(w)
    <2>1. watermark \in DOMAIN windows /\ watermark' = watermark /\ At(w, watermark, 1) /\ Prior(watermark, 1)
      BY <1>1, <1>5 DEF Begin, store, StoredInv, Typed, Tables, GivenOK
    <2>2. Prior(watermark', 1)
      BY <2>1
    <2>3. QED
      BY <1>3, <2>1, <2>2
  <1>6. CASE Save(w)
    <2>1. /\ win[w] \in DOMAIN windows /\ nth[w] \in Nat /\ Prior(win[w], nth[w])
          /\ nth[w] > Len(windows[win[w]])
      BY <1>1, <1>6, WalkerAt DEF Save, Typed, Stands
    <2>2. Prior(win[w] + 1, 1) /\ watermark' = win[w] + 1
      BY <1>1, <1>6, <2>1, PriorWindow DEF Save
    <2>3. Prior(watermark', 1)
      BY <2>2
    <2>4. CASE win[w] < Len(windows) /\ At(w, win[w] + 1, 1)
      <3>1. win[w] + 1 \in DOMAIN windows
        BY <1>1, <2>1, <2>4 DEF GivenOK
      <3>2. QED
        BY <1>3, <2>2, <2>3, <2>4, <3>1
    <2>5. QED
      BY <1>4, <1>6, <2>3, <2>4 DEF Save
  <1>7. CASE Fail(w)
    BY <1>4, <1>7 DEF Fail, store, StoredInv
  <1>8. QED
    BY <1>5, <1>6, <1>7

LEMMA StoredInit == Init => StoredInv
  <1> SUFFICES ASSUME Init PROVE StoredInv
    OBVIOUS
  <1>1. Typed /\ DOMAIN alerts = {} /\ watermark = 1 /\ \A w \in Writers : stage[w] = "idle"
    BY TypedInit DEF Init
  <1>2. Prior(watermark, 1)
    BY <1>1, FindingAt DEF Typed, Prior, Before
  <1>3. QED
    BY <1>1, <1>2 DEF StoredInv

LEMMA StoredStep == StoredInv /\ [Next]_vars => StoredInv'
  <1> SUFFICES ASSUME StoredInv, [Next]_vars PROVE StoredInv'
    OBVIOUS
  <1>1. CASE Next
    BY <1>1, SelectStored, InsertStored, OtherStored, WindowStored DEF Next, Sweep
  <1>2. CASE UNCHANGED vars
    <2>1. Typed'
      BY <1>2, TypedStep DEF StoredInv
    <2>2. QED
      BY <1>2, <2>1 DEF vars, given, StoredInv, Prior, Held, FirstOfKey, KeyKnown, Current
  <1>3. QED
    BY <1>1, <1>2

\* However many writers sweep the same windows, and wherever they fail, no
\* finding is lost between a window and the alerts.
THEOREM NoFindingLost == Spec => []SweptIsStored
  <1>1. ASSUME StoredInv
        PROVE  SweptIsStored
    <2> SUFFICES ASSUME NEW n \in 1 .. watermark - 1, NEW m \in DOMAIN windows[n]
                 PROVE  Held(windows[n][m])
      BY DEF SweptIsStored, Swept, Held
    <2>1. n \in DOMAIN windows /\ watermark \in Nat /\ n < watermark
      BY <1>1 DEF StoredInv, Typed, Tables, GivenOK
    <2>2. QED
      BY <1>1, <2>1 DEF StoredInv, Prior, Before
  <1>2. QED
    BY <1>1, StoredInit, StoredStep, PTL DEF Spec

-----------------------------------------------------------------------------
(* No incident understates its alerts                                        *)

LEMMA MembersFinite ==
  ASSUME Typed, NEW n
  PROVE  IsFiniteSet(Members(n)) /\ Cardinality(Members(n)) \in Nat
  BY FS_Subset, FS_CardinalityType DEF Typed, Tables, Members

\* No alert changes its incident.
LEMMA CoverFrame ==
  ASSUME CoverInv, NEW w \in crew, OneWriter(w), incidents' = incidents,
         \A k \in DOMAIN alerts' :
           alerts'[k].incident = IF k \in DOMAIN alerts THEN alerts[k].incident ELSE 0
  PROVE  CoverInv'
  <1>1. Typed /\ Typed' /\ RowsWiden
    BY DEF CoverInv, OneWriter
  <1>2. ASSUME NEW n \in DOMAIN incidents
        PROVE  /\ \A k \in Members(n)' : k \in Members(n) /\ alerts'[k].rank = alerts[k].rank
               /\ Members(n)' = Members(n)
    <2>1. n # 0
      BY <1>1 DEF Typed, Tables
    <2>2. \A k \in Members(n)' : k \in Members(n) /\ alerts'[k].rank = alerts[k].rank
      BY <1>1, <2>1 DEF Members, RowsWiden, Wider
    <2>3. ASSUME NEW k \in Members(n)
          PROVE  k \in Members(n)'
      <3>1. k \in DOMAIN alerts /\ k \in DOMAIN alerts' /\ alerts[k].incident = n
        BY <1>1 DEF Members, RowsWiden
      <3>2. QED
        BY <3>1 DEF Members
    <2>4. QED
      BY <2>2, <2>3
  <1>3. QED
    BY <1>1, <1>2 DEF CoverInv, IncidentCoversMembers

LEMMA IncidentAt == ASSUME Typed, NEW n \in DOMAIN incidents PROVE incidents[n] \in Incident
  BY DEF Typed, Tables

\* The step that attaches an alert to incident n, which covers it.
LEMMA AttachCovers ==
  ASSUME CoverInv, NEW w \in crew, OneWriter(w), stage[w] \in {"correlate", "open"},
         NEW n \in DOMAIN incidents', Attach(w, n),
         incidents'[n].rank >= copy[w].rank,
         incidents'[n].tally = Cardinality(Members(n)) + 1,
         n \in DOMAIN incidents => incidents'[n].rank >= incidents[n].rank,
         \A j \in DOMAIN incidents' : j # n => j \in DOMAIN incidents /\ incidents'[j] = incidents[j],
         n \notin DOMAIN incidents => Members(n) = {}
  PROVE  CoverInv'
  <1> DEFINE h == key[w]
  <1>1. Typed /\ Typed' /\ n \in Nat
    BY DEF CoverInv, OneWriter, Typed, Tables
  <1>2. /\ h \in DOMAIN alerts /\ DOMAIN alerts' = DOMAIN alerts /\ alerts'[h].incident = n
        /\ \A k \in DOMAIN alerts : k # h => alerts'[k] = alerts[k]
        /\ \A k \in DOMAIN alerts : alerts'[k].rank = alerts[k].rank
    BY <1>1, AttachParts
  <1>3. copy[w].rank = alerts[h].rank
    BY <1>1 DEF Typed, Stands, GivenOK
  <1> HIDE DEF h
  <1>4. ASSUME NEW j \in DOMAIN incidents', j # n
        PROVE  /\ \A k \in Members(j)' : incidents'[j].rank >= alerts'[k].rank
               /\ incidents'[j].tally >= Cardinality(Members(j)')
    <2>1. Members(j)' \subseteq Members(j)
      BY <1>2, <1>4 DEF Members
    <2>2. Cardinality(Members(j)') <= Cardinality(Members(j)) /\ Cardinality(Members(j)') \in Nat
      BY <1>1, <2>1, MembersFinite, FS_Subset, FS_CardinalityType
    <2>3. j \in DOMAIN incidents /\ incidents'[j] = incidents[j] /\ incidents[j].tally \in Nat
      BY <1>1, <1>4, IncidentAt DEF Incident
    <2>4. \A k \in Members(j) : incidents[j].rank >= alerts[k].rank /\ k \in DOMAIN alerts
      BY <2>3 DEF CoverInv, IncidentCoversMembers, Members
    <2>5. incidents[j].tally >= Cardinality(Members(j)) /\ Cardinality(Members(j)) \in Nat
      BY <1>1, <2>3, MembersFinite DEF CoverInv, IncidentCoversMembers
    <2>6. QED
      BY <1>2, <2>1, <2>2, <2>3, <2>4, <2>5
  <1>5. /\ \A k \in Members(n)' : incidents'[n].rank >= alerts'[k].rank
        /\ incidents'[n].tally >= Cardinality(Members(n)')
    <2>1. Members(n)' \subseteq Members(n) \cup {h}
      BY <1>2 DEF Members
    <2>2. /\ IsFiniteSet(Members(n)) /\ Cardinality(Members(n)) \in Nat
      BY <1>1, MembersFinite
    <2>3. /\ IsFiniteSet(Members(n) \cup {h})
          /\ Cardinality(Members(n) \cup {h}) \in Nat
          /\ Cardinality(Members(n) \cup {h}) <= Cardinality(Members(n)) + 1
      <3> DEFINE M == Members(n)
      <3>1. IsFiniteSet(M) /\ Cardinality(M) \in Nat
        BY <2>2
      <3> HIDE DEF M
      <3>2. /\ IsFiniteSet(M \cup {h})
            /\ Cardinality(M \cup {h}) = IF h \in M THEN Cardinality(M) ELSE Cardinality(M) + 1
        BY <3>1, FS_AddElement
      <3>3. QED
        BY <3>1, <3>2 DEF M
    <2>4. Cardinality(Members(n)') <= Cardinality(Members(n) \cup {h}) /\ Cardinality(Members(n)') \in Nat
      BY <2>1, <2>3, FS_Subset, FS_CardinalityType
    <2>5. ASSUME NEW k \in Members(n)'
          PROVE  incidents'[n].rank >= alerts'[k].rank
      <3>1. CASE k = h
        BY <1>2, <1>3, <3>1
      <3>2. CASE k # h
        <4>1. k \in Members(n) /\ n \in DOMAIN incidents /\ k \in DOMAIN alerts
          BY <2>1, <2>5, <3>2 DEF Members
        <4>2. incidents[n].rank >= alerts[k].rank
          BY <4>1 DEF CoverInv, IncidentCoversMembers
        <4>3. incidents[n] \in Incident /\ alerts[k] \in Row /\ incidents'[n] \in Incident
          BY <1>1, <4>1, IncidentAt DEF Typed, Tables
        <4>4. QED
          BY <1>2, <4>1, <4>2, <4>3 DEF Incident, Row
      <3>3. QED
        BY <3>1, <3>2
    <2>6. QED
      BY <2>2, <2>3, <2>4, <2>5
  <1>6. IncidentCoversMembers'
    BY <1>4, <1>5 DEF IncidentCoversMembers
  <1>7. QED
    BY <1>1, <1>6 DEF CoverInv

LEMMA CorrelateCovers ==
  ASSUME CoverInv, UNCHANGED given, NEW w \in crew, Correlate(w)
  PROVE  CoverInv'
  <1>1. OneWriter(w) /\ Typed /\ stage[w] = "correlate" /\ copy[w] \in Row
    BY CorrelateTyped DEF CoverInv, Typed, Stands, GivenOK, Correlate
  <1>2. CASE UNCHANGED <<alerts, incidents>>
    BY <1>1, <1>2, CoverFrame
  <1>3. ASSUME NEW n \in Oldest(incidents, Reached(copy[w])),
               incidents' = [incidents EXCEPT ![n] = Absorbed(n, copy[w])], Attach(w, n)
        PROVE  CoverInv'
    <2>1. n \in DOMAIN incidents /\ incidents \in Seq(Incident)
      BY <1>1, <1>3 DEF Oldest, Reached, Typed, Tables
    <2>2. incidents[n] \in Incident /\ DOMAIN incidents' = DOMAIN incidents
      BY <1>3, <2>1
    <2>3. Cardinality(Members(n)) \in Nat
      BY <1>1, MembersFinite
    <2> DEFINE i == Absorbed(n, copy[w])
    <2>4. i.tally = Cardinality(Members(n)) + 1 /\ i.rank >= incidents[n].rank /\ i.rank >= copy[w].rank
      BY <1>1, <2>2, <2>3, AbsorbedParts
    <2> HIDE DEF i
    <2>5. incidents'[n] = i /\ \A j \in DOMAIN incidents : j # n => incidents'[j] = incidents[j]
      BY <1>3, <2>1 DEF i
    <2>6. QED
      BY <1>1, <1>3, <2>1, <2>2, <2>4, <2>5, AttachCovers
  <1>4. QED
    BY <1>2, <1>3 DEF Correlate

LEMMA OpenCovers ==
  ASSUME CoverInv, UNCHANGED given, NEW w \in crew, OpenIncident(w)
  PROVE  CoverInv'
  <1> DEFINE i == [entity |-> copy[w].entity, rank |-> copy[w].rank, tally |-> 1,
                   first |-> copy[w].start, last |-> copy[w].end, born |-> seen[w]]
             n == Len(incidents) + 1
  <1>1. OneWriter(w) /\ Typed /\ Typed' /\ stage[w] = "open" /\ copy[w] \in Row /\ incidents \in Seq(Incident)
    BY OpenTyped DEF CoverInv, Typed, Stands, GivenOK, OpenIncident, OneWriter, Tables
  <1>2. incidents' = Append(incidents, i) /\ Attach(w, n)
    BY DEF OpenIncident
  <1>3. i.rank = copy[w].rank /\ i.tally = 1 /\ copy[w].rank \in Nat
    BY <1>1 DEF Row
  <1> HIDE DEF i
  <1>4. /\ n \in DOMAIN incidents' /\ n \notin DOMAIN incidents /\ incidents'[n] = i
        /\ \A j \in DOMAIN incidents' : j # n => j \in DOMAIN incidents /\ incidents'[j] = incidents[j]
    BY <1>1, <1>2
  <1>5. Members(n) = {}
    <2>1. \A k \in DOMAIN alerts : alerts[k].incident \in Nat /\ alerts[k].incident <= Len(incidents)
      BY <1>1 DEF Typed, Tables, Row
    <2>2. QED
      BY <1>1, <2>1 DEF Members
  <1>6. Cardinality(Members(n)) + 1 = 1
    BY <1>5, FS_EmptySet
  <1> HIDE DEF n
  <1>7. incidents'[n].rank >= copy[w].rank /\ incidents'[n].tally = Cardinality(Members(n)) + 1
    BY <1>3, <1>4, <1>6
  <1>8. QED
    BY <1>1, <1>2, <1>4, <1>5, <1>7, AttachCovers

LEMMA OtherCovers ==
  ASSUME CoverInv, UNCHANGED given, NEW w \in crew,
         Begin(w) \/ Select(w) \/ Insert(w) \/ Get(w) \/ Save(w) \/ Fail(w)
  PROVE  CoverInv'
  <1>1. OneWriter(w) /\ Typed /\ w \in Writers
    BY BeginTyped, SelectTyped, InsertTyped, GetTyped, SaveTyped, FailTyped DEF CoverInv, Typed, GivenOK
  <1>2. incidents' = incidents
    BY DEF Begin, Select, Insert, Get, Save, Fail, store
  <1>3. CASE alerts' = alerts
    BY <1>1, <1>2, <1>3, CoverFrame
  <1>4. ASSUME Select(w), NEW k \in Oldest(alerts, Matches(Current(w))),
               alerts' = [alerts EXCEPT ![k] = Merged(alerts[k], Current(w))]
        PROVE  CoverInv'
    <2>1. k \in DOMAIN alerts /\ alerts[k] \in Row /\ Current(w) \in Candidate
      BY <1>1, <1>4, CurrentAt DEF Oldest, Matches, Typed, Tables, Select
    <2>2. Merged(alerts[k], Current(w)).incident = alerts[k].incident
      BY <2>1, MergedParts
    <2>3. \A j \in DOMAIN alerts' : j \in DOMAIN alerts /\ alerts'[j].incident = alerts[j].incident
      BY <1>1, <1>4, <2>1, <2>2 DEF Typed, Tables
    <2>4. QED
      BY <1>1, <1>2, <2>3, CoverFrame
  <1>5. ASSUME Insert(w), Key(Current(w)) \notin DOMAIN alerts
        PROVE  CoverInv'
    <2>1. NewRow(Current(w), seen[w]).incident = 0
      BY DEF NewRow
    <2>2. QED
      BY <1>1, <1>2, <1>5, <2>1, CoverFrame DEF Insert
  <1>6. QED
    BY <1>3, <1>4, <1>5 DEF Begin, Select, Insert, Get, Save, Fail, store

LEMMA CoverInit == Init => CoverInv
  BY TypedInit DEF Init, CoverInv, IncidentCoversMembers

LEMMA CoverStep == CoverInv /\ [Next]_vars => CoverInv'
  <1> SUFFICES ASSUME CoverInv, [Next]_vars PROVE CoverInv'
    OBVIOUS
  <1>1. CASE Next
    BY <1>1, CorrelateCovers, OpenCovers, OtherCovers DEF Next, Sweep
  <1>2. CASE UNCHANGED vars
    BY <1>2, TypedStep DEF vars, CoverInv, IncidentCoversMembers, Members
  <1>3. QED
    BY <1>1, <1>2

\* The severity and the count of an incident are at least those of its alerts,
\* although writers read an alert, and attach it, in transactions of their own.
THEOREM NeverUnderstated == Spec => []IncidentCoversMembers
  <1>1. CoverInv => IncidentCoversMembers
    BY DEF CoverInv
  <1>2. QED
    BY <1>1, CoverInit, CoverStep, PTL DEF Spec

-----------------------------------------------------------------------------
(* No finding counts twice                                                   *)

Evidence(a) == {c \in Findings : Holds(a, c)}

LEMMA FindingsFinite == ASSUME GivenOK PROVE IsFiniteSet(Findings) /\ Findings \subseteq Candidate
  <1> DEFINE InWindow(n) == {windows[n][m] : m \in DOMAIN windows[n]}
             All == {InWindow(n) : n \in DOMAIN windows}
  <1>1. ASSUME NEW n \in DOMAIN windows
        PROVE  IsFiniteSet(InWindow(n))
    <2> DEFINE S == DOMAIN windows[n]
               T == InWindow(n)
               f == [m \in S |-> windows[n][m]]
    <2>1. windows[n] \in Seq(Candidate)
      BY DEF GivenOK
    <2>2. S = 1 .. Len(windows[n]) /\ Len(windows[n]) \in Nat
      BY <2>1
    <2>3. IsFiniteSet(S)
      BY <2>2, FS_Interval
    <2>4. f \in Surjection(S, T)
      BY DEF Surjection
    <2> HIDE DEF S, T, f
    <2>5. IsFiniteSet(T)
      BY <2>3, <2>4, FS_Surjection
    <2>6. QED
      BY <2>5 DEF T
  <1> HIDE DEF InWindow
  <1>2. IsFiniteSet(All)
    <2> DEFINE S == DOMAIN windows
               f == [n \in S |-> InWindow(n)]
    <2>1. S = 1 .. Len(windows) /\ Len(windows) \in Nat
      BY DEF GivenOK
    <2>2. IsFiniteSet(S)
      BY <2>1, FS_Interval
    <2>3. f \in Surjection(S, All)
      BY DEF Surjection
    <2> HIDE DEF S, f, All
    <2>4. QED
      BY <2>2, <2>3, FS_Surjection
  <1>3. \A T \in All : IsFiniteSet(T)
    BY <1>1
  <1>4. IsFiniteSet(UNION All)
    <2> HIDE DEF All
    <2>1. QED
      BY <1>2, <1>3, FS_UNION
  <1>5. Findings = UNION All
    BY DEF Findings, InWindow
  <1>6. Findings \subseteq Candidate
    BY FindingAt DEF Findings
  <1>7. QED
    BY <1>4, <1>5, <1>6

LEMMA EvidenceFinite ==
  ASSUME GivenOK, NEW a
  PROVE  IsFiniteSet(Evidence(a)) /\ Cardinality(Evidence(a)) \in Nat
  <1>1. Evidence(a) \in SUBSET Findings
    BY DEF Evidence
  <1>2. QED
    BY <1>1, FindingsFinite, FS_Subset, FS_CardinalityType

\* A row that widens keeps its evidence, and gains the finding it did not hold.
LEMMA EvidenceGrows ==
  ASSUME GivenOK, NEW a \in Row, NEW b \in Row, Wider(a, b)
  PROVE  /\ Cardinality(Evidence(a)) <= Cardinality(Evidence(b))
         /\ \A c \in Findings : ~Holds(a, c) /\ Holds(b, c) =>
              Cardinality(Evidence(a)) + 1 <= Cardinality(Evidence(b))
  <1>1. Evidence(a) \in SUBSET Evidence(b)
    BY Widening, FindingsFinite DEF Evidence
  <1>2. /\ IsFiniteSet(Evidence(a)) /\ Cardinality(Evidence(a)) \in Nat
        /\ IsFiniteSet(Evidence(b)) /\ Cardinality(Evidence(b)) \in Nat
    BY EvidenceFinite
  <1>3. ASSUME NEW c \in Findings, ~Holds(a, c), Holds(b, c)
        PROVE  Cardinality(Evidence(a)) + 1 <= Cardinality(Evidence(b))
    <2> DEFINE A == Evidence(a)
               B == Evidence(b)
    <2>1. c \notin A /\ A \cup {c} \in SUBSET B
      BY <1>1, <1>3 DEF Evidence
    <2> HIDE DEF A, B
    <2>2. Cardinality(A \cup {c}) = Cardinality(A) + 1
      BY <1>2, <2>1, FS_AddElement DEF A
    <2>3. Cardinality(A \cup {c}) <= Cardinality(B)
      BY <1>2, <2>1, FS_Subset DEF B
    <2>4. QED
      BY <2>2, <2>3 DEF A, B
  <1>4. QED
    BY <1>1, <1>2, <1>3, FS_Subset

\* A step that adds at most the one to a count that a new piece of evidence pays for.
LEMMA CountFrame ==
  ASSUME CountInv, NEW w \in crew, OneWriter(w), UNCHANGED given,
         \A k \in DOMAIN alerts' : alerts'[k].count <= Cardinality(Evidence(alerts'[k]))
  PROVE  CountInv'
  <1>1. windows' = windows
    BY DEF given
  <1>2. CountsNewActivity'
    BY <1>1 DEF CountsNewActivity, Findings, Evidence
  <1>3. QED
    BY <1>2 DEF OneWriter, CountInv

LEMMA CountKept ==
  ASSUME CountInv, NEW w \in crew, OneWriter(w), NEW k \in DOMAIN alerts,
         alerts'[k].count = alerts[k].count
  PROVE  alerts'[k].count <= Cardinality(Evidence(alerts'[k]))
  <1>1. /\ alerts[k] \in Row /\ alerts'[k] \in Row /\ Wider(alerts[k], alerts'[k]) /\ GivenOK
    BY DEF CountInv, OneWriter, RowsWiden, Typed, Tables
  <1>2. alerts[k].count <= Cardinality(Evidence(alerts[k]))
    BY DEF CountInv, CountsNewActivity, Evidence
  <1>3. Cardinality(Evidence(alerts[k])) <= Cardinality(Evidence(alerts'[k]))
    BY <1>1, EvidenceGrows
  <1>4. /\ Cardinality(Evidence(alerts[k])) \in Nat /\ Cardinality(Evidence(alerts'[k])) \in Nat
    BY <1>1, EvidenceFinite
  <1>5. alerts[k].count \in Nat
    BY <1>1 DEF Row
  <1>6. QED
    BY <1>2, <1>3, <1>4, <1>5

LEMMA CurrentFinding ==
  ASSUME Typed, NEW w \in Writers, stage[w] \in {"select", "insert"}
  PROVE  Current(w) \in Findings /\ Current(w) \in Candidate
  <1>1. win[w] \in DOMAIN windows /\ nth[w] \in DOMAIN windows[win[w]] /\ Current(w) \in Candidate
    BY CurrentAt
  <1>2. QED
    BY <1>1 DEF Findings, Current

LEMMA SelectCounts ==
  ASSUME CountInv, UNCHANGED given, NEW w \in crew, Select(w)
  PROVE  CountInv'
  <1> DEFINE c == Current(w)
  <1>1. /\ OneWriter(w) /\ Typed /\ GivenOK /\ w \in Writers
        /\ c \in Findings /\ c \in Candidate
    BY SelectTyped, CurrentFinding DEF CountInv, Typed, GivenOK, Select
  <1> HIDE DEF c
  <1>2. CASE alerts' = alerts
    BY <1>1, <1>2, CountKept, CountFrame
  <1>3. ASSUME NEW k \in Oldest(alerts, Matches(c)),
               alerts' = [alerts EXCEPT ![k] = Merged(alerts[k], c)]
        PROVE  CountInv'
    <2>1. /\ k \in DOMAIN alerts /\ alerts[k] \in Row
          /\ alerts[k].type = c.type /\ alerts[k].entity = c.entity
      BY <1>1, <1>3 DEF Oldest, Matches, Typed, Tables
    <2> DEFINE a == alerts[k]
               b == Merged(a, c)
    <2>2. /\ b \in Row /\ b.type = a.type /\ b.entity = a.entity
          /\ b.start = IF c.start < a.start THEN c.start ELSE a.start
          /\ b.end = IF c.end > a.end THEN c.end ELSE a.end
          /\ b.count = IF Grows(a, c) THEN a.count + 1 ELSE a.count
      BY <1>1, <2>1, MergedParts DEF Bump
    <2>3. /\ DOMAIN alerts' = DOMAIN alerts /\ alerts'[k] = b
          /\ \A j \in DOMAIN alerts : j # k => alerts'[j] = alerts[j]
      BY <1>1, <1>3, <2>1 DEF Typed, Tables
    <2>4. Wider(a, b)
      BY <1>1, <2>1, <2>3 DEF OneWriter, RowsWiden
    <2> HIDE DEF b
    <2>5. alerts'[k].count <= Cardinality(Evidence(alerts'[k]))
      <3>1. CASE Grows(a, c)
        <4>1. ~Holds(a, c) /\ Holds(b, c)
          BY <1>1, <2>1, <2>2, <3>1 DEF Grows, Holds, Row, Candidate
        <4>2. Cardinality(Evidence(a)) + 1 <= Cardinality(Evidence(b))
          BY <1>1, <2>1, <2>2, <2>4, <4>1, EvidenceGrows
        <4>3. a.count <= Cardinality(Evidence(a)) /\ a.count \in Nat
          BY <2>1 DEF CountInv, CountsNewActivity, Evidence, Row
        <4>4. Cardinality(Evidence(a)) \in Nat /\ Cardinality(Evidence(b)) \in Nat
          BY <1>1, EvidenceFinite
        <4>5. QED
          BY <2>2, <2>3, <3>1, <4>2, <4>3, <4>4
      <3>2. CASE ~Grows(a, c)
        BY <1>1, <2>1, <2>2, <2>3, <3>2, CountKept
      <3>3. QED
        BY <3>1, <3>2
    <2>6. \A j \in DOMAIN alerts : alerts'[j].count <= Cardinality(Evidence(alerts'[j]))
      BY <1>1, <2>3, <2>5, CountKept
    <2>7. QED
      BY <1>1, <2>3, <2>6, CountFrame
  <1>4. QED
    BY <1>2, <1>3 DEF Select, c

LEMMA InsertCounts ==
  ASSUME CountInv, UNCHANGED given, NEW w \in crew, Insert(w)
  PROVE  CountInv'
  <1> DEFINE c == Current(w)
             k == Key(c)
             b == NewRow(c, seen[w])
  <1>1. /\ OneWriter(w) /\ Typed /\ GivenOK /\ w \in Writers
        /\ c \in Findings /\ c \in Candidate /\ seen[w] \in Nat
    BY InsertTyped, CurrentFinding DEF CountInv, Typed, GivenOK, Hands, Insert
  <1>2. CASE alerts' = alerts
    BY <1>1, <1>2, CountKept, CountFrame
  <1>3. ASSUME k \notin DOMAIN alerts,
               alerts' = [j \in DOMAIN alerts \cup {k} |-> IF j = k THEN b ELSE alerts[j]]
        PROVE  CountInv'
    <2>1. b \in Row /\ Holds(b, c) /\ b.count = 1
      BY <1>1, NewRowParts DEF NewRow
    <2> HIDE DEF c, k, b
    <2>2. 1 <= Cardinality(Evidence(b))
      <3>1. {c} \in SUBSET Evidence(b)
        BY <1>1, <2>1 DEF Evidence
      <3>2. Cardinality({c}) = 1
        BY FS_Singleton
      <3>3. QED
        BY <1>1, <3>1, <3>2, EvidenceFinite, FS_Subset
    <2>3. ASSUME NEW j \in DOMAIN alerts'
          PROVE  alerts'[j].count <= Cardinality(Evidence(alerts'[j]))
      <3>1. CASE j = k
        BY <1>3, <2>1, <2>2, <3>1
      <3>2. CASE j # k
        <4>1. j \in DOMAIN alerts /\ alerts'[j] = alerts[j]
          BY <1>3, <2>3, <3>2
        <4>2. QED
          BY <1>1, <4>1, CountKept
      <3>3. QED
        BY <3>1, <3>2
    <2>4. QED
      BY <1>1, <2>3, CountFrame
  <1>4. QED
    BY <1>2, <1>3 DEF Insert

LEMMA OtherCounts ==
  ASSUME CountInv, UNCHANGED given, NEW w \in crew,
         Begin(w) \/ Get(w) \/ Correlate(w) \/ OpenIncident(w) \/ Save(w) \/ Fail(w)
  PROVE  CountInv'
  <1>1. OneWriter(w) /\ Typed
    BY BeginTyped, GetTyped, CorrelateTyped, OpenTyped, SaveTyped, FailTyped DEF CountInv
  <1>2. CASE alerts' = alerts
    BY <1>1, <1>2, CountKept, CountFrame
  <1>3. ASSUME NEW n \in Nat, Attach(w, n), stage[w] \in {"correlate", "open"}
        PROVE  CountInv'
    <2>1. DOMAIN alerts' = DOMAIN alerts /\ \A k \in DOMAIN alerts : alerts'[k].count = alerts[k].count
      BY <1>1, <1>3, AttachParts
    <2>2. QED
      BY <1>1, <2>1, CountKept, CountFrame
  <1>4. CASE Correlate(w)
    <2>1. \A n \in Oldest(incidents, Reached(copy[w])) : n \in Nat
      BY <1>1 DEF Oldest, Reached, Typed, Tables
    <2>2. QED
      BY <1>2, <1>3, <1>4, <2>1 DEF Correlate
  <1>5. CASE OpenIncident(w)
    <2>1. Len(incidents) + 1 \in Nat
      BY <1>1 DEF Typed, Tables
    <2>2. QED
      BY <1>3, <1>5, <2>1 DEF OpenIncident
  <1>6. QED
    BY <1>2, <1>4, <1>5 DEF Begin, Get, Save, Fail, store

LEMMA CountInit == Init => CountInv
  BY TypedInit DEF Init, CountInv, CountsNewActivity

LEMMA CountStep == CountInv /\ [Next]_vars => CountInv'
  <1> SUFFICES ASSUME CountInv, [Next]_vars PROVE CountInv'
    OBVIOUS
  <1>1. CASE Next
    BY <1>1, SelectCounts, InsertCounts, OtherCounts DEF Next, Sweep
  <1>2. CASE UNCHANGED vars
    BY <1>2, TypedStep DEF vars, given, CountInv, CountsNewActivity, Findings
  <1>3. QED
    BY <1>1, <1>2

\* An alert never counts more findings than lie within it, however often they
\* are swept, and by however many writers at once.
THEOREM CountsAreReal == Spec => []CountsNewActivity
  <1>1. CountInv => CountsNewActivity
    BY DEF CountInv
  <1>2. QED
    BY <1>1, CountInit, CountStep, PTL DEF Spec

-----------------------------------------------------------------------------
(* One writer: every finding that was swept is in an incident                *)

NowSealed(c) ==
  \E k \in DOMAIN alerts' :
    /\ Holds(alerts'[k], c) /\ alerts'[k].incident # 0
    /\ incidents'[alerts'[k].incident].first <= c.start
    /\ c.end <= incidents'[alerts'[k].incident].last

\* An alert that is in an incident stays in one that spans as much of it.
SpansKept ==
  \A k \in DOMAIN alerts : alerts[k].incident # 0 =>
    LET a == alerts[k]
        i == incidents[a.incident]
        j == incidents'[alerts'[k].incident]
    IN /\ alerts'[k].incident # 0
       /\ (j.first <= i.first /\ i.last <= j.last) \/ (j.first <= a.start /\ a.end <= j.last)

\* Every finding before that position is in an incident after the step.
Passed(n, m) ==
  \A i \in DOMAIN windows : \A j \in DOMAIN windows[i] :
    Before(i, j, n, m) => Sealed(windows[i][j]) \/ NowSealed(windows[i][j])

AloneStep(w) ==
  /\ SpansKept
  /\ SealedBefore(watermark', 1)
  /\ stage'[w] # "idle" => Passed(win'[w], nth'[w])
  /\ stage'[w] = "insert" =>
       Matches(Current(w)) = {} /\ alerts' = alerts /\ win'[w] = win[w] /\ nth'[w] = nth[w]
  /\ stage'[w] \in {"correlate", "open"} => copy'[w] = alerts'[key'[w]]

LEMMA RowIncident ==
  ASSUME Typed, NEW k \in DOMAIN alerts, alerts[k].incident # 0
  PROVE  /\ alerts[k] \in Row /\ alerts[k].incident \in DOMAIN incidents
         /\ incidents[alerts[k].incident] \in Incident
  <1>1. /\ alerts[k] \in Row /\ alerts[k].incident <= Len(incidents) /\ incidents \in Seq(Incident)
    BY DEF Typed, Tables
  <1>2. alerts[k].incident \in Nat \ {0}
    BY <1>1 DEF Row
  <1>3. alerts[k].incident \in DOMAIN incidents
    BY <1>1, <1>2
  <1>4. QED
    BY <1>1, <1>3

LEMMA SealedStays ==
  ASSUME Typed, Typed', RowsWiden, SpansKept, NEW c \in Candidate, Sealed(c)
  PROVE  NowSealed(c)
  <1>1. PICK k \in DOMAIN alerts :
           /\ Holds(alerts[k], c) /\ alerts[k].incident # 0
           /\ incidents[alerts[k].incident].first <= c.start
           /\ c.end <= incidents[alerts[k].incident].last
    BY DEF Sealed
  <1>2. /\ k \in DOMAIN alerts' /\ Wider(alerts[k], alerts'[k]) /\ alerts'[k].incident # 0
    BY <1>1 DEF RowsWiden, SpansKept
  <1>3. /\ alerts[k] \in Row /\ incidents[alerts[k].incident] \in Incident
    BY <1>1, RowIncident
  <1>4. /\ alerts'[k] \in Row /\ incidents'[alerts'[k].incident] \in Incident
    <2>1. /\ alerts'[k] \in Row /\ alerts'[k].incident <= Len(incidents') /\ incidents' \in Seq(Incident)
      BY <1>2 DEF Typed, Tables
    <2>2. alerts'[k].incident \in Nat \ {0}
      BY <1>2, <2>1 DEF Row
    <2>3. QED
      BY <2>1, <2>2
  <1>5. Holds(alerts'[k], c)
    BY <1>1, <1>2, <1>3, <1>4, Widening
  <1>6. /\ incidents'[alerts'[k].incident].first <= c.start
        /\ c.end <= incidents'[alerts'[k].incident].last
    BY <1>1, <1>3, <1>4 DEF SpansKept, Holds, Row, Incident, Candidate
  <1>7. QED
    BY <1>2, <1>5, <1>6 DEF NowSealed

LEMMA SoloFrame ==
  ASSUME SoloInv, NEW w \in crew, OneWriter(w), UNCHANGED given,
         \A k \in DOMAIN alerts' \ DOMAIN alerts :
           /\ k[3] \in Nat /\ alerts'[k].type = k[1] /\ alerts'[k].entity = k[2]
           /\ alerts'[k].start <= k[3] /\ k[3] <= alerts'[k].end,
         Cardinality(crew) = 1 => AloneStep(w)
  PROVE  SoloInv'
  <1>1. /\ Typed /\ Typed' /\ RowsWiden /\ windows' = windows /\ crew' = crew /\ w \in Writers /\ GivenOK
    BY DEF SoloInv, OneWriter, given, Typed, GivenOK
  <1>2. ASSUME NEW k \in DOMAIN alerts'
        PROVE  KeySpans(k)'
    <2>1. CASE k \in DOMAIN alerts
      <3>1. KeySpans(k) /\ Wider(alerts[k], alerts'[k]) /\ alerts[k] \in Row /\ alerts'[k] \in Row
        BY <1>1, <1>2, <2>1 DEF SoloInv, RowsWiden, Typed, Tables
      <3>2. QED
        BY <3>1 DEF KeySpans, Wider, Row
    <2>2. CASE k \notin DOMAIN alerts
      BY <1>2, <2>2 DEF KeySpans
    <2>3. QED
      BY <2>1, <2>2
  <1>3. ASSUME Cardinality(crew) = 1
        PROVE  SealedBefore(watermark, 1)' /\ \A v \in Writers : Alone(v)'
    <2>1. AloneStep(w)
      BY <1>3
    <2>2. ASSUME NEW n, NEW m, Passed(n, m)
          PROVE  \A i \in DOMAIN windows : \A j \in DOMAIN windows[i] :
                   Before(i, j, n, m) => NowSealed(windows[i][j])
      <3> SUFFICES ASSUME NEW i \in DOMAIN windows, NEW j \in DOMAIN windows[i], Before(i, j, n, m)
                   PROVE  NowSealed(windows[i][j])
        OBVIOUS
      <3>1. windows[i][j] \in Candidate
        BY <1>1, FindingAt
      <3>2. QED
        BY <1>1, <2>1, <2>2, <3>1, SealedStays DEF Passed, AloneStep
    <2>3. SealedBefore(watermark, 1)'
      <3>1. Passed(watermark', 1)
        BY <2>1 DEF AloneStep, SealedBefore, Passed
      <3>2. QED
        BY <1>1, <2>2, <3>1 DEF SealedBefore, Sealed, NowSealed
    <2>4. Alone(w)'
      <3>1. stage'[w] # "idle" => SealedBefore(win[w], nth[w])'
        BY <1>1, <2>1, <2>2 DEF AloneStep, SealedBefore, Sealed, NowSealed
      <3>2. stage'[w] = "insert" => (Matches(Current(w)) = {})'
        BY <1>1, <2>1 DEF AloneStep, Matches, Current
      <3>3. QED
        BY <2>1, <3>1, <3>2 DEF AloneStep, Alone
    <2>5. ASSUME NEW v \in Writers, v # w
          PROVE  Alone(v)'
      <3>1. crew = {w}
        <4>1. IsFiniteSet(crew)
          BY <1>1, WritersAssumption, FS_Subset DEF GivenOK
        <4>2. QED
          BY <1>3, <4>1, FS_Singleton
      <3>2. stage'[v] = "idle"
        BY <1>1, <2>5, <3>1 DEF Typed, Stands
      <3>3. QED
        BY <3>2 DEF Alone
    <2>6. QED
      BY <2>3, <2>4, <2>5
  <1>4. QED
    BY <1>1, <1>2, <1>3 DEF SoloInv

LEMMA SpansUntouched ==
  ASSUME Typed, incidents' = incidents, \A k \in DOMAIN alerts : alerts'[k].incident = alerts[k].incident
  PROVE  SpansKept
  <1> SUFFICES ASSUME NEW k \in DOMAIN alerts, alerts[k].incident # 0
               PROVE  incidents'[alerts'[k].incident].first <= incidents[alerts[k].incident].first
                      /\ incidents[alerts[k].incident].last <= incidents'[alerts'[k].incident].last
    BY DEF SpansKept
  <1>1. incidents[alerts[k].incident] \in Incident
    BY RowIncident
  <1>2. QED
    BY <1>1 DEF Incident

LEMMA SealedNext ==
  ASSUME GivenOK, NEW n \in DOMAIN windows, NEW m \in Nat, SealedBefore(n, m), NowSealed(windows[n][m])
  PROVE  Passed(n, m + 1)
  <1> SUFFICES ASSUME NEW i \in DOMAIN windows, NEW j \in DOMAIN windows[i], Before(i, j, n, m + 1)
               PROVE  Sealed(windows[i][j]) \/ NowSealed(windows[i][j])
    BY DEF Passed
  <1>1. i \in Nat /\ j \in Nat /\ n \in Nat
    BY FindingAt, SMTT(60) DEF GivenOK
  <1>2. Before(i, j, n, m) \/ (i = n /\ j = m)
    BY <1>1 DEF Before
  <1>3. QED
    BY <1>2 DEF SealedBefore

LEMMA SealedWindow ==
  ASSUME GivenOK, NEW n \in DOMAIN windows, NEW m \in Nat, SealedBefore(n, m), m > Len(windows[n])
  PROVE  SealedBefore(n + 1, 1)
  <1> SUFFICES ASSUME NEW i \in DOMAIN windows, NEW j \in DOMAIN windows[i], Before(i, j, n + 1, 1)
               PROVE  Sealed(windows[i][j])
    BY DEF SealedBefore
  <1>1. i \in Nat /\ j \in 1 .. Len(windows[i]) /\ Len(windows[i]) \in Nat /\ n \in Nat
    BY FindingAt DEF GivenOK
  <1>2. Before(i, j, n, m)
    BY <1>1 DEF Before
  <1>3. QED
    BY <1>2 DEF SealedBefore

LEMMA AloneAt ==
  ASSUME SoloInv, Cardinality(crew) = 1, NEW w \in crew, stage[w] # "idle"
  PROVE  /\ w \in Writers /\ Alone(w) /\ SealedBefore(watermark, 1) /\ Passed(win[w], nth[w])
         /\ win[w] \in DOMAIN windows /\ nth[w] \in Nat \ {0} /\ SealedBefore(win[w], nth[w])
  <1>1. /\ w \in Writers /\ Alone(w) /\ SealedBefore(watermark, 1)
        /\ win[w] \in DOMAIN windows /\ nth[w] \in Nat \ {0}
    BY DEF SoloInv, Typed, GivenOK, Hands, Stands
  <1>2. QED
    BY <1>1 DEF Alone, SealedBefore, Passed

LEMMA SelectSolo ==
  ASSUME SoloInv, UNCHANGED given, NEW w \in crew, Select(w)
  PROVE  SoloInv'
  <1> DEFINE c == Current(w)
  <1>1. /\ OneWriter(w) /\ Typed /\ w \in Writers /\ stage[w] = "select" /\ c \in Candidate
        /\ incidents' = incidents /\ watermark' = watermark /\ win' = win /\ nth' = nth
    BY SelectTyped, CurrentAt DEF SoloInv, Typed, GivenOK, Select
  <1>2. Cardinality(crew) = 1 => Passed(win'[w], nth'[w]) /\ SealedBefore(watermark', 1)
    BY <1>1, AloneAt
  <1> HIDE DEF c
  <1>3. CASE Matches(c) = {} /\ Goto(w, "insert") /\ UNCHANGED alerts
    <2>1. stage'[w] = "insert"
      BY <1>1, <1>3 DEF Typed, Hands, Goto
    <2>2. Cardinality(crew) = 1 => AloneStep(w)
      BY <1>1, <1>2, <1>3, <2>1, SpansUntouched DEF AloneStep, c
    <2>3. QED
      BY <1>1, <1>3, <2>2, SoloFrame
  <1>4. ASSUME NEW k \in Oldest(alerts, Matches(c)), Goto(w, "get"),
               alerts' = [alerts EXCEPT ![k] = Merged(alerts[k], c)]
        PROVE  SoloInv'
    <2>1. k \in DOMAIN alerts /\ alerts[k] \in Row
      BY <1>1, <1>4 DEF Oldest, Matches, Typed, Tables
    <2>2. Merged(alerts[k], c).incident = alerts[k].incident
      BY <1>1, <2>1, MergedParts
    <2>3. DOMAIN alerts' = DOMAIN alerts /\ \A j \in DOMAIN alerts : alerts'[j].incident = alerts[j].incident
      BY <1>1, <1>4, <2>1, <2>2 DEF Typed, Tables
    <2>4. stage'[w] = "get"
      BY <1>1, <1>4 DEF Typed, Hands, Goto
    <2>5. Cardinality(crew) = 1 => AloneStep(w)
      BY <1>1, <1>2, <2>3, <2>4, SpansUntouched DEF AloneStep
    <2>6. QED
      BY <1>1, <2>3, <2>5, SoloFrame
  <1>5. QED
    BY <1>3, <1>4 DEF Select, c

\* The only writer never loses an insert to a conflict.
LEMMA NoConflict ==
  ASSUME SoloInv, Cardinality(crew) = 1, NEW w \in crew, stage[w] = "insert"
  PROVE  Key(Current(w)) \notin DOMAIN alerts
  <1> DEFINE c == Current(w)
             k == Key(c)
  <1> SUFFICES ASSUME k \in DOMAIN alerts PROVE FALSE
    OBVIOUS
  <1>1. c \in Candidate /\ c.start <= c.end /\ Matches(c) = {}
    BY CurrentAt, AloneAt DEF Alone, SoloInv, Typed, GivenOK
  <1> HIDE DEF c
  <1>2. KeySpans(k) /\ alerts[k] \in Row
    BY DEF SoloInv, Typed, Tables
  <1>3. k[1] = c.type /\ k[2] = c.entity /\ k[3] = c.start
    BY DEF Key
  <1>4. Overlaps(alerts[k], c)
    BY <1>1, <1>2, <1>3, GapAssumption DEF KeySpans, Overlaps, Row, Candidate
  <1>5. QED
    BY <1>1, <1>2, <1>3, <1>4 DEF Matches, KeySpans

LEMMA InsertSolo ==
  ASSUME SoloInv, UNCHANGED given, NEW w \in crew, Insert(w)
  PROVE  SoloInv'
  <1> DEFINE c == Current(w)
             k == Key(c)
             b == NewRow(c, seen[w])
  <1>1. /\ OneWriter(w) /\ Typed /\ w \in Writers /\ stage[w] = "insert"
        /\ c \in Candidate /\ c.start <= c.end /\ incidents' = incidents /\ watermark' = watermark
    BY InsertTyped, CurrentAt DEF SoloInv, Typed, GivenOK, Insert
  <1>2. CASE k \in DOMAIN alerts /\ UNCHANGED alerts
    <2>1. Cardinality(crew) # 1
      BY <1>1, <1>2, NoConflict
    <2>2. QED
      BY <1>1, <1>2, <2>1, SoloFrame
  <1>3. ASSUME k \notin DOMAIN alerts,
               alerts' = [j \in DOMAIN alerts \cup {k} |-> IF j = k THEN b ELSE alerts[j]],
               Goto(w, "get"), UNCHANGED <<win, nth>>
        PROVE  SoloInv'
    <2>1. Cardinality(crew) = 1 => Passed(win'[w], nth'[w]) /\ SealedBefore(watermark', 1)
      BY <1>1, <1>3, AloneAt
    <2>2. /\ b.type = k[1] /\ b.entity = k[2] /\ b.start = k[3] /\ b.end = c.end /\ k[3] = c.start
      BY DEF NewRow, Key
    <2>3. k[3] \in Nat /\ b.start <= k[3] /\ k[3] <= b.end
      BY <1>1, <2>2 DEF Candidate
    <2> HIDE DEF c, k, b
    <2>4. /\ DOMAIN alerts' = DOMAIN alerts \cup {k} /\ alerts'[k] = b
          /\ \A j \in DOMAIN alerts : alerts'[j] = alerts[j]
      BY <1>3
    <2>5. stage'[w] = "get"
      BY <1>1, <1>3 DEF Typed, Hands, Goto
    <2>6. SpansKept
      BY <1>1, <2>4, SpansUntouched
    <2>7. Cardinality(crew) = 1 => AloneStep(w)
      BY <2>1, <2>5, <2>6 DEF AloneStep
    <2>8. QED
      BY <1>1, <2>2, <2>3, <2>4, <2>7, SoloFrame
  <1>4. QED
    BY <1>2, <1>3 DEF Insert

LEMMA GetSolo ==
  ASSUME SoloInv, UNCHANGED given, NEW w \in crew, Get(w)
  PROVE  SoloInv'
  <1>1. /\ OneWriter(w) /\ Typed /\ w \in Writers /\ stage[w] = "get" /\ stage'[w] = "correlate"
        /\ incidents' = incidents /\ watermark' = watermark /\ win' = win /\ nth' = nth
        /\ alerts' = alerts /\ key' = key /\ copy'[w] = alerts[key[w]]
    BY GetTyped DEF SoloInv, Typed, GivenOK, Get, store
  <1>2. Cardinality(crew) = 1 => Passed(win'[w], nth'[w]) /\ SealedBefore(watermark', 1)
    BY <1>1, AloneAt
  <1>3. Cardinality(crew) = 1 => AloneStep(w)
    BY <1>1, <1>2, SpansUntouched DEF AloneStep
  <1>4. QED
    BY <1>1, <1>3, SoloFrame

\* The step that attaches the alert to an incident that spans it.
LEMMA AttachSolo ==
  ASSUME SoloInv, UNCHANGED given, NEW w \in crew, OneWriter(w), stage[w] \in {"correlate", "open"},
         NEW n \in DOMAIN incidents', Attach(w, n), At(w, win[w], nth[w] + 1), watermark' = watermark,
         incidents'[n].first <= copy[w].start, copy[w].end <= incidents'[n].last,
         \A j \in DOMAIN incidents :
           /\ j \in DOMAIN incidents' /\ incidents'[j].first <= incidents[j].first
           /\ incidents[j].last <= incidents'[j].last
  PROVE  SoloInv'
  <1> DEFINE h == key[w]
             c == Current(w)
  <1>1. /\ Typed /\ Typed' /\ w \in Writers /\ GivenOK /\ c \in Candidate
        /\ h \in DOMAIN alerts /\ Holds(alerts[h], c) /\ RowsWiden
    BY CurrentAt DEF SoloInv, OneWriter, Typed, GivenOK, Stands
  <1>2. n \in Nat /\ n # 0 /\ incidents'[n] \in Incident
    BY <1>1 DEF Typed, Tables
  <1>3. /\ DOMAIN alerts' = DOMAIN alerts /\ alerts'[h].incident = n
        /\ \A k \in DOMAIN alerts : k # h => alerts'[k] = alerts[k]
    BY <1>1, <1>2, AttachParts
  <1>4. ASSUME Cardinality(crew) = 1
        PROVE  AloneStep(w)
    <2>1. /\ copy[w] = alerts[h] /\ SealedBefore(watermark, 1) /\ SealedBefore(win[w], nth[w])
          /\ win[w] \in DOMAIN windows /\ nth[w] \in Nat /\ nth[w] + 1 \in Nat \ {0}
      BY <1>4, AloneAt DEF Alone
    <2>2. SpansKept
      <3> SUFFICES ASSUME NEW k \in DOMAIN alerts, alerts[k].incident # 0
                   PROVE  LET a == alerts[k]
                              i == incidents[a.incident]
                              j == incidents'[alerts'[k].incident]
                          IN /\ alerts'[k].incident # 0
                             /\ (j.first <= i.first /\ i.last <= j.last) \/ (j.first <= a.start /\ a.end <= j.last)
        BY DEF SpansKept
      <3>1. CASE k = h
        BY <1>2, <1>3, <2>1, <3>1
      <3>2. CASE k # h
        <4>1. alerts'[k] = alerts[k] /\ alerts[k].incident \in DOMAIN incidents
          BY <1>1, <1>3, <3>2, RowIncident
        <4>2. QED
          BY <4>1
      <3>3. QED
        BY <3>1, <3>2
    <2>3. NowSealed(c)
      <3>1. /\ alerts[h] \in Row /\ alerts'[h] \in Row /\ Wider(alerts[h], alerts'[h])
        BY <1>1, <1>3 DEF Typed, Tables, RowsWiden
      <3>2. Holds(alerts'[h], c)
        BY <1>1, <3>1, Widening
      <3> HIDE DEF h, c
      <3>3. incidents'[n].first <= c.start /\ c.end <= incidents'[n].last
        BY <1>1, <1>2, <2>1, <3>1 DEF Holds, Row, Candidate, Incident
      <3>4. QED
        BY <1>1, <1>2, <1>3, <3>2, <3>3 DEF NowSealed
    <2>4. Passed(win[w], nth[w] + 1)
      BY <1>1, <2>1, <2>3, SealedNext DEF Current
    <2>5. /\ stage'[w] \in {"select", "save"} /\ win'[w] = win[w] /\ nth'[w] = nth[w] + 1
      BY <1>1, <2>1, AtParts
    <2>6. Passed(win'[w], nth'[w])
      BY <2>4, <2>5
    <2>7. QED
      BY <2>1, <2>2, <2>5, <2>6 DEF AloneStep
  <1>5. QED
    BY <1>1, <1>3, <1>4, SoloFrame

LEMMA CorrelateSolo ==
  ASSUME SoloInv, UNCHANGED given, NEW w \in crew, Correlate(w)
  PROVE  SoloInv'
  <1>1. /\ OneWriter(w) /\ Typed /\ w \in Writers /\ stage[w] = "correlate" /\ copy[w] \in Row
        /\ watermark' = watermark
    BY CorrelateTyped DEF SoloInv, Typed, Stands, GivenOK, Correlate
  <1>2. CASE Goto(w, "open") /\ UNCHANGED <<alerts, incidents, win, nth, key, copy>>
    <2>1. stage'[w] = "open"
      BY <1>1, <1>2 DEF Typed, Hands, Goto
    <2>2. Cardinality(crew) = 1 =>
            Passed(win'[w], nth'[w]) /\ SealedBefore(watermark', 1) /\ copy'[w] = alerts'[key'[w]]
      BY <1>1, <1>2, AloneAt DEF Alone
    <2>3. Cardinality(crew) = 1 => AloneStep(w)
      BY <1>1, <1>2, <2>1, <2>2, SpansUntouched DEF AloneStep
    <2>4. QED
      BY <1>1, <1>2, <2>3, SoloFrame
  <1>3. ASSUME NEW n \in Oldest(incidents, Reached(copy[w])),
               incidents' = [incidents EXCEPT ![n] = Absorbed(n, copy[w])],
               Attach(w, n), At(w, win[w], nth[w] + 1)
        PROVE  SoloInv'
    <2>1. n \in DOMAIN incidents /\ incidents \in Seq(Incident)
      BY <1>1, <1>3 DEF Oldest, Reached, Typed, Tables
    <2>2. incidents[n] \in Incident /\ DOMAIN incidents' = DOMAIN incidents /\ Cardinality(Members(n)) \in Nat
      BY <1>1, <1>3, <2>1, MembersFinite
    <2> DEFINE i == Absorbed(n, copy[w])
    <2>3. /\ i.first <= incidents[n].first /\ i.first <= copy[w].start
          /\ incidents[n].last <= i.last /\ copy[w].end <= i.last
      <3>1. /\ i.first <= incidents[n].first /\ i.first <= copy[w].start
            /\ i.last >= incidents[n].last /\ i.last >= copy[w].end /\ i \in Incident
        BY <1>1, <2>2, AbsorbedParts
      <3> HIDE DEF i
      <3>2. QED
        BY <1>1, <2>2, <3>1 DEF Incident, Row
    <2> HIDE DEF i
    <2>4. incidents'[n] = i /\ \A j \in DOMAIN incidents : j # n => incidents'[j] = incidents[j]
      BY <1>3, <2>1 DEF i
    <2>5. \A j \in DOMAIN incidents :
            /\ j \in DOMAIN incidents' /\ incidents'[j].first <= incidents[j].first
            /\ incidents[j].last <= incidents'[j].last
      BY <1>1, <2>2, <2>3, <2>4, IncidentAt DEF Incident
    <2>6. QED
      BY <1>1, <1>3, <2>1, <2>2, <2>3, <2>4, <2>5, AttachSolo
  <1>4. QED
    BY <1>2, <1>3 DEF Correlate

LEMMA OpenSolo ==
  ASSUME SoloInv, UNCHANGED given, NEW w \in crew, OpenIncident(w)
  PROVE  SoloInv'
  <1> DEFINE i == [entity |-> copy[w].entity, rank |-> copy[w].rank, tally |-> 1,
                   first |-> copy[w].start, last |-> copy[w].end, born |-> seen[w]]
             n == Len(incidents) + 1
  <1>1. /\ OneWriter(w) /\ Typed /\ stage[w] = "open" /\ copy[w] \in Row /\ incidents \in Seq(Incident)
        /\ watermark' = watermark /\ At(w, win[w], nth[w] + 1)
    BY OpenTyped DEF SoloInv, Typed, Stands, GivenOK, OpenIncident, Tables
  <1>2. incidents' = Append(incidents, i) /\ Attach(w, n)
    BY DEF OpenIncident
  <1>3. i.first <= copy[w].start /\ copy[w].end <= i.last
    BY <1>1 DEF Row
  <1> HIDE DEF i
  <1>4. /\ n \in DOMAIN incidents' /\ incidents'[n] = i
        /\ \A j \in DOMAIN incidents : j \in DOMAIN incidents' /\ incidents'[j] = incidents[j]
    BY <1>1, <1>2
  <1> HIDE DEF n
  <1>5. \A j \in DOMAIN incidents :
          /\ j \in DOMAIN incidents' /\ incidents'[j].first <= incidents[j].first
          /\ incidents[j].last <= incidents'[j].last
    BY <1>1, <1>4, IncidentAt, SMTT(60) DEF Incident
  <1>6. QED
    BY <1>1, <1>2, <1>3, <1>4, <1>5, AttachSolo

LEMMA WindowSolo ==
  ASSUME SoloInv, UNCHANGED given, NEW w \in crew, Begin(w) \/ Save(w) \/ Fail(w)
  PROVE  SoloInv'
  <1>1. OneWriter(w) /\ w \in Writers /\ Typed /\ GivenOK
    BY BeginTyped, SaveTyped, FailTyped DEF SoloInv, Typed, GivenOK
  <1>2. alerts' = alerts /\ incidents' = incidents /\ SpansKept
    BY <1>1, SpansUntouched DEF Begin, Save, Fail, store
  <1>3. ASSUME NEW n \in DOMAIN windows, At(w, n, 1),
               Cardinality(crew) = 1 => SealedBefore(n, 1) /\ SealedBefore(watermark', 1)
        PROVE  SoloInv'
    <2>1. stage'[w] \in {"select", "save"} /\ win'[w] = n /\ nth'[w] = 1
      BY <1>1, <1>3, AtParts
    <2>2. Cardinality(crew) = 1 => Passed(win'[w], nth'[w])
      BY <1>3, <2>1 DEF SealedBefore, Passed
    <2>3. Cardinality(crew) = 1 => AloneStep(w)
      BY <1>2, <1>3, <2>1, <2>2 DEF AloneStep
    <2>4. QED
      BY <1>1, <1>2, <2>3, SoloFrame
  <1>4. ASSUME Done(w), Cardinality(crew) = 1 => SealedBefore(watermark', 1)
        PROVE  SoloInv'
    <2>1. stage'[w] = "idle"
      BY <1>1, <1>4, DoneParts
    <2>2. Cardinality(crew) = 1 => AloneStep(w)
      BY <1>2, <1>4, <2>1 DEF AloneStep
    <2>3. QED
      BY <1>1, <1>2, <2>2, SoloFrame
  <1>5. CASE Begin(w)
    <2>1. /\ watermark \in DOMAIN windows /\ watermark' = watermark /\ At(w, watermark, 1)
          /\ Cardinality(crew) = 1 => SealedBefore(watermark, 1)
      BY <1>1, <1>5 DEF Begin, store, SoloInv, Typed, Tables, GivenOK
    <2>2. Cardinality(crew) = 1 => SealedBefore(watermark', 1)
      BY <2>1
    <2>3. QED
      BY <1>3, <2>1, <2>2
  <1>6. CASE Save(w)
    <2>1. /\ win[w] \in DOMAIN windows /\ nth[w] \in Nat /\ nth[w] > Len(windows[win[w]])
          /\ watermark' = win[w] + 1
      BY <1>1, <1>6 DEF Save, Typed, Stands, Hands
    <2>2. Cardinality(crew) = 1 => SealedBefore(win[w] + 1, 1)
      BY <1>1, <1>6, <2>1, AloneAt, SealedWindow DEF Save
    <2>3. Cardinality(crew) = 1 => SealedBefore(watermark', 1)
      BY <2>1, <2>2
    <2>4. CASE win[w] < Len(windows) /\ At(w, win[w] + 1, 1)
      <3>1. win[w] + 1 \in DOMAIN windows
        BY <1>1, <2>1, <2>4 DEF GivenOK
      <3>2. QED
        BY <1>3, <2>2, <2>3, <2>4, <3>1
    <2>5. QED
      BY <1>4, <1>6, <2>3, <2>4 DEF Save
  <1>7. CASE Fail(w)
    <2>1. Cardinality(crew) = 1 => SealedBefore(watermark', 1)
      BY <1>7 DEF Fail, store, SoloInv
    <2>2. QED
      BY <1>4, <1>7, <2>1 DEF Fail
  <1>8. QED
    BY <1>5, <1>6, <1>7

LEMMA SoloInit == Init => SoloInv
  <1> SUFFICES ASSUME Init PROVE SoloInv
    OBVIOUS
  <1>1. Typed /\ DOMAIN alerts = {} /\ watermark = 1 /\ \A w \in Writers : stage[w] = "idle"
    BY TypedInit DEF Init
  <1>2. SealedBefore(watermark, 1)
    BY <1>1, FindingAt DEF Typed, SealedBefore, Before
  <1>3. QED
    BY <1>1, <1>2 DEF SoloInv, Alone

LEMMA SoloStep == SoloInv /\ [Next]_vars => SoloInv'
  <1> SUFFICES ASSUME SoloInv, [Next]_vars PROVE SoloInv'
    OBVIOUS
  <1>1. CASE Next
    BY <1>1, SelectSolo, InsertSolo, GetSolo, CorrelateSolo, OpenSolo, WindowSolo DEF Next, Sweep
  <1>2. CASE UNCHANGED vars
    <2>1. Typed'
      BY <1>2, TypedStep DEF SoloInv
    <2>2. QED
      BY <1>2, <2>1 DEF vars, given, SoloInv, KeySpans, SealedBefore, Sealed, Alone, Matches, Current
  <1>3. QED
    BY <1>1, <1>2

\* With one writer, a finding whose window was passed is in an incident that
\* spans it, although the alert and its incident are transactions of their own
\* and the writer may fail between them.
THEOREM NoFindingUncorrelated == Spec => []SweptIsCorrelated
  <1>1. ASSUME SoloInv
        PROVE  SweptIsCorrelated
    <2> SUFFICES ASSUME Cardinality(crew) = 1, NEW n \in 1 .. watermark - 1, NEW m \in DOMAIN windows[n]
                 PROVE  Sealed(windows[n][m])
      BY DEF SweptIsCorrelated, Swept, Sealed
    <2>1. n \in DOMAIN windows /\ watermark \in Nat /\ n < watermark
      BY <1>1 DEF SoloInv, Typed, Tables, GivenOK
    <2>2. QED
      BY <1>1, <2>1 DEF SoloInv, SealedBefore, Before
  <1>2. QED
    BY <1>1, SoloInit, SoloStep, PTL DEF Spec

=============================================================================
