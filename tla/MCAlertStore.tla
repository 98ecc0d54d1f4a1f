---------------------------- MODULE MCAlertStore ----------------------------
(***************************************************************************)
(* Small instances of AlertStore.  A history is what the overlapping       *)
(* windows make of some events: windows of four ticks, two ticks apart,    *)
(* with a finding for every type, entity and source IP that occurs.        *)
(***************************************************************************)
EXTENDS AlertStore, TLC, FiniteSetsExt, SequencesExt

CONSTANTS w1, w2

Guess(ts)     == [type |-> "credential_stuffing", entity |-> "ip1", ip |-> "ip1", rank |-> 3, ts |-> ts]
Login(ip, ts) == [type |-> "identity_anomaly", entity |-> "u1", ip |-> ip, rank |-> 2, ts |-> ts]

FindingOf(S) ==
  LET e == CHOOSE e \in S : TRUE
  IN [type |-> e.type, entity |-> e.entity, names |-> {e.entity, e.ip}, rank |-> e.rank,
      start |-> Min({x.ts : x \in S}), end |-> Max({x.ts : x \in S}), size |-> Cardinality(S)]

\* Detectors run in a fixed order, and sort what they find by its start.
Earlier(c, d) == c.rank > d.rank \/ (c.rank = d.rank /\ c.start < d.start)

WindowsOf(S) ==
  [n \in 1 .. 5 |->
     LET InIt(e) == 2 * n - 2 <= e.ts /\ e.ts < 2 * n + 2
         Groups == {{f \in S : InIt(f) /\ f.type = e.type /\ f.ip = e.ip} : e \in {e \in S : InIt(e)}}
     IN SetToSortSeq({FindingOf(G) : G \in Groups}, Earlier)]

\* A burst of guesses that no window sees whole, and logins of the victim from
\* two new origins: apart from each other, or bridged by a later one.
MCEvents == {Guess(0), Guess(1), Guess(3), Guess(5),
             Login("ip1", 1), Login("ip1", 5), Login("ip2", 4), Login("ip1", 9)}

AllHistories == {WindowsOf(S) : S \in SUBSET MCEvents}

\* For two writers: the burst and one login, and the logins alone.
FewHistories ==
  {WindowsOf(S) : S \in {{Guess(1), Guess(3), Login("ip1", 5)},
                         {Login("ip1", 1), Login("ip2", 4), Login("ip1", 5)}}}

\* One writer on every history, two on few.
MCScenarios ==
  {[crew |-> {w}, windows |-> h] : w \in Writers, h \in AllHistories}
    \cup {[crew |-> Writers, windows |-> h] : h \in FewHistories}

MCSymmetry == Permutations(Writers)
=============================================================================
