---------------------------- MODULE ScoringProofs ----------------------------
(***************************************************************************)
(* Lemmas about the alerts that a batch of findings leaves: what the       *)
(* detectors, the order of the findings and the table return, for every    *)
(* set of events and every pad.                                            *)
(***************************************************************************)
EXTENDS Scoring, DetectionProofs

-----------------------------------------------------------------------------
(* Findings *)

Candidate ==
  [type : AlertTypes, entity : Names, user : Names, ip : Names, start : Nat, end : Nat, size : Nat]

LEMMA EarliestIs ==
  ASSUME NEW S \in EventSets, S # {}
  PROVE  Earliest(S) \in S
  <1> DEFINE T == {e.ts : e \in S}
             Firsts == {e \in S : e.ts = Min(T)}
             Ids == {e.id : e \in Firsts}
  <1>1. \A e \in S : e.ts \in Nat /\ e.id \in Nat
    BY DEF EventSets, Event
  <1>2. Min(T) \in T /\ \A y \in T : Min(T) <= y
    <2>1. T \in SUBSET Nat /\ T # {}
      BY <1>1
    <2> HIDE DEF T
    <2>2. QED
      BY <2>1, MinOfNat
  <1>3. PICK first \in S : first.ts = Min(T)
    BY <1>2
  <1> HIDE DEF T
  <1>4. Min(Ids) \in Ids /\ \A y \in Ids : Min(Ids) <= y
    <2>1. Ids \in SUBSET Nat /\ Ids # {}
      BY <1>1, <1>3
    <2> HIDE DEF Ids
    <2>2. QED
      BY <2>1, MinOfNat
  <1>5. PICK e \in Firsts : e.id = Min(Ids)
    BY <1>4
  <1>6. ASSUME NEW f \in S
        PROVE  e.ts < f.ts \/ (e.ts = f.ts /\ e.id <= f.id)
    <2>1. e.ts = Min(T) /\ Min(T) <= f.ts /\ e.ts \in Nat /\ f.ts \in Nat
      BY <1>1, <1>2, <1>5 DEF T
    <2>2. CASE f.ts = Min(T)
      BY <1>4, <1>5, <2>1, <2>2
    <2>3. CASE f.ts # Min(T)
      BY <2>1, <2>3
    <2>4. QED
      BY <2>2, <2>3
  <1>7. QED
    BY <1>5, <1>6 DEF Earliest

LEMMA FindingType ==
  ASSUME NEW S \in EventSets, S # {}, NEW type \in AlertTypes,
         NEW entity \in Names, NEW user \in Names, NEW ip \in Names
  PROVE  Finding(type, entity, user, ip, S) \in Candidate
  <1> DEFINE T == {e.ts : e \in S}
  <1>1. T \in SUBSET Nat /\ T # {}
    BY DEF EventSets, Event
  <1>2. Min(T) \in Nat
    BY <1>1, MinOfNat
  <1>3. IsFiniteSet(T)
    <2>1. IsFiniteSet(S) /\ [e \in S |-> e.ts] \in Surjection(S, T)
      BY DEF Surjection, EventSets
    <2> HIDE DEF T
    <2>2. QED
      BY <2>1, FS_Surjection
  <1>4. Max(T) \in Nat
    <2> HIDE DEF T
    <2>1. PICK n \in Nat : \A x \in T : x <= n
      BY <1>1, <1>3, FiniteBounded
    <2>2. QED
      BY <1>1, <2>1, MaxOfNat
  <1>5. Cardinality(S) \in Nat
    BY CountType
  <1>6. QED
    BY <1>2, <1>4, <1>5 DEF Finding, Candidate

\* Of finitely many things, finitely many others are made.
LEMMA MadeFinite ==
  ASSUME NEW S, IsFiniteSet(S), NEW f, NEW T, \A x \in T : \E e \in S : x = f[e]
  PROVE  IsFiniteSet(T)
  <1> DEFINE I == {f[e] : e \in S}
  <1>1. [e \in S |-> f[e]] \in Surjection(S, I)
    BY DEF Surjection
  <1>2. T \subseteq I
    OBVIOUS
  <1> HIDE DEF I
  <1>3. IsFiniteSet(I)
    BY <1>1, FS_Surjection
  <1>4. QED
    BY <1>2, <1>3, FS_Subset

LEMMA EventNames ==
  ASSUME NEW S \in EventSets, NEW e \in S
  PROVE  /\ e.user \in Names /\ e.ip \in Names
         /\ ExposureKey(e) \in Names
  BY NameAssumption DEF EventSets, Event, Names, ExposureKey

LEMMA StuffingType ==
  ASSUME NEW S \in EventSets
  PROVE  CredentialStuffing(S) \subseteq Candidate /\ IsFiniteSet(CredentialStuffing(S))
  <1> DEFINE Fails(ip) == {e \in S : /\ e.status = "failure" /\ e.ip = ip
                                     /\ e.type \in {"console_login", "ssh_login"}}
             U == {p \in IPs : /\ Cardinality(Fails(p)) >= StuffingFailures
                               /\ Cardinality({e.user : e \in Fails(p)}) >= StuffingMinUsers}
             Found(ip) == Finding("credential_stuffing", ip, NoUser, ip, Fails(ip))
  <1>1. ASSUME NEW p \in U
        PROVE  Fails(p) # {} /\ Fails(p) \in EventSets
    <2>1. Fails(p) \in EventSets
      BY EventSubset
    <2>2. Cardinality(Fails(p)) >= StuffingFailures /\ StuffingFailures \in Nat \ {0}
      BY ThresholdAssumption
    <2>3. Cardinality({}) = 0
      BY FS_EmptySet
    <2> HIDE DEF Fails
    <2>4. QED
      BY <2>1, <2>2, <2>3
  <1>2. CredentialStuffing(S) = {Found(ip) : ip \in U}
    BY DEF CredentialStuffing
  <1>3. ASSUME NEW p \in U
        PROVE  Found(p) \in Candidate
    <2>1. p \in Names /\ NoUser \in Names /\ "credential_stuffing" \in AlertTypes
      BY DEF Names, AlertTypes
    <2>2. QED
      BY <1>1, <2>1, FindingType
  <1>4. ASSUME NEW p \in U
        PROVE  \E e \in S : p = [x \in S |-> x.ip][e]
    BY <1>1
  <1>5. IsFiniteSet(S)
    BY DEF EventSets
  <1> HIDE DEF U, Found
  <1>6. IsFiniteSet({Found(ip) : ip \in U})
    <2> DEFINE key == [x \in S |-> x.ip]
               found == [p \in U |-> Found(p)]
    <2>1. \A x \in {Found(ip) : ip \in U} : \E u \in U : x = found[u]
      OBVIOUS
    <2>2. \A p \in U : \E e \in S : p = key[e]
      BY <1>4
    <2> HIDE DEF key, found
    <2>3. IsFiniteSet(U)
      BY <1>5, <2>2, MadeFinite
    <2>4. QED
      BY <2>1, <2>3, MadeFinite
  <1>7. QED
    BY <1>2, <1>3, <1>6

LEMMA PrivilegeType ==
  ASSUME NEW S \in EventSets
  PROVE  PrivilegeEscalation(S) \subseteq Candidate /\ IsFiniteSet(PrivilegeEscalation(S))
  <1> DEFINE Grants(u) == {e \in S : /\ e.type = "permission_change" /\ e.status = "success"
                                     /\ e.user = u /\ e.target = u /\ e.elevated}
             U == {v \in Users \cup {NoUser} : Grants(v) # {}}
             key == [x \in S |-> x.user]
             found == [u \in U |->
                         Finding("privilege_escalation", u, u, Earliest(Grants(u)).ip, Grants(u))]
  <1>1. PrivilegeEscalation(S) = {found[u] : u \in U}
    BY DEF PrivilegeEscalation
  <1>2. ASSUME NEW u \in U
        PROVE  found[u] \in Candidate
    <2>1. Grants(u) # {} /\ Grants(u) \in EventSets
      BY EventSubset
    <2>2. u \in Names /\ "privilege_escalation" \in AlertTypes
      BY DEF Names, AlertTypes
    <2> HIDE DEF Grants
    <2>3. Earliest(Grants(u)).ip \in Names
      BY <2>1, EarliestIs, EventNames
    <2>4. QED
      BY <2>1, <2>2, <2>3, FindingType
  <1>3. \A u \in U : \E e \in S : u = key[e]
    OBVIOUS
  <1>4. IsFiniteSet(S)
    BY DEF EventSets
  <1> HIDE DEF U, key, found
  <1>5. PrivilegeEscalation(S) \subseteq Candidate
    BY <1>1, <1>2
  <1>6. \A x \in PrivilegeEscalation(S) : \E u \in U : x = found[u]
    BY <1>1
  <1>7. IsFiniteSet(U)
    BY <1>3, <1>4, MadeFinite
  <1>8. IsFiniteSet(PrivilegeEscalation(S))
    BY <1>6, <1>7, MadeFinite
  <1>9. QED
    BY <1>5, <1>8

LEMMA LateralType ==
  ASSUME NEW S \in EventSets
  PROVE  LateralMovement(S) \subseteq Candidate /\ IsFiniteSet(LateralMovement(S))
  <1> DEFINE Hops(u) == {e \in S : /\ e.type = "ssh_login" /\ e.status = "success"
                                   /\ e.user = u /\ e.host # NoHost}
             U == {v \in Users : Cardinality({e.host : e \in Hops(v)}) >= LateralDistinctHosts}
             key == [x \in S |-> x.user]
             found == [u \in U |->
                         Finding("lateral_movement", u, u, Earliest(Hops(u)).ip, Hops(u))]
  <1>1. LateralMovement(S) = {found[u] : u \in U}
    BY DEF LateralMovement
  <1>2. ASSUME NEW u \in U
        PROVE  Hops(u) # {} /\ Hops(u) \in EventSets
    <2>1. Hops(u) \in EventSets
      BY EventSubset
    <2>2. /\ Cardinality({e.host : e \in Hops(u)}) >= LateralDistinctHosts
          /\ LateralDistinctHosts \in Nat \ {0} /\ Cardinality({}) = 0
      BY ThresholdAssumption, FS_EmptySet
    <2> HIDE DEF Hops
    <2>3. ASSUME Hops(u) = {}
          PROVE  FALSE
      <3>1. {e.host : e \in Hops(u)} = {}
        BY <2>3
      <3>2. QED
        BY <2>2, <3>1
    <2>4. QED
      BY <2>1, <2>3
  <1>3. ASSUME NEW u \in U
        PROVE  found[u] \in Candidate
    <2>1. Hops(u) # {} /\ Hops(u) \in EventSets
      BY <1>2
    <2>2. u \in Names /\ "lateral_movement" \in AlertTypes
      BY DEF Names, AlertTypes
    <2> HIDE DEF Hops
    <2>3. Earliest(Hops(u)).ip \in Names
      BY <2>1, EarliestIs, EventNames
    <2>4. QED
      BY <2>1, <2>2, <2>3, FindingType
  <1>4. \A u \in U : \E e \in S : u = key[e]
    BY <1>2
  <1>5. IsFiniteSet(S)
    BY DEF EventSets
  <1> HIDE DEF U, key, found
  <1>6. LateralMovement(S) \subseteq Candidate
    BY <1>1, <1>3
  <1>7. \A x \in LateralMovement(S) : \E u \in U : x = found[u]
    BY <1>1
  <1>8. IsFiniteSet(U)
    BY <1>4, <1>5, MadeFinite
  <1>9. IsFiniteSet(LateralMovement(S))
    BY <1>7, <1>8, MadeFinite
  <1>10. QED
    BY <1>6, <1>9

LEMMA ExfiltrationType ==
  ASSUME NEW S \in EventSets
  PROVE  DataExfiltration(S) \subseteq Candidate /\ IsFiniteSet(DataExfiltration(S))
  <1> DEFINE Transfers(u) == {e \in S : e.type = "data_transfer" /\ e.user = u}
             Volume(u) == MapThenSumSet(LAMBDA e : e.bytes, Transfers(u))
             U == {v \in Users : Volume(v) >= ExfilBytes}
             key == [x \in S |-> x.user]
             found == [u \in U |->
                         Finding("data_exfiltration", u, u, Earliest(Transfers(u)).ip, Transfers(u))]
  <1>1. DataExfiltration(S) = {found[u] : u \in U}
    BY DEF DataExfiltration
  <1>2. ASSUME NEW u \in U
        PROVE  Transfers(u) # {} /\ Transfers(u) \in EventSets
    <2>1. Transfers(u) \in EventSets
      BY EventSubset
    <2>2. ASSUME Transfers(u) = {}
          PROVE  FALSE
      <3>1. Volume(u) = 0
        <4> HIDE DEF Transfers
        <4> QED BY <2>2, NoBytes
      <3>2. Volume(u) >= ExfilBytes /\ ExfilBytes \in Nat \ {0}
        <4> HIDE DEF Volume
        <4> QED BY ThresholdAssumption
      <3> HIDE DEF Volume
      <3>3. QED
        BY <3>1, <3>2
    <2>3. QED
      BY <2>1, <2>2
  <1>3. ASSUME NEW u \in U
        PROVE  found[u] \in Candidate
    <2>1. Transfers(u) # {} /\ Transfers(u) \in EventSets
      BY <1>2
    <2>2. u \in Users
      <3> HIDE DEF Volume
      <3> QED OBVIOUS
    <2>3. u \in Names /\ "data_exfiltration" \in AlertTypes
      BY <2>2 DEF Names, AlertTypes
    <2>4. Earliest(Transfers(u)).ip \in Names
      <3> HIDE DEF Transfers
      <3> QED BY <2>1, EarliestIs, EventNames
    <2>5. Finding("data_exfiltration", u, u, Earliest(Transfers(u)).ip, Transfers(u)) \in Candidate
      <3> HIDE DEF Transfers
      <3> QED BY <2>1, <2>3, <2>4, FindingType
    <2> HIDE DEF Transfers, Volume, U
    <2>6. QED
      BY <2>5
  <1>4. \A u \in U : \E e \in S : u = key[e]
    <2>1. \A u \in U : \E e \in S : e.user = u
      <3>1. ASSUME NEW u \in U
            PROVE  \E e \in S : e.user = u
        <4>1. Transfers(u) # {}
          BY <1>2
        <4> HIDE DEF Volume, U
        <4>2. QED
          BY <4>1
      <3> HIDE DEF Volume, U
      <3>2. QED
        BY <3>1
    <2> HIDE DEF Volume, U
    <2>2. QED
      BY <2>1
  <1>5. IsFiniteSet(S)
    BY DEF EventSets
  <1> HIDE DEF U, key, found
  <1>6. DataExfiltration(S) \subseteq Candidate
    BY <1>1, <1>3
  <1>7. \A x \in DataExfiltration(S) : \E u \in U : x = found[u]
    BY <1>1
  <1>8. IsFiniteSet(U)
    BY <1>4, <1>5, MadeFinite
  <1>9. IsFiniteSet(DataExfiltration(S))
    BY <1>7, <1>8, MadeFinite
  <1>10. QED
    BY <1>6, <1>9

LEMMA ExposureType ==
  ASSUME NEW S \in EventSets
  PROVE  SensitiveDataExposure(S) \subseteq Candidate /\ IsFiniteSet(SensitiveDataExposure(S))
  <1> DEFINE Leaking == {e \in S : e.leaks # {}}
             LeaksOf(k) == {e \in Leaking : ExposureKey(e) = k}
             U == {ExposureKey(e) : e \in Leaking}
             key == [x \in S |-> ExposureKey(x)]
             found == [k \in U |->
                         Finding("sensitive_data_exposure", k, Earliest(LeaksOf(k)).user,
                                 Earliest(LeaksOf(k)).ip, LeaksOf(k))]
  <1>1. SensitiveDataExposure(S) = {found[k] : k \in U}
    BY DEF SensitiveDataExposure
  <1>2. ASSUME NEW k \in U
        PROVE  found[k] \in Candidate
    <2>1. LeaksOf(k) # {} /\ LeaksOf(k) \in EventSets
      BY EventSubset
    <2>2. k \in Names /\ "sensitive_data_exposure" \in AlertTypes
      BY EventNames DEF AlertTypes
    <2>3. Earliest(LeaksOf(k)) \in LeaksOf(k)
      <3> HIDE DEF LeaksOf
      <3> QED BY <2>1, EarliestIs
    <2>4. Earliest(LeaksOf(k)).user \in Names /\ Earliest(LeaksOf(k)).ip \in Names
      <3> HIDE DEF LeaksOf
      <3> QED BY <2>1, <2>3, EventNames
    <2> HIDE DEF LeaksOf
    <2>5. QED
      BY <2>1, <2>2, <2>4, FindingType
  <1>3. \A k \in U : \E e \in S : k = key[e]
    OBVIOUS
  <1>4. IsFiniteSet(S)
    BY DEF EventSets
  <1> HIDE DEF U, key, found
  <1>5. SensitiveDataExposure(S) \subseteq Candidate
    BY <1>1, <1>2
  <1>6. \A x \in SensitiveDataExposure(S) : \E u \in U : x = found[u]
    BY <1>1
  <1>7. IsFiniteSet(U)
    BY <1>3, <1>4, MadeFinite
  <1>8. IsFiniteSet(SensitiveDataExposure(S))
    BY <1>6, <1>7, MadeFinite
  <1>9. QED
    BY <1>5, <1>8

LEMMA AnomalyType ==
  ASSUME NEW S \in EventSets, NEW bl
  PROVE  IdentityAnomaly(S, bl) \subseteq Candidate /\ IsFiniteSet(IdentityAnomaly(S, bl))
  <1> DEFINE NewOrigin(u, ip) ==
               {e \in S : /\ e.type = "console_login" /\ e.status = "success"
                          /\ e.user = u /\ e.ip = ip
                          /\ bl[u].logins >= IdentityMinLogins /\ ip \notin bl[u].ips}
             U == {k \in Users \X IPs : NewOrigin(k[1], k[2]) # {}}
             key == [x \in S |-> <<x.user, x.ip>>]
             found == [k \in U |->
                         Finding("identity_anomaly", k[1], k[1], k[2], NewOrigin(k[1], k[2]))]
  <1>1. IdentityAnomaly(S, bl) = {found[k] : k \in U}
    BY DEF IdentityAnomaly
  <1>2. ASSUME NEW k \in U
        PROVE  found[k] \in Candidate
    <2>1. NewOrigin(k[1], k[2]) # {} /\ NewOrigin(k[1], k[2]) \in EventSets
      BY EventSubset
    <2>2. k[1] \in Names /\ k[2] \in Names /\ "identity_anomaly" \in AlertTypes
      BY DEF Names, AlertTypes
    <2> HIDE DEF NewOrigin
    <2>3. QED
      BY <2>1, <2>2, FindingType
  <1>3. ASSUME NEW k \in U
        PROVE  \E e \in S : k = key[e]
    <2>1. PICK e \in S : e.user = k[1] /\ e.ip = k[2]
      OBVIOUS
    <2>2. k = <<k[1], k[2]>>
      OBVIOUS
    <2>3. QED
      BY <2>1, <2>2
  <1>4. IsFiniteSet(S)
    BY DEF EventSets
  <1> HIDE DEF U, key, found
  <1>5. IdentityAnomaly(S, bl) \subseteq Candidate
    BY <1>1, <1>2
  <1>6. \A x \in IdentityAnomaly(S, bl) : \E u \in U : x = found[u]
    BY <1>1
  <1>7. IsFiniteSet(U)
    BY <1>3, <1>4, MadeFinite
  <1>8. IsFiniteSet(IdentityAnomaly(S, bl))
    BY <1>6, <1>7, MadeFinite
  <1>9. QED
    BY <1>5, <1>8

LEMMA OffHoursType ==
  ASSUME NEW S \in EventSets, NEW bl
  PROVE  OffHoursAccess(S, bl) \subseteq Candidate /\ IsFiniteSet(OffHoursAccess(S, bl))
  <1> DEFINE Mature(u) == /\ bl[u].events >= OffHoursMinEvents
                          /\ Cardinality(bl[u].days) >= OffHoursMinDays
             Quiet(u, h) == \A d \in -2 .. 2 : bl[u].hours[(h + d + 24) % 24] = 0
             Odd(u) == {e \in Feeding(S, u) : Mature(u) /\ Quiet(u, HourOf(e.ts))}
             U == {v \in Users : Odd(v) # {}}
             key == [x \in S |-> x.user]
             found == [u \in U |->
                         Finding("off_hours_access", u, u, Earliest(Odd(u)).ip, Odd(u))]
  <1>1. OffHoursAccess(S, bl) = {found[u] : u \in U}
    BY DEF OffHoursAccess
  <1> HIDE DEF Mature, Quiet
  <1>2. ASSUME NEW u \in U
        PROVE  found[u] \in Candidate
    <2>1. Odd(u) # {} /\ Odd(u) \in SUBSET S
      BY DEF Feeding
    <2>2. u \in Names /\ "off_hours_access" \in AlertTypes
      BY DEF Names, AlertTypes
    <2> HIDE DEF Odd
    <2>3. Odd(u) \in EventSets
      BY <2>1, EventSubset
    <2>4. Earliest(Odd(u)).ip \in Names
      BY <2>1, <2>3, EarliestIs, EventNames
    <2>5. QED
      BY <2>1, <2>2, <2>3, <2>4, FindingType
  <1>3. \A u \in U : \E e \in S : u = key[e]
    BY DEF Feeding
  <1>4. IsFiniteSet(S)
    BY DEF EventSets
  <1> HIDE DEF U, key, found
  <1>5. OffHoursAccess(S, bl) \subseteq Candidate
    BY <1>1, <1>2
  <1>6. \A x \in OffHoursAccess(S, bl) : \E u \in U : x = found[u]
    BY <1>1
  <1>7. IsFiniteSet(U)
    BY <1>3, <1>4, MadeFinite
  <1>8. IsFiniteSet(OffHoursAccess(S, bl))
    BY <1>6, <1>7, MadeFinite
  <1>9. QED
    BY <1>5, <1>8

\* The findings of a window are candidates, finitely many of them, whatever the
\* baselines.
LEMMA FindingsType ==
  ASSUME NEW S \in EventSets, NEW bl
  PROVE  Findings(S, bl) \subseteq Candidate /\ IsFiniteSet(Findings(S, bl))
  <1>1. RuleFindings(S) = CredentialStuffing(S) \cup (PrivilegeEscalation(S)
          \cup (LateralMovement(S) \cup (DataExfiltration(S) \cup SensitiveDataExposure(S))))
    BY DEF RuleFindings
  <1>2. RuleFindings(S) \subseteq Candidate /\ IsFiniteSet(RuleFindings(S))
    BY <1>1, StuffingType, PrivilegeType, LateralType, ExfiltrationType, ExposureType, FS_Union, ZenonT(60)
  <1>3. QED
    BY <1>2, AnomalyType, OffHoursType, FS_Union DEF Findings

-----------------------------------------------------------------------------
(* The order of the findings *)

Sorted(s, F) ==
  s \in SetToSeqs(F) /\ \A m, n \in DOMAIN s : m < n => s[m].start <= s[n].start

\* The latest element goes last, behind the others in order.
LEMMA SortedAppend ==
  ASSUME NEW F, NEW k \in Nat \ {0}, Cardinality(F) = k, NEW c \in F, Cardinality(F \ {c}) = k - 1,
         \A d \in F : d.start <= c.start, NEW s, Sorted(s, F \ {c})
  PROVE  Sorted([n \in 1 .. k |-> IF n = k THEN c ELSE s[n]], F)
  <1> DEFINE z == [n \in 1 .. k |-> IF n = k THEN c ELSE s[n]]
  <1>1. /\ s \in [1 .. k - 1 -> F \ {c}] /\ \A m, n \in 1 .. k - 1 : m # n => s[m] # s[n]
        /\ \A m, n \in 1 .. k - 1 : m < n => s[m].start <= s[n].start
    BY DEF Sorted, SetToSeqs
  <1>2. \A n \in 1 .. k : n # k => n \in 1 .. k - 1
    OBVIOUS
  <1>3. z \in [1 .. k -> F]
    BY <1>1, <1>2
  <1>4. \A m, n \in 1 .. k : m # n => z[m] # z[n]
    BY <1>1, <1>2
  <1>5. \A m, n \in 1 .. k : m < n => z[m].start <= z[n].start
    BY <1>1, <1>2
  <1> HIDE DEF z
  <1>6. Sorted(z, F)
    BY <1>3, <1>4, <1>5 DEF Sorted, SetToSeqs
  <1>7. QED
    BY <1>6 DEF z

LEMMA SortedExists ==
  ASSUME NEW F, IsFiniteSet(F), \A c \in F : c.start \in Nat
  PROVE  \E s : Sorted(s, F)
  <1> DEFINE Bad == {k \in Nat : \E X \in SUBSET F : /\ IsFiniteSet(X) /\ Cardinality(X) = k
                                                     /\ ~ \E s : Sorted(s, X)}
             k == Min(Bad)
  <1>1. SUFFICES ASSUME Bad # {} PROVE FALSE
    <2>1. Cardinality(F) \in Nat
      BY FS_CardinalityType
    <2>2. QED
      BY <2>1
  <1>2. k \in Bad /\ \A y \in Bad : k <= y
    <2> HIDE DEF Bad
    <2>1. Bad \in SUBSET Nat
      BY DEF Bad
    <2>2. QED
      BY <1>1, <2>1, MinOfNat
  <1> HIDE DEF k
  <1>3. PICK X \in SUBSET F : IsFiniteSet(X) /\ Cardinality(X) = k /\ ~ \E s : Sorted(s, X)
    BY <1>2
  <1>4. CASE X = {}
    <2>1. Cardinality(X) = 0
      BY <1>4, FS_EmptySet
    <2>2. Sorted(<<>>, X)
      BY <1>4, <2>1 DEF Sorted, SetToSeqs
    <2>3. QED
      BY <1>3, <2>2
  <1>5. CASE X # {}
    <2> DEFINE T == {c.start : c \in X}
    <2>1. T \in SUBSET Nat /\ T # {}
      BY <1>5
    <2>2. IsFiniteSet(T)
      <3>1. [c \in X |-> c.start] \in Surjection(X, T)
        BY DEF Surjection
      <3> HIDE DEF T
      <3>2. QED
        BY <1>3, <3>1, FS_Surjection
    <2>3. Max(T) \in T /\ \A y \in T : y <= Max(T)
      <3> HIDE DEF T
      <3>1. PICK n \in Nat : \A x \in T : x <= n
        BY <2>1, <2>2, FiniteBounded
      <3>2. QED
        BY <2>1, <3>1, MaxOfNat
    <2>4. PICK c \in X : c.start = Max(T)
      BY <2>3
    <2>5. \A d \in X : d.start <= c.start
      BY <2>3, <2>4
    <2> HIDE DEF T
    <2> DEFINE Y == X \ {c}
    <2>6. IsFiniteSet(Y) /\ Cardinality(Y) = k - 1 /\ Y \in SUBSET F
      BY <1>3, FS_RemoveElement
    <2>7. k - 1 \in Nat /\ k \in Nat
      BY <1>2, <2>6, FS_CardinalityType
    <2>8. k - 1 \notin Bad
      BY <1>2, <2>7
    <2>9. PICK s : Sorted(s, Y)
      <3> HIDE DEF Y
      <3> QED BY <2>6, <2>7, <2>8
    <2>10. k \in Nat \ {0}
      BY <2>7
    <2>11. Sorted([n \in 1 .. k |-> IF n = k THEN c ELSE s[n]], X)
      BY <1>3, <2>5, <2>6, <2>9, <2>10, SortedAppend
    <2>12. QED
      BY <1>3, <2>11
  <1>6. QED
    BY <1>4, <1>5

\* Findings in an order: all of them, the earlier ones first.
LEMMA SortedIs ==
  ASSUME NEW F, IsFiniteSet(F), F \subseteq Candidate, NEW s, Sorted(s, F)
  PROVE  /\ s \in Seq(F) /\ s \in Seq(Candidate) /\ Len(s) = Cardinality(F)
         /\ \A c \in F : \E n \in 1 .. Len(s) : s[n] = c
         /\ \A m, n \in 1 .. Len(s) : m < n => s[m].start <= s[n].start
  <1> DEFINE k == Cardinality(F)
  <1>2. k \in Nat
    BY FS_CardinalityType
  <1>3. /\ s \in [1 .. k -> F] /\ \A m, n \in 1 .. k : m # n => s[m] # s[n]
        /\ \A m, n \in 1 .. k : m < n => s[m].start <= s[n].start
    BY DEF Sorted, SetToSeqs
  <1>4. s \in Seq(F) /\ Len(s) = k
    <2> HIDE DEF k
    <2> QED BY <1>2, <1>3
  <1>5. s \in Surjection(1 .. k, F)
    <2>1. s \in Injection(1 .. k, F)
      BY <1>3 DEF Injection, IsInjective
    <2>2. Cardinality(1 .. k) = k
      <3> HIDE DEF k
      <3>1. 1 \in Int /\ k \in Int
        BY <1>2
      <3>2. Cardinality(1 .. k) = IF 1 > k THEN 0 ELSE k - 1 + 1
        BY <3>1, FS_Interval
      <3>3. QED
        BY <1>2, <3>2
    <2>3. QED
      BY <2>1, <2>2, FS_Injection
  <1>6. \A c \in F : \E n \in 1 .. k : s[n] = c
    BY <1>5 DEF Surjection
  <1>7. s \in Seq(Candidate)
    BY <1>4
  <1>8. QED
    BY <1>3, <1>4, <1>6, <1>7

LEMMA InOrderSorted ==
  ASSUME NEW F, IsFiniteSet(F), F \subseteq Candidate
  PROVE  Sorted(InOrder(F), F)
  <1>1. \E z : Sorted(z, F)
    BY SortedExists DEF Candidate
  <1>2. QED
    BY <1>1 DEF Sorted, InOrder

LEMMA InOrderIs ==
  ASSUME NEW F, IsFiniteSet(F), F \subseteq Candidate
  PROVE  /\ InOrder(F) \in Seq(F) /\ InOrder(F) \in Seq(Candidate)
         /\ \A c \in F : \E n \in 1 .. Len(InOrder(F)) : InOrder(F)[n] = c
         /\ \A m, n \in 1 .. Len(InOrder(F)) : m < n => InOrder(F)[m].start <= InOrder(F)[n].start
  BY InOrderSorted, SortedIs

\* Whatever order tied findings come in, the earlier ones come first.
LEMMA OrdersSorted ==
  ASSUME NEW F, IsFiniteSet(F), F \subseteq Candidate, NEW f \in Orders(F)
  PROVE  Sorted(f, F)
  <1> DEFINE s == InOrder(F)
             k == Cardinality(F)
  <1>1. Sorted(s, F)
    BY InOrderSorted
  <1>2. f \in SetToSeqs(F) /\ \A n \in DOMAIN f : f[n].start = s[n].start
    BY DEF Orders, Tied
  <1> HIDE DEF s
  <1>3. s \in [1 .. k -> F] /\ f \in [1 .. k -> F]
    BY <1>1, <1>2 DEF Sorted, SetToSeqs
  <1>4. DOMAIN s = 1 .. k /\ DOMAIN f = 1 .. k
    <2> HIDE DEF k
    <2> QED BY <1>3
  <1>5. \A m, n \in DOMAIN f : m < n => f[m].start <= f[n].start
    BY <1>1, <1>2, <1>4 DEF Sorted
  <1>6. QED
    BY <1>2, <1>5 DEF Sorted

LEMMA OrdersAre ==
  ASSUME NEW F, IsFiniteSet(F), F \subseteq Candidate, NEW f \in Orders(F)
  PROVE  /\ f \in Seq(F) /\ f \in Seq(Candidate) /\ Len(f) = Cardinality(F)
         /\ \A c \in F : \E n \in 1 .. Len(f) : f[n] = c
         /\ \A m, n \in 1 .. Len(f) : m < n => f[m].start <= f[n].start
  BY OrdersSorted, SortedIs

\* Without ties there is one order.
Untied(F) == \A c, d \in F : Tied(c, d) => c = d

LEMMA OneOrder ==
  ASSUME NEW F, IsFiniteSet(F), F \subseteq Candidate, Untied(F)
  PROVE  Orders(F) = {InOrder(F)}
  <1> DEFINE s == InOrder(F)
             k == Cardinality(F)
  <1>1. s \in SetToSeqs(F)
    BY InOrderSorted DEF Sorted
  <1>2. \A z \in SetToSeqs(F) : z \in [1 .. k -> F]
    BY DEF SetToSeqs
  <1>3. s \in Orders(F)
    BY <1>1 DEF Orders, Tied
  <1>4. ASSUME NEW f \in Orders(F)
        PROVE  f = s
    <2>1. f \in [1 .. k -> F] /\ s \in [1 .. k -> F] /\ \A n \in DOMAIN f : Tied(f[n], s[n])
      BY <1>1, <1>2 DEF Orders
    <2> HIDE DEF s, k
    <2>2. ASSUME NEW n \in 1 .. k
          PROVE  f[n] = s[n]
      <3>1. f[n] \in F /\ s[n] \in F /\ Tied(f[n], s[n])
        BY <2>1
      <3>2. QED
        BY <3>1 DEF Untied
    <2>3. f = [n \in 1 .. k |-> f[n]] /\ s = [n \in 1 .. k |-> s[n]]
      BY <2>1
    <2>4. QED
      BY <2>2, <2>3
  <1>5. QED
    BY <1>3, <1>4

-----------------------------------------------------------------------------
(* The alerts table *)

Hits(A, c) == {n \in DOMAIN A : SameThing(A[n], c)}

NewRow(c) ==
  [type |-> c.type, entity |-> c.entity, user |-> c.user, ip |-> c.ip,
   start |-> c.start, end |-> c.end]

LEMMA MinMaxOfTwo ==
  ASSUME NEW a \in Nat, NEW b \in Nat
  PROVE  /\ Min({a, b}) = IF a <= b THEN a ELSE b
         /\ Max({a, b}) = IF a <= b THEN b ELSE a
  <1> DEFINE S == {a, b}
  <1>1. S \in SUBSET Nat /\ S # {} /\ a + b \in Nat /\ \A x \in S : x <= a + b
    OBVIOUS
  <1>2. Min(S) \in S /\ (\A y \in S : Min(S) <= y) /\ Max(S) \in S /\ (\A y \in S : y <= Max(S))
    <2> HIDE DEF S
    <2> QED BY <1>1, MinOfNat, MaxOfNat
  <1>3. QED
    BY <1>2

LEMMA HitsLeast ==
  ASSUME NEW A \in Seq(AlertRow), NEW c, Hits(A, c) # {}
  PROVE  /\ Min(Hits(A, c)) \in 1 .. Len(A) /\ SameThing(A[Min(Hits(A, c))], c)
         /\ \A n \in 1 .. Len(A) : SameThing(A[n], c) => Min(Hits(A, c)) <= n
  <1>1. Hits(A, c) \in SUBSET Nat
    BY DEF Hits
  <1>2. Min(Hits(A, c)) \in Hits(A, c) /\ \A n \in Hits(A, c) : Min(Hits(A, c)) <= n
    BY <1>1, MinOfNat
  <1>3. QED
    BY <1>2 DEF Hits

\* A finding that overlaps no row of its thing is a row of its own, ...
LEMMA UpsertInserts ==
  ASSUME NEW A \in Seq(AlertRow), NEW c \in Candidate, Hits(A, c) = {}
  PROVE  Upsert(A, c) = Append(A, NewRow(c)) /\ NewRow(c) \in AlertRow
  BY DEF Upsert, Hits, NewRow, AlertRow, Candidate

LEMMA GrownIs ==
  ASSUME NEW a \in AlertRow, NEW c \in Candidate
  PROVE  /\ Grown(a, c) \in AlertRow
         /\ Grown(a, c).type = a.type /\ Grown(a, c).entity = a.entity
         /\ Grown(a, c).start = IF a.start <= c.start THEN a.start ELSE c.start
         /\ Grown(a, c).end = IF a.end <= c.end THEN c.end ELSE a.end
         /\ a.start <= c.start /\ c.end <= a.end => Grown(a, c) = a
  <1> DEFINE x == Min({a.start, c.start})
             y == Max({a.end, c.end})
  <1>1. /\ x = IF a.start <= c.start THEN a.start ELSE c.start
        /\ y = IF a.end <= c.end THEN c.end ELSE a.end
    BY MinMaxOfTwo DEF AlertRow, Candidate
  <1>2. Grown(a, c) = [[a EXCEPT !.start = x] EXCEPT !.end = y]
    BY DEF Grown
  <1>3. x \in Nat /\ y \in Nat
    BY <1>1 DEF AlertRow, Candidate
  <1> HIDE DEF x, y
  <1> DEFINE g == [[a EXCEPT !.start = x] EXCEPT !.end = y]
  <1>4. g \in AlertRow /\ g.type = a.type /\ g.entity = a.entity /\ g.start = x /\ g.end = y
    BY <1>3 DEF AlertRow
  <1>5. a.start = x /\ a.end = y => g = a
    BY DEF AlertRow
  <1> HIDE DEF g
  <1>6. a.start <= c.start /\ c.end <= a.end => a.start = x /\ a.end = y
    BY <1>1 DEF AlertRow, Candidate
  <1>7. QED
    BY <1>1, <1>2, <1>4, <1>5, <1>6 DEF g

\* ... and one that does grows the oldest of them.
LEMMA UpsertGrows ==
  ASSUME NEW A \in Seq(AlertRow), NEW c \in Candidate, Hits(A, c) # {}
  PROVE  LET m == Min(Hits(A, c))
         IN Upsert(A, c) = [A EXCEPT ![m] = Grown(A[m], c)] /\ Grown(A[m], c) \in AlertRow
  <1>1. Min(Hits(A, c)) \in 1 .. Len(A)
    BY HitsLeast
  <1>2. Upsert(A, c) = [A EXCEPT ![Min(Hits(A, c))] = Grown(A[Min(Hits(A, c))], c)]
    BY DEF Upsert, Hits
  <1>3. QED
    BY <1>1, <1>2, GrownIs

LEMMA UpsertType ==
  ASSUME NEW A \in Seq(AlertRow), NEW c \in Candidate
  PROVE  Upsert(A, c) \in Seq(AlertRow)
  <1>1. CASE Hits(A, c) = {}
    BY <1>1, UpsertInserts
  <1>2. CASE Hits(A, c) # {}
    <2>1. Min(Hits(A, c)) \in 1 .. Len(A)
      BY <1>2, HitsLeast
    <2>2. QED
      BY <1>2, <2>1, UpsertGrows
  <1>3. QED
    BY <1>1, <1>2

-----------------------------------------------------------------------------
(* What ListAlerts returns *)

LEMMA ListingsAre ==
  ASSUME NEW A \in Seq(AlertRow), NEW listed \in Listings(A)
  PROVE  IsFiniteSet(listed) /\ \A al \in listed : \E n \in 1 .. Len(A) : al = A[n]
  <1> DEFINE l == Len(A)
  <1>1. PICK D \in SUBSET (1 .. l) : listed = {A[n] : n \in D}
    BY DEF Listings
  <1>2. l \in Nat
    OBVIOUS
  <1> HIDE DEF l
  <1>3. IsFiniteSet(1 .. l)
    BY <1>2, FS_Interval
  <1>4. IsFiniteSet(D)
    BY <1>3, FS_Subset
  <1>5. \A x \in listed : \E n \in D : x = A[n]
    BY <1>1
  <1>6. IsFiniteSet(listed)
    BY <1>4, <1>5, MadeFinite
  <1>7. QED
    BY <1>5, <1>6 DEF l

\* All rows, when they are no more than it may return.
LEMMA AllListings ==
  ASSUME NEW A \in Seq(AlertRow), Len(A) <= ListLimit
  PROVE  Listings(A) = {{A[n] : n \in 1 .. Len(A)}}
  <1> DEFINE l == Len(A)
             I == 1 .. l
             Cut(D) == \A m \in D, n \in I \ D : A[n].start <= A[m].start
  <1>1. l \in Nat /\ ListLimit \in Nat /\ l <= ListLimit /\ DOMAIN A = I
    BY PadAssumption
  <1>2. Min({l, ListLimit}) = l
    <2> HIDE DEF l
    <2> QED BY <1>1, MinMaxOfTwo
  <1>3. Listings(A) = {{A[n] : n \in S} : S \in {D \in SUBSET I : Cardinality(D) = l /\ Cut(D)}}
    BY <1>1, <1>2 DEF Listings
  <1>4. IsFiniteSet(I) /\ Cardinality(I) = l
    <2> HIDE DEF l
    <2>1. 1 \in Int /\ l \in Int
      BY <1>1
    <2>2. IsFiniteSet(1 .. l) /\ Cardinality(1 .. l) = IF 1 > l THEN 0 ELSE l - 1 + 1
      BY <2>1, FS_Interval
    <2>3. QED
      BY <1>1, <2>2
  <1> HIDE DEF l, I
  <1>5. \A D \in SUBSET I : Cardinality(D) = l => D = I
    BY <1>4, FS_Subset
  <1>6. Cut(I)
    OBVIOUS
  <1> HIDE DEF Cut
  <1>7. {D \in SUBSET I : Cardinality(D) = l /\ Cut(D)} = {I}
    BY <1>4, <1>5, <1>6
  <1>8. Listings(A) = {{A[n] : n \in I}}
    BY <1>3, <1>7
  <1>9. QED
    BY <1>8 DEF I, l

-----------------------------------------------------------------------------
(* The findings of a window in the table *)

\* The first n rows of the recursion, ...
UpTo(A, F, f, n) ==
  f = [k \in 0 .. n |-> IF k = 0 THEN A ELSE Upsert(f[k - 1], F[k])]

\* ... which exist, one more at a time, ...
LEMMA UpToExists ==
  ASSUME NEW A, NEW F, NEW n \in Nat
  PROVE  \E f : UpTo(A, F, f, n)
  <1> DEFINE Bad == {k \in Nat : ~ \E f : UpTo(A, F, f, k)}
             k == Min(Bad)
  <1>1. SUFFICES ASSUME Bad # {} PROVE FALSE
    OBVIOUS
  <1>2. k \in Nat /\ (~ \E f : UpTo(A, F, f, k)) /\ \A y \in Bad : k <= y
    <2> HIDE DEF Bad
    <2>1. k \in Bad /\ \A y \in Bad : k <= y
      BY <1>1, MinOfNat DEF Bad
    <2>2. QED
      BY <2>1 DEF Bad
  <1> HIDE DEF k
  <1>3. CASE k = 0
    <2>1. UpTo(A, F, [j \in 0 .. 0 |-> A], 0)
      BY DEF UpTo
    <2>2. QED
      BY <1>2, <1>3, <2>1
  <1>4. CASE k # 0
    <2>1. k - 1 \in Nat /\ k - 1 \notin Bad
      BY <1>2, <1>4
    <2>2. PICK f : UpTo(A, F, f, k - 1)
      BY <2>1
    <2> DEFINE g == [j \in 0 .. k |-> IF j = k THEN Upsert(f[k - 1], F[k]) ELSE f[j]]
    <2>3. ASSUME NEW j \in 0 .. k
          PROVE  g[j] = IF j = 0 THEN A ELSE Upsert(g[j - 1], F[j])
      <3>1. CASE j = k
        BY <1>2, <1>4, <3>1
      <3>2. CASE j # k
        <4>1. j \in 0 .. k - 1 /\ g[j] = f[j] /\ (j # 0 => j - 1 \in 0 .. k /\ g[j - 1] = f[j - 1])
          BY <1>2, <3>2
        <4>2. f[j] = IF j = 0 THEN A ELSE Upsert(f[j - 1], F[j])
          BY <2>2, <4>1 DEF UpTo
        <4>3. QED
          BY <4>1, <4>2
      <3>3. QED
        BY <3>1, <3>2
    <2>4. UpTo(A, F, g, k)
      <3> HIDE DEF g
      <3>1. g = [j \in 0 .. k |-> g[j]]
        BY DEF g
      <3>2. QED
        BY <2>3, <3>1, Zenon DEF UpTo
    <2>5. QED
      BY <1>2, <2>4
  <1>5. QED
    BY <1>3, <1>4

\* ... and agree where they overlap, ...
LEMMA UpToAgree ==
  ASSUME NEW A, NEW F, NEW n \in Nat, NEW m \in Nat, NEW f, NEW g,
         UpTo(A, F, f, n), UpTo(A, F, g, m), n <= m, NEW j \in 0 .. n
  PROVE  f[j] = g[j]
  <1> DEFINE Bad == {k \in 0 .. n : f[k] # g[k]}
             k == Min(Bad)
  <1>1. SUFFICES ASSUME Bad # {} PROVE FALSE
    OBVIOUS
  <1>2. k \in 0 .. n /\ f[k] # g[k] /\ \A y \in Bad : k <= y
    <2> HIDE DEF Bad
    <2>1. k \in Bad /\ \A y \in Bad : k <= y
      BY <1>1, MinOfNat DEF Bad
    <2>2. QED
      BY <2>1 DEF Bad
  <1> HIDE DEF k
  <1>3. k \in 0 .. m
    BY <1>2
  <1>4. /\ f[k] = IF k = 0 THEN A ELSE Upsert(f[k - 1], F[k])
        /\ g[k] = IF k = 0 THEN A ELSE Upsert(g[k - 1], F[k])
    BY <1>2, <1>3 DEF UpTo
  <1>5. k # 0 => f[k - 1] = g[k - 1]
    BY <1>2
  <1>6. QED
    BY <1>2, <1>4, <1>5

\* ... so the recursion defines a function.
LEMMA StoreNext ==
  ASSUME NEW A, NEW F, NEW n \in Nat
  PROVE  /\ StoreFirst(A, F, 0) = A
         /\ StoreFirst(A, F, n + 1) = Upsert(StoreFirst(A, F, n), F[n + 1])
  <1> DEFINE Rows(f) == f = [k \in Nat |-> IF k = 0 THEN A ELSE Upsert(f[k - 1], F[k])]
             rows == CHOOSE f : Rows(f)
             first(k) == CHOOSE f : UpTo(A, F, f, k)
             g == [k \in Nat |-> first(k)[k]]
  <1>1. ASSUME NEW k \in Nat
        PROVE  UpTo(A, F, first(k), k)
    BY UpToExists
  <1>2. ASSUME NEW x \in Nat
        PROVE  g[x] = IF x = 0 THEN A ELSE Upsert(g[x - 1], F[x])
    <2> HIDE DEF first
    <2>1. first(x)[x] = IF x = 0 THEN A ELSE Upsert(first(x)[x - 1], F[x])
      <3>1. UpTo(A, F, first(x), x) /\ x \in 0 .. x
        BY <1>1
      <3>2. QED
        BY <3>1 DEF UpTo
    <2>2. ASSUME x # 0
          PROVE  first(x)[x - 1] = first(x - 1)[x - 1]
      <3>1. x - 1 \in Nat /\ x - 1 \in 0 .. x - 1 /\ x - 1 <= x
        BY <2>2
      <3>2. UpTo(A, F, first(x - 1), x - 1) /\ UpTo(A, F, first(x), x)
        BY <1>1, <3>1
      <3>3. QED
        BY <3>1, <3>2, UpToAgree
    <2>3. g[x] = first(x)[x] /\ (x # 0 => g[x - 1] = first(x - 1)[x - 1])
      OBVIOUS
    <2>4. QED
      BY <2>1, <2>2, <2>3
  <1>3. Rows(g)
    <2> HIDE DEF first
    <2>1. g = [x \in Nat |-> g[x]]
      OBVIOUS
    <2> HIDE DEF g
    <2>2. QED
      BY <1>2, <2>1, Zenon
  <1>4. Rows(rows)
    <2> HIDE DEF g
    <2> QED BY <1>3, Zenon
  <1>5. \A k : StoreFirst(A, F, k) = rows[k]
    BY DEF StoreFirst
  <1> HIDE DEF rows
  <1>6. /\ rows[0] = A
        /\ rows[n + 1] = Upsert(rows[n], F[n + 1])
    <2>1. \A x \in Nat : rows[x] = IF x = 0 THEN A ELSE Upsert(rows[x - 1], F[x])
      BY <1>4
    <2>2. n + 1 \in Nat /\ n + 1 # 0 /\ (n + 1) - 1 = n
      OBVIOUS
    <2>3. QED
      BY <2>1, <2>2
  <1>7. QED
    BY <1>5, <1>6

LEMMA StoreType ==
  ASSUME NEW A \in Seq(AlertRow), NEW F \in Seq(Candidate), NEW n \in 0 .. Len(F)
  PROVE  StoreFirst(A, F, n) \in Seq(AlertRow)
  <1> DEFINE Bad == {k \in Nat : k <= Len(F) /\ StoreFirst(A, F, k) \notin Seq(AlertRow)}
             k == Min(Bad)
  <1>1. SUFFICES ASSUME Bad # {} PROVE FALSE
    OBVIOUS
  <1>2. /\ k \in Nat /\ k <= Len(F) /\ StoreFirst(A, F, k) \notin Seq(AlertRow)
        /\ \A y \in Bad : k <= y
    <2> HIDE DEF Bad
    <2>1. k \in Bad /\ \A y \in Bad : k <= y
      BY <1>1, MinOfNat DEF Bad
    <2>2. QED
      BY <2>1 DEF Bad
  <1> HIDE DEF k
  <1>3. k # 0
    BY <1>2, StoreNext
  <1>4. k - 1 \in Nat /\ (k - 1) + 1 = k /\ StoreFirst(A, F, k - 1) \in Seq(AlertRow)
    BY <1>2, <1>3
  <1>5. StoreFirst(A, F, (k - 1) + 1) = Upsert(StoreFirst(A, F, k - 1), F[(k - 1) + 1])
    BY <1>4, StoreNext
  <1>6. F[k] \in Candidate
    BY <1>2, <1>3
  <1>7. QED
    BY <1>2, <1>4, <1>5, <1>6, UpsertType

-----------------------------------------------------------------------------
(* Findings that the table has absorbed *)

Same(a, c) == a.type = c.type /\ a.entity = c.entity

\* Some row covers the finding, and it does not overlap an older one of its thing.
AbsorbedBy(A, c, p) ==
  /\ p \in 1 .. Len(A) /\ Same(A[p], c) /\ A[p].start <= c.start /\ c.end <= A[p].end
  /\ \A q \in 1 .. p - 1 : Same(A[q], c) =>
       A[q].start <= c.end + MergePad /\ A[q].end < c.start - MergePad

Absorbed(A, c) == \E p \in Nat : AbsorbedBy(A, c, p)

\* The rows of AlertRow and the findings of Candidate, as numbers.
LEMMA RowNumbers ==
  ASSUME NEW A \in Seq(AlertRow)
  PROVE  \A n \in 1 .. Len(A) : A[n] \in AlertRow /\ A[n].start \in Nat /\ A[n].end \in Nat
  <1>1. \A n \in 1 .. Len(A) : A[n] \in AlertRow
    OBVIOUS
  <1>2. \A a \in AlertRow : a.start \in Nat /\ a.end \in Nat
    BY DEF AlertRow
  <1>3. QED
    BY <1>1, <1>2

\* A finding that is absorbed changes nothing when it is stored again.
LEMMA AbsorbedIdle ==
  ASSUME NEW A \in Seq(AlertRow), NEW c \in Candidate, c.start <= c.end, Absorbed(A, c)
  PROVE  Upsert(A, c) = A
  <1>1. PICK p \in Nat : AbsorbedBy(A, c, p)
    BY DEF Absorbed
  <1>2. /\ p \in 1 .. Len(A) /\ A[p] \in AlertRow /\ A[p].start \in Nat /\ A[p].end \in Nat
        /\ c.start \in Nat /\ c.end \in Nat
    BY <1>1, RowNumbers DEF AbsorbedBy, Candidate
  <1>3. SameThing(A[p], c)
    BY <1>1, <1>2, PadAssumption DEF AbsorbedBy, Same, SameThing
  <1>4. Hits(A, c) # {}
    BY <1>2, <1>3 DEF Hits
  <1> DEFINE m == Min(Hits(A, c))
  <1>5. m \in 1 .. Len(A) /\ SameThing(A[m], c) /\ m <= p
    BY <1>2, <1>3, <1>4, HitsLeast
  <1>6. Upsert(A, c) = [A EXCEPT ![m] = Grown(A[m], c)]
    BY <1>4, UpsertGrows
  <1> HIDE DEF m
  <1>7. m = p
    <2>1. SUFFICES ASSUME m < p PROVE FALSE
      BY <1>2, <1>5
    <2>2. A[m].end < c.start - MergePad
      BY <1>1, <1>5, <2>1 DEF AbsorbedBy, Same, SameThing
    <2>3. A[m].end \in Nat
      BY <1>5, RowNumbers
    <2>4. QED
      BY <1>2, <1>5, <2>2, <2>3, PadAssumption DEF SameThing
  <1>8. Grown(A[m], c) = A[m]
    BY <1>1, <1>2, <1>7, GrownIs DEF AbsorbedBy
  <1>9. QED
    BY <1>6, <1>8

\* A finding is absorbed when it is stored, if no row of its thing lies behind it.
LEMMA AbsorbedNow ==
  ASSUME NEW A \in Seq(AlertRow), NEW c \in Candidate, c.start <= c.end,
         \A n \in 1 .. Len(A) : A[n].start <= c.end + MergePad
  PROVE  Absorbed(Upsert(A, c), c)
  <1>1. c.start \in Nat /\ c.end \in Nat
    BY DEF Candidate
  <1>2. ASSUME NEW q \in 1 .. Len(A), Same(A[q], c), ~ SameThing(A[q], c)
        PROVE  A[q].end < c.start - MergePad
    BY <1>1, <1>2, RowNumbers, PadAssumption DEF Same, SameThing
  <1>3. CASE Hits(A, c) = {}
    <2> DEFINE B == Append(A, NewRow(c))
    <2>1. Upsert(A, c) = B /\ NewRow(c) \in AlertRow
      BY <1>3, UpsertInserts
    <2>2. /\ Len(A) \in Nat /\ Len(B) = Len(A) + 1 /\ B[Len(A) + 1] = NewRow(c)
          /\ \A q \in 1 .. Len(A) : B[q] = A[q]
      BY <2>1
    <2>3. \A q \in 1 .. Len(A) : ~ SameThing(A[q], c)
      BY <1>3 DEF Hits
    <2> HIDE DEF B
    <2>4. Same(B[Len(A) + 1], c) /\ B[Len(A) + 1].start = c.start /\ B[Len(A) + 1].end = c.end
      BY <2>2 DEF NewRow, Same
    <2>5. AbsorbedBy(B, c, Len(A) + 1)
      BY <1>1, <1>2, <2>2, <2>3, <2>4 DEF AbsorbedBy
    <2>6. QED
      BY <2>1, <2>2, <2>5 DEF Absorbed
  <1>4. CASE Hits(A, c) # {}
    <2> DEFINE m == Min(Hits(A, c))
               B == [A EXCEPT ![m] = Grown(A[m], c)]
    <2>1. Upsert(A, c) = B /\ m \in 1 .. Len(A) /\ SameThing(A[m], c)
          /\ \A q \in 1 .. Len(A) : SameThing(A[q], c) => m <= q
      BY <1>4, UpsertGrows, HitsLeast
    <2> HIDE DEF m
    <2>2. Len(B) = Len(A) /\ B[m] = Grown(A[m], c) /\ \A q \in 1 .. Len(A) : q # m => B[q] = A[q]
      BY <2>1
    <2> HIDE DEF B
    <2>3. Same(B[m], c) /\ B[m].start <= c.start /\ c.end <= B[m].end
      <3>1. A[m] \in AlertRow /\ A[m].start \in Nat /\ A[m].end \in Nat
        BY <2>1, RowNumbers
      <3>2. QED
        BY <1>1, <2>1, <2>2, <3>1, GrownIs DEF Same, SameThing
    <2>4. \A q \in 1 .. m - 1 : q \in 1 .. Len(A) /\ B[q] = A[q] /\ ~ SameThing(A[q], c)
      BY <2>1, <2>2
    <2>5. AbsorbedBy(B, c, m)
      BY <1>2, <2>1, <2>2, <2>3, <2>4 DEF AbsorbedBy
    <2>6. QED
      BY <2>1, <2>5 DEF Absorbed
  <1>5. QED
    BY <1>3, <1>4

\* What the table has absorbed of a thing cannot be undone by a later finding d:
\* one that does not begin before c, or one that repeats a finding b of which
\* as much is known.
Follows(A, c, d) ==
  \/ c.start <= d.start
  \/ \E b \in Candidate : /\ Same(b, d) /\ Absorbed(A, b)
                          /\ b.start <= d.start /\ d.start <= b.end
                          /\ c.start <= b.end + MergePad

LEMMA AbsorbedKept ==
  ASSUME NEW A \in Seq(AlertRow), NEW c \in Candidate, NEW d \in Candidate, d.start <= d.end,
         Absorbed(A, c), Same(c, d) => Follows(A, c, d)
  PROVE  Absorbed(Upsert(A, d), c)
  <1>1. c.start \in Nat /\ c.end \in Nat /\ d.start \in Nat /\ d.end \in Nat
    BY DEF Candidate
  <1>2. PICK p \in Nat : AbsorbedBy(A, c, p)
    BY DEF Absorbed
  <1>3. CASE Hits(A, d) = {}
    <2> DEFINE B == Append(A, NewRow(d))
    <2>1. Upsert(A, d) = B /\ NewRow(d) \in AlertRow
      BY <1>3, UpsertInserts
    <2>2. Len(A) \in Nat /\ Len(B) = Len(A) + 1 /\ \A q \in 1 .. Len(A) : B[q] = A[q]
      BY <2>1
    <2> HIDE DEF B
    <2>3. p \in 1 .. Len(A) /\ \A q \in 1 .. p - 1 : q \in 1 .. Len(A)
      BY <1>2 DEF AbsorbedBy
    <2>4. AbsorbedBy(B, c, p)
      BY <1>2, <2>2, <2>3 DEF AbsorbedBy
    <2>5. QED
      BY <2>1, <2>4 DEF Absorbed
  <1>4. CASE Hits(A, d) # {}
    <2> DEFINE m == Min(Hits(A, d))
               B == [A EXCEPT ![m] = Grown(A[m], d)]
    <2>1. Upsert(A, d) = B /\ m \in 1 .. Len(A) /\ SameThing(A[m], d)
          /\ \A q \in 1 .. Len(A) : SameThing(A[q], d) => m <= q
      BY <1>4, UpsertGrows, HitsLeast
    <2> HIDE DEF m
    <2>2. Len(B) = Len(A) /\ B[m] = Grown(A[m], d) /\ \A q \in 1 .. Len(A) : q # m => B[q] = A[q]
      BY <2>1
    <2> HIDE DEF B
    <2>3. A[m] \in AlertRow /\ A[m].start \in Nat /\ A[m].end \in Nat
      BY <2>1, RowNumbers
    <2>4. /\ B[m].type = A[m].type /\ B[m].entity = A[m].entity
          /\ B[m].start <= A[m].start /\ A[m].end <= B[m].end
          /\ B[m].start \in Nat /\ B[m].end \in Nat
      <3>1. Grown(A[m], d) \in AlertRow
        BY <2>3, GrownIs
      <3>2. Grown(A[m], d).start \in Nat /\ Grown(A[m], d).end \in Nat
        BY <3>1 DEF AlertRow
      <3>3. /\ Grown(A[m], d).type = A[m].type /\ Grown(A[m], d).entity = A[m].entity
            /\ Grown(A[m], d).start <= A[m].start /\ A[m].end <= Grown(A[m], d).end
        BY <1>1, <2>3, GrownIs, SMTT(60)
      <3>4. QED
        BY <2>2, <3>2, <3>3
    <2>5. p \in 1 .. Len(A) /\ p \in Nat /\ \A q \in 1 .. p - 1 : q \in 1 .. Len(A)
      BY <1>2 DEF AbsorbedBy
    <2>6. ~ (m < p /\ Same(A[m], c))
      <3>1. SUFFICES ASSUME m < p, Same(A[m], c) PROVE FALSE
        OBVIOUS
      <3>2. A[m].end < c.start - MergePad
        BY <1>2, <2>1, <3>1 DEF AbsorbedBy
      <3>3. Same(c, d) /\ A[m].end >= d.start - MergePad
        BY <2>1, <3>1 DEF Same, SameThing
      <3>4. ~ (c.start <= d.start)
        BY <1>1, <2>3, <3>2, <3>3, PadAssumption
      <3>5. PICK b \in Candidate : /\ Same(b, d) /\ Absorbed(A, b)
                                   /\ b.start <= d.start /\ d.start <= b.end
                                   /\ c.start <= b.end + MergePad
        BY <3>3, <3>4 DEF Follows
      <3>6. PICK r \in Nat : AbsorbedBy(A, b, r)
        BY <3>5 DEF Absorbed
      <3>7. b.start \in Nat /\ b.end \in Nat /\ r \in 1 .. Len(A)
            /\ A[r].start \in Nat /\ A[r].end \in Nat
        BY <3>6, RowNumbers DEF AbsorbedBy, Candidate
      <3>8. SameThing(A[r], d)
        <4>1. Same(A[r], d)
          BY <3>5, <3>6 DEF AbsorbedBy, Same
        <4>2. A[r].start <= b.start /\ b.end <= A[r].end
          BY <3>6 DEF AbsorbedBy
        <4>3. QED
          BY <1>1, <3>5, <3>7, <4>1, <4>2, PadAssumption, SMTT(60) DEF Same, SameThing
      <3>9. m <= r
        BY <2>1, <3>7, <3>8
      <3>10. m = r
        <4>1. SUFFICES ASSUME m < r PROVE FALSE
          BY <2>1, <3>7, <3>9
        <4>2. Same(A[m], b)
          BY <2>1, <3>5 DEF Same, SameThing
        <4>3. A[m].end < b.start - MergePad
          BY <2>1, <3>6, <4>1, <4>2 DEF AbsorbedBy
        <4>4. QED
          BY <1>1, <2>3, <3>3, <3>5, <3>7, <4>3, PadAssumption, SMTT(60)
      <3>11. b.end <= A[m].end
        BY <3>6, <3>10 DEF AbsorbedBy
      <3>12. QED
        BY <1>1, <2>3, <3>2, <3>5, <3>7, <3>11, PadAssumption, SMTT(60)
    <2>7. \A q \in 1 .. p - 1 : Same(B[q], c) =>
             B[q].start <= c.end + MergePad /\ B[q].end < c.start - MergePad
      <3>1. SUFFICES ASSUME NEW q \in 1 .. p - 1, Same(B[q], c)
                     PROVE  B[q].start <= c.end + MergePad /\ B[q].end < c.start - MergePad
        OBVIOUS
      <3>2. q # m
        BY <2>4, <2>5, <2>6, <3>1 DEF Same
      <3>3. B[q] = A[q]
        BY <2>2, <2>5, <3>2
      <3>4. QED
        BY <1>2, <3>1, <3>3 DEF AbsorbedBy
    <2>8. Same(B[p], c) /\ B[p].start <= c.start /\ c.end <= B[p].end
      <3>1. CASE p = m
        BY <1>1, <1>2, <2>3, <2>4, <3>1, SMTT(60) DEF AbsorbedBy, Same
      <3>2. CASE p # m
        BY <1>2, <2>2, <2>5, <3>2 DEF AbsorbedBy
      <3>3. QED
        BY <3>1, <3>2
    <2>9. AbsorbedBy(B, c, p)
      BY <2>2, <2>5, <2>7, <2>8 DEF AbsorbedBy
    <2>10. QED
      BY <2>1, <2>9 DEF Absorbed
  <1>5. QED
    BY <1>3, <1>4

-----------------------------------------------------------------------------
(* The findings of one window after another *)

StartBy(A, b) == \A n \in 1 .. Len(A) : A[n].start <= b

LEMMA UpsertStarts ==
  ASSUME NEW A \in Seq(AlertRow), NEW c \in Candidate, NEW b \in Nat, StartBy(A, b), c.start <= b
  PROVE  StartBy(Upsert(A, c), b)
  <1>1. CASE Hits(A, c) = {}
    <2>1. Upsert(A, c) = Append(A, NewRow(c)) /\ NewRow(c) \in AlertRow
      BY <1>1, UpsertInserts
    <2>2. NewRow(c).start = c.start
      BY DEF NewRow
    <2>3. QED
      BY <2>1, <2>2 DEF StartBy
  <1>2. CASE Hits(A, c) # {}
    <2> DEFINE m == Min(Hits(A, c))
    <2>1. m \in 1 .. Len(A) /\ Upsert(A, c) = [A EXCEPT ![m] = Grown(A[m], c)]
      BY <1>2, HitsLeast, UpsertGrows
    <2> HIDE DEF m
    <2>2. Grown(A[m], c).start = IF A[m].start <= c.start THEN A[m].start ELSE c.start
      BY <2>1, RowNumbers, GrownIs
    <2>3. Grown(A[m], c).start <= b
      BY <2>1, <2>2 DEF StartBy
    <2>4. QED
      BY <2>1, <2>3 DEF StartBy
  <1>3. QED
    BY <1>1, <1>2

\* The findings of a window, by the order of their start.
Timely(F) ==
  /\ F \in Seq(Candidate)
  /\ \A n \in 1 .. Len(F) : F[n].start <= F[n].end
  /\ \A m, n \in 1 .. Len(F) : m < n => F[m].start <= F[n].start

\* What was found before in P, and is in the table, can be found again later only
\* from its beginning on.
Continues(P, F) ==
  \A c \in P : \A n \in 1 .. Len(F) : Same(c, F[n]) =>
    \/ c.start <= F[n].start
    \/ \E b \in P : /\ Same(b, F[n]) /\ b.start <= F[n].start /\ F[n].start <= b.end
                    /\ c.start <= b.end + MergePad

\* After the first k findings of the window.
WindowInv(A, P, F, k) ==
  LET B == StoreFirst(A, F, k)
  IN /\ B \in Seq(AlertRow)
     /\ \A c \in P : Absorbed(B, c)
     /\ \A n \in 1 .. k : Absorbed(B, F[n])
     /\ \A n \in k + 1 .. Len(F) : StartBy(B, F[n].start + MergePad)
     /\ \A b \in Nat : StartBy(A, b) /\ (\A n \in 1 .. Len(F) : F[n].start <= b) => StartBy(B, b)

LEMMA WindowInvNext ==
  ASSUME NEW A, NEW P \in SUBSET Candidate, NEW F, Timely(F), Continues(P, F),
         NEW k \in Nat, k + 1 <= Len(F), WindowInv(A, P, F, k)
  PROVE  WindowInv(A, P, F, k + 1)
  <1> DEFINE B == StoreFirst(A, F, k)
             d == F[k + 1]
             C == StoreFirst(A, F, k + 1)
  <1>1. C = Upsert(B, d)
    BY StoreNext
  <1>2. k + 1 \in 1 .. Len(F) /\ d \in Candidate /\ d.start <= d.end
    BY DEF Timely
  <1>3. B \in Seq(AlertRow) /\ StartBy(B, d.start + MergePad)
    BY <1>2 DEF WindowInv
  <1>4. d.start \in Nat /\ d.end \in Nat
    BY <1>2 DEF Candidate
  <1>5. C \in Seq(AlertRow)
    BY <1>1, <1>2, <1>3, UpsertType
  <1>6. Absorbed(C, d)
    <2>1. \A n \in 1 .. Len(B) : B[n].start <= d.end + MergePad
      BY <1>2, <1>3, <1>4, RowNumbers, PadAssumption, SMTT(60) DEF StartBy
    <2> HIDE DEF B, C, d
    <2>2. QED
      BY <1>1, <1>2, <1>3, <2>1, AbsorbedNow
  <1>7. ASSUME NEW c \in P
        PROVE  Absorbed(C, c)
    <2>1. Absorbed(B, c) /\ c \in Candidate
      BY DEF WindowInv
    <2>2. Same(c, d) => Follows(B, c, d)
      <3>1. SUFFICES ASSUME Same(c, d), ~ (c.start <= d.start) PROVE Follows(B, c, d)
        BY DEF Follows
      <3>2. PICK b \in P : /\ Same(b, d) /\ b.start <= d.start /\ d.start <= b.end
                           /\ c.start <= b.end + MergePad
        BY <1>2, <3>1 DEF Continues
      <3>3. Absorbed(B, b)
        BY DEF WindowInv
      <3>4. QED
        BY <3>2, <3>3 DEF Follows
    <2> HIDE DEF B, C, d
    <2>3. QED
      BY <1>1, <1>2, <1>3, <2>1, <2>2, AbsorbedKept
  <1>8. ASSUME NEW n \in 1 .. k + 1
        PROVE  Absorbed(C, F[n])
    <2>1. CASE n = k + 1
      BY <1>6, <2>1
    <2>2. CASE n # k + 1
      <3>1. n \in 1 .. k /\ n \in 1 .. Len(F) /\ n < k + 1
        BY <1>2, <2>2
      <3>2. Absorbed(B, F[n]) /\ F[n] \in Candidate /\ F[n].start <= d.start
        BY <1>2, <3>1 DEF WindowInv, Timely
      <3>3. Follows(B, F[n], d)
        BY <3>2 DEF Follows
      <3> DEFINE c == F[n]
      <3> HIDE DEF B, C, d, c
      <3>4. QED
        BY <1>1, <1>2, <1>3, <3>2, <3>3, AbsorbedKept DEF c
    <2>3. QED
      BY <2>1, <2>2
  <1>9. ASSUME NEW n \in k + 2 .. Len(F)
        PROVE  StartBy(C, F[n].start + MergePad)
    <2>1. n \in k + 1 .. Len(F) /\ n \in 1 .. Len(F) /\ k + 1 < n
      OBVIOUS
    <2>2. StartBy(B, F[n].start + MergePad) /\ F[n] \in Candidate /\ d.start <= F[n].start
      BY <1>2, <2>1 DEF WindowInv, Timely
    <2>3. F[n].start \in Nat
      BY <2>2 DEF Candidate
    <2>4. F[n].start + MergePad \in Nat /\ d.start <= F[n].start + MergePad
      BY <1>4, <2>2, <2>3, PadAssumption, SMTT(60)
    <2> HIDE DEF B, C, d
    <2>5. QED
      BY <1>1, <1>2, <1>3, <2>2, <2>4, UpsertStarts
  <1>10. ASSUME NEW b \in Nat, StartBy(A, b), \A n \in 1 .. Len(F) : F[n].start <= b
         PROVE  StartBy(C, b)
    <2>1. StartBy(B, b) /\ d.start <= b
      BY <1>2, <1>10 DEF WindowInv
    <2> HIDE DEF B, C, d
    <2>2. QED
      BY <1>1, <1>2, <1>3, <2>1, UpsertStarts
  <1>11. (k + 1) + 1 = k + 2
    OBVIOUS
  <1> HIDE DEF B, d
  <1>12. QED
    BY <1>5, <1>7, <1>8, <1>9, <1>10, <1>11 DEF WindowInv

LEMMA WindowAbsorbed ==
  ASSUME NEW A \in Seq(AlertRow), NEW P \in SUBSET Candidate, NEW F, Timely(F), Continues(P, F),
         \A c \in P : Absorbed(A, c),
         \A n \in 1 .. Len(F) : StartBy(A, F[n].start + MergePad),
         NEW k \in 0 .. Len(F)
  PROVE  WindowInv(A, P, F, k)
  <1> DEFINE Bad == {j \in Nat : j <= Len(F) /\ ~ WindowInv(A, P, F, j)}
             j == Min(Bad)
  <1>0. Len(F) \in Nat
    BY DEF Timely
  <1>1. SUFFICES ASSUME Bad # {} PROVE FALSE
    BY <1>0
  <1>2. j \in Nat /\ j <= Len(F) /\ ~ WindowInv(A, P, F, j) /\ \A y \in Bad : j <= y
    <2> HIDE DEF Bad
    <2>1. j \in Bad /\ \A y \in Bad : j <= y
      BY <1>1, MinOfNat DEF Bad
    <2>2. QED
      BY <2>1 DEF Bad
  <1> HIDE DEF j
  <1>3. WindowInv(A, P, F, 0)
    <2>1. StoreFirst(A, F, 0) = A
      BY StoreNext
    <2>2. QED
      BY <2>1 DEF WindowInv
  <1>4. j # 0
    BY <1>2, <1>3
  <1>5. j - 1 \in Nat /\ (j - 1) + 1 = j /\ (j - 1) + 1 <= Len(F) /\ WindowInv(A, P, F, j - 1)
    BY <1>0, <1>2, <1>4
  <1>6. QED
    BY <1>2, <1>5, WindowInvNext

\* A window whose findings are all absorbed leaves the table as it is.
LEMMA StoreIdle ==
  ASSUME NEW A \in Seq(AlertRow), NEW F, Timely(F), NEW k \in 0 .. Len(F),
         \A n \in 1 .. k : Absorbed(A, F[n])
  PROVE  StoreFirst(A, F, k) = A
  <1> DEFINE Bad == {j \in Nat : j <= k /\ StoreFirst(A, F, j) # A}
             j == Min(Bad)
  <1>0. Len(F) \in Nat /\ k \in Nat /\ k <= Len(F)
    BY DEF Timely
  <1>1. SUFFICES ASSUME Bad # {} PROVE FALSE
    BY <1>0
  <1>2. j \in Nat /\ j <= k /\ StoreFirst(A, F, j) # A /\ \A y \in Bad : j <= y
    <2> HIDE DEF Bad
    <2>1. j \in Bad /\ \A y \in Bad : j <= y
      BY <1>1, MinOfNat DEF Bad
    <2>2. QED
      BY <2>1 DEF Bad
  <1> HIDE DEF j
  <1>3. j # 0
    BY <1>2, StoreNext
  <1>4. j - 1 \in Nat /\ (j - 1) + 1 = j /\ StoreFirst(A, F, j - 1) = A /\ j \in 1 .. Len(F)
        /\ j \in 1 .. k
    BY <1>0, <1>2, <1>3
  <1>5. StoreFirst(A, F, (j - 1) + 1) = Upsert(StoreFirst(A, F, j - 1), F[(j - 1) + 1])
    BY <1>4, StoreNext
  <1>6. StoreFirst(A, F, j) = Upsert(A, F[j])
    BY <1>4, <1>5
  <1>7. F[j] \in Candidate /\ F[j].start <= F[j].end /\ Absorbed(A, F[j])
    BY <1>4 DEF Timely
  <1>8. QED
    BY <1>2, <1>6, <1>7, AbsorbedIdle

\* Storing the findings of a window again, after some of them, gets as far.
LEMMA StoreResumed ==
  ASSUME NEW A, NEW F, Timely(F), NEW n \in 0 .. Len(F), NEW B \in Seq(AlertRow),
         B = StoreFirst(A, F, n), \A i \in 1 .. n : Absorbed(B, F[i]), NEW k \in 0 .. Len(F)
  PROVE  StoreFirst(B, F, k) = StoreFirst(A, F, IF k <= n THEN n ELSE k)
  <1> DEFINE Bad == {j \in Nat : n <= j /\ j <= Len(F) /\ StoreFirst(B, F, j) # StoreFirst(A, F, j)}
             j == Min(Bad)
  <1>0. Len(F) \in Nat /\ n \in Nat /\ n <= Len(F) /\ k \in Nat /\ k <= Len(F)
    BY DEF Timely
  <1>1. ASSUME NEW i \in 0 .. n
        PROVE  StoreFirst(B, F, i) = B
    <2>1. i \in 0 .. Len(F) /\ \A x \in 1 .. i : x \in 1 .. n
      BY <1>0
    <2>2. QED
      BY <2>1, StoreIdle
  <1>2. ASSUME Bad # {}
        PROVE  FALSE
    <2>1. /\ j \in Nat /\ n <= j /\ j <= Len(F) /\ StoreFirst(B, F, j) # StoreFirst(A, F, j)
          /\ \A y \in Bad : j <= y
      <3> HIDE DEF Bad
      <3>1. j \in Bad /\ \A y \in Bad : j <= y
        BY <1>2, MinOfNat DEF Bad
      <3>2. QED
        BY <3>1 DEF Bad
    <2> HIDE DEF j
    <2>2. n \in 0 .. n /\ StoreFirst(B, F, n) = B
      BY <1>0, <1>1
    <2>3. j # n
      BY <2>1, <2>2
    <2>4. /\ j - 1 \in Nat /\ (j - 1) + 1 = j
          /\ StoreFirst(B, F, j - 1) = StoreFirst(A, F, j - 1)
      BY <1>0, <2>1, <2>3
    <2>5. \A X : \A i \in Nat : StoreFirst(X, F, i + 1) = Upsert(StoreFirst(X, F, i), F[i + 1])
      BY StoreNext
    <2>6. StoreFirst(B, F, j) = StoreFirst(A, F, j)
      <3> HIDE DEF Bad
      <3>1. StoreFirst(B, F, (j - 1) + 1) = StoreFirst(A, F, (j - 1) + 1)
        BY <2>4, <2>5
      <3>2. QED
        BY <2>4, <3>1
    <2>7. QED
      BY <2>1, <2>6
  <1>3. CASE k <= n
    BY <1>0, <1>1, <1>3
  <1>4. CASE ~ (k <= n)
    BY <1>0, <1>2, <1>4
  <1>5. QED
    BY <1>3, <1>4

-----------------------------------------------------------------------------
(* What overlapping windows find *)

LEMMA FindingTimes ==
  ASSUME NEW S \in EventSets, S # {}, NEW type, NEW entity, NEW user, NEW ip,
         NEW c, c = Finding(type, entity, user, ip, S)
  PROVE  /\ c.type = type /\ c.entity = entity
         /\ \E e \in S : e.ts = c.start
         /\ \E e \in S : e.ts = c.end
         /\ \A e \in S : c.start <= e.ts /\ e.ts <= c.end
  <1> DEFINE T == {e.ts : e \in S}
  <1>1. T \in SUBSET Nat /\ T # {}
    BY DEF EventSets, Event
  <1>2. Min(T) \in T /\ \A x \in T : Min(T) <= x
    <2> HIDE DEF T
    <2> QED BY <1>1, MinOfNat
  <1>3. IsFiniteSet(T)
    <2>1. IsFiniteSet(S) /\ [e \in S |-> e.ts] \in Surjection(S, T)
      BY DEF Surjection, EventSets
    <2> HIDE DEF T
    <2>2. QED
      BY <2>1, FS_Surjection
  <1>4. Max(T) \in T /\ \A x \in T : x <= Max(T)
    <2> HIDE DEF T
    <2>1. PICK n \in Nat : \A x \in T : x <= n
      BY <1>1, <1>3, FiniteBounded
    <2>2. QED
      BY <1>1, <2>1, MaxOfNat
  <1>5. c.start = Min(T) /\ c.end = Max(T) /\ c.type = type /\ c.entity = entity
    BY DEF Finding
  <1>6. \A e \in S : e.ts \in T
    OBVIOUS
  <1>7. \A x \in T : \E e \in S : e.ts = x
    OBVIOUS
  <1> HIDE DEF T
  <1>8. QED
    BY <1>2, <1>4, <1>5, <1>6, <1>7

\* The events that count for an entity, by the five detectors without baselines
Counts(type, k, e) ==
  \/ /\ type = "credential_stuffing"
     /\ e.status = "failure" /\ e.ip = k /\ e.type \in {"console_login", "ssh_login"}
  \/ /\ type = "privilege_escalation"
     /\ e.type = "permission_change" /\ e.status = "success"
     /\ e.user = k /\ e.target = k /\ e.elevated
  \/ /\ type = "lateral_movement"
     /\ e.type = "ssh_login" /\ e.status = "success" /\ e.user = k /\ e.host # NoHost
  \/ /\ type = "data_exfiltration"
     /\ e.type = "data_transfer" /\ e.user = k
  \/ /\ type = "sensitive_data_exposure"
     /\ e.leaks # {} /\ ExposureKey(e) = k

RuleTypes ==
  {"credential_stuffing", "privilege_escalation", "lateral_movement", "data_exfiltration",
   "sensitive_data_exposure"}

\* A finding of theirs begins with the first event that counts.
Spans(c, S) ==
  /\ c.type \in RuleTypes
  /\ \E e \in S : Counts(c.type, c.entity, e) /\ e.ts = c.start
  /\ \E e \in S : Counts(c.type, c.entity, e) /\ e.ts = c.end
  /\ \A e \in S : Counts(c.type, c.entity, e) => c.start <= e.ts /\ e.ts <= c.end

LEMMA SpanOf ==
  ASSUME NEW S \in EventSets, NEW type \in RuleTypes, NEW k, NEW user, NEW ip,
         NEW T, T = {e \in S : Counts(type, k, e)}, T # {},
         NEW c, c = Finding(type, k, user, ip, T)
  PROVE  Spans(c, S)
  <1>1. T \in EventSets
    BY EventSubset
  <1>2. \A X \in EventSets : X # {} =>
          \A x : x = Finding(type, k, user, ip, X) =>
            /\ x.type = type /\ x.entity = k
            /\ \E e \in X : e.ts = x.start
            /\ \E e \in X : e.ts = x.end
            /\ \A e \in X : x.start <= e.ts /\ e.ts <= x.end
    BY FindingTimes
  <1>3. \A e : Counts(c.type, c.entity, e) <=> Counts(type, k, e)
    BY <1>1, <1>2
  <1>4. \A e : e \in T <=> e \in S /\ Counts(c.type, c.entity, e)
    BY <1>3
  <1>5. /\ c.type \in RuleTypes
        /\ \E e \in T : e.ts = c.start
        /\ \E e \in T : e.ts = c.end
        /\ \A e \in T : c.start <= e.ts /\ e.ts <= c.end
    BY <1>1, <1>2
  <1>6. QED
    BY <1>4, <1>5 DEF Spans

LEMMA StuffingSpans ==
  ASSUME NEW S \in EventSets, NEW c \in CredentialStuffing(S)
  PROVE  Spans(c, S)
  <1> DEFINE Fails(ip) == {e \in S : /\ e.status = "failure" /\ e.ip = ip
                                     /\ e.type \in {"console_login", "ssh_login"}}
             U == {p \in IPs : /\ Cardinality(Fails(p)) >= StuffingFailures
                               /\ Cardinality({e.user : e \in Fails(p)}) >= StuffingMinUsers}
  <1>1. PICK k \in U : c = Finding("credential_stuffing", k, NoUser, k, Fails(k))
    BY DEF CredentialStuffing
  <1>2. Fails(k) # {}
    <2>1. Cardinality(Fails(k)) >= StuffingFailures /\ StuffingFailures \in Nat \ {0}
          /\ Cardinality({}) = 0
      BY ThresholdAssumption, FS_EmptySet
    <2> HIDE DEF Fails
    <2>2. QED
      BY <2>1
  <1>3. Fails(k) = {e \in S : Counts("credential_stuffing", k, e)}
    BY DEF Counts
  <1> HIDE DEF Fails, U
  <1>4. QED
    BY <1>1, <1>2, <1>3, SpanOf DEF RuleTypes

LEMMA PrivilegeSpans ==
  ASSUME NEW S \in EventSets, NEW c \in PrivilegeEscalation(S)
  PROVE  Spans(c, S)
  <1> DEFINE Grants(u) == {e \in S : /\ e.type = "permission_change" /\ e.status = "success"
                                     /\ e.user = u /\ e.target = u /\ e.elevated}
  <1>1. PICK k \in {v \in Users \cup {NoUser} : Grants(v) # {}} :
          c = Finding("privilege_escalation", k, k, Earliest(Grants(k)).ip, Grants(k))
    BY DEF PrivilegeEscalation
  <1>2. Grants(k) # {} /\ Grants(k) = {e \in S : Counts("privilege_escalation", k, e)}
    BY DEF Counts
  <1> HIDE DEF Grants
  <1>3. QED
    BY <1>1, <1>2, SpanOf DEF RuleTypes

LEMMA LateralSpans ==
  ASSUME NEW S \in EventSets, NEW c \in LateralMovement(S)
  PROVE  Spans(c, S)
  <1> DEFINE Hops(u) == {e \in S : /\ e.type = "ssh_login" /\ e.status = "success"
                                   /\ e.user = u /\ e.host # NoHost}
             U == {v \in Users : Cardinality({e.host : e \in Hops(v)}) >= LateralDistinctHosts}
  <1>1. PICK k \in U : c = Finding("lateral_movement", k, k, Earliest(Hops(k)).ip, Hops(k))
    BY DEF LateralMovement
  <1>2. ASSUME Hops(k) = {}
        PROVE  FALSE
    <2>1. /\ Cardinality({e.host : e \in Hops(k)}) >= LateralDistinctHosts
          /\ LateralDistinctHosts \in Nat \ {0} /\ Cardinality({}) = 0
      BY ThresholdAssumption, FS_EmptySet
    <2> HIDE DEF Hops
    <2>2. {e.host : e \in Hops(k)} = {}
      BY <1>2
    <2>3. QED
      BY <2>1, <2>2
  <1>3. Hops(k) = {e \in S : Counts("lateral_movement", k, e)}
    BY DEF Counts
  <1> HIDE DEF Hops, U
  <1>4. QED
    BY <1>1, <1>2, <1>3, SpanOf DEF RuleTypes

LEMMA ExfiltrationSpans ==
  ASSUME NEW S \in EventSets, NEW c \in DataExfiltration(S)
  PROVE  Spans(c, S)
  <1> DEFINE Transfers(u) == {e \in S : e.type = "data_transfer" /\ e.user = u}
             Volume(u) == MapThenSumSet(LAMBDA e : e.bytes, Transfers(u))
             Found(u) == Finding("data_exfiltration", u, u, Earliest(Transfers(u)).ip, Transfers(u))
  <1>1. \E u \in {v \in Users : Volume(v) >= ExfilBytes} : c = Found(u)
    BY DEF DataExfiltration
  <1>2. ASSUME NEW k, Volume(k) >= ExfilBytes
        PROVE  Transfers(k) # {}
    <2>1. SUFFICES ASSUME Transfers(k) = {} PROVE FALSE
      OBVIOUS
    <2>2. Volume(k) = 0
      <3> HIDE DEF Transfers
      <3> QED BY <2>1, NoBytes
    <2>3. ExfilBytes \in Nat \ {0}
      BY ThresholdAssumption
    <2> HIDE DEF Volume
    <2>4. QED
      BY <1>2, <2>2, <2>3
  <1>3. ASSUME NEW k
        PROVE  Transfers(k) = {e \in S : Counts("data_exfiltration", k, e)}
    BY DEF Counts
  <1> HIDE DEF Volume
  <1>4. PICK k : Volume(k) >= ExfilBytes /\ c = Found(k)
    BY <1>1
  <1>5. Transfers(k) # {}
    BY <1>2, <1>4
  <1>6. c = Finding("data_exfiltration", k, k, Earliest(Transfers(k)).ip, Transfers(k))
    BY <1>4
  <1> HIDE DEF Transfers, Found
  <1>7. QED
    BY <1>3, <1>5, <1>6, SpanOf DEF RuleTypes

LEMMA ExposureSpans ==
  ASSUME NEW S \in EventSets, NEW c \in SensitiveDataExposure(S)
  PROVE  Spans(c, S)
  <1> DEFINE Leaking == {e \in S : e.leaks # {}}
             LeaksOf(k) == {e \in Leaking : ExposureKey(e) = k}
  <1>1. PICK k \in {ExposureKey(e) : e \in Leaking} :
          c = Finding("sensitive_data_exposure", k, Earliest(LeaksOf(k)).user,
                      Earliest(LeaksOf(k)).ip, LeaksOf(k))
    BY DEF SensitiveDataExposure
  <1>2. LeaksOf(k) # {} /\ LeaksOf(k) = {e \in S : Counts("sensitive_data_exposure", k, e)}
    BY DEF Counts
  <1> HIDE DEF LeaksOf
  <1>3. QED
    BY <1>1, <1>2, SpanOf DEF RuleTypes

LEMMA RuleSpans ==
  ASSUME NEW S \in EventSets, NEW c \in RuleFindings(S)
  PROVE  Spans(c, S)
  BY StuffingSpans, PrivilegeSpans, LateralSpans, ExfiltrationSpans, ExposureSpans
     DEF RuleFindings

\* A longer history knows more: more origins, and no hour that was known is quiet.
LEMMA HistoryGrows ==
  ASSUME NEW A \in EventSets, NEW B \in EventSets, A \subseteq B, NEW u \in Users
  PROVE  /\ BaselineOf(A)[u].ips \subseteq BaselineOf(B)[u].ips
         /\ \A h \in HourOfDay : BaselineOf(B)[u].hours[h] = 0 => BaselineOf(A)[u].hours[h] = 0
  <1> DEFINE AtHour(S, h) == {e \in Feeding(S, u) : HourOf(e.ts) = h}
  <1>1. Feeding(A, u) \subseteq Feeding(B, u) /\ Feeding(B, u) \in EventSets
    <2>1. Feeding(A, u) \subseteq Feeding(B, u) /\ Feeding(B, u) \in SUBSET B
      BY DEF Feeding
    <2>2. QED
      BY <2>1, EventSubset
  <1>2. ASSUME NEW S
        PROVE  /\ BaselineOf(S)[u].ips = {e.ip : e \in Feeding(S, u)} \ {NoIP}
               /\ \A h \in HourOfDay : BaselineOf(S)[u].hours[h] = 0 + Cardinality(AtHour(S, h))
    <2>1. BaselineOf(S)[u] = Merge(NoBaseline, NoBaseline, Feeding(S, u))
      BY DEF BaselineOf, Learn, EmptyBaselines
    <2>2. QED
      BY <2>1 DEF Merge, NoBaseline
  <1>3. ASSUME NEW h \in HourOfDay, BaselineOf(B)[u].hours[h] = 0
        PROVE  BaselineOf(A)[u].hours[h] = 0
    <2>1. AtHour(A, h) \subseteq AtHour(B, h)
      BY <1>1
    <2>2. IsFiniteSet(AtHour(B, h)) /\ Cardinality(AtHour(B, h)) \in Nat
      BY <1>1, CountType
    <2>3. Cardinality(AtHour(B, h)) = 0
      <3>1. BaselineOf(B)[u].hours[h] = 0 + Cardinality(AtHour(B, h))
        BY <1>2
      <3> HIDE DEF AtHour
      <3>2. QED
        BY <1>3, <2>2, <3>1
    <2>4. AtHour(B, h) = {}
      <3> HIDE DEF AtHour
      <3> QED BY <2>2, <2>3, FS_EmptySet
    <2>5. AtHour(A, h) = {}
      BY <2>1, <2>4
    <2>6. Cardinality(AtHour(A, h)) = 0
      <3> HIDE DEF AtHour
      <3> QED BY <2>5, FS_EmptySet
    <2>7. BaselineOf(A)[u].hours[h] = 0 + Cardinality(AtHour(A, h))
      BY <1>2
    <2> HIDE DEF AtHour
    <2>8. QED
      BY <2>6, <2>7
  <1>4. BaselineOf(A)[u].ips \subseteq BaselineOf(B)[u].ips
    BY <1>1, <1>2
  <1>5. QED
    BY <1>3, <1>4

NewOriginOf(S, bl, u, ip) ==
  {e \in S : /\ e.type = "console_login" /\ e.status = "success" /\ e.user = u /\ e.ip = ip
             /\ bl[u].logins >= IdentityMinLogins /\ ip \notin bl[u].ips}

\* An anomaly covers the logins of a user from one new origin.
LEMMA AnomalySpans ==
  ASSUME NEW S \in EventSets, NEW bl, NEW c
  PROVE  c \in IdentityAnomaly(S, bl) <=>
           \E u \in Users, ip \in IPs :
             /\ NewOriginOf(S, bl, u, ip) # {}
             /\ c = Finding("identity_anomaly", u, u, ip, NewOriginOf(S, bl, u, ip))
  <1> DEFINE Found(u, ip) == Finding("identity_anomaly", u, u, ip, NewOriginOf(S, bl, u, ip))
  <1>1. IdentityAnomaly(S, bl) =
          {Found(k[1], k[2]) : k \in {k \in Users \X IPs : NewOriginOf(S, bl, k[1], k[2]) # {}}}
    BY DEF IdentityAnomaly, NewOriginOf
  <1> HIDE DEF Found
  <1>2. ASSUME NEW u \in Users, NEW ip \in IPs, NewOriginOf(S, bl, u, ip) # {}, c = Found(u, ip)
        PROVE  c \in IdentityAnomaly(S, bl)
    <2>1. <<u, ip>> \in Users \X IPs /\ <<u, ip>>[1] = u /\ <<u, ip>>[2] = ip
      OBVIOUS
    <2>2. QED
      BY <1>1, <1>2, <2>1
  <1>3. ASSUME c \in IdentityAnomaly(S, bl)
        PROVE  \E u \in Users, ip \in IPs : NewOriginOf(S, bl, u, ip) # {} /\ c = Found(u, ip)
    BY <1>1, <1>3
  <1>4. QED
    BY <1>2, <1>3 DEF Found

MatureOf(bl, u) ==
  bl[u].events >= OffHoursMinEvents /\ Cardinality(bl[u].days) >= OffHoursMinDays

QuietOf(bl, u, h) == \A d \in -2 .. 2 : bl[u].hours[(h + d + 24) % 24] = 0

OddOf(S, bl, u) == {e \in Feeding(S, u) : MatureOf(bl, u) /\ QuietOf(bl, u, HourOf(e.ts))}

\* An access at an odd hour covers those of the user in the window.
LEMMA OffHoursSpans ==
  ASSUME NEW S \in EventSets, NEW bl, NEW c \in OffHoursAccess(S, bl)
  PROVE  \E u \in Users :
           /\ OddOf(S, bl, u) # {}
           /\ c = Finding("off_hours_access", u, u, Earliest(OddOf(S, bl, u)).ip, OddOf(S, bl, u))
  <1> DEFINE Found(u) ==
               Finding("off_hours_access", u, u, Earliest(OddOf(S, bl, u)).ip, OddOf(S, bl, u))
  <1>1. OffHoursAccess(S, bl) = {Found(u) : u \in {v \in Users : OddOf(S, bl, v) # {}}}
    BY DEF OffHoursAccess, OddOf, MatureOf, QuietOf
  <1> HIDE DEF Found
  <1>2. PICK u \in Users : OddOf(S, bl, u) # {} /\ c = Found(u)
    BY <1>1
  <1>3. QED
    BY <1>2 DEF Found

\* The findings of a window begin and end in it.
LEMMA FindingInWindow ==
  ASSUME NEW L \in EventSets, NEW t, NEW bl, NEW c \in Findings(WindowEvents(L, t), bl)
  PROVE  /\ c \in Candidate /\ c.start <= c.end
         /\ \E e \in WindowEvents(L, t) : e.ts = c.start
         /\ \E e \in WindowEvents(L, t) : e.ts = c.end
  <1> DEFINE S == WindowEvents(L, t)
  <1>1. S \in EventSets
    <2>1. S \in SUBSET L
      BY DEF WindowEvents
    <2>2. QED
      BY <2>1, EventSubset
  <1>2. c \in Candidate
    BY <1>1, FindingsType
  <1> HIDE DEF S
  <1>3. (\E e \in S : e.ts = c.start) /\ (\E e \in S : e.ts = c.end) /\ c.start <= c.end
    <2>1. ASSUME NEW T \in SUBSET S, T # {}, NEW type, NEW entity, NEW user, NEW ip,
                 c = Finding(type, entity, user, ip, T)
          PROVE  (\E e \in S : e.ts = c.start) /\ (\E e \in S : e.ts = c.end) /\ c.start <= c.end
      <3>1. T \in EventSets
        BY <1>1, EventSubset
      <3>2. /\ \E e \in T : e.ts = c.start
            /\ \E e \in T : e.ts = c.end
            /\ \A e \in T : c.start <= e.ts /\ e.ts <= c.end
        BY <2>1, <3>1, FindingTimes
      <3>3. QED
        BY <3>2
    <2>2. CASE c \in RuleFindings(S)
      BY <1>1, <2>2, RuleSpans DEF Spans
    <2>3. CASE c \in IdentityAnomaly(S, bl)
      <3>1. PICK u \in Users, ip \in IPs :
              /\ NewOriginOf(S, bl, u, ip) # {}
              /\ c = Finding("identity_anomaly", u, u, ip, NewOriginOf(S, bl, u, ip))
        BY <1>1, <2>3, AnomalySpans
      <3>2. NewOriginOf(S, bl, u, ip) \in SUBSET S
        BY DEF NewOriginOf
      <3>3. QED
        BY <2>1, <3>1, <3>2
    <2>4. CASE c \in OffHoursAccess(S, bl)
      <3>1. PICK u \in Users :
              /\ OddOf(S, bl, u) # {}
              /\ c = Finding("off_hours_access", u, u, Earliest(OddOf(S, bl, u)).ip, OddOf(S, bl, u))
        BY <1>1, <2>4, OffHoursSpans
      <3>2. OddOf(S, bl, u) \in SUBSET S
        BY DEF OddOf, Feeding
      <3>3. QED
        BY <2>1, <3>1, <3>2
    <2>5. QED
      BY <2>2, <2>3, <2>4 DEF Findings, S
  <1>4. QED
    BY <1>2, <1>3 DEF S

\* An event of a later window that happened before some event of an earlier
\* one lies in the earlier one too.
LEMMA InEarlierWindow ==
  ASSUME NEW L \in EventSets, NEW s \in Nat, NEW t \in Nat, s <= t,
         NEW e \in WindowEvents(L, t), NEW f \in WindowEvents(L, s), e.ts < f.ts
  PROVE  e \in WindowEvents(L, s)
  <1>1. e \in L /\ e.ts \in Nat /\ f.ts \in Nat
    BY DEF WindowEvents, EventSets, Event
  <1> DEFINE x == e.ts
             y == f.ts
  <1>2. t <= x /\ y < s + 2 * Step
    BY DEF WindowEvents, InWindow
  <1>3. s <= x /\ x < s + 2 * Step
    <2>1. x \in Nat /\ y \in Nat /\ x < y
      BY <1>1
    <2> HIDE DEF x, y
    <2>2. QED
      BY <1>2, <2>1, StepAssumption
  <1>4. QED
    BY <1>1, <1>3 DEF WindowEvents, InWindow

\* The type of a finding tells which detector found it.
LEMMA FoundByType ==
  ASSUME NEW S \in EventSets, NEW bl, NEW c \in Findings(S, bl)
  PROVE  \/ Spans(c, S)
         \/ c.type = "identity_anomaly" /\ c \in IdentityAnomaly(S, bl)
         \/ c.type = "off_hours_access" /\ c \in OffHoursAccess(S, bl)
  <1>1. CASE c \in RuleFindings(S)
    BY <1>1, RuleSpans
  <1>2. CASE c \in IdentityAnomaly(S, bl)
    <2>1. PICK u \in Users, ip \in IPs :
            c = Finding("identity_anomaly", u, u, ip, NewOriginOf(S, bl, u, ip))
      BY <1>2, AnomalySpans
    <2>2. QED
      BY <1>2, <2>1 DEF Finding
  <1>3. CASE c \in OffHoursAccess(S, bl)
    <2>1. PICK u \in Users :
            c = Finding("off_hours_access", u, u, Earliest(OddOf(S, bl, u)).ip, OddOf(S, bl, u))
      BY <1>3, OffHoursSpans
    <2>2. QED
      BY <1>3, <2>1 DEF Finding
  <1>4. QED
    BY <1>1, <1>2, <1>3 DEF Findings

\* A detector that emits one finding per entity emits no two of one entity.
LEMMA RuleOne ==
  ASSUME NEW S \in EventSets, NEW c \in RuleFindings(S), NEW d \in RuleFindings(S),
         c.type = d.type, c.entity = d.entity
  PROVE  c = d
  <1>1. \A a, b \in CredentialStuffing(S) : a.type = "credential_stuffing" /\ (a.entity = b.entity => a = b)
    <2> DEFINE Fails(ip) == {e \in S : /\ e.status = "failure" /\ e.ip = ip
                                       /\ e.type \in {"console_login", "ssh_login"}}
               Found(k) == Finding("credential_stuffing", k, NoUser, k, Fails(k))
    <2>1. CredentialStuffing(S) = {Found(k) : k \in {p \in IPs : /\ Cardinality(Fails(p)) >= StuffingFailures
                                             /\ Cardinality({e.user : e \in Fails(p)}) >= StuffingMinUsers}}
      BY DEF CredentialStuffing
    <2>2. \A k : Found(k).type = "credential_stuffing" /\ Found(k).entity = k
      BY DEF Finding
    <2> HIDE DEF Found
    <2>3. \A a \in CredentialStuffing(S) : \E k : a = Found(k)
      BY <2>1
    <2>4. QED
      BY <2>2, <2>3
  <1>2. \A a, b \in PrivilegeEscalation(S) : a.type = "privilege_escalation" /\ (a.entity = b.entity => a = b)
    <2> DEFINE Grants(u) == {e \in S : /\ e.type = "permission_change" /\ e.status = "success"
                                       /\ e.user = u /\ e.target = u /\ e.elevated}
               Found(k) == Finding("privilege_escalation", k, k, Earliest(Grants(k)).ip, Grants(k))
    <2>1. PrivilegeEscalation(S) = {Found(k) : k \in {v \in Users \cup {NoUser} : Grants(v) # {}}}
      BY DEF PrivilegeEscalation
    <2>2. \A k : Found(k).type = "privilege_escalation" /\ Found(k).entity = k
      BY DEF Finding
    <2> HIDE DEF Found
    <2>3. \A a \in PrivilegeEscalation(S) : \E k : a = Found(k)
      BY <2>1
    <2>4. QED
      BY <2>2, <2>3
  <1>3. \A a, b \in LateralMovement(S) : a.type = "lateral_movement" /\ (a.entity = b.entity => a = b)
    <2> DEFINE Hops(u) == {e \in S : /\ e.type = "ssh_login" /\ e.status = "success"
                                     /\ e.user = u /\ e.host # NoHost}
               Found(k) == Finding("lateral_movement", k, k, Earliest(Hops(k)).ip, Hops(k))
    <2>1. LateralMovement(S) = {Found(k) : k \in {v \in Users : Cardinality({e.host : e \in Hops(v)}) >= LateralDistinctHosts}}
      BY DEF LateralMovement
    <2>2. \A k : Found(k).type = "lateral_movement" /\ Found(k).entity = k
      BY DEF Finding
    <2> HIDE DEF Found
    <2>3. \A a \in LateralMovement(S) : \E k : a = Found(k)
      BY <2>1
    <2>4. QED
      BY <2>2, <2>3
  <1>4. \A a, b \in DataExfiltration(S) : a.type = "data_exfiltration" /\ (a.entity = b.entity => a = b)
    <2> DEFINE Transfers(u) == {e \in S : e.type = "data_transfer" /\ e.user = u}
               Sum(u) == MapThenSumSet(LAMBDA e : e.bytes, Transfers(u))
               Found(k) == Finding("data_exfiltration", k, k, Earliest(Transfers(k)).ip, Transfers(k))
    <2>1. DataExfiltration(S) = {Found(k) : k \in {v \in Users : Sum(v) >= ExfilBytes}}
      BY DEF DataExfiltration
    <2>2. \A k : Found(k).type = "data_exfiltration" /\ Found(k).entity = k
      BY DEF Finding
    <2> HIDE DEF Found
    <2>3. \A a \in DataExfiltration(S) : \E k : a = Found(k)
      BY <2>1
    <2>4. QED
      BY <2>2, <2>3
  <1>5. \A a, b \in SensitiveDataExposure(S) : a.type = "sensitive_data_exposure" /\ (a.entity = b.entity => a = b)
    <2> DEFINE Leaking == {e \in S : e.leaks # {}}
               LeaksOf(k) == {e \in Leaking : ExposureKey(e) = k}
               Found(k) == Finding("sensitive_data_exposure", k, Earliest(LeaksOf(k)).user,
                                   Earliest(LeaksOf(k)).ip, LeaksOf(k))
    <2>1. SensitiveDataExposure(S) = {Found(k) : k \in {ExposureKey(e) : e \in Leaking}}
      BY DEF SensitiveDataExposure
    <2>2. \A k : Found(k).type = "sensitive_data_exposure" /\ Found(k).entity = k
      BY DEF Finding
    <2> HIDE DEF Found
    <2>3. \A a \in SensitiveDataExposure(S) : \E k : a = Found(k)
      BY <2>1
    <2>4. QED
      BY <2>2, <2>3
  <1>6. QED
    BY <1>1, <1>2, <1>3, <1>4, <1>5 DEF RuleFindings

\* Nobody among these logs in from two places at one instant.
Apart(S) ==
  LET Logins == {e \in S : e.type = "console_login" /\ e.status = "success"}
  IN \A e, f \in Logins : e.user = f.user /\ e.ts = f.ts => e.ip = f.ip

\* Then no two anomalies begin together, and the other detectors emit one finding per
\* entity: no two findings are tied.
LEMMA FindingsUntied ==
  ASSUME NEW S \in EventSets, Apart(S), NEW bl
  PROVE  Untied(Findings(S, bl))
  <1>1. SUFFICES ASSUME NEW c \in Findings(S, bl), NEW d \in Findings(S, bl), Tied(c, d)
                 PROVE  c = d
    BY DEF Untied
  <1>2. c.type = d.type /\ c.entity = d.entity /\ c.start = d.start
    BY <1>1 DEF Tied
  <1>3. \A a \in Findings(S, bl) :
          \/ a.type \in RuleTypes /\ a \in RuleFindings(S)
          \/ a.type = "identity_anomaly" /\ a \in IdentityAnomaly(S, bl)
          \/ a.type = "off_hours_access" /\ a \in OffHoursAccess(S, bl)
    <2>1. ASSUME NEW a \in Findings(S, bl), a \notin RuleFindings(S)
          PROVE  \/ a.type = "identity_anomaly" /\ a \in IdentityAnomaly(S, bl)
                 \/ a.type = "off_hours_access" /\ a \in OffHoursAccess(S, bl)
      <3>1. CASE a \in IdentityAnomaly(S, bl)
        <4>1. PICK u \in Users, ip \in IPs :
                a = Finding("identity_anomaly", u, u, ip, NewOriginOf(S, bl, u, ip))
          BY <3>1, AnomalySpans
        <4>2. QED
          BY <3>1, <4>1 DEF Finding
      <3>2. CASE a \in OffHoursAccess(S, bl)
        <4>1. PICK u \in Users :
                a = Finding("off_hours_access", u, u, Earliest(OddOf(S, bl, u)).ip, OddOf(S, bl, u))
          BY <3>2, OffHoursSpans
        <4>2. QED
          BY <3>2, <4>1 DEF Finding
      <3>3. QED
        BY <2>1, <3>1, <3>2 DEF Findings
    <2>2. QED
      BY <2>1, RuleSpans DEF Spans
  <1>4. "identity_anomaly" \notin RuleTypes /\ "off_hours_access" \notin RuleTypes
    BY DEF RuleTypes
  <1>5. CASE c.type \in RuleTypes
    BY <1>2, <1>3, <1>4, <1>5, RuleOne
  <1>6. CASE c.type = "identity_anomaly"
    <2>1. c \in IdentityAnomaly(S, bl) /\ d \in IdentityAnomaly(S, bl)
      BY <1>2, <1>3, <1>4, <1>6
    <2>2. PICK u \in Users, ip \in IPs :
            /\ NewOriginOf(S, bl, u, ip) # {}
            /\ c = Finding("identity_anomaly", u, u, ip, NewOriginOf(S, bl, u, ip))
      BY <2>1, AnomalySpans
    <2>3. PICK v \in Users, iq \in IPs :
            /\ NewOriginOf(S, bl, v, iq) # {}
            /\ d = Finding("identity_anomaly", v, v, iq, NewOriginOf(S, bl, v, iq))
      BY <2>1, AnomalySpans
    <2>4. u = v
      BY <1>2, <2>2, <2>3 DEF Finding
    <2>5. NewOriginOf(S, bl, u, ip) \in EventSets /\ NewOriginOf(S, bl, v, iq) \in EventSets
      <3>1. NewOriginOf(S, bl, u, ip) \in SUBSET S /\ NewOriginOf(S, bl, v, iq) \in SUBSET S
        BY DEF NewOriginOf
      <3>2. QED
        BY <3>1, EventSubset
    <2>6. PICK e \in NewOriginOf(S, bl, u, ip) : e.ts = c.start
      BY <2>2, <2>5, FindingTimes
    <2>7. PICK f \in NewOriginOf(S, bl, v, iq) : f.ts = d.start
      BY <2>3, <2>5, FindingTimes
    <2>8. e.ip = ip /\ f.ip = iq /\ e.ip = f.ip
      BY <1>2, <2>4, <2>6, <2>7 DEF NewOriginOf, Apart
    <2>9. QED
      BY <2>2, <2>3, <2>4, <2>8
  <1>7. CASE c.type = "off_hours_access"
    <2>1. c \in OffHoursAccess(S, bl) /\ d \in OffHoursAccess(S, bl)
      BY <1>2, <1>3, <1>4, <1>7
    <2>2. PICK u \in Users :
            c = Finding("off_hours_access", u, u, Earliest(OddOf(S, bl, u)).ip, OddOf(S, bl, u))
      BY <2>1, OffHoursSpans
    <2>3. PICK v \in Users :
            d = Finding("off_hours_access", v, v, Earliest(OddOf(S, bl, v)).ip, OddOf(S, bl, v))
      BY <2>1, OffHoursSpans
    <2>4. u = v
      BY <1>2, <2>2, <2>3 DEF Finding
    <2>5. QED
      BY <2>2, <2>3, <2>4
  <1>8. QED
    BY <1>3, <1>5, <1>6, <1>7

\* What a baseline does not know at a window it did not know at the one before.
LEMMA HistoryBefore ==
  ASSUME NEW L \in EventSets, NEW s \in Nat, NEW t \in Nat, s <= t, NEW u \in Users
  PROVE  /\ BaselineOf(Before(L, s))[u].ips \subseteq BaselineOf(Before(L, t))[u].ips
         /\ \A h : QuietOf(BaselineOf(Before(L, t)), u, h) /\ h \in HourOfDay
                     => QuietOf(BaselineOf(Before(L, s)), u, h)
  <1>1. /\ Before(L, s) \in EventSets /\ Before(L, t) \in EventSets
        /\ Before(L, s) \subseteq Before(L, t)
    <2>1. Before(L, s) \in SUBSET L /\ Before(L, t) \in SUBSET L
      BY DEF Before
    <2>2. \A e \in L : e.ts \in Nat
      BY DEF EventSets, Event
    <2>3. Before(L, s) \subseteq Before(L, t)
      BY <2>2 DEF Before
    <2>4. QED
      BY <2>1, <2>3, EventSubset
  <1> DEFINE A == BaselineOf(Before(L, s))
             B == BaselineOf(Before(L, t))
  <1>2. A[u].ips \subseteq B[u].ips /\ \A h \in HourOfDay : B[u].hours[h] = 0 => A[u].hours[h] = 0
    BY <1>1, HistoryGrows
  <1> HIDE DEF A, B
  <1>3. ASSUME NEW h \in HourOfDay, QuietOf(B, u, h)
        PROVE  QuietOf(A, u, h)
    <2>1. ASSUME NEW d \in -2 .. 2
          PROVE  A[u].hours[(h + d + 24) % 24] = 0
      <3>1. (h + d + 24) % 24 \in HourOfDay
        BY <1>3 DEF HourOfDay
      <3>2. B[u].hours[(h + d + 24) % 24] = 0
        BY <1>3 DEF QuietOf
      <3>3. QED
        BY <1>2, <3>1, <3>2
    <2>2. QED
      BY <2>1 DEF QuietOf
  <1>4. QED
    BY <1>2, <1>3 DEF A, B

\* A rule finds the same burst in two windows from the same event on.
LEMMA RuleFoundEarlier ==
  ASSUME NEW L \in EventSets, NEW s \in Nat, NEW t \in Nat, s <= t, NEW c, NEW d,
         Spans(c, WindowEvents(L, s)), Spans(d, WindowEvents(L, t)), Same(c, d)
  PROVE  c.start <= d.start
  <1>1. PICK e \in WindowEvents(L, t) : Counts(d.type, d.entity, e) /\ e.ts = d.start
    BY DEF Spans
  <1>2. PICK f \in WindowEvents(L, s) : f.ts = c.start
    BY DEF Spans
  <1>3. e.ts \in Nat /\ f.ts \in Nat
    BY DEF WindowEvents, EventSets, Event
  <1>4. ASSUME e.ts < f.ts PROVE FALSE
    <2>1. e \in WindowEvents(L, s)
      BY <1>4, InEarlierWindow
    <2>2. c.start <= e.ts
      BY <1>1, <2>1 DEF Spans, Same
    <2>3. QED
      BY <1>2, <1>3, <1>4, <2>2
  <1>5. QED
    BY <1>1, <1>2, <1>3, <1>4

LEMMA OffHoursFoundEarlier ==
  ASSUME NEW L \in EventSets, NEW s \in Nat, NEW t \in Nat, s <= t, NEW c, NEW d,
         c \in OffHoursAccess(WindowEvents(L, s), BaselineOf(Before(L, s))),
         d \in OffHoursAccess(WindowEvents(L, t), BaselineOf(Before(L, t))), Same(c, d)
  PROVE  c.start <= d.start
  <1> DEFINE V == WindowEvents(L, s)
             W == WindowEvents(L, t)
             A == BaselineOf(Before(L, s))
             B == BaselineOf(Before(L, t))
  <1>1. V \in EventSets /\ W \in EventSets
    BY EventSubset DEF WindowEvents
  <1>2. PICK u \in Users : /\ OddOf(V, A, u) # {}
          /\ c = Finding("off_hours_access", u, u, Earliest(OddOf(V, A, u)).ip, OddOf(V, A, u))
    <2> HIDE DEF V, A
    <2> QED BY <1>1, OffHoursSpans DEF V, A
  <1>3. PICK v \in Users : /\ OddOf(W, B, v) # {}
          /\ d = Finding("off_hours_access", v, v, Earliest(OddOf(W, B, v)).ip, OddOf(W, B, v))
    <2> HIDE DEF W, B
    <2> QED BY <1>1, OffHoursSpans DEF W, B
  <1>4. A[u].ips \subseteq B[u].ips /\ \A h : QuietOf(B, u, h) /\ h \in HourOfDay => QuietOf(A, u, h)
    BY HistoryBefore
  <1>5. \A e \in WindowEvents(L, t), f \in WindowEvents(L, s) : e.ts < f.ts => e \in WindowEvents(L, s)
    BY InEarlierWindow
  <1> HIDE DEF A, B, V, W
  <1>6. /\ OddOf(V, A, u) \in EventSets /\ OddOf(V, A, u) \subseteq V
        /\ OddOf(W, B, v) \in EventSets /\ OddOf(W, B, v) \subseteq W
    <2>1. OddOf(V, A, u) \in SUBSET V /\ OddOf(W, B, v) \in SUBSET W
      BY DEF OddOf, Feeding
    <2>2. QED
      BY <1>1, <2>1, EventSubset
  <1>7. /\ c.entity = u /\ \E e \in OddOf(V, A, u) : e.ts = c.start
        /\ \A e \in OddOf(V, A, u) : c.start <= e.ts
    BY <1>2, <1>6, FindingTimes
  <1>8. d.entity = v /\ \E e \in OddOf(W, B, v) : e.ts = d.start
    BY <1>3, <1>6, FindingTimes
  <1>9. u = v
    BY <1>7, <1>8 DEF Same
  <1>10. PICK e \in OddOf(W, B, v) : e.ts = d.start
    BY <1>8
  <1>11. PICK f \in OddOf(V, A, u) : f.ts = c.start
    BY <1>7
  <1>12. e.ts \in Nat /\ f.ts \in Nat /\ HourOf(e.ts) \in HourOfDay
    BY <1>6, ClockTypes DEF EventSets, Event
  <1>13. ASSUME e.ts < f.ts PROVE FALSE
    <2>1. e \in V
      BY <1>5, <1>6, <1>13 DEF V, W
    <2>2. e \in Feeding(V, u) /\ QuietOf(B, u, HourOf(e.ts))
      BY <1>9, <2>1 DEF OddOf, Feeding
    <2>3. MatureOf(A, u)
      BY <1>11 DEF OddOf
    <2>4. e \in OddOf(V, A, u)
      BY <1>4, <1>12, <2>2, <2>3 DEF OddOf
    <2>5. QED
      BY <1>7, <1>11, <1>12, <1>13, <2>4
  <1>14. QED
    BY <1>10, <1>11, <1>12, <1>13

\* A user's new origins share an entity: the one of d was found at s already.
LEMMA AnomalyFoundEarlier ==
  ASSUME NEW L \in EventSets, NEW s \in Nat, NEW t \in Nat, s <= t, NEW c, NEW d,
         c \in IdentityAnomaly(WindowEvents(L, s), BaselineOf(Before(L, s))),
         d \in IdentityAnomaly(WindowEvents(L, t), BaselineOf(Before(L, t))), Same(c, d)
  PROVE  \/ c.start <= d.start
         \/ \E b \in IdentityAnomaly(WindowEvents(L, s), BaselineOf(Before(L, s))) :
              Same(b, d) /\ b.start <= d.start /\ d.start <= b.end
  <1> DEFINE V == WindowEvents(L, s)
             W == WindowEvents(L, t)
             A == BaselineOf(Before(L, s))
             B == BaselineOf(Before(L, t))
  <1>1. V \in EventSets /\ W \in EventSets
    BY EventSubset DEF WindowEvents
  <1>2. PICK u \in Users, ip \in IPs :
          NewOriginOf(V, A, u, ip) # {}
          /\ c = Finding("identity_anomaly", u, u, ip, NewOriginOf(V, A, u, ip))
    <2> HIDE DEF V, A
    <2> QED BY <1>1, AnomalySpans DEF V, A
  <1>3. PICK v \in Users, jp \in IPs :
          NewOriginOf(W, B, v, jp) # {}
          /\ d = Finding("identity_anomaly", v, v, jp, NewOriginOf(W, B, v, jp))
    <2> HIDE DEF W, B
    <2> QED BY <1>1, AnomalySpans DEF W, B
  <1>4. A[u].ips \subseteq B[u].ips
    BY HistoryBefore
  <1>5. \A e \in WindowEvents(L, t), f \in WindowEvents(L, s) : e.ts < f.ts => e \in WindowEvents(L, s)
    BY InEarlierWindow
  <1> DEFINE b == Finding("identity_anomaly", u, u, jp, NewOriginOf(V, A, u, jp))
  <1>6. NewOriginOf(V, A, u, jp) # {} => b \in IdentityAnomaly(V, A)
    <2>1. \A x : x \in IdentityAnomaly(V, A) <=>
           \E p \in Users, q \in IPs :
             /\ NewOriginOf(V, A, p, q) # {}
             /\ x = Finding("identity_anomaly", p, p, q, NewOriginOf(V, A, p, q))
      <3> HIDE DEF V, A
      <3> QED BY <1>1, AnomalySpans
    <2> HIDE DEF V, A
    <2>2. QED
      BY <2>1
  <1>7. SUFFICES c.start <= d.start
                 \/ (b \in IdentityAnomaly(V, A) /\ Same(b, d) /\ b.start <= d.start /\ d.start <= b.end)
    OBVIOUS
  <1> HIDE DEF A, B, V, W
  <1>8. \A p, q : /\ NewOriginOf(V, A, p, q) \in EventSets /\ NewOriginOf(V, A, p, q) \subseteq V
                  /\ NewOriginOf(W, B, p, q) \in EventSets /\ NewOriginOf(W, B, p, q) \subseteq W
    <2>1. \A p, q : NewOriginOf(V, A, p, q) \in SUBSET V /\ NewOriginOf(W, B, p, q) \in SUBSET W
      BY DEF NewOriginOf
    <2>2. QED
      BY <1>1, <2>1, EventSubset
  <1>9. c.entity = u /\ \E e \in NewOriginOf(V, A, u, ip) : e.ts = c.start
    BY <1>2, <1>8, FindingTimes
  <1>10. /\ d.type = "identity_anomaly" /\ d.entity = v
         /\ \E e \in NewOriginOf(W, B, v, jp) : e.ts = d.start
    BY <1>3, <1>8, FindingTimes
  <1>11. u = v
    BY <1>9, <1>10 DEF Same
  <1>12. PICK e \in NewOriginOf(W, B, v, jp) : e.ts = d.start
    BY <1>10
  <1>13. PICK f \in NewOriginOf(V, A, u, ip) : f.ts = c.start
    BY <1>9
  <1>14. e.ts \in Nat /\ f.ts \in Nat /\ e \in W /\ f \in V
    BY <1>8 DEF EventSets, Event
  <1>15. CASE e.ts < f.ts
    <2>1. e \in V
      BY <1>5, <1>14, <1>15 DEF V, W
    <2>2. A[u].logins >= IdentityMinLogins /\ jp \notin A[u].ips
      BY <1>4, <1>11, <1>12, <1>13 DEF NewOriginOf
    <2>3. e \in NewOriginOf(V, A, u, jp)
      BY <1>11, <1>12, <2>1, <2>2 DEF NewOriginOf
    <2>4. /\ b.type = "identity_anomaly" /\ b.entity = u
          /\ \A g \in NewOriginOf(V, A, u, jp) : b.start <= g.ts /\ g.ts <= b.end
      BY <1>8, <2>3, FindingTimes
    <2>5. QED
      BY <1>6, <1>10, <1>11, <1>12, <2>3, <2>4 DEF Same
  <1>16. CASE ~ (e.ts < f.ts)
    BY <1>12, <1>13, <1>14, <1>16
  <1>17. QED
    BY <1>15, <1>16

\* A later window finds nothing of the same name that starts earlier, unless the
\* earlier window found something there itself.
LEMMA FoundEarlier ==
  ASSUME NEW L \in EventSets, NEW s \in Nat, NEW t \in Nat, s + Step <= t, Step <= MergePad,
         NEW c \in FindingsAt(L, s), NEW d \in FindingsAt(L, t), Same(c, d)
  PROVE  \/ c.start <= d.start
         \/ \E b \in FindingsAt(L, s) : /\ Same(b, d) /\ b.start <= d.start /\ d.start <= b.end
                                        /\ c.start <= b.end + MergePad
  <1> DEFINE V == WindowEvents(L, s)
             W == WindowEvents(L, t)
             A == BaselineOf(Before(L, s))
             B == BaselineOf(Before(L, t))
  <1>1. V \in EventSets /\ W \in EventSets /\ s <= t
    BY EventSubset, StepAssumption DEF WindowEvents
  <1>2. c \in Findings(V, A) /\ d \in Findings(W, B)
    BY DEF FindingsAt
  <1>3. \/ Spans(c, V)
        \/ c.type = "identity_anomaly" /\ c \in IdentityAnomaly(V, A)
        \/ c.type = "off_hours_access" /\ c \in OffHoursAccess(V, A)
    <2> HIDE DEF V, A
    <2> QED BY <1>1, <1>2, FoundByType
  <1>4. \/ Spans(d, W)
        \/ d.type = "identity_anomaly" /\ d \in IdentityAnomaly(W, B)
        \/ d.type = "off_hours_access" /\ d \in OffHoursAccess(W, B)
    <2> HIDE DEF W, B
    <2> QED BY <1>1, <1>2, FoundByType
  <1>5. c.type = d.type /\ (Spans(c, V) => c.type \in RuleTypes) /\ (Spans(d, W) => d.type \in RuleTypes)
    BY DEF Same, Spans
  <1>6. CASE Spans(c, V) /\ Spans(d, W)
    BY <1>1, <1>6, RuleFoundEarlier
  <1>7. CASE c \in OffHoursAccess(V, A) /\ d \in OffHoursAccess(W, B)
    BY <1>1, <1>7, OffHoursFoundEarlier
  <1>8. CASE c \in IdentityAnomaly(V, A) /\ d \in IdentityAnomaly(W, B)
    <2>1. CASE c.start <= d.start
      BY <2>1
    <2>2. CASE \E b \in IdentityAnomaly(V, A) : Same(b, d) /\ b.start <= d.start /\ d.start <= b.end
      <3>1. PICK b \in IdentityAnomaly(V, A) : Same(b, d) /\ b.start <= d.start /\ d.start <= b.end
        BY <2>2
      <3>2. b \in Findings(V, A)
        BY <3>1 DEF Findings
      <3>3. c \in Candidate /\ (\E e \in V : e.ts = c.start)
        BY <1>2, FindingInWindow
      <3>4. d \in Candidate /\ (\E e \in W : e.ts = d.start)
        BY <1>2, FindingInWindow
      <3>5. b \in Candidate
        BY <3>2, FindingInWindow
      <3>6. c.start < s + 2 * Step /\ t <= d.start
        BY <3>3, <3>4 DEF WindowEvents, InWindow
      <3>7. c.start \in Nat /\ d.start \in Nat /\ b.end \in Nat
        BY <3>3, <3>4, <3>5 DEF Candidate
      <3> DEFINE x == c.start
                 y == d.start
                 z == b.end
      <3>8. x <= z + MergePad
        <4>1. x \in Nat /\ y \in Nat /\ z \in Nat /\ x < s + 2 * Step /\ t <= y /\ y <= z
          BY <3>1, <3>6, <3>7
        <4> HIDE DEF x, y, z
        <4>2. QED
          BY <4>1, StepAssumption, PadAssumption
      <3>9. b \in FindingsAt(L, s)
        BY <3>2 DEF FindingsAt
      <3>10. QED
        BY <3>1, <3>8, <3>9
    <2>3. QED
      BY <1>1, <1>8, <2>1, <2>2, AnomalyFoundEarlier
  <1>9. QED
    <2> HIDE DEF V, W, A, B
    <2> QED BY <1>3, <1>4, <1>5, <1>6, <1>7, <1>8 DEF RuleTypes

-----------------------------------------------------------------------------
(* The bytes of a set of transfers *)

Volume(S) == MapThenSumSet(LAMBDA e : e.bytes, S)

Pick(S) == CHOOSE e \in S : TRUE

SumNext(f, s) == IF s = {} THEN 0 ELSE Pick(s).bytes + f[s \ {Pick(s)}]

\* The recursion of the sum over the subsets of S, for those of n events or less: ...
PartSums(f, S, n) ==
  /\ f = [s \in SUBSET S |-> f[s]]
  /\ \A s \in SUBSET S : Cardinality(s) <= n => f[s] = SumNext(f, s)

LEMMA PickIs ==
  ASSUME NEW S \in EventSets, S # {}
  PROVE  /\ Pick(S) \in S /\ Pick(S).bytes \in Nat
         /\ S \ {Pick(S)} \in EventSets /\ Cardinality(S \ {Pick(S)}) = Cardinality(S) - 1
  <1>1. Pick(S) \in S
    BY DEF Pick
  <1>2. IsFiniteSet(S)
    BY DEF EventSets
  <1> DEFINE p == Pick(S)
  <1>3. p \in S
    BY <1>1
  <1> HIDE DEF p
  <1>4. Cardinality(S \ {p}) = Cardinality(S) - 1
    BY <1>2, <1>3, FS_RemoveElement
  <1>5. p.bytes \in Nat
    BY <1>3 DEF EventSets, Event
  <1>6. QED
    BY <1>1, <1>4, <1>5, EventSubset DEF p

\* ... it exists for ever larger sets, ...
LEMMA PartSumsExist ==
  ASSUME NEW S \in EventSets, NEW n \in Nat
  PROVE  \E f : PartSums(f, S, n)
  <1> DEFINE Bad == {k \in Nat : ~ \E f : PartSums(f, S, k)}
             k == Min(Bad)
  <1>1. SUFFICES ASSUME Bad # {} PROVE FALSE
    OBVIOUS
  <1>2. k \in Nat /\ (~ \E f : PartSums(f, S, k)) /\ \A y \in Bad : k <= y
    <2> HIDE DEF Bad
    <2>1. k \in Bad /\ \A y \in Bad : k <= y
      BY <1>1, MinOfNat DEF Bad
    <2>2. QED
      BY <2>1 DEF Bad
  <1> HIDE DEF k
  <1>3. ASSUME NEW s \in SUBSET S
        PROVE  /\ s \in EventSets /\ Cardinality(s) \in Nat /\ (Cardinality(s) = 0 <=> s = {})
               /\ s # {} => /\ s \ {Pick(s)} \in SUBSET S
                            /\ Cardinality(s \ {Pick(s)}) = Cardinality(s) - 1
    <2>1. s \in EventSets /\ IsFiniteSet(s) /\ Cardinality(s) \in Nat
      BY EventSubset, CountType
    <2>2. Cardinality(s) = 0 <=> s = {}
      BY <2>1, FS_EmptySet
    <2>3. QED
      BY <2>1, <2>2, PickIs
  <1>4. CASE k = 0
    <2> DEFINE f == [s \in SUBSET S |-> 0]
    <2>1. ASSUME NEW s \in SUBSET S, Cardinality(s) <= 0
          PROVE  f[s] = SumNext(f, s)
      <3>1. Cardinality(s) = 0
        <4>1. Cardinality(s) \in Nat
          BY <1>3
        <4>2. QED
          BY <2>1, <4>1
      <3>2. s = {}
        BY <1>3, <3>1
      <3>3. QED
        BY <3>2 DEF SumNext
    <2>2. PartSums(f, S, 0)
      BY <2>1 DEF PartSums
    <2>3. QED
      BY <1>2, <1>4, <2>2
  <1>5. CASE k # 0
    <2>1. k - 1 \in Nat /\ k - 1 \notin Bad
      BY <1>2, <1>5
    <2>2. PICK f : PartSums(f, S, k - 1)
      BY <2>1
    <2> DEFINE g == [s \in SUBSET S |-> SumNext(f, s)]
    <2>3. ASSUME NEW s \in SUBSET S, Cardinality(s) <= k
          PROVE  g[s] = SumNext(g, s)
      <3>1. CASE s = {}
        BY <3>1 DEF SumNext
      <3>2. CASE s # {}
        <4> DEFINE r == s \ {Pick(s)}
        <4>1. r \in SUBSET S /\ Cardinality(r) <= k - 1
          BY <1>2, <1>3, <2>3, <3>2
        <4>2. f[r] = SumNext(f, r)
          BY <2>2, <4>1 DEF PartSums
        <4>3. g[r] = f[r]
          BY <4>1, <4>2
        <4>4. QED
          BY <3>2, <4>3 DEF SumNext
      <3>3. QED
        BY <3>1, <3>2
    <2>4. PartSums(g, S, k)
      <3>1. g = [s \in SUBSET S |-> g[s]]
        OBVIOUS
      <3> HIDE DEF g
      <3>2. QED
        BY <2>3, <3>1 DEF PartSums
    <2>5. QED
      BY <1>2, <2>4
  <1>6. QED
    BY <1>4, <1>5

\* ... and agrees with itself.
LEMMA SumsAgree ==
  ASSUME NEW S \in EventSets, NEW T \in SUBSET S, NEW f, NEW g,
         \A s \in SUBSET S : f[s] = SumNext(f, s), \A s \in SUBSET T : g[s] = SumNext(g, s),
         NEW r \in SUBSET T
  PROVE  f[r] = g[r]
  <1> DEFINE Bad == {n \in Nat : \E s \in SUBSET T : Cardinality(s) = n /\ f[s] # g[s]}
             n == Min(Bad)
  <1>1. ASSUME NEW s \in SUBSET T
        PROVE  s \in SUBSET S /\ s \in EventSets /\ Cardinality(s) \in Nat
    BY EventSubset, CountType
  <1>2. ASSUME Bad # {}
        PROVE  FALSE
    <2>1. n \in Bad /\ \A y \in Bad : n <= y
      <3>1. Bad \in SUBSET Nat
        OBVIOUS
      <3> HIDE DEF Bad
      <3>2. QED
        BY <1>2, <3>1, MinOfNat
    <2> HIDE DEF n
    <2>2. PICK s \in SUBSET T : Cardinality(s) = n /\ f[s] # g[s]
      BY <2>1
    <2>3. f[s] = SumNext(f, s) /\ g[s] = SumNext(g, s)
      BY <1>1
    <2>4. s # {}
      BY <2>2, <2>3 DEF SumNext
    <2> DEFINE p == s \ {Pick(s)}
    <2>5. p \in SUBSET T /\ Cardinality(p) = n - 1 /\ n \in Nat
      BY <1>1, <2>2, <2>4, PickIs
    <2>6. f[p] = g[p]
      <3>1. n - 1 \in Nat
        BY <1>1, <2>5
      <3>2. n - 1 \notin Bad
        <4> HIDE DEF Bad
        <4> QED BY <2>1, <2>5
      <3>3. QED
        BY <2>5, <3>1, <3>2
    <2>7. QED
      BY <2>2, <2>3, <2>4, <2>6 DEF SumNext
  <1>3. CASE Bad = {}
    BY <1>1, <1>3
  <1>4. QED
    BY <1>2, <1>3

\* So the fold is a sum, one event after another.
LEMMA VolumeNext ==
  ASSUME NEW S \in EventSets, S # {}
  PROVE  Volume(S) = Pick(S).bytes + Volume(S \ {Pick(S)})
  <1> DEFINE Iter(T, f) == f = [s \in SUBSET T |->
                                  IF s = {} THEN 0
                                  ELSE LET x == CHOOSE x \in s : TRUE IN x.bytes + f[s \ {x}]]
             iter(T) == CHOOSE f : Iter(T, f)
  <1>1. ASSUME NEW T \in EventSets
        PROVE  /\ \A s \in SUBSET T : iter(T)[s] = SumNext(iter(T), s)
               /\ Volume(T) = iter(T)[T]
    <2>1. PICK f : PartSums(f, T, Cardinality(T))
      BY CountType, PartSumsExist
    <2>2. ASSUME NEW s \in SUBSET T
          PROVE  f[s] = SumNext(f, s)
      <3>1. Cardinality(s) <= Cardinality(T)
        BY FS_Subset DEF EventSets
      <3>2. QED
        BY <2>1, <3>1 DEF PartSums
    <2>3. f = [s \in SUBSET T |-> SumNext(f, s)]
      BY <2>1, <2>2 DEF PartSums
    <2>4. Iter(T, f)
      BY <2>3 DEF SumNext, Pick
    <2>5. Iter(T, iter(T))
      BY <2>4, Zenon
    <2>6. Volume(T) = iter(T)[T]
      BY DEF Volume, MapThenSumSet, MapThenFoldSet
    <2> DEFINE g == iter(T)
    <2>7. Iter(T, g)
      BY <2>5
    <2> HIDE DEF g
    <2>8. \A s \in SUBSET T : g[s] = SumNext(g, s)
      BY <2>7 DEF SumNext, Pick
    <2>9. QED
      BY <2>6, <2>8 DEF g
  <1> HIDE DEF iter
  <1> DEFINE T == S \ {Pick(S)}
  <1>2. T \in EventSets /\ T \in SUBSET S
    BY PickIs
  <1>3. iter(S)[T] = iter(T)[T]
    <2>1. T \in SUBSET T
      OBVIOUS
    <2> HIDE DEF T
    <2>2. QED
      BY <1>1, <1>2, <2>1, SumsAgree
  <1>4. iter(S)[S] = SumNext(iter(S), S)
    BY <1>1
  <1>5. QED
    BY <1>1, <1>2, <1>3, <1>4 DEF SumNext

\* No later event takes from the sum.
LEMMA VolumeType ==
  ASSUME NEW S \in EventSets
  PROVE  Volume(S) \in Nat
  <1> DEFINE Bad == {n \in Nat : \E T \in EventSets : Cardinality(T) = n /\ Volume(T) \notin Nat}
             n == Min(Bad)
  <1>1. \A T \in EventSets : Cardinality(T) \in Nat
    BY CountType
  <1>2. ASSUME Bad # {}
        PROVE  FALSE
    <2>1. n \in Bad /\ \A y \in Bad : n <= y
      <3>1. Bad \in SUBSET Nat
        OBVIOUS
      <3> HIDE DEF Bad
      <3>2. QED
        BY <1>2, <3>1, MinOfNat
    <2> HIDE DEF n
    <2>2. PICK T \in EventSets : Cardinality(T) = n /\ Volume(T) \notin Nat
      BY <2>1
    <2>3. T # {}
      BY <2>2, NoBytes DEF Volume
    <2> DEFINE R == T \ {Pick(T)}
    <2>4. R \in EventSets /\ Cardinality(R) = n - 1 /\ Pick(T).bytes \in Nat /\ n \in Nat
      BY <1>1, <2>2, <2>3, PickIs
    <2>5. n - 1 \in Nat
      BY <1>1, <2>4
    <2>6. n - 1 \notin Bad
      <3> HIDE DEF Bad
      <3> QED BY <2>1, <2>4
    <2>7. Volume(R) \in Nat
      BY <2>4, <2>5, <2>6
    <2>8. Volume(T) = Pick(T).bytes + Volume(R)
      BY <2>3, VolumeNext
    <2> HIDE DEF R
    <2>9. QED
      BY <2>2, <2>4, <2>7, <2>8
  <1>3. QED
    BY <1>1, <1>2

\* Any event of the set may be added last, ...
LEMMA VolumeWithout ==
  ASSUME NEW S \in EventSets, NEW e \in S
  PROVE  Volume(S) = e.bytes + Volume(S \ {e})
  <1> DEFINE Wrong(T) == \E x \in T : Volume(T) # x.bytes + Volume(T \ {x})
             Bad == {n \in Nat : \E T \in EventSets : Cardinality(T) = n /\ Wrong(T)}
             n == Min(Bad)
  <1>1. \A T \in EventSets : Cardinality(T) \in Nat
    BY CountType
  <1>2. ASSUME Bad # {}
        PROVE  FALSE
    <2>1. n \in Bad /\ \A y \in Bad : n <= y
      <3>1. Bad \in SUBSET Nat
        OBVIOUS
      <3> HIDE DEF Bad
      <3>2. QED
        BY <1>2, <3>1, MinOfNat
    <2> HIDE DEF n
    <2>2. PICK T \in EventSets : Cardinality(T) = n /\ Wrong(T)
      BY <2>1
    <2>3. PICK x \in T : Volume(T) # x.bytes + Volume(T \ {x})
      BY <2>2
    <2> DEFINE p == Pick(T)
               R == T \ {p}
               Q == T \ {x}
    <2>4. /\ p \in T /\ R \in EventSets /\ Cardinality(R) = n - 1 /\ n \in Nat
          /\ Volume(T) = p.bytes + Volume(R)
      BY <1>1, <2>2, PickIs, VolumeNext
    <2> HIDE DEF p
    <2>5. p # x
      BY <2>3, <2>4
    <2>6. Q \in EventSets /\ Cardinality(Q) = n - 1
      <3>1. Q \in EventSets /\ IsFiniteSet(T)
        BY EventSubset, CountType
      <3>2. QED
        BY <2>2, <3>1, FS_RemoveElement
    <2>7. n - 1 \in Nat /\ n - 1 \notin Bad
      <3>1. n - 1 \in Nat
        BY <1>1, <2>4
      <3> HIDE DEF Bad
      <3>2. QED
        BY <2>1, <2>4, <3>1
    <2>8. \A U \in EventSets : Cardinality(U) = n - 1 =>
            \A y \in U : Volume(U) = y.bytes + Volume(U \ {y})
      BY <2>7
    <2> HIDE DEF Wrong, Bad
    <2>9. Volume(R) = x.bytes + Volume(R \ {x}) /\ Volume(Q) = p.bytes + Volume(Q \ {p})
      <3>1. x \in R /\ p \in Q
        BY <2>4, <2>5
      <3> HIDE DEF R, Q
      <3>2. QED
        BY <2>4, <2>6, <2>8, <3>1
    <2>10. R \ {x} = Q \ {p}
      OBVIOUS
    <2>11. Volume(R \ {x}) \in Nat /\ x.bytes \in Nat /\ p.bytes \in Nat
      <3>1. R \ {x} \in EventSets
        BY <2>4, EventSubset
      <3>2. QED
        BY <2>4, <3>1, VolumeType DEF EventSets, Event
    <2>12. Volume(T) = x.bytes + Volume(Q)
      <3> DEFINE v == Volume(R \ {x})
      <3>1. v \in Nat /\ Volume(R) = x.bytes + v /\ Volume(Q) = p.bytes + v
        BY <2>9, <2>10, <2>11
      <3> HIDE DEF v, R, Q
      <3>2. QED
        BY <2>4, <2>11, <3>1
    <2>13. QED
      BY <2>3, <2>12
  <1>3. QED
    BY <1>1, <1>2

\* ... so more events have no smaller sum.
LEMMA VolumeGrows ==
  ASSUME NEW T \in EventSets, NEW S \in SUBSET T
  PROVE  Volume(S) <= Volume(T)
  <1> DEFINE Bad == {n \in Nat : \E U \in EventSets :
                       Cardinality(U) = n /\ S \subseteq U /\ ~ (Volume(S) <= Volume(U))}
             n == Min(Bad)
  <1>1. \A U \in EventSets : Cardinality(U) \in Nat
    BY CountType
  <1>0. S \in EventSets /\ Volume(S) \in Nat
    BY EventSubset, VolumeType
  <1>2. ASSUME Bad # {}
        PROVE  FALSE
    <2>1. n \in Bad /\ \A y \in Bad : n <= y
      <3>1. Bad \in SUBSET Nat
        OBVIOUS
      <3> HIDE DEF Bad
      <3>2. QED
        BY <1>2, <3>1, MinOfNat
    <2> HIDE DEF n
    <2>2. PICK U \in EventSets : Cardinality(U) = n /\ S \subseteq U /\ ~ (Volume(S) <= Volume(U))
      BY <2>1
    <2>3. S # U
      BY <1>0, <2>2
    <2>4. PICK x \in U : x \notin S
      BY <2>2, <2>3
    <2> DEFINE R == U \ {x}
    <2>5. R \in EventSets /\ Cardinality(R) = n - 1 /\ S \subseteq R
      <3>1. R \in EventSets /\ IsFiniteSet(U)
        BY EventSubset, CountType
      <3>2. QED
        BY <2>2, <2>4, <3>1, FS_RemoveElement
    <2>6. Volume(U) = x.bytes + Volume(R) /\ x.bytes \in Nat
      BY VolumeWithout DEF EventSets, Event
    <2> HIDE DEF R
    <2>7. n - 1 \in Nat /\ n - 1 \notin Bad
      <3>1. n \in Nat /\ n - 1 \in Nat
        BY <1>1, <2>2, <2>5
      <3> HIDE DEF Bad
      <3>2. QED
        BY <2>1, <3>1
    <2>8. Volume(S) <= Volume(R) /\ Volume(R) \in Nat
      BY <2>5, <2>7, VolumeType
    <2>9. QED
      BY <1>0, <2>2, <2>6, <2>8
  <1>3. QED
    BY <1>0, <1>1, <1>2

-----------------------------------------------------------------------------
(* More events hide no burst *)

LEMMA MoreCounted ==
  ASSUME NEW T \in EventSets, NEW S \in SUBSET T
  PROVE  /\ Cardinality(S) <= Cardinality(T)
         /\ Cardinality({e.user : e \in S}) <= Cardinality({e.user : e \in T})
         /\ Cardinality({e.host : e \in S}) <= Cardinality({e.host : e \in T})
         /\ Cardinality(T) \in Nat /\ Cardinality(S) \in Nat
         /\ Cardinality({e.user : e \in S}) \in Nat /\ Cardinality({e.user : e \in T}) \in Nat
         /\ Cardinality({e.host : e \in S}) \in Nat /\ Cardinality({e.host : e \in T}) \in Nat
  <1> DEFINE U == {e.user : e \in T}
             V == {e.user : e \in S}
             H == {e.host : e \in T}
             I == {e.host : e \in S}
  <1>1. IsFiniteSet(T) /\ IsFiniteSet(S)
    BY CountType DEF EventSets
  <1>2. V \subseteq U /\ I \subseteq H
    OBVIOUS
  <1>3. [e \in T |-> e.user] \in Surjection(T, U) /\ [e \in T |-> e.host] \in Surjection(T, H)
    BY DEF Surjection
  <1> HIDE DEF U, V, H, I
  <1>4. IsFiniteSet(U) /\ IsFiniteSet(H)
    BY <1>1, <1>3, FS_Surjection
  <1>5. Cardinality(S) <= Cardinality(T) /\ Cardinality(S) \in Nat /\ Cardinality(T) \in Nat
    BY <1>1, FS_Subset, FS_CardinalityType
  <1>6. Cardinality(V) <= Cardinality(U) /\ Cardinality(V) \in Nat /\ Cardinality(U) \in Nat
    BY <1>2, <1>4, FS_Subset, FS_CardinalityType
  <1>7. Cardinality(I) <= Cardinality(H) /\ Cardinality(I) \in Nat /\ Cardinality(H) \in Nat
    BY <1>2, <1>4, FS_Subset, FS_CardinalityType
  <1>8. QED
    BY <1>5, <1>6, <1>7 DEF U, V, H, I

LEMMA StuffingGrows ==
  ASSUME NEW T \in EventSets, NEW S \in SUBSET T, NEW c \in CredentialStuffing(S)
  PROVE  \E d \in CredentialStuffing(T) : Same(d, c)
  <1> DEFINE Fails(W, ip) == {e \in W : /\ e.status = "failure" /\ e.ip = ip
                                        /\ e.type \in {"console_login", "ssh_login"}}
             Enough(F) == /\ Cardinality(F) >= StuffingFailures
                          /\ Cardinality({e.user : e \in F}) >= StuffingMinUsers
             Found(W, ip) == Finding("credential_stuffing", ip, NoUser, ip, Fails(W, ip))
  <1>1. \A W : CredentialStuffing(W) = {Found(W, ip) : ip \in {p \in IPs : Enough(Fails(W, p))}}
    BY DEF CredentialStuffing
  <1>2. \A W, ip : Found(W, ip).type = "credential_stuffing" /\ Found(W, ip).entity = ip
    BY DEF Finding
  <1>3. \A ip : Fails(T, ip) \in EventSets /\ Fails(S, ip) \in SUBSET Fails(T, ip)
    BY EventSubset
  <1> HIDE DEF Fails, Found
  <1>4. PICK ip \in IPs : Enough(Fails(S, ip)) /\ c = Found(S, ip)
    BY <1>1
  <1>5. Enough(Fails(T, ip))
    <2> DEFINE F == Fails(T, ip)
               G == Fails(S, ip)
    <2>1. F \in EventSets /\ G \in SUBSET F
      BY <1>3
    <2> HIDE DEF F, G
    <2>2. /\ Cardinality(G) <= Cardinality(F)
          /\ Cardinality({e.user : e \in G}) <= Cardinality({e.user : e \in F})
          /\ Cardinality(F) \in Nat /\ Cardinality(G) \in Nat
          /\ Cardinality({e.user : e \in G}) \in Nat /\ Cardinality({e.user : e \in F}) \in Nat
      BY <2>1, MoreCounted
    <2>3. StuffingFailures \in Nat /\ StuffingMinUsers \in Nat
      BY ThresholdAssumption
    <2>4. /\ Cardinality(G) >= StuffingFailures
          /\ Cardinality({e.user : e \in G}) >= StuffingMinUsers
      BY <1>4 DEF G
    <2>5. /\ Cardinality(F) >= StuffingFailures
          /\ Cardinality({e.user : e \in F}) >= StuffingMinUsers
      BY <2>2, <2>3, <2>4
    <2>6. QED
      BY <2>5 DEF F
  <1> HIDE DEF Enough
  <1>6. Found(T, ip) \in CredentialStuffing(T)
    BY <1>1, <1>5
  <1>7. QED
    BY <1>2, <1>4, <1>6 DEF Same

LEMMA PrivilegeGrows ==
  ASSUME NEW T \in EventSets, NEW S \in SUBSET T, NEW c \in PrivilegeEscalation(S)
  PROVE  \E d \in PrivilegeEscalation(T) : Same(d, c)
  <1> DEFINE Grants(W, u) == {e \in W : /\ e.type = "permission_change" /\ e.status = "success"
                                        /\ e.user = u /\ e.target = u /\ e.elevated}
             Found(W, u) == Finding("privilege_escalation", u, u, Earliest(Grants(W, u)).ip, Grants(W, u))
  <1>1. \A W : PrivilegeEscalation(W) =
                 {Found(W, u) : u \in {v \in Users \cup {NoUser} : Grants(W, v) # {}}}
    BY DEF PrivilegeEscalation
  <1>2. \A W, u : Found(W, u).type = "privilege_escalation" /\ Found(W, u).entity = u
    BY DEF Finding
  <1>3. \A u : Grants(S, u) \subseteq Grants(T, u)
    OBVIOUS
  <1> HIDE DEF Grants, Found
  <1>4. PICK u \in Users \cup {NoUser} : Grants(S, u) # {} /\ c = Found(S, u)
    BY <1>1
  <1>5. Found(T, u) \in PrivilegeEscalation(T)
    <2>1. Grants(T, u) # {}
      BY <1>3, <1>4
    <2>2. QED
      BY <1>1, <2>1
  <1>6. QED
    BY <1>2, <1>4, <1>5 DEF Same

LEMMA LateralGrows ==
  ASSUME NEW T \in EventSets, NEW S \in SUBSET T, NEW c \in LateralMovement(S)
  PROVE  \E d \in LateralMovement(T) : Same(d, c)
  <1> DEFINE Hops(W, u) == {e \in W : /\ e.type = "ssh_login" /\ e.status = "success"
                                      /\ e.user = u /\ e.host # NoHost}
             Enough(F) == Cardinality({e.host : e \in F}) >= LateralDistinctHosts
             Found(W, u) == Finding("lateral_movement", u, u, Earliest(Hops(W, u)).ip, Hops(W, u))
  <1>1. \A W : LateralMovement(W) = {Found(W, u) : u \in {v \in Users : Enough(Hops(W, v))}}
    BY DEF LateralMovement
  <1>2. \A W, u : Found(W, u).type = "lateral_movement" /\ Found(W, u).entity = u
    BY DEF Finding
  <1>3. \A u : Hops(T, u) \in EventSets /\ Hops(S, u) \in SUBSET Hops(T, u)
    BY EventSubset
  <1> HIDE DEF Hops, Found
  <1>4. PICK u \in Users : Enough(Hops(S, u)) /\ c = Found(S, u)
    BY <1>1
  <1>5. Enough(Hops(T, u))
    <2> DEFINE F == Hops(T, u)
               G == Hops(S, u)
    <2>1. F \in EventSets /\ G \in SUBSET F
      BY <1>3
    <2> HIDE DEF F, G
    <2>2. /\ Cardinality({e.host : e \in G}) <= Cardinality({e.host : e \in F})
          /\ Cardinality({e.host : e \in G}) \in Nat /\ Cardinality({e.host : e \in F}) \in Nat
      BY <2>1, MoreCounted
    <2>3. LateralDistinctHosts \in Nat /\ Cardinality({e.host : e \in G}) >= LateralDistinctHosts
      BY <1>4, ThresholdAssumption DEF G
    <2>4. Cardinality({e.host : e \in F}) >= LateralDistinctHosts
      BY <2>2, <2>3
    <2>5. QED
      BY <2>4 DEF F
  <1> HIDE DEF Enough
  <1>6. Found(T, u) \in LateralMovement(T)
    BY <1>1, <1>5
  <1>7. QED
    BY <1>2, <1>4, <1>6 DEF Same

LEMMA ExfiltrationGrows ==
  ASSUME NEW T \in EventSets, NEW S \in SUBSET T, NEW c \in DataExfiltration(S)
  PROVE  \E d \in DataExfiltration(T) : Same(d, c)
  <1> DEFINE Transfers(W, u) == {e \in W : e.type = "data_transfer" /\ e.user = u}
             Found(W, u) == Finding("data_exfiltration", u, u, Earliest(Transfers(W, u)).ip,
                                    Transfers(W, u))
  <1>1. \A W : DataExfiltration(W) =
                 {Found(W, u) : u \in {v \in Users : Volume(Transfers(W, v)) >= ExfilBytes}}
    BY DEF DataExfiltration, Volume
  <1>2. \A W, u : Found(W, u).type = "data_exfiltration" /\ Found(W, u).entity = u
    BY DEF Finding
  <1>3. \A u : /\ Transfers(T, u) \in EventSets /\ Transfers(S, u) \in EventSets
               /\ Transfers(S, u) \in SUBSET Transfers(T, u)
    BY EventSubset
  <1> HIDE DEF Transfers, Found
  <1>4. PICK u \in Users : Volume(Transfers(S, u)) >= ExfilBytes /\ c = Found(S, u)
    BY <1>1
  <1>5. Volume(Transfers(T, u)) >= ExfilBytes
    <2>1. /\ Volume(Transfers(S, u)) <= Volume(Transfers(T, u))
          /\ Volume(Transfers(S, u)) \in Nat /\ Volume(Transfers(T, u)) \in Nat
      BY <1>3, VolumeGrows, VolumeType
    <2>2. ExfilBytes \in Nat
      BY ThresholdAssumption
    <2>3. QED
      BY <1>4, <2>1, <2>2
  <1>6. Found(T, u) \in DataExfiltration(T)
    BY <1>1, <1>5
  <1>7. QED
    BY <1>2, <1>4, <1>6 DEF Same

LEMMA ExposureGrows ==
  ASSUME NEW T \in EventSets, NEW S \in SUBSET T, NEW c \in SensitiveDataExposure(S)
  PROVE  \E d \in SensitiveDataExposure(T) : Same(d, c)
  <1> DEFINE Leaking(W) == {e \in W : e.leaks # {}}
             LeaksOf(W, k) == {e \in Leaking(W) : ExposureKey(e) = k}
             Found(W, k) == Finding("sensitive_data_exposure", k, Earliest(LeaksOf(W, k)).user,
                                    Earliest(LeaksOf(W, k)).ip, LeaksOf(W, k))
  <1>1. \A W : SensitiveDataExposure(W) = {Found(W, k) : k \in {ExposureKey(e) : e \in Leaking(W)}}
    BY DEF SensitiveDataExposure
  <1>2. \A W, k : Found(W, k).type = "sensitive_data_exposure" /\ Found(W, k).entity = k
    BY DEF Finding
  <1>3. Leaking(S) \subseteq Leaking(T)
    OBVIOUS
  <1> HIDE DEF Leaking, Found
  <1>4. PICK e \in Leaking(S) : c = Found(S, ExposureKey(e))
    BY <1>1
  <1>5. Found(T, ExposureKey(e)) \in SensitiveDataExposure(T)
    BY <1>1, <1>3
  <1>6. QED
    BY <1>2, <1>4, <1>5 DEF Same

\* Whatever else is in the log: what a rule finds in some events, it finds in more,
\* and no later and no shorter.
LEMMA RulesGrow ==
  ASSUME NEW T \in EventSets, NEW S \in SUBSET T, NEW c \in RuleFindings(S)
  PROVE  \E d \in RuleFindings(T) : Same(d, c) /\ d.start <= c.start /\ c.end <= d.end
  <1>1. PICK d \in RuleFindings(T) : Same(d, c)
    BY StuffingGrows, PrivilegeGrows, LateralGrows, ExfiltrationGrows, ExposureGrows
       DEF RuleFindings
  <1>2. S \in EventSets
    BY EventSubset
  <1>3. Spans(c, S) /\ Spans(d, T)
    BY <1>2, RuleSpans
  <1>4. d.start <= c.start /\ c.end <= d.end
    BY <1>1, <1>3 DEF Spans, Same
  <1>5. QED
    BY <1>1, <1>4

-----------------------------------------------------------------------------
(* What is stored stays covered *)

\* A row covers what joins it, and still covers what it covered before.
LEMMA UpsertCovers ==
  ASSUME NEW A \in Seq(AlertRow), NEW c \in Candidate
  PROVE  /\ Covered(Upsert(A, c), c)
         /\ \A d \in Candidate : Covered(A, d) => Covered(Upsert(A, c), d)
  <1> DEFINE B == Upsert(A, c)
  <1>1. \A d \in Candidate : d.start \in Nat /\ d.end \in Nat
    BY DEF Candidate
  <1>2. CASE Hits(A, c) = {}
    <2> DEFINE r == NewRow(c)
    <2>1. B = Append(A, r) /\ r \in AlertRow
      BY <1>2, UpsertInserts
    <2>2. Same(r, c) /\ r.start = c.start /\ r.end = c.end
      BY DEF NewRow, Same
    <2> HIDE DEF r
    <2>3. /\ Len(A) \in Nat /\ Len(B) = Len(A) + 1 /\ B[Len(A) + 1] = r
          /\ \A n \in 1 .. Len(A) : B[n] = A[n]
      BY <2>1
    <2> HIDE DEF B
    <2>4. Len(A) + 1 \in 1 .. Len(B) /\ \A n \in 1 .. Len(A) : n \in 1 .. Len(B)
      BY <2>3
    <2>5. Covered(B, c)
      BY <1>1, <2>2, <2>3, <2>4 DEF Covered, Same
    <2>6. \A d \in Candidate : Covered(A, d) => Covered(B, d)
      BY <2>3, <2>4 DEF Covered, Same
    <2>7. QED
      BY <2>5, <2>6 DEF B
  <1>3. CASE Hits(A, c) # {}
    <2> DEFINE m == Min(Hits(A, c))
               g == Grown(A[m], c)
    <2>1. m \in 1 .. Len(A) /\ SameThing(A[m], c)
      BY <1>3, HitsLeast
    <2>2. B = [A EXCEPT ![m] = g] /\ g \in AlertRow
      BY <1>3, UpsertGrows
    <2> HIDE DEF B
    <2>3. Len(B) = Len(A) /\ B[m] = g /\ \A n \in 1 .. Len(A) : n # m => B[n] = A[n]
      BY <2>1, <2>2
    <2>4. A[m] \in AlertRow /\ A[m].start \in Nat /\ A[m].end \in Nat
      BY <2>1, RowNumbers
    <2>5. /\ g.type = A[m].type /\ g.entity = A[m].entity
          /\ g.start = (IF A[m].start <= c.start THEN A[m].start ELSE c.start)
          /\ g.end = (IF A[m].end <= c.end THEN c.end ELSE A[m].end)
      BY <2>4, GrownIs
    <2> HIDE DEF g, m
    <2>6. g.start <= A[m].start /\ A[m].end <= g.end /\ g.start <= c.start /\ c.end <= g.end
          /\ g.start \in Nat /\ g.end \in Nat
      BY <1>1, <2>4, <2>5
    <2>7. Covered(B, c)
      <3>1. Same(g, c)
        BY <2>1, <2>5 DEF Same, SameThing
      <3>2. QED
        BY <2>1, <2>3, <2>6, <3>1 DEF Covered, Same
    <2>8. ASSUME NEW d \in Candidate, Covered(A, d)
          PROVE  Covered(B, d)
      <3>1. PICK n \in 1 .. Len(A) : Same(A[n], d) /\ A[n].start <= d.start /\ d.end <= A[n].end
        BY <2>8 DEF Covered, Same
      <3>2. CASE n = m
        <4>1. Same(g, d)
          BY <2>5, <3>1, <3>2 DEF Same
        <4>2. g.start <= d.start /\ d.end <= g.end
          BY <1>1, <2>4, <2>6, <3>1, <3>2
        <4>3. QED
          BY <2>1, <2>3, <4>1, <4>2 DEF Covered, Same
      <3>3. CASE n # m
        BY <2>3, <3>1, <3>3 DEF Covered, Same
      <3>4. QED
        BY <3>2, <3>3
    <2>9. QED
      BY <2>7, <2>8 DEF B
  <1>4. QED
    BY <1>2, <1>3

CoversFirst(A, F, k) ==
  /\ \A d \in Candidate : Covered(A, d) => Covered(StoreFirst(A, F, k), d)
  /\ \A n \in 1 .. k : Covered(StoreFirst(A, F, k), F[n])

LEMMA StoreCovers ==
  ASSUME NEW A \in Seq(AlertRow), NEW F \in Seq(Candidate), NEW k \in 0 .. Len(F)
  PROVE  CoversFirst(A, F, k)
  <1> DEFINE Bad == {j \in Nat : j <= k /\ ~ CoversFirst(A, F, j)}
             j == Min(Bad)
  <1>0. Len(F) \in Nat /\ k \in Nat /\ k <= Len(F)
    OBVIOUS
  <1>1. SUFFICES ASSUME Bad # {} PROVE FALSE
    BY <1>0
  <1>2. j \in Nat /\ j <= k /\ ~ CoversFirst(A, F, j) /\ \A y \in Bad : j <= y
    <2> HIDE DEF Bad
    <2>1. j \in Bad /\ \A y \in Bad : j <= y
      BY <1>1, MinOfNat DEF Bad
    <2>2. QED
      BY <2>1 DEF Bad
  <1> HIDE DEF j
  <1>3. j # 0
    <2>1. StoreFirst(A, F, 0) = A /\ \A n \in 1 .. 0 : FALSE
      BY StoreNext
    <2>2. CoversFirst(A, F, 0)
      BY <2>1 DEF CoversFirst
    <2>3. QED
      BY <1>2, <2>2
  <1> DEFINE i == j - 1
  <1>4. i \in Nat /\ i + 1 = j /\ i \in 0 .. Len(F) /\ j \in 1 .. Len(F) /\ i <= k /\ i < j
    BY <1>0, <1>2, <1>3
  <1> HIDE DEF i
  <1>5. CoversFirst(A, F, i)
    <2>1. i \notin Bad
      <3> HIDE DEF Bad
      <3> QED BY <1>2, <1>4
    <2>2. QED
      BY <1>4, <2>1
  <1> DEFINE B == StoreFirst(A, F, i)
             C == StoreFirst(A, F, j)
  <1>6. C = Upsert(B, F[j]) /\ B \in Seq(AlertRow) /\ F[j] \in Candidate
    <2>1. StoreFirst(A, F, i + 1) = Upsert(StoreFirst(A, F, i), F[i + 1])
      BY <1>4, StoreNext
    <2>2. StoreFirst(A, F, i) \in Seq(AlertRow)
      BY <1>4, StoreType
    <2>3. F[j] \in Candidate
      BY <1>4
    <2>4. QED
      BY <1>4, <2>1, <2>2, <2>3
  <1>7. /\ \A d \in Candidate : Covered(A, d) => Covered(B, d)
        /\ \A n \in 1 .. i : Covered(B, F[n])
    BY <1>5 DEF CoversFirst
  <1> HIDE DEF B, C
  <1>8. Covered(C, F[j]) /\ \A d \in Candidate : Covered(B, d) => Covered(C, d)
    BY <1>6, UpsertCovers
  <1>9. ASSUME NEW n \in 1 .. j
        PROVE  Covered(C, F[n])
    <2>1. n = j \/ n \in 1 .. i
      BY <1>4
    <2>2. F[n] \in Candidate
      BY <1>4
    <2>3. QED
      BY <1>7, <1>8, <2>1, <2>2
  <1>10. \A d \in Candidate : Covered(A, d) => Covered(C, d)
    BY <1>7, <1>8
  <1>11. CoversFirst(A, F, j)
    BY <1>9, <1>10 DEF CoversFirst, C
  <1>12. QED
    BY <1>2, <1>11

\* In whatever order the findings of a window are stored, each of them is covered.
LEMMA FindingsCovered ==
  ASSUME NEW A \in Seq(AlertRow), NEW S \in EventSets, NEW bl,
         NEW f \in Orders(Findings(S, bl))
  PROVE  /\ \A k \in 0 .. Len(f) : /\ StoreFirst(A, f, k) \in Seq(AlertRow)
                                  /\ \A d \in Candidate :
                                       Covered(A, d) => Covered(StoreFirst(A, f, k), d)
         /\ Store(A, f) \in Seq(AlertRow)
         /\ \A d \in Candidate : Covered(A, d) => Covered(Store(A, f), d)
         /\ \A c \in Findings(S, bl) : Covered(Store(A, f), c)
  <1> DEFINE F == Findings(S, bl)
             n == Len(f)
             B == Store(A, f)
  <1>1. f \in Seq(Candidate) /\ \A c \in F : \E m \in 1 .. Len(f) : f[m] = c
    <2>1. F \subseteq Candidate /\ IsFiniteSet(F) /\ f \in Orders(F)
      BY FindingsType
    <2> HIDE DEF F
    <2>2. QED
      BY <2>1, OrdersAre
  <1>2. n \in 0 .. Len(f)
    BY <1>1
  <1>3. ASSUME NEW k \in 0 .. Len(f)
        PROVE  StoreFirst(A, f, k) \in Seq(AlertRow) /\ CoversFirst(A, f, k)
    BY <1>1, <1>3, StoreCovers, StoreType
  <1>4. B = StoreFirst(A, f, n)
    BY DEF Store
  <1> HIDE DEF F, B
  <1>5. /\ B \in Seq(AlertRow)
        /\ \A d \in Candidate : Covered(A, d) => Covered(B, d)
        /\ \A m \in 1 .. n : Covered(B, f[m])
    BY <1>2, <1>3, <1>4 DEF CoversFirst
  <1>6. \A c \in F : Covered(B, c)
    BY <1>1, <1>5
  <1>7. QED
    BY <1>3, <1>5, <1>6 DEF CoversFirst, F, B

=============================================================================
