----------------------------- MODULE Detection -----------------------------
(***************************************************************************)
(* The detection engine of internal/detect: what a log event is, what a    *)
(* per-user baseline remembers, and what each of the seven detectors       *)
(* finds in a window of events.                                            *)
(*                                                                         *)
(* Detectors are functions of the SET of events of a window and of the     *)
(* baselines.  The code folds over the events in (ts, id) order, and the   *)
(* only thing that depends on the order is which event is the first one,   *)
(* whose source IP labels the finding.                                     *)
(***************************************************************************)
EXTENDS Integers, FiniteSets, FiniteSetsExt

CONSTANTS
  Users, IPs, Hosts,        \* the names that occur in the logs
  NoUser, NoIP, NoHost,     \* the empty string in each of these fields
  TicksPerHour,
  StuffingFailures, StuffingMinUsers, LateralDistinctHosts, ExfilBytes,
  IdentityMinLogins, OffHoursMinEvents, OffHoursMinDays

\* The maturity gates are positive, so a user without a baseline (nil in the
\* code) behaves as one whose baseline is empty.
ASSUME ThresholdAssumption ==
  /\ {StuffingFailures, StuffingMinUsers, LateralDistinctHosts, ExfilBytes,
      IdentityMinLogins, OffHoursMinEvents, OffHoursMinDays} \subseteq Nat \ {0}
  /\ TicksPerHour \in Nat \ {0}

ASSUME NameAssumption == NoUser \notin Users /\ NoIP \notin IPs /\ NoHost \notin Hosts

EventTypes == {"console_login", "api_call", "ssh_login", "http_request",
               "app_log", "permission_change", "data_transfer"}

\* target and elevated stand for Extra["target_user"] and for whether
\* Extra["permission"] is one of elevatedPerms; leaks for the kinds of secret
\* ClassifyMessage finds in Message.
Event ==
  [id : Nat, ts : Nat, type : EventTypes,
   status : {"success", "failure", "denied", "info"},
   user : Users \cup {NoUser}, ip : IPs \cup {NoIP}, host : Hosts \cup {NoHost},
   bytes : Nat, target : Users \cup {NoUser}, elevated : BOOLEAN,
   leaks : SUBSET {"aws_key", "api_secret", "db_password", "private_key", "ssn", "card"}]

HourOfDay == 0 .. 23

HourOf(ts) == (ts \div TicksPerHour) % 24
DayOf(ts)  == ts \div (24 * TicksPerHour)

\* A mutant of IsSuccessfulAccess: failed logins count as well.
IsAccess(e) == e.type \in {"console_login", "api_call", "ssh_login"}

IsSuccessfulAccess(e) ==
  e.status = "success" /\ e.type \in {"console_login", "api_call", "ssh_login"}

-----------------------------------------------------------------------------
(* Baselines *)

UserBaseline ==
  [ips : SUBSET IPs, hours : [HourOfDay -> Nat], days : SUBSET Nat,
   logins : Nat, events : Nat]

NoBaseline ==
  [ips |-> {}, hours |-> [h \in HourOfDay |-> 0], days |-> {}, logins |-> 0, events |-> 0]

EmptyBaselines == [u \in Users |-> NoBaseline]

\* The events of S that feed the baseline of u.
Feeding(S, u) == {e \in S : e.user = u /\ IsSuccessfulAccess(e)}

\* What merging the events S adds to a baseline that already knows the IPs and
\* days of "known".  Update decides by its in-memory copy which IPs and days
\* are new, and counts unconditionally.
Merge(b, known, S) ==
  [ips    |-> b.ips \cup ({e.ip : e \in S} \ (known.ips \cup {NoIP})),
   hours  |-> [h \in HourOfDay |-> b.hours[h] + Cardinality({e \in S : HourOf(e.ts) = h})],
   days   |-> b.days \cup ({DayOf(e.ts) : e \in S} \ known.days),
   logins |-> b.logins + Cardinality({e \in S : e.type = "console_login"}),
   events |-> b.events + Cardinality(S)]

\* Baselines.Update on the in-memory side ...
Learn(mem, S) == [u \in Users |-> Merge(mem[u], mem[u], Feeding(S, u))]

\* ... and the commands it writes through to Redis.
WriteThrough(redis, mem, S) == [u \in Users |-> Merge(redis[u], mem[u], Feeding(S, u))]

\* The keys that hold a baseline, one per user and field, and the order in which
\* Load reads and Update writes those of a user
Fields     == {"ips", "hours", "days", "logins", "events"}
ReadOrder  == <<"ips", "hours", "days", "logins", "events">>
WriteOrder == <<"ips", "hours", "events", "days", "logins">>

\* The baselines "base", with what "from" holds under these keys.
Overlay(base, from, keys) ==
  [u \in Users |-> [f \in Fields |-> IF <<u, f>> \in keys THEN from[u][f] ELSE base[u][f]]]

\* The keys that exist, ...
StoredKeys(redis) ==
  {k \in Users \X Fields : Overlay(EmptyBaselines, redis, {k}) # EmptyBaselines}

\* A mutant of LoadKeys: the login counts are not read back.
LoadKeysButLogins(redis) == {u \in Users : redis[u].ips # {}} \X (Fields \ {"logins"})

\* ... those that Load reads when it scans them: it enumerates the keys
\* bl:ips:<user>, so a user for whom Redis holds no IP set is not loaded,
\* whatever else Redis holds, ...
LoadKeys(redis) == {u \in Users : redis[u].ips # {}} \X Fields

\* ... and which of those left comes next: user by user, in whatever order SCAN
\* returned them.
NextKeys(keys) ==
  {k \in keys : \A o \in keys :
     IF o[1] = k[1]
     THEN \E m, n \in DOMAIN ReadOrder : k[2] = ReadOrder[m] /\ o[2] = ReadOrder[n] /\ m <= n
     ELSE <<o[1], "ips">> \in keys}

\* Load of a process that is alone: what it scanned for does not change before it is
\* read.
Load(redis) == Overlay(EmptyBaselines, redis, LoadKeys(redis))

\* What makes Load read back what was learned: no successful access without a
\* source IP.
AccessesHaveOrigin(S) == \A e \in S : IsSuccessfulAccess(e) => e.ip # NoIP

\* The events of S that come before e in the order WindowEvents returns them
Earlier(S, e) == {f \in S : f.ts < e.ts \/ (f.ts = e.ts /\ f.id < e.id)}

\* Redis when pipe.Exec gave up at the event e of S, behind the first n of the
\* commands an event has.
WrittenUpTo(redis, mem, S, e, n) ==
  Overlay(WriteThrough(redis, mem, Earlier(S, e)), WriteThrough(redis, mem, Earlier(S, e) \cup {e}),
          {<<e.user, WriteOrder[m]>> : m \in 1 .. n})

\* The baselines of a history that was learned once, event by event.
BaselineOf(S) == Learn(EmptyBaselines, S)

-----------------------------------------------------------------------------
(* Findings *)

Earliest(S) == CHOOSE e \in S : \A f \in S : e.ts < f.ts \/ (e.ts = f.ts /\ e.id <= f.id)

Severity(type) ==
  CASE type \in {"privilege_escalation", "data_exfiltration"} -> "critical"
    [] type \in {"credential_stuffing", "lateral_movement", "sensitive_data_exposure"} -> "high"
    [] type \in {"identity_anomaly", "off_hours_access"} -> "medium"

\* model.Candidate, with the evidence reduced to how many events it covers.
Finding(type, entity, user, ip, S) ==
  [type |-> type, entity |-> entity, user |-> user, ip |-> ip,
   start |-> Min({e.ts : e \in S}), end |-> Max({e.ts : e \in S}), size |-> Cardinality(S)]

CredentialStuffing(S) ==
  LET Fails(ip) == {e \in S : /\ e.status = "failure" /\ e.ip = ip
                              /\ e.type \in {"console_login", "ssh_login"}}
  IN {Finding("credential_stuffing", ip, NoUser, ip, Fails(ip)) :
        ip \in {p \in IPs : /\ Cardinality(Fails(p)) >= StuffingFailures
                            /\ Cardinality({e.user : e \in Fails(p)}) >= StuffingMinUsers}}

\* A user name may be empty here, as in the code: then so must the target be.
PrivilegeEscalation(S) ==
  LET Grants(u) == {e \in S : /\ e.type = "permission_change" /\ e.status = "success"
                              /\ e.user = u /\ e.target = u /\ e.elevated}
  IN {Finding("privilege_escalation", u, u, Earliest(Grants(u)).ip, Grants(u)) :
        u \in {v \in Users \cup {NoUser} : Grants(v) # {}}}

LateralMovement(S) ==
  LET Hops(u) == {e \in S : /\ e.type = "ssh_login" /\ e.status = "success"
                            /\ e.user = u /\ e.host # NoHost}
  IN {Finding("lateral_movement", u, u, Earliest(Hops(u)).ip, Hops(u)) :
        u \in {v \in Users : Cardinality({e.host : e \in Hops(v)}) >= LateralDistinctHosts}}

DataExfiltration(S) ==
  LET Transfers(u) == {e \in S : e.type = "data_transfer" /\ e.user = u}
      Volume(u)    == MapThenSumSet(LAMBDA e : e.bytes, Transfers(u))
  IN {Finding("data_exfiltration", u, u, Earliest(Transfers(u)).ip, Transfers(u)) :
        u \in {v \in Users : Volume(v) >= ExfilBytes}}

\* The finding is keyed by the user, else the host, else the source IP.
ExposureKey(e) ==
  IF e.user # NoUser THEN e.user ELSE IF e.host # NoHost THEN e.host ELSE e.ip

SensitiveDataExposure(S) ==
  LET Leaking    == {e \in S : e.leaks # {}}
      LeaksOf(k) == {e \in Leaking : ExposureKey(e) = k}
  IN {Finding("sensitive_data_exposure", k, Earliest(LeaksOf(k)).user,
              Earliest(LeaksOf(k)).ip, LeaksOf(k)) : k \in {ExposureKey(e) : e \in Leaking}}

IdentityAnomaly(S, bl) ==
  LET NewOrigin(u, ip) ==
        {e \in S : /\ e.type = "console_login" /\ e.status = "success"
                   /\ e.user = u /\ e.ip = ip
                   /\ bl[u].logins >= IdentityMinLogins /\ ip \notin bl[u].ips}
  IN {Finding("identity_anomaly", k[1], k[1], k[2], NewOrigin(k[1], k[2])) :
        k \in {k \in Users \X IPs : NewOrigin(k[1], k[2]) # {}}}

OffHoursAccess(S, bl) ==
  LET Mature(u) == /\ bl[u].events >= OffHoursMinEvents
                   /\ Cardinality(bl[u].days) >= OffHoursMinDays
      Quiet(u, h) == \A d \in -2 .. 2 : bl[u].hours[(h + d + 24) % 24] = 0
      Odd(u) == {e \in Feeding(S, u) : Mature(u) /\ Quiet(u, HourOf(e.ts))}
  IN {Finding("off_hours_access", u, u, Earliest(Odd(u)).ip, Odd(u)) :
        u \in {v \in Users : Odd(v) # {}}}

\* The five detectors that ignore the baselines.
RuleFindings(S) ==
  UNION {CredentialStuffing(S), PrivilegeEscalation(S), LateralMovement(S),
         DataExfiltration(S), SensitiveDataExposure(S)}

\* detect.All over one window.
Findings(S, bl) == RuleFindings(S) \cup IdentityAnomaly(S, bl) \cup OffHoursAccess(S, bl)

=============================================================================
