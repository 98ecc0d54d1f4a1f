----------------------------- MODULE Generator -----------------------------
(***************************************************************************)
(* The synthetic dataset of internal/gen against the detectors it is made  *)
(* for: the draws of the generator are choices, bounded by Extremes to the *)
(* ends of each range, and the thresholds are those of detect.Defaults.    *)
(* HTTP requests, in which no detector finds anything, are left out.       *)
(* Time is in seconds, bytes are counted in units of 100,000.              *)
(*                                                                         *)
(* One user of the fleet is followed, for the baselines of users do not    *)
(* touch each other; the others are the victims of credential stuffing,    *)
(* whose number (18 to 40) is cut to the size of the fleet.  A case fixes  *)
(* that user, which attacks are made, and the draws of the benign events;  *)
(* the draws of the attacks are free.                                      *)
(***************************************************************************)
EXTENDS WindowQueries, Scoring, Secrets, TLC

CONSTANTS
  User, Fleet,            \* the user that is followed, and the others
  Home, Office, Fresh,    \* its origins, and those of attackers
  Midnight,               \* p.Start, the midnight of day 0
  Days,
  SprayHours,             \* the hours of UTC in which passwords are guessed
  Cases,                  \* what is generated, see the variables
  Extremes                \* which ends of a range are drawn

Kinds == {"login", "typo", "call", "ssh", "log", "transfer", "grant"}

ASSUME GeneratorAssumption ==
  /\ User \in Users /\ Fleet \subseteq Users \ {User} /\ IsFiniteSet(Fleet)
  /\ IsFiniteSet(Hosts) /\ Cardinality(Hosts) >= 14
  /\ Midnight \in Nat /\ Midnight >= 24 * 3600 /\ Days \in Nat
  /\ {Home, Office, Fresh} \subseteq IPs
  /\ Extremes \subseteq {"low", "high"} /\ SprayHours \subseteq 0 .. 23
  /\ Cases \subseteq
       [zone : -480 .. 540, workStart : 7 .. 9, workEnd : 17 .. 20, office : BOOLEAN,
        plan : Seq(AlertTypes),
        warm : [x : Extremes, denied : {"none", "first", "last"}],
        organic : [kind : Kinds, x : Extremes, hour : {"first", "last", "shoulder"}, day : Nat]]

VARIABLES
  zone, workStart, workEnd, office,   \* the user: minutes east of UTC, working hours
  plan,                               \* the attacks still to be made, by type
  warm,                               \* the draws of the warm-up, and its denied calls
  organic,                            \* an organic event: kind, hour, day and draws
  events, attacks,                    \* the dataset, what a drain needs no more left out
  breached,                           \* users whose account an attacker entered
  alerts, mem, next,                  \* a drain of it: what it found and learned, and its window
  stage

draining == <<alerts, mem, next>>
user == <<zone, workStart, workEnd, office, warm, organic>>
vars == <<user, plan, events, attacks, breached, draining, stage>>

Hour == 3600
Day  == 24 * Hour

\* makeFleet
Init ==
  /\ \E c \in Cases :
       /\ zone = c.zone /\ workStart = c.workStart /\ workEnd = c.workEnd
       /\ office = c.office /\ plan = c.plan
       /\ warm = c.warm /\ organic = c.organic
  /\ events = {} /\ attacks = {} /\ breached = {}
  /\ alerts = <<>> /\ mem = EmptyBaselines /\ next = 0
  /\ stage = "attacks"

\* An end of the range low .. high
Draw(x, low, high) == IF x = "low" THEN low ELSE high

LocalTS(day, hour, minute) == Midnight + day * Day + hour * Hour + minute * 60 - zone * 60

\* g.r.Perm, one of the orders
Listing(S) == FoldSet(LAMBDA e, s : Append(s, e), <<>>, S)

\* userIP
UserIP(x) == IF office /\ x = "high" THEN Office ELSE Home

-----------------------------------------------------------------------------
(* Event constructors *)

LogEvent(type, status, name, ip, ts) ==
  [id |-> 0, ts |-> ts, type |-> type, status |-> status, user |-> name, ip |-> ip,
   host |-> NoHost, bytes |-> 0, target |-> NoUser, elevated |-> FALSE, leaks |-> {}]

ConsoleLogin(name, ts, ip, ok) ==
  LogEvent("console_login", IF ok THEN "success" ELSE "failure", name, ip, ts)

\* One call in fifty is denied.
APICall(name, ts, ip, ok) ==
  LogEvent("api_call", IF ok THEN "success" ELSE "denied", name, ip, ts)

SSHLogin(ts, ip, host) == [LogEvent("ssh_login", "success", User, ip, ts) EXCEPT !.host = host]

AppLog(ts, message) ==
  [LogEvent("app_log", "info", User, NoIP, ts) EXCEPT !.leaks = ClassifyMessage(message)]

DataTransfer(ts, ip, bytes) ==
  [LogEvent("data_transfer", "success", User, ip, ts) EXCEPT !.bytes = bytes]

PermissionChange(ts, ip, target, elevated, status) ==
  [LogEvent("permission_change", status, User, ip, ts) EXCEPT
     !.target = target, !.elevated = elevated]

\* n events that start at ts and are gap seconds apart
Burst(n, ts, gap, Make(_, _)) == [i \in 1 .. n |-> Make(i, ts + (i - 1) * gap)]

Emit(es) ==
  events' = events \cup {[es[i] EXCEPT !.id = Cardinality(events) + i] : i \in DOMAIN es}

\* manifest: two of the attacks end a pause after their last event.
Manifest(type, entity, es, pause) ==
  LET span == {es[i].ts : i \in DOMAIN es}
  IN attacks' = attacks \cup
       {[id |-> Cardinality(attacks) + 1, type |-> type, entity |-> entity,
         start |-> Min(span), end |-> Max(span) + pause]}

-----------------------------------------------------------------------------
(* makeAttacks *)

\* A mutant of AttackDays: the attacks begin while the baselines mature.
DayEarly == 2 .. Days - 2

\* From attackDayMin on
AttackDays == 3 .. Days - 1

Make(type, entity, es, pause) ==
  /\ stage = "attacks" /\ plan # <<>> /\ Head(plan) = type
  /\ Emit(es) /\ Manifest(type, entity, es, pause)
  /\ plan' = Tail(plan)
  /\ UNCHANGED <<user, draining, stage>>

\* Failed logins against the fleet from a fresh address, at an hour of UTC;
\* half the time followed by a success.
AttackStuffing ==
  \E x \in Extremes, day \in AttackDays, h \in SprayHours, entered \in {{}, {User}} :
    LET names  == Listing(Fleet \cup {User})
        fails  == Draw(x, 25, 66)
        length == Draw(x, 150, 329)
        base   == Midnight + day * Day + h * Hour + Draw(x, 0, 59) * 60
        spray  == [i \in 1 .. fails |->
                     ConsoleLogin(names[1 + (i % Len(names))],
                                  base + (length * (i - 1)) \div fails, Fresh, FALSE)]
        in     == spray[fails].ts + Draw(x, 10, 49)
        breach == <<ConsoleLogin(User, in, Fresh, TRUE)>> \o
                  Burst(Draw(x, 2, 4), in + Draw(x, 30, 149), Draw(x, 30, 149),
                        LAMBDA i, ts : APICall(User, ts, Fresh, TRUE))
    IN /\ Make("credential_stuffing", Fresh, IF entered = {} THEN spray ELSE spray \o breach, 0)
       /\ breached' = breached \cup entered

\* A grant of "admin" to oneself, sometimes after one that was denied
AttackPrivEsc ==
  \E x, y \in Extremes, day \in AttackDays :
    LET ts == LocalTS(day, workStart + Draw(x, 0, 5), Draw(x, 0, 59))
        Grant(status, t) == PermissionChange(t, UserIP(y), User, TRUE, status)
    IN /\ Make("privilege_escalation", User,
               IF x = "low" THEN <<Grant("success", ts)>>
               ELSE <<Grant("denied", ts), Grant("success", ts + Draw(y, 20, 109))>>, 0)
       /\ UNCHANGED breached

\* The three messages of attackSecretLeak: neither aws_access_key_id nor
\* stripe_secret is a key that the classifier knows, for it wants a whole word.
RealSecret(form) ==
  [form |-> form, keyed |-> FALSE, mark |-> "none", mixed |-> TRUE, shown |-> TRUE]

LeakedMessage(i) == {RealSecret(<<"aws", "uri", "stripe_live">>[1 + ((i - 1) % 3)])}

AttackSecretLeak ==
  \E x, y \in Extremes, day \in AttackDays :
    /\ Make("sensitive_data_exposure", User,
            Burst(Draw(x, 1, 3), LocalTS(day, workStart + Draw(x, 0, 6), Draw(x, 0, 59)),
                  Draw(y, 30, 329), LAMBDA i, ts : AppLog(ts, LeakedMessage(i))), 0)
    /\ UNCHANGED breached

AttackNewLocation ==
  \E x, y \in Extremes, day \in AttackDays :
    /\ Make("identity_anomaly", User,
            Burst(1 + Draw(y, 2, 4), LocalTS(day, workStart + 1 + Draw(x, 0, 4), Draw(x, 0, 59)),
                  Draw(y, 40, 239),
                  LAMBDA i, ts : IF i = 1 THEN ConsoleLogin(User, ts, Fresh, TRUE)
                                 ELSE APICall(User, ts, Fresh, TRUE)), 0)
    /\ UNCHANGED breached

AttackLateral ==
  \E x, y \in Extremes, day \in AttackDays :
    LET reached == Listing(Hosts)
    IN /\ Make("lateral_movement", User,
               Burst(Draw(x, 8, 14), LocalTS(day, workStart + 1 + Draw(x, 0, 4), Draw(x, 0, 59)),
                     Draw(y, 20, 99), LAMBDA i, ts : SSHLogin(ts, UserIP(x), reached[i])),
               Draw(y, 20, 99))
       /\ UNCHANGED breached

\* From 02:00 of the user's local time, from home
AttackOffHours ==
  \E x, y \in Extremes, day \in AttackDays :
    /\ Make("off_hours_access", User,
            Burst(1 + Draw(x, 3, 7), LocalTS(day, 2, Draw(x, 0, 49)), Draw(y, 60, 559),
                  LAMBDA i, ts : IF i = 1 THEN ConsoleLogin(User, ts, Home, TRUE)
                                 ELSE APICall(User, ts, Home, TRUE)), 0)
    /\ UNCHANGED breached

\* 8 to 24 equal transfers of 400 MB to 3 GB in all; the least is drawn, for
\* more is found more easily.
AttackExfil ==
  \E x, y \in Extremes, day \in AttackDays :
    LET n == Draw(x, 8, 24)
    IN /\ Make("data_exfiltration", User,
               Burst(n, LocalTS(day, workStart + Draw(x, 0, 5), Draw(x, 0, 59)), Draw(y, 15, 74),
                     LAMBDA i, ts : DataTransfer(ts, UserIP(x), 4000 \div n)),
               Draw(y, 15, 74))
       /\ UNCHANGED breached

AttacksMade ==
  /\ stage = "attacks" /\ plan = <<>>
  /\ stage' = "forced"
  /\ UNCHANGED <<user, plan, events, attacks, breached, draining>>

-----------------------------------------------------------------------------
(* Benign activity *)

\* A mutant of WarmHours: the working hours alone.
WorkingHours == [i \in 1 .. workEnd - workStart + 1 |-> workStart + i - 1]

\* The hours that the warm-up touches
WarmHours == [i \in 1 .. workEnd - workStart + 4 |-> workStart + i - 2]

\* A mutant of WarmDay: a user with an office does not log in from it.
WarmDayAtHome(day, x, denied) ==
  <<ConsoleLogin(User, LocalTS(day, workStart, Draw(x, 0, 29)), Home, TRUE),
    ConsoleLogin(User, LocalTS(day, workStart + 1, Draw(x, 0, 29)), Home, TRUE)>>
  \o [i \in DOMAIN WarmHours |->
        APICall(User, LocalTS(day, WarmHours[i], Draw(x, 0, 59)), Home, WarmHours[i] # denied)]

\* A day of forcedBaseline: two logins, a call in each hour, and its hosts.
WarmDay(day, x, denied) ==
  <<ConsoleLogin(User, LocalTS(day, workStart, Draw(x, 0, 29)), Home, TRUE),
    ConsoleLogin(User, LocalTS(day, workStart + 1, Draw(x, 0, 29)),
                 IF office THEN Office ELSE Home, TRUE)>>
  \o [i \in DOMAIN WarmHours |->
        APICall(User, LocalTS(day, WarmHours[i], Draw(x, 0, 59)), UserIP(x),
                WarmHours[i] # denied)]
  \o Burst(Draw(x, 2, 4), LocalTS(day, workStart + Draw(x, 2, 4), Draw(x, 0, 59)), 0,
           LAMBDA i, ts : SSHLogin(ts, UserIP(x), Listing(Hosts)[i]))

\* The hour of the band, if any, whose call is denied on both days
DeniedHour ==
  CASE warm.denied = "first" -> workStart - 1
    [] warm.denied = "last"  -> workEnd + 2
    [] warm.denied = "none"  -> 24

\* ... and one more login from each place on day 2.
ForcedBaseline ==
  /\ stage = "forced"
  /\ LET x == warm.x
     IN Emit(WarmDay(0, x, DeniedHour) \o WarmDay(1, x, DeniedHour)
             \o <<ConsoleLogin(User, LocalTS(2, workStart, Draw(x, 0, 44)), Home, TRUE)>>
             \o IF office
                THEN <<ConsoleLogin(User, LocalTS(2, workStart + 2, Draw(x, 0, 44)), Office, TRUE)>>
                ELSE <<>>)
  /\ stage' = "benign"
  /\ UNCHANGED <<user, plan, attacks, breached, draining>>

\* The messages of placeholderLogs
Placeholders ==
  {{[form |-> p[1], keyed |-> p[2], mark |-> p[3], mixed |-> p[4], shown |-> TRUE]} :
     p \in {<<"aws", FALSE, "EXAMPLE", TRUE>>, <<"stripe_test", FALSE, "EXAMPLE", TRUE>>,
            <<"card", FALSE, "reserved", FALSE>>, <<"plain", TRUE, "placeholder", TRUE>>,
            <<"plain", TRUE, "placeholder", FALSE>>}}

\* What one organic event of a kind may be.  A mistyped password is followed by
\* a login, and an admin grants rights that are not elevated.
OrganicEvents(kind, ts, ip) ==
  CASE kind = "login"    -> {<<ConsoleLogin(User, ts, ip, TRUE)>>}
    [] kind = "typo"     -> {<<ConsoleLogin(User, ts, ip, FALSE),
                               ConsoleLogin(User, ts + 5, ip, TRUE)>>}
    [] kind = "call"     -> {<<APICall(User, ts, ip, TRUE)>>}
    [] kind = "ssh"      -> {<<SSHLogin(ts, ip, Listing(Hosts)[1])>>}
    [] kind = "log"      -> {<<AppLog(ts, m)>> : m \in Placeholders}
    [] kind = "transfer" -> {<<DataTransfer(ts, ip, 201)>>}
    [] kind = "grant"    -> {<<PermissionChange(ts, ip, u, FALSE, "success")>> : u \in Fleet \cup {User}}

\* An end of the working band, or the last hour of the evening shoulder
OrganicHour ==
  CASE organic.hour = "first"    -> workStart
    [] organic.hour = "last"     -> workEnd
    [] organic.hour = "shoulder" -> IF workEnd + 2 > 23 THEN 23 ELSE workEnd + 2

\* Three calls a day, without which no baseline of activity matures, and the
\* organic event of the case.
Benign ==
  /\ stage = "benign"
  /\ \E es \in OrganicEvents(organic.kind,
                             LocalTS(organic.day, OrganicHour, Draw(organic.x, 0, 59)),
                             UserIP(organic.x)) :
       Emit([i \in 1 .. 3 * Days |->
               APICall(User, LocalTS((i - 1) \div 3, workStart + 1 + 2 * (i % 3), 30), Home, TRUE)]
            \o es)
  /\ stage' = "drain"
  /\ UNCHANGED <<user, plan, attacks, breached, draining>>

-----------------------------------------------------------------------------

\* Where Drain sweeps next: it starts at the first event, and the windows without
\* events, which change nothing, are stepped over.
NextWindow ==
  IF next = 0 THEN Origin(events) ELSE Max({next, Origin(events) - Step})

Drainable == events # {} /\ NextWindow < Max({e.ts : e \in events})

\* Pipeline.Drain over the dataset.  The events that no later window reads are
\* dropped.
DrainWindow ==
  /\ stage = "drain" /\ Drainable
  /\ LET t == NextWindow
         S == WindowEvents(events, t)
     IN /\ \E f \in Orders(Findings(S, mem)) : alerts' = Store(alerts, f)
        /\ mem' = Learn(mem, LeadEvents(S, t))
        /\ events' = {e \in events : e.ts >= t + Step}
        /\ next' = t + Step
  /\ UNCHANGED <<user, plan, attacks, breached, stage>>

Drained ==
  /\ stage = "drain" /\ ~Drainable
  /\ stage' = "done"
  /\ UNCHANGED <<user, plan, events, attacks, breached, draining>>

Attacking ==
  \/ AttackStuffing \/ AttackPrivEsc \/ AttackSecretLeak \/ AttackNewLocation
  \/ AttackLateral \/ AttackOffHours \/ AttackExfil

Next == Attacking \/ AttacksMade \/ ForcedBaseline \/ Benign \/ DrainWindow \/ Drained

Spec == Init /\ [][Next]_vars

-----------------------------------------------------------------------------
(* Properties *)

Span == Midnight - Day .. Midnight + (Days + 1) * Day

\* What is generated are rows of logs and of the manifest, with an id of their
\* own, and an attack begins after three days of the user's time (of UTC, for
\* stuffing), ends after it begins, and is a part of the dataset.
TypeOK ==
  /\ stage \in {"attacks", "forced", "benign", "drain", "done"}
  /\ plan \in Seq(AlertTypes) /\ breached \subseteq Users
  /\ stage = "drain" /\ next = 0 => events \subseteq Event
  /\ stage = "done" => alerts \in Seq(AlertRow) /\ mem \in [Users -> UserBaseline]
  /\ attacks \subseteq Attack
  /\ \A a \in attacks :
       /\ a.start <= a.end /\ {a.start, a.end} \subseteq Span
       /\ a.start >= Midnight + 3 * Day - Max({zone, 0}) * 60

Results == Scores(attacks, alerts)

\* "The zero-benign-FP result rests on these generator invariants" (gen_test.go):
\* no benign event raises an alert, for a user of any time zone and working
\* hours, at the ends of the working band and on its evening shoulder, from the
\* moment the baselines are mature, although their hours are those of UTC.
BenignStaysQuiet == stage = "done" => \A r \in Results : r.benignFP = 0

\* "recall 100%" (README.md): every attack the generator makes is found by its
\* own detector, however its burst lies across the windows; except that an
\* intruder who entered the account at the same hour may have taught the
\* baseline what an off-hours attack does.
AttacksAreFound ==
  stage = "done" => \A r \in Results : \A a \in r.missed :
    a.type = "off_hours_access" /\ a.entity \in breached

\* The samples kept with an alert never re-leak a key or a password
\* (redactSamples): what RedactMessage leaves of a message, the classifier finds
\* none in; and it leaves no less than that, for a documented example survives.
\* It is about every token and no state, so it is evaluated in the first ones.
RedactionHides ==
  stage = "attacks" => \A k \in Token :
    LET m == RedactMessage({k})
    IN /\ ClassifyMessage(m) \cap {"aws_key", "api_secret", "db_password"} = {}
       /\ k.mark = "EXAMPLE" /\ k.form # "uri" => m = {k}

\* The thresholds are within reach of the attacks, as the defaults of detect.go
\* are, and the fleet has users enough for a stuffing run to guess at.
WithinReach ==
  /\ Step = 600 /\ LateralDistinctHosts <= 7 /\ ExfilBytes <= 1500
  /\ StuffingFailures <= 25 /\ StuffingMinUsers <= 25
  /\ StuffingMinUsers <= Cardinality(Fleet \cup {User})

=============================================================================
