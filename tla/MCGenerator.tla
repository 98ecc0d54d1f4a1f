---------------------------- MODULE MCGenerator ----------------------------
(***************************************************************************)
(* Users of three time zones, one of them half an hour off the hour, with  *)
(* the longest and the shortest working day.  Either nothing is attacked   *)
(* and the benign events vary, or attacks are made among fixed ones; the   *)
(* last plan lets an intruder in before an off-hours attack.               *)
(***************************************************************************)
EXTENDS Generator

CONSTANTS me, ann, bob, cas, dee, home, hq, fresh

MCUsers ==
  {[zone |-> w[1], workStart |-> w[2], workEnd |-> w[3], office |-> w[4]] :
     w \in {<<-480, 7, 20, TRUE>>, <<-480, 9, 17, FALSE>>, <<330, 7, 20, TRUE>>, <<540, 9, 17, FALSE>>}}

MCCase(u, p, w, o) ==
  [zone |-> u.zone, workStart |-> u.workStart, workEnd |-> u.workEnd, office |-> u.office,
   plan |-> p, warm |-> w, organic |-> o]

MCWarm    == [x |-> "low", denied |-> "none"]
MCWarms   == [x : Extremes, denied : {"none", "first", "last"}]
MCOrganic == [kind |-> "call", x |-> "high", hour |-> "last", day |-> Days - 1]
MCCalls   == [kind : {"call"}, x : Extremes, hour : {"first", "last", "shoulder"}, day : {1, Days - 1}]
MCOthers  == [kind : Kinds \ {"call"}, x : {"high"}, hour : {"last"}, day : {Days - 1}]

MCPlans == {<<t>> : t \in AlertTypes}
MCIntrusion == <<"credential_stuffing", "off_hours_access">>

MCCases ==
  {MCCase(u, <<>>, w, o) : u \in MCUsers, w \in MCWarms, o \in MCCalls}
  \cup {MCCase(u, <<>>, MCWarm, o) : u \in MCUsers, o \in MCOthers}
  \cup {MCCase(u, p, MCWarm, MCOrganic) : u \in MCUsers, p \in MCPlans}
  \cup {MCCase(u, MCIntrusion, MCWarm, MCOrganic) : u \in {v \in MCUsers : v.zone = -480 /\ ~v.office}}

\* The thresholds of this instance are what RuleAttacksAreFound asks of them.
ASSUME ReachAssumption == WithinReach
=============================================================================
