SPECIFICATION Spec
CONSTANTS
  me = me  ann = ann  bob = bob  cas = cas  dee = dee  home = home  hq = hq  fresh = fresh
  User = me
  Fleet = {ann, bob, cas, dee}
  Users = {me, ann, bob, cas, dee}
  Home = home  Office = hq  Fresh = fresh
  IPs = {home, hq, fresh}
  Hosts = {1, 2, 3, 4, 5, 6, 7, 8, 9, 10, 11, 12, 13, 14}
  NoUser = NoUser  NoIP = NoIP  NoHost = NoHost
  Midnight = 86400
  Days = 5
  SprayHours = {4, 10, 21}
  Cases <- MCCases
  Extremes = {"low", "high"}
  Step = 600
  Lag = 120
  MergePad = 900
  ScorePad = 600
  ListLimit = 500
  TicksPerHour = 3600
  StuffingFailures = 12
  StuffingMinUsers = 5
  LateralDistinctHosts = 6
  ExfilBytes = 1500
  IdentityMinLogins = 5
  OffHoursMinEvents = 40
  OffHoursMinDays = 3
CHECK_DEADLOCK FALSE
INVARIANTS TypeOK BenignStaysQuiet AttacksAreFound RedactionHides
