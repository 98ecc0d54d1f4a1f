SPECIFICATION Spec
CONSTANTS
  u1 = u1  u2 = u2  home = home  cafe = cafe  lab = lab  bad = bad  h1 = h1
  Users = {u1, u2}
  IPs = {home, cafe, lab, bad}
  Hosts = {h1}
  NoUser = NoUser  NoIP = NoIP  NoHost = NoHost  Unset = Unset  NoRun = NoRun
  Events <- MCTiedEvents
  Datasets <- MCTied
  Chunk = 2
  Step = 2
  Lag = 1
  MaxNow = 15
  MergePad = 3
  ScorePad = 2
  ListLimit = 4
  TicksPerHour = 12
  StuffingFailures = 2
  StuffingMinUsers = 2
  LateralDistinctHosts = 2
  ExfilBytes = 1
  IdentityMinLogins = 3
  OffHoursMinEvents = 9
  OffHoursMinDays = 1
INVARIANT EvalReproducible
