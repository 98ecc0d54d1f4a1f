SPECIFICATION Spec
CONSTANTS
  u1 = u1  ipA = ipA  h1 = h1
  Users = {u1}
  IPs = {ipA}
  Hosts = {h1}
  NoUser = NoUser  NoIP = NoIP  NoHost = NoHost
  Unset = Unset
  Events <- MCEvents
  Step = 2
  Lag = 1
  MaxNow = 16
  Interval = 4
  TailEvery = 2
  Lookback = 3
  MaxBatch = 2
  TicksPerHour = 1
  StuffingFailures = 2
  StuffingMinUsers = 2
  LateralDistinctHosts = 1
  ExfilBytes = 1
  IdentityMinLogins = 1
  OffHoursMinEvents = 9
  OffHoursMinDays = 1
CHECK_DEADLOCK FALSE
INVARIANT LatencyAsDocumented
