SPECIFICATION Spec
CONSTANTS
  i1 = i1  i2 = i2  u1 = u1  u2 = u2  ipA = ipA  ipB = ipB  h1 = h1
  Instances = {i1, i2}
  Users = {u1, u2}
  IPs = {ipA, ipB}
  Hosts = {h1}
  NoUser = NoUser  NoIP = NoIP  NoHost = NoHost
  Nobody = Nobody  Dead = Dead  Unset = Unset
  Events <- MCEvents
  Step = 2
  Lag = 1
  MaxNow = 10
  TicksPerHour = 1
  StuffingFailures = 2
  StuffingMinUsers = 2
  LateralDistinctHosts = 1
  ExfilBytes = 1
  IdentityMinLogins = 1
  OffHoursMinEvents = 9
  OffHoursMinDays = 1
  Faults = {"lapse_idle", "crash"}
  MaxFaults = 2
SYMMETRY MCSymmetry
INVARIANT JudgesByHistory
