SPECIFICATION Spec
CONSTANTS
  r1 = r1  r2 = r2  a1 = a1
  Requests = {r1, r2}
  Alerts = {a1}
  Envs <- MCEnvs
  Exchanges <- MCExchanges
  Decisions = {"open", "dismissed"}
  MaxEvidence = 2
CHECK_DEADLOCK FALSE
INVARIANTS
  TypeOK VerdictFitsEvidence VerdictOfOwnModel EveryVerdictWasGiven UsageIsReal DecisionStands
  KeysStayHome CompiledMeansVetted
PROPERTY EveryRequestEnds
