SPECIFICATION Spec
CONSTANTS
  Callers = {c1}
  Registrars = {"main", "late"}
  Main = "main"
  Plan <- MCPlan
  Unknown = "unknown"
  ParamSets <- MCParamSets
  Idle = Idle
INVARIANTS
  DescribedAsDeclared
  AnswersByContract
PROPERTIES
  NotFoundOnlyWhileRegistering
