\* A gateway built without an approval manager.
CONSTANTS
  c1 = c1  c2 = c2  c3 = c3  a1 = a1  a2 = a2
  Call = {c1, c2, c3}
  Approval = {a1}
  Op = {"write", "run", "secrets"}
  None = None
  Context <- MCContext
  Rules <- MCRules
  ApprovalOnHighRisk = TRUE
  Managed = FALSE
  Version = {"1.0.0"}
  DefaultVersion = "1.0.0"
  MaxOperationRetries = 1
  MaxTaskRetries = 1
  MaxLives = 2
SYMMETRY Symmetry
SPECIFICATION Spec
INVARIANTS
  PolicyIsObeyed
CHECK_DEADLOCK FALSE
