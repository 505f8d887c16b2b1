SPECIFICATION FairSpec
CONSTANTS
  register = register
  comment = comment
  Request <- MCRequest
  Register = {register}
  MaxFault = 4
  MaxSend = 2
INVARIANTS
  Inductive
  RefsMeant
  PresetsServed
  AuditTrue
  AuditGap
  RepeatedOnlyIfLost
  GracefulStop
PROPERTY
  ServesAgain
