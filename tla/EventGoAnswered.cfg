SPECIFICATION FairEventSpec
CONSTANTS
  u1 = u1
  u2 = u2
  org = org
  adm = adm
  a1 = a1
  Keep = Keep
  Free = Free
  Request = {1, 2, 3}
  Change = {1}
  User <- MCUser
  Admin <- MCAdmin
  Staff <- MCStaff
  Activity = {a1}
  OrganizerOf <- MCOrganizerOf
  InitialActivity <- OnePlace
  InitialExpired = {}
  Workload <- ContentionWorkload
  ChangeWorkload <- MCChangeWorkload
  UniqueActivityUser = FALSE
PROPERTY
  AllAnswered
CHECK_DEADLOCK FALSE
