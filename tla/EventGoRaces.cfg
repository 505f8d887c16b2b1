SPECIFICATION EventSpec
CONSTANTS
  u1 = u1
  u2 = u2
  org = org
  adm = adm
  a1 = a1
  Keep = Keep
  Free = Free
  Request = {1, 2, 3}
  Change = {1, 2}
  User <- MCUser
  Admin <- MCAdmin
  Staff <- MCStaff
  Activity = {a1}
  OrganizerOf <- MCOrganizerOf
  InitialActivity <- TwoPlaces
  InitialExpired = {}
  Workload <- MCWorkload
  ChangeWorkload <- MCChangeWorkload
  UniqueActivityUser = TRUE
INVARIANTS
  AttendanceKept
  NobodyWaitsTwice
PROPERTIES
  PromiseKept
  QuotaLostOnlyByEdit
