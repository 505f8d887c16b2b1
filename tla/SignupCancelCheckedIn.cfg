SPECIFICATION Spec
CONSTANTS
  u1 = u1
  u2 = u2
  org = org
  other = other
  adm = adm
  a1 = a1
  a2 = a2
  Free = Free
  Request = {1, 2, 3, 4, 5}
  User <- MCUser
  Admin <- MCAdmin
  Staff <- MCStaff
  Activity <- MCActivity
  OrganizerOf <- MCOrganizerOf
  InitialActivity <- Unlimited
  InitialExpired <- MCExpired
  Workload <- LifecycleWorkload
  UniqueActivityUser = FALSE
PROPERTY
  CheckedInNotCancelled
