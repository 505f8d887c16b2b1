SPECIFICATION ListSpec
CONSTANTS
  u1 = u1
  u2 = u2
  org = org
  other = other
  a1 = a1
  Free = Free
  Request = {1, 2, 3, 4}
  User <- MCUser
  Admin = {}
  Staff <- MCStaff
  Activity = {a1}
  OrganizerOf <- MCOrganizerOf
  InitialActivity <- Unlimited
  InitialExpired = {}
  Workload <- MCWorkload
  UniqueActivityUser = FALSE
  Report = {1, 2}
  ReportWorkload <- MCReportWorkload
  PageSize = 1
  CreatedAt <- MCCreatedAt
INVARIANTS
  ListingInductive
  WalkShowsAll
  ReadKnowingly
  SkewBounded
