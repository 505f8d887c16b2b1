SPECIFICATION EngagementSpec
CONSTANTS
  u1 = u1
  u2 = u2
  org = org
  adm = adm
  a1 = a1
  a2 = a2
  Keep = Keep
  Free = Free
  Change = {1, 2}
  Session = {}
  Visit = {1, 2, 3}
  User <- MCUser
  Admin = {adm}
  Activity <- MCActivity
  OrganizerOf <- MCOrganizerOf
  InitialActivity <- BothPublished
  ChangeWorkload <- MCChangeWorkload
  VisitWorkload <- MCVisitWorkload
INVARIANTS
  EngagementInductive
  FavoriteKept
  CommentKept
PROPERTIES
  OrphansSettle
  AverageOfList
