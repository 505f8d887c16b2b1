SPECIFICATION HistorySpec
CONSTANTS
  org = org
  other = other
  adm = adm
  a1 = a1
  a2 = a2
  Keep = Keep
  Free = Free
  Change = {1, 2, 3, 4}
  Session = {}
  User <- MCUser
  Admin <- MCAdmin
  Activity <- MCActivity
  OrganizerOf <- MCOrganizerOf
  InitialActivity <- Published
  ChangeWorkload <- MCChangeWorkload
PROPERTY
  EndedNotPublished
