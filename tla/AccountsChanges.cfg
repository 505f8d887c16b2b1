SPECIFICATION Spec
CONSTANTS
  s1 = s1
  s2 = s2
  Blank = Blank
  NoUser = NoUser
  Request = {1, 2, 3, 4, 5, 6}
  Username <- MCUsername
  Trim <- MCTrim
  Key <- MCKey
  Length <- MCLength
  Secret <- MCSecret
  Field <- MCField
  AccountWorkload <- MCAccountWorkload
INVARIANTS
  Inductive
  LostToOverlapOnly
PROPERTIES
  ImplementsDirectory
