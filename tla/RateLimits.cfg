SPECIFICATION Spec
SYMMETRY ClientSymmetry
CONSTANTS
  c1 = c1
  c2 = c2
  Client = {c1, c2}
  RateLimitPerMinute = 2
  Minute = 2
  Horizon = 5
INVARIANTS
  Inductive
  AtMostPerMinute
PROPERTY
  RejectsOnlyTheBusy
