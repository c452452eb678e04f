CONSTANTS
  a = a
  b = b
  c = c
  d = d
  old = old
  was = was
  None = None
  Bad = Bad
  Names = {a, b, c, d}
  SuffixNames = {old, was}
  Scopes <- MCScopes
SPECIFICATION Spec
INVARIANTS TypeOK ReachesRight InnerFirst NeverPanics OutputComplete NoCycleLost MembersFollowed InnermostWins CopiesApart EffectReported
