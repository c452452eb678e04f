CONSTANTS
  m1 = m1
  m2 = m2
  t1 = t1
  t2 = t2
  Acts <- MCActs
  Members = {m1, m2}
  MemberOf <- MCMemberOf
  Types = {t1, t2}
  Results <- MCResults
  Ok <- MCOk
  FromResidual <- MCFromResidual
  MaxCalls = 2
  Programs <- MCPrograms
  FIRST_FRAMES = 1
SPECIFICATION Spec
INVARIANTS TypeOK AnswersNative RightMember FrameMemory
PROPERTY Terminates
CHECK_DEADLOCK FALSE
