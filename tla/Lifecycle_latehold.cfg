\* A client that looked the session up before it ended takes its hold after.
SPECIFICATION Spec
CONSTANTS
  u1 = u1
  u2 = u2
  s1 = s1
  k1 = k1
  h1 = h1
  h2 = h2
  Uids <- OneUid
  Sids <- OneSid
  SidOf <- SameSid
  MaxSessions = 2
  Killers <- OneKiller
  Handlers <- OneHandler
  NaturalPoll = TRUE
  EofOnExit = TRUE
  KillDuringCreate = FALSE
  MaySkipHold = FALSE
  JoinMayTimeOut = FALSE
INVARIANTS
  NoUseAfterRelease
