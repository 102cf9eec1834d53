\* A killer while the session is being created.
SPECIFICATION Spec
CONSTANTS
  u1 = u1
  u2 = u2
  s1 = s1
  k1 = k1
  h1 = h1
  h2 = h2
  Uids <- OneUid
  Sids <- OneSid
  SidOf <- SameSid
  MaxSessions = 2
  Killers <- OneKiller
  Handlers <- NoClient
  NaturalPoll = TRUE
  EofOnExit = TRUE
  KillDuringCreate = TRUE
  MaySkipHold = FALSE
  JoinMayTimeOut = FALSE
INVARIANTS
  NoOrphan
