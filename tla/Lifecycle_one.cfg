\* One session with two handlers that hold it and a killer; the end is found
\* by polling only (ConPTY).
SPECIFICATION FairSpec
CONSTANTS
  u1 = u1
  u2 = u2
  s1 = s1
  k1 = k1
  h1 = h1
  h2 = h2
  Uids <- OneUid
  Sids <- OneSid
  SidOf <- SameSid
  MaxSessions = 2
  Killers <- OneKiller
  Handlers <- TwoHandlers
  NaturalPoll = TRUE
  EofOnExit = FALSE
  KillDuringCreate = FALSE
  MaySkipHold = FALSE
  JoinMayTimeOut = FALSE
PROPERTIES
  EndedIsArchived
  ReleaseHonoured
