\* Polling starts the stop of the session while its reader meets the end.
SPECIFICATION FairSpec
CONSTANTS
  u1 = u1
  u2 = u2
  s1 = s1
  k1 = k1
  h1 = h1
  h2 = h2
  Uids <- OneUid
  Sids <- OneSid
  SidOf <- SameSid
  MaxSessions = 2
  Killers <- NoClient
  Handlers <- NoClient
  NaturalPoll = TRUE
  EofOnExit = TRUE
  KillDuringCreate = FALSE
  MaySkipHold = FALSE
  JoinMayTimeOut = FALSE
PROPERTIES
  ReleasedEventually
