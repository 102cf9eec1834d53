\* An id reused by a second session, one killer, both ways the end is found.
SPECIFICATION Spec
CONSTANTS
  u1 = u1
  u2 = u2
  s1 = s1
  k1 = k1
  h1 = h1
  h2 = h2
  Uids <- TwoUids
  Sids <- OneSid
  SidOf <- SameSid
  MaxSessions = 2
  Killers <- OneKiller
  Handlers <- NoClient
  NaturalPoll = TRUE
  EofOnExit = TRUE
  KillDuringCreate = FALSE
  MaySkipHold = TRUE
  JoinMayTimeOut = FALSE
INVARIANTS
  RegistryConsistent
  ArchivedOnce
  NoOrphan
  NoUseAfterRelease
