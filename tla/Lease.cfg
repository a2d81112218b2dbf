SPECIFICATION FairSpec
CONSTANTS
  Process = {p1, p2, m1}
  Maintainer = {m1}
  NoProcess = NoProcess
  Ttl = 3
  MaxDelay = 1
  MaxToken = 4
  MaxGeneration = 2
INVARIANTS
  TypeOK
  TokenUnique
  AtMostOneAccepted
PROPERTIES
  StaleLeaderCommitsNothing
  
  LeadershipRecovers
