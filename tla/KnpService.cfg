SPECIFICATION FairSpec
CONSTANTS
  c1 = c1
  c2 = c2
  NoClient = NoClient
  Clients = {c1, c2}
  Settings <- MCSettings
  MRPH_MAX = 2
INVARIANTS TypeOK NoZombieForgotten
PROPERTIES ServiceSpec NotLeftWaiting
