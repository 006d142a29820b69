SPECIFICATION Spec
CONSTANTS
  c1 = c1
  c2 = c2
  NoClient = NoClient
  Clients = {c1}
  Settings <- EmptySettings
  MRPH_MAX = 2
INVARIANT InSync
