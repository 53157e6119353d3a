SPECIFICATION Spec
CONSTANTS
  p1 = p1
  p2 = p2
  p3 = p3
  u1 = u1
  u2 = u2
  Clients = {p1}
  User = {u1}
  UserOf <- OneUser
  Input <- OneButton
  WordBits = 5
  Compress <- BvCompress
  Decompress <- BvDecompress
  EncodedLen <- EncodedBytes
  MAX_PACKET_SIZE = 33
  MaxInputs = 1
  MaxTick = 7
  MaxProbes = 0
  MaxWorldQueue = 0
  MaxAppQueue = 1
  MaxAppMessages = 2
  MaxWorlds = 0
  OversizedWorlds = {}
  AppTicks = {}
  QuittingClients = {}
  ServerMayQuit = FALSE
INVARIANTS
  OneInputPerTick
