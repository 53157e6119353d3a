SPECIFICATION FairSpec
CONSTANTS
  p1 = p1
  p2 = p2
  p3 = p3
  u1 = u1
  u2 = u2
  Clients = {p1}
  User = {u1}
  UserOf <- OneUser
  Input <- MixedButtons
  WordBits = 5
  Compress <- BvCompress
  Decompress <- BvDecompress
  EncodedLen <- EncodedBytes
  MAX_PACKET_SIZE = 33
  MaxInputs = 2
  MaxTick = 2
  MaxProbes = 1
  MaxWorldQueue = 1
  MaxAppQueue = 1
  MaxAppMessages = 2
  MaxWorlds = 1
  OversizedWorlds = {}
  AppTicks = {}
  QuittingClients = {p1}
  ServerMayQuit = TRUE
INVARIANTS
  
  ClientExitIsJustified
  
PROPERTIES
  ClientQuitEnds
  ServerQuitEnds
CHECK_DEADLOCK FALSE
