SPECIFICATION Spec
CONSTANTS
  p1 = p1
  p2 = p2
  p3 = p3
  u1 = u1
  u2 = u2
  Clients = {p1, p2, p3}
  User = {u1, u2}
  UserOf <- Reconnect
  Input <- OneButton
  WordBits = 5
  Compress <- BvCompress
  Decompress <- BvDecompress
  EncodedLen <- EncodedBytes
  MAX_PACKET_SIZE = 33
  MaxInputs = 0
  MaxTick = 7
  MaxProbes = 0
  MaxWorldQueue = 1
  MaxAppQueue = 3
  MaxAppMessages = 4
  MaxWorlds = 2
  OversizedWorlds = {2}
  AppTicks = {1}
  QuittingClients = {}
  ServerMayQuit = FALSE
INVARIANTS
  
  
  ParseMatchesLoop
