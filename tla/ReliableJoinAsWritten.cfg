SPECIFICATION FairSpec
CONSTANTS
  c1 = c1
  e1 = e1
  u1 = u1
  u2 = u2
  Clients = {c1}
  Peers = {}
  User = {u1}
  UserOf <- SameUser
  ReadLens = {0}
  MaxSent = 0
  MaxUp = 1
  MaxChatOut = 1
  AppKinds = {"AuthenticationError", "Confirmation"}
  LowLatencyMayEnd = FALSE
  ServerMayQuit = FALSE
  ServerMayDrop = FALSE
PROPERTIES
  JoinIsAnswered
CHECK_DEADLOCK FALSE
