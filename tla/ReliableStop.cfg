SPECIFICATION FairSpec
CONSTANTS
  c1 = c1
  e1 = e1
  u1 = u1
  u2 = u2
  Clients = {c1}
  Peers = {e1}
  User = {u1}
  UserOf <- SameUser
  ReadLens = {0, 1}
  MaxSent = 1
  MaxUp = 1
  MaxChatOut = 1
  AppKinds = {"AuthenticationError"}
  LowLatencyMayEnd = TRUE
  ServerMayQuit = TRUE
  ServerMayDrop = TRUE
PROPERTIES
  ConnectReturns
  JoinIsAnsweredIfRead
  ClientSeesEnd
  QuitEndsListener
CHECK_DEADLOCK FALSE
