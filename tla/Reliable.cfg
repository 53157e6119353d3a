SPECIFICATION Spec
CONSTANTS
  c1 = c1
  e1 = e1
  u1 = u1
  u2 = u2
  Clients = {c1}
  Peers = {e1}
  User = {u1, u2}
  UserOf <- SameUser
  ReadLens = {0, 2}
  MaxSent = 2
  MaxUp = 2
  MaxChatOut = 0
  AppKinds = {"ChatMessage"}
  LowLatencyMayEnd = FALSE
  ServerMayQuit = TRUE
  ServerMayDrop = TRUE
INVARIANTS
  TypeOK
  NothingOvertakes
  OnlyOwnMessages
  NeverOnTwoConnections
  ConfirmationFirst
  ConfirmedIsAnnounced
  JoinThenChats
  
  NothingLeftOpen
CHECK_DEADLOCK FALSE
