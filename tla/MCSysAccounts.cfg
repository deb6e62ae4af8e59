SPECIFICATION SysSpec
CONSTANTS
  c1 = c1
  c2 = c2
  Clients = {c1, c2}
  Endpoints <- SocketsOf
  SignsAs <- TwoAccounts
  Types <- BothLeave
  Receivers = {1, 2}
  Mortal = {}
  NoUser = NoUser
  MaxRecord = 9
  Users = {1, 2}
  Passwords = {"p"}
  Bodies <- OneText
  ShortBodies = {}
  Garbled = Garbled
  NoChat = NoChat
  Fds = {4, 5, 6, 7}
  Fin = Fin
  Rst = Rst
  LongNames = {}
  SockBuf = 2
  Offered <- AllRequests
INVARIANTS ClientTypeOK Lockstep ClosedFdsAreForgotten
PROPERTIES OwnMailOnly
CHECK_DEADLOCK FALSE
