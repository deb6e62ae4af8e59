SPECIFICATION SysSpec
CONSTANTS
  c1 = c1
  c2 = c2
  Clients = {c1, c2}
  Endpoints <- SocketsOf
  SignsAs <- OwnAccounts
  Types <- WriterCrasher
  Receivers = {2}
  Mortal = {c2}
  NoUser = NoUser
  MaxRecord = 9
  Users = {1, 2}
  Passwords = {"p"}
  Bodies <- OneText
  ShortBodies = {}
  Garbled = Garbled
  NoChat = NoChat
  Fds = {4, 5, 6, 7}
  Fin = Fin
  Rst = Rst
  LongNames = {}
  SockBuf = 2
  Offered <- AllRequests
INVARIANTS RecordFollowsHistory ClosedFdsAreForgotten
PROPERTIES OwnMailOnly
CHECK_DEADLOCK FALSE
