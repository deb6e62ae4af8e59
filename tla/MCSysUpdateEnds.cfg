SPECIFICATION SysLiveSpec
CONSTANTS
  c1 = c1
  c2 = c2
  Clients = {c1}
  Endpoints <- SocketsOf
  SignsAs <- BothAccounts
  Types <- Alone
  Receivers = {1}
  Mortal = {}
  NoUser = NoUser
  MaxRecord = 2
  Users = {1, 2}
  Passwords = {"p"}
  Bodies <- TwoTexts
  ShortBodies <- OneText
  Garbled = Garbled
  NoChat = NoChat
  Fds = {4, 5}
  Fin = Fin
  Rst = Rst
  LongNames = {}
  SockBuf = 2
  Offered <- AllRequests
PROPERTIES UpdateEnds
CHECK_DEADLOCK FALSE
