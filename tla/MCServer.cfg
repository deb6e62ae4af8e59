SPECIFICATION Spec
CONSTANTS
  Users = {1, 2}
  Passwords = {"p"}
  Bodies = {hi, bye}
  ShortBodies = {hi, bye}
  Garbled = Garbled
  NoChat = NoChat
  hi = hi
  bye = bye
  a = a
  b = b
  Endpoints = {a, b}
  Fds = {4, 5}
  Fin = Fin
  Rst = Rst
  LongNames = {2}
  SockBuf = 1
  Offered <- ServerOffered
SYMMETRY PeersAndTexts
INVARIANTS TypeOK ReceiversHaveInbox ConversationsAgree
PROPERTIES RecordsAreKept ImplementsMailbox
CHECK_DEADLOCK FALSE
