----------------------------- MODULE CnMessage -----------------------------
(***************************************************************************)
(* The whole system: the server and the clients, over their connections.   *)
(***************************************************************************)
EXTENDS Client

\* The peers of Server may ask for anything a client can.
ASSUME OfferedByClients == Offered = Requests

sysVars == <<vars, clientVars>>

SysInit == Init /\ ClientInit

SysNext ==
  \/ ServerNext /\ UNCHANGED clientVars
  \/ \E c \in Clients :
       \/ UserStep(c) \/ ProgramStep(c) \/ DataRecv(c) \/ Kill(c)
       \/ \E n \in 1..MaxRecord : SpinEnds(c, n)

SysSpec == SysInit /\ [][SysNext]_sysVars

\* The server's loop and the client program go on by themselves; users need
\* not type anything, and nobody has to die.
SysLiveSpec ==
  /\ SysSpec
  /\ WF_sysVars(ServerNext /\ UNCHANGED clientVars)
  /\ \A c \in Clients : WF_sysVars(ProgramStep(c)) /\ WF_sysVars(DataRecv(c))

-----------------------------------------------------------------------------
(* Properties.                                                             *)

\* The class of the acknowledgement a command waits for.
ReplyTo ==
  [signUp |-> "SIGNUP", signIn |-> "SIGNIN", signOut |-> "SIGNOUT",
   send |-> "SEND_MSG"]

\* Commands cast whatever they read to the acknowledgement they expect
\* (cmd.cpp:96, 144, 174, 200): while a command waits there is its request or
\* its reply on the control connection, never both and never anything else,
\* and between commands there is nothing.  That is of the four commands with
\* one reply; update has many and may leave some behind, see UpdateEnds.
Lockstep ==
  \A c \in Clients : \A fd \in FdsOf(Ctrl(c)) :
   ~ServerDied /\ pc[c] # "exit" =>
    /\ Len(up[fd]) + Len(down[fd]) <= 1
    /\ Len(up[fd]) + Len(down[fd]) > 0 => pc[c] \in DOMAIN ReplyTo
    /\ up[fd] # << >> => Head(up[fd]).type = ReplyTo[pc[c]]
    /\ down[fd] # << >> => Head(down[fd]).type = ReplyTo[pc[c]]

\* Mail is not shown to anybody else: what a client records was sent to the
\* name it is signed in with at that moment (dataConnMap is by descriptor,
\* descriptors are reused, and a client may sign out and in as somebody else;
\* server.cpp:27-50, 187, client.cpp:401-423).
OwnMailOnly ==
  [][\A c \in Clients :
       \A i \in DOMAIN messageRecord'[c] \ DOMAIN messageRecord[c] :
         LET m == messageRecord'[c][i]
         IN  m # NoChat => \/ m.receiver = userName[c]
                           \/ pc[c] = "update" /\ m.sender = userName[c]
      ]_sysVars

\* Where a chat is in a history (once, or twice in a row).
Place(u, m) == CHOOSE i \in DOMAIN msgDataMap[u] : msgDataMap[u][i] = m

\* What a client records for a name is in the server's history of that name,
\* at most once and in the same order, through sign-outs, other clients of
\* the same account and reconnections (client.cpp:401-423).
RecordFollowsHistory ==
  \A c \in Clients : \A i, j \in DOMAIN messageRecord[c] :
    LET m == messageRecord[c][i]
        n == messageRecord[c][j]
    IN  m # NoChat /\ n # NoChat /\ m.receiver = n.receiver =>
          /\ \E k \in DOMAIN msgDataMap[m.receiver] :
                msgDataMap[m.receiver][k] = m
          /\ i < j => Place(m.receiver, m) < Place(n.receiver, n)

\* A read of c has taken a part of a packet, and so has every later one.
Torn(c) ==
  \/ taken[Ctrl(c)] # 0
  \/ \E i \in DOMAIN charAckVec[c] : charAckVec[c][i] = NoChat
  \/ \E i \in DOMAIN Filed(c)[NoUser] : Filed(c)[NoUser][i] = NoChat

\* What a completed update adds to the record of c.
Received(c) ==
  SubSeq(messageRecord'[c], Len(messageRecord[c]) + 1, Len(messageRecord'[c]))

\* c completes an update, of which it read every reply by itself.
UpdateDone(c) ==
  pc[c] = "update" /\ pc'[c] = "prompt" /\ ~Torn(c) /\ ~ServerDied

\* m is the chat h, if only the beginning of a text of 8 bytes and more.
SameChat(m, h) ==
  /\ m.sender = h.sender /\ m.receiver = h.receiver
  /\ h.body \in ShortBodies => m.body = h.body

\* While the replies are read one by one an update brings the history, once
\* and in order, and then the last reply; and nothing this client was shown
\* before is missing from it: a chat enters the history no later than it is
\* forwarded (server.cpp:187-197, cmd.cpp:19-21, README.md:85).  Of a longer
\* text it claims sender, receiver and place only: UpdateMsg keeps 8 bytes of it
\* (message.hpp:132), against the complete history of README.md:85.
UpdateBringsHistory ==
  [][\A c \in Clients : UpdateDone(c) =>
       LET u == userName[c]
           got == Received(c)
           n == Len(got) - 1
       IN  /\ got[n + 1] = LastReply(u)
           /\ n <= Len(msgDataMap[u])
           /\ \A i \in 1..n : SameChat(got[i], msgDataMap[u][i])
           /\ \A i \in DOMAIN messageRecord[c] :
                LET m == messageRecord[c][i]
                IN  m \in Chats /\ m.receiver = u =>
                      \E j \in 1..n : SameChat(got[j], m)]_sysVars

\* What read shows for a name only grows, and at its end, through read, update
\* and arriving chats, for as long as the client keeps its user
\* (cmd.cpp:28-48).
ShownIsKept ==
  [][\A c \in Clients :
       pc[c] # "off" /\ userName'[c] = userName[c] =>
         \A n \in Names :
           Filed(c)[n] = SubSeq(Filed(c)'[n], 1, Len(Filed(c)[n]))]_sysVars

\* An update is under way; "spin" is its loop once the server has died.
Updating(c) == pc[c] \in {"update", "spin"}

\* README.md:85, update ends ("once update is done") while there is a server.
UpdateEnds == \A c \in Clients : Updating(c) ~> ~Updating(c) \/ ServerDied

\* It does while no read takes a part of a reply (socketClient.cpp:155-164).
WholeUpdateEnds ==
  \A c \in Clients : Updating(c) ~> ~Updating(c) \/ ServerDied \/ Torn(c)

\* The server is blocked in the send of UpdateService or forwardMessage: the
\* peer does not read.
Stuck ==
  \E fd \in Fds :
    /\ ~HasRoom(fd)
    /\ \/ mode = "update" /\ fd = Head(updateQ)[1]
       \/ \E u \in Users : At(u) /\ HasWork(u) /\ fd = ForwardFd(u)

\* Signing up, signing in and sending: what follows the user's input.
Asked(c) == pc[c] \in {"signUp", "signIn", "dial", "hello", "build", "send"}

Done(c) == pc[c] \in {"prompt", "off"}

\* While the server is not blocked for ever, signing up, signing in and sending
\* end, whatever the others do: the acknowledgement the command blocks for
\* comes (README.md:134), or the server is gone and the process exits
\* (cmd.cpp:92-105, 138-155, 168-188).  In particular a busy connection with a
\* low descriptor starves nobody (server.cpp:109).
CommandsEnd == []<>~Stuck => \A c \in Clients : Asked(c) ~> Done(c)

\* Signing out ends too, unless the server forgets the session meanwhile: it
\* removes both connections when either closes (server.cpp:26-50), and does
\* not answer a user it does not know (service.cpp:141-148).
SignOutEnds ==
  []<>~Stuck =>
    \A c \in Clients :
      pc[c] = "signOut" ~>
        pc[c] # "signOut" \/ userName[c] \notin DOMAIN connectionMap

\* README.md:134, the same of signing out, with no exception.
SignOutIsAnswered ==
  []<>~Stuck => \A c \in Clients : pc[c] = "signOut" ~> pc[c] # "signOut"

\* server.cpp:117, the socket of a host that disconnected is closed "for
\* reuse", and the server goes on: no chunk is used that was never made.
DisconnectIsHandled == mode # "nullChunk"
=============================================================================
