------------------------------- MODULE Server -------------------------------
(***************************************************************************)
(* The chat server (server/server.cpp, server/service.cpp): one thread, a  *)
(* select() loop over the connected sockets, in-memory maps.               *)
(*                                                                         *)
(* A connection is known by the server's file descriptor.  What the kernel *)
(* holds for it is modelled with it: the request still to be read, the     *)
(* packets the peer has not read yet, and whether the peer is there.  The  *)
(* peers are an environment: ServerSpec lets them send any request and     *)
(* close at any moment, and module CnMessage replaces them by the client   *)
(* program.                                                                *)
(*                                                                         *)
(* A user name is a number, its rank in the order of std::string, which is *)
(* the order every std::map of the server iterates in.                     *)
(***************************************************************************)
EXTENDS Message, Sequences, FiniteSets, Picking

CONSTANTS
  Endpoints,  \* the sockets peers connect with
  Fds,        \* the descriptors accept() may return
  Fin, Rst,   \* a connection whose peer closed; closed with unread data
  LongNames,  \* the names std::string keeps on the heap (16 bytes and more)
  SockBuf,    \* packets the socket buffers hold before send() blocks
  Offered     \* the requests the peers make

ASSUME UsersAssumption == Users \subseteq Nat
ASSUME FdsAssumption == Fds \subseteq Nat /\ IsFiniteSet(Fds)
ASSUME PeersAssumption == Fin \notin Endpoints /\ Rst \notin Endpoints
ASSUME OfferedAssumption == Offered \subseteq Requests
ASSUME SockBufAssumption == SockBuf \in Nat \ {0}

VARIABLES
  userInfoMap,    \* name -> password
  connectionMap,  \* name -> fd of the control connection
  dataConnMap,    \* name -> fd of the data connection
  inboxMap,       \* name -> chats not forwarded yet
  msgDataMap,     \* name -> history; <<>> stands for "no entry"
  mode,           \* what the thread is doing, or what killed it
  it,             \* the inboxes the iterator of forwardMessage has not passed
  updateQ,        \* what UpdateService has still to send, as <<fd, packet>>
  readfds,        \* the open descriptors
  working,        \* of the last select(): ready and not handled yet
  backlog,        \* connections waiting for accept(), oldest first
  peer,           \* fd -> the peer's endpoint, Fin or Rst
  up,             \* fd -> requests sent and not read by the server
  down,           \* fd -> packets sent and not read by the peer
  unsent          \* chat texts no peer has sent: bounds the environment

mapVars == <<userInfoMap, connectionMap, dataConnMap, inboxMap, msgDataMap>>
sockVars == <<readfds, working, backlog, peer, up, down>>
vars == <<mapVars, mode, it, updateQ, sockVars, unsent>>

Died == {"assertFailed", "nullChunk", "badDelete"}
Modes == {"scan", "update", "forward"} \cup Died

-----------------------------------------------------------------------------
(* std::map.                                                               *)

EmptyMap == [x \in {} |-> x]

IsMap(m, S, T) == DOMAIN m \subseteq S /\ m \in [DOMAIN m -> T]

\* map::insert keeps the value a key already has.
MapInsert(m, k, v) ==
  [x \in DOMAIN m \cup {k} |-> IF x \in DOMAIN m THEN m[x] ELSE v]

\* Mutant: the entry is left in the map.
MapEraseForgotten(m, k) == m

MapErase(m, k) == [x \in DOMAIN m \ {k} |-> m[x]]

\* The users a scan of m finds first with the value fd: one at most.
FirstWith(m, fd) ==
  {u \in DOMAIN m : m[u] = fd /\ \A v \in DOMAIN m : m[v] = fd => u <= v}

-----------------------------------------------------------------------------
TypeOK ==
  /\ IsMap(userInfoMap, Users, Passwords)
  /\ IsMap(connectionMap, Users, Fds)
  /\ IsMap(dataConnMap, Users, Fds)
  /\ IsMap(inboxMap, Users, Seq(Chats))
  /\ msgDataMap \in [Users -> Seq(Chats)]
  /\ mode \in Modes
  /\ it \in SUBSET DOMAIN inboxMap
  /\ updateQ \in Seq(Fds \X Packets)
  /\ readfds \in SUBSET Fds
  /\ working \in SUBSET readfds
  /\ backlog \in Seq([peer : Endpoints \cup {Fin}, up : Seq(Requests)])
  /\ peer \in [Fds -> Endpoints \cup {Fin, Rst}]
  /\ up \in [Fds -> Seq(Requests)]
  /\ down \in [Fds -> Seq(Packets)]
  /\ unsent \in SUBSET Bodies

Init ==
  /\ userInfoMap = EmptyMap /\ connectionMap = EmptyMap
  /\ dataConnMap = EmptyMap /\ inboxMap = EmptyMap
  /\ msgDataMap = [u \in Users |-> << >>]
  /\ mode = "scan" /\ it = {} /\ updateQ = << >>
  /\ readfds = {} /\ working = {} /\ backlog = << >>
  /\ peer = [fd \in Fds |-> Fin]
  /\ up = [fd \in Fds |-> << >>]
  /\ down = [fd \in Fds |-> << >>]
  /\ unsent = Bodies

-----------------------------------------------------------------------------
(* Sending.  A send to a closed or reset connection is lost: its result is *)
(* never looked at and SIGPIPE is ignored.  A send to a peer that does not *)
(* read blocks the thread once the buffers are full.                       *)

HasRoom(fd) == peer[fd] \in Endpoints => Len(down[fd]) < SockBuf

Send(fd, p) ==
  /\ HasRoom(fd)
  /\ down' = IF peer[fd] \in Endpoints
               THEN [down EXCEPT ![fd] = Append(@, p)]
               ELSE down

\* The thread goes through the inboxes that are left, and back to its scan
\* at the end of the map.
Loop(left) ==
  /\ it' = left
  /\ mode' = IF left = {} THEN "scan" ELSE "forward"

\* Every dispatch is followed by forwardMessage, from the first inbox.
EnterForward == Loop(DOMAIN inboxMap')

-----------------------------------------------------------------------------
(* The services (service.cpp), with the request r read from fd.            *)

UserMatch(r) ==
  r.user \in DOMAIN userInfoMap /\ userInfoMap[r.user] = r.password

\* Mutant: the account is made without an inbox.
CreateWithoutInbox(fd, r) ==
  /\ userInfoMap' = MapInsert(userInfoMap, r.user, r.password)
  /\ Send(fd, Packet("SIGNUP", SIGNUP_ACK_SUCCESS, NoChat))
  /\ connectionMap' = MapInsert(connectionMap, r.user, fd)
  /\ UNCHANGED inboxMap

CreateAccount(fd, r) ==
  /\ userInfoMap' = MapInsert(userInfoMap, r.user, r.password)
  /\ Send(fd, Packet("SIGNUP", SIGNUP_ACK_SUCCESS, NoChat))
  /\ connectionMap' = MapInsert(connectionMap, r.user, fd)
  /\ inboxMap' = MapInsert(inboxMap, r.user, << >>)

SignUpService(fd, r) ==
  /\ r.type = "SIGNUP"
  /\ IF r.user \in DOMAIN userInfoMap
       THEN /\ Send(fd, Packet("SIGNUP", SIGNUP_ACK_FAIL, NoChat))
            /\ UNCHANGED <<userInfoMap, connectionMap, inboxMap>>
       ELSE CreateAccount(fd, r)
  /\ UNCHANGED <<dataConnMap, msgDataMap, updateQ>>
  /\ EnterForward

SignInStatus(r) ==
  IF r.user \notin DOMAIN userInfoMap THEN SIGNIN_ACK_USER_NOT_EXIST
  ELSE IF UserMatch(r) THEN SIGNIN_ACK_SUCCESS
  ELSE SIGNIN_ACK_PASS_NOT_MATCH

SignInService(fd, r) ==
  /\ r.type = "SIGNIN"
  /\ Send(fd, Packet("SIGNIN", SignInStatus(r), NoChat))
  /\ connectionMap' = IF UserMatch(r) THEN MapInsert(connectionMap, r.user, fd)
                                      ELSE connectionMap
  /\ UNCHANGED <<userInfoMap, dataConnMap, inboxMap, msgDataMap, updateQ>>
  /\ EnterForward

\* Mutant: the condition is negated.
SignOutOfStrangers(fd, r) ==
  /\ r.type = "SIGNOUT"
  /\ IF r.user \in DOMAIN connectionMap
       THEN UNCHANGED down
       ELSE Send(fd, Packet("SIGNOUT", SIGNOUT_ACK_SUCCESS, NoChat))
  /\ UNCHANGED <<mapVars, updateQ>>
  /\ EnterForward

\* No reply at all when the user is not in _connectionMap.
SignOutService(fd, r) ==
  /\ r.type = "SIGNOUT"
  /\ IF r.user \in DOMAIN connectionMap
       THEN Send(fd, Packet("SIGNOUT", SIGNOUT_ACK_SUCCESS, NoChat))
       ELSE UNCHANGED down
  /\ UNCHANGED <<mapVars, updateQ>>
  /\ EnterForward

BuildDataConnService(fd, r) ==
  /\ r.type = "BUILD_DATA_CONN"
  /\ Send(fd, Packet("BUILD_DATA_CONN",
                     IF r.user \in DOMAIN dataConnMap THEN DATA_CONN_DUP
                                                      ELSE DATA_CONN_SUCCESS,
                     NoChat))
  /\ dataConnMap' = MapInsert(dataConnMap, r.user, fd)
  /\ UNCHANGED <<userInfoMap, connectionMap, inboxMap, msgDataMap, updateQ>>
  /\ EnterForward

\* Mutant: the newest chat goes first.
PushedFirst(inbox, chat) == <<chat>> \o inbox

Pushed(inbox, chat) == Append(inbox, chat)

\* For an unknown receiver the copy of the request is deleted, through a
\* virtual table pointer that came from the client's memory, and then sent:
\* undefined, either the acknowledgement or a crash.
MsgService(fd, r) ==
  /\ r.type = "SEND_MSG"
  /\ \/ /\ r.receiver \in DOMAIN userInfoMap
        /\ inboxMap' = [inboxMap EXCEPT ![r.receiver] = Pushed(@, r)]
        /\ Send(fd, Packet("SEND_MSG", CHAT_SENT, r))
        /\ UNCHANGED dataConnMap
        /\ EnterForward
     \/ /\ r.receiver \notin DOMAIN userInfoMap
        /\ Send(fd, Packet("SEND_MSG", CHAT_REICEIER_NOT_EXIST, r))
        /\ UNCHANGED <<inboxMap, dataConnMap>>
        /\ EnterForward
     \/ /\ r.receiver \notin DOMAIN userInfoMap
        /\ mode' = "badDelete"
        /\ UNCHANGED <<inboxMap, dataConnMap, it, down>>
  /\ UNCHANGED <<userInfoMap, connectionMap, msgDataMap, updateQ>>

\* Mutant: only an empty history is closed by a last reply.
RepliesUnended(fd, u) ==
  IF msgDataMap[u] = << >>
    THEN << <<fd, Packet("UPDATE", UPDATE_COMPLETE, NoChat)>> >>
    ELSE [i \in DOMAIN msgDataMap[u] |->
            <<fd, Packet("UPDATE", UPDATE_ING, UpdateMsg(msgDataMap[u][i]))>>]

\* Mutant: the loop begins behind the first chat.
RepliesWithoutFirst(fd, u) ==
  Append([i \in 1..(Len(msgDataMap[u]) - 1) |->
            <<fd, Packet("UPDATE", UPDATE_ING,
                         UpdateMsg(msgDataMap[u][i + 1]))>>],
         <<fd, Packet("UPDATE", UPDATE_COMPLETE, NoChat)>>)

UpdateReplies(fd, u) ==
  Append([i \in DOMAIN msgDataMap[u] |->
            <<fd, Packet("UPDATE", UPDATE_ING, UpdateMsg(msgDataMap[u][i]))>>],
         <<fd, Packet("UPDATE", UPDATE_COMPLETE, NoChat)>>)

\* The replies leave one by one (UpdateAck): the peer may read in between.
UpdateService(fd, r) ==
  /\ r.type = "UPDATE"
  /\ updateQ' = UpdateReplies(fd, r.sender)
  /\ mode' = "update"
  /\ UNCHANGED <<mapVars, it, down>>

UpdateAck ==
  /\ mode = "update"
  /\ Send(Head(updateQ)[1], Head(updateQ)[2])
  /\ updateQ' = Tail(updateQ)
  /\ UNCHANGED <<mapVars, readfds, working, backlog, peer, up, unsent>>
  /\ IF updateQ' = << >> THEN EnterForward ELSE UNCHANGED <<mode, it>>

-----------------------------------------------------------------------------
(* serverListen.                                                           *)

Ready(fd) == up[fd] # << >> \/ peer[fd] \in {Fin, Rst}

\* select() returns; if a connection is waiting, one is accepted, on the
\* lowest free descriptor, which this pass does not look at.
Select ==
  /\ mode = "scan" /\ working = {}
  /\ \/ backlog # << >>
     \/ \E fd \in readfds : Ready(fd)
  /\ working' = {fd \in readfds : Ready(fd)}
  /\ \/ /\ backlog = << >>
        /\ UNCHANGED <<readfds, backlog, peer, up, down>>
     \/ /\ backlog # << >>
        /\ \E fd \in Fds \ readfds :
             /\ \A x \in Fds \ readfds : fd <= x
             /\ readfds' = readfds \cup {fd}
             /\ peer' = [peer EXCEPT ![fd] = Head(backlog).peer]
             /\ up' = [up EXCEPT ![fd] = Head(backlog).up]
             /\ down' = [down EXCEPT ![fd] = << >>]
        /\ backlog' = Tail(backlog)
  /\ UNCHANGED <<mapVars, mode, it, updateQ, unsent>>

\* Mutant: the pass ends after the first descriptor it handles.
TurnThenBreak(fd) ==
  /\ mode = "scan"
  /\ fd \in working
  /\ \A x \in working : fd <= x
  /\ working' = {}

\* Mutant: the descriptor is still marked after it was handled.
TurnKeepsMark(fd) ==
  /\ mode = "scan"
  /\ fd \in working
  /\ \A x \in working : fd <= x
  /\ UNCHANGED working

\* The scan goes from fd 0 to the highest: fd is the next ready one.
Turn(fd) ==
  /\ mode = "scan"
  /\ fd \in working
  /\ \A x \in working : fd <= x
  /\ working' = working \ {fd}

Dispatch(fd) ==
  /\ Turn(fd)
  /\ up[fd] # << >>
  /\ up' = [up EXCEPT ![fd] = Tail(@)]
  /\ LET r == Head(up[fd])
     IN  \/ SignUpService(fd, r)
         \/ SignInService(fd, r)
         \/ SignOutService(fd, r)
         \/ BuildDataConnService(fd, r)
         \/ MsgService(fd, r)
         \/ UpdateService(fd, r)
  /\ UNCHANGED <<readfds, backlog, peer, unsent>>

\* Mutant: only the sender's history gets the chat.
RecordedForSender(h, chat) == [h EXCEPT ![chat.sender] = Append(@, chat)]

\* Mutant: the receiver's history gets it in front.
RecordedInFront(h, chat) ==
  LET added == [h EXCEPT ![chat.sender] = Append(@, chat)]
  IN  [added EXCEPT ![chat.receiver] = <<chat>> \o @]

\* Mutant: the sender's history begins anew.
RecordedAfresh(h, chat) ==
  LET added == [h EXCEPT ![chat.sender] = <<chat>>]
  IN  [added EXCEPT ![chat.receiver] = Append(@, chat)]

\* addToMsgDataMap for the sender, then for the receiver.
Recorded(h, chat) ==
  LET added == [h EXCEPT ![chat.sender] = Append(@, chat)]
  IN  [added EXCEPT ![chat.receiver] = Append(@, chat)]

\* Mutant: the chat stays in the inbox.
NotPopped(inbox) == inbox

Popped(inbox) == Tail(inbox)

ForwardFd(u) == dataConnMap[u]

\* The iterator is at the inbox of u.
At(u) == mode = "forward" /\ u \in it /\ \A v \in it : u <= v

\* The head of the inner loop: a data connection, and mail.
HasWork(u) == u \in DOMAIN dataConnMap /\ inboxMap[u] # << >>

\* Mutant: one chat of each inbox.
ForwardOne(u) ==
  /\ At(u) /\ HasWork(u)
  /\ LET chat == Head(inboxMap[u])
     IN  /\ Send(ForwardFd(u), Packet("SEND_MSG", CHAT_SENT, chat))
         /\ msgDataMap' = Recorded(msgDataMap, chat)
  /\ inboxMap' = [inboxMap EXCEPT ![u] = Popped(@)]
  /\ UNCHANGED <<userInfoMap, connectionMap, dataConnMap, updateQ,
                 readfds, working, backlog, peer, up, unsent>>
  /\ Loop(it \ {u})

\* The inner loop, one chat at a time: the peers may run in between.
ForwardMessage(u) ==
  /\ At(u) /\ HasWork(u)
  /\ LET chat == Head(inboxMap[u])
     IN  /\ Send(ForwardFd(u), Packet("SEND_MSG", CHAT_SENT, chat))
         /\ msgDataMap' = Recorded(msgDataMap, chat)
  /\ inboxMap' = [inboxMap EXCEPT ![u] = Popped(@)]
  /\ UNCHANGED <<userInfoMap, connectionMap, dataConnMap, mode, it, updateQ,
                 readfds, working, backlog, peer, up, unsent>>

\* The outer loop: the inbox is empty by now, or its owner not connected.
NextInbox(u) ==
  /\ At(u) /\ ~HasWork(u)
  /\ Loop(it \ {u})
  /\ UNCHANGED <<mapVars, updateQ, sockVars, unsent>>

CloseFd(fd) == readfds' = readfds \ {fd} /\ UNCHANGED mode

\* The second lookup uses the name of the entry just erased: a name on the
\* heap has been freed, and reads as itself or as none of the users.
EraseSession(fd, u, first, second) ==
  /\ u \in FirstWith(first, fd)
  /\ \/ /\ u \in DOMAIN second
        /\ CloseFd(fd)
     \/ /\ u \notin DOMAIN second \/ u \in LongNames
        /\ mode' = "assertFailed"
        /\ UNCHANGED readfds

\* removeConnection, then close: only fd is closed.
RemoveConnection(fd) ==
  \/ \E u \in Users :
       /\ EraseSession(fd, u, connectionMap, dataConnMap)
       /\ connectionMap' = MapErase(connectionMap, u)
       /\ dataConnMap' = IF mode' = "assertFailed" THEN dataConnMap
                                                   ELSE MapErase(dataConnMap, u)
  \/ /\ FirstWith(connectionMap, fd) = {}
     /\ \E u \in Users :
          /\ EraseSession(fd, u, dataConnMap, connectionMap)
          /\ dataConnMap' = MapErase(dataConnMap, u)
          /\ connectionMap' = IF mode' = "assertFailed"
                                THEN connectionMap
                                ELSE MapErase(connectionMap, u)
  \/ /\ FirstWith(connectionMap, fd) = {}
     /\ FirstWith(dataConnMap, fd) = {}
     /\ CloseFd(fd)
     /\ UNCHANGED <<connectionMap, dataConnMap>>

HostDisconnected(fd) ==
  /\ Turn(fd)
  /\ up[fd] = << >> /\ peer[fd] = Fin
  /\ RemoveConnection(fd)
  /\ UNCHANGED <<userInfoMap, inboxMap, msgDataMap, it, updateQ,
                 backlog, peer, up, down, unsent>>

\* read() fails: completeRead's length is a huge size_t, no chunk is made
\* and dispatch uses the first one.
ReadError(fd) ==
  /\ Turn(fd)
  /\ up[fd] = << >> /\ peer[fd] = Rst
  /\ mode' = "nullChunk"
  /\ UNCHANGED <<mapVars, it, updateQ, readfds, backlog, peer, up, down,
                 unsent>>

ServerNext ==
  \/ Select
  \/ UpdateAck
  \/ \E fd \in Fds : Dispatch(fd) \/ HostDisconnected(fd) \/ ReadError(fd)
  \/ \E u \in Users : ForwardMessage(u) \/ NextInbox(u)

-----------------------------------------------------------------------------
(* The peers.  A peer sends its next request when the server has read the  *)
(* one before and its buffer is not full, and only complete requests of    *)
(* known classes.                                                          *)

serverVars == <<mapVars, mode, it, updateQ, readfds, working>>

Idle(e) ==
  /\ \A fd \in readfds : peer[fd] # e
  /\ \A i \in DOMAIN backlog : backlog[i].peer # e

\* A chat text is used once, by which the properties tell chats apart.
UseText(r) ==
  IF r.type = "SEND_MSG" THEN r.body \in unsent /\ unsent' = unsent \ {r.body}
                         ELSE UNCHANGED unsent

\* Bound: as many connections at a time as there are descriptors.
PeerConnect(e) ==
  /\ mode \notin Died /\ Idle(e)
  /\ Cardinality(readfds) + Len(backlog) < Cardinality(Fds)
  /\ backlog' = Append(backlog, [peer |-> e, up |-> << >>])
  /\ UNCHANGED <<serverVars, peer, up, down, unsent>>

PeerSend(fd, r) ==
  /\ mode \notin Died
  /\ fd \in readfds /\ peer[fd] \in Endpoints /\ up[fd] = << >>
  /\ HasRoom(fd)
  /\ up' = [up EXCEPT ![fd] = <<r>>]
  /\ UseText(r)
  /\ UNCHANGED <<serverVars, backlog, peer, down>>

\* The same before the connection is accepted.
PeerSendEarly(i, r) ==
  /\ mode \notin Died /\ i \in DOMAIN backlog
  /\ backlog[i].peer \in Endpoints /\ backlog[i].up = << >>
  /\ backlog' = [backlog EXCEPT ![i].up = <<r>>]
  /\ UseText(r)
  /\ UNCHANGED <<serverVars, peer, up, down>>

PeerRecv(fd, n) ==
  /\ fd \in readfds /\ n \in 1..Len(down[fd])
  /\ down' = [down EXCEPT ![fd] = SubSeq(@, n + 1, Len(@))]
  /\ UNCHANGED <<serverVars, backlog, peer, up, unsent>>

\* close() with unread packets resets the connection.
PeerClose(fd) ==
  /\ fd \in readfds /\ peer[fd] \in Endpoints
  /\ peer' = [peer EXCEPT ![fd] = IF down[fd] = << >> THEN Fin ELSE Rst]
  /\ down' = [down EXCEPT ![fd] = << >>]
  /\ UNCHANGED <<serverVars, backlog, up, unsent>>

PeerCloseEarly(i) ==
  /\ i \in DOMAIN backlog /\ backlog[i].peer \in Endpoints
  /\ backlog' = [backlog EXCEPT ![i].peer = Fin]
  /\ UNCHANGED <<serverVars, peer, up, down, unsent>>

PeerNext ==
  \/ \E e \in Endpoints : PeerConnect(e)
  \/ \E fd \in Fds, r \in Offered : PeerSend(fd, r)
  \/ \E i \in DOMAIN backlog, r \in Offered : PeerSendEarly(i, r)
  \/ \E fd \in Fds, n \in 1..SockBuf : PeerRecv(fd, n)
  \/ \E fd \in Fds : PeerClose(fd)
  \/ \E i \in DOMAIN backlog : PeerCloseEarly(i)

Next == ServerNext \/ PeerNext

Spec == Init /\ [][Next]_vars

-----------------------------------------------------------------------------
(* Properties.                                                             *)

\* Every account has an inbox and nobody else has: MsgService looks the
\* receiver up among the accounts and then uses the result of a lookup in
\* the inboxes without checking it (service.cpp:68).
ReceiversHaveInbox == DOMAIN inboxMap = DOMAIN userInfoMap

\* Users with mail and a data connection.
Pending ==
  {u \in DOMAIN inboxMap \cap DOMAIN dataConnMap : inboxMap[u] # << >>}

\* Outside of forwardMessage no user with a data connection has mail
\* waiting: every path that queues a chat or registers a data connection runs
\* through it, its loops leave nobody out, however long the inboxes are and
\* whoever is not connected in between, and removing a connection makes no
\* mail deliverable (server.cpp:123-126, 176-202).
ForwardingComplete == mode \in {"scan", "update"} => Pending = {}

\* Where u's history has the chats of u and v.
Between(u, v) ==
  {i \in DOMAIN msgDataMap[u] :
     {msgDataMap[u][i].sender, msgDataMap[u][i].receiver} = {u, v}}

Conversation(u, v) == Picked(msgDataMap[u], Between(u, v))

\* Both sides of a conversation have the same history of it, in the same
\* order (the two calls of addToMsgDataMap, server.cpp:196-197).
ConversationsAgree ==
  \A u, v \in Users : Conversation(u, v) = Conversation(v, u)

\* Whatever is asked for, accounts keep their password and histories only
\* grow (the maps are only inserted into, service.cpp:120, server.cpp:161).
RecordsAreKept ==
  [][/\ \A u \in DOMAIN userInfoMap :
          u \in DOMAIN userInfoMap' /\ userInfoMap'[u] = userInfoMap[u]
     /\ \A u \in Users :
          /\ Len(msgDataMap[u]) <= Len(msgDataMap'[u])
          /\ msgDataMap[u] = SubSeq(msgDataMap'[u], 1, Len(msgDataMap[u]))]_vars

\* server.cpp:117, a socket the peer closed is closed "for reuse": no user
\* is still connected through it.
ClosedFdsAreForgotten ==
  \A u \in Users :
    /\ u \in DOMAIN connectionMap => connectionMap[u] \in readfds
    /\ u \in DOMAIN dataConnMap => dataConnMap[u] \in readfds
=============================================================================
