---------------------------- MODULE ServerProofs ----------------------------
(***************************************************************************)
(* Theorems about Server, for any number of users, descriptors, peers and  *)
(* texts, and for peers that send and close as they like.                  *)
(***************************************************************************)
EXTENDS Server, TLAPS

\* The thread is in UpdateService only while it has something to send.
UpdateQInv == mode = "update" => updateQ # << >>

TypeInv == TypeOK /\ UpdateQInv

-----------------------------------------------------------------------------
(* Maps and sending.                                                       *)

\* Inserting in a typed map keeps it typed and adds the key.
LEMMA MapInsertType ==
  ASSUME NEW S, NEW T, NEW m, IsMap(m, S, T), NEW k \in S, NEW v \in T
  PROVE  IsMap(MapInsert(m, k, v), S, T)
  BY DEF IsMap, MapInsert

\* Erasing keeps it typed.
LEMMA MapEraseType ==
  ASSUME NEW S, NEW T, NEW m, IsMap(m, S, T), NEW k
  PROVE  IsMap(MapErase(m, k), S, T)
  BY DEF IsMap, MapErase

\* A function on 1..n is a sequence.
LEMMA FunctionIsSeq ==
  ASSUME NEW S, NEW n \in Nat, NEW s \in [1..n -> S]
  PROVE  s \in Seq(S)
  OBVIOUS

\* Appending gives a sequence that is not empty.
LEMMA AppendType ==
  ASSUME NEW S, NEW s \in Seq(S), NEW e \in S
  PROVE  Append(s, e) \in Seq(S) /\ Append(s, e) # << >>
<1>1. Append(s, e) \in Seq(S) /\ Len(Append(s, e)) = Len(s) + 1
  OBVIOUS
<1>2. Len(s) \in Nat /\ Len(<< >>) = 0
  OBVIOUS
<1>3. Len(Append(s, e)) # Len(<< >>)
  BY <1>1, <1>2
<1> QED BY <1>1, <1>3, Zenon

\* So does replacing an element.
LEMMA ReplaceType ==
  ASSUME NEW S, NEW s \in Seq(S), NEW i \in DOMAIN s, NEW e \in S
  PROVE  [s EXCEPT ![i] = e] \in Seq(S)
  OBVIOUS

\* A packet the peer's buffer takes leaves the buffers typed.
LEMMA SendType ==
  ASSUME TypeOK, NEW fd \in Fds, NEW p \in Packets, Send(fd, p)
  PROVE  down' \in [Fds -> Seq(Packets)]
  BY DEF TypeOK, Send

\* A reply without a chat is a packet.
LEMMA ReplyType ==
  ASSUME NEW t \in ReplyTypes, NEW c \in AckCodes
  PROVE  Packet(t, c, NoChat) \in Packets
  BY DEF Packet, Packets

\* A chat is among what UPDATE replies carry, before and after the cut.
LEMMA ChatType ==
  ASSUME NEW m \in Chats
  PROVE  /\ m \in UpdateChats
         /\ UpdateMsg(m) \in UpdateChats
  BY ShortBodiesAssumption DEF Chats, UpdateChats, UpdateMsg, UpdateText

\* So is every packet with a chat.
LEMMA ChatPacketType ==
  ASSUME NEW t \in ReplyTypes, NEW c \in AckCodes, NEW m \in UpdateChats
  PROVE  Packet(t, c, m) \in Packets
  BY DEF Packet, Packets

\* Every enumerator is an AckCodes number, and every class a ReplyTypes one.
LEMMA CodeTypes ==
  /\ SIGNUP_ACK_SUCCESS \in AckCodes /\ SIGNUP_ACK_FAIL \in AckCodes
  /\ SIGNIN_ACK_SUCCESS \in AckCodes /\ SIGNIN_ACK_USER_NOT_EXIST \in AckCodes
  /\ SIGNIN_ACK_PASS_NOT_MATCH \in AckCodes /\ SIGNOUT_ACK_SUCCESS \in AckCodes
  /\ CHAT_SENT \in AckCodes /\ CHAT_REICEIER_NOT_EXIST \in AckCodes
  /\ DATA_CONN_DUP \in AckCodes /\ DATA_CONN_SUCCESS \in AckCodes
  /\ UPDATE_ING \in AckCodes /\ UPDATE_COMPLETE \in AckCodes
  /\ {"SIGNUP", "SIGNIN", "SIGNOUT", "SEND_MSG", "BUILD_DATA_CONN", "UPDATE"}
       = ReplyTypes
  BY DEF SIGNUP_ACK_SUCCESS, SIGNUP_ACK_FAIL, SIGNIN_ACK_SUCCESS,
         SIGNIN_ACK_USER_NOT_EXIST, SIGNIN_ACK_PASS_NOT_MATCH,
         SIGNOUT_ACK_SUCCESS, CHAT_SENT, CHAT_REICEIER_NOT_EXIST,
         DATA_CONN_DUP, DATA_CONN_SUCCESS, UPDATE_ING, UPDATE_COMPLETE,
         AckCodes, ReplyTypes

\* What each class of request carries.
LEMMA RequestFields ==
  ASSUME NEW r \in Requests
  PROVE  /\ r.type \in {"SIGNUP", "SIGNIN"} =>
              r.user \in Users /\ r.password \in Passwords
         /\ r.type \in {"SIGNOUT", "BUILD_DATA_CONN"} => r.user \in Users
         /\ r.type = "UPDATE" => r.sender \in Users
         /\ r.type = "SEND_MSG" => r \in Chats
  BY DEF Requests, Chats

\* forwardMessage begins at the first inbox, and is over if there is none.
LEMMA EnterForwardMode ==
  ASSUME EnterForward
  PROVE  /\ mode' \in {"scan", "forward"} /\ it' = DOMAIN inboxMap'
         /\ mode' = "scan" => it' = {}
  BY DEF EnterForward, Loop

-----------------------------------------------------------------------------
(* Type correctness.                                                       *)

\* The initial state is typed.
LEMMA InitType == Init => TypeInv
  BY DEF Init, TypeInv, TypeOK, UpdateQInv, EmptyMap, IsMap, Modes

\* The request dispatch takes is one, and what remains are requests.
LEMMA DispatchRead ==
  ASSUME TypeInv, NEW fd \in Fds, up[fd] # << >>
  PROVE  /\ Head(up[fd]) \in Requests
         /\ [up EXCEPT ![fd] = Tail(@)] \in [Fds -> Seq(Requests)]
  BY DEF TypeInv, TypeOK

\* Each service keeps the maps, the buffers and the mode typed.
LEMMA ServicesType ==
  ASSUME TypeInv, NEW fd \in Fds, NEW r \in Requests,
         \/ SignUpService(fd, r) \/ SignInService(fd, r)
         \/ SignOutService(fd, r) \/ BuildDataConnService(fd, r)
         \/ MsgService(fd, r) \/ UpdateService(fd, r)
  PROVE  /\ IsMap(userInfoMap', Users, Passwords)
         /\ IsMap(connectionMap', Users, Fds)
         /\ IsMap(dataConnMap', Users, Fds)
         /\ IsMap(inboxMap', Users, Seq(Chats))
         /\ msgDataMap' \in [Users -> Seq(Chats)]
         /\ mode' \in Modes
         /\ it' \in SUBSET DOMAIN inboxMap'
         /\ updateQ' \in Seq(Fds \X Packets)
         /\ down' \in [Fds -> Seq(Packets)]
         /\ UpdateQInv'
<1> USE DEF TypeInv, TypeOK, Modes, Died
<1>1. CASE SignUpService(fd, r)
  <2>1. /\ r.user \in Users /\ r.password \in Passwords
        /\ UNCHANGED <<dataConnMap, msgDataMap, updateQ>>
        /\ mode' \in {"scan", "forward"} /\ it' = DOMAIN inboxMap'
    BY <1>1, RequestFields, EnterForwardMode DEF SignUpService
  <2>2. CASE r.user \in DOMAIN userInfoMap
    BY <1>1, <2>1, <2>2, SendType, ReplyType, CodeTypes
       DEF SignUpService, UpdateQInv
  <2>3. CASE r.user \notin DOMAIN userInfoMap
    <3>1. /\ IsMap(userInfoMap', Users, Passwords)
          /\ IsMap(connectionMap', Users, Fds)
      BY <1>1, <2>1, <2>3, MapInsertType DEF SignUpService, CreateAccount
    <3>2. IsMap(inboxMap', Users, Seq(Chats))
      <4>1. << >> \in Seq(Chats)
        OBVIOUS
      <4>2. inboxMap' = MapInsert(inboxMap, r.user, << >>)
        BY <1>1, <2>3 DEF SignUpService, CreateAccount
      <4> QED BY <2>1, <4>1, <4>2, MapInsertType
    <3>3. down' \in [Fds -> Seq(Packets)]
      BY <1>1, <2>3, SendType, ReplyType, CodeTypes
         DEF SignUpService, CreateAccount
    <3> QED BY <2>1, <3>1, <3>2, <3>3 DEF UpdateQInv
  <2> QED BY <2>2, <2>3
<1>2. CASE SignInService(fd, r)
  <2>1. /\ r.user \in Users /\ mode' \in {"scan", "forward"}
        /\ it' = DOMAIN inboxMap'
        /\ UNCHANGED <<userInfoMap, dataConnMap, inboxMap, msgDataMap, updateQ>>
    BY <1>2, RequestFields, EnterForwardMode DEF SignInService
  <2>2. IsMap(connectionMap', Users, Fds)
    BY <1>2, <2>1, MapInsertType DEF SignInService
  <2>3. SignInStatus(r) \in AckCodes
    BY CodeTypes DEF SignInStatus
  <2>4. down' \in [Fds -> Seq(Packets)]
    BY <1>2, <2>3, SendType, ReplyType, CodeTypes DEF SignInService
  <2> QED BY <2>1, <2>2, <2>4 DEF UpdateQInv
<1>3. CASE SignOutService(fd, r)
  <2>1. /\ mode' \in {"scan", "forward"} /\ it' = DOMAIN inboxMap'
        /\ UNCHANGED <<mapVars, updateQ>>
    BY <1>3, EnterForwardMode DEF SignOutService
  <2>2. down' \in [Fds -> Seq(Packets)]
    BY <1>3, SendType, ReplyType, CodeTypes DEF SignOutService
  <2> QED BY <2>1, <2>2 DEF UpdateQInv, mapVars
<1>4. CASE BuildDataConnService(fd, r)
  <2>1. /\ r.user \in Users /\ mode' \in {"scan", "forward"}
        /\ it' = DOMAIN inboxMap'
        /\ UNCHANGED <<userInfoMap, connectionMap, inboxMap, msgDataMap,
                       updateQ>>
    BY <1>4, RequestFields, EnterForwardMode DEF BuildDataConnService
  <2>2. IsMap(dataConnMap', Users, Fds)
    BY <1>4, <2>1, MapInsertType DEF BuildDataConnService
  <2>3. down' \in [Fds -> Seq(Packets)]
    BY <1>4, SendType, ReplyType, CodeTypes DEF BuildDataConnService
  <2> QED BY <2>1, <2>2, <2>3 DEF UpdateQInv
<1>5. CASE MsgService(fd, r)
  <2>1. /\ r \in Chats /\ mode' \in {"scan", "forward", "badDelete"}
        /\ UNCHANGED <<userInfoMap, connectionMap, dataConnMap, msgDataMap,
                       updateQ>>
    BY <1>5, RequestFields, EnterForwardMode DEF MsgService
  <2>2. \/ UNCHANGED inboxMap
        \/ inboxMap' = [inboxMap EXCEPT ![r.receiver] = Append(@, r)]
    BY <1>5 DEF MsgService, Pushed
  <2>3. IsMap(inboxMap', Users, Seq(Chats))
    <3>1. CASE UNCHANGED inboxMap
      BY <3>1
    <3>2. CASE inboxMap' = [inboxMap EXCEPT ![r.receiver] = Append(@, r)]
      <4>1. r.receiver \in DOMAIN inboxMap =>
              Append(inboxMap[r.receiver], r) \in Seq(Chats)
        BY <2>1, AppendType DEF IsMap
      <4> QED BY <3>2, <4>1 DEF IsMap
    <3> QED BY <2>2, <3>1, <3>2
  <2>4. \A c \in AckCodes : Packet("SEND_MSG", c, r) \in Packets
    BY <2>1, ChatType, ChatPacketType, CodeTypes
  <2>6. it' \in SUBSET DOMAIN inboxMap'
    BY <1>5, <2>2, EnterForwardMode DEF MsgService
  <2>5. down' \in [Fds -> Seq(Packets)]
    BY <1>5, <2>4, SendType, CodeTypes DEF MsgService
  <2> QED BY <2>1, <2>3, <2>5, <2>6 DEF UpdateQInv
<1>6. CASE UpdateService(fd, r)
  <2>1. /\ r.sender \in Users /\ mode' = "update"
        /\ UNCHANGED <<mapVars, it, down>>
        /\ updateQ' = UpdateReplies(fd, r.sender)
    BY <1>6, RequestFields DEF UpdateService
  <2> DEFINE h == msgDataMap[r.sender]
             s == [i \in DOMAIN h |->
                     <<fd, Packet("UPDATE", UPDATE_ING, UpdateMsg(h[i]))>>]
             last == <<fd, Packet("UPDATE", UPDATE_COMPLETE, NoChat)>>
  <2>2. h \in Seq(Chats)
    BY <2>1
  <2>3. \A i \in DOMAIN h :
          Packet("UPDATE", UPDATE_ING, UpdateMsg(h[i])) \in Packets
    <3> SUFFICES ASSUME NEW i \in DOMAIN h
                 PROVE  Packet("UPDATE", UPDATE_ING, UpdateMsg(h[i]))
                          \in Packets
      OBVIOUS
    <3> HIDE DEF h
    <3>1. h[i] \in Chats
      BY <2>2
    <3> QED BY <3>1, ChatType, ChatPacketType, CodeTypes
  <2>4. s \in Seq(Fds \X Packets)
    <3> DEFINE g(i) == <<fd, Packet("UPDATE", UPDATE_ING, UpdateMsg(h[i]))>>
    <3>1. \A i \in DOMAIN h : g(i) \in Fds \X Packets
      BY <2>3
    <3>2. /\ Len(h) \in Nat /\ DOMAIN h = 1..Len(h)
      <4> HIDE DEF h
      <4> QED BY <2>2
    <3>3. s = [i \in 1..Len(h) |-> g(i)]
      BY <3>2
    <3>4. s \in [1..Len(h) -> Fds \X Packets]
      <4> HIDE DEF g, h, s
      <4> QED BY <3>1, <3>2, <3>3, Zenon
    <3> HIDE DEF g, h, s
    <3> QED BY <3>2, <3>4, FunctionIsSeq
  <2>5. last \in Fds \X Packets
    BY ReplyType, CodeTypes
  <2>6. updateQ' = Append(s, last)
    BY <2>1 DEF UpdateReplies
  <2>7. updateQ' \in Seq(Fds \X Packets) /\ updateQ' # << >>
    <3> HIDE DEF s, last
    <3> QED BY <2>4, <2>5, <2>6, AppendType
  <2> QED BY <2>1, <2>7 DEF UpdateQInv, mapVars
<1> QED BY <1>1, <1>2, <1>3, <1>4, <1>5, <1>6

\* A request is served with typed replies.
LEMMA DispatchType ==
  ASSUME TypeInv, NEW fd \in Fds, Dispatch(fd)
  PROVE  TypeInv'
<1> DEFINE r == Head(up[fd])
<1>1. r \in Requests /\ up' \in [Fds -> Seq(Requests)]
  BY DispatchRead DEF Dispatch
<1>2. /\ working' \in SUBSET readfds
      /\ UNCHANGED <<readfds, backlog, peer, unsent>>
  BY DEF Dispatch, Turn, TypeInv, TypeOK
<1>3. \/ SignUpService(fd, r) \/ SignInService(fd, r)
      \/ SignOutService(fd, r) \/ BuildDataConnService(fd, r)
      \/ MsgService(fd, r) \/ UpdateService(fd, r)
  BY DEF Dispatch
<1> HIDE DEF r
<1> QED BY <1>1, <1>2, <1>3, ServicesType DEF TypeInv, TypeOK

\* One reply of update leaves the queue.
LEMMA UpdateAckType ==
  ASSUME TypeInv, UpdateAck
  PROVE  TypeInv'
<1>1. updateQ \in Seq(Fds \X Packets) /\ updateQ # << >>
  BY DEF TypeInv, TypeOK, UpdateQInv, UpdateAck
<1>2. /\ Head(updateQ) \in Fds \X Packets
      /\ updateQ' \in Seq(Fds \X Packets)
  BY <1>1 DEF UpdateAck
<1>3. down' \in [Fds -> Seq(Packets)]
  BY <1>2, SendType DEF UpdateAck, TypeInv
<1>4. mode' \in Modes /\ UpdateQInv'
  BY EnterForwardMode DEF UpdateAck, TypeInv, TypeOK, UpdateQInv, Modes
<1>5. it' \in SUBSET DOMAIN inboxMap'
  BY EnterForwardMode DEF UpdateAck, TypeInv, TypeOK, mapVars
<1> QED BY <1>2, <1>3, <1>4, <1>5 DEF UpdateAck, TypeInv, TypeOK, mapVars

\* A pass begins with open descriptors, and accepts at most one connection.
LEMMA SelectType ==
  ASSUME TypeInv, Select
  PROVE  TypeInv'
<1>1. /\ working' \in SUBSET readfds
      /\ UNCHANGED <<mapVars, mode, it, updateQ, unsent>>
  BY DEF Select
<1>2. CASE UNCHANGED <<readfds, backlog, peer, up, down>>
  BY <1>1, <1>2 DEF TypeInv, TypeOK, UpdateQInv, mapVars
<1>3. CASE backlog # << >> /\ backlog' = Tail(backlog) /\
           \E fd \in Fds \ readfds :
             /\ readfds' = readfds \cup {fd}
             /\ peer' = [peer EXCEPT ![fd] = Head(backlog).peer]
             /\ up' = [up EXCEPT ![fd] = Head(backlog).up]
             /\ down' = [down EXCEPT ![fd] = << >>]
  <2> DEFINE Entry == [peer : Endpoints \cup {Fin}, up : Seq(Requests)]
  <2>1. backlog \in Seq(Entry) /\ backlog # << >>
    BY <1>3 DEF TypeInv, TypeOK
  <2>2. Head(backlog) \in Entry /\ backlog' \in Seq(Entry)
    <3> HIDE DEF Entry
    <3> QED BY <1>3, <2>1
  <2>3. /\ Head(backlog).peer \in Endpoints \cup {Fin}
        /\ Head(backlog).up \in Seq(Requests)
    BY <2>2
  <2>4. /\ readfds' \in SUBSET Fds /\ readfds \subseteq readfds'
        /\ peer' \in [Fds -> Endpoints \cup {Fin, Rst}]
        /\ up' \in [Fds -> Seq(Requests)]
        /\ down' \in [Fds -> Seq(Packets)]
    BY <1>3, <2>3 DEF TypeInv, TypeOK
  <2> QED BY <1>1, <2>2, <2>4 DEF TypeInv, TypeOK, UpdateQInv, mapVars
<1> QED BY <1>2, <1>3 DEF Select

\* What is forwarded and recorded is a chat of the inbox.
LEMMA ForwardMessageType ==
  ASSUME TypeInv, NEW u \in Users, ForwardMessage(u)
  PROVE  TypeInv'
<1> DEFINE chat == Head(inboxMap[u])
           added == [msgDataMap EXCEPT ![chat.sender] = Append(@, chat)]
<1>1. /\ u \in DOMAIN inboxMap /\ u \in DOMAIN dataConnMap
      /\ inboxMap[u] # << >>
  BY DEF ForwardMessage, At, HasWork, TypeInv, TypeOK
<1>2. /\ inboxMap[u] \in Seq(Chats) /\ dataConnMap[u] \in Fds
  BY <1>1 DEF TypeInv, TypeOK, IsMap
<1>3. chat \in Chats /\ Tail(inboxMap[u]) \in Seq(Chats)
  BY <1>1, <1>2
<1>4. IsMap(inboxMap', Users, Seq(Chats))
  BY <1>3 DEF ForwardMessage, Popped, TypeInv, TypeOK, IsMap
<1>5. /\ Send(dataConnMap[u], Packet("SEND_MSG", CHAT_SENT, chat))
      /\ msgDataMap' = [added EXCEPT ![chat.receiver] = Append(@, chat)]
      /\ UNCHANGED <<userInfoMap, connectionMap, dataConnMap, mode, it, updateQ,
                     readfds, working, backlog, peer, up, unsent>>
  BY DEF ForwardMessage, Recorded, ForwardFd
<1> HIDE DEF chat
<1>6. chat.sender \in Users /\ chat.receiver \in Users
  BY <1>3 DEF Chats
<1>7. \A s \in Seq(Chats) : Append(s, chat) \in Seq(Chats)
  BY <1>3, AppendType
<1>8. added \in [Users -> Seq(Chats)]
  BY <1>6, <1>7 DEF TypeInv, TypeOK
<1>9. msgDataMap' \in [Users -> Seq(Chats)]
  BY <1>5, <1>6, <1>7, <1>8
<1>10. down' \in [Fds -> Seq(Packets)]
  BY <1>2, <1>3, <1>5, SendType, ChatType, ChatPacketType, CodeTypes DEF TypeInv
<1>11. mode' = "forward" /\ DOMAIN inboxMap' = DOMAIN inboxMap
  BY <1>5 DEF ForwardMessage, At
<1> QED BY <1>4, <1>5, <1>9, <1>10, <1>11
        DEF TypeInv, TypeOK, Modes, UpdateQInv

\* The outer loop only moves the iterator.
LEMMA NextInboxType ==
  ASSUME TypeInv, NEW u \in Users, NextInbox(u)
  PROVE  TypeInv'
<1>1. /\ it' = it \ {u} /\ mode' \in {"scan", "forward"}
      /\ UNCHANGED <<mapVars, updateQ, sockVars, unsent>>
  BY DEF NextInbox, Loop
<1> QED BY <1>1
        DEF TypeInv, TypeOK, UpdateQInv, Modes, mapVars, sockVars

\* What a removal leaves of the two connection maps, whichever is searched
\* first: each is the old map, or the old map without one user.
LEMMA RemoveConnectionEffect ==
  ASSUME NEW fd, RemoveConnection(fd)
  PROVE  /\ \/ UNCHANGED connectionMap
            \/ \E u \in Users : connectionMap' = MapErase(connectionMap, u)
         /\ \/ UNCHANGED dataConnMap
            \/ \E u \in Users : dataConnMap' = MapErase(dataConnMap, u)
         /\ \/ readfds' = readfds \ {fd} /\ UNCHANGED mode
            \/ UNCHANGED readfds /\ mode' = "assertFailed"
  BY DEF RemoveConnection, EraseSession, CloseFd

\* A descriptor that is closed is not in the pass any more.
LEMMA HostDisconnectedType ==
  ASSUME TypeInv, NEW fd \in Fds, HostDisconnected(fd)
  PROVE  TypeInv'
<1>1. /\ RemoveConnection(fd) /\ working' = working \ {fd}
      /\ UNCHANGED <<userInfoMap, inboxMap, msgDataMap, it, updateQ,
                     backlog, peer, up, down, unsent>>
  BY DEF HostDisconnected, Turn
<1>2. /\ IsMap(connectionMap', Users, Fds)
      /\ IsMap(dataConnMap', Users, Fds)
  <2>1. /\ IsMap(connectionMap, Users, Fds)
        /\ IsMap(dataConnMap, Users, Fds)
    BY DEF TypeInv, TypeOK
  <2>2. /\ \A u : IsMap(MapErase(connectionMap, u), Users, Fds)
        /\ \A u : IsMap(MapErase(dataConnMap, u), Users, Fds)
    BY <2>1, MapEraseType
  <2>3. RemoveConnection(fd)
    BY <1>1
  <2> QED BY <2>1, <2>2, <2>3, RemoveConnectionEffect
<1>3. /\ working' \in SUBSET readfds' /\ readfds' \in SUBSET Fds
      /\ mode' \in Modes /\ UpdateQInv'
  BY <1>1, RemoveConnectionEffect
     DEF TypeInv, TypeOK, UpdateQInv, Modes, Died
<1> QED BY <1>1, <1>2, <1>3 DEF TypeInv, TypeOK

\* A failed read only ends the server.
LEMMA ReadErrorType ==
  ASSUME TypeInv, NEW fd \in Fds, ReadError(fd)
  PROVE  TypeInv'
  BY DEF ReadError, Turn, TypeInv, TypeOK, UpdateQInv, Modes, Died, mapVars

\* What the peers do leaves the maps and the thread alone.
LEMMA PeerType ==
  ASSUME TypeInv, PeerNext
  PROVE  TypeInv'
<1> USE DEF TypeInv, TypeOK, UpdateQInv, serverVars, mapVars
<1> DEFINE Entry == [peer : Endpoints \cup {Fin}, up : Seq(Requests)]
<1>0. backlog \in Seq(Entry)
  OBVIOUS
<1>1. ASSUME NEW e \in Endpoints, PeerConnect(e) PROVE TypeInv'
  <2>1. [peer |-> e, up |-> << >>] \in Entry
    OBVIOUS
  <2>2. backlog' \in Seq(Entry)
    <3>1. backlog' = Append(backlog, [peer |-> e, up |-> << >>])
      BY <1>1 DEF PeerConnect
    <3> HIDE DEF Entry
    <3> QED BY <1>0, <2>1, <3>1, AppendType
  <2> QED BY <1>1, <2>2 DEF PeerConnect, Idle
<1>2. ASSUME NEW fd \in Fds, NEW r \in Offered, PeerSend(fd, r) PROVE TypeInv'
  <2>1. r \in Requests
    BY OfferedAssumption
  <2>2. up' \in [Fds -> Seq(Requests)] /\ unsent' \in SUBSET Bodies
    BY <1>2, <2>1 DEF PeerSend, UseText
  <2> QED BY <1>2, <2>2 DEF PeerSend
<1>3. ASSUME NEW i \in DOMAIN backlog, NEW r \in Offered, PeerSendEarly(i, r)
      PROVE  TypeInv'
  <2>1. r \in Requests
    BY OfferedAssumption
  <2>2. backlog' \in Seq(Entry)
    <3>1. backlog[i] \in Entry
      <4> HIDE DEF Entry
      <4> QED BY <1>0
    <3>2. [backlog[i] EXCEPT !.up = <<r>>] \in Entry
      <4>1. <<r>> \in Seq(Requests)
        BY <2>1
      <4> DEFINE q == <<r>>
      <4>2. [backlog[i] EXCEPT !.up = q] \in Entry
        <5> HIDE DEF q
        <5> QED BY <3>1, <4>1 DEF q
      <4> QED BY <4>2
    <3>3. backlog' = [backlog EXCEPT ![i] = [backlog[i] EXCEPT !.up = <<r>>]]
      BY <1>3 DEF PeerSendEarly
    <3> HIDE DEF Entry
    <3> QED BY <1>0, <3>2, <3>3, ReplaceType
  <2>3. unsent' \in SUBSET Bodies
    BY <1>3 DEF PeerSendEarly, UseText
  <2> QED BY <1>3, <2>2, <2>3 DEF PeerSendEarly
<1>4. ASSUME NEW fd \in Fds, NEW n \in 1..SockBuf, PeerRecv(fd, n)
      PROVE  TypeInv'
  <2>1. down[fd] \in Seq(Packets) /\ n \in 1..Len(down[fd])
    BY <1>4 DEF PeerRecv
  <2>2. SubSeq(down[fd], n + 1, Len(down[fd])) \in Seq(Packets)
    BY <2>1
  <2>3. down' \in [Fds -> Seq(Packets)]
    BY <1>4, <2>2 DEF PeerRecv
  <2> QED BY <1>4, <2>3 DEF PeerRecv
<1>5. ASSUME NEW fd \in Fds, PeerClose(fd) PROVE TypeInv'
  <2>1. /\ peer' \in [Fds -> Endpoints \cup {Fin, Rst}]
        /\ down' \in [Fds -> Seq(Packets)]
    BY <1>5 DEF PeerClose
  <2> QED BY <1>5, <2>1 DEF PeerClose
<1>6. ASSUME NEW i \in DOMAIN backlog, PeerCloseEarly(i) PROVE TypeInv'
  <2>1. backlog' \in Seq(Entry)
    <3>1. backlog[i] \in Entry
      <4> HIDE DEF Entry
      <4> QED BY <1>0
    <3>2. [backlog[i] EXCEPT !.peer = Fin] \in Entry
      BY <3>1
    <3>3. backlog' = [backlog EXCEPT ![i] = [backlog[i] EXCEPT !.peer = Fin]]
      BY <1>6 DEF PeerCloseEarly
    <3> HIDE DEF Entry
    <3> QED BY <1>0, <3>2, <3>3, ReplaceType
  <2> QED BY <1>6, <2>1 DEF PeerCloseEarly
<1> QED BY <1>1, <1>2, <1>3, <1>4, <1>5, <1>6 DEF PeerNext

\* Every step keeps TypeInv.
LEMMA NextType == TypeInv /\ [Next]_vars => TypeInv'
<1> SUFFICES ASSUME TypeInv, [Next]_vars PROVE TypeInv'
  OBVIOUS
<1>1. CASE Select
  BY <1>1, SelectType
<1>2. CASE UpdateAck
  BY <1>2, UpdateAckType
<1>3. ASSUME NEW fd \in Fds, Dispatch(fd) PROVE TypeInv'
  BY <1>3, DispatchType
<1>4. ASSUME NEW fd \in Fds, HostDisconnected(fd) PROVE TypeInv'
  BY <1>4, HostDisconnectedType
<1>5. ASSUME NEW fd \in Fds, ReadError(fd) PROVE TypeInv'
  BY <1>5, ReadErrorType
<1>6. ASSUME NEW u \in Users, ForwardMessage(u) PROVE TypeInv'
  BY <1>6, ForwardMessageType
<1>9. ASSUME NEW u \in Users, NextInbox(u) PROVE TypeInv'
  BY <1>9, NextInboxType
<1>7. CASE PeerNext
  BY <1>7, PeerType
<1>8. CASE UNCHANGED vars
  BY <1>8 DEF vars, mapVars, sockVars, TypeInv, TypeOK, UpdateQInv
<1> QED BY <1>1, <1>2, <1>3, <1>4, <1>5, <1>6, <1>7, <1>8, <1>9
        DEF Next, ServerNext

\* The server's variables always have their types, whatever the peers do:
\* no handler stores anything but users, descriptors, chats and packets.
THEOREM TypeCorrect == Spec => []TypeOK
<1>1. Init => TypeInv
  BY InitType
<1>2. TypeInv /\ [Next]_vars => TypeInv'
  BY NextType
<1>3. TypeInv => TypeOK
  BY DEF TypeInv
<1> QED BY <1>1, <1>2, <1>3, PTL DEF Spec

-----------------------------------------------------------------------------
(* Inboxes and forwarding.                                                 *)

\* While the thread lives, the mail that can be delivered is in inboxes the
\* iterator has still to pass, and outside of forwardMessage there are none.
LoopInv ==
  /\ mode \in {"scan", "update"} => it = {}
  /\ mode \notin Died => Pending \subseteq it

MailInv == ReceiversHaveInbox /\ LoopInv

\* A loop over all inboxes leaves nobody out.
LEMMA EnterForwardLoop ==
  ASSUME EnterForward
  PROVE  LoopInv'
<1>1. Pending' \subseteq DOMAIN inboxMap'
  BY DEF Pending
<1> QED BY <1>1, EnterForwardMode DEF LoopInv

\* Only a new data connection or a new chat makes somebody pending.
LEMMA PendingSame ==
  ASSUME UNCHANGED <<inboxMap, dataConnMap>>
  PROVE  Pending' = Pending
  BY DEF Pending

\* Steps outside of the loop that make nobody pending keep LoopInv.
LEMMA LoopSame ==
  ASSUME LoopInv, UNCHANGED <<it, inboxMap, dataConnMap>>,
         mode' = mode \/ mode' \in Died
  PROVE  LoopInv'
  BY PendingSame DEF LoopInv, Died

\* Every service ends in forwardMessage, in the replies of UPDATE or in a
\* crash, and an account gets its inbox in the step that creates it.
LEMMA DispatchMail ==
  ASSUME TypeInv, MailInv, NEW fd \in Fds, Dispatch(fd)
  PROVE  MailInv'
<1> DEFINE r == Head(up[fd])
<1>1. /\ r \in Requests /\ mode = "scan"
      /\ \/ SignUpService(fd, r) \/ SignInService(fd, r)
         \/ SignOutService(fd, r) \/ BuildDataConnService(fd, r)
         \/ MsgService(fd, r) \/ UpdateService(fd, r)
  BY DispatchRead DEF Dispatch, Turn
<1> HIDE DEF r
<1>2. ReceiversHaveInbox'
  <2> USE DEF MailInv, ReceiversHaveInbox
  <2>1. CASE SignUpService(fd, r)
    BY <2>1 DEF SignUpService, CreateAccount, MapInsert
  <2>2. CASE SignInService(fd, r)
    BY <2>2 DEF SignInService
  <2>3. CASE SignOutService(fd, r)
    BY <2>3 DEF SignOutService, mapVars
  <2>4. CASE BuildDataConnService(fd, r)
    BY <2>4 DEF BuildDataConnService
  <2>5. CASE MsgService(fd, r)
    BY <2>5 DEF MsgService
  <2>6. CASE UpdateService(fd, r)
    BY <2>6 DEF UpdateService, mapVars
  <2> QED BY <1>1, <2>1, <2>2, <2>3, <2>4, <2>5, <2>6
<1>3. LoopInv'
  <2>1. CASE UpdateService(fd, r)
    <3>1. mode' = "update" /\ UNCHANGED <<it, inboxMap, dataConnMap>>
      BY <2>1 DEF UpdateService, mapVars
    <3> QED BY <1>1, <3>1, PendingSame DEF MailInv, LoopInv, Died
  <2>2. CASE mode' = "badDelete" /\ UNCHANGED <<it, inboxMap, dataConnMap>>
    BY <2>2, LoopSame DEF MailInv, Died
  <2>3. CASE EnterForward
    BY <2>3, EnterForwardLoop
  <2> QED BY <1>1, <2>1, <2>2, <2>3
           DEF SignUpService, SignInService, SignOutService,
               BuildDataConnService, MsgService
<1> QED BY <1>2, <1>3 DEF MailInv

\* Every step keeps MailInv.
LEMMA NextMail == TypeInv /\ MailInv /\ [Next]_vars => MailInv'
<1> SUFFICES ASSUME TypeInv, MailInv, [Next]_vars PROVE MailInv'
  OBVIOUS
<1> USE DEF MailInv
<1>1. CASE Select
  BY <1>1, LoopSame DEF Select, mapVars, ReceiversHaveInbox
<1>2. CASE UpdateAck
  <2>1. ReceiversHaveInbox' /\ UNCHANGED <<inboxMap, dataConnMap>>
    BY <1>2 DEF UpdateAck, mapVars, ReceiversHaveInbox
  <2>2. UNCHANGED <<mode, it>> \/ EnterForward
    BY <1>2 DEF UpdateAck
  <2>3. LoopInv'
    BY <2>1, <2>2, EnterForwardLoop, LoopSame
  <2> QED BY <2>1, <2>3
<1>3. ASSUME NEW fd \in Fds, Dispatch(fd) PROVE MailInv'
  BY <1>3, DispatchMail
<1>4. ASSUME NEW fd \in Fds, HostDisconnected(fd) PROVE MailInv'
  <2>1. /\ RemoveConnection(fd) /\ mode = "scan"
        /\ UNCHANGED <<userInfoMap, inboxMap, it>>
    BY <1>4 DEF HostDisconnected, Turn
  <2>2. /\ mode' = mode \/ mode' \in Died
        /\ \/ UNCHANGED dataConnMap
           \/ \E u \in Users : dataConnMap' = MapErase(dataConnMap, u)
    BY <2>1, RemoveConnectionEffect DEF Died
  <2>3. Pending' \subseteq Pending
    BY <2>1, <2>2 DEF Pending, MapErase
  <2> QED BY <2>1, <2>2, <2>3 DEF ReceiversHaveInbox, LoopInv, Died
<1>5. ASSUME NEW fd \in Fds, ReadError(fd) PROVE MailInv'
  BY <1>5, LoopSame DEF ReadError, mapVars, ReceiversHaveInbox, Died
<1>6. ASSUME NEW u \in Users, ForwardMessage(u) PROVE MailInv'
  <2>1. /\ UNCHANGED <<userInfoMap, dataConnMap, mode, it>>
        /\ mode = "forward" /\ u \in DOMAIN inboxMap /\ inboxMap[u] # << >>
        /\ inboxMap' = [inboxMap EXCEPT ![u] = Popped(@)]
    BY <1>6 DEF ForwardMessage, At, HasWork, TypeInv, TypeOK
  <2>2. Pending' \subseteq Pending
    BY <2>1 DEF Pending
  <2> QED BY <2>1, <2>2 DEF ReceiversHaveInbox, LoopInv
<1>9. ASSUME NEW u \in Users, NextInbox(u) PROVE MailInv'
  <2>1. /\ mode = "forward" /\ ~HasWork(u) /\ it' = it \ {u}
        /\ mode' = IF it' = {} THEN "scan" ELSE "forward"
        /\ UNCHANGED mapVars
    BY <1>9 DEF NextInbox, At, Loop
  <2>2. Pending' = Pending /\ u \notin Pending
    BY <2>1, PendingSame DEF mapVars, Pending, HasWork
  <2> QED BY <2>1, <2>2 DEF mapVars, ReceiversHaveInbox, LoopInv, Died
<1>7. CASE PeerNext
  BY <1>7, LoopSame
          DEF PeerNext, PeerConnect, PeerSend, PeerSendEarly, PeerRecv,
              PeerClose, PeerCloseEarly, serverVars, mapVars,
              ReceiversHaveInbox
<1>8. CASE UNCHANGED vars
  BY <1>8, LoopSame DEF vars, mapVars, ReceiversHaveInbox
<1> QED BY <1>1, <1>2, <1>3, <1>4, <1>5, <1>6, <1>7, <1>8, <1>9
        DEF Next, ServerNext

\* Initially there is neither an account nor mail.
LEMMA InitMail == Init => MailInv
  BY DEF Init, EmptyMap, MailInv, ReceiversHaveInbox, LoopInv, Pending

\* A lookup in the inboxes that follows a successful lookup in the accounts
\* never fails: the unchecked iterator of MsgService is always valid.
THEOREM InboxForEveryReceiver == Spec => []ReceiversHaveInbox
<1>1. Init => TypeInv /\ MailInv
  BY InitType, InitMail
<1>2. TypeInv /\ MailInv /\ [Next]_vars => TypeInv' /\ MailInv'
  BY NextType, NextMail
<1>3. TypeInv /\ MailInv => ReceiversHaveInbox
  BY DEF MailInv
<1> QED BY <1>1, <1>2, <1>3, PTL DEF Spec

\* The two loops of forwardMessage reach every user with a data connection:
\* a user still to be served is in front of the iterator, through every chat
\* that is sent and every inbox that is passed over, so nobody is when the
\* next request is read.
THEOREM NoMailLeftBehind == Spec => []ForwardingComplete
<1>1. Init => TypeInv /\ MailInv
  BY InitType, InitMail
<1>2. TypeInv /\ MailInv /\ [Next]_vars => TypeInv' /\ MailInv'
  BY NextType, NextMail
<1>3. TypeInv /\ MailInv => ForwardingComplete
  BY DEF MailInv, LoopInv, ForwardingComplete, Died
<1> QED BY <1>1, <1>2, <1>3, PTL DEF Spec

-----------------------------------------------------------------------------
(* Accounts and histories.                                                 *)

\* s is an initial part of t.
Begins(s, t) == Len(s) <= Len(t) /\ s = SubSeq(t, 1, Len(s))

\* What one step may do to the records.
AccountsKept ==
  \A u \in DOMAIN userInfoMap :
    u \in DOMAIN userInfoMap' /\ userInfoMap'[u] = userInfoMap[u]
HistoriesKept == \A u \in Users : Begins(msgDataMap[u], msgDataMap'[u])

\* A sequence is an initial part of itself, and of what appending to it
\* makes.
LEMMA BeginsAppend ==
  ASSUME NEW S, NEW s \in Seq(S), NEW e \in S
  PROVE  Begins(s, s) /\ Begins(s, Append(s, e))
  BY DEF Begins

\* Appending to a longer sequence keeps the initial part as well.
LEMMA BeginsLonger ==
  ASSUME NEW S, NEW s \in Seq(S), NEW t \in Seq(S), NEW e \in S, Begins(s, t)
  PROVE  Begins(s, Append(t, e))
<1>1. /\ Append(t, e) \in Seq(S) /\ Len(Append(t, e)) = Len(t) + 1
      /\ \A i \in 1..Len(t) : Append(t, e)[i] = t[i]
  OBVIOUS
<1>2. Len(s) \in Nat /\ Len(t) \in Nat /\ Len(s) <= Len(t)
  BY DEF Begins
<1>3. SubSeq(Append(t, e), 1, Len(s)) = SubSeq(t, 1, Len(s))
  BY <1>1, <1>2
<1> QED BY <1>1, <1>2, <1>3 DEF Begins

\* Forwarding adds to two histories, or twice to one.
LEMMA RecordedKeeps ==
  ASSUME NEW h \in [Users -> Seq(Chats)], NEW chat \in Chats, NEW u \in Users
  PROVE  Begins(h[u], Recorded(h, chat)[u])
<1> DEFINE added == [h EXCEPT ![chat.sender] = Append(@, chat)]
<1>1. chat.sender \in Users /\ chat.receiver \in Users
  BY DEF Chats
<1>2. added \in [Users -> Seq(Chats)]
  BY <1>1
<1>3. Begins(h[u], added[u])
  BY BeginsAppend
<1>4. Recorded(h, chat)[u] \in {added[u], Append(added[u], chat)}
  BY <1>1, <1>2 DEF Recorded
<1> HIDE DEF added
<1>5. Begins(h[u], Append(added[u], chat))
  BY <1>2, <1>3, BeginsLonger
<1> QED BY <1>3, <1>4, <1>5

\* A step that leaves the histories alone keeps them.
LEMMA SameHistories ==
  ASSUME TypeOK, UNCHANGED msgDataMap
  PROVE  HistoriesKept
<1>1. ASSUME NEW u \in Users PROVE Begins(msgDataMap[u], msgDataMap'[u])
  BY DEF TypeOK, Begins
<1> QED BY <1>1 DEF HistoriesKept

\* Only sign-up changes the accounts, and it inserts; only forwarding changes
\* the histories.
LEMMA NextKeepsRecords ==
  ASSUME TypeInv, [Next]_vars
  PROVE  AccountsKept /\ HistoriesKept
<1>1. CASE Select
  BY <1>1, SameHistories DEF Select, mapVars, AccountsKept, TypeInv
<1>2. CASE UpdateAck
  BY <1>2, SameHistories DEF UpdateAck, mapVars, AccountsKept, TypeInv
<1>3. ASSUME NEW fd \in Fds, Dispatch(fd) PROVE AccountsKept /\ HistoriesKept
  <2> DEFINE r == Head(up[fd])
  <2>1. \/ SignUpService(fd, r) \/ SignInService(fd, r)
        \/ SignOutService(fd, r) \/ BuildDataConnService(fd, r)
        \/ MsgService(fd, r) \/ UpdateService(fd, r)
    BY <1>3 DEF Dispatch
  <2> HIDE DEF r
  <2>2. UNCHANGED msgDataMap
    BY <2>1 DEF SignUpService, SignInService, SignOutService, mapVars,
                BuildDataConnService, MsgService, UpdateService
  <2>3. \/ UNCHANGED userInfoMap
        \/ userInfoMap' = MapInsert(userInfoMap, r.user, r.password)
    BY <2>1 DEF SignUpService, CreateAccount, SignInService, SignOutService,
                mapVars, BuildDataConnService, MsgService, UpdateService
  <2>4. AccountsKept
    BY <2>3 DEF AccountsKept, MapInsert
  <2> QED BY <2>2, <2>4, SameHistories DEF TypeInv
<1>4. ASSUME NEW fd \in Fds, HostDisconnected(fd)
      PROVE  AccountsKept /\ HistoriesKept
  BY <1>4, SameHistories DEF HostDisconnected, AccountsKept, TypeInv
<1>5. ASSUME NEW fd \in Fds, ReadError(fd) PROVE AccountsKept /\ HistoriesKept
  BY <1>5, SameHistories DEF ReadError, mapVars, AccountsKept, TypeInv
<1>6. ASSUME NEW u \in Users, ForwardMessage(u)
      PROVE  AccountsKept /\ HistoriesKept
  <2> DEFINE chat == Head(inboxMap[u])
  <2>1. chat \in Chats
    <3>1. inboxMap[u] \in Seq(Chats) /\ inboxMap[u] # << >>
      BY <1>6 DEF ForwardMessage, At, HasWork, TypeInv, TypeOK, IsMap
    <3> QED BY <3>1
  <2>2. /\ UNCHANGED userInfoMap
        /\ msgDataMap' = Recorded(msgDataMap, chat)
        /\ msgDataMap \in [Users -> Seq(Chats)]
    BY <1>6 DEF ForwardMessage, TypeInv, TypeOK
  <2> HIDE DEF chat
  <2> QED BY <2>1, <2>2, RecordedKeeps DEF AccountsKept, HistoriesKept
<1>9. ASSUME NEW u \in Users, NextInbox(u) PROVE AccountsKept /\ HistoriesKept
  BY <1>9, SameHistories DEF NextInbox, mapVars, AccountsKept, TypeInv
<1>7. CASE PeerNext
  <2>1. UNCHANGED <<userInfoMap, msgDataMap>>
    BY <1>7 DEF PeerNext, PeerConnect, PeerSend, PeerSendEarly, PeerRecv,
                PeerClose, PeerCloseEarly, serverVars, mapVars
  <2> QED BY <2>1, SameHistories DEF AccountsKept, TypeInv
<1>8. CASE UNCHANGED vars
  BY <1>8, SameHistories DEF vars, mapVars, AccountsKept, TypeInv
<1> QED BY <1>1, <1>2, <1>3, <1>4, <1>5, <1>6, <1>7, <1>8, <1>9
        DEF Next, ServerNext

\* No request, in any order, changes a password or takes anything out of a
\* history.
THEOREM RecordsOnlyGrow == Spec => RecordsAreKept
<1> DEFINE Kept ==
      /\ \A u \in DOMAIN userInfoMap :
           u \in DOMAIN userInfoMap' /\ userInfoMap'[u] = userInfoMap[u]
      /\ \A u \in Users :
           /\ Len(msgDataMap[u]) <= Len(msgDataMap'[u])
           /\ msgDataMap[u] = SubSeq(msgDataMap'[u], 1, Len(msgDataMap[u]))
<1>1. Init => TypeInv
  BY InitType
<1>2. TypeInv /\ [Next]_vars => TypeInv'
  BY NextType
<1>3. TypeInv /\ [Next]_vars => [Kept]_vars
  BY NextKeepsRecords DEF AccountsKept, HistoriesKept, Begins
<1> QED BY <1>1, <1>2, <1>3, PTL DEF Spec, RecordsAreKept
=============================================================================
