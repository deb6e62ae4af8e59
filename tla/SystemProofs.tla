---------------------------- MODULE SystemProofs ----------------------------
(***************************************************************************)
(* The clients with the server, for any number of clients, users, texts    *)
(* and descriptors: what the client program stores, and that the clients   *)
(* are peers as Server has them.                                           *)
(***************************************************************************)
EXTENDS CnMessage, ServerProofs, PickingProofs, SequenceTheorems

-----------------------------------------------------------------------------
(* Reads of a stream.                                                      *)

\* The server's buffers never hold more than SockBuf packets.
RoomInv == \A fd \in Fds : Len(down[fd]) <= SockBuf

\* The classes have three sizes.
LEMMA Sizes ==
  ASSUME NEW p \in Packets
  PROVE  SizeOf(p) \in {152, 168, 4104}
  BY DEF Packets, ReplyTypes, SizeOf

\* One more packet adds its size.
LEMMA BytesNext ==
  ASSUME NEW q \in Seq(Packets), NEW k \in Nat, k < Len(q)
  PROVE  /\ BytesUpTo(q, k) \in Nat
         /\ BytesUpTo(q, k + 1) = BytesUpTo(q, k) + SizeOf(q[k + 1])
<1> DEFINE Of(n, size) == {i \in 1..n : SizeOf(q[i]) = size}
<1>1. ASSUME NEW size
      PROVE  /\ Cardinality(Of(k, size)) \in Nat
             /\ Cardinality(Of(k + 1, size))
                  = Cardinality(Of(k, size))
                    + (IF SizeOf(q[k + 1]) = size THEN 1 ELSE 0)
  <2>1. IsFiniteSet(Of(k, size))
    <3>1. IsFiniteSet(1..k)
      BY FS_Interval
    <3>2. Of(k, size) \subseteq 1..k
      OBVIOUS
    <3> QED BY <3>1, <3>2, FS_Subset
  <2>2. k + 1 \notin Of(k, size)
    OBVIOUS
  <2>3. Of(k + 1, size) = IF SizeOf(q[k + 1]) = size
                            THEN Of(k, size) \cup {k + 1} ELSE Of(k, size)
    OBVIOUS
  <2>4. Cardinality(Of(k, size)) \in Nat
    BY <2>1, FS_CardinalityType
  <2>5. Cardinality(Of(k, size) \cup {k + 1}) = Cardinality(Of(k, size)) + 1
    BY <2>1, <2>2, FS_AddElement
  <2> HIDE DEF Of
  <2> QED BY <2>3, <2>4, <2>5
<1>2. \A n : BytesUpTo(q, n) = 152 * Cardinality(Of(n, 152))
                               + 168 * Cardinality(Of(n, 168))
                               + 4104 * Cardinality(Of(n, 4104))
  BY DEF BytesUpTo
<1>3. SizeOf(q[k + 1]) \in {152, 168, 4104}
  <2>1. q[k + 1] \in Packets
    OBVIOUS
  <2> QED BY <2>1, Sizes
<1> HIDE DEF Of
<1> DEFINE a == Cardinality(Of(k, 152))
           b == Cardinality(Of(k, 168))
           d == Cardinality(Of(k, 4104))
<1>4. a \in Nat /\ b \in Nat /\ d \in Nat
  BY <1>1
<1>5. BytesUpTo(q, k) = 152 * a + 168 * b + 4104 * d
  BY <1>2
<1>6. BytesUpTo(q, k + 1) =
        152 * (a + (IF SizeOf(q[k + 1]) = 152 THEN 1 ELSE 0))
        + 168 * (b + (IF SizeOf(q[k + 1]) = 168 THEN 1 ELSE 0))
        + 4104 * (d + (IF SizeOf(q[k + 1]) = 4104 THEN 1 ELSE 0))
  BY <1>1, <1>2
<1> HIDE DEF a, b, d
<1> QED BY <1>3, <1>4, <1>5, <1>6

\* Nothing read, no bytes.
LEMMA BytesNone == \A q : BytesUpTo(q, 0) = 0
<1>1. \A q, size : {i \in 1..0 : SizeOf(q[i]) = size} = {}
  OBVIOUS
<1>2. Cardinality({}) = 0
  BY FS_EmptySet
<1> QED BY <1>1, <1>2 DEF BytesUpTo

\* A read empties as many packets as it can, and takes a part of the next.
LEMMA ReadBytes ==
  ASSUME NEW e \in Endpoints, taken \in [Endpoints -> 0..ReadSize],
         NEW q \in Seq(Packets)
  PROVE  /\ Emptied(e, q) \in 0..Len(q)
         /\ Overread(e, q) \in 0..ReadSize
         /\ Emptied(e, q) < Len(q) =>
              Overread(e, q) < SizeOf(q[Emptied(e, q) + 1])
<1> DEFINE end == taken[e] + ReadSize
           reached == {k \in 0..Len(q) : BytesUpTo(q, k) <= end}
           n == Emptied(e, q)
<1>1. end \in Nat /\ ReadSize = 4136
  <2> DEFINE t == taken[e]
  <2>1. t \in 0..ReadSize /\ end = t + ReadSize
    OBVIOUS
  <2>2. ReadSize = 4136
    BY DEF ReadSize
  <2> HIDE DEF t, end
  <2> QED BY <2>1, <2>2
<1>2. Len(q) \in Nat
  OBVIOUS
<1>3. (\E k \in reached : \A j \in reached : j <= k)
        => n \in reached /\ \A j \in reached : j <= n
  BY DEF Emptied
<1>4. /\ n = Len(q) => Overread(e, q) = 0
      /\ n # Len(q) => Overread(e, q) = taken[e] + ReadSize - BytesUpTo(q, n)
  BY DEF Overread
<1> HIDE DEF end, n
<1>5. 0 \in reached
  <2>1. BytesUpTo(q, 0) = 0
    BY BytesNone
  <2> QED BY <1>1, <1>2, <2>1
<1>6. IsFiniteSet(reached) /\ reached \in SUBSET Nat
  <2>1. IsFiniteSet(0..Len(q)) /\ reached \subseteq 0..Len(q)
    BY <1>2, FS_Interval
  <2> QED BY <1>2, <2>1, FS_Subset
<1>7. \E k \in reached : \A j \in reached : j <= k
  <2> HIDE DEF reached
  <2> QED BY <1>5, <1>6, Largest
<1>8. n \in reached /\ \A j \in reached : j <= n
  <2> HIDE DEF reached
  <2> QED BY <1>7, <1>3
<1>9. ASSUME n < Len(q)
      PROVE  /\ Overread(e, q) \in 0..ReadSize
             /\ Overread(e, q) < SizeOf(q[n + 1])
  <2> DEFINE at == BytesUpTo(q, n)
             size == SizeOf(q[n + 1])
  <2>1. n \in Nat /\ n + 1 \in 0..Len(q) /\ n + 1 \notin reached
    <3>1. n \in Nat /\ n + 1 \in 0..Len(q)
      BY <1>2, <1>9, <1>8
    <3>2. ~(n + 1 <= n)
      BY <3>1
    <3> QED BY <1>8, <3>1, <3>2
  <2>2. at \in Nat /\ BytesUpTo(q, n + 1) = at + size
    BY <1>9, <2>1, BytesNext
  <2>3. at <= end /\ ~(BytesUpTo(q, n + 1) <= end)
    BY <1>8, <2>1
  <2>4. size \in {152, 168, 4104}
    <3>1. q[n + 1] \in Packets
      BY <1>2, <1>9, <2>1
    <3> QED BY <3>1, Sizes
  <2>5. Overread(e, q) = end - at
    <3>1. n # Len(q)
      BY <1>9, <2>1
    <3> DEFINE t == taken[e]
    <3>2. Overread(e, q) = t + ReadSize - at
      BY <1>4, <3>1
    <3>3. t \in 0..ReadSize /\ end = t + ReadSize
      BY DEF end
    <3> HIDE DEF t, at
    <3> QED BY <1>1, <2>2, <3>2, <3>3
  <2> HIDE DEF at, size
  <2>6. end - at \in 0..4104 /\ end - at < size
    BY <1>1, <2>2, <2>3, <2>4
  <2>7. Overread(e, q) < size
    BY <2>5, <2>6
  <2>8. end - at \in 0..ReadSize
    BY <1>1, <2>6
  <2>9. Overread(e, q) \in 0..ReadSize
    BY <2>5, <2>8
  <2> QED BY <2>7, <2>9 DEF size
<1>10. ASSUME ~(n < Len(q)) PROVE Overread(e, q) = 0
  <2>1. n \in Nat /\ n <= Len(q)
    BY <1>2, <1>8
  <2>2. n = Len(q)
    BY <1>2, <1>10, <2>1
  <2> QED BY <1>4, <2>2
<1> QED BY <1>1, <1>2, <1>9, <1>10, <1>8 DEF n

-----------------------------------------------------------------------------
(* The clients are peers.                                                  *)

\* The commands of a user who is signed in.
Session ==
  {"dial", "hello", "build", "typeText", "send", "update", "spin", "signOut"}

\* A client that is signed in knows as whom.
KnownInv ==
  \A c \in Clients :
    /\ clientState[c] # "IDLE" => userName[c] \in Users
    /\ pc[c] \in {"signUp", "signIn"} => asking[c] \in Users
    /\ pc[c] = "typeText" => personTalking[c] \in Users
    /\ pc[c] \in Session => clientState[c] # "IDLE"

SysTypeInv == TypeInv /\ RoomInv /\ ClientTypeOK /\ KnownInv

\* The sockets of a client.
LEMMA SocketsType ==
  ASSUME NEW c \in Clients
  PROVE  Ctrl(c) \in Endpoints /\ Data(c) \in Endpoints
  BY EndpointsAssumption DEF Ctrl, Data

\* Sending a request is a step of a peer, or lost on a dead server.
LEMMA SendRequestPeer ==
  ASSUME TypeInv, NEW e, NEW r \in Requests, SendRequest(e, r)
  PROVE  PeerNext \/ UNCHANGED vars
<1>1. CASE \E fd \in FdsOf(e) : PeerSend(fd, r)
  <2>1. FdsOf(e) \subseteq Fds
    BY DEF FdsOf, TypeInv, TypeOK
  <2> QED BY <1>1, <2>1, OfferedByClients DEF PeerNext
<1>2. CASE \E i \in QueuedAt(e) : PeerSendEarly(i, r)
  BY <1>2, OfferedByClients DEF PeerNext, QueuedAt
<1> QED BY <1>1, <1>2 DEF SendRequest

\* So is closing a socket.
LEMMA ClosePeer ==
  ASSUME TypeInv, NEW e, Close(e)
  PROVE  PeerNext
<1>1. FdsOf(e) \subseteq Fds /\ QueuedAt(e) \subseteq DOMAIN backlog
  BY DEF FdsOf, QueuedAt, TypeInv, TypeOK
<1> QED BY <1>1 DEF Close, PeerNext

\* And connecting.
LEMMA ConnectPeer ==
  ASSUME NEW e \in Endpoints, Connect(e)
  PROVE  PeerNext
  BY DEF Connect, PeerNext

\* A read takes packets, and leaves less than one packet begun.
LEMMA RecvPeer ==
  ASSUME TypeInv, RoomInv, ClientTypeOK,
         NEW e \in Endpoints, NEW fd \in Unread(e),
         Recv(fd, e)
  PROVE  PeerNext /\ taken' \in [Endpoints -> 0..ReadSize]
<1>1. fd \in Fds /\ down[fd] \in Seq(Packets)
  BY DEF Unread, FdsOf, TypeInv, TypeOK
<1>2. /\ PeerRecv(fd, Emptied(e, down[fd]))
      /\ taken' = [taken EXCEPT ![e] = Overread(e, down[fd])]
  BY DEF Recv
<1>3. Emptied(e, down[fd]) \in 1..SockBuf
  <2> DEFINE n == Emptied(e, down[fd])
             l == Len(down[fd])
  <2>1. n \in 1..l /\ l <= SockBuf /\ l \in Nat
    BY <1>1, <1>2 DEF PeerRecv, RoomInv
  <2>2. SockBuf \in Nat
    BY SockBufAssumption
  <2> HIDE DEF n, l
  <2>3. n \in 1..SockBuf
    BY <2>1, <2>2
  <2> QED BY <2>3 DEF n
<1>4. taken \in [Endpoints -> 0..ReadSize]
  BY DEF ClientTypeOK
<1>5. Overread(e, down[fd]) \in 0..ReadSize
  BY <1>1, <1>4, ReadBytes
<1> QED BY <1>1, <1>2, <1>3, <1>4, <1>5 DEF PeerNext

\* An acknowledgement is read, or the server is gone.
LEMMA RecvAckPeer ==
  ASSUME TypeInv, RoomInv, ClientTypeOK, NEW e \in Endpoints, NEW code,
         RecvAck(e, code)
  PROVE  /\ PeerNext \/ UNCHANGED vars
         /\ taken' \in [Endpoints -> 0..ReadSize]
<1>1. ASSUME NEW fd \in Unread(e), Recv(fd, e)
      PROVE  PeerNext /\ taken' \in [Endpoints -> 0..ReadSize]
  BY <1>1, RecvPeer
<1>2. CASE UNCHANGED <<vars, taken>>
  BY <1>2 DEF ClientTypeOK
<1> QED BY <1>1, <1>2 DEF RecvAck

\* What a client asks for.
LEMMA ClientRequests ==
  /\ \A t \in {"SIGNUP", "SIGNIN"}, u \in Users, p \in Passwords :
       SignRequest(t, u, p) \in Requests
  /\ \A u \in Users :
       /\ BuildRequest(u) \in Requests
       /\ [type |-> "SIGNOUT", user |-> u] \in Requests
       /\ [type |-> "UPDATE", sender |-> u] \in Requests
  /\ \A u, v \in Users, b \in Bodies : ChatMsg(u, v, b) \in Requests
  BY DEF SignRequest, BuildRequest, ChatMsg, Requests, Chats

\* What each step of a client has to do.
ClientInv == ClientTypeOK /\ KnownInv
PeerStep == PeerNext \/ UNCHANGED vars

\* main; death; the kernel closing what a process had open.
LEMMA LifeType ==
  ASSUME SysTypeInv, NEW c \in Clients, Start(c) \/ Kill(c) \/ ExitClose(c)
  PROVE  PeerStep /\ ClientInv'
<1> USE DEF SysTypeInv, ClientInv, Goto, recordVars
<1>1. Ctrl(c) \in Endpoints /\ Data(c) \in Endpoints
  BY SocketsType
<1>2. CASE Start(c)
  <2>1. PeerStep
    BY <1>1, <1>2, ConnectPeer DEF Start, PeerStep
  <2>2. /\ messageRecord' \in [Clients -> Seq(Recordable)]
        /\ charAckVec' \in [Clients -> Seq(Recordable)]
        /\ msgRecordMap' \in [Clients -> [Names -> Seq(Recordable)]]
    <3> DEFINE none == [n \in Names |-> << >>]
    <3>1. << >> \in Seq(Recordable)
      OBVIOUS
    <3>2. none \in [Names -> Seq(Recordable)]
      BY <3>1
    <3>3. msgRecordMap' = [msgRecordMap EXCEPT ![c] = none]
      BY <1>2 DEF Start
    <3> HIDE DEF none
    <3>4. msgRecordMap' \in [Clients -> [Names -> Seq(Recordable)]]
      BY <3>2, <3>3 DEF ClientTypeOK
    <3> QED BY <1>2, <3>1, <3>4 DEF Start, ClientTypeOK
  <2>3. 0 \in 0..ReadSize
    BY DEF ReadSize
  <2>4. taken' \in [Endpoints -> 0..ReadSize]
    BY <1>1, <1>2, <2>3 DEF Start, ClientTypeOK
  <2>5. ClientTypeOK'
    BY <1>2, <2>2, <2>4 DEF Start, ClientTypeOK, Places, Waiting
  <2>6. KnownInv'
    BY <1>2 DEF Start, ClientTypeOK, KnownInv, Session
  <2> QED BY <2>1, <2>5, <2>6
<1>3. CASE Kill(c)
  BY <1>3 DEF Kill, PeerStep, ClientTypeOK, KnownInv, Places, Session
<1>4. CASE ExitClose(c)
  <2>1. PeerStep
    BY <1>4, ClosePeer DEF ExitClose, PeerStep
  <2>2. ClientTypeOK' /\ KnownInv'
    BY <1>4 DEF ExitClose, ClientTypeOK, KnownInv, Places, Session
  <2> QED BY <2>1, <2>2
<1> QED BY <1>2, <1>3, <1>4

\* Signing up and signing in, and their acknowledgement.
LEMMA SignType ==
  ASSUME SysTypeInv, NEW c \in Clients,
         \/ SignCmd(c)
         \/ \E u \in SignsAs[c], p \in Passwords : Sign(c, u, p)
         \/ SignAck(c)
  PROVE  PeerStep /\ ClientInv'
<1> USE DEF SysTypeInv, ClientInv, Goto, recordVars
<1>1. Ctrl(c) \in Endpoints
  BY SocketsType
<1>2. ASSUME NEW u \in SignsAs[c], NEW p \in Passwords, Sign(c, u, p)
      PROVE  PeerStep /\ ClientInv'
  <2>1. u \in Users
    BY SignsAsAssumption
  <2>2. PeerStep
    BY <1>2, <2>1, ClientRequests, SendRequestPeer DEF Sign, PeerStep
  <2>3. ClientTypeOK' /\ KnownInv'
    BY <1>2, <2>1 DEF Sign, ClientTypeOK, KnownInv, Places, Waiting, Session
  <2> QED BY <2>2, <2>3
<1>3. CASE SignAck(c)
  <2>1. PeerStep /\ taken' \in [Endpoints -> 0..ReadSize]
    BY <1>1, <1>3, RecvAckPeer DEF SignAck, PeerStep
  <2>2. asking[c] \in Users
    BY <1>3 DEF SignAck, KnownInv
  <2>3. ClientTypeOK'
    BY <1>3, <2>1, <2>2 DEF SignAck, ClientTypeOK, Places
  <2>4. KnownInv'
    BY <1>3, <2>2 DEF SignAck, ClientTypeOK, KnownInv, Session
  <2> QED BY <2>1, <2>3, <2>4
<1>4. CASE SignCmd(c)
  BY <1>4 DEF SignCmd, PeerStep, ClientTypeOK, KnownInv, Places, Typing, Session
<1> QED BY <1>2, <1>3, <1>4

\* The data connection.
LEMMA DataConnType ==
  ASSUME SysTypeInv, NEW c \in Clients,
         Dial(c) \/ Hello(c) \/ BuildAck(c) \/ CloseDataConn(c)
  PROVE  PeerStep /\ ClientInv'
<1> USE DEF SysTypeInv, ClientInv, Goto, recordVars
<1>1. Data(c) \in Endpoints
  BY SocketsType
<1>2. CASE Dial(c)
  <2>1. PeerStep
    BY <1>1, <1>2, ConnectPeer DEF Dial, PeerStep
  <2>2. ClientTypeOK' /\ KnownInv'
    BY <1>2 DEF Dial, ClientTypeOK, KnownInv, Places, Session
  <2> QED BY <2>1, <2>2
<1>3. CASE Hello(c)
  <2>1. userName[c] \in Users
    BY <1>3 DEF Hello, KnownInv, Session
  <2>2. PeerStep
    BY <1>3, <2>1, ClientRequests, SendRequestPeer DEF Hello, PeerStep
  <2>3. ClientTypeOK' /\ KnownInv'
    BY <1>3 DEF Hello, ClientTypeOK, KnownInv, Places, Waiting, Session
  <2> QED BY <2>2, <2>3
<1>4. CASE BuildAck(c)
  <2>1. PeerStep /\ taken' \in [Endpoints -> 0..ReadSize]
    BY <1>1, <1>4, RecvAckPeer DEF BuildAck, PeerStep
  <2>2. ClientTypeOK' /\ KnownInv'
    BY <1>4, <2>1 DEF BuildAck, ClientTypeOK, KnownInv, Places, Session
  <2> QED BY <2>1, <2>2
<1>5. CASE CloseDataConn(c)
  <2>1. PeerStep
    BY <1>5, ClosePeer DEF CloseDataConn, PeerStep
  <2>2. 0 \in 0..ReadSize
    BY DEF ReadSize
  <2>3. ClientTypeOK' /\ KnownInv'
    BY <1>1, <1>5, <2>2
       DEF CloseDataConn, ClientTypeOK, KnownInv, Places, Session
  <2> QED BY <2>1, <2>3
<1> QED BY <1>2, <1>3, <1>4, <1>5

\* Signing out and sending.
LEMMA SessionType ==
  ASSUME SysTypeInv, NEW c \in Clients,
         \/ SignOut(c) \/ SignOutAck(c) \/ SendAck(c)
         \/ \E receiver \in Receivers : SendCmd(c, receiver)
         \/ \E b \in Bodies : SendChat(c, b)
  PROVE  PeerStep /\ ClientInv'
<1> USE DEF SysTypeInv, ClientInv, Goto, recordVars
<1>1. Ctrl(c) \in Endpoints
  BY SocketsType
<1>2. CASE SignOut(c)
  <2>1. userName[c] \in Users
    BY <1>2 DEF SignOut, KnownInv
  <2>2. PeerStep
    BY <1>2, <2>1, ClientRequests, SendRequestPeer DEF SignOut, PeerStep
  <2>3. ClientTypeOK' /\ KnownInv'
    BY <1>2 DEF SignOut, ClientTypeOK, KnownInv, Places, Waiting, Session
  <2> QED BY <2>2, <2>3
<1>3. CASE SignOutAck(c)
  <2>1. PeerStep /\ taken' \in [Endpoints -> 0..ReadSize]
    BY <1>1, <1>3, RecvAckPeer DEF SignOutAck, PeerStep
  <2>2. ClientTypeOK'
    BY <1>3, <2>1 DEF SignOutAck, ClientTypeOK, Places
  <2>3. KnownInv'
    BY <1>3 DEF SignOutAck, ClientTypeOK, KnownInv, Session
  <2> QED BY <2>1, <2>2, <2>3
<1>4. CASE SendAck(c)
  <2>1. PeerStep /\ taken' \in [Endpoints -> 0..ReadSize]
    BY <1>1, <1>4, RecvAckPeer DEF SendAck, PeerStep
  <2>2. ClientTypeOK' /\ KnownInv'
    BY <1>4, <2>1 DEF SendAck, ClientTypeOK, KnownInv, Places, Session
  <2> QED BY <2>1, <2>2
<1>5. ASSUME NEW receiver \in Receivers, SendCmd(c, receiver)
      PROVE  PeerStep /\ ClientInv'
  <2>1. receiver \in Users
    BY ReceiversAssumption
  <2> QED BY <1>5, <2>1
          DEF SendCmd, PeerStep, ClientTypeOK, KnownInv, Places, Typing, Session
<1>6. ASSUME NEW b \in Bodies, SendChat(c, b)
      PROVE  PeerStep /\ ClientInv'
  <2>1. userName[c] \in Users /\ personTalking[c] \in Users
    BY <1>6 DEF SendChat, KnownInv, Session
  <2>2. PeerStep
    BY <1>6, <2>1, ClientRequests, SendRequestPeer DEF SendChat, PeerStep
  <2>3. ClientTypeOK' /\ KnownInv'
    BY <1>6 DEF SendChat, ClientTypeOK, KnownInv, Places, Waiting, Session
  <2> QED BY <2>2, <2>3
<1> QED BY <1>2, <1>3, <1>4, <1>5, <1>6

\* What is sorted into the map are chats that were recorded.
LEMMA FiledType ==
  ASSUME ClientTypeOK, NEW c \in Clients
  PROVE  Filed(c) \in [Names -> Seq(Recordable)]
<1>1. ASSUME NEW n \in Names
      PROVE  msgRecordMap[c][n] \o Picked(messageRecord[c], PlacesOf(c, n))
               \in Seq(Recordable)
  <2>1. /\ msgRecordMap[c][n] \in Seq(Recordable)
        /\ messageRecord[c] \in Seq(Recordable)
        /\ PlacesOf(c, n) \in SUBSET DOMAIN messageRecord[c]
    BY DEF ClientTypeOK, PlacesOf
  <2>2. Picked(messageRecord[c], PlacesOf(c, n)) \in Seq(Recordable)
    BY <2>1, PickedType
  <2> QED BY <2>1, <2>2
<1> QED BY <1>1 DEF Filed

\* The chat of a packet, and what stands for one, can be recorded.
LEMMA RecordableChats ==
  /\ \A p \in Packets : p.chat \in Recordable
  /\ NoChat \in Recordable
  /\ \A u \in Users : LastReply(u) \in Recordable
  BY DEF Packets, Recordable

\* What the loop of update piles up after the server died.
Unwritten(n) == [i \in 1..n |-> NoChat]

LEMMA UnwrittenType ==
  ASSUME NEW n \in 1..MaxRecord
  PROVE  Unwritten(n) \in Seq(Recordable)
<1>1. n \in Nat
  OBVIOUS
<1>2. Unwritten(n) \in [1..n -> Recordable]
  BY RecordableChats DEF Unwritten
<1> QED BY <1>1, <1>2, FunctionIsSeq

\* Update and read.
LEMMA RecordType ==
  ASSUME SysTypeInv, NEW c \in Clients,
         \/ Update(c) \/ UpdateRecv(c) \/ Read(c)
         \/ \E n \in 1..MaxRecord : SpinEnds(c, n)
         \/ \E n \in Names : ReadUnknown(c, n)
  PROVE  PeerStep /\ ClientInv'
<1> USE DEF SysTypeInv, ClientInv, Goto, recordVars
<1>1. Ctrl(c) \in Endpoints
  BY SocketsType
<1>2. CASE Update(c)
  <2>1. userName[c] \in Users
    BY <1>2 DEF Update, KnownInv
  <2>2. PeerStep
    BY <1>2, <2>1, ClientRequests, SendRequestPeer DEF Update, PeerStep
  <2>3. ClientTypeOK' /\ KnownInv'
    BY <1>2 DEF Update, ClientTypeOK, KnownInv, Places, Waiting, Session
  <2> QED BY <2>2, <2>3
<1>3. CASE UpdateRecv(c)
  <2>1. userName[c] \in Users /\ pc[c] = "update" /\ clientState[c] # "IDLE"
    BY <1>3 DEF UpdateRecv, KnownInv, Session
  <2>2. PICK m \in Recordable :
          /\ PeerStep /\ taken' \in [Endpoints -> 0..ReadSize]
          /\ \/ \E code : UpdateLoop(c, m, code)
             \/ /\ pc' = [pc EXCEPT ![c] = "spin"]
                /\ UNCHANGED <<messageRecord, charAckVec>>
    <3>1. ASSUME NEW fd \in Unread(Ctrl(c)), Recv(fd, Ctrl(c)),
                 NEW code, UpdateLoop(c, AckChat(c, Head(down[fd])), code)
          PROVE  /\ PeerStep /\ taken' \in [Endpoints -> 0..ReadSize]
                 /\ AckChat(c, Head(down[fd])) \in Recordable
      <4>1. PeerStep /\ taken' \in [Endpoints -> 0..ReadSize]
        BY <1>1, <3>1, RecvPeer DEF PeerStep
      <4>2. down[fd] \in Seq(Packets) /\ down[fd] # << >>
        BY DEF Unread, FdsOf, TypeInv, TypeOK
      <4>3. Head(down[fd]) \in Packets
        BY <4>2
      <4> QED BY <2>1, <4>1, <4>3, RecordableChats DEF AckChat
    <3>2. CASE /\ pc' = [pc EXCEPT ![c] = "spin"]
               /\ UNCHANGED <<vars, taken, messageRecord, charAckVec>>
      BY <3>2, RecordableChats DEF PeerStep, ClientTypeOK
    <3> QED BY <1>3, <3>1, <3>2 DEF UpdateRecv
  <2>3. \/ /\ messageRecord' = [messageRecord EXCEPT
                                  ![c] = @ \o charAckVec[c] \o <<m>>]
           /\ charAckVec' = [charAckVec EXCEPT ![c] = << >>]
           /\ pc' = [pc EXCEPT ![c] = "prompt"]
        \/ /\ charAckVec' = [charAckVec EXCEPT ![c] = Append(@, m)]
           /\ UNCHANGED <<pc, messageRecord>>
        \/ /\ pc' = [pc EXCEPT ![c] = "spin"]
           /\ UNCHANGED <<messageRecord, charAckVec>>
    BY <2>2 DEF UpdateLoop
  <2>4. /\ messageRecord' \in [Clients -> Seq(Recordable)]
        /\ charAckVec' \in [Clients -> Seq(Recordable)]
    <3>1. /\ messageRecord[c] \in Seq(Recordable)
          /\ charAckVec[c] \in Seq(Recordable)
      BY DEF ClientTypeOK
    <3>2. messageRecord[c] \o charAckVec[c] \o <<m>> \in Seq(Recordable)
      BY <3>1
    <3>3. Append(charAckVec[c], m) \in Seq(Recordable)
      BY <3>1
    <3>4. \/ UNCHANGED messageRecord
          \/ \E s \in Seq(Recordable) :
               messageRecord' = [messageRecord EXCEPT ![c] = s]
      <4> DEFINE s == messageRecord[c] \o charAckVec[c] \o <<m>>
      <4>1. \/ UNCHANGED messageRecord
            \/ messageRecord' = [messageRecord EXCEPT ![c] = s]
        BY <2>3
      <4>2. s \in Seq(Recordable)
        BY <3>2
      <4> HIDE DEF s
      <4> QED BY <4>1, <4>2
    <3>5. \/ UNCHANGED charAckVec
          \/ \E s \in Seq(Recordable) :
               charAckVec' = [charAckVec EXCEPT ![c] = s]
      <4> DEFINE s == Append(charAckVec[c], m)
      <4>1. \/ UNCHANGED charAckVec
            \/ charAckVec' = [charAckVec EXCEPT ![c] = << >>]
            \/ charAckVec' = [charAckVec EXCEPT ![c] = s]
        BY <2>3
      <4>2. s \in Seq(Recordable) /\ << >> \in Seq(Recordable)
        BY <3>3
      <4> HIDE DEF s
      <4> QED BY <4>1, <4>2
    <3> QED BY <3>4, <3>5 DEF ClientTypeOK
  <2>5. UNCHANGED <<clientState, userName, personTalking, asking, dataConn,
                    stdin, msgRecordMap>>
    BY <1>3 DEF UpdateRecv
  <2>6. ClientTypeOK'
    BY <2>2, <2>3, <2>4, <2>5 DEF ClientTypeOK, Places
  <2>7. KnownInv'
    BY <2>1, <2>3, <2>5 DEF ClientTypeOK, KnownInv, Session
  <2> QED BY <2>2, <2>6, <2>7
<1>4. CASE Read(c)
  <2>1. Filed(c) \in [Names -> Seq(Recordable)]
    BY FiledType
  <2>2. ClientTypeOK' /\ KnownInv'
    BY <1>4, <2>1 DEF Read, ClientTypeOK, KnownInv, Session
  <2> QED BY <1>4, <2>2 DEF Read, PeerStep
<1>5. ASSUME NEW n \in Names, ReadUnknown(c, n)
      PROVE  PeerStep /\ ClientInv'
  BY <1>5 DEF ReadUnknown, PeerStep, ClientTypeOK, KnownInv, Places, Session
<1>6. ASSUME NEW n \in 1..MaxRecord, SpinEnds(c, n)
      PROVE  PeerStep /\ ClientInv'
  <2> DEFINE s == messageRecord[c] \o charAckVec[c] \o Unwritten(n)
             none == << >>
  <2>1. s \in Seq(Recordable) /\ none \in Seq(Recordable)
    <3>1. /\ messageRecord[c] \in Seq(Recordable)
          /\ charAckVec[c] \in Seq(Recordable)
      BY DEF ClientTypeOK
    <3> QED BY <3>1, UnwrittenType
  <2>2. /\ messageRecord' = [messageRecord EXCEPT ![c] = s]
        /\ charAckVec' = [charAckVec EXCEPT ![c] = none]
        /\ pc' = [pc EXCEPT ![c] = "prompt"]
        /\ UNCHANGED <<vars, clientState, userName, personTalking, asking,
                       dataConn, stdin, taken, msgRecordMap>>
    BY <1>6 DEF SpinEnds, Unwritten
  <2> HIDE DEF s, none
  <2>3. ClientTypeOK' /\ KnownInv'
    BY <2>1, <2>2 DEF ClientTypeOK, KnownInv, Places, Session
  <2> QED BY <2>2, <2>3 DEF PeerStep
<1> QED BY <1>2, <1>3, <1>4, <1>5, <1>6

\* What run does when no command is executed.
LEMMA RunType ==
  ASSUME SysTypeInv, NEW c \in Clients,
         DataRecv(c) \/ Discard(c) \/ ServerLost(c)
  PROVE  PeerStep /\ ClientInv'
<1> USE DEF SysTypeInv, ClientInv, Goto, recordVars
<1>1. Ctrl(c) \in Endpoints /\ Data(c) \in Endpoints
  BY SocketsType
<1>2. CASE DataRecv(c)
  <2>1. PICK fd \in Unread(Data(c)) :
          \/ pc' = [pc EXCEPT ![c] = "exit"]
             /\ UNCHANGED <<vars, taken, messageRecord>>
          \/ /\ Recv(fd, Data(c)) /\ UNCHANGED pc
             /\ messageRecord' =
                  [messageRecord EXCEPT ![c] =
                     Append(@, IF taken[Data(c)] = 0 THEN Head(down[fd]).chat
                                                     ELSE NoChat)]
    BY <1>2 DEF DataRecv
  <2>2. PeerStep /\ taken' \in [Endpoints -> 0..ReadSize]
    <3>1. CASE UNCHANGED <<vars, taken>>
      BY <3>1 DEF PeerStep, ClientTypeOK
    <3>2. CASE Recv(fd, Data(c))
      BY <1>1, <3>2, RecvPeer DEF PeerStep
    <3> QED BY <2>1, <3>1, <3>2
  <2>3. messageRecord' \in [Clients -> Seq(Recordable)]
    <3>1. down[fd] \in Seq(Packets) /\ down[fd] # << >>
      BY DEF Unread, FdsOf, TypeInv, TypeOK
    <3>2. Head(down[fd]) \in Packets
      BY <3>1
    <3>3. (IF taken[Data(c)] = 0 THEN Head(down[fd]).chat ELSE NoChat)
            \in Recordable
      BY <3>2, RecordableChats
    <3>4. \A m \in Recordable : Append(messageRecord[c], m) \in Seq(Recordable)
      <4>1. messageRecord[c] \in Seq(Recordable)
        BY DEF ClientTypeOK
      <4> QED BY <4>1
    <3>5. \/ UNCHANGED messageRecord
          \/ \E s \in Seq(Recordable) :
               messageRecord' = [messageRecord EXCEPT ![c] = s]
      BY <2>1, <3>3, <3>4
    <3> QED BY <3>5 DEF ClientTypeOK
  <2>4. ClientTypeOK' /\ KnownInv'
    BY <1>2, <2>1, <2>2, <2>3
       DEF DataRecv, ClientTypeOK, KnownInv, Places, Session
  <2> QED BY <2>2, <2>4
<1>3. CASE Discard(c)
  <2>1. PeerStep /\ taken' \in [Endpoints -> 0..ReadSize]
    BY <1>1, <1>3, RecvPeer DEF Discard, PeerStep
  <2>2. ClientTypeOK' /\ KnownInv'
    BY <1>3, <2>1 DEF Discard, ClientTypeOK, KnownInv, Session
  <2> QED BY <2>1, <2>2
<1>4. CASE ServerLost(c)
  BY <1>4 DEF ServerLost, PeerStep, ClientTypeOK, KnownInv, Places, Session
<1> QED BY <1>2, <1>3, <1>4

\* Only sending and accepting fill the server's buffers.
LEMMA RoomNext ==
  TypeInv /\ RoomInv /\ [Next]_vars => RoomInv'
<1> SUFFICES ASSUME TypeInv, RoomInv, [Next]_vars PROVE RoomInv'
  OBVIOUS
<1> DEFINE empty == << >>
<1>1. SockBuf \in Nat /\ Len(empty) = 0 /\ down \in [Fds -> Seq(Packets)]
  BY SockBufAssumption DEF TypeInv, TypeOK
<1>2. ASSUME NEW fd \in Fds, NEW p \in Packets, Send(fd, p) PROVE RoomInv'
  <2>1. CASE down' = down
    BY <2>1 DEF RoomInv
  <2>2. CASE /\ Len(down[fd]) < SockBuf
             /\ down' = [down EXCEPT ![fd] = Append(@, p)]
    <3>1. down[fd] \in Seq(Packets)
      BY <1>1
    <3>2. Len(Append(down[fd], p)) = Len(down[fd]) + 1 /\ Len(down[fd]) \in Nat
      BY <3>1
    <3>3. Len(Append(down[fd], p)) <= SockBuf
      BY <1>1, <2>2, <3>2
    <3> QED BY <1>1, <2>2, <3>3 DEF RoomInv
  <2> QED BY <1>2, <2>1, <2>2 DEF Send, HasRoom
<1>3. ASSUME NEW fd \in Fds, down' = [down EXCEPT ![fd] = empty]
      PROVE  RoomInv'
  BY <1>1, <1>3 DEF RoomInv
<1>4. CASE UNCHANGED down
  BY <1>4 DEF RoomInv
<1>5. CASE Select
  BY <1>3, <1>4, <1>5 DEF Select
<1>6. CASE UpdateAck
  <2>1. updateQ \in Seq(Fds \X Packets) /\ updateQ # << >>
    BY <1>6 DEF TypeInv, TypeOK, UpdateQInv, UpdateAck
  <2>2. Head(updateQ)[1] \in Fds /\ Head(updateQ)[2] \in Packets
    BY <2>1
  <2> QED BY <1>2, <1>6, <2>2 DEF UpdateAck
<1>7. ASSUME NEW fd \in Fds, Dispatch(fd) PROVE RoomInv'
  <2>1. Head(up[fd]) \in Requests
    BY <1>7, DispatchRead DEF Dispatch
  <2> DEFINE r == Head(up[fd])
  <2>2. \/ SignUpService(fd, r) \/ SignInService(fd, r)
        \/ SignOutService(fd, r) \/ BuildDataConnService(fd, r)
        \/ MsgService(fd, r) \/ UpdateService(fd, r)
    BY <1>7 DEF Dispatch
  <2>3. UNCHANGED down \/ \E p \in Packets : Send(fd, p)
    <3> HIDE DEF r
    <3>1. \A t \in ReplyTypes, x \in AckCodes : Packet(t, x, NoChat) \in Packets
      BY ReplyType
    <3>2. SignInStatus(r) \in AckCodes
      BY CodeTypes DEF SignInStatus
    <3>3. CASE SignUpService(fd, r) \/ SignInService(fd, r)
               \/ SignOutService(fd, r) \/ BuildDataConnService(fd, r)
      BY <3>1, <3>2, <3>3, CodeTypes
         DEF SignUpService, CreateAccount, SignInService, SignOutService,
             BuildDataConnService
    <3>4. CASE MsgService(fd, r)
      <4>1. r \in Chats
        BY <2>1, <3>4, RequestFields DEF MsgService, r
      <4>2. \A x \in AckCodes : Packet("SEND_MSG", x, r) \in Packets
        BY <4>1, ChatType, ChatPacketType, CodeTypes
      <4> QED BY <3>4, <4>2, CodeTypes DEF MsgService
    <3>5. CASE UpdateService(fd, r)
      BY <3>5 DEF UpdateService
    <3> QED BY <2>2, <3>3, <3>4, <3>5
  <2> QED BY <1>2, <1>4, <2>3
<1>8. ASSUME NEW u \in Users, ForwardMessage(u) PROVE RoomInv'
  <2>1. /\ inboxMap[u] \in Seq(Chats) /\ inboxMap[u] # << >>
        /\ dataConnMap[u] \in Fds
    BY <1>8 DEF ForwardMessage, At, HasWork, TypeInv, TypeOK, IsMap
  <2>2. Head(inboxMap[u]) \in Chats
    BY <2>1
  <2>3. Packet("SEND_MSG", CHAT_SENT, Head(inboxMap[u])) \in Packets
    BY <2>2, ChatType, ChatPacketType, CodeTypes
  <2> QED BY <1>2, <1>8, <2>1, <2>3 DEF ForwardMessage, ForwardFd
<1>9. ASSUME NEW fd \in Fds, HostDisconnected(fd) \/ ReadError(fd)
      PROVE  RoomInv'
  BY <1>4, <1>9 DEF HostDisconnected, ReadError
<1>10. ASSUME NEW fd \in Fds, NEW n \in 1..SockBuf, PeerRecv(fd, n)
       PROVE  RoomInv'
  <2>1. down[fd] \in Seq(Packets) /\ n \in 1..Len(down[fd])
    BY <1>1, <1>10 DEF PeerRecv
  <2>2. Len(SubSeq(down[fd], n + 1, Len(down[fd]))) <= Len(down[fd])
    BY <2>1
  <2>3. Len(SubSeq(down[fd], n + 1, Len(down[fd]))) <= SockBuf
    <3>1. Len(SubSeq(down[fd], n + 1, Len(down[fd]))) \in Nat
      BY <2>1
    <3> QED BY <1>1, <2>1, <2>2, <3>1 DEF RoomInv
  <2> QED BY <1>1, <1>10, <2>3 DEF PeerRecv, RoomInv
<1>11. ASSUME NEW fd \in Fds, PeerClose(fd) PROVE RoomInv'
  BY <1>3, <1>11 DEF PeerClose
<1>12. CASE \/ \E e \in Endpoints : PeerConnect(e)
            \/ \E fd \in Fds, r \in Offered : PeerSend(fd, r)
            \/ \E i \in DOMAIN backlog, r \in Offered : PeerSendEarly(i, r)
            \/ \E i \in DOMAIN backlog : PeerCloseEarly(i)
  BY <1>4, <1>12 DEF PeerConnect, PeerSend, PeerSendEarly, PeerCloseEarly
<1>13. CASE UNCHANGED vars
  BY <1>4, <1>13 DEF vars, sockVars
<1>14. ASSUME NEW u \in Users, NextInbox(u) PROVE RoomInv'
  BY <1>4, <1>14 DEF NextInbox, sockVars
<1> QED BY <1>5, <1>6, <1>7, <1>8, <1>9, <1>10, <1>11, <1>12, <1>13, <1>14
        DEF Next, ServerNext, PeerNext

\* The program of a client does what peers may do, and keeps its types.
LEMMA ClientStep ==
  ASSUME SysTypeInv, NEW c \in Clients,
         \/ UserStep(c) \/ ProgramStep(c) \/ DataRecv(c) \/ Kill(c)
         \/ \E n \in 1..MaxRecord : SpinEnds(c, n)
  PROVE  PeerStep /\ ClientInv'
  BY LifeType, SignType, DataConnType, SessionType, RecordType, RunType
     DEF UserStep, ProgramStep

\* Every step of the system is one of Server, and keeps SysTypeInv.
LEMMA SysStep ==
  ASSUME SysTypeInv, [SysNext]_sysVars
  PROVE  [Next]_vars /\ SysTypeInv'
<1>1. [Next]_vars /\ ClientInv'
  <2>1. CASE ServerNext /\ UNCHANGED clientVars
    BY <2>1 DEF Next, SysTypeInv, ClientInv, clientVars, recordVars,
                ClientTypeOK, KnownInv
  <2>2. CASE \E c \in Clients :
               \/ UserStep(c) \/ ProgramStep(c) \/ DataRecv(c) \/ Kill(c)
               \/ \E n \in 1..MaxRecord : SpinEnds(c, n)
    BY <2>2, ClientStep DEF PeerStep, Next
  <2>3. CASE UNCHANGED sysVars
    BY <2>3 DEF sysVars, SysTypeInv, ClientInv, clientVars, recordVars,
                ClientTypeOK, KnownInv
  <2> QED BY <2>1, <2>2, <2>3 DEF SysNext
<1>2. TypeInv' /\ RoomInv'
  BY <1>1, NextType, RoomNext DEF SysTypeInv
<1> QED BY <1>1, <1>2 DEF SysTypeInv, ClientInv

\* No client runs initially, and nothing is sent.
LEMMA InitSysType == SysInit => SysTypeInv
<1> SUFFICES ASSUME SysInit PROVE SysTypeInv
  OBVIOUS
<1>1. TypeInv
  BY InitType DEF SysInit
<1>2. RoomInv
  <2>1. Len(<< >>) = 0 /\ SockBuf \in Nat
    BY SockBufAssumption
  <2> QED BY <2>1 DEF SysInit, Init, RoomInv
<1>3. ClientTypeOK
  <2>1. 0 \in 0..ReadSize
    BY DEF ReadSize
  <2>2. << >> \in Seq(Recordable)
    OBVIOUS
  <2>3. msgRecordMap \in [Clients -> [Names -> Seq(Recordable)]]
    BY <2>2 DEF SysInit, ClientInit
  <2> QED BY <2>1, <2>2, <2>3 DEF SysInit, ClientInit, ClientTypeOK, Places
<1>4. KnownInv
  BY DEF SysInit, ClientInit, KnownInv, Session
<1> QED BY <1>1, <1>2, <1>3, <1>4 DEF SysTypeInv

\* What the client program stores always has its type: a read takes less
\* than a packet beyond the packets it empties, and everything that is
\* recorded is a chat, a last reply, or nothing.
THEOREM ClientTypeCorrect == SysSpec => []ClientTypeOK
<1>1. SysInit => SysTypeInv
  BY InitSysType
<1>2. SysTypeInv /\ [SysNext]_sysVars => SysTypeInv'
  BY SysStep
<1>3. SysTypeInv => ClientTypeOK
  BY DEF SysTypeInv
<1> QED BY <1>1, <1>2, <1>3, PTL DEF SysSpec

\* The clients are peers as Server has them, so that whatever holds of the
\* server with arbitrary peers holds with the clients.
THEOREM ClientsArePeers == SysSpec => Spec
<1>1. SysInit => SysTypeInv /\ Init
  BY InitSysType DEF SysInit
<1>2. SysTypeInv /\ [SysNext]_sysVars => SysTypeInv' /\ [Next]_vars
  BY SysStep
<1> QED BY <1>1, <1>2, PTL DEF SysSpec, Spec

-----------------------------------------------------------------------------
(* What read shows.                                                        *)

\* The records of c, from one state to the next: chats are put behind those
\* that wait, or all of them go to the map.
Recording(c) ==
  /\ msgRecordMap'[c] = msgRecordMap[c]
  /\ \E s \in Seq(Recordable) : messageRecord'[c] = messageRecord[c] \o s

Filing(c) ==
  /\ msgRecordMap'[c] = Filed(c)
  /\ messageRecord'[c] = << >>

\* Nothing is recorded.
LEMMA NothingRecorded ==
  ASSUME ClientTypeOK, NEW c \in Clients,
         messageRecord'[c] = messageRecord[c],
         msgRecordMap'[c] = msgRecordMap[c]
  PROVE  Recording(c)
<1>1. messageRecord[c] \in Seq(Recordable) /\ << >> \in Seq(Recordable)
  BY DEF ClientTypeOK
<1>2. messageRecord[c] = messageRecord[c] \o << >>
  BY <1>1
<1> QED BY <1>1, <1>2 DEF Recording

\* Where three parts of a record are put together first makes no difference.
LEMMA ThreeParts ==
  \A x, y, z \in Seq(Recordable) : (x \o y) \o z = x \o (y \o z)
  BY ConcatAssociative

\* The collected replies go behind the record, and some more behind them.
LEMMA BothRecorded ==
  ASSUME ClientTypeOK, NEW c \in Clients, NEW s \in Seq(Recordable),
         messageRecord' = [messageRecord EXCEPT ![c] = @ \o charAckVec[c] \o s],
         UNCHANGED msgRecordMap
  PROVE  Recording(c)
<1>1. messageRecord[c] \in Seq(Recordable) /\ charAckVec[c] \in Seq(Recordable)
  BY DEF ClientTypeOK
<1>2. messageRecord'[c] = (messageRecord[c] \o charAckVec[c]) \o s
  BY DEF ClientTypeOK
<1>4. messageRecord'[c] = messageRecord[c] \o (charAckVec[c] \o s)
  <2>1. (messageRecord[c] \o charAckVec[c]) \o s
          = messageRecord[c] \o (charAckVec[c] \o s)
    BY <1>1, ThreeParts
  <2> QED BY <1>2, <2>1
<1>5. charAckVec[c] \o s \in Seq(Recordable)
  BY <1>1
<1> QED BY <1>4, <1>5 DEF Recording

\* A step of a client that runs leaves the records of the others alone and
\* records, or sorts, its own.
LEMMA RecordsMove ==
  ASSUME SysTypeInv, [SysNext]_sysVars, NEW c \in Clients, pc[c] # "off"
  PROVE  Recording(c) \/ Filing(c)
<1>1. ClientTypeOK
  BY DEF SysTypeInv
<1>2. CASE UNCHANGED recordVars
  BY <1>1, <1>2, NothingRecorded DEF recordVars
<1>3. ASSUME NEW d \in Clients, Start(d) PROVE Recording(c)
  <2>1. d # c
    BY <1>3 DEF Start
  <2>2. /\ messageRecord' = [messageRecord EXCEPT ![d] = << >>]
        /\ msgRecordMap' = [msgRecordMap EXCEPT ![d] = [n \in Names |-> << >>]]
    BY <1>3 DEF Start
  <2>3. /\ messageRecord'[c] = messageRecord[c]
        /\ msgRecordMap'[c] = msgRecordMap[c]
    BY <1>1, <2>1, <2>2 DEF ClientTypeOK
  <2> QED BY <1>1, <2>3, NothingRecorded
<1>4. ASSUME NEW d \in Clients, UpdateRecv(d) PROVE Recording(c)
  <2>1. UNCHANGED msgRecordMap
    BY <1>4 DEF UpdateRecv
  <2>2. PICK m \in Recordable :
          UNCHANGED messageRecord \/ \E code : UpdateLoop(d, m, code)
    <3>1. ASSUME NEW fd \in Unread(Ctrl(d)), NEW code,
                 UpdateLoop(d, AckChat(d, Head(down[fd])), code)
          PROVE  AckChat(d, Head(down[fd])) \in Recordable
      <4>1. down[fd] \in Seq(Packets) /\ down[fd] # << >>
        BY DEF Unread, FdsOf, SysTypeInv, TypeInv, TypeOK
      <4>2. Head(down[fd]) \in Packets
        BY <4>1
      <4>3. userName[d] \in Users
        BY <1>4 DEF UpdateRecv, SysTypeInv, KnownInv, Session
      <4> QED BY <4>2, <4>3, RecordableChats DEF AckChat
    <3> QED BY <1>4, <3>1, RecordableChats DEF UpdateRecv
  <2>3. UNCHANGED messageRecord
        \/ messageRecord' = [messageRecord EXCEPT
                               ![d] = @ \o charAckVec[d] \o <<m>>]
    BY <2>2 DEF UpdateLoop
  <2>4. CASE messageRecord'[c] = messageRecord[c]
    BY <1>1, <2>1, <2>4, NothingRecorded
  <2>5. CASE d = c /\ messageRecord' = [messageRecord EXCEPT
                                     ![d] = @ \o charAckVec[d] \o <<m>>]
    <3>1. <<m>> \in Seq(Recordable)
      OBVIOUS
    <3> QED BY <1>1, <2>1, <2>5, <3>1, BothRecorded
  <2> QED BY <1>1, <2>3, <2>4, <2>5 DEF ClientTypeOK
<1>5. ASSUME NEW d \in Clients, Read(d) PROVE Recording(c) \/ Filing(c)
  <2>1. CASE d = c
    BY <1>1, <1>5, <2>1 DEF Read, Filing, ClientTypeOK
  <2>2. CASE d # c
    <3>1. /\ messageRecord'[c] = messageRecord[c]
          /\ msgRecordMap'[c] = msgRecordMap[c]
      BY <1>1, <1>5, <2>2 DEF Read, ClientTypeOK
    <3> QED BY <1>1, <3>1, NothingRecorded
  <2> QED BY <2>1, <2>2
<1>6. ASSUME NEW d \in Clients, DataRecv(d) PROVE Recording(c)
  <2>1. UNCHANGED msgRecordMap
    BY <1>6 DEF DataRecv
  <2>2. \/ UNCHANGED messageRecord
        \/ \E m \in Recordable :
             messageRecord' = [messageRecord EXCEPT ![d] = Append(@, m)]
    <3>1. PICK fd \in Unread(Data(d)) :
            \/ UNCHANGED messageRecord
            \/ messageRecord' =
                 [messageRecord EXCEPT ![d] =
                    Append(@, IF taken[Data(d)] = 0 THEN Head(down[fd]).chat
                                                    ELSE NoChat)]
      BY <1>6 DEF DataRecv
    <3>2. down[fd] \in Seq(Packets) /\ down[fd] # << >>
      BY DEF Unread, FdsOf, SysTypeInv, TypeInv, TypeOK
    <3>3. Head(down[fd]) \in Packets
      BY <3>2
    <3> DEFINE m == IF taken[Data(d)] = 0 THEN Head(down[fd]).chat ELSE NoChat
    <3>4. m \in Recordable
      BY <3>3, RecordableChats
    <3>5. \/ UNCHANGED messageRecord
          \/ messageRecord' = [messageRecord EXCEPT ![d] = Append(@, m)]
      BY <3>1
    <3> HIDE DEF m
    <3> QED BY <3>4, <3>5
  <2>3. CASE messageRecord'[c] = messageRecord[c]
    BY <1>1, <2>1, <2>3, NothingRecorded
  <2>4. CASE d = c /\ \E m \in Recordable :
               messageRecord' = [messageRecord EXCEPT ![d] = Append(@, m)]
    <3>1. PICK m \in Recordable :
            messageRecord' = [messageRecord EXCEPT ![d] = Append(@, m)]
      BY <2>4
    <3>2. messageRecord[c] \in Seq(Recordable)
      BY <1>1 DEF ClientTypeOK
    <3>3. messageRecord'[c] = Append(messageRecord[c], m)
      BY <1>1, <2>4, <3>1 DEF ClientTypeOK
    <3>4. /\ <<m>> \in Seq(Recordable)
          /\ Append(messageRecord[c], m) = messageRecord[c] \o <<m>>
      BY <3>2
    <3> QED BY <2>1, <3>3, <3>4 DEF Recording
  <2> QED BY <1>1, <2>2, <2>3, <2>4 DEF ClientTypeOK
<1>9. ASSUME NEW d \in Clients, NEW n \in 1..MaxRecord, SpinEnds(d, n)
      PROVE  Recording(c)
  <2>1. /\ UNCHANGED msgRecordMap
        /\ messageRecord' = [messageRecord EXCEPT
                               ![d] = @ \o charAckVec[d] \o Unwritten(n)]
    BY <1>9 DEF SpinEnds, Unwritten
  <2>2. CASE d = c
    BY <1>1, <2>1, <2>2, UnwrittenType, BothRecorded
  <2>3. CASE d # c
    BY <1>1, <2>1, <2>3, NothingRecorded DEF ClientTypeOK
  <2> QED BY <2>2, <2>3
<1>7. ASSUME NEW d \in Clients,
             \/ UserStep(d) \/ ProgramStep(d) \/ DataRecv(d) \/ Kill(d)
             \/ \E n \in 1..MaxRecord : SpinEnds(d, n)
      PROVE  Recording(c) \/ Filing(c)
  <2>1. CASE \/ Start(d) \/ UpdateRecv(d) \/ Read(d) \/ DataRecv(d)
             \/ \E n \in 1..MaxRecord : SpinEnds(d, n)
    BY <1>3, <1>4, <1>5, <1>6, <1>9, <2>1
  <2>2. CASE \/ SignCmd(d)
             \/ \E u \in SignsAs[d], p \in Passwords : Sign(d, u, p)
             \/ SignOut(d) \/ Update(d)
             \/ \E receiver \in Receivers : SendCmd(d, receiver)
             \/ \E b \in Bodies : SendChat(d, b)
             \/ \E n \in Names : ReadUnknown(d, n)
    BY <1>2, <2>2 DEF SignCmd, Sign, SignOut, Update, SendCmd, SendChat,
                      ReadUnknown, recordVars
  <2>3. CASE \/ SignAck(d) \/ Dial(d) \/ Hello(d) \/ BuildAck(d)
             \/ SignOutAck(d) \/ CloseDataConn(d) \/ SendAck(d)
    BY <1>2, <2>3 DEF SignAck, Dial, Hello, BuildAck, SignOutAck,
                      CloseDataConn, SendAck, recordVars
  <2>4. CASE Discard(d) \/ ServerLost(d) \/ ExitClose(d) \/ Kill(d)
    BY <1>2, <2>4 DEF Discard, ServerLost, ExitClose, Kill, recordVars
  <2> QED BY <1>7, <2>1, <2>2, <2>3, <2>4 DEF UserStep, ProgramStep
<1>8. CASE (ServerNext /\ UNCHANGED clientVars) \/ UNCHANGED sysVars
  BY <1>2, <1>8 DEF sysVars, clientVars
<1> QED BY <1>7, <1>8 DEF SysNext

\* A sequence is the beginning of itself with more behind it.
LEMMA BeginsBehind ==
  ASSUME NEW T, NEW a \in Seq(T), NEW p \in Seq(T), NEW q \in Seq(T),
         Len(p) <= Len(q), p = SubSeq(q, 1, Len(p))
  PROVE  a \o p = SubSeq(a \o q, 1, Len(a \o p))
<1> DEFINE l == a \o p
           r == SubSeq(a \o q, 1, Len(l))
<1>1. l \in Seq(T) /\ Len(l) = Len(a) + Len(p) /\ Len(l) \in Nat
  OBVIOUS
<1>2. a \o q \in Seq(T) /\ Len(a \o q) = Len(a) + Len(q)
  OBVIOUS
<1>3. Len(l) <= Len(a \o q)
  BY <1>1, <1>2
<1>4. /\ r \in Seq(T) /\ Len(r) = Len(l)
      /\ \A i \in 1..Len(l) : r[i] = (a \o q)[i]
  BY <1>1, <1>2, <1>3
<1>5. \A i \in 1..Len(p) : p[i] = q[i]
  OBVIOUS
<1>6. ASSUME NEW i \in 1..Len(l) PROVE (a \o q)[i] = l[i]
  <2>1. CASE i <= Len(a)
    BY <1>1, <1>2, <2>1
  <2>2. CASE i > Len(a)
    <3>1. i - Len(a) \in 1..Len(p) /\ i - Len(a) \in 1..Len(q)
      BY <1>1, <2>2
    <3>2. (a \o q)[i] = q[i - Len(a)] /\ l[i] = p[i - Len(a)]
      BY <1>1, <1>2, <2>2, <3>1
    <3> QED BY <1>5, <3>1, <3>2
  <2> QED BY <2>1, <2>2
<1>7. \A i \in 1..Len(l) : r[i] = l[i]
  BY <1>4, <1>6
<1>8. l = r
  <2>1. r \in Seq(T) /\ Len(r) = Len(l) /\ l \in Seq(T)
    BY <1>1, <1>4
  <2> HIDE DEF l, r
  <2> QED BY <1>7, <2>1
<1> QED BY <1>8

\* What read shows goes on where it was.
LEMMA FiledGrows ==
  ASSUME SysTypeInv, [SysNext]_sysVars, NEW c \in Clients, NEW n \in Names,
         pc[c] # "off", userName'[c] = userName[c]
  PROVE  Filed(c)[n] = SubSeq(Filed(c)'[n], 1, Len(Filed(c)[n]))
<1> DEFINE old == messageRecord[c]
           new == messageRecord'[c]
           map == msgRecordMap[c][n]
<1>1. ClientTypeOK /\ ClientTypeOK'
  BY SysStep DEF SysTypeInv
<1>2. old \in Seq(Recordable) /\ new \in Seq(Recordable)
      /\ map \in Seq(Recordable)
  BY <1>1 DEF ClientTypeOK
<1>3. Filed(c)[n] = map \o Picked(old, PlacesOf(c, n))
  BY DEF Filed
<1>4. Filed(c)'[n] = msgRecordMap'[c][n] \o Picked(new, PlacesOf(c, n)')
  BY DEF Filed
<1>5. PlacesOf(c, n)' = {i \in DOMAIN new :
                           Correspondent(c, new[i]) = n}
  BY DEF PlacesOf, Correspondent
<1>6. PlacesOf(c, n) = {i \in DOMAIN old : Correspondent(c, old[i]) = n}
  BY DEF PlacesOf
<1>7. CASE Recording(c)
  <2>1. PICK s \in Seq(Recordable) : new = old \o s
    BY <1>7 DEF Recording
  <2> DEFINE S == PlacesOf(c, n)
             R == PlacesOf(c, n)'
             p == Picked(old, S)
             q == Picked(new, R)
  <2>2. /\ Len(old) \in Nat /\ Len(new) \in Nat /\ Len(old) <= Len(new)
        /\ DOMAIN old = 1..Len(old) /\ DOMAIN new = 1..Len(new)
        /\ \A i \in 1..Len(old) : old[i] = new[i]
    BY <1>2, <2>1
  <2>3. /\ S \in SUBSET DOMAIN old /\ R \in SUBSET DOMAIN new
        /\ S \subseteq R /\ \A i \in S : old[i] = new[i]
    <3> HIDE DEF old, new
    <3> QED BY <1>5, <1>6, <2>2
  <2>4. \A i \in R \ S : \A j \in S : j < i
    <3>1. \A i \in R \ S : i > Len(old) /\ i \in Nat
      <4> HIDE DEF old, new
      <4> QED BY <1>5, <1>6, <2>2
    <3>2. \A j \in S : j <= Len(old) /\ j \in Nat
      <4> HIDE DEF old, new
      <4> QED BY <2>2, <2>3
    <3> HIDE DEF S, R, old
    <3> QED BY <2>2, <3>1, <3>2
  <2>5. Len(p) <= Len(q) /\ p = SubSeq(q, 1, Len(p))
    <3> HIDE DEF S, R, old, new
    <3> QED BY <1>2, <2>3, <2>4, PickedBegins DEF p, q
  <2>6. p \in Seq(Recordable) /\ q \in Seq(Recordable)
    <3> HIDE DEF S, R, old, new
    <3> QED BY <1>2, <2>3, PickedType DEF p, q
  <2>7. map \o p = SubSeq(map \o q, 1, Len(map \o p))
    <3> HIDE DEF map, p, q
    <3> QED BY <1>2, <2>5, <2>6, BeginsBehind
  <2>8. Filed(c)'[n] = map \o q
    BY <1>4, <1>7 DEF Recording
  <2> QED BY <1>3, <2>7, <2>8
<1>8. CASE Filing(c)
  <2> DEFINE f == Filed(c)[n]
  <2>1. f \in Seq(Recordable)
    BY <1>1, FiledType
  <2>2. Filed(c)'[n] = f \o Picked(<< >>, PlacesOf(c, n)')
    BY <1>4, <1>8 DEF Filing
  <2>3. PlacesOf(c, n)' = {}
    BY <1>5, <1>8 DEF Filing
  <2>4. Picked(<< >>, {}) = << >>
    <3>1. Cardinality({}) = 0
      BY FS_EmptySet
    <3> QED BY <3>1 DEF Picked
  <2>5. Filed(c)'[n] = f
    BY <2>1, <2>2, <2>3, <2>4
  <2>6. f = SubSeq(f, 1, Len(f))
    <3> HIDE DEF f
    <3> QED BY <2>1
  <2> QED BY <2>5, <2>6
<1> QED BY <1>7, <1>8, RecordsMove

\* What read shows for a name only grows, and at its end, however reads,
\* updates and arriving chats follow each other, as long as the client keeps
\* its user (cmd.cpp:28-48).
THEOREM ReadOnlyGrows == SysSpec => ShownIsKept
<1>1. SysInit => SysTypeInv
  BY InitSysType
<1>2. SysTypeInv /\ [SysNext]_sysVars
      => SysTypeInv' /\
         [\A c \in Clients :
            pc[c] # "off" /\ userName'[c] = userName[c] =>
              \A n \in Names :
                Filed(c)[n] = SubSeq(Filed(c)'[n], 1, Len(Filed(c)[n]))
         ]_sysVars
  BY SysStep, FiledGrows
<1> QED BY <1>1, <1>2, PTL DEF SysSpec, ShownIsKept
=============================================================================
