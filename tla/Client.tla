------------------------------- MODULE Client -------------------------------
(***************************************************************************)
(* The client program (client/client.cpp, client/cmd.cpp,                  *)
(* socket/socketClient.cpp), one process per element of Clients, as a peer *)
(* of Server.                                                              *)
(*                                                                         *)
(* A client has a control connection, on which a command sends one request *)
(* and blocks for one acknowledgement, and from sign-in to sign-out a data *)
(* connection, on which the server forwards chats.  Acknowledgements are   *)
(* read without looking at their class or length.                          *)
(*                                                                         *)
(* TCP keeps no boundaries: a recv() takes what has arrived, up to a fixed *)
(* number of bytes.  The server is on the same host (SERVER_ADDR), where   *)
(* what one send() wrote arrives as a whole.                               *)
(***************************************************************************)
EXTENDS Server

CONSTANTS
  Clients,
  SignsAs,    \* client -> the user names its user types
  Types,      \* client -> the commands its user types
  Receivers,  \* the names chats are sent to
  Mortal,     \* the clients that may die at any moment
  NoUser,     \* a name that is no user's
  MaxRecord   \* bounds the chats a client records

ASSUME EndpointsAssumption == Endpoints = Clients \X {"ctrl", "data"}
ASSUME TextsAssumption == Bodies \subseteq Clients \X Nat
ASSUME SignsAsAssumption == SignsAs \in [Clients -> SUBSET Users]
ASSUME TypesAssumption ==
  Types \in [Clients -> SUBSET {"signUp", "signIn", "signOut", "send",
                              "update", "read", "readUnknown"}]
ASSUME ReceiversAssumption == Receivers \subseteq Users /\ NoUser \notin Users

VARIABLES
  pc,             \* where the process is; "off" when it does not run
  clientState,    \* _clientState
  userName,       \* _userName
  personTalking,  \* _personTalking
  asking,         \* the user name of the sign-up or sign-in under way
  dataConn,       \* _dataConnSocketFd is not 0
  stdin,          \* STDIN is open and in _readFdSet
  taken,          \* socket -> bytes already read of its next packet
  messageRecord,  \* _messageRecord
  charAckVec,     \* what the update under way has received
  msgRecordMap    \* _msgRecordMap: name -> chats; <<>> stands for "no entry"

recordVars == <<messageRecord, charAckVec, msgRecordMap>>
clientVars == <<pc, clientState, userName, personTalking, asking, dataConn,
                stdin, taken, recordVars>>

Waiting == {"signUp", "signIn", "build", "signOut", "send", "update"}
Typing == {"typeSignUp", "typeSignIn", "typeText"}
Places ==
  Waiting \cup Typing
    \cup {"off", "prompt", "dial", "hello", "close", "spin", "exit"}

Ctrl(c) == <<c, "ctrl">>
Data(c) == <<c, "data">>

Names == Users \cup {NoUser}

\* The last reply to update, seen as a chat: from the user to nobody.
LastReply(u) == ChatMsg(u, NoUser, Garbled)

Recordable == UpdateChats \cup {NoChat} \cup {LastReply(u) : u \in Users}

ClientTypeOK ==
  /\ pc \in [Clients -> Places]
  /\ clientState \in [Clients -> {"IDLE", "SIGNIN", "TALKING"}]
  /\ userName \in [Clients -> Users \cup {NoUser}]
  /\ personTalking \in [Clients -> Users \cup {NoUser}]
  /\ asking \in [Clients -> Users \cup {NoUser}]
  /\ dataConn \in [Clients -> BOOLEAN]
  /\ stdin \in [Clients -> BOOLEAN]
  /\ taken \in [Endpoints -> 0..ReadSize]
  /\ messageRecord \in [Clients -> Seq(Recordable)]
  /\ charAckVec \in [Clients -> Seq(Recordable)]
  /\ msgRecordMap \in [Clients -> [Names -> Seq(Recordable)]]

ClientInit ==
  /\ pc = [c \in Clients |-> "off"]
  /\ clientState = [c \in Clients |-> "IDLE"]
  /\ userName = [c \in Clients |-> NoUser]
  /\ personTalking = [c \in Clients |-> NoUser]
  /\ asking = [c \in Clients |-> NoUser]
  /\ dataConn = [c \in Clients |-> FALSE]
  /\ stdin = [c \in Clients |-> TRUE]
  /\ taken = [e \in Endpoints |-> 0]
  /\ messageRecord = [c \in Clients |-> << >>]
  /\ charAckVec = [c \in Clients |-> << >>]
  /\ msgRecordMap = [c \in Clients |-> [n \in Names |-> << >>]]

-----------------------------------------------------------------------------
(* Sockets, as the client uses them.                                       *)

ServerDied == mode \in Died

FdsOf(e) == {fd \in readfds : peer[fd] = e}
QueuedAt(e) == {i \in DOMAIN backlog : backlog[i].peer = e}
Open(e) == FdsOf(e) # {} \/ QueuedAt(e) # {}

\* What is there to read on e.
Unread(e) == {fd \in FdsOf(e) : down[fd] # << >>}

\* send(), whose result is ignored.
SendRequest(e, r) ==
  \/ \E fd \in FdsOf(e) : PeerSend(fd, r)
  \/ \E i \in QueuedAt(e) : PeerSendEarly(i, r)
  \/ ServerDied /\ UNCHANGED vars

Close(e) ==
  \/ \E fd \in FdsOf(e) : PeerClose(fd)
  \/ \E i \in QueuedAt(e) : PeerCloseEarly(i)

\* The bytes of the first k packets of q.
BytesUpTo(q, k) ==
  LET count(size) == Cardinality({i \in 1..k : SizeOf(q[i]) = size})
  IN  152 * count(152) + 168 * count(168) + 4104 * count(4104)

\* Bytes there are to read on e, when q are its packets.
Available(e, q) == BytesUpTo(q, Len(q)) - taken[e]

\* One read takes the packets of which it reaches the last byte ...
Emptied(e, q) ==
  LET reached == {k \in 0..Len(q) : BytesUpTo(q, k) <= taken[e] + ReadSize}
  IN  CHOOSE k \in reached : \A j \in reached : j <= k

\* Mutant: the difference the other way round.
OverreadReversed(e, q) ==
  IF Emptied(e, q) = Len(q) THEN 0
  ELSE BytesUpTo(q, Emptied(e, q)) - taken[e] - ReadSize

\* ... and the first bytes of the one behind them.
Overread(e, q) ==
  IF Emptied(e, q) = Len(q) THEN 0
  ELSE taken[e] + ReadSize - BytesUpTo(q, Emptied(e, q))

Recv(fd, e) ==
  /\ PeerRecv(fd, Emptied(e, down[fd]))
  /\ taken' = [taken EXCEPT ![e] = Overread(e, down[fd])]

\* What lies at the place of the enumerator.  When the read begins inside a
\* packet it is a text, or memory nobody wrote.
CodeAt(e, p) == IF taken[e] = 0 THEN {p.code} ELSE AckCodes \cup {-1}

\* Mutant: the command gives up waiting.
RecvAckOrGiveUp(e, code) ==
  \/ \E fd \in Unread(e) : Recv(fd, e) /\ code \in CodeAt(e, Head(down[fd]))
  \/ code = -1 /\ UNCHANGED <<vars, taken>>

\* One recv() of an acknowledgement, taken for the class the command waits
\* for.  If the server has died recv() returns nothing and the buffer was
\* never written.
RecvAck(e, code) ==
  \/ \E fd \in Unread(e) : Recv(fd, e) /\ code \in CodeAt(e, Head(down[fd]))
  \/ /\ ServerDied /\ Unread(e) = {}
     /\ code \in AckCodes \cup {-1}
     /\ UNCHANGED <<vars, taken>>

\* connect() fails five times when there is no server, then exit(1).
Connect(e) == PeerConnect(e)

Goto(c, place) == pc' = [pc EXCEPT ![c] = place]

-----------------------------------------------------------------------------
(* The process.                                                            *)

\* main and the constructor of Client.
Start(c) ==
  /\ pc[c] = "off"
  /\ Connect(Ctrl(c))
  /\ Goto(c, "prompt")
  /\ clientState' = [clientState EXCEPT ![c] = "IDLE"]
  /\ userName' = [userName EXCEPT ![c] = NoUser]
  /\ personTalking' = [personTalking EXCEPT ![c] = NoUser]
  /\ asking' = [asking EXCEPT ![c] = NoUser]
  /\ dataConn' = [dataConn EXCEPT ![c] = FALSE]
  /\ stdin' = [stdin EXCEPT ![c] = TRUE]
  /\ taken' = [taken EXCEPT ![Ctrl(c)] = 0, ![Data(c)] = 0]
  /\ messageRecord' = [messageRecord EXCEPT ![c] = << >>]
  /\ charAckVec' = [charAckVec EXCEPT ![c] = << >>]
  /\ msgRecordMap' = [msgRecordMap EXCEPT ![c] = [n \in Names |-> << >>]]

\* Death by a signal, at any place.
Kill(c) ==
  /\ c \in Mortal
  /\ pc[c] \notin {"off", "exit"}
  /\ Goto(c, "exit")
  /\ UNCHANGED <<vars, clientState, userName, personTalking, asking, dataConn,
                 stdin, taken, recordVars>>

\* The kernel closes what the process had open, the control socket first.
ExitClose(c) ==
  /\ pc[c] = "exit"
  /\ \/ /\ Close(Ctrl(c))
        /\ UNCHANGED pc
     \/ /\ ~Open(Ctrl(c)) /\ Close(Data(c))
        /\ UNCHANGED pc
     \/ /\ ~Open(Ctrl(c)) /\ ~Open(Data(c))
        /\ Goto(c, "off")
        /\ UNCHANGED vars
  /\ UNCHANGED <<clientState, userName, personTalking, asking, dataConn,
                 stdin, taken, recordVars>>

-----------------------------------------------------------------------------
(* SignUpCmd, SignInCmd and buildDataConn.                                 *)

\* run sees STDIN readable and readCmd finds the command.
Typed(c, command) ==
  pc[c] = "prompt" /\ stdin[c] /\ command \in Types[c]

SignRequest(t, u, p) == [type |-> t, user |-> u, password |-> p]

\* The command asks for a name and a password, and waits for the user.
SignCmd(c) ==
  /\ clientState[c] = "IDLE"
  /\ \/ Typed(c, "signUp") /\ Goto(c, "typeSignUp")
     \/ Typed(c, "signIn") /\ Goto(c, "typeSignIn")
  /\ UNCHANGED <<vars, clientState, userName, personTalking, asking, dataConn,
                 stdin, taken, recordVars>>

Sign(c, u, p) ==
  /\ \/ /\ pc[c] = "typeSignUp"
        /\ SendRequest(Ctrl(c), SignRequest("SIGNUP", u, p))
        /\ Goto(c, "signUp")
     \/ /\ pc[c] = "typeSignIn"
        /\ SendRequest(Ctrl(c), SignRequest("SIGNIN", u, p))
        /\ Goto(c, "signIn")
  /\ asking' = [asking EXCEPT ![c] = u]
  /\ UNCHANGED <<clientState, userName, personTalking, dataConn, stdin, taken,
                 recordVars>>

\* SIGNUP_ACK_SUCCESS and SIGNIN_ACK_SUCCESS are the same number.
SignAck(c) ==
  /\ pc[c] \in {"signUp", "signIn"}
  /\ \/ /\ RecvAck(Ctrl(c), SIGNIN_ACK_SUCCESS)
        /\ clientState' = [clientState EXCEPT ![c] = "SIGNIN"]
        /\ userName' = [userName EXCEPT ![c] = asking[c]]
        /\ Goto(c, "dial")
     \/ /\ \E code \in (AckCodes \cup {-1}) \ {SIGNIN_ACK_SUCCESS} :
             RecvAck(Ctrl(c), code)
        /\ Goto(c, "prompt")
        /\ UNCHANGED <<clientState, userName>>
  /\ asking' = [asking EXCEPT ![c] = NoUser]
  /\ UNCHANGED <<personTalking, dataConn, stdin, recordVars>>

Dial(c) ==
  /\ pc[c] = "dial"
  /\ \/ /\ Connect(Data(c))
        /\ dataConn' = [dataConn EXCEPT ![c] = TRUE]
        /\ Goto(c, "hello")
     \/ /\ ServerDied
        /\ Goto(c, "exit")
        /\ UNCHANGED <<vars, dataConn>>
  /\ UNCHANGED <<clientState, userName, personTalking, asking, stdin, taken,
                 recordVars>>

BuildRequest(u) == [type |-> "BUILD_DATA_CONN", user |-> u]

Hello(c) ==
  /\ pc[c] = "hello"
  /\ SendRequest(Data(c), BuildRequest(userName[c]))
  /\ Goto(c, "build")
  /\ UNCHANGED <<clientState, userName, personTalking, asking, dataConn,
                 stdin, taken, recordVars>>

\* charAck has MAX_MSG_SIZE bytes, and the recv may take 40 more.
AckRoom == 4096

Overrun(c) ==
  \E fd \in Unread(Data(c)) : Available(Data(c), down[fd]) > AckRoom

\* What was forwarded right behind the acknowledgement is read with it, and
\* thrown away.  What it writes behind charAck is a string that is no longer
\* used, or the mark that makes the process abort, as the build has it.
BuildAck(c) ==
  /\ pc[c] = "build"
  /\ \E code \in AckCodes \cup {-1} :
       /\ RecvAck(Data(c), code)
       /\ \/ Goto(c, IF code = DATA_CONN_SUCCESS THEN "prompt" ELSE "close")
          \/ Overrun(c) /\ Goto(c, "exit")
  /\ UNCHANGED <<clientState, userName, personTalking, asking, dataConn,
                 stdin, recordVars>>

\* closeDataConn.  With _dataConnSocketFd = 0 it is STDIN that is closed.
CloseDataConn(c) ==
  /\ pc[c] = "close"
  /\ \/ /\ dataConn[c]
        /\ Close(Data(c))
        /\ UNCHANGED stdin
     \/ /\ ~dataConn[c]
        /\ stdin' = [stdin EXCEPT ![c] = FALSE]
        /\ UNCHANGED vars
  /\ dataConn' = [dataConn EXCEPT ![c] = FALSE]
  /\ taken' = [taken EXCEPT ![Data(c)] = 0]
  /\ Goto(c, "prompt")
  /\ UNCHANGED <<clientState, userName, personTalking, asking, recordVars>>

-----------------------------------------------------------------------------
(* SignOutCmd.                                                             *)

SignOut(c) ==
  /\ Typed(c, "signOut") /\ clientState[c] # "IDLE"
  /\ SendRequest(Ctrl(c), [type |-> "SIGNOUT", user |-> userName[c]])
  /\ Goto(c, "signOut")
  /\ UNCHANGED <<clientState, userName, personTalking, asking, dataConn,
                 stdin, taken, recordVars>>

SignOutAck(c) ==
  /\ pc[c] = "signOut"
  /\ \/ /\ RecvAck(Ctrl(c), SIGNOUT_ACK_SUCCESS)
        /\ userName' = [userName EXCEPT ![c] = NoUser]
        /\ clientState' = [clientState EXCEPT ![c] = "IDLE"]
        /\ Goto(c, "close")
     \/ /\ \E code \in (AckCodes \cup {-1}) \ {SIGNOUT_ACK_SUCCESS} :
             RecvAck(Ctrl(c), code)
        /\ Goto(c, "prompt")
        /\ UNCHANGED <<userName, clientState>>
  /\ UNCHANGED <<personTalking, asking, dataConn, stdin, recordVars>>

-----------------------------------------------------------------------------
(* SendCmd.                                                                *)

\* The texts of c are numbered in the order it sends them.
NextText(c, b) ==
  /\ b \in unsent /\ b[1] = c
  /\ \A x \in unsent : x[1] = c => b[2] <= x[2]

\* send <receiver>, or send alone while talking to that receiver.  The text
\* is asked for; no socket is read until it is there.
\* Bound: a text is left.
SendCmd(c, receiver) ==
  /\ Typed(c, "send") /\ clientState[c] # "IDLE"
  /\ \E b \in Bodies : NextText(c, b)
  /\ personTalking' = [personTalking EXCEPT ![c] = receiver]
  /\ clientState' = [clientState EXCEPT ![c] = "TALKING"]
  /\ Goto(c, "typeText")
  /\ UNCHANGED <<vars, userName, asking, dataConn, stdin, taken, recordVars>>

SendChat(c, b) ==
  /\ pc[c] = "typeText"
  /\ NextText(c, b)
  /\ SendRequest(Ctrl(c), ChatMsg(userName[c], personTalking[c], b))
  /\ Goto(c, "send")
  /\ UNCHANGED <<clientState, userName, personTalking, asking, dataConn, stdin,
                 taken, recordVars>>

SendAck(c) ==
  /\ pc[c] = "send"
  /\ \E code \in AckCodes \cup {-1} :
       /\ RecvAck(Ctrl(c), code)
       /\ Goto(c, IF code \in {CHAT_SENT, CHAT_REICEIER_NOT_EXIST}
                    THEN "prompt" ELSE "exit")
  /\ UNCHANGED <<clientState, userName, personTalking, asking, dataConn,
                 stdin, recordVars>>

-----------------------------------------------------------------------------
(* UpdateCmd and sendAndWaitAckStatus; ReadCmd.                            *)

\* A name is _header._sender, or whom the user wrote to.
Correspondent(c, m) ==
  IF m = NoChat THEN NoUser
  ELSE IF m.sender # userName[c] THEN m.sender ELSE m.receiver

\* Where _messageRecord has the chats with n.
PlacesOf(c, n) ==
  {i \in DOMAIN messageRecord[c] : Correspondent(c, messageRecord[c][i]) = n}

\* Mutant: the chats go to the map and stay in the vector too.
FiledAgain(c) ==
  [n \in Names |->
     Picked(messageRecord[c], PlacesOf(c, n)) \o msgRecordMap[c][n]]

\* What _msgRecordMap holds once _messageRecord is sorted into it.
Filed(c) ==
  [n \in Names |->
     msgRecordMap[c][n] \o Picked(messageRecord[c], PlacesOf(c, n))]

\* Bound: MaxRecord.
Update(c) ==
  /\ Typed(c, "update") /\ clientState[c] # "IDLE"
  /\ \A n \in Names : Len(Filed(c)[n]) < MaxRecord
  /\ SendRequest(Ctrl(c), [type |-> "UPDATE", sender |-> userName[c]])
  /\ Goto(c, "update")
  /\ UNCHANGED <<clientState, userName, personTalking, asking, dataConn,
                 stdin, taken, recordVars>>

\* Seen as a chat, a reply read from its first byte is the chat it copies.
\* One read from the middle is NoChat, whatever names its bytes make: none, as
\* a rule, but one read from byte 32 on has its receiver from the third
\* character on where _sender is.
AckChat(c, p) ==
  IF taken[Ctrl(c)] # 0 THEN NoChat
  ELSE IF p.code = UPDATE_COMPLETE THEN LastReply(userName[c])
  ELSE p.chat

\* The loop goes on until a read has UPDATE_COMPLETE at a fixed offset.
UpdateLoop(c, m, code) ==
  IF code = UPDATE_COMPLETE
    THEN /\ messageRecord' =
              [messageRecord EXCEPT ![c] = @ \o charAckVec[c] \o <<m>>]
         /\ charAckVec' = [charAckVec EXCEPT ![c] = << >>]
         /\ Goto(c, "prompt")
    ELSE /\ charAckVec' = [charAckVec EXCEPT ![c] = Append(@, m)]
         /\ UNCHANGED <<pc, messageRecord>>

UpdateRecv(c) ==
  /\ pc[c] = "update"
  /\ \/ \E fd \in Unread(Ctrl(c)) :
          LET p == Head(down[fd])
          IN  /\ Recv(fd, Ctrl(c))
              /\ \E code \in CodeAt(Ctrl(c), p) :
                   UpdateLoop(c, AckChat(c, p), code)
     \/ /\ ServerDied /\ Unread(Ctrl(c)) = {}
        /\ Goto(c, "spin")
        /\ UNCHANGED <<vars, taken, messageRecord, charAckVec>>
  /\ UNCHANGED <<clientState, userName, personTalking, asking, dataConn, stdin,
                 msgRecordMap>>

\* Once the server has died every recv() returns at once and writes nothing:
\* the loop spins, piling up buffers nobody wrote, until memory is such that
\* one holds UPDATE_COMPLETE, if it ever does.  Bound: n buffers.
SpinEnds(c, n) ==
  /\ pc[c] = "spin"
  /\ messageRecord' =
       [messageRecord EXCEPT ![c] =
          @ \o charAckVec[c] \o [i \in 1..n |-> NoChat]]
  /\ charAckVec' = [charAckVec EXCEPT ![c] = << >>]
  /\ Goto(c, "prompt")
  /\ UNCHANGED <<vars, clientState, userName, personTalking, asking, dataConn,
                 stdin, taken, msgRecordMap>>

\* read -l, and read of names that are in the map.
Read(c) ==
  /\ Typed(c, "read")
  /\ msgRecordMap' = [msgRecordMap EXCEPT ![c] = Filed(c)]
  /\ messageRecord' = [messageRecord EXCEPT ![c] = << >>]
  /\ UNCHANGED <<vars, pc, clientState, userName, personTalking, asking,
                 dataConn, stdin, taken, charAckVec>>

\* read of a name that is not: the end of the map is dereferenced.
ReadUnknown(c, n) ==
  /\ Typed(c, "readUnknown")
  /\ Filed(c)[n] = << >>
  /\ Goto(c, "exit")
  /\ UNCHANGED <<vars, clientState, userName, personTalking, asking,
                 dataConn, stdin, taken, recordVars>>

-----------------------------------------------------------------------------
(* run, when it is not executing a command.                                *)

\* A full read makes no chunk, and run uses the first one: a null pointer.
\* The rest of a chat whose first bytes are gone reads as a chat with no
\* names: its bytes are the zeros behind the text (texts are shorter than
\* 3900 bytes).
DataRecv(c) ==
  /\ pc[c] = "prompt" /\ clientState[c] # "IDLE"
  /\ \E fd \in Unread(Data(c)) :
       \/ /\ Available(Data(c), down[fd]) >= ReadSize
          /\ Goto(c, "exit")
          /\ UNCHANGED <<vars, taken, messageRecord>>
       \/ /\ Available(Data(c), down[fd]) < ReadSize
          /\ Recv(fd, Data(c))
          /\ messageRecord' =
               [messageRecord EXCEPT ![c] =
                  Append(@, IF taken[Data(c)] = 0 THEN Head(down[fd]).chat
                                                  ELSE NoChat)]
          /\ UNCHANGED pc
  /\ UNCHANGED <<clientState, userName, personTalking, asking, dataConn, stdin,
                 charAckVec, msgRecordMap>>

\* What is on the control socket while no command waits is thrown away.
Discard(c) ==
  /\ pc[c] = "prompt"
  /\ \E fd \in Unread(Ctrl(c)) : Recv(fd, Ctrl(c))
  /\ UNCHANGED <<pc, clientState, userName, personTalking, asking, dataConn,
                 stdin, recordVars>>

\* "Server is disconnected", on the control or on the data socket.
ServerLost(c) ==
  /\ pc[c] = "prompt" /\ ServerDied
  /\ Goto(c, "exit")
  /\ UNCHANGED <<vars, clientState, userName, personTalking, asking, dataConn,
                 stdin, taken, recordVars>>

\* What the user types.
UserStep(c) ==
  \/ Start(c)
  \/ SignCmd(c)
  \/ \E u \in SignsAs[c], p \in Passwords : Sign(c, u, p)
  \/ SignOut(c)
  \/ \E receiver \in Receivers : SendCmd(c, receiver)
  \/ \E b \in Bodies : SendChat(c, b)
  \/ Update(c)
  \/ Read(c)
  \/ \E n \in Names : ReadUnknown(c, n)

\* What the program does then by itself.
ProgramStep(c) ==
  \/ SignAck(c) \/ Dial(c) \/ Hello(c) \/ BuildAck(c)
  \/ SignOutAck(c) \/ CloseDataConn(c)
  \/ SendAck(c) \/ UpdateRecv(c)
  \/ Discard(c) \/ ServerLost(c) \/ ExitClose(c)
=============================================================================
