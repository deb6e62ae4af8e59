---------------------------- MODULE SessionProofs ----------------------------
(***************************************************************************)
(* Sessions of the clients with the server: whose connection a descriptor  *)
(* is, what is on it, and where a user is registered.  RecordInv is the    *)
(* invariant behind the records, SessInv the one behind the sessions.      *)
(***************************************************************************)
EXTENDS SystemProofs, MailboxProofs

-----------------------------------------------------------------------------
(* The connections.                                                        *)

\* A descriptor that is not open is like new.
ClosedInv ==
  \A fd \in Fds : fd \notin readfds => peer[fd] = Fin /\ up[fd] = << >>

\* Whatever is marked as ready is still ready.
ReadyInv == \A fd \in working : Ready(fd)

\* A socket has one connection at most, accepted or not.
OneConnection ==
  /\ \A fd, gd \in Fds :
       peer[fd] = peer[gd] /\ peer[fd] \in Endpoints => fd = gd
  /\ \A i, j \in DOMAIN backlog :
       backlog[i].peer = backlog[j].peer /\ backlog[i].peer \in Endpoints
         => i = j
  /\ \A fd \in Fds, i \in DOMAIN backlog :
       peer[fd] \in Endpoints => peer[fd] # backlog[i].peer

NetInv == ClosedInv /\ ReadyInv /\ OneConnection

\* What Select takes off the backlog, and what it leaves.
LEMMA BacklogTail ==
  ASSUME TypeInv, backlog # << >>
  PROVE  /\ 1 \in DOMAIN backlog /\ Head(backlog) = backlog[1]
         /\ \A i \in DOMAIN Tail(backlog) :
              i + 1 \in DOMAIN backlog /\ Tail(backlog)[i] = backlog[i + 1]
         /\ \A i \in DOMAIN Tail(backlog) : i \in Nat /\ i + 1 # 1
<1> DEFINE R == [peer : Endpoints \cup {Fin}, up : Seq(Requests)]
<1>1. backlog \in Seq(R)
  BY DEF TypeInv, TypeOK
<1> QED BY <1>1

LEMMA NetSelect ==
  ASSUME TypeInv, NetInv, Select
  PROVE  NetInv'
<1> USE DEF NetInv, ClosedInv, ReadyInv, OneConnection
<1>1. /\ working' = {fd \in readfds : Ready(fd)}
      /\ readfds \in SUBSET Fds
      /\ peer \in [Fds -> Endpoints \cup {Fin, Rst}]
      /\ up \in [Fds -> Seq(Requests)]
  BY DEF Select, TypeInv, TypeOK
<1>2. CASE UNCHANGED <<readfds, backlog, peer, up, down>>
  BY <1>1, <1>2 DEF Ready
<1>3. ASSUME backlog # << >>, NEW fd \in Fds \ readfds,
             readfds' = readfds \cup {fd},
             peer' = [peer EXCEPT ![fd] = Head(backlog).peer],
             up' = [up EXCEPT ![fd] = Head(backlog).up],
             backlog' = Tail(backlog)
      PROVE  NetInv'
  <2>1. /\ 1 \in DOMAIN backlog /\ Head(backlog) = backlog[1]
        /\ \A i \in DOMAIN backlog' :
             i + 1 \in DOMAIN backlog /\ backlog'[i] = backlog[i + 1]
        /\ \A i \in DOMAIN backlog' : i \in Nat /\ i + 1 # 1
    BY <1>3, BacklogTail
  <2>2. \A x \in Fds : /\ peer'[x] = IF x = fd THEN backlog[1].peer ELSE peer[x]
                       /\ up'[x] = IF x = fd THEN backlog[1].up ELSE up[x]
    BY <1>1, <1>3, <2>1
  <2>3. ClosedInv'
    BY <1>3, <2>2
  <2>4. ReadyInv'
    BY <1>1, <1>3, <2>2 DEF Ready
  <2>5. \A x, y \in Fds :
          peer'[x] = peer'[y] /\ peer'[x] \in Endpoints => x = y
    BY <2>1, <2>2
  <2>6. \A i, j \in DOMAIN backlog' :
          backlog'[i].peer = backlog'[j].peer
            /\ backlog'[i].peer \in Endpoints => i = j
    <3> TAKE i, j \in DOMAIN backlog'
    <3> HAVE backlog'[i].peer = backlog'[j].peer
             /\ backlog'[i].peer \in Endpoints
    <3>1. i + 1 = j + 1
      BY <2>1
    <3> QED BY <2>1, <3>1
  <2>7. \A x \in Fds, i \in DOMAIN backlog' :
          peer'[x] \in Endpoints => peer'[x] # backlog'[i].peer
    BY <2>1, <2>2
  <2> QED BY <2>3, <2>4, <2>5, <2>6, <2>7
<1> QED BY <1>2, <1>3 DEF Select

\* Only connecting makes a connection, and only of a socket that has none.
LEMMA NetNext == TypeInv /\ TextInv /\ NetInv /\ [Next]_vars => NetInv'
<1> SUFFICES ASSUME TypeInv, TextInv, NetInv, [Next]_vars PROVE NetInv'
  OBVIOUS
<1> USE DEF NetInv, ClosedInv, ReadyInv, OneConnection
<1>1. /\ readfds \in SUBSET Fds /\ working \in SUBSET readfds
      /\ peer \in [Fds -> Endpoints \cup {Fin, Rst}]
      /\ up \in [Fds -> Seq(Requests)]
      /\ backlog \in Seq([peer : Endpoints \cup {Fin}, up : Seq(Requests)])
  BY DEF TypeInv, TypeOK
<1>2. CASE UNCHANGED <<readfds, working, backlog, peer, up>>
  BY <1>2 DEF Ready
<1>3. CASE Select
  BY <1>3, NetSelect
<1>4. ASSUME NEW fd \in Fds, Dispatch(fd) PROVE NetInv'
  <2>1. /\ working' = working \ {fd} /\ fd \in working
        /\ up' = [up EXCEPT ![fd] = Tail(@)]
        /\ UNCHANGED <<readfds, backlog, peer>>
    BY <1>4 DEF Dispatch, Turn
  <2>2. \A x \in Fds : x # fd => up'[x] = up[x]
    BY <1>1, <2>1
  <2>3. ClosedInv' /\ ReadyInv'
    BY <1>1, <2>1, <2>2 DEF Ready
  <2> QED BY <2>1, <2>3
<1>5. ASSUME NEW fd \in Fds, HostDisconnected(fd) PROVE NetInv'
  <2>1. /\ working' = working \ {fd} /\ up[fd] = << >> /\ peer[fd] = Fin
        /\ UNCHANGED <<backlog, peer, up>>
    BY <1>5 DEF HostDisconnected, Turn
  <2>2. readfds' = readfds \/ readfds' = readfds \ {fd}
    BY <1>5 DEF HostDisconnected, RemoveConnection, EraseSession, CloseFd
  <2> QED BY <1>1, <2>1, <2>2 DEF Ready
<1>6. ASSUME NEW fd \in Fds, ReadError(fd) PROVE NetInv'
  BY <1>1, <1>6 DEF ReadError, Turn, Ready
<1>7. ASSUME NEW e \in Endpoints, PeerConnect(e) PROVE NetInv'
  <2> DEFINE new == [peer |-> e, up |-> << >>]
  <2>1. /\ UNCHANGED <<readfds, working, peer, up>>
        /\ backlog' = Append(backlog, new)
        /\ \A fd \in readfds : peer[fd] # e
        /\ \A i \in DOMAIN backlog : backlog[i].peer # e
    BY <1>7 DEF PeerConnect, Idle, serverVars
  <2>2. \A fd \in Fds : peer[fd] # e
    BY <2>1, PeersAssumption
  <2>3. \A i \in DOMAIN backlog' :
          \/ i \in DOMAIN backlog /\ backlog'[i] = backlog[i]
          \/ i = Len(backlog) + 1 /\ backlog'[i] = new
    BY <1>1, <2>1
  <2>4. \A i \in DOMAIN backlog' :
          \/ i \in DOMAIN backlog /\ backlog'[i].peer = backlog[i].peer
          \/ i = Len(backlog) + 1 /\ backlog'[i].peer = e
    BY <2>3
  <2> QED BY <2>1, <2>2, <2>4 DEF Ready
<1>8. ASSUME NEW fd \in Fds, NEW r \in Offered, PeerSend(fd, r) PROVE NetInv'
  <2>1. /\ UNCHANGED <<readfds, working, peer, backlog>>
        /\ up' = [up EXCEPT ![fd] = <<r>>] /\ fd \in readfds
    BY <1>8 DEF PeerSend, serverVars
  <2> QED BY <1>1, <2>1 DEF Ready
<1>9. ASSUME NEW i \in DOMAIN backlog, NEW r \in Offered, PeerSendEarly(i, r)
      PROVE  NetInv'
  <2>1. /\ UNCHANGED <<readfds, working, peer, up>>
        /\ backlog' = [backlog EXCEPT ![i].up = <<r>>]
    BY <1>9 DEF PeerSendEarly, serverVars
  <2>2. /\ DOMAIN backlog' = DOMAIN backlog
        /\ \A j \in DOMAIN backlog : backlog'[j].peer = backlog[j].peer
    BY <1>1, <2>1
  <2> QED BY <2>1, <2>2 DEF Ready
<1>10. ASSUME NEW fd \in Fds, NEW n, PeerRecv(fd, n) PROVE NetInv'
  BY <1>2, <1>10 DEF PeerRecv, serverVars
<1>11. ASSUME NEW fd \in Fds, PeerClose(fd) PROVE NetInv'
  <2>1. /\ UNCHANGED <<readfds, working, up, backlog>> /\ fd \in readfds
        /\ \E v \in {Fin, Rst} : peer' = [peer EXCEPT ![fd] = v]
    BY <1>11 DEF PeerClose, serverVars
  <2> QED BY <1>1, <2>1, PeersAssumption DEF Ready
<1>12. ASSUME NEW i \in DOMAIN backlog, PeerCloseEarly(i) PROVE NetInv'
  <2>1. /\ UNCHANGED <<readfds, working, peer, up>>
        /\ backlog' = [backlog EXCEPT ![i].peer = Fin]
    BY <1>12 DEF PeerCloseEarly, serverVars
  <2>2. /\ DOMAIN backlog' = DOMAIN backlog
        /\ \A j \in DOMAIN backlog :
             backlog'[j].peer = backlog[j].peer \/ backlog'[j].peer = Fin
    BY <1>1, <2>1
  <2> QED BY <2>1, <2>2, PeersAssumption DEF Ready
<1>13. CASE UpdateAck \/ \E u \in Users : ForwardMessage(u) \/ NextInbox(u)
  BY <1>2, <1>13 DEF UpdateAck, ForwardMessage, NextInbox, sockVars
<1>14. CASE UNCHANGED vars
  BY <1>2, <1>14 DEF vars, sockVars
<1> QED BY <1>3, <1>4, <1>5, <1>6, <1>7, <1>8, <1>9, <1>10, <1>11, <1>12,
           <1>13, <1>14 DEF Next, ServerNext, PeerNext

-----------------------------------------------------------------------------
(* What is under way.                                                      *)

NoConn(e) ==
  /\ \A fd \in Fds : peer[fd] # e
  /\ \A i \in DOMAIN backlog : backlog[i].peer # e

\* The server has still to read r from the socket e.
Asks(e, r) ==
  \/ \E fd \in Fds :
       peer[fd] = e /\ up[fd] # << >> /\ Head(up[fd]) = r
  \/ \E i \in DOMAIN backlog :
       backlog[i].peer = e /\ backlog[i].up # << >> /\ Head(backlog[i].up) = r

\* The same, from anybody, gone or not.
AnyAsks(r) ==
  \/ \E fd \in Fds : up[fd] # << >> /\ Head(up[fd]) = r
  \/ \E i \in DOMAIN backlog :
       backlog[i].up # << >> /\ Head(backlog[i].up) = r

\* A step that asks for nothing, and one that makes no connection either.
AsksNothing ==
  /\ \A e \in Endpoints : \A r : Asks(e, r)' => Asks(e, r)
  /\ \A r : AnyAsks(r)' => AnyAsks(r)

KeepsSockets ==
  AsksNothing /\ \A e \in Endpoints : NoConn(e) => NoConn(e)'

LEMMA SameSockets ==
  ASSUME UNCHANGED <<peer, up, backlog>>
  PROVE  KeepsSockets
  BY DEF KeepsSockets, AsksNothing, NoConn, Asks, AnyAsks

\* The server takes requests off a connection, and makes none.
LEMMA ServerSockets ==
  ASSUME TypeInv, TextInv, NetInv, ServerNext
  PROVE  KeepsSockets
<1>1. /\ peer \in [Fds -> Endpoints \cup {Fin, Rst}]
      /\ up \in [Fds -> Seq(Requests)]
  BY DEF TypeInv, TypeOK
<1>2. CASE UNCHANGED <<peer, up, backlog>>
  BY <1>2, SameSockets
<1>3. CASE Select
  <2>1. ASSUME backlog # << >>, NEW fd \in Fds \ readfds,
               peer' = [peer EXCEPT ![fd] = Head(backlog).peer],
               up' = [up EXCEPT ![fd] = Head(backlog).up],
               backlog' = Tail(backlog)
        PROVE  KeepsSockets
    <3>1. /\ 1 \in DOMAIN backlog /\ Head(backlog) = backlog[1]
          /\ \A i \in DOMAIN backlog' :
               i + 1 \in DOMAIN backlog /\ backlog'[i] = backlog[i + 1]
      BY <2>1, BacklogTail
    <3>2. \A x \in Fds :
            /\ peer'[x] = IF x = fd THEN backlog[1].peer ELSE peer[x]
            /\ up'[x] = IF x = fd THEN backlog[1].up ELSE up[x]
      BY <1>1, <2>1, <3>1
    <3>3. ASSUME NEW e \in Endpoints, NoConn(e) PROVE NoConn(e)'
      BY <3>1, <3>2, <3>3 DEF NoConn
    <3>4. ASSUME NEW e \in Endpoints, NEW r, Asks(e, r)' PROVE Asks(e, r)
      BY <3>1, <3>2, <3>4 DEF Asks
    <3>5. ASSUME NEW r, AnyAsks(r)' PROVE AnyAsks(r)
      BY <3>1, <3>2, <3>5 DEF AnyAsks
    <3> QED BY <3>3, <3>4, <3>5 DEF KeepsSockets, AsksNothing
  <2> QED BY <1>2, <1>3, <2>1 DEF Select
<1>4. ASSUME NEW fd \in Fds, Dispatch(fd) PROVE KeepsSockets
  <2>1. /\ up[fd] # << >> /\ up' = [up EXCEPT ![fd] = Tail(@)]
        /\ UNCHANGED <<backlog, peer>>
    BY <1>4 DEF Dispatch
  <2>2. Tail(up[fd]) = << >>
    BY <1>1, <2>1, OnlyRequest DEF TextInv, RequestTexts
  <2>3. \A x \in Fds : up'[x] = up[x] \/ up'[x] = << >>
    BY <1>1, <2>1, <2>2
  <2> QED BY <2>1, <2>3 DEF KeepsSockets, AsksNothing, NoConn, Asks, AnyAsks
<1>5. ASSUME NEW fd \in Fds, HostDisconnected(fd) \/ ReadError(fd)
      PROVE  KeepsSockets
  BY <1>2, <1>5 DEF HostDisconnected, ReadError
<1>6. CASE UpdateAck \/ \E u \in Users : ForwardMessage(u) \/ NextInbox(u)
  BY <1>2, <1>6 DEF UpdateAck, ForwardMessage, NextInbox, sockVars
<1> QED BY <1>3, <1>4, <1>5, <1>6 DEF ServerNext

-----------------------------------------------------------------------------
(* What the calls of the client program do to the connections.             *)

\* A request is put on a connection with none under way, or is lost.
LEMMA SendEffect ==
  ASSUME TypeInv, NetInv, NEW e \in Endpoints, NEW r \in Requests,
         SendRequest(e, r)
  PROVE  /\ UNCHANGED <<serverVars, peer, down>>
         /\ \A x : NoConn(x) => NoConn(x)'
         /\ \A x \in Endpoints : \A q :
              Asks(x, q)' => Asks(x, q) \/ (x = e /\ q = r)
         /\ \A q : AnyAsks(q)' => AnyAsks(q) \/ q = r
         /\ mode \notin Died => \A q : ~Asks(e, q)
         /\ \A fd \in Fds :
              \/ up'[fd] = up[fd]
              \/ peer[fd] = e /\ up[fd] = << >> /\ up'[fd] = <<r>>
<1>1. /\ readfds \in SUBSET Fds /\ up \in [Fds -> Seq(Requests)]
      /\ backlog \in Seq([peer : Endpoints \cup {Fin}, up : Seq(Requests)])
  BY DEF TypeInv, TypeOK
<1>2. ASSUME NEW fd \in FdsOf(e), PeerSend(fd, r)
      PROVE  /\ UNCHANGED <<serverVars, peer, down, backlog>>
             /\ fd \in Fds /\ peer[fd] = e /\ up[fd] = << >>
             /\ \A x \in Fds : up'[x] = IF x = fd THEN <<r>> ELSE up[x]
  BY <1>1, <1>2 DEF PeerSend, FdsOf
<1>3. ASSUME NEW i \in QueuedAt(e), PeerSendEarly(i, r)
      PROVE  /\ UNCHANGED <<serverVars, peer, down, up>>
             /\ DOMAIN backlog' = DOMAIN backlog
             /\ i \in DOMAIN backlog /\ backlog[i].peer = e
             /\ backlog[i].up = << >>
             /\ \A j \in DOMAIN backlog :
                  /\ backlog'[j].peer = backlog[j].peer
                  /\ backlog'[j].up = IF j = i THEN <<r>> ELSE backlog[j].up
  BY <1>1, <1>3 DEF PeerSendEarly, QueuedAt
<1>4. Head(<<r>>) = r
  OBVIOUS
<1>5. CASE \E fd \in FdsOf(e) : PeerSend(fd, r)
  BY <1>2, <1>4, <1>5 DEF NoConn, Asks, AnyAsks, NetInv, OneConnection
<1>6. CASE \E i \in QueuedAt(e) : PeerSendEarly(i, r)
  BY <1>3, <1>4, <1>6 DEF NoConn, Asks, AnyAsks, NetInv, OneConnection
<1>7. CASE ServerDied /\ UNCHANGED vars
  BY <1>7 DEF NoConn, Asks, AnyAsks, ServerDied, vars, sockVars, serverVars
<1> QED BY <1>5, <1>6, <1>7 DEF SendRequest

\* A socket that is closed has no connection any more.
LEMMA CloseEffect ==
  ASSUME TypeInv, NetInv, NEW e \in Endpoints, Close(e)
  PROVE  /\ UNCHANGED <<serverVars, up>>
         /\ NoConn(e)' /\ KeepsSockets
         /\ \A fd \in Fds :
              IF peer[fd] = e THEN peer'[fd] \in {Fin, Rst}
              ELSE peer'[fd] = peer[fd] /\ down'[fd] = down[fd]
<1>1. /\ readfds \in SUBSET Fds /\ peer \in [Fds -> Endpoints \cup {Fin, Rst}]
      /\ down \in [Fds -> Seq(Packets)]
      /\ backlog \in Seq([peer : Endpoints \cup {Fin}, up : Seq(Requests)])
  BY DEF TypeInv, TypeOK
<1>2. ASSUME NEW fd \in FdsOf(e), PeerClose(fd)
      PROVE  /\ UNCHANGED <<serverVars, up, backlog>>
             /\ fd \in Fds /\ peer[fd] = e /\ peer'[fd] \in {Fin, Rst}
             /\ \A x \in Fds : x # fd =>
                  peer'[x] = peer[x] /\ down'[x] = down[x]
  <2>1. \E v \in {Fin, Rst} : peer' = [peer EXCEPT ![fd] = v]
    BY <1>2 DEF PeerClose
  <2> QED BY <1>1, <1>2, <2>1 DEF PeerClose, FdsOf
<1>3. ASSUME NEW i \in QueuedAt(e), PeerCloseEarly(i)
      PROVE  /\ UNCHANGED <<serverVars, peer, down, up>>
             /\ DOMAIN backlog' = DOMAIN backlog
             /\ i \in DOMAIN backlog /\ backlog[i].peer = e
             /\ \A j \in DOMAIN backlog :
                  /\ backlog'[j].peer = IF j = i THEN Fin ELSE backlog[j].peer
                  /\ backlog'[j].up = backlog[j].up
  BY <1>1, <1>3 DEF PeerCloseEarly, QueuedAt
<1>4. CASE \E fd \in FdsOf(e) : PeerClose(fd)
  <2>1. PICK fd \in FdsOf(e) : PeerClose(fd)
    BY <1>4
  <2>2. \A x \in Fds : peer[x] = e => x = fd
    BY <1>2, <2>1 DEF NetInv, OneConnection
  <2>3. \A i \in DOMAIN backlog : backlog[i].peer # e
    BY <1>2, <2>1 DEF NetInv, OneConnection
  <2>4. NoConn(e)'
    BY <1>2, <2>1, <2>2, <2>3, PeersAssumption DEF NoConn
  <2>5. KeepsSockets
    BY <1>2, <2>1, PeersAssumption
       DEF KeepsSockets, AsksNothing, NoConn, Asks, AnyAsks
  <2> QED BY <1>2, <2>1, <2>2, <2>4, <2>5
<1>5. CASE \E i \in QueuedAt(e) : PeerCloseEarly(i)
  <2>1. PICK i \in QueuedAt(e) : PeerCloseEarly(i)
    BY <1>5
  <2>2. \A x \in Fds : peer[x] # e
    BY <1>3, <2>1 DEF NetInv, OneConnection
  <2>3. \A j \in DOMAIN backlog : backlog[j].peer = e => j = i
    BY <1>3, <2>1 DEF NetInv, OneConnection
  <2>4. NoConn(e)'
    BY <1>3, <2>1, <2>2, <2>3, PeersAssumption DEF NoConn
  <2>5. KeepsSockets
    BY <1>3, <2>1, PeersAssumption
       DEF KeepsSockets, AsksNothing, NoConn, Asks, AnyAsks
  <2> QED BY <1>3, <2>1, <2>2, <2>4, <2>5
<1> QED BY <1>4, <1>5 DEF Close

\* Connecting makes a connection that nothing is asked on.
LEMMA ConnectEffect ==
  ASSUME TypeInv, NetInv, NEW e \in Endpoints, Connect(e)
  PROVE  /\ UNCHANGED <<serverVars, peer, up, down>>
         /\ mode \notin Died /\ NoConn(e)
         /\ \A x : x # e /\ NoConn(x) => NoConn(x)'
         /\ \A x, q : Asks(x, q)' => Asks(x, q)
         /\ \A q : AnyAsks(q)' => AnyAsks(q)
<1> DEFINE new == [peer |-> e, up |-> << >>]
<1>1. backlog \in Seq([peer : Endpoints \cup {Fin}, up : Seq(Requests)])
  BY DEF TypeInv, TypeOK
<1>2. /\ UNCHANGED <<serverVars, peer, up, down>> /\ mode \notin Died
      /\ backlog' = Append(backlog, new)
      /\ \A fd \in readfds : peer[fd] # e
      /\ \A i \in DOMAIN backlog : backlog[i].peer # e
  BY DEF Connect, PeerConnect, Idle
<1>3. NoConn(e)
  BY <1>2, PeersAssumption DEF NoConn, NetInv, ClosedInv
<1>4. \A i \in DOMAIN backlog' :
        \/ i \in DOMAIN backlog /\ backlog'[i] = backlog[i]
        \/ backlog'[i] = new
  BY <1>1, <1>2
<1>5. \A i \in DOMAIN backlog' :
        \/ i \in DOMAIN backlog /\ backlog'[i] = backlog[i]
        \/ backlog'[i].peer = e /\ backlog'[i].up = << >>
  BY <1>4
<1> HIDE DEF new
<1>6. \A x : x # e /\ NoConn(x) => NoConn(x)'
  BY <1>2, <1>5 DEF NoConn
<1>7. \A x, q : Asks(x, q)' => Asks(x, q)
  BY <1>2, <1>5 DEF Asks
<1>8. \A q : AnyAsks(q)' => AnyAsks(q)
  BY <1>2, <1>5 DEF AnyAsks
<1> QED BY <1>2, <1>3, <1>6, <1>7, <1>8

\* What a socket still has to read of fd is the end of what it had.
Shortens(fd) ==
  \E k \in Nat : \A i \in DOMAIN down'[fd] :
    i + k \in DOMAIN down[fd] /\ down'[fd][i] = down[fd][i + k]

LEMMA SameShortens ==
  ASSUME TypeInv, NEW fd \in Fds, down'[fd] = down[fd]
  PROVE  Shortens(fd)
<1>1. down[fd] \in Seq(Packets)
  BY DEF TypeInv, TypeOK
<1>2. \A i \in DOMAIN down[fd] : i + 0 = i
  BY <1>1
<1> QED BY <1>2 DEF Shortens

\* A read changes what there is to read.
LEMMA RecvEffect ==
  ASSUME TypeInv, ClientTypeOK,
         NEW e \in Endpoints, NEW fd \in Unread(e), Recv(fd, e)
  PROVE  /\ UNCHANGED <<serverVars, peer, up, backlog>> /\ KeepsSockets
         /\ fd \in Fds /\ fd \in readfds /\ peer[fd] = e /\ down[fd] # << >>
         /\ \A x \in Fds : x # fd => down'[x] = down[x]
         /\ \A x \in Fds : Shortens(x)
         /\ Emptied(e, down[fd]) \in 1..Len(down[fd])
         /\ down'[fd] = SubSeq(down[fd], Emptied(e, down[fd]) + 1,
                               Len(down[fd]))
         /\ taken'[e] = Overread(e, down[fd])
         /\ \A x \in Endpoints : x # e => taken'[x] = taken[x]
<1>1. readfds \in SUBSET Fds /\ down \in [Fds -> Seq(Packets)]
  BY DEF TypeInv, TypeOK
<1>2. fd \in Fds /\ fd \in readfds /\ peer[fd] = e /\ down[fd] # << >>
  BY <1>1 DEF Unread, FdsOf
<1>3. UNCHANGED <<serverVars, peer, up, backlog>>
  BY DEF Recv, PeerRecv
<1> DEFINE q == down[fd]
           n == Emptied(e, q)
           t == Overread(e, q)
<1>4. /\ down' = [down EXCEPT ![fd] = SubSeq(@, n + 1, Len(@))]
      /\ n \in 1..Len(q) /\ q \in Seq(Packets)
  BY <1>1, <1>2 DEF Recv, PeerRecv
<1>5. taken' = [taken EXCEPT ![e] = t]
  BY DEF Recv
<1> HIDE DEF n, t
<1>6. /\ taken'[e] = t
      /\ \A x \in Endpoints : x # e => taken'[x] = taken[x]
  BY <1>5 DEF ClientTypeOK
<1>7. /\ down'[fd] = SubSeq(q, n + 1, Len(q))
      /\ \A x \in Fds : x # fd => down'[x] = down[x]
  BY <1>1, <1>2, <1>4
<1>8. Shortens(fd)
  <2> HIDE DEF q
  <2>1. \A i \in DOMAIN SubSeq(q, n + 1, Len(q)) :
          /\ i + n \in DOMAIN q
          /\ SubSeq(q, n + 1, Len(q))[i] = q[i + n]
    BY <1>4
  <2>2. n \in Nat
    BY <1>4
  <2> QED BY <1>7, <2>1, <2>2 DEF Shortens, q
<1>9. \A x \in Fds : Shortens(x)
  BY <1>7, <1>8, SameShortens
<1> QED BY <1>2, <1>3, <1>4, <1>6, <1>7, <1>9, SameSockets DEF n, t

\* So does the read of an acknowledgement, unless the server is gone.
LEMMA RecvAckEffect ==
  ASSUME TypeInv, ClientTypeOK, NEW e \in Endpoints, NEW code,
         RecvAck(e, code)
  PROVE  /\ UNCHANGED <<serverVars, peer, up, backlog>> /\ KeepsSockets
         /\ \A x \in Fds : peer[x] # e => down'[x] = down[x]
         /\ \A x \in Fds : Shortens(x)
         /\ \A x \in Endpoints : x # e => taken'[x] = taken[x]
<1>1. ASSUME NEW fd \in Unread(e), Recv(fd, e)
      PROVE  /\ UNCHANGED <<serverVars, peer, up, backlog>> /\ KeepsSockets
             /\ \A x \in Fds : peer[x] # e => down'[x] = down[x]
             /\ \A x \in Fds : Shortens(x)
             /\ \A x \in Endpoints : x # e => taken'[x] = taken[x]
  BY <1>1, RecvEffect
<1>2. CASE UNCHANGED <<vars, taken>>
  BY <1>2, SameSockets, SameShortens DEF vars, sockVars, serverVars
<1> QED BY <1>1, <1>2 DEF RecvAck

\* No step of a client adds to what there is to read.
Quieter ==
  \A fd \in Fds : peer'[fd] \in Endpoints =>
    peer'[fd] = peer[fd] /\ Shortens(fd)

-----------------------------------------------------------------------------
(* What is asked where.  Users who never type update never have one.       *)

NoUpdates == \A c \in Clients : "update" \notin Types[c]

\* On a data connection nothing is asked but to be one, and nothing asks
\* that anywhere else.
KindInv ==
  /\ mode # "update" /\ \A r : AnyAsks(r) => r.type # "UPDATE"
  /\ \A c \in Clients :
       /\ pc[c] \notin {"update", "spin"}
       /\ \A r : Asks(Data(c), r) => r.type = "BUILD_DATA_CONN"
       /\ \A r : Asks(Ctrl(c), r) => r.type # "BUILD_DATA_CONN"

\* The two sockets of a client, and those of others, are different ones.
LEMMA SocketsDiffer ==
  \A c, d \in Clients :
    /\ Ctrl(c) # Data(d)
    /\ Ctrl(c) = Ctrl(d) => c = d
    /\ Data(c) = Data(d) => c = d
    /\ Ctrl(c) \in Endpoints /\ Data(c) \in Endpoints
  BY EndpointsAssumption DEF Ctrl, Data

\* Steps that ask for nothing.
LEMMA NothingAsked ==
  ASSUME KindInv, AsksNothing, mode' # "update",
         \A c \in Clients : pc'[c] \notin {"update", "spin"}
  PROVE  KindInv'
  BY SocketsDiffer DEF KindInv, AsksNothing

\* Steps that ask for one thing.
LEMMA OneAsked ==
  ASSUME TypeInv, NetInv, KindInv, NEW c \in Clients, NEW e \in Endpoints,
         NEW r \in Requests, SendRequest(e, r), r.type # "UPDATE",
         \/ e = Ctrl(c) /\ r.type # "BUILD_DATA_CONN"
         \/ e = Data(c) /\ r.type = "BUILD_DATA_CONN",
         \A d \in Clients : pc'[d] \notin {"update", "spin"}
  PROVE  KindInv'
<1>1. /\ UNCHANGED mode
      /\ \A x \in Endpoints : \A q :
           Asks(x, q)' => Asks(x, q) \/ (x = e /\ q = r)
      /\ \A q : AnyAsks(q)' => AnyAsks(q) \/ q = r
  BY SendEffect DEF serverVars
<1> QED BY <1>1, SocketsDiffer DEF KindInv

\* The server does not take up an update when nobody asks for one.
LEMMA ServerKinds ==
  ASSUME TypeInv, TextInv, NetInv, KindInv, ServerNext, UNCHANGED clientVars
  PROVE  KindInv'
<1>1. KeepsSockets
  BY ServerSockets
<1>2. mode' # "update"
  <2>1. ASSUME NEW fd \in Fds, Dispatch(fd) PROVE mode' # "update"
    <3>1. Head(up[fd]).type # "UPDATE"
      BY <2>1 DEF Dispatch, KindInv, AnyAsks
    <3> QED BY <2>1, <3>1
            DEF Dispatch, SignUpService, SignInService, SignOutService,
                BuildDataConnService, MsgService, UpdateService,
                EnterForward, Loop
  <2>2. ASSUME NEW fd \in Fds, HostDisconnected(fd) \/ ReadError(fd)
        PROVE  mode' # "update"
    BY <2>2 DEF HostDisconnected, ReadError, RemoveConnection, EraseSession,
                CloseFd, Turn, KindInv
  <2>3. CASE \/ Select \/ UpdateAck
             \/ \E u \in Users : ForwardMessage(u) \/ NextInbox(u)
    BY <2>3 DEF Select, UpdateAck, ForwardMessage, NextInbox, EnterForward,
                Loop, KindInv
  <2> QED BY <2>1, <2>2, <2>3 DEF ServerNext
<1> QED BY <1>1, <1>2, NothingAsked DEF clientVars, KindInv, KeepsSockets

\* What a step of c asks for.
Requesting(c) ==
  \/ AsksNothing
  \/ \E r \in Requests :
       /\ SendRequest(Ctrl(c), r) /\ r.type # "BUILD_DATA_CONN"
       /\ r.type = "UPDATE" => pc'[c] = "update"
  \/ \E r \in Requests :
       SendRequest(Data(c), r) /\ r.type = "BUILD_DATA_CONN"

ClientStepOf(c) ==
  \/ UserStep(c) \/ ProgramStep(c) \/ DataRecv(c) \/ Kill(c)
  \/ \E n \in 1..MaxRecord : SpinEnds(c, n)

\* Each step of a client, by what it does to the sockets.
LEMMA ClientUses ==
  ASSUME SysTypeInv, NetInv, NEW c \in Clients, ClientStepOf(c)
  PROVE  UNCHANGED serverVars /\ Quieter /\ Requesting(c)
<1>1. /\ Ctrl(c) \in Endpoints /\ Data(c) \in Endpoints
      /\ TypeInv /\ ClientTypeOK
  BY SocketsDiffer DEF SysTypeInv
<1>2. ASSUME \/ \E fd \in Unread(Ctrl(c)) : Recv(fd, Ctrl(c))
             \/ \E fd \in Unread(Data(c)) : Recv(fd, Data(c))
             \/ \E code : RecvAck(Ctrl(c), code)
             \/ \E code : RecvAck(Data(c), code)
             \/ UNCHANGED vars
      PROVE  UNCHANGED serverVars /\ Quieter /\ Requesting(c)
  <2>1. CASE \E fd \in Unread(Ctrl(c)) : Recv(fd, Ctrl(c))
    BY <1>1, <2>1, RecvEffect DEF Quieter, KeepsSockets, Requesting
  <2>2. CASE \E fd \in Unread(Data(c)) : Recv(fd, Data(c))
    BY <1>1, <2>2, RecvEffect DEF Quieter, KeepsSockets, Requesting
  <2>3. CASE \E code : RecvAck(Ctrl(c), code)
    BY <1>1, <2>3, RecvAckEffect DEF Quieter, KeepsSockets, Requesting
  <2>4. CASE \E code : RecvAck(Data(c), code)
    BY <1>1, <2>4, RecvAckEffect DEF Quieter, KeepsSockets, Requesting
  <2>5. CASE UNCHANGED vars
    BY <1>1, <2>5, SameSockets, SameShortens
       DEF vars, sockVars, serverVars, Quieter, KeepsSockets, Requesting
  <2> QED BY <1>2, <2>1, <2>2, <2>3, <2>4, <2>5
<1>3. CASE \/ SignAck(c) \/ BuildAck(c) \/ SignOutAck(c) \/ SendAck(c)
           \/ UpdateRecv(c) \/ DataRecv(c) \/ Discard(c)
  BY <1>2, <1>3 DEF SignAck, BuildAck, SignOutAck, SendAck, UpdateRecv,
                    DataRecv, Discard
<1>4. CASE \/ Kill(c) \/ Read(c) \/ (\E n \in Names : ReadUnknown(c, n))
           \/ ServerLost(c) \/ SignCmd(c)
           \/ (\E receiver \in Receivers : SendCmd(c, receiver))
           \/ (\E n \in 1..MaxRecord : SpinEnds(c, n))
  BY <1>2, <1>4 DEF Kill, Read, ReadUnknown, ServerLost, SignCmd, SendCmd,
                    SpinEnds
<1>5. ASSUME NEW e \in Endpoints, NEW r \in Requests, SendRequest(e, r),
             \/ /\ e = Ctrl(c) /\ r.type # "BUILD_DATA_CONN"
                /\ r.type = "UPDATE" => pc'[c] = "update"
             \/ e = Data(c) /\ r.type = "BUILD_DATA_CONN"
      PROVE  UNCHANGED serverVars /\ Quieter /\ Requesting(c)
  BY <1>1, <1>5, SendEffect, SameShortens DEF Quieter, Requesting
<1>6. ASSUME NEW u \in SignsAs[c], NEW p \in Passwords, Sign(c, u, p)
      PROVE  UNCHANGED serverVars /\ Quieter /\ Requesting(c)
  <2>1. u \in Users
    BY SignsAsAssumption
  <2>2. \E t \in {"SIGNUP", "SIGNIN"} :
          SendRequest(Ctrl(c), SignRequest(t, u, p))
    BY <1>6 DEF Sign
  <2>3. \A t : SignRequest(t, u, p).type = t
    BY DEF SignRequest
  <2> QED BY <1>1, <1>5, <2>1, <2>2, <2>3, ClientRequests
<1>7. CASE Hello(c)
  <2>1. userName[c] \in Users
    BY <1>7 DEF Hello, SysTypeInv, KnownInv, Session
  <2>2. BuildRequest(userName[c]).type = "BUILD_DATA_CONN"
    BY DEF BuildRequest
  <2> QED BY <1>1, <1>5, <1>7, <2>1, <2>2, ClientRequests DEF Hello
<1>8. CASE SignOut(c)
  <2>1. userName[c] \in Users
    BY <1>8 DEF SignOut, SysTypeInv, KnownInv
  <2> DEFINE r == [type |-> "SIGNOUT", user |-> userName[c]]
  <2>2. r \in Requests /\ r.type = "SIGNOUT" /\ SendRequest(Ctrl(c), r)
    BY <1>8, <2>1, ClientRequests DEF SignOut
  <2> HIDE DEF r
  <2> QED BY <1>1, <1>5, <2>2
<1>9. CASE Update(c)
  <2>1. userName[c] \in Users
    BY <1>9 DEF Update, SysTypeInv, KnownInv
  <2> DEFINE r == [type |-> "UPDATE", sender |-> userName[c]]
  <2>2. r \in Requests /\ r.type = "UPDATE" /\ SendRequest(Ctrl(c), r)
    BY <1>9, <2>1, ClientRequests DEF Update
  <2>3. pc'[c] = "update"
    BY <1>1, <1>9 DEF Update, Goto, ClientTypeOK
  <2> HIDE DEF r
  <2> QED BY <1>1, <1>5, <2>2, <2>3
<1>10. ASSUME NEW b \in Bodies, SendChat(c, b)
       PROVE  UNCHANGED serverVars /\ Quieter /\ Requesting(c)
  <2>1. userName[c] \in Users /\ personTalking[c] \in Users
    BY <1>10 DEF SendChat, SysTypeInv, KnownInv, Session
  <2> DEFINE r == ChatMsg(userName[c], personTalking[c], b)
  <2>2. r \in Requests /\ r.type = "SEND_MSG" /\ SendRequest(Ctrl(c), r)
    BY <1>10, <2>1, ClientRequests DEF SendChat, ChatMsg
  <2> HIDE DEF r
  <2> QED BY <1>1, <1>5, <2>2
<1>11. CASE Start(c)
  BY <1>1, <1>11, ConnectEffect, SameShortens
     DEF Start, Quieter, AsksNothing, Requesting
<1>12. ASSUME NEW e \in Endpoints, Close(e)
       PROVE  UNCHANGED serverVars /\ Quieter /\ Requesting(c)
  <2>1. \A fd \in Fds : peer'[fd] \in Endpoints =>
          peer'[fd] = peer[fd] /\ down'[fd] = down[fd]
    BY <1>1, <1>12, CloseEffect, PeersAssumption
  <2> QED BY <1>1, <1>12, <2>1, CloseEffect, SameShortens
          DEF Quieter, KeepsSockets, Requesting
<1>13. CASE Dial(c)
  <2>1. CASE Connect(Data(c))
    BY <1>1, <2>1, ConnectEffect, SameShortens
       DEF Quieter, AsksNothing, Requesting
  <2> QED BY <1>2, <1>13, <2>1 DEF Dial
<1>14. CASE CloseDataConn(c)
  BY <1>1, <1>2, <1>12, <1>14 DEF CloseDataConn
<1>15. CASE ExitClose(c)
  BY <1>1, <1>2, <1>12, <1>15 DEF ExitClose
<1> QED BY <1>3, <1>4, <1>6, <1>7, <1>8, <1>9, <1>10, <1>11, <1>13, <1>14,
           <1>15 DEF ClientStepOf, UserStep, ProgramStep

\* The clients ask for what they should where they should.
LEMMA ClientKinds ==
  ASSUME NoUpdates, SysTypeInv, NetInv, KindInv,
         NEW c \in Clients, ClientStepOf(c)
  PROVE  KindInv'
<1>1. /\ UNCHANGED serverVars /\ Requesting(c)
      /\ Ctrl(c) \in Endpoints /\ Data(c) \in Endpoints
  BY ClientUses, SocketsDiffer
<1>2. \A d \in Clients : pc'[d] \notin {"update", "spin"}
  <2> USE DEF Goto, SysTypeInv, ClientTypeOK, KindInv
  <2>1. CASE UserStep(c)
    <3>1. CASE Start(c) \/ SignOut(c) \/ Update(c) \/ Read(c)
      BY <3>1 DEF Start, SignOut, Update, Read, Typed, NoUpdates
    <3>2. CASE \/ SignCmd(c)
               \/ \E u \in SignsAs[c], p \in Passwords : Sign(c, u, p)
               \/ \E receiver \in Receivers : SendCmd(c, receiver)
               \/ \E b \in Bodies : SendChat(c, b)
               \/ \E n \in Names : ReadUnknown(c, n)
      BY <3>2 DEF SignCmd, Sign, SendCmd, SendChat, ReadUnknown
    <3> QED BY <2>1, <3>1, <3>2 DEF UserStep
  <2>2. CASE ProgramStep(c)
    BY <2>2 DEF ProgramStep, SignAck, Dial, Hello, BuildAck, SignOutAck,
                CloseDataConn, SendAck, UpdateRecv, Discard, ServerLost,
                ExitClose
  <2>3. CASE DataRecv(c) \/ Kill(c) \/ \E n \in 1..MaxRecord : SpinEnds(c, n)
    BY <2>3 DEF DataRecv, Kill, SpinEnds
  <2> QED BY <2>1, <2>2, <2>3 DEF ClientStepOf
<1>3. mode' # "update"
  BY <1>1 DEF serverVars, KindInv
<1>4. CASE AsksNothing
  BY <1>2, <1>3, <1>4, NothingAsked
<1>5. ASSUME NEW e \in Endpoints, NEW r \in Requests, SendRequest(e, r),
             r.type # "UPDATE",
             \/ e = Ctrl(c) /\ r.type # "BUILD_DATA_CONN"
             \/ e = Data(c) /\ r.type = "BUILD_DATA_CONN"
      PROVE  KindInv'
  BY <1>2, <1>5, OneAsked DEF SysTypeInv
<1> QED BY <1>1, <1>2, <1>4, <1>5 DEF Requesting

\* The invariants the rest of this module begins with.
BaseInv == SysTypeInv /\ MailInv /\ TextInv /\ NetInv /\ KindInv

LEMMA BaseStep ==
  ASSUME NoUpdates, BaseInv, [SysNext]_sysVars
  PROVE  BaseInv'
<1>1. [Next]_vars /\ SysTypeInv'
  BY SysStep DEF BaseInv
<1>2. MailInv' /\ TextInv' /\ NetInv'
  BY <1>1, NextMail, NextTexts, NetNext DEF BaseInv, SysTypeInv
<1>3. KindInv'
  <2>1. CASE ServerNext /\ UNCHANGED clientVars
    BY <2>1, ServerKinds DEF BaseInv, SysTypeInv
  <2>2. ASSUME NEW c \in Clients, ClientStepOf(c) PROVE KindInv'
    BY <2>2, ClientKinds DEF BaseInv
  <2>3. CASE UNCHANGED sysVars
    BY <2>3 DEF sysVars, vars, sockVars, clientVars, BaseInv, KindInv, Asks,
                AnyAsks
  <2> QED BY <2>1, <2>2, <2>3 DEF SysNext, ClientStepOf
<1> QED BY <1>1, <1>2, <1>3 DEF BaseInv

LEMMA InitBase == SysInit => BaseInv
<1> SUFFICES ASSUME SysInit PROVE BaseInv
  OBVIOUS
<1>1. SysTypeInv /\ MailInv /\ TextInv
  BY InitSysType, InitMail, InitTexts DEF SysInit
<1>2. NetInv
  BY PeersAssumption DEF SysInit, Init, NetInv, ClosedInv, ReadyInv,
                         OneConnection
<1>3. KindInv
  BY DEF SysInit, Init, ClientInit, KindInv, Asks, AnyAsks
<1> QED BY <1>1, <1>2, <1>3 DEF BaseInv

-----------------------------------------------------------------------------
(* What a client records, and the histories.                               *)

\* The chat m is in the history of its receiver.
Kept(m) ==
  m # NoChat =>
    /\ m.receiver \in Users
    /\ \E k \in DOMAIN msgDataMap[m.receiver] : msgDataMap[m.receiver][k] = m

\* There m comes before n, wherever they are.
Before(m, n) ==
  m # NoChat /\ n # NoChat /\ m.receiver = n.receiver =>
    \A i, j \in DOMAIN msgDataMap[m.receiver] :
      msgDataMap[m.receiver][i] = m /\ msgDataMap[m.receiver][j] = n => i < j

\* What a client has recorded, and behind it what is on its data connection,
\* is in the histories in that order.
InOrder(s, q) ==
  /\ \A i \in DOMAIN s : Kept(s[i])
  /\ \A i, j \in DOMAIN s : i < j => Before(s[i], s[j])
  /\ \A k \in DOMAIN q : Kept(q[k].chat)
  /\ \A k, l \in DOMAIN q : k < l => Before(q[k].chat, q[l].chat)
  /\ \A i \in DOMAIN s, k \in DOMAIN q : Before(s[i], q[k].chat)

RecordInv ==
  \A c \in Clients :
    /\ InOrder(messageRecord[c], << >>)
    /\ \A fd \in Fds : peer[fd] = Data(c) =>
         InOrder(messageRecord[c], down[fd])

\* It implies the property.
LEMMA RecordImplies == RecordInv => RecordFollowsHistory
<1> SUFFICES ASSUME RecordInv, NEW c \in Clients,
                    NEW i \in DOMAIN messageRecord[c],
                    NEW j \in DOMAIN messageRecord[c],
                    messageRecord[c][i] # NoChat,
                    messageRecord[c][j] # NoChat,
                    messageRecord[c][i].receiver = messageRecord[c][j].receiver
             PROVE  LET m == messageRecord[c][i]
                        n == messageRecord[c][j]
                    IN  /\ \E k \in DOMAIN msgDataMap[m.receiver] :
                             msgDataMap[m.receiver][k] = m
                        /\ i < j => Place(m.receiver, m) < Place(n.receiver, n)
  BY DEF RecordFollowsHistory
<1> DEFINE m == messageRecord[c][i]
           n == messageRecord[c][j]
           h == msgDataMap[m.receiver]
<1>1. Kept(m) /\ Kept(n) /\ (i < j => Before(m, n))
  BY DEF RecordInv, InOrder
<1>2. /\ \E k \in DOMAIN h : h[k] = m
      /\ \E k \in DOMAIN h : h[k] = n
  BY <1>1 DEF Kept
<1>3. /\ Place(m.receiver, m) \in DOMAIN h /\ h[Place(m.receiver, m)] = m
      /\ Place(n.receiver, n) \in DOMAIN h /\ h[Place(n.receiver, n)] = n
  BY <1>2 DEF Place
<1>4. i < j => \A a, b \in DOMAIN h : h[a] = m /\ h[b] = n => a < b
  BY <1>1 DEF Before
<1> QED BY <1>2, <1>3, <1>4

\* The order does not depend on more than the histories.
LEMMA SameOrder ==
  ASSUME UNCHANGED msgDataMap
  PROVE  \A s, q : InOrder(s, q) <=> InOrder(s, q)'
  BY DEF InOrder, Kept, Before

\* Nothing but the ends of what was in order.
LEMMA OrderLeft ==
  ASSUME NEW s, NEW q, NEW t, NEW r, NEW k \in Nat, InOrder(s, q),
         DOMAIN r \subseteq Nat,
         t = s \/ t = << >>,
         \A i \in DOMAIN r :
           r[i].chat = NoChat \/ (i + k \in DOMAIN q /\ r[i] = q[i + k])
  PROVE  InOrder(t, r)
<1>1. /\ Kept(NoChat)
      /\ \A m : Before(m, NoChat) /\ Before(NoChat, m)
  BY DEF Kept, Before
<1>2. \A i, j \in DOMAIN r : i < j => i + k < j + k
  OBVIOUS
<1>3. \A i \in DOMAIN t : i \in DOMAIN s /\ t[i] = s[i]
  OBVIOUS
<1> QED BY <1>1, <1>2, <1>3 DEF InOrder

\* Steps that leave the histories alone, and bring no chat.
NoNewChat(fd) ==
  \E k \in Nat : \A i \in DOMAIN down'[fd] :
    \/ down'[fd][i].chat = NoChat
    \/ i + k \in DOMAIN down[fd] /\ down'[fd][i] = down[fd][i + k]

LEMMA RecordLeft ==
  ASSUME TypeInv, RecordInv, TypeInv', UNCHANGED msgDataMap,
         \A c \in Clients :
           messageRecord'[c] = messageRecord[c] \/ messageRecord'[c] = << >>,
         \A c \in Clients, fd \in Fds : peer'[fd] = Data(c) =>
           \/ peer[fd] = Data(c) /\ NoNewChat(fd)
           \/ down'[fd] = << >>
  PROVE  RecordInv'
<1> SUFFICES ASSUME NEW c \in Clients
             PROVE  /\ InOrder(messageRecord'[c], << >>)
                    /\ \A fd \in Fds : peer'[fd] = Data(c) =>
                         InOrder(messageRecord'[c], down'[fd])
  BY SameOrder DEF RecordInv
<1>1. InOrder(messageRecord'[c], << >>)
  BY DEF RecordInv, InOrder
<1>2. ASSUME NEW fd \in Fds, peer[fd] = Data(c), NoNewChat(fd)
      PROVE  InOrder(messageRecord'[c], down'[fd])
  <2>1. InOrder(messageRecord[c], down[fd])
    BY <1>2 DEF RecordInv
  <2>2. down'[fd] \in Seq(Packets)
    BY DEF TypeInv, TypeOK
  <2>3. DOMAIN down'[fd] \subseteq Nat
    BY <2>2
  <2>4. PICK k \in Nat : \A i \in DOMAIN down'[fd] :
          \/ down'[fd][i].chat = NoChat
          \/ i + k \in DOMAIN down[fd] /\ down'[fd][i] = down[fd][i + k]
    BY <1>2 DEF NoNewChat
  <2> DEFINE s == messageRecord[c]
             t == messageRecord'[c]
             q == down[fd]
             r == down'[fd]
  <2>5. t = s \/ t = << >>
    OBVIOUS
  <2> HIDE DEF s, t, q, r
  <2>6. /\ InOrder(s, q) /\ DOMAIN r \subseteq Nat
        /\ \A i \in DOMAIN r :
             r[i].chat = NoChat \/ (i + k \in DOMAIN q /\ r[i] = q[i + k])
    BY <2>1, <2>3, <2>4 DEF s, q, r
  <2>7. InOrder(t, r)
    BY <2>5, <2>6, OrderLeft
  <2> QED BY <2>7 DEF t, r
<1> QED BY <1>1, <1>2

\* Recording a chat puts it behind what was there.
LEMMA RecordedBehind ==
  ASSUME NEW h \in [Users -> Seq(Chats)], NEW m \in Chats, NEW u \in Users
  PROVE  /\ Len(h[u]) \in Nat /\ DOMAIN h[u] = 1..Len(h[u])
         /\ DOMAIN h[u] \subseteq DOMAIN Recorded(h, m)[u]
         /\ \A i \in DOMAIN h[u] : Recorded(h, m)[u][i] = h[u][i]
         /\ \A i \in DOMAIN Recorded(h, m)[u] : i \in Nat
         /\ \A i \in DOMAIN Recorded(h, m)[u] \ DOMAIN h[u] :
              i > Len(h[u]) /\ Recorded(h, m)[u][i] = m
         /\ u = m.receiver =>
              \E i \in DOMAIN Recorded(h, m)[u] : Recorded(h, m)[u][i] = m
<1>1. \A q \in Seq(Chats) :
        /\ Append(q, m) \in Seq(Chats)
        /\ Len(q) \in Nat /\ DOMAIN q = 1..Len(q)
        /\ Len(Append(q, m)) = Len(q) + 1
        /\ DOMAIN Append(q, m) = 1..(Len(q) + 1)
        /\ \A i \in 1..Len(q) : Append(q, m)[i] = q[i]
        /\ Append(q, m)[Len(q) + 1] = m
  OBVIOUS
<1> DEFINE a == [h EXCEPT ![m.sender] = Append(@, m)][u]
           b == Recorded(h, m)[u]
<1>2. /\ h[u] \in Seq(Chats)
      /\ a = IF u = m.sender THEN Append(h[u], m) ELSE h[u]
      /\ b = IF u = m.receiver THEN Append(a, m) ELSE a
  BY DEF Recorded
<1>3. a \in Seq(Chats) /\ b \in Seq(Chats)
  BY <1>1, <1>2
<1> HIDE DEF a, b
<1>4. /\ Len(h[u]) \in Nat /\ Len(a) \in Nat /\ Len(b) \in Nat
      /\ DOMAIN h[u] = 1..Len(h[u]) /\ DOMAIN a = 1..Len(a)
      /\ DOMAIN b = 1..Len(b)
      /\ Len(a) = Len(h[u]) \/ Len(a) = Len(h[u]) + 1
      /\ Len(b) = Len(a) \/ Len(b) = Len(a) + 1
  BY <1>1, <1>2, <1>3
<1>5. /\ \A i \in 1..Len(h[u]) : a[i] = h[u][i]
      /\ \A i \in 1..Len(a) : i > Len(h[u]) => a[i] = m
  BY <1>1, <1>2
<1>6. /\ \A i \in 1..Len(a) : b[i] = a[i]
      /\ \A i \in 1..Len(b) : i > Len(a) => b[i] = m
  BY <1>1, <1>2, <1>3
<1>7. u = m.receiver => Len(b) \in DOMAIN b /\ b[Len(b)] = m
  BY <1>1, <1>2, <1>3, <1>4
<1>8. /\ \A i \in 1..Len(h[u]) : i \in 1..Len(b) /\ b[i] = h[u][i]
      /\ \A i \in 1..Len(b) : i > Len(h[u]) => b[i] = m
  <2> DEFINE k == Len(h[u])
             l == Len(a)
             n == Len(b)
             c == h[u]
  <2>1. /\ k \in Nat /\ l \in Nat /\ n \in Nat
        /\ l = k \/ l = k + 1
        /\ n = l \/ n = l + 1
        /\ \A i \in 1..k : a[i] = c[i]
        /\ \A i \in 1..l : i > k => a[i] = m
        /\ \A i \in 1..l : b[i] = a[i]
        /\ \A i \in 1..n : i > l => b[i] = m
    BY <1>4, <1>5, <1>6
  <2> HIDE DEF k, l, n, c
  <2>2. \A i \in 1..k : i \in 1..n /\ b[i] = c[i]
    BY <2>1
  <2>3. \A i \in 1..n : i > k => b[i] = m
    BY <2>1
  <2> QED BY <2>2, <2>3 DEF k, n, c
<1>9. /\ \A i \in DOMAIN h[u] : i \in DOMAIN b /\ b[i] = h[u][i]
      /\ \A i \in DOMAIN b : i \in Nat
      /\ \A i \in DOMAIN b \ DOMAIN h[u] : i > Len(h[u]) /\ b[i] = m
  <2> DEFINE k == Len(h[u])
             n == Len(b)
             c == h[u]
             x == DOMAIN h[u]
             y == DOMAIN b
  <2>1. /\ k \in Nat /\ n \in Nat /\ x = 1..k /\ y = 1..n
        /\ \A i \in 1..k : i \in 1..n /\ b[i] = c[i]
        /\ \A i \in 1..n : i > k => b[i] = m
    BY <1>4, <1>8
  <2> HIDE DEF k, n, c, x, y
  <2>2. /\ \A i \in x : i \in y /\ b[i] = c[i]
        /\ \A i \in y : i \in Nat
        /\ \A i \in y \ x : i > k /\ b[i] = m
    BY <2>1
  <2> QED BY <2>2 DEF k, c, x, y
<1> QED BY <1>4, <1>7, <1>9 DEF b

\* A chat that is forwarded is behind everything that was recorded.
LEMMA KeptForward ==
  ASSUME TypeInv, TextInv, NEW w \in Users, ForwardMessage(w)
  PROVE  \E m \in Chats :
           /\ down' = IF peer[ForwardFd(w)] \in Endpoints
                        THEN [down EXCEPT ![ForwardFd(w)] =
                                Append(@, Packet("SEND_MSG", CHAT_SENT, m))]
                        ELSE down
           /\ Kept(m)' /\ \A x : Kept(x) => Kept(x)' /\ Before(x, m)'
           /\ \A x, y : Kept(x) /\ Kept(y) /\ Before(x, y) => Before(x, y)'
<1> DEFINE m == Head(inboxMap[w])
<1>1. /\ m \in Chats /\ ~InHistory(m.body)
      /\ msgDataMap' = Recorded(msgDataMap, m)
  BY ForwardedChat
<1>2. down' = IF peer[ForwardFd(w)] \in Endpoints
                THEN [down EXCEPT ![ForwardFd(w)] =
                        Append(@, Packet("SEND_MSG", CHAT_SENT, m))]
                ELSE down
  BY DEF ForwardMessage, Send
<1> HIDE DEF m
<1> SUFFICES ASSUME NEW n \in Chats, n = m
             PROVE  /\ Kept(n)'
                    /\ \A x : Kept(x) => Kept(x)' /\ Before(x, n)'
                    /\ \A x, y : Kept(x) /\ Kept(y) /\ Before(x, y)
                         => Before(x, y)'
  BY <1>1, <1>2
<1>3. msgDataMap \in [Users -> Seq(Chats)]
  BY DEF TypeInv, TypeOK
<1>4. \A u \in Users : \A i \in DOMAIN msgDataMap[u] : msgDataMap[u][i] # n
  <2>1. \A u \in Users : n.body \notin Texts(msgDataMap[u])
    BY <1>1 DEF InHistory
  <2> QED BY <1>3, <2>1, TextsOfChats
<1> DEFINE h == msgDataMap
           g == msgDataMap'
<1>5. \A u \in Users :
        /\ Len(h[u]) \in Nat /\ DOMAIN h[u] = 1..Len(h[u])
        /\ DOMAIN h[u] \subseteq DOMAIN g[u]
        /\ \A i \in DOMAIN h[u] : g[u][i] = h[u][i]
        /\ \A i \in DOMAIN g[u] : i \in Nat
        /\ \A i \in DOMAIN g[u] \ DOMAIN h[u] :
             i > Len(h[u]) /\ g[u][i] = n
        /\ u = n.receiver => \E i \in DOMAIN g[u] : g[u][i] = n
  BY <1>1, <1>3, RecordedBehind
<1>6. n.receiver \in Users
  BY DEF Chats
<1> HIDE DEF h, g
<1>7. Kept(n)'
  BY <1>5, <1>6 DEF Kept, g
<1>8. ASSUME NEW x, Kept(x) PROVE Kept(x)'
  BY <1>5, <1>8 DEF Kept, g, h
<1>9. ASSUME NEW x, Kept(x), x # NoChat
      PROVE  \A i \in DOMAIN g[x.receiver] :
               g[x.receiver][i] = x => i \in DOMAIN h[x.receiver]
  BY <1>4, <1>5, <1>9 DEF Kept, h
<1>10. ASSUME NEW x, Kept(x) PROVE Before(x, n)'
  <2> SUFFICES ASSUME x # NoChat, x.receiver = n.receiver,
                      NEW i \in DOMAIN g[x.receiver],
                      NEW j \in DOMAIN g[x.receiver],
                      g[x.receiver][i] = x, g[x.receiver][j] = n
               PROVE  i < j
    BY DEF Before, g
  <2>1. i \in DOMAIN h[x.receiver]
    BY <1>9, <1>10
  <2>2. j \notin DOMAIN h[x.receiver]
    BY <1>4, <1>5, <1>6 DEF h
  <2> QED BY <1>5, <1>6, <2>1, <2>2
<1>11. ASSUME NEW x, NEW y, Kept(x), Kept(y), Before(x, y)
       PROVE  Before(x, y)'
  <2> SUFFICES ASSUME x # NoChat, y # NoChat, x.receiver = y.receiver,
                      NEW i \in DOMAIN g[x.receiver],
                      NEW j \in DOMAIN g[x.receiver],
                      g[x.receiver][i] = x, g[x.receiver][j] = y
               PROVE  i < j
    BY DEF Before, g
  <2>1. i \in DOMAIN h[x.receiver] /\ j \in DOMAIN h[x.receiver]
    BY <1>9, <1>11
  <2>2. x.receiver \in Users
    BY <1>11 DEF Kept
  <2> QED BY <1>5, <1>11, <2>1, <2>2 DEF Before, h
<1> QED BY <1>7, <1>8, <1>10, <1>11

\* The order with a new chat behind it all.
LEMMA OrderForward ==
  ASSUME NEW m \in Chats, NEW s, NEW q \in Seq(Packets), InOrder(s, q),
         \A x : Kept(x) => Kept(x)' /\ Before(x, m)',
         \A x, y : Kept(x) /\ Kept(y) /\ Before(x, y) => Before(x, y)',
         Kept(m)'
  PROVE  /\ InOrder(s, q)'
         /\ InOrder(s, Append(q, Packet("SEND_MSG", CHAT_SENT, m)))'
<1> DEFINE p == Packet("SEND_MSG", CHAT_SENT, m)
           r == Append(q, p)
<1>1. p.chat = m
  BY DEF Packet
<1> HIDE DEF p
<1>2. /\ Len(q) \in Nat /\ DOMAIN q = 1..Len(q)
      /\ DOMAIN r = 1..(Len(q) + 1) /\ r[Len(q) + 1] = p
      /\ \A k \in 1..Len(q) : r[k] = q[k]
  OBVIOUS
<1> HIDE DEF r
<1>3. /\ \A k \in DOMAIN r :
           (k \in DOMAIN q /\ r[k] = q[k]) \/ r[k].chat = m
      /\ \A k, l \in DOMAIN r : k < l => k \in DOMAIN q /\ r[k] = q[k]
  BY <1>1, <1>2
<1>4. InOrder(s, q)'
  BY DEF InOrder
<1>5. InOrder(s, r)'
  BY <1>3, <1>4 DEF InOrder
<1> QED BY <1>4, <1>5 DEF r, p

\* The server forwards chats in the order of the histories.
LEMMA ServerRecord ==
  ASSUME BaseInv, RecordInv, ServerNext, UNCHANGED clientVars
  PROVE  RecordInv'
<1>1. TypeInv /\ TextInv /\ NetInv /\ KindInv /\ TypeInv'
  BY NextType DEF BaseInv, SysTypeInv, Next
<1>2. UNCHANGED messageRecord
  BY DEF clientVars, recordVars
<1>3. /\ down \in [Fds -> Seq(Packets)]
      /\ peer \in [Fds -> Endpoints \cup {Fin, Rst}]
  BY <1>1 DEF TypeInv, TypeOK
<1>4. \A fd \in Fds : Shortens(fd) => NoNewChat(fd)
  BY DEF Shortens, NoNewChat
<1>5. CASE UNCHANGED <<msgDataMap, peer, down>>
  BY <1>1, <1>2, <1>4, <1>5, RecordLeft, SameShortens
<1>6. CASE Select
  <2>1. UNCHANGED msgDataMap
    BY <1>6 DEF Select, mapVars
  <2>2. ASSUME NEW c \in Clients, NEW fd \in Fds, peer'[fd] = Data(c)
        PROVE  \/ peer[fd] = Data(c) /\ down'[fd] = down[fd]
               \/ down'[fd] = << >>
    BY <1>3, <1>6, <2>2 DEF Select
  <2> QED BY <1>1, <1>2, <1>4, <2>1, <2>2, RecordLeft, SameShortens
<1>7. ASSUME NEW fd \in Fds, Dispatch(fd) PROVE RecordInv'
  <2>1. UNCHANGED <<msgDataMap, peer>> /\ up[fd] # << >>
    BY <1>7 DEF Dispatch, SignUpService, SignInService, SignOutService,
                mapVars, BuildDataConnService, MsgService, UpdateService
  <2>2. ASSUME NEW c \in Clients, peer[fd] = Data(c) PROVE NoNewChat(fd)
    <3>1. Head(up[fd]).type = "BUILD_DATA_CONN"
      BY <1>1, <2>1, <2>2 DEF KindInv, Asks
    <3>2. PICK p \in {Packet("BUILD_DATA_CONN", code, NoChat) :
                        code \in AckCodes} : Send(fd, p)
      BY <1>7, <3>1, CodeTypes
         DEF Dispatch, SignUpService, SignInService, SignOutService,
             BuildDataConnService, MsgService, UpdateService
    <3>3. p.chat = NoChat
      BY DEF Packet
    <3>4. \/ down'[fd] = down[fd]
          \/ down'[fd] = Append(down[fd], p)
      BY <1>3, <3>2 DEF Send
    <3>5. \A i \in DOMAIN Append(down[fd], p) :
            \/ Append(down[fd], p)[i] = p
            \/ i + 0 \in DOMAIN down[fd]
               /\ Append(down[fd], p)[i] = down[fd][i + 0]
      BY <1>3
    <3>6. CASE down'[fd] = Append(down[fd], p)
      BY <3>3, <3>5, <3>6 DEF NoNewChat
    <3> QED BY <1>1, <1>4, <3>4, <3>6, SameShortens
  <2>3. ASSUME NEW x \in Fds, x # fd PROVE down'[x] = down[x]
    BY <1>3, <1>7, <2>3
       DEF Dispatch, SignUpService, SignInService, SignOutService, mapVars,
           BuildDataConnService, MsgService, UpdateService, CreateAccount,
           Send
  <2> QED BY <1>1, <1>2, <1>4, <2>1, <2>2, <2>3, RecordLeft, SameShortens
<1>8. ASSUME NEW fd \in Fds, HostDisconnected(fd) \/ ReadError(fd)
      PROVE  RecordInv'
  BY <1>5, <1>8 DEF HostDisconnected, ReadError, mapVars
<1>9. CASE UpdateAck
  BY <1>1, <1>9 DEF UpdateAck, KindInv
<1>10. ASSUME NEW w \in Users, ForwardMessage(w) PROVE RecordInv'
  <2>1. PICK m \in Chats :
          /\ down' = IF peer[ForwardFd(w)] \in Endpoints
                       THEN [down EXCEPT ![ForwardFd(w)] =
                               Append(@, Packet("SEND_MSG", CHAT_SENT, m))]
                       ELSE down
          /\ Kept(m)' /\ \A x : Kept(x) => Kept(x)' /\ Before(x, m)'
          /\ \A x, y : Kept(x) /\ Kept(y) /\ Before(x, y) => Before(x, y)'
    BY <1>1, <1>10, KeptForward
  <2>2. UNCHANGED peer
    BY <1>10 DEF ForwardMessage
  <2>3. \A s : \A q \in Seq(Packets) : InOrder(s, q) =>
          /\ InOrder(s, q)'
          /\ InOrder(s, Append(q, Packet("SEND_MSG", CHAT_SENT, m)))'
    BY <2>1, OrderForward
  <2>4. \A fd \in Fds :
          \/ down'[fd] = down[fd]
          \/ down'[fd] = Append(down[fd], Packet("SEND_MSG", CHAT_SENT, m))
    BY <1>3, <2>1
  <2>5. << >> \in Seq(Packets)
    OBVIOUS
  <2> QED BY <1>2, <1>3, <2>2, <2>3, <2>4, <2>5 DEF RecordInv
<1>11. ASSUME NEW w \in Users, NextInbox(w) PROVE RecordInv'
  BY <1>5, <1>11 DEF NextInbox, mapVars, sockVars
<1> QED BY <1>6, <1>7, <1>8, <1>9, <1>10, <1>11 DEF ServerNext

\* A client that reads its data connection puts the first chat there behind
\* what it recorded, or nothing it can read.
LEMMA OrderRecorded ==
  ASSUME NEW s \in Seq(Recordable), NEW q \in Seq(Packets), q # << >>,
         NEW r \in Seq(Packets), NEW n \in 1..Len(q), InOrder(s, q),
         r = SubSeq(q, n + 1, Len(q)),
         NEW m \in Recordable, m = Head(q).chat \/ m = NoChat
  PROVE  InOrder(Append(s, m), r)
<1> DEFINE t == Append(s, m)
<1>1. /\ Len(s) \in Nat /\ DOMAIN s = 1..Len(s)
      /\ DOMAIN t = 1..(Len(s) + 1) /\ t[Len(s) + 1] = m
      /\ \A i \in 1..Len(s) : t[i] = s[i]
  OBVIOUS
<1>2. /\ 1 \in DOMAIN q /\ Head(q) = q[1]
      /\ \A k \in DOMAIN r :
           k \in Nat /\ k + n \in DOMAIN q /\ r[k] = q[k + n] /\ 1 < k + n
  OBVIOUS
<1>3. \A k, l \in DOMAIN r : k < l => k + n < l + n
  BY <1>2
<1>4. /\ Kept(NoChat)
      /\ \A x : Before(x, NoChat) /\ Before(NoChat, x)
  BY DEF Kept, Before
<1> HIDE DEF t
<1>5. /\ \A i \in DOMAIN t : (i \in DOMAIN s /\ t[i] = s[i]) \/ t[i] = m
      /\ \A i, j \in DOMAIN t : i < j => i \in DOMAIN s /\ t[i] = s[i]
  BY <1>1
<1>6. Kept(m) /\ (\A i \in DOMAIN s : Before(s[i], m))
      /\ \A k \in DOMAIN r : Before(m, r[k].chat)
  BY <1>2, <1>4 DEF InOrder
<1>7. /\ \A k \in DOMAIN r : Kept(r[k].chat)
      /\ \A k, l \in DOMAIN r : k < l => Before(r[k].chat, r[l].chat)
      /\ \A i \in DOMAIN s, k \in DOMAIN r : Before(s[i], r[k].chat)
  BY <1>2, <1>3 DEF InOrder
<1>8. InOrder(t, r)
  BY <1>5, <1>6, <1>7 DEF InOrder
<1> QED BY <1>8 DEF t

\* No update adds to the records.
LEMMA ClientRecord ==
  ASSUME BaseInv, RecordInv, NEW c \in Clients, ClientStepOf(c)
  PROVE  RecordInv'
<1>1. /\ TypeInv /\ ClientTypeOK /\ NetInv /\ KindInv /\ TypeInv'
      /\ UNCHANGED serverVars /\ Quieter
  <2>1. UNCHANGED serverVars /\ Quieter
    BY ClientUses DEF BaseInv
  <2>2. TypeInv'
    BY ClientStep, NextType
       DEF BaseInv, SysTypeInv, ClientStepOf, PeerStep, Next
  <2> QED BY <2>1, <2>2 DEF BaseInv, SysTypeInv
<1>2. UNCHANGED msgDataMap
  BY <1>1 DEF serverVars, mapVars
<1>3. \A d \in Clients : Data(d) \in Endpoints
  BY SocketsDiffer
<1>4. \A fd \in Fds : Shortens(fd) => NoNewChat(fd)
  BY DEF Shortens, NoNewChat
<1>5. CASE \A d \in Clients :
             messageRecord'[d] = messageRecord[d] \/ messageRecord'[d] = << >>
  BY <1>1, <1>2, <1>3, <1>4, <1>5, RecordLeft DEF Quieter
<1>6. CASE UNCHANGED messageRecord
  BY <1>5, <1>6
<1>7. CASE Start(c) \/ Read(c)
  BY <1>1, <1>5, <1>7 DEF Start, Read, ClientTypeOK
<1>8. ASSUME NEW fd \in Unread(Data(c)), Recv(fd, Data(c)),
             NEW m, m = Head(down[fd]).chat \/ m = NoChat,
             messageRecord' = [messageRecord EXCEPT ![c] = Append(@, m)]
      PROVE  RecordInv'
  <2>1. /\ UNCHANGED peer /\ fd \in Fds /\ peer[fd] = Data(c)
        /\ down[fd] # << >>
        /\ \A x \in Fds : x # fd => down'[x] = down[x]
        /\ Emptied(Data(c), down[fd]) \in 1..Len(down[fd])
        /\ down'[fd] = SubSeq(down[fd], Emptied(Data(c), down[fd]) + 1,
                              Len(down[fd]))
    BY <1>1, <1>3, <1>8, RecvEffect
  <2>2. /\ messageRecord'[c] = Append(messageRecord[c], m)
        /\ messageRecord[c] \in Seq(Recordable)
        /\ \A d \in Clients : d # c => messageRecord'[d] = messageRecord[d]
    BY <1>1, <1>8 DEF ClientTypeOK
  <2>3. down[fd] \in Seq(Packets) /\ down'[fd] \in Seq(Packets)
    BY <1>1, <2>1 DEF TypeInv, TypeOK
  <2>4. InOrder(messageRecord[c], down[fd])
    BY <2>1 DEF RecordInv
  <2>5. InOrder(messageRecord'[c], down'[fd])
    <3>1. Head(down[fd]) \in Packets
      BY <2>1, <2>3
    <3>2. m \in Recordable
      BY <1>8, <3>1, RecordableChats
    <3> QED BY <1>8, <2>1, <2>2, <2>3, <2>4, <3>2, OrderRecorded
  <2>6. InOrder(messageRecord'[c], << >>)
    BY <2>5 DEF InOrder
  <2>7. \A d \in Clients, x \in Fds : peer'[x] = Data(d) =>
          IF d = c THEN x = fd ELSE x # fd /\ peer[x] = Data(d)
    BY <1>1, <1>3, <2>1, SocketsDiffer DEF NetInv, OneConnection
  <2>8. \A d \in Clients :
          /\ InOrder(messageRecord'[d], << >>)
          /\ \A x \in Fds : peer'[x] = Data(d) =>
               InOrder(messageRecord'[d], down'[x])
    BY <2>1, <2>2, <2>5, <2>6, <2>7 DEF RecordInv
  <2> QED BY <1>2, <2>8, SameOrder DEF RecordInv
<1>9. CASE DataRecv(c)
  <2>1. CASE UNCHANGED messageRecord
    BY <1>6, <2>1
  <2>2. ASSUME NEW fd \in Unread(Data(c)), Recv(fd, Data(c)),
               messageRecord' =
                 [messageRecord EXCEPT ![c] =
                    Append(@, IF taken[Data(c)] = 0 THEN Head(down[fd]).chat
                                                    ELSE NoChat)]
        PROVE  RecordInv'
    <3> DEFINE m == IF taken[Data(c)] = 0 THEN Head(down[fd]).chat
                                          ELSE NoChat
    <3>1. /\ messageRecord' = [messageRecord EXCEPT ![c] = Append(@, m)]
          /\ m = Head(down[fd]).chat \/ m = NoChat
      BY <2>2
    <3> HIDE DEF m
    <3> QED BY <1>8, <2>2, <3>1
  <2> QED BY <1>9, <2>1, <2>2 DEF DataRecv
<1>10. CASE UserStep(c) \/ Kill(c)
  BY <1>6, <1>7, <1>10
     DEF UserStep, SignCmd, Sign, SignOut, SendCmd, SendChat, Update,
         ReadUnknown, Kill, recordVars
<1>11. CASE ProgramStep(c)
  <2>1. ~UpdateRecv(c)
    BY <1>1 DEF UpdateRecv, KindInv
  <2> QED BY <1>6, <1>11, <2>1
          DEF ProgramStep, SignAck, Dial, Hello, BuildAck, SignOutAck,
              CloseDataConn, SendAck, Discard, ServerLost, ExitClose,
              recordVars
<1>12. ~\E n \in 1..MaxRecord : SpinEnds(c, n)
  BY <1>1 DEF SpinEnds, KindInv
<1> QED BY <1>9, <1>10, <1>11, <1>12 DEF ClientStepOf

\* Whatever connections come and go, what a client records for a name is in
\* the history of that name, once and in the same order; an update repeats
\* the history, so this is about users who type none.
THEOREM RecordsFollow ==
  ASSUME NoUpdates
  PROVE  SysSpec => []RecordFollowsHistory
<1>1. SysInit => BaseInv /\ RecordInv
  <2>1. SysInit => RecordInv
    BY DEF SysInit, Init, ClientInit, RecordInv, InOrder
  <2> QED BY <2>1, InitBase
<1>2. BaseInv /\ RecordInv /\ [SysNext]_sysVars => BaseInv' /\ RecordInv'
  <2> SUFFICES ASSUME BaseInv, RecordInv, [SysNext]_sysVars
               PROVE  BaseInv' /\ RecordInv'
    OBVIOUS
  <2>1. BaseInv'
    BY BaseStep
  <2>2. CASE ServerNext /\ UNCHANGED clientVars
    BY <2>1, <2>2, ServerRecord
  <2>3. ASSUME NEW c \in Clients, ClientStepOf(c) PROVE RecordInv'
    BY <2>3, ClientRecord
  <2>4. CASE UNCHANGED sysVars
    <3>1. UNCHANGED <<msgDataMap, messageRecord, peer, down>>
      BY <2>4 DEF sysVars, vars, mapVars, sockVars, clientVars, recordVars
    <3>2. \A s, q : InOrder(s, q) <=> InOrder(s, q)'
      BY <3>1, SameOrder
    <3> QED BY <2>1, <3>1, <3>2 DEF RecordInv
  <2> QED BY <2>1, <2>2, <2>3, <2>4 DEF SysNext, ClientStepOf
<1>3. RecordInv => RecordFollowsHistory
  BY RecordImplies
<1> QED BY <1>1, <1>2, <1>3, PTL DEF SysSpec

\* A set of numbers has a smallest.
LEMMA Smallest ==
  ASSUME NEW A \in SUBSET Nat, A # {}
  PROVE  \E i \in A : \A j \in A : i <= j
<1> PICK y \in A : TRUE
  OBVIOUS
<1> DEFINE Below == {k \in 0..y : \A j \in A : k <= j}
<1>1. Below \in SUBSET Nat /\ 0 \in Below
  OBVIOUS
<1>2. IsFiniteSet(Below)
  <2>1. IsFiniteSet(0..y) /\ Below \subseteq 0..y
    BY FS_Interval
  <2> HIDE DEF Below
  <2> QED BY <2>1, FS_Subset
<1>3. PICK i \in Below : \A k \in Below : k <= i
  <2> HIDE DEF Below
  <2> QED BY <1>1, <1>2, Largest
<1>4. i \in Nat /\ \A j \in A : i <= j
  BY <1>1, <1>3
<1>5. i + 1 \notin Below
  BY <1>3, <1>4
<1>6. i \in A
  <2>1. CASE \A j \in A : i + 1 <= j
    BY <1>4, <1>5, <2>1
  <2> QED BY <1>4, <2>1
<1> QED BY <1>4, <1>6

\* A scan that finds nobody with fd has looked at everybody.
LEMMA NobodyWith ==
  ASSUME NEW m, IsMap(m, Users, Fds), NEW fd, FirstWith(m, fd) = {}
  PROVE  \A u \in DOMAIN m : m[u] # fd
<1> DEFINE A == {u \in DOMAIN m : m[u] = fd}
<1>1. A \in SUBSET Nat
  BY UsersAssumption DEF IsMap
<1> QED BY <1>1, Smallest DEF FirstWith

-----------------------------------------------------------------------------
(* Where a user is registered.                                             *)

OnCtrl(u, fd) == u \in DOMAIN connectionMap /\ connectionMap[u] = fd
OnData(u, fd) == u \in DOMAIN dataConnMap /\ dataConnMap[u] = fd

SameMaps ==
  \A u, fd : /\ OnCtrl(u, fd)' <=> OnCtrl(u, fd)
             /\ OnData(u, fd)' <=> OnData(u, fd)

LEMMA MapsKept ==
  ASSUME UNCHANGED <<connectionMap, dataConnMap>>
  PROVE  SameMaps
  BY DEF SameMaps, OnCtrl, OnData

\* Inserting registers a user who was not there, and erasing removes one.
LEMMA CtrlInserted ==
  ASSUME NEW k, NEW v, connectionMap' = MapInsert(connectionMap, k, v),
         UNCHANGED dataConnMap
  PROVE  IF k \in DOMAIN connectionMap THEN SameMaps
         ELSE \A u, x : /\ OnCtrl(u, x)' <=> OnCtrl(u, x) \/ (u = k /\ x = v)
                        /\ OnData(u, x)' <=> OnData(u, x)
  BY DEF SameMaps, OnCtrl, OnData, MapInsert

LEMMA DataInserted ==
  ASSUME NEW k, NEW v, dataConnMap' = MapInsert(dataConnMap, k, v),
         UNCHANGED connectionMap
  PROVE  IF k \in DOMAIN dataConnMap THEN SameMaps
         ELSE \A u, x : /\ OnCtrl(u, x)' <=> OnCtrl(u, x)
                        /\ OnData(u, x)' <=> OnData(u, x) \/ (u = k /\ x = v)
  BY DEF SameMaps, OnCtrl, OnData, MapInsert

LEMMA UserErased ==
  ASSUME NEW k, connectionMap' = MapErase(connectionMap, k),
         dataConnMap' = MapErase(dataConnMap, k)
  PROVE  \A u, x : /\ OnCtrl(u, x)' <=> OnCtrl(u, x) /\ u # k
                   /\ OnData(u, x)' <=> OnData(u, x) /\ u # k
  BY DEF OnCtrl, OnData, MapErase

\* The reply p to the request r, and whom it registers on fd.
Registers(fd, r, p) ==
  /\ r.type \in {"SIGNUP", "SIGNIN"} /\ p.code = SIGNIN_ACK_SUCCESS
  /\ r.user \in Users
  /\ \A u, x : /\ OnCtrl(u, x)' <=> OnCtrl(u, x) \/ (u = r.user /\ x = fd)
               /\ OnData(u, x)' <=> OnData(u, x)

Builds(fd, r, p) ==
  /\ r.type = "BUILD_DATA_CONN" /\ p.code = DATA_CONN_SUCCESS
  /\ r.user \in Users
  /\ \A u, x : /\ OnCtrl(u, x)' <=> OnCtrl(u, x)
               /\ OnData(u, x)' <=> OnData(u, x) \/ (u = r.user /\ x = fd)

Serves(fd, r, p) ==
  /\ \/ Registers(fd, r, p)
     \/ Builds(fd, r, p)
     \/ SameMaps /\ (r.type = "BUILD_DATA_CONN" => p.code = DATA_CONN_DUP)
  /\ p \in Packets /\ p.type = r.type
  /\ r.type = "BUILD_DATA_CONN" => p.chat = NoChat

\* One request is taken off fd and answered there, if at all.
LEMMA ServiceEffect ==
  ASSUME TypeInv, NEW fd \in Fds, NEW r \in Requests,
         r.type # "UPDATE",
         \/ SignUpService(fd, r)
         \/ SignInService(fd, r)
         \/ SignOutService(fd, r)
         \/ BuildDataConnService(fd, r)
         \/ MsgService(fd, r)
         \/ UpdateService(fd, r)
  PROVE  \/ SameMaps /\ UNCHANGED down /\ r.type # "BUILD_DATA_CONN"
         \/ mode' \notin Died /\ \E p : Send(fd, p) /\ Serves(fd, r, p)
<1>1. EnterForward => mode' \notin Died
  BY DEF EnterForward, Loop, Died
<1>2. CASE SignUpService(fd, r)
  <2>1. \A code \in AckCodes : Packet("SIGNUP", code, NoChat) \in Packets
    BY ReplyType DEF ReplyTypes
  <2>2. \A code : LET p == Packet("SIGNUP", code, NoChat)
                  IN  p.type = "SIGNUP" /\ p.code = code
    BY DEF Packet
  <2>3. SIGNUP_ACK_SUCCESS = SIGNIN_ACK_SUCCESS
    BY DEF SIGNUP_ACK_SUCCESS, SIGNIN_ACK_SUCCESS
  <2>4. r.type = "SIGNUP" /\ r.user \in Users /\ UNCHANGED dataConnMap
    BY <1>2, RequestFields DEF SignUpService
  <2>5. CASE connectionMap' = connectionMap
    <3>1. SameMaps
      BY <2>4, <2>5, MapsKept
    <3>2. \E code \in AckCodes : Send(fd, Packet("SIGNUP", code, NoChat))
      BY <1>2, CodeTypes DEF SignUpService, CreateAccount
    <3>3. mode' \notin Died
      BY <1>1, <1>2 DEF SignUpService
    <3> QED BY <2>1, <2>2, <2>4, <3>1, <3>2, <3>3 DEF Serves
  <2>6. CASE connectionMap' = MapInsert(connectionMap, r.user, fd)
               /\ Send(fd, Packet("SIGNUP", SIGNUP_ACK_SUCCESS, NoChat))
    <3> DEFINE p == Packet("SIGNUP", SIGNUP_ACK_SUCCESS, NoChat)
    <3>1. /\ p \in Packets /\ p.type = "SIGNUP"
          /\ p.code = SIGNIN_ACK_SUCCESS /\ Send(fd, p)
      BY <2>1, <2>2, <2>3, <2>6, CodeTypes
    <3> HIDE DEF p
    <3>2. mode' \notin Died
      BY <1>1, <1>2 DEF SignUpService
    <3>3. CASE r.user \in DOMAIN connectionMap
      <4>1. SameMaps
        BY <2>4, <2>6, <3>3, CtrlInserted
      <4> QED BY <2>4, <3>1, <3>2, <4>1 DEF Serves
    <3>4. CASE r.user \notin DOMAIN connectionMap
      <4>1. \A u, x :
              /\ OnCtrl(u, x)' <=> OnCtrl(u, x) \/ (u = r.user /\ x = fd)
              /\ OnData(u, x)' <=> OnData(u, x)
        BY <2>4, <2>6, <3>4, CtrlInserted
      <4> QED BY <2>4, <3>1, <3>2, <4>1 DEF Serves, Registers
    <3> QED BY <3>3, <3>4
  <2> QED BY <1>2, <2>5, <2>6 DEF SignUpService, CreateAccount
<1>3. CASE SignInService(fd, r)
  <2> DEFINE p == Packet("SIGNIN", SignInStatus(r), NoChat)
  <2>1. p \in Packets
    BY CodeTypes, ReplyType DEF SignInStatus, ReplyTypes
  <2>2. /\ p.type = "SIGNIN"
        /\ UserMatch(r) => p.code = SIGNIN_ACK_SUCCESS
    BY DEF Packet, SignInStatus, UserMatch
  <2>3. Send(fd, p) /\ mode' \notin Died
    BY <1>1, <1>3 DEF SignInService
  <2>4. r.type = "SIGNIN" /\ r.user \in Users /\ UNCHANGED dataConnMap
    BY <1>3, RequestFields DEF SignInService
  <2> HIDE DEF p
  <2>5. CASE connectionMap' = connectionMap
    <3>1. SameMaps
      BY <2>4, <2>5, MapsKept
    <3> QED BY <2>1, <2>2, <2>3, <2>4, <3>1 DEF Serves
  <2>6. CASE /\ UserMatch(r)
             /\ connectionMap' = MapInsert(connectionMap, r.user, fd)
    <3>3. CASE r.user \in DOMAIN connectionMap
      <4>1. SameMaps
        BY <2>4, <2>6, <3>3, CtrlInserted
      <4> QED BY <2>1, <2>2, <2>3, <2>4, <4>1 DEF Serves
    <3>4. CASE r.user \notin DOMAIN connectionMap
      <4>1. \A u, x :
              /\ OnCtrl(u, x)' <=> OnCtrl(u, x) \/ (u = r.user /\ x = fd)
              /\ OnData(u, x)' <=> OnData(u, x)
        BY <2>4, <2>6, <3>4, CtrlInserted
      <4> QED BY <2>1, <2>2, <2>3, <2>4, <2>6, <4>1 DEF Serves, Registers
    <3> QED BY <3>3, <3>4
  <2> QED BY <1>3, <2>5, <2>6 DEF SignInService
<1>4. CASE SignOutService(fd, r)
  <2>1. SameMaps /\ r.type = "SIGNOUT" /\ mode' \notin Died
    BY <1>1, <1>4, MapsKept DEF SignOutService, mapVars
  <2> DEFINE p == Packet("SIGNOUT", SIGNOUT_ACK_SUCCESS, NoChat)
  <2>2. p \in Packets /\ p.type = "SIGNOUT"
    BY CodeTypes, ReplyType DEF ReplyTypes, Packet
  <2>3. UNCHANGED down \/ Send(fd, p)
    BY <1>4 DEF SignOutService
  <2> HIDE DEF p
  <2> QED BY <2>1, <2>2, <2>3 DEF Serves
<1>5. CASE BuildDataConnService(fd, r)
  <2> DEFINE p == Packet("BUILD_DATA_CONN",
                         IF r.user \in DOMAIN dataConnMap
                           THEN DATA_CONN_DUP ELSE DATA_CONN_SUCCESS,
                         NoChat)
  <2>1. p \in Packets
    BY CodeTypes, ReplyType DEF ReplyTypes
  <2>2. /\ p.type = "BUILD_DATA_CONN" /\ p.chat = NoChat
        /\ r.user \in DOMAIN dataConnMap => p.code = DATA_CONN_DUP
        /\ r.user \notin DOMAIN dataConnMap => p.code = DATA_CONN_SUCCESS
    BY DEF Packet
  <2>3. Send(fd, p) /\ mode' \notin Died
    BY <1>1, <1>5 DEF BuildDataConnService
  <2>4. /\ r.type = "BUILD_DATA_CONN" /\ r.user \in Users
        /\ UNCHANGED connectionMap
        /\ dataConnMap' = MapInsert(dataConnMap, r.user, fd)
    BY <1>5, RequestFields DEF BuildDataConnService
  <2> HIDE DEF p
  <2>5. CASE r.user \in DOMAIN dataConnMap
    <3>1. SameMaps
      BY <2>4, <2>5, DataInserted
    <3> QED BY <2>1, <2>2, <2>3, <2>4, <2>5, <3>1 DEF Serves
  <2>6. CASE r.user \notin DOMAIN dataConnMap
    <3>1. \A u, x :
            /\ OnCtrl(u, x)' <=> OnCtrl(u, x)
            /\ OnData(u, x)' <=> OnData(u, x) \/ (u = r.user /\ x = fd)
      BY <2>4, <2>6, DataInserted
    <3> QED BY <2>1, <2>2, <2>3, <2>4, <2>6, <3>1 DEF Serves, Builds
  <2> QED BY <2>5, <2>6
<1>6. CASE MsgService(fd, r)
  <2>1. /\ r.type = "SEND_MSG" /\ UNCHANGED <<connectionMap, dataConnMap>>
    BY <1>6 DEF MsgService
  <2>2. SameMaps
    BY <2>1, MapsKept
  <2>3. \A code \in AckCodes : LET p == Packet("SEND_MSG", code, r)
                               IN  p \in Packets /\ p.type = "SEND_MSG"
    BY <2>1, RequestFields, ChatType, ChatPacketType DEF ReplyTypes, Packet
  <2>4. \/ UNCHANGED down
        \/ mode' \notin Died
           /\ \E code \in AckCodes : Send(fd, Packet("SEND_MSG", code, r))
    BY <1>1, <1>6, CodeTypes DEF MsgService
  <2> QED BY <2>1, <2>2, <2>3, <2>4 DEF Serves
<1>7. CASE UpdateService(fd, r)
  BY <1>7 DEF UpdateService
<1> QED BY <1>2, <1>3, <1>4, <1>5, <1>6, <1>7

\* One pass's turn of fd.
LEMMA DispatchEffect ==
  ASSUME TypeInv, TextInv, KindInv, NEW fd \in Fds, Dispatch(fd)
  PROVE  /\ fd \in working /\ working' = working \ {fd} /\ mode \notin Died
         /\ UNCHANGED <<readfds, backlog, peer>>
         /\ up[fd] # << >> /\ up'[fd] = << >> /\ Head(up[fd]) \in Requests
         /\ \A x \in Fds : x # fd => up'[x] = up[x] /\ down'[x] = down[x]
         /\ \/ /\ SameMaps /\ down'[fd] = down[fd]
               /\ Head(up[fd]).type # "BUILD_DATA_CONN"
            \/ /\ mode' \notin Died
               /\ \E p : /\ Serves(fd, Head(up[fd]), p)
                         /\ IF peer[fd] \in Endpoints
                              THEN down'[fd] = Append(down[fd], p)
                              ELSE down'[fd] = down[fd]
<1> DEFINE r == Head(up[fd])
<1>1. /\ up[fd] \in Seq(Requests) /\ up[fd] # << >> /\ Len(up[fd]) <= 1
      /\ up \in [Fds -> Seq(Requests)] /\ down \in [Fds -> Seq(Packets)]
  BY DEF Dispatch, TypeInv, TypeOK, TextInv, RequestTexts
<1>2. r \in Requests /\ Tail(up[fd]) = << >>
  BY <1>1, OnlyRequest
<1>3. r.type # "UPDATE"
  BY <1>1 DEF KindInv, AnyAsks
<1>4. /\ fd \in working /\ working' = working \ {fd} /\ mode = "scan"
      /\ UNCHANGED <<readfds, backlog, peer>>
      /\ up' = [up EXCEPT ![fd] = Tail(@)]
      /\ \/ SignUpService(fd, r)
         \/ SignInService(fd, r)
         \/ SignOutService(fd, r)
         \/ BuildDataConnService(fd, r)
         \/ MsgService(fd, r)
         \/ UpdateService(fd, r)
  BY DEF Dispatch, Turn
<1>5. up'[fd] = << >> /\ \A x \in Fds : x # fd => up'[x] = up[x]
  BY <1>1, <1>2, <1>4
<1>6. mode \notin Died
  BY <1>4 DEF Died
<1>7. CASE SameMaps /\ UNCHANGED down /\ r.type # "BUILD_DATA_CONN"
  BY <1>1, <1>2, <1>4, <1>5, <1>6, <1>7
<1>8. CASE mode' \notin Died /\ \E p : Send(fd, p) /\ Serves(fd, r, p)
  <2>1. PICK p : Send(fd, p) /\ Serves(fd, r, p)
    BY <1>8
  <2>2. /\ IF peer[fd] \in Endpoints
             THEN down'[fd] = Append(down[fd], p)
             ELSE down'[fd] = down[fd]
        /\ \A x \in Fds : x # fd => down'[x] = down[x]
    BY <1>1, <2>1 DEF Send
  <2> QED BY <1>1, <1>2, <1>4, <1>5, <1>6, <1>8, <2>1, <2>2
<1> QED BY <1>2, <1>3, <1>4, <1>7, <1>8, ServiceEffect

\* A chat is forwarded to where its receiver is registered.
LEMMA ForwardEffect ==
  ASSUME TypeInv, TextInv, NEW w \in Users, ForwardMessage(w)
  PROVE  /\ UNCHANGED <<readfds, working, backlog, peer, up>> /\ SameMaps
         /\ mode \notin Died /\ mode' \notin Died
         /\ ForwardFd(w) \in Fds /\ OnData(w, ForwardFd(w))
         /\ \A x \in Fds : x # ForwardFd(w) => down'[x] = down[x]
         /\ \E m \in Chats :
              /\ m.receiver = w
              /\ \/ down'[ForwardFd(w)] = down[ForwardFd(w)]
                 \/ down'[ForwardFd(w)] =
                      Append(down[ForwardFd(w)],
                             Packet("SEND_MSG", CHAT_SENT, m))
<1> DEFINE m == Head(inboxMap[w])
           fd == ForwardFd(w)
           p == Packet("SEND_MSG", CHAT_SENT, m)
<1>1. m \in Chats /\ m.receiver = w
  BY ForwardedChat
<1>2. /\ UNCHANGED <<readfds, working, backlog, peer, up>>
      /\ UNCHANGED <<connectionMap, dataConnMap>>
      /\ mode = "forward" /\ mode' = mode /\ w \in DOMAIN dataConnMap
      /\ Send(fd, p)
  BY DEF ForwardMessage, At, HasWork
<1>3. SameMaps /\ mode \notin Died /\ mode' \notin Died
  BY <1>2, MapsKept DEF Died
<1>4. fd \in Fds /\ OnData(w, fd)
  BY <1>2 DEF ForwardFd, OnData, TypeInv, TypeOK, IsMap
<1>5. down \in [Fds -> Seq(Packets)]
  BY DEF TypeInv, TypeOK
<1> HIDE DEF m, fd, p
<1>6. /\ \A x \in Fds : x # fd => down'[x] = down[x]
      /\ down'[fd] = down[fd] \/ down'[fd] = Append(down[fd], p)
  BY <1>2, <1>4, <1>5 DEF Send
<1> QED BY <1>1, <1>2, <1>3, <1>4, <1>6 DEF m, fd, p

\* The users that are on the connection u, on which no control connection
\* needs to be.
Found(u, fd) ==
  OnCtrl(u, fd) \/ (OnData(u, fd) /\ \A v : ~OnCtrl(v, fd))

\* A closed connection is removed: a user is erased who was found on it, if
\* there is one.
LEMMA RemovalEffect ==
  ASSUME TypeInv, NEW fd \in Fds, HostDisconnected(fd)
  PROVE  /\ fd \in working /\ working' = working \ {fd} /\ mode \notin Died
         /\ UNCHANGED <<backlog, peer, up, down>>
         /\ up[fd] = << >> /\ peer[fd] = Fin
         /\ \A u, x : /\ OnCtrl(u, x)' => OnCtrl(u, x)
                      /\ OnData(u, x)' => OnData(u, x)
         /\ \/ mode' \in Died /\ UNCHANGED readfds
            \/ /\ readfds' = readfds \ {fd} /\ mode' \notin Died
               /\ \E u : /\ Found(u, fd)
                         /\ \A v, x :
                              /\ OnCtrl(v, x)' <=> OnCtrl(v, x) /\ v # u
                              /\ OnData(v, x)' <=> OnData(v, x) /\ v # u
            \/ /\ readfds' = readfds \ {fd} /\ mode' \notin Died
               /\ \A u : ~OnCtrl(u, fd) /\ ~OnData(u, fd)
               /\ SameMaps
<1>1. /\ fd \in working /\ working' = working \ {fd} /\ mode = "scan"
      /\ UNCHANGED <<backlog, peer, up, down>>
      /\ up[fd] = << >> /\ peer[fd] = Fin /\ RemoveConnection(fd)
  BY DEF HostDisconnected, Turn
<1>2. mode \notin Died /\ "assertFailed" \in Died
  BY <1>1 DEF Died
<1>3. /\ \A u : u \in FirstWith(connectionMap, fd) => OnCtrl(u, fd)
      /\ \A u : u \in FirstWith(dataConnMap, fd) => OnData(u, fd)
  BY DEF FirstWith, OnCtrl, OnData
<1>4. IsMap(connectionMap, Users, Fds) /\ IsMap(dataConnMap, Users, Fds)
  BY DEF TypeInv, TypeOK
<1>5. /\ FirstWith(connectionMap, fd) = {} => \A u : ~OnCtrl(u, fd)
      /\ FirstWith(dataConnMap, fd) = {} => \A u : ~OnData(u, fd)
  BY <1>4, NobodyWith DEF OnCtrl, OnData
<1>6. ASSUME NEW u, Found(u, fd),
             connectionMap' = MapErase(connectionMap, u)
               \/ connectionMap' = connectionMap,
             dataConnMap' = MapErase(dataConnMap, u)
               \/ dataConnMap' = dataConnMap,
             mode' = "assertFailed" /\ UNCHANGED readfds
      PROVE  \A v, x : /\ OnCtrl(v, x)' => OnCtrl(v, x)
                       /\ OnData(v, x)' => OnData(v, x)
  BY <1>6 DEF OnCtrl, OnData, MapErase
<1>7. ASSUME NEW u \in Users, EraseSession(fd, u, connectionMap, dataConnMap),
             connectionMap' = MapErase(connectionMap, u),
             dataConnMap' = IF mode' = "assertFailed"
                              THEN dataConnMap ELSE MapErase(dataConnMap, u)
      PROVE  /\ Found(u, fd)
             /\ \/ mode' = "assertFailed" /\ UNCHANGED readfds
                \/ /\ readfds' = readfds \ {fd} /\ UNCHANGED mode
                   /\ \A v, x : /\ OnCtrl(v, x)' <=> OnCtrl(v, x) /\ v # u
                                /\ OnData(v, x)' <=> OnData(v, x) /\ v # u
  BY <1>1, <1>3, <1>7, UserErased DEF EraseSession, CloseFd, Found
<1>8. ASSUME FirstWith(connectionMap, fd) = {},
             NEW u \in Users, EraseSession(fd, u, dataConnMap, connectionMap),
             dataConnMap' = MapErase(dataConnMap, u),
             connectionMap' = IF mode' = "assertFailed"
                                THEN connectionMap
                                ELSE MapErase(connectionMap, u)
      PROVE  /\ Found(u, fd)
             /\ \/ mode' = "assertFailed" /\ UNCHANGED readfds
                \/ /\ readfds' = readfds \ {fd} /\ UNCHANGED mode
                   /\ \A v, x : /\ OnCtrl(v, x)' <=> OnCtrl(v, x) /\ v # u
                                /\ OnData(v, x)' <=> OnData(v, x) /\ v # u
  BY <1>1, <1>3, <1>5, <1>8, UserErased DEF EraseSession, CloseFd, Found
<1>9. CASE \E u \in Users :
             /\ EraseSession(fd, u, connectionMap, dataConnMap)
             /\ connectionMap' = MapErase(connectionMap, u)
             /\ dataConnMap' = IF mode' = "assertFailed"
                                 THEN dataConnMap ELSE MapErase(dataConnMap, u)
  BY <1>1, <1>2, <1>6, <1>7, <1>9
<1>10. CASE /\ FirstWith(connectionMap, fd) = {}
            /\ \E u \in Users :
                 /\ EraseSession(fd, u, dataConnMap, connectionMap)
                 /\ dataConnMap' = MapErase(dataConnMap, u)
                 /\ connectionMap' = IF mode' = "assertFailed"
                                       THEN connectionMap
                                       ELSE MapErase(connectionMap, u)
  BY <1>1, <1>2, <1>6, <1>8, <1>10
<1>11. CASE /\ FirstWith(connectionMap, fd) = {}
            /\ FirstWith(dataConnMap, fd) = {}
            /\ CloseFd(fd)
            /\ UNCHANGED <<connectionMap, dataConnMap>>
  <2>1. SameMaps
    BY <1>11, MapsKept
  <2> QED BY <1>1, <1>2, <1>5, <1>11, <2>1 DEF CloseFd, SameMaps
<1> QED BY <1>1, <1>9, <1>10, <1>11 DEF RemoveConnection

\* What select() finds, and the connection it may accept.
LEMMA SelectEffect ==
  ASSUME TypeInv, Select
  PROVE  /\ SameMaps /\ UNCHANGED mode /\ mode \notin Died
         /\ working = {} /\ working' = {fd \in readfds : Ready(fd)}
         /\ readfds \subseteq readfds'
         /\ \A x \in Fds :
              \/ peer'[x] = peer[x] /\ up'[x] = up[x] /\ down'[x] = down[x]
              \/ x \notin readfds /\ down'[x] = << >>
<1>1. /\ peer \in [Fds -> Endpoints \cup {Fin, Rst}]
      /\ up \in [Fds -> Seq(Requests)] /\ down \in [Fds -> Seq(Packets)]
  BY DEF TypeInv, TypeOK
<1>2. SameMaps
  BY MapsKept DEF Select, mapVars
<1>3. /\ mode = "scan" /\ UNCHANGED mode /\ working = {}
      /\ working' = {fd \in readfds : Ready(fd)}
  BY DEF Select
<1>4. mode \notin Died
  BY <1>3 DEF Died
<1>5. /\ readfds \subseteq readfds'
      /\ \A x \in Fds :
           \/ peer'[x] = peer[x] /\ up'[x] = up[x] /\ down'[x] = down[x]
           \/ x \notin readfds /\ down'[x] = << >>
  BY <1>1 DEF Select
<1> QED BY <1>2, <1>3, <1>4, <1>5

-----------------------------------------------------------------------------
(* What the server knows of the descriptors.                               *)

\* The data connection of u is closed; and in the pass that goes on it is
\* still to be removed.
Gone(fd) == peer[fd] \in {Fin, Rst}
Left(u) == \E fd \in Fds : OnData(u, fd) /\ Gone(fd)
Leaving(u) == \E fd \in working : OnData(u, fd) /\ Gone(fd)

\* Only connections that are open are registered.
OpenOnly ==
  \A u \in Users, fd \in Fds : OnCtrl(u, fd) \/ OnData(u, fd) => fd \in readfds

\* And each as what it is.
FdKind ==
  \A c \in Clients, u \in Users, fd \in Fds :
    /\ peer[fd] = Ctrl(c) => ~OnData(u, fd)
    /\ peer[fd] = Data(c) => ~OnCtrl(u, fd)

OneUse ==
  \A u, v \in Users, fd \in Fds :
    /\ OnCtrl(u, fd) => ~OnData(v, fd)
    /\ OnData(u, fd) /\ OnData(v, fd) => u = v

\* One control connection has two users while the server has still to notice
\* that the data connection of one of them is closed.
TwoUsers ==
  \A u, v \in Users, fd \in Fds :
    OnCtrl(u, fd) /\ OnCtrl(v, fd) /\ u # v =>
      fd \notin working /\ (Leaving(u) \/ Leaving(v))

\* What is asked on a connection does not give it a second use.
AskedOn ==
  \A u \in Users, fd \in Fds : up[fd] # << >> =>
    /\ ~OnData(u, fd)
    /\ Head(up[fd]).type = "BUILD_DATA_CONN" => ~OnCtrl(u, fd)
    /\ Head(up[fd]).type \in {"SIGNUP", "SIGNIN"} /\ OnCtrl(u, fd) =>
         Left(u) /\ (fd \in working => Leaving(u))

MapInv == FdKind /\ OneUse /\ TwoUsers /\ AskedOn

LEMMA OnTyped ==
  ASSUME TypeInv
  PROVE  \A u, fd : OnCtrl(u, fd) \/ OnData(u, fd) => u \in Users /\ fd \in Fds
  BY DEF TypeInv, TypeOK, IsMap, OnCtrl, OnData

\* A service registers nobody on a connection with another use.
LEMMA DispatchMaps ==
  ASSUME BaseInv, OpenOnly, MapInv, NEW fd \in Fds, Dispatch(fd)
  PROVE  OpenOnly' /\ (mode' \notin Died => MapInv')
<1> DEFINE r == Head(up[fd])
<1>1. TypeInv /\ TextInv /\ NetInv /\ KindInv /\ working \in SUBSET Fds
      /\ readfds \in SUBSET Fds
  BY DEF BaseInv, SysTypeInv, TypeInv, TypeOK
<1>2. /\ fd \in working /\ working' = working \ {fd}
      /\ UNCHANGED <<readfds, backlog, peer>>
      /\ up[fd] # << >> /\ up'[fd] = << >> /\ r \in Requests
      /\ \A x \in Fds : x # fd => up'[x] = up[x]
      /\ SameMaps \/ \E p : Registers(fd, r, p) \/ Builds(fd, r, p)
  BY <1>1, DispatchEffect DEF Serves
<1>3. \A x : Gone(x)' <=> Gone(x)
  BY <1>2 DEF Gone
<1>4. fd \in readfds
  BY <1>2 DEF BaseInv, SysTypeInv, TypeInv, TypeOK
<1>5. \A u \in Users : ~OnData(u, fd)
  BY <1>2 DEF MapInv, AskedOn
<1> HIDE DEF r
<1>6. CASE SameMaps
  <2>1. \A u : Left(u)' <=> Left(u)
    BY <1>3, <1>6 DEF Left, SameMaps
  <2>2. \A u \in Users : Leaving(u) => Leaving(u)'
    BY <1>1, <1>2, <1>3, <1>5, <1>6 DEF Leaving, SameMaps
  <2>3. OpenOnly'
    BY <1>2, <1>6 DEF OpenOnly, SameMaps
  <2>4. FdKind' /\ OneUse'
    BY <1>2, <1>6 DEF MapInv, FdKind, OneUse, SameMaps
  <2>5. TwoUsers'
    BY <1>2, <1>6, <2>2 DEF MapInv, TwoUsers, SameMaps
  <2>6. AskedOn'
    BY <1>2, <1>6, <2>1, <2>2 DEF MapInv, AskedOn, SameMaps
  <2> QED BY <2>3, <2>4, <2>5, <2>6 DEF MapInv
<1>7. ASSUME NEW p, Registers(fd, r, p) PROVE OpenOnly' /\ MapInv'
  <2> DEFINE k == r.user
  <2>1. /\ r.type \in {"SIGNUP", "SIGNIN"} /\ k \in Users
        /\ \A u, x : /\ OnCtrl(u, x)' <=> OnCtrl(u, x) \/ (u = k /\ x = fd)
                     /\ OnData(u, x)' <=> OnData(u, x)
    BY <1>7 DEF Registers
  <2> HIDE DEF k
  <2>2. \A u : Left(u)' <=> Left(u)
    BY <1>3, <2>1 DEF Left
  <2>3. \A u \in Users : Leaving(u) => Leaving(u)'
    BY <1>1, <1>2, <1>3, <1>5, <2>1 DEF Leaving
  <2>4. OpenOnly'
    BY <1>2, <1>4, <2>1 DEF OpenOnly
  <2>5. FdKind'
    <3>1. \A c \in Clients : peer[fd] # Data(c)
      BY <1>1, <1>2, <2>1 DEF KindInv, Asks, r
    <3> QED BY <1>2, <2>1, <3>1 DEF MapInv, FdKind
  <2>6. OneUse'
    BY <1>5, <2>1 DEF MapInv, OneUse
  <2>7. TwoUsers'
    <3>1. \A u \in Users : OnCtrl(u, fd) => Leaving(u)
      BY <1>2, <2>1 DEF MapInv, AskedOn, r
    <3> QED BY <1>2, <2>1, <2>3, <3>1 DEF MapInv, TwoUsers
  <2>8. AskedOn'
    BY <1>2, <2>1, <2>2, <2>3 DEF MapInv, AskedOn
  <2> QED BY <2>4, <2>5, <2>6, <2>7, <2>8 DEF MapInv
<1>8. ASSUME NEW p, Builds(fd, r, p) PROVE OpenOnly' /\ MapInv'
  <2> DEFINE k == r.user
  <2>1. /\ r.type = "BUILD_DATA_CONN" /\ k \in Users
        /\ \A u, x : /\ OnCtrl(u, x)' <=> OnCtrl(u, x)
                     /\ OnData(u, x)' <=> OnData(u, x) \/ (u = k /\ x = fd)
    BY <1>8 DEF Builds
  <2> HIDE DEF k
  <2>2. \A u : Left(u) => Left(u)'
    BY <1>3, <2>1 DEF Left
  <2>3. \A u \in Users : Leaving(u) => Leaving(u)'
    BY <1>1, <1>2, <1>3, <1>5, <2>1 DEF Leaving
  <2>4. OpenOnly'
    BY <1>2, <1>4, <2>1 DEF OpenOnly
  <2>5. FdKind'
    <3>1. \A c \in Clients : peer[fd] # Ctrl(c)
      BY <1>1, <1>2, <2>1 DEF KindInv, Asks, r
    <3> QED BY <1>2, <2>1, <3>1 DEF MapInv, FdKind
  <2>6. OneUse'
    <3>1. \A u \in Users : ~OnCtrl(u, fd)
      BY <1>2, <2>1 DEF MapInv, AskedOn, r
    <3> QED BY <1>5, <2>1, <3>1 DEF MapInv, OneUse
  <2>7. TwoUsers'
    BY <1>2, <2>1, <2>3 DEF MapInv, TwoUsers
  <2>8. AskedOn'
    BY <1>2, <2>1, <2>2, <2>3 DEF MapInv, AskedOn
  <2> QED BY <2>4, <2>5, <2>6, <2>7, <2>8 DEF MapInv
<1> QED BY <1>2, <1>6, <1>7, <1>8

\* Whoever is on a connection that is removed is forgotten.
LEMMA RemovalMaps ==
  ASSUME BaseInv, OpenOnly, MapInv, NEW fd \in Fds, HostDisconnected(fd)
  PROVE  OpenOnly' /\ (mode' \notin Died => MapInv')
<1>1. TypeInv /\ working \in SUBSET Fds /\ readfds \in SUBSET Fds
  BY DEF BaseInv, SysTypeInv, TypeInv, TypeOK
<1>2. /\ fd \in working /\ working' = working \ {fd}
      /\ UNCHANGED <<backlog, peer, up>>
      /\ \A u, x : /\ OnCtrl(u, x)' => OnCtrl(u, x)
                   /\ OnData(u, x)' => OnData(u, x)
  BY <1>1, RemovalEffect
<1>3. \A x : Gone(x)' <=> Gone(x)
  BY <1>2 DEF Gone
<1>4. CASE mode' \in Died /\ UNCHANGED readfds
  BY <1>2, <1>4 DEF OpenOnly
<1>5. \A u, v \in Users : OnCtrl(u, fd) /\ OnCtrl(v, fd) => u = v
  BY <1>2 DEF MapInv, TwoUsers
<1>6. \A u, v \in Users : /\ OnCtrl(u, fd) => ~OnData(v, fd)
                          /\ OnData(u, fd) /\ OnData(v, fd) => u = v
  BY DEF MapInv, OneUse
<1>7. ASSUME readfds' = readfds \ {fd},
             \/ \E u : /\ Found(u, fd)
                       /\ \A v, x :
                            /\ OnCtrl(v, x)' <=> OnCtrl(v, x) /\ v # u
                            /\ OnData(v, x)' <=> OnData(v, x) /\ v # u
             \/ (\A u : ~OnCtrl(u, fd) /\ ~OnData(u, fd)) /\ SameMaps
      PROVE  OpenOnly' /\ MapInv'
  <2>1. \A u \in Users : ~OnCtrl(u, fd)' /\ ~OnData(u, fd)'
    <3>1. \A u, v : Found(u, fd) /\ (OnCtrl(v, fd) \/ OnData(v, fd)) => u = v
      BY <1>1, <1>5, <1>6, OnTyped DEF Found
    <3> QED BY <1>2, <1>7, <3>1
  <2>2. \A u \in Users :
          \/ \A x : ~OnCtrl(u, x)' /\ ~OnData(u, x)'
          \/ \A x : /\ OnCtrl(u, x)' <=> OnCtrl(u, x)
                    /\ OnData(u, x)' <=> OnData(u, x)
    BY <1>7 DEF SameMaps
  <2>3. \A u \in Users : \A x : OnCtrl(u, x)' =>
          (Left(u) => Left(u)') /\ (Leaving(u) => Leaving(u)')
    <3> TAKE u \in Users
    <3> TAKE x
    <3> HAVE OnCtrl(u, x)'
    <3>1. \A y : OnData(u, y) => OnData(u, y)' /\ y # fd
      BY <2>1, <2>2
    <3> QED BY <1>2, <1>3, <3>1 DEF Left, Leaving
  <2>4. OpenOnly'
    BY <1>2, <1>7, <2>1 DEF OpenOnly
  <2>5. FdKind' /\ OneUse'
    BY <1>2 DEF MapInv, FdKind, OneUse
  <2>6. TwoUsers'
    BY <1>2, <2>3 DEF MapInv, TwoUsers
  <2>7. AskedOn'
    BY <1>2, <2>3 DEF MapInv, AskedOn
  <2> QED BY <2>4, <2>5, <2>6, <2>7 DEF MapInv
<1> QED BY <1>1, <1>4, <1>7, RemovalEffect

\* A new connection has a descriptor nobody is registered on.
LEMMA SelectMaps ==
  ASSUME BaseInv, OpenOnly, MapInv, Select
  PROVE  OpenOnly' /\ MapInv'
<1>1. TypeInv /\ working \in SUBSET Fds /\ readfds \in SUBSET Fds
  BY DEF BaseInv, SysTypeInv, TypeInv, TypeOK
<1>2. /\ SameMaps /\ working = {} /\ working' = {fd \in readfds : Ready(fd)}
      /\ readfds \subseteq readfds'
      /\ \A x \in readfds : peer'[x] = peer[x] /\ up'[x] = up[x]
  BY <1>1, SelectEffect
<1>3. \A u \in Users, x \in Fds : OnCtrl(u, x)' \/ OnData(u, x)' =>
        /\ x \in readfds /\ peer'[x] = peer[x] /\ up'[x] = up[x]
        /\ Gone(x)' <=> Gone(x)
  BY <1>2 DEF OpenOnly, SameMaps, Gone
<1>4. \A u \in Users : Left(u) => Left(u)' /\ Leaving(u)'
  BY <1>1, <1>2, <1>3 DEF Left, Leaving, SameMaps, Ready, Gone
<1>5. OpenOnly'
  BY <1>2, <1>3 DEF OpenOnly
<1>6. FdKind' /\ OneUse'
  BY <1>2, <1>3 DEF MapInv, FdKind, OneUse, SameMaps
<1>7. TwoUsers'
  BY <1>2 DEF MapInv, TwoUsers, Leaving, SameMaps
<1>8. AskedOn'
  BY <1>2, <1>3, <1>4 DEF MapInv, AskedOn, SameMaps
<1> QED BY <1>5, <1>6, <1>7, <1>8 DEF MapInv

\* The server keeps its knowledge of the descriptors right.
LEMMA ServerMaps ==
  ASSUME BaseInv, OpenOnly, mode \notin Died => MapInv, ServerNext
  PROVE  OpenOnly' /\ (mode' \notin Died => MapInv')
<1>1. TypeInv /\ TextInv /\ mode # "update"
  BY DEF BaseInv, SysTypeInv, KindInv
<1>2. mode \notin Died
  BY <1>1 DEF ServerNext, Select, UpdateAck, Dispatch, HostDisconnected,
              ReadError, ForwardMessage, NextInbox, At, Turn, Died
<1>3. CASE Select
  BY <1>2, <1>3, SelectMaps
<1>4. ASSUME NEW fd \in Fds, Dispatch(fd)
      PROVE  OpenOnly' /\ (mode' \notin Died => MapInv')
  BY <1>2, <1>4, DispatchMaps
<1>5. ASSUME NEW fd \in Fds, HostDisconnected(fd)
      PROVE  OpenOnly' /\ (mode' \notin Died => MapInv')
  BY <1>2, <1>5, RemovalMaps
<1>6. ASSUME NEW fd \in Fds, ReadError(fd)
      PROVE  OpenOnly' /\ (mode' \notin Died => MapInv')
  BY <1>6 DEF ReadError, mapVars, OpenOnly, OnCtrl, OnData, Died
<1>7. ASSUME NEW w \in Users, ForwardMessage(w) \/ NextInbox(w)
      PROVE  OpenOnly' /\ MapInv'
  <2>1. UNCHANGED <<readfds, working, peer, up>> /\ SameMaps
    BY <1>1, <1>7, ForwardEffect, MapsKept DEF NextInbox, mapVars, sockVars
  <2>2. \A u : (Left(u)' <=> Left(u)) /\ (Leaving(u)' <=> Leaving(u))
    BY <2>1 DEF Left, Leaving, Gone, SameMaps
  <2> QED BY <1>2, <2>1, <2>2
          DEF OpenOnly, MapInv, FdKind, OneUse, TwoUsers, AskedOn, SameMaps
<1>8. CASE UpdateAck
  BY <1>1, <1>8 DEF UpdateAck
<1> QED BY <1>3, <1>4, <1>5, <1>6, <1>7, <1>8 DEF ServerNext

-----------------------------------------------------------------------------
(* What a client knows of its connections.                                 *)

Runs(c) == pc[c] \notin {"off", "exit"}

SigningUp == {"typeSignUp", "typeSignIn", "signUp", "signIn"}

\* A socket the process does not have is not connected; and who has no
\* keyboard is asked for nothing.
LifeOf(c) ==
  /\ pc[c] = "off" => NoConn(Ctrl(c)) /\ NoConn(Data(c))
  /\ Runs(c) /\ ~dataConn[c] => NoConn(Data(c)) /\ taken[Data(c)] = 0
  /\ pc[c] \in SigningUp \cup {"dial"} => ~dataConn[c]
  /\ pc[c] = "prompt" /\ clientState[c] = "IDLE" => ~dataConn[c]
  /\ pc[c] \in SigningUp => clientState[c] = "IDLE"
  /\ pc[c] \in Typing => stdin[c]

Waits(c) == pc[c] \in DOMAIN ReplyTo

\* On the control connection there is what a command asked or its reply.
LockOf(c) ==
  Runs(c) =>
    /\ taken[Ctrl(c)] = 0
    /\ \A r \in Requests : Asks(Ctrl(c), r) =>
         /\ Waits(c) /\ r.type = ReplyTo[pc[c]]
         /\ pc[c] \in {"signUp", "signIn"} => r.user = asking[c]
    /\ \A fd \in Fds : peer[fd] = Ctrl(c) /\ down[fd] # << >> =>
         /\ up[fd] = << >> /\ Waits(c)
         /\ Len(down[fd]) = 1 /\ Head(down[fd]).type = ReplyTo[pc[c]]

\* On the data connection nothing comes before the answer to its request.
BuildOf(c) ==
  Runs(c) =>
    /\ \A r \in Requests : Asks(Data(c), r) =>
         pc[c] = "build" /\ r.user = userName[c]
    /\ pc[c] \in {"hello", "build"} => taken[Data(c)] = 0
    /\ \A fd \in Fds : peer[fd] = Data(c) =>
         /\ up[fd] # << >> => down[fd] = << >>
         /\ pc[c] = "hello" => /\ down[fd] = << >>
                               /\ \A u \in Users : ~OnData(u, fd)

Accepted(c) ==
  \E fd \in Fds : /\ peer[fd] = Data(c) /\ down[fd] # << >>
                  /\ Head(down[fd]).code = DATA_CONN_SUCCESS

\* Who is registered on the control connection, and is not left over from a
\* data connection that closed, is the user of the session, whether its data
\* connection stands, is being made, was refused or is being closed.
SessOf(c) ==
  \A u \in Users, fd \in Fds :
    Runs(c) /\ peer[fd] = Ctrl(c) /\ OnCtrl(u, fd) =>
      \/ Left(u)
      \/ \E gd \in Fds : OnData(u, gd) /\ peer[gd] = Data(c)
      \/ /\ pc[c] \in {"signUp", "signIn"} /\ u = asking[c]
         /\ down[fd] # << >> /\ Head(down[fd]).code = SIGNIN_ACK_SUCCESS
      \/ /\ u = userName[c] /\ clientState[c] # "IDLE"
         /\ \/ ~dataConn[c]
            \/ pc[c] \in {"hello", "close"}
            \/ pc[c] = "build" /\ ~Accepted(c)
      \/ pc[c] = "close" /\ ~dataConn[c]
      \/ ~stdin[c]

\* The data connection is that of the user of the session, and so are the
\* chats on it.
MailOf(c) ==
  Runs(c) /\ pc[c] # "close" =>
    \A fd \in Fds : peer[fd] = Data(c) =>
      /\ \A u \in Users : OnData(u, fd) => u = userName[c]
      /\ \A k \in DOMAIN down[fd] :
           \/ down[fd][k].chat = NoChat
           \/ down[fd][k].chat.receiver = userName[c]

\* While the server runs, the server and c know what they are to each other.
PeerOf(c) == LockOf(c) /\ BuildOf(c) /\ SessOf(c)

SessInv ==
  /\ OpenOnly
  /\ \A c \in Clients : LifeOf(c) /\ MailOf(c)
  /\ mode \notin Died => MapInv /\ \A c \in Clients : PeerOf(c)

\* A packet behind others.
LEMMA AppendedPacket ==
  ASSUME NEW q \in Seq(Packets), NEW p \in Packets
  PROVE  /\ Append(q, p) # << >>
         /\ q = << >> => Len(Append(q, p)) = 1 /\ Head(Append(q, p)) = p
         /\ q # << >> => Head(Append(q, p)) = Head(q)
         /\ \A k \in DOMAIN Append(q, p) :
              \/ k \in DOMAIN q /\ Append(q, p)[k] = q[k]
              \/ Append(q, p)[k] = p
<1> DEFINE r == Append(q, p)
<1>1. /\ Len(q) \in Nat /\ DOMAIN q = 1..Len(q) /\ r \in Seq(Packets)
      /\ Len(r) = Len(q) + 1 /\ DOMAIN r = 1..(Len(q) + 1)
      /\ r[Len(q) + 1] = p /\ \A k \in 1..Len(q) : r[k] = q[k]
  OBVIOUS
<1>2. q # << >> => Len(q) > 0 /\ Head(q) = q[1]
  BY EmptySeq
<1>3. r # << >> /\ Head(r) = r[1]
  BY <1>1
<1>4. q = << >> => Len(q) = 0
  OBVIOUS
<1> HIDE DEF r
<1>5. /\ q = << >> => Len(r) = 1 /\ Head(r) = p
      /\ q # << >> => Head(r) = Head(q)
  BY <1>1, <1>2, <1>3, <1>4
<1>6. \A k \in DOMAIN r : (k \in DOMAIN q /\ r[k] = q[k]) \/ r[k] = p
  BY <1>1
<1> QED BY <1>3, <1>5, <1>6 DEF r

\* A request of c is answered.
LEMMA DispatchPeer ==
  ASSUME BaseInv, NEW c \in Clients, PeerOf(c), MailOf(c), UNCHANGED clientVars,
         NEW fd \in Fds, Dispatch(fd)
  PROVE  MailOf(c)' /\ (mode' \notin Died => PeerOf(c)')
<1> DEFINE r == Head(up[fd])
<1>1. /\ TypeInv /\ TextInv /\ NetInv /\ KindInv
      /\ peer \in [Fds -> Endpoints \cup {Fin, Rst}]
      /\ down \in [Fds -> Seq(Packets)]
      /\ Ctrl(c) \in Endpoints /\ Data(c) \in Endpoints
  BY SocketsDiffer DEF BaseInv, SysTypeInv, TypeInv, TypeOK
<1>2. /\ UNCHANGED peer /\ up[fd] # << >> /\ up'[fd] = << >> /\ r \in Requests
      /\ \A x \in Fds : x # fd => up'[x] = up[x] /\ down'[x] = down[x]
      /\ \/ SameMaps /\ down'[fd] = down[fd] /\ r.type # "BUILD_DATA_CONN"
         \/ \E p : /\ Serves(fd, r, p)
                   /\ IF peer[fd] \in Endpoints
                        THEN down'[fd] = Append(down[fd], p)
                        ELSE down'[fd] = down[fd]
  BY <1>1, DispatchEffect
<1>3. /\ UNCHANGED <<pc, clientState, userName, asking, dataConn, stdin, taken>>
      /\ Runs(c)' <=> Runs(c)
      /\ Waits(c)' <=> Waits(c)
  BY DEF clientVars, Runs, Waits
<1>4. \A q : (Asks(Ctrl(c), q)' => Asks(Ctrl(c), q))
             /\ (Asks(Data(c), q)' => Asks(Data(c), q))
  BY <1>1, ServerSockets DEF ServerNext, KeepsSockets, AsksNothing
<1>5. peer[fd] = Ctrl(c) /\ Runs(c) =>
        /\ Waits(c) /\ r.type = ReplyTo[pc[c]] /\ down[fd] = << >>
        /\ pc[c] \in {"signUp", "signIn"} => r.user = asking[c]
  <2>1. peer[fd] = Ctrl(c) => Asks(Ctrl(c), r)
    BY <1>2 DEF Asks
  <2> QED BY <1>2, <2>1 DEF PeerOf, LockOf
<1>6. peer[fd] = Data(c) => r.type = "BUILD_DATA_CONN"
  BY <1>1, <1>2 DEF KindInv, Asks
<1>7. peer[fd] = Data(c) /\ Runs(c) =>
        pc[c] = "build" /\ r.user = userName[c] /\ down[fd] = << >>
  <2>1. peer[fd] = Data(c) => Asks(Data(c), r)
    BY <1>2 DEF Asks
  <2> QED BY <1>2, <2>1 DEF PeerOf, BuildOf
<1>8. /\ \A u, x : OnCtrl(u, x) => OnCtrl(u, x)'
      /\ \A u, x : OnData(u, x) => OnData(u, x)'
      /\ \A u, x : x # fd => /\ OnCtrl(u, x)' => OnCtrl(u, x)
                             /\ OnData(u, x)' => OnData(u, x)
      /\ \A u : OnData(u, fd)' /\ r.type = "BUILD_DATA_CONN"
                  => OnData(u, fd) \/ u = r.user
  BY <1>2 DEF SameMaps, Serves, Registers, Builds
<1> HIDE DEF r
<1>9. CASE down'[fd] = down[fd] /\ SameMaps /\ r.type # "BUILD_DATA_CONN"
  <2>1. \A x \in Fds : down'[x] = down[x]
    BY <1>2, <1>9
  <2>2. MailOf(c)'
    BY <1>2, <1>3, <1>9, <2>1 DEF MailOf, SameMaps
  <2>3. LockOf(c)'
    BY <1>2, <1>3, <1>4, <2>1 DEF PeerOf, LockOf
  <2>4. BuildOf(c)'
    BY <1>2, <1>3, <1>4, <1>9, <2>1 DEF PeerOf, BuildOf, SameMaps
  <2>5. SessOf(c)'
    <3>1. Accepted(c)' <=> Accepted(c)
      BY <1>2, <2>1 DEF Accepted
    <3>2. \A u : Left(u) => Left(u)'
      BY <1>2, <1>9 DEF Left, Gone, SameMaps
    <3> QED BY <1>2, <1>3, <1>9, <2>1, <3>1, <3>2 DEF PeerOf, SessOf, SameMaps
  <2> QED BY <2>2, <2>3, <2>4, <2>5 DEF PeerOf
<1>10. ASSUME NEW p, Serves(fd, r, p),
              IF peer[fd] \in Endpoints THEN down'[fd] = Append(down[fd], p)
                                        ELSE down'[fd] = down[fd]
       PROVE  MailOf(c)' /\ PeerOf(c)'
  <2>1. /\ p \in Packets /\ p.type = r.type
        /\ r.type = "BUILD_DATA_CONN" => p.chat = NoChat
    BY <1>10 DEF Serves
  <2>2. peer[fd] \in Endpoints =>
          /\ down'[fd] # << >>
          /\ down[fd] = << >> => Len(down'[fd]) = 1 /\ Head(down'[fd]) = p
          /\ \A k \in DOMAIN down'[fd] :
               \/ k \in DOMAIN down[fd] /\ down'[fd][k] = down[fd][k]
               \/ down'[fd][k] = p
    <3>1. down[fd] \in Seq(Packets)
      BY <1>1
    <3> DEFINE q == Append(down[fd], p)
    <3>2. /\ q # << >>
          /\ down[fd] = << >> => Len(q) = 1 /\ Head(q) = p
          /\ \A k \in DOMAIN q :
               \/ k \in DOMAIN down[fd] /\ q[k] = down[fd][k]
               \/ q[k] = p
      BY <2>1, <3>1, AppendedPacket
    <3> HIDE DEF q
    <3>3. peer[fd] \in Endpoints => down'[fd] = q
      BY <1>10 DEF q
    <3> QED BY <3>2, <3>3
  <2>3. MailOf(c)'
    <3>1. ASSUME Runs(c), pc[c] # "close", NEW x \in Fds, peer[x] = Data(c)
          PROVE  /\ \A u \in Users : OnData(u, x)' => u = userName[c]
                 /\ \A k \in DOMAIN down'[x] :
                      \/ down'[x][k].chat = NoChat
                      \/ down'[x][k].chat.receiver = userName[c]
      <4>1. CASE x = fd
        BY <1>1, <1>6, <1>7, <1>8, <2>1, <2>2, <3>1, <4>1 DEF MailOf
      <4>2. CASE x # fd
        BY <1>2, <1>8, <3>1, <4>2 DEF MailOf
      <4> QED BY <4>1, <4>2
    <3> QED BY <1>2, <1>3, <3>1 DEF MailOf
  <2>4. LockOf(c)'
    <3>1. ASSUME Runs(c), NEW x \in Fds, peer[x] = Ctrl(c), down'[x] # << >>
          PROVE  /\ up'[x] = << >> /\ Waits(c)
                 /\ Len(down'[x]) = 1 /\ Head(down'[x]).type = ReplyTo[pc[c]]
      <4>1. CASE x = fd
        BY <1>1, <1>2, <1>5, <2>1, <2>2, <3>1, <4>1
      <4>2. CASE x # fd
        BY <1>2, <3>1, <4>2 DEF PeerOf, LockOf
      <4> QED BY <4>1, <4>2
    <3> QED BY <1>2, <1>3, <1>4, <3>1 DEF PeerOf, LockOf
  <2>5. BuildOf(c)'
    <3>1. ASSUME Runs(c), NEW x \in Fds, peer[x] = Data(c)
          PROVE  /\ up'[x] # << >> => down'[x] = << >>
                 /\ pc[c] = "hello" => /\ down'[x] = << >>
                                       /\ \A u \in Users : ~OnData(u, x)'
      <4>1. CASE x = fd
        BY <1>2, <1>7, <3>1, <4>1
      <4>2. CASE x # fd
        BY <1>2, <1>8, <3>1, <4>2 DEF PeerOf, BuildOf
      <4> QED BY <4>1, <4>2
    <3> QED BY <1>2, <1>3, <1>4, <3>1 DEF PeerOf, BuildOf
  <2>6. SessOf(c)'
    <3>1. \A u : Left(u) => Left(u)'
      BY <1>2, <1>8 DEF Left, Gone
    <3>2. ASSUME NEW u \in Users, NEW x \in Fds, Runs(c), peer[x] = Ctrl(c),
                 OnCtrl(u, x)', ~OnCtrl(u, x)
          PROVE  /\ pc[c] \in {"signUp", "signIn"} /\ u = asking[c]
                 /\ down'[x] # << >>
                 /\ Head(down'[x]).code = SIGNIN_ACK_SUCCESS
      <4>1. Registers(fd, r, p) /\ x = fd /\ u = r.user
        BY <1>10, <3>2 DEF Serves, Registers, Builds, SameMaps
      <4>2. Waits(c) /\ r.type = ReplyTo[pc[c]] /\ down[fd] = << >>
        BY <1>5, <3>2, <4>1
      <4>3. pc[c] \in {"signUp", "signIn"}
        BY <4>1, <4>2 DEF Registers, Waits, ReplyTo
      <4> QED BY <1>1, <1>5, <2>2, <3>2, <4>1, <4>2, <4>3 DEF Registers
    <3>3. ASSUME Runs(c), pc[c] = "build", ~Accepted(c), Accepted(c)',
                 userName[c] \in Users
          PROVE  /\ \A u : u = userName[c] => OnData(u, fd)'
                 /\ peer'[fd] = Data(c)
      <4>1. PICK x \in Fds : /\ peer[x] = Data(c) /\ down'[x] # << >>
                             /\ Head(down'[x]).code = DATA_CONN_SUCCESS
        BY <1>2, <3>3 DEF Accepted
      <4>2. x = fd
        BY <1>2, <3>3, <4>1 DEF Accepted
      <4>3. Head(down'[fd]) = p /\ r.type = "BUILD_DATA_CONN"
        BY <1>1, <1>6, <1>7, <2>2, <3>3, <4>1, <4>2
      <4>4. Builds(fd, r, p)
        BY <1>10, <4>1, <4>2, <4>3
           DEF Serves, Registers, DATA_CONN_SUCCESS, DATA_CONN_DUP
      <4> QED BY <1>2, <1>7, <3>3, <4>1, <4>2, <4>4 DEF Builds
    <3>4. ASSUME NEW u \in Users, NEW x \in Fds, Runs(c), peer[x] = Ctrl(c),
                 OnCtrl(u, x), down[x] # << >>
          PROVE  down'[x] = down[x]
      BY <1>2, <1>5, <3>4
    <3> SUFFICES ASSUME NEW u \in Users, NEW x \in Fds, Runs(c),
                        peer[x] = Ctrl(c), OnCtrl(u, x)', OnCtrl(u, x)
                 PROVE
      \/ Left(u)'
      \/ \E gd \in Fds : OnData(u, gd)' /\ peer'[gd] = Data(c)
      \/ /\ pc[c] \in {"signUp", "signIn"} /\ u = asking[c]
         /\ down'[x] # << >> /\ Head(down'[x]).code = SIGNIN_ACK_SUCCESS
      \/ /\ u = userName[c] /\ clientState[c] # "IDLE"
         /\ \/ ~dataConn[c]
            \/ pc[c] \in {"hello", "close"}
            \/ pc[c] = "build" /\ ~Accepted(c)'
      \/ pc[c] = "close" /\ ~dataConn[c]
      \/ ~stdin[c]
      BY <1>2, <1>3, <3>2 DEF SessOf
    <3>5. \/ Left(u)
          \/ \E gd \in Fds : OnData(u, gd) /\ peer[gd] = Data(c)
          \/ /\ pc[c] \in {"signUp", "signIn"} /\ u = asking[c]
             /\ down[x] # << >> /\ Head(down[x]).code = SIGNIN_ACK_SUCCESS
          \/ /\ u = userName[c] /\ clientState[c] # "IDLE"
             /\ \/ ~dataConn[c]
                \/ pc[c] \in {"hello", "close"}
                \/ pc[c] = "build" /\ ~Accepted(c)
          \/ pc[c] = "close" /\ ~dataConn[c]
          \/ ~stdin[c]
      BY DEF PeerOf, SessOf
    <3> QED BY <1>2, <1>8, <3>1, <3>3, <3>4, <3>5
  <2> QED BY <2>3, <2>4, <2>5, <2>6 DEF PeerOf
<1> QED BY <1>2, <1>9, <1>10

\* A connection the server leaves as it is, or one it has just accepted.
SameOrNew(x) ==
  \/ peer'[x] = peer[x] /\ up'[x] = up[x] /\ down'[x] = down[x]
  \/ /\ \A u \in Users : ~OnCtrl(u, x) /\ ~OnData(u, x)
     /\ down'[x] = << >>

MapsShrink ==
  \A u, x : /\ OnCtrl(u, x)' => OnCtrl(u, x)
            /\ OnData(u, x)' => OnData(u, x)

\* A user who is still registered is so with both connections.
WholeUsers ==
  \A u, x : OnCtrl(u, x)' => \A y : OnData(u, y) => OnData(u, y)'

\* Steps of the server that write to nobody.
LEMMA QuietMail ==
  ASSUME NEW c \in Clients, MailOf(c), UNCHANGED clientVars, MapsShrink,
         \A x \in Fds : SameOrNew(x)
  PROVE  MailOf(c)'
<1> SUFFICES ASSUME Runs(c), pc[c] # "close",
                    NEW x \in Fds, peer'[x] = Data(c)
             PROVE  /\ \A u \in Users : OnData(u, x)' => u = userName[c]
                    /\ \A k \in DOMAIN down'[x] :
                         \/ down'[x][k].chat = NoChat
                         \/ down'[x][k].chat.receiver = userName[c]
  BY DEF MailOf, Runs, clientVars
<1>1. CASE peer'[x] = peer[x] /\ down'[x] = down[x]
  BY <1>1 DEF MailOf, MapsShrink
<1>2. CASE /\ \A u \in Users : ~OnData(u, x)
           /\ down'[x] = << >>
  BY <1>2 DEF MapsShrink
<1> QED BY <1>1, <1>2 DEF SameOrNew

LEMMA QuietPeer ==
  ASSUME NEW c \in Clients, PeerOf(c), UNCHANGED clientVars, MapsShrink,
         WholeUsers, AsksNothing, \A x \in Fds : SameOrNew(x),
         TypeInv
  PROVE  PeerOf(c)'
<1>1. /\ UNCHANGED <<pc, clientState, userName, asking, dataConn, stdin, taken>>
      /\ Runs(c)' <=> Runs(c)
      /\ Waits(c)' <=> Waits(c)
  BY DEF clientVars, Runs, Waits
<1>2. \A q : (Asks(Ctrl(c), q)' => Asks(Ctrl(c), q))
             /\ (Asks(Data(c), q)' => Asks(Data(c), q))
  BY SocketsDiffer DEF AsksNothing
<1>3. \A x \in Fds : down'[x] # << >> =>
        peer'[x] = peer[x] /\ up'[x] = up[x] /\ down'[x] = down[x]
  BY DEF SameOrNew
<1>4. \A u \in Users, x \in Fds : OnCtrl(u, x) \/ OnData(u, x) =>
        peer'[x] = peer[x] /\ up'[x] = up[x] /\ down'[x] = down[x]
  BY DEF SameOrNew
<1>5. LockOf(c)'
  BY <1>1, <1>2, <1>3 DEF PeerOf, LockOf
<1>6. BuildOf(c)'
  <2>1. ASSUME Runs(c), NEW x \in Fds, peer'[x] = Data(c)
        PROVE  /\ up'[x] # << >> => down'[x] = << >>
               /\ pc[c] = "hello" => /\ down'[x] = << >>
                                     /\ \A u \in Users : ~OnData(u, x)'
    BY <1>3, <1>4, <2>1 DEF PeerOf, BuildOf, MapsShrink, SameOrNew
  <2> QED BY <1>1, <1>2, <2>1 DEF PeerOf, BuildOf
<1>7. SessOf(c)'
  <2>1. Accepted(c)' => Accepted(c)
    BY <1>3 DEF Accepted
  <2>2. \A u \in Users : \A x : OnCtrl(u, x)' => (Left(u) => Left(u)')
    BY <1>4 DEF Left, Gone, WholeUsers
  <2>3. \A u \in Users : \A x : OnCtrl(u, x)' =>
          \A y \in Fds : OnData(u, y) => OnData(u, y)' /\ peer'[y] = peer[y]
    BY <1>4 DEF WholeUsers
  <2>4. \A u \in Users, x \in Fds : OnCtrl(u, x)' =>
          OnCtrl(u, x) /\ peer'[x] = peer[x] /\ down'[x] = down[x]
    BY <1>4 DEF MapsShrink
  <2> QED BY <1>1, <2>1, <2>2, <2>3, <2>4 DEF PeerOf, SessOf
<1> QED BY <1>5, <1>6, <1>7 DEF PeerOf

\* A chat for c comes behind what is there.
LEMMA ForwardPeer ==
  ASSUME BaseInv, NEW c \in Clients, PeerOf(c), MailOf(c), MapInv,
         UNCHANGED clientVars, NEW w \in Users, ForwardMessage(w)
  PROVE  MailOf(c)' /\ PeerOf(c)'
<1> DEFINE fd == ForwardFd(w)
<1>1. /\ TypeInv /\ TextInv /\ NetInv
      /\ down \in [Fds -> Seq(Packets)]
  BY DEF BaseInv, SysTypeInv, TypeInv, TypeOK
<1>2. /\ UNCHANGED <<readfds, backlog, peer, up>> /\ SameMaps
      /\ fd \in Fds /\ OnData(w, fd)
      /\ \A x \in Fds : x # fd => down'[x] = down[x]
  BY <1>1, ForwardEffect
<1>3. PICK m \in Chats :
        /\ m.receiver = w
        /\ \/ down'[fd] = down[fd]
           \/ down'[fd] = Append(down[fd], Packet("SEND_MSG", CHAT_SENT, m))
  BY <1>1, ForwardEffect
<1> HIDE DEF fd
<1>4. /\ UNCHANGED <<pc, clientState, userName, asking, dataConn, stdin, taken>>
      /\ Runs(c)' <=> Runs(c)
      /\ Waits(c)' <=> Waits(c)
  BY DEF clientVars, Runs, Waits
<1>5. \A q : (Asks(Ctrl(c), q)' => Asks(Ctrl(c), q))
             /\ (Asks(Data(c), q)' => Asks(Data(c), q))
  BY <1>2 DEF Asks
<1>6. \A u : Left(u) => Left(u)'
  BY <1>2 DEF Left, Gone, SameMaps
<1>7. peer[fd] # Ctrl(c) /\ up[fd] = << >>
  BY <1>2 DEF MapInv, FdKind, AskedOn
<1>8. peer[fd] = Data(c) /\ Runs(c) => pc[c] # "hello"
  BY <1>2 DEF PeerOf, BuildOf
<1>9. peer[fd] = Data(c) /\ Runs(c) /\ pc[c] # "close" => w = userName[c]
  BY <1>2 DEF MailOf
<1>10. LockOf(c)'
  BY <1>2, <1>4, <1>5, <1>7 DEF PeerOf, LockOf
<1>11. BuildOf(c)'
  BY <1>2, <1>4, <1>5, <1>7, <1>8 DEF PeerOf, BuildOf, SameMaps
<1> DEFINE p == Packet("SEND_MSG", CHAT_SENT, m)
           q == Append(down[fd], p)
<1>12. /\ p \in Packets /\ p.chat = m /\ p.code = CHAT_SENT
       /\ down[fd] \in Seq(Packets)
  <2>1. p \in Packets
    <3>1. /\ m \in UpdateChats /\ "SEND_MSG" \in ReplyTypes
          /\ CHAT_SENT \in AckCodes
      BY <1>3, ChatType, CodeTypes DEF ReplyTypes
    <3> QED BY <3>1, ChatPacketType
  <2>2. p.chat = m /\ p.code = CHAT_SENT
    BY DEF Packet
  <2> QED BY <1>1, <1>2, <2>1, <2>2
<1>13. /\ down[fd] = << >> => Head(q).code = CHAT_SENT
       /\ down[fd] # << >> => Head(q) = Head(down[fd])
       /\ \A k \in DOMAIN q :
            \/ k \in DOMAIN down[fd] /\ q[k] = down[fd][k]
            \/ q[k].chat = m
  <2> HIDE DEF p
  <2> QED BY <1>12, AppendedPacket
<1>14. down'[fd] = down[fd] \/ down'[fd] = q
  BY <1>3
<1> HIDE DEF p, q
<1>15. MailOf(c)'
  <2>1. ASSUME Runs(c), pc[c] # "close", NEW x \in Fds, peer[x] = Data(c)
        PROVE  \A k \in DOMAIN down'[x] :
                 \/ down'[x][k].chat = NoChat
                 \/ down'[x][k].chat.receiver = userName[c]
    <3>1. CASE x = fd
      BY <1>3, <1>9, <1>13, <1>14, <2>1, <3>1 DEF MailOf
    <3>2. CASE x # fd
      BY <1>2, <2>1, <3>2 DEF MailOf
    <3> QED BY <3>1, <3>2
  <2> QED BY <1>2, <1>4, <2>1 DEF MailOf, SameMaps
<1>16. SessOf(c)'
  <2>1. Accepted(c)' => Accepted(c)
    BY <1>2, <1>13, <1>14 DEF Accepted, CHAT_SENT, DATA_CONN_SUCCESS
  <2>2. \A x \in Fds : peer[x] = Ctrl(c) => down'[x] = down[x]
    BY <1>2, <1>7
  <2> QED BY <1>2, <1>4, <1>6, <2>1, <2>2 DEF PeerOf, SessOf, SameMaps
<1> QED BY <1>10, <1>11, <1>15, <1>16 DEF PeerOf

\* A step of the server keeps what it and the clients know of each other.
LEMMA ServerSess ==
  ASSUME BaseInv, SessInv, ServerNext, UNCHANGED clientVars
  PROVE  SessInv'
<1>1. /\ TypeInv /\ TextInv /\ NetInv /\ mode # "update"
      /\ peer \in [Fds -> Endpoints \cup {Fin, Rst}]
  BY DEF BaseInv, SysTypeInv, KindInv, TypeInv, TypeOK
<1>2. mode \notin Died
  BY <1>1 DEF ServerNext, Select, UpdateAck, Dispatch, HostDisconnected,
              ReadError, ForwardMessage, NextInbox, At, Turn, Died
<1>3. OpenOnly /\ MapInv /\ \A c \in Clients : MailOf(c) /\ PeerOf(c)
  BY <1>2 DEF SessInv
<1>4. OpenOnly' /\ (mode' \notin Died => MapInv')
  BY <1>3, ServerMaps
<1>5. KeepsSockets
  BY <1>1, ServerSockets
<1>6. \A c \in Clients : LifeOf(c)'
  BY <1>5, SocketsDiffer DEF SessInv, LifeOf, KeepsSockets, clientVars, Runs
<1>7. ASSUME NEW c \in Clients
      PROVE  MailOf(c)' /\ (mode' \notin Died => PeerOf(c)')
  <2>1. CASE Select
    <3>1. /\ SameMaps
          /\ \A x \in Fds :
               \/ peer'[x] = peer[x] /\ up'[x] = up[x] /\ down'[x] = down[x]
               \/ x \notin readfds /\ down'[x] = << >>
      BY <1>1, <2>1, SelectEffect
    <3>2. \A x \in Fds : SameOrNew(x)
      BY <1>3, <3>1 DEF SameOrNew, OpenOnly
    <3>3. MapsShrink /\ WholeUsers
      BY <3>1 DEF SameMaps, MapsShrink, WholeUsers
    <3> QED BY <1>1, <1>3, <1>5, <3>2, <3>3, QuietMail, QuietPeer
            DEF KeepsSockets
  <2>2. ASSUME NEW fd \in Fds, Dispatch(fd)
        PROVE  MailOf(c)' /\ (mode' \notin Died => PeerOf(c)')
    BY <1>3, <2>2, DispatchPeer
  <2>3. ASSUME NEW fd \in Fds, HostDisconnected(fd)
        PROVE  MailOf(c)' /\ (mode' \notin Died => PeerOf(c)')
    <3>1. /\ MapsShrink
          /\ \A x \in Fds : SameOrNew(x)
      BY <1>1, <2>3, RemovalEffect DEF MapsShrink, SameOrNew
    <3>2. mode' \notin Died => WholeUsers
      BY <1>1, <2>3, RemovalEffect DEF WholeUsers, SameMaps
    <3> QED BY <1>1, <1>3, <1>5, <3>1, <3>2, QuietMail, QuietPeer
            DEF KeepsSockets
  <2>4. ASSUME NEW fd \in Fds, ReadError(fd)
        PROVE  MailOf(c)' /\ mode' \in Died
    <3>1. /\ UNCHANGED <<connectionMap, dataConnMap, peer, up, down>>
          /\ mode' \in Died
      BY <2>4 DEF ReadError, mapVars, Died
    <3>2. MapsShrink
      BY <3>1, MapsKept DEF SameMaps, MapsShrink
    <3>3. \A x \in Fds : SameOrNew(x)
      BY <3>1 DEF SameOrNew
    <3> QED BY <1>3, <3>1, <3>2, <3>3, QuietMail
  <2>5. ASSUME NEW w \in Users, ForwardMessage(w)
        PROVE  MailOf(c)' /\ PeerOf(c)'
    BY <1>3, <2>5, ForwardPeer
  <2>6. ~UpdateAck
    BY <1>1 DEF UpdateAck
  <2>7. ASSUME NEW w \in Users, NextInbox(w)
        PROVE  MailOf(c)' /\ PeerOf(c)'
    <3>1. UNCHANGED <<peer, up, down>> /\ SameMaps
      BY <2>7, MapsKept DEF NextInbox, mapVars, sockVars
    <3>2. \A x \in Fds : SameOrNew(x)
      BY <3>1 DEF SameOrNew
    <3>3. MapsShrink /\ WholeUsers
      BY <3>1 DEF SameMaps, MapsShrink, WholeUsers
    <3> QED BY <1>1, <1>3, <1>5, <3>2, <3>3, QuietMail, QuietPeer
            DEF KeepsSockets
  <2> QED BY <2>1, <2>2, <2>3, <2>4, <2>5, <2>6, <2>7 DEF ServerNext
<1> QED BY <1>4, <1>6, <1>7 DEF SessInv

-----------------------------------------------------------------------------
(* A step of a client, as the others see it.                               *)

\* What x and the server hold for each other.
SameSocket(x) ==
  /\ \A fd \in Fds : peer'[fd] = x <=> peer[fd] = x
  /\ \A fd \in Fds :
       peer[fd] = x => up'[fd] = up[fd] /\ down'[fd] = down[fd]
  /\ \A r : Asks(x, r)' => Asks(x, r)
  /\ NoConn(x) => NoConn(x)'

\* No socket is used but e, if any.
OnlyUses(e) ==
  /\ UNCHANGED serverVars
  /\ \A x \in Endpoints : x # e => SameSocket(x)
  /\ \A fd \in Fds : Gone(fd) => Gone(fd)'
  /\ \A fd \in Fds : peer'[fd] \in Endpoints => peer'[fd] = peer[fd]

\* The process variables of c are its own.
OthersKept(c) ==
  \A d \in Clients : d # c =>
    /\ pc'[d] = pc[d] /\ clientState'[d] = clientState[d]
    /\ userName'[d] = userName[d] /\ asking'[d] = asking[d]
    /\ dataConn'[d] = dataConn[d] /\ stdin'[d] = stdin[d]
    /\ taken'[Ctrl(d)] = taken[Ctrl(d)] /\ taken'[Data(d)] = taken[Data(d)]

LEMMA SendUses ==
  ASSUME TypeInv, NetInv, NEW e \in Endpoints, NEW r \in Requests,
         SendRequest(e, r)
  PROVE  OnlyUses(e)
<1>1. /\ UNCHANGED <<serverVars, peer, down>>
      /\ \A x : NoConn(x) => NoConn(x)'
      /\ \A x \in Endpoints : \A q :
           Asks(x, q)' => Asks(x, q) \/ (x = e /\ q = r)
      /\ \A fd \in Fds : up'[fd] = up[fd] \/ peer[fd] = e
  BY SendEffect
<1> QED BY <1>1 DEF OnlyUses, SameSocket, Gone

LEMMA CloseUses ==
  ASSUME TypeInv, NetInv, NEW e \in Endpoints, Close(e)
  PROVE  OnlyUses(e)
<1>1. /\ UNCHANGED <<serverVars, up>> /\ KeepsSockets
      /\ \A fd \in Fds :
           IF peer[fd] = e THEN peer'[fd] \in {Fin, Rst}
           ELSE peer'[fd] = peer[fd] /\ down'[fd] = down[fd]
  BY CloseEffect
<1>2. \A x \in Endpoints : x # e => SameSocket(x)
  BY <1>1, PeersAssumption DEF KeepsSockets, AsksNothing, SameSocket
<1> QED BY <1>1, <1>2, PeersAssumption DEF OnlyUses, Gone

LEMMA ConnectUses ==
  ASSUME TypeInv, NetInv, NEW e \in Endpoints, Connect(e)
  PROVE  OnlyUses(e)
<1>1. /\ UNCHANGED <<serverVars, peer, up, down>>
      /\ \A x : x # e /\ NoConn(x) => NoConn(x)'
      /\ \A x, q : Asks(x, q)' => Asks(x, q)
  BY ConnectEffect
<1> QED BY <1>1 DEF OnlyUses, SameSocket, Gone

LEMMA RecvUses ==
  ASSUME TypeInv, ClientTypeOK, NEW e \in Endpoints,
         \/ \E fd \in Unread(e) : Recv(fd, e)
         \/ \E code : RecvAck(e, code)
  PROVE  /\ OnlyUses(e) /\ UNCHANGED <<peer, up, backlog>>
         /\ \A x \in Endpoints : x # e => taken'[x] = taken[x]
<1>1. /\ UNCHANGED <<serverVars, peer, up, backlog>> /\ KeepsSockets
      /\ \A x \in Fds : peer[x] # e => down'[x] = down[x]
      /\ \A x \in Endpoints : x # e => taken'[x] = taken[x]
  BY RecvEffect, RecvAckEffect
<1> QED BY <1>1
        DEF KeepsSockets, AsksNothing, OnlyUses, SameSocket, Gone

LEMMA NothingUses ==
  ASSUME UNCHANGED vars, NEW e
  PROVE  OnlyUses(e)
  BY DEF vars, mapVars, sockVars, serverVars, OnlyUses, SameSocket, Gone,
         NoConn, Asks

\* What the others and the server know stays true.
LEMMA FrameSess ==
  ASSUME BaseInv, SessInv, NEW c \in Clients, NEW e \in {Ctrl(c), Data(c)},
         OnlyUses(e), OthersKept(c), LifeOf(c)', MailOf(c)',
         mode \notin Died => AskedOn' /\ PeerOf(c)'
  PROVE  SessInv'
<1>1. /\ UNCHANGED <<mode, readfds, working>> /\ SameMaps
      /\ \A x \in Endpoints : x # e => SameSocket(x)
      /\ \A fd \in Fds : Gone(fd) => Gone(fd)'
      /\ \A fd \in Fds : peer'[fd] \in Endpoints => peer'[fd] = peer[fd]
      /\ working \in SUBSET Fds
  BY MapsKept DEF OnlyUses, serverVars, mapVars, BaseInv, SysTypeInv,
                  TypeInv, TypeOK
<1>2. /\ \A u : Left(u) => Left(u)'
      /\ \A u : Leaving(u) => Leaving(u)'
  BY <1>1 DEF Left, Leaving, SameMaps
<1>3. OpenOnly'
  BY <1>1 DEF SessInv, OpenOnly, SameMaps
<1>4. ASSUME NEW d \in Clients, d # c
      PROVE  LifeOf(d)' /\ MailOf(d)' /\ (mode \notin Died => PeerOf(d)')
  <2>1. SameSocket(Ctrl(d)) /\ SameSocket(Data(d))
    BY <1>1, <1>4, SocketsDiffer
  <2>2. /\ pc'[d] = pc[d] /\ clientState'[d] = clientState[d]
        /\ userName'[d] = userName[d] /\ asking'[d] = asking[d]
        /\ dataConn'[d] = dataConn[d] /\ stdin'[d] = stdin[d]
        /\ taken'[Ctrl(d)] = taken[Ctrl(d)]
        /\ taken'[Data(d)] = taken[Data(d)]
    BY <1>4 DEF OthersKept
  <2>3. /\ Runs(d)' <=> Runs(d)
        /\ Waits(d)' <=> Waits(d)
    BY <2>2 DEF Runs, Waits
  <2>4. LifeOf(d) /\ MailOf(d) /\ (mode \notin Died => PeerOf(d))
    BY DEF SessInv
  <2>5. LifeOf(d)'
    BY <2>1, <2>2, <2>3, <2>4 DEF LifeOf, SameSocket
  <2>6. MailOf(d)'
    BY <1>1, <2>1, <2>2, <2>3, <2>4 DEF MailOf, SameSocket, SameMaps
  <2>7. ASSUME mode \notin Died PROVE PeerOf(d)'
    <3>1. LockOf(d)'
      BY <2>1, <2>2, <2>3, <2>4, <2>7 DEF PeerOf, LockOf, SameSocket
    <3>2. BuildOf(d)'
      BY <1>1, <2>1, <2>2, <2>3, <2>4, <2>7
         DEF PeerOf, BuildOf, SameSocket, SameMaps
    <3>3. Accepted(d)' => Accepted(d)
      BY <2>1 DEF Accepted, SameSocket
    <3>4. SessOf(d)'
      BY <1>1, <1>2, <2>1, <2>2, <2>3, <2>4, <2>7, <3>3
         DEF PeerOf, SessOf, SameSocket, SameMaps
    <3> QED BY <3>1, <3>2, <3>4 DEF PeerOf
  <2> QED BY <2>5, <2>6, <2>7
<1>5. ASSUME mode \notin Died PROVE MapInv'
  <2>1. MapInv
    BY <1>5 DEF SessInv
  <2>2. FdKind'
    BY <1>1, <2>1, SocketsDiffer DEF MapInv, FdKind, SameMaps
  <2>3. OneUse'
    BY <1>1, <2>1 DEF MapInv, OneUse, SameMaps
  <2>4. TwoUsers'
    BY <1>1, <1>2, <2>1 DEF MapInv, TwoUsers, SameMaps
  <2> QED BY <1>5, <2>2, <2>3, <2>4 DEF MapInv
<1> QED BY <1>1, <1>3, <1>4, <1>5 DEF SessInv

\* Nobody is given a second use by what is asked when nothing is.
LEMMA SameAsked ==
  ASSUME BaseInv, MapInv, NEW e, OnlyUses(e), UNCHANGED up
  PROVE  AskedOn'
<1>1. /\ UNCHANGED working /\ SameMaps /\ working \in SUBSET Fds
      /\ \A fd \in Fds : Gone(fd) => Gone(fd)'
  BY MapsKept DEF OnlyUses, serverVars, mapVars, BaseInv, SysTypeInv,
                  TypeInv, TypeOK
<1>2. /\ \A u : Left(u) => Left(u)'
      /\ \A u : Leaving(u) => Leaving(u)'
  BY <1>1 DEF Left, Leaving, SameMaps
<1> QED BY <1>1, <1>2 DEF MapInv, AskedOn, SameMaps

-----------------------------------------------------------------------------
(* A step of a client, as it knows its connections itself.                 *)

Outcome(c) ==
  /\ \E e \in {Ctrl(c), Data(c)} : OnlyUses(e)
  /\ OthersKept(c)
  /\ LifeOf(c)' /\ MailOf(c)'
  /\ mode \notin Died => AskedOn' /\ PeerOf(c)'

LEMMA OwnFacts ==
  ASSUME BaseInv, SessInv, NEW c \in Clients
  PROVE  /\ TypeInv /\ ClientTypeOK /\ NetInv /\ TextInv
         /\ Ctrl(c) \in Endpoints /\ Data(c) \in Endpoints
         /\ Ctrl(c) # Data(c)
         /\ LifeOf(c) /\ MailOf(c)
         /\ mode \notin Died => MapInv /\ PeerOf(c)
  BY SocketsDiffer DEF BaseInv, SysTypeInv, SessInv

\* Where there is no connection there is nothing.
LEMMA NothingThere ==
  ASSUME NEW e, NoConn(e)
  PROVE  /\ \A r : ~Asks(e, r)
         /\ \A fd \in Fds : peer[fd] # e
         /\ Unread(e) \cap Fds = {}
  BY DEF NoConn, Asks, Unread, FdsOf

\* The process ends.
LEMMA ExitOutcome ==
  ASSUME BaseInv, SessInv, NEW c \in Clients,
         NEW e \in {Ctrl(c), Data(c)}, OnlyUses(e), UNCHANGED up,
         OthersKept(c), pc'[c] = "exit"
  PROVE  Outcome(c)
<1>1. mode \notin Died => MapInv
  BY DEF SessInv
<1>2. LifeOf(c)' /\ MailOf(c)' /\ PeerOf(c)'
  BY DEF LifeOf, SigningUp, Typing, MailOf, PeerOf, LockOf, BuildOf, SessOf,
         Runs
<1>3. mode \notin Died => AskedOn'
  BY <1>1, SameAsked
<1> QED BY <1>2, <1>3 DEF Outcome

\* Nothing changes but what is recorded.
LEMMA SameOutcome ==
  ASSUME BaseInv, SessInv, NEW c \in Clients,
         UNCHANGED <<vars, pc, clientState, userName, asking, dataConn, stdin,
                     taken>>
  PROVE  Outcome(c)
<1>1. OnlyUses(Ctrl(c)) /\ UNCHANGED <<up, down, peer, backlog, mode>>
  BY NothingUses DEF vars, sockVars
<1>2. OthersKept(c)
  BY DEF OthersKept
<1>3. SameMaps /\ UNCHANGED mode
  BY MapsKept DEF vars, mapVars
<1>4. LifeOf(c)' /\ MailOf(c)'
  BY <1>1, <1>3 DEF SessInv, LifeOf, MailOf, Runs, NoConn, SameMaps
<1>5. ASSUME mode \notin Died PROVE AskedOn' /\ PeerOf(c)'
  <2>1. MapInv /\ PeerOf(c)
    BY <1>5 DEF SessInv
  <2>2. AskedOn'
    BY <1>1, <2>1, SameAsked
  <2>3. LockOf(c)' /\ BuildOf(c)'
    BY <1>1, <1>3, <2>1
       DEF PeerOf, LockOf, BuildOf, Runs, Waits, Asks, SameMaps
  <2>4. \A u : Left(u) => Left(u)'
    BY <1>1, <1>3 DEF Left, Gone, SameMaps
  <2>5. Accepted(c)' => Accepted(c)
    BY <1>1 DEF Accepted
  <2>6. SessOf(c)'
    BY <1>1, <1>3, <2>1, <2>4, <2>5 DEF PeerOf, SessOf, Runs, SameMaps
  <2> QED BY <2>2, <2>3, <2>6 DEF PeerOf
<1> QED BY <1>1, <1>2, <1>4, <1>5 DEF Outcome

\* main.
LEMMA StartOutcome ==
  ASSUME BaseInv, SessInv, NEW c \in Clients, Start(c)
  PROVE  Outcome(c)
<1>1. /\ TypeInv /\ ClientTypeOK /\ NetInv
      /\ Ctrl(c) \in Endpoints /\ Data(c) \in Endpoints
      /\ Ctrl(c) # Data(c)
      /\ LifeOf(c)
      /\ mode \notin Died => MapInv
  BY OwnFacts
<1>2. /\ OnlyUses(Ctrl(c)) /\ UNCHANGED <<peer, up, down>>
      /\ \A r : Asks(Ctrl(c), r)' => Asks(Ctrl(c), r)
  BY <1>1, ConnectUses, ConnectEffect DEF Start
<1>3. NoConn(Ctrl(c)) /\ NoConn(Data(c)) /\ SameSocket(Data(c))
  BY <1>1, <1>2 DEF Start, LifeOf, OnlyUses
<1>4. /\ pc'[c] = "prompt" /\ clientState'[c] = "IDLE"
      /\ dataConn'[c] = FALSE
      /\ taken'[Ctrl(c)] = 0 /\ taken'[Data(c)] = 0
  BY <1>1 DEF Start, Goto, ClientTypeOK
<1>5. OthersKept(c)
  BY <1>1, SocketsDiffer DEF Start, Goto, OthersKept, ClientTypeOK
<1>6. /\ \A fd \in Fds : peer'[fd] # Ctrl(c) /\ peer'[fd] # Data(c)
      /\ \A r : ~Asks(Ctrl(c), r)' /\ ~Asks(Data(c), r)'
      /\ NoConn(Data(c))'
  BY <1>2, <1>3, NothingThere DEF SameSocket
<1>7. LifeOf(c)' /\ MailOf(c)'
  BY <1>4, <1>6 DEF LifeOf, SigningUp, Typing, MailOf
<1>8. PeerOf(c)'
  BY <1>4, <1>6 DEF PeerOf, LockOf, BuildOf, SessOf
<1>9. mode \notin Died => AskedOn'
  BY <1>1, <1>2, SameAsked
<1> QED BY <1>2, <1>5, <1>7, <1>8, <1>9 DEF Outcome

\* The kernel, closing.
LEMMA ExitCloseOutcome ==
  ASSUME BaseInv, SessInv, NEW c \in Clients, ExitClose(c)
  PROVE  Outcome(c)
<1>1. /\ TypeInv /\ ClientTypeOK /\ NetInv
      /\ Ctrl(c) \in Endpoints /\ Data(c) \in Endpoints
      /\ mode \notin Died => MapInv
  BY OwnFacts
<1>2. OthersKept(c)
  BY <1>1 DEF ExitClose, Goto, OthersKept, ClientTypeOK
<1>3. ASSUME NEW e \in {Ctrl(c), Data(c)}, Close(e), UNCHANGED pc
      PROVE  Outcome(c)
  <2>1. OnlyUses(e) /\ UNCHANGED up
    BY <1>1, <1>3, CloseUses, CloseEffect
  <2> QED BY <1>2, <1>3, <2>1, ExitOutcome DEF ExitClose
<1>4. ASSUME ~Open(Ctrl(c)), ~Open(Data(c)), Goto(c, "off"), UNCHANGED vars
      PROVE  Outcome(c)
  <2>1. OnlyUses(Ctrl(c)) /\ UNCHANGED <<peer, backlog, up>>
    BY <1>4, NothingUses DEF vars, sockVars
  <2>2. \A e \in Endpoints : ~Open(e) => NoConn(e)
    BY <1>1, PeersAssumption
       DEF Open, FdsOf, QueuedAt, NoConn, NetInv, ClosedInv
  <2>3. pc'[c] = "off"
    BY <1>1, <1>4 DEF Goto, ClientTypeOK
  <2>4. LifeOf(c)' /\ MailOf(c)' /\ PeerOf(c)'
    BY <1>1, <1>4, <2>1, <2>2, <2>3
       DEF LifeOf, SigningUp, Typing, MailOf, PeerOf, LockOf, BuildOf, SessOf,
           Runs, NoConn
  <2>5. mode \notin Died => AskedOn'
    BY <1>1, <2>1, SameAsked
  <2> QED BY <1>2, <2>1, <2>4, <2>5 DEF Outcome
<1> QED BY <1>3, <1>4 DEF ExitClose

\* What a command asks on the control connection gives it no second use.
LEMMA CommandAsked ==
  ASSUME BaseInv, NEW c \in Clients, MapInv, NEW r \in Requests,
         SendRequest(Ctrl(c), r), r.type # "BUILD_DATA_CONN",
         r.type \in {"SIGNUP", "SIGNIN"} =>
           \A u \in Users, fd \in Fds :
             peer[fd] = Ctrl(c) /\ OnCtrl(u, fd) => Left(u)
  PROVE  AskedOn'
<1>1. /\ TypeInv /\ NetInv /\ Ctrl(c) \in Endpoints
      /\ working \in SUBSET Fds
  BY SocketsDiffer DEF BaseInv, SysTypeInv, TypeInv, TypeOK
<1>2. /\ UNCHANGED <<working, peer>> /\ SameMaps
      /\ \A fd \in Fds :
           \/ up'[fd] = up[fd]
           \/ /\ peer[fd] = Ctrl(c) /\ up[fd] = << >>
              /\ up'[fd] # << >> /\ Head(up'[fd]) = r
  BY <1>1, SendEffect, MapsKept DEF serverVars, mapVars
<1>3. /\ \A u : Left(u)' <=> Left(u)
      /\ \A u : Leaving(u)' <=> Leaving(u)
  BY <1>2 DEF Left, Leaving, Gone, SameMaps
<1>4. \A fd \in working : up[fd] = << >> => peer[fd] # Ctrl(c)
  BY <1>1, PeersAssumption DEF NetInv, ReadyInv, Ready
<1> QED BY <1>2, <1>3, <1>4 DEF MapInv, AskedOn, FdKind, SameMaps

\* Nothing was asked before it.
LEMMA CommandLock ==
  ASSUME BaseInv, NEW c \in Clients, LockOf(c),
         pc[c] \in Typing \cup {"prompt"},
         NEW r \in Requests, SendRequest(Ctrl(c), r), UNCHANGED taken,
         pc'[c] \in DOMAIN ReplyTo, r.type = ReplyTo[pc'[c]],
         pc'[c] \in {"signUp", "signIn"} => r.user = asking'[c]
  PROVE  LockOf(c)'
<1>1. /\ UNCHANGED <<peer, down>>
      /\ \A q : Asks(Ctrl(c), q)' => Asks(Ctrl(c), q) \/ q = r
  BY SocketsDiffer, SendEffect DEF BaseInv, SysTypeInv
<1>2. Runs(c) /\ ~Waits(c)
  BY DEF Runs, Waits, ReplyTo, Typing
<1>3. /\ taken[Ctrl(c)] = 0
      /\ \A q \in Requests : ~Asks(Ctrl(c), q)
      /\ \A fd \in Fds : peer[fd] = Ctrl(c) => down[fd] = << >>
  BY <1>2 DEF LockOf
<1> QED BY <1>1, <1>3 DEF LockOf, Waits

\* A command begins, and asks its user first.
LEMMA TypingOutcome ==
  ASSUME BaseInv, SessInv, NEW c \in Clients, pc[c] = "prompt", stdin[c],
         UNCHANGED <<vars, userName, asking, dataConn, stdin, taken>>,
         OthersKept(c),
         \/ /\ pc'[c] \in {"typeSignUp", "typeSignIn"}
            /\ clientState[c] = "IDLE" /\ clientState'[c] = "IDLE"
         \/ /\ pc'[c] = "typeText"
            /\ clientState[c] # "IDLE" /\ clientState'[c] # "IDLE"
  PROVE  Outcome(c)
<1>1. /\ OnlyUses(Ctrl(c))
      /\ UNCHANGED <<up, down, peer, backlog, mode>> /\ SameMaps
  BY NothingUses, MapsKept DEF vars, sockVars, mapVars
<1>2. Runs(c) /\ Runs(c)' /\ ~Waits(c)
  BY DEF Runs, Waits, ReplyTo
<1>3. LifeOf(c)' /\ MailOf(c)'
  BY <1>1, <1>2 DEF SessInv, LifeOf, MailOf, NoConn, SameMaps, SigningUp
<1>4. ASSUME mode \notin Died PROVE AskedOn' /\ PeerOf(c)'
  <2>1. MapInv /\ PeerOf(c)
    BY <1>4 DEF SessInv
  <2>2. AskedOn'
    BY <1>1, <2>1, SameAsked
  <2>3. LockOf(c)' /\ BuildOf(c)'
    BY <1>1, <1>2, <2>1 DEF PeerOf, LockOf, BuildOf, Asks, SameMaps
  <2>4. \A u : Left(u) => Left(u)'
    BY <1>1 DEF Left, Gone, SameMaps
  <2>5. SessOf(c)'
    BY <1>1, <1>2, <2>1, <2>4 DEF PeerOf, SessOf, SameMaps
  <2> QED BY <2>2, <2>3, <2>5 DEF PeerOf
<1> QED BY <1>1, <1>3, <1>4 DEF Outcome

\* Signing up or in.
LEMMA SignOutcome ==
  ASSUME BaseInv, SessInv, NEW c \in Clients,
         NEW u \in SignsAs[c], NEW p \in Passwords, Sign(c, u, p)
  PROVE  Outcome(c)
<1>1. /\ TypeInv /\ ClientTypeOK /\ NetInv
      /\ Ctrl(c) \in Endpoints /\ Data(c) \in Endpoints
      /\ Ctrl(c) # Data(c)
      /\ LifeOf(c)
      /\ mode \notin Died => MapInv /\ PeerOf(c)
  BY OwnFacts
<1>2. /\ pc[c] \in {"typeSignUp", "typeSignIn"} /\ Runs(c)
      /\ clientState[c] = "IDLE" /\ stdin[c]
      /\ pc'[c] \in {"signUp", "signIn"} /\ asking'[c] = u
      /\ UNCHANGED <<clientState, userName, dataConn, stdin, taken>>
  BY <1>1 DEF Sign, Goto, ClientTypeOK, LifeOf, SigningUp, Typing, Runs
<1>3. PICK r \in Requests :
        /\ SendRequest(Ctrl(c), r) /\ r.user = u
        /\ r.type \in {"SIGNUP", "SIGNIN"}
        /\ r.type = ReplyTo[pc'[c]]
  <2>1. u \in Users
    BY SignsAsAssumption
  <2>2. \A t \in {"SIGNUP", "SIGNIN"} :
          LET r == SignRequest(t, u, p)
          IN  r \in Requests /\ r.type = t /\ r.user = u
    BY <2>1, ClientRequests DEF SignRequest
  <2>3. \/ /\ SendRequest(Ctrl(c), SignRequest("SIGNUP", u, p))
           /\ pc'[c] = "signUp"
        \/ /\ SendRequest(Ctrl(c), SignRequest("SIGNIN", u, p))
           /\ pc'[c] = "signIn"
    BY <1>1 DEF Sign, Goto, ClientTypeOK
  <2> QED BY <2>2, <2>3 DEF ReplyTo
<1>4. OnlyUses(Ctrl(c)) /\ UNCHANGED <<peer, down, serverVars>>
  BY <1>1, <1>3, SendUses, SendEffect
<1>5. OthersKept(c)
  BY <1>1, <1>2 DEF Sign, Goto, OthersKept, ClientTypeOK
<1>6. /\ ~dataConn[c] /\ NoConn(Data(c)) /\ taken[Data(c)] = 0
  BY <1>1, <1>2 DEF LifeOf, SigningUp
<1>7. SameSocket(Data(c)) /\ SameMaps
  BY <1>1, <1>4, MapsKept DEF OnlyUses, serverVars, mapVars
<1>8. /\ NoConn(Data(c))' /\ \A fd \in Fds : peer[fd] # Data(c)
      /\ \A q : ~Asks(Data(c), q)'
  BY <1>6, <1>7, NothingThere DEF SameSocket
<1>9. LifeOf(c)' /\ MailOf(c)'
  BY <1>2, <1>4, <1>6, <1>8 DEF LifeOf, MailOf, SigningUp, Typing
<1>10. ASSUME mode \notin Died PROVE AskedOn' /\ PeerOf(c)'
  <2>1. MapInv /\ LockOf(c) /\ SessOf(c)
    BY <1>1, <1>10 DEF PeerOf
  <2>2. \A v \in Users, fd \in Fds :
          peer[fd] = Ctrl(c) /\ OnCtrl(v, fd) => Left(v)
    BY <1>2, <1>8, <2>1 DEF SessOf, Runs
  <2>3. AskedOn'
    BY <1>3, <2>1, <2>2, CommandAsked
  <2>4. LockOf(c)'
    BY <1>2, <1>3, <2>1, CommandLock DEF ReplyTo, Typing
  <2>5. BuildOf(c)'
    BY <1>2, <1>4, <1>8 DEF BuildOf
  <2>6. SessOf(c)'
    BY <1>4, <1>7, <2>2 DEF SessOf, Left, Gone, SameMaps
  <2> QED BY <2>3, <2>4, <2>5, <2>6 DEF PeerOf
<1> QED BY <1>4, <1>5, <1>9, <1>10 DEF Outcome

\* A command of a session asks.
LEMMA CommandOutcome ==
  ASSUME BaseInv, SessInv, NEW c \in Clients, NEW r \in Requests,
         SendRequest(Ctrl(c), r), Typed(c, "signOut") \/ pc[c] = "typeText",
         clientState[c] # "IDLE", clientState'[c] # "IDLE",
         r.type \in {"SIGNOUT", "SEND_MSG"},
         pc'[c] \in {"signOut", "send"}, r.type = ReplyTo[pc'[c]],
         UNCHANGED <<userName, asking, dataConn, stdin, taken>>,
         OthersKept(c)
  PROVE  Outcome(c)
<1>1. /\ TypeInv /\ ClientTypeOK /\ NetInv
      /\ Ctrl(c) \in Endpoints /\ Data(c) \in Endpoints
      /\ Ctrl(c) # Data(c)
      /\ LifeOf(c) /\ MailOf(c)
      /\ mode \notin Died => MapInv /\ PeerOf(c)
  BY OwnFacts
<1>2. /\ pc[c] \in {"prompt", "typeText"} /\ stdin[c]
      /\ Runs(c) /\ Runs(c)'
  BY <1>1 DEF Typed, Runs, LifeOf, Typing
<1>3. OnlyUses(Ctrl(c)) /\ UNCHANGED <<peer, down, serverVars>>
  BY <1>1, SendUses, SendEffect
<1>4. SameSocket(Data(c)) /\ SameMaps
  BY <1>1, <1>3, MapsKept DEF OnlyUses, serverVars, mapVars
<1>5. LifeOf(c)'
  BY <1>1, <1>2, <1>4 DEF LifeOf, SameSocket, SigningUp, Typing
<1>6. MailOf(c)'
  BY <1>1, <1>2, <1>3, <1>4 DEF MailOf, SameMaps
<1>7. ASSUME mode \notin Died PROVE AskedOn' /\ PeerOf(c)'
  <2>1. MapInv /\ LockOf(c) /\ BuildOf(c) /\ SessOf(c)
    BY <1>1, <1>7 DEF PeerOf
  <2>2. AskedOn'
    BY <2>1, CommandAsked
  <2>3. LockOf(c)'
    BY <1>2, <2>1, CommandLock DEF ReplyTo, Typing
  <2>4. BuildOf(c)'
    BY <1>2, <1>3, <1>4, <2>1 DEF BuildOf, SameSocket
  <2>5. SessOf(c)'
    BY <1>2, <1>3, <1>4, <2>1 DEF SessOf, Left, Gone, SameMaps
  <2> QED BY <2>2, <2>3, <2>4, <2>5 DEF PeerOf
<1> QED BY <1>3, <1>5, <1>6, <1>7 DEF Outcome

\* A command's reply, as long as the server lives.
LEMMA CommandReply ==
  ASSUME BaseInv, NEW c \in Clients, LockOf(c), Runs(c),
         mode \notin Died, NEW code, RecvAck(Ctrl(c), code)
  PROVE  /\ Waits(c)
         /\ \E fd \in Fds : /\ peer[fd] = Ctrl(c) /\ down[fd] # << >>
                            /\ Head(down[fd]).code = code
         /\ taken'[Ctrl(c)] = 0
         /\ \A fd \in Fds : peer[fd] = Ctrl(c) => down'[fd] = << >>
         /\ \A r : ~Asks(Ctrl(c), r)'
<1>1. /\ TypeInv /\ ClientTypeOK /\ NetInv /\ Ctrl(c) \in Endpoints
  BY SocketsDiffer DEF BaseInv, SysTypeInv
<1>2. PICK fd \in Unread(Ctrl(c)) :
        Recv(fd, Ctrl(c)) /\ code \in CodeAt(Ctrl(c), Head(down[fd]))
  BY DEF RecvAck, ServerDied
<1> DEFINE q == down[fd]
           n == Emptied(Ctrl(c), q)
<1>3. /\ UNCHANGED <<serverVars, peer, up, backlog>> /\ KeepsSockets
      /\ fd \in Fds /\ peer[fd] = Ctrl(c) /\ q # << >>
      /\ n \in 1..Len(q)
      /\ down'[fd] = SubSeq(q, n + 1, Len(q))
      /\ taken'[Ctrl(c)] = Overread(Ctrl(c), q)
  BY <1>1, <1>2, RecvEffect
<1>4. /\ taken[Ctrl(c)] = 0 /\ up[fd] = << >> /\ Waits(c) /\ Len(q) = 1
  BY <1>3 DEF LockOf
<1>5. n = 1
  <2> HIDE DEF n
  <2> QED BY <1>3, <1>4
<1>6. Overread(Ctrl(c), q) = 0
  BY <1>4, <1>5 DEF Overread
<1>7. SubSeq(q, n + 1, Len(q)) = << >>
  <2>1. q \in Seq(Packets)
    BY <1>1, <1>3 DEF TypeInv, TypeOK
  <2> HIDE DEF q, n
  <2> QED BY <1>4, <1>5, <2>1
<1>8. code = Head(q).code
  BY <1>2, <1>4 DEF CodeAt
<1>9. \A x \in Fds : peer[x] = Ctrl(c) => x = fd
  BY <1>1, <1>3 DEF NetInv, OneConnection
<1>10. \A r : ~Asks(Ctrl(c), r)
  BY <1>1, <1>3, <1>4, <1>9 DEF NetInv, OneConnection, Asks
<1>11. \A r : ~Asks(Ctrl(c), r)'
  BY <1>1, <1>3, <1>10 DEF KeepsSockets, AsksNothing
<1> HIDE DEF q, n
<1> QED BY <1>3, <1>4, <1>6, <1>7, <1>8, <1>9, <1>11 DEF q

\* The control connection, once a reply is read.
LEMMA ReplyLock ==
  ASSUME NEW c \in Clients, UNCHANGED peer, taken'[Ctrl(c)] = 0,
         \A fd \in Fds : peer[fd] = Ctrl(c) => down'[fd] = << >>,
         \A r : ~Asks(Ctrl(c), r)'
  PROVE  LockOf(c)'
  BY DEF LockOf

\* The acknowledgement of a sign-up or sign-in.
LEMMA SignAckOutcome ==
  ASSUME BaseInv, SessInv, NEW c \in Clients, SignAck(c)
  PROVE  Outcome(c)
<1>1. /\ TypeInv /\ ClientTypeOK /\ NetInv
      /\ Ctrl(c) \in Endpoints /\ Data(c) \in Endpoints
      /\ Ctrl(c) # Data(c)
      /\ LifeOf(c)
      /\ mode \notin Died => MapInv /\ PeerOf(c)
  BY OwnFacts
<1>2. /\ pc[c] \in {"signUp", "signIn"} /\ Runs(c)
      /\ UNCHANGED <<dataConn, stdin>>
      /\ clientState[c] = "IDLE" /\ ~dataConn[c]
      /\ NoConn(Data(c)) /\ taken[Data(c)] = 0
  BY <1>1 DEF SignAck, Runs, LifeOf, SigningUp, Typing
<1>3. PICK code :
        /\ RecvAck(Ctrl(c), code)
        /\ \/ /\ code = SIGNIN_ACK_SUCCESS
              /\ pc'[c] = "dial" /\ userName'[c] = asking[c]
              /\ clientState'[c] # "IDLE"
           \/ /\ code # SIGNIN_ACK_SUCCESS
              /\ pc'[c] = "prompt" /\ clientState'[c] = "IDLE"
  BY <1>1, <1>2 DEF SignAck, Goto, ClientTypeOK
<1>4. /\ OnlyUses(Ctrl(c)) /\ UNCHANGED <<peer, up>>
      /\ \A x \in Endpoints : x # Ctrl(c) => taken'[x] = taken[x]
  BY <1>1, <1>3, RecvUses
<1>5. OthersKept(c)
  BY <1>1, <1>4, SocketsDiffer DEF SignAck, Goto, OthersKept, ClientTypeOK
<1>6. SameSocket(Data(c)) /\ SameMaps
  BY <1>1, <1>4, MapsKept DEF OnlyUses, serverVars, mapVars
<1>7. /\ NoConn(Data(c))' /\ (\A fd \in Fds : peer[fd] # Data(c))
      /\ \A q : ~Asks(Data(c), q)'
  BY <1>2, <1>6, NothingThere DEF SameSocket
<1>8. LifeOf(c)' /\ MailOf(c)'
  BY <1>1, <1>2, <1>3, <1>4, <1>7 DEF LifeOf, SigningUp, Typing, MailOf
<1>9. ASSUME mode \notin Died PROVE AskedOn' /\ PeerOf(c)'
  <2>1. MapInv /\ LockOf(c) /\ SessOf(c)
    BY <1>1, <1>9 DEF PeerOf
  <2>2. AskedOn'
    BY <1>4, <2>1, SameAsked
  <2>3. /\ \E fd \in Fds : /\ peer[fd] = Ctrl(c) /\ down[fd] # << >>
                           /\ Head(down[fd]).code = code
        /\ taken'[Ctrl(c)] = 0
        /\ \A fd \in Fds : peer[fd] = Ctrl(c) => down'[fd] = << >>
        /\ \A r : ~Asks(Ctrl(c), r)'
    BY <1>2, <1>3, <1>9, <2>1, CommandReply
  <2>4. LockOf(c)'
    BY <1>4, <2>3, ReplyLock
  <2>5. BuildOf(c)'
    BY <1>2, <1>3, <1>4, <1>7 DEF BuildOf
  <2>6. SessOf(c)'
    <3>1. \A v \in Users, fd \in Fds :
            peer[fd] = Ctrl(c) /\ OnCtrl(v, fd) =>
              \/ Left(v)
              \/ v = asking[c] /\ code = SIGNIN_ACK_SUCCESS
              \/ ~stdin[c]
      <4>1. \A fd, gd \in Fds :
              peer[fd] = Ctrl(c) /\ peer[gd] = Ctrl(c) => fd = gd
        BY <1>1 DEF NetInv, OneConnection
      <4> QED BY <1>2, <1>7, <2>1, <2>3, <4>1 DEF SessOf
    <3> QED BY <1>2, <1>3, <1>4, <1>6, <3>1
            DEF SessOf, Left, Gone, SameMaps
  <2> QED BY <2>2, <2>4, <2>5, <2>6 DEF PeerOf
<1> QED BY <1>4, <1>5, <1>8, <1>9 DEF Outcome

\* What is read from the control connection leaves the data connection, and
\* the session as it was or over.
LEMMA ReadOutcome ==
  ASSUME BaseInv, SessInv, NEW c \in Clients,
         clientState[c] # "IDLE", Runs(c),
         pc[c] \in {"signOut", "send"},
         NEW code, RecvAck(Ctrl(c), code),
         UNCHANGED <<asking, dataConn, stdin>>,
         OthersKept(c),
         \/ /\ pc'[c] = "prompt"
            /\ UNCHANGED <<clientState, userName>>
         \/ pc'[c] = "close"
  PROVE  Outcome(c)
<1>1. /\ TypeInv /\ ClientTypeOK /\ NetInv
      /\ Ctrl(c) \in Endpoints /\ Data(c) \in Endpoints
      /\ Ctrl(c) # Data(c)
      /\ LifeOf(c) /\ MailOf(c)
      /\ mode \notin Died => MapInv /\ PeerOf(c)
  BY OwnFacts
<1>2. /\ OnlyUses(Ctrl(c)) /\ UNCHANGED <<peer, up>>
      /\ taken'[Data(c)] = taken[Data(c)]
  BY <1>1, RecvUses
<1>3. SameSocket(Data(c)) /\ SameMaps
  BY <1>1, <1>2, MapsKept DEF OnlyUses, serverVars, mapVars
<1>4. LifeOf(c)'
  BY <1>1, <1>2, <1>3 DEF LifeOf, SigningUp, Typing, SameSocket, Runs
<1>5. MailOf(c)'
  BY <1>1, <1>2, <1>3 DEF MailOf, SameSocket, SameMaps, Runs
<1>6. ASSUME mode \notin Died PROVE AskedOn' /\ PeerOf(c)'
  <2>1. MapInv /\ LockOf(c) /\ BuildOf(c) /\ SessOf(c)
    BY <1>1, <1>6 DEF PeerOf
  <2>2. AskedOn'
    BY <1>2, <2>1, SameAsked
  <2>3. /\ taken'[Ctrl(c)] = 0
        /\ \A fd \in Fds : peer[fd] = Ctrl(c) => down'[fd] = << >>
        /\ \A r : ~Asks(Ctrl(c), r)'
    BY <1>6, <2>1, CommandReply
  <2>4. LockOf(c)'
    BY <1>2, <2>3, ReplyLock
  <2>5. BuildOf(c)'
    BY <1>2, <1>3, <2>1 DEF BuildOf, SameSocket, Runs
  <2>6. SessOf(c)'
    BY <1>2, <1>3, <2>1 DEF SessOf, Left, Gone, SameMaps, Runs
  <2> QED BY <2>2, <2>4, <2>5, <2>6 DEF PeerOf
<1> QED BY <1>2, <1>4, <1>5, <1>6 DEF Outcome

\* Nothing is thrown away while the server lives.
LEMMA DiscardOutcome ==
  ASSUME BaseInv, SessInv, NEW c \in Clients, Discard(c)
  PROVE  Outcome(c)
<1>1. /\ TypeInv /\ ClientTypeOK /\ NetInv
      /\ Ctrl(c) \in Endpoints /\ Data(c) \in Endpoints
      /\ Ctrl(c) # Data(c)
      /\ LifeOf(c) /\ MailOf(c)
      /\ mode \notin Died => MapInv /\ PeerOf(c)
  BY OwnFacts
<1>2. PICK fd \in Unread(Ctrl(c)) : Recv(fd, Ctrl(c))
  BY DEF Discard
<1>3. /\ fd \in Fds /\ peer[fd] = Ctrl(c) /\ down[fd] # << >>
      /\ OnlyUses(Ctrl(c)) /\ UNCHANGED <<peer, up>>
      /\ \A x \in Endpoints : x # Ctrl(c) => taken'[x] = taken[x]
  BY <1>1, <1>2, RecvEffect, RecvUses
<1>4. mode \in Died
  BY <1>1, <1>3 DEF Discard, PeerOf, LockOf, Runs, Waits, ReplyTo
<1>5. OthersKept(c)
  BY <1>1, <1>3, SocketsDiffer DEF Discard, OthersKept
<1>6. SameSocket(Data(c)) /\ SameMaps
  BY <1>1, <1>3, MapsKept DEF OnlyUses, serverVars, mapVars
<1>7. LifeOf(c)' /\ MailOf(c)'
  BY <1>1, <1>3, <1>6
     DEF Discard, LifeOf, MailOf, SameSocket, SameMaps, Runs
<1> QED BY <1>3, <1>4, <1>5, <1>7 DEF Outcome

\* The data connection is made ...
LEMMA DialOutcome ==
  ASSUME BaseInv, SessInv, NEW c \in Clients, Dial(c)
  PROVE  Outcome(c)
<1>1. /\ TypeInv /\ ClientTypeOK /\ NetInv
      /\ Ctrl(c) \in Endpoints /\ Data(c) \in Endpoints
      /\ Ctrl(c) # Data(c)
      /\ LifeOf(c)
      /\ mode \notin Died => MapInv /\ PeerOf(c)
  BY OwnFacts
<1>2. OthersKept(c) /\ pc[c] = "dial"
  BY <1>1 DEF Dial, Goto, OthersKept, ClientTypeOK
<1>3. CASE Goto(c, "exit") /\ UNCHANGED vars
  <2>1. pc'[c] = "exit" /\ UNCHANGED up
    BY <1>1, <1>3 DEF Goto, ClientTypeOK, vars, sockVars
  <2>2. OnlyUses(Ctrl(c))
    BY <1>3, NothingUses
  <2> QED BY <1>2, <2>1, <2>2, ExitOutcome
<1>4. CASE Connect(Data(c)) /\ Goto(c, "hello")
             /\ dataConn' = [dataConn EXCEPT ![c] = TRUE]
  <2>1. /\ OnlyUses(Data(c)) /\ UNCHANGED <<peer, up, down, serverVars>>
        /\ NoConn(Data(c))
        /\ \A r : Asks(Data(c), r)' => Asks(Data(c), r)
    BY <1>1, <1>4, ConnectUses, ConnectEffect
  <2>2. SameSocket(Ctrl(c)) /\ SameMaps
    BY <1>1, <2>1, MapsKept DEF OnlyUses, serverVars, mapVars
  <2>3. /\ pc'[c] = "hello" /\ dataConn'[c] = TRUE /\ taken[Data(c)] = 0
        /\ UNCHANGED <<clientState, userName, asking, stdin, taken>>
    BY <1>1, <1>2, <1>4 DEF Dial, Goto, LifeOf, Runs, ClientTypeOK
  <2>4. (\A fd \in Fds : peer[fd] # Data(c)) /\ \A r : ~Asks(Data(c), r)'
    BY <2>1, NothingThere
  <2>5. LifeOf(c)' /\ MailOf(c)'
    BY <2>1, <2>3, <2>4 DEF LifeOf, SigningUp, Typing, MailOf
  <2>6. ASSUME mode \notin Died PROVE AskedOn' /\ PeerOf(c)'
    <3>1. MapInv /\ LockOf(c) /\ SessOf(c)
      BY <1>1, <2>6 DEF PeerOf
    <3>2. AskedOn'
      BY <2>1, <3>1, SameAsked
    <3>3. LockOf(c)'
      BY <1>2, <2>1, <2>2, <2>3, <3>1
         DEF LockOf, Runs, Waits, ReplyTo, SameSocket
    <3>4. BuildOf(c)'
      BY <2>1, <2>3, <2>4 DEF BuildOf
    <3>5. SessOf(c)'
      BY <1>2, <2>1, <2>2, <2>3, <2>4, <3>1
         DEF SessOf, Left, Gone, SameMaps, Runs
    <3> QED BY <3>2, <3>3, <3>4, <3>5 DEF PeerOf
  <2> QED BY <1>2, <2>1, <2>5, <2>6 DEF Outcome
<1> QED BY <1>3, <1>4 DEF Dial

\* ... asked for ...
LEMMA HelloOutcome ==
  ASSUME BaseInv, SessInv, NEW c \in Clients, Hello(c)
  PROVE  Outcome(c)
<1>1. /\ TypeInv /\ ClientTypeOK /\ NetInv
      /\ Ctrl(c) \in Endpoints /\ Data(c) \in Endpoints
      /\ Ctrl(c) # Data(c)
      /\ LifeOf(c) /\ MailOf(c)
      /\ mode \notin Died => MapInv /\ PeerOf(c)
  BY OwnFacts
<1>2. /\ pc[c] = "hello" /\ pc'[c] = "build"
      /\ UNCHANGED <<clientState, userName, asking, dataConn, stdin, taken>>
  BY <1>1 DEF Hello, Goto, ClientTypeOK
<1>3. OthersKept(c)
  BY <1>1, <1>2 DEF Hello, Goto, OthersKept, ClientTypeOK
<1> DEFINE r == BuildRequest(userName[c])
<1>4. r \in Requests /\ r.type = "BUILD_DATA_CONN" /\ r.user = userName[c]
  <2>1. userName[c] \in Users
    BY <1>2 DEF BaseInv, SysTypeInv, KnownInv, Session
  <2>2. r.type = "BUILD_DATA_CONN" /\ r.user = userName[c]
    BY DEF BuildRequest
  <2> QED BY <2>1, <2>2, ClientRequests
<1>5. SendRequest(Data(c), r)
  BY DEF Hello
<1> HIDE DEF r
<1>6. /\ OnlyUses(Data(c)) /\ UNCHANGED <<peer, down, serverVars>>
      /\ \A x : NoConn(x) => NoConn(x)'
      /\ \A q : Asks(Data(c), q)' => Asks(Data(c), q) \/ q = r
      /\ \A fd \in Fds :
           \/ up'[fd] = up[fd]
           \/ peer[fd] = Data(c) /\ up'[fd] = <<r>>
  BY <1>1, <1>4, <1>5, SendUses, SendEffect
<1>7. SameSocket(Ctrl(c)) /\ SameMaps
  BY <1>1, <1>6, MapsKept DEF OnlyUses, serverVars, mapVars
<1>8. LifeOf(c)' /\ MailOf(c)'
  BY <1>1, <1>2, <1>6, <1>7
     DEF LifeOf, SigningUp, Typing, MailOf, SameMaps, Runs
<1>9. ASSUME mode \notin Died PROVE AskedOn' /\ PeerOf(c)'
  <2>1. MapInv /\ LockOf(c) /\ BuildOf(c) /\ SessOf(c)
    BY <1>1, <1>9 DEF PeerOf
  <2>2. \A fd \in Fds : peer[fd] = Data(c) =>
          down[fd] = << >> /\ \A u \in Users : ~OnData(u, fd)
    BY <1>2, <2>1 DEF BuildOf, Runs
  <2>3. AskedOn'
    <3>1. Head(<<r>>) = r
      OBVIOUS
    <3>2. UNCHANGED working
      BY <1>6 DEF serverVars
    <3>3. /\ \A u : Left(u)' <=> Left(u)
          /\ \A u : Leaving(u)' <=> Leaving(u)
      BY <1>6, <1>7, <3>2
         DEF Left, Leaving, Gone, SameMaps
    <3> QED BY <1>4, <1>6, <1>7, <2>1, <2>2, <3>1, <3>2, <3>3
            DEF MapInv, AskedOn, FdKind, SameMaps
  <2>4. LockOf(c)'
    BY <1>2, <1>6, <1>7, <2>1
       DEF LockOf, Runs, Waits, ReplyTo, SameSocket
  <2>5. BuildOf(c)'
    BY <1>2, <1>4, <1>6, <2>1, <2>2 DEF BuildOf, Runs
  <2>6. SessOf(c)'
    <3>1. ~Accepted(c)'
      BY <1>6, <2>2 DEF Accepted
    <3> QED BY <1>2, <1>6, <1>7, <2>1, <3>1
            DEF SessOf, Left, Gone, SameMaps, Runs
  <2> QED BY <2>3, <2>4, <2>5, <2>6 DEF PeerOf
<1> QED BY <1>3, <1>6, <1>8, <1>9 DEF Outcome

\* ... and answered.
LEMMA BuildAckOutcome ==
  ASSUME BaseInv, SessInv, NEW c \in Clients, BuildAck(c)
  PROVE  Outcome(c)
<1>1. /\ TypeInv /\ ClientTypeOK /\ NetInv
      /\ Ctrl(c) \in Endpoints /\ Data(c) \in Endpoints
      /\ Ctrl(c) # Data(c)
      /\ LifeOf(c) /\ MailOf(c)
      /\ mode \notin Died => MapInv /\ PeerOf(c)
  BY OwnFacts
<1>2. PICK code :
        /\ RecvAck(Data(c), code)
        /\ \/ pc'[c] = IF code = DATA_CONN_SUCCESS THEN "prompt" ELSE "close"
           \/ pc'[c] = "exit"
  BY <1>1 DEF BuildAck, Goto, ClientTypeOK
<1>3. /\ OnlyUses(Data(c)) /\ UNCHANGED <<peer, up, backlog>>
      /\ \A x \in Endpoints : x # Data(c) => taken'[x] = taken[x]
      /\ \A x \in Fds : Shortens(x)
  BY <1>1, <1>2, RecvUses, RecvAckEffect
<1>4. /\ pc[c] = "build" /\ Runs(c) /\ clientState[c] # "IDLE"
      /\ UNCHANGED <<clientState, userName, asking, dataConn, stdin>>
  BY DEF BuildAck, Runs, BaseInv, SysTypeInv, KnownInv, Session
<1>5. OthersKept(c)
  BY <1>1, <1>3, <1>4, SocketsDiffer
     DEF BuildAck, Goto, OthersKept, ClientTypeOK
<1>6. CASE pc'[c] = "exit"
  BY <1>3, <1>5, <1>6, ExitOutcome
<1>7. CASE pc'[c] = IF code = DATA_CONN_SUCCESS THEN "prompt" ELSE "close"
  <2>1. SameSocket(Ctrl(c)) /\ SameMaps
    BY <1>1, <1>3, MapsKept DEF OnlyUses, serverVars, mapVars
  <2>2. LifeOf(c)'
    <3>1. ~dataConn[c] => NoConn(Data(c))' /\ taken'[Data(c)] = 0
      <4>1. ASSUME ~dataConn[c]
            PROVE  NoConn(Data(c)) /\ taken[Data(c)] = 0
        BY <1>1, <1>4, <4>1 DEF LifeOf
      <4>2. ASSUME ~dataConn[c] PROVE Unread(Data(c)) = {}
        BY <1>1, <4>1, <4>2
           DEF NoConn, Unread, FdsOf, TypeInv, TypeOK
      <4> QED BY <1>2, <1>3, <4>1, <4>2 DEF RecvAck, NoConn
    <3> QED BY <1>4, <1>7, <3>1 DEF LifeOf, SigningUp, Typing
  <2>3. MailOf(c)'
    <3>1. ASSUME NEW fd \in Fds, peer[fd] = Data(c),
                 NEW k \in DOMAIN down'[fd]
          PROVE  \/ down'[fd][k].chat = NoChat
                 \/ down'[fd][k].chat.receiver = userName[c]
      BY <1>1, <1>3, <1>4, <3>1 DEF MailOf, Shortens
    <3> QED BY <1>1, <1>3, <1>4, <2>1, <3>1 DEF MailOf, SameMaps
  <2>4. ASSUME mode \notin Died PROVE AskedOn' /\ PeerOf(c)'
    <3>1. MapInv /\ LockOf(c) /\ BuildOf(c) /\ SessOf(c)
      BY <1>1, <2>4 DEF PeerOf
    <3>2. AskedOn'
      BY <1>3, <3>1, SameAsked
    <3>3. LockOf(c)'
      BY <1>1, <1>3, <1>4, <1>7, <2>1, <3>1
         DEF LockOf, Runs, Waits, ReplyTo, SameSocket
    <3>4. PICK fd \in Unread(Data(c)) :
            Recv(fd, Data(c)) /\ code \in CodeAt(Data(c), Head(down[fd]))
      BY <1>2, <2>4 DEF RecvAck, ServerDied
    <3>5. /\ fd \in Fds /\ peer[fd] = Data(c) /\ down[fd] # << >>
          /\ KeepsSockets
      BY <1>1, <3>4, RecvEffect
    <3>6. up[fd] = << >> /\ code = Head(down[fd]).code
      BY <1>4, <3>1, <3>4, <3>5 DEF BuildOf, CodeAt
    <3>7. \A x \in Fds : peer[x] = Data(c) => x = fd
      BY <1>1, <3>5 DEF NetInv, OneConnection
    <3>8. \A r : ~Asks(Data(c), r)
      BY <1>1, <3>5, <3>6, <3>7 DEF NetInv, OneConnection, Asks
    <3>9. \A r : ~Asks(Data(c), r)'
      BY <1>1, <3>5, <3>8 DEF KeepsSockets, AsksNothing
    <3>10. BuildOf(c)'
      BY <1>3, <1>7, <3>6, <3>7, <3>9 DEF BuildOf
    <3>11. SessOf(c)'
      <4>1. code = DATA_CONN_SUCCESS => Accepted(c)
        BY <3>5, <3>6 DEF Accepted
      <4>2. \A x \in Fds : peer[x] = Ctrl(c) => down'[x] = down[x]
        BY <2>1 DEF SameSocket
      <4> QED BY <1>3, <1>4, <1>7, <2>1, <3>1, <4>1, <4>2
              DEF SessOf, Left, Gone, SameMaps, Runs
    <3> QED BY <3>2, <3>3, <3>10, <3>11 DEF PeerOf
  <2> QED BY <1>3, <1>5, <2>2, <2>3, <2>4 DEF Outcome
<1> QED BY <1>2, <1>6, <1>7

\* The data connection is closed, or the keyboard is.
LEMMA CloseDataOutcome ==
  ASSUME BaseInv, SessInv, NEW c \in Clients, CloseDataConn(c)
  PROVE  Outcome(c)
<1>1. /\ TypeInv /\ ClientTypeOK /\ NetInv
      /\ Ctrl(c) \in Endpoints /\ Data(c) \in Endpoints
      /\ Ctrl(c) # Data(c)
      /\ LifeOf(c) /\ MailOf(c)
      /\ mode \notin Died => MapInv /\ PeerOf(c)
  BY OwnFacts
<1>2. /\ pc[c] = "close" /\ pc'[c] = "prompt" /\ ~dataConn'[c]
      /\ taken'[Data(c)] = 0 /\ taken'[Ctrl(c)] = taken[Ctrl(c)]
      /\ UNCHANGED <<clientState, userName, asking>>
      /\ Runs(c) /\ Runs(c)'
  BY <1>1 DEF CloseDataConn, Goto, ClientTypeOK, Runs
<1>3. OthersKept(c)
  BY <1>1, SocketsDiffer DEF CloseDataConn, Goto, OthersKept, ClientTypeOK
<1>4. /\ OnlyUses(Data(c)) /\ UNCHANGED up /\ NoConn(Data(c))'
      /\ \A fd \in Fds : peer[fd] = Data(c) => Gone(fd)'
      /\ dataConn[c] \/ ~stdin'[c]
      /\ stdin'[c] => stdin[c]
  <2>1. CASE dataConn[c] /\ Close(Data(c)) /\ UNCHANGED stdin
    <3>1. /\ UNCHANGED up /\ NoConn(Data(c))'
          /\ \A fd \in Fds : peer[fd] = Data(c) => peer'[fd] \in {Fin, Rst}
      BY <1>1, <2>1, CloseEffect
    <3> QED BY <1>1, <2>1, <3>1, CloseUses DEF Gone
  <2>2. CASE /\ ~dataConn[c] /\ stdin' = [stdin EXCEPT ![c] = FALSE]
             /\ UNCHANGED vars
    <3>1. NoConn(Data(c)) /\ UNCHANGED <<peer, up, backlog>>
      BY <1>1, <1>2, <2>2 DEF LifeOf, vars, sockVars
    <3> QED BY <1>1, <2>2, <3>1, NothingUses DEF NoConn, ClientTypeOK
  <2> QED BY <2>1, <2>2 DEF CloseDataConn
<1>5. SameSocket(Ctrl(c)) /\ SameMaps
  BY <1>1, <1>4, MapsKept DEF OnlyUses, serverVars, mapVars
<1>6. (\A fd \in Fds : peer'[fd] # Data(c)) /\ \A r : ~Asks(Data(c), r)'
  BY <1>4 DEF NoConn, Asks
<1>7. LifeOf(c)' /\ MailOf(c)'
  BY <1>2, <1>4, <1>6 DEF LifeOf, SigningUp, Typing, MailOf
<1>8. ASSUME mode \notin Died PROVE AskedOn' /\ PeerOf(c)'
  <2>1. MapInv /\ LockOf(c) /\ SessOf(c)
    BY <1>1, <1>8 DEF PeerOf
  <2>2. AskedOn'
    BY <1>4, <2>1, SameAsked
  <2>3. LockOf(c)'
    BY <1>2, <1>5, <2>1 DEF LockOf, Waits, ReplyTo, SameSocket
  <2>4. BuildOf(c)'
    BY <1>2, <1>6 DEF BuildOf
  <2>5. \A u : Left(u) => Left(u)'
    BY <1>4, <1>5 DEF OnlyUses, Left, SameMaps
  <2>6. \A u, fd : OnData(u, fd) /\ fd \in Fds /\ peer[fd] = Data(c) =>
          Left(u)'
    BY <1>4, <1>5 DEF Left, SameMaps
  <2>7. SessOf(c)'
    BY <1>2, <1>4, <1>5, <2>1, <2>5, <2>6
       DEF SessOf, SameSocket, SameMaps
  <2> QED BY <2>2, <2>3, <2>4, <2>7 DEF PeerOf
<1> QED BY <1>3, <1>4, <1>7, <1>8 DEF Outcome

\* A chat is read.
LEMMA DataRecvOutcome ==
  ASSUME BaseInv, SessInv, NEW c \in Clients, DataRecv(c)
  PROVE  Outcome(c)
<1>1. /\ TypeInv /\ ClientTypeOK /\ NetInv
      /\ Ctrl(c) \in Endpoints /\ Data(c) \in Endpoints
      /\ Ctrl(c) # Data(c)
      /\ LifeOf(c) /\ MailOf(c)
      /\ mode \notin Died => MapInv /\ PeerOf(c)
  BY OwnFacts
<1>2. /\ pc[c] = "prompt" /\ Runs(c) /\ clientState[c] # "IDLE"
      /\ UNCHANGED <<clientState, userName, asking, dataConn, stdin>>
  BY DEF DataRecv, Runs
<1>3. CASE UNCHANGED <<vars, taken>> /\ Goto(c, "exit")
  <2>1. OnlyUses(Ctrl(c)) /\ UNCHANGED up /\ pc'[c] = "exit"
    BY <1>1, <1>3, NothingUses DEF vars, sockVars, Goto, ClientTypeOK
  <2>2. OthersKept(c)
    BY <1>1, <1>2, <1>3 DEF OthersKept, Goto, ClientTypeOK
  <2> QED BY <2>1, <2>2, ExitOutcome
<1>4. ASSUME NEW fd \in Unread(Data(c)), Recv(fd, Data(c)), UNCHANGED pc
      PROVE  Outcome(c)
  <2>1. /\ OnlyUses(Data(c)) /\ UNCHANGED <<peer, up, backlog>>
        /\ \A x \in Endpoints : x # Data(c) => taken'[x] = taken[x]
        /\ \A x \in Fds : Shortens(x)
        /\ fd \in Fds /\ peer[fd] = Data(c)
    BY <1>1, <1>4, RecvUses, RecvEffect
  <2>2. OthersKept(c)
    BY <1>1, <1>2, <1>4, <2>1, SocketsDiffer DEF OthersKept
  <2>3. SameSocket(Ctrl(c)) /\ SameMaps
    BY <1>1, <2>1, MapsKept DEF OnlyUses, serverVars, mapVars
  <2>4. dataConn[c]
    BY <1>1, <1>2, <2>1 DEF LifeOf, NoConn
  <2>5. LifeOf(c)'
    BY <1>2, <1>4, <2>4 DEF LifeOf, SigningUp, Typing
  <2>6. MailOf(c)'
    <3>1. ASSUME NEW x \in Fds, peer[x] = Data(c),
                 NEW k \in DOMAIN down'[x]
          PROVE  \/ down'[x][k].chat = NoChat
                 \/ down'[x][k].chat.receiver = userName[c]
      BY <1>1, <1>2, <2>1, <3>1 DEF MailOf, Shortens
    <3> QED BY <1>1, <1>2, <2>1, <2>3, <3>1 DEF MailOf, SameMaps
  <2>7. ASSUME mode \notin Died PROVE AskedOn' /\ PeerOf(c)'
    <3>1. MapInv /\ LockOf(c) /\ BuildOf(c) /\ SessOf(c)
      BY <1>1, <2>7 DEF PeerOf
    <3>2. AskedOn'
      BY <2>1, <3>1, SameAsked
    <3>3. LockOf(c)'
      BY <1>1, <1>2, <1>4, <2>1, <2>3, <3>1
         DEF LockOf, Runs, Waits, SameSocket
    <3>4. \A x \in Fds : peer[x] = Data(c) => up[x] = << >>
      <4>1. \A x \in Fds : up[x] # << >> => Head(up[x]) \in Requests
        BY <1>1 DEF TypeInv, TypeOK
      <4> QED BY <1>2, <3>1, <4>1 DEF BuildOf, Asks
    <3>5. BuildOf(c)'
      BY <1>2, <1>4, <2>1, <3>1, <3>4 DEF BuildOf, Runs, Asks
    <3>6. SessOf(c)'
      BY <1>2, <1>4, <2>1, <2>3, <3>1
         DEF SessOf, Left, Gone, SameMaps, Runs
    <3> QED BY <3>2, <3>3, <3>5, <3>6 DEF PeerOf
  <2> QED BY <2>1, <2>2, <2>5, <2>6, <2>7 DEF Outcome
<1> QED BY <1>3, <1>4 DEF DataRecv

\* The commands of a session.
LEMMA SessionOutcome ==
  ASSUME BaseInv, SessInv, NEW c \in Clients,
         \/ SignOut(c) \/ SignOutAck(c) \/ SendAck(c)
         \/ \E b \in Bodies : SendChat(c, b)
  PROVE  Outcome(c)
<1>1. /\ TypeInv /\ ClientTypeOK /\ NetInv
      /\ Ctrl(c) \in Endpoints /\ Data(c) \in Endpoints
      /\ Ctrl(c) # Data(c)
  BY OwnFacts
<1>2. /\ clientState[c] # "IDLE" => userName[c] \in Users
      /\ pc[c] = "typeText" => personTalking[c] \in Users
      /\ pc[c] \in {"signOut", "send", "typeText"} => clientState[c] # "IDLE"
  BY DEF BaseInv, SysTypeInv, KnownInv, Session
<1>3. CASE SignOut(c)
  <2> DEFINE r == [type |-> "SIGNOUT", user |-> userName[c]]
  <2>1. r \in Requests /\ r.type = "SIGNOUT" /\ SendRequest(Ctrl(c), r)
    BY <1>2, <1>3, ClientRequests DEF SignOut
  <2> HIDE DEF r
  <2>2. /\ pc'[c] = "signOut" /\ OthersKept(c)
        /\ Typed(c, "signOut") /\ clientState[c] # "IDLE"
        /\ UNCHANGED <<clientState, userName, asking, dataConn, stdin, taken>>
    BY <1>1, <1>3 DEF SignOut, Goto, OthersKept, ClientTypeOK
  <2> QED BY <2>1, <2>2, CommandOutcome DEF ReplyTo
<1>4. ASSUME NEW b \in Bodies, SendChat(c, b)
      PROVE  Outcome(c)
  <2> DEFINE r == ChatMsg(userName[c], personTalking[c], b)
  <2>1. r \in Requests /\ r.type = "SEND_MSG" /\ SendRequest(Ctrl(c), r)
    <3>1. userName[c] \in Users /\ personTalking[c] \in Users
      BY <1>2, <1>4 DEF SendChat
    <3>2. r.type = "SEND_MSG"
      BY DEF ChatMsg
    <3> QED BY <1>4, <3>1, <3>2, ClientRequests DEF SendChat
  <2> HIDE DEF r
  <2>2. /\ pc'[c] = "send" /\ OthersKept(c)
        /\ pc[c] = "typeText" /\ clientState[c] # "IDLE"
        /\ UNCHANGED <<clientState, userName, asking, dataConn, stdin, taken>>
    BY <1>1, <1>2, <1>4 DEF SendChat, Goto, OthersKept, ClientTypeOK
  <2> QED BY <2>1, <2>2, CommandOutcome DEF ReplyTo
<1>5. CASE SignOutAck(c) \/ SendAck(c)
  <2>1. /\ pc[c] \in {"signOut", "send"} /\ clientState[c] # "IDLE"
        /\ Runs(c) /\ UNCHANGED <<asking, dataConn, stdin>>
    BY <1>2, <1>5 DEF SignOutAck, SendAck, Runs
  <2>2. PICK code :
          /\ RecvAck(Ctrl(c), code)
          /\ \/ /\ pc'[c] = "prompt"
                /\ UNCHANGED <<clientState, userName>>
             \/ pc'[c] = "close"
             \/ pc'[c] = "exit"
    BY <1>1, <1>5 DEF SignOutAck, SendAck, Goto, ClientTypeOK
  <2>3. /\ OnlyUses(Ctrl(c)) /\ UNCHANGED up
        /\ \A x \in Endpoints : x # Ctrl(c) => taken'[x] = taken[x]
    BY <1>1, <2>2, RecvUses
  <2>4. OthersKept(c)
    BY <1>1, <1>5, <2>3, SocketsDiffer
       DEF SignOutAck, SendAck, Goto, OthersKept, ClientTypeOK
  <2> QED BY <2>1, <2>2, <2>3, <2>4, ReadOutcome, ExitOutcome
<1> QED BY <1>3, <1>4, <1>5

\* A step of a client keeps what it and the server know of each other.
LEMMA ClientSess ==
  ASSUME NoUpdates, BaseInv, SessInv, NEW c \in Clients, ClientStepOf(c)
  PROVE  Outcome(c) /\ SessInv'
<1>1. /\ TypeInv /\ ClientTypeOK /\ LifeOf(c)
      /\ pc[c] \notin {"update", "spin"} /\ "update" \notin Types[c]
  BY DEF NoUpdates, BaseInv, SysTypeInv, KindInv, SessInv
<1>2. ASSUME \/ Kill(c) \/ ServerLost(c)
             \/ \E n \in Names : ReadUnknown(c, n)
      PROVE  Outcome(c)
  <2>1. /\ UNCHANGED <<vars, clientState, userName, asking, dataConn, stdin,
                       taken>>
        /\ pc'[c] = "exit" /\ OthersKept(c)
    BY <1>1, <1>2 DEF Kill, ServerLost, ReadUnknown, Goto, OthersKept,
                      ClientTypeOK
  <2>2. OnlyUses(Ctrl(c)) /\ UNCHANGED up
    BY <2>1, NothingUses DEF vars, sockVars
  <2> QED BY <2>1, <2>2, ExitOutcome
<1>3. ASSUME Read(c) PROVE Outcome(c)
  BY <1>3, SameOutcome DEF Read
<1>4. ~Update(c) /\ ~UpdateRecv(c) /\ \A n : ~SpinEnds(c, n)
  BY <1>1 DEF Update, UpdateRecv, SpinEnds, Typed
<1>5. ASSUME \/ SignCmd(c)
             \/ \E receiver \in Receivers : SendCmd(c, receiver)
      PROVE  Outcome(c)
  <2>1. /\ pc[c] = "prompt" /\ stdin[c] /\ OthersKept(c)
        /\ UNCHANGED <<vars, userName, asking, dataConn, stdin, taken>>
    BY <1>1, <1>5 DEF SignCmd, SendCmd, Typed, Goto, OthersKept, ClientTypeOK
  <2>2. \/ /\ pc'[c] \in {"typeSignUp", "typeSignIn"}
           /\ clientState[c] = "IDLE" /\ clientState'[c] = "IDLE"
        \/ /\ pc'[c] = "typeText"
           /\ clientState[c] # "IDLE" /\ clientState'[c] # "IDLE"
    BY <1>1, <1>5 DEF SignCmd, SendCmd, Goto, ClientTypeOK
  <2> QED BY <2>1, <2>2, TypingOutcome
<1>6. Outcome(c)
  BY <1>2, <1>3, <1>4, <1>5, StartOutcome, SignOutcome, SessionOutcome,
     SignAckOutcome, DialOutcome, HelloOutcome, BuildAckOutcome,
     CloseDataOutcome, DiscardOutcome, ExitCloseOutcome, DataRecvOutcome
     DEF ClientStepOf, UserStep, ProgramStep
<1> QED BY <1>6, FrameSess DEF Outcome

-----------------------------------------------------------------------------
(* What holds throughout a session.                                        *)

LEMMA InitSess == SysInit => SessInv
<1> SUFFICES ASSUME SysInit PROVE SessInv
  OBVIOUS
<1>1. /\ \A u, fd : ~OnCtrl(u, fd) /\ ~OnData(u, fd)
      /\ \A fd \in Fds : peer[fd] = Fin /\ up[fd] = << >>
      /\ backlog = << >> /\ \A c \in Clients : pc[c] = "off"
  BY DEF SysInit, Init, ClientInit, OnCtrl, OnData, EmptyMap
<1>2. \A c \in Clients : Ctrl(c) \in Endpoints /\ Data(c) \in Endpoints
  BY SocketsDiffer
<1>3. \A c \in Clients : NoConn(Ctrl(c)) /\ NoConn(Data(c))
  BY <1>1, <1>2, PeersAssumption DEF NoConn
<1>4. \A c \in Clients : ~Runs(c)
  BY <1>1 DEF Runs
<1>5. OpenOnly
  BY <1>1 DEF OpenOnly
<1>6. \A c \in Clients : LifeOf(c) /\ MailOf(c)
  BY <1>1, <1>3, <1>4 DEF LifeOf, SigningUp, Typing, MailOf
<1>7. MapInv
  BY <1>1 DEF MapInv, FdKind, OneUse, TwoUsers, AskedOn
<1>8. \A c \in Clients : PeerOf(c)
  BY <1>4 DEF PeerOf, LockOf, BuildOf, SessOf
<1> QED BY <1>5, <1>6, <1>7, <1>8 DEF SessInv

\* Where nothing happens nothing is forgotten.
LEMMA SameSess ==
  ASSUME BaseInv, SessInv, UNCHANGED sysVars
  PROVE  SessInv'
<1>1. UNCHANGED <<vars, pc, clientState, userName, asking, dataConn, stdin,
                  taken>>
  BY DEF sysVars, clientVars
<1>2. CASE Clients # {}
  <2> PICK c \in Clients : TRUE
    BY <1>2
  <2>1. Outcome(c)
    BY <1>1, SameOutcome
  <2> QED BY <2>1, FrameSess DEF Outcome
<1>3. CASE Clients = {}
  <2>1. UNCHANGED <<mode, readfds, peer, up, working>> /\ SameMaps
    BY <1>1, MapsKept DEF vars, mapVars, sockVars
  <2>2. OpenOnly'
    BY <2>1 DEF SessInv, OpenOnly, SameMaps
  <2>3. \A u : (Left(u)' <=> Left(u)) /\ (Leaving(u)' <=> Leaving(u))
    BY <2>1 DEF Left, Leaving, Gone, SameMaps
  <2>4. ASSUME mode \notin Died PROVE MapInv'
    BY <2>1, <2>3, <2>4
       DEF SessInv, MapInv, FdKind, OneUse, TwoUsers, AskedOn, SameMaps
  <2> QED BY <1>3, <2>1, <2>2, <2>4 DEF SessInv
<1> QED BY <1>2, <1>3

LEMMA SessStep ==
  ASSUME NoUpdates, BaseInv, SessInv, [SysNext]_sysVars
  PROVE  BaseInv' /\ SessInv'
<1>1. BaseInv'
  BY BaseStep
<1>2. CASE ServerNext /\ UNCHANGED clientVars
  BY <1>1, <1>2, ServerSess
<1>3. ASSUME NEW c \in Clients, ClientStepOf(c) PROVE SessInv'
  BY <1>3, ClientSess
<1>4. CASE UNCHANGED sysVars
  BY <1>1, <1>4, SameSess
<1> QED BY <1>1, <1>2, <1>3, <1>4 DEF SysNext, ClientStepOf

LEMMA SessAlways ==
  ASSUME NoUpdates
  PROVE  SysSpec => [](BaseInv /\ SessInv)
<1>1. SysInit => BaseInv /\ SessInv
  BY InitBase, InitSess
<1>2. BaseInv /\ SessInv /\ [SysNext]_sysVars => (BaseInv /\ SessInv)'
  BY SessStep
<1> QED BY <1>1, <1>2, PTL DEF SysSpec

\* No user is registered on a descriptor the server has closed, which the
\* next client to connect gets: two users are on one control connection only
\* while the data connection of one of them is closed and is removed before
\* that connection is looked at again.  An update is refused here as in all
\* of this module.
THEOREM ClosedForgotten ==
  ASSUME NoUpdates
  PROVE  SysSpec => []ClosedFdsAreForgotten
<1>1. BaseInv /\ SessInv => ClosedFdsAreForgotten
  <2> SUFFICES ASSUME BaseInv, SessInv PROVE ClosedFdsAreForgotten
    OBVIOUS
  <2>1. TypeInv /\ OpenOnly
    BY DEF BaseInv, SysTypeInv, SessInv
  <2>2. \A u \in Users :
          /\ u \in DOMAIN connectionMap => OnCtrl(u, connectionMap[u])
          /\ u \in DOMAIN dataConnMap => OnData(u, dataConnMap[u])
    BY DEF OnCtrl, OnData
  <2>3. \A u \in Users : \A fd :
          OnCtrl(u, fd) \/ OnData(u, fd) => fd \in readfds
    BY <2>1, OnTyped DEF OpenOnly
  <2> QED BY <2>2, <2>3 DEF ClosedFdsAreForgotten
<1> QED BY <1>1, SessAlways, PTL

\* A command reads the acknowledgement it casts what it reads to: while it
\* waits, its control connection holds its request or the reply, never both
\* and never anything else, and between commands nothing.
THEOREM ConnectionsInLockstep ==
  ASSUME NoUpdates
  PROVE  SysSpec => []Lockstep
<1>1. BaseInv /\ SessInv => Lockstep
  <2> SUFFICES ASSUME BaseInv, SessInv, NEW c \in Clients,
                      NEW fd \in FdsOf(Ctrl(c)),
                      ~ServerDied, pc[c] # "exit"
               PROVE  /\ Len(up[fd]) + Len(down[fd]) <= 1
                      /\ Len(up[fd]) + Len(down[fd]) > 0 =>
                           pc[c] \in DOMAIN ReplyTo
                      /\ up[fd] # << >> => Head(up[fd]).type = ReplyTo[pc[c]]
                      /\ down[fd] # << >> =>
                           Head(down[fd]).type = ReplyTo[pc[c]]
    BY DEF Lockstep
  <2>1. /\ readfds \in SUBSET Fds
        /\ up \in [Fds -> Seq(Requests)] /\ down \in [Fds -> Seq(Packets)]
    BY DEF BaseInv, SysTypeInv, TypeInv, TypeOK
  <2>2. fd \in Fds /\ peer[fd] = Ctrl(c)
    BY <2>1 DEF FdsOf
  <2>3. Runs(c)
    BY <2>2 DEF SessInv, LifeOf, NoConn, Runs
  <2>4. LockOf(c)
    BY DEF ServerDied, SessInv, PeerOf
  <2>5. up[fd] \in Seq(Requests) /\ down[fd] \in Seq(Packets)
    BY <2>1, <2>2
  <2>6. /\ Len(up[fd]) \in Nat /\ Len(down[fd]) \in Nat
        /\ up[fd] = << >> => Len(up[fd]) = 0
        /\ down[fd] = << >> => Len(down[fd]) = 0
    BY <2>5
  <2>7. Len(up[fd]) <= 1
    BY <2>2 DEF BaseInv, TextInv, RequestTexts
  <2>8. up[fd] # << >> => /\ Waits(c)
                          /\ Head(up[fd]).type = ReplyTo[pc[c]]
    <3> SUFFICES ASSUME up[fd] # << >>
                 PROVE  Waits(c) /\ Head(up[fd]).type = ReplyTo[pc[c]]
      OBVIOUS
    <3>1. Head(up[fd]) \in Requests
      BY <2>5
    <3>2. Asks(Ctrl(c), Head(up[fd]))
      BY <2>2 DEF Asks
    <3> QED BY <2>3, <2>4, <3>1, <3>2 DEF LockOf
  <2>9. down[fd] # << >> =>
          /\ up[fd] = << >> /\ Waits(c) /\ Len(down[fd]) = 1
          /\ Head(down[fd]).type = ReplyTo[pc[c]]
    BY <2>2, <2>3, <2>4 DEF LockOf
  <2>10. /\ Len(up[fd]) + Len(down[fd]) <= 1
         /\ Len(up[fd]) + Len(down[fd]) > 0 => Waits(c)
    <3> DEFINE m == Len(up[fd])
               n == Len(down[fd])
    <3>1. m \in Nat /\ n \in Nat /\ m <= 1
      BY <2>6, <2>7
    <3>2. CASE down[fd] # << >>
      <4>1. m = 0 /\ n = 1 /\ Waits(c)
        BY <2>6, <2>9, <3>2
      <4> QED BY <4>1
    <3>3. CASE down[fd] = << >>
      <4>1. n = 0 /\ (m = 0 \/ Waits(c))
        BY <2>6, <2>8, <3>3
      <4> HIDE DEF m, n
      <4>2. m + n <= 1 /\ (m + n > 0 => Waits(c))
        BY <3>1, <4>1
      <4> QED BY <4>2 DEF m, n
    <3> QED BY <3>2, <3>3
  <2> QED BY <2>8, <2>9, <2>10 DEF Waits
<1> QED BY <1>1, SessAlways, PTL

\* What is added to a record is mail for the user of the session.
LEMMA OwnMail ==
  ASSUME NoUpdates, BaseInv, SessInv, [SysNext]_sysVars, NEW c \in Clients,
         NEW i \in DOMAIN messageRecord'[c] \ DOMAIN messageRecord[c]
  PROVE  \/ messageRecord'[c][i] = NoChat
         \/ messageRecord'[c][i].receiver = userName[c]
<1>1. /\ TypeInv /\ ClientTypeOK /\ KindInv /\ MailOf(c)
      /\ messageRecord \in [Clients -> Seq(Recordable)]
      /\ messageRecord[c] \in Seq(Recordable)
  BY DEF BaseInv, SysTypeInv, SessInv, ClientTypeOK
<1>2. messageRecord'[c] # messageRecord[c] /\ messageRecord'[c] # << >>
  OBVIOUS
<1>3. ~UNCHANGED messageRecord
  BY <1>2
<1>4. \A d \in Clients : ~UpdateRecv(d) /\ \A n : ~SpinEnds(d, n)
  BY <1>1 DEF UpdateRecv, SpinEnds, KindInv
<1>5. PICK d \in Clients : ClientStepOf(d)
  BY <1>3 DEF SysNext, sysVars, clientVars, recordVars, ClientStepOf
<1>6. Start(d) \/ Read(d) \/ DataRecv(d)
  BY <1>3, <1>4, <1>5
     DEF ClientStepOf, UserStep, ProgramStep, SignCmd, Sign, SignOut, SendCmd,
         SendChat, Update, ReadUnknown, Kill, SignAck, Dial, Hello, BuildAck,
         SignOutAck, CloseDataConn, SendAck, Discard, ServerLost, ExitClose,
         recordVars
<1>7. ~Start(d) /\ ~Read(d)
  BY <1>1, <1>2 DEF Start, Read
<1>8. PICK fd \in Unread(Data(d)) :
        messageRecord' =
          [messageRecord EXCEPT ![d] =
             Append(@, IF taken[Data(d)] = 0 THEN Head(down[fd]).chat
                                             ELSE NoChat)]
  BY <1>3, <1>6, <1>7 DEF DataRecv
<1>9. d = c /\ pc[c] = "prompt"
  BY <1>1, <1>2, <1>6, <1>7, <1>8 DEF DataRecv
<1> DEFINE m == IF taken[Data(c)] = 0 THEN Head(down[fd]).chat ELSE NoChat
<1>10. messageRecord'[c] = Append(messageRecord[c], m)
  BY <1>1, <1>8, <1>9
<1>11. m = NoChat \/ m.receiver = userName[c]
  <2>1. /\ fd \in Fds /\ peer[fd] = Data(c) /\ down[fd] # << >>
        /\ down[fd] \in Seq(Packets)
    BY <1>1, <1>8, <1>9 DEF Unread, FdsOf, TypeInv, TypeOK
  <2>2. 1 \in DOMAIN down[fd] /\ Head(down[fd]) = down[fd][1]
    BY <2>1
  <2>3. Runs(c) /\ pc[c] # "close"
    BY <1>9 DEF Runs
  <2> QED BY <1>1, <2>1, <2>2, <2>3 DEF MailOf
<1> HIDE DEF m
<1>12. messageRecord'[c][i] = m
  BY <1>1, <1>10
<1> QED BY <1>11, <1>12

\* Mail is not shown to anybody else: whatever connections come and go, and
\* whoever signs out and in again, what a client records was sent to the name
\* it is signed in with at that moment.
THEOREM MailIsOwn ==
  ASSUME NoUpdates
  PROVE  SysSpec => OwnMailOnly
<1>1. BaseInv /\ SessInv /\ [SysNext]_sysVars
      => [\A c \in Clients :
            \A i \in DOMAIN messageRecord'[c] \ DOMAIN messageRecord[c] :
              LET m == messageRecord'[c][i]
              IN  m # NoChat => \/ m.receiver = userName[c]
                                \/ pc[c] = "update" /\ m.sender = userName[c]
         ]_sysVars
  BY OwnMail
<1> QED BY <1>1, SessAlways, PTL DEF SysSpec, OwnMailOnly
=============================================================================
