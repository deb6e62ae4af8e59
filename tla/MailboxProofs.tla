--------------------------- MODULE MailboxProofs ---------------------------
(***************************************************************************)
(* The histories of the server, for any users, texts and peers: both sides *)
(* of a conversation agree on it, and inboxes and histories implement      *)
(* Mailbox.                                                                *)
(***************************************************************************)
EXTENDS ServerMailbox, ServerProofs, PickingProofs, SequenceTheorems

-----------------------------------------------------------------------------
(* Both sides of a conversation.                                           *)

IsBetween(m, u, v) == {m.sender, m.receiver} = {u, v}
PlacesBetween(h, u, v) == {i \in DOMAIN h : IsBetween(h[i], u, v)}
PickedBetween(h, u, v) == Picked(h, PlacesBetween(h, u, v))

\* What appending to a history does to a conversation in it.
LEMMA BetweenAppend ==
  ASSUME NEW h \in Seq(Chats), NEW m \in Chats, NEW u, NEW v
  PROVE  PickedBetween(Append(h, m), u, v) =
           IF IsBetween(m, u, v) THEN Append(PickedBetween(h, u, v), m)
                                 ELSE PickedBetween(h, u, v)
<1> DEFINE new == Append(h, m)
           n == Len(h) + 1
           S == PlacesBetween(h, u, v)
<1>1. /\ new \in Seq(Chats) /\ Len(h) \in Nat /\ DOMAIN h = 1..Len(h)
      /\ DOMAIN new = 1..n /\ new[n] = m /\ \A i \in 1..Len(h) : new[i] = h[i]
  OBVIOUS
<1>2. S \in SUBSET DOMAIN h /\ S \in SUBSET DOMAIN new
  BY <1>1 DEF PlacesBetween
<1>3. PlacesBetween(new, u, v) = IF IsBetween(m, u, v) THEN S \cup {n} ELSE S
  <2> HIDE DEF new
  <2> QED BY <1>1 DEF PlacesBetween
<1>4. \A i \in S : i < n
  BY <1>1 DEF PlacesBetween
<1> HIDE DEF new, S
<1>5. Picked(new, S) = Picked(h, S)
  BY <1>1, <1>2, PickedSame
<1>6. Picked(new, S \cup {n}) = Append(Picked(new, S), m)
  <2>1. n \in DOMAIN new
    BY <1>1
  <2> HIDE DEF n
  <2> QED BY <1>1, <1>2, <1>4, <2>1, PickedLast
<1> QED BY <1>3, <1>5, <1>6 DEF PickedBetween, new, S

\* Adding a chat to the histories of its sender and its receiver keeps the
\* two sides of every conversation equal.
LEMMA RecordedAgrees ==
  ASSUME NEW h \in [Users -> Seq(Chats)], NEW m \in Chats,
         NEW u \in Users, NEW v \in Users,
         PickedBetween(h[u], u, v) = PickedBetween(h[v], v, u)
  PROVE  PickedBetween(Recorded(h, m)[u], u, v)
           = PickedBetween(Recorded(h, m)[v], v, u)
<1> DEFINE new == Recorded(h, m)
           added == [h EXCEPT ![m.sender] = Append(@, m)]
<1>1. m.sender \in Users /\ m.receiver \in Users
  BY DEF Chats
<1>2. added \in [Users -> Seq(Chats)]
      /\ new = [added EXCEPT ![m.receiver] = Append(@, m)]
  BY <1>1 DEF Recorded
<1>3. CASE u = v
  <2>1. PickedBetween(new[u], u, v) = PickedBetween(new[v], v, u)
    BY <1>3
  <2> QED BY <2>1
<1>4. CASE u # v /\ IsBetween(m, u, v)
  <2>1. new[u] = Append(h[u], m) /\ new[v] = Append(h[v], m)
    BY <1>1, <1>2, <1>4 DEF IsBetween
  <2>2. IsBetween(m, v, u)
    BY <1>4 DEF IsBetween
  <2>3. h[u] \in Seq(Chats) /\ h[v] \in Seq(Chats)
    OBVIOUS
  <2> HIDE DEF new
  <2>4. PickedBetween(new[u], u, v) = Append(PickedBetween(h[u], u, v), m)
    BY <1>4, <2>1, <2>3, BetweenAppend
  <2>5. PickedBetween(new[v], v, u) = Append(PickedBetween(h[v], v, u), m)
    BY <2>1, <2>2, <2>3, BetweenAppend
  <2> QED BY <2>4, <2>5 DEF new
<1>5. CASE ~IsBetween(m, u, v)
  <2>1. ~IsBetween(m, v, u)
    BY <1>5 DEF IsBetween
  <2>2. \A x \in Users :
          /\ added[x] = IF x = m.sender THEN Append(h[x], m) ELSE h[x]
          /\ new[x] = IF x = m.receiver THEN Append(added[x], m) ELSE added[x]
    BY <1>1, <1>2
  <2>3. \A x \in Users : h[x] \in Seq(Chats) /\ added[x] \in Seq(Chats)
    BY <1>2
  <2> HIDE DEF new, added
  <2>4. PickedBetween(added[u], u, v) = PickedBetween(h[u], u, v)
    BY <1>5, <2>2, <2>3, BetweenAppend
  <2>5. PickedBetween(new[u], u, v) = PickedBetween(added[u], u, v)
    BY <1>5, <2>2, <2>3, BetweenAppend
  <2>6. PickedBetween(added[v], v, u) = PickedBetween(h[v], v, u)
    BY <2>1, <2>2, <2>3, BetweenAppend
  <2>7. PickedBetween(new[v], v, u) = PickedBetween(added[v], v, u)
    BY <2>1, <2>2, <2>3, BetweenAppend
  <2> QED BY <2>4, <2>5, <2>6, <2>7 DEF new
<1> QED BY <1>3, <1>4, <1>5

\* The property in terms of the histories.
LEMMA AgreementUnfolded ==
  ConversationsAgree <=>
    \A u, v \in Users : PickedBetween(msgDataMap[u], u, v)
                          = PickedBetween(msgDataMap[v], v, u)
  BY DEF ConversationsAgree, Conversation, Between, PickedBetween,
         PlacesBetween, IsBetween

\* Only forwarding touches the histories.
LEMMA HistoriesStep ==
  ASSUME TypeInv, [Next]_vars
  PROVE  \/ UNCHANGED msgDataMap
         \/ \E u \in Users : /\ ForwardMessage(u)
                            /\ Head(inboxMap[u]) \in Chats
<1>1. CASE ServerNext
  <2>1. ASSUME NEW fd \in Fds, Dispatch(fd) PROVE UNCHANGED msgDataMap
    BY <2>1 DEF Dispatch, SignUpService, SignInService, SignOutService, mapVars,
                BuildDataConnService, MsgService, UpdateService
  <2>2. ASSUME NEW fd \in Fds, HostDisconnected(fd) \/ ReadError(fd)
        PROVE  UNCHANGED msgDataMap
    BY <2>2 DEF HostDisconnected, ReadError, mapVars
  <2>3. CASE Select \/ UpdateAck
    BY <2>3 DEF Select, UpdateAck, mapVars
  <2>4. ASSUME NEW u \in Users, ForwardMessage(u)
        PROVE  Head(inboxMap[u]) \in Chats
    <3>1. inboxMap[u] \in Seq(Chats) /\ inboxMap[u] # << >>
      BY <2>4 DEF ForwardMessage, At, HasWork, TypeInv, TypeOK, IsMap
    <3> QED BY <3>1
  <2>5. ASSUME NEW u \in Users, NextInbox(u) PROVE UNCHANGED msgDataMap
    BY <2>5 DEF NextInbox, mapVars
  <2> QED BY <1>1, <2>1, <2>2, <2>3, <2>4, <2>5 DEF ServerNext
<1>2. CASE PeerNext
  BY <1>2 DEF PeerNext, PeerConnect, PeerSend, PeerSendEarly, PeerRecv,
              PeerClose, PeerCloseEarly, serverVars, mapVars
<1>3. CASE UNCHANGED vars
  BY <1>3 DEF vars, mapVars
<1> QED BY <1>1, <1>2, <1>3 DEF Next

\* Every step keeps the agreement.
LEMMA NextAgrees ==
  TypeInv /\ ConversationsAgree /\ [Next]_vars => ConversationsAgree'
<1> SUFFICES ASSUME TypeInv, ConversationsAgree, [Next]_vars
             PROVE  ConversationsAgree'
  OBVIOUS
<1>1. CASE UNCHANGED msgDataMap
  <2>1. ASSUME NEW u \in Users, NEW v \in Users
        PROVE  PickedBetween(msgDataMap'[u], u, v)
                 = PickedBetween(msgDataMap'[v], v, u)
    BY <1>1, AgreementUnfolded
  <2> QED BY <2>1 DEF ConversationsAgree, Conversation, Between, PickedBetween,
                      PlacesBetween, IsBetween
<1>2. ASSUME NEW w \in Users, ForwardMessage(w), Head(inboxMap[w]) \in Chats
      PROVE  ConversationsAgree'
  <2> DEFINE m == Head(inboxMap[w])
  <2>1. /\ msgDataMap' = Recorded(msgDataMap, m)
        /\ msgDataMap \in [Users -> Seq(Chats)]
    BY <1>2 DEF ForwardMessage, TypeInv, TypeOK
  <2>2. m \in Chats
    BY <1>2
  <2> HIDE DEF m
  <2>3. ASSUME NEW u \in Users, NEW v \in Users
        PROVE  PickedBetween(msgDataMap'[u], u, v)
                 = PickedBetween(msgDataMap'[v], v, u)
    BY <2>1, <2>2, AgreementUnfolded, RecordedAgrees
  <2> QED BY <2>3 DEF ConversationsAgree, Conversation, Between, PickedBetween,
                      PlacesBetween, IsBetween
<1> QED BY <1>1, <1>2, HistoriesStep

\* Whoever reads the history of a conversation reads the same as the other
\* side, whatever chats to others, or to oneself, come in between.
THEOREM SameConversation == Spec => []ConversationsAgree
<1>1. Init => TypeInv /\ ConversationsAgree
  <2>1. Init => ConversationsAgree
    BY DEF Init, ConversationsAgree, Conversation, Between, Picked
  <2> QED BY <2>1, InitType
<1>2. TypeInv /\ ConversationsAgree /\ [Next]_vars
        => TypeInv' /\ ConversationsAgree'
  BY NextType, NextAgrees
<1> QED BY <1>1, <1>2, PTL DEF Spec

-----------------------------------------------------------------------------
(* Where a text is.  Peers use a text once; that it is then in one place   *)
(* only, on its way, in an inbox or in the histories, is what makes an     *)
(* inbox and a history a mailbox.                                          *)

Texts(q) == {q[i].body : i \in {j \in DOMAIN q : q[j] \in Chats}}

InInbox(b) == \E u \in DOMAIN inboxMap : b \in Texts(inboxMap[u])
InHistory(b) == \E u \in Users : b \in Texts(msgDataMap[u])
Stored(b) == InInbox(b) \/ InHistory(b)

\* A request has a text of its own, which is nowhere else.
RequestTexts ==
  /\ \A f \in Fds :
       /\ Len(up[f]) <= 1
       /\ \A b \in Texts(up[f]) : b \notin unsent /\ ~Stored(b)
  /\ \A i \in DOMAIN backlog :
       /\ Len(backlog[i].up) <= 1
       /\ \A b \in Texts(backlog[i].up) : b \notin unsent /\ ~Stored(b)
  /\ \A f, g \in Fds : f # g => Texts(up[f]) \cap Texts(up[g]) = {}
  /\ \A i, j \in DOMAIN backlog :
       i # j => Texts(backlog[i].up) \cap Texts(backlog[j].up) = {}
  /\ \A f \in Fds, i \in DOMAIN backlog :
       Texts(up[f]) \cap Texts(backlog[i].up) = {}

\* A chat that waits is in the inbox of its receiver, once, and in no
\* history.
StoredTexts ==
  /\ \A b : Stored(b) => b \notin unsent
  /\ \A u, v \in DOMAIN inboxMap :
       \A i \in DOMAIN inboxMap[u], j \in DOMAIN inboxMap[v] :
         inboxMap[u][i].body = inboxMap[v][j].body => u = v /\ i = j
  /\ \A u \in DOMAIN inboxMap : \A i \in DOMAIN inboxMap[u] :
       inboxMap[u][i].receiver = u /\ ~InHistory(inboxMap[u][i].body)

TextInv == RequestTexts /\ StoredTexts

\* No request, no text.
LEMMA TextsEmpty == Texts(<< >>) = {}
  BY DEF Texts

\* A queue of one request.
LEMMA TextsOne ==
  ASSUME NEW r
  PROVE  Texts(<<r>>) = IF r \in Chats THEN {r.body} ELSE {}
  BY DEF Texts

\* Only requests to send have a text.
LEMMA ChatRequest ==
  ASSUME NEW r \in Requests
  PROVE  r \in Chats <=> r.type = "SEND_MSG"
  BY DEF Requests, Chats

\* The texts of a sequence of chats.
LEMMA TextsOfChats ==
  ASSUME NEW s \in Seq(Chats)
  PROVE  \A b : b \in Texts(s) <=> \E i \in DOMAIN s : s[i].body = b
<1>1. \A i \in DOMAIN s : s[i] \in Chats
  OBVIOUS
<1> QED BY <1>1 DEF Texts

\* Appending a chat adds its text.
LEMMA TextsAppend ==
  ASSUME NEW s \in Seq(Chats), NEW m \in Chats
  PROVE  Texts(Append(s, m)) = Texts(s) \cup {m.body}
<1> DEFINE t == Append(s, m)
<1>1. /\ t \in Seq(Chats) /\ Len(s) \in Nat
      /\ DOMAIN s = 1..Len(s) /\ DOMAIN t = 1..(Len(s) + 1)
      /\ t[Len(s) + 1] = m /\ \A i \in 1..Len(s) : t[i] = s[i]
  OBVIOUS
<1> HIDE DEF t
<1>2. \A b : b \in Texts(t) <=> \E i \in DOMAIN t : t[i].body = b
  BY <1>1, TextsOfChats
<1>3. \A b : b \in Texts(s) <=> \E i \in DOMAIN s : s[i].body = b
  BY TextsOfChats
<1>4. \A b : b \in Texts(t) <=> b \in Texts(s) \/ b = m.body
  BY <1>1, <1>2, <1>3
<1> QED BY <1>4 DEF t

\* The only request of a queue, and what is behind it.
LEMMA OnlyRequest ==
  ASSUME NEW q \in Seq(Requests), q # << >>, Len(q) <= 1
  PROVE  q = <<Head(q)>> /\ Tail(q) = << >> /\ Head(q) \in Requests
<1>1. Len(q) = 1
  <2>1. Len(q) \in Nat \ {0}
    BY EmptySeq
  <2> QED BY <2>1
<1>2. Len(Tail(q)) = 0 /\ Tail(q) \in Seq(Requests)
  BY <1>1
<1>3. Head(q) = q[1] /\ q[1] \in Requests
  BY <1>1
<1>4. q = <<q[1]>>
  BY <1>1
<1>5. Tail(q) = << >>
  BY <1>2
<1> QED BY <1>3, <1>4, <1>5

\* Initially no text is used.
LEMMA InitTexts == Init => TextInv
<1> SUFFICES ASSUME Init PROVE TextInv
  OBVIOUS
<1>1. \A b : ~InInbox(b) /\ ~InHistory(b)
  BY TextsEmpty DEF Init, EmptyMap, InInbox, InHistory
<1>2. StoredTexts
  BY <1>1 DEF Init, EmptyMap, StoredTexts, Stored
<1>3. RequestTexts
  BY TextsEmpty DEF Init, RequestTexts
<1> QED BY <1>2, <1>3 DEF TextInv

\* Steps that leave the chats alone, and add no request.
LEMMA TextsLeft ==
  ASSUME TypeInv, TextInv, UNCHANGED <<inboxMap, msgDataMap, unsent, up>>,
         \A i \in DOMAIN backlog' :
           \/ backlog'[i].up = << >>
           \/ i \in DOMAIN backlog /\ backlog'[i].up = backlog[i].up
  PROVE  TextInv'
<1>1. StoredTexts' /\ \A b : Stored(b)' <=> Stored(b)
  BY DEF TextInv, StoredTexts, Stored, InInbox, InHistory
<1>2. Len(<< >>) = 0
  OBVIOUS
<1>3. RequestTexts
  BY DEF TextInv
<1>4. \A f \in Fds :
        /\ Len(up'[f]) <= 1
        /\ \A b \in Texts(up'[f]) : b \notin unsent /\ ~Stored(b)
  BY <1>3 DEF RequestTexts
<1>5. \A i \in DOMAIN backlog' :
        /\ Len(backlog'[i].up) <= 1
        /\ \A b \in Texts(backlog'[i].up) : b \notin unsent /\ ~Stored(b)
  BY <1>2, <1>3, TextsEmpty DEF RequestTexts
<1>6. \A f, g \in Fds : f # g => Texts(up'[f]) \cap Texts(up'[g]) = {}
  BY <1>3 DEF RequestTexts
<1>7. \A i, j \in DOMAIN backlog' :
        i # j => Texts(backlog'[i].up) \cap Texts(backlog'[j].up) = {}
  BY <1>3, TextsEmpty DEF RequestTexts
<1>8. \A f \in Fds, i \in DOMAIN backlog' :
        Texts(up'[f]) \cap Texts(backlog'[i].up) = {}
  BY <1>3, TextsEmpty DEF RequestTexts
<1> QED BY <1>1, <1>4, <1>5, <1>6, <1>7, <1>8 DEF TextInv, RequestTexts

\* accept() takes the requests of the connection with it.
LEMMA SelectTexts ==
  ASSUME TypeInv, TextInv, Select
  PROVE  TextInv'
<1>1. UNCHANGED <<inboxMap, msgDataMap, unsent>>
  BY DEF Select, mapVars
<1>2. StoredTexts' /\ \A b : Stored(b)' <=> Stored(b)
  BY <1>1 DEF TextInv, StoredTexts, Stored, InInbox, InHistory
<1>3. CASE UNCHANGED <<backlog, up>>
  BY <1>1, <1>3, TextsLeft
<1>4. CASE /\ backlog # << >> /\ backlog' = Tail(backlog)
           /\ \E fd \in Fds : up' = [up EXCEPT ![fd] = Head(backlog).up]
  <2>1. PICK fd \in Fds : up' = [up EXCEPT ![fd] = Head(backlog).up]
    BY <1>4
  <2>2. /\ up \in [Fds -> Seq(Requests)]
        /\ backlog \in Seq([peer : Endpoints \cup {Fin}, up : Seq(Requests)])
    BY DEF TypeInv, TypeOK
  <2>3. /\ up'[fd] = backlog[1].up /\ 1 \in DOMAIN backlog
        /\ \A f \in Fds : f # fd => up'[f] = up[f]
        /\ \A i \in DOMAIN backlog' :
             i + 1 \in DOMAIN backlog /\ backlog'[i] = backlog[i + 1]
             /\ i + 1 # 1
        /\ \A i, j \in DOMAIN backlog' : i # j => i + 1 # j + 1
    BY <1>4, <2>1, <2>2
  <2>4. RequestTexts
    BY DEF TextInv
  <2>5. \A f \in Fds :
          /\ Len(up'[f]) <= 1
          /\ \A b \in Texts(up'[f]) : b \notin unsent /\ ~Stored(b)
    BY <2>3, <2>4 DEF RequestTexts
  <2>6. \A i \in DOMAIN backlog' :
          /\ Len(backlog'[i].up) <= 1
          /\ \A b \in Texts(backlog'[i].up) : b \notin unsent /\ ~Stored(b)
    BY <2>3, <2>4 DEF RequestTexts
  <2>7. \A f, g \in Fds : f # g => Texts(up'[f]) \cap Texts(up'[g]) = {}
    BY <2>3, <2>4 DEF RequestTexts
  <2>8. \A i, j \in DOMAIN backlog' :
          i # j => Texts(backlog'[i].up) \cap Texts(backlog'[j].up) = {}
    <3>1. \A i, j \in DOMAIN backlog :
            i # j => Texts(backlog[i].up) \cap Texts(backlog[j].up) = {}
      BY <2>4 DEF RequestTexts
    <3> QED BY <2>3, <3>1
  <2>9. \A f \in Fds, i \in DOMAIN backlog' :
          Texts(up'[f]) \cap Texts(backlog'[i].up) = {}
    BY <2>3, <2>4 DEF RequestTexts
  <2> QED BY <1>1, <1>2, <2>5, <2>6, <2>7, <2>8, <2>9 DEF TextInv, RequestTexts
<1> QED BY <1>3, <1>4 DEF Select

\* The text a peer uses is nowhere yet.
LEMMA UsedText ==
  ASSUME TextInv, NEW r \in Requests, UseText(r)
  PROVE  /\ unsent' \subseteq unsent
         /\ \A b \in Texts(<<r>>) :
              /\ b \notin unsent' /\ ~Stored(b)
              /\ \A f \in Fds : b \notin Texts(up[f])
              /\ \A i \in DOMAIN backlog : b \notin Texts(backlog[i].up)
<1>1. unsent' \subseteq unsent
  BY DEF UseText
<1>2. ASSUME NEW b \in Texts(<<r>>) PROVE b \in unsent /\ b \notin unsent'
  <2>1. r \in Chats /\ b = r.body
    <3>1. CASE r \in Chats
      BY <3>1, TextsOne
    <3>2. CASE r \notin Chats
      <4>1. Texts(<<r>>) = {}
        BY <3>2, TextsOne
      <4> QED BY <4>1
    <3> QED BY <3>1, <3>2
  <2> QED BY <2>1, ChatRequest DEF UseText
<1> QED BY <1>1, <1>2 DEF TextInv, RequestTexts, StoredTexts

\* A peer sends on an accepted connection.
LEMMA SendTexts ==
  ASSUME TypeInv, TextInv, NEW fd \in Fds, NEW r \in Requests, PeerSend(fd, r)
  PROVE  TextInv'
<1>1. UNCHANGED <<inboxMap, msgDataMap, backlog>>
  BY DEF PeerSend, serverVars, mapVars
<1>2. UseText(r)
  BY DEF PeerSend
<1>3. /\ unsent' \subseteq unsent
      /\ \A b \in Texts(<<r>>) :
           /\ b \notin unsent' /\ ~Stored(b)
           /\ \A f \in Fds : b \notin Texts(up[f])
           /\ \A i \in DOMAIN backlog : b \notin Texts(backlog[i].up)
  BY <1>2, UsedText
<1>4. /\ Texts(up'[fd]) = Texts(<<r>>) /\ Len(up'[fd]) <= 1
      /\ \A f \in Fds : f # fd => up'[f] = up[f]
  <2>1. up' = [up EXCEPT ![fd] = <<r>>] /\ up \in [Fds -> Seq(Requests)]
    BY DEF PeerSend, TypeInv, TypeOK
  <2>2. up'[fd] = <<r>> /\ \A f \in Fds : f # fd => up'[f] = up[f]
    BY <2>1
  <2> QED BY <2>2
<1>5. StoredTexts' /\ \A b : Stored(b)' <=> Stored(b)
  BY <1>1, <1>3 DEF TextInv, StoredTexts, Stored, InInbox, InHistory
<1>6. RequestTexts'
  <2>1. RequestTexts
    BY DEF TextInv
  <2>2. \A f \in Fds :
          /\ Len(up'[f]) <= 1
          /\ \A b \in Texts(up'[f]) : b \notin unsent' /\ ~Stored(b)
    BY <1>3, <1>4, <2>1 DEF RequestTexts
  <2>3. \A f, g \in Fds : f # g => Texts(up'[f]) \cap Texts(up'[g]) = {}
    BY <1>3, <1>4, <2>1 DEF RequestTexts
  <2>4. \A f \in Fds, i \in DOMAIN backlog :
          Texts(up'[f]) \cap Texts(backlog[i].up) = {}
    BY <1>3, <1>4, <2>1 DEF RequestTexts
  <2>5. \A i \in DOMAIN backlog :
          /\ Len(backlog[i].up) <= 1
          /\ \A b \in Texts(backlog[i].up) : b \notin unsent' /\ ~Stored(b)
    BY <1>3, <2>1 DEF RequestTexts
  <2> QED BY <1>1, <1>5, <2>1, <2>2, <2>3, <2>4, <2>5 DEF RequestTexts
<1> QED BY <1>5, <1>6 DEF TextInv

\* A peer sends before its connection is accepted.
LEMMA SendEarlyTexts ==
  ASSUME TypeInv, TextInv, NEW k \in DOMAIN backlog, NEW r \in Requests,
         PeerSendEarly(k, r)
  PROVE  TextInv'
<1>1. UNCHANGED <<inboxMap, msgDataMap, up>>
  BY DEF PeerSendEarly, serverVars, mapVars
<1>2. UseText(r)
  BY DEF PeerSendEarly
<1>3. /\ unsent' \subseteq unsent
      /\ \A b \in Texts(<<r>>) :
           /\ b \notin unsent' /\ ~Stored(b)
           /\ \A f \in Fds : b \notin Texts(up[f])
           /\ \A i \in DOMAIN backlog : b \notin Texts(backlog[i].up)
  BY <1>2, UsedText
<1>4. /\ DOMAIN backlog' = DOMAIN backlog
      /\ Texts(backlog'[k].up) = Texts(<<r>>) /\ Len(backlog'[k].up) <= 1
      /\ \A i \in DOMAIN backlog : i # k => backlog'[i].up = backlog[i].up
  <2>1. backlog \in Seq([peer : Endpoints \cup {Fin}, up : Seq(Requests)])
    BY DEF TypeInv, TypeOK
  <2>2. backlog' = [backlog EXCEPT ![k].up = <<r>>]
    BY DEF PeerSendEarly
  <2>3. backlog[k] \in [peer : Endpoints \cup {Fin}, up : Seq(Requests)]
    <3> DEFINE Entry == [peer : Endpoints \cup {Fin}, up : Seq(Requests)]
    <3>1. backlog \in Seq(Entry)
      BY <2>1
    <3> HIDE DEF Entry
    <3>2. backlog[k] \in Entry
      BY <3>1
    <3> QED BY <3>2 DEF Entry
  <2>4. /\ DOMAIN backlog' = DOMAIN backlog
        /\ backlog'[k] = [backlog[k] EXCEPT !.up = <<r>>]
        /\ \A i \in DOMAIN backlog : i # k => backlog'[i] = backlog[i]
    BY <2>1, <2>2
  <2>5. backlog'[k].up = <<r>>
    BY <2>3, <2>4
  <2> QED BY <2>4, <2>5
<1>5. StoredTexts' /\ \A b : Stored(b)' <=> Stored(b)
  BY <1>1, <1>3 DEF TextInv, StoredTexts, Stored, InInbox, InHistory
<1>6. RequestTexts'
  <2>1. RequestTexts
    BY DEF TextInv
  <2>2. \A f \in Fds :
          /\ Len(up[f]) <= 1
          /\ \A b \in Texts(up[f]) : b \notin unsent' /\ ~Stored(b)
    BY <1>3, <2>1 DEF RequestTexts
  <2>3. \A i \in DOMAIN backlog :
          /\ Len(backlog'[i].up) <= 1
          /\ \A b \in Texts(backlog'[i].up) : b \notin unsent' /\ ~Stored(b)
    BY <1>3, <1>4, <2>1 DEF RequestTexts
  <2>4. \A i, j \in DOMAIN backlog :
          i # j => Texts(backlog'[i].up) \cap Texts(backlog'[j].up) = {}
    BY <1>3, <1>4, <2>1 DEF RequestTexts
  <2>5. \A f \in Fds, i \in DOMAIN backlog :
          Texts(up[f]) \cap Texts(backlog'[i].up) = {}
    BY <1>3, <1>4, <2>1 DEF RequestTexts
  <2> QED BY <1>1, <1>4, <1>5, <2>1, <2>2, <2>3, <2>4, <2>5 DEF RequestTexts
<1> QED BY <1>5, <1>6 DEF TextInv

\* What dispatch does to the inboxes: a new empty one, or the chat of the
\* request at the end of its receiver's.
LEMMA DispatchInbox ==
  ASSUME TypeInv, MailInv, NEW fd \in Fds, Dispatch(fd)
  PROVE  /\ UNCHANGED msgDataMap
         /\ \/ UNCHANGED inboxMap
            \/ \E u \in Users \ DOMAIN inboxMap :
                 inboxMap' = MapInsert(inboxMap, u, << >>)
            \/ LET r == Head(up[fd])
               IN  /\ r \in Chats /\ r.receiver \in DOMAIN inboxMap
                   /\ inboxMap' = [inboxMap EXCEPT ![r.receiver]
                                                     = Append(@, r)]
<1> DEFINE r == Head(up[fd])
<1>1. /\ r \in Requests /\ DOMAIN inboxMap = DOMAIN userInfoMap
      /\ \/ SignUpService(fd, r) \/ SignInService(fd, r)
         \/ SignOutService(fd, r) \/ BuildDataConnService(fd, r)
         \/ MsgService(fd, r) \/ UpdateService(fd, r)
  BY DispatchRead DEF Dispatch, MailInv, ReceiversHaveInbox
<1> HIDE DEF r
<1>2. CASE SignUpService(fd, r)
  <2>1. r.user \in Users
    BY <1>1, <1>2, RequestFields DEF SignUpService
  <2> QED BY <1>1, <1>2, <2>1 DEF SignUpService, CreateAccount
<1>3. CASE SignInService(fd, r)
  BY <1>3 DEF SignInService
<1>4. CASE SignOutService(fd, r)
  BY <1>4 DEF SignOutService, mapVars
<1>5. CASE BuildDataConnService(fd, r)
  BY <1>5 DEF BuildDataConnService
<1>6. CASE MsgService(fd, r)
  <2>1. r \in Chats
    BY <1>1, <1>6, RequestFields DEF MsgService
  <2> QED BY <1>1, <1>6, <2>1 DEF MsgService, Pushed, r
<1>7. CASE UpdateService(fd, r)
  BY <1>7 DEF UpdateService, mapVars
<1> QED BY <1>1, <1>2, <1>3, <1>4, <1>5, <1>6, <1>7

\* A new account's inbox holds no text.
LEMMA NewInboxTexts ==
  ASSUME TextInv, NEW u \in Users \ DOMAIN inboxMap,
         inboxMap' = MapInsert(inboxMap, u, << >>), UNCHANGED msgDataMap,
         unsent' = unsent
  PROVE  StoredTexts' /\ \A b : Stored(b)' <=> Stored(b)
<1>1. /\ DOMAIN inboxMap' = DOMAIN inboxMap \cup {u}
      /\ inboxMap'[u] = << >>
      /\ \A v \in DOMAIN inboxMap : inboxMap'[v] = inboxMap[v]
  BY DEF MapInsert
<1>2. \A b : InInbox(b)' <=> InInbox(b)
  BY <1>1, TextsEmpty DEF InInbox
<1>3. \A b : InHistory(b)' <=> InHistory(b)
  BY DEF InHistory
<1>4. \A i : i \notin DOMAIN << >>
  OBVIOUS
<1>5. StoredTexts
  BY DEF TextInv
<1>6. \A b : Stored(b)' => b \notin unsent'
  BY <1>2, <1>3, <1>5 DEF StoredTexts, Stored
<1>7. \A v, w \in DOMAIN inboxMap' :
        \A i \in DOMAIN inboxMap'[v], j \in DOMAIN inboxMap'[w] :
          inboxMap'[v][i].body = inboxMap'[w][j].body => v = w /\ i = j
  BY <1>1, <1>4, <1>5 DEF StoredTexts
<1>8. \A v \in DOMAIN inboxMap' : \A i \in DOMAIN inboxMap'[v] :
        inboxMap'[v][i].receiver = v /\ ~InHistory(inboxMap'[v][i].body)
  <2>1. \A v \in DOMAIN inboxMap : \A i \in DOMAIN inboxMap[v] :
          inboxMap[v][i].receiver = v /\ ~InHistory(inboxMap[v][i].body)
    BY <1>5 DEF StoredTexts
  <2> QED BY <1>1, <1>4, <2>1
<1>9. \A b : Stored(b)' <=> Stored(b)
  BY <1>2, <1>3 DEF Stored
<1> QED BY <1>6, <1>7, <1>8, <1>9 DEF StoredTexts, InHistory

\* An accepted chat's text is in its receiver's inbox and nowhere else.
LEMMA AcceptedTexts ==
  ASSUME TypeInv, TextInv, NEW r \in Chats, r.receiver \in DOMAIN inboxMap,
         inboxMap' = [inboxMap EXCEPT ![r.receiver] = Append(@, r)],
         UNCHANGED msgDataMap, unsent' = unsent,
         r.body \notin unsent, ~Stored(r.body)
  PROVE  StoredTexts' /\ \A b : Stored(b)' <=> Stored(b) \/ b = r.body
<1> DEFINE u == r.receiver
           old == inboxMap[u]
           new == Append(old, r)
<1>1. old \in Seq(Chats)
  BY DEF TypeInv, TypeOK, IsMap
<1>2. /\ new \in Seq(Chats) /\ Len(old) \in Nat
      /\ DOMAIN old = 1..Len(old) /\ DOMAIN new = 1..(Len(old) + 1)
      /\ new[Len(old) + 1] = r /\ \A i \in 1..Len(old) : new[i] = old[i]
  <2> HIDE DEF old
  <2> QED BY <1>1
<1>3. Texts(new) = Texts(old) \cup {r.body}
  <2> HIDE DEF old
  <2> QED BY <1>1, TextsAppend
<1>4. /\ DOMAIN inboxMap' = DOMAIN inboxMap
      /\ inboxMap'[u] = new
      /\ \A v \in DOMAIN inboxMap : v # u => inboxMap'[v] = inboxMap[v]
  BY DEF TypeInv, TypeOK, IsMap
<1> HIDE DEF new, old
<1>5. \A b : InInbox(b)' <=> InInbox(b) \/ b = r.body
  BY <1>3, <1>4 DEF InInbox, old
<1>6. \A b : InHistory(b)' <=> InHistory(b)
  BY DEF InHistory
<1>7. StoredTexts /\ ~InInbox(r.body) /\ ~InHistory(r.body)
  BY DEF TextInv, Stored
<1>8. \A b : Stored(b)' => b \notin unsent'
  BY <1>5, <1>6, <1>7 DEF StoredTexts, Stored
<1>9. \A v \in DOMAIN inboxMap : \A i \in DOMAIN inboxMap[v] :
        inboxMap[v][i].body # r.body
  <2>1. \A v \in DOMAIN inboxMap : inboxMap[v] \in Seq(Chats)
    BY DEF TypeInv, TypeOK, IsMap
  <2>2. \A v \in DOMAIN inboxMap : r.body \notin Texts(inboxMap[v])
    BY <1>7 DEF InInbox
  <2> QED BY <2>1, <2>2, TextsOfChats
<1>10. \A v \in DOMAIN inboxMap : \A i \in DOMAIN inboxMap'[v] :
         \/ i \in DOMAIN inboxMap[v] /\ inboxMap'[v][i] = inboxMap[v][i]
         \/ v = u /\ i = Len(old) + 1 /\ inboxMap'[v][i] = r
  BY <1>2, <1>4 DEF old
<1>11. \A v, w \in DOMAIN inboxMap' :
         \A i \in DOMAIN inboxMap'[v], j \in DOMAIN inboxMap'[w] :
           inboxMap'[v][i].body = inboxMap'[w][j].body => v = w /\ i = j
  BY <1>4, <1>7, <1>9, <1>10 DEF StoredTexts
<1>12. \A v \in DOMAIN inboxMap' : \A i \in DOMAIN inboxMap'[v] :
         inboxMap'[v][i].receiver = v /\ ~InHistory(inboxMap'[v][i].body)
  BY <1>4, <1>7, <1>10 DEF StoredTexts
<1>13. \A b : Stored(b)' <=> Stored(b) \/ b = r.body
  BY <1>5, <1>6 DEF Stored
<1> QED BY <1>8, <1>11, <1>12, <1>13 DEF StoredTexts, InHistory

\* Dispatch takes the request, and its text with it.
LEMMA DispatchTexts ==
  ASSUME TypeInv, MailInv, TextInv, NEW fd \in Fds, Dispatch(fd)
  PROVE  TextInv'
<1> DEFINE r == Head(up[fd])
<1>1. /\ up[fd] \in Seq(Requests) /\ up[fd] # << >> /\ Len(up[fd]) <= 1
      /\ UNCHANGED <<backlog, unsent>>
  BY DEF Dispatch, TypeInv, TypeOK, TextInv, RequestTexts
<1>2. up[fd] = <<r>> /\ Tail(up[fd]) = << >>
  BY <1>1, OnlyRequest
<1>3. /\ up'[fd] = << >> /\ \A f \in Fds : f # fd => up'[f] = up[f]
  BY <1>2 DEF Dispatch, TypeInv, TypeOK
<1>4. Texts(up[fd]) = IF r \in Chats THEN {r.body} ELSE {}
  BY <1>2, TextsOne
<1> HIDE DEF r
<1>5. UNCHANGED msgDataMap
  BY DispatchInbox
<1>6. StoredTexts' /\ \A b : Stored(b)' => Stored(b) \/ b \in Texts(up[fd])
  <2>1. CASE UNCHANGED inboxMap
    BY <1>1, <1>5, <2>1 DEF TextInv, StoredTexts, Stored, InInbox, InHistory
  <2>2. ASSUME NEW u \in Users \ DOMAIN inboxMap,
               inboxMap' = MapInsert(inboxMap, u, << >>)
        PROVE  StoredTexts' /\ \A b : Stored(b)' => Stored(b)
    BY <1>1, <1>5, <2>2, NewInboxTexts
  <2>3. CASE /\ r \in Chats /\ r.receiver \in DOMAIN inboxMap
             /\ inboxMap' = [inboxMap EXCEPT ![r.receiver] = Append(@, r)]
    <3>1. r.body \in Texts(up[fd])
      BY <1>4, <2>3
    <3>2. r.body \notin unsent /\ ~Stored(r.body)
      BY <3>1 DEF TextInv, RequestTexts
    <3> QED BY <1>1, <1>5, <2>3, <3>1, <3>2, AcceptedTexts
  <2> QED BY <2>1, <2>2, <2>3, DispatchInbox DEF r
<1>7. RequestTexts'
  <2>1. RequestTexts
    BY DEF TextInv
  <2>2. \A f \in Fds : /\ Len(up'[f]) <= 1
                       /\ Texts(up'[f]) = IF f = fd THEN {} ELSE Texts(up[f])
    <3>1. Len(<< >>) = 0
      OBVIOUS
    <3>2. \A f \in Fds : Len(up[f]) <= 1
      BY <2>1 DEF RequestTexts
    <3> QED BY <1>3, <3>1, <3>2, TextsEmpty
  <2>3. \A f \in Fds : \A b \in Texts(up'[f]) : b \notin unsent /\ ~Stored(b)'
    BY <1>6, <2>1, <2>2 DEF RequestTexts
  <2>4. \A i \in DOMAIN backlog :
          \A b \in Texts(backlog[i].up) : b \notin unsent /\ ~Stored(b)'
    BY <1>6, <2>1 DEF RequestTexts
  <2>5. \A f, g \in Fds : f # g => Texts(up'[f]) \cap Texts(up'[g]) = {}
    BY <2>1, <2>2 DEF RequestTexts
  <2>6. \A f \in Fds, i \in DOMAIN backlog :
          Texts(up'[f]) \cap Texts(backlog[i].up) = {}
    BY <2>1, <2>2 DEF RequestTexts
  <2> QED BY <1>1, <2>1, <2>2, <2>3, <2>4, <2>5, <2>6 DEF RequestTexts
<1> QED BY <1>6, <1>7 DEF TextInv

\* What is recorded: a chat is added to two histories.
LEMMA RecordedTexts ==
  ASSUME NEW h \in [Users -> Seq(Chats)], NEW m \in Chats
  PROVE  \A b : (\E u \in Users : b \in Texts(Recorded(h, m)[u]))
                  <=> (\E u \in Users : b \in Texts(h[u])) \/ b = m.body
<1> DEFINE added == [h EXCEPT ![m.sender] = Append(@, m)]
           new == Recorded(h, m)
<1>1. m.sender \in Users /\ m.receiver \in Users
  BY DEF Chats
<1>2. /\ added \in [Users -> Seq(Chats)]
      /\ new = [added EXCEPT ![m.receiver] = Append(@, m)]
  BY <1>1 DEF Recorded
<1>3. \A u \in Users :
        /\ h[u] \in Seq(Chats) /\ added[u] \in Seq(Chats)
        /\ added[u] = IF u = m.sender THEN Append(h[u], m) ELSE h[u]
        /\ new[u] = IF u = m.receiver THEN Append(added[u], m) ELSE added[u]
  BY <1>1, <1>2
<1> HIDE DEF added, new
<1>4. \A u \in Users :
        Texts(added[u]) = Texts(h[u])
                          \cup (IF u = m.sender THEN {m.body} ELSE {})
  <2>1. \A u \in Users : Texts(Append(h[u], m)) = Texts(h[u]) \cup {m.body}
    BY <1>3, TextsAppend
  <2> QED BY <1>3, <2>1
<1>5. \A u \in Users :
        Texts(new[u]) = Texts(added[u])
                        \cup (IF u = m.receiver THEN {m.body} ELSE {})
  <2>1. \A u \in Users :
          Texts(Append(added[u], m)) = Texts(added[u]) \cup {m.body}
    BY <1>3, TextsAppend
  <2> QED BY <1>3, <2>1
<1>6. \A u \in Users : \A b :
        b \in Texts(new[u])
          <=> b \in Texts(h[u]) \/ (b = m.body /\ u \in {m.sender, m.receiver})
  BY <1>4, <1>5
<1>7. \A b : (\E u \in Users : b \in Texts(new[u]))
               <=> (\E u \in Users : b \in Texts(h[u])) \/ b = m.body
  BY <1>1, <1>6
<1> QED BY <1>7 DEF new

\* The chat that is forwarded, and what it leaves in the inbox.
LEMMA ForwardedChat ==
  ASSUME TypeInv, TextInv, NEW w \in Users, ForwardMessage(w)
  PROVE  LET m == Head(inboxMap[w])
         IN  /\ w \in DOMAIN inboxMap /\ inboxMap[w] \in Seq(Chats)
             /\ inboxMap[w] # << >>
             /\ m \in Chats /\ m.receiver = w /\ ~InHistory(m.body)
             /\ m = inboxMap[w][1] /\ 1 \in DOMAIN inboxMap[w]
             /\ inboxMap' = [inboxMap EXCEPT ![w] = Tail(@)]
             /\ msgDataMap' = Recorded(msgDataMap, m)
             /\ UNCHANGED <<up, backlog, unsent>>
<1>1. w \in DOMAIN inboxMap /\ inboxMap[w] \in Seq(Chats) /\ inboxMap[w] # << >>
  BY DEF ForwardMessage, At, HasWork, TypeInv, TypeOK, IsMap
<1>2. /\ Head(inboxMap[w]) \in Chats /\ 1 \in DOMAIN inboxMap[w]
      /\ Head(inboxMap[w]) = inboxMap[w][1]
  BY <1>1
<1> QED BY <1>1, <1>2
        DEF TextInv, StoredTexts, ForwardMessage, Popped

\* Forwarding moves a text from an inbox to the histories.
LEMMA ForwardTexts ==
  ASSUME TypeInv, TextInv, NEW w \in Users, ForwardMessage(w)
  PROVE  TextInv'
<1> DEFINE m == Head(inboxMap[w])
           old == inboxMap[w]
<1>1. /\ w \in DOMAIN inboxMap /\ old \in Seq(Chats) /\ old # << >>
      /\ m \in Chats /\ ~InHistory(m.body)
      /\ m = old[1] /\ 1 \in DOMAIN old
      /\ inboxMap' = [inboxMap EXCEPT ![w] = Tail(@)]
      /\ msgDataMap' = Recorded(msgDataMap, m)
      /\ UNCHANGED <<up, backlog, unsent>>
  BY ForwardedChat
<1>2. /\ DOMAIN inboxMap' = DOMAIN inboxMap
      /\ inboxMap'[w] = Tail(old)
      /\ \A v \in DOMAIN inboxMap : v # w => inboxMap'[v] = inboxMap[v]
  BY <1>1
<1> HIDE DEF m
<1>3. /\ Tail(old) \in Seq(Chats)
      /\ \A i \in DOMAIN Tail(old) :
           i + 1 \in DOMAIN old /\ i + 1 # 1 /\ Tail(old)[i] = old[i + 1]
      /\ \A i \in DOMAIN old : i # 1 =>
           i - 1 \in DOMAIN Tail(old) /\ Tail(old)[i - 1] = old[i]
  <2> HIDE DEF old
  <2> QED BY <1>1
<1>4. StoredTexts /\ RequestTexts
  BY DEF TextInv
<1>5. \A b : InHistory(b)' <=> InHistory(b) \/ b = m.body
  <2>1. msgDataMap \in [Users -> Seq(Chats)]
    BY DEF TypeInv, TypeOK
  <2>2. \A b : (\E u \in Users : b \in Texts(Recorded(msgDataMap, m)[u]))
                 <=> (\E u \in Users : b \in Texts(msgDataMap[u]))
                       \/ b = m.body
    BY <1>1, <2>1, RecordedTexts
  <2> QED BY <1>1, <2>2 DEF InHistory
<1>6. \A b : b \in Texts(old) <=> b \in Texts(Tail(old)) \/ b = m.body
  <2> HIDE DEF old
  <2>1. \A b : b \in Texts(old) <=> \E i \in DOMAIN old : old[i].body = b
    BY <1>1, TextsOfChats
  <2>2. \A b : b \in Texts(Tail(old))
                 <=> \E i \in DOMAIN Tail(old) : Tail(old)[i].body = b
    BY <1>3, TextsOfChats
  <2> QED BY <1>1, <1>3, <2>1, <2>2
<1>7. \A b : InInbox(b) <=> InInbox(b)' \/ b = m.body
  BY <1>1, <1>2, <1>6 DEF InInbox
<1>8. \A b : Stored(b)' <=> Stored(b)
  BY <1>5, <1>7 DEF Stored
<1>9. \A v \in DOMAIN inboxMap : \A i \in DOMAIN inboxMap'[v] :
        LET k == IF v = w THEN i + 1 ELSE i
        IN  /\ k \in DOMAIN inboxMap[v] /\ inboxMap'[v][i] = inboxMap[v][k]
            /\ inboxMap[v][k].body # m.body
  <2>1. ASSUME NEW v \in DOMAIN inboxMap, NEW i \in DOMAIN inboxMap'[v]
        PROVE  LET k == IF v = w THEN i + 1 ELSE i
               IN  /\ k \in DOMAIN inboxMap[v]
                   /\ inboxMap'[v][i] = inboxMap[v][k]
                   /\ v = w => k # 1
    BY <1>2, <1>3
  <2>2. \A v \in DOMAIN inboxMap : \A k \in DOMAIN inboxMap[v] :
          inboxMap[v][k].body = m.body => v = w /\ k = 1
    BY <1>1, <1>4 DEF StoredTexts
  <2> QED BY <2>1, <2>2
<1>10. \A b : Stored(b)' => b \notin unsent'
  BY <1>1, <1>4, <1>8 DEF StoredTexts
<1>11. ASSUME NEW u \in DOMAIN inboxMap, NEW v \in DOMAIN inboxMap,
              NEW i \in DOMAIN inboxMap'[u], NEW j \in DOMAIN inboxMap'[v],
              inboxMap'[u][i].body = inboxMap'[v][j].body
       PROVE  u = v /\ i = j
  <2> DEFINE k == IF u = w THEN i + 1 ELSE i
             n == IF v = w THEN j + 1 ELSE j
  <2>1. /\ k \in DOMAIN inboxMap[u] /\ n \in DOMAIN inboxMap[v]
        /\ inboxMap[u][k].body = inboxMap[v][n].body
    BY <1>9, <1>11
  <2>2. u = v /\ k = n
    BY <1>4, <2>1 DEF StoredTexts
  <2>3. i \in Nat /\ j \in Nat
    <3>1. inboxMap[u] \in Seq(Chats) /\ inboxMap[v] \in Seq(Chats)
      BY DEF TypeInv, TypeOK, IsMap
    <3>2. inboxMap'[u] \in Seq(Chats) /\ inboxMap'[v] \in Seq(Chats)
      BY <1>2, <1>3, <3>1
    <3> QED BY <3>2
  <2> QED BY <2>2, <2>3
<1>12. \A v \in DOMAIN inboxMap : \A i \in DOMAIN inboxMap'[v] :
         inboxMap'[v][i].receiver = v
         /\ \A b : b = inboxMap'[v][i].body => ~InHistory(b)'
  BY <1>4, <1>5, <1>9 DEF StoredTexts
<1>13. StoredTexts'
  BY <1>2, <1>10, <1>11, <1>12 DEF StoredTexts, InHistory
<1>14. RequestTexts'
  BY <1>1, <1>4, <1>8 DEF RequestTexts
<1> QED BY <1>13, <1>14 DEF TextInv

\* Every step keeps TextInv.
LEMMA NextTexts ==
  TypeInv /\ MailInv /\ TextInv /\ [Next]_vars => TextInv'
<1> SUFFICES ASSUME TypeInv, MailInv, TextInv, [Next]_vars
             PROVE  TextInv'
  OBVIOUS
<1> DEFINE Entry == [peer : Endpoints \cup {Fin}, up : Seq(Requests)]
<1>0. backlog \in Seq(Entry)
  BY DEF TypeInv, TypeOK
<1>1. CASE Select
  BY <1>1, SelectTexts
<1>2. CASE UpdateAck
  BY <1>2, TextsLeft DEF UpdateAck, mapVars
<1>3. ASSUME NEW fd \in Fds, Dispatch(fd) PROVE TextInv'
  BY <1>3, DispatchTexts
<1>4. ASSUME NEW fd \in Fds, HostDisconnected(fd) \/ ReadError(fd)
      PROVE  TextInv'
  BY <1>4, TextsLeft DEF HostDisconnected, ReadError, mapVars
<1>5. ASSUME NEW u \in Users, ForwardMessage(u) PROVE TextInv'
  BY <1>5, ForwardTexts
<1>13. ASSUME NEW u \in Users, NextInbox(u) PROVE TextInv'
  BY <1>13, TextsLeft DEF NextInbox, mapVars, sockVars
<1>6. ASSUME NEW e \in Endpoints, PeerConnect(e) PROVE TextInv'
  <2>1. /\ UNCHANGED <<inboxMap, msgDataMap, unsent, up>>
        /\ backlog' = Append(backlog, [peer |-> e, up |-> << >>])
    BY <1>6 DEF PeerConnect, serverVars, mapVars
  <2> DEFINE last == [peer |-> e, up |-> << >>]
  <2>2. last.up = << >>
    OBVIOUS
  <2> HIDE DEF last, Entry
  <2>3. \A i \in DOMAIN Append(backlog, last) :
          \/ Append(backlog, last)[i] = last
          \/ i \in DOMAIN backlog /\ Append(backlog, last)[i] = backlog[i]
    BY <1>0
  <2> QED BY <2>1, <2>2, <2>3, TextsLeft DEF last
<1>7. ASSUME NEW fd \in Fds, NEW r \in Offered, PeerSend(fd, r)
      PROVE  TextInv'
  BY <1>7, OfferedAssumption, SendTexts
<1>8. ASSUME NEW i \in DOMAIN backlog, NEW r \in Offered, PeerSendEarly(i, r)
      PROVE  TextInv'
  BY <1>8, OfferedAssumption, SendEarlyTexts
<1>9. ASSUME NEW fd \in Fds, NEW n \in 1..SockBuf, PeerRecv(fd, n)
      PROVE  TextInv'
  BY <1>9, TextsLeft DEF PeerRecv, serverVars, mapVars
<1>10. ASSUME NEW fd \in Fds, PeerClose(fd) PROVE TextInv'
  BY <1>10, TextsLeft DEF PeerClose, serverVars, mapVars
<1>11. ASSUME NEW k \in DOMAIN backlog, PeerCloseEarly(k) PROVE TextInv'
  <2>1. /\ UNCHANGED <<inboxMap, msgDataMap, unsent, up>>
        /\ backlog' = [backlog EXCEPT ![k].peer = Fin]
    BY <1>11 DEF PeerCloseEarly, serverVars, mapVars
  <2>2. backlog[k] \in Entry
    <3> HIDE DEF Entry
    <3> QED BY <1>0
  <2>3. \A i \in DOMAIN backlog' :
          i \in DOMAIN backlog /\ backlog'[i].up = backlog[i].up
    BY <2>1, <2>2
  <2> QED BY <2>1, <2>3, TextsLeft
<1>12. CASE UNCHANGED vars
  BY <1>12, TextsLeft DEF vars, mapVars, sockVars
<1> QED BY <1>1, <1>2, <1>3, <1>4, <1>5, <1>6, <1>7, <1>8, <1>9, <1>10, <1>11,
           <1>12, <1>13 DEF Next, ServerNext, PeerNext

-----------------------------------------------------------------------------
(* The inboxes and the histories implement Mailbox.                        *)

ReceivedPlaces(h, u) ==
  {i \in DOMAIN h : h[i].receiver = u /\ (i > 1 => h[i - 1] # h[i])}
PickedReceived(h, u) == Picked(h, ReceivedPlaces(h, u))

\* What appending to a history does to the chats its owner received.
LEMMA ReceivedAppend ==
  ASSUME NEW h \in Seq(Chats), NEW m \in Chats, NEW u
  PROVE  PickedReceived(Append(h, m), u) =
           IF m.receiver = u /\ (Len(h) > 0 => h[Len(h)] # m)
             THEN Append(PickedReceived(h, u), m)
             ELSE PickedReceived(h, u)
<1> DEFINE new == Append(h, m)
           n == Len(h) + 1
           S == ReceivedPlaces(h, u)
<1>1. /\ new \in Seq(Chats) /\ Len(h) \in Nat /\ DOMAIN h = 1..Len(h)
      /\ DOMAIN new = 1..n /\ new[n] = m /\ \A i \in 1..Len(h) : new[i] = h[i]
  OBVIOUS
<1>2. S \in SUBSET DOMAIN h /\ S \in SUBSET DOMAIN new
  BY <1>1 DEF ReceivedPlaces
<1>3. ReceivedPlaces(new, u) =
        IF m.receiver = u /\ (Len(h) > 0 => h[Len(h)] # m)
          THEN S \cup {n} ELSE S
  <2> HIDE DEF new
  <2>1. \A i \in 1..Len(h) : i > 1 => new[i - 1] = h[i - 1]
    BY <1>1
  <2>2. n > 1 <=> Len(h) > 0
    BY <1>1
  <2>3. n > 1 => new[n - 1] = h[Len(h)]
    BY <1>1
  <2>4. \A i \in 1..Len(h) : i \in ReceivedPlaces(new, u) <=> i \in S
    <3>1. \A i \in 1..Len(h) : i \in DOMAIN h /\ i \in DOMAIN new
      BY <1>1
    <3> QED BY <1>1, <2>1, <3>1 DEF ReceivedPlaces
  <2>5. n \in ReceivedPlaces(new, u)
          <=> m.receiver = u /\ (Len(h) > 0 => h[Len(h)] # m)
    BY <1>1, <2>2, <2>3 DEF ReceivedPlaces
  <2>6. /\ ReceivedPlaces(new, u) \subseteq 1..n /\ S \subseteq 1..Len(h)
        /\ 1..n = 1..Len(h) \cup {n}
    BY <1>1 DEF ReceivedPlaces
  <2>7. \A i : i \in ReceivedPlaces(new, u)
                 <=> \/ i \in S
                     \/ /\ i = n /\ m.receiver = u
                        /\ Len(h) > 0 => h[Len(h)] # m
    <3> HIDE DEF S
    <3> QED BY <1>1, <2>4, <2>5, <2>6
  <2> HIDE DEF S, n
  <2> QED BY <2>7
<1>4. \A i \in S : i < n
  BY <1>1 DEF ReceivedPlaces
<1> HIDE DEF new, S
<1>5. Picked(new, S) = Picked(h, S)
  BY <1>1, <1>2, PickedSame
<1>6. Picked(new, S \cup {n}) = Append(Picked(new, S), m)
  <2>1. n \in DOMAIN new
    BY <1>1
  <2> HIDE DEF n
  <2> QED BY <1>1, <1>2, <1>4, <2>1, PickedLast
<1> QED BY <1>3, <1>5, <1>6 DEF PickedReceived, new, S

\* Recording a new chat delivers it to its receiver, once.
LEMMA RecordedReceived ==
  ASSUME NEW h \in [Users -> Seq(Chats)], NEW m \in Chats, NEW u \in Users,
         \A i \in DOMAIN h[u] : h[u][i] # m
  PROVE  PickedReceived(Recorded(h, m)[u], u) =
           IF u = m.receiver THEN Append(PickedReceived(h[u], u), m)
                             ELSE PickedReceived(h[u], u)
<1> DEFINE added == [h EXCEPT ![m.sender] = Append(@, m)]
           old == h[u]
<1>1. m.sender \in Users /\ m.receiver \in Users
  BY DEF Chats
<1>2. /\ old \in Seq(Chats) /\ added[u] \in Seq(Chats)
      /\ added[u] = IF u = m.sender THEN Append(old, m) ELSE old
      /\ Recorded(h, m)[u] = IF u = m.receiver THEN Append(added[u], m)
                                               ELSE added[u]
  <2>1. /\ added \in [Users -> Seq(Chats)]
        /\ Recorded(h, m) = [added EXCEPT ![m.receiver] = Append(@, m)]
    BY <1>1 DEF Recorded
  <2> QED BY <1>1, <2>1
<1>3. \A i \in DOMAIN old : old[i] # m
  OBVIOUS
<1> HIDE DEF added, old
<1>4. Len(old) > 0 => old[Len(old)] # m
  BY <1>2, <1>3
<1>5. CASE u # m.receiver
  <2>1. PickedReceived(added[u], u) = PickedReceived(old, u)
    BY <1>2, <1>5, ReceivedAppend
  <2> QED BY <1>2, <1>5, <2>1 DEF old
<1>6. CASE u = m.receiver /\ u # m.sender
  <2>1. PickedReceived(Append(old, m), u) = Append(PickedReceived(old, u), m)
    BY <1>2, <1>4, <1>6, ReceivedAppend
  <2> QED BY <1>2, <1>6, <2>1 DEF old
<1>7. CASE u = m.receiver /\ u = m.sender
  <2> DEFINE once == Append(old, m)
  <2>1. PickedReceived(once, u) = Append(PickedReceived(old, u), m)
    <3>1. old \in Seq(Chats) /\ m.receiver = u
      BY <1>2, <1>7
    <3> QED BY <1>4, <3>1, ReceivedAppend
  <2>2. /\ once \in Seq(Chats) /\ Len(once) > 0 /\ once[Len(once)] = m
    <3>1. once \in Seq(Chats) /\ Len(once) = Len(old) + 1 /\ Len(old) \in Nat
      BY <1>2
    <3>2. once[Len(old) + 1] = m
      BY <1>2, <3>1
    <3> QED BY <3>1, <3>2
  <2> HIDE DEF once
  <2>3. PickedReceived(Append(once, m), u) = PickedReceived(once, u)
    BY <2>2, ReceivedAppend
  <2> QED BY <1>2, <1>7, <2>1, <2>3 DEF once, old
<1> QED BY <1>5, <1>6, <1>7

\* The two sides of the refinement mapping.
waitingMB == [u \in Users |-> WaitingFor(u)]
deliveredMB == [u \in Users |-> DeliveredTo(u)]

\* The mapping in terms of the histories.
LEMMA ReceivedUnfolded ==
  /\ \A u : DeliveredTo(u) = PickedReceived(msgDataMap[u], u)
  /\ \A u : DeliveredTo(u)' = PickedReceived(msgDataMap'[u], u)
  BY DEF DeliveredTo, ReceivedAt, PickedReceived, ReceivedPlaces

\* What a user received is in a history.
LEMMA ReceivedInHistory ==
  ASSUME TypeInv, NEW u \in Users, NEW i \in DOMAIN DeliveredTo(u)
  PROVE  InHistory(DeliveredTo(u)[i].body)
<1> DEFINE h == msgDataMap[u]
           S == ReceivedPlaces(h, u)
<1>1. h \in Seq(Chats)
  BY DEF TypeInv, TypeOK
<1>2. S \in SUBSET DOMAIN h /\ DeliveredTo(u) = Picked(h, S)
  BY ReceivedUnfolded DEF PickedReceived, ReceivedPlaces
<1> HIDE DEF h, S
<1>3. i \in 1..Cardinality(S)
  BY <1>1, <1>2, PickedType
<1>4. PICK j \in S : DeliveredTo(u)[i] = h[j]
  BY <1>1, <1>2, <1>3, PickedAt
<1>5. h[j].body \in Texts(h)
  BY <1>1, <1>2, <1>4, TextsOfChats
<1> QED BY <1>4, <1>5 DEF InHistory, h

\* Initially nothing waits and nothing is delivered.
LEMMA InitMailbox == Init => MB!MailboxInit
<1> SUFFICES ASSUME Init PROVE MB!MailboxInit
  OBVIOUS
<1>1. ASSUME NEW u \in Users
      PROVE  WaitingFor(u) = << >> /\ DeliveredTo(u) = << >>
  <2>1. WaitingFor(u) = << >>
    BY DEF Init, EmptyMap, WaitingFor
  <2>2. ReceivedAt(u) = {}
    BY DEF Init, ReceivedAt
  <2>3. Cardinality({}) = 0
    BY FS_EmptySet
  <2>4. DeliveredTo(u) = << >>
    BY <2>2, <2>3 DEF DeliveredTo, Picked
  <2> QED BY <2>1, <2>4
<1> QED BY <1>1 DEF MB!MailboxInit

\* Steps that do not touch inboxes with mail, nor histories.
LEMMA MailboxLeft ==
  ASSUME UNCHANGED msgDataMap, \A u \in Users : WaitingFor(u)' = WaitingFor(u)
  PROVE  UNCHANGED <<waitingMB, deliveredMB>>
<1>1. \A u \in Users : DeliveredTo(u)' = DeliveredTo(u)
  BY ReceivedUnfolded
<1> QED BY <1>1 DEF waitingMB, deliveredMB

\* A request to the services posts the chat it carries, or nothing.
LEMMA DispatchMailbox ==
  ASSUME TypeInv, MailInv, TextInv, NEW fd \in Fds, Dispatch(fd)
  PROVE  \/ \E l \in Chats : MB!Post(l)
         \/ UNCHANGED <<waitingMB, deliveredMB>>
<1> DEFINE r == Head(up[fd])
<1>1. UNCHANGED msgDataMap
  BY DispatchInbox
<1>2. CASE UNCHANGED inboxMap
  BY <1>1, <1>2, MailboxLeft DEF WaitingFor
<1>3. ASSUME NEW u \in Users \ DOMAIN inboxMap,
             inboxMap' = MapInsert(inboxMap, u, << >>)
      PROVE  UNCHANGED <<waitingMB, deliveredMB>>
  BY <1>1, <1>3, MailboxLeft DEF WaitingFor, MapInsert
<1>4. CASE /\ r \in Chats /\ r.receiver \in DOMAIN inboxMap
           /\ inboxMap' = [inboxMap EXCEPT ![r.receiver] = Append(@, r)]
  <2>1. r.body \in Texts(up[fd])
    <3>1. /\ up[fd] \in Seq(Requests) /\ up[fd] # << >> /\ Len(up[fd]) <= 1
      BY DEF Dispatch, TypeInv, TypeOK, TextInv, RequestTexts
    <3>2. up[fd] = <<r>>
      BY <3>1, OnlyRequest
    <3>3. Texts(<<r>>) = {r.body}
      BY <1>4, TextsOne
    <3> QED BY <3>2, <3>3
  <2> HIDE DEF r
  <2> DEFINE u == r.receiver
  <2>2. ~Stored(r.body) /\ u \in Users
    BY <1>4, <2>1 DEF TextInv, RequestTexts, Chats
  <2>3. r \notin MB!Contents(waitingMB[u])
    <3>1. waitingMB[u] = inboxMap[u] /\ inboxMap[u] \in Seq(Chats)
      BY <1>4, <2>2 DEF waitingMB, WaitingFor, TypeInv, TypeOK, IsMap
    <3>2. \A i \in DOMAIN inboxMap[u] : inboxMap[u][i].body # r.body
      BY <1>4, <2>2, <3>1, TextsOfChats DEF Stored, InInbox
    <3> QED BY <3>1, <3>2 DEF MB!Contents
  <2>4. r \notin MB!Contents(deliveredMB[u])
    <3>1. deliveredMB[u] = DeliveredTo(u)
      BY <2>2 DEF deliveredMB
    <3>2. \A i \in DOMAIN DeliveredTo(u) : DeliveredTo(u)[i].body # r.body
      BY <2>2, ReceivedInHistory DEF Stored
    <3> QED BY <3>1, <3>2 DEF MB!Contents
  <2>5. waitingMB' = [waitingMB EXCEPT ![u] = Append(@, r)]
    <3>1. \A v \in Users :
            WaitingFor(v)' = IF v = u THEN Append(WaitingFor(v), r)
                                       ELSE WaitingFor(v)
      BY <1>4 DEF WaitingFor, TypeInv, TypeOK, IsMap
    <3> QED BY <2>2, <3>1 DEF waitingMB
  <2>6. UNCHANGED deliveredMB
    <3>1. \A v \in Users : DeliveredTo(v)' = DeliveredTo(v)
      BY <1>1, ReceivedUnfolded
    <3> QED BY <3>1 DEF deliveredMB
  <2>7. MB!Post(r)
    BY <2>3, <2>4, <2>5, <2>6 DEF MB!Post, waitingMB, deliveredMB
  <2> QED BY <1>4, <2>7
<1> QED BY <1>2, <1>3, <1>4, DispatchInbox

\* Forwarding delivers the oldest chat of an inbox.
LEMMA ForwardMailbox ==
  ASSUME TypeInv, TextInv, NEW w \in Users, ForwardMessage(w)
  PROVE  MB!Deliver(w)
<1> DEFINE m == Head(inboxMap[w])
<1>1. /\ w \in DOMAIN inboxMap /\ inboxMap[w] # << >>
      /\ m \in Chats /\ m.receiver = w /\ ~InHistory(m.body)
      /\ inboxMap' = [inboxMap EXCEPT ![w] = Tail(@)]
      /\ msgDataMap' = Recorded(msgDataMap, m)
  BY ForwardedChat
<1>2. m = Head(waitingMB[w]) /\ waitingMB[w] # << >>
  BY <1>1 DEF waitingMB, WaitingFor
<1> HIDE DEF m
<1>3. waitingMB' = [waitingMB EXCEPT ![w] = Tail(@)]
  <2>1. \A v \in Users :
          WaitingFor(v)' = IF v = w THEN Tail(WaitingFor(v)) ELSE WaitingFor(v)
    BY <1>1 DEF WaitingFor
  <2> QED BY <2>1 DEF waitingMB
<1>4. msgDataMap \in [Users -> Seq(Chats)]
  BY DEF TypeInv, TypeOK
<1>5. \A v \in Users : \A i \in DOMAIN msgDataMap[v] : msgDataMap[v][i] # m
  <2>1. \A v \in Users : m.body \notin Texts(msgDataMap[v])
    BY <1>1 DEF InHistory
  <2>2. \A v \in Users : msgDataMap[v] \in Seq(Chats)
    BY <1>4
  <2> QED BY <2>1, <2>2, TextsOfChats
<1>6. \A v \in Users :
        DeliveredTo(v)' = IF v = w THEN Append(DeliveredTo(v), m)
                                   ELSE DeliveredTo(v)
  <2>1. ASSUME NEW v \in Users
        PROVE  PickedReceived(Recorded(msgDataMap, m)[v], v) =
                 IF v = w THEN Append(PickedReceived(msgDataMap[v], v), m)
                          ELSE PickedReceived(msgDataMap[v], v)
    BY <1>1, <1>4, <1>5, RecordedReceived
  <2> QED BY <1>1, <2>1, ReceivedUnfolded
<1>7. deliveredMB' = [deliveredMB EXCEPT ![w] = Append(@, m)]
  BY <1>6 DEF deliveredMB
<1> QED BY <1>2, <1>3, <1>7 DEF MB!Deliver, waitingMB, deliveredMB

\* Every step of the server or its peers is one of Mailbox, or none.
LEMMA NextMailbox ==
  ASSUME TypeInv, MailInv, TextInv, [Next]_vars
  PROVE  [MB!MailboxNext]_<<waitingMB, deliveredMB>>
<1>1. ASSUME NEW fd \in Fds, Dispatch(fd)
      PROVE  [MB!MailboxNext]_<<waitingMB, deliveredMB>>
  BY <1>1, DispatchMailbox DEF MB!MailboxNext
<1>2. ASSUME NEW u \in Users, ForwardMessage(u)
      PROVE  [MB!MailboxNext]_<<waitingMB, deliveredMB>>
  BY <1>2, ForwardMailbox DEF MB!MailboxNext
<1>3. CASE UNCHANGED <<inboxMap, msgDataMap>>
  BY <1>3, MailboxLeft DEF WaitingFor
<1>4. CASE Select \/ UpdateAck \/ \E u \in Users : NextInbox(u)
  BY <1>3, <1>4 DEF Select, UpdateAck, NextInbox, mapVars
<1>5. ASSUME NEW fd \in Fds, HostDisconnected(fd) \/ ReadError(fd)
      PROVE  [MB!MailboxNext]_<<waitingMB, deliveredMB>>
  BY <1>3, <1>5 DEF HostDisconnected, ReadError, mapVars
<1>6. CASE PeerNext
  BY <1>3, <1>6 DEF PeerNext, PeerConnect, PeerSend, PeerSendEarly, PeerRecv,
                    PeerClose, PeerCloseEarly, serverVars, mapVars
<1>7. CASE UNCHANGED vars
  BY <1>3, <1>7 DEF vars, mapVars
<1> QED BY <1>1, <1>2, <1>4, <1>5, <1>6, <1>7 DEF Next, ServerNext

\* Whatever connections come and go, an accepted chat waits in the inbox of
\* its receiver and reaches the receiver's history once, in the order chats
\* were accepted.
THEOREM ServerImplementsMailbox == Spec => ImplementsMailbox
<1> DEFINE Inv == TypeInv /\ MailInv /\ TextInv
<1>1. Init => Inv /\ MB!MailboxInit
  BY InitType, InitMail, InitTexts, InitMailbox
<1>2. Inv /\ [Next]_vars => Inv'
  BY NextType, NextMail, NextTexts
<1>3. Inv /\ [Next]_vars => [MB!MailboxNext]_<<waitingMB, deliveredMB>>
  BY NextMailbox
<1> QED BY <1>1, <1>2, <1>3, PTL
        DEF Spec, ImplementsMailbox, MB!MailboxSpec, waitingMB, deliveredMB
=============================================================================
