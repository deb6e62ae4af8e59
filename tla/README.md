# A verification project for cnMessage

TLA+ modules for the chat system under `src/`: a single-threaded server, and a
terminal client with a control connection and a data connection to it. Every
module is translated from the C++ source; `PROJECT.json` names the lines behind
each definition. The modules are checked by TLC on small instances. For every
instance TLAPS proves the server's invariants and its refinement of an abstract
mailbox, what the clients keep and read while they are composed with it, the
editor's history, connecting and the keyboard.

## 1. The system

### 1.1 Components

| Component | Source | State | Operations | Module |
|---|---|---|---|---|
| Message classes | `message/message.hpp` | none | constructors, `packData` | `Message` |
| Server loop | `server/server.cpp` | the descriptor sets of `select`, the maps | `serverListen`, `dispatch`, `removeConnection`, `forwardMessage`, `addToMsgDataMap` | `Server` |
| Services | `server/service.cpp` | `_userInfoMap`, `_connectionMap`, `_dataConnMap`, `_inboxMap`, `_msgDataMap` | sign-up, sign-in, sign-out, chat, data connection, update | `Server` |
| Framing | `socket/socketCommon.cpp`, `socket/socketClient.cpp` | what the kernel holds of each connection | `completeRead`, `completeSend`, `sendMessage`, `sendAndWaitAck`, `sendAndWaitAckStatus` | `Server`, `Client` |
| Client commands | `client/cmd.cpp` | `_clientState`, `_userName`, `_personTalking` | signUp, signIn, signOut, send, update, read | `Client` |
| Record of messages | `client/cmd.cpp` | `_messageRecord`, `_msgRecordMap` | `update`, `read` | `Client` |
| Client loop | `client/client.cpp`, `client/client.hpp` | `_readFdSet`, `_dataConnSocketFd`, `_messageRecord` | `run`, `buildDataConn`, `closeDataConn` | `Client` |
| Line editor | `client/client.cpp` | `_readBuf`, `_readBufPtr`, `_readBufEnd`, `_history`, `_historyIdx`, `_tempCmdStored`, the terminal | one per key | `LineEditor` |
| Command tokens | `client/client.cpp` | none | `getNextToken`, `getCmdTokens`, `commonPrefix` | `CmdTokens` |
| Connecting | `socket/socketClient.cpp` | `errno`, the socket's mode | `to_sockaddr`, `connect_wait`, `buildConnection` | `Connect` |
| Keyboard | `client/cmdCharDef.cpp`, `client/client.cpp` | the terminal's settings, the buffer of the standard input | `getChar`, `mygetc`, `set_keypress`, `reset_keypress`, the branches of `run` | `Keyboard` |

### 1.2 How they interact

A command of the client sends one request on the control connection and blocks
for one acknowledgement, which it casts to the class it expects. Signing up or
in is followed by a second connection, on which the server forwards chats
whenever they come. The server reads one request per ready descriptor and pass,
calls the service of its type, and then `forwardMessage`, which empties the
inbox of every user with a data connection. It knows connections by descriptor
only: `_connectionMap` and `_dataConnMap` take a user name to a descriptor, and
`removeConnection` looks for the descriptor in both.

### 1.3 What is hard, and what makes each part correct

* **Orders of requests, closes and resets.** The server's maps are updated by
  different handlers, and have to agree whatever the peers do: every account has
  an inbox, no mail is left behind, the two histories of a conversation agree.
* **Descriptors are reused.** A registration that survives its connection would
  send mail to somebody else.
* **The snapshot of `select`.** A pass acts on what was ready when it began.
* **TCP keeps no boundaries.** What is forwarded right behind an
  acknowledgement is read with it; two chats are read at once; the replies to
  `update` are cut anywhere.
* **`errno` is global.** `connect_wait` decides by it whether to connect, and
  each attempt meets what the one before left in it and in the socket.
* **Two views of the keyboard.** `select` sees the terminal, `getChar` a buffer;
  the terminal's mode changes with every byte, and the bytes of a key may come
  one by one.
* **Blocking.** The server has one thread and blocks in `send`; a client that
  waits for an acknowledgement reads nothing else.
* **A client may die** between any two steps and start again.
* **The editor** keeps the cursor twice (in the buffer and on the terminal), and
  keeps the unfinished line inside the history.

`PROJECT.json` lists each hazard at its line with the properties that watch it.

## 2. The modules

    Message <- Server <- Client <- CnMessage <- MCCnMessage
       Picking <-+  ^
                    +-- ServerMailbox (implements Mailbox) <- MCServer
    PickingProofs, ServerProofs <- MailboxProofs  <- SessionProofs
                   ServerProofs <- SystemProofs   <-+   (theorems)
    CmdTokens <- LineEditor (implements CommandHistory) <- MCLineEditor
                     ^
                     +----- EditorProofs (theorems)
    Connect <- ConnectProofs (theorems)
    Keyboard <- MCKeyboard
        ^
        +-- KeyboardProofs (theorems)

**Message.** Requests and replies as records. All derived classes have their
enumerator at the same offset, so a client that reads the wrong class still
reads a number: enumerators are numbers. `UpdateText` is what
`UpdateMsg::packData` keeps of a text: 8 bytes, so a text of at least 8 bytes
becomes `Garbled`. `SizeOf` gives the sizes the LP64 build has.

**Server.** One thread, as a state machine whose steps are where other processes
can be noticed: the return of `select` with its `accept` (`Select`), one
request (`Dispatch`, with the whole service), one reply of `update`
(`UpdateAck`), one forwarded chat (`ForwardMessage`) or the step to the next
inbox (`NextInbox`), one closed connection
(`HostDisconnected`, with `removeConnection` and `close`), a failed read
(`ReadError`). `mode` says where the thread is or what killed it: a failed
`assert`, a null chunk, the bad `delete` of `MsgService`. `working` is the
snapshot of `select` that is still to be scanned, in ascending order. Every
service is followed by the two loops of `forwardMessage`: `it` has the inboxes
its iterator has not passed, and the peers may run between any two chats.
User names are numbers, their rank in the order of `std::string`, because
`std::map` iterates in it. Where the code looks up a freed key
(`server.cpp:32`), a name that `std::string` keeps on the heap (`LongNames`) may
or may not be found.
The kernel's part of a connection is `peer`, `up`, `down` and `backlog`. Closing
a socket with unread packets resets the connection; a send to a closed one is
lost; one to a full one blocks.
`Next` runs the server against peers that send any request of `Offered` and
close at any moment, with two restrictions that the client program meets: a
peer sends its next request after the server read the one before, and requests
are complete and of known classes.

**ServerMailbox, Mailbox.** `Mailbox` is what the server promises with no
sockets in it: a chat that is accepted waits, and the chats of a receiver are
delivered once each in the order they were accepted. `ServerMailbox` maps the
inbox and the receiver's part of the history to it.

**Client, CnMessage.** The client program as processes that use the sockets of
`Server` (`PeerConnect`, `PeerSend`, `PeerRecv`, `PeerClose`), one action per
blocking point of a command. `signUp`, `signIn` and `send` stop twice: to ask
their user (`SignCmd`, `SendCmd`), during which no socket is read, and for the
reply to what he answered (`Sign`, `SendChat`). A `recv` takes what has arrived, so the
acknowledgement of the data connection takes the first bytes of a chat behind
it (`Overread`), and a read that fills the buffer makes no chunk (`DataRecv`).
That acknowledgement goes to 4096 bytes on the stack, and the `recv` may write
4136: with the layout `g++` gives `buildDataConn` that hits a string no longer
used, or, where the compiler guards the stack, ends the process when the
function returns (`Overrun`; `BuildAck` allows both). The 8 bytes by which a
`ChatMsg` is longer than `charAck` hit padding, or an unused string, in both
layouts, and are not modelled.
`update` reads until a read has `UPDATE_COMPLETE` at the offset of the
enumerator (`CodeAt`); one that begins inside a packet finds any number there.
When the server has died, that loop spins on reads of nothing, and may end only if
memory happens to hold the number (place `spin`, `SpinEnds`). A reply read from
its middle has names nobody wrote (`NoChat`), one from byte 32 on the receiver's
from its third character; no property depends on which.
`messageRecord` is `_messageRecord`; the last reply to `update` is kept in it as
a chat from the user to nobody (`LastReply`). `Filed` is what `read` makes of
it; `read` itself is one action, for it neither sends nor receives.
Clients in `Mortal` may be killed anywhere; their sockets close one after the
other. `CnMessage` puts the server and the clients together.

**CmdTokens, LineEditor, CommandHistory.** The line is a sequence, `ptr` the
place of `_readBufPtr`, `screen` the text and the cursor of the terminal behind
the prompt, to which each function prints what the code prints. While the user
is above the bottom of the history, `_history` has the unfinished line as an
extra last element. `CommandHistory` is the history one expects, with its draft
in a variable of its own, and `LineEditor` implements it.

**Connect.** `pc` is where `buildConnection` is, `sock` what the kernel knows of
the socket. One action per outcome of `connect_wait`'s calls: it fails, begins
to wait (with `connect`, or without when `errno` says that one is under way),
times out, is refused, is connected. The network answers at any moment, also
between attempts. Every call that succeeds may leave `errno` or change it to
something else. `seen` remembers, for the properties, whether `errno` was
`EINPROGRESS` before the socket was made, and whether a `select` timed out.

**Keyboard.** A key is the `ParseChar` it is meant to be; `Encoded` gives a
terminal's bytes for it. They pass through `wire`, `tty` and `buf`: `select`
looks at `tty`, the standard input reads all of `tty` when `buf` is empty. In
the user's mode (`cooked`) a read gets whole lines (`lines`), and the line
discipline takes the keys that edit them for itself (`EditKeys`).
`pc` is the place in `run`, `getChar` or `execCmd`, `dec` the read of `getChar`
that is next. `send`, `signUp` and `signIn` read the same standard input
(`CommandFill`, `CommandByte`) and wait for it, so what is typed ahead of their
question answers it. `decoded` has an entry for every byte read: a key for the last
byte of each key `getChar` returned, `Part` for those before it, `Line` for what a command took;
`ends` says where among all the bytes each key ends. `clean` tells whether an ESC was
pressed by itself or the line discipline took an edit: after those the bytes no
longer tell the keys.

Operators commented as mutants are broken variants of the definition that
follows them; no specification uses them. They show that a property can fail.

## 3. The runs

| Run | Config | Shows |
|---|---|---|
| `server` | `MCServer` | `TypeOK`, `ReceiversHaveInbox`, `ConversationsAgree`, `RecordsAreKept`, and that the server implements `Mailbox`: one account that signs up and in on both connections, two chats to it from another user or from itself, an `update` by the other, closes and resets at any moment |
| `sys_accounts` | `MCSysAccounts` | `ClientTypeOK`, `Lockstep`, `ClosedFdsAreForgotten`, `OwnMailOnly` for a writer and a reader who both come and go, the reader as one of two users, the writer's account included |
| `sys_restart` | `MCSysRestart` | `OwnMailOnly`, `ClosedFdsAreForgotten`, `RecordFollowsHistory` when the reader may die and restart, or crash in `read` |
| `sys_live` | `MCSysLive` | `RecordFollowsHistory`, `ForwardingComplete`, `CommandsEnd`, `SignOutEnds` for a writer of three texts, a reader who comes and goes, and a server that blocks in `send` |
| `sys_update` | `MCSysUpdate` | `WholeUpdateEnds`, `UpdateBringsHistory`, `ShownIsKept` for a user who chats with himself, updates and reads |
| `line_editor` | `MCLineEditor` | `KeptWhileAbove`, `KeysKeepScreen`, `TokensAreWords`, and that the editor implements `CommandHistory` |
| `connect` | `MCConnect` | `ErrnoTellsTruth`, `ReturnsConnected`, `BlockingUnlessTimeout`, `ConnectingEnds` |
| `keyboard` | `MCKeyboard` | `DecodedInOrder`, `SettingsAreKept`, `BufferedKeysFollow`, `MessageIsRead` |

Four runs end in a violation, each of one property that the documentation or a
comment of the repository states:

| Run | Statement | What happens |
|---|---|---|
| `sys_disconnect` | `server.cpp:117` | a connection closed with an unread chat is reset; the server uses a null chunk |
| `sys_unanswered` | `README.md:134` | a sign-out of a session that the server has forgotten gets no reply |
| `sys_update_ends` | `README.md:85` | a read that takes a part of the next reply misses `UPDATE_COMPLETE`, and the client waits for ever |
| `connect_flags` | `socketClient.cpp:77` | after a timeout the socket is returned with `O_NONBLOCK` |

Some properties hold with an exception that the code makes necessary, and name
it. An exception is no claim that the code is right there:

| Property | Exception | Against |
|---|---|---|
| `CommandsEnd`, `SignOutEnds` | the server is blocked in `send` from some time on (`Stuck`), which two clients bring about when neither reads | `README.md:134` |
| `SignOutEnds` | the server has forgotten the session | `README.md:134`; run `sys_unanswered` |
| `WholeUpdateEnds` | a read tore a reply apart (`Torn`) | `README.md:85`; run `sys_update_ends` |
| `UpdateBringsHistory` | of a text of eight bytes and more, that it begins the same (`SameChat`): an update cuts it there (`message.hpp:132`) | `README.md:85` |
| `ShownIsKept` | the user changes: `read` shows the next one the mail of the one before | `README.md:73` |
| `ErrnoTellsTruth`, `ReturnsConnected` | `errno` was stale when the socket was made: it may be returned unconnected | `socketClient.cpp:136` |
| `BlockingUnlessTimeout` | an attempt timed out | `socketClient.cpp:77`; run `connect_flags` |
| `BufferedKeysFollow`, `MessageIsRead` | a command does not return, because its user does not answer or its reply does not come (`CommandsReturn`) | `README.md:37`, for messages |
| `DecodedInOrder` and those two | an ESC by itself, which makes `getChar` wait for the next key, deaf to messages; an edit that the terminal takes | |

`Lockstep` is about the four commands with one reply. `update` has many, and what
it leaves behind (`sys_update_ends`) is not followed into the next command: no
run has `update` next to `Lockstep`.

The models also hold, with no run of their own:

* the end of the server in an assertion of `removeConnection` (`server.cpp:33`,
  `44`): when a client closes with one of its connections registered, and for a
  long name, whose freed memory is looked up, at any sign-out;
* the chat that is forwarded to a data connection whose peer has closed it,
  popped (`server.cpp:187`) and lost, against `README.md:37`;
* two unread chats, which fill a read of the client: no chunk is made, and it uses
  a null one (`client.cpp:407`), against `README.md:37`;
* the bad `delete` for an unknown receiver (`badDelete`);
* the chat whose first 3984 bytes went with an acknowledgement (`NoChat` in
  `messageRecord`);
* the process that aborts after such an acknowledgement (`Overrun`);
* the keyboard closed at sign-out after a refused data connection (`stdin`);
* the crash of `read` for a name nobody wrote to (`ReadUnknown`);
* the `update` that spins when the server has died (`spin`);
* refused attempts that alternate between `ECONNREFUSED` and `ECONNABORTED`, so
  that five of them are three connections (`ConnectErrno`);
* keys that wait in the buffer until another byte comes (`BufferedKeysFollow`
  says no more than that).

### Bounds

* `Server`: two descriptors and two peer sockets (or the same two used again),
  two users, two texts, each sent to the same user from the other or from
  itself, and packet buffers of one. Two descriptors are enough
  for a control and a data connection, for one that is refused, and for a
  reuse while the other stays. Only one of the users has an account here, so
  its name alone is in the maps; two accounts meet in the runs of `CnMessage`. There is
  one password: no property tells a wrong one from a refusal of another cause.
  Peers are interchangeable, and so are the texts, so both are declared
  symmetric.
* `CnMessage`: two clients with two sockets each, four descriptors, one to
  three texts; two users. The order of records needs several texts and is in
  `sys_live`; `sys_accounts` and `sys_restart` have one, and are about who gets
  it. With four descriptors each connection can be refused, orphaned or reused.
  `SockBuf` is 2 packets, or 1 with three texts in `sys_live` and
  `sys_unanswered`, so that the server does block in `send`; the kernel's buffers
  are larger, and are full after more chats. The runs about `update` have one
  client, which may sign up as either of two users and chats with itself, so that
  its history has two, then four entries; `MaxRecord` 2 stops updates when a name
  has two. One of its two texts is shorter than 8 bytes and comes whole. The other
  is longer, and that it is shorter than 3900 bytes is what makes the rest of a
  cut chat read as zeros.
* `LineEditor`: one letter and the blank; `MaxSize` lets the user type lines of
  up to four characters on an empty history and shorter ones on a longer one;
  two entries and `PG_OFFSET` 2, so that page moves are both exact and clipped.
  A chat may cause a reprint at any moment.
* `Connect`: five attempts, as in the code, and three calls, so that the `errno`
  of one call meets the next one's socket.
* `Keyboard`: three keys, each the newline, ESC, backspace, an arrow, one of the two
  ends of the keys with four bytes or an unknown one; messages without bound.
  Three keys are enough for a command that asks, and a line typed ahead for it or
  after its question, of a key that may have several bytes.

The runs do not check for deadlock, except those of the editor: users need not
type, texts run out, and a dead server is a final state.

### Fairness

`SysLiveSpec` has weak fairness of the server, whose thread goes on by itself
whenever it is not blocked in `send` or `select`, and of each client's program
steps and reads of the data socket at the prompt: a process that can run does.
The server's fairness is of its loop as a whole, so that a low descriptor could
starve a high one if a pass did not handle its whole snapshot. Users are not fair:
no liveness property depends on a command being typed, or on the question of a
command being answered, and nobody has to die. Nor is there fairness of `SpinEnds`.
`CommandsEnd` and `SignOutEnds` therefore say what follows the user's input, and
assume that the server is not blocked for ever by a peer that does not read.
`Connect` has weak fairness of the program: `select` returns after a second
whatever the network does, so nothing is asked of it. `Keyboard` has weak
fairness of the program and of bytes that are on their way; no key has to be
pressed. What becomes of a command is not fair there: `CommandAsks` and
`CommandDone` need not happen, and the properties that depend on it assume
`CommandsReturn`.

## 4. What is proved

`ServerProofs` proves, for every choice of the constants that meets the
assumptions of `Message` and `Server` (finite `Fds`, users ordered as numbers,
`Fin` and `Rst` not endpoints, requests of the known classes):

* `TypeCorrect`: `Spec => []TypeOK`;
* `InboxForEveryReceiver`: `Spec => []ReceiversHaveInbox`;
* `NoMailLeftBehind`: `Spec => []ForwardingComplete`;
* `RecordsOnlyGrow`: `Spec => RecordsAreKept`.

`TypeOK` is not inductive: `UpdateAck` takes the head of `updateQ`, so the
induction needs that the thread is in mode `update` only with something to send
(`UpdateQInv`). `TypeInv` is both. One lemma per action shows that it is kept;
lemmas about maps, sequences and sending carry the arguments they share.
For the two that follow, `MailInv` is inductive over `TypeInv`: it is
`ReceiversHaveInbox` and `LoopInv`, that whoever is pending has an inbox the iterator
of `forwardMessage` has not passed, and that there is none of these outside of it.
`DispatchMail` shows that every service begins the loop at the first inbox;
`NextInbox` passes an inbox only when its owner is not pending, and while the loop
runs nobody else becomes so (`PendingSame`); removing a
connection makes nobody pending; and the inbox map changes its keys in
`CreateAccount` only, together with the accounts. `RecordsOnlyGrow` is an action
property and needs `TypeInv` only: `MapInsert` keeps what a map has, and
`RecordedKeeps` that adding to two histories, or twice to the same, leaves what
was there at the front.

`MailboxProofs` proves, under the same assumptions:

* `SameConversation`: `Spec => []ConversationsAgree`;
* `ServerImplementsMailbox`: `Spec => ImplementsMailbox`.

The places of a sequence that satisfy a predicate, and what stands there, are
operators of `Picking`. `PickingProofs` has their laws without induction over the
sequence: a set of places has a largest member, because the inclusion of finite
sets is well founded, so places have ranks and the picked sequence is the one that
goes by rank. With that, appending to a sequence appends to what is picked from it
exactly when the new element qualifies. The refinement needs `TextInv`: every text
is in one place only, with its user, in a request, in an inbox, or (delivered) in
the histories, so that a text that is new to the server is new to every history.

`SystemProofs` proves, for any number of clients, users, texts and descriptors:

* `ClientTypeCorrect`: `SysSpec => []ClientTypeOK`;
* `ClientsArePeers`: `SysSpec => Spec`;
* `ReadOnlyGrows`: `SysSpec => ShownIsKept`.

The invariant is `SysTypeInv`: the server's `TypeInv`, the types of the clients,
that no connection holds more packets than `SockBuf`, and that a client in a
session has a user's name, and one that is asked for a text a receiver
(`KnownInv`). How many bytes a read may leave of the
last packet is bounded with the sums of the packets' sizes (`BytesUpTo`), which
are sums over finite sets of places. `ClientsArePeers` uses it: every step of a
client is a step of `PeerNext`, or touches no socket, provided that its request is
one the server may be offered (`OfferedByClients`, an assumption of `CnMessage`
about its constants, which the runs meet). So every theorem about `Spec` is one
about the composition. `ReadOnlyGrows` distinguishes the two steps that change
what `read` shows: records grow at their end (`Recording`), and `read` files what
came since it last did (`Filing`); both append to what is picked for a name.

`SessionProofs` proves, on top of all that:

* `RecordsFollow`: `SysSpec => []RecordFollowsHistory`, for users who type no
  `update` (`NoUpdates`). The history an update brings repeats what was recorded,
  so the property is only meant for them.

A client reads its data connection through the kernel's buffers while descriptors
are closed and used again. `NetInv` says what can be relied on: a socket has at
most one connection (accepted or in the backlog), a closed descriptor has none,
and what a pass has still to scan is ready. `KindInv` says what is asked where:
`BUILD_DATA_CONN` on data connections only, and there nothing else. `RecordInv`
then puts what a client recorded before what is still on its way to it, and says
that both together are in the order of the histories. A forwarded chat goes behind
everything by `TextInv`: the last entry of the histories can not have been
forwarded before.

* `ClosedForgotten`, `ConnectionsInLockstep` and `MailIsOwn`: `SysSpec` implies
  `[]ClosedFdsAreForgotten`, `[]Lockstep` and `OwnMailOnly`, under `NoUpdates`
  again: the replies to an `update` are many, and are torn apart by reads, which
  breaks what the invariant says of a control connection.

The three need each other, so they have one inductive invariant, `SessInv`. What
is registered is open (`OpenOnly`): this is what keeps a user away from the next
connection that gets its descriptor. `removeConnection` forgets one user only, so
it takes that no descriptor has two, and that is false: a client that signs out
and in as somebody else before the server has noticed that its data connection is
closed has two users on its control connection. `TwoUsers` says that this is so
only while one of them is `Leaving`, that is while its closed data connection is
still to be scanned in the pass under way and the control connection was scanned
before; the removal of the data connection takes that user with it. That a second
user is registered at no other time is `AskedOn`, and it holds because of what the
client does: it signs in only when it has no data connection any more, and so it
is still when the user has answered (`LifeOf`), and then whoever is still
registered on its control connection is left over from a closed one (`SessOf`,
`Left`). `SessOf` follows the user of a session from the reply that accepts it
over the data connection being made, refused, or closed, to the end. `LockOf` is
`Lockstep` with what it needs of the connections not accepted yet and of the bytes
already read, and `BuildOf` says the like of a data connection until its request
is answered; so the user the server registers on it is the one the client is
signed in as, and with it every chat on it (`MailOf`), which is `OwnMailOnly`.
Once the server has died, which it does in the middle of a service, only
`OpenOnly`, `LifeOf` and `MailOf` are claimed.

A step of the server is followed through its effect on the two maps (`OnCtrl`,
`OnData`, the `...Effect` lemmas); a step of a client uses one socket at most
(`OnlyUses`) and leaves the variables of the other clients alone (`OthersKept`),
so `FrameSess` keeps the invariant for the others and one lemma for each action
(`...Outcome`) shows it for the client itself.

`EditorProofs` proves, for any characters, commands and bounds and every
`PG_OFFSET` of at least 1:

* `EditorTypeCorrect`: `Spec => []TypeOK`;
* `KeptLine`: `Spec => []KeptWhileAbove`;
* `EditorImplementsHistory`: `Spec => KeepsHistory`;
* `ScreenFollows`: `Spec => KeysKeepScreen`;
* `TokensFollow`: `Spec => []TokensAreWords`.

The inductive invariant `EditInv` has a part for the line (`LineOK`), which adds
to the types that the terminal's cursor is never left of `ptr`: without it a
deletion could move the cursor into the prompt. Its part for the history
(`HistoryOK`) says `KeptWhileAbove` with the length of `_history` itself, so that
the index arithmetic of `moveToHistory` can be followed: a move up from the
bottom goes above the line it appends, and a move down that reaches the last
element takes it out. For the refinement each key is mapped to a step of
`CommandHistory`: `SettleStep` is a walk from above the bottom, `MoveUpStep`
adds the one that begins at the bottom, `NewLineStep` uses that replacing the
kept line is the same as appending to the other lines (`ReplaceLast`). That a
set of places has a least and a greatest member, which trimming needs, comes
from the well-foundedness of the finite sets.

For `ScreenFollows` rows of the terminal are compared cell by cell (`Cell`,
`CellsAlike`: cutting off blanks changes no cell). `Shows` says that a row with a
cursor is a line with its pointer. `PrintedCells` says what printing a text over a
part of a row leaves in each cell; on it rests one lemma for each way in which the
code prints: moving (`MovedShows`), rewriting the rest of the line behind an
inserted character (`WithShows`) or a deleted one (`CharDeletedShows`), and wiping
the line for another (`RetrievedShows`). `KeyShows` puts the keys together.
Nothing is claimed of `Reprint` inside the line, which is where the code goes
wrong.

`TokensFollow` is about a recursion, without induction over the line. The starts
of the words are counted from the left (`Rank`, `Nth`): every number up to their
count is a rank, because a least one that is not would have a predecessor with a
member to its right. `HeadFound`, `TailFound` and `NextFound` follow the three
scans of `getNextToken`, so that a call which begins between two words reads the
next one and stops before the one behind it (`CallReadsWord`). `Read` then says
outright what every call has pushed, `AllRead` that this solves the equation of
the recursive function, and `OneReading` that nothing else does, since there is no
first call on which two solutions could differ.

`ConnectProofs` proves, for any number of attempts and calls,
`ConnectTypeCorrect`, `ErrnoIsRight`, `ConnectedOnReturn` and
`BlockingOnReturn`: the properties of the run that are not liveness. Between
attempts `errno` mirrors the socket; while `select` waits, one knows besides that
a connection was asked for, and that the flags saved in `opt` are those of a
blocking socket unless an attempt timed out before.

`KeyboardProofs` proves, for any keys and any number of them,
`KeyboardTypeCorrect`, `TerminalGivenBack` and `KeysInOrder`. The type invariant
needs that the digit of a four-byte key is in its range before its last byte is
read (`HeldInv`). For `KeysInOrder` there is no recursion over the keys: `ends`
gives the place of each in the bytes, and `Layout` says that the keys lie there
one behind the other without a gap. `StreamInv` says that the bytes not read yet
(`Stream`: `buf`, `tty` and `wire` behind each other) are what the keys have
behind the bytes read, and `PlaceInv` that `getChar` is at the first byte of a key
or has read the first ones of its code (`Begun`): only a command can be within a
key without knowing, and it stops at a newline, which is a key of one byte.
`NextByte` is the step of the stream by one byte; `MovedOrder` is for the bytes
that move from `wire` to `tty` or to `buf`, and leave it alone. The keys are any
but those the line discipline makes signals or an end of file of
(`KeysAssumption`), and the claim ends with an ESC by itself or an edit (`clean`).

## 5. What is only model-checked

What an update brings (`UpdateBringsHistory`), whose replies are torn apart by
reads. Liveness, which is out of the prover's reach: `CommandsEnd`, `SignOutEnds`,
`WholeUpdateEnds`, `ConnectingEnds`, `BufferedKeysFollow` and `MessageIsRead`. The
properties of sessions and of records are checked (`sys_accounts`, `sys_restart`,
`sys_live`) and proved for users who type no `update`, and claimed for no others:
`Lockstep` and `RecordFollowsHistory` are not meant for an update, whose replies
are many and repeat the history; what is promised of one is what `sys_update`
checks.

## 6. Not modelled

Built in this order: the server, its abstract mailbox, its proofs, the clients
and the composition, the line editor, `update` and `read`, connecting, the
keyboard. What could still be added: proofs about sessions in which users type
`update`.

Left out: printing and wording; the empty `FileService`, `HistoryService`,
`retrieve` and file sending; `monitorSockFd`, which nothing calls; failures of
`bind`, `listen`, `accept` and `select`, which end the program; requests of
unknown classes, which end the server (`server.cpp:153`); what is read behind the
16 bytes of a digest; lines of 65536 characters; signals other than those that
kill a client, and with them the terminal left raw by one that is killed while it
waits (`client.cpp:386`); the control characters that make signals, an end of file
or other bytes of a key, or stop the output (`SpecialKeys`); lines that wrap on
the terminal, which is one unbounded row; the key tables behind `TA_KB_SETTING`
and `MAKE_REF`, which the Makefile does not define; the terminator `to_sockaddr`
has no room for (`socketClient.cpp:41`).
