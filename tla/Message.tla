------------------------------ MODULE Message ------------------------------
(***************************************************************************)
(* The message classes of message/message.hpp: what a client and the       *)
(* server can put on a TCP connection.                                     *)
(*                                                                         *)
(* A request names its class in "type" (Header._msgType) and carries the   *)
(* fields its handler reads.  A reply carries the enumerator the server    *)
(* stored in it.  Every derived class declares its enumerator first, so    *)
(* all of them lie at the same offset of the wire image: a client that     *)
(* reads the wrong class still reads some enumerator, as a number.  This   *)
(* is why the enumerators are numbers here.                                *)
(***************************************************************************)
EXTENDS Integers

CONSTANTS
  Users,      \* user names, registered or not
  Passwords,  \* password strings as the server reads them
  Bodies,     \* chat texts
  ShortBodies,\* those of fewer than 8 bytes
  Garbled,    \* a text of which only the first 8 bytes are right
  NoChat      \* the chat of a packet that carries none

SIGNUP_ACK_SUCCESS == 0
SIGNUP_ACK_FAIL == 1

SIGNIN_ACK_SUCCESS == 0
SIGNIN_ACK_USER_NOT_EXIST == 1
SIGNIN_ACK_PASS_NOT_MATCH == 2

SIGNOUT_ACK_SUCCESS == 0

CHAT_SENT == 0
CHAT_REICEIER_NOT_EXIST == 1

DATA_CONN_DUP == 0
DATA_CONN_SUCCESS == 1

UPDATE_ING == 0
UPDATE_COMPLETE == 1

AckCodes == 0..2

\* ChatMsg: the sender and the receiver are in the header.
ChatMsg(s, r, b) ==
  [type |-> "SEND_MSG", sender |-> s, receiver |-> r, body |-> b]

Chats == [type : {"SEND_MSG"}, sender : Users, receiver : Users, body : Bodies]

Requests ==
  Chats
  \cup [type : {"SIGNUP", "SIGNIN"}, user : Users, password : Passwords]
  \cup [type : {"SIGNOUT", "BUILD_DATA_CONN"}, user : Users]
  \cup [type : {"UPDATE"}, sender : Users]

\* UpdateMsg::packData copies sizeof(size_t) bytes of the text, whatever its
\* length, into a buffer nobody cleared.
UpdateText(b) == IF b \in ShortBodies THEN b ELSE Garbled

UpdateMsg(m) == [m EXCEPT !.body = UpdateText(@)]

UpdateChats ==
  [type : {"SEND_MSG"}, sender : Users, receiver : Users,
   body : Bodies \cup {Garbled}]

\* What the server sends: the request object, or a stored chat, with its
\* enumerator set.  A forwarded chat is the object whose ack was CHAT_SENT.
Packet(t, c, m) == [type |-> t, code |-> c, chat |-> m]

ReplyTypes ==
  {"SEND_MSG", "SIGNUP", "SIGNIN", "SIGNOUT", "BUILD_DATA_CONN", "UPDATE"}

Packets ==
  [type : ReplyTypes, code : AckCodes, chat : UpdateChats \cup {NoChat}]

ASSUME ShortBodiesAssumption == ShortBodies \subseteq Bodies
ASSUME GarbledAssumption == Garbled \notin Bodies
ASSUME NoChatAssumption == NoChat \notin UpdateChats

\* sizeof the class on the build's ABI (LP64): a Message is 112 bytes, and
\* ChatMsg and UpdateMsg pad their buffer so that they are 4104.
SizeOf(p) ==
  CASE p.type \in {"SEND_MSG", "UPDATE"} -> 4104
    [] p.type \in {"SIGNIN", "SIGNUP"} -> 168
    [] p.type \in {"SIGNOUT", "BUILD_DATA_CONN"} -> 152

\* The largest read either side asks for: MAX_MSG_SIZE + 40.
ReadSize == 4136
=============================================================================
