------------------------------ MODULE MCServer ------------------------------
(* A small instance of Server: what its peers ask for.                    *)
EXTENDS ServerMailbox, TLC

CONSTANTS a, b, hi, bye

PeersAndTexts == Permutations(Endpoints) \cup Permutations(Bodies)

Sign(t, u) == [type |-> t, user |-> u, password |-> "p"]
DataConn(u) == [type |-> "BUILD_DATA_CONN", user |-> u]
Update(u) == [type |-> "UPDATE", sender |-> u]

\* A user with a name on the heap that comes and goes on two connections, two
\* chats to it from another or from itself, before and after it signs up, and
\* the history the other asks for.
ServerOffered ==
  { Sign("SIGNUP", 2), Sign("SIGNIN", 2), DataConn(2), Update(1),
    ChatMsg(1, 2, hi), ChatMsg(1, 2, bye),
    ChatMsg(2, 2, hi), ChatMsg(2, 2, bye) }
==============================================================================
