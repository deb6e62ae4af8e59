---------------------------- MODULE MCCnMessage ----------------------------
(* Small instances of CnMessage: c1 and c2 are the clients.                *)
EXTENDS CnMessage, TLC

CONSTANTS c1, c2

SocketsOf == Clients \X {"ctrl", "data"}

OneText == {<<c1, 1>>}
TwoTexts == {<<c1, 1>>, <<c1, 2>>}
ThreeTexts == {<<c1, 1>>, <<c1, 2>>, <<c1, 3>>}

\* Each its own account; c2 changes between its own and that of c1.
OwnAccounts == c1 :> {1} @@ c2 :> {2}
TwoAccounts == c1 :> {1} @@ c2 :> {1, 2}

\* c1 writes; both come and go.
BothLeave ==
  c1 :> {"signUp", "signOut", "send"} @@ c2 :> {"signUp", "signIn", "signOut"}

\* c1 signs up and writes; c2 comes and goes.
WriterReader ==
  c1 :> {"signUp", "send"} @@ c2 :> {"signUp", "signIn", "signOut"}

\* The same, and c2 may read what it has not got.
WriterCrasher ==
  c1 :> {"signUp", "send"} @@
  c2 :> {"signUp", "signIn", "signOut", "readUnknown"}

\* c1 alone, as either user, and with it nobody to forward to but itself.
BothAccounts == c1 :> {1, 2}
Alone == c1 :> {"signUp", "send", "update", "read"}

AllRequests == Requests
=============================================================================
