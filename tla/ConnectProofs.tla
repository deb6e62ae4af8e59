--------------------------- MODULE ConnectProofs ---------------------------
(***************************************************************************)
(* Theorems about Connect, for any number of attempts.                     *)
(***************************************************************************)
EXTENDS Connect, TLAPS

\* The states of a connection that was asked for and not looked at.
UnderWay == {"connecting", "connected", "failed"}

Trusted == "stale" \notin seen

\* While an attempt is to be made one is left.
TriesLeft == pc \in {"lookup", "attempt", "select"} => cnt > 0

\* errno is compared between attempts; it is set before the wait.
ErrnoInv ==
  /\ ErrnoTellsTruth
  /\ pc = "select" /\ Trusted => errno = "EINPROGRESS" /\ sock \in UnderWay
  /\ ReturnsConnected

\* opt carries the flag from the beginning of an attempt to its end.
FlagInv ==
  /\ pc = "attempt" /\ nonblock => "timeout" \in seen
  /\ pc = "select" /\ opt => "timeout" \in seen
  /\ BlockingUnlessTimeout

ConnectInv == TypeOK /\ TriesLeft /\ ErrnoInv /\ FlagInv

-----------------------------------------------------------------------------
\* Before the first call nothing is known.
LEMMA InitConnect == Init => ConnectInv
<1> SUFFICES ASSUME Init PROVE ConnectInv
  OBVIOUS
<1> USE DEF Init
<1>1. TypeOK
  <2>1. cnt \in 0..Attempts /\ calls \in 0..Calls
    BY AttemptsAssumption, CallsAssumption
  <2> QED BY <2>1 DEF TypeOK, Sockets, Errnos
<1>2. TriesLeft /\ ErrnoInv /\ FlagInv
  BY DEF TriesLeft, ErrnoInv, FlagInv, ErrnoTellsTruth, ReturnsConnected,
         BlockingUnlessTimeout
<1> QED BY <1>1, <1>2 DEF ConnectInv

\* A failed attempt leaves a number of tries that is one less, and the program
\* between attempts or at its end.
LEMMA FailedEffect ==
  ASSUME TypeOK, cnt > 0, Failed
  PROVE  /\ cnt' \in 0..Attempts
         /\ pc' \in {"attempt", "exit"}
         /\ pc' = "attempt" => cnt' > 0
  BY AttemptsAssumption DEF TypeOK, Failed

\* Every step leaves the variables typed and a try to come.
LEMMA NextTyped ==
  ASSUME ConnectInv, [Next]_vars
  PROVE  TypeOK' /\ TriesLeft'
<1> USE AttemptsAssumption, CallsAssumption
        DEF ConnectInv, TypeOK, TriesLeft, Errnos, Sockets, ErrnoKeptOrNot
<1>1. CASE BuildConnection
  BY <1>1 DEF BuildConnection
<1>2. CASE LookupFails
  BY <1>2 DEF LookupFails
<1>3. CASE OpenSocket
  <2>1. cnt' \in 0..Attempts /\ cnt' > 0 /\ errno' \in Errnos
    BY <1>3 DEF OpenSocket
  <2>2. seen' \in {{"stale"}, {}}
    BY <1>3 DEF OpenSocket
  <2> QED BY <1>3, <2>1, <2>2 DEF OpenSocket
<1>4. CASE Leave
  BY <1>4 DEF Leave
<1>5. CASE NoSocket \/ ConnectFails
  <2>1. cnt > 0 /\ Failed
    BY <1>5 DEF NoSocket, ConnectFails
  <2> QED BY <1>5, <2>1, FailedEffect
          DEF NoSocket, ConnectFails, ConnectErrno
<1>6. CASE TimesOut \/ Refused
  <2>1. cnt > 0 /\ Failed
    BY <1>6 DEF TimesOut, Refused
  <2> QED BY <1>6, <2>1, FailedEffect DEF TimesOut, Refused, ResetFlags
<1>7. CASE WaitAgain \/ ConnectBegins \/ ConnectSucceeds \/ Connected
  BY <1>7 DEF WaitAgain, ConnectBegins, ConnectSucceeds, Connected, ResetFlags
<1>8. CASE Answer
  BY <1>8 DEF Answer
<1>9. CASE UNCHANGED vars
  BY <1>9 DEF vars
<1> QED BY <1>1, <1>2, <1>3, <1>4, <1>5, <1>6, <1>7, <1>8, <1>9
        DEF Next, Program

\* Every step keeps what errno says about the socket.
LEMMA NextErrno ==
  ASSUME ConnectInv, [Next]_vars
  PROVE  ErrnoInv'
<1> USE DEF ConnectInv, ErrnoInv, ErrnoTellsTruth, ReturnsConnected, Trusted,
            UnderWay, ErrnoKeptOrNot
<1>1. CASE BuildConnection
  BY <1>1 DEF BuildConnection
<1>2. CASE LookupFails \/ OpenSocket \/ Leave
  BY <1>2 DEF LookupFails, OpenSocket, Leave
<1>3. CASE NoSocket
  BY <1>3 DEF NoSocket, Failed
<1>4. CASE ConnectFails
  <2>1. sock # "connecting" \/ ~Trusted
    BY <1>4 DEF ConnectFails, GoesOn
  <2> QED BY <1>4, <2>1 DEF ConnectFails, ConnectErrno, GoesOn, Failed
<1>5. CASE TimesOut
  BY <1>5 DEF TimesOut, Failed
<1>6. CASE Refused
  BY <1>6 DEF Refused, Failed
<1>7. CASE WaitAgain
  BY <1>7 DEF WaitAgain, GoesOn
<1>8. CASE ConnectBegins \/ ConnectSucceeds
  BY <1>8 DEF ConnectBegins, ConnectSucceeds
<1>9. CASE Connected
  BY <1>9 DEF Connected, Writable, Failure
<1>10. CASE Answer
  BY <1>10 DEF Answer
<1>11. CASE UNCHANGED vars
  BY <1>11 DEF vars
<1> QED BY <1>1, <1>2, <1>3, <1>4, <1>5, <1>6, <1>7, <1>8, <1>9, <1>10, <1>11
        DEF Next, Program

\* Every step keeps the flag and its copy in step with the timeouts.
LEMMA NextFlag ==
  ASSUME ConnectInv, [Next]_vars
  PROVE  FlagInv'
<1> USE DEF ConnectInv, TypeOK, FlagInv, BlockingUnlessTimeout
<1>1. CASE BuildConnection
  BY <1>1 DEF BuildConnection
<1>2. CASE LookupFails \/ OpenSocket \/ Leave
  BY <1>2 DEF LookupFails, OpenSocket, Leave
<1>3. CASE NoSocket \/ ConnectFails
  BY <1>3 DEF NoSocket, ConnectFails, Failed
<1>4. CASE TimesOut
  <2>1. /\ "timeout" \in seen' /\ pc' \in {"attempt", "exit"}
        /\ nonblock' = nonblock
    BY <1>4 DEF TimesOut, Failed
  <2> QED BY <1>4, <2>1 DEF TimesOut
<1>5. CASE Refused \/ Connected
  BY <1>5 DEF Refused, Connected, Failed, ResetFlags
<1>6. CASE WaitAgain \/ ConnectBegins \/ ConnectSucceeds
  BY <1>6 DEF WaitAgain, ConnectBegins, ConnectSucceeds
<1>7. CASE Answer
  BY <1>7 DEF Answer
<1>8. CASE UNCHANGED vars
  BY <1>8 DEF vars
<1> QED BY <1>1, <1>2, <1>3, <1>4, <1>5, <1>6, <1>7, <1>8 DEF Next, Program

\* Every step keeps the invariant.
LEMMA NextConnect == ConnectInv /\ [Next]_vars => ConnectInv'
  BY NextTyped, NextErrno, NextFlag DEF ConnectInv

-----------------------------------------------------------------------------
\* The tries never run below none, and every variable stays in its type.
THEOREM ConnectTypeCorrect == Spec => []TypeOK
<1>1. ConnectInv => TypeOK
  BY DEF ConnectInv
<1> QED BY <1>1, InitConnect, NextConnect, PTL DEF Spec

\* The decision connect_wait makes by errno is the right one, for as long as
\* errno was not EINPROGRESS before the socket was made.
THEOREM ErrnoIsRight == Spec => []ErrnoTellsTruth
<1>1. ConnectInv => ErrnoTellsTruth
  BY DEF ConnectInv, ErrnoInv
<1> QED BY <1>1, InitConnect, NextConnect, PTL DEF Spec

\* Then what buildConnection returns is connected, whatever the network does.
THEOREM ConnectedOnReturn == Spec => []ReturnsConnected
<1>1. ConnectInv => ReturnsConnected
  BY DEF ConnectInv, ErrnoInv
<1> QED BY <1>1, InitConnect, NextConnect, PTL DEF Spec

\* A socket none of whose attempts timed out has its flags back, however many
\* attempts were refused.
THEOREM BlockingOnReturn == Spec => []BlockingUnlessTimeout
<1>1. ConnectInv => BlockingUnlessTimeout
  BY DEF ConnectInv, FlagInv
<1> QED BY <1>1, InitConnect, NextConnect, PTL DEF Spec
=============================================================================
