------------------------------ MODULE Connect ------------------------------
(***************************************************************************)
(* How the client connects (socket/socketClient.cpp, to_sockaddr,          *)
(* connect_wait and buildConnection): the control connection when it       *)
(* starts, a data connection at every sign-in.                             *)
(*                                                                         *)
(* connect_wait makes the socket non-blocking, calls connect() and waits   *)
(* with select() for at most a second.  What it does is decided by errno,  *)
(* a global that every call before it may have set.                        *)
(*                                                                         *)
(* The socket is modelled as Linux has it: an error of a connection under  *)
(* way is kept until SO_ERROR is read, and the connect() after that fails  *)
(* with ECONNABORTED and makes the socket as good as new.                  *)
(***************************************************************************)
EXTENDS Integers

CONSTANTS
  Attempts,  \* cnt, the tries of to_sockaddr and of connect_wait: 5
  Calls      \* bounds the calls of buildConnection

ASSUME AttemptsAssumption == Attempts \in Nat \ {0}
ASSUME CallsAssumption == Calls \in Nat

VARIABLES
  pc,        \* where buildConnection is
  cnt,       \* tries left
  sock,      \* what the kernel knows of sock_fd
  nonblock,  \* O_NONBLOCK is set on it
  opt,       \* the flag as connect_wait found it
  errno,
  calls,     \* calls of buildConnection so far
  seen       \* what has happened to this socket, for the properties:
             \* "stale", errno was EINPROGRESS before it was made;
             \* "timeout", a select() timed out

vars == <<pc, cnt, sock, nonblock, opt, errno, calls, seen>>

Errnos == {"EINPROGRESS", "ECONNREFUSED", "ECONNABORTED", "other"}

\* "none": socket() failed.  "failed": the error is there to read.
\* "closed": it has been read.
Sockets == {"none", "fresh", "connecting", "connected", "failed", "closed"}

TypeOK ==
  /\ pc \in {"away", "lookup", "attempt", "select", "returned", "exit"}
  /\ cnt \in 0..Attempts
  /\ sock \in Sockets
  /\ nonblock \in BOOLEAN
  /\ opt \in BOOLEAN
  /\ errno \in Errnos
  /\ calls \in 0..Calls
  /\ seen \in SUBSET {"stale", "timeout"}

Init ==
  /\ pc = "away"
  /\ cnt = Attempts
  /\ sock = "none"
  /\ nonblock = FALSE
  /\ opt = FALSE
  /\ errno = "other"
  /\ calls = 0
  /\ seen = {}

-----------------------------------------------------------------------------
(* buildConnection.                                                        *)

\* Called by the constructor of Client and by buildDataConn.  Bound: Calls.
BuildConnection ==
  /\ pc = "away" /\ calls < Calls
  /\ pc' = "lookup"
  /\ cnt' = Attempts
  /\ calls' = calls + 1
  /\ UNCHANGED <<sock, nonblock, opt, errno, seen>>

\* Calls that succeed may change errno too.
ErrnoKeptOrNot == errno' \in {errno, "other"}

LookupFails ==
  /\ pc = "lookup"
  /\ cnt' = cnt - 1
  /\ pc' = IF cnt' = 0 THEN "exit" ELSE "lookup"
  /\ ErrnoKeptOrNot
  /\ UNCHANGED <<sock, nonblock, opt, calls, seen>>

\* getaddrinfo finds the address; socket() follows.  A failure of socket(),
\* which is -1, is not noticed.
OpenSocket ==
  /\ pc = "lookup"
  /\ pc' = "attempt"
  /\ cnt' = Attempts
  /\ sock' \in {"fresh", "none"}
  /\ nonblock' = FALSE
  /\ ErrnoKeptOrNot
  /\ seen' = IF errno' = "EINPROGRESS" THEN {"stale"} ELSE {}
  /\ UNCHANGED <<opt, calls>>

\* Mutant: cnt is tested before it is decremented.
FailedTestedFirst ==
  /\ cnt' = cnt - 1
  /\ pc' = IF cnt = 0 THEN "exit" ELSE "attempt"

\* Mutant: an attempt that fails is not counted.
FailedUncounted == cnt' = cnt /\ pc' = "attempt"

\* connect_wait returns -1: the next attempt follows at once.
Failed ==
  /\ cnt' = cnt - 1
  /\ pc' = IF cnt' = 0 THEN "exit" ELSE "attempt"

\* The caller goes on with the socket, and its calls may change errno.
Leave ==
  /\ pc = "returned"
  /\ pc' = "away"
  /\ ErrnoKeptOrNot
  /\ UNCHANGED <<cnt, sock, nonblock, opt, calls, seen>>

-----------------------------------------------------------------------------
(* connect_wait.                                                           *)

\* fcntl finds no socket.
NoSocket ==
  /\ pc = "attempt" /\ sock = "none"
  /\ errno' = "other"
  /\ Failed
  /\ UNCHANGED <<sock, nonblock, opt, calls, seen>>

\* Mutant: connect() is called every time.
GoesOnNever == FALSE

\* The connection asked for earlier is still under way, says errno.
GoesOn == errno = "EINPROGRESS"

\* connect() is not called.
WaitAgain ==
  /\ pc = "attempt" /\ sock # "none"
  /\ GoesOn
  /\ opt' = nonblock
  /\ nonblock' = TRUE
  /\ pc' = "select"
  /\ UNCHANGED <<cnt, sock, errno, calls, seen>>

\* connect() begins, and the wait for it.
ConnectBegins ==
  /\ pc = "attempt" /\ sock # "none"
  /\ ~GoesOn
  /\ sock = "fresh"
  /\ opt' = nonblock
  /\ nonblock' = TRUE
  /\ sock' = "connecting"
  /\ errno' = "EINPROGRESS"
  /\ pc' = "select"
  /\ UNCHANGED <<cnt, calls, seen>>

\* connect() succeeds at once, and the flags are set and reset.
ConnectSucceeds ==
  /\ pc = "attempt" /\ sock # "none"
  /\ ~GoesOn
  /\ sock = "fresh"
  /\ opt' = nonblock
  /\ sock' = "connected"
  /\ pc' = "returned"
  /\ ErrnoKeptOrNot
  /\ UNCHANGED <<cnt, nonblock, calls, seen>>

\* What connect() says when it fails at once: the error nobody has read, the
\* end of the connection before, or else no route, no port left, or (EALREADY)
\* a connection under way.
ConnectErrno ==
  IF sock = "failed" THEN "ECONNREFUSED"
  ELSE IF sock = "closed" THEN "ECONNABORTED"
  ELSE "other"

ConnectFails ==
  /\ pc = "attempt" /\ sock # "none"
  /\ ~GoesOn
  /\ opt' = nonblock
  /\ errno' = ConnectErrno
  /\ sock' = IF sock = "connecting" THEN sock ELSE "fresh"
  /\ UNCHANGED nonblock
  /\ Failed
  /\ UNCHANGED <<calls, seen>>

\* select() times out: connect_wait returns before it resets the flags.
TimesOut ==
  /\ pc = "select" /\ sock = "connecting"
  /\ seen' = seen \cup {"timeout"}
  /\ Failed
  /\ UNCHANGED <<sock, nonblock, opt, errno, calls>>

\* Mutant: the flags stay as they are.
ResetForgotten == UNCHANGED nonblock

\* "reset socket flags"
ResetFlags == nonblock' = opt

\* Mutant: writable is taken for connected.
FailureUnread == FALSE

\* SO_ERROR is not 0.
Failure == sock = "failed"

\* A socket that is not connecting is writable too.
Writable == sock # "connecting"

Refused ==
  /\ pc = "select" /\ Writable
  /\ Failure
  /\ ResetFlags
  /\ sock' = "closed"
  /\ errno' = "ECONNREFUSED"
  /\ Failed
  /\ UNCHANGED <<opt, calls, seen>>

Connected ==
  /\ pc = "select" /\ Writable
  /\ ~Failure
  /\ ResetFlags
  /\ pc' = "returned"
  /\ UNCHANGED <<cnt, sock, opt, errno, calls, seen>>

-----------------------------------------------------------------------------
(* The network: the server answers, or its host refuses, or neither.       *)

Answer ==
  /\ sock = "connecting"
  /\ sock' \in {"connected", "failed"}
  /\ UNCHANGED <<pc, cnt, nonblock, opt, errno, calls, seen>>

Program ==
  \/ LookupFails \/ OpenSocket \/ Leave
  \/ NoSocket \/ WaitAgain \/ ConnectBegins \/ ConnectSucceeds \/ ConnectFails
  \/ TimesOut \/ Refused \/ Connected

Next == BuildConnection \/ Program \/ Answer

\* The timeout makes select() return whatever the network does.
Spec == Init /\ [][Next]_vars /\ WF_vars(Program)

-----------------------------------------------------------------------------
(* Properties.                                                             *)

\* Between attempts errno tells the truth about the socket, unless it was
\* stale from the start: it is EINPROGRESS exactly when a connection has been
\* asked for whose outcome nobody has looked at.  So no attempt calls
\* connect() twice for one connection, and none waits for a connection that
\* was never asked for (socketClient.cpp:60).
ErrnoTellsTruth ==
  pc = "attempt" /\ "stale" \notin seen =>
    (errno = "EINPROGRESS" <=> sock \in {"connecting", "connected", "failed"})

\* What buildConnection returns is a connected socket, through refusals, time
\* outs and late answers, unless errno was stale when the socket was made
\* (socketClient.cpp:83-100, 127).
ReturnsConnected ==
  pc = "returned" /\ "stale" \notin seen => sock = "connected"

\* It is a blocking one, as every recv() of the client needs, however many
\* attempts were refused, unless one timed out (socketClient.cpp:50-55, 78).
BlockingUnlessTimeout ==
  pc = "returned" /\ "timeout" \notin seen => ~nonblock

\* socketClient.cpp:77, "reset socket flags": the same with no exception.
\* After a timeout the next attempt takes O_NONBLOCK for the flag to restore.
FlagsAreReset == pc = "returned" => ~nonblock

\* Connecting ends, also when the server never answers.
ConnectingEnds == pc = "lookup" ~> pc \in {"returned", "exit"}
=============================================================================
