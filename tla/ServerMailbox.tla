--------------------------- MODULE ServerMailbox ---------------------------
(* The server implements Mailbox.                                          *)
EXTENDS Server

\* Where u's own chats are in u's history.  A chat to oneself is there twice
\* in a row, once as the sender's and once as the receiver's.
ReceivedAt(u) ==
  LET h == msgDataMap[u]
  IN  {i \in DOMAIN h : h[i].receiver = u /\ (i > 1 => h[i - 1] # h[i])}

DeliveredTo(u) == Picked(msgDataMap[u], ReceivedAt(u))

WaitingFor(u) == IF u \in DOMAIN inboxMap THEN inboxMap[u] ELSE << >>

MB == INSTANCE Mailbox WITH
        Owners <- Users,
        Letters <- Chats,
        waiting <- [u \in Users |-> WaitingFor(u)],
        delivered <- [u \in Users |-> DeliveredTo(u)]

\* The inbox and the history of a receiver are a FIFO mailbox: nothing that
\* was accepted is skipped, reordered, or put in the history twice, whatever
\* connections come and go (service.cpp:68-69, server.cpp:176-203).
ImplementsMailbox == MB!MailboxSpec
=============================================================================
