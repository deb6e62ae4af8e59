------------------------------ MODULE Mailbox ------------------------------
(***************************************************************************)
(* What the server promises about chats, with no sockets in it: a chat     *)
(* that is accepted waits for its receiver, and the chats of a receiver    *)
(* are delivered once each, in the order they were accepted.               *)
(***************************************************************************)
EXTENDS Sequences

CONSTANTS Owners, Letters   \* a letter is a record with a receiver

VARIABLES waiting, delivered

Contents(s) == {s[i] : i \in DOMAIN s}

MailboxInit ==
  /\ waiting = [o \in Owners |-> << >>]
  /\ delivered = [o \in Owners |-> << >>]

Post(l) ==
  /\ l \notin Contents(waiting[l.receiver]) \cup Contents(delivered[l.receiver])
  /\ waiting' = [waiting EXCEPT ![l.receiver] = Append(@, l)]
  /\ UNCHANGED delivered

Deliver(o) ==
  /\ waiting[o] # << >>
  /\ delivered' = [delivered EXCEPT ![o] = Append(@, Head(waiting[o]))]
  /\ waiting' = [waiting EXCEPT ![o] = Tail(@)]

MailboxNext ==
  \/ \E l \in Letters : Post(l)
  \/ \E o \in Owners : Deliver(o)

MailboxSpec == MailboxInit /\ [][MailboxNext]_<<waiting, delivered>>
=============================================================================
