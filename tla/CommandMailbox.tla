---------------------------- MODULE CommandMailbox ----------------------------
(***************************************************************************)
(* What on_message() and process_messages() of broadcastTest.cpp promise   *)
(* together: the commands of all clients are handled one at a time, each   *)
(* exactly once, in the order in which they were accepted, until the       *)
(* process dies.  Commands are named by their place in that order.         *)
(***************************************************************************)
EXTENDS Naturals

CONSTANT MaxCommands  \* bound: commands the clients send altogether

VARIABLES
  accepted,   \* commands taken from clients
  current,    \* the command being handled, 0 when there is none
  served,     \* commands handled to their end
  dead        \* the process has died

mailbox == <<accepted, current, served, dead>>

MailboxInit == accepted = 0 /\ current = 0 /\ served = 0 /\ dead = FALSE

Accept ==
  /\ ~dead /\ accepted < MaxCommands
  /\ accepted' = accepted + 1
  /\ UNCHANGED <<current, served, dead>>

Take ==
  /\ ~dead /\ current = 0 /\ served < accepted
  /\ current' = served + 1
  /\ UNCHANGED <<accepted, served, dead>>

Finish ==
  /\ ~dead /\ current # 0
  /\ served' = current
  /\ current' = 0
  /\ UNCHANGED <<accepted, dead>>

Die ==
  /\ ~dead /\ dead' = TRUE
  /\ UNCHANGED <<accepted, current, served>>

MailboxNext == Accept \/ Take \/ Finish \/ Die

MailboxOrder == MailboxInit /\ [][MailboxNext]_mailbox

\* The server takes and finishes what it has accepted.
MailboxSpec == MailboxOrder /\ WF_mailbox(Take) /\ WF_mailbox(Finish)

=============================================================================
