--------------------------- MODULE MCMailboxStore ---------------------------
(* Instances of MailboxStore for TLC: one user's mailbox, two worker threads. *)
(* Mailboxes of different users share no state, so one is enough.             *)
EXTENDS MailboxStore
=============================================================================
