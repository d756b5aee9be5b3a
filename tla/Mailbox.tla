------------------------------ MODULE Mailbox ------------------------------
(***************************************************************************)
(* What the mailbox store promises its callers, with no locks, files or     *)
(* metadata: each user's box gains and loses one message at a time, a       *)
(* message that was taken out never returns, a save is reported only once   *)
(* the message is in, and a deletion only once it is out.                   *)
(***************************************************************************)
CONSTANTS User, Msg

VARIABLES
  box,       \* the messages a listing shows
  past,      \* the messages that were in the box and were taken out
  saved,     \* the messages whose save was reported as done
  removed    \* the messages whose deletion was reported as done

vars == <<box, past, saved, removed>>

Init == /\ box = [u \in User |-> {}]
        /\ past = [u \in User |-> {}]
        /\ saved = [u \in User |-> {}]
        /\ removed = [u \in User |-> {}]

Deposit(u, m) == /\ m \notin box[u] \union past[u]
                 /\ box' = [box EXCEPT ![u] = @ \union {m}]
                 /\ UNCHANGED <<past, saved, removed>>

Discard(u, m) == /\ m \in box[u]
                 /\ box' = [box EXCEPT ![u] = @ \ {m}]
                 /\ past' = [past EXCEPT ![u] = @ \union {m}]
                 /\ UNCHANGED <<saved, removed>>

ReportSaved(u, m) == /\ m \in box[u] \union past[u]
                     /\ saved' = [saved EXCEPT ![u] = @ \union {m}]
                     /\ UNCHANGED <<box, past, removed>>

ReportRemoved(u, m) == /\ m \in past[u]
                       /\ removed' = [removed EXCEPT ![u] = @ \union {m}]
                       /\ UNCHANGED <<box, past, saved>>

Next == \E u \in User, m \in Msg :
          Deposit(u, m) \/ Discard(u, m) \/ ReportSaved(u, m) \/ ReportRemoved(u, m)

Spec == Init /\ [][Next]_vars
=============================================================================
