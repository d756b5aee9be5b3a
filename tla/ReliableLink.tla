---------------------------- MODULE ReliableLink ---------------------------
(***************************************************************************)
(* What the RDT layer promises for each direction of a link, with no        *)
(* packets, bits or timers: payloads come out in order and once, and a call *)
(* of send() is confirmed only after one of the payloads that are open came *)
(* out.  The payload of the k-th call is the number k; the open ones are    *)
(* those of the calls since the last confirmed call.                        *)
(***************************************************************************)
EXTENDS Naturals, Sequences

CONSTANT Node

VARIABLES
  accepted,    \* calls of send() at each node
  confirmed,   \* the calls that returned True
  out          \* what came out at the other end

vars == <<accepted, confirmed, out>>

Init == /\ accepted = [n \in Node |-> 0]
        /\ confirmed = [n \in Node |-> {}]
        /\ out = [n \in Node |-> <<>>]

Open(n) == {d \in 1..accepted[n] : \A c \in confirmed[n] : c < d}

OneIsOut(n) == \E i \in DOMAIN out[n] : out[n][i] \in Open(n)

\* send() is called.
Submit(n) == /\ accepted' = [accepted EXCEPT ![n] = @ + 1]
             /\ UNCHANGED <<confirmed, out>>

\* One of the open payloads comes out; the others never will.
Deliver(n) == /\ ~OneIsOut(n)
              /\ \E d \in Open(n) : out' = [out EXCEPT ![n] = Append(@, d)]
              /\ UNCHANGED <<accepted, confirmed>>

\* send() returns True.
Confirm(n) == /\ accepted[n] \in Open(n)
              /\ OneIsOut(n)
              /\ confirmed' = [confirmed EXCEPT ![n] = @ \union {accepted[n]}]
              /\ UNCHANGED <<accepted, out>>

Next == \E n \in Node : Submit(n) \/ Deliver(n) \/ Confirm(n)

Spec == Init /\ [][Next]_vars
=============================================================================
