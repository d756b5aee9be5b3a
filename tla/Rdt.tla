------------------------------- MODULE Rdt ---------------------------------
(***************************************************************************)
(* The RDT 3.0 layer under src/rdt: an RDTDispatcher, an RDTReceiver and    *)
(* an RDTSender at each end of one duplex UDP link.                         *)
(*                                                                         *)
(* A node is one socket with its dispatcher; the packets of both            *)
(* directions (data one way, ACKs the other) share its socket buffer.  A    *)
(* caller is a thread that calls RDTSender.send on its home node's sender;  *)
(* nothing in the code stops two threads from sharing one sender.           *)
(*                                                                         *)
(* The payload of the k-th send() of a node is the number k, so that what   *)
(* came out can be compared with what went in.                              *)
(***************************************************************************)
EXTENDS Naturals, FiniteSets, SequencesExt

CONSTANTS
  Node,         \* the two ends of the link
  Peer,         \* the other end of a node's link
  Caller,       \* the threads that call send()
  Home,         \* the node whose sender a caller uses
  NoCaller,     \* an ack_listeners slot with no entry
  MaxRetries,   \* max_retries of send(): 5 in the code
  Budget,       \* bound: how many calls of send() each node makes
  NetCap,       \* bound: packets a socket buffer holds; what exceeds it is lost
  QueueCap,     \* bound: packets data_queue holds (unbounded in the code)
  ListenerCap,  \* bound: listen loops alive at once at one node
  Fifo,         \* TRUE: packets leave a socket in the order they entered it
  MayStop,      \* the nodes whose dispatcher may be stopped and restarted
  MayReset      \* the nodes whose receiver may forget the peer

ASSUME PeerAssumption == /\ Peer \in [Node -> Node]
                         /\ \A n \in Node : Peer[n] # n /\ Peer[Peer[n]] = n
ASSUME CallerAssumption == Home \in [Caller -> Node] /\ NoCaller \notin Caller
ASSUME BoundAssumption == /\ MaxRetries \in Nat \ {0}
                          /\ Budget \in [Node -> Nat]
                          /\ NetCap \in Nat /\ QueueCap \in Nat /\ ListenerCap \in Nat
                          /\ Fifo \in BOOLEAN
                          /\ MayStop \subseteq Node /\ MayReset \subseteq Node

VARIABLES
  \* The sockets: the packets on their way to, or buffered at, each node.
  net,
  \* RDTDispatcher: the data queue, the ACK routing table and the listen loops.
  data_queue, ack_listeners, running, listeners,
  \* RDTSender and RDTReceiver: their one bit of state each.
  curr_seq, expected_seq,
  \* The locals of each caller inside send().
  pc, attempts, sndpkt, seq_to_use, ack_event,
  \* History: calls of send(), those that returned True, payloads yielded.
  sends, confirmed, delivered

dispatcherVars == <<data_queue, ack_listeners, running, listeners>>
callerVars == <<pc, attempts, sndpkt, seq_to_use, ack_event>>
historyVars == <<sends, confirmed, delivered>>
vars == <<net, dispatcherVars, curr_seq, expected_seq, callerVars, historyVars>>

Bit == {0, 1}
Packet == [ack : BOOLEAN, seq : Bit, data : Nat, valid : BOOLEAN]

make_data_packet(seq, data) == [ack |-> FALSE, seq |-> seq, data |-> data, valid |-> TRUE]
make_ack_packet(seq) == [ack |-> TRUE, seq |-> seq, data |-> 0, valid |-> TRUE]

\* A packet whose bits changed on the way.  The CRC no longer matches, and
\* neither its sequence number nor its payload can be trusted.
Garble(p) == [ack |-> p.ack, seq |-> 1 - p.seq, data |-> 0, valid |-> FALSE]

\* What sendto(p) can make of the socket buffer q: p is lost, arrives, arrives
\* twice or arrives garbled; a buffer that is full loses it.
Carried(q, p) ==
  {r \in {q, Append(q, p), Append(Append(q, p), p), Append(q, Garble(p))} :
     r = q \/ Len(r) <= NetCap}

NoPacket == make_ack_packet(0)

\* Every node's dispatcher is started with its receiver; no packet is under way.
DispatcherInit ==
  /\ data_queue = [n \in Node |-> <<>>]
  /\ ack_listeners = [n \in Node |-> [b \in Bit |-> NoCaller]]
  /\ running = [n \in Node |-> TRUE]
  /\ listeners = [n \in Node |-> 1]

ReceiverInit ==
  /\ expected_seq = [n \in Node |-> 0]
  /\ delivered = [n \in Node |-> <<>>]

SenderInit ==
  /\ curr_seq = [n \in Node |-> 0]
  /\ pc = [t \in Caller |-> "idle"]
  /\ attempts = [t \in Caller |-> 0]
  /\ sndpkt = [t \in Caller |-> NoPacket]
  /\ seq_to_use = [t \in Caller |-> 0]
  /\ ack_event = [t \in Caller |-> FALSE]
  /\ sends = [n \in Node |-> 0]
  /\ confirmed = [n \in Node |-> {}]

Init ==
  /\ net = [n \in Node |-> <<>>]
  /\ DispatcherInit
  /\ ReceiverInit
  /\ SenderInit

-----------------------------------------------------------------------------
(* RDTSender.send                                                          *)

\* The call: the packet is built once, with the bit read at this moment.
Begin(t) == LET n == Home[t] IN
  /\ pc[t] = "idle"
  /\ sends[n] < Budget[n]
  /\ sends' = [sends EXCEPT ![n] = @ + 1]
  /\ sndpkt' = [sndpkt EXCEPT ![t] = make_data_packet(curr_seq[n], sends[n] + 1)]
  /\ attempts' = [attempts EXCEPT ![t] = 0]
  /\ pc' = [pc EXCEPT ![t] = "register"]
  /\ UNCHANGED <<net, dispatcherVars, curr_seq, expected_seq, seq_to_use, ack_event,
                 confirmed, delivered>>

\* A new event takes the slot of the bit in the routing table, whoever held it.
register_ack_waiter(t, seq) ==
  /\ ack_event' = [ack_event EXCEPT ![t] = FALSE]
  /\ ack_listeners' = [ack_listeners EXCEPT ![Home[t]][seq] = t]

\* Mutant: the event of the previous attempt is reused without being cleared.
Register_eventNotCleared(t) == LET n == Home[t] IN
  /\ pc[t] = "register"
  /\ seq_to_use' = [seq_to_use EXCEPT ![t] = curr_seq[n]]
  /\ ack_listeners' = [ack_listeners EXCEPT ![n][curr_seq[n]] = t]
  /\ pc' = [pc EXCEPT ![t] = "transmit"]
  /\ UNCHANGED <<net, data_queue, running, listeners, curr_seq, expected_seq,
                 attempts, sndpkt, ack_event, historyVars>>

\* One attempt starts: curr_seq is read again.
Register(t) == LET n == Home[t] IN
  /\ pc[t] = "register"
  /\ seq_to_use' = [seq_to_use EXCEPT ![t] = curr_seq[n]]
  /\ register_ack_waiter(t, curr_seq[n])
  /\ pc' = [pc EXCEPT ![t] = "transmit"]
  /\ UNCHANGED <<net, data_queue, running, listeners, curr_seq, expected_seq,
                 attempts, sndpkt, historyVars>>

Transmit(t) == LET to == Peer[Home[t]] IN
  /\ pc[t] = "transmit"
  /\ \E r \in Carried(net[to], sndpkt[t]) : net' = [net EXCEPT ![to] = r]
  /\ pc' = [pc EXCEPT ![t] = "wait"]
  /\ UNCHANGED <<dispatcherVars, curr_seq, expected_seq, attempts, sndpkt, seq_to_use,
                 ack_event, historyVars>>

\* Mutant: the bit is not toggled.
AckWake_noToggle(t) == LET n == Home[t] IN
  /\ pc[t] = "wait"
  /\ ack_event[t]
  /\ confirmed' = [confirmed EXCEPT ![n] = @ \union {sndpkt[t].data}]
  /\ pc' = [pc EXCEPT ![t] = "return"]
  /\ UNCHANGED <<net, dispatcherVars, curr_seq, expected_seq, attempts, sndpkt, seq_to_use,
                 ack_event, sends, delivered>>

\* wait() returned True: the bit is toggled before the finally block runs.
AckWake(t) == LET n == Home[t] IN
  /\ pc[t] = "wait"
  /\ ack_event[t]
  /\ curr_seq' = [curr_seq EXCEPT ![n] = 1 - @]
  /\ confirmed' = [confirmed EXCEPT ![n] = @ \union {sndpkt[t].data}]
  /\ pc' = [pc EXCEPT ![t] = "return"]
  /\ UNCHANGED <<net, dispatcherVars, expected_seq, attempts, sndpkt, seq_to_use,
                 ack_event, sends, delivered>>

\* Mutant: the attempt is not counted.
Timeout_notCounted(t) ==
  /\ pc[t] = "wait"
  /\ ~ack_event[t]
  /\ pc' = [pc EXCEPT ![t] = "retry"]
  /\ UNCHANGED <<net, dispatcherVars, curr_seq, expected_seq, attempts, sndpkt, seq_to_use,
                 ack_event, historyVars>>

\* wait() returned False.  An ACK routed after this finds an event nobody reads.
Timeout(t) ==
  /\ pc[t] = "wait"
  /\ ~ack_event[t]
  /\ attempts' = [attempts EXCEPT ![t] = @ + 1]
  /\ pc' = [pc EXCEPT ![t] = "retry"]
  /\ UNCHANGED <<net, dispatcherVars, curr_seq, expected_seq, sndpkt, seq_to_use,
                 ack_event, historyVars>>

\* The finally block: the slot is emptied whoever owns it.
unregister_ack_waiter(t) ==
  ack_listeners' = [ack_listeners EXCEPT ![Home[t]][seq_to_use[t]] = NoCaller]

ReturnTrue(t) ==
  /\ pc[t] = "return"
  /\ unregister_ack_waiter(t)
  /\ pc' = [pc EXCEPT ![t] = "idle"]
  /\ UNCHANGED <<net, data_queue, running, listeners, curr_seq, expected_seq,
                 attempts, sndpkt, seq_to_use, ack_event, historyVars>>

\* Mutant: the waiter is registered once, before the loop.
Retry_notReregistered(t) ==
  /\ pc[t] = "retry"
  /\ attempts[t] < MaxRetries
  /\ unregister_ack_waiter(t)
  /\ pc' = [pc EXCEPT ![t] = "transmit"]
  /\ UNCHANGED <<net, data_queue, running, listeners, curr_seq, expected_seq,
                 attempts, sndpkt, seq_to_use, ack_event, historyVars>>

\* Mutant: the loop condition is off by one.
Retry_onceTooOften(t) ==
  /\ pc[t] = "retry"
  /\ attempts[t] <= MaxRetries
  /\ unregister_ack_waiter(t)
  /\ pc' = [pc EXCEPT ![t] = "register"]
  /\ UNCHANGED <<net, data_queue, running, listeners, curr_seq, expected_seq,
                 attempts, sndpkt, seq_to_use, ack_event, historyVars>>

Retry(t) ==
  /\ pc[t] = "retry"
  /\ attempts[t] < MaxRetries
  /\ unregister_ack_waiter(t)
  /\ pc' = [pc EXCEPT ![t] = "register"]
  /\ UNCHANGED <<net, data_queue, running, listeners, curr_seq, expected_seq,
                 attempts, sndpkt, seq_to_use, ack_event, historyVars>>

\* Mutant: a give-up leaves its waiter registered.
Raise_leaksListener(t) ==
  /\ pc[t] = "retry"
  /\ attempts[t] >= MaxRetries
  /\ pc' = [pc EXCEPT ![t] = "idle"]
  /\ UNCHANGED <<net, dispatcherVars, curr_seq, expected_seq, attempts, sndpkt, seq_to_use,
                 ack_event, historyVars>>

\* ConnectionError("Max retries reached"): curr_seq keeps its value.
Raise(t) ==
  /\ pc[t] = "retry"
  /\ attempts[t] >= MaxRetries
  /\ unregister_ack_waiter(t)
  /\ pc' = [pc EXCEPT ![t] = "idle"]
  /\ UNCHANGED <<net, data_queue, running, listeners, curr_seq, expected_seq,
                 attempts, sndpkt, seq_to_use, ack_event, historyVars>>

-----------------------------------------------------------------------------
(* RDTDispatcher                                                           *)

_handle_ack(n, p) == LET t == ack_listeners[n][p.seq] IN
  /\ ack_event' = [u \in Caller |-> ack_event[u] \/ u = t]
  /\ UNCHANGED data_queue

_handle_data(n, p) ==
  /\ Len(data_queue[n]) < QueueCap
  /\ data_queue' = [data_queue EXCEPT ![n] = Append(@, p)]
  /\ UNCHANGED ack_event

\* Mutant: the checksum is not looked at.
Dispatch_unvalidated(n) ==
  \E i \in 1..Len(net[n]) : LET p == net[n][i] IN
    /\ Fifo => i <= listeners[n]
    /\ listeners[n] > 0
    /\ net' = [net EXCEPT ![n] = RemoveAt(@, i)]
    /\ (p.ack /\ _handle_ack(n, p)) \/ (~p.ack /\ _handle_data(n, p))
    /\ UNCHANGED <<ack_listeners, running, listeners, curr_seq, expected_seq, pc, attempts,
                   sndpkt, seq_to_use, historyVars>>

\* One iteration of a listen loop.  A loop may hold the packet it took from the
\* socket while another loop handles the one behind it, so with k loops alive any
\* of the first k packets can be the next to take effect.
Dispatch(n) ==
  \E i \in 1..Len(net[n]) : LET p == net[n][i] IN
    /\ Fifo => i <= listeners[n]
    /\ listeners[n] > 0
    /\ net' = [net EXCEPT ![n] = RemoveAt(@, i)]
    /\ \/ ~p.valid /\ UNCHANGED <<data_queue, ack_event>>
       \/ p.valid /\ p.ack /\ _handle_ack(n, p)
       \/ p.valid /\ ~p.ack /\ _handle_data(n, p)
    /\ UNCHANGED <<ack_listeners, running, listeners, curr_seq, expected_seq, pc, attempts,
                   sndpkt, seq_to_use, historyVars>>

\* stop() clears the flag; the loop sees it when its recvfrom() comes back, and
\* join() does not wait longer than that may take.
Stop(n) ==
  /\ n \in MayStop
  /\ running[n]
  /\ running' = [running EXCEPT ![n] = FALSE]
  /\ UNCHANGED <<net, data_queue, ack_listeners, listeners, curr_seq, expected_seq, callerVars,
                 historyVars>>

ListenerExit(n) ==
  /\ ~running[n]
  /\ listeners[n] > 0
  /\ listeners' = [listeners EXCEPT ![n] = @ - 1]
  /\ UNCHANGED <<net, data_queue, ack_listeners, running, curr_seq, expected_seq, callerVars,
                 historyVars>>

\* A server that is started again, or a new RDTSender on a stopped dispatcher.
Start(n) ==
  /\ ~running[n]
  /\ listeners[n] < ListenerCap
  /\ running' = [running EXCEPT ![n] = TRUE]
  /\ listeners' = [listeners EXCEPT ![n] = @ + 1]
  /\ UNCHANGED <<net, data_queue, ack_listeners, curr_seq, expected_seq, callerVars, historyVars>>

-----------------------------------------------------------------------------
(* RDTReceiver.start_receiving, one turn of its loop                       *)

get_data_packet(n) ==
  /\ data_queue[n] # <<>>
  /\ data_queue' = [data_queue EXCEPT ![n] = Tail(@)]

SendAck(n, seq) ==
  \E r \in Carried(net[Peer[n]], make_ack_packet(seq)) : net' = [net EXCEPT ![Peer[n]] = r]

\* Mutant: the expected bit is acknowledged instead of the last accepted one.
Reject_wrongAck(n) ==
  /\ get_data_packet(n)
  /\ Head(data_queue[n]).seq # expected_seq[n]
  /\ SendAck(n, expected_seq[n])
  /\ UNCHANGED <<ack_listeners, running, listeners, curr_seq, expected_seq, callerVars,
                 historyVars>>

\* The bit is not the expected one: the last accepted packet is acknowledged again.
Reject(n) ==
  /\ get_data_packet(n)
  /\ Head(data_queue[n]).seq # expected_seq[n]
  /\ SendAck(n, 1 - expected_seq[n])
  /\ UNCHANGED <<ack_listeners, running, listeners, curr_seq, expected_seq, callerVars,
                 historyVars>>

\* Mutant: the bit is not flipped.
Accept_noFlip(n) ==
  /\ get_data_packet(n)
  /\ Head(data_queue[n]).seq = expected_seq[n]
  /\ SendAck(n, expected_seq[n])
  /\ delivered' = [delivered EXCEPT ![n] = Append(@, Head(data_queue[n]).data)]
  /\ UNCHANGED <<ack_listeners, running, listeners, curr_seq, expected_seq, callerVars, sends,
                 confirmed>>

\* The packet is acknowledged, the bit flipped and the payload yielded.
Accept(n) ==
  /\ get_data_packet(n)
  /\ Head(data_queue[n]).seq = expected_seq[n]
  /\ SendAck(n, expected_seq[n])
  /\ expected_seq' = [expected_seq EXCEPT ![n] = 1 - @]
  /\ delivered' = [delivered EXCEPT ![n] = Append(@, Head(data_queue[n]).data)]
  /\ UNCHANGED <<ack_listeners, running, listeners, curr_seq, callerVars, sends, confirmed>>

\* reset_state(addr): the peer's entry is deleted, so 0 is expected again.
ResetState(n) ==
  /\ n \in MayReset
  /\ expected_seq' = [expected_seq EXCEPT ![n] = 0]
  /\ UNCHANGED <<net, dispatcherVars, curr_seq, callerVars, historyVars>>

-----------------------------------------------------------------------------
CallerStep(t) == \/ Register(t) \/ Transmit(t) \/ AckWake(t) \/ Timeout(t)
                 \/ ReturnTrue(t) \/ Retry(t) \/ Raise(t)

NodeStep(n) == \/ Dispatch(n) \/ Reject(n) \/ Accept(n) \/ ResetState(n)
               \/ Stop(n) \/ ListenerExit(n) \/ Start(n)

Next == \/ \E t \in Caller : Begin(t) \/ CallerStep(t)
        \/ \E n \in Node : NodeStep(n)

Spec == Init /\ [][Next]_vars

\* A thread inside send() is never blocked for good: each of its waits has a
\* timeout.  Nothing is assumed of the network or of the receiver.
FairSpec == Spec /\ \A t \in Caller : WF_vars(CallerStep(t))
-----------------------------------------------------------------------------
(* Properties                                                              *)

PcState == {"idle", "register", "transmit", "wait", "return", "retry"}

\* Every variable holds a value of its kind, and no call makes more attempts
\* than max_retries.
TypeOK ==
  /\ net \in [Node -> Seq(Packet)]
  /\ data_queue \in [Node -> Seq(Packet)]
  /\ ack_listeners \in [Node -> [Bit -> Caller \union {NoCaller}]]
  /\ running \in [Node -> BOOLEAN]
  /\ listeners \in [Node -> Nat]
  /\ curr_seq \in [Node -> Bit]
  /\ expected_seq \in [Node -> Bit]
  /\ pc \in [Caller -> PcState]
  /\ attempts \in [Caller -> 0..MaxRetries]
  /\ \A t \in Caller : pc[t] \in {"register", "transmit", "wait"} => attempts[t] < MaxRetries
  /\ sndpkt \in [Caller -> Packet]
  /\ seq_to_use \in [Caller -> Bit]
  /\ ack_event \in [Caller -> BOOLEAN]
  /\ sends \in [Node -> Nat]
  /\ confirmed \in [Node -> SUBSET Nat]
  /\ delivered \in [Node -> Seq(Nat)]

\* The payload with number d was handed to send() after the last call at n that
\* returned True, so it belongs to the calls since then: those that gave up and,
\* when a call is running, the running one.
Open(n, d) == \A c \in confirmed[n] : c < d

\* The receiver yields payloads in the order they were sent and none twice,
\* whatever the network loses, duplicates or garbles and however often the
\* sender retransmits or gives up (start_receiving, receiver 48-74).
InOrderOnce ==
  \A n \in Node : \A i, j \in DOMAIN delivered[n] :
    i < j => delivered[n][i] < delivered[n][j]

\* Only payloads that some call of send() was given are yielded; a garbled one
\* never is (unpack_and_validate, packet 69-78).
NothingInvented ==
  \A n \in Node : \A i \in DOMAIN delivered[n] : delivered[n][i] \in 1..sends[Peer[n]]

\* When send() returned True, the peer yielded a payload of that call or of a
\* call that gave up just before it: a late or a repeated ACK of an older,
\* confirmed call never passes for the ACK of this one (sender 55-59).
ConfirmedMeansDelivered ==
  \A n \in Node : \A c \in confirmed[n] :
    \E i \in DOMAIN delivered[Peer[n]] : LET d == delivered[Peer[n]][i] IN
      /\ d <= c
      /\ \A k \in confirmed[n] : k < c => k < d

\* What the docstring of send() ("Reliable send", sender 35) promises: a payload
\* whose send() returned True was itself yielded by the peer.
SendTrueMeansDelivered ==
  \A n \in Node : confirmed[n] \subseteq ToSet(delivered[Peer[n]])

\* The routing table holds only callers inside an attempt, each under the bit it
\* waits for: nobody is left behind by a timeout or a give-up (sender 64-68), so
\* no late ACK fires the event of a call that has ended.
NoStaleListener ==
  \A n \in Node, b \in Bit : LET t == ack_listeners[n][b] IN
    t # NoCaller => /\ Home[t] = n
                    /\ seq_to_use[t] = b
                    /\ pc[t] \in {"transmit", "wait", "return", "retry"}

\* A caller that waits is the one its ACK will be routed to (sender 46-49): no
\* ACK that arrives before, during or after the transmission is missed.
WaiterRegistered ==
  \A t \in Caller :
    pc[t] \in {"transmit", "wait"} => ack_listeners[Home[t]][seq_to_use[t]] = t

\* Every call of send() returns or raises.
SendTerminates == \A t \in Caller : (pc[t] # "idle") ~> (pc[t] = "idle")

\* Both ends of a link promise what module ReliableLink says of each direction.
Link == INSTANCE ReliableLink WITH
          accepted <- sends,
          out <- [n \in Node |-> delivered[Peer[n]]]
LinkSpec == Link!Spec

-----------------------------------------------------------------------------
(* The inductive invariant behind the safety properties, for links that are *)
(* FIFO, not torn down, and used by one caller at each end.                 *)

IsData(p) == p.valid /\ ~p.ack
IsAck(p) == p.valid /\ p.ack

\* Inside send(), before it is confirmed, the packet carries the current bit and
\* the latest payload, which no call has confirmed.
CallInv(t) == LET n == Home[t] IN
  /\ pc[t] \in {"register", "transmit", "wait", "retry"} =>
       /\ sndpkt[t] = make_data_packet(curr_seq[n], sends[n])
       /\ Open(n, sends[n])
       /\ sends[n] > 0
  /\ pc[t] \in {"transmit", "wait", "retry"} => seq_to_use[t] = curr_seq[n]

\* The packets of n on their way to m's receiver, in both buffers: a packet has
\* the current bit iff its payload is open, and payloads never go backwards.
PathInv(n, m) ==
  /\ \A i \in DOMAIN net[m] : LET p == net[m][i] IN
       IsData(p) => p.data \in 1..sends[n] /\ (p.seq = curr_seq[n] <=> Open(n, p.data))
  /\ \A i \in DOMAIN data_queue[m] : LET p == data_queue[m][i] IN
       p.data \in 1..sends[n] /\ (p.seq = curr_seq[n] <=> Open(n, p.data))
  /\ \A i, j \in DOMAIN net[m] :
       i < j /\ IsData(net[m][i]) /\ IsData(net[m][j]) => net[m][i].data <= net[m][j].data
  /\ \A i, j \in DOMAIN data_queue[m] : i < j => data_queue[m][i].data <= data_queue[m][j].data
  /\ \A i \in DOMAIN data_queue[m], j \in DOMAIN net[m] :
       IsData(net[m][j]) => data_queue[m][i].data <= net[m][j].data

\* While m waits for the current bit of n, it has yielded nothing open and no ACK
\* of that bit is on its way.
AwaitingInv(n, m) == expected_seq[m] = curr_seq[n] =>
  /\ \A i \in DOMAIN delivered[m] : ~Open(n, delivered[m][i])
  /\ \A i \in DOMAIN net[n] : IsAck(net[n][i]) => net[n][i].seq # curr_seq[n]

\* Once m has accepted that bit, it has yielded something open, everything on its
\* way to m is open, and behind the first ACK of the bit come only such ACKs.
AcceptedInv(n, m) == expected_seq[m] # curr_seq[n] =>
  /\ \E i \in DOMAIN delivered[m] : Open(n, delivered[m][i])
  /\ \A i \in DOMAIN net[m] : IsData(net[m][i]) => net[m][i].seq = curr_seq[n]
  /\ \A i \in DOMAIN data_queue[m] : data_queue[m][i].seq = curr_seq[n]
  /\ \A i, j \in DOMAIN net[n] :
       i < j /\ IsAck(net[n][i]) /\ IsAck(net[n][j]) /\ net[n][i].seq = curr_seq[n]
         => net[n][j].seq = curr_seq[n]

\* An event that fired during an attempt was fired by an ACK of the current bit.
EventInv(t) == LET n == Home[t] IN
  pc[t] \in {"transmit", "wait"} /\ ack_event[t] =>
    /\ expected_seq[Peer[n]] # curr_seq[n]
    /\ \A i \in DOMAIN net[n] : IsAck(net[n][i]) => net[n][i].seq = curr_seq[n]

ConfirmedInv == \A n \in Node : confirmed[n] \subseteq 1..sends[n]

\* The strengthening of the safety properties that every step preserves.
LinkInv ==
  /\ InOrderOnce
  /\ NothingInvented
  /\ ConfirmedInv
  /\ ConfirmedMeansDelivered
  /\ \A t \in Caller : CallInv(t) /\ EventInv(t)
  /\ \A n \in Node : /\ PathInv(n, Peer[n])
                     /\ AwaitingInv(n, Peer[n])
                     /\ AcceptedInv(n, Peer[n])
=============================================================================
