----------------------------- MODULE RdtProofs -----------------------------
(***************************************************************************)
(* Theorems about module Rdt: types, the routing table and what is never    *)
(* invented on any link; and the safety of a link, whose invariant LinkInv  *)
(* is inductive when packets leave a socket in the order they entered it,   *)
(* nothing is torn down, and at most one thread sends at each end.          *)
(***************************************************************************)
EXTENDS Rdt, SequenceLemmas, SequenceTheorems, TLAPS

-----------------------------------------------------------------------------
(* Lemmas on the operators of the network                                  *)

\* sendto() adds at most copies of the packet and garbled packets, at the end.
LEMMA CarriedLemma ==
  ASSUME NEW q \in Seq(Packet), NEW p \in Packet, NEW r \in Carried(q, p)
  PROVE  /\ r \in Seq(Packet)
         /\ Len(q) <= Len(r)
         /\ \A i \in 1..Len(q) : r[i] = q[i]
         /\ \A i \in (Len(q) + 1)..Len(r) : r[i] = p \/ ~r[i].valid
<1>1. Garble(p) \in Packet /\ ~Garble(p).valid
  BY DEF Garble, Packet, Bit
<1>2. CASE r = q
  BY <1>2
<1>3. CASE r = Append(q, p)
  BY <1>3
<1>4. CASE r = Append(Append(q, p), p)
  <2> DEFINE u == Append(q, p)
  <2>1. u \in Seq(Packet) /\ Len(u) = Len(q) + 1 /\ u[Len(q) + 1] = p
        /\ \A i \in 1..Len(q) : u[i] = q[i]
    OBVIOUS
  <2> HIDE DEF u
  <2>2. r = Append(u, p)
    BY <1>4 DEF u
  <2> QED
    BY <2>1, <2>2
<1>5. CASE r = Append(q, Garble(p))
  <2> DEFINE g == Garble(p)
  <2>1. g \in Packet /\ ~g.valid
    BY <1>1
  <2> HIDE DEF g
  <2>2. r = Append(q, g)
    BY <1>5 DEF g
  <2> QED
    BY <2>1, <2>2
<1> QED
  BY <1>2, <1>3, <1>4, <1>5 DEF Carried

\* Both constructors build packets.
LEMMA PacketLemma ==
  ASSUME NEW b \in Bit, NEW d \in Nat
  PROVE  /\ make_data_packet(b, d) \in Packet
         /\ make_ack_packet(b) \in Packet
         /\ 1 - b \in Bit
BY DEF make_data_packet, make_ack_packet, Packet, Bit
-----------------------------------------------------------------------------
(* Type correctness, for every link and any number of callers              *)

\* sendto() on the way to node n leaves the sockets well typed.
LEMMA NetType ==
  ASSUME TypeOK, NEW n \in Node, NEW p \in Packet,
         \E r \in Carried(net[n], p) : net' = [net EXCEPT ![n] = r]
  PROVE  net' \in [Node -> Seq(Packet)]
<1>1. PICK r \in Carried(net[n], p) : net' = [net EXCEPT ![n] = r]
  OBVIOUS
<1>2. net[n] \in Seq(Packet) /\ net \in [Node -> Seq(Packet)]
  BY DEF TypeOK
<1>3. r \in Seq(Packet)
  BY <1>2, CarriedLemma
<1> QED
  BY <1>1, <1>2, <1>3

LEMMA TypeInit == Init => TypeOK
BY BoundAssumption DEF DispatcherInit, ReceiverInit, SenderInit, Init, TypeOK, PcState, Bit,
  NoPacket, make_ack_packet, Packet

LEMMA TypeStep == TypeOK /\ [Next]_vars => TypeOK'
<1> SUFFICES ASSUME TypeOK, [Next]_vars
             PROVE  TypeOK'
  OBVIOUS
<1> USE PeerAssumption, CallerAssumption, BoundAssumption
<1>1. ASSUME NEW t \in Caller, Begin(t)
      PROVE  TypeOK'
  <2> DEFINE p == make_data_packet(curr_seq[Home[t]], sends[Home[t]] + 1)
  <2>1. p \in Packet
    <3>1. Home[t] \in Node
      OBVIOUS
    <3>2. curr_seq[Home[t]] \in Bit /\ sends[Home[t]] + 1 \in Nat
      BY <3>1 DEF TypeOK
    <3> QED
      BY <3>2, PacketLemma
  <2> HIDE DEF p
  <2>2. sndpkt' = [sndpkt EXCEPT ![t] = p]
    BY <1>1 DEF Begin, p
  <2>3. sndpkt' \in [Caller -> Packet]
    BY <2>1, <2>2 DEF TypeOK
  <2> QED
    BY <1>1, <2>3, SMTT(30) DEF TypeOK, Begin, PcState, dispatcherVars
<1>2. ASSUME NEW t \in Caller, Register(t)
      PROVE  TypeOK'
  BY <1>2 DEF register_ack_waiter, TypeOK, Register, PcState, historyVars
<1>3. ASSUME NEW t \in Caller, Transmit(t)
      PROVE  TypeOK'
  <2>1. net' \in [Node -> Seq(Packet)]
    BY <1>3, NetType DEF Transmit, TypeOK
  <2> QED
    BY <1>3, <2>1 DEF TypeOK, Transmit, PcState, dispatcherVars, historyVars
<1>4. ASSUME NEW t \in Caller, AckWake(t)
      PROVE  TypeOK'
  <2>1. sndpkt[t].data \in Nat
    BY DEF TypeOK, Packet
  <2>2. confirmed' \in [Node -> SUBSET Nat]
    BY <1>4, <2>1 DEF AckWake, TypeOK
  <2>3. curr_seq' \in [Node -> Bit]
    <3>1. 1 - curr_seq[Home[t]] \in Bit
      BY PacketLemma DEF TypeOK
    <3> QED
      BY <1>4, <3>1 DEF AckWake, TypeOK
  <2> QED
    BY <1>4, <2>2, <2>3 DEF TypeOK, AckWake, PcState, dispatcherVars
<1>5. ASSUME NEW t \in Caller, Timeout(t)
      PROVE  TypeOK'
  BY <1>5, SMTT(30) DEF TypeOK, Timeout, PcState, dispatcherVars, historyVars
<1>6. ASSUME NEW t \in Caller, ReturnTrue(t)
      PROVE  TypeOK'
  BY <1>6 DEF TypeOK, ReturnTrue, unregister_ack_waiter, PcState, historyVars
<1>7. ASSUME NEW t \in Caller, Retry(t)
      PROVE  TypeOK'
  BY <1>7 DEF TypeOK, Retry, unregister_ack_waiter, PcState, historyVars
<1>8. ASSUME NEW t \in Caller, Raise(t)
      PROVE  TypeOK'
  BY <1>8 DEF TypeOK, Raise, unregister_ack_waiter, PcState, historyVars
<1>9. ASSUME NEW n \in Node, Dispatch(n)
      PROVE  TypeOK'
  <2>1. PICK i \in 1..Len(net[n]) :
          /\ net' = [net EXCEPT ![n] = RemoveAt(@, i)]
          /\ \/ UNCHANGED <<data_queue, ack_event>>
             \/ _handle_ack(n, net[n][i])
             \/ _handle_data(n, net[n][i])
    BY <1>9 DEF Dispatch
  <2>2. net' \in [Node -> Seq(Packet)]
    BY <2>1, RemoveAtLemma DEF TypeOK
  <2>3. net[n][i] \in Packet
    BY DEF TypeOK
  <2>4. /\ data_queue' \in [Node -> Seq(Packet)]
        /\ ack_event' \in [Caller -> BOOLEAN]
    <3>1. CASE UNCHANGED <<data_queue, ack_event>>
      BY <3>1 DEF TypeOK
    <3>2. CASE _handle_ack(n, net[n][i])
      BY <3>2 DEF TypeOK, _handle_ack
    <3>3. CASE _handle_data(n, net[n][i])
      BY <3>3, <2>3 DEF TypeOK, _handle_data
    <3> QED
      BY <2>1, <3>1, <3>2, <3>3
  <2>5. UNCHANGED <<ack_listeners, running, listeners, curr_seq, expected_seq, pc, attempts,
                    sndpkt, seq_to_use, sends, confirmed, delivered>>
    BY <1>9 DEF Dispatch, historyVars
  <2> QED
    BY <2>2, <2>4, <2>5 DEF TypeOK
<1>10. ASSUME NEW n \in Node, Reject(n)
       PROVE  TypeOK'
  <2>1. make_ack_packet(1 - expected_seq[n]) \in Packet
    BY PacketLemma DEF TypeOK, Bit
  <2>2. net' \in [Node -> Seq(Packet)]
    BY <1>10, <2>1, NetType DEF get_data_packet, Reject, SendAck
  <2>3. data_queue' \in [Node -> Seq(Packet)]
    BY <1>10 DEF get_data_packet, Reject, TypeOK
  <2> QED
    BY <1>10, <2>2, <2>3 DEF get_data_packet, TypeOK, Reject, callerVars, historyVars
<1>11. ASSUME NEW n \in Node, Accept(n)
       PROVE  TypeOK'
  <2>1. make_ack_packet(expected_seq[n]) \in Packet
    BY PacketLemma DEF TypeOK
  <2>2. net' \in [Node -> Seq(Packet)]
    BY <1>11, <2>1, NetType DEF get_data_packet, Accept, SendAck
  <2>3. Head(data_queue[n]).data \in Nat
    <3>1. data_queue[n] \in Seq(Packet) /\ data_queue[n] # <<>>
      BY <1>11 DEF get_data_packet, Accept, TypeOK
    <3>2. Head(data_queue[n]) \in Packet
      BY <3>1
    <3> QED
      BY <3>2 DEF Packet
  <2>4. /\ data_queue' \in [Node -> Seq(Packet)]
        /\ delivered' \in [Node -> Seq(Nat)]
    BY <1>11, <2>3 DEF get_data_packet, Accept, TypeOK
  <2>5. expected_seq' \in [Node -> Bit]
    <3>1. 1 - expected_seq[n] \in Bit
      BY PacketLemma DEF TypeOK
    <3> QED
      BY <1>11, <3>1 DEF get_data_packet, Accept, TypeOK
  <2> QED
    BY <1>11, <2>2, <2>4, <2>5 DEF get_data_packet, TypeOK, Accept, callerVars
<1>12. ASSUME NEW n \in Node, ResetState(n)
       PROVE  TypeOK'
  BY <1>12 DEF TypeOK, ResetState, Bit, dispatcherVars, callerVars, historyVars
<1>13. ASSUME NEW n \in Node, Stop(n) \/ ListenerExit(n) \/ Start(n)
       PROVE  TypeOK'
  <2>1. CASE Stop(n)
    BY <2>1 DEF TypeOK, Stop, callerVars, historyVars
  <2>2. CASE ListenerExit(n)
    <3>1. listeners[n] - 1 \in Nat
      BY <2>2 DEF TypeOK, ListenerExit
    <3>2. listeners' \in [Node -> Nat]
      BY <2>2, <3>1 DEF TypeOK, ListenerExit
    <3> QED
      BY <2>2, <3>2 DEF TypeOK, ListenerExit, callerVars, historyVars
  <2>3. CASE Start(n)
    BY <2>3, SMTT(30) DEF TypeOK, Start, callerVars, historyVars
  <2> QED
    BY <1>13, <2>1, <2>2, <2>3
<1>14. CASE UNCHANGED vars
  BY <1>14 DEF TypeOK, vars, dispatcherVars, callerVars, historyVars
<1> QED
  BY <1>1, <1>2, <1>3, <1>4, <1>5, <1>6, <1>7, <1>8, <1>9, <1>10, <1>11, <1>12, <1>13, <1>14
  DEF Next, CallerStep, NodeStep

\* Type correctness: every variable holds a value of its kind, and no call makes
\* more attempts than max_retries.
THEOREM TypeCorrect == Spec => []TypeOK
<1> QED
  BY TypeInit, TypeStep, PTL DEF Spec
-----------------------------------------------------------------------------
(* The routing table, for every link and any number of callers             *)

LEMMA StaleInit == Init => NoStaleListener
BY DEF DispatcherInit, ReceiverInit, SenderInit, Init, NoStaleListener

LEMMA StaleStep == TypeOK /\ NoStaleListener /\ [Next]_vars => NoStaleListener'
<1> SUFFICES ASSUME TypeOK, NoStaleListener, [Next]_vars
             PROVE  NoStaleListener'
  OBVIOUS
<1> USE CallerAssumption
<1>1. ASSUME UNCHANGED <<ack_listeners, seq_to_use, pc>>
      PROVE  NoStaleListener'
  BY <1>1 DEF NoStaleListener
\* A caller that is not in an attempt owns no slot, so what it does to its locals
\* and to the slot it is about to take disturbs no entry of another.
<1>2. ASSUME NEW t \in Caller, Begin(t)
      PROVE  NoStaleListener'
  BY <1>2 DEF Begin, NoStaleListener, TypeOK, dispatcherVars
<1>3. ASSUME NEW t \in Caller, Register(t)
      PROVE  NoStaleListener'
  <2>1. Home[t] \in Node /\ curr_seq[Home[t]] \in Bit
    BY DEF TypeOK
  <2>2. /\ seq_to_use' = [seq_to_use EXCEPT ![t] = curr_seq[Home[t]]]
        /\ pc' = [pc EXCEPT ![t] = "transmit"]
        /\ pc[t] = "register"
    BY <1>3 DEF Register
  <2>3. \A n \in Node, b \in Bit :
          ack_listeners'[n][b] = IF n = Home[t] /\ b = curr_seq[n] THEN t ELSE ack_listeners[n][b]
    BY <1>3, <2>1 DEF Register, register_ack_waiter, TypeOK
  <2>4. \A u \in Caller \ {t} : seq_to_use'[u] = seq_to_use[u] /\ pc'[u] = pc[u]
    BY <2>2 DEF TypeOK
  <2>5. seq_to_use'[t] = curr_seq[Home[t]] /\ pc'[t] = "transmit"
    BY <2>2 DEF TypeOK
  <2>6. \A n \in Node, b \in Bit : ack_listeners[n][b] \in (Caller \ {t}) \union {NoCaller}
    <3> SUFFICES ASSUME NEW n \in Node, NEW b \in Bit
                 PROVE  ack_listeners[n][b] \in (Caller \ {t}) \union {NoCaller}
      OBVIOUS
    <3>1. ack_listeners[n][b] \in Caller \union {NoCaller}
      BY DEF TypeOK
    <3>2. ack_listeners[n][b] # t
      BY <2>2 DEF NoStaleListener
    <3> QED
      BY <3>1, <3>2
  <2> QED
    BY <2>3, <2>4, <2>5, <2>6 DEF NoStaleListener
<1>4. ASSUME NEW t \in Caller, Transmit(t) \/ AckWake(t) \/ Timeout(t)
      PROVE  NoStaleListener'
  BY <1>4 DEF Transmit, AckWake, Timeout, NoStaleListener, TypeOK, dispatcherVars
\* A caller that leaves an attempt empties the only slot it may own.
<1>5. ASSUME NEW t \in Caller, ReturnTrue(t) \/ Retry(t) \/ Raise(t)
      PROVE  NoStaleListener'
  <2>1. /\ Home[t] \in Node /\ seq_to_use[t] \in Bit
        /\ ack_listeners' = [ack_listeners EXCEPT ![Home[t]][seq_to_use[t]] = NoCaller]
        /\ UNCHANGED seq_to_use
        /\ \A u \in Caller : u # t => pc'[u] = pc[u]
    BY <1>5 DEF ReturnTrue, Retry, Raise, unregister_ack_waiter, TypeOK
  <2> SUFFICES ASSUME NEW n \in Node, NEW b \in Bit, ack_listeners'[n][b] # NoCaller
               PROVE  LET u == ack_listeners'[n][b] IN
                        /\ Home[u] = n
                        /\ seq_to_use'[u] = b
                        /\ pc'[u] \in {"transmit", "wait", "return", "retry"}
    BY DEF NoStaleListener
  <2> DEFINE u == ack_listeners[n][b]
  <2>2. ack_listeners'[n][b] = u /\ ~(n = Home[t] /\ b = seq_to_use[t])
    BY <2>1 DEF TypeOK
  <2>3. /\ u \in Caller /\ Home[u] = n /\ seq_to_use[u] = b
        /\ pc[u] \in {"transmit", "wait", "return", "retry"}
    BY <2>2 DEF NoStaleListener, TypeOK
  <2> QED
    BY <2>1, <2>2, <2>3
<1>6. ASSUME NEW n \in Node, NodeStep(n)
      PROVE  NoStaleListener'
  BY <1>1, <1>6 DEF get_data_packet, NodeStep, Dispatch, Reject, Accept, ResetState, Stop,
    ListenerExit, Start,
                    dispatcherVars, callerVars
<1>7. CASE UNCHANGED vars
  BY <1>1, <1>7 DEF vars, dispatcherVars, callerVars
<1> QED
  BY <1>2, <1>3, <1>4, <1>5, <1>6, <1>7 DEF Next, CallerStep

\* The routing table holds only callers inside an attempt, under the bit they wait
\* for: no timeout, give-up, restart or second caller leaves an entry behind.
THEOREM NoListenerLeaks == Spec => []NoStaleListener
<1> QED
  BY TypeInit, TypeStep, StaleInit, StaleStep, PTL DEF Spec
-----------------------------------------------------------------------------
(* Where payloads come from, for every link, caller and teardown           *)

Sent(n, d) == d \in 1..sends[n]

\* A packet that can be taken for data carries a payload that the peer sent.
Genuine(n, p) == IsData(p) => Sent(Peer[n], p.data)

\* What a caller sends, what is on its way and what is queued is genuine.
SentInv ==
  /\ \A t \in Caller :
       pc[t] \in {"register", "transmit", "wait", "retry"} => Sent(Home[t], sndpkt[t].data)
  /\ \A n \in Node : \A i \in DOMAIN net[n] : Genuine(n, net[n][i])
  /\ \A n \in Node : \A i \in DOMAIN data_queue[n] : Sent(Peer[n], data_queue[n][i].data)
  /\ NothingInvented

LEMMA SentInit == Init => SentInv
BY DEF DispatcherInit, ReceiverInit, SenderInit, Init, SentInv, NothingInvented

\* sendto() of a packet that is genuine at n leaves its buffer genuine.
LEMMA CarriesGenuine ==
  ASSUME TypeOK, SentInv, NEW n \in Node, NEW p \in Packet, Genuine(n, p),
         \E r \in Carried(net[n], p) : net' = [net EXCEPT ![n] = r]
  PROVE  \A m \in Node : \A i \in DOMAIN net'[m] : Genuine(m, net'[m][i])
<1>1. PICK r \in Carried(net[n], p) : net' = [net EXCEPT ![n] = r]
  OBVIOUS
<1>2. net[n] \in Seq(Packet) /\ net \in [Node -> Seq(Packet)]
  BY DEF TypeOK
<1>3. ASSUME NEW i \in DOMAIN r PROVE Genuine(n, r[i])
  <2>1. /\ r \in Seq(Packet) /\ Len(net[n]) <= Len(r)
        /\ \A j \in 1..Len(net[n]) : r[j] = net[n][j]
        /\ \A j \in (Len(net[n]) + 1)..Len(r) : r[j] = p \/ ~r[j].valid
    BY <1>2, CarriedLemma
  <2>2. CASE i <= Len(net[n])
    BY <2>1, <2>2, <1>2 DEF SentInv
  <2>3. CASE ~(i <= Len(net[n]))
    <3>1. r[i] = p \/ ~r[i].valid
      BY <2>1, <2>3, <1>2
    <3> QED
      BY <3>1 DEF Genuine, IsData
  <2> QED
    BY <2>2, <2>3
<1> QED
  BY <1>1, <1>2, <1>3 DEF SentInv

LEMMA SentStep == TypeOK /\ SentInv /\ [Next]_vars => SentInv'
<1> SUFFICES ASSUME TypeOK, SentInv, [Next]_vars
             PROVE  SentInv'
  OBVIOUS
<1> USE PeerAssumption, CallerAssumption
\* Most steps neither send nor take a packet.
<1>1. ASSUME UNCHANGED <<net, data_queue, sends, delivered>>,
             \A t \in Caller : /\ sndpkt'[t] = sndpkt[t]
                               /\ pc'[t] \in {"register", "transmit", "wait", "retry"} =>
                                    pc[t] \in {"register", "transmit", "wait", "retry"}
      PROVE  SentInv'
  BY <1>1 DEF SentInv, NothingInvented, Sent, Genuine
<1>2. ASSUME NEW t \in Caller, Begin(t)
      PROVE  SentInv'
  <2>1. \A n \in Node : \A d : Sent(n, d) => Sent(n, d)'
    BY <1>2 DEF Begin, Sent, TypeOK
  <2>2. sends[Home[t]] + 1 \in 1..sends'[Home[t]]
    BY <1>2 DEF Begin, TypeOK
  <2>3. \A u \in Caller :
          pc'[u] \in {"register", "transmit", "wait", "retry"} => Sent(Home[u], sndpkt[u].data)'
    <3> SUFFICES ASSUME NEW u \in Caller, pc'[u] \in {"register", "transmit", "wait", "retry"}
                 PROVE  sndpkt'[u].data \in 1..sends'[Home[u]]
      BY DEF Sent
    <3>1. CASE u = t
      BY <1>2, <2>2, <3>1 DEF Begin, TypeOK, make_data_packet
    <3>2. CASE u # t
      BY <1>2, <2>1, <3>2 DEF Begin, SentInv, TypeOK, Sent
    <3> QED
      BY <3>1, <3>2
  <2> QED
    BY <1>2, <2>1, <2>3 DEF Begin, SentInv, NothingInvented, Genuine, Sent, dispatcherVars
<1>3. ASSUME NEW t \in Caller, Transmit(t)
      PROVE  SentInv'
  <2> DEFINE n == Peer[Home[t]]
  <2>1. n \in Node /\ Peer[n] = Home[t] /\ sndpkt[t] \in Packet
    BY DEF TypeOK
  <2>2. Genuine(n, sndpkt[t])
    BY <1>3, <2>1 DEF Transmit, SentInv, Genuine
  <2>3. \A m \in Node : \A i \in DOMAIN net'[m] : Genuine(m, net'[m][i])
    BY <1>3, <2>1, <2>2, CarriesGenuine DEF Transmit
  <2>4. UNCHANGED <<data_queue, sends, delivered, sndpkt>>
        /\ \A u \in Caller : pc'[u] = pc[u] \/ (u = t /\ pc[t] = "transmit")
    BY <1>3 DEF Transmit, dispatcherVars, historyVars, TypeOK
  <2> QED
    BY <2>3, <2>4 DEF SentInv, NothingInvented, Genuine, Sent
<1>4. ASSUME NEW t \in Caller, Register(t) \/ AckWake(t) \/ Timeout(t) \/ ReturnTrue(t)
                              \/ Retry(t) \/ Raise(t)
      PROVE  SentInv'
  <2>1. UNCHANGED <<net, data_queue, sends, delivered, sndpkt>>
    BY <1>4 DEF Register, AckWake, Timeout, ReturnTrue, Retry, Raise, dispatcherVars, historyVars
  <2>2. \A u \in Caller : pc'[u] \in {"register", "transmit", "wait", "retry"} =>
                          pc[u] \in {"register", "transmit", "wait", "retry"}
    BY <1>4 DEF Register, AckWake, Timeout, ReturnTrue, Retry, Raise, TypeOK
  <2> QED
    BY <1>1, <2>1, <2>2
<1>5. ASSUME NEW n \in Node, Dispatch(n)
      PROVE  SentInv'
  <2>1. PICK i \in 1..Len(net[n]) :
          /\ net' = [net EXCEPT ![n] = RemoveAt(@, i)]
          /\ \/ UNCHANGED data_queue
             \/ IsData(net[n][i]) /\ data_queue' = [data_queue EXCEPT ![n] = Append(@, net[n][i])]
    BY <1>5 DEF Dispatch, _handle_ack, _handle_data, IsData
  <2>2. /\ UNCHANGED <<sends, delivered, sndpkt, pc>>
        /\ net[n] \in Seq(Packet) /\ data_queue[n] \in Seq(Packet) /\ net[n][i] \in Packet
        /\ net \in [Node -> Seq(Packet)] /\ data_queue \in [Node -> Seq(Packet)]
    BY <1>5 DEF Dispatch, historyVars, TypeOK
  <2>3. \A m \in Node : \A j \in DOMAIN net'[m] : Genuine(m, net'[m][j])
    <3>1. \A j \in DOMAIN RemoveAt(net[n], i) : \E k \in DOMAIN net[n] :
             RemoveAt(net[n], i)[j] = net[n][k]
      <4> DEFINE r == RemoveAt(net[n], i)
      <4>1. /\ r \in Seq(Packet) /\ Len(r) = Len(net[n]) - 1
            /\ \A j \in 1..(Len(net[n]) - 1) :
                 r[j] = IF j < i THEN net[n][j] ELSE net[n][j + 1]
        BY <2>2, RemoveAtLemma
      <4> HIDE DEF r
      <4>2. \A j \in DOMAIN r : j \in DOMAIN net[n] /\ j + 1 \in DOMAIN net[n]
        BY <4>1, <2>2
      <4>3. \A j \in DOMAIN r : \E k \in DOMAIN net[n] : r[j] = net[n][k]
        BY <4>1, <4>2, <2>2
      <4> QED
        BY <4>3 DEF r
    <3> QED
      BY <2>1, <2>2, <3>1 DEF SentInv, Genuine, Sent
  <2>4. \A m \in Node : \A j \in DOMAIN data_queue'[m] : Sent(Peer[m], data_queue'[m][j].data)
    <3>1. CASE UNCHANGED data_queue
      BY <3>1 DEF SentInv
    <3>2. CASE IsData(net[n][i]) /\ data_queue' = [data_queue EXCEPT ![n] = Append(@, net[n][i])]
      <4>1. Sent(Peer[n], net[n][i].data)
        BY <2>2, <3>2 DEF SentInv, Genuine
      <4> QED
        BY <2>2, <3>2, <4>1 DEF SentInv
    <3> QED
      BY <2>1, <3>1, <3>2
  <2> QED
    BY <2>2, <2>3, <2>4 DEF SentInv, NothingInvented, Genuine, Sent
<1>6. ASSUME NEW n \in Node, Reject(n) \/ Accept(n)
      PROVE  SentInv'
  <2>1. /\ data_queue[n] # <<>> /\ data_queue' = [data_queue EXCEPT ![n] = Tail(@)]
        /\ UNCHANGED <<sends, sndpkt, pc>>
        /\ \/ UNCHANGED delivered
           \/ delivered' = [delivered EXCEPT ![n] = Append(@, Head(data_queue[n]).data)]
    BY <1>6 DEF Reject, Accept, get_data_packet, callerVars, historyVars
  <2>2. PICK b \in Bit : SendAck(n, b)
    BY <1>6, PacketLemma DEF Reject, Accept, TypeOK
  <2>3. Peer[n] \in Node /\ make_ack_packet(b) \in Packet /\ Genuine(Peer[n], make_ack_packet(b))
    BY PacketLemma DEF Genuine, IsData, make_ack_packet
  <2>4. \A m \in Node : \A i \in DOMAIN net'[m] : Genuine(m, net'[m][i])
    BY <2>2, <2>3, CarriesGenuine DEF SendAck
  <2>5. data_queue[n] \in Seq(Packet) /\ data_queue \in [Node -> Seq(Packet)]
        /\ delivered \in [Node -> Seq(Nat)] /\ Head(data_queue[n]) = data_queue[n][1]
        /\ data_queue[n][1] \in Packet /\ 1 \in DOMAIN data_queue[n]
    BY <2>1 DEF TypeOK
  <2>6. \A m \in Node : \A i \in DOMAIN data_queue'[m] : Sent(Peer[m], data_queue'[m][i].data)
    BY <2>1, <2>5 DEF SentInv
  <2>7. \A m \in Node : \A i \in DOMAIN delivered'[m] : Sent(Peer[m], delivered'[m][i])
    <3>1. Sent(Peer[n], data_queue[n][1].data) /\ data_queue[n][1].data \in Nat
      BY <2>5 DEF SentInv, Packet
    <3>2. \A m \in Node : \A i \in DOMAIN delivered[m] : Sent(Peer[m], delivered[m][i])
      BY DEF SentInv, NothingInvented, Sent
    <3>3. CASE UNCHANGED delivered
      BY <2>1, <3>2, <3>3 DEF Sent
    <3>4. CASE delivered' = [delivered EXCEPT ![n] = Append(@, Head(data_queue[n]).data)]
      <4>1. \A m \in Node : m # n => delivered'[m] = delivered[m]
        BY <2>5, <3>4
      <4>2. \A i \in DOMAIN delivered'[n] : Sent(Peer[n], delivered'[n][i])
        BY <2>5, <3>1, <3>2, <3>4
      <4> QED
        BY <3>2, <4>1, <4>2
    <3> QED
      BY <2>1, <3>3, <3>4
  <2> QED
    BY <2>1, <2>4, <2>6, <2>7 DEF SentInv, NothingInvented, Genuine, Sent
<1>7. ASSUME NEW n \in Node, ResetState(n) \/ Stop(n) \/ ListenerExit(n) \/ Start(n)
      PROVE  SentInv'
  BY <1>1, <1>7 DEF ResetState, Stop, ListenerExit, Start, dispatcherVars, callerVars, historyVars
<1>8. CASE UNCHANGED vars
  BY <1>1, <1>8 DEF vars, dispatcherVars, callerVars, historyVars
<1> QED
  BY <1>2, <1>3, <1>4, <1>5, <1>6, <1>7, <1>8 DEF Next, CallerStep, NodeStep

\* Only payloads that some call of send() was given are yielded, for any number of callers,
\* garbled packets, restarts with two listen loops and resets.
THEOREM NothingIsInvented == Spec => []NothingInvented
<1>1. SentInv => NothingInvented
  BY DEF SentInv
<1> QED
  BY <1>1, TypeInit, TypeStep, SentInit, SentStep, PTL DEF Spec

-----------------------------------------------------------------------------
(* The safety of a link                                                    *)

\* At most one thread calls send() at a node.
OneCaller == \A t, u \in Caller : Home[t] = Home[u] => t = u

\* The conditions under which a link is reliable.
QuietLink == Fifo = TRUE /\ MayStop = {} /\ MayReset = {} /\ OneCaller

\* Without teardown the one listen loop of each dispatcher stays alive.
AliveInv == \A n \in Node : running[n] /\ listeners[n] = 1

IInv == TypeOK /\ NoStaleListener /\ WaiterRegistered /\ AliveInv /\ LinkInv

LEMMA PeerLemma ==
  ASSUME NEW n \in Node
  PROVE  /\ Peer[n] \in Node /\ Peer[n] # n /\ Peer[Peer[n]] = n
         /\ \A k \in Node : Peer[k] = Peer[n] => k = n
BY PeerAssumption

\* CarriedLemma by index: what was in the buffer keeps its place, and behind it
\* come copies of the packet and garbled packets.
LEMMA SentLemma ==
  ASSUME NEW q \in Seq(Packet), NEW p \in Packet, NEW r \in Carried(q, p)
  PROVE  /\ r \in Seq(Packet)
         /\ \A i \in DOMAIN r :
              \/ i \in DOMAIN q /\ r[i] = q[i]
              \/ (r[i] = p \/ ~r[i].valid) /\ \A j \in DOMAIN q : j < i
<1>1. /\ r \in Seq(Packet)
      /\ Len(q) <= Len(r)
      /\ \A i \in 1..Len(q) : r[i] = q[i]
      /\ \A i \in (Len(q) + 1)..Len(r) : r[i] = p \/ ~r[i].valid
  BY CarriedLemma
<1>2. DOMAIN q = 1..Len(q) /\ DOMAIN r = 1..Len(r) /\ Len(q) \in Nat /\ Len(r) \in Nat
  BY <1>1
<1> QED
  BY <1>1, <1>2

\* Append by index.
LEMMA AppendLemma ==
  ASSUME NEW S, NEW q \in Seq(S), NEW x \in S
  PROVE  LET r == Append(q, x) IN
         /\ \A i \in DOMAIN q : i \in DOMAIN r /\ r[i] = q[i] /\ i < Len(q) + 1
         /\ \A i \in DOMAIN r : (i \in DOMAIN q /\ r[i] = q[i]) \/ i = Len(q) + 1
         /\ Len(q) + 1 \in DOMAIN r /\ r[Len(q) + 1] = x
         /\ DOMAIN r \subseteq Nat
OBVIOUS

LEMMA HomeLemma == ASSUME NEW t \in Caller PROVE Home[t] \in Node
BY CallerAssumption

-----------------------------------------------------------------------------
(* One lemma for each action: the invariant of the link survives it         *)

LEMMA BeginKeepsLink ==
  ASSUME QuietLink, IInv, NEW t \in Caller, Begin(t)
  PROVE  LinkInv'
<1> DEFINE k == Home[t]
<1> USE PeerLemma, HomeLemma DEF IInv, LinkInv
<1>1. /\ UNCHANGED <<net, data_queue, curr_seq, expected_seq, confirmed, delivered>>
      /\ k \in Node
      /\ sends' = [sends EXCEPT ![k] = @ + 1]
      /\ sndpkt' = [sndpkt EXCEPT ![t] = make_data_packet(curr_seq[k], sends[k] + 1)]
      /\ pc' = [pc EXCEPT ![t] = "register"]
      /\ UNCHANGED <<seq_to_use, ack_event>>
  BY DEF Begin, dispatcherVars
<1>2. \A n \in Node : sends[n] \in Nat /\ sends'[n] \in Nat /\ sends[n] <= sends'[n]
  BY <1>1, SMTT(30) DEF TypeOK
<1>3. InOrderOnce'
  BY <1>1 DEF InOrderOnce
<1>4. NothingInvented'
  BY <1>1, <1>2 DEF NothingInvented
<1>5. ConfirmedInv'
  BY <1>1, <1>2 DEF ConfirmedInv
<1>6. ConfirmedMeansDelivered'
  BY <1>1 DEF ConfirmedMeansDelivered
<1>7. ASSUME NEW u \in Caller
      PROVE  CallInv(u)' /\ EventInv(u)'
  <2>1. CASE u = t
    <3>1. Open(k, sends[k] + 1)
      BY <1>1, <1>2 DEF Open, ConfirmedInv
    <3>2. CallInv(u)'
      BY <2>1, <1>1, <1>2, <3>1 DEF CallInv, Open, TypeOK
    <3>3. EventInv(u)'
      BY <2>1, <1>1 DEF EventInv, TypeOK
    <3> QED
      BY <3>2, <3>3
  <2>2. CASE u # t
    <3>1. Home[u] # k /\ Home[u] \in Node
      BY <2>2 DEF QuietLink, OneCaller
    <3>2. CallInv(u)'
      BY <2>2, <3>1, <1>1, SMTT(30) DEF CallInv, Open, TypeOK
    <3>3. EventInv(u)'
      BY <2>2, <3>1, <1>1, SMTT(30) DEF EventInv, TypeOK
    <3> QED
      BY <3>2, <3>3
  <2> QED
    BY <2>1, <2>2
<1>8. ASSUME NEW n \in Node
      PROVE  PathInv(n, Peer[n])' /\ AwaitingInv(n, Peer[n])' /\ AcceptedInv(n, Peer[n])'
  <2>0. PathInv(n, Peer[n]) /\ AwaitingInv(n, Peer[n]) /\ AcceptedInv(n, Peer[n])
    OBVIOUS
  <2>1. PathInv(n, Peer[n])'
    BY ONLY <2>0, <1>1, <1>2 DEF PathInv, Open
  <2>2. AwaitingInv(n, Peer[n])'
    BY ONLY <2>0, <1>1 DEF AwaitingInv, Open
  <2>3. AcceptedInv(n, Peer[n])'
    BY ONLY <2>0, <1>1 DEF AcceptedInv, Open
  <2> QED
    BY <2>1, <2>2, <2>3
<1> QED
  BY <1>3, <1>4, <1>5, <1>6, <1>7, <1>8
\* The part of the invariant that does not look at the callers.
StreamInv ==
  /\ InOrderOnce /\ NothingInvented /\ ConfirmedInv /\ ConfirmedMeansDelivered
  /\ \A n \in Node : /\ PathInv(n, Peer[n])
                     /\ AwaitingInv(n, Peer[n])
                     /\ AcceptedInv(n, Peer[n])

\* A step that changes only locals of callers keeps that part.
LEMMA StreamFrame ==
  ASSUME StreamInv,
         UNCHANGED <<net, data_queue, curr_seq, expected_seq, sends, confirmed, delivered>>
  PROVE  StreamInv'
<1>1. InOrderOnce' /\ NothingInvented' /\ ConfirmedInv' /\ ConfirmedMeansDelivered'
  BY DEF StreamInv, InOrderOnce, NothingInvented, ConfirmedInv, ConfirmedMeansDelivered
<1>2. ASSUME NEW n \in Node
      PROVE  PathInv(n, Peer[n])' /\ AwaitingInv(n, Peer[n])' /\ AcceptedInv(n, Peer[n])'
  <2>1. PathInv(n, Peer[n]) /\ AwaitingInv(n, Peer[n]) /\ AcceptedInv(n, Peer[n])
    BY DEF StreamInv
  <2>2. UNCHANGED <<net, data_queue, curr_seq, expected_seq, sends, confirmed, delivered>>
    OBVIOUS
  <2>3. PathInv(n, Peer[n])'
    BY ONLY <2>1, <2>2 DEF PathInv, Open
  <2>4. AwaitingInv(n, Peer[n])'
    BY ONLY <2>1, <2>2 DEF AwaitingInv, Open
  <2>5. AcceptedInv(n, Peer[n])'
    BY ONLY <2>1, <2>2 DEF AcceptedInv, Open
  <2> QED
    BY <2>3, <2>4, <2>5
<1> QED
  BY <1>1, <1>2 DEF StreamInv

LEMMA LocalStepsKeepLink ==
  ASSUME QuietLink, IInv, NEW t \in Caller,
         Register(t) \/ Timeout(t) \/ ReturnTrue(t) \/ Retry(t) \/ Raise(t)
  PROVE  LinkInv'
<1>1. UNCHANGED <<net, data_queue, curr_seq, expected_seq, sends, confirmed, delivered, sndpkt>>
  BY DEF register_ack_waiter, Register, Timeout, ReturnTrue, Retry, Raise, historyVars,
    dispatcherVars
<1>2. StreamInv'
  BY <1>1, StreamFrame DEF IInv, LinkInv, StreamInv
<1>3. ASSUME NEW u \in Caller
      PROVE  CallInv(u)' /\ EventInv(u)'
  <2>1. CallInv(u) /\ EventInv(u) /\ TypeOK
    BY DEF IInv, LinkInv
  <2>2. CASE Register(t)
    BY <2>1, <2>2, <1>1 DEF register_ack_waiter, Register, CallInv, EventInv, Open, TypeOK
  <2>3. CASE Timeout(t)
    BY <2>1, <2>3, <1>1 DEF Timeout, CallInv, EventInv, Open, TypeOK
  <2>4. CASE ReturnTrue(t)
    BY <2>1, <2>4, <1>1 DEF ReturnTrue, CallInv, EventInv, Open, TypeOK
  <2>5. CASE Retry(t)
    BY <2>1, <2>5, <1>1 DEF Retry, CallInv, EventInv, Open, TypeOK
  <2>6. CASE Raise(t)
    BY <2>1, <2>6, <1>1 DEF Raise, CallInv, EventInv, Open, TypeOK
  <2> QED
    BY <2>2, <2>3, <2>4, <2>5, <2>6
<1> QED
  BY <1>2, <1>3 DEF StreamInv, LinkInv

LEMMA TransmitKeepsLink ==
  ASSUME QuietLink, IInv, NEW t \in Caller, Transmit(t)
  PROVE  LinkInv'
<1> DEFINE k == Home[t]
           p == sndpkt[t]
<1>1. k \in Node /\ Peer[k] \in Node /\ p \in Packet /\ TypeOK
  BY HomeLemma, PeerLemma DEF IInv, TypeOK
<1>2. PICK r \in Carried(net[Peer[k]], p) : net' = [net EXCEPT ![Peer[k]] = r]
  BY DEF Transmit
<1>3. /\ UNCHANGED <<data_queue, curr_seq, expected_seq, sends, confirmed, delivered, sndpkt,
                    seq_to_use, ack_event>>
      /\ pc[t] = "transmit"
      /\ pc' = [pc EXCEPT ![t] = "wait"]
  BY DEF Transmit, dispatcherVars, historyVars
<1>4. /\ p.ack = FALSE /\ p.seq = curr_seq[k] /\ p.data = sends[k] /\ p.valid = TRUE
      /\ Open(k, sends[k]) /\ sends[k] \in 1..sends[k]
  <2>1. CallInv(t) /\ sends[k] \in Nat
    BY <1>1 DEF IInv, LinkInv, TypeOK
  <2> QED
    BY <2>1, <1>3 DEF CallInv, make_data_packet
<1> DEFINE q == net[Peer[k]]
<1>5. /\ q \in Seq(Packet) /\ r \in Seq(Packet)
      /\ \A i \in DOMAIN r :
           \/ i \in DOMAIN q /\ r[i] = q[i]
           \/ (r[i] = p \/ ~r[i].valid) /\ \A j \in DOMAIN q : j < i
      /\ DOMAIN q \subseteq Nat /\ DOMAIN r \subseteq Nat
      /\ q = net[Peer[k]]
  <2>1. q \in Seq(Packet)
    BY <1>1 DEF TypeOK
  <2>2. r \in Seq(Packet)
    BY <2>1, <1>1, SentLemma
  <2>3. \A i \in DOMAIN r :
           \/ i \in DOMAIN q /\ r[i] = q[i]
           \/ (r[i] = p \/ ~r[i].valid) /\ \A j \in DOMAIN q : j < i
    BY <2>1, <1>1, SentLemma
  <2> QED
    BY <2>1, <2>2, <2>3
<1> HIDE DEF p, q
<1>6. InOrderOnce' /\ NothingInvented' /\ ConfirmedInv' /\ ConfirmedMeansDelivered'
  BY <1>3 DEF IInv, LinkInv, InOrderOnce, NothingInvented, ConfirmedInv, ConfirmedMeansDelivered
<1>7. ASSUME NEW u \in Caller
      PROVE  CallInv(u)' /\ EventInv(u)'
  <2>1. CallInv(u) /\ EventInv(u) /\ Home[u] \in Node /\ u \in Caller /\ t \in Caller
    BY HomeLemma DEF IInv, LinkInv
  <2>2. CallInv(u)'
    BY ONLY <1>1, <2>1, <1>3 DEF CallInv, Open, TypeOK
  <2>3. ASSUME Home[u] = Peer[k], NEW i \in DOMAIN r, IsAck(r[i])
        PROVE  i \in DOMAIN q /\ r[i] = q[i]
    BY <2>3, <1>4, <1>5 DEF IsAck
  <2>4. ASSUME NEW i \in DOMAIN net'[Home[u]], IsAck(net'[Home[u]][i])
        PROVE  i \in DOMAIN net[Home[u]] /\ net'[Home[u]][i] = net[Home[u]][i]
    <3>1. CASE Home[u] = Peer[k]
      BY <3>1, <2>1, <2>3, <2>4, <1>1, <1>2, <1>5 DEF TypeOK
    <3>2. CASE Home[u] # Peer[k]
      BY <3>2, <2>1, <2>4, <1>1, <1>2 DEF TypeOK
    <3> QED
      BY <3>1, <3>2
  <2>5. pc'[u] \in {"transmit", "wait"} => pc[u] \in {"transmit", "wait"}
    BY <1>1, <1>3 DEF TypeOK
  <2>6. EventInv(u)'
    BY ONLY <2>1, <2>4, <2>5, <1>3 DEF EventInv, IsAck
  <2> QED
    BY <2>2, <2>6
<1>8. ASSUME NEW n \in Node
      PROVE  PathInv(n, Peer[n])' /\ AwaitingInv(n, Peer[n])' /\ AcceptedInv(n, Peer[n])'
  <2>1. PathInv(n, Peer[n]) /\ AwaitingInv(n, Peer[n]) /\ AcceptedInv(n, Peer[n])
    BY DEF IInv, LinkInv
  <2>2. /\ n \in Node /\ Peer[n] \in Node /\ (Peer[n] = Peer[k] <=> n = k) /\ Peer[k] # k
        /\ (n # k => net'[Peer[n]] = net[Peer[n]])
        /\ (n # Peer[k] => net'[n] = net[n])
        /\ net'[Peer[k]] = r
    BY <1>1, <1>2, PeerLemma DEF TypeOK
  <2>3. PathInv(n, Peer[n])'
    <3>1. CASE n # k
      BY ONLY <3>1, <2>1, <2>2, <1>3 DEF PathInv, Open
    <3>2. CASE n = k
      <4> DEFINE d == data_queue[Peer[k]]
      <4>1. PathInv(k, Peer[k])
        BY <3>2, <2>1, SMTT(30)
      <4>2. \A i \in DOMAIN r : IsData(r[i]) =>
              r[i].data \in 1..sends[k] /\ (r[i].seq = curr_seq[k] <=> Open(k, r[i].data))
        BY ONLY <4>1, <1>4, <1>5, SMTT(30) DEF PathInv, IsData
      <4>3. \A i, j \in DOMAIN r :
              i < j /\ IsData(r[i]) /\ IsData(r[j]) => r[i].data <= r[j].data
        BY ONLY <4>1, <1>4, <1>5, SMTT(30) DEF PathInv, IsData
      <4>4. \A i \in DOMAIN d, j \in DOMAIN r : IsData(r[j]) => d[i].data <= r[j].data
        BY ONLY <4>1, <1>4, <1>5 DEF PathInv, IsData
      <4> QED
        BY ONLY <3>2, <4>1, <4>2, <4>3, <4>4, <2>2, <1>3, SMTT(30) DEF PathInv, IsData, Open
    <3> QED
      BY <3>1, <3>2
  <2>4. \A i \in DOMAIN net'[n] : IsAck(net'[n][i]) =>
          i \in DOMAIN net[n] /\ net'[n][i] = net[n][i]
    BY ONLY <2>2, <1>4, <1>5 DEF IsAck
  <2>5. \A i \in DOMAIN net'[Peer[n]] : IsData(net'[Peer[n]][i]) =>
          \/ i \in DOMAIN net[Peer[n]] /\ net'[Peer[n]][i] = net[Peer[n]][i]
          \/ net'[Peer[n]][i].seq = curr_seq[n]
    BY ONLY <2>2, <1>4, <1>5 DEF IsData
  <2>6. AwaitingInv(n, Peer[n])'
    BY ONLY <2>1, <2>4, <1>3 DEF AwaitingInv, Open, IsAck
  <2>7. AcceptedInv(n, Peer[n])'
    BY ONLY <2>1, <2>4, <2>5, <1>3 DEF AcceptedInv, Open, IsAck, IsData
  <2> QED
    BY <2>3, <2>6, <2>7
<1> QED
  BY <1>6, <1>7, <1>8 DEF LinkInv
LEMMA AckWakeKeepsLink ==
  ASSUME QuietLink, IInv, NEW t \in Caller, AckWake(t)
  PROVE  LinkInv'
<1> DEFINE k == Home[t]
           m == Peer[k]
<1>1. /\ k \in Node /\ m \in Node /\ m # k /\ Peer[m] = k
      /\ TypeOK /\ NothingInvented /\ ConfirmedInv /\ ConfirmedMeansDelivered
      /\ curr_seq[k] \in Bit /\ sends[k] \in Nat /\ expected_seq[m] \in Bit
      /\ delivered[m] \in Seq(Nat)
  BY HomeLemma, PeerLemma DEF IInv, LinkInv, TypeOK
<1>2. /\ UNCHANGED <<net, data_queue, expected_seq, sends, delivered, sndpkt, seq_to_use,
                      ack_event>>
      /\ pc[t] = "wait" /\ ack_event[t]
      /\ pc' = [pc EXCEPT ![t] = "return"]
      /\ curr_seq' = [curr_seq EXCEPT ![k] = 1 - @]
      /\ confirmed' = [confirmed EXCEPT ![k] = @ \union {sndpkt[t].data}]
  BY DEF AckWake, dispatcherVars
<1>3. sndpkt[t].data = sends[k] /\ Open(k, sends[k]) /\ sends[k] > 0
  <2>1. CallInv(t)
    BY DEF IInv, LinkInv
  <2> QED
    BY ONLY <2>1, <1>2 DEF CallInv, make_data_packet
<1>4. /\ expected_seq[m] # curr_seq[k]
      /\ \A i \in DOMAIN net[k] : IsAck(net[k][i]) => net[k][i].seq = curr_seq[k]
  BY <1>2 DEF IInv, LinkInv, EventInv
<1>5. /\ curr_seq'[k] = 1 - curr_seq[k] /\ curr_seq'[k] # curr_seq[k]
      /\ expected_seq[m] = curr_seq'[k]
      /\ confirmed'[k] = confirmed[k] \union {sends[k]}
      /\ \A n \in Node : n # k => curr_seq'[n] = curr_seq[n] /\ confirmed'[n] = confirmed[n]
  BY <1>1, <1>2, <1>3, <1>4 DEF TypeOK, Bit
<1>6. /\ \E i \in DOMAIN delivered[m] : Open(k, delivered[m][i])
      /\ \A i \in DOMAIN net[m] : IsData(net[m][i]) => net[m][i].seq = curr_seq[k]
      /\ \A i \in DOMAIN data_queue[m] : data_queue[m][i].seq = curr_seq[k]
  <2>1. AcceptedInv(k, m)
    BY <1>1 DEF IInv, LinkInv
  <2> QED
    BY ONLY <2>1, <1>4 DEF AcceptedInv
<1>7. InOrderOnce' /\ NothingInvented' /\ ConfirmedInv'
  <2>1. ConfirmedInv'
    BY ONLY <1>1, <1>2, <1>3, <1>5 DEF ConfirmedInv
  <2> QED
    BY <2>1, <1>2 DEF IInv, LinkInv, InOrderOnce, NothingInvented
<1>8. ConfirmedMeansDelivered'
  <2> SUFFICES ASSUME NEW n \in Node, NEW c \in confirmed'[n]
               PROVE  \E i \in DOMAIN delivered[Peer[n]] :
                        /\ delivered[Peer[n]][i] <= c
                        /\ \A j \in confirmed'[n] : j < c => j < delivered[Peer[n]][i]
    BY <1>2 DEF ConfirmedMeansDelivered
  <2>1. CASE n # k
    BY <2>1, <1>1, <1>5 DEF ConfirmedMeansDelivered
  <2>2. CASE n = k /\ c \in confirmed[k]
    <3>1. c <= sends[k] /\ c \in Nat
      BY <2>2, <1>1 DEF ConfirmedInv
    <3>2. PICK i \in DOMAIN delivered[m] :
            /\ delivered[m][i] <= c
            /\ \A j \in confirmed[k] : j < c => j < delivered[m][i]
      BY <2>2, <1>1 DEF ConfirmedMeansDelivered
    <3>3. ~(sends[k] < c)
      BY <3>1, <1>1
    <3> QED
      BY <2>2, <3>2, <3>3, <1>5
  <2>3. CASE n = k /\ c = sends[k]
    <3>1. PICK i \in DOMAIN delivered[m] : Open(k, delivered[m][i])
      BY <1>6
    <3>2. delivered[m][i] <= sends[k] /\ delivered[m][i] \in Nat
      BY <1>1 DEF NothingInvented
    <3>3. ~(sends[k] < sends[k])
      BY <1>1
    <3> QED
      BY <2>3, <3>1, <3>2, <3>3, <1>5 DEF Open
  <2> QED
    BY <2>1, <2>2, <2>3, <1>5
<1>9. ASSUME NEW u \in Caller
      PROVE  CallInv(u)' /\ EventInv(u)'
  <2>1. CASE u = t
    <3>1. pc'[t] = "return"
      BY <1>2 DEF IInv, TypeOK
    <3> QED
      BY <2>1, <3>1 DEF CallInv, EventInv
  <2>2. CASE u # t
    <3>1. Home[u] # k /\ Home[u] \in Node /\ pc'[u] = pc[u]
      BY <2>2, <1>2, HomeLemma DEF QuietLink, OneCaller, IInv, TypeOK
    <3>2. CallInv(u) /\ EventInv(u)
      BY DEF IInv, LinkInv
    <3> QED
      BY ONLY <3>1, <3>2, <1>2, <1>5 DEF CallInv, EventInv, Open, IsAck
  <2> QED
    BY <2>1, <2>2
<1>10. ASSUME NEW n \in Node
       PROVE  PathInv(n, Peer[n])' /\ AwaitingInv(n, Peer[n])' /\ AcceptedInv(n, Peer[n])'
  <2>1. PathInv(n, Peer[n]) /\ AwaitingInv(n, Peer[n]) /\ AcceptedInv(n, Peer[n]) /\ n \in Node
    BY DEF IInv, LinkInv
  <2>2. CASE n # k
    <3>1. PathInv(n, Peer[n])'
      BY ONLY <2>1, <2>2, <1>2, <1>5 DEF PathInv, Open
    <3>2. AwaitingInv(n, Peer[n])'
      BY ONLY <2>1, <2>2, <1>2, <1>5 DEF AwaitingInv, Open
    <3>3. AcceptedInv(n, Peer[n])'
      BY ONLY <2>1, <2>2, <1>2, <1>5 DEF AcceptedInv, Open
    <3> QED
      BY <3>1, <3>2, <3>3
  <2>3. CASE n = k
    <3>1. ASSUME NEW d \in 1..sends[k] PROVE sends[k] \in confirmed'[k] /\ ~(sends[k] < d)
      BY <1>1, <1>5, SMTT(30)
    <3>2. PathInv(n, Peer[n])'
      <4>1. PathInv(k, m)
        BY <2>1, <2>3, SMTT(30)
      <4>2. \A i \in DOMAIN net[m] : IsData(net[m][i]) =>
              /\ net[m][i].data \in 1..sends[k]
              /\ net[m][i].seq # curr_seq'[k]
              /\ \E c \in confirmed'[k] : ~(c < net[m][i].data)
        BY ONLY <4>1, <3>1, <1>5, <1>6, SMTT(60) DEF PathInv
      <4>3. \A i \in DOMAIN data_queue[m] :
              /\ data_queue[m][i].data \in 1..sends[k]
              /\ data_queue[m][i].seq # curr_seq'[k]
              /\ \E c \in confirmed'[k] : ~(c < data_queue[m][i].data)
        BY ONLY <4>1, <3>1, <1>5, <1>6 DEF PathInv
      <4> QED
        BY ONLY <2>3, <4>1, <4>2, <4>3, <1>2, SMTT(30) DEF PathInv, Open, IsData
    <3>3. \A i \in DOMAIN delivered[m] : delivered[m][i] \in 1..sends[k]
      BY <1>1 DEF NothingInvented
    <3>4. AwaitingInv(n, Peer[n])'
      BY ONLY <2>3, <3>1, <3>3, <1>2, <1>4, <1>5 DEF AwaitingInv, Open, IsAck
    <3>5. AcceptedInv(n, Peer[n])'
      BY ONLY <2>3, <1>2, <1>5 DEF AcceptedInv
    <3> QED
      BY <3>2, <3>4, <3>5
  <2> QED
    BY <2>2, <2>3
<1> QED
  BY <1>7, <1>8, <1>9, <1>10 DEF LinkInv
LEMMA DispatchKeepsLink ==
  ASSUME QuietLink, IInv, NEW k \in Node, Dispatch(k)
  PROVE  LinkInv'
<1> DEFINE q == net[k]
           d == data_queue[k]
           r == RemoveAt(q, 1)
           p == q[1]
<1>1. /\ TypeOK /\ listeners[k] = 1 /\ Fifo = TRUE /\ NoStaleListener
      /\ q \in Seq(Packet) /\ d \in Seq(Packet)
  BY DEF IInv, AliveInv, QuietLink, TypeOK
<1>2. /\ Len(q) \in Nat /\ 1 \in 1..Len(q)
      /\ net' = [net EXCEPT ![k] = r]
      /\ \/ UNCHANGED <<data_queue, ack_event>>
         \/ p.valid /\ p.ack /\ _handle_ack(k, p)
         \/ p.valid /\ ~p.ack /\ _handle_data(k, p)
  <2>1. PICK i \in 1..Len(q) :
          /\ i <= 1
          /\ net' = [net EXCEPT ![k] = RemoveAt(@, i)]
          /\ \/ UNCHANGED <<data_queue, ack_event>>
             \/ q[i].valid /\ q[i].ack /\ _handle_ack(k, q[i])
             \/ q[i].valid /\ ~q[i].ack /\ _handle_data(k, q[i])
    BY <1>1 DEF Dispatch
  <2>2. Len(q) \in Nat
    BY <1>1
  <2>3. i = 1
    BY <2>1, <2>2
  <2> QED
    BY <2>1, <2>2, <2>3
<1>3. UNCHANGED <<curr_seq, expected_seq, pc, sndpkt, seq_to_use, sends, confirmed, delivered>>
  BY DEF Dispatch, historyVars
\* Every packet that is left was in the buffer, one place further on.
<1>4. /\ \A j \in DOMAIN r : j \in Nat /\ j + 1 \in DOMAIN q /\ 1 < j + 1 /\ r[j] = q[j + 1]
      /\ 1 \in DOMAIN q /\ DOMAIN q \subseteq Nat
  <2>1. /\ r \in Seq(Packet)
        /\ Len(r) = Len(q) - 1
        /\ \A j \in 1..(Len(q) - 1) : r[j] = IF j < 1 THEN q[j] ELSE q[j + 1]
    BY <1>1, <1>2, RemoveAtLemma
  <2>2. DOMAIN r = 1..(Len(q) - 1) /\ DOMAIN q = 1..Len(q)
    BY <1>1, <2>1
  <2> QED
    BY <2>1, <2>2, <1>2
<1>5. net'[k] = r /\ \A n \in Node : n # k => net'[n] = net[n]
  BY <1>1, <1>2 DEF TypeOK
\* The queue grows by the packet, if it is a data packet.
<1>6. /\ \A n \in Node : n # k => data_queue'[n] = data_queue[n]
      /\ \A i \in DOMAIN data_queue'[k] :
           \/ i \in DOMAIN d /\ data_queue'[k][i] = d[i]
           \/ data_queue'[k][i] = p /\ IsData(p) /\ \A j \in DOMAIN d : j < i
      /\ DOMAIN data_queue'[k] \subseteq Nat
  <2>1. CASE data_queue' = data_queue
    BY <2>1, <1>1
  <2>2. CASE IsData(p) /\ data_queue' = [data_queue EXCEPT ![k] = Append(@, p)]
    <3>1. data_queue'[k] = Append(d, p)
      BY <2>2, <1>1 DEF TypeOK
    <3>2. Append(d, p) \in Seq(Packet)
      BY <1>1, <1>2
    <3>3. \A i \in DOMAIN Append(d, p) :
           \/ i \in DOMAIN d /\ Append(d, p)[i] = d[i]
           \/ Append(d, p)[i] = p /\ \A j \in DOMAIN d : j < i
      BY <1>1
    <3> QED
      BY <2>2, <3>1, <3>2, <3>3, <1>1 DEF TypeOK
  <2> QED
    BY <1>2, <2>1, <2>2 DEF _handle_ack, _handle_data, IsData
<1> HIDE DEF r, p
<1>7. StreamInv'
  <2>1. InOrderOnce' /\ NothingInvented' /\ ConfirmedInv' /\ ConfirmedMeansDelivered'
    BY <1>3 DEF IInv, LinkInv, InOrderOnce, NothingInvented, ConfirmedInv, ConfirmedMeansDelivered
  <2>2. ASSUME NEW n \in Node
        PROVE  PathInv(n, Peer[n])' /\ AwaitingInv(n, Peer[n])' /\ AcceptedInv(n, Peer[n])'
    <3>1. PathInv(n, Peer[n]) /\ AwaitingInv(n, Peer[n]) /\ AcceptedInv(n, Peer[n])
          /\ n \in Node /\ Peer[n] \in Node
      BY PeerLemma DEF IInv, LinkInv
    <3>2. PathInv(n, Peer[n])'
      <4>1. CASE Peer[n] # k
        BY ONLY <4>1, <3>1, <1>3, <1>5, <1>6 DEF PathInv, Open
      <4>2. CASE Peer[n] = k
        <5>1. PathInv(n, k) /\ p = q[1] /\ q = net[k] /\ d = data_queue[k]
          BY <3>1, <4>2 DEF p
        <5> HIDE DEF q, d
        <5>2. \A i \in DOMAIN r : IsData(r[i]) =>
                r[i].data \in 1..sends[n] /\ (r[i].seq = curr_seq[n] <=> Open(n, r[i].data))
          BY ONLY <5>1, <1>4 DEF PathInv
        <5>3. \A i, j \in DOMAIN r :
                i < j /\ IsData(r[i]) /\ IsData(r[j]) => r[i].data <= r[j].data
          BY ONLY <5>1, <1>4 DEF PathInv
        <5>4. \A i \in DOMAIN data_queue'[k] : LET x == data_queue'[k][i] IN
                x.data \in 1..sends[n] /\ (x.seq = curr_seq[n] <=> Open(n, x.data))
          BY ONLY <5>1, <1>4, <1>6 DEF PathInv
        <5>5. \A i, j \in DOMAIN data_queue'[k] :
                i < j => data_queue'[k][i].data <= data_queue'[k][j].data
          <6>1. p.data <= p.data \/ ~IsData(p)
            BY ONLY <5>1, <1>4 DEF PathInv
          <6> QED
            BY ONLY <5>1, <6>1, <1>4, <1>6 DEF PathInv
        <5>6. \A i \in DOMAIN data_queue'[k], j \in DOMAIN r :
                IsData(r[j]) => data_queue'[k][i].data <= r[j].data
          BY ONLY <5>1, <1>4, <1>6 DEF PathInv
        <5> QED
          BY ONLY <4>2, <5>2, <5>3, <5>4, <5>5, <5>6, <1>3, <1>5 DEF PathInv, Open, IsData
      <4> QED
        BY <4>1, <4>2
    <3>3. AwaitingInv(n, Peer[n])'
      BY ONLY <3>1, <1>3, <1>4, <1>5 DEF AwaitingInv, Open, IsAck
    <3>4. AcceptedInv(n, Peer[n])'
      <4>1. expected_seq[Peer[n]] # curr_seq[n] =>
              /\ \A i \in DOMAIN net'[Peer[n]] :
                   IsData(net'[Peer[n]][i]) => net'[Peer[n]][i].seq = curr_seq[n]
              /\ \A i \in DOMAIN data_queue'[Peer[n]] :
                   data_queue'[Peer[n]][i].seq = curr_seq[n]
        <5>1. p = net[k][1]
          BY DEF p
        <5> QED
          BY ONLY <5>1, <3>1, <1>4, <1>5, <1>6 DEF AcceptedInv
      <4>2. expected_seq[Peer[n]] # curr_seq[n] =>
              \A i, j \in DOMAIN net'[n] :
                i < j /\ IsAck(net'[n][i]) /\ IsAck(net'[n][j]) /\ net'[n][i].seq = curr_seq[n]
                  => net'[n][j].seq = curr_seq[n]
        BY ONLY <3>1, <1>4, <1>5 DEF AcceptedInv
      <4> QED
        BY ONLY <3>1, <4>1, <4>2, <1>3 DEF AcceptedInv, Open, IsAck, IsData
    <3> QED
      BY <3>2, <3>3, <3>4
  <2> QED
    BY <2>1, <2>2 DEF StreamInv
<1>8. ASSUME NEW u \in Caller
      PROVE  CallInv(u)' /\ EventInv(u)'
  <2>1. CallInv(u) /\ EventInv(u) /\ Home[u] \in Node /\ u \in Caller
    BY HomeLemma DEF IInv, LinkInv
  <2>2. CallInv(u)'
    BY ONLY <2>1, <1>3 DEF CallInv, Open
  <2>3. CASE ack_event'[u] = ack_event[u]
    BY ONLY <2>1, <2>2, <2>3, <1>3, <1>4, <1>5 DEF EventInv, IsAck
  <2>4. CASE ack_event'[u] # ack_event[u]
    <3>1. IsAck(p) /\ u = ack_listeners[k][p.seq]
      BY <2>1, <2>4, <1>1, <1>2 DEF _handle_ack, _handle_data, IsAck, TypeOK
    <3>2. p.seq \in Bit /\ u # NoCaller
      <4>1. p \in Packet
        BY <1>1, <1>2 DEF p
      <4> QED
        BY <4>1, <2>1, CallerAssumption DEF Packet
    <3>3. Home[u] = k /\ seq_to_use[u] = p.seq
      BY <3>1, <3>2, <1>1 DEF NoStaleListener
    <3>4. AwaitingInv(k, Peer[k]) /\ AcceptedInv(k, Peer[k])
      BY DEF IInv, LinkInv
    <3>5. p = net[k][1]
      BY DEF p
    <3>6. CASE pc[u] \in {"transmit", "wait"}
      <4>1. p.seq = curr_seq[k]
        BY ONLY <3>6, <3>3, <2>1 DEF CallInv
      <4>2. expected_seq[Peer[k]] # curr_seq[k]
        BY ONLY <4>1, <3>1, <3>4, <3>5, <1>4 DEF AwaitingInv
      <4>3. \A j \in DOMAIN r : IsAck(r[j]) => r[j].seq = curr_seq[k]
        BY ONLY <4>1, <4>2, <3>1, <3>4, <3>5, <1>4 DEF AcceptedInv
      <4> QED
        BY ONLY <4>2, <4>3, <3>3, <1>3, <1>5, <2>2 DEF EventInv, IsAck
    <3>7. CASE pc[u] \notin {"transmit", "wait"}
      BY ONLY <3>7, <2>2, <1>3 DEF EventInv
    <3> QED
      BY <2>2, <3>6, <3>7
  <2> QED
    BY <2>2, <2>3, <2>4
<1> QED
  BY <1>7, <1>8 DEF StreamInv, LinkInv
\* What one turn of the receiver does to the two buffers: the head of the queue is
\* taken, and an ACK of bit b is sent back.
LEMMA ReceiverFrame ==
  ASSUME TypeOK, NEW k \in Node, NEW b \in Bit, data_queue[k] # <<>>,
         data_queue' = [data_queue EXCEPT ![k] = Tail(@)], SendAck(k, b)
  PROVE  /\ \A i \in DOMAIN data_queue'[k] :
              /\ i \in Nat /\ i + 1 \in DOMAIN data_queue[k] /\ 1 < i + 1
              /\ data_queue'[k][i] = data_queue[k][i + 1]
         /\ 1 \in DOMAIN data_queue[k] /\ Head(data_queue[k]) = data_queue[k][1]
         /\ \A n \in Node : n # k => data_queue'[n] = data_queue[n]
         /\ \A n \in Node : n # Peer[k] => net'[n] = net[n]
         /\ \A i \in DOMAIN net'[Peer[k]] :
              \/ i \in DOMAIN net[Peer[k]] /\ net'[Peer[k]][i] = net[Peer[k]][i]
              \/ /\ ~IsData(net'[Peer[k]][i])
                 /\ IsAck(net'[Peer[k]][i]) => net'[Peer[k]][i].seq = b
                 /\ \A j \in DOMAIN net[Peer[k]] : j < i
         /\ DOMAIN net'[Peer[k]] \subseteq Nat
<1> DEFINE d == data_queue[k]
           q == net[Peer[k]]
           p == make_ack_packet(b)
<1>1. d \in Seq(Packet) /\ q \in Seq(Packet) /\ p \in Packet /\ Peer[k] \in Node
  BY PeerLemma, PacketLemma DEF TypeOK
<1>2. /\ \A i \in DOMAIN Tail(d) :
           i \in Nat /\ i + 1 \in DOMAIN d /\ 1 < i + 1 /\ Tail(d)[i] = d[i + 1]
      /\ 1 \in DOMAIN d /\ Head(d) = d[1]
  BY <1>1
<1>3. data_queue'[k] = Tail(d) /\ \A n \in Node : n # k => data_queue'[n] = data_queue[n]
  BY DEF TypeOK
<1>4. PICK r \in Carried(q, p) : net' = [net EXCEPT ![Peer[k]] = r]
  BY DEF SendAck
<1>5. net'[Peer[k]] = r /\ \A n \in Node : n # Peer[k] => net'[n] = net[n]
  BY <1>1, <1>4 DEF TypeOK
<1>6. /\ r \in Seq(Packet)
      /\ \A i \in DOMAIN r :
           \/ i \in DOMAIN q /\ r[i] = q[i]
           \/ (r[i] = p \/ ~r[i].valid) /\ \A j \in DOMAIN q : j < i
  BY <1>1, SentLemma
<1>7. DOMAIN r \subseteq Nat
  BY <1>6
<1>8. p.ack = TRUE /\ p.seq = b
  BY DEF make_ack_packet
<1> HIDE DEF p, q, d
<1>9. \A i \in DOMAIN r :
        \/ i \in DOMAIN q /\ r[i] = q[i]
        \/ /\ ~IsData(r[i])
           /\ IsAck(r[i]) => r[i].seq = b
           /\ \A j \in DOMAIN q : j < i
  BY <1>6, <1>8 DEF IsData, IsAck
<1> QED
  BY <1>2, <1>3, <1>5, <1>7, <1>9 DEF d, q

LEMMA RejectKeepsLink ==
  ASSUME QuietLink, IInv, NEW k \in Node, Reject(k)
  PROVE  LinkInv'
<1> DEFINE o == Peer[k]
<1>1. /\ TypeOK /\ o \in Node /\ Peer[o] = k /\ o # k
      /\ expected_seq[k] \in Bit /\ 1 - expected_seq[k] \in Bit /\ curr_seq[o] \in Bit
  BY PeerLemma, PacketLemma DEF IInv, TypeOK
<1>2. UNCHANGED <<curr_seq, expected_seq, pc, sndpkt, seq_to_use, ack_event, sends, confirmed,
                  delivered>>
  BY DEF get_data_packet, Reject, historyVars, callerVars
<1>3. /\ \A i \in DOMAIN data_queue'[k] :
              /\ i \in Nat /\ i + 1 \in DOMAIN data_queue[k] /\ 1 < i + 1
              /\ data_queue'[k][i] = data_queue[k][i + 1]
      /\ \A n \in Node : n # k => data_queue'[n] = data_queue[n]
      /\ \A n \in Node : n # o => net'[n] = net[n]
      /\ \A i \in DOMAIN net'[o] :
              \/ i \in DOMAIN net[o] /\ net'[o][i] = net[o][i]
              \/ /\ ~IsData(net'[o][i])
                 /\ IsAck(net'[o][i]) => net'[o][i].seq = 1 - expected_seq[k]
                 /\ \A j \in DOMAIN net[o] : j < i
      /\ DOMAIN net'[o] \subseteq Nat
  BY <1>1, ReceiverFrame DEF get_data_packet, Reject
<1>4. /\ expected_seq[k] = curr_seq[o] => 1 - expected_seq[k] # curr_seq[o]
      /\ expected_seq[k] # curr_seq[o] => 1 - expected_seq[k] = curr_seq[o]
  BY <1>1 DEF Bit
<1> HIDE DEF o
<1>5. InOrderOnce' /\ NothingInvented' /\ ConfirmedInv' /\ ConfirmedMeansDelivered'
  BY <1>2 DEF IInv, LinkInv, InOrderOnce, NothingInvented, ConfirmedInv, ConfirmedMeansDelivered
<1>6. ASSUME NEW u \in Caller
      PROVE  CallInv(u)' /\ EventInv(u)'
  <2>1. CallInv(u) /\ EventInv(u) /\ Home[u] \in Node
    BY HomeLemma DEF IInv, LinkInv
  <2>2. CallInv(u)'
    BY ONLY <2>1, <1>2 DEF CallInv, Open
  <2>3. EventInv(u)'
    BY ONLY <2>1, <1>1, <1>2, <1>3, <1>4 DEF EventInv, IsAck
  <2> QED
    BY <2>2, <2>3
<1>7. ASSUME NEW n \in Node
      PROVE  PathInv(n, Peer[n])' /\ AwaitingInv(n, Peer[n])' /\ AcceptedInv(n, Peer[n])'
  <2>1. /\ PathInv(n, Peer[n]) /\ AwaitingInv(n, Peer[n]) /\ AcceptedInv(n, Peer[n])
        /\ n \in Node /\ Peer[n] \in Node /\ (Peer[n] = k <=> n = o)
    BY <1>1, PeerLemma DEF IInv, LinkInv, o
  \* No data packet is added to a buffer, and none changes its place.
  <2>2. /\ \A i \in DOMAIN net'[Peer[n]] : IsData(net'[Peer[n]][i]) =>
               i \in DOMAIN net[Peer[n]] /\ net'[Peer[n]][i] = net[Peer[n]][i]
        /\ \/ data_queue'[Peer[n]] = data_queue[Peer[n]]
           \/ \A i \in DOMAIN data_queue'[Peer[n]] :
                /\ i \in Nat /\ i + 1 \in DOMAIN data_queue[Peer[n]]
                /\ data_queue'[Peer[n]][i] = data_queue[Peer[n]][i + 1]
    BY ONLY <2>1, <1>3
  <2>3. PathInv(n, Peer[n])'
    BY ONLY <2>1, <2>2, <1>2 DEF PathInv, Open, IsData
  <2>4. AwaitingInv(n, Peer[n])'
    BY ONLY <2>1, <1>2, <1>3, <1>4 DEF AwaitingInv, Open, IsAck
  <2>5. AcceptedInv(n, Peer[n])'
    BY ONLY <2>1, <2>2, <1>2, <1>3, <1>4 DEF AcceptedInv, Open, IsAck, IsData
  <2> QED
    BY <2>3, <2>4, <2>5
<1> QED
  BY <1>5, <1>6, <1>7 DEF LinkInv
LEMMA AcceptKeepsLink ==
  ASSUME QuietLink, IInv, NEW k \in Node, Accept(k)
  PROVE  LinkInv'
<1> DEFINE o == Peer[k]
           h == Head(data_queue[k])
<1>1. /\ TypeOK /\ o \in Node /\ Peer[o] = k /\ o # k
      /\ expected_seq[k] \in Bit /\ curr_seq[o] \in Bit /\ h.seq = expected_seq[k]
  BY PeerLemma DEF get_data_packet, IInv, TypeOK, Accept
<1>2. UNCHANGED <<curr_seq, pc, sndpkt, seq_to_use, ack_event, sends, confirmed>>
  BY DEF get_data_packet, Accept, callerVars
<1>3. /\ \A i \in DOMAIN data_queue'[k] :
              /\ i \in Nat /\ i + 1 \in DOMAIN data_queue[k] /\ 1 < i + 1
              /\ data_queue'[k][i] = data_queue[k][i + 1]
      /\ \A n \in Node : n # k => data_queue'[n] = data_queue[n]
      /\ \A n \in Node : n # o => net'[n] = net[n]
      /\ \A i \in DOMAIN net'[o] :
              \/ i \in DOMAIN net[o] /\ net'[o][i] = net[o][i]
              \/ /\ ~IsData(net'[o][i])
                 /\ IsAck(net'[o][i]) => net'[o][i].seq = expected_seq[k]
                 /\ \A j \in DOMAIN net[o] : j < i
      /\ DOMAIN net'[o] \subseteq Nat
      /\ 1 \in DOMAIN data_queue[k] /\ h = data_queue[k][1]
  BY <1>1, ReceiverFrame DEF get_data_packet, Accept
<1>4. /\ expected_seq'[k] = 1 - expected_seq[k]
      /\ \A n \in Node : n # k => expected_seq'[n] = expected_seq[n]
      /\ \A n \in Node : n # k => delivered'[n] = delivered[n]
  BY <1>1 DEF get_data_packet, Accept, TypeOK
<1> HIDE DEF h, o
\* The head of the queue carries an open payload, the first one to be yielded.
<1>5. PathInv(o, k) /\ AwaitingInv(o, k) /\ AcceptedInv(o, k)
  BY <1>1 DEF IInv, LinkInv
<1>6. expected_seq[k] = curr_seq[o]
  BY ONLY <1>1, <1>3, <1>5 DEF AcceptedInv
<1>7. /\ h.data \in 1..sends[o]
      /\ Open(o, h.data)
      /\ \A i \in DOMAIN delivered[k] : ~Open(o, delivered[k][i])
      /\ \A i \in DOMAIN net[o] : IsAck(net[o][i]) => net[o][i].seq # curr_seq[o]
  BY ONLY <1>1, <1>3, <1>5, <1>6 DEF PathInv, AwaitingInv
<1>8. expected_seq'[k] # curr_seq[o]
  BY ONLY <1>1, <1>4, <1>6 DEF Bit
<1>9. /\ h.data \in Nat /\ sends[o] \in Nat /\ delivered[k] \in Seq(Nat)
      /\ confirmed[o] \subseteq Nat
  BY <1>1, <1>7 DEF TypeOK
<1> DEFINE last == Len(delivered[k]) + 1
<1>10. /\ \A i \in DOMAIN delivered[k] :
            i \in DOMAIN delivered'[k] /\ delivered'[k][i] = delivered[k][i] /\ i < last
       /\ \A i \in DOMAIN delivered'[k] :
            (i \in DOMAIN delivered[k] /\ delivered'[k][i] = delivered[k][i]) \/ i = last
       /\ last \in DOMAIN delivered'[k] /\ delivered'[k][last] = h.data
       /\ DOMAIN delivered'[k] \subseteq Nat
  <2>1. delivered'[k] = Append(delivered[k], h.data)
    BY <1>1 DEF get_data_packet, Accept, TypeOK, h
  <2> QED
    BY <2>1, <1>9, AppendLemma
<1> HIDE DEF last
<1>11. \A i \in DOMAIN delivered[k] : delivered[k][i] < h.data
  <2> SUFFICES ASSUME NEW i \in DOMAIN delivered[k]
               PROVE  delivered[k][i] < h.data
    OBVIOUS
  <2>1. delivered[k][i] \in Nat
    BY <1>9
  <2>2. PICK c \in confirmed[o] : ~(c < delivered[k][i])
    BY <1>7 DEF Open
  <2>3. c < h.data
    BY <1>7 DEF Open
  <2> QED
    BY <1>9, <2>1, <2>2, <2>3
<1>12. InOrderOnce'
  <2> SUFFICES ASSUME NEW n \in Node,
                      NEW i \in DOMAIN delivered'[n], NEW j \in DOMAIN delivered'[n],
                      i < j
               PROVE  delivered'[n][i] < delivered'[n][j]
    BY DEF InOrderOnce
  <2>1. InOrderOnce
    BY DEF IInv, LinkInv
  <2>2. CASE n # k
    BY ONLY <2>1, <2>2, <1>4, i < j, n \in Node, i \in DOMAIN delivered'[n],
            j \in DOMAIN delivered'[n]
    DEF InOrderOnce
  <2>3. CASE n = k
    <3>1. i \in Nat /\ j \in Nat /\ last \in Nat
      BY <2>3, <1>10
    <3>2. CASE i \in DOMAIN delivered[k] /\ j \in DOMAIN delivered[k]
      BY <2>1, <2>3, <3>2, <1>10 DEF InOrderOnce
    <3>3. CASE i \in DOMAIN delivered[k] /\ j = last
      BY <2>3, <3>3, <1>10, <1>11
    <3>4. CASE i = last
      BY <2>3, <3>1, <3>4, <1>10
    <3> QED
      BY <2>3, <3>2, <3>3, <3>4, <1>10
  <2> QED
    BY <2>2, <2>3
<1>13. NothingInvented'
  <2> SUFFICES ASSUME NEW n \in Node, NEW i \in DOMAIN delivered'[n]
               PROVE  delivered'[n][i] \in 1..sends[Peer[n]]
    BY <1>2 DEF NothingInvented
  <2>1. NothingInvented
    BY DEF IInv, LinkInv
  <2>2. CASE n # k
    BY <2>1, <2>2, <1>4 DEF NothingInvented
  <2>3. CASE n = k
    BY <2>1, <2>3, <1>1, <1>7, <1>10 DEF NothingInvented, o
  <2> QED
    BY <2>2, <2>3
<1>14. ConfirmedInv'
  BY <1>2 DEF IInv, LinkInv, ConfirmedInv
<1>15. ConfirmedMeansDelivered'
  <2> SUFFICES ASSUME NEW n \in Node, NEW c \in confirmed[n]
               PROVE  \E i \in DOMAIN delivered'[Peer[n]] :
                        /\ delivered'[Peer[n]][i] <= c
                        /\ \A j \in confirmed[n] : j < c => j < delivered'[Peer[n]][i]
    BY <1>2 DEF ConfirmedMeansDelivered
  <2>1. PICK i \in DOMAIN delivered[Peer[n]] :
          /\ delivered[Peer[n]][i] <= c
          /\ \A j \in confirmed[n] : j < c => j < delivered[Peer[n]][i]
    BY DEF IInv, LinkInv, ConfirmedMeansDelivered
  <2>2. i \in DOMAIN delivered'[Peer[n]] /\ delivered'[Peer[n]][i] = delivered[Peer[n]][i]
    BY <1>4, <1>10, PeerLemma
  <2> QED
    BY <2>1, <2>2
<1>16. ASSUME NEW u \in Caller
       PROVE  CallInv(u)' /\ EventInv(u)'
  <2>1. /\ CallInv(u) /\ EventInv(u) /\ Home[u] \in Node /\ Peer[Home[u]] \in Node
        /\ (Peer[Home[u]] = k <=> Home[u] = o)
    BY HomeLemma, PeerLemma, <1>1 DEF IInv, LinkInv
  <2>2. CallInv(u)'
    BY ONLY <2>1, <1>2 DEF CallInv, Open
  <2>3. EventInv(u)'
    BY ONLY <2>1, <1>1, <1>2, <1>3, <1>4, <1>6 DEF EventInv, IsAck
  <2> QED
    BY <2>2, <2>3
<1>17. ASSUME NEW n \in Node
       PROVE  PathInv(n, Peer[n])' /\ AwaitingInv(n, Peer[n])' /\ AcceptedInv(n, Peer[n])'
  <2>1. /\ PathInv(n, Peer[n]) /\ AwaitingInv(n, Peer[n]) /\ AcceptedInv(n, Peer[n])
        /\ n \in Node /\ Peer[n] \in Node /\ (Peer[n] = k <=> n = o)
    BY <1>1, PeerLemma DEF IInv, LinkInv, o
  <2>2. /\ \A i \in DOMAIN net'[Peer[n]] : IsData(net'[Peer[n]][i]) =>
               i \in DOMAIN net[Peer[n]] /\ net'[Peer[n]][i] = net[Peer[n]][i]
        /\ \/ data_queue'[Peer[n]] = data_queue[Peer[n]]
           \/ \A i \in DOMAIN data_queue'[Peer[n]] :
                /\ i \in Nat /\ i + 1 \in DOMAIN data_queue[Peer[n]]
                /\ data_queue'[Peer[n]][i] = data_queue[Peer[n]][i + 1]
    BY ONLY <2>1, <1>3
  <2>3. PathInv(n, Peer[n])'
    BY ONLY <2>1, <2>2, <1>2 DEF PathInv, Open, IsData
  <2>4. CASE n # o
    <3>1. AwaitingInv(n, Peer[n])'
      BY ONLY <2>1, <2>4, <1>2, <1>3, <1>4 DEF AwaitingInv, Open, IsAck
    <3>2. AcceptedInv(n, Peer[n])'
      BY ONLY <2>1, <2>2, <2>4, <1>2, <1>3, <1>4 DEF AcceptedInv, Open, IsAck, IsData
    <3> QED
      BY <2>3, <3>1, <3>2
  <2>5. CASE n = o
    <3>1. AwaitingInv(n, Peer[n])'
      BY ONLY <2>1, <2>5, <1>2, <1>8 DEF AwaitingInv
    \* What is behind the head of the queue is at least as recent, so it is open.
    <3>2. \A i \in DOMAIN data_queue[k] : 1 < i => data_queue[k][i].seq = curr_seq[o]
      <4>1. ASSUME NEW i \in DOMAIN data_queue[k], 1 < i
            PROVE  data_queue[k][i].seq = curr_seq[o]
        <5>1. h.data <= data_queue[k][i].data /\ data_queue[k][i].data \in 1..sends[o]
          BY ONLY <4>1, <1>3, <1>5 DEF PathInv
        <5>2. Open(o, data_queue[k][i].data)
          BY <5>1, <1>7, <1>9 DEF Open
        <5> QED
          BY ONLY <4>1, <5>2, <1>5 DEF PathInv
      <4> QED
        BY <4>1
    <3>3. \A i \in DOMAIN net[k] : IsData(net[k][i]) => net[k][i].seq = curr_seq[o]
      <4>1. ASSUME NEW i \in DOMAIN net[k], IsData(net[k][i])
            PROVE  net[k][i].seq = curr_seq[o]
        <5>1. h.data <= net[k][i].data /\ net[k][i].data \in 1..sends[o]
          BY ONLY <4>1, <1>3, <1>5 DEF PathInv
        <5>2. Open(o, net[k][i].data)
          BY <5>1, <1>7, <1>9 DEF Open
        <5> QED
          BY ONLY <4>1, <5>2, <1>5 DEF PathInv
      <4> QED
        BY <4>1
    <3>4. \E i \in DOMAIN delivered'[k] : Open(o, delivered'[k][i])
      BY <1>7, <1>10
    <3>5. \A i, j \in DOMAIN net'[o] :
            i < j /\ IsAck(net'[o][i]) /\ IsAck(net'[o][j]) /\ net'[o][i].seq = curr_seq[o]
              => net'[o][j].seq = curr_seq[o]
      <4>1. DOMAIN net[o] = 1..Len(net[o]) /\ Len(net[o]) \in Nat
        BY <1>1 DEF TypeOK
      <4> QED
        BY ONLY <4>1, <1>3, <1>6, <1>7
    <3>6. AcceptedInv(n, Peer[n])'
      BY ONLY <2>1, <2>2, <2>5, <3>2, <3>3, <3>4, <3>5, <1>1, <1>2, <1>3 DEF AcceptedInv, Open,
        IsAck, IsData
    <3> QED
      BY <2>3, <3>1, <3>6
  <2> QED
    BY <2>4, <2>5
<1> QED
  BY <1>12, <1>13, <1>14, <1>15, <1>16, <1>17 DEF LinkInv
-----------------------------------------------------------------------------
(* The invariant is inductive                                              *)

LEMMA IInit == QuietLink /\ Init => IInv
<1> SUFFICES ASSUME QuietLink, Init
             PROVE  IInv
  OBVIOUS
<1>1. AliveInv /\ WaiterRegistered
  BY CallerAssumption DEF DispatcherInit, ReceiverInit, SenderInit, Init, AliveInv, WaiterRegistered
<1>2. LinkInv
  BY PeerLemma, HomeLemma DEF DispatcherInit, ReceiverInit, SenderInit, Init, LinkInv,
    InOrderOnce, NothingInvented, ConfirmedInv,
     ConfirmedMeansDelivered, CallInv, EventInv, PathInv, AwaitingInv, AcceptedInv
<1> QED
  BY <1>1, <1>2, TypeInit, StaleInit DEF IInv

\* With one caller at a node nobody else takes or empties its slot.
LEMMA WaiterStep == QuietLink /\ IInv /\ [Next]_vars => WaiterRegistered'
<1> SUFFICES ASSUME QuietLink, IInv, [Next]_vars
             PROVE  WaiterRegistered'
  OBVIOUS
<1> USE CallerAssumption DEF IInv
<1>1. ASSUME NEW t \in Caller, Begin(t) \/ CallerStep(t)
      PROVE  WaiterRegistered'
  <2> SUFFICES ASSUME NEW u \in Caller, pc'[u] \in {"transmit", "wait"}
               PROVE  ack_listeners'[Home[u]][seq_to_use'[u]] = u
    BY DEF WaiterRegistered
  <2>1. CASE u = t
    <3>1. CASE Register(t)
      <4>1. Home[t] \in Node /\ curr_seq[Home[t]] \in Bit
        BY DEF TypeOK
      <4> QED
        BY <2>1, <3>1, <4>1 DEF register_ack_waiter, Register, TypeOK
    <3>2. CASE Transmit(t)
      BY <2>1, <3>2 DEF Transmit, WaiterRegistered, TypeOK, dispatcherVars
    <3>3. CASE Begin(t) \/ AckWake(t) \/ Timeout(t) \/ ReturnTrue(t) \/ Retry(t) \/ Raise(t)
      BY <2>1, <3>3 DEF Begin, AckWake, Timeout, ReturnTrue, Retry, Raise, TypeOK
    <3> QED
      BY <1>1, <3>1, <3>2, <3>3 DEF CallerStep
  <2>2. CASE u # t
    <3>1. Home[u] # Home[t] /\ Home[u] \in Node /\ Home[t] \in Node
      BY <2>2 DEF QuietLink, OneCaller
    <3>2. pc'[u] = pc[u] /\ seq_to_use'[u] = seq_to_use[u]
      BY <1>1, <2>2 DEF register_ack_waiter, CallerStep, Begin, Register, Transmit, AckWake,
        Timeout, ReturnTrue,
                        Retry, Raise, TypeOK
    <3>3. ack_listeners'[Home[u]] = ack_listeners[Home[u]]
      BY <1>1, <3>1 DEF register_ack_waiter, CallerStep, Begin, Register, Transmit, AckWake,
        Timeout, ReturnTrue,
                        Retry, Raise, unregister_ack_waiter, dispatcherVars, TypeOK
    <3> QED
      BY <3>2, <3>3 DEF WaiterRegistered
  <2> QED
    BY <2>1, <2>2
<1>2. ASSUME NEW n \in Node, NodeStep(n)
      PROVE  WaiterRegistered'
  BY <1>2 DEF get_data_packet, NodeStep, Dispatch, Reject, Accept, ResetState, Stop,
    ListenerExit, Start,
              dispatcherVars, callerVars, WaiterRegistered
<1>3. CASE UNCHANGED vars
  BY <1>3 DEF vars, dispatcherVars, callerVars, WaiterRegistered
<1> QED
  BY <1>1, <1>2, <1>3 DEF Next

LEMMA AliveStep == QuietLink /\ IInv /\ [Next]_vars => AliveInv'
<1> SUFFICES ASSUME QuietLink, AliveInv, [Next]_vars
             PROVE  AliveInv'
  BY DEF IInv
<1>1. UNCHANGED <<running, listeners>>
  BY DEF register_ack_waiter, get_data_packet, Next, CallerStep, NodeStep, Begin, Register,
    Transmit, AckWake, Timeout, ReturnTrue, Retry,
         Raise, Dispatch, Reject, Accept, ResetState, Stop, ListenerExit, Start, QuietLink,
         AliveInv, dispatcherVars, vars
<1> QED
  BY <1>1 DEF AliveInv

LEMMA LinkStep == QuietLink /\ IInv /\ [Next]_vars => LinkInv'
<1> SUFFICES ASSUME QuietLink, IInv, [Next]_vars
             PROVE  LinkInv'
  OBVIOUS
<1>1. ASSUME NEW t \in Caller, Begin(t) \/ CallerStep(t)
      PROVE  LinkInv'
  BY <1>1, BeginKeepsLink, LocalStepsKeepLink, TransmitKeepsLink, AckWakeKeepsLink DEF CallerStep
\* Nothing is stopped or reset, so no node starts again either.
<1>2. ASSUME NEW n \in Node, NodeStep(n)
      PROVE  LinkInv'
  <2>1. Dispatch(n) \/ Reject(n) \/ Accept(n)
    BY <1>2 DEF NodeStep, ResetState, Stop, ListenerExit, Start, QuietLink, IInv, AliveInv
  <2> QED
    BY <2>1, DispatchKeepsLink, RejectKeepsLink, AcceptKeepsLink
<1>3. CASE UNCHANGED vars
  <2>1. StreamInv'
    BY <1>3, StreamFrame DEF IInv, LinkInv, StreamInv, vars, dispatcherVars, historyVars
  <2>2. ASSUME NEW u \in Caller
        PROVE  CallInv(u)' /\ EventInv(u)'
    <3>1. CallInv(u) /\ EventInv(u)
      BY DEF IInv, LinkInv
    <3> QED
      BY ONLY <3>1, <1>3 DEF CallInv, EventInv, Open, vars, dispatcherVars, callerVars, historyVars
  <2> QED
    BY <2>1, <2>2 DEF StreamInv, LinkInv
<1> QED
  BY <1>1, <1>2, <1>3 DEF Next

LEMMA IStep == QuietLink /\ IInv /\ [Next]_vars => IInv'
BY TypeStep, StaleStep, WaiterStep, AliveStep, LinkStep DEF IInv

\* The inductive invariant of a quiet link: with it, payloads come out in order and
\* once, only those that were sent, and no send() returns True before a payload of
\* the calls it closes came out.
THEOREM LinkCorrect == QuietLink => (Spec => []LinkInv)
<1> SUFFICES ASSUME QuietLink
             PROVE  Spec => []LinkInv
  OBVIOUS
<1>1. Init => IInv
  BY IInit
<1>2. IInv /\ [Next]_vars => IInv'
  BY IStep
<1>3. IInv => LinkInv
  BY DEF IInv
<1> QED
  BY <1>1, <1>2, <1>3, PTL DEF Spec

\* Payloads are yielded in the order they were sent and none twice.
THEOREM InOrder == QuietLink => (Spec => []InOrderOnce)
<1> SUFFICES ASSUME QuietLink
             PROVE  Spec => []InOrderOnce
  OBVIOUS
<1>1. Spec => []LinkInv
  BY LinkCorrect
<1>2. LinkInv => InOrderOnce
  BY DEF LinkInv
<1> QED
  BY <1>1, <1>2, PTL

\* A send() that returned True had a payload of its window delivered.
THEOREM ConfirmedDelivered == QuietLink => (Spec => []ConfirmedMeansDelivered)
<1> SUFFICES ASSUME QuietLink
             PROVE  Spec => []ConfirmedMeansDelivered
  OBVIOUS
<1>1. Spec => []LinkInv
  BY LinkCorrect
<1>2. LinkInv => ConfirmedMeansDelivered
  BY DEF LinkInv
<1> QED
  BY <1>1, <1>2, PTL

\* A caller that waits is the one its ACK is routed to.
THEOREM WaitersAreRegistered == QuietLink => (Spec => []WaiterRegistered)
<1> SUFFICES ASSUME QuietLink
             PROVE  Spec => []WaiterRegistered
  OBVIOUS
<1>1. Init => IInv
  BY IInit
<1>2. IInv /\ [Next]_vars => IInv'
  BY IStep
<1>3. IInv => WaiterRegistered
  BY DEF IInv
<1> QED
  BY <1>1, <1>2, <1>3, PTL DEF Spec
-----------------------------------------------------------------------------
(* The protocol implements the abstract link                               *)

out == [n \in Node |-> delivered[Peer[n]]]

LEMMA RefineInit == Init => Link!Init
BY PeerLemma DEF DispatcherInit, ReceiverInit, SenderInit, Init, Link!Init

LEMMA RefineStep == QuietLink /\ IInv /\ [Next]_vars => [Link!Next]_(Link!vars)
<1> SUFFICES ASSUME QuietLink, IInv, [Next]_vars
             PROVE  Link!Next \/ UNCHANGED <<sends, confirmed, out>>
  BY DEF Link!vars, out
<1>1. ASSUME UNCHANGED <<sends, confirmed, delivered>>
      PROVE  UNCHANGED <<sends, confirmed, out>>
  BY <1>1 DEF out
<1>2. ASSUME NEW t \in Caller, Begin(t)
      PROVE  Link!Next
  <2>1. Link!Submit(Home[t])
    BY <1>2 DEF Begin, Link!Submit
  <2> QED
    BY <2>1, HomeLemma DEF Link!Next
<1>3. ASSUME NEW t \in Caller, AckWake(t)
      PROVE  Link!Next
  <2> DEFINE k == Home[t]
  <2>1. /\ k \in Node /\ Peer[k] \in Node /\ TypeOK /\ NothingInvented /\ Peer[Peer[k]] = k
        /\ sends[k] \in Nat /\ confirmed[k] \subseteq Nat
    BY HomeLemma, PeerLemma DEF IInv, LinkInv, TypeOK
  <2>2. CallInv(t) /\ EventInv(t) /\ AcceptedInv(k, Peer[k])
    BY <2>1 DEF IInv, LinkInv
  <2>3. sndpkt[t].data = sends[k] /\ Open(k, sends[k]) /\ sends[k] > 0
    BY ONLY <2>2, <1>3 DEF CallInv, AckWake, make_data_packet
  <2>4. PICK i \in DOMAIN delivered[Peer[k]] : Open(k, delivered[Peer[k]][i])
    BY ONLY <2>2, <1>3 DEF EventInv, AcceptedInv, AckWake
  <2>5. delivered[Peer[k]][i] \in 1..sends[k]
    BY <2>1 DEF NothingInvented
  <2>6. sends[k] \in Link!Open(k)
    BY <2>1, <2>3 DEF Link!Open, Open
  <2>7. delivered[Peer[k]][i] \in Link!Open(k)
    BY <2>4, <2>5 DEF Link!Open, Open
  <2>8. Link!OneIsOut(k)
    BY <2>1, <2>7 DEF Link!OneIsOut
  <2>9. Link!Confirm(k)
    BY <2>3, <2>6, <2>8, <1>3 DEF Link!Confirm, AckWake
  <2> QED
    BY <2>1, <2>9 DEF Link!Next
<1>4. ASSUME NEW k \in Node, Accept(k)
      PROVE  Link!Next
  <2> DEFINE o == Peer[k]
             h == Head(data_queue[k])
  <2>1. /\ o \in Node /\ Peer[o] = k /\ \A n \in Node : Peer[n] = k => n = o
        /\ TypeOK /\ data_queue[k] \in Seq(Packet) /\ data_queue[k] # <<>>
    BY <1>4, PeerLemma DEF get_data_packet, IInv, TypeOK, Accept
  <2>2. 1 \in DOMAIN data_queue[k] /\ h = data_queue[k][1] /\ h.seq = expected_seq[k]
    BY <2>1, <1>4 DEF get_data_packet, Accept
  <2>3. PathInv(o, k) /\ AwaitingInv(o, k) /\ AcceptedInv(o, k)
    BY <2>1 DEF IInv, LinkInv
  <2> HIDE DEF h, o
  <2>4. expected_seq[k] = curr_seq[o]
    BY ONLY <2>2, <2>3 DEF AcceptedInv
  <2>5. /\ h.data \in 1..sends[o] /\ Open(o, h.data)
        /\ \A i \in DOMAIN delivered[k] : ~Open(o, delivered[k][i])
    BY ONLY <2>2, <2>3, <2>4 DEF PathInv, AwaitingInv
  <2>6. h.data \in Link!Open(o)
    BY <2>5 DEF Link!Open, Open
  <2>7. ~Link!OneIsOut(o)
    BY <2>1, <2>5 DEF Link!OneIsOut, Link!Open, Open
  <2>8. out' = [out EXCEPT ![o] = Append(@, h.data)]
    <3>1. /\ delivered' = [delivered EXCEPT ![k] = Append(@, h.data)]
          /\ delivered \in [Node -> Seq(Nat)]
      BY <2>1, <1>4 DEF get_data_packet, Accept, TypeOK, h
    <3>2. \A n \in Node : Peer[n] \in Node
      BY PeerLemma
    <3>3. \A n \in Node :
            delivered'[Peer[n]] = IF n = o THEN Append(delivered[k], h.data) ELSE delivered[Peer[n]]
      BY <2>1, <3>1, <3>2
    <3> QED
      BY <2>1, <3>3 DEF out
  <2>9. Link!Deliver(o)
    BY <2>6, <2>7, <2>8, <1>4 DEF Link!Deliver, out, Accept
  <2> QED
    BY <2>1, <2>9 DEF Link!Next
<1>5. ASSUME NEW t \in Caller,
             Register(t) \/ Transmit(t) \/ Timeout(t) \/ ReturnTrue(t) \/ Retry(t) \/ Raise(t)
      PROVE  UNCHANGED <<sends, confirmed, delivered>>
  BY <1>5 DEF register_ack_waiter, Register, Transmit, Timeout, ReturnTrue, Retry, Raise,
    historyVars
<1>6. ASSUME NEW n \in Node, NodeStep(n), ~Accept(n)
      PROVE  UNCHANGED <<sends, confirmed, delivered>>
  BY <1>6 DEF get_data_packet, NodeStep, Dispatch, Reject, ResetState, Stop, ListenerExit, Start,
    historyVars
<1>7. CASE UNCHANGED vars
  BY <1>1, <1>7 DEF vars, historyVars
<1> QED
  BY <1>1, <1>2, <1>3, <1>4, <1>5, <1>6, <1>7 DEF Next, CallerStep

\* Each direction of a quiet link is a ReliableLink.
THEOREM LinkImplements == QuietLink => (Spec => LinkSpec)
<1> SUFFICES ASSUME QuietLink
             PROVE  Spec => LinkSpec
  OBVIOUS
<1>1. Init => IInv
  BY IInit
<1>2. IInv /\ [Next]_vars => IInv'
  BY IStep
<1>3. Init => Link!Init
  BY RefineInit
<1>4. IInv /\ [Next]_vars => [Link!Next]_(Link!vars)
  BY RefineStep
<1> QED
  BY <1>1, <1>2, <1>3, <1>4, PTL DEF Spec, LinkSpec, Link!Spec
=============================================================================
