------------------------- MODULE SmtpDeliveryProofs -------------------------
(***************************************************************************)
(* Theorems about module SmtpServer: a client whose messages fit one packet *)
(* has at most one packet in the pool, and is given the reply to that       *)
(* packet and no other; its messages are stored whole, once, and for the    *)
(* recipient it named.  Sends may give up on any link, and the reaper may   *)
(* take any client's session; a client that comes back must only wait until *)
(* the server has forgotten it.                                             *)
(***************************************************************************)
EXTENDS SmtpProofs

OnePart == MaxChunks = 1

\* A worker that has a packet in hand and owes its answer, or that forgets its client.
Serving == {"process", "command", "extend", "check", "copy", "reset", "finalize", "reply"}
Forgetting == {"pop_sender", "pop_session", "reset_state"}

Serves(w, a) == worker[w].at \in Serving /\ worker[w].task.addr = a
Holds(w, a) == worker[w].at \in Serving \union Forgetting /\ worker[w].task.addr = a

Linked(a) == inbound[a] # NoPacket
Greeted(a) == greeting # NoPacket /\ greeting.addr = a
InQueue(q, a) == \E i \in DOMAIN q : q[i].addr = a
Once(q, a) == \A i, j \in DOMAIN q : q[i].addr = a /\ q[j].addr = a => i = j

AtServer(a) == Greeted(a) \/ InQueue(tasks, a) \/ \E w \in Worker : Holds(w, a)

\* The packet on the link is one that the receiver will take.
Live(a) == Linked(a) /\ inbound[a].bit = expected[a]

\* At most one packet of the client is at the server, in one place, and no other can join it.
OneInv(a) ==
  /\ Live(a) \/ (Linked(a) /\ Alive(a)) => ~AtServer(a)
  /\ Greeted(a) => ~InQueue(tasks, a) /\ \A w \in Worker : ~Holds(w, a)
  /\ InQueue(tasks, a) => \A w \in Worker : ~Holds(w, a)
  /\ Once(tasks, a)
  /\ \A w, u \in Worker : Holds(w, a) /\ Holds(u, a) => w = u

\* The server still owes the client an answer.
Owed(a) == Linked(a) \/ Greeted(a) \/ InQueue(tasks, a) \/ \E w \in Worker : Serves(w, a)

\* The replies a client waits for, those it has, and whether it will drop the first of them.
Waits(a) == Len(client[a].awaiting)
Has(a) == Len(client[a].inbox)
Drops(a) == Head(client[a].inbox).bit # client[a].expects

\* The bits of a client, of the packet it has on the link, and of the receiver.  The receiver
\* drops what a client that gave up sends behind a packet that arrived all the same.
BitInv(a) ==
  /\ Alive(a) =>
       /\ client[a].expects = IF Waits(a) = 1 THEN client[a].bit ELSE 1 - client[a].bit
       /\ Linked(a) => inbound[a].bit = 1 - client[a].bit
       /\ sessions[a] # 0 =>
            client[a].bit = IF Linked(a) THEN 1 - expected[a] ELSE expected[a]
  /\ client[a].mode = "failing" =>
       /\ Linked(a) => inbound[a].bit = client[a].bit /\ ~AtServer(a)
       /\ ~Linked(a) /\ AtServer(a) => expected[a] # client[a].bit
  /\ client[a].mode = "closed" => ~Owed(a)
  /\ Linked(a) /\ AtServer(a) => client[a].mode = "gone" /\ inbound[a].part = 0

\* What the server has forgotten of a client that it has no session for.  (A reply to a
\* client that is gone may make a new sender for it.)
ForgetInv(a) ==
  /\ sessions[a] = 0 => ~Greeted(a) /\ ~InQueue(tasks, a) /\ \A w \in Worker : ~Serves(w, a)
  /\ sessions[a] = 0 => \/ expected[a] = 0 /\ (client[a].mode = "gone" \/ senders[a] = NoSender)
                        \/ \E w \in Worker : Holds(w, a) /\ worker[w].at = "reset_state"
  /\ \A w \in Worker : Holds(w, a) =>
       /\ worker[w].at \in {"pop_session", "reset_state"} =>
            client[a].mode = "gone" \/ senders[a] = NoSender
       /\ worker[w].at = "reset_state" => sessions[a] = 0

\* A client that waits for two replies has just connected; one that waits for 221 said QUIT.
AwaitInv(a) ==
  /\ Waits(a) <= 2
  /\ Waits(a) = 2 => /\ Head(client[a].awaiting) = 220 /\ client[a].part = 0
                     /\ Tail(client[a].awaiting) = <<250>>
  /\ client[a].awaiting = << 221 >> =>
       client[a].part = 0 /\ script[a][client[a].n].verb = "QUIT"

\* The message of the client was refused: it is told so, once or several times, and nothing
\* that it is told lets it go on.
Doomed(a) ==
  /\ client[a].mode = "open" /\ client[a].awaiting = <<250>> /\ client[a].part = 1 /\ ~Owed(a)
  /\ \A i \in DOMAIN client[a].inbox : client[a].inbox[i].code \in {220, 500}

\* A worker refuses the lines behind the first of a message.
Rests(w, a) == worker[w].at = "rest" /\ worker[w].task.addr = a

\* Only a message has more than one line, and only a refused one is answered more than once.
LineInv ==
  \A w \in Worker : worker[w].lines > 0 =>
    worker[w].at \in {"reply", "rest"} /\ worker[w].code = 500 /\ worker[w].task.part > 0

\* While the rest of a message is refused, its client waits or gives up.
RestInv(a) ==
  \A w \in Worker : Rests(w, a) =>
    /\ client[a].mode \in {"open", "failing", "gone"}
    /\ client[a].mode # "gone" => ~Linked(a) /\ ~AtServer(a) /\ sessions[a] # 0
    /\ client[a].mode = "open" => /\ Doomed(a) /\ worker[w].task.part = 1
                                  /\ worker[w].task.n = client[a].n

\* A client that waits for one reply has the one to its last packet or will be sent it, and
\* what comes before that has the wrong bit: the greeting of a session that was made
\* because the reaper took the one before.  To its message it has nothing but that greeting
\* until it is answered.
TurnInv(a) ==
  Alive(a) =>
    /\ AwaitInv(a)
    /\ Has(a) <= 2 \/ Doomed(a)
    /\ Linked(a) => Has(a) = 0
    /\ Waits(a) = 0 => Has(a) = 0 /\ ~Owed(a)
    /\ Waits(a) = 1 => /\ Has(a) = 2 => (~Owed(a) /\ Drops(a)) \/ Doomed(a)
                       /\ Has(a) = 1 /\ Owed(a) => Drops(a)
                       /\ Greeted(a) => Has(a) = 0 /\ client[a].expects = 1
                       /\ Greeted(a) => senders[a] = NoSender
    /\ Waits(a) = 2 => /\ Owed(a) => Has(a) <= 1
                       /\ Greeted(a) => Has(a) = 0
    /\ client[a].part = 1 =>
         /\ Waits(a) = 1 => client[a].awaiting = <<250>>
         /\ Owed(a) => \A i \in DOMAIN client[a].inbox : client[a].inbox[i].code = 220

\* The packet p is the last one that client c sent, unless c has given up.
Fits(c, p) ==
  /\ p.part = 1 => p.last /\ p.verb = "chunk"
  /\ p.part = 0 => ~p.last /\ p.verb # "chunk"
  /\ c.mode \in {"open", "data"} =>
       /\ p.n = c.n /\ p.part = c.part
       /\ p.verb = "DATA" => c.awaiting = <<354>>
       /\ p.verb = "QUIT" => c.awaiting = <<221>>

FitInv(a) ==
  /\ Linked(a) => Fits(client[a], inbound[a])
  /\ Greeted(a) => Fits(client[a], greeting)
  /\ \A i \in DOMAIN tasks : tasks[i].addr = a => Fits(client[a], tasks[i])
  /\ \A w \in Worker : Holds(w, a) => Fits(client[a], worker[w].task)

\* The replies at a client answer what it sent last.
ReplyInv(a) ==
  Alive(a) => \A i \in DOMAIN client[a].inbox :
                client[a].inbox[i].n = client[a].n /\ client[a].inbox[i].part = client[a].part

FlowInv(a) ==
  /\ OneInv(a) /\ BitInv(a) /\ ForgetInv(a) /\ RestInv(a) /\ TurnInv(a) /\ FitInv(a)
  /\ ReplyInv(a)

\* The state of the session the client has now, and its buffer.
Reading(a) == sessions[a] # 0 /\ session[a][sessions[a]].state = "READING_DATA_STREAM"
Buffer(a) == session[a][sessions[a]].data_buffer

\* The client is about to be told 354.
Waiting(a) ==
  /\ Alive(a) /\ client[a].awaiting = <<354>>
  /\ \A i \in DOMAIN client[a].inbox : \/ client[a].inbox[i].code = 354
                                       \/ client[a].inbox[i].bit # client[a].expects
  /\ ~Linked(a) /\ ~Greeted(a) /\ ~InQueue(tasks, a)
  /\ \A w \in Worker : Holds(w, a) => worker[w].at = "reply" /\ worker[w].code = 354

\* The client is about to send its message, or the message is on its way to the buffer.
Streaming == {"process", "extend", "check", "copy", "reset"}
Mailing(a) ==
  \/ client[a].mode = "data" /\ client[a].awaiting = <<>>
  \/ /\ Alive(a) /\ client[a].part = 1
     /\ \/ Linked(a) \/ InQueue(tasks, a)
        \/ \E w \in Worker : Serves(w, a) /\ worker[w].at \in Streaming

\* A command of a client that has given up is its last: nothing follows it.
Final(a, p) == p.part = 0 => client[a].mode = "gone" /\ ~Linked(a)

\* The client has given up: a message of it may still come, or its QUIT, which is then taken
\* for a line of the message.
Lost(a) ==
  /\ client[a].mode \in {"failing", "gone"} /\ ~Greeted(a)
  /\ Linked(a) => inbound[a].part = 1 \/ client[a].mode = "gone"
  /\ \A i \in DOMAIN tasks : tasks[i].addr = a => Final(a, tasks[i])
  /\ \A w \in Worker : Holds(w, a) => \/ worker[w].at = "reply" /\ worker[w].code = 354
                                      \/ worker[w].at \in Streaming /\ Final(a, worker[w].task)

ReadingInv(a) == Reading(a) => Waiting(a) \/ Mailing(a) \/ Lost(a)

\* A worker uses the session its client has now.
SidInv(a) ==
  \A w \in Worker : Serves(w, a) /\ worker[w].at # "process" =>
                      sessions[a] # 0 /\ worker[w].sid = sessions[a]

\* Nothing of the client is left, and nothing will come.
Spent(a) == client[a].mode = "gone" /\ ~Linked(a) /\ ~AtServer(a)

BufInv(a) ==
  /\ sessions[a] # 0 =>
       \/ Buffer(a) = <<>> \/ Spent(a)
       \/ \E w \in Worker : Serves(w, a) /\ worker[w].at \in {"check", "copy", "reset"}
  /\ \A w \in Worker : Serves(w, a) =>
       /\ worker[w].at \in {"extend", "check"} => Final(a, worker[w].task)
       /\ worker[w].at \in {"check", "copy"} => Buffer(a) = <<worker[w].task>>
       /\ worker[w].at \in {"reset", "finalize"} => worker[w].full = <<worker[w].task>>
       /\ worker[w].at \in {"copy", "reset", "finalize"} => worker[w].task.part = 1

StreamInv(a) == SidInv(a) /\ ReadingInv(a) /\ BufInv(a)

From(k, a) == stored[k].parts[1].addr = a
Number(k) == stored[k].parts[1].n
InStored(a, n) == \E k \in DOMAIN stored : From(k, a) /\ Number(k) = n

\* A number that client a has used for a message.
Used(a, n) == n <= client[a].n /\ (client[a].part = 0 => n < client[a].n)

\* The message p has not been stored yet.
Free(a, p) == p.part = 1 => Used(a, p.n) /\ ~InStored(a, p.n)

\* The packet p of client a is on its way to a handler, or a worker has not answered it.
Pending(a, p) ==
  \/ Linked(a) /\ p = inbound[a]
  \/ Greeted(a) /\ p = greeting
  \/ \E i \in DOMAIN tasks : tasks[i].addr = a /\ p = tasks[i]
  \/ \E w \in Worker : Serves(w, a) /\ worker[w].at # "reply" /\ p = worker[w].task

StoredInv(a) ==
  /\ \A k \in DOMAIN stored : From(k, a) =>
       /\ stored[k].parts = <<stored[k].parts[1]>>
       /\ stored[k].parts[1].part = 1 /\ stored[k].parts[1].last
       /\ Used(a, Number(k))
  /\ \A k, l \in DOMAIN stored : From(k, a) /\ From(l, a) /\ Number(k) = Number(l) => k = l
  /\ \A p \in Packets : Pending(a, p) => Free(a, p)

AcceptInv(a) ==
  /\ \A n \in client[a].accepted : InStored(a, n)
  /\ \A i \in DOMAIN client[a].inbox :
       client[a].inbox[i].code = 250 /\ client[a].inbox[i].part > 0 =>
         InStored(a, client[a].inbox[i].n)
  /\ \A w \in Worker :
       /\ Serves(w, a) /\ worker[w].at = "reply"
       /\ worker[w].code = 250 /\ worker[w].task.part > 0
       => InStored(a, worker[w].task.n)

MailInv(a) == StoredInv(a) /\ AcceptInv(a)

-----------------------------------------------------------------------------
(* One packet of the client at the server                                  *)

LEMMA AppendQueue ==
  ASSUME NEW q \in Seq(Packets), NEW p \in Packets, NEW a
  PROVE  /\ InQueue(Append(q, p), a) => InQueue(q, a) \/ p.addr = a
         /\ Once(q, a) /\ (p.addr = a => ~InQueue(q, a)) => Once(Append(q, p), a)
         /\ \A i \in DOMAIN Append(q, p) : \/ Append(q, p)[i] = p
                                           \/ \E j \in DOMAIN q : q[j] = Append(q, p)[i]
         /\ p.addr = a => InQueue(Append(q, p), a)
<1> DEFINE r == Append(q, p)
<1>1. /\ Len(q) \in Nat /\ DOMAIN q = 1..Len(q) /\ DOMAIN r = 1..(Len(q) + 1)
      /\ \A i \in 1..Len(q) : r[i] = q[i]
      /\ r[Len(q) + 1] = p
  <2>1. r \in Seq(Packets) /\ Len(r) = Len(q) + 1
    BY AppendProperties
  <2> QED
    BY <2>1, AppendProperties, LenProperties
<1> HIDE DEF r
<1>2. \A i \in DOMAIN r : \/ i \in DOMAIN q /\ r[i] = q[i]
                          \/ i = Len(q) + 1 /\ r[i] = p
  BY <1>1
<1>3. InQueue(r, a) => InQueue(q, a) \/ p.addr = a
  BY <1>2 DEF InQueue
<1>4. Once(q, a) /\ (p.addr = a => ~InQueue(q, a)) => Once(r, a)
  BY <1>2 DEF InQueue, Once
<1>5. p.addr = a => InQueue(r, a)
  <2>1. Len(q) + 1 \in DOMAIN r
    BY <1>1
  <2> QED
    BY <1>1, <2>1 DEF InQueue
<1> QED
  BY <1>2, <1>3, <1>4, <1>5 DEF r

LEMMA TailQueue ==
  ASSUME NEW q \in Seq(Packets), q # <<>>, NEW a
  PROVE  /\ InQueue(Tail(q), a) => InQueue(q, a)
         /\ Once(q, a) => Once(Tail(q), a)
         /\ \A i \in DOMAIN Tail(q) : \E j \in DOMAIN q : q[j] = Tail(q)[i]
         /\ Head(q).addr # a /\ InQueue(q, a) => InQueue(Tail(q), a)
         /\ Head(q).addr = a => InQueue(q, a) /\ (Once(q, a) => ~InQueue(Tail(q), a))
         /\ Head(q) \in Packets /\ \E j \in DOMAIN q : q[j] = Head(q)
<1> DEFINE r == Tail(q)
<1>1. /\ Len(q) \in Nat \ {0} /\ DOMAIN q = 1..Len(q) /\ DOMAIN r = 1..(Len(q) - 1)
      /\ \A i \in DOMAIN r : r[i] = q[i + 1]
      /\ Head(q) = q[1] /\ Head(q) \in Packets
  <2>1. r \in Seq(Packets) /\ Len(r) = Len(q) - 1
    BY HeadTailProperties
  <2>2. DOMAIN r = 1..Len(r) /\ DOMAIN q = 1..Len(q)
    BY <2>1, LenProperties
  <2> QED
    BY <2>1, <2>2, HeadTailProperties, EmptySeq
<1> HIDE DEF r
<1>2. 1 \in DOMAIN q /\ \A i \in DOMAIN r : i + 1 \in DOMAIN q /\ r[i] = q[i + 1] /\ i + 1 # 1
  BY <1>1
<1>3. Once(q, a) => Once(r, a)
  <2> SUFFICES ASSUME Once(q, a), NEW i \in DOMAIN r, NEW j \in DOMAIN r,
                      r[i].addr = a, r[j].addr = a
               PROVE  i = j
    BY DEF Once
  <2>1. i + 1 = j + 1
    BY <1>2 DEF Once
  <2> QED
    BY <1>1, <2>1
<1>4. Head(q).addr # a /\ InQueue(q, a) => InQueue(r, a)
  <2> SUFFICES ASSUME Head(q).addr # a, NEW j \in DOMAIN q, q[j].addr = a
               PROVE  InQueue(r, a)
    BY DEF InQueue
  <2>1. j - 1 \in DOMAIN r /\ j = (j - 1) + 1
    BY <1>1
  <2> QED
    BY <1>2, <2>1 DEF InQueue
<1>5. Head(q).addr = a => InQueue(q, a) /\ (Once(q, a) => ~InQueue(r, a))
  BY <1>1, <1>2 DEF InQueue, Once
<1> QED
  BY <1>1, <1>2, <1>3, <1>4, <1>5 DEF InQueue, r

\* Nothing of a client is in the pool when no packet of the pool is its packet.
LEMMA OutOfPool ==
  ASSUME TypeInv, NEW a \in Addr, ~InPool(a)
  PROVE  ~InQueue(tasks, a) /\ \A w \in Worker : ~Holds(w, a) /\ ~Rests(w, a)
<1>1. \A p \in ToSet(tasks) \union {worker[w].task : w \in Worker} :
        p # NoPacket => p.addr # a
  BY DEF InPool
<1>2. ~InQueue(tasks, a)
  <2> SUFFICES ASSUME NEW i \in DOMAIN tasks, tasks[i].addr = a PROVE FALSE
    BY DEF InQueue
  <2>1. tasks \in Seq(Packets)
    BY DEF TypeInv, PoolInv
  <2>2. tasks[i] \in Packets /\ tasks[i] \in ToSet(tasks)
    BY <2>1, LenProperties, ElementOfSeq DEF ToSet
  <2> QED
    BY <1>1, <2>2, NoBits
<1>3. ASSUME NEW w \in Worker PROVE ~Holds(w, a) /\ ~Rests(w, a)
  <2>1. Holds(w, a) \/ Rests(w, a) => worker[w].task \in Packets
    BY WorkerFields DEF Holds, Rests, Serving, Forgetting, At
  <2> QED
    BY <1>1, <2>1, NoBits DEF Holds, Rests
<1> QED
  BY <1>2, <1>3

\* A step that brings nothing of client a to another place, and changes nothing else of it:
\* a packet may leave its link.
Less(a) ==
  /\ client'[a] = client[a] /\ script' = script /\ expected'[a] = expected[a]
  /\ sessions'[a] = sessions[a] /\ senders'[a] = senders[a]
  /\ Linked(a)' => Linked(a) /\ inbound'[a] = inbound[a]
  /\ Linked(a) /\ ~Linked(a)' => ~Alive(a) \/ sessions[a] = 0
  /\ Greeted(a)' => Greeted(a) /\ greeting' = greeting
  /\ InQueue(tasks', a) => InQueue(tasks, a)
  /\ Once(tasks, a) => Once(tasks', a)
  /\ \A i \in DOMAIN tasks' : tasks'[i].addr = a => \E j \in DOMAIN tasks : tasks[j] = tasks'[i]
  /\ \A w \in Worker : /\ Holds(w, a)' => Holds(w, a) /\ worker'[w].task = worker[w].task
                       /\ Serves(w, a)' => Serves(w, a)
                       /\ Rests(w, a)' => Rests(w, a) /\ worker'[w].task = worker[w].task
                       /\ Holds(w, a)' /\ worker'[w].at \in {"pop_session", "reset_state"} =>
                            worker'[w].at = worker[w].at
                       /\ Holds(w, a) /\ worker[w].at = "reset_state" => worker'[w] = worker[w]

LEMMA LessFlow == ASSUME NEW a, FlowInv(a), Less(a) PROVE FlowInv(a)'
<1>1. /\ Alive(a)' = Alive(a) /\ (Live(a)' => Live(a)) /\ (AtServer(a)' => AtServer(a))
      /\ Owed(a)' => Owed(a)
  BY DEF Less, Alive, Live, AtServer, Owed
<1>2. OneInv(a)'
  BY <1>1 DEF FlowInv, OneInv, Less
<1>3. BitInv(a)'
  <2>1. Alive(a) /\ sessions[a] # 0 => (Linked(a)' <=> Linked(a))
    BY DEF Less
  <2>2. client[a].mode = "failing" /\ AtServer(a)' /\ ~Linked(a)' => ~Linked(a)
    BY <1>1 DEF FlowInv, BitInv
  <2> QED
    BY <1>1, <2>1, <2>2 DEF FlowInv, BitInv, Less, Waits
<1>4. ForgetInv(a)'
  <2>1. ASSUME NEW w \in Worker, Holds(w, a), worker[w].at = "reset_state"
        PROVE  Holds(w, a)' /\ worker'[w].at = "reset_state"
    BY <2>1 DEF Less, Holds
  <2> QED
    BY <2>1 DEF FlowInv, ForgetInv, Less
<1>5. TurnInv(a)'
  <2>1. /\ AwaitInv(a)' = AwaitInv(a) /\ Waits(a)' = Waits(a) /\ Has(a)' = Has(a)
        /\ Drops(a)' = Drops(a)
    BY DEF AwaitInv, Waits, Has, Drops, Less
  <2>2. Doomed(a) => Doomed(a)'
    BY <1>1 DEF Doomed, Less
  <2> QED
    BY <1>1, <2>1, <2>2 DEF FlowInv, TurnInv, Less
<1>6. \A i \in DOMAIN tasks' : tasks'[i].addr = a => Fits(client'[a], tasks'[i])
  BY DEF FlowInv, FitInv, Less
<1>7. FitInv(a)'
  BY <1>1, <1>6 DEF FlowInv, FitInv, Less
<1>8. ReplyInv(a)'
  BY <1>1 DEF FlowInv, ReplyInv, Less
<1>9. RestInv(a)'
  BY <1>1 DEF FlowInv, RestInv, Doomed, Less
<1> QED
  BY <1>2, <1>3, <1>4, <1>5, <1>7, <1>8, <1>9 DEF FlowInv

-----------------------------------------------------------------------------
(* The steps of the client                                                 *)

\* Nothing of the client is at the server, or on the way to it.
Quiet(a) ==
  /\ ~Linked(a) /\ ~Greeted(a) /\ ~InQueue(tasks, a)
  /\ \A w \in Worker : ~Holds(w, a) /\ ~Rests(w, a)

LEMMA ReadyQuiet ==
  ASSUME TypeInv, QuitInv, NEW a \in Addr, FlowInv(a), Ready(a), Alive(a)
  PROVE  /\ Quiet(a) /\ client[a].inbox = <<>>
         /\ client[a].expects = 1 - client[a].bit
         /\ sessions[a] # 0 => client[a].bit = expected[a]
<1>1. client[a].awaiting = <<>> /\ ~Linked(a)
  BY DEF Ready, Linked
<1>2. client[a].inbox \in Seq(ReplyType)
  BY ClientFields
<1>3. Len(client[a].awaiting) = 0
  BY <1>1
<1>4. Len(client[a].inbox) = 0 /\ ~Owed(a)
  BY <1>3 DEF FlowInv, TurnInv, Waits, Has
<1>5. client[a].awaiting # << 221 >>
  BY <1>1
<1>6. ASSUME NEW w \in Worker, Holds(w, a) PROVE FALSE
  <2>1. worker[w].at \in Forgetting
    BY <1>4, <1>6 DEF Owed, Holds, Serves
  <2>2. worker[w].task.verb = "QUIT"
    BY <2>1 DEF QuitInv, Leaving, Forgetting
  <2>3. Fits(client[a], worker[w].task)
    BY <1>6 DEF FlowInv, FitInv
  <2> QED
    BY <1>5, <2>2, <2>3 DEF Fits, Alive
<1>7. client[a].inbox = <<>>
  BY <1>2, <1>4, EmptySeq
<1>8. /\ client[a].expects = 1 - client[a].bit
      /\ sessions[a] # 0 => client[a].bit = expected[a]
  BY <1>1, <1>3 DEF FlowInv, BitInv, Waits
<1>9. ASSUME NEW w \in Worker, Rests(w, a) PROVE FALSE
  <2>1. client[a].awaiting # << 250 >>
    BY <1>1
  <2> QED
    BY <1>9, <2>1 DEF FlowInv, RestInv, Alive, Doomed
<1> QED
  BY <1>1, <1>4, <1>6, <1>7, <1>8, <1>9 DEF Owed, Quiet

LEMMA ForgottenQuiet ==
  ASSUME TypeInv, NEW a \in Addr, FlowInv(a), Forgotten(a), Ready(a)
  PROVE  Quiet(a)
<1>1. ~Linked(a) /\ sessions[a] = 0 /\ ~InPool(a)
  BY DEF Forgotten, Ready, Linked
<1>2. ~Greeted(a)
  BY <1>1 DEF FlowInv, ForgetInv
<1>3. ~InQueue(tasks, a) /\ \A w \in Worker : ~Holds(w, a) /\ ~Rests(w, a)
  BY <1>1, OutOfPool
<1> QED
  BY <1>1, <1>2, <1>3 DEF Quiet

\* What a send leaves of its client.
LEMMA SendFields ==
  ASSUME TypeInv, NEW a \in Addr, NEW p \in Packets, NEW c \in ClientType, Send(a, p, c)
  PROVE  /\ client'[a] = SentBy(c, p) /\ inbound'[a] = p /\ p # NoPacket
         /\ UNCHANGED <<script, expected, senders, greeting, tasks, worker, sessions, session,
                        stored>>
         /\ client'[a].mode = c.mode /\ client'[a].awaiting = c.awaiting
         /\ client'[a].inbox = c.inbox /\ client'[a].accepted = c.accepted
         /\ client'[a].part = p.part /\ client'[a].n = p.n
         /\ client'[a].bit = 1 - p.bit /\ client'[a].expects = c.expects /\ p.bit \in {0, 1}
<1> DEFINE d == SentBy(c, p)
<1>1. client' = [client EXCEPT ![a] = d] /\ inbound' = [inbound EXCEPT ![a] = p]
  BY DEF Send, SentBy
<1>2. /\ d.mode = c.mode /\ d.awaiting = c.awaiting /\ d.inbox = c.inbox
      /\ d.part = p.part /\ d.n = p.n /\ d.bit = 1 - p.bit /\ d.expects = c.expects
      /\ d.accepted = c.accepted /\ p.bit \in {0, 1}
  BY DEF SentBy, ClientType, Packets
<1> HIDE DEF d
<1>3. /\ client'[a] = d /\ inbound'[a] = p /\ p # NoPacket
      /\ UNCHANGED <<script, expected, senders, greeting, tasks, worker, sessions, session,
                     stored>>
  BY <1>1, NoBits DEF Send, TypeInv, ClientInv, LinkInv, sessionVars
<1> QED
  BY <1>2, <1>3 DEF d

\* The client waits for one reply, or for two: it has connected.
LEMMA SentAwaits ==
  ASSUME TypeInv, NEW a \in Addr, NEW p \in Packets, NEW c \in ClientType, Send(a, p, c),
         c.inbox = <<>>,
         \/ /\ Len(c.awaiting) = 1
            /\ c.awaiting = << 221 >> => p.part = 0 /\ script[a][p.n].verb = "QUIT"
         \/ /\ Len(c.awaiting) = 2
            /\ Head(c.awaiting) = 220 /\ Tail(c.awaiting) = << 250 >> /\ p.part = 0
  PROVE  AwaitInv(a)' /\ Has(a)' = 0 /\ Waits(a)' = Len(c.awaiting) /\ Waits(a)' \in {1, 2}
<1>1. /\ client'[a].awaiting = c.awaiting /\ client'[a].inbox = c.inbox
      /\ client'[a].part = p.part /\ client'[a].n = p.n /\ script' = script
  BY SendFields
<1>2. Len(<<>>) = 0 /\ Len(<< 221 >>) = 1
  OBVIOUS
<1>3. Has(a)' = 0 /\ Waits(a)' = Len(c.awaiting)
  BY <1>1, <1>2 DEF Has, Waits
<1>4. CASE Len(c.awaiting) = 1
  BY <1>1, <1>3, <1>4 DEF AwaitInv
<1>5. CASE Len(c.awaiting) = 2
  BY <1>1, <1>2, <1>3, <1>5 DEF AwaitInv
<1> QED
  BY <1>3, <1>4, <1>5

LEMMA SendFlow ==
  ASSUME TypeInv, NEW a \in Addr, FlowInv(a), Quiet(a), NEW p \in Packets, NEW c \in ClientType,
         Send(a, p, c), p.addr = a, Fits(SentBy(c, p), p), c.mode = "open",
         client[a].mode # "gone", p.part = 1 => c.awaiting = << 250 >>,
         AwaitInv(a)', Has(a)' = 0, Waits(a)' \in {1, 2},
         c.expects = IF Waits(a)' = 1 THEN 1 - p.bit ELSE p.bit,
         sessions[a] # 0 => p.bit = expected[a]
  PROVE  FlowInv(a)'
<1> DEFINE d == client'[a]
<1>1. /\ d = SentBy(c, p) /\ inbound'[a] = p /\ p # NoPacket
      /\ UNCHANGED <<script, expected, senders, greeting, tasks, worker, sessions>>
      /\ d.mode = "open" /\ d.bit = 1 - p.bit /\ d.expects = c.expects /\ p.bit \in {0, 1}
      /\ client'[a].inbox = c.inbox /\ d.awaiting = c.awaiting /\ d.part = p.part
  BY SendFields
<1> HIDE DEF d
<1>2. /\ Linked(a)' /\ ~Greeted(a)' /\ ~InQueue(tasks, a)'
      /\ \A w \in Worker : ~Holds(w, a)' /\ ~Serves(w, a)' /\ ~Rests(w, a)'
  BY <1>1 DEF Quiet, Linked, Greeted, InQueue, Holds, Serves, Rests
<1>3. OneInv(a)'
  BY <1>2 DEF OneInv, Once, InQueue, AtServer
<1>4. BitInv(a)'
  <2>1. d.expects = IF Waits(a)' = 1 THEN d.bit ELSE 1 - d.bit
    BY <1>1
  <2>2. p.bit = 1 - d.bit /\ (sessions[a] # 0 => d.bit = 1 - expected[a])
    BY <1>1
  <2> QED
    BY <1>1, <1>2, <2>1, <2>2 DEF BitInv, AtServer, Owed, d
<1>5. ForgetInv(a)'
  <2>1. sessions[a] = 0 => expected[a] = 0 /\ senders[a] = NoSender
    BY DEF FlowInv, ForgetInv, Quiet
  <2> QED
    BY <1>1, <1>2, <2>1 DEF ForgetInv
<1>6. DOMAIN client'[a].inbox = {}
  <2>1. client'[a].inbox \in Seq(ReplyType)
    BY <1>1 DEF ClientType
  <2>2. DOMAIN client'[a].inbox = 1..0
    BY <2>1, LenProperties DEF Has
  <2> QED
    BY <2>2
<1>7. TurnInv(a)'
  <2>1. d.part = 1 => d.awaiting = << 250 >>
    BY <1>1
  <2> QED
    BY <1>2, <1>6, <2>1 DEF TurnInv, d
<1>8. FitInv(a)'
  BY <1>1, <1>2 DEF FitInv, InQueue, d
<1>9. ReplyInv(a)' /\ RestInv(a)'
  BY <1>2, <1>6 DEF ReplyInv, RestInv
<1> QED
  BY <1>3, <1>4, <1>5, <1>7, <1>8, <1>9 DEF FlowInv

LEMMA FitsSent ==
  ASSUME NEW p \in Packets, NEW c \in ClientType,
         p.part = 1 => p.last /\ p.verb = "chunk",
         p.part = 0 => ~p.last /\ p.verb # "chunk",
         c.mode \in {"open", "data"} =>
           /\ p.verb = "DATA" => c.awaiting = << 354 >>
           /\ p.verb = "QUIT" => c.awaiting = << 221 >>
  PROVE  Fits(SentBy(c, p), p)
BY SentByType DEF Fits

LEMMA ConnectFlow ==
  ASSUME TypeInv, NEW a \in Addr \ Prompt, FlowInv(a), _connect(a)
  PROVE  FlowInv(a)'
<1> DEFINE codes == <<220, 250>>
           none == <<>>
           p == [PacketOf(a, client[a].n + 1, 0, "NOOP", Nobody, FALSE) EXCEPT !.bit = 0]
           c == [NewClient EXCEPT !.mode = "open", !.awaiting = codes,
                                  !.accepted = client[a].accepted]
<1>1. Quiet(a) /\ Send(a, p, c) /\ sessions[a] = 0 /\ client[a].mode # "gone"
  BY ForgottenQuiet DEF _connect, Forgotten
<1>2. /\ p \in Packets /\ p.addr = a /\ p.verb = "NOOP" /\ p.part = 0 /\ p.bit = 0
      /\ p.last = FALSE
  <2>1. client[a].n + 1 \in Nat /\ 0 \in 0..MaxChunks /\ Nobody \in STRING
    BY ClientFields, SmtpAssumption
  <2> QED
    BY <2>1, BitType DEF PacketOf, Packets, Verb
<1>3. codes \in Seq(Code) /\ Len(codes) = 2 /\ Head(codes) = 220 /\ Tail(codes) = << 250 >>
  BY DEF Code
<1>4. NewClient.inbox = none /\ NewClient.expects = 0
  BY DEF NewClient
<1> HIDE DEF codes, none
<1>5. /\ c \in ClientType /\ c.mode = "open" /\ c.awaiting = codes /\ c.inbox = none
      /\ c.expects = 0
  BY <1>3, <1>4, ClientFields, NewClientType DEF ClientType
<1> HIDE DEF p, c
<1>6. Fits(SentBy(c, p), p)
  BY <1>2, <1>5, FitsSent
<1>7. /\ c.inbox = <<>> /\ Len(c.awaiting) = 2 /\ Head(c.awaiting) = 220
      /\ Tail(c.awaiting) = << 250 >>
  BY <1>3, <1>5 DEF none
<1>8. AwaitInv(a)' /\ Has(a)' = 0 /\ Waits(a)' = 2
  BY <1>1, <1>2, <1>5, <1>7, SentAwaits
<1> QED
  BY <1>1, <1>2, <1>5, <1>6, <1>8, SendFlow

LEMMA SendCommandFlow ==
  ASSUME TypeInv, QuitInv, NEW a \in Addr, FlowInv(a), _send_command(a)
  PROVE  FlowInv(a)'
<1> DEFINE p == PacketOf(a, client[a].n + 1, 0, Item(a).verb, Item(a).rcpt, FALSE)
           codes == <<Expects(Item(a).verb)>>
           c == [client[a] EXCEPT !.awaiting = codes]
<1>1. client[a].n \in Nat /\ client[a] \in ClientType
  BY ClientFields
<1>2. client[a].n + 1 \in 1..Len(script[a])
  BY <1>1, ScriptType DEF _send_command
<1>3. Item(a).verb \in Verb /\ Item(a).rcpt \in STRING
  BY <1>2, ScriptType DEF Item
<1>4. /\ p \in Packets /\ p.addr = a /\ p.verb = Item(a).verb /\ p.part = 0
      /\ p.bit = client[a].bit /\ p.n = client[a].n + 1 /\ p.last = FALSE
  <2>1. client[a].n + 1 \in Nat /\ 0 \in 0..MaxChunks
    BY <1>1, SmtpAssumption
  <2> QED
    BY <1>3, <2>1, BitType DEF PacketOf, Packets
<1>5. /\ codes \in Seq(Code) /\ Len(codes) = 1
      /\ Item(a).verb = "DATA" => codes = << 354 >>
      /\ Item(a).verb = "QUIT" <=> codes = << 221 >>
  <2>1. Expects(Item(a).verb) = 221 <=> Item(a).verb = "QUIT"
    BY ExpectsType
  <2> QED
    BY <2>1 DEF Code, Expects
<1>6. Send(a, p, c) /\ client[a].mode = "open" /\ Ready(a) /\ Alive(a)
  BY DEF _send_command, Alive
<1>7. /\ Quiet(a) /\ client[a].inbox = <<>> /\ client[a].expects = 1 - client[a].bit
      /\ sessions[a] # 0 => client[a].bit = expected[a]
  BY <1>6, ReadyQuiet
<1> HIDE DEF codes
<1>8. /\ c \in ClientType /\ c.mode = "open" /\ c.awaiting = codes
      /\ c.inbox = client[a].inbox /\ c.expects = client[a].expects
  BY <1>1, <1>5, <1>6 DEF ClientType
<1>9. script[a][p.n].verb = p.verb /\ p.verb \in Verb
  BY <1>3, <1>4 DEF Item
<1> HIDE DEF p, c
<1>10. Fits(SentBy(c, p), p)
  BY <1>4, <1>5, <1>8, <1>9, FitsSent DEF Verb
<1>11. /\ Len(c.awaiting) = 1 /\ c.inbox = <<>> /\ c.expects = 1 - p.bit
       /\ c.awaiting = << 221 >> => script[a][p.n].verb = "QUIT"
  BY <1>4, <1>5, <1>7, <1>8, <1>9
<1>12. AwaitInv(a)' /\ Has(a)' = 0 /\ Waits(a)' = 1
  BY <1>4, <1>6, <1>8, <1>11, SentAwaits, ZenonT(60)
<1> QED
  BY <1>4, <1>6, <1>7, <1>8, <1>10, <1>11, <1>12, SendFlow

LEMMA SendDataFlow ==
  ASSUME OnePart, TypeInv, QuitInv, NEW a \in Addr, FlowInv(a), _send_data(a)
  PROVE  FlowInv(a)'
<1> DEFINE codes == <<250>>
           p == PacketOf(a, client[a].n, client[a].part + 1, "chunk", Nobody, TRUE)
           c == [client[a] EXCEPT !.mode = "open", !.awaiting = codes]
<1>1. client[a].mode = "data" /\ Ready(a) /\ Alive(a)
  BY DEF _send_data, Alive
<1>2. /\ client[a] \in ClientType /\ client[a].n \in Nat /\ client[a].part \in Nat
      /\ client[a].part < MaxChunks
  <2>1. client[a] \in ClientType /\ ClientOK(a, client[a])
    BY ClientFields
  <2> QED
    BY <1>1, <2>1, ClientFields DEF ClientOK
<1>3. client[a].part + 1 = 1 /\ MaxChunks = 1
  BY <1>2 DEF OnePart
<1>4. Send(a, p, c)
  BY <1>3 DEF _send_data
<1>5. /\ p \in Packets /\ p.addr = a /\ p.part = 1 /\ p.last = TRUE /\ p.verb = "chunk"
      /\ p.bit = client[a].bit
  <2>1. client[a].part + 1 \in 0..MaxChunks /\ Nobody \in STRING
    BY <1>3, SmtpAssumption
  <2> QED
    BY <1>2, <1>3, <2>1, BitType DEF PacketOf, Packets
<1>6. /\ Quiet(a) /\ client[a].inbox = <<>> /\ client[a].expects = 1 - client[a].bit
      /\ sessions[a] # 0 => client[a].bit = expected[a]
  BY <1>1, ReadyQuiet
<1>7. codes \in Seq(Code) /\ Len(codes) = 1 /\ codes # << 221 >>
  BY DEF Code
<1> HIDE DEF codes
<1>8. /\ c \in ClientType /\ c.mode = "open" /\ c.awaiting = codes
      /\ c.inbox = client[a].inbox /\ c.expects = client[a].expects
  BY <1>2, <1>7 DEF ClientType
<1>12. c.awaiting = << 250 >> /\ client[a].mode # "gone"
  BY <1>1, <1>8 DEF codes
<1> HIDE DEF p, c
<1>9. Fits(SentBy(c, p), p)
  BY <1>5, <1>8, FitsSent
<1>10. Len(c.awaiting) = 1 /\ c.inbox = <<>> /\ c.expects = 1 - p.bit /\ c.awaiting # << 221 >>
  BY <1>5, <1>6, <1>7, <1>8
<1>11. AwaitInv(a)' /\ Has(a)' = 0 /\ Waits(a)' = 1
  BY <1>4, <1>5, <1>8, <1>10, SentAwaits, ZenonT(60)
<1> QED
  BY <1>4, <1>5, <1>6, <1>8, <1>9, <1>10, <1>11, <1>12, SendFlow

LEMMA TailLength ==
  ASSUME NEW S, NEW q \in Seq(S), q # <<>>
  PROVE  Len(q) \in Nat \ {0} /\ Len(Tail(q)) = Len(q) - 1
BY HeadTailProperties, EmptySeq

\* The record d that a reply leaves of client c.
Takes(c, d, code) ==
  /\ d.inbox = Tail(c.inbox) /\ d.awaiting = Tail(c.awaiting)
  /\ d.bit = c.bit /\ d.expects = 1 - c.expects
  /\ d.mode = IF Head(c.awaiting) = 221 THEN "closed"
              ELSE IF Head(c.awaiting) = 354 /\ code = 354 THEN "data" ELSE c.mode
  /\ d.accepted = IF c.part > 0 /\ code = 250 THEN c.accepted \union {c.n} ELSE c.accepted

LEMMA AnsweredFields ==
  ASSUME NEW c \in ClientType, NEW code
  PROVE  Takes(c, Answered(c, code), code)
<1> DEFINE codes == Tail(c.awaiting)
           rest == Tail(c.inbox)
           mode == CASE Head(c.awaiting) = 221 -> "closed"
                     [] Head(c.awaiting) = 354 /\ code = 354 -> "data"
                     [] OTHER -> c.mode
           accepted == IF c.part > 0 /\ code = 250 THEN c.accepted \union {c.n}
                                                   ELSE c.accepted
<1>1. Answered(c, code) = [c EXCEPT !.awaiting = codes, !.inbox = rest, !.expects = 1 - @,
                                    !.mode = mode, !.accepted = accepted]
  BY DEF Answered
<1>2. mode = IF Head(c.awaiting) = 221 THEN "closed"
             ELSE IF Head(c.awaiting) = 354 /\ code = 354 THEN "data" ELSE c.mode
  OBVIOUS
<1> HIDE DEF codes, rest, mode, accepted
<1>3. /\ Answered(c, code).inbox = rest /\ Answered(c, code).awaiting = codes
      /\ Answered(c, code).mode = mode /\ Answered(c, code).accepted = accepted
      /\ Answered(c, code).bit = c.bit /\ Answered(c, code).expects = 1 - c.expects
  BY <1>1 DEF ClientType
<1> QED
  BY <1>2, <1>3 DEF Takes, codes, rest, accepted

LEMMA FailedFields ==
  ASSUME NEW c \in ClientType
  PROVE  /\ Failed(c).inbox = <<>> /\ Failed(c).awaiting = <<>>
         /\ Failed(c).mode = IF c.awaiting # <<>> /\ Head(c.awaiting) = 220
                             THEN "gone" ELSE "failing"
         /\ Failed(c).accepted = c.accepted
<1> DEFINE none == <<>>
           mode == IF c.awaiting # <<>> /\ Head(c.awaiting) = 220 THEN "gone" ELSE "failing"
<1>1. Failed(c) = [c EXCEPT !.mode = mode, !.awaiting = none, !.inbox = none]
  BY DEF Failed
<1> HIDE DEF none, mode
<1>2. /\ Failed(c).inbox = none /\ Failed(c).awaiting = none /\ Failed(c).mode = mode
      /\ Failed(c).accepted = c.accepted
  BY <1>1 DEF ClientType
<1> QED
  BY <1>2 DEF none, mode

\* A client that gave up sends its QUIT: if what it gave up on has arrived and is still at the
\* server, the receiver drops the QUIT as a duplicate.
LEMMA AbandonFlow ==
  ASSUME TypeInv, NEW a \in Addr, FlowInv(a), Abandon(a)
  PROVE  FlowInv(a)'
<1> DEFINE p == PacketOf(a, client[a].n + 1, 0, "QUIT", Nobody, FALSE)
           c == [client[a] EXCEPT !.mode = "gone"]
<1>1. client[a].mode = "failing" /\ ~Linked(a) /\ Send(a, p, c)
  BY DEF Abandon, Ready, Linked
<1>2. client[a] \in ClientType /\ client[a].n \in Nat
  BY ClientFields
<1>3. /\ p \in Packets /\ p.addr = a /\ p.verb = "QUIT" /\ p.part = 0 /\ p.last = FALSE
      /\ p.bit = client[a].bit
  <2>1. client[a].n + 1 \in Nat /\ 0 \in 0..MaxChunks /\ Nobody \in STRING
    BY <1>2, SmtpAssumption
  <2> QED
    BY <2>1, BitType DEF PacketOf, Packets, Verb
<1>4. c \in ClientType /\ c.mode = "gone"
  BY <1>2 DEF ClientType
<1> HIDE DEF p, c
<1>5. /\ inbound'[a] = p /\ p # NoPacket /\ client'[a].mode = "gone"
      /\ UNCHANGED <<script, expected, senders, greeting, tasks, worker, sessions>>
  BY <1>1, <1>3, <1>4, SendFields
<1>6. /\ Linked(a)' /\ (Greeted(a)' <=> Greeted(a)) /\ (AtServer(a)' <=> AtServer(a))
      /\ \A w \in Worker : (Holds(w, a)' <=> Holds(w, a)) /\ (Serves(w, a)' <=> Serves(w, a))
  BY <1>5 DEF Linked, Greeted, AtServer, InQueue, Holds, Serves
<1>7. AtServer(a) => expected[a] # client[a].bit
  BY <1>1 DEF FlowInv, BitInv
<1>8. OneInv(a)'
  BY <1>3, <1>5, <1>6, <1>7 DEF FlowInv, OneInv, Live, Alive
<1>9. BitInv(a)'
  BY <1>3, <1>5, <1>6 DEF BitInv, Alive
<1>10. ForgetInv(a)'
  BY <1>5, <1>6 DEF FlowInv, ForgetInv
<1>11. TurnInv(a)' /\ ReplyInv(a)' /\ RestInv(a)'
  BY <1>5 DEF TurnInv, ReplyInv, RestInv, Alive
<1>12. \A q : Fits(client[a], q) => Fits(client'[a], q)
  BY <1>5 DEF Fits
<1>13. Fits(client'[a], p)
  BY <1>3, <1>5 DEF Fits
<1>14. FitInv(a)'
  BY <1>5, <1>6, <1>12, <1>13 DEF FlowInv, FitInv
<1> QED
  BY <1>8, <1>9, <1>10, <1>11, <1>14 DEF FlowInv

\* A send gives up; what stays on the link has the bit of the client's next packet.
LEMMA GivesUpFlow ==
  ASSUME TypeInv, NEW a \in Addr, FlowInv(a), ClientGivesUp(a)
  PROVE  FlowInv(a)'
<1>1. /\ Linked(a) /\ inbound'[a] \in {inbound[a], NoPacket}
      /\ UNCHANGED <<script, expected, senders, greeting, sessions, tasks, worker>>
  BY DEF ClientGivesUp, Linked, sessionVars, TypeInv, LinkInv
<1>2. CASE ~Alive(a)
  <2>1. client'[a] = client[a] /\ ~Linked(a)'
    BY <1>1, <1>2 DEF ClientGivesUp, TypeInv, ClientInv, LinkInv, Linked
  <2>2. Less(a)
    BY <1>1, <1>2, <2>1 DEF Less, Greeted, Holds, Serves, Rests
  <2> QED
    BY <2>2, LessFlow
<1>3. CASE Alive(a)
  <2> DEFINE c == client[a]
             d == client'[a]
  <2>1. client' = [client EXCEPT ![a] = [Failed(c) EXCEPT !.bit = inbound[a].bit]]
    BY <1>3 DEF ClientGivesUp
  <2>2. /\ Failed(c) \in ClientType /\ Failed(c).mode \in {"failing", "gone"}
        /\ client \in [Addr -> ClientType]
    BY ClientFields, FailedType, FailedFields DEF TypeInv, ClientInv
  <2>3. d.mode \in {"failing", "gone"} /\ d.bit = inbound[a].bit
    BY <2>1, <2>2 DEF ClientType
  <2>4. ~AtServer(a)
    BY <1>1, <1>3 DEF FlowInv, OneInv
  <2>5. /\ ~AtServer(a)' /\ ~Greeted(a)' /\ ~InQueue(tasks, a)
        /\ \A w \in Worker : ~Holds(w, a)' /\ ~Serves(w, a)'
    BY <1>1, <2>4 DEF AtServer, Greeted, InQueue, Holds, Serves
  <2>6. Linked(a)' => inbound'[a] = inbound[a]
    BY <1>1 DEF Linked
  <2> HIDE DEF c, d
  <2>7. OneInv(a)'
    BY <1>1, <2>5 DEF FlowInv, OneInv
  <2>8. BitInv(a)'
    BY <2>3, <2>5, <2>6 DEF BitInv, Alive, d
  <2>9. ForgetInv(a)'
    BY <1>1, <1>3, <2>4, <2>5 DEF FlowInv, ForgetInv, AtServer, Alive
  <2>10. TurnInv(a)' /\ ReplyInv(a)' /\ RestInv(a)'
    <3>1. ASSUME NEW w \in Worker PROVE ~Rests(w, a)
      BY <1>1, <1>3 DEF FlowInv, RestInv, Alive
    <3>2. RestInv(a)'
      BY <1>1, <3>1 DEF RestInv, Rests
    <3> QED
      BY <2>3, <3>2 DEF TurnInv, ReplyInv, Alive, d
  <2>11. Fits(client[a], inbound[a]) => Fits(client'[a], inbound[a])
    BY <2>3 DEF Fits, d
  <2>12. FitInv(a)'
    BY <1>1, <2>5, <2>6, <2>11 DEF FlowInv, FitInv, InQueue
  <2> QED
    BY <2>7, <2>8, <2>9, <2>10, <2>12 DEF FlowInv
<1> QED
  BY <1>2, <1>3

\* What _get_reply leaves of client a: it drops one reply with the wrong bit; or takes it for
\* what it waits for first; or gives up and forgets both lists.
LEMMA ReplyLists ==
  ASSUME TypeInv, NEW a \in Addr, _get_reply(a)
  PROVE  LET c == client[a]
             d == client'[a]
             code == Head(c.inbox).code IN
         /\ Waits(a) \in Nat \ {0} /\ Has(a) \in Nat \ {0} /\ d.bit = c.bit
         /\ \/ /\ Drops(a) /\ Has(a)' = Has(a) - 1 /\ d.inbox = Tail(c.inbox)
               /\ d.awaiting = c.awaiting /\ d.mode = c.mode /\ d.expects = c.expects
               /\ d.accepted = c.accepted
            \/ /\ ~Drops(a) /\ Has(a)' = Has(a) - 1 /\ Waits(a)' = Waits(a) - 1
               /\ Takes(c, d, code)
               /\ code = Head(c.awaiting) \/ Logged(a) \/ MayGoOn(c, code)
            \/ /\ ~Drops(a) /\ code # Head(c.awaiting) /\ ~Logged(a)
               /\ d.inbox = <<>> /\ d.accepted = c.accepted
               /\ d.mode = IF Head(c.awaiting) = 220 THEN "gone" ELSE "failing"
<1> DEFINE c == client[a]
           r == Head(c.inbox)
           code == Head(c.inbox).code
           answered == Answered(c, code)
<1>1. /\ c.awaiting # <<>> /\ c.inbox # <<>> /\ c \in ClientType
      /\ c.awaiting \in Seq(Code) /\ c.inbox \in Seq(ReplyType)
      /\ client \in [Addr -> ClientType]
  BY ReplyCases, ClientFields DEF TypeInv, ClientInv
<1>2. /\ Waits(a) \in Nat \ {0} /\ Len(Tail(c.awaiting)) = Waits(a) - 1
      /\ Has(a) \in Nat \ {0} /\ Len(Tail(c.inbox)) = Has(a) - 1
  BY <1>1, TailLength DEF Waits, Has
<1>3. \/ r.bit # c.expects /\ client' = [client EXCEPT ![a].inbox = Tail(@)]
      \/ /\ r.bit = c.expects /\ client' = [client EXCEPT ![a] = answered]
         /\ code = Head(c.awaiting) \/ Logged(a) \/ MayGoOn(c, code)
      \/ /\ r.bit = c.expects /\ code # Head(c.awaiting) /\ ~Logged(a)
         /\ client' = [client EXCEPT ![a] = Failed(c)]
  BY DEF _get_reply
<1>4. CASE r.bit # c.expects /\ client' = [client EXCEPT ![a].inbox = Tail(@)]
  <2> DEFINE rest == Tail(c.inbox)
  <2>1. client' = [client EXCEPT ![a].inbox = rest]
    BY <1>4
  <2> HIDE DEF rest
  <2>2. /\ client'[a].inbox = rest /\ client'[a].awaiting = c.awaiting
        /\ client'[a].mode = c.mode /\ client'[a].accepted = c.accepted
        /\ client'[a].bit = c.bit /\ client'[a].expects = c.expects
    BY <1>1, <2>1 DEF ClientType
  <2> QED
    BY <1>2, <1>4, <2>2 DEF rest, Drops, Has
<1>5. CASE /\ r.bit = c.expects /\ client' = [client EXCEPT ![a] = answered]
           /\ code = Head(c.awaiting) \/ Logged(a) \/ MayGoOn(c, code)
  <2>1. client'[a] = answered
    BY <1>1, <1>5
  <2>2. Takes(c, answered, code)
    BY <1>1, AnsweredFields
  <2> HIDE DEF answered
  <2>3. Has(a)' = Has(a) - 1 /\ Waits(a)' = Waits(a) - 1 /\ answered.bit = c.bit
    BY <1>2, <2>1, <2>2 DEF Has, Waits, Takes
  <2> QED
    BY <1>2, <1>5, <2>1, <2>2, <2>3 DEF Drops
<1>6. CASE /\ r.bit = c.expects /\ code # Head(c.awaiting) /\ ~Logged(a)
           /\ client' = [client EXCEPT ![a] = Failed(c)]
  <2>1. client'[a] = Failed(c)
    BY <1>1, <1>6
  <2>2. /\ Failed(c).inbox = <<>> /\ Failed(c).bit = c.bit
        /\ Failed(c).mode = IF Head(c.awaiting) = 220 THEN "gone" ELSE "failing"
        /\ Failed(c).accepted = c.accepted
    BY <1>1, FailedFields, FailedType
  <2> QED
    BY <1>2, <1>6, <2>1, <2>2 DEF Drops
<1> QED
  BY <1>3, <1>4, <1>5, <1>6


\* A client whose message was refused goes on behind no reply.
LEMMA DoomedStops ==
  ASSUME TypeInv, NEW a \in Addr, Doomed(a), client[a].inbox # <<>>
  PROVE  LET code == Head(client[a].inbox).code IN
         ~(code = Head(client[a].awaiting) \/ Logged(a) \/ MayGoOn(client[a], code))
<1>1. client[a].inbox \in Seq(ReplyType)
  BY ClientFields
<1>2. 1 \in DOMAIN client[a].inbox /\ Head(client[a].inbox) = client[a].inbox[1]
  BY <1>1, TailCodes
<1>3. Head(client[a].inbox).code \in {220, 500} /\ client[a].part = 1
  BY <1>2 DEF Doomed
<1>4. Head(client[a].awaiting) = 250
  BY DEF Doomed
<1> QED
  BY <1>3, <1>4 DEF Logged, MayGoOn

\* What a client that takes a reply was owed: nothing more, unless it was the greeting.
LEMMA ReplyTaken ==
  ASSUME TypeInv, QuitInv, NEW a \in Addr, FlowInv(a), _get_reply(a), ~Drops(a)
  PROVE  /\ Waits(a) \in {1, 2} /\ (Waits(a) = 2 => Head(client[a].awaiting) = 220)
         /\ Waits(a) = 1 => (Has(a) = 1 \/ Doomed(a)) /\ ~Owed(a)
         /\ Waits(a) = 1 /\ AtServer(a) => client[a].awaiting = << 221 >>
<1>1. /\ Alive(a) /\ Waits(a) \in Nat \ {0} /\ Has(a) \in Nat \ {0}
      /\ client[a].awaiting \in Seq(Code)
  BY ReplyCases, ReplyLists, ClientFields
<1>2. Waits(a) \in {1, 2} /\ (Waits(a) = 2 => Head(client[a].awaiting) = 220)
  BY <1>1 DEF FlowInv, TurnInv, AwaitInv
<1>3. Waits(a) = 1 => (Has(a) = 1 \/ Doomed(a)) /\ ~Owed(a)
  BY <1>1 DEF FlowInv, TurnInv, Doomed
<1>4. ASSUME Waits(a) = 1, AtServer(a) PROVE client[a].awaiting = << 221 >>
  <2>1. PICK w \in Worker : Holds(w, a) /\ ~Serves(w, a)
    BY <1>3, <1>4 DEF AtServer, Owed
  <2>2. worker[w].task.verb = "QUIT"
    BY <2>1 DEF Holds, Serves, QuitInv, Leaving, Forgetting
  <2>3. Fits(client[a], worker[w].task)
    BY <2>1 DEF FlowInv, FitInv
  <2> QED
    BY <1>1, <2>2, <2>3 DEF Fits, Alive
<1> QED
  BY <1>2, <1>3, <1>4

LEMMA GetReplyFlow ==
  ASSUME TypeInv, QuitInv, NEW a \in Addr, FlowInv(a), _get_reply(a)
  PROVE  FlowInv(a)'
<1> DEFINE c == client[a]
           d == client'[a]
           code == Head(c.inbox).code
<1>1. /\ Alive(a) /\ ~Linked(a) /\ ~Linked(a)' /\ d.n = c.n /\ d.part = c.part
      /\ UNCHANGED <<script, inbound, expected, senders, greeting, sessions, tasks, worker>>
      /\ c.inbox \in Seq(ReplyType) /\ c.inbox # <<>>
  BY ReplyCases, ClientFields DEF Linked, loopVars, sessionVars
<1>2. /\ Waits(a) \in Nat \ {0} /\ Has(a) \in Nat \ {0} /\ d.bit = c.bit
      /\ \/ /\ Drops(a) /\ Has(a)' = Has(a) - 1 /\ d.inbox = Tail(c.inbox)
            /\ d.awaiting = c.awaiting /\ d.mode = c.mode /\ d.expects = c.expects
         \/ /\ ~Drops(a) /\ Has(a)' = Has(a) - 1 /\ Waits(a)' = Waits(a) - 1
            /\ Takes(c, d, code) /\ ~Doomed(a)
         \/ /\ ~Drops(a) /\ code # Head(c.awaiting) /\ ~Logged(a) /\ d.inbox = <<>>
            /\ d.mode = IF Head(c.awaiting) = 220 THEN "gone" ELSE "failing"
  BY <1>1, ReplyLists, DoomedStops
<1>3. ~Drops(a) =>
        /\ Waits(a) \in {1, 2} /\ (Waits(a) = 2 => Head(c.awaiting) = 220)
        /\ Waits(a) = 1 => (Has(a) = 1 \/ Doomed(a)) /\ ~Owed(a)
        /\ Waits(a) = 1 /\ AtServer(a) => c.awaiting = << 221 >>
  BY ReplyTaken
<1>4. /\ Owed(a)' = Owed(a) /\ AtServer(a)' = AtServer(a) /\ Greeted(a)' = Greeted(a)
      /\ \A w \in Worker : (Holds(w, a)' <=> Holds(w, a)) /\ (Serves(w, a)' <=> Serves(w, a))
  BY <1>1 DEF Owed, AtServer, Linked, Greeted, InQueue, Holds, Serves
<1>5. ~Greeted(a)
  <2>1. Greeted(a) => Owed(a)
    BY DEF Owed
  <2> QED
    BY <1>1, <1>2, <2>1 DEF FlowInv, TurnInv, AwaitInv
<1> HIDE DEF c, d, code
<1>6. OneInv(a)'
  BY <1>1, <1>4 DEF FlowInv, OneInv, Live
<1>7. ForgetInv(a)'
  BY <1>1, <1>4 DEF FlowInv, ForgetInv, Alive
<1>8. ReplyInv(a)'
  <2>1. \A i \in DOMAIN c.inbox : c.inbox[i].n = c.n /\ c.inbox[i].part = c.part
    BY <1>1 DEF FlowInv, ReplyInv, c
  <2>2. CASE d.inbox = Tail(c.inbox)
    <3>1. \A i \in DOMAIN Tail(c.inbox) : /\ i + 1 \in DOMAIN c.inbox
                                          /\ Tail(c.inbox)[i] = c.inbox[i + 1]
      BY <1>1, TailCodes
    <3> QED
      BY <1>1, <2>1, <2>2, <3>1 DEF ReplyInv, d
  <2>3. CASE d.inbox = <<>>
    BY <2>3 DEF ReplyInv, d
  <2> QED
    BY <1>2, <2>2, <2>3 DEF Takes
<1>9. BitInv(a)'
  <2>1. Alive(a)' => d.expects = IF Waits(a)' = 1 THEN d.bit ELSE 1 - d.bit
    <3>1. c.expects = IF Waits(a) = 1 THEN c.bit ELSE 1 - c.bit
      BY <1>1 DEF FlowInv, BitInv, c
    <3>2. d.awaiting = c.awaiting => Waits(a)' = Waits(a)
      BY DEF Waits, c, d
    <3>3. c.bit \in {0, 1}
      BY BitType DEF c
    <3> QED
      BY <1>2, <1>3, <3>1, <3>2, <3>3 DEF Takes, Alive, d
  <2>2. sessions[a] # 0 => d.bit = expected[a]
    BY <1>1, <1>2 DEF FlowInv, BitInv, c
  <2>3. d.mode = "failing" => ~AtServer(a)
    <3>1. ASSUME d.mode = "failing", AtServer(a) PROVE FALSE
      <4>1. ~Drops(a) /\ Waits(a) = 1 /\ ~Logged(a)
        BY <1>1, <1>2, <1>3, <3>1 DEF Takes, Alive, c
      <4>2. c.awaiting = << 221 >>
        BY <1>3, <3>1, <4>1
      <4>3. c.part = 0 /\ script[a][c.n].verb = "QUIT" /\ Head(c.awaiting) = 221
        BY <1>1, <4>2 DEF FlowInv, TurnInv, AwaitInv, c
      <4> QED
        BY <4>1, <4>3 DEF Logged, c
    <3> QED
      BY <3>1
  <2>4. d.mode = "closed" => ~Owed(a)
    <3>1. ASSUME d.mode = "closed" PROVE ~Drops(a) /\ Head(c.awaiting) = 221
      BY <1>1, <1>2, <3>1 DEF Takes, Alive, c
    <3> QED
      BY <1>3, <3>1
  <2> QED
    BY <1>1, <1>4, <2>1, <2>2, <2>3, <2>4 DEF BitInv, d
<1>10. AwaitInv(a) /\ (Has(a) <= 2 \/ Doomed(a))
  BY <1>1 DEF FlowInv, TurnInv
<1>11. Alive(a)' => AwaitInv(a)'
  <2>1. CASE d.awaiting = c.awaiting
    BY <1>1, <1>10, <2>1 DEF AwaitInv, Waits, c, d
  <2>2. CASE Waits(a) = 2 /\ Takes(c, d, code)
    <3>1. d.awaiting = << 250 >> /\ Len(<< 250 >>) = 1
      BY <1>10, <2>2 DEF AwaitInv, Takes, c
    <3> QED
      BY <3>1 DEF AwaitInv, Waits, d
  <2>3. CASE Waits(a)' = 0
    <3>1. d.awaiting # << 221 >>
      BY <2>3 DEF Waits, d
    <3> QED
      BY <2>3, <3>1 DEF AwaitInv, d
  <2> QED
    BY <1>2, <1>3, <2>1, <2>2, <2>3 DEF Alive, d
<1>15. Drops(a) => \A i \in DOMAIN d.inbox : \E j \in DOMAIN c.inbox : d.inbox[i] = c.inbox[j]
  <2>1. \A i \in DOMAIN Tail(c.inbox) : /\ i + 1 \in DOMAIN c.inbox
                                        /\ Tail(c.inbox)[i] = c.inbox[i + 1]
    BY <1>1, TailCodes
  <2> QED
    BY <1>2, <2>1
<1>16. Drops(a) /\ Doomed(a) => Doomed(a)'
  BY <1>1, <1>2, <1>4, <1>15 DEF Doomed, c, d
<1>12. TurnInv(a)'
  <2>1. CASE Drops(a)
    <3>1. Waits(a)' = Waits(a) /\ d.awaiting = c.awaiting
      BY <1>2, <2>1 DEF Waits, c, d
    <3>2. d.part = 1 =>
            /\ Waits(a)' = 1 => d.awaiting = << 250 >>
            /\ Owed(a)' => \A i \in DOMAIN d.inbox : d.inbox[i].code = 220
      <4>1. c.part = 1 =>
              /\ Waits(a) = 1 => c.awaiting = << 250 >>
              /\ Owed(a) => \A i \in DOMAIN c.inbox : c.inbox[i].code = 220
        BY <1>1 DEF FlowInv, TurnInv, c
      <4> QED
        BY <1>1, <1>4, <1>15, <2>1, <3>1, <4>1
    <3>3. /\ Waits(a) = 1 => /\ Has(a) = 2 => (~Owed(a) /\ Drops(a)) \/ Doomed(a)
                             /\ Has(a) = 1 /\ Owed(a) => Drops(a)
          /\ Waits(a) = 2 /\ Owed(a) => Has(a) <= 1
          /\ Doomed(a) => ~Owed(a)
      BY <1>1 DEF FlowInv, TurnInv, Doomed
    <3>4. /\ Has(a)' = Has(a) - 1 /\ Has(a) \in Nat \ {0} /\ Waits(a) \in Nat \ {0}
          /\ (Has(a) <= 2 \/ Doomed(a)) /\ (Doomed(a) => Doomed(a)')
      BY <1>2, <1>10, <1>16, <2>1
    <3>5. /\ Has(a)' <= 2 \/ Doomed(a)'
          /\ Waits(a)' # 0
          /\ Waits(a)' = 1 => /\ Has(a)' = 2 => Doomed(a)'
                              /\ ~(Has(a)' = 1 /\ Owed(a)')
          /\ Waits(a)' = 2 => (Owed(a)' => Has(a)' <= 1)
      BY <1>4, <3>1, <3>3, <3>4
    <3> QED
      BY <1>1, <1>4, <1>5, <1>11, <3>2, <3>5 DEF TurnInv, d
  <2>2. CASE ~Drops(a)
    <3>1. CASE ~Alive(a)'
      BY <3>1 DEF TurnInv
    <3>2. CASE Has(a)' = Has(a) - 1 /\ Waits(a)' = Waits(a) - 1 /\ ~Doomed(a)
      <4>1. /\ Waits(a) = 2 => c.part = 0 /\ (Owed(a) => Has(a) <= 1)
            /\ Has(a) <= 2 /\ Has(a) \in Nat \ {0}
        BY <1>1, <1>2, <1>10, <3>2 DEF FlowInv, TurnInv, AwaitInv, c
      <4>2. /\ Has(a)' <= 1 /\ Waits(a)' \in {0, 1}
            /\ Waits(a)' = 0 => Has(a)' = 0 /\ ~Owed(a)'
            /\ Waits(a)' = 1 => d.part = 0 /\ ~(Has(a)' = 1 /\ Owed(a)')
        BY <1>1, <1>2, <1>3, <1>4, <2>2, <3>2, <4>1
      <4> QED
        <5>1. d.part = 1 => /\ ~(Waits(a)' = 1) /\ ~Owed(a)'
          BY <4>2
        <5>2. /\ Has(a)' <= 2 /\ Waits(a)' # 2
              /\ Waits(a)' = 1 => ~(Has(a)' = 2)
          BY <4>1, <4>2, <3>2
        <5> QED
          BY <1>1, <1>4, <1>5, <1>11, <4>2, <5>1, <5>2, Zenon DEF TurnInv, d
    <3> QED
      BY <1>2, <2>2, <3>1, <3>2 DEF Alive, d
  <2> QED
    BY <2>1, <2>2
<1>13. ASSUME NEW q, Fits(c, q), AtServer(a) PROVE Fits(d, q)
  <2>1. CASE d.awaiting = c.awaiting /\ d.mode = c.mode
    BY <1>1, <1>13, <2>1 DEF Fits
  <2>2. CASE ~Drops(a) /\ Waits(a) = 2 /\ Takes(c, d, code)
    <3>1. c.awaiting # << 354 >> /\ c.awaiting # << 221 >>
      BY <2>2 DEF Waits, c
    <3> QED
      BY <1>1, <1>13, <3>1 DEF Fits, Alive, c
  <2>3. CASE ~Drops(a) /\ Waits(a) = 1 /\ Takes(c, d, code)
    <3>1. c.awaiting = << 221 >>
      BY <1>3, <1>13, <2>3
    <3>2. d.mode = "closed"
      BY <2>3, <3>1 DEF Takes
    <3> QED
      BY <1>13, <3>2 DEF Fits
  <2>4. CASE d.mode \in {"gone", "failing"}
    BY <1>13, <2>4 DEF Fits
  <2> QED
    BY <1>2, <1>3, <2>1, <2>2, <2>3, <2>4
<1>14. FitInv(a)'
  <2>1. InQueue(tasks, a) \/ (\E w \in Worker : Holds(w, a)) => AtServer(a)
    BY DEF AtServer
  <2> QED
    BY <1>1, <1>4, <1>5, <1>13, <2>1 DEF FlowInv, FitInv, InQueue, c, d
<1>17. RestInv(a)'
  <2> SUFFICES ASSUME NEW w \in Worker, Rests(w, a)
               PROVE  /\ d.mode \in {"open", "failing", "gone"}
                      /\ d.mode # "gone" => ~Linked(a) /\ ~AtServer(a) /\ sessions[a] # 0
                      /\ d.mode = "open" => /\ Doomed(a)' /\ worker[w].task.part = 1
                                            /\ worker[w].task.n = d.n
    BY <1>1, <1>4 DEF RestInv, Rests, d
  <2>1. /\ Doomed(a) /\ ~AtServer(a) /\ sessions[a] # 0 /\ worker[w].task.part = 1
        /\ worker[w].task.n = c.n /\ c.mode = "open"
    BY <1>1 DEF FlowInv, RestInv, Alive, Doomed, c
  <2> QED
    BY <1>1, <1>2, <1>16, <2>1
<1> QED
  BY <1>6, <1>7, <1>8, <1>9, <1>12, <1>14, <1>17 DEF FlowInv

\* The steps of another client.
LEMMA ClientLess ==
  ASSUME TypeInv, NEW b \in Addr, ClientStep(b), NEW a \in Addr, a # b
  PROVE  Less(a)
<1>1. client'[a] = client[a] /\ inbound'[a] = inbound[a]
  BY OtherClient
<1>2. UNCHANGED <<script, expected, senders, greeting, tasks, worker, sessions>>
  BY DEF ClientStep, _connect, _send_command, _send_data, Abandon, Send, _get_reply,
         ClientGivesUp, loopVars, sessionVars
<1> QED
  BY <1>1, <1>2 DEF Less, Linked, Greeted, Holds, Serves, Rests

LEMMA ClientFlow ==
  ASSUME OnePart, TypeInv, QuitInv, NEW b \in Addr, ClientStep(b),
         NEW a \in Addr \ Prompt, FlowInv(a)
  PROVE  FlowInv(a)'
<1>1. CASE a # b
  BY <1>1, ClientLess, LessFlow
<1>2. CASE a = b
  BY <1>2, ConnectFlow, SendCommandFlow, SendDataFlow, AbandonFlow, GetReplyFlow, GivesUpFlow
  DEF ClientStep
<1> QED
  BY <1>1, <1>2

-----------------------------------------------------------------------------
(* The serve loop, and replies                                             *)

\* A duplicate is dropped: it is one of a client that has given up, or that the server has
\* forgotten.
LEMMA RejectLess ==
  ASSUME TypeInv, NEW b \in Addr, Reject(b), NEW a \in Addr, FlowInv(a)
  PROVE  Less(a)
<1>1. /\ inbound' = [inbound EXCEPT ![b] = NoPacket] /\ Linked(b) /\ ~Live(b)
      /\ UNCHANGED <<script, client, expected, senders, greeting, sessions, tasks, worker>>
      /\ inbound \in [Addr -> Packets \union {NoPacket}]
  BY DEF Reject, Linked, Live, sessionVars, TypeInv, LinkInv
<1>2. Linked(a)' => Linked(a) /\ inbound'[a] = inbound[a]
  BY <1>1 DEF Linked
<1>3. ASSUME Linked(a), ~Linked(a)', Alive(a), sessions[a] # 0 PROVE FALSE
  <2>1. a = b
    BY <1>1, <1>3 DEF Linked
  <2>2. inbound[a].bit = 1 - client[a].bit /\ client[a].bit = 1 - expected[a]
    BY <1>3 DEF FlowInv, BitInv
  <2>3. expected[a] \in {0, 1}
    BY DEF TypeInv, LinkInv
  <2> QED
    BY <1>1, <2>1, <2>2, <2>3 DEF Live
<1> QED
  BY <1>1, <1>2, <1>3 DEF Less, Greeted, Holds, Serves, Rests

\* The serve loop takes a packet: what it does to the client it comes from and to others,
\* whom the reaper forgets only when nothing of them is in the pool.
LEMMA ReceiveFields ==
  ASSUME TypeInv, NEW b \in Addr, Receive(b)
  PROVE  /\ greeting = NoPacket /\ Live(b) /\ inbound[b] \in Packets /\ inbound[b].addr = b
         /\ UNCHANGED <<script, client, worker, stored>>
         /\ ~Linked(b)' /\ expected'[b] = 1 - expected[b] /\ senders'[b] = senders[b]
         /\ \A a \in Addr \ {b} :
              /\ inbound'[a] = inbound[a] /\ session'[a] = session[a]
              /\ \/ /\ expected'[a] = expected[a] /\ senders'[a] = senders[a]
                    /\ sessions'[a] = sessions[a]
                 \/ /\ expected'[a] = 0 /\ senders'[a] = NoSender /\ sessions'[a] = 0
                    /\ ~InPool(a)
         /\ \/ /\ sessions[b] # 0 /\ sessions'[b] = sessions[b] /\ session' = session
               /\ greeting' = NoPacket /\ tasks' = Append(tasks, inbound[b])
            \/ /\ sessions[b] = 0 /\ sessions'[b] = Len(session[b]) + 1
               /\ session'[b] = Append(session[b], _create_session)
               /\ greeting' = inbound[b] /\ tasks' = tasks
<1>1. PICK stale \in SUBSET Stale(b) :
        LET known == _cleanup_session(sessions, stale, 0) IN
        /\ expected' = [_cleanup_session(expected, stale, 0) EXCEPT ![b] = 1 - @]
        /\ senders' = _cleanup_session(senders, stale, NoSender)
        /\ IF known[b] # 0
           THEN /\ sessions' = known
                /\ tasks' = Append(tasks, inbound[b])
                /\ UNCHANGED <<session, greeting>>
           ELSE /\ session' = [session EXCEPT ![b] = Append(@, _create_session)]
                /\ sessions' = [known EXCEPT ![b] = Len(session[b]) + 1]
                /\ greeting' = inbound[b]
                /\ UNCHANGED tasks
  BY DEF Receive
<1> DEFINE known == _cleanup_session(sessions, stale, 0)
           bits == _cleanup_session(expected, stale, 0)
<1>2. /\ known = [a \in Addr |-> IF a \in stale THEN 0 ELSE sessions[a]]
      /\ bits = [a \in Addr |-> IF a \in stale THEN 0 ELSE expected[a]]
      /\ senders' = [a \in Addr |-> IF a \in stale THEN NoSender ELSE senders[a]]
  BY <1>1 DEF _cleanup_session
<1>3. b \notin stale /\ \A a \in stale : ~InPool(a)
  BY DEF Stale
<1>4. \/ /\ known[b] # 0 /\ sessions' = known /\ tasks' = Append(tasks, inbound[b])
         /\ session' = session /\ greeting' = greeting
      \/ /\ known[b] = 0 /\ session' = [session EXCEPT ![b] = Append(@, _create_session)]
         /\ sessions' = [known EXCEPT ![b] = Len(session[b]) + 1]
         /\ greeting' = inbound[b] /\ tasks' = tasks
  BY <1>1
<1>5. expected' = [bits EXCEPT ![b] = 1 - @]
  BY <1>1
<1>6. /\ DOMAIN known = Addr /\ DOMAIN bits = Addr
      /\ known[b] = sessions[b] /\ bits[b] = expected[b] /\ senders'[b] = senders[b]
      /\ \A a \in Addr : \/ /\ known[a] = sessions[a] /\ bits[a] = expected[a]
                            /\ senders'[a] = senders[a]
                         \/ /\ known[a] = 0 /\ bits[a] = 0 /\ senders'[a] = NoSender
                            /\ ~InPool(a)
  BY <1>2, <1>3
<1> HIDE DEF known, bits
<1>7. /\ greeting = NoPacket /\ inbound[b] # NoPacket /\ inbound[b].bit = expected[b]
      /\ inbound' = [inbound EXCEPT ![b] = NoPacket]
      /\ UNCHANGED <<script, client, worker, stored>>
      /\ inbound \in [Addr -> Packets \union {NoPacket}]
      /\ \A a \in Addr : inbound[a] # NoPacket => inbound[a].addr = a
      /\ session \in [Addr -> Seq(SessionType)]
  BY DEF Receive, TypeInv, LinkInv, SessionInv
<1>8. /\ Live(b) /\ inbound[b] \in Packets /\ inbound[b].addr = b /\ ~Linked(b)'
      /\ \A a \in Addr \ {b} : inbound'[a] = inbound[a]
  BY <1>7 DEF Live, Linked
<1>9. /\ expected'[b] = 1 - expected[b]
      /\ \A a \in Addr \ {b} : expected'[a] = bits[a]
  BY <1>5, <1>6
<1>10. /\ \A a \in Addr \ {b} : sessions'[a] = known[a] /\ session'[a] = session[a]
       /\ \/ /\ sessions[b] # 0 /\ sessions'[b] = sessions[b] /\ session' = session
             /\ greeting' = NoPacket /\ tasks' = Append(tasks, inbound[b])
          \/ /\ sessions[b] = 0 /\ sessions'[b] = Len(session[b]) + 1
             /\ session'[b] = Append(session[b], _create_session)
             /\ greeting' = inbound[b] /\ tasks' = tasks
  BY <1>4, <1>6, <1>7
<1> QED
  BY <1>6, <1>7, <1>8, <1>9, <1>10

\* The reaper forgets client a.
Reaped(a) ==
  /\ ~AtServer(a) /\ ~AtServer(a)' /\ script' = script /\ client'[a] = client[a]
  /\ inbound'[a] = inbound[a] /\ expected'[a] = 0 /\ senders'[a] = NoSender
  /\ sessions'[a] = 0 /\ \A w \in Worker : ~Serves(w, a)' /\ ~Rests(w, a)'

LEMMA ReapedFlow == ASSUME NEW a \in Addr, FlowInv(a), Reaped(a) PROVE FlowInv(a)'
<1> USE DEF Reaped
<1>1. /\ ~Greeted(a)' /\ ~InQueue(tasks, a)' /\ \A w \in Worker : ~Holds(w, a)'
      /\ Linked(a)' = Linked(a) /\ Alive(a)' = Alive(a) /\ (Owed(a)' => Owed(a))
  BY DEF AtServer, Linked, Alive, Owed
<1>2. OneInv(a)'
  BY <1>1 DEF OneInv, Once, InQueue
<1>3. BitInv(a)'
  BY <1>1 DEF FlowInv, BitInv, Waits
<1>4. ForgetInv(a)'
  BY <1>1 DEF ForgetInv
<1>5. /\ AwaitInv(a)' = AwaitInv(a) /\ Waits(a)' = Waits(a) /\ Has(a)' = Has(a)
      /\ Drops(a)' = Drops(a)
  BY DEF AwaitInv, Waits, Has, Drops
<1>6. TurnInv(a)'
  <2>1. Doomed(a) => Doomed(a)'
    BY <1>1 DEF Doomed
  <2> QED
    BY <1>1, <1>5, <2>1 DEF FlowInv, TurnInv
<1>7. FitInv(a)'
  BY <1>1 DEF FlowInv, FitInv, InQueue
<1>8. ReplyInv(a)' /\ RestInv(a)'
  BY <1>1 DEF FlowInv, ReplyInv, RestInv
<1> QED
  BY <1>2, <1>3, <1>4, <1>6, <1>7, <1>8 DEF FlowInv

LEMMA ReceiveOther ==
  ASSUME TypeInv, NEW b \in Addr, Receive(b), NEW a \in Addr, a # b
  PROVE  Less(a) \/ Reaped(a)
<1> DEFINE p == inbound[b]
<1>1. /\ greeting = NoPacket /\ p \in Packets /\ p.addr = b
      /\ UNCHANGED <<script, client, worker>>
      /\ inbound'[a] = inbound[a]
      /\ \/ /\ expected'[a] = expected[a] /\ senders'[a] = senders[a]
            /\ sessions'[a] = sessions[a]
         \/ /\ expected'[a] = 0 /\ senders'[a] = NoSender /\ sessions'[a] = 0
            /\ ~InPool(a)
      /\ \/ greeting' = NoPacket /\ tasks' = Append(tasks, p)
         \/ greeting' = p /\ tasks' = tasks
  BY ReceiveFields
<1>2. tasks \in Seq(Packets)
  BY DEF TypeInv, PoolInv
<1> HIDE DEF p
<1>3. /\ InQueue(tasks', a) => InQueue(tasks, a)
      /\ Once(tasks, a) => Once(tasks', a)
      /\ \A i \in DOMAIN tasks' :
           tasks'[i].addr = a => \E j \in DOMAIN tasks : tasks[j] = tasks'[i]
  <2>1. CASE tasks' = tasks
    BY <2>1
  <2>2. CASE tasks' = Append(tasks, p)
    <3>1. p.addr # a
      BY <1>1
    <3> QED
      BY <1>1, <1>2, <2>2, <3>1, AppendQueue
  <2> QED
    BY <1>1, <2>1, <2>2
<1>4. ~Greeted(a)' /\ ~Greeted(a)
  BY <1>1 DEF Greeted
<1>5. CASE /\ expected'[a] = expected[a] /\ senders'[a] = senders[a]
           /\ sessions'[a] = sessions[a]
  <2> QED
    BY <1>1, <1>3, <1>4, <1>5 DEF Less, Linked, Holds, Serves, Rests
<1>6. CASE /\ expected'[a] = 0 /\ senders'[a] = NoSender /\ sessions'[a] = 0
           /\ ~InPool(a)
  <2>1. /\ ~InQueue(tasks, a)
        /\ \A w \in Worker : ~Holds(w, a) /\ ~Serves(w, a) /\ ~Rests(w, a)
    BY <1>6, OutOfPool DEF Holds, Serves
  <2>2. /\ ~InQueue(tasks', a)
        /\ \A w \in Worker : ~Holds(w, a)' /\ ~Serves(w, a)' /\ ~Rests(w, a)'
    BY <1>1, <1>3, <2>1 DEF Holds, Serves, Rests
  <2> QED
    BY <1>1, <1>4, <1>6, <2>1, <2>2 DEF Reaped, AtServer
<1> QED
  BY <1>1, <1>5, <1>6

LEMMA ReceiveOwnFlow ==
  ASSUME TypeInv, NEW a \in Addr, Receive(a), FlowInv(a)
  PROVE  FlowInv(a)'
<1> DEFINE p == inbound[a]
<1>1. /\ greeting = NoPacket /\ Live(a) /\ p \in Packets /\ p.addr = a
      /\ UNCHANGED <<script, client, worker>>
      /\ ~Linked(a)' /\ expected'[a] = 1 - expected[a] /\ senders'[a] = senders[a]
      /\ \/ /\ sessions[a] # 0 /\ sessions'[a] = sessions[a]
            /\ greeting' = NoPacket /\ tasks' = Append(tasks, p)
         \/ /\ sessions[a] = 0 /\ sessions'[a] = Len(session[a]) + 1
            /\ greeting' = p /\ tasks' = tasks
  BY ReceiveFields
<1>2. /\ Linked(a) /\ p.bit = expected[a] /\ ~AtServer(a) /\ Owed(a) /\ ~Greeted(a)
      /\ ~InQueue(tasks, a) /\ \A w \in Worker : ~Holds(w, a) /\ ~Serves(w, a)
    BY <1>1 DEF FlowInv, OneInv, Live, AtServer, Owed, Holds, Serves
<1>3. \A w \in Worker : ~Holds(w, a)' /\ ~Serves(w, a)'
  BY <1>1, <1>2 DEF Holds, Serves
<1>4. tasks \in Seq(Packets) /\ expected[a] \in {0, 1} /\ client[a].bit \in {0, 1}
  BY BitType DEF TypeInv, PoolInv, LinkInv
<1>5. sessions'[a] # 0
  <2>1. Len(session[a]) + 1 # 0
    BY DEF TypeInv, SessionInv
  <2> QED
    BY <1>1, <2>1
<1>6. /\ ~(Greeted(a)' /\ InQueue(tasks', a)) /\ Once(tasks', a)
      /\ \A i \in DOMAIN tasks' : tasks'[i].addr = a => tasks'[i] = p
      /\ Greeted(a)' => greeting' = p /\ sessions[a] = 0
  <2>1. Once(tasks, a) /\ \A i \in DOMAIN tasks : tasks[i].addr # a
    BY <1>2 DEF FlowInv, OneInv, InQueue
  <2>2. CASE sessions[a] # 0 /\ greeting' = NoPacket /\ tasks' = Append(tasks, p)
    BY <1>1, <1>2, <1>4, <2>1, <2>2, AppendQueue DEF Greeted
  <2>3. CASE sessions[a] = 0 /\ greeting' = p /\ tasks' = tasks
    BY <1>2, <2>1, <2>3 DEF InQueue, Once
  <2> QED
    BY <1>1, <2>2, <2>3
<1>7. Fits(client[a], p)
  BY <1>2 DEF FlowInv, FitInv
<1>8. /\ Alive(a)' = Alive(a) /\ client'[a] = client[a] /\ Waits(a)' = Waits(a)
      /\ Has(a)' = Has(a) /\ AwaitInv(a)' = AwaitInv(a) /\ (Owed(a)' => Owed(a))
  BY <1>1, <1>2 DEF Alive, Waits, Has, AwaitInv
<1>9. client[a].mode = "failing" => p.bit = client[a].bit
  BY <1>2 DEF FlowInv, BitInv
<1>10. Alive(a) => /\ p.bit = 1 - client[a].bit
                   /\ client[a].expects = IF Waits(a) = 1 THEN client[a].bit
                                                          ELSE 1 - client[a].bit
  BY <1>2 DEF FlowInv, BitInv
<1> HIDE DEF p
<1>11. OneInv(a)'
  BY <1>1, <1>3, <1>6 DEF OneInv, Live
<1>12. BitInv(a)'
  <2>1. client[a].mode # "closed"
    BY <1>2 DEF FlowInv, BitInv
  <2> QED
    BY <1>1, <1>2, <1>4, <1>8, <1>9, <1>10, <2>1 DEF BitInv
<1>13. ForgetInv(a)'
  BY <1>3, <1>5 DEF ForgetInv
<1>14. TurnInv(a)'
  <2>1. Alive(a) => AwaitInv(a) /\ Has(a) = 0 /\ Waits(a) # 0
    BY <1>2 DEF FlowInv, TurnInv
  <2>2. Alive(a) /\ Greeted(a)' => senders'[a] = NoSender /\ expected[a] = 0
    BY <1>1, <1>2, <1>6 DEF FlowInv, ForgetInv, Alive
  <2>3. Alive(a) /\ Waits(a) = 1 /\ Greeted(a)' => client[a].expects = 1
    BY <1>2, <1>4, <1>10, <2>2
  <2>4. Alive(a) /\ client[a].part = 1 =>
          /\ Waits(a) = 1 => client[a].awaiting = << 250 >>
          /\ \A i \in DOMAIN client[a].inbox : client[a].inbox[i].code = 220
    BY <1>2 DEF FlowInv, TurnInv
  <2> QED
    BY <1>1, <1>8, <2>1, <2>2, <2>3, <2>4 DEF TurnInv
<1>15. FitInv(a)'
  BY <1>1, <1>3, <1>6, <1>7 DEF FitInv
<1>16. ReplyInv(a)' /\ RestInv(a)'
  <2>1. ASSUME NEW w \in Worker, Rests(w, a)' PROVE client'[a].mode = "gone"
    <3>1. Rests(w, a)
      BY <1>1, <2>1 DEF Rests
    <3> QED
      BY <1>2, <1>8, <3>1 DEF FlowInv, RestInv
  <2> QED
    BY <1>8, <2>1 DEF FlowInv, ReplyInv, RestInv
<1> QED
  BY <1>11, <1>12, <1>13, <1>14, <1>15, <1>16 DEF FlowInv

LEMMA ReceiveFlow ==
  ASSUME TypeInv, NEW b \in Addr, Receive(b), NEW a \in Addr, FlowInv(a)
  PROVE  FlowInv(a)'
BY ReceiveOther, LessFlow, ReapedFlow, ReceiveOwnFlow

\* The bit of the next reply to a client.
ReplyBit(a) == IF senders[a] = NoSender THEN 0 ELSE senders[a]

\* A reply changes nothing but what is at its client, and adds at most itself.
LEMMA ToldClient ==
  ASSUME TypeInv, NEW a \in Addr, NEW code \in Code, NEW p \in Packets,
         _send_reply(a, code, p)
  PROVE  LET c == client[a]
             d == client'[a] IN
         /\ \A b \in Addr \ {a} : client'[b] = client[b] /\ senders'[b] = senders[b]
         /\ d.mode = c.mode /\ d.n = c.n /\ d.part = c.part /\ d.awaiting = c.awaiting
         /\ d.accepted = c.accepted /\ d.bit = c.bit /\ d.expects = c.expects
         /\ Has(a) \in Nat /\ Has(a)' \in {Has(a), Has(a) + 1}
         /\ DOMAIN c.inbox = 1..Has(a) /\ DOMAIN d.inbox = 1..Has(a)'
         /\ \A i \in 1..Has(a)' :
              \/ i \in 1..Has(a) /\ d.inbox[i] = c.inbox[i]
              \/ /\ d.inbox[i].code = code /\ d.inbox[i].n = p.n /\ d.inbox[i].part = p.part
                 /\ d.inbox[i].bit = ReplyBit(a) /\ i = Has(a) + 1
<1> DEFINE c == client[a]
           bit == ReplyBit(a)
           r == [code |-> code, n |-> p.n, part |-> p.part, bit |-> bit]
           more == Append(c.inbox, r)
<1>1. bit \in {0, 1}
  BY NoBits DEF TypeInv, LinkInv, ReplyBit
<1>2. /\ client' = client \/ client' = [client EXCEPT ![a].inbox = more]
      /\ \A b \in Addr \ {a} : senders'[b] = senders[b]
  BY DEF _send_reply, ReplyBit, TypeInv, LinkInv
<1> HIDE DEF bit
<1>3. r \in ReplyType /\ r.code = code /\ r.n = p.n /\ r.part = p.part /\ r.bit = bit
  BY <1>1, ReplyRecord
<1> HIDE DEF r
<1>4. c.inbox \in Seq(ReplyType) /\ c \in ClientType /\ client \in [Addr -> ClientType]
  BY ClientFields DEF TypeInv, ClientInv
<1>5. /\ Has(a) \in Nat /\ DOMAIN c.inbox = 1..Has(a)
      /\ Len(more) = Has(a) + 1 /\ DOMAIN more = 1..(Has(a) + 1)
      /\ \A i \in 1..Has(a) : more[i] = c.inbox[i]
      /\ more[Has(a) + 1] = r
  <2>1. more \in Seq(ReplyType) /\ Len(more) = Len(c.inbox) + 1
    BY <1>3, <1>4, AppendProperties
  <2> QED
    BY <1>3, <1>4, <2>1, AppendProperties, LenProperties DEF Has
<1> HIDE DEF more
<1>6. CASE client' = client
  <2>1. Has(a)' = Has(a)
    BY <1>6 DEF Has
  <2> QED
    BY <1>2, <1>4, <1>5, <1>6, <2>1
<1>7. CASE client' = [client EXCEPT ![a].inbox = more]
  <2>1. /\ client'[a].mode = c.mode /\ client'[a].n = c.n /\ client'[a].part = c.part
        /\ client'[a].awaiting = c.awaiting /\ client'[a].accepted = c.accepted
        /\ client'[a].bit = c.bit /\ client'[a].expects = c.expects
        /\ client'[a].inbox = more /\ \A b \in Addr \ {a} : client'[b] = client[b]
    BY <1>4, <1>7 DEF ClientType
  <2>2. Has(a)' = Has(a) + 1
    BY <1>5, <2>1 DEF Has
  <2>3. \A i \in 1..Has(a) + 1 : \/ i \in 1..Has(a) /\ more[i] = c.inbox[i]
                                 \/ i = Has(a) + 1 /\ more[i] = r
    BY <1>5
  <2> QED
    BY <1>2, <1>3, <1>5, <2>1, <2>2, <2>3 DEF bit
<1> QED
  BY <1>2, <1>6, <1>7

\* A client that is sent the reply to the packet that fits it.
LEMMA ToldFlow ==
  ASSUME TypeInv, NEW a \in Addr, NEW code \in Code, NEW p \in Packets,
         _send_reply(a, code, p), FlowInv(a), script' = script,
         Alive(a) => p.n = client[a].n /\ p.part = client[a].part
  PROVE  /\ ReplyInv(a)' /\ (Alive(a) => AwaitInv(a)') /\ Waits(a)' = Waits(a)
         /\ \A q : Fits(client[a], q) => Fits(client'[a], q)
         /\ Has(a) # 0 /\ Drops(a) => Drops(a)'
         /\ Has(a) = 0 /\ Has(a)' = 1 /\ ReplyBit(a) # client[a].expects => Drops(a)'
         /\ \A i \in DOMAIN client'[a].inbox :
              \/ client'[a].inbox[i].code = code
              \/ \E j \in DOMAIN client[a].inbox : client'[a].inbox[i] = client[a].inbox[j]
<1> DEFINE c == client[a]
           d == client'[a]
<1>1. /\ d.mode = c.mode /\ d.n = c.n /\ d.part = c.part /\ d.awaiting = c.awaiting
      /\ d.expects = c.expects
      /\ Has(a) \in Nat /\ Has(a)' \in {Has(a), Has(a) + 1}
      /\ DOMAIN c.inbox = 1..Has(a) /\ DOMAIN d.inbox = 1..Has(a)'
      /\ \A i \in 1..Has(a)' :
           \/ i \in 1..Has(a) /\ d.inbox[i] = c.inbox[i]
           \/ /\ d.inbox[i].n = p.n /\ d.inbox[i].part = p.part /\ d.inbox[i].code = code
              /\ d.inbox[i].bit = ReplyBit(a) /\ i = Has(a) + 1
  BY ToldClient
<1>2. Alive(a)' <=> Alive(a)
  BY <1>1 DEF Alive
<1>3. Alive(a) => p.n = c.n /\ p.part = c.part
  OBVIOUS
<1>4. Waits(a)' = Waits(a)
  BY <1>1 DEF Waits
<1>5. Has(a) # 0 => Head(c.inbox) = c.inbox[1]
  BY <1>1, ClientFields, HeadTailProperties DEF Has
<1>6. Has(a)' # 0 => Head(d.inbox) = d.inbox[1]
  BY <1>1 DEF Has
<1> HIDE DEF c, d
<1>7. ReplyInv(a)'
  BY <1>1, <1>2, <1>3 DEF FlowInv, ReplyInv, c, d
<1>8. Alive(a) => AwaitInv(a)'
  BY <1>1, <1>4 DEF FlowInv, TurnInv, AwaitInv, c, d
<1>9. \A q : Fits(c, q) => Fits(d, q)
  BY <1>1 DEF Fits
<1>10. Has(a) # 0 /\ Drops(a) => Drops(a)'
  BY <1>1, <1>5, <1>6 DEF Drops, c, d
<1>11. Has(a) = 0 /\ Has(a)' = 1 /\ ReplyBit(a) # c.expects => Drops(a)'
  BY <1>1, <1>6 DEF Drops, d
<1>12. \A i \in DOMAIN d.inbox : \/ d.inbox[i].code = code
                                 \/ \E j \in DOMAIN c.inbox : d.inbox[i] = c.inbox[j]
  BY <1>1
<1> QED
  BY <1>4, <1>7, <1>8, <1>9, <1>10, <1>11, <1>12 DEF c, d

LEMMA GreetOwnFlow ==
  ASSUME TypeInv, Greet, NEW a \in Addr, greeting.addr = a, FlowInv(a)
  PROVE  FlowInv(a)'
<1> DEFINE p == greeting
<1>1. /\ p # NoPacket /\ _send_reply(a, 220, p) /\ tasks' = Append(tasks, p)
      /\ greeting' = NoPacket
      /\ UNCHANGED <<script, inbound, expected, sessions, worker>>
  BY DEF Greet, sessionVars
<1>2. p \in Packets /\ 220 \in Code /\ tasks \in Seq(Packets)
  BY <1>1 DEF TypeInv, LinkInv, PoolInv, Code
<1>3. /\ Greeted(a) /\ ~InQueue(tasks, a) /\ Once(tasks, a) /\ AtServer(a) /\ Owed(a)
      /\ \A w \in Worker : ~Holds(w, a) /\ ~Serves(w, a)
  <2>1. Greeted(a)
    BY <1>1 DEF Greeted
  <2> QED
    BY <2>1 DEF FlowInv, OneInv, Holds, Serves, AtServer, Owed
<1>4. /\ ~Greeted(a)' /\ \A w \in Worker : ~Holds(w, a)' /\ ~Serves(w, a)'
  BY <1>1, <1>3 DEF Greeted, Holds, Serves
<1>5. /\ Once(tasks', a) /\ InQueue(tasks', a)
      /\ \A i \in DOMAIN tasks' : tasks'[i].addr = a => tasks'[i] = p
  BY <1>1, <1>2, <1>3, AppendQueue DEF InQueue
<1>6. AtServer(a)' /\ Owed(a)' /\ (Linked(a)' <=> Linked(a))
  BY <1>1, <1>5 DEF AtServer, Owed, Linked
<1>7. Fits(client[a], p) /\ (Alive(a) => p.n = client[a].n /\ p.part = client[a].part)
  BY <1>3 DEF FlowInv, FitInv, Fits, Alive
<1> HIDE DEF p
<1>8. /\ client'[a].mode = client[a].mode /\ client'[a].bit = client[a].bit
      /\ client'[a].expects = client[a].expects /\ client'[a].awaiting = client[a].awaiting
      /\ Has(a) \in Nat /\ Has(a)' \in {Has(a), Has(a) + 1}
      /\ client'[a].part = client[a].part
  BY <1>1, <1>2, ToldClient
<1>9. /\ ReplyInv(a)' /\ (Alive(a) => AwaitInv(a)') /\ Waits(a)' = Waits(a)
      /\ \A q : Fits(client[a], q) => Fits(client'[a], q)
      /\ Has(a) = 0 /\ Has(a)' = 1 /\ ReplyBit(a) # client[a].expects => Drops(a)'
      /\ \A i \in DOMAIN client'[a].inbox :
           \/ client'[a].inbox[i].code = 220
           \/ \E j \in DOMAIN client[a].inbox : client'[a].inbox[i] = client[a].inbox[j]
  <2>1. script' = script /\ _send_reply(a, 220, p)
    BY <1>1
  <2>2. Alive(a) => p.n = client[a].n /\ p.part = client[a].part
    BY <1>7
  <2> QED
    BY <1>2, <2>1, <2>2, ToldFlow
<1>10. Alive(a)' <=> Alive(a)
  BY <1>8 DEF Alive
<1>11. OneInv(a)'
  BY <1>1, <1>3, <1>4, <1>5, <1>6, <1>10 DEF FlowInv, OneInv, Live
<1>12. BitInv(a)'
  BY <1>1, <1>3, <1>6, <1>8, <1>9, <1>10 DEF FlowInv, BitInv
<1>13. ForgetInv(a)'
  BY <1>1, <1>3, <1>4 DEF FlowInv, ForgetInv
<1>14. TurnInv(a)'
  <2>1. Alive(a) => /\ ~Linked(a)' /\ Has(a) = 0 /\ Waits(a) \in {1, 2}
                    /\ Waits(a) = 1 => client[a].expects = 1 /\ senders[a] = NoSender
    <3>1. Waits(a) \in Nat
      BY ClientFields, LenProperties DEF Waits
    <3> QED
      BY <1>3, <1>6, <3>1 DEF FlowInv, OneInv, TurnInv, AwaitInv
  <2>2. Alive(a) /\ Waits(a) = 1 => ReplyBit(a) # client[a].expects
    BY <2>1 DEF ReplyBit
  <2>3. Alive(a) /\ client[a].part = 1 =>
          /\ Waits(a) = 1 => client[a].awaiting = << 250 >>
          /\ \A i \in DOMAIN client'[a].inbox : client'[a].inbox[i].code = 220
    BY <1>3, <1>8, <1>9 DEF FlowInv, TurnInv
  <2> QED
    BY <1>4, <1>6, <1>8, <1>9, <1>10, <2>1, <2>2, <2>3 DEF TurnInv
<1>15. FitInv(a)'
  BY <1>1, <1>4, <1>5, <1>6, <1>7, <1>9 DEF FlowInv, FitInv
<1>16. RestInv(a)'
  <2>1. ASSUME NEW w \in Worker, Rests(w, a)' PROVE client'[a].mode = "gone"
    <3>1. Rests(w, a)
      BY <1>1, <2>1 DEF Rests
    <3> QED
      BY <1>3, <1>8, <3>1 DEF FlowInv, RestInv
  <2> QED
    BY <2>1 DEF RestInv
<1> QED
  BY <1>9, <1>11, <1>12, <1>13, <1>14, <1>15, <1>16 DEF FlowInv

LEMMA GreetOther ==
  ASSUME TypeInv, Greet, NEW a \in Addr, greeting.addr # a
  PROVE  Less(a)
<1> DEFINE p == greeting
<1>1. /\ p # NoPacket /\ _send_reply(p.addr, 220, p) /\ tasks' = Append(tasks, p)
      /\ greeting' = NoPacket
      /\ UNCHANGED <<script, inbound, expected, sessions, worker>>
  BY DEF Greet, sessionVars
<1>2. p \in Packets /\ p.addr \in Addr /\ 220 \in Code /\ tasks \in Seq(Packets)
  BY <1>1 DEF TypeInv, LinkInv, PoolInv, Packets, Code
<1>3. client'[a] = client[a] /\ senders'[a] = senders[a] /\ ~Greeted(a)'
  BY <1>1, <1>2, ToldClient DEF Greeted
<1> QED
  BY <1>1, <1>2, <1>3, AppendQueue DEF Less, Linked, Holds, Serves, Rests

LEMMA GreetFlow ==
  ASSUME TypeInv, Greet, NEW a \in Addr, FlowInv(a)
  PROVE  FlowInv(a)'
BY GreetOther, GreetOwnFlow, LessFlow

-----------------------------------------------------------------------------
(* The pool                                                                *)

LEMMA GotoFields ==
  ASSUME TypeInv, NEW w \in Worker, NEW label, Goto(w, label)
  PROVE  /\ worker'[w].at = label /\ worker'[w].task = worker[w].task
         /\ worker'[w].sid = worker[w].sid /\ worker'[w].full = worker[w].full
         /\ worker'[w].code = worker[w].code /\ worker'[w].lines = worker[w].lines
         /\ \A u \in Worker \ {w} : worker'[u] = worker[u]
BY WorkerFields DEF Goto, WorkerType, TypeInv, PoolInv

LEMMA AnswerFields ==
  ASSUME TypeInv, NEW w \in Worker, NEW code, Answer(w, code)
  PROVE  /\ worker'[w].at = "reply" /\ worker'[w].task = worker[w].task
         /\ worker'[w].sid = worker[w].sid /\ worker'[w].code = code
         /\ worker'[w].lines = worker[w].lines
         /\ \A u \in Worker \ {w} : worker'[u] = worker[u]
BY WorkerFields DEF Answer, WorkerType, TypeInv, PoolInv

LEMMA DoneFields ==
  ASSUME TypeInv, NEW w \in Worker, Done(w)
  PROVE  /\ worker'[w].at = "idle" /\ worker'[w].lines = 0
         /\ \A u \in Worker \ {w} : worker'[u] = worker[u]
BY IdleType DEF Done, Idle, TypeInv, PoolInv

LEMMA ProcessFields ==
  ASSUME TypeInv, NEW w \in Worker, _process_packet(w)
  PROVE  /\ worker[w].at = "process" /\ UNCHANGED <<session, tasks, stored>> /\ WorkerOnly
         /\ \A u \in Worker \ {w} : worker'[u] = worker[u]
         /\ \/ worker'[w].at = "idle" /\ worker'[w].lines = 0 /\ sessions[Address(w)] = 0
            \/ /\ sessions[Address(w)] # 0 /\ worker'[w].sid = sessions[Address(w)]
               /\ worker'[w].task = worker[w].task /\ worker'[w].lines = worker[w].lines
               /\ worker'[w].at = IF Reading(Address(w)) THEN "extend" ELSE "command"
<1> DEFINE id == sessions[Address(w)]
           label == IF Reading(Address(w)) THEN "extend" ELSE "command"
<1>1. worker[w].at = "process" /\ UNCHANGED <<session, tasks, stored>> /\ WorkerOnly
  BY DEF _process_packet, At
<1>2. CASE id = 0
  <2>1. Done(w)
    BY <1>2 DEF _process_packet
  <2> QED
    BY <1>1, <1>2, <2>1, DoneFields
<1>3. CASE id # 0
  <2>1. worker' = [worker EXCEPT ![w].sid = id, ![w].at = label]
    BY <1>3 DEF _process_packet, Reading
  <2>2. worker[w] \in WorkerType /\ worker \in [Worker -> WorkerType]
    BY DEF TypeInv, PoolInv
  <2> HIDE DEF id, label
  <2>3. /\ worker'[w].sid = id /\ worker'[w].at = label /\ worker'[w].task = worker[w].task
        /\ worker'[w].lines = worker[w].lines
        /\ \A u \in Worker \ {w} : worker'[u] = worker[u]
    BY <2>1, <2>2 DEF WorkerType
  <2> QED
    BY <1>1, <1>3, <2>3 DEF id, label
<1> QED
  BY <1>2, <1>3

LEMMA CopyFields ==
  ASSUME TypeInv, NEW w \in Worker, Copy(w)
  PROVE  /\ worker[w].at = "copy" /\ UNCHANGED <<session, tasks, stored>> /\ WorkerOnly
         /\ worker'[w].at = "reset" /\ worker'[w].task = worker[w].task
         /\ worker'[w].sid = worker[w].sid /\ worker'[w].full = Mine(w).data_buffer
         /\ worker'[w].lines = worker[w].lines
         /\ \A u \in Worker \ {w} : worker'[u] = worker[u]
<1> DEFINE full == Mine(w).data_buffer
<1>1. /\ worker[w].at = "copy" /\ UNCHANGED <<session, tasks, stored>> /\ WorkerOnly
      /\ worker' = [worker EXCEPT ![w].at = "reset", ![w].full = full]
  BY DEF Copy, At
<1>2. worker[w] \in WorkerType /\ worker \in [Worker -> WorkerType]
  BY DEF TypeInv, PoolInv
<1> HIDE DEF full
<1>3. /\ worker'[w].at = "reset" /\ worker'[w].task = worker[w].task
      /\ worker'[w].sid = worker[w].sid /\ worker'[w].full = full
      /\ worker'[w].lines = worker[w].lines
      /\ \A u \in Worker \ {w} : worker'[u] = worker[u]
  BY <1>1, <1>2 DEF WorkerType
<1> QED
  BY <1>1, <1>3 DEF full

LEMMA TakeFields ==
  ASSUME TypeInv, NEW w \in Worker, Take(w)
  PROVE  /\ worker[w].at = "idle" /\ tasks # <<>> /\ tasks' = Tail(tasks)
         /\ UNCHANGED <<session, stored>> /\ WorkerOnly
         /\ worker'[w].at = "process" /\ worker'[w].task = Head(tasks)
         /\ worker'[w].lines = worker[w].lines
         /\ \A u \in Worker \ {w} : worker'[u] = worker[u]
<1> DEFINE p == Head(tasks)
<1>1. /\ worker[w].at = "idle" /\ tasks # <<>> /\ tasks' = Tail(tasks)
      /\ UNCHANGED <<session, stored>> /\ WorkerOnly
      /\ worker' = [worker EXCEPT ![w].at = "process", ![w].task = p]
  BY DEF Take, At
<1>2. worker[w] \in WorkerType /\ worker \in [Worker -> WorkerType]
  BY DEF TypeInv, PoolInv
<1> HIDE DEF p
<1>3. /\ worker'[w].at = "process" /\ worker'[w].task = p
      /\ worker'[w].lines = worker[w].lines
      /\ \A u \in Worker \ {w} : worker'[u] = worker[u]
  BY <1>1, <1>2 DEF WorkerType
<1> QED
  BY <1>1, <1>3 DEF p

\* What a worker that refuses the rest of a message leaves of itself.
LEMMA RestFields ==
  ASSUME TypeInv, NEW w \in Worker, Rest(w)
  PROVE  /\ worker[w].at = "rest" /\ tasks' = tasks
         /\ \A u \in Worker \ {w} : worker'[u] = worker[u]
         /\ \/ worker'[w].at = "idle" /\ worker'[w].lines = 0
            \/ /\ worker'[w].at = "rest" /\ worker'[w].task = worker[w].task
               /\ worker'[w].code = worker[w].code
<1>1. worker[w].at = "rest" /\ tasks' = tasks
  BY DEF Rest, At
<1>2. CASE Done(w)
  BY <1>1, <1>2, DoneFields
<1>3. CASE ~Done(w)
  <2> DEFINE lines == worker[w].lines - 1
  <2>1. worker' = [worker EXCEPT ![w].lines = lines]
    BY <1>3 DEF Rest
  <2>2. worker[w] \in WorkerType /\ worker \in [Worker -> WorkerType]
    BY DEF TypeInv, PoolInv
  <2> HIDE DEF lines
  <2>3. /\ worker'[w].at = worker[w].at /\ worker'[w].task = worker[w].task
        /\ worker'[w].code = worker[w].code
        /\ \A u \in Worker \ {w} : worker'[u] = worker[u]
    BY <2>1, <2>2 DEF WorkerType
  <2> QED
    BY <1>1, <2>3
<1> QED
  BY <1>2, <1>3

LEMMA RefuseKeeps ==
  ASSUME TypeInv, NEW w \in Worker, Refuse(w)
  PROVE  /\ worker'[w].at = "reply" /\ worker'[w].code = 500
         /\ worker'[w].task = worker[w].task /\ worker'[w].sid = worker[w].sid
         /\ \A u \in Worker \ {w} : worker'[u] = worker[u]
<1>1. worker \in [Worker -> WorkerType]
  BY DEF TypeInv, PoolInv
<1> QED
  BY <1>1, RefuseFields

\* Worker w goes on with the packet it has, or is done with it.
Moves(w) ==
  /\ tasks' = tasks /\ \A u \in Worker \ {w} : worker'[u] = worker[u]
  /\ worker'[w].at \in Serving => worker[w].at \in Serving
  /\ worker'[w].at \in Forgetting => worker[w].at \in Serving \union Forgetting
  /\ worker'[w].at = "rest" => worker[w].at \in {"reply", "rest"}
  /\ worker'[w].at \in Serving \union Forgetting \union {"rest"} =>
       worker'[w].task = worker[w].task

LEMMA WorkerMoves ==
  ASSUME TypeInv, NEW w \in Worker, WorkerStep(w)
  PROVE  Take(w) \/ Moves(w)
<1>1. CASE _process_packet(w)
  BY <1>1, ProcessFields DEF Moves, Serving, Forgetting
<1>2. CASE Copy(w)
  BY <1>2, CopyFields DEF Moves, Serving, Forgetting
<1>3. ASSUME NEW code, worker[w].at \in Serving, tasks' = tasks, Answer(w, code)
      PROVE  Moves(w)
  BY <1>3, AnswerFields DEF Moves, Serving, Forgetting
<1>4. ASSUME tasks' = tasks, Done(w) PROVE Moves(w)
  BY <1>4, DoneFields DEF Moves, Serving, Forgetting
<1>5. ASSUME NEW label, worker[w].at \in Serving, tasks' = tasks, Goto(w, label),
             label # "rest"
      PROVE  Moves(w)
  BY <1>5, GotoFields DEF Moves
<1>6. CASE Extend(w) \/ Check(w) \/ Reset(w) \/ Clear(w)
  BY <1>4, <1>5, <1>6 DEF Extend, Check, Reset, Clear, At, Serving
<1>11. ASSUME worker[w].at \in Serving, tasks' = tasks, Refuse(w) PROVE Moves(w)
  BY <1>11, RefuseKeeps DEF Moves, Serving, Forgetting
<1>7. CASE _finalize_message(w)
  <2>1. /\ worker[w].at \in Serving /\ tasks' = tasks
        /\ \E code \in {250, 451, 550} : Answer(w, code)
    BY <1>7 DEF _finalize_message, At, Serving
  <2> QED
    BY <1>3, <2>1
<1>8. CASE _handle_command_stream(w)
  <2>1. worker[w].at \in Serving /\ tasks' = tasks
    BY <1>8 DEF _handle_command_stream, At, Serving
  <2> QED
    BY <1>3, <1>4, <1>8, <1>11, <2>1, CommandCases
<1>9. CASE Reply(w)
  <2>1. /\ worker[w].at = "reply" /\ tasks' = tasks
        /\ Goto(w, "pop_sender") \/ Goto(w, "clear") \/ Goto(w, "rest") \/ Done(w)
    BY <1>9 DEF Reply, At
  <2>2. CASE Goto(w, "rest")
    BY <2>1, <2>2, GotoFields DEF Moves, Serving, Forgetting
  <2> QED
    BY <1>4, <1>5, <2>1, <2>2 DEF Serving
<1>12. CASE Rest(w)
  BY <1>12, RestFields DEF Moves, Serving, Forgetting
<1>10. CASE PopSender(w) \/ PopSession(w) \/ reset_state(w)
  <2>1. worker[w].at \in Forgetting /\ tasks' = tasks
        /\ ((\E label \in Forgetting : Goto(w, label)) \/ Done(w))
    BY <1>10 DEF PopSender, PopSession, reset_state, At, Forgetting
  <2>2. ASSUME NEW label \in Forgetting, Goto(w, label) PROVE Moves(w)
    <3>1. label \notin Serving /\ label # "rest"
      BY DEF Forgetting, Serving
    <3> QED
      BY <2>1, <2>2, <3>1, GotoFields DEF Moves
  <2> QED
    BY <1>4, <2>1, <2>2
<1> QED
  BY <1>1, <1>2, <1>6, <1>7, <1>8, <1>9, <1>10, <1>12 DEF WorkerStep

LEMMA StepKeepsClient ==
  ASSUME NEW w \in Worker, WorkerStep(w), ~Reply(w), ~Rest(w)
  PROVE  client' = client
BY DEF WorkerStep, Take, _process_packet, Extend, Check, Copy, Reset, _finalize_message,
       _handle_command_stream, Clear, PopSender, PopSession, reset_state, WorkerOnly

\* A worker's step changes what the server knows of a client only behind its QUIT.
LEMMA StepKeepsBits ==
  ASSUME TypeInv, NEW w \in Worker, WorkerStep(w), NEW a \in Addr
  PROVE  /\ UNCHANGED <<script, inbound, greeting>>
         /\ \/ /\ worker[w].at \in Forgetting \union {"reply", "rest"}
               /\ worker[w].task.addr = a
            \/ /\ client'[a] = client[a] /\ expected'[a] = expected[a]
               /\ senders'[a] = senders[a] /\ sessions'[a] = sessions[a]
<1>1. CASE Reply(w) \/ Rest(w)
  <2>1. /\ worker[w].at \in {"reply", "rest"}
        /\ worker[w].task \in Packets /\ worker[w].task.addr \in Addr /\ Sends(w) \in Code
        /\ _send_reply(worker[w].task.addr, Sends(w), worker[w].task)
        /\ UNCHANGED <<script, inbound, greeting, expected, sessions>>
    BY <1>1, Replies DEF At, loopVars, sessionVars
  <2>2. worker[w].task.addr # a => client'[a] = client[a] /\ senders'[a] = senders[a]
    BY <2>1, ToldClient
  <2> QED
    BY <2>1, <2>2
<1>2. CASE PopSender(w) \/ PopSession(w) \/ reset_state(w)
  <2>1. /\ worker[w].at \in Forgetting /\ UNCHANGED <<script, inbound, greeting, client>>
        /\ senders' = senders \/ senders' = [senders EXCEPT ![Address(w)] = NoSender]
        /\ sessions' = sessions \/ sessions' = [sessions EXCEPT ![Address(w)] = 0]
        /\ expected' = expected \/ expected' = [expected EXCEPT ![Address(w)] = 0]
    BY <1>2 DEF PopSender, PopSession, reset_state, At, loopVars, sessionVars, Forgetting
  <2> QED
    BY <2>1 DEF TypeInv, LinkInv, SessionInv, Address
<1>3. CASE ~Reply(w) /\ ~Rest(w) /\ ~PopSender(w) /\ ~PopSession(w) /\ ~reset_state(w)
  <2>1. WorkerOnly
    BY <1>3 DEF WorkerStep, Take, _process_packet, Extend, Check, Copy, Reset,
                _finalize_message, _handle_command_stream, Clear
  <2> QED
    BY <2>1 DEF WorkerOnly, loopVars
<1> QED
  BY <1>1, <1>2, <1>3

\* A worker begins to forget its client only behind the reply to QUIT.
LEMMA StepKeepsLabels ==
  ASSUME TypeInv, NEW w \in Worker, WorkerStep(w),
         worker[w].at \notin Forgetting \union {"reply", "rest"}
  PROVE  worker'[w].at \notin Forgetting \union {"rest"}
<1>1. CASE Take(w)
  BY <1>1, TakeFields DEF Forgetting
<1>2. CASE _process_packet(w)
  BY <1>2, ProcessFields DEF Forgetting
<1>3. CASE Copy(w)
  BY <1>3, CopyFields DEF Forgetting
<1>4. CASE Extend(w) \/ Check(w) \/ Reset(w) \/ Clear(w)
  <2>1. Done(w) \/ \E label \in {"check", "copy", "finalize"} : Goto(w, label)
    BY <1>4 DEF Extend, Check, Reset, Clear
  <2> QED
    BY <2>1, GotoFields, DoneFields DEF Forgetting
<1>5. CASE _finalize_message(w)
  <2>1. \E code : Answer(w, code)
    BY <1>5 DEF _finalize_message
  <2> QED
    BY <2>1, AnswerFields DEF Forgetting
<1>6. CASE _handle_command_stream(w)
  <2>1. Done(w) \/ Refuse(w) \/ \E code : Answer(w, code)
    BY <1>6, CommandCases
  <2> QED
    BY <2>1, AnswerFields, DoneFields, RefuseKeeps DEF Forgetting
<1> QED
  BY <1>1, <1>2, <1>3, <1>4, <1>5, <1>6
  DEF WorkerStep, Reply, Rest, PopSender, PopSession, reset_state, At, Forgetting

\* A step of a worker with another client's packet, or that neither answers nor forgets.
LEMMA MovesLess ==
  ASSUME TypeInv, NEW w \in Worker, WorkerStep(w), Moves(w), NEW a \in Addr,
         worker[w].task.addr = a => worker[w].at \notin Forgetting \union {"reply", "rest"}
  PROVE  Less(a)
<1>1. /\ UNCHANGED <<script, inbound, greeting>>
      /\ client'[a] = client[a] /\ expected'[a] = expected[a]
      /\ senders'[a] = senders[a] /\ sessions'[a] = sessions[a]
  BY StepKeepsBits
<1>2. ASSUME NEW u \in Worker
      PROVE  /\ Holds(u, a)' => Holds(u, a) /\ worker'[u].task = worker[u].task
             /\ Serves(u, a)' => Serves(u, a)
  BY DEF Moves, Holds, Serves
<1>4. ASSUME NEW u \in Worker
      PROVE  Rests(u, a)' => Rests(u, a) /\ worker'[u].task = worker[u].task
  <2>1. CASE u # w
    BY <2>1 DEF Moves, Rests
  <2>2. CASE u = w
    BY <2>2, StepKeepsLabels DEF Moves, Rests
  <2> QED
    BY <2>1, <2>2
<1>3. ASSUME NEW u \in Worker
      PROVE  /\ Holds(u, a)' /\ worker'[u].at \in {"pop_session", "reset_state"} =>
                  worker'[u].at = worker[u].at
             /\ Holds(u, a) /\ worker[u].at = "reset_state" => worker'[u] = worker[u]
  <2>1. CASE u # w
    BY <2>1 DEF Moves
  <2>2. CASE u = w
    BY <1>2, <2>2, StepKeepsLabels DEF Holds, Forgetting
  <2> QED
    BY <2>1, <2>2
<1> QED
  BY <1>1, <1>2, <1>3, <1>4 DEF Less, Moves, Linked, Greeted

LEMMA TakeOther ==
  ASSUME TypeInv, NEW w \in Worker, Take(w), NEW a \in Addr, Head(tasks).addr # a
  PROVE  Less(a)
<1> DEFINE p == Head(tasks)
<1>1. /\ tasks # <<>> /\ tasks' = Tail(tasks) /\ worker[w].at = "idle"
      /\ worker'[w].at = "process" /\ worker'[w].task = p
      /\ \A u \in Worker \ {w} : worker'[u] = worker[u]
      /\ UNCHANGED <<script, client, inbound, greeting, expected, senders, sessions>>
  BY TakeFields DEF WorkerOnly, loopVars
<1>2. tasks \in Seq(Packets)
  BY DEF TypeInv, PoolInv
<1>3. /\ InQueue(tasks', a) => InQueue(tasks, a)
      /\ Once(tasks, a) => Once(tasks', a)
      /\ \A i \in DOMAIN tasks' : \E j \in DOMAIN tasks : tasks[j] = tasks'[i]
  BY <1>1, <1>2, TailQueue
<1> HIDE DEF p
<1>4. \A u \in Worker \ {w} : /\ (Holds(u, a)' <=> Holds(u, a)) /\ (Rests(u, a)' <=> Rests(u, a))
                              /\ Serves(u, a)' <=> Serves(u, a)
  BY <1>1 DEF Holds, Serves, Rests
<1>5. ~Holds(w, a)' /\ ~Serves(w, a)' /\ ~Rests(w, a)' /\ ~Holds(w, a)
  <2>1. p.addr # a
    BY DEF p
  <2> QED
    BY <1>1, <2>1 DEF Holds, Serves, Rests, Serving, Forgetting
<1> QED
  BY <1>1, <1>3, <1>4, <1>5 DEF Less, Linked, Greeted

LEMMA TakeFlow ==
  ASSUME TypeInv, NEW w \in Worker, Take(w), NEW a \in Addr, FlowInv(a)
  PROVE  FlowInv(a)'
<1> DEFINE p == Head(tasks)
<1>1. /\ tasks # <<>> /\ tasks' = Tail(tasks) /\ worker[w].at = "idle"
      /\ worker'[w].at = "process" /\ worker'[w].task = p
      /\ \A u \in Worker \ {w} : worker'[u] = worker[u]
      /\ UNCHANGED <<script, client, inbound, greeting, expected, senders, sessions>>
  BY TakeFields DEF WorkerOnly, loopVars
<1>2. tasks \in Seq(Packets)
  BY DEF TypeInv, PoolInv
<1>3. /\ InQueue(tasks', a) => InQueue(tasks, a)
      /\ Once(tasks, a) => Once(tasks', a)
      /\ \A i \in DOMAIN tasks' : \E j \in DOMAIN tasks : tasks[j] = tasks'[i]
      /\ p.addr = a => InQueue(tasks, a) /\ (Once(tasks, a) => ~InQueue(tasks', a))
      /\ \E j \in DOMAIN tasks : tasks[j] = p
  BY <1>1, <1>2, TailQueue
<1> HIDE DEF p
<1>4. /\ \A u \in Worker \ {w} : (Holds(u, a)' <=> Holds(u, a)) /\ (Serves(u, a)' <=> Serves(u, a))
      /\ \A u \in Worker : Rests(u, a)' => Rests(u, a)
  BY <1>1 DEF Holds, Serves, Rests
<1>5. CASE p.addr # a
  <2>1. Less(a)
    BY <1>5, TakeOther DEF p
  <2> QED
    BY <2>1, LessFlow
<1>6. CASE p.addr = a
  <2>1. /\ InQueue(tasks, a) /\ ~InQueue(tasks', a) /\ Once(tasks', a)
        /\ ~Greeted(a) /\ AtServer(a) /\ Owed(a)
        /\ \A u \in Worker : ~Holds(u, a) /\ ~Serves(u, a)
    BY <1>3, <1>6 DEF FlowInv, OneInv, AtServer, Owed, Holds, Serves
  <2>2. /\ Linked(a)' = Linked(a) /\ ~Greeted(a)' /\ Live(a)' = Live(a)
        /\ Alive(a)' = Alive(a)
    BY <1>1, <2>1 DEF Linked, Greeted, Live, Alive
  <2>3. \A u \in Worker \ {w} : ~Holds(u, a)' /\ ~Serves(u, a)'
    BY <1>4, <2>1
  <2>4. Holds(w, a)' /\ Serves(w, a)' /\ AtServer(a)' /\ Owed(a)'
    BY <1>1, <1>6 DEF Holds, Serves, Serving, AtServer, Owed
  <2>5. OneInv(a)'
    BY <2>1, <2>2, <2>3 DEF FlowInv, OneInv
  <2>6. BitInv(a)'
    BY <1>1, <2>1, <2>2, <2>4 DEF FlowInv, BitInv, Waits
  <2>7. ForgetInv(a)'
    <3>1. sessions[a] # 0
      BY <2>1 DEF FlowInv, ForgetInv
    <3> QED
      BY <1>1, <2>3, <3>1 DEF ForgetInv
  <2>8. TurnInv(a)'
    <3>1. /\ AwaitInv(a)' = AwaitInv(a) /\ Waits(a)' = Waits(a) /\ Has(a)' = Has(a)
          /\ Drops(a)' = Drops(a) /\ ~Doomed(a)
      BY <1>1, <2>1 DEF AwaitInv, Waits, Has, Drops, Doomed
    <3> QED
      BY <1>1, <2>1, <2>2, <3>1 DEF FlowInv, TurnInv
  <2>9. Fits(client[a], p)
    BY <1>3, <1>6 DEF FlowInv, FitInv
  <2>10. FitInv(a)'
    BY <1>1, <2>1, <2>2, <2>3, <2>9 DEF FlowInv, FitInv, InQueue
  <2>11. ReplyInv(a)' /\ RestInv(a)'
    <3>1. ASSUME NEW u \in Worker, Rests(u, a)' PROVE client'[a].mode = "gone"
      BY <1>1, <1>4, <2>1, <3>1 DEF FlowInv, RestInv
    <3> QED
      BY <1>1, <2>2, <3>1 DEF FlowInv, ReplyInv, RestInv
  <2> QED
    BY <2>5, <2>6, <2>7, <2>8, <2>10, <2>11 DEF FlowInv
<1> QED
  BY <1>5, <1>6

LEMMA ReplyFlow ==
  ASSUME OnePart, TypeInv, LineInv, NEW w \in Worker, Reply(w),
         NEW a \in Addr, worker[w].task.addr = a, FlowInv(a)
  PROVE  FlowInv(a)'
<1> DEFINE p == worker[w].task
           code == worker[w].code
<1>1. /\ worker[w].at = "reply" /\ _send_reply(a, code, p)
      /\ UNCHANGED <<script, inbound, expected, greeting, sessions, tasks>>
      /\ \/ Goto(w, "pop_sender") \/ Goto(w, "clear") \/ Done(w)
         \/ Goto(w, "rest") /\ worker[w].lines > 0
  BY DEF Reply, At, loopVars, sessionVars
<1>2. p \in Packets /\ code \in Code
  BY <1>1, WorkerFields DEF At
<1>3. Moves(w)
  BY WorkerMoves, <1>1 DEF WorkerStep, Take, At
<1>4. Serves(w, a) /\ Holds(w, a) /\ AtServer(a) /\ Owed(a)
  BY <1>1 DEF Serves, Holds, Serving, AtServer, Owed
<1>5. /\ ~Greeted(a) /\ ~InQueue(tasks, a) /\ Once(tasks, a)
      /\ \A u \in Worker \ {w} : ~Holds(u, a)
  BY <1>4 DEF FlowInv, OneInv
<1>6. \/ worker'[w].at \in {"pop_sender", "clear", "idle"}
      \/ worker'[w].at = "rest" /\ worker[w].lines > 0
  BY <1>1, GotoFields, DoneFields
<1>7. ~Serves(w, a)' /\ \A u \in Worker \ {w} : ~Holds(u, a)' /\ ~Serves(u, a)'
  BY <1>3, <1>5, <1>6 DEF Serves, Holds, Serving, Moves
<1>8. ~Greeted(a)' /\ ~InQueue(tasks, a)' /\ (Linked(a)' <=> Linked(a))
  BY <1>1, <1>5 DEF Linked, Greeted
<1>9. Fits(client[a], p) /\ (Alive(a) => p.n = client[a].n /\ p.part = client[a].part)
  BY <1>4 DEF FlowInv, FitInv, Fits, Alive
<1>10. /\ client'[a].mode = client[a].mode /\ client'[a].bit = client[a].bit
       /\ client'[a].expects = client[a].expects /\ client'[a].awaiting = client[a].awaiting
       /\ Has(a) \in Nat /\ Has(a)' \in {Has(a), Has(a) + 1}
       /\ client'[a].part = client[a].part /\ client'[a].n = client[a].n
  BY <1>1, <1>2, ToldClient
<1>11. /\ ReplyInv(a)' /\ (Alive(a) => AwaitInv(a)') /\ Waits(a)' = Waits(a)
       /\ \A q : Fits(client[a], q) => Fits(client'[a], q)
       /\ Has(a) # 0 /\ Drops(a) => Drops(a)'
       /\ \A i \in DOMAIN client'[a].inbox :
            \/ client'[a].inbox[i].code = code
            \/ \E j \in DOMAIN client[a].inbox : client'[a].inbox[i] = client[a].inbox[j]
  <2>1. script' = script /\ _send_reply(a, code, p)
    BY <1>1
  <2>2. Alive(a) => p.n = client[a].n /\ p.part = client[a].part
    BY <1>9
  <2> QED
    BY <1>2, <2>1, <2>2, ToldFlow
<1>12. Holds(w, a)' => worker'[w].task = p
  BY <1>1, <1>3 DEF Moves, Holds
<1>19. /\ worker[w].lines > 0 => code = 500 /\ p.part = 1
       /\ worker'[w].at = "rest" => worker'[w].task = p
  <2>1. p.part \in 0..1
    BY <1>2 DEF Packets, OnePart
  <2> QED
    BY <1>3, <2>1 DEF LineInv, Moves
<1> HIDE DEF p, code
<1>13. Alive(a)' <=> Alive(a)
  BY <1>10 DEF Alive
<1>14. OneInv(a)'
  BY <1>1, <1>4, <1>5, <1>7, <1>8, <1>13 DEF FlowInv, OneInv, Live
<1>15. BitInv(a)'
  <2>1. client[a].mode # "closed"
    BY <1>4 DEF FlowInv, BitInv
  <2> QED
    BY <1>1, <1>4, <1>8, <1>10, <1>11, <1>13, <2>1 DEF FlowInv, BitInv
<1>16. ForgetInv(a)'
  <2>1. sessions[a] # 0
    BY <1>4 DEF FlowInv, ForgetInv
  <2> QED
    BY <1>1, <1>6, <1>7, <2>1 DEF ForgetInv
<1>17. TurnInv(a)'
  <2>1. ~Owed(a)' \/ Linked(a)
    BY <1>7, <1>8 DEF Owed
  <2>2. Alive(a) => ~Linked(a) /\ Has(a) <= 2 /\ Waits(a) \in {1, 2}
                    /\ Has(a) <= 1 /\ (Waits(a) = 1 /\ Has(a) = 1 => Drops(a))
    <3>1. Waits(a) \in Nat
      BY ClientFields, LenProperties DEF Waits
    <3> QED
      BY <1>4, <1>10, <3>1 DEF FlowInv, OneInv, TurnInv, AwaitInv, Doomed
  <2>3. Alive(a) /\ client[a].part = 1 /\ Waits(a) = 1 => client[a].awaiting = << 250 >>
    BY DEF FlowInv, TurnInv
  <2> QED
    BY <1>8, <1>10, <1>11, <1>13, <2>1, <2>2, <2>3 DEF TurnInv
<1>18. FitInv(a)'
  BY <1>1, <1>7, <1>8, <1>9, <1>11, <1>12 DEF FlowInv, FitInv, InQueue
<1>20. RestInv(a)'
  <2>1. CASE client[a].mode = "gone"
    BY <1>10, <2>1 DEF RestInv
  <2>2. CASE client[a].mode # "gone"
    <3>1. ASSUME NEW u \in Worker \ {w} PROVE ~Rests(u, a)'
      <4>1. ~Rests(u, a)
        BY <1>4, <2>2 DEF FlowInv, RestInv
      <4> QED
        BY <1>3, <4>1 DEF Moves, Rests
    <3>2. ASSUME worker'[w].at = "rest"
          PROVE  /\ client[a].mode \in {"open", "failing"} /\ ~Linked(a) /\ sessions[a] # 0
                 /\ client[a].mode = "open" =>
                      /\ client[a].awaiting = << 250 >> /\ client[a].part = 1
                      /\ p.n = client[a].n /\ p.part = 1
                      /\ \A i \in DOMAIN client[a].inbox : client[a].inbox[i].code = 220
      <4>1. p.part = 1
        BY <1>6, <1>19, <3>2
      <4>2. client[a].mode # "closed" /\ ~Linked(a) /\ sessions[a] # 0
        BY <1>4, <2>2 DEF FlowInv, BitInv, ForgetInv
      <4>3. client[a].mode # "data"
        <5>1. ClientOK(a, client[a])
          BY DEF TypeInv, ClientInv
        <5> QED
          BY <1>9, <4>1, <5>1 DEF ClientOK, OnePart, Alive
      <4>4. client[a].mode \in {"open", "failing"}
        <5>1. client[a].mode \in {"closed", "open", "data", "failing", "gone"}
          BY ClientFields DEF ClientType
        <5> QED
          BY <2>2, <4>2, <4>3, <5>1
      <4>5. ASSUME Alive(a)
            PROVE  /\ client[a].awaiting = << 250 >> /\ client[a].part = 1
                   /\ p.n = client[a].n
                   /\ \A i \in DOMAIN client[a].inbox : client[a].inbox[i].code = 220
        <5>1. client[a].part = 1 /\ p.n = client[a].n /\ Waits(a) \in Nat
          BY <1>9, <4>1, <4>5, ClientFields, LenProperties DEF Waits
        <5> QED
          BY <1>4, <4>5, <5>1 DEF FlowInv, TurnInv, AwaitInv
      <4> QED
        BY <4>1, <4>2, <4>4, <4>5 DEF Alive
    <3>3. ASSUME worker'[w].at = "rest" PROVE ~AtServer(a)' /\ ~Owed(a)' /\ ~Linked(a)'
      <4>1. ~Holds(w, a)'
        BY <3>3 DEF Holds, Serving, Forgetting
      <4> QED
        BY <1>7, <1>8, <3>2, <3>3, <4>1 DEF AtServer, Owed
    <3>4. ASSUME worker'[w].at = "rest", client[a].mode = "open" PROVE Doomed(a)'
      <4>1. code = 500
        BY <1>6, <1>19, <3>4
      <4> QED
        BY <1>10, <1>11, <3>2, <3>3, <3>4, <4>1 DEF Doomed
    <3> QED
      BY <1>1, <1>10, <1>19, <3>1, <3>2, <3>3, <3>4 DEF RestInv, Rests
  <2> QED
    BY <2>1, <2>2
<1> QED
  BY <1>11, <1>14, <1>15, <1>16, <1>17, <1>18, <1>20 DEF FlowInv

\* A client whose message is refused is told so again, or was told and has given up.
LEMMA RestFlow ==
  ASSUME TypeInv, NEW w \in Worker, Rest(w), NEW a \in Addr, worker[w].task.addr = a,
         FlowInv(a)
  PROVE  FlowInv(a)'
<1> DEFINE p == worker[w].task
<1>1. /\ worker[w].at = "rest" /\ p \in Packets /\ _send_reply(a, 500, p)
      /\ UNCHANGED <<script, inbound, expected, greeting, sessions, tasks>>
      /\ 500 \in Code
  BY Replies DEF Sends, Rest, At, loopVars, sessionVars, Code
<1>2. /\ \A u \in Worker \ {w} : worker'[u] = worker[u]
      /\ \/ worker'[w].at = "idle"
         \/ worker'[w].at = "rest" /\ worker'[w].task = p
  BY RestFields
<1>3. Rests(w, a)
  BY <1>1 DEF Rests
<1>4. \A u \in Worker : /\ Holds(u, a)' <=> Holds(u, a)
                        /\ Serves(u, a)' <=> Serves(u, a)
                        /\ Holds(u, a) => worker'[u] = worker[u]
                        /\ Rests(u, a)' => Rests(u, a) /\ worker'[u].task = worker[u].task
  BY <1>1, <1>2 DEF Holds, Serves, Rests, Serving, Forgetting
<1>5. /\ AtServer(a)' <=> AtServer(a)
      /\ Owed(a)' <=> Owed(a)
      /\ Linked(a)' <=> Linked(a)
      /\ Greeted(a)' <=> Greeted(a)
  BY <1>1, <1>4 DEF AtServer, Owed, Linked, Greeted
<1>6. /\ client'[a].mode = client[a].mode /\ client'[a].bit = client[a].bit
      /\ client'[a].expects = client[a].expects /\ client'[a].awaiting = client[a].awaiting
      /\ client'[a].part = client[a].part /\ client'[a].n = client[a].n
  BY <1>1, ToldClient
<1>7. /\ client[a].mode \in {"open", "failing", "gone"}
      /\ client[a].mode # "gone" => ~Linked(a) /\ ~AtServer(a) /\ sessions[a] # 0
      /\ client[a].mode = "open" => Doomed(a) /\ p.part = 1 /\ p.n = client[a].n
  BY <1>3 DEF FlowInv, RestInv
<1> HIDE DEF p
<1>8. /\ Alive(a)' <=> Alive(a)
      /\ Alive(a) <=> client[a].mode = "open"
  BY <1>6, <1>7 DEF Alive
<1>9. Alive(a) => p.n = client[a].n /\ p.part = client[a].part
  BY <1>7, <1>8 DEF Doomed
<1>10. /\ ReplyInv(a)' /\ (Alive(a) => AwaitInv(a)') /\ Waits(a)' = Waits(a)
       /\ \A q : Fits(client[a], q) => Fits(client'[a], q)
       /\ \A i \in DOMAIN client'[a].inbox :
            \/ client'[a].inbox[i].code = 500
            \/ \E j \in DOMAIN client[a].inbox : client'[a].inbox[i] = client[a].inbox[j]
  <2>1. script' = script
    BY <1>1
  <2> QED
    BY <1>1, <1>9, <2>1, ToldFlow
<1>11. OneInv(a)'
  BY <1>1, <1>4, <1>5, <1>8 DEF FlowInv, OneInv, Live
<1>12. BitInv(a)'
  BY <1>1, <1>5, <1>6, <1>8, <1>10 DEF FlowInv, BitInv
<1>13. ForgetInv(a)'
  <2>1. client[a].mode # "gone" => sessions[a] # 0 /\ \A u \in Worker : ~Holds(u, a)
    BY <1>7 DEF AtServer
  <2> QED
    BY <1>1, <1>4, <1>5, <1>6, <2>1 DEF FlowInv, ForgetInv
<1>14. Alive(a) => Doomed(a)'
  BY <1>5, <1>6, <1>7, <1>8, <1>10 DEF Doomed
<1>15. TurnInv(a)'
  <2>1. CASE ~Alive(a)
    BY <1>8, <2>1 DEF TurnInv
  <2>2. CASE Alive(a)
    <3>1. ~Owed(a)' /\ ~Linked(a)' /\ ~Greeted(a)' /\ client'[a].awaiting = << 250 >>
      BY <1>14, <2>2 DEF Doomed, Owed
    <3>2. Waits(a)' = 1
      BY <3>1 DEF Waits
    <3> QED
      BY <1>10, <1>14, <2>2, <3>1, <3>2 DEF TurnInv
  <2> QED
    BY <2>1, <2>2
<1>16. FitInv(a)'
  BY <1>1, <1>4, <1>5, <1>10 DEF FlowInv, FitInv
<1>17. RestInv(a)'
  BY <1>1, <1>4, <1>5, <1>6, <1>8, <1>14 DEF FlowInv, RestInv
<1> QED
  BY <1>10, <1>11, <1>12, <1>13, <1>15, <1>16, <1>17 DEF FlowInv


\* The three steps that forget a client behind its QUIT.
LEMMA PopFlow ==
  ASSUME TypeInv, NEW w \in Worker, PopSender(w) \/ PopSession(w) \/ reset_state(w),
         NEW a \in Addr, worker[w].task.addr = a, FlowInv(a)
  PROVE  FlowInv(a)'
<1>1. /\ worker[w].at \in Forgetting
      /\ UNCHANGED <<script, client, inbound, greeting, tasks>>
  BY DEF PopSender, PopSession, reset_state, At, loopVars, Forgetting
<1>2. Moves(w)
  BY WorkerMoves DEF WorkerStep, PopSender, PopSession, reset_state, Take, At
<1>3. Holds(w, a) /\ ~Serves(w, a) /\ AtServer(a)
  BY <1>1 DEF Holds, Serves, Serving, Forgetting, AtServer
<1>4. /\ ~Greeted(a) /\ ~InQueue(tasks, a) /\ Once(tasks, a)
      /\ \A u \in Worker \ {w} : ~Holds(u, a)
  BY <1>3 DEF FlowInv, OneInv
<1>5. /\ ~Greeted(a)' /\ ~InQueue(tasks, a)' /\ ~Serves(w, a)'
      /\ \A u \in Worker \ {w} : ~Holds(u, a)' /\ ~Serves(u, a)'
      /\ Linked(a)' = Linked(a) /\ Alive(a)' = Alive(a)
      /\ Holds(w, a)' => worker'[w].task = worker[w].task
  BY <1>1, <1>2, <1>4 DEF Greeted, Linked, Alive, Moves, Holds, Serves, Serving, Forgetting
<1>6. \/ /\ worker[w].at = "pop_sender" /\ worker'[w].at = "pop_session"
         /\ senders'[a] = NoSender /\ expected'[a] = expected[a] /\ sessions'[a] = sessions[a]
      \/ /\ worker[w].at = "pop_session" /\ worker'[w].at = "reset_state"
         /\ senders'[a] = senders[a] /\ expected'[a] = expected[a] /\ sessions'[a] = 0
      \/ /\ worker[w].at = "reset_state" /\ worker'[w].at = "idle"
         /\ senders'[a] = senders[a] /\ expected'[a] = 0 /\ sessions'[a] = sessions[a]
  <2>1. CASE PopSender(w)
    BY <2>1, GotoFields DEF PopSender, At, Address, sessionVars, TypeInv, LinkInv
  <2>2. CASE PopSession(w)
    BY <2>2, GotoFields DEF PopSession, At, Address, TypeInv, SessionInv
  <2>3. CASE reset_state(w)
    BY <2>3, DoneFields DEF reset_state, At, Address, sessionVars, TypeInv, LinkInv
  <2> QED
    BY <2>1, <2>2, <2>3
<1>7. expected'[a] = expected[a] \/ ~AtServer(a)'
  BY <1>5, <1>6 DEF AtServer, Holds, Serving, Forgetting
<1>8. OneInv(a)'
  BY <1>1, <1>3, <1>4, <1>5, <1>7 DEF FlowInv, OneInv, Live
<1>9. ForgetInv(a)'
  <2>1. /\ worker[w].at \in {"pop_session", "reset_state"} =>
             client[a].mode = "gone" \/ senders[a] = NoSender
        /\ worker[w].at = "reset_state" => sessions[a] = 0
        /\ sessions[a] = 0 =>
             \/ expected[a] = 0 /\ (client[a].mode = "gone" \/ senders[a] = NoSender)
             \/ worker[w].at = "reset_state"
    BY <1>3, <1>4 DEF FlowInv, ForgetInv
  <2>2. worker'[w].at = "reset_state" => Holds(w, a)'
    BY <1>1, <1>2 DEF Moves, Holds, Forgetting
  <2> QED
    BY <1>1, <1>5, <1>6, <2>1, <2>2 DEF ForgetInv
<1>10. BitInv(a)'
  <2>1. sessions'[a] # 0 /\ Alive(a) => sessions[a] # 0 /\ expected'[a] = expected[a]
    BY <1>3, <1>6 DEF FlowInv, ForgetInv
  <2>2. Owed(a)' => Owed(a)
    BY <1>5 DEF Owed
  <2> QED
    BY <1>1, <1>3, <1>5, <1>7, <2>1, <2>2 DEF FlowInv, BitInv, Waits
<1>11. TurnInv(a)'
  <2>1. /\ AwaitInv(a)' = AwaitInv(a) /\ Waits(a)' = Waits(a) /\ Has(a)' = Has(a)
        /\ Drops(a)' = Drops(a)
    BY <1>1 DEF AwaitInv, Waits, Has, Drops
  <2>2. (Owed(a)' => Owed(a)) /\ (Doomed(a) => Doomed(a)')
    BY <1>1, <1>5 DEF Owed, Doomed
  <2> QED
    BY <1>1, <1>5, <2>1, <2>2 DEF FlowInv, TurnInv
<1>12. FitInv(a)'
  BY <1>1, <1>3, <1>5 DEF FlowInv, FitInv, InQueue
<1>13. ReplyInv(a)' /\ RestInv(a)'
  <2>1. ASSUME NEW u \in Worker, Rests(u, a)' PROVE client[a].mode = "gone"
    <3>1. Rests(u, a)
      BY <1>2, <1>6, <2>1 DEF Moves, Rests
    <3> QED
      BY <1>3, <3>1 DEF FlowInv, RestInv
  <2> QED
    BY <1>1, <1>5, <2>1 DEF FlowInv, ReplyInv, RestInv
<1> QED
  BY <1>8, <1>9, <1>10, <1>11, <1>12, <1>13 DEF FlowInv

LEMMA WorkerFlow ==
  ASSUME OnePart, TypeInv, LineInv, NEW w \in Worker, WorkerStep(w), NEW a \in Addr,
         FlowInv(a)
  PROVE  FlowInv(a)'
<1>1. CASE Take(w)
  BY <1>1, TakeFlow
<1>2. CASE ~Take(w) /\ (worker[w].task.addr = a =>
                          worker[w].at \notin Forgetting \union {"reply", "rest"})
  BY <1>2, WorkerMoves, MovesLess, LessFlow
<1>3. CASE worker[w].task.addr = a /\ worker[w].at \in Forgetting \union {"reply", "rest"}
  <2>1. Reply(w) \/ Rest(w) \/ PopSender(w) \/ PopSession(w) \/ reset_state(w)
    BY <1>3 DEF WorkerStep, Take, _process_packet, Extend, Check, Copy, Reset,
                _finalize_message, _handle_command_stream, Clear, At, Forgetting
  <2> QED
    BY <1>3, <2>1, ReplyFlow, RestFlow, PopFlow
<1> QED
  BY <1>1, <1>2, <1>3

LEMMA FlowInit == ASSUME Init, NEW a \in Addr PROVE FlowInv(a)
<1>1. /\ client[a] = NewClient /\ ~Linked(a) /\ ~Greeted(a) /\ tasks = <<>>
      /\ expected[a] = 0 /\ senders[a] = NoSender /\ \A w \in Worker : worker[w].at = "idle"
  BY IdleType DEF Init, Linked, Greeted
<1>2. ~Alive(a) /\ client[a].mode = "closed"
  BY <1>1, NewClientType DEF Alive
<1>3. \A w \in Worker : ~Holds(w, a) /\ ~Serves(w, a) /\ ~Rests(w, a)
  BY <1>1 DEF Holds, Serves, Rests, Serving, Forgetting
<1>4. ~InQueue(tasks, a) /\ Once(tasks, a) /\ DOMAIN tasks = {}
  BY <1>1 DEF InQueue, Once
<1>5. ~AtServer(a) /\ ~Owed(a)
  BY <1>1, <1>3, <1>4 DEF AtServer, Owed
<1> QED
  BY <1>1, <1>2, <1>3, <1>4, <1>5
     DEF FlowInv, OneInv, BitInv, ForgetInv, RestInv, TurnInv, FitInv, ReplyInv

LEMMA FlowStep ==
  ASSUME OnePart, TypeInv, QuitInv, LineInv, [Next]_vars, NEW a \in Addr \ Prompt, FlowInv(a)
  PROVE  FlowInv(a)'
<1>1. CASE Next
  BY <1>1, ClientFlow, RejectLess, LessFlow, ReceiveFlow, GreetFlow, WorkerFlow
     DEF Next, LoopStep
<1>2. CASE UNCHANGED vars
  <2>1. Less(a)
    BY <1>2 DEF vars, loopVars, sessionVars, Less, Linked, Greeted, Holds, Serves, Rests
  <2> QED
    BY <2>1, LessFlow
<1> QED
  BY <1>1, <1>2

\* A worker has lines left only while it refuses them.
LEMMA WorkerLines ==
  ASSUME TypeInv, LineInv, NEW w \in Worker, WorkerStep(w)
  PROVE  /\ \A u \in Worker \ {w} : worker'[u] = worker[u]
         /\ worker'[w].lines > 0 =>
              /\ worker'[w].at \in {"reply", "rest"}
              /\ worker'[w].code = 500 /\ worker'[w].task.part > 0
<1>1. \A u \in Worker \ {w} : worker'[u] = worker[u]
  BY WorkerMoves, TakeFields DEF Moves
<1>2. worker[w].lines \in Nat /\ (worker[w].at \notin {"reply", "rest"} => worker[w].lines = 0)
  <2>1. worker[w].lines \in 0..MaxLines - 1
    BY WorkerFields
  <2> QED
    BY <2>1, NoBits DEF LineInv
<1> SUFFICES ASSUME worker'[w].lines > 0
             PROVE  /\ worker'[w].at \in {"reply", "rest"}
                    /\ worker'[w].code = 500 /\ worker'[w].task.part > 0
  BY <1>1
<1>3. worker'[w].lines # 0
  OBVIOUS
<1>4. CASE Take(w) \/ Copy(w)
  BY <1>2, <1>3, <1>4, TakeFields, CopyFields
<1>5. CASE _process_packet(w)
  BY <1>2, <1>3, <1>5, ProcessFields
<1>6. CASE Extend(w) \/ Check(w) \/ Reset(w) \/ Clear(w) \/ PopSender(w) \/ PopSession(w)
           \/ reset_state(w)
  <2>1. worker[w].lines = 0 /\ (Done(w) \/ \E label : Goto(w, label))
    BY <1>2, <1>6 DEF Extend, Check, Reset, Clear, PopSender, PopSession, reset_state, At
  <2>2. CASE Done(w)
    BY <1>3, <2>2, DoneFields
  <2>3. ASSUME NEW label, Goto(w, label) PROVE FALSE
    BY <1>3, <2>1, <2>3, GotoFields
  <2> QED
    BY <2>1, <2>2, <2>3
<1>7. CASE _finalize_message(w)
  <2>1. worker[w].lines = 0 /\ \E code : Answer(w, code)
    BY <1>2, <1>7 DEF _finalize_message, At
  <2> QED
    BY <1>3, <2>1, AnswerFields
<1>8. CASE _handle_command_stream(w)
  <2>1. worker[w].lines = 0
    BY <1>2, <1>8 DEF _handle_command_stream, At
  <2>2. \/ Done(w) \/ \E code : Answer(w, code)
        \/ Refuse(w) /\ worker[w].task.part > 0
    BY <1>8, CommandCases
  <2>3. CASE Refuse(w) /\ worker[w].task.part > 0
    BY <2>3, RefuseKeeps
  <2> QED
    BY <1>3, <2>1, <2>2, <2>3, AnswerFields, DoneFields
<1>9. CASE Reply(w)
  <2>1. worker[w].lines > 0 => worker[w].code = 500 /\ worker[w].task.part > 0
    BY DEF LineInv
  <2>2. \/ Done(w)
        \/ worker[w].code # 500 /\ \E label : Goto(w, label)
        \/ Goto(w, "rest") /\ worker[w].lines > 0
    BY <1>9 DEF Reply
  <2>3. CASE worker[w].code # 500 /\ \E label : Goto(w, label)
    BY <1>2, <1>3, <2>1, <2>3, GotoFields
  <2>4. CASE Goto(w, "rest") /\ worker[w].lines > 0
    BY <2>1, <2>4, GotoFields
  <2> QED
    BY <1>3, <2>2, <2>3, <2>4, DoneFields
<1>10. CASE Rest(w)
  <2>1. worker[w].lines > 0
    BY <1>10, WorkerFields DEF Rest
  <2> QED
    BY <1>3, <1>10, <2>1, RestFields DEF LineInv
<1> QED
  BY <1>4, <1>5, <1>6, <1>7, <1>8, <1>9, <1>10 DEF WorkerStep

LEMMA LineStep == ASSUME TypeInv, LineInv, [Next]_vars PROVE LineInv'
<1>1. CASE worker' = worker
  BY <1>1 DEF LineInv
<1>2. CASE \E w \in Worker : WorkerStep(w)
  BY <1>2, WorkerLines DEF LineInv
<1>3. CASE Greet \/ \E a \in Addr : LoopStep(a)
  BY <1>1, <1>3 DEF Greet, LoopStep, Reject, Receive
<1>4. CASE \E a \in Addr : ClientStep(a)
  BY <1>1, <1>4, OtherClient
<1> QED
  BY <1>1, <1>2, <1>3, <1>4 DEF Next, vars

LEMMA QuitStep == ASSUME TypeInv, QuitInv, [Next]_vars PROVE QuitInv'
<1>1. CASE \E w \in Worker : WorkerStep(w)
  BY <1>1, PoolStep
<1>2. CASE worker' = worker
  BY <1>2 DEF QuitInv
<1>3. CASE Greet \/ \E a \in Addr : LoopStep(a)
  BY <1>2, <1>3 DEF Greet, LoopStep, Reject, Receive
<1>4. CASE \E a \in Addr : ClientStep(a)
  BY <1>2, <1>4, OtherClient
<1> QED
  BY <1>1, <1>2, <1>3, <1>4 DEF Next, vars

\* What the receiver and the pool owe to the clients that are patient.
AllFlow == QuitInv /\ LineInv /\ \A a \in Addr \ Prompt : FlowInv(a)

LEMMA FlowCorrect == OnePart => (Spec => [](TypeInv /\ AllFlow))
<1> SUFFICES ASSUME OnePart PROVE Spec => [](TypeInv /\ AllFlow)
  OBVIOUS
<1>1. Init => TypeInv /\ AllFlow
  <2>1. Init => LineInv
    BY IdleType DEF Init, Idle, LineInv
  <2> QED
    BY <2>1, TypeInit, StepInit, FlowInit DEF AllFlow, StepInv
<1>2. TypeInv /\ AllFlow /\ [Next]_vars => (TypeInv /\ AllFlow)'
  BY TypeStep, QuitStep, LineStep, FlowStep DEF AllFlow
<1> QED
  BY <1>1, <1>2, PTL DEF Spec

\* A client that comes back only when it is forgotten, and that gives up on a message whose
\* lines are refused, reads no reply but the answers to the packet it sent last, and none when
\* it waits for none.
OwnReplies ==
  \A a \in Addr \ Prompt : Alive(a) =>
    /\ client[a].awaiting = <<>> => client[a].inbox = <<>>
    /\ \A i \in DOMAIN client[a].inbox :
         client[a].inbox[i].n = client[a].n /\ client[a].inbox[i].part = client[a].part

\* A client that sends short messages is never left with the answer to an earlier packet:
\* each command's _get_reply() starts from an empty queue, also for clients whose sends give up
\* or whose sessions the reaper takes.  A session that is made anew behind a DATA command
\* answers every line of the message with 500, however many there are: the client gives up on
\* the first, and says nothing after that but QUIT, whose answer it does not wait for.
THEOREM RepliesAreOwn == OnePart => (Spec => []OwnReplies)
<1>1. ASSUME TypeInv, AllFlow, NEW a \in Addr \ Prompt, Alive(a)
      PROVE  /\ client[a].awaiting = <<>> => client[a].inbox = <<>>
             /\ \A i \in DOMAIN client[a].inbox :
                  client[a].inbox[i].n = client[a].n /\ client[a].inbox[i].part = client[a].part
  <2>1. client[a].inbox \in Seq(ReplyType)
    BY <1>1, ClientFields
  <2>2. client[a].awaiting = <<>> => Waits(a) = 0
    BY DEF Waits
  <2>3. client[a].awaiting = <<>> => client[a].inbox = <<>>
    <3>1. Waits(a) = 0 => Has(a) = 0
      BY <1>1 DEF AllFlow, FlowInv, TurnInv
    <3>2. Has(a) = 0 => client[a].inbox = <<>>
      BY <2>1, EmptySeq DEF Has
    <3> QED
      BY <2>2, <3>1, <3>2
  <2> QED
    BY <1>1, <2>3 DEF AllFlow, FlowInv, ReplyInv
<1>2. TypeInv /\ AllFlow => OwnReplies
  BY <1>1 DEF OwnReplies
<1> QED
  BY <1>2, FlowCorrect, PTL

\* A client reconnects only when the server has forgotten it.
AllPatient == Prompt = {}

\* The reply that _get_reply() takes for the code it waits for is the answer to the client's
\* last packet, whichever sends give up and whichever sessions the reaper takes: the greeting
\* of a session made anew has the wrong bit for a client that waits for one reply, or is not
\* the reply it waits for, and the refusals of a message's lines are read by a client that
\* gives up on the first one.  (No line of the message begins with the name of a command.)
THEOREM RepliesMatch == OnePart /\ AllPatient => (Spec => ReplyMatches)
<1> SUFFICES ASSUME OnePart, AllPatient PROVE Spec => ReplyMatches
  OBVIOUS
<1>1. TypeInv /\ AllFlow =>
        [\A a \in Addr :
           LET c == client[a]
               taken == /\ Awaits(a) /\ c.inbox # <<>>
                        /\ client'[a].inbox = Tail(c.inbox) /\ client'[a].expects # c.expects
           IN taken /\ Head(c.inbox).code = Head(c.awaiting)
                => Head(c.inbox).n = c.n /\ Head(c.inbox).part = c.part]_vars
  <2> SUFFICES ASSUME TypeInv, AllFlow, NEW a \in Addr, Awaits(a), client[a].inbox # <<>>
               PROVE  /\ Head(client[a].inbox).n = client[a].n
                      /\ Head(client[a].inbox).part = client[a].part
    OBVIOUS
  <2>1. client[a].inbox \in Seq(ReplyType)
    BY ClientFields
  <2>2. 1 \in DOMAIN client[a].inbox /\ Head(client[a].inbox) = client[a].inbox[1]
    BY <2>1, TailCodes
  <2> QED
    BY <2>2 DEF AllFlow, FlowInv, ReplyInv, AllPatient, Awaits
<1> QED
  BY <1>1, FlowCorrect, PTL DEF Spec, ReplyMatches

-----------------------------------------------------------------------------
(* Messages: the steps that are not about client a                         *)

\* A step that changes nothing of client a but the recipients of its session, or takes a
\* packet from its link that the receiver drops.
Same(a) ==
  /\ Less(a) /\ (InQueue(tasks, a) => InQueue(tasks', a)) /\ (Greeted(a) => Greeted(a)')
  /\ Reading(a)' <=> Reading(a)
  /\ sessions[a] # 0 => Buffer(a)' = Buffer(a)
  /\ \A w \in Worker : Holds(w, a) => worker'[w] = worker[w]

LEMMA SameServes ==
  ASSUME NEW a, Same(a)
  PROVE  \A w \in Worker : /\ Serves(w, a)' <=> Serves(w, a)
                           /\ Holds(w, a)' <=> Holds(w, a)
                           /\ Serves(w, a) => worker'[w] = worker[w]
BY DEF Same, Less, Serves, Holds

LEMMA SameStream == ASSUME NEW a, Same(a), StreamInv(a) PROVE StreamInv(a)'
<1>1. \A w \in Worker : /\ Serves(w, a)' <=> Serves(w, a)
                        /\ Holds(w, a)' <=> Holds(w, a)
                        /\ Holds(w, a) => worker'[w] = worker[w]
                        /\ Serves(w, a) => worker'[w] = worker[w]
  BY SameServes DEF Same
<1>2. /\ client'[a] = client[a] /\ sessions'[a] = sessions[a] /\ (Alive(a)' <=> Alive(a))
      /\ Linked(a)' => Linked(a) /\ inbound'[a] = inbound[a]
      /\ Linked(a) /\ ~Linked(a)' => ~Alive(a) \/ sessions[a] = 0
      /\ Greeted(a)' => Greeted(a)
      /\ InQueue(tasks', a) <=> InQueue(tasks, a)
      /\ \A i \in DOMAIN tasks' :
           tasks'[i].addr = a => \E j \in DOMAIN tasks : tasks[j] = tasks'[i]
      /\ Reading(a)' <=> Reading(a)
      /\ sessions[a] # 0 => Buffer(a)' = Buffer(a)
  BY DEF Same, Less, Alive
<1>3. SidInv(a)'
  BY <1>1, <1>2 DEF StreamInv, SidInv
<1>4. Waiting(a) => Waiting(a)'
  BY <1>1, <1>2 DEF Waiting
<1>5. Mailing(a) /\ sessions[a] # 0 => Mailing(a)'
  BY <1>1, <1>2 DEF Mailing
<1>6. \A p : Final(a, p) => Final(a, p)'
  BY <1>2 DEF Final
<1>7. Lost(a) => Lost(a)'
  BY <1>1, <1>2, <1>6 DEF Lost
<1>8. ReadingInv(a)'
  <2>1. Reading(a) => sessions[a] # 0
    BY DEF Reading
  <2> QED
    BY <1>2, <1>4, <1>5, <1>7, <2>1 DEF StreamInv, ReadingInv
<1>9. \A w \in Worker : Serves(w, a) /\ worker[w].at # "process" => sessions[a] # 0
  BY DEF StreamInv, SidInv
<1>10. Spent(a) => Spent(a)'
  BY <1>1, <1>2 DEF Spent, AtServer
<1>11. BufInv(a)'
  BY <1>1, <1>2, <1>6, <1>9, <1>10 DEF StreamInv, BufInv
<1> QED
  BY <1>3, <1>8, <1>11 DEF StreamInv

LEMMA AppendKeeps ==
  ASSUME NEW q \in Seq(Packets), NEW p \in Packets, NEW a, InQueue(q, a)
  PROVE  InQueue(Append(q, p), a)
<1>1. PICK i \in DOMAIN q : q[i].addr = a
  BY DEF InQueue
<1>2. /\ Append(q, p) \in Seq(Packets) /\ Len(Append(q, p)) = Len(q) + 1
      /\ Len(q) \in Nat /\ DOMAIN q = 1..Len(q)
      /\ \A j \in 1..Len(q) : Append(q, p)[j] = q[j]
  BY AppendProperties, LenProperties
<1>3. DOMAIN Append(q, p) = 1..(Len(q) + 1)
  BY <1>2, LenProperties
<1> QED
  BY <1>1, <1>2, <1>3 DEF InQueue

\* A handler writes to the session of its own client.
LEMMA OtherSession ==
  ASSUME TypeInv, NEW w \in Worker, WorkerStep(w), NEW a \in Addr, worker[w].task.addr # a
  PROVE  session'[a] = session[a]
<1>1. session' = session \/ \E s : SetSession(w, s)
  BY DEF WorkerStep, Take, _process_packet, Extend, Check, Copy, Reset, _finalize_message,
         _handle_command_stream, Reply, Rest, Clear, PopSender, PopSession, reset_state,
         sessionVars
<1>2. session \in [Addr -> Seq(SessionType)]
  BY DEF TypeInv, SessionInv
<1> QED
  BY <1>1, <1>2 DEF SetSession, Address

LEMMA OtherWorker ==
  ASSUME TypeInv, NEW w \in Worker, WorkerStep(w), Moves(w),
         NEW a \in Addr, worker[w].task.addr # a
  PROVE  Same(a)
<1>1. Less(a)
  BY MovesLess
<1>2. session'[a] = session[a] /\ sessions'[a] = sessions[a]
  BY <1>1, OtherSession DEF Less
<1>3. \A u \in Worker : Holds(u, a) => worker'[u] = worker[u]
  BY DEF Holds, Moves
<1>4. Greeted(a)' <=> Greeted(a)
  BY StepKeepsBits DEF Greeted
<1> QED
  BY <1>1, <1>2, <1>3, <1>4 DEF Same, Moves, Reading, Buffer

LEMMA OtherTake ==
  ASSUME TypeInv, NEW w \in Worker, Take(w), NEW a \in Addr, Head(tasks).addr # a
  PROVE  Same(a)
<1>1. /\ tasks # <<>> /\ tasks' = Tail(tasks) /\ worker[w].at = "idle"
      /\ \A u \in Worker \ {w} : worker'[u] = worker[u]
      /\ UNCHANGED <<sessions, session, greeting>>
  BY TakeFields DEF WorkerOnly, loopVars
<1>2. InQueue(tasks, a) => InQueue(tasks', a)
  <2>1. tasks \in Seq(Packets)
    BY DEF TypeInv, PoolInv
  <2>2. InQueue(tasks, a) => InQueue(Tail(tasks), a)
    BY <1>1, <2>1, TailQueue
  <2> QED
    BY <1>1, <2>2
<1>3. \A u \in Worker : Holds(u, a) => worker'[u] = worker[u]
  BY <1>1 DEF Holds, Serving, Forgetting
<1> QED
  BY <1>1, <1>2, <1>3, TakeOther DEF Same, Greeted, Reading, Buffer

LEMMA OtherClientSame ==
  ASSUME TypeInv, NEW b \in Addr, ClientStep(b), NEW a \in Addr, a # b
  PROVE  Same(a)
<1>1. UNCHANGED <<tasks, worker, sessions, greeting>>
  BY OtherClient
<1>2. session' = session
  BY DEF ClientStep, _connect, _send_command, _send_data, Abandon, _get_reply, ClientGivesUp,
         Send, sessionVars
<1> QED
  BY <1>1, <1>2, ClientLess DEF Same, Greeted, Reading, Buffer

LEMMA RejectSame ==
  ASSUME TypeInv, NEW b \in Addr, Reject(b), NEW a \in Addr, FlowInv(a)
  PROVE  Same(a)
<1>1. UNCHANGED <<sessions, session, tasks, worker, greeting>>
  BY DEF Reject, sessionVars
<1> QED
  BY <1>1, RejectLess DEF Same, Greeted, Reading, Buffer

LEMMA OtherReceive ==
  ASSUME TypeInv, NEW b \in Addr, Receive(b), NEW a \in Addr, a # b
  PROVE  Same(a) \/ Reaped(a)
<1>1. /\ inbound[b] \in Packets /\ worker' = worker /\ session'[a] = session[a]
      /\ greeting = NoPacket
      /\ tasks' = tasks \/ tasks' = Append(tasks, inbound[b])
  BY ReceiveFields
<1>2. InQueue(tasks, a) => InQueue(tasks', a)
  <2>1. tasks \in Seq(Packets)
    BY DEF TypeInv, PoolInv
  <2>2. InQueue(tasks, a) => InQueue(Append(tasks, inbound[b]), a)
    BY <1>1, <2>1, AppendKeeps
  <2> QED
    BY <1>1, <2>2
<1>3. CASE Less(a)
  BY <1>1, <1>2, <1>3 DEF Same, Less, Greeted, Reading, Buffer
<1> QED
  BY <1>3, ReceiveOther

LEMMA ReapedStream == ASSUME NEW a, Reaped(a) PROVE StreamInv(a)'
BY DEF Reaped, StreamInv, SidInv, ReadingInv, BufInv, Reading

LEMMA OtherGreet ==
  ASSUME TypeInv, Greet, NEW a \in Addr, greeting.addr # a
  PROVE  Same(a)
<1>1. /\ greeting # NoPacket /\ tasks' = Append(tasks, greeting)
      /\ UNCHANGED <<sessions, session, worker>>
  BY DEF Greet, sessionVars
<1>2. greeting \in Packets /\ tasks \in Seq(Packets)
  BY <1>1 DEF TypeInv, LinkInv, PoolInv
<1>3. InQueue(tasks, a) => InQueue(tasks', a)
  BY <1>1, <1>2, AppendKeeps
<1> QED
  BY <1>1, <1>3, GreetOther DEF Same, Greeted, Reading, Buffer

-----------------------------------------------------------------------------
(* Messages: the client's steps, and the serve loop's                      *)

\* A client that is owed an answer waits for one.
LEMMA OwedWaits ==
  ASSUME NEW a, FlowInv(a), Owed(a), Alive(a)
  PROVE  client[a].awaiting # <<>>
BY DEF FlowInv, TurnInv, Waits

\* The stream at the server stays as it is when only the client moves.
LEMMA QuietStream ==
  ASSUME NEW a, StreamInv(a), UNCHANGED <<tasks, worker, greeting, sessions, session>>,
         Reading(a) => Waiting(a)' \/ Mailing(a)' \/ Lost(a)',
         \A w \in Worker : Serves(w, a) /\ worker[w].at \in {"extend", "check"} =>
                             Final(a, worker[w].task)',
         Spent(a) => Spent(a)'
  PROVE  StreamInv(a)'
<1>1. Reading(a)' = Reading(a) /\ Buffer(a)' = Buffer(a)
  BY DEF Reading, Buffer
<1>2. \A w \in Worker : Serves(w, a)' = Serves(w, a)
  BY DEF Serves
<1>3. SidInv(a)' /\ ReadingInv(a)'
  BY <1>1, <1>2 DEF StreamInv, SidInv, ReadingInv
<1>4. BufInv(a)'
  BY <1>1, <1>2 DEF StreamInv, BufInv
<1> QED
  BY <1>3, <1>4 DEF StreamInv

\* A client that is between two replies and two sends is not in the middle of a message.
LEMMA ReadyNotReading ==
  ASSUME TypeInv, QuitInv, NEW a \in Addr, FlowInv(a), StreamInv(a), Ready(a),
         client[a].mode = "open"
  PROVE  ~Reading(a)
<1>1. Quiet(a) /\ client[a].awaiting = <<>> /\ Alive(a)
  BY ReadyQuiet DEF Ready, Alive
<1>2. ~Waiting(a)
  BY <1>1 DEF Waiting
<1>3. ~Mailing(a)
  BY <1>1 DEF Mailing, Quiet, Serves, Holds
<1> QED
  BY <1>2, <1>3 DEF StreamInv, ReadingInv, Lost

\* The replies to DATA that a client still has, when it drops one.
LEMMA DropsWaiting ==
  ASSUME TypeInv, NEW a \in Addr, Waiting(a), client[a].inbox # <<>>,
         UNCHANGED <<inbound, greeting, tasks, worker>>,
         client'[a].inbox = Tail(client[a].inbox), client'[a].awaiting = client[a].awaiting,
         client'[a].mode = client[a].mode, client'[a].expects = client[a].expects
  PROVE  Waiting(a)'
<1>1. client[a].inbox \in Seq(ReplyType)
  BY ClientFields
<1>2. \A i \in DOMAIN Tail(client[a].inbox) :
        i + 1 \in DOMAIN client[a].inbox
        /\ Tail(client[a].inbox)[i] = client[a].inbox[i + 1]
  BY <1>1, TailCodes
<1>3. \A i \in DOMAIN client'[a].inbox :
        \/ client'[a].inbox[i].code = 354
        \/ client'[a].inbox[i].bit # client'[a].expects
  BY <1>2 DEF Waiting
<1>4. Alive(a)' /\ client'[a].awaiting = client[a].awaiting
  BY DEF Waiting, Alive
<1> QED
  BY <1>3, <1>4 DEF Waiting, Linked, Greeted, Holds

LEMMA GetReplyStream ==
  ASSUME TypeInv, QuitInv, NEW a \in Addr, FlowInv(a), StreamInv(a), _get_reply(a), Reading(a)
  PROVE  Waiting(a)' \/ Mailing(a)'
<1> DEFINE c == client[a]
           d == client'[a]
<1>1. /\ c.awaiting # <<>> /\ c.inbox # <<>> /\ Alive(a) /\ ~Linked(a)
      /\ UNCHANGED <<inbound, greeting, tasks, worker>> /\ d.part = c.part
  BY ReplyCases DEF Linked, loopVars
<1>2. c.inbox \in Seq(ReplyType) /\ c \in ClientType
  BY ClientFields
<1>3. \/ /\ Drops(a) /\ d.inbox = Tail(c.inbox)
         /\ d.awaiting = c.awaiting /\ d.mode = c.mode /\ d.expects = c.expects
      \/ ~Drops(a) /\ Takes(c, d, Head(c.inbox).code)
      \/ ~Drops(a) /\ Head(c.inbox).code # Head(c.awaiting)
  BY ReplyLists
<1>4. CASE Waiting(a)
  <2>1. Head(c.awaiting) = 354 /\ Tail(c.awaiting) = <<>>
    BY <1>4 DEF Waiting
  <2>2. ~Drops(a) => Head(c.inbox).code = 354
    BY <1>1, <1>2, <1>4, TailCodes DEF Waiting, Drops
  <2>3. CASE Drops(a)
    BY <1>1, <1>3, <1>4, <2>3, DropsWaiting
  <2>4. CASE ~Drops(a)
    <3>1. Takes(c, d, 354)
      BY <1>3, <2>1, <2>2, <2>4
    <3> HIDE DEF c, d
    <3>2. d.mode = "data" /\ d.awaiting = <<>>
      BY <2>1, <3>1 DEF Takes
    <3> QED
      BY <3>2 DEF Mailing, d
  <2> QED
    BY <2>3, <2>4
<1>5. CASE Mailing(a)
  <2>1. /\ c.part = 1
        /\ \/ InQueue(tasks, a) \/ \E w \in Worker : Serves(w, a) /\ worker[w].at \in Streaming
    BY <1>1, <1>5 DEF Mailing
  <2>2. Owed(a)
    BY <2>1 DEF Owed
  <2>3. Drops(a)
    <3>1. Waits(a) # 2
      BY <1>1, <2>1 DEF FlowInv, TurnInv, AwaitInv
    <3> QED
      BY <2>2, <3>1, ReplyTaken
  <2>4. d.mode = c.mode
    BY <1>3, <2>3
  <2>5. Alive(a)' /\ client'[a].part = 1
    BY <1>1, <2>1, <2>4 DEF Alive
  <2>6. InQueue(tasks', a) \/ \E w \in Worker : Serves(w, a)' /\ worker'[w].at \in Streaming
    BY <1>1, <2>1 DEF Serves
  <2> QED
    BY <2>5, <2>6 DEF Mailing
<1> QED
  BY <1>1, <1>4, <1>5 DEF StreamInv, ReadingInv, Lost, Alive

\* A send that gives up in the middle of a message leaves at most its last packet.
LEMMA GivesUpStream ==
  ASSUME TypeInv, NEW a \in Addr, FlowInv(a), StreamInv(a), ClientGivesUp(a), Reading(a)
  PROVE  Lost(a)'
<1>1. /\ Linked(a) /\ UNCHANGED <<greeting, tasks, worker>>
      /\ inbound'[a] = inbound[a] \/ ~Linked(a)'
  BY DEF ClientGivesUp, Linked, TypeInv, LinkInv
<1>2. \A w \in Worker : Holds(w, a)' = Holds(w, a)
  BY <1>1 DEF Holds
<1>3. CASE ~Alive(a)
  <2>1. client' = client /\ Lost(a) /\ ~Linked(a)'
    BY <1>1, <1>3 DEF ClientGivesUp, StreamInv, ReadingInv, Waiting, Mailing, Alive, Linked,
                      TypeInv, LinkInv, ClientInv
  <2>2. \A p : Final(a, p) => Final(a, p)'
    BY <2>1 DEF Final
  <2> QED
    BY <1>1, <1>2, <2>1, <2>2 DEF Lost, Greeted
<1>4. CASE Alive(a)
  <2>1. ~AtServer(a) /\ Owed(a)
    BY <1>1, <1>4 DEF FlowInv, OneInv, Owed
  <2>2. client[a].part = 1
    BY <1>1, <1>4, <2>1, OwedWaits
       DEF StreamInv, ReadingInv, Waiting, Mailing, Lost, Alive
  <2>3. inbound[a].part = 1
    BY <1>1, <1>4, <2>2 DEF FlowInv, FitInv, Fits, Alive
  <2>4. client'[a].mode \in {"failing", "gone"}
    <3> DEFINE c == Failed(client[a])
               d == [c EXCEPT !.bit = inbound[a].bit]
    <3>1. client' = [client EXCEPT ![a] = d]
      BY <1>4 DEF ClientGivesUp
    <3>2. client[a] \in ClientType
      BY ClientFields
    <3>3. c.mode \in {"failing", "gone"} /\ c \in ClientType
      BY <3>2, FailedFields, FailedType
    <3> HIDE DEF c
    <3>4. d.mode = c.mode
      BY <3>3 DEF ClientType
    <3> HIDE DEF d
    <3> QED
      BY <3>1, <3>3, <3>4 DEF TypeInv, ClientInv
  <2>5. /\ ~Greeted(a)' /\ ~InQueue(tasks', a) /\ \A w \in Worker : ~Holds(w, a)'
    BY <1>1, <1>2, <2>1 DEF AtServer, Greeted
  <2>6. Linked(a)' => inbound'[a].part = 1
    BY <1>1, <2>3
  <2> QED
    BY <2>4, <2>5, <2>6 DEF Lost, InQueue
<1> QED
  BY <1>3, <1>4

\* A client that is gone stays so, and sends nothing more.
LEMMA GoneStays ==
  ASSUME TypeInv, NEW a \in Addr, ClientStep(a), client[a].mode = "gone"
  PROVE  /\ client'[a].mode = "gone" /\ (Linked(a)' => Linked(a))
         /\ \A p : Final(a, p) => Final(a, p)'
<1>1. ClientGivesUp(a)
  BY DEF ClientStep, _connect, _send_command, _send_data, Abandon, _get_reply, Awaits, Alive
<1>2. client' = client /\ (Linked(a)' => Linked(a))
  BY <1>1 DEF ClientGivesUp, Alive, TypeInv, LinkInv, ClientInv, Linked
<1> QED
  BY <1>2 DEF Final

\* What is at the end of a message stays the last of its client.
LEMMA FinalStays ==
  ASSUME TypeInv, NEW a \in Addr, ClientStep(a), NEW p, Final(a, p)
  PROVE  Final(a, p)'
BY GoneStays DEF Final

\* The packet that a short message is sent in.
LEMMA MessagePacket ==
  ASSUME OnePart, TypeInv, NEW a \in Addr, NEW last \in BOOLEAN
  PROVE  LET p == PacketOf(a, client[a].n, 1, "chunk", Nobody, last)
         IN p \in Packets /\ p.part = 1
<1>1. Nobody \in STRING /\ 1 \in 0..MaxChunks
  <2>1. Nobody \in STRING
    BY SmtpAssumption
  <2>2. 1 \in 0..MaxChunks
    BY DEF OnePart
  <2> QED
    BY <2>1, <2>2
<1>2. client[a].n \in Nat /\ client[a].bit \in {0, 1}
  BY BitType, ClientFields
<1> DEFINE p == PacketOf(a, client[a].n, 1, "chunk", Nobody, last)
<1>3. p = [addr |-> a, n |-> client[a].n, part |-> 1, verb |-> "chunk", rcpt |-> Nobody,
           last |-> last, bit |-> client[a].bit]
  BY DEF PacketOf
<1>4. p.part = 1
  BY <1>3
<1>5. p \in Packets
  BY <1>1, <1>2, <1>3 DEF Packets
<1> QED
  BY <1>4, <1>5

LEMMA ClientStream ==
  ASSUME OnePart, TypeInv, QuitInv, NEW a \in Addr \ Prompt, ClientStep(a),
         FlowInv(a), StreamInv(a)
  PROVE  StreamInv(a)'
<1>1. UNCHANGED <<tasks, worker, greeting, sessions, session>>
  BY DEF ClientStep, _connect, _send_command, _send_data, Abandon, _get_reply, ClientGivesUp,
         Send, sessionVars, loopVars
<1>2. \A w \in Worker : Serves(w, a) /\ worker[w].at \in {"extend", "check"} =>
                          Final(a, worker[w].task)'
  BY <1>1, FinalStays DEF StreamInv, BufInv
<1>3. Spent(a) => Spent(a)'
  BY <1>1, GoneStays DEF Spent, AtServer, Greeted, Holds
<1>4. ASSUME Reading(a) PROVE Waiting(a)' \/ Mailing(a)' \/ Lost(a)'
  <2>1. ~_connect(a)
    BY <1>4 DEF _connect, Forgotten, Reading
  <2>2. ~_send_command(a)
    BY <1>4, ReadyNotReading DEF _send_command
  <2>3. CASE Abandon(a)
    <3>1. client[a].mode = "failing" /\ Lost(a)
      BY <1>4, <2>3 DEF Abandon, StreamInv, ReadingInv, Waiting, Mailing, Alive
    <3>2. /\ client'[a].mode = "gone" /\ ~Greeted(a)'
      <4> DEFINE p == PacketOf(a, client[a].n + 1, 0, "QUIT", Nobody, FALSE)
                 c == [client[a] EXCEPT !.mode = "gone"]
      <4>1. client[a] \in ClientType
        BY ClientFields
      <4>2. client' = [client EXCEPT ![a] = [c EXCEPT !.n = p.n, !.part = p.part,
                                                      !.bit = 1 - p.bit]]
        BY <2>3 DEF Abandon, Send
      <4> HIDE DEF p
      <4>3. client'[a].mode = "gone"
        BY <4>1, <4>2 DEF ClientType, TypeInv, ClientInv
      <4> QED
        BY <1>1, <3>1, <4>3 DEF Lost, Greeted
    <3>3. \A p : Final(a, p) => Final(a, p)'
      BY <3>1 DEF Final
    <3> QED
      BY <1>1, <3>1, <3>2, <3>3 DEF Lost, Holds
  <2>4. CASE _send_data(a)
    <3>1. client[a].mode = "data" /\ client[a].part + 1 = 1
      <4>1. client[a].mode = "data"
        BY <2>4 DEF _send_data
      <4>2. client[a].part \in 0..MaxChunks /\ client[a].part < MaxChunks
        BY <4>1, ClientFields DEF ClientOK
      <4> QED
        BY <4>1, <4>2 DEF OnePart
    <3>2. PICK last \in BOOLEAN :
            Send(a, PacketOf(a, client[a].n, 1, "chunk", Nobody, last),
                 IF last THEN [client[a] EXCEPT !.mode = "open", !.awaiting = << 250 >>]
                         ELSE client[a])
      BY <2>4, <3>1 DEF _send_data
    <3> DEFINE p == PacketOf(a, client[a].n, 1, "chunk", Nobody, last)
               codes == << 250 >>
               c == IF last THEN [client[a] EXCEPT !.mode = "open", !.awaiting = codes]
                            ELSE client[a]
    <3>3. p \in Packets /\ p.part = 1
      BY MessagePacket
    <3>4. codes \in Seq(Code) /\ client[a] \in ClientType
      BY ClientFields DEF Code
    <3>5. Send(a, p, c)
      BY <3>2
    <3> HIDE DEF codes, p
    <3>6. c \in ClientType /\ c.mode \in {"open", "data"}
      BY <3>1, <3>4 DEF ClientType
    <3> HIDE DEF c
    <3>7. Linked(a)' /\ Alive(a)' /\ client'[a].part = 1
      BY <3>3, <3>5, <3>6, SendFields DEF Linked, Alive
    <3> QED
      BY <3>7 DEF Mailing
  <2>5. CASE _get_reply(a)
    BY <1>4, <2>5, GetReplyStream
  <2>6. CASE ClientGivesUp(a)
    BY <1>4, <2>6, GivesUpStream
  <2> QED
    BY <2>1, <2>2, <2>3, <2>4, <2>5, <2>6 DEF ClientStep
<1> QED
  BY <1>1, <1>2, <1>3, <1>4, QuietStream

LEMMA ReceiveStream ==
  ASSUME TypeInv, NEW a \in Addr, Receive(a), FlowInv(a), StreamInv(a)
  PROVE  StreamInv(a)'
<1> DEFINE p == inbound[a]
<1>1. /\ p \in Packets /\ p.addr = a /\ UNCHANGED <<script, client, worker>>
      /\ Live(a) /\ Linked(a) /\ ~Linked(a)' /\ tasks \in Seq(Packets)
      /\ \/ /\ sessions[a] # 0 /\ sessions'[a] = sessions[a] /\ session' = session
            /\ greeting' = NoPacket /\ tasks' = Append(tasks, p)
         \/ /\ sessions[a] = 0 /\ sessions'[a] = Len(session[a]) + 1
            /\ session'[a] = Append(session[a], _create_session)
  BY ReceiveFields DEF TypeInv, PoolInv, Live
<1>2. ~AtServer(a) /\ Owed(a)
  BY <1>1 DEF FlowInv, OneInv, Owed
<1>3. /\ ~InQueue(tasks, a)
      /\ \A w \in Worker : ~Holds(w, a) /\ ~Serves(w, a) /\ ~Holds(w, a)' /\ ~Serves(w, a)'
  BY <1>1, <1>2 DEF AtServer, Holds, Serves
<1>4. SidInv(a)'
  BY <1>3 DEF SidInv
<1> HIDE DEF p
<1>5. CASE /\ sessions[a] # 0 /\ sessions'[a] = sessions[a] /\ session' = session
           /\ greeting' = NoPacket /\ tasks' = Append(tasks, p)
  <2>1. Reading(a)' = Reading(a) /\ Buffer(a)' = Buffer(a)
    BY <1>5 DEF Reading, Buffer
  <2>2. InQueue(tasks', a) /\ ~Greeted(a)'
    BY <1>1, <1>5, AppendQueue DEF Greeted
  <2>3. \A i \in DOMAIN tasks' : tasks'[i].addr = a => tasks'[i] = p
    <3>1. \A i \in DOMAIN Append(tasks, p) :
            Append(tasks, p)[i] = p \/ \E j \in DOMAIN tasks : tasks[j] = Append(tasks, p)[i]
      BY <1>1, AppendQueue
    <3> QED
      BY <1>3, <1>5, <3>1 DEF InQueue
  <2>4. ASSUME Mailing(a) PROVE Mailing(a)'
    <3>1. Alive(a) /\ client[a].part = 1
      BY <1>2, <2>4, OwedWaits DEF Mailing, Alive
    <3> QED
      BY <1>1, <2>2, <3>1 DEF Mailing, Alive
  <2>5. ASSUME Lost(a) PROVE Lost(a)'
    <3>1. p.part = 0 => client[a].mode = "gone"
      BY <1>1, <2>5 DEF Lost, p
    <3>2. \A i \in DOMAIN tasks' : tasks'[i].addr = a => Final(a, tasks[i])'
      BY <1>1, <2>3, <3>1 DEF Final
    <3>3. client'[a].mode \in {"failing", "gone"}
      BY <1>1, <2>5 DEF Lost
    <3> QED
      BY <1>1, <1>3, <2>2, <3>2, <3>3 DEF Lost
  <2>6. ReadingInv(a)'
    BY <1>1, <2>1, <2>4, <2>5 DEF StreamInv, ReadingInv, Waiting
  <2>7. BufInv(a)'
    BY <1>1, <1>3, <1>5, <2>1 DEF StreamInv, BufInv, Spent
  <2> QED
    BY <1>4, <2>6, <2>7 DEF StreamInv
<1>6. CASE /\ sessions[a] = 0 /\ sessions'[a] = Len(session[a]) + 1
           /\ session'[a] = Append(session[a], _create_session)
  <2>1. session'[a][sessions'[a]] = _create_session
    <3>1. session[a] \in Seq(SessionType)
      BY DEF TypeInv, SessionInv
    <3> QED
      BY <1>6, <3>1, NewSessionType, AppendProperties
  <2>2. ~Reading(a)' /\ Buffer(a)' = <<>>
    BY <2>1 DEF Reading, Buffer, _create_session
  <2> QED
    BY <1>3, <1>4, <2>2 DEF StreamInv, ReadingInv, BufInv
<1> QED
  BY <1>1, <1>5, <1>6

LEMMA GreetStream ==
  ASSUME TypeInv, Greet, NEW a \in Addr, Greeted(a), FlowInv(a), StreamInv(a)
  PROVE  StreamInv(a)'
<1>1. UNCHANGED <<worker, sessions, session>>
  BY DEF Greet, sessionVars
<1>2. ~InQueue(tasks, a) /\ AtServer(a) /\ Owed(a) /\ \A w \in Worker : ~Holds(w, a)
  BY DEF FlowInv, OneInv, AtServer, Owed
<1>3. \A w \in Worker : ~Serves(w, a) /\ ~Serves(w, a)'
  BY <1>1, <1>2 DEF Holds, Serves
<1>4. ~Mailing(a)
  <2>1. Alive(a) => ~Linked(a)
    BY <1>2 DEF FlowInv, OneInv
  <2> QED
    BY <1>2, <1>3, <2>1, OwedWaits DEF Mailing, Alive
<1>5. ~Reading(a)
  BY <1>4 DEF StreamInv, ReadingInv, Waiting, Lost
<1>6. Reading(a)' = Reading(a) /\ Buffer(a)' = Buffer(a)
  BY <1>1 DEF Reading, Buffer
<1>7. sessions[a] # 0 => Buffer(a) = <<>>
  BY <1>2, <1>3 DEF StreamInv, BufInv, Spent
<1> QED
  BY <1>1, <1>3, <1>5, <1>6, <1>7 DEF StreamInv, SidInv, ReadingInv, BufInv

LEMMA TakeStream ==
  ASSUME TypeInv, NEW w \in Worker, Take(w), NEW a \in Addr, Head(tasks).addr = a,
         FlowInv(a), StreamInv(a)
  PROVE  StreamInv(a)'
<1> DEFINE p == Head(tasks)
<1>1. /\ tasks # <<>> /\ tasks' = Tail(tasks)
      /\ worker'[w].at = "process" /\ worker'[w].task = p
      /\ \A u \in Worker \ {w} : worker'[u] = worker[u]
      /\ UNCHANGED <<client, inbound, greeting, sessions, session>> /\ tasks \in Seq(Packets)
  BY TakeFields DEF WorkerOnly, loopVars, TypeInv, PoolInv
<1>2. /\ InQueue(tasks, a) /\ \E j \in DOMAIN tasks : tasks[j] = p
      /\ \A i \in DOMAIN tasks' : \E j \in DOMAIN tasks : tasks[j] = tasks'[i]
  BY <1>1, TailQueue
<1>3. p.addr = a
  OBVIOUS
<1> HIDE DEF p
<1>4. AtServer(a) /\ Owed(a) /\ \A u \in Worker : ~Holds(u, a) /\ ~Serves(u, a)
  BY <1>2 DEF FlowInv, OneInv, AtServer, Owed, Holds, Serves
<1>5. /\ Serves(w, a)' /\ Holds(w, a)'
      /\ \A u \in Worker \ {w} : ~Holds(u, a)' /\ ~Serves(u, a)'
  BY <1>1, <1>3, <1>4 DEF Serves, Holds, Serving
<1>6. Reading(a)' = Reading(a) /\ Buffer(a)' = Buffer(a)
  BY <1>1 DEF Reading, Buffer
<1>7. Mailing(a) => Mailing(a)'
  BY <1>1, <1>4, <1>5, OwedWaits DEF Mailing, Alive, Streaming
<1>8. Lost(a) => Lost(a)'
  <2>1. \A q : Final(a, q)' <=> Final(a, q)
    BY <1>1 DEF Final, Linked
  <2> QED
    BY <1>1, <1>2, <1>3, <1>5, <2>1 DEF Lost, Linked, Greeted, Streaming
<1>9. ReadingInv(a)'
  BY <1>2, <1>6, <1>7, <1>8 DEF StreamInv, ReadingInv, Waiting
<1>10. SidInv(a)'
  BY <1>1, <1>5 DEF SidInv
<1>11. BufInv(a)'
  <2>1. sessions[a] # 0 => Buffer(a) = <<>>
    BY <1>4 DEF StreamInv, BufInv, Spent
  <2> QED
    BY <1>1, <1>5, <1>6, <2>1 DEF BufInv
<1> QED
  BY <1>9, <1>10, <1>11 DEF StreamInv

-----------------------------------------------------------------------------
(* Messages: the pool                                                      *)

\* Worker w has the client's only packet.
LEMMA InService ==
  ASSUME TypeInv, NEW a \in Addr, FlowInv(a), StreamInv(a), NEW w \in Worker, Serves(w, a)
  PROVE  /\ ~Greeted(a) /\ ~InQueue(tasks, a) /\ (Alive(a) => ~Linked(a)) /\ ~Spent(a)
         /\ \A u \in Worker \ {w} : ~Holds(u, a) /\ ~Serves(u, a)
         /\ Reading(a) =>
              \/ worker[w].at = "reply" /\ worker[w].code = 354 /\ (Waiting(a) \/ Lost(a))
              \/ /\ worker[w].at \in Streaming
                 /\ \/ Mailing(a) /\ Alive(a) /\ client[a].part = 1
                    \/ Lost(a) /\ Final(a, worker[w].task)
         /\ Fits(client[a], worker[w].task) /\ Address(w) = a /\ worker[w].task \in Packets
         /\ worker[w].task.part \in 0..MaxChunks
<1>1. Holds(w, a) /\ Owed(a) /\ AtServer(a) /\ Address(w) = a
  BY DEF Serves, Holds, Owed, AtServer, Address
<1>2. /\ ~Greeted(a) /\ ~InQueue(tasks, a) /\ (Alive(a) => ~Linked(a)) /\ ~Spent(a)
      /\ \A u \in Worker \ {w} : ~Holds(u, a)
  BY <1>1 DEF FlowInv, OneInv, Spent
<1>3. \A u \in Worker \ {w} : ~Serves(u, a)
  BY <1>2 DEF Holds, Serves
<1>4. Waiting(a) => worker[w].at = "reply" /\ worker[w].code = 354
  BY <1>1 DEF Waiting
<1>5. Mailing(a) => /\ Alive(a) /\ client[a].part = 1 /\ worker[w].at \in Streaming
  BY <1>1, <1>2, <1>3, OwedWaits DEF Mailing, Alive
<1>6. Lost(a) => \/ worker[w].at = "reply" /\ worker[w].code = 354
                 \/ worker[w].at \in Streaming /\ Final(a, worker[w].task)
  BY <1>1 DEF Lost
<1>7. Reading(a) =>
        \/ worker[w].at = "reply" /\ worker[w].code = 354 /\ (Waiting(a) \/ Lost(a))
        \/ /\ worker[w].at \in Streaming
           /\ \/ Mailing(a) /\ Alive(a) /\ client[a].part = 1
              \/ Lost(a) /\ Final(a, worker[w].task)
  BY <1>4, <1>5, <1>6 DEF StreamInv, ReadingInv
<1>8. Fits(client[a], worker[w].task)
  BY <1>1 DEF FlowInv, FitInv
<1>9. worker[w].task \in Packets /\ worker[w].task.part \in 0..MaxChunks
  BY WorkerFields DEF Serves, Serving, At, Packets
<1> QED
  BY <1>1, <1>2, <1>3, <1>7, <1>8, <1>9

LEMMA InServiceNext ==
  ASSUME TypeInv, QuitInv, NEW a \in Addr, FlowInv(a), StreamInv(a),
         NEW w \in Worker, Serves(w, a), WorkerStep(w), Moves(w)
  PROVE  /\ ~Greeted(a)' /\ ~InQueue(tasks', a) /\ (Linked(a)' <=> Linked(a))
         /\ inbound' = inbound
         /\ \A u \in Worker \ {w} : ~Holds(u, a)' /\ ~Serves(u, a)'
         /\ (Alive(a)' <=> Alive(a)) /\ client'[a].part = client[a].part
         /\ client'[a].mode = client[a].mode
         /\ client'[a].n = client[a].n /\ client'[a].awaiting = client[a].awaiting
         /\ Serves(w, a)' <=> worker'[w].at \in Serving
         /\ Serves(w, a)' => worker'[w].task = worker[w].task
         /\ \A p : Final(a, p)' <=> Final(a, p)
<1>1. ~Greeted(a) /\ ~InQueue(tasks, a) /\ \A u \in Worker \ {w} : ~Holds(u, a) /\ ~Serves(u, a)
  BY InService
<1>2. inbound' = inbound /\ greeting' = greeting /\ SameClient(a)
  BY WorkerEffect
<1>3. ~Greeted(a)' /\ ~InQueue(tasks', a) /\ (Linked(a)' <=> Linked(a))
  BY <1>1, <1>2 DEF Linked, Greeted, Moves
<1>4. \A u \in Worker \ {w} : ~Holds(u, a)' /\ ~Serves(u, a)'
  BY <1>1 DEF Moves, Holds, Serves
<1>5. /\ Serves(w, a)' <=> worker'[w].at \in Serving
      /\ Serves(w, a)' => worker'[w].task = worker[w].task
  BY DEF Moves, Serves
<1>6. \A p : Final(a, p)' <=> Final(a, p)
  BY <1>2, <1>3 DEF Final, SameClient
<1> QED
  BY <1>2, <1>3, <1>4, <1>5, <1>6 DEF SameClient, Alive

\* What has to be shown of a step of the worker that has the client's packet.
LEMMA OwnStream ==
  ASSUME NEW a, NEW w \in Worker,
         \A u \in Worker \ {w} : ~Serves(u, a)',
         Serves(w, a)' /\ worker'[w].at # "process" =>
           sessions'[a] # 0 /\ worker'[w].sid = sessions'[a],
         Reading(a)' => Waiting(a)' \/ Mailing(a)' \/ Lost(a)',
         sessions'[a] # 0 => \/ Buffer(a)' = <<>>
                             \/ Spent(a)'
                             \/ Serves(w, a)' /\ worker'[w].at \in {"check", "copy", "reset"},
         Serves(w, a)' =>
           /\ worker'[w].at \in {"extend", "check"} => Final(a, worker[w].task)'
           /\ worker'[w].at \in {"check", "copy"} => Buffer(a)' = <<worker'[w].task>>
           /\ worker'[w].at \in {"reset", "finalize"} => worker'[w].full = <<worker'[w].task>>
           /\ worker'[w].at \in {"copy", "reset", "finalize"} => worker'[w].task.part = 1
  PROVE  StreamInv(a)'
BY DEF StreamInv, SidInv, ReadingInv, BufInv

\* The message is still on its way to the buffer, or its client has given up.
LEMMA StreamOn ==
  ASSUME TypeInv, QuitInv, NEW a \in Addr, FlowInv(a), StreamInv(a), NEW w \in Worker,
         WorkerStep(w), Moves(w), Serves(w, a), worker[w].at \in Streaming,
         Serves(w, a)', worker'[w].at \in Streaming
  PROVE  Reading(a) => Mailing(a)' \/ Lost(a)'
<1> SUFFICES ASSUME Reading(a) PROVE Mailing(a)' \/ Lost(a)'
  OBVIOUS
<1>1. /\ ~Greeted(a)' /\ ~InQueue(tasks', a) /\ (Linked(a)' <=> Linked(a))
      /\ inbound' = inbound
      /\ \A u \in Worker \ {w} : ~Holds(u, a)' /\ ~Serves(u, a)'
      /\ (Alive(a)' <=> Alive(a)) /\ client'[a].part = client[a].part
      /\ client'[a].mode = client[a].mode
      /\ worker'[w].task = worker[w].task
      /\ \A p : Final(a, p)' <=> Final(a, p)
  BY InServiceNext
<1>2. \/ Alive(a) /\ client[a].part = 1
      \/ Lost(a) /\ Final(a, worker[w].task)
  BY InService DEF Streaming
<1>3. CASE Alive(a) /\ client[a].part = 1
  BY <1>1, <1>3 DEF Mailing
<1>4. CASE Lost(a) /\ Final(a, worker[w].task)
  <2>1. Final(a, worker[w].task)'
    BY <1>1, <1>4 DEF Final
  <2> QED
    BY <1>1, <1>4, <2>1 DEF Lost, InQueue
<1> QED
  BY <1>2, <1>3, <1>4

\* The session that a worker uses is the one its client has now.
LEMMA MineNow ==
  ASSUME TypeInv, NEW a \in Addr, StreamInv(a), NEW w \in Worker, Serves(w, a),
         worker[w].at # "process"
  PROVE  /\ sessions[a] # 0 /\ worker[w].sid = sessions[a] /\ Address(w) = a
         /\ sessions[a] \in 1..Len(session[a]) /\ Mine(w) = session[a][sessions[a]]
         /\ Mine(w) \in SessionType /\ Mine(w).data_buffer = Buffer(a)
         /\ Reading(a) <=> Mine(w).state = "READING_DATA_STREAM"
<1>1. sessions[a] # 0 /\ worker[w].sid = sessions[a] /\ Address(w) = a /\ Busy(w)
  BY DEF StreamInv, SidInv, Serves, Serving, Busy, At, Address
<1>2. worker[w].sid \in 1..Len(session[a]) /\ Mine(w) \in SessionType
  BY <1>1, WorkerFields, MineType
<1> QED
  BY <1>1, <1>2 DEF Mine, Buffer, Reading

LEMMA SetMine ==
  ASSUME TypeInv, NEW a \in Addr, NEW w \in Worker, NEW s, SetSession(w, s),
         Address(w) = a, worker[w].sid = sessions[a], sessions[a] \in 1..Len(session[a]),
         sessions' = sessions
  PROVE  session'[a][sessions'[a]] = s
<1>1. session[a] \in Seq(SessionType) /\ session \in [Addr -> Seq(SessionType)]
  BY DEF TypeInv, SessionInv
<1>2. DOMAIN session[a] = 1..Len(session[a])
  BY <1>1, LenProperties
<1>3. session' = [session EXCEPT ![a] = [session[a] EXCEPT ![sessions[a]] = s]]
  BY DEF SetSession
<1> QED
  BY <1>1, <1>2, <1>3

LEMMA ProcessStream ==
  ASSUME OnePart, TypeInv, QuitInv, NEW w \in Worker, _process_packet(w), NEW a \in Addr,
         Address(w) = a, FlowInv(a), StreamInv(a)
  PROVE  StreamInv(a)'
<1>1. /\ worker[w].at = "process" /\ UNCHANGED <<session, sessions>>
      /\ \/ worker'[w].at = "idle" /\ sessions[a] = 0
         \/ /\ sessions[a] # 0 /\ worker'[w].sid = sessions[a]
            /\ worker'[w].task = worker[w].task
            /\ worker'[w].at = IF Reading(a) THEN "extend" ELSE "command"
  BY ProcessFields DEF WorkerOnly
<1>2. Serves(w, a) /\ WorkerStep(w) /\ Moves(w)
  <2>1. WorkerStep(w) /\ ~Take(w)
    BY <1>1 DEF WorkerStep, Take, At
  <2> QED
    BY <1>1, <2>1, WorkerMoves DEF Serves, Serving, Address
<1>3. Reading(a)' = Reading(a) /\ Buffer(a)' = Buffer(a)
  BY <1>1 DEF Reading, Buffer
<1>4. \A u \in Worker \ {w} : ~Serves(u, a) /\ ~Serves(u, a)'
  BY <1>2, InService, InServiceNext
<1>5. sessions[a] # 0 => Buffer(a) = <<>>
  BY <1>1, <1>2, <1>4, InService DEF StreamInv, BufInv
<1>6. ASSUME Reading(a)
      PROVE  /\ sessions[a] # 0 /\ Serves(w, a)' /\ worker'[w].at = "extend"
             /\ Final(a, worker[w].task)' /\ (Mailing(a)' \/ Lost(a)')
  <2>1. sessions[a] # 0 /\ worker'[w].at = "extend"
    BY <1>1, <1>6 DEF Reading
  <2>2. Serves(w, a)' /\ worker'[w].task = worker[w].task
    BY <1>2, <2>1, InServiceNext DEF Serving
  <2>3. Mailing(a)' \/ Lost(a)'
    BY <1>1, <1>2, <1>6, <2>1, <2>2, StreamOn DEF Streaming
  <2>4. Final(a, worker[w].task)
    BY <1>1, <1>2, <1>6, InService DEF Fits, Alive, Final
  <2>5. Final(a, worker[w].task)'
    BY <1>2, <2>2, <2>4, InServiceNext DEF Final
  <2> QED
    BY <2>1, <2>2, <2>3, <2>5
<1>7. Serves(w, a)' => /\ worker'[w].at \in {"extend", "command"}
                       /\ worker'[w].sid = sessions[a] /\ sessions[a] # 0
                       /\ worker'[w].at = "extend" => Reading(a)
  BY <1>1 DEF Serves, Serving
<1> QED
  BY <1>1, <1>3, <1>4, <1>5, <1>6, <1>7, OwnStream

LEMMA ExtendStream ==
  ASSUME TypeInv, QuitInv, NEW w \in Worker, Extend(w), NEW a \in Addr,
         Address(w) = a, FlowInv(a), StreamInv(a)
  PROVE  StreamInv(a)'
<1> DEFINE p == worker[w].task
           buffer == Append(Mine(w).data_buffer, p)
           s == [Mine(w) EXCEPT !.data_buffer = buffer]
<1>1. /\ worker[w].at = "extend" /\ SetSession(w, s) /\ Goto(w, "check")
      /\ sessions' = sessions
  BY DEF Extend, At, WorkerOnly
<1>2. Serves(w, a) /\ WorkerStep(w) /\ Moves(w)
  <2>1. WorkerStep(w) /\ ~Take(w)
    BY <1>1 DEF WorkerStep, Take, At
  <2> QED
    BY <1>1, <2>1, WorkerMoves DEF Serves, Serving, Address
<1>3. /\ sessions[a] # 0 /\ worker[w].sid = sessions[a] /\ sessions[a] \in 1..Len(session[a])
      /\ Mine(w) \in SessionType /\ Mine(w).data_buffer = Buffer(a)
      /\ Reading(a) <=> Mine(w).state = "READING_DATA_STREAM"
  BY <1>1, <1>2, MineNow
<1>4. \A u \in Worker \ {w} : ~Serves(u, a) /\ ~Serves(u, a)'
  BY <1>2, InService, InServiceNext
<1>5. Buffer(a) = <<>> /\ Final(a, p)
  BY <1>1, <1>2, <1>3, <1>4, InService DEF StreamInv, BufInv
<1>6. buffer = <<p>>
  BY <1>3, <1>5
<1>7. worker'[w].at = "check" /\ worker'[w].task = p /\ worker'[w].sid = worker[w].sid
  BY <1>1, GotoFields DEF p
<1>8. Serves(w, a)'
  BY <1>2, <1>7, InServiceNext DEF Serving
<1>9. Final(a, worker[w].task)'
  BY <1>2, <1>5, <1>7, InServiceNext DEF Final, p
<1>10. Reading(a) => Mailing(a)' \/ Lost(a)'
  BY <1>1, <1>2, <1>7, <1>8, StreamOn DEF Streaming
<1> HIDE DEF p, buffer
<1>11. s.data_buffer = buffer /\ s.state = Mine(w).state
  BY <1>3 DEF SessionType
<1>12. session'[a][sessions'[a]] = s
  BY <1>1, <1>3, SetMine
<1> HIDE DEF s
<1>13. Buffer(a)' = <<p>> /\ (Reading(a)' => Reading(a))
  BY <1>3, <1>6, <1>11, <1>12 DEF Buffer, Reading
<1> QED
  BY <1>1, <1>3, <1>4, <1>7, <1>8, <1>9, <1>10, <1>13, OwnStream

LEMMA CheckStream ==
  ASSUME OnePart, TypeInv, QuitInv, NEW w \in Worker, Check(w), NEW a \in Addr,
         Address(w) = a, FlowInv(a), StreamInv(a)
  PROVE  StreamInv(a)'
<1> DEFINE p == worker[w].task
<1>1. worker[w].at = "check" /\ UNCHANGED <<session, sessions>>
  BY DEF Check, At, WorkerOnly
<1>2. Serves(w, a) /\ WorkerStep(w) /\ Moves(w)
  <2>1. WorkerStep(w) /\ ~Take(w)
    BY <1>1 DEF WorkerStep, Take, At
  <2> QED
    BY <1>1, <2>1, WorkerMoves DEF Serves, Serving, Address
<1>3. sessions[a] # 0 /\ worker[w].sid = sessions[a] /\ Mine(w).data_buffer = Buffer(a)
  BY <1>1, <1>2, MineNow
<1>4. \A u \in Worker \ {w} : ~Serves(u, a) /\ ~Serves(u, a)' /\ ~Holds(u, a)'
  BY <1>2, InService, InServiceNext
<1>5. Buffer(a) = <<p>> /\ Final(a, p)
  BY <1>1, <1>2 DEF StreamInv, BufInv
<1>6. Reading(a)' = Reading(a) /\ Buffer(a)' = Buffer(a)
  BY <1>1 DEF Reading, Buffer
<1>7. CASE p.part = 1
  <2>1. p.last
    BY <1>2, <1>7, InService DEF Fits
  <2>2. Goto(w, "copy")
    <3>1. p \in ToSet(Mine(w).data_buffer)
      BY <1>3, <1>5 DEF ToSet
    <3> QED
      BY <2>1, <3>1 DEF Check
  <2>3. worker'[w].at = "copy" /\ worker'[w].task = p /\ worker'[w].sid = worker[w].sid
    BY <2>2, GotoFields
  <2>4. Serves(w, a)'
    BY <1>2, <2>3, InServiceNext DEF Serving
  <2>5. Reading(a) => Mailing(a)' \/ Lost(a)'
    BY <1>1, <1>2, <2>3, <2>4, StreamOn DEF Streaming
  <2> QED
    BY <1>1, <1>3, <1>4, <1>5, <1>6, <1>7, <2>3, <2>4, <2>5, OwnStream
<1>8. CASE p.part = 0
  <2>1. ~p.last
    BY <1>2, <1>8, InService DEF Fits
  <2>2. Done(w)
    <3>1. \A q \in ToSet(Mine(w).data_buffer) : q = p
      BY <1>3, <1>5 DEF ToSet
    <3> QED
      BY <2>1, <3>1 DEF Check
  <2>3. worker'[w].at = "idle"
    BY <2>2, DoneFields
  <2>4. ~Serves(w, a)' /\ ~Holds(w, a)'
    BY <2>3 DEF Serves, Holds, Serving, Forgetting
  <2>5. /\ client'[a].mode = "gone" /\ ~Linked(a)' /\ ~Greeted(a)' /\ ~InQueue(tasks', a)
    BY <1>2, <1>5, <1>8, InServiceNext DEF Final
  <2>6. Spent(a)'
    BY <1>4, <2>4, <2>5 DEF Spent, AtServer
  <2>7. Lost(a)'
    BY <1>4, <2>4, <2>5 DEF Lost, InQueue
  <2> QED
    BY <1>4, <2>4, <2>6, <2>7, OwnStream
<1>9. p.part \in {0, 1}
  BY <1>2, InService DEF OnePart
<1> QED
  BY <1>7, <1>8, <1>9

LEMMA CopyStream ==
  ASSUME TypeInv, QuitInv, NEW w \in Worker, Copy(w), NEW a \in Addr,
         Address(w) = a, FlowInv(a), StreamInv(a)
  PROVE  StreamInv(a)'
<1> DEFINE p == worker[w].task
<1>1. /\ worker[w].at = "copy" /\ UNCHANGED <<session, sessions>>
      /\ worker'[w].at = "reset" /\ worker'[w].task = p
      /\ worker'[w].sid = worker[w].sid /\ worker'[w].full = Mine(w).data_buffer
  BY CopyFields DEF WorkerOnly
<1>2. Serves(w, a) /\ WorkerStep(w) /\ Moves(w)
  <2>1. WorkerStep(w) /\ ~Take(w)
    BY <1>1 DEF WorkerStep, Take, At
  <2> QED
    BY <1>1, <2>1, WorkerMoves DEF Serves, Serving, Address
<1>3. /\ sessions[a] # 0 /\ worker[w].sid = sessions[a] /\ Mine(w).data_buffer = Buffer(a)
  BY <1>1, <1>2, MineNow
<1>4. \A u \in Worker \ {w} : ~Serves(u, a) /\ ~Serves(u, a)'
  BY <1>2, InService, InServiceNext
<1>5. Buffer(a) = <<p>> /\ p.part = 1
  BY <1>1, <1>2 DEF StreamInv, BufInv
<1>6. Reading(a)' = Reading(a) /\ Buffer(a)' = Buffer(a)
  BY <1>1 DEF Reading, Buffer
<1>7. Serves(w, a)'
  BY <1>1, <1>2, InServiceNext DEF Serving
<1>8. Reading(a) => Mailing(a)' \/ Lost(a)'
  BY <1>1, <1>2, <1>7, StreamOn DEF Streaming
<1> QED
  BY <1>1, <1>3, <1>4, <1>5, <1>6, <1>7, <1>8, OwnStream

LEMMA ResetStream ==
  ASSUME TypeInv, QuitInv, NEW w \in Worker, Reset(w), NEW a \in Addr,
         Address(w) = a, FlowInv(a), StreamInv(a)
  PROVE  StreamInv(a)'
<1> DEFINE p == worker[w].task
           none == <<>>
           s == [Mine(w) EXCEPT !.data_buffer = none, !.partial_line = FALSE,
                                !.state = "WAIT_FOR_MAIL_FROM"]
<1>1. /\ worker[w].at = "reset" /\ SetSession(w, s) /\ Goto(w, "finalize")
      /\ sessions' = sessions
  BY DEF Reset, At, WorkerOnly
<1>2. Serves(w, a) /\ WorkerStep(w) /\ Moves(w)
  <2>1. WorkerStep(w) /\ ~Take(w)
    BY <1>1 DEF WorkerStep, Take, At
  <2> QED
    BY <1>1, <2>1, WorkerMoves DEF Serves, Serving, Address
<1>3. /\ sessions[a] # 0 /\ worker[w].sid = sessions[a] /\ sessions[a] \in 1..Len(session[a])
      /\ Mine(w) \in SessionType
  BY <1>1, <1>2, MineNow
<1>4. \A u \in Worker \ {w} : ~Serves(u, a) /\ ~Serves(u, a)'
  BY <1>2, InService, InServiceNext
<1>5. worker[w].full = <<p>> /\ p.part = 1
  BY <1>1, <1>2 DEF StreamInv, BufInv
<1> HIDE DEF none
<1>6. s.data_buffer = none /\ s.state = "WAIT_FOR_MAIL_FROM"
  BY <1>3 DEF SessionType
<1>7. session'[a][sessions'[a]] = s
  BY <1>1, <1>3, SetMine
<1> HIDE DEF s
<1>8. Buffer(a)' = <<>> /\ ~Reading(a)'
  BY <1>6, <1>7 DEF Buffer, Reading, none
<1>9. /\ worker'[w].at = "finalize" /\ worker'[w].task = p /\ worker'[w].sid = worker[w].sid
      /\ worker'[w].full = worker[w].full
  BY <1>1, GotoFields
<1> QED
  BY <1>1, <1>3, <1>4, <1>5, <1>8, <1>9, OwnStream

LEMMA FinalizeStream ==
  ASSUME TypeInv, QuitInv, NEW w \in Worker, _finalize_message(w), NEW a \in Addr,
         Address(w) = a, FlowInv(a), StreamInv(a)
  PROVE  StreamInv(a)' /\ worker[w].full = <<worker[w].task>> /\ worker[w].task.part = 1
<1>1. /\ worker[w].at = "finalize" /\ UNCHANGED <<session, sessions>>
      /\ \E code : Answer(w, code)
  BY DEF _finalize_message, At, WorkerOnly
<1>2. Serves(w, a) /\ WorkerStep(w) /\ Moves(w)
  <2>1. WorkerStep(w) /\ ~Take(w)
    BY <1>1 DEF WorkerStep, Take, At
  <2> QED
    BY <1>1, <2>1, WorkerMoves DEF Serves, Serving, Address
<1>3. sessions[a] # 0 /\ worker[w].sid = sessions[a]
  BY <1>1, <1>2, MineNow
<1>4. \A u \in Worker \ {w} : ~Serves(u, a) /\ ~Serves(u, a)'
  BY <1>2, InService, InServiceNext
<1>5. /\ Buffer(a) = <<>> /\ worker[w].full = <<worker[w].task>> /\ worker[w].task.part = 1
  BY <1>1, <1>2, <1>3, <1>4, InService DEF StreamInv, BufInv
<1>6. ~Reading(a)
  BY <1>1, <1>2, InService DEF Streaming
<1>7. Reading(a)' = Reading(a) /\ Buffer(a)' = Buffer(a)
  BY <1>1 DEF Reading, Buffer
<1>8. worker'[w].at = "reply" /\ worker'[w].sid = worker[w].sid
  BY <1>1, AnswerFields
<1> QED
  BY <1>1, <1>3, <1>4, <1>5, <1>6, <1>7, <1>8, OwnStream

\* What a command makes of the part of the session that matters for a message.
LEMMA EffectFields ==
  ASSUME NEW s \in SessionType, NEW p
  PROVE  /\ Effect(s, p).data_buffer \in {s.data_buffer, <<>>}
         /\ Effect(s, p).state = "READING_DATA_STREAM" =>
              s.state = "READING_DATA_STREAM" \/ p.verb = "DATA"
<1> DEFINE none == <<>>
           more == Append(s.rcpt_to, p.rcpt)
           fresh == _create_session
<1>1. Effect(s, p) \in {s, fresh, [s EXCEPT !.state = "WAIT_FOR_MAIL_FROM"],
        [s EXCEPT !.state = "WAIT_FOR_RCPT_TO"],
        [s EXCEPT !.state = "WAIT_FOR_DATA_CMD", !.rcpt_to = more]} \/
      /\ p.verb = "DATA"
      /\ Effect(s, p) = [s EXCEPT !.state = "READING_DATA_STREAM", !.data_buffer = none]
  BY DEF Effect
<1>2. fresh.data_buffer = none /\ fresh.state = "WAIT_FOR_HELO"
  BY DEF _create_session
<1> HIDE DEF none, more, fresh
<1>3. /\ Effect(s, p).data_buffer \in {s.data_buffer, none}
      /\ Effect(s, p).state = "READING_DATA_STREAM" =>
           s.state = "READING_DATA_STREAM" \/ p.verb = "DATA"
  BY <1>1, <1>2 DEF SessionType
<1> QED
  BY <1>3 DEF none

\* A command: the session reads the message next only behind an accepted DATA, and no part
\* of a message is answered as if it was stored.
LEMMA CommandFields ==
  ASSUME TypeInv, NEW w \in Worker, _handle_command_stream(w), NEW a \in Addr,
         StreamInv(a), Serves(w, a)
  PROVE  /\ \/ worker'[w].at = "idle"
            \/ worker'[w].at = "reply" /\ worker'[w].sid = worker[w].sid
         /\ Buffer(a)' \in {Buffer(a), <<>>}
         /\ Reading(a)' => \/ Reading(a)
                           \/ /\ worker'[w].at = "reply" /\ worker'[w].code = 354
                              /\ worker[w].task.verb = "DATA"
         /\ worker'[w].at = "reply" /\ worker'[w].code = 250 => worker[w].task.verb # "chunk"
<1> DEFINE s == Mine(w)
           p == worker[w].task
           effect == Effect(s, p)
           held(flag) == [s EXCEPT !.partial_line = flag]
           refused == Done(w) \/ Answer(w, 500) \/ Refuse(w)
<1>1. /\ worker[w].at = "command" /\ sessions' = sessions
      /\ \/ \E flag \in BOOLEAN : SetSession(w, held(flag)) /\ refused
         \/ SetSession(w, effect) /\ Answer(w, Expects(p.verb)) /\ p.verb # "chunk"
         \/ session' = session /\ Answer(w, 503)
  <2>1. worker[w].at = "command" /\ sessions' = sessions
    BY DEF _handle_command_stream, At, WorkerOnly
  <2>2. \/ SetSession(w, held(~p.last)) /\ refused
        \/ SetSession(w, held(FALSE)) /\ refused
        \/ SetSession(w, effect) /\ Answer(w, Expects(p.verb)) /\ p.verb # "chunk"
        \/ session' = session /\ Answer(w, 503)
    BY DEF _handle_command_stream, Unreadable
  <2>4. (~p.last) \in BOOLEAN /\ FALSE \in BOOLEAN
    OBVIOUS
  <2> HIDE DEF held, refused
  <2>3. \/ \E flag \in BOOLEAN : SetSession(w, held(flag)) /\ refused
        \/ SetSession(w, effect) /\ Answer(w, Expects(p.verb)) /\ p.verb # "chunk"
        \/ session' = session /\ Answer(w, 503)
    BY <2>2, <2>4, Zenon
  <2> QED
    BY <2>1, <2>3
<1>2. /\ sessions[a] # 0 /\ worker[w].sid = sessions[a] /\ sessions[a] \in 1..Len(session[a])
      /\ Address(w) = a /\ s \in SessionType /\ s.data_buffer = Buffer(a)
      /\ Reading(a) <=> s.state = "READING_DATA_STREAM"
  BY <1>1, MineNow
<1>3. ASSUME NEW t, SetSession(w, t)
      PROVE  /\ Buffer(a)' = t.data_buffer
             /\ Reading(a)' => t.state = "READING_DATA_STREAM"
  BY <1>1, <1>2, <1>3, SetMine DEF Buffer, Reading
<1>4. ASSUME NEW code, Answer(w, code)
      PROVE  /\ worker'[w].at = "reply" /\ worker'[w].sid = worker[w].sid
             /\ worker'[w].code = code
  BY <1>4, AnswerFields
<1>5. Done(w) => worker'[w].at = "idle"
  BY DoneFields
<1> HIDE DEF s, p
<1>6. ASSUME NEW flag \in BOOLEAN, SetSession(w, held(flag)), refused
      PROVE  /\ worker'[w].at = "idle" \/ (worker'[w].at = "reply" /\ worker'[w].code = 500
                                           /\ worker'[w].sid = worker[w].sid)
             /\ Buffer(a)' = Buffer(a) /\ (Reading(a)' => Reading(a))
  <2>1. held(flag).data_buffer = s.data_buffer /\ held(flag).state = s.state
    BY <1>2 DEF SessionType
  <2> HIDE DEF held
  <2> QED
    BY <1>2, <1>3, <1>4, <1>5, <1>6, <2>1, RefuseKeeps
<1>7. CASE SetSession(w, effect) /\ Answer(w, Expects(p.verb)) /\ p.verb # "chunk"
  <2>1. /\ effect.data_buffer \in {s.data_buffer, <<>>}
        /\ effect.state = "READING_DATA_STREAM" =>
             s.state = "READING_DATA_STREAM" \/ p.verb = "DATA"
    BY <1>2, EffectFields
  <2>2. p.verb = "DATA" => Expects(p.verb) = 354
    BY DEF Expects
  <2> HIDE DEF effect
  <2>3. /\ Buffer(a)' \in {Buffer(a), <<>>}
        /\ Reading(a)' => Reading(a) \/ p.verb = "DATA"
    BY <1>2, <1>3, <1>7, <2>1
  <2> QED
    BY <1>4, <1>7, <2>2, <2>3 DEF p
<1>8. CASE session' = session /\ Answer(w, 503)
  <2>1. Buffer(a)' = Buffer(a) /\ Reading(a)' = Reading(a)
    BY <1>1, <1>8 DEF Buffer, Reading
  <2> QED
    BY <1>4, <1>8, <2>1
<1> HIDE DEF effect, held
<1> QED
  BY <1>1, <1>6, <1>7, <1>8

\* What a client still has when it waits for one reply that it is owed, it will drop.
LEMMA OldReplies ==
  ASSUME TypeInv, NEW a \in Addr, FlowInv(a), Owed(a), Alive(a), Waits(a) = 1
  PROVE  \A i \in DOMAIN client[a].inbox : client[a].inbox[i].bit # client[a].expects
<1>1. client[a].inbox \in Seq(ReplyType)
  BY ClientFields
<1>2. Has(a) \in Nat /\ DOMAIN client[a].inbox = 1..Has(a)
  BY <1>1, LenProperties DEF Has
<1>3. Has(a) <= 2 /\ Has(a) # 2 /\ (Has(a) = 1 => Drops(a))
  BY DEF FlowInv, TurnInv, Doomed
<1>4. CASE Has(a) = 0
  BY <1>2, <1>4
<1>5. CASE Has(a) = 1
  <2>1. DOMAIN client[a].inbox = {1} /\ client[a].inbox # <<>>
    BY <1>2, <1>5
  <2>2. Head(client[a].inbox) = client[a].inbox[1]
    BY <1>1, <2>1, TailCodes
  <2> QED
    BY <1>3, <1>5, <2>1, <2>2 DEF Drops
<1> QED
  BY <1>2, <1>3, <1>4, <1>5

LEMMA CommandStream ==
  ASSUME OnePart, TypeInv, QuitInv, NEW w \in Worker, _handle_command_stream(w), NEW a \in Addr,
         Address(w) = a, FlowInv(a), StreamInv(a)
  PROVE  StreamInv(a)'
<1> DEFINE p == worker[w].task
<1>1. worker[w].at = "command" /\ sessions' = sessions /\ client' = client
  BY DEF _handle_command_stream, At, WorkerOnly
<1>2. Serves(w, a) /\ WorkerStep(w) /\ Moves(w)
  <2>1. WorkerStep(w) /\ ~Take(w)
    BY <1>1 DEF WorkerStep, Take, At
  <2> QED
    BY <1>1, <2>1, WorkerMoves DEF Serves, Serving, Address
<1>3. sessions[a] # 0 /\ worker[w].sid = sessions[a]
  BY <1>1, <1>2, MineNow
<1>4. \A u \in Worker \ {w} : ~Serves(u, a) /\ ~Serves(u, a)' /\ ~Holds(u, a)'
  BY <1>2, InService, InServiceNext
<1>5. Buffer(a) = <<>>
  BY <1>1, <1>2, <1>3, <1>4, InService DEF StreamInv, BufInv
<1>6. ~Reading(a)
  BY <1>1, <1>2, InService DEF Streaming
<1>7. /\ \/ worker'[w].at = "idle"
         \/ worker'[w].at = "reply" /\ worker'[w].sid = worker[w].sid
      /\ Buffer(a)' \in {Buffer(a), <<>>}
      /\ Reading(a)' => /\ worker'[w].at = "reply" /\ worker'[w].code = 354 /\ p.verb = "DATA"
  BY <1>2, <1>6, CommandFields
<1>8. Reading(a)' => Waiting(a)' \/ Lost(a)'
  <2> SUFFICES ASSUME p.verb = "DATA", worker'[w].at = "reply", worker'[w].code = 354
               PROVE  Waiting(a)' \/ Lost(a)'
    BY <1>7
  <2>1. /\ (Linked(a)' <=> Linked(a)) /\ ~Greeted(a)' /\ ~InQueue(tasks', a)
        /\ (Alive(a) => ~Linked(a)) /\ inbound' = inbound
    BY <1>2, InService, InServiceNext
  <2>2. Owed(a) /\ AtServer(a)
    BY <1>2 DEF Owed, AtServer, Serves, Holds
  <2>3. CASE Alive(a)
    <3>1. client[a].awaiting = << 354 >>
      <4>1. Fits(client[a], worker[w].task) /\ worker[w].task.verb = "DATA"
        BY <1>2, InService
      <4>2. client[a].mode \in {"open", "data"}
        BY <2>3 DEF Alive
      <4> QED
        BY <4>1, <4>2 DEF Fits
    <3>2. \A i \in DOMAIN client[a].inbox : client[a].inbox[i].bit # client[a].expects
      <4>1. Waits(a) = 1
        BY <3>1 DEF Waits
      <4> QED
        BY <2>2, <2>3, <4>1, OldReplies
    <3>3. Alive(a)' /\ client'[a] = client[a]
      BY <1>1, <2>3 DEF Alive
    <3> QED
      BY <1>4, <2>1, <2>3, <3>1, <3>2, <3>3 DEF Waiting
  <2>4. CASE ~Alive(a)
    <3>1. client[a].mode \in {"closed", "failing", "gone"}
      BY <2>4, ClientFields DEF ClientType, Alive
    <3>2. client[a].mode \in {"failing", "gone"} /\ (Linked(a) => client[a].mode = "gone")
      BY <2>2, <3>1 DEF FlowInv, BitInv
    <3> QED
      BY <1>1, <1>4, <2>1, <3>2 DEF Lost, InQueue
  <2> QED
    BY <2>3, <2>4
<1>9. Serves(w, a)' => worker'[w].at = "reply" /\ worker'[w].sid = worker[w].sid
  BY <1>7 DEF Serves, Serving
<1>10. Buffer(a)' = <<>>
  BY <1>5, <1>7
<1> QED
  BY <1>1, <1>3, <1>4, <1>8, <1>9, <1>10, OwnStream

LEMMA ReplyStream ==
  ASSUME TypeInv, QuitInv, LineInv, NEW w \in Worker, Reply(w), NEW a \in Addr,
         Address(w) = a, FlowInv(a), StreamInv(a)
  PROVE  StreamInv(a)'
<1> DEFINE p == worker[w].task
           code == worker[w].code
<1>1. /\ worker[w].at = "reply" /\ UNCHANGED <<session, sessions>>
      /\ _send_reply(a, code, p)
      /\ Goto(w, "pop_sender") \/ Goto(w, "clear") \/ Goto(w, "rest") \/ Done(w)
      /\ code = 354 => Done(w)
  <2>1. worker[w].lines > 0 => code = 500
    BY DEF LineInv
  <2> QED
    BY <2>1 DEF Reply, At, sessionVars, Address
<1>2. Serves(w, a) /\ WorkerStep(w) /\ Moves(w)
  <2>1. WorkerStep(w) /\ ~Take(w)
    BY <1>1 DEF WorkerStep, Take, At
  <2> QED
    BY <1>1, <2>1, WorkerMoves DEF Serves, Serving, Address
<1>3. sessions[a] # 0 /\ p \in Packets /\ code \in Code
  BY <1>1, <1>2, MineNow, WorkerFields DEF At
<1>4. \A u \in Worker \ {w} : ~Serves(u, a) /\ ~Serves(u, a)' /\ ~Holds(u, a)'
  BY <1>2, InService, InServiceNext
<1>5. Buffer(a) = <<>>
  BY <1>1, <1>2, <1>3, <1>4, InService DEF StreamInv, BufInv
<1>6. Reading(a)' = Reading(a) /\ Buffer(a)' = Buffer(a)
  BY <1>1 DEF Reading, Buffer
<1>7. ~Serves(w, a)' /\ (code = 354 => ~Holds(w, a)')
  <2>1. worker'[w].at \in {"pop_sender", "clear", "rest", "idle"}
    BY <1>1, GotoFields, DoneFields
  <2>2. code = 354 => worker'[w].at = "idle"
    BY <1>1, DoneFields
  <2> QED
    BY <2>1, <2>2 DEF Serves, Holds, Serving, Forgetting
<1>8. Reading(a) => Waiting(a)' \/ Lost(a)'
  <2> SUFFICES ASSUME Reading(a) PROVE Waiting(a)' \/ Lost(a)'
    OBVIOUS
  <2>1. code = 354 /\ (Waiting(a) \/ Lost(a)) /\ ~Holds(w, a)'
    BY <1>1, <1>2, <1>7, InService DEF Streaming
  <2>2. /\ (Linked(a)' <=> Linked(a)) /\ ~Greeted(a)' /\ ~InQueue(tasks', a)
        /\ inbound' = inbound /\ (Alive(a)' <=> Alive(a)) /\ client'[a].mode = client[a].mode
        /\ client'[a].awaiting = client[a].awaiting
    BY <1>2, InServiceNext
  <2>3. CASE Waiting(a)
    <3>1. \A i \in DOMAIN client'[a].inbox : \/ client'[a].inbox[i].code = 354
                                             \/ client'[a].inbox[i].bit # client'[a].expects
      <4>1. /\ client'[a].expects = client[a].expects
            /\ DOMAIN client[a].inbox = 1..Has(a) /\ DOMAIN client'[a].inbox = 1..Has(a)'
            /\ \A i \in 1..Has(a)' : \/ /\ i \in 1..Has(a)
                                        /\ client'[a].inbox[i] = client[a].inbox[i]
                                     \/ client'[a].inbox[i].code = 354
        BY <1>1, <1>3, <2>1, ToldClient
      <4> QED
        BY <2>3, <4>1 DEF Waiting
    <3> QED
      BY <1>4, <2>1, <2>2, <2>3, <3>1 DEF Waiting
  <2>4. CASE Lost(a)
    BY <1>4, <2>1, <2>2, <2>4 DEF Lost, InQueue
  <2> QED
    BY <2>1, <2>3, <2>4
<1> QED
  BY <1>4, <1>5, <1>6, <1>7, <1>8, OwnStream

LEMMA RestStream ==
  ASSUME TypeInv, NEW w \in Worker, Rest(w), NEW a \in Addr,
         Address(w) = a, FlowInv(a), StreamInv(a)
  PROVE  StreamInv(a)'
<1>1. /\ worker[w].at = "rest" /\ worker[w].task.addr = a
      /\ UNCHANGED <<inbound, greeting, tasks, session, sessions>>
      /\ worker[w].task \in Packets /\ 500 \in Code /\ _send_reply(a, 500, worker[w].task)
  BY Replies DEF Sends, Rest, At, loopVars, sessionVars, Address, Code
<1>2. /\ \A u \in Worker \ {w} : worker'[u] = worker[u]
      /\ worker'[w].at \in {"idle", "rest"}
  BY RestFields
<1>3. \A u \in Worker : /\ Holds(u, a)' <=> Holds(u, a)
                        /\ Serves(u, a)' <=> Serves(u, a)
                        /\ Holds(u, a) => worker'[u] = worker[u]
                        /\ Serves(u, a) => worker'[u] = worker[u]
  BY <1>1, <1>2 DEF Holds, Serves, Serving, Forgetting
<1>4. /\ client'[a].mode = client[a].mode /\ client'[a].awaiting = client[a].awaiting
      /\ client'[a].part = client[a].part
  BY <1>1, ToldClient
<1>5. /\ Linked(a)' <=> Linked(a)
      /\ Greeted(a)' <=> Greeted(a)
      /\ AtServer(a)' <=> AtServer(a)
      /\ Reading(a)' <=> Reading(a)
      /\ Buffer(a)' = Buffer(a) /\ sessions'[a] = sessions[a]
  BY <1>1, <1>3 DEF Linked, Greeted, AtServer, Reading, Buffer
<1>6. Rests(w, a)
  BY <1>1 DEF Rests
<1>7. ASSUME Alive(a) PROVE ~Reading(a)
  <2>1. Doomed(a)
    BY <1>6, <1>7 DEF FlowInv, RestInv, Alive
  <2>2. ~Waiting(a)
    <3>1. << 354 >> # << 250 >>
      OBVIOUS
    <3> QED
      BY <2>1, <3>1 DEF Doomed, Waiting
  <2>3. ~Mailing(a) /\ ~Lost(a)
    BY <1>7, <2>1 DEF Doomed, Mailing, Lost, Owed, Alive
  <2> QED
    BY <2>2, <2>3 DEF StreamInv, ReadingInv
<1>8. \A q : Final(a, q) => Final(a, q)'
  BY <1>4, <1>5 DEF Final
<1>9. Lost(a) => Lost(a)'
  BY <1>1, <1>3, <1>4, <1>5, <1>8 DEF Lost
<1>10. ReadingInv(a)'
  <2>1. ASSUME Reading(a), ~Alive(a) PROVE Lost(a)
    <3>1. ~Waiting(a) /\ ~Mailing(a)
      BY <2>1 DEF Waiting, Mailing, Alive
    <3> QED
      BY <2>1, <3>1 DEF StreamInv, ReadingInv
  <2> QED
    BY <1>5, <1>7, <1>9, <2>1 DEF ReadingInv
<1>11. SidInv(a)'
  BY <1>3, <1>5 DEF StreamInv, SidInv
<1>12. Spent(a) => Spent(a)'
  BY <1>4, <1>5 DEF Spent
<1>13. BufInv(a)'
  BY <1>3, <1>5, <1>8, <1>12 DEF StreamInv, BufInv
<1> QED
  BY <1>10, <1>11, <1>13 DEF StreamInv

LEMMA ClearSame ==
  ASSUME TypeInv, NEW w \in Worker, Clear(w), NEW a \in Addr, Address(w) = a
  PROVE  Same(a)
<1> DEFINE none == <<>>
           s == [Mine(w) EXCEPT !.rcpt_to = none]
           id == worker[w].sid
<1>1. /\ worker[w].at = "clear" /\ SetSession(w, s) /\ Done(w)
      /\ UNCHANGED <<sessions, tasks>> /\ WorkerStep(w)
  BY DEF Clear, At, WorkerOnly, WorkerStep
<1>2. Busy(w) /\ Mine(w) \in SessionType /\ id \in 1..Len(session[a])
  <2>1. Busy(w)
    BY <1>1 DEF Busy, At
  <2> QED
    BY <2>1, MineType, WorkerFields
<1> HIDE DEF none
<1>3. s.state = Mine(w).state /\ s.data_buffer = Mine(w).data_buffer
  BY <1>2 DEF SessionType
<1> HIDE DEF s
<1>4. session'[a] = [session[a] EXCEPT ![id] = s]
  BY <1>1 DEF SetSession, TypeInv, SessionInv
<1>5. session[a] \in Seq(SessionType) /\ DOMAIN session[a] = 1..Len(session[a])
      /\ sessions[a] \in Nat /\ sessions[a] <= Len(session[a])
  BY LenProperties DEF TypeInv, SessionInv
<1>6. sessions[a] # 0 => /\ session'[a][sessions[a]].state = session[a][sessions[a]].state
                         /\ Buffer(a)' = Buffer(a)
  <2> SUFFICES ASSUME sessions[a] # 0
               PROVE  /\ session'[a][sessions[a]].state = session[a][sessions[a]].state
                      /\ session'[a][sessions[a]].data_buffer
                           = session[a][sessions[a]].data_buffer
    BY <1>1 DEF Buffer
  <2>1. sessions[a] \in DOMAIN session[a]
    BY <1>5
  <2>2. Mine(w) = session[a][id]
    BY DEF Mine
  <2> HIDE DEF id
  <2> QED
    BY <1>3, <1>4, <2>1, <2>2
<1>7. \A u \in Worker : Holds(u, a) => worker'[u] = worker[u]
  <2>1. ~Holds(w, a) /\ \A u \in Worker \ {w} : worker'[u] = worker[u]
    BY <1>1, DoneFields DEF Holds, Serving, Forgetting
  <2> QED
    BY <2>1
<1>8. Less(a)
  <2>1. Moves(w)
    BY <1>1, WorkerMoves DEF Take, At
  <2> QED
    BY <1>1, <2>1, MovesLess DEF Forgetting
<1>9. Greeted(a)' <=> Greeted(a)
  BY <1>1, StepKeepsBits DEF Greeted
<1> QED
  BY <1>1, <1>6, <1>7, <1>8, <1>9 DEF Same, Reading

LEMMA PopStream ==
  ASSUME TypeInv, QuitInv, NEW w \in Worker, PopSender(w) \/ PopSession(w) \/ reset_state(w),
         NEW a \in Addr, Address(w) = a, FlowInv(a), StreamInv(a)
  PROVE  StreamInv(a)'
<1>1. /\ worker[w].at \in Forgetting /\ session' = session
      /\ (\E label \in Forgetting : Goto(w, label)) \/ Done(w)
      /\ sessions' = sessions \/ sessions' = [sessions EXCEPT ![a] = 0]
  BY DEF PopSender, PopSession, reset_state, At, Forgetting, sessionVars, Address
<1>2. Holds(w, a) /\ AtServer(a)
  BY <1>1 DEF Holds, Address, AtServer
<1>3. /\ \A u \in Worker \ {w} : ~Holds(u, a) /\ worker'[u] = worker[u]
      /\ worker'[w].at \in Forgetting \union {"idle"}
  BY <1>1, <1>2, GotoFields, DoneFields DEF FlowInv, OneInv
<1>4. \A u \in Worker : ~Serves(u, a) /\ ~Serves(u, a)'
  BY <1>1, <1>3 DEF Serves, Holds, Serving, Forgetting
<1>5. Alive(a) => client[a].awaiting = << 221 >> /\ ~Linked(a)
  <2>1. worker[w].task.verb = "QUIT"
    BY <1>1 DEF QuitInv, Leaving, Forgetting
  <2>2. Fits(client[a], worker[w].task)
    BY <1>2 DEF FlowInv, FitInv
  <2> QED
    BY <1>2, <2>1, <2>2 DEF FlowInv, OneInv, Fits, Alive
<1>6. ~Waiting(a) /\ ~Mailing(a) /\ ~Lost(a)
  <2>1. ~Waiting(a) /\ ~Lost(a)
    BY <1>1, <1>2 DEF Waiting, Lost, Forgetting, Streaming
  <2>2. ~InQueue(tasks, a)
    BY <1>2 DEF FlowInv, OneInv
  <2>3. client[a].awaiting = <<>> => ~Alive(a)
    BY <1>5
  <2> QED
    BY <1>4, <1>5, <2>1, <2>2, <2>3 DEF Mailing, Alive
<1>7. ~Reading(a)
  BY <1>6 DEF StreamInv, ReadingInv
<1>8. sessions'[a] \in {sessions[a], 0}
  BY <1>1, <1>2 DEF TypeInv, SessionInv
<1>9. ~Reading(a)' /\ (sessions'[a] # 0 => Buffer(a)' = Buffer(a))
  BY <1>1, <1>7, <1>8 DEF Reading, Buffer
<1>10. sessions[a] # 0 => Buffer(a) = <<>>
  BY <1>2, <1>4 DEF StreamInv, BufInv, Spent
<1>11. sessions'[a] # 0 => Buffer(a)' = <<>>
  BY <1>8, <1>9, <1>10
<1> QED
  BY <1>4, <1>9, <1>11 DEF StreamInv, SidInv, ReadingInv, BufInv

LEMMA WorkerStream ==
  ASSUME OnePart, TypeInv, QuitInv, LineInv, NEW w \in Worker, WorkerStep(w),
         NEW a \in Addr, FlowInv(a), StreamInv(a)
  PROVE  StreamInv(a)'
<1>1. CASE Take(w)
  BY <1>1, OtherTake, SameStream, TakeStream
<1>2. CASE ~Take(w) /\ Address(w) = a
  BY <1>2, ProcessStream, ExtendStream, CheckStream, CopyStream, ResetStream,
     FinalizeStream, CommandStream, ReplyStream, RestStream, ClearSame, SameStream, PopStream
     DEF WorkerStep
<1>3. CASE ~Take(w) /\ Address(w) # a
  <2>1. Moves(w) /\ worker[w].task.addr # a
    BY <1>3, WorkerMoves DEF Address
  <2> QED
    BY <2>1, OtherWorker, SameStream
<1> QED
  BY <1>1, <1>2, <1>3

LEMMA StreamStep ==
  ASSUME OnePart, TypeInv, QuitInv, LineInv, [Next]_vars, NEW a \in Addr \ Prompt,
         FlowInv(a), StreamInv(a)
  PROVE  StreamInv(a)'
<1>1. ASSUME NEW b \in Addr, ClientStep(b) PROVE StreamInv(a)'
  BY <1>1, ClientStream, OtherClientSame, SameStream
<1>2. ASSUME NEW b \in Addr, Reject(b) PROVE StreamInv(a)'
  BY <1>2, RejectSame, SameStream
<1>3. ASSUME NEW b \in Addr, Receive(b) PROVE StreamInv(a)'
  BY <1>3, ReceiveStream, OtherReceive, SameStream, ReapedStream
<1>4. CASE Greet
  <2>1. greeting.addr = a => Greeted(a)
    BY <1>4 DEF Greet, Greeted
  <2> QED
    BY <1>4, <2>1, GreetStream, OtherGreet, SameStream
<1>5. ASSUME NEW w \in Worker, WorkerStep(w) PROVE StreamInv(a)'
  BY <1>5, WorkerStream
<1>6. CASE UNCHANGED vars
  <2>1. Same(a)
    BY <1>6 DEF vars, loopVars, sessionVars, Same, Less, Linked, Greeted, Reading, Buffer,
                Holds, Serves, Rests
  <2> QED
    BY <2>1, SameStream
<1> QED
  BY <1>1, <1>2, <1>3, <1>4, <1>5, <1>6 DEF Next, LoopStep

LEMMA StreamInit == ASSUME Init, NEW a \in Addr PROVE StreamInv(a)
<1>1. sessions[a] = 0 /\ \A w \in Worker : worker[w] = Idle
  BY DEF Init
<1>2. \A w \in Worker : ~Serves(w, a)
  BY <1>1 DEF Serves, Serving, Idle
<1> QED
  BY <1>1, <1>2 DEF StreamInv, SidInv, ReadingInv, BufInv, Reading

-----------------------------------------------------------------------------
(* Messages: what is stored                                                *)

\* A step stores nothing of client a.
StoredFrame(a) ==
  /\ \A k \in DOMAIN stored : k \in DOMAIN stored' /\ stored'[k] = stored[k]
  /\ \A k \in DOMAIN stored' : From(k, a)' => k \in DOMAIN stored

\* A reply "message accepted" to a stored message, or one that is not new.
Grounded(a, r) ==
  r.code = 250 /\ r.part > 0 =>
    InStored(a, r.n) \/ \E i \in DOMAIN client[a].inbox : client[a].inbox[i] = r

\* A step that stores nothing of client a, and promises it nothing new.
Kept(a) ==
  /\ StoredFrame(a) /\ \A p \in Packets : Pending(a, p)' => Pending(a, p)
  /\ client'[a].n = client[a].n /\ client'[a].part = client[a].part
  /\ client'[a].accepted = client[a].accepted
  /\ \A i \in DOMAIN client'[a].inbox : Grounded(a, client'[a].inbox[i])
  /\ \A w \in Worker :
       /\ Serves(w, a)' /\ worker'[w].at = "reply" /\ worker'[w].code = 250
       /\ worker'[w].task.part > 0
       => /\ Serves(w, a) /\ worker[w].at = "reply" /\ worker[w].code = 250
          /\ worker'[w].task = worker[w].task

LEMMA NumberType ==
  ASSUME TypeInv, NEW a, StoredInv(a), NEW k \in DOMAIN stored, From(k, a)
  PROVE  Number(k) \in Nat
<1>1. /\ stored[k] \in [parts : Seq(Packets), rcpt : User]
      /\ stored[k].parts = <<stored[k].parts[1]>>
  BY LenProperties, ElementOfSeq DEF TypeInv, StoredType, StoredInv
<1>2. 1 \in DOMAIN stored[k].parts
  BY <1>1
<1>3. stored[k].parts[1] \in Packets
  BY <1>1, <1>2, LenProperties, ElementOfSeq
<1> QED
  BY <1>3 DEF Number, Packets

LEMMA SameNumbers ==
  ASSUME NEW a, StoredFrame(a)
  PROVE  /\ \A k \in DOMAIN stored : (From(k, a)' <=> From(k, a)) /\ Number(k)' = Number(k)
         /\ \A n : InStored(a, n)' <=> InStored(a, n)
<1>1. \A k \in DOMAIN stored : (From(k, a)' <=> From(k, a)) /\ Number(k)' = Number(k)
  BY DEF StoredFrame, From, Number
<1> QED
  BY <1>1 DEF StoredFrame, InStored

LEMMA StoredKept ==
  ASSUME TypeInv, NEW a, StoredFrame(a), StoredInv(a),
         \A n \in Nat : Used(a, n) => Used(a, n)',
         \A p \in Packets : Pending(a, p)' => Pending(a, p) \/ Free(a, p)'
  PROVE  StoredInv(a)'
<1>1. \A k \in DOMAIN stored' : From(k, a)' =>
        /\ k \in DOMAIN stored /\ From(k, a) /\ Number(k)' = Number(k)
        /\ stored'[k] = stored[k]
  BY SameNumbers DEF StoredFrame
<1>2. ASSUME NEW k \in DOMAIN stored', From(k, a)'
      PROVE  /\ stored'[k].parts = <<stored'[k].parts[1]>>
             /\ stored'[k].parts[1].part = 1 /\ stored'[k].parts[1].last
             /\ Used(a, Number(k))'
  <2>1. k \in DOMAIN stored /\ From(k, a) /\ Number(k)' = Number(k) /\ stored'[k] = stored[k]
    BY <1>1, <1>2
  <2>2. Number(k) \in Nat /\ Used(a, Number(k))
    BY <2>1, NumberType DEF StoredInv
  <2>3. Used(a, Number(k))'
    <3> DEFINE m == Number(k)
    <3>1. m \in Nat /\ Used(a, m) /\ m = Number(k)'
      BY <2>1, <2>2
    <3> HIDE DEF m
    <3> QED
      BY <3>1 DEF Used
  <2> QED
    BY <2>1, <2>3 DEF StoredInv
<1>3. \A k, l \in DOMAIN stored' :
        From(k, a)' /\ From(l, a)' /\ Number(k)' = Number(l)' => k = l
  BY <1>1 DEF StoredInv
<1>4. ASSUME NEW p \in Packets, Pending(a, p)' PROVE Free(a, p)'
  <2>1. CASE Free(a, p)'
    BY <2>1
  <2>2. CASE Pending(a, p)
    <3>1. Free(a, p) /\ p.n \in Nat
      BY <2>2 DEF StoredInv, Packets
    <3>2. Used(a, p.n) => Used(a, p.n)'
      BY <3>1
    <3> QED
      BY <3>1, <3>2, SameNumbers DEF Free
  <2> QED
    BY <1>4, <2>1, <2>2
<1> QED
  BY <1>2, <1>3, <1>4 DEF StoredInv

LEMMA KeptMail == ASSUME TypeInv, NEW a, Kept(a), MailInv(a) PROVE MailInv(a)'
<1>1. StoredInv(a)'
  <2>1. \A n \in Nat : Used(a, n) => Used(a, n)'
    BY DEF Kept, Used
  <2> QED
    BY <2>1, StoredKept DEF Kept, MailInv
<1>2. \A n : InStored(a, n) => InStored(a, n)'
  BY SameNumbers DEF Kept
<1>3. \A n \in client'[a].accepted : InStored(a, n)'
  BY <1>2 DEF Kept, MailInv, AcceptInv
<1>4. ASSUME NEW i \in DOMAIN client'[a].inbox, client'[a].inbox[i].code = 250,
             client'[a].inbox[i].part > 0, NEW n, n = client'[a].inbox[i].n
      PROVE  InStored(a, n)'
  <2>1. Grounded(a, client'[a].inbox[i])
    BY DEF Kept
  <2>2. InStored(a, n)
    BY <1>4, <2>1 DEF Grounded, MailInv, AcceptInv
  <2> QED
    BY <1>2, <2>2
<1>5. ASSUME NEW w \in Worker, Serves(w, a)', worker'[w].at = "reply",
             worker'[w].code = 250, worker'[w].task.part > 0, NEW n, n = worker'[w].task.n
      PROVE  InStored(a, n)'
  <2>1. /\ Serves(w, a) /\ worker[w].at = "reply" /\ worker[w].code = 250
        /\ worker'[w].task = worker[w].task
    BY <1>5 DEF Kept
  <2>2. InStored(a, n)
    BY <1>5, <2>1 DEF MailInv, AcceptInv
  <2> QED
    BY <1>2, <2>2
<1>6. AcceptInv(a)'
  BY <1>3, <1>4, <1>5 DEF AcceptInv, InStored
<1> QED
  BY <1>1, <1>6 DEF MailInv

LEMMA NothingStored == ASSUME NEW a, stored' = stored PROVE StoredFrame(a)
BY DEF StoredFrame

LEMMA SameKept == ASSUME NEW a, Same(a), StoredFrame(a) PROVE Kept(a)
<1>1. \A w \in Worker : Serves(w, a)' => Serves(w, a) /\ worker'[w] = worker[w]
  BY SameServes
<1>2. client'[a] = client[a]
  BY DEF Same, Less
<1>3. ASSUME NEW p, Pending(a, p)' PROVE Pending(a, p)
  BY <1>1, <1>3 DEF Pending, Same, Less
<1> QED
  BY <1>1, <1>2, <1>3 DEF Kept, Grounded

\* Nothing of a client that the reaper forgets is at the server.
LEMMA ReapedKept == ASSUME NEW a, Reaped(a), StoredFrame(a) PROVE Kept(a)
<1>1. /\ client'[a] = client[a] /\ inbound'[a] = inbound[a] /\ ~Greeted(a)'
      /\ ~InQueue(tasks', a) /\ \A w \in Worker : ~Serves(w, a)'
  BY DEF Reaped, AtServer
<1>2. ASSUME NEW p, Pending(a, p)' PROVE Pending(a, p)
  BY <1>1, <1>2 DEF Pending, Linked, InQueue
<1> QED
  BY <1>1, <1>2 DEF Kept, Grounded

-----------------------------------------------------------------------------
(* Messages: the client's steps                                            *)

\* A packet that is sent: a command, or the message that its DATA announced.
LEMMA SendMail ==
  ASSUME TypeInv, NEW a \in Addr, MailInv(a), NEW p \in Packets, NEW c \in ClientType,
         Send(a, p, c), c.accepted = client[a].accepted,
         c.inbox = client[a].inbox \/ c.inbox = <<>>,
         \/ p.n = client[a].n + 1 /\ p.part = 0
         \/ p.n = client[a].n /\ client[a].part = 0 /\ p.part # 0
  PROVE  MailInv(a)'
<1> DEFINE d == client'[a]
<1>1. /\ UNCHANGED <<stored, worker, greeting, tasks>> /\ inbound'[a] = p
      /\ d.n = p.n /\ d.part = p.part /\ d.inbox = c.inbox /\ d.accepted = c.accepted
  BY SendFields
<1>2. client[a].n \in Nat /\ p.n \in Nat
  BY ClientFields DEF Packets
<1>3. /\ \A k : From(k, a)' = From(k, a) /\ Number(k)' = Number(k)
      /\ \A n : InStored(a, n)' = InStored(a, n)
  BY <1>1 DEF From, Number, InStored
<1>4. StoredInv(a)'
  <2> HIDE DEF d
  <2>1. \A n \in Nat : Used(a, n) => Used(a, n)'
    BY <1>1, <1>2 DEF Used, d
  <2>2. Free(a, p)'
    <3>1. CASE p.part = 0
      BY <3>1 DEF Free
    <3>2. CASE p.n = client[a].n /\ client[a].part = 0 /\ p.part # 0
      <4>1. Used(a, p.n)'
        BY <1>1, <1>2, <3>2 DEF Used, d
      <4>2. ~InStored(a, p.n)
        <5> SUFFICES ASSUME NEW k \in DOMAIN stored, From(k, a), Number(k) = p.n PROVE FALSE
          BY DEF InStored
        <5>1. Number(k) \in Nat /\ Used(a, Number(k))
          BY NumberType DEF MailInv, StoredInv
        <5> QED
          BY <1>2, <3>2, <5>1 DEF Used
      <4> QED
        BY <1>3, <4>1, <4>2 DEF Free
    <3> QED
      BY <3>1, <3>2
  <2>3. \A q \in Packets : Pending(a, q)' => Pending(a, q) \/ Free(a, q)'
    <3> SUFFICES ASSUME NEW q \in Packets, Pending(a, q)', q # p PROVE Pending(a, q)
      BY <2>2
    <3> QED
      BY <1>1 DEF Pending, Greeted, Serves
  <2> QED
    BY <1>1, <2>1, <2>3, NothingStored, StoredKept DEF MailInv
<1>5. \A w \in Worker : Serves(w, a)' = Serves(w, a)
  BY <1>1 DEF Serves
<1>6. AcceptInv(a)'
  <2>1. CASE d.inbox = <<>>
    <3>1. DOMAIN d.inbox = {}
      BY <2>1
    <3> QED
      BY <1>1, <1>3, <1>5, <3>1 DEF MailInv, AcceptInv
  <2>2. CASE d.inbox = client[a].inbox
    BY <1>1, <1>3, <1>5, <2>2 DEF MailInv, AcceptInv
  <2> QED
    BY <1>1, <2>1, <2>2
<1> QED
  BY <1>4, <1>6 DEF MailInv

LEMMA ConnectMail ==
  ASSUME TypeInv, NEW a \in Addr, MailInv(a), _connect(a)
  PROVE  MailInv(a)'
<1> DEFINE codes == <<220, 250>>
           none == <<>>
           p == [PacketOf(a, client[a].n + 1, 0, "NOOP", Nobody, FALSE) EXCEPT !.bit = 0]
           c == [NewClient EXCEPT !.mode = "open", !.awaiting = codes,
                                  !.accepted = client[a].accepted]
<1>1. Send(a, p, c)
  BY DEF _connect
<1>2. p \in Packets /\ p.n = client[a].n + 1 /\ p.part = 0
  <2>1. client[a].n + 1 \in Nat /\ 0 \in 0..MaxChunks /\ Nobody \in STRING
    BY ClientFields, SmtpAssumption
  <2> QED
    BY <2>1, BitType DEF PacketOf, Packets, Verb
<1>3. codes \in Seq(Code) /\ NewClient.inbox = none
  BY DEF Code, NewClient
<1> HIDE DEF codes, none
<1>4. c \in ClientType /\ c.inbox = none /\ c.accepted = client[a].accepted
  BY <1>3, ClientFields, NewClientType DEF ClientType
<1> HIDE DEF p, c
<1>5. c.inbox = <<>>
  BY <1>4 DEF none
<1> QED
  BY <1>1, <1>2, <1>4, <1>5, SendMail

LEMMA SendCommandMail ==
  ASSUME TypeInv, NEW a \in Addr, MailInv(a), _send_command(a)
  PROVE  MailInv(a)'
<1> DEFINE p == PacketOf(a, client[a].n + 1, 0, Item(a).verb, Item(a).rcpt, FALSE)
           codes == <<Expects(Item(a).verb)>>
           c == [client[a] EXCEPT !.awaiting = codes]
<1>1. client[a] \in ClientType /\ client[a].n \in Nat
  BY ClientFields
<1>2. client[a].n + 1 \in 1..Len(script[a])
  BY <1>1, ScriptType DEF _send_command
<1>3. Item(a).verb \in Verb /\ Item(a).rcpt \in STRING
  BY <1>2, ScriptType DEF Item
<1>4. p \in Packets /\ p.n = client[a].n + 1 /\ p.part = 0
  <2>1. client[a].n + 1 \in Nat /\ 0 \in 0..MaxChunks
    BY <1>1, SmtpAssumption
  <2> QED
    BY <1>3, <2>1, BitType DEF PacketOf, Packets
<1>5. codes \in Seq(Code)
  BY DEF Code, Expects
<1>6. Send(a, p, c)
  BY DEF _send_command
<1> HIDE DEF codes
<1>7. c \in ClientType /\ c.inbox = client[a].inbox /\ c.accepted = client[a].accepted
  BY <1>1, <1>5 DEF ClientType
<1> HIDE DEF p, c
<1> QED
  BY <1>4, <1>6, <1>7, SendMail

LEMMA AbandonMail ==
  ASSUME TypeInv, NEW a \in Addr, MailInv(a), Abandon(a)
  PROVE  MailInv(a)'
<1> DEFINE p == PacketOf(a, client[a].n + 1, 0, "QUIT", Nobody, FALSE)
           c == [client[a] EXCEPT !.mode = "gone"]
<1>1. client[a] \in ClientType /\ client[a].n \in Nat
  BY ClientFields
<1>2. p \in Packets /\ p.n = client[a].n + 1 /\ p.part = 0
  <2>1. client[a].n + 1 \in Nat /\ 0 \in 0..MaxChunks /\ Nobody \in STRING
    BY <1>1, SmtpAssumption
  <2> QED
    BY <2>1, BitType DEF PacketOf, Packets, Verb
<1>3. Send(a, p, c)
  BY DEF Abandon
<1>4. c \in ClientType /\ c.inbox = client[a].inbox /\ c.accepted = client[a].accepted
  BY <1>1 DEF ClientType
<1> HIDE DEF p, c
<1> QED
  BY <1>2, <1>3, <1>4, SendMail

LEMMA SendDataMail ==
  ASSUME OnePart, TypeInv, NEW a \in Addr, MailInv(a), _send_data(a)
  PROVE  MailInv(a)'
<1> DEFINE codes == <<250>>
           p == PacketOf(a, client[a].n, client[a].part + 1, "chunk", Nobody, TRUE)
           c == [client[a] EXCEPT !.mode = "open", !.awaiting = codes]
<1>1. client[a] \in ClientType /\ client[a].n \in Nat /\ client[a].part = 0
  <2>1. /\ client[a] \in ClientType /\ ClientOK(a, client[a]) /\ client[a].part \in Nat
        /\ client[a].n \in Nat
    BY ClientFields
  <2>2. client[a].part < 1
    BY <2>1 DEF _send_data, ClientOK, OnePart
  <2> QED
    BY <2>1, <2>2
<1>2. client[a].part + 1 = 1 /\ MaxChunks = 1
  BY <1>1 DEF OnePart
<1>3. Send(a, p, c)
  BY <1>2 DEF _send_data
<1>4. p \in Packets /\ p.n = client[a].n /\ p.part # 0
  <2>1. client[a].part + 1 \in 0..MaxChunks /\ Nobody \in STRING
    BY <1>2, SmtpAssumption
  <2> QED
    BY <1>1, <2>1, BitType DEF PacketOf, Packets
<1>5. codes \in Seq(Code)
  BY DEF Code
<1> HIDE DEF codes
<1>6. c \in ClientType /\ c.inbox = client[a].inbox /\ c.accepted = client[a].accepted
  BY <1>1, <1>5 DEF ClientType
<1> HIDE DEF p, c
<1> QED
  BY <1>1, <1>3, <1>4, <1>6, SendMail

LEMMA GetReplyMail ==
  ASSUME TypeInv, NEW a \in Addr, FlowInv(a), MailInv(a), _get_reply(a)
  PROVE  MailInv(a)'
<1> DEFINE c == client[a]
           d == client'[a]
<1>1. /\ c.inbox # <<>> /\ Alive(a) /\ d.n = c.n /\ d.part = c.part
      /\ UNCHANGED <<inbound, greeting, tasks, worker, stored>>
  BY ReplyCases DEF loopVars
<1>2. c.inbox \in Seq(ReplyType)
  BY ClientFields
<1>3. /\ Head(c.inbox) = c.inbox[1] /\ 1 \in DOMAIN c.inbox
      /\ \A i \in DOMAIN Tail(c.inbox) : \E j \in DOMAIN c.inbox : Tail(c.inbox)[i] = c.inbox[j]
  BY <1>1, <1>2, TailCodes
<1>4. /\ d.inbox = Tail(c.inbox) \/ d.inbox = <<>>
      /\ \/ d.accepted = c.accepted
         \/ c.part > 0 /\ Head(c.inbox).code = 250 /\ d.accepted = c.accepted \union {c.n}
  BY ReplyLists DEF Takes
<1>5. \A n : InStored(a, n)' <=> InStored(a, n)
  BY <1>1 DEF InStored, From, Number
<1>6. StoredInv(a)'
  <2> HIDE DEF c, d
  <2>1. \A p \in Packets : Pending(a, p)' => Pending(a, p)
    BY <1>1 DEF Pending, Linked, Greeted, Serves
  <2>2. \A n \in Nat : Used(a, n) => Used(a, n)'
    BY <1>1 DEF Used, c, d
  <2> QED
    BY <1>1, <2>1, <2>2, NothingStored, StoredKept DEF MailInv
<1>7. ASSUME NEW n \in d.accepted PROVE InStored(a, n)
  <2>1. CASE n \in c.accepted
    BY <2>1 DEF MailInv, AcceptInv
  <2>2. CASE c.part > 0 /\ Head(c.inbox).code = 250 /\ n = c.n
    <3>1. Head(c.inbox).n = c.n /\ Head(c.inbox).part = c.part
      BY <1>1, <1>3 DEF FlowInv, ReplyInv
    <3> QED
      BY <1>3, <2>2, <3>1 DEF MailInv, AcceptInv
  <2> QED
    BY <1>4, <1>7, <2>1, <2>2
<1>8. ASSUME NEW i \in DOMAIN d.inbox, d.inbox[i].code = 250, d.inbox[i].part > 0
      PROVE  InStored(a, d.inbox[i].n)
  <2>1. CASE d.inbox = Tail(c.inbox)
    BY <1>3, <1>8, <2>1 DEF MailInv, AcceptInv
  <2>2. CASE d.inbox = <<>>
    <3>1. DOMAIN d.inbox = {}
      BY <2>2
    <3> QED
      BY <1>8, <3>1
  <2> QED
    BY <1>4, <2>1, <2>2
<1>9. AcceptInv(a)'
  <2>1. \A w \in Worker : Serves(w, a)' = Serves(w, a)
    BY <1>1 DEF Serves
  <2> HIDE DEF d
  <2>2. \A n \in d.accepted : InStored(a, n)'
    BY <1>5, <1>7
  <2>3. \A i \in DOMAIN d.inbox : d.inbox[i].code = 250 /\ d.inbox[i].part > 0 =>
          \E k \in DOMAIN stored : From(k, a) /\ Number(k) = d.inbox[i].n
    BY <1>8 DEF InStored
  <2>4. \A w \in Worker : /\ Serves(w, a) /\ worker[w].at = "reply" /\ worker[w].code = 250
                          /\ worker[w].task.part > 0
          => \E k \in DOMAIN stored : From(k, a) /\ Number(k) = worker[w].task.n
    BY DEF MailInv, AcceptInv, InStored
  <2>5. \A k : From(k, a)' = From(k, a) /\ Number(k)' = Number(k)
    BY <1>1 DEF From, Number
  <2> QED
    BY <1>1, <2>1, <2>2, <2>3, <2>4, <2>5 DEF AcceptInv, InStored, d
<1> QED
  BY <1>6, <1>9 DEF MailInv

\* A client that gives up is promised nothing.
LEMMA GivesUpKept ==
  ASSUME TypeInv, NEW a \in Addr, ClientGivesUp(a)
  PROVE  Kept(a)
<1>1. UNCHANGED <<stored, worker, greeting, tasks>> /\ client[a] \in ClientType
  BY ClientFields DEF ClientGivesUp
<1>2. inbound'[a] = inbound[a] \/ inbound'[a] = NoPacket
  BY DEF ClientGivesUp, TypeInv, LinkInv
<1>3. /\ client'[a].n = client[a].n /\ client'[a].part = client[a].part
      /\ client'[a].accepted = client[a].accepted
      /\ client'[a].inbox = client[a].inbox \/ client'[a].inbox = <<>>
  <2>1. CASE ~Alive(a)
    <3>1. client' = client
      BY <2>1 DEF ClientGivesUp, TypeInv, ClientInv
    <3> QED
      BY <3>1
  <2>2. CASE Alive(a)
    <3> DEFINE f == Failed(client[a])
    <3>1. /\ f \in ClientType /\ f.n = client[a].n /\ f.part = client[a].part
          /\ f.accepted = client[a].accepted /\ f.inbox = <<>>
      BY <1>1, FailedType, FailedFields
    <3>2. client'[a] = [f EXCEPT !.bit = inbound[a].bit]
      BY <2>2 DEF ClientGivesUp, TypeInv, ClientInv
    <3> HIDE DEF f
    <3>3. /\ client'[a].n = f.n /\ client'[a].part = f.part
          /\ client'[a].accepted = f.accepted /\ client'[a].inbox = f.inbox
      BY <3>1, <3>2 DEF ClientType
    <3> QED
      BY <3>1, <3>3
  <2> QED
    BY <2>1, <2>2
<1>4. \A p \in Packets : Pending(a, p)' => Pending(a, p)
  BY <1>1, <1>2 DEF Pending, Linked, Greeted, Serves
<1>5. \A i \in DOMAIN client'[a].inbox : Grounded(a, client'[a].inbox[i])
  <2>1. CASE client'[a].inbox = <<>>
    <3>1. DOMAIN client'[a].inbox = {}
      BY <2>1
    <3> QED
      BY <3>1
  <2> QED
    BY <1>3, <2>1 DEF Grounded
<1> QED
  BY <1>1, <1>3, <1>4, <1>5, NothingStored DEF Kept, Serves

LEMMA ClientMail ==
  ASSUME OnePart, TypeInv, NEW a \in Addr, FlowInv(a), MailInv(a), ClientStep(a)
  PROVE  MailInv(a)'
BY ConnectMail, SendCommandMail, SendDataMail, AbandonMail, GetReplyMail, GivesUpKept, KeptMail
   DEF ClientStep

-----------------------------------------------------------------------------
(* Messages: the serve loop's steps                                        *)

LEMMA ReceiveKept ==
  ASSUME TypeInv, NEW a \in Addr, Receive(a)
  PROVE  Kept(a)
<1>1. /\ UNCHANGED <<client, worker, stored>> /\ ~Linked(a)' /\ Linked(a)
      /\ inbound[a] \in Packets /\ tasks \in Seq(Packets)
      /\ greeting' = NoPacket \/ greeting' = inbound[a]
      /\ tasks' = tasks \/ tasks' = Append(tasks, inbound[a])
  BY ReceiveFields DEF Live, TypeInv, PoolInv
<1>2. \A i \in DOMAIN tasks' : \/ tasks'[i] = inbound[a]
                               \/ \E j \in DOMAIN tasks : tasks[j] = tasks'[i]
  BY <1>1, AppendQueue
<1>3. ASSUME NEW p \in Packets, Pending(a, p)' PROVE Pending(a, p)
  BY <1>1, <1>2, <1>3 DEF Pending, Greeted, Serves
<1> QED
  BY <1>1, <1>3, NothingStored DEF Kept, Grounded, Serves

LEMMA GreetKept ==
  ASSUME TypeInv, Greet, NEW a \in Addr, Greeted(a)
  PROVE  Kept(a)
<1>1. /\ _send_reply(a, 220, greeting) /\ UNCHANGED <<worker, stored, inbound>>
      /\ greeting \in Packets /\ 220 \in Code /\ tasks \in Seq(Packets)
      /\ tasks' = Append(tasks, greeting) /\ ~Greeted(a)'
  BY NoBits DEF Greet, Greeted, TypeInv, LinkInv, PoolInv, Code
<1>2. \A i \in DOMAIN tasks' : \/ tasks'[i] = greeting
                               \/ \E j \in DOMAIN tasks : tasks[j] = tasks'[i]
  BY <1>1, AppendQueue
<1>3. ASSUME NEW p \in Packets, Pending(a, p)' PROVE Pending(a, p)
  BY <1>1, <1>2, <1>3 DEF Pending, Linked, Serves
<1>4. /\ client'[a].n = client[a].n /\ client'[a].part = client[a].part
      /\ client'[a].accepted = client[a].accepted
      /\ \A i \in DOMAIN client'[a].inbox :
           \/ i \in DOMAIN client[a].inbox /\ client'[a].inbox[i] = client[a].inbox[i]
           \/ client'[a].inbox[i].code = 220
  <2>1. /\ client'[a].n = client[a].n /\ client'[a].part = client[a].part
        /\ client'[a].accepted = client[a].accepted
        /\ DOMAIN client[a].inbox = 1..Has(a) /\ DOMAIN client'[a].inbox = 1..Has(a)'
        /\ \A i \in 1..Has(a)' :
             \/ i \in 1..Has(a) /\ client'[a].inbox[i] = client[a].inbox[i]
             \/ client'[a].inbox[i].code = 220
    BY <1>1, ToldClient
  <2> QED
    BY <2>1
<1>5. \A i \in DOMAIN client'[a].inbox : Grounded(a, client'[a].inbox[i])
  BY <1>4 DEF Grounded
<1> QED
  BY <1>1, <1>3, <1>4, <1>5, NothingStored DEF Kept, Serves

-----------------------------------------------------------------------------
(* Messages: the pool's steps                                              *)

LEMMA TakeKept ==
  ASSUME TypeInv, NEW w \in Worker, Take(w), NEW a \in Addr, Head(tasks).addr = a
  PROVE  Kept(a)
<1>1. /\ tasks # <<>> /\ tasks' = Tail(tasks) /\ tasks \in Seq(Packets)
      /\ worker'[w].at = "process" /\ worker'[w].task = Head(tasks)
      /\ UNCHANGED <<client, stored, inbound, greeting>>
      /\ \A u \in Worker \ {w} : worker'[u] = worker[u]
  BY TakeFields DEF WorkerOnly, loopVars, TypeInv, PoolInv
<1>2. /\ \A i \in DOMAIN tasks' : \E j \in DOMAIN tasks : tasks[j] = tasks'[i]
      /\ \E j \in DOMAIN tasks : tasks[j] = Head(tasks)
  BY <1>1, TailQueue
<1>3. ASSUME NEW p \in Packets, Pending(a, p)' PROVE Pending(a, p)
  <2>1. ASSUME NEW u \in Worker, Serves(u, a)', worker'[u].at # "reply", p = worker'[u].task
        PROVE  Pending(a, p)
    <3>1. CASE u = w
      BY <1>1, <1>2, <2>1, <3>1 DEF Pending
    <3>2. CASE u # w
      BY <1>1, <2>1, <3>2 DEF Pending, Serves
    <3> QED
      BY <3>1, <3>2
  <2> QED
    BY <1>1, <1>2, <1>3, <2>1 DEF Pending, Linked, Greeted
<1>4. \A u \in Worker : Serves(u, a)' /\ worker'[u].at = "reply" =>
                          Serves(u, a) /\ worker'[u] = worker[u]
  BY <1>1 DEF Serves
<1> QED
  BY <1>1, <1>3, <1>4, NothingStored DEF Kept, Grounded

\* A step of a worker that does not accept a message.
LEMMA OwnKept ==
  ASSUME TypeInv, QuitInv, NEW w \in Worker, WorkerStep(w), Moves(w), NEW a \in Addr,
         StoredFrame(a), client'[a].accepted = client[a].accepted,
         worker[w].at = "reply" => worker'[w].at \notin Serving,
         worker'[w].at = "reply" /\ worker'[w].code = 250 => worker[w].task.part = 0,
         \A i \in DOMAIN client'[a].inbox : Grounded(a, client'[a].inbox[i])
  PROVE  Kept(a)
<1>1. SameClient(a) /\ inbound' = inbound /\ greeting' = greeting /\ tasks' = tasks
  BY WorkerEffect DEF Moves
<1>2. \A u \in Worker \ {w} : worker'[u] = worker[u]
  BY DEF Moves
<1>3. Serves(w, a)' => /\ Serves(w, a) /\ worker[w].at # "reply"
                       /\ worker'[w].task = worker[w].task
  BY DEF Moves, Serves
<1>4. ASSUME NEW p \in Packets, Pending(a, p)' PROVE Pending(a, p)
  <2>1. ASSUME NEW u \in Worker, Serves(u, a)', worker'[u].at # "reply"
        PROVE  Serves(u, a) /\ worker[u].at # "reply" /\ worker'[u].task = worker[u].task
    BY <1>2, <1>3, <2>1 DEF Serves
  <2> QED
    BY <1>1, <1>4, <2>1 DEF Pending, Linked, Greeted
<1>5. ASSUME NEW u \in Worker, Serves(u, a)', worker'[u].at = "reply",
             worker'[u].code = 250, worker'[u].task.part > 0
      PROVE  /\ Serves(u, a) /\ worker[u].at = "reply" /\ worker[u].code = 250
             /\ worker'[u].task = worker[u].task
  <2>1. u # w
    <3> SUFFICES ASSUME u = w PROVE FALSE
      OBVIOUS
    <3>1. worker'[w].task.part = 0
      BY <1>3, <1>5
    <3> QED
      BY <1>5, <3>1
  <2> QED
    BY <1>2, <1>5, <2>1 DEF Serves
<1> QED
  BY <1>1, <1>4, <1>5 DEF Kept, SameClient

LEMMA MessageOne == ASSUME NEW p \in Packets PROVE Message(<<p>>) = <<p>>
<1> DEFINE q == <<p>>
           ends == {i \in DOMAIN q : q[i].last}
<1>1. q \in Seq(Packets) /\ Len(q) = 1 /\ DOMAIN q = {1} /\ q[1] = p
  OBVIOUS
<1>2. CASE ends = {}
  BY <1>2 DEF Message
<1>3. CASE ends # {}
  <2>1. ends = {1}
    BY <1>1, <1>3
  <2>2. (CHOOSE i \in ends : \A j \in ends : i <= j) = 1
    BY <2>1
  <2>3. Message(q) = SubSeq(q, 1, 1)
    BY <1>3, <2>2 DEF Message
  <2>4. SubSeq(q, 1, 1) = q
    <3> HIDE DEF q
    <3> QED
      BY <1>1, SubSeqFull
  <2> QED
    BY <2>3, <2>4
<1> QED
  BY <1>2, <1>3

\* The message of packet p is stored behind the others.
Stores(p) ==
  \E last :
    /\ last \notin DOMAIN stored /\ DOMAIN stored' = DOMAIN stored \union {last}
    /\ \A k \in DOMAIN stored : stored'[k] = stored[k]
    /\ stored'[last].parts = <<p>>

\* What _finalize_message does with a message of one packet.
LEMMA FinalizeFields ==
  ASSUME TypeInv, NEW w \in Worker, _finalize_message(w),
         worker[w].full = <<worker[w].task>>, worker[w].task \in Packets
  PROVE  /\ worker'[w].at = "reply" /\ worker'[w].task = worker[w].task
         /\ \/ stored' = stored /\ worker'[w].code # 250
            \/ Stores(worker[w].task)
<1> DEFINE p == worker[w].task
           whole == Message(worker[w].full)
           m == [parts |-> whole, rcpt |-> Head(Mine(w).rcpt_to)]
           more == Append(stored, m)
<1>1. \/ stored' = stored /\ \E code \in {451, 550} : Answer(w, code)
      \/ stored' = more /\ Answer(w, 250)
  BY DEF _finalize_message
<1>2. whole = <<p>>
  BY MessageOne
<1>3. m.parts = <<p>>
  BY <1>2
<1> HIDE DEF m, whole, more
<1>4. CASE stored' = stored /\ \E code \in {451, 550} : Answer(w, code)
  BY <1>4, AnswerFields
<1>5. CASE stored' = more /\ Answer(w, 250)
  <2> DEFINE S == Seq(Packets)
             last == Len(stored) + 1
  <2>1. Len(stored) \in Nat /\ DOMAIN stored = 1..Len(stored)
    BY LenProperties DEF TypeInv, StoredType
  <2>2. /\ DOMAIN more = 1..last /\ \A k \in 1..Len(stored) : more[k] = stored[k]
        /\ more[last] = m
    <3> DEFINE T == [parts : Seq(Packets), rcpt : User] \union {m}
    <3>1. stored \in Seq(T) /\ m \in T
      <4>1. \A k \in 1..Len(stored) : stored[k] \in T
        BY <2>1, ElementOfSeq DEF TypeInv, StoredType
      <4>2. stored = [k \in 1..Len(stored) |-> stored[k]]
        BY <2>1, LenProperties DEF TypeInv, StoredType
      <4> HIDE DEF T
      <4>3. stored \in Seq(T)
        BY <2>1, <4>1, <4>2
      <4> QED
        BY <4>3 DEF T
    <3> HIDE DEF T
    <3>2. more \in Seq(T) /\ Len(more) = Len(stored) + 1
      BY <3>1, AppendProperties DEF more
    <3>3. DOMAIN more = 1..last
      BY <3>2, LenProperties
    <3> QED
      BY <3>1, <3>3, AppendProperties DEF more
  <2>3. last \notin DOMAIN stored /\ DOMAIN more = DOMAIN stored \union {last}
    BY <2>1, <2>2
  <2>4. worker'[w].at = "reply" /\ worker'[w].task = worker[w].task
    BY <1>5, AnswerFields
  <2> HIDE DEF last
  <2>5. /\ last \notin DOMAIN stored /\ DOMAIN stored' = DOMAIN stored \union {last}
        /\ \A k \in DOMAIN stored : stored'[k] = stored[k]
        /\ stored'[last].parts = <<p>>
    BY <1>3, <1>5, <2>1, <2>2, <2>3
  <2>6. Stores(p)
    BY <2>5 DEF Stores
  <2> QED
    BY <2>4, <2>6
<1> QED
  BY <1>1, <1>4, <1>5

LEMMA FinalizeMail ==
  ASSUME TypeInv, QuitInv, NEW w \in Worker, _finalize_message(w), NEW a \in Addr,
         Address(w) = a, FlowInv(a), StreamInv(a), MailInv(a)
  PROVE  MailInv(a)'
<1> DEFINE p == worker[w].task
<1>1. /\ worker[w].at = "finalize" /\ client' = client
  BY DEF _finalize_message, At, WorkerOnly
<1>2. Serves(w, a) /\ WorkerStep(w) /\ Moves(w)
  <2>1. WorkerStep(w) /\ ~Take(w)
    BY <1>1 DEF WorkerStep, Take, At
  <2> QED
    BY <1>1, <2>1, WorkerMoves DEF Serves, Serving, Address
<1>3. worker[w].full = <<p>> /\ p.part = 1
  BY FinalizeStream
<1>4. /\ p \in Packets /\ Fits(client[a], p) /\ p.addr = a
      /\ \A u \in Worker \ {w} : ~Serves(u, a)'
      /\ (Linked(a)' <=> Linked(a)) /\ inbound' = inbound
      /\ ~Greeted(a)' /\ ~InQueue(tasks', a)
  BY <1>2, InService, InServiceNext DEF Address
<1>5. /\ p.last /\ p.n \in Nat /\ client[a].n \in Nat
      /\ Used(a, p.n) /\ ~InStored(a, p.n)
  <2>1. Pending(a, p)
    BY <1>1, <1>2 DEF Pending
  <2> QED
    BY <1>3, <1>4, <2>1, ClientFields DEF Fits, MailInv, StoredInv, Free, Packets
<1>6. /\ worker'[w].at = "reply" /\ worker'[w].task = p
      /\ \/ stored' = stored /\ worker'[w].code # 250
         \/ Stores(p)
  BY <1>3, <1>4, FinalizeFields
<1>7. CASE stored' = stored /\ worker'[w].code # 250
  <2>1. \A i \in DOMAIN client'[a].inbox : Grounded(a, client'[a].inbox[i])
    BY <1>1 DEF Grounded
  <2> QED
    BY <1>1, <1>2, <1>7, <2>1, NothingStored, OwnKept, KeptMail
<1>8. ASSUME NEW q \in Packets, Pending(a, q)' PROVE q.part = 0
  <2>1. Linked(a) /\ q = inbound[a]
    BY <1>4, <1>6, <1>8 DEF Pending, InQueue
  <2>2. AtServer(a)
    BY <1>2 DEF AtServer, Holds, Serves
  <2> QED
    BY <2>1, <2>2 DEF FlowInv, BitInv
<1> HIDE DEF p
<1>9. CASE Stores(p)
  <2>1. PICK last : /\ last \notin DOMAIN stored /\ DOMAIN stored' = DOMAIN stored \union {last}
                    /\ \A k \in DOMAIN stored : stored'[k] = stored[k]
                    /\ stored'[last].parts = <<p>>
    BY <1>9 DEF Stores
  <2>2. stored'[last].parts[1] = p
    BY <2>1
  <2>3. /\ From(last, a)' /\ Number(last)' = p.n
        /\ \A k \in DOMAIN stored : (From(k, a)' <=> From(k, a)) /\ Number(k)' = Number(k)
    BY <1>4, <2>1, <2>2 DEF From, Number
  <2>4. \A n : InStored(a, n) => InStored(a, n)'
    BY <2>1, <2>3 DEF InStored
  <2>5. \A n : n = p.n => InStored(a, n)'
    BY <2>1, <2>3 DEF InStored
  <2>6. \A k \in DOMAIN stored : From(k, a) => Number(k) # p.n
    BY <1>5 DEF InStored
  <2>7. \A k \in DOMAIN stored' : From(k, a)' =>
          /\ stored'[k].parts = <<stored'[k].parts[1]>>
          /\ stored'[k].parts[1].part = 1 /\ stored'[k].parts[1].last
          /\ Used(a, Number(k))'
    <3>1. ASSUME NEW k \in DOMAIN stored, From(k, a)'
          PROVE  /\ stored'[k].parts = <<stored'[k].parts[1]>>
                 /\ stored'[k].parts[1].part = 1 /\ stored'[k].parts[1].last
                 /\ Used(a, Number(k))'
      <4>1. /\ From(k, a) /\ Number(k)' = Number(k) /\ stored'[k] = stored[k]
            /\ Used(a, Number(k))
        BY <2>1, <2>3, <3>1 DEF MailInv, StoredInv
      <4>2. Used(a, Number(k))'
        BY <1>1, <4>1 DEF Used
      <4> QED
        BY <4>1, <4>2 DEF MailInv, StoredInv
    <3>2. /\ stored'[last].parts = <<stored'[last].parts[1]>>
          /\ stored'[last].parts[1].part = 1 /\ stored'[last].parts[1].last
      BY <1>3, <1>5, <2>1, <2>2 DEF p
    <3>3. Used(a, Number(last))'
      BY <1>1, <1>5, <2>3 DEF Used
    <3> QED
      BY <2>1, <3>1, <3>2, <3>3
  <2>8. \A k, l \in DOMAIN stored' :
          From(k, a)' /\ From(l, a)' /\ Number(k)' = Number(l)' => k = l
    BY <2>1, <2>3, <2>6 DEF MailInv, StoredInv
  <2>9. StoredInv(a)'
    <3>1. \A q \in Packets : Pending(a, q)' => Free(a, q)'
      BY <1>8 DEF Free
    <3> QED
      BY <2>7, <2>8, <3>1 DEF StoredInv
  <2>10. AcceptInv(a)'
    <3>1. \A n \in client'[a].accepted : InStored(a, n)'
      BY <1>1, <2>4 DEF MailInv, AcceptInv
    <3>2. ASSUME NEW i \in DOMAIN client[a].inbox, client[a].inbox[i].code = 250,
                 client[a].inbox[i].part > 0, NEW n, n = client[a].inbox[i].n
          PROVE  InStored(a, n)'
      BY <2>4, <3>2 DEF MailInv, AcceptInv
    <3>3. ASSUME NEW u \in Worker, Serves(u, a)' PROVE worker'[u].task.n = p.n
      BY <1>4, <1>6, <3>3 DEF p
    <3> QED
      BY <1>1, <2>5, <3>1, <3>2, <3>3 DEF AcceptInv, InStored
  <2> QED
    BY <2>9, <2>10 DEF MailInv
<1> QED
  BY <1>6, <1>7, <1>9 DEF p

\* A worker with another client's message stores nothing of this one.
LEMMA OtherFinalize ==
  ASSUME TypeInv, QuitInv, NEW w \in Worker, _finalize_message(w), NEW b \in Addr,
         Address(w) = b, FlowInv(b), StreamInv(b), NEW a, a # b
  PROVE  StoredFrame(a)
<1> DEFINE p == worker[w].task
<1>1. worker[w].full = <<p>> /\ p \in Packets /\ p.addr = b
  <2>1. p \in Packets
    BY WorkerFields DEF _finalize_message, At
  <2> QED
    BY <2>1, FinalizeStream DEF Address
<1>2. CASE stored' = stored
  BY <1>2, NothingStored
<1>3. stored' = stored \/ Stores(p)
  BY <1>1, FinalizeFields
<1> HIDE DEF p
<1>4. CASE Stores(p)
  <2>1. PICK last : /\ last \notin DOMAIN stored /\ DOMAIN stored' = DOMAIN stored \union {last}
                    /\ \A k \in DOMAIN stored : stored'[k] = stored[k]
                    /\ stored'[last].parts = <<p>>
    BY <1>4 DEF Stores
  <2>2. stored'[last].parts[1] = p
    BY <2>1
  <2>3. ~From(last, a)'
    BY <1>1, <2>2 DEF From
  <2> QED
    BY <2>1, <2>3 DEF StoredFrame
<1> QED
  BY <1>2, <1>3, <1>4

LEMMA ReplyKept ==
  ASSUME TypeInv, QuitInv, NEW w \in Worker, Reply(w), NEW a \in Addr, Address(w) = a,
         MailInv(a)
  PROVE  Kept(a)
<1> DEFINE p == worker[w].task
           code == worker[w].code
<1>1. /\ worker[w].at = "reply" /\ _send_reply(a, code, p) /\ stored' = stored
      /\ Goto(w, "pop_sender") \/ Goto(w, "clear") \/ Goto(w, "rest") \/ Done(w)
  BY DEF Reply, At, Address
<1>2. /\ p \in Packets /\ code \in Code /\ Serves(w, a) /\ WorkerStep(w) /\ Moves(w)
  <2>1. WorkerStep(w) /\ ~Take(w)
    BY <1>1 DEF WorkerStep, Take, At
  <2> QED
    BY <1>1, <2>1, WorkerMoves, WorkerFields DEF Serves, Serving, Address, At
<1>3. worker'[w].at \in {"pop_sender", "clear", "rest", "idle"}
  BY <1>1, GotoFields, DoneFields
<1>4. /\ client'[a].accepted = client[a].accepted
      /\ \A i \in DOMAIN client'[a].inbox :
           \/ i \in DOMAIN client[a].inbox /\ client'[a].inbox[i] = client[a].inbox[i]
           \/ /\ client'[a].inbox[i].code = code /\ client'[a].inbox[i].n = p.n
              /\ client'[a].inbox[i].part = p.part
  BY <1>1, <1>2, ToldClient
<1>5. code = 250 /\ p.part > 0 => InStored(a, p.n)
  BY <1>1, <1>2 DEF MailInv, AcceptInv
<1>6. \A i \in DOMAIN client'[a].inbox : Grounded(a, client'[a].inbox[i])
  BY <1>4, <1>5 DEF Grounded
<1>7. worker'[w].at \notin Serving /\ worker'[w].at # "reply"
  BY <1>3 DEF Serving
<1> QED
  BY <1>1, <1>2, <1>4, <1>6, <1>7, NothingStored, OwnKept

LEMMA CommandKept ==
  ASSUME OnePart, TypeInv, QuitInv, NEW w \in Worker, _handle_command_stream(w),
         NEW a \in Addr, Address(w) = a, FlowInv(a), StreamInv(a)
  PROVE  Kept(a)
<1> DEFINE p == worker[w].task
<1>1. worker[w].at = "command" /\ client' = client /\ stored' = stored
  BY DEF _handle_command_stream, At, WorkerOnly
<1>2. Serves(w, a) /\ WorkerStep(w) /\ Moves(w)
  <2>1. WorkerStep(w) /\ ~Take(w)
    BY <1>1 DEF WorkerStep, Take, At
  <2> QED
    BY <1>1, <2>1, WorkerMoves DEF Serves, Serving, Address
<1>3. worker'[w].at = "reply" /\ worker'[w].code = 250 => p.verb # "chunk"
  BY <1>2, CommandFields
<1>4. p.verb # "chunk" => p.part = 0
  <2>1. p \in Packets /\ Fits(client[a], p)
    BY <1>2, InService
  <2>2. p.part \in 0..1
    BY <2>1 DEF Packets, OnePart
  <2>3. p.verb # "chunk" => p.part # 1
    BY <2>1 DEF Fits
  <2> QED
    BY <2>2, <2>3
<1>5. \A i \in DOMAIN client'[a].inbox : Grounded(a, client'[a].inbox[i])
  BY <1>1 DEF Grounded
<1> QED
  BY <1>1, <1>2, <1>3, <1>4, <1>5, NothingStored, OwnKept

LEMMA StoredOnlyByFinalize ==
  ASSUME NEW w \in Worker, WorkerStep(w), ~_finalize_message(w)
  PROVE  stored' = stored
BY DEF WorkerStep, Take, _process_packet, Extend, Check, Copy, Reset,
       _handle_command_stream, Reply, Rest, Clear, PopSender, PopSession, reset_state

LEMMA RestKept ==
  ASSUME TypeInv, QuitInv, NEW w \in Worker, Rest(w), NEW a \in Addr, Address(w) = a
  PROVE  Kept(a)
<1> DEFINE p == worker[w].task
<1>1. worker[w].at = "rest" /\ _send_reply(a, 500, p) /\ stored' = stored
  BY DEF Rest, At, Address
<1>2. /\ p \in Packets /\ 500 \in Code /\ WorkerStep(w) /\ Moves(w)
  <2>1. WorkerStep(w) /\ ~Take(w)
    BY <1>1 DEF WorkerStep, Take, At
  <2> QED
    BY <1>1, <2>1, WorkerMoves, WorkerFields DEF At, Code
<1>3. worker'[w].at \in {"rest", "idle"}
  BY RestFields
<1>4. /\ client'[a].accepted = client[a].accepted
      /\ \A i \in DOMAIN client'[a].inbox :
           \/ i \in DOMAIN client[a].inbox /\ client'[a].inbox[i] = client[a].inbox[i]
           \/ client'[a].inbox[i].code = 500
  BY <1>1, <1>2, ToldClient
<1>5. \A i \in DOMAIN client'[a].inbox : Grounded(a, client'[a].inbox[i])
  BY <1>4 DEF Grounded
<1> QED
  BY <1>1, <1>2, <1>3, <1>4, <1>5, NothingStored, OwnKept

\* The steps of a worker that are no answer.
LEMMA SilentKept ==
  ASSUME TypeInv, QuitInv, NEW w \in Worker, WorkerStep(w), Moves(w), NEW a \in Addr,
         ~_finalize_message(w), ~_handle_command_stream(w), ~Reply(w), ~Rest(w)
  PROVE  Kept(a)
<1>1. stored' = stored /\ client' = client
  BY StoredOnlyByFinalize, StepKeepsClient
<1>2. worker'[w].at # "reply" /\ worker[w].at # "reply"
  <2>1. CASE Take(w)
    BY <2>1, TakeFields
  <2>2. CASE _process_packet(w)
    BY <2>2, ProcessFields
  <2>3. CASE Extend(w) \/ Check(w) \/ Reset(w) \/ Clear(w)
    BY <2>3, GotoFields, DoneFields DEF Extend, Check, Reset, Clear, At
  <2>4. CASE Copy(w)
    BY <2>4, CopyFields
  <2>5. CASE PopSender(w) \/ PopSession(w) \/ reset_state(w)
    BY <2>5, GotoFields, DoneFields DEF PopSender, PopSession, reset_state, At
  <2> QED
    BY <2>1, <2>2, <2>3, <2>4, <2>5 DEF WorkerStep
<1>3. \A i \in DOMAIN client'[a].inbox : Grounded(a, client'[a].inbox[i])
  BY <1>1 DEF Grounded
<1> QED
  BY <1>1, <1>2, <1>3, NothingStored, OwnKept

LEMMA WorkerMail ==
  ASSUME OnePart, TypeInv, QuitInv, NEW w \in Worker, WorkerStep(w),
         \A b \in Addr : FlowInv(b) /\ StreamInv(b), NEW a \in Addr, MailInv(a)
  PROVE  MailInv(a)'
<1>1. CASE Take(w)
  <2>1. stored' = stored
    BY <1>1, TakeFields
  <2>2. Kept(a)
    BY <1>1, <2>1, TakeKept, OtherTake, SameKept, NothingStored
  <2> QED
    BY <2>2, KeptMail
<1>2. CASE ~Take(w) /\ Address(w) = a
  <2>1. Moves(w)
    BY <1>2, WorkerMoves
  <2> QED
    BY <1>2, <2>1, FinalizeMail, ReplyKept, RestKept, CommandKept, SilentKept, KeptMail
<1>3. CASE ~Take(w) /\ Address(w) # a
  <2>1. Moves(w) /\ worker[w].task.addr # a
    BY <1>3, WorkerMoves DEF Address
  <2>2. worker[w].at # "idle"
    BY <1>3, ProcessFields, CopyFields
       DEF WorkerStep, Extend, Check, Reset, _finalize_message, _handle_command_stream, Reply,
           Rest, Clear, PopSender, PopSession, reset_state, At
  <2>3. Address(w) \in Addr
    BY <2>2, WorkerFields DEF At
  <2>4. Same(a)
    BY <2>1, OtherWorker
  <2>5. StoredFrame(a)
    BY <1>3, <2>3, OtherFinalize, StoredOnlyByFinalize, NothingStored
  <2> QED
    BY <2>4, <2>5, SameKept, KeptMail
<1> QED
  BY <1>1, <1>2, <1>3

\* Every stored message starts with a packet.
PartsInv == \A k \in DOMAIN stored : stored[k].parts[1] \in Packets

AllMail == PartsInv /\ \A a \in Addr : StreamInv(a) /\ MailInv(a)

LEMMA OtherStored ==
  ASSUME Next, \A w \in Worker : ~_finalize_message(w)
  PROVE  stored' = stored
<1>1. ASSUME NEW a \in Addr, ClientStep(a) PROVE stored' = stored
  BY <1>1 DEF ClientStep, _connect, _send_command, _send_data, Abandon, _get_reply,
              ClientGivesUp, Send
<1>2. ASSUME NEW a \in Addr, LoopStep(a) PROVE stored' = stored
  BY <1>2 DEF LoopStep, Reject, Receive
<1>3. ASSUME Greet PROVE stored' = stored
  BY <1>3 DEF Greet
<1> QED
  BY <1>1, <1>2, <1>3, StoredOnlyByFinalize DEF Next

LEMMA PartsStep ==
  ASSUME TypeInv, QuitInv, Next, \A b \in Addr : FlowInv(b) /\ StreamInv(b), PartsInv
  PROVE  PartsInv'
<1>1. CASE stored' = stored
  BY <1>1 DEF PartsInv
<1>2. ASSUME NEW w \in Worker, _finalize_message(w) PROVE PartsInv'
  <2> DEFINE p == worker[w].task
  <2>1. p \in Packets /\ Address(w) \in Addr
    BY <1>2, WorkerFields DEF _finalize_message, At
  <2>2. worker[w].full = <<p>>
    BY <1>2, <2>1, FinalizeStream
  <2>3. stored' = stored \/ Stores(p)
    BY <1>2, <2>1, <2>2, FinalizeFields
  <2> HIDE DEF p
  <2>4. CASE Stores(p)
    <3>1. PICK last : /\ DOMAIN stored' = DOMAIN stored \union {last}
                      /\ \A k \in DOMAIN stored : stored'[k] = stored[k]
                      /\ stored'[last].parts = <<p>>
      BY <2>4 DEF Stores
    <3>2. stored'[last].parts[1] = p
      BY <3>1
    <3> QED
      BY <2>1, <3>1, <3>2 DEF PartsInv
  <2> QED
    BY <1>1, <2>3, <2>4
<1> QED
  BY <1>1, <1>2, OtherStored

LEMMA MailStep ==
  ASSUME OnePart, TypeInv, QuitInv, Next, \A b \in Addr : FlowInv(b) /\ StreamInv(b),
         NEW a \in Addr, MailInv(a)
  PROVE  MailInv(a)'
<1>1. ASSUME NEW b \in Addr, ClientStep(b) PROVE MailInv(a)'
  <2>1. stored' = stored
    BY <1>1 DEF ClientStep, _connect, _send_command, _send_data, Abandon, _get_reply,
                ClientGivesUp, Send
  <2>2. CASE a # b
    BY <1>1, <2>1, <2>2, OtherClientSame, NothingStored, SameKept, KeptMail
  <2> QED
    BY <1>1, <2>2, ClientMail
<1>2. ASSUME NEW b \in Addr, Reject(b) PROVE MailInv(a)'
  <2>1. Same(a) /\ stored' = stored
    BY <1>2, RejectSame DEF Reject
  <2> QED
    BY <2>1, NothingStored, SameKept, KeptMail
<1>3. ASSUME NEW b \in Addr, Receive(b) PROVE MailInv(a)'
  <2>1. stored' = stored
    BY <1>3 DEF Receive
  <2>2. Kept(a)
    BY <1>3, <2>1, ReceiveKept, OtherReceive, NothingStored, SameKept, ReapedKept
  <2> QED
    BY <2>2, KeptMail
<1>4. CASE Greet
  <2>1. /\ greeting.addr = a => Greeted(a)
        /\ stored' = stored
    BY <1>4 DEF Greet, Greeted
  <2> QED
    BY <1>4, <2>1, GreetKept, OtherGreet, NothingStored, SameKept, KeptMail
<1>5. ASSUME NEW w \in Worker, WorkerStep(w) PROVE MailInv(a)'
  BY <1>5, WorkerMail
<1> QED
  BY <1>1, <1>2, <1>3, <1>4, <1>5 DEF Next, LoopStep

LEMMA MailInit == Init => AllMail
<1> SUFFICES ASSUME Init PROVE AllMail
  OBVIOUS
<1>1. DOMAIN stored = {} /\ \A w \in Worker : worker[w].at = "idle"
  BY IdleType DEF Init
<1>2. ASSUME NEW a \in Addr PROVE StreamInv(a) /\ MailInv(a)
  <2>1. /\ \A w \in Worker : ~Serves(w, a)
        /\ inbound[a] = NoPacket /\ greeting = NoPacket /\ DOMAIN tasks = {}
    BY <1>1 DEF Init, Serves, Serving
  <2>2. client[a].accepted = {} /\ DOMAIN client[a].inbox = {}
    BY DEF Init, NewClient
  <2>3. \A p : ~Pending(a, p)
    BY <2>1 DEF Pending, Linked, Greeted
  <2>4. MailInv(a)
    BY <1>1, <2>1, <2>2, <2>3 DEF MailInv, StoredInv, AcceptInv
  <2> QED
    BY <2>4, StreamInit
<1> QED
  BY <1>1, <1>2 DEF AllMail, PartsInv

LEMMA MailKept ==
  ASSUME OnePart, AllPatient, TypeInv, AllFlow, AllMail, [Next]_vars
  PROVE  AllMail'
<1>1. /\ Addr = Addr \ Prompt /\ QuitInv /\ LineInv
      /\ \A b \in Addr : FlowInv(b) /\ StreamInv(b) /\ MailInv(b)
  BY DEF AllPatient, AllFlow, AllMail
<1>2. \A a \in Addr : StreamInv(a)'
  BY <1>1, StreamStep
<1>3. \A a \in Addr : MailInv(a)'
  <2>1. ASSUME UNCHANGED vars, NEW a \in Addr PROVE MailInv(a)'
    <3>1. Same(a) /\ StoredFrame(a)
      BY <2>1, NothingStored
         DEF vars, loopVars, sessionVars, Same, Less, Once, InQueue, Linked, Greeted, Reading,
             Buffer, Holds, Serves, Rests
    <3> QED
      BY <1>1, <3>1, SameKept, KeptMail
  <2> QED
    BY <1>1, <2>1, MailStep
<1>4. PartsInv'
  <2>1. CASE UNCHANGED vars
    BY <2>1 DEF vars, AllMail, PartsInv
  <2> QED
    BY <1>1, <2>1, PartsStep DEF AllMail
<1> QED
  BY <1>2, <1>3, <1>4 DEF AllMail

LEMMA MailCorrect ==
  OnePart /\ AllPatient => (Spec => [](TypeInv /\ AllMail))
<1> SUFFICES ASSUME OnePart, AllPatient PROVE Spec => [](TypeInv /\ AllMail)
  OBVIOUS
<1>1. TypeInv /\ AllFlow /\ AllMail /\ [Next]_vars => AllMail'
  BY MailKept
<1> QED
  BY <1>1, MailInit, FlowCorrect, PTL DEF Spec

\* A stored message is one packet, the message of its client.
LEMMA StoredPart ==
  ASSUME AllMail, NEW k \in DOMAIN stored
  PROVE  LET p == stored[k].parts[1] IN
         /\ stored[k].parts = <<p>> /\ p \in Packets /\ From(k, p.addr)
         /\ p.part = 1 /\ p.last = TRUE
<1> DEFINE p == stored[k].parts[1]
<1>1. p \in Packets /\ p.addr \in Addr /\ p.last \in BOOLEAN
  BY DEF AllMail, PartsInv, Packets
<1>2. From(k, p.addr)
  BY DEF From
<1>3. stored[k].parts = <<p>> /\ p.part = 1 /\ p.last
  BY <1>1, <1>2 DEF AllMail, MailInv, StoredInv
<1> QED
  BY <1>1, <1>2, <1>3

LEMMA MailIntact == ASSUME AllMail PROVE StoredIntact
<1>1. ASSUME NEW m \in ToSet(stored)
      PROVE  /\ m.parts # <<>>
             /\ \A i \in DOMAIN m.parts :
                  /\ m.parts[i].addr = m.parts[1].addr /\ m.parts[i].n = m.parts[1].n
                  /\ m.parts[i].part = i /\ m.parts[i].last = (i = Len(m.parts))
  <2> DEFINE p == m.parts[1]
             q == <<p>>
  <2>1. m.parts = q /\ p.part = 1 /\ p.last = TRUE
    BY StoredPart DEF ToSet
  <2>2. q # <<>> /\ DOMAIN q = {1} /\ q[1] = p /\ Len(q) = 1
    OBVIOUS
  <2> HIDE DEF q
  <2> QED
    BY <2>1, <2>2
<1>2. ASSUME NEW i \in DOMAIN stored, NEW j \in DOMAIN stored,
             ToSet(stored[i].parts) = ToSet(stored[j].parts)
      PROVE  i = j
  <2> DEFINE p == stored[i].parts[1]
             r == stored[j].parts[1]
  <2>1. /\ stored[i].parts = <<p>> /\ stored[j].parts = <<r>>
        /\ p \in Packets /\ From(i, p.addr) /\ From(j, r.addr)
    BY StoredPart
  <2>2. ToSet(<<p>>) = {p} /\ ToSet(<<r>>) = {r}
    BY DEF ToSet
  <2>3. p = r
    <3> HIDE DEF p, r
    <3>1. {p} = {r}
      BY <1>2, <2>1, <2>2
    <3> QED
      BY <3>1
  <2>4. Number(i) = Number(j) /\ p.addr \in Addr
    BY <2>1, <2>3 DEF Number, Packets
  <2> QED
    BY <2>1, <2>3, <2>4 DEF AllMail, MailInv, StoredInv
<1> QED
  BY <1>1, <1>2 DEF StoredIntact

LEMMA MailAccepted == ASSUME AllMail PROVE AcceptedIsStored
<1> SUFFICES ASSUME NEW a \in Addr, NEW n \in client[a].accepted
             PROVE  \E m \in ToSet(stored) : \E p \in ToSet(m.parts) : p.addr = a /\ p.n = n
  BY DEF AcceptedIsStored
<1>1. PICK k \in DOMAIN stored : From(k, a) /\ Number(k) = n
  BY DEF AllMail, MailInv, AcceptInv, InStored
<1> DEFINE p == stored[k].parts[1]
<1>2. stored[k] \in ToSet(stored) /\ p.addr = a /\ p.n = n
  BY <1>1 DEF ToSet, From, Number
<1>3. stored[k].parts = <<p>>
  BY StoredPart
<1>4. p \in ToSet(<<p>>)
  BY DEF ToSet
<1> HIDE DEF p
<1>5. p \in ToSet(stored[k].parts)
  BY <1>3, <1>4
<1> QED
  BY <1>2, <1>5

\* A message that fits one packet is stored whole and at most once, however many workers
\* handle the packets of all clients at the same time on session objects without a lock,
\* whichever sends give up, and whichever sessions the reaper takes: _handle_data_stream() is
\* never in two workers for one client, since a client is told 354 only when nothing of it is
\* left in the pool but that reply, and one that has given up sends one packet more at most.
THEOREM MessagesAreIntact == OnePart /\ AllPatient => (Spec => []StoredIntact)
<1>1. AllMail => StoredIntact
  BY MailIntact
<1> QED
  BY <1>1, MailCorrect, PTL

\* A client that read "250 OK: Message accepted for delivery" has its message in a mailbox,
\* on lossy links too: the reply is one to its last packet, and the worker that gave it had
\* stored that packet's message before it answered.  (No line of the message begins with the
\* name of a command: a new session would answer NOOP or RSET there with 250.)
THEOREM AcceptedMessagesAreStored == OnePart /\ AllPatient => (Spec => []AcceptedIsStored)
<1>1. AllMail => AcceptedIsStored
  BY MailAccepted
<1> QED
  BY <1>1, MailCorrect, PTL

-----------------------------------------------------------------------------
(* Recipients: what a packet says is what its client's script says         *)

\* Between two recipients of one client there is a RSET or a QUIT: SMTPClient.send_email()
\* names one recipient, and a client that has named one starts again before the next.
OneRecipient ==
  \A s \in Script : \A a \in Addr : \A i, j \in DOMAIN s[a] :
    i < j /\ s[a][i].verb = "RCPT" /\ s[a][j].verb = "RCPT" =>
      \E k \in (i + 1)..(j - 1) : s[a][k].verb \in {"RSET", "QUIT"}

Said(a, p) ==
  /\ p.n \in 1..Len(script[a]) /\ p.verb = script[a][p.n].verb
  /\ p.verb = "RCPT" => p.rcpt = script[a][p.n].rcpt

\* A command of a client that has not given up is the one its script has at that place.
SaidInv(a) ==
  client[a].mode # "gone" =>
    \A p \in InHand \union {greeting, inbound[a]} :
      p # NoPacket /\ p.addr = a /\ p.part = 0 => Said(a, p)

OnTrack(a) == client[a].mode \in {"open", "data"}
Saying(a) == script[a][client[a].n].verb

\* A client with a message to send has said DATA; one that has said QUIT waits for 221.
AskInv(a) ==
  OnTrack(a) =>
    /\ client[a].n \in 1..Len(script[a])
    /\ \/ client[a].mode = "data" \/ client[a].part = 1
       \/ \E i \in DOMAIN client[a].awaiting : client[a].awaiting[i] = 354
       => Saying(a) = "DATA"
    /\ Saying(a) = "QUIT" => client[a].awaiting = << 221 >>

WordInv(a) == SaidInv(a) /\ AskInv(a)

\* A step that brings no packet of client a, and changes nothing that it is saying.
LEMMA WordFrame ==
  ASSUME NEW a, WordInv(a), script' = script, client'[a].mode = client[a].mode,
         client'[a].n = client[a].n, client'[a].part = client[a].part,
         client'[a].awaiting = client[a].awaiting,
         \A p \in InHand' \union {greeting', inbound'[a]} :
           p # NoPacket /\ p.addr = a => p \in InHand \union {greeting, inbound[a]}
  PROVE  WordInv(a)'
<1>1. SaidInv(a)'
  BY DEF WordInv, SaidInv, Said
<1>2. AskInv(a)'
  BY DEF WordInv, AskInv, OnTrack, Saying
<1> QED
  BY <1>1, <1>2 DEF WordInv

\* What a send leaves is what its packet says.
LEMMA SendWord ==
  ASSUME TypeInv, NEW a \in Addr, WordInv(a), NEW p \in Packets, NEW c \in ClientType,
         Send(a, p, c), p.addr = a, client[a].mode # "gone",
         c.mode # "gone" /\ p.part = 0 => Said(a, p),
         c.mode \in {"open", "data"} =>
           /\ p.n \in 1..Len(script[a])
           /\ \/ c.mode = "data" \/ p.part = 1
              \/ \E i \in DOMAIN c.awaiting : c.awaiting[i] = 354
              => script[a][p.n].verb = "DATA"
           /\ script[a][p.n].verb = "QUIT" => c.awaiting = << 221 >>
  PROVE  WordInv(a)'
<1> DEFINE d == SentBy(c, p)
<1>1. /\ client' = [client EXCEPT ![a] = d] /\ inbound' = [inbound EXCEPT ![a] = p]
      /\ UNCHANGED <<script, greeting, tasks, worker>>
  BY DEF Send, SentBy
<1>2. d.mode = c.mode /\ d.awaiting = c.awaiting /\ d.n = p.n /\ d.part = p.part
  BY SentByType
<1> HIDE DEF d
<1>3. client'[a] = d /\ inbound'[a] = p
  BY <1>1 DEF TypeInv, ClientInv, LinkInv
<1>4. AskInv(a)'
  BY <1>1, <1>2, <1>3 DEF AskInv, OnTrack, Saying
<1>5. InHand' = InHand
  BY <1>1 DEF InHand
<1>6. SaidInv(a)'
  BY <1>1, <1>2, <1>3, <1>5 DEF WordInv, SaidInv, Said
<1> QED
  BY <1>4, <1>6 DEF WordInv

LEMMA ConnectWord ==
  ASSUME TypeInv, NEW a \in Addr, WordInv(a), _connect(a)
  PROVE  WordInv(a)'
<1> DEFINE codes == <<220, 250>>
           p == [PacketOf(a, client[a].n + 1, 0, "NOOP", Nobody, FALSE) EXCEPT !.bit = 0]
           c == [NewClient EXCEPT !.mode = "open", !.awaiting = codes,
                                  !.accepted = client[a].accepted]
<1>1. Send(a, p, c) /\ client[a].mode = "closed" /\ Item(a).verb = "NOOP"
      /\ client[a].n < Len(script[a])
  BY DEF _connect
<1>2. client[a].n \in Nat /\ client[a].n + 1 \in 1..Len(script[a])
  BY <1>1, ClientFields, ScriptType
<1>3. /\ p \in Packets /\ p.addr = a /\ p.n = client[a].n + 1 /\ p.part = 0
      /\ p.verb = "NOOP"
  <2>1. client[a].n + 1 \in Nat /\ 0 \in 0..MaxChunks /\ Nobody \in STRING
    BY <1>2, SmtpAssumption
  <2> QED
    BY <2>1, BitType DEF PacketOf, Packets, Verb
<1>4. codes \in Seq(Code)
  BY DEF Code
<1>7. \A i \in DOMAIN codes : codes[i] # 354
  OBVIOUS
<1> HIDE DEF codes
<1>5. c \in ClientType /\ c.mode = "open" /\ c.awaiting = codes
  BY <1>4, ClientFields, NewClientType DEF ClientType
<1> HIDE DEF p, c
<1>6. script[a][p.n].verb = "NOOP"
  BY <1>1, <1>3 DEF Item
<1> QED
  BY <1>1, <1>2, <1>3, <1>5, <1>6, <1>7, SendWord DEF Said

LEMMA SendCommandWord ==
  ASSUME TypeInv, NEW a \in Addr, WordInv(a), _send_command(a)
  PROVE  WordInv(a)'
<1> DEFINE p == PacketOf(a, client[a].n + 1, 0, Item(a).verb, Item(a).rcpt, FALSE)
           codes == <<Expects(Item(a).verb)>>
           c == [client[a] EXCEPT !.awaiting = codes]
<1>1. Send(a, p, c) /\ client[a].mode = "open"
  BY DEF _send_command
<1>2. client[a] \in ClientType /\ client[a].n \in Nat /\ client[a].n + 1 \in 1..Len(script[a])
  BY ClientFields, ScriptType DEF _send_command
<1>3. Item(a).verb \in Verb /\ Item(a).rcpt \in STRING
  BY <1>2, ScriptType DEF Item
<1>4. /\ p \in Packets /\ p.addr = a /\ p.n = client[a].n + 1 /\ p.part = 0
      /\ p.verb = Item(a).verb /\ p.rcpt = Item(a).rcpt
  <2>1. client[a].n + 1 \in Nat /\ 0 \in 0..MaxChunks
    BY <1>2, SmtpAssumption
  <2> QED
    BY <1>3, <2>1, BitType DEF PacketOf, Packets
<1>5. codes \in Seq(Code)
  BY DEF Code, Expects
<1>8. /\ \A i \in DOMAIN codes : codes[i] = Expects(Item(a).verb)
      /\ Item(a).verb = "QUIT" => codes = <<221>>
      /\ Expects(Item(a).verb) = 354 => Item(a).verb = "DATA"
  BY DEF Code, Expects
<1> HIDE DEF codes
<1>6. c \in ClientType /\ c.mode = "open" /\ c.awaiting = codes
  BY <1>1, <1>2, <1>5 DEF ClientType
<1> HIDE DEF p, c
<1>7. Item(a) = script[a][p.n]
  BY <1>4 DEF Item
<1> QED
  BY <1>1, <1>2, <1>4, <1>6, <1>7, <1>8, SendWord DEF Said

LEMMA SendDataWord ==
  ASSUME TypeInv, NEW a \in Addr, WordInv(a), _send_data(a)
  PROVE  WordInv(a)'
<1> DEFINE codes == <<250>>
           p(last) == PacketOf(a, client[a].n, client[a].part + 1, "chunk", Nobody, last)
           c(last) == IF last THEN [client[a] EXCEPT !.mode = "open", !.awaiting = codes]
                              ELSE client[a]
<1>1. PICK last \in BOOLEAN : Send(a, p(last), c(last))
  BY DEF _send_data
<1>2. /\ client[a].mode = "data" /\ client[a] \in ClientType /\ client[a].n \in Nat
      /\ client[a].part \in Nat /\ client[a].part < MaxChunks
  <2>1. ClientOK(a, client[a]) /\ client[a].mode = "data"
    BY ClientFields DEF _send_data
  <2> QED
    BY <2>1, ClientFields DEF ClientOK
<1>3. client[a].n \in 1..Len(script[a]) /\ Saying(a) = "DATA"
  BY <1>2 DEF WordInv, AskInv, OnTrack
<1>4. /\ p(last) \in Packets /\ p(last).addr = a /\ p(last).n = client[a].n
      /\ p(last).part = client[a].part + 1
  <2>1. client[a].part + 1 \in 0..MaxChunks /\ Nobody \in STRING
    BY <1>2, SmtpAssumption
  <2> QED
    BY <1>2, <2>1, BitType DEF PacketOf, Packets
<1>5. codes \in Seq(Code)
  BY DEF Code
<1> HIDE DEF codes
<1>6. c(last) \in ClientType
  BY <1>2, <1>5 DEF ClientType
<1> HIDE DEF p, c
<1>7. p(last).part # 0 /\ script[a][p(last).n].verb = "DATA"
  BY <1>2, <1>3, <1>4 DEF Saying
<1> QED
  BY <1>1, <1>2, <1>3, <1>4, <1>6, <1>7, SendWord

LEMMA AbandonWord ==
  ASSUME TypeInv, NEW a \in Addr, WordInv(a), Abandon(a)
  PROVE  WordInv(a)'
<1> DEFINE p == PacketOf(a, client[a].n + 1, 0, "QUIT", Nobody, FALSE)
           c == [client[a] EXCEPT !.mode = "gone"]
<1>1. Send(a, p, c) /\ client[a].mode = "failing"
  BY DEF Abandon
<1>2. client[a] \in ClientType /\ client[a].n \in Nat
  BY ClientFields
<1>3. p \in Packets /\ p.addr = a
  <2>1. client[a].n + 1 \in Nat /\ 0 \in 0..MaxChunks /\ Nobody \in STRING
    BY <1>2, SmtpAssumption
  <2> QED
    BY <2>1, BitType DEF PacketOf, Packets, Verb
<1>4. c \in ClientType /\ c.mode = "gone"
  BY <1>2 DEF ClientType
<1> HIDE DEF p, c
<1> QED
  BY <1>1, <1>3, <1>4, SendWord

LEMMA GetReplyWord ==
  ASSUME TypeInv, NEW a \in Addr, WordInv(a), _get_reply(a)
  PROVE  WordInv(a)'
<1> DEFINE c == client[a]
           d == client'[a]
<1>1. /\ UNCHANGED <<script, inbound, greeting, tasks, worker>> /\ OnTrack(a)
      /\ c.awaiting # <<>> /\ c.inbox # <<>>
      /\ d.n = c.n /\ d.part = c.part /\ c \in ClientType /\ client \in [Addr -> ClientType]
      /\ c.awaiting \in Seq(Code)
  BY ReplyCases, ClientFields DEF loopVars, Alive, OnTrack, TypeInv, ClientInv
<1>2. InHand' = InHand
  BY <1>1 DEF InHand
<1>3. SaidInv(a)'
  BY <1>1, <1>2 DEF WordInv, SaidInv, Said, OnTrack
<1>4. \/ d.mode = c.mode /\ d.awaiting = c.awaiting
      \/ /\ d.awaiting = Tail(c.awaiting) /\ d.mode \in {c.mode, "data", "closed"}
         /\ d.mode = "data" => c.mode = "data" \/ Head(c.awaiting) = 354
         /\ Head(c.awaiting) = 221 => d.mode = "closed"
      \/ d.mode \in {"failing", "gone"}
  BY ReplyLists DEF Takes
<1>5. ASSUME d.mode = c.mode, d.awaiting = c.awaiting PROVE AskInv(a)'
  BY <1>1, <1>5 DEF WordInv, AskInv, OnTrack, Saying
<1>6. ASSUME d.awaiting = Tail(c.awaiting), d.mode \in {c.mode, "data", "closed"},
             d.mode = "data" => c.mode = "data" \/ Head(c.awaiting) = 354,
             Head(c.awaiting) = 221 => d.mode = "closed"
      PROVE  AskInv(a)'
  <2> SUFFICES ASSUME d.mode # "closed" PROVE AskInv(a)'
    BY DEF AskInv, OnTrack
  <2>1. c.n \in 1..Len(script[a]) /\ Saying(a) # "QUIT"
    BY <1>1, <1>6 DEF WordInv, AskInv
  <2>2. d.mode = "data" \/ d.part = 1 => Saying(a) = "DATA"
    BY <1>1, <1>6 DEF WordInv, AskInv
  <2>3. ASSUME NEW i \in DOMAIN Tail(c.awaiting), Tail(c.awaiting)[i] = 354
        PROVE  Saying(a) = "DATA"
    <3>1. PICK j \in DOMAIN c.awaiting : Tail(c.awaiting)[i] = c.awaiting[j]
      BY <1>1, TailCodes
    <3>2. \E k \in DOMAIN client[a].awaiting : client[a].awaiting[k] = 354
      BY <2>3, <3>1
    <3> QED
      BY <1>1, <3>2 DEF WordInv, AskInv
  <2>4. (\E i \in DOMAIN d.awaiting : d.awaiting[i] = 354) => Saying(a) = "DATA"
    BY <1>6, <2>3
  <2> HIDE DEF d
  <2>5. /\ d.n \in 1..Len(script'[a]) /\ script'[a][d.n].verb = Saying(a)
    BY <1>1, <2>1 DEF Saying
  <2> QED
    BY <2>1, <2>2, <2>4, <2>5 DEF AskInv, OnTrack, Saying, d
<1>7. ASSUME d.mode \in {"failing", "gone"} PROVE AskInv(a)'
  BY <1>7 DEF AskInv, OnTrack
<1>8. AskInv(a)'
  BY <1>4, <1>5, <1>6, <1>7
<1> QED
  BY <1>3, <1>8 DEF WordInv

\* A client that gives up says no more, or nothing but QUIT.
LEMMA GivesUpWord ==
  ASSUME TypeInv, NEW a \in Addr, WordInv(a), ClientGivesUp(a)
  PROVE  WordInv(a)'
<1>1. /\ UNCHANGED <<script, greeting, tasks, worker>>
      /\ inbound'[a] = inbound[a] \/ inbound'[a] = NoPacket
  BY DEF ClientGivesUp, TypeInv, LinkInv
<1>2. InHand' = InHand
  BY <1>1 DEF InHand
<1>3. CASE ~Alive(a)
  <2>1. client' = client
    BY <1>3 DEF ClientGivesUp, TypeInv, ClientInv
  <2> QED
    BY <1>1, <1>2, <2>1, WordFrame
<1>4. CASE Alive(a)
  <2> DEFINE f == Failed(client[a])
  <2>1. f \in ClientType /\ f.mode \in {"failing", "gone"}
    BY ClientFields, FailedType, FailedFields
  <2>2. client'[a] = [f EXCEPT !.bit = inbound[a].bit]
    BY <1>4 DEF ClientGivesUp, TypeInv, ClientInv
  <2> HIDE DEF f
  <2>3. client'[a].mode \in {"failing", "gone"}
    BY <2>1, <2>2 DEF ClientType
  <2>4. SaidInv(a)'
    BY <1>1, <1>2, <1>4 DEF WordInv, SaidInv, Said, Alive
  <2> QED
    BY <2>3, <2>4 DEF WordInv, AskInv, OnTrack
<1> QED
  BY <1>3, <1>4

LEMMA WordStep ==
  ASSUME TypeInv, QuitInv, Next, NEW a \in Addr, WordInv(a)
  PROVE  WordInv(a)'
<1>1. tasks \in Seq(Packets)
  BY DEF TypeInv, PoolInv
<1>2. ASSUME NEW b \in Addr, ClientStep(b) PROVE WordInv(a)'
  <2>1. CASE a = b
    BY <1>2, <2>1, ConnectWord, SendCommandWord, SendDataWord, AbandonWord, GetReplyWord,
       GivesUpWord DEF ClientStep
  <2>2. CASE a # b
    <3>1. /\ client'[a] = client[a] /\ inbound'[a] = inbound[a] /\ script' = script
          /\ tasks' = tasks /\ worker' = worker /\ greeting' = greeting
      BY <1>2, <2>2, OtherClient
    <3>2. InHand' = InHand
      BY <3>1 DEF InHand
    <3> QED
      BY <3>1, <3>2, WordFrame
  <2> QED
    BY <2>1, <2>2
<1>3. ASSUME NEW b \in Addr, Reject(b) PROVE WordInv(a)'
  <2>1. /\ inbound'[a] \in {inbound[a], NoPacket}
        /\ UNCHANGED <<script, client, greeting, tasks, worker>>
    BY <1>3 DEF Reject, TypeInv, LinkInv
  <2>2. InHand' = InHand
    BY <2>1 DEF InHand
  <2> QED
    BY <2>1, <2>2, WordFrame
<1>4. ASSUME NEW b \in Addr, Receive(b) PROVE WordInv(a)'
  <2>1. /\ inbound[b] \in Packets /\ inbound[b].addr = b
        /\ inbound' = [inbound EXCEPT ![b] = NoPacket]
        /\ UNCHANGED <<script, client, worker>>
        /\ \/ greeting' = NoPacket /\ tasks' = Append(tasks, inbound[b])
           \/ greeting' = inbound[b] /\ tasks' = tasks
    BY <1>4, ReceiveEffect
  <2>2. inbound'[a] \in {inbound[a], NoPacket}
    BY <2>1 DEF TypeInv, LinkInv
  <2>3. ToSet(Append(tasks, inbound[b])) = ToSet(tasks) \union {inbound[b]}
    BY <1>1, <2>1, AppendSet
  <2>4. \A p \in InHand' \union {greeting'} : p \in InHand \union {NoPacket, inbound[b]}
    <3> DEFINE held == {worker[w].task : w \in Worker}
    <3>1. InHand = ToSet(tasks) \union held /\ InHand' = ToSet(tasks') \union held
      BY <2>1 DEF InHand
    <3> HIDE DEF held
    <3>2. ToSet(tasks') \in {ToSet(tasks), ToSet(tasks) \union {inbound[b]}}
      BY <2>1, <2>3
    <3> QED
      BY <2>1, <3>1, <3>2
  <2>5. \A p \in InHand' \union {greeting', inbound'[a]} :
          p # NoPacket /\ p.addr = a => p \in InHand \union {greeting, inbound[a]}
    <3> SUFFICES ASSUME NEW p \in InHand' \union {greeting', inbound'[a]}, p # NoPacket, p.addr = a
                 PROVE  p \in InHand \union {greeting, inbound[a]}
      OBVIOUS
    <3>1. p \in InHand \union {inbound[b], inbound[a]}
      BY <2>2, <2>4
    <3>2. p = inbound[b] => a = b
      BY <2>1
    <3> QED
      BY <3>1, <3>2
  <2> QED
    BY <2>1, <2>5, WordFrame
<1>5. CASE Greet
  <2>1. /\ greeting # NoPacket /\ _send_reply(greeting.addr, 220, greeting)
        /\ tasks' = Append(tasks, greeting) /\ greeting' = NoPacket
        /\ UNCHANGED <<script, inbound, worker>>
    BY <1>5 DEF Greet
  <2>2. greeting \in Packets /\ greeting.addr \in Addr /\ 220 \in Code
    BY <2>1 DEF TypeInv, LinkInv, Packets, Code
  <2>3. /\ client'[a].mode = client[a].mode /\ client'[a].n = client[a].n
        /\ client'[a].part = client[a].part /\ client'[a].awaiting = client[a].awaiting
    BY <2>1, <2>2, ToldClient
  <2>4. ToSet(tasks') = ToSet(tasks) \union {greeting}
    BY <1>1, <2>1, <2>2, AppendSet
  <2>5. \A p \in InHand' : p \in InHand \union {greeting}
    BY <2>1, <2>4 DEF InHand
  <2> QED
    BY <2>1, <2>3, <2>5, WordFrame
<1>6. ASSUME NEW w \in Worker, WorkerStep(w) PROVE WordInv(a)'
  <2>1. SameClient(a) /\ inbound' = inbound /\ greeting' = greeting
    BY <1>6, WorkerEffect
  <2>2. \A p \in InHand' : p = NoPacket \/ p \in InHand
    BY <1>6, PoolStep
  <2> QED
    BY <2>1, <2>2, WordFrame DEF SameClient
<1> QED
  BY <1>2, <1>3, <1>4, <1>5, <1>6 DEF Next, LoopStep

-----------------------------------------------------------------------------
(* Recipients: the one that a session keeps                                *)

\* No line is left in a session: a message that fits one packet ends in it.
PlainInv(a) == \A i \in DOMAIN session[a] : ~session[a][i].partial_line

\* The packet that the client sent last has not been handled.
Unhandled(a) ==
  \/ Linked(a) \/ Greeted(a) \/ InQueue(tasks, a)
  \/ \E w \in Worker : Serves(w, a) /\ worker[w].at \in {"process", "command"}

Recipients(a) == session[a][sessions[a]].rcpt_to

\* Command j of the client named the recipient that its session has, and nothing handled
\* since has dropped that.
Names(a, j) ==
  /\ script[a][j].verb = "RCPT" /\ Head(Recipients(a)) = script[a][j].rcpt
  /\ \A k \in (j + 1)..client[a].n : script[a][k].verb \in {"RSET", "QUIT"} =>
       k = client[a].n /\ (script[a][k].verb = "QUIT" \/ Unhandled(a))
  /\ j = client[a].n => ~Unhandled(a)

RcptInv(a) ==
  OnTrack(a) /\ sessions[a] # 0 /\ Recipients(a) # <<>> => \E j \in 1..client[a].n : Names(a, j)

\* A step that makes nobody the first recipient of client a's session.
HeadKept(a) ==
  sessions'[a] # 0 /\ Recipients(a)' # <<>> =>
    /\ sessions[a] # 0 /\ Recipients(a) # <<>>
    /\ Head(Recipients(a)') = Head(Recipients(a))

RcptKept(a) == PlainInv(a)' /\ RcptInv(a)' /\ HeadKept(a)

LEMMA RcptFrame ==
  ASSUME NEW a, PlainInv(a)', RcptInv(a), HeadKept(a), script' = script,
         OnTrack(a)' => OnTrack(a) /\ client'[a].n = client[a].n,
         OnTrack(a) /\ sessions'[a] # 0 =>
           /\ Unhandled(a)' => Unhandled(a)
           /\ Unhandled(a) /\ Saying(a) = "RSET" => Unhandled(a)'
  PROVE  RcptKept(a)
<1> SUFFICES ASSUME OnTrack(a)', sessions'[a] # 0, Recipients(a)' # <<>>
             PROVE  \E j \in 1..client'[a].n : Names(a, j)'
  BY DEF RcptInv, RcptKept
<1>1. PICK j \in 1..client[a].n : Names(a, j)
  BY DEF RcptInv, HeadKept
<1>2. Names(a, j)'
  BY <1>1 DEF Names, Saying, HeadKept
<1> QED
  BY <1>1, <1>2

LEMMA HeadStays ==
  ASSUME NEW a, session'[a] = session[a], sessions'[a] \in {sessions[a], 0}
  PROVE  HeadKept(a)
BY DEF HeadKept, Recipients

\* A step that is not about client a.
LEMMA SameRcpt ==
  ASSUME NEW a, Same(a), session'[a] = session[a], PlainInv(a), RcptInv(a)
  PROVE  RcptKept(a)
<1>1. /\ sessions'[a] = sessions[a] /\ client'[a] = client[a] /\ script' = script
      /\ PlainInv(a)' /\ HeadKept(a)
  BY HeadStays DEF Same, Less, PlainInv
<1>2. ASSUME OnTrack(a), sessions[a] # 0 PROVE Unhandled(a)' <=> Unhandled(a)
  <2>1. Linked(a)' <=> Linked(a)
    BY <1>2 DEF Same, Less, OnTrack, Alive
  <2>2. (Greeted(a)' <=> Greeted(a)) /\ (InQueue(tasks', a) <=> InQueue(tasks, a))
    BY DEF Same, Less
  <2> QED
    BY <2>1, <2>2, SameServes DEF Unhandled
<1> QED
  BY <1>1, <1>2, RcptFrame DEF OnTrack

-----------------------------------------------------------------------------
(* Recipients: the client's steps, and the serve loop's                    *)

LEMMA UnhandledSent ==
  ASSUME TypeInv, NEW a \in Addr, NEW p \in Packets, NEW c \in ClientType, Send(a, p, c)
  PROVE  Unhandled(a)'
BY SendFields DEF Unhandled, Linked

\* The client sends its next command, or the message that it announced.
LEMMA SendRcpt ==
  ASSUME TypeInv, NEW a \in Addr, AskInv(a), PlainInv(a), RcptInv(a), NEW p \in Packets,
         NEW c \in ClientType, Send(a, p, c), OnTrack(a), ~Unhandled(a),
         client[a].awaiting = <<>>,
         p.n = client[a].n + 1 \/ (p.n = client[a].n /\ Saying(a) = "DATA")
  PROVE  RcptKept(a)
<1>1. /\ client'[a].n = p.n /\ UNCHANGED <<script, sessions, session>> /\ Unhandled(a)'
  BY UnhandledSent, SendFields
<1>2. Recipients(a)' = Recipients(a) /\ PlainInv(a)' /\ HeadKept(a)
  BY <1>1 DEF Recipients, PlainInv, HeadKept
<1> SUFFICES ASSUME sessions[a] # 0, Recipients(a) # <<>>
             PROVE  \E j \in 1..p.n : Names(a, j)'
  BY <1>1, <1>2 DEF RcptInv, RcptKept
<1>3. PICK j \in 1..client[a].n : Names(a, j)
  BY DEF RcptInv
<1>4. client[a].n \in Nat /\ j \in 1..p.n /\ Saying(a) # "QUIT"
  <2>1. client[a].n \in Nat
    BY ClientFields
  <2>2. Saying(a) # "QUIT"
    BY DEF AskInv
  <2> QED
    BY <2>1, <2>2
<1>5. j # p.n
  BY <1>3, <1>4 DEF Names, Saying
<1>6. ASSUME NEW k \in (j + 1)..p.n, script[a][k].verb \in {"RSET", "QUIT"}
      PROVE  k = p.n
  <2>1. CASE k \in (j + 1)..client[a].n
    BY <1>3, <1>4, <1>6, <2>1 DEF Names, Saying
  <2>2. CASE k \notin (j + 1)..client[a].n
    BY <1>4, <1>6, <2>2
  <2> QED
    BY <2>1, <2>2
<1>7. Names(a, j)'
  BY <1>1, <1>2, <1>3, <1>5, <1>6 DEF Names
<1> QED
  BY <1>4, <1>7

LEMMA QuietHandled == ASSUME NEW a, Quiet(a) PROVE ~Unhandled(a)
BY DEF Quiet, Unhandled, Holds, Serves

\* A client that gives up is not held to the script any more.
LEMMA OffTrack ==
  ASSUME NEW a, PlainInv(a), UNCHANGED <<sessions, session>>, ~OnTrack(a)'
  PROVE  RcptKept(a)
BY DEF RcptKept, RcptInv, PlainInv, HeadKept, Recipients

LEMMA ClientRcpt ==
  ASSUME TypeInv, QuitInv, NEW a \in Addr \ Prompt, FlowInv(a), AskInv(a),
         PlainInv(a), RcptInv(a), ClientStep(a)
  PROVE  RcptKept(a)
<1>1. client[a] \in ClientType /\ client[a].n \in Nat
  BY ClientFields
<1>2. /\ session' = session /\ sessions' = sessions /\ script' = script
  BY DEF ClientStep, _connect, _send_command, _send_data, Abandon, _get_reply, ClientGivesUp,
         Send, sessionVars
<1>3. PlainInv(a)' /\ HeadKept(a)
  BY <1>2, HeadStays DEF PlainInv
<1>4. CASE _connect(a)
  <2>1. sessions'[a] = 0
    BY <1>2, <1>4 DEF _connect, Forgotten
  <2> QED
    BY <1>3, <2>1 DEF RcptInv, RcptKept
<1>5. CASE _send_command(a)
  <2> DEFINE p == PacketOf(a, client[a].n + 1, 0, Item(a).verb, Item(a).rcpt, FALSE)
             codes == <<Expects(Item(a).verb)>>
             c == [client[a] EXCEPT !.awaiting = codes]
  <2>1. /\ Send(a, p, c) /\ client[a].mode = "open" /\ Ready(a)
        /\ client[a].n < Len(script[a])
    BY <1>5 DEF _send_command
  <2>2. Item(a).verb \in Verb /\ Item(a).rcpt \in STRING
    <3>1. client[a].n + 1 \in 1..Len(script[a])
      BY <1>1, <2>1, ScriptType
    <3> QED
      BY <1>1, <3>1, ScriptType DEF Item
  <2>3. p \in Packets /\ p.n = client[a].n + 1
    <3>1. client[a].n + 1 \in Nat /\ 0 \in 0..MaxChunks
      BY <1>1, SmtpAssumption
    <3> QED
      BY <1>1, <2>2, <3>1, BitType DEF PacketOf, Packets
  <2>4. codes \in Seq(Code)
    BY DEF Code, Expects
  <2> HIDE DEF codes
  <2>5. c \in ClientType
    BY <1>1, <2>4 DEF ClientType
  <2> HIDE DEF p, c
  <2>6. ~Unhandled(a) /\ OnTrack(a) /\ client[a].awaiting = <<>>
    BY <2>1, ReadyQuiet, QuietHandled DEF OnTrack, Ready, Alive
  <2> QED
    BY <2>1, <2>3, <2>5, <2>6, SendRcpt
<1>6. CASE _send_data(a)
  <2> DEFINE codes == <<250>>
             p(last) == PacketOf(a, client[a].n, client[a].part + 1, "chunk", Nobody, last)
             c(last) == IF last THEN [client[a] EXCEPT !.mode = "open", !.awaiting = codes]
                                ELSE client[a]
  <2>1. PICK last \in BOOLEAN : Send(a, p(last), c(last))
    BY <1>6 DEF _send_data
  <2>2. client[a].mode = "data" /\ Ready(a)
    BY <1>6 DEF _send_data
  <2>3. client[a].part \in Nat /\ client[a].part < MaxChunks
    <3>1. ClientOK(a, client[a])
      BY ClientFields
    <3> QED
      BY <2>2, <3>1, ClientFields DEF ClientOK
  <2>4. p(last) \in Packets /\ p(last).n = client[a].n
    <3>1. client[a].part + 1 \in 0..MaxChunks /\ Nobody \in STRING
      BY <2>3, SmtpAssumption
    <3> QED
      BY <1>1, <3>1, BitType DEF PacketOf, Packets
  <2>5. codes \in Seq(Code)
    BY DEF Code
  <2> HIDE DEF codes
  <2>6. c(last) \in ClientType
    BY <1>1, <2>5 DEF ClientType
  <2> HIDE DEF p, c
  <2>7. ~Unhandled(a) /\ OnTrack(a) /\ client[a].awaiting = <<>> /\ Saying(a) = "DATA"
    BY <2>2, ReadyQuiet, QuietHandled DEF OnTrack, Ready, AskInv, Alive
  <2> QED
    BY <2>1, <2>4, <2>6, <2>7, SendRcpt
<1>7. CASE Abandon(a)
  <2> DEFINE p == PacketOf(a, client[a].n + 1, 0, "QUIT", Nobody, FALSE)
             c == [client[a] EXCEPT !.mode = "gone"]
  <2>1. Send(a, p, c)
    BY <1>7 DEF Abandon
  <2>2. c \in ClientType /\ c.mode = "gone"
    BY <1>1 DEF ClientType
  <2>3. p \in Packets
    <3>1. client[a].n + 1 \in Nat /\ 0 \in 0..MaxChunks /\ Nobody \in STRING
      BY <1>1, SmtpAssumption
    <3> QED
      BY <1>1, <3>1, BitType DEF PacketOf, Packets, Verb
  <2> HIDE DEF p, c
  <2>4. client'[a].mode = "gone"
    BY <2>1, <2>2, <2>3, SendFields
  <2> QED
    BY <1>2, <2>4, OffTrack DEF OnTrack
<1>8. CASE _get_reply(a)
  <2>1. /\ client'[a].n = client[a].n /\ OnTrack(a)
        /\ UNCHANGED <<inbound, greeting, tasks, worker>>
    BY <1>8, ReplyCases DEF loopVars, Alive, OnTrack
  <2>2. Unhandled(a)' <=> Unhandled(a)
    BY <2>1 DEF Unhandled, Linked, Greeted, Serves, InQueue
  <2> QED
    BY <1>2, <1>3, <2>1, <2>2, RcptFrame
<1>9. CASE ClientGivesUp(a)
  <2>1. ~OnTrack(a)'
    <3>1. CASE ~Alive(a)
      BY <1>9, <3>1 DEF ClientGivesUp, TypeInv, ClientInv, OnTrack, Alive
    <3>2. CASE Alive(a)
      <4> DEFINE f == Failed(client[a])
      <4>1. f \in ClientType /\ f.mode \in {"failing", "gone"}
        BY <1>1, FailedType, FailedFields
      <4>2. client'[a] = [f EXCEPT !.bit = inbound[a].bit]
        BY <1>9, <3>2 DEF ClientGivesUp, TypeInv, ClientInv
      <4> HIDE DEF f
      <4> QED
        BY <4>1, <4>2 DEF ClientType, OnTrack
    <3> QED
      BY <3>1, <3>2
  <2> QED
    BY <1>2, <2>1, OffTrack
<1> QED
  BY <1>4, <1>5, <1>6, <1>7, <1>8, <1>9 DEF ClientStep

\* The serve loop takes the client's packet: it makes a session, or leaves it as it is.
LEMMA ReceiveRcpt ==
  ASSUME TypeInv, NEW a \in Addr, Receive(a), PlainInv(a), RcptInv(a)
  PROVE  RcptKept(a)
<1>1. session[a] \in Seq(SessionType) /\ tasks \in Seq(Packets)
  BY DEF TypeInv, SessionInv, PoolInv
<1>2. /\ Linked(a) /\ inbound[a] \in Packets /\ inbound[a].addr = a
      /\ UNCHANGED <<script, client>>
  BY ReceiveFields DEF Live
<1>3. CASE /\ sessions[a] # 0 /\ sessions'[a] = sessions[a] /\ session' = session
           /\ tasks' = Append(tasks, inbound[a])
  <2>1. Unhandled(a) /\ Unhandled(a)'
    BY <1>1, <1>2, <1>3, AppendQueue DEF Unhandled
  <2>2. HeadKept(a) /\ PlainInv(a)'
    BY <1>3, HeadStays DEF PlainInv
  <2> QED
    BY <1>2, <2>1, <2>2, RcptFrame DEF OnTrack
<1>4. CASE /\ sessions'[a] = Len(session[a]) + 1
           /\ session'[a] = Append(session[a], _create_session)
  <2> DEFINE q == session[a]
             r == Append(q, _create_session)
  <2>1. /\ Len(q) \in Nat /\ DOMAIN q = 1..Len(q) /\ DOMAIN r = 1..(Len(q) + 1)
        /\ r[Len(q) + 1] = _create_session /\ \A i \in 1..Len(q) : r[i] = q[i]
    BY <1>1, NewSessionType, AppendProperties, LenProperties
  <2>2. /\ session'[a][sessions'[a]] = _create_session
        /\ \A i \in DOMAIN session'[a] :
             \/ session'[a][i] = _create_session
             \/ i \in DOMAIN session[a] /\ session'[a][i] = session[a][i]
    <3> HIDE DEF r
    <3> QED
      BY <1>4, <2>1 DEF r
  <2>3. Recipients(a)' = <<>> /\ PlainInv(a)'
    BY <2>2 DEF Recipients, PlainInv, _create_session
  <2> QED
    BY <2>3 DEF RcptInv, RcptKept, HeadKept
<1> QED
  BY <1>3, <1>4, ReceiveFields

\* The reaper leaves the session objects as they are, and no number.
LEMMA ReapedRcpt ==
  ASSUME NEW a, Reaped(a), session'[a] = session[a], PlainInv(a)
  PROVE  RcptKept(a)
<1>1. sessions'[a] = 0
  BY DEF Reaped
<1> QED
  BY <1>1 DEF RcptKept, RcptInv, PlainInv, HeadKept

LEMMA GreetRcpt ==
  ASSUME TypeInv, Greet, NEW a \in Addr, Greeted(a), PlainInv(a), RcptInv(a)
  PROVE  RcptKept(a)
<1>1. /\ _send_reply(a, 220, greeting) /\ greeting \in Packets /\ 220 \in Code
      /\ tasks' = Append(tasks, greeting) /\ UNCHANGED <<script, sessions, session>>
      /\ tasks \in Seq(Packets)
  BY DEF Greet, Greeted, TypeInv, LinkInv, PoolInv, sessionVars, Code
<1>2. client'[a].mode = client[a].mode /\ client'[a].n = client[a].n
  BY <1>1, ToldClient
<1>3. Unhandled(a) /\ Unhandled(a)'
  BY <1>1, AppendQueue DEF Unhandled, Greeted
<1>4. HeadKept(a) /\ PlainInv(a)'
  BY <1>1, HeadStays DEF PlainInv
<1> QED
  BY <1>1, <1>2, <1>3, <1>4, RcptFrame DEF OnTrack

LEMMA TakeRcpt ==
  ASSUME TypeInv, NEW w \in Worker, Take(w), NEW a \in Addr, Head(tasks).addr = a,
         PlainInv(a), RcptInv(a)
  PROVE  RcptKept(a)
<1>1. /\ tasks \in Seq(Packets) /\ tasks # <<>> /\ UNCHANGED <<script, client, sessions, session>>
      /\ worker'[w].at = "process" /\ worker'[w].task = Head(tasks)
  BY TakeFields DEF WorkerOnly, TypeInv, PoolInv
<1>2. Unhandled(a) /\ Unhandled(a)'
  BY <1>1, TailQueue DEF Unhandled, Serves, Serving
<1>3. HeadKept(a) /\ PlainInv(a)'
  BY <1>1, HeadStays DEF PlainInv
<1> QED
  BY <1>1, <1>2, <1>3, RcptFrame DEF OnTrack

-----------------------------------------------------------------------------
(* Recipients: the pool's steps                                            *)

\* A step of the worker that has the client's packet.
LEMMA ServedRcpt ==
  ASSUME TypeInv, QuitInv, NEW a \in Addr, FlowInv(a), StreamInv(a), PlainInv(a)', RcptInv(a),
         NEW w \in Worker, Serves(w, a), WorkerStep(w), Moves(w), HeadKept(a),
         worker'[w].at \in {"process", "command"} => worker[w].at \in {"process", "command"},
         OnTrack(a) /\ worker[w].at \in {"process", "command"} /\ Saying(a) = "RSET" =>
           sessions'[a] = 0 \/ worker'[w].at \in {"process", "command"}
  PROVE  RcptKept(a)
<1>1. OnTrack(a) => (Unhandled(a) <=> worker[w].at \in {"process", "command"})
  BY InService DEF Unhandled, OnTrack, Alive
<1>2. OnTrack(a) => (Unhandled(a)' <=> worker'[w].at \in {"process", "command"})
  <2>1. OnTrack(a) => ~Linked(a)' /\ ~Greeted(a)' /\ ~InQueue(tasks', a)
    BY InService, InServiceNext DEF OnTrack, Alive
  <2> QED
    BY <2>1, InServiceNext DEF Unhandled, Serving
<1>3. script' = script /\ client'[a].n = client[a].n /\ (OnTrack(a)' <=> OnTrack(a))
  BY WorkerEffect DEF SameClient, OnTrack
<1> QED
  BY <1>1, <1>2, <1>3, RcptFrame

LEMMA ProcessRcpt ==
  ASSUME TypeInv, QuitInv, NEW w \in Worker, _process_packet(w), NEW a \in Addr,
         Address(w) = a, FlowInv(a), StreamInv(a), AskInv(a), PlainInv(a), RcptInv(a)
  PROVE  RcptKept(a)
<1>1. /\ worker[w].at = "process" /\ UNCHANGED <<session, sessions>>
      /\ \/ worker'[w].at = "idle" /\ sessions[a] = 0
         \/ worker'[w].at = IF Reading(a) THEN "extend" ELSE "command"
  BY ProcessFields DEF WorkerOnly
<1>2. Serves(w, a) /\ WorkerStep(w) /\ Moves(w)
  <2>1. WorkerStep(w) /\ ~Take(w)
    BY <1>1 DEF WorkerStep, Take, At
  <2> QED
    BY <1>1, <2>1, WorkerMoves DEF Serves, Serving, Address
<1>3. Reading(a) /\ OnTrack(a) => Saying(a) = "DATA"
  BY <1>1, <1>2, InService DEF AskInv, OnTrack, Lost
<1>4. HeadKept(a) /\ PlainInv(a)'
  BY <1>1, HeadStays DEF PlainInv
<1> QED
  BY <1>1, <1>2, <1>3, <1>4, ServedRcpt

LEMMA SetPlain ==
  ASSUME TypeInv, NEW a \in Addr, PlainInv(a), NEW w \in Worker, NEW s, SetSession(w, s),
         Address(w) = a, ~s.partial_line
  PROVE  PlainInv(a)'
<1>1. session'[a] = [session[a] EXCEPT ![worker[w].sid] = s]
  BY DEF SetSession, TypeInv, SessionInv
<1> QED
  BY <1>1 DEF PlainInv

\* Between the last line of a message and the reply, a session keeps its recipients.
LEMMA HandledRcpt ==
  ASSUME TypeInv, QuitInv, NEW w \in Worker,
         Extend(w) \/ Check(w) \/ Copy(w) \/ Reset(w) \/ _finalize_message(w) \/ Reply(w),
         NEW a \in Addr, Address(w) = a, FlowInv(a), StreamInv(a), PlainInv(a), RcptInv(a)
  PROVE  RcptKept(a)
<1> DEFINE more == [Mine(w) EXCEPT !.data_buffer = Append(@, worker[w].task)]
           fresh == [Mine(w) EXCEPT !.data_buffer = <<>>, !.partial_line = FALSE,
                                    !.state = "WAIT_FOR_MAIL_FROM"]
<1>1. /\ worker[w].at \in {"extend", "check", "copy", "reset", "finalize", "reply"}
      /\ WorkerStep(w) /\ sessions' = sessions
      /\ session' = session \/ SetSession(w, more) \/ SetSession(w, fresh)
  BY DEF WorkerStep, Extend, Check, Copy, Reset, _finalize_message, Reply, At, WorkerOnly,
         sessionVars
<1>2. worker'[w].at \notin {"process", "command"}
  <2>1. CASE Copy(w)
    BY <2>1, CopyFields
  <2>2. CASE ~Copy(w)
    <3>1. \/ \E label \in {"check", "copy", "finalize", "clear", "pop_sender", "rest"} :
               Goto(w, label)
          \/ \E code \in {250, 451, 550} : Answer(w, code)
          \/ Done(w)
      BY <2>2 DEF Extend, Check, Reset, _finalize_message, Reply
    <3> QED
      BY <3>1, GotoFields, AnswerFields, DoneFields
  <2> QED
    BY <2>1, <2>2
<1>3. Serves(w, a) /\ Moves(w)
  <2>1. ~Take(w)
    BY <1>1 DEF Take, At
  <2> QED
    BY <1>1, <2>1, WorkerMoves DEF Serves, Serving, Address
<1>4. /\ sessions[a] # 0 /\ worker[w].sid = sessions[a] /\ Mine(w) = session[a][sessions[a]]
      /\ Mine(w) \in SessionType /\ sessions[a] \in 1..Len(session[a])
  BY <1>1, <1>3, MineNow
<1>5. /\ more.rcpt_to = Mine(w).rcpt_to /\ more.partial_line = Mine(w).partial_line
      /\ fresh.rcpt_to = Mine(w).rcpt_to /\ fresh.partial_line = FALSE
  BY <1>4 DEF SessionType
<1>6. ~Mine(w).partial_line
  <2>1. sessions[a] \in DOMAIN session[a]
    <3>1. session[a] \in Seq(SessionType)
      BY DEF TypeInv, SessionInv
    <3> QED
      BY <1>4, <3>1, LenProperties
  <2> QED
    BY <1>4, <2>1 DEF PlainInv
<1> HIDE DEF more, fresh
<1>7. Recipients(a)' = Recipients(a) /\ PlainInv(a)'
  <2>1. CASE session' = session
    BY <1>1, <2>1 DEF Recipients, PlainInv
  <2>2. ASSUME NEW s \in {more, fresh}, SetSession(w, s)
        PROVE  Recipients(a)' = Recipients(a) /\ PlainInv(a)'
    <3>1. session'[a][sessions'[a]] = s
      BY <1>1, <1>4, <2>2, SetMine
    <3>2. s.rcpt_to = Mine(w).rcpt_to /\ ~s.partial_line
      BY <1>5, <1>6
    <3> QED
      BY <1>4, <2>2, <3>1, <3>2, SetPlain DEF Recipients
  <2> QED
    BY <1>1, <2>1, <2>2
<1>8. HeadKept(a)
  BY <1>1, <1>7 DEF HeadKept
<1> QED
  BY <1>1, <1>2, <1>3, <1>7, <1>8, ServedRcpt

\* A stored message's session loses its recipients, if it is still the client's.
LEMMA ClearRcpt ==
  ASSUME TypeInv, NEW w \in Worker, Clear(w), NEW a \in Addr, Address(w) = a,
         PlainInv(a), RcptInv(a)
  PROVE  RcptKept(a)
<1> DEFINE s == [Mine(w) EXCEPT !.rcpt_to = <<>>]
           i == worker[w].sid
<1>1. /\ SetSession(w, s) /\ sessions' = sessions /\ script' = script /\ client' = client
      /\ worker[w].at = "clear"
  BY DEF Clear, WorkerOnly, At
<1>2. /\ Mine(w) \in SessionType /\ i \in 1..Len(session[a]) /\ session[a] \in Seq(SessionType)
      /\ DOMAIN session[a] = 1..Len(session[a]) /\ Mine(w) = session[a][i]
  BY <1>1, MineType, WorkerFields, LenProperties DEF Busy, At, TypeInv, SessionInv, Mine
<1>3. s.rcpt_to = <<>> /\ s.partial_line = Mine(w).partial_line
  BY <1>2 DEF SessionType
<1> HIDE DEF s
<1>4. PlainInv(a)'
  BY <1>1, <1>2, <1>3, SetPlain DEF PlainInv
<1>5. session'[a] = [session[a] EXCEPT ![i] = s]
  BY <1>1 DEF SetSession, TypeInv, SessionInv
<1>6. Recipients(a)' = Recipients(a) \/ Recipients(a)' = <<>> \/ sessions[a] = 0
  <2>1. sessions[a] # 0 => sessions[a] \in 1..Len(session[a])
    BY <1>2 DEF TypeInv, SessionInv
  <2> QED
    BY <1>1, <1>2, <1>3, <1>5, <2>1 DEF Recipients
<1>7. Unhandled(a)' <=> Unhandled(a)
  <2>1. Same(a) /\ inbound' = inbound
    BY ClearSame DEF Clear, WorkerOnly, loopVars
  <2>2. (Greeted(a)' <=> Greeted(a)) /\ (InQueue(tasks', a) <=> InQueue(tasks, a))
    BY <2>1 DEF Same, Less
  <2> QED
    BY <2>1, <2>2, SameServes DEF Unhandled, Linked
<1>8. HeadKept(a)
  BY <1>1, <1>6 DEF HeadKept
<1> QED
  BY <1>1, <1>4, <1>7, <1>8, RcptFrame DEF OnTrack

LEMMA PopRcpt ==
  ASSUME TypeInv, QuitInv, NEW w \in Worker, PopSender(w) \/ PopSession(w) \/ reset_state(w),
         NEW a \in Addr, Address(w) = a, PlainInv(a), RcptInv(a)
  PROVE  RcptKept(a)
<1>1. /\ worker[w].at \in Forgetting /\ UNCHANGED <<script, client, session, inbound, greeting>>
      /\ tasks' = tasks /\ sessions'[a] \in {sessions[a], 0}
  BY DEF PopSender, PopSession, reset_state, At, Forgetting, loopVars, sessionVars, TypeInv,
         SessionInv
<1>2. \A u \in Worker \ {w} : worker'[u] = worker[u]
  BY GotoFields, DoneFields DEF PopSender, PopSession, reset_state
<1>3. worker'[w].at \notin Serving /\ worker[w].at \notin Serving
  BY <1>1, GotoFields, DoneFields DEF PopSender, PopSession, reset_state, Serving, Forgetting
<1>4. Unhandled(a)' <=> Unhandled(a)
  BY <1>1, <1>2, <1>3 DEF Unhandled, Linked, Greeted, Serves, InQueue
<1>5. PlainInv(a)' /\ HeadKept(a)
  BY <1>1, HeadStays DEF PlainInv
<1> QED
  BY <1>1, <1>4, <1>5, RcptFrame DEF OnTrack

LEMMA RestRcpt ==
  ASSUME TypeInv, QuitInv, NEW w \in Worker, Rest(w), NEW a \in Addr, Address(w) = a,
         PlainInv(a), RcptInv(a)
  PROVE  RcptKept(a)
<1>1. /\ worker[w].at = "rest" /\ UNCHANGED <<script, session, sessions, inbound, greeting>>
      /\ tasks' = tasks /\ _send_reply(a, 500, worker[w].task)
  BY DEF Rest, At, loopVars, sessionVars, Address
<1>2. /\ \A u \in Worker \ {w} : worker'[u] = worker[u]
      /\ worker'[w].at \notin Serving /\ worker[w].at \notin Serving
  BY <1>1, RestFields DEF Serving
<1>3. Unhandled(a)' <=> Unhandled(a)
  BY <1>1, <1>2 DEF Unhandled, Linked, Greeted, Serves, InQueue
<1>4. PlainInv(a)' /\ HeadKept(a)
  BY <1>1, HeadStays DEF PlainInv
<1>5. client'[a].mode = client[a].mode /\ client'[a].n = client[a].n
  <2>1. worker[w].task \in Packets /\ 500 \in Code
    BY <1>1, WorkerFields DEF At, Code
  <2> QED
    BY <1>1, <2>1, ToldClient
<1> QED
  BY <1>1, <1>3, <1>4, <1>5, RcptFrame DEF OnTrack

LEMMA EffectRcpt ==
  ASSUME NEW s \in SessionType, NEW p
  PROVE  /\ ~s.partial_line => ~Effect(s, p).partial_line
         /\ p.verb = "RSET" => Effect(s, p).rcpt_to = <<>>
         /\ p.verb = "RCPT" => Effect(s, p).rcpt_to = Append(s.rcpt_to, p.rcpt)
         /\ p.verb \notin {"RSET", "RCPT"} => Effect(s, p).rcpt_to = s.rcpt_to
BY DEF Effect, SessionType, _create_session

\* What a worker has of a client that has not given up is what the client is saying.
LEMMA ServedSaid ==
  ASSUME OnePart, TypeInv, NEW a \in Addr, FlowInv(a), StreamInv(a), WordInv(a), OnTrack(a),
         NEW w \in Worker, Serves(w, a)
  PROVE  LET p == worker[w].task IN
         /\ p.n = client[a].n /\ p.n \in 1..p.n /\ p.part \in {0, 1}
         /\ p.part = 0 => /\ p.verb = Saying(a)
                          /\ p.verb = "RCPT" => p.rcpt = script[a][p.n].rcpt
         /\ p.part = 1 => p.last /\ p.verb = "chunk" /\ Saying(a) = "DATA"
<1> DEFINE p == worker[w].task
<1>1. Fits(client[a], p) /\ p \in Packets /\ p.addr = a /\ p \in InHand
  BY InService DEF InHand, Serves
<1>2. p.n = client[a].n /\ p.part = client[a].part /\ p # NoPacket
  BY <1>1, NoBits DEF Fits, OnTrack
<1>3. p.part \in {0, 1}
  BY <1>1 DEF OnePart, Packets
<1>4. p.n \in 1..Len(script[a]) /\ (p.part = 1 => Saying(a) = "DATA")
  BY <1>2 DEF WordInv, AskInv
<1>5. p.n \in 1..p.n
  BY <1>1, <1>4 DEF Packets
<1>6. p.part = 0 => Said(a, p)
  BY <1>1, <1>2 DEF WordInv, SaidInv, OnTrack
<1> QED
  BY <1>1, <1>2, <1>3, <1>4, <1>5, <1>6 DEF Fits, Said, Saying

\* A command drops the session's recipients, or adds one, or keeps them.  The only command
\* that makes somebody the first recipient is one that names him.
LEMMA CommandRcpt ==
  ASSUME OnePart, TypeInv, QuitInv, NEW w \in Worker, _handle_command_stream(w), NEW a \in Addr,
         Address(w) = a, FlowInv(a), StreamInv(a), WordInv(a), PlainInv(a), RcptInv(a)
  PROVE  PlainInv(a)' /\ RcptInv(a)' /\ (worker[w].task.part = 0 \/ HeadKept(a))
<1> DEFINE s == Mine(w)
           p == worker[w].task
           effect == Effect(s, p)
           plain == [s EXCEPT !.partial_line = FALSE]
<1>1. /\ worker[w].at = "command" /\ sessions' = sessions /\ script' = script /\ client' = client
      /\ WorkerStep(w)
  BY DEF _handle_command_stream, At, WorkerOnly, WorkerStep
<1>2. Serves(w, a) /\ Moves(w)
  <2>1. ~Take(w)
    BY <1>1 DEF Take, At
  <2> QED
    BY <1>1, <2>1, WorkerMoves DEF Serves, Serving, Address
<1>3. /\ sessions[a] # 0 /\ worker[w].sid = sessions[a] /\ s = session[a][sessions[a]]
      /\ s \in SessionType /\ sessions[a] \in 1..Len(session[a]) /\ p \in Packets
      /\ Fits(client[a], p)
  BY <1>1, <1>2, MineNow, InService
<1>4. ~s.partial_line
  <2>1. sessions[a] \in DOMAIN session[a]
    <3>1. session[a] \in Seq(SessionType)
      BY DEF TypeInv, SessionInv
    <3> QED
      BY <1>3, <3>1, LenProperties
  <2> QED
    BY <1>3, <2>1 DEF PlainInv
<1>5. p.part \in {0, 1} /\ (p.part = 1 => p.last /\ p.verb = "chunk")
  <2>1. p.part \in 0..1
    BY <1>3 DEF OnePart, Packets
  <2> QED
    BY <1>3, <2>1 DEF Fits
<1>6. \/ /\ SetSession(w, plain) /\ p.verb \in {"BAD", "chunk"}
         /\ Answer(w, 500) \/ Refuse(w)
      \/ SetSession(w, effect) /\ Answer(w, Expects(p.verb)) /\ p.verb \notin {"BAD", "chunk"}
      \/ session' = session /\ Answer(w, 503) /\ ~Accepts(s, p.verb)
  <2>1. p.part > 0 <=> p.part = 1
    BY <1>5
  <2>2. p.last => (~p.last) = FALSE
    OBVIOUS
  <2> QED
    BY <1>4, <1>5, <2>1, <2>2 DEF _handle_command_stream, Unreadable
<1>7. /\ \A code : Answer(w, code) => worker'[w].at = "reply"
      /\ Refuse(w) => worker'[w].at = "reply"
  BY AnswerFields, RefuseKeeps
<1>8. worker'[w].at = "reply"
  BY <1>6, <1>7
<1>9. OnTrack(a) => /\ p.n = client[a].n /\ p.n \in 1..p.n
                    /\ p.part = 0 => /\ p.verb = Saying(a)
                                     /\ p.verb = "RCPT" => p.rcpt = script[a][p.n].rcpt
                    /\ p.part = 1 => Saying(a) = "DATA" /\ p.verb = "chunk"
  BY <1>2, ServedSaid
<1>10. ASSUME HeadKept(a), PlainInv(a)', OnTrack(a) => Saying(a) # "RSET"
       PROVE  RcptKept(a)
  BY <1>1, <1>2, <1>8, <1>10, ServedRcpt
<1>11. ASSUME NEW t, SetSession(w, t) PROVE Recipients(a)' = t.rcpt_to
  BY <1>1, <1>3, <1>11, SetMine DEF Recipients
<1>12. Recipients(a) = s.rcpt_to /\ s.rcpt_to \in Seq(STRING)
  BY <1>3 DEF Recipients, SessionType
<1>13. ASSUME \/ Recipients(a)' = Recipients(a) \/ Recipients(a)' = <<>>
              \/ Recipients(a) # <<>> /\ Head(Recipients(a)') = Head(Recipients(a))
       PROVE  HeadKept(a)
  BY <1>1, <1>3, <1>13 DEF HeadKept
<1> HIDE DEF s, p
<1>14. CASE SetSession(w, plain) /\ p.verb \in {"BAD", "chunk"}
  <2>1. plain.rcpt_to = s.rcpt_to /\ ~plain.partial_line
    BY <1>3 DEF SessionType
  <2> HIDE DEF plain
  <2>2. HeadKept(a)
    BY <1>11, <1>12, <1>13, <1>14, <2>1
  <2>3. OnTrack(a) => Saying(a) # "RSET"
    BY <1>5, <1>9, <1>14
  <2>4. PlainInv(a)'
    BY <1>14, <2>1, SetPlain
  <2> QED
    BY <1>10, <2>2, <2>3, <2>4 DEF RcptKept
<1>15. CASE SetSession(w, effect) /\ p.verb \notin {"BAD", "chunk"}
  <2>1. /\ ~effect.partial_line
        /\ p.verb = "RSET" => effect.rcpt_to = <<>>
        /\ p.verb = "RCPT" => effect.rcpt_to = Append(s.rcpt_to, p.rcpt)
        /\ p.verb \notin {"RSET", "RCPT"} => effect.rcpt_to = s.rcpt_to
    BY <1>3, <1>4, EffectRcpt
  <2> HIDE DEF effect
  <2>2. Recipients(a)' = effect.rcpt_to /\ PlainInv(a)' /\ p.part = 0
    BY <1>5, <1>11, <1>15, <2>1, SetPlain
  <2>3. CASE p.verb = "RSET"
    BY <2>1, <2>2, <2>3 DEF RcptInv, p
  <2>4. CASE p.verb \notin {"RSET", "RCPT"}
    <3>1. OnTrack(a) => Saying(a) # "RSET"
      BY <1>9, <2>2, <2>4
    <3>2. HeadKept(a)
      BY <1>12, <1>13, <2>1, <2>2, <2>4
    <3> QED
      BY <1>10, <2>2, <3>1, <3>2 DEF RcptKept
  <2>5. CASE p.verb = "RCPT" /\ s.rcpt_to # <<>>
    <3>1. OnTrack(a) => Saying(a) # "RSET"
      BY <1>9, <2>2, <2>5
    <3>2. Append(s.rcpt_to, p.rcpt) # <<>> /\ Head(Append(s.rcpt_to, p.rcpt)) = Head(s.rcpt_to)
      BY <1>3, <1>12, <2>5 DEF Packets
    <3>3. HeadKept(a)
      BY <1>12, <1>13, <2>1, <2>2, <2>5, <3>2
    <3> QED
      BY <1>10, <2>2, <3>1, <3>3 DEF RcptKept
  <2>6. CASE p.verb = "RCPT" /\ s.rcpt_to = <<>>
    <3> SUFFICES ASSUME OnTrack(a)' PROVE RcptInv(a)'
      BY <2>2 DEF RcptInv, p
    <3>1. OnTrack(a)
      BY <1>1 DEF OnTrack
    <3>2. Head(Recipients(a)') = p.rcpt
      <4>1. Append(s.rcpt_to, p.rcpt) = <<p.rcpt>>
        BY <2>6
      <4> QED
        BY <2>1, <2>2, <2>6, <4>1
    <3>3. script[a][p.n].verb = "RCPT" /\ p.rcpt = script[a][p.n].rcpt
      BY <1>9, <2>2, <2>6, <3>1 DEF Saying
    <3>4. ~Unhandled(a)'
      <4>1. ~Linked(a)' /\ ~Greeted(a)' /\ ~InQueue(tasks', a)
        BY <1>1, <1>2, <3>1, InService, InServiceNext DEF OnTrack, Alive
      <4> QED
        BY <1>1, <1>2, <1>8, <4>1, InServiceNext DEF Unhandled
    <3>5. PICK n \in 1..client[a].n : n = p.n /\ n = client[a].n
      BY <1>9, <3>1
    <3>6. \A k \in (n + 1)..client[a].n : FALSE
      BY <3>5, ClientFields
    <3>7. Names(a, n)'
      BY <1>1, <3>2, <3>3, <3>4, <3>5, <3>6 DEF Names
    <3> QED
      BY <1>1, <3>5, <3>7 DEF RcptInv
  <2> QED
    BY <2>2, <2>3, <2>4, <2>5, <2>6
<1>16. CASE session' = session /\ ~Accepts(s, p.verb)
  <2>1. p.verb # "RSET"
    BY <1>16 DEF Accepts
  <2>2. HeadKept(a) /\ PlainInv(a)'
    BY <1>1, <1>16, HeadStays DEF PlainInv
  <2>3. OnTrack(a) => Saying(a) # "RSET"
    BY <1>5, <1>9, <2>1
  <2> QED
    BY <1>10, <2>2, <2>3 DEF RcptKept
<1> QED
  BY <1>6, <1>14, <1>15, <1>16

-----------------------------------------------------------------------------
(* Recipients: where a message on its way will go                          *)

\* Number n of client a comes behind a RCPT that names r, with no other between them.
LastNamed(a, n, r) ==
  \E i \in DOMAIN script[a] :
    /\ i < n /\ script[a][i].verb = "RCPT" /\ script[a][i].rcpt = r
    /\ \A j \in DOMAIN script[a] : j < n /\ script[a][j].verb = "RCPT" => j <= i

\* The message p finds the recipient that was named for it first, or none.
Right(a, p) ==
  p.part = 1 /\ sessions[a] # 0 /\ Recipients(a) # <<>> =>
    LastNamed(a, p.n, Head(Recipients(a)))

RightInv(a) == \A p \in Packets : Pending(a, p) => Right(a, p)

\* No message gets on its way to a handler.
NoneSent(a) == \A p \in Packets : Pending(a, p)' => Pending(a, p) \/ p.part = 0

LEMMA RightFrame ==
  ASSUME NEW a, RightInv(a), script' = script, NoneSent(a), HeadKept(a)
  PROVE  RightInv(a)'
BY DEF RightInv, Right, LastNamed, NoneSent, HeadKept

LEMMA SendPending ==
  ASSUME TypeInv, NEW a \in Addr, NEW p, NEW c, Send(a, p, c)
  PROVE  /\ \A q \in Packets : Pending(a, q)' => Pending(a, q) \/ q = p
         /\ UNCHANGED <<script, sessions, session>>
<1>1. UNCHANGED <<script, greeting, tasks, worker, sessions, session>>
  BY DEF Send, sessionVars
<1>2. inbound'[a] = p
  BY DEF Send, TypeInv, LinkInv
<1> QED
  BY <1>1, <1>2 DEF Pending, Linked, Greeted, Serves

\* A client that says DATA has named the recipient its session has, and nobody since.
LEMMA NamedLast ==
  ASSUME OneRecipient, TypeInv, NEW a \in Addr, AskInv(a), RcptInv(a), OnTrack(a),
         Saying(a) = "DATA", sessions[a] # 0, Recipients(a) # <<>>
  PROVE  LastNamed(a, client[a].n, Head(Recipients(a)))
<1> DEFINE n == client[a].n
<1>1. PICK j \in 1..n : Names(a, j)
  BY DEF RcptInv
<1>2. /\ n \in 1..Len(script[a]) /\ n \in Nat /\ Len(script[a]) \in Nat
      /\ DOMAIN script[a] = 1..Len(script[a]) /\ script \in Script
  BY ScriptType, ClientFields, LenProperties DEF AskInv, TypeInv, ClientInv
<1>3. script[a][j].verb = "RCPT" /\ script[a][j].rcpt = Head(Recipients(a))
  BY <1>1 DEF Names
<1>4. j \in DOMAIN script[a] /\ j < n
  <2>1. j # n
    BY <1>3 DEF Saying
  <2> QED
    BY <1>2, <2>1
<1>5. ASSUME NEW i \in DOMAIN script[a], i < n, script[a][i].verb = "RCPT" PROVE i <= j
  <2> SUFFICES ASSUME j < i PROVE FALSE
    BY <1>2
  <2>1. PICK k \in (j + 1)..(i - 1) : script[a][k].verb \in {"RSET", "QUIT"}
    BY <1>2, <1>3, <1>4, <1>5 DEF OneRecipient
  <2>2. k \in (j + 1)..n /\ k # n
    BY <1>2, <1>5, <2>1
  <2> QED
    BY <1>1, <2>1, <2>2 DEF Names
<1> QED
  BY <1>3, <1>4, <1>5 DEF LastNamed

\* The message that a DATA announced is the only one that a send brings.
LEMMA ClientRight ==
  ASSUME OneRecipient, TypeInv, QuitInv, NEW a \in Addr \ Prompt, FlowInv(a), AskInv(a),
         PlainInv(a), RcptInv(a), RightInv(a), ClientStep(a)
  PROVE  RightInv(a)'
<1>1. HeadKept(a) /\ script' = script
  <2>1. RcptKept(a)
    BY ClientRcpt
  <2> QED
    BY <2>1 DEF RcptKept, ClientStep, _connect, _send_command, _send_data, Abandon, _get_reply,
                ClientGivesUp, Send
<1>2. ASSUME _connect(a) \/ _send_command(a) \/ Abandon(a) PROVE NoneSent(a)
  <2>1. PICK p, c : Send(a, p, c) /\ p.part = 0
    <3>1. CASE _connect(a)
      <4> DEFINE q == [PacketOf(a, client[a].n + 1, 0, "NOOP", Nobody, FALSE) EXCEPT !.bit = 0]
      <4>1. q.part = 0
        BY DEF PacketOf
      <4> HIDE DEF q
      <4> QED
        BY <3>1, <4>1 DEF _connect, q
    <3>2. CASE _send_command(a)
      <4> DEFINE q == PacketOf(a, client[a].n + 1, 0, Item(a).verb, Item(a).rcpt, FALSE)
      <4>1. q.part = 0
        BY DEF PacketOf
      <4> HIDE DEF q
      <4> QED
        BY <3>2, <4>1 DEF _send_command, q
    <3>3. CASE Abandon(a)
      <4> DEFINE q == PacketOf(a, client[a].n + 1, 0, "QUIT", Nobody, FALSE)
      <4>1. q.part = 0
        BY DEF PacketOf
      <4> HIDE DEF q
      <4> QED
        BY <3>3, <4>1 DEF Abandon, q
    <3> QED
      BY <1>2, <3>1, <3>2, <3>3
  <2> QED
    BY <2>1, SendPending DEF NoneSent
<1>3. CASE _send_data(a)
  <2> DEFINE q(last) == PacketOf(a, client[a].n, client[a].part + 1, "chunk", Nobody, last)
  <2>1. PICK last \in BOOLEAN : \E c : Send(a, q(last), c)
    BY <1>3 DEF _send_data
  <2>2. q(last).n = client[a].n
    BY DEF PacketOf
  <2> HIDE DEF q
  <2>3. /\ \A p \in Packets : Pending(a, p)' => Pending(a, p) \/ p.n = client[a].n
        /\ UNCHANGED <<script, sessions, session>>
    BY <2>1, <2>2, SendPending
  <2>4. OnTrack(a) /\ Saying(a) = "DATA"
    BY <1>3 DEF _send_data, AskInv, OnTrack
  <2>5. sessions[a] # 0 /\ Recipients(a) # <<>> =>
          LastNamed(a, client[a].n, Head(Recipients(a)))
    BY <2>4, NamedLast
  <2> QED
    BY <2>3, <2>5 DEF RightInv, Right, LastNamed, Recipients
<1>4. CASE _get_reply(a)
  <2>1. UNCHANGED <<inbound, greeting, tasks, worker>>
    BY <1>4, ReplyCases DEF loopVars
  <2>2. NoneSent(a)
    BY <2>1 DEF NoneSent, Pending, Linked, Greeted, Serves
  <2> QED
    BY <1>1, <2>2, RightFrame
<1>5. CASE ClientGivesUp(a)
  <2>1. NoneSent(a)
    BY <1>5, GivesUpKept DEF Kept, NoneSent
  <2> QED
    BY <1>1, <2>1, RightFrame
<1> QED
  BY <1>1, <1>2, <1>3, <1>4, <1>5, RightFrame DEF ClientStep

\* The pool brings nothing on its way: it takes, or answers, what is on its way.
LEMMA WorkerPending ==
  ASSUME TypeInv, QuitInv, NEW w \in Worker, WorkerStep(w), NEW a \in Addr
  PROVE  NoneSent(a)
<1>1. CASE Take(w)
  <2>1. Kept(a)
    BY <1>1, TakeFields, TakeKept, OtherTake, SameKept, NothingStored
  <2> QED
    BY <2>1 DEF Kept, NoneSent
<1>2. CASE ~Take(w)
  <2>1. /\ Moves(w) /\ inbound' = inbound /\ greeting' = greeting
    BY <1>2, WorkerMoves, WorkerEffect
  <2>2. worker[w].at = "reply" => worker'[w].at \notin Serving
    <3> SUFFICES ASSUME worker[w].at = "reply" PROVE worker'[w].at \notin Serving
      OBVIOUS
    <3>1. Reply(w)
      BY <1>2, ProcessFields, CopyFields
         DEF WorkerStep, Extend, Check, Reset, _finalize_message, _handle_command_stream, Rest,
             Clear, PopSender, PopSession, reset_state, At
    <3> QED
      BY <3>1, GotoFields, DoneFields DEF Reply, Serving
  <2>3. ASSUME NEW u \in Worker, Serves(u, a)', worker'[u].at # "reply"
        PROVE  Serves(u, a) /\ worker[u].at # "reply" /\ worker'[u].task = worker[u].task
    <3>1. CASE u = w
      BY <2>1, <2>2, <2>3, <3>1 DEF Moves, Serves
    <3>2. CASE u # w
      BY <2>1, <2>3, <3>2 DEF Moves, Serves
    <3> QED
      BY <3>1, <3>2
  <2> QED
    BY <2>1, <2>3 DEF NoneSent, Pending, Linked, Greeted, Moves
<1> QED
  BY <1>1, <1>2

\* A command leaves nothing of its client on its way but another command.
LEMMA CommandRight ==
  ASSUME OnePart, TypeInv, QuitInv, NEW w \in Worker, _handle_command_stream(w), NEW a \in Addr,
         Address(w) = a, FlowInv(a), StreamInv(a), WordInv(a), PlainInv(a), RcptInv(a),
         RightInv(a)
  PROVE  RightInv(a)'
<1>1. /\ worker[w].at = "command" /\ WorkerStep(w) /\ script' = script
  BY DEF _handle_command_stream, At, WorkerOnly, WorkerStep
<1>2. Serves(w, a) /\ Moves(w)
  <2>1. ~Take(w)
    BY <1>1 DEF Take, At
  <2> QED
    BY <1>1, <2>1, WorkerMoves DEF Serves, Serving, Address
<1>3. worker'[w].at \in {"reply", "idle"}
  BY <1>2, CommandFields
<1>4. ASSUME NEW p \in Packets, Pending(a, p)' PROVE p.part = 0
  <2>1. Linked(a) /\ p = inbound[a]
    BY <1>1, <1>2, <1>3, <1>4, InServiceNext DEF Pending, InQueue, Serves, Serving
  <2>2. AtServer(a)
    BY <1>2 DEF AtServer, Holds, Serves
  <2> QED
    BY <2>1, <2>2 DEF FlowInv, BitInv
<1> QED
  BY <1>4 DEF RightInv, Right

\* What a step leaves of the recipient of client a.
RecipientInv(a) == WordInv(a) /\ PlainInv(a) /\ RcptInv(a) /\ RightInv(a)

LEMMA KeptRight ==
  ASSUME NEW a, RcptKept(a), NoneSent(a), script' = script, RightInv(a)
  PROVE  PlainInv(a)' /\ RcptInv(a)' /\ RightInv(a)'
BY RightFrame DEF RcptKept

LEMMA WorkerRight ==
  ASSUME OnePart, TypeInv, QuitInv, NEW w \in Worker, WorkerStep(w), NEW a \in Addr,
         FlowInv(a), StreamInv(a), RecipientInv(a)
  PROVE  PlainInv(a)' /\ RcptInv(a)' /\ RightInv(a)'
<1>1. /\ script' = script /\ NoneSent(a) /\ AskInv(a)
      /\ WordInv(a) /\ PlainInv(a) /\ RcptInv(a) /\ RightInv(a)
  BY WorkerEffect, WorkerPending DEF SameClient, WordInv, RecipientInv
<1>2. CASE Take(w)
  <2>1. Head(tasks).addr # a => Same(a) /\ session'[a] = session[a]
    BY <1>2, OtherTake, TakeFields
  <2> QED
    BY <1>1, <1>2, <2>1, TakeRcpt, SameRcpt, KeptRight
<1>3. CASE ~Take(w) /\ Address(w) = a
  <2>1. CASE _handle_command_stream(w)
    BY <1>1, <1>3, <2>1, CommandRcpt, CommandRight
  <2>2. CASE ~_handle_command_stream(w)
    <3>1. RcptKept(a)
      BY <1>1, <1>3, <2>2, ProcessRcpt, HandledRcpt, RestRcpt, ClearRcpt, PopRcpt DEF WorkerStep
    <3> QED
      BY <1>1, <3>1, KeptRight
  <2> QED
    BY <2>1, <2>2
<1>4. CASE ~Take(w) /\ Address(w) # a
  <2>1. Moves(w) /\ worker[w].task.addr # a
    BY <1>4, WorkerMoves DEF Address
  <2> QED
    BY <1>1, <2>1, OtherWorker, OtherSession, SameRcpt, KeptRight
<1> QED
  BY <1>2, <1>3, <1>4

LEMMA RecipientStep ==
  ASSUME OnePart, OneRecipient, TypeInv, QuitInv, Next, NEW a \in Addr \ Prompt,
         FlowInv(a), StreamInv(a), RecipientInv(a)
  PROVE  RecipientInv(a)'
<1>1. AskInv(a) /\ WordInv(a) /\ PlainInv(a) /\ RcptInv(a) /\ RightInv(a)
  BY DEF RecipientInv, WordInv
<1> SUFFICES PlainInv(a)' /\ RcptInv(a)' /\ RightInv(a)'
  BY <1>1, WordStep DEF RecipientInv
<1>2. ASSUME Same(a), session'[a] = session[a]
      PROVE  PlainInv(a)' /\ RcptInv(a)' /\ RightInv(a)'
  <2>1. RcptKept(a) /\ script' = script
    BY <1>1, <1>2, SameRcpt DEF Same, Less
  <2>2. NoneSent(a)
    <3>1. \A w \in Worker : Serves(w, a)' => Serves(w, a) /\ worker'[w] = worker[w]
      BY <1>2, SameServes
    <3> QED
      BY <1>2, <3>1 DEF NoneSent, Pending, Same, Less
  <2> QED
    BY <1>1, <2>1, <2>2, KeptRight
<1>3. ASSUME NEW b \in Addr, ClientStep(b) PROVE PlainInv(a)' /\ RcptInv(a)' /\ RightInv(a)'
  <2>1. CASE a # b
    <3>1. session' = session
      BY <1>3 DEF ClientStep, _connect, _send_command, _send_data, Abandon,
                  _get_reply, ClientGivesUp, Send, sessionVars
    <3> QED
      BY <1>2, <1>3, <2>1, <3>1, OtherClientSame
  <2>2. CASE a = b
    BY <1>1, <1>3, <2>2, ClientRcpt, ClientRight DEF RcptKept
  <2> QED
    BY <2>1, <2>2
<1>4. ASSUME NEW b \in Addr, Reject(b) PROVE PlainInv(a)' /\ RcptInv(a)' /\ RightInv(a)'
  BY <1>2, <1>4, RejectSame DEF Reject, sessionVars
<1>5. ASSUME NEW b \in Addr, Receive(b) PROVE PlainInv(a)' /\ RcptInv(a)' /\ RightInv(a)'
  <2>1. stored' = stored /\ script' = script
    BY <1>5, ReceiveFields
  <2>2. Kept(a)
    BY <1>5, <2>1, ReceiveKept, OtherReceive, NothingStored, SameKept, ReapedKept
  <2>3. RcptKept(a)
    <3>1. CASE a = b
      BY <1>1, <1>5, <3>1, ReceiveRcpt
    <3>2. CASE a # b
      <4>1. session'[a] = session[a]
        BY <1>5, <3>2, ReceiveFields
      <4> QED
        BY <1>1, <1>5, <3>2, <4>1, OtherReceive, SameRcpt, ReapedRcpt
    <3> QED
      BY <3>1, <3>2
  <2>4. NoneSent(a)
    BY <2>2 DEF Kept, NoneSent
  <2> QED
    BY <1>1, <2>1, <2>3, <2>4, KeptRight
<1>6. CASE Greet
  <2>1. session' = session /\ script' = script
    BY <1>6 DEF Greet, sessionVars
  <2>2. CASE greeting.addr = a
    <3>1. Greeted(a)
      BY <1>6, <2>2 DEF Greet, Greeted
    <3>2. NoneSent(a)
      BY <1>6, <3>1, GreetKept DEF Kept, NoneSent
    <3> QED
      BY <1>1, <1>6, <2>1, <3>1, <3>2, GreetRcpt, KeptRight
  <2>3. CASE greeting.addr # a
    BY <1>2, <1>6, <2>1, <2>3, OtherGreet
  <2> QED
    BY <2>2, <2>3
<1>7. ASSUME NEW w \in Worker, WorkerStep(w) PROVE PlainInv(a)' /\ RcptInv(a)' /\ RightInv(a)'
  BY <1>7, WorkerRight
<1> QED
  BY <1>3, <1>4, <1>5, <1>6, <1>7 DEF Next, LoopStep

-----------------------------------------------------------------------------
(* Recipients: where a message goes                                        *)

\* The message that is stored goes to the recipient its session has.
LEMMA FinalizeRight ==
  ASSUME TypeInv, NEW w \in Worker, _finalize_message(w), QuitInv,
         NEW a \in Addr, Address(w) = a, FlowInv(a), StreamInv(a), RightInv(a),
         RightRecipient
  PROVE  RightRecipient'
<1> DEFINE p == worker[w].task
           to == Mine(w).rcpt_to
           whole == Message(worker[w].full)
           m == [parts |-> whole, rcpt |-> Head(to)]
<1>1. /\ worker[w].at = "finalize" /\ script' = script
      /\ stored' = stored \/ (to # <<>> /\ stored' = Append(stored, m))
      /\ to # <<>> /\ stored' # stored => Head(to) \in User
  BY DEF _finalize_message, At, WorkerOnly
<1>2. Serves(w, a)
  BY <1>1 DEF Serves, Serving, Address
<1>3. worker[w].full = <<p>> /\ p.part = 1 /\ p \in Packets /\ p.addr = a
  BY <1>1, <1>2, InService, FinalizeStream DEF Serves
<1>4. sessions[a] # 0 /\ to = Recipients(a)
  BY <1>1, <1>2, MineNow DEF Recipients
<1>5. m.parts = <<p>> /\ m.rcpt = Head(to)
  BY <1>3, MessageOne
<1>6. m.parts[1] = p
  BY <1>5
<1>7. to # <<>> => LastNamed(a, p.n, Head(to))
  <2>1. Pending(a, p)
    BY <1>1, <1>2 DEF Pending
  <2>2. Right(a, p)
    BY <1>3, <2>1 DEF RightInv
  <2> QED
    BY <1>3, <1>4, <2>2 DEF Right
<1> HIDE DEF p, whole
<1>8. CASE stored' = stored
  BY <1>1, <1>8 DEF RightRecipient
<1>9. CASE to # <<>> /\ stored' = Append(stored, m) /\ stored' # stored
  <2>1. PICK j \in DOMAIN script[a] :
          /\ j < p.n /\ script[a][j].verb = "RCPT" /\ script[a][j].rcpt = Head(to)
          /\ \A k \in DOMAIN script[a] : k < p.n /\ script[a][k].verb = "RCPT" => k <= j
    BY <1>7, <1>9 DEF LastNamed
  <2> HIDE DEF m, to
  <2>2. ASSUME NEW q \in ToSet(stored')
        PROVE  q \in ToSet(stored) \/ q = m
    <3> DEFINE T == [parts : Seq(Packets), rcpt : User]
    <3>1. m \in T
      <4>1. m.parts \in Seq(Packets) /\ Head(to) \in User
        BY <1>1, <1>3, <1>5, <1>9
      <4> QED
        BY <4>1 DEF m, whole
    <3>2. stored \in Seq(T)
      BY DEF TypeInv, StoredType
    <3> HIDE DEF T
    <3>3. ToSet(stored') = ToSet(stored) \union {m}
      BY <1>9, <3>1, <3>2, AppendSet
    <3> QED
      BY <3>3
  <2>3. ASSUME NEW q \in ToSet(stored')
        PROVE  LET b == q.parts[1].addr
                   named == {i \in DOMAIN script[b] :
                               i < q.parts[1].n /\ script[b][i].verb = "RCPT"}
               IN \E i \in named : (\A k \in named : k <= i) /\ q.rcpt = script[b][i].rcpt
    <3>1. CASE q \in ToSet(stored)
      BY <3>1 DEF RightRecipient
    <3>2. CASE q = m
      BY <1>3, <1>5, <1>6, <2>1, <3>2
    <3> QED
      BY <2>2, <3>1, <3>2
  <2> QED
    BY <1>1, <2>3 DEF RightRecipient
<1> QED
  BY <1>1, <1>8, <1>9

AllRcpt == RightRecipient /\ \A a \in Addr : RecipientInv(a)

LEMMA RcptInit == Init => AllRcpt
<1> SUFFICES ASSUME Init PROVE AllRcpt
  OBVIOUS
<1>1. RightRecipient
  BY DEF Init, RightRecipient, ToSet
<1>2. ASSUME NEW a \in Addr PROVE RecipientInv(a)
  <2>1. ~OnTrack(a) /\ sessions[a] = 0
    BY DEF Init, NewClient, OnTrack
  <2>2. \A p \in InHand \union {greeting, inbound[a]} : p = NoPacket
    BY DEF Init, InHand, Idle, ToSet
  <2>3. PlainInv(a)
    BY DEF Init, PlainInv
  <2> QED
    BY <2>1, <2>2, <2>3 DEF RecipientInv, WordInv, SaidInv, AskInv, RcptInv, RightInv, Right
<1> QED
  BY <1>1, <1>2 DEF AllRcpt

\* No step changes what the clients' callers say.
LEMMA ScriptFixed == Next => script' = script
<1>1. ASSUME NEW a \in Addr, ClientStep(a) PROVE script' = script
  BY <1>1 DEF ClientStep, _connect, _send_command, _send_data, Abandon, _get_reply,
              ClientGivesUp, Send
<1>2. ASSUME NEW a \in Addr, LoopStep(a) PROVE script' = script
  BY <1>2 DEF LoopStep, Reject, Receive
<1>3. ASSUME Greet PROVE script' = script
  BY <1>3 DEF Greet
<1>4. ASSUME NEW w \in Worker, WorkerStep(w) PROVE script' = script
  <2>1. CASE Take(w) \/ _process_packet(w) \/ Extend(w) \/ Check(w) \/ Copy(w) \/ Reset(w)
    BY <2>1 DEF Take, _process_packet, Extend, Check, Copy, Reset, WorkerOnly
  <2>2. CASE _finalize_message(w) \/ _handle_command_stream(w)
    BY <2>2 DEF _finalize_message, _handle_command_stream, WorkerOnly
  <2>3. CASE Reply(w) \/ Rest(w) \/ Clear(w) \/ PopSender(w) \/ PopSession(w) \/ reset_state(w)
    BY <2>3 DEF Reply, Rest, Clear, PopSender, PopSession, reset_state, WorkerOnly
  <2> QED
    BY <1>4, <2>1, <2>2, <2>3 DEF WorkerStep
<1> QED
  BY <1>1, <1>2, <1>3, <1>4 DEF Next

LEMMA AllRcptKept ==
  ASSUME OnePart, AllPatient, OneRecipient, TypeInv, AllFlow, AllMail, AllRcpt, [Next]_vars
  PROVE  AllRcpt'
<1>1. /\ Addr = Addr \ Prompt /\ QuitInv
      /\ \A b \in Addr : FlowInv(b) /\ StreamInv(b) /\ RecipientInv(b)
  BY DEF AllPatient, AllFlow, AllMail, AllRcpt
<1>2. CASE UNCHANGED vars
  <2>1. UNCHANGED <<script, client, inbound, greeting, tasks, worker, sessions, session, stored>>
    BY <1>2 DEF vars, loopVars, sessionVars
  <2>2. ASSUME NEW a \in Addr PROVE RecipientInv(a)'
    <3>1. /\ WordInv(a) /\ PlainInv(a) /\ RcptInv(a) /\ RightInv(a) /\ InHand' = InHand
      BY <1>1, <2>1 DEF RecipientInv, InHand
    <3>2. /\ NoneSent(a) /\ HeadKept(a) /\ PlainInv(a)'
          /\ Unhandled(a)' <=> Unhandled(a)
      BY <2>1, <3>1 DEF NoneSent, Pending, Linked, Greeted, Serves, HeadKept, Recipients,
                        PlainInv, Unhandled, InQueue
    <3>3. RcptInv(a)'
      BY <2>1, <3>1, <3>2, RcptFrame DEF OnTrack, RcptKept
    <3> QED
      BY <2>1, <3>1, <3>2, <3>3, WordFrame, RightFrame DEF RecipientInv
  <2> QED
    BY <1>1, <2>1, <2>2 DEF AllRcpt, RightRecipient
<1>3. CASE Next
  <2>1. \A a \in Addr : RecipientInv(a)'
    BY <1>1, <1>3, RecipientStep
  <2>2. RightRecipient'
    <3>1. ASSUME NEW w \in Worker, _finalize_message(w) PROVE RightRecipient'
      <4>1. Address(w) \in Addr
        BY <3>1, WorkerFields DEF _finalize_message, At
      <4> QED
        BY <1>1, <3>1, <4>1, FinalizeRight DEF AllRcpt, RecipientInv
    <3>2. CASE \A w \in Worker : ~_finalize_message(w)
      <4>1. stored' = stored
        BY <1>3, <3>2, OtherStored
      <4>2. script' = script
        BY <1>3, ScriptFixed
      <4> QED
        BY <4>1, <4>2 DEF AllRcpt, RightRecipient
    <3> QED
      BY <3>1, <3>2
  <2> QED
    BY <2>1, <2>2 DEF AllRcpt
<1> QED
  BY <1>2, <1>3

\* A message goes to the recipient that its client named last before its DATA command, when a
\* client that has named one starts again, with RSET or with a new connection, before it names
\* the next: handling that drops what rcpt_to kept of the transaction before.  It does so on
\* lossy links too, and when the reaper takes a session and a late packet makes another.
THEOREM MessagesGoToTheirRecipient ==
  OnePart /\ AllPatient /\ OneRecipient => (Spec => []RightRecipient)
<1> SUFFICES ASSUME OnePart, AllPatient, OneRecipient
             PROVE  Spec => []RightRecipient
  OBVIOUS
<1>1. TypeInv /\ AllFlow /\ AllMail /\ AllRcpt /\ [Next]_vars => AllRcpt'
  BY AllRcptKept
<1>2. AllRcpt => RightRecipient
  BY DEF AllRcpt
<1> QED
  BY <1>1, <1>2, RcptInit, FlowCorrect, MailCorrect, PTL DEF Spec
=============================================================================
