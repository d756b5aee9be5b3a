----------------------------- MODULE SmtpProofs -----------------------------
(***************************************************************************)
(* Theorems about module SmtpServer: its types, and that the receiver and a *)
(* client on a sound link stay in step, whatever the other clients do.      *)
(***************************************************************************)
EXTENDS SmtpServer, SequenceLemmas, WellFoundedInduction

\* A client that has another part to send has sent fewer than MaxChunks; while it waits for
\* the answer to DATA it has sent none.
ClientOK(a, c) ==
  /\ c \in ClientType
  /\ IF c.mode = "gone" THEN c.n <= Len(script[a]) + 1 ELSE c.n <= Len(script[a])
  /\ c.mode = "data" => c.part < MaxChunks
  /\ \A i \in DOMAIN c.awaiting : c.awaiting[i] = 354 => c.part = 0

ClientInv ==
  /\ script \in Script
  /\ client \in [Addr -> ClientType]
  /\ \A a \in Addr : ClientOK(a, client[a])

\* What a client's link holds comes from that client.
LinkInv ==
  /\ inbound \in [Addr -> Packets \union {NoPacket}]
  /\ \A a \in Addr : inbound[a] # NoPacket => inbound[a].addr = a
  /\ expected \in [Addr -> {0, 1}] /\ senders \in [Addr -> {0, 1, NoSender}]
  /\ greeting \in Packets \union {NoPacket}
  /\ last_activity \subseteq Addr

SessionInv ==
  /\ session \in [Addr -> Seq(SessionType)]
  /\ sessions \in [Addr -> Nat] /\ \A a \in Addr : sessions[a] <= Len(session[a])

PoolInv ==
  /\ tasks \in Seq(Packets)
  /\ worker \in [Worker -> WorkerType]
  /\ \A w \in Worker :
       /\ ~At(w, "idle") => worker[w].task \in Packets
       /\ ~At(w, "idle") /\ ~At(w, "process") =>
            worker[w].sid \in 1..Len(session[Address(w)])
       /\ At(w, "reply") => worker[w].code \in Code
       /\ At(w, "rest") => worker[w].lines > 0

StoredType == Seq([parts : Seq(Packets), rcpt : User])

TypeInv == ClientInv /\ LinkInv /\ SessionInv /\ PoolInv /\ stored \in StoredType

\* A client that has closed, or that waits for nothing but the answer to its QUIT: it sends
\* no more on this connection.
Leaves(a) ==
  \/ client[a].mode \in {"closed", "gone"}
  \/ /\ client[a].mode = "open" /\ client[a].awaiting = <<221>> /\ client[a].part = 0
     /\ client[a].n \in 1..Len(script[a]) /\ script[a][client[a].n].verb = "QUIT"

QuitOf(a, p) == p # NoPacket /\ p.addr = a /\ p.verb = "QUIT"

\* The packets of the pool.
InHand == ToSet(tasks) \union {worker[w].task : w \in Worker}

\* The packet on a sound link has the bit that the receiver expects; with none on it the
\* client's next packet will have it.
SyncInv(a) ==
  /\ inbound[a] # NoPacket => /\ inbound[a].bit = expected[a]
                              /\ inbound[a].verb = "QUIT" => Leaves(a)
  /\ ~Leaves(a) => client[a].bit = IF inbound[a] = NoPacket THEN expected[a]
                                                            ELSE 1 - expected[a]

\* Nothing follows a QUIT that the server is working on.
LastInv(a) ==
  \A p \in InHand \union {greeting} : QuitOf(a, p) => Leaves(a) /\ inbound[a] = NoPacket

\* While a client is greeted it has a session, and no QUIT of it is in the pool.
GreetInv(a) ==
  greeting # NoPacket /\ greeting.addr = a =>
    sessions[a] # 0 /\ \A p \in InHand : ~QuitOf(a, p)

InStep(a) == SyncInv(a) /\ LastInv(a) /\ GreetInv(a)

\* Only a QUIT is answered 221, and only behind that answer is a client forgotten.
Leaving(v) == \/ v.at \in {"pop_sender", "pop_session", "reset_state"}
              \/ v.at = "reply" /\ v.code = 221

QuitInv == \A w \in Worker : Leaving(worker[w]) => worker[w].task.verb = "QUIT"

StepInv == QuitInv /\ \A a \in Reliable : InStep(a)

\* A client on a sound link comes back only when the server has forgotten it.
PatientClients == Prompt \intersect Reliable = {}

-----------------------------------------------------------------------------
(* Type correctness                                                        *)

LEMMA TypeParts == TypeInv => TypeOK
<1> SUFFICES ASSUME TypeInv PROVE TypeOK
  OBVIOUS
<1>1. \A a \in Addr :
        client[a].n <= Len(script[a]) + (IF client[a].mode = "gone" THEN 1 ELSE 0)
  <2> SUFFICES ASSUME NEW a \in Addr
               PROVE  client[a].n <= Len(script[a]) + (IF client[a].mode = "gone" THEN 1 ELSE 0)
    OBVIOUS
  <2>1. script[a] \in Seq(Command)
    BY SmtpAssumption DEF TypeInv, ClientInv
  <2>2. Len(script[a]) \in Nat
    BY <2>1, LenProperties
  <2>3. ClientOK(a, client[a])
    BY DEF TypeInv, ClientInv
  <2>4. CASE client[a].mode = "gone"
    BY <2>2, <2>3, <2>4 DEF ClientOK
  <2>5. CASE client[a].mode # "gone"
    BY <2>2, <2>3, <2>5 DEF ClientOK
  <2> QED
    BY <2>4, <2>5
<1> QED
  BY <1>1 DEF TypeInv, ClientInv, LinkInv, SessionInv, PoolInv, StoredType, TypeOK

LEMMA NoBits ==
  /\ NoSender \notin {0, 1} /\ NoPacket \notin Packets
  /\ MaxChunks \in Nat \ {0} /\ MaxLines \in Nat \ {0}
BY SmtpAssumption

LEMMA ScriptType ==
  ASSUME TypeInv, NEW a \in Addr
  PROVE  /\ script[a] \in Seq(Command) /\ Len(script[a]) \in Nat
         /\ \A i \in 1..Len(script[a]) : script[a][i].verb \in Verb /\ script[a][i].rcpt \in STRING
<1>1. script[a] \in Seq(Command)
  BY SmtpAssumption DEF TypeInv, ClientInv
<1>2. Len(script[a]) \in Nat /\ \A i \in 1..Len(script[a]) : script[a][i] \in Command
  BY <1>1, ElementOfSeq, LenProperties
<1> QED
  BY <1>1, <1>2 DEF Command

LEMMA IdleType == Idle \in WorkerType /\ Idle.at = "idle"
BY NoBits DEF Idle, WorkerType

LEMMA NewClientType ==
  /\ NewClient \in ClientType /\ NewClient.n = 0 /\ NewClient.mode = "closed"
  /\ NewClient.awaiting = <<>>
BY SmtpAssumption DEF NewClient, ClientType

LEMMA NewSessionType == _create_session \in SessionType
BY DEF _create_session, SessionType, SMTPState

LEMMA TypeInit == Init => TypeInv
<1> SUFFICES ASSUME Init PROVE TypeInv
  OBVIOUS
<1>1. script \in Script /\ client \in [Addr -> ClientType]
  BY NewClientType DEF Init
<1>2. ASSUME NEW a \in Addr PROVE ClientOK(a, client[a])
  <2>1. client[a] = NewClient
    BY DEF Init
  <2>2. script[a] \in Seq(Command)
    BY <1>1, SmtpAssumption
  <2>3. Len(script[a]) \in Nat
    BY <2>2, LenProperties
  <2> QED
    BY <2>1, <2>3, NewClientType DEF ClientOK
<1>3. LinkInv /\ stored \in StoredType
  BY DEF Init, LinkInv, StoredType
<1>4. SessionInv
  BY DEF Init, SessionInv
<1>5. PoolInv
  BY IdleType DEF Init, PoolInv, At
<1> QED
  BY <1>1, <1>2, <1>3, <1>4, <1>5 DEF TypeInv, ClientInv

-----------------------------------------------------------------------------
(* The steps of a client: one client and its link change                    *)

LEMMA ClientChange ==
  ASSUME TypeInv, NEW a \in Addr, NEW c, ClientOK(a, c), NEW p \in Packets \union {NoPacket},
         p # NoPacket => p.addr = a,
         client' = [client EXCEPT ![a] = c], inbound' = [inbound EXCEPT ![a] = p],
         UNCHANGED <<script, expected, senders, greeting, last_activity, sessionVars,
                     tasks, worker, stored>>
  PROVE  TypeInv'
<1>1. ClientInv'
  BY DEF TypeInv, ClientInv, ClientOK
<1>2. LinkInv'
  BY DEF TypeInv, LinkInv
<1>3. SessionInv' /\ PoolInv' /\ stored' \in StoredType
  BY DEF TypeInv, SessionInv, PoolInv, At, Address, StoredType, sessionVars
<1> QED
  BY <1>1, <1>2, <1>3 DEF TypeInv

LEMMA BitType == ASSUME TypeInv, NEW a \in Addr PROVE client[a].bit \in {0, 1}
BY DEF TypeInv, ClientInv, ClientType

LEMMA ClientFields ==
  ASSUME TypeInv, NEW a \in Addr
  PROVE  /\ client[a] \in ClientType /\ ClientOK(a, client[a])
         /\ client[a].n \in Nat /\ client[a].part \in 0..MaxChunks
         /\ client[a].awaiting \in Seq(Code) /\ client[a].inbox \in Seq(ReplyType)
         /\ client[a].accepted \in SUBSET Nat /\ client[a].expects \in {0, 1}
<1>1. client[a] \in ClientType /\ ClientOK(a, client[a])
  BY DEF TypeInv, ClientInv
<1> QED
  BY <1>1 DEF ClientType

\* What send() leaves of the client record c.
SentBy(c, p) == [c EXCEPT !.n = p.n, !.part = p.part, !.bit = 1 - p.bit]

LEMMA SentByType ==
  ASSUME NEW p \in Packets, NEW c \in ClientType
  PROVE  /\ SentBy(c, p) \in ClientType /\ SentBy(c, p).mode = c.mode
         /\ SentBy(c, p).awaiting = c.awaiting
         /\ SentBy(c, p).n = p.n /\ SentBy(c, p).part = p.part
         /\ SentBy(c, p).bit = 1 - p.bit
<1>1. p.n \in Nat /\ p.part \in 0..MaxChunks /\ 1 - p.bit \in {0, 1}
  BY DEF Packets
<1> QED
  BY <1>1 DEF SentBy, ClientType

LEMMA SendType ==
  ASSUME TypeInv, NEW a \in Addr, NEW p \in Packets, NEW c \in ClientType, Send(a, p, c),
         p.addr = a,
         IF c.mode = "gone" THEN p.n <= Len(script[a]) + 1 ELSE p.n <= Len(script[a]),
         c.mode = "data" => p.part < MaxChunks,
         \A i \in DOMAIN c.awaiting : c.awaiting[i] = 354 => p.part = 0
  PROVE  TypeInv'
<1> DEFINE d == SentBy(c, p)
<1>1. /\ d \in ClientType /\ d.mode = c.mode /\ d.awaiting = c.awaiting
      /\ d.n = p.n /\ d.part = p.part
  BY SentByType
<1>2. client' = [client EXCEPT ![a] = d] /\ inbound' = [inbound EXCEPT ![a] = p]
  BY DEF Send, SentBy
<1> HIDE DEF d
<1>3. ClientOK(a, d)
  BY <1>1 DEF ClientOK
<1> QED
  BY <1>2, <1>3, ClientChange, NoBits DEF Send

LEMMA ConnectType == ASSUME TypeInv, NEW a \in Addr, _connect(a) PROVE TypeInv'
<1> DEFINE codes == <<220, 250>>
           p == [PacketOf(a, client[a].n + 1, 0, "NOOP", Nobody, FALSE) EXCEPT !.bit = 0]
           c == [NewClient EXCEPT !.mode = "open", !.awaiting = codes,
                                  !.accepted = client[a].accepted]
<1>1. client[a].n \in Nat /\ client[a].accepted \in SUBSET Nat
  BY ClientFields
<1>2. p \in Packets /\ p.addr = a /\ p.n = client[a].n + 1 /\ p.part = 0
  <2>1. client[a].n + 1 \in Nat /\ 0 \in 0..MaxChunks /\ Nobody \in STRING
    BY <1>1, SmtpAssumption
  <2> QED
    BY <2>1, BitType DEF PacketOf, Packets, Verb
<1>3. codes \in Seq(Code)
  BY DEF Code
<1>4. Send(a, p, c) /\ client[a].n < Len(script[a])
  BY DEF _connect
<1> HIDE DEF codes
<1>5. c \in ClientType /\ c.mode = "open"
  BY <1>1, <1>3, NewClientType DEF ClientType
<1> HIDE DEF p, c
<1>6. IF c.mode = "gone" THEN p.n <= Len(script[a]) + 1 ELSE p.n <= Len(script[a])
  BY <1>1, <1>2, <1>4, <1>5, ScriptType
<1>7. c.mode # "data"
  BY <1>5
<1> QED
  BY <1>2, <1>4, <1>5, <1>6, <1>7, SendType

LEMMA SendCommandType == ASSUME TypeInv, NEW a \in Addr, _send_command(a) PROVE TypeInv'
<1> DEFINE p == PacketOf(a, client[a].n + 1, 0, Item(a).verb, Item(a).rcpt, FALSE)
           codes == <<Expects(Item(a).verb)>>
           c == [client[a] EXCEPT !.awaiting = codes]
<1>1. client[a].n \in Nat /\ client[a] \in ClientType
  BY ClientFields
<1>2. client[a].n + 1 \in 1..Len(script[a])
  BY <1>1, ScriptType DEF _send_command
<1>3. Item(a).verb \in Verb /\ Item(a).rcpt \in STRING
  BY <1>2, ScriptType DEF Item
<1>4. p \in Packets /\ p.addr = a /\ p.n = client[a].n + 1 /\ p.part = 0
  <2>1. client[a].n + 1 \in Nat /\ 0 \in 0..MaxChunks
    BY <1>1, SmtpAssumption
  <2> QED
    BY <1>3, <2>1, BitType DEF PacketOf, Packets
<1>5. codes \in Seq(Code)
  BY DEF Code, Expects
<1>6. Send(a, p, c) /\ client[a].mode = "open"
  BY DEF _send_command
<1> HIDE DEF codes
<1>7. c \in ClientType /\ c.mode = "open"
  BY <1>1, <1>5, <1>6 DEF ClientType
<1> HIDE DEF p, c
<1>8. IF c.mode = "gone" THEN p.n <= Len(script[a]) + 1 ELSE p.n <= Len(script[a])
  BY <1>1, <1>2, <1>4, <1>7, ScriptType
<1>9. c.mode # "data"
  BY <1>7
<1> QED
  BY <1>4, <1>6, <1>7, <1>8, <1>9, SendType

LEMMA SendDataType == ASSUME TypeInv, NEW a \in Addr, _send_data(a) PROVE TypeInv'
<1> DEFINE codes == <<250>>
           p(last) == PacketOf(a, client[a].n, client[a].part + 1, "chunk", Nobody, last)
           c(last) == IF last THEN [client[a] EXCEPT !.mode = "open", !.awaiting = codes]
                              ELSE client[a]
<1>1. /\ client[a].mode = "data" /\ client[a].awaiting = <<>>
      /\ \E last \in BOOLEAN : /\ client[a].part + 1 = MaxChunks => last
                               /\ Send(a, p(last), c(last))
  BY DEF _send_data, Ready
<1>2. PICK last \in BOOLEAN : /\ client[a].part + 1 = MaxChunks => last
                              /\ Send(a, p(last), c(last))
  BY <1>1
<1>3. /\ client[a] \in ClientType /\ client[a].n \in Nat /\ client[a].part \in Nat
      /\ client[a].n <= Len(script[a]) /\ client[a].part < MaxChunks
  <2>1. client[a] \in ClientType /\ ClientOK(a, client[a])
    BY ClientFields
  <2> QED
    BY <1>1, <2>1, ClientFields DEF ClientOK
<1>4. p(last) \in Packets /\ p(last).addr = a /\ p(last).n = client[a].n
      /\ p(last).part = client[a].part + 1
  <2>1. client[a].part + 1 \in 0..MaxChunks /\ Nobody \in STRING
    BY <1>3, SmtpAssumption
  <2> QED
    BY <1>3, <2>1, BitType DEF PacketOf, Packets
<1>5. codes \in Seq(Code) /\ \A i \in DOMAIN codes : codes[i] # 354
  BY DEF Code
<1> HIDE DEF codes
<1>6. /\ c(last) \in ClientType
      /\ IF last THEN c(last).mode = "open" /\ c(last).awaiting = codes
                 ELSE c(last) = client[a]
  <2>1. CASE last
    <3>1. [client[a] EXCEPT !.mode = "open", !.awaiting = codes] \in ClientType
      BY <1>3, <1>5, ZenonT(60) DEF ClientType
    <3>2. /\ [client[a] EXCEPT !.mode = "open", !.awaiting = codes].mode = "open"
          /\ [client[a] EXCEPT !.mode = "open", !.awaiting = codes].awaiting = codes
      BY <1>3 DEF ClientType
    <3> QED
      BY <2>1, <3>1, <3>2
  <2>2. CASE ~last
    BY <2>2, <1>3
  <2> QED
    BY <2>1, <2>2
<1> HIDE DEF p, c
<1>7. c(last).mode # "gone" /\ p(last).n <= Len(script[a])
  BY <1>1, <1>3, <1>4, <1>6, ScriptType
<1>8. c(last).mode = "data" => p(last).part < MaxChunks
  BY <1>2, <1>3, <1>4, <1>6, NoBits
<1>9. \A i \in DOMAIN c(last).awaiting : c(last).awaiting[i] # 354
  BY <1>1, <1>5, <1>6
<1> QED
  BY <1>2, <1>4, <1>6, <1>7, <1>8, <1>9, SendType

LEMMA AbandonType == ASSUME TypeInv, NEW a \in Addr, Abandon(a) PROVE TypeInv'
<1> DEFINE p == PacketOf(a, client[a].n + 1, 0, "QUIT", Nobody, FALSE)
           c == [client[a] EXCEPT !.mode = "gone"]
<1>1. client[a].mode = "failing" /\ client[a].awaiting = <<>> /\ Send(a, p, c)
  BY DEF Abandon, Ready
<1>2. client[a] \in ClientType /\ client[a].n \in Nat /\ client[a].n <= Len(script[a])
  BY <1>1, ClientFields DEF ClientOK
<1>3. p \in Packets /\ p.addr = a /\ p.n = client[a].n + 1 /\ p.part = 0
  <2>1. client[a].n + 1 \in Nat /\ 0 \in 0..MaxChunks /\ Nobody \in STRING
    BY <1>2, SmtpAssumption
  <2> QED
    BY <2>1, BitType DEF PacketOf, Packets, Verb
<1>4. c \in ClientType /\ c.mode = "gone" /\ c.awaiting = <<>>
  BY <1>1, <1>2 DEF ClientType
<1> HIDE DEF p, c
<1>5. p.n <= Len(script[a]) + 1
  BY <1>2, <1>3, ScriptType
<1> QED
  BY <1>1, <1>3, <1>4, <1>5, SendType

\* A client may fail, or take a reply: neither changes what it has sent.
LEMMA QuietClient ==
  ASSUME TypeInv, NEW a \in Addr, NEW c \in ClientType,
         c.n = client[a].n, c.part = client[a].part,
         client[a].mode # "gone", c.mode = "data" => c.part < MaxChunks,
         \A i \in DOMAIN c.awaiting : c.awaiting[i] = 354 => c.part = 0
  PROVE  ClientOK(a, c)
<1>1. ClientOK(a, client[a]) /\ client[a].n \in Nat
  BY ClientFields
<1>2. Len(script[a]) \in Nat
  BY ScriptType
<1>3. c.n <= Len(script[a])
  BY <1>1 DEF ClientOK
<1>4. c.n <= Len(script[a]) + 1
  BY <1>1, <1>2, <1>3
<1> QED
  BY <1>3, <1>4 DEF ClientOK

LEMMA FailedType ==
  ASSUME NEW c \in ClientType
  PROVE  /\ Failed(c) \in ClientType /\ Failed(c).n = c.n /\ Failed(c).part = c.part
         /\ Failed(c).bit = c.bit /\ Failed(c).mode # "data" /\ Failed(c).awaiting = <<>>
<1> DEFINE mode == IF c.awaiting # <<>> /\ Head(c.awaiting) = 220 THEN "gone" ELSE "failing"
           codes == <<>>
           rest == <<>>
<1>1. codes \in Seq(Code) /\ rest \in Seq(ReplyType) /\ mode \in {"gone", "failing"}
  OBVIOUS
<1>2. Failed(c) = [c EXCEPT !.mode = mode, !.awaiting = codes, !.inbox = rest]
  BY DEF Failed
<1> HIDE DEF mode, codes, rest
<1>3. /\ Failed(c) \in ClientType /\ Failed(c).n = c.n /\ Failed(c).part = c.part
      /\ Failed(c).bit = c.bit /\ Failed(c).mode = mode /\ Failed(c).awaiting = codes
  BY <1>1, <1>2 DEF ClientType
<1> QED
  BY <1>1, <1>3 DEF codes

LEMMA TailCodes ==
  ASSUME NEW S, NEW q \in Seq(S), q # <<>>
  PROVE  /\ Tail(q) \in Seq(S) /\ Head(q) \in S /\ 1 \in DOMAIN q /\ Head(q) = q[1]
         /\ \A i \in DOMAIN Tail(q) : i + 1 \in DOMAIN q /\ Tail(q)[i] = q[i + 1]
BY HeadTailProperties, EmptySeq

LEMMA AnsweredType ==
  ASSUME NEW c \in ClientType, NEW code, c.awaiting # <<>>, c.inbox # <<>>
  PROVE  /\ Answered(c, code) \in ClientType
         /\ Answered(c, code).n = c.n /\ Answered(c, code).part = c.part
         /\ Answered(c, code).bit = c.bit /\ Answered(c, code).awaiting = Tail(c.awaiting)
         /\ Answered(c, code).mode = "data" => c.mode = "data" \/ Head(c.awaiting) = 354
         /\ Head(c.awaiting) = 221 => Answered(c, code).mode = "closed"
<1> DEFINE codes == Tail(c.awaiting)
           rest == Tail(c.inbox)
           mode == CASE Head(c.awaiting) = 221 -> "closed"
                     [] Head(c.awaiting) = 354 /\ code = 354 -> "data"
                     [] OTHER -> c.mode
           accepted == IF c.part > 0 /\ code = 250 THEN c.accepted \union {c.n}
                                                   ELSE c.accepted
<1>1. c.awaiting \in Seq(Code) /\ c.inbox \in Seq(ReplyType)
  BY DEF ClientType
<1>2. codes \in Seq(Code) /\ rest \in Seq(ReplyType)
  BY <1>1, TailCodes
<1>3. mode \in {"closed", "open", "data", "failing", "gone"} /\ accepted \in SUBSET Nat
      /\ 1 - c.expects \in {0, 1}
  BY DEF ClientType
<1>4. /\ mode = "data" => c.mode = "data" \/ Head(c.awaiting) = 354
      /\ Head(c.awaiting) = 221 => mode = "closed"
  OBVIOUS
<1>5. Answered(c, code) = [c EXCEPT !.awaiting = codes, !.inbox = rest,
                                    !.expects = 1 - c.expects, !.mode = mode,
                                    !.accepted = accepted]
  BY DEF Answered, ClientType
<1> HIDE DEF codes, rest, mode, accepted
<1>6. /\ Answered(c, code) \in ClientType
      /\ Answered(c, code).n = c.n /\ Answered(c, code).part = c.part
      /\ Answered(c, code).bit = c.bit /\ Answered(c, code).awaiting = codes
      /\ Answered(c, code).mode = mode
  BY <1>2, <1>3, <1>5 DEF ClientType
<1> QED
  BY <1>4, <1>6 DEF codes

LEMMA GetReplyType == ASSUME TypeInv, NEW a \in Addr, _get_reply(a) PROVE TypeInv'
<1> DEFINE c == client[a]
<1>1. /\ c.awaiting # <<>> /\ c.inbox # <<>> /\ c.mode \in {"open", "data"}
  BY DEF _get_reply, Awaits, Alive
<1>2. /\ c \in ClientType /\ ClientOK(a, c) /\ c.awaiting \in Seq(Code)
      /\ c.inbox \in Seq(ReplyType) /\ c.part \in Nat
  BY ClientFields
<1>3. /\ inbound[a] \in Packets \union {NoPacket}
      /\ inbound[a] # NoPacket => inbound[a].addr = a
  BY DEF TypeInv, LinkInv
<1>4. inbound \in [Addr -> Packets \union {NoPacket}]
  BY DEF TypeInv, LinkInv
<1>5. inbound' = [inbound EXCEPT ![a] = inbound[a]]
  BY <1>4 DEF _get_reply, loopVars
<1>6. UNCHANGED <<script, expected, senders, greeting, last_activity, sessionVars,
                  tasks, worker, stored>>
  BY DEF _get_reply, loopVars
<1>7. \/ client' = [client EXCEPT ![a].inbox = Tail(@)]
      \/ client' = [client EXCEPT ![a] = Answered(c, Head(c.inbox).code)]
      \/ client' = [client EXCEPT ![a] = Failed(c)]
  BY DEF _get_reply
<1>8. CASE client' = [client EXCEPT ![a].inbox = Tail(@)]
  <2> DEFINE rest == Tail(c.inbox)
             d == [c EXCEPT !.inbox = rest]
  <2>1. rest \in Seq(ReplyType)
    BY <1>1, <1>2, TailCodes
  <2>2. client' = [client EXCEPT ![a] = d]
    BY <1>8
  <2> HIDE DEF rest
  <2>3. d \in ClientType /\ d.n = c.n /\ d.part = c.part /\ d.mode = c.mode
        /\ d.awaiting = c.awaiting
    BY <1>2, <2>1 DEF ClientType
  <2>4. ClientOK(a, d)
    BY <1>2, <2>3 DEF ClientOK
  <2> HIDE DEF d, c
  <2> QED
    BY <1>3, <1>5, <1>6, <2>2, <2>4, ClientChange
<1>9. CASE client' = [client EXCEPT ![a] = Answered(c, Head(c.inbox).code)]
  <2> DEFINE d == Answered(c, Head(c.inbox).code)
  <2>1. /\ d \in ClientType /\ d.n = c.n /\ d.part = c.part /\ d.awaiting = Tail(c.awaiting)
        /\ d.mode = "data" => c.mode = "data" \/ Head(c.awaiting) = 354
    BY <1>1, <1>2, AnsweredType
  <2>2. \A i \in DOMAIN c.awaiting : c.awaiting[i] = 354 => c.part = 0
    BY <1>2 DEF ClientOK
  <2>3. d.mode = "data" => d.part < MaxChunks
    BY <1>1, <1>2, <2>1, <2>2, TailCodes, NoBits DEF ClientOK
  <2> HIDE DEF c, d
  <2>4. ASSUME NEW i \in DOMAIN d.awaiting, d.awaiting[i] = 354 PROVE d.part = 0
    <3>1. i \in DOMAIN Tail(c.awaiting) /\ Tail(c.awaiting)[i] = 354
      BY <2>1, <2>4
    <3>2. i + 1 \in DOMAIN c.awaiting /\ c.awaiting[i + 1] = 354
      BY <1>1, <1>2, <3>1, TailCodes
    <3> QED
      BY <2>1, <2>2, <3>2
  <2>5. ClientOK(a, d)
    <3>1. d.n = client[a].n /\ d.part = client[a].part /\ client[a].mode # "gone"
      BY <1>1, <2>1 DEF c
    <3> QED
      BY <2>1, <2>3, <2>4, <3>1, QuietClient
  <2> QED
    BY <1>3, <1>5, <1>6, <1>9, <2>5, ClientChange DEF d
<1>10. CASE client' = [client EXCEPT ![a] = Failed(c)]
  <2> DEFINE d == Failed(c)
  <2>1. /\ d \in ClientType /\ d.n = c.n /\ d.part = c.part
        /\ d.mode # "data" /\ d.awaiting = <<>>
    BY <1>2, FailedType
  <2> HIDE DEF d
  <2>2. \A i \in DOMAIN d.awaiting : d.awaiting[i] # 354
    BY <2>1
  <2>3. ClientOK(a, d)
    BY <1>1, <2>1, <2>2, QuietClient
  <2> QED
    BY <1>3, <1>5, <1>6, <1>10, <2>3, ClientChange DEF d
<1> QED
  BY <1>7, <1>8, <1>9, <1>10

LEMMA GivesUpType == ASSUME TypeInv, NEW a \in Addr, ClientGivesUp(a) PROVE TypeInv'
<1> DEFINE c == client[a]
           bit == inbound[a].bit
           f == Failed(c)
           d == IF Alive(a) THEN [f EXCEPT !.bit = bit] ELSE c
<1>1. client' = [client EXCEPT ![a] = d]
  BY DEF ClientGivesUp
<1>2. /\ inbound' \in {inbound, [inbound EXCEPT ![a] = NoPacket]} /\ inbound[a] # NoPacket
      /\ UNCHANGED <<script, expected, senders, greeting, last_activity, sessionVars,
                     tasks, worker, stored>>
  BY DEF ClientGivesUp
<1>3. inbound \in [Addr -> Packets \union {NoPacket}] /\ inbound[a].addr = a
  BY <1>2 DEF TypeInv, LinkInv
<1>4. \E p \in Packets \union {NoPacket} :
        (p # NoPacket => p.addr = a) /\ inbound' = [inbound EXCEPT ![a] = p]
  BY <1>2, <1>3
<1>5. c \in ClientType /\ ClientOK(a, c)
  BY ClientFields
<1>6. bit \in {0, 1}
  BY <1>2, <1>3 DEF Packets
<1>7. ClientOK(a, d)
  <2>1. CASE ~Alive(a)
    BY <2>1, <1>5
  <2>2. CASE Alive(a)
    <3> DEFINE g == [f EXCEPT !.bit = bit]
    <3>1. /\ f \in ClientType /\ f.n = c.n /\ f.part = c.part
          /\ f.mode # "data" /\ f.awaiting = <<>>
      BY <1>5, FailedType
    <3> HIDE DEF f, bit
    <3>2. /\ g \in ClientType /\ g.n = c.n /\ g.part = c.part
          /\ g.mode # "data" /\ g.awaiting = <<>>
      BY <1>6, <3>1 DEF ClientType
    <3>3. c.mode # "gone"
      BY <2>2 DEF Alive
    <3> HIDE DEF g
    <3>4. \A i \in DOMAIN g.awaiting : g.awaiting[i] # 354
      BY <3>2
    <3>5. ClientOK(a, g)
      BY <3>2, <3>3, <3>4, QuietClient
    <3> QED
      BY <2>2, <3>5 DEF g, f, bit
  <2> QED
    BY <2>1, <2>2
<1> HIDE DEF d
<1> QED
  BY <1>1, <1>2, <1>4, <1>7, ClientChange

LEMMA ClientStepType == ASSUME TypeInv, NEW a \in Addr, ClientStep(a) PROVE TypeInv'
BY ConnectType, SendCommandType, SendDataType, AbandonType, GetReplyType, GivesUpType
   DEF ClientStep

-----------------------------------------------------------------------------
(* Replies and the serve loop                                              *)

LEMMA ReplyRecord ==
  ASSUME NEW code \in Code, NEW p \in Packets, NEW bit \in {0, 1}
  PROVE  [code |-> code, n |-> p.n, part |-> p.part, bit |-> bit] \in ReplyType
BY DEF ReplyType, Packets

\* Sending a reply changes what is at its client and the bit of its sender, and no more.
LEMMA SendReplyEffect ==
  ASSUME TypeInv, NEW a \in Addr, NEW code \in Code, NEW p \in Packets,
         _send_reply(a, code, p)
  PROVE  /\ \E box \in Seq(ReplyType) : client' = [client EXCEPT ![a].inbox = box]
         /\ senders' \in [Addr -> {0, 1, NoSender}]
         /\ \A b \in Addr \ {a} : senders'[b] = senders[b]
<1> DEFINE bit == IF senders[a] = NoSender THEN 0 ELSE senders[a]
           r == [code |-> code, n |-> p.n, part |-> p.part, bit |-> bit]
           more == Append(client[a].inbox, r)
<1>1. senders \in [Addr -> {0, 1, NoSender}]
  BY DEF TypeInv, LinkInv
<1>2. bit \in {0, 1} /\ 1 - bit \in {0, 1}
  BY <1>1, NoBits
<1>3. client[a].inbox \in Seq(ReplyType) /\ more \in Seq(ReplyType)
  <2>1. r \in ReplyType
    BY <1>2, ReplyRecord
  <2> HIDE DEF r
  <2> QED
    BY <2>1, ClientFields, AppendProperties
<1>4. /\ client' = client \/ client' = [client EXCEPT ![a].inbox = more]
      /\ senders' = [senders EXCEPT ![a] = 1 - bit] \/ senders' = [senders EXCEPT ![a] = bit]
  BY DEF _send_reply
<1>5. client = [client EXCEPT ![a].inbox = client[a].inbox]
  BY DEF TypeInv, ClientInv, ClientType
<1> HIDE DEF bit, more
<1> QED
  BY <1>1, <1>2, <1>3, <1>4, <1>5

LEMMA InboxChange ==
  ASSUME TypeInv, NEW a \in Addr, NEW box \in Seq(ReplyType),
         client' = [client EXCEPT ![a].inbox = box], script' = script
  PROVE  /\ ClientInv'
         /\ \A b \in Addr :
              /\ client'[b].mode = client[b].mode /\ client'[b].n = client[b].n
              /\ client'[b].part = client[b].part /\ client'[b].bit = client[b].bit
              /\ client'[b].awaiting = client[b].awaiting
<1> DEFINE d == [client[a] EXCEPT !.inbox = box]
<1>1. client[a] \in ClientType /\ ClientOK(a, client[a])
  BY ClientFields
<1>2. /\ d \in ClientType /\ d.mode = client[a].mode /\ d.n = client[a].n
      /\ d.part = client[a].part /\ d.bit = client[a].bit
      /\ d.awaiting = client[a].awaiting
  BY <1>1 DEF ClientType
<1>3. client' = [client EXCEPT ![a] = d]
  OBVIOUS
<1> HIDE DEF d
<1>4. ClientOK(a, d)
  BY <1>1, <1>2 DEF ClientOK
<1>5. ClientInv'
  BY <1>3, <1>4 DEF TypeInv, ClientInv, ClientOK
<1> QED
  BY <1>2, <1>3, <1>5 DEF TypeInv, ClientInv

LEMMA RejectType == ASSUME TypeInv, NEW a \in Addr, Reject(a) PROVE TypeInv'
<1>1. client = [client EXCEPT ![a] = client[a]] /\ client' = client
  BY DEF Reject, TypeInv, ClientInv
<1>2. ClientOK(a, client[a])
  BY ClientFields
<1> QED
  BY <1>1, <1>2, ClientChange, NoBits DEF Reject

LEMMA CleanType ==
  ASSUME NEW S, NEW f \in [Addr -> S], NEW stale, NEW none \in S
  PROVE  /\ _cleanup_session(f, stale, none) \in [Addr -> S]
         /\ \A a \in Addr : _cleanup_session(f, stale, none)[a] =
                              IF a \in stale THEN none ELSE f[a]
BY DEF _cleanup_session

\* A new session object is put behind the others of its client.
LEMMA AppendSession ==
  ASSUME SessionInv, NEW a \in Addr, NEW s \in SessionType,
         session' = [session EXCEPT ![a] = Append(@, s)]
  PROVE  /\ session' \in [Addr -> Seq(SessionType)]
         /\ \A b \in Addr : Len(session[b]) \in Nat /\ Len(session[b]) <= Len(session'[b])
         /\ Len(session'[a]) = Len(session[a]) + 1
<1>1. session \in [Addr -> Seq(SessionType)]
  BY DEF SessionInv
<1>2. /\ Append(session[a], s) \in Seq(SessionType)
      /\ Len(Append(session[a], s)) = Len(session[a]) + 1
  BY <1>1, AppendProperties
<1>3. \A b \in Addr : Len(session[b]) \in Nat
  BY <1>1, LenProperties
<1> QED
  BY <1>1, <1>2, <1>3

LEMMA ReceiveType == ASSUME TypeInv, NEW a \in Addr, Receive(a) PROVE TypeInv'
<1>1. PICK stale \in SUBSET Stale(a) :
        LET known == _cleanup_session(sessions, stale, 0) IN
        /\ last_activity' = (last_activity \ stale) \union {a}
        /\ expected' = [_cleanup_session(expected, stale, 0) EXCEPT ![a] = 1 - @]
        /\ senders' = _cleanup_session(senders, stale, NoSender)
        /\ IF known[a] # 0
           THEN /\ sessions' = known
                /\ tasks' = Append(tasks, inbound[a])
                /\ UNCHANGED <<session, greeting>>
           ELSE /\ session' = [session EXCEPT ![a] = Append(@, _create_session)]
                /\ sessions' = [known EXCEPT ![a] = Len(session[a]) + 1]
                /\ greeting' = inbound[a]
                /\ UNCHANGED tasks
  BY DEF Receive
<1>2. /\ inbound[a] # NoPacket /\ inbound' = [inbound EXCEPT ![a] = NoPacket]
      /\ UNCHANGED <<script, client, worker, stored>>
  BY DEF Receive
<1> DEFINE known == _cleanup_session(sessions, stale, 0)
           bits == _cleanup_session(expected, stale, 0)
<1>3. inbound[a] \in Packets
  BY <1>2 DEF TypeInv, LinkInv
<1>4. /\ known \in [Addr -> Nat]
      /\ \A b \in Addr : known[b] = IF b \in stale THEN 0 ELSE sessions[b]
  BY DEF TypeInv, SessionInv, _cleanup_session
<1>5. bits \in [Addr -> {0, 1}]
  BY CleanType DEF TypeInv, LinkInv
<1>6. senders' \in [Addr -> {0, 1, NoSender}]
  BY <1>1, CleanType DEF TypeInv, LinkInv
<1>7. ClientInv' /\ stored' \in StoredType
  BY <1>2 DEF TypeInv, ClientInv, ClientOK, StoredType
<1> HIDE DEF known, bits
<1>8. LinkInv'
  <2>1. expected' \in [Addr -> {0, 1}]
    <3>1. expected' = [bits EXCEPT ![a] = 1 - @]
      BY <1>1 DEF bits
    <3>2. 1 - bits[a] \in {0, 1}
      BY <1>5
    <3> QED
      BY <1>5, <3>1, <3>2
  <2>2. greeting' \in Packets \union {NoPacket}
    BY <1>1, <1>3 DEF TypeInv, LinkInv, known
  <2>3. last_activity' \subseteq Addr
    BY <1>1 DEF TypeInv, LinkInv
  <2>4. /\ inbound' \in [Addr -> Packets \union {NoPacket}]
        /\ \A b \in Addr : inbound'[b] # NoPacket => inbound'[b].addr = b
    BY <1>2 DEF TypeInv, LinkInv
  <2> QED
    BY <1>6, <2>1, <2>2, <2>3, <2>4 DEF LinkInv
<1>9. \A b \in Addr : Len(session[b]) \in Nat /\ known[b] <= Len(session[b])
  <2>1. session \in [Addr -> Seq(SessionType)]
    BY DEF TypeInv, SessionInv
  <2>2. \A b \in Addr : Len(session[b]) \in Nat
    BY <2>1, LenProperties
  <2>3. \A b \in Addr : sessions[b] \in Nat /\ sessions[b] <= Len(session[b])
    BY DEF TypeInv, SessionInv
  <2>4. ASSUME NEW b \in Addr PROVE known[b] <= Len(session[b])
    BY <1>4, <2>2, <2>3
  <2> QED
    BY <2>2, <2>4
<1>10. CASE known[a] # 0
  <2>1. sessions' = known /\ session' = session /\ tasks' = Append(tasks, inbound[a])
    BY <1>1, <1>10 DEF known
  <2>2. SessionInv'
    BY <1>4, <1>9, <2>1 DEF TypeInv, SessionInv
  <2>3. tasks' \in Seq(Packets)
    BY <1>3, <2>1, AppendProperties DEF TypeInv, PoolInv
  <2>4. PoolInv'
    BY <1>2, <2>1, <2>3 DEF TypeInv, PoolInv, At, Address
  <2> QED
    BY <1>7, <1>8, <2>2, <2>4 DEF TypeInv
<1>11. CASE known[a] = 0
  <2>1. /\ session' = [session EXCEPT ![a] = Append(@, _create_session)]
        /\ sessions' = [known EXCEPT ![a] = Len(session[a]) + 1] /\ tasks' = tasks
    BY <1>1, <1>11 DEF known
  <2>2. /\ session' \in [Addr -> Seq(SessionType)]
        /\ \A b \in Addr : Len(session[b]) \in Nat /\ Len(session[b]) <= Len(session'[b])
        /\ Len(session'[a]) = Len(session[a]) + 1
    BY <2>1, AppendSession, NewSessionType DEF TypeInv
  <2>3. \A b \in Addr : Len(session'[b]) \in Nat
    BY <2>2, LenProperties
  <2>4. SessionInv'
    <3>1. sessions' \in [Addr -> Nat]
      BY <1>4, <2>1, <2>2
    <3>2. \A b \in Addr : sessions'[b] <= Len(session'[b])
      BY <1>4, <1>9, <2>1, <2>2, <2>3
    <3> QED
      BY <2>2, <3>1, <3>2 DEF SessionInv
  <2>5. PoolInv'
    <3>1. worker' = worker /\ tasks' = tasks
      BY <1>2, <2>1
    <3>2. ASSUME NEW w \in Worker, ~At(w, "idle"), ~At(w, "process")
          PROVE  worker[w].sid \in 1..Len(session'[Address(w)])
      <4>1. worker[w].task \in Packets /\ worker[w].sid \in 1..Len(session[Address(w)])
        BY <3>2 DEF TypeInv, PoolInv
      <4>2. Address(w) \in Addr
        BY <4>1 DEF Address, Packets
      <4> QED
        BY <2>2, <2>3, <4>1, <4>2
    <3> QED
      BY <3>1, <3>2 DEF TypeInv, PoolInv, At, Address
  <2> QED
    BY <1>7, <1>8, <2>4, <2>5 DEF TypeInv
<1> QED
  BY <1>10, <1>11

LEMMA GreetType == TypeInv /\ Greet => TypeInv'
<1> SUFFICES ASSUME TypeInv, Greet PROVE TypeInv'
  OBVIOUS
<1> DEFINE a == greeting.addr
<1>1. greeting \in Packets /\ a \in Addr
  BY DEF TypeInv, LinkInv, Greet, Packets
<1>2. 220 \in Code
  BY DEF Code
<1>3. _send_reply(a, 220, greeting)
  BY DEF Greet
<1>4. /\ \E box \in Seq(ReplyType) : client' = [client EXCEPT ![a].inbox = box]
      /\ senders' \in [Addr -> {0, 1, NoSender}]
  BY <1>1, <1>2, <1>3, SendReplyEffect
<1>5. ClientInv'
  BY <1>1, <1>4, InboxChange DEF Greet
<1>6. tasks' \in Seq(Packets)
  BY <1>1, AppendProperties DEF Greet, TypeInv, PoolInv
<1>7. LinkInv'
  BY <1>4 DEF Greet, TypeInv, LinkInv
<1>8. SessionInv' /\ stored' \in StoredType
  BY DEF Greet, TypeInv, SessionInv, StoredType, sessionVars
<1>9. PoolInv'
  BY <1>6 DEF Greet, TypeInv, PoolInv, At, Address, sessionVars
<1> QED
  BY <1>5, <1>7, <1>8, <1>9 DEF TypeInv

-----------------------------------------------------------------------------
(* The pool                                                                *)

Labels == {"idle", "process", "command", "extend", "check", "copy", "reset", "finalize",
           "reply", "rest", "clear", "pop_sender", "pop_session", "reset_state"}

\* A worker that has found its session object.
Busy(w) == ~At(w, "idle") /\ ~At(w, "process")

LEMMA WorkerFields ==
  ASSUME TypeInv, NEW w \in Worker
  PROVE  /\ worker[w] \in WorkerType
         /\ ~At(w, "idle") => worker[w].task \in Packets /\ Address(w) \in Addr
         /\ Busy(w) => worker[w].sid \in 1..Len(session[Address(w)])
         /\ At(w, "reply") => worker[w].code \in Code
         /\ At(w, "rest") => worker[w].lines > 0
         /\ worker[w].lines \in 0..MaxLines - 1
         /\ worker[w].full \in Seq(Packets) /\ worker[w].task \in Packets \union {NoPacket}
<1>1. worker[w] \in WorkerType
  BY DEF TypeInv, PoolInv
<1>2. /\ worker[w].full \in Seq(Packets) /\ worker[w].task \in Packets \union {NoPacket}
      /\ worker[w].lines \in 0..MaxLines - 1
  BY <1>1 DEF WorkerType
<1> QED
  BY <1>1, <1>2 DEF TypeInv, PoolInv, Address, Packets, Busy

LEMMA MineType ==
  ASSUME TypeInv, NEW w \in Worker, Busy(w)
  PROVE  /\ Mine(w) \in SessionType /\ Mine(w).data_buffer \in Seq(Packets)
         /\ Mine(w).rcpt_to \in Seq(STRING)
<1>1. /\ Address(w) \in Addr /\ worker[w].sid \in 1..Len(session[Address(w)])
      /\ session[Address(w)] \in Seq(SessionType)
  BY WorkerFields DEF Busy, TypeInv, SessionInv
<1>2. Mine(w) \in SessionType
  BY <1>1, ElementOfSeq DEF Mine
<1> QED
  BY <1>2 DEF SessionType

\* Worker w has become v, and no session object has gone.
LEMMA WorkerChange ==
  ASSUME TypeInv, NEW w \in Worker, NEW v \in WorkerType,
         worker' = [worker EXCEPT ![w] = v], tasks' \in Seq(Packets),
         \A b \in Addr : Len(session'[b]) = Len(session[b]),
         v.at # "idle" => v.task \in Packets,
         v.at \notin {"idle", "process"} => v.sid \in 1..Len(session[v.task.addr]),
         v.at = "reply" => v.code \in Code,
         v.at = "rest" => v.lines > 0
  PROVE  PoolInv'
<1>1. worker' \in [Worker -> WorkerType]
  BY DEF TypeInv, PoolInv
<1>2. ASSUME NEW u \in Worker
      PROVE  /\ worker'[u].at # "idle" => worker'[u].task \in Packets
             /\ worker'[u].at # "idle" /\ worker'[u].at # "process" =>
                  worker'[u].sid \in 1..Len(session'[worker'[u].task.addr])
             /\ worker'[u].at = "reply" => worker'[u].code \in Code
             /\ worker'[u].at = "rest" => worker'[u].lines > 0
  <2>1. CASE u = w
    <3>1. worker'[u] = v
      BY <2>1 DEF TypeInv, PoolInv
    <3>2. v.task \in Packets => v.task.addr \in Addr
      BY DEF Packets
    <3> QED
      BY <3>1, <3>2
  <2>2. CASE u # w
    <3>1. worker'[u] = worker[u]
      BY <2>2 DEF TypeInv, PoolInv
    <3> QED
      BY <3>1, WorkerFields DEF At, Busy, Address
  <2> QED
    BY <2>1, <2>2
<1> QED
  BY <1>1, <1>2 DEF PoolInv, At, Address

LEMMA GotoType ==
  ASSUME TypeInv, NEW w \in Worker, Busy(w), NEW label \in Labels \ {"reply"},
         Goto(w, label), label = "rest" => worker[w].lines > 0, tasks' = tasks,
         \A b \in Addr : Len(session'[b]) = Len(session[b])
  PROVE  PoolInv'
<1> DEFINE v == [worker[w] EXCEPT !.at = label]
<1>1. /\ worker[w] \in WorkerType /\ worker[w].task \in Packets
      /\ worker[w].sid \in 1..Len(session[worker[w].task.addr])
  BY WorkerFields DEF Busy, Address
<1>2. /\ v \in WorkerType /\ v.at = label /\ v.task = worker[w].task
      /\ v.sid = worker[w].sid /\ v.lines = worker[w].lines
  BY <1>1 DEF WorkerType, Labels
<1>3. worker' = [worker EXCEPT ![w] = v] /\ tasks' \in Seq(Packets)
  BY DEF Goto, TypeInv, PoolInv
<1> HIDE DEF v
<1> QED
  BY <1>1, <1>2, <1>3, WorkerChange

LEMMA AnswerType ==
  ASSUME TypeInv, NEW w \in Worker, Busy(w), NEW code \in Code,
         Answer(w, code), tasks' = tasks,
         \A b \in Addr : Len(session'[b]) = Len(session[b])
  PROVE  PoolInv'
<1> DEFINE v == [worker[w] EXCEPT !.at = "reply", !.code = code]
<1>1. /\ worker[w] \in WorkerType /\ worker[w].task \in Packets
      /\ worker[w].sid \in 1..Len(session[worker[w].task.addr])
  BY WorkerFields DEF Busy, Address
<1>2. /\ v \in WorkerType /\ v.at = "reply" /\ v.task = worker[w].task
      /\ v.sid = worker[w].sid /\ v.code = code
  BY <1>1 DEF WorkerType
<1>3. worker' = [worker EXCEPT ![w] = v] /\ tasks' \in Seq(Packets)
  BY DEF Answer, TypeInv, PoolInv
<1> HIDE DEF v
<1> QED
  BY <1>1, <1>2, <1>3, WorkerChange

\* A worker that is to answer `code` and has `lines` more lines to refuse.
With(u, code, lines) == [u EXCEPT !.at = "reply", !.code = code, !.lines = lines]

LEMMA WithType ==
  ASSUME NEW u \in WorkerType, NEW code \in Code, NEW lines \in 0..MaxLines - 1
  PROVE  /\ With(u, code, lines) \in WorkerType
         /\ With(u, code, lines).at = "reply" /\ With(u, code, lines).code = code
         /\ With(u, code, lines).task = u.task /\ With(u, code, lines).sid = u.sid
<1> DEFINE v == [u EXCEPT !.at = "reply", !.code = code]
<1>1. /\ v \in WorkerType /\ v.at = "reply" /\ v.code = code
      /\ v.task = u.task /\ v.sid = u.sid
  BY DEF WorkerType
<1>2. With(u, code, lines) = [v EXCEPT !.lines = lines]
  BY DEF With
<1> HIDE DEF v
<1> QED
  BY <1>1, <1>2 DEF WorkerType

\* A worker refuses one line or several.
LEMMA RefuseFields ==
  ASSUME TypeInv, NEW w \in Worker, Refuse(w)
  PROVE  \E v \in WorkerType : /\ worker' = [worker EXCEPT ![w] = v]
                              /\ v.at = "reply" /\ v.code = 500
                              /\ v.task = worker[w].task /\ v.sid = worker[w].sid
<1>1. PICK more \in 0..MaxLines - 1 : worker' = [worker EXCEPT ![w] = With(worker[w], 500, more)]
  <2>1. PICK more \in 0..MaxLines - 1 : worker' = [worker EXCEPT ![w] =
          [@ EXCEPT !.at = "reply", !.code = 500, !.lines = more]]
    BY DEF Refuse
  <2>2. worker' = [worker EXCEPT ![w] = With(worker[w], 500, more)]
    BY <2>1 DEF With
  <2> QED
    BY <2>2
<1>2. worker[w] \in WorkerType /\ 500 \in Code
  BY WorkerFields DEF Code
<1> DEFINE v == With(worker[w], 500, more)
<1>3. /\ v \in WorkerType /\ v.at = "reply" /\ v.code = 500
      /\ v.task = worker[w].task /\ v.sid = worker[w].sid
  <2>1. more \in 0..MaxLines - 1
    BY <1>1
  <2> QED
    BY <1>2, <2>1, WithType
<1>4. worker' = [worker EXCEPT ![w] = v]
  BY <1>1
<1> HIDE DEF v
<1> QED
  BY <1>3, <1>4

\* A worker has fewer lines to refuse.
LEMMA LinesType ==
  ASSUME TypeInv, NEW w \in Worker, At(w, "rest"), NEW lines \in 0..MaxLines - 1, lines > 0,
         worker' = [worker EXCEPT ![w].lines = lines], tasks' = tasks,
         \A b \in Addr : Len(session'[b]) = Len(session[b])
  PROVE  PoolInv'
<1> DEFINE v == [worker[w] EXCEPT !.lines = lines]
<1>1. /\ worker[w] \in WorkerType /\ worker[w].task \in Packets
      /\ worker[w].sid \in 1..Len(session[worker[w].task.addr])
  BY WorkerFields DEF Busy, Address, At
<1>2. /\ v \in WorkerType /\ v.at = "rest" /\ v.lines = lines
      /\ v.task = worker[w].task /\ v.sid = worker[w].sid
  BY <1>1 DEF WorkerType, At
<1>3. worker' = [worker EXCEPT ![w] = v] /\ tasks' \in Seq(Packets)
  BY DEF TypeInv, PoolInv
<1> HIDE DEF v
<1> QED
  BY <1>1, <1>2, <1>3, WorkerChange

LEMMA DoneType ==
  ASSUME TypeInv, NEW w \in Worker, Done(w), tasks' = tasks,
         \A b \in Addr : Len(session'[b]) = Len(session[b])
  PROVE  PoolInv'
BY IdleType, WorkerChange DEF Done, TypeInv, PoolInv

LEMMA SetSessionType ==
  ASSUME TypeInv, NEW w \in Worker, Busy(w), NEW s \in SessionType, SetSession(w, s),
         sessions' = sessions
  PROVE  SessionInv' /\ \A b \in Addr : Len(session'[b]) = Len(session[b])
<1> DEFINE a == Address(w)
           q == [session[a] EXCEPT ![worker[w].sid] = s]
<1>1. /\ a \in Addr /\ worker[w].sid \in 1..Len(session[a])
      /\ session \in [Addr -> Seq(SessionType)]
  BY WorkerFields DEF Busy, TypeInv, SessionInv
<1>2. q \in Seq(SessionType) /\ Len(q) = Len(session[a])
  BY <1>1, ExceptSeq
<1>3. session' = [session EXCEPT ![a] = q]
  BY DEF SetSession
<1> HIDE DEF a, q
<1>4. /\ session' \in [Addr -> Seq(SessionType)]
      /\ \A b \in Addr : Len(session'[b]) = Len(session[b])
  BY <1>1, <1>2, <1>3
<1> QED
  BY <1>4 DEF TypeInv, SessionInv

LEMMA SameSession ==
  ASSUME TypeInv, session' = session, sessions' = sessions
  PROVE  SessionInv' /\ \A b \in Addr : Len(session'[b]) = Len(session[b])
BY DEF TypeInv, SessionInv

LEMMA WorkerFrame ==
  ASSUME TypeInv, WorkerOnly
  PROVE  ClientInv' /\ LinkInv' /\ sessions' = sessions
BY DEF TypeInv, ClientInv, ClientOK, LinkInv, WorkerOnly, loopVars

LEMMA TakeType == ASSUME TypeInv, NEW w \in Worker, Take(w) PROVE TypeInv'
<1> DEFINE p == Head(tasks)
           v == [worker[w] EXCEPT !.at = "process", !.task = p]
<1>1. p \in Packets /\ Tail(tasks) \in Seq(Packets)
  BY TailCodes DEF TypeInv, PoolInv, Take
<1>2. worker' = [worker EXCEPT ![w] = v] /\ tasks' \in Seq(Packets)
  BY <1>1 DEF Take
<1> HIDE DEF p
<1>3. v \in WorkerType /\ v.at = "process" /\ v.task = p
  BY <1>1, WorkerFields DEF WorkerType
<1>4. session' = session /\ stored' = stored /\ WorkerOnly
  BY DEF Take
<1>5. SessionInv' /\ \A b \in Addr : Len(session'[b]) = Len(session[b])
  BY <1>4, SameSession, WorkerFrame
<1> HIDE DEF v
<1>6. PoolInv'
  BY <1>1, <1>2, <1>3, <1>5, WorkerChange
<1> QED
  BY <1>4, <1>5, <1>6, WorkerFrame DEF TypeInv, StoredType

LEMMA ProcessType == ASSUME TypeInv, NEW w \in Worker, _process_packet(w) PROVE TypeInv'
<1> DEFINE id == sessions[Address(w)]
<1>1. /\ At(w, "process") /\ ~At(w, "idle")
      /\ WorkerOnly /\ UNCHANGED <<session, tasks, stored>>
  BY DEF _process_packet, At
<1>2. SessionInv' /\ \A b \in Addr : Len(session'[b]) = Len(session[b])
  BY <1>1, SameSession, WorkerFrame
<1>3. PoolInv'
  <2>1. CASE id = 0
    BY <1>1, <1>2, <2>1, DoneType DEF _process_packet
  <2>2. CASE id # 0
    <3>1. PICK label \in {"extend", "command"} :
            worker' = [worker EXCEPT ![w].sid = id, ![w].at = label]
      BY <2>2 DEF _process_packet
    <3> DEFINE v == [worker[w] EXCEPT !.sid = id, !.at = label]
    <3>2. worker[w] \in WorkerType /\ worker[w].task \in Packets /\ Address(w) \in Addr
      BY <1>1, WorkerFields
    <3>3. id \in Nat /\ id <= Len(session[Address(w)]) /\ Len(session[Address(w)]) \in Nat
      BY <3>2, LenProperties DEF TypeInv, SessionInv
    <3>4. id \in 1..Len(session[worker[w].task.addr])
      BY <2>2, <3>3 DEF Address
    <3> HIDE DEF id
    <3>5. v \in WorkerType /\ v.at = label /\ v.sid = id /\ v.task = worker[w].task
      BY <3>2, <3>3 DEF WorkerType
    <3>6. worker' = [worker EXCEPT ![w] = v] /\ tasks' \in Seq(Packets)
      BY <1>1, <3>1 DEF TypeInv, PoolInv
    <3> HIDE DEF v
    <3> QED
      BY <1>2, <3>2, <3>4, <3>5, <3>6, WorkerChange
  <2> QED
    BY <2>1, <2>2
<1> QED
  BY <1>1, <1>2, <1>3, WorkerFrame DEF TypeInv, StoredType

LEMMA ExtendType == ASSUME TypeInv, NEW w \in Worker, Extend(w) PROVE TypeInv'
<1> DEFINE buffer == Append(Mine(w).data_buffer, worker[w].task)
           s == [Mine(w) EXCEPT !.data_buffer = buffer]
<1>1. Busy(w) /\ ~At(w, "idle") /\ WorkerOnly /\ tasks' = tasks /\ stored' = stored
  BY DEF Extend, At, Busy
<1>2. buffer \in Seq(Packets)
  BY <1>1, MineType, WorkerFields, AppendProperties
<1>3. SetSession(w, s) /\ Goto(w, "check")
  BY DEF Extend
<1> HIDE DEF buffer
<1>4. s \in SessionType
  BY <1>1, <1>2, MineType DEF SessionType
<1> HIDE DEF s
<1>5. SessionInv' /\ \A b \in Addr : Len(session'[b]) = Len(session[b])
  BY <1>1, <1>3, <1>4, SetSessionType, WorkerFrame
<1>6. PoolInv'
  BY <1>1, <1>3, <1>5, GotoType DEF Labels
<1> QED
  BY <1>1, <1>5, <1>6, WorkerFrame DEF TypeInv, StoredType

LEMMA CheckType == ASSUME TypeInv, NEW w \in Worker, Check(w) PROVE TypeInv'
<1>1. Busy(w) /\ WorkerOnly /\ UNCHANGED <<session, tasks, stored>>
  BY DEF Check, At, Busy
<1>2. SessionInv' /\ \A b \in Addr : Len(session'[b]) = Len(session[b])
  BY <1>1, SameSession, WorkerFrame
<1>3. Goto(w, "copy") \/ Done(w)
  BY DEF Check
<1>4. PoolInv'
  BY <1>1, <1>2, <1>3, GotoType, DoneType DEF Labels
<1> QED
  BY <1>1, <1>2, <1>4, WorkerFrame DEF TypeInv, StoredType

LEMMA CopyType == ASSUME TypeInv, NEW w \in Worker, Copy(w) PROVE TypeInv'
<1> DEFINE full == Mine(w).data_buffer
           v == [worker[w] EXCEPT !.at = "reset", !.full = full]
<1>1. Busy(w) /\ WorkerOnly /\ UNCHANGED <<session, tasks, stored>>
  BY DEF Copy, At, Busy
<1>2. SessionInv' /\ \A b \in Addr : Len(session'[b]) = Len(session[b])
  BY <1>1, SameSession, WorkerFrame
<1>3. full \in Seq(Packets)
  BY <1>1, MineType
<1>4. /\ worker[w] \in WorkerType /\ worker[w].task \in Packets
      /\ worker[w].sid \in 1..Len(session[worker[w].task.addr])
  BY <1>1, WorkerFields DEF Busy, Address
<1>5. worker' = [worker EXCEPT ![w] = v] /\ tasks' \in Seq(Packets)
  BY <1>1 DEF Copy, TypeInv, PoolInv
<1> HIDE DEF full
<1>6. v \in WorkerType /\ v.at = "reset" /\ v.task = worker[w].task /\ v.sid = worker[w].sid
  BY <1>3, <1>4 DEF WorkerType
<1> HIDE DEF v
<1>7. PoolInv'
  BY <1>2, <1>4, <1>5, <1>6, WorkerChange
<1> QED
  BY <1>1, <1>2, <1>7, WorkerFrame DEF TypeInv, StoredType

LEMMA ResetType == ASSUME TypeInv, NEW w \in Worker, Reset(w) PROVE TypeInv'
<1> DEFINE none == <<>>
           s == [Mine(w) EXCEPT !.data_buffer = none, !.partial_line = FALSE,
                                !.state = "WAIT_FOR_MAIL_FROM"]
<1>1. Busy(w) /\ WorkerOnly /\ tasks' = tasks /\ stored' = stored
  BY DEF Reset, At, Busy
<1>2. SetSession(w, s) /\ Goto(w, "finalize") /\ none \in Seq(Packets)
  BY DEF Reset
<1> HIDE DEF none
<1>3. s \in SessionType
  BY <1>1, <1>2, MineType DEF SessionType, SMTPState
<1> HIDE DEF s
<1>4. SessionInv' /\ \A b \in Addr : Len(session'[b]) = Len(session[b])
  BY <1>1, <1>2, <1>3, SetSessionType, WorkerFrame
<1>5. PoolInv'
  BY <1>1, <1>2, <1>4, GotoType DEF Labels
<1> QED
  BY <1>1, <1>4, <1>5, WorkerFrame DEF TypeInv, StoredType

LEMMA LeastNumber ==
  ASSUME NEW S \in SUBSET Nat, S # {}
  PROVE  \E j \in S : \A k \in S : j <= k
<1> DEFINE R == {ss \in Nat \X Nat : ss[1] < ss[2]}
<1>1. IsWellFoundedOn(R, Nat)
  BY NatLessThanWellFounded DEF OpToRel
<1>2. \A j, k \in Nat : <<k, j>> \in R <=> k < j
  OBVIOUS
<1> HIDE DEF R
<1>3. PICK j \in S : \A k \in S : <<k, j>> \notin R
  BY <1>1, WFMin
<1>4. \A k \in S : j \in Nat /\ k \in Nat /\ ~(k < j)
  BY <1>2, <1>3
<1> QED
  BY <1>4

LEMMA MessageType ==
  ASSUME NEW full \in Seq(Packets)
  PROVE  Message(full) \in Seq(Packets)
<1> DEFINE ends == {i \in DOMAIN full : full[i].last}
           i == CHOOSE j \in ends : \A k \in ends : j <= k
<1>1. CASE ends = {}
  BY <1>1 DEF Message
<1>2. CASE ends # {}
  <2>1. ends \in SUBSET Nat
    BY DEF Message
  <2>2. i \in ends
    BY <1>2, <2>1, LeastNumber
  <2>3. i \in DOMAIN full
    BY <2>2
  <2>4. Message(full) = SubSeq(full, 1, i)
    BY <1>2 DEF Message
  <2> HIDE DEF i
  <2> QED
    BY <2>3, <2>4, SubSeqProperties
<1> QED
  BY <1>1, <1>2

LEMMA FinalizeType == ASSUME TypeInv, NEW w \in Worker, _finalize_message(w) PROVE TypeInv'
<1>1. Busy(w) /\ WorkerOnly /\ UNCHANGED <<session, tasks>>
  BY DEF _finalize_message, At, Busy
<1>2. SessionInv' /\ \A b \in Addr : Len(session'[b]) = Len(session[b])
  BY <1>1, SameSession, WorkerFrame
<1>3. \E code \in {250, 451, 550} : Answer(w, code)
  BY DEF _finalize_message
<1>4. PoolInv'
  BY <1>1, <1>2, <1>3, AnswerType DEF Code
<1>5. stored' \in StoredType
  <2> DEFINE m == [parts |-> Message(worker[w].full), rcpt |-> Head(Mine(w).rcpt_to)]
  <2>1. CASE stored' = stored
    BY <2>1 DEF TypeInv, StoredType
  <2>2. CASE stored' = Append(stored, m) /\ Head(Mine(w).rcpt_to) \in User
    <3>1. Message(worker[w].full) \in Seq(Packets)
      BY WorkerFields, MessageType
    <3>2. m \in [parts : Seq(Packets), rcpt : User]
      BY <2>2, <3>1
    <3> HIDE DEF m
    <3> QED
      BY <2>2, <3>2, AppendProperties DEF TypeInv, StoredType
  <2> QED
    BY <2>1, <2>2 DEF _finalize_message
<1> QED
  BY <1>1, <1>2, <1>4, <1>5, WorkerFrame DEF TypeInv

LEMMA EffectType ==
  ASSUME NEW s \in SessionType, NEW p \in Packets
  PROVE  Effect(s, p) \in SessionType
<1> DEFINE rcpts == Append(s.rcpt_to, p.rcpt)
           none == <<>>
<1>1. s.rcpt_to \in Seq(STRING) /\ p.rcpt \in STRING
  BY DEF SessionType, Packets
<1>2. rcpts \in Seq(STRING) /\ none \in Seq(Packets)
  BY <1>1, AppendProperties
<1>3. \/ Effect(s, p) \in {[s EXCEPT !.state = "WAIT_FOR_MAIL_FROM"],
                          [s EXCEPT !.state = "WAIT_FOR_RCPT_TO"], _create_session, s}
      \/ Effect(s, p) = [s EXCEPT !.state = "WAIT_FOR_DATA_CMD", !.rcpt_to = rcpts]
      \/ Effect(s, p) = [s EXCEPT !.state = "READING_DATA_STREAM", !.data_buffer = none]
  BY DEF Effect
<1> HIDE DEF rcpts, none
<1> QED
  BY <1>2, <1>3, NewSessionType DEF SessionType, SMTPState

LEMMA ExpectsType ==
  ASSUME NEW verb
  PROVE  Expects(verb) \in Code /\ (Expects(verb) = 221 <=> verb = "QUIT")
BY DEF Expects, Code

\* The steps of _handle_command_stream: what becomes of the session, and the answer.
LEMMA CommandCases ==
  ASSUME NEW w \in Worker, _handle_command_stream(w)
  PROVE  /\ \/ session' = session
            \/ \E flag \in BOOLEAN : SetSession(w, [Mine(w) EXCEPT !.partial_line = flag])
            \/ SetSession(w, Effect(Mine(w), worker[w].task))
         /\ \/ Done(w)
            \/ \E code \in {500, 503} : Answer(w, code)
            \/ Answer(w, Expects(worker[w].task.verb))
            \/ Refuse(w) /\ worker[w].task.part > 0
<1> DEFINE s == Mine(w)
           p == worker[w].task
           held(flag) == SetSession(w, [s EXCEPT !.partial_line = flag])
<1>1. \/ held(~p.last) /\ (Done(w) \/ (Refuse(w) /\ p.part > 0))
      \/ held(FALSE) /\ Answer(w, 500)
      \/ SetSession(w, Effect(s, p)) /\ Answer(w, Expects(p.verb))
      \/ session' = session /\ Answer(w, 503)
  BY DEF _handle_command_stream
<1>2. held(~p.last) \/ held(FALSE) => \E flag \in BOOLEAN : held(flag)
  <2>1. (~p.last) \in BOOLEAN
    OBVIOUS
  <2> HIDE DEF held
  <2> QED
    BY <2>1
<1> HIDE DEF held
<1>3. \/ session' = session
      \/ \E flag \in BOOLEAN : held(flag)
      \/ SetSession(w, Effect(s, p))
  BY <1>1, <1>2
<1>4. \/ Done(w) \/ \E code \in {500, 503} : Answer(w, code)
      \/ Answer(w, Expects(p.verb)) \/ (Refuse(w) /\ p.part > 0)
  BY <1>1, ZenonT(60)
<1> QED
  BY <1>3, <1>4 DEF held

LEMMA CommandType == ASSUME TypeInv, NEW w \in Worker, _handle_command_stream(w) PROVE TypeInv'
<1>1. Busy(w) /\ WorkerOnly /\ UNCHANGED <<tasks, stored>>
  BY DEF _handle_command_stream, At, Busy
<1>2. Mine(w) \in SessionType /\ worker[w].task \in Packets
  BY <1>1, MineType, WorkerFields DEF Busy
<1>3. SessionInv' /\ \A b \in Addr : Len(session'[b]) = Len(session[b])
  <2>1. CASE session' = session
    BY <1>1, <2>1, SameSession, WorkerFrame
  <2>2. ASSUME NEW flag \in BOOLEAN, SetSession(w, [Mine(w) EXCEPT !.partial_line = flag])
        PROVE  SessionInv' /\ \A b \in Addr : Len(session'[b]) = Len(session[b])
    <3>1. [Mine(w) EXCEPT !.partial_line = flag] \in SessionType
      BY <1>2 DEF SessionType
    <3> QED
      BY <1>1, <2>2, <3>1, SetSessionType, WorkerFrame
  <2>3. CASE SetSession(w, Effect(Mine(w), worker[w].task))
    BY <1>1, <1>2, <2>3, EffectType, SetSessionType, WorkerFrame
  <2> QED
    BY <2>1, <2>2, <2>3, CommandCases
<1>4. PoolInv'
  <2>1. CASE Done(w)
    BY <1>1, <1>3, <2>1, DoneType
  <2>2. ASSUME NEW code \in {500, 503}, Answer(w, code) PROVE PoolInv'
    BY <1>1, <1>3, <2>2, AnswerType DEF Code
  <2>3. CASE Answer(w, Expects(worker[w].task.verb))
    BY <1>1, <1>3, <2>3, AnswerType, ExpectsType
  <2>4. CASE Refuse(w)
    <3>1. PICK v \in WorkerType : /\ worker' = [worker EXCEPT ![w] = v]
                                   /\ v.at = "reply" /\ v.code = 500
                                   /\ v.task = worker[w].task /\ v.sid = worker[w].sid
      BY <2>4, RefuseFields
    <3>2. worker[w].task \in Packets /\ worker[w].sid \in 1..Len(session[worker[w].task.addr])
      BY <1>1, WorkerFields DEF Busy, Address
    <3>3. tasks' \in Seq(Packets)
      BY <1>1 DEF TypeInv, PoolInv
    <3> QED
      BY <1>3, <3>1, <3>2, <3>3, WorkerChange DEF Code
  <2> QED
    BY <2>1, <2>2, <2>3, <2>4, CommandCases
<1> QED
  BY <1>1, <1>3, <1>4, WorkerFrame DEF TypeInv, StoredType

\* The code that a worker sends now.
Sends(w) == IF At(w, "rest") THEN 500 ELSE worker[w].code

\* What Reply and Rest have in common.
LEMMA Replies ==
  ASSUME TypeInv, NEW w \in Worker, Reply(w) \/ Rest(w)
  PROVE  /\ Busy(w) /\ (At(w, "reply") \/ At(w, "rest"))
         /\ worker[w].task \in Packets /\ worker[w].task.addr \in Addr
         /\ Sends(w) \in Code
         /\ _send_reply(worker[w].task.addr, Sends(w), worker[w].task)
         /\ UNCHANGED <<script, loopVars, expected, sessionVars, tasks, stored>>
<1>1. Busy(w) /\ ~At(w, "idle") /\ (At(w, "reply") \/ At(w, "rest"))
  BY DEF Reply, Rest, At, Busy
<1>2. Reply(w) => ~At(w, "rest")
  BY DEF Reply, At
<1>3. Rest(w) => At(w, "rest")
  BY DEF Rest
<1>4. _send_reply(worker[w].task.addr, Sends(w), worker[w].task)
  BY <1>2, <1>3 DEF Reply, Rest, Sends, Address
<1>5. UNCHANGED <<script, loopVars, expected, sessionVars, tasks, stored>>
  BY DEF Reply, Rest
<1>6. /\ worker[w].task \in Packets /\ worker[w].task.addr \in Addr
      /\ At(w, "reply") => worker[w].code \in Code
  BY <1>1, WorkerFields DEF Address
<1>7. Sends(w) \in Code
  BY <1>1, <1>6 DEF Sends, Code
<1> QED
  BY <1>1, <1>4, <1>5, <1>6, <1>7

LEMMA ReplyStepType == ASSUME TypeInv, NEW w \in Worker, Reply(w) \/ Rest(w) PROVE TypeInv'
<1>1. Busy(w) /\ (At(w, "reply") \/ At(w, "rest"))
  BY Replies
<1>2. /\ worker[w].task \in Packets /\ worker[w].task.addr \in Addr
      /\ Sends(w) \in Code
  BY Replies
<1>3. _send_reply(worker[w].task.addr, Sends(w), worker[w].task)
  BY Replies
<1>4. /\ \E box \in Seq(ReplyType) :
           client' = [client EXCEPT ![worker[w].task.addr].inbox = box]
      /\ senders' \in [Addr -> {0, 1, NoSender}]
  BY <1>2, <1>3, SendReplyEffect
<1>5. UNCHANGED <<script, loopVars, expected, sessionVars, tasks, stored>>
  BY Replies
<1>6. ClientInv'
  BY <1>2, <1>4, <1>5, InboxChange
<1>7. LinkInv'
  BY <1>4, <1>5 DEF TypeInv, LinkInv, loopVars
<1>8. SessionInv' /\ \A b \in Addr : Len(session'[b]) = Len(session[b])
  BY <1>5, SameSession DEF sessionVars
<1>9. \/ Goto(w, "pop_sender") \/ Goto(w, "clear") \/ Done(w)
      \/ Goto(w, "rest") /\ worker[w].lines > 0
      \/ /\ worker' = [worker EXCEPT ![w].lines = @ - 1]
         /\ At(w, "rest") /\ worker[w].lines # 1
  BY DEF Reply, Rest
<1>10. PoolInv'
  <2>1. CASE /\ worker' = [worker EXCEPT ![w].lines = @ - 1]
             /\ At(w, "rest") /\ worker[w].lines # 1
    <3>1. worker[w].lines - 1 \in 0..MaxLines - 1 /\ worker[w].lines - 1 > 0
      BY <2>1, WorkerFields, NoBits
    <3> QED
      BY <1>1, <1>5, <1>8, <2>1, <3>1, LinesType
  <2> QED
    BY <1>1, <1>5, <1>8, <1>9, <2>1, GotoType, DoneType DEF Labels
<1> QED
  BY <1>5, <1>6, <1>7, <1>8, <1>10 DEF TypeInv, StoredType

LEMMA ClearType == ASSUME TypeInv, NEW w \in Worker, Clear(w) PROVE TypeInv'
<1> DEFINE none == <<>>
           s == [Mine(w) EXCEPT !.rcpt_to = none]
<1>1. Busy(w) /\ WorkerOnly /\ tasks' = tasks /\ stored' = stored
  BY DEF Clear, At, Busy
<1>2. SetSession(w, s) /\ Done(w) /\ none \in Seq(STRING)
  BY DEF Clear
<1> HIDE DEF none
<1>3. s \in SessionType
  BY <1>1, <1>2, MineType DEF SessionType
<1> HIDE DEF s
<1>4. SessionInv' /\ \A b \in Addr : Len(session'[b]) = Len(session[b])
  BY <1>1, <1>2, <1>3, SetSessionType, WorkerFrame
<1>5. PoolInv'
  BY <1>1, <1>2, <1>4, DoneType
<1> QED
  BY <1>1, <1>4, <1>5, WorkerFrame DEF TypeInv, StoredType

\* The three steps behind the reply to QUIT.
LEMMA PopType ==
  ASSUME TypeInv, NEW w \in Worker, PopSender(w) \/ PopSession(w) \/ reset_state(w)
  PROVE  TypeInv'
<1>1. Busy(w) /\ UNCHANGED <<script, client, loopVars, session, tasks, stored>>
  BY DEF PopSender, PopSession, reset_state, At, Busy, sessionVars
<1>2. ClientInv'
  BY <1>1 DEF TypeInv, ClientInv, ClientOK
<1>3. LinkInv'
  <2>1. expected' \in [Addr -> {0, 1}]
    BY DEF PopSender, PopSession, reset_state, TypeInv, LinkInv
  <2>2. senders' \in [Addr -> {0, 1, NoSender}]
    BY DEF PopSender, PopSession, reset_state, TypeInv, LinkInv
  <2> QED
    BY <1>1, <2>1, <2>2 DEF TypeInv, LinkInv, loopVars
<1>4. \A b \in Addr : Len(session'[b]) = Len(session[b]) /\ Len(session[b]) \in Nat
  <2>1. session \in [Addr -> Seq(SessionType)]
    BY DEF TypeInv, SessionInv
  <2> QED
    BY <1>1, <2>1, LenProperties
<1>5. SessionInv'
  <2>1. sessions' = sessions \/ sessions' = [sessions EXCEPT ![Address(w)] = 0]
    BY DEF PopSender, PopSession, reset_state, sessionVars
  <2>2. /\ session' = session /\ session \in [Addr -> Seq(SessionType)]
        /\ \A b \in Addr : sessions[b] \in Nat /\ sessions[b] <= Len(session[b])
    BY <1>1 DEF TypeInv, SessionInv
  <2>3. sessions' \in [Addr -> Nat]
    <3>1. sessions \in [Addr -> Nat] /\ 0 \in Nat
      BY DEF TypeInv, SessionInv
    <3> QED
      BY <2>1, <3>1
  <2>4. \A b \in Addr : sessions'[b] = sessions[b] \/ sessions'[b] = 0
    BY <2>1 DEF TypeInv, SessionInv
  <2>5. \A b \in Addr : sessions'[b] <= Len(session'[b])
    BY <1>4, <2>2, <2>4
  <2> QED
    BY <2>2, <2>3, <2>5 DEF SessionInv
<1>6. PoolInv'
  BY <1>1, <1>4, GotoType, DoneType DEF PopSender, PopSession, reset_state, Labels
<1> QED
  BY <1>1, <1>2, <1>3, <1>5, <1>6 DEF TypeInv, StoredType

LEMMA WorkerStepType == ASSUME TypeInv, NEW w \in Worker, WorkerStep(w) PROVE TypeInv'
BY TakeType, ProcessType, ExtendType, CheckType, CopyType, ResetType, FinalizeType,
   CommandType, ReplyStepType, ClearType, PopType DEF WorkerStep

LEMMA TypeStep == TypeInv /\ [Next]_vars => TypeInv'
<1>1. ASSUME TypeInv, UNCHANGED vars PROVE TypeInv'
  BY <1>1 DEF TypeInv, ClientInv, ClientOK, LinkInv, SessionInv, PoolInv, StoredType, At,
              Address, vars, loopVars, sessionVars
<1>2. ASSUME TypeInv, Next PROVE TypeInv'
  BY <1>2, ClientStepType, RejectType, ReceiveType, GreetType, WorkerStepType
     DEF Next, LoopStep
<1> QED
  BY <1>1, <1>2

LEMMA TypeCorrect == Spec => []TypeInv
BY TypeInit, TypeStep, PTL DEF Spec

\* The types hold for any clients, workers, losses and timeouts: no step of the serve loop,
\* of a worker or of a client takes a session, a number or a reply that is not there.
THEOREM SmtpTypeCorrect == Spec => []TypeOK
BY TypeCorrect, TypeParts, PTL

-----------------------------------------------------------------------------
(* A client on a sound link and the receiver stay in step                  *)

LEMMA StepInit == Init => StepInv
<1> SUFFICES ASSUME Init PROVE StepInv
  OBVIOUS
<1>1. QuitInv
  BY DEF Init, QuitInv, Leaving, Idle
<1>2. ASSUME NEW p \in InHand \union {greeting} PROVE p = NoPacket
  BY DEF Init, InHand, Idle, ToSet
<1>3. ASSUME NEW a \in Reliable PROVE InStep(a)
  <2>1. a \in Addr
    BY DEF Reliable
  <2>2. client[a].mode = "closed" /\ inbound[a] = NoPacket /\ greeting = NoPacket
    BY <2>1, NewClientType DEF Init
  <2> QED
    BY <1>2, <2>1, <2>2 DEF InStep, SyncInv, LastInv, GreetInv, Leaves, QuitOf
<1> QED
  BY <1>1, <1>3 DEF StepInv

\* What the other clients and the handling of commands leave as it is.
SameClient(a) ==
  /\ client'[a].mode = client[a].mode /\ client'[a].n = client[a].n
  /\ client'[a].part = client[a].part /\ client'[a].bit = client[a].bit
  /\ client'[a].awaiting = client[a].awaiting /\ script' = script

LEMMA StepFrame ==
  ASSUME NEW a, SyncInv(a), LastInv(a), SameClient(a),
         inbound'[a] = inbound[a], expected'[a] = expected[a],
         \A p \in InHand' \union {greeting'} : QuitOf(a, p) => p \in InHand \union {greeting}
  PROVE  SyncInv(a)' /\ LastInv(a)'
<1>1. Leaves(a)' <=> Leaves(a)
  BY DEF SameClient, Leaves
<1>2. SyncInv(a)'
  BY <1>1 DEF SyncInv, SameClient
<1>3. LastInv(a)'
  BY <1>1 DEF LastInv, QuitOf
<1> QED
  BY <1>2, <1>3

LEMMA GreetFrame ==
  ASSUME NEW a, GreetInv(a), greeting' \in {greeting, NoPacket}, sessions'[a] = sessions[a],
         \A p \in InHand' : QuitOf(a, p) => p \in InHand
  PROVE  GreetInv(a)'
BY DEF GreetInv, QuitOf

\* Until it leaves, nothing of a client that could end its session is at the server.
LEMMA NoQuit ==
  ASSUME NEW a, LastInv(a), ~Leaves(a) \/ inbound[a] # NoPacket
  PROVE  \A p \in InHand \union {greeting} : ~QuitOf(a, p)
BY DEF LastInv

\* A send of client a: the packet has the bit that is expected.
LEMMA SendStep ==
  ASSUME TypeInv, NEW a \in Reliable, InStep(a), NEW p \in Packets, NEW c \in ClientType,
         Send(a, p, c), p.bit = expected[a],
         \A q \in InHand \union {greeting} : ~QuitOf(a, q),
         p.verb = "QUIT" => Leaves(a)'
  PROVE  InStep(a)'
<1>1. a \in Addr
  BY DEF Reliable
<1>2. /\ inbound' = [inbound EXCEPT ![a] = p] /\ client' = [client EXCEPT ![a] = SentBy(c, p)]
      /\ UNCHANGED <<script, expected, senders, greeting, last_activity, sessionVars,
                     tasks, worker, stored>>
  BY DEF Send, SentBy
<1>3. inbound'[a] = p /\ client'[a].bit = 1 - p.bit /\ p # NoPacket
  BY <1>1, <1>2, SentByType, NoBits DEF TypeInv, LinkInv, ClientInv
<1>4. SyncInv(a)'
  BY <1>2, <1>3 DEF SyncInv
<1>5. InHand' = InHand
  BY <1>2 DEF InHand
<1>6. LastInv(a)'
  BY <1>2, <1>5 DEF LastInv, QuitOf
<1>7. GreetInv(a)'
  BY <1>2, <1>5 DEF InStep, GreetInv, QuitOf, sessionVars
<1> QED
  BY <1>4, <1>6, <1>7 DEF InStep

LEMMA ConnectStep ==
  ASSUME PatientClients, TypeInv, NEW a \in Reliable, InStep(a), _connect(a)
  PROVE  InStep(a)'
<1> DEFINE codes == <<220, 250>>
           p == [PacketOf(a, client[a].n + 1, 0, "NOOP", Nobody, FALSE) EXCEPT !.bit = 0]
           c == [NewClient EXCEPT !.mode = "open", !.awaiting = codes,
                                  !.accepted = client[a].accepted]
<1>1. a \in Addr /\ a \notin Prompt
  BY DEF Reliable, PatientClients
<1>2. Forgotten(a) /\ Send(a, p, c)
  BY <1>1 DEF _connect
<1>3. p \in Packets /\ p.bit = 0 /\ p.verb = "NOOP"
  <2>1. client[a].n + 1 \in Nat /\ 0 \in 0..MaxChunks /\ Nobody \in STRING
    BY <1>1, ClientFields, SmtpAssumption
  <2> QED
    BY <1>1, <2>1, BitType DEF PacketOf, Packets, Verb
<1>4. codes \in Seq(Code)
  BY DEF Code
<1> HIDE DEF codes
<1>5. c \in ClientType
  BY <1>1, <1>4, ClientFields, NewClientType DEF ClientType
<1>6. \A q \in InHand : ~QuitOf(a, q)
  BY <1>2 DEF Forgotten, InPool, InHand, QuitOf
<1>7. ~QuitOf(a, greeting)
  BY <1>2 DEF Forgotten, InStep, GreetInv, QuitOf
<1> HIDE DEF p, c
<1>8. p.bit = expected[a] /\ p.verb # "QUIT"
  BY <1>2, <1>3 DEF Forgotten
<1> QED
  BY <1>2, <1>3, <1>5, <1>6, <1>7, <1>8, SendStep

LEMMA SendCommandStep ==
  ASSUME TypeInv, NEW a \in Reliable, InStep(a), _send_command(a)
  PROVE  InStep(a)'
<1> DEFINE p == PacketOf(a, client[a].n + 1, 0, Item(a).verb, Item(a).rcpt, FALSE)
           codes == <<Expects(Item(a).verb)>>
           c == [client[a] EXCEPT !.awaiting = codes]
<1>1. a \in Addr
  BY DEF Reliable
<1>2. client[a].n \in Nat /\ client[a] \in ClientType
  BY <1>1, ClientFields
<1>3. client[a].n + 1 \in 1..Len(script[a])
  BY <1>1, <1>2, ScriptType DEF _send_command
<1>4. Item(a).verb \in Verb /\ Item(a).rcpt \in STRING
  BY <1>1, <1>3, ScriptType DEF Item
<1>5. /\ p \in Packets /\ p.bit = client[a].bit /\ p.verb = Item(a).verb
      /\ p.n = client[a].n + 1 /\ p.part = 0
  <2>1. client[a].n + 1 \in Nat /\ 0 \in 0..MaxChunks
    BY <1>2, SmtpAssumption
  <2> QED
    BY <1>1, <1>4, <2>1, BitType DEF PacketOf, Packets
<1>6. codes \in Seq(Code) /\ (Item(a).verb = "QUIT" => codes = <<221>>)
  BY DEF Code, Expects
<1>7. /\ Send(a, p, c) /\ client[a].mode = "open"
      /\ client[a].awaiting = <<>> /\ inbound[a] = NoPacket
  BY DEF _send_command, Ready
<1>8. ~Leaves(a)
  BY <1>7 DEF Leaves
<1> HIDE DEF codes
<1>9. c \in ClientType /\ c.mode = "open" /\ c.awaiting = codes
  BY <1>2, <1>6, <1>7 DEF ClientType
<1>10. Item(a).verb = script[a][client[a].n + 1].verb
  BY DEF Item
<1> HIDE DEF p, c
<1>11. p.bit = expected[a]
  BY <1>5, <1>7, <1>8 DEF InStep, SyncInv
<1>12. p.verb = "QUIT" => Leaves(a)'
  <2> SUFFICES ASSUME p.verb = "QUIT" PROVE Leaves(a)'
    OBVIOUS
  <2>1. client'[a] = SentBy(c, p) /\ script' = script
    BY <1>1, <1>7 DEF Send, SentBy, TypeInv, ClientInv
  <2>2. /\ client'[a].mode = "open" /\ client'[a].awaiting = codes /\ client'[a].n = p.n
        /\ client'[a].part = p.part
    BY <1>5, <1>9, <2>1, SentByType
  <2> QED
    BY <1>3, <1>5, <1>6, <1>10, <2>1, <2>2 DEF Leaves
<1> QED
  BY <1>5, <1>7, <1>8, <1>9, <1>11, <1>12, NoQuit, SendStep DEF InStep

LEMMA SendDataStep ==
  ASSUME TypeInv, NEW a \in Reliable, InStep(a), _send_data(a)
  PROVE  InStep(a)'
<1> DEFINE codes == <<250>>
           p(last) == PacketOf(a, client[a].n, client[a].part + 1, "chunk", Nobody, last)
           c(last) == IF last THEN [client[a] EXCEPT !.mode = "open", !.awaiting = codes]
                              ELSE client[a]
<1>1. /\ client[a].mode = "data" /\ inbound[a] = NoPacket
      /\ \E last \in BOOLEAN : Send(a, p(last), c(last))
  BY DEF _send_data, Ready
<1>2. PICK last \in BOOLEAN : Send(a, p(last), c(last))
  BY <1>1
<1>3. a \in Addr
  BY DEF Reliable
<1>4. /\ client[a] \in ClientType /\ client[a].n \in Nat /\ client[a].part \in Nat
      /\ client[a].part < MaxChunks
  <2>1. client[a] \in ClientType /\ ClientOK(a, client[a])
    BY <1>3, ClientFields
  <2> QED
    BY <1>1, <1>3, <2>1, ClientFields DEF ClientOK
<1>5. p(last) \in Packets /\ p(last).bit = client[a].bit /\ p(last).verb # "QUIT"
  <2>1. client[a].part + 1 \in 0..MaxChunks /\ Nobody \in STRING
    BY <1>4, SmtpAssumption
  <2> QED
    BY <1>3, <1>4, <2>1, BitType DEF PacketOf, Packets
<1>6. codes \in Seq(Code)
  BY DEF Code
<1> HIDE DEF codes
<1>7. c(last) \in ClientType
  <2>1. [client[a] EXCEPT !.mode = "open", !.awaiting = codes] \in ClientType
    BY <1>4, <1>6 DEF ClientType
  <2> QED
    BY <1>4, <2>1
<1>8. ~Leaves(a)
  BY <1>1 DEF Leaves
<1> HIDE DEF p, c
<1>9. p(last).bit = expected[a]
  BY <1>1, <1>5, <1>8 DEF InStep, SyncInv
<1> QED
  BY <1>2, <1>5, <1>7, <1>8, <1>9, NoQuit, SendStep DEF InStep

LEMMA AbandonStep ==
  ASSUME TypeInv, NEW a \in Reliable, InStep(a), Abandon(a)
  PROVE  InStep(a)'
<1> DEFINE p == PacketOf(a, client[a].n + 1, 0, "QUIT", Nobody, FALSE)
           c == [client[a] EXCEPT !.mode = "gone"]
<1>1. client[a].mode = "failing" /\ inbound[a] = NoPacket /\ Send(a, p, c)
  BY DEF Abandon, Ready
<1>2. a \in Addr
  BY DEF Reliable
<1>3. client[a] \in ClientType /\ client[a].n \in Nat
  BY <1>2, ClientFields
<1>4. p \in Packets /\ p.bit = client[a].bit
  <2>1. client[a].n + 1 \in Nat /\ 0 \in 0..MaxChunks /\ Nobody \in STRING
    BY <1>3, SmtpAssumption
  <2> QED
    BY <1>2, <2>1, BitType DEF PacketOf, Packets, Verb
<1>5. c \in ClientType /\ c.mode = "gone"
  BY <1>3 DEF ClientType
<1>6. ~Leaves(a)
  BY <1>1 DEF Leaves
<1> HIDE DEF p, c
<1>7. p.bit = expected[a]
  BY <1>1, <1>4, <1>6 DEF InStep, SyncInv
<1>8. Leaves(a)'
  <2>1. client'[a] = SentBy(c, p)
    BY <1>1, <1>2 DEF Send, SentBy, TypeInv, ClientInv
  <2>2. client'[a].mode = "gone"
    BY <1>4, <1>5, <2>1, SentByType
  <2> QED
    BY <2>2 DEF Leaves
<1> QED
  BY <1>1, <1>4, <1>5, <1>6, <1>7, <1>8, NoQuit, SendStep DEF InStep

\* What _get_reply leaves of the record of client a.
LEMMA ReplyCases ==
  ASSUME TypeInv, NEW a \in Addr, _get_reply(a)
  PROVE  /\ client[a].awaiting # <<>> /\ client[a].inbox # <<>> /\ Alive(a)
         /\ inbound[a] = NoPacket
         /\ UNCHANGED <<script, loopVars, expected, senders, sessionVars, tasks, worker, stored>>
         /\ \/ client' = [client EXCEPT ![a].inbox = Tail(@)]
            \/ client' = [client EXCEPT ![a] = Answered(@, Head(client[a].inbox).code)]
            \/ client' = [client EXCEPT ![a] = Failed(@)] /\ ~Logged(a)
         /\ client'[a].n = client[a].n /\ client'[a].part = client[a].part
         /\ client'[a].bit = client[a].bit
<1> DEFINE c == client[a]
           answered == Answered(c, Head(c.inbox).code)
<1>1. c.awaiting # <<>> /\ c.inbox # <<>> /\ Alive(a) /\ inbound[a] = NoPacket
  BY DEF _get_reply, Awaits
<1>2. UNCHANGED <<script, loopVars, expected, senders, sessionVars, tasks, worker, stored>>
  BY DEF _get_reply
<1>3. c \in ClientType /\ client \in [Addr -> ClientType]
  BY ClientFields DEF TypeInv, ClientInv
<1>4. \/ client' = [client EXCEPT ![a].inbox = Tail(@)]
      \/ client' = [client EXCEPT ![a] = answered]
      \/ client' = [client EXCEPT ![a] = Failed(c)] /\ ~Logged(a)
  BY DEF _get_reply
<1>5. answered.n = c.n /\ answered.part = c.part /\ answered.bit = c.bit
  BY <1>1, <1>3, AnsweredType
<1>6. Failed(c).n = c.n /\ Failed(c).part = c.part /\ Failed(c).bit = c.bit
  BY <1>3, FailedType
<1> HIDE DEF answered
<1>7. client'[a].n = c.n /\ client'[a].part = c.part /\ client'[a].bit = c.bit
  BY <1>3, <1>4, <1>5, <1>6 DEF ClientType
<1> QED
  BY <1>1, <1>2, <1>4, <1>7 DEF answered

\* A client that waits for the answer to its QUIT closes on any answer.
LEMMA StillLeaves ==
  ASSUME TypeInv, NEW a \in Addr, _get_reply(a), Leaves(a)
  PROVE  Leaves(a)'
<1> DEFINE c == client[a]
           answered == Answered(c, Head(c.inbox).code)
<1>1. /\ c.awaiting # <<>> /\ c.inbox # <<>> /\ c.mode \in {"open", "data"}
      /\ script' = script
      /\ c \in ClientType /\ client \in [Addr -> ClientType]
  BY ReplyCases, ClientFields DEF Alive, TypeInv, ClientInv
<1>2. /\ c.awaiting = <<221>> /\ c.part = 0 /\ c.mode = "open"
      /\ c.n \in 1..Len(script[a]) /\ script[a][c.n].verb = "QUIT"
  BY <1>1 DEF Leaves
<1>3. Head(c.awaiting) = 221
  BY <1>2
<1>4. Logged(a)
  BY <1>2, <1>3 DEF Logged
<1>5. CASE client' = [client EXCEPT ![a].inbox = Tail(@)]
  <2>1. /\ client'[a].mode = c.mode /\ client'[a].n = c.n /\ client'[a].part = c.part
        /\ client'[a].awaiting = c.awaiting
    BY <1>1, <1>5 DEF ClientType
  <2> QED
    BY <1>1, <1>2, <2>1 DEF Leaves
<1>6. CASE client' = [client EXCEPT ![a] = answered]
  <2>1. answered.mode = "closed"
    BY <1>1, <1>3, AnsweredType
  <2> QED
    BY <1>1, <1>6, <2>1 DEF Leaves
<1> QED
  BY <1>4, <1>5, <1>6, ReplyCases

LEMMA GetReplyStep ==
  ASSUME TypeInv, NEW a \in Reliable, InStep(a), _get_reply(a)
  PROVE  InStep(a)'
<1>1. a \in Addr
  BY DEF Reliable
<1>2. /\ inbound[a] = NoPacket /\ client'[a].bit = client[a].bit
      /\ UNCHANGED <<inbound, expected, script, tasks, worker, greeting, sessions>>
  BY <1>1, ReplyCases DEF loopVars, sessionVars
<1>3. Leaves(a) => Leaves(a)'
  BY <1>1, StillLeaves
<1>4. SyncInv(a)'
  BY <1>2, <1>3 DEF InStep, SyncInv
<1>5. InHand' = InHand
  BY <1>2 DEF InHand
<1>6. LastInv(a)'
  BY <1>2, <1>3, <1>5 DEF InStep, LastInv, QuitOf
<1>7. GreetInv(a)'
  BY <1>2, <1>5 DEF InStep, GreetInv, QuitOf
<1> QED
  BY <1>4, <1>6, <1>7 DEF InStep

\* A step of a client is none of another's.
LEMMA OtherClient ==
  ASSUME TypeInv, NEW b \in Addr, ClientStep(b)
  PROVE  /\ \A a \in Addr \ {b} : client'[a] = client[a] /\ inbound'[a] = inbound[a]
         /\ script' = script /\ expected' = expected /\ tasks' = tasks /\ worker' = worker
         /\ greeting' = greeting /\ sessions' = sessions
<1>1. client \in [Addr -> ClientType] /\ inbound \in [Addr -> Packets \union {NoPacket}]
  BY DEF TypeInv, ClientInv, LinkInv
<1>2. CASE _get_reply(b)
  BY <1>1, <1>2 DEF _get_reply, loopVars, sessionVars
<1>3. CASE ClientGivesUp(b)
  BY <1>1, <1>3 DEF ClientGivesUp, sessionVars
<1>4. ASSUME NEW p, NEW c, Send(b, p, c)
      PROVE  /\ \A a \in Addr \ {b} : client'[a] = client[a] /\ inbound'[a] = inbound[a]
             /\ script' = script /\ expected' = expected /\ tasks' = tasks
             /\ worker' = worker /\ greeting' = greeting /\ sessions' = sessions
  BY <1>1, <1>4 DEF Send, sessionVars
<1>5. CASE _connect(b) \/ _send_command(b) \/ _send_data(b) \/ Abandon(b)
  <2>1. \E p, c : Send(b, p, c)
    BY <1>5 DEF _connect, _send_command, _send_data, Abandon
  <2> QED
    BY <1>4, <2>1
<1> QED
  BY <1>2, <1>3, <1>5 DEF ClientStep

LEMMA ClientKeepsStep ==
  ASSUME PatientClients, TypeInv, StepInv, NEW b \in Addr, ClientStep(b)
  PROVE  StepInv'
<1>1. QuitInv'
  BY OtherClient DEF StepInv, QuitInv, Leaving
<1>2. ASSUME NEW a \in Reliable PROVE InStep(a)'
  <2>1. InStep(a) /\ a \in Addr
    BY DEF StepInv, Reliable
  <2>2. CASE a = b
    <3>1. ~ClientGivesUp(a)
      BY DEF ClientGivesUp, Reliable
    <3> QED
      BY <2>1, <2>2, <3>1, ConnectStep, SendCommandStep, SendDataStep, AbandonStep,
         GetReplyStep DEF ClientStep
  <2>3. CASE a # b
    <3>1. /\ client'[a] = client[a] /\ inbound'[a] = inbound[a] /\ script' = script
          /\ expected' = expected /\ tasks' = tasks /\ worker' = worker
          /\ greeting' = greeting /\ sessions' = sessions
      BY <2>1, <2>3, OtherClient
    <3>2. InHand' = InHand
      BY <3>1 DEF InHand
    <3>3. SyncInv(a)' /\ LastInv(a)'
      BY <2>1, <3>1, <3>2, StepFrame DEF InStep, SameClient
    <3>4. GreetInv(a)'
      BY <2>1, <3>1, <3>2, GreetFrame DEF InStep
    <3> QED
      BY <3>3, <3>4 DEF InStep
  <2> QED
    BY <2>2, <2>3
<1> QED
  BY <1>1, <1>2 DEF StepInv, Reliable

LEMMA AppendSet ==
  ASSUME NEW S, NEW q \in Seq(S), NEW x \in S
  PROVE  ToSet(Append(q, x)) = ToSet(q) \union {x}
<1>1. /\ Append(q, x) \in Seq(S) /\ Len(Append(q, x)) = Len(q) + 1
      /\ \A i \in 1..Len(q) : Append(q, x)[i] = q[i]
      /\ Append(q, x)[Len(q) + 1] = x /\ Len(q) \in Nat
  BY AppendProperties, LenProperties
<1>2. DOMAIN Append(q, x) = 1..(Len(q) + 1) /\ DOMAIN q = 1..Len(q)
  BY <1>1, LenProperties
<1> QED
  BY <1>1, <1>2 DEF ToSet

LEMMA HeadTailSet ==
  ASSUME NEW S, NEW q \in Seq(S), q # <<>>
  PROVE  Head(q) \in ToSet(q) /\ ToSet(Tail(q)) \subseteq ToSet(q)
BY TailCodes DEF ToSet

LEMMA RejectKeepsStep == ASSUME StepInv, TypeInv, NEW b \in Addr, Reject(b) PROVE StepInv'
<1>1. /\ inbound[b] # NoPacket /\ inbound[b].bit # expected[b]
      /\ inbound' = [inbound EXCEPT ![b] = NoPacket]
      /\ UNCHANGED <<script, client, expected, greeting, sessions, tasks, worker>>
  BY DEF Reject, sessionVars
<1>2. QuitInv'
  BY <1>1 DEF StepInv, QuitInv, Leaving
<1>3. ASSUME NEW a \in Reliable PROVE InStep(a)'
  <2>1. InStep(a) /\ a \in Addr
    BY DEF StepInv, Reliable
  <2>2. a # b /\ inbound'[a] = inbound[a]
    BY <1>1, <2>1 DEF InStep, SyncInv, TypeInv, LinkInv
  <2>3. InHand' = InHand
    BY <1>1 DEF InHand
  <2>4. SyncInv(a)' /\ LastInv(a)'
    BY <1>1, <2>1, <2>2, <2>3, StepFrame DEF InStep, SameClient
  <2>5. GreetInv(a)'
    BY <1>1, <2>1, <2>3, GreetFrame DEF InStep
  <2> QED
    BY <2>4, <2>5 DEF InStep
<1> QED
  BY <1>2, <1>3 DEF StepInv, Reliable

\* The serve loop takes a packet: what it does to the client it comes from and to others
\* on sound links, whom the reaper spares.
LEMMA ReceiveEffect ==
  ASSUME TypeInv, NEW b \in Addr, Receive(b)
  PROVE  /\ greeting = NoPacket /\ inbound[b] \in Packets /\ inbound[b].addr = b
         /\ inbound' = [inbound EXCEPT ![b] = NoPacket]
         /\ UNCHANGED <<script, client, worker>>
         /\ \A a \in Reliable \ {b} : expected'[a] = expected[a] /\ sessions'[a] = sessions[a]
         /\ b \in Reliable => expected'[b] = 1 - expected[b]
         /\ \/ greeting' = NoPacket /\ tasks' = Append(tasks, inbound[b])
            \/ greeting' = inbound[b] /\ tasks' = tasks /\ sessions'[b] # 0
<1>1. PICK stale \in SUBSET Stale(b) :
        LET known == _cleanup_session(sessions, stale, 0) IN
        /\ expected' = [_cleanup_session(expected, stale, 0) EXCEPT ![b] = 1 - @]
        /\ IF known[b] # 0
           THEN /\ sessions' = known
                /\ tasks' = Append(tasks, inbound[b])
                /\ UNCHANGED <<session, greeting>>
           ELSE /\ sessions' = [known EXCEPT ![b] = Len(session[b]) + 1]
                /\ greeting' = inbound[b]
                /\ UNCHANGED tasks
  BY DEF Receive
<1> DEFINE known == _cleanup_session(sessions, stale, 0)
           bits == _cleanup_session(expected, stale, 0)
<1>2. /\ known = [a \in Addr |-> IF a \in stale THEN 0 ELSE sessions[a]]
      /\ bits = [a \in Addr |-> IF a \in stale THEN 0 ELSE expected[a]]
  BY DEF _cleanup_session
<1>3. \A a \in Reliable : a \in Addr /\ a \notin stale
  BY DEF Reliable, Stale
<1>4. \A a \in Reliable : known[a] = sessions[a] /\ bits[a] = expected[a]
  BY <1>2, <1>3
<1>5. expected' = [bits EXCEPT ![b] = 1 - @]
  BY <1>1
<1>6. \/ known[b] # 0 /\ sessions' = known /\ greeting' = greeting
         /\ tasks' = Append(tasks, inbound[b])
      \/ /\ sessions' = [known EXCEPT ![b] = Len(session[b]) + 1]
         /\ greeting' = inbound[b] /\ tasks' = tasks
  BY <1>1
<1>7. Len(session[b]) + 1 # 0
  <2>1. session[b] \in Seq(SessionType)
    BY DEF TypeInv, SessionInv
  <2> QED
    BY <2>1, LenProperties
<1>8. /\ greeting = NoPacket /\ inbound[b] # NoPacket
      /\ inbound' = [inbound EXCEPT ![b] = NoPacket] /\ UNCHANGED <<script, client, worker>>
  BY DEF Receive
<1>9. inbound[b] \in Packets /\ inbound[b].addr = b
  BY <1>8 DEF TypeInv, LinkInv
<1>10. \A a \in Reliable \ {b} : expected'[a] = bits[a]
  BY <1>2, <1>3, <1>5
<1>11. b \in Reliable => expected'[b] = 1 - bits[b]
  BY <1>2, <1>5
<1>12. DOMAIN known = Addr
  BY <1>2
<1> HIDE DEF known, bits
<1>13. \A a \in Reliable \ {b} : sessions'[a] = known[a]
  BY <1>3, <1>6, <1>12
<1>14. \/ greeting' = NoPacket /\ tasks' = Append(tasks, inbound[b])
       \/ greeting' = inbound[b] /\ tasks' = tasks /\ sessions'[b] # 0
  BY <1>6, <1>7, <1>8, <1>12
<1> QED
  BY <1>4, <1>8, <1>9, <1>10, <1>11, <1>13, <1>14

LEMMA ReceiveKeepsStep == ASSUME StepInv, TypeInv, NEW b \in Addr, Receive(b) PROVE StepInv'
<1>1. /\ greeting = NoPacket /\ inbound[b] \in Packets /\ inbound[b].addr = b
      /\ inbound' = [inbound EXCEPT ![b] = NoPacket]
      /\ UNCHANGED <<script, client, worker>>
      /\ \A a \in Reliable \ {b} : expected'[a] = expected[a] /\ sessions'[a] = sessions[a]
      /\ b \in Reliable => expected'[b] = 1 - expected[b]
  BY ReceiveEffect
<1>2. \/ greeting' = NoPacket /\ tasks' = Append(tasks, inbound[b])
      \/ greeting' = inbound[b] /\ tasks' = tasks /\ sessions'[b] # 0
  BY ReceiveEffect
<1>3. QuitInv'
  BY <1>1 DEF StepInv, QuitInv, Leaving
<1>4. /\ InHand' \subseteq InHand \union {inbound[b]}
      /\ greeting' # NoPacket => InHand' = InHand
      /\ greeting' \in {NoPacket, inbound[b]}
  <2>1. CASE tasks' = tasks
    BY <1>1, <1>2, <2>1 DEF InHand
  <2>2. CASE greeting' = NoPacket /\ tasks' = Append(tasks, inbound[b])
    <3>1. ToSet(tasks') = ToSet(tasks) \union {inbound[b]}
      BY <1>1, <2>2, AppendSet DEF TypeInv, PoolInv
    <3> QED
      BY <1>1, <2>2, <3>1 DEF InHand
  <2> QED
    BY <1>2, <2>1, <2>2
<1>5. ASSUME NEW a \in Reliable PROVE InStep(a)'
  <2>1. InStep(a) /\ a \in Addr
    BY DEF StepInv, Reliable
  <2>2. CASE a # b
    <3>1. inbound'[a] = inbound[a] /\ ~QuitOf(a, inbound[b])
      BY <1>1, <2>1, <2>2 DEF QuitOf, TypeInv, LinkInv
    <3>2. \A p \in InHand' \union {greeting'} :
            QuitOf(a, p) => p \in InHand
      BY <1>4, <3>1 DEF QuitOf
    <3>3. SyncInv(a)' /\ LastInv(a)'
      BY <1>1, <2>1, <2>2, <3>1, <3>2, StepFrame DEF InStep, SameClient
    <3>4. GreetInv(a)'
      BY <1>1, <1>4, <2>2 DEF GreetInv
    <3> QED
      BY <3>3, <3>4 DEF InStep
  <2>3. CASE a = b
    <3>1. inbound[a] # NoPacket /\ inbound'[a] = NoPacket /\ expected[a] \in {0, 1}
          /\ expected'[a] = 1 - expected[a]
      BY <1>1, <2>1, <2>3, NoBits DEF TypeInv, LinkInv
    <3>2. \A p \in InHand \union {greeting} : ~QuitOf(a, p)
      BY <2>1, <3>1, NoQuit DEF InStep
    <3>3. Leaves(a)' <=> Leaves(a)
      BY <1>1 DEF Leaves
    <3>4. SyncInv(a)'
      BY <1>1, <2>1, <3>1, <3>3 DEF InStep, SyncInv
    <3>5. LastInv(a)'
      <4>1. QuitOf(a, inbound[b]) => Leaves(a)
        BY <2>1, <2>3 DEF InStep, SyncInv, QuitOf
      <4> QED
        BY <1>4, <3>1, <3>2, <3>3, <4>1 DEF LastInv, QuitOf
    <3>6. GreetInv(a)'
      BY <1>2, <1>4, <2>3, <3>2 DEF GreetInv, QuitOf
    <3> QED
      BY <3>4, <3>5, <3>6 DEF InStep
  <2> QED
    BY <2>2, <2>3
<1> QED
  BY <1>3, <1>5 DEF StepInv, Reliable

\* A reply changes nothing that the two ends of a link could differ in.
LEMMA ReplySame ==
  ASSUME TypeInv, NEW b \in Addr, NEW code \in Code, NEW p \in Packets,
         _send_reply(b, code, p), script' = script
  PROVE  \A a \in Addr : SameClient(a)
BY SendReplyEffect, InboxChange DEF SameClient

LEMMA GreetKeepsStep == ASSUME StepInv, TypeInv, Greet PROVE StepInv'
<1>1. greeting \in Packets /\ greeting.addr \in Addr
  BY DEF TypeInv, LinkInv, Greet, Packets
<1>2. \A a \in Addr : SameClient(a)
  BY <1>1, ReplySame DEF Greet, Code
<1>3. ToSet(tasks') = ToSet(tasks) \union {greeting}
  BY <1>1, AppendSet DEF Greet, TypeInv, PoolInv
<1>4. /\ greeting' = NoPacket
      /\ UNCHANGED <<script, inbound, expected, sessions, worker>>
  BY DEF Greet, sessionVars
<1>5. InHand' = InHand \union {greeting}
  BY <1>3, <1>4 DEF InHand
<1>6. QuitInv'
  BY <1>4 DEF StepInv, QuitInv, Leaving
<1>7. ASSUME NEW a \in Reliable PROVE InStep(a)'
  <2>1. InStep(a) /\ a \in Addr
    BY DEF StepInv, Reliable
  <2>2. SyncInv(a)' /\ LastInv(a)'
    BY <1>2, <1>4, <1>5, <2>1, StepFrame DEF InStep, QuitOf
  <2>3. GreetInv(a)'
    BY <1>4 DEF GreetInv
  <2> QED
    BY <2>2, <2>3 DEF InStep
<1> QED
  BY <1>6, <1>7 DEF StepInv, Reliable

\* Worker w goes on with its packet, or drops it; only behind a QUIT does it forget anyone.
Proceeds(w) ==
  /\ tasks' = tasks
  /\ \E v : /\ worker' = [worker EXCEPT ![w] = v]
            /\ v.task \in {worker[w].task, NoPacket}
            /\ Leaving(v) => v.task.verb = "QUIT"

LEMMA DoneProceeds ==
  ASSUME NEW w \in Worker, Done(w), tasks' = tasks
  PROVE  Proceeds(w)
<1>1. Idle.task = NoPacket /\ ~Leaving(Idle)
  BY DEF Idle, Leaving
<1> QED
  BY <1>1 DEF Done, Proceeds

\* The number of lines has changed.
LEMMA LinesProceed ==
  ASSUME TypeInv, NEW w \in Worker, NEW n, worker' = [worker EXCEPT ![w].lines = n],
         tasks' = tasks, ~Leaving(worker[w])
  PROVE  Proceeds(w)
<1> DEFINE v == [worker[w] EXCEPT !.lines = n]
<1>1. v.at = worker[w].at /\ v.task = worker[w].task /\ v.code = worker[w].code
  BY WorkerFields DEF WorkerType
<1>2. worker' = [worker EXCEPT ![w] = v]
  OBVIOUS
<1> HIDE DEF v
<1>3. ~Leaving(v)
  BY <1>1 DEF Leaving
<1> QED
  BY <1>1, <1>2, <1>3 DEF Proceeds

LEMMA GotoProceeds ==
  ASSUME TypeInv, NEW w \in Worker, NEW label \in Labels \ {"reply"}, Goto(w, label),
         tasks' = tasks,
         label \in {"pop_sender", "pop_session", "reset_state"} =>
           worker[w].task.verb = "QUIT"
  PROVE  Proceeds(w)
<1> DEFINE v == [worker[w] EXCEPT !.at = label]
<1>1. v.at = label /\ v.task = worker[w].task
  BY WorkerFields DEF WorkerType
<1>2. worker' = [worker EXCEPT ![w] = v]
  BY DEF Goto
<1> HIDE DEF v
<1>3. Leaving(v) => v.task.verb = "QUIT"
  BY <1>1 DEF Leaving
<1> QED
  BY <1>1, <1>2, <1>3 DEF Proceeds

LEMMA AnswerProceeds ==
  ASSUME TypeInv, NEW w \in Worker, NEW code, Answer(w, code), tasks' = tasks,
         code = 221 => worker[w].task.verb = "QUIT"
  PROVE  Proceeds(w)
<1> DEFINE v == [worker[w] EXCEPT !.at = "reply", !.code = code]
<1>1. v.at = "reply" /\ v.task = worker[w].task /\ v.code = code
  BY WorkerFields DEF WorkerType
<1>2. worker' = [worker EXCEPT ![w] = v]
  BY DEF Answer
<1> HIDE DEF v
<1>3. Leaving(v) => v.task.verb = "QUIT"
  BY <1>1 DEF Leaving
<1> QED
  BY <1>1, <1>2, <1>3 DEF Proceeds

LEMMA ProcessProceeds ==
  ASSUME TypeInv, NEW w \in Worker, _process_packet(w)
  PROVE  Proceeds(w)
<1> DEFINE id == sessions[Address(w)]
<1>1. tasks' = tasks
  BY DEF _process_packet
<1>2. CASE Done(w)
  BY <1>1, <1>2, DoneProceeds
<1>3. ASSUME NEW label \in {"extend", "command"},
             worker' = [worker EXCEPT ![w].sid = id, ![w].at = label]
      PROVE  Proceeds(w)
  <2> DEFINE v == [worker[w] EXCEPT !.sid = id, !.at = label]
  <2> HIDE DEF id
  <2>1. v.at = label /\ v.task = worker[w].task
    BY WorkerFields DEF WorkerType
  <2>2. worker' = [worker EXCEPT ![w] = v]
    BY <1>3
  <2> HIDE DEF v
  <2>3. ~Leaving(v)
    BY <2>1 DEF Leaving
  <2> QED
    BY <1>1, <2>1, <2>2, <2>3 DEF Proceeds
<1> QED
  BY <1>2, <1>3 DEF _process_packet

LEMMA CopyProceeds ==
  ASSUME TypeInv, NEW w \in Worker, Copy(w)
  PROVE  Proceeds(w)
<1> DEFINE full == Mine(w).data_buffer
           v == [worker[w] EXCEPT !.at = "reset", !.full = full]
<1>1. worker' = [worker EXCEPT ![w] = v] /\ tasks' = tasks
  BY DEF Copy
<1> HIDE DEF full
<1>2. v.at = "reset" /\ v.task = worker[w].task
  BY WorkerFields DEF WorkerType
<1> HIDE DEF v
<1>3. ~Leaving(v)
  BY <1>2 DEF Leaving
<1> QED
  BY <1>1, <1>2, <1>3 DEF Proceeds

LEMMA CommandProceeds ==
  ASSUME TypeInv, NEW w \in Worker, _handle_command_stream(w)
  PROVE  Proceeds(w)
<1>1. tasks' = tasks
  BY DEF _handle_command_stream
<1>2. ASSUME NEW code \in {500, 503}, Answer(w, code) PROVE Proceeds(w)
  BY <1>1, <1>2, AnswerProceeds
<1>3. CASE Answer(w, Expects(worker[w].task.verb))
  BY <1>1, <1>3, AnswerProceeds, ExpectsType
<1>4. CASE Refuse(w)
  <2>1. PICK v \in WorkerType : /\ worker' = [worker EXCEPT ![w] = v]
                                 /\ v.at = "reply" /\ v.code = 500
                                 /\ v.task = worker[w].task
    BY <1>4, RefuseFields
  <2>2. ~Leaving(v)
    BY <2>1 DEF Leaving
  <2> QED
    BY <1>1, <2>1, <2>2 DEF Proceeds
<1> QED
  BY <1>1, <1>2, <1>3, <1>4, CommandCases, DoneProceeds

LEMMA FinalizeProceeds ==
  ASSUME TypeInv, NEW w \in Worker, _finalize_message(w)
  PROVE  Proceeds(w)
<1>1. tasks' = tasks /\ \E code \in {250, 451, 550} : Answer(w, code)
  BY DEF _finalize_message
<1>2. ASSUME NEW code \in {250, 451, 550}, Answer(w, code) PROVE Proceeds(w)
  BY <1>1, <1>2, AnswerProceeds
<1> QED
  BY <1>1, <1>2

LEMMA ReplyProceeds ==
  ASSUME TypeInv, QuitInv, NEW w \in Worker, Reply(w) \/ Rest(w)
  PROVE  Proceeds(w)
<1>1. tasks' = tasks
  BY DEF Reply, Rest
<1>2. \/ Goto(w, "pop_sender") /\ worker[w].code = 221 /\ At(w, "reply")
      \/ Goto(w, "clear") \/ Goto(w, "rest") \/ Done(w)
      \/ worker' = [worker EXCEPT ![w].lines = @ - 1] /\ At(w, "rest")
  BY DEF Reply, Rest
<1>3. At(w, "reply") /\ worker[w].code = 221 => worker[w].task.verb = "QUIT"
  BY DEF QuitInv, Leaving, At
<1>4. CASE worker' = [worker EXCEPT ![w].lines = @ - 1] /\ At(w, "rest")
  BY <1>1, <1>4, LinesProceed DEF Leaving, At
<1> QED
  BY <1>1, <1>2, <1>3, <1>4, GotoProceeds, DoneProceeds DEF Labels

LEMMA WorkerProceeds ==
  ASSUME TypeInv, QuitInv, NEW w \in Worker, WorkerStep(w)
  PROVE  Take(w) \/ Proceeds(w)
<1>1. CASE Extend(w) \/ Check(w) \/ Reset(w) \/ Clear(w)
  BY <1>1, GotoProceeds, DoneProceeds DEF Extend, Check, Reset, Clear, Labels
<1>2. CASE PopSender(w) \/ PopSession(w) \/ reset_state(w)
  <2>1. worker[w].task.verb = "QUIT" /\ tasks' = tasks
    BY <1>2 DEF PopSender, PopSession, reset_state, At, QuitInv, Leaving
  <2> QED
    BY <1>2, <2>1, GotoProceeds, DoneProceeds DEF PopSender, PopSession, reset_state, Labels
<1> QED
  BY <1>1, <1>2, ProcessProceeds, CopyProceeds, CommandProceeds, FinalizeProceeds,
     ReplyProceeds DEF WorkerStep

\* No step of a worker puts a packet into the pool, and QuitInv remains.
LEMMA PoolStep ==
  ASSUME TypeInv, QuitInv, NEW w \in Worker, WorkerStep(w)
  PROVE  QuitInv' /\ \A p \in InHand' : p = NoPacket \/ p \in InHand
<1>1. worker \in [Worker -> WorkerType] /\ tasks \in Seq(Packets)
  BY DEF TypeInv, PoolInv
<1>2. CASE Take(w)
  <2> DEFINE p == Head(tasks)
             v == [worker[w] EXCEPT !.at = "process", !.task = p]
  <2>1. worker' = [worker EXCEPT ![w] = v] /\ tasks' = Tail(tasks) /\ tasks # <<>>
    BY <1>2 DEF Take
  <2> HIDE DEF p
  <2>2. v.at = "process" /\ v.task = p
    BY WorkerFields DEF WorkerType
  <2> HIDE DEF v
  <2>3. p \in ToSet(tasks) /\ ToSet(tasks') \subseteq ToSet(tasks)
    BY <1>1, <2>1, HeadTailSet DEF p
  <2>4. \A u \in Worker : worker'[u] = worker[u] \/ worker'[u] = v
    BY <1>1, <2>1
  <2>5. QuitInv'
    BY <2>2, <2>4 DEF QuitInv, Leaving
  <2> QED
    BY <2>2, <2>3, <2>4, <2>5 DEF InHand
<1>3. CASE Proceeds(w)
  <2>1. PICK v : /\ worker' = [worker EXCEPT ![w] = v]
                 /\ v.task \in {worker[w].task, NoPacket}
                 /\ Leaving(v) => v.task.verb = "QUIT"
    BY <1>3 DEF Proceeds
  <2>2. \A u \in Worker : worker'[u] = worker[u] \/ worker'[u] = v
    BY <1>1, <2>1
  <2>3. QuitInv'
    BY <2>1, <2>2 DEF QuitInv, Leaving
  <2>4. tasks' = tasks
    BY <1>3 DEF Proceeds
  <2> QED
    BY <2>1, <2>2, <2>3, <2>4 DEF InHand
<1> QED
  BY <1>2, <1>3, WorkerProceeds

\* A worker works for one client, and forgets it only behind its QUIT.
LEMMA WorkerEffect ==
  ASSUME TypeInv, QuitInv, NEW w \in Worker, WorkerStep(w)
  PROVE  /\ \A a \in Addr : SameClient(a)
         /\ inbound' = inbound /\ greeting' = greeting
         /\ \A a \in Addr : \/ expected'[a] = expected[a] /\ sessions'[a] = sessions[a]
                            \/ QuitOf(a, worker[w].task)
<1>1. CASE PopSession(w) \/ reset_state(w)
  <2>1. worker[w].task \in Packets /\ worker[w].task.verb = "QUIT"
    BY <1>1, WorkerFields DEF PopSession, reset_state, At, QuitInv, Leaving
  <2>2. /\ UNCHANGED <<script, client, inbound, greeting>>
        /\ expected' = expected \/ expected' = [expected EXCEPT ![worker[w].task.addr] = 0]
        /\ sessions' = sessions \/ sessions' = [sessions EXCEPT ![worker[w].task.addr] = 0]
    BY <1>1 DEF PopSession, reset_state, loopVars, sessionVars, Address
  <2>3. \A a \in Addr : a # worker[w].task.addr =>
          expected'[a] = expected[a] /\ sessions'[a] = sessions[a]
    BY <2>2 DEF TypeInv, LinkInv, SessionInv
  <2> QED
    BY <2>1, <2>2, <2>3, NoBits DEF QuitOf, SameClient
<1>2. CASE Reply(w) \/ Rest(w)
  <2>1. /\ worker[w].task \in Packets /\ worker[w].task.addr \in Addr
        /\ Sends(w) \in Code
        /\ _send_reply(worker[w].task.addr, Sends(w), worker[w].task)
    BY <1>2, Replies
  <2>2. UNCHANGED <<script, inbound, greeting, expected, sessions>>
    BY <1>2, Replies DEF loopVars, sessionVars
  <2>3. \A a \in Addr : SameClient(a)
    BY <2>1, <2>2, ReplySame
  <2> QED
    BY <2>2, <2>3
<1>3. CASE WorkerOnly \/ PopSender(w)
  BY <1>3 DEF WorkerOnly, PopSender, SameClient, loopVars, sessionVars
<1>4. \/ WorkerOnly \/ PopSender(w) \/ PopSession(w) \/ reset_state(w)
      \/ Reply(w) \/ Rest(w)
  BY DEF WorkerStep, Take, _process_packet, Extend, Check, Copy, Reset, _finalize_message,
         _handle_command_stream, Clear
<1> QED
  BY <1>1, <1>2, <1>3, <1>4

LEMMA WorkerKeepsStep == ASSUME StepInv, TypeInv, NEW w \in Worker, WorkerStep(w) PROVE StepInv'
<1>1. QuitInv /\ QuitInv' /\ \A p \in InHand' : p = NoPacket \/ p \in InHand
  BY PoolStep DEF StepInv
<1>2. /\ \A a \in Addr : SameClient(a)
      /\ inbound' = inbound /\ greeting' = greeting
      /\ \A a \in Addr : \/ expected'[a] = expected[a] /\ sessions'[a] = sessions[a]
                         \/ QuitOf(a, worker[w].task)
  BY <1>1, WorkerEffect
<1>3. ASSUME NEW a \in Reliable PROVE InStep(a)'
  <2>1. InStep(a) /\ a \in Addr /\ SameClient(a)
    BY <1>2 DEF StepInv, Reliable
  <2>2. CASE expected'[a] = expected[a] /\ sessions'[a] = sessions[a]
    <3>1. \A p \in InHand' : QuitOf(a, p) => p \in InHand
      BY <1>1 DEF QuitOf
    <3>2. SyncInv(a)' /\ LastInv(a)'
      BY <1>2, <2>1, <2>2, <3>1, StepFrame DEF InStep
    <3>3. GreetInv(a)'
      BY <1>2, <2>1, <2>2, <3>1, GreetFrame DEF InStep
    <3> QED
      BY <3>2, <3>3 DEF InStep
  <2>3. CASE QuitOf(a, worker[w].task)
    <3>1. worker[w].task \in InHand
      BY DEF InHand
    <3>2. Leaves(a) /\ inbound[a] = NoPacket
      BY <2>1, <2>3, <3>1 DEF InStep, LastInv
    <3>3. Leaves(a)'
      BY <2>1, <3>2 DEF SameClient, Leaves
    <3>4. greeting = NoPacket \/ greeting.addr # a
      BY <2>1, <2>3, <3>1 DEF InStep, GreetInv
    <3>5. SyncInv(a)' /\ LastInv(a)' /\ GreetInv(a)'
      BY <1>2, <3>2, <3>3, <3>4 DEF SyncInv, LastInv, GreetInv
    <3> QED
      BY <3>5 DEF InStep
  <2> QED
    BY <1>2, <2>1, <2>2, <2>3
<1> QED
  BY <1>1, <1>3 DEF StepInv, Reliable

LEMMA StepStep == PatientClients /\ TypeInv /\ StepInv /\ [Next]_vars => StepInv'
<1>1. ASSUME StepInv, UNCHANGED vars PROVE StepInv'
  BY <1>1 DEF StepInv, InStep, SyncInv, LastInv, GreetInv, QuitInv, Leaving, Leaves, QuitOf,
              InHand, Reliable, vars, loopVars, sessionVars
<1>2. ASSUME PatientClients, TypeInv, StepInv, Next PROVE StepInv'
  BY <1>2, ClientKeepsStep, RejectKeepsStep, ReceiveKeepsStep, GreetKeepsStep,
     WorkerKeepsStep DEF Next, LoopStep
<1> QED
  BY <1>1, <1>2

\* A packet leaves a sound link only into the server's hands.
LEMMA TakenInStep ==
  ASSUME TypeInv, StepInv, [Next]_vars, NEW a \in Reliable,
         inbound[a] # NoPacket, inbound'[a] = NoPacket
  PROVE  expected'[a] # expected[a]
<1>1. a \in Addr /\ InStep(a) /\ expected[a] \in {0, 1}
  BY DEF Reliable, StepInv, TypeInv, LinkInv
<1>2. CASE UNCHANGED vars
  BY <1>2 DEF vars, loopVars
<1>3. ASSUME NEW b \in Addr, ClientStep(b) PROVE expected'[a] # expected[a]
  <2>1. CASE a # b
    BY <1>1, <1>3, <2>1, OtherClient
  <2>2. CASE a = b
    <3>1. CASE _get_reply(b) \/ ClientGivesUp(b)
      BY <2>2, <3>1 DEF _get_reply, ClientGivesUp, Reliable, loopVars
    <3>2. CASE _connect(b) \/ _send_command(b) \/ _send_data(b) \/ Abandon(b)
      BY <2>2, <3>2 DEF _connect, _send_command, _send_data, Abandon, Ready
    <3> QED
      BY <1>3, <3>1, <3>2 DEF ClientStep
  <2> QED
    BY <2>1, <2>2
<1>4. ASSUME NEW b \in Addr, Reject(b) PROVE expected'[a] # expected[a]
  BY <1>1, <1>4 DEF Reject, InStep, SyncInv, TypeInv, LinkInv
<1>5. ASSUME NEW b \in Addr, Receive(b) PROVE expected'[a] # expected[a]
  <2>1. CASE a = b
    BY <1>1, <1>5, <2>1, ReceiveEffect
  <2>2. CASE a # b
    BY <1>1, <1>5, <2>2, ReceiveEffect DEF TypeInv, LinkInv
  <2> QED
    BY <2>1, <2>2
<1>6. CASE Greet
  BY <1>6 DEF Greet
<1>7. ASSUME NEW w \in Worker, WorkerStep(w) PROVE expected'[a] # expected[a]
  BY <1>7, WorkerEffect DEF StepInv
<1> QED
  BY <1>2, <1>3, <1>4, <1>5, <1>6, <1>7 DEF Next, LoopStep

\* The receiver takes no packet of a client on a sound link for a duplicate, whatever the
\* other clients' give-ups, silences and returns do: expected_seqs is reset to 0 by QUIT
\* only when the client has sent its last packet, and it starts from 0 again when it is back.
THEOREM NothingIsDropped == PatientClients => (Spec => NothingDropped)
<1>1. TypeInv /\ StepInv /\ [Next]_vars =>
        [\A a \in Reliable : inbound[a] # NoPacket /\ inbound'[a] = NoPacket
           => expected'[a] # expected[a]]_vars
  BY TakenInStep
<1> SUFFICES ASSUME PatientClients PROVE Spec => NothingDropped
  OBVIOUS
<1>2. TypeInv /\ StepInv /\ [Next]_vars => StepInv'
  BY StepStep
<1> QED
  BY <1>1, <1>2, StepInit, TypeInit, TypeStep, PTL DEF Spec, NothingDropped
=============================================================================
