----------------------------- MODULE Pop3Proofs -----------------------------
(***************************************************************************)
(* Theorems about module Pop3Server: its types, and that QUIT deletes what  *)
(* its session marked, for any clients, mailboxes, losses and failures.     *)
(***************************************************************************)
EXTENDS Pop3Server, SequenceLemmas, FiniteSetTheorems

\* A session that is open has a user; only there are messages marked.
SessionInv == \A a \in Addr :
  /\ sessions[a].state = "TRANSACTION" => sessions[a].user # None
  /\ sessions[a].state # "TRANSACTION" => sessions[a].marked = {}

\* Away from its first state the loop works for a client, which has a session.
LoopInv ==
  /\ loop.at # "receive" => loop.addr \in Addr
  /\ loop.at = "delete" => sessions[loop.addr].user # None

TypeInv == TypeOK /\ SessionInv /\ LoopInv

\* Until it is signed off, or another session deletes, each number that a session marked
\* names a message that it asked to delete.
Deletes(a) == loop.at = "delete" /\ loop.addr = a

MarkInv == \A a \in Addr :
  a \notin stale /\ sessions[a].state = "TRANSACTION" /\ ~Deletes(a) =>
    \A i \in sessions[a].marked : /\ i \in DOMAIN box[sessions[a].user]
                                  /\ box[sessions[a].user][i] \in deled[a]

\* What QUIT looked up is what the session asked to delete, and it is open.
DoomInv == loop.at = "delete" =>
  /\ loop.cmd.verb = "QUIT"
  /\ loop.doomed # {} => sessions[loop.addr].state = "TRANSACTION"
  /\ loop.addr \notin stale => loop.doomed \subseteq deled[loop.addr]

IInv == TypeInv /\ MarkInv /\ DoomInv

-----------------------------------------------------------------------------
(* Type correctness                                                        *)

LEMMA CommandType ==
  /\ Quit \in Command
  /\ \A i \in Nat : Retr(i) \in Command /\ Dele(i) \in Command
BY DEF Command, Verb, Quit, Retr, Dele

LEMMA NewClientType == NewClient \in ClientType
BY CommandType, Pop3Assumption DEF NewClient, ClientType

LEMMA ClosedType ==
  ASSUME NEW c \in ClientType, NEW calls \in Seq(Command)
  PROVE  Closed(c, calls) \in ClientType
BY NewClientType DEF Closed, ClientType

LEMMA FailedType ==
  ASSUME NEW c \in ClientType
  PROVE  Failed(c) \in ClientType
<1> DEFINE quits == <<Quit>>
<1>1. [c EXCEPT !.fate = "nothing"] \in ClientType
  BY DEF ClientType
<1>2. <<>> \in Seq(Command) /\ quits \in Seq(Command)
  BY CommandType
<1>3. Closed([c EXCEPT !.fate = "nothing"], <<>>) \in ClientType
  BY <1>1, <1>2, ClosedType
<1>4. 0 \in 0 .. MaxRetries /\ <<>> \in Seq(Msg \union {None})
  BY Pop3Assumption
<1> HIDE DEF quits
<1>5. [c EXCEPT !.stage = "idle", !.calls = quits, !.got = <<>>, !.tries = 0,
                !.fate = "nothing"] \in ClientType
  BY <1>2, <1>4 DEF ClientType
<1> QED
  BY <1>3, <1>5 DEF Failed, quits

LEMMA RefusedType ==
  ASSUME NEW c \in ClientType
  PROVE  Refused(c) \in ClientType
BY FailedType, ZenonT(60) DEF Refused, ClientType

LEMMA FetchType ==
  ASSUME NEW s \in Seq(NumberOf)
  PROVE  Fetch(s) \in Seq(Command)
<1> DEFINE f == [k \in 1 .. 2 * Len(s) |-> LET i == s[(k + 1) \div 2].num IN
                                           IF k % 2 = 1 THEN Retr(i) ELSE Dele(i)]
<1>1. ASSUME NEW k \in 1 .. 2 * Len(s) PROVE f[k] \in Command
  <2>1. (k + 1) \div 2 \in 1 .. Len(s)
    OBVIOUS
  <2>2. s[(k + 1) \div 2] \in NumberOf
    BY <2>1
  <2>3. s[(k + 1) \div 2].num \in Nat
    BY <2>2 DEF NumberOf
  <2> QED
    BY <2>3, CommandType
<1>2. 2 * Len(s) \in Nat
  OBVIOUS
<1>3. f \in [1 .. 2 * Len(s) -> Command]
  BY <1>1
<1>4. f \in Seq(Command)
  BY <1>2, <1>3
<1> HIDE DEF f
<1>5. f \o <<Quit>> \in Seq(Command)
  BY <1>4, CommandType
<1> QED
  BY <1>5 DEF Fetch, f

LEMMA ReturnedType ==
  ASSUME NEW c \in ClientType, NEW count
  PROVE  Returned(c, count) \in ClientType
<1> DEFINE done == [c EXCEPT !.stage = "idle"]
           quits == <<Quit>>
           fetches == Fetch(c.listing)
           emails == Append(c.emails, c.got)
<1>1. done \in ClientType /\ c.calls \in Seq(Command)
  BY DEF ClientType
<1>2. Closed(c, c.calls) \in ClientType
  BY <1>1, ClosedType
<1>3. quits \in Seq(Command)
  BY CommandType
<1>4. fetches \in Seq(Command)
  BY FetchType DEF ClientType
<1>5. emails \in Seq(Seq(Msg \union {None})) /\ <<>> \in Seq(Msg \union {None})
  BY DEF ClientType
<1>6. done.listing = c.listing /\ done.emails = c.emails
  BY DEF ClientType
<1> HIDE DEF quits, fetches, emails
<1>7. [done EXCEPT !.calls = quits] \in ClientType
  BY <1>1, <1>3 DEF ClientType
<1>8. [done EXCEPT !.calls = fetches] \in ClientType
  BY <1>1, <1>4 DEF ClientType
<1>9. [done EXCEPT !.got = <<>>, !.emails = emails] \in ClientType
  BY <1>1, <1>5 DEF ClientType
<1> HIDE DEF done
<1>10. [done EXCEPT !.got = <<>>, !.emails = Append(@, c.got)] \in ClientType
  BY <1>6, <1>9 DEF emails
<1> QED
  BY <1>1, <1>2, <1>7, <1>8, <1>10 DEF Returned, done, quits, fetches

LEMMA ReadType ==
  ASSUME NEW c \in ClientType, NEW r \in ReplyType, c.stage \in {"status", "lines"}
  PROVE  Read(c, r) \in ClientType
<1> DEFINE read == [c EXCEPT !.expects = 1 - @]
<1>1. read \in ClientType
  <2>1. 1 - c.expects \in {0, 1}
    BY DEF ClientType
  <2> QED
    BY <2>1 DEF ClientType
<1> HIDE DEF read
<1>2. Status(read, r) \in ClientType
  <2>1. [read EXCEPT !.stage = "lines"] \in ClientType
    BY <1>1 DEF ClientType
  <2> QED
    BY <1>1, <2>1, ReturnedType, RefusedType DEF Status
<1>3. Line(read, r) \in ClientType
  <2>1. Append(read.got, r.msg) \in Seq(Msg \union {None})
    BY <1>1 DEF ClientType, ReplyType
  <2>2. Append(read.listing, [num |-> r.num, msg |-> r.msg]) \in Seq(NumberOf)
    BY <1>1 DEF ClientType, ReplyType, NumberOf
  <2>3. [read EXCEPT !.got = Append(@, r.msg)] \in ClientType
    BY <1>1, <2>1 DEF ClientType
  <2>4. [read EXCEPT !.listing = Append(@, [num |-> r.num, msg |-> r.msg])] \in ClientType
    BY <1>1, <2>2 DEF ClientType
  <2> QED
    BY <1>1, <2>3, <2>4, ReturnedType, FailedType DEF Line
<1>4. r.bit = c.expects \/ r.bit # c.expects
  OBVIOUS
<1> QED
  BY <1>2, <1>3, <1>4 DEF Read, read

LEMMA SomeTypes ==
  /\ NoSession \in SessionType /\ _create_session \in SessionType
  /\ Receiving \in LoopType /\ Receiving.at = "receive" /\ Receiving.out = <<>>
  /\ \A kind \in {"ok", "numbers", "err", "line", "content", "end"} : Reply(kind) \in ReplyType
BY CommandType DEF NoSession, _create_session, SessionType, Receiving, LoopType, Reply, ReplyType

LEMMA TypeInit == Init => TypeInv
<1> SUFFICES ASSUME Init PROVE TypeInv
  OBVIOUS
<1>1. client \in [Addr -> ClientType] /\ losses \in [Addr -> Nat]
  <2>1. PICK p \in Plan :
          /\ client = [a \in Addr |-> [NewClient EXCEPT !.calls = p[a].calls,
                                         !.all = p[a].all, !.faults = p[a].faults]]
          /\ losses = [a \in Addr |-> IF "loss" \in p[a].faults THEN MaxLosses ELSE 0]
    BY DEF Init
  <2>2. ASSUME NEW a \in Addr
        PROVE  [NewClient EXCEPT !.calls = p[a].calls, !.all = p[a].all,
                                 !.faults = p[a].faults] \in ClientType
    <3>1. p[a] \in [calls : Seq(Command), all : BOOLEAN, faults : SUBSET {"loss", "death"}]
      BY Pop3Assumption
    <3>2. p[a].calls \in Seq(Command) /\ p[a].all \in BOOLEAN
          /\ p[a].faults \in SUBSET {"loss", "death"}
      BY <3>1
    <3> QED
      BY <3>2, NewClientType DEF ClientType
  <2> QED
    BY <2>1, <2>2, Pop3Assumption
<1>2. arrived \subseteq Msg
  <2>1. ASSUME NEW u \in User PROVE ToSet(Stored[u]) \subseteq Msg
    BY Pop3Assumption DEF ToSet
  <2>2. arrived = UNION {ToSet(Stored[u]) : u \in User}
    BY DEF Init
  <2> QED
    BY <2>1, <2>2
<1>3. inbound \in [Addr -> Seq(PacketType)]
  <2>1. <<>> \in Seq(PacketType)
    OBVIOUS
  <2> QED
    BY <2>1 DEF Init
<1>4. expected \in [Addr -> {0, 1}] /\ senders \in [Addr -> {0, 1, None}]
      /\ deled \in [Addr -> SUBSET Msg] /\ stale \subseteq Addr
      /\ box \in [User -> Seq(Msg)]
  BY Pop3Assumption DEF Init
<1>5. sessions \in [Addr -> SessionType] /\ loop \in LoopType /\ loop.at = "receive"
  BY SomeTypes DEF Init
<1>6. \A a \in Addr : sessions[a] = NoSession
  BY DEF Init
<1> QED
  BY <1>1, <1>2, <1>3, <1>4, <1>5, <1>6
     DEF TypeInv, TypeOK, SessionInv, LoopInv, NoSession

-----------------------------------------------------------------------------
(* Types: the clients                                                      *)

LEMMA LoseType ==
  ASSUME losses \in [Addr -> Nat], NEW a \in Addr, Lose(a) \/ UNCHANGED losses
  PROVE  losses' \in [Addr -> Nat]
<1>1. CASE Lose(a)
  <2>1. losses[a] - 1 \in Nat
    BY <1>1 DEF Lose
  <2> QED
    BY <1>1, <2>1 DEF Lose
<1> QED
  BY <1>1

LEMMA TransmitType ==
  ASSUME TypeOK, NEW a \in Addr, NEW c \in ClientType, c.tries < MaxRetries, Transmit(a, c)
  PROVE  /\ client' \in [Addr -> ClientType]
         /\ inbound' \in [Addr -> Seq(PacketType)]
         /\ losses' \in [Addr -> Nat]
<1>1. c.tries + 1 \in 0 .. MaxRetries /\ [cmd |-> c.call, bit |-> c.bit] \in PacketType
  BY Pop3Assumption DEF ClientType, PacketType
<1>2. [c EXCEPT !.tries = @ + 1] \in ClientType
  BY <1>1 DEF ClientType
<1>3. Append(inbound[a], [cmd |-> c.call, bit |-> c.bit]) \in Seq(PacketType)
  BY <1>1 DEF TypeOK
<1>4. client' \in [Addr -> ClientType]
  BY <1>2 DEF TypeOK, Transmit
<1>5. inbound' \in [Addr -> Seq(PacketType)]
  <2>1. \/ inbound' = inbound
        \/ inbound' = [inbound EXCEPT ![a] = Append(@, [cmd |-> c.call, bit |-> c.bit])]
    BY DEF Transmit
  <2> QED
    BY <1>3, <2>1 DEF TypeOK
<1>6. losses' \in [Addr -> Nat]
  BY LoseType DEF TypeOK, Transmit
<1> QED
  BY <1>4, <1>5, <1>6

LEMMA CallType ==
  ASSUME TypeOK, NEW a \in Addr, Call(a)
  PROVE  /\ client' \in [Addr -> ClientType]
         /\ inbound' \in [Addr -> Seq(PacketType)]
         /\ losses' \in [Addr -> Nat]
<1> DEFINE c == client[a]
           first == Head(c.calls)
           rest == Tail(c.calls)
           next == [c EXCEPT !.stage = "sending", !.call = first, !.calls = rest, !.tries = 0]
           fresh == [next EXCEPT !.bit = 0, !.expects = 0, !.inbox = <<>>]
<1>1. c \in ClientType /\ c.calls \in Seq(Command) /\ c.calls # <<>>
  BY DEF TypeOK, Call, ClientType
<1>2. first \in Command /\ rest \in Seq(Command)
  BY <1>1
<1>3. 0 \in 0 .. MaxRetries /\ 0 < MaxRetries /\ <<>> \in Seq(ReplyType)
  BY Pop3Assumption
<1>4. next = [c EXCEPT !.stage = "sending", !.call = Head(c.calls), !.calls = Tail(@),
                       !.tries = 0]
  BY <1>1 DEF ClientType
<1> HIDE DEF c, first, rest
<1>5. next \in ClientType /\ next.tries = 0
  BY <1>1, <1>2, <1>3 DEF ClientType
<1> HIDE DEF next
<1>6. fresh \in ClientType /\ fresh.tries = 0
  BY <1>3, <1>5 DEF ClientType
<1> HIDE DEF fresh
<1>7. Transmit(a, fresh) \/ Transmit(a, next)
  BY <1>4 DEF Call, fresh, c
<1> QED
  BY <1>3, <1>5, <1>6, <1>7, TransmitType

LEMMA ClientStepType ==
  ASSUME TypeOK, NEW a \in Addr, ClientStep(a)
  PROVE  TypeOK' /\ UNCHANGED <<serverVars, loop, mailVars>>
<1>1. UNCHANGED <<serverVars, loop, mailVars>>
  BY DEF ClientStep, Call, Retransmit, Transmit, _get_reply, ClientGivesUp, Vanish
<1>2. client[a] \in ClientType /\ <<>> \in Seq(Command)
  BY DEF TypeOK
<1>3. /\ client' \in [Addr -> ClientType]
      /\ inbound' \in [Addr -> Seq(PacketType)]
      /\ losses' \in [Addr -> Nat]
  <2>1. CASE Call(a)
    BY <2>1, CallType
  <2>2. CASE Retransmit(a)
    BY <2>2, <1>2, TransmitType DEF Retransmit
  <2>3. CASE _get_reply(a)
    <3> DEFINE c == client[a]
               rest == [c EXCEPT !.inbox = Tail(@)]
    <3>1. c.inbox \in Seq(ReplyType) /\ c.inbox # <<>> /\ c.stage \in {"status", "lines"}
      BY <1>2, <2>3 DEF _get_reply, Waits, ClientType
    <3>2. Head(c.inbox) \in ReplyType /\ Tail(c.inbox) \in Seq(ReplyType)
      BY <3>1
    <3>3. rest \in ClientType /\ rest.stage = c.stage
      BY <1>2, <3>2 DEF ClientType
    <3>4. Read(rest, Head(c.inbox)) \in ClientType
      BY <3>1, <3>2, <3>3, ReadType
    <3>5. client' = [client EXCEPT ![a] = Read(rest, Head(c.inbox))]
      BY <2>3 DEF _get_reply
    <3> HIDE DEF c, rest
    <3> QED
      BY <2>3, <3>4, <3>5 DEF TypeOK, _get_reply
  <2>4. CASE ClientGivesUp(a)
    BY <2>4, <1>2, FailedType DEF TypeOK, ClientGivesUp
  <2>5. CASE Vanish(a)
    BY <2>5, <1>2, ClosedType DEF TypeOK, Vanish
  <2> QED
    BY <2>1, <2>2, <2>3, <2>4, <2>5 DEF ClientStep
<1> QED
  BY <1>1, <1>3 DEF TypeOK, serverVars, mailVars

-----------------------------------------------------------------------------
(* Types: the serve loop                                                   *)

LEMMA AcknowledgeType ==
  ASSUME TypeOK, NEW a \in Addr, inbound[a] # <<>>, Acknowledge(a)
  PROVE  /\ client' \in [Addr -> ClientType]
         /\ inbound' \in [Addr -> Seq(PacketType)]
         /\ losses' \in [Addr -> Nat]
         /\ Head(inbound[a]).cmd \in Command
<1>1. Head(inbound[a]) \in PacketType /\ Tail(inbound[a]) \in Seq(PacketType)
  BY DEF TypeOK
<1>2. Head(inbound[a]).cmd \in Command /\ inbound' \in [Addr -> Seq(PacketType)]
  BY <1>1 DEF TypeOK, Acknowledge, PacketType
<1>3. losses' \in [Addr -> Nat]
  BY LoseType DEF TypeOK, Acknowledge
<1>4. client' \in [Addr -> ClientType]
  <2> DEFINE heard == [client[a] EXCEPT !.stage = "status", !.tries = 0,
                                        !.bit = 1 - client[a].bit]
  <2>1. heard \in ClientType
    <3>1. 1 - client[a].bit \in {0, 1} /\ 0 \in 0 .. MaxRetries /\ client[a] \in ClientType
      BY Pop3Assumption DEF TypeOK, ClientType
    <3> QED
      BY <3>1 DEF ClientType
  <2>2. client' = client \/ client' = [client EXCEPT ![a].stage = "status", ![a].tries = 0,
                                                    ![a].bit = 1 - @]
    BY DEF Acknowledge
  <2>3. client' = client \/ client' = [client EXCEPT ![a] = heard]
    BY <2>2 DEF TypeOK, ClientType
  <2> HIDE DEF heard
  <2> QED
    BY <2>1, <2>3 DEF TypeOK
<1> QED
  BY <1>2, <1>3, <1>4

\* What an answer of these replies makes of the loop.
LEMMA AnswerType ==
  ASSUME TypeOK, NEW replies \in Seq(ReplyType), replies # <<>>, Answer(replies)
  PROVE  /\ loop' \in LoopType /\ loop'.out # <<>> /\ loop'.at = "send"
         /\ loop'.addr = loop.addr
BY DEF TypeOK, Answer, LoopType

\* A single reply.
LEMMA ReplyAnswer ==
  ASSUME TypeOK, NEW r \in ReplyType, Answer(<<r>>)
  PROVE  /\ loop' \in LoopType /\ loop'.out # <<>> /\ loop'.at = "send"
         /\ loop'.addr = loop.addr
<1>1. <<r>> \in Seq(ReplyType) /\ <<r>> # <<>>
  OBVIOUS
<1> QED
  BY <1>1, AnswerType

LEMMA RaiseType ==
  ASSUME TypeOK, Raise
  PROVE  loop' \in LoopType /\ loop'.at = "over" /\ loop'.addr = loop.addr
BY DEF TypeOK, Raise, LoopType

LEMMA LoopClient ==
  ASSUME TypeInv, loop.at # "receive"
  PROVE  /\ loop.addr \in Addr /\ Session \in SessionType
         /\ Session.user \in User \union {None}
         /\ Session.marked \subseteq Nat \ {0}
         /\ loop.cmd \in Command
         /\ Session.state = "TRANSACTION" => Session.user \in User
BY DEF TypeInv, TypeOK, SessionInv, LoopInv, Session, SessionType, LoopType

\* A handler that leaves the sessions alone and answers, or raises.
LEMMA PlainHandler ==
  ASSUME TypeInv, loop.at # "receive", HandlerOnly, UNCHANGED <<sessions, deled, stale>>,
         loop' \in LoopType, loop'.addr = loop.addr, loop'.at \in {"send", "over"},
         loop'.at = "send" => loop'.out # <<>>
  PROVE  TypeInv'
BY LoopClient DEF TypeInv, TypeOK, SessionInv, LoopInv, HandlerOnly

\* A handler that changes the session and answers.
LEMMA SessionHandler ==
  ASSUME TypeInv, loop.at = "handle", HandlerOnly, UNCHANGED stale,
         NEW s \in SessionType, SetSession(s), deled' \in [Addr -> SUBSET Msg],
         s.state = "TRANSACTION" => s.user # None,
         s.state # "TRANSACTION" => s.marked = {},
         loop' \in LoopType, loop'.addr = loop.addr, loop'.at = "send", loop'.out # <<>>
  PROVE  TypeInv'
<1>1. loop.addr \in Addr
  BY LoopClient
<1>2. sessions' \in [Addr -> SessionType] /\ SessionInv'
  BY <1>1 DEF TypeInv, TypeOK, SessionInv, SetSession
<1> QED
  BY <1>1, <1>2 DEF TypeInv, TypeOK, LoopInv, HandlerOnly

LEMMA LoginType == TypeInv /\ (_cmd_USER \/ _cmd_PASS) => TypeInv'
<1> SUFFICES ASSUME TypeInv, _cmd_USER \/ _cmd_PASS PROVE TypeInv'
  OBVIOUS
<1>1. loop.at = "handle" /\ HandlerOnly /\ UNCHANGED <<deled, stale>>
  BY DEF _cmd_USER, _cmd_PASS, Handles
<1>2. TypeOK /\ deled' \in [Addr -> SUBSET Msg]
  BY <1>1 DEF TypeInv, TypeOK
<1>3. Reply("ok") \in ReplyType /\ Reply("err") \in ReplyType
  BY SomeTypes
<1>4. (Answer(<<Reply("ok")>>) \/ Answer(<<Reply("err")>>)) =>
        loop' \in LoopType /\ loop'.out # <<>> /\ loop'.at = "send" /\ loop'.addr = loop.addr
  BY <1>2, <1>3, ReplyAnswer
<1>5. Answer(<<Reply("ok")>>) \/ Answer(<<Reply("err")>>)
  BY DEF _cmd_USER, _cmd_PASS
<1>6. CASE UNCHANGED sessions
  BY <1>1, <1>4, <1>5, <1>6, PlainHandler
<1>7. ASSUME NEW s \in SessionType, SetSession(s), s.state = "TRANSACTION" => s.user # None,
             s.state # "TRANSACTION" => s.marked = {}
      PROVE  TypeInv'
  BY <1>1, <1>2, <1>4, <1>5, <1>7, SessionHandler
<1>8. Session \in SessionType /\ (Session.state # "TRANSACTION" => Session.marked = {})
  BY <1>1, LoopClient DEF TypeInv, SessionInv, Session
<1>9. CASE Session.state = "AUTHORIZATION" /\ loop.cmd.name \in User
           /\ SetSession([Session EXCEPT !.user = loop.cmd.name])
  <2>1. [Session EXCEPT !.user = loop.cmd.name] \in SessionType
    BY <1>8, <1>9 DEF SessionType
  <2> QED
    BY <1>7, <1>8, <1>9, <2>1 DEF SessionType
<1>10. CASE Session.state = "AUTHORIZATION" /\ Session.user # None
            /\ SetSession([Session EXCEPT !.state = "TRANSACTION"])
  <2>1. [Session EXCEPT !.state = "TRANSACTION"] \in SessionType
    BY <1>8 DEF SessionType
  <2> QED
    BY <1>7, <1>8, <1>10, <2>1 DEF SessionType
<1>11. CASE Session.state = "AUTHORIZATION" /\ SetSession([Session EXCEPT !.user = None])
  <2>1. [Session EXCEPT !.user = None] \in SessionType
    BY <1>8 DEF SessionType
  <2> QED
    BY <1>7, <1>8, <1>11, <2>1 DEF SessionType
<1> QED
  BY <1>6, <1>9, <1>10, <1>11 DEF _cmd_USER, _cmd_PASS

\* A user's messages and the numbers of those it did not mark.
LEMMA MailboxType ==
  ASSUME TypeInv, loop.at # "receive", Open
  PROVE  /\ Session.user \in User /\ Messages \in Seq(Msg) /\ DOMAIN Messages = 1 .. Len(Messages)
         /\ Unmarked \subseteq DOMAIN Messages
         /\ IsFiniteSet(Unmarked) /\ Cardinality(Unmarked) \in Nat
<1>1. Session.user \in User /\ Messages \in Seq(Msg)
  BY LoopClient DEF TypeInv, TypeOK, Open, Messages
<1>2. Unmarked \subseteq 1 .. Len(Messages) /\ DOMAIN Messages = 1 .. Len(Messages)
  BY <1>1 DEF Unmarked
<1>3. IsFiniteSet(1 .. Len(Messages))
  BY <1>1, FS_Interval
<1> QED
  BY <1>1, <1>2, <1>3, FS_Subset, FS_CardinalityType

LEMMA ListingType ==
  ASSUME TypeInv, loop.at # "receive", Open, NEW numbers \in Ascending(Unmarked)
  PROVE  <<Reply("ok")>> \o [k \in DOMAIN numbers |-> ListLine(numbers[k])]
                         \o <<Reply("end")>> \in Seq(ReplyType) \ {<<>>}
<1> DEFINE n == Cardinality(Unmarked)
           lines == [k \in DOMAIN numbers |-> ListLine(numbers[k])]
<1>1. numbers \in [1 .. n -> Unmarked] /\ n \in Nat
  BY MailboxType DEF Ascending
<1>2. ASSUME NEW k \in 1 .. n PROVE ListLine(numbers[k]) \in ReplyType
  <2>1. numbers[k] \in DOMAIN Messages /\ numbers[k] \in Nat /\ Messages[numbers[k]] \in Msg
    BY <1>1, MailboxType
  <2> QED
    BY <2>1, SomeTypes DEF ListLine, ReplyType, Reply
<1>3. DOMAIN numbers = 1 .. n
  BY <1>1
<1>4. lines \in [1 .. n -> ReplyType]
  BY <1>2, <1>3
<1>5. lines \in Seq(ReplyType)
  BY <1>1, <1>4
<1>6. <<Reply("ok")>> \in Seq(ReplyType) /\ <<Reply("end")>> \in Seq(ReplyType)
      /\ Len(<<Reply("ok")>>) = 1
  BY SomeTypes
<1> HIDE DEF lines
<1>7. /\ <<Reply("ok")>> \o lines \o <<Reply("end")>> \in Seq(ReplyType)
      /\ Len(<<Reply("ok")>> \o lines \o <<Reply("end")>>) = 1 + Len(lines) + 1
  BY <1>5, <1>6
<1>8. Len(lines) \in Nat
  BY <1>5
<1> QED
  BY <1>7, <1>8 DEF lines

\* STAT, LIST and RETR tell, and change nothing.
LEMMA TellType == TypeInv /\ (_cmd_STAT \/ _cmd_LIST \/ _cmd_RETR) => TypeInv'
<1> SUFFICES ASSUME TypeInv, _cmd_STAT \/ _cmd_LIST \/ _cmd_RETR PROVE TypeInv'
  OBVIOUS
<1>1. loop.at = "handle" /\ HandlerOnly /\ UNCHANGED <<sessions, deled, stale>> /\ TypeOK
  BY DEF _cmd_STAT, _cmd_LIST, _cmd_RETR, Handles, TypeInv
<1>2. ASSUME NEW r \in ReplyType, Answer(<<r>>) PROVE TypeInv'
  BY <1>1, <1>2, ReplyAnswer, PlainHandler
<1>3. ASSUME NEW replies \in Seq(ReplyType), replies # <<>>, Answer(replies) PROVE TypeInv'
  BY <1>1, <1>3, AnswerType, PlainHandler
<1>4. CASE _cmd_STAT
  <2>1. Open => [Reply("numbers") EXCEPT !.num = Cardinality(Unmarked)] \in ReplyType
    BY <1>1, MailboxType, SomeTypes DEF ReplyType
  <2>2. CASE Answer(<<Reply("numbers")>>) \/ Answer(<<Reply("err")>>)
    BY <2>2, <1>2, SomeTypes
  <2>3. CASE Open /\ Answer(<<[Reply("numbers") EXCEPT !.num = Cardinality(Unmarked)]>>)
    BY <2>1, <2>3, <1>2
  <2> QED
    BY <1>4, <2>2, <2>3 DEF _cmd_STAT
<1>5. CASE _cmd_LIST
  <2>1. CASE Answer(<<Reply("numbers")>>) \/ Answer(<<Reply("err")>>)
    BY <2>1, <1>2, SomeTypes
  <2>2. ASSUME Open, NEW numbers \in Ascending(Unmarked),
               Answer(<<Reply("ok")>> \o [k \in DOMAIN numbers |-> ListLine(numbers[k])]
                                      \o <<Reply("end")>>)
        PROVE  TypeInv'
    BY <1>1, <1>3, <2>2, ListingType
  <2>3. CASE Answer(<<Reply("ok"), Reply("end")>>)
    <3>1. <<Reply("ok"), Reply("end")>> \in Seq(ReplyType)
          /\ <<Reply("ok"), Reply("end")>> # <<>>
      BY SomeTypes
    <3> QED
      BY <1>3, <2>3, <3>1
  <2> QED
    BY <1>5, <2>1, <2>2, <2>3 DEF _cmd_LIST
<1>6. CASE _cmd_RETR
  <2>1. CASE Raise
    BY <1>1, <2>1, RaiseType, PlainHandler
  <2>2. CASE Answer(<<Reply("err")>>)
    BY <2>2, <1>2, SomeTypes
  <2>3. CASE Answer(<<Reply("ok"), Reply("err")>>)
    <3>1. <<Reply("ok"), Reply("err")>> \in Seq(ReplyType)
          /\ <<Reply("ok"), Reply("err")>> # <<>>
      BY SomeTypes
    <3> QED
      BY <1>3, <2>3, <3>1
  <2>4. ASSUME NEW m \in Msg,
               Answer(<<Reply("ok"), [Reply("content") EXCEPT !.msg = m], Reply("end")>>)
        PROVE  TypeInv'
    <3> DEFINE content == [Reply("content") EXCEPT !.msg = m]
    <3>1. content \in ReplyType
      BY SomeTypes DEF ReplyType
    <3> HIDE DEF content
    <3>2. <<Reply("ok"), content, Reply("end")>> \in Seq(ReplyType)
          /\ <<Reply("ok"), content, Reply("end")>> # <<>>
      BY <3>1, SomeTypes
    <3> QED
      BY <1>3, <2>4, <3>2 DEF content
  <2>5. Open /\ loop.cmd.num \in Unmarked => Messages[loop.cmd.num] \in Msg
    BY <1>1, MailboxType
  <2> QED
    BY <1>6, <2>1, <2>2, <2>3, <2>4, <2>5 DEF _cmd_RETR
<1> QED
  BY <1>4, <1>5, <1>6

LEMMA DeleType == TypeInv /\ _cmd_DELE => TypeInv'
<1> SUFFICES ASSUME TypeInv, _cmd_DELE PROVE TypeInv'
  OBVIOUS
<1>1. loop.at = "handle" /\ HandlerOnly /\ UNCHANGED stale /\ TypeOK
  BY DEF _cmd_DELE, Handles, TypeInv
<1>2. \A r \in ReplyType : Answer(<<r>>) =>
        loop' \in LoopType /\ loop'.out # <<>> /\ loop'.at = "send" /\ loop'.addr = loop.addr
  BY <1>1, ReplyAnswer
<1> DEFINE marks ==
             /\ Open /\ loop.cmd.num \in Unmarked
             /\ SetSession([Session EXCEPT !.marked = @ \union {loop.cmd.num}])
             /\ deled' = [deled EXCEPT ![loop.addr] = @ \union {Messages[loop.cmd.num]}]
             /\ Answer(<<Reply("ok")>>)
<1>3. CASE marks
  <2> DEFINE s == [Session EXCEPT !.marked = @ \union {loop.cmd.num}]
  <2>1. loop.cmd.num \in Nat \ {0} /\ Messages[loop.cmd.num] \in Msg
    BY <1>1, <1>3, MailboxType
  <2>2. s \in SessionType /\ s.state = "TRANSACTION" /\ s.user # None
    BY <1>1, <1>3, <2>1, LoopClient DEF SessionType, Open, TypeInv, SessionInv, Session
  <2>3. SetSession(s) /\ Answer(<<Reply("ok")>>)
    BY <1>3
  <2>4. deled' \in [Addr -> SUBSET Msg]
    <3>1. loop.addr \in Addr
      BY <1>1, LoopClient
    <3>2. deled[loop.addr] \union {Messages[loop.cmd.num]} \in SUBSET Msg
      BY <1>1, <2>1, <3>1 DEF TypeOK
    <3>3. deled' = [deled EXCEPT ![loop.addr] = @ \union {Messages[loop.cmd.num]}]
      BY <1>3
    <3> QED
      BY <1>1, <3>1, <3>2, <3>3 DEF TypeOK
  <2> HIDE DEF s
  <2> QED
    BY <1>1, <1>2, <2>2, <2>3, <2>4, SomeTypes, SessionHandler
<1>4. CASE Answer(<<Reply("err")>>) /\ UNCHANGED <<sessions, deled>>
  BY <1>1, <1>2, <1>4, SomeTypes, PlainHandler
<1> QED
  BY <1>3, <1>4 DEF _cmd_DELE

LEMMA QuitType == TypeInv /\ _cmd_QUIT => TypeInv'
<1> SUFFICES ASSUME TypeInv, _cmd_QUIT PROVE TypeInv'
  OBVIOUS
<1>1. loop.at = "handle" /\ HandlerOnly /\ UNCHANGED <<sessions, deled, stale>> /\ TypeOK
  BY DEF _cmd_QUIT, Handles, TypeInv
<1>2. CASE Raise
  BY <1>1, <1>2, RaiseType, PlainHandler
<1>3. CASE ~Raise
  <2> DEFINE doomed == IF Open THEN {Messages[i] : i \in Session.marked} ELSE {}
  <2>1. /\ Session.user # None /\ (Open => Session.marked \subseteq DOMAIN Messages)
        /\ loop' = [loop EXCEPT !.at = "delete", !.doomed = doomed]
    BY <1>3 DEF _cmd_QUIT
  <2>2. doomed \in SUBSET Msg
    BY <1>1, <2>1, MailboxType
  <2> HIDE DEF doomed
  <2>3. loop' \in LoopType /\ loop'.at = "delete" /\ loop'.addr = loop.addr
    BY <1>1, <2>1, <2>2 DEF TypeOK, LoopType
  <2>4. loop.addr \in Addr /\ Session.user # None
    BY <1>1, <2>1, LoopClient
  <2> QED
    BY <1>1, <2>3, <2>4 DEF TypeInv, TypeOK, SessionInv, LoopInv, HandlerOnly, Session
<1> QED
  BY <1>2, <1>3

LEMMA DeleteType == TypeInv /\ (delete_email \/ SignOff \/ _handle_command) => TypeInv'
<1>1. ASSUME TypeInv, delete_email PROVE TypeInv'
  <2>1. PICK i \in DOMAIN Messages :
          /\ loop' = [loop EXCEPT !.doomed = @ \ {Messages[i]}]
          /\ \/ /\ box' = [box EXCEPT ![Session.user] = RemoveAt(@, i)]
                /\ stale' = stale \union Shifted(loop.addr, Session.user)
             \/ UNCHANGED <<box, stale>>
    BY <1>1 DEF delete_email
  <2>2. loop.at = "delete" /\ UNCHANGED <<client, inbound, losses, serverVars, arrived, deled>>
    BY <1>1 DEF delete_email
  <2>3. Session.user \in User
    BY <1>1, <2>2, LoopClient DEF TypeInv, LoopInv, Session
  <2>4. box[Session.user] \in Seq(Msg) /\ i \in 1 .. Len(box[Session.user])
    BY <1>1, <2>1, <2>3 DEF TypeInv, TypeOK, Messages
  <2>5. RemoveAt(box[Session.user], i) \in Seq(Msg)
    BY <2>4, RemoveAtLemma
  <2>6. box' \in [User -> Seq(Msg)]
    BY <1>1, <2>1, <2>5 DEF TypeInv, TypeOK
  <2>7. stale' \subseteq Addr
    BY <1>1, <2>1 DEF TypeInv, TypeOK, Shifted
  <2>8. loop.doomed \ {Messages[i]} \in SUBSET Msg
    BY <1>1 DEF TypeInv, TypeOK, LoopType
  <2>9. loop' \in LoopType /\ loop'.at = "delete" /\ loop'.addr = loop.addr
    BY <1>1, <2>1, <2>2, <2>8 DEF TypeInv, TypeOK, LoopType
  <2> QED
    BY <1>1, <2>2, <2>6, <2>7, <2>9 DEF TypeInv, TypeOK, SessionInv, LoopInv, serverVars
<1>2. ASSUME TypeInv, SignOff PROVE TypeInv'
  <2>1. loop' \in LoopType /\ loop'.out # <<>> /\ loop'.at = "send" /\ loop'.addr = loop.addr
    BY <1>2, SomeTypes, ReplyAnswer DEF SignOff, TypeInv
  <2>2. stale' \subseteq Addr /\ loop.addr \in Addr
    BY <1>2, LoopClient DEF SignOff, TypeInv, TypeOK
  <2>3. HandlerOnly /\ UNCHANGED <<sessions, deled>>
    BY <1>2 DEF SignOff
  <2> QED
    BY <1>2, <2>1, <2>2, <2>3 DEF TypeInv, TypeOK, SessionInv, LoopInv, HandlerOnly
<1>3. ASSUME TypeInv, _handle_command PROVE TypeInv'
  <2>1. loop.at = "handle" /\ HandlerOnly /\ UNCHANGED <<sessions, deled, stale>> /\ TypeOK
    BY <1>3 DEF _handle_command, TypeInv
  <2>2. CASE Answer(<<Reply("err")>>)
    BY <1>3, <2>1, <2>2, SomeTypes, ReplyAnswer, PlainHandler
  <2>3. CASE loop' = Receiving
    BY <1>3, <2>1, <2>3, SomeTypes DEF TypeInv, TypeOK, SessionInv, LoopInv, HandlerOnly
  <2> QED
    BY <1>3, <2>2, <2>3 DEF _handle_command
<1> QED
  BY <1>1, <1>2, <1>3

LEMMA ReceiveType ==
  ASSUME TypeInv, NEW a \in Addr, Reject(a) \/ Receive(a)
  PROVE  TypeInv'
<1>1. TypeOK /\ inbound[a] # <<>> /\ Acknowledge(a) /\ loop.at = "receive"
  BY DEF TypeInv, Reject, Receive
<1>2. /\ client' \in [Addr -> ClientType] /\ inbound' \in [Addr -> Seq(PacketType)]
      /\ losses' \in [Addr -> Nat] /\ Head(inbound[a]).cmd \in Command
  BY <1>1, AcknowledgeType
<1>3. CASE Reject(a)
  BY <1>1, <1>2, <1>3
     DEF TypeInv, TypeOK, SessionInv, LoopInv, Reject, serverVars, mailVars
<1>4. CASE Receive(a)
  <2> DEFINE taken == [Receiving EXCEPT !.addr = a, !.cmd = Head(inbound[a]).cmd]
             greets == <<Reply("ok")>>
  <2>1. taken \in LoopType /\ taken.addr = a
    BY <1>2, SomeTypes DEF LoopType
  <2>2. greets \in Seq(ReplyType) /\ greets # <<>>
    BY SomeTypes
  <2>3. expected' \in [Addr -> {0, 1}] /\ UNCHANGED <<senders, mailVars>>
    <3>1. 1 - expected[a] \in {0, 1}
      <4>1. expected[a] \in {0, 1}
        BY <1>1 DEF TypeOK
      <4> QED
        BY <4>1
    <3>2. expected' = [expected EXCEPT ![a] = 1 - @] /\ UNCHANGED <<senders, mailVars>>
      BY <1>4 DEF Receive
    <3> QED
      BY <1>1, <3>1, <3>2 DEF TypeOK
  <2>4. \/ /\ loop' = [taken EXCEPT !.at = "greet", !.out = greets]
           /\ sessions' = [sessions EXCEPT ![a] = _create_session]
        \/ loop' = [taken EXCEPT !.at = "handle"] /\ UNCHANGED sessions
    BY <1>4 DEF Receive
  <2> HIDE DEF taken, greets
  <2>5. loop' \in LoopType /\ loop'.addr = a /\ loop'.at \in {"greet", "handle"}
        /\ (loop'.at = "greet" => loop'.out # <<>>)
    BY <2>1, <2>2, <2>4 DEF LoopType
  <2>6. sessions' \in [Addr -> SessionType] /\ SessionInv'
    <3>1. sessions' \in [Addr -> SessionType]
      BY <1>1, <2>4, SomeTypes DEF TypeOK
    <3>2. \A b \in Addr : sessions'[b] = sessions[b] \/ sessions'[b] = _create_session
      BY <1>1, <2>4 DEF TypeOK
    <3>3. _create_session.state # "TRANSACTION" /\ _create_session.marked = {}
      BY DEF _create_session
    <3> QED
      BY <3>1, <3>2, <3>3 DEF TypeInv, SessionInv
  <2> QED
    BY <1>2, <2>3, <2>5, <2>6 DEF TypeInv, TypeOK, LoopInv, mailVars
<1> QED
  BY <1>3, <1>4

LEMMA SentType ==
  ASSUME TypeInv, loop.at \in {"greet", "send"}, NEW bit \in {0, 1}, NEW late \in BOOLEAN,
         Sent(bit, late), UNCHANGED <<sessions, mailVars, inbound>>,
         client' \in [Addr -> ClientType], losses' \in [Addr -> Nat]
  PROVE  TypeInv'
<1>1. loop.addr \in Addr /\ loop \in LoopType /\ loop.out \in Seq(ReplyType) /\ loop.out # <<>>
  BY LoopClient DEF TypeInv, TypeOK, LoopType
<1>2. expected' \in [Addr -> {0, 1}] /\ senders' \in [Addr -> {0, 1, None}]
  BY <1>1 DEF Sent, Finish, TypeInv, TypeOK
<1>3. /\ loop' \in LoopType
      /\ loop'.at \in {"greet", "send"} => loop'.out # <<>>
      /\ loop'.at # "receive" => loop'.addr \in Addr
      /\ loop'.at # "delete"
  <2>1. CASE Len(loop.out) = 1 /\ loop.at = "greet"
    <3>1. loop' = [[loop EXCEPT !.at = "handle", !.out = <<>>] EXCEPT !.stalled = late]
      BY <2>1 DEF Sent, Finish
    <3>2. <<>> \in Seq(ReplyType)
      OBVIOUS
    <3> QED
      BY <1>1, <3>1, <3>2 DEF LoopType
  <2>2. CASE Len(loop.out) = 1 /\ loop.at # "greet"
    <3>1. loop' = [Receiving EXCEPT !.stalled = late]
      BY <2>2 DEF Sent, Finish
    <3> QED
      BY <3>1, SomeTypes DEF LoopType
  <2>3. CASE Len(loop.out) # 1
    <3> DEFINE rest == Tail(loop.out)
    <3>1. rest \in Seq(ReplyType) /\ rest # <<>>
      BY <1>1, <2>3, LongTail
    <3>2. loop' = [loop EXCEPT !.out = rest, !.stalled = late]
      BY <2>3, <1>1 DEF Sent, LoopType
    <3> HIDE DEF rest
    <3> QED
      BY <1>1, <3>1, <3>2 DEF LoopType
  <2> QED
    BY <2>1, <2>2, <2>3
<1> QED
  BY <1>2, <1>3 DEF TypeInv, TypeOK, SessionInv, LoopInv, mailVars

LEMMA SendReplyType == TypeInv /\ SendReply => TypeInv'
<1> SUFFICES ASSUME TypeInv, SendReply PROVE TypeInv'
  OBVIOUS
<1> DEFINE a == loop.addr
           bit == IF senders[a] = None THEN 0 ELSE senders[a]
           r == [Head(loop.out) EXCEPT !.bit = bit]
           ready == Waits(a) /\ client[a].inbox = <<>> /\ Fits(r)
           read == [client EXCEPT ![a] = Read(@, r)]
           arrives == IF Waits(a) THEN read
                                  ELSE [client EXCEPT ![a].inbox = Append(@, r)]
<1>1. /\ loop.at \in {"greet", "send"} /\ loop.out # <<>> /\ TypeOK
      /\ UNCHANGED <<inbound, sessions, mailVars>>
  BY DEF SendReply, TypeInv
<1>2. a \in Addr /\ bit \in {0, 1} /\ r \in ReplyType /\ client[a] \in ClientType
  <2>1. a \in Addr /\ bit \in {0, 1} /\ client[a] \in ClientType
    BY <1>1, LoopClient DEF TypeOK
  <2>2. Head(loop.out) \in ReplyType
    BY <1>1 DEF TypeOK, LoopType
  <2> HIDE DEF bit, a
  <2> QED
    BY <2>1, <2>2 DEF ReplyType
<1>3. /\ \/ /\ ready
            /\ client' = read
            /\ Sent(1 - bit, loop.stalled)
            /\ UNCHANGED losses
         \/ /\ Lose(a) \/ UNCHANGED losses
            /\ client' \in {client} \union
                 (IF client[a].stage # "closed" /\ Fits(r) THEN {arrives} ELSE {})
            /\ IF r.kind = "content"
               THEN Raise /\ senders' = [senders EXCEPT ![a] = bit] /\ UNCHANGED expected
               ELSE Sent(bit, TRUE)
  BY DEF SendReply
<1> HIDE DEF bit, r, a, ready, read, arrives
<1>4. Waits(a) => read \in [Addr -> ClientType]
  BY <1>1, <1>2, ReadType DEF TypeOK, Waits, read
<1>5. ~Waits(a) => arrives \in [Addr -> ClientType]
  <2>1. [client[a] EXCEPT !.inbox = Append(@, r)] \in ClientType
    <3>1. Append(client[a].inbox, r) \in Seq(ReplyType)
      BY <1>2 DEF ClientType
    <3> QED
      BY <1>2, <3>1 DEF ClientType
  <2>2. [client EXCEPT ![a].inbox = Append(@, r)] =
          [client EXCEPT ![a] = [client[a] EXCEPT !.inbox = Append(@, r)]]
    BY <1>1, <1>2 DEF TypeOK
  <2> QED
    BY <1>1, <1>2, <2>1, <2>2 DEF TypeOK, arrives
<1>6. arrives \in [Addr -> ClientType]
  BY <1>4, <1>5 DEF arrives
<1>7. client' \in [Addr -> ClientType]
  BY <1>1, <1>3, <1>4, <1>6 DEF TypeOK, ready
<1>8. losses' \in [Addr -> Nat]
  BY <1>1, <1>2, <1>3, LoseType DEF TypeOK
<1>9. 1 - bit \in {0, 1} /\ loop.stalled \in BOOLEAN
  BY <1>1, <1>2 DEF TypeOK, LoopType
<1>10. ASSUME Raise, senders' = [senders EXCEPT ![a] = bit], UNCHANGED expected
       PROVE  TypeInv'
  <2>1. senders' \in [Addr -> {0, 1, None}]
    BY <1>1, <1>2, <1>10 DEF TypeOK
  <2> QED
    BY <1>1, <1>2, <1>7, <1>8, <1>10, <2>1, RaiseType
       DEF TypeInv, TypeOK, SessionInv, LoopInv, mailVars, a
<1> QED
  BY <1>1, <1>2, <1>3, <1>7, <1>8, <1>9, <1>10, SentType

LEMMA DeliverType == ASSUME TypeInv, NEW m \in Msg, Deliver(m) PROVE TypeInv'
<1>1. box' \in [User -> Seq(Msg)] /\ arrived' \subseteq Msg
  <2>1. Owner[m] \in User /\ box[Owner[m]] \in Seq(Msg)
    BY Pop3Assumption DEF TypeInv, TypeOK
  <2>2. Append(box[Owner[m]], m) \in Seq(Msg)
    BY <2>1
  <2> QED
    BY <2>2 DEF TypeInv, TypeOK, Deliver
<1> QED
  BY <1>1 DEF TypeInv, TypeOK, SessionInv, LoopInv, Deliver, serverVars

LEMMA TypeStep == TypeInv /\ [Next]_vars => TypeInv'
<1> SUFFICES ASSUME TypeInv, [Next]_vars PROVE TypeInv'
  OBVIOUS
<1>1. ASSUME NEW a \in Addr, ClientStep(a) PROVE TypeInv'
  BY <1>1, ClientStepType DEF TypeInv, SessionInv, LoopInv, serverVars
<1>2. CASE LoopStep
  BY <1>2, ReceiveType, LoginType, TellType, DeleType, QuitType, DeleteType, SendReplyType
     DEF LoopStep
<1>3. ASSUME NEW m \in Msg, Deliver(m) PROVE TypeInv'
  BY <1>3, DeliverType
<1>4. CASE UNCHANGED vars
  BY <1>4 DEF vars, serverVars, mailVars, TypeInv, TypeOK, SessionInv, LoopInv
<1> QED
  BY <1>1, <1>2, <1>3, <1>4 DEF Next

\* Every variable of the POP3 server and its clients has its type: the loop owes a reply
\* whenever it is about to send one, and an answer that a client misreads leaves the client
\* in one of its states.
THEOREM Pop3TypeCorrect == Spec => []TypeOK
<1> QED
  BY TypeInit, TypeStep, PTL DEF Spec, TypeInv

-----------------------------------------------------------------------------
(* Only what was marked is deleted                                         *)

LEMMA MarkInit == Init => MarkInv /\ DoomInv
<1> SUFFICES ASSUME Init PROVE MarkInv /\ DoomInv
  OBVIOUS
<1>1. loop.at = "receive" /\ \A a \in Addr : sessions[a] = NoSession
  BY SomeTypes DEF Init
<1> QED
  BY <1>1 DEF MarkInv, DoomInv, NoSession

\* Steps that touch neither mailboxes nor marks, with no deletion under way.
LEMMA MarkFrame ==
  ASSUME IInv, UNCHANGED <<sessions, box, deled, stale>>,
         loop.at # "delete", loop'.at # "delete"
  PROVE  MarkInv' /\ DoomInv'
BY DEF IInv, MarkInv, DoomInv, Deletes

LEMMA QuietSteps ==
  ASSUME IInv, \/ \E a \in Addr : Reject(a)
               \/ _cmd_STAT \/ _cmd_LIST \/ _cmd_RETR \/ _handle_command \/ SendReply
  PROVE  MarkInv' /\ DoomInv'
<1>1. UNCHANGED <<sessions, box, deled, stale>> /\ loop.at # "delete"
  BY DEF Reject, _cmd_STAT, _cmd_LIST, _cmd_RETR, _handle_command, SendReply, Handles,
         HandlerOnly, serverVars, mailVars
<1>2. loop'.at # "delete"
  <2>1. loop \in LoopType
    BY DEF IInv, TypeInv, TypeOK
  <2>2. CASE \E replies : Answer(replies)
    BY <2>1, <2>2 DEF Answer, LoopType
  <2>3. CASE Raise
    BY <2>1, <2>3 DEF Raise, LoopType
  <2>4. CASE loop' = Receiving \/ loop' = loop
    BY <1>1, <2>4, SomeTypes
  <2>5. CASE \E bit, late : Sent(bit, late) /\ SendReply
    <3>1. loop.at \in {"greet", "send"}
      BY <2>5 DEF SendReply
    <3>2. PICK bit, late : Sent(bit, late)
      BY <2>5
    <3>3. \/ loop' = [[loop EXCEPT !.at = "handle", !.out = <<>>] EXCEPT !.stalled = late]
          \/ loop' = [Receiving EXCEPT !.stalled = late]
          \/ loop' = [loop EXCEPT !.out = Tail(@), !.stalled = late]
      BY <3>2 DEF Sent, Finish
    <3> QED
      BY <2>1, <3>1, <3>3, SomeTypes DEF LoopType
  <2>6. SendReply => Raise \/ \E bit, late : Sent(bit, late)
    BY DEF SendReply
  <2> QED
    BY <2>2, <2>3, <2>4, <2>5, <2>6
       DEF Reject, _cmd_STAT, _cmd_LIST, _cmd_RETR, _handle_command
<1> QED
  BY <1>1, <1>2, MarkFrame

LEMMA ReceiveKeepsMarks ==
  ASSUME IInv, NEW a \in Addr, Receive(a)
  PROVE  MarkInv' /\ DoomInv'
<1>1. loop.at = "receive" /\ UNCHANGED mailVars
  BY DEF Receive
<1>2. loop'.at # "delete"
  BY SomeTypes DEF Receive, LoopType
<1>3. \A b \in Addr : sessions'[b] = sessions[b] \/ sessions'[b] = _create_session
  BY DEF Receive, IInv, TypeInv, TypeOK
<1> QED
  BY <1>1, <1>2, <1>3 DEF IInv, MarkInv, DoomInv, Deletes, mailVars, _create_session

LEMMA LoginKeepsMarks ==
  ASSUME IInv, TypeInv', _cmd_USER \/ _cmd_PASS
  PROVE  MarkInv' /\ DoomInv'
<1>1. loop.at = "handle" /\ UNCHANGED <<box, deled, stale>>
  BY DEF _cmd_USER, _cmd_PASS, Handles, HandlerOnly
<1>2. loop'.at # "delete"
  BY DEF _cmd_USER, _cmd_PASS, Answer, IInv, TypeInv, TypeOK, LoopType
<1>3. loop.addr \in Addr /\ (Session.state = "AUTHORIZATION" => Session.marked = {})
  BY <1>1, LoopClient DEF IInv, TypeInv, SessionInv, Session
<1>4. \A b \in Addr : sessions'[b] = sessions[b] \/ sessions'[b].marked = {}
  <2>1. ASSUME NEW s, SetSession(s), s.marked = {}
        PROVE  \A b \in Addr : sessions'[b] = sessions[b] \/ sessions'[b].marked = {}
    BY <1>3, <2>1 DEF SetSession, IInv, TypeInv, TypeOK
  <2>2. \/ UNCHANGED sessions
        \/ /\ Session.state = "AUTHORIZATION"
           /\ \/ SetSession([Session EXCEPT !.user = loop.cmd.name])
              \/ SetSession([Session EXCEPT !.state = "TRANSACTION"])
              \/ SetSession([Session EXCEPT !.user = None])
    BY DEF _cmd_USER, _cmd_PASS
  <2>3. Session.state = "AUTHORIZATION" =>
          /\ [Session EXCEPT !.user = loop.cmd.name].marked = {}
          /\ [Session EXCEPT !.state = "TRANSACTION"].marked = {}
          /\ [Session EXCEPT !.user = None].marked = {}
    BY <1>1, <1>3, LoopClient DEF SessionType, IInv
  <2> QED
    BY <2>1, <2>2, <2>3
<1> QED
  BY <1>1, <1>2, <1>4 DEF IInv, MarkInv, DoomInv, Deletes

LEMMA DeleKeepsMarks ==
  ASSUME IInv, TypeInv', _cmd_DELE
  PROVE  MarkInv' /\ DoomInv'
<1>1. loop.at = "handle" /\ UNCHANGED <<box, stale>> /\ loop.addr \in Addr
  BY LoopClient DEF _cmd_DELE, Handles, HandlerOnly, IInv
<1>2. loop'.at # "delete"
  BY DEF _cmd_DELE, Answer, IInv, TypeInv, TypeOK, LoopType
<1>3. CASE UNCHANGED <<sessions, deled>>
  BY <1>1, <1>2, <1>3, MarkFrame
<1>4. CASE /\ Open /\ loop.cmd.num \in Unmarked
           /\ SetSession([Session EXCEPT !.marked = @ \union {loop.cmd.num}])
           /\ deled' = [deled EXCEPT ![loop.addr] = @ \union {Messages[loop.cmd.num]}]
  <2> DEFINE a == loop.addr
             i == loop.cmd.num
  <2>1. /\ i \in DOMAIN Messages
        /\ sessions' = [sessions EXCEPT ![a] = [Session EXCEPT !.marked = @ \union {i}]]
        /\ deled' = [deled EXCEPT ![a] = @ \union {Messages[i]}]
    BY <1>4 DEF SetSession, Unmarked
  <2>2. /\ sessions'[a].user = Session.user /\ sessions'[a].state = "TRANSACTION"
        /\ sessions'[a].marked = sessions[a].marked \union {i}
        /\ deled'[a] = deled[a] \union {Messages[i]}
    BY <1>1, <1>4, <2>1 DEF IInv, TypeInv, TypeOK, SessionType, Session, Open
  <2>3. \A b \in Addr \ {a} : sessions'[b] = sessions[b] /\ deled'[b] = deled[b]
    BY <2>1 DEF IInv, TypeInv, TypeOK
  <2>4. a \notin stale => \A j \in sessions[a].marked : /\ j \in DOMAIN box[sessions[a].user]
                                                     /\ box[sessions[a].user][j] \in deled[a]
    BY <1>1, <1>4 DEF IInv, MarkInv, Deletes, Open, Session
  <2> QED
    BY <1>1, <1>2, <2>1, <2>2, <2>3, <2>4, SMTT(30)
       DEF IInv, MarkInv, DoomInv, Deletes, Messages, Session
<1> QED
  BY <1>3, <1>4 DEF _cmd_DELE

LEMMA QuitLooksUp ==
  ASSUME IInv, TypeInv', _cmd_QUIT
  PROVE  MarkInv' /\ DoomInv'
<1>1. /\ loop.at = "handle" /\ loop.cmd.verb = "QUIT" /\ loop.addr \in Addr
      /\ UNCHANGED <<sessions, box, deled, stale>>
  BY LoopClient DEF _cmd_QUIT, Handles, HandlerOnly, IInv
<1>2. CASE Raise
  <2>1. loop'.at # "delete"
    BY <1>2 DEF Raise, IInv, TypeInv, TypeOK, LoopType
  <2> QED
    BY <1>1, <2>1, MarkFrame
<1>3. CASE ~Raise
  <2> DEFINE doomed == IF Open THEN {Messages[i] : i \in Session.marked} ELSE {}
  <2>1. loop' = [loop EXCEPT !.at = "delete", !.doomed = doomed]
    BY <1>3 DEF _cmd_QUIT
  <2>2. Open /\ loop.addr \notin stale => doomed \subseteq deled[loop.addr]
    BY <1>1 DEF IInv, MarkInv, Deletes, Open, Messages, Session
  <2>3. doomed # {} => Open
    OBVIOUS
  <2> HIDE DEF doomed
  <2>4. /\ loop'.at = "delete" /\ loop'.addr = loop.addr /\ loop'.cmd = loop.cmd
        /\ loop'.doomed = doomed
    BY <2>1 DEF IInv, TypeInv, TypeOK, LoopType
  <2>5. MarkInv'
    BY <1>1, <2>4 DEF IInv, MarkInv, Deletes
  <2>6. loop.addr \notin stale => doomed \subseteq deled[loop.addr]
    BY <2>2, <2>3
  <2> QED
    BY <1>1, <2>3, <2>4, <2>5, <2>6 DEF DoomInv, Open, Session
<1> QED
  BY <1>2, <1>3

\* The deletion of one message moves the numbers of its mailbox, in sessions that are stale
\* from then on.
LEMMA DeleteKeepsMarks ==
  ASSUME IInv, TypeInv', delete_email
  PROVE  MarkInv' /\ DoomInv'
<1>1. PICK i \in DOMAIN Messages :
        /\ Messages[i] \in loop.doomed
        /\ loop' = [loop EXCEPT !.doomed = @ \ {Messages[i]}]
        /\ \/ /\ box' = [box EXCEPT ![Session.user] = RemoveAt(@, i)]
              /\ stale' = stale \union Shifted(loop.addr, Session.user)
           \/ UNCHANGED <<box, stale>>
  BY DEF delete_email
<1>2. loop.at = "delete" /\ UNCHANGED <<sessions, deled>>
  BY DEF delete_email, serverVars
<1>3. /\ loop'.at = "delete" /\ loop'.addr = loop.addr /\ loop'.cmd = loop.cmd
      /\ loop'.doomed \subseteq loop.doomed
  BY <1>1, <1>2 DEF IInv, TypeInv, TypeOK, LoopType
<1>4. stale \subseteq stale' /\ loop.addr \in Addr
  BY <1>1, <1>2, LoopClient DEF IInv
<1>5. DoomInv'
  BY <1>2, <1>3, <1>4 DEF IInv, DoomInv
<1>6. ASSUME NEW b \in Addr, b \notin stale', sessions[b].state = "TRANSACTION",
             b # loop.addr
      PROVE  box'[sessions[b].user] = box[sessions[b].user]
  <2>1. CASE UNCHANGED box
    BY <2>1
  <2>2. CASE box' = [box EXCEPT ![Session.user] = RemoveAt(@, i)]
             /\ stale' = stale \union Shifted(loop.addr, Session.user)
    <3>1. sessions[b].user # Session.user
      BY <1>6, <2>2 DEF Shifted
    <3>2. sessions[b].user \in User
      BY <1>6 DEF IInv, TypeInv, TypeOK, SessionInv, SessionType
    <3> QED
      BY <2>2, <3>1, <3>2 DEF IInv, TypeInv, TypeOK
  <2> QED
    BY <1>1, <2>1, <2>2
<1>7. MarkInv'
  BY <1>2, <1>3, <1>4, <1>6 DEF IInv, MarkInv, Deletes
<1> QED
  BY <1>5, <1>7

LEMMA SignOffKeepsMarks ==
  ASSUME IInv, SignOff
  PROVE  MarkInv' /\ DoomInv'
<1>1. /\ loop.at = "delete" /\ stale' = stale \union {loop.addr}
      /\ UNCHANGED <<sessions, box, deled>>
  BY DEF SignOff, HandlerOnly
<1>2. loop'.at # "delete"
  BY DEF SignOff, Answer, IInv, TypeInv, TypeOK, LoopType
<1> QED
  BY <1>1, <1>2 DEF IInv, MarkInv, DoomInv, Deletes

LEMMA DeliverKeepsMarks ==
  ASSUME IInv, NEW m \in Msg, Deliver(m)
  PROVE  MarkInv' /\ DoomInv'
<1>1. /\ UNCHANGED <<sessions, loop, deled, stale>>
      /\ box' = [box EXCEPT ![Owner[m]] = Append(@, m)]
  BY DEF Deliver, serverVars
<1>2. ASSUME NEW u \in User, NEW i \in DOMAIN box[u]
      PROVE  i \in DOMAIN box'[u] /\ box'[u][i] = box[u][i]
  <2>1. box[u] \in Seq(Msg) /\ Owner[m] \in User
    BY Pop3Assumption DEF IInv, TypeInv, TypeOK
  <2>2. box'[u] = box[u] \/ box'[u] = Append(box[u], m)
    BY <1>1 DEF IInv, TypeInv, TypeOK
  <2> QED
    BY <2>1, <2>2
<1>3. \A a \in Addr : sessions[a].state = "TRANSACTION" => sessions[a].user \in User
  BY DEF IInv, TypeInv, TypeOK, SessionInv, SessionType
<1> QED
  BY <1>1, <1>2, <1>3 DEF IInv, MarkInv, DoomInv, Deletes

LEMMA MarkStep == IInv /\ [Next]_vars => IInv'
<1> SUFFICES ASSUME IInv, [Next]_vars PROVE IInv'
  OBVIOUS
<1>1. TypeInv'
  BY TypeStep DEF IInv
<1>2. ASSUME NEW a \in Addr, ClientStep(a) PROVE MarkInv' /\ DoomInv'
  BY <1>2, ClientStepType
     DEF IInv, TypeInv, MarkInv, DoomInv, Deletes, serverVars, mailVars
<1>3. ASSUME LoopStep PROVE MarkInv' /\ DoomInv'
  BY <1>1, <1>3, QuietSteps, ReceiveKeepsMarks, LoginKeepsMarks, DeleKeepsMarks, QuitLooksUp,
     DeleteKeepsMarks, SignOffKeepsMarks DEF LoopStep
<1>4. ASSUME UNCHANGED vars PROVE MarkInv' /\ DoomInv'
  BY <1>4 DEF vars, serverVars, mailVars, IInv, MarkInv, DoomInv, Deletes
<1>5. ASSUME NEW m \in Msg, Deliver(m) PROVE MarkInv' /\ DoomInv'
  BY <1>5, DeliverKeepsMarks
<1>6. MarkInv' /\ DoomInv'
  BY <1>2, <1>3, <1>4, <1>5 DEF Next
<1> QED
  BY <1>1, <1>6 DEF IInv

\* A step that takes m out of the mailbox of u.
Disappears(u, m) == Contains(box[u], m) /\ ~Contains(box'[u], m)

LEMMA DisappearsWhere ==
  ASSUME IInv, [Next]_vars, NEW u \in User, NEW m \in Msg, Disappears(u, m)
  PROVE  delete_email /\ u = Session.user /\ m \in loop.doomed
<1>1. box[u] \in Seq(Msg) /\ box' # box
  BY DEF IInv, TypeInv, TypeOK, Disappears
<1>2. ASSUME NEW n \in Msg, Deliver(n) PROVE FALSE
  <2>1. box'[u] = box[u] \/ box'[u] = Append(box[u], n)
    BY <1>2 DEF Deliver, IInv, TypeInv, TypeOK
  <2>2. PICK k \in 1 .. Len(box[u]) : box[u][k] = m
    BY DEF Disappears, Contains
  <2>3. k \in 1 .. Len(box'[u]) /\ box'[u][k] = m
    BY <1>1, <2>1, <2>2
  <2> QED
    BY <2>3 DEF Disappears, Contains
<1>3. ASSUME NEW a \in Addr, ClientStep(a) PROVE FALSE
  BY <1>1, <1>3, ClientStepType DEF IInv, TypeInv, mailVars
<1>4. CASE LoopStep
  <2>1. delete_email
    BY <1>1, <1>4
       DEF LoopStep, Reject, Receive, _cmd_USER, _cmd_PASS, _cmd_STAT, _cmd_LIST, _cmd_RETR,
           _cmd_DELE, _cmd_QUIT, SignOff, _handle_command, SendReply, HandlerOnly, mailVars
  <2>2. PICK i \in DOMAIN Messages : /\ Messages[i] \in loop.doomed
                                     /\ box' = [box EXCEPT ![Session.user] = RemoveAt(@, i)]
    BY <1>1, <2>1 DEF delete_email
  <2>3. u = Session.user /\ box'[u] = RemoveAt(box[u], i)
    BY <2>2 DEF IInv, TypeInv, TypeOK, Disappears
  <2>4. i \in 1 .. Len(box[u])
    BY <1>1, <2>2, <2>3 DEF Messages
  <2>5. m = box[u][i]
    BY <1>1, <2>3, <2>4, RemoveAtKeepsOthers DEF Disappears
  <2> QED
    BY <2>1, <2>2, <2>3, <2>5 DEF Messages
<1> QED
  BY <1>1, <1>2, <1>3, <1>4 DEF Next, vars, mailVars

\* QUIT deletes by number, in a mailbox that others fill and empty: what disappears is a
\* message its session marked, unless another session had shifted the numbers, and always
\* one of the user it logged in as.
THEOREM DeletesOnlyMarked == Spec => OnlyMarkedDeleted
<1>1. ASSUME IInv, [Next]_vars
      PROVE  [\A u \in User, m \in Msg :
                Contains(box[u], m) /\ ~Contains(box'[u], m) =>
                  LET a == loop.addr IN
                  /\ loop.cmd.verb = "QUIT"
                  /\ sessions[a].state = "TRANSACTION" /\ sessions[a].user = u
                  /\ a \notin stale => m \in deled[a]]_vars
  <2>1. ASSUME NEW u \in User, NEW m \in Msg, Disappears(u, m)
        PROVE  /\ loop.cmd.verb = "QUIT"
               /\ sessions[loop.addr].state = "TRANSACTION" /\ sessions[loop.addr].user = u
               /\ loop.addr \notin stale => m \in deled[loop.addr]
    <3>1. loop.at = "delete" /\ u = Session.user /\ m \in loop.doomed
      BY <1>1, <2>1, DisappearsWhere DEF delete_email
    <3> QED
      BY <1>1, <3>1 DEF IInv, DoomInv, Session
  <2> QED
    BY <2>1 DEF Disappears
<1>2. Init => IInv
  BY TypeInit, MarkInit DEF IInv
<1> QED
  BY <1>1, <1>2, MarkStep, PTL DEF Spec, OnlyMarkedDeleted
=============================================================================
