----------------------------- MODULE Pop3Server -----------------------------
(***************************************************************************)
(* src/pop3/pop3_server.py: one serve loop that takes a packet, handles its *)
(* command and sends every reply itself, and the clients that talk to it    *)
(* (src/pop3/pop3_client.py), while mail keeps arriving.                    *)
(*                                                                         *)
(* A packet waits in the server's RDT layer until the loop takes it, which  *)
(* is what acknowledges it; a packet with the wrong bit is acknowledged and *)
(* dropped.  A reply is one step: a client acknowledges it in _get_reply(). *)
(* A mailbox is the sequence that list_messages() returns (module Mailbox), *)
(* which is empty instead when it cannot read metadata.json (Unlisted).     *)
(***************************************************************************)
EXTENDS Naturals, FiniteSets, SequencesExt

CONSTANTS
  Addr,        \* the addresses of the clients
  User, Msg,
  Secret,      \* the password that every user has
  Plan,        \* what the clients may do, see NewClient
  None,        \* no user, message or address
  MaxLosses,   \* how often a packet, its ACK or all copies of a reply are lost, per client
  MaxRetries,  \* the attempts of the client's send()
  Owner,       \* the recipient of each message
  Stored,      \* what each mailbox holds when the server starts
  Large,       \* the messages that do not fit into a packet of RDT_RECV_BUFSIZE
  NotAscii,    \* the messages with a character that is not ASCII
  MayFail      \* the calls of the storage that may fail: "list", "read", "delete"

Verb == {"connect", "USER", "PASS", "STAT", "LIST", "RETR", "DELE", "QUIT", "BAD"}

\* A call of the client and the command it sends: a user name or password, a number.
Command == [verb : Verb, name : User \union {Secret, None}, num : Nat]

ASSUME Pop3Assumption ==
  /\ \A p \in Plan, a \in Addr :
       p[a] \in [calls : Seq(Command), all : BOOLEAN, faults : SUBSET {"loss", "death"}]
  /\ None \notin User \union Msg \union Addr \union {0, 1} /\ Secret \notin User
  /\ MaxLosses \in Nat /\ MaxRetries \in Nat \ {0}
  /\ Owner \in [Msg -> User] /\ Stored \in [User -> Seq(Msg)]
  /\ Large \union NotAscii \subseteq Msg
  /\ MayFail \subseteq {"list", "read", "delete"}

VARIABLES
  client,      \* each client: its calls, its RDT state, what it has read
  inbound,     \* the packets of each client that wait in the server's RDT layer
  expected,    \* expected_seqs of the server's receiver
  senders,     \* _senders: the bit of each client's sender
  sessions,
  loop,        \* where the serve loop is: its packet, the replies and deletions it owes
  losses,      \* what is left of MaxLosses to each client
  box,         \* what list_messages() shows of each mailbox
  arrived,     \* history: the messages that were ever delivered
  deled,       \* history: the messages each session marked, as they were named then
  stale        \* history: the sessions whose numbers no longer name what they did

serverVars == <<expected, senders, sessions>>
mailVars == <<box, arrived, deled, stale>>
vars == <<client, inbound, losses, serverVars, loop, mailVars>>

Quit == [verb |-> "QUIT", name |-> None, num |-> 0]
Retr(i) == [verb |-> "RETR", name |-> None, num |-> i]
Dele(i) == [verb |-> "DELE", name |-> None, num |-> i]

\* calls: what it will call; those of get_all_messages(), where all is set, depend on the
\* answers.  faults: its packets may be lost in both directions, or it may vanish.
\* stage: "closed" without a socket, "idle" between two calls, "sending" in send(), then
\* "status" until the first line of the reply and "lines" until its last.  got: what was
\* read of a message, None for a line that is none.  fate: what get_all_messages() is
\* going to return.
NewClient == [stage |-> "closed", call |-> Quit, calls |-> <<>>, all |-> FALSE,
              faults |-> {}, bit |-> 0, tries |-> 0, expects |-> 0, inbox |-> <<>>,
              listing |-> <<>>, got |-> <<>>, emails |-> <<>>, fate |-> "emails"]

NoSession == [state |-> "NONE", user |-> None, marked |-> {}]

_create_session == [state |-> "AUTHORIZATION", user |-> None, marked |-> {}]

Receiving == [at |-> "receive", addr |-> None, cmd |-> Quit, out |-> <<>>, doomed |-> {},
              stalled |-> FALSE]

Init ==
  /\ \E p \in Plan :
       /\ client = [a \in Addr |-> [NewClient EXCEPT !.calls = p[a].calls, !.all = p[a].all,
                                                    !.faults = p[a].faults]]
       /\ losses = [a \in Addr |-> IF "loss" \in p[a].faults THEN MaxLosses ELSE 0]
  /\ inbound = [a \in Addr |-> <<>>]
  /\ expected = [a \in Addr |-> 0]
  /\ senders = [a \in Addr |-> None]
  /\ sessions = [a \in Addr |-> NoSession]
  /\ loop = Receiving
  /\ box = Stored
  /\ arrived = UNION {ToSet(Stored[u]) : u \in User}
  /\ deled = [a \in Addr |-> {}]
  /\ stale = {}

-----------------------------------------------------------------------------
(* The clients.                                                             *)

Waits(a) == client[a].stage \in {"status", "lines"}

Lose(a) == losses[a] > 0 /\ losses' = [losses EXCEPT ![a] = @ - 1]

\* One attempt of send() for client c at a: the packet waits at the server, or is lost.
Transmit(a, c) ==
  /\ client' = [client EXCEPT ![a] = [c EXCEPT !.tries = @ + 1]]
  /\ \/ /\ inbound' = [inbound EXCEPT ![a] = Append(@, [cmd |-> c.call, bit |-> c.bit])]
        /\ UNCHANGED losses
     \/ Lose(a) /\ UNCHANGED inbound
  /\ UNCHANGED <<serverVars, loop, mailVars>>

\* The next call of a client: connect() is a new POP3Client with an empty packet, quit()
\* and the others are one command.
Call(a) ==
  LET c == client[a]
      next == [c EXCEPT !.stage = "sending", !.call = Head(c.calls), !.calls = Tail(@),
                        !.tries = 0] IN
  /\ c.calls # <<>>
  /\ c.stage = IF Head(c.calls).verb = "connect" THEN "closed" ELSE "idle"
  /\ Transmit(a, IF next.call.verb = "connect"
                 THEN [next EXCEPT !.bit = 0, !.expects = 0, !.inbox = <<>>] ELSE next)

\* No ACK in time: the packet or its ACK is lost, or the loop is over or waited as long as
\* a send lasts for a client that did not answer.
Unheard(a) ==
  /\ client[a].stage = "sending"
  /\ inbound[a] = <<>> \/ loop.stalled \/ loop.at = "over"

Retransmit(a) == Unheard(a) /\ client[a].tries < MaxRetries /\ Transmit(a, client[a])

\* The POP3Client is gone; these calls remain, and what get_all_messages() has read.
Closed(c, calls) == [NewClient EXCEPT !.calls = calls, !.all = c.all, !.faults = c.faults,
                            !.fate = c.fate, !.listing = c.listing, !.emails = c.emails]

\* An exception in a call, after which the client calls quit(), which does nothing when
\* connect() failed, and get_all_messages() returns nothing.
Failed(c) ==
  IF c.call.verb \in {"connect", "QUIT"} THEN Closed([c EXCEPT !.fate = "nothing"], <<>>)
  ELSE [c EXCEPT !.stage = "idle", !.calls = <<Quit>>, !.got = <<>>, !.tries = 0,
                 !.fate = "nothing"]

\* A reply that refuses the command: another caller goes on.
Refused(c) ==
  [Failed(c) EXCEPT !.calls = IF c.all \/ c.call.verb = "connect" THEN @ ELSE c.calls]

\* Mutant: a message is marked before it is read.
FetchMarkedFirst(listing) ==
  [k \in 1 .. 2 * Len(listing) |-> LET i == listing[(k + 1) \div 2].num IN
                                   IF k % 2 = 1 THEN Dele(i) ELSE Retr(i)] \o <<Quit>>

\* What get_all_messages() does behind LIST: retr and dele of every line, and quit.
Fetch(listing) ==
  [k \in 1 .. 2 * Len(listing) |-> LET i == listing[(k + 1) \div 2].num IN
                                   IF k % 2 = 1 THEN Retr(i) ELSE Dele(i)] \o <<Quit>>

\* Mutant: retr() goes on with the lines of the message before.
ReturnedWithOldLines(c, count) ==
  LET done == [c EXCEPT !.stage = "idle"] IN
  CASE c.call.verb = "QUIT" -> Closed(c, c.calls)
    [] c.call.verb = "STAT" /\ c.all /\ count = 0 -> [done EXCEPT !.calls = <<Quit>>]
    [] c.call.verb = "LIST" /\ c.all -> [done EXCEPT !.calls = Fetch(c.listing)]
    [] c.call.verb = "RETR" -> [done EXCEPT !.emails = Append(@, c.got)]
    [] OTHER -> done

\* A call that returned; count is what STAT reported.
Returned(c, count) ==
  LET done == [c EXCEPT !.stage = "idle"] IN
  CASE c.call.verb = "QUIT" -> Closed(c, c.calls)
    [] c.call.verb = "STAT" /\ c.all /\ count = 0 -> [done EXCEPT !.calls = <<Quit>>]
    [] c.call.verb = "LIST" /\ c.all -> [done EXCEPT !.calls = Fetch(c.listing)]
    [] c.call.verb = "RETR" -> [done EXCEPT !.got = <<>>, !.emails = Append(@, c.got)]
    [] OTHER -> done

\* The first line of a reply; quit() takes any, STAT only one with two numbers.
Status(c, r) ==
  IF c.call.verb = "QUIT" THEN Returned(c, 0)
  ELSE IF r.kind \notin {"ok", "numbers"} \/ (c.call.verb = "STAT" /\ r.kind = "ok")
  THEN Refused(c)
  ELSE IF c.call.verb = "RETR" \/ (c.call.verb = "LIST" /\ c.call.num = 0)
  THEN [c EXCEPT !.stage = "lines"]
  ELSE Returned(c, r.num)

\* The lines behind it, up to ".": numbers for LIST, anything for RETR.
Line(c, r) ==
  CASE r.kind = "end" -> Returned(c, 0)
    [] r.kind # "end" /\ c.call.verb = "RETR" -> [c EXCEPT !.got = Append(@, r.msg)]
    [] r.kind = "line" /\ c.call.verb = "LIST" ->
         [c EXCEPT !.listing = Append(@, [num |-> r.num, msg |-> r.msg])]
    [] OTHER -> Failed(c)

\* The receiver yields r to the client that waits, or drops it.
Read(c, r) ==
  LET read == [c EXCEPT !.expects = 1 - @] IN
  CASE r.bit # c.expects -> c
    [] r.bit = c.expects /\ c.stage = "status" -> Status(read, r)
    [] r.bit = c.expects /\ c.stage = "lines" -> Line(read, r)

\* A packet that came while the client did not wait, and that the server gave up.
_get_reply(a) ==
  /\ Waits(a) /\ client[a].inbox # <<>>
  /\ LET c == client[a] IN
     client' = [client EXCEPT ![a] = Read([c EXCEPT !.inbox = Tail(@)], Head(c.inbox))]
  /\ UNCHANGED <<inbound, losses, serverVars, loop, mailVars>>

\* send() gives up on the packet, which may wait at the server all the same; its bit stays.
ClientGivesUp(a) ==
  /\ Unheard(a) /\ client[a].tries = MaxRetries
  /\ client' = [client EXCEPT ![a] = Failed(@)]
  /\ UNCHANGED <<inbound, losses, serverVars, loop, mailVars>>

\* The client's process ends.
Vanish(a) ==
  /\ "death" \in client[a].faults /\ client[a].stage # "closed"
  /\ client' = [client EXCEPT ![a] = Closed(@, <<>>)]
  /\ UNCHANGED <<inbound, losses, serverVars, loop, mailVars>>

ClientStep(a) == Call(a) \/ Retransmit(a) \/ _get_reply(a) \/ ClientGivesUp(a) \/ Vanish(a)

-----------------------------------------------------------------------------
(* The serve loop.                                                          *)

\* The first packet of a leaves the queue and its ACK reaches the client's send().
Acknowledge(a) ==
  LET heard == client[a].stage = "sending" /\ client[a].bit = Head(inbound[a]).bit IN
  /\ inbound' = [inbound EXCEPT ![a] = Tail(@)]
  /\ \/ /\ client' = IF heard THEN [client EXCEPT ![a].stage = "status", ![a].tries = 0,
                                                ![a].bit = 1 - @]
                      ELSE client
        /\ UNCHANGED losses
     \/ heard /\ Lose(a) /\ UNCHANGED client

\* The receiver has seen the packet's bit already: acknowledge and drop.
Reject(a) ==
  /\ loop.at = "receive"
  /\ inbound[a] # <<>> /\ Head(inbound[a]).bit # expected[a]
  /\ Acknowledge(a)
  /\ UNCHANGED <<serverVars, loop, mailVars>>

Reply(kind) == [kind |-> kind, num |-> 0, msg |-> None, bit |-> 0]

\* A packet is taken.  A client without a session gets one and is greeted first.
Receive(a) ==
  /\ loop.at = "receive"
  /\ inbound[a] # <<>> /\ Head(inbound[a]).bit = expected[a]
  /\ Acknowledge(a)
  /\ expected' = [expected EXCEPT ![a] = 1 - @]
  /\ LET taken == [Receiving EXCEPT !.addr = a, !.cmd = Head(inbound[a]).cmd] IN
     IF sessions[a] = NoSession
     THEN /\ loop' = [taken EXCEPT !.at = "greet", !.out = <<Reply("ok")>>]
          /\ sessions' = [sessions EXCEPT ![a] = _create_session]
     ELSE loop' = [taken EXCEPT !.at = "handle"] /\ UNCHANGED sessions
  /\ UNCHANGED <<senders, mailVars>>

Session == sessions[loop.addr]

Handles(verb) == loop.at = "handle" /\ loop.cmd.verb = verb

\* The handler answers with these replies.
Answer(replies) == loop' = [loop EXCEPT !.at = "send", !.out = replies]

\* An exception that nothing catches: the thread of the loop ends.
Raise == loop' = [loop EXCEPT !.at = "over"]

SetSession(s) == sessions' = [sessions EXCEPT ![loop.addr] = s]

HandlerOnly == UNCHANGED <<client, inbound, losses, expected, senders, box, arrived>>

_cmd_USER ==
  /\ Handles("USER")
  /\ IF Session.state = "AUTHORIZATION" /\ loop.cmd.name \in User
     THEN SetSession([Session EXCEPT !.user = loop.cmd.name]) /\ Answer(<<Reply("ok")>>)
     ELSE Answer(<<Reply("err")>>) /\ UNCHANGED sessions
  /\ HandlerOnly /\ UNCHANGED <<deled, stale>>

\* A wrong password takes the user back.
_cmd_PASS ==
  /\ Handles("PASS")
  /\ IF Session.state # "AUTHORIZATION" \/ Session.user = None \/ loop.cmd.name = None
     THEN Answer(<<Reply("err")>>) /\ UNCHANGED sessions
     ELSE IF loop.cmd.name = Secret
     THEN SetSession([Session EXCEPT !.state = "TRANSACTION"]) /\ Answer(<<Reply("ok")>>)
     ELSE SetSession([Session EXCEPT !.user = None]) /\ Answer(<<Reply("err")>>)
  /\ HandlerOnly /\ UNCHANGED <<deled, stale>>

\* list_messages() of the session's user, when it can read metadata.json, and the numbers
\* that the session did not mark.
Messages == box[Session.user]
Unmarked == DOMAIN Messages \ Session.marked
Open == Session.state = "TRANSACTION"

\* metadata.json cannot be read: list_messages() answers that there are no messages, so
\* each handler has a second outcome.
Unlisted == Open /\ "list" \in MayFail

_cmd_STAT ==
  /\ Handles("STAT")
  /\ \/ IF Open THEN Answer(<<[Reply("numbers") EXCEPT !.num = Cardinality(Unmarked)]>>)
                ELSE Answer(<<Reply("err")>>)
     \/ Unlisted /\ Answer(<<Reply("numbers")>>)
  /\ HandlerOnly /\ UNCHANGED <<sessions, deled, stale>>

\* The one enumeration of the numbers in S from the smallest on.
Ascending(S) == {s \in [1 .. Cardinality(S) -> S] :
                   \A j, k \in DOMAIN s : j < k => s[j] < s[k]}

ListLine(i) == [Reply("line") EXCEPT !.num = i, !.msg = Messages[i]]

\* Mutant: no "." behind an empty listing.
_cmd_LISTWithoutEnd ==
  /\ Handles("LIST")
  /\ IF Open /\ loop.cmd.num = 0
     THEN \E numbers \in Ascending(Unmarked) :
            Answer(<<Reply("ok")>> \o [k \in DOMAIN numbers |-> ListLine(numbers[k])])
     ELSE Answer(<<Reply(IF Open /\ loop.cmd.num \in Unmarked THEN "numbers" ELSE "err")>>)
  /\ HandlerOnly /\ UNCHANGED <<sessions, deled, stale>>

_cmd_LIST ==
  /\ Handles("LIST")
  /\ \/ IF Open /\ loop.cmd.num = 0
        THEN \E numbers \in Ascending(Unmarked) :
               Answer(<<Reply("ok")>> \o [k \in DOMAIN numbers |-> ListLine(numbers[k])]
                                      \o <<Reply("end")>>)
        ELSE Answer(<<Reply(IF Open /\ loop.cmd.num \in Unmarked THEN "numbers" ELSE "err")>>)
     \/ /\ Unlisted
        /\ Answer(IF loop.cmd.num = 0 THEN <<Reply("ok"), Reply("end")>> ELSE <<Reply("err")>>)
  /\ HandlerOnly /\ UNCHANGED <<sessions, deled, stale>>

\* Mutant: a message that cannot be read is encoded all the same.
_cmd_RETRUnchecked ==
  /\ Handles("RETR")
  /\ IF Open /\ loop.cmd.num \in Unmarked
     THEN LET m == Messages[loop.cmd.num] IN
          \/ /\ m \notin NotAscii
             /\ Answer(<<Reply("ok"), [Reply("content") EXCEPT !.msg = m], Reply("end")>>)
          \/ m \in NotAscii /\ Answer(<<Reply("ok"), Reply("err")>>)
          \/ "read" \in MayFail /\ Raise
     ELSE Answer(<<Reply("err")>>)
  /\ HandlerOnly /\ UNCHANGED <<sessions, deled, stale>>

\* The content is sent outside _send_reply(), and encoded behind the first reply.
_cmd_RETR ==
  /\ Handles("RETR")
  /\ IF Open /\ loop.cmd.num \in Unmarked
     THEN LET m == Messages[loop.cmd.num] IN
          \/ /\ m \notin NotAscii
             /\ Answer(<<Reply("ok"), [Reply("content") EXCEPT !.msg = m], Reply("end")>>)
          \/ m \in NotAscii /\ Answer(<<Reply("ok"), Reply("err")>>)
          \/ MayFail \intersect {"list", "read"} # {} /\ Answer(<<Reply("err")>>)
     ELSE Answer(<<Reply("err")>>)
  /\ HandlerOnly /\ UNCHANGED <<sessions, deled, stale>>

_cmd_DELE ==
  /\ Handles("DELE")
  /\ \/ /\ Open /\ loop.cmd.num \in Unmarked
        /\ SetSession([Session EXCEPT !.marked = @ \union {loop.cmd.num}])
        /\ deled' = [deled EXCEPT ![loop.addr] = @ \union {Messages[loop.cmd.num]}]
        /\ Answer(<<Reply("ok")>>)
     \/ /\ ~(Open /\ loop.cmd.num \in Unmarked) \/ Unlisted
        /\ Answer(<<Reply("err")>>) /\ UNCHANGED <<sessions, deled>>
  /\ HandlerOnly /\ UNCHANGED stale

\* User(None) raises, and so does a number behind the end of the listing, which is any
\* number when the listing came back empty.
_cmd_QUIT ==
  /\ Handles("QUIT")
  /\ \/ IF Session.user = None \/ (Open /\ ~(Session.marked \subseteq DOMAIN Messages))
        THEN Raise
        ELSE loop' = [loop EXCEPT !.at = "delete",
                       !.doomed = IF Open THEN {Messages[i] : i \in Session.marked} ELSE {}]
     \/ Unlisted /\ Session.marked # {} /\ Raise
  /\ HandlerOnly /\ UNCHANGED <<sessions, deled, stale>>

\* The sessions other than a that hold numbers of the mailbox of u.
Shifted(a, u) == {b \in Addr \ {a} : sessions[b].state = "TRANSACTION" /\ sessions[b].user = u}

\* The calls of delete_email() behind QUIT, the last message first; what they return is
\* not looked at.
delete_email ==
  /\ loop.at = "delete"
  /\ \E i \in DOMAIN Messages :
       /\ Messages[i] \in loop.doomed
       /\ \A j \in DOMAIN Messages : Messages[j] \in loop.doomed => j <= i
       /\ loop' = [loop EXCEPT !.doomed = @ \ {Messages[i]}]
       /\ \/ /\ box' = [box EXCEPT ![Session.user] = RemoveAt(@, i)]
             /\ stale' = stale \union Shifted(loop.addr, Session.user)
          \/ "delete" \in MayFail /\ UNCHANGED <<box, stale>>
  /\ UNCHANGED <<client, inbound, losses, serverVars, arrived, deled>>

\* The sign-off, behind which the numbers of the session are out of date.
SignOff ==
  /\ loop.at = "delete" /\ loop.doomed = {}
  /\ Answer(<<Reply("ok")>>)
  /\ stale' = stale \union {loop.addr}
  /\ HandlerOnly /\ UNCHANGED <<sessions, deled>>

\* A line that is empty has no answer; one without a handler is refused.
_handle_command ==
  /\ loop.at = "handle" /\ loop.cmd.verb \in {"connect", "BAD"}
  /\ IF loop.cmd.verb = "BAD" THEN Answer(<<Reply("err")>>) ELSE loop' = Receiving
  /\ HandlerOnly /\ UNCHANGED <<sessions, deled, stale>>

\* Mutant: the command behind a greeting is never looked at.
FinishAtGreeting(bit, late) ==
  LET quit == loop.at = "send" /\ loop.cmd.verb = "QUIT"
      done == IF loop.at = "greet" THEN [loop EXCEPT !.out = <<>>] ELSE Receiving IN
  /\ loop' = [done EXCEPT !.stalled = late]
  /\ senders' = [senders EXCEPT ![loop.addr] = IF quit THEN None ELSE bit]
  /\ expected' = IF quit THEN [expected EXCEPT ![loop.addr] = 0] ELSE expected

\* The last reply of a command was sent.  QUIT forgets sender and bit, not the session.
Finish(bit, late) ==
  LET quit == loop.at = "send" /\ loop.cmd.verb = "QUIT"
      done == IF loop.at = "greet" THEN [loop EXCEPT !.at = "handle", !.out = <<>>]
                                   ELSE Receiving IN
  /\ loop' = [done EXCEPT !.stalled = late]
  /\ senders' = [senders EXCEPT ![loop.addr] = IF quit THEN None ELSE bit]
  /\ expected' = IF quit THEN [expected EXCEPT ![loop.addr] = 0] ELSE expected

\* The reply was sent, or given up late; the next one has this bit.
Sent(bit, late) ==
  IF Len(loop.out) = 1 THEN Finish(bit, late)
  ELSE /\ loop' = [loop EXCEPT !.out = Tail(@), !.stalled = late]
       /\ senders' = [senders EXCEPT ![loop.addr] = bit]
       /\ UNCHANGED expected

\* A client that is between two calls reads on within the time a send lasts.
Silent(a) == ~Waits(a) /\ (client[a].stage # "idle" \/ client[a].calls = <<>>)

Fits(r) == r.kind = "content" => r.msg \notin Large

\* The next reply: it is read and acknowledged, or given up, in which case it may have
\* arrived.  Only content is not sent through _send_reply(), which swallows the error.
SendReply ==
  LET a == loop.addr
      bit == IF senders[a] = None THEN 0 ELSE senders[a]
      r == [Head(loop.out) EXCEPT !.bit = bit]
      ready == Waits(a) /\ client[a].inbox = <<>> /\ Fits(r)
      read == [client EXCEPT ![a] = Read(@, r)]
      arrives == IF Waits(a) THEN read ELSE [client EXCEPT ![a].inbox = Append(@, r)] IN
  /\ loop.at \in {"greet", "send"} /\ loop.out # <<>>
  /\ \/ /\ ready
        /\ client' = read
        /\ Sent(1 - bit, loop.stalled)
        /\ UNCHANGED losses
     \/ /\ \/ (Silent(a) \/ ~Fits(r)) /\ UNCHANGED losses
           \/ ready /\ Lose(a)
        /\ client' \in {client} \union
             (IF client[a].stage # "closed" /\ Fits(r) THEN {arrives} ELSE {})
        /\ IF r.kind = "content"
           THEN Raise /\ senders' = [senders EXCEPT ![a] = bit] /\ UNCHANGED expected
           ELSE Sent(bit, TRUE)
  /\ UNCHANGED <<inbound, sessions, mailVars>>

LoopStep ==
  \/ \E a \in Addr : Reject(a) \/ Receive(a)
  \/ _cmd_USER \/ _cmd_PASS \/ _cmd_STAT \/ _cmd_LIST \/ _cmd_RETR \/ _cmd_DELE
  \/ _cmd_QUIT \/ delete_email \/ SignOff \/ _handle_command \/ SendReply

\* Mutant: the newest message is listed first.
DeliverFirst(m) ==
  /\ m \notin arrived
  /\ arrived' = arrived \union {m}
  /\ box' = [box EXCEPT ![Owner[m]] = <<m>> \o @]
  /\ UNCHANGED <<client, inbound, losses, serverVars, loop, deled, stale>>

\* The SMTP server stores a message: it is listed last.
Deliver(m) ==
  /\ m \notin arrived
  /\ arrived' = arrived \union {m}
  /\ box' = [box EXCEPT ![Owner[m]] = Append(@, m)]
  /\ UNCHANGED <<client, inbound, losses, serverVars, loop, deled, stale>>

Next ==
  \/ \E a \in Addr : ClientStep(a)
  \/ LoopStep
  \/ \E m \in Msg : Deliver(m)

Spec == Init /\ [][Next]_vars

\* The threads run on, and send() has a limit for its attempts.
FairSpec ==
  /\ Spec
  /\ WF_vars(LoopStep)
  /\ \A a \in Addr : WF_vars(Call(a)) /\ WF_vars(_get_reply(a)) /\ WF_vars(ClientGivesUp(a))

-----------------------------------------------------------------------------
(* Properties.                                                              *)

NumberOf == [num : Nat, msg : Msg \union {None}]
ReplyType == [kind : {"ok", "numbers", "err", "line", "content", "end"}, num : Nat,
              msg : Msg \union {None}, bit : {0, 1}]

ClientType == [stage : {"closed", "idle", "sending", "status", "lines"},
               call : Command, calls : Seq(Command), all : BOOLEAN,
               faults : SUBSET {"loss", "death"}, bit : {0, 1}, tries : 0 .. MaxRetries,
               expects : {0, 1}, inbox : Seq(ReplyType), listing : Seq(NumberOf),
               got : Seq(Msg \union {None}), emails : Seq(Seq(Msg \union {None})),
               fate : {"emails", "nothing"}]

PacketType == [cmd : Command, bit : {0, 1}]
SessionType == [state : {"NONE", "AUTHORIZATION", "TRANSACTION"},
                user : User \union {None}, marked : SUBSET (Nat \ {0})]
LoopType == [at : {"receive", "greet", "handle", "send", "delete", "over"},
             addr : Addr \union {None}, cmd : Command, out : Seq(ReplyType),
             doomed : SUBSET Msg, stalled : BOOLEAN]

\* TypeOK: the shape of every variable, and the loop owes replies only while it greets or
\* answers, and deletions only between QUIT and its sign-off.
TypeOK ==
  /\ client \in [Addr -> ClientType]
  /\ inbound \in [Addr -> Seq(PacketType)]
  /\ expected \in [Addr -> {0, 1}]
  /\ senders \in [Addr -> {0, 1, None}]
  /\ sessions \in [Addr -> SessionType]
  /\ loop \in LoopType
  /\ loop.at \in {"greet", "send"} => loop.out # <<>>
  /\ losses \in [Addr -> Nat]
  /\ box \in [User -> Seq(Msg)] /\ arrived \subseteq Msg
  /\ deled \in [Addr -> SUBSET Msg] /\ stale \subseteq Addr

Sound(a) == client[a].all /\ client[a].faults = {}

\* A message disappears from a mailbox only behind QUIT in a session that logged in as its
\* owner, and, while no other session has shifted the numbers since, only if this session
\* marked that message: QUIT looks marked numbers up in a new listing, while mail arrives.
OnlyMarkedDeleted ==
  [][\A u \in User, m \in Msg :
       Contains(box[u], m) /\ ~Contains(box'[u], m) =>
         LET a == loop.addr IN
         /\ loop.cmd.verb = "QUIT"
         /\ sessions[a].state = "TRANSACTION" /\ sessions[a].user = u
         /\ a \notin stale => m \in deled[a]]_vars

\* Behind QUIT of a get_all_messages() on a link without losses nothing is deleted that it
\* has not read in full, whatever failed on the way: a delayed RETR, a DELE that is
\* answered late, or a storage that cannot read.
DeletedWasRetrieved ==
  [][\A u \in User, m \in Msg :
       LET a == loop.addr IN
       Contains(box[u], m) /\ ~Contains(box'[u], m) /\ Sound(a) /\ a \notin stale =>
         \E i \in DOMAIN client[a].emails : client[a].emails[i] = <<m>>]_vars

\* On such a link the i-th message read is the i-th message listed: replies that belong to
\* an earlier command are not taken for the content, and numbers do not move under LIST.
RetrievedIsListed ==
  \A a \in Addr \ stale :
    Sound(a) => /\ Len(client[a].emails) <= Len(client[a].listing)
                /\ \A i \in DOMAIN client[a].emails :
                     client[a].emails[i] = <<client[a].listing[i].msg>>

\* The QUIT of a finds every number that it marked in the mailbox, as it is now.
NumbersThere(a) ==
  /\ loop.cmd.verb = "QUIT" /\ sessions[a].user \in User
  /\ sessions[a].marked # {} /\ sessions[a].marked \subseteq DOMAIN box[sessions[a].user]

\* The serve loop, which everybody shares, outlives every command of a get_all_messages()
\* without a failure so far whose numbers are not shifted, unless it asks for a message
\* that is too large, or has marked messages and its QUIT gets no listing of a mailbox
\* that holds them all; that other clients fail at any point makes no difference.
LoopSurvives ==
  [][loop.at \in {"greet", "handle", "delete", "send"} /\ loop'.at = "over" =>
       LET a == loop.addr IN
       \/ ~Sound(a) \/ client[a].fate = "nothing" \/ a \in stale
       \/ loop.cmd.verb = "RETR" /\ box[sessions[a].user][loop.cmd.num] \in Large
       \/ "list" \in MayFail /\ NumbersThere(a)]_vars

\* A line of a message that is none: its encoding failed behind "+OK", and no "." follows.
Garbled(a) == Contains(client[a].got, None)

\* Every call of a get_all_messages() on a link without losses ends, unless the loop is
\* over or the message cannot be encoded: a loop that is busy with clients that do not
\* answer goes on with the others.
CallsEnd ==
  \A a \in Addr :
    Sound(a) /\ client[a].stage \notin {"closed", "idle"} ~>
      \/ client[a].stage \in {"closed", "idle"}
      \/ client[a].fate = "nothing" \/ loop.at = "over" \/ Garbled(a)

\* Claimed at pop3_server.py:135, "Reset user on failure to force re-auth": a session that
\* has no user may log in again, so none of its commands ends the loop.
RefusedMayReturn ==
  [][loop.at = "handle" /\ sessions[loop.addr].user = None => loop'.at # "over"]_vars
=============================================================================
