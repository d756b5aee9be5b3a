----------------------------- MODULE SmtpServer -----------------------------
(***************************************************************************)
(* src/smtp/smtp_server.py: one serve loop that takes packets from the RDT   *)
(* receiver, a pool of workers that handle them on session objects nobody   *)
(* locks, the reaper, and the clients (src/smtp/smtp_client.py).            *)
(*                                                                         *)
(* The RDT layer is reduced to what a session can tell of it: a send is one *)
(* step, each end of a link has its bit, and a packet with the wrong bit is *)
(* acknowledged and dropped (module Rdt).  The mailbox is a place where a   *)
(* message is stored or not (module Mailbox).  No line of a message begins  *)
(* with the name of a command.                                              *)
(***************************************************************************)
EXTENDS Naturals, SequencesExt

CONSTANTS
  Addr,         \* the addresses of the clients
  Worker,       \* the threads of the pool: 10 in the code
  User,         \* the recipients the user manager knows
  Script,       \* what the clients may say: the commands of each, in order
  Nobody,       \* the recipient of a command that names none
  NoPacket, NoSender,
  MaxChunks,    \* bound: the packets a message is cut into
  MaxLines,     \* bound: the lines of a packet that a session reads as commands
  Lossy,        \* the clients whose sends, or the sends to whom, may give up
  MayReap,      \* the clients that may be silent for longer than SESSION_TIMEOUT
  Prompt        \* the clients that may reconnect before the server forgot them

Verb == {"NOOP", "HELO", "MAIL", "RCPT", "DATA", "RSET", "QUIT", "BAD"}

Command == [verb : Verb, rcpt : STRING]

\* One packet: command number n of its client, or part `part` of the message that this
\* DATA command announced.  The last part ends with SMTP_TERMINATOR.
Packets == [addr : Addr, n : Nat, part : 0..MaxChunks, verb : Verb \union {"chunk"},
            rcpt : STRING, last : BOOLEAN, bit : {0, 1}]

ASSUME SmtpAssumption ==
  /\ \A s \in Script : DOMAIN s = Addr /\ \A a \in Addr : s[a] \in Seq(Command)
  /\ MaxChunks \in Nat \ {0} /\ MaxLines \in Nat \ {0}
  /\ Lossy \subseteq Addr /\ MayReap \subseteq Addr /\ Prompt \subseteq Addr
  /\ NoSender \notin {0, 1} /\ Nobody \in STRING \ User /\ User \subseteq STRING
  /\ NoPacket \notin Packets

SMTPState == {"WAIT_FOR_HELO", "WAIT_FOR_MAIL_FROM", "WAIT_FOR_RCPT_TO",
              "WAIT_FOR_DATA_CMD", "READING_DATA_STREAM"}

VARIABLES
  script,         \* what each client is going to do
  client,         \* how far it is, its bits, the replies it waits for and those at it
  inbound,        \* the packet of each client that waits in the server's RDT layer
  expected,       \* expected_seqs of the server's receiver
  senders,        \* _senders: the bit of each client's sender
  greeting,       \* the packet whose sender the serve loop is greeting
  last_activity,
  sessions,       \* the number of each client's session object, 0 without one
  session,        \* all session objects a client has had
  tasks,          \* the queue of the pool
  worker,         \* where each worker is, and its locals
  stored          \* history: the messages stored

loopVars == <<inbound, greeting, last_activity>>
sessionVars == <<sessions, session>>
vars == <<script, client, loopVars, expected, senders, sessionVars, tasks, worker, stored>>

PacketOf(a, n, part, verb, rcpt, last) ==
  [addr |-> a, n |-> n, part |-> part, verb |-> verb, rcpt |-> rcpt, last |-> last,
   bit |-> client[a].bit]

_create_session == [state |-> "WAIT_FOR_HELO", rcpt_to |-> <<>>, data_buffer |-> <<>>,
                    partial_line |-> FALSE]

\* lines: the lines behind the one that the worker answers now.
Idle == [at |-> "idle", task |-> NoPacket, sid |-> 0, full |-> <<>>, code |-> 0, lines |-> 0]

NewClient == [mode |-> "closed", n |-> 0, part |-> 0, bit |-> 0, expects |-> 0,
              awaiting |-> <<>>, inbox |-> <<>>, accepted |-> {}]

Init ==
  /\ script \in Script
  /\ client = [a \in Addr |-> NewClient]
  /\ inbound = [a \in Addr |-> NoPacket]
  /\ expected = [a \in Addr |-> 0]
  /\ senders = [a \in Addr |-> NoSender]
  /\ greeting = NoPacket
  /\ last_activity = {}
  /\ sessions = [a \in Addr |-> 0]
  /\ session = [a \in Addr |-> <<>>]
  /\ tasks = <<>>
  /\ worker = [w \in Worker |-> Idle]
  /\ stored = <<>>

-----------------------------------------------------------------------------
(* The clients.  send() ends when the serve loop took the packet.           *)

Alive(a) == client[a].mode \in {"open", "data"}

\* The client is, or will be once its send() ends, in _get_reply().
Awaits(a) == Alive(a) /\ client[a].awaiting # <<>> /\ inbound[a] = NoPacket

\* A client is between two calls of send() and has read every reply it waits for.
Ready(a) == client[a].awaiting = <<>> /\ inbound[a] = NoPacket

Item(a) == script[a][client[a].n + 1]

Send(a, p, c) ==
  /\ inbound' = [inbound EXCEPT ![a] = p]
  /\ client' = [client EXCEPT ![a] = [c EXCEPT !.n = p.n, !.part = p.part,
                                               !.bit = 1 - p.bit]]
  /\ UNCHANGED <<script, expected, senders, greeting, last_activity, sessionVars,
                 tasks, worker, stored>>

\* A packet of the client is queued or in a worker's hands.
InPool(a) == \E p \in (ToSet(tasks) \union {worker[w].task : w \in Worker}) \ {NoPacket} :
               p.addr = a

\* Nothing of the client's last connection is left at the server.
Forgotten(a) ==
  /\ sessions[a] = 0 /\ expected[a] = 0 /\ senders[a] = NoSender
  /\ ~InPool(a)

\* A new SMTPClient, or a client that quit and comes back with fresh bits, says NOOP
\* and waits for the greeting and for the answer.
_connect(a) ==
  /\ client[a].mode = "closed" /\ Ready(a)
  /\ client[a].n < Len(script[a]) /\ Item(a).verb = "NOOP"
  /\ a \in Prompt \/ Forgotten(a)
  /\ Send(a, [PacketOf(a, client[a].n + 1, 0, "NOOP", Nobody, FALSE) EXCEPT !.bit = 0],
          [NewClient EXCEPT !.mode = "open", !.awaiting = <<220, 250>>,
                            !.accepted = client[a].accepted])

Expects(verb) == CASE verb = "DATA" -> 354 [] verb = "QUIT" -> 221 [] OTHER -> 250

_send_command(a) ==
  /\ client[a].mode = "open" /\ Ready(a)
  /\ client[a].n < Len(script[a])
  /\ LET item == Item(a) IN
     Send(a, PacketOf(a, client[a].n + 1, 0, item.verb, item.rcpt, FALSE),
          [client[a] EXCEPT !.awaiting = <<Expects(item.verb)>>])

\* The parts of a message are sent one after the other; only the last is answered.
_send_data(a) ==
  /\ client[a].mode = "data" /\ Ready(a)
  /\ \E last \in BOOLEAN :
       /\ client[a].part + 1 = MaxChunks => last
       /\ Send(a, PacketOf(a, client[a].n, client[a].part + 1, "chunk", Nobody, last),
               IF last THEN [client[a] EXCEPT !.mode = "open", !.awaiting = <<250>>]
                       ELSE client[a])

\* An exception in send_email(): QUIT follows once the client is connected, and the
\* socket is closed without waiting for the answer.
Failed(c) == [c EXCEPT !.mode = IF c.awaiting # <<>> /\ Head(c.awaiting) = 220
                                THEN "gone" ELSE "failing",
                       !.awaiting = <<>>, !.inbox = <<>>]

Abandon(a) ==
  /\ client[a].mode = "failing" /\ Ready(a)
  /\ Send(a, PacketOf(a, client[a].n + 1, 0, "QUIT", Nobody, FALSE),
          [client[a] EXCEPT !.mode = "gone"])

\* The client after a reply with the bit it expects.
Answered(c, code) ==
  [c EXCEPT !.awaiting = Tail(@), !.inbox = Tail(@), !.expects = 1 - @,
            !.mode = CASE Head(c.awaiting) = 221 -> "closed"
                       [] Head(c.awaiting) = 354 /\ code = 354 -> "data"
                       [] OTHER -> @,
            !.accepted = IF c.part > 0 /\ code = 250 THEN @ \union {c.n} ELSE @]

\* SMTPClient only logs what answers QUIT, or the NOOP it connects with.
Logged(a) ==
  LET c == client[a] IN
  c.part = 0 /\ Head(c.awaiting) # 220 /\ script[a][c.n].verb \in {"NOOP", "QUIT"}

\* Mutant: a client goes on after any refusal.
MayGoOn_afterAny(c, code) == Head(c.awaiting) # 220 /\ code >= 400

\* Another client than SMTPClient may go on with its next command when this one was refused:
\* not without a greeting, and not after a 500 to its message, which may be the first of many.
MayGoOn(c, code) ==
  /\ Head(c.awaiting) # 220 /\ code >= 400
  /\ c.part > 0 => code # 500

\* A packet with the wrong bit is dropped.  After any other unexpected code SMTPClient gives
\* up.
_get_reply(a) ==
  /\ Awaits(a) /\ client[a].inbox # <<>>
  /\ LET c == client[a]
         r == Head(c.inbox)
         code == Head(c.awaiting) IN
     \/ /\ r.bit # c.expects
        /\ client' = [client EXCEPT ![a].inbox = Tail(@)]
     \/ /\ r.bit = c.expects
        /\ r.code = code \/ Logged(a) \/ MayGoOn(c, r.code)
        /\ client' = [client EXCEPT ![a] = Answered(c, r.code)]
     \/ /\ r.bit = c.expects
        /\ r.code # code /\ ~Logged(a)
        /\ client' = [client EXCEPT ![a] = Failed(c)]
  /\ UNCHANGED <<script, loopVars, expected, senders, sessionVars, tasks, worker, stored>>

\* send() gives up on the packet; it may have arrived all the same.
ClientGivesUp(a) ==
  /\ a \in Lossy /\ inbound[a] # NoPacket
  /\ inbound' \in {inbound, [inbound EXCEPT ![a] = NoPacket]}
  /\ client' = [client EXCEPT ![a] =
       IF Alive(a) THEN [Failed(@) EXCEPT !.bit = inbound[a].bit] ELSE @]
  /\ Alive(a) \/ inbound' # inbound
  /\ UNCHANGED <<script, expected, senders, greeting, last_activity, sessionVars, tasks,
                 worker, stored>>

ClientStep(a) ==
  \/ _connect(a) \/ _send_command(a) \/ _send_data(a) \/ Abandon(a)
  \/ _get_reply(a) \/ ClientGivesUp(a)

-----------------------------------------------------------------------------
(* Replies: _send_reply() blocks until the client's RDT layer acknowledged.  *)

\* Mutant: send() retries without a limit.
_send_reply_noLimit(a, code, p) ==
  LET bit == IF senders[a] = NoSender THEN 0 ELSE senders[a]
  IN /\ Awaits(a)
     /\ client' = [client EXCEPT ![a].inbox =
          Append(@, [code |-> code, n |-> p.n, part |-> p.part, bit |-> bit])]
     /\ senders' = [senders EXCEPT ![a] = 1 - bit]

\* The reply is acknowledged; or no copy of it arrives; or one arrives and no
\* acknowledgement comes back.  The last two need a lossy link or a client that is
\* not reading, and are only logged.
_send_reply(a, code, p) ==
  LET bit == IF senders[a] = NoSender THEN 0 ELSE senders[a]
      atClient == [client EXCEPT ![a].inbox =
                     Append(@, [code |-> code, n |-> p.n, part |-> p.part, bit |-> bit])]
  IN \/ Awaits(a) /\ client' = atClient /\ senders' = [senders EXCEPT ![a] = 1 - bit]
     \/ /\ a \in Lossy \/ ~Awaits(a)
        /\ client' \in {client} \union (IF Alive(a) THEN {atClient} ELSE {})
        /\ senders' = [senders EXCEPT ![a] = bit]

-----------------------------------------------------------------------------
(* The serve loop.                                                          *)

\* The receiver has seen the packet's bit already: acknowledge and drop.
Reject(a) ==
  /\ greeting = NoPacket
  /\ inbound[a] # NoPacket /\ inbound[a].bit # expected[a]
  /\ inbound' = [inbound EXCEPT ![a] = NoPacket]
  /\ UNCHANGED <<script, client, expected, senders, greeting, last_activity, sessionVars,
                 tasks, worker, stored>>

\* Mutant: every client that has nothing in the pool is stale.
Stale_tooEarly(a) == {b \in last_activity \ {a} : ~InPool(b)}

\* A client has been inactive for SESSION_TIMEOUT (300 s) only when the pool is done with
\* its packets: a send takes at most 5 timeouts.
Stale(a) == {b \in (MayReap \intersect last_activity) \ {a} : ~InPool(b)}

\* What _cleanup_session leaves for the addresses in stale.
_cleanup_session(f, stale, none) == [a \in Addr |-> IF a \in stale THEN none ELSE f[a]]

\* Mutant: the number of a session is given out and no object made.
Receive_sessionNotMade(a) ==
  /\ greeting = NoPacket
  /\ inbound[a] # NoPacket /\ inbound[a].bit = expected[a]
  /\ inbound' = [inbound EXCEPT ![a] = NoPacket]
  /\ last_activity' = last_activity \union {a}
  /\ expected' = [expected EXCEPT ![a] = 1 - @]
  /\ sessions' = [sessions EXCEPT ![a] = Len(session[a]) + 1]
  /\ greeting' = inbound[a]
  /\ UNCHANGED <<script, client, senders, session, tasks, worker, stored>>

\* One turn of _serve_loop.  A packet of an unknown client makes a session and waits
\* until the greeting is sent.
Receive(a) ==
  /\ greeting = NoPacket
  /\ inbound[a] # NoPacket /\ inbound[a].bit = expected[a]
  /\ inbound' = [inbound EXCEPT ![a] = NoPacket]
  /\ \E stale \in SUBSET Stale(a) :
       LET known == _cleanup_session(sessions, stale, 0) IN
       /\ last_activity' = (last_activity \ stale) \union {a}
       /\ expected' = [_cleanup_session(expected, stale, 0) EXCEPT ![a] = 1 - @]
       /\ senders' = _cleanup_session(senders, stale, NoSender)
       /\ IF known[a] # 0
          THEN /\ sessions' = known
               /\ tasks' = Append(tasks, inbound[a])
               /\ UNCHANGED <<session, greeting>>
          ELSE /\ session' = [session EXCEPT ![a] = Append(@, _create_session)]
               /\ sessions' = [known EXCEPT ![a] = Len(session[a]) + 1]
               /\ greeting' = inbound[a]
               /\ UNCHANGED tasks
  /\ UNCHANGED <<script, client, worker, stored>>

\* Mutant: the packet is submitted after the greeting, and once more behind the block.
Greet_submitsTwice ==
  /\ greeting # NoPacket
  /\ _send_reply(greeting.addr, 220, greeting)
  /\ tasks' = tasks \o <<greeting, greeting>>
  /\ greeting' = NoPacket
  /\ UNCHANGED <<script, inbound, expected, last_activity, sessionVars, worker, stored>>

Greet ==
  /\ greeting # NoPacket
  /\ _send_reply(greeting.addr, 220, greeting)
  /\ tasks' = Append(tasks, greeting)
  /\ greeting' = NoPacket
  /\ UNCHANGED <<script, inbound, expected, last_activity, sessionVars, worker, stored>>

LoopStep(a) == Reject(a) \/ Receive(a)

-----------------------------------------------------------------------------
(* The pool.                                                                *)

Address(w) == worker[w].task.addr

\* The session object that worker w found.
Mine(w) == session[Address(w)][worker[w].sid]

At(w, label) == worker[w].at = label

Goto(w, label) == worker' = [worker EXCEPT ![w].at = label]

Answer(w, code) == worker' = [worker EXCEPT ![w].at = "reply", ![w].code = code]

Done(w) == worker' = [worker EXCEPT ![w] = Idle]

SetSession(w, s) == session' = [session EXCEPT ![Address(w)][worker[w].sid] = s]

WorkerOnly == UNCHANGED <<script, client, loopVars, expected, senders, sessions>>

Take(w) ==
  /\ At(w, "idle") /\ tasks # <<>>
  /\ worker' = [worker EXCEPT ![w].at = "process", ![w].task = Head(tasks)]
  /\ tasks' = Tail(tasks)
  /\ WorkerOnly /\ UNCHANGED <<session, stored>>

\* The session object and its state are read once and kept.
_process_packet(w) ==
  /\ At(w, "process")
  /\ LET id == sessions[Address(w)] IN
     IF id = 0 THEN Done(w)
     ELSE worker' = [worker EXCEPT ![w].sid = id, ![w].at =
            IF session[Address(w)][id].state = "READING_DATA_STREAM"
            THEN "extend" ELSE "command"]
  /\ WorkerOnly /\ UNCHANGED <<session, tasks, stored>>

\* Mutant: the buffer is replaced.
Extend_replaces(w) ==
  /\ At(w, "extend")
  /\ SetSession(w, [Mine(w) EXCEPT !.data_buffer = <<worker[w].task>>])
  /\ Goto(w, "check")
  /\ WorkerOnly /\ UNCHANGED <<tasks, stored>>

\* _handle_data_stream: extend the buffer,
Extend(w) ==
  /\ At(w, "extend")
  /\ SetSession(w, [Mine(w) EXCEPT !.data_buffer = Append(@, worker[w].task)])
  /\ Goto(w, "check")
  /\ WorkerOnly /\ UNCHANGED <<tasks, stored>>

\* look for the terminator,
Check(w) ==
  /\ At(w, "check")
  /\ IF \E p \in ToSet(Mine(w).data_buffer) : p.last THEN Goto(w, "copy") ELSE Done(w)
  /\ WorkerOnly /\ UNCHANGED <<session, tasks, stored>>

\* copy what the session has by now,
Copy(w) ==
  /\ At(w, "copy")
  /\ worker' = [worker EXCEPT ![w].at = "reset", ![w].full = Mine(w).data_buffer]
  /\ WorkerOnly /\ UNCHANGED <<session, tasks, stored>>

\* Mutant: buffer and state stay as they are.
Reset_skipped(w) ==
  /\ At(w, "reset")
  /\ Goto(w, "finalize")
  /\ WorkerOnly /\ UNCHANGED <<session, tasks, stored>>

\* give the session new buffers.
Reset(w) ==
  /\ At(w, "reset")
  /\ SetSession(w, [Mine(w) EXCEPT !.data_buffer = <<>>, !.partial_line = FALSE,
                                   !.state = "WAIT_FOR_MAIL_FROM"])
  /\ Goto(w, "finalize")
  /\ WorkerOnly /\ UNCHANGED <<tasks, stored>>

\* The message ends before the first terminator; without one the copy but for its
\* last byte is taken.
Message(full) ==
  LET ends == {i \in DOMAIN full : full[i].last}
  IN IF ends = {} THEN full
     ELSE SubSeq(full, 1, CHOOSE i \in ends : \A j \in ends : i <= j)

\* Mutant: what save_email() returned is not looked at.
_finalize_message_saveIgnored(w) ==
  /\ At(w, "finalize")
  /\ IF Mine(w).rcpt_to # <<>> /\ Head(Mine(w).rcpt_to) \in User
     THEN /\ stored' \in {stored, Append(stored, [parts |-> Message(worker[w].full),
                                                 rcpt |-> Head(Mine(w).rcpt_to)])}
          /\ Answer(w, 250)
     ELSE Answer(w, 550) /\ UNCHANGED stored
  /\ WorkerOnly /\ UNCHANGED <<session, tasks>>

\* The mailbox of the first recipient takes the message or refuses it (451).
_finalize_message(w) ==
  /\ At(w, "finalize")
  /\ IF Mine(w).rcpt_to # <<>> /\ Head(Mine(w).rcpt_to) \in User
     THEN \/ /\ stored' = Append(stored, [parts |-> Message(worker[w].full),
                                          rcpt |-> Head(Mine(w).rcpt_to)])
             /\ Answer(w, 250)
          \/ Answer(w, 451) /\ UNCHANGED stored
     ELSE Answer(w, 550) /\ UNCHANGED stored
  /\ WorkerOnly /\ UNCHANGED <<session, tasks>>

\* The states in which a command is accepted: anywhere unless the handler looks.
Accepts(s, verb) ==
  CASE verb = "MAIL" -> s.state \in {"WAIT_FOR_MAIL_FROM", "WAIT_FOR_RCPT_TO"}
    [] verb = "RCPT" -> s.state = "WAIT_FOR_RCPT_TO"
    [] verb = "DATA" -> s.state = "WAIT_FOR_DATA_CMD" /\ s.rcpt_to # <<>>
    [] OTHER -> TRUE

\* Mutant: RSET resets the state only.
Effect_rsetKeepsRecipients(s, p) ==
  CASE p.verb = "HELO" -> [s EXCEPT !.state = "WAIT_FOR_MAIL_FROM"]
    [] p.verb = "MAIL" -> [s EXCEPT !.state = "WAIT_FOR_RCPT_TO"]
    [] p.verb = "RCPT" -> [s EXCEPT !.state = "WAIT_FOR_DATA_CMD",
                                    !.rcpt_to = Append(@, p.rcpt)]
    [] p.verb = "DATA" -> [s EXCEPT !.state = "READING_DATA_STREAM", !.data_buffer = <<>>]
    [] p.verb = "RSET" -> [s EXCEPT !.state = "WAIT_FOR_HELO"]
    [] OTHER -> s

\* What the handler of an accepted command makes of the session.
Effect(s, p) ==
  CASE p.verb = "HELO" -> [s EXCEPT !.state = "WAIT_FOR_MAIL_FROM"]
    [] p.verb = "MAIL" -> [s EXCEPT !.state = "WAIT_FOR_RCPT_TO"]
    [] p.verb = "RCPT" -> [s EXCEPT !.state = "WAIT_FOR_DATA_CMD",
                                    !.rcpt_to = Append(@, p.rcpt)]
    [] p.verb = "DATA" -> [s EXCEPT !.state = "READING_DATA_STREAM", !.data_buffer = <<>>]
    [] p.verb = "RSET" -> _create_session
    [] OTHER -> s

\* A line that no handler takes: what is left of a message part in line_buffer is put
\* before it, it is not a command, or it is a line of a message.
Unreadable(w) == Mine(w).partial_line \/ worker[w].task.verb \in {"BAD", "chunk"}

\* Every line is answered with 500, one after the other.
Refuse(w) ==
  \E more \in 0..MaxLines - 1 :
    worker' = [worker EXCEPT ![w] = [@ EXCEPT !.at = "reply", !.code = 500, !.lines = more]]

\* A command is one line.  A part of a message is any number of them, and the last part
\* ends with a whole one.
_handle_command_stream(w) ==
  /\ At(w, "command")
  /\ LET s == Mine(w)
         p == worker[w].task IN
     \/ /\ p.part > 0
        /\ SetSession(w, [s EXCEPT !.partial_line = ~p.last])
        /\ Refuse(w) \/ (~p.last /\ Done(w))
     \/ /\ Unreadable(w) /\ p.part = 0
        /\ SetSession(w, [s EXCEPT !.partial_line = FALSE])
        /\ Answer(w, 500)
     \/ /\ ~Unreadable(w) /\ Accepts(s, p.verb)
        /\ SetSession(w, Effect(s, p))
        /\ Answer(w, Expects(p.verb))
     \/ /\ ~Unreadable(w) /\ ~Accepts(s, p.verb)
        /\ Answer(w, 503) /\ UNCHANGED session
  /\ WorkerOnly /\ UNCHANGED <<tasks, stored>>

\* Behind the reply the recipients of a stored message are cleared, a client that quit is
\* forgotten, and the lines that follow in a refused message are read.
Reply(w) ==
  /\ At(w, "reply")
  /\ LET p == worker[w].task
         code == worker[w].code IN
     /\ _send_reply(p.addr, code, p)
     /\ CASE code = 221 -> Goto(w, "pop_sender")
          [] code = 250 /\ p.part > 0 -> Goto(w, "clear")
          [] worker[w].lines > 0 -> Goto(w, "rest")
          [] OTHER -> Done(w)
  /\ UNCHANGED <<script, loopVars, expected, sessionVars, tasks, stored>>

\* The next line of a refused message is refused as well.  (When the client gave up by now
\* and its QUIT follows, the lines and the QUIT share line_buffer, and either worker may
\* answer them.)
Rest(w) ==
  /\ At(w, "rest")
  /\ _send_reply(Address(w), 500, worker[w].task)
  /\ IF worker[w].lines = 1 THEN Done(w)
     ELSE worker' = [worker EXCEPT ![w].lines = @ - 1]
  /\ UNCHANGED <<script, loopVars, expected, sessionVars, tasks, stored>>

Clear(w) ==
  /\ At(w, "clear")
  /\ SetSession(w, [Mine(w) EXCEPT !.rcpt_to = <<>>])
  /\ Done(w)
  /\ WorkerOnly /\ UNCHANGED <<tasks, stored>>

\* _cmd_QUIT after its reply, three steps that the serve loop may come between.
PopSender(w) ==
  /\ At(w, "pop_sender")
  /\ senders' = [senders EXCEPT ![Address(w)] = NoSender]
  /\ Goto(w, "pop_session")
  /\ UNCHANGED <<script, client, loopVars, expected, sessionVars, tasks, stored>>

PopSession(w) ==
  /\ At(w, "pop_session")
  /\ sessions' = [sessions EXCEPT ![Address(w)] = 0]
  /\ Goto(w, "reset_state")
  /\ UNCHANGED <<script, client, loopVars, expected, senders, session, tasks, stored>>

reset_state(w) ==
  /\ At(w, "reset_state")
  /\ expected' = [expected EXCEPT ![Address(w)] = 0]
  /\ Done(w)
  /\ UNCHANGED <<script, client, loopVars, senders, sessionVars, tasks, stored>>

WorkerStep(w) ==
  \/ Take(w) \/ _process_packet(w)
  \/ Extend(w) \/ Check(w) \/ Copy(w) \/ Reset(w) \/ _finalize_message(w)
  \/ _handle_command_stream(w)
  \/ Reply(w) \/ Rest(w) \/ Clear(w) \/ PopSender(w) \/ PopSession(w) \/ reset_state(w)

-----------------------------------------------------------------------------
Next ==
  \/ \E a \in Addr : ClientStep(a) \/ LoopStep(a)
  \/ Greet
  \/ \E w \in Worker : WorkerStep(w)

Spec == Init /\ [][Next]_vars

\* The loop and the pool's threads run on, and the data queue is served in its order; a
\* client reads what is there.  Nothing is assumed of what clients send.
FairSpec ==
  /\ Spec
  /\ WF_vars(Greet)
  /\ \A a \in Addr : WF_vars(LoopStep(a)) /\ WF_vars(_get_reply(a))
  /\ \A w \in Worker : WF_vars(WorkerStep(w))

-----------------------------------------------------------------------------
(* Correctness.                                                             *)

Code == {220, 221, 250, 354, 451, 500, 503, 550}

ReplyType == [code : Code, n : Nat, part : 0..MaxChunks, bit : {0, 1}]
ClientType == [mode : {"closed", "open", "data", "failing", "gone"}, n : Nat,
               part : 0..MaxChunks, bit : {0, 1}, expects : {0, 1}, awaiting : Seq(Code),
               inbox : Seq(ReplyType), accepted : SUBSET Nat]
SessionType == [state : SMTPState, rcpt_to : Seq(STRING), data_buffer : Seq(Packets),
                partial_line : BOOLEAN]
WorkerType == [at : {"idle", "process", "command", "extend", "check", "copy", "reset",
                     "finalize", "reply", "rest", "clear", "pop_sender", "pop_session",
                     "reset_state"},
               task : Packets \union {NoPacket}, sid : Nat, full : Seq(Packets),
               code : Code \union {0}, lines : 0..MaxLines - 1]

\* Every variable has its type; a client has said no more than its script and a QUIT; each
\* address has one of its session objects or none, and each worker that handles a packet
\* one of the session objects of its client.
TypeOK ==
  /\ script \in Script
  /\ client \in [Addr -> ClientType]
  /\ \A a \in Addr : client[a].n <= Len(script[a]) + (IF client[a].mode = "gone" THEN 1 ELSE 0)
  /\ inbound \in [Addr -> Packets \union {NoPacket}]
  /\ expected \in [Addr -> {0, 1}] /\ senders \in [Addr -> {0, 1, NoSender}]
  /\ greeting \in Packets \union {NoPacket}
  /\ last_activity \subseteq Addr
  /\ session \in [Addr -> Seq(SessionType)]
  /\ sessions \in [Addr -> Nat] /\ \A a \in Addr : sessions[a] <= Len(session[a])
  /\ tasks \in Seq(Packets)
  /\ worker \in [Worker -> WorkerType]
  /\ \A w \in Worker :
       /\ ~At(w, "idle") => worker[w].task \in Packets
       /\ ~At(w, "idle") /\ ~At(w, "process") =>
            worker[w].sid \in 1..Len(session[Address(w)])
       /\ At(w, "reply") => worker[w].code \in Code
       /\ At(w, "rest") => worker[w].lines > 0
  /\ stored \in Seq([parts : Seq(Packets), rcpt : User])

\* What _handle_data_stream cuts out of the stream and the mailbox stores is one whole
\* message: the parts one client sent after one DATA, in their order, up to the
\* terminator; and no message is stored twice.
StoredIntact ==
  /\ \A m \in ToSet(stored) :
       /\ m.parts # <<>>
       /\ \A i \in DOMAIN m.parts :
            /\ m.parts[i].addr = m.parts[1].addr /\ m.parts[i].n = m.parts[1].n
            /\ m.parts[i].part = i /\ m.parts[i].last = (i = Len(m.parts))
  /\ \A i, j \in DOMAIN stored : i # j => ToSet(stored[i].parts) # ToSet(stored[j].parts)

\* A client that was told "250 OK: Message accepted for delivery" by _finalize_message
\* has its message in a mailbox, whatever happened to sessions and replies since.
AcceptedIsStored ==
  \A a \in Addr : \A n \in client[a].accepted :
    \E m \in ToSet(stored) : \E p \in ToSet(m.parts) : p.addr = a /\ p.n = n

\* A message goes to the recipient that its client named last before its DATA command,
\* not to one that rcpt_to kept from another transaction.
RightRecipient ==
  \A m \in ToSet(stored) :
    LET a == m.parts[1].addr
        before == {i \in DOMAIN script[a] : i < m.parts[1].n /\ script[a][i].verb = "RCPT"}
    IN \E i \in before : (\A j \in before : j <= i) /\ m.rcpt = script[a][i].rcpt

\* The reply in which _get_reply finds the code it waits for is one the server gave to the
\* client's last packet, never a late one to an earlier packet.  (Refusals may be late: a
\* session that was reaped within a message refuses every line of the rest, and the client
\* gives up on the first refusal that it reads.)
ReplyMatches ==
  [][\A a \in Addr :
       LET c == client[a]
           taken == /\ Awaits(a) /\ c.inbox # <<>>
                    /\ client'[a].inbox = Tail(c.inbox) /\ client'[a].expects # c.expects
       IN taken /\ Head(c.inbox).code = Head(c.awaiting)
            => Head(c.inbox).n = c.n /\ Head(c.inbox).part = c.part]_vars

Reliable == Addr \ (Lossy \union MayReap)

\* The receiver takes no packet of a client on a sound link for a duplicate: QUIT, the
\* reaper and new sessions leave expected_seqs in step with the client's bit.
NothingDropped ==
  [][\A a \in Reliable : inbound[a] # NoPacket /\ inbound'[a] = NoPacket
       => expected'[a] # expected[a]]_vars

\* A client whose sends do not give up gets every reply it waits for, whatever the clients
\* that do give up, fall silent or come back do to the serve loop and the pool.
Served ==
  \A a \in Reliable : client[a].awaiting # <<>> ~> client[a].awaiting = <<>>
=============================================================================
