# Email Network Service: models, model checking and proofs

TLA+ models of the mail service under `email-network-service/src`: SMTP and POP3
servers and clients over a stop-and-wait reliable transport on UDP (RDT 3.0), with
mailboxes on disk. Paths below are relative to that directory.

## 1. The system

| component | code | state | operations |
| --- | --- | --- | --- |
| RDT dispatcher | `rdt/rdt_dispatcher.py` | one socket, `data_queue`, `ack_listeners` (peer, bit -> Event), `_running`, a listen thread | `start`, `stop`, the listen loop, `register_ack_waiter`, `unregister_ack_waiter`, `get_data_packet` |
| RDT sender | `rdt/rdt_sender.py` | `curr_seq`, one per peer address | `send`: build, register, transmit, wait, retry up to 5 times, give up |
| RDT receiver | `rdt/rdt_receiver.py` | `expected_seqs` for each peer | `start_receiving` (accept or reject, acknowledge, yield), `reset_state` |
| RDT packets | `rdt/rdt_packet.py` | none | build, validate with CRC32 |
| Mailbox storage | `mailbox/*.py` | `locks` for each user, message files, `metadata.json` and temp files on disk | `save_email`, `delete_email`, `list_messages`, `get_message_content`, `get_message_uid` |
| SMTP server | `smtp/smtp_server.py` | `sessions`, `last_activity`, `_senders`, a pool of 10 workers | the serve loop with its reaper, the command and DATA streams, `start`, `stop` |
| POP3 server | `pop3/pop3_server.py` | `sessions`, `_senders` | a serial serve loop, USER PASS STAT LIST RETR DELE QUIT |
| SMTP and POP3 clients | `smtp/smtp_client.py`, `pop3/pop3_client.py` | a sender, a receiver, a reply queue | connect, send or retrieve, quit; they wait for replies without a limit |
| User manager | `auth/user_manager.py`, `auth/user.py` | the user cache, `users.json` | load, save, create, authenticate |
| E-mail data, configuration, logging, exceptions, simulation | `models/`, `config.py`, `common/`, `simulation.py` | | pure extraction, formatting, constants, the driver |

How they interact.  A server has one dispatcher; its receiver takes data packets
from the dispatcher's queue, and its senders (one for each client address) put an
Event into the dispatcher's routing table and wait for it.  The SMTP serve loop hands
each payload to a worker thread, which answers through the same senders and stores
mail through the `StorageManager` singleton; the POP3 loop handles commands itself and
reads and deletes through the same singleton.  The two servers share nothing else but
the disk and the user manager.

What is hard here, and in which order this project takes it:

1. The transport: loss, duplication and corruption of packets; ACKs that are late or
   arrive before the wait; give-ups after which both ends go on; two threads on one
   sender; a receiver that forgets a peer; listen threads that outlive `stop`.
2. The mailbox: read-modify-write of `metadata.json` by several threads, a lock
   registry without a lock of its own, errors that are swallowed, a crash between two
   file operations.
3. The SMTP server: pool workers on one unlocked session, chunks of a DATA stream out
   of order, the reaper and QUIT deleting what a worker still uses, messages that a new
   session reads as commands, line by line, recipients that outlive their message.
4. The POP3 server: messages marked by number and looked up again at QUIT, exceptions
   that end the only serve loop, sessions that outlive QUIT, and one thread that sends
   every line of every reply itself, so that clients and server wait for each other.
5. The user manager: a cache and a file that have to agree through failed saves and
   crashes.

`PROJECT.json` lists each hazard at its line with the properties that watch it.

## 2. Modules

| module | what it is | extends |
| --- | --- | --- |
| `Rdt` | dispatcher, sender and receiver at both ends of one link | |
| `ReliableLink` | what one direction of a link promises: no packets, bits or timers | |
| `MCRdt` | a client and a server, one caller each | `Rdt` |
| `RdtProofs` | type correctness, the routing table, nothing is invented; the alternating bit and the refinement of `ReliableLink` | `Rdt`, `SequenceLemmas`, `TLAPS` |
| `MailboxStore` | lock registry, writer, reader and the disk | |
| `Mailbox` | what the store promises: no locks, files or metadata | |
| `MCMailboxStore` | one user, two workers | `MailboxStore` |
| `MailboxProofs` | safety of the store and the refinement of `Mailbox` | `MailboxStore`, `TLAPS` |
| `SmtpServer` | serve loop, sessions, worker pool and the clients that talk to them | |
| `MCSmtpServer` | two clients, two workers, what the clients say | `SmtpServer` |
| `SmtpProofs` | type correctness, the bits of a sound link | `SmtpServer`, `SequenceLemmas`, `TLAPS` |
| `SmtpDeliveryProofs` | replies, stored messages and recipients, with sends that give up and sessions that are reaped | `SmtpProofs` |
| `Pop3Server` | serve loop, sessions, mailboxes and the clients that talk to them | |
| `MCPop3Server` | two clients, two mailboxes, what the clients call | `Pop3Server` |
| `Pop3Proofs` | type correctness, what QUIT may delete | `Pop3Server`, `SequenceLemmas`, `TLAPS` |
| `Pop3FetchProofs` | what a `get_all_messages()` reads and deletes, and that it does not end the loop | `Pop3Proofs` |
| `UserManager` | cache, `users.json`, mailboxes of accounts, the set-up of a run | |
| `Accounts` | what `users.json` promises: no cache, temporary file or lock | |
| `MCUserManager` | two users, two server threads | `UserManager` |
| `UserManagerProofs` | safety of the accounts and the refinement of `Accounts` | `UserManager`, `TLAPS` |
| `SequenceLemmas` | facts about sequences that the proofs share | |

Operators whose name has a suffix (`Accept_noFlip`) are mutants: plausible bugs of the
operator they are named after, used to see that the properties notice them.  They are
part of no specification.

### Rdt

A node is a socket with its dispatcher; `net[n]` is what is buffered at, or on its way
to, node `n`, for both directions.  `sendto` may lose, duplicate or garble a packet
(`Carried`); a garbled packet keeps its place and nothing of it can be trusted.  On the
link of the code (two sockets of one host) packets are not reordered: `Fifo`.  The two
locks of the code (`ack_lock`, the queue's own) make each routing-table and queue access
one step; between any two of the following there is a step boundary:

| action | code |
| --- | --- |
| `Begin`, `Register`, `Transmit` | `send` up to the attempt, `register_ack_waiter`, `sendto` |
| `AckWake`, `Timeout` | `event.wait` returns True, False; the bit is toggled before the `finally` |
| `ReturnTrue`, `Retry`, `Raise` | the `finally`, then return, next turn or `ConnectionError` |
| `Dispatch` | one packet of `_listen_loop`: dropped, routed to an Event or queued |
| `Accept`, `Reject` | one packet of `start_receiving` |
| `ResetState` | `reset_state` for the peer |
| `Stop`, `ListenerExit`, `Start` | `stop` clears a flag; the loop ends later; `start` makes a new one |

`Dispatch` with `k` loops alive may take any of the first `k` packets, since one loop can
sit on its packet while another handles the next.  A `Timeout` needs no clock: it may
happen whenever the Event is not set, which includes an ACK already in the buffer.  The
payload of the `k`-th `send` is the number `k`, so history can be compared; `sends`,
`confirmed` and `delivered` are history.  One peer for each node is enough, since senders
and `expected_seqs` entries are kept for each peer and share only the queue.

### MailboxStore

Workers are the server threads.  `locks[u]` names the lock object by the worker that
created it; `holder` says who has which lock object.  A call goes through `CheckLock`,
`CreateLock`, `FetchLock` (the three unprotected steps of `get_lock`), `Acquire`, its file
operations and `Release`; each file operation is a step, so that two workers, or a crash,
can come between any two.

| action | code |
| --- | --- |
| `Call` | `save_email`, `delete_email` or one of the three reads is entered |
| `StageMessage` | the message is written to a temp file; a failure may leave it there |
| `MoveMessage` | `os.replace` of the message |
| `LoadMetadata` | `_load_metadata` and the change of the copy; delete returns False for an unknown message |
| `WriteTmp`, `ReplaceMetadata`, `SaveFails` | `_save_metadata`; every error in it is swallowed and success reported |
| `ReadMailbox` | what `list_messages` and the two others take from the disk |
| `Crash` | the process dies: locks and locals are gone, the disk stays |

Abstractions.  Metadata is the set of messages with an entry and the set of those
flagged; a missing file and `{"messages": {}}` are one and the same for every
operation.  Contents, sizes, UIDs and the parsing of messages are left out; a failure of
`makedirs` or of the conversion of the message is a failed `StageMessage`.  Writing
`metadata.json.tmp` is one step: a partly written one is put in place only if a second
worker is inside the block as well, which is the lock race the runs show anyway.  A stale
temp file is never read.  `Warm` is the set of users whose lock exists when workers
race for it; `Faults` the calls that may fail.

### SmtpServer

Serve loop, pool and clients run in parallel.  Sessions are objects of their own
(`session[a]` holds all that address `a` ever had) because a worker keeps the one it
looked up, whatever the loop or QUIT does to `sessions` afterwards.

| action | code |
| --- | --- |
| `Receive`, `Reject`, `Greet` | one turn of `_serve_loop`: bit, activity, reaper, new session, greeting, `submit` |
| `Take`, `_process_packet` | a worker gets a packet, looks up the session and reads its state, once |
| `Extend`, `Check`, `Copy`, `Reset` | the four accesses of `_handle_data_stream` to the shared buffers |
| `_finalize_message` | recipient, user and `save_email`: 250, 451 or 550 |
| `_handle_command_stream` | the first line of a packet; states and effects are in `Accepts` and `Effect`, `Refuse` is a message part that is read as commands |
| `Reply`, `Clear`, `PopSender`, `PopSession`, `reset_state` | the reply, and what 250 for a message and 221 do behind it |
| `Rest` | the next line of a refused message part, and its 500 |
| `_connect`, `_send_command`, `_send_data`, `_get_reply`, `Abandon`, `ClientGivesUp` | the client |

Abstractions.  A `send` is one step, since what can go wrong inside it is the subject of
`Rdt`; left of it are the two bits and the three ways it can end: acknowledged, given up
with nothing delivered, given up although a copy arrived.  It is acknowledged when the
client reads, so a reply to a client that does not read blocks its worker or is given up.
A client's packet waits in `inbound` until the serve loop takes it; packets of different
clients are taken in any order.  A message is the sequence of its packets, of which the
last ends with the terminator; a terminator that falls on a packet boundary is found in
the joined buffer like any other.  When a session was reaped within a message, the new one
reads what follows as commands and answers every line of it, one after the other, with 500:
up to `MaxLines` for each packet.  What is left of a line goes to the front of the next packet
(`partial_line`).  Lines of a message that begin with the name of a command would be executed
(`smtp_server.py:293`): the messages of the model have none, and neither the runs nor the
theorems say anything of one that has.  Malformed arguments, which like `BAD` are refused and
change nothing, are left out.  The lines of one packet are one worker's; when the client gave up
meanwhile and its QUIT is in another worker's hands, the two share `line_buffer`, and either
may answer a line: the replies are the same, and nobody reads them.  Two accesses to the
sender and session dictionaries by the same statement are one step.  The mailbox stores a
message or refuses it (`Mailbox`); that a swallowed metadata error makes it do neither is described in section 5.
The reaper may take any address in `MayReap` that has no packet in the pool: 300 seconds
are longer than any send.  `Forgotten` keeps clients outside `Prompt` from reconnecting
before QUIT was finished.  Clients follow the scripts of `MCSmtpServer`, `SMTPClient`'s own
among them, one command at a time; after a refusal they give up as `SMTPClient` does, or go
on with the next command, except after a 500 to their message (`MayGoOn`).  A client that
goes on there reads the other 500s of its message as the answers to its next commands, and
in the end the 250 of one command as that of another: `MayGoOn_afterAny` is such a client,
and `smtp_parts` refutes `ReplyMatches` for it.  A client that has given up and sent its QUIT
(`gone`) does not come back: the next `SMTPClient` has another port.

A packet is at the server once.  A second copy of it, sent again because the ACK was late,
has the old bit and is dropped as long as the receiver remembers the client; behind
`reset_state` it would be taken for the first packet of a new session.  `Pop3Server` has
these copies; `SmtpServer` has not, so it does not show what a repeated QUIT, or a packet that was
repeated before its client fell silent for 300 seconds, does there.

### Pop3Server

One thread serves everybody: it takes a packet, greets a new client, handles the command
and sends each reply, one after the other, before it takes the next packet.

| action | code |
| --- | --- |
| `Receive`, `Reject` | one turn of `_serve_loop`: the receiver's bit, a new session |
| `_cmd_USER` ... `_cmd_QUIT`, `_handle_command` | a handler up to its replies; `loop.out` is what it is going to send |
| `delete_email`, `SignOff` | the deletions behind QUIT one by one, and its answer |
| `SendReply` | the next reply: acknowledged, given up, or given up although a copy arrived |
| `Deliver` | the SMTP server stores a message while POP3 sessions are open |
| `Call`, `Retransmit`, `ClientGivesUp`, `_get_reply` | a call of `POP3Client` and its send, attempt by attempt |
| `Vanish` | the client's process dies |

A client is a script of calls, or `get_all_messages()`, whose calls from LIST on depend on
the answers.  Its send is taken attempt by attempt because packets wait: while the loop
sends a listing to a client that has gone, it takes no packet and acknowledges nothing, and
the sends of the other clients give up with their packets still in the queue (`stalled`).
Such a packet is handled later, and the client has gone on meanwhile.  A reply is one step: it is
read by a client that waits, or kept in `inbox` or lost when the server gives up.  A packet
is acknowledged when the loop takes it; that its ACK is lost is one of `MaxLosses`.

A mailbox is the sequence that `list_messages` returns, and the storage does what `Mailbox`
promises or fails (`MayFail`): `list_messages` is one step because the user's lock makes it
one.  A listing that cannot read `metadata.json` is empty (`Unlisted`), so each handler that
lists has a second outcome, and QUIT with marks raises.  That a writer which cannot read the
file replaces it by one with its own entry is left to `MailboxStore`.  Names for messages
stand for what a reply carries of them: a line of LIST its size, the content its text.  `Large` are messages whose content does not fit into one datagram
(`RDT_RECV_BUFSIZE`), `NotAscii` those that `encode("ascii")` refuses.  Sizes are positive, so
a total of 0 means no messages.  Numbers that are not numbers and missing arguments are
refused like a number that is out of range.  An address that two clients use one after the
other is one client that connects again.  `arrived`, `deled` and `stale` are history: a
session is stale when another session deleted in its mailbox, or when it has signed off,
since its numbers then name other messages.

### UserManager

The process is down, prepares a run of the simulation (`clean`, `truncate`, `empty`,
`setup`) or serves.  `db` and `tmp` are `users.json` and its temporary file.

| action | code |
| --- | --- |
| `_load_users` | the file is read when the process starts; records that `from_dict` refuses are skipped |
| `ensure_directories`, `ensure_users_json`, `start_servers` | `setup_users` around its calls of `create_user`; the file is opened for writing, then written |
| `create_user` | the test and the change of the cache, under the lock |
| `WriteTemporary`, `Replace` | `_save_users`; a failure is logged and the call goes on |
| `MakeMailbox` | the directory and its empty metadata, and the lock is released |
| `get_user`, `verify_password` | `authenticate`: the lookup under the lock, the comparison behind it |
| `Crash` | the process dies: cache, lock and calls are gone, the files stay |

An account is its password; `Blank` is one that `User()` accepts and `from_dict` does not.
Only `setup_users` calls `create_user`; that server threads call it too is one step beyond the
code of this repository, which gives the lock something to do.

## 3. Runs

| run | instance | shows |
| --- | --- | --- |
| `rdt` | 3 sends one way, 2 attempts each, buffers of 3 and 2 | the alternating-bit invariant `LinkInv` and what follows from it, the routing table, refinement of `ReliableLink`, every `send` ends |
| `rdt_teardown` | 2 sends, both dispatchers stopped and restarted (two loops at once), the server resets | nothing invented is yielded, every `send` ends |
| `mailbox` | one user, 2 workers with 2 calls each, 2 messages, failing message writes, a crash | mutual exclusion, nothing reported is lost or undone, refinement of `Mailbox`, every call returns |
| `mailbox_faults` | the same without a lock to begin with, every operation may fail | entries always have files, every call returns |
| `smtp` | 2 clients, 2 workers, messages of one packet; client `a1` has a link that gives up, may be reaped and reconnects promptly | stored messages are whole, unique and go to the right mailbox, 250 means stored, a reply that is taken for success is the right one, the client on the sound link is always served and loses no packet |
| `smtp_parts` | the same with 1 worker and messages of up to 3 packets, each of up to 4 lines | parts are put together in their order, also when a session is reaped within a message; the 500s that a new session then sends are taken for no other command's answer by a client that gives up on the first |
| `pop3` | a `get_all_messages()` of alice beside one of nine other clients, 2 mailboxes with 4 messages of which some arrive on the way, 2 attempts for each send, one loss, a storage whose listing, reading and deleting may fail | what was read is what was listed, only messages that were marked and read are deleted, the loop survives but for the exceptions of section 5, no call waits for ever |
| `users` | 2 users, 2 server threads with 2 calls in each run, the simulation, 2 crashes, failing saves and mailboxes | accounts that were saved survive, logins use the current password, refinement of `Accounts`, every call returns |
| `rdt_giveup`, `mailbox_lock_race` | as above | violations, section 5 |
| `smtp_chunks` | 1 client, 2 workers, up to 2 packets | violation, section 5 |
| `pop3_refused` | a `get_all_messages()` with a wrong password | violation, section 5 |

Bounds and why they are enough.  An alternating bit goes wrong when a packet or an ACK
of the call before last passes for one of this call; three sends with a retransmission
each, a duplicate in the buffer and room for three packets are the smallest instance in
which that can happen, and the mutants `Accept_noFlip`, `Reject_wrongAck` and
`Register_eventNotCleared` do it there.  Buffers lose what they cannot hold, as a socket
does.  `QueueCap` makes `Dispatch` wait where the code's queue grows.  Two listen loops
exist at most because `stop` joins for one second, the socket's own timeout.  In the
mailbox a lost update takes two workers; a third adds no pair of steps that two cannot
interleave.  Mailboxes of different users share no state, so one user is enough.  The
theorems below hold without any of these bounds, for the properties they cover.

Sessions of different clients meet only in the serve loop, the pool and the reaper, so one
client that does all that can go wrong and one that has to be served in spite of it are
enough; with two workers the pool is already full when a reply blocks one and the other is
busy, and two packets of one session can be in hand at once.  The scripts reach every
command, every refusal and every code.  In `Late` the message begins with the bit that a new
session expects, so that it is refused line by line; behind it are two commands with the code
that answers a message, which is what it takes to mistake one for the other.  A message of
`SMTPClient` has at least four lines (subject, empty line, body, terminator), and `MaxLines`
is 4: that is more 500s from one packet than the script has commands left.  The two runs that pass split what
`smtp_chunks` shows to be broken: several packets need a single worker, several workers a
single packet.

In the POP3 server clients meet in the loop, and through the numbers of a mailbox.  The one
beside the `get_all_messages()` that the properties are about does in turn all that can go wrong: it loses a
packet or an ACK, dies in the middle of a listing, reads and empties the same mailbox, deletes
by wrong numbers, calls in a wrong order, reads what cannot be encoded or sent, is refused, or
comes back behind its QUIT.  One loss is enough to make both ends wait for each other until
one gives up, two attempts to tell a retransmission from a give-up, and two messages in a
mailbox to shift a number; a third arrives while it is read.

Accounts meet in the file: a save of one account writes the other's record too, which takes
two users; two threads contend for the lock, and the second crash comes while the first one's
half-written temporary file is still there.

Fairness.  `send` ends under weak fairness of the caller's own steps only: each wait
has a timeout, so a thread inside `send` can always go on.  Nothing is assumed of the
network, the peer or the listen loop.  For the mailbox, weak fairness of each worker's
steps: a thread that is not blocked runs on, and one that waits for a lock gets it when
it stays free; calls are bounded, so it does.  `Served` of `smtp` takes weak fairness of the
serve loop for each client (its queue is served in order), of the greeting, of each worker
and of reading a reply that is there; nothing is assumed of what clients send.  It is
stated for clients on links that do not give up, since nobody repeats a reply that was
given up.  `CallsEnd` of `pop3` takes weak fairness of the serve loop, which has a limit for
every send, and of the client's own calls, reads and give-ups; nothing is assumed of the
network or of the other clients.  `CallsReturn` of `users` takes weak fairness of a thread that is
inside a call and of the set-up of the simulation.  All of these are checked by TLC only.

The runs do not check for deadlock: when all sends, calls or commands of the bound are
used up the system has nothing left to do.  That nothing is stuck before is what
`SendTerminates`, `CallsReturn`, `Served` and `CallsEnd` say.

## 4. Proofs

Safety of the transport, of the mailbox and of the accounts is proved for every value of the
constants: any number of users, workers, messages and crashes, any retry limit and any number
of sends.  So is every safety property of the POP3 server; of the SMTP server types, the bits of its
links and, for clients who come back only when they are forgotten, the delivery of messages that
fit one packet.  Liveness under fairness is left to TLC.

Rdt.

- `TypeCorrect`, `NoListenerLeaks` and `NothingIsInvented` need no assumption: they hold for
  any number of threads on one sender, any network and any teardown.  The third follows
  from `SentInv`: each data packet on its way carries a payload that was given to `send`.
- `LinkCorrect`, `InOrder`, `ConfirmedDelivered`, `WaitersAreRegistered` and
  `LinkImplements` assume `QuietLink`: FIFO buffers, no dispatcher stopped, no
  receiver reset, at most one thread in `send` at each end.  Section 5 and the hazards
  list what happens without it.

The argument: the safety properties are not inductive.  `LinkInv` adds what is on the way.
A payload is open while no later call was confirmed.  A packet carries the sender's
current bit exactly if its payload is open (`PathInv`), and payloads never go backwards
along buffer and queue.  As long as the receiver waits for the sender's bit it has yielded
nothing open and no ACK of that bit exists (`AwaitingInv`); once it accepted it, only
packets of that bit are left on the way and behind the first ACK of the bit come only such
ACKs (`AcceptedInv`), which is why an Event that fired was fired by an ACK of this bit
(`EventInv`).  Each action preserves each part; the lemmas on buffers (`RemoveAt`,
`Append`, `Carried` by index) are stated once.

MailboxStore.

- `StoreTypeCorrect` and `EntriesAlwaysHaveFiles` need no assumption.  The second follows
  from `FilesInv`: message files are never removed, a writer adds an entry only after its
  move, and every copy of the metadata on its way to the disk names existing files.
- `LocksExclude` assumes `WarmStore`, that each user's lock exists before it is raced
  for (`LockInv`).
- `SavedStaysListed`, `RemovedNeverReturns` and `StoreIsMailbox` assume `SoundStore`:
  `WarmStore`, and `metadata.json` can be read and written.  Message writes and moves
  may still fail and the process may crash anywhere.  `StoreInv` relates each worker's
  copy to the disk: between its load and its replacement it differs from the disk by
  its own update only, which the lock guarantees because no one else is inside the
  block, and a call is successful only once that update is there.

SmtpServer.

- `SmtpTypeCorrect` needs no assumption.  It includes that a worker never indexes a session
  object that is not there, although nobody locks the dictionary and both QUIT and the
  reaper take entries out of it.
- `NothingIsDropped` assumes `PatientClients`: a client whose link is sound and who is never
  silent for 300 seconds connects again only when the server has finished its QUIT.  The
  other clients may lose, fall silent and return as they like.  `SyncInv` says that the bits
  of both ends agree until the client leaves; `LastInv` that nothing follows a QUIT the
  server is working on, so that `reset_state` behind the 221 finds the link empty;
  `GreetInv` that no QUIT is left when a client is greeted, so that a QUIT of the last
  connection cannot take the new session away.
- `RepliesAreOwn`, `RepliesMatch`, `MessagesAreIntact`, `AcceptedMessagesAreStored` and
  `MessagesGoToTheirRecipient` assume `OnePart`, that a message fits one packet, which
  `smtp_chunks` shows to be needed as soon as there are two workers.  The first is about the
  clients who connect again only when the server has forgotten them, in the presence of
  others; the rest assume `AllPatient`, that all clients do.  Links are not assumed to be
  sound: any send of a client or of the server may give up, before or after its packet
  arrived, and the reaper may take the session of any client that has nothing in the pool.
  They hold for clients that give up on a 500 to their message, as `SMTPClient` does, and for
  messages none of whose lines begins with the name of a command; both are part of the model.
- `MessagesGoToTheirRecipient` also assumes `OneRecipient`: between two recipients that a
  client names there is a RSET or a QUIT.  `SMTPClient.send_email` names one per connection;
  section 5 says what becomes of a second one without a RSET.

The argument of the first four is that client and server take turns, which no lock enforces.
`FlowInv`, one client at a time: at most one of its packets is in the pool or waits for the
greeting (`OneInv`), it is the last one the client sent unless the client has given up
(`FitInv`), and the replies at the client and to come are never more than it waits for
(`TurnInv`), so that a queue is empty when the next command is sent.  Four things disturb
the turns, and the invariants say why none of them matters.  A client whose send gave up behind
the back of its packet sends one packet more, its QUIT, and that has the bit of the packet
that arrived: while anything of the client is at the server the receiver drops the QUIT
(`BitInv`).  A session that is made because the reaper took the one before starts with a
greeting and the bits of a new connection: what it sends has the wrong bit for a client that
waits for one reply, which drops it and gives up or is answered (`TurnInv`, `ForgetInv`).  A
reply that the server gave up on is not repeated, so that its client waits for good, but with
nothing more of it at the server.  And a message that a new session reads as commands brings
a 500 for every line: from the first on its client can only read a refusal and give up
(`Doomed`), and as long as a worker has lines of it left (`RestInv`, `LineInv`) nothing else of
the client is at the server unless it has sent its QUIT.

`StreamInv`: a session reads a message only while its client is about to be told 354
(`Waiting`), or about to send the message, or the message is on its way to the buffer
(`Mailing`), or the client has given up and its message or QUIT is the last that will come
(`Lost`); so only one worker is ever inside `_handle_data_stream` for a session, and what it
checks and copies is its own packet (`BufInv`).  A QUIT that is taken for a line of the message
stays in the buffer, of a session to which nothing will be added (`Final`, `Spent`).
`MailInv`: a message that is on its way to a handler, or that a worker has not answered, has not
been stored, and its client has used its number for a message (`StoredInv`); so it is stored
once.  Behind each 250 for a message, in a worker's hands, on its way or read, there is a
stored message with its number (`AcceptInv`).

The fifth relates a session's `rcpt_to` to what its client has said.  A packet of a client
that has not given up is the command of its script at that place (`SaidInv`), and a client
with a message to send has said DATA (`AskInv`).  `RcptInv`: as long as `rcpt_to` is not
empty, its first entry is the recipient of some command of this client that has been
handled, and since that command the client has said RSET or QUIT at most as its last
command, a RSET only while it is still to be handled.  All that holds while the client is on
track.  When it sends a message its last command is DATA, so no RSET or QUIT came after the
one that named the recipient, and by `OneRecipient` neither did another RCPT.  From then on,
whether the client gives up or not, `RightInv` carries the fact with the message: no step puts
somebody else first in `rcpt_to` while a message is on its way, since the only one that
could is a RCPT, and behind it nothing of the client is left at the server but commands.  The
clearing of `rcpt_to` behind the reply may come at any time, even after the next command: it
only makes these invariants easier.

Pop3Server.

- `Pop3TypeCorrect` and `DeletesOnlyMarked` need no assumption: any number of clients,
  any scripts, losses, deaths and storage failures, listings among them.
- The second is an action property that is not inductive.  Its invariant says of every session
  that is not stale that each marked number still names a message of `deled` (`MarkInv`),
  and of a QUIT at work that what it is about to delete are such messages
  (`DoomInv`).  Mail that arrives is appended, which moves no number; a deletion moves those
  behind it, and makes every other session of this mailbox stale.  That a deletion removes
  nothing but its message is a lemma on `RemoveAt` in `SequenceLemmas`.
- `ReadsWhatWasListed`, `DeletesOnlyRetrieved` and `LoopOutlivesFetches` assume `FetchPlans`,
  that who calls `get_all_messages()` calls nothing else, as the simulation does.  They are
  about clients on links without losses, beside others who may lose, die, fail and say what
  they like.

The argument of these three (`FetchInv`, one client at a time, in `Pop3FetchProofs`): until a
call fails, client and loop are at the same place.  What is left of the calls is what
`get_all_messages()` still has to do (`Course`: behind e messages that were read, the calls of
`Fetch` from the e-th pair on).  The bits agree (`BitInv`); every packet in the queue with the
client's bit is a copy of the call it is sending, behind copies of earlier calls (`QueueInv`,
needed because a send may be repeated while the loop is busy with a client that does not
answer).  So what the loop handles is the client's call, and the replies it still owes answer
that call (`TalkInv`, `OutInv`): of LIST the rest of the lines, each of which names what the
mailbox holds under its number (`ListOut`), of RETR the message of the number that is due
(`RetrOut`).  A call that fails, for a timeout or a refusal, leaves only `quit()` (`Lost`),
but packets of the calls before it may still wait in the queue: a DELE among them is one of a
message that was read (`DeleInv`), which is all that its deletion needs (`DeledInv`).
For the loop it remains that content is only sent for a RETR (`ContentInv`), that a QUIT in
its course finds a user who is logged in (`LoginInv`), and that its numbers are there
(`MarkInv` above).  `LoopOutlivesFetches` leaves two commands of such a client that may end the
loop: a RETR of a message that is too large and, where `MayFail` has `list`, a QUIT whose marked
messages are all in the mailbox, which only a listing that failed can make raise.  Without
`list` the second exception is void.

UserManager.

- `UserTypeCorrect` needs no assumption; it includes that the lock is held exactly between
  the change of the cache and the return of the user.
- `CreatedIsKept`, `LoginsAreCurrent` and `FileImplementsAccounts` assume `Readable`, that a
  `users.json` that is there can be read.  The invariant relates the three copies of an
  account: while the process runs, what can be loaded from the file is in the cache with
  the same password (`CacheInv`), and a temporary file that is about to replace `users.json`
  is the cache (`CallInv`).  So a save never takes away or changes an account, and a crash
  leaves a file that says no more than the cache did.

What `QuietLink`, `WarmStore`, `SoundStore`, `OnePart`, `AllPatient`, `OneRecipient` and
`Readable` exclude is not excluded by the code: sections 3 and 5 and the hazards say what
happens then.

## 5. Disagreements with the documentation

Shown by a run that TLC refutes:

- `rdt_giveup`: after a give-up `curr_seq` keeps its value.  If the packet had arrived
  and only ACKs were lost, the next `send` returns True for a payload the receiver drops.
- `mailbox_lock_race`: two first calls for one user create a lock each and run together;
  one overwrites the other's entry.
- `smtp_chunks`: packets of one message go to different workers, and the message that is
  stored misses one of them or has them in the wrong order.
- `pop3_refused`: QUIT in a session without a user raises out of the only serve loop.  One
  `get_all_messages()` with a wrong password ends the POP3 server for everybody.

Shown by earlier runs of the same modules under wider constants, and not run any more:

- `reset_state` for a peer whose sender goes on (`MayReset` of `Rdt` without give-ups) makes
  the receiver acknowledge and drop its next payload: `ConfirmedMeansDelivered` is violated.
- A save whose metadata could not be written is reported as done: `SavedIsListed` is
  violated when `Faults` of `MailboxStore` contains the metadata's writing.
- Recipients outlive a message that was refused, or are cleared after the reply; the next
  message goes to the first recipient of the session: `RightRecipient` is violated when a
  script of `SmtpServer` has two messages in one connection.
- A `metadata.json` that cannot be read lists as an empty mailbox (`mailbox_reader.py:68-74`).
  QUIT looks its marked numbers up in that list (`pop3_server.py:214-217`), and the `IndexError`
  leaves the only serve loop, behind a `get_all_messages()` without any failure before.
  `LoopSurvives` exempts this where `MayFail` has `list`, as in `pop3`; without the exemption
  it is violated there.

Met while modelling the POP3 server and the accounts; the properties exempt exactly these, as
their comments say, and `LoopSurvives` also the sessions that another one shifted the numbers of
(`stale`):

- A listing for a client that has gone takes five timeouts for every line
  (`pop3_server.py:157-160`).  Meanwhile the sends of other clients give up.  A RETR that is
  handled late then finds nobody to take the content, whose send raises out of the loop
  (`:187`); a QUIT that is sent with the bit of the packet that was given up is dropped as its
  duplicate, and `quit()` waits for ever (`pop3_client.py:39`).
- A message that is not ASCII is answered `+OK` and then `-ERR` (`:193`): the client waits for
  a `.` that never comes.  One that is larger than the receive buffer ends the loop (`:187`).
- The session survives its QUIT (`:221`): the next client of this address is not greeted and
  waits for ever, or acts in the name of the old one.  A QUIT whose ACK was lost is repeated
  and taken for a new command, because the bit was reset (`:223`): it deletes once more, by numbers
  that now name other messages.
- When a message in the middle cannot be read, `get_all_messages()` returns nothing and its
  `quit()` deletes the ones before (`pop3_client.py:139-143`).  A `get_all_messages()` whose
  `connect()` failed never closes its socket (`:100-107`).
- `create_user` accepts a password of white space that the next start does not load
  (`user.py`, `from_dict`).  A `users.json` that cannot be read is taken for an empty one and overwritten
  by the next save (`user_manager.py:91`).  On every second start the simulation finds its
  users in the cache, creates none, and leaves the emptied `users.json` as it is
  (`simulation.py:178-184`).

## 6. Not modelled, and the plan

Left to do, in this order:

1. More proved of what is only model-checked: of `SmtpServer`, `StoredIntact`,
   `AcceptedIsStored`, `RightRecipient` and `ReplyMatches` for clients that come back while
   the server still knows them, and for messages of several packets with one worker.
   Liveness stays with TLC.
2. Lines of a message that are commands, which a session made anew executes: a NOOP or RSET
   among them is answered 250, which the client may take for the acceptance of its message.
3. In `SmtpServer`, copies of a packet that arrive behind `reset_state`, which `Pop3Server` has.
4. `start` and `stop` of the two servers, which set the flag their loop ends with.

Left out for good: message parsing and MIME extraction (`models/email_data.py`),
logging, configuration, formatting of replies and of `to_string`, `set_password`, which nothing
calls, and the simulation's thread pool, statistics and comparison of subjects.  The
construction of the two singletons is not modelled because no two threads race for it:
`Simulation.__init__` (`simulation.py:117`) and the servers' (`smtp_server.py:58`,
`pop3_server.py:29-30`) make both in the main thread before any other thread runs.
