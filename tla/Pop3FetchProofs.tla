--------------------------- MODULE Pop3FetchProofs ---------------------------
(***************************************************************************)
(* Theorems about module Pop3Server: a get_all_messages() on a link without *)
(* losses reads what was listed, deletes only what it has read, and does    *)
(* not end the serve loop, whatever the other clients do.                   *)
(***************************************************************************)
EXTENDS Pop3Proofs

\* The calls of get_all_messages() up to LIST.
Opening == <<"connect", "USER", "PASS", "STAT", "LIST">>

\* All of them but the first k are to come.
Opens(calls, k) ==
  /\ Len(calls) = 5 - k
  /\ \A i \in 1 .. 5 - k : calls[i].verb = Opening[k + i] /\ (k + i = 5 => calls[i].num = 0)

\* Who calls get_all_messages() calls nothing else.
FetchPlans == \A p \in Plan, a \in Addr : p[a].all => Opens(p[a].calls, 0)

\* The last l of the calls behind LIST are to come.
Left(calls, listing, l) ==
  /\ Len(calls) = l
  /\ \A i \in 1 .. l : calls[i] = Fetch(listing)[2 * Len(listing) + 1 - l + i]

\* What is still to come, and what was read, at each call.
LoginCourse(c) ==
  /\ c.call.verb \in {"connect", "USER", "PASS", "STAT"} => c.listing = <<>> /\ c.emails = <<>>
  /\ c.call.verb = "connect" => Opens(c.calls, 1)
  /\ c.call.verb = "USER" => Opens(c.calls, 2)
  /\ c.call.verb = "PASS" => Opens(c.calls, 3)
  /\ c.call.verb = "STAT" => Opens(c.calls, 4) \/ (c.stage = "idle" /\ c.calls = <<Quit>>)

FetchCourse(c) ==
  LET n == Len(c.listing)
      e == Len(c.emails)
      left(l) == Left(c.calls, c.listing, l) IN
  /\ c.call.verb = "LIST" => /\ c.emails = <<>> /\ c.call.num = 0
                             /\ IF c.stage = "idle" THEN left(2 * n + 1) ELSE c.calls = <<>>
                             /\ c.stage \in {"sending", "status"} => c.listing = <<>>
  /\ c.call.verb = "RETR" => IF c.stage = "idle" THEN e >= 1 /\ left(2 * (n - e) + 2)
                             ELSE /\ e < n /\ left(2 * (n - e))
                                  /\ c.call = Retr(c.listing[e + 1].num)
  /\ c.call.verb = "DELE" => /\ e >= 1 /\ left(2 * (n - e) + 1)
                             /\ c.call = Dele(c.listing[e].num)
  /\ c.call.verb = "QUIT" => c.calls = <<>> /\ c.stage # "idle"

Course(c) ==
  /\ LoginCourse(c) /\ FetchCourse(c) /\ c.call.verb # "BAD"
  /\ c.stage = "lines" => c.call.verb \in {"LIST", "RETR"}
  /\ c.got # <<>> => c.stage = "lines" /\ c.call.verb = "RETR"

\* Nobody has heard of the client.
Fresh(a) ==
  LET c == client[a] IN
  /\ Opens(c.calls, 0) /\ c.listing = <<>> /\ c.emails = <<>> /\ c.got = <<>>
  /\ inbound[a] = <<>> /\ expected[a] = 0 /\ senders[a] = None
  /\ sessions[a] = NoSession
  /\ loop.addr = a => loop.at = "receive"

\* Copies of the last packet wait behind copies of the one before.
QueueInv(a) ==
  /\ \A i \in DOMAIN inbound[a] : inbound[a][i].bit = client[a].bit =>
       client[a].stage = "sending" /\ inbound[a][i].cmd = client[a].call
  /\ \A i, j \in DOMAIN inbound[a] : i < j /\ inbound[a][i].bit = client[a].bit =>
       inbound[a][j].bit = client[a].bit

BitInv(a) ==
  /\ expected[a] = client[a].bit
  /\ client[a].expects = IF senders[a] = None THEN 0 ELSE senders[a]
  /\ client[a].inbox = <<>>

LoginInv(a) ==
  LET c == client[a] IN
  /\ IF c.call.verb = "connect" /\ c.stage = "sending" THEN sessions[a] = NoSession
                                                       ELSE sessions[a].state # "NONE"
  /\ c.call.verb \in {"STAT", "LIST", "RETR", "DELE", "QUIT"} \/
     (c.call.verb = "PASS" /\ c.stage = "idle") => sessions[a].state = "TRANSACTION"

\* The number in r names the message in r.
Names(a, r) ==
  /\ sessions[a].state = "TRANSACTION"
  /\ r.num \in DOMAIN box[sessions[a].user] /\ box[sessions[a].user][r.num] = r.msg

ListOut(a) ==
  LET c == client[a]
      out == loop.out IN
  /\ c.stage = "status" => Len(out) >= 2 /\ out[1].kind = "ok"
  /\ \A i \in DOMAIN out :
       /\ i < Len(out) /\ ~(i = 1 /\ c.stage = "status") =>
            out[i].kind = "line" /\ Names(a, out[i])
       /\ i = Len(out) => out[i].kind = "end"

RetrOut(c, out) ==
  LET m == c.listing[Len(c.emails) + 1].msg IN
  IF c.stage = "status"
  THEN \/ /\ Len(out) = 3 /\ out[1].kind = "ok" /\ out[3].kind = "end"
          /\ out[2].kind = "content" /\ out[2].msg = m
       \/ Len(out) = 2 /\ out[1].kind = "ok" /\ out[2].kind = "err"
       \/ Len(out) = 1 /\ out[1].kind = "err"
  ELSE \/ /\ Len(out) = 2 /\ out[2].kind = "end" /\ c.got = <<>>
          /\ out[1].kind = "content" /\ out[1].msg = m
       \/ Len(out) = 1 /\ out[1].kind = "end" /\ c.got = <<m>>
       \/ Len(out) = 1 /\ out[1].kind = "err" /\ c.got = <<>>

\* The replies that are still to come answer the client's call.
OutInv(a) ==
  LET c == client[a] IN
  /\ loop.cmd = c.call /\ c.stage \in {"status", "lines"}
  /\ c.call.verb = "LIST" => ListOut(a)
  /\ c.call.verb = "RETR" => RetrOut(c, loop.out)
  /\ c.call.verb \notin {"LIST", "RETR"} => Len(loop.out) = 1 /\ c.stage = "status"
  /\ c.call.verb # "QUIT"
  /\ c.call.verb = "PASS" /\ loop.out[1].kind # "err" => sessions[a].state = "TRANSACTION"

TalkInv(a) ==
  LET c == client[a] IN
  loop.addr = a =>
    /\ loop.at = "greet" => /\ c.call.verb = "connect" /\ c.stage = "status"
                            /\ loop.cmd = c.call /\ Len(loop.out) = 1
    /\ loop.at = "handle" => IF loop.cmd.verb = "connect" THEN c.stage \in {"idle", "sending"}
                             ELSE loop.cmd = c.call /\ c.stage = "status"
    /\ loop.at = "send" => OutInv(a)
    /\ loop.at = "delete" => c.stage = "status" /\ loop.cmd = c.call

Started(a) == Course(client[a]) /\ BitInv(a) /\ QueueInv(a) /\ LoginInv(a) /\ TalkInv(a)

\* A call failed: QUIT is what is left.
Lost(c) ==
  \/ c.stage = "idle" /\ c.calls = <<Quit>>
  \/ c.stage \in {"sending", "status"} /\ c.call = Quit /\ c.calls = <<>>
  \/ c.stage = "closed" /\ c.calls = <<>>

ReadInv(c) ==
  /\ Len(c.emails) <= Len(c.listing)
  /\ \A i \in DOMAIN c.emails : c.emails[i] = <<c.listing[i].msg>>

ListedInv(a) ==
  ~Deletes(a) => \A i \in DOMAIN client[a].listing : Names(a, client[a].listing[i])

\* A DELE that may still be handled is one of a message that was read.
HasRead(c, cmd) == cmd.verb = "DELE" => \E i \in DOMAIN c.emails : c.listing[i].num = cmd.num
DeleInv(a) ==
  /\ \A i \in DOMAIN inbound[a] : HasRead(client[a], inbound[a][i].cmd)
  /\ loop.addr = a /\ loop.at \in {"greet", "handle"} => HasRead(client[a], loop.cmd)

DeledInv(a) ==
  \A m \in deled[a] : \E i \in DOMAIN client[a].emails : client[a].emails[i] = <<m>>

FetchInv(a) ==
  /\ losses[a] = 0
  /\ ReadInv(client[a]) /\ ListedInv(a) /\ DeleInv(a) /\ DeledInv(a)
  /\ IF client[a].fate = "nothing" THEN Lost(client[a])
     ELSE IF client[a].stage = "closed" THEN Fresh(a) ELSE Started(a)

AllFetch == \A a \in Addr \ stale : Sound(a) => FetchInv(a)

FetchIInv == IInv /\ AllFetch

-----------------------------------------------------------------------------
(* The calls that are to come                                              *)

LEMMA OpeningIs ==
  /\ Opening[1] = "connect" /\ Opening[2] = "USER" /\ Opening[3] = "PASS"
  /\ Opening[4] = "STAT" /\ Opening[5] = "LIST"
BY DEF Opening

LEMMA OpensHead ==
  ASSUME NEW calls \in Seq(Command), NEW k \in 0 .. 4, Opens(calls, k)
  PROVE  /\ calls # <<>> /\ Head(calls).verb = Opening[k + 1]
         /\ k = 4 => Head(calls).num = 0
         /\ Opens(Tail(calls), k + 1)
<1>1. Len(calls) = 5 - k /\ 1 \in 1 .. 5 - k
  BY DEF Opens
<1>2. calls # <<>> /\ Head(calls) = calls[1]
  BY <1>1
<1>3. Len(Tail(calls)) = 5 - (k + 1) /\ \A i \in 1 .. 5 - (k + 1) : Tail(calls)[i] = calls[i + 1]
  BY <1>1, <1>2
<1>4. \A i \in 1 .. 5 - (k + 1) : i + 1 \in 1 .. 5 - k /\ k + 1 + i = k + (i + 1)
  OBVIOUS
<1> QED
  BY <1>1, <1>2, <1>3, <1>4 DEF Opens

\* Behind LIST come RETR and DELE of each line, and QUIT.
LEMMA FetchItems ==
  ASSUME NEW s \in Seq(NumberOf)
  PROVE  /\ Len(Fetch(s)) = 2 * Len(s) + 1 /\ Fetch(s)[2 * Len(s) + 1] = Quit
         /\ \A k \in 1 .. Len(s) : /\ Fetch(s)[2 * k - 1] = Retr(s[k].num)
                                   /\ Fetch(s)[2 * k] = Dele(s[k].num)
<1> DEFINE f == [k \in 1 .. 2 * Len(s) |-> LET i == s[(k + 1) \div 2].num IN
                                           IF k % 2 = 1 THEN Retr(i) ELSE Dele(i)]
<1>1. Len(s) \in Nat /\ DOMAIN f = 1 .. 2 * Len(s)
  OBVIOUS
<1>2. ASSUME NEW k \in 1 .. Len(s)
      PROVE  f[2 * k - 1] = Retr(s[k].num) /\ f[2 * k] = Dele(s[k].num)
  <2>1. 2 * k - 1 \in 1 .. 2 * Len(s) /\ 2 * k \in 1 .. 2 * Len(s)
    BY <1>1
  <2>2. (2 * k - 1 + 1) \div 2 = k /\ (2 * k + 1) \div 2 = k
    OBVIOUS
  <2>3. (2 * k - 1) % 2 = 1 /\ (2 * k) % 2 = 0
    OBVIOUS
  <2> QED
    BY <2>1, <2>2, <2>3
<1>3. ASSUME NEW k \in 1 .. 2 * Len(s) PROVE f[k] \in Command
  <2>1. (k + 1) \div 2 \in 1 .. Len(s)
    BY <1>1
  <2>2. s[(k + 1) \div 2] \in NumberOf
    BY <2>1
  <2>3. s[(k + 1) \div 2].num \in Nat
    BY <2>2 DEF NumberOf
  <2> QED
    BY <2>3, CommandType
<1>4. f \in Seq(Command) /\ Len(f) = 2 * Len(s)
  <2>1. f \in [1 .. 2 * Len(s) -> Command]
    BY <1>3
  <2> HIDE DEF f
  <2> QED
    BY <1>1, <2>1
<1> HIDE DEF f
<1>5. /\ Len(f \o <<Quit>>) = 2 * Len(s) + 1 /\ (f \o <<Quit>>)[2 * Len(s) + 1] = Quit
      /\ \A k \in 1 .. 2 * Len(s) : (f \o <<Quit>>)[k] = f[k]
  BY <1>1, <1>4, CommandType
<1>6. \A k \in 1 .. Len(s) : 2 * k - 1 \in 1 .. 2 * Len(s) /\ 2 * k \in 1 .. 2 * Len(s)
  BY <1>1
<1> QED
  BY <1>2, <1>5, <1>6 DEF Fetch, f

LEMMA LeftTail ==
  ASSUME NEW calls \in Seq(Command), NEW s \in Seq(NumberOf), NEW l \in Nat \ {0},
         Left(calls, s, l)
  PROVE  /\ calls # <<>> /\ Head(calls) = Fetch(s)[2 * Len(s) + 2 - l]
         /\ Left(Tail(calls), s, l - 1)
<1>1. Len(calls) = l /\ 1 \in 1 .. l /\ Len(s) \in Nat
  BY DEF Left
<1>2. calls # <<>> /\ Head(calls) = calls[1]
  BY <1>1
<1>3. Len(Tail(calls)) = l - 1 /\ \A i \in 1 .. l - 1 : Tail(calls)[i] = calls[i + 1]
  BY <1>1, <1>2
<1>4. \A i \in 1 .. l - 1 : /\ i + 1 \in 1 .. l
                           /\ 2 * Len(s) + 1 - l + (i + 1) = 2 * Len(s) + 1 - (l - 1) + i
  BY <1>1
<1>5. 2 * Len(s) + 1 - l + 1 = 2 * Len(s) + 2 - l
  BY <1>1
<1> QED
  BY <1>1, <1>2, <1>3, <1>4, <1>5 DEF Left

\* The next call when the first e messages are dealt with,
LEMMA LeftRetr ==
  ASSUME NEW calls \in Seq(Command), NEW s \in Seq(NumberOf), NEW e \in 0 .. Len(s),
         Left(calls, s, 2 * (Len(s) - e) + 1)
  PROVE  /\ calls # <<>> /\ Left(Tail(calls), s, 2 * (Len(s) - e))
         /\ e < Len(s) => Head(calls) = Retr(s[e + 1].num)
         /\ e = Len(s) => Head(calls) = Quit
<1> DEFINE l == 2 * (Len(s) - e) + 1
<1>1. Len(s) \in Nat /\ l \in Nat \ {0}
  OBVIOUS
<1>2. 2 * Len(s) + 2 - l = 2 * (e + 1) - 1 /\ l - 1 = 2 * (Len(s) - e)
  BY <1>1
<1>3. e = Len(s) => 2 * (e + 1) - 1 = 2 * Len(s) + 1
  BY <1>1
<1>4. e < Len(s) => e + 1 \in 1 .. Len(s)
  BY <1>1
<1> HIDE DEF l
<1>5. calls # <<>> /\ Head(calls) = Fetch(s)[2 * Len(s) + 2 - l] /\ Left(Tail(calls), s, l - 1)
  BY <1>1, LeftTail DEF l
<1>6. Head(calls) = Fetch(s)[2 * (e + 1) - 1] /\ Left(Tail(calls), s, 2 * (Len(s) - e))
  BY <1>2, <1>5
<1>7. e < Len(s) => Fetch(s)[2 * (e + 1) - 1] = Retr(s[e + 1].num)
  BY <1>4, FetchItems
<1> QED
  BY <1>3, <1>5, <1>6, <1>7, FetchItems

\* and when the e-th message was read.
LEMMA LeftDele ==
  ASSUME NEW calls \in Seq(Command), NEW s \in Seq(NumberOf), NEW e \in 1 .. Len(s),
         Left(calls, s, 2 * (Len(s) - e) + 2)
  PROVE  /\ calls # <<>> /\ Left(Tail(calls), s, 2 * (Len(s) - e) + 1)
         /\ Head(calls) = Dele(s[e].num)
<1> DEFINE l == 2 * (Len(s) - e) + 2
<1>1. Len(s) \in Nat /\ l \in Nat \ {0}
  OBVIOUS
<1>2. 2 * Len(s) + 2 - l = 2 * e /\ l - 1 = 2 * (Len(s) - e) + 1
  BY <1>1
<1> HIDE DEF l
<1>3. calls # <<>> /\ Head(calls) = Fetch(s)[2 * Len(s) + 2 - l] /\ Left(Tail(calls), s, l - 1)
  BY <1>1, LeftTail DEF l
<1>4. Head(calls) = Fetch(s)[2 * e] /\ Left(Tail(calls), s, 2 * (Len(s) - e) + 1)
  BY <1>2, <1>3
<1> QED
  BY <1>3, <1>4, FetchItems

\* Behind LIST all is left.
LEMMA FetchLeft ==
  ASSUME NEW s \in Seq(NumberOf)
  PROVE  Left(Fetch(s), s, 2 * Len(s) + 1)
<1>1. \A i \in 1 .. 2 * Len(s) + 1 : 2 * Len(s) + 1 - (2 * Len(s) + 1) + i = i
  OBVIOUS
<1> QED
  BY <1>1, FetchItems DEF Left
-----------------------------------------------------------------------------
(* What becomes of the client                                              *)

LEMMA ClientFields ==
  ASSUME NEW c \in ClientType
  PROVE  /\ c.call \in Command /\ c.calls \in Seq(Command) /\ c.inbox \in Seq(ReplyType)
         /\ c.listing \in Seq(NumberOf) /\ Len(c.listing) \in Nat
         /\ c.got \in Seq(Msg \union {None})
         /\ c.emails \in Seq(Seq(Msg \union {None})) /\ Len(c.emails) \in Nat
         /\ c.bit \in {0, 1} /\ c.expects \in {0, 1} /\ c.fate \in {"emails", "nothing"}
         /\ c.stage \in {"closed", "idle", "sending", "status", "lines"}
BY DEF ClientType

\* What a call that fails leaves alone, and a reply that is read.
Kept(c, d) ==
  d.all = c.all /\ d.faults = c.faults /\ d.listing = c.listing /\ d.emails = c.emails

Onward(c, d) == /\ d.all = c.all /\ d.faults = c.faults /\ d.fate = c.fate
                /\ d.call = c.call /\ d.bit = c.bit /\ d.inbox = c.inbox
                /\ d.expects = 1 - c.expects

LEMMA ClosedFields ==
  ASSUME NEW c \in ClientType, NEW calls
  PROVE  LET d == Closed(c, calls) IN
         /\ d.stage = "closed" /\ d.calls = calls /\ d.fate = c.fate
         /\ d.expects = 0 /\ d.inbox = <<>> /\ Kept(c, d)
BY DEF Closed, NewClient, ClientType, Kept

LEMMA FailedFields ==
  ASSUME NEW c \in ClientType
  PROVE  Lost(Failed(c)) /\ Failed(c).fate = "nothing" /\ Kept(c, Failed(c))
<1>1. CASE c.call.verb \in {"connect", "QUIT"}
  <2> DEFINE b == [c EXCEPT !.fate = "nothing"]
  <2>1. b \in ClientType /\ b.fate = "nothing" /\ Kept(c, b)
    BY DEF ClientType, Kept
  <2>2. Failed(c) = Closed(b, <<>>)
    BY <1>1 DEF Failed
  <2> HIDE DEF b
  <2> QED
    BY <2>1, <2>2, ClosedFields DEF Lost, Kept
<1>2. CASE c.call.verb \notin {"connect", "QUIT"}
  <2> DEFINE quits == <<Quit>>
  <2>1. Failed(c) = [c EXCEPT !.stage = "idle", !.calls = quits, !.got = <<>>, !.tries = 0,
                              !.fate = "nothing"]
    BY <1>2 DEF Failed
  <2>2. Failed(c).stage = "idle" /\ Failed(c).calls = quits
    BY <2>1 DEF ClientType
  <2>3. Failed(c).fate = "nothing" /\ Kept(c, Failed(c))
    BY <2>1 DEF ClientType, Kept
  <2> QED
    BY <2>2, <2>3 DEF Lost
<1> QED
  BY <1>1, <1>2

LEMMA RefusedFields ==
  ASSUME NEW c \in ClientType, c.all
  PROVE  Lost(Refused(c)) /\ Refused(c).fate = "nothing" /\ Kept(c, Refused(c))
<1>1. Failed(c) \in ClientType
  BY FailedType
<1>2. Refused(c) = [Failed(c) EXCEPT !.calls = Failed(c).calls]
  BY <1>1 DEF Refused, ClientType
<1>3. [Failed(c) EXCEPT !.calls = Failed(c).calls] = Failed(c)
  BY <1>1 DEF ClientType
<1> QED
  BY <1>2, <1>3, FailedFields

LEMMA ReturnedFields ==
  ASSUME NEW c \in ClientType, NEW count, NEW d, d = Returned(c, count),
         c.call.verb # "QUIT", c.all
  PROVE  /\ d.stage = "idle" /\ d.call = c.call /\ d.listing = c.listing
         /\ d.all /\ d.faults = c.faults /\ d.fate = c.fate
         /\ d.bit = c.bit /\ d.expects = c.expects /\ d.inbox = c.inbox
         /\ c.call.verb = "RETR" => d.emails = Append(c.emails, c.got) /\ d.got = <<>>
         /\ c.call.verb # "RETR" => d.emails = c.emails /\ d.got = c.got
         /\ c.call.verb = "LIST" => d.calls = Fetch(c.listing)
         /\ c.call.verb = "STAT" => d.calls = c.calls \/ d.calls = <<Quit>>
         /\ c.call.verb \notin {"LIST", "STAT"} => d.calls = c.calls
<1> DEFINE done == [c EXCEPT !.stage = "idle"]
           quits == <<Quit>>
           fetches == Fetch(c.listing)
           emails == Append(c.emails, c.got)
<1>1. done \in ClientType /\ done.emails = c.emails
  BY DEF ClientType
<1>2. CASE c.call.verb = "STAT" /\ count = 0
  <2>1. Returned(c, count) = [done EXCEPT !.calls = quits]
    BY <1>2 DEF Returned
  <2> HIDE DEF quits
  <2>2. [done EXCEPT !.calls = quits].calls = quits
    BY <1>1 DEF ClientType
  <2> QED
    BY <1>2, <2>1, <2>2 DEF ClientType, quits
<1>3. CASE c.call.verb = "LIST"
  <2>1. Returned(c, count) = [done EXCEPT !.calls = fetches]
    BY <1>3 DEF Returned
  <2> HIDE DEF fetches
  <2>2. [done EXCEPT !.calls = fetches].calls = fetches
    BY <1>1 DEF ClientType
  <2> QED
    BY <1>3, <2>1, <2>2 DEF ClientType, fetches
<1>4. CASE c.call.verb = "RETR"
  <2>1. Returned(c, count) = [done EXCEPT !.got = <<>>, !.emails = emails]
    BY <1>1, <1>4 DEF Returned
  <2> HIDE DEF emails
  <2>2. [done EXCEPT !.got = <<>>, !.emails = emails].emails = emails
    BY <1>1 DEF ClientType
  <2> QED
    BY <1>4, <2>1, <2>2 DEF ClientType, emails
<1>5. CASE c.call.verb \notin {"LIST", "RETR"} /\ ~(c.call.verb = "STAT" /\ count = 0)
  <2>1. Returned(c, count) = done
    BY <1>5 DEF Returned
  <2> QED
    BY <1>5, <2>1 DEF ClientType
<1> QED
  BY <1>2, <1>3, <1>4, <1>5

\* The client takes its next call.
LEMMA CallCourse ==
  ASSUME NEW c \in ClientType, NEW d \in ClientType, Course(c), ReadInv(c),
         c.stage = "idle", c.calls # <<>>,
         d.stage = "sending", d.call = Head(c.calls), d.calls = Tail(c.calls), d.got = c.got,
         d.listing = c.listing, d.emails = c.emails
  PROVE  /\ Course(d) /\ d.call.verb # "connect" /\ HasRead(d, d.call)
         /\ d.call.verb \in {"STAT", "LIST", "RETR", "DELE", "QUIT"} =>
              c.call.verb \notin {"connect", "USER"}
<1>1. /\ c.calls \in Seq(Command) /\ c.listing \in Seq(NumberOf) /\ Len(c.listing) \in Nat
      /\ c.emails \in Seq(Seq(Msg \union {None})) /\ Len(c.emails) \in 0 .. Len(c.listing)
      /\ c.call \in Command /\ c.got = <<>> /\ d.calls \in Seq(Command)
  BY DEF ClientType, ReadInv, Course
<1>2. c.call.verb \in {"connect", "USER", "PASS", "STAT", "LIST", "RETR", "DELE"}
  BY <1>1 DEF Course, FetchCourse, Command, Verb
<1>3. CASE c.call.verb \in {"connect", "USER", "PASS"} \/
           (c.call.verb = "STAT" /\ Opens(c.calls, 4))
  <2>1. PICK k \in 1 .. 4 : /\ Opens(c.calls, k)
                            /\ c.call.verb = Opening[k]
    BY <1>3, OpeningIs DEF Course, LoginCourse
  <2>2. /\ d.call.verb = Opening[k + 1] /\ (k = 4 => d.call.num = 0)
        /\ Opens(d.calls, k + 1)
    BY <1>1, <2>1, OpensHead
  <2>3. k = 4 => d.calls = <<>>
    <3>1. k = 4 => Len(d.calls) = 0
      BY <2>2 DEF Opens
    <3> QED
      BY <1>1, <3>1, EmptySeq
  <2>4. d.listing = <<>> /\ d.emails = <<>> /\ d.got = <<>>
    BY <1>1, <1>3 DEF Course, LoginCourse
  <2>5. CASE k = 1
    BY <2>1, <2>2, <2>4, <2>5, OpeningIs DEF Course, LoginCourse, FetchCourse, HasRead
  <2>6. CASE k = 2
    BY <2>1, <2>2, <2>4, <2>6, OpeningIs DEF Course, LoginCourse, FetchCourse, HasRead
  <2>7. CASE k = 3
    BY <2>1, <2>2, <2>4, <2>7, OpeningIs DEF Course, LoginCourse, FetchCourse, HasRead
  <2>8. CASE k = 4
    BY <2>1, <2>2, <2>3, <2>4, <2>8, OpeningIs DEF Course, LoginCourse, FetchCourse, HasRead
  <2> QED
    BY <2>5, <2>6, <2>7, <2>8
<1>4. ASSUME d.call.verb = "QUIT", d.calls = <<>>, c.call.verb \notin {"connect", "USER"}
      PROVE  /\ Course(d) /\ d.call.verb # "connect" /\ HasRead(d, d.call)
             /\ c.call.verb \notin {"connect", "USER"}
  BY <1>1, <1>4 DEF Course, LoginCourse, FetchCourse, HasRead
<1>5. CASE c.call.verb = "STAT" /\ c.calls = <<Quit>>
  <2>1. d.call.verb = "QUIT" /\ d.calls = <<>>
    BY <1>5, CommandType DEF Quit
  <2> QED
    BY <1>4, <1>5, <2>1
<1>6. CASE c.call.verb = "LIST" \/ c.call.verb = "DELE"
  <2>1. Left(c.calls, c.listing, 2 * (Len(c.listing) - Len(c.emails)) + 1)
    <3>1. CASE c.call.verb = "LIST"
      <4>1. Len(c.emails) = 0 /\ Left(c.calls, c.listing, 2 * Len(c.listing) + 1)
        BY <3>1 DEF Course, FetchCourse
      <4> QED
        BY <1>1, <4>1
    <3>2. CASE c.call.verb = "DELE"
      BY <3>2 DEF Course, FetchCourse
    <3> QED
      BY <1>6, <3>1, <3>2
  <2>2. /\ Left(d.calls, d.listing, 2 * (Len(c.listing) - Len(c.emails)))
        /\ Len(c.emails) < Len(c.listing) =>
             d.call = Retr(c.listing[Len(c.emails) + 1].num)
        /\ Len(c.emails) = Len(c.listing) => d.call = Quit
    <3>1. PICK q \in Seq(Command), s \in Seq(NumberOf), e \in Nat :
            q = c.calls /\ s = c.listing /\ e = Len(c.emails) /\ e \in 0 .. Len(s)
      BY <1>1
    <3>2. Left(q, s, 2 * (Len(s) - e) + 1)
      BY <2>1, <3>1
    <3>3. /\ Left(Tail(q), s, 2 * (Len(s) - e))
          /\ e < Len(s) => Head(q) = Retr(s[e + 1].num)
          /\ e = Len(s) => Head(q) = Quit
      BY <3>1, <3>2, LeftRetr
    <3> QED
      BY <3>1, <3>3
  <2>3. CASE Len(c.emails) = Len(c.listing)
    <3>1. Len(d.calls) = 0
      BY <1>1, <2>2, <2>3 DEF Left
    <3>2. d.calls = <<>>
      BY <1>1, <3>1, EmptySeq
    <3>3. d.call.verb = "QUIT"
      BY <2>2, <2>3 DEF Quit
    <3> QED
      BY <1>4, <1>6, <3>2, <3>3
  <2>4. CASE Len(c.emails) < Len(c.listing)
    <3>1. d.call.verb = "RETR" /\ d.call = Retr(d.listing[Len(d.emails) + 1].num)
      BY <2>2, <2>4 DEF Retr
    <3>2. LoginCourse(d) /\ HasRead(d, d.call)
      BY <3>1 DEF LoginCourse, HasRead
    <3>3. FetchCourse(d)
      BY <2>2, <2>4, <3>1 DEF FetchCourse
    <3> QED
      BY <1>1, <1>6, <3>1, <3>2, <3>3 DEF Course
  <2> QED
    BY <1>1, <2>3, <2>4
<1>7. CASE c.call.verb = "RETR"
  <2>1. /\ Len(c.emails) >= 1
        /\ Left(c.calls, c.listing, 2 * (Len(c.listing) - Len(c.emails)) + 2)
    BY <1>7 DEF Course, FetchCourse
  <2>2. /\ Left(d.calls, d.listing, 2 * (Len(d.listing) - Len(d.emails)) + 1)
        /\ d.call = Dele(d.listing[Len(d.emails)].num)
    <3>1. PICK q \in Seq(Command), s \in Seq(NumberOf), e \in Nat :
            q = c.calls /\ s = c.listing /\ e = Len(c.emails) /\ e \in 1 .. Len(s)
      BY <1>1, <2>1
    <3>2. Left(q, s, 2 * (Len(s) - e) + 2)
      BY <2>1, <3>1
    <3>3. Left(Tail(q), s, 2 * (Len(s) - e) + 1) /\ Head(q) = Dele(s[e].num)
      BY <3>1, <3>2, LeftDele
    <3> QED
      BY <3>1, <3>3
  <2>3. d.call.verb = "DELE" /\ d.call.num = d.listing[Len(d.emails)].num
        /\ Len(d.emails) \in DOMAIN d.emails
    BY <1>1, <2>1, <2>2 DEF Dele
  <2>4. LoginCourse(d) /\ HasRead(d, d.call)
    BY <2>3 DEF LoginCourse, HasRead
  <2>5. d.call = Dele(d.listing[Len(d.emails)].num)
    BY <2>2
  <2>6. FetchCourse(d)
    BY <2>1, <2>2, <2>3, <2>5, Zenon DEF FetchCourse
  <2> QED
    BY <1>1, <1>7, <2>3, <2>4, <2>6 DEF Course
<1> QED
  BY <1>2, <1>3, <1>5, <1>6, <1>7 DEF Course, LoginCourse

\* The calls go on while what they depend on stays.
LEMMA CourseKept ==
  ASSUME NEW c, NEW d, Course(c),
         d.call = c.call, d.calls = c.calls, d.listing = c.listing, d.emails = c.emails,
         d.got = c.got, d.stage = c.stage \/ (c.stage = "sending" /\ d.stage = "status")
  PROVE  Course(d)
<1>1. LoginCourse(d)
  BY DEF Course, LoginCourse
<1>2. FetchCourse(d)
  BY DEF Course, FetchCourse
<1> QED
  BY <1>1, <1>2 DEF Course

\* What a client makes of the reply that it waits for.
LEMMA ReadFields ==
  ASSUME NEW c \in ClientType, NEW r, r.bit = c.expects
  PROVE  \E b \in ClientType :
           /\ b.expects = 1 - c.expects
           /\ b.stage = c.stage /\ b.call = c.call /\ b.calls = c.calls /\ b.all = c.all
           /\ b.faults = c.faults /\ b.bit = c.bit /\ b.inbox = c.inbox
           /\ b.listing = c.listing /\ b.got = c.got /\ b.emails = c.emails
           /\ b.fate = c.fate
           /\ c.stage = "status" => Read(c, r) = Status(b, r)
           /\ c.stage = "lines" => Read(c, r) = Line(b, r)
<1> DEFINE b == [c EXCEPT !.expects = 1 - @]
<1>1. 1 - c.expects \in {0, 1}
  BY DEF ClientType
<1>2. /\ b \in ClientType /\ b.expects = 1 - c.expects
      /\ b.stage = c.stage /\ b.call = c.call /\ b.calls = c.calls /\ b.all = c.all
      /\ b.faults = c.faults /\ b.bit = c.bit /\ b.inbox = c.inbox
      /\ b.listing = c.listing /\ b.got = c.got /\ b.emails = c.emails
      /\ b.fate = c.fate
  BY <1>1 DEF ClientType
<1>3. /\ c.stage = "status" => Read(c, r) = Status(b, r)
      /\ c.stage = "lines" => Read(c, r) = Line(b, r)
  BY DEF Read
<1> HIDE DEF b
<1> QED
  BY <1>2, <1>3

\* A reply of one line.
LEMMA ReadPlain ==
  ASSUME NEW c \in ClientType, NEW r \in ReplyType, NEW d, d = Read(c, r),
         c.all, c.stage = "status", r.bit = c.expects, Course(c),
         c.call.verb \notin {"LIST", "RETR", "QUIT"}
  PROVE  /\ Kept(c, d)
         /\ \/ Lost(d) /\ d.fate = "nothing"
            \/ /\ Course(d) /\ Onward(c, d) /\ d.stage = "idle"
               /\ r.kind # "err"
<1>1. PICK b \in ClientType :
        /\ b.expects = 1 - c.expects
        /\ b.stage = c.stage /\ b.call = c.call /\ b.calls = c.calls /\ b.all = c.all
        /\ b.faults = c.faults /\ b.bit = c.bit /\ b.inbox = c.inbox
        /\ b.listing = c.listing /\ b.got = c.got /\ b.emails = c.emails
        /\ b.fate = c.fate
        /\ d = Status(b, r)
  BY ReadFields
<1>2. d = Refused(b) \/ (d = Returned(b, r.num) /\ r.kind # "err")
  BY <1>1 DEF Status
<1>3. CASE d = Refused(b)
  BY <1>1, <1>3, RefusedFields DEF Kept
<1>4. CASE d = Returned(b, r.num) /\ r.kind # "err"
  <2>1. /\ d.stage = "idle" /\ d.call = c.call /\ d.listing = c.listing
        /\ d.all = c.all /\ d.faults = c.faults /\ d.fate = c.fate
        /\ d.bit = c.bit /\ d.expects = 1 - c.expects /\ d.inbox = c.inbox
        /\ d.emails = c.emails /\ d.got = c.got
        /\ d.calls = c.calls \/ (c.call.verb = "STAT" /\ d.calls = <<Quit>>)
    <3>1. b.call.verb # "QUIT" /\ b.call.verb \notin {"RETR", "LIST"} /\ b.all
      BY <1>1
    <3>2. /\ d.stage = "idle" /\ d.call = b.call /\ d.listing = b.listing
          /\ d.all /\ d.faults = b.faults /\ d.fate = b.fate
          /\ d.bit = b.bit /\ d.expects = b.expects /\ d.inbox = b.inbox
      BY <1>4, <3>1, ReturnedFields
    <3>3. /\ b.call.verb # "RETR" => d.emails = b.emails /\ d.got = b.got
          /\ b.call.verb = "STAT" => d.calls = b.calls \/ d.calls = <<Quit>>
          /\ b.call.verb \notin {"LIST", "STAT"} => d.calls = b.calls
      BY <1>4, <3>1, ReturnedFields
    <3> QED
      BY <1>1, <3>1, <3>2, <3>3
  <2>2. c.got = <<>>
    BY DEF Course
  <2>3. LoginCourse(d)
    BY <2>1 DEF Course, LoginCourse
  <2>4. FetchCourse(d)
    BY <2>1 DEF Course, FetchCourse
  <2> QED
    BY <1>4, <2>1, <2>2, <2>3, <2>4 DEF Course, Kept, Onward
<1> QED
  BY <1>2, <1>3, <1>4

\* The first line of a longer one.
LEMMA ReadFirst ==
  ASSUME NEW c \in ClientType, NEW r \in ReplyType, NEW d, d = Read(c, r),
         c.all, c.stage = "status", r.bit = c.expects, Course(c),
         c.call.verb \in {"LIST", "RETR"}
  PROVE  /\ Kept(c, d)
         /\ \/ Lost(d) /\ d.fate = "nothing"
            \/ /\ Course(d) /\ Onward(c, d) /\ d.stage = "lines" /\ d.got = <<>>
               /\ r.kind # "err"
<1>1. PICK b \in ClientType :
        /\ b.expects = 1 - c.expects
        /\ b.stage = c.stage /\ b.call = c.call /\ b.calls = c.calls /\ b.all = c.all
        /\ b.faults = c.faults /\ b.bit = c.bit /\ b.inbox = c.inbox
        /\ b.listing = c.listing /\ b.got = c.got /\ b.emails = c.emails
        /\ b.fate = c.fate
        /\ d = Status(b, r)
  BY ReadFields
<1> DEFINE e == [b EXCEPT !.stage = "lines"]
<1>2. /\ e.stage = "lines" /\ e.call = c.call /\ e.listing = c.listing
      /\ e.all = c.all /\ e.faults = c.faults /\ e.fate = c.fate
      /\ e.bit = c.bit /\ e.expects = 1 - c.expects /\ e.inbox = c.inbox
      /\ e.emails = c.emails /\ e.got = c.got /\ e.calls = c.calls
  BY <1>1 DEF ClientType
<1>3. c.call.verb = "LIST" => c.call.num = 0
  BY DEF Course, FetchCourse
<1>4. d = Refused(b) \/ (d = e /\ r.kind # "err")
  BY <1>1, <1>3 DEF Status
<1> HIDE DEF e
<1>5. CASE d = Refused(b)
  BY <1>1, <1>5, RefusedFields DEF Kept
<1>6. CASE d = e /\ r.kind # "err"
  <2>1. c.got = <<>>
    BY DEF Course
  <2>2. LoginCourse(d)
    BY <1>2, <1>6 DEF Course, LoginCourse
  <2>3. FetchCourse(d)
    BY <1>2, <1>6, ZenonT(60) DEF Course, FetchCourse
  <2> QED
    BY <1>2, <1>6, <2>1, <2>2, <2>3 DEF Course, Kept, Onward
<1> QED
  BY <1>4, <1>5, <1>6

\* A line of the listing,
LEMMA ReadLine ==
  ASSUME NEW c \in ClientType, NEW r \in ReplyType, NEW d, d = Read(c, r),
         c.stage = "lines", r.bit = c.expects, Course(c), c.call.verb = "LIST", r.kind = "line"
  PROVE  /\ Course(d) /\ Onward(c, d) /\ d.stage = "lines" /\ d.emails = c.emails
         /\ d.listing = Append(c.listing, [num |-> r.num, msg |-> r.msg])
<1>1. PICK b \in ClientType :
        /\ b.expects = 1 - c.expects
        /\ b.stage = c.stage /\ b.call = c.call /\ b.calls = c.calls /\ b.all = c.all
        /\ b.faults = c.faults /\ b.bit = c.bit /\ b.inbox = c.inbox
        /\ b.listing = c.listing /\ b.got = c.got /\ b.emails = c.emails
        /\ b.fate = c.fate
        /\ d = Line(b, r)
  BY ReadFields
<1> DEFINE new == Append(c.listing, [num |-> r.num, msg |-> r.msg])
<1>2. d = [b EXCEPT !.listing = new]
  BY <1>1 DEF Line
<1> HIDE DEF new
<1>3. /\ d.listing = new /\ d.stage = "lines" /\ d.call = c.call /\ d.calls = c.calls
      /\ d.all = c.all /\ d.faults = c.faults /\ d.fate = c.fate /\ d.bit = c.bit
      /\ d.inbox = c.inbox /\ d.expects = 1 - c.expects /\ d.emails = c.emails
      /\ d.got = c.got
  BY <1>1, <1>2 DEF ClientType
<1>4. LoginCourse(d)
  BY <1>3 DEF LoginCourse
<1>5. FetchCourse(d)
  BY <1>3 DEF Course, FetchCourse
<1> QED
  BY <1>3, <1>4, <1>5 DEF Course, Onward, new

\* the end of it,
LEMMA ReadListEnd ==
  ASSUME NEW c \in ClientType, NEW r \in ReplyType, NEW d, d = Read(c, r), c.all,
         c.stage = "lines", r.bit = c.expects, Course(c), c.call.verb = "LIST", r.kind = "end"
  PROVE  Course(d) /\ Onward(c, d) /\ Kept(c, d) /\ d.stage = "idle"
<1>1. PICK b \in ClientType :
        /\ b.expects = 1 - c.expects
        /\ b.stage = c.stage /\ b.call = c.call /\ b.calls = c.calls /\ b.all = c.all
        /\ b.faults = c.faults /\ b.bit = c.bit /\ b.inbox = c.inbox
        /\ b.listing = c.listing /\ b.got = c.got /\ b.emails = c.emails
        /\ b.fate = c.fate
        /\ d = Line(b, r)
  BY ReadFields
<1>2. d = Returned(b, 0)
  BY <1>1 DEF Line
<1>3. b.call.verb = "LIST" /\ b.all
  BY <1>1
<1>4. /\ d.stage = "idle" /\ d.call = b.call /\ d.listing = b.listing
      /\ d.all /\ d.faults = b.faults /\ d.fate = b.fate
      /\ d.bit = b.bit /\ d.expects = b.expects /\ d.inbox = b.inbox
      /\ d.emails = b.emails /\ d.got = b.got /\ d.calls = Fetch(b.listing)
  BY <1>2, <1>3, ReturnedFields
<1>5. d.all = c.all
  <2>1. d \in ClientType
    BY <1>2, ReturnedType
  <2> QED
    BY <1>4, <2>1 DEF ClientType
<1>6. /\ d.stage = "idle" /\ d.call = c.call /\ d.listing = c.listing
      /\ d.all = c.all /\ d.faults = c.faults /\ d.fate = c.fate
      /\ d.bit = c.bit /\ d.expects = 1 - c.expects /\ d.inbox = c.inbox
      /\ d.emails = c.emails /\ d.got = c.got /\ d.calls = Fetch(d.listing)
  BY <1>1, <1>4, <1>5
<1>7. Left(d.calls, d.listing, 2 * Len(d.listing) + 1)
  <2>1. d.listing \in Seq(NumberOf)
    BY <1>6 DEF ClientType
  <2> QED
    BY <1>6, <2>1, FetchLeft
<1>8. LoginCourse(d)
  BY <1>6 DEF LoginCourse
<1>9. FetchCourse(d)
  BY <1>6, <1>7 DEF Course, FetchCourse
<1>10. c.got = <<>>
  BY DEF Course
<1> QED
  BY <1>6, <1>8, <1>9, <1>10 DEF Course, Onward, Kept

\* a line of a message,
LEMMA ReadContent ==
  ASSUME NEW c \in ClientType, NEW r \in ReplyType, NEW d, d = Read(c, r),
         c.stage = "lines", r.bit = c.expects, Course(c), c.call.verb = "RETR", r.kind # "end",
         c.got = <<>>
  PROVE  /\ Course(d) /\ Onward(c, d) /\ Kept(c, d) /\ d.stage = "lines"
         /\ d.got = <<r.msg>>
<1>1. PICK b \in ClientType :
        /\ b.expects = 1 - c.expects
        /\ b.stage = c.stage /\ b.call = c.call /\ b.calls = c.calls /\ b.all = c.all
        /\ b.faults = c.faults /\ b.bit = c.bit /\ b.inbox = c.inbox
        /\ b.listing = c.listing /\ b.got = c.got /\ b.emails = c.emails
        /\ b.fate = c.fate
        /\ d = Line(b, r)
  BY ReadFields
<1> DEFINE new == <<r.msg>>
<1>2. d = [b EXCEPT !.got = Append(@, r.msg)]
  BY <1>1 DEF Line
<1>3. Append(b.got, r.msg) = new
  BY <1>1
<1> HIDE DEF new
<1>4. d = [b EXCEPT !.got = new]
  BY <1>2, <1>3 DEF ClientType
<1>5. /\ d.got = new /\ d.stage = "lines" /\ d.call = c.call /\ d.calls = c.calls
      /\ d.all = c.all /\ d.faults = c.faults /\ d.fate = c.fate /\ d.bit = c.bit
      /\ d.inbox = c.inbox /\ d.expects = 1 - c.expects /\ d.emails = c.emails
      /\ d.listing = c.listing
  BY <1>1, <1>4 DEF ClientType
<1>6. LoginCourse(d)
  BY <1>5 DEF LoginCourse
<1>7. FetchCourse(d)
  BY <1>5 DEF Course, FetchCourse
<1> QED
  BY <1>5, <1>6, <1>7 DEF Course, Onward, Kept, new

\* and the end of a message.
LEMMA ReadRetrEnd ==
  ASSUME NEW c \in ClientType, NEW r \in ReplyType, NEW d, d = Read(c, r), c.all,
         c.stage = "lines", r.bit = c.expects, Course(c), c.call.verb = "RETR", r.kind = "end",
         c.got = <<c.listing[Len(c.emails) + 1].msg>>, ReadInv(c)
  PROVE  /\ Course(d) /\ Onward(c, d) /\ d.stage = "idle" /\ d.listing = c.listing
         /\ ReadInv(d)
         /\ \A i \in DOMAIN c.emails : i \in DOMAIN d.emails /\ d.emails[i] = c.emails[i]
<1>1. PICK b \in ClientType :
        /\ b.expects = 1 - c.expects
        /\ b.stage = c.stage /\ b.call = c.call /\ b.calls = c.calls /\ b.all = c.all
        /\ b.faults = c.faults /\ b.bit = c.bit /\ b.inbox = c.inbox
        /\ b.listing = c.listing /\ b.got = c.got /\ b.emails = c.emails
        /\ b.fate = c.fate
        /\ d = Line(b, r)
  BY ReadFields
<1>2. d = Returned(b, 0)
  BY <1>1 DEF Line
<1>3. b.call.verb = "RETR" /\ b.all
  BY <1>1
<1>4. /\ d.stage = "idle" /\ d.call = b.call /\ d.listing = b.listing
      /\ d.all /\ d.faults = b.faults /\ d.fate = b.fate
      /\ d.bit = b.bit /\ d.expects = b.expects /\ d.inbox = b.inbox
      /\ d.emails = Append(b.emails, b.got) /\ d.got = <<>> /\ d.calls = b.calls
  BY <1>2, <1>3, ReturnedFields
<1>5. d.all = c.all
  <2>1. d \in ClientType
    BY <1>2, ReturnedType
  <2> QED
    BY <1>4, <2>1 DEF ClientType
<1>6. /\ d.stage = "idle" /\ d.call = c.call /\ d.listing = c.listing
      /\ d.all = c.all /\ d.faults = c.faults /\ d.fate = c.fate
      /\ d.bit = c.bit /\ d.expects = 1 - c.expects /\ d.inbox = c.inbox
      /\ d.emails = Append(c.emails, c.got) /\ d.got = <<>> /\ d.calls = c.calls
  BY <1>1, <1>4, <1>5
<1>7. /\ Len(c.emails) < Len(c.listing)
      /\ Left(c.calls, c.listing, 2 * (Len(c.listing) - Len(c.emails)))
  BY DEF Course, FetchCourse
<1>8. /\ c.emails \in Seq(Seq(Msg \union {None})) /\ c.got \in Seq(Msg \union {None})
      /\ Len(c.emails) \in Nat /\ Len(c.listing) \in Nat
  BY ClientFields
<1>9. Len(d.emails) = Len(c.emails) + 1 /\ d.emails[Len(c.emails) + 1] = c.got
      /\ \A i \in 1 .. Len(c.emails) : i \in DOMAIN d.emails /\ d.emails[i] = c.emails[i]
  <2>1. PICK q \in Seq(Seq(Msg \union {None})), x \in Seq(Msg \union {None}) :
          q = c.emails /\ x = c.got
    BY <1>8
  <2>2. /\ Len(Append(q, x)) = Len(q) + 1 /\ Append(q, x)[Len(q) + 1] = x
        /\ \A i \in 1 .. Len(q) : i \in DOMAIN Append(q, x) /\ Append(q, x)[i] = q[i]
    OBVIOUS
  <2> QED
    BY <1>6, <2>1, <2>2
<1>10. ReadInv(d)
  <2>1. ASSUME NEW i \in DOMAIN d.emails
        PROVE  d.emails[i] = <<d.listing[i].msg>>
    <3>1. i \in 1 .. Len(c.emails) \/ i = Len(c.emails) + 1
      BY <1>6, <1>8, <1>9
    <3> QED
      BY <1>6, <1>9, <3>1 DEF ReadInv
  <2> QED
    BY <1>6, <1>7, <1>8, <1>9, <2>1, SMTT(30) DEF ReadInv
<1>11. LoginCourse(d)
  BY <1>6 DEF LoginCourse
<1>12. FetchCourse(d)
  <2>1. 2 * (Len(c.listing) - Len(c.emails)) = 2 * (Len(d.listing) - Len(d.emails)) + 2
    <3>1. \A n, k \in Nat : 2 * (n - k) = 2 * (n - (k + 1)) + 2
      OBVIOUS
    <3>2. 2 * (Len(c.listing) - Len(c.emails)) = 2 * (Len(c.listing) - (Len(c.emails) + 1)) + 2
      BY <1>8, <3>1
    <3> QED
      BY <1>6, <1>9, <3>2
  <2>2. Left(d.calls, d.listing, 2 * (Len(d.listing) - Len(d.emails)) + 2)
    BY <1>6, <1>7, <2>1
  <2>3. Len(d.emails) >= 1 /\ d.call.verb = "RETR"
    <3>1. Len(c.emails) + 1 >= 1
      BY <1>8
    <3> QED
      BY <1>6, <1>9, <3>1
  <2> QED
    BY <1>6, <2>2, <2>3 DEF FetchCourse
<1> QED
  BY <1>6, <1>8, <1>9, <1>10, <1>11, <1>12, SMTT(30) DEF Course, Onward
-----------------------------------------------------------------------------
(* A client that a step does not concern                                   *)

\* What a client is, and the link that it has, are given.
Same(c, d) == d.all = c.all /\ d.faults = c.faults

LEMMA EndsSame ==
  ASSUME NEW c \in ClientType, NEW count
  PROVE  Same(c, Failed(c)) /\ Same(c, Refused(c)) /\ Same(c, Returned(c, count))
<1>1. \A calls : Same(c, Closed(c, calls))
  BY DEF Closed, NewClient, ClientType, Same
<1>2. Same(c, Failed(c))
  <2> DEFINE b == [c EXCEPT !.fate = "nothing"]
             quits == <<Quit>>
  <2>1. Same(c, Closed(b, <<>>))
    <3>1. b \in ClientType /\ b.all = c.all /\ b.faults = c.faults
      BY DEF ClientType
    <3> QED
      BY <3>1 DEF Closed, NewClient, ClientType, Same
  <2>2. Same(c, [c EXCEPT !.stage = "idle", !.calls = quits, !.got = <<>>, !.tries = 0,
                          !.fate = "nothing"])
    BY DEF ClientType, Same
  <2> QED
    BY <2>1, <2>2 DEF Failed
<1>3. Same(c, Refused(c))
  <2>1. Failed(c) \in ClientType
    BY FailedType
  <2> QED
    BY <1>2, <2>1 DEF Refused, ClientType, Same
<1>4. Same(c, Returned(c, count))
  <2> DEFINE done == [c EXCEPT !.stage = "idle"]
             quits == <<Quit>>
             fetches == Fetch(c.listing)
             emails == Append(c.emails, c.got)
  <2>1. done \in ClientType /\ Same(c, done) /\ done.emails = c.emails
    BY DEF ClientType, Same
  <2> HIDE DEF done, quits, fetches, emails
  <2>2. /\ Same(c, [done EXCEPT !.calls = quits])
        /\ Same(c, [done EXCEPT !.calls = fetches])
        /\ Same(c, [done EXCEPT !.got = <<>>, !.emails = emails])
    BY <2>1 DEF ClientType, Same
  <2>3. Returned(c, count) \in {Closed(c, c.calls), [done EXCEPT !.calls = quits],
          [done EXCEPT !.calls = fetches], [done EXCEPT !.got = <<>>, !.emails = emails], done}
    BY <2>1 DEF Returned, done, quits, fetches, emails
  <2> QED
    BY <1>1, <2>1, <2>2, <2>3
<1> QED
  BY <1>2, <1>3, <1>4

LEMMA ReadSame ==
  ASSUME NEW c \in ClientType, NEW r \in ReplyType, c.stage \in {"status", "lines"}
  PROVE  Same(c, Read(c, r))
<1>1. CASE r.bit # c.expects
  BY <1>1 DEF Read, Same
<1>2. CASE r.bit = c.expects
  <2>1. PICK b \in ClientType :
          /\ Same(c, b)
          /\ c.stage = "status" => Read(c, r) = Status(b, r)
          /\ c.stage = "lines" => Read(c, r) = Line(b, r)
    BY <1>2, ReadFields DEF Same
  <2>2. \A d : Same(b, d) => Same(c, d)
    BY <2>1 DEF Same
  <2>3. Same(b, Status(b, r))
    <3>1. Same(b, [b EXCEPT !.stage = "lines"])
      BY DEF ClientType, Same
    <3> QED
      BY <3>1, EndsSame DEF Status
  <2>4. Same(b, Line(b, r))
    <3>1. Same(b, [b EXCEPT !.got = Append(@, r.msg)])
          /\ Same(b, [b EXCEPT !.listing = Append(@, [num |-> r.num, msg |-> r.msg])])
      BY DEF ClientType, Same
    <3> QED
      BY <3>1, EndsSame DEF Line
  <2> QED
    BY <2>1, <2>2, <2>3, <2>4
<1> QED
  BY <1>1, <1>2

LEMMA NamesKept ==
  ASSUME NEW a \in Addr, NEW r, sessions'[a] = sessions[a], Names(a, r),
         LET u == sessions[a].user IN
         \A i \in DOMAIN box[u] : i \in DOMAIN box'[u] /\ box'[u][i] = box[u][i]
  PROVE  Names(a, r)'
BY DEF Names

\* Nothing that the client or its session knows has changed, and the loop works for it only
\* where it did before.
LEMMA Steady ==
  ASSUME NEW a \in Addr, FetchInv(a),
         client'[a] = client[a], inbound'[a] = inbound[a], expected'[a] = expected[a],
         senders'[a] = senders[a], sessions'[a] = sessions[a], deled'[a] = deled[a],
         losses'[a] = losses[a], Deletes(a) => Deletes(a)',
         \/ Deletes(a)' \/ sessions[a].state # "TRANSACTION"
         \/ LET u == sessions[a].user IN
            \A i \in DOMAIN box[u] : i \in DOMAIN box'[u] /\ box'[u][i] = box[u][i],
         loop'.addr = a =>
           \/ loop'.at = "receive"
           \/ /\ loop.addr = a /\ loop.at # "receive"
              /\ \/ loop'.at = "over"
                 \/ loop'.at = loop.at /\ loop'.cmd = loop.cmd /\ loop'.out = loop.out
  PROVE  FetchInv(a)'
<1>1. ASSUME NEW r, Names(a, r), ~Deletes(a)' PROVE Names(a, r)'
  <2>1. sessions[a].state = "TRANSACTION"
    BY <1>1 DEF Names
  <2> QED
    BY <1>1, <2>1, NamesKept
<1>2. ListedInv(a)'
  BY <1>1 DEF FetchInv, ListedInv
<1>3. DeleInv(a)'
  BY DEF FetchInv, DeleInv
<1>4. losses'[a] = 0 /\ ReadInv(client'[a]) /\ DeledInv(a)'
  BY DEF FetchInv, DeledInv
<1>5. Fresh(a) => Fresh(a)'
  BY DEF Fresh
<1>6. ASSUME Started(a) PROVE Started(a)'
  <2>1. Course(client'[a]) /\ BitInv(a)' /\ QueueInv(a)' /\ LoginInv(a)'
    BY <1>6 DEF Started, BitInv, QueueInv, LoginInv
  <2>2. ASSUME loop.addr = a, loop.at = "send", loop'.at = "send", loop'.cmd = loop.cmd,
               loop'.out = loop.out
        PROVE  OutInv(a)'
    <3>1. OutInv(a)
      BY <1>6, <2>2 DEF Started, TalkInv
    <3>2. ~Deletes(a)'
      BY <2>2 DEF Deletes
    <3>3. ListOut(a) => ListOut(a)'
      BY <1>1, <2>2, <3>2 DEF ListOut
    <3> QED
      BY <2>2, <3>1, <3>3 DEF OutInv
  <2>3. TalkInv(a)'
    BY <1>6, <2>2 DEF Started, TalkInv
  <2> QED
    BY <2>1, <2>3 DEF Started
<1> QED
  BY <1>2, <1>3, <1>4, <1>5, <1>6 DEF FetchInv

LEMMA OtherClient ==
  ASSUME TypeInv, NEW a \in Addr, NEW b \in Addr \ {a}, FetchInv(a), ClientStep(b)
  PROVE  FetchInv(a)'
<1>1. UNCHANGED <<serverVars, loop, mailVars>>
  BY ClientStepType DEF TypeInv
<1>2. client'[a] = client[a] /\ inbound'[a] = inbound[a] /\ losses'[a] = losses[a]
  <2>1. \/ \E c : Transmit(b, c)
        \/ /\ UNCHANGED <<inbound, losses>>
           /\ \E d : client' = [client EXCEPT ![b] = d]
    BY DEF ClientStep, Call, Retransmit, _get_reply, ClientGivesUp, Vanish
  <2> QED
    BY <2>1 DEF Transmit, Lose, TypeInv, TypeOK
<1> QED
  BY <1>1, <1>2, Steady DEF serverVars, mailVars, Deletes

LEMMA OtherPacket ==
  ASSUME TypeInv, NEW a \in Addr, NEW b \in Addr \ {a}, FetchInv(a), Reject(b) \/ Receive(b)
  PROVE  FetchInv(a)'
<1>1. client'[a] = client[a] /\ inbound'[a] = inbound[a] /\ losses'[a] = losses[a]
  BY DEF Reject, Receive, Acknowledge, Lose, TypeInv, TypeOK
<1>2. expected'[a] = expected[a] /\ sessions'[a] = sessions[a] /\ loop.at = "receive"
      /\ UNCHANGED <<senders, mailVars>>
  BY DEF Reject, Receive, serverVars, TypeInv, TypeOK
<1>3. loop'.addr = b \/ loop' = loop
  <2>1. CASE Receive(b)
    <3> DEFINE taken == [Receiving EXCEPT !.addr = b, !.cmd = Head(inbound[b]).cmd]
    <3>1. \/ loop' = [taken EXCEPT !.at = "greet", !.out = <<Reply("ok")>>]
          \/ loop' = [taken EXCEPT !.at = "handle"]
      BY <2>1 DEF Receive
    <3>2. taken.addr = b
      BY DEF Receiving
    <3> QED
      BY <3>1, <3>2 DEF Receiving
  <2> QED
    BY <2>1 DEF Reject
<1> QED
  BY <1>1, <1>2, <1>3, Steady DEF mailVars, Deletes

\* What a handler may change.
LEMMA HandlerFrame ==
  ASSUME TypeInv,
         \/ _cmd_USER \/ _cmd_PASS \/ _cmd_STAT \/ _cmd_LIST \/ _cmd_RETR \/ _cmd_DELE
         \/ _cmd_QUIT \/ SignOff \/ _handle_command
  PROVE  /\ HandlerOnly /\ loop.at \in {"handle", "delete"} /\ loop.addr \in Addr
         /\ \A b \in Addr \ {loop.addr} : sessions'[b] = sessions[b] /\ deled'[b] = deled[b]
         /\ loop'.addr = loop.addr \/ loop' = Receiving
<1>1. HandlerOnly /\ loop.at \in {"handle", "delete"}
  BY DEF _cmd_USER, _cmd_PASS, _cmd_STAT, _cmd_LIST, _cmd_RETR, _cmd_DELE, _cmd_QUIT, SignOff,
         _handle_command, Handles
<1>2. loop.addr \in Addr
  BY <1>1, LoopClient
<1>3. \A b \in Addr \ {loop.addr} : sessions'[b] = sessions[b]
  <2>1. UNCHANGED sessions \/ \E s : SetSession(s)
    BY DEF _cmd_USER, _cmd_PASS, _cmd_STAT, _cmd_LIST, _cmd_RETR, _cmd_DELE, _cmd_QUIT,
           SignOff, _handle_command
  <2> QED
    BY <2>1 DEF SetSession, TypeInv, TypeOK
<1>4. \A b \in Addr \ {loop.addr} : deled'[b] = deled[b]
  <2>1. \/ UNCHANGED deled
        \/ \E x : deled' = [deled EXCEPT ![loop.addr] = x]
    BY DEF _cmd_USER, _cmd_PASS, _cmd_STAT, _cmd_LIST, _cmd_RETR, _cmd_DELE, _cmd_QUIT,
           SignOff, _handle_command
  <2> QED
    BY <2>1 DEF TypeInv, TypeOK
<1>5. loop'.addr = loop.addr \/ loop' = Receiving
  <2>1. \/ Raise \/ loop' = Receiving \/ \E out : Answer(out)
        \/ \E x : loop' = [loop EXCEPT !.at = "delete", !.doomed = x]
    BY DEF _cmd_USER, _cmd_PASS, _cmd_STAT, _cmd_LIST, _cmd_RETR, _cmd_DELE, _cmd_QUIT,
           SignOff, _handle_command
  <2> QED
    BY <2>1 DEF Raise, Answer, TypeInv, TypeOK, LoopType
<1> QED
  BY <1>1, <1>2, <1>3, <1>4, <1>5

LEMMA OtherHandler ==
  ASSUME TypeInv, NEW a \in Addr, loop.addr # a, FetchInv(a),
         \/ _cmd_USER \/ _cmd_PASS \/ _cmd_STAT \/ _cmd_LIST \/ _cmd_RETR \/ _cmd_DELE
         \/ _cmd_QUIT \/ SignOff \/ _handle_command
  PROVE  FetchInv(a)'
<1>1. HandlerOnly /\ sessions'[a] = sessions[a] /\ deled'[a] = deled[a]
      /\ (loop'.addr = loop.addr \/ loop' = Receiving)
  BY HandlerFrame
<1> QED
  BY <1>1, Steady, SomeTypes DEF HandlerOnly, Deletes

LEMMA OtherReply ==
  ASSUME TypeInv, NEW a \in Addr, loop.addr # a, FetchInv(a), SendReply
  PROVE  FetchInv(a)'
<1>1. loop.at \in {"greet", "send"} /\ UNCHANGED <<inbound, sessions, mailVars>>
      /\ loop.addr \in Addr
  BY LoopClient DEF SendReply
<1>2. client'[a] = client[a] /\ losses'[a] = losses[a]
  <2>1. client' = client \/ \E d : client' = [client EXCEPT ![loop.addr] = d]
    BY DEF SendReply
  <2>2. losses' = losses \/ Lose(loop.addr)
    BY DEF SendReply
  <2> QED
    BY <1>1, <2>1, <2>2 DEF Lose, TypeInv, TypeOK
<1>3. /\ senders'[a] = senders[a] /\ expected'[a] = expected[a]
      /\ loop'.addr = loop.addr \/ loop'.at = "receive"
  <2>1. CASE \E bit, late : Sent(bit, late)
    <3>1. PICK bit, late : Sent(bit, late)
      BY <2>1
    <3>2. \/ loop' = [[loop EXCEPT !.at = "handle", !.out = <<>>] EXCEPT !.stalled = late]
          \/ loop' = [Receiving EXCEPT !.stalled = late]
          \/ loop' = [loop EXCEPT !.out = Tail(@), !.stalled = late]
      BY <3>1 DEF Sent, Finish
    <3>3. /\ \E x : senders' = [senders EXCEPT ![loop.addr] = x]
          /\ expected' = expected \/ expected' = [expected EXCEPT ![loop.addr] = 0]
      BY <3>1 DEF Sent, Finish
    <3> QED
      BY <1>1, <3>2, <3>3, SomeTypes DEF TypeInv, TypeOK, LoopType
  <2>2. CASE Raise /\ UNCHANGED expected /\ \E x : senders' = [senders EXCEPT ![loop.addr] = x]
    BY <1>1, <2>2 DEF Raise, TypeInv, TypeOK, LoopType
  <2> QED
    BY <2>1, <2>2 DEF SendReply
<1> QED
  BY <1>1, <1>2, <1>3, Steady DEF mailVars, Deletes

\* A deletion behind QUIT, the client's own or one of another session, which makes the
\* client's stale if it moves its numbers.
LEMMA AnyDeletion ==
  ASSUME TypeInv, NEW a \in Addr, a \notin stale', FetchInv(a), delete_email
  PROVE  FetchInv(a)'
<1>1. PICK i \in DOMAIN Messages :
        /\ loop' = [loop EXCEPT !.doomed = @ \ {Messages[i]}]
        /\ \/ /\ box' = [box EXCEPT ![Session.user] = RemoveAt(@, i)]
              /\ stale' = stale \union Shifted(loop.addr, Session.user)
           \/ UNCHANGED <<box, stale>>
  BY DEF delete_email
<1>2. loop.at = "delete" /\ UNCHANGED <<client, inbound, losses, serverVars, deled>>
  BY DEF delete_email
<1>3. loop'.at = loop.at /\ loop'.addr = loop.addr /\ loop'.cmd = loop.cmd /\ loop'.out = loop.out
  BY <1>1 DEF TypeInv, TypeOK, LoopType
<1>4. ASSUME loop.addr # a, sessions[a].state = "TRANSACTION"
      PROVE  box'[sessions[a].user] = box[sessions[a].user]
  <2>1. CASE UNCHANGED box
    BY <2>1
  <2>2. CASE /\ box' = [box EXCEPT ![Session.user] = RemoveAt(@, i)]
             /\ stale' = stale \union Shifted(loop.addr, Session.user)
    <3>1. sessions[a].user # Session.user
      BY <1>4, <2>2 DEF Shifted
    <3>2. sessions[a].user \in User
      BY <1>4 DEF TypeInv, TypeOK, SessionInv, SessionType
    <3> QED
      BY <2>2, <3>1, <3>2 DEF TypeInv, TypeOK
  <2> QED
    BY <1>1, <2>1, <2>2
<1> QED
  BY <1>2, <1>3, <1>4, Steady DEF serverVars, Deletes

\* New mail is listed last.
LEMMA AnyDelivery ==
  ASSUME TypeInv, NEW a \in Addr, FetchInv(a), NEW m \in Msg, Deliver(m)
  PROVE  FetchInv(a)'
<1>1. /\ UNCHANGED <<client, inbound, losses, serverVars, loop, deled, stale>>
      /\ box' = [box EXCEPT ![Owner[m]] = Append(@, m)]
  BY DEF Deliver
<1>2. ASSUME NEW u \in User, NEW i \in DOMAIN box[u]
      PROVE  i \in DOMAIN box'[u] /\ box'[u][i] = box[u][i]
  <2>1. box[u] \in Seq(Msg) /\ Owner[m] \in User
    BY Pop3Assumption DEF TypeInv, TypeOK
  <2>2. box'[u] = box[u] \/ box'[u] = Append(box[u], m)
    BY <1>1 DEF TypeInv, TypeOK
  <2> QED
    BY <2>1, <2>2
<1>3. sessions[a].state = "TRANSACTION" => sessions[a].user \in User
  BY DEF TypeInv, TypeOK, SessionInv, SessionType
<1> QED
  BY <1>1, <1>2, <1>3, Steady DEF serverVars, Deletes
-----------------------------------------------------------------------------
(* The client's own steps                                                  *)

\* Nothing is lost: the packet waits at the server.
LEMMA Transmitted ==
  ASSUME TypeOK, NEW a \in Addr, NEW c \in ClientType, losses[a] = 0, Transmit(a, c),
         NEW d, d = client'[a]
  PROVE  /\ d.stage = c.stage /\ d.call = c.call /\ d.calls = c.calls /\ Same(c, d)
         /\ d.bit = c.bit /\ d.expects = c.expects /\ d.inbox = c.inbox
         /\ d.listing = c.listing /\ d.got = c.got /\ d.emails = c.emails /\ d.fate = c.fate
         /\ losses'[a] = 0
         /\ inbound'[a] = Append(inbound[a], [cmd |-> d.call, bit |-> d.bit])
         /\ UNCHANGED <<serverVars, loop, mailVars>>
<1>1. d = [c EXCEPT !.tries = @ + 1]
  BY DEF Transmit, TypeOK
<1>2. /\ d.stage = c.stage /\ d.call = c.call /\ d.calls = c.calls /\ Same(c, d)
      /\ d.bit = c.bit /\ d.expects = c.expects /\ d.inbox = c.inbox
      /\ d.listing = c.listing /\ d.got = c.got /\ d.emails = c.emails /\ d.fate = c.fate
  BY <1>1 DEF ClientType, Same
<1>3. ~Lose(a)
  BY DEF Lose
<1> QED
  BY <1>2, <1>3 DEF Transmit, TypeOK

\* What the client has read is not touched.
LEMMA ReadKept ==
  ASSUME NEW a \in Addr, FetchInv(a), UNCHANGED <<serverVars, loop, mailVars>>,
         client'[a].listing = client[a].listing, client'[a].emails = client[a].emails
  PROVE  /\ ReadInv(client'[a]) /\ ListedInv(a)' /\ DeledInv(a)'
         /\ \A cmd : HasRead(client[a], cmd) => HasRead(client'[a], cmd)
<1>1. \A r : Names(a, r) => Names(a, r)'
  BY DEF serverVars, mailVars, Names
<1>2. ListedInv(a)'
  BY <1>1 DEF FetchInv, ListedInv, Deletes
<1>3. ReadInv(client'[a]) /\ DeledInv(a)'
  BY DEF FetchInv, ReadInv, DeledInv, mailVars
<1> QED
  BY <1>2, <1>3 DEF HasRead

\* A copy of the client's call waits behind all others.
LEMMA QueueGrows ==
  ASSUME TypeOK, NEW a \in Addr, QueueInv(a), NEW p \in PacketType,
         p.cmd = client'[a].call, p.bit = client'[a].bit, client'[a].bit = client[a].bit,
         inbound'[a] = Append(inbound[a], p), client'[a].stage = "sending",
         client[a].stage = "sending" => client'[a].call = client[a].call
  PROVE  QueueInv(a)'
<1>1. PICK q \in Seq(PacketType) : q = inbound[a]
  BY DEF TypeOK
<1>2. /\ Len(Append(q, p)) = Len(q) + 1 /\ Append(q, p)[Len(q) + 1] = p
      /\ \A i \in 1 .. Len(q) : Append(q, p)[i] = q[i]
      /\ DOMAIN Append(q, p) = 1 .. Len(q) + 1 /\ DOMAIN q = 1 .. Len(q)
  OBVIOUS
<1>3. ASSUME NEW i \in 1 .. Len(q) + 1, Append(q, p)[i].bit = client'[a].bit
      PROVE  Append(q, p)[i].cmd = client'[a].call
  BY <1>1, <1>2, <1>3 DEF QueueInv
<1>4. ASSUME NEW i \in 1 .. Len(q) + 1, NEW j \in 1 .. Len(q) + 1, i < j,
             Append(q, p)[i].bit = client'[a].bit
      PROVE  Append(q, p)[j].bit = client'[a].bit
  <2>1. i \in 1 .. Len(q) /\ (j \in 1 .. Len(q) \/ j = Len(q) + 1)
    BY <1>4
  <2> QED
    BY <1>1, <1>2, <1>4, <2>1 DEF QueueInv
<1> QED
  BY <1>1, <1>2, <1>3, <1>4 DEF QueueInv

\* The packets of the client are read, or ask for what was read.
LEMMA DeleGrows ==
  ASSUME TypeOK, NEW a \in Addr, DeleInv(a), UNCHANGED loop, NEW p \in PacketType,
         inbound'[a] = Append(inbound[a], p), HasRead(client'[a], p.cmd),
         \A cmd : HasRead(client[a], cmd) => HasRead(client'[a], cmd)
  PROVE  DeleInv(a)'
<1>1. PICK q \in Seq(PacketType) : q = inbound[a]
  BY DEF TypeOK
<1>2. /\ Append(q, p)[Len(q) + 1] = p /\ \A i \in 1 .. Len(q) : Append(q, p)[i] = q[i]
      /\ DOMAIN Append(q, p) = 1 .. Len(q) + 1 /\ DOMAIN q = 1 .. Len(q)
  OBVIOUS
<1>3. \A i \in DOMAIN inbound'[a] : HasRead(client'[a], inbound'[a][i].cmd)
  <2>1. \A i \in 1 .. Len(q) : HasRead(client'[a], q[i].cmd)
    BY <1>1, <1>2 DEF DeleInv
  <2>2. \A i \in 1 .. Len(q) + 1 : i \in 1 .. Len(q) \/ i = Len(q) + 1
    OBVIOUS
  <2> QED
    BY <1>1, <1>2, <2>1, <2>2
<1> QED
  BY <1>3 DEF DeleInv

LEMMA CallFields ==
  ASSUME TypeOK, NEW a \in Addr, losses[a] = 0, Call(a),
         NEW c, c = client[a], NEW d, d = client'[a]
  PROVE  /\ c.calls # <<>>
         /\ c.stage = IF d.call.verb = "connect" THEN "closed" ELSE "idle"
         /\ d.stage = "sending" /\ d.call = Head(c.calls) /\ d.calls = Tail(c.calls)
         /\ d.got = c.got /\ d.listing = c.listing /\ d.emails = c.emails /\ d.fate = c.fate
         /\ IF d.call.verb = "connect" THEN d.bit = 0 /\ d.expects = 0 /\ d.inbox = <<>>
            ELSE d.bit = c.bit /\ d.expects = c.expects /\ d.inbox = c.inbox
         /\ losses'[a] = 0
         /\ inbound'[a] = Append(inbound[a], [cmd |-> d.call, bit |-> d.bit])
         /\ UNCHANGED <<serverVars, loop, mailVars>>
<1> DEFINE first == Head(c.calls)
           rest == Tail(c.calls)
           next == [c EXCEPT !.stage = "sending", !.call = first, !.calls = rest, !.tries = 0]
           fresh == [next EXCEPT !.bit = 0, !.expects = 0, !.inbox = <<>>]
<1>1. c \in ClientType /\ c.calls \in Seq(Command) /\ c.calls # <<>>
  BY DEF TypeOK, Call, ClientType
<1>2. first \in Command /\ rest \in Seq(Command)
  BY <1>1
<1>3. 0 \in 0 .. MaxRetries /\ <<>> \in Seq(ReplyType)
  BY Pop3Assumption
<1>4. next = [c EXCEPT !.stage = "sending", !.call = Head(c.calls), !.calls = Tail(@),
                       !.tries = 0]
  BY <1>1 DEF ClientType
<1>5. c.stage = IF first.verb = "connect" THEN "closed" ELSE "idle"
  BY DEF Call
<1> HIDE DEF first, rest
<1>6. /\ next \in ClientType /\ next.stage = "sending" /\ next.call = first
      /\ next.calls = rest /\ next.got = c.got /\ next.listing = c.listing
      /\ next.emails = c.emails /\ next.fate = c.fate /\ next.bit = c.bit
      /\ next.expects = c.expects /\ next.inbox = c.inbox
  BY <1>1, <1>2, <1>3 DEF ClientType
<1>7. Transmit(a, IF next.call.verb = "connect"
                  THEN [next EXCEPT !.bit = 0, !.expects = 0, !.inbox = <<>>] ELSE next)
  BY <1>4 DEF Call, first
<1> HIDE DEF next
<1>8. /\ fresh \in ClientType /\ fresh.stage = "sending" /\ fresh.call = first
      /\ fresh.calls = rest /\ fresh.got = c.got /\ fresh.listing = c.listing
      /\ fresh.emails = c.emails /\ fresh.fate = c.fate /\ fresh.bit = 0
      /\ fresh.expects = 0 /\ fresh.inbox = <<>>
  BY <1>3, <1>6 DEF ClientType
<1>9. IF first.verb = "connect" THEN Transmit(a, fresh) ELSE Transmit(a, next)
  BY <1>6, <1>7
<1> HIDE DEF fresh
<1>10. CASE first.verb = "connect"
  <2>1. Transmit(a, fresh)
    BY <1>9, <1>10
  <2>2. d.call = first
    BY <1>8, <2>1, Transmitted
  <2> QED
    BY <1>1, <1>5, <1>8, <1>10, <2>1, <2>2, Transmitted DEF first, rest
<1>11. CASE first.verb # "connect"
  <2>1. Transmit(a, next)
    BY <1>9, <1>11
  <2>2. d.call = first
    BY <1>6, <2>1, Transmitted
  <2> QED
    BY <1>1, <1>5, <1>6, <1>11, <2>1, <2>2, Transmitted DEF first, rest
<1> QED
  BY <1>10, <1>11

LEMMA OwnCall ==
  ASSUME TypeInv, TypeInv', NEW a \in Addr, FetchInv(a), Call(a)
  PROVE  FetchInv(a)'
<1>1. PICK c \in ClientType, d \in ClientType : c = client[a] /\ d = client'[a]
  BY DEF TypeInv, TypeOK
<1>2. TypeOK /\ losses[a] = 0
  BY DEF TypeInv, FetchInv
<1>3. /\ c.calls # <<>>
      /\ c.stage = IF d.call.verb = "connect" THEN "closed" ELSE "idle"
      /\ d.stage = "sending" /\ d.call = Head(c.calls) /\ d.calls = Tail(c.calls)
      /\ d.got = c.got /\ d.listing = c.listing /\ d.emails = c.emails /\ d.fate = c.fate
      /\ d.call.verb = "connect" => d.bit = 0 /\ d.expects = 0 /\ d.inbox = <<>>
      /\ d.call.verb # "connect" =>
           d.bit = c.bit /\ d.expects = c.expects /\ d.inbox = c.inbox
      /\ losses'[a] = 0
      /\ inbound'[a] = Append(inbound[a], [cmd |-> d.call, bit |-> d.bit])
      /\ UNCHANGED <<serverVars, loop, mailVars>>
  BY <1>1, <1>2, CallFields
<1>4. [cmd |-> d.call, bit |-> d.bit] \in PacketType /\ c.calls \in Seq(Command)
  BY ClientFields DEF PacketType
<1>5. /\ ReadInv(client'[a]) /\ ListedInv(a)' /\ DeledInv(a)'
      /\ \A cmd : HasRead(c, cmd) => HasRead(d, cmd)
  BY <1>1, <1>3, ReadKept
<1>6. ASSUME HasRead(d, d.call) PROVE DeleInv(a)'
  BY <1>1, <1>2, <1>3, <1>4, <1>5, <1>6, DeleGrows DEF FetchInv
<1>7. CASE c.fate = "nothing"
  <2>1. c.stage = "idle" /\ c.calls = <<Quit>>
    BY <1>1, <1>3, <1>7 DEF FetchInv, Lost
  <2>2. d.call = Quit /\ d.calls = <<>>
    BY <1>3, <2>1, CommandType
  <2>3. Lost(d)
    BY <1>3, <2>2 DEF Lost
  <2>4. d.call.verb = "QUIT"
    BY <2>2 DEF Quit
  <2>5. HasRead(d, d.call)
    BY <2>4 DEF HasRead
  <2> QED
    BY <1>1, <1>3, <1>5, <1>6, <1>7, <2>3, <2>5 DEF FetchInv
<1>8. CASE c.fate # "nothing" /\ c.stage = "closed"
  <2>1. Fresh(a)
    BY <1>1, <1>8 DEF FetchInv
  <2>2. d.call.verb = "connect" /\ Opens(d.calls, 1)
    <3>1. Opens(c.calls, 0) /\ 0 \in 0 .. 4 /\ 0 + 1 = 1
      BY <1>1, <2>1 DEF Fresh
    <3>2. Head(c.calls).verb = Opening[1] /\ Opens(Tail(c.calls), 1)
      BY <1>4, <3>1, OpensHead
    <3> QED
      BY <1>3, <3>2, OpeningIs
  <2>3. Course(d) /\ HasRead(d, d.call)
    <3>1. d.listing = <<>> /\ d.emails = <<>> /\ d.got = <<>>
      BY <1>1, <1>3, <2>1 DEF Fresh
    <3> QED
      BY <1>3, <2>2, <3>1 DEF Course, LoginCourse, FetchCourse, HasRead
  <2>4. BitInv(a)'
    BY <1>1, <1>3, <2>1, <2>2 DEF Fresh, BitInv, serverVars
  <2>5. QueueInv(a)'
    <3>1. inbound'[a] = <<[cmd |-> d.call, bit |-> d.bit]>>
      BY <1>3, <2>1 DEF Fresh
    <3> QED
      BY <1>1, <1>3, <3>1 DEF QueueInv
  <2>6. LoginInv(a)' /\ TalkInv(a)'
    BY <1>1, <1>3, <2>1, <2>2 DEF Fresh, LoginInv, TalkInv, serverVars
  <2> QED
    BY <1>1, <1>3, <1>5, <1>6, <1>8, <2>3, <2>4, <2>5, <2>6 DEF FetchInv, Started
<1>9. CASE c.fate # "nothing" /\ c.stage # "closed"
  <2>1. Started(a) /\ ReadInv(c) /\ c.stage = "idle" /\ d.call.verb # "connect"
    BY <1>1, <1>3, <1>9 DEF FetchInv
  <2>2. /\ Course(d) /\ HasRead(d, d.call)
        /\ d.call.verb \in {"STAT", "LIST", "RETR", "DELE", "QUIT"} =>
             c.call.verb \notin {"connect", "USER"}
    BY <1>1, <1>3, <2>1, CallCourse DEF Started
  <2>3. BitInv(a)'
    BY <1>1, <1>3, <2>1 DEF Started, BitInv, serverVars
  <2>4. QueueInv(a)'
    BY <1>1, <1>2, <1>3, <1>4, <2>1, QueueGrows DEF Started
  <2>5. LoginInv(a)'
    <3>1. c.call.verb \in {"connect", "USER", "PASS", "STAT", "LIST", "RETR", "DELE", "QUIT"}
      BY <1>1, <2>1, ClientFields DEF Started, Course, Command, Verb
    <3> QED
      BY <1>1, <1>3, <2>1, <2>2, <3>1 DEF Started, LoginInv, serverVars
  <2>6. TalkInv(a)'
    BY <1>1, <1>3, <2>1 DEF Started, TalkInv, OutInv
  <2> QED
    BY <1>1, <1>3, <1>5, <1>6, <1>9, <2>2, <2>3, <2>4, <2>5, <2>6 DEF FetchInv, Started
<1> QED
  BY <1>7, <1>8, <1>9

LEMMA OwnRetransmit ==
  ASSUME TypeInv, TypeInv', NEW a \in Addr, FetchInv(a), Retransmit(a)
  PROVE  FetchInv(a)'
<1>1. PICK c \in ClientType, d \in ClientType : c = client[a] /\ d = client'[a]
  BY DEF TypeInv, TypeOK
<1>2. TypeOK /\ losses[a] = 0 /\ Transmit(a, c) /\ c.stage = "sending"
  BY <1>1 DEF TypeInv, FetchInv, Retransmit, Unheard
<1>3. /\ d.stage = c.stage /\ d.call = c.call /\ d.calls = c.calls
      /\ d.bit = c.bit /\ d.expects = c.expects /\ d.inbox = c.inbox
      /\ d.listing = c.listing /\ d.got = c.got /\ d.emails = c.emails /\ d.fate = c.fate
      /\ losses'[a] = 0
      /\ inbound'[a] = Append(inbound[a], [cmd |-> d.call, bit |-> d.bit])
      /\ UNCHANGED <<serverVars, loop, mailVars>>
  BY <1>1, <1>2, Transmitted
<1>4. [cmd |-> d.call, bit |-> d.bit] \in PacketType
  BY ClientFields DEF PacketType
<1>5. /\ ReadInv(client'[a]) /\ ListedInv(a)' /\ DeledInv(a)'
      /\ \A cmd : HasRead(c, cmd) => HasRead(d, cmd)
  BY <1>1, <1>3, ReadKept
<1>6. ASSUME HasRead(d, d.call) PROVE DeleInv(a)'
  BY <1>1, <1>2, <1>3, <1>4, <1>5, <1>6, DeleGrows DEF FetchInv
<1>7. CASE c.fate = "nothing"
  <2>1. Lost(d) /\ HasRead(d, d.call)
    BY <1>1, <1>2, <1>3, <1>7 DEF FetchInv, Lost, HasRead, Quit
  <2> QED
    BY <1>1, <1>3, <1>5, <1>6, <1>7, <2>1 DEF FetchInv
<1>8. CASE c.fate # "nothing"
  <2>1. Started(a)
    BY <1>1, <1>2, <1>8 DEF FetchInv
  <2>2. Course(d)
    BY <1>1, <1>3, <2>1, CourseKept DEF Started
  <2>3. HasRead(d, d.call)
    <3>1. CASE d.call.verb = "DELE"
      <4>1. Len(d.emails) >= 1 /\ d.call = Dele(d.listing[Len(d.emails)].num)
        BY <2>2, <3>1 DEF Course, FetchCourse
      <4>2. Len(d.emails) \in DOMAIN d.emails /\ d.listing[Len(d.emails)].num = d.call.num
        BY <4>1, ClientFields DEF Dele
      <4> QED
        BY <4>2 DEF HasRead
    <3> QED
      BY <3>1 DEF HasRead
  <2>4. QueueInv(a)'
    BY <1>1, <1>2, <1>3, <1>4, <2>1, QueueGrows DEF Started
  <2>5. BitInv(a)' /\ LoginInv(a)' /\ TalkInv(a)'
    BY <1>1, <1>2, <1>3, <2>1 DEF Started, BitInv, LoginInv, TalkInv, OutInv, serverVars
  <2> QED
    BY <1>1, <1>2, <1>3, <1>5, <1>6, <1>8, <2>2, <2>3, <2>4, <2>5 DEF FetchInv, Started
<1> QED
  BY <1>7, <1>8

LEMMA ReadLost ==
  ASSUME NEW c \in ClientType, NEW r, NEW d, d = Read(c, r), Lost(c), c.fate = "nothing",
         c.stage \in {"status", "lines"}
  PROVE  Lost(d) /\ d.fate = "nothing" /\ d.listing = c.listing /\ d.emails = c.emails
<1>1. CASE r.bit # c.expects
  BY <1>1 DEF Read
<1>2. CASE r.bit = c.expects
  <2>1. PICK b \in ClientType :
          /\ b.call = c.call /\ b.calls = c.calls /\ b.fate = c.fate
          /\ b.listing = c.listing /\ b.emails = c.emails
          /\ c.stage = "status" => Read(c, r) = Status(b, r)
    BY <1>2, ReadFields
  <2>2. c.stage = "status" /\ c.call = Quit /\ c.calls = <<>>
    BY DEF Lost
  <2>3. b.call.verb = "QUIT"
    BY <2>1, <2>2 DEF Quit
  <2>4. d = Closed(b, b.calls)
    BY <2>1, <2>2, <2>3 DEF Status, Returned
  <2> QED
    BY <2>1, <2>2, <2>4, ClosedFields DEF Lost, Kept
<1> QED
  BY <1>1, <1>2

\* Only a client that has failed finds replies that it did not wait for.
LEMMA OwnReply ==
  ASSUME TypeInv, NEW a \in Addr, FetchInv(a), _get_reply(a)
  PROVE  FetchInv(a)'
<1>1. PICK c \in ClientType : c = client[a]
  BY DEF TypeInv, TypeOK
<1>2. /\ c.stage \in {"status", "lines"} /\ c.inbox # <<>>
      /\ UNCHANGED <<inbound, losses, serverVars, loop, mailVars>>
  BY <1>1 DEF _get_reply, Waits
<1>3. c.fate = "nothing" /\ Lost(c)
  BY <1>1, <1>2, ClientFields DEF FetchInv, Started, BitInv
<1> DEFINE b == [c EXCEPT !.inbox = Tail(@)]
           d == Read(b, Head(c.inbox))
<1>4. client'[a] = d
  BY <1>1 DEF _get_reply, TypeInv, TypeOK
<1>5. /\ b \in ClientType /\ b.stage = c.stage /\ b.call = c.call /\ b.calls = c.calls
      /\ b.fate = c.fate /\ b.listing = c.listing /\ b.emails = c.emails
  <2>1. Tail(c.inbox) \in Seq(ReplyType)
    BY <1>2, ClientFields
  <2> QED
    BY <2>1 DEF ClientType
<1>6. Lost(b)
  BY <1>3, <1>5 DEF Lost
<1> HIDE DEF b
<1>7. Lost(d) /\ d.fate = "nothing" /\ d.listing = c.listing /\ d.emails = c.emails
  <2>1. b.fate = "nothing" /\ b.stage \in {"status", "lines"}
    BY <1>2, <1>3, <1>5
  <2>2. Lost(d) /\ d.fate = "nothing" /\ d.listing = b.listing /\ d.emails = b.emails
    BY <1>5, <1>6, <2>1, ReadLost
  <2> QED
    BY <1>5, <2>2
<1> HIDE DEF d
<1>8. /\ ReadInv(client'[a]) /\ ListedInv(a)' /\ DeledInv(a)'
      /\ \A cmd : HasRead(client[a], cmd) => HasRead(client'[a], cmd)
  BY <1>1, <1>2, <1>4, <1>7, ReadKept
<1>9. DeleInv(a)'
  BY <1>2, <1>8 DEF FetchInv, DeleInv
<1> QED
  BY <1>2, <1>4, <1>7, <1>8, <1>9 DEF FetchInv

LEMMA OwnGivesUp ==
  ASSUME TypeInv, NEW a \in Addr, FetchInv(a), ClientGivesUp(a)
  PROVE  FetchInv(a)'
<1>1. PICK c \in ClientType : c = client[a]
  BY DEF TypeInv, TypeOK
<1>2. client'[a] = Failed(c) /\ UNCHANGED <<inbound, losses, serverVars, loop, mailVars>>
  BY <1>1 DEF ClientGivesUp, TypeInv, TypeOK
<1>3. Lost(Failed(c)) /\ Failed(c).fate = "nothing" /\ Kept(c, Failed(c))
  BY FailedFields
<1>4. /\ ReadInv(client'[a]) /\ ListedInv(a)' /\ DeledInv(a)'
      /\ \A cmd : HasRead(client[a], cmd) => HasRead(client'[a], cmd)
  BY <1>1, <1>2, <1>3, ReadKept DEF Kept
<1>5. DeleInv(a)'
  BY <1>2, <1>4 DEF FetchInv, DeleInv
<1> QED
  BY <1>2, <1>3, <1>4, <1>5 DEF FetchInv

LEMMA OwnClient ==
  ASSUME TypeInv, TypeInv', NEW a \in Addr, FetchInv(a), Sound(a), ClientStep(a)
  PROVE  FetchInv(a)'
<1>1. ~Vanish(a)
  BY DEF Vanish, Sound
<1> QED
  BY <1>1, OwnCall, OwnRetransmit, OwnReply, OwnGivesUp DEF ClientStep
-----------------------------------------------------------------------------
(* The client's packets                                                    *)

LEMMA Acknowledged ==
  ASSUME TypeOK, NEW a \in Addr, losses[a] = 0, inbound[a] # <<>>, Acknowledge(a),
         NEW c, c = client[a], NEW d, d = client'[a], NEW p, p = Head(inbound[a])
  PROVE  /\ p \in PacketType /\ inbound'[a] = Tail(inbound[a]) /\ losses'[a] = 0
         /\ d.call = c.call /\ d.calls = c.calls /\ d.listing = c.listing /\ d.got = c.got
         /\ d.emails = c.emails /\ d.fate = c.fate /\ d.inbox = c.inbox
         /\ d.expects = c.expects
         /\ IF c.stage = "sending" /\ c.bit = p.bit THEN d.stage = "status" /\ d.bit = 1 - c.bit
            ELSE d.stage = c.stage /\ d.bit = c.bit
<1>1. p \in PacketType /\ inbound'[a] = Tail(inbound[a])
  BY DEF Acknowledge, TypeOK
<1>2. ~Lose(a)
  BY DEF Lose
<1>3. losses'[a] = 0
  BY <1>2 DEF Acknowledge
<1>4. IF c.stage = "sending" /\ c.bit = p.bit
      THEN d = [c EXCEPT !.stage = "status", !.tries = 0, !.bit = 1 - @] ELSE d = c
  BY <1>2 DEF Acknowledge, TypeOK, ClientType
<1>5. c \in ClientType
  BY DEF TypeOK
<1> QED
  BY <1>1, <1>3, <1>4, <1>5, ZenonT(60) DEF ClientType

\* The queue behind a packet.
LEMMA QueueShrinks ==
  ASSUME TypeOK, NEW a \in Addr, inbound[a] # <<>>, inbound'[a] = Tail(inbound[a])
  PROVE  /\ \A i \in DOMAIN inbound'[a] : /\ i + 1 \in DOMAIN inbound[a]
                                          /\ inbound'[a][i] = inbound[a][i + 1]
         /\ 1 \in DOMAIN inbound[a] /\ Head(inbound[a]) = inbound[a][1]
         /\ \A i \in DOMAIN inbound'[a] : i \in Nat /\ 1 < i + 1
         /\ \A i, j \in DOMAIN inbound'[a] : i < j => i + 1 < j + 1
<1>1. PICK q \in Seq(PacketType) : q = inbound[a] /\ q # <<>>
  BY DEF TypeOK
<1>2. /\ DOMAIN Tail(q) = 1 .. Len(q) - 1 /\ DOMAIN q = 1 .. Len(q)
      /\ \A i \in 1 .. Len(q) - 1 : i + 1 \in 1 .. Len(q) /\ Tail(q)[i] = q[i + 1]
      /\ 1 \in 1 .. Len(q) /\ Head(q) = q[1] /\ Len(q) \in Nat
  BY <1>1
<1> QED
  BY <1>1, <1>2

LEMMA DeleShrinks ==
  ASSUME TypeOK, NEW a \in Addr, DeleInv(a), inbound[a] # <<>>, inbound'[a] = Tail(inbound[a]),
         \A cmd : HasRead(client[a], cmd) => HasRead(client'[a], cmd)
  PROVE  /\ \A i \in DOMAIN inbound'[a] : HasRead(client'[a], inbound'[a][i].cmd)
         /\ HasRead(client'[a], Head(inbound[a]).cmd)
BY QueueShrinks DEF DeleInv

LEMMA OwnReject ==
  ASSUME TypeInv, TypeInv', NEW a \in Addr, FetchInv(a), Reject(a)
  PROVE  FetchInv(a)'
<1>1. PICK c \in ClientType, d \in ClientType : c = client[a] /\ d = client'[a]
  BY DEF TypeInv, TypeOK
<1>2. /\ TypeOK /\ losses[a] = 0 /\ inbound[a] # <<>> /\ Acknowledge(a) /\ loop.at = "receive"
      /\ UNCHANGED <<serverVars, loop, mailVars>> /\ Head(inbound[a]).bit # expected[a]
  BY DEF TypeInv, FetchInv, Reject
<1>3. PICK p : p = Head(inbound[a])
  OBVIOUS
<1>4. /\ p \in PacketType /\ inbound'[a] = Tail(inbound[a]) /\ losses'[a] = 0
      /\ d.call = c.call /\ d.calls = c.calls /\ d.listing = c.listing /\ d.got = c.got
      /\ d.emails = c.emails /\ d.fate = c.fate /\ d.inbox = c.inbox /\ d.expects = c.expects
      /\ IF c.stage = "sending" /\ c.bit = p.bit THEN d.stage = "status" /\ d.bit = 1 - c.bit
         ELSE d.stage = c.stage /\ d.bit = c.bit
  BY <1>1, <1>2, <1>3, Acknowledged
<1>5. /\ ReadInv(client'[a]) /\ ListedInv(a)' /\ DeledInv(a)'
      /\ \A cmd : HasRead(c, cmd) => HasRead(d, cmd)
  BY <1>1, <1>2, <1>4, ReadKept
<1>6. DeleInv(a)'
  BY <1>1, <1>2, <1>4, <1>5, DeleShrinks DEF FetchInv, DeleInv
<1>7. CASE c.fate = "nothing"
  <2>1. Lost(d)
    BY <1>1, <1>4, <1>7 DEF FetchInv, Lost
  <2> QED
    BY <1>1, <1>4, <1>5, <1>6, <1>7, <2>1 DEF FetchInv
<1>8. CASE c.fate # "nothing"
  <2>1. Started(a) /\ c.stage # "closed"
    BY <1>1, <1>2, <1>8 DEF FetchInv, Fresh
  <2>2. d.stage = c.stage /\ d.bit = c.bit
    BY <1>1, <1>2, <1>3, <1>4, <2>1 DEF Started, BitInv
  <2>3. Course(d)
    BY <1>1, <1>4, <2>1, <2>2, CourseKept DEF Started
  <2>4. QueueInv(a)'
    <3>1. /\ \A i \in DOMAIN inbound'[a] : /\ i + 1 \in DOMAIN inbound[a]
                                            /\ inbound'[a][i] = inbound[a][i + 1]
          /\ \A i, j \in DOMAIN inbound'[a] : i < j => i + 1 < j + 1
      BY <1>2, <1>4, QueueShrinks
    <3>2. QueueInv(a)
      BY <2>1 DEF Started
    <3>3. \A i \in DOMAIN inbound'[a] : inbound'[a][i].bit = d.bit =>
            d.stage = "sending" /\ inbound'[a][i].cmd = d.call
      BY <1>1, <1>4, <2>2, <3>1, <3>2 DEF QueueInv
    <3>4. \A i, j \in DOMAIN inbound'[a] : i < j /\ inbound'[a][i].bit = d.bit =>
            inbound'[a][j].bit = d.bit
      BY <1>1, <2>2, <3>1, <3>2 DEF QueueInv
    <3> QED
      BY <1>1, <3>3, <3>4 DEF QueueInv
  <2>5. BitInv(a)' /\ LoginInv(a)' /\ TalkInv(a)'
    BY <1>1, <1>2, <1>4, <2>1, <2>2 DEF Started, BitInv, LoginInv, TalkInv, serverVars
  <2> QED
    BY <1>1, <1>4, <1>5, <1>6, <1>8, <2>1, <2>2, <2>3, <2>4, <2>5 DEF FetchInv, Started
<1> QED
  BY <1>7, <1>8

\* What is taken is the client's call, and it is greeted when it connects.
LEMMA OwnReceive ==
  ASSUME TypeInv, TypeInv', NEW a \in Addr, FetchInv(a), Receive(a)
  PROVE  FetchInv(a)'
<1>1. PICK c \in ClientType, d \in ClientType : c = client[a] /\ d = client'[a]
  BY DEF TypeInv, TypeOK
<1>2. PICK p : p = Head(inbound[a])
  OBVIOUS
<1>3. /\ TypeOK /\ losses[a] = 0 /\ inbound[a] # <<>> /\ Acknowledge(a) /\ loop.at = "receive"
      /\ UNCHANGED <<senders, mailVars>> /\ p.bit = expected[a]
      /\ expected'[a] = 1 - expected[a]
  BY <1>2 DEF TypeInv, TypeOK, FetchInv, Receive
<1>4. /\ loop'.addr = a /\ loop'.cmd = p.cmd
      /\ \/ /\ sessions[a] = NoSession /\ sessions'[a] = _create_session
            /\ loop'.at = "greet" /\ Len(loop'.out) = 1
         \/ sessions[a] # NoSession /\ loop'.at = "handle" /\ UNCHANGED sessions
  <2> DEFINE taken == [Receiving EXCEPT !.addr = a, !.cmd = p.cmd]
             out == <<Reply("ok")>>
             greets == [taken EXCEPT !.at = "greet", !.out = out]
             handles == [taken EXCEPT !.at = "handle"]
  <2>1. taken.addr = a /\ taken.cmd = p.cmd /\ Len(out) = 1
    BY DEF Receiving
  <2>2. \/ /\ sessions[a] = NoSession /\ loop' = greets
           /\ sessions' = [sessions EXCEPT ![a] = _create_session]
        \/ sessions[a] # NoSession /\ loop' = handles /\ UNCHANGED sessions
    BY <1>2 DEF Receive
  <2> HIDE DEF out
  <2>3. /\ greets.addr = a /\ greets.cmd = p.cmd /\ greets.at = "greet" /\ greets.out = out
        /\ handles.addr = a /\ handles.cmd = p.cmd /\ handles.at = "handle"
    BY DEF Receiving
  <2> HIDE DEF taken, greets, handles
  <2> QED
    BY <1>3, <2>1, <2>2, <2>3 DEF TypeOK
<1>5. /\ p \in PacketType /\ inbound'[a] = Tail(inbound[a]) /\ losses'[a] = 0
      /\ d.call = c.call /\ d.calls = c.calls /\ d.listing = c.listing /\ d.got = c.got
      /\ d.emails = c.emails /\ d.fate = c.fate /\ d.inbox = c.inbox /\ d.expects = c.expects
      /\ IF c.stage = "sending" /\ c.bit = p.bit THEN d.stage = "status" /\ d.bit = 1 - c.bit
         ELSE d.stage = c.stage /\ d.bit = c.bit
  BY <1>1, <1>2, <1>3, Acknowledged
<1>6. \A cmd : HasRead(c, cmd) => HasRead(d, cmd)
  BY <1>5 DEF HasRead
<1>7. /\ ReadInv(client'[a]) /\ DeledInv(a)'
  BY <1>1, <1>3, <1>5 DEF FetchInv, ReadInv, DeledInv, mailVars
<1>8. ListedInv(a)'
  <2>1. \A r : Names(a, r) => Names(a, r)'
    BY <1>3, <1>4 DEF Names, NoSession, mailVars
  <2>2. ~Deletes(a)
    BY <1>3 DEF Deletes
  <2> QED
    BY <1>1, <1>5, <2>1, <2>2 DEF FetchInv, ListedInv
<1>9. DeleInv(a)'
  BY <1>1, <1>2, <1>3, <1>4, <1>5, <1>6, DeleShrinks DEF FetchInv, DeleInv
<1>10. CASE c.fate = "nothing"
  <2>1. Lost(d)
    BY <1>1, <1>5, <1>10 DEF FetchInv, Lost
  <2> QED
    BY <1>1, <1>5, <1>7, <1>8, <1>9, <1>10, <2>1 DEF FetchInv
<1>11. CASE c.fate # "nothing"
  <2>1. Started(a)
    BY <1>1, <1>3, <1>11 DEF FetchInv, Fresh
  <2>2. c.stage = "sending" /\ p.bit = c.bit /\ p.cmd = c.call
    BY <1>1, <1>2, <1>3, <2>1, QueueShrinks, <1>5 DEF Started, BitInv, QueueInv
  <2>3. d.stage = "status" /\ d.bit = 1 - c.bit /\ d.bit # c.bit
    <3>1. c.bit = 0 \/ c.bit = 1
      BY ClientFields
    <3> QED
      BY <1>5, <2>2, <3>1
  <2>4. Course(d)
    BY <1>1, <1>5, <2>1, <2>2, <2>3, CourseKept DEF Started
  <2>5. \A i \in DOMAIN inbound'[a] : inbound'[a][i].bit = c.bit
    BY <1>1, <1>2, <1>3, <1>5, <2>1, <2>2, QueueShrinks, ZenonT(60) DEF Started, QueueInv
  <2>6. QueueInv(a)'
    BY <1>1, <2>3, <2>5 DEF QueueInv
  <2>7. BitInv(a)'
    BY <1>1, <1>3, <1>5, <2>1, <2>3 DEF Started, BitInv
  <2>8. /\ c.call.verb = "connect" <=> sessions[a] = NoSession
        /\ LoginInv(a)'
    <3>1. c.call.verb = "connect" <=> sessions[a] = NoSession
      BY <1>1, <2>1, <2>2 DEF Started, LoginInv, NoSession
    <3> QED
      BY <1>1, <1>4, <1>5, <2>1, <2>2, <2>3, <3>1
         DEF Started, LoginInv, NoSession, _create_session
  <2>9. TalkInv(a)'
    BY <1>1, <1>4, <1>5, <2>2, <2>3, <2>8 DEF TalkInv
  <2> QED
    BY <1>1, <1>5, <1>7, <1>8, <1>9, <1>11, <2>3, <2>4, <2>6, <2>7, <2>8, <2>9
       DEF FetchInv, Started
<1> QED
  BY <1>10, <1>11
-----------------------------------------------------------------------------
(* The client's commands                                                   *)

LEMMA AnswerFields ==
  ASSUME TypeOK, NEW out, Answer(out)
  PROVE  loop'.at = "send" /\ loop'.addr = loop.addr /\ loop'.cmd = loop.cmd /\ loop'.out = out
BY DEF TypeOK, Answer, LoopType

LEMMA AnswerOne ==
  ASSUME TypeOK, NEW r, Answer(<<r>>)
  PROVE  /\ loop'.at = "send" /\ loop'.addr = loop.addr /\ loop'.cmd = loop.cmd
         /\ Len(loop'.out) = 1 /\ loop'.out[1] = r
<1>1. PICK out : out = <<r>>
  OBVIOUS
<1>2. Len(out) = 1 /\ out[1] = r /\ Answer(out)
  BY <1>1
<1> QED
  BY <1>2, AnswerFields

\* The loop handles what the client waits for.
LEMMA HandlesCall ==
  ASSUME NEW a \in Addr, FetchInv(a), loop.addr = a, loop.at = "handle",
         loop.cmd.verb # "connect", client[a].fate # "nothing"
  PROVE  Started(a) /\ loop.cmd = client[a].call /\ client[a].stage = "status"
BY DEF FetchInv, Fresh, Started, TalkInv

\* A session that has logged in is not logged out, and the answer is what the client expects.
LEMMA Handled ==
  ASSUME NEW a \in Addr, FetchInv(a), loop.addr = a, loop.at = "handle", HandlerOnly,
         loop'.addr = a, loop'.at = "send", loop'.cmd = loop.cmd, loop.cmd.verb # "connect",
         sessions[a].state # "NONE" => sessions'[a].state # "NONE",
         sessions[a].state = "TRANSACTION" =>
           sessions'[a].state = "TRANSACTION" /\ sessions'[a].user = sessions[a].user,
         DeledInv(a)', client[a].fate # "nothing" => OutInv(a)'
  PROVE  FetchInv(a)'
<1>1. UNCHANGED <<client, inbound, losses, expected, senders, box>>
  BY DEF HandlerOnly
<1>2. \A r : Names(a, r) => Names(a, r)'
  BY <1>1 DEF Names
<1>3. ListedInv(a)'
  BY <1>1, <1>2 DEF FetchInv, ListedInv, Deletes
<1>4. losses'[a] = 0 /\ ReadInv(client[a])' /\ DeleInv(a)'
  BY <1>1 DEF FetchInv, DeleInv
<1>5. CASE client[a].fate = "nothing"
  BY <1>1, <1>3, <1>4, <1>5 DEF FetchInv
<1>6. CASE client[a].fate # "nothing"
  <2>1. Started(a) /\ client[a].stage = "status" /\ OutInv(a)'
    BY <1>6, HandlesCall
  <2>2. Course(client[a])' /\ BitInv(a)' /\ QueueInv(a)'
    BY <1>1, <2>1 DEF Started, BitInv, QueueInv
  <2>3. LoginInv(a)'
    BY <1>1, <2>1 DEF Started, LoginInv
  <2>4. TalkInv(a)'
    BY <1>1, <2>1 DEF TalkInv
  <2> QED
    BY <1>1, <1>3, <1>4, <1>6, <2>1, <2>2, <2>3, <2>4 DEF FetchInv, Started
<1> QED
  BY <1>5, <1>6

\* An answer of one line.
LEMMA HandledPlain ==
  ASSUME NEW a \in Addr, FetchInv(a), loop.addr = a, loop.at = "handle", HandlerOnly,
         loop'.addr = a, loop'.at = "send", loop'.cmd = loop.cmd, Len(loop'.out) = 1,
         loop.cmd.verb \in {"USER", "PASS", "STAT", "DELE"},
         sessions[a].state # "NONE" => sessions'[a].state # "NONE",
         sessions[a].state = "TRANSACTION" =>
           sessions'[a].state = "TRANSACTION" /\ sessions'[a].user = sessions[a].user,
         loop.cmd.verb = "PASS" /\ loop'.out[1].kind # "err" =>
           sessions'[a].state = "TRANSACTION",
         DeledInv(a)'
  PROVE  FetchInv(a)'
<1>1. UNCHANGED client
  BY DEF HandlerOnly
<1>2. ASSUME client[a].fate # "nothing" PROVE OutInv(a)'
  <2>1. loop.cmd = client[a].call /\ client[a].stage = "status"
    BY <1>2, HandlesCall
  <2> QED
    BY <1>1, <2>1 DEF OutInv
<1> QED
  BY <1>2, Handled

LEMMA OwnLogin ==
  ASSUME TypeInv, NEW a \in Addr, FetchInv(a), loop.addr = a, _cmd_USER \/ _cmd_PASS
  PROVE  FetchInv(a)'
<1>1. /\ loop.at = "handle" /\ HandlerOnly /\ UNCHANGED <<deled, stale>> /\ TypeOK
      /\ loop.cmd.verb \in {"USER", "PASS"} /\ Session = sessions[a]
  BY DEF _cmd_USER, _cmd_PASS, Handles, TypeInv, Session
<1>2. Reply("ok").kind = "ok" /\ Reply("err").kind = "err"
  BY DEF Reply
<1>3. PICK kind \in {"ok", "err"} : Answer(<<Reply(kind)>>)
  BY DEF _cmd_USER, _cmd_PASS
<1>4. /\ loop'.at = "send" /\ loop'.addr = a /\ loop'.cmd = loop.cmd
      /\ Len(loop'.out) = 1 /\ loop'.out[1] = Reply(kind)
  BY <1>1, <1>3, AnswerOne
<1>5. DeledInv(a)'
  BY <1>1 DEF FetchInv, DeledInv, HandlerOnly
<1>6. sessions[a] \in SessionType
  BY <1>1 DEF TypeOK
<1>7. \/ UNCHANGED sessions
      \/ /\ sessions[a].state = "AUTHORIZATION"
         /\ sessions'[a].state \in {"AUTHORIZATION", "TRANSACTION"}
  <2>1. ASSUME NEW s, SetSession(s) PROVE sessions'[a] = s
    BY <1>1, <2>1 DEF SetSession, TypeOK
  <2>2. \/ UNCHANGED sessions
        \/ /\ Session.state = "AUTHORIZATION"
           /\ \/ SetSession([Session EXCEPT !.user = loop.cmd.name])
              \/ SetSession([Session EXCEPT !.state = "TRANSACTION"])
              \/ SetSession([Session EXCEPT !.user = None])
    BY DEF _cmd_USER, _cmd_PASS
  <2> QED
    BY <1>1, <1>6, <2>1, <2>2 DEF SessionType
<1>8. loop.cmd.verb = "PASS" /\ Reply(kind).kind # "err" => sessions'[a].state = "TRANSACTION"
  <2>1. ASSUME loop.cmd.verb = "PASS", Reply(kind).kind # "err"
        PROVE  SetSession([Session EXCEPT !.state = "TRANSACTION"])
    <3>1. ~Answer(<<Reply("err")>>)
      <4>1. Answer(<<Reply("err")>>) => loop'.out[1] = Reply("err")
        BY <1>1, AnswerOne
      <4> QED
        BY <1>2, <1>4, <2>1, <4>1
    <3> QED
      BY <2>1, <3>1 DEF _cmd_USER, _cmd_PASS, Handles
  <2> QED
    BY <1>1, <1>6, <2>1 DEF SetSession, TypeOK, SessionType
<1> QED
  BY <1>1, <1>4, <1>5, <1>7, <1>8, HandledPlain

LEMMA OwnStat ==
  ASSUME TypeInv, NEW a \in Addr, FetchInv(a), loop.addr = a, _cmd_STAT
  PROVE  FetchInv(a)'
<1>1. /\ loop.at = "handle" /\ HandlerOnly /\ UNCHANGED <<sessions, deled>> /\ TypeOK
      /\ loop.cmd.verb = "STAT"
  BY DEF _cmd_STAT, Handles, TypeInv
<1>2. PICK r : Answer(<<r>>)
  BY DEF _cmd_STAT
<1>3. /\ loop'.at = "send" /\ loop'.addr = a /\ loop'.cmd = loop.cmd /\ Len(loop'.out) = 1
  BY <1>1, <1>2, AnswerOne
<1>4. DeledInv(a)'
  BY <1>1 DEF FetchInv, DeledInv, HandlerOnly
<1> QED
  BY <1>1, <1>3, <1>4, HandledPlain

\* What a delayed DELE marks has been read as well.
LEMMA OwnDele ==
  ASSUME TypeInv, NEW a \in Addr, FetchInv(a), loop.addr = a, _cmd_DELE
  PROVE  FetchInv(a)'
<1>1. /\ loop.at = "handle" /\ HandlerOnly /\ TypeOK /\ loop.cmd.verb = "DELE"
      /\ Session = sessions[a] /\ ~Deletes(a)
  BY DEF _cmd_DELE, Handles, TypeInv, Session, Deletes
<1>2. PICK r : Answer(<<r>>)
  BY DEF _cmd_DELE
<1>3. /\ loop'.at = "send" /\ loop'.addr = a /\ loop'.cmd = loop.cmd /\ Len(loop'.out) = 1
  BY <1>1, <1>2, AnswerOne
<1>4. CASE UNCHANGED <<sessions, deled>>
  <2>1. DeledInv(a)'
    BY <1>1, <1>4 DEF FetchInv, DeledInv, HandlerOnly
  <2> QED
    BY <1>1, <1>3, <1>4, <2>1, HandledPlain
<1>5. CASE /\ Open /\ loop.cmd.num \in Unmarked
           /\ SetSession([Session EXCEPT !.marked = @ \union {loop.cmd.num}])
           /\ deled' = [deled EXCEPT ![loop.addr] = @ \union {Messages[loop.cmd.num]}]
  <2> DEFINE m == Messages[loop.cmd.num]
             s == [Session EXCEPT !.marked = @ \union {loop.cmd.num}]
  <2>1. sessions'[a] = s /\ deled'[a] = deled[a] \union {m}
    BY <1>1, <1>5 DEF SetSession, TypeOK
  <2>2. s.state = sessions[a].state /\ s.user = sessions[a].user
    BY <1>1 DEF TypeOK, SessionType
  <2>3. \E i \in DOMAIN client[a].emails : client[a].emails[i] = <<m>>
    <3>1. PICK i \in DOMAIN client[a].emails : client[a].listing[i].num = loop.cmd.num
      BY <1>1 DEF FetchInv, DeleInv, HasRead
    <3>2. i \in DOMAIN client[a].listing
      <4>1. client[a] \in ClientType
        BY <1>1 DEF TypeOK
      <4>2. PICK x \in Seq(Seq(Msg \union {None})), l \in Seq(NumberOf) :
              x = client[a].emails /\ l = client[a].listing
        BY <4>1, ClientFields
      <4>3. Len(x) <= Len(l)
        BY <4>2 DEF FetchInv, ReadInv
      <4> QED
        BY <4>2, <4>3
    <3>3. Names(a, client[a].listing[i])
      BY <1>1, <3>2 DEF FetchInv, ListedInv
    <3>4. m = client[a].listing[i].msg
      BY <1>1, <3>1, <3>3 DEF Names, Messages
    <3>5. client[a].emails[i] = <<client[a].listing[i].msg>>
      BY DEF FetchInv, ReadInv
    <3> QED
      BY <3>4, <3>5
  <2> HIDE DEF m, s
  <2>4. DeledInv(a)'
    BY <1>1, <2>1, <2>3 DEF FetchInv, DeledInv, HandlerOnly
  <2> QED
    BY <1>1, <1>3, <2>1, <2>2, <2>4, HandledPlain
<1> QED
  BY <1>4, <1>5 DEF _cmd_DELE

\* RETR answers with the message that was listed under its number.
LEMMA OwnRetr ==
  ASSUME TypeInv, NEW a \in Addr, FetchInv(a), loop.addr = a, _cmd_RETR
  PROVE  FetchInv(a)'
<1>1. /\ loop.at = "handle" /\ HandlerOnly /\ TypeOK /\ loop.cmd.verb = "RETR"
      /\ UNCHANGED <<sessions, deled>> /\ Session = sessions[a] /\ ~Deletes(a)
  BY DEF _cmd_RETR, Handles, TypeInv, Session, Deletes
<1> DEFINE content(m) == [Reply("content") EXCEPT !.msg = m]
<1>2. PICK out :
        /\ Answer(out)
        /\ \/ out = <<Reply("ok"), content(Messages[loop.cmd.num]), Reply("end")>>
           \/ out = <<Reply("ok"), Reply("err")>>
           \/ out = <<Reply("err")>>
  BY DEF _cmd_RETR
<1>3. loop'.at = "send" /\ loop'.addr = a /\ loop'.cmd = loop.cmd /\ loop'.out = out
  BY <1>1, <1>2, AnswerFields
<1>4. DeledInv(a)'
  BY <1>1 DEF FetchInv, DeledInv, HandlerOnly
<1>5. ASSUME client[a].fate # "nothing" PROVE OutInv(a)'
  <2>1. Started(a) /\ loop.cmd = client[a].call /\ client[a].stage = "status"
    BY <1>1, <1>5, HandlesCall
  <2>2. PICK c \in ClientType : c = client[a]
    BY <1>1 DEF TypeOK
  <2> DEFINE m == c.listing[Len(c.emails) + 1].msg
  <2>3. Messages[loop.cmd.num] = m
    <3>1. Len(c.emails) < Len(c.listing) /\ c.call = Retr(c.listing[Len(c.emails) + 1].num)
      BY <1>1, <2>1, <2>2 DEF Started, Course, FetchCourse
    <3>2. loop.cmd.num = c.listing[Len(c.emails) + 1].num
      BY <2>1, <2>2, <3>1 DEF Retr
    <3>3. Len(c.emails) + 1 \in DOMAIN c.listing
      BY <3>1, ClientFields
    <3>4. Names(a, c.listing[Len(c.emails) + 1])
      BY <1>1, <2>2, <3>3 DEF FetchInv, ListedInv
    <3> QED
      BY <1>1, <3>2, <3>4 DEF Names, Messages
  <2>4. /\ Reply("ok").kind = "ok" /\ Reply("err").kind = "err" /\ Reply("end").kind = "end"
        /\ content(m).kind = "content" /\ content(m).msg = m
    BY DEF Reply
  <2> HIDE DEF m
  <2>5. \/ out = <<Reply("ok"), content(m), Reply("end")>>
        \/ out = <<Reply("ok"), Reply("err")>>
        \/ out = <<Reply("err")>>
    BY <1>2, <2>3
  <2> HIDE DEF content
  <2>6. \/ /\ Len(out) = 3 /\ out[1].kind = "ok" /\ out[3].kind = "end"
           /\ out[2].kind = "content" /\ out[2].msg = m
        \/ Len(out) = 2 /\ out[1].kind = "ok" /\ out[2].kind = "err"
        \/ Len(out) = 1 /\ out[1].kind = "err"
    <3>1. \A x, y, z : /\ Len(<<x, y, z>>) = 3 /\ <<x, y, z>>[1] = x
                       /\ <<x, y, z>>[2] = y /\ <<x, y, z>>[3] = z
      OBVIOUS
    <3>2. \A x, y : Len(<<x, y>>) = 2 /\ <<x, y>>[1] = x /\ <<x, y>>[2] = y
      OBVIOUS
    <3>3. \A x : Len(<<x>>) = 1 /\ <<x>>[1] = x
      OBVIOUS
    <3>4. CASE out = <<Reply("ok"), content(m), Reply("end")>>
      BY <2>4, <3>1, <3>4
    <3>5. CASE out = <<Reply("ok"), Reply("err")>>
      BY <2>4, <3>2, <3>5
    <3>6. CASE out = <<Reply("err")>>
      BY <2>4, <3>3, <3>6
    <3> QED
      BY <2>5, <3>4, <3>5, <3>6
  <2>7. RetrOut(c, out)
    BY <2>1, <2>2, <2>6 DEF RetrOut, m
  <2>8. client'[a] = c
    BY <1>1, <2>2 DEF HandlerOnly
  <2> QED
    BY <1>1, <1>3, <2>1, <2>2, <2>7, <2>8 DEF OutInv
<1> QED
  BY <1>1, <1>3, <1>4, <1>5, Handled

LEMMA Enclosed ==
  ASSUME NEW S, NEW x \in S, NEW y \in S, NEW q \in Seq(S), NEW o, o = <<x>> \o q \o <<y>>
  PROVE  /\ DOMAIN o = 1 .. Len(q) + 2 /\ Len(o) = Len(q) + 2 /\ o[1] = x /\ o[Len(q) + 2] = y
         /\ \A i \in 2 .. Len(q) + 1 : i - 1 \in DOMAIN q /\ o[i] = q[i - 1]
<1>1. PICK p \in Seq(S) : /\ p = <<x>> \o q /\ Len(p) = Len(q) + 1 /\ p[1] = x
                          /\ \A i \in 2 .. Len(q) + 1 : p[i] = q[i - 1]
  <2>1. PICK s \in Seq(S) : s = <<x>> /\ Len(s) = 1 /\ s[1] = x
    <3>1. <<x>> \in Seq(S) /\ Len(<<x>>) = 1 /\ <<x>>[1] = x
      OBVIOUS
    <3> QED
      BY <3>1, Zenon
  <2>2. s \o q \in Seq(S) /\ Len(s \o q) = Len(q) + 1
    BY <2>1, ConcatProperties
  <2>3. (s \o q)[1] = x
    BY <2>1
  <2>4. \A i \in 2 .. Len(q) + 1 : (s \o q)[i] = q[i - 1]
    BY <2>1
  <2> QED
    BY <2>1, <2>2, <2>3, <2>4
<1>2. /\ Len(p \o <<y>>) = Len(p) + 1 /\ (p \o <<y>>)[Len(p) + 1] = y
      /\ DOMAIN (p \o <<y>>) = 1 .. Len(p) + 1
      /\ \A i \in 1 .. Len(p) : (p \o <<y>>)[i] = p[i]
  OBVIOUS
<1>3. /\ 1 \in 1 .. Len(p) /\ Len(p) + 1 = Len(q) + 2
      /\ \A i \in 2 .. Len(q) + 1 : i \in 1 .. Len(p) /\ i - 1 \in DOMAIN q
  BY <1>1
<1> QED
  BY <1>1, <1>2, <1>3

\* LIST answers with the numbers of the messages as they are, or with none.
\* "ok", the lines, and "end".
ListReply(out) ==
  \E n \in Nat :
    /\ DOMAIN out = 1 .. n + 2 /\ Len(out) = n + 2
    /\ out[1] = Reply("ok") /\ out[n + 2] = Reply("end")
    /\ \A i \in 2 .. n + 1 : /\ out[i].kind = "line" /\ out[i].num \in DOMAIN Messages
                             /\ out[i].msg = Messages[out[i].num]

LEMMA ListedAnswer ==
  ASSUME TypeInv, loop.at = "handle", Open, NEW numbers \in Ascending(Unmarked), NEW out,
         \A other : Answer(other) => other = out,
         Answer(<<Reply("ok")>> \o [k \in DOMAIN numbers |-> ListLine(numbers[k])]
                                \o <<Reply("end")>>)
  PROVE  ListReply(out)
<1>1. TypeOK
  BY DEF TypeInv
<1> DEFINE lines == [k \in DOMAIN numbers |-> ListLine(numbers[k])]
<1>2. PICK n \in Nat : numbers \in [1 .. n -> Unmarked]
  BY <1>1, MailboxType DEF Ascending
<1>3. Session.user \in User /\ Messages \in Seq(Msg) /\ Unmarked \subseteq DOMAIN Messages
  BY <1>1, MailboxType
<1>4. ASSUME NEW k \in 1 .. n
      PROVE  /\ ListLine(numbers[k]) \in ReplyType /\ ListLine(numbers[k]).kind = "line"
             /\ ListLine(numbers[k]).num \in DOMAIN Messages
             /\ ListLine(numbers[k]).msg = Messages[ListLine(numbers[k]).num]
  <2>1. numbers[k] \in DOMAIN Messages /\ numbers[k] \in Nat /\ Messages[numbers[k]] \in Msg
    BY <1>2, <1>3
  <2>2. /\ ListLine(numbers[k]) \in ReplyType /\ ListLine(numbers[k]).kind = "line"
        /\ ListLine(numbers[k]).num = numbers[k]
        /\ ListLine(numbers[k]).msg = Messages[numbers[k]]
    BY <2>1 DEF ListLine, ReplyType, Reply
  <2> QED
    BY <2>1, <2>2
<1>5. lines \in Seq(ReplyType) /\ Len(lines) = n
      /\ \A k \in 1 .. n : lines[k] = ListLine(numbers[k])
  <2>1. lines \in [1 .. n -> ReplyType]
    BY <1>2, <1>4
  <2> QED
    BY <1>2, <2>1
<1>6. Reply("ok") \in ReplyType /\ Reply("end") \in ReplyType
  BY SomeTypes
<1> HIDE DEF lines
<1>7. out = <<Reply("ok")>> \o lines \o <<Reply("end")>>
  BY DEF lines
<1>8. /\ DOMAIN out = 1 .. n + 2 /\ Len(out) = n + 2
      /\ out[1] = Reply("ok") /\ out[n + 2] = Reply("end")
      /\ \A i \in 2 .. n + 1 : i - 1 \in 1 .. n /\ out[i] = lines[i - 1]
  <2>1. PICK q \in Seq(ReplyType), x \in ReplyType, y \in ReplyType :
          q = lines /\ x = Reply("ok") /\ y = Reply("end")
    BY <1>5, <1>6
  <2>2. out = <<x>> \o q \o <<y>>
    BY <1>7, <2>1
  <2>3. /\ DOMAIN out = 1 .. Len(q) + 2 /\ Len(out) = Len(q) + 2
        /\ out[1] = x /\ out[Len(q) + 2] = y
        /\ \A i \in 2 .. Len(q) + 1 : i - 1 \in DOMAIN q /\ out[i] = q[i - 1]
    BY <2>2, Enclosed
  <2> QED
    BY <1>5, <2>1, <2>3
<1>9. \A i \in 2 .. n + 1 : /\ out[i].kind = "line" /\ out[i].num \in DOMAIN Messages
                            /\ out[i].msg = Messages[out[i].num]
  BY <1>4, <1>5, <1>8
<1> QED
  BY <1>8, <1>9 DEF ListReply

LEMMA ListAnswer ==
  ASSUME TypeInv, _cmd_LIST, Open, loop.cmd.num = 0, NEW out, Answer(out)
  PROVE  ListReply(out)
<1>1. loop.at = "handle" /\ TypeOK
  BY DEF _cmd_LIST, Handles, TypeInv
<1>2. \A other : Answer(other) => other = out
  BY <1>1, AnswerFields
<1>3. CASE out = <<Reply("ok"), Reply("end")>>
  <2>1. /\ DOMAIN out = 1 .. 0 + 2 /\ Len(out) = 0 + 2
        /\ out[1] = Reply("ok") /\ out[0 + 2] = Reply("end") /\ 2 .. 0 + 1 = {}
    BY <1>3
  <2> QED
    BY <2>1 DEF ListReply
<1>4. CASE \E numbers \in Ascending(Unmarked) :
             Answer(<<Reply("ok")>> \o [k \in DOMAIN numbers |-> ListLine(numbers[k])]
                                    \o <<Reply("end")>>)
  BY <1>1, <1>2, <1>4, ListedAnswer
<1> QED
  BY <1>2, <1>3, <1>4 DEF _cmd_LIST

LEMMA OwnList ==
  ASSUME TypeInv, NEW a \in Addr, FetchInv(a), loop.addr = a, _cmd_LIST
  PROVE  FetchInv(a)'
<1>1. /\ loop.at = "handle" /\ HandlerOnly /\ TypeOK /\ loop.cmd.verb = "LIST"
      /\ UNCHANGED <<sessions, deled>> /\ Session = sessions[a]
  BY DEF _cmd_LIST, Handles, TypeInv, Session
<1>2. PICK out : Answer(out)
  BY DEF _cmd_LIST
<1>3. loop'.at = "send" /\ loop'.addr = a /\ loop'.cmd = loop.cmd /\ loop'.out = out
  BY <1>1, <1>2, AnswerFields
<1>4. DeledInv(a)'
  BY <1>1 DEF FetchInv, DeledInv, HandlerOnly
<1>5. ASSUME client[a].fate # "nothing" PROVE OutInv(a)'
  <2>1. /\ Started(a) /\ loop.cmd = client[a].call /\ client[a].stage = "status"
        /\ client'[a] = client[a]
    BY <1>1, <1>5, HandlesCall DEF HandlerOnly
  <2>2. Open /\ loop.cmd.num = 0
    BY <1>1, <2>1 DEF Started, Course, FetchCourse, LoginInv, Open
  <2>3. PICK n \in Nat :
          /\ DOMAIN out = 1 .. n + 2 /\ Len(out) = n + 2
          /\ out[1] = Reply("ok") /\ out[n + 2] = Reply("end")
          /\ \A i \in 2 .. n + 1 : /\ out[i].kind = "line" /\ out[i].num \in DOMAIN Messages
                                   /\ out[i].msg = Messages[out[i].num]
    BY <1>2, <2>2, ListAnswer DEF ListReply
  <2>4. Reply("ok").kind = "ok" /\ Reply("end").kind = "end"
    BY DEF Reply
  <2>5. \A i \in 2 .. n + 1 : out[i].kind = "line" /\ Names(a, out[i])'
    BY <1>1, <2>2, <2>3 DEF Names, HandlerOnly, Messages, Open
  <2>6. ListOut(a)'
    <3>1. Len(out) >= 2 /\ out[1].kind = "ok"
      BY <2>3, <2>4
    <3>2. ASSUME NEW i \in DOMAIN out
          PROVE  /\ i < Len(out) /\ i # 1 => out[i].kind = "line" /\ Names(a, out[i])'
                 /\ i = Len(out) => out[i].kind = "end"
      <4>1. i < Len(out) /\ i # 1 => i \in 2 .. n + 1
        BY <2>3
      <4> QED
        BY <2>3, <2>4, <2>5, <4>1
    <3> QED
      BY <1>3, <2>1, <3>1, <3>2 DEF ListOut
  <2> QED
    BY <1>1, <1>3, <2>1, <2>6 DEF OutInv
<1> QED
  BY <1>1, <1>3, <1>4, <1>5, Handled

\* QUIT looks up what it deletes.
LEMMA OwnQuit ==
  ASSUME TypeInv, NEW a \in Addr, FetchInv(a), loop.addr = a, _cmd_QUIT
  PROVE  FetchInv(a)'
<1>1. /\ loop.at = "handle" /\ HandlerOnly /\ loop \in LoopType /\ loop.cmd.verb = "QUIT"
      /\ UNCHANGED <<sessions, deled, stale>> /\ ~Deletes(a)
  BY DEF _cmd_QUIT, Handles, TypeInv, TypeOK, Deletes
<1>2. CASE Raise
  <2>1. loop'.at = "over" /\ loop'.addr = a
    BY <1>1, <1>2 DEF Raise, LoopType
  <2> QED
    BY <1>1, <2>1, Steady DEF HandlerOnly
<1>3. CASE ~Raise
  <2>1. PICK x : loop' = [loop EXCEPT !.at = "delete", !.doomed = x]
    BY <1>3 DEF _cmd_QUIT
  <2>2. loop'.at = "delete" /\ loop'.addr = a /\ loop'.cmd = loop.cmd
    BY <1>1, <2>1 DEF LoopType
  <2>3. ListedInv(a)' /\ DeleInv(a)' /\ DeledInv(a)'
    BY <1>1, <2>2 DEF FetchInv, ListedInv, DeleInv, DeledInv, Deletes, HandlerOnly
  <2>4. ASSUME client[a].fate # "nothing"
        PROVE  Started(a)' /\ client[a].stage = "status"
    <3>1. Started(a) /\ loop.cmd = client[a].call /\ client[a].stage = "status"
      BY <1>1, <2>4, HandlesCall
    <3>2. Course(client[a])' /\ BitInv(a)' /\ QueueInv(a)' /\ LoginInv(a)'
      BY <1>1, <3>1 DEF Started, BitInv, QueueInv, LoginInv, HandlerOnly
    <3>3. TalkInv(a)'
      BY <1>1, <2>2, <3>1 DEF TalkInv, HandlerOnly
    <3> QED
      BY <3>1, <3>2, <3>3 DEF Started
  <2> QED
    BY <1>1, <2>3, <2>4 DEF FetchInv, HandlerOnly
<1> QED
  BY <1>2, <1>3

\* The line that connect() sends has no answer, and there is none without a handler.
LEMMA OwnOther ==
  ASSUME TypeInv, NEW a \in Addr, FetchInv(a), loop.addr = a, _handle_command
  PROVE  FetchInv(a)'
<1>1. /\ loop.at = "handle" /\ HandlerOnly /\ TypeOK /\ UNCHANGED <<sessions, deled, stale>>
      /\ ~Deletes(a)
  BY DEF _handle_command, TypeInv, Deletes
<1>2. CASE loop.cmd.verb = "BAD"
  <2>1. PICK r : Answer(<<r>>)
    BY <1>2 DEF _handle_command
  <2>2. loop'.at = "send" /\ loop'.addr = a /\ loop'.cmd = loop.cmd
    BY <1>1, <2>1, AnswerOne
  <2>3. DeledInv(a)'
    BY <1>1 DEF FetchInv, DeledInv, HandlerOnly
  <2>4. client[a].fate = "nothing"
    <3>1. client[a].fate # "nothing" => Started(a) /\ loop.cmd = client[a].call
      BY <1>1, <1>2, HandlesCall
    <3> QED
      BY <1>2, <3>1 DEF Started, Course
  <2> QED
    BY <1>1, <1>2, <2>2, <2>3, <2>4, Handled
<1>3. CASE loop.cmd.verb # "BAD"
  <2>1. loop' = Receiving
    BY <1>3 DEF _handle_command
  <2> QED
    BY <1>1, <2>1, Steady, SomeTypes DEF HandlerOnly
<1> QED
  BY <1>2, <1>3
-----------------------------------------------------------------------------
(* The replies to the client                                               *)

\* Nothing is lost on the way to a client that waits for a reply.
Reads(a, c, r) == Waits(a) /\ c.inbox = <<>> =>
  \/ client'[a] = Read(c, r) /\ Sent(1 - r.bit, loop.stalled)
  \/ client'[a] = c /\ Raise /\ senders'[a] = r.bit /\ UNCHANGED expected /\ ~Fits(r)

GetsReply(a, c) ==
  \E r \in ReplyType :
    /\ r.bit = IF senders[a] = None THEN 0 ELSE senders[a]
    /\ r.kind = loop.out[1].kind /\ r.num = loop.out[1].num /\ r.msg = loop.out[1].msg
    /\ \/ client'[a] = c
       \/ Waits(a) /\ client'[a] = Read(c, r)
       \/ ~Waits(a) /\ client'[a] = [c EXCEPT !.inbox = Append(@, r)]
    /\ Reads(a, c, r)

LEMMA SendFields ==
  ASSUME TypeInv, NEW a \in Addr, loop.addr = a, losses[a] = 0, SendReply
  PROVE  /\ loop.at \in {"greet", "send"} /\ losses'[a] = 0
         /\ loop.out \in Seq(ReplyType) /\ loop.out # <<>>
         /\ UNCHANGED <<inbound, sessions, mailVars>>
         /\ Raise \/ \E b, late : Sent(b, late)
         /\ GetsReply(a, client[a])
<1> DEFINE c == client[a]
<1>1. /\ client \in [Addr -> ClientType] /\ senders \in [Addr -> {0, 1, None}]
      /\ losses \in [Addr -> Nat] /\ loop.out \in Seq(ReplyType)
  BY DEF TypeInv, TypeOK, LoopType
<1>2. loop.at \in {"greet", "send"} /\ loop.out # <<>> /\ UNCHANGED <<inbound, sessions, mailVars>>
  BY DEF SendReply
<1>3. PICK bit, first, r :
        /\ bit \in {0, 1} /\ first \in ReplyType
        /\ bit = IF senders[a] = None THEN 0 ELSE senders[a]
        /\ first = Head(loop.out) /\ first = loop.out[1]
        /\ r = [Head(loop.out) EXCEPT !.bit = bit]
  <2>1. PICK first \in ReplyType : first = Head(loop.out) /\ first = loop.out[1]
    BY <1>1, <1>2
  <2>2. PICK bit \in {0, 1} : bit = IF senders[a] = None THEN 0 ELSE senders[a]
    BY <1>1
  <2>3. PICK r : r = [Head(loop.out) EXCEPT !.bit = bit]
    OBVIOUS
  <2> QED
    BY <2>1, <2>2, <2>3
<1>4. ~Lose(a)
  BY DEF Lose
<1> DEFINE ready == Waits(a) /\ client[a].inbox = <<>> /\ Fits(r)
           read == [client EXCEPT ![a] = Read(@, r)]
           arrives == IF Waits(a) THEN read ELSE [client EXCEPT ![a].inbox = Append(@, r)]
<1>5. \/ /\ ready /\ client' = read /\ Sent(1 - bit, loop.stalled) /\ UNCHANGED losses
      \/ /\ Silent(a) \/ ~Fits(r)
         /\ UNCHANGED losses
         /\ client' \in {client} \union
              (IF client[a].stage # "closed" /\ Fits(r) THEN {arrives} ELSE {})
         /\ IF r.kind = "content"
            THEN Raise /\ senders' = [senders EXCEPT ![a] = bit] /\ UNCHANGED expected
            ELSE Sent(bit, TRUE)
  BY <1>3, <1>4 DEF SendReply
<1>6. read[a] = Read(c, r) /\ arrives[a] = IF Waits(a) THEN Read(c, r)
                                           ELSE [c EXCEPT !.inbox = Append(@, r)]
  BY <1>1
<1> HIDE DEF read, arrives
<1>7. \/ client'[a] = c
      \/ Waits(a) /\ client'[a] = Read(c, r)
      \/ ~Waits(a) /\ client'[a] = [c EXCEPT !.inbox = Append(@, r)]
  BY <1>5, <1>6
<1>8. /\ r \in ReplyType /\ r.bit = bit /\ r.kind = first.kind /\ r.num = first.num
      /\ r.msg = first.msg
  <2>1. r = [first EXCEPT !.bit = bit] /\ bit \in {0, 1} /\ first \in ReplyType
    BY <1>3
  <2> QED
    BY <2>1 DEF ReplyType
<1>9. Reads(a, c, r)
  <2>1. SUFFICES ASSUME Waits(a), c.inbox = <<>>
                 PROVE  \/ client'[a] = Read(c, r) /\ Sent(1 - bit, loop.stalled)
                        \/ /\ client'[a] = c /\ Raise /\ senders'[a] = bit /\ UNCHANGED expected
                           /\ ~Fits(r)
    BY <1>8 DEF Reads
  <2>2. ~Silent(a)
    BY <2>1 DEF Silent
  <2> QED
    BY <1>1, <1>5, <1>6, <2>1, <2>2 DEF Fits
<1>10. GetsReply(a, c)
  <2>1. r.bit = IF senders[a] = None THEN 0 ELSE senders[a]
    BY <1>3, <1>8
  <2>2. r.kind = loop.out[1].kind /\ r.num = loop.out[1].num /\ r.msg = loop.out[1].msg
    BY <1>3, <1>8
  <2> HIDE DEF c
  <2> QED
    BY <1>7, <1>8, <1>9, <2>1, <2>2 DEF GetsReply
<1>11. losses'[a] = 0 /\ (Raise \/ \E b, late : Sent(b, late))
  BY <1>5
<1> QED
  BY <1>1, <1>2, <1>10, <1>11

\* What is left to do behind a reply.
LEMMA SentFields ==
  ASSUME TypeOK, NEW a \in Addr, loop.addr = a, loop.at \in {"greet", "send"},
         NEW bit, NEW late, Sent(bit, late)
  PROVE  /\ Len(loop.out) # 1 =>
              /\ loop'.at = loop.at /\ loop'.addr = a /\ loop'.cmd = loop.cmd
              /\ loop'.out = Tail(loop.out)
         /\ Len(loop.out) = 1 /\ loop.at = "greet" =>
              loop'.at = "handle" /\ loop'.addr = a /\ loop'.cmd = loop.cmd
         /\ Len(loop.out) = 1 /\ loop.at = "send" => loop'.at = "receive"
         /\ loop.cmd.verb # "QUIT" \/ loop.at = "greet" =>
              senders'[a] = bit /\ UNCHANGED expected
<1>1. loop \in LoopType /\ senders \in [Addr -> {0, 1, None}]
  BY DEF TypeOK
<1> DEFINE rest == Tail(loop.out)
<1>2. CASE Len(loop.out) # 1
  <2>1. loop' = [loop EXCEPT !.out = rest, !.stalled = late] /\ UNCHANGED expected
        /\ senders' = [senders EXCEPT ![a] = bit]
    BY <1>1, <1>2 DEF Sent, LoopType
  <2> HIDE DEF rest
  <2>2. loop'.at = loop.at /\ loop'.addr = a /\ loop'.cmd = loop.cmd /\ loop'.out = rest
    BY <1>1, <2>1 DEF LoopType
  <2> QED
    BY <1>1, <1>2, <2>1, <2>2 DEF rest
<1>3. CASE Len(loop.out) = 1 /\ loop.at = "greet"
  <2>1. loop' = [[loop EXCEPT !.at = "handle", !.out = <<>>] EXCEPT !.stalled = late]
        /\ UNCHANGED expected /\ senders' = [senders EXCEPT ![a] = bit]
    BY <1>3 DEF Sent, Finish
  <2> QED
    BY <1>1, <1>3, <2>1 DEF LoopType
<1>4. CASE Len(loop.out) = 1 /\ loop.at = "send"
  <2>1. loop' = [Receiving EXCEPT !.stalled = late]
        /\ (loop.cmd.verb # "QUIT" =>
              UNCHANGED expected /\ senders' = [senders EXCEPT ![a] = bit])
    BY <1>4 DEF Sent, Finish
  <2> QED
    BY <1>1, <1>4, <2>1 DEF Receiving
<1> QED
  BY <1>2, <1>3, <1>4

\* What was read, and the packets that wait, do not depend on the replies.
LEMMA SendKept ==
  ASSUME NEW a \in Addr, FetchInv(a), loop.addr = a, loop.at \in {"greet", "send"},
         UNCHANGED <<inbound, sessions, mailVars>>,
         client'[a].listing = client[a].listing, client'[a].emails = client[a].emails
  PROVE  ReadInv(client'[a]) /\ ListedInv(a)' /\ DeledInv(a)'
<1>1. \A r : Names(a, r) => Names(a, r)'
  BY DEF mailVars, Names
<1>2. ListedInv(a)'
  BY <1>1 DEF FetchInv, ListedInv, Deletes
<1> QED
  BY <1>2 DEF FetchInv, ReadInv, DeledInv, mailVars

LEMMA SendDele ==
  ASSUME TypeInv, NEW a \in Addr, FetchInv(a), loop.addr = a, loop.at \in {"greet", "send"},
         UNCHANGED <<inbound, sessions, mailVars>>, Raise \/ \E b, late : Sent(b, late),
         \A cmd : HasRead(client[a], cmd) => HasRead(client'[a], cmd)
  PROVE  DeleInv(a)'
<1>1. loop'.at \in {"greet", "handle"} => loop.at = "greet" /\ loop'.cmd = loop.cmd
  <2>1. TypeOK
    BY DEF TypeInv
  <2>2. CASE Raise
    BY <2>1, <2>2, RaiseType
  <2>3. ASSUME NEW b, NEW late, Sent(b, late)
        PROVE  loop'.at \in {"greet", "handle"} => loop.at = "greet" /\ loop'.cmd = loop.cmd
    BY <2>1, <2>3, SentFields
  <2> QED
    BY <2>2, <2>3
<1> QED
  BY <1>1 DEF FetchInv, DeleInv

\* A client that has failed,
LEMMA SendLost ==
  ASSUME TypeInv, NEW a \in Addr, FetchInv(a), loop.addr = a, loop.at \in {"greet", "send"},
         losses'[a] = 0, UNCHANGED <<inbound, sessions, mailVars>>,
         Raise \/ \E b, late : Sent(b, late),
         NEW c, c = client[a], NEW d, d = client'[a], Lost(d), d.fate = "nothing",
         d.listing = c.listing, d.emails = c.emails
  PROVE  FetchInv(a)'
<1>1. ReadInv(client'[a]) /\ ListedInv(a)' /\ DeledInv(a)'
  BY SendKept
<1>2. DeleInv(a)'
  <2>1. \A cmd : HasRead(c, cmd) => HasRead(d, cmd)
    BY DEF HasRead
  <2> QED
    BY <2>1, SendDele
<1> QED
  BY <1>1, <1>2 DEF FetchInv

\* and one that goes on.
LEMMA SendOn ==
  ASSUME TypeInv, NEW a \in Addr, FetchInv(a), loop.addr = a, loop.at \in {"greet", "send"},
         losses'[a] = 0, UNCHANGED <<inbound, sessions, mailVars>>, UNCHANGED expected,
         Raise \/ \E b, late : Sent(b, late),
         NEW c \in ClientType, c = client[a], NEW d, d = client'[a],
         Started(a), c.stage \in {"status", "lines"}, c.fate # "nothing",
         Course(d), d.stage \in {"idle", "lines"}, Onward(c, d),
         senders'[a] = 1 - c.expects,
         d.call.verb = "PASS" /\ d.stage = "idle" => sessions[a].state = "TRANSACTION",
         ReadInv(d), ListedInv(a)', DeledInv(a)', TalkInv(a)',
         \A cmd : HasRead(c, cmd) => HasRead(d, cmd)
  PROVE  FetchInv(a)'
<1>1. DeleInv(a)'
  BY SendDele
<1>2. BitInv(a)'
  <2>1. 1 - c.expects # None
    <3>1. None # 0 /\ None # 1
      BY Pop3Assumption
    <3>2. c.expects = 0 \/ c.expects = 1
      BY ClientFields
    <3> QED
      BY <3>1, <3>2
  <2> QED
    BY <2>1 DEF Started, BitInv, Onward
<1>3. QueueInv(a)'
  BY DEF Started, QueueInv, Onward
<1>4. LoginInv(a)'
  BY DEF Started, LoginInv, Onward
<1>5. d.fate = c.fate
  BY DEF Onward
<1> QED
  BY <1>1, <1>2, <1>3, <1>4, <1>5 DEF FetchInv, Started

LEMMA OwnSendLost ==
  ASSUME TypeInv, NEW a \in Addr, FetchInv(a), loop.addr = a, SendReply,
         client[a].fate = "nothing"
  PROVE  FetchInv(a)'
<1>1. PICK c \in ClientType : c = client[a]
  BY DEF TypeInv, TypeOK
<1> DEFINE d == client'[a]
<1>2. losses[a] = 0 /\ Lost(c) /\ c.fate = "nothing"
  BY <1>1 DEF FetchInv
<1>3. /\ loop.at \in {"greet", "send"} /\ losses'[a] = 0
      /\ UNCHANGED <<inbound, sessions, mailVars>>
      /\ (Raise \/ \E b, late : Sent(b, late)) /\ GetsReply(a, c)
  BY <1>1, <1>2, SendFields
<1>4. Lost(d) /\ d.fate = "nothing" /\ d.listing = c.listing /\ d.emails = c.emails
  <2>1. CASE d = c
    BY <1>2, <2>1
  <2>2. CASE Waits(a) /\ \E r : d = Read(c, r)
    BY <1>1, <1>2, <2>2, ReadLost DEF Waits
  <2>3. CASE \E r : d = [c EXCEPT !.inbox = Append(@, r)]
    <3>1. PICK new : d = [c EXCEPT !.inbox = new]
      BY <2>3
    <3>2. /\ d.stage = c.stage /\ d.call = c.call /\ d.calls = c.calls /\ d.fate = c.fate
          /\ d.listing = c.listing /\ d.emails = c.emails
      BY <3>1 DEF ClientType
    <3> QED
      BY <1>2, <3>2 DEF Lost
  <2> QED
    BY <1>3, <2>1, <2>2, <2>3 DEF GetsReply
<1> HIDE DEF d
<1> QED
  BY <1>1, <1>3, <1>4, SendLost DEF d

\* The reply that a client waits for belongs to its call, and is read unless it cannot be sent.
SendsTo(a, c, r) ==
  /\ r.bit = c.expects /\ r.kind = loop.out[1].kind
  /\ r.num = loop.out[1].num /\ r.msg = loop.out[1].msg
  /\ \/ client'[a] = Read(c, r) /\ Sent(1 - c.expects, loop.stalled)
     \/ /\ client'[a] = c /\ Raise /\ senders'[a] = c.expects /\ UNCHANGED expected
        /\ ~Fits(r)

LEMMA SendStarted ==
  ASSUME TypeInv, NEW a \in Addr, FetchInv(a), loop.addr = a, SendReply,
         NEW c \in ClientType, c = client[a], c.fate # "nothing"
  PROVE  /\ Started(a) /\ loop.cmd = c.call /\ c.stage \in {"status", "lines"}
         /\ loop.at = "greet" => c.call.verb = "connect" /\ c.stage = "status" /\ Len(loop.out) = 1
         /\ loop.at = "send" => OutInv(a)
         /\ loop.at \in {"greet", "send"} /\ c.call.verb # "QUIT"
         /\ loop.out \in Seq(ReplyType) /\ loop.out # <<>>
         /\ losses'[a] = 0 /\ UNCHANGED <<inbound, sessions, mailVars>>
         /\ \E r \in ReplyType : SendsTo(a, c, r)
<1>1. loop.at \in {"greet", "send"} /\ loop.out # <<>> /\ loop.out \in Seq(ReplyType)
  BY DEF SendReply, TypeInv, TypeOK, LoopType
<1>2. Started(a)
  BY <1>1 DEF FetchInv, Fresh
<1>3. /\ loop.at = "greet" => c.call.verb = "connect" /\ c.stage = "status"
                              /\ Len(loop.out) = 1 /\ loop.cmd = c.call
      /\ loop.at = "send" => OutInv(a)
  BY <1>2 DEF Started, TalkInv
<1>4. loop.at = "send" =>
        loop.cmd = c.call /\ c.stage \in {"status", "lines"} /\ c.call.verb # "QUIT"
  BY <1>3 DEF OutInv
<1>5. loop.cmd = c.call /\ c.stage \in {"status", "lines"} /\ c.call.verb # "QUIT"
  BY <1>1, <1>3, <1>4
<1>6. losses[a] = 0 /\ Waits(a) /\ c.inbox = <<>>
  BY <1>2, <1>5 DEF FetchInv, Waits, Started, BitInv
<1>7. losses'[a] = 0 /\ UNCHANGED <<inbound, sessions, mailVars>> /\ GetsReply(a, c)
  BY <1>6, SendFields
<1>8. PICK r \in ReplyType : SendsTo(a, c, r)
  <2>1. PICK r \in ReplyType :
          /\ r.bit = IF senders[a] = None THEN 0 ELSE senders[a]
          /\ r.kind = loop.out[1].kind /\ r.num = loop.out[1].num /\ r.msg = loop.out[1].msg
          /\ Reads(a, c, r)
    BY <1>7 DEF GetsReply
  <2>2. r.bit = c.expects
    BY <1>2, <2>1 DEF Started, BitInv
  <2> QED
    BY <1>6, <2>1, <2>2 DEF Reads, SendsTo
<1> QED
  BY <1>1, <1>2, <1>3, <1>5, <1>7, <1>8

\* Content that does not fit ends the loop.
LEMMA OwnSendRaise ==
  ASSUME TypeInv, NEW a \in Addr, FetchInv(a), loop.addr = a, loop.at \in {"greet", "send"},
         losses'[a] = 0, UNCHANGED <<inbound, sessions, mailVars>>, UNCHANGED expected,
         Raise, client'[a] = client[a], Started(a), client[a].fate # "nothing",
         senders'[a] = IF senders[a] = None THEN 0 ELSE senders[a],
         client[a].stage # "closed"
  PROVE  FetchInv(a)'
<1>1. ReadInv(client'[a]) /\ ListedInv(a)' /\ DeledInv(a)'
  BY SendKept
<1>2. DeleInv(a)'
  BY SendDele DEF HasRead
<1>3. BitInv(a)'
  <2>1. None # 0
    BY Pop3Assumption
  <2> QED
    BY <2>1 DEF Started, BitInv
<1>4. Course(client'[a]) /\ QueueInv(a)' /\ LoginInv(a)'
  BY DEF Started, QueueInv, LoginInv
<1>5. TalkInv(a)'
  <2>1. loop'.at = "over"
    BY RaiseType DEF TypeInv
  <2> QED
    BY <2>1 DEF TalkInv
<1> QED
  BY <1>1, <1>2, <1>3, <1>4, <1>5 DEF FetchInv, Started

LEMMA OwnSendPlain ==
  ASSUME TypeInv, NEW a \in Addr, FetchInv(a), Sound(a), loop.addr = a, SendReply,
         NEW c \in ClientType, c = client[a], c.fate # "nothing",
         c.call.verb \notin {"LIST", "RETR"},
         NEW r \in ReplyType, r.bit = c.expects, r.kind = loop.out[1].kind,
         NEW d, d = client'[a], d = Read(c, r), Sent(1 - c.expects, loop.stalled)
  PROVE  FetchInv(a)'
<1>1. /\ Started(a) /\ loop.cmd = c.call
      /\ loop.at = "greet" => c.call.verb = "connect" /\ c.stage = "status" /\ Len(loop.out) = 1
      /\ loop.at = "send" => OutInv(a)
      /\ loop.at \in {"greet", "send"} /\ c.call.verb # "QUIT"
      /\ losses'[a] = 0 /\ UNCHANGED <<inbound, sessions, mailVars>>
  BY SendStarted
<1>2. c.stage = "status" /\ Len(loop.out) = 1
  BY <1>1 DEF OutInv
<1>3. Course(c)
  BY <1>1 DEF Started
<1>4. /\ Kept(c, d)
      /\ \/ Lost(d) /\ d.fate = "nothing"
         \/ Course(d) /\ Onward(c, d) /\ d.stage = "idle" /\ r.kind # "err"
  <2>1. c.all /\ c.call.verb \notin {"LIST", "RETR", "QUIT"}
    BY <1>1 DEF Sound
  <2> QED
    BY <1>2, <1>3, <2>1, ReadPlain
<1>5. /\ loop.at = "greet" => loop'.at = "handle" /\ loop'.addr = a /\ loop'.cmd = loop.cmd
      /\ loop.at = "send" => loop'.at = "receive"
      /\ senders'[a] = 1 - c.expects /\ UNCHANGED expected
  BY <1>1, <1>2, SentFields DEF TypeInv
<1>6. CASE Lost(d) /\ d.fate = "nothing"
  BY <1>1, <1>4, <1>6, SendLost DEF Kept
<1>7. CASE Course(d) /\ Onward(c, d) /\ d.stage = "idle" /\ r.kind # "err"
  <2>1. ReadInv(d) /\ ListedInv(a)' /\ DeledInv(a)'
    BY <1>1, <1>4, SendKept DEF Kept
  <2>2. \A cmd : HasRead(c, cmd) => HasRead(d, cmd)
    BY <1>4 DEF Kept, HasRead
  <2>3. TalkInv(a)'
    BY <1>1, <1>5, <1>7 DEF TalkInv, Onward
  <2>4. d.call.verb = "PASS" => sessions[a].state = "TRANSACTION"
    BY <1>1, <1>7 DEF OutInv, Onward
  <2> QED
    BY <1>1, <1>2, <1>5, <1>7, <2>1, <2>2, <2>3, <2>4, SendOn
<1> QED
  BY <1>4, <1>6, <1>7

LEMMA AnswerLength ==
  ASSUME TypeOK, loop.out # <<>>
  PROVE  /\ Len(loop.out) \in Nat /\ 1 \in DOMAIN loop.out
         /\ Len(loop.out) # 1 => 1 < Len(loop.out)
<1>1. ASSUME NEW q \in Seq(ReplyType), q # <<>>
      PROVE  Len(q) \in Nat /\ 1 \in DOMAIN q /\ (Len(q) # 1 => 1 < Len(q))
  <2>1. Len(q) \in Nat /\ Len(q) # 0 /\ DOMAIN q = 1 .. Len(q)
    BY <1>1
  <2> QED
    BY <2>1
<1>2. loop.out \in Seq(ReplyType)
  BY DEF TypeOK, LoopType
<1> QED
  BY <1>1, <1>2

\* What is left of an answer.
LEMMA RestOfAnswer ==
  ASSUME TypeOK, loop.out # <<>>, loop'.out = Tail(loop.out)
  PROVE  /\ Len(loop'.out) = Len(loop.out) - 1 /\ Len(loop.out) \in Nat \ {0}
         /\ DOMAIN loop.out = 1 .. Len(loop.out)
         /\ \A i \in DOMAIN loop'.out : i \in 1 .. Len(loop.out) - 1 /\ i + 1 \in DOMAIN loop.out
         /\ \A i \in 1 .. Len(loop.out) - 1 : loop'.out[i] = loop.out[i + 1]
<1>1. PICK q \in Seq(ReplyType) : q = loop.out /\ q # <<>>
  BY DEF TypeOK, LoopType
<1>2. /\ Len(Tail(q)) = Len(q) - 1 /\ Len(q) \in Nat \ {0} /\ DOMAIN q = 1 .. Len(q)
      /\ DOMAIN Tail(q) = 1 .. Len(q) - 1
      /\ \A i \in 1 .. Len(q) - 1 : i + 1 \in 1 .. Len(q) /\ Tail(q)[i] = q[i + 1]
  BY <1>1
<1> QED
  BY <1>1, <1>2

LEMMA OwnSendList ==
  ASSUME TypeInv, NEW a \in Addr, FetchInv(a), Sound(a), loop.addr = a, SendReply,
         NEW c \in ClientType, c = client[a], c.fate # "nothing", c.call.verb = "LIST",
         NEW r \in ReplyType, r.bit = c.expects, r.kind = loop.out[1].kind,
         r.num = loop.out[1].num, r.msg = loop.out[1].msg,
         NEW d, d = client'[a], d = Read(c, r), Sent(1 - c.expects, loop.stalled)
  PROVE  FetchInv(a)'
<1>1. /\ Started(a) /\ loop.cmd = c.call /\ c.stage \in {"status", "lines"}
      /\ loop.at = "send" /\ OutInv(a) /\ loop.out # <<>>
      /\ losses'[a] = 0 /\ UNCHANGED <<inbound, sessions, mailVars>>
  BY SendStarted
<1>2. /\ Course(c) /\ c.emails = <<>> /\ ListOut(a) /\ c.all /\ ReadInv(c) /\ ListedInv(a)
      /\ DeledInv(a) /\ TypeOK
  BY <1>1 DEF Started, Course, FetchCourse, OutInv, Sound, FetchInv, TypeInv
<1>3. /\ Len(loop.out) # 1 => loop'.at = "send" /\ loop'.addr = a /\ loop'.cmd = loop.cmd
                              /\ loop'.out = Tail(loop.out)
      /\ Len(loop.out) = 1 => loop'.at = "receive"
      /\ senders'[a] = 1 - c.expects /\ UNCHANGED expected
  BY <1>1, <1>2, SentFields
<1>4. \A x : Names(a, x) => Names(a, x)'
  BY <1>1 DEF Names, mailVars
<1>5. ASSUME Course(d), Onward(c, d), d.stage \in {"idle", "lines"}, d.emails = c.emails,
             ReadInv(d), ListedInv(a)', DeledInv(a)', TalkInv(a)'
      PROVE  FetchInv(a)'
  <2>1. \A cmd : HasRead(c, cmd) => HasRead(d, cmd)
    BY <1>2, <1>5 DEF HasRead
  <2>2. d.call.verb # "PASS"
    BY <1>5 DEF Onward
  <2> QED
    BY <1>1, <1>3, <1>5, <2>1, <2>2, SendOn
<1>6. ASSUME d.stage = "lines", Onward(c, d), Len(loop.out) # 1 PROVE TalkInv(a)'
  <2>1. ListOut(a)'
    <3>1. PICK out : out = loop'.out
      OBVIOUS
    <3>2. ASSUME NEW i \in DOMAIN out
          PROVE  /\ i < Len(out) => out[i].kind = "line" /\ Names(a, out[i])'
                 /\ i = Len(out) => out[i].kind = "end"
      <4>1. loop'.out = Tail(loop.out)
        BY <1>3, <1>6
      <4>2. /\ Len(out) = Len(loop.out) - 1 /\ Len(loop.out) \in Nat
            /\ i \in 1 .. Len(loop.out) - 1 /\ i + 1 \in DOMAIN loop.out
            /\ out[i] = loop.out[i + 1]
        BY <1>1, <1>2, <3>1, <4>1, RestOfAnswer
      <4>3. /\ i < Len(out) => i + 1 < Len(loop.out) /\ i + 1 # 1
            /\ i = Len(out) => i + 1 = Len(loop.out)
        BY <4>2
      <4>4. /\ i + 1 < Len(loop.out) /\ i + 1 # 1 =>
                 loop.out[i + 1].kind = "line" /\ Names(a, loop.out[i + 1])
            /\ i + 1 = Len(loop.out) => loop.out[i + 1].kind = "end"
        BY <1>2, <4>2 DEF ListOut
      <4>5. Names(a, loop.out[i + 1]) => Names(a, out[i])'
        BY <1>4, <4>2
      <4> QED
        BY <4>2, <4>3, <4>4, <4>5
    <3> QED
      BY <1>6, <3>1, <3>2 DEF ListOut
  <2>2. OutInv(a)'
    BY <1>1, <1>3, <1>6, <2>1 DEF OutInv, Onward
  <2> QED
    BY <1>3, <1>6, <2>2 DEF TalkInv
<1>7. CASE c.stage = "status"
  <2>1. Len(loop.out) # 1
    <3>1. Len(loop.out) >= 2
      BY <1>2, <1>7 DEF ListOut
    <3>2. PICK n \in Nat : n = Len(loop.out)
      BY <1>1, <1>2, AnswerLength
    <3>3. n >= 2
      BY <3>1, <3>2, Zenon
    <3>4. n # 1
      BY <3>3
    <3> QED
      BY <3>2, <3>4
  <2>2. /\ Kept(c, d)
        /\ \/ Lost(d) /\ d.fate = "nothing"
           \/ Course(d) /\ Onward(c, d) /\ d.stage = "lines"
    BY <1>2, <1>7, ReadFirst
  <2>3. CASE Lost(d) /\ d.fate = "nothing"
    BY <1>1, <2>2, <2>3, SendLost DEF Kept
  <2>4. CASE Course(d) /\ Onward(c, d) /\ d.stage = "lines"
    <3>1. ReadInv(d) /\ ListedInv(a)' /\ DeledInv(a)'
      BY <1>1, <2>2, SendKept DEF Kept
    <3> QED
      BY <1>5, <1>6, <2>1, <2>2, <2>4, <3>1 DEF Kept
  <2> QED
    BY <2>2, <2>3, <2>4
<1>8. CASE c.stage = "lines" /\ Len(loop.out) = 1
  <2>1. r.kind = "end"
    <3>1. 1 \in DOMAIN loop.out
      BY <1>1, <1>2, AnswerLength
    <3> QED
      BY <1>2, <1>8, <3>1 DEF ListOut
  <2>2. Course(d) /\ Onward(c, d) /\ Kept(c, d) /\ d.stage = "idle"
    BY <1>2, <1>8, <2>1, ReadListEnd
  <2>3. ReadInv(d) /\ ListedInv(a)' /\ DeledInv(a)'
    BY <1>1, <2>2, SendKept DEF Kept
  <2>4. TalkInv(a)'
    BY <1>3, <1>8 DEF TalkInv
  <2> QED
    BY <1>5, <2>2, <2>3, <2>4 DEF Kept
<1>9. CASE c.stage = "lines" /\ Len(loop.out) # 1
  <2>1. r.kind = "line" /\ Names(a, loop.out[1])
    <3>1. 1 \in DOMAIN loop.out /\ 1 < Len(loop.out)
      BY <1>1, <1>2, <1>9, AnswerLength
    <3> QED
      BY <1>2, <1>9, <3>1 DEF ListOut
  <2> DEFINE new == [num |-> r.num, msg |-> r.msg]
  <2>2. /\ Course(d) /\ Onward(c, d) /\ d.stage = "lines" /\ d.emails = c.emails
        /\ d.listing = Append(c.listing, new)
    BY <1>2, <1>9, <2>1, ReadLine
  <2>3. Names(a, new)'
    <3>1. Names(a, new)
      BY <2>1 DEF Names
    <3> QED
      BY <1>4, <3>1
  <2> HIDE DEF new
  <2>4. ListedInv(a)'
    <3>1. PICK l \in Seq(NumberOf) : l = c.listing
      BY ClientFields
    <3>2. \A i \in DOMAIN Append(l, new) :
            \/ i \in DOMAIN l /\ Append(l, new)[i] = l[i]
            \/ Append(l, new)[i] = new
      OBVIOUS
    <3>3. \A i \in DOMAIN l : Names(a, l[i])'
      BY <1>1, <1>2, <1>4, <3>1 DEF ListedInv, Deletes
    <3> QED
      BY <2>2, <2>3, <3>1, <3>2, <3>3 DEF ListedInv
  <2>5. DeledInv(a)' /\ ReadInv(d)
    <3>1. DeledInv(a)'
      BY <1>1, <1>2, <2>2 DEF DeledInv, mailVars
    <3>2. PICK l \in Seq(NumberOf) : l = c.listing
      BY ClientFields
    <3>3. Len(Append(l, new)) \in Nat
      OBVIOUS
    <3> QED
      BY <1>2, <2>2, <3>1, <3>2, <3>3 DEF ReadInv
  <2> QED
    BY <1>5, <1>6, <1>9, <2>2, <2>4, <2>5
<1> QED
  BY <1>1, <1>7, <1>8, <1>9

LEMMA TwoOrThree ==
  ASSUME NEW S, NEW q \in Seq(S), Len(q) \in {2, 3}
  PROVE  /\ Len(q) # 1 /\ Len(Tail(q)) = Len(q) - 1
         /\ \A i \in 1 .. Len(q) - 1 : Tail(q)[i] = q[i + 1]
<1>1. PICK n \in Nat : n = Len(q)
  OBVIOUS
<1>2. n # 1 /\ n # 0
  BY <1>1
<1>3. q # <<>>
  BY <1>1, <1>2
<1> QED
  BY <1>1, <1>2, <1>3

LEMMA OwnSendRetr ==
  ASSUME TypeInv, NEW a \in Addr, FetchInv(a), Sound(a), loop.addr = a, SendReply,
         NEW c \in ClientType, c = client[a], c.fate # "nothing", c.call.verb = "RETR",
         NEW r \in ReplyType, r.bit = c.expects, r.kind = loop.out[1].kind,
         r.msg = loop.out[1].msg,
         NEW d, d = client'[a], d = Read(c, r), Sent(1 - c.expects, loop.stalled)
  PROVE  FetchInv(a)'
<1>1. /\ Started(a) /\ loop.cmd = c.call /\ c.stage \in {"status", "lines"}
      /\ loop.at = "send" /\ OutInv(a) /\ loop.out # <<>>
      /\ losses'[a] = 0 /\ UNCHANGED <<inbound, sessions, mailVars>>
  BY SendStarted
<1>2. Course(c) /\ RetrOut(c, loop.out) /\ c.all /\ ReadInv(c) /\ DeledInv(a) /\ TypeOK
  BY <1>1 DEF Started, OutInv, Sound, FetchInv, TypeInv
<1>3. /\ Len(loop.out) # 1 => loop'.at = "send" /\ loop'.addr = a /\ loop'.cmd = loop.cmd
                              /\ loop'.out = Tail(loop.out)
      /\ Len(loop.out) = 1 => loop'.at = "receive"
      /\ senders'[a] = 1 - c.expects /\ UNCHANGED expected
  BY <1>1, <1>2, SentFields
<1>4. ASSUME Course(d), Onward(c, d), d.stage \in {"idle", "lines"}, ReadInv(d), ListedInv(a)',
             DeledInv(a)', TalkInv(a)', \A cmd : HasRead(c, cmd) => HasRead(d, cmd)
      PROVE  FetchInv(a)'
  <2>1. d.call.verb # "PASS"
    BY <1>4 DEF Onward
  <2> QED
    BY <1>1, <1>3, <1>4, <2>1, SendOn
<1>5. ASSUME Course(d), Onward(c, d), d.stage = "lines", Kept(c, d), TalkInv(a)'
      PROVE  FetchInv(a)'
  <2>1. ReadInv(d) /\ ListedInv(a)' /\ DeledInv(a)'
    BY <1>1, <1>5, SendKept DEF Kept
  <2>2. \A cmd : HasRead(c, cmd) => HasRead(d, cmd)
    BY <1>5 DEF Kept, HasRead
  <2> QED
    BY <1>4, <1>5, <2>1, <2>2
<1>6. ASSUME Onward(c, d), d.stage = "lines", Len(loop.out) # 1, RetrOut(d, Tail(loop.out))
      PROVE  TalkInv(a)'
  <2>1. OutInv(a)'
    BY <1>1, <1>3, <1>6 DEF OutInv, Onward
  <2> QED
    BY <1>3, <1>6, <2>1 DEF TalkInv
<1>7. ASSUME Len(loop.out) \in {2, 3}
      PROVE  /\ Len(loop.out) # 1 /\ Len(Tail(loop.out)) = Len(loop.out) - 1
             /\ \A i \in 1 .. Len(loop.out) - 1 : Tail(loop.out)[i] = loop.out[i + 1]
  <2>1. PICK q \in Seq(ReplyType) : q = loop.out
    BY <1>2 DEF TypeOK, LoopType
  <2> QED
    BY <1>7, <2>1, TwoOrThree
<1> DEFINE m == c.listing[Len(c.emails) + 1].msg
<1>8. CASE c.stage = "status"
  <2>1. /\ Kept(c, d)
        /\ \/ Lost(d) /\ d.fate = "nothing"
           \/ Course(d) /\ Onward(c, d) /\ d.stage = "lines" /\ d.got = <<>> /\ r.kind # "err"
    BY <1>2, <1>8, ReadFirst
  <2>2. CASE Lost(d) /\ d.fate = "nothing"
    BY <1>1, <2>1, <2>2, SendLost DEF Kept
  <2>3. CASE Course(d) /\ Onward(c, d) /\ d.stage = "lines" /\ d.got = <<>> /\ r.kind # "err"
    <3>1. PICK out : out = Tail(loop.out)
      OBVIOUS
    <3>2. \/ /\ Len(loop.out) = 3 /\ loop.out[3].kind = "end"
             /\ loop.out[2].kind = "content" /\ loop.out[2].msg = m
          \/ Len(loop.out) = 2 /\ loop.out[2].kind = "err"
      BY <1>2, <1>8, <2>3 DEF RetrOut
    <3>3. \/ /\ Len(out) = 2 /\ out[2].kind = "end"
             /\ out[1].kind = "content" /\ out[1].msg = m
          \/ Len(out) = 1 /\ out[1].kind = "err"
      BY <1>7, <3>1, <3>2
    <3>4. RetrOut(d, out)
      BY <2>1, <2>3, <3>3 DEF RetrOut, Kept
    <3>5. Len(loop.out) # 1
      BY <1>7, <3>2
    <3> QED
      BY <1>5, <1>6, <2>1, <2>3, <3>1, <3>4, <3>5
  <2> QED
    BY <2>1, <2>2, <2>3
<1>9. CASE c.stage = "lines" /\ Len(loop.out) = 2
  <2>1. /\ loop.out[2].kind = "end" /\ c.got = <<>>
        /\ loop.out[1].kind = "content" /\ loop.out[1].msg = m
    BY <1>2, <1>9 DEF RetrOut
  <2>2. Course(d) /\ Onward(c, d) /\ Kept(c, d) /\ d.stage = "lines" /\ d.got = <<r.msg>>
    BY <1>2, <1>9, <2>1, ReadContent
  <2>3. PICK out : out = Tail(loop.out)
    OBVIOUS
  <2>4. Len(out) = 1 /\ out[1].kind = "end" /\ Len(loop.out) # 1
    BY <1>7, <1>9, <2>1, <2>3
  <2>5. d.got = <<m>>
    BY <2>1, <2>2
  <2>6. RetrOut(d, out)
    BY <2>2, <2>4, <2>5 DEF RetrOut, Kept
  <2> QED
    BY <1>5, <1>6, <2>2, <2>3, <2>4, <2>6
<1>10. CASE c.stage = "lines" /\ Len(loop.out) = 1
  <2>1. TalkInv(a)'
    BY <1>3, <1>10 DEF TalkInv
  <2>2. \/ loop.out[1].kind = "end" /\ c.got = <<m>>
        \/ loop.out[1].kind = "err" /\ c.got = <<>>
    BY <1>2, <1>10 DEF RetrOut
  <2>3. CASE loop.out[1].kind = "err" /\ c.got = <<>>
    <3>1. Course(d) /\ Onward(c, d) /\ Kept(c, d) /\ d.stage = "lines"
      BY <1>2, <1>10, <2>3, ReadContent
    <3> QED
      BY <1>5, <2>1, <3>1
  <2>4. CASE loop.out[1].kind = "end" /\ c.got = <<m>>
    <3>1. /\ Course(d) /\ Onward(c, d) /\ d.stage = "idle" /\ d.listing = c.listing
          /\ ReadInv(d)
          /\ \A i \in DOMAIN c.emails : i \in DOMAIN d.emails /\ d.emails[i] = c.emails[i]
      BY <1>2, <1>10, <2>4, ReadRetrEnd
    <3>2. \A cmd : HasRead(c, cmd) => HasRead(d, cmd)
      BY <3>1 DEF HasRead
    <3>3. DeledInv(a)'
      <4>1. ASSUME NEW x \in deled[a]
            PROVE  \E i \in DOMAIN d.emails : d.emails[i] = <<x>>
        <5>1. PICK i \in DOMAIN c.emails : c.emails[i] = <<x>>
          BY <1>2 DEF DeledInv
        <5>2. i \in DOMAIN d.emails /\ d.emails[i] = <<x>>
          BY <3>1, <5>1
        <5> QED
          BY <5>2
      <4>2. UNCHANGED deled
        BY <1>1 DEF mailVars
      <4> QED
        BY <4>1, <4>2 DEF DeledInv
    <3>4. ListedInv(a)'
      <4>1. \A x : Names(a, x) => Names(a, x)'
        BY <1>1 DEF Names, mailVars
      <4>2. ListedInv(a) /\ ~Deletes(a)
        BY <1>1 DEF FetchInv, Deletes
      <4> QED
        BY <3>1, <4>1, <4>2 DEF ListedInv
    <3> QED
      BY <1>4, <2>1, <3>1, <3>2, <3>3, <3>4
  <2> QED
    BY <2>2, <2>3, <2>4
<1>11. c.stage = "lines" => Len(loop.out) \in {1, 2}
  BY <1>2 DEF RetrOut
<1> QED
  BY <1>1, <1>8, <1>9, <1>10, <1>11

LEMMA OwnSend ==
  ASSUME TypeInv, NEW a \in Addr, FetchInv(a), Sound(a), loop.addr = a, SendReply
  PROVE  FetchInv(a)'
<1>1. PICK c \in ClientType : c = client[a]
  BY DEF TypeInv, TypeOK
<1>2. CASE c.fate = "nothing"
  BY <1>1, <1>2, OwnSendLost
<1>3. CASE c.fate # "nothing"
  <2>1. PICK r \in ReplyType : SendsTo(a, c, r)
    BY <1>1, <1>3, SendStarted
  <2>2. /\ r.bit = c.expects /\ r.kind = loop.out[1].kind
        /\ r.num = loop.out[1].num /\ r.msg = loop.out[1].msg
    BY <2>1 DEF SendsTo
  <2>3. CASE client'[a] = Read(c, r) /\ Sent(1 - c.expects, loop.stalled)
    BY <1>1, <1>3, <2>2, <2>3, OwnSendPlain, OwnSendList, OwnSendRetr
  <2>4. CASE client'[a] = c /\ Raise /\ senders'[a] = c.expects /\ UNCHANGED expected
    <3>1. /\ Started(a) /\ c.stage # "closed" /\ loop.at \in {"greet", "send"}
          /\ losses'[a] = 0 /\ UNCHANGED <<inbound, sessions, mailVars>>
      BY <1>1, <1>3, SendStarted
    <3>2. c.expects = IF senders[a] = None THEN 0 ELSE senders[a]
      BY <1>1, <3>1 DEF Started, BitInv
    <3> QED
      BY <1>1, <1>3, <2>4, <3>1, <3>2, OwnSendRaise
  <2> QED
    BY <2>1, <2>3, <2>4 DEF SendsTo
<1> QED
  BY <1>2, <1>3

-----------------------------------------------------------------------------
(* Who a client is does not change                                         *)

\* No client's plan changes.
SameClients == \A a \in Addr : Same(client[a], client'[a])

LEMMA SameOne ==
  ASSUME TypeOK, NEW b \in Addr, NEW d, client' = [client EXCEPT ![b] = d], Same(client[b], d)
  PROVE  SameClients
BY DEF TypeOK, Same, SameClients

LEMMA SameNone ==
  ASSUME UNCHANGED client
  PROVE  SameClients
BY DEF Same, SameClients

LEMMA SameTransmit ==
  ASSUME TypeOK, NEW b \in Addr, NEW c \in ClientType, Same(client[b], c), Transmit(b, c)
  PROVE  SameClients
<1> DEFINE d == [c EXCEPT !.tries = @ + 1]
<1>1. Same(c, d) /\ client' = [client EXCEPT ![b] = d]
  BY DEF Same, ClientType, Transmit
<1>2. Same(client[b], d)
  BY <1>1 DEF Same
<1> HIDE DEF d
<1> QED
  BY <1>1, <1>2, SameOne

LEMMA SameCall ==
  ASSUME TypeOK, NEW b \in Addr, Call(b)
  PROVE  SameClients
<1> DEFINE c == client[b]
           first == Head(c.calls)
           rest == Tail(c.calls)
           next == [c EXCEPT !.stage = "sending", !.call = first, !.calls = rest, !.tries = 0]
           fresh == [next EXCEPT !.bit = 0, !.expects = 0, !.inbox = <<>>]
<1>1. c \in ClientType /\ c.calls \in Seq(Command) /\ c.calls # <<>>
  BY DEF TypeOK, Call, ClientType
<1>2. first \in Command /\ rest \in Seq(Command)
  BY <1>1
<1>3. 0 \in 0 .. MaxRetries /\ <<>> \in Seq(ReplyType)
  BY Pop3Assumption
<1>4. next = [c EXCEPT !.stage = "sending", !.call = Head(c.calls), !.calls = Tail(@),
                       !.tries = 0]
  BY <1>1 DEF ClientType
<1> HIDE DEF c, first, rest
<1>5. next \in ClientType /\ Same(c, next)
  BY <1>1, <1>2, <1>3 DEF ClientType, Same
<1>6. Transmit(b, fresh) \/ Transmit(b, next)
  BY <1>4 DEF Call, c
<1> HIDE DEF next
<1>7. fresh \in ClientType /\ Same(c, fresh)
  BY <1>3, <1>5 DEF ClientType, Same
<1> QED
  BY <1>5, <1>6, <1>7, SameTransmit DEF c

LEMMA SameClientStep ==
  ASSUME TypeOK, NEW b \in Addr, ClientStep(b)
  PROVE  SameClients
<1>1. client[b] \in ClientType /\ Same(client[b], client[b])
  BY DEF TypeOK, Same
<1>2. CASE Call(b)
  BY <1>2, SameCall
<1>3. CASE Retransmit(b)
  BY <1>1, <1>3, SameTransmit DEF Retransmit
<1>4. CASE _get_reply(b)
  <2> DEFINE c == client[b]
             rest == [c EXCEPT !.inbox = Tail(@)]
  <2>1. c.inbox \in Seq(ReplyType) /\ c.inbox # <<>> /\ c.stage \in {"status", "lines"}
    BY <1>1, <1>4 DEF _get_reply, Waits, ClientType
  <2>2. Head(c.inbox) \in ReplyType /\ Tail(c.inbox) \in Seq(ReplyType)
    BY <2>1
  <2>3. rest \in ClientType /\ rest.stage = c.stage /\ Same(c, rest)
    BY <1>1, <2>2 DEF ClientType, Same
  <2>4. client' = [client EXCEPT ![b] = Read(rest, Head(c.inbox))]
    BY <1>4 DEF _get_reply
  <2> HIDE DEF rest
  <2>5. Same(c, Read(rest, Head(c.inbox)))
    <3>1. Same(rest, Read(rest, Head(c.inbox)))
      BY <2>1, <2>2, <2>3, ReadSame
    <3> QED
      BY <2>3, <3>1 DEF Same
  <2> QED
    BY <2>4, <2>5, SameOne
<1>5. CASE ClientGivesUp(b)
  BY <1>1, <1>5, EndsSame, SameOne DEF ClientGivesUp
<1>6. CASE Vanish(b)
  <2>1. Same(client[b], Closed(client[b], <<>>))
    BY <1>1 DEF Closed, NewClient, ClientType, Same
  <2>2. client' = [client EXCEPT ![b] = Closed(client[b], <<>>)]
    BY <1>6 DEF Vanish
  <2> QED
    BY <2>1, <2>2, SameOne
<1> QED
  BY <1>2, <1>3, <1>4, <1>5, <1>6 DEF ClientStep

LEMMA SameAcknowledge ==
  ASSUME TypeOK, NEW b \in Addr, Acknowledge(b)
  PROVE  SameClients
<1>1. UNCHANGED client \/
      client' = [client EXCEPT ![b].stage = "status", ![b].tries = 0, ![b].bit = 1 - @]
  BY DEF Acknowledge
<1>2. CASE client' = [client EXCEPT ![b].stage = "status", ![b].tries = 0, ![b].bit = 1 - @]
  <2> DEFINE d == [client[b] EXCEPT !.stage = "status", !.tries = 0, !.bit = 1 - @]
  <2>1. client' = [client EXCEPT ![b] = d]
    BY <1>2 DEF TypeOK
  <2>2. Same(client[b], d)
    BY DEF TypeOK, ClientType, Same
  <2> HIDE DEF d
  <2> QED
    BY <2>1, <2>2, SameOne
<1> QED
  BY <1>1, <1>2, SameNone

LEMMA SameSendReply ==
  ASSUME TypeInv, SendReply
  PROVE  SameClients
<1> DEFINE a == loop.addr
           bit == IF senders[a] = None THEN 0 ELSE senders[a]
           r == [Head(loop.out) EXCEPT !.bit = bit]
           later == [client[a] EXCEPT !.inbox = Append(@, r)]
<1>1. TypeOK /\ loop.at \in {"greet", "send"} /\ loop.out # <<>>
  BY DEF SendReply, TypeInv
<1>2. a \in Addr /\ bit \in {0, 1} /\ client[a] \in ClientType
  BY <1>1, LoopClient DEF TypeOK
<1>3. r \in ReplyType
  <2>1. Head(loop.out) \in ReplyType
    BY <1>1 DEF TypeOK, LoopType
  <2> HIDE DEF bit, a
  <2> QED
    BY <1>2, <2>1 DEF ReplyType
<1>4. \/ UNCHANGED client
      \/ Waits(a) /\ client' = [client EXCEPT ![a] = Read(client[a], r)]
      \/ client' = [client EXCEPT ![a].inbox = Append(@, r)]
  BY DEF SendReply
<1>5. client' = [client EXCEPT ![a].inbox = Append(@, r)] =>
        client' = [client EXCEPT ![a] = later]
  BY <1>1, <1>2 DEF TypeOK
<1> HIDE DEF r, a
<1>6. Same(client[a], later)
  BY <1>2 DEF ClientType, Same
<1>7. Waits(a) => Same(client[a], Read(client[a], r))
  BY <1>2, <1>3, ReadSame DEF Waits
<1> HIDE DEF later
<1> QED
  BY <1>1, <1>2, <1>4, <1>5, <1>6, <1>7, SameOne, SameNone

\* A get_all_messages() on a link without losses was one before the step.
LEMMA SameStep ==
  ASSUME TypeInv, [Next]_vars, NEW a \in Addr, Sound(a)'
  PROVE  Sound(a)
<1>1. TypeOK
  BY DEF TypeInv
<1>2. \A b \in Addr : ClientStep(b) => SameClients
  BY <1>1, SameClientStep
<1>3. ASSUME LoopStep PROVE SameClients
  <2>1. \A b \in Addr : Reject(b) \/ Receive(b) => SameClients
    BY <1>1, SameAcknowledge DEF Reject, Receive
  <2>2. SendReply => SameClients
    BY SameSendReply
  <2>3. (\E b \in Addr : Reject(b) \/ Receive(b)) \/ SendReply \/ UNCHANGED client
    BY <1>3
       DEF LoopStep, _cmd_USER, _cmd_PASS, _cmd_STAT, _cmd_LIST, _cmd_RETR, _cmd_DELE, _cmd_QUIT,
           delete_email, SignOff, _handle_command, HandlerOnly
  <2> QED
    BY <2>1, <2>2, <2>3, SameNone
<1>4. (\E m \in Msg : Deliver(m)) \/ UNCHANGED vars => UNCHANGED client
  BY DEF Deliver, vars
<1>5. SameClients
  BY <1>2, <1>3, <1>4, SameNone DEF Next
<1> QED
  BY <1>5 DEF SameClients, Same, Sound

-----------------------------------------------------------------------------
(* Induction                                                               *)

LEMMA FetchInit ==
  ASSUME FetchPlans, Init
  PROVE  AllFetch
<1>1. PICK p \in Plan :
        /\ client = [a \in Addr |-> [NewClient EXCEPT !.calls = p[a].calls,
                                       !.all = p[a].all, !.faults = p[a].faults]]
        /\ losses = [a \in Addr |-> IF "loss" \in p[a].faults THEN MaxLosses ELSE 0]
  BY DEF Init
<1> SUFFICES ASSUME NEW a \in Addr, Sound(a) PROVE FetchInv(a)
  BY DEF AllFetch
<1>2. PICK calls \in Seq(Command), all \in BOOLEAN, faults \in SUBSET {"loss", "death"} :
        p[a].calls = calls /\ p[a].all = all /\ p[a].faults = faults
  <2>1. p[a] \in [calls : Seq(Command), all : BOOLEAN, faults : SUBSET {"loss", "death"}]
    BY <1>1, Pop3Assumption
  <2> QED
    BY <2>1
<1> DEFINE c == [NewClient EXCEPT !.calls = calls, !.all = all, !.faults = faults]
<1>3. client[a] = c /\ losses[a] = IF "loss" \in faults THEN MaxLosses ELSE 0
  BY <1>1, <1>2
<1>4. /\ c.stage = "closed" /\ c.listing = <<>> /\ c.emails = <<>> /\ c.got = <<>>
      /\ c.fate = "emails" /\ c.calls = calls /\ (c.all <=> all) /\ c.faults = faults
  BY DEF NewClient
<1> HIDE DEF c
<1>5. p[a].all /\ losses[a] = 0
  BY <1>2, <1>3, <1>4 DEF Sound
<1>6. Opens(calls, 0)
  BY <1>1, <1>2, <1>5 DEF FetchPlans
<1>7. /\ inbound[a] = <<>> /\ expected[a] = 0 /\ senders[a] = None /\ sessions[a] = NoSession
      /\ loop.at = "receive" /\ deled[a] = {}
  BY DEF Init, Receiving
<1>8. Fresh(a)
  BY <1>3, <1>4, <1>6, <1>7 DEF Fresh
<1>9. ReadInv(client[a]) /\ ListedInv(a) /\ DeledInv(a)
  BY <1>3, <1>4, <1>7 DEF ReadInv, ListedInv, DeledInv
<1>10. DeleInv(a)
  BY <1>7 DEF DeleInv
<1> QED
  BY <1>3, <1>4, <1>5, <1>8, <1>9, <1>10 DEF FetchInv

LEMMA StaleGrows ==
  ASSUME [Next]_vars
  PROVE  stale \subseteq stale'
<1>1. LoopStep => stale \subseteq stale'
  BY DEF LoopStep, Reject, Receive, _cmd_USER, _cmd_PASS, _cmd_STAT, _cmd_LIST, _cmd_RETR,
         _cmd_DELE, _cmd_QUIT, delete_email, SignOff, _handle_command, SendReply, mailVars
<1>2. \A a \in Addr : ClientStep(a) => UNCHANGED stale
  BY DEF ClientStep, Call, Retransmit, Transmit, _get_reply, ClientGivesUp, Vanish, mailVars
<1>3. \A m \in Msg : Deliver(m) => UNCHANGED stale
  BY DEF Deliver
<1> QED
  BY <1>1, <1>2, <1>3 DEF Next, vars, mailVars

LEMMA FetchStep == FetchIInv /\ [Next]_vars => FetchIInv'
<1> SUFFICES ASSUME FetchIInv, [Next]_vars PROVE FetchIInv'
  OBVIOUS
<1>1. IInv' /\ TypeInv /\ TypeInv'
  BY MarkStep DEF FetchIInv, IInv
<1> SUFFICES ASSUME NEW a \in Addr \ stale', Sound(a)' PROVE FetchInv(a)'
  BY <1>1 DEF FetchIInv, AllFetch
<1>2. Sound(a) /\ a \in Addr /\ a \notin stale'
  BY <1>1, SameStep
<1>3. FetchInv(a)
  BY <1>2, StaleGrows DEF FetchIInv, AllFetch
<1>4. ASSUME NEW b \in Addr, ClientStep(b) PROVE FetchInv(a)'
  BY <1>1, <1>2, <1>3, <1>4, OwnClient, OtherClient
<1>5. ASSUME NEW b \in Addr, Reject(b) \/ Receive(b) PROVE FetchInv(a)'
  BY <1>1, <1>2, <1>3, <1>5, OwnReject, OwnReceive, OtherPacket
<1>6. ASSUME \/ _cmd_USER \/ _cmd_PASS \/ _cmd_STAT \/ _cmd_LIST \/ _cmd_RETR \/ _cmd_DELE
             \/ _cmd_QUIT \/ _handle_command \/ SignOff
      PROVE  FetchInv(a)'
  <2>1. CASE loop.addr # a
    BY <1>1, <1>2, <1>3, <1>6, <2>1, OtherHandler
  <2>2. CASE loop.addr = a
    <3>1. ~SignOff
      BY <1>2, <2>2 DEF SignOff
    <3> QED
      BY <1>1, <1>2, <1>3, <1>6, <2>2, <3>1, OwnLogin, OwnStat, OwnList, OwnRetr, OwnDele,
         OwnQuit, OwnOther
  <2> QED
    BY <2>1, <2>2
<1>7. CASE delete_email
  BY <1>1, <1>2, <1>3, <1>7, AnyDeletion
<1>8. CASE SendReply
  BY <1>1, <1>2, <1>3, <1>8, OwnSend, OtherReply
<1>9. ASSUME NEW m \in Msg, Deliver(m) PROVE FetchInv(a)'
  BY <1>1, <1>2, <1>3, <1>9, AnyDelivery
<1>10. CASE UNCHANGED vars
  BY <1>3, <1>10, Steady DEF vars, serverVars, mailVars, Deletes
<1> QED
  BY <1>4, <1>5, <1>6, <1>7, <1>8, <1>9, <1>10 DEF Next, LoopStep

LEMMA FetchCorrect == FetchPlans => (Spec => []FetchIInv)
<1>1. FetchPlans /\ Init => FetchIInv
  BY TypeInit, MarkInit, FetchInit DEF FetchIInv, IInv
<1> QED
  BY <1>1, FetchStep, PTL DEF Spec

\* A get_all_messages() on a link without losses reads the messages of its listing, in
\* their order: no reply to an earlier command is taken for content, although quit() and
\* timeouts of other clients interleave with it on one serve loop, and no delivery or
\* deletion by another session moves a number between LIST and RETR unless it is stale.
THEOREM ReadsWhatWasListed == FetchPlans => (Spec => []RetrievedIsListed)
<1>1. FetchIInv => RetrievedIsListed
  BY DEF FetchIInv, AllFetch, FetchInv, ReadInv, RetrievedIsListed
<1> QED
  BY <1>1, FetchCorrect, PTL

\* What QUIT of a get_all_messages() on such a link deletes, the client has read in full:
\* a DELE follows the RETR of its message, and is handled at most once.
THEOREM DeletesOnlyRetrieved == FetchPlans => (Spec => DeletedWasRetrieved)
<1>1. ASSUME FetchIInv, [Next]_vars
      PROVE  [\A u \in User, m \in Msg :
                LET a == loop.addr IN
                Contains(box[u], m) /\ ~Contains(box'[u], m) /\ Sound(a) /\ a \notin stale =>
                  \E i \in DOMAIN client[a].emails : client[a].emails[i] = <<m>>]_vars
  <2>1. ASSUME NEW u \in User, NEW m \in Msg, Disappears(u, m), Sound(loop.addr),
               loop.addr \notin stale
        PROVE  \E i \in DOMAIN client[loop.addr].emails : client[loop.addr].emails[i] = <<m>>
    <3>1. loop.at = "delete" /\ m \in loop.doomed
      BY <1>1, <2>1, DisappearsWhere DEF delete_email, FetchIInv
    <3>2. loop.addr \in Addr /\ m \in deled[loop.addr]
      BY <1>1, <2>1, <3>1 DEF FetchIInv, IInv, TypeInv, LoopInv, DoomInv
    <3>3. DeledInv(loop.addr)
      BY <1>1, <2>1, <3>2 DEF FetchIInv, AllFetch, FetchInv
    <3> QED
      BY <3>2, <3>3 DEF DeledInv
  <2> QED
    BY <2>1 DEF Disappears
<1> QED
  BY <1>1, FetchCorrect, PTL DEF Spec, DeletedWasRetrieved

-----------------------------------------------------------------------------
(* What ends the loop                                                      *)

\* Content is the answer to RETR, and what the mailbox has under its number.
Content(r) == r.kind = "content" =>
  /\ loop.cmd.verb = "RETR" /\ Session.user \in User
  /\ loop.cmd.num \in DOMAIN box[Session.user]
  /\ r.msg = box[Session.user][loop.cmd.num]

ContentInv == loop.at \in {"greet", "send"} => \A i \in DOMAIN loop.out : Content(loop.out[i])

LEMMA ContentOne ==
  ASSUME TypeInv, NEW r, r.kind # "content", Answer(<<r>>)
  PROVE  ContentInv'
<1>1. Len(loop'.out) = 1 /\ loop'.out[1] = r
  BY AnswerOne DEF TypeInv
<1>2. loop'.out = <<r>>
  BY DEF Answer, TypeInv, TypeOK, LoopType
<1>3. \A i \in DOMAIN loop'.out : loop'.out[i].kind # "content"
  BY <1>2
<1> QED
  BY <1>3 DEF ContentInv, Content

LEMMA ContentPlain ==
  ASSUME TypeInv,
         \/ _cmd_USER \/ _cmd_PASS \/ _cmd_STAT \/ _cmd_DELE \/ SignOff \/ _handle_command
  PROVE  ContentInv'
<1>1. \A kind \in {"ok", "err"} : Reply(kind).kind # "content"
  BY DEF Reply
<1>2. \A n : [Reply("numbers") EXCEPT !.num = n].kind # "content"
  BY DEF Reply
<1>3. CASE loop' = Receiving
  BY <1>3 DEF ContentInv, Receiving
<1>4. CASE \E kind \in {"ok", "err"} : Answer(<<Reply(kind)>>)
  BY <1>1, <1>4, ContentOne
<1>5. CASE \E n : Answer(<<[Reply("numbers") EXCEPT !.num = n]>>)
  BY <1>2, <1>5, ContentOne
<1>6. CASE Answer(<<Reply("numbers")>>)
  <2>1. Reply("numbers").kind # "content"
    BY DEF Reply
  <2> QED
    BY <1>6, <2>1, ContentOne
<1> QED
  BY <1>3, <1>4, <1>5, <1>6
     DEF _cmd_USER, _cmd_PASS, _cmd_STAT, _cmd_DELE, SignOff, _handle_command

LEMMA ContentList ==
  ASSUME TypeInv, _cmd_LIST
  PROVE  ContentInv'
<1>1. \A kind \in {"ok", "numbers", "err", "end"} : Reply(kind).kind # "content"
  BY DEF Reply
<1>2. PICK out : Answer(out)
  BY DEF _cmd_LIST
<1>3. loop'.out = out
  BY <1>2, AnswerFields DEF TypeInv
<1>4. CASE Open /\ loop.cmd.num = 0
  <2>1. PICK n \in Nat :
          /\ DOMAIN out = 1 .. n + 2
          /\ out[1] = Reply("ok") /\ out[n + 2] = Reply("end")
          /\ \A i \in 2 .. n + 1 : out[i].kind = "line"
    BY <1>2, <1>4, ListAnswer DEF ListReply
  <2>2. ASSUME NEW i \in DOMAIN out PROVE out[i].kind # "content"
    <3>1. i = 1 \/ i \in 2 .. n + 1 \/ i = n + 2
      BY <2>1
    <3> QED
      BY <1>1, <2>1, <3>1
  <2> QED
    BY <1>3, <2>2 DEF ContentInv, Content
<1>5. CASE ~(Open /\ loop.cmd.num = 0)
  <2>1. PICK kind \in {"numbers", "err"} : Answer(<<Reply(kind)>>)
    BY <1>5 DEF _cmd_LIST, Unlisted
  <2> QED
    BY <1>1, <2>1, ContentOne
<1> QED
  BY <1>4, <1>5

LEMMA ContentRetr ==
  ASSUME TypeInv, _cmd_RETR
  PROVE  ContentInv'
<1>1. \A kind \in {"ok", "err", "end"} : Reply(kind).kind # "content"
  BY DEF Reply
<1>2. /\ loop.at = "handle" /\ loop.cmd.verb = "RETR" /\ TypeOK /\ UNCHANGED <<sessions, box>>
      /\ loop.addr \in Addr
  BY DEF _cmd_RETR, Handles, HandlerOnly, TypeInv, LoopInv
<1>3. PICK out : Answer(out)
  BY DEF _cmd_RETR
<1>4. loop'.out = out /\ loop'.addr = loop.addr /\ loop'.cmd = loop.cmd
  BY <1>2, <1>3, AnswerFields
<1>5. \A o : Answer(o) => o = out
  BY <1>2, <1>4, AnswerFields
<1>6. CASE Answer(<<Reply("err")>>)
  BY <1>1, <1>6, ContentOne
<1>7. CASE out = <<Reply("ok"), Reply("err")>>
  BY <1>1, <1>4, <1>7 DEF ContentInv, Content
<1>8. CASE /\ Open /\ loop.cmd.num \in Unmarked
           /\ out = <<Reply("ok"), [Reply("content") EXCEPT !.msg = Messages[loop.cmd.num]],
                      Reply("end")>>
  <2>1. PICK content : /\ content = [Reply("content") EXCEPT !.msg = Messages[loop.cmd.num]]
                       /\ content.msg = Messages[loop.cmd.num]
    <3>1. \A m : [Reply("content") EXCEPT !.msg = m].msg = m
      BY DEF Reply
    <3> QED
      BY <3>1
  <2>2. /\ Session.user \in User /\ loop.cmd.num \in DOMAIN Messages
    BY <1>2, <1>8, MailboxType
  <2>3. Content(content)'
    BY <1>2, <1>4, <2>1, <2>2 DEF Content, Messages, Session
  <2>4. out = <<Reply("ok"), content, Reply("end")>>
    BY <1>8, <2>1
  <2>5. \A i \in DOMAIN out : out[i].kind = "content" => out[i] = content
    <3>1. DOMAIN out = 1 .. 3 /\ out[1] = Reply("ok") /\ out[2] = content /\ out[3] = Reply("end")
      BY <2>4
    <3> QED
      BY <1>1, <3>1
  <2> QED
    BY <1>4, <2>3, <2>5 DEF ContentInv, Content
<1>9. \/ Answer(<<Reply("err")>>) \/ Answer(<<Reply("ok"), Reply("err")>>)
      \/ /\ Open /\ loop.cmd.num \in Unmarked
         /\ Answer(<<Reply("ok"), [Reply("content") EXCEPT !.msg = Messages[loop.cmd.num]],
                     Reply("end")>>)
  BY DEF _cmd_RETR
<1> QED
  BY <1>5, <1>6, <1>7, <1>8, <1>9

LEMMA ContentSend ==
  ASSUME TypeInv, ContentInv, SendReply
  PROVE  ContentInv'
<1>1. /\ TypeOK /\ loop.at \in {"greet", "send"} /\ loop.out # <<>> /\ loop.addr \in Addr
      /\ UNCHANGED <<sessions, box>> /\ (Raise \/ \E bit, late : Sent(bit, late))
  BY DEF SendReply, mailVars, TypeInv, LoopInv
<1>2. CASE Raise
  <2>1. loop'.at = "over"
    BY <1>1, <1>2, RaiseType
  <2> QED
    BY <2>1 DEF ContentInv
<1>3. CASE \E bit, late : Sent(bit, late)
  <2>1. PICK bit, late : Sent(bit, late)
    BY <1>3
  <2>2. CASE Len(loop.out) = 1
    <3>1. loop'.at \notin {"greet", "send"}
      BY <1>1, <2>1, <2>2, SentFields
    <3> QED
      BY <3>1 DEF ContentInv
  <2>3. CASE Len(loop.out) # 1
    <3>1. loop'.out = Tail(loop.out) /\ loop'.addr = loop.addr /\ loop'.cmd = loop.cmd
      BY <1>1, <2>1, <2>3, SentFields
    <3>2. \A i \in DOMAIN loop'.out : i + 1 \in DOMAIN loop.out /\ loop'.out[i] = loop.out[i + 1]
      BY <1>1, <3>1, RestOfAnswer
    <3>3. \A r : Content(r) => Content(r)'
      BY <1>1, <3>1 DEF Content, Session
    <3>4. ASSUME NEW i \in DOMAIN loop'.out, NEW r, r = loop'.out[i] PROVE Content(r)'
      BY <1>1, <3>2, <3>3, <3>4 DEF ContentInv
    <3> QED
      BY <3>4 DEF ContentInv
  <2> QED
    BY <2>2, <2>3
<1> QED
  BY <1>1, <1>2, <1>3

LEMMA ContentStep == TypeInv /\ ContentInv /\ [Next]_vars => ContentInv'
<1> SUFFICES ASSUME TypeInv, ContentInv, [Next]_vars PROVE ContentInv'
  OBVIOUS
<1>1. ASSUME UNCHANGED <<loop, sessions>>, NEW m \in Msg,
             box' = box \/ box' = [box EXCEPT ![Owner[m]] = Append(@, m)]
      PROVE  ContentInv'
  <2>1. ASSUME NEW u \in User, NEW i \in DOMAIN box[u]
        PROVE  i \in DOMAIN box'[u] /\ box'[u][i] = box[u][i]
    <3>1. box[u] \in Seq(Msg) /\ Owner[m] \in User
      BY Pop3Assumption DEF TypeInv, TypeOK
    <3>2. box'[u] = box[u] \/ box'[u] = Append(box[u], m)
      BY <1>1, <3>1 DEF TypeInv, TypeOK
    <3> QED
      BY <3>1, <3>2
  <2>2. \A r : Content(r) => Content(r)'
    BY <1>1, <2>1 DEF Content, Session
  <2> QED
    BY <1>1, <2>2 DEF ContentInv
<1>2. ASSUME UNCHANGED <<loop, sessions, box>> PROVE ContentInv'
  BY <1>2 DEF ContentInv, Content, Session
<1>3. ASSUME NEW a \in Addr, ClientStep(a) PROVE ContentInv'
  BY <1>2, <1>3, ClientStepType DEF TypeInv, serverVars, mailVars
<1>4. ASSUME NEW a \in Addr, Reject(a) \/ Receive(a) PROVE ContentInv'
  <2>1. CASE Reject(a)
    BY <1>2, <2>1 DEF Reject, serverVars, mailVars
  <2>2. CASE Receive(a) /\ loop'.at = "handle"
    BY <2>2 DEF ContentInv
  <2>3. CASE Receive(a) /\ loop'.at # "handle"
    <3>1. loop'.out = <<Reply("ok")>>
      BY <2>3 DEF Receive, Receiving
    <3> QED
      BY <3>1 DEF ContentInv, Content, Reply
  <2> QED
    BY <1>4, <2>1, <2>2, <2>3
<1>5. CASE _cmd_QUIT \/ delete_email
  <2>1. loop'.at \in {"over", "delete"}
    BY <1>5 DEF _cmd_QUIT, delete_email, Handles, Raise, TypeInv, TypeOK, LoopType
  <2> QED
    BY <2>1 DEF ContentInv
<1>6. LoopStep => ContentInv'
  BY <1>4, <1>5, ContentPlain, ContentList, ContentRetr, ContentSend DEF LoopStep
<1>7. ASSUME NEW m \in Msg, Deliver(m) PROVE ContentInv'
  BY <1>1, <1>7 DEF Deliver, serverVars
<1>8. UNCHANGED vars => ContentInv'
  BY <1>2 DEF vars, serverVars, mailVars
<1> QED
  BY <1>3, <1>6, <1>7, <1>8 DEF Next

LEMMA QuitSurvives ==
  ASSUME FetchIInv, NEW a \in Addr, a \notin stale, Sound(a), client[a].fate # "nothing",
         loop.addr = a, _cmd_QUIT, loop'.at = "over"
  PROVE  "list" \in MayFail /\ NumbersThere(a)
<1>1. /\ IInv /\ TypeOK /\ FetchInv(a) /\ loop.at = "handle" /\ loop.cmd.verb = "QUIT"
      /\ Session = sessions[a] /\ ~Deletes(a)
  BY DEF FetchIInv, AllFetch, IInv, TypeInv, _cmd_QUIT, Handles, Session, Deletes
<1>2. LoginInv(a) /\ client[a].call.verb = "QUIT" /\ client[a].stage = "status"
  BY <1>1, HandlesCall DEF Started
<1>3. sessions[a].state = "TRANSACTION" /\ sessions[a].user # None
  BY <1>1, <1>2 DEF LoginInv, IInv, TypeInv, SessionInv
<1>4. sessions[a].marked \subseteq DOMAIN box[sessions[a].user]
  BY <1>1, <1>3 DEF IInv, MarkInv
<1>5. Unlisted /\ sessions[a].marked # {}
  <2>1. ASSUME NEW x, loop' = [loop EXCEPT !.at = "delete", !.doomed = x] PROVE FALSE
    BY <1>1, <2>1 DEF TypeOK, LoopType
  <2> QED
    BY <1>1, <1>3, <1>4, <2>1 DEF _cmd_QUIT, Messages
<1>6. sessions[a].user \in User
  BY <1>1, <1>3 DEF TypeOK, SessionType
<1> QED
  BY <1>1, <1>4, <1>5, <1>6 DEF Unlisted, NumbersThere

LEMMA SendSurvives ==
  ASSUME FetchIInv, ContentInv, NEW a \in Addr, a \notin stale, Sound(a),
         client[a].fate # "nothing", loop.addr = a, SendReply, loop'.at = "over"
  PROVE  loop.cmd.verb = "RETR" /\ box[sessions[a].user][loop.cmd.num] \in Large
<1>1. TypeInv /\ TypeOK /\ FetchInv(a)
  BY DEF FetchIInv, AllFetch, IInv, TypeInv
<1>2. PICK c \in ClientType : c = client[a]
  BY <1>1 DEF TypeOK
<1>3. /\ loop.at \in {"greet", "send"} /\ loop.out # <<>> /\ loop.out \in Seq(ReplyType)
      /\ \E r \in ReplyType : SendsTo(a, c, r)
  BY <1>1, <1>2, SendStarted
<1>4. PICK r \in ReplyType : SendsTo(a, c, r)
  BY <1>3
<1>5. ASSUME Sent(1 - c.expects, loop.stalled) PROVE FALSE
  BY <1>1, <1>3, <1>5, SentFields
<1>6. ~Fits(r) /\ r.kind = loop.out[1].kind /\ r.msg = loop.out[1].msg
  BY <1>4, <1>5 DEF SendsTo
<1>7. Content(loop.out[1])
  <2>1. 1 \in DOMAIN loop.out
    BY <1>1, <1>3, AnswerLength
  <2> QED
    BY <1>3, <2>1 DEF ContentInv
<1> QED
  BY <1>6, <1>7 DEF Fits, Content, Session

LEMMA Survives ==
  ASSUME FetchIInv, ContentInv, [Next]_vars, loop'.at = "over", loop.at # "over",
         Sound(loop.addr), client[loop.addr].fate # "nothing", loop.addr \notin stale
  PROVE  \/ loop.cmd.verb = "RETR" /\ box[sessions[loop.addr].user][loop.cmd.num] \in Large
         \/ "list" \in MayFail /\ NumbersThere(loop.addr)
<1>1. TypeInv /\ TypeOK
  BY DEF FetchIInv, IInv, TypeInv
<1>2. \A out : Answer(out) => loop'.at = "send"
  BY <1>1, AnswerFields
<1>3. _cmd_QUIT \/ SendReply
  <2>1. ~UNCHANGED loop
    OBVIOUS
  <2>2. \A b \in Addr : ~ClientStep(b)
    BY <1>1, <2>1, ClientStepType
  <2>3. \A m \in Msg : ~Deliver(m)
    BY <2>1 DEF Deliver
  <2>4. \A b \in Addr : ~Reject(b) /\ ~Receive(b)
    <3>1. Receiving.at = "receive"
      BY DEF Receiving
    <3> QED
      BY <2>1 DEF Reject, Receive, Receiving
  <2>5. ~(_cmd_USER \/ _cmd_PASS \/ _cmd_STAT \/ _cmd_LIST \/ _cmd_RETR \/ _cmd_DELE \/ SignOff)
    BY <1>2 DEF _cmd_USER, _cmd_PASS, _cmd_STAT, _cmd_LIST, _cmd_RETR, _cmd_DELE, SignOff
  <2>6. ~_handle_command
    BY <1>2 DEF _handle_command, Receiving
  <2>7. ~delete_email
    BY <1>1 DEF delete_email, TypeOK, LoopType
  <2> QED
    BY <2>1, <2>2, <2>3, <2>4, <2>5, <2>6, <2>7 DEF Next, LoopStep, vars
<1>4. loop.addr \in Addr
  <2>1. loop.at \in {"handle", "greet", "send"}
    BY <1>3 DEF _cmd_QUIT, Handles, SendReply
  <2> QED
    BY <1>1, <2>1 DEF TypeInv, LoopInv
<1> QED
  BY <1>3, <1>4, QuitSurvives, SendSurvives

\* The serve loop, one thread for all clients, outlives what a get_all_messages() asks on
\* a link without losses, except for a message that is too large to be sent and for a QUIT
\* with marked messages whose listing comes back empty because metadata.json cannot be
\* read: its QUIT finds a user, the numbers it marked are in the mailbox, so only the
\* failed listing hides them, and its replies are never given up.
THEOREM LoopOutlivesFetches == FetchPlans => (Spec => LoopSurvives)
<1>1. ASSUME FetchIInv, ContentInv, [Next]_vars
      PROVE  [loop.at \in {"greet", "handle", "delete", "send"} /\ loop'.at = "over" =>
                LET a == loop.addr IN
                \/ ~Sound(a) \/ client[a].fate = "nothing" \/ a \in stale
                \/ /\ loop.cmd.verb = "RETR"
                   /\ box[sessions[a].user][loop.cmd.num] \in Large
                \/ "list" \in MayFail /\ NumbersThere(a)]_vars
  <2> SUFFICES ASSUME loop.at # "over", loop'.at = "over"
               PROVE  \/ ~Sound(loop.addr) \/ client[loop.addr].fate = "nothing"
                      \/ loop.addr \in stale
                      \/ /\ loop.cmd.verb = "RETR"
                         /\ box[sessions[loop.addr].user][loop.cmd.num] \in Large
                      \/ "list" \in MayFail /\ NumbersThere(loop.addr)
    OBVIOUS
  <2> QED
    BY <1>1, Survives
<1>2. Init => ContentInv
  <2>1. Init => loop.at = "receive"
    BY SomeTypes DEF Init
  <2> QED
    BY <2>1 DEF ContentInv
<1>3. FetchIInv => TypeInv
  BY DEF FetchIInv, IInv
<1> QED
  BY <1>1, <1>2, <1>3, ContentStep, FetchCorrect, PTL DEF Spec, LoopSurvives
=============================================================================
