----------------------------- MODULE MCPop3Server -----------------------------
(* Instances of Pop3Server for TLC.                                          *)
EXTENDS Pop3Server

CONSTANTS a1, a2, alice, bob, m1, m2, ascii, large

Cmd(verb, name, num) == [verb |-> verb, name |-> name, num |-> num]
Bare(verb) == Cmd(verb, None, 0)

\* get_all_messages() up to LIST; what follows depends on the answers.
Login(u, secret) == <<Bare("connect"), Cmd("USER", u, 0), Cmd("PASS", secret, 0)>>
Fetches(u, secret) == [calls |-> Login(u, secret) \o <<Bare("STAT"), Bare("LIST")>>,
                       all |-> TRUE, faults |-> {}]
GetAll(u, faults) == [Fetches(u, Secret) EXCEPT !.faults = faults]
Says(calls) == [calls |-> calls, all |-> FALSE, faults |-> {}]
Reads(u, calls) == Says(Login(u, Secret) \o calls \o <<Bare("QUIT")>>)

\* The client beside a get_all_messages() of alice: one whose packets are lost, one that
\* vanishes, a second reader of the mailbox, callers that use numbers that are not there,
\* mistake the order of the commands, read what cannot be sent, are refused, and come back.
Others ==
  {[Reads(alice, <<Dele(1)>>) EXCEPT !.faults = {"loss"}],
   GetAll(alice, {"death"}), GetAll(alice, {}),
   Reads(alice, <<Dele(1), Cmd("LIST", None, 1), Cmd("LIST", None, 2)>>),
   Says(<<Bare("connect"), Bare("STAT"), Cmd("USER", alice, 0), Cmd("PASS", alice, 0), Quit>>),
   Says(<<Bare("connect"), Bare("BAD"), Cmd("USER", None, 0), Bare("LIST")>>),
   Reads(bob, <<Retr(1)>>), Reads(bob, <<Retr(2)>>),
   Says(Login(bob, Secret) \o <<Retr(3), Dele(3), Quit, Bare("connect")>>)}

MCStored == (alice :> <<m1>> @@ bob :> <<ascii, large>>)
MCOwner == [m \in Msg |-> IF m \in {m1, m2} THEN alice ELSE bob]
MCPlan == {(a1 :> p @@ a2 :> GetAll(alice, {})) : p \in Others}

\* One get_all_messages() with a wrong password.
MCWrongPassword == {(a1 :> Fetches(alice, bob) @@ a2 :> GetAll(alice, {}))}
===============================================================================
