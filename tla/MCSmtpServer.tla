---------------------------- MODULE MCSmtpServer ----------------------------
(***************************************************************************)
(* Small instances of SmtpServer: what the clients say.                     *)
(***************************************************************************)
EXTENDS SmtpServer

C(verb) == [verb |-> verb, rcpt |-> Nobody]
To(user) == [verb |-> "RCPT", rcpt |-> user]

\* What SMTPClient.send_email() says to deliver one message.
Mail(user) == <<C("MAIL"), To(user), C("DATA")>>
SendEmail == <<C("NOOP"), C("HELO")>> \o Mail("bob") \o <<C("QUIT")>>

\* Commands out of order, a transaction that is reset, an unknown recipient.
Odd == <<C("NOOP"), C("BAD"), C("HELO"), C("DATA"), C("MAIL"), To("alice"), C("RSET"),
         C("HELO")>> \o Mail("bob")
Unknown == <<C("NOOP"), C("HELO")>> \o Mail("nobody") \o <<C("QUIT")>>

\* A second connection from the same address.
Again == <<C("NOOP"), C("QUIT"), C("NOOP")>>

\* As SendEmail, with one more command before DATA, so that the first part of the message
\* has the bit a new session expects, and with commands of the same code behind it.
Late == <<C("NOOP"), C("HELO"), C("MAIL"), To("bob"), C("NOOP"), C("DATA"), C("RSET"),
          C("NOOP")>>

One == {[a \in Addr |-> SendEmail]}
Mixed == {[a \in Addr |-> IF a \in Lossy THEN SendEmail ELSE Again],
          [a \in Addr |-> IF a \in Lossy THEN Odd ELSE <<>>],
          [a \in Addr |-> IF a \in Lossy THEN Unknown ELSE <<>>],
          [a \in Addr |-> IF a \in Lossy THEN Late ELSE <<C("NOOP")>>],
          [a \in Addr |-> IF a \in Lossy THEN Again ELSE <<>>]}
Parts == {[a \in Addr |-> IF a \in Lossy THEN SendEmail ELSE <<>>],
          [a \in Addr |-> IF a \in Lossy THEN Late ELSE <<C("NOOP")>>]}
=============================================================================
