------------------------------- MODULE MCRdt -------------------------------
(* Instances of Rdt for TLC: a client and a server, one caller at each end. *)
EXTENDS Rdt

CONSTANTS client, server, c, s

MCPeer == (client :> server) @@ (server :> client)
MCHome == (c :> client) @@ (s :> server)

\* Bounds: the calls of send() at each end.
MCThreeSends == (client :> 3) @@ (server :> 0)
MCTwoSends == (client :> 2) @@ (server :> 0)
=============================================================================
