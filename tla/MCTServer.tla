----------------------------- MODULE MCTServer -----------------------------
(***************************************************************************)
(* A server with pools of one to three threads and three connections: two  *)
(* from one port of different addresses, both with a name of their own,    *)
(* and one that nobody gave a name.                                        *)
(***************************************************************************)
EXTENDS TServer

MCPeers == <<[ip |-> 1, port |-> 1], [ip |-> 2, port |-> 1], [ip |-> 2, port |-> 2]>>

MCMappings ==
  <<[ip |-> 1, port |-> 1, name |-> "a"], [ip |-> 2, port |-> 1, name |-> "b"]>>
=============================================================================
