------------------------------ MODULE MCTSocket ------------------------------
(***************************************************************************)
(* TSocket with one thread that sends an object of two messages, and a     *)
(* peer that sends a request without a body, one that is handled raw and   *)
(* one that is to be reassembled.                                          *)
(***************************************************************************)
EXTENDS TSocket

MCOutgoing == [t \in Threads |-> <<2, 1>>]

Request(body, raw, answer) == [body |-> body, raw |-> raw, answer |-> answer]

MCRequests ==
  <<Request(FALSE, FALSE, <<1, 1>>), Request(TRUE, TRUE, <<>>), Request(TRUE, FALSE, <<>>)>>
=============================================================================
