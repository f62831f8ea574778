---------------------------- MODULE ObjectTransfer ----------------------------
(***************************************************************************)
(* What serialising an object promises, whatever the buffers, the messages *)
(* and their encryption and compression: the reader obtains the object's   *)
(* elements one by one, in the order they were written, none before it was *)
(* written, until it has all of them.                                      *)
(***************************************************************************)
EXTENDS Naturals

VARIABLES size,    \* how many elements the object has
          written, \* how many the writer has written
          read     \* how many the reader has obtained

vars == <<size, written, read>>

Init == size \in Nat /\ written = 0 /\ read = 0

WriteElement ==
  /\ written < size
  /\ written' = written + 1
  /\ UNCHANGED <<size, read>>

ReadElement ==
  /\ read < written
  /\ read' = read + 1
  /\ UNCHANGED <<size, written>>

Next == WriteElement \/ ReadElement

Spec == Init /\ [][Next]_vars

FairSpec == Spec /\ WF_vars(WriteElement) /\ WF_vars(ReadElement)
=============================================================================
