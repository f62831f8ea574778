------------------------------ MODULE MCBuffers ------------------------------
(***************************************************************************)
(* What goes through a buffer of a bounded size: from thread to thread in  *)
(* a ring, from process to process in a pipe between two streams, and      *)
(* through the pipelines that a parent waits for.  The three do not        *)
(* interact: a behaviour runs one of them.                                 *)
(***************************************************************************)
EXTENDS SPSCArray, SystemBuf, WaitChildren

\* The second of the children fills its pipe, whether the next child or the parent
\* reads it.
MCMaxOut == <<1, 2, 0>>

VARIABLE part  \* the one that runs

allVars == <<part, vars, streamVars, waitVars>>

\* Nobody uses the ring, puts a character, or has a child that runs.
RingIdle == Init /\ ring = Plain
StreamIdle == StreamInit
WaitIdle ==
  /\ size = 2 /\ captured = FALSE
  /\ status = [c \in Child |-> "success"] /\ doing = [c \in Child |-> "none"]
  /\ held = [c \in Child |-> 0] /\ wrote = [c \in Child |-> 0]
  /\ reaped = {} /\ drained = FALSE
  /\ waiting = "none" /\ it = 1 /\ kept = "none" /\ result = "none" /\ calls = 0

BuffersInit ==
  /\ part \in {"ring", "stream", "wait"}
  /\ IF part = "ring" THEN Init ELSE RingIdle
  /\ IF part = "stream" THEN StreamInit ELSE StreamIdle
  /\ IF part = "wait" THEN WaitInit ELSE WaitIdle

BuffersNext ==
  /\ UNCHANGED part
  /\ \/ part = "ring" /\ Next /\ UNCHANGED <<streamVars, waitVars>>
     \/ part = "stream" /\ StreamNext /\ UNCHANGED <<vars, waitVars>>
     \/ part = "wait" /\ WaitStep /\ UNCHANGED <<vars, streamVars>>

\* Each part's own fairness, and none for the two that do not run.
BuffersSpec ==
  /\ BuffersInit /\ [][BuffersNext]_allVars
  /\ WF_vars(part = "ring" /\ \E n \in Positions : Stored(n) \/ Loaded(n))
  /\ WF_vars(part = "ring" /\ WriteSeen) /\ WF_vars(part = "ring" /\ ReadSeen)
  /\ SF_vars(part = "ring" /\ ConsumeAll)
  /\ WF_vars(part = "ring" /\ Consume) /\ WF_vars(part = "ring" /\ Consumed)
  /\ StreamFairness /\ WaitFairness

\* The variables of all three hold values of their types.
BuffersTypeOK == TypeOK /\ StreamTypeOK /\ WaitTypeOK
=============================================================================
