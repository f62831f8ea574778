---------------------------- MODULE WaitChildren ----------------------------
(***************************************************************************)
(* 3rd/boost_process: wait_children, which a parent calls for the children *)
(* of a pipeline, each of which writes to a pipe that the next one reads.  *)
(* The parent may capture the output of the last, terminate any of them,   *)
(* and call wait_children again after an exception.                        *)
(*                                                                         *)
(* PosixStart has the descriptors: of a pipe between two children nobody   *)
(* else has an end, and the child's object has the last one's read end.    *)
(***************************************************************************)
EXTENDS Naturals, FiniteSetsExt

CONSTANTS
  Sizes,     \* the numbers of children that are tried
  PipeRoom,  \* what a pipe holds
  MaxOut,    \* what each child writes at most: it comes to its end
  MaxCalls   \* bound: the calls of wait_children

ASSUME WaitAssumption ==
  /\ Sizes \subseteq Nat \ {0, 1} /\ PipeRoom \in Nat \ {0} /\ MaxCalls \in Nat
  /\ \A n \in Sizes : \A c \in 1..n : MaxOut[c] \in Nat

VARIABLES
  size,     \* the children in cs
  captured, \* the last one's output is captured
  status,   \* child -> "running", or how it ended
  reaped,   \* the children that waitpid(2) has returned
  doing,    \* child -> the call that it is in, or "none"
  held,     \* child -> how much is in the pipe that it writes to
  wrote,    \* child -> how much it has written
  drained,  \* the parent has read the last one's output to its end
  waiting,     \* wait_children: "none", "wait", "rest" (its inner loop), "returned", "thrown"
  it,       \* its iterator
  kept,     \* its s while the rest is waited for
  result,   \* what it returned
  calls     \* how often it was called

children == <<size, captured, status, doing, held, wrote>>
parent == <<reaped, drained, waiting, it, kept, result, calls>>
waitVars == <<children, parent>>

Child == 1..size

WaitInit ==
  /\ size \in Sizes /\ captured \in BOOLEAN
  /\ status = [c \in Child |-> "running"] /\ doing = [c \in Child |-> "none"]
  /\ held = [c \in Child |-> 0] /\ wrote = [c \in Child |-> 0]
  /\ reaped = {} /\ drained = FALSE
  /\ waiting = "none" /\ it = 1 /\ kept = "none" /\ result = "none" /\ calls = 0
-----------------------------------------------------------------------------
(***************************************************************************)
(* The children's programs: each reads and writes as it likes, and waits   *)
(* where it can do neither, until it exits.                                *)
(***************************************************************************)
Alive(c) == status[c] = "running"

HasPipe(c) == c < size \/ captured

\* Mutant: the parent keeps the read ends of the pipes between the children.
HasReaderInParent(c) == TRUE

\* The pipe of c has a reader: the next child, or the last one's pistream.
HasReader(c) == IF c < size THEN Alive(c + 1) ELSE captured

Ends(c) == \E s \in {"success", "failure"} : status' = [status EXCEPT ![c] = s]

\* A child is about to read its input, or to write.
Begin(c) ==
  /\ Alive(c) /\ doing[c] = "none"
  /\ \/ c > 1 /\ doing' = [doing EXCEPT ![c] = "read"]
     \/ wrote[c] < MaxOut[c] /\ doing' = [doing EXCEPT ![c] = "write"]
  /\ UNCHANGED <<size, captured, status, held, wrote, parent>>

\* It has read something; at the end of its input it exits, or writes more.
ReadInput(c) ==
  /\ Alive(c) /\ doing[c] = "read"
  /\ \/ /\ held[c - 1] > 0
        /\ held' = [held EXCEPT ![c - 1] = @ - 1] /\ doing' = [doing EXCEPT ![c] = "none"]
        /\ UNCHANGED status
     \/ /\ held[c - 1] = 0 /\ ~Alive(c - 1)
        /\ \/ wrote[c] < MaxOut[c] /\ doing' = [doing EXCEPT ![c] = "write"] /\ UNCHANGED status
           \/ Ends(c) /\ UNCHANGED doing
        /\ UNCHANGED held
  /\ UNCHANGED <<size, captured, wrote, parent>>

\* It has written something, or SIGPIPE ends it.
WriteOutput(c) ==
  /\ Alive(c) /\ doing[c] = "write"
  /\ \/ /\ HasPipe(c) => HasReader(c) /\ held[c] < PipeRoom
        /\ held' = IF HasPipe(c) THEN [held EXCEPT ![c] = @ + 1] ELSE held
        /\ wrote' = [wrote EXCEPT ![c] = @ + 1] /\ doing' = [doing EXCEPT ![c] = "none"]
        /\ UNCHANGED status
     \/ /\ HasPipe(c) /\ ~HasReader(c)
        /\ status' = [status EXCEPT ![c] = "killed"]
        /\ UNCHANGED <<held, wrote, doing>>
  /\ UNCHANGED <<size, captured, parent>>

Exit(c) ==
  /\ Alive(c) /\ doing[c] = "none" /\ Ends(c)
  /\ UNCHANGED <<size, captured, doing, held, wrote, parent>>

Runs(c) == Begin(c) \/ ReadInput(c) \/ WriteOutput(c) \/ Exit(c)
-----------------------------------------------------------------------------
(***************************************************************************)
(* The parent.                                                             *)
(***************************************************************************)

\* process::terminate, by any of its threads; a child may refuse SIGTERM.
Terminate(c) ==
  /\ Alive(c)
  /\ status' = [status EXCEPT ![c] = "killed"]
  /\ UNCHANGED <<size, captured, doing, held, wrote, parent>>

\* The captured output is read before wait_children is called, or not.
ReadOutput ==
  /\ waiting = "none" /\ captured /\ ~drained
  /\ \/ /\ held[size] > 0
        /\ held' = [held EXCEPT ![size] = @ - 1] /\ UNCHANGED drained
     \/ /\ held[size] = 0 /\ ~Alive(size)
        /\ drained' = TRUE /\ UNCHANGED held
  /\ UNCHANGED <<size, captured, status, doing, wrote, reaped, waiting, it, kept, result, calls>>

\* wait_children is called, or again after it threw.
Call ==
  /\ waiting \in {"none", "thrown"} /\ calls < MaxCalls
  /\ waiting' = "wait" /\ it' = 1 /\ calls' = calls + 1
  /\ UNCHANGED <<children, reaped, drained, kept, result>>

\* Mutant: waitpid is told not to wait.
WaitableNow(c) == c \notin reaped

\* waitpid returns the status of a child once it is over.
Waitable(c) == ~Alive(c) /\ c \notin reaped

\* exited() /\ exit_status() = EXIT_SUCCESS
Succeeded(s) == s = "success"

Returns(s) == waiting' = "returned" /\ result' = s /\ UNCHANGED kept

\* One turn of the loop: the last child's status is returned, an error is kept
\* while the others are waited for.
WaitNext ==
  /\ waiting = "wait" /\ Waitable(it)
  /\ reaped' = reaped \cup {it} /\ it' = it + 1
  /\ \/ it = size /\ Returns(status[it])
     \/ it < size /\ Succeeded(status[it]) /\ UNCHANGED <<waiting, kept, result>>
     \/ /\ it < size /\ ~Succeeded(status[it])
        /\ waiting' = "rest" /\ kept' = status[it] /\ UNCHANGED result
  /\ UNCHANGED <<children, drained, calls>>

\* Mutant: each status takes the place of the one before.
WaitRestLast ==
  /\ waiting = "rest" /\ Waitable(it)
  /\ reaped' = reaped \cup {it} /\ it' = it + 1
  /\ \/ it = size /\ Returns(status[it])
     \/ it < size /\ UNCHANGED <<waiting, kept, result>>
  /\ UNCHANGED <<children, drained, calls>>

\* One turn of the inner loop.
WaitRest ==
  /\ waiting = "rest" /\ Waitable(it)
  /\ reaped' = reaped \cup {it} /\ it' = it + 1
  /\ \/ it = size /\ Returns(kept)
     \/ it < size /\ UNCHANGED <<waiting, kept, result>>
  /\ UNCHANGED <<children, drained, calls>>

\* waitpid fails, and wait throws: a signal interrupts it while it waits, or an
\* earlier call of wait_children had this child already.
WaitThrows ==
  /\ waiting \in {"wait", "rest"} /\ (Alive(it) \/ it \in reaped)
  /\ waiting' = "thrown"
  /\ UNCHANGED <<children, reaped, drained, it, kept, result, calls>>

WaitStep ==
  \/ \E c \in Child : Runs(c) \/ Terminate(c)
  \/ ReadOutput \/ Call \/ WaitNext \/ WaitRest \/ WaitThrows

\* A program that is not waiting goes on, and waitpid returns a child that is over
\* or throws if there is none.
WaitFairness ==
  /\ \A c \in 1..Max(Sizes) : WF_waitVars(c \in Child /\ Runs(c))
  /\ WF_waitVars(WaitNext) /\ WF_waitVars(WaitRest)
  /\ WF_waitVars(it \in reaped /\ WaitThrows)

WaitSpec == WaitInit /\ [][WaitStep]_waitVars /\ WaitFairness
-----------------------------------------------------------------------------
(***************************************************************************)
(* What must hold.                                                         *)
(***************************************************************************)

\* When wait_children returns all the children have ended and been waited for,
\* also if an earlier call threw, and it has returned the status of the first of
\* them, in their order and not in time, that failed or was killed, or else that
\* of the last.
FirstFailure ==
  waiting = "returned" =>
    LET failed == {c \in Child : status[c] # "success"}
    IN /\ reaped = Child
       /\ result = status[IF failed = {} THEN size ELSE Min(failed)]

\* wait_children comes to its end if nothing is captured, or what is was read to
\* its end before: no child waits for ever for another one's output, or for one
\* that has gone to read its own.  A parent that waits first may wait for ever.
WaitEnds ==
  waiting = "wait" /\ (captured => drained) ~> waiting \in {"returned", "thrown"}

\* The variables hold values of their types.
WaitTypeOK ==
  LET over == {"success", "failure", "killed"}
  IN /\ status \in [Child -> {"running"} \cup over] /\ doing \in [Child -> {"none", "read", "write"}]
     /\ held \in [Child -> 0..PipeRoom] /\ \A c \in Child : wrote[c] \in 0..MaxOut[c]
     /\ reaped \subseteq {c \in Child : ~Alive(c)}
     /\ waiting \in {"none", "wait", "rest", "returned", "thrown"} /\ it \in 1..(size + 1)
     /\ kept \in {"none", "failure", "killed"} /\ result \in {"none"} \cup over
     /\ calls \in 0..MaxCalls
=============================================================================
