---------------------------- MODULE Descriptors ----------------------------
(***************************************************************************)
(* A process's table of file descriptors, as the system calls see it: what *)
(* each descriptor leads to, <<kind, number>>, or Free.                    *)
(***************************************************************************)
EXTENDS Naturals, FiniteSetsExt

CONSTANT MaxDesc  \* the descriptors that a process may have are below it

ASSUME MaxDescAssumption == MaxDesc \in Nat

Desc == 0..MaxDesc - 1

Free == <<"free", 0>>

\* What the descriptor d led to before the program did anything.
Own(d) == <<"own", d>>

OpenDescs(fds) == {d \in Desc : fds[d] # Free}

\* No descriptor is left: open, pipe, dup and socket fail.
IsFull(fds) == OpenDescs(fds) = Desc

\* The descriptor that they return otherwise.
Lowest(fds) == Min({d \in Desc : fds[d] = Free})

Opened(fds, what) == [fds EXCEPT ![Lowest(fds)] = what]

Closed(fds, d) == [fds EXCEPT ![d] = Free]

Dup2(fds, from, to) == [fds EXCEPT ![to] = fds[from]]

\* A table with only the descriptors in open.
Table(open) == [d \in Desc |-> IF d \in open THEN Own(d) ELSE Free]
=============================================================================
