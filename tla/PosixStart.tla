----------------------------- MODULE PosixStart -----------------------------
(***************************************************************************)
(* 3rd/boost_process under POSIX: launch, posix_launch and launch_pipeline *)
(* with the descriptors that they and posix_start open, pass on and close. *)
(*                                                                         *)
(* The parent makes a stream_info for each stream of a child that is not   *)
(* to be closed, which may open a pipe, and forks.  The child, on its own  *)
(* copy of the table and of the stream_infos, moves what it was given to   *)
(* the descriptors it shall have, closes all others, and executes its      *)
(* program.  The parent closes the ends that are the child's.  Handles are *)
(* numbers of descriptors: nothing else ties a handle to what it is for.   *)
(*                                                                         *)
(* A pipeline's first pipes are numbered 1, 2, ... as the array's elements *)
(* are; captured streams are numbered after them.                          *)
(***************************************************************************)
EXTENDS Integers, Sequences, Descriptors

CONSTANTS
  Jobs  \* what the parent is asked for: [open |-> its open descriptors,
        \* children |-> a sequence of contexts].  A context has two maps, ins
        \* and outs: the streams that are not to be closed, in the rising
        \* order of d.

VARIABLES
  job,      \* what this behaviour launches
  fds,      \* process -> its table; 0 is the parent, i the i-th child
  pipes,    \* the pipes opened so far
  info,     \* process -> the stream_infos it has, in the order of their maps
  done,     \* child -> how many of them it has set up
  at,       \* process -> what it does next
  current   \* the child that the parent is starting

startVars == <<job, fds, pipes, info, done, at, current>>

Parent == 0
NumChildren == Len(job.children)

\* A stream that a context asks for: descriptor d, for the child's output if
\* out, and how it behaves, redirected to the descriptor to.
Stream(out, d, behavior, to) == [out |-> out, d |-> d, behavior |-> behavior, to |-> to]

\* The streams of the i-th child in the order of its maps.  A pipeline puts
\* its pipes where the contexts must have closed a stream.
PipeIn(i) == IF i > 1 THEN <<Stream(FALSE, 0, "pipein", i - 1)>> ELSE <<>>
PipeOut(i, n) == IF i < n THEN <<Stream(TRUE, 1, "pipeout", i)>> ELSE <<>>
StreamsOf(j, i) ==
  PipeIn(i) \o j.children[i].ins \o PipeOut(i, Len(j.children)) \o j.children[i].outs
Streams(i) == StreamsOf(job, i)

\* What a context may ask for; only an output stream may be redirected.
InStreams == [out : {FALSE}, d : Desc, behavior : {"inherit", "silence", "capture"}, to : Desc]
OutStreams ==
  [out : {TRUE}, d : Desc, behavior : {"inherit", "silence", "capture", "redirect"}, to : Desc]

\* No context has a descriptor in both maps, or asks for what a pipeline gives.
ASSUME JobsAssumption ==
  \A j \in Jobs :
    /\ j.open \subseteq Desc
    /\ j.children \in Seq([ins : Seq(InStreams), outs : Seq(OutStreams)]) /\ j.children # <<>>
    /\ \A i \in 1..Len(j.children) : \A k, l \in 1..Len(StreamsOf(j, i)) :
         StreamsOf(j, i)[k].d = StreamsOf(j, i)[l].d => k = l

\* pipe(2): the ends of a pipe at the two lowest descriptors, if there are two.
PipeEnd(end, k) == <<end, k>>
CanPipe(table, k) == ~IsFull(table) /\ ~IsFull(Opened(table, PipeEnd("read", k)))
PipeMade(table, k) == Opened(Opened(table, PipeEnd("read", k)), PipeEnd("write", k))
HandleOf(table, what) == CHOOSE d \in Desc : table[d] = what

StartInit ==
  /\ job \in Jobs
  /\ fds = [p \in 0..NumChildren |-> IF p = Parent THEN Table(job.open) ELSE Table({})]
  /\ pipes = 0
  /\ info = [p \in 0..NumChildren |-> <<>>]
  /\ done = [p \in 0..NumChildren |-> 0]
  /\ at = [p \in 0..NumChildren |-> IF p = Parent THEN "begin" ELSE "none"]
  /\ current = 1

\* launch_pipeline opens all its pipes before the first child.
Begin ==
  /\ at[Parent] = "begin"
  /\ \/ /\ pipes < NumChildren - 1 /\ CanPipe(fds[Parent], pipes + 1)
        /\ pipes' = pipes + 1
        /\ fds' = [fds EXCEPT ![Parent] = PipeMade(@, pipes + 1)]
        /\ UNCHANGED at
     \/ /\ pipes = NumChildren - 1
        /\ at' = [at EXCEPT ![Parent] = "streams"]
        /\ UNCHANGED <<fds, pipes>>
  /\ UNCHANGED <<job, info, done, current>>

\* What a stream_info of the i-th child holds: its type and its handles.
Info(s, table, k) ==
  [d |-> s.d, out |-> s.out, to |-> s.to,
   type |-> CASE s.behavior \in {"pipein", "pipeout"} -> "handle"
              [] s.behavior = "capture" -> "pipe"
              [] s.behavior = "silence" -> "file"
              [] OTHER -> s.behavior,
   pipe |-> IF s.behavior \in {"pipein", "pipeout"} THEN s.to ELSE k,
   rend |-> IF s.behavior = "capture" THEN HandleOf(table, PipeEnd("read", k)) ELSE -1,
   wend |-> IF s.behavior = "capture" THEN HandleOf(table, PipeEnd("write", k)) ELSE -1,
   handle |-> CASE s.behavior = "pipein" -> HandleOf(table, PipeEnd("read", s.to))
                [] s.behavior = "pipeout" -> HandleOf(table, PipeEnd("write", s.to))
                [] OTHER -> -1]

\* The next stream_info of the child being started is made.
StreamInfo ==
  /\ at[Parent] = "streams" /\ Len(info[Parent]) < Len(Streams(current))
  /\ LET s == Streams(current)[Len(info[Parent]) + 1]
         captured == s.behavior = "capture"
         k == pipes + 1
         table == IF captured THEN PipeMade(fds[Parent], k) ELSE fds[Parent]
     IN /\ captured => CanPipe(fds[Parent], k)
        /\ fds' = [fds EXCEPT ![Parent] = table]
        /\ pipes' = IF captured THEN k ELSE pipes
        /\ info' = [info EXCEPT ![Parent] = Append(@, Info(s, table, IF captured THEN k ELSE 0))]
  /\ UNCHANGED <<job, done, at, current>>

\* fork(2): the child has copies of the table and of the stream_infos.
Fork ==
  /\ at[Parent] = "streams" /\ Len(info[Parent]) = Len(Streams(current))
  /\ fds' = [fds EXCEPT ![current] = fds[Parent]]
  /\ info' = [info EXCEPT ![current] = info[Parent]]
  /\ at' = [at EXCEPT ![Parent] = "close", ![current] = "setup"]
  /\ UNCHANGED <<job, pipes, done, current>>

\* fork(2) or pipe(2) fails: what the parent's objects own is closed, the ends
\* of the children that were started too.
Throw ==
  /\ at[Parent] \in {"begin", "streams"}
  /\ fds' = [fds EXCEPT ![Parent] = Table(job.open)]
  /\ info' = [info EXCEPT ![Parent] = <<>>]
  /\ at' = [at EXCEPT ![Parent] = "thrown"]
  /\ UNCHANGED <<job, pipes, done, current>>
-----------------------------------------------------------------------------
(***************************************************************************)
(* The child.  A handle that was closed or taken over cannot be moved: the *)
(* child says so and exits, as when a file cannot be opened.               *)
(***************************************************************************)
IsStarting(p, step) == p # Parent /\ at[p] = step

Exit(p) ==
  /\ fds' = [fds EXCEPT ![p] = Table({})]
  /\ at' = [at EXCEPT ![p] = "exited"]
  /\ UNCHANGED <<job, pipes, info, done, current>>

\* file_handle::posix_remap: from is moved to d.
Remap(table, from, d) == IF from = d THEN table ELSE Closed(Dup2(table, from, d), from)

\* setup_input and setup_output open a file, or close the end of a pipe that
\* is the parent's, ...
Prepared(table, si) ==
  CASE si.type = "file" -> Opened(table, <<"file", 0>>)
    [] si.type = "pipe" -> Closed(table, IF si.out THEN si.rend ELSE si.wend)
    [] OTHER -> table

\* ... and move what they have to d, if it is not there already.
Given(table, si) ==
  CASE si.type = "file" -> Lowest(table)
    [] si.type = "handle" -> si.handle
    [] si.type = "pipe" -> IF si.out THEN si.wend ELSE si.rend
    [] OTHER -> si.d

\* The child sets up its next stream; the redirected ones are left for later.
SetUp(p) ==
  /\ IsStarting(p, "setup") /\ done[p] < Len(info[p])
  /\ LET si == info[p][done[p] + 1]
         table == Prepared(fds[p], si)
         given == Given(fds[p], si)
     IN \/ /\ si.type = "file" => ~IsFull(fds[p])
           /\ given = si.d \/ table[given] # Free
           /\ fds' = [fds EXCEPT ![p] = Remap(table, given, si.d)]
           /\ done' = [done EXCEPT ![p] = @ + 1]
           /\ UNCHANGED <<job, pipes, info, at, current>>
        \/ /\ si.type # "file" => given # si.d /\ table[given] = Free
           /\ Exit(p)

\* done[p] goes over the streams again, for those that are redirected.
Redirects(p) ==
  {i \in DOMAIN info[p] : info[p][i].type = "redirect" /\ Len(info[p]) + i > done[p]}

\* file_handle::posix_dup for the next of them, once all the others are set up.
Redirect(p) ==
  /\ IsStarting(p, "setup") /\ done[p] >= Len(info[p]) /\ Redirects(p) # {}
  /\ LET i == Min(Redirects(p))
         si == info[p][i]
     IN \/ /\ fds[p][si.to] # Free
           /\ fds' = [fds EXCEPT ![p] = Dup2(@, si.to, si.d)]
           /\ done' = [done EXCEPT ![p] = Len(info[p]) + i]
           /\ UNCHANGED <<job, pipes, info, at, current>>
        \/ fds[p][si.to] = Free /\ Exit(p)

Named(p) == {info[p][i].d : i \in DOMAIN info[p]}

\* Mutant: the standard descriptors are left as they are.
FlaggedAboveStandard(p) == Desc \ ({0, 1, 2} \cup Named(p))

\* closeflags: all descriptors that no stream names are closed.
Flagged(p) == Desc \ Named(p)

CloseFlagged(p) ==
  /\ IsStarting(p, "setup") /\ done[p] >= Len(info[p]) /\ Redirects(p) = {}
  /\ fds' = [fds EXCEPT ![p] = [d \in Desc |-> IF d \in Flagged(p) THEN Free ELSE @[d]]]
  /\ at' = [at EXCEPT ![p] = "exec"]
  /\ UNCHANGED <<job, pipes, info, done, current>>

\* posix_setup, then execve: one of their calls fails, or the program runs.
Exec(p) ==
  /\ IsStarting(p, "exec")
  /\ \/ Exit(p)
     \/ /\ at' = [at EXCEPT ![p] = "running"]
        /\ UNCHANGED <<job, fds, pipes, info, done, current>>

Child == \E p \in 1..NumChildren : SetUp(p) \/ Redirect(p) \/ CloseFlagged(p) \/ Exec(p)
-----------------------------------------------------------------------------
(***************************************************************************)
(* The parent after the fork.                                              *)
(***************************************************************************)

\* The ends that go to the child object: a pipeline returns only the input of
\* the first child and the output of the last.
Returned(i, si) ==
  /\ si.type = "pipe"
  /\ si.out => i = NumChildren
  /\ ~si.out => i = 1

\* posix_start closes the child's ends; then the stream_infos go, and with
\* them a handle and the ends that no child object has taken over.
Ends(i, si) ==
  {d \in {si.handle, IF si.out THEN si.wend ELSE si.rend} : d \in Desc}
  \cup IF Returned(i, si) THEN {} ELSE {d \in {si.rend, si.wend} : d \in Desc}

CloseEnds ==
  /\ at[Parent] = "close"
  /\ LET gone == UNION {Ends(current, info[Parent][i]) : i \in DOMAIN info[Parent]}
     IN fds' = [fds EXCEPT ![Parent] = [d \in Desc |-> IF d \in gone THEN Free ELSE @[d]]]
  /\ info' = [info EXCEPT ![Parent] = <<>>]
  /\ at' = [at EXCEPT ![Parent] = IF current = NumChildren THEN "returned" ELSE "streams"]
  /\ current' = IF current = NumChildren THEN current ELSE current + 1
  /\ UNCHANGED <<job, pipes, done>>

StartNext == Begin \/ StreamInfo \/ Fork \/ Throw \/ Child \/ CloseEnds

StartSpec == StartInit /\ [][StartNext]_startVars
-----------------------------------------------------------------------------
(***************************************************************************)
(* What must hold.                                                         *)
(***************************************************************************)

\* posix_remap asks for a descriptor that can be closed: all that the contexts
\* name are open in the parent, so that no pipe or file is opened on them.  And
\* no stream is redirected to one that is redirected itself.
NamedOpen ==
  \A i \in 1..NumChildren : \A k \in DOMAIN Streams(i) :
    LET s == Streams(i)[k]
    IN /\ s.d \in job.open
       /\ s.behavior = "redirect" =>
            /\ s.to \in job.open
            /\ \A l \in DOMAIN Streams(i) :
                 Streams(i)[l].d = s.to => Streams(i)[l].behavior # "redirect"

\* What the descriptor d led to before anything was opened.
Before(d) == IF d \in job.open THEN Own(d) ELSE Free

\* What a stream that is not redirected shall lead to.
Meant(si) ==
  CASE si.type = "file" -> <<"file", 0>>
    [] si.type \in {"handle", "pipe"} -> PipeEnd(IF si.out THEN "write" ELSE "read", si.pipe)
    [] OTHER -> Before(si.d)

\* What the descriptor d of the child p shall lead to, its redirections aside.
MeantAt(p, d) ==
  LET named == {i \in DOMAIN info[p] : info[p][i].d = d}
  IN IF named = {} THEN Before(d) ELSE Meant(info[p][CHOOSE i \in named : TRUE])

\* In a child whose program runs each stream leads where its context says, and
\* nothing else is open: no pipe of another child, for whose reader it would
\* never end, and none of its own pipes' other ends.  Not so if a context names
\* a descriptor that was free in the parent: a pipe or a file may be opened on
\* it, and is lost when another stream is moved there.
StreamsAsAsked ==
  \A p \in 1..NumChildren : at[p] = "running" =>
    \A d \in Desc :
      IF d \notin Named(p)
      THEN fds[p][d] = Free
      ELSE \A i \in DOMAIN info[p] : info[p][i].d = d =>
             fds[p][d] = MeantAt(p, IF info[p][i].type = "redirect" THEN info[p][i].to ELSE d)

\* They all do if the parent has open what the contexts name, whatever else it
\* has: no end of a pipe, known by its number only, is lost or closed too early.
ChildStreams == NamedOpen => StreamsAsAsked

\* posix_dup leaves the descriptor that it duplicates closed.
DupClosesSource ==
  \A p \in 1..NumChildren :
    at[p] = "setup" /\ done[p] > Len(info[p]) =>
      fds[p][info[p][done[p] - Len(info[p])].to] = Free

\* The parent is left with what it had, and the other ends of the captured
\* streams that are returned; after an exception with what it had.
ParentEnds ==
  LET end(si) == PipeEnd(IF si.out THEN "read" ELSE "write", si.pipe)
      ends == UNION {{end(info[p][i]) : i \in {j \in DOMAIN info[p] : Returned(p, info[p][j])}} :
                       p \in 1..NumChildren}
      own == {Own(d) : d \in job.open}
      held == {fds[Parent][d] : d \in OpenDescs(fds[Parent])}
  IN /\ at[Parent] = "returned" => held = own \cup ends
     /\ at[Parent] = "thrown" => held = own

\* The variables hold values of their types.
StartTypeOK ==
  LET what == {Free} \cup {Own(d) : d \in Desc} \cup {<<"file", 0>>}
              \cup ({"read", "write"} \X (1..pipes))
  IN /\ \A p \in DOMAIN fds : \A d \in Desc : fds[p][d] \in what
     /\ \A p \in DOMAIN info : /\ Len(info[p]) <= Len(Streams(IF p = Parent THEN current ELSE p))
                              /\ done[p] <= 2 * Len(info[p])
     /\ \A p \in DOMAIN at : at[p] \in {"none", "begin", "streams", "close", "returned", "thrown",
                                        "setup", "exec", "running", "exited"}
     /\ current \in 1..NumChildren
=============================================================================
