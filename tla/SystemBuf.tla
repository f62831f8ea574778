------------------------------ MODULE SystemBuf ------------------------------
(***************************************************************************)
(* 3rd/boost_process: the streams between a parent and its child.  Each    *)
(* keeps a systembuf over the end of a pipe: postream collects characters  *)
(* and gives them to write(2) when its buffer is full, or is flushed or    *)
(* closed; pistream takes what read(2) has.  The parent writes to what the *)
(* child reads with such a stream, or the other way round.                 *)
(*                                                                         *)
(* A character is its number among those that were put.                    *)
(***************************************************************************)
EXTENDS Naturals, Sequences, FiniteSetsExt

CONSTANTS
  BufSize,   \* bufsize, 8192 by default, of both streams
  PipeSize,  \* what the pipe holds
  MaxPut,    \* bound: the characters put
  MaxFailures  \* bound: the times that write(2) fails

ASSUME BufferAssumption ==
  /\ BufSize \in Nat \ {0} /\ PipeSize \in Nat \ {0}
  /\ MaxPut \in Nat /\ MaxFailures \in Nat

VARIABLES
  put,      \* the number of characters that the postream has taken
  buffer,   \* write_buf_ up to pptr()
  call,     \* the call of the postream that runs sync, or "none"
  written,  \* how much of buffer this write(2) has written
  bad,      \* the postream's badbit
  handle,   \* its handle_: "open", "closed" by close, or "destroyed"
  pipe,     \* the characters in the pipe
  chunk,    \* read_buf_ from gptr() to egptr()
  got,      \* the characters read from the pistream
  reader,   \* "reading", "ended" at an eof, "failed" or "closed"
  failures, \* how often write(2) has not written everything
  cut       \* it had written a part

streamVars == <<put, buffer, call, written, bad, handle, pipe, chunk, got, reader, failures, cut>>

writer == <<put, buffer, call, written, bad, handle, failures, cut>>
readEnd == <<chunk, got, reader>>

StreamInit ==
  /\ put = 0 /\ buffer = <<>> /\ call = "none" /\ written = 0
  /\ bad = FALSE /\ handle = "open" /\ failures = 0 /\ cut = FALSE
  /\ pipe = <<>> /\ chunk = <<>> /\ got = <<>> /\ reader = "reading"
-----------------------------------------------------------------------------
(***************************************************************************)
(* postream.                                                               *)
(***************************************************************************)
IsGood == handle = "open" /\ ~bad /\ call = "none"

Calls(name) ==
  /\ call' = name /\ written' = 0
  /\ UNCHANGED <<put, buffer, bad, handle, failures, cut, pipe, readEnd>>

\* Mutant: the end of the buffer is one further.
PutBeyond ==
  /\ IsGood /\ put < MaxPut
  /\ \/ /\ Len(buffer) <= BufSize
        /\ buffer' = Append(buffer, put + 1) /\ put' = put + 1
        /\ UNCHANGED <<call, written, bad, handle, failures, cut, pipe, readEnd>>
     \/ Len(buffer) > BufSize /\ Calls("overflow")

\* A character is put into the buffer, or overflow is called to make room.
Put ==
  /\ IsGood /\ put < MaxPut
  /\ \/ /\ Len(buffer) < BufSize
        /\ buffer' = Append(buffer, put + 1) /\ put' = put + 1
        /\ UNCHANGED <<call, written, bad, handle, failures, cut, pipe, readEnd>>
     \/ Len(buffer) = BufSize /\ Calls("overflow")

Flush == IsGood /\ Calls("flush")

\* Mutant: close leaves what is buffered.
CloseUnsynced ==
  /\ handle = "open" /\ call = "none" /\ handle' = "closed"
  /\ UNCHANGED <<put, buffer, call, written, bad, failures, cut, pipe, readEnd>>

\* close calls sync whatever failed before.
Close == handle = "open" /\ call = "none" /\ Calls("close")

\* The destructors close the handle; none of them calls sync.
Destroy ==
  /\ handle = "open" /\ call = "none" /\ handle' = "destroyed"
  /\ UNCHANGED <<put, buffer, call, written, bad, failures, cut, pipe, readEnd>>

\* ios::clear by the one who writes.
Clear ==
  /\ bad /\ call = "none" /\ bad' = FALSE
  /\ UNCHANGED <<put, buffer, call, written, handle, failures, cut, pipe, readEnd>>

\* write(2) goes on while there is room in the pipe: more than PIPE_BUF characters
\* are not written at once, and bufsize is 8192 by default.
Write ==
  /\ call # "none" /\ written < Len(buffer) /\ reader # "closed" /\ Len(pipe) < PipeSize
  /\ pipe' = Append(pipe, buffer[written + 1]) /\ written' = written + 1
  /\ UNCHANGED <<put, buffer, call, bad, handle, failures, cut, readEnd>>

HandleAfter(name) == handle' = IF name = "close" THEN "closed" ELSE handle

\* Mutant: the buffer's position is left where it was.
SyncedUnbumped ==
  /\ call # "none" /\ written = Len(buffer)
  /\ call' = "none" /\ HandleAfter(call)
  /\ UNCHANGED <<put, buffer, written, bad, failures, cut, pipe, readEnd>>

\* Mutant: the handle stays open.
SyncedOpen ==
  /\ call # "none" /\ written = Len(buffer)
  /\ call' = "none"
  /\ buffer' = IF call = "overflow" THEN <<put + 1>> ELSE <<>>
  /\ put' = IF call = "overflow" THEN put + 1 ELSE put
  /\ UNCHANGED <<written, bad, handle, failures, cut, pipe, readEnd>>

\* All is written: sync empties the buffer, overflow puts its character and
\* close closes the handle.
Synced ==
  /\ call # "none" /\ written = Len(buffer)
  /\ call' = "none" /\ HandleAfter(call)
  /\ buffer' = IF call = "overflow" THEN <<put + 1>> ELSE <<>>
  /\ put' = IF call = "overflow" THEN put + 1 ELSE put
  /\ UNCHANGED <<written, bad, failures, cut, pipe, readEnd>>

\* A signal interrupts write(2), or nobody reads and SIGPIPE is ignored: sync
\* leaves the buffer as it is, the stream goes bad, and close closes the handle.
SyncFails ==
  /\ call # "none" /\ written < Len(buffer) /\ failures < MaxFailures
  /\ call' = "none" /\ HandleAfter(call) /\ bad' = (bad \/ call # "close")
  /\ failures' = failures + 1 /\ cut' = (cut \/ written > 0)
  /\ UNCHANGED <<put, buffer, written, pipe, readEnd>>
-----------------------------------------------------------------------------
(***************************************************************************)
(* pistream.                                                               *)
(***************************************************************************)
Get ==
  /\ reader = "reading" /\ chunk # <<>>
  /\ got' = Append(got, Head(chunk)) /\ chunk' = Tail(chunk)
  /\ UNCHANGED <<writer, pipe, reader>>

\* underflow: read(2) waits for characters or for the end; a signal interrupts
\* it, which underflow takes for the end too.
Underflow ==
  /\ reader = "reading" /\ chunk = <<>>
  /\ \/ /\ pipe # <<>>
        /\ LET n == Min({BufSize, Len(pipe)})
           IN chunk' = SubSeq(pipe, 1, n) /\ pipe' = SubSeq(pipe, n + 1, Len(pipe))
        /\ UNCHANGED reader
     \/ pipe = <<>> /\ handle # "open" /\ reader' = "ended" /\ UNCHANGED <<chunk, pipe>>
  /\ UNCHANGED <<writer, got>>

ReadInterrupted ==
  /\ reader = "reading" /\ chunk = <<>> /\ reader' = "failed"
  /\ UNCHANGED <<writer, pipe, chunk, got>>

CloseReader ==
  /\ reader # "closed" /\ reader' = "closed"
  /\ UNCHANGED <<writer, pipe, chunk, got>>

StreamNext ==
  \/ Put \/ Flush \/ Close \/ Destroy \/ Clear \/ Write \/ Synced \/ SyncFails
  \/ Get \/ Underflow \/ ReadInterrupted \/ CloseReader

\* The one who reads goes on until the end, and sync returns once it can.
StreamFairness ==
  WF_streamVars(Write) /\ WF_streamVars(Synced) /\ WF_streamVars(Get) /\ WF_streamVars(Underflow)

StreamSpec == StreamInit /\ [][StreamNext]_streamVars /\ StreamFairness
-----------------------------------------------------------------------------
(***************************************************************************)
(* What must hold.                                                         *)
(***************************************************************************)
FirstPut == [i \in 1..put |-> i]

\* What has left the postream, in its order.
Delivered == got \o chunk \o pipe

\* What it has yet to write.
Unwritten == SubSeq(buffer, IF call = "none" THEN 1 ELSE written + 1, Len(buffer))

\* Every character put is in one place only, and they follow each other, through
\* both buffers and the pipe, whatever failed, unless a write(2) was cut short:
\* a failure that wrote nothing can be cleared, and what is kept written again.
\* After one that was cut short sync writes the whole buffer again, and characters
\* arrive twice.
\* One who reads the end that close has made has read all that was put, if no
\* write(2) failed: nothing is left in a buffer.
EachOnce ==
  /\ ~cut => Delivered \o Unwritten = FirstPut
  /\ reader = "ended" /\ handle = "closed" /\ failures = 0 => got = FirstPut

\* After close the one who reads comes to the end.
EndIsSeen == call = "close" ~> reader # "reading"

\* The variables hold values of their types.
StreamTypeOK ==
  /\ put \in 0..MaxPut /\ Len(buffer) <= BufSize /\ written <= BufSize
  /\ call \in {"none", "overflow", "flush", "close"}
  /\ Len(pipe) <= PipeSize /\ Len(chunk) <= BufSize
  /\ reader \in {"reading", "ended", "failed", "closed"}
  /\ failures <= MaxFailures /\ (cut \/ bad => failures > 0)
=============================================================================
