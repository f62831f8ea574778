----------------------------- MODULE OProtoBase -----------------------------
(***************************************************************************)
(* The two coroutines of common/OProtoBase: Write, which lays an object    *)
(* out in buffers of at most MAX_MESSAGE_BODY_LENGTH bytes and yields each *)
(* buffer when the next element does not fit, and Read, which is resumed   *)
(* with one chunk at a time and takes the fields out again.                *)
(*                                                                         *)
(* A PROTO_IMPLEMENTATION expands to one WriteField/ReadField per field,   *)
(* and vectors and nested objects expand further, so an object is the      *)
(* sequence of primitive operations that its fields come down to:          *)
(*   pod      a plain value of "size" bytes, written in one piece;         *)
(*   bytes    "size" bytes of a string, written piecewise, which always    *)
(*            follow the pod that holds their number;                      *)
(*   reserve  the EnsureBuffer(sizeof(T)) with which a vector begins, just *)
(*            before the pod that holds its length: no byte is written;    *)
(*   end      Write and Read return.                                       *)
(* A byte is identified by its position in the stream the object makes;    *)
(* "at" is the position where an operation's bytes start.  A buffer is an  *)
(* interval of the stream.                                                 *)
(*                                                                         *)
(* Here each yielded buffer is handed to the reader as it is, which is     *)
(* what OSerializer does without compression; OSerializer.tla puts the     *)
(* message framing, encryption and zlib in between.                        *)
(***************************************************************************)
EXTENDS Integers, Sequences

CONSTANTS MAX_MESSAGE_BODY_LENGTH, \* 2^21 in the program; the tests set 32
          Layouts                  \* the objects considered

Kinds == {"pod", "bytes", "reserve", "end"}

\* How many bytes of the stream an operation makes.
Extent(op) == IF op.kind = "reserve" THEN 0 ELSE op.size

\* What the PROTO_FIELDS macros and the helpers can expand to.  The last
\* conjunct follows from the one before it by induction.
WellFormed(l) ==
  /\ l \in Seq([kind : Kinds, size : Nat, at : Nat])
  /\ Len(l) > 1
  /\ l[1].at = 0
  /\ \A i \in 1..Len(l) :
       /\ l[i].kind = "end" <=> i = Len(l)
       /\ l[i].kind = "end" => l[i].size = 0
       /\ l[i].kind = "pod" => l[i].size \in 1..MAX_MESSAGE_BODY_LENGTH
       /\ l[i].kind = "bytes" => i > 1
       /\ l[i].kind = "reserve" => l[i + 1].kind = "pod"
  /\ \A i \in 1..(Len(l) - 1) : l[i + 1].at = l[i].at + Extent(l[i])
  /\ \A i, j \in 1..Len(l) : i < j => l[i].at + Extent(l[i]) <= l[j].at

ASSUME MaxLengthAssumption == MAX_MESSAGE_BODY_LENGTH \in Nat \ {0}
ASSUME LayoutsAssumption == \A l \in Layouts : WellFormed(l)

VARIABLES
  layout,    \* the object's operations
  wop,       \* Write: the operation under way,
  copied,    \*   the bytes of it already copied (the string loop),
  cap,       \*   buf->bufLen, 0 while buf is nullptr,
  base,      \*   the stream position of the buffer's first byte,
  off,       \*   offset, where the next byte goes in the buffer,
  bufs,      \*   the buffers yielded so far,
  wst,       \*   run, or done: SerializeObject sank the last and returned,
  rst,       \* Read: the state of its coroutine,
  rop,       \*   the operation under way,
  got,       \*   the bytes of it already taken,
  chunk,     \*   the chunk it reads from,
  roff,      \*   offset in that chunk
  fed        \* how many of bufs the reader was resumed with

writerVars == <<wst, wop, copied, cap, base, off, bufs>>
readerVars == <<rst, rop, got, chunk, roff>>
vars == <<layout, wst, wop, copied, cap, base, off, bufs,
          rst, rop, got, chunk, roff, fed>>

\* start: not resumed yet; wait: suspended in pull(); run: running;
\* done: Read returned; overread: a plain value was completed with bytes
\* beyond its chunk; resumed: a finished coroutine was resumed.  The last
\* two are undefined behaviour: nothing follows.
ReaderStates == {"start", "wait", "run", "done", "overread", "resumed"}

\* A pushed buffer: len bytes of the stream from base on.
Buf(from, length, isLast) == [base |-> from, len |-> length, last |-> isLast]

BufSet == [base : Nat, len : Nat, last : BOOLEAN]

MinOf(a, b) == IF a <= b THEN a ELSE b

Op(i) == layout[i]

Init ==
  /\ layout \in Layouts
  /\ wst = "run" /\ wop = 1 /\ copied = 0 /\ cap = 0 /\ base = 0 /\ off = 0
  /\ bufs = <<>>
  /\ rst = "start" /\ rop = 1 /\ got = 0 /\ chunk = Buf(0, 0, FALSE) /\ roff = 0
  /\ fed = 0
-----------------------------------------------------------------------------
(***************************************************************************)
(* Write.                                                                  *)
(***************************************************************************)

\* Mutant: the buffer is never yielded.
EnsureBufferUnchecked(size) == [base |-> base, off |-> off, bufs |-> bufs]

\* Mutant: the yielded buffer is not cut to what it holds.
EnsureBufferUncut(size) ==
  IF cap # 0 /\ off + size > cap
    THEN [base |-> base + off, off |-> 0, bufs |-> Append(bufs, Buf(base, cap, FALSE))]
    ELSE [base |-> base, off |-> off, bufs |-> bufs]

\* Room for size more bytes: the buffer is yielded, cut to what it holds,
\* when they do not fit, and a fresh one takes its place.
EnsureBuffer(size) ==
  IF cap # 0 /\ off + size > cap
    THEN [base |-> base + off, off |-> 0, bufs |-> Append(bufs, Buf(base, off, FALSE))]
    ELSE [base |-> base, off |-> off, bufs |-> bufs]

WritePod ==
  LET e == EnsureBuffer(Op(wop).size) IN
  /\ Op(wop).kind = "pod"
  /\ base' = e.base
  /\ off' = e.off + Op(wop).size
  /\ bufs' = e.bufs
  /\ cap' = MAX_MESSAGE_BODY_LENGTH
  /\ wop' = wop + 1
  /\ UNCHANGED <<layout, wst, copied, readerVars, fed>>

WriteReserve ==
  LET e == EnsureBuffer(Op(wop).size) IN
  /\ Op(wop).kind = "reserve"
  /\ base' = e.base
  /\ off' = e.off
  /\ bufs' = e.bufs
  /\ cap' = MAX_MESSAGE_BODY_LENGTH
  /\ wop' = wop + 1
  /\ UNCHANGED <<layout, wst, copied, readerVars, fed>>

\* One turn of the string's copy loop.
WriteBytes ==
  LET rest == Op(wop).size - copied
      e == IF off = cap
             THEN EnsureBuffer(1)
             ELSE [base |-> base, off |-> off, bufs |-> bufs]
      writeLen == MinOf(rest, cap - e.off)
  IN
  /\ Op(wop).kind = "bytes"
  /\ rest > 0
  /\ base' = e.base
  /\ off' = e.off + writeLen
  /\ bufs' = e.bufs
  /\ copied' = copied + writeLen
  /\ UNCHANGED <<layout, wst, wop, cap, readerVars, fed>>

\* The loop ends, at once for an empty string.
WriteBytesEnd ==
  /\ Op(wop).kind = "bytes"
  /\ copied = Op(wop).size
  /\ copied' = 0
  /\ wop' = wop + 1
  /\ UNCHANGED <<layout, wst, cap, base, off, bufs, readerVars, fed>>

\* Mutant: an empty buffer marks the end.
SinkEmptyLast ==
  /\ Op(wop).kind = "end"
  /\ wst = "run"
  /\ bufs' = bufs \o <<Buf(base, off, FALSE), Buf(base + off, 0, TRUE)>>
  /\ wst' = "done"
  /\ UNCHANGED <<layout, wop, copied, cap, base, off, readerVars, fed>>

\* SerializeObject sinks what Write left in the buffer.
SinkLast ==
  /\ Op(wop).kind = "end"
  /\ wst = "run"
  /\ bufs' = Append(bufs, Buf(base, off, TRUE))
  /\ wst' = "done"
  /\ UNCHANGED <<layout, wop, copied, cap, base, off, readerVars, fed>>

Write == WritePod \/ WriteReserve \/ WriteBytes \/ WriteBytesEnd \/ SinkLast
-----------------------------------------------------------------------------
(***************************************************************************)
(* Read.                                                                   *)
(***************************************************************************)

\* A plain value is copied from the chunk when all of it is there; else what
\* is there is copied and the coroutine suspends in pull().
ReadPod ==
  LET readable == chunk.len - roff IN
  /\ rst = "run"
  /\ Op(rop).kind = "pod"
  /\ \/ /\ Op(rop).size <= readable
        /\ roff' = roff + Op(rop).size
        /\ rop' = rop + 1
        /\ UNCHANGED <<rst, got>>
     \/ /\ Op(rop).size > readable
        /\ got' = readable
        /\ rst' = "wait"
        /\ UNCHANGED <<rop, roff>>
  /\ UNCHANGED <<layout, chunk, writerVars, fed>>

\* Mutant: a vector's Read skips the vector's length.
ReadReserveSkips ==
  /\ rst = "run"
  /\ Op(rop).kind = "reserve"
  /\ rop' = rop + 2
  /\ UNCHANGED <<layout, rst, got, chunk, roff, writerVars, fed>>

\* A vector's Read has no counterpart of the reservation.
ReadReserve ==
  /\ rst = "run"
  /\ Op(rop).kind = "reserve"
  /\ rop' = rop + 1
  /\ UNCHANGED <<layout, rst, got, chunk, roff, writerVars, fed>>

\* One turn of the string's append loop, which suspends at the chunk's end.
ReadBytes ==
  LET rest == Op(rop).size - got
      readable == MinOf(rest, chunk.len - roff)
  IN
  /\ rst = "run"
  /\ Op(rop).kind = "bytes"
  /\ rest > 0
  /\ \/ /\ chunk.len = roff
        /\ rst' = "wait"
        /\ UNCHANGED <<got, roff>>
     \/ /\ chunk.len # roff
        /\ got' = got + readable
        /\ roff' = roff + readable
        /\ UNCHANGED rst
  /\ UNCHANGED <<layout, rop, chunk, writerVars, fed>>

ReadBytesEnd ==
  /\ rst = "run"
  /\ Op(rop).kind = "bytes"
  /\ got = Op(rop).size
  /\ got' = 0
  /\ rop' = rop + 1
  /\ UNCHANGED <<layout, rst, chunk, roff, writerVars, fed>>

ReadReturn ==
  /\ rst = "run"
  /\ Op(rop).kind = "end"
  /\ rst' = "done"
  /\ UNCHANGED <<layout, rop, got, chunk, roff, writerVars, fed>>

Read == ReadPod \/ ReadReserve \/ ReadBytes \/ ReadBytesEnd \/ ReadReturn

\* Mutant: after the rest of a plain value the offset stays at 0.
SinkRewinds(c) ==
  /\ rst \in {"start", "wait"}
  /\ chunk' = c /\ roff' = 0 /\ rst' = "run" /\ got' = 0
  /\ rop' = IF rst = "wait" /\ Op(rop).kind = "pod" THEN rop + 1 ELSE rop

\* sink(c): the reader's coroutine is resumed with the chunk c.  A plain
\* value that was cut short takes its rest from c whatever c's length.
Sink(c) ==
  LET rest == Op(rop).size - got IN
  /\ rst \in {"start", "wait", "done"}
  /\ \/ /\ rst = "start" \/ (rst = "wait" /\ Op(rop).kind = "bytes")
        /\ chunk' = c
        /\ roff' = 0
        /\ rst' = "run"
        /\ UNCHANGED <<rop, got>>
     \/ /\ rst = "wait" /\ Op(rop).kind = "pod" /\ rest <= c.len
        /\ chunk' = c
        /\ roff' = rest
        /\ got' = 0
        /\ rop' = rop + 1
        /\ rst' = "run"
     \/ /\ rst = "wait" /\ Op(rop).kind = "pod" /\ rest > c.len
        /\ rst' = "overread"
        /\ UNCHANGED <<rop, got, chunk, roff>>
     \/ /\ rst = "done"
        /\ rst' = "resumed"
        /\ UNCHANGED <<rop, got, chunk, roff>>

\* Without compression the chunks are the buffers, in order.
SinkNext ==
  /\ fed < Len(bufs)
  /\ Sink(bufs[fed + 1])
  /\ fed' = fed + 1
  /\ UNCHANGED <<layout, writerVars>>

Next == Write \/ Read \/ SinkNext

Spec == Init /\ [][Next]_vars

\* The driver pulls the writer until it ends and resumes the reader with
\* every buffer, so no side stops while it can go on.
FairSpec == Spec /\ WF_vars(Write) /\ WF_vars(Read) /\ WF_vars(SinkNext)
-----------------------------------------------------------------------------
(***************************************************************************)
(* What must hold.                                                         *)
(***************************************************************************)

\* The variables hold values of their types: offsets stay inside the buffer
\* and the operations inside the object (Write and Read of OProtoBase).
TypeOK ==
  /\ wop \in 1..Len(layout) /\ rop \in 1..Len(layout)
  /\ copied \in Nat /\ got \in Nat
  /\ wst \in {"run", "done"} /\ cap \in {0, MAX_MESSAGE_BODY_LENGTH}
  /\ base \in Nat /\ off \in 0..MAX_MESSAGE_BODY_LENGTH
  /\ bufs \in Seq(BufSet) /\ fed \in 0..Len(bufs)
  /\ rst \in ReaderStates
  /\ chunk \in BufSet /\ roff \in 0..chunk.len

\* Read never completes a plain value with bytes beyond its chunk and is
\* never resumed once it returned: the one pull() of a plain value's Read and
\* the chunks that SerializeObject makes fit together.
NoUndefinedBehaviour == rst \notin {"overread", "resumed"}

\* The byte Read is about to take is the byte Write laid out there: across
\* chunk boundaries, strings and vectors the two never disagree about where
\* a field's bytes are.
ReaderAligned == rst = "run" => chunk.base + roff = Op(rop).at + got

\* The buffers tile the stream: none is empty or too long for a message,
\* each starts where the one before ended, and exactly the one that
\* SerializeObject sinks at the end is marked as the last.
BufsTileStream ==
  \A k \in 1..Len(bufs) :
    /\ bufs[k].len \in 1..MAX_MESSAGE_BODY_LENGTH
    /\ bufs[k].base = IF k = 1 THEN 0 ELSE bufs[k - 1].base + bufs[k - 1].len
    /\ bufs[k].last <=> (wst = "done" /\ k = Len(bufs))

\* No buffer ends inside a plain value: EnsureBuffer yields before it, which
\* is what lets Read do with one pull().
PodsWhole ==
  \A k \in 1..Len(bufs), i \in 1..Len(layout) :
    LET end == bufs[k].base + bufs[k].len IN
    Op(i).kind = "pod" => end <= Op(i).at \/ Op(i).at + Op(i).size <= end

\* Serialising implements the transfer of an object's elements in order.
Transfer == INSTANCE ObjectTransfer WITH
  size <- Len(layout), written <- wop - 1, read <- rop - 1

TransferSpec == Transfer!Spec

\* The object arrives: Write returns and so does Read.
ObjectArrives == <>(wst = "done" /\ rst = "done")
=============================================================================
