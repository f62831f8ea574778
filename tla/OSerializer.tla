----------------------------- MODULE OSerializer -----------------------------
(***************************************************************************)
(* common/OSerializer: the buffers an object is laid out in become the     *)
(* bodies of OMessages, compressed and encrypted on the way if the caller  *)
(* asked for it, and Deserialize turns the messages back into the chunks   *)
(* that Read is resumed with.                                              *)
(*                                                                         *)
(* What a body carries is an interval of the object's stream, as in        *)
(* OProtoBase.  Encryption changes a body's length and checks the key; a   *)
(* checksum never matches under another key.  zlib is external: deflate    *)
(* fills fragments of exactly the output buffer's length, each of which    *)
(* lets inflate produce the stream up to some position, chosen freely      *)
(* within the bounds below.                                                *)
(***************************************************************************)
EXTENDS OProtoBase

CONSTANTS
  Methods,        \* the combinations of "Compress" and "Encrypt" considered
  AES_BLOCK_SIZE, \* 16
  MinCarry,       \* a full fragment carries at least so many bytes of the
  MaxCarry,       \*   stream, and a fragment at most so many;
  Latency         \* bytes deflate may have taken in and not given out while
                  \*   its output buffer is full

ASSUME MethodsAssumption == Methods \subseteq SUBSET {"Compress", "Encrypt"}
ASSUME BlockAssumption ==
  AES_BLOCK_SIZE \in Nat \ {0} /\ MAX_MESSAGE_BODY_LENGTH % AES_BLOCK_SIZE = 0
ASSUME DeflateAssumption ==
  MinCarry \in Nat \ {0} /\ MaxCarry \in Nat /\ MinCarry <= MaxCarry /\ Latency \in Nat

VARIABLES
  method,     \* the SerializeMethod of this call
  keysMatch,  \* Deserialize is given the key that Serialize was given
  taken,      \* the buffers MakeMessageFromBuf's source took entirely
  zin,        \* CompressBuf: the bytes deflate took of the next buffer,
  zup,        \*   the position up to which its fragments carry the stream,
  zst,        \*   run, tail (NeedMoreMemory4Tail) or end (CompressEnd)
  sequenceId, \* mMessageSequenceId
  msgs,       \* the messages made, which are the source of Deserialize
  recv,       \* Deserialize: the messages it took,
  inflating,  \*   uncompressBuf is not empty,
  inflated,   \*   the position inflate has reached,
  result      \*   its return value, "running" before

serializeVars == <<method, keysMatch, taken, zin, zup, zst, sequenceId, msgs>>
deserializeVars == <<recv, inflating, inflated, result>>
pipeVars == <<layout, writerVars, fed>>
serVars == <<vars, serializeVars, deserializeVars>>

Compressed == "Compress" \in method
Encrypted == "Encrypt" \in method

SerInit ==
  /\ Init
  /\ method \in Methods
  /\ keysMatch \in IF Encrypted THEN BOOLEAN ELSE {TRUE}
  /\ taken = 0 /\ zin = 0 /\ zup = 0 /\ zst = "run"
  /\ sequenceId = 1 /\ msgs = <<>>
  /\ recv = 0 /\ inflating = FALSE /\ inflated = 0 /\ result = "running"
-----------------------------------------------------------------------------
(***************************************************************************)
(* Serialize.                                                              *)
(***************************************************************************)

\* Mutant: a whole block is padded with another one.
PadNumFull(length) ==
  IF Encrypted THEN AES_BLOCK_SIZE - (length % AES_BLOCK_SIZE) ELSE 0

\* AESEncrypt pads a body to whole blocks.
PadNum(length) == IF Encrypted THEN (-length) % AES_BLOCK_SIZE ELSE 0

\* Mutant: the numbers start from zero.
MessageFromZero(content, length) ==
  LET n == Len(msgs) IN
  [sequenceId |-> sequenceId,
   messageSequenceId |-> IF content.last THEN -n ELSE n,
   encryptPadNum |-> PadNum(length),
   bodyLength |-> length + PadNum(length),
   content |-> content]

\* MakeMessageFromBuf: a body of "length" bytes carrying the interval content.
Message(content, length) ==
  LET n == Len(msgs) + 1 IN
  [sequenceId |-> sequenceId,
   messageSequenceId |-> IF content.last THEN -n ELSE n,
   encryptPadNum |-> PadNum(length),
   bodyLength |-> length + PadNum(length),
   content |-> content]

MakeMessage(content, length) ==
  /\ msgs' = Append(msgs, Message(content, length))
  /\ sequenceId' = sequenceId + 1

\* Without compression every buffer is a body.
TakeBuf ==
  /\ ~Compressed
  /\ taken < Len(bufs)
  /\ MakeMessage(bufs[taken + 1], bufs[taken + 1].len)
  /\ taken' = taken + 1
  /\ UNCHANGED <<method, keysMatch, zin, zup, zst, deserializeVars, readerVars, pipeVars>>

\* deflate took n bytes more of the next buffer; the buffer is taken when
\* none is left of it.
Deflated(n) ==
  IF zin + n = bufs[taken + 1].len
    THEN taken' = taken + 1 /\ zin' = 0
    ELSE taken' = taken /\ zin' = zin + n

\* The positions a full fragment may carry the stream up to when deflate has
\* taken it in up to "consumed".
FullUpTo(consumed) ==
  {u \in (zup + MinCarry)..(zup + MaxCarry) : u <= consumed /\ consumed - u <= Latency}

\* One turn of CompressBuf's loop: deflate takes some of the input, all of it
\* unless the output is full.
CompressBuf ==
  LET body == bufs[taken + 1]
      inLen == body.len - zin
  IN
  /\ Compressed /\ zst = "run"
  /\ taken < Len(bufs)
  /\ \E n \in 1..inLen :
       LET consumed == body.base + zin + n
           atEnd == body.last /\ n = inLen
       IN
       /\ Deflated(n)
       /\ \/ \* the output is not full, and more is to come
             /\ n = inLen /\ ~body.last
             /\ consumed - zup < MaxCarry + Latency
             /\ UNCHANGED <<zup, zst, msgs, sequenceId>>
          \/ \* the output is full; the end may be still to be put out
             \E u \in FullUpTo(consumed) :
               /\ MakeMessage(Buf(zup, u - zup, FALSE), MAX_MESSAGE_BODY_LENGTH)
               /\ zup' = u
               /\ zst' = IF atEnd THEN "tail" ELSE "run"
          \/ \* the end of the compressed stream is in the output
             /\ atEnd /\ consumed - zup <= MaxCarry
             /\ \E length \in 1..MAX_MESSAGE_BODY_LENGTH :
                  MakeMessage(Buf(zup, consumed - zup, TRUE), length)
             /\ zup' = consumed
             /\ zst' = "end"
  /\ UNCHANGED <<method, keysMatch, deserializeVars, readerVars, pipeVars>>

\* Compress(nullptr, 0, true) into one more buffer, then CompressEnd: what
\* does not fit in it is lost.
CompressTail ==
  LET u == MinOf(bufs[taken].base + bufs[taken].len, zup + MaxCarry) IN
  /\ zst = "tail"
  /\ \E length \in 1..MAX_MESSAGE_BODY_LENGTH :
       MakeMessage(Buf(zup, u - zup, TRUE), length)
  /\ zup' = u
  /\ zst' = "end"
  /\ UNCHANGED <<method, keysMatch, taken, zin, deserializeVars, readerVars, pipeVars>>

\* Mutant: a source of one message never ends.
SourceEndedAfterTwo == recv > 1

\* The source may be at its end after any message: it is the caller's coroutine,
\* which may be cut short, and Deserialize does not ask whether the last message
\* it took was marked as the object's last.
SourceEnded == recv > 0
-----------------------------------------------------------------------------
(***************************************************************************)
(* Deserialize.                                                            *)
(***************************************************************************)

\* The coroutine of Read is suspended or at its end: sink() has returned.
SinkReturned == rst \in {"start", "wait", "done"}

\* Mutant: the checksum is not compared.
ReceiveUnchecked ==
  /\ result = "running" /\ SinkReturned /\ ~inflating
  /\ recv < Len(msgs)
  /\ recv' = recv + 1
  /\ \/ /\ Compressed
        /\ inflating' = TRUE
        /\ UNCHANGED <<fed, inflated, result, readerVars>>
     \/ /\ ~Compressed
        /\ Sink(msgs[recv + 1].content)
        /\ fed' = fed + 1
        /\ UNCHANGED <<inflating, inflated, result>>
  /\ UNCHANGED <<layout, writerVars, serializeVars>>

\* The next message: a body decrypted with another key fails the checksum; a
\* compressed one is given to inflate; any other is a chunk, the next of the
\* writer's buffers.
Receive ==
  LET m == msgs[recv + 1] IN
  /\ result = "running" /\ SinkReturned /\ ~inflating
  /\ recv < Len(msgs)
  /\ recv' = recv + 1
  /\ \/ /\ Encrypted /\ ~keysMatch
        /\ result' = "false"
        /\ UNCHANGED <<fed, inflating, inflated, readerVars>>
     \/ /\ Encrypted => keysMatch
        /\ Compressed
        /\ inflating' = TRUE
        /\ UNCHANGED <<fed, inflated, result, readerVars>>
     \/ /\ Encrypted => keysMatch
        /\ ~Compressed
        /\ Sink(m.content)
        /\ fed' = fed + 1
        /\ UNCHANGED <<inflating, inflated, result>>
  /\ UNCHANGED <<layout, writerVars, serializeVars>>

\* Mutants: the chunk is not cut to what inflate put out; the output buffer
\* has one byte; the loop goes on until inflate puts nothing out.
InflateUncut ==
  LET upTo == msgs[recv].content.base + msgs[recv].content.len
      n == MinOf(MAX_MESSAGE_BODY_LENGTH, upTo - inflated)
  IN
  /\ result = "running" /\ SinkReturned /\ inflating
  /\ Sink(Buf(inflated, MAX_MESSAGE_BODY_LENGTH, FALSE))
  /\ inflated' = inflated + n
  /\ inflating' = (inflated + n # upTo)
  /\ UNCHANGED <<recv, result, serializeVars, pipeVars>>

InflateBytewise ==
  LET upTo == msgs[recv].content.base + msgs[recv].content.len
      n == MinOf(1, upTo - inflated)
  IN
  /\ result = "running" /\ SinkReturned /\ inflating
  /\ Sink(Buf(inflated, n, FALSE))
  /\ inflated' = inflated + n
  /\ inflating' = (inflated + n # upTo)
  /\ UNCHANGED <<recv, result, serializeVars, pipeVars>>

InflateUntilEmpty ==
  LET upTo == msgs[recv].content.base + msgs[recv].content.len
      n == MinOf(MAX_MESSAGE_BODY_LENGTH, upTo - inflated)
  IN
  /\ result = "running" /\ SinkReturned /\ inflating
  /\ Sink(Buf(inflated, n, FALSE))
  /\ inflated' = inflated + n
  /\ inflating' = (n # 0)
  /\ UNCHANGED <<recv, result, serializeVars, pipeVars>>

\* One turn of the loop over a compressed body: inflate fills a buffer, or
\* stops where the body's bytes end; the chunk may be empty.
Inflate ==
  LET content == msgs[recv].content
      upTo == content.base + content.len
      n == MinOf(MAX_MESSAGE_BODY_LENGTH, upTo - inflated)
  IN
  /\ result = "running" /\ SinkReturned /\ inflating
  /\ Sink(Buf(inflated, n, content.last /\ inflated + n = upTo))
  /\ inflated' = inflated + n
  /\ inflating' = (inflated + n # upTo)
  /\ UNCHANGED <<recv, result, serializeVars, pipeVars>>

\* Mutant: one buffer is inflated of a message, and what is left of it lost.
ReturnTrueInflating ==
  /\ result = "running" /\ SinkReturned
  /\ SourceEnded
  /\ result' = "true"
  /\ UNCHANGED <<recv, inflating, inflated, serializeVars, readerVars, pipeVars>>

\* The loop ends with the source, wherever that is.
ReturnTrue ==
  /\ result = "running" /\ SinkReturned /\ ~inflating
  /\ SourceEnded
  /\ result' = "true"
  /\ UNCHANGED <<recv, inflating, inflated, serializeVars, readerVars, pipeVars>>

Serialize == TakeBuf \/ CompressBuf \/ CompressTail
Deserialize == Receive \/ Inflate \/ ReturnTrue

SerNext ==
  \/ Write /\ UNCHANGED <<serializeVars, deserializeVars>>
  \/ Read /\ UNCHANGED <<serializeVars, deserializeVars>>
  \/ Serialize
  \/ Deserialize

SerSpec == SerInit /\ [][SerNext]_serVars

\* The coroutines are pulled until the source ends, and Deserialize's loop
\* goes on as long as it gets messages.
SerFairSpec ==
  /\ SerSpec
  /\ WF_serVars(Write /\ UNCHANGED <<serializeVars, deserializeVars>>)
  /\ WF_serVars(Read /\ UNCHANGED <<serializeVars, deserializeVars>>)
  /\ WF_serVars(Serialize)
  /\ WF_serVars(Deserialize)
-----------------------------------------------------------------------------
(***************************************************************************)
(* What must hold.                                                         *)
(***************************************************************************)

MessageSet ==
  [sequenceId : Nat, messageSequenceId : Int, encryptPadNum : 0..(AES_BLOCK_SIZE - 1),
   bodyLength : 1..MAX_MESSAGE_BODY_LENGTH, content : BufSet]

\* The variables hold values of their types; every body fits a message, padded
\* as it may be (MakeMessageFromBuf, EncryptBuf, CompressBuf).
SerTypeOK ==
  /\ method \in Methods /\ keysMatch \in BOOLEAN
  /\ taken \in 0..Len(bufs) /\ zin \in Nat /\ zup \in Nat
  /\ zst \in {"run", "tail", "end"}
  /\ sequenceId \in Nat /\ msgs \in Seq(MessageSet)
  /\ recv \in 0..Len(msgs) /\ inflating \in BOOLEAN /\ inflated \in Nat
  /\ result \in {"running", "true", "false"}

\* Read never completes a plain value with bytes beyond its chunk, although
\* inflate cuts the stream at other places than Write did.
NeverOverReads == rst # "overread"

\* The one way to resume a Read that returned: the last fragment of a
\* compressed object carries no byte of it, only the end of the compressed
\* stream (CompressBuf's tail), and Deserialize sinks an empty chunk.
ResumedOnlyByEmptyTail ==
  rst = "resumed" => /\ zst = "end" /\ recv = Len(msgs)
                     /\ msgs[recv].content.len = 0

\* The messages carry the object's stream without gap or overlap, their bodies
\* are whole blocks when they are encrypted, and they are numbered from one
\* with the last and only the last negated.
MessagesCarryStream ==
  \A k \in 1..Len(msgs) :
    LET m == msgs[k] IN
    /\ m.content.base =
         IF k = 1 THEN 0 ELSE msgs[k - 1].content.base + msgs[k - 1].content.len
    /\ Encrypted => m.bodyLength % AES_BLOCK_SIZE = 0
    /\ m.messageSequenceId = IF m.content.last THEN -k ELSE k
    /\ m.content.last => k = Len(msgs) /\ wst = "done" /\ taken = Len(bufs)

\* Deserialize was given the message that is marked as the object's last.
LastReceived == recv > 0 /\ msgs[recv].messageSequenceId < 0

\* Deserialize says true of an object that Read has not read to its end only if
\* the source ended short of the message marked last: once that was taken, every
\* chunk has been inflated and sunk before it says true.
AcceptedIsWhole == result = "true" /\ LastReceived => rst = "done"

\* Under another key Deserialize never gives Read a byte and never says true.
WrongKeyDeliversNothing == ~keysMatch => rst = "start" /\ result # "true"

\* Deserialize returns, unless Read was resumed once too often.
DeserializeReturns == <>(result # "running" \/ rst = "resumed")

\* What the tests of test/serializeTest expect of every method, their sources
\* being Serialize's own, which end with the message marked last: Deserialize
\* says true and the object that was read is the one that was written.
RoundTrip ==
  /\ NoUndefinedBehaviour
  /\ result # "running" /\ keysMatch /\ LastReceived => result = "true" /\ rst = "done"
=============================================================================
