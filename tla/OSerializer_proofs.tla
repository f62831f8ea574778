------------------------- MODULE OSerializer_proofs -------------------------
(***************************************************************************)
(* Proofs about common/OSerializer, for every buffer length, object and    *)
(* block size, and for every way in which deflate may cut its output.      *)
(***************************************************************************)
EXTENDS OSerializer, OProtoBase_proofs

\* The length of the object's stream.
StreamEnd == Op(Len(layout)).at

\* Up to where the buffers that were taken entirely carry the stream, and the
\* first k messages.
TakenEnd == IF taken = 0 THEN 0 ELSE BufEnd(taken)

MsgEnd(k) == IF k = 0 THEN 0 ELSE msgs[k].content.base + msgs[k].content.len

\* One more buffer is enough for what deflate held back (CompressBuf's tail).
TailFits == Latency <= MaxCarry

\* What makes zlib's fragments chunks that Read can live with: none inflates to
\* more than a buffer, and any but the last to at least a plain value.
CutFits ==
  /\ MaxCarry <= MAX_MESSAGE_BODY_LENGTH
  /\ TailFits
  /\ \A l \in Layouts : \A i \in 1..Len(l) : l[i].kind = "pod" => l[i].size <= MinCarry

\* Deflate is never ahead of what it was given, and puts nothing out before it
\* is given something; it is given everything before the tail, and with room
\* for it puts everything out.
SourceInv ==
  /\ method \in Methods /\ keysMatch \in BOOLEAN /\ (keysMatch \/ Encrypted)
  /\ taken \in 0..Len(bufs)
  /\ zin \in Nat /\ (zin # 0 => taken < Len(bufs) /\ zin < bufs[taken + 1].len)
  /\ zup \in Nat /\ zup <= TakenEnd + zin
  /\ zst \in {"run", "tail", "end"}
  /\ zst # "run" => Compressed /\ wst = "done" /\ taken = Len(bufs)
  /\ ~Compressed => zin = 0
  /\ msgs # <<>> => taken > 0 \/ zin > 0
  /\ zst = "tail" => TakenEnd <= zup + Latency
  /\ zst = "end" /\ TailFits => zup = StreamEnd
  /\ wst = "done" => Len(bufs) > 0 /\ BufEnd(Len(bufs)) = StreamEnd

\* The messages reach as far as their source; without compression they are the
\* buffers.
MessagesInv ==
  /\ sequenceId \in Nat /\ msgs \in Seq(MessageSet)
  /\ MessagesCarryStream
  /\ MsgEnd(Len(msgs)) = IF Compressed THEN zup ELSE TakenEnd
  /\ \A k \in 1..Len(msgs) : MsgEnd(k) <= StreamEnd
  /\ ~Compressed => /\ Len(msgs) = taken
                    /\ \A k \in 1..Len(msgs) : msgs[k].content = bufs[k]
  /\ Compressed => /\ zst = "end" <=> msgs # <<>> /\ msgs[Len(msgs)].content.last
                   /\ \A k \in 1..Len(msgs) : MsgEnd(k) <= zup
                   /\ \A k \in 1..Len(msgs) :
                        LET c == msgs[k].content IN
                        c.len <= MaxCarry /\ (c.last \/ c.len >= MinCarry)

\* Inflate has reached the end of the messages taken, or is inside the last of
\* them; under another key nothing is taken but the message that fails.
DeserializeInv ==
  /\ recv \in 0..Len(msgs) /\ inflating \in BOOLEAN /\ inflated \in Nat
  /\ result \in {"running", "true", "false"}
  /\ inflating => Compressed /\ keysMatch /\ recv > 0
  /\ Compressed /\ keysMatch /\ ~inflating => inflated = MsgEnd(recv)
  /\ inflating => /\ msgs[recv].content.base <= inflated /\ inflated <= MsgEnd(recv)
                  /\ inflated = MsgEnd(recv) => inflated = msgs[recv].content.base
                  /\ MaxCarry <= MAX_MESSAGE_BODY_LENGTH => inflated = msgs[recv].content.base
  /\ ~Compressed /\ keysMatch => fed = recv
  /\ WrongKeyDeliversNothing
  /\ ~keysMatch /\ result = "running" => recv = 0
  /\ (~Compressed \/ TailFits) => AcceptedIsWhole

\* Read's position in the stream agrees with inflate's, wherever the chunks are
\* cut.
ChunksInv ==
  /\ rst \in ReaderStates
  /\ rop \in 1..Len(layout) /\ got \in 0..Op(rop).size
  /\ chunk \in BufSet /\ roff \in 0..chunk.len
  /\ rst = "start" => rop = 1 /\ got = 0 /\ inflated = 0
  /\ rst # "start" => recv > 0
  /\ rst = "run" => /\ Op(rop).kind # "bytes" => got = 0
                    /\ chunk.base + roff = Op(rop).at + got
                    /\ chunk.base + chunk.len = inflated
  /\ rst = "wait" => /\ Op(rop).kind \in {"pod", "bytes"}
                     /\ got < Op(rop).size
                     /\ inflated = Op(rop).at + got
  /\ rst = "done" => inflated = StreamEnd
  /\ ResumedOnlyByEmptyTail
  /\ CutFits => rst # "overread"

\* The inductive invariant.
SInv ==
  /\ WInv /\ SourceInv /\ MessagesInv /\ DeserializeInv
  /\ ~Compressed => ReaderInv
  /\ Compressed => ChunksInv
-----------------------------------------------------------------------------
(***************************************************************************)
(* Padding, and what a new message adds.                                   *)
(***************************************************************************)

\* A multiple of a block leaves no remainder.
LEMMA MultipleLeavesNothing ==
  ASSUME NEW b \in Nat \ {0}, NEW s \in Int
  PROVE  (b * s) % b = 0
<1>1. PICK x \in Int : x = b * s
  OBVIOUS
<1>2. (x % b) \in 0..(b - 1) /\ x = b * (x \div b) + (x % b)
  BY <1>1
<1>3. PICK d \in Int : d = x \div b
  BY <1>1
<1>4. b * (s - d) = x % b
  BY <1>1, <1>2, <1>3
<1>5. s - d = 0
  <2>1. CASE s - d >= 1
    <3>1. b * (s - d) >= b
      BY <2>1
    <3> QED
      BY <1>2, <1>4, <3>1
  <2>2. CASE s - d <= -1
    <3>1. b * (s - d) <= -b
      BY <2>2
    <3> QED
      BY <1>2, <1>4, <3>1
  <2> QED
    BY <1>3, <2>1, <2>2
<1> QED
  BY <1>1, <1>4, <1>5

\* A padded body is made of whole blocks and still fits a message, because a
\* message's greatest body does.
LEMMA Padding ==
  ASSUME NEW length \in 1..MAX_MESSAGE_BODY_LENGTH
  PROVE  /\ PadNum(length) \in 0..(AES_BLOCK_SIZE - 1)
         /\ length + PadNum(length) \in 1..MAX_MESSAGE_BODY_LENGTH
         /\ Encrypted => (length + PadNum(length)) % AES_BLOCK_SIZE = 0
<1> DEFINE b == AES_BLOCK_SIZE
           m == MAX_MESSAGE_BODY_LENGTH
           minus == -length
<1>1. b \in Nat \ {0} /\ m \in Nat /\ m % b = 0 /\ length \in 1..m
  BY BlockAssumption, MaxLengthAssumption
<1>2. CASE ~Encrypted
  BY <1>1, <1>2 DEF PadNum
<1>3. CASE Encrypted
  <2>1. PadNum(length) = minus % b
    BY <1>3 DEF PadNum
  <2>2. minus \in Int /\ length + minus = 0
    BY <1>1
  <2> HIDE DEF b, m, minus
  <2>3. PICK r \in Int : r = minus % b
    BY <1>1, <2>2
  <2>4. r \in 0..(b - 1) /\ minus = b * (minus \div b) + r
    BY <1>1, <2>2, <2>3
  <2>5. PICK q \in Int : q = minus \div b
    BY <1>1, <2>2
  <2>6. PICK p \in Int : p = m \div b
    BY <1>1
  <2>7. m = b * p
    <3>1. m = b * (m \div b) + (m % b)
      BY <1>1
    <3> QED
      BY <1>1, <2>6, <3>1
  <2>8. length + r = b * (-q)
    <3>1. b * (-q) = -(b * q)
      BY <1>1, <2>5
    <3>2. PICK u \in Int : u = b * q
      BY <1>1, <2>5
    <3> QED
      BY <2>2, <2>4, <2>5, <3>1, <3>2
  <2>9. length + r <= m
    <3> SUFFICES ASSUME -q > p PROVE FALSE
      <4>1. CASE -q <= p
        <5>1. b * (-q) <= b * p
          BY <1>1, <2>5, <2>6, <4>1
        <5> QED
          BY <2>7, <2>8, <5>1
      <4> QED
        BY <2>5, <2>6, <4>1
    <3>1. b * (-q) >= b * (p + 1)
      BY <1>1, <2>5, <2>6
    <3>2. b * (p + 1) = b * p + b
      BY <1>1, <2>6
    <3>3. length + r >= m + b
      BY <2>7, <2>8, <3>1, <3>2
    <3> QED
      BY <1>1, <2>4, <3>3
  <2>10. (length + r) % b = 0
    <3>1. -q \in Int
      BY <2>5
    <3> QED
      BY <1>1, <2>8, <3>1, MultipleLeavesNothing
  <2>11. length + r \in 1..m
    BY <1>1, <2>4, <2>9
  <2> QED
    BY <2>1, <2>3, <2>4, <2>10, <2>11 DEF b, m
<1> QED
  BY <1>2, <1>3

\* What MakeMessageFromBuf adds to the messages.
LEMMA MessageMade ==
  ASSUME NEW c \in BufSet, NEW length \in 1..MAX_MESSAGE_BODY_LENGTH,
         sequenceId \in Nat, msgs \in Seq(MessageSet), MakeMessage(c, length)
  PROVE  /\ sequenceId' \in Nat /\ msgs' \in Seq(MessageSet)
         /\ Len(msgs) \in Nat /\ Len(msgs') = Len(msgs) + 1
         /\ \A k \in 1..Len(msgs) : msgs'[k] = msgs[k]
         /\ msgs'[Len(msgs) + 1].content = c
         /\ msgs'[Len(msgs) + 1].messageSequenceId =
              IF c.last THEN -(Len(msgs) + 1) ELSE Len(msgs) + 1
         /\ Encrypted => msgs'[Len(msgs) + 1].bodyLength % AES_BLOCK_SIZE = 0
<1> DEFINE m == Message(c, length)
<1>1. msgs' = Append(msgs, m) /\ sequenceId' = sequenceId + 1
  BY DEF MakeMessage
<1>2. Len(msgs) \in Nat
  OBVIOUS
<1>3. /\ m.content = c
      /\ m.messageSequenceId = IF c.last THEN -(Len(msgs) + 1) ELSE Len(msgs) + 1
      /\ m.bodyLength = length + PadNum(length)
  BY DEF Message
<1>4. m \in MessageSet
  <2>1. (IF c.last THEN -(Len(msgs) + 1) ELSE Len(msgs) + 1) \in Int
    BY <1>2
  <2>2. PadNum(length) \in 0..(AES_BLOCK_SIZE - 1)
        /\ length + PadNum(length) \in 1..MAX_MESSAGE_BODY_LENGTH
    BY Padding
  <2> QED
    BY <2>1, <2>2 DEF Message, MessageSet
<1>5. Encrypted => m.bodyLength % AES_BLOCK_SIZE = 0
  BY <1>3, Padding
<1> HIDE DEF m
<1>6. /\ msgs' \in Seq(MessageSet) /\ Len(msgs') = Len(msgs) + 1
      /\ \A k \in 1..Len(msgs) : msgs'[k] = msgs[k]
      /\ msgs'[Len(msgs) + 1] = m
  BY <1>1, <1>4
<1> QED
  BY <1>1, <1>2, <1>3, <1>5, <1>6

\* A new message that begins where the others end, none of which was the last,
\* and is the last itself only when all is taken, keeps them carrying the
\* stream.
LEMMA MessageFits ==
  ASSUME NEW c \in BufSet, NEW length \in 1..MAX_MESSAGE_BODY_LENGTH,
         MessagesInv, MakeMessage(c, length), method' = method,
         c.base = MsgEnd(Len(msgs)),
         msgs # <<>> => ~msgs[Len(msgs)].content.last,
         c.last => wst' = "done" /\ taken' = Len(bufs')
  PROVE  /\ MessagesCarryStream'
         /\ \A k \in 0..Len(msgs) : MsgEnd(k)' = MsgEnd(k)
         /\ MsgEnd(Len(msgs))' = c.base + c.len
<1>1. /\ Len(msgs) \in Nat /\ Len(msgs') = Len(msgs) + 1
      /\ \A k \in 1..Len(msgs) : msgs'[k] = msgs[k]
      /\ msgs'[Len(msgs) + 1].content = c
      /\ msgs'[Len(msgs) + 1].messageSequenceId =
           IF c.last THEN -(Len(msgs) + 1) ELSE Len(msgs) + 1
      /\ Encrypted => msgs'[Len(msgs) + 1].bodyLength % AES_BLOCK_SIZE = 0
  BY MessageMade DEF MessagesInv
<1>2. \A k \in 0..Len(msgs) : MsgEnd(k)' = MsgEnd(k)
  BY <1>1 DEF MsgEnd
<1>3. MsgEnd(Len(msgs))' = c.base + c.len
  BY <1>1 DEF MsgEnd
<1>4. Encrypted' = Encrypted
  BY DEF Encrypted
<1>5. ASSUME NEW k \in 1..Len(msgs')
      PROVE  /\ msgs'[k].content.base =
                  IF k = 1 THEN 0 ELSE msgs'[k - 1].content.base + msgs'[k - 1].content.len
             /\ Encrypted => msgs'[k].bodyLength % AES_BLOCK_SIZE = 0
             /\ msgs'[k].messageSequenceId = IF msgs'[k].content.last THEN -k ELSE k
             /\ msgs'[k].content.last => k = Len(msgs') /\ wst' = "done" /\ taken' = Len(bufs')
  <2>1. CASE k \in 1..Len(msgs)
    <3>1. /\ msgs[k].content.base =
                  IF k = 1 THEN 0 ELSE msgs[k - 1].content.base + msgs[k - 1].content.len
          /\ Encrypted => msgs[k].bodyLength % AES_BLOCK_SIZE = 0
          /\ msgs[k].messageSequenceId = IF msgs[k].content.last THEN -k ELSE k
          /\ msgs[k].content.last => k = Len(msgs)
      BY <2>1 DEF MessagesInv, MessagesCarryStream
    <3>2. ~msgs[k].content.last
      BY <1>1, <2>1, <3>1
    <3>3. msgs'[k] = msgs[k] /\ (k # 1 => msgs'[k - 1] = msgs[k - 1])
      BY <1>1, <2>1
    <3> QED
      BY <3>1, <3>2, <3>3
  <2>2. CASE k = Len(msgs) + 1
    <3>1. k = Len(msgs')
      BY <1>1, <2>2
    <3>2. c.base = IF k = 1 THEN 0 ELSE msgs'[k - 1].content.base + msgs'[k - 1].content.len
      <4>1. CASE Len(msgs) = 0
        BY <2>2, <4>1 DEF MsgEnd
      <4>2. CASE Len(msgs) # 0
        <5>1. k - 1 = Len(msgs) /\ k # 1 /\ Len(msgs) \in 1..Len(msgs)
          BY <1>1, <2>2, <4>2
        <5>2. msgs'[k - 1] = msgs[Len(msgs)]
          BY <1>1, <5>1
        <5> QED
          BY <4>2, <5>1, <5>2 DEF MsgEnd
      <4> QED
        BY <4>1, <4>2
    <3> QED
      BY <1>1, <2>2, <3>1, <3>2
  <2> QED
    BY <1>1, <2>1, <2>2
<1>6. MessagesCarryStream'
  BY <1>4, <1>5 DEF MessagesCarryStream
<1> QED
  BY <1>2, <1>3, <1>6
-----------------------------------------------------------------------------
(***************************************************************************)
(* The stages of Serialize.                                                *)
(***************************************************************************)

\* Where the next buffer starts, and what the stages have taken.
LEMMA SourceFacts ==
  ASSUME WInv, SourceInv
  PROVE  /\ Len(bufs) \in Nat /\ taken \in Nat /\ taken <= Len(bufs)
         /\ TakenEnd \in Nat /\ StreamEnd \in Nat /\ TakenEnd <= StreamEnd
         /\ zin \in Nat /\ zup \in Nat /\ zup <= StreamEnd
         /\ wst = "done" /\ taken = Len(bufs) => TakenEnd = StreamEnd /\ taken > 0 /\ zin = 0
         /\ taken < Len(bufs) =>
              /\ taken + 1 \in 1..Len(bufs)
              /\ bufs[taken + 1] \in BufSet /\ bufs[taken + 1].len \in Nat
              /\ bufs[taken + 1].len > 0
              /\ bufs[taken + 1].len <= MAX_MESSAGE_BODY_LENGTH
              /\ bufs[taken + 1].base = TakenEnd
              /\ BufEnd(taken + 1) = TakenEnd + bufs[taken + 1].len
              /\ BufEnd(taken + 1) \in Nat /\ BufEnd(taken + 1) <= StreamEnd
              /\ bufs[taken + 1].last <=> (wst = "done" /\ taken + 1 = Len(bufs))
<1>1. Len(bufs) \in Nat /\ taken \in 0..Len(bufs) /\ zin \in Nat /\ zup \in Nat
      /\ zup <= TakenEnd + zin
      /\ (zin # 0 => taken < Len(bufs) /\ zin < bufs[taken + 1].len)
      /\ (wst = "done" => Len(bufs) > 0 /\ BufEnd(Len(bufs)) = StreamEnd)
  BY BufFacts DEF SourceInv
<1>2. StreamEnd \in Nat
  BY WriterInside DEF StreamEnd
<1>3. TakenEnd \in Nat /\ TakenEnd <= StreamEnd
  <2>1. CASE taken = 0
    BY <1>2, <2>1 DEF TakenEnd
  <2>2. CASE taken # 0
    <3>1. taken \in 1..Len(bufs)
      BY <1>1, <2>2
    <3> QED
      BY <2>2, <3>1, BufPlace DEF TakenEnd, StreamEnd
  <2> QED
    BY <2>1, <2>2
<1>4. ASSUME taken < Len(bufs)
      PROVE  /\ taken + 1 \in 1..Len(bufs)
             /\ bufs[taken + 1] \in BufSet /\ bufs[taken + 1].len \in Nat
             /\ bufs[taken + 1].len > 0
             /\ bufs[taken + 1].len <= MAX_MESSAGE_BODY_LENGTH
             /\ bufs[taken + 1].base = TakenEnd
             /\ BufEnd(taken + 1) = TakenEnd + bufs[taken + 1].len
             /\ BufEnd(taken + 1) \in Nat /\ BufEnd(taken + 1) <= StreamEnd
             /\ bufs[taken + 1].last <=> (wst = "done" /\ taken + 1 = Len(bufs))
  <2>1. taken + 1 \in 1..Len(bufs) /\ (taken + 1 = 1 <=> taken = 0) /\ taken + 1 - 1 = taken
    BY <1>1, <1>4
  <2>2. bufs[taken + 1].base = TakenEnd
    <3>1. PICK k \in 1..Len(bufs) : k = taken + 1
      BY <2>1
    <3>2. (k = 1 => bufs[k].base = 0) /\ (k # 1 => bufs[k].base = BufEnd(k - 1))
      BY BufPlace
    <3>3. k - 1 = taken /\ (k = 1 <=> taken = 0)
      BY <1>1, <3>1
    <3>4. CASE taken = 0
      BY <3>1, <3>2, <3>3, <3>4 DEF TakenEnd
    <3>5. CASE taken # 0
      <4>1. bufs[k].base = BufEnd(k - 1) /\ BufEnd(k - 1) = BufEnd(taken)
        BY <3>2, <3>3, <3>5
      <4> QED
        BY <3>1, <3>5, <4>1 DEF TakenEnd
    <3> QED
      BY <3>4, <3>5
  <2>3. BufEnd(taken + 1) = TakenEnd + bufs[taken + 1].len
    BY <2>2 DEF BufEnd
  <2> QED
    BY <2>1, <2>2, <2>3, BufPlace DEF StreamEnd
<1>5. zup <= StreamEnd
  <2>1. CASE zin = 0
    BY <1>1, <1>2, <1>3, <2>1
  <2>2. CASE zin # 0
    BY <1>1, <1>2, <1>3, <1>4, <2>2
  <2> QED
    BY <2>1, <2>2
<1>6. wst = "done" /\ taken = Len(bufs) => TakenEnd = StreamEnd /\ taken > 0 /\ zin = 0
  BY <1>1 DEF TakenEnd
<1> QED
  BY <1>1, <1>2, <1>3, <1>4, <1>5, <1>6

\* The reader's side does not notice a new message.
LEMMA SerializeKeepsReader ==
  ASSUME SInv, Compressed => zst # "end",
         UNCHANGED <<method, keysMatch, deserializeVars, readerVars, pipeVars>>,
         \/ msgs' = msgs
         \/ Len(msgs') = Len(msgs) + 1 /\ \A k \in 1..Len(msgs) : msgs'[k] = msgs[k]
  PROVE  WInv' /\ DeserializeInv' /\ (~Compressed => ReaderInv)' /\ (Compressed => ChunksInv)'
<1>1. /\ layout' = layout /\ wst' = wst /\ wop' = wop /\ copied' = copied /\ cap' = cap
      /\ base' = base /\ off' = off /\ bufs' = bufs /\ fed' = fed
      /\ rst' = rst /\ rop' = rop /\ got' = got /\ chunk' = chunk /\ roff' = roff
      /\ recv' = recv /\ inflating' = inflating /\ inflated' = inflated /\ result' = result
      /\ method' = method /\ keysMatch' = keysMatch
  BY DEF pipeVars, writerVars, readerVars, deserializeVars
<1>2. Compressed' = Compressed /\ Encrypted' = Encrypted
  BY <1>1 DEF Compressed, Encrypted
<1>3. WInv'
  <2>1. WriterInv'
    BY <1>1 DEF SInv, WInv, WriterInv, Op
  <2>2. WInv
    BY DEF SInv
  <2>3. BufsInv'
    BY <1>1, <2>2, KeepBufs, WriterFacts
  <2> QED
    BY <1>1, <2>1, <2>2, <2>3 DEF WInv
<1>4. DeserializeInv'
  <2>1. DeserializeInv /\ Len(msgs) \in Nat
    BY DEF SInv, MessagesInv
  <2>2. recv \in 0..Len(msgs') /\ (recv > 0 => msgs'[recv] = msgs[recv])
    BY <2>1 DEF DeserializeInv
  <2>3. MsgEnd(recv)' = MsgEnd(recv)
    BY <1>1, <2>1, <2>2 DEF MsgEnd, DeserializeInv
  <2>4. WrongKeyDeliversNothing' /\ (AcceptedIsWhole => AcceptedIsWhole')
    BY <1>1, <2>1 DEF DeserializeInv, WrongKeyDeliversNothing, AcceptedIsWhole, LastReceived
  <2> QED
    BY <1>1, <1>2, <2>1, <2>2, <2>3, <2>4 DEF DeserializeInv, TailFits
<1>5. (~Compressed => ReaderInv)'
  BY <1>1, <1>2 DEF SInv, ReaderInv, BufEnd, Op
<1>6. (Compressed => ChunksInv)'
  <2> SUFFICES ASSUME Compressed PROVE ChunksInv'
    BY <1>2
  <2>1. ChunksInv /\ rst # "resumed"
    BY DEF SInv, ChunksInv, ResumedOnlyByEmptyTail
  <2>2. ResumedOnlyByEmptyTail'
    BY <1>1, <2>1 DEF ResumedOnlyByEmptyTail
  <2>3. CutFits' = CutFits
    BY DEF CutFits, TailFits
  <2> QED
    BY <1>1, <2>1, <2>2, <2>3 DEF ChunksInv, Op, StreamEnd
<1> QED
  BY <1>3, <1>4, <1>5, <1>6

\* Where the messages are in the stream.
LEMMA MsgPlace ==
  ASSUME MessagesInv, NEW k \in 1..Len(msgs)
  PROVE  /\ msgs[k].content \in BufSet
         /\ msgs[k].content.base \in Nat /\ msgs[k].content.len \in Nat
         /\ msgs[k].content.base = MsgEnd(k - 1)
         /\ MsgEnd(k) = msgs[k].content.base + msgs[k].content.len
         /\ MsgEnd(k) \in Nat /\ MsgEnd(k) <= StreamEnd
         /\ Len(msgs) \in Nat
<1>1. msgs[k] \in MessageSet /\ Len(msgs) \in Nat
  BY DEF MessagesInv
<1>2. /\ msgs[k].content \in BufSet
      /\ msgs[k].content.base \in Nat /\ msgs[k].content.len \in Nat
  BY <1>1 DEF MessageSet, BufSet
<1>3. msgs[k].content.base =
        IF k = 1 THEN 0 ELSE msgs[k - 1].content.base + msgs[k - 1].content.len
  BY DEF MessagesInv, MessagesCarryStream
<1>4. msgs[k].content.base = MsgEnd(k - 1)
  BY <1>3 DEF MsgEnd
<1>5. MsgEnd(k) = msgs[k].content.base + msgs[k].content.len
  BY DEF MsgEnd
<1> QED
  BY <1>1, <1>2, <1>4, <1>5 DEF MessagesInv

\* A new message that reaches as far as its source does now.
LEMMA MessageKeeps ==
  ASSUME NEW c \in BufSet, NEW length \in 1..MAX_MESSAGE_BODY_LENGTH,
         MessagesInv, MakeMessage(c, length), UNCHANGED <<method, layout, bufs, wst>>,
         c.base = MsgEnd(Len(msgs)),
         Compressed => zst # "end",
         ~Compressed => taken < Len(bufs) /\ taken' = taken + 1 /\ c = bufs[taken + 1],
         c.last => wst = "done" /\ taken' = Len(bufs),
         c.base + c.len = (IF Compressed THEN zup' ELSE TakenEnd'),
         c.base + c.len <= StreamEnd,
         Compressed => /\ zst' = "end" <=> c.last
                       /\ c.len <= MaxCarry /\ (c.last \/ c.len >= MinCarry)
  PROVE  MessagesInv'
<1>1. msgs # <<>> => ~msgs[Len(msgs)].content.last
  <2> SUFFICES ASSUME msgs # <<>>, msgs[Len(msgs)].content.last PROVE FALSE
    OBVIOUS
  <2>1. Len(msgs) \in 1..Len(msgs)
    BY DEF MessagesInv
  <2>2. CASE Compressed
    BY <2>2 DEF MessagesInv
  <2>3. CASE ~Compressed
    <3>1. taken = Len(bufs)
      BY <2>1 DEF MessagesInv, MessagesCarryStream
    <3>2. Len(msgs) = taken /\ Len(msgs) \in Nat
      BY <2>3 DEF MessagesInv
    <3> QED
      BY <2>3, <3>1, <3>2
  <2> QED
    BY <2>2, <2>3
<1>2. /\ sequenceId' \in Nat /\ msgs' \in Seq(MessageSet)
      /\ Len(msgs) \in Nat /\ Len(msgs') = Len(msgs) + 1
      /\ \A k \in 1..Len(msgs) : msgs'[k] = msgs[k]
      /\ msgs'[Len(msgs) + 1].content = c
  BY MessageMade DEF MessagesInv
<1>3. /\ MessagesCarryStream'
      /\ \A k \in 0..Len(msgs) : MsgEnd(k)' = MsgEnd(k)
      /\ MsgEnd(Len(msgs))' = c.base + c.len
  BY <1>1, MessageFits
<1>4. Compressed' = Compressed /\ StreamEnd' = StreamEnd
  BY DEF Compressed, StreamEnd, Op
<1>5. (MsgEnd(Len(msgs)) = IF Compressed THEN zup ELSE TakenEnd)'
  BY <1>3, <1>4
<1>6. (\A k \in 1..Len(msgs) : MsgEnd(k) <= StreamEnd)'
  <2> SUFFICES ASSUME NEW k \in 1..Len(msgs') PROVE MsgEnd(k)' <= StreamEnd
    BY <1>4
  <2>1. CASE k \in 1..Len(msgs)
    BY <1>3, <2>1 DEF MessagesInv
  <2>2. CASE k = Len(msgs')
    BY <1>3, <2>2
  <2> QED
    BY <1>2, <2>1, <2>2
<1>7. (~Compressed => /\ Len(msgs) = taken
                      /\ \A k \in 1..Len(msgs) : msgs[k].content = bufs[k])'
  <2> SUFFICES ASSUME ~Compressed
               PROVE  Len(msgs') = taken' /\ \A k \in 1..Len(msgs') : msgs'[k].content = bufs[k]
    BY <1>4
  <2>1. Len(msgs) = taken /\ \A k \in 1..Len(msgs) : msgs[k].content = bufs[k]
    BY DEF MessagesInv
  <2> QED
    BY <1>2, <2>1
<1>8. (Compressed => \A k \in 1..Len(msgs) : MsgEnd(k) <= zup)'
  <2> SUFFICES ASSUME Compressed, NEW k \in 1..Len(msgs') PROVE MsgEnd(k)' <= zup'
    BY <1>4
  <2>1. c.base + c.len = zup' /\ c.base \in Nat /\ c.len \in Nat
    BY DEF BufSet
  <2>2. CASE k \in 1..Len(msgs)
    <3>1. MsgEnd(k)' = MsgEnd(k) /\ MsgEnd(k) <= c.base /\ MsgEnd(k) \in Nat
      BY <1>3, <2>2, MsgPlace DEF MessagesInv
    <3> QED
      BY <2>1, <3>1
  <2>3. CASE k = Len(msgs')
    BY <1>3, <2>1, <2>3
  <2> QED
    BY <1>2, <2>2, <2>3
<1>9. (Compressed => /\ zst = "end" <=> msgs # <<>> /\ msgs[Len(msgs)].content.last
                     /\ \A k \in 1..Len(msgs) :
                          LET d == msgs[k].content IN
                          d.len <= MaxCarry /\ (d.last \/ d.len >= MinCarry))'
  <2> SUFFICES ASSUME Compressed
               PROVE  /\ zst' = "end" <=> msgs' # <<>> /\ msgs'[Len(msgs')].content.last
                      /\ \A k \in 1..Len(msgs') :
                           LET d == msgs'[k].content IN
                           d.len <= MaxCarry /\ (d.last \/ d.len >= MinCarry)
    BY <1>4
  <2>1. zst' = "end" <=> msgs' # <<>> /\ msgs'[Len(msgs')].content.last
    BY <1>2
  <2>2. \A k \in 1..Len(msgs) :
           LET d == msgs[k].content IN
           d.len <= MaxCarry /\ (d.last \/ d.len >= MinCarry)
    BY DEF MessagesInv
  <2> QED
    BY <1>2, <2>1, <2>2
<1> QED
  BY <1>2, <1>3, <1>5, <1>6, <1>7, <1>8, <1>9 DEF MessagesInv
-----------------------------------------------------------------------------
\* A step of Write changes nothing that the stages have taken.
LEMMA WriteKeeps ==
  SInv /\ Write /\ UNCHANGED <<serializeVars, deserializeVars>> => SInv'
<1> SUFFICES ASSUME SInv, Write, UNCHANGED <<serializeVars, deserializeVars>> PROVE SInv'
  OBVIOUS
<1>1. WInv /\ SourceInv /\ MessagesInv /\ DeserializeInv
  BY DEF SInv
<1>2. WInv' /\ BufsGrow
  BY <1>1, WritePodStep, WriteReserveStep, WriteBytesStep, WriteBytesEndStep, SinkLastStep
     DEF Write
<1>3. /\ layout' = layout /\ rst' = rst /\ rop' = rop /\ got' = got /\ chunk' = chunk
      /\ roff' = roff /\ fed' = fed
  BY DEF Write, WritePod, WriteReserve, WriteBytes, WriteBytesEnd, SinkLast, readerVars
<1>4. /\ method' = method /\ keysMatch' = keysMatch /\ taken' = taken /\ zin' = zin
      /\ zup' = zup /\ zst' = zst /\ sequenceId' = sequenceId /\ msgs' = msgs
      /\ recv' = recv /\ inflating' = inflating /\ inflated' = inflated /\ result' = result
  BY DEF serializeVars, deserializeVars
<1>5. wst = "run"
  BY <1>1, WriterFacts
     DEF Write, WritePod, WriteReserve, WriteBytes, WriteBytesEnd, SinkLast
<1>6. /\ Len(bufs) \in Nat /\ Len(bufs') \in Nat /\ Len(bufs) <= Len(bufs')
      /\ \A k \in 1..Len(bufs) : bufs'[k] = bufs[k]
  <2>1. bufs \in Seq(BufSet)
    BY <1>1 DEF WInv, BufsInv
  <2> QED
    BY <1>2, <2>1 DEF BufsGrow
<1>7. Compressed' = Compressed /\ Encrypted' = Encrypted /\ StreamEnd' = StreamEnd
  BY <1>3, <1>4 DEF Compressed, Encrypted, StreamEnd, Op
<1>8. TakenEnd' = TakenEnd
  BY <1>1, <1>4, <1>6 DEF TakenEnd, BufEnd, SourceInv
<1>9. wst' = "done" => Len(bufs') > 0 /\ BufEnd(Len(bufs))' = StreamEnd
  <2> SUFFICES ASSUME wst' = "done" PROVE Len(bufs') > 0 /\ BufEnd(Len(bufs))' = StreamEnd
    OBVIOUS
  <2>1. SinkLast
    BY <1>5 DEF Write, WritePod, WriteReserve, WriteBytes, WriteBytesEnd
  <2>2. bufs' = Append(bufs, Buf(base, off, TRUE)) /\ base + off = StreamEnd
    BY <1>1, <2>1, WriterInside DEF SinkLast, StreamEnd
  <2>3. Len(bufs') = Len(bufs) + 1 /\ bufs'[Len(bufs')] = Buf(base, off, TRUE)
    <3>1. bufs \in Seq(BufSet)
      BY <1>1 DEF WInv, BufsInv
    <3>2. PICK b \in BufSet : b = Buf(base, off, TRUE)
      BY <1>1, WriterFacts DEF Buf, BufSet
    <3>3. bufs' = Append(bufs, b)
      BY <2>2, <3>2
    <3>4. Len(bufs') = Len(bufs) + 1 /\ bufs'[Len(bufs) + 1] = b
      BY <3>1, <3>3
    <3> QED
      BY <3>2, <3>4
  <2>4. BufEnd(Len(bufs))' = base + off
    BY <2>3 DEF BufEnd, Buf
  <2> QED
    BY <1>6, <2>2, <2>3, <2>4
<1>10. SourceInv'
  <2>1. zst = "run"
    BY <1>1, <1>5 DEF SourceInv
  <2>2. taken' \in 0..Len(bufs')
    BY <1>1, <1>4, <1>6 DEF SourceInv
  <2>3. zin # 0 => taken' < Len(bufs') /\ zin < bufs'[taken' + 1].len
    BY <1>1, <1>4, <1>6 DEF SourceInv
  <2> QED
    BY <1>1, <1>4, <1>7, <1>8, <1>9, <2>1, <2>2, <2>3 DEF SourceInv
<1>11. MessagesInv'
  <2>1. \A k \in 1..Len(msgs) : ~msgs[k].content.last
    BY <1>1, <1>5 DEF MessagesInv, MessagesCarryStream
  <2>2. MessagesCarryStream'
    BY <1>1, <1>4, <1>7, <2>1 DEF MessagesInv, MessagesCarryStream
  <2>3. \A k \in 0..Len(msgs) : MsgEnd(k)' = MsgEnd(k)
    BY <1>4 DEF MsgEnd
  <2>4. MsgEnd(Len(msgs))' = MsgEnd(Len(msgs))
    BY <1>4 DEF MsgEnd
  <2>5. (\A k \in 1..Len(msgs) : MsgEnd(k) <= StreamEnd)'
    BY <1>1, <1>4, <1>7, <2>3 DEF MessagesInv
  <2>6. (Compressed => \A k \in 1..Len(msgs) : MsgEnd(k) <= zup)'
    BY <1>1, <1>4, <1>7, <2>3 DEF MessagesInv
  <2>7. (~Compressed => /\ Len(msgs) = taken
                        /\ \A k \in 1..Len(msgs) : msgs[k].content = bufs[k])'
    BY <1>1, <1>4, <1>6, <1>7 DEF MessagesInv, SourceInv
  <2>8. (Compressed => /\ zst = "end" <=> msgs # <<>> /\ msgs[Len(msgs)].content.last
                       /\ \A k \in 1..Len(msgs) :
                            LET c == msgs[k].content IN
                            c.len <= MaxCarry /\ (c.last \/ c.len >= MinCarry))'
    BY <1>1, <1>4, <1>7 DEF MessagesInv
  <2> QED
    BY <1>1, <1>4, <1>7, <1>8, <2>2, <2>4, <2>5, <2>6, <2>7, <2>8 DEF MessagesInv
<1>12. DeserializeInv'
  <2>1. MsgEnd(recv)' = MsgEnd(recv)
    BY <1>4 DEF MsgEnd
  <2>2. WrongKeyDeliversNothing' = WrongKeyDeliversNothing /\ AcceptedIsWhole' = AcceptedIsWhole
    BY <1>3, <1>4 DEF WrongKeyDeliversNothing, AcceptedIsWhole, LastReceived
  <2> QED
    BY <1>1, <1>3, <1>4, <1>7, <2>1, <2>2 DEF DeserializeInv, TailFits
<1>13. (~Compressed => ReaderInv)'
  <2> SUFFICES ASSUME ~Compressed PROVE ReaderInv'
    BY <1>7
  <2>1. IInv
    BY DEF SInv, IInv
  <2> QED
    BY <2>1, WriteStep DEF IInv
<1>14. (Compressed => ChunksInv)'
  <2> SUFFICES ASSUME Compressed PROVE ChunksInv'
    BY <1>7
  <2>1. ResumedOnlyByEmptyTail' = ResumedOnlyByEmptyTail
    BY <1>3, <1>4 DEF ResumedOnlyByEmptyTail
  <2>2. CutFits' = CutFits
    BY DEF CutFits, TailFits
  <2> QED
    BY <1>3, <1>4, <1>7, <2>1, <2>2 DEF SInv, ChunksInv, Op
<1> QED
  BY <1>2, <1>10, <1>11, <1>12, <1>13, <1>14 DEF SInv

\* A buffer that becomes a message as it is.
LEMMA TakeBufStep == SInv /\ TakeBuf => SInv'
<1> SUFFICES ASSUME SInv, TakeBuf PROVE SInv'
  OBVIOUS
<1> DEFINE c == bufs[taken + 1]
<1>1. WInv /\ SourceInv /\ MessagesInv
  BY DEF SInv
<1>2. /\ ~Compressed /\ taken < Len(bufs) /\ MakeMessage(c, c.len) /\ taken' = taken + 1
      /\ zin' = zin /\ zup' = zup /\ zst' = zst /\ method' = method /\ keysMatch' = keysMatch
      /\ layout' = layout /\ bufs' = bufs /\ wst' = wst
      /\ UNCHANGED <<method, keysMatch, deserializeVars, readerVars, pipeVars>>
  BY DEF TakeBuf, pipeVars, writerVars
<1>3. /\ Len(bufs) \in Nat /\ taken \in Nat /\ taken + 1 \in 1..Len(bufs)
      /\ c \in BufSet /\ c.base \in Nat /\ c.len \in 1..MAX_MESSAGE_BODY_LENGTH
      /\ c.base = TakenEnd /\ BufEnd(taken + 1) = TakenEnd + c.len
      /\ BufEnd(taken + 1) <= StreamEnd /\ TakenEnd \in Nat
      /\ c.last <=> (wst = "done" /\ taken + 1 = Len(bufs))
  BY <1>1, <1>2, SourceFacts, MaxLengthAssumption
<1>4. TakenEnd' = TakenEnd + c.len
  <2>1. taken' # 0 /\ BufEnd(taken)' = BufEnd(taken + 1)
    BY <1>2, <1>3 DEF BufEnd
  <2> QED
    BY <1>3, <2>1 DEF TakenEnd
<1>5. Compressed' = Compressed /\ Encrypted' = Encrypted /\ StreamEnd' = StreamEnd
  BY <1>2 DEF Compressed, Encrypted, StreamEnd, Op
<1>6. SourceInv'
  <2>1. zin = 0 /\ zst = "run" /\ zup \in Nat /\ zup <= TakenEnd
    BY <1>1, <1>2, <1>3 DEF SourceInv
  <2>2. zup <= TakenEnd' + zin'
    BY <1>2, <1>3, <1>4, <2>1
  <2>3. taken' \in 0..Len(bufs')
    BY <1>2, <1>3
  <2>4. (wst = "done" => Len(bufs) > 0 /\ BufEnd(Len(bufs)) = StreamEnd)'
    BY <1>1, <1>2, <1>5 DEF SourceInv, BufEnd
  <2> QED
    BY <1>1, <1>2, <1>5, <2>1, <2>2, <2>3, <2>4 DEF SourceInv
<1>7. MessagesInv'
  <2>1. MsgEnd(Len(msgs)) = TakenEnd
    BY <1>1, <1>2 DEF MessagesInv
  <2>2. PICK b \in BufSet : b = c
    BY <1>3
  <2>3. PICK length \in 1..MAX_MESSAGE_BODY_LENGTH : length = c.len
    BY <1>3
  <2>4. b.base + b.len = TakenEnd' /\ b.base + b.len <= StreamEnd
    BY <1>3, <1>4, <2>2
  <2>5. MakeMessage(b, length) /\ b = bufs[taken + 1]
    BY <1>2, <2>2, <2>3
  <2>6. b.last => wst = "done" /\ taken' = Len(bufs)
    BY <1>2, <1>3, <2>2
  <2>7. b.base = MsgEnd(Len(msgs))
    BY <1>3, <2>1, <2>2
  <2> HIDE DEF c
  <2> QED
    BY <1>1, <1>2, <2>4, <2>5, <2>6, <2>7, MessageKeeps
<1>8. Len(msgs') = Len(msgs) + 1 /\ \A k \in 1..Len(msgs) : msgs'[k] = msgs[k]
  <2>1. msgs \in Seq(MessageSet) /\ msgs' = Append(msgs, Message(c, c.len))
    BY <1>1, <1>2 DEF MessagesInv, MakeMessage
  <2> QED
    BY <2>1
<1> HIDE DEF c
<1>9. WInv' /\ DeserializeInv' /\ (~Compressed => ReaderInv)' /\ (Compressed => ChunksInv)'
  BY <1>2, <1>8, SerializeKeepsReader
<1> QED
  BY <1>6, <1>7, <1>9 DEF SInv
-----------------------------------------------------------------------------
\* The part of a buffer that deflate takes.
LEMMA DeflatedFacts ==
  ASSUME WInv, SourceInv, taken < Len(bufs), bufs' = bufs,
         NEW n \in 1..(bufs[taken + 1].len - zin), Deflated(n)
  PROVE  LET consumed == bufs[taken + 1].base + zin + n IN
         /\ consumed \in Nat /\ consumed <= StreamEnd
         /\ consumed = TakenEnd + zin + n
         /\ taken' \in 0..Len(bufs)
         /\ zin' \in Nat /\ (zin' # 0 => taken' < Len(bufs) /\ zin' < bufs[taken' + 1].len)
         /\ TakenEnd' + zin' = consumed /\ (taken' > 0 \/ zin' > 0)
         /\ n = bufs[taken + 1].len - zin =>
              /\ taken' = taken + 1 /\ zin' = 0 /\ TakenEnd' = consumed
              /\ bufs[taken + 1].last =>
                   wst = "done" /\ taken' = Len(bufs) /\ consumed = StreamEnd
<1> DEFINE c == bufs[taken + 1]
           consumed == c.base + zin + n
<1>1. /\ Len(bufs) \in Nat /\ taken \in Nat /\ taken + 1 \in 1..Len(bufs)
      /\ c.len \in Nat /\ c.base = TakenEnd /\ TakenEnd \in Nat /\ zin \in Nat
      /\ BufEnd(taken + 1) = TakenEnd + c.len /\ BufEnd(taken + 1) <= StreamEnd
      /\ StreamEnd \in Nat
      /\ c.last => wst = "done" /\ taken + 1 = Len(bufs)
  BY SourceFacts
<1>2. wst = "done" => BufEnd(Len(bufs)) = StreamEnd
  BY DEF SourceInv
<1>3. n \in 1..(c.len - zin)
  OBVIOUS
<1>4. \/ zin + n = c.len /\ taken' = taken + 1 /\ zin' = 0
      \/ zin + n # c.len /\ taken' = taken /\ zin' = zin + n
  BY DEF Deflated
<1>5. c.base = TakenEnd /\ consumed = c.base + zin + n
  BY <1>1
<1>6. taken' = taken + 1 => TakenEnd' = TakenEnd + c.len
  <2> SUFFICES ASSUME taken' = taken + 1 PROVE TakenEnd' = TakenEnd + c.len
    OBVIOUS
  <2>1. taken' # 0 /\ BufEnd(taken)' = BufEnd(taken + 1)
    BY <1>1 DEF BufEnd
  <2> QED
    BY <1>1, <2>1 DEF TakenEnd
<1>7. taken' = taken => TakenEnd' = TakenEnd
  BY DEF TakenEnd, BufEnd
<1>8. c.last => BufEnd(taken + 1) = StreamEnd
  BY <1>1, <1>2
<1> HIDE DEF consumed
<1>9. consumed \in Nat /\ consumed <= StreamEnd /\ consumed = TakenEnd + zin + n
  <2> HIDE DEF c
  <2>1. consumed = TakenEnd + zin + n
    BY <1>5
  <2> QED
    BY <1>1, <1>3, <2>1
<1>10. CASE zin + n = c.len /\ taken' = taken + 1 /\ zin' = 0
  <2>1. TakenEnd' = consumed
    <3> HIDE DEF c
    <3> QED
      BY <1>1, <1>3, <1>6, <1>9, <1>10
  <2>2. taken' \in 0..Len(bufs) /\ taken' > 0
    BY <1>1, <1>10
  <2>3. TakenEnd' + zin' = consumed
    BY <1>9, <1>10, <2>1
  <2>4. c.last => wst = "done" /\ taken' = Len(bufs) /\ consumed = StreamEnd
    BY <1>1, <1>6, <1>8, <1>10, <2>1
  <2> QED
    BY <1>9, <1>10, <2>1, <2>2, <2>3, <2>4 DEF consumed
<1>11. CASE zin + n # c.len /\ taken' = taken /\ zin' = zin + n
  <2> DEFINE len == c.len
  <2>1. len \in Nat /\ n \in 1..(len - zin) /\ zin + n # len
    BY <1>1, <1>3, <1>11
  <2>2. taken' < Len(bufs) /\ bufs[taken' + 1].len = len
    BY <1>11
  <2> HIDE DEF c, len
  <2>3. zin' \in Nat /\ zin' > 0 /\ zin' < len /\ n # len - zin
    BY <1>1, <1>11, <2>1
  <2>4. TakenEnd' + zin' = consumed
    BY <1>1, <1>7, <1>9, <1>11, <2>1
  <2>5. taken' \in 0..Len(bufs)
    BY <1>1, <1>11
  <2> QED
    BY <1>9, <2>2, <2>3, <2>4, <2>5 DEF consumed, c, len
<1> QED
  BY <1>4, <1>10, <1>11

\* A turn of CompressBuf's loop.
LEMMA CompressBufStep == SInv /\ CompressBuf => SInv'
<1> SUFFICES ASSUME SInv, CompressBuf PROVE SInv'
  OBVIOUS
<1>1. WInv /\ SourceInv /\ MessagesInv
  BY DEF SInv
<1>2. /\ Compressed /\ zst = "run" /\ taken < Len(bufs)
      /\ layout' = layout /\ bufs' = bufs /\ wst' = wst
      /\ UNCHANGED <<method, keysMatch, deserializeVars, readerVars, pipeVars>>
      /\ method' = method /\ keysMatch' = keysMatch
  BY DEF CompressBuf, pipeVars, writerVars
<1> DEFINE body == bufs[taken + 1]
           inLen == body.len - zin
<1>3. PICK n \in 1..inLen :
        LET consumed == body.base + zin + n
            atEnd == body.last /\ n = inLen
        IN
        /\ Deflated(n)
        /\ \/ /\ n = inLen /\ ~body.last
              /\ consumed - zup < MaxCarry + Latency
              /\ UNCHANGED <<zup, zst, msgs, sequenceId>>
           \/ \E u \in FullUpTo(consumed) :
                /\ MakeMessage(Buf(zup, u - zup, FALSE), MAX_MESSAGE_BODY_LENGTH)
                /\ zup' = u
                /\ zst' = IF atEnd THEN "tail" ELSE "run"
           \/ /\ atEnd /\ consumed - zup <= MaxCarry
              /\ \E length \in 1..MAX_MESSAGE_BODY_LENGTH :
                   MakeMessage(Buf(zup, consumed - zup, TRUE), length)
              /\ zup' = consumed
              /\ zst' = "end"
  BY DEF CompressBuf
<1> DEFINE consumed == body.base + zin + n
           atEnd == body.last /\ n = inLen
<1>4. /\ consumed \in Nat /\ consumed <= StreamEnd /\ consumed = TakenEnd + zin + n
      /\ taken' \in 0..Len(bufs)
      /\ zin' \in Nat /\ (zin' # 0 => taken' < Len(bufs) /\ zin' < bufs[taken' + 1].len)
      /\ TakenEnd' + zin' = consumed /\ (taken' > 0 \/ zin' > 0)
      /\ atEnd => /\ zin' = 0 /\ TakenEnd' = consumed
                  /\ wst = "done" /\ taken' = Len(bufs) /\ consumed = StreamEnd
  BY <1>1, <1>2, <1>3, DeflatedFacts
<1>5. /\ zup \in Nat /\ zup <= consumed /\ StreamEnd \in Nat /\ n \in Nat
      /\ MinCarry \in Nat /\ MinCarry > 0 /\ MaxCarry \in Nat /\ Latency \in Nat
  <2>1. zup \in Nat /\ zup <= TakenEnd + zin /\ TakenEnd \in Nat /\ zin \in Nat
        /\ StreamEnd \in Nat /\ n \in Nat
    BY <1>1, <1>3, SourceFacts DEF SourceInv
  <2>2. consumed = TakenEnd + zin + n
    BY <1>4
  <2> HIDE DEF consumed
  <2> QED
    BY <2>1, <2>2, DeflateAssumption
<1>6. Compressed' = Compressed /\ Encrypted' = Encrypted /\ StreamEnd' = StreamEnd
  BY <1>2 DEF Compressed, Encrypted, StreamEnd, Op
<1>7. MsgEnd(Len(msgs)) = zup /\ Len(msgs) \in Nat /\ msgs \in Seq(MessageSet)
  BY <1>1, <1>2 DEF MessagesInv
<1>8. \/ UNCHANGED <<zup, zst, msgs, sequenceId>>
      \/ \E u \in FullUpTo(consumed) :
           /\ MakeMessage(Buf(zup, u - zup, FALSE), MAX_MESSAGE_BODY_LENGTH)
           /\ zup' = u
           /\ zst' = IF atEnd THEN "tail" ELSE "run"
      \/ /\ atEnd /\ consumed - zup <= MaxCarry
         /\ \E length \in 1..MAX_MESSAGE_BODY_LENGTH :
              MakeMessage(Buf(zup, consumed - zup, TRUE), length)
         /\ zup' = consumed
         /\ zst' = "end"
  BY <1>3
<1> HIDE DEF consumed, atEnd, inLen, body
<1>9. ASSUME zup' \in Nat, zup' <= consumed, zst' \in {"run", "tail", "end"},
             zst' # "run" => atEnd,
             zst' = "tail" => consumed <= zup' + Latency,
             zst' = "end" => zup' = consumed
      PROVE  SourceInv'
  <2>1. (zst # "run" => Compressed /\ wst = "done" /\ taken = Len(bufs))'
    BY <1>2, <1>4, <1>6, <1>9
  <2>2. (zst = "tail" => TakenEnd <= zup + Latency)'
    BY <1>4, <1>9
  <2>3. (zst = "end" /\ TailFits => zup = StreamEnd)'
    BY <1>4, <1>6, <1>9
  <2>4. (wst = "done" => Len(bufs) > 0 /\ BufEnd(Len(bufs)) = StreamEnd)'
    BY <1>1, <1>2, <1>6 DEF SourceInv, BufEnd
  <2>5. zup' <= TakenEnd' + zin'
    BY <1>4, <1>9
  <2>6. /\ taken' \in 0..Len(bufs')
        /\ zin' \in Nat /\ (zin' # 0 => taken' < Len(bufs') /\ zin' < bufs'[taken' + 1].len)
    BY <1>2, <1>4
  <2>7. taken' > 0 \/ zin' > 0
    BY <1>4
  <2> QED
    BY <1>1, <1>2, <1>6, <1>9, <2>1, <2>2, <2>3, <2>4, <2>5, <2>6, <2>7 DEF SourceInv
<1>10. ASSUME NEW c \in BufSet, NEW length \in 1..MAX_MESSAGE_BODY_LENGTH,
              MakeMessage(c, length), c.base = zup, c.base + c.len = zup', zup' <= consumed,
              c.last => atEnd, zst' = "end" <=> c.last,
              c.len <= MaxCarry, c.last \/ c.len >= MinCarry
       PROVE  MessagesInv' /\ \/ msgs' = msgs
                              \/ /\ Len(msgs') = Len(msgs) + 1
                                 /\ \A k \in 1..Len(msgs) : msgs'[k] = msgs[k]
  <2>1. c.base + c.len <= StreamEnd
    <3>1. c.base \in Nat /\ c.len \in Nat
      BY DEF BufSet
    <3> QED
      BY <1>4, <1>5, <1>10, <3>1
  <2>2. c.last => wst = "done" /\ taken' = Len(bufs)
    BY <1>4, <1>10
  <2>3. MessagesInv'
    BY <1>1, <1>2, <1>7, <1>10, <2>1, <2>2, MessageKeeps
  <2> QED
    BY <1>1, <1>10, <2>3, MessageMade DEF MessagesInv
<1>11. CASE UNCHANGED <<zup, zst, msgs, sequenceId>>
  <2>1. SourceInv'
    BY <1>2, <1>5, <1>9, <1>11
  <2>2. MessagesInv'
    <3>1. MessagesCarryStream'
      <4>1. \A k \in 1..Len(msgs) : ~msgs[k].content.last
        <5> SUFFICES ASSUME NEW k \in 1..Len(msgs), msgs[k].content.last PROVE FALSE
          OBVIOUS
        <5>1. k = Len(msgs) /\ msgs # <<>>
          BY <1>1, <1>7 DEF MessagesInv, MessagesCarryStream
        <5> QED
          BY <1>1, <1>2, <5>1 DEF MessagesInv
      <4> QED
        BY <1>1, <1>6, <1>11, <4>1 DEF MessagesInv, MessagesCarryStream
    <3>2. \A k \in 0..Len(msgs) : MsgEnd(k)' = MsgEnd(k)
      BY <1>11 DEF MsgEnd
    <3>3. MsgEnd(Len(msgs))' = MsgEnd(Len(msgs))
      BY <1>11 DEF MsgEnd
    <3>4. (\A k \in 1..Len(msgs) : MsgEnd(k) <= StreamEnd)'
      BY <1>1, <1>6, <1>11, <3>2 DEF MessagesInv
    <3>5. (\A k \in 1..Len(msgs) : MsgEnd(k) <= zup)'
      BY <1>1, <1>2, <1>11, <3>2 DEF MessagesInv
    <3> QED
      BY <1>1, <1>2, <1>6, <1>7, <1>11, <3>1, <3>3, <3>4, <3>5 DEF MessagesInv
  <2>3. WInv' /\ DeserializeInv' /\ (~Compressed => ReaderInv)' /\ (Compressed => ChunksInv)'
    BY <1>2, <1>11, SerializeKeepsReader
  <2> QED
    BY <2>1, <2>2, <2>3 DEF SInv
<1>12. ASSUME NEW u \in FullUpTo(consumed),
              MakeMessage(Buf(zup, u - zup, FALSE), MAX_MESSAGE_BODY_LENGTH),
              zup' = u, zst' = IF atEnd THEN "tail" ELSE "run"
       PROVE  SInv'
  <2>1. u \in Nat /\ u <= consumed /\ consumed <= u + Latency
        /\ zup + MinCarry <= u /\ u <= zup + MaxCarry
    BY <1>4, <1>5 DEF FullUpTo
  <2>2. SourceInv'
    BY <1>4, <1>9, <1>12, <2>1
  <2>3. PICK c \in BufSet : c = Buf(zup, u - zup, FALSE)
    <3>1. PICK d \in Nat : d = u - zup
      BY <1>5, <2>1
    <3> QED
      BY <1>5, <3>1 DEF Buf, BufSet
  <2>4. c.base = zup /\ c.len = u - zup /\ c.last = FALSE
    BY <2>3 DEF Buf
  <2>5. c.base + c.len = u /\ c.len <= MaxCarry /\ c.len >= MinCarry
    BY <1>5, <2>1, <2>4
  <2>6. MAX_MESSAGE_BODY_LENGTH \in 1..MAX_MESSAGE_BODY_LENGTH
    BY MaxLengthAssumption
  <2>7. MessagesInv' /\ \/ msgs' = msgs
                        \/ /\ Len(msgs') = Len(msgs) + 1
                           /\ \A k \in 1..Len(msgs) : msgs'[k] = msgs[k]
    <3>1. MakeMessage(c, MAX_MESSAGE_BODY_LENGTH)
      BY <1>12, <2>3
    <3>2. c.base + c.len = zup' /\ zup' <= consumed /\ zst' # "end" /\ ~c.last
      BY <1>12, <2>1, <2>4, <2>5
    <3> QED
      BY <1>10, <2>4, <2>5, <2>6, <3>1, <3>2
  <2>8. WInv' /\ DeserializeInv' /\ (~Compressed => ReaderInv)' /\ (Compressed => ChunksInv)'
    BY <1>2, <2>7, SerializeKeepsReader
  <2> QED
    BY <2>2, <2>7, <2>8 DEF SInv
<1>13. ASSUME atEnd, consumed - zup <= MaxCarry, zup' = consumed, zst' = "end",
              NEW length \in 1..MAX_MESSAGE_BODY_LENGTH,
              MakeMessage(Buf(zup, consumed - zup, TRUE), length)
       PROVE  SInv'
  <2>1. SourceInv'
    BY <1>4, <1>9, <1>13
  <2>2. PICK c \in BufSet : c = Buf(zup, consumed - zup, TRUE)
    <3>1. PICK d \in Nat : d = consumed - zup
      BY <1>4, <1>5
    <3> QED
      BY <1>5, <3>1 DEF Buf, BufSet
  <2>3. c.base = zup /\ c.len = consumed - zup /\ c.last = TRUE
    BY <2>2 DEF Buf
  <2>4. c.base + c.len = consumed /\ c.len <= MaxCarry
    BY <1>4, <1>5, <1>13, <2>3
  <2>5. MessagesInv' /\ \/ msgs' = msgs
                        \/ /\ Len(msgs') = Len(msgs) + 1
                           /\ \A k \in 1..Len(msgs) : msgs'[k] = msgs[k]
    <3>1. MakeMessage(c, length)
      BY <1>13, <2>2
    <3>2. c.base + c.len = zup' /\ zup' <= consumed
      BY <1>4, <1>13, <2>4
    <3> QED
      BY <1>10, <1>13, <2>3, <2>4, <3>1, <3>2
  <2>6. WInv' /\ DeserializeInv' /\ (~Compressed => ReaderInv)' /\ (Compressed => ChunksInv)'
    BY <1>2, <2>5, SerializeKeepsReader
  <2> QED
    BY <2>1, <2>5, <2>6 DEF SInv
<1> QED
  BY <1>8, <1>11, <1>12, <1>13
-----------------------------------------------------------------------------
\* The tail goes into one more message, which reaches the end if it has room.
LEMMA CompressTailStep == SInv /\ CompressTail => SInv'
<1> SUFFICES ASSUME SInv, CompressTail PROVE SInv'
  OBVIOUS
<1>1. WInv /\ SourceInv /\ MessagesInv
  BY DEF SInv
<1> DEFINE end == bufs[taken].base + bufs[taken].len
           u == MinOf(end, zup + MaxCarry)
<1>2. /\ zst = "tail" /\ zup' = u /\ zst' = "end" /\ taken' = taken /\ zin' = zin
      /\ layout' = layout /\ bufs' = bufs /\ wst' = wst
      /\ UNCHANGED <<method, keysMatch, deserializeVars, readerVars, pipeVars>>
      /\ method' = method /\ keysMatch' = keysMatch
  BY DEF CompressTail, pipeVars, writerVars
<1>3. PICK length \in 1..MAX_MESSAGE_BODY_LENGTH : MakeMessage(Buf(zup, u - zup, TRUE), length)
  BY DEF CompressTail
<1>4. /\ Compressed /\ wst = "done" /\ taken = Len(bufs) /\ zin = 0 /\ taken > 0
      /\ TakenEnd = StreamEnd /\ StreamEnd \in Nat /\ zup \in Nat
      /\ TakenEnd <= zup + Latency /\ zup <= TakenEnd + zin
  BY <1>1, <1>2, SourceFacts DEF SourceInv
<1>5. end = StreamEnd
  BY <1>4 DEF TakenEnd, BufEnd
<1>6. MinCarry \in Nat /\ MaxCarry \in Nat /\ Latency \in Nat
  BY DeflateAssumption
<1> HIDE DEF end
<1>7. /\ u \in Nat /\ zup <= u /\ u <= StreamEnd /\ u <= zup + MaxCarry
      /\ TailFits => u = StreamEnd
  BY <1>4, <1>5, <1>6 DEF MinOf, TailFits
<1> HIDE DEF u
<1>8. Compressed' = Compressed /\ Encrypted' = Encrypted /\ StreamEnd' = StreamEnd
  BY <1>2 DEF Compressed, Encrypted, StreamEnd, Op
<1>9. TakenEnd' = TakenEnd
  BY <1>2 DEF TakenEnd, BufEnd
<1>10. SourceInv'
  <2>1. (wst = "done" => Len(bufs) > 0 /\ BufEnd(Len(bufs)) = StreamEnd)'
    BY <1>1, <1>2, <1>8 DEF SourceInv, BufEnd
  <2>2. zup' \in Nat /\ zup' <= TakenEnd' + zin'
    BY <1>2, <1>4, <1>7, <1>9
  <2> QED
    BY <1>1, <1>2, <1>4, <1>7, <1>8, <2>1, <2>2 DEF SourceInv
<1>11. PICK c \in BufSet : c = Buf(zup, u - zup, TRUE)
  <2>1. PICK d \in Nat : d = u - zup
    BY <1>4, <1>7
  <2> QED
    BY <1>4, <2>1 DEF Buf, BufSet
<1>12. c.base = zup /\ c.len = u - zup /\ c.last
  BY <1>11 DEF Buf
<1>13. MakeMessage(c, length)
  BY <1>3, <1>11
<1>14. MessagesInv'
  <2>1. c.base + c.len = zup' /\ c.base + c.len <= StreamEnd /\ c.len <= MaxCarry
    BY <1>2, <1>4, <1>6, <1>7, <1>12
  <2>2. MsgEnd(Len(msgs)) = zup
    BY <1>1, <1>4 DEF MessagesInv
  <2> QED
    BY <1>1, <1>2, <1>4, <1>12, <1>13, <2>1, <2>2, MessageKeeps
<1>15. Len(msgs') = Len(msgs) + 1 /\ \A k \in 1..Len(msgs) : msgs'[k] = msgs[k]
  BY <1>1, <1>13, MessageMade DEF MessagesInv
<1>16. WInv' /\ DeserializeInv' /\ (~Compressed => ReaderInv)' /\ (Compressed => ChunksInv)'
  BY <1>2, <1>15, SerializeKeepsReader
<1> QED
  BY <1>10, <1>14, <1>16 DEF SInv
-----------------------------------------------------------------------------
(***************************************************************************)
(* Deserialize and Read.                                                   *)
(***************************************************************************)

\* The stages of Serialize do not notice what Deserialize and Read do.
LEMMA ReadKeepsSource ==
  ASSUME SInv, UNCHANGED <<layout, writerVars, serializeVars>>
  PROVE  WInv' /\ SourceInv' /\ MessagesInv'
<1>1. /\ layout' = layout /\ wst' = wst /\ wop' = wop /\ copied' = copied /\ cap' = cap
      /\ base' = base /\ off' = off /\ bufs' = bufs
      /\ method' = method /\ keysMatch' = keysMatch /\ taken' = taken /\ zin' = zin
      /\ zup' = zup /\ zst' = zst /\ sequenceId' = sequenceId /\ msgs' = msgs
  BY DEF writerVars, serializeVars
<1>2. WInv'
  <2>1. WriterInv'
    BY <1>1 DEF SInv, WInv, WriterInv, Op
  <2>2. WInv
    BY DEF SInv
  <2>3. BufsInv'
    BY <1>1, <2>2, KeepBufs, WriterFacts
  <2> QED
    BY <1>1, <2>1, <2>2, <2>3 DEF WInv
<1>3. Compressed' = Compressed /\ Encrypted' = Encrypted
  BY <1>1 DEF Compressed, Encrypted
<1>4. TakenEnd' = TakenEnd /\ StreamEnd' = StreamEnd
  BY <1>1 DEF TakenEnd, StreamEnd, BufEnd, Op
<1>5. SourceInv'
  BY <1>1, <1>3, <1>4 DEF SInv, SourceInv, TailFits, BufEnd
<1>6. MessagesInv'
  <2>1. MessagesCarryStream'
    BY <1>1, <1>3 DEF SInv, MessagesInv, MessagesCarryStream
  <2>2. MsgEnd(Len(msgs))' = MsgEnd(Len(msgs)) /\ \A k \in 1..Len(msgs) : MsgEnd(k)' = MsgEnd(k)
    BY <1>1 DEF MsgEnd
  <2> QED
    BY <1>1, <1>3, <1>4, <2>1, <2>2 DEF SInv, MessagesInv
<1> QED
  BY <1>2, <1>5, <1>6

\* What Deserialize knows is untouched by Read's own steps.
LEMMA ReadKeepsDeserialize ==
  ASSUME SInv, UNCHANGED <<layout, writerVars, serializeVars, deserializeVars, fed>>,
         rst = "run"
  PROVE  WInv' /\ SourceInv' /\ MessagesInv' /\ DeserializeInv'
<1>1. WInv' /\ SourceInv' /\ MessagesInv'
  BY ReadKeepsSource
<1>2. /\ recv' = recv /\ inflating' = inflating /\ inflated' = inflated /\ result' = result
      /\ method' = method /\ keysMatch' = keysMatch /\ msgs' = msgs /\ fed' = fed
  BY DEF deserializeVars, serializeVars
<1>3. DeserializeInv
  BY DEF SInv
<1>4. keysMatch
  BY <1>3 DEF DeserializeInv, WrongKeyDeliversNothing
<1>5. Compressed' = Compressed /\ MsgEnd(recv)' = MsgEnd(recv)
  BY <1>2 DEF Compressed, MsgEnd
<1>6. WrongKeyDeliversNothing'
  BY <1>2, <1>4 DEF WrongKeyDeliversNothing
<1>7. AcceptedIsWhole => AcceptedIsWhole'
  BY <1>2 DEF AcceptedIsWhole, LastReceived
<1>8. DeserializeInv'
  BY <1>2, <1>3, <1>4, <1>5, <1>6, <1>7 DEF DeserializeInv, TailFits
<1> QED
  BY <1>1, <1>8

\* What holds of Read's numbers while it runs on chunks from inflate.
LEMMA ChunkFacts ==
  ASSUME SInv, Compressed, rst = "run"
  PROVE  /\ rop \in 1..Len(layout) /\ Len(layout) \in Nat /\ layout \in Layouts
         /\ got \in Nat /\ got <= Op(rop).size /\ Op(rop).size \in Nat /\ Op(rop).at \in Nat
         /\ Op(rop).kind # "bytes" => got = 0
         /\ Op(rop).kind = "end" <=> rop = Len(layout)
         /\ chunk \in BufSet
         /\ chunk.base \in Nat /\ chunk.len \in Nat /\ roff \in Nat /\ roff <= chunk.len
         /\ chunk.base + roff = Op(rop).at + got
         /\ chunk.base + chunk.len = inflated
         /\ inflated \in Nat /\ inflated <= StreamEnd
         /\ keysMatch /\ recv > 0
<1>1. ChunksInv /\ layout \in Layouts /\ DeserializeInv /\ MessagesInv
  BY DEF SInv, WInv
<1>2. /\ Op(rop).size \in Nat /\ Op(rop).at \in Nat /\ Len(layout) \in Nat
      /\ rop \in 1..Len(layout)
      /\ Op(rop).kind = "end" <=> rop = Len(layout)
  BY <1>1, LayoutFacts DEF ChunksInv
<1>3. chunk \in BufSet /\ chunk.base \in Nat /\ chunk.len \in Nat
  BY <1>1 DEF ChunksInv, BufSet
<1>4. keysMatch
  BY <1>1 DEF DeserializeInv, WrongKeyDeliversNothing
<1>5. inflated \in Nat /\ inflated <= StreamEnd
  <2>1. inflated \in Nat /\ StreamEnd \in Nat /\ Len(msgs) \in Nat /\ recv \in 0..Len(msgs)
    BY <1>1, WriterInside DEF SInv, DeserializeInv, MessagesInv, StreamEnd
  <2>2. CASE recv = 0
    BY <1>1, <1>4, <2>1, <2>2 DEF DeserializeInv, MsgEnd
  <2>3. CASE recv # 0
    <3>1. MsgEnd(recv) <= StreamEnd /\ MsgEnd(recv) \in Nat
      <4>1. recv \in 1..Len(msgs)
        BY <2>1, <2>3
      <4>2. PICK k \in 1..Len(msgs) : k = recv
        BY <4>1
      <4>3. msgs[k] \in MessageSet
        BY <1>1 DEF MessagesInv
      <4>4. msgs[k].content.base \in Nat /\ msgs[k].content.len \in Nat
        BY <4>3 DEF MessageSet, BufSet
      <4> QED
        BY <1>1, <4>1, <4>2, <4>4 DEF MessagesInv, MsgEnd
    <3>2. inflated <= MsgEnd(recv)
      BY <1>1, <1>4, <2>1, <3>1 DEF DeserializeInv
    <3> QED
      BY <2>1, <3>1, <3>2
  <2> QED
    BY <2>2, <2>3
<1> QED
  BY <1>1, <1>2, <1>3, <1>4, <1>5 DEF ChunksInv

\* Completing an operation leaves Read where the next one's bytes are.
LEMMA ChunkAdvances ==
  ASSUME SInv, Compressed, rst = "run", layout' = layout, rst' = "run", chunk' = chunk,
         UNCHANGED <<recv, inflating, inflated, msgs, zst>>,
         rop # Len(layout), rop' = rop + 1, got' = 0,
         roff' \in Nat, roff' <= chunk.len,
         chunk.base + roff' = Op(rop).at + Extent(Op(rop))
  PROVE  ChunksInv'
<1>1. rop \in 1..Len(layout) /\ Len(layout) \in Nat /\ layout \in Layouts
  BY ChunkFacts
<1>2. rop \in 1..(Len(layout) - 1) /\ rop + 1 \in 1..Len(layout)
  BY <1>1
<1>3. Op(rop + 1).at = Op(rop).at + Extent(Op(rop)) /\ Op(rop + 1).size \in Nat
      /\ Op(rop + 1).at \in Nat
  BY <1>1, <1>2, LayoutFacts
<1>4. Op(rop)' = Op(rop + 1)
  BY DEF Op
<1>5. chunk.base + roff' = Op(rop + 1).at + got' /\ got' \in 0..Op(rop + 1).size
  BY <1>3
<1>6. /\ chunk.base + chunk.len = inflated /\ chunk \in BufSet /\ roff' \in 0..chunk.len
      /\ recv' > 0
  BY ChunkFacts
<1> QED
  BY <1>1, <1>2, <1>4, <1>5, <1>6 DEF ChunksInv, ReaderStates, ResumedOnlyByEmptyTail

\* Read's steps on chunks that inflate cut.
LEMMA ReadChunk ==
  ASSUME SInv, Compressed, Read, UNCHANGED <<serializeVars, deserializeVars>>
  PROVE  ChunksInv'
<1>1. /\ recv' = recv /\ inflating' = inflating /\ inflated' = inflated
      /\ msgs' = msgs /\ zst' = zst
  BY DEF serializeVars, deserializeVars
<1>2. rst = "run" /\ layout' = layout /\ chunk' = chunk
  BY DEF Read, ReadPod, ReadReserve, ReadBytes, ReadBytesEnd, ReadReturn
<1>3. /\ rop \in 1..Len(layout) /\ Len(layout) \in Nat
      /\ got \in Nat /\ got <= Op(rop).size /\ Op(rop).size \in Nat /\ Op(rop).at \in Nat
      /\ Op(rop).kind # "bytes" => got = 0
      /\ Op(rop).kind = "end" <=> rop = Len(layout)
      /\ chunk \in BufSet
      /\ chunk.base \in Nat /\ chunk.len \in Nat /\ roff \in Nat /\ roff <= chunk.len
      /\ chunk.base + roff = Op(rop).at + got
      /\ chunk.base + chunk.len = inflated
      /\ inflated \in Nat /\ inflated <= StreamEnd /\ recv > 0
  BY <1>2, ChunkFacts
<1> DEFINE left == chunk.len - roff
           rest == Op(rop).size - got
<1>4. left \in Nat /\ roff + left = chunk.len /\ rest \in Nat /\ got + rest = Op(rop).size
  <2>1. chunk.len \in Nat /\ roff \in Nat /\ roff <= chunk.len
    BY <1>3
  <2>2. got \in Nat /\ Op(rop).size \in Nat /\ got <= Op(rop).size
    BY <1>3
  <2>3. left \in Nat /\ roff + left = chunk.len
    BY <2>1
  <2>4. rest \in Nat /\ got + rest = Op(rop).size
    BY <2>2
  <2> QED
    BY <2>3, <2>4
<1>5. inflated = Op(rop).at + got + left
  <2>1. chunk.base \in Nat /\ roff \in Nat /\ left \in Nat
    BY <1>3, <1>4
  <2>2. chunk.base + (roff + left) = (chunk.base + roff) + left
    BY <2>1
  <2>3. inflated = chunk.base + (roff + left) /\ chunk.base + roff = Op(rop).at + got
    BY <1>3, <1>4
  <2> QED
    BY <2>2, <2>3
<1> HIDE DEF left, rest
<1>6. CASE ReadReserve
  <2>1. Op(rop).kind = "reserve" /\ rop' = rop + 1 /\ rst' = "run" /\ got' = got /\ roff' = roff
    BY <1>2, <1>6 DEF ReadReserve
  <2>2. Extent(Op(rop)) = 0 /\ got' = 0 /\ rop # Len(layout)
    BY <1>3, <2>1 DEF Extent
  <2>3. chunk.base + roff' = Op(rop).at + Extent(Op(rop))
    BY <1>3, <2>1, <2>2
  <2> QED
    BY <1>1, <1>2, <1>3, <2>1, <2>2, <2>3, ChunkAdvances
<1>7. CASE ReadBytesEnd
  <2>1. /\ Op(rop).kind = "bytes" /\ got = Op(rop).size /\ got' = 0 /\ rop' = rop + 1
        /\ rst' = "run" /\ roff' = roff
    BY <1>2, <1>7 DEF ReadBytesEnd
  <2>2. Extent(Op(rop)) = got /\ rop # Len(layout)
    BY <1>3, <2>1 DEF Extent
  <2>3. chunk.base + roff' = Op(rop).at + Extent(Op(rop))
    BY <1>3, <2>1, <2>2
  <2> QED
    BY <1>1, <1>2, <1>3, <2>1, <2>2, <2>3, ChunkAdvances
<1>8. CASE ReadReturn
  <2>1. Op(rop).kind = "end" /\ rst' = "done" /\ rop' = rop /\ got' = got /\ roff' = roff
    BY <1>8 DEF ReadReturn
  <2>2. inflated = StreamEnd
    <3>1. StreamEnd = Op(rop).at /\ got = 0
      BY <1>3, <2>1 DEF StreamEnd
    <3> QED
      BY <1>3, <1>4, <1>5, <3>1
  <2>3. StreamEnd' = StreamEnd /\ Op(rop)' = Op(rop)
    BY <1>2, <2>1 DEF StreamEnd, Op
  <2> QED
    BY <1>1, <1>2, <1>3, <2>1, <2>2, <2>3 DEF ChunksInv, ReaderStates, ResumedOnlyByEmptyTail
<1>9. CASE ReadPod
  <2>1. Op(rop).kind = "pod"
    BY <1>9 DEF ReadPod
  <2>2. got = 0 /\ rop # Len(layout) /\ Extent(Op(rop)) = Op(rop).size
    BY <1>3, <2>1 DEF Extent
  <2>3. CASE Op(rop).size <= left /\ roff' = roff + Op(rop).size /\ rop' = rop + 1
             /\ rst' = rst /\ got' = got
    <3>1. roff' \in Nat /\ roff' <= chunk.len
      <4>1. roff \in Nat /\ left \in Nat /\ Op(rop).size \in Nat /\ roff + left = chunk.len
        BY <1>3, <1>4
      <4>2. roff + Op(rop).size \in Nat /\ roff + Op(rop).size <= roff + left
        BY <2>3, <4>1
      <4> QED
        BY <2>3, <4>1, <4>2
    <3>2. chunk.base + roff' = Op(rop).at + Extent(Op(rop))
      <4>1. chunk.base + (roff + Op(rop).size) = (chunk.base + roff) + Op(rop).size
        BY <1>3
      <4> QED
        BY <1>3, <2>2, <2>3, <4>1
    <3> QED
      BY <1>1, <1>2, <2>2, <2>3, <3>1, <3>2, ChunkAdvances
  <2>4. CASE Op(rop).size > left /\ got' = left /\ rst' = "wait" /\ rop' = rop /\ roff' = roff
    <3>1. Op(rop)' = Op(rop)
      BY <1>2, <2>4 DEF Op
    <3>2. got' \in 0..Op(rop).size /\ got' < Op(rop).size /\ inflated = Op(rop).at + got'
      BY <1>3, <1>4, <1>5, <2>2, <2>4
    <3> QED
      BY <1>1, <1>2, <1>3, <2>1, <2>4, <3>1, <3>2
         DEF ChunksInv, ReaderStates, ResumedOnlyByEmptyTail
  <2> QED
    BY <1>9, <2>3, <2>4 DEF ReadPod, left
<1>10. CASE ReadBytes
  <2>1. /\ Op(rop).kind = "bytes" /\ rest > 0 /\ rop' = rop
        /\ \/ chunk.len = roff /\ rst' = "wait" /\ got' = got /\ roff' = roff
           \/ got' = got + MinOf(rest, left) /\ roff' = roff + MinOf(rest, left) /\ rst' = rst
    BY <1>10 DEF ReadBytes, rest, left
  <2>2. Op(rop)' = Op(rop)
    BY <1>2, <2>1 DEF Op
  <2>3. CASE chunk.len = roff /\ rst' = "wait" /\ got' = got /\ roff' = roff
    <3>1. got \in 0..Op(rop).size /\ got < Op(rop).size /\ inflated = Op(rop).at + got
      BY <1>3, <1>4, <2>1, <2>3
    <3> QED
      BY <1>1, <1>2, <1>3, <2>1, <2>2, <2>3, <3>1
         DEF ChunksInv, ReaderStates, ResumedOnlyByEmptyTail
  <2>4. CASE got' = got + MinOf(rest, left) /\ roff' = roff + MinOf(rest, left) /\ rst' = rst
    <3>1. PICK n \in Nat : n = MinOf(rest, left) /\ n <= rest /\ n <= left
      <4>1. MinOf(rest, left) \in Nat /\ MinOf(rest, left) <= rest /\ MinOf(rest, left) <= left
        BY <1>4, MinOfFacts, Zenon
      <4> QED
        BY <4>1
    <3>2. got' \in 0..Op(rop).size
      <4>1. got \in Nat /\ Op(rop).size \in Nat /\ rest \in Nat /\ got + rest = Op(rop).size
        BY <1>3, <1>4
      <4>2. got + n \in 0..(got + rest)
        BY <3>1, <4>1
      <4> QED
        BY <2>4, <3>1, <4>1, <4>2
    <3>3. roff' \in 0..chunk.len
      <4>1. roff \in Nat /\ left \in Nat /\ roff + left = chunk.len
        BY <1>3, <1>4
      <4>2. roff + n \in 0..(roff + left)
        BY <3>1, <4>1
      <4> QED
        BY <2>4, <3>1, <4>1, <4>2
    <3>4. chunk.base + roff' = Op(rop).at + got'
      <4>1. chunk.base + (roff + n) = (chunk.base + roff) + n
        BY <1>3, <3>1
      <4>2. Op(rop).at + (got + n) = (Op(rop).at + got) + n
        BY <1>3, <3>1
      <4> QED
        BY <1>3, <2>4, <3>1, <4>1, <4>2
    <3> QED
      BY <1>1, <1>2, <1>3, <2>1, <2>2, <2>4, <3>2, <3>3, <3>4
         DEF ChunksInv, ReaderStates, ResumedOnlyByEmptyTail
  <2> QED
    BY <2>1, <2>3, <2>4
<1> QED
  BY <1>6, <1>7, <1>8, <1>9, <1>10 DEF Read
-----------------------------------------------------------------------------
\* A step of Read, whatever hands it the chunks.
LEMMA ReadKeeps ==
  SInv /\ Read /\ UNCHANGED <<serializeVars, deserializeVars>> => SInv'
<1> SUFFICES ASSUME SInv, Read, UNCHANGED <<serializeVars, deserializeVars>> PROVE SInv'
  OBVIOUS
<1>1. rst = "run" /\ UNCHANGED <<layout, writerVars, fed>>
  BY DEF Read, ReadPod, ReadReserve, ReadBytes, ReadBytesEnd, ReadReturn
<1>2. WInv' /\ SourceInv' /\ MessagesInv' /\ DeserializeInv'
  BY <1>1, ReadKeepsDeserialize
<1>3. Compressed' = Compressed
  BY DEF Compressed, serializeVars
<1>4. (~Compressed => ReaderInv)'
  <2> SUFFICES ASSUME ~Compressed PROVE ReaderInv'
    BY <1>3
  <2>1. IInv
    BY DEF SInv, IInv
  <2>2. IInv'
    BY <2>1, ReadPodStep, ReadReserveStep, ReadBytesStep, ReadBytesEndStep, ReadReturnStep
       DEF Read
  <2> QED
    BY <2>2 DEF IInv
<1>5. (Compressed => ChunksInv)'
  BY <1>3, ReadChunk
<1> QED
  BY <1>2, <1>4, <1>5 DEF SInv

\* Without compression, a message that is taken is the writer's next buffer,
\* and taking it is the direct coupling's step.
LEMMA ReceiveIsSinkNext ==
  ASSUME SInv, ~Compressed, result = "running", recv < Len(msgs), keysMatch,
         Sink(msgs[recv + 1].content), fed' = fed + 1, UNCHANGED <<layout, writerVars>>
  PROVE  SinkNext
<1>1. fed = recv /\ recv \in Nat /\ Len(msgs) \in Nat
  BY DEF SInv, DeserializeInv, MessagesInv
<1>2. Len(msgs) = taken /\ taken <= Len(bufs) /\ taken \in Nat /\ Len(bufs) \in Nat
  BY SourceFacts DEF SInv, MessagesInv
<1>3. recv + 1 \in 1..Len(msgs)
  BY <1>1
<1>4. msgs[recv + 1].content = bufs[fed + 1]
  BY <1>1, <1>3 DEF SInv, MessagesInv
<1>5. fed < Len(bufs)
  BY <1>1, <1>2
<1> QED
  BY <1>4, <1>5 DEF SinkNext

\* The next message.
LEMMA ReceiveStep == SInv /\ Receive => SInv'
<1> SUFFICES ASSUME SInv, Receive PROVE SInv'
  OBVIOUS
<1>1. WInv /\ SourceInv /\ MessagesInv /\ DeserializeInv
  BY DEF SInv
<1>2. /\ result = "running" /\ SinkReturned /\ ~inflating /\ recv < Len(msgs)
      /\ recv' = recv + 1 /\ UNCHANGED <<layout, writerVars, serializeVars>>
      /\ layout' = layout /\ msgs' = msgs /\ zst' = zst /\ method' = method
      /\ keysMatch' = keysMatch /\ bufs' = bufs
  BY DEF Receive, serializeVars, writerVars
<1>3. WInv' /\ SourceInv' /\ MessagesInv'
  BY <1>2, ReadKeepsSource
<1>4. Compressed' = Compressed /\ Encrypted' = Encrypted
  BY <1>2 DEF Compressed, Encrypted
<1>5. recv \in Nat /\ recv' \in 1..Len(msgs) /\ recv + 1 \in 1..Len(msgs) /\ inflated \in Nat
  BY <1>1, <1>2 DEF DeserializeInv, MessagesInv
<1>6. CASE /\ Encrypted /\ ~keysMatch /\ result' = "false"
           /\ UNCHANGED <<fed, inflating, inflated, readerVars>>
  <2>1. /\ rst' = rst /\ rop' = rop /\ got' = got /\ chunk' = chunk /\ roff' = roff
        /\ fed' = fed /\ inflating' = inflating /\ inflated' = inflated
    BY <1>6 DEF readerVars
  <2>2. rst = "start"
    BY <1>1, <1>6 DEF DeserializeInv, WrongKeyDeliversNothing
  <2>3. DeserializeInv'
    BY <1>1, <1>2, <1>4, <1>5, <1>6, <2>1, <2>2
       DEF DeserializeInv, WrongKeyDeliversNothing, AcceptedIsWhole, LastReceived
  <2>4. (~Compressed => ReaderInv)'
    BY <1>2, <1>4, <2>1 DEF SInv, ReaderInv, BufEnd, Op
  <2>5. (Compressed => ChunksInv)'
    <3>1. ResumedOnlyByEmptyTail'
      BY <2>1, <2>2 DEF ResumedOnlyByEmptyTail
    <3> QED
      BY <1>2, <1>4, <2>1, <2>2, <3>1 DEF SInv, ChunksInv, Op, StreamEnd, CutFits, TailFits
  <2> QED
    BY <1>3, <2>3, <2>4, <2>5 DEF SInv
<1>7. CASE /\ Encrypted => keysMatch
           /\ Compressed /\ inflating' = TRUE
           /\ UNCHANGED <<fed, inflated, result, readerVars>>
  <2>1. /\ rst' = rst /\ rop' = rop /\ got' = got /\ chunk' = chunk /\ roff' = roff
        /\ fed' = fed /\ result' = result /\ inflated' = inflated
    BY <1>7 DEF readerVars
  <2>2. keysMatch
    BY <1>1, <1>7 DEF SourceInv
  <2>3. inflated = MsgEnd(recv)
    BY <1>1, <1>2, <1>7, <2>2 DEF DeserializeInv
  <2>4. /\ msgs[recv + 1].content.base = inflated
        /\ MsgEnd(recv + 1) = inflated + msgs[recv + 1].content.len
        /\ msgs[recv + 1].content.len \in Nat
    <3>1. PICK k \in 1..Len(msgs) : k = recv + 1
      BY <1>5
    <3>2. k - 1 = recv
      BY <1>5, <3>1
    <3>3. MsgEnd(k - 1) = MsgEnd(recv)
      BY <3>2
    <3> QED
      BY <1>1, <2>3, <3>1, <3>3, MsgPlace
  <2>5. MsgEnd(recv)' = MsgEnd(recv + 1)
    BY <1>2, <1>5 DEF MsgEnd
  <2>6. DeserializeInv'
    <3>1. WrongKeyDeliversNothing' /\ AcceptedIsWhole'
      BY <1>2, <2>1, <2>2 DEF WrongKeyDeliversNothing, AcceptedIsWhole, LastReceived
    <3>2. (msgs[recv].content.base)' = inflated
      BY <1>2, <2>4
    <3>3. inflated <= MsgEnd(recv)'
      BY <1>5, <2>4, <2>5
    <3> QED
      BY <1>1, <1>2, <1>4, <1>5, <1>7, <2>1, <2>2, <3>1, <3>2, <3>3 DEF DeserializeInv
  <2>7. ChunksInv'
    <3>1. ResumedOnlyByEmptyTail'
      BY <1>2, <2>1 DEF ResumedOnlyByEmptyTail, SinkReturned
    <3>2. recv' > 0
      BY <1>2, <1>5
    <3> QED
      BY <1>2, <1>7, <2>1, <3>1, <3>2 DEF SInv, ChunksInv, Op, StreamEnd, CutFits, TailFits
  <2> QED
    BY <1>3, <1>4, <1>7, <2>6, <2>7 DEF SInv
<1>8. CASE /\ Encrypted => keysMatch
           /\ ~Compressed /\ Sink(msgs[recv + 1].content) /\ fed' = fed + 1
           /\ UNCHANGED <<inflating, inflated, result>>
  <2>1. keysMatch
    BY <1>1, <1>8 DEF SourceInv
  <2>2. SinkNext
    BY <1>2, <1>8, <2>1, ReceiveIsSinkNext
  <2>3. IInv'
    <3>1. IInv
      BY <1>8 DEF SInv, IInv
    <3> QED
      BY <2>2, <3>1, SinkNextStep
  <2>4. DeserializeInv'
    <3>1. WrongKeyDeliversNothing' /\ AcceptedIsWhole'
      BY <1>2, <1>8, <2>1 DEF WrongKeyDeliversNothing, AcceptedIsWhole, LastReceived
    <3>2. fed' = recv'
      BY <1>1, <1>2, <1>8, <2>1 DEF DeserializeInv
    <3> QED
      BY <1>1, <1>2, <1>4, <1>5, <1>8, <2>1, <3>1, <3>2 DEF DeserializeInv
  <2> QED
    BY <1>3, <1>4, <1>8, <2>3, <2>4 DEF SInv, IInv
<1> QED
  BY <1>6, <1>7, <1>8 DEF Receive
-----------------------------------------------------------------------------
\* What a turn of the loop over a compressed body has to do with.
LEMMA InflateFacts ==
  ASSUME SInv, inflating
  PROVE  LET c == msgs[recv].content
             n == MinOf(MAX_MESSAGE_BODY_LENGTH, c.base + c.len - inflated)
         IN
         /\ Compressed /\ keysMatch /\ recv \in 1..Len(msgs) /\ inflated \in Nat
         /\ c.base \in Nat /\ c.len \in Nat /\ MsgEnd(recv) = c.base + c.len
         /\ c.base <= inflated /\ inflated <= MsgEnd(recv) /\ MsgEnd(recv) <= StreamEnd
         /\ StreamEnd \in Nat
         /\ inflated = MsgEnd(recv) => c.len = 0
         /\ n \in Nat /\ inflated + n <= MsgEnd(recv)
         /\ c.last => zst = "end" /\ recv = Len(msgs)
         /\ c.len = 0 => c.last
         /\ CutFits => inflated = c.base /\ n = c.len /\ (c.last \/ n >= MinCarry)
         /\ CutFits /\ c.last => inflated + n = StreamEnd
         /\ MaxCarry <= MAX_MESSAGE_BODY_LENGTH => inflated + n = MsgEnd(recv)
<1>1. MessagesInv /\ DeserializeInv /\ SourceInv /\ WInv
  BY DEF SInv
<1>2. /\ Compressed /\ keysMatch /\ recv \in 1..Len(msgs) /\ inflated \in Nat
      /\ msgs[recv].content.base <= inflated /\ inflated <= MsgEnd(recv)
      /\ inflated = MsgEnd(recv) => inflated = msgs[recv].content.base
      /\ MaxCarry <= MAX_MESSAGE_BODY_LENGTH => inflated = msgs[recv].content.base
  BY <1>1 DEF DeserializeInv, MessagesInv
<1>3. PICK c \in BufSet : c = msgs[recv].content
  <2>1. PICK k \in 1..Len(msgs) : k = recv
    BY <1>2
  <2> QED
    BY <1>1, <2>1, MsgPlace
<1>4. /\ c.base \in Nat /\ c.len \in Nat /\ MsgEnd(recv) = c.base + c.len
      /\ MsgEnd(recv) <= StreamEnd /\ StreamEnd \in Nat
  <2>1. PICK k \in 1..Len(msgs) : k = recv
    BY <1>2
  <2> QED
    BY <1>1, <1>3, <2>1, MsgPlace, WriterInside DEF StreamEnd
<1> DEFINE room == c.base + c.len - inflated
           n == MinOf(MAX_MESSAGE_BODY_LENGTH, room)
<1>5. room \in Nat /\ inflated + room = MsgEnd(recv) /\ MAX_MESSAGE_BODY_LENGTH \in Nat
  BY <1>2, <1>3, <1>4, MaxLengthAssumption
<1> HIDE DEF room
<1>6. n \in Nat /\ inflated + n <= MsgEnd(recv)
  BY <1>2, <1>5 DEF MinOf
<1>7. inflated = MsgEnd(recv) => c.len = 0
  BY <1>2, <1>3, <1>4
<1>8. /\ c.last => recv = Len(msgs)
      /\ c.len <= MaxCarry /\ (c.last \/ c.len >= MinCarry)
      /\ c.last => zst = "end"
  <2>1. c.last => recv = Len(msgs)
    BY <1>1, <1>2, <1>3 DEF MessagesInv, MessagesCarryStream
  <2>2. c.len <= MaxCarry /\ (c.last \/ c.len >= MinCarry)
    BY <1>1, <1>2, <1>3 DEF MessagesInv
  <2>3. c.last => zst = "end"
    BY <1>1, <1>2, <1>3, <2>1 DEF MessagesInv
  <2> QED
    BY <2>1, <2>2, <2>3
<1>9. c.len = 0 => c.last
  BY <1>8, DeflateAssumption
<1>10. MaxCarry <= MAX_MESSAGE_BODY_LENGTH => inflated = c.base /\ n = c.len
  <2> SUFFICES ASSUME MaxCarry <= MAX_MESSAGE_BODY_LENGTH PROVE inflated = c.base /\ n = c.len
    OBVIOUS
  <2>1. inflated = c.base
    BY <1>2, <1>3
  <2>2. room = c.len
    BY <1>4, <1>5, <2>1
  <2>3. c.len <= MAX_MESSAGE_BODY_LENGTH
    BY <1>4, <1>5, <1>8, DeflateAssumption
  <2> QED
    BY <1>4, <1>5, <2>1, <2>2, <2>3 DEF MinOf
<1>11. CutFits /\ c.last => inflated + n = StreamEnd
  <2> SUFFICES ASSUME CutFits, c.last PROVE inflated + n = StreamEnd
    OBVIOUS
  <2>1. zup = StreamEnd /\ recv = Len(msgs) /\ MsgEnd(Len(msgs)) = zup
    BY <1>1, <1>2, <1>8 DEF SourceInv, MessagesInv, CutFits
  <2> QED
    BY <1>4, <1>10, <2>1 DEF CutFits
<1> QED
  BY <1>2, <1>3, <1>4, <1>6, <1>7, <1>8, <1>9, <1>10, <1>11 DEF CutFits, room

\* A turn of the loop over a compressed body.
LEMMA InflateStep == SInv /\ Inflate => SInv'
<1> SUFFICES ASSUME SInv, Inflate PROVE SInv'
  OBVIOUS
<1>1. WInv /\ SourceInv /\ MessagesInv /\ DeserializeInv
  BY DEF SInv
<1> DEFINE content == msgs[recv].content
           upTo == content.base + content.len
           n == MinOf(MAX_MESSAGE_BODY_LENGTH, upTo - inflated)
           c == Buf(inflated, n, content.last /\ inflated + n = upTo)
<1>2. /\ result = "running" /\ SinkReturned /\ inflating /\ Sink(c)
      /\ inflated' = inflated + n /\ inflating' = (inflated + n # upTo)
      /\ recv' = recv /\ result' = result
      /\ UNCHANGED <<layout, writerVars, serializeVars>> /\ fed' = fed
      /\ layout' = layout /\ msgs' = msgs /\ zst' = zst /\ method' = method
      /\ keysMatch' = keysMatch /\ bufs' = bufs
  BY DEF Inflate, pipeVars, serializeVars, writerVars
<1>3. /\ Compressed /\ keysMatch /\ recv \in 1..Len(msgs) /\ inflated \in Nat
      /\ content.base \in Nat /\ content.len \in Nat /\ MsgEnd(recv) = upTo
      /\ content.base <= inflated /\ inflated <= upTo /\ upTo <= StreamEnd
      /\ StreamEnd \in Nat
      /\ inflated = upTo => content.len = 0
      /\ n \in Nat /\ inflated + n <= upTo
      /\ content.last => zst = "end" /\ recv = Len(msgs)
      /\ content.len = 0 => content.last
      /\ CutFits => inflated = content.base /\ n = content.len
                    /\ (content.last \/ n >= MinCarry)
      /\ CutFits /\ content.last => inflated + n = StreamEnd
      /\ MaxCarry <= MAX_MESSAGE_BODY_LENGTH => inflated + n = upTo
  <2>1. MsgEnd(recv) = upTo
    BY <1>2, InflateFacts
  <2> HIDE DEF c
  <2>2. /\ Compressed /\ keysMatch /\ recv \in 1..Len(msgs) /\ inflated \in Nat
        /\ content.base \in Nat /\ content.len \in Nat
        /\ content.base <= inflated /\ inflated <= MsgEnd(recv) /\ MsgEnd(recv) <= StreamEnd
        /\ StreamEnd \in Nat
        /\ inflated = MsgEnd(recv) => content.len = 0
        /\ n \in Nat
    BY <1>2, InflateFacts
  <2>5. inflated + n <= MsgEnd(recv)
    BY <1>2, InflateFacts
  <2>3. /\ content.last => zst = "end" /\ recv = Len(msgs)
        /\ content.len = 0 => content.last
    BY <1>2, InflateFacts
  <2>4. /\ CutFits => inflated = content.base /\ n = content.len
                       /\ (content.last \/ n >= MinCarry)
        /\ CutFits /\ content.last => inflated + n = StreamEnd
        /\ MaxCarry <= MAX_MESSAGE_BODY_LENGTH => inflated + n = MsgEnd(recv)
    BY <1>2, InflateFacts
  <2> HIDE DEF content, upTo, n
  <2> QED
    BY <2>1, <2>2, <2>3, <2>4, <2>5
<1>4. /\ c \in BufSet /\ c.base = inflated /\ c.len = n
  BY <1>3 DEF Buf, BufSet
<1> HIDE DEF c, n, upTo, content
<1>5. WInv' /\ SourceInv' /\ MessagesInv'
  BY <1>2, ReadKeepsSource
<1>6. Compressed' = Compressed /\ StreamEnd' = StreamEnd /\ MsgEnd(recv)' = upTo
  BY <1>2, <1>3 DEF Compressed, StreamEnd, Op, MsgEnd
<1>7. upTo \in Nat /\ inflated' \in Nat /\ inflated' <= upTo /\ content.base <= inflated'
  <2>1. upTo \in Nat
    BY <1>3 DEF upTo
  <2> QED
    BY <1>2, <1>3, <2>1
<1>8. DeserializeInv'
  <2>1. WrongKeyDeliversNothing' /\ AcceptedIsWhole'
    BY <1>2, <1>3 DEF WrongKeyDeliversNothing, AcceptedIsWhole, LastReceived
  <2>2. inflating' \in BOOLEAN /\ (~inflating' => inflated' = upTo)
        /\ (inflating' => inflated' # upTo)
    BY <1>2
  <2>3. (msgs[recv].content.base)' = content.base
    BY <1>2 DEF content
  <2>4. MaxCarry <= MAX_MESSAGE_BODY_LENGTH => inflated' = upTo
    BY <1>2, <1>3
  <2> QED
    BY <1>1, <1>2, <1>3, <1>6, <1>7, <2>1, <2>2, <2>3, <2>4 DEF DeserializeInv
<1>9. ChunksInv
  BY <1>3 DEF SInv
<1>10. /\ rop \in 1..Len(layout) /\ Len(layout) \in Nat /\ layout \in Layouts
       /\ got \in 0..Op(rop).size /\ Op(rop).size \in Nat /\ Op(rop).at \in Nat
       /\ chunk \in BufSet /\ roff \in 0..chunk.len
       /\ Op(rop).kind = "end" <=> rop = Len(layout)
  BY <1>1, <1>9, LayoutFacts DEF ChunksInv, WInv
<1> DEFINE rest == Op(rop).size - got
<1>11. rest \in Nat /\ got + rest = Op(rop).size
  BY <1>10
<1>12. \/ /\ rst = "start" \/ (rst = "wait" /\ Op(rop).kind = "bytes")
          /\ chunk' = c /\ roff' = 0 /\ rst' = "run" /\ rop' = rop /\ got' = got
       \/ /\ rst = "wait" /\ Op(rop).kind = "pod" /\ rest <= n
          /\ chunk' = c /\ roff' = rest /\ got' = 0 /\ rop' = rop + 1 /\ rst' = "run"
       \/ /\ rst = "wait" /\ Op(rop).kind = "pod" /\ rest > n
          /\ rst' = "overread" /\ UNCHANGED <<rop, got, chunk, roff>>
       \/ /\ rst = "done"
          /\ rst' = "resumed" /\ UNCHANGED <<rop, got, chunk, roff>>
  BY <1>2, <1>4 DEF Sink
<1> HIDE DEF rest
<1>13. recv' > 0
  BY <1>2, <1>3
<1>14. CASE /\ rst = "start" \/ (rst = "wait" /\ Op(rop).kind = "bytes")
            /\ chunk' = c /\ roff' = 0 /\ rst' = "run" /\ rop' = rop /\ got' = got
  <2>1. Op(rop)' = Op(rop)
    BY <1>2, <1>14 DEF Op
  <2>2. inflated = Op(rop).at + got /\ (Op(rop).kind # "bytes" => got = 0)
    <3>1. CASE rst = "start"
      <4>1. rop = 1 /\ got = 0 /\ inflated = 0
        BY <1>9, <3>1 DEF ChunksInv
      <4>2. Op(1).at = 0
        BY <1>10, LayoutFacts
      <4> QED
        BY <4>1, <4>2
    <3>2. CASE rst = "wait"
      BY <1>9, <1>14, <3>2 DEF ChunksInv
    <3> QED
      BY <1>14, <3>1, <3>2
  <2>3. c.base + 0 = Op(rop).at + got /\ c.base + c.len = inflated' /\ 0 \in 0..c.len
    BY <1>2, <1>3, <1>4, <2>2
  <2> QED
    <3>1. ChunksInv'
      BY <1>2, <1>13, <1>4, <1>10, <1>14, <2>1, <2>2, <2>3
         DEF ChunksInv, ReaderStates, ResumedOnlyByEmptyTail
    <3> QED
      BY <1>3, <1>5, <1>6, <1>8, <3>1 DEF SInv
<1>15. CASE /\ rst = "wait" /\ Op(rop).kind = "pod" /\ rest <= n
            /\ chunk' = c /\ roff' = rest /\ got' = 0 /\ rop' = rop + 1 /\ rst' = "run"
  <2>1. rop \in 1..(Len(layout) - 1) /\ rop + 1 \in 1..Len(layout)
    BY <1>10, <1>15
  <2>2. Op(rop + 1).at = Op(rop).at + Op(rop).size /\ Op(rop + 1).size \in Nat
        /\ Op(rop + 1).at \in Nat
    BY <1>10, <1>15, <2>1, LayoutFacts DEF Extent
  <2>3. Op(rop)' = Op(rop + 1)
    BY <1>2, <1>15 DEF Op
  <2>4. c.base + rest = Op(rop + 1).at + 0
    <3>1. inflated = Op(rop).at + got
      BY <1>9, <1>15 DEF ChunksInv
    <3>2. got \in Nat /\ (Op(rop).at + got) + rest = Op(rop).at + (got + rest)
      BY <1>10, <1>11
    <3> QED
      BY <1>4, <1>11, <2>2, <3>1, <3>2
  <2>5. rest \in 0..c.len /\ 0 \in 0..Op(rop + 1).size /\ c.base + c.len = inflated'
    BY <1>2, <1>3, <1>4, <1>11, <1>15, <2>2
  <2> QED
    <3>1. ChunksInv'
      BY <1>2, <1>13, <1>4, <1>15, <2>1, <2>3, <2>4, <2>5
         DEF ChunksInv, ReaderStates, ResumedOnlyByEmptyTail
    <3> QED
      BY <1>3, <1>5, <1>6, <1>8, <3>1 DEF SInv
<1>16. CASE /\ rst = "wait" /\ Op(rop).kind = "pod" /\ rest > n
            /\ rst' = "overread" /\ UNCHANGED <<rop, got, chunk, roff>>
  <2>1. ~CutFits
    <3> SUFFICES ASSUME CutFits PROVE FALSE
      OBVIOUS
    <3>1. Op(rop).size <= MinCarry /\ MinCarry \in Nat
      BY <1>10, <1>16, DeflateAssumption DEF CutFits, Op
    <3>2. rest <= Op(rop).size
      BY <1>10, <1>11
    <3>3. content.last
      BY <1>3, <1>10, <1>11, <1>16, <3>1, <3>2
    <3>4. inflated + n = StreamEnd /\ inflated = Op(rop).at + got
      BY <1>3, <1>9, <1>16, <3>3 DEF ChunksInv
    <3>5. Op(rop).at + Op(rop).size <= StreamEnd
      BY <1>10, <1>16, LayoutFacts DEF Extent, StreamEnd
    <3>6. got \in Nat /\ n \in Nat
      BY <1>3, <1>10
    <3> QED
      BY <1>10, <1>11, <1>16, <3>4, <3>5, <3>6
  <2>2. Op(rop)' = Op(rop) /\ CutFits' = CutFits
    BY <1>2, <1>16 DEF Op, CutFits, TailFits
  <2> QED
    <3>1. ChunksInv'
      BY <1>2, <1>13, <1>10, <1>16, <2>1, <2>2 DEF ChunksInv, ReaderStates, ResumedOnlyByEmptyTail
    <3> QED
      BY <1>3, <1>5, <1>6, <1>8, <3>1 DEF SInv
<1>17. CASE rst = "done" /\ rst' = "resumed" /\ UNCHANGED <<rop, got, chunk, roff>>
  <2>1. inflated = StreamEnd
    BY <1>9, <1>17 DEF ChunksInv
  <2>2. content.len = 0 /\ zst = "end" /\ recv = Len(msgs)
    BY <1>3, <1>7, <2>1
  <2>3. ResumedOnlyByEmptyTail'
    BY <1>2, <2>2 DEF ResumedOnlyByEmptyTail, content
  <2>4. Op(rop)' = Op(rop)
    BY <1>2, <1>17 DEF Op
  <2> QED
    <3>1. ChunksInv'
      BY <1>2, <1>13, <1>10, <1>17, <2>3, <2>4 DEF ChunksInv, ReaderStates
    <3> QED
      BY <1>3, <1>5, <1>6, <1>8, <3>1 DEF SInv
<1> QED
  BY <1>12, <1>14, <1>15, <1>16, <1>17

\* The whole object was read when the message marked last was taken and nothing
\* of it is left to inflate.
LEMMA WholeAtEnd ==
  ASSUME SInv, ~Compressed \/ TailFits, result = "running", SinkReturned, ~inflating,
         LastReceived
  PROVE  rst = "done"
<1>1. WInv /\ SourceInv /\ MessagesInv /\ DeserializeInv
  BY DEF SInv
<1>2. Len(msgs) \in 1..Len(msgs) /\ Len(msgs) \in Nat /\ msgs[Len(msgs)].messageSequenceId < 0
      /\ recv = Len(msgs)
  <2>1. Len(msgs) \in Nat /\ recv \in 1..Len(msgs) /\ msgs[recv].messageSequenceId < 0
    BY <1>1 DEF LastReceived, MessagesInv, DeserializeInv
  <2>2. msgs[recv].messageSequenceId = IF msgs[recv].content.last THEN -recv ELSE recv
    BY <1>1, <2>1 DEF MessagesInv, MessagesCarryStream
  <2>3. msgs[recv].content.last
    BY <2>1, <2>2
  <2>4. recv = Len(msgs)
    BY <1>1, <2>1, <2>3 DEF MessagesInv, MessagesCarryStream
  <2> QED
    BY <2>1, <2>4
<1>3. keysMatch /\ recv > 0
  BY <1>1, <1>2 DEF DeserializeInv
<1>4. msgs[Len(msgs)].content.last /\ wst = "done" /\ taken = Len(bufs)
  <2>1. msgs[Len(msgs)].messageSequenceId =
          IF msgs[Len(msgs)].content.last THEN -Len(msgs) ELSE Len(msgs)
    BY <1>1, <1>2 DEF MessagesInv, MessagesCarryStream
  <2>2. msgs[Len(msgs)].content.last
    BY <1>2, <2>1
  <2> QED
    BY <1>1, <1>2, <2>2 DEF MessagesInv, MessagesCarryStream
<1>5. TakenEnd = StreamEnd /\ taken > 0 /\ StreamEnd \in Nat
  BY <1>1, <1>4, SourceFacts
<1>6. ASSUME NEW at \in Nat, rop \in 1..Len(layout), rst = "wait",
             Op(rop).kind \in {"pod", "bytes"}, got < Op(rop).size, got \in 0..Op(rop).size,
             at = StreamEnd, at = Op(rop).at + got
      PROVE  FALSE
  <2>1. layout \in Layouts /\ Len(layout) \in Nat /\ Op(rop).at \in Nat /\ Op(rop).size \in Nat
        /\ rop # Len(layout)
    BY <1>1, <1>6, LayoutFacts DEF WInv
  <2>2. Op(rop).at + Op(rop).size <= StreamEnd
    <3>1. PICK i \in 1..Len(layout) : i = rop
      BY <1>6
    <3>2. Op(i).at + Extent(Op(i)) <= Op(Len(layout)).at
      BY <2>1, <3>1, LayoutFacts
    <3>3. Extent(Op(i)) = Op(i).size
      BY <1>6, <3>1 DEF Extent
    <3> QED
      BY <3>1, <3>2, <3>3 DEF StreamEnd
  <2>3. got \in Nat
    BY <1>6, <2>1
  <2> QED
    BY <1>5, <1>6, <2>1, <2>2, <2>3
<1>7. CASE ~Compressed
  <2>1. ReaderInv /\ fed = recv /\ Len(msgs) = taken
    BY <1>1, <1>3, <1>7 DEF SInv, DeserializeInv, MessagesInv
  <2>2. fed = taken /\ fed > 0 /\ BufEnd(fed) = StreamEnd
    BY <1>2, <1>3, <1>5, <2>1 DEF TakenEnd
  <2>3. rst # "start"
    BY <2>1, <2>2 DEF ReaderInv
  <2>4. rst # "wait"
    BY <1>5, <1>6, <2>1, <2>2 DEF ReaderInv
  <2> QED
    BY <2>3, <2>4 DEF SinkReturned
<1>8. CASE Compressed
  <2>1. TailFits /\ zst = "end" /\ zup = StreamEnd /\ inflated = zup /\ ChunksInv
    BY <1>1, <1>2, <1>3, <1>4, <1>8 DEF SInv, SourceInv, MessagesInv, DeserializeInv
  <2>2. rst # "start"
    <3>1. StreamEnd > 0
      <4>1. PICK k \in 1..Len(bufs) : k = taken
        BY <1>1, <1>5, SourceFacts
      <4>2. BufEnd(k) = StreamEnd /\ bufs[k].len > 0 /\ bufs[k].len \in Nat /\ bufs[k].base \in Nat
        <5>1. TakenEnd = BufEnd(taken)
          BY <1>5 DEF TakenEnd
        <5> QED
          BY <1>1, <1>5, <4>1, <5>1, BufPlace
      <4> QED
        BY <4>2 DEF BufEnd
    <3> QED
      BY <2>1, <3>1 DEF ChunksInv
  <2>3. rst # "wait"
    BY <1>5, <1>6, <2>1 DEF ChunksInv
  <2> QED
    BY <2>2, <2>3 DEF SinkReturned
<1> QED
  BY <1>7, <1>8

\* Deserialize returns true.
LEMMA ReturnTrueStep == SInv /\ ReturnTrue => SInv'
<1> SUFFICES ASSUME SInv, ReturnTrue PROVE SInv'
  OBVIOUS
<1>1. WInv /\ SourceInv /\ MessagesInv /\ DeserializeInv
  BY DEF SInv
<1>2. /\ result = "running" /\ SinkReturned /\ ~inflating /\ recv > 0
      /\ result' = "true" /\ recv' = recv /\ inflating' = inflating /\ inflated' = inflated
      /\ UNCHANGED <<layout, writerVars, serializeVars>> /\ fed' = fed
      /\ layout' = layout /\ msgs' = msgs /\ zst' = zst /\ method' = method
      /\ keysMatch' = keysMatch /\ bufs' = bufs
      /\ rst' = rst /\ rop' = rop /\ got' = got /\ chunk' = chunk /\ roff' = roff
  BY DEF ReturnTrue, SourceEnded, pipeVars, serializeVars, writerVars, readerVars
<1>3. WInv' /\ SourceInv' /\ MessagesInv'
  BY <1>2, ReadKeepsSource
<1>4. Compressed' = Compressed /\ MsgEnd(recv)' = MsgEnd(recv)
  BY <1>2 DEF Compressed, MsgEnd
<1>5. keysMatch
  BY <1>1, <1>2 DEF DeserializeInv
<1>6. DeserializeInv'
  <2>1. WrongKeyDeliversNothing'
    BY <1>2, <1>5 DEF WrongKeyDeliversNothing
  <2>2. (~Compressed \/ TailFits) => AcceptedIsWhole'
    BY <1>2, WholeAtEnd DEF AcceptedIsWhole, LastReceived
  <2> QED
    BY <1>1, <1>2, <1>4, <1>5, <2>1, <2>2 DEF DeserializeInv, TailFits
<1>7. (~Compressed => ReaderInv)'
  BY <1>2, <1>4 DEF SInv, ReaderInv, BufEnd, Op
<1>8. (Compressed => ChunksInv)'
  <2>1. ResumedOnlyByEmptyTail'
    BY <1>2 DEF ResumedOnlyByEmptyTail, SinkReturned
  <2> QED
    BY <1>2, <1>4, <2>1 DEF SInv, ChunksInv, Op, StreamEnd, CutFits, TailFits
<1> QED
  BY <1>3, <1>6, <1>7, <1>8 DEF SInv
-----------------------------------------------------------------------------
(***************************************************************************)
(* SInv is inductive.                                                      *)
(***************************************************************************)

LEMMA InitSInv == SerInit => SInv
<1> SUFFICES ASSUME SerInit PROVE SInv
  OBVIOUS
<1>1. WInv /\ ReaderInv
  BY InitInv DEF SerInit, IInv
<1>2. /\ bufs = <<>> /\ wst = "run" /\ rst = "start" /\ rop = 1 /\ got = 0
      /\ chunk = Buf(0, 0, FALSE) /\ roff = 0 /\ fed = 0
  BY DEF SerInit, Init
<1>3. /\ method \in Methods /\ keysMatch \in BOOLEAN /\ (keysMatch \/ Encrypted)
      /\ taken = 0 /\ zin = 0 /\ zup = 0 /\ zst = "run" /\ sequenceId = 1 /\ msgs = <<>>
      /\ recv = 0 /\ inflating = FALSE /\ inflated = 0 /\ result = "running"
  BY DEF SerInit
<1>4. SourceInv
  BY <1>2, <1>3, DeflateAssumption DEF SourceInv, TakenEnd
<1>5. MessagesInv
  <2>1. Len(msgs) = 0 /\ msgs \in Seq(MessageSet) /\ 1..Len(msgs) = {}
    BY <1>3
  <2>2. MsgEnd(Len(msgs)) = 0 /\ TakenEnd = 0
    BY <1>3, <2>1 DEF MsgEnd, TakenEnd
  <2> QED
    BY <1>3, <2>1, <2>2 DEF MessagesInv, MessagesCarryStream
<1>6. DeserializeInv
  <2>1. Len(msgs) = 0 /\ recv \in 0..Len(msgs) /\ MsgEnd(recv) = 0
    BY <1>3 DEF MsgEnd
  <2>2. WrongKeyDeliversNothing /\ AcceptedIsWhole
    BY <1>2, <1>3 DEF WrongKeyDeliversNothing, AcceptedIsWhole, LastReceived
  <2> QED
    BY <1>2, <1>3, <2>1, <2>2 DEF DeserializeInv
<1>7. ChunksInv
  BY <1>1, <1>2, <1>3 DEF ReaderInv, ChunksInv, ResumedOnlyByEmptyTail
<1> QED
  BY <1>1, <1>4, <1>5, <1>6, <1>7 DEF SInv

LEMMA StutterKeeps == SInv /\ UNCHANGED serVars => SInv'
<1> SUFFICES ASSUME SInv, UNCHANGED serVars PROVE SInv'
  OBVIOUS
<1>1. /\ UNCHANGED <<layout, writerVars, serializeVars>> /\ layout' = layout /\ msgs' = msgs
      /\ zst' = zst /\ method' = method /\ keysMatch' = keysMatch /\ bufs' = bufs
      /\ fed' = fed /\ recv' = recv /\ inflating' = inflating /\ inflated' = inflated
      /\ result' = result
      /\ rst' = rst /\ rop' = rop /\ got' = got /\ chunk' = chunk /\ roff' = roff
  BY DEF serVars, vars, writerVars, serializeVars, deserializeVars
<1>2. WInv' /\ SourceInv' /\ MessagesInv'
  BY <1>1, ReadKeepsSource
<1>3. Compressed' = Compressed /\ MsgEnd(recv)' = MsgEnd(recv)
  BY <1>1 DEF Compressed, MsgEnd
<1>4. DeserializeInv'
  BY <1>1, <1>3 DEF SInv, DeserializeInv, WrongKeyDeliversNothing, AcceptedIsWhole, LastReceived, TailFits
<1>5. (~Compressed => ReaderInv)'
  BY <1>1, <1>3 DEF SInv, ReaderInv, BufEnd, Op
<1>6. (Compressed => ChunksInv)'
  BY <1>1, <1>3 DEF SInv, ChunksInv, ResumedOnlyByEmptyTail, Op, StreamEnd, CutFits, TailFits
<1> QED
  BY <1>2, <1>4, <1>5, <1>6 DEF SInv

LEMMA NextSInv == SInv /\ [SerNext]_serVars => SInv'
<1> SUFFICES ASSUME SInv, [SerNext]_serVars PROVE SInv'
  OBVIOUS
<1>1. CASE Write /\ UNCHANGED <<serializeVars, deserializeVars>>
  BY <1>1, WriteKeeps
<1>2. CASE Read /\ UNCHANGED <<serializeVars, deserializeVars>>
  BY <1>2, ReadKeeps
<1>3. CASE TakeBuf
  BY <1>3, TakeBufStep
<1>4. CASE CompressBuf
  BY <1>4, CompressBufStep
<1>5. CASE CompressTail
  BY <1>5, CompressTailStep
<1>6. CASE Receive
  BY <1>6, ReceiveStep
<1>7. CASE Inflate
  BY <1>7, InflateStep
<1>8. CASE ReturnTrue
  BY <1>8, ReturnTrueStep
<1>9. CASE UNCHANGED serVars
  BY <1>9, StutterKeeps
<1> QED
  BY <1>1, <1>2, <1>3, <1>4, <1>5, <1>6, <1>7, <1>8, <1>9 DEF SerNext, Serialize, Deserialize

\* Whatever the buffer length, the object, the methods and the fragments that
\* deflate puts out, the writer, the messages, inflate and Read agree about
\* positions in the object's stream.
THEOREM SerInvariance == SerSpec => []SInv
  BY InitSInv, NextSInv, PTL DEF SerSpec

\* Serialize and Deserialize keep their variables in their types: every body
\* fits a message, padded as it may be (MakeMessageFromBuf, EncryptBuf).
THEOREM SerTypeCorrect == SerSpec => []SerTypeOK
<1>1. SInv => SerTypeOK
  BY DEF SInv, SourceInv, MessagesInv, DeserializeInv, SerTypeOK
<1> QED
  BY <1>1, SerInvariance, PTL

\* The messages made by MakeMessageFromBuf carry the whole stream without gap
\* or overlap, in whole blocks, numbered from one with the last negated.
THEOREM StreamCarried == SerSpec => []MessagesCarryStream
<1>1. SInv => MessagesCarryStream
  BY DEF SInv, MessagesInv
<1> QED
  BY <1>1, SerInvariance, PTL

\* Deserialize with another key than Serialize's gives Read nothing and never
\* returns true.
THEOREM WrongKeySafe == SerSpec => []WrongKeyDeliversNothing
<1>1. SInv => WrongKeyDeliversNothing
  BY DEF SInv, DeserializeInv
<1> QED
  BY <1>1, SerInvariance, PTL

\* Only the empty last fragment of a compressed object can resume a Read that
\* has returned, however deflate cuts its output.
THEOREM ResumedByTailOnly == SerSpec => []ResumedOnlyByEmptyTail
<1>1. SInv => ResumedOnlyByEmptyTail
  BY DEF SInv, ReaderInv, ChunksInv, ResumedOnlyByEmptyTail
<1> QED
  BY <1>1, SerInvariance, PTL

\* Read takes each field's bytes from where Write laid them out, also when the
\* chunks are what inflate puts out.
THEOREM ChunksAligned == SerSpec => []ReaderAligned
<1>1. SInv => ReaderAligned
  BY DEF SInv, ReaderInv, ChunksInv, ReaderAligned
<1> QED
  BY <1>1, SerInvariance, PTL

\* Once Deserialize has taken the message marked last it says true only of an
\* object Read has read to its end: always without compression, and with it
\* whenever one more buffer holds what deflate kept back for CompressBuf's tail.
\* Of a source that ends short of that message nothing is claimed.
THEOREM AcceptedWhole == SerSpec => [](~Compressed \/ TailFits => AcceptedIsWhole)
<1>1. SInv => (~Compressed \/ TailFits => AcceptedIsWhole)
  BY DEF SInv, DeserializeInv
<1> QED
  BY <1>1, SerInvariance, PTL

\* Read never finishes a plain value with bytes beyond its chunk: never without
\* compression, and with it whenever a fragment inflates to no more than a
\* buffer and to no less than a plain value.
THEOREM NoOverRead == SerSpec => [](~Compressed \/ CutFits => NeverOverReads)
<1>1. SInv => (~Compressed \/ CutFits => NeverOverReads)
  BY DEF SInv, ReaderInv, ChunksInv, NeverOverReads
<1> QED
  BY <1>1, SerInvariance, PTL
-----------------------------------------------------------------------------
(***************************************************************************)
(* What the pipeline implements.                                           *)
(***************************************************************************)

\* A step without compression is a step of the writer and the reader coupled
\* directly, or none of them.
LEMMA DirectStep ==
  SInv /\ ~Compressed /\ [SerNext]_serVars => [Next]_vars /\ ~Compressed'
<1> SUFFICES ASSUME SInv, ~Compressed, [SerNext]_serVars PROVE [Next]_vars /\ ~Compressed'
  OBVIOUS
<1>1. CASE (Write \/ Read) /\ UNCHANGED <<serializeVars, deserializeVars>>
  BY <1>1 DEF Next, serializeVars, Compressed
<1>2. CASE Serialize \/ ReturnTrue
  BY <1>2 DEF Serialize, TakeBuf, CompressBuf, CompressTail, ReturnTrue, serializeVars,
              pipeVars, readerVars, writerVars, vars, Compressed
<1>3. CASE Receive
  <2>1. ~Compressed'
    BY <1>3 DEF Receive, serializeVars, Compressed
  <2>2. /\ result = "running" /\ recv < Len(msgs)
        /\ UNCHANGED <<layout, writerVars>>
        /\ \/ /\ Encrypted /\ ~keysMatch /\ UNCHANGED <<fed, readerVars>>
           \/ /\ Encrypted => keysMatch
              /\ Sink(msgs[recv + 1].content) /\ fed' = fed + 1
    BY <1>3 DEF Receive
  <2>3. CASE UNCHANGED <<fed, readerVars>>
    BY <2>1, <2>2, <2>3 DEF vars, writerVars, readerVars
  <2>4. CASE (Encrypted => keysMatch) /\ Sink(msgs[recv + 1].content) /\ fed' = fed + 1
    <3>1. keysMatch
      BY <2>4 DEF SInv, SourceInv
    <3>2. SinkNext
      BY <2>2, <2>4, <3>1, ReceiveIsSinkNext
    <3> QED
      BY <2>1, <3>2 DEF Next
  <2> QED
    BY <2>2, <2>3, <2>4
<1>4. CASE Inflate
  BY <1>4 DEF Inflate, SInv, DeserializeInv
<1>5. CASE UNCHANGED serVars
  BY <1>5 DEF serVars, serializeVars, Compressed
<1> QED
  BY <1>1, <1>2, <1>3, <1>4, <1>5 DEF SerNext, Deserialize

\* Without compression, messages and encryption do not show: Read is resumed
\* with the very buffers that Write yields, in order.
THEOREM DirectWithoutCompression == SerSpec /\ ~Compressed => Spec
<1>1. SerInit => Init
  BY DEF SerInit
<1>2. SInv /\ ~Compressed /\ [SerNext]_serVars => [Next]_vars /\ ~Compressed'
  BY DirectStep
<1> QED
  BY <1>1, <1>2, SerInvariance, PTL DEF SerSpec, Spec

\* What inflate has reached is in a buffer that Write has yielded.
LEMMA InflatedWasWritten ==
  ASSUME SInv, Compressed, keysMatch, recv > 0
  PROVE  \E k \in 1..Len(bufs) :
            MsgEnd(recv) \in Nat /\ BufEnd(k) \in Nat /\ MsgEnd(recv) <= BufEnd(k)
<1>1. WInv /\ SourceInv /\ MessagesInv /\ DeserializeInv
  BY DEF SInv
<1>2. recv \in 1..Len(msgs) /\ msgs # <<>>
  BY <1>1 DEF DeserializeInv, MessagesInv
<1>3. MsgEnd(recv) \in Nat /\ MsgEnd(recv) <= zup
  <2>1. PICK k \in 1..Len(msgs) : k = recv
    BY <1>2
  <2> QED
    BY <1>1, <2>1, MsgPlace DEF MessagesInv
<1>4. /\ zup \in Nat /\ zup <= TakenEnd + zin /\ (taken > 0 \/ zin > 0)
      /\ (zin # 0 => taken < Len(bufs) /\ zin < bufs[taken + 1].len)
  BY <1>1, <1>2 DEF SourceInv
<1>5. /\ Len(bufs) \in Nat /\ taken \in Nat /\ taken <= Len(bufs) /\ TakenEnd \in Nat
      /\ zin \in Nat
      /\ taken < Len(bufs) =>
           /\ taken + 1 \in 1..Len(bufs) /\ bufs[taken + 1].len \in Nat
           /\ BufEnd(taken + 1) = TakenEnd + bufs[taken + 1].len
           /\ BufEnd(taken + 1) \in Nat
  BY <1>1, SourceFacts
<1>6. CASE zin = 0
  <2>1. taken \in 1..Len(bufs) /\ BufEnd(taken) = TakenEnd
    BY <1>4, <1>5, <1>6 DEF TakenEnd
  <2>2. MsgEnd(recv) <= TakenEnd
    BY <1>3, <1>4, <1>5, <1>6
  <2> QED
    BY <1>3, <1>5, <2>1, <2>2
<1>7. CASE zin # 0
  <2>1. MsgEnd(recv) <= BufEnd(taken + 1)
    BY <1>3, <1>4, <1>5, <1>7
  <2> QED
    BY <1>3, <1>4, <1>5, <1>7, <2>1
<1> QED
  BY <1>6, <1>7

\* Read's chunk ends where inflate is.
LEMMA ChunkWasWritten ==
  ASSUME SInv, Compressed, rst = "run"
  PROVE  \E k \in 1..Len(bufs) :
            BufEnd(k) \in Nat /\ \A p \in Nat : p <= chunk.base + chunk.len => p <= BufEnd(k)
<1>1. keysMatch /\ recv > 0 /\ chunk.base + chunk.len = inflated /\ inflated \in Nat
  BY ChunkFacts
<1>2. PICK k \in 1..Len(bufs) :
        MsgEnd(recv) \in Nat /\ BufEnd(k) \in Nat /\ MsgEnd(recv) <= BufEnd(k)
  BY <1>1, InflatedWasWritten
<1>3. inflated <= MsgEnd(recv)
  BY <1>1, <1>2 DEF SInv, DeserializeInv
<1> QED
  BY <1>1, <1>2, <1>3

\* Where a plain value ends that fits in what is left of a chunk, and where the
\* rest of one ends that fits in the next.
LEMMA RoomSuffices ==
  \A b, r, s, n \in Nat : r <= n /\ s <= n - r => (b + r) + s <= b + n
OBVIOUS

LEMMA RestSuffices ==
  \A a, g, s, n \in Nat : g <= s /\ s - g <= n => a + s <= (a + g) + n
OBVIOUS

\* A step of Read over what inflate puts out.
LEMMA ChunkTransfers ==
  ASSUME SInv, Compressed, Read
  PROVE  Transfer!Next \/ (layout' = layout /\ wop' = wop /\ rop' = rop)
<1>1. rst = "run" /\ layout' = layout /\ wop' = wop
  BY DEF Read, ReadPod, ReadReserve, ReadBytes, ReadBytesEnd, ReadReturn, writerVars
<1>2. /\ rop \in 1..Len(layout)
      /\ Op(rop).kind = "end" <=> rop = Len(layout)
      /\ got \in Nat /\ Op(rop).size \in Nat /\ Op(rop).at \in Nat
      /\ chunk.base \in Nat /\ chunk.len \in Nat /\ roff \in Nat /\ roff <= chunk.len
      /\ chunk.base + roff = Op(rop).at + got
      /\ Op(rop).kind # "bytes" => got = 0
  BY <1>1, ChunkFacts
<1>3. PICK k \in 1..Len(bufs) :
        BufEnd(k) \in Nat /\ \A p \in Nat : p <= chunk.base + chunk.len => p <= BufEnd(k)
  BY <1>1, ChunkWasWritten
<1>4. ASSUME rop' = rop + 1, Op(rop).kind # "end",
             Op(rop).at + Extent(Op(rop)) \in Nat,
             Op(rop).at + Extent(Op(rop)) <= chunk.base + chunk.len
      PROVE  Transfer!Next
  <2>1. Op(rop).at + Extent(Op(rop)) <= BufEnd(k)
    BY <1>3, <1>4
  <2>2. WInv
    BY DEF SInv
  <2> QED
    BY <1>1, <1>2, <1>4, <2>1, <2>2, ReadsElement
<1>5. CASE ReadPod
  <2>1. CASE rop' = rop
    BY <1>1, <2>1
  <2>2. CASE rop' # rop
    <3>1. /\ Op(rop).kind = "pod" /\ Op(rop).size <= chunk.len - roff /\ rop' = rop + 1
      BY <1>5, <2>2 DEF ReadPod
    <3>2. Extent(Op(rop)) = Op(rop).size /\ chunk.base + roff = Op(rop).at + 0
      BY <1>2, <3>1 DEF Extent
    <3>3. Op(rop).at + Op(rop).size \in Nat
          /\ Op(rop).at + Op(rop).size <= chunk.base + chunk.len
      <4>1. /\ chunk.base \in Nat /\ chunk.len \in Nat /\ roff \in Nat /\ roff <= chunk.len
            /\ Op(rop).size \in Nat /\ Op(rop).at \in Nat
        BY <1>2
      <4>2. (chunk.base + roff) + Op(rop).size <= chunk.base + chunk.len
        BY <3>1, <4>1, RoomSuffices
      <4>3. chunk.base + roff = Op(rop).at
        BY <3>2, <4>1
      <4> QED
        BY <4>1, <4>2, <4>3
    <3> QED
      BY <1>4, <3>1, <3>2, <3>3
  <2> QED
    BY <2>1, <2>2
<1>6. CASE ReadReserve \/ ReadBytesEnd
  <2>1. /\ rop' = rop + 1
        /\ \/ Op(rop).kind = "reserve"
           \/ Op(rop).kind = "bytes" /\ got = Op(rop).size
    BY <1>6 DEF ReadReserve, ReadBytesEnd
  <2>2. Extent(Op(rop)) = got /\ Op(rop).kind # "end"
    BY <1>2, <2>1 DEF Extent
  <2>3. Op(rop).at + got \in Nat /\ Op(rop).at + got <= chunk.base + chunk.len
    <3>1. /\ chunk.base \in Nat /\ chunk.len \in Nat /\ roff \in Nat /\ roff <= chunk.len
          /\ Op(rop).at \in Nat /\ got \in Nat
      BY <1>2
    <3>2. chunk.base + roff = Op(rop).at + got
      BY <1>2
    <3> QED
      BY <3>1, <3>2
  <2> QED
    BY <1>4, <2>1, <2>2, <2>3
<1>7. CASE ReadBytes \/ ReadReturn
  BY <1>7 DEF ReadBytes, ReadReturn, writerVars
<1> QED
  BY <1>5, <1>6, <1>7 DEF Read

\* A chunk that inflate puts out can complete the plain value Read waits in.
LEMMA InflateTransfers ==
  ASSUME SInv, Inflate
  PROVE  Transfer!Next \/ (layout' = layout /\ wop' = wop /\ rop' = rop)
<1> DEFINE content == msgs[recv].content
           upTo == content.base + content.len
           n == MinOf(MAX_MESSAGE_BODY_LENGTH, upTo - inflated)
           c == Buf(inflated, n, content.last /\ inflated + n = upTo)
<1>1. Sink(c) /\ inflating /\ layout' = layout /\ wop' = wop
  <2>1. Sink(c) /\ inflating
    BY DEF Inflate
  <2>2. layout' = layout /\ wop' = wop
    BY DEF Inflate, pipeVars, writerVars
  <2> QED
    BY <2>1, <2>2
<1>2. /\ Compressed /\ keysMatch /\ recv \in 1..Len(msgs) /\ inflated \in Nat
      /\ n \in Nat
  BY <1>1, InflateFacts
<1>3. inflated + n <= MsgEnd(recv)
  BY <1>1, InflateFacts
<1> HIDE DEF n
<1>4. c.len = n
  BY DEF Buf
<1> HIDE DEF c
<1>5. CASE rop' = rop
  BY <1>1, <1>5
<1>6. CASE rop' # rop
  <2>1. /\ rst = "wait" /\ Op(rop).kind = "pod" /\ Op(rop).size - got <= n
        /\ rop' = rop + 1
    BY <1>1, <1>4, <1>6 DEF Sink
  <2>2. /\ inflated = Op(rop).at + got /\ got \in 0..Op(rop).size /\ rop \in 1..Len(layout)
        /\ layout \in Layouts /\ WInv
    BY <1>2, <2>1 DEF SInv, ChunksInv, WInv
  <2>3. /\ Op(rop).at \in Nat /\ Op(rop).size \in Nat /\ rop # Len(layout)
        /\ Extent(Op(rop)) = Op(rop).size
    BY <2>1, <2>2, LayoutFacts DEF Extent
  <2>4. PICK k \in 1..Len(bufs) :
          MsgEnd(recv) \in Nat /\ BufEnd(k) \in Nat /\ MsgEnd(recv) <= BufEnd(k)
    <3>1. recv > 0
      BY <1>2
    <3> QED
      BY <1>2, <3>1, InflatedWasWritten
  <2>5. Op(rop).at + Op(rop).size <= inflated + n
    <3>1. /\ Op(rop).at \in Nat /\ Op(rop).size \in Nat /\ got \in Nat /\ n \in Nat
          /\ got <= Op(rop).size /\ Op(rop).size - got <= n
      BY <1>2, <2>1, <2>2, <2>3
    <3>2. Op(rop).at + Op(rop).size <= (Op(rop).at + got) + n
      BY <3>1, RestSuffices
    <3> QED
      BY <2>2, <3>2
  <2>6. Op(rop).at + Op(rop).size <= BufEnd(k)
    BY <1>2, <1>3, <2>3, <2>4, <2>5
  <2> QED
    BY <1>1, <2>1, <2>2, <2>3, <2>6, ReadsElement
<1> QED
  BY <1>5, <1>6

LEMMA SerTransferStep == SInv /\ [SerNext]_serVars => [Transfer!Next]_(Transfer!vars)
<1> SUFFICES ASSUME SInv, [SerNext]_serVars
             PROVE  [Transfer!Next]_(Transfer!vars)
  OBVIOUS
<1>1. CASE ~Compressed
  <2>1. IInv /\ [Next]_vars
    BY <1>1, DirectStep DEF SInv, IInv
  <2> QED
    BY <2>1, TransferStep
<1>2. CASE Compressed
  <2> SUFFICES Transfer!Next \/ (layout' = layout /\ wop' = wop /\ rop' = rop)
    BY DEF Transfer!vars
  <2>1. CASE Write
    BY <2>1, WriteTransfers DEF SInv
  <2>2. CASE Read
    BY <1>2, <2>2, ChunkTransfers
  <2>3. CASE Serialize \/ ReturnTrue
    BY <2>3 DEF Serialize, TakeBuf, CompressBuf, CompressTail, ReturnTrue,
                pipeVars, readerVars, writerVars
  <2>4. CASE Receive
    BY <1>2, <2>4 DEF Receive, readerVars, writerVars
  <2>5. CASE Inflate
    BY <2>5, InflateTransfers
  <2>6. CASE UNCHANGED serVars
    BY <2>6 DEF serVars, vars
  <2> QED
    BY <2>1, <2>2, <2>3, <2>4, <2>5, <2>6 DEF SerNext, Deserialize
<1> QED
  BY <1>1, <1>2

\* Through messages, encryption and compression alike Read obtains the object's
\* elements one by one, in order, each after Write wrote it, however deflate
\* cuts the stream.
THEOREM PipelineTransfers == SerSpec => TransferSpec
<1>1. SerInit => Transfer!Init
  BY LayoutFacts DEF SerInit, Init, Transfer!Init
<1>2. SInv /\ [SerNext]_serVars => [Transfer!Next]_(Transfer!vars)
  BY SerTransferStep
<1> QED
  BY <1>1, <1>2, SerInvariance, PTL DEF SerSpec, TransferSpec, Transfer!Spec
=============================================================================
