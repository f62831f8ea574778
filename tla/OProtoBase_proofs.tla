--------------------------- MODULE OProtoBase_proofs ---------------------------
(***************************************************************************)
(* Proofs about the writer and the reader of common/OProtoBase, for every  *)
(* buffer length and every object.                                         *)
(***************************************************************************)
EXTENDS OProtoBase, TLAPS

\* Where the buffers yielded so far end.
BufEnd(k) == bufs[k].base + bufs[k].len

\* Write's position in the stream is where its operation's bytes go, and an
\* empty buffer in hand is about to receive a plain value.
WriterInv ==
  /\ wop \in 1..Len(layout)
  /\ copied \in 0..Op(wop).size
  /\ Op(wop).kind # "bytes" => copied = 0
  /\ cap = IF wop = 1 THEN 0 ELSE MAX_MESSAGE_BODY_LENGTH
  /\ base \in Nat /\ off \in 0..MAX_MESSAGE_BODY_LENGTH
  /\ base + off = Op(wop).at + copied
  /\ off = 0 => wop = 1 \/ Op(wop).kind = "pod"
  /\ wst \in {"run", "done"}
  /\ wst = "done" => Op(wop).kind = "end"

\* The buffers tile the stream up to the writer's buffer, cut no plain value,
\* and hold no operation whole that the writer has not completed.
BufsInv ==
  /\ bufs \in Seq(BufSet)
  /\ BufsTileStream
  /\ PodsWhole
  /\ wst = "run" => base = IF bufs = <<>> THEN 0 ELSE BufEnd(Len(bufs))
  /\ \A k \in 1..Len(bufs) : BufEnd(k) <= base + off
  /\ \A k \in 1..Len(bufs), i \in 1..(Len(layout) - 1) :
       Op(i).at + Extent(Op(i)) <= BufEnd(k) => i < wop

\* Read's position in the stream is where its operation's bytes are; it waits
\* only at the end of a chunk, for an operation with bytes to come.
ReaderInv ==
  /\ rst \in ReaderStates \ {"overread", "resumed"}
  /\ rop \in 1..Len(layout)
  /\ got \in 0..Op(rop).size
  /\ Op(rop).kind # "bytes" => got = 0
  /\ chunk \in BufSet /\ roff \in 0..chunk.len
  /\ fed \in 0..Len(bufs)
  /\ rst = "start" => rop = 1 /\ fed = 0
  /\ rst # "start" => fed > 0 /\ chunk = bufs[fed]
  /\ rst = "run" => chunk.base + roff = Op(rop).at + got
  /\ rst = "wait" => /\ Op(rop).kind \in {"pod", "bytes"}
                     /\ got < Op(rop).size
                     /\ BufEnd(fed) = Op(rop).at + got
  /\ rst = "done" => Op(rop).kind = "end" /\ chunk.base + roff = Op(rop).at

\* What Write keeps by itself, whoever reads.
WInv == layout \in Layouts /\ WriterInv /\ BufsInv

\* The inductive invariant.
IInv == WInv /\ ReaderInv
-----------------------------------------------------------------------------
(***************************************************************************)
(* What is known of an object's operations.                                *)
(***************************************************************************)

\* The elements of a sequence are in the set it is over.
LEMMA SeqElements ==
  ASSUME NEW S, NEW s \in Seq(S)
  PROVE  Len(s) \in Nat /\ \A i \in 1..Len(s) : s[i] \in S
OBVIOUS

\* Small facts of arithmetic, stated once for the provers' sake.
LEMMA LeqTrans == \A a, b, c \in Int : a <= b /\ b <= c => a <= c
OBVIOUS

LEMMA NatSum == \A a, b \in Nat : a + b \in Nat /\ a <= a + b /\ b <= a + b
OBVIOUS

LEMMA SumAssoc == \A a, b, c \in Nat : (a + b) + c = a + (b + c)
OBVIOUS

LEMMA NatIsInt == \A a \in Nat : a \in Int
OBVIOUS

\* What MinOf returns.
LEMMA MinOfFacts ==
  \A a, b \in Nat : /\ MinOf(a, b) \in Nat /\ MinOf(a, b) <= a /\ MinOf(a, b) <= b
                    /\ a > 0 /\ b > 0 => MinOf(a, b) > 0
BY DEF MinOf

\* What the layout of an object provides: lengths and positions are numbers,
\* a later operation's bytes come after an earlier one's, and only the last
\* operation is the end.
LEMMA LayoutFacts ==
  ASSUME layout \in Layouts
  PROVE  /\ Len(layout) \in Nat /\ Len(layout) > 1
         /\ \A i \in 1..Len(layout) :
              /\ Op(i).kind \in Kinds /\ Op(i).size \in Nat /\ Op(i).at \in Nat
              /\ Extent(Op(i)) \in Nat
              /\ Op(i).kind = "end" <=> i = Len(layout)
              /\ Op(i).kind = "end" => Op(i).size = 0
              /\ Op(i).kind = "pod" => Op(i).size \in 1..MAX_MESSAGE_BODY_LENGTH
              /\ Op(i).kind = "bytes" => i > 1
              /\ Op(i).kind = "reserve" => Op(i + 1).kind = "pod"
         /\ Op(1).at = 0
         /\ \A i \in 1..(Len(layout) - 1) : Op(i + 1).at = Op(i).at + Extent(Op(i))
         /\ \A i, j \in 1..Len(layout) : i < j => Op(i).at + Extent(Op(i)) <= Op(j).at
<1> DEFINE l == layout
<1>1. WellFormed(l)
  BY LayoutsAssumption
<1> DEFINE Ops == [kind : Kinds, size : Nat, at : Nat]
<1>2. l \in Seq(Ops)
  BY <1>1 DEF WellFormed
<1>3. Len(l) \in Nat /\ \A i \in 1..Len(l) : l[i] \in Ops
  <2> HIDE DEF Ops, l
  <2> QED BY <1>2, SeqElements
<1>4. \A i \in 1..Len(l) : Extent(l[i]) \in Nat
  BY <1>3 DEF Extent
<1> QED
  BY <1>1, <1>3, <1>4 DEF WellFormed, Op

\* The initial states.
LEMMA InitInv == Init => IInv
<1> SUFFICES ASSUME Init PROVE IInv
  OBVIOUS
<1>1. layout \in Layouts
  BY DEF Init
<1>2. WriterInv
  <2>1. Len(layout) \in Nat /\ 1 \in 1..Len(layout)
    BY <1>1, LayoutFacts
  <2>2. Op(1).size \in Nat /\ Op(1).at = 0
    BY <1>1, <2>1, LayoutFacts
  <2>3. wop = 1 /\ copied = 0 /\ cap = 0 /\ base = 0 /\ off = 0 /\ wst = "run"
    BY DEF Init
  <2> QED
    BY <2>1, <2>2, <2>3, MaxLengthAssumption DEF WriterInv
<1>3. BufsInv
  BY <1>1, LayoutFacts DEF Init, BufsInv, BufsTileStream, PodsWhole, Op
<1>4. ReaderInv
  BY <1>1, LayoutFacts DEF Init, ReaderInv, ReaderStates, Buf, BufSet
<1> QED
  BY <1>1, <1>2, <1>3, <1>4 DEF IInv, WInv
-----------------------------------------------------------------------------
(***************************************************************************)
(* The writer's steps.  What happens to the buffers is one of two things:  *)
(* nothing, or the buffer in hand is yielded.                              *)
(***************************************************************************)

\* What is known of the buffers yielded so far.
LEMMA BufFacts ==
  ASSUME WInv
  PROVE  /\ Len(bufs) \in Nat
         /\ \A k \in 1..Len(bufs) :
              /\ bufs[k] \in BufSet /\ bufs[k].base \in Nat /\ bufs[k].len \in Nat
              /\ BufEnd(k) \in Nat /\ BufEnd(k) <= base + off
<1>1. bufs \in Seq(BufSet)
  BY DEF WInv, BufsInv
<1>2. Len(bufs) \in Nat /\ \A k \in 1..Len(bufs) : bufs[k] \in BufSet
  BY <1>1, SeqElements
<1>3. \A k \in 1..Len(bufs) : bufs[k].base \in Nat /\ bufs[k].len \in Nat
  BY <1>2 DEF BufSet
<1>4. \A k \in 1..Len(bufs) : BufEnd(k) <= base + off
  BY DEF WInv, BufsInv
<1> QED
  BY <1>2, <1>3, <1>4 DEF BufEnd

\* A step that yields nothing and moves the writer forward in its buffer.
LEMMA KeepBufs ==
  ASSUME WInv, layout' = layout, bufs' = bufs, base' = base, wst' = wst,
         off' \in Nat, off <= off', wop' \in Nat, wop <= wop'
  PROVE  BufsInv'
<1>1. /\ base \in Nat /\ off \in Nat /\ wop \in Nat
      /\ \A i \in 1..Len(layout) : Op(i).at \in Nat /\ Extent(Op(i)) \in Nat
      /\ Len(layout) \in Nat
  BY LayoutFacts, MaxLengthAssumption DEF WInv, WriterInv
<1>2. bufs \in Seq(BufSet) /\ Len(bufs) \in Nat
  BY DEF WInv, BufsInv
<1>3. BufsTileStream'
  BY DEF WInv, BufsInv, BufsTileStream
<1>4. PodsWhole'
  BY DEF WInv, BufsInv, PodsWhole, Op
<1>5. (wst = "run" => base = IF bufs = <<>> THEN 0 ELSE BufEnd(Len(bufs)))'
  BY DEF WInv, BufsInv, BufEnd
<1>6. \A k \in 1..Len(bufs) : BufEnd(k) \in Nat /\ BufEnd(k) <= base + off
  BY BufFacts
<1>7. (\A k \in 1..Len(bufs) : BufEnd(k) <= base + off)'
  BY <1>1, <1>6 DEF BufEnd
<1>8. (\A k \in 1..Len(bufs), i \in 1..(Len(layout) - 1) :
         Op(i).at + Extent(Op(i)) <= BufEnd(k) => i < wop)'
  BY <1>1 DEF WInv, BufsInv, BufEnd, Op
<1> QED
  BY <1>2, <1>3, <1>4, <1>5, <1>7, <1>8 DEF BufsInv

\* A step that yields the buffer in hand.
LEMMA YieldBuf ==
  ASSUME WInv, wst = "run", off > 0, layout' = layout,
         NEW isLast \in BOOLEAN, bufs' = Append(bufs, Buf(base, off, isLast)),
         \/ isLast = TRUE /\ wst' = "done"
         \/ isLast = FALSE /\ wst' = "run" /\ base' = base + off,
         base' \in Nat, off' \in Nat, base + off <= base' + off',
         wop' \in Nat, wop <= wop',
         \A i \in 1..Len(layout) : Op(i).kind = "pod" =>
           base + off <= Op(i).at \/ Op(i).at + Op(i).size <= base + off,
         \A i \in 1..(Len(layout) - 1) :
           Op(i).at + Extent(Op(i)) <= base + off => i < wop'
  PROVE  BufsInv'
<1>1. /\ base \in Nat /\ off \in 1..MAX_MESSAGE_BODY_LENGTH /\ wop \in Nat
      /\ \A i \in 1..Len(layout) : Op(i).at \in Nat /\ Extent(Op(i)) \in Nat
      /\ Len(layout) \in Nat
  BY LayoutFacts, MaxLengthAssumption DEF WInv, WriterInv
<1>2. bufs \in Seq(BufSet) /\ Len(bufs) \in Nat
  BY DEF WInv, BufsInv
<1> DEFINE b == Buf(base, off, isLast)
<1>3. b \in BufSet /\ b.base = base /\ b.len = off /\ b.last = isLast
  BY <1>1, MaxLengthAssumption DEF Buf, BufSet
<1>4. /\ bufs' \in Seq(BufSet) /\ Len(bufs') = Len(bufs) + 1
      /\ \A k \in 1..Len(bufs) : bufs'[k] = bufs[k]
      /\ bufs'[Len(bufs) + 1] = b
  <2> HIDE DEF b
  <2>1. bufs' = Append(bufs, b)
    BY DEF b
  <2> QED
    BY <1>2, <1>3, <2>1
<1> HIDE DEF b
<1>5. \A k \in 1..Len(bufs) : BufEnd(k) \in Nat /\ BufEnd(k) <= base + off
  BY BufFacts
<1>6. base = IF bufs = <<>> THEN 0 ELSE bufs[Len(bufs)].base + bufs[Len(bufs)].len
  BY DEF WInv, BufsInv, BufEnd
<1>7. BufsTileStream'
  <2> SUFFICES ASSUME NEW k \in 1..Len(bufs')
               PROVE  /\ bufs'[k].len \in 1..MAX_MESSAGE_BODY_LENGTH
                      /\ bufs'[k].base = IF k = 1 THEN 0
                                         ELSE bufs'[k - 1].base + bufs'[k - 1].len
                      /\ bufs'[k].last <=> (wst' = "done" /\ k = Len(bufs'))
    BY DEF BufsTileStream
  <2>1. CASE k \in 1..Len(bufs)
    <3>1. bufs'[k] = bufs[k] /\ k # Len(bufs') /\ (k # 1 => bufs'[k - 1] = bufs[k - 1])
      BY <1>2, <1>4, <2>1
    <3> QED
      BY <2>1, <3>1 DEF WInv, BufsInv, BufsTileStream
  <2>2. CASE k = Len(bufs) + 1
    <3>1. bufs'[k] = b /\ k = Len(bufs')
      BY <1>4, <2>2
    <3>2. bufs'[k].base = IF k = 1 THEN 0 ELSE bufs'[k - 1].base + bufs'[k - 1].len
      <4>1. CASE bufs = <<>>
        BY <1>2, <1>3, <1>6, <2>2, <3>1, <4>1
      <4>2. CASE bufs # <<>>
        <5>1. Len(bufs) \in 1..Len(bufs) /\ k # 1 /\ k - 1 = Len(bufs)
          BY <1>2, <2>2, <4>2
        <5>2. bufs'[k - 1] = bufs[Len(bufs)]
          BY <1>4, <5>1
        <5> QED
          BY <1>3, <1>6, <3>1, <4>2, <5>1, <5>2
      <4> QED
        BY <4>1, <4>2
    <3>3. bufs'[k].last <=> wst' = "done"
      BY <1>3, <3>1
    <3> QED
      BY <1>1, <1>3, <3>1, <3>2, <3>3
  <2> QED
    BY <1>2, <1>4, <2>1, <2>2
<1>8. PodsWhole'
  <2>1. \A k \in 1..Len(bufs'), i \in 1..Len(layout) :
          Op(i).kind = "pod" => \/ bufs'[k].base + bufs'[k].len <= Op(i).at
                                \/ Op(i).at + Op(i).size <= bufs'[k].base + bufs'[k].len
    <3> SUFFICES ASSUME NEW k \in 1..Len(bufs'), NEW i \in 1..Len(layout), Op(i).kind = "pod"
                 PROVE  \/ bufs'[k].base + bufs'[k].len <= Op(i).at
                        \/ Op(i).at + Op(i).size <= bufs'[k].base + bufs'[k].len
      OBVIOUS
    <3>1. CASE k \in 1..Len(bufs)
      BY <1>4, <3>1 DEF WInv, BufsInv, PodsWhole
    <3>2. CASE k = Len(bufs) + 1
      BY <1>3, <1>4, <3>2
    <3> QED
      BY <1>2, <1>4, <3>1, <3>2
  <2> QED
    BY <2>1 DEF PodsWhole, Op
<1>9. (wst = "run" => base = IF bufs = <<>> THEN 0 ELSE BufEnd(Len(bufs)))'
  BY <1>2, <1>3, <1>4 DEF BufEnd
<1>10. (\A k \in 1..Len(bufs) : BufEnd(k) <= base + off)'
  <2> SUFFICES ASSUME NEW k \in 1..Len(bufs')
               PROVE  bufs'[k].base + bufs'[k].len <= base' + off'
    BY DEF BufEnd
  <2>1. CASE k \in 1..Len(bufs)
    <3> DEFINE end == BufEnd(k)
    <3>1. bufs'[k].base + bufs'[k].len = end
      BY <1>4, <2>1 DEF BufEnd
    <3>2. end \in Nat /\ end <= base + off
      BY <1>5, <2>1
    <3>3. base + off \in Nat /\ base' + off' \in Nat
      <4>1. base \in Nat /\ off \in Nat
        BY <1>1
      <4> QED
        BY <4>1, NatSum, Zenon
    <3> HIDE DEF end
    <3>4. end <= base' + off'
      BY <3>2, <3>3, LeqTrans, NatIsInt, Zenon
    <3> QED
      BY <3>1, <3>4
  <2>2. CASE k = Len(bufs) + 1
    BY <1>3, <1>4, <2>2
  <2> QED
    BY <1>2, <1>4, <2>1, <2>2
<1>11. (\A k \in 1..Len(bufs), i \in 1..(Len(layout) - 1) :
          Op(i).at + Extent(Op(i)) <= BufEnd(k) => i < wop)'
  <2> SUFFICES ASSUME NEW k \in 1..Len(bufs'), NEW i \in 1..(Len(layout) - 1),
                      Op(i).at + Extent(Op(i)) <= bufs'[k].base + bufs'[k].len
               PROVE  i < wop'
    BY DEF BufEnd, Op
  <2>1. CASE k \in 1..Len(bufs)
    <3>1. i < wop
      BY <1>4, <2>1 DEF WInv, BufsInv, BufEnd
    <3> QED
      BY <1>1, <3>1
  <2>2. CASE k = Len(bufs) + 1
    BY <1>3, <1>4, <2>2
  <2> QED
    BY <1>2, <1>4, <2>1, <2>2
<1> QED
  BY <1>4, <1>7, <1>8, <1>9, <1>10, <1>11 DEF BufsInv

\* The reader does not notice what the writer does.
LEMMA WriterKeepsReader ==
  ASSUME IInv, layout' = layout, UNCHANGED <<readerVars, fed>>,
         \/ bufs' = bufs
         \/ \E b \in BufSet : bufs' = Append(bufs, b)
  PROVE  ReaderInv'
<1>1. bufs \in Seq(BufSet) /\ Len(bufs) \in Nat
  BY DEF IInv, WInv, BufsInv
<1>2. /\ Len(bufs') \in Nat /\ Len(bufs) <= Len(bufs')
      /\ \A k \in 1..Len(bufs) : bufs'[k] = bufs[k]
  BY <1>1
<1>3. ReaderInv
  BY DEF IInv, WInv
<1>4. fed \in 0..Len(bufs') /\ (fed > 0 => bufs'[fed] = bufs[fed])
  BY <1>2, <1>3 DEF ReaderInv, readerVars
<1>5. (rst = "wait" => /\ Op(rop).kind \in {"pod", "bytes"}
                       /\ got < Op(rop).size
                       /\ BufEnd(fed) = Op(rop).at + got)'
  BY <1>3, <1>4 DEF ReaderInv, readerVars, BufEnd, Op
<1> QED
  BY <1>3, <1>4, <1>5 DEF ReaderInv, readerVars, Op

\* A step of Write yields one buffer or none.
BufsGrow == bufs' = bufs \/ \E b \in BufSet : bufs' = Append(bufs, b)

\* EnsureBuffer yields the buffer in hand, or leaves it alone.
LEMMA EnsureBufferYields ==
  ASSUME NEW size, cap # 0, off + size > cap
  PROVE  /\ EnsureBuffer(size).base = base + off
         /\ EnsureBuffer(size).off = 0
         /\ EnsureBuffer(size).bufs = Append(bufs, Buf(base, off, FALSE))
BY DEF EnsureBuffer

LEMMA EnsureBufferKeeps ==
  ASSUME NEW size, ~(cap # 0 /\ off + size > cap)
  PROVE  /\ EnsureBuffer(size).base = base
         /\ EnsureBuffer(size).off = off
         /\ EnsureBuffer(size).bufs = bufs
BY DEF EnsureBuffer

\* What holds of the writer's numbers wherever it stands.
LEMMA WriterFacts ==
  ASSUME WInv
  PROVE  /\ wop \in 1..Len(layout) /\ Len(layout) \in Nat /\ Len(layout) > 1
         /\ copied \in 0..Op(wop).size /\ Op(wop).size \in Nat
         /\ Op(wop).kind # "bytes" => copied = 0
         /\ base \in Nat /\ off \in Nat /\ off <= MAX_MESSAGE_BODY_LENGTH
         /\ base + off = Op(wop).at + copied /\ Op(wop).at \in Nat
         /\ MAX_MESSAGE_BODY_LENGTH \in Nat /\ MAX_MESSAGE_BODY_LENGTH > 0
         /\ cap = IF wop = 1 THEN 0 ELSE MAX_MESSAGE_BODY_LENGTH
         /\ off = 0 => wop = 1 \/ Op(wop).kind = "pod"
         /\ wop = 1 => off = 0 /\ base = 0 /\ Op(wop).kind # "bytes"
         /\ Op(wop).kind = "end" <=> wop = Len(layout)
         /\ Op(wop).kind # "end" => wst = "run"
<1>1. WriterInv /\ layout \in Layouts
  BY DEF WInv
<1>2. Op(wop).size \in Nat /\ Op(wop).at \in Nat
  BY <1>1, LayoutFacts DEF WriterInv
<1>3. wop = 1 => off = 0 /\ base = 0 /\ Op(wop).kind # "bytes"
  <2> SUFFICES ASSUME wop = 1 PROVE off = 0 /\ base = 0 /\ Op(wop).kind # "bytes"
    OBVIOUS
  <2>1. Op(wop).at = 0 /\ Op(wop).kind # "bytes"
    BY <1>1, LayoutFacts DEF Op
  <2>2. base \in Nat /\ off \in Nat /\ base + off = 0
    BY <1>1, <2>1, MaxLengthAssumption DEF WriterInv
  <2> QED
    BY <2>1, <2>2
<1>4. /\ Len(layout) \in Nat /\ Len(layout) > 1
      /\ Op(wop).kind = "end" <=> wop = Len(layout)
  BY <1>1, LayoutFacts DEF WriterInv
<1> QED
  BY <1>1, <1>2, <1>3, <1>4, MaxLengthAssumption DEF WriterInv

\* An operation that is not the last is followed by one whose bytes come next.
LEMMA NextOperation ==
  ASSUME WInv, wop # Len(layout)
  PROVE  /\ wop + 1 \in 1..Len(layout)
         /\ Op(wop + 1).at = Op(wop).at + Extent(Op(wop))
         /\ Op(wop + 1).size \in Nat
<1>1. layout \in Layouts
  BY DEF WInv
<1>2. wop \in 1..(Len(layout) - 1) /\ wop + 1 \in 1..Len(layout)
  BY WriterFacts
<1> QED
  BY <1>1, <1>2, LayoutFacts

\* Wherever the writer may yield its buffer, the buffer's end cuts no plain
\* value, and the operations that end before it are completed (a reservation
\* is being completed).
LEMMA WriterPosition ==
  ASSUME WInv, Op(wop).kind = "bytes" => copied < Op(wop).size
  PROVE  /\ \A i \in 1..Len(layout) : Op(i).kind = "pod" =>
              base + off <= Op(i).at \/ Op(i).at + Op(i).size <= base + off
         /\ \A i \in 1..(Len(layout) - 1) :
              Op(i).at + Extent(Op(i)) <= base + off =>
                i < wop \/ (i = wop /\ Op(wop).kind = "reserve")
<1> DEFINE p == base + off
<1>1. layout \in Layouts
  BY DEF WInv
<1>2. \A i \in 1..Len(layout) :
        /\ Op(i).at \in Nat /\ Op(i).size \in Nat /\ Extent(Op(i)) \in Nat
        /\ Op(i).kind = "pod" => Extent(Op(i)) = Op(i).size /\ Op(i).size > 0
        /\ Op(i).kind # "reserve" => Extent(Op(i)) = Op(i).size
        /\ Op(i).kind = "reserve" => Extent(Op(i)) = 0
  BY <1>1, LayoutFacts, MaxLengthAssumption DEF Extent
<1>3. \A i, j \in 1..Len(layout) : i < j => Op(i).at + Extent(Op(i)) <= Op(j).at
  BY <1>1, LayoutFacts
<1>4. /\ wop \in 1..Len(layout) /\ Len(layout) \in Nat
      /\ copied \in Nat /\ copied <= Op(wop).size
      /\ Op(wop).kind # "bytes" => copied = 0
  BY WriterFacts
<1>5. p \in Nat /\ p = Op(wop).at + copied /\ Op(wop).at \in Nat
  BY WriterFacts
<1> HIDE DEF p
<1>6. Op(wop).at <= p
  BY <1>4, <1>5, NatSum, Zenon
<1>7. Op(wop).kind # "end" /\ Op(wop).kind # "reserve" => copied < Op(wop).size
  <2>1. CASE Op(wop).kind = "bytes"
    BY <2>1
  <2>2. CASE Op(wop).kind = "pod"
    <3>1. copied = 0 /\ Op(wop).size > 0
      BY <1>2, <1>4, <2>2
    <3> QED
      BY <3>1
  <2> QED
    BY <1>1, <1>4, <2>1, <2>2, LayoutFacts DEF Kinds
<1>8. p <= Op(wop).at + Extent(Op(wop))
  <2>1. copied <= Extent(Op(wop)) /\ Extent(Op(wop)) \in Nat
    <3>1. CASE Op(wop).kind = "reserve"
      BY <1>2, <1>4, <3>1
    <3>2. CASE Op(wop).kind # "reserve"
      BY <1>2, <1>4, <3>2
    <3> QED
      BY <3>1, <3>2
  <2>2. copied \in Nat
    BY <1>4
  <2> QED
    BY <1>5, <2>1, <2>2
<1>9. \A i \in 1..Len(layout) : i < wop => Op(i).at + Extent(Op(i)) <= p
  <2> SUFFICES ASSUME NEW i \in 1..Len(layout), i < wop
               PROVE  Op(i).at + Extent(Op(i)) <= p
    OBVIOUS
  <2>1. Op(i).at + Extent(Op(i)) <= Op(wop).at
    BY <1>3, <1>4
  <2>2. Op(i).at + Extent(Op(i)) \in Nat
    BY <1>2, NatSum, Zenon
  <2> QED
    BY <1>5, <1>6, <2>1, <2>2, LeqTrans, NatIsInt, Zenon
<1>10. \A i \in 1..Len(layout) : i > wop => p <= Op(i).at
  <2> SUFFICES ASSUME NEW i \in 1..Len(layout), i > wop PROVE p <= Op(i).at
    OBVIOUS
  <2>1. Op(wop).at + Extent(Op(wop)) <= Op(i).at
    BY <1>3, <1>4
  <2>2. Op(i).at \in Nat /\ Op(wop).at + Extent(Op(wop)) \in Nat
    BY <1>2, <1>4, NatSum, Zenon
  <2> QED
    BY <1>5, <1>8, <2>1, <2>2, LeqTrans, NatIsInt, Zenon
<1>11. ASSUME NEW i \in 1..Len(layout), Op(i).kind = "pod"
       PROVE  p <= Op(i).at \/ Op(i).at + Op(i).size <= p
  <2>1. CASE i < wop
    <3>1. Op(i).at + Extent(Op(i)) <= p /\ Extent(Op(i)) = Op(i).size
      BY <1>2, <1>9, <1>11, <2>1
    <3> QED
      BY <3>1
  <2>2. CASE i = wop
    <3>1. copied = 0
      BY <1>4, <1>11, <2>2
    <3> QED
      BY <1>5, <2>2, <3>1
  <2>3. CASE i > wop
    BY <1>10, <2>3
  <2>4. i \in Nat /\ wop \in Nat
    BY <1>4
  <2> QED
    BY <2>1, <2>2, <2>3, <2>4
<1>12. ASSUME NEW i \in 1..(Len(layout) - 1), Op(i).at + Extent(Op(i)) <= p
       PROVE  i < wop \/ (i = wop /\ Op(wop).kind = "reserve")
  <2>1. i \in 1..Len(layout) /\ i \in Nat /\ i # Len(layout) /\ wop \in Nat
    BY <1>4
  <2>2. CASE i = wop
    <3> SUFFICES ASSUME Op(wop).kind # "reserve" PROVE FALSE
      BY <2>2
    <3>1. Op(wop).kind # "end"
      BY <1>1, <2>1, <2>2, LayoutFacts
    <3>2. copied < Op(wop).size /\ Op(wop).at + Op(wop).size <= p
      BY <1>2, <1>7, <1>12, <2>1, <2>2, <3>1
    <3>3. copied \in Nat /\ Op(wop).size \in Nat /\ Op(wop).at \in Nat
      BY <1>2, <1>4
    <3> QED
      BY <1>5, <3>2, <3>3
  <2>3. CASE i > wop
    <3>1. wop # Len(layout) /\ wop + 1 \in 1..Len(layout)
      BY <1>4, <2>1, <2>3
    <3>2. Op(wop).at + Extent(Op(wop)) <= Op(i).at
      BY <1>3, <1>4, <2>1, <2>3
    <3>3. Extent(Op(i)) = 0 /\ Op(i).at = p
      <4>1. p <= Op(i).at /\ Op(i).at \in Nat /\ Extent(Op(i)) \in Nat
        BY <1>2, <1>10, <2>1, <2>3
      <4> QED
        BY <1>5, <1>12, <4>1
    <3>4. Op(wop).kind = "reserve"
      <4> SUFFICES ASSUME Op(wop).kind # "reserve" PROVE FALSE
        OBVIOUS
      <4>1. Op(wop).kind # "end"
        BY <1>1, <1>4, <3>1, LayoutFacts
      <4>2. copied < Op(wop).size /\ Extent(Op(wop)) = Op(wop).size
        BY <1>2, <1>4, <1>7, <4>1
      <4>3. Op(wop).at + Op(wop).size <= p
        BY <3>2, <3>3, <4>2
      <4>4. copied \in Nat /\ Op(wop).size \in Nat /\ Op(wop).at \in Nat
        BY <1>2, <1>4
      <4> QED
        BY <1>5, <4>2, <4>3, <4>4
    <3>5. Op(wop + 1).kind = "pod"
      BY <1>1, <1>4, <3>4, LayoutFacts
    <3> DEFINE a == Op(wop + 1).at
               x == Extent(Op(wop + 1))
    <3>6. a \in Nat /\ x \in Nat /\ x > 0
      BY <1>2, <3>1, <3>5
    <3>7. i # wop + 1
      BY <3>3, <3>6
    <3>8. wop + 1 < i
      BY <2>1, <2>3, <3>7
    <3>9. a + x <= p
      BY <1>3, <2>1, <3>1, <3>3, <3>8
    <3>10. p <= a
      BY <1>4, <1>10, <3>1
    <3> HIDE DEF a, x
    <3> QED
      BY <1>5, <3>6, <3>9, <3>10
  <2> QED
    BY <2>1, <2>2, <2>3
<1> QED
  BY <1>11, <1>12 DEF p

\* Write never goes past the object's end.
LEMMA WriterInside ==
  ASSUME WInv
  PROVE  /\ Op(Len(layout)).at \in Nat /\ base + off \in Nat
         /\ base + off <= Op(Len(layout)).at
         /\ Op(wop).kind = "end" => base + off = Op(Len(layout)).at
<1>1. /\ layout \in Layouts /\ wop \in 1..Len(layout) /\ Len(layout) \in Nat
      /\ base + off = Op(wop).at + copied /\ copied \in Nat /\ copied <= Op(wop).size
      /\ Op(wop).kind # "bytes" => copied = 0
      /\ Op(wop).kind = "end" <=> wop = Len(layout)
      /\ Len(layout) \in 1..Len(layout)
  BY WriterFacts DEF WInv
<1>2. Op(wop).at \in Nat /\ Op(wop).size \in Nat /\ Op(Len(layout)).at \in Nat
  BY <1>1, LayoutFacts
<1>3. CASE wop = Len(layout)
  <2>1. copied = 0
    BY <1>1, <1>3
  <2> QED
    BY <1>1, <1>2, <1>3, <2>1
<1>4. CASE wop < Len(layout)
  <2>1. Op(wop).at + Extent(Op(wop)) <= Op(Len(layout)).at
    BY <1>1, <1>4, LayoutFacts
  <2>2. copied <= Extent(Op(wop)) /\ Extent(Op(wop)) \in Nat
    BY <1>1, <1>2 DEF Extent
  <2>3. Op(wop).at + copied <= Op(wop).at + Extent(Op(wop)) /\ base + off \in Nat
    BY <1>1, <1>2, <2>2
  <2> QED
    BY <1>1, <1>2, <1>4, <2>1, <2>2, <2>3
<1> QED
  BY <1>1, <1>3, <1>4

\* Where a buffer is in the stream.
LEMMA BufPlace ==
  ASSUME WInv, NEW k \in 1..Len(bufs)
  PROVE  /\ bufs[k] \in BufSet /\ bufs[k].base \in Nat
         /\ bufs[k].len \in Nat /\ bufs[k].len > 0 /\ bufs[k].len <= MAX_MESSAGE_BODY_LENGTH
         /\ k = 1 => bufs[k].base = 0
         /\ k # 1 => bufs[k].base = BufEnd(k - 1)
         /\ bufs[k].last <=> (wst = "done" /\ k = Len(bufs))
         /\ BufEnd(k) \in Nat /\ BufEnd(k) <= Op(Len(layout)).at
<1>1. /\ bufs[k].len \in 1..MAX_MESSAGE_BODY_LENGTH
      /\ bufs[k].base = IF k = 1 THEN 0 ELSE bufs[k - 1].base + bufs[k - 1].len
      /\ bufs[k].last <=> (wst = "done" /\ k = Len(bufs))
  BY DEF WInv, BufsInv, BufsTileStream
<1>2. BufEnd(k) \in Nat /\ BufEnd(k) <= base + off /\ bufs[k] \in BufSet
      /\ bufs[k].base \in Nat /\ bufs[k].len \in Nat
  BY BufFacts
<1>3. BufEnd(k) <= Op(Len(layout)).at
  BY <1>2, WriterInside
<1>4. k # 1 => bufs[k].base = BufEnd(k - 1)
  BY <1>1 DEF BufEnd
<1>5. bufs[k].len > 0 /\ bufs[k].len <= MAX_MESSAGE_BODY_LENGTH
  BY <1>1, MaxLengthAssumption
<1> QED
  BY <1>1, <1>2, <1>3, <1>4, <1>5

LEMMA WritePodStep == WInv /\ WritePod => WInv' /\ BufsGrow
<1> SUFFICES ASSUME WInv, WritePod PROVE WInv' /\ BufsGrow
  OBVIOUS
<1> DEFINE size == Op(wop).size
<1>1. /\ Op(wop).kind = "pod"
      /\ base' = EnsureBuffer(size).base /\ off' = EnsureBuffer(size).off + size
      /\ bufs' = EnsureBuffer(size).bufs
      /\ cap' = MAX_MESSAGE_BODY_LENGTH /\ wop' = wop + 1
      /\ layout' = layout /\ wst' = wst /\ copied' = copied /\ UNCHANGED <<readerVars, fed>>
  BY DEF WritePod
<1>2. size \in Nat /\ size > 0 /\ size <= MAX_MESSAGE_BODY_LENGTH
  BY <1>1, WriterFacts, LayoutFacts DEF WInv
<1>3. wop # Len(layout) /\ copied = 0 /\ wst = "run"
  BY <1>1, WriterFacts
<1>4. Op(wop + 1).at = Op(wop).at + size /\ Op(wop + 1).size \in Nat
  <2>1. Op(wop + 1).at = Op(wop).at + Extent(Op(wop)) /\ Op(wop + 1).size \in Nat
    BY <1>3, NextOperation
  <2>2. Extent(Op(wop)) = size
    BY <1>1 DEF Extent
  <2> QED
    BY <2>1, <2>2
<1> HIDE DEF size
<1>5. \/ /\ off > 0 /\ base' = base + off /\ off' = size
         /\ bufs' = Append(bufs, Buf(base, off, FALSE))
      \/ base' = base /\ off' = off + size /\ bufs' = bufs /\ off' <= MAX_MESSAGE_BODY_LENGTH
  <2>1. CASE cap # 0 /\ off + size > cap
    <3>1. off > 0
      BY <1>2, <2>1, WriterFacts
    <3>2. base' = base + off /\ off' = 0 + size /\ bufs' = Append(bufs, Buf(base, off, FALSE))
      BY <1>1, <2>1, EnsureBufferYields
    <3>3. 0 + size = size
      BY <1>2
    <3> QED
      BY <3>1, <3>2, <3>3
  <2>2. CASE ~(cap # 0 /\ off + size > cap)
    <3>1. base' = base /\ off' = off + size /\ bufs' = bufs
      BY <1>1, <2>2, EnsureBufferKeeps
    <3>2. off + size <= MAX_MESSAGE_BODY_LENGTH
      <4>1. CASE wop = 1
        BY <1>2, <4>1, WriterFacts
      <4>2. CASE wop # 1
        BY <1>2, <2>2, <4>2, WriterFacts
      <4> QED
        BY <4>1, <4>2
    <3> QED
      BY <3>1, <3>2
  <2> QED
    BY <2>1, <2>2
<1>6. /\ wop' \in 1..Len(layout) /\ wop' # 1
      /\ base' \in Nat /\ off' \in Nat /\ off' > 0 /\ off' <= MAX_MESSAGE_BODY_LENGTH
      /\ base' + off' = base + off + size
  <2>1. wop' \in 1..Len(layout) /\ wop' # 1
    BY <1>1, <1>3, WriterFacts
  <2>2. base \in Nat /\ off \in Nat /\ MAX_MESSAGE_BODY_LENGTH \in Nat
    BY WriterFacts
  <2>3. \/ base' = base + off /\ off' = size
        \/ base' = base /\ off' = off + size /\ off' <= MAX_MESSAGE_BODY_LENGTH
    BY <1>5
  <2>4. base' \in Nat /\ off' \in Nat
    BY <1>2, <2>2, <2>3
  <2>5. off' > 0 /\ off' <= MAX_MESSAGE_BODY_LENGTH /\ base' + off' = base + off + size
    BY <1>2, <2>2, <2>3
  <2> QED
    BY <2>1, <2>4, <2>5
<1>7. WriterInv'
  <2>1. Op(wop)' = Op(wop + 1)
    BY <1>1 DEF Op
  <2>2. base' + off' = Op(wop + 1).at + copied'
    <3>1. base + off = Op(wop).at + copied /\ Op(wop).at \in Nat
      BY WriterFacts
    <3>2. base + off = Op(wop).at
      BY <1>3, <3>1
    <3>3. copied' = 0 /\ Op(wop).at + size \in Nat
      BY <1>1, <1>2, <1>3, <3>1
    <3> QED
      BY <1>4, <1>6, <3>2, <3>3
  <2>3. copied' = 0 /\ 0 \in 0..Op(wop + 1).size
    BY <1>1, <1>3, <1>4
  <2> QED
    BY <1>1, <1>3, <1>6, <2>1, <2>2, <2>3 DEF WriterInv
<1>8. BufsInv'
  <2>1. CASE base' = base /\ off' = off + size /\ bufs' = bufs
    BY <1>1, <1>2, <1>6, <2>1, KeepBufs, WriterFacts
  <2>2. CASE off > 0 /\ base' = base + off /\ bufs' = Append(bufs, Buf(base, off, FALSE))
    <3>1. wop \in Nat /\ wop' \in Nat /\ wop <= wop' /\ base + off <= base' + off'
      <4>1. wop \in Nat /\ wop' = wop + 1 /\ base \in Nat /\ off \in Nat
        BY <1>1, WriterFacts
      <4>2. wop' \in Nat /\ wop <= wop'
        BY <4>1
      <4>3. base + off <= (base + off) + size
        BY <1>2, <4>1, NatSum, Zenon
      <4> QED
        BY <1>6, <4>1, <4>2, <4>3
    <3>2. \A i \in 1..(Len(layout) - 1) :
            Op(i).at + Extent(Op(i)) <= base + off => i < wop'
      BY <1>1, <3>1, WriterPosition, WriterFacts
    <3>3. \A i \in 1..Len(layout) : Op(i).kind = "pod" =>
            base + off <= Op(i).at \/ Op(i).at + Op(i).size <= base + off
      BY <1>1, WriterPosition
    <3> QED
      BY <1>1, <1>3, <1>6, <2>2, <3>1, <3>2, <3>3, YieldBuf
  <2> QED
    BY <1>5, <2>1, <2>2
<1>9. BufsGrow
  <2>1. Buf(base, off, FALSE) \in BufSet
    BY WriterFacts DEF Buf, BufSet
  <2> QED
    BY <1>1, <1>5, <2>1 DEF BufsGrow
<1> QED
  BY <1>1, <1>7, <1>8, <1>9 DEF WInv

LEMMA WriteReserveStep == WInv /\ WriteReserve => WInv' /\ BufsGrow
<1> SUFFICES ASSUME WInv, WriteReserve PROVE WInv' /\ BufsGrow
  OBVIOUS
<1> DEFINE size == Op(wop).size
<1>1. /\ Op(wop).kind = "reserve"
      /\ base' = EnsureBuffer(size).base /\ off' = EnsureBuffer(size).off
      /\ bufs' = EnsureBuffer(size).bufs
      /\ cap' = MAX_MESSAGE_BODY_LENGTH /\ wop' = wop + 1
      /\ layout' = layout /\ wst' = wst /\ copied' = copied /\ UNCHANGED <<readerVars, fed>>
  BY DEF WriteReserve
<1>2. /\ wop # Len(layout) /\ copied = 0 /\ wst = "run" /\ (off = 0 => wop = 1)
      /\ base \in Nat /\ off \in Nat /\ off <= MAX_MESSAGE_BODY_LENGTH /\ wop \in Nat
      /\ MAX_MESSAGE_BODY_LENGTH \in Nat /\ (wop = 1 => cap = 0)
  BY <1>1, WriterFacts
<1>3. /\ Op(wop + 1).at = Op(wop).at /\ Op(wop + 1).size \in Nat
      /\ Op(wop + 1).kind = "pod"
  <2>1. Op(wop + 1).at = Op(wop).at + Extent(Op(wop)) /\ Extent(Op(wop)) = 0
    BY <1>1, <1>2, NextOperation DEF Extent
  <2>2. Op(wop).at \in Nat
    BY WriterFacts
  <2>3. wop + 1 \in 1..Len(layout) /\ wop \in 1..Len(layout)
    BY <1>2, WriterFacts
  <2> QED
    BY <1>1, <2>1, <2>2, <2>3, LayoutFacts DEF WInv
<1> HIDE DEF size
<1>4. \/ /\ off > 0 /\ base' = base + off /\ off' = 0
         /\ bufs' = Append(bufs, Buf(base, off, FALSE))
      \/ base' = base /\ off' = off /\ bufs' = bufs
  <2>1. CASE cap # 0 /\ off + size > cap
    <3>1. off > 0
      BY <1>2, <2>1
    <3> QED
      BY <1>1, <2>1, <3>1, EnsureBufferYields
  <2>2. CASE ~(cap # 0 /\ off + size > cap)
    BY <1>1, <2>2, EnsureBufferKeeps
  <2> QED
    BY <2>1, <2>2
<1>5. /\ wop' \in 1..Len(layout) /\ wop' # 1 /\ wop' \in Nat /\ wop <= wop'
      /\ base' \in Nat /\ off' \in Nat /\ off' <= MAX_MESSAGE_BODY_LENGTH
      /\ base' + off' = base + off
  <2>1. wop' \in 1..Len(layout) /\ wop' # 1 /\ wop' \in Nat /\ wop <= wop'
    BY <1>1, <1>2, WriterFacts
  <2>2. CASE off > 0 /\ base' = base + off /\ off' = 0
    BY <1>2, <2>1, <2>2
  <2>3. CASE base' = base /\ off' = off
    BY <1>2, <2>1, <2>3
  <2> QED
    BY <1>4, <2>2, <2>3
<1>6. WriterInv'
  <2>1. Op(wop)' = Op(wop + 1)
    BY <1>1 DEF Op
  <2>2. base' + off' = Op(wop + 1).at + copied'
    BY <1>1, <1>2, <1>3, <1>5, WriterFacts
  <2>3. copied' = 0 /\ 0 \in 0..Op(wop + 1).size
    BY <1>1, <1>2, <1>3
  <2> QED
    BY <1>1, <1>2, <1>3, <1>5, <2>1, <2>2, <2>3 DEF WriterInv
<1>7. BufsInv'
  <2>1. CASE base' = base /\ off' = off /\ bufs' = bufs
    <3>1. off <= off'
      BY <1>5, <2>1
    <3> QED
      BY <1>1, <1>5, <2>1, <3>1, KeepBufs
  <2>2. CASE off > 0 /\ base' = base + off /\ bufs' = Append(bufs, Buf(base, off, FALSE))
    <3>1. base + off <= base' + off'
      <4>1. base' + off' = base + off
        BY <1>5
      <4>2. base + off \in Nat
        BY <1>2
      <4> QED
        BY <4>1, <4>2
    <3>2. \A i \in 1..(Len(layout) - 1) :
            Op(i).at + Extent(Op(i)) <= base + off => i < wop'
      BY <1>1, <1>2, WriterPosition, WriterFacts
    <3>3. \A i \in 1..Len(layout) : Op(i).kind = "pod" =>
            base + off <= Op(i).at \/ Op(i).at + Op(i).size <= base + off
      BY <1>1, WriterPosition
    <3> QED
      BY <1>1, <1>2, <1>5, <2>2, <3>1, <3>2, <3>3, YieldBuf
  <2> QED
    BY <1>4, <2>1, <2>2
<1>8. BufsGrow
  <2>1. Buf(base, off, FALSE) \in BufSet
    BY WriterFacts DEF Buf, BufSet
  <2> QED
    BY <1>1, <1>4, <2>1 DEF BufsGrow
<1> QED
  BY <1>1, <1>6, <1>7, <1>8 DEF WInv

LEMMA WriteBytesStep == WInv /\ WriteBytes => WInv' /\ BufsGrow
<1> SUFFICES ASSUME WInv, WriteBytes PROVE WInv' /\ BufsGrow
  OBVIOUS
<1> DEFINE rest == Op(wop).size - copied
           e == IF off = cap THEN EnsureBuffer(1)
                ELSE [base |-> base, off |-> off, bufs |-> bufs]
           writeLen == MinOf(rest, cap - e.off)
<1>1. /\ Op(wop).kind = "bytes" /\ rest > 0
      /\ base' = e.base /\ off' = e.off + writeLen /\ bufs' = e.bufs
      /\ copied' = copied + writeLen
      /\ layout' = layout /\ wst' = wst /\ wop' = wop /\ cap' = cap
      /\ UNCHANGED <<readerVars, fed>>
  BY DEF WriteBytes
<1>2. /\ cap = MAX_MESSAGE_BODY_LENGTH /\ cap \in Nat /\ cap > 0 /\ wop \in 1..Len(layout)
      /\ base \in Nat /\ off \in Nat /\ off > 0 /\ off <= cap /\ wst = "run" /\ wop # 1
      /\ copied \in Nat /\ Op(wop).size \in Nat /\ Op(wop).at \in Nat
      /\ base + off = Op(wop).at + copied
  BY <1>1, WriterFacts
<1>3. rest \in Nat /\ rest > 0 /\ copied + rest = Op(wop).size
  <2>1. rest > 0
    BY <1>1
  <2>2. copied \in Nat /\ Op(wop).size \in Nat
    BY <1>2
  <2> QED
    BY <2>1, <2>2
<1>4. \/ /\ e.base = base + off /\ e.off = 0 /\ off = cap
         /\ e.bufs = Append(bufs, Buf(base, off, FALSE))
      \/ e.base = base /\ e.off = off /\ e.bufs = bufs /\ off < cap
  <2>1. CASE off = cap
    <3>1. cap # 0 /\ off + 1 > cap
      BY <1>2, <2>1
    <3>2. e = EnsureBuffer(1)
      BY <2>1
    <3> HIDE DEF e
    <3> QED
      BY <2>1, <3>1, <3>2, EnsureBufferYields
  <2>2. CASE off # cap
    <3>1. e = [base |-> base, off |-> off, bufs |-> bufs]
      BY <2>2
    <3>2. off < cap
      BY <1>2, <2>2
    <3> HIDE DEF e
    <3> QED
      BY <3>1, <3>2
  <2> QED
    BY <2>1, <2>2
<1> HIDE DEF e
<1>5. /\ e.base \in Nat /\ e.off \in Nat /\ e.off < cap /\ e.base + e.off = base + off
  <2>1. base \in Nat /\ off \in Nat /\ cap > 0
    BY <1>2
  <2>2. base + off \in Nat /\ base + off + 0 = base + off
    BY <2>1
  <2> DEFINE b == e.base
             o == e.off
  <2>3. (b = base + off /\ o = 0) \/ (b = base /\ o = off /\ off < cap)
    BY <1>4
  <2> HIDE DEF b, o
  <2>4. b \in Nat /\ o \in Nat /\ o < cap /\ b + o = base + off
    BY <2>1, <2>2, <2>3
  <2> QED
    BY <2>4 DEF b, o
<1>6. writeLen \in Nat /\ writeLen > 0 /\ writeLen <= rest /\ e.off + writeLen <= cap
  <2> DEFINE room == cap - e.off
  <2>1. cap \in Nat /\ e.off \in Nat /\ e.off < cap
    BY <1>2, <1>5
  <2>2. room \in Nat /\ room > 0 /\ e.off + room = cap
    BY <2>1
  <2> HIDE DEF rest, room
  <2>3. /\ MinOf(rest, room) \in Nat /\ MinOf(rest, room) > 0
        /\ MinOf(rest, room) <= rest /\ MinOf(rest, room) <= room
    BY <1>3, <2>2, MinOfFacts, Zenon
  <2>4. e.off + MinOf(rest, room) <= cap
    BY <2>1, <2>2, <2>3
  <2> QED
    BY <2>3, <2>4 DEF room
<1> HIDE DEF writeLen, rest
<1>7. /\ base' \in Nat /\ off' \in Nat /\ off' > 0 /\ off' <= cap
      /\ base' + off' = base + off + writeLen
      /\ copied' \in 0..Op(wop).size /\ copied' = copied + writeLen
  <2>1. base' = e.base /\ off' = e.off + writeLen /\ copied' = copied + writeLen
    BY <1>1
  <2>2. base' \in Nat /\ off' \in Nat /\ off' > 0 /\ off' <= cap
    BY <1>5, <1>6, <2>1
  <2>3. base' + off' = base + off + writeLen
    <3>1. e.base \in Nat /\ e.off \in Nat /\ e.base + e.off = base + off /\ writeLen \in Nat
      BY <1>5, <1>6
    <3>2. e.base + (e.off + writeLen) = (e.base + e.off) + writeLen
      BY <3>1
    <3> QED
      BY <2>1, <3>1, <3>2
  <2>4. copied' \in 0..Op(wop).size
    <3>1. copied \in Nat /\ Op(wop).size \in Nat
      BY <1>2
    <3> QED
      BY <1>3, <1>6, <2>1, <3>1
  <2> QED
    BY <2>1, <2>2, <2>3, <2>4
<1>8. WriterInv'
  <2>1. Op(wop)' = Op(wop)
    BY <1>1 DEF Op
  <2>2. base' + off' = Op(wop).at + copied'
    <3>1. base' + off' = (Op(wop).at + copied) + writeLen /\ copied' = copied + writeLen
      BY <1>2, <1>7
    <3>2. Op(wop).at \in Nat /\ copied \in Nat /\ writeLen \in Nat
      BY <1>2, <1>6
    <3> QED
      BY <3>1, <3>2
  <2> QED
    BY <1>1, <1>2, <1>7, <2>1, <2>2 DEF WriterInv
<1>9. BufsInv'
  <2>1. CASE e.base = base /\ e.off = off /\ e.bufs = bufs
    <3>1. off <= off' /\ wop <= wop' /\ wop' \in Nat
      BY <1>1, <1>2, <1>6, <1>7, <2>1
    <3> QED
      BY <1>1, <1>7, <2>1, <3>1, KeepBufs
  <2>2. CASE e.base = base + off /\ e.bufs = Append(bufs, Buf(base, off, FALSE))
    <3>1. base + off <= base' + off' /\ wop \in Nat /\ wop <= wop'
      BY <1>1, <1>2, <1>6, <1>7
    <3>2. copied < Op(wop).size
      BY <1>2, <1>3
    <3>3. \A i \in 1..(Len(layout) - 1) :
            Op(i).at + Extent(Op(i)) <= base + off => i < wop'
      BY <1>1, <3>2, WriterPosition
    <3>4. \A i \in 1..Len(layout) : Op(i).kind = "pod" =>
            base + off <= Op(i).at \/ Op(i).at + Op(i).size <= base + off
      BY <3>2, WriterPosition
    <3> QED
      BY <1>1, <1>2, <1>7, <2>2, <3>1, <3>3, <3>4, YieldBuf
  <2> QED
    BY <1>4, <2>1, <2>2
<1>10. BufsGrow
  <2>1. Buf(base, off, FALSE) \in BufSet
    BY WriterFacts DEF Buf, BufSet
  <2> QED
    BY <1>1, <1>4, <2>1 DEF BufsGrow
<1> QED
  BY <1>1, <1>8, <1>9, <1>10 DEF WInv

LEMMA WriteBytesEndStep == WInv /\ WriteBytesEnd => WInv' /\ BufsGrow
<1> SUFFICES ASSUME WInv, WriteBytesEnd PROVE WInv' /\ BufsGrow
  OBVIOUS
<1>1. /\ Op(wop).kind = "bytes" /\ copied = Op(wop).size /\ copied' = 0 /\ wop' = wop + 1
      /\ layout' = layout /\ wst' = wst /\ cap' = cap /\ base' = base /\ off' = off
      /\ bufs' = bufs /\ UNCHANGED <<readerVars, fed>>
  BY DEF WriteBytesEnd
<1>2. /\ wop \in 1..Len(layout) /\ Len(layout) \in Nat /\ wop # Len(layout) /\ wop # 1
      /\ wst = "run" /\ base \in Nat /\ off \in Nat /\ off # 0
      /\ off <= MAX_MESSAGE_BODY_LENGTH /\ cap = MAX_MESSAGE_BODY_LENGTH
  BY <1>1, WriterFacts
<1>3. Op(wop + 1).at = Op(wop).at + copied /\ Op(wop + 1).size \in Nat
  BY <1>1, <1>2, NextOperation DEF Extent
<1>4. wop' \in 1..Len(layout) /\ wop' # 1 /\ wop' \in Nat /\ wop <= wop'
  BY <1>1, <1>2
<1>5. WriterInv'
  <2>1. Op(wop)' = Op(wop + 1)
    BY <1>1 DEF Op
  <2>2. base' + off' = Op(wop + 1).at + copied'
    <3>1. base + off = Op(wop).at + copied
      BY WriterFacts
    <3>2. base + off \in Nat
      BY <1>2
    <3> QED
      BY <1>1, <1>3, <3>1, <3>2
  <2>3. copied' = 0 /\ 0 \in 0..Op(wop + 1).size
    BY <1>1, <1>3
  <2> QED
    BY <1>1, <1>2, <1>4, <2>1, <2>2, <2>3 DEF WriterInv
<1>6. BufsInv'
  <2>1. off' \in Nat /\ off <= off'
    BY <1>1, <1>2
  <2> QED
    BY <1>1, <1>4, <2>1, KeepBufs
<1>7. BufsGrow
  BY <1>1 DEF BufsGrow
<1> QED
  BY <1>1, <1>5, <1>6, <1>7 DEF WInv

LEMMA SinkLastStep == WInv /\ SinkLast => WInv' /\ BufsGrow
<1> SUFFICES ASSUME WInv, SinkLast PROVE WInv' /\ BufsGrow
  OBVIOUS
<1>1. /\ Op(wop).kind = "end" /\ wst = "run" /\ wst' = "done"
      /\ bufs' = Append(bufs, Buf(base, off, TRUE))
      /\ layout' = layout /\ wop' = wop /\ copied' = copied /\ cap' = cap
      /\ base' = base /\ off' = off /\ UNCHANGED <<readerVars, fed>>
  BY DEF SinkLast
<1>2. /\ wop \in Nat /\ Len(layout) \in Nat /\ wop = Len(layout)
      /\ base \in Nat /\ off \in Nat /\ off > 0
  BY <1>1, WriterFacts
<1>3. WriterInv'
  BY <1>1 DEF WInv, WriterInv, Op
<1>4. BufsInv'
  <2>1. base' \in Nat /\ off' \in Nat /\ base + off <= base' + off' /\ wop' \in Nat /\ wop <= wop'
    BY <1>1, <1>2
  <2>2. \A i \in 1..(Len(layout) - 1) :
          Op(i).at + Extent(Op(i)) <= base + off => i < wop'
    BY <1>1, <1>2
  <2>3. \A i \in 1..Len(layout) : Op(i).kind = "pod" =>
          base + off <= Op(i).at \/ Op(i).at + Op(i).size <= base + off
    BY <1>1, WriterPosition
  <2> QED
    BY <1>1, <1>2, <2>1, <2>2, <2>3, YieldBuf
<1>5. BufsGrow
  <2>1. Buf(base, off, TRUE) \in BufSet
    BY <1>2 DEF Buf, BufSet
  <2> QED
    BY <1>1, <2>1 DEF BufsGrow
<1> QED
  BY <1>1, <1>3, <1>4, <1>5 DEF WInv

\* A step of Write adds at most one buffer and leaves Read alone.
LEMMA WriteStep == IInv /\ Write => IInv'
<1> SUFFICES ASSUME IInv, Write PROVE IInv'
  OBVIOUS
<1>1. WInv' /\ BufsGrow
  BY WritePodStep, WriteReserveStep, WriteBytesStep, WriteBytesEndStep, SinkLastStep
     DEF Write, IInv
<1>2. layout' = layout /\ UNCHANGED <<readerVars, fed>>
  BY DEF Write, WritePod, WriteReserve, WriteBytes, WriteBytesEnd, SinkLast
<1>3. ReaderInv'
  BY <1>1, <1>2, WriterKeepsReader DEF BufsGrow
<1> QED
  BY <1>1, <1>3 DEF IInv
-----------------------------------------------------------------------------
(***************************************************************************)
(* The reader's steps.                                                     *)
(***************************************************************************)

\* The writer does not notice what the reader does.
LEMMA ReaderKeepsWriter ==
  ASSUME IInv, layout' = layout, UNCHANGED writerVars, ReaderInv'
  PROVE  IInv'
<1>1. /\ wst' = wst /\ wop' = wop /\ copied' = copied /\ cap' = cap /\ base' = base
      /\ off' = off /\ bufs' = bufs
  BY DEF writerVars
<1>2. WriterInv'
  BY <1>1 DEF IInv, WInv, WriterInv, Op
<1>3. BufsInv'
  BY <1>1, KeepBufs, WriterFacts DEF IInv
<1> QED
  BY <1>2, <1>3 DEF IInv, WInv

\* What holds of the reader's numbers while it runs.
LEMMA ReaderFacts ==
  ASSUME IInv, rst = "run"
  PROVE  /\ rop \in 1..Len(layout) /\ Len(layout) \in Nat
         /\ got \in Nat /\ got <= Op(rop).size /\ Op(rop).size \in Nat /\ Op(rop).at \in Nat
         /\ Op(rop).kind # "bytes" => got = 0
         /\ Op(rop).kind = "end" <=> rop = Len(layout)
         /\ chunk.base \in Nat /\ chunk.len \in Nat /\ roff \in Nat /\ roff <= chunk.len
         /\ chunk.base + roff = Op(rop).at + got
         /\ fed \in 1..Len(bufs) /\ chunk = bufs[fed]
<1>1. ReaderInv /\ layout \in Layouts
  BY DEF IInv, WInv
<1>2. rop \in 1..Len(layout) /\ chunk \in BufSet
  BY <1>1 DEF ReaderInv
<1>3. /\ Op(rop).size \in Nat /\ Op(rop).at \in Nat /\ Len(layout) \in Nat
      /\ Op(rop).kind = "end" <=> rop = Len(layout)
  BY <1>1, <1>2, LayoutFacts
<1>4. chunk.base \in Nat /\ chunk.len \in Nat
  BY <1>2 DEF BufSet
<1>5. fed \in 1..Len(bufs) /\ chunk = bufs[fed]
  BY <1>1, BufFacts DEF ReaderInv
<1> QED
  BY <1>1, <1>2, <1>3, <1>4, <1>5 DEF ReaderInv

\* Completing an operation leaves the reader where the next one's bytes are.
LEMMA ReaderAdvances ==
  ASSUME IInv, rst = "run", layout' = layout, rst' = "run", chunk' = chunk, fed' = fed,
         bufs' = bufs, rop # Len(layout), rop' = rop + 1, got' = 0,
         roff' \in Nat, roff' <= chunk.len,
         chunk.base + roff' = Op(rop).at + Extent(Op(rop))
  PROVE  ReaderInv'
<1>1. /\ rop' \in 1..Len(layout) /\ Op(rop + 1).at = Op(rop).at + Extent(Op(rop))
      /\ Op(rop + 1).size \in Nat
  <2>1. rop \in 1..Len(layout) /\ Len(layout) \in Nat /\ layout \in Layouts
    BY ReaderFacts DEF IInv, WInv
  <2>2. rop \in 1..(Len(layout) - 1) /\ rop + 1 \in 1..Len(layout)
    BY <2>1
  <2> QED
    BY <2>1, <2>2, LayoutFacts
<1>2. Op(rop)' = Op(rop + 1)
  BY DEF Op
<1>3. /\ chunk' \in BufSet /\ roff' \in 0..chunk'.len
      /\ fed' \in 0..Len(bufs') /\ fed' > 0 /\ chunk' = bufs'[fed']
  <2>1. fed \in 1..Len(bufs) /\ chunk = bufs[fed] /\ chunk.len \in Nat /\ Len(bufs) \in Nat
    BY ReaderFacts, BufFacts DEF IInv
  <2>2. chunk \in BufSet
    BY <2>1, BufFacts DEF IInv
  <2> QED
    BY <2>1, <2>2
<1>4. chunk'.base + roff' = Op(rop + 1).at + got'
  <2>1. Op(rop + 1).at \in Nat
    BY <1>1, LayoutFacts DEF IInv, WInv
  <2> QED
    BY <1>1, <2>1
<1>5. got' \in 0..Op(rop + 1).size
  BY <1>1
<1> QED
  BY <1>1, <1>2, <1>3, <1>4, <1>5 DEF ReaderInv, ReaderStates

LEMMA ReadReserveStep == IInv /\ ReadReserve => IInv'
<1> SUFFICES ASSUME IInv, ReadReserve PROVE IInv'
  OBVIOUS
<1>1. /\ rst = "run" /\ Op(rop).kind = "reserve" /\ rop' = rop + 1
      /\ layout' = layout /\ rst' = "run" /\ got' = got /\ chunk' = chunk /\ roff' = roff
      /\ fed' = fed /\ UNCHANGED writerVars
  BY DEF ReadReserve
<1>2. got = 0 /\ rop # Len(layout) /\ Extent(Op(rop)) = 0
  BY <1>1, ReaderFacts DEF Extent
<1>3. /\ chunk.base + roff' = Op(rop).at + Extent(Op(rop))
      /\ roff' \in Nat /\ roff' <= chunk.len
  <2>1. chunk.base + roff = Op(rop).at + got /\ roff \in Nat /\ roff <= chunk.len
    BY <1>1, ReaderFacts
  <2> QED
    BY <1>1, <1>2, <2>1
<1>4. ReaderInv'
  <2>1. bufs' = bufs /\ got' = 0
    BY <1>1, <1>2 DEF writerVars
  <2> QED
    BY <1>1, <1>2, <1>3, <2>1, ReaderAdvances
<1> QED
  BY <1>1, <1>4, ReaderKeepsWriter

LEMMA ReadPodStep == IInv /\ ReadPod => IInv'
<1> SUFFICES ASSUME IInv, ReadPod PROVE IInv'
  OBVIOUS
<1> DEFINE size == Op(rop).size
           readable == chunk.len - roff
<1>1. /\ rst = "run" /\ Op(rop).kind = "pod" /\ layout' = layout /\ chunk' = chunk
      /\ fed' = fed /\ UNCHANGED writerVars /\ bufs' = bufs
  BY DEF ReadPod, writerVars
<1>2. \/ /\ size <= readable /\ roff' = roff + size /\ rop' = rop + 1
         /\ rst' = rst /\ got' = got
      \/ size > readable /\ got' = readable /\ rst' = "wait" /\ rop' = rop /\ roff' = roff
  BY DEF ReadPod
<1>3. /\ got = 0 /\ rop # Len(layout) /\ size \in Nat /\ Extent(Op(rop)) = size
      /\ readable \in Nat /\ chunk.len \in Nat /\ roff \in Nat /\ chunk.base \in Nat
      /\ roff + readable = chunk.len /\ Op(rop).at \in Nat
      /\ chunk.base + roff = Op(rop).at
  BY <1>1, ReaderFacts DEF Extent
<1>4. CASE size <= readable /\ roff' = roff + size /\ rop' = rop + 1 /\ rst' = rst /\ got' = got
  <2>1. roff' \in Nat /\ roff' <= chunk.len
    <3>1. size \in Nat /\ roff \in Nat /\ readable \in Nat /\ roff + readable = chunk.len
      BY <1>3
    <3> HIDE DEF readable, size
    <3>2. roff + size \in Nat /\ roff + size <= roff + readable
      BY <1>4, <3>1
    <3> QED
      BY <1>4, <3>1, <3>2
  <2>2. chunk.base + roff' = Op(rop).at + Extent(Op(rop))
    <3>1. chunk.base + (roff + size) = (chunk.base + roff) + size
      BY <1>3
    <3> QED
      BY <1>3, <1>4, <3>1
  <2>3. ReaderInv'
    BY <1>1, <1>3, <1>4, <2>1, <2>2, ReaderAdvances
  <2> QED
    BY <1>1, <2>3, ReaderKeepsWriter
<1>5. CASE size > readable /\ got' = readable /\ rst' = "wait" /\ rop' = rop /\ roff' = roff
  <2>1. BufEnd(fed) = Op(rop).at + readable
    <3>1. BufEnd(fed) = chunk.base + chunk.len
      BY <1>1, ReaderFacts DEF BufEnd
    <3>2. chunk.base + (roff + readable) = (chunk.base + roff) + readable
      BY <1>3
    <3> QED
      BY <1>3, <3>1, <3>2
  <2>2. readable = 0
    <3>1. BufEnd(fed) <= Op(rop).at \/ Op(rop).at + size <= BufEnd(fed)
      BY <1>1, ReaderFacts DEF IInv, WInv, BufsInv, PodsWhole, BufEnd
    <3>2. readable \in Nat /\ Op(rop).at \in Nat /\ size \in Nat /\ size > readable
      BY <1>3, <1>5
    <3> HIDE DEF readable, size
    <3> QED
      BY <2>1, <3>1, <3>2
  <2>3. Op(rop)' = Op(rop) /\ BufEnd(fed)' = BufEnd(fed)
    BY <1>1, <1>5 DEF Op, BufEnd
  <2>4. got' \in 0..Op(rop).size /\ got' = 0 /\ got' < Op(rop).size
    <3> HIDE DEF readable
    <3>1. size \in Nat /\ size > readable
      BY <1>3, <1>5
    <3> QED
      BY <1>5, <2>2, <3>1
  <2>5. rop \in 1..Len(layout) /\ fed \in 1..Len(bufs) /\ chunk = bufs[fed] /\ chunk \in BufSet
        /\ roff \in 0..chunk.len
    BY <1>1, ReaderFacts DEF IInv, WInv, ReaderInv
  <2>6. ReaderInv'
    BY <1>1, <1>5, <2>1, <2>2, <2>3, <2>4, <2>5 DEF ReaderInv, ReaderStates
  <2> QED
    BY <1>1, <2>6, ReaderKeepsWriter
<1> QED
  BY <1>2, <1>4, <1>5

LEMMA ReadBytesStep == IInv /\ ReadBytes => IInv'
<1> SUFFICES ASSUME IInv, ReadBytes PROVE IInv'
  OBVIOUS
<1> DEFINE rest == Op(rop).size - got
           readable == MinOf(rest, chunk.len - roff)
<1>1. /\ rst = "run" /\ Op(rop).kind = "bytes" /\ rest > 0 /\ layout' = layout
      /\ chunk' = chunk /\ rop' = rop /\ fed' = fed /\ UNCHANGED writerVars /\ bufs' = bufs
  BY DEF ReadBytes, writerVars
<1>2. \/ chunk.len = roff /\ rst' = "wait" /\ got' = got /\ roff' = roff
      \/ got' = got + readable /\ roff' = roff + readable /\ rst' = rst
  BY DEF ReadBytes
<1>3. /\ rop \in 1..Len(layout) /\ fed \in 1..Len(bufs) /\ chunk = bufs[fed]
      /\ chunk \in BufSet /\ got \in Nat /\ Op(rop).size \in Nat /\ Op(rop).at \in Nat
      /\ chunk.base \in Nat /\ chunk.len \in Nat /\ roff \in Nat /\ roff <= chunk.len
      /\ chunk.base + roff = Op(rop).at + got
  BY <1>1, ReaderFacts DEF IInv, WInv, ReaderInv
<1>4. rest \in Nat /\ rest > 0 /\ got + rest = Op(rop).size
  <2>1. rest > 0
    BY <1>1
  <2>2. got \in Nat /\ Op(rop).size \in Nat
    BY <1>3
  <2> QED
    BY <2>1, <2>2
<1>5. Op(rop)' = Op(rop) /\ BufEnd(fed)' = BufEnd(fed)
  BY <1>1 DEF Op, BufEnd
<1>6. CASE chunk.len = roff /\ rst' = "wait" /\ got' = got /\ roff' = roff
  <2>1. got \in 0..Op(rop).size /\ got < Op(rop).size
    <3>1. got \in Nat /\ Op(rop).size \in Nat
      BY <1>3
    <3> HIDE DEF rest
    <3> QED
      BY <1>4, <3>1
  <2>2. BufEnd(fed) = Op(rop).at + got
    BY <1>3, <1>6 DEF BufEnd
  <2>3. ReaderInv'
    BY <1>1, <1>3, <1>5, <1>6, <2>1, <2>2 DEF ReaderInv, ReaderStates
  <2> QED
    BY <1>1, <2>3, ReaderKeepsWriter
<1>7. CASE got' = got + readable /\ roff' = roff + readable /\ rst' = rst
  <2>1. readable \in Nat /\ readable <= rest /\ readable <= chunk.len - roff
    <3> DEFINE left == chunk.len - roff
    <3>1. left \in Nat
      BY <1>3
    <3> HIDE DEF rest, left
    <3>2. MinOf(rest, left) \in Nat /\ MinOf(rest, left) <= rest /\ MinOf(rest, left) <= left
      BY <1>4, <3>1, MinOfFacts, Zenon
    <3> QED
      BY <3>2 DEF left
  <2> HIDE DEF readable, rest
  <2>2. got' \in 0..Op(rop).size
    <3>1. got \in Nat /\ Op(rop).size \in Nat
      BY <1>3
    <3> QED
      BY <1>4, <1>7, <2>1, <3>1
  <2>3. roff' \in 0..chunk.len
    <3>1. roff \in Nat /\ chunk.len \in Nat
      BY <1>3
    <3> QED
      BY <1>7, <2>1, <3>1
  <2>4. chunk.base + roff' = Op(rop).at + got'
    <3>1. chunk.base + (roff + readable) = (chunk.base + roff) + readable
      BY <1>3, <2>1
    <3>2. (Op(rop).at + got) + readable = Op(rop).at + (got + readable)
      BY <1>3, <2>1
    <3> QED
      BY <1>3, <1>7, <3>1, <3>2
  <2>5. ReaderInv'
    <3>1. fed' \in 0..Len(bufs') /\ fed' > 0 /\ chunk' = bufs'[fed'] /\ chunk' \in BufSet
      <4>1. Len(bufs) \in Nat /\ fed \in 1..Len(bufs) /\ fed' = fed /\ bufs' = bufs
        BY <1>1, <1>3, BufFacts DEF IInv
      <4> QED
        BY <1>1, <1>3, <4>1
    <3>2. Op(rop)'.kind = "bytes" /\ rop' \in 1..Len(layout') /\ rst' = "run"
      BY <1>1, <1>3, <1>5, <1>7
    <3>3. got' \in 0..Op(rop)'.size /\ roff' \in 0..chunk'.len
      BY <1>1, <1>5, <2>2, <2>3
    <3>4. chunk'.base + roff' = Op(rop)'.at + got'
      BY <1>1, <1>5, <2>4
    <3> QED
      BY <3>1, <3>2, <3>3, <3>4 DEF ReaderInv, ReaderStates
  <2> QED
    BY <1>1, <2>5, ReaderKeepsWriter
<1> QED
  BY <1>2, <1>6, <1>7

LEMMA ReadBytesEndStep == IInv /\ ReadBytesEnd => IInv'
<1> SUFFICES ASSUME IInv, ReadBytesEnd PROVE IInv'
  OBVIOUS
<1>1. /\ rst = "run" /\ Op(rop).kind = "bytes" /\ got = Op(rop).size /\ got' = 0
      /\ rop' = rop + 1 /\ layout' = layout /\ rst' = "run" /\ chunk' = chunk
      /\ roff' = roff /\ fed' = fed /\ UNCHANGED writerVars
  BY DEF ReadBytesEnd
<1>2. rop # Len(layout) /\ chunk.base + roff' = Op(rop).at + Extent(Op(rop))
      /\ roff' \in Nat /\ roff' <= chunk.len
  BY <1>1, ReaderFacts DEF Extent
<1>3. ReaderInv'
  BY <1>1, <1>2, ReaderAdvances DEF writerVars
<1> QED
  BY <1>1, <1>3, ReaderKeepsWriter

LEMMA ReadReturnStep == IInv /\ ReadReturn => IInv'
<1> SUFFICES ASSUME IInv, ReadReturn PROVE IInv'
  OBVIOUS
<1>1. /\ rst = "run" /\ Op(rop).kind = "end" /\ rst' = "done" /\ layout' = layout
      /\ rop' = rop /\ got' = got /\ chunk' = chunk /\ roff' = roff /\ fed' = fed
      /\ UNCHANGED writerVars /\ bufs' = bufs
  BY DEF ReadReturn, writerVars
<1>2. got = 0 /\ chunk.base + roff = Op(rop).at
  BY <1>1, ReaderFacts
<1>3. ReaderInv'
  BY <1>1, <1>2 DEF IInv, WInv, ReaderInv, ReaderStates, Op
<1> QED
  BY <1>1, <1>3, ReaderKeepsWriter

\* The next buffer begins where the reader's last one ended and is not empty,
\* and the writer has not gone past the object's end.
LEMMA NextBufFacts ==
  ASSUME IInv, fed < Len(bufs)
  PROVE  /\ fed \in Nat /\ fed + 1 \in 1..Len(bufs)
         /\ bufs[fed + 1] \in BufSet
         /\ bufs[fed + 1].base \in Nat /\ bufs[fed + 1].len \in Nat /\ bufs[fed + 1].len > 0
         /\ fed = 0 => bufs[fed + 1].base = 0
         /\ fed > 0 => bufs[fed + 1].base = BufEnd(fed)
         /\ bufs[fed + 1].base + bufs[fed + 1].len <= Op(Len(layout)).at
<1>1. fed \in Nat /\ fed + 1 \in 1..Len(bufs)
  BY BufFacts DEF IInv, ReaderInv
<1>2. fed + 1 - 1 = fed /\ (fed + 1 = 1 <=> fed = 0)
  BY <1>1
<1>3. WInv
  BY DEF IInv
<1> QED
  BY <1>1, <1>2, <1>3, BufPlace DEF BufEnd

LEMMA SinkNextStep == IInv /\ SinkNext => IInv'
<1> SUFFICES ASSUME IInv, SinkNext PROVE IInv'
  OBVIOUS
<1> DEFINE c == bufs[fed + 1]
           rest == Op(rop).size - got
<1>1. /\ fed < Len(bufs) /\ fed' = fed + 1 /\ layout' = layout /\ UNCHANGED writerVars
      /\ bufs' = bufs
  BY DEF SinkNext, writerVars
<1>2. /\ rst \in {"start", "wait", "done"}
      /\ \/ /\ rst = "start" \/ (rst = "wait" /\ Op(rop).kind = "bytes")
            /\ chunk' = c /\ roff' = 0 /\ rst' = "run" /\ rop' = rop /\ got' = got
         \/ /\ rst = "wait" /\ Op(rop).kind = "pod" /\ rest <= c.len
            /\ chunk' = c /\ roff' = rest /\ got' = 0 /\ rop' = rop + 1 /\ rst' = "run"
         \/ rst = "wait" /\ Op(rop).kind = "pod" /\ rest > c.len
         \/ rst = "done"
  BY DEF SinkNext, Sink
<1> HIDE DEF c
<1>3. /\ fed' \in 1..Len(bufs) /\ c \in BufSet /\ c.base \in Nat /\ c.len \in Nat /\ c.len > 0
      /\ (fed = 0 => c.base = 0) /\ (fed > 0 => c.base = BufEnd(fed))
      /\ c.base + c.len <= Op(Len(layout)).at /\ c = bufs[fed'] /\ fed \in Nat /\ fed' \in Nat
  BY <1>1, NextBufFacts DEF c
<1>4. /\ rop \in 1..Len(layout) /\ Len(layout) \in Nat /\ layout \in Layouts
      /\ got \in 0..Op(rop).size /\ Op(rop).size \in Nat /\ Op(rop).at \in Nat
      /\ Op(rop).kind # "bytes" => got = 0
      /\ Op(rop).kind = "end" <=> rop = Len(layout)
      /\ rst = "start" => rop = 1 /\ fed = 0
      /\ rst # "start" => fed > 0 /\ chunk = bufs[fed]
      /\ rst = "wait" => BufEnd(fed) = Op(rop).at + got
      /\ rst = "done" => Op(rop).kind = "end" /\ chunk.base + roff = Op(rop).at
  BY LayoutFacts DEF IInv, WInv, ReaderInv
<1>5. CASE /\ rst = "start" \/ (rst = "wait" /\ Op(rop).kind = "bytes")
           /\ chunk' = c /\ roff' = 0 /\ rst' = "run" /\ rop' = rop /\ got' = got
  <2>1. c.base + 0 = Op(rop).at + got
    <3>1. CASE rst = "start"
      <4>1. Op(rop).at = 0 /\ got = 0
        BY <1>4, <3>1, LayoutFacts
      <4> QED
        BY <1>3, <1>4, <3>1, <4>1
    <3>2. CASE rst = "wait"
      BY <1>3, <1>4, <3>2
    <3> QED
      BY <1>5, <3>1, <3>2
  <2>2. Op(rop)' = Op(rop)
    BY <1>1, <1>5 DEF Op
  <2>3. 0 \in 0..c.len
    BY <1>3
  <2>4. ReaderInv'
    BY <1>1, <1>3, <1>4, <1>5, <2>1, <2>2, <2>3 DEF ReaderInv, ReaderStates
  <2> QED
    BY <1>1, <2>4, ReaderKeepsWriter
<1>6. ASSUME rst = "wait", Op(rop).kind = "pod"
      PROVE  got = 0 /\ c.base = Op(rop).at /\ rest = Op(rop).size /\ rest <= c.len
  <2>1. got = 0 /\ c.base = Op(rop).at /\ rest = Op(rop).size
    BY <1>3, <1>4, <1>6
  <2>2. c.base + c.len <= Op(rop).at \/ Op(rop).at + Op(rop).size <= c.base + c.len
    BY <1>1, <1>3, <1>4, <1>6 DEF IInv, WInv, BufsInv, PodsWhole
  <2>3. Op(rop).size <= c.len
    <3>1. c.len \in Nat /\ c.len > 0 /\ Op(rop).at \in Nat /\ Op(rop).size \in Nat
      BY <1>3, <1>4
    <3> QED
      BY <2>1, <2>2, <3>1
  <2> QED
    BY <2>1, <2>3
<1>7. CASE /\ rst = "wait" /\ Op(rop).kind = "pod" /\ rest <= c.len
           /\ chunk' = c /\ roff' = rest /\ got' = 0 /\ rop' = rop + 1 /\ rst' = "run"
  <2>1. got = 0 /\ c.base = Op(rop).at /\ rest = Op(rop).size /\ rop # Len(layout)
    BY <1>4, <1>6, <1>7
  <2>2. rop + 1 \in 1..Len(layout) /\ rop \in 1..(Len(layout) - 1)
    BY <1>4, <2>1
  <2>3. /\ Op(rop + 1).at = Op(rop).at + Op(rop).size /\ Op(rop + 1).size \in Nat
        /\ Op(rop + 1).at \in Nat
    BY <1>4, <1>7, <2>2, LayoutFacts DEF Extent
  <2>4. Op(rop)' = Op(rop + 1)
    BY <1>1, <1>7 DEF Op
  <2>5. roff' \in 0..c.len
    BY <1>3, <1>4, <1>7, <2>1
  <2>6. c.base + roff' = Op(rop + 1).at + got' /\ got' \in 0..Op(rop + 1).size
    <3>1. c.base + roff' = Op(rop + 1).at /\ got' = 0
      BY <1>7, <2>1, <2>3
    <3> QED
      BY <2>3, <3>1
  <2>7. ReaderInv'
    BY <1>1, <1>3, <1>7, <2>2, <2>4, <2>5, <2>6 DEF ReaderInv, ReaderStates
  <2> QED
    BY <1>1, <2>7, ReaderKeepsWriter
<1>8. CASE rst = "wait" /\ Op(rop).kind = "pod" /\ rest > c.len
  <2>1. rest = Op(rop).size /\ rest <= c.len
    BY <1>6, <1>8
  <2>2. c.len \in Nat /\ Op(rop).size \in Nat
    BY <1>3, <1>4
  <2> HIDE DEF rest
  <2> QED
    BY <1>8, <2>1, <2>2
<1>9. CASE rst = "done"
  <2>1. /\ chunk.base + roff = Op(Len(layout)).at /\ c.base = BufEnd(fed) /\ chunk = bufs[fed]
        /\ roff \in 0..chunk.len /\ fed \in 1..Len(bufs)
    BY <1>1, <1>3, <1>4, <1>9, BufFacts DEF IInv, WInv, ReaderInv
  <2>2. chunk.base \in Nat /\ chunk.len \in Nat
    BY <2>1, BufFacts DEF IInv
  <2>3. Op(Len(layout)).at <= c.base
    BY <2>1, <2>2 DEF BufEnd
  <2>4. Op(Len(layout)).at \in Nat /\ c.base \in Nat /\ c.len \in Nat /\ c.len > 0
    BY <1>3, <1>4, <1>9
  <2> QED
    BY <1>3, <2>3, <2>4
<1> QED
  BY <1>2, <1>5, <1>7, <1>8, <1>9
-----------------------------------------------------------------------------
(***************************************************************************)
(* The theorems.                                                           *)
(***************************************************************************)

\* Every step of Write, of Read and of the driver preserves the invariant.
LEMMA NextInv == IInv /\ [Next]_vars => IInv'
<1> SUFFICES ASSUME IInv, [Next]_vars PROVE IInv'
  OBVIOUS
<1>1. CASE Write
  BY <1>1, WriteStep
<1>2. CASE Read
  BY <1>2, ReadPodStep, ReadReserveStep, ReadBytesStep, ReadBytesEndStep, ReadReturnStep
     DEF Read
<1>3. CASE SinkNext
  BY <1>3, SinkNextStep
<1>4. CASE UNCHANGED vars
  <2>1. /\ layout' = layout /\ UNCHANGED writerVars /\ rst' = rst /\ rop' = rop /\ got' = got
        /\ chunk' = chunk /\ roff' = roff /\ fed' = fed /\ bufs' = bufs
    BY <1>4 DEF vars, writerVars
  <2>2. ReaderInv'
    BY <2>1 DEF IInv, WInv, ReaderInv, BufEnd, Op
  <2> QED
    BY <2>1, <2>2, ReaderKeepsWriter
<1> QED
  BY <1>1, <1>2, <1>3, <1>4 DEF Next

\* The inductive invariant holds in every behaviour of the two coroutines.
THEOREM Invariance == Spec => []IInv
  BY InitInv, NextInv, PTL DEF Spec

\* Offsets stay inside the buffers and operations inside the object, for
\* every buffer length and every object: no step of Write or Read indexes
\* outside what it was given.
THEOREM TypeCorrect == Spec => []TypeOK
<1>1. IInv => TypeOK
  <2> SUFFICES ASSUME IInv PROVE TypeOK
    OBVIOUS
  <2>1. /\ wop \in 1..Len(layout) /\ copied \in Nat /\ base \in Nat
        /\ off \in 0..MAX_MESSAGE_BODY_LENGTH /\ cap \in {0, MAX_MESSAGE_BODY_LENGTH}
    BY WriterFacts DEF IInv
  <2>2. got \in Nat
    BY LayoutFacts DEF IInv, WInv, ReaderInv
  <2> QED
    BY <2>1, <2>2 DEF IInv, WInv, WriterInv, BufsInv, ReaderInv, TypeOK
<1> QED
  BY <1>1, Invariance, PTL

\* Read never finishes a plain value with bytes beyond its chunk and is never
\* resumed after it returned, whatever the object and the buffer length.
THEOREM ReadIsDefined == Spec => []NoUndefinedBehaviour
<1>1. IInv => NoUndefinedBehaviour
  BY DEF IInv, WInv, ReaderInv, NoUndefinedBehaviour
<1> QED
  BY <1>1, Invariance, PTL

\* Read takes each field's bytes from where Write laid them out.
THEOREM ReadIsAligned == Spec => []ReaderAligned
<1>1. IInv => ReaderAligned
  BY DEF IInv, WInv, ReaderInv, ReaderAligned
<1> QED
  BY <1>1, Invariance, PTL

\* The buffers tile the object's stream, none empty and none too long for a
\* message, and only the one sunk at the end is marked as the last.
THEOREM BuffersTile == Spec => []BufsTileStream
<1>1. IInv => BufsTileStream
  BY DEF IInv, WInv, BufsInv
<1> QED
  BY <1>1, Invariance, PTL

\* No buffer ends inside a plain value, whatever the buffer length.
THEOREM WholePods == Spec => []PodsWhole
<1>1. IInv => PodsWhole
  BY DEF IInv, WInv, BufsInv
<1> QED
  BY <1>1, Invariance, PTL
-----------------------------------------------------------------------------
(***************************************************************************)
(* Serialising implements the transfer of elements in order.               *)
(***************************************************************************)

\* The reader completes an operation only after the writer did.
LEMMA ReaderBehind ==
  ASSUME WInv, NEW k \in 1..Len(bufs), rop \in 1..Len(layout), rop # Len(layout),
         Op(rop).at + Extent(Op(rop)) <= BufEnd(k)
  PROVE  rop - 1 < wop - 1
<1>1. rop \in 1..(Len(layout) - 1)
  BY LayoutFacts DEF WInv
<1>2. rop < wop
  BY <1>1 DEF WInv, BufsInv
<1> QED
  BY <1>1, <1>2, WriterFacts

\* A step that completes an operation of the reader is the transfer's read.
LEMMA ReadsElement ==
  ASSUME WInv, NEW k \in 1..Len(bufs), rop \in 1..Len(layout), rop # Len(layout),
         Op(rop).at + Extent(Op(rop)) <= BufEnd(k),
         layout' = layout, wop' = wop, rop' = rop + 1
  PROVE  Transfer!Next
<1>1. rop \in Nat /\ rop - 1 < wop - 1
  BY ReaderBehind
<1>2. rop' - 1 = (rop - 1) + 1
  BY <1>1
<1> QED
  BY <1>1, <1>2 DEF Transfer!Next, Transfer!ReadElement

\* A step that completes an operation of the writer is the transfer's write.
LEMMA WritesElement ==
  ASSUME WInv, Op(wop).kind # "end", layout' = layout, wop' = wop + 1, rop' = rop
  PROVE  Transfer!Next
<1>1. wop \in Nat /\ wop - 1 < Len(layout) /\ wop' - 1 = (wop - 1) + 1
  <2>1. wop \in 1..Len(layout) /\ Len(layout) \in Nat /\ wop' = wop + 1
    BY WriterFacts
  <2> QED
    BY <2>1
<1> QED
  BY <1>1 DEF Transfer!Next, Transfer!WriteElement

\* A step of the writer, whoever reads.
LEMMA WriteTransfers ==
  ASSUME WInv, Write
  PROVE  Transfer!Next \/ (layout' = layout /\ wop' = wop /\ rop' = rop)
<1>1. CASE WritePod \/ WriteReserve \/ WriteBytesEnd
  BY <1>1, WritesElement DEF WritePod, WriteReserve, WriteBytesEnd, readerVars
<1>2. CASE WriteBytes \/ SinkLast
  BY <1>2 DEF WriteBytes, SinkLast, readerVars
<1> QED
  BY <1>1, <1>2 DEF Write

LEMMA TransferStep == IInv /\ [Next]_vars => [Transfer!Next]_(Transfer!vars)
<1> SUFFICES ASSUME IInv, [Next]_vars
             PROVE  Transfer!Next \/ (layout' = layout /\ wop' = wop /\ rop' = rop)
  BY DEF Transfer!vars
<1>1. WInv /\ ReaderInv /\ rop \in 1..Len(layout)
  BY DEF IInv, ReaderInv
<1>2. CASE Write
  BY <1>1, <1>2, WriteTransfers
<1>3. CASE ReadPod
  <2>1. CASE rop' = rop
    BY <1>3, <2>1 DEF ReadPod, writerVars
  <2>2. CASE rop' # rop
    <3>1. /\ Op(rop).kind = "pod" /\ rst = "run" /\ Op(rop).size <= chunk.len - roff
          /\ rop' = rop + 1 /\ layout' = layout /\ wop' = wop
      BY <1>3, <2>2 DEF ReadPod, writerVars
    <3>2. /\ rop # Len(layout) /\ fed \in 1..Len(bufs) /\ BufEnd(fed) = chunk.base + chunk.len
          /\ Extent(Op(rop)) = Op(rop).size
      BY <3>1, ReaderFacts DEF BufEnd, Extent
    <3>3. /\ chunk.base + roff = Op(rop).at + 0 /\ chunk.base \in Nat /\ chunk.len \in Nat
          /\ roff \in Nat /\ Op(rop).at \in Nat /\ Op(rop).size \in Nat
      BY <3>1, ReaderFacts
    <3>4. Op(rop).at + Op(rop).size <= chunk.base + chunk.len
      BY <3>1, <3>3
    <3> QED
      BY <1>1, <3>1, <3>2, <3>4, ReadsElement
  <2> QED
    BY <2>1, <2>2
<1>4. CASE ReadReserve \/ ReadBytesEnd
  <2>1. /\ rst = "run" /\ rop' = rop + 1 /\ layout' = layout /\ wop' = wop
        /\ \/ Op(rop).kind = "reserve"
           \/ Op(rop).kind = "bytes" /\ got = Op(rop).size
    BY <1>4 DEF ReadReserve, ReadBytesEnd, writerVars
  <2>2. /\ rop # Len(layout) /\ fed \in 1..Len(bufs) /\ BufEnd(fed) = chunk.base + chunk.len
        /\ Extent(Op(rop)) = got
    BY <2>1, ReaderFacts DEF BufEnd, Extent
  <2>3. Op(rop).at + got <= chunk.base + chunk.len
    <3>1. /\ chunk.base + roff = Op(rop).at + got /\ chunk.base \in Nat /\ chunk.len \in Nat
          /\ roff \in Nat /\ roff <= chunk.len
      BY <2>1, ReaderFacts
    <3> QED
      BY <3>1
  <2> QED
    BY <1>1, <2>1, <2>2, <2>3, ReadsElement
<1>5. CASE ReadBytes \/ ReadReturn
  BY <1>5 DEF ReadBytes, ReadReturn, writerVars
<1>6. CASE SinkNext
  <2>1. CASE rop' = rop
    BY <1>6, <2>1 DEF SinkNext, writerVars
  <2>2. CASE rop' # rop
    <3>1. layout' = layout /\ wop' = wop /\ fed < Len(bufs)
      BY <1>6 DEF SinkNext, writerVars
    <3>2. CASE /\ rst = "wait" /\ Op(rop).kind = "pod"
               /\ Op(rop).size - got <= bufs[fed + 1].len /\ rop' = rop + 1
      <4>1. /\ got = 0 /\ rop \in 1..Len(layout) /\ rop # Len(layout)
            /\ Op(rop).size \in Nat /\ Op(rop).at \in Nat /\ fed > 0
            /\ BufEnd(fed) = Op(rop).at + 0 /\ Extent(Op(rop)) = Op(rop).size
        BY <3>2, LayoutFacts DEF IInv, WInv, ReaderInv, Extent
      <4>2. /\ fed + 1 \in 1..Len(bufs) /\ bufs[fed + 1].len \in Nat
            /\ bufs[fed + 1].base = Op(rop).at
        BY <3>1, <4>1, NextBufFacts DEF IInv
      <4>3. Op(rop).at + Op(rop).size <= BufEnd(fed + 1)
        BY <3>2, <4>1, <4>2 DEF BufEnd
      <4> QED
        BY <1>1, <3>1, <3>2, <4>1, <4>2, <4>3, ReadsElement
    <3>3. \/ rop' = rop
          \/ /\ rst = "wait" /\ Op(rop).kind = "pod"
             /\ Op(rop).size - got <= bufs[fed + 1].len /\ rop' = rop + 1
      BY <1>6 DEF SinkNext, Sink
    <3> QED
      BY <2>2, <3>2, <3>3
  <2> QED
    BY <2>1, <2>2
<1>7. CASE UNCHANGED vars
  BY <1>7 DEF vars
<1> QED
  BY <1>2, <1>3, <1>4, <1>5, <1>6, <1>7 DEF Next, Read

\* Write and Read implement the transfer of an object's elements: Read
\* completes them one by one, in order, each after Write did.
THEOREM SerialisingTransfers == Spec => TransferSpec
<1>1. Init => Transfer!Init
  BY LayoutFacts DEF Init, Transfer!Init
<1>2. IInv /\ [Next]_vars => [Transfer!Next]_(Transfer!vars)
  BY TransferStep
<1> QED
  BY <1>1, <1>2, Invariance, PTL DEF Spec, TransferSpec, Transfer!Spec
=============================================================================
