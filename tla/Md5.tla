--------------------------------- MODULE Md5 ---------------------------------
(***************************************************************************)
(* common/crypto/Md5.cpp: MD5::GenerateMD5, which cuts a message, its      *)
(* padding and its length into blocks and digests each.  What md5_process  *)
(* does to the four words of the state is left out: a digest is the blocks *)
(* it was given.  A byte is its number in the message, or one of those     *)
(* below.  uint32 is unsigned long, of 64 bits: it loses nothing here, and *)
(* total[0] is cut to a word where the code says so.                       *)
(***************************************************************************)
EXTENDS Integers, Sequences

CONSTANTS
  Block,      \* the bytes of a block, 64
  LengthSize, \* the bytes of the length, 8
  Byte,       \* the bits of a byte, 8
  Units,      \* the bytes that half of the length can count, 2 ^ 29
  Sizes       \* the lengths of messages

ASSUME BlockAssumption ==
  /\ LengthSize \in Nat /\ Block \in Nat /\ LengthSize < Block
  /\ Byte \in Nat \ {0} /\ Units \in Nat \ {0} /\ Units % Block = 0
  /\ Sizes \subseteq Nat

VARIABLES
  size,    \* bufferlen
  total,   \* ctx->total: the bits so far
  buffer,  \* ctx->buffer, and
  left,    \*   how much of it is in use when an update goes on
  input,   \* what is left of the input of md5_update
  calls,   \* the inputs of the calls of md5_update to come
  blocks,  \* the blocks that were digested
  finished, \* md5_finish has begun
  length   \* msglen

md5Vars == <<size, total, buffer, left, input, calls, blocks, finished, length>>

\* Half of the length is cut to this: 2 ^ 32.
Word == Byte * Units

One == -1
Zero == 0
LengthByte(i) == -1 - i

Md5Init ==
  /\ size \in Sizes
  /\ total = <<0, 0>>
  /\ buffer = [i \in 1..Block |-> Zero] /\ left = 0
  /\ input = <<>> /\ calls = <<[i \in 1..size |-> i]>>
  /\ blocks = <<>> /\ finished = FALSE /\ length = <<0, 0>>

\* The bytes in the buffer that are still to be digested, by the length so far.
InBuffer == (total[1] \div Byte) % Block

\* Mutant: the low word of the length is not cut.
CountUncut(n) == <<total[1] + n * Byte, total[2]>>

\* The length so far with n bytes more; the carry compares with a number that
\* was not cut.
Count(n) ==
  LET low == (total[1] + n * Byte) % Word IN
  <<low, total[2] + n \div Units + IF low < n * Byte THEN 1 ELSE 0>>

\* md5_update begins.
Update ==
  /\ input = <<>> /\ calls # <<>>
  /\ input' = Head(calls) /\ calls' = Tail(calls)
  /\ left' = InBuffer
  /\ total' = Count(Len(Head(calls)))
  /\ UNCHANGED <<size, buffer, blocks, finished, length>>

Process(block) == blocks' = Append(blocks, block)

\* The buffer is filled, and is a block.
Fill ==
  LET fill == Block - left IN
  /\ left > 0 /\ Len(input) >= fill
  /\ buffer' = SubSeq(buffer, 1, left) \o SubSeq(input, 1, fill)
  /\ Process(buffer')
  /\ input' = SubSeq(input, fill + 1, Len(input)) /\ left' = 0
  /\ UNCHANGED <<size, total, calls, finished, length>>

\* A block of the input itself.
Whole ==
  /\ left = 0 /\ Len(input) >= Block
  /\ Process(SubSeq(input, 1, Block))
  /\ input' = SubSeq(input, Block + 1, Len(input))
  /\ UNCHANGED <<size, total, buffer, left, calls, finished, length>>

\* What is left waits in the buffer.
Rest ==
  /\ input # <<>> /\ Len(input) < Block - left
  /\ buffer' = SubSeq(buffer, 1, left) \o input
                 \o SubSeq(buffer, left + Len(input) + 1, Block)
  /\ input' = <<>>
  /\ UNCHANGED <<size, total, left, calls, blocks, finished, length>>

\* Mutant: where the length just fits no padding is added.
PaddingNone ==
  LET room == Block - LengthSize IN
  IF InBuffer <= room THEN room - InBuffer ELSE Block + room - InBuffer

\* How many bytes md5_finish pads the message with.
Padding ==
  LET room == Block - LengthSize IN
  IF InBuffer < room THEN room - InBuffer ELSE Block + room - InBuffer

\* md5_finish: the length so far is kept; the padding and the length follow.
Finish ==
  /\ input = <<>> /\ calls = <<>> /\ ~finished
  /\ finished' = TRUE
  /\ length' = total
  /\ calls' = << [i \in 1..Padding |-> IF i = 1 THEN One ELSE Zero],
                 [i \in 1..LengthSize |-> LengthByte(i)] >>
  /\ UNCHANGED <<size, total, buffer, left, input, blocks>>

Md5Next == Update \/ Fill \/ Whole \/ Rest \/ Finish

Md5Spec == Md5Init /\ [][Md5Next]_md5Vars
-----------------------------------------------------------------------------
(***************************************************************************)
(* What must hold.                                                         *)
(***************************************************************************)

Digested == finished /\ calls = <<>> /\ input = <<>>

\* The length in bits as the algorithm wants it, in two halves.
BitLength == <<(size * Byte) % Word, (size * Byte) \div Word>>

\* The blocks digested are those of the algorithm, however the ends of the
\* message, of its padding and of the blocks fall: the message, a one, as few
\* zeros as lead to a whole block, the length.  The length is right for every
\* message of fewer than Units bytes, which is 512 MB.
Padded ==
  Digested =>
    LET end == Len(blocks) * Block - LengthSize
        ByteAt(i) == CASE i \in 1..size -> i
                       [] i = size + 1 -> One
                       [] i \in size + 2..end -> Zero
                       [] i > end -> LengthByte(i - end)
    IN
    /\ end - size \in 1..Block
    /\ \A k \in 1..Len(blocks) :
         blocks[k] = [j \in 1..Block |-> ByteAt((k - 1) * Block + j)]
    /\ size < Units => length = BitLength

\* The variables hold values of their types.
Md5TypeOK ==
  /\ size \in Sizes /\ total[1] \in 0..(Word - 1) /\ total[2] \in Nat
  /\ Len(buffer) = Block /\ left \in 0..(Block - 1) /\ finished \in BOOLEAN
=============================================================================
