------------------------------ MODULE SPSCArray ------------------------------
(***************************************************************************)
(* common/SPSCArray.h: a ring of mCapacity slots between one thread that   *)
(* pushes and one that takes, in its three specialisations.  Positions are *)
(* counted without end here and become the signed mWritePos and mReadPos   *)
(* of Bits bits where the code compares or indexes with them.              *)
(*                                                                         *)
(* An atomic position is stored with release: another thread that sees it  *)
(* sees the slot accesses before it done.  A position that is a plain      *)
(* int32_t may be seen before them (the data race is undefined behaviour,  *)
(* and compilers and processors do reorder the two): slot stores and loads *)
(* are therefore kept under way until they are done, in any order, and a   *)
(* position is seen some time after it was stored.                         *)
(***************************************************************************)
EXTENDS Integers, FiniteSets

CONSTANTS
  Capacity,  \* mCapacity
  Bits,      \* the width of a position, 32 in the code
  MaxPushes  \* bound: how often the model pushes

ASSUME SizesAssumption ==
  /\ Capacity \in Nat \ {0} /\ Bits \in Nat \ {0} /\ MaxPushes \in Nat \ {0}
  /\ 2 ^ (Bits - 1) \in Nat /\ Capacity < 2 ^ (Bits - 1)

VARIABLES
  ring,     \* the specialisation in use
  data,     \* mData: slot -> the number of the push whose value is in it
  pushed,   \* mWritePos, as the producer knows it
  storing,  \* positions whose slot store is under way
  wseen,    \* mWritePos, as the consumer sees it
  taken,    \* mReadPos, as the consumer knows it
  loading,  \* positions whose slot load is under way
  rseen,    \* mReadPos, as the producer sees it
  ready,    \* how many elements Valid has told the consumer of
  walk,     \* consume_all's locals readPos and writePos, or NoWalk
  last,     \* the last load: its position and the push it found
  fault     \* "none", or "index": a slot with a negative index was used

vars == <<ring, data, pushed, storing, wseen, taken, loading, rseen, ready, walk,
          last, fault>>

producerVars == <<data, pushed, storing>>
consumerVars == <<taken, ready, walk>>

\* The specialisations: which of the positions is atomic, and whether it is one
\* for two threads.
Plain == [atomic |-> {}, shared |-> FALSE]
AtomicWrite == [atomic |-> {"write"}, shared |-> TRUE]
AtomicRead == [atomic |-> {"read"}, shared |-> TRUE]

NoWalk == [at |-> 0, to |-> -1]

\* A position is one of -Half .. Half - 1.
Half == 2 ^ (Bits - 1)

\* The int32_t that holds n.
Signed(n) ==
  LET m == n % (2 * Half) IN IF m < Half THEN m ELSE m - 2 * Half

Abs(n) == IF n < 0 THEN -n ELSE n

\* pos % mCapacity, which has the sign of pos.
Index(n) ==
  LET pos == Signed(n) IN
  IF pos < 0 THEN -(Abs(pos) % Capacity) ELSE pos % Capacity

Init ==
  /\ ring \in {Plain, AtomicWrite, AtomicRead}
  /\ data = [i \in 0..(Capacity - 1) |-> 0]
  /\ pushed = 0 /\ storing = {} /\ wseen = 0
  /\ taken = 0 /\ loading = {} /\ rseen = 0
  /\ ready = 0 /\ walk = NoWalk
  /\ last = [pos |-> 0, push |-> 1] /\ fault = "none"

\* Within one thread everything is done in the order of the program.
InOrder ==
  ring.shared \/ (storing = {} /\ loading = {} /\ wseen = pushed /\ rseen = taken)

\* What another thread sees of a position comes after the slot accesses that
\* came before it.
Released(position) == ~ring.shared \/ position \in ring.atomic
-----------------------------------------------------------------------------
(***************************************************************************)
(* Push, by a producer that keeps to the assertion, for instance by        *)
(* looking at Size first.                                                  *)
(***************************************************************************)

\* Mutant: a full ring is not found full.
PushWhenFull ==
  /\ fault = "none" /\ InOrder /\ pushed < MaxPushes
  /\ Signed(pushed - rseen) <= Capacity
  /\ IF Index(pushed) < 0
     THEN fault' = "index" /\ UNCHANGED storing
     ELSE storing' = storing \cup {pushed} /\ UNCHANGED fault
  /\ pushed' = pushed + 1
  /\ UNCHANGED <<ring, data, wseen, rseen, loading, last, consumerVars>>

Push ==
  /\ fault = "none" /\ InOrder /\ pushed < MaxPushes
  /\ Signed(pushed - rseen) < Capacity
  /\ IF Index(pushed) < 0
     THEN fault' = "index" /\ UNCHANGED storing
     ELSE storing' = storing \cup {pushed} /\ UNCHANGED fault
  /\ pushed' = pushed + 1
  /\ UNCHANGED <<ring, data, wseen, rseen, loading, last, consumerVars>>

\* The store of a slot is done; two stores of one slot keep their order.
Stored(n) ==
  /\ n \in storing
  /\ \A m \in storing : m < n => Index(m) # Index(n)
  /\ data' = [data EXCEPT ![Index(n)] = n + 1]
  /\ storing' = storing \ {n}
  /\ UNCHANGED <<ring, pushed, wseen, rseen, loading, last, fault, consumerVars>>

\* Mutant: the atomic position is stored without release.
WriteSeenRelaxed ==
  /\ wseen < pushed
  /\ wseen' = wseen + 1
  /\ UNCHANGED <<ring, rseen, loading, last, fault, producerVars, consumerVars>>

\* The next value of mWritePos is seen by the consumer.
WriteSeen ==
  /\ wseen < pushed
  /\ Released("write") => wseen \notin storing
  /\ wseen' = wseen + 1
  /\ UNCHANGED <<ring, rseen, loading, last, fault, producerVars, consumerVars>>
-----------------------------------------------------------------------------
(***************************************************************************)
(* The consumer: Valid, First and Pop or Skip, or else consume_all.        *)
(***************************************************************************)

\* The slot of position n is read: First, At and the callback of consume_all.
Load(n) ==
  IF Index(n) < 0
  THEN fault' = "index" /\ UNCHANGED loading
  ELSE loading' = loading \cup {n} /\ UNCHANGED fault

\* Valid(k) was true, and First(k) is read.
First(k) ==
  /\ fault = "none" /\ InOrder /\ walk = NoWalk
  /\ Signed(Signed(wseen - taken) - k) > 0
  /\ ready' = IF ready > k THEN ready ELSE k + 1
  /\ Load(taken + k)
  /\ UNCHANGED <<ring, producerVars, wseen, taken, rseen, walk, last>>

\* Pop, which is Skip(1), or Skip(k), of elements known to be there.
Skip(k) ==
  /\ fault = "none" /\ InOrder /\ walk = NoWalk /\ k <= ready
  /\ taken' = taken + k
  /\ ready' = ready - k
  /\ UNCHANGED <<ring, producerVars, wseen, rseen, loading, walk, last, fault>>

\* consume_all reads the two positions.
ConsumeAll ==
  /\ fault = "none" /\ InOrder /\ walk = NoWalk
  /\ walk' = [at |-> taken, to |-> wseen]
  /\ UNCHANGED <<ring, producerVars, wseen, taken, loading, rseen, ready, last, fault>>

\* One turn of its loop.
Consume ==
  /\ fault = "none" /\ InOrder /\ walk # NoWalk
  /\ Signed(walk.at) < Signed(walk.to)
  /\ Load(walk.at)
  /\ walk' = [walk EXCEPT !.at = @ + 1]
  /\ UNCHANGED <<ring, producerVars, wseen, taken, rseen, ready, last>>

\* Mutant: the elements are given back to the producer at the loop's start.
ConsumedFirst ==
  /\ fault = "none" /\ InOrder /\ walk # NoWalk
  /\ taken' = walk.to
  /\ ready' = 0
  /\ walk' = IF Signed(walk.at) < Signed(walk.to) THEN walk ELSE NoWalk
  /\ UNCHANGED <<ring, producerVars, wseen, loading, rseen, last, fault>>

\* Mutant: the read position is not stored at the end.
ConsumedUnstored ==
  /\ fault = "none" /\ InOrder /\ walk # NoWalk
  /\ ~(Signed(walk.at) < Signed(walk.to))
  /\ walk' = NoWalk
  /\ UNCHANGED <<ring, producerVars, wseen, taken, loading, rseen, ready, last, fault>>

\* Its end, where mReadPos is stored.
Consumed ==
  /\ fault = "none" /\ InOrder /\ walk # NoWalk
  /\ ~(Signed(walk.at) < Signed(walk.to))
  /\ taken' = walk.at
  /\ ready' = 0
  /\ walk' = NoWalk
  /\ UNCHANGED <<ring, producerVars, wseen, loading, rseen, last, fault>>

\* The load of a slot is done.
Loaded(n) ==
  /\ n \in loading
  /\ last' = [pos |-> n, push |-> data[Index(n)]]
  /\ loading' = loading \ {n}
  /\ UNCHANGED <<ring, producerVars, wseen, rseen, fault, consumerVars>>

\* The next value of mReadPos is seen by the producer.
ReadSeen ==
  /\ rseen < taken
  /\ Released("read") => rseen \notin loading
  /\ rseen' = rseen + 1
  /\ UNCHANGED <<ring, producerVars, wseen, loading, last, fault, consumerVars>>

Positions == 0..MaxPushes

Next ==
  \/ Push
  \/ \E n \in Positions : Stored(n)
  \/ WriteSeen
  \/ \E k \in 0..(Capacity - 1) : First(k)
  \/ \E k \in 1..Capacity : Skip(k)
  \/ ConsumeAll \/ Consume \/ Consumed
  \/ \E n \in Positions : Loaded(n)
  \/ ReadSeen

Spec == Init /\ [][Next]_vars

\* Stores and loads that are under way are done some day, and the consumer calls
\* consume_all again and again.
Fairness ==
  /\ WF_vars(\E n \in Positions : Stored(n) \/ Loaded(n))
  /\ WF_vars(WriteSeen) /\ WF_vars(ReadSeen)
  /\ SF_vars(ConsumeAll) /\ WF_vars(Consume) /\ WF_vars(Consumed)

FairSpec == Spec /\ Fairness
-----------------------------------------------------------------------------
(***************************************************************************)
(* What must hold.                                                         *)
(***************************************************************************)

\* The variables hold values of their types, and no thread sees a position that
\* was not stored or takes an element that was not pushed (SPSCArray's members).
TypeOK ==
  /\ ring \in {Plain, AtomicWrite, AtomicRead}
  /\ data \in [0..(Capacity - 1) -> 0..MaxPushes]
  /\ pushed \in Positions /\ storing \subseteq 0..(pushed - 1) /\ wseen \in 0..pushed
  /\ taken \in 0..wseen /\ loading \subseteq 0..(wseen - 1) /\ rseen \in 0..taken
  /\ ready \in 0..(wseen - taken)
  /\ walk = NoWalk \/ (walk.at \in taken..walk.to /\ walk.to \in 0..wseen)
  /\ last \in [pos : Positions, push : 0..MaxPushes]
  /\ fault \in {"none", "index"}

\* A value taken is never older than the one pushed at its position, in the
\* specialisations whose producer releases mWritePos: Push's store of the slot
\* comes before it.  With a plain mWritePos it may be.
NeverStale == Released("write") => last.push >= last.pos + 1

\* A value taken is never newer than the one pushed at its position, in the
\* specialisations whose consumer releases mReadPos: Push does not reuse a slot
\* that is still to be read.  With a plain mReadPos it may.
NeverOverwritten == Released("read") => last.push <= last.pos + 1

\* The positions fit their width so far.
Unwrapped == pushed < Half

\* Every element pushed is taken by a consumer that calls consume_all, in each
\* specialisation, as long as mWritePos has not wrapped around: from then on
\* consume_all's readPos < writePos may find nothing, or an index be negative.
Drained == \A n \in 1..MaxPushes : (pushed >= n) ~> (taken >= n \/ ~Unwrapped)
=============================================================================
