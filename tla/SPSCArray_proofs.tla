--------------------------- MODULE SPSCArray_proofs ---------------------------
(***************************************************************************)
(* Proofs about the ring buffer, for any capacity, width of a position and *)
(* number of pushes, wrapped around or not.                                *)
(***************************************************************************)
EXTENDS SPSCArray, TLAPS

(***************************************************************************)
(* Remainders and indices.                                                 *)
(***************************************************************************)

\* A multiple of c that is less than c either way is zero.
LEMMA Times ==
  ASSUME NEW c \in Nat \ {0}, NEW z \in Int, -c < c * z, c * z < c
  PROVE  z = 0
<1>1. CASE z >= 1
  BY <1>1
<1>2. CASE z <= -1
  BY <1>2
<1> QED
  BY <1>1, <1>2

\* Division with remainder.
LEMMA Quotient ==
  ASSUME NEW c \in Nat \ {0}, NEW x \in Int
  PROVE  \E q \in Int : x = c * q + (x % c)
<1>1. x \div c \in Int /\ x = c * (x \div c) + (x % c)
  OBVIOUS
<1> QED
  BY <1>1

\* Two numbers with the same multiple of c between them and their remainders.
LEMMA SameRemainder ==
  ASSUME NEW c \in Nat \ {0}, NEW a \in Int, NEW b \in Int, NEW r \in 0..(c - 1),
         NEW s \in 0..(c - 1), c * a + r = c * b + s
  PROVE  r = s
<1>1. PICK z \in Int : z = a - b
  OBVIOUS
<1>2. c * z = c * a - c * b
  BY <1>1
<1>3. c * z = s - r
  <2>1. PICK u \in Int : u = c * a
    OBVIOUS
  <2>2. PICK v \in Int : v = c * b
    OBVIOUS
  <2> QED
    BY <1>2, <2>1, <2>2
<1>4. z = 0
  <2>1. PICK u \in Int : u = c * z
    OBVIOUS
  <2>2. -c < u /\ u < c
    BY <1>3, <2>1
  <2> QED
    BY <2>1, <2>2, Times
<1>5. c * z = 0
  BY <1>4
<1> QED
  BY <1>3, <1>5

\* A multiple of c more leaves the remainder.
LEMMA Remainder ==
  ASSUME NEW c \in Nat \ {0}, NEW x \in Int, NEW y \in Int, NEW k \in Int, x = c * k + y
  PROVE  x % c = y % c
<1>1. x % c \in 0..(c - 1) /\ y % c \in 0..(c - 1)
  OBVIOUS
<1>2. PICK a \in Int : x = c * a + (x % c)
  BY Quotient
<1>3. PICK b \in Int : y = c * b + (y % c)
  BY Quotient
<1>4. PICK r \in 0..(c - 1), s \in 0..(c - 1) : r = x % c /\ s = y % c
  BY <1>1
<1>5. c * (k + b) = c * k + c * b
  OBVIOUS
<1>6. PICK e \in Int : e = k + b
  OBVIOUS
<1>7. c * a + r = c * e + s
  <2>1. PICK u \in Int : u = c * a
    OBVIOUS
  <2>2. PICK v \in Int : v = c * b
    OBVIOUS
  <2>3. PICK w \in Int : w = c * k
    OBVIOUS
  <2>4. u + r = w + (v + s)
    BY <1>2, <1>3, <1>4, <2>1, <2>2, <2>3
  <2> QED
    BY <1>5, <1>6, <2>1, <2>2, <2>3, <2>4
<1> QED
  BY <1>4, <1>7, SameRemainder

\* Numbers less than c apart have different remainders.
LEMMA Apart ==
  ASSUME NEW c \in Nat \ {0}, NEW n \in Int, NEW m \in Int, n < m, m < n + c
  PROVE  n % c # m % c
<1> SUFFICES ASSUME n % c = m % c PROVE FALSE
  OBVIOUS
<1>1. PICK a \in Int : m = c * a + (m % c)
  BY Quotient
<1>2. PICK b \in Int : n = c * b + (n % c)
  BY Quotient
<1>3. PICK z \in Int : z = a - b
  OBVIOUS
<1>4. c * z = c * a - c * b
  BY <1>3
<1>5. c * z = m - n
  <2>1. PICK u \in Int : u = c * a
    OBVIOUS
  <2>2. PICK v \in Int : v = c * b
    OBVIOUS
  <2>3. n % c \in Int
    OBVIOUS
  <2> QED
    BY <1>1, <1>2, <1>4, <2>1, <2>2, <2>3
<1>6. z = 0
  <2>1. PICK u \in Int : u = c * z
    OBVIOUS
  <2>2. -c < u /\ u < c
    BY <1>5, <2>1
  <2> QED
    BY <2>1, <2>2, Times
<1>7. c * z = 0
  BY <1>6
<1> QED
  BY <1>5, <1>7

\* The widths.
LEMMA HalfIs == Half \in Nat \ {0} /\ Capacity \in Nat \ {0} /\ Capacity < Half
<1> DEFINE h == 2 ^ (Bits - 1)
<1>1. h \in Nat /\ Capacity < h /\ Capacity \in Nat \ {0}
  BY SizesAssumption
<1> HIDE DEF h
<1>2. h \in Nat \ {0}
  BY <1>1
<1> QED
  BY <1>1, <1>2 DEF Half, h

\* What fits is itself.
LEMMA SignedIs ==
  ASSUME NEW n \in Int
  PROVE  /\ Signed(n) \in Int /\ -Half <= Signed(n) /\ Signed(n) < Half
         /\ -Half <= n /\ n < Half => Signed(n) = n
<1>1. Half \in Nat \ {0}
  BY HalfIs
<1>2. n % (2 * Half) \in 0..(2 * Half - 1)
  BY <1>1, Quotient
<1>3. n \in 0..(2 * Half - 1) => n % (2 * Half) = n
  BY <1>1
<1>4. -(2 * Half) <= n /\ n < 0 => n % (2 * Half) = n + 2 * Half
  BY <1>1
<1> QED
  BY <1>1, <1>2, <1>3, <1>4 DEF Signed

\* The remainder of a position of which all the ones before have a slot.
LEMMA IndexIs ==
  ASSUME NEW n \in Nat
  PROVE  /\ Index(n) \in Int /\ Index(n) < Capacity
         /\ (\A k \in 0..n : Index(k) >= 0) => Index(n) = n % Capacity
<1>0. Half \in Nat \ {0} /\ Capacity \in Nat \ {0} /\ Capacity < Half
  BY HalfIs
<1>1. /\ Index(n) \in Int /\ Index(n) < Capacity
  <2>1. Signed(n) \in Int
    BY SignedIs
  <2>2. Signed(n) % Capacity \in 0..(Capacity - 1) /\ Abs(Signed(n)) % Capacity \in 0..(Capacity - 1)
    BY <1>0, <2>1 DEF Abs
  <2> QED
    BY <1>0, <2>1, <2>2 DEF Index
<1>2. ASSUME \A k \in 0..n : Index(k) >= 0 PROVE Index(n) = n % Capacity
  <2>1. CASE n < Half
    <3>1. Signed(n) = n
      BY <1>0, <2>1, SignedIs
    <3> QED
      BY <3>1 DEF Index
  <2>2. CASE n >= Half
    <3>1. Half % Capacity = 0
      <4>1. Signed(Half) = -Half
        <5>1. Half % (2 * Half) = Half
          BY <1>0
        <5> QED
          BY <1>0, <5>1 DEF Signed
      <4>2. Index(Half) = -(Half % Capacity)
        BY <1>0, <4>1 DEF Index, Abs
      <4>3. Half % Capacity \in 0..(Capacity - 1)
        BY <1>0
      <4> QED
        BY <1>0, <1>2, <2>2, <4>2, <4>3
    <3>2. PICK p \in Int : Half = Capacity * p
      <4>1. PICK x \in Int : x = Half
        BY <1>0
      <4>2. PICK p \in Int : x = Capacity * p + (x % Capacity)
        BY <1>0, Quotient
      <4>3. PICK u \in Int : u = Capacity * p
        BY <1>0
      <4> QED
        BY <3>1, <4>1, <4>2, <4>3
    <3> DEFINE m == n % (2 * Half)
    <3>3. PICK q \in Int : n = (2 * Half) * q + m
      <4>1. PICK c \in Nat \ {0} : c = 2 * Half
        BY <1>0
      <4>2. PICK x \in Int : x = n
        OBVIOUS
      <4>3. PICK q \in Int : x = c * q + (x % c)
        BY Quotient
      <4> QED
        BY <4>1, <4>2, <4>3
    <3>4. m \in Int /\ m \in 0..(2 * Half - 1)
      BY <1>0
    <3>5. Signed(n) = IF m < Half THEN m ELSE m - 2 * Half
      BY DEF Signed
    <3> HIDE DEF m
    <3>6. n = Capacity * (2 * p * q) + m
      BY <1>0, <3>2, <3>3, <3>4
    <3>7. n % Capacity = m % Capacity
      <4>1. PICK k \in Int : k = 2 * p * q
        OBVIOUS
      <4>2. PICK x \in Int : x = n
        OBVIOUS
      <4>3. x = Capacity * k + m
        BY <3>6, <4>1, <4>2
      <4>4. x % Capacity = m % Capacity
        BY <1>0, <3>4, <4>3, Remainder
      <4> QED
        BY <4>2, <4>4
    <3>8. CASE m < Half
      BY <3>4, <3>5, <3>7, <3>8 DEF Index
    <3>9. CASE m >= Half
      <4> DEFINE a == 2 * Half - m
      <4>1. Signed(n) = -a /\ a \in Int /\ a > 0
        BY <1>0, <3>4, <3>5, <3>9
      <4>2. Index(n) = -(a % Capacity) /\ a % Capacity \in 0..(Capacity - 1)
        BY <1>0, <4>1 DEF Index, Abs
      <4>3. a % Capacity = 0 /\ Index(n) = 0
        BY <1>2, <4>2
      <4>4. PICK r \in Int : a = Capacity * r
        <5>1. PICK x \in Int : x = a
          BY <4>1
        <5>2. PICK r \in Int : x = Capacity * r + (x % Capacity)
          BY <1>0, Quotient
        <5>3. PICK u \in Int : u = Capacity * r
          BY <1>0
        <5>4. x % Capacity = 0
          BY <4>3, <5>1
        <5> QED
          BY <5>1, <5>2, <5>3, <5>4
      <4>5. m = Capacity * (2 * p - r) + 0
        BY <1>0, <3>2, <3>4, <4>4
      <4>6. m % Capacity = 0 % Capacity
        BY <1>0, <3>4, <4>5, Remainder
      <4>7. 0 % Capacity = 0
        BY <1>0
      <4> QED
        BY <3>7, <4>3, <4>6, <4>7
    <3> QED
      BY <1>0, <3>4, <3>8, <3>9
  <2> QED
    BY <1>0, <2>1, <2>2
<1> QED
  BY <1>1, <1>2

(***************************************************************************)
(* The inductive invariant.                                                *)
(***************************************************************************)

\* consume_all's locals are two positions.
Walking == walk \in [at : Int, to : Int]

\* The producer never has more in the ring than it holds.
Bounded == pushed - rseen <= Capacity

\* A slot is only used under an index it has, and every position that was
\* pushed had one but for the last one, which may have stopped the program.
Indexed ==
  /\ \A n \in storing \cup loading : Index(n) >= 0
  /\ \A n \in 0..(pushed - 1) : Index(n) >= 0 \/ (n = pushed - 1 /\ fault = "index")

\* A slot has the last of the pushes to it whose store is done.
Written ==
  /\ \A n \in 0..(pushed - 1) : n \notin storing /\ Index(n) >= 0 => data[Index(n)] >= n + 1
  /\ \A n \in storing : \A m \in 0..(pushed - 1) : n < m /\ Index(n) = Index(m) => m \in storing
  /\ \A i \in 0..(Capacity - 1) : data[i] = 0 \/ (data[i] <= pushed /\ Index(data[i] - 1) = i)

\* A position that is stored with release is seen after the slot accesses.
Seen ==
  /\ Released("write") => \A n \in storing : n >= wseen
  /\ Released("read") => \A n \in loading : n >= rseen

IInv == TypeOK /\ Walking /\ Bounded /\ Indexed /\ Written /\ Seen /\ NeverStale /\ NeverOverwritten

\* Two positions that share a slot are a capacity apart.
LEMMA SameSlot ==
  ASSUME NEW n \in Nat, NEW m \in Nat, n < m, Index(n) = Index(m),
         \A k \in 0..m : Index(k) >= 0
  PROVE  m >= n + Capacity
<1>1. Index(m) = m % Capacity
  BY IndexIs
<1>2. Index(n) = n % Capacity
  <2>1. \A k \in 0..n : Index(k) >= 0
    OBVIOUS
  <2> QED
    BY <2>1, IndexIs
<1>3. Capacity \in Nat \ {0}
  BY SizesAssumption
<1>4. m < n + Capacity => n % Capacity # m % Capacity
  <2>1. n \in Int /\ m \in Int
    OBVIOUS
  <2> QED
    BY <1>3, <2>1, Apart
<1> QED
  BY <1>1, <1>2, <1>3, <1>4

\* The numbers of a state.
LEMMA Numbers ==
  ASSUME IInv
  PROVE  /\ MaxPushes \in Nat /\ Capacity \in Nat \ {0} /\ Half \in Nat /\ Capacity < Half
         /\ pushed \in 0..MaxPushes /\ wseen \in 0..pushed /\ taken \in 0..wseen
         /\ rseen \in 0..taken /\ ready \in 0..(wseen - taken) /\ pushed - rseen <= Capacity
         /\ \A n \in storing : n \in 0..(pushed - 1) /\ Index(n) >= 0
         /\ \A n \in loading : n \in 0..(wseen - 1) /\ Index(n) >= 0
         /\ \A n \in Nat : Index(n) \in Int /\ Index(n) < Capacity
         /\ walk # NoWalk => walk.at \in taken..walk.to /\ walk.to \in 0..wseen
         /\ walk \in [at : Int, to : Int]
         /\ last.pos \in Int /\ last.push \in Int
  BY SizesAssumption, HalfIs, IndexIs DEF IInv, TypeOK, Walking, Bounded, Indexed, Positions

\* The store of a slot leaves what other slots hold, and their stores.
LEMMA StoredKeeps == ASSUME IInv, NEW n \in Positions, Stored(n) PROVE IInv'
<1>0. /\ n \in storing /\ storing' = storing \ {n}
      /\ \A m \in storing : m < n => Index(m) # Index(n)
      /\ data' = [data EXCEPT ![Index(n)] = n + 1]
      /\ UNCHANGED <<ring, pushed, wseen, taken, loading, rseen, ready, walk, last, fault>>
  BY DEF Stored, consumerVars
<1>1. /\ MaxPushes \in Nat /\ Capacity \in Nat \ {0} /\ pushed \in 0..MaxPushes
      /\ n \in 0..(pushed - 1) /\ Index(n) \in 0..(Capacity - 1) /\ n \in Int
      /\ \A m \in storing : m \in 0..(pushed - 1)
      /\ data \in [0..(Capacity - 1) -> 0..MaxPushes]
  <2>1. n \in 0..(pushed - 1) /\ Index(n) >= 0
    BY <1>0, Numbers
  <2>2. pushed \in 0..MaxPushes
    BY Numbers
  <2>3. n \in Nat
    BY <2>1, <2>2
  <2>4. Index(n) \in Int /\ Index(n) < Capacity
    BY <2>3, Numbers
  <2>5. /\ MaxPushes \in Nat /\ Capacity \in Nat \ {0}
        /\ \A m \in storing : m \in 0..(pushed - 1)
    BY Numbers
  <2>6. data \in [0..(Capacity - 1) -> 0..MaxPushes]
    BY DEF IInv, TypeOK
  <2> QED
    BY <2>1, <2>2, <2>4, <2>5, <2>6
<1>2. /\ data' \in [0..(Capacity - 1) -> 0..MaxPushes] /\ data'[Index(n)] = n + 1
      /\ \A i \in 0..(Capacity - 1) : i # Index(n) => data'[i] = data[i]
  <2>1. n + 1 \in 0..MaxPushes
    BY <1>1
  <2> QED
    BY <1>0, <1>1, <2>1
<1>3. TypeOK'
  BY <1>0, <1>2 DEF IInv, TypeOK
<1>4. Walking' /\ Bounded' /\ Indexed'
  BY <1>0 DEF IInv, Walking, Bounded, Indexed
<1>5. Written'
  <2>1. ASSUME NEW m \in 0..(pushed - 1), m \notin storing', Index(m) >= 0
        PROVE  data'[Index(m)] >= m + 1
    <3>1. Index(m) \in 0..(Capacity - 1)
      BY <1>1, <2>1, IndexIs
    <3>2. CASE Index(m) = Index(n)
      <4>1. m = n \/ m \notin storing
        BY <1>0, <2>1
      <4>2. m <= n
        BY <1>0, <1>1, <3>2, <4>1 DEF IInv, Written
      <4> QED
        BY <1>1, <1>2, <3>2, <4>2
    <3>3. CASE Index(m) # Index(n)
      <4>1. m \notin storing
        BY <1>0, <2>1, <3>3
      <4>2. data[Index(m)] >= m + 1
        BY <2>1, <4>1 DEF IInv, Written
      <4> QED
        BY <1>2, <3>1, <3>3, <4>2
    <3> QED
      BY <3>2, <3>3
  <2>2. ASSUME NEW k \in storing', NEW m \in 0..(pushed - 1), k < m, Index(k) = Index(m)
        PROVE  m \in storing'
    <3>1. k \in storing /\ m \in storing
      BY <1>0, <2>2 DEF IInv, Written
    <3>2. m # n
      BY <1>0, <2>2, <3>1
    <3> QED
      BY <1>0, <3>1, <3>2
  <2>3. ASSUME NEW i \in 0..(Capacity - 1)
        PROVE  data'[i] = 0 \/ (data'[i] <= pushed /\ Index(data'[i] - 1) = i)
    <3>1. CASE i = Index(n)
      <4>1. n + 1 <= pushed /\ (n + 1) - 1 = n
        BY <1>1
      <4> QED
        BY <1>2, <3>1, <4>1
    <3>2. CASE i # Index(n)
      BY <1>2, <3>2 DEF IInv, Written
    <3> QED
      BY <3>1, <3>2
  <2> QED
    BY <1>0, <2>1, <2>2, <2>3 DEF Written
<1>6. Seen' /\ NeverStale' /\ NeverOverwritten'
  BY <1>0 DEF IInv, Seen, Released, NeverStale, NeverOverwritten
<1> QED
  BY <1>3, <1>4, <1>5, <1>6 DEF IInv

\* A position that is pushed may be stored, or have no slot.
LEMMA PushKeeps == ASSUME IInv, Push PROVE IInv'
<1>0. /\ fault = "none" /\ pushed < MaxPushes /\ Signed(pushed - rseen) < Capacity
      /\ \/ Index(pushed) < 0 /\ fault' = "index" /\ storing' = storing
         \/ ~(Index(pushed) < 0) /\ storing' = storing \cup {pushed} /\ fault' = fault
      /\ pushed' = pushed + 1
      /\ UNCHANGED <<ring, data, wseen, taken, loading, rseen, ready, walk, last>>
  BY DEF Push, consumerVars
<1>1. /\ MaxPushes \in Nat /\ Capacity \in Nat \ {0} /\ Half \in Nat /\ Capacity < Half
      /\ pushed \in 0..MaxPushes /\ wseen \in 0..pushed /\ taken \in 0..wseen
      /\ rseen \in 0..taken /\ pushed - rseen <= Capacity
      /\ \A n \in storing : n \in 0..(pushed - 1) /\ Index(n) >= 0
      /\ Index(pushed) \in Int
  BY Numbers
<1>2. pushed - rseen < Capacity
  <2>1. Signed(pushed - rseen) = pushed - rseen
    BY <1>1, SignedIs
  <2> QED
    BY <1>0, <2>1
<1>3. storing' \subseteq 0..(pushed' - 1)
  BY <1>0, <1>1
<1>4. TypeOK'
  <2>1. pushed' \in Positions /\ wseen' \in 0..pushed'
    BY <1>0, <1>1 DEF Positions
  <2> QED
    BY <1>0, <1>3, <2>1 DEF IInv, TypeOK
<1>5. Walking' /\ Bounded'
  BY <1>0, <1>1, <1>2 DEF IInv, Walking, Bounded
<1>6. Indexed'
  <2>1. \A n \in storing' \cup loading' : Index(n) >= 0
    BY <1>0, <1>1 DEF IInv, Indexed
  <2>2. \A n \in 0..(pushed' - 1) : Index(n) >= 0 \/ (n = pushed' - 1 /\ fault' = "index")
    <3> SUFFICES ASSUME NEW n \in 0..(pushed' - 1), ~(Index(n) >= 0)
                 PROVE  n = pushed' - 1 /\ fault' = "index"
      OBVIOUS
    <3>1. CASE n \in 0..(pushed - 1)
      <4>1. Index(n) >= 0
        BY <1>0, <3>1 DEF IInv, Indexed
      <4> QED
        BY <4>1
    <3>2. CASE n = pushed
      BY <1>0, <1>1, <3>2
    <3> QED
      BY <1>0, <1>1, <3>1, <3>2
  <2> QED
    BY <2>1, <2>2 DEF Indexed
<1>7. Written'
  <2>1. ASSUME NEW m \in 0..(pushed' - 1), m \notin storing', Index(m) >= 0
        PROVE  data[Index(m)] >= m + 1
    <3>1. m # pushed
      BY <1>0, <1>1, <2>1
    <3>2. m \in 0..(pushed - 1) /\ m \notin storing
      BY <1>0, <1>1, <2>1, <3>1
    <3> QED
      BY <2>1, <3>2 DEF IInv, Written
  <2>2. ASSUME NEW k \in storing', NEW m \in 0..(pushed' - 1), k < m, Index(k) = Index(m)
        PROVE  m \in storing'
    <3>1. k \in storing
      BY <1>0, <1>1, <2>2
    <3>2. CASE m = pushed
      BY <1>0, <1>1, <2>2, <3>1, <3>2
    <3>3. CASE m # pushed
      <4>1. m \in 0..(pushed - 1)
        BY <1>0, <1>1, <3>3
      <4>2. m \in storing
        BY <2>2, <3>1, <4>1 DEF IInv, Written
      <4> QED
        BY <1>0, <4>2
    <3> QED
      BY <3>2, <3>3
  <2>3. ASSUME NEW i \in 0..(Capacity - 1)
        PROVE  data[i] = 0 \/ (data[i] <= pushed' /\ Index(data[i] - 1) = i)
    <3>1. data[i] \in Int
      BY DEF IInv, TypeOK
    <3>2. data[i] = 0 \/ (data[i] <= pushed /\ Index(data[i] - 1) = i)
      BY DEF IInv, Written
    <3> QED
      BY <1>0, <1>1, <3>1, <3>2
  <2> QED
    BY <1>0, <2>1, <2>2, <2>3 DEF Written
<1>8. Seen' /\ NeverStale' /\ NeverOverwritten'
  BY <1>0, <1>1 DEF IInv, Seen, Released, NeverStale, NeverOverwritten
<1> QED
  BY <1>4, <1>5, <1>6, <1>7, <1>8 DEF IInv

\* What is left when no slot is pushed or stored to.
LEMMA ProducerStays ==
  ASSUME IInv, UNCHANGED <<data, pushed, storing>>
  PROVE  Written'
  BY DEF IInv, Written

\* The consumer sees the next position only when its store is done, if released.
LEMMA WriteSeenKeeps == ASSUME IInv, WriteSeen PROVE IInv'
<1>0. /\ wseen < pushed /\ (Released("write") => wseen \notin storing) /\ wseen' = wseen + 1
      /\ UNCHANGED <<ring, data, pushed, storing, taken, loading, rseen, ready, walk, last, fault>>
  BY DEF WriteSeen, producerVars, consumerVars
<1>1. /\ pushed \in 0..MaxPushes /\ MaxPushes \in Nat /\ wseen \in 0..pushed /\ taken \in 0..wseen
      /\ ready \in 0..(wseen - taken)
      /\ \A n \in storing : n \in 0..(pushed - 1)
      /\ \A n \in loading : n \in 0..(wseen - 1)
      /\ walk # NoWalk => walk.at \in taken..walk.to /\ walk.to \in 0..wseen
  BY Numbers
<1>2. TypeOK'
  <2>1. /\ wseen' \in 0..pushed /\ taken \in 0..wseen' /\ ready \in 0..(wseen' - taken)
        /\ walk # NoWalk => walk.to \in 0..wseen'
    BY <1>0, <1>1
  <2>2. loading \subseteq 0..(wseen' - 1)
    BY <1>0, <1>1
  <2> QED
    BY <1>0, <1>1, <2>1, <2>2 DEF IInv, TypeOK
<1>3. Walking' /\ Bounded' /\ Indexed'
  BY <1>0 DEF IInv, Walking, Bounded, Indexed
<1>4. Seen'
  <2>1. ASSUME Released("write"), NEW n \in storing PROVE n >= wseen + 1
    <3>1. n >= wseen /\ n # wseen
      BY <1>0, <2>1 DEF IInv, Seen
    <3> QED
      BY <1>1, <3>1
  <2> QED
    BY <1>0, <2>1 DEF IInv, Seen, Released
<1>5. NeverStale' /\ NeverOverwritten'
  BY <1>0 DEF IInv, Released, NeverStale, NeverOverwritten
<1>6. Written'
  BY <1>0, ProducerStays
<1> QED
  BY <1>2, <1>3, <1>4, <1>5, <1>6 DEF IInv

\* The producer sees that the next slot is free only when it was read, if released.
LEMMA ReadSeenKeeps == ASSUME IInv, ReadSeen PROVE IInv'
<1>0. /\ rseen < taken /\ (Released("read") => rseen \notin loading) /\ rseen' = rseen + 1
      /\ UNCHANGED <<ring, data, pushed, storing, wseen, taken, loading, ready, walk, last, fault>>
  BY DEF ReadSeen, producerVars, consumerVars
<1>1. /\ pushed \in 0..MaxPushes /\ MaxPushes \in Nat /\ wseen \in 0..pushed /\ taken \in 0..wseen
      /\ rseen \in 0..taken /\ pushed - rseen <= Capacity /\ Capacity \in Nat
      /\ \A n \in loading : n \in 0..(wseen - 1)
  BY Numbers
<1>2. TypeOK'
  <2>1. rseen' \in 0..taken
    BY <1>0, <1>1
  <2> QED
    BY <1>0, <2>1 DEF IInv, TypeOK
<1>3. Walking' /\ Bounded' /\ Indexed'
  BY <1>0, <1>1 DEF IInv, Walking, Bounded, Indexed
<1>4. Seen'
  <2>1. ASSUME Released("read"), NEW n \in loading PROVE n >= rseen + 1
    <3>1. n >= rseen /\ n # rseen
      BY <1>0, <2>1 DEF IInv, Seen
    <3> QED
      BY <1>1, <3>1
  <2> QED
    BY <1>0, <2>1 DEF IInv, Seen, Released
<1>5. NeverStale' /\ NeverOverwritten'
  BY <1>0 DEF IInv, Released, NeverStale, NeverOverwritten
<1>6. Written'
  BY <1>0, ProducerStays
<1> QED
  BY <1>2, <1>3, <1>4, <1>5, <1>6 DEF IInv

\* A slot of the next positions the consumer knows of is to be read.
LEMMA LoadKeeps ==
  ASSUME IInv, NEW n \in Nat, taken <= n, n < wseen, Load(n), ready' \in 0..(wseen - taken),
         walk' \in [at : Int, to : Int],
         walk' # NoWalk => walk'.at \in taken..walk'.to /\ walk'.to \in 0..wseen,
         UNCHANGED <<ring, data, pushed, storing, wseen, taken, rseen, last>>,
         fault = "none"
  PROVE  IInv'
<1>0. \/ Index(n) < 0 /\ fault' = "index" /\ loading' = loading
      \/ ~(Index(n) < 0) /\ loading' = loading \cup {n} /\ fault' = fault
  BY DEF Load
<1>1. /\ wseen \in Nat /\ taken \in Nat /\ rseen \in Nat /\ rseen <= taken /\ Index(n) \in Int
      /\ \A m \in loading : m \in 0..(wseen - 1)
  BY Numbers
<1>2. TypeOK'
  <2>1. loading' \subseteq 0..(wseen - 1)
    BY <1>0, <1>1
  <2> QED
    BY <1>0, <2>1 DEF IInv, TypeOK
<1>3. Walking' /\ Bounded'
  BY DEF IInv, Walking, Bounded
<1>4. Indexed'
  BY <1>0, <1>1 DEF IInv, Indexed
<1>5. Seen'
  BY <1>0, <1>1 DEF IInv, Seen, Released
<1>6. NeverStale' /\ NeverOverwritten'
  BY DEF IInv, Released, NeverStale, NeverOverwritten
<1>7. Written'
  BY ProducerStays
<1> QED
  BY <1>2, <1>3, <1>4, <1>5, <1>6, <1>7 DEF IInv

LEMMA FirstKeeps == ASSUME IInv, NEW k \in 0..(Capacity - 1), First(k) PROVE IInv'
<1>0. /\ fault = "none" /\ Signed(Signed(wseen - taken) - k) > 0
      /\ ready' = IF ready > k THEN ready ELSE k + 1
      /\ Load(taken + k)
      /\ UNCHANGED <<ring, data, pushed, storing, wseen, taken, rseen, walk, last>>
  BY DEF First, producerVars
<1>1. /\ Capacity \in Nat /\ Half \in Nat /\ Capacity < Half /\ wseen \in Nat /\ pushed \in Nat
      /\ taken \in 0..wseen /\ wseen <= pushed /\ rseen \in 0..taken /\ pushed - rseen <= Capacity
      /\ ready \in 0..(wseen - taken) /\ walk \in [at : Int, to : Int]
      /\ walk # NoWalk => walk.at \in taken..walk.to /\ walk.to \in 0..wseen
  BY Numbers
<1>2. wseen - taken - k > 0
  <2>1. PICK d \in Int : d = wseen - taken
    BY <1>1
  <2>2. Signed(d) = d
    BY <1>1, <2>1, SignedIs
  <2>3. PICK e \in Int : e = d - k
    OBVIOUS
  <2>4. Signed(e) = e
    BY <1>1, <2>1, <2>3, SignedIs
  <2> QED
    BY <1>0, <1>1, <2>1, <2>2, <2>3, <2>4
<1>3. PICK n \in Nat : n = taken + k
  BY <1>1
<1>4. taken <= n /\ n < wseen /\ ready' \in 0..(wseen - taken)
  BY <1>0, <1>1, <1>2, <1>3
<1> QED
  BY <1>0, <1>1, <1>3, <1>4, LoadKeeps

LEMMA ConsumeKeeps == ASSUME IInv, Consume PROVE IInv'
<1>0. /\ fault = "none" /\ walk # NoWalk /\ Signed(walk.at) < Signed(walk.to)
      /\ Load(walk.at) /\ walk' = [walk EXCEPT !.at = @ + 1]
      /\ UNCHANGED <<ring, data, pushed, storing, wseen, taken, rseen, ready, last>>
  BY DEF Consume, producerVars
<1>1. /\ wseen \in Nat /\ taken \in 0..wseen /\ ready \in 0..(wseen - taken)
      /\ walk \in [at : Int, to : Int] /\ walk.at \in taken..walk.to /\ walk.to \in 0..wseen
  BY <1>0, Numbers
<1>2. PICK n \in Nat : n = walk.at
  BY <1>1
<1>3. walk.at # walk.to
  <2>1. Signed(walk.at) \in Int
    BY <1>1, SignedIs
  <2> QED
    BY <1>0, <2>1
<1>4. /\ walk' \in [at : Int, to : Int]
      /\ walk'.at \in taken..walk'.to /\ walk'.to \in 0..wseen
  BY <1>0, <1>1, <1>3
<1> QED
  BY <1>0, <1>1, <1>2, <1>3, <1>4, LoadKeeps

\* What the consumer does with positions only.
LEMMA TakenKeeps ==
  ASSUME IInv, taken' \in taken..wseen, ready' \in 0..(wseen - taken'),
         walk' \in [at : Int, to : Int],
         walk' # NoWalk => walk'.at \in taken'..walk'.to /\ walk'.to \in 0..wseen,
         UNCHANGED <<ring, data, pushed, storing, wseen, loading, rseen, last, fault>>
  PROVE  IInv'
<1>1. wseen \in Nat /\ taken \in 0..wseen /\ rseen \in 0..taken
  BY Numbers
<1>2. TypeOK'
  <2>1. taken' \in 0..wseen /\ rseen \in 0..taken'
    BY <1>1
  <2> QED
    BY <2>1 DEF IInv, TypeOK
<1>3. Walking' /\ Bounded' /\ Indexed'
  BY DEF IInv, Walking, Bounded, Indexed
<1>4. Seen' /\ NeverStale' /\ NeverOverwritten'
  BY DEF IInv, Seen, Released, NeverStale, NeverOverwritten
<1>5. Written'
  BY ProducerStays
<1> QED
  BY <1>2, <1>3, <1>4, <1>5 DEF IInv

LEMMA SkipKeeps == ASSUME IInv, NEW k \in 1..Capacity, Skip(k) PROVE IInv'
<1>0. /\ k <= ready /\ taken' = taken + k /\ ready' = ready - k /\ walk = NoWalk /\ walk' = walk
      /\ UNCHANGED <<ring, data, pushed, storing, wseen, loading, rseen, last, fault>>
  BY DEF Skip, producerVars
<1>1. /\ wseen \in Nat /\ taken \in 0..wseen /\ ready \in 0..(wseen - taken) /\ Capacity \in Nat
      /\ walk \in [at : Int, to : Int]
  BY Numbers
<1>2. taken' \in taken..wseen /\ ready' \in 0..(wseen - taken')
  BY <1>0, <1>1
<1> QED
  BY <1>0, <1>1, <1>2, TakenKeeps

LEMMA ConsumeAllKeeps == ASSUME IInv, ConsumeAll PROVE IInv'
<1>0. /\ walk' = [at |-> taken, to |-> wseen]
      /\ UNCHANGED <<ring, data, pushed, storing, wseen, taken, loading, rseen, ready, last, fault>>
  BY DEF ConsumeAll, producerVars
<1>1. wseen \in Nat /\ taken \in 0..wseen /\ ready \in 0..(wseen - taken)
  BY Numbers
<1>2. /\ walk' \in [at : Int, to : Int] /\ walk'.at \in taken'..walk'.to /\ walk'.to \in 0..wseen
      /\ taken' \in taken..wseen /\ ready' \in 0..(wseen - taken')
  BY <1>0, <1>1
<1> QED
  BY <1>0, <1>2, TakenKeeps

LEMMA ConsumedKeeps == ASSUME IInv, Consumed PROVE IInv'
<1>0. /\ walk # NoWalk /\ taken' = walk.at /\ ready' = 0 /\ walk' = NoWalk
      /\ UNCHANGED <<ring, data, pushed, storing, wseen, loading, rseen, last, fault>>
  BY DEF Consumed, producerVars
<1>1. wseen \in Nat /\ taken \in 0..wseen /\ walk.at \in taken..walk.to /\ walk.to \in 0..wseen
  BY <1>0, Numbers
<1>2. /\ walk' \in [at : Int, to : Int] /\ taken' \in taken..wseen
      /\ ready' \in 0..(wseen - taken')
  BY <1>0, <1>1 DEF NoWalk
<1> QED
  BY <1>0, <1>2, TakenKeeps

\* A slot that was read held the push of its position, as far as the positions
\* are released.
LEMMA LoadedKeeps == ASSUME IInv, NEW n \in Positions, Loaded(n) PROVE IInv'
<1>0. /\ n \in loading /\ loading' = loading \ {n}
      /\ last' = [pos |-> n, push |-> data[Index(n)]]
      /\ UNCHANGED <<ring, data, pushed, storing, wseen, taken, rseen, ready, walk, fault>>
  BY DEF Loaded, producerVars, consumerVars
<1>1. /\ MaxPushes \in Nat /\ Capacity \in Nat \ {0} /\ pushed \in 0..MaxPushes
      /\ wseen \in 0..pushed /\ n \in 0..(wseen - 1) /\ Index(n) >= 0 /\ n \in Nat
      /\ rseen \in 0..wseen /\ pushed - rseen <= Capacity
  <2>1. /\ MaxPushes \in Nat /\ Capacity \in Nat \ {0} /\ pushed \in 0..MaxPushes
        /\ wseen \in 0..pushed /\ n \in 0..(wseen - 1) /\ Index(n) >= 0
        /\ taken \in 0..wseen /\ rseen \in 0..taken /\ pushed - rseen <= Capacity
    BY <1>0, Numbers
  <2> QED
    BY <2>1
<1>2. PICK d : d = data[Index(n)]
  OBVIOUS
<1>3. Index(n) \in 0..(Capacity - 1) /\ d \in 0..MaxPushes
  <2>1. Index(n) \in 0..(Capacity - 1)
    BY <1>1, IndexIs
  <2> QED
    BY <1>2, <2>1 DEF IInv, TypeOK
<1>4. Released("write") => d >= n + 1
  <2> SUFFICES ASSUME Released("write") PROVE d >= n + 1
    OBVIOUS
  <2>1. \A m \in storing : m >= wseen
    BY DEF IInv, Seen
  <2>2. n \notin storing /\ n \in 0..(pushed - 1)
    BY <1>1, <2>1
  <2> QED
    BY <1>1, <1>2, <2>2 DEF IInv, Written
<1>5. Released("read") => d <= n + 1
  <2> SUFFICES ASSUME Released("read"), ~(d <= n + 1) PROVE FALSE
    OBVIOUS
  <2>1. n >= rseen
    BY <1>0 DEF IInv, Seen
  <2>2. d <= pushed /\ Index(d - 1) = Index(n) /\ d # 0
    BY <1>1, <1>2, <1>3 DEF IInv, Written
  <2>3. PICK m \in Nat : m = d - 1
    BY <1>3, <2>2
  <2>4. n < m /\ m < n + Capacity /\ m \in 0..(pushed - 1)
    BY <1>1, <1>3, <2>1, <2>2, <2>3
  <2>5. \A k \in 0..m : Index(k) >= 0
    <3> SUFFICES ASSUME NEW k \in 0..m PROVE Index(k) >= 0
      OBVIOUS
    <3>1. CASE k = m
      BY <1>1, <2>2, <2>3, <3>1
    <3>2. CASE k # m
      <4>1. k \in 0..(pushed - 1) /\ k # pushed - 1
        BY <1>1, <2>4, <3>2
      <4> QED
        BY <4>1 DEF IInv, Indexed
    <3> QED
      BY <3>1, <3>2
  <2>6. Index(n) = Index(m)
    BY <2>2, <2>3
  <2>7. m >= n + Capacity
    BY <1>1, <2>4, <2>5, <2>6, SameSlot
  <2> QED
    BY <1>1, <2>4, <2>7
<1>6. NeverStale' /\ NeverOverwritten'
  BY <1>0, <1>2, <1>4, <1>5 DEF NeverStale, NeverOverwritten, Released
<1>7. TypeOK'
  <2>1. last' \in [pos : Positions, push : 0..MaxPushes]
    BY <1>0, <1>2, <1>3
  <2> QED
    BY <1>0, <2>1 DEF IInv, TypeOK
<1>8. Walking' /\ Bounded' /\ Indexed'
  BY <1>0 DEF IInv, Walking, Bounded, Indexed
<1>9. Seen'
  BY <1>0 DEF IInv, Seen, Released
<1>10. Written'
  BY <1>0, ProducerStays
<1> QED
  BY <1>6, <1>7, <1>8, <1>9, <1>10 DEF IInv

\* The ring is empty at first.
LEMMA InitInv == ASSUME Init PROVE IInv
<1>0. /\ ring \in {Plain, AtomicWrite, AtomicRead}
      /\ data = [i \in 0..(Capacity - 1) |-> 0]
      /\ pushed = 0 /\ storing = {} /\ wseen = 0 /\ taken = 0 /\ loading = {} /\ rseen = 0
      /\ ready = 0 /\ walk = NoWalk /\ last = [pos |-> 0, push |-> 1] /\ fault = "none"
  BY DEF Init
<1>1. MaxPushes \in Nat \ {0} /\ Capacity \in Nat \ {0}
  BY SizesAssumption
<1>2. TypeOK
  BY <1>0, <1>1 DEF TypeOK, Positions
<1>3. Walking /\ Bounded /\ Indexed
  BY <1>0, <1>1 DEF Walking, Bounded, Indexed, NoWalk
<1>4. Written
  BY <1>0, <1>1 DEF Written
<1>5. Seen /\ NeverStale /\ NeverOverwritten
  BY <1>0 DEF Seen, NeverStale, NeverOverwritten
<1> QED
  BY <1>2, <1>3, <1>4, <1>5 DEF IInv

LEMMA NextKeeps == ASSUME IInv, [Next]_vars PROVE IInv'
<1>1. CASE Push
  BY <1>1, PushKeeps
<1>2. ASSUME NEW n \in Positions, Stored(n) PROVE IInv'
  BY <1>2, StoredKeeps
<1>3. CASE WriteSeen
  BY <1>3, WriteSeenKeeps
<1>4. ASSUME NEW k \in 0..(Capacity - 1), First(k) PROVE IInv'
  BY <1>4, FirstKeeps
<1>5. ASSUME NEW k \in 1..Capacity, Skip(k) PROVE IInv'
  BY <1>5, SkipKeeps
<1>6. CASE ConsumeAll \/ Consume \/ Consumed
  BY <1>6, ConsumeAllKeeps, ConsumeKeeps, ConsumedKeeps
<1>7. ASSUME NEW n \in Positions, Loaded(n) PROVE IInv'
  BY <1>7, LoadedKeeps
<1>8. CASE ReadSeen
  BY <1>8, ReadSeenKeeps
<1>9. CASE UNCHANGED vars
  BY <1>9 DEF vars, IInv, TypeOK, Walking, Bounded, Indexed, Written, Seen, Released,
              NeverStale, NeverOverwritten
<1> QED
  BY <1>1, <1>2, <1>3, <1>4, <1>5, <1>6, <1>7, <1>8, <1>9 DEF Next

(***************************************************************************)
(* What holds of every ring.                                               *)
(***************************************************************************)

\* The inductive invariant.
THEOREM Invariant == Spec => []IInv
<1>1. Init => IInv
  BY InitInv
<1>2. IInv /\ [Next]_vars => IInv'
  BY NextKeeps
<1> QED
  BY <1>1, <1>2, PTL DEF Spec

\* The variables hold values of their types, and no thread sees a position that
\* was not stored or takes an element that was not pushed.
THEOREM TypeCorrect == Spec => []TypeOK
<1>1. IInv => TypeOK
  BY DEF IInv
<1> QED
  BY <1>1, Invariant, PTL

\* With a released mWritePos no value taken is older than the one pushed at its
\* position (Push), whatever the width of the positions.
THEOREM NoStaleValue == Spec => []NeverStale
<1>1. IInv => NeverStale
  BY DEF IInv
<1> QED
  BY <1>1, Invariant, PTL

\* With a released mReadPos no value taken is newer than the one pushed at its
\* position (Push and Skip, consume_all), whatever the width of the positions.
THEOREM NoValueOverwritten == Spec => []NeverOverwritten
<1>1. IInv => NeverOverwritten
  BY DEF IInv
<1> QED
  BY <1>1, Invariant, PTL

=============================================================================
