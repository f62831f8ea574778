---------------------------- MODULE TSocket_proofs ----------------------------
(***************************************************************************)
(* Proofs about a connection, for any sending threads, any objects of any  *)
(* number of messages and units, and any requests.                         *)
(***************************************************************************)
EXTENDS TSocket, TLAPS, FiniteSetTheorems

\* Handlers of messages, and those of reads.
OfMessage == {"send", "more", "written"}
OfRead == {"head", "body"}

Where(p, m) == CHOOSE i \in 1..Len(p) : p[i] = m

Units(u, m) == Cardinality({i \in 1..Len(u) : u[i].msg = m})

\* m begins after everything that has begun.
NotBegun(p, u, m) ==
  Units(u, m) = 0 /\ \A i \in 1..Len(u) : Where(p, u[i].msg) < Where(p, m)

\* What is queued, h before g: each message is there once; messages are begun in
\* the order of p; no message of an answer waits behind another's completion; and
\* there is one read.
InOrder(p, h, g) ==
  /\ h.kind \in OfMessage /\ g.kind \in OfMessage => h.msg # g.msg
  /\ h.kind = "send" /\ g.kind = "send" => Where(p, h.msg) < Where(p, g.msg)
  /\ g.kind = "send" /\ g.msg.sender = IO /\ h.kind \in {"more", "written"} =>
       h.msg.sender # IO \/ h.msg.object # g.msg.object
  /\ h.kind \in OfRead => g.kind \notin OfRead

QueueInOrder(p, q) == \A i, j \in 1..Len(q) : i < j => InOrder(p, q[i], q[j])

\* The writes that wait, v before w.
WriteInOrder(p, v, w) ==
  /\ v.msg # w.msg
  /\ v.done = 0 /\ w.done = 0 => Where(p, v.msg) < Where(p, w.msg)

WritesInOrder(p, ws) == \A i, j \in 1..Len(ws) : i < j => WriteInOrder(p, ws[i], ws[j])

\* A write w that waits and what is queued.
WriteBefore(p, w, h) ==
  /\ h.kind \in OfMessage => w.msg # h.msg
  /\ w.done = 0 /\ h.kind = "send" => Where(p, w.msg) < Where(p, h.msg)

WritesBefore(p, ws, q) ==
  \A i \in 1..Len(ws), j \in 1..Len(q) : WriteBefore(p, ws[i], q[j])

PostedOnes == {posted[i] : i \in 1..Len(posted)}

\* While the io_context's thread still posts an answer, none of it is under way.
Fresh(m) == sending[IO] # <<>> /\ m.sender = IO => m.object # taken

\* Each handler: how much of its message is on the wire, or why it failed.
HandlerFits(h) ==
  /\ h.kind \in OfMessage => h.msg \in PostedOnes
  /\ h.kind = "send" => NotBegun(posted, wire, h.msg)
  /\ h.kind \in {"more", "written"} => Fresh(h.msg)
  /\ h.kind = "more" => Units(wire, h.msg) = h.done
  /\ h.kind = "written" => \E i \in 1..Len(wire) : wire[i].unit = wire[i].msg.units
  /\ h.kind = "failed" => ~open \/ peer = "down" \/ lost
  /\ h.kind \in OfRead => reading = "none" /\ taken < Len(Requests)

WriteFits(w) ==
  /\ w.msg \in PostedOnes /\ Fresh(w.msg)
  /\ Units(wire, w.msg) = w.done
  /\ w.done = 0 => NotBegun(posted, wire, w.msg)

Queued ==
  /\ \A i \in 1..Len(handlers) : HandlerFits(handlers[i])
  /\ \A i \in 1..Len(writes) : WriteFits(writes[i])
  /\ QueueInOrder(posted, handlers) /\ WritesInOrder(posted, writes)
  /\ WritesBefore(posted, writes, handlers)

\* No message is posted twice; those of a sender are numbered.
PostedOnce ==
  /\ \A i, j \in 1..Len(posted) : posted[i] = posted[j] => i = j
  /\ \A m \in PostedOnes : m.object <= (IF m.sender = IO THEN taken ELSE 0)
  /\ \A m \in PostedOnes : \A i \in 1..Len(sending[m.sender]) :
       m.object = sending[m.sender][i].object => m.number < sending[m.sender][i].number
  /\ \A s \in Senders : \A i \in 1..Len(sending[s]) :
       sending[s][i].sender = s /\ sending[s][i].object = (IF s = IO THEN taken ELSE 0)
  /\ \A s \in Senders : \A i, j \in 1..Len(sending[s]) :
       i < j => sending[s][i].number < sending[s][j].number

\* What is on the wire was posted, begins in order, and is numbered.
OnWire ==
  /\ \A i \in 1..Len(wire) : wire[i].msg \in PostedOnes
  /\ \A i, j \in 1..Len(wire) :
       i < j /\ wire[i].unit = 1 /\ wire[j].unit = 1 => Where(posted, wire[i].msg) < Where(posted, wire[j].msg)
  /\ \A i \in 1..Len(wire) :
       wire[i].unit = Cardinality({j \in 1..i : wire[j].msg = wire[i].msg})

Closed == ~open => writes = <<>> /\ reading = "none"

Reading == open /\ reading = "none" =>
  \E i \in 1..Len(handlers) : handlers[i].kind \in OfRead \cup {"failed"}

IInv == TypeOK /\ PostedOnce /\ OnWire /\ Queued /\ Closed /\ Reading /\ StoppedForAReason

(***************************************************************************)
(* Sequences, and the number of a message's units.                         *)
(***************************************************************************)

LEMMA Longer ==
  ASSUME NEW S, NEW seq \in Seq(S), NEW new \in S
  PROVE  /\ Append(seq, new) \in Seq(S) /\ Len(Append(seq, new)) = Len(seq) + 1
         /\ Len(seq) \in Nat
         /\ \A i \in 1..Len(seq) : Append(seq, new)[i] = seq[i] /\ seq[i] \in S
         /\ Append(seq, new)[Len(seq) + 1] = new
         /\ \A i \in 1..(Len(seq) + 1) : i \in 1..Len(seq) \/ i = Len(seq) + 1
  OBVIOUS

LEMMA Shorter ==
  ASSUME NEW S, NEW seq \in Seq(S), seq # <<>>
  PROVE  /\ Tail(seq) \in Seq(S) /\ Len(Tail(seq)) = Len(seq) - 1 /\ Len(seq) \in Nat \ {0}
         /\ Head(seq) = seq[1] /\ seq[1] \in S /\ 1 \in 1..Len(seq)
         /\ \A i \in 1..Len(Tail(seq)) :
              Tail(seq)[i] = seq[i + 1] /\ i + 1 \in 1..Len(seq) /\ 1 < i + 1
         /\ \A i \in 1..Len(seq) : i = 1 \/ \E j \in 1..Len(Tail(seq)) : Tail(seq)[j] = seq[i]
<1>1. /\ Tail(seq) \in Seq(S) /\ Len(Tail(seq)) = Len(seq) - 1 /\ Len(seq) \in Nat \ {0}
      /\ Head(seq) = seq[1] /\ seq[1] \in S /\ 1 \in 1..Len(seq)
  OBVIOUS
<1>2. \A i \in 1..Len(Tail(seq)) :
        Tail(seq)[i] = seq[i + 1] /\ i + 1 \in 1..Len(seq) /\ 1 < i + 1
  BY <1>1
<1>3. ASSUME NEW i \in 1..Len(seq), i # 1
      PROVE  \E j \in 1..Len(Tail(seq)) : Tail(seq)[j] = seq[i]
  <2>1. i - 1 \in 1..Len(Tail(seq)) /\ (i - 1) + 1 = i
    BY <1>1, <1>3
  <2> QED
    BY <1>2, <2>1
<1> QED
  BY <1>1, <1>2, <1>3

LEMMA FiniteRange ==
  ASSUME NEW u, NEW n \in Nat, NEW m
  PROVE  /\ IsFiniteSet({i \in 1..n : u[i].msg = m})
         /\ Cardinality({i \in 1..n : u[i].msg = m}) \in Nat
<1> DEFINE I == {i \in 1..n : u[i].msg = m}
<1>1. I \subseteq 1..n /\ IsFiniteSet(1..n)
  BY FS_Interval
<1> HIDE DEF I
<1>2. IsFiniteSet(I)
  BY <1>1, FS_Subset
<1>3. Cardinality(I) \in Nat
  BY <1>2, FS_CardinalityType
<1> QED
  BY <1>2, <1>3 DEF I

\* A message's units when a unit is added.
LEMMA UnitsLonger ==
  ASSUME NEW S, NEW u \in Seq(S), NEW x \in S, NEW m
  PROVE  /\ Units(u, m) \in Nat
         /\ Units(Append(u, x), m) = IF x.msg = m THEN Units(u, m) + 1 ELSE Units(u, m)
<1> DEFINE I == {i \in 1..Len(u) : u[i].msg = m}
           J == {i \in 1..Len(Append(u, x)) : Append(u, x)[i].msg = m}
<1>1. /\ Len(Append(u, x)) = Len(u) + 1 /\ Len(u) \in Nat
      /\ \A i \in 1..Len(u) : Append(u, x)[i] = u[i]
      /\ Append(u, x)[Len(u) + 1] = x
      /\ \A i \in 1..(Len(u) + 1) : i \in 1..Len(u) \/ i = Len(u) + 1
  BY Longer
<1>2. IsFiniteSet(I) /\ Cardinality(I) \in Nat
  BY <1>1, FiniteRange
<1>3. Len(u) + 1 \notin I /\ Len(u) + 1 \in 1..(Len(u) + 1) /\ 1..Len(u) \subseteq 1..(Len(u) + 1)
  BY <1>1
<1>4. CASE x.msg = m
  <2>1. J = I \cup {Len(u) + 1}
    BY <1>1, <1>3, <1>4
  <2>2. Cardinality(J) = Cardinality(I) + 1
    BY <1>2, <1>3, <2>1, FS_AddElement
  <2> QED
    BY <1>2, <1>4, <2>2 DEF Units
<1>5. CASE x.msg # m
  <2>1. J = I
    BY <1>1, <1>3, <1>5
  <2> QED
    BY <1>2, <1>5, <2>1 DEF Units
<1> QED
  BY <1>4, <1>5

\* A message of which there are units is on the wire.
LEMMA SomeUnit ==
  ASSUME NEW S, NEW u \in Seq(S), NEW m, Units(u, m) # 0
  PROVE  \E i \in 1..Len(u) : u[i].msg = m
<1> SUFFICES ASSUME {i \in 1..Len(u) : u[i].msg = m} = {} PROVE FALSE
  OBVIOUS
<1> QED
  BY FS_EmptySet DEF Units

\* Where a message is that is there once.
LEMMA WhereIs ==
  ASSUME NEW S, NEW p \in Seq(S), \A i, j \in 1..Len(p) : p[i] = p[j] => i = j,
         NEW i \in 1..Len(p)
  PROVE  Where(p, p[i]) = i
<1>1. \E j \in 1..Len(p) : p[j] = p[i]
  OBVIOUS
<1>2. Where(p, p[i]) \in 1..Len(p) /\ p[Where(p, p[i])] = p[i]
  BY <1>1 DEF Where
<1> QED
  BY <1>2

LEMMA WhereLonger ==
  ASSUME NEW S, NEW p \in Seq(S), NEW x \in S, \A i, j \in 1..Len(p) : p[i] = p[j] => i = j,
         \A i \in 1..Len(p) : p[i] # x
  PROVE  /\ \A i, j \in 1..Len(Append(p, x)) : Append(p, x)[i] = Append(p, x)[j] => i = j
         /\ \A i \in 1..Len(p) :
              Where(Append(p, x), p[i]) = i /\ Where(p, p[i]) = i /\ i < Len(p) + 1
         /\ Where(Append(p, x), x) = Len(p) + 1
<1>1. /\ Append(p, x) \in Seq(S) /\ Len(Append(p, x)) = Len(p) + 1 /\ Len(p) \in Nat
      /\ \A i \in 1..Len(p) : Append(p, x)[i] = p[i]
      /\ Append(p, x)[Len(p) + 1] = x
      /\ \A i \in 1..(Len(p) + 1) : i \in 1..Len(p) \/ i = Len(p) + 1
  BY Longer
<1>2. \A i, j \in 1..Len(Append(p, x)) : Append(p, x)[i] = Append(p, x)[j] => i = j
  BY <1>1
<1>3. /\ Len(p) + 1 \in 1..Len(Append(p, x))
      /\ \A i \in 1..Len(p) : i \in 1..Len(Append(p, x)) /\ i < Len(p) + 1
  BY <1>1
<1>4. \A i \in 1..Len(Append(p, x)) : Where(Append(p, x), Append(p, x)[i]) = i
  BY <1>1, <1>2, WhereIs
<1>5. \A i \in 1..Len(p) : Where(p, p[i]) = i
  BY WhereIs
<1> QED
  BY <1>1, <1>2, <1>3, <1>4, <1>5

(***************************************************************************)
(* What is queued, and the writes that wait.                               *)
(***************************************************************************)

WriteSet == [msg : Message, done : Nat]
UnitSet == [msg : Message, unit : Nat \ {0}, owned : BOOLEAN]

LEMMA HandlerTypes ==
  /\ \A m \in Message :
       /\ Closure(m) \in HandlerSet /\ Closure(m).kind = "send" /\ Closure(m).msg = m
       /\ \A kind \in {"more", "written"}, done \in Nat \ {0} :
            /\ Completion(kind, m, done) \in HandlerSet /\ Completion(kind, m, done).kind = kind
            /\ Completion(kind, m, done).msg = m /\ Completion(kind, m, done).done = done
  /\ \A kind \in {"head", "body", "failed"} :
       Event(kind) \in HandlerSet /\ Event(kind).kind = kind
  /\ \A h \in HandlerSet :
       /\ h.kind \in OfMessage \cup OfRead \cup {"failed"}
       /\ h.kind \in OfMessage => h.msg \in Message
       /\ h.kind \in {"more", "written"} => h.done \in Nat \ {0}
  BY DEF HandlerSet, Closure, Completion, Event, OfMessage, OfRead

LEMMA QueueLonger ==
  ASSUME NEW p, NEW q \in Seq(HandlerSet), NEW x \in HandlerSet, QueueInOrder(p, q),
         \A i \in 1..Len(q) : InOrder(p, q[i], x)
  PROVE  QueueInOrder(p, Append(q, x))
<1> SUFFICES ASSUME NEW i \in 1..Len(Append(q, x)), NEW j \in 1..Len(Append(q, x)), i < j
             PROVE  InOrder(p, Append(q, x)[i], Append(q, x)[j])
  BY DEF QueueInOrder
<1>1. /\ Len(Append(q, x)) = Len(q) + 1 /\ Len(q) \in Nat
      /\ \A k \in 1..Len(q) : Append(q, x)[k] = q[k]
      /\ Append(q, x)[Len(q) + 1] = x
  BY Longer
<1>2. i \in 1..Len(q) /\ (j \in 1..Len(q) \/ j = Len(q) + 1)
  BY <1>1
<1> QED
  BY <1>1, <1>2 DEF QueueInOrder

LEMMA QueueShorter ==
  ASSUME NEW p, NEW q \in Seq(HandlerSet), q # <<>>, QueueInOrder(p, q)
  PROVE  /\ QueueInOrder(p, Tail(q))
         /\ \A i \in 1..Len(Tail(q)) : InOrder(p, Head(q), Tail(q)[i])
<1>1. /\ Head(q) = q[1] /\ 1 \in 1..Len(q) /\ Len(Tail(q)) \in Nat
      /\ \A i \in 1..Len(Tail(q)) : Tail(q)[i] = q[i + 1] /\ i + 1 \in 1..Len(q) /\ 1 < i + 1
  BY Shorter
<1>2. \A i, j \in 1..Len(Tail(q)) : i < j => i + 1 < j + 1
  BY <1>1
<1> QED
  BY <1>1, <1>2 DEF QueueInOrder

LEMMA WritesLonger ==
  ASSUME NEW p, NEW ws \in Seq(WriteSet), NEW w \in WriteSet, WritesInOrder(p, ws),
         \A i \in 1..Len(ws) : WriteInOrder(p, ws[i], w)
  PROVE  WritesInOrder(p, Append(ws, w))
<1> SUFFICES ASSUME NEW i \in 1..Len(Append(ws, w)), NEW j \in 1..Len(Append(ws, w)), i < j
             PROVE  WriteInOrder(p, Append(ws, w)[i], Append(ws, w)[j])
  BY DEF WritesInOrder
<1>1. /\ Len(Append(ws, w)) = Len(ws) + 1 /\ Len(ws) \in Nat
      /\ \A k \in 1..Len(ws) : Append(ws, w)[k] = ws[k]
      /\ Append(ws, w)[Len(ws) + 1] = w
  BY Longer
<1>2. i \in 1..Len(ws) /\ (j \in 1..Len(ws) \/ j = Len(ws) + 1)
  BY <1>1
<1> QED
  BY <1>1, <1>2 DEF WritesInOrder

LEMMA WritesShorter ==
  ASSUME NEW p, NEW ws \in Seq(WriteSet), ws # <<>>, WritesInOrder(p, ws)
  PROVE  /\ WritesInOrder(p, Tail(ws))
         /\ \A i \in 1..Len(Tail(ws)) : WriteInOrder(p, Head(ws), Tail(ws)[i])
<1>1. /\ Head(ws) = ws[1] /\ 1 \in 1..Len(ws) /\ Len(Tail(ws)) \in Nat
      /\ \A i \in 1..Len(Tail(ws)) : Tail(ws)[i] = ws[i + 1] /\ i + 1 \in 1..Len(ws) /\ 1 < i + 1
  BY Shorter
<1>2. \A i, j \in 1..Len(Tail(ws)) : i < j => i + 1 < j + 1
  BY <1>1
<1> QED
  BY <1>1, <1>2 DEF WritesInOrder

LEMMA BetweenQueueLonger ==
  ASSUME NEW p, NEW ws \in Seq(WriteSet), NEW q \in Seq(HandlerSet), NEW x \in HandlerSet,
         WritesBefore(p, ws, q), \A i \in 1..Len(ws) : WriteBefore(p, ws[i], x)
  PROVE  WritesBefore(p, ws, Append(q, x))
<1>1. /\ Len(Append(q, x)) = Len(q) + 1
      /\ \A k \in 1..Len(q) : Append(q, x)[k] = q[k]
      /\ Append(q, x)[Len(q) + 1] = x
      /\ \A k \in 1..(Len(q) + 1) : k \in 1..Len(q) \/ k = Len(q) + 1
  BY Longer
<1> QED
  BY <1>1 DEF WritesBefore

LEMMA BetweenWritesLonger ==
  ASSUME NEW p, NEW ws \in Seq(WriteSet), NEW q \in Seq(HandlerSet), NEW w \in WriteSet,
         WritesBefore(p, ws, q), \A i \in 1..Len(q) : WriteBefore(p, w, q[i])
  PROVE  WritesBefore(p, Append(ws, w), q)
<1>1. /\ Len(Append(ws, w)) = Len(ws) + 1
      /\ \A k \in 1..Len(ws) : Append(ws, w)[k] = ws[k]
      /\ Append(ws, w)[Len(ws) + 1] = w
      /\ \A k \in 1..(Len(ws) + 1) : k \in 1..Len(ws) \/ k = Len(ws) + 1
  BY Longer
<1> QED
  BY <1>1 DEF WritesBefore

LEMMA BetweenShorter ==
  ASSUME NEW p, NEW ws \in Seq(WriteSet), NEW q \in Seq(HandlerSet), WritesBefore(p, ws, q)
  PROVE  /\ q # <<>> => /\ WritesBefore(p, ws, Tail(q))
                        /\ \A i \in 1..Len(ws) : WriteBefore(p, ws[i], Head(q))
         /\ ws # <<>> => /\ WritesBefore(p, Tail(ws), q)
                         /\ \A i \in 1..Len(q) : WriteBefore(p, Head(ws), q[i])
<1>1. CASE q # <<>>
  <2>1. /\ Head(q) = q[1] /\ 1 \in 1..Len(q)
        /\ \A i \in 1..Len(Tail(q)) : Tail(q)[i] = q[i + 1] /\ i + 1 \in 1..Len(q)
    BY <1>1, Shorter
  <2> QED
    BY <2>1 DEF WritesBefore
<1>2. CASE ws # <<>>
  <2>1. /\ Head(ws) = ws[1] /\ 1 \in 1..Len(ws)
        /\ \A i \in 1..Len(Tail(ws)) : Tail(ws)[i] = ws[i + 1] /\ i + 1 \in 1..Len(ws)
    BY <1>2, Shorter
  <2> QED
    BY <2>1 DEF WritesBefore
<1> QED
  BY <1>1, <1>2

(***************************************************************************)
(* A message m taken from its place in the queue or among the writes, q    *)
(* and ws without it, with done of its units on the wire.                  *)
(***************************************************************************)

Loose(m, done, q, ws) ==
  /\ q \in Seq(HandlerSet) /\ ws \in Seq(WriteSet) /\ m \in Message /\ done \in Nat
  /\ \A i \in 1..Len(q) :
       /\ HandlerFits(q[i])
       /\ q[i].kind \in OfMessage => q[i].msg # m
       /\ q[i].kind = "send" /\ done = 0 => Where(posted, m) < Where(posted, q[i].msg)
  /\ \A i \in 1..Len(ws) : WriteFits(ws[i]) /\ ws[i].msg # m
  /\ QueueInOrder(posted, q) /\ WritesInOrder(posted, ws) /\ WritesBefore(posted, ws, q)
  /\ m \in PostedOnes /\ Fresh(m) /\ Units(wire, m) = done
  /\ done = 0 => NotBegun(posted, wire, m)

\* It begins before the writes that wait.
Ahead(m, done, ws) ==
  done = 0 => \A i \in 1..Len(ws) : ws[i].done = 0 => Where(posted, m) < Where(posted, ws[i].msg)

\* What is queued and waits in the next state.
LEMMA QueuedNext ==
  ASSUME NEW q, NEW ws, handlers' = q, writes' = ws, posted' = posted,
         \A i \in 1..Len(q) : HandlerFits(q[i])', \A i \in 1..Len(ws) : WriteFits(ws[i])',
         QueueInOrder(posted, q), WritesInOrder(posted, ws), WritesBefore(posted, ws, q)
  PROVE  Queued'
<1>1. \A i \in 1..Len(handlers') : HandlerFits(handlers[i])'
  BY DEF HandlerFits, NotBegun, Fresh, PostedOnes
<1>2. \A i \in 1..Len(writes') : WriteFits(writes[i])'
  BY DEF WriteFits, NotBegun, Fresh, PostedOnes
<1>3. (QueueInOrder(posted, handlers) /\ WritesInOrder(posted, writes))'
  BY DEF QueueInOrder, WritesInOrder
<1>4. WritesBefore(posted, writes, handlers)'
  BY DEF WritesBefore
<1> QED
  BY <1>1, <1>2, <1>3, <1>4 DEF Queued

\* The wire with one more unit of m.
LEMMA UnitAdded ==
  ASSUME NEW m, NEW done, NEW q, NEW ws, NEW e \in UnitSet, TypeOK, Loose(m, done, q, ws),
         Ahead(m, done, ws), e.msg = m, e.unit = done + 1,
         wire' = Append(wire, e), UNCHANGED <<posted, sending, taken, reading, open, peer, lost>>
  PROVE  /\ \A n : n # m => Units(wire', n) = Units(wire, n)
         /\ Units(wire', m) = done + 1
         /\ \A n : n # m /\ NotBegun(posted, wire, n) /\ Where(posted, m) < Where(posted, n)
                    => NotBegun(posted, wire', n)
         /\ done # 0 => \A n : NotBegun(posted, wire, n) => Where(posted, m) < Where(posted, n)
         /\ wire' \in Seq(UnitSet) /\ wire'[Len(wire) + 1] = e
         /\ Len(wire') = Len(wire) + 1 /\ Len(wire) \in Nat
         /\ \A i \in 1..Len(wire) : wire'[i] = wire[i]
         /\ \A i \in 1..Len(wire') : i \in 1..Len(wire) \/ i = Len(wire) + 1
<1>1. wire \in Seq(UnitSet)
  BY DEF TypeOK, UnitSet
<1>2. /\ wire' \in Seq(UnitSet) /\ wire'[Len(wire) + 1] = e /\ Len(wire') = Len(wire) + 1
      /\ Len(wire) \in Nat /\ \A i \in 1..Len(wire) : wire'[i] = wire[i]
      /\ \A i \in 1..(Len(wire) + 1) : i \in 1..Len(wire) \/ i = Len(wire) + 1
  BY <1>1, Longer
<1>3. \A n : Units(wire', n) = IF e.msg = n THEN Units(wire, n) + 1 ELSE Units(wire, n)
  BY <1>1, UnitsLonger
<1>4. Units(wire, m) = done
  BY DEF Loose
<1>5. ASSUME NEW n, n # m, NotBegun(posted, wire, n), Where(posted, m) < Where(posted, n)
      PROVE  NotBegun(posted, wire', n)
  BY <1>2, <1>3, <1>5 DEF NotBegun
<1>6. ASSUME done # 0, NEW n, NotBegun(posted, wire, n)
      PROVE  Where(posted, m) < Where(posted, n)
  <2>1. \E i \in 1..Len(wire) : wire[i].msg = m
    BY <1>1, <1>4, <1>6, SomeUnit
  <2> QED
    BY <1>6, <2>1 DEF NotBegun
<1> QED
  BY <1>2, <1>3, <1>4, <1>5, <1>6

\* The other handlers and writes do not notice.
LEMMA OthersFit ==
  ASSUME NEW m, NEW done, NEW q, NEW ws, NEW e \in UnitSet, TypeOK, Loose(m, done, q, ws),
         Ahead(m, done, ws), e.msg = m, e.unit = done + 1,
         wire' = Append(wire, e), UNCHANGED <<posted, sending, taken, reading, open, peer, lost>>
  PROVE  /\ \A i \in 1..Len(q) : HandlerFits(q[i])'
         /\ \A i \in 1..Len(ws) : WriteFits(ws[i])'
<1>1. /\ \A n : n # m => Units(wire', n) = Units(wire, n)
      /\ \A n : n # m /\ NotBegun(posted, wire, n) /\ Where(posted, m) < Where(posted, n)
                 => NotBegun(posted, wire', n)
      /\ done # 0 => \A n : NotBegun(posted, wire, n) => Where(posted, m) < Where(posted, n)
  BY UnitAdded
<1>2. Len(wire') = Len(wire) + 1 /\ Len(wire) \in Nat /\ \A i \in 1..Len(wire) : wire'[i] = wire[i]
  BY UnitAdded
<1>3. ASSUME NEW i \in 1..Len(q) PROVE HandlerFits(q[i])'
  <2> DEFINE h == q[i]
  <2>1. /\ HandlerFits(h) /\ (h.kind \in OfMessage => h.msg # m)
        /\ h.kind = "send" /\ done = 0 => Where(posted, m) < Where(posted, h.msg)
    BY DEF Loose
  <2> HIDE DEF h
  <2>2. h.kind \in OfMessage => Units(wire', h.msg) = Units(wire, h.msg)
    BY <1>1, <2>1
  <2>3. h.kind = "send" => NotBegun(posted, wire', h.msg)
    <3> SUFFICES ASSUME h.kind = "send" PROVE NotBegun(posted, wire', h.msg)
      OBVIOUS
    <3>1. NotBegun(posted, wire, h.msg) /\ h.msg # m
      BY <2>1 DEF HandlerFits, OfMessage
    <3> QED
      BY <1>1, <2>1, <3>1
  <2>4. h.kind = "written" => \E j \in 1..Len(wire') : wire'[j].unit = wire'[j].msg.units
    BY <1>2, <2>1 DEF HandlerFits
  <2>5. HandlerFits(h)'
    BY <2>1, <2>2, <2>3, <2>4 DEF HandlerFits, OfMessage, PostedOnes, Fresh
  <2> QED
    BY <2>5 DEF h
<1>4. ASSUME NEW i \in 1..Len(ws) PROVE WriteFits(ws[i])'
  <2> DEFINE w == ws[i]
  <2>1. /\ WriteFits(w) /\ w.msg # m
        /\ w.done = 0 /\ done = 0 => Where(posted, m) < Where(posted, w.msg)
    BY DEF Loose, Ahead
  <2> HIDE DEF w
  <2>2. Units(wire', w.msg) = Units(wire, w.msg)
    BY <1>1, <2>1
  <2>3. w.done = 0 => NotBegun(posted, wire', w.msg)
    BY <1>1, <2>1 DEF WriteFits
  <2>4. WriteFits(w)'
    BY <2>1, <2>2, <2>3 DEF WriteFits, PostedOnes, Fresh
  <2> QED
    BY <2>4 DEF w
<1> QED
  BY <1>3, <1>4

\* What does not touch the wire or what is posted.
LEMMA FitsStay ==
  ASSUME NEW h, HandlerFits(h), UNCHANGED <<posted, wire, sending, taken>>,
         open' => open, peer = "down" => peer' = "down", lost => lost',
         h.kind \in OfRead => reading' = reading
  PROVE  HandlerFits(h)'
  BY DEF HandlerFits, NotBegun, Fresh, PostedOnes

LEMMA WriteFitsStays ==
  ASSUME NEW w, WriteFits(w), UNCHANGED <<posted, wire, sending, taken>>
  PROVE  WriteFits(w)'
  BY DEF WriteFits, NotBegun, Fresh, PostedOnes

\* One unit was given to the socket.
LEMMA UnitSent ==
  ASSUME NEW m, NEW done, NEW q, NEW ws, NEW e \in UnitSet, NEW kind, TypeOK, OnWire,
         Loose(m, done, q, ws), Ahead(m, done, ws), e.msg = m, e.unit = done + 1,
         kind = IF done + 1 = m.units THEN "written" ELSE "more",
         handlers' = Append(q, Completion(kind, m, done + 1)), writes' = ws,
         wire' = Append(wire, e), UNCHANGED <<posted, sending, taken, reading, open, peer, lost>>
  PROVE  /\ Queued' /\ OnWire'
         /\ handlers' \in Seq(HandlerSet) /\ writes' \in Seq(WriteSet) /\ wire' \in Seq(UnitSet)
<1> DEFINE x == Completion(kind, m, done + 1)
<1>1. /\ q \in Seq(HandlerSet) /\ ws \in Seq(WriteSet) /\ m \in Message /\ done \in Nat
      /\ m \in PostedOnes /\ Fresh(m)
      /\ QueueInOrder(posted, q) /\ WritesInOrder(posted, ws) /\ WritesBefore(posted, ws, q)
      /\ \A i \in 1..Len(q) : q[i].kind \in OfMessage => q[i].msg # m
      /\ \A i \in 1..Len(ws) : ws[i].msg # m
      /\ done = 0 => NotBegun(posted, wire, m)
  BY DEF Loose
<1>2. /\ \A n : n # m => Units(wire', n) = Units(wire, n)
      /\ Units(wire', m) = done + 1
      /\ wire' \in Seq(UnitSet) /\ wire'[Len(wire) + 1] = e
      /\ Len(wire') = Len(wire) + 1 /\ Len(wire) \in Nat
      /\ \A i \in 1..Len(wire) : wire'[i] = wire[i]
      /\ \A i \in 1..Len(wire') : i \in 1..Len(wire) \/ i = Len(wire) + 1
  BY UnitAdded
<1>3. /\ x \in HandlerSet /\ x.kind = kind /\ x.msg = m /\ x.done = done + 1
      /\ kind \in {"written", "more"}
  BY <1>1, HandlerTypes
<1>4. HandlerFits(x)'
  <2>1. kind = "written" => \E i \in 1..Len(wire') : wire'[i].unit = wire'[i].msg.units
    <3>1. kind = "written" => e.unit = e.msg.units
      OBVIOUS
    <3>2. Len(wire) + 1 \in 1..Len(wire')
      BY <1>2
    <3> QED
      BY <1>2, <3>1, <3>2
  <2> HIDE DEF x
  <2> QED
    BY <1>1, <1>2, <1>3, <2>1 DEF HandlerFits, OfMessage, OfRead, PostedOnes, Fresh
<1>5. /\ \A i \in 1..Len(q) : HandlerFits(q[i])'
      /\ \A i \in 1..Len(ws) : WriteFits(ws[i])'
  BY OthersFit
<1>6. \A i \in 1..Len(q) : InOrder(posted, q[i], x)
  BY <1>1, <1>3 DEF InOrder, OfRead
<1>7. \A i \in 1..Len(ws) : WriteBefore(posted, ws[i], x)
  BY <1>1, <1>3 DEF WriteBefore
<1> HIDE DEF x
<1>8. /\ QueueInOrder(posted, Append(q, x)) /\ WritesBefore(posted, ws, Append(q, x))
  BY <1>1, <1>3, <1>6, <1>7, QueueLonger, BetweenQueueLonger
<1>9. /\ Append(q, x) \in Seq(HandlerSet)
      /\ \A i \in 1..Len(Append(q, x)) : HandlerFits(Append(q, x)[i])'
  <2>1. /\ Append(q, x) \in Seq(HandlerSet) /\ Len(Append(q, x)) = Len(q) + 1
        /\ \A i \in 1..Len(q) : Append(q, x)[i] = q[i]
        /\ Append(q, x)[Len(q) + 1] = x
        /\ \A i \in 1..(Len(q) + 1) : i \in 1..Len(q) \/ i = Len(q) + 1
    BY <1>1, <1>3, Longer
  <2> QED
    BY <1>4, <1>5, <2>1
<1>10. Queued'
  BY <1>1, <1>5, <1>8, <1>9, QueuedNext DEF x
<1>11. OnWire'
  <2>1. \A i \in 1..Len(wire') : wire'[i].msg \in PostedOnes
    BY <1>1, <1>2 DEF OnWire
  <2>2. ASSUME NEW i \in 1..Len(wire'), NEW j \in 1..Len(wire'), i < j,
               wire'[i].unit = 1, wire'[j].unit = 1
        PROVE  Where(posted, wire'[i].msg) < Where(posted, wire'[j].msg)
    <3>1. i \in 1..Len(wire) /\ wire'[i] = wire[i]
      BY <1>2, <2>2
    <3>2. CASE j \in 1..Len(wire)
      BY <1>2, <2>2, <3>1, <3>2 DEF OnWire
    <3>3. CASE j = Len(wire) + 1
      <4>1. done = 0
        BY <1>1, <1>2, <2>2, <3>3
      <4> QED
        BY <1>1, <1>2, <3>1, <3>3, <4>1 DEF NotBegun
    <3> QED
      BY <1>2, <3>2, <3>3
  <2>3. ASSUME NEW i \in 1..Len(wire')
        PROVE  wire'[i].unit = Cardinality({j \in 1..i : wire'[j].msg = wire'[i].msg})
    <3>1. CASE i \in 1..Len(wire)
      <4>1. {j \in 1..i : wire'[j].msg = wire'[i].msg} = {j \in 1..i : wire[j].msg = wire[i].msg}
        <5>1. \A j \in 1..i : j \in 1..Len(wire)
          BY <1>2, <3>1
        <5> QED
          BY <1>2, <3>1, <5>1
      <4> QED
        BY <1>2, <3>1, <4>1 DEF OnWire
    <3>2. CASE i = Len(wire) + 1
      BY <1>2, <3>2 DEF Units
    <3> QED
      BY <1>2, <3>1, <3>2
  <2> QED
    BY <2>1, <2>2, <2>3 DEF OnWire, PostedOnes
<1> QED
  BY <1>1, <1>2, <1>9, <1>10, <1>11 DEF x

\* An operation failed.
LEMMA FailedQueued ==
  ASSUME NEW q \in Seq(HandlerSet), NEW ws \in Seq(WriteSet),
         \A i \in 1..Len(q) : HandlerFits(q[i]) /\ (q[i].kind \in OfRead => reading' = reading),
         \A i \in 1..Len(ws) : WriteFits(ws[i]),
         QueueInOrder(posted, q), WritesInOrder(posted, ws), WritesBefore(posted, ws, q),
         handlers' = Append(q, Event("failed")), writes' = ws,
         ~open' \/ peer' = "down" \/ lost',
         UNCHANGED <<posted, wire, sending, taken>>,
         open' => open, peer = "down" => peer' = "down", lost => lost'
  PROVE  Queued' /\ handlers' \in Seq(HandlerSet) /\ writes' \in Seq(WriteSet)
<1> DEFINE x == Event("failed")
<1>1. x \in HandlerSet /\ x.kind = "failed"
  BY HandlerTypes
<1>2. HandlerFits(x)'
  BY <1>1 DEF HandlerFits, OfMessage, OfRead
<1>3. \A i \in 1..Len(q) : InOrder(posted, q[i], x)
  BY <1>1 DEF InOrder, OfRead, OfMessage
<1>4. \A i \in 1..Len(ws) : WriteBefore(posted, ws[i], x)
  BY <1>1 DEF WriteBefore, OfMessage
<1>5. \A i \in 1..Len(q) : HandlerFits(q[i])'
  BY FitsStay
<1>6. \A i \in 1..Len(ws) : WriteFits(ws[i])'
  BY WriteFitsStays
<1> HIDE DEF x
<1>7. /\ QueueInOrder(posted, Append(q, x)) /\ WritesBefore(posted, ws, Append(q, x))
  BY <1>1, <1>3, <1>4, QueueLonger, BetweenQueueLonger
<1>8. /\ Append(q, x) \in Seq(HandlerSet)
      /\ \A i \in 1..Len(Append(q, x)) : HandlerFits(Append(q, x)[i])'
  <2>1. /\ Append(q, x) \in Seq(HandlerSet) /\ Len(Append(q, x)) = Len(q) + 1
        /\ \A i \in 1..Len(q) : Append(q, x)[i] = q[i]
        /\ Append(q, x)[Len(q) + 1] = x
        /\ \A i \in 1..(Len(q) + 1) : i \in 1..Len(q) \/ i = Len(q) + 1
    BY <1>1, Longer
  <2> QED
    BY <1>2, <1>5, <2>1
<1> QED
  BY <1>6, <1>7, <1>8, QueuedNext DEF x

\* The message waits for the socket behind the writes that do.
LEMMA WaitQueued ==
  ASSUME NEW m, NEW done, NEW q, NEW ws, Loose(m, done, q, ws),
         done = 0 => \A i \in 1..Len(ws) :
           ws[i].done = 0 => Where(posted, ws[i].msg) < Where(posted, m),
         handlers' = q, writes' = Append(ws, [msg |-> m, done |-> done]),
         UNCHANGED <<posted, wire, sending, taken, open, peer, lost, reading>>
  PROVE  Queued' /\ handlers' \in Seq(HandlerSet) /\ writes' \in Seq(WriteSet)
<1> DEFINE w == [msg |-> m, done |-> done]
<1>1. /\ q \in Seq(HandlerSet) /\ ws \in Seq(WriteSet) /\ m \in Message /\ done \in Nat
      /\ m \in PostedOnes /\ Fresh(m) /\ Units(wire, m) = done
      /\ QueueInOrder(posted, q) /\ WritesInOrder(posted, ws) /\ WritesBefore(posted, ws, q)
      /\ \A i \in 1..Len(q) : q[i].kind \in OfMessage => q[i].msg # m
      /\ \A i \in 1..Len(q) :
           q[i].kind = "send" /\ done = 0 => Where(posted, m) < Where(posted, q[i].msg)
      /\ \A i \in 1..Len(ws) : ws[i].msg # m
      /\ done = 0 => NotBegun(posted, wire, m)
      /\ \A i \in 1..Len(q) : HandlerFits(q[i])
      /\ \A i \in 1..Len(ws) : WriteFits(ws[i])
  BY DEF Loose
<1>2. w \in WriteSet /\ w.msg = m /\ w.done = done
  BY <1>1 DEF WriteSet
<1> HIDE DEF w
<1>3. WriteFits(w)
  BY <1>1, <1>2 DEF WriteFits
<1>4. \A i \in 1..Len(ws) : WriteInOrder(posted, ws[i], w)
  BY <1>1, <1>2 DEF WriteInOrder
<1>5. \A i \in 1..Len(q) : WriteBefore(posted, w, q[i])
  BY <1>1, <1>2 DEF WriteBefore
<1>6. WritesInOrder(posted, Append(ws, w)) /\ WritesBefore(posted, Append(ws, w), q)
  BY <1>1, <1>2, <1>4, <1>5, WritesLonger, BetweenWritesLonger
<1>7. \A i \in 1..Len(q) : HandlerFits(q[i])'
  BY <1>1, FitsStay
<1>8. /\ Append(ws, w) \in Seq(WriteSet)
      /\ \A i \in 1..Len(Append(ws, w)) : WriteFits(Append(ws, w)[i])'
  <2>1. /\ Append(ws, w) \in Seq(WriteSet) /\ Len(Append(ws, w)) = Len(ws) + 1
        /\ \A i \in 1..Len(ws) : Append(ws, w)[i] = ws[i]
        /\ Append(ws, w)[Len(ws) + 1] = w
        /\ \A i \in 1..(Len(ws) + 1) : i \in 1..Len(ws) \/ i = Len(ws) + 1
    BY <1>1, <1>2, Longer
  <2>2. WriteFits(w)' /\ \A i \in 1..Len(ws) : WriteFits(ws[i])'
    BY <1>1, <1>3, WriteFitsStays
  <2> QED
    BY <2>1, <2>2
<1> QED
  BY <1>1, <1>6, <1>7, <1>8, QueuedNext DEF w

\* async_write's next unit, if the socket takes it.
LEMMA TransferKeeps ==
  ASSUME NEW m, NEW done, NEW q, NEW ws, NEW alive \in BOOLEAN, TypeOK, OnWire,
         Loose(m, done, q, ws), Ahead(m, done, ws), Transfer(m, done, alive, q), writes' = ws,
         UNCHANGED <<posted, sending, taken, reading, open, peer>>
  PROVE  /\ Queued' /\ OnWire'
         /\ handlers' \in Seq(HandlerSet) /\ writes' \in Seq(WriteSet) /\ wire' \in Seq(UnitSet)
         /\ \A i \in 1..Len(wire) : i \in 1..Len(wire') /\ wire'[i] = wire[i]
         /\ lost => lost'
         /\ \A i \in 1..Len(q) : i \in 1..Len(handlers') /\ handlers'[i] = q[i]
<1>1. q \in Seq(HandlerSet) /\ ws \in Seq(WriteSet) /\ m \in Message /\ done \in Nat
  BY DEF Loose
<1>2. CASE /\ peer = "up"
           /\ wire' = Append(wire, [msg |-> m, unit |-> done + 1, owned |-> alive])
           /\ handlers' =
                Append(q, Completion(IF done + 1 = m.units THEN "written" ELSE "more", m, done + 1))
           /\ lost' = lost
  <2> DEFINE e == [msg |-> m, unit |-> done + 1, owned |-> alive]
             kind == IF done + 1 = m.units THEN "written" ELSE "more"
  <2>1. e \in UnitSet /\ e.msg = m /\ e.unit = done + 1
    BY <1>1 DEF UnitSet
  <2>2. wire \in Seq(UnitSet) /\ kind \in {"written", "more"}
    BY DEF TypeOK, UnitSet
  <2>3. wire' = Append(wire, e) /\ handlers' = Append(q, Completion(kind, m, done + 1)) /\ lost' = lost
    BY <1>2
  <2>4. kind = IF done + 1 = m.units THEN "written" ELSE "more"
    OBVIOUS
  <2> HIDE DEF e, kind
  <2>5. /\ Queued' /\ OnWire'
        /\ handlers' \in Seq(HandlerSet) /\ writes' \in Seq(WriteSet) /\ wire' \in Seq(UnitSet)
    BY <2>1, <2>3, <2>4, UnitSent
  <2>6. \A i \in 1..Len(wire) : i \in 1..Len(wire') /\ wire'[i] = wire[i]
    BY <2>1, <2>2, <2>3, Longer
  <2>7. Completion(kind, m, done + 1) \in HandlerSet
    BY <1>1, <2>2, HandlerTypes
  <2>8. \A i \in 1..Len(q) : i \in 1..Len(handlers') /\ handlers'[i] = q[i]
    BY <1>1, <2>3, <2>7, Longer
  <2> QED
    BY <2>3, <2>5, <2>6, <2>8
<1>3. CASE /\ peer = "down" \/ ~alive
           /\ handlers' = Append(q, Event("failed"))
           /\ lost' = (lost \/ peer = "up")
           /\ wire' = wire
  <2>1. (peer' = "down" \/ lost') /\ (lost => lost')
    BY <1>3 DEF TypeOK
  <2>2. /\ \A i \in 1..Len(q) : HandlerFits(q[i])
        /\ \A i \in 1..Len(ws) : WriteFits(ws[i])
        /\ QueueInOrder(posted, q) /\ WritesInOrder(posted, ws) /\ WritesBefore(posted, ws, q)
    BY DEF Loose
  <2>3. Queued' /\ handlers' \in Seq(HandlerSet) /\ writes' \in Seq(WriteSet)
    BY <1>1, <1>3, <2>1, <2>2, FailedQueued
  <2>4. OnWire' /\ wire' \in Seq(UnitSet)
    BY <1>3 DEF OnWire, PostedOnes, TypeOK, UnitSet
  <2>5. Event("failed") \in HandlerSet
    BY HandlerTypes
  <2>6. \A i \in 1..Len(q) : i \in 1..Len(handlers') /\ handlers'[i] = q[i]
    BY <1>1, <1>3, <2>5, Longer
  <2> QED
    BY <1>3, <2>1, <2>3, <2>4, <2>6
<1> QED
  BY <1>2, <1>3 DEF Transfer

\* The rest of the state when a handler or the socket writes.
LEMMA WritingKeeps ==
  ASSUME IInv, NEW q, UNCHANGED <<open, sending, held, posted, reading, taken, peer, fault>>,
         Queued', OnWire', handlers' \in Seq(HandlerSet), writes' \in Seq(WriteSet),
         wire' \in Seq(UnitSet), lost => lost', lost' \in BOOLEAN,
         \A i \in 1..Len(wire) : i \in 1..Len(wire') /\ wire'[i] = wire[i],
         \A i \in 1..Len(q) : i \in 1..Len(handlers') /\ handlers'[i] = q[i],
         open /\ reading = "none" => \E i \in 1..Len(q) : q[i].kind \in OfRead \cup {"failed"},
         ~open => writes' = <<>>
  PROVE  IInv'
<1>1. open' \in BOOLEAN
  BY DEF IInv, TypeOK
<1>2. TypeOK'
  BY <1>1 DEF IInv, TypeOK, WriteSet, UnitSet
<1>3. PostedOnce'
  BY DEF IInv, PostedOnce, PostedOnes
<1>4. Closed' /\ Reading'
  BY DEF IInv, Closed, Reading
<1>5. StoppedForAReason'
  BY DEF IInv, StoppedForAReason
<1> QED
  BY <1>2, <1>3, <1>4, <1>5 DEF IInv

\* lost stays a Boolean.
LEMMA LostType ==
  ASSUME NEW m, NEW done, NEW q, NEW alive, TypeOK, Transfer(m, done, alive, q)
  PROVE  lost' \in BOOLEAN
<1>1. lost \in BOOLEAN
  BY DEF TypeOK
<1>2. CASE lost' = lost
  BY <1>1, <1>2
<1>3. CASE lost' = (lost \/ peer = "up")
  BY <1>3
<1> QED
  BY <1>2, <1>3 DEF Transfer

LEMMA WriteSomeKeeps ==
  ASSUME IInv, NEW m, NEW done, NEW q, NEW alive \in BOOLEAN, Loose(m, done, q, writes),
         done = 0 => \A i \in 1..Len(writes) :
           writes[i].done = 0 => Where(posted, writes[i].msg) < Where(posted, m),
         open /\ reading = "none" => \E i \in 1..Len(q) : q[i].kind \in OfRead \cup {"failed"},
         WriteSome(m, done, alive, q),
         UNCHANGED <<open, sending, held, posted, reading, taken, peer, fault>>
  PROVE  IInv'
<1>0. /\ TypeOK /\ OnWire /\ Closed /\ q \in Seq(HandlerSet) /\ writes \in Seq(WriteSet)
      /\ wire \in Seq(UnitSet) /\ lost \in BOOLEAN
  BY DEF IInv, Loose, TypeOK, UnitSet
<1>1. CASE ~open /\ handlers' = Append(q, Event("failed")) /\ UNCHANGED <<writes, wire, lost>>
  <2>1. /\ \A i \in 1..Len(q) : HandlerFits(q[i])
        /\ \A i \in 1..Len(writes) : WriteFits(writes[i])
        /\ QueueInOrder(posted, q) /\ WritesInOrder(posted, writes)
        /\ WritesBefore(posted, writes, q)
    BY DEF Loose
  <2>2. PICK ws : ws = writes
    OBVIOUS
  <2>3. Queued' /\ handlers' \in Seq(HandlerSet) /\ writes' \in Seq(WriteSet)
    BY <1>0, <1>1, <2>1, <2>2, FailedQueued
  <2>4. OnWire'
    BY <1>0, <1>1 DEF OnWire, PostedOnes
  <2>5. Event("failed") \in HandlerSet
    BY HandlerTypes
  <2>6. \A i \in 1..Len(q) : i \in 1..Len(handlers') /\ handlers'[i] = q[i]
    BY <1>0, <1>1, <2>5, Longer
  <2> QED
    BY <1>0, <1>1, <2>3, <2>4, <2>6, WritingKeeps DEF Closed
<1>2. CASE open /\ writes = <<>> /\ Transfer(m, done, alive, q) /\ UNCHANGED writes
  <2>1. PICK ws : ws = writes
    OBVIOUS
  <2>2. Ahead(m, done, ws) /\ Loose(m, done, q, ws)
    BY <1>2, <2>1 DEF Ahead
  <2>3. /\ Queued' /\ OnWire'
        /\ handlers' \in Seq(HandlerSet) /\ writes' \in Seq(WriteSet) /\ wire' \in Seq(UnitSet)
        /\ \A i \in 1..Len(wire) : i \in 1..Len(wire') /\ wire'[i] = wire[i]
        /\ lost => lost'
        /\ \A i \in 1..Len(q) : i \in 1..Len(handlers') /\ handlers'[i] = q[i]
    BY <1>0, <1>2, <2>1, <2>2, TransferKeeps
  <2>4. lost' \in BOOLEAN
    BY <1>0, <1>2, LostType
  <2> QED
    BY <1>2, <2>3, <2>4, WritingKeeps
<1>3. CASE /\ open /\ writes' = Append(writes, [msg |-> m, done |-> done])
           /\ handlers' = q /\ UNCHANGED <<wire, lost>>
  <2>1. PICK ws : ws = writes
    OBVIOUS
  <2>2. Queued' /\ handlers' \in Seq(HandlerSet) /\ writes' \in Seq(WriteSet)
    BY <1>3, <2>1, WaitQueued
  <2>3. OnWire'
    BY <1>0, <1>3 DEF OnWire, PostedOnes
  <2> QED
    BY <1>0, <1>3, <2>2, <2>3, WritingKeeps
<1> QED
  BY <1>1, <1>2, <1>3 DEF WriteSome

\* A handler is taken from the queue.
LEMMA Dequeued ==
  ASSUME IInv, handlers # <<>>
  PROVE  /\ Head(handlers) = handlers[1] /\ Head(handlers) \in HandlerSet
         /\ HandlerFits(Head(handlers))
         /\ Tail(handlers) \in Seq(HandlerSet)
         /\ \A i \in 1..Len(Tail(handlers)) :
              HandlerFits(Tail(handlers)[i]) /\ InOrder(posted, Head(handlers), Tail(handlers)[i])
         /\ QueueInOrder(posted, Tail(handlers)) /\ WritesBefore(posted, writes, Tail(handlers))
         /\ \A i \in 1..Len(writes) : WriteBefore(posted, writes[i], Head(handlers))
         /\ Head(handlers).kind \notin OfRead \cup {"failed"} /\ open /\ reading = "none" =>
              \E i \in 1..Len(Tail(handlers)) : Tail(handlers)[i].kind \in OfRead \cup {"failed"}
<1>1. /\ handlers \in Seq(HandlerSet) /\ writes \in Seq(WriteSet)
      /\ \A i \in 1..Len(handlers) : HandlerFits(handlers[i])
      /\ QueueInOrder(posted, handlers) /\ WritesBefore(posted, writes, handlers)
  BY DEF IInv, TypeOK, WriteSet, Queued
<1>2. /\ Tail(handlers) \in Seq(HandlerSet)
      /\ Head(handlers) = handlers[1] /\ handlers[1] \in HandlerSet /\ 1 \in 1..Len(handlers)
      /\ \A i \in 1..Len(Tail(handlers)) :
           Tail(handlers)[i] = handlers[i + 1] /\ i + 1 \in 1..Len(handlers)
      /\ \A i \in 1..Len(handlers) : i = 1 \/ \E j \in 1..Len(Tail(handlers)) : Tail(handlers)[j] = handlers[i]
  BY <1>1, Shorter
<1>3. /\ QueueInOrder(posted, Tail(handlers))
      /\ \A i \in 1..Len(Tail(handlers)) : InOrder(posted, Head(handlers), Tail(handlers)[i])
  BY <1>1, QueueShorter
<1>4. /\ WritesBefore(posted, writes, Tail(handlers))
      /\ \A i \in 1..Len(writes) : WriteBefore(posted, writes[i], Head(handlers))
  BY <1>1, BetweenShorter
<1>5. ASSUME Head(handlers).kind \notin OfRead \cup {"failed"}, open, reading = "none"
      PROVE  \E i \in 1..Len(Tail(handlers)) : Tail(handlers)[i].kind \in OfRead \cup {"failed"}
  <2>1. PICK i \in 1..Len(handlers) : handlers[i].kind \in OfRead \cup {"failed"}
    BY <1>5 DEF IInv, Reading
  <2>2. i # 1
    BY <1>2, <1>5, <2>1
  <2> QED
    BY <1>2, <2>1, <2>2
<1> QED
  BY <1>1, <1>2, <1>3, <1>4, <1>5

(***************************************************************************)
(* The actions.                                                            *)
(***************************************************************************)

LEMMA RunSendKeeps == ASSUME IInv, RunSend PROVE IInv'
<1>0. /\ handlers # <<>> /\ Head(handlers).kind = "send" /\ sending[IO] = <<>>
      /\ WriteSome(Head(handlers).msg, 0, TRUE, Tail(handlers))
      /\ UNCHANGED <<open, sending, held, posted, reading, taken, peer, fault>>
  BY DEF RunSend, Running, Idle
<1>1. PICK m : m = Head(handlers).msg
  OBVIOUS
<1>2. PICK q : q = Tail(handlers)
  OBVIOUS
<1>3. /\ Head(handlers) \in HandlerSet /\ HandlerFits(Head(handlers))
      /\ q \in Seq(HandlerSet)
      /\ \A i \in 1..Len(q) : HandlerFits(q[i]) /\ InOrder(posted, Head(handlers), q[i])
      /\ QueueInOrder(posted, q) /\ WritesBefore(posted, writes, q)
      /\ \A i \in 1..Len(writes) : WriteBefore(posted, writes[i], Head(handlers))
      /\ open /\ reading = "none" => \E i \in 1..Len(q) : q[i].kind \in OfRead \cup {"failed"}
  BY <1>0, <1>2, Dequeued DEF OfRead
<1>4. /\ writes \in Seq(WriteSet) /\ WritesInOrder(posted, writes)
      /\ \A i \in 1..Len(writes) : WriteFits(writes[i])
  BY DEF IInv, TypeOK, WriteSet, Queued
<1>5. m \in Message /\ m \in PostedOnes /\ NotBegun(posted, wire, m)
  BY <1>0, <1>1, <1>3, HandlerTypes DEF HandlerFits, OfMessage
<1>6. \A i \in 1..Len(q) :
        /\ q[i].kind \in OfMessage => q[i].msg # m
        /\ q[i].kind = "send" => Where(posted, m) < Where(posted, q[i].msg)
  BY <1>0, <1>1, <1>3 DEF InOrder, OfMessage
<1>7. \A i \in 1..Len(writes) :
        writes[i].msg # m /\ (writes[i].done = 0 => Where(posted, writes[i].msg) < Where(posted, m))
  BY <1>0, <1>1, <1>3 DEF WriteBefore, OfMessage
<1>8. Loose(m, 0, q, writes)
  BY <1>0, <1>3, <1>4, <1>5, <1>6, <1>7 DEF Loose, Fresh, NotBegun
<1> QED
  BY <1>0, <1>1, <1>2, <1>3, <1>7, <1>8, WriteSomeKeeps

LEMMA RunMoreKeeps == ASSUME IInv, RunMore PROVE IInv'
<1>1. PICK m : m = Head(handlers).msg
  OBVIOUS
<1>2. PICK q : q = Tail(handlers)
  OBVIOUS
<1>a. PICK done : done = Head(handlers).done
  OBVIOUS
<1>b. PICK alive \in BOOLEAN : alive = (held[m.sender] = m)
  OBVIOUS
<1>0. /\ handlers # <<>> /\ Head(handlers).kind = "more" /\ sending[IO] = <<>>
      /\ WriteSome(m, done, alive, q)
      /\ UNCHANGED <<open, sending, held, posted, reading, taken, peer, fault>>
  BY <1>1, <1>2, <1>a, <1>b DEF RunMore, Running, Idle
<1>3. /\ Head(handlers) \in HandlerSet /\ HandlerFits(Head(handlers))
      /\ q \in Seq(HandlerSet)
      /\ \A i \in 1..Len(q) : HandlerFits(q[i]) /\ InOrder(posted, Head(handlers), q[i])
      /\ QueueInOrder(posted, q) /\ WritesBefore(posted, writes, q)
      /\ \A i \in 1..Len(writes) : WriteBefore(posted, writes[i], Head(handlers))
      /\ open /\ reading = "none" => \E i \in 1..Len(q) : q[i].kind \in OfRead \cup {"failed"}
  BY <1>0, <1>2, Dequeued DEF OfRead
<1>4. /\ writes \in Seq(WriteSet) /\ WritesInOrder(posted, writes)
      /\ \A i \in 1..Len(writes) : WriteFits(writes[i])
  BY DEF IInv, TypeOK, WriteSet, Queued
<1>5. /\ m \in Message /\ m \in PostedOnes /\ done \in Nat \ {0}
      /\ Units(wire, m) = done
  BY <1>0, <1>1, <1>a, <1>3, HandlerTypes DEF HandlerFits, OfMessage
<1>6. \A i \in 1..Len(q) : q[i].kind \in OfMessage => q[i].msg # m
  BY <1>0, <1>1, <1>3 DEF InOrder, OfMessage
<1>7. \A i \in 1..Len(writes) : writes[i].msg # m
  BY <1>0, <1>1, <1>3 DEF WriteBefore, OfMessage
<1>8. Loose(m, done, q, writes) /\ done # 0
  BY <1>0, <1>3, <1>4, <1>5, <1>6, <1>7 DEF Loose, Fresh
<1> QED
  BY <1>0, <1>3, <1>8, WriteSomeKeeps

LEMMA WritableKeeps == ASSUME IInv, Writable PROVE IInv'
<1>1. PICK m : m = Head(writes).msg
  OBVIOUS
<1>2. PICK q : q = handlers
  OBVIOUS
<1>a. PICK done : done = Head(writes).done
  OBVIOUS
<1>b. PICK alive \in BOOLEAN : alive = (held[m.sender] = m)
  OBVIOUS
<1>c. PICK ws : ws = Tail(writes)
  OBVIOUS
<1>0. /\ writes # <<>> /\ sending[IO] = <<>> /\ writes' = ws
      /\ Transfer(m, done, alive, q)
      /\ UNCHANGED <<open, sending, held, posted, reading, taken, peer, fault>>
  BY <1>1, <1>2, <1>a, <1>b, <1>c DEF Writable, Idle
<1>3. /\ writes \in Seq(WriteSet) /\ q \in Seq(HandlerSet)
      /\ WritesInOrder(posted, writes) /\ QueueInOrder(posted, q) /\ WritesBefore(posted, writes, q)
      /\ \A i \in 1..Len(q) : HandlerFits(q[i])
      /\ \A i \in 1..Len(writes) : WriteFits(writes[i])
  BY <1>2 DEF IInv, TypeOK, WriteSet, Queued
<1>4. /\ ws \in Seq(WriteSet) /\ Head(writes) \in WriteSet /\ WriteFits(Head(writes))
      /\ \A i \in 1..Len(ws) : WriteFits(ws[i])
  <2>1. /\ Tail(writes) \in Seq(WriteSet)
        /\ Head(writes) = writes[1] /\ writes[1] \in WriteSet /\ 1 \in 1..Len(writes)
        /\ \A i \in 1..Len(Tail(writes)) : Tail(writes)[i] = writes[i + 1] /\ i + 1 \in 1..Len(writes)
    BY <1>0, <1>3, Shorter
  <2> QED
    BY <1>3, <1>c, <2>1
<1>5. /\ WritesInOrder(posted, ws)
      /\ \A i \in 1..Len(ws) : WriteInOrder(posted, Head(writes), ws[i])
  BY <1>0, <1>3, <1>c, WritesShorter
<1>6. /\ WritesBefore(posted, ws, q)
      /\ \A i \in 1..Len(q) : WriteBefore(posted, Head(writes), q[i])
  BY <1>0, <1>3, <1>c, BetweenShorter
<1>7. m \in Message /\ done \in Nat
  BY <1>1, <1>4, <1>a DEF WriteSet
<1>8. Loose(m, done, q, ws)
  BY <1>0, <1>1, <1>3, <1>4, <1>5, <1>6, <1>7, <1>a DEF Loose, WriteFits, WriteInOrder, WriteBefore
<1>9. Ahead(m, done, ws)
  BY <1>1, <1>5, <1>a DEF Ahead, WriteInOrder
<1>10. TypeOK /\ OnWire /\ (~open => writes = <<>>)
  BY DEF IInv, Closed
<1>11. /\ Queued' /\ OnWire'
       /\ handlers' \in Seq(HandlerSet) /\ writes' \in Seq(WriteSet) /\ wire' \in Seq(UnitSet)
       /\ \A i \in 1..Len(wire) : i \in 1..Len(wire') /\ wire'[i] = wire[i]
       /\ lost => lost'
       /\ \A i \in 1..Len(q) : i \in 1..Len(handlers') /\ handlers'[i] = q[i]
  BY <1>0, <1>8, <1>9, <1>10, TransferKeeps
<1>12. lost' \in BOOLEAN
  BY <1>0, <1>10, LostType
<1>13. open /\ reading = "none" => \E i \in 1..Len(q) : q[i].kind \in OfRead \cup {"failed"}
  BY <1>2 DEF IInv, Reading
<1> QED
  BY <1>0, <1>10, <1>11, <1>12, <1>13, WritingKeeps

\* The connection is stopped.
LEMMA StopKeeps == ASSUME IInv, RunWritten \/ RunFailed PROVE IInv'
<1>1. PICK q : q = Tail(handlers)
  OBVIOUS
<1>0. /\ handlers # <<>> /\ Head(handlers).kind \in {"written", "failed"}
      /\ open' = FALSE /\ writes' = <<>> /\ reading' = "none" /\ handlers' = q
      /\ UNCHANGED <<wire, sending, held, posted, taken, peer, lost, fault>>
  BY <1>1 DEF RunWritten, RunFailed, Running, Stop
<1>2. /\ HandlerFits(Head(handlers)) /\ q \in Seq(HandlerSet) /\ QueueInOrder(posted, q)
      /\ \A i \in 1..Len(q) : HandlerFits(q[i])
  BY <1>0, <1>1, Dequeued
<1>3. \A i \in 1..Len(q) : HandlerFits(q[i])'
  <2> SUFFICES ASSUME NEW i \in 1..Len(q) PROVE HandlerFits(q[i])'
    OBVIOUS
  <2>1. HandlerFits(q[i]) /\ (q[i].kind \in OfRead => reading' = reading)
    BY <1>0, <1>2 DEF HandlerFits
  <2> QED
    BY <1>0, <2>1, FitsStay
<1>4. Queued'
  <2>1. \E ws : ws = <<>>
    OBVIOUS
  <2>2. PICK ws : ws = <<>>
    BY <2>1
  <2>3. /\ \A i \in 1..Len(ws) : WriteFits(ws[i])'
        /\ WritesInOrder(posted, ws) /\ WritesBefore(posted, ws, q)
    BY <2>2 DEF WritesInOrder, WritesBefore
  <2> QED
    BY <1>0, <1>2, <1>3, <2>2, <2>3, QueuedNext
<1>5. TypeOK'
  <2>1. open' \in BOOLEAN /\ lost' \in BOOLEAN
    BY <1>0 DEF IInv, TypeOK
  <2>2. handlers' \in Seq(HandlerSet) /\ writes' \in Seq([msg : Message, done : Nat])
    BY <1>0, <1>2
  <2> QED
    BY <1>0, <2>1, <2>2 DEF IInv, TypeOK
<1>6. PostedOnce' /\ OnWire'
  BY <1>0 DEF IInv, PostedOnce, OnWire, PostedOnes
<1>7. Closed' /\ Reading'
  BY <1>0 DEF Closed, Reading
<1>8. StoppedForAReason'
  BY <1>0, <1>2 DEF IInv, StoppedForAReason, HandlerFits
<1> QED
  BY <1>4, <1>5, <1>6, <1>7, <1>8 DEF IInv

(***************************************************************************)
(* Reads and the answers to the requests.                                  *)
(***************************************************************************)

\* A read or a failure is queued.
LEMMA EventQueued ==
  ASSUME NEW q \in Seq(HandlerSet), NEW x \in HandlerSet, x.kind \in OfRead \cup {"failed"},
         HandlerFits(x)',
         \A i \in 1..Len(q) : HandlerFits(q[i])' /\ q[i].kind \notin OfRead,
         \A i \in 1..Len(writes) : WriteFits(writes[i])', writes \in Seq(WriteSet),
         QueueInOrder(posted, q), WritesInOrder(posted, writes), WritesBefore(posted, writes, q),
         handlers' = Append(q, x), UNCHANGED <<posted, writes>>
  PROVE  /\ Queued' /\ handlers' \in Seq(HandlerSet)
         /\ \E i \in 1..Len(handlers') : handlers'[i] = x
<1>1. x.kind \notin OfMessage
  BY DEF OfMessage, OfRead
<1>2. \A i \in 1..Len(q) : InOrder(posted, q[i], x)
  BY <1>1 DEF InOrder, OfMessage
<1>3. \A i \in 1..Len(writes) : WriteBefore(posted, writes[i], x)
  BY <1>1 DEF WriteBefore, OfMessage
<1>4. QueueInOrder(posted, Append(q, x)) /\ WritesBefore(posted, writes, Append(q, x))
  BY <1>2, <1>3, QueueLonger, BetweenQueueLonger
<1>5. /\ Append(q, x) \in Seq(HandlerSet) /\ Len(Append(q, x)) = Len(q) + 1 /\ Len(q) \in Nat
      /\ \A i \in 1..Len(q) : Append(q, x)[i] = q[i]
      /\ Append(q, x)[Len(q) + 1] = x
      /\ \A i \in 1..(Len(q) + 1) : i \in 1..Len(q) \/ i = Len(q) + 1
  BY Longer
<1>6. \A i \in 1..Len(Append(q, x)) : HandlerFits(Append(q, x)[i])'
  BY <1>5
<1>7. Queued'
  BY <1>4, <1>6, QueuedNext
<1>8. Len(q) + 1 \in 1..Len(handlers')
  BY <1>5
<1> QED
  BY <1>5, <1>7, <1>8

\* The socket is read, for the next of the requests.
LEMMA ReadQueued ==
  ASSUME IInv, NEW part \in {"head", "body"}, NEW next, NEW q \in Seq(HandlerSet),
         Read(part, next, q), taken' = next, reading = "none",
         UNCHANGED <<writes, posted, wire, open, peer, lost>>,
         \A i \in 1..Len(q) : HandlerFits(q[i]) /\ q[i].kind \notin OfRead,
         QueueInOrder(posted, q), WritesBefore(posted, writes, q),
         \A m \in PostedOnes : Fresh(m)'
  PROVE  /\ Queued' /\ Closed' /\ Reading'
         /\ handlers' \in Seq(HandlerSet) /\ reading' \in {"head", "body", "none"}
<1>1. /\ writes \in Seq(WriteSet) /\ WritesInOrder(posted, writes) /\ Closed
      /\ \A i \in 1..Len(writes) : WriteFits(writes[i])
  BY DEF IInv, TypeOK, Queued, WriteSet
<1>2. \A i \in 1..Len(q) : HandlerFits(q[i])'
  BY DEF HandlerFits, NotBegun, PostedOnes, OfRead, OfMessage
<1>3. \A i \in 1..Len(writes) : WriteFits(writes[i])'
  BY <1>1 DEF WriteFits, NotBegun, PostedOnes
<1>4. CASE ~open /\ handlers' = Append(q, Event("failed")) /\ reading' = reading
  <2>1. PICK x : x = Event("failed")
    OBVIOUS
  <2>2. x \in HandlerSet /\ x.kind = "failed"
    BY <2>1, HandlerTypes
  <2>3. HandlerFits(x)'
    BY <1>4, <2>2 DEF HandlerFits, OfMessage, OfRead
  <2>4. Queued' /\ handlers' \in Seq(HandlerSet)
    BY <1>1, <1>2, <1>3, <1>4, <2>1, <2>2, <2>3, EventQueued
  <2> QED
    BY <1>1, <1>4, <2>4 DEF Closed, Reading
<1>5. CASE open /\ reading' = part /\ handlers' = q
  <2>1. Queued'
    <3>1. PICK ws : ws = writes
      OBVIOUS
    <3> QED
      BY <1>1, <1>2, <1>3, <1>5, <3>1, QueuedNext
  <2> QED
    BY <1>5, <2>1 DEF Closed, Reading
<1>6. CASE open /\ next < Len(Requests) /\ reading' = "none" /\ handlers' = Append(q, Event(part))
  <2>1. PICK x : x = Event(part)
    OBVIOUS
  <2>2. x \in HandlerSet /\ x.kind = part
    BY <2>1, HandlerTypes
  <2>3. HandlerFits(x)'
    BY <1>6, <2>2 DEF HandlerFits, OfMessage, OfRead
  <2>4. /\ Queued' /\ handlers' \in Seq(HandlerSet)
        /\ \E i \in 1..Len(handlers') : handlers'[i] = x
    <3>1. x.kind \in OfRead \cup {"failed"}
      BY <2>2 DEF OfRead
    <3> QED
      BY <1>1, <1>2, <1>3, <1>6, <2>1, <2>2, <2>3, <3>1, EventQueued
  <2> QED
    BY <1>6, <2>2, <2>4 DEF Closed, Reading, OfRead
<1> QED
  BY <1>4, <1>5, <1>6 DEF Read

\* Data arrives, or the peer has gone.
LEMMA ArriveKeeps == ASSUME IInv, Arrive PROVE IInv'
<1>q. PICK q : q = handlers
  OBVIOUS
<1>0. /\ reading # "none" /\ reading' = "none" /\ handlers = q
      /\ UNCHANGED <<open, writes, wire, sending, held, posted, taken, peer, lost, fault>>
      /\ \/ taken < Len(Requests) /\ handlers' = Append(q, Event(reading))
         \/ peer = "down" /\ handlers' = Append(q, Event("failed"))
  BY <1>q DEF Arrive
<1>1. /\ q \in Seq(HandlerSet) /\ writes \in Seq(WriteSet) /\ reading \in {"head", "body"}
      /\ QueueInOrder(posted, q) /\ WritesInOrder(posted, writes)
      /\ WritesBefore(posted, writes, q)
      /\ \A i \in 1..Len(q) : HandlerFits(q[i])
      /\ \A i \in 1..Len(writes) : WriteFits(writes[i])
  BY <1>0 DEF IInv, TypeOK, Queued, WriteSet
<1>2. \A i \in 1..Len(q) : q[i].kind \notin OfRead
  BY <1>0, <1>1 DEF HandlerFits
<1>3. \A i \in 1..Len(q) : HandlerFits(q[i])'
  BY <1>0, <1>1, <1>2 DEF HandlerFits, NotBegun, PostedOnes, Fresh
<1>4. \A i \in 1..Len(writes) : WriteFits(writes[i])'
  BY <1>0, <1>1 DEF WriteFits, NotBegun, PostedOnes, Fresh
<1>5. \E x \in HandlerSet :
         /\ x.kind \in OfRead \cup {"failed"} /\ handlers' = Append(q, x)
         /\ HandlerFits(x)'
  <2>1. CASE taken < Len(Requests) /\ handlers' = Append(q, Event(reading))
    <3>1. Event(reading) \in HandlerSet /\ Event(reading).kind \in OfRead
      BY <1>1, HandlerTypes DEF OfRead
    <3>2. PICK x : x = Event(reading)
      OBVIOUS
    <3>3. HandlerFits(x)'
      BY <1>0, <2>1, <3>1, <3>2 DEF HandlerFits, OfMessage, OfRead
    <3> QED
      BY <2>1, <3>1, <3>2, <3>3
  <2>2. CASE peer = "down" /\ handlers' = Append(q, Event("failed"))
    <3>1. PICK x : x = Event("failed")
      OBVIOUS
    <3>2. x \in HandlerSet /\ x.kind = "failed"
      BY <3>1, HandlerTypes
    <3>3. HandlerFits(x)'
      BY <1>0, <2>2, <3>2 DEF HandlerFits, OfMessage, OfRead
    <3> QED
      BY <2>2, <3>1, <3>2, <3>3
  <2> QED
    BY <1>0, <2>1, <2>2
<1>6. PICK x \in HandlerSet :
         /\ x.kind \in OfRead \cup {"failed"} /\ handlers' = Append(q, x)
         /\ HandlerFits(x)'
  BY <1>5
<1>7. /\ Queued' /\ handlers' \in Seq(HandlerSet)
      /\ \E i \in 1..Len(handlers') : handlers'[i] = x
  BY <1>0, <1>1, <1>2, <1>3, <1>4, <1>6, EventQueued
<1>8. TypeOK'
  <2>1. open' \in BOOLEAN /\ lost' \in BOOLEAN
    BY <1>0 DEF IInv, TypeOK
  <2> QED
    BY <1>0, <1>7, <2>1 DEF IInv, TypeOK
<1>9. PostedOnce' /\ OnWire' /\ StoppedForAReason'
  <2>1. PostedOnce' /\ OnWire'
    BY <1>0 DEF IInv, PostedOnce, OnWire, PostedOnes
  <2>2. StoppedForAReason'
    BY <1>0 DEF IInv, StoppedForAReason
  <2> QED
    BY <2>1, <2>2
<1>10. Closed' /\ Reading'
  BY <1>0, <1>6, <1>7 DEF IInv, Closed, Reading
<1> QED
  BY <1>7, <1>8, <1>9, <1>10 DEF IInv

\* The messages an object is serialised into.
LEMMA FragmentsAre ==
  ASSUME NEW s \in Senders, NEW k \in 0..Len(Requests), NEW u \in Seq(Nat \ {0})
  PROVE  /\ Fragments(s, k, u) \in Seq(Message)
         /\ \A i \in 1..Len(Fragments(s, k, u)) :
              /\ Fragments(s, k, u)[i].sender = s /\ Fragments(s, k, u)[i].object = k
              /\ Fragments(s, k, u)[i].number = i
<1>1. Len(u) \in Nat /\ \A i \in 1..Len(u) : u[i] \in Nat \ {0}
  OBVIOUS
<1>2. /\ Fragments(s, k, u) = [i \in 1..Len(u) |-> Fragments(s, k, u)[i]]
      /\ \A i \in 1..Len(u) :
           Fragments(s, k, u)[i] = [sender |-> s, object |-> k, number |-> i, units |-> u[i]]
  BY DEF Fragments
<1>3. \A i \in 1..Len(u) : Fragments(s, k, u)[i] \in Message
  BY <1>1, <1>2 DEF Message
<1>4. Fragments(s, k, u) \in [1..Len(u) -> Message]
  BY <1>2, <1>3
<1>5. Fragments(s, k, u) \in Seq(Message) /\ Len(Fragments(s, k, u)) = Len(u)
  BY <1>1, <1>4
<1> QED
  BY <1>2, <1>5

\* A request is taken, and what it has the io_context's thread post is the
\* messages f of its answer, if any.
LEMMA RequestTaken ==
  ASSUME IInv, NEW f \in Seq(Message), sending[IO] = <<>>, taken < Len(Requests),
         taken' = taken + 1, sending' = [sending EXCEPT ![IO] = f], posted' = posted,
         \A i \in 1..Len(f) : f[i].sender = IO /\ f[i].object = taken + 1 /\ f[i].number = i
  PROVE  /\ PostedOnce' /\ taken' \in 0..Len(Requests) /\ sending' \in [Senders -> Seq(Message)]
         /\ \A m \in PostedOnes : Fresh(m)'
<1>1. /\ taken \in 0..Len(Requests) /\ sending \in [Senders -> Seq(Message)]
      /\ IO \in Senders /\ IO \notin Threads /\ Len(Requests) \in Nat
  BY SendersAssumption DEF IInv, TypeOK, Senders
<1>2. /\ sending'[IO] = f /\ sending' \in [Senders -> Seq(Message)]
      /\ \A s \in Senders : s # IO => sending'[s] = sending[s]
  BY <1>1
<1>3. \A m \in PostedOnes : m \in Message /\ m.sender \in Senders /\ m.object \in Nat /\ m.number \in Nat
  <2>1. posted \in Seq(Message)
    BY DEF IInv, TypeOK
  <2>2. \A m \in PostedOnes : m \in Message
    BY <2>1 DEF PostedOnes
  <2> QED
    BY <1>1, <2>2 DEF Message
<1>4. \A m \in PostedOnes : m.object <= (IF m.sender = IO THEN taken ELSE 0)
  BY DEF IInv, PostedOnce
<1>5. PostedOnes' = PostedOnes
  BY DEF PostedOnes
<1>6. taken' \in 0..Len(Requests)
  BY <1>1
<1>7. \A m \in PostedOnes : m.sender = IO => m.object # taken'
  BY <1>1, <1>3, <1>4
<1>8. \A m \in PostedOnes : Fresh(m)'
  BY <1>7 DEF Fresh
<1>9. \A m \in PostedOnes : m.object <= (IF m.sender = IO THEN taken' ELSE 0)
  BY <1>1, <1>3, <1>4
<1>10. \A m \in PostedOnes : \A i \in 1..Len(sending'[m.sender]) :
         m.object = sending'[m.sender][i].object => m.number < sending'[m.sender][i].number
  <2> SUFFICES ASSUME NEW m \in PostedOnes, NEW i \in 1..Len(sending'[m.sender]),
                      m.object = sending'[m.sender][i].object
               PROVE  m.number < sending'[m.sender][i].number
    OBVIOUS
  <2>1. m.sender # IO
    BY <1>2, <1>7
  <2>2. sending'[m.sender] = sending[m.sender]
    BY <1>2, <1>3, <2>1
  <2> QED
    BY <2>2 DEF IInv, PostedOnce
<1>11. \A s \in Senders : \A i \in 1..Len(sending'[s]) :
         sending'[s][i].sender = s /\ sending'[s][i].object = (IF s = IO THEN taken' ELSE 0)
  <2> SUFFICES ASSUME NEW s \in Senders, NEW i \in 1..Len(sending'[s])
               PROVE  /\ sending'[s][i].sender = s
                      /\ sending'[s][i].object = (IF s = IO THEN taken' ELSE 0)
    OBVIOUS
  <2>1. CASE s = IO
    BY <1>2, <2>1
  <2>2. CASE s # IO
    BY <1>2, <2>2 DEF IInv, PostedOnce
  <2> QED
    BY <2>1, <2>2
<1>12. \A s \in Senders : \A i, j \in 1..Len(sending'[s]) :
         i < j => sending'[s][i].number < sending'[s][j].number
  <2> SUFFICES ASSUME NEW s \in Senders, NEW i \in 1..Len(sending'[s]),
                      NEW j \in 1..Len(sending'[s]), i < j
               PROVE  sending'[s][i].number < sending'[s][j].number
    OBVIOUS
  <2>1. CASE s = IO
    BY <1>2, <2>1
  <2>2. CASE s # IO
    BY <1>2, <2>2 DEF IInv, PostedOnce
  <2> QED
    BY <2>1, <2>2
<1>13. \A i, j \in 1..Len(posted') : posted'[i] = posted'[j] => i = j
  BY DEF IInv, PostedOnce
<1> QED
  BY <1>2, <1>5, <1>6, <1>8, <1>9, <1>10, <1>11, <1>12, <1>13 DEF PostedOnce

\* The rest of the state when a handler reads.
LEMMA ReadingKeeps ==
  ASSUME IInv, Queued', Closed', Reading', PostedOnce', handlers' \in Seq(HandlerSet),
         reading' \in {"head", "body", "none"}, taken' \in 0..Len(Requests),
         sending' \in [Senders -> Seq(Message)], fault' \in {"none", "dangling"},
         UNCHANGED <<open, writes, wire, held, posted, peer, lost>>
  PROVE  IInv'
<1>1. open' \in BOOLEAN /\ lost' \in BOOLEAN
  BY DEF IInv, TypeOK
<1>2. TypeOK'
  BY <1>1 DEF IInv, TypeOK
<1>3. OnWire' /\ StoppedForAReason'
  BY DEF IInv, OnWire, PostedOnes, StoppedForAReason
<1> QED
  BY <1>2, <1>3 DEF IInv

\* What is queued behind a read that was done.
LEMMA ReadDequeued ==
  ASSUME IInv, handlers # <<>>, Head(handlers).kind \in OfRead, NEW q, q = Tail(handlers)
  PROVE  /\ reading = "none" /\ taken < Len(Requests) /\ q \in Seq(HandlerSet)
         /\ \A i \in 1..Len(q) : HandlerFits(q[i]) /\ q[i].kind \notin OfRead
         /\ QueueInOrder(posted, q) /\ WritesBefore(posted, writes, q)
<1>1. /\ HandlerFits(Head(handlers)) /\ q \in Seq(HandlerSet)
      /\ \A i \in 1..Len(q) : HandlerFits(q[i]) /\ InOrder(posted, Head(handlers), q[i])
      /\ QueueInOrder(posted, q) /\ WritesBefore(posted, writes, q)
  BY Dequeued
<1>2. reading = "none" /\ taken < Len(Requests)
  BY <1>1 DEF HandlerFits
<1> QED
  BY <1>1, <1>2 DEF InOrder

\* The messages of the answer to the next request.
LEMMA AnswerTaken ==
  ASSUME IInv, sending[IO] = <<>>, taken < Len(Requests), taken' = taken + 1, posted' = posted,
         Answer(taken + 1)
  PROVE  /\ PostedOnce' /\ taken' \in 0..Len(Requests) /\ sending' \in [Senders -> Seq(Message)]
         /\ \A m \in PostedOnes : Fresh(m)'
<1>1. PICK k : k = taken + 1
  OBVIOUS
<1>2. k \in 0..Len(Requests) /\ k \in 1..Len(Requests) /\ IO \in Senders
  BY <1>1, SendersAssumption DEF IInv, TypeOK, Senders
<1>3. Requests[k].answer \in Seq(Nat \ {0})
  <2> DEFINE R == [body : BOOLEAN, raw : BOOLEAN, answer : Seq(Nat \ {0})]
  <2>1. Requests \in Seq(R)
    BY SendersAssumption
  <2>2. \A x \in R : x.answer \in Seq(Nat \ {0})
    OBVIOUS
  <2> HIDE DEF R
  <2>3. Requests[k] \in R
    BY <1>2, <2>1
  <2> QED
    BY <2>2, <2>3
<1>4. PICK f : f = Fragments(IO, k, Requests[k].answer)
  OBVIOUS
<1>5. /\ f \in Seq(Message)
      /\ \A i \in 1..Len(f) : f[i].sender = IO /\ f[i].object = taken + 1 /\ f[i].number = i
  BY <1>1, <1>2, <1>3, <1>4, FragmentsAre
<1>6. sending' = [sending EXCEPT ![IO] = f]
  BY <1>1, <1>4 DEF Answer
<1> QED
  BY <1>5, <1>6, RequestTaken

\* A head was read.
LEMMA RunHeadKeeps == ASSUME IInv, RunHead PROVE IInv'
<1>1. PICK q : q = Tail(handlers)
  OBVIOUS
<1>0. /\ handlers # <<>> /\ Head(handlers).kind \in OfRead /\ sending[IO] = <<>>
      /\ UNCHANGED <<open, writes, wire, held, posted, peer, lost, fault>>
      /\ \/ Read("body", taken, q) /\ UNCHANGED <<sending, taken>>
         \/ Read("head", taken + 1, q) /\ taken' = taken + 1 /\ Answer(taken + 1)
  BY <1>1 DEF RunHead, Running, Idle, OfRead
<1>2. /\ reading = "none" /\ taken < Len(Requests) /\ q \in Seq(HandlerSet)
      /\ \A i \in 1..Len(q) : HandlerFits(q[i]) /\ q[i].kind \notin OfRead
      /\ QueueInOrder(posted, q) /\ WritesBefore(posted, writes, q)
  BY <1>0, <1>1, ReadDequeued
<1>3. fault' \in {"none", "dangling"}
  BY <1>0 DEF IInv, TypeOK
<1>4. CASE Read("body", taken, q) /\ UNCHANGED <<sending, taken>>
  <2>1. \A m \in PostedOnes : Fresh(m)'
    BY <1>0, <1>4 DEF Fresh
  <2>2. /\ Queued' /\ Closed' /\ Reading'
        /\ handlers' \in Seq(HandlerSet) /\ reading' \in {"head", "body", "none"}
    <3>1. PICK next : next = taken
      OBVIOUS
    <3>2. Read("body", next, q) /\ taken' = next
      BY <1>4, <3>1
    <3> QED
      BY <1>0, <1>2, <2>1, <3>2, ReadQueued
  <2>3. PostedOnce' /\ taken' \in 0..Len(Requests) /\ sending' \in [Senders -> Seq(Message)]
    BY <1>0, <1>4 DEF IInv, TypeOK, PostedOnce, PostedOnes
  <2> QED
    BY <1>0, <1>3, <2>2, <2>3, ReadingKeeps
<1>5. CASE Read("head", taken + 1, q) /\ taken' = taken + 1 /\ Answer(taken + 1)
  <2>1. /\ PostedOnce' /\ taken' \in 0..Len(Requests) /\ sending' \in [Senders -> Seq(Message)]
        /\ \A m \in PostedOnes : Fresh(m)'
    BY <1>0, <1>2, <1>5, AnswerTaken
  <2>2. /\ Queued' /\ Closed' /\ Reading'
        /\ handlers' \in Seq(HandlerSet) /\ reading' \in {"head", "body", "none"}
    <3>1. PICK next : next = taken + 1
      OBVIOUS
    <3>2. Read("head", next, q) /\ taken' = next
      BY <1>5, <3>1
    <3> QED
      BY <1>0, <1>2, <2>1, <3>2, ReadQueued
  <2> QED
    BY <1>0, <1>3, <2>1, <2>2, ReadingKeeps
<1> QED
  BY <1>0, <1>4, <1>5

\* A body was read.
LEMMA RunBodyKeeps == ASSUME IInv, RunBody PROVE IInv'
<1>1. PICK q : q = Tail(handlers)
  OBVIOUS
<1>0. /\ handlers # <<>> /\ Head(handlers).kind \in OfRead /\ sending[IO] = <<>>
      /\ UNCHANGED <<open, writes, wire, held, posted, peer, lost>>
      /\ Read("head", taken + 1, q) /\ taken' = taken + 1
      /\ \/ Answer(taken + 1) /\ fault' = fault
         \/ fault' = "dangling" /\ sending' = sending
  BY <1>1 DEF RunBody, Running, Idle, OfRead
<1>2. /\ reading = "none" /\ taken < Len(Requests) /\ q \in Seq(HandlerSet)
      /\ \A i \in 1..Len(q) : HandlerFits(q[i]) /\ q[i].kind \notin OfRead
      /\ QueueInOrder(posted, q) /\ WritesBefore(posted, writes, q)
  BY <1>0, <1>1, ReadDequeued
<1>3. fault' \in {"none", "dangling"}
  BY <1>0 DEF IInv, TypeOK
<1>4. /\ PostedOnce' /\ taken' \in 0..Len(Requests) /\ sending' \in [Senders -> Seq(Message)]
      /\ \A m \in PostedOnes : Fresh(m)'
  <2>1. CASE Answer(taken + 1)
    BY <1>0, <1>2, <2>1, AnswerTaken
  <2>2. CASE sending' = sending
    <3>1. PICK f : f = <<>>
      OBVIOUS
    <3>2. /\ f \in Seq(Message) /\ sending' = [sending EXCEPT ![IO] = f]
          /\ \A i \in 1..Len(f) : f[i].sender = IO /\ f[i].object = taken + 1 /\ f[i].number = i
      BY <1>0, <2>2, <3>1 DEF IInv, TypeOK
    <3> QED
      BY <1>0, <1>2, <3>2, RequestTaken
  <2> QED
    BY <1>0, <2>1, <2>2
<1>5. /\ Queued' /\ Closed' /\ Reading'
      /\ handlers' \in Seq(HandlerSet) /\ reading' \in {"head", "body", "none"}
  <2>1. PICK next : next = taken + 1
    OBVIOUS
  <2>2. Read("head", next, q) /\ taken' = next
    BY <1>0, <2>1
  <2> QED
    BY <1>0, <1>2, <1>4, <2>2, ReadQueued
<1> QED
  BY <1>0, <1>3, <1>4, <1>5, ReadingKeeps

(***************************************************************************)
(* The senders, the peer, and every step.                                  *)
(***************************************************************************)

\* Another message posted leaves the order of what was posted before.
LEMMA OrderStays ==
  ASSUME NEW p \in Seq(Message), NEW r, NEW q \in Seq(HandlerSet), NEW ws \in Seq(WriteSet),
         \A i \in 1..Len(p) : Where(r, p[i]) = Where(p, p[i]),
         \A i \in 1..Len(q) : q[i].kind \in OfMessage => \E k \in 1..Len(p) : p[k] = q[i].msg,
         \A i \in 1..Len(ws) : \E k \in 1..Len(p) : p[k] = ws[i].msg,
         QueueInOrder(p, q), WritesInOrder(p, ws), WritesBefore(p, ws, q)
  PROVE  QueueInOrder(r, q) /\ WritesInOrder(r, ws) /\ WritesBefore(r, ws, q)
<1>1. \A i \in 1..Len(q) : q[i].kind \in OfMessage => Where(r, q[i].msg) = Where(p, q[i].msg)
  OBVIOUS
<1>2. \A i \in 1..Len(ws) : Where(r, ws[i].msg) = Where(p, ws[i].msg)
  OBVIOUS
<1>3. QueueInOrder(r, q)
  <2> SUFFICES ASSUME NEW i \in 1..Len(q), NEW j \in 1..Len(q), i < j
               PROVE  InOrder(r, q[i], q[j])
    BY DEF QueueInOrder
  <2>1. InOrder(p, q[i], q[j])
    BY DEF QueueInOrder
  <2> QED
    BY <1>1, <2>1 DEF InOrder, OfMessage
<1>4. WritesInOrder(r, ws)
  <2> SUFFICES ASSUME NEW i \in 1..Len(ws), NEW j \in 1..Len(ws), i < j
               PROVE  WriteInOrder(r, ws[i], ws[j])
    BY DEF WritesInOrder
  <2>1. WriteInOrder(p, ws[i], ws[j])
    BY DEF WritesInOrder
  <2> QED
    BY <1>2, <2>1 DEF WriteInOrder
<1>5. WritesBefore(r, ws, q)
  <2> SUFFICES ASSUME NEW i \in 1..Len(ws), NEW j \in 1..Len(q)
               PROVE  WriteBefore(r, ws[i], q[j])
    BY DEF WritesBefore
  <2>1. WriteBefore(p, ws[i], q[j])
    BY DEF WritesBefore
  <2> QED
    BY <1>1, <1>2, <2>1 DEF WriteBefore, OfMessage
<1> QED
  BY <1>3, <1>4, <1>5

\* The message a sender posts is a new one, and the ones it still has to post
\* are numbered after it.
LEMMA NextToPost ==
  ASSUME IInv, NEW s \in Senders, sending[s] # <<>>, NEW m, m = Head(sending[s]),
         NEW f, f = Tail(sending[s])
  PROVE  /\ m \in Message /\ m.sender = s /\ m.object = (IF s = IO THEN taken ELSE 0)
         /\ m \notin PostedOnes /\ f \in Seq(Message)
         /\ \A i \in 1..Len(f) :
              /\ \E k \in 1..Len(sending[s]) : sending[s][k] = f[i]
              /\ m.number < f[i].number
         /\ \A i, j \in 1..Len(f) : i < j => f[i].number < f[j].number
<1>1. sending[s] \in Seq(Message)
  BY DEF IInv, TypeOK
<1>2. /\ f \in Seq(Message) /\ m = sending[s][1] /\ m \in Message /\ 1 \in 1..Len(sending[s])
      /\ \A i \in 1..Len(f) : f[i] = sending[s][i + 1] /\ i + 1 \in 1..Len(sending[s]) /\ 1 < i + 1
  BY <1>1, Shorter
<1>3. m.sender = s /\ m.object = (IF s = IO THEN taken ELSE 0)
  BY <1>2 DEF IInv, PostedOnce
<1>4. m \notin PostedOnes
  <2> SUFFICES ASSUME m \in PostedOnes PROVE FALSE
    OBVIOUS
  <2>1. m.number < m.number
    BY <1>2, <1>3 DEF IInv, PostedOnce
  <2>2. m.number \in Nat
    BY <1>2 DEF Message
  <2> QED
    BY <2>1, <2>2
<1>5. \A i \in 1..Len(f) : m.number < f[i].number
  BY <1>2 DEF IInv, PostedOnce
<1>6. \A i, j \in 1..Len(f) : i < j => f[i].number < f[j].number
  <2> SUFFICES ASSUME NEW i \in 1..Len(f), NEW j \in 1..Len(f), i < j
               PROVE  f[i].number < f[j].number
    OBVIOUS
  <2>1. i + 1 < j + 1 /\ i + 1 \in 1..Len(sending[s]) /\ j + 1 \in 1..Len(sending[s])
    BY <1>2
  <2>2. sending[s][i + 1].number < sending[s][j + 1].number
    BY <2>1 DEF IInv, PostedOnce
  <2> QED
    BY <1>2, <2>2
<1> QED
  BY <1>2, <1>3, <1>4, <1>5, <1>6

\* Where the messages are once m is posted.
LEMMA OneMorePosted ==
  ASSUME IInv, NEW m \in Message, m \notin PostedOnes, posted' = Append(posted, m)
  PROVE  /\ posted' \in Seq(Message) /\ PostedOnes' = PostedOnes \cup {m}
         /\ \A i, j \in 1..Len(posted') : posted'[i] = posted'[j] => i = j
         /\ \A n \in PostedOnes : /\ Where(posted', n) = Where(posted, n)
                                  /\ Where(posted', n) < Where(posted', m)
<1>1. posted \in Seq(Message) /\ \A i, j \in 1..Len(posted) : posted[i] = posted[j] => i = j
  BY DEF IInv, TypeOK, PostedOnce
<1>2. \A i \in 1..Len(posted) : posted[i] # m
  BY DEF PostedOnes
<1>3. /\ \A i, j \in 1..Len(posted') : posted'[i] = posted'[j] => i = j
      /\ \A i \in 1..Len(posted) : /\ Where(posted', posted[i]) = i
                                   /\ Where(posted, posted[i]) = i /\ i < Len(posted) + 1
      /\ Where(posted', m) = Len(posted) + 1
  BY <1>1, <1>2, WhereLonger
<1>4. /\ posted' \in Seq(Message) /\ Len(posted') = Len(posted) + 1 /\ Len(posted) \in Nat
      /\ \A i \in 1..Len(posted) : posted'[i] = posted[i]
      /\ posted'[Len(posted) + 1] = m
      /\ \A i \in 1..(Len(posted) + 1) : i \in 1..Len(posted) \/ i = Len(posted) + 1
  BY <1>1, Longer
<1>5. \A n \in PostedOnes : n \in PostedOnes'
  <2> SUFFICES ASSUME NEW i \in 1..Len(posted) PROVE posted[i] \in PostedOnes'
    BY DEF PostedOnes
  <2>1. i \in 1..Len(posted') /\ posted'[i] = posted[i]
    BY <1>4
  <2> QED
    BY <2>1 DEF PostedOnes
<1>6. m \in PostedOnes'
  <2>1. Len(posted) + 1 \in 1..Len(posted')
    BY <1>4
  <2> QED
    BY <1>4, <2>1 DEF PostedOnes
<1>7. \A n \in PostedOnes' : n \in PostedOnes \/ n = m
  <2> SUFFICES ASSUME NEW i \in 1..Len(posted') PROVE posted'[i] \in PostedOnes \/ posted'[i] = m
    BY DEF PostedOnes
  <2>1. CASE i \in 1..Len(posted)
    BY <1>4, <2>1 DEF PostedOnes
  <2>2. CASE i = Len(posted) + 1
    BY <1>4, <2>2
  <2> QED
    BY <1>4, <2>1, <2>2
<1>8. PostedOnes' = PostedOnes \cup {m}
  BY <1>5, <1>6, <1>7
<1> QED
  BY <1>3, <1>4, <1>8 DEF PostedOnes

\* A sender posts its next message.
LEMMA PostKeeps == ASSUME IInv, NEW s \in Senders, Post(s) PROVE IInv'
<1>1. PICK m : m = Head(sending[s])
  OBVIOUS
<1>2. PICK f : f = Tail(sending[s])
  OBVIOUS
<1>3. PICK x : x = Closure(m)
  OBVIOUS
<1>h. PICK h : h = handlers
  OBVIOUS
<1>w. PICK ws : ws = writes
  OBVIOUS
<1>0. /\ sending[s] # <<>> /\ handlers = h /\ handlers' = Append(h, x) /\ posted' = Append(posted, m)
      /\ writes = ws /\ writes' = ws
      /\ sending' = [sending EXCEPT ![s] = f] /\ held' = [held EXCEPT ![s] = m]
      /\ UNCHANGED <<open, wire, reading, taken, peer, lost, fault>>
  BY <1>1, <1>2, <1>3, <1>h, <1>w DEF Post
<1>4. /\ m \in Message /\ m.sender = s /\ m.object = (IF s = IO THEN taken ELSE 0)
      /\ m \notin PostedOnes /\ f \in Seq(Message)
      /\ \A i \in 1..Len(f) : /\ \E k \in 1..Len(sending[s]) : sending[s][k] = f[i]
                              /\ m.number < f[i].number
      /\ \A i, j \in 1..Len(f) : i < j => f[i].number < f[j].number
  <2>1. sending[s] # <<>>
    BY <1>0
  <2>2. /\ m \in Message /\ m.sender = s /\ m.object = (IF s = IO THEN taken ELSE 0)
        /\ m \notin PostedOnes /\ f \in Seq(Message)
    BY <1>1, <1>2, <2>1, NextToPost
  <2>3. \A i \in 1..Len(f) : \E k \in 1..Len(sending[s]) : sending[s][k] = f[i]
    BY <1>1, <1>2, <2>1, NextToPost
  <2>4. \A i \in 1..Len(f) : m.number < f[i].number
    BY <1>1, <1>2, <2>1, NextToPost
  <2>5. \A i, j \in 1..Len(f) : i < j => f[i].number < f[j].number
    <3> SUFFICES ASSUME NEW i \in 1..Len(f), NEW j \in 1..Len(f), i < j
                 PROVE  f[i].number < f[j].number
      OBVIOUS
    <3> QED
      BY <1>1, <1>2, <2>1, NextToPost
  <2> QED
    BY <2>2, <2>3, <2>4, <2>5
<1>5. /\ posted' \in Seq(Message) /\ PostedOnes' = PostedOnes \cup {m}
      /\ \A i, j \in 1..Len(posted') : posted'[i] = posted'[j] => i = j
      /\ \A n \in PostedOnes : /\ Where(posted', n) = Where(posted, n)
                               /\ Where(posted', n) < Where(posted', m)
  BY <1>0, <1>4, OneMorePosted
<1>6. /\ h \in Seq(HandlerSet) /\ ws \in Seq(WriteSet) /\ wire \in Seq(UnitSet)
      /\ posted \in Seq(Message) /\ taken \in 0..Len(Requests) /\ Len(Requests) \in Nat
      /\ sending \in [Senders -> Seq(Message)] /\ held \in [Senders -> Message \cup {NoMessage}]
      /\ QueueInOrder(posted, h) /\ WritesInOrder(posted, ws)
      /\ WritesBefore(posted, ws, h)
      /\ \A i \in 1..Len(h) : HandlerFits(h[i])
      /\ \A i \in 1..Len(ws) : WriteFits(ws[i])
      /\ \A i \in 1..Len(wire) : wire[i].msg \in PostedOnes
  BY <1>0, SendersAssumption DEF IInv, TypeOK, WriteSet, UnitSet, Queued, OnWire
<1>7. /\ sending'[s] = f /\ sending' \in [Senders -> Seq(Message)]
      /\ \A r \in Senders : r # s => sending'[r] = sending[r]
  BY <1>0, <1>4, <1>6
<1>8. x \in HandlerSet /\ x.kind = "send" /\ x.msg = m
  BY <1>3, <1>4, HandlerTypes
<1>9. \A n : Fresh(n) => Fresh(n)'
  <2>1. sending'[IO] # <<>> => sending[IO] # <<>>
    <3>1. IO \in Senders
      BY DEF Senders
    <3> QED
      BY <1>0, <1>7, <3>1
  <2> QED
    BY <1>0, <2>1 DEF Fresh
<1>10. \A n \in PostedOnes : NotBegun(posted, wire, n) => NotBegun(posted', wire', n)
  BY <1>0, <1>5, <1>6 DEF NotBegun
<1>11. NotBegun(posted', wire', m)
  <2>1. Units(wire, m) = 0
    <3> SUFFICES ASSUME Units(wire, m) # 0 PROVE FALSE
      OBVIOUS
    <3>1. wire \in Seq(UnitSet)
      BY <1>6
    <3>2. \E i \in 1..Len(wire) : wire[i].msg = m
      BY <3>1, SomeUnit
    <3> QED
      BY <1>4, <1>6, <3>2
  <2> QED
    BY <1>0, <1>5, <1>6, <2>1 DEF NotBegun
<1>12. \A i \in 1..Len(h) : HandlerFits(h[i])'
  <2> SUFFICES ASSUME NEW i \in 1..Len(h) PROVE HandlerFits(h[i])'
    OBVIOUS
  <2>1. HandlerFits(h[i])
    BY <1>6
  <2>2. h[i].kind = "send" => NotBegun(posted', wire', h[i].msg)
    BY <1>10, <2>1 DEF HandlerFits, OfMessage
  <2> QED
    BY <1>0, <1>5, <1>9, <2>1, <2>2 DEF HandlerFits
<1>13. \A i \in 1..Len(ws) : WriteFits(ws[i])'
  BY <1>0, <1>5, <1>6, <1>9, <1>10 DEF WriteFits
<1>14. HandlerFits(x)'
  BY <1>5, <1>8, <1>11 DEF HandlerFits, OfRead
<1>15. QueueInOrder(posted', h) /\ WritesInOrder(posted', ws) /\ WritesBefore(posted', ws, h)
  <2>1. PICK r : r = posted'
    OBVIOUS
  <2>2. PICK p : p = posted
    OBVIOUS
  <2>3. \A n \in PostedOnes : \E k \in 1..Len(posted) : posted[k] = n
    BY DEF PostedOnes
  <2>4. \A i \in 1..Len(posted) : posted[i] \in PostedOnes
    BY DEF PostedOnes
  <2>5. \A i \in 1..Len(p) : Where(r, p[i]) = Where(p, p[i])
    BY <1>5, <2>1, <2>2, <2>4
  <2>6. \A i \in 1..Len(h) : h[i].kind \in OfMessage => \E k \in 1..Len(p) : p[k] = h[i].msg
    BY <1>6, <2>2, <2>3 DEF HandlerFits
  <2>7. \A i \in 1..Len(ws) : \E k \in 1..Len(p) : p[k] = ws[i].msg
    BY <1>6, <2>2, <2>3 DEF WriteFits
  <2> QED
    BY <1>6, <2>1, <2>2, <2>5, <2>6, <2>7, OrderStays
<1>16. \A i \in 1..Len(h) : InOrder(posted', h[i], x)
  <2> SUFFICES ASSUME NEW i \in 1..Len(h) PROVE InOrder(posted', h[i], x)
    OBVIOUS
  <2>1. HandlerFits(h[i])
    BY <1>6
  <2>2. h[i].kind \in OfMessage => h[i].msg # m /\ h[i].msg \in PostedOnes
    BY <1>4, <2>1 DEF HandlerFits
  <2>3. s = IO /\ h[i].kind \in {"more", "written"} =>
          h[i].msg.sender # IO \/ h[i].msg.object # m.object
    BY <1>0, <1>4, <2>1 DEF HandlerFits, Fresh
  <2> QED
    BY <1>4, <1>5, <1>8, <2>2, <2>3 DEF InOrder, OfMessage, OfRead
<1>17. \A i \in 1..Len(ws) : WriteBefore(posted', ws[i], x)
  BY <1>4, <1>5, <1>6, <1>8 DEF WriteBefore, WriteFits
<1>18. Queued' /\ handlers' \in Seq(HandlerSet)
  <2>1. PICK r : r = posted'
    OBVIOUS
  <2>2. QueueInOrder(r, Append(h, x)) /\ WritesBefore(r, ws, Append(h, x))
    BY <1>6, <1>8, <1>15, <1>16, <1>17, <2>1, QueueLonger, BetweenQueueLonger
  <2>3. PICK q : q = Append(h, x)
    OBVIOUS
  <2>5. /\ q \in Seq(HandlerSet) /\ Len(q) = Len(h) + 1
        /\ \A i \in 1..Len(h) : q[i] = h[i]
        /\ q[Len(h) + 1] = x
        /\ \A i \in 1..(Len(h) + 1) : i \in 1..Len(h) \/ i = Len(h) + 1
    BY <1>6, <1>8, <2>3, Longer
  <2>6. \A i \in 1..Len(q) : HandlerFits(q[i])'
    BY <1>12, <1>14, <2>5
  <2>7. \A i \in 1..Len(ws) : WriteFits(ws[i])'
    BY <1>13
  <2>8. handlers' = q /\ writes' = ws
    BY <1>0, <2>3
  <2>9. QueueInOrder(r, q) /\ WritesInOrder(r, ws) /\ WritesBefore(r, ws, q)
    BY <1>15, <2>1, <2>2, <2>3
  <2>10. \A i \in 1..Len(handlers') : HandlerFits(handlers[i])'
    BY <2>6, <2>8 DEF HandlerFits
  <2>11. \A i \in 1..Len(writes') : WriteFits(writes[i])'
    BY <2>7, <2>8 DEF WriteFits
  <2> QED
    BY <2>1, <2>5, <2>8, <2>9, <2>10, <2>11 DEF Queued
<1>19. PostedOnce'
  <2>1. \A n \in PostedOnes' : n.object <= (IF n.sender = IO THEN taken' ELSE 0)
    <3>1. m.object <= (IF m.sender = IO THEN taken ELSE 0)
      BY <1>4, <1>6
    <3> QED
      BY <1>0, <1>5, <3>1 DEF IInv, PostedOnce
  <2>2. \A n \in PostedOnes' : \A i \in 1..Len(sending'[n.sender]) :
          n.object = sending'[n.sender][i].object => n.number < sending'[n.sender][i].number
    <3> SUFFICES ASSUME NEW n \in PostedOnes', NEW i \in 1..Len(sending'[n.sender]),
                        n.object = sending'[n.sender][i].object
                 PROVE  n.number < sending'[n.sender][i].number
      OBVIOUS
    <3>1. CASE n = m
      BY <1>4, <1>7, <3>1
    <3>2. CASE n \in PostedOnes /\ n.sender = s
      <4>1. PICK k \in 1..Len(sending[s]) : sending[s][k] = f[i]
        BY <1>4, <1>7, <3>2
      <4> QED
        BY <1>7, <3>2, <4>1 DEF IInv, PostedOnce
    <3>3. CASE n \in PostedOnes /\ n.sender # s
      <4>1. n.sender \in Senders
        <5>1. n \in Message
          BY <1>6, <3>3 DEF PostedOnes
        <5> QED
          BY <5>1 DEF Message
      <4>2. sending'[n.sender] = sending[n.sender]
        BY <1>7, <3>3, <4>1
      <4> QED
        BY <3>3, <4>2 DEF IInv, PostedOnce
    <3> QED
      BY <1>5, <3>1, <3>2, <3>3
  <2>3. \A r \in Senders : \A i \in 1..Len(sending'[r]) :
          sending'[r][i].sender = r /\ sending'[r][i].object = (IF r = IO THEN taken' ELSE 0)
    <3> SUFFICES ASSUME NEW r \in Senders, NEW i \in 1..Len(sending'[r])
                 PROVE  /\ sending'[r][i].sender = r
                        /\ sending'[r][i].object = (IF r = IO THEN taken ELSE 0)
      BY <1>0
    <3>1. CASE r = s
      BY <1>4, <1>7, <3>1 DEF IInv, PostedOnce
    <3>2. CASE r # s
      BY <1>7, <3>2 DEF IInv, PostedOnce
    <3> QED
      BY <3>1, <3>2
  <2>4. \A r \in Senders : \A i, j \in 1..Len(sending'[r]) :
          i < j => sending'[r][i].number < sending'[r][j].number
    BY <1>4, <1>7 DEF IInv, PostedOnce
  <2> QED
    BY <1>5, <2>1, <2>2, <2>3, <2>4 DEF PostedOnce
<1>20. OnWire'
  BY <1>0, <1>5, <1>6 DEF IInv, OnWire
<1>21. TypeOK'
  <2>1. open' \in BOOLEAN /\ lost' \in BOOLEAN
    BY <1>0 DEF IInv, TypeOK
  <2>2. held' \in [Senders -> Message \cup {NoMessage}]
    BY <1>0, <1>4, <1>6
  <2> QED
    BY <1>0, <1>5, <1>7, <1>18, <2>1, <2>2 DEF IInv, TypeOK
<1>22. Closed' /\ Reading' /\ StoppedForAReason'
  <2>1. \A i \in 1..Len(handlers) : i \in 1..Len(handlers') /\ handlers'[i] = handlers[i]
    BY <1>0, <1>6, <1>8, Longer
  <2> QED
    BY <1>0, <2>1 DEF IInv, Closed, Reading, StoppedForAReason
<1> QED
  BY <1>18, <1>19, <1>20, <1>21, <1>22 DEF IInv

\* What is queued when a step changes neither the queue nor what it depends on.
LEMMA QueueStays ==
  ASSUME IInv, UNCHANGED <<handlers, writes, posted, wire, sending, taken, open, lost, reading>>,
         peer = "down" => peer' = "down"
  PROVE  Queued'
<1>1. PICK q : q = handlers
  OBVIOUS
<1>2. PICK ws : ws = writes
  OBVIOUS
<1>3. \A i \in 1..Len(q) : HandlerFits(q[i])'
  BY <1>1, FitsStay DEF IInv, Queued
<1>4. \A i \in 1..Len(ws) : WriteFits(ws[i])'
  BY <1>2, WriteFitsStays DEF IInv, Queued
<1>5. QueueInOrder(posted, q) /\ WritesInOrder(posted, ws) /\ WritesBefore(posted, ws, q)
  BY <1>1, <1>2 DEF IInv, Queued
<1> QED
  BY <1>1, <1>2, <1>3, <1>4, <1>5, QueuedNext

\* A sender lets go of its message, or the peer goes.
LEMMA RestKeeps ==
  ASSUME IInv, (\E s \in Senders : Release(s)) \/ PeerFails \/ UNCHANGED vars
  PROVE  IInv'
<1>0. /\ UNCHANGED <<handlers, writes, posted, wire, sending, taken, open, lost, reading, fault>>
      /\ peer' \in {"up", "down"} /\ (peer = "down" => peer' = "down")
      /\ held' \in [Senders -> Message \cup {NoMessage}]
  <2>1. /\ peer \in {"up", "down"} /\ held \in [Senders -> Message \cup {NoMessage}]
    BY DEF IInv, TypeOK
  <2>2. CASE \E s \in Senders : Release(s)
    BY <2>1, <2>2 DEF Release
  <2>3. CASE PeerFails
    BY <2>1, <2>3 DEF PeerFails
  <2>4. CASE UNCHANGED vars
    BY <2>1, <2>4 DEF vars
  <2> QED
    BY <2>2, <2>3, <2>4
<1>1. Queued'
  BY <1>0, QueueStays
<1>2. TypeOK'
  <2>1. open' \in BOOLEAN /\ lost' \in BOOLEAN
    BY <1>0 DEF IInv, TypeOK
  <2> QED
    BY <1>0, <2>1 DEF IInv, TypeOK
<1>3. PostedOnce' /\ OnWire' /\ Closed' /\ Reading' /\ StoppedForAReason'
  BY <1>0 DEF IInv, PostedOnce, OnWire, PostedOnes, Closed, Reading, StoppedForAReason
<1> QED
  BY <1>1, <1>2, <1>3 DEF IInv

\* Nothing was sent or read at first.
LEMMA InitInv == ASSUME Init PROVE IInv
<1>0. /\ handlers = <<>> /\ open = TRUE /\ writes = <<>> /\ wire = <<>>
      /\ sending = [s \in Senders |-> IF s = IO THEN <<>> ELSE Fragments(s, 0, Outgoing[s])]
      /\ held = [s \in Senders |-> NoMessage]
      /\ posted = <<>> /\ reading = "head" /\ taken = 0
      /\ peer = "up" /\ lost = FALSE /\ fault = "none"
  BY DEF Init
<1>1. \A s \in Senders :
        /\ sending[s] \in Seq(Message)
        /\ \A i \in 1..Len(sending[s]) :
             sending[s][i].sender = s /\ sending[s][i].object = 0 /\ sending[s][i].number = i
  <2> SUFFICES ASSUME NEW s \in Senders
               PROVE  /\ sending[s] \in Seq(Message)
                      /\ \A i \in 1..Len(sending[s]) :
                           /\ sending[s][i].sender = s /\ sending[s][i].object = 0
                           /\ sending[s][i].number = i
    OBVIOUS
  <2>1. CASE s = IO
    <3>1. sending[s] = <<>>
      BY <1>0, <2>1
    <3> QED
      BY <3>1
  <2>2. CASE s # IO
    <3>1. sending[s] = Fragments(s, 0, Outgoing[s])
      BY <1>0, <2>2
    <3>2. Outgoing[s] \in Seq(Nat \ {0}) /\ 0 \in 0..Len(Requests)
      BY <2>2, SendersAssumption DEF Senders
    <3>3. PICK u : u = Outgoing[s]
      OBVIOUS
    <3> QED
      BY <3>1, <3>2, <3>3, FragmentsAre
  <2> QED
    BY <2>1, <2>2
<1>2. TypeOK
  <2>1. open \in BOOLEAN /\ lost \in BOOLEAN
    BY <1>0
  <2>2. sending \in [Senders -> Seq(Message)]
    BY <1>0, <1>1
  <2>3. taken \in 0..Len(Requests)
    BY <1>0, SendersAssumption
  <2> QED
    BY <1>0, <2>1, <2>2, <2>3 DEF TypeOK
<1>3. PostedOnes = {}
  BY <1>0 DEF PostedOnes
<1>4. PostedOnce
  <2>1. \A s \in Senders : \A i \in 1..Len(sending[s]) :
          sending[s][i].sender = s /\ sending[s][i].object = (IF s = IO THEN taken ELSE 0)
    BY <1>0, <1>1
  <2>2. \A s \in Senders : \A i, j \in 1..Len(sending[s]) :
          i < j => sending[s][i].number < sending[s][j].number
    BY <1>1
  <2> QED
    BY <1>0, <1>3, <2>1, <2>2 DEF PostedOnce
<1>5. Queued /\ OnWire
  BY <1>0 DEF Queued, OnWire, QueueInOrder, WritesInOrder, WritesBefore
<1>6. Closed /\ Reading /\ StoppedForAReason
  BY <1>0 DEF Closed, Reading, StoppedForAReason
<1> QED
  BY <1>2, <1>4, <1>5, <1>6 DEF IInv

LEMMA NextKeeps == ASSUME IInv, [Next]_vars PROVE IInv'
<1>1. ASSUME NEW s \in Senders, Post(s) PROVE IInv'
  BY <1>1, PostKeeps
<1>2. CASE (\E s \in Senders : Release(s)) \/ PeerFails \/ UNCHANGED vars
  BY <1>2, RestKeeps
<1>3. CASE Handler
  BY <1>3, RunSendKeeps, RunMoreKeeps, StopKeeps, RunHeadKeeps, RunBodyKeeps DEF Handler
<1>4. CASE Writable
  BY <1>4, WritableKeeps
<1>5. CASE Arrive
  BY <1>5, ArriveKeeps
<1> QED
  BY <1>1, <1>2, <1>3, <1>4, <1>5 DEF Next

(***************************************************************************)
(* What holds of every connection.                                         *)
(***************************************************************************)

\* The inductive invariant.
THEOREM Invariant == Spec => []IInv
<1>1. Init => IInv
  BY InitInv
<1>2. IInv /\ [Next]_vars => IInv'
  BY NextKeeps
<1> QED
  BY <1>1, <1>2, PTL DEF Spec

\* The variables hold values of their types.
THEOREM TypeCorrect == Spec => []TypeOK
<1>1. IInv => TypeOK
  BY DEF IInv
<1> QED
  BY <1>1, Invariant, PTL

\* However many writes are under way, messages begin on the wire in the order in
\* which they were posted, each with its units in order (Send and DoWrite).
THEOREM WireInOrder == Spec => []WireOrder
<1>1. IInv => WireOrder
  <2>1. \A m : PostedAt(m) = Where(posted, m)
    BY DEF PostedAt, Where
  <2> QED
    BY <2>1 DEF IInv, OnWire, WireOrder
<1> QED
  BY <1>1, Invariant, PTL

\* The connection is not stopped because a message of an answer was written
\* before all of its messages are begun (~OProtoResponseGuard).
THEOREM AnswerBegun == Spec => []AnswerBegunBeforeStop
<1>1. IInv => AnswerBegunBeforeStop
  <2> SUFFICES ASSUME IInv, NEW i \in 1..Len(handlers), NEW j \in 1..Len(handlers), i < j,
                      handlers[j].kind = "send", handlers[j].msg.sender = IO,
                      handlers[i].kind \in {"more", "written"}
               PROVE  handlers[i].msg.sender # IO \/ handlers[i].msg.object # handlers[j].msg.object
    BY DEF AnswerBegunBeforeStop
  <2>1. InOrder(posted, handlers[i], handlers[j])
    BY DEF IInv, Queued, QueueInOrder
  <2> QED
    BY <2>1 DEF InOrder
<1> QED
  BY <1>1, Invariant, PTL

\* An open connection has one read under way or about to be handled, or one that
\* has failed and is about to stop it (DoRead).
THEOREM OneRead == Spec => []Listening
<1>1. IInv => Listening
  <2> SUFFICES ASSUME IInv PROVE Listening
    OBVIOUS
  <2> DEFINE Reads == {i \in 1..Len(handlers) : handlers[i].kind \in {"head", "body"}}
  <2>1. \A i, j \in Reads : i = j
    <3> SUFFICES ASSUME NEW i \in Reads, NEW j \in Reads, i < j PROVE FALSE
      <4>1. Len(handlers) \in Nat
        BY DEF IInv, TypeOK
      <4> QED
        BY <4>1
    <3>1. InOrder(posted, handlers[i], handlers[j])
      BY DEF IInv, Queued, QueueInOrder
    <3> QED
      BY <3>1 DEF InOrder, OfRead
  <2>2. Reads = {} \/ reading = "none"
    BY DEF IInv, Queued, HandlerFits, OfRead
  <2>3. open /\ Reads = {} /\ reading = "none" =>
          \E i \in 1..Len(handlers) : handlers[i].kind = "failed"
    BY DEF IInv, Reading, OfRead
  <2> HIDE DEF Reads
  <2>4. Cardinality(Reads) + (IF reading = "none" THEN 0 ELSE 1) <= 1
    <3>1. CASE Reads = {}
      BY <3>1, FS_EmptySet
    <3>2. CASE Reads # {}
      <4>1. PICK i : Reads = {i}
        BY <2>1, <3>2
      <4>2. Cardinality(Reads) = 1
        BY <4>1, FS_Singleton
      <4> QED
        BY <2>2, <3>2, <4>2
    <3> QED
      BY <3>1, <3>2
  <2> QED
    BY <2>3, <2>4 DEF Listening, Reads
<1> QED
  BY <1>1, Invariant, PTL

\* The connection is stopped for a reason.
THEOREM StoppedRightly == Spec => []StoppedForAReason
<1>1. IInv => StoppedForAReason
  BY DEF IInv
<1> QED
  BY <1>1, Invariant, PTL

\* A stopped connection stays so and gives the socket nothing more (Stop).
THEOREM StoppedForGood == Spec => ClosedIsFinal
<1>1. IInv /\ [Next]_vars => [~open => ~open' /\ wire' = wire]_vars
  <2> SUFFICES ASSUME IInv, Next, ~open PROVE ~open' /\ wire' = wire
    BY DEF vars
  <2>1. writes = <<>>
    BY DEF IInv, Closed
  <2>2. CASE (\E s \in Senders : Post(s) \/ Release(s)) \/ PeerFails \/ Arrive
    <3>1. open' = open /\ wire' = wire
      BY <2>2 DEF Post, Release, PeerFails, Arrive
    <3> QED
      BY <3>1
  <2>3. CASE RunSend \/ RunMore
    <3>1. open' = open
      BY <2>3 DEF RunSend, RunMore
    <3>2. wire' = wire
      BY <2>3 DEF RunSend, RunMore, WriteSome
    <3> QED
      BY <3>1, <3>2
  <2>4. CASE RunWritten \/ RunFailed
    BY <2>4 DEF RunWritten, RunFailed, Stop
  <2>5. CASE RunHead \/ RunBody
    BY <2>5 DEF RunHead, RunBody
  <2>6. CASE Writable
    BY <2>1, <2>6 DEF Writable
  <2> QED
    BY <2>2, <2>3, <2>4, <2>5, <2>6 DEF Next, Handler
<1> QED
  BY <1>1, Invariant, PTL DEF Spec, ClosedIsFinal

=============================================================================
