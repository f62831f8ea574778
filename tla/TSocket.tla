------------------------------- MODULE TSocket -------------------------------
(***************************************************************************)
(* common/TSocket: one connection, from the calls of Send to the bytes on  *)
(* the wire, and from the bytes that arrive to the handlers of the         *)
(* messages.  The io_context has one thread (IOContextPool::Run), which    *)
(* runs its completion handlers one after the other.                       *)
(*                                                                         *)
(* A message is sent in a number of units: the turns async_write takes,    *)
(* each of which gives the socket at most what it accepts (64 KB at most). *)
(* A handler that is called with operation_aborted does nothing, so        *)
(* aborted operations are dropped.  mIsInSending is never read, and        *)
(* mPendingMessages is never anything but empty, because Send pushes only  *)
(* onto a queue that is not empty: both are left out, and with them the    *)
(* branches that need a pending message.                                   *)
(***************************************************************************)
EXTENDS Integers, Sequences, FiniteSets

CONSTANTS
  Threads,  \* threads that call Send(messageId, requestId, pProto) once
  Outgoing, \* for each of them, the units of each message of its object
  Requests, \* what the peer sends: messages [body, raw, answer], with a body
            \*   or not, taken by OnMessage(pMessage) or not, and the units of
            \*   each message of the response its handler makes
  IO        \* the io_context's thread

ASSUME SendersAssumption ==
  /\ IO \notin Threads
  /\ Outgoing \in [Threads -> Seq(Nat \ {0})]
  /\ Requests \in Seq([body : BOOLEAN, raw : BOOLEAN, answer : Seq(Nat \ {0})])

VARIABLES
  handlers, \* the io_context's queue of closures and completions
  open,     \* mSocket is open
  writes,   \* the writes that wait for the socket to take more
  wire,     \* what was given to the socket: the units, and whether the message
            \*   they were taken from was still owned, or its memory freed
  sending,  \* the messages each sender has still to post,
  held,     \*   and the one its loop still holds
  posted,   \* the messages posted, in that order
  reading,  \* the async_read under way: head, body or none
  taken,    \* the requests read from the socket
  peer,     \* up, or down: reset, closed or unreachable
  lost,     \* a write failed because its message's memory had been freed
  fault     \* "none", or "dangling" once a handler used DoRead's locals

vars == <<handlers, open, writes, wire, sending, held, posted, reading, taken,
          peer, lost, fault>>

Senders == Threads \cup {IO}

\* The messages an object is serialised into, by the units of each.
Fragments(sender, object, units) ==
  [i \in 1..Len(units) |->
     [sender |-> sender, object |-> object, number |-> i, units |-> units[i]]]

Closure(m) == [kind |-> "send", msg |-> m]
Completion(kind, m, done) == [kind |-> kind, msg |-> m, done |-> done]
Event(kind) == [kind |-> kind]

NoMessage == [number |-> 0]

Init ==
  /\ handlers = <<>> /\ open = TRUE /\ writes = <<>> /\ wire = <<>>
  /\ sending = [s \in Senders |-> IF s = IO THEN <<>> ELSE Fragments(s, 0, Outgoing[s])]
  /\ held = [s \in Senders |-> NoMessage]
  /\ posted = <<>>
  /\ reading = "head" /\ taken = 0
  /\ peer = "up" /\ lost = FALSE /\ fault = "none"
-----------------------------------------------------------------------------
(***************************************************************************)
(* Send(messageId, requestId, pProto) on any thread: a loop that makes a   *)
(* message, posts a closure that owns it, and goes on.                     *)
(***************************************************************************)

Post(s) ==
  /\ fault = "none" /\ sending[s] # <<>> /\ held[s] = NoMessage
  /\ LET m == Head(sending[s]) IN
     /\ handlers' = Append(handlers, Closure(m))
     /\ posted' = Append(posted, m)
     /\ sending' = [sending EXCEPT ![s] = Tail(@)]
     /\ held' = [held EXCEPT ![s] = m]
  /\ UNCHANGED <<open, writes, wire, reading, taken, peer, lost, fault>>

\* The loop makes its next message or ends: it lets go of the last one.
Release(s) ==
  /\ fault = "none" /\ held[s] # NoMessage
  /\ held' = [held EXCEPT ![s] = NoMessage]
  /\ UNCHANGED <<handlers, open, writes, wire, sending, posted, reading, taken,
                 peer, lost, fault>>

\* Mutant: the io_context's thread runs handlers inside its own loop.
IdleAlways == fault = "none"

\* The io_context's thread is in no handler: the one that answered has returned.
Idle == fault = "none" /\ sending[IO] = <<>> /\ held[IO] = NoMessage
-----------------------------------------------------------------------------
(***************************************************************************)
(* async_write, which is external.  It gives the socket one unit after the *)
(* other, posting a completion after each; q is the io_context's queue     *)
(* without the handler that is running.                                    *)
(***************************************************************************)

\* Mutant: the write is complete before its last unit.
TransferEarly(m, done, alive, q) ==
  \/ /\ peer = "up"
     /\ wire' = Append(wire, [msg |-> m, unit |-> done + 1, owned |-> alive])
     /\ handlers' = Append(q, Completion("written", m, done + 1))
     /\ lost' = lost
  \/ /\ peer = "down" \/ ~alive
     /\ handlers' = Append(q, Event("failed"))
     /\ lost' = (lost \/ peer = "up")
     /\ wire' = wire

\* Mutant: the units are counted from zero.
TransferFromZero(m, done, alive, q) ==
  /\ wire' = Append(wire, [msg |-> m, unit |-> done, owned |-> alive])
  /\ handlers' =
       Append(q, Completion(IF done + 1 = m.units THEN "written" ELSE "more", m, done + 1))
  /\ lost' = lost

\* One unit more of m.  The buffers point into the message, which the
\* completion handler does not own: unless someone else does, its memory is
\* freed, and whatever is found there is sent, or sending it fails.
Transfer(m, done, alive, q) ==
  \/ /\ peer = "up"
     /\ wire' = Append(wire, [msg |-> m, unit |-> done + 1, owned |-> alive])
     /\ handlers' =
          Append(q, Completion(IF done + 1 = m.units THEN "written" ELSE "more", m, done + 1))
     /\ lost' = lost
  \/ /\ peer = "down" \/ ~alive
     /\ handlers' = Append(q, Event("failed"))
     /\ lost' = (lost \/ peer = "up")
     /\ wire' = wire

\* Mutant: a write is tried at once although others wait.
WriteSomeUnqueued(m, done, alive, q) ==
  \/ /\ ~open
     /\ handlers' = Append(q, Event("failed"))
     /\ UNCHANGED <<writes, wire, lost>>
  \/ /\ open
     /\ Transfer(m, done, alive, q)
     /\ UNCHANGED writes
  \/ /\ open
     /\ writes' = Append(writes, [msg |-> m, done |-> done])
     /\ handlers' = q
     /\ UNCHANGED <<wire, lost>>

\* async_write_some: tried at once if no other write waits, or else, and if
\* the socket takes nothing now, left to wait.
WriteSome(m, done, alive, q) ==
  \/ /\ ~open
     /\ handlers' = Append(q, Event("failed"))
     /\ UNCHANGED <<writes, wire, lost>>
  \/ /\ open /\ writes = <<>>
     /\ Transfer(m, done, alive, q)
     /\ UNCHANGED writes
  \/ /\ open
     /\ writes' = Append(writes, [msg |-> m, done |-> done])
     /\ handlers' = q
     /\ UNCHANGED <<wire, lost>>

\* The socket takes more: the first write that waits goes on.
Writable ==
  /\ Idle /\ writes # <<>>
  /\ LET m == Head(writes).msg IN
     Transfer(m, Head(writes).done, held[m.sender] = m, handlers)
  /\ writes' = Tail(writes)
  /\ UNCHANGED <<open, sending, held, posted, reading, taken, peer, fault>>

Running(kind) == Idle /\ handlers # <<>> /\ Head(handlers).kind = kind

\* async_write's own completion handler writes the next unit.
RunMore ==
  /\ Running("more")
  /\ LET h == Head(handlers) IN
     WriteSome(h.msg, h.done, held[h.msg.sender] = h.msg, Tail(handlers))
  /\ UNCHANGED <<open, sending, held, posted, reading, taken, peer, fault>>
-----------------------------------------------------------------------------
(***************************************************************************)
(* The closures and completion handlers of TSocket.                        *)
(***************************************************************************)

\* The closure that Send posted: DoWrite, because no message is pending.
RunSend ==
  /\ Running("send")
  /\ WriteSome(Head(handlers).msg, 0, TRUE, Tail(handlers))
  /\ UNCHANGED <<open, sending, held, posted, reading, taken, peer, fault>>

\* Mutant: the operations under way are not aborted.
StopUnaborted ==
  /\ open' = FALSE
  /\ UNCHANGED <<writes, reading>>

\* IConnectionManager::Stop closes the socket: what is under way is aborted.
Stop ==
  /\ open' = FALSE
  /\ writes' = <<>>
  /\ reading' = "none"

\* Mutant: a connection whose write succeeded goes on.
RunWrittenGoesOn ==
  /\ Running("written")
  /\ handlers' = Tail(handlers)
  /\ UNCHANGED <<open, writes, reading, wire, sending, held, posted, taken, peer, lost, fault>>

\* DoWrite's handler after the whole message was written: it stops the
\* connection, because the error, none, is not operation_aborted.
RunWritten ==
  /\ Running("written")
  /\ Stop
  /\ handlers' = Tail(handlers)
  /\ UNCHANGED <<wire, sending, held, posted, taken, peer, lost, fault>>

\* Any handler called with an error.
RunFailed ==
  /\ Running("failed")
  /\ Stop
  /\ handlers' = Tail(handlers)
  /\ UNCHANGED <<wire, sending, held, posted, taken, peer, lost, fault>>

\* async_read: it completes at once if the data is there.
Read(part, next, q) ==
  \/ /\ ~open
     /\ handlers' = Append(q, Event("failed"))
     /\ UNCHANGED reading
  \/ /\ open /\ reading' = part
     /\ handlers' = q
  \/ /\ open /\ next < Len(Requests) /\ reading' = "none"
     /\ handlers' = Append(q, Event(part))

\* The data that an async_read waits for arrives, or the peer goes.
Arrive ==
  /\ Idle /\ reading # "none"
  /\ \/ /\ peer = "up" /\ taken < Len(Requests)
        /\ handlers' = Append(handlers, Event(reading))
     \/ /\ peer = "down"
        /\ handlers' = Append(handlers, Event("failed"))
  /\ reading' = "none"
  /\ UNCHANGED <<open, writes, wire, sending, held, posted, taken, peer, lost, fault>>

\* The handler of request k makes its response, which OProtoResponseGuard
\* sends when the handler ends.
Answer(k) == sending' = [sending EXCEPT ![IO] = Fragments(IO, k, Requests[k].answer)]

\* Mutant: after a message without a body no other one is read.
RunHeadOnce ==
  /\ Running("head")
  /\ \/ /\ Requests[taken + 1].body
        /\ Read("body", taken, Tail(handlers))
        /\ UNCHANGED <<sending, taken>>
     \/ /\ ~Requests[taken + 1].body
        /\ handlers' = Tail(handlers) /\ UNCHANGED reading
        /\ taken' = taken + 1
        /\ Answer(taken + 1)
  /\ UNCHANGED <<open, writes, wire, held, posted, peer, lost, fault>>

\* DoRead's handler of a head: the body is read, or there is none and the
\* message goes to its handler after the next read was started.
RunHead ==
  /\ Running("head")
  /\ \/ /\ Requests[taken + 1].body
        /\ Read("body", taken, Tail(handlers))
        /\ UNCHANGED <<sending, taken>>
     \/ /\ ~Requests[taken + 1].body
        /\ Read("head", taken + 1, Tail(handlers))
        /\ taken' = taken + 1
        /\ Answer(taken + 1)
  /\ UNCHANGED <<open, writes, wire, held, posted, peer, lost, fault>>

\* DoRead's handler of a body: the next read is started; OnMessage(pMessage)
\* takes the message, or pMessageSink and pMessageBody are used, references to
\* locals of a DoRead that has returned.
RunBody ==
  /\ Running("body")
  /\ Read("head", taken + 1, Tail(handlers))
  /\ taken' = taken + 1
  /\ \/ Requests[taken + 1].raw /\ Answer(taken + 1) /\ fault' = fault
     \/ ~Requests[taken + 1].raw /\ fault' = "dangling" /\ sending' = sending
  /\ UNCHANGED <<open, writes, wire, held, posted, peer, lost>>

\* The peer closes the connection or cannot be reached any more.
PeerFails ==
  /\ fault = "none" /\ peer = "up"
  /\ peer' = "down"
  /\ UNCHANGED <<handlers, open, writes, wire, sending, held, posted, reading,
                 taken, lost, fault>>

Handler == RunSend \/ RunMore \/ RunWritten \/ RunFailed \/ RunHead \/ RunBody

Next ==
  \/ \E s \in Senders : Post(s) \/ Release(s)
  \/ Handler
  \/ Writable
  \/ Arrive
  \/ PeerFails

Spec == Init /\ [][Next]_vars

\* Threads run; the io_context runs what is queued; a socket that is full
\* takes more some day, because the peer reads or goes.
FairSpec ==
  /\ Spec
  /\ \A s \in Senders : WF_vars(Post(s)) /\ WF_vars(Release(s))
  /\ WF_vars(Handler)
  /\ WF_vars(Writable)
-----------------------------------------------------------------------------
(***************************************************************************)
(* What must hold.                                                         *)
(***************************************************************************)

Message ==
  [sender : Senders, object : 0..Len(Requests), number : Nat \ {0}, units : Nat \ {0}]

HandlerSet ==
  [kind : {"send"}, msg : Message] \cup
  [kind : {"more", "written"}, msg : Message, done : Nat \ {0}] \cup
  [kind : {"head", "body", "failed"}]

\* The variables hold values of their types (TSocket.h's members and the
\* closures that TSocket.cpp makes).
TypeOK ==
  /\ handlers \in Seq(HandlerSet) /\ open \in BOOLEAN
  /\ writes \in Seq([msg : Message, done : Nat])
  /\ wire \in Seq([msg : Message, unit : Nat \ {0}, owned : BOOLEAN])
  /\ sending \in [Senders -> Seq(Message)]
  /\ held \in [Senders -> Message \cup {NoMessage}]
  /\ posted \in Seq(Message)
  /\ reading \in {"head", "body", "none"} /\ taken \in 0..Len(Requests)
  /\ peer \in {"up", "down"} /\ lost \in BOOLEAN /\ fault \in {"none", "dangling"}

PostedAt(m) == CHOOSE i \in 1..Len(posted) : posted[i] = m

\* Messages begin on the wire in the order in which they were posted, and the
\* units of each follow one another from the first, however many writes are
\* under way at a time (Send and DoWrite, which start one per closure).
WireOrder ==
  /\ \A i, j \in 1..Len(wire) :
       i < j /\ wire[i].unit = 1 /\ wire[j].unit = 1
         => PostedAt(wire[i].msg) < PostedAt(wire[j].msg)
  /\ \A i \in 1..Len(wire) :
       wire[i].unit = Cardinality({j \in 1..i : wire[j].msg = wire[i].msg})

\* All the messages of one answer are begun before the connection is stopped
\* because one of them was written: no closure that sends a message of an
\* answer is queued behind a completion of a write of the same answer
\* (~OProtoResponseGuard runs on the io_context's own thread).
AnswerBegunBeforeStop ==
  \A i, j \in 1..Len(handlers) :
    /\ i < j /\ handlers[j].kind = "send" /\ handlers[j].msg.sender = IO
    /\ handlers[i].kind \in {"more", "written"}
    => handlers[i].msg.sender # IO \/ handlers[i].msg.object # handlers[j].msg.object

\* As long as the connection is open exactly one read is under way or about to
\* be handled, unless one has failed, which stops the connection (DoRead).
Listening ==
  LET Reads == {i \in 1..Len(handlers) : handlers[i].kind \in {"head", "body"}} IN
  /\ Cardinality(Reads) + (IF reading = "none" THEN 0 ELSE 1) <= 1
  /\ open /\ Reads = {} /\ reading = "none"
       => \E i \in 1..Len(handlers) : handlers[i].kind = "failed"

\* The connection is stopped for a reason: the peer has gone, the memory of a
\* message had, or all of a message is on the wire (RunWritten).
StoppedForAReason ==
  \/ open \/ peer = "down" \/ lost
  \/ \E i \in 1..Len(wire) : wire[i].unit = wire[i].msg.units

\* A stopped connection stays so and gives the socket nothing more, whatever
\* was queued or waiting when it was stopped (TSocket::Stop).
ClosedIsFinal == [][~open => ~open' /\ wire' = wire]_vars

\* Every Send ends the connection, because the first write that succeeds stops
\* it as one that fails does (DoWrite's handler).
SendStops == (posted # <<>>) ~> (~open \/ fault # "none")

\* OMessage.h says that a big message is divided into several OMessages: what
\* is on the wire is messages one after the other, none begun inside another.
MessagesOnWire ==
  \A i \in 1..(Len(wire) - 1) :
    wire[i].unit < wire[i].msg.units
      => wire[i + 1].msg = wire[i].msg /\ wire[i + 1].unit = wire[i].unit + 1
=============================================================================
