----------------------------- MODULE Opc_proofs -----------------------------
(***************************************************************************)
(* Proofs about opc's own process, for whatever it is started with and any *)
(* datagrams, about posix_setup, for any users and groups, and about the   *)
(* whole that MCOpc composes of them and of what PosixStart_proofs is      *)
(* about.                                                                  *)
(***************************************************************************)
EXTENDS MCOpc, PosixStart_proofs

-----------------------------------------------------------------------------
(***************************************************************************)
(* What opc answers.                                                       *)
(***************************************************************************)

Hosts == Senders \cup {"ops", Group}

\* The datagrams that there can be: ops sends only short ones.
Datagrams ==
  {d \in [from : Hosts, whole : BOOLEAN, magic : Magic, n : Nat] : d.whole => d.from # "ops"}

\* The answers that go to their asker, which is not ops.
AnswerSet == {a \in [to : Hosts, asker : Hosts, n : Nat] : a.to = a.asker /\ a.asker # "ops"}

\* What has arrived is numbered without a gap: the datagram received last, and
\* those that wait.  mSenderEndpoint is the sender of the former.
ArrivalInv ==
  /\ datagram \in Datagrams /\ queue \in Seq(Datagrams) /\ arrived \in Nat
  /\ endpoint = datagram.from
  /\ \A i \in 1..Len(queue) : queue[i].n = datagram.n + i
  /\ datagram.n + Len(queue) = arrived

\* All that may be answered by now: the datagrams received, but for the one that
\* is being handled.
Limit == IF receiver = "received" THEN datagram.n - 1 ELSE datagram.n

Rising(seq) == \A i, j \in 1..Len(seq) : i < j => seq[i].n < seq[j].n

\* The answers that were sent and those to be sent are to different datagrams,
\* in the order in which these were received.
AnswersInv ==
  /\ outgoing \in Seq(AnswerSet) /\ answers \in Seq(AnswerSet)
  /\ \A i \in 1..Len(outgoing) : outgoing[i].n <= Limit
  /\ \A i \in 1..Len(answers) : answers[i].n <= Limit
  /\ Rising(outgoing) /\ Rising(answers)
  /\ \A i \in 1..Len(answers), j \in 1..Len(outgoing) : answers[i].n < outgoing[j].n

\* The inductive invariant.
DiscoverInv == ArrivalInv /\ AnswersInv

\* The shapes of the sequences, and that numbers are numbers.
LEMMA Shapes ==
  ASSUME DiscoverInv
  PROVE  /\ Len(queue) \in Nat /\ Len(outgoing) \in Nat /\ Len(answers) \in Nat
         /\ datagram.n \in Nat /\ arrived \in Nat /\ Limit \in Int
         /\ \A i \in 1..Len(queue) : queue[i].n \in Nat
         /\ \A i \in 1..Len(outgoing) : outgoing[i].n \in Nat
         /\ \A i \in 1..Len(answers) : answers[i].n \in Nat
<1>1. Len(queue) \in Nat /\ \A i \in 1..Len(queue) : queue[i] \in Datagrams
  BY DEF DiscoverInv, ArrivalInv
<1>2. Len(outgoing) \in Nat /\ \A i \in 1..Len(outgoing) : outgoing[i] \in AnswerSet
  BY DEF DiscoverInv, AnswersInv
<1>3. Len(answers) \in Nat /\ \A i \in 1..Len(answers) : answers[i] \in AnswerSet
  BY DEF DiscoverInv, AnswersInv
<1>4. datagram \in Datagrams /\ arrived \in Nat
  BY DEF DiscoverInv, ArrivalInv
<1>5. (\A d \in Datagrams : d.n \in Nat) /\ (\A a \in AnswerSet : a.n \in Nat)
  BY DEF Datagrams, AnswerSet
<1>6. Limit \in Int
  BY <1>4, <1>5 DEF Limit
<1> QED
  BY <1>1, <1>2, <1>3, <1>4, <1>5, <1>6

\* A sequence with one more element, or without its first.
LEMMA Longer ==
  ASSUME NEW S, NEW seq \in Seq(S), NEW new \in S
  PROVE  /\ Append(seq, new) \in Seq(S) /\ Len(Append(seq, new)) = Len(seq) + 1
         /\ \A i \in 1..Len(seq) + 1 :
              Append(seq, new)[i] = IF i <= Len(seq) THEN seq[i] ELSE new
  OBVIOUS

LEMMA Shorter ==
  ASSUME NEW S, NEW seq \in Seq(S), seq # <<>>
  PROVE  /\ Tail(seq) \in Seq(S) /\ Len(Tail(seq)) = Len(seq) - 1 /\ Len(seq) \in Nat \ {0}
         /\ Head(seq) = seq[1] /\ seq[1] \in S
         /\ \A i \in 1..Len(seq) - 1 : Tail(seq)[i] = seq[i + 1]
  OBVIOUS

\* Rising numbers go on rising with a greater one, and without the first.
LEMMA RisingLonger ==
  ASSUME NEW seq \in Seq(AnswerSet), NEW new \in AnswerSet, Rising(seq),
         \A i \in 1..Len(seq) : seq[i].n < new.n
  PROVE  Rising(Append(seq, new))
<1> SUFFICES ASSUME NEW i \in 1..Len(seq) + 1, NEW j \in 1..Len(seq) + 1, i < j
             PROVE  Append(seq, new)[i].n < Append(seq, new)[j].n
  BY Longer DEF Rising
<1>1. i <= Len(seq) /\ Append(seq, new)[i] = seq[i]
  BY Longer
<1>2. CASE j <= Len(seq)
  BY <1>1, <1>2, Longer DEF Rising
<1>3. CASE j = Len(seq) + 1
  BY <1>1, <1>3, Longer
<1> QED
  BY <1>2, <1>3

LEMMA RisingShorter ==
  ASSUME NEW seq \in Seq(AnswerSet), seq # <<>>, Rising(seq)
  PROVE  Rising(Tail(seq)) /\ \A j \in 1..Len(seq) - 1 : seq[1].n < Tail(seq)[j].n
<1>1. /\ Len(Tail(seq)) = Len(seq) - 1 /\ Len(seq) \in Nat \ {0}
      /\ \A i \in 1..Len(seq) - 1 : Tail(seq)[i] = seq[i + 1]
  BY Shorter
<1> QED
  BY <1>1 DEF Rising

LEMMA DiscoverInitInv == DaemonInit => DiscoverInv
  BY DEF DaemonInit, DiscoverInv, ArrivalInv, AnswersInv, Rising, Limit, Datagram, Datagrams, Hosts,
         Group, Magic

\* What leaves MSocket alone, or arms it, keeps the invariant.
LEMMA Untouched ==
  ASSUME DiscoverInv, UNCHANGED <<queue, arrived, datagram, endpoint, outgoing, answers>>,
         receiver' = receiver \/ receiver' # "received"
  PROVE  DiscoverInv'
<1>1. Limit' = Limit \/ Limit' = datagram.n
  BY DEF Limit
<1>2. Limit <= Limit'
  BY <1>1, Shapes DEF Limit
<1>3. Limit \in Int /\ Limit' \in Int
  BY <1>1, Shapes
<1>4. /\ \A i \in 1..Len(outgoing) : outgoing[i].n <= Limit'
      /\ \A i \in 1..Len(answers) : answers[i].n <= Limit'
  <2>1. \A n \in Nat : n <= Limit => n <= Limit'
    BY <1>2, <1>3
  <2>2. /\ \A i \in 1..Len(outgoing) : outgoing[i].n \in Nat /\ outgoing[i].n <= Limit
        /\ \A i \in 1..Len(answers) : answers[i].n \in Nat /\ answers[i].n <= Limit
    BY Shapes DEF DiscoverInv, AnswersInv
  <2> QED
    BY <2>1, <2>2
<1>5. ArrivalInv'
  BY DEF DiscoverInv, ArrivalInv
<1> QED
  BY <1>4, <1>5 DEF DiscoverInv, AnswersInv, Rising

LEMMA DaemoniseKeeps == DiscoverInv /\ Daemonise => DiscoverInv'
<1> SUFFICES ASSUME DiscoverInv, Daemonise PROVE DiscoverInv'
  OBVIOUS
<1>1. UNCHANGED <<queue, arrived, datagram, endpoint, outgoing, answers>>
  BY DEF Daemonise, Options, SetUpThrows, SetUpSocket, ForkAway, CloseStandard, OpenStandard,
         NotifyFork, discoverVars
<1>2. receiver' = receiver \/ receiver' # "received"
  BY DEF Daemonise, Options, SetUpThrows, SetUpSocket, ForkAway, CloseStandard, OpenStandard,
         NotifyFork, discoverVars
<1> QED
  BY <1>1, <1>2, Untouched

\* A datagram that arrives gets the next number.
LEMMA EnqueueKeeps ==
  ASSUME DiscoverInv, NEW from \in Hosts, NEW whole \in BOOLEAN, NEW magic \in Magic,
         whole => from # "ops", Enqueue(from, whole, magic),
         UNCHANGED <<receiver, datagram, endpoint, outgoing, answers>>
  PROVE  DiscoverInv'
<1> DEFINE new == Datagram(from, whole, magic, arrived + 1)
<1>1. new \in Datagrams /\ new.n = arrived + 1
  BY Shapes DEF Datagram, Datagrams
<1>2. arrived' = arrived + 1 /\ queue' = Append(queue, new)
  BY DEF Enqueue
<1> HIDE DEF new
<1>3. ArrivalInv'
  <2>1. /\ queue' \in Seq(Datagrams) /\ Len(queue') = Len(queue) + 1
        /\ \A i \in 1..Len(queue) + 1 : queue'[i] = IF i <= Len(queue) THEN queue[i] ELSE new
    BY <1>1, <1>2, Longer DEF DiscoverInv, ArrivalInv
  <2>2. arrived = datagram.n + Len(queue)
    BY DEF DiscoverInv, ArrivalInv
  <2>3. ASSUME NEW i \in 1..Len(queue') PROVE queue'[i].n = datagram.n + i
    <3>1. CASE i <= Len(queue)
      <4>1. i \in 1..Len(queue) /\ queue'[i] = queue[i]
        BY <2>1, <3>1, Shapes
      <4> QED
        BY <4>1 DEF DiscoverInv, ArrivalInv
    <3>2. CASE i = Len(queue) + 1
      <4>1. queue'[i] = new
        BY <2>1, <3>2, Shapes
      <4>2. datagram.n \in Nat /\ Len(queue) \in Nat
        BY Shapes
      <4> QED
        BY <1>1, <2>2, <3>2, <4>1, <4>2
    <3> QED
      BY <2>1, <3>1, <3>2, Shapes
  <2>4. datagram.n \in Nat /\ Len(queue) \in Nat
    BY Shapes
  <2>5. arrived' \in Nat /\ datagram.n + Len(queue') = arrived'
    BY <1>2, <2>1, <2>2, <2>4
  <2> QED
    BY <2>1, <2>3, <2>5 DEF DiscoverInv, ArrivalInv
<1>4. AnswersInv'
  BY DEF DiscoverInv, AnswersInv, Limit, Rising
<1> QED
  BY <1>3, <1>4 DEF DiscoverInv

LEMMA ArriveKeeps == DiscoverInv /\ Arrive => DiscoverInv'
<1> SUFFICES ASSUME DiscoverInv, Arrive PROVE DiscoverInv'
  OBVIOUS
<1>1. PICK from \in Senders, magic \in Magic : Enqueue(from, TRUE, magic)
  BY DEF Arrive
<1> QED
  BY <1>1, EnqueueKeeps, SendersAssumption DEF Arrive, Hosts

LEMMA DoSendKeeps == DiscoverInv /\ DoSend => DiscoverInv'
<1> SUFFICES ASSUME DiscoverInv, DoSend PROVE DiscoverInv'
  OBVIOUS
<1>1. CASE Enqueue("ops", FALSE, 0)
  BY <1>1, EnqueueKeeps DEF DoSend, Hosts, Magic
<1>2. CASE UNCHANGED <<queue, arrived>>
  BY <1>2, Untouched DEF DoSend
<1> QED
  BY <1>1, <1>2 DEF DoSend

\* The datagram received is newer than all that were answered.
LEMMA ReceiveKeeps == DiscoverInv /\ Receive => DiscoverInv'
<1> SUFFICES ASSUME DiscoverInv, Receive PROVE DiscoverInv'
  OBVIOUS
<1>1. CASE /\ queue # <<>>
           /\ datagram' = Head(queue) /\ endpoint' = Head(queue).from /\ queue' = Tail(queue)
           /\ receiver' = "received"
  <2>1. UNCHANGED <<arrived, outgoing, answers>>
    BY DEF Receive
  <2>2. /\ Tail(queue) \in Seq(Datagrams) /\ Len(Tail(queue)) = Len(queue) - 1
        /\ Len(queue) \in Nat \ {0} /\ Head(queue) = queue[1] /\ queue[1] \in Datagrams
        /\ \A i \in 1..Len(queue) - 1 : Tail(queue)[i] = queue[i + 1]
    BY <1>1, Shorter DEF DiscoverInv, ArrivalInv
  <2>3. datagram'.n = datagram.n + 1
    BY <1>1, <2>2 DEF DiscoverInv, ArrivalInv
  <2>4. ArrivalInv'
    <3>1. ASSUME NEW i \in 1..Len(queue') PROVE queue'[i].n = datagram'.n + i
      <4>1. queue'[i] = queue[i + 1] /\ i + 1 \in 1..Len(queue)
        BY <1>1, <2>2
      <4>2. queue[i + 1].n = datagram.n + (i + 1)
        BY <4>1 DEF DiscoverInv, ArrivalInv
      <4>3. datagram.n \in Nat /\ i \in Nat
        BY Shapes
      <4>4. datagram.n + (i + 1) = (datagram.n + 1) + i
        BY <4>3
      <4> QED
        BY <2>3, <4>1, <4>2, <4>4
    <3>2. datagram'.n + Len(queue') = arrived'
      BY <1>1, <2>1, <2>2, <2>3, Shapes DEF DiscoverInv, ArrivalInv
    <3> QED
      BY <1>1, <2>1, <2>2, <3>1, <3>2 DEF DiscoverInv, ArrivalInv
  <2>5. AnswersInv'
    <3>1. Limit = datagram.n /\ Limit' = datagram.n
      BY <1>1, <2>3, Shapes DEF Receive, Limit
    <3> QED
      BY <2>1, <3>1 DEF DiscoverInv, AnswersInv, Rising
  <2> QED
    BY <2>4, <2>5 DEF DiscoverInv
<1>2. CASE receiver' = "failed" /\ UNCHANGED <<queue, datagram, endpoint>>
  BY <1>2, Untouched DEF Receive
<1> QED
  BY <1>1, <1>2 DEF Receive

\* An answer has the address of the datagram being handled, and its number.
LEMMA ReceivedKeeps == DiscoverInv /\ Received => DiscoverInv'
<1> SUFFICES ASSUME DiscoverInv, Received PROVE DiscoverInv'
  OBVIOUS
<1>1. UNCHANGED <<queue, arrived, datagram, endpoint, answers>>
  BY DEF Received
<1>2. CASE datagram.whole /\ receiver' = "handled" /\ OnMessage
  <2> DEFINE new == [to |-> endpoint, asker |-> datagram.from, n |-> datagram.n]
  <2>1. new \in AnswerSet /\ new.n = datagram.n
    BY <1>2 DEF DiscoverInv, ArrivalInv, Datagrams, AnswerSet
  <2>2. outgoing' = Append(outgoing, new)
    BY <1>2 DEF OnMessage
  <2> HIDE DEF new
  <2>3. Limit = datagram.n - 1 /\ Limit' = datagram.n
    BY <1>1, <1>2 DEF Received, Limit
  <2>4. /\ \A i \in 1..Len(outgoing) : outgoing[i].n < datagram.n
        /\ \A i \in 1..Len(answers) : answers[i].n < datagram.n
    BY <2>3, Shapes DEF DiscoverInv, AnswersInv
  <2>5. /\ outgoing' \in Seq(AnswerSet) /\ Len(outgoing') = Len(outgoing) + 1
        /\ \A i \in 1..Len(outgoing) + 1 :
             outgoing'[i] = IF i <= Len(outgoing) THEN outgoing[i] ELSE new
    BY <2>1, <2>2, Longer DEF DiscoverInv, AnswersInv
  <2>6. Rising(outgoing')
    BY <2>1, <2>2, <2>4, RisingLonger DEF DiscoverInv, AnswersInv
  <2>7. ASSUME NEW j \in 1..Len(outgoing')
        PROVE  /\ outgoing'[j].n <= datagram.n
               /\ \A i \in 1..Len(answers) : answers[i].n < outgoing'[j].n
    <3>1. CASE j <= Len(outgoing)
      <4>1. j \in 1..Len(outgoing) /\ outgoing'[j] = outgoing[j]
        BY <2>5, <3>1, Shapes
      <4>2. outgoing[j].n \in Nat /\ outgoing[j].n < datagram.n /\ datagram.n \in Nat
        BY <2>4, <4>1, Shapes
      <4> QED
        BY <4>1, <4>2 DEF DiscoverInv, AnswersInv
    <3>2. CASE j = Len(outgoing) + 1
      BY <2>1, <2>4, <2>5, <3>2, Shapes
    <3> QED
      BY <2>5, <3>1, <3>2, Shapes
  <2>8. \A i \in 1..Len(answers) : answers[i].n <= datagram.n
    BY <2>4, Shapes
  <2>9. AnswersInv'
    BY <1>1, <2>3, <2>5, <2>6, <2>7, <2>8 DEF DiscoverInv, AnswersInv, Rising
  <2>10. ArrivalInv'
    BY <1>1 DEF DiscoverInv, ArrivalInv
  <2> QED
    BY <2>9, <2>10 DEF DiscoverInv
<1>3. CASE UNCHANGED outgoing /\ (receiver' = receiver \/ receiver' = "handled")
  BY <1>1, <1>3, Untouched
<1> QED
  BY <1>2, <1>3 DEF Received

LEMMA TransferKeeps == DiscoverInv /\ Transfer => DiscoverInv'
<1> SUFFICES ASSUME DiscoverInv, Transfer PROVE DiscoverInv'
  OBVIOUS
<1>1. UNCHANGED <<queue, arrived, receiver, datagram, endpoint>> /\ outgoing' = Tail(outgoing)
  BY DEF Transfer
<1>2. /\ outgoing' \in Seq(AnswerSet) /\ Len(outgoing') = Len(outgoing) - 1
      /\ Len(outgoing) \in Nat \ {0} /\ Head(outgoing) = outgoing[1] /\ outgoing[1] \in AnswerSet
      /\ \A i \in 1..Len(outgoing) - 1 : outgoing'[i] = outgoing[i + 1]
  BY <1>1, Shorter DEF Transfer, DiscoverInv, AnswersInv
<1>3. Rising(outgoing') /\ \A j \in 1..Len(outgoing') : outgoing[1].n < outgoing'[j].n
  BY <1>1, <1>2, RisingShorter DEF Transfer, DiscoverInv, AnswersInv
<1>4. Limit' = Limit /\ ArrivalInv'
  BY <1>1 DEF Limit, DiscoverInv, ArrivalInv
<1>5. /\ \A j \in 1..Len(outgoing') : outgoing'[j].n <= Limit
      /\ \A i \in 1..Len(answers), j \in 1..Len(outgoing') : answers[i].n < outgoing'[j].n
  <2> SUFFICES ASSUME NEW j \in 1..Len(outgoing')
               PROVE  /\ outgoing'[j].n <= Limit
                      /\ \A i \in 1..Len(answers) : answers[i].n < outgoing'[j].n
    OBVIOUS
  <2>1. j + 1 \in 1..Len(outgoing) /\ outgoing'[j] = outgoing[j + 1]
    BY <1>2
  <2> QED
    BY <2>1 DEF DiscoverInv, AnswersInv
<1>6. CASE answers' = Append(answers, outgoing[1])
  <2>1. /\ answers' \in Seq(AnswerSet) /\ Len(answers') = Len(answers) + 1
        /\ \A i \in 1..Len(answers) + 1 :
             answers'[i] = IF i <= Len(answers) THEN answers[i] ELSE outgoing[1]
    BY <1>2, <1>6, Longer DEF DiscoverInv, AnswersInv
  <2>2. Rising(answers')
    BY <1>2, <1>6, RisingLonger DEF DiscoverInv, AnswersInv
  <2>3. ASSUME NEW i \in 1..Len(answers')
        PROVE  /\ answers'[i].n <= Limit
               /\ \A j \in 1..Len(outgoing') : answers'[i].n < outgoing'[j].n
    <3>1. CASE i <= Len(answers)
      <4>1. i \in 1..Len(answers) /\ answers'[i] = answers[i]
        BY <2>1, <3>1, Shapes
      <4> QED
        BY <1>5, <4>1 DEF DiscoverInv, AnswersInv
    <3>2. CASE i = Len(answers) + 1
      BY <1>2, <1>3, <2>1, <3>2, Shapes DEF DiscoverInv, AnswersInv
    <3> QED
      BY <2>1, <3>1, <3>2, Shapes
  <2> QED
    BY <1>2, <1>3, <1>4, <1>5, <2>1, <2>2, <2>3 DEF DiscoverInv, AnswersInv, Rising
<1>7. CASE UNCHANGED answers
  BY <1>2, <1>3, <1>4, <1>5, <1>7 DEF DiscoverInv, AnswersInv, Rising
<1> QED
  BY <1>2, <1>6, <1>7 DEF Transfer

LEMMA DiscoverNextInv == DiscoverInv /\ [DaemonNext]_daemonVars => DiscoverInv'
<1> SUFFICES ASSUME DiscoverInv, [DaemonNext]_daemonVars PROVE DiscoverInv'
  OBVIOUS
<1>1. CASE StopSignal \/ WaitOrganizationExit \/ DoReceive \/ UNCHANGED daemonVars
  <2>1. /\ UNCHANGED <<queue, arrived, datagram, endpoint, outgoing, answers>>
        /\ receiver' = receiver \/ receiver' # "received"
    BY <1>1 DEF StopSignal, WaitOrganizationExit, DoReceive, daemonVars, discoverVars
  <2> QED
    BY <2>1, Untouched
<1> QED
  BY <1>1, DaemoniseKeeps, ArriveKeeps, DoSendKeeps, ReceiveKeeps, ReceivedKeeps, TransferKeeps
  DEF DaemonNext, Serve

\* The inductive invariant holds in every behaviour of the daemon.
THEOREM DiscoverInvariance == DaemonSpec => []DiscoverInv
  BY DiscoverInitInv, DiscoverNextInv, PTL DEF DaemonSpec

LEMMA InvAnswersAsker ==
  ASSUME DiscoverInv
  PROVE  AnswersAsker
<1>1. DOMAIN answers = 1..Len(answers)
  BY DEF DiscoverInv, AnswersInv
<1>2. ASSUME NEW i \in 1..Len(answers), NEW j \in 1..Len(answers), answers[i].n = answers[j].n
      PROVE  i = j
  <2>1. ~(i < j) /\ ~(j < i)
    BY <1>2, Shapes DEF DiscoverInv, AnswersInv, Rising
  <2> QED
    BY <2>1, Shapes
<1>3. \A i \in 1..Len(answers) : answers[i].to = answers[i].asker /\ answers[i].asker # "ops"
  BY DEF DiscoverInv, AnswersInv, AnswerSet
<1> QED
  BY <1>1, <1>2, <1>3 DEF AnswersAsker

\* opc answers the sender of the datagram, each at most once and never ops's
\* texts, however many datagrams arrive while answers wait to be sent.
THEOREM AskerIsAnswered == DaemonSpec => []AnswersAsker
<1>1. DiscoverInv => AnswersAsker
  BY InvAnswersAsker
<1> QED
  BY <1>1, DiscoverInvariance, PTL

-----------------------------------------------------------------------------
(***************************************************************************)
(* What opc has as a daemon.                                               *)
(***************************************************************************)

OpcThings ==
  {Free} \cup {Own(d) : d \in Desc} \cup ({"reactor", "socket", "syslog", "null", "log"} \X {0})

Standard == {0, 1, 2}

\* The steps of main between the second fork and io_context.run().
Forked == {"close", "null", "log", "dup", "notify", "run"}

DaemonTypes ==
  /\ table \in [Desc -> OpcThings]
  /\ reactor \in {-1} \cup Desc /\ socket \in {-1} \cup Desc
  /\ main \in {"fork"} \cup Forked => reactor \in Desc /\ Standard \subseteq Desc
  /\ receiver \in {"off", "armed", "received", "failed", "handled"}
  /\ arrived \in Nat /\ arrived <= MaxDatagrams
  /\ sender.count \in 0..MaxMessages /\ (sender.timer => sender.count < MaxMessages)

\* Each fork moves the process in its session, and its parent exits with 0.
StatusInv ==
  /\ main \in {"options", "socket", "fork", "over"} \cup Forked
  /\ session \in {"shell", "leader", "member"} /\ Len(statuses) <= 3
  /\ main \in {"options", "socket"} => session = "shell" /\ statuses = <<>>
  /\ main = "fork" => \/ session = "shell" /\ statuses = <<>>
                      \/ session = "leader" /\ statuses = <<0>>
  /\ main \in Forked => session = "member" /\ statuses = <<0, 0>>

\* boost's descriptors and MSocket's are none of the standard ones, so that
\* these are the lowest that are free once main has closed them.
StandardInv ==
  Standard \subseteq given =>
    /\ main \in {"options", "socket"} => table = Table(given)
    /\ main \in {"fork"} \cup Forked =>
         /\ socket \in Desc \ Standard /\ reactor \in Desc \ Standard
         /\ table[socket] = <<"socket", 0>> /\ table[reactor] = <<"reactor", 0>>
    /\ main \in {"null", "log", "dup"} => table[2] = Free
    /\ main \in {"null", "log"} => table[1] = Free
    /\ main = "null" => table[0] = Free
    /\ main \in {"log", "dup", "notify", "run"} => table[0] = <<"null", 0>>
    /\ main \in {"dup", "notify", "run"} => table[1] = <<"log", 0>>
    /\ main \in {"notify", "run"} => table[2] = <<"log", 0>>

DaemonInv == DaemonTypes /\ StatusInv /\ StandardInv

\* A table in which one descriptor leads elsewhere.
LEMMA OpcTable ==
  ASSUME NEW t \in [Desc -> OpcThings], NEW d \in Desc, NEW what \in OpcThings
  PROVE  /\ [t EXCEPT ![d] = what] \in [Desc -> OpcThings]
         /\ \A x \in Desc : [t EXCEPT ![d] = what][x] = IF x = d THEN what ELSE t[x]
OBVIOUS

\* What is opened is at a descriptor that was free, and closed ones are free.
LEMMA OpcOpened ==
  ASSUME NEW t \in [Desc -> OpcThings], NEW what \in OpcThings, ~IsFull(t)
  PROVE  /\ Lowest(t) \in Desc /\ t[Lowest(t)] = Free
         /\ \A d \in Desc : t[d] = Free => Lowest(t) <= d
         /\ Opened(t, what) \in [Desc -> OpcThings]
         /\ \A x \in Desc : Opened(t, what)[x] = IF x = Lowest(t) THEN what ELSE t[x]
BY LowestIsFree, OpcTable DEF Opened

LEMMA OpcClosed ==
  ASSUME NEW t \in [Desc -> OpcThings], NEW d
  PROVE  /\ Closed(t, d) \in [Desc -> OpcThings]
         /\ \A x \in Desc : Closed(t, d)[x] = IF x = d THEN Free ELSE t[x]
BY DEF Closed, OpcThings

LEMMA DaemonInitInv == DaemonInit => DaemonInv
<1> SUFFICES ASSUME DaemonInit PROVE DaemonInv
  OBVIOUS
<1>1. Table(given) \in [Desc -> OpcThings]
  BY DEF Table, OpcThings
<1>2. DaemonTypes
  BY <1>1, SendersAssumption DEF DaemonInit, DaemonTypes, Forked
<1>3. StatusInv /\ StandardInv
  BY DEF DaemonInit, StatusInv, StandardInv, Forked
<1> QED
  BY <1>2, <1>3 DEF DaemonInv

\* A step that leaves main and the table alone.
LEMMA ProcessStays ==
  ASSUME DaemonInv, UNCHANGED processVars
  PROVE  StatusInv' /\ StandardInv'
BY DEF DaemonInv, StatusInv, StandardInv, processVars, Table

\* main's end.
LEMMA EndKeeps ==
  ASSUME DaemonInv, main # "over", NEW status, End(status),
         UNCHANGED <<given, table, reactor, socket, session>>
  PROVE  StatusInv' /\ StandardInv' /\ main' = "over"
<1>1. main' = "over" /\ statuses' = Append(statuses, status)
  BY DEF End
<1>2. statuses = <<>> \/ statuses = <<0>> \/ statuses = <<0, 0>>
  BY DEF DaemonInv, StatusInv
<1>3. Len(statuses') <= 3
  BY <1>1, <1>2
<1>4. StatusInv'
  BY <1>1, <1>3 DEF DaemonInv, StatusInv, Forked
<1>5. StandardInv'
  BY <1>1 DEF StandardInv, Forked
<1> QED
  BY <1>1, <1>4, <1>5

LEMMA SetUpSocketInv ==
  ASSUME DaemonInv, SetUpSocket
  PROVE  DaemonInv'
<1> DEFINE first == Opened(table, <<"reactor", 0>>)
           second == Opened(first, <<"socket", 0>>)
           third == Opened(second, <<"syslog", 0>>)
<1>1. /\ main = "socket" /\ main' = "fork" /\ statuses' = statuses
      /\ UNCHANGED <<given, session, arrived, sender>>
      /\ ~IsFull(table) /\ ~IsFull(first) /\ ~IsFull(second)
      /\ reactor' = Lowest(table) /\ socket' = Lowest(first) /\ table' = third
      /\ receiver' = "armed"
  BY DEF SetUpSocket, Goes
<1>2. /\ <<"reactor", 0>> \in OpcThings /\ <<"socket", 0>> \in OpcThings
      /\ <<"syslog", 0>> \in OpcThings
      /\ <<"reactor", 0>> # Free /\ <<"socket", 0>> # Free
      /\ \A d : Own(d) # Free
  BY DEF OpcThings, Free, Own
<1>3. table \in [Desc -> OpcThings]
  BY DEF DaemonInv, DaemonTypes
<1>4. /\ reactor' \in Desc /\ table[reactor'] = Free /\ first \in [Desc -> OpcThings]
      /\ \A x \in Desc : first[x] = IF x = reactor' THEN <<"reactor", 0>> ELSE table[x]
  BY <1>1, <1>2, <1>3, OpcOpened
<1> HIDE DEF first
<1>5. /\ socket' \in Desc /\ first[socket'] = Free /\ second \in [Desc -> OpcThings]
      /\ \A x \in Desc : second[x] = IF x = socket' THEN <<"socket", 0>> ELSE first[x]
  BY <1>1, <1>2, <1>4, OpcOpened
<1> HIDE DEF second
<1>6. PICK d : d = Lowest(second)
  OBVIOUS
<1>7. /\ d \in Desc /\ second[d] = Free /\ third \in [Desc -> OpcThings]
      /\ \A x \in Desc : third[x] = IF x = d THEN <<"syslog", 0>> ELSE second[x]
  BY <1>1, <1>2, <1>5, <1>6, OpcOpened
<1> HIDE DEF third
<1>8. socket' # reactor' /\ d # socket' /\ d # reactor'
  BY <1>2, <1>4, <1>5, <1>7
<1>9. table'[socket'] = <<"socket", 0>> /\ table'[reactor'] = <<"reactor", 0>>
  BY <1>1, <1>4, <1>5, <1>7, <1>8
<1>10. StandardInv'
  <2> SUFFICES ASSUME Standard \subseteq given
               PROVE  socket' \in Desc \ Standard /\ reactor' \in Desc \ Standard
    BY <1>1, <1>9 DEF StandardInv, Forked
  <2>1. table = Table(given)
    BY <1>1 DEF DaemonInv, StandardInv
  <2>2. \A x \in Desc : table[x] = Free => x \notin Standard
    BY <1>2, <2>1 DEF Table
  <2>3. table[socket'] = Free
    BY <1>4, <1>5, <1>8
  <2>4. socket' \notin Standard /\ reactor' \notin Standard
    BY <1>4, <1>5, <2>2, <2>3
  <2> QED
    BY <1>4, <1>5, <2>4
<1>11. StatusInv'
  BY <1>1 DEF DaemonInv, StatusInv, Forked
<1>12. DaemonTypes'
  <2>1. Standard \subseteq Desc
    <3>1. \A x \in Desc : x \in Nat /\ x <= MaxDesc - 1
      BY MaxDescAssumption DEF Desc
    <3>2. MaxDesc >= 3
      BY <1>4, <1>5, <1>7, <1>8, <3>1, MaxDescAssumption
    <3> QED
      BY <3>2, MaxDescAssumption DEF Standard, Desc
  <2> QED
    BY <1>1, <1>4, <1>5, <1>7, <2>1 DEF DaemonInv, DaemonTypes
<1> QED
  BY <1>10, <1>11, <1>12 DEF DaemonInv

LEMMA OpenStandardInv ==
  ASSUME DaemonInv, OpenStandard
  PROVE  DaemonInv'
<1>1. /\ main \in {"null", "log", "dup"}
      /\ UNCHANGED <<given, reactor, socket, session, receiver, arrived, sender>>
  BY DEF OpenStandard, discoverVars
<1>2. table \in [Desc -> OpcThings] /\ reactor \in Desc /\ Standard \subseteq Desc
  BY <1>1 DEF DaemonInv, DaemonTypes, Forked
<1>3. CASE End(1) /\ UNCHANGED table
  <2>1. StatusInv' /\ StandardInv' /\ main' = "over"
    BY <1>1, <1>3, EndKeeps
  <2> QED
    BY <1>1, <1>3, <2>1 DEF DaemonInv, DaemonTypes, Forked
<1>4. CASE /\ ~IsFull(table)
           /\ table' = Opened(table, IF main = "dup" THEN table[1] ELSE <<main, 0>>)
           /\ Goes(CASE main = "null" -> "log" [] main = "log" -> "dup" [] main = "dup" -> "notify")
  <2>1. PICK what : what = IF main = "dup" THEN table[1] ELSE <<main, 0>>
    OBVIOUS
  <2>2. PICK d : d = Lowest(table)
    OBVIOUS
  <2>3. what \in OpcThings
    <3>1. CASE main = "dup"
      BY <1>2, <2>1, <3>1 DEF Standard
    <3>2. CASE main \in {"null", "log"}
      BY <2>1, <3>2 DEF OpcThings
    <3> QED
      BY <1>1, <3>1, <3>2
  <2>4. /\ d \in Desc /\ table[d] = Free /\ (\A x \in Desc : table[x] = Free => d <= x)
        /\ table' \in [Desc -> OpcThings]
        /\ \A x \in Desc : table'[x] = IF x = d THEN what ELSE table[x]
    <3>1. table' = Opened(table, what) /\ ~IsFull(table)
      BY <1>4, <2>1
    <3>2. /\ Lowest(table) \in Desc /\ table[Lowest(table)] = Free
          /\ \A x \in Desc : table[x] = Free => Lowest(table) <= x
          /\ Opened(table, what) \in [Desc -> OpcThings]
          /\ \A x \in Desc : Opened(table, what)[x] = IF x = Lowest(table) THEN what ELSE table[x]
      BY <1>2, <2>3, <3>1, OpcOpened
    <3> QED
      BY <2>2, <3>1, <3>2
  <2>5. /\ statuses' = statuses
        /\ \/ main = "null" /\ main' = "log"
           \/ main = "log" /\ main' = "dup"
           \/ main = "dup" /\ main' = "notify"
    BY <1>1, <1>4 DEF Goes
  <2>6. StatusInv'
    BY <1>1, <2>5 DEF DaemonInv, StatusInv, Forked
  <2>7. DaemonTypes'
    BY <1>1, <2>4, <2>5 DEF DaemonInv, DaemonTypes, Forked
  <2>8. StandardInv'
    <3> SUFFICES ASSUME Standard \subseteq given
                 PROVE  /\ socket \in Desc \ Standard /\ reactor \in Desc \ Standard
                        /\ table'[socket] = <<"socket", 0>> /\ table'[reactor] = <<"reactor", 0>>
                        /\ main' \in {"log", "dup"} => table'[2] = Free
                        /\ main' = "log" => table'[1] = Free
                        /\ table'[0] = <<"null", 0>>
                        /\ main' \in {"dup", "notify"} => table'[1] = <<"log", 0>>
                        /\ main' = "notify" => table'[2] = <<"log", 0>>
      BY <1>1, <2>5 DEF StandardInv, Forked
    <3>1. /\ socket \in Desc \ Standard /\ reactor \in Desc \ Standard
          /\ table[socket] = <<"socket", 0>> /\ table[reactor] = <<"reactor", 0>>
          /\ table[2] = Free
          /\ main \in {"null", "log"} => table[1] = Free
          /\ main = "null" => table[0] = Free
          /\ main \in {"log", "dup"} => table[0] = <<"null", 0>>
          /\ main = "dup" => table[1] = <<"log", 0>>
      BY <1>1 DEF DaemonInv, StandardInv, Forked
    <3>2. /\ <<"null", 0>> # Free /\ <<"log", 0>> # Free
          /\ <<"socket", 0>> # Free /\ <<"reactor", 0>> # Free
      BY DEF Free
    <3>3. d # socket /\ d # reactor
      BY <2>4, <3>1, <3>2
    <3>4. 0 \in Desc /\ 1 \in Desc /\ 2 \in Desc /\ d \in Nat
      BY <1>2, <2>4, DescIsNat DEF Standard
    <3>5. CASE main = "null"
      <4>1. d = 0 /\ what = <<"null", 0>>
        BY <2>1, <2>4, <3>1, <3>4, <3>5
      <4> QED
        BY <2>4, <2>5, <3>1, <3>3, <3>4, <3>5, <4>1
    <3>6. CASE main = "log"
      <4>1. d = 1 /\ what = <<"log", 0>>
        BY <2>1, <2>4, <3>1, <3>2, <3>4, <3>6
      <4>2. table'[0] = table[0] /\ table'[1] = <<"log", 0>> /\ table'[2] = table[2]
        BY <2>4, <3>4, <4>1
      <4>3. table'[socket] = table[socket] /\ table'[reactor] = table[reactor]
        BY <2>4, <3>1, <3>3
      <4>4. main' = "dup" /\ main' # "log" /\ main' # "notify"
        BY <2>5, <3>6
      <4> QED
        BY <3>1, <3>6, <4>2, <4>3, <4>4
    <3>7. CASE main = "dup"
      <4>1. d = 2 /\ what = <<"log", 0>>
        BY <2>1, <2>4, <3>1, <3>2, <3>4, <3>7
      <4> QED
        BY <2>4, <2>5, <3>1, <3>3, <3>4, <3>7, <4>1
    <3> QED
      BY <1>1, <3>5, <3>6, <3>7
  <2> QED
    BY <2>6, <2>7, <2>8 DEF DaemonInv
<1> QED
  BY <1>3, <1>4 DEF OpenStandard

LEMMA CloseStandardInv ==
  ASSUME DaemonInv, CloseStandard
  PROVE  DaemonInv'
<1> DEFINE one == Closed(table, 0)
           two == Closed(one, 1)
<1>1. /\ main = "close" /\ main' = "null" /\ statuses' = statuses /\ table' = Closed(two, 2)
      /\ UNCHANGED <<given, reactor, socket, session, receiver, arrived, sender>>
  BY DEF CloseStandard, Goes, discoverVars
<1>2. one \in [Desc -> OpcThings] /\ \A x \in Desc : one[x] = IF x = 0 THEN Free ELSE table[x]
  BY OpcClosed DEF DaemonInv, DaemonTypes
<1> HIDE DEF one
<1>3. two \in [Desc -> OpcThings] /\ \A x \in Desc : two[x] = IF x = 1 THEN Free ELSE one[x]
  BY <1>2, OpcClosed
<1> HIDE DEF two
<1>4. table' \in [Desc -> OpcThings] /\ \A x \in Desc : table'[x] = IF x = 2 THEN Free ELSE two[x]
  BY <1>1, <1>3, OpcClosed
<1>5. \A x \in Desc : table'[x] = IF x \in Standard THEN Free ELSE table[x]
  BY <1>2, <1>3, <1>4 DEF Standard
<1>6. Standard \subseteq Desc
  BY <1>1 DEF DaemonInv, DaemonTypes, Forked
<1>7. StatusInv'
  BY <1>1 DEF DaemonInv, StatusInv, Forked
<1>8. DaemonTypes'
  BY <1>1, <1>4 DEF DaemonInv, DaemonTypes, Forked
<1>9. StandardInv'
  <2>1. table'[0] = Free /\ table'[1] = Free /\ table'[2] = Free
    BY <1>5, <1>6 DEF Standard
  <2> SUFFICES ASSUME Standard \subseteq given
               PROVE  /\ socket \in Desc \ Standard /\ reactor \in Desc \ Standard
                      /\ table'[socket] = <<"socket", 0>> /\ table'[reactor] = <<"reactor", 0>>
    BY <1>1, <2>1 DEF StandardInv, Forked
  <2>2. /\ socket \in Desc \ Standard /\ reactor \in Desc \ Standard
        /\ table[socket] = <<"socket", 0>> /\ table[reactor] = <<"reactor", 0>>
    BY <1>1 DEF DaemonInv, StandardInv, Forked
  <2> QED
    BY <1>5, <2>2
<1> QED
  BY <1>7, <1>8, <1>9 DEF DaemonInv

\* The new descriptor may be another than the old one, but none of those in use.
LEMMA NotifyForkInv ==
  ASSUME DaemonInv, NotifyFork
  PROVE  DaemonInv'
<1> DEFINE closed == Closed(table, reactor)
<1>1. /\ main = "notify" /\ main' = "run" /\ statuses' = statuses
      /\ reactor' = Lowest(closed) /\ table' = Opened(closed, <<"reactor", 0>>)
      /\ UNCHANGED <<given, socket, session, receiver, arrived, sender>>
  BY DEF NotifyFork, Goes, discoverVars
<1>2. reactor \in Desc /\ Standard \subseteq Desc /\ table \in [Desc -> OpcThings]
  BY <1>1 DEF DaemonInv, DaemonTypes, Forked
<1>3. /\ closed \in [Desc -> OpcThings]
      /\ \A x \in Desc : closed[x] = IF x = reactor THEN Free ELSE table[x]
  BY <1>2, OpcClosed
<1> HIDE DEF closed
<1>4. ~IsFull(closed) /\ <<"reactor", 0>> \in OpcThings
  BY <1>2, <1>3 DEF IsFull, OpenDescs, OpcThings
<1>5. /\ reactor' \in Desc /\ closed[reactor'] = Free
      /\ table' \in [Desc -> OpcThings]
      /\ \A x \in Desc : table'[x] = IF x = reactor' THEN <<"reactor", 0>> ELSE closed[x]
  BY <1>1, <1>3, <1>4, OpcOpened
<1>6. StatusInv'
  BY <1>1 DEF DaemonInv, StatusInv, Forked
<1>7. DaemonTypes'
  BY <1>1, <1>5 DEF DaemonInv, DaemonTypes, Forked
<1>8. StandardInv'
  <2> SUFFICES ASSUME Standard \subseteq given
               PROVE  /\ socket \in Desc \ Standard /\ reactor' \in Desc \ Standard
                      /\ table'[socket] = <<"socket", 0>> /\ table'[reactor'] = <<"reactor", 0>>
                      /\ table'[0] = <<"null", 0>> /\ table'[1] = <<"log", 0>> /\ table'[2] = <<"log", 0>>
    BY <1>1 DEF StandardInv, Forked
  <2>1. /\ socket \in Desc \ Standard /\ reactor \in Desc \ Standard
        /\ table[socket] = <<"socket", 0>> /\ table[reactor] = <<"reactor", 0>>
        /\ table[0] = <<"null", 0>> /\ table[1] = <<"log", 0>> /\ table[2] = <<"log", 0>>
    BY <1>1 DEF DaemonInv, StandardInv, Forked
  <2>2. /\ <<"null", 0>> # Free /\ <<"log", 0>> # Free
        /\ <<"socket", 0>> # Free /\ <<"socket", 0>> # <<"reactor", 0>>
    BY DEF Free
  <2>3. socket # reactor
    BY <2>1, <2>2
  <2>4. \A x \in Standard : closed[x] = table[x] /\ table[x] # Free
    BY <1>2, <1>3, <2>1, <2>2 DEF Standard
  <2>5. closed[socket] = <<"socket", 0>>
    BY <1>3, <2>1, <2>3
  <2>6. reactor' \notin Standard /\ reactor' # socket
    BY <1>5, <2>2, <2>4, <2>5
  <2> QED
    BY <1>2, <1>5, <2>1, <2>4, <2>5, <2>6 DEF Standard
<1> QED
  BY <1>6, <1>7, <1>8 DEF DaemonInv

\* The two processes that had ended when the second child runs main.
LEMMA TwoEnded == Append(<<0>>, 0) = <<0, 0>>
<1>1. PICK ended, two : ended = Append(<<0>>, 0) /\ two = <<0, 0>>
  OBVIOUS
<1>2. <<0>> \in Seq(Nat) /\ 0 \in Nat /\ Len(<<0>>) = 1
  OBVIOUS
<1>3. ended \in Seq(Nat) /\ Len(ended) = 2 /\ ended[1] = 0 /\ ended[2] = 0
  BY <1>1, <1>2
<1>4. two \in Seq(Nat) /\ Len(two) = 2 /\ two[1] = 0 /\ two[2] = 0
  BY <1>1
<1>5. DOMAIN ended = 1..2 /\ DOMAIN two = 1..2 /\ \A i \in 1..2 : ended[i] = two[i]
  BY <1>3, <1>4
<1>6. ended = [i \in 1..2 |-> ended[i]] /\ two = [i \in 1..2 |-> ended[i]]
  BY <1>3, <1>4, <1>5
<1> QED
  BY <1>1, <1>6

LEMMA DaemonNextInv == DaemonInv /\ [DaemonNext]_daemonVars => DaemonInv'
<1> SUFFICES ASSUME DaemonInv, [DaemonNext]_daemonVars PROVE DaemonInv'
  OBVIOUS
<1>1. CASE Options \/ SetUpThrows
  <2>1. UNCHANGED <<given, table, reactor, socket, session, receiver, arrived, sender>>
    BY <1>1 DEF Options, SetUpThrows, discoverVars
  <2>2. main \in {"options", "socket"}
    BY <1>1 DEF Options, SetUpThrows
  <2>3. CASE main = "options" /\ Goes("socket")
    BY <2>1, <2>3 DEF Goes, DaemonInv, DaemonTypes, StatusInv, StandardInv, Forked
  <2>4. ASSUME NEW status, End(status) PROVE DaemonInv'
    <3>1. StatusInv' /\ StandardInv' /\ main' = "over"
      BY <2>1, <2>2, <2>4, EndKeeps
    <3> QED
      BY <2>1, <3>1 DEF DaemonInv, DaemonTypes, Forked
  <2> QED
    BY <1>1, <2>3, <2>4 DEF Options, SetUpThrows
<1>2. CASE ForkAway
  <2>1. UNCHANGED <<given, table, reactor, socket, receiver, arrived, sender>> /\ main = "fork"
    BY <1>2 DEF ForkAway, discoverVars
  <2>2. CASE End(1) /\ UNCHANGED session
    <3>1. StatusInv' /\ StandardInv' /\ main' = "over"
      BY <2>1, <2>2, EndKeeps
    <3> QED
      BY <2>1, <3>1 DEF DaemonInv, DaemonTypes, Forked
  <2>3. CASE /\ main' = IF session = "shell" THEN "fork" ELSE "close"
             /\ session' = IF session = "shell" THEN "leader" ELSE "member"
             /\ statuses' = Append(statuses, 0)
    <3>1. \/ session = "shell" /\ statuses = <<>>
          \/ session = "leader" /\ statuses = <<0>>
      BY <2>1 DEF DaemonInv, StatusInv
    <3>2. StatusInv'
      <4>1. CASE session = "shell" /\ statuses = <<>>
        <5>1. main' = "fork" /\ session' = "leader" /\ statuses' = <<0>> /\ Len(statuses') <= 3
          BY <2>3, <4>1
        <5> QED
          BY <5>1 DEF StatusInv, Forked
      <4>2. CASE session = "leader" /\ statuses = <<0>>
        <5>1. main' = "close" /\ session' = "member" /\ statuses' = Append(<<0>>, 0)
          BY <2>3, <4>2
        <5>2. statuses' = <<0, 0>>
          BY <5>1, TwoEnded
        <5>3. Len(<<0, 0>>) <= 3
          OBVIOUS
        <5> QED
          BY <5>1, <5>2, <5>3 DEF StatusInv, Forked
      <4> QED
        BY <3>1, <4>1, <4>2
    <3>3. DaemonTypes' /\ StandardInv'
      BY <2>1, <2>3 DEF DaemonInv, DaemonTypes, StandardInv, Forked
    <3> QED
      BY <3>2, <3>3 DEF DaemonInv
  <2> QED
    BY <1>2, <2>2, <2>3 DEF ForkAway
<1>3. CASE StopSignal
  <2>1. StatusInv' /\ StandardInv' /\ main' = "over"
    BY <1>3, EndKeeps DEF StopSignal
  <2> QED
    BY <1>3, <2>1 DEF StopSignal, discoverVars, DaemonInv, DaemonTypes, Forked
<1>4. CASE Received
  <2>1. UNCHANGED <<given, table, reactor, socket, session, arrived, sender>> /\ main = "run"
    BY <1>4 DEF Received
  <2>2. CASE End(-1) /\ UNCHANGED receiver
    <3>1. StatusInv' /\ StandardInv' /\ main' = "over"
      BY <2>1, <2>2, EndKeeps
    <3> QED
      BY <2>1, <2>2, <3>1 DEF DaemonInv, DaemonTypes, Forked
  <2>3. CASE receiver' = "handled" /\ UNCHANGED <<main, statuses>>
    BY <2>1, <2>3 DEF DaemonInv, DaemonTypes, StatusInv, StandardInv, Table
  <2> QED
    BY <1>4, <2>2, <2>3 DEF Received
<1>5. CASE \/ WaitOrganizationExit \/ Receive \/ DoReceive \/ Transfer \/ UNCHANGED daemonVars
  <2>1. UNCHANGED processVars /\ UNCHANGED <<arrived, sender>>
    BY <1>5 DEF WaitOrganizationExit, Receive, DoReceive, Transfer, daemonVars, discoverVars
  <2>2. receiver' = receiver \/ receiver' \in {"off", "armed", "received", "failed"}
    BY <1>5 DEF WaitOrganizationExit, Receive, DoReceive, Transfer, daemonVars, discoverVars
  <2>3. DaemonTypes'
    BY <2>1, <2>2 DEF DaemonInv, DaemonTypes, processVars
  <2> QED
    BY <2>1, <2>3, ProcessStays DEF DaemonInv
<1>6. CASE Arrive
  <2>1. /\ UNCHANGED processVars /\ UNCHANGED <<receiver, sender>>
        /\ arrived < MaxDatagrams /\ arrived' = arrived + 1
    BY <1>6 DEF Arrive, Enqueue
  <2>2. arrived' <= MaxDatagrams /\ arrived' \in Nat
    BY <2>1, SendersAssumption DEF DaemonInv, DaemonTypes
  <2>3. DaemonTypes'
    BY <2>1, <2>2 DEF DaemonInv, DaemonTypes, processVars
  <2> QED
    BY <2>1, <2>3, ProcessStays DEF DaemonInv
<1>7. CASE DoSend
  <2>1. /\ UNCHANGED processVars /\ receiver' = receiver
        /\ arrived' = arrived \/ (arrived < MaxDatagrams /\ arrived' = arrived + 1)
    BY <1>7 DEF DoSend, Enqueue
  <2>2. arrived' <= MaxDatagrams /\ arrived' \in Nat
    BY <2>1, SendersAssumption DEF DaemonInv, DaemonTypes
  <2>3. sender'.count \in 0..MaxMessages /\ (sender'.timer => sender'.count < MaxMessages)
    <3>1. PICK ok \in BOOLEAN :
            sender' = [count |-> sender.count + 1, timer |-> ok /\ sender.count + 1 < MaxMessages]
      BY <1>7 DEF DoSend
    <3>2. sender.count \in 0..MaxMessages /\ sender.count < MaxMessages /\ MaxMessages \in Nat
      BY <1>7, SendersAssumption DEF DoSend, DaemonInv, DaemonTypes
    <3>3. sender'.count = sender.count + 1 /\ (sender'.timer => sender.count + 1 < MaxMessages)
      BY <3>1
    <3> QED
      BY <3>2, <3>3
  <2>4. DaemonTypes'
    BY <2>1, <2>2, <2>3 DEF DaemonInv, DaemonTypes, processVars
  <2> QED
    BY <2>1, <2>4, ProcessStays DEF DaemonInv
<1> QED
  BY <1>1, <1>2, <1>3, <1>4, <1>5, <1>6, <1>7, SetUpSocketInv, CloseStandardInv, OpenStandardInv,
     NotifyForkInv
  DEF DaemonNext, Daemonise, Serve

-----------------------------------------------------------------------------
(***************************************************************************)
(* posix_setup.                                                            *)
(***************************************************************************)

Creds == [uid : Ids, euid : Ids, suid : Ids, gid : Ids, egid : Ids, sgid : Ids]

SetupTypes ==
  /\ had \in Creds /\ now \in Creds
  /\ asked \in [uid : Ids, euid : Ids, gid : Ids, egid : Ids]
  /\ call \in {"chroot", "gid", "egid", "uid", "euid", "chdir", "running", "failed"}
  /\ failed \in {"none", "chroot", "gid", "egid", "uid", "euid", "chdir"}
  /\ call # "failed" => failed = "none"

\* The parents whose children can only get what they were asked to have.
IsPlain == had.euid = Root \/ (had.suid = had.uid /\ had.sgid = had.gid)

\* What the calls still leave as it was: the groups until theirs, and the users,
\* with the privilege, until all the groups are taken.
Kept ==
  /\ call \in {"chroot", "gid"} => now.gid = had.gid /\ now.sgid = had.sgid
  /\ call \in {"chroot", "gid", "egid", "uid"} =>
       now.uid = had.uid /\ now.euid = had.euid /\ now.suid = had.suid

\* What the calls have set, which the later ones do not take back.
Granted ==
  /\ call \in {"egid", "uid", "euid", "chdir", "running"} /\ IsPlain => now.gid = asked.gid
  /\ call \in {"uid", "euid", "chdir", "running"} => now.egid = asked.egid
  /\ call \in {"euid", "chdir", "running"} /\ IsPlain => now.uid = asked.uid
  /\ call \in {"chdir", "running"} => now.euid = asked.euid

\* A privileged parent's child has kept the privilege, unless it has become
\* another user.
Able ==
  /\ call = "euid" /\ had.euid = Root =>
       now.euid = Root \/ (now.euid = asked.uid /\ asked.uid \notin {Root, had.uid})
  /\ NotRefused

\* The inductive invariant.
SetupInv == SetupTypes /\ Kept /\ Granted /\ Able

LEMMA SetupInitInv == SetupInit => SetupInv
  BY IdsAssumption
  DEF SetupInit, SetupInv, SetupTypes, Creds, Kept, Granted, Able, NotRefused

LEMMA ChrootKeeps == SetupInv /\ Chroot => SetupInv'
  BY DEF Chroot, PassesTo, FailsAt, SetupInv, SetupTypes, Kept, Granted, Able, NotRefused, IsPlain

\* setgid(2) of another group is refused to a plain parent's child that is not
\* privileged.
LEMMA SetGidKeeps == SetupInv /\ SetGid => SetupInv'
  BY DEF SetGid, PassesTo, FailsAt, MayTake, Taken, IsPrivileged, SetupInv, SetupTypes,
         Creds, Kept, Granted, Able, NotRefused, IsPlain

LEMMA SetEgidKeeps == SetupInv /\ SetEgid => SetupInv'
  BY DEF SetEgid, PassesTo, FailsAt, MayTake, IsPrivileged, SetupInv, SetupTypes,
         Creds, Kept, Granted, Able, NotRefused, IsPlain

LEMMA SetUidKeeps == SetupInv /\ SetUid => SetupInv'
  BY DEF SetUid, PassesTo, FailsAt, MayTake, Taken, IsPrivileged, SetupInv, SetupTypes,
         Creds, Kept, Granted, Able, NotRefused, IsPlain

LEMMA SetEuidKeeps == SetupInv /\ SetEuid => SetupInv'
  BY DEF SetEuid, PassesTo, FailsAt, MayTake, IsPrivileged, SetupInv, SetupTypes,
         Creds, Kept, Granted, Able, NotRefused, IsPlain

LEMMA ChdirKeeps == SetupInv /\ Chdir => SetupInv'
  BY DEF Chdir, PassesTo, FailsAt, SetupInv, SetupTypes, Creds, Kept, Granted, Able, NotRefused, IsPlain

LEMMA SetupNextInv == SetupInv /\ [SetupNext]_setupVars => SetupInv'
<1> SUFFICES ASSUME SetupInv, [SetupNext]_setupVars PROVE SetupInv'
  OBVIOUS
<1>1. CASE UNCHANGED setupVars
  BY <1>1 DEF setupVars, SetupInv, SetupTypes, Kept, Granted, Able, NotRefused, IsPlain
<1> QED
  BY <1>1, ChrootKeeps, SetGidKeeps, SetEgidKeeps, SetUidKeeps, SetEuidKeeps, ChdirKeeps DEF SetupNext

\* The inductive invariant holds in every behaviour of the child.
THEOREM SetupInvariance == SetupSpec => []SetupInv
  BY SetupInitInv, SetupNextInv, PTL DEF SetupSpec

\* For every users and groups: if the parent is privileged, or has saved no
\* identity but its real one, a program runs with all the credentials asked for
\* or not at all; and a privileged parent's child is never refused its groups or
\* its real user, and its effective user only once it has become another one.
\* Of a parent with another saved identity the first is not true.
THEOREM CredentialsGiven == SetupSpec => [](Credentials /\ NotRefused)
<1>1. SetupInv => Credentials /\ NotRefused
  BY DEF SetupInv, SetupTypes, Creds, Granted, Able, IsPlain, Credentials,
         PropertiesEffective
<1> QED
  BY <1>1, SetupInvariance, PTL

-----------------------------------------------------------------------------
(***************************************************************************)
(* The whole that MCOpc composes.                                          *)
(***************************************************************************)

\* A daemon that was started with all its standard streams open reads nothing,
\* writes to the log, has its socket and leads no session, whatever else it was
\* started with.
THEOREM DaemonHasStreams == DaemonSpec => []DaemonStreams
<1>1. DaemonInv => DaemonStreams
  BY DEF DaemonInv, StatusInv, StandardInv, DaemonStreams, StandardStreams, Standard, Forked
<1>2. DaemonSpec => []DaemonInv
  BY DaemonInitInv, DaemonNextInv, PTL DEF DaemonSpec
<1> QED
  BY <1>1, <1>2, PTL

LEMMA InvDaemonTypeOK ==
  ASSUME DiscoverInv, DaemonInv
  PROVE  DaemonTypeOK
<1>1. /\ \A d \in Desc : table[d] \in OpcThings
      /\ reactor \in {-1} \cup Desc /\ socket \in {-1} \cup Desc
      /\ receiver \in {"off", "armed", "received", "failed", "handled"}
      /\ arrived <= MaxDatagrams /\ sender.count \in 0..MaxMessages
  BY DEF DaemonInv, DaemonTypes
<1>2. /\ main \in {"options", "socket", "fork", "close", "null", "log", "dup", "notify", "run", "over"}
      /\ session \in {"shell", "leader", "member"} /\ Len(statuses) <= 3
  BY DEF DaemonInv, StatusInv, Forked
<1>3. Len(queue) <= arrived
  <2>1. datagram.n + Len(queue) = arrived
    BY DEF DiscoverInv, ArrivalInv
  <2> QED
    BY <2>1, Shapes
<1>4. endpoint \in {Group, "ops"} \cup Senders
  BY DEF DiscoverInv, ArrivalInv, Datagrams, Hosts
<1> QED
  BY <1>1, <1>2, <1>3, <1>4 DEF DaemonTypeOK, OpcThings

LEMMA InvSetup ==
  ASSUME SetupInv
  PROVE  SetupTypeOK /\ Credentials /\ NotRefused
<1>1. SetupTypeOK
  BY DEF SetupInv, SetupTypes, Creds, SetupTypeOK
<1>2. Credentials /\ NotRefused
  BY DEF SetupInv, SetupTypes, Creds, Granted, Able, IsPlain, Credentials,
         PropertiesEffective
<1> QED
  BY <1>1, <1>2

\* The inductive invariant of the whole: each part keeps its own, whichever runs.
OpcInv == DiscoverInv /\ DaemonInv /\ StartInv /\ MadeInv /\ SetupInv

LEMMA OpcInitInv == Init => OpcInv
<1> SUFFICES ASSUME Init PROVE OpcInv
  OBVIOUS
<1>1. DaemonInit /\ StartInit
  BY DEF Init
<1>2. SetupInv
  <2>1. CASE part = "setup"
    BY <2>1, SetupInitInv DEF Init
  <2>2. CASE part # "setup"
    <3>1. /\ had = Plain /\ now = Plain /\ call = "chroot" /\ failed = "none"
          /\ asked = [uid |-> 1, euid |-> 1, gid |-> 1, egid |-> 1]
      BY <2>2 DEF Init
    <3> QED
      BY <3>1, PlainAssumption
      DEF Plain, SetupInv, SetupTypes, Creds, Kept, Granted, Able, NotRefused
  <2> QED
    BY <2>1, <2>2
<1> QED
  BY <1>1, <1>2, DiscoverInitInv, DaemonInitInv, StartInductive DEF OpcInv

LEMMA OpcNextInv == OpcInv /\ [Next]_opcVars => OpcInv'
<1> SUFFICES ASSUME OpcInv, [Next]_opcVars PROVE OpcInv'
  OBVIOUS
<1>1. [DaemonNext]_daemonVars /\ [StartNext]_startVars /\ [SetupNext]_setupVars
  <2>1. CASE UNCHANGED opcVars
    BY <2>1 DEF opcVars
  <2>2. CASE Next
    BY <2>2 DEF Next
  <2> QED
    BY <2>1, <2>2
<1>2. DiscoverInv' /\ DaemonInv'
  BY <1>1, DiscoverNextInv, DaemonNextInv DEF OpcInv
<1>3. StartInv' /\ MadeInv'
  BY <1>1, StartInductive DEF OpcInv
<1>4. SetupInv'
  BY <1>1, SetupNextInv DEF OpcInv
<1> QED
  BY <1>2, <1>3, <1>4 DEF OpcInv

\* The inductive invariant holds in every behaviour of the whole.
THEOREM OpcInvariance == Spec => []OpcInv
  BY OpcInitInv, OpcNextInv, PTL DEF Spec

\* The variables of opc, of launches and of posix_setup hold values of their
\* types, whatever opc is started with and whatever is asked for.
THEOREM OpcTypes == Spec => []TypeOK
<1>1. OpcInv => TypeOK
  <2> SUFFICES ASSUME OpcInv PROVE TypeOK
    OBVIOUS
  <2>1. DaemonTypeOK
    BY InvDaemonTypeOK DEF OpcInv
  <2>2. StartTypeOK /\ SetupTypeOK
    BY InvStartTypeOK, InvSetup DEF OpcInv
  <2> QED
    BY <2>1, <2>2 DEF TypeOK
<1> QED
  BY <1>1, OpcInvariance, PTL

\* Each process has what it was meant to have under the condition on its parent:
\* opc as a daemon has its streams if it was started with its three standard ones
\* open; the children of launch, posix_launch and launch_pipeline theirs if all
\* that the contexts name is open (NamedOpen); a child its credentials if the
\* parent is privileged or has saved no other identity.  What the parent keeps
\* of its descriptors needs no condition.
THEOREM ProcessesAreAsAsked == Spec => []AsAsked
<1>1. OpcInv => AsAsked
  <2> SUFFICES ASSUME OpcInv PROVE AsAsked
    OBVIOUS
  <2>1. DaemonStreams
    BY DEF OpcInv, DaemonInv, StatusInv, StandardInv, DaemonStreams, StandardStreams, Standard, Forked
  <2>2. ChildStreams /\ ParentEnds
    BY InvChildStreams, InvParentEnds DEF OpcInv
  <2>3. Credentials /\ NotRefused
    BY InvSetup DEF OpcInv
  <2> QED
    BY <2>1, <2>2, <2>3 DEF AsAsked
<1> QED
  BY <1>1, OpcInvariance, PTL

\* The answers go to their askers in the whole too.
THEOREM OpcAnswersAskers == Spec => []AnswersAsker
<1>1. OpcInv => AnswersAsker
  BY InvAnswersAsker DEF OpcInv
<1> QED
  BY <1>1, OpcInvariance, PTL
=============================================================================
