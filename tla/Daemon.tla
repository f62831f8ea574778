------------------------------- MODULE Daemon -------------------------------
(***************************************************************************)
(* opc/main.cpp, common/MSocket and ops/sender.cpp: how opc becomes a      *)
(* daemon, and what it does with the datagrams of its multicast group.     *)
(*                                                                         *)
(* main runs in one process after another: each fork's parent exits.  The  *)
(* table of descriptors is the one of the process that goes on.  What boost*)
(* opens for itself is one descriptor, reactor; it and MSocket know theirs *)
(* by number only.  The signals before io_context.run() are left out.      *)
(*                                                                         *)
(* main never calls SetMessageHandler and no code inserts into             *)
(* mOrganizations; a MSocket with a handler is modelled too.               *)
(***************************************************************************)
EXTENDS Integers, Sequences, Descriptors

CONSTANTS
  Opens,        \* the sets of descriptors that opc may be started with
  Senders,      \* who sends to the group, ops (sender.cpp) aside
  MaxMessages,  \* sender.cpp: max_message_count
  MaxDatagrams  \* bound: the datagrams that arrive

ASSUME SendersAssumption ==
  "ops" \notin Senders /\ MaxMessages \in Nat \ {0} /\ MaxDatagrams \in Nat

VARIABLES
  given,     \* the descriptors that opc was started with
  table,     \* the descriptors of the process that runs main
  reactor,   \* boost's descriptor, or -1
  socket,    \* MSocket's descriptor, or -1
  main,      \* what main does next
  session,   \* the process's place in its session
  statuses,  \* how the processes that ran main end, in the order they ran it
  handler,   \* SetMessageHandler was called
  queue,     \* the datagrams that the socket has
  arrived,   \* how many it was given
  receiver,  \* where MSocket is between two calls of DoReceive
  datagram,  \* the last one received
  endpoint,  \* mSenderEndpoint
  outgoing,  \* the answers that async_send_to has yet to send
  answers,   \* those sent
  reaper,    \* SIGCHLD is waited for
  sender     \* sender.cpp: message_count_ and whether its timer runs

processVars == <<given, table, reactor, socket, main, session, statuses>>
discoverVars == <<handler, queue, arrived, receiver, datagram, endpoint, outgoing, answers, reaper>>
daemonVars == <<processVars, discoverVars, sender>>

Group == "group"

\* A datagram, cut to the size of a Discover if it is longer.
Magic == {-1, 0, 1}
Datagram(from, whole, magic, n) == [from |-> from, whole |-> whole, magic |-> magic, n |-> n]

DaemonInit ==
  /\ given \in Opens /\ table = Table(given) /\ reactor = -1 /\ socket = -1
  /\ main = "options" /\ session = "shell" /\ statuses = <<>>
  /\ handler \in BOOLEAN /\ queue = <<>> /\ arrived = 0
  /\ receiver = "off" /\ datagram = Datagram(Group, FALSE, 0, 0) /\ endpoint = Group
  /\ outgoing = <<>> /\ answers = <<>> /\ reaper = FALSE
  /\ sender = [count |-> 0, timer |-> FALSE]

\* The process that runs main returns or exits with a status.
End(status) == main' = "over" /\ statuses' = Append(statuses, status)

Goes(step) == main' = step /\ UNCHANGED statuses
-----------------------------------------------------------------------------
(***************************************************************************)
(* Becoming a daemon.                                                      *)
(***************************************************************************)

\* help, or an option that is missing.
Options ==
  /\ main = "options"
  /\ Goes("socket") \/ End(0) \/ End(-1)
  /\ UNCHANGED <<given, table, reactor, socket, session, discoverVars, sender>>

\* An address, a socket or the resolver throws, and main returns 0.
SetUpThrows ==
  /\ main = "socket" /\ End(0)
  /\ UNCHANGED <<given, table, reactor, socket, session, discoverVars, sender>>

\* MSocket opens and binds its socket, joins and receives; the signals are
\* waited for; and SysLogger connects.
SetUpSocket ==
  /\ main = "socket"
  /\ LET withReactor == Opened(table, <<"reactor", 0>>)
         withSocket == Opened(withReactor, <<"socket", 0>>)
     IN /\ ~IsFull(table) /\ ~IsFull(withReactor) /\ ~IsFull(withSocket)
        /\ reactor' = Lowest(table) /\ socket' = Lowest(withReactor)
        /\ table' = Opened(withSocket, <<"syslog", 0>>)
  /\ receiver' = "armed" /\ reaper' = TRUE /\ Goes("fork")
  /\ UNCHANGED <<given, session, handler, queue, arrived, datagram, endpoint, outgoing, answers, sender>>

\* The first fork: the parent exits and the child leads a session of its own.
\* The second: the child leads none.  Or fork fails.
ForkAway ==
  /\ main = "fork"
  /\ \/ /\ main' = IF session = "shell" THEN "fork" ELSE "close"
        /\ session' = IF session = "shell" THEN "leader" ELSE "member"
        /\ statuses' = Append(statuses, 0)
     \/ End(1) /\ UNCHANGED session
  /\ UNCHANGED <<given, table, reactor, socket, discoverVars, sender>>

\* Mutant: standard error is not closed.
CloseTwo ==
  /\ main = "close" /\ table' = Closed(Closed(table, 0), 1) /\ Goes("null")
  /\ UNCHANGED <<given, reactor, socket, session, discoverVars, sender>>

CloseStandard ==
  /\ main = "close" /\ table' = Closed(Closed(Closed(table, 0), 1), 2) /\ Goes("null")
  /\ UNCHANGED <<given, reactor, socket, session, discoverVars, sender>>

\* open of /dev/null and then of the log file, and dup(1); each may fail.
OpenStandard ==
  /\ main \in {"null", "log", "dup"}
  /\ \/ /\ ~IsFull(table)
        /\ table' = Opened(table, IF main = "dup" THEN table[1] ELSE <<main, 0>>)
        /\ Goes(CASE main = "null" -> "log" [] main = "log" -> "dup" [] main = "dup" -> "notify")
     \/ End(1) /\ UNCHANGED table
  /\ UNCHANGED <<given, reactor, socket, session, discoverVars, sender>>

\* io_context.notify_fork(fork_child): boost replaces its descriptor.
NotifyFork ==
  /\ main = "notify"
  /\ reactor' = Lowest(Closed(table, reactor))
  /\ table' = Opened(Closed(table, reactor), <<"reactor", 0>>)
  /\ Goes("run")
  /\ UNCHANGED <<given, socket, session, discoverVars, sender>>

Daemonise ==
  Options \/ SetUpThrows \/ SetUpSocket \/ ForkAway \/ CloseStandard \/ OpenStandard \/ NotifyFork
-----------------------------------------------------------------------------
(***************************************************************************)
(* io_context.run(): the signals, and MSocket.                             *)
(***************************************************************************)

\* SIGINT or SIGTERM: io_context.stop(), after which main returns.
StopSignal ==
  /\ main = "run" /\ End(0)
  /\ UNCHANGED <<given, table, reactor, socket, session, discoverVars, sender>>

\* SIGCHLD, for the first time: WaitOrganizationExit finds no child, and an
\* erase would find no organization.  The signal is not waited for again.
WaitOrganizationExit ==
  /\ main = "run" /\ reaper
  /\ reaper' = FALSE
  /\ UNCHANGED <<processVars, handler, queue, arrived, receiver, datagram, endpoint, outgoing, answers, sender>>

\* A datagram comes, from anyone who sends to the group.
Enqueue(from, whole, magic) ==
  /\ socket # -1 /\ main # "over" /\ arrived < MaxDatagrams
  /\ arrived' = arrived + 1
  /\ queue' = Append(queue, Datagram(from, whole, magic, arrived + 1))

Arrive ==
  /\ \E from \in Senders, magic \in Magic : Enqueue(from, TRUE, magic)
  /\ UNCHANGED <<processVars, handler, receiver, datagram, endpoint, outgoing, answers, reaper, sender>>

\* The reactor reads a datagram for DoReceive, into mSenderEndpoint and the
\* stack that was DoReceive's; or the socket has an error.
Receive ==
  /\ main = "run" /\ receiver = "armed"
  /\ \/ /\ queue # <<>>
        /\ datagram' = Head(queue) /\ endpoint' = Head(queue).from /\ queue' = Tail(queue)
        /\ receiver' = "received"
     \/ receiver' = "failed" /\ UNCHANGED <<queue, datagram, endpoint>>
  /\ UNCHANGED <<processVars, handler, arrived, outgoing, answers, reaper, sender>>

\* FindOrganization::FiltOut, on what the stack holds by now.
FiltOut(magic) == magic < 0

\* FindOrganization::OnMessage: an answer is sent to mSenderEndpoint.
OnMessage ==
  outgoing' = Append(outgoing, [to |-> endpoint, asker |-> datagram.from, n |-> datagram.n])

\* The handler of DoReceive, up to its call of DoReceive.  Without a message
\* handler a Discover ends the program.
Received ==
  /\ main = "run" /\ receiver = "received"
  /\ \/ /\ datagram.whole /\ ~handler
        /\ End(-1) /\ UNCHANGED <<receiver, outgoing>>
     \/ /\ datagram.whole /\ handler
        /\ \E magic \in Magic : IF FiltOut(magic) THEN UNCHANGED outgoing ELSE OnMessage
        /\ receiver' = "handled" /\ UNCHANGED <<main, statuses>>
     \/ /\ ~datagram.whole
        /\ receiver' = "handled" /\ UNCHANGED <<main, statuses, outgoing>>
  /\ UNCHANGED <<given, table, reactor, socket, session, handler, queue, arrived, datagram, endpoint,
                 answers, reaper, sender>>

\* The handler's end: DoReceive, unless there was an error.
DoReceive ==
  /\ main = "run" /\ receiver \in {"handled", "failed"}
  /\ receiver' = IF receiver = "handled" THEN "armed" ELSE "off"
  /\ UNCHANGED <<processVars, handler, queue, arrived, datagram, endpoint, outgoing, answers, reaper, sender>>

\* Mutant: an answer is sent to where mSenderEndpoint then is.
TransferToEndpoint ==
  /\ main = "run" /\ outgoing # <<>>
  /\ answers' = Append(answers, [Head(outgoing) EXCEPT !.to = endpoint])
  /\ outgoing' = Tail(outgoing)
  /\ UNCHANGED <<processVars, handler, queue, arrived, receiver, datagram, endpoint, reaper, sender>>

\* async_send_to has the endpoint of its call; it may have to wait until the
\* socket takes the datagram, and may fail.
Transfer ==
  /\ main = "run" /\ outgoing # <<>>
  /\ answers' = Append(answers, Head(outgoing)) \/ UNCHANGED answers
  /\ outgoing' = Tail(outgoing)
  /\ UNCHANGED <<processVars, handler, queue, arrived, receiver, datagram, endpoint, reaper, sender>>

\* Mutant: one message more than max_message_count.
DoSendOneMore ==
  /\ sender.count = 0 \/ sender.timer
  /\ \E ok \in BOOLEAN :
       sender' = [count |-> sender.count + 1, timer |-> ok /\ sender.count < MaxMessages]
  /\ Enqueue("ops", FALSE, 0) \/ UNCHANGED <<queue, arrived>>
  /\ UNCHANGED <<processVars, handler, receiver, datagram, endpoint, outgoing, answers, reaper>>

\* sender::do_send, which the constructor and the timer call: a short text.
\* It may be lost; after an error, or the last one, no timer is started.
DoSend ==
  /\ sender.count = 0 \/ sender.timer
  /\ \E ok \in BOOLEAN :
       sender' = [count |-> sender.count + 1, timer |-> ok /\ sender.count + 1 < MaxMessages]
  /\ Enqueue("ops", FALSE, 0) \/ UNCHANGED <<queue, arrived>>
  /\ UNCHANGED <<processVars, handler, receiver, datagram, endpoint, outgoing, answers, reaper>>

Serve == StopSignal \/ WaitOrganizationExit \/ Receive \/ Received \/ DoReceive \/ Transfer

DaemonNext == Daemonise \/ Serve \/ Arrive \/ DoSend

DaemonSpec == DaemonInit /\ [][DaemonNext]_daemonVars
-----------------------------------------------------------------------------
(***************************************************************************)
(* What must hold.                                                         *)
(***************************************************************************)

\* The daemon has no standard input, and sends its standard output and standard
\* error to the log.  Not so if opc was started without some of its standard
\* streams: its own descriptors are in their places.
StandardStreams ==
  main = "run" =>
    table[0] = <<"null", 0>> /\ table[1] = <<"log", 0>> /\ table[2] = <<"log", 0>>

\* If it was started with all three the daemon has these, still has its socket
\* and boost's descriptor, and leads no session: it can have no terminal.  The
\* two processes before it exited with 0.
DaemonStreams ==
  {0, 1, 2} \subseteq given =>
    /\ StandardStreams
    /\ main = "run" =>
         /\ table[socket] = <<"socket", 0>> /\ table[reactor] = <<"reactor", 0>>
         /\ session = "member" /\ statuses = <<0, 0>>

\* An answer goes to the one whose datagram it answers, whatever arrived in
\* between, and no datagram is answered twice, nor the short ones of ops.
AnswersAsker ==
  \A i \in DOMAIN answers :
    /\ answers[i].to = answers[i].asker /\ answers[i].asker # "ops"
    /\ \A j \in DOMAIN answers : answers[i].n = answers[j].n => i = j

\* The variables hold values of their types.
DaemonTypeOK ==
  LET what == {Free} \cup {Own(d) : d \in Desc}
              \cup ({"reactor", "socket", "syslog", "null", "log"} \X {0})
  IN /\ \A d \in Desc : table[d] \in what
     /\ reactor \in {-1} \cup Desc /\ socket \in {-1} \cup Desc
     /\ main \in {"options", "socket", "fork", "close", "null", "log", "dup", "notify", "run", "over"}
     /\ session \in {"shell", "leader", "member"} /\ Len(statuses) <= 3
     /\ receiver \in {"off", "armed", "received", "failed", "handled"}
     /\ Len(queue) <= arrived /\ arrived <= MaxDatagrams
     /\ endpoint \in {Group, "ops"} \cup Senders
     /\ sender.count \in 0..MaxMessages
=============================================================================
