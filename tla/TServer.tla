------------------------------- MODULE TServer -------------------------------
(***************************************************************************)
(* common/TServer with ConnectionManager, IConnectionManager and the pool  *)
(* of io_contexts: a server that accepts connections, names and starts     *)
(* them, and stops on a signal.  Each io_context of the pool has a thread, *)
(* which runs one completion handler at a time; what is asked for in turn  *)
(* (the signals, the acceptor, the resolver, a socket per connection) is   *)
(* given the io_contexts in turn, so handlers of different threads overlap.*)
(*                                                                         *)
(* A handler runs in steps, one for each use of what other threads use.    *)
(* Two threads that use mConnections, a std::set, at one time are a data   *)
(* race, after which nothing is known.  A single call on a socket or on    *)
(* the acceptor is one step.  Of TSocket there is only what reaches the    *)
(* manager: the one read under way, and its failure.                       *)
(***************************************************************************)
EXTENDS Integers, Sequences, FiniteSets

CONSTANTS
  PoolSizes,  \* the sizes of the pool that are tried
  Peers,      \* the connections that arrive, in order: [ip, port] of each
  Mappings,   \* the calls of AddMapping made before: [ip, port, name]
  PortBits,   \* the width of GetCompositeIP's result, 32 in the code
  Shared      \* shared_from_this() works: it does not, because TServer inherits
              \*   privately from enable_shared_from_this and calls it in its
              \*   constructor

ASSUME ServerAssumption ==
  /\ PoolSizes \subseteq Nat \ {0} /\ 2 ^ PortBits \in Nat \ {0}
  /\ Peers \in Seq([ip : Nat, port : 0..(2 ^ PortBits - 1)])
  /\ Shared \in BOOLEAN

VARIABLES
  pool,      \* the number of io_contexts, each with its thread
  phase,     \* "new", "built" (constructed), "running" or "stopped" (the pool)
  acceptor,  \* mAcceptor is open
  accepting, \* the number of the connection of the async_accept under way
  accepted,  \* its result: "pending", "ok", "error", or "none" without one
  signal,    \* "none", "raised", or "taken" by the handler that waited
  running,   \* io_context -> the handler that its thread runs
  conns,     \* ConnectionManager::mConnections
  clients,   \* TServer::mClients
  open,      \* the sockets that are open
  reading,   \* the sockets with a read under way
  failed,    \* the sockets whose read has failed, its handler still to run
  started,   \* the sockets that were started
  gone,      \* the peers that have left
  fault      \* "none", "bad_weak_ptr", "terminate", "race"

vars == <<pool, phase, acceptor, accepting, accepted, signal, running, conns, clients,
          open, reading, failed, started, gone, fault>>

sockets == <<open, reading, failed, started, gone>>

Connections == 1..Len(Peers)
Contexts == 0..(pool - 1)

\* GetIOContext's turn: the signals, the acceptor, the resolver, then a socket
\* for every call of DoAccept.
SignalContext == 0
AcceptorContext == 1 % pool
SocketContext(k) == (k + 2) % pool

NoHandler == [op |-> "idle", conn |-> 0, step |-> "none", todo |-> {}]
Handler(op, k, step) == [op |-> op, conn |-> k, step |-> step, todo |-> {}]

Init ==
  /\ pool \in PoolSizes /\ phase = "new"
  /\ acceptor = FALSE /\ accepting = 0 /\ accepted = "none" /\ signal = "none"
  /\ running = [c \in Contexts |-> NoHandler]
  /\ conns = {} /\ clients = <<>>
  /\ open = {} /\ reading = {} /\ failed = {} /\ started = {} /\ gone = {}
  /\ fault = "none"

Up == phase = "running" /\ fault = "none"

\* A thread takes a handler from its io_context's queue.
Idle(c) == Up /\ running[c] = NoHandler

\* A thread in its handler, before the given step.
At(c, op, step) ==
  /\ fault = "none" /\ phase \in {"running", "stopped"}
  /\ running[c].op = op /\ running[c].step = step
-----------------------------------------------------------------------------
(***************************************************************************)
(* The connection manager.                                                 *)
(***************************************************************************)

\* The address and the port in one number, of which the int32_t that is returned
\* keeps the low half.
GetCompositeIP(ip, port) == (ip * 2 ^ PortBits + port) % 2 ^ PortBits

\* Mutant: the whole composite is kept.
FindInWholeMapping(peer) ==
  LET Same(m) == m.ip = peer.ip /\ m.port = peer.port
      found == SelectSeq(Mappings, Same)
  IN IF found = <<>> THEN "" ELSE Head(found).name

\* insert keeps the first name that was added for a composite.
FindInMapping(peer) ==
  LET Same(m) == GetCompositeIP(m.ip, m.port) = GetCompositeIP(peer.ip, peer.port)
      found == SelectSeq(Mappings, Same)
  IN IF found = <<>> THEN "" ELSE Head(found).name

\* The threads that use mConnections.
Using == {c \in Contexts : running[c].step \in {"insert", "erase", "walk"}}

\* Thread c begins to use mConnections in its handler h.
Use(c, h) ==
  /\ running' = [running EXCEPT ![c] = h]
  /\ fault' = IF Using = {} THEN "none" ELSE "race"

\* TSocket::Stop: what is under way is aborted, and its handler does nothing.
Close(k) ==
  /\ open' = open \ {k}
  /\ reading' = reading \ {k}

\* Mutant: a read is started on a socket that may be closed.
StartSocketClosed(k) ==
  /\ started' = started \cup {k}
  /\ reading' = reading \cup {k} /\ UNCHANGED failed

\* TSocket::Start: a first read, which fails on a socket that is closed.
StartSocket(k) ==
  /\ started' = started \cup {k}
  /\ IF k \in open
     THEN reading' = reading \cup {k} /\ UNCHANGED failed
     ELSE failed' = failed \cup {k} /\ UNCHANGED reading
-----------------------------------------------------------------------------
(***************************************************************************)
(* The server's life, and the pool's.                                      *)
(***************************************************************************)

\* DoAccept: one async_accept, which fails at once on a closed acceptor.
DoAccept ==
  /\ accepting' = accepting + 1
  /\ accepted' = IF acceptor' THEN "pending" ELSE "error"

\* The constructor, to its end or to the exception of WaitStop.
Construct ==
  /\ phase = "new" /\ fault = "none"
  /\ IF Shared
     THEN phase' = "built" /\ acceptor' = TRUE /\ DoAccept /\ fault' = fault
     ELSE fault' = "bad_weak_ptr" /\ UNCHANGED <<phase, acceptor, accepting, accepted>>
  /\ UNCHANGED <<pool, signal, running, conns, clients, sockets>>

\* IOContextPool::Run starts a thread for each io_context.
Run ==
  /\ phase = "built"
  /\ phase' = "running"
  /\ UNCHANGED <<pool, acceptor, accepting, accepted, signal, running, conns, clients,
                 sockets, fault>>

\* IOContextPool::Stop: the threads run no more handlers.  Nothing else ends
\* their run(): the guards in work_ give each io_context work for as long as the
\* pool lives.
StopPool ==
  /\ Up
  /\ phase' = "stopped"
  /\ UNCHANGED <<pool, acceptor, accepting, accepted, signal, running, conns, clients,
                 sockets, fault>>
-----------------------------------------------------------------------------
(***************************************************************************)
(* What happens outside: peers, errors and the signal.                     *)
(***************************************************************************)

Connect ==
  /\ fault = "none" /\ accepted = "pending" /\ accepting \in Connections
  /\ \/ accepted' = "ok" /\ open' = open \cup {accepting}
     \/ accepted' = "error" /\ UNCHANGED open
  /\ UNCHANGED <<pool, phase, acceptor, accepting, signal, running, conns, clients,
                 reading, failed, started, gone, fault>>

Leave(k) ==
  /\ fault = "none" /\ k \in open \ gone
  /\ gone' = gone \cup {k}
  /\ UNCHANGED <<pool, phase, acceptor, accepting, accepted, signal, running, conns,
                 clients, open, reading, failed, started, fault>>

ReadFails(k) ==
  /\ fault = "none" /\ k \in reading \cap gone
  /\ reading' = reading \ {k}
  /\ failed' = failed \cup {k}
  /\ UNCHANGED <<pool, phase, acceptor, accepting, accepted, signal, running, conns,
                 clients, open, started, gone, fault>>

Raise ==
  /\ fault = "none" /\ phase # "new" /\ signal = "none"
  /\ signal' = "raised"
  /\ UNCHANGED <<pool, phase, acceptor, accepting, accepted, running, conns, clients,
                 sockets, fault>>
-----------------------------------------------------------------------------
(***************************************************************************)
(* The handler of async_accept, on the acceptor's thread.                  *)
(***************************************************************************)

\* Mutant: a connection is started although the acceptor was closed.
AcceptBeginUnchecked ==
  LET c == AcceptorContext IN
  /\ Idle(c) /\ accepted = "ok"
  /\ running' = [running EXCEPT ![c] = Handler("accept", accepting, "name")]
  /\ accepted' = "none"
  /\ UNCHANGED <<pool, phase, acceptor, accepting, signal, conns, clients, sockets, fault>>

\* It returns if the acceptor is closed, and its socket, which nobody else
\* owns, goes with it; on an error another connection is waited for.
AcceptBegin ==
  LET c == AcceptorContext IN
  /\ Idle(c) /\ accepted \in {"ok", "error"}
  /\ \/ /\ ~acceptor
        /\ accepted' = "none" /\ open' = open \ {accepting}
        /\ UNCHANGED <<running, acceptor, accepting>>
     \/ /\ acceptor /\ accepted = "error"
        /\ UNCHANGED <<running, acceptor, open>> /\ DoAccept
     \/ /\ acceptor /\ accepted = "ok"
        /\ running' = [running EXCEPT ![c] = Handler("accept", accepting, "name")]
        /\ accepted' = "none"
        /\ UNCHANGED <<acceptor, accepting, open>>
  /\ UNCHANGED <<pool, phase, signal, conns, clients, reading, failed, started, gone, fault>>

\* std::map::insert does not replace what a key has.
Insert(map, name, k) ==
  [n \in DOMAIN map \cup {name} |-> IF n \in DOMAIN map THEN map[n] ELSE k]

\* remote_endpoint() throws if the peer has left, and nothing catches it.
AcceptName(c) ==
  /\ At(c, "accept", "name")
  /\ LET k == running[c].conn IN
     \/ /\ k \in gone
        /\ fault' = "terminate" /\ UNCHANGED <<clients, running>>
     \/ /\ clients' = Insert(clients, FindInMapping(Peers[k]), k)
        /\ Use(c, Handler("accept", k, "insert"))
  /\ UNCHANGED <<pool, phase, acceptor, accepting, accepted, signal, conns, sockets>>

\* ConnectionManager::Start, first half.
AcceptInsert(c) ==
  /\ At(c, "accept", "insert")
  /\ conns' = conns \cup {running[c].conn}
  /\ running' = [running EXCEPT ![c].step = "start"]
  /\ UNCHANGED <<pool, phase, acceptor, accepting, accepted, signal, clients, sockets, fault>>

\* Its second half, and DoAccept.
AcceptStart(c) ==
  /\ At(c, "accept", "start")
  /\ StartSocket(running[c].conn)
  /\ UNCHANGED acceptor /\ DoAccept
  /\ running' = [running EXCEPT ![c] = NoHandler]
  /\ UNCHANGED <<pool, phase, signal, conns, clients, open, gone, fault>>
-----------------------------------------------------------------------------
(***************************************************************************)
(* The handler of a read that failed, on the socket's thread: it calls     *)
(* ConnectionManager::Stop, which erases the connection and closes it.     *)
(***************************************************************************)

FailBegin(k) ==
  LET c == SocketContext(k) IN
  /\ Idle(c) /\ k \in failed
  /\ failed' = failed \ {k}
  /\ Use(c, Handler("fail", k, "erase"))
  /\ UNCHANGED <<pool, phase, acceptor, accepting, accepted, signal, conns, clients, open,
                 reading, started, gone>>

FailErase(c) ==
  /\ At(c, "fail", "erase")
  /\ conns' = conns \ {running[c].conn}
  /\ running' = [running EXCEPT ![c].step = "close"]
  /\ UNCHANGED <<pool, phase, acceptor, accepting, accepted, signal, clients, sockets, fault>>

FailClose(c) ==
  /\ At(c, "fail", "close")
  /\ Close(running[c].conn)
  /\ running' = [running EXCEPT ![c] = NoHandler]
  /\ UNCHANGED <<pool, phase, acceptor, accepting, accepted, signal, conns, clients,
                 failed, started, gone, fault>>
-----------------------------------------------------------------------------
(***************************************************************************)
(* The handler of the signal, on its own thread: it closes the acceptor    *)
(* and calls ConnectionManager::StopAll.                                   *)
(***************************************************************************)

\* Mutant: the accept under way is not cancelled.
StopBeginPending ==
  LET c == SignalContext IN
  /\ Idle(c) /\ signal = "raised"
  /\ signal' = "taken"
  /\ acceptor' = FALSE
  /\ running' = [running EXCEPT ![c] = Handler("stop", 0, "all")]
  /\ UNCHANGED <<pool, phase, accepting, accepted, conns, clients, sockets, fault>>

StopBegin ==
  LET c == SignalContext IN
  /\ Idle(c) /\ signal = "raised"
  /\ signal' = "taken"
  /\ acceptor' = FALSE
  /\ accepted' = IF accepted = "pending" THEN "error" ELSE accepted
  /\ running' = [running EXCEPT ![c] = Handler("stop", 0, "all")]
  /\ UNCHANGED <<pool, phase, accepting, conns, clients, sockets, fault>>

\* The loop begins: the set is in use until it is cleared.
StopAllBegin(c) ==
  /\ At(c, "stop", "all")
  /\ Use(c, [Handler("stop", 0, "walk") EXCEPT !.todo = conns])
  /\ UNCHANGED <<pool, phase, acceptor, accepting, accepted, signal, conns, clients, sockets>>

StopOne(c) ==
  /\ At(c, "stop", "walk")
  /\ \E k \in running[c].todo :
       /\ Close(k)
       /\ running' = [running EXCEPT ![c].todo = @ \ {k}]
  /\ UNCHANGED <<pool, phase, acceptor, accepting, accepted, signal, conns, clients, failed,
                 started, gone, fault>>

\* Mutant: the set is cleared without stopping its members.
StopAllClears(c) ==
  /\ At(c, "stop", "walk")
  /\ conns' = {}
  /\ running' = [running EXCEPT ![c] = NoHandler]
  /\ UNCHANGED <<pool, phase, acceptor, accepting, accepted, signal, clients, sockets, fault>>

StopAllEnd(c) ==
  /\ At(c, "stop", "walk") /\ running[c].todo = {}
  /\ conns' = {}
  /\ running' = [running EXCEPT ![c] = NoHandler]
  /\ UNCHANGED <<pool, phase, acceptor, accepting, accepted, signal, clients, sockets, fault>>
-----------------------------------------------------------------------------
Begin == AcceptBegin \/ StopBegin \/ \E k \in Connections : FailBegin(k)

Step(c) ==
  \/ AcceptName(c) \/ AcceptInsert(c) \/ AcceptStart(c)
  \/ FailErase(c) \/ FailClose(c)
  \/ StopAllBegin(c) \/ StopOne(c) \/ StopAllEnd(c)

Next ==
  \/ Construct \/ Run \/ StopPool
  \/ Connect \/ Raise
  \/ \E k \in Connections : Leave(k) \/ ReadFails(k)
  \/ Begin
  \/ \E c \in Contexts : Step(c)

Spec == Init /\ [][Next]_vars

\* The program constructs the server and runs the pool; threads go on with their
\* handlers and take what is queued for them.
FairSpec ==
  /\ Spec
  /\ WF_vars(Construct) /\ WF_vars(Run)
  /\ WF_vars(AcceptBegin) /\ SF_vars(StopBegin)
  /\ WF_vars(\E c \in Contexts : Step(c))
-----------------------------------------------------------------------------
(***************************************************************************)
(* What must hold.                                                         *)
(***************************************************************************)

\* The variables hold values of their types (the members of TServer and of
\* ConnectionManager); a socket whose read is under way is open and was started.
TypeOK ==
  /\ pool \in PoolSizes /\ phase \in {"new", "built", "running", "stopped"}
  /\ acceptor \in BOOLEAN /\ accepting \in 0..(Len(Peers) + 1)
  /\ accepted \in {"none", "pending", "ok", "error"}
  /\ signal \in {"none", "raised", "taken"}
  /\ DOMAIN running = Contexts
  /\ conns \subseteq Connections
  /\ \A name \in DOMAIN clients : clients[name] \in Connections
  /\ open \subseteq Connections /\ gone \subseteq Connections /\ started \subseteq Connections
  /\ reading \subseteq open \cap started /\ failed \subseteq started \ reading
  /\ fault \in {"none", "bad_weak_ptr", "terminate", "race"}

\* A connection that was started and is open can be stopped: it is in
\* mConnections, or the handler that erased it is about to close it (Start, Stop
\* and StopAll on several threads).
Managed ==
  fault = "none" =>
    \A k \in open \cap started :
      \/ k \in conns
      \/ \E c \in Contexts : At(c, "fail", "close") /\ running[c].conn = k

\* The handler of the signal has run to its end.
SignalHandled ==
  fault = "none" /\ signal = "taken" /\ \A c \in Contexts : running[c].op # "stop"

\* After the signal was handled no connection with a peer is left open or is
\* started any more, if one thread runs everything.  With more threads one may
\* be: that of the accept handler that found the acceptor open (TServer.cpp:57).
Survivors ==
  SignalHandled => Cardinality((open \cap started) \ gone) <= IF pool = 1 THEN 0 ELSE 1

\* Send reaches at most one of the connections that come from one port, even
\* from different addresses, for ever the first of them: GetCompositeIP loses
\* the address, and insert does not replace what mClients has.
ReachableByPort ==
  /\ \A m, n \in DOMAIN clients :
       Peers[clients[m]].port = Peers[clients[n]].port => m = n
  /\ \A n \in DOMAIN clients : \A k \in started :
       Peers[k].port = Peers[clients[n]].port => clients[n] <= k

\* A signal ends accepting, unless the program fails or the pool is stopped: the
\* acceptor is closed and no accept is under way or completed for good, and the
\* handlers of the accept and of the signal have come to their ends, whichever of
\* them began first and wherever the other then was.
StopCloses ==
  (signal = "raised" /\ phase = "running") ~>
    \/ fault # "none" \/ phase = "stopped"
    \/ [](/\ ~acceptor /\ accepted = "none"
          /\ \A c \in Contexts : running[c].op \notin {"accept", "stop"})

\* TServer.cpp says in WaitStop that the server is stopped by cancelling all
\* outstanding asynchronous operations: when that handler has run no read is
\* under way.
OperationsCancelled == SignalHandled => reading = {}

\* TServer.h says that the acceptor is used to listen for incoming connections:
\* it is opened some day.
Listens == <>acceptor
=============================================================================
