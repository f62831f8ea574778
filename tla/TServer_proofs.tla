---------------------------- MODULE TServer_proofs ----------------------------
(***************************************************************************)
(* Proofs about the server and its set of connections, for a pool of any   *)
(* size, any peers and any calls of AddMapping.                            *)
(***************************************************************************)
EXTENDS TServer, TLAPS, FiniteSetTheorems

HandlerSet ==
  [op : {"idle", "accept", "fail", "stop"}, conn : 0..Len(Peers),
   step : {"none", "name", "insert", "start", "erase", "close", "all", "walk"},
   todo : SUBSET Connections]

HandlersOK == running \in [Contexts -> HandlerSet]

\* A handler is on the thread of its io_context, once the pool runs: the
\* acceptor's with the connection that was accepted last, the signal's, or that
\* of a socket that was started and whose peer has left if it is still open.
PlacedAt(c) ==
  running[c] # NoHandler =>
    /\ phase \in {"running", "stopped"}
    /\ \/ /\ running[c].op = "accept" /\ c = AcceptorContext
          /\ running[c].conn = accepting /\ accepting \in Connections /\ accepted = "none"
          /\ running[c].step \in {"name", "insert", "start"}
       \/ /\ running[c].op = "fail" /\ running[c].step \in {"erase", "close"}
          /\ running[c].conn \in started
          /\ running[c].conn \in open => running[c].conn \in gone
       \/ /\ running[c].op = "stop" /\ running[c].step \in {"all", "walk"}
          /\ c = SignalContext /\ signal = "taken"

Placed == \A c \in Contexts : PlacedAt(c)

\* Connections are numbered as they are accepted; the last one is not started
\* before its handler has ended, nor is it managed before.
Numbered ==
  /\ accepting \in Nat
  /\ phase = "new" => accepting = 0 /\ accepted = "none" /\ signal = "none"
  /\ accepted = "ok" => accepting \in Connections
  /\ acceptor /\ accepted = "error" => accepting \in Connections
  /\ \A k \in started : k < accepting
  /\ \A k \in open \cup conns : k <= accepting
  /\ accepted # "none" => accepting \notin conns

\* A socket that failed and is open has lost its peer.
Failing == \A k \in failed \cap open : k \in gone

\* After the signal was handled nothing is accepted.
Stopping == signal = "taken" => ~acceptor /\ accepted # "pending"

\* One thread at most uses mConnections.
Exclusive == \A c, d \in Using : c = d

\* While the connections are stopped, those still open are still to be stopped.
Walking ==
  \A c \in Contexts : running[c].step = "walk" => conns \cap open \subseteq running[c].todo

\* A connection that is about to be started is managed, or was stopped.
Starting ==
  \A c \in Contexts :
    running[c].step = "start" /\ running[c].conn \in open => running[c].conn \in conns

\* The connections with a peer, and the one that the accept handler may start.
Alive ==
  ((open \cap started) \ gone)
    \cup {running[c].conn : c \in {d \in Contexts : running[d].op = "accept"}}

\* What outlives the signal is one of them, and with one thread none.
Outliving ==
  signal = "taken" /\ (\A c \in Contexts : running[c].op # "stop") =>
    /\ \A j, k \in Alive : j = k
    /\ pool = 1 => Alive = {}

\* The connections that have been through FindInMapping.
Known ==
  started \cup {running[c].conn : c \in {d \in Contexts : running[d].step \in {"insert", "start"}}}

NameOf(k) == FindInMapping(Peers[k])

\* Each of them has its name in mClients, with the first connection of that name.
Named ==
  /\ \A n \in DOMAIN clients : clients[n] <= accepting /\ NameOf(clients[n]) = n
  /\ \A k \in Known : NameOf(k) \in DOMAIN clients /\ clients[NameOf(k)] <= k

SafeInv ==
  fault = "none" =>
    Exclusive /\ Walking /\ Starting /\ Managed /\ Outliving

IInv == TypeOK /\ HandlersOK /\ Placed /\ Numbered /\ Failing /\ Stopping /\ Named /\ SafeInv

LEMMA ContextFacts ==
  ASSUME pool \in PoolSizes
  PROVE  /\ pool \in Nat \ {0} /\ SignalContext \in Contexts /\ AcceptorContext \in Contexts
         /\ \A k \in Connections : SocketContext(k) \in Contexts
         /\ pool = 1 => AcceptorContext = SignalContext
         /\ pool = 1 => \A c, d \in Contexts : c = d
         /\ Len(Peers) \in Nat /\ \A k \in Connections : k \in Nat
<1>1. pool \in Nat \ {0}
  BY ServerAssumption DEF ServerAssumption
<1>2. Len(Peers) \in Nat
  BY ServerAssumption DEF ServerAssumption
<1>3. \A n \in Nat : n % pool \in 0..(pool - 1)
  BY <1>1
<1>4. SignalContext \in Contexts /\ AcceptorContext \in Contexts
  BY <1>1, <1>3 DEF Contexts, SignalContext, AcceptorContext
<1>5. \A k \in Connections : SocketContext(k) \in Contexts
  BY <1>2, <1>3 DEF Connections, Contexts, SocketContext
<1>6. pool = 1 => \A c, d \in Contexts : c = d
  BY DEF Contexts
<1> QED
  BY <1>1, <1>2, <1>4, <1>5, <1>6 DEF Connections

\* One part of a thread's handler changes, or all of it.
LEMMA HandlerSteps ==
  ASSUME HandlersOK, NEW c \in Contexts,
         NEW s \in {"none", "name", "insert", "start", "erase", "close", "all", "walk"},
         running' = [running EXCEPT ![c].step = s], pool' = pool
  PROVE  /\ HandlersOK'
         /\ running'[c].step = s /\ running'[c].op = running[c].op
         /\ running'[c].conn = running[c].conn /\ running'[c].todo = running[c].todo
         /\ \A d \in Contexts : d # c => running'[d] = running[d]
  BY DEF HandlersOK, HandlerSet, Contexts

LEMMA HandlerWalks ==
  ASSUME HandlersOK, NEW c \in Contexts, NEW k,
         running' = [running EXCEPT ![c].todo = @ \ {k}], pool' = pool
  PROVE  /\ HandlersOK'
         /\ running'[c].step = running[c].step /\ running'[c].op = running[c].op
         /\ running'[c].conn = running[c].conn /\ running'[c].todo = running[c].todo \ {k}
         /\ \A d \in Contexts : d # c => running'[d] = running[d]
  BY DEF HandlersOK, HandlerSet, Contexts

LEMMA HandlerSet1 ==
  ASSUME HandlersOK, NEW c \in Contexts, NEW h \in HandlerSet,
         running' = [running EXCEPT ![c] = h], pool' = pool
  PROVE  HandlersOK' /\ running'[c] = h /\ \A d \in Contexts : d # c => running'[d] = running[d]
  BY DEF HandlersOK, Contexts, HandlerSet

\* What a thread is doing tells the step that it is at.
LEMMA StepOf ==
  ASSUME Placed, HandlersOK, NEW c \in Contexts
  PROVE  /\ running[c].op = "accept" <=> running[c].step \in {"name", "insert", "start"}
         /\ running[c].op = "fail" <=> running[c].step \in {"erase", "close"}
         /\ running[c].op = "stop" <=> running[c].step \in {"all", "walk"}
         /\ running[c].op = "idle" <=> running[c] = NoHandler
         /\ running[c].op # "idle" => phase \in {"running", "stopped"}
         /\ running[c].op = "accept" =>
              /\ c = AcceptorContext /\ running[c].conn = accepting
              /\ accepting \in Connections /\ accepted = "none"
         /\ running[c].op = "stop" => c = SignalContext /\ signal = "taken"
         /\ running[c].op = "fail" =>
              running[c].conn \in started /\ (running[c].conn \in open => running[c].conn \in gone)
  BY DEF Placed, PlacedAt, NoHandler, HandlersOK, HandlerSet

LEMMA Frame ==
  ASSUME pool' = pool
  PROVE  Contexts' = Contexts /\ AcceptorContext' = AcceptorContext /\ SignalContext' = SignalContext
  BY DEF Contexts, AcceptorContext, SignalContext

LEMMA ConnectKeeps == ASSUME IInv, Connect PROVE IInv'
<1> USE DEF IInv
<1>0. /\ Contexts' = Contexts /\ AcceptorContext' = AcceptorContext /\ SignalContext' = SignalContext
      /\ UNCHANGED <<pool, phase, acceptor, accepting, signal, running, conns, clients,
                     reading, failed, started, gone, fault>>
      /\ accepted = "pending" /\ accepting \in Connections
      /\ accepted' \in {"ok", "error"} /\ open \subseteq open' /\ open' \subseteq open \cup {accepting}
      /\ accepted' = "ok" \/ open' = open
  BY Frame DEF Connect
<1>a. accepting \notin started /\ accepting \notin conns /\ accepting \in Nat
  BY <1>0 DEF Numbered, TypeOK
<1>1. TypeOK'
  BY <1>0 DEF TypeOK
<1>2. HandlersOK'
  BY <1>0 DEF HandlersOK
<1>3. Placed'
  BY <1>0, <1>a DEF Placed, PlacedAt
<1>4. Numbered'
  BY <1>0 DEF Numbered
<1>5. Failing'
  BY <1>0 DEF Failing, Numbered, TypeOK
<1>6. Stopping'
  BY <1>0 DEF Stopping
<1>7. Named'
  BY <1>0 DEF Named, Known, NameOf
<1>8. SafeInv'
  <2>1. (open \cap started)' = open \cap started
    BY <1>0, <1>a
  <2>2. (conns \cap open)' = conns \cap open
    BY <1>0, <1>a
  <2>3. ASSUME fault = "none" PROVE Exclusive' /\ Walking' /\ Starting' /\ Managed' /\ Outliving'
    <3>0. Exclusive /\ Walking /\ Starting /\ Managed /\ Outliving
      BY <2>3 DEF SafeInv
    <3>1. Exclusive'
      BY <3>0, <1>0 DEF Exclusive, Using
    <3>2. Walking'
      BY <3>0, <2>2, <1>0 DEF Walking
    <3>3. Starting'
      BY <1>0, StepOf DEF Starting
    <3>4. Managed'
      BY <3>0, <2>1, <1>0, <2>3 DEF Managed, At
    <3>5. Outliving'
      BY <3>0, <2>1, <1>0 DEF Outliving, Alive
    <3> QED
      BY <3>1, <3>2, <3>3, <3>4, <3>5
  <2> QED
    BY <2>3, <1>0 DEF SafeInv
<1> QED
  BY <1>1, <1>2, <1>3, <1>4, <1>5, <1>6, <1>7, <1>8

\* A step that starts nothing and lets no thread go on keeps what is safe.
LEMMA StillSafe ==
  ASSUME IInv, UNCHANGED <<pool, running, conns, started>>, fault' = fault \/ fault' # "none",
         open' \subseteq open, gone \subseteq gone', signal' = "taken" => signal = "taken",
         phase \in {"running", "stopped"} => phase' \in {"running", "stopped"}
  PROVE  SafeInv'
<1>0. Contexts' = Contexts
  BY Frame
<1> SUFFICES ASSUME fault' = "none", fault = "none"
             PROVE  Exclusive' /\ Walking' /\ Starting' /\ Managed' /\ Outliving'
  BY DEF SafeInv
<1>1. Exclusive /\ Walking /\ Starting /\ Managed /\ Outliving
  BY DEF IInv, SafeInv
<1>2. Exclusive'
  BY <1>0, <1>1 DEF Exclusive, Using
<1>3. Walking'
  BY <1>0, <1>1 DEF Walking
<1>4. Starting'
  BY <1>0, <1>1 DEF Starting
<1>5. Managed'
  BY <1>0, <1>1 DEF Managed, At
<1>6. Outliving'
  BY <1>0, <1>1 DEF Outliving, Alive
<1> QED
  BY <1>2, <1>3, <1>4, <1>5, <1>6

LEMMA ConstructKeeps == ASSUME IInv, Construct PROVE IInv'
<1>0. /\ Contexts' = Contexts /\ AcceptorContext' = AcceptorContext /\ SignalContext' = SignalContext
      /\ UNCHANGED <<pool, signal, running, conns, clients, open, reading, failed, started, gone>>
      /\ phase = "new" /\ fault = "none"
      /\ \/ /\ phase' = "built" /\ accepting' = accepting + 1 /\ acceptor' = TRUE
            /\ accepted' = "pending" /\ fault' = fault
         \/ fault' = "bad_weak_ptr" /\ UNCHANGED <<phase, acceptor, accepting, accepted>>
  BY Frame DEF Construct, DoAccept, sockets
<1>1. accepting = 0 /\ signal = "none" /\ \A c \in Contexts : running[c] = NoHandler
  BY <1>0 DEF IInv, Numbered, Placed, PlacedAt
<1>2. conns = {} /\ open = {} /\ started = {}
  <2>1. \A k \in Connections : ~(k <= accepting)
    BY <1>1, ContextFacts DEF Connections
  <2> QED
    <3>1. \A k \in Connections : ~(k < accepting)
      BY <1>1, ContextFacts DEF Connections
    <3> QED
      BY <2>1, <3>1 DEF IInv, Numbered, TypeOK
<1>3. Len(Peers) \in Nat
  BY ContextFacts DEF IInv, TypeOK
<1>4. TypeOK'
  <2>1. acceptor' \in BOOLEAN
    BY <1>0 DEF IInv, TypeOK
  <2>2. accepting' \in 0..(Len(Peers) + 1)
    BY <1>0, <1>1, <1>3 DEF IInv, TypeOK
  <2> QED
    BY <1>0, <2>1, <2>2 DEF IInv, TypeOK
<1>5. HandlersOK'
  BY <1>0 DEF IInv, HandlersOK
<1>6. Placed'
  BY <1>0, <1>1 DEF IInv, Placed, PlacedAt
<1>7. Numbered'
  <2>1. \A k \in started : k < accepting + 1
    BY <1>0, <1>2
  <2> QED
    BY <1>0, <1>1, <1>2, <2>1 DEF IInv, Numbered
<1>8. Failing' /\ Stopping'
  BY <1>0, <1>1 DEF IInv, Failing, Stopping
<1>9. Named'
  <2>1. \A n \in DOMAIN clients : clients[n] <= accepting'
    BY <1>0, <1>1, ContextFacts DEF IInv, Named, TypeOK
  <2> QED
    BY <1>0, <2>1 DEF IInv, Named, Known, NameOf
<1>10. SafeInv'
  BY <1>0, StillSafe
<1> QED
  BY <1>4, <1>5, <1>6, <1>7, <1>8, <1>9, <1>10 DEF IInv

\* What leaves all but phase, signal and gone alone: the pool's threads are
\* started or stopped, the signal is raised, a peer leaves.
LEMMA OutsideKeeps ==
  ASSUME IInv, Run \/ StopPool \/ Raise \/ \E k \in Connections : Leave(k)
  PROVE  IInv'
<1>0. /\ Contexts' = Contexts /\ AcceptorContext' = AcceptorContext /\ SignalContext' = SignalContext
      /\ UNCHANGED <<pool, acceptor, accepting, accepted, running, conns, clients, open, reading,
                     failed, started, fault>>
      /\ phase' = phase \/ phase' \in {"running", "stopped"}
      /\ phase' = "new" => phase = "new" /\ signal' = signal
      /\ signal' = signal \/ (signal = "none" /\ signal' = "raised")
      /\ gone \subseteq gone' /\ gone' \subseteq gone \cup Connections
  BY Frame DEF Run, StopPool, Raise, Leave, sockets, Up
<1>1. TypeOK'
  <2>1. acceptor' \in BOOLEAN
    BY <1>0 DEF IInv, TypeOK
  <2>2. /\ phase' \in {"new", "built", "running", "stopped"} /\ gone' \subseteq Connections
        /\ signal' \in {"none", "raised", "taken"}
    BY <1>0 DEF IInv, TypeOK
  <2> QED
    BY <1>0, <2>1, <2>2 DEF IInv, TypeOK
<1>2. HandlersOK'
  BY <1>0 DEF IInv, HandlersOK
<1>3. Placed'
  BY <1>0 DEF IInv, Placed, PlacedAt
<1>4. Numbered'
  BY <1>0 DEF IInv, Numbered
<1>5. Failing' /\ Stopping'
  BY <1>0 DEF IInv, Failing, Stopping
<1>6. Named'
  BY <1>0 DEF IInv, Named, Known, NameOf
<1>7. SafeInv'
  BY <1>0, StillSafe
<1> QED
  BY <1>1, <1>2, <1>3, <1>4, <1>5, <1>6, <1>7 DEF IInv

LEMMA ReadFailsKeeps == ASSUME IInv, NEW k \in Connections, ReadFails(k) PROVE IInv'
<1>0. /\ Contexts' = Contexts /\ AcceptorContext' = AcceptorContext /\ SignalContext' = SignalContext
      /\ UNCHANGED <<pool, phase, acceptor, accepting, accepted, signal, running, conns,
                     clients, open, started, gone, fault>>
      /\ k \in reading \cap gone /\ reading' = reading \ {k} /\ failed' = failed \cup {k}
  BY Frame DEF ReadFails
<1>1. TypeOK'
  <2>1. acceptor' \in BOOLEAN
    BY <1>0 DEF IInv, TypeOK
  <2>2. reading' \subseteq open' \cap started' /\ failed' \subseteq started' \ reading'
    BY <1>0 DEF IInv, TypeOK
  <2> QED
    BY <1>0, <2>1, <2>2 DEF IInv, TypeOK
<1>2. HandlersOK'
  BY <1>0 DEF IInv, HandlersOK
<1>3. Placed'
  BY <1>0 DEF IInv, Placed, PlacedAt
<1>4. Numbered'
  BY <1>0 DEF IInv, Numbered
<1>5. Failing' /\ Stopping'
  BY <1>0 DEF IInv, Failing, Stopping
<1>6. Named'
  BY <1>0 DEF IInv, Named, Known, NameOf
<1>7. SafeInv'
  BY <1>0, StillSafe
<1> QED
  BY <1>1, <1>2, <1>3, <1>4, <1>5, <1>6, <1>7 DEF IInv

\* Nothing is accepted: the acceptor was closed, or there was an error.
LEMMA NotAcceptedKeeps ==
  ASSUME IInv, AcceptBegin, UNCHANGED running
  PROVE  IInv'
<1>0. /\ Contexts' = Contexts /\ AcceptorContext' = AcceptorContext /\ SignalContext' = SignalContext
      /\ UNCHANGED <<pool, phase, acceptor, signal, running, conns, clients, reading, failed,
                     started, gone, fault>>
      /\ accepted \in {"ok", "error"} /\ phase = "running"
      /\ \/ /\ accepted' = "none" /\ open' = open \ {accepting} /\ accepting' = accepting
         \/ /\ acceptor /\ accepted = "error" /\ open' = open
            /\ accepting' = accepting + 1 /\ accepted' = "pending"
  <2>1. Idle(AcceptorContext) /\ AcceptorContext \in Contexts
    BY ContextFacts DEF AcceptBegin, IInv, TypeOK
  <2>2. ~(running' = [running EXCEPT ![AcceptorContext] = Handler("accept", accepting, "name")])
    BY <2>1 DEF Idle, Handler, NoHandler, IInv, HandlersOK
  <2> QED
    BY <2>1, <2>2, Frame DEF AcceptBegin, Idle, Up, DoAccept
<1>1. /\ accepting \in Nat /\ \A k \in Connections : k \in Nat /\ k <= Len(Peers)
      /\ accepting \notin started /\ accepting \notin conns /\ Len(Peers) \in Nat
      /\ Connections \subseteq Nat
  BY <1>0, ContextFacts DEF IInv, Numbered, TypeOK, Connections
<1>2. TypeOK'
  <2>1. acceptor' \in BOOLEAN
    BY <1>0 DEF IInv, TypeOK
  <2>2. accepting' \in 0..(Len(Peers) + 1)
    BY <1>0, <1>1 DEF IInv, TypeOK, Numbered
  <2>3. /\ open' \subseteq Connections /\ reading' \subseteq open' \cap started'
        /\ failed' \subseteq started' \ reading'
    BY <1>0, <1>1 DEF IInv, TypeOK
  <2> QED
    BY <1>0, <2>1, <2>2, <2>3 DEF IInv, TypeOK
<1>3. HandlersOK'
  BY <1>0 DEF IInv, HandlersOK
<1>4. Placed'
  BY <1>0 DEF IInv, Placed, PlacedAt
<1>9. /\ accepting' \in Nat
      /\ \A k \in Connections : k < accepting => k < accepting'
      /\ \A k \in Connections : k <= accepting => k <= accepting'
  BY <1>0, <1>1
<1>10. accepted' # "none" => accepting' \notin conns
  <2>1. \A k \in conns : k \in Nat /\ k <= accepting
    BY <1>1 DEF IInv, Numbered, TypeOK
  <2> QED
    BY <1>0, <1>1, <2>1
<1>5. Numbered'
  <2>1. open \subseteq Connections /\ conns \subseteq Connections /\ started \subseteq Connections
    BY DEF IInv, TypeOK
  <2>2. \A k \in started : k < accepting'
    BY <1>9, <2>1 DEF IInv, Numbered
  <2>3. \A k \in open' \cup conns : k <= accepting'
    BY <1>0, <1>9, <2>1 DEF IInv, Numbered
  <2>4. (accepted' = "ok" => accepting' \in Connections) /\ (acceptor' /\ accepted' = "error" => accepting' \in Connections)
    BY <1>0
  <2> QED
    BY <1>0, <1>9, <1>10, <2>2, <2>3, <2>4 DEF Numbered
<1>6. Failing' /\ Stopping'
  BY <1>0 DEF IInv, Failing, Stopping
<1>7. Named'
  <2>1. \A n \in DOMAIN clients : clients[n] <= accepting'
    BY <1>9 DEF IInv, Named, TypeOK
  <2> QED
    BY <1>0, <2>1 DEF IInv, Named, Known, NameOf
<1>8. SafeInv'
  BY <1>0, StillSafe
<1> QED
  BY <1>2, <1>3, <1>4, <1>5, <1>6, <1>7, <1>8 DEF IInv
\* A thread that takes a handler was idle, so no other thread's place changes.
LEMMA AcceptedKeeps ==
  ASSUME IInv, AcceptBegin, running' # running
  PROVE  IInv'
<1> DEFINE c == AcceptorContext
           h == Handler("accept", accepting, "name")
<1>0. /\ Contexts' = Contexts /\ AcceptorContext' = AcceptorContext /\ SignalContext' = SignalContext
      /\ UNCHANGED <<pool, phase, acceptor, accepting, signal, conns, clients, open, reading,
                     failed, started, gone, fault>>
      /\ acceptor /\ accepted = "ok" /\ accepted' = "none" /\ phase = "running"
      /\ running[c] = NoHandler /\ running' = [running EXCEPT ![c] = h]
  BY Frame DEF AcceptBegin, Idle, Up
<1>1. /\ c \in Contexts /\ accepting \in Connections /\ accepting \in 0..Len(Peers)
      /\ accepting \in Nat
  BY <1>0, ContextFacts DEF IInv, TypeOK, Numbered, Connections
<1>2. /\ h \in HandlerSet /\ h.op = "accept" /\ h.step = "name" /\ h.conn = accepting
      /\ HandlersOK' /\ running'[c] = h /\ \A d \in Contexts : d # c => running'[d] = running[d]
  <2>1. h \in HandlerSet /\ h.op = "accept" /\ h.step = "name" /\ h.conn = accepting
    BY <1>1 DEF Handler, HandlerSet
  <2> HIDE DEF h, c
  <2> QED
    BY <1>0, <1>1, <2>1, HandlerSet1 DEF IInv
<1>3. running[c].op = "idle" /\ running[c].step = "none"
  BY <1>0 DEF NoHandler
<1>4. signal # "taken"
  BY <1>0 DEF IInv, Stopping
<1>5. \A d \in Contexts : running[d].op # "accept"
  BY <1>0, StepOf DEF IInv
<1> HIDE DEF h
<1>6. TypeOK'
  <2>1. acceptor' \in BOOLEAN
    BY <1>0 DEF IInv, TypeOK
  <2>2. DOMAIN running' = Contexts'
    BY <1>0, <1>2 DEF HandlersOK
  <2> QED
    BY <1>0, <2>1, <2>2 DEF IInv, TypeOK
<1>7. Placed'
  <2> SUFFICES ASSUME NEW d \in Contexts PROVE PlacedAt(d)'
    BY <1>0 DEF Placed, PlacedAt
  <2> QED
    BY <1>0, <1>1, <1>2, <1>5 DEF IInv, Placed, PlacedAt
<1>8. Numbered' /\ Failing' /\ Stopping'
  BY <1>0 DEF IInv, Numbered, Failing, Stopping
<1>9. Named'
  <2>1. Known' = Known
    BY <1>0, <1>2, <1>3 DEF Known
  <2> QED
    BY <1>0, <2>1 DEF IInv, Named, NameOf
<1>10. SafeInv'
  <2> SUFFICES ASSUME fault = "none"
               PROVE  Exclusive' /\ Walking' /\ Starting' /\ Managed' /\ Outliving'
    BY <1>0 DEF SafeInv
  <2>1. Exclusive /\ Walking /\ Starting /\ Managed
    BY DEF IInv, SafeInv
  <2>2. Exclusive' /\ Walking' /\ Starting'
    BY <1>0, <1>2, <1>3, <2>1 DEF Exclusive, Using, Walking, Starting
  <2>3. Managed'
    BY <1>0, <1>2, <1>3, <2>1 DEF Managed, At
  <2>4. Outliving'
    BY <1>0, <1>4 DEF Outliving
  <2> QED
    BY <2>2, <2>3, <2>4
<1> QED
  BY <1>2, <1>6, <1>7, <1>8, <1>9, <1>10 DEF IInv

LEMMA StopBeginKeeps == ASSUME IInv, StopBegin PROVE IInv'
<1> DEFINE c == SignalContext
           h == Handler("stop", 0, "all")
<1>0. /\ Contexts' = Contexts /\ AcceptorContext' = AcceptorContext /\ SignalContext' = SignalContext
      /\ UNCHANGED <<pool, phase, accepting, conns, clients, open, reading, failed, started,
                     gone, fault>>
      /\ acceptor' = FALSE /\ accepted' = IF accepted = "pending" THEN "error" ELSE accepted
      /\ signal = "raised" /\ signal' = "taken" /\ phase = "running"
      /\ running[c] = NoHandler /\ running' = [running EXCEPT ![c] = h]
  BY Frame DEF StopBegin, Idle, Up, sockets
<1>1. c \in Contexts /\ 0 \in 0..Len(Peers)
  BY ContextFacts DEF IInv, TypeOK
<1>2. /\ h \in HandlerSet /\ h.op = "stop" /\ h.step = "all"
      /\ HandlersOK' /\ running'[c] = h /\ \A d \in Contexts : d # c => running'[d] = running[d]
  <2>1. h \in HandlerSet /\ h.op = "stop" /\ h.step = "all"
    BY <1>1 DEF Handler, HandlerSet
  <2> HIDE DEF h, c
  <2> QED
    BY <1>0, <1>1, <2>1, HandlerSet1 DEF IInv
<1>3. running[c].op = "idle" /\ running[c].step = "none"
  BY <1>0 DEF NoHandler
<1> HIDE DEF h, c
<1>4. TypeOK'
  <2>1. acceptor' \in BOOLEAN
    BY <1>0
  <2>2. DOMAIN running' = Contexts'
    BY <1>0, <1>2 DEF HandlersOK
  <2>3. accepted' \in {"none", "pending", "ok", "error"} /\ signal' \in {"none", "raised", "taken"}
    BY <1>0 DEF IInv, TypeOK
  <2> QED
    BY <1>0, <2>1, <2>2, <2>3 DEF IInv, TypeOK
<1>5. Placed'
  <2> SUFFICES ASSUME NEW d \in Contexts PROVE PlacedAt(d)'
    BY <1>0 DEF Placed
  <2>1. CASE d = c
    BY <1>0, <1>2, <2>1 DEF PlacedAt, c
  <2>2. CASE d # c
    <3>1. PlacedAt(d) /\ running'[d] = running[d]
      BY <1>2, <2>2 DEF IInv, Placed
    <3> QED
      BY <1>0, <3>1 DEF PlacedAt
  <2> QED
    BY <2>1, <2>2
<1>6. Numbered' /\ Failing' /\ Stopping'
  BY <1>0 DEF IInv, Numbered, Failing, Stopping
<1>7. Named'
  <2>1. Known' = Known
    BY <1>0, <1>2, <1>3 DEF Known
  <2> QED
    BY <1>0, <2>1 DEF IInv, Named, NameOf
<1>8. SafeInv'
  <2> SUFFICES ASSUME fault = "none"
               PROVE  Exclusive' /\ Walking' /\ Starting' /\ Managed' /\ Outliving'
    BY <1>0 DEF SafeInv
  <2>1. Exclusive /\ Walking /\ Starting /\ Managed
    BY DEF IInv, SafeInv
  <2>2. Exclusive' /\ Walking' /\ Starting'
    BY <1>0, <1>2, <1>3, <2>1 DEF Exclusive, Using, Walking, Starting
  <2>3. Managed'
    BY <1>0, <1>2, <1>3, <2>1 DEF Managed, At
  <2>4. Outliving'
    BY <1>0, <1>1, <1>2 DEF Outliving
  <2> QED
    BY <2>2, <2>3, <2>4
<1> QED
  BY <1>2, <1>4, <1>5, <1>6, <1>7, <1>8 DEF IInv

LEMMA FailBeginKeeps == ASSUME IInv, NEW k \in Connections, FailBegin(k) PROVE IInv'
<1> DEFINE c == SocketContext(k)
           h == Handler("fail", k, "erase")
<1>0. /\ Contexts' = Contexts /\ AcceptorContext' = AcceptorContext /\ SignalContext' = SignalContext
      /\ UNCHANGED <<pool, phase, acceptor, accepting, accepted, signal, conns, clients, open,
                     reading, started, gone>>
      /\ k \in failed /\ failed' = failed \ {k} /\ phase = "running" /\ fault = "none"
      /\ running[c] = NoHandler /\ running' = [running EXCEPT ![c] = h]
      /\ fault' = IF Using = {} THEN "none" ELSE "race"
  BY Frame DEF FailBegin, Idle, Up, sockets, Use
<1>1. c \in Contexts /\ k \in 0..Len(Peers) /\ k \in started /\ (k \in open => k \in gone)
  BY <1>0, ContextFacts DEF IInv, TypeOK, Connections, Failing
<1>2. /\ h \in HandlerSet /\ h.op = "fail" /\ h.step = "erase" /\ h.conn = k
      /\ HandlersOK' /\ running'[c] = h /\ \A d \in Contexts : d # c => running'[d] = running[d]
  <2>1. h \in HandlerSet /\ h.op = "fail" /\ h.step = "erase" /\ h.conn = k
    BY <1>1 DEF Handler, HandlerSet
  <2> HIDE DEF h, c
  <2> QED
    BY <1>0, <1>1, <2>1, HandlerSet1 DEF IInv
<1>3. running[c].op = "idle" /\ running[c].step = "none"
  BY <1>0 DEF NoHandler
<1> HIDE DEF h, c
<1>4. TypeOK'
  <2>1. acceptor' \in BOOLEAN
    BY <1>0 DEF IInv, TypeOK
  <2>2. DOMAIN running' = Contexts'
    BY <1>0, <1>2 DEF HandlersOK
  <2>3. fault' \in {"none", "race"} /\ failed' \subseteq started' \ reading'
    BY <1>0 DEF IInv, TypeOK
  <2> QED
    BY <1>0, <2>1, <2>2, <2>3 DEF IInv, TypeOK
<1>5. Placed'
  <2> SUFFICES ASSUME NEW d \in Contexts PROVE PlacedAt(d)'
    BY <1>0 DEF Placed
  <2>1. CASE d = c
    BY <1>0, <1>1, <1>2, <2>1 DEF PlacedAt
  <2>2. CASE d # c
    <3>1. PlacedAt(d) /\ running'[d] = running[d]
      BY <1>2, <2>2 DEF IInv, Placed
    <3> QED
      BY <1>0, <3>1 DEF PlacedAt
  <2> QED
    BY <2>1, <2>2
<1>6. Numbered' /\ Failing' /\ Stopping'
  BY <1>0 DEF IInv, Numbered, Failing, Stopping
<1>7. Named'
  <2>1. Known' = Known
    BY <1>0, <1>2, <1>3 DEF Known
  <2> QED
    BY <1>0, <2>1 DEF IInv, Named, NameOf
<1>8. SafeInv'
  <2> SUFFICES ASSUME Using = {}
               PROVE  Exclusive' /\ Walking' /\ Starting' /\ Managed' /\ Outliving'
    BY <1>0 DEF SafeInv
  <2>1. Exclusive /\ Walking /\ Starting /\ Managed /\ Outliving
    BY <1>0 DEF IInv, SafeInv
  <2>2. Exclusive' /\ Walking' /\ Starting'
    BY <1>0, <1>2, <1>3, <2>1 DEF Exclusive, Using, Walking, Starting
  <2>3. Managed'
    BY <1>0, <1>2, <1>3, <2>1 DEF Managed, At
  <2>4. Outliving'
    <3>1. {d \in Contexts : running'[d].op = "accept"} = {d \in Contexts : running[d].op = "accept"}
      BY <1>2, <1>3
    <3>2. \A d \in Contexts : running[d].op = "accept" => running'[d].conn = running[d].conn
      BY <1>2, <1>3
    <3>3. Alive' = Alive
      BY <1>0, <3>1, <3>2 DEF Alive
    <3>4. \A d \in Contexts : running[d].op = "stop" => running'[d].op = "stop"
      BY <1>2, <1>3
    <3> QED
      BY <1>0, <2>1, <3>3, <3>4 DEF Outliving
  <2> QED
    BY <2>2, <2>3, <2>4
<1> QED
  BY <1>2, <1>4, <1>5, <1>6, <1>7, <1>8 DEF IInv

LEMMA AcceptNameKeeps == ASSUME IInv, NEW c \in Contexts, AcceptName(c) PROVE IInv'
<1> DEFINE h == Handler("accept", accepting, "insert")
<1>0. /\ Contexts' = Contexts /\ AcceptorContext' = AcceptorContext /\ SignalContext' = SignalContext
      /\ UNCHANGED <<pool, phase, acceptor, accepting, accepted, signal, conns, open, reading,
                     failed, started, gone>>
      /\ running[c].op = "accept" /\ running[c].step = "name" /\ fault = "none"
      /\ running[c].conn = accepting /\ accepting \in Connections
      /\ \/ fault' = "terminate" /\ UNCHANGED <<clients, running>>
         \/ /\ clients' = Insert(clients, NameOf(accepting), accepting)
            /\ running' = [running EXCEPT ![c] = h]
            /\ fault' = IF Using = {} THEN "none" ELSE "race"
  <2>1. running[c].op = "accept" /\ running[c].conn = accepting /\ accepting \in Connections
    BY StepOf DEF AcceptName, At, IInv
  <2> QED
    BY <2>1, Frame DEF AcceptName, At, Use, sockets, NameOf
<1>1. CASE fault' = "terminate" /\ UNCHANGED <<clients, running>>
  <2>1. acceptor' \in BOOLEAN
    BY <1>0 DEF IInv, TypeOK
  <2>2. TypeOK' /\ HandlersOK'
    BY <1>0, <1>1, <2>1 DEF IInv, TypeOK, HandlersOK
  <2>3. Placed' /\ Numbered' /\ Failing' /\ Stopping'
    BY <1>0, <1>1 DEF IInv, Placed, PlacedAt, Numbered, Failing, Stopping
  <2>4. Named' /\ SafeInv'
    BY <1>0, <1>1 DEF IInv, Named, Known, NameOf, SafeInv
  <2> QED
    BY <2>2, <2>3, <2>4 DEF IInv
<1>2. CASE /\ clients' = Insert(clients, NameOf(accepting), accepting)
           /\ running' = [running EXCEPT ![c] = h]
           /\ fault' = IF Using = {} THEN "none" ELSE "race"
  <2>1. accepting \in 0..Len(Peers) /\ accepting \in Nat
    BY <1>0, ContextFacts DEF IInv, TypeOK, Connections
  <2>2. /\ h \in HandlerSet /\ h.op = "accept" /\ h.step = "insert" /\ h.conn = accepting
        /\ HandlersOK' /\ running'[c] = h /\ \A d \in Contexts : d # c => running'[d] = running[d]
    <3>1. h \in HandlerSet /\ h.op = "accept" /\ h.step = "insert" /\ h.conn = accepting
      BY <2>1 DEF Handler, HandlerSet
    <3> HIDE DEF h
    <3> QED
      BY <1>0, <1>2, <3>1, HandlerSet1 DEF IInv
  <2> HIDE DEF h
  <2>3. /\ DOMAIN clients' = DOMAIN clients \cup {NameOf(accepting)}
        /\ \A n \in DOMAIN clients : clients'[n] = clients[n]
        /\ NameOf(accepting) \notin DOMAIN clients => clients'[NameOf(accepting)] = accepting
    <3>1. clients' = Insert(clients, NameOf(accepting), accepting)
      BY <1>2
    <3> QED
      BY <3>1 DEF Insert
  <2>4. TypeOK'
    <3>1. acceptor' \in BOOLEAN
      BY <1>0 DEF IInv, TypeOK
    <3>2. DOMAIN running' = Contexts'
      BY <1>0, <2>2 DEF HandlersOK
    <3>3. \A n \in DOMAIN clients' : clients'[n] \in Connections
      BY <1>0, <2>3 DEF IInv, TypeOK
    <3>4. fault' \in {"none", "race"}
      BY <1>2
    <3> QED
      BY <1>0, <3>1, <3>2, <3>3, <3>4 DEF IInv, TypeOK
  <2>5. Placed'
    <3> SUFFICES ASSUME NEW d \in Contexts PROVE PlacedAt(d)'
      BY <1>0 DEF Placed
    <3>1. CASE d = c
      <4>1. PlacedAt(c) /\ running[c] # NoHandler
        BY <1>0 DEF IInv, Placed, NoHandler
      <4> QED
        BY <1>0, <2>2, <3>1, <4>1 DEF PlacedAt
    <3>2. CASE d # c
      <4>1. PlacedAt(d) /\ running'[d] = running[d]
        BY <2>2, <3>2 DEF IInv, Placed
      <4> QED
        BY <1>0, <4>1 DEF PlacedAt
    <3> QED
      BY <3>1, <3>2
  <2>6. Numbered' /\ Failing' /\ Stopping'
    BY <1>0 DEF IInv, Numbered, Failing, Stopping
  <2>7. Named'
    <3>1. Known' = Known \cup {accepting}
      BY <1>0, <2>2 DEF Known
    <3>2. \A n \in DOMAIN clients' : clients'[n] <= accepting' /\ NameOf(clients'[n]) = n
      BY <1>0, <2>1, <2>3 DEF IInv, Named
    <3>3. NameOf(accepting) \in DOMAIN clients' /\ clients'[NameOf(accepting)] <= accepting
      BY <1>0, <2>1, <2>3, <3>2
    <3>4. \A k \in Known : NameOf(k) \in DOMAIN clients' /\ clients'[NameOf(k)] <= k
      BY <2>3 DEF IInv, Named
    <3> QED
      BY <3>1, <3>2, <3>3, <3>4 DEF Named, NameOf
  <2>8. SafeInv'
    <3> SUFFICES ASSUME Using = {}
                 PROVE  Exclusive' /\ Walking' /\ Starting' /\ Managed' /\ Outliving'
      BY <1>2 DEF SafeInv
    <3>1. Exclusive /\ Walking /\ Starting /\ Managed /\ Outliving
      BY <1>0 DEF IInv, SafeInv
    <3>2. Exclusive' /\ Walking' /\ Starting'
      BY <1>0, <2>2, <3>1 DEF Exclusive, Using, Walking, Starting
    <3>3. Managed'
      BY <1>0, <2>2, <3>1 DEF Managed, At
    <3>4. Outliving'
      <4>1. {d \in Contexts : running'[d].op = "accept"} = {d \in Contexts : running[d].op = "accept"}
        BY <1>0, <2>2
      <4>2. \A d \in Contexts : running[d].op = "accept" => running'[d].conn = running[d].conn
        BY <1>0, <2>2
      <4>3. Alive' = Alive
        BY <1>0, <4>1, <4>2 DEF Alive
      <4>4. \A d \in Contexts : running[d].op = "stop" => running'[d].op = "stop"
        BY <1>0, <2>2
      <4> QED
        BY <1>0, <3>1, <4>3, <4>4 DEF Outliving
    <3> QED
      BY <3>2, <3>3, <3>4
  <2> QED
    BY <2>2, <2>4, <2>5, <2>6, <2>7, <2>8 DEF IInv
<1> QED
  BY <1>0, <1>1, <1>2

LEMMA AcceptInsertKeeps == ASSUME IInv, NEW c \in Contexts, AcceptInsert(c) PROVE IInv'
<1>0. /\ Contexts' = Contexts /\ AcceptorContext' = AcceptorContext /\ SignalContext' = SignalContext
      /\ UNCHANGED <<pool, phase, acceptor, accepting, accepted, signal, clients, open, reading,
                     failed, started, gone, fault>>
      /\ running[c].op = "accept" /\ running[c].step = "insert" /\ fault = "none"
      /\ running[c].conn = accepting /\ accepting \in Connections /\ accepted = "none"
      /\ conns' = conns \cup {accepting} /\ running' = [running EXCEPT ![c].step = "start"]
  BY Frame, StepOf DEF AcceptInsert, At, IInv, sockets
<1>1. /\ HandlersOK'
      /\ running'[c].step = "start" /\ running'[c].op = "accept" /\ running'[c].conn = accepting
      /\ \A d \in Contexts : d # c => running'[d] = running[d]
  BY <1>0, HandlerSteps DEF IInv
<1>2. Exclusive /\ Walking /\ Starting /\ Managed /\ Outliving
  BY <1>0 DEF IInv, SafeInv
<1>3. TypeOK'
  <2>1. acceptor' \in BOOLEAN
    BY <1>0 DEF IInv, TypeOK
  <2>2. DOMAIN running' = Contexts' /\ conns' \subseteq Connections
    BY <1>0, <1>1 DEF HandlersOK, IInv, TypeOK
  <2> QED
    BY <1>0, <2>1, <2>2 DEF IInv, TypeOK
<1>4. Placed'
  <2> SUFFICES ASSUME NEW d \in Contexts PROVE PlacedAt(d)'
    BY <1>0 DEF Placed
  <2>1. CASE d = c
    <3>1. PlacedAt(c) /\ running[c] # NoHandler
      BY <1>0 DEF IInv, Placed, NoHandler
    <3> QED
      BY <1>0, <1>1, <2>1, <3>1 DEF PlacedAt
  <2>2. CASE d # c
    <3>1. PlacedAt(d) /\ running'[d] = running[d]
      BY <1>1, <2>2 DEF IInv, Placed
    <3> QED
      BY <1>0, <3>1 DEF PlacedAt
  <2> QED
    BY <2>1, <2>2
<1>5. Numbered'
  <2>1. accepting \in Nat /\ accepting <= accepting
    BY <1>0 DEF IInv, Numbered
  <2> QED
    BY <1>0, <2>1 DEF IInv, Numbered
<1>6. Failing' /\ Stopping'
  BY <1>0 DEF IInv, Failing, Stopping
<1>7. Named'
  <2>1. Known' = Known
    BY <1>0, <1>1 DEF Known
  <2> QED
    BY <1>0, <2>1 DEF IInv, Named, NameOf
<1>8. Exclusive' /\ Starting'
  BY <1>0, <1>1, <1>2 DEF Exclusive, Using, Starting
<1>9. Walking'
  <2>1. \A d \in Contexts : running'[d].step # "walk"
    BY <1>0, <1>1, <1>2 DEF Exclusive, Using
  <2> QED
    BY <1>0, <2>1 DEF Walking
<1>10. Managed'
  BY <1>0, <1>1, <1>2 DEF Managed, At
<1>11. Outliving'
  <2>1. {d \in Contexts : running'[d].op = "accept"} = {d \in Contexts : running[d].op = "accept"}
    BY <1>0, <1>1
  <2>2. \A d \in Contexts : running[d].op = "accept" => running'[d].conn = running[d].conn
    BY <1>0, <1>1
  <2>3. Alive' = Alive
    BY <1>0, <2>1, <2>2 DEF Alive
  <2>4. \A d \in Contexts : running[d].op = "stop" => running'[d].op = "stop"
    BY <1>0, <1>1
  <2> QED
    BY <1>0, <1>2, <2>3, <2>4 DEF Outliving
<1> QED
  BY <1>1, <1>3, <1>4, <1>5, <1>6, <1>7, <1>8, <1>9, <1>10, <1>11 DEF IInv, SafeInv

LEMMA AcceptStartKeeps == ASSUME IInv, NEW c \in Contexts, AcceptStart(c) PROVE IInv'
<1>0. /\ Contexts' = Contexts /\ AcceptorContext' = AcceptorContext /\ SignalContext' = SignalContext
      /\ UNCHANGED <<pool, phase, acceptor, signal, conns, clients, open, gone, fault>>
      /\ running[c].op = "accept" /\ running[c].step = "start" /\ fault = "none"
      /\ running[c].conn = accepting /\ accepting \in Connections /\ c = AcceptorContext
      /\ phase # "new"
      /\ accepting' = accepting + 1 /\ accepted' = IF acceptor THEN "pending" ELSE "error"
      /\ started' = started \cup {accepting} /\ running' = [running EXCEPT ![c] = NoHandler]
      /\ \/ accepting \in open /\ reading' = reading \cup {accepting} /\ failed' = failed
         \/ accepting \notin open /\ reading' = reading /\ failed' = failed \cup {accepting}
  BY Frame, StepOf DEF AcceptStart, StartSocket, DoAccept, At, IInv
<1>1. /\ NoHandler \in HandlerSet /\ NoHandler.op = "idle" /\ NoHandler.step = "none"
      /\ NoHandler.conn = 0
  BY ContextFacts DEF NoHandler, HandlerSet, IInv, TypeOK
<1>2. HandlersOK' /\ running'[c] = NoHandler /\ \A d \in Contexts : d # c => running'[d] = running[d]
  BY <1>0, <1>1, HandlerSet1 DEF IInv
<1>3. Exclusive /\ Walking /\ Starting /\ Managed /\ Outliving
  BY <1>0 DEF IInv, SafeInv
<1>4. /\ accepting \in Nat /\ Len(Peers) \in Nat /\ accepting <= Len(Peers)
      /\ accepting \notin started /\ \A k \in Connections : k \in Nat
  BY <1>0, ContextFacts DEF IInv, TypeOK, Numbered, Connections
<1>5. \A d \in Contexts : d # c => running[d].op # "accept" /\ running[d].step \notin {"insert", "start"}
  BY <1>0, StepOf DEF IInv
<1>6. TypeOK'
  <2>1. acceptor' \in BOOLEAN
    BY <1>0 DEF IInv, TypeOK
  <2>2. DOMAIN running' = Contexts'
    BY <1>0, <1>2 DEF HandlersOK
  <2>3. accepting' \in 0..(Len(Peers) + 1) /\ accepted' \in {"none", "pending", "ok", "error"}
    BY <1>0, <1>4
  <2>4. reading' \subseteq open' \cap started' /\ failed' \subseteq started' \ reading'
    BY <1>0, <1>4 DEF IInv, TypeOK
  <2>5. started' \subseteq Connections
    BY <1>0 DEF IInv, TypeOK
  <2> QED
    BY <1>0, <2>1, <2>2, <2>3, <2>4, <2>5 DEF IInv, TypeOK
<1>7. Placed'
  <2> SUFFICES ASSUME NEW d \in Contexts PROVE PlacedAt(d)'
    BY <1>0 DEF Placed
  <2>1. CASE d = c
    BY <1>2, <2>1 DEF PlacedAt
  <2>2. CASE d # c
    <3>1. PlacedAt(d) /\ running'[d] = running[d] /\ running[d].op # "accept"
      BY <1>2, <1>5, <2>2 DEF IInv, Placed
    <3> QED
      BY <1>0, <3>1 DEF PlacedAt
  <2> QED
    BY <2>1, <2>2
<1>8. Numbered'
  <2>1. /\ open \subseteq Connections /\ conns \subseteq Connections /\ started \subseteq Connections
    BY DEF IInv, TypeOK
  <2>2. \A k \in started' : k < accepting'
    BY <1>0, <1>4, <2>1 DEF IInv, Numbered
  <2>3. \A k \in open \cup conns : k \in Nat /\ k <= accepting
    BY <1>4, <2>1 DEF IInv, Numbered
  <2>4. (\A k \in open' \cup conns' : k <= accepting') /\ accepting' \notin conns'
    BY <1>0, <1>4, <2>3
  <2>5. accepting' \in Nat /\ accepted' # "ok" /\ (acceptor' /\ accepted' = "error" => accepting' \in Connections)
    BY <1>0, <1>4
  <2> QED
    BY <1>0, <2>2, <2>4, <2>5 DEF Numbered
<1>9. Failing' /\ Stopping'
  BY <1>0 DEF IInv, Failing, Stopping
<1>10. Named'
  <2>1. Known' = Known
    BY <1>0, <1>1, <1>2, <1>5 DEF Known
  <2>2. \A n \in DOMAIN clients : clients[n] \in Nat /\ clients[n] <= accepting
    BY <1>4 DEF IInv, Named, TypeOK
  <2>3. \A n \in DOMAIN clients : clients[n] <= accepting'
    BY <1>0, <1>4, <2>2
  <2> QED
    BY <1>0, <2>1, <2>3 DEF IInv, Named, NameOf
<1>11. Exclusive' /\ Walking' /\ Starting'
  BY <1>0, <1>1, <1>2, <1>3, <1>5 DEF Exclusive, Using, Walking, Starting
<1>12. Managed'
  <2>1. accepting \in open => accepting \in conns
    BY <1>0, <1>3 DEF Starting
  <2> QED
    BY <1>0, <1>2, <1>3, <2>1 DEF Managed, At
<1>13. Outliving'
  <2>1. accepting \in Alive
    BY <1>0 DEF Alive
  <2>2. {d \in Contexts : running'[d].op = "accept"} = {}
    BY <1>1, <1>2, <1>5
  <2>3. Alive' \subseteq Alive
    BY <1>0, <2>1, <2>2 DEF Alive
  <2>4. \A d \in Contexts : running[d].op = "stop" => running'[d].op = "stop"
    BY <1>0, <1>2
  <2> QED
    BY <1>0, <1>3, <2>3, <2>4 DEF Outliving
<1> QED
  BY <1>2, <1>6, <1>7, <1>8, <1>9, <1>10, <1>11, <1>12, <1>13 DEF IInv, SafeInv

LEMMA FailEraseKeeps == ASSUME IInv, NEW c \in Contexts, FailErase(c) PROVE IInv'
<1> DEFINE k == running[c].conn
<1>0. /\ Contexts' = Contexts /\ AcceptorContext' = AcceptorContext /\ SignalContext' = SignalContext
      /\ UNCHANGED <<pool, phase, acceptor, accepting, accepted, signal, clients, open, reading,
                     failed, started, gone, fault>>
      /\ running[c].op = "fail" /\ running[c].step = "erase" /\ fault = "none" /\ k \in started
      /\ phase \in {"running", "stopped"}
      /\ conns' = conns \ {k} /\ running' = [running EXCEPT ![c].step = "close"]
  BY Frame, StepOf DEF FailErase, At, IInv, sockets
<1>1. /\ HandlersOK'
      /\ running'[c].step = "close" /\ running'[c].op = "fail" /\ running'[c].conn = k
      /\ \A d \in Contexts : d # c => running'[d] = running[d]
  BY <1>0, HandlerSteps DEF IInv
<1>2. Exclusive /\ Walking /\ Starting /\ Managed /\ Outliving
  BY <1>0 DEF IInv, SafeInv
<1> HIDE DEF k
<1>3. TypeOK'
  <2>1. acceptor' \in BOOLEAN
    BY <1>0 DEF IInv, TypeOK
  <2>2. DOMAIN running' = Contexts' /\ conns' \subseteq Connections
    BY <1>0, <1>1 DEF HandlersOK, IInv, TypeOK
  <2> QED
    BY <1>0, <2>1, <2>2 DEF IInv, TypeOK
<1>4. Placed'
  <2> SUFFICES ASSUME NEW d \in Contexts PROVE PlacedAt(d)'
    BY <1>0 DEF Placed
  <2>1. CASE d = c
    <3>1. PlacedAt(c) /\ running[c] # NoHandler
      BY <1>0 DEF IInv, Placed, NoHandler
    <3> QED
      BY <1>0, <1>1, <2>1, <3>1 DEF PlacedAt, k
  <2>2. CASE d # c
    <3>1. PlacedAt(d) /\ running'[d] = running[d]
      BY <1>1, <2>2 DEF IInv, Placed
    <3> QED
      BY <1>0, <3>1 DEF PlacedAt
  <2> QED
    BY <2>1, <2>2
<1>5. Numbered' /\ Failing' /\ Stopping'
  BY <1>0 DEF IInv, Numbered, Failing, Stopping
<1>6. Named'
  <2>1. Known' = Known
    BY <1>0, <1>1 DEF Known
  <2> QED
    BY <1>0, <2>1 DEF IInv, Named, NameOf
<1>7. Exclusive' /\ Walking'
  BY <1>0, <1>1, <1>2 DEF Exclusive, Using, Walking
<1>8. Starting'
  <2>1. \A d \in Contexts : running[d].step = "start" => running[d].conn = accepting
    BY StepOf DEF IInv
  <2>2. accepting # k
    BY <1>0 DEF IInv, Numbered
  <2> QED
    BY <1>0, <1>1, <1>2, <2>1, <2>2 DEF Starting
<1>9. Managed'
  BY <1>0, <1>1, <1>2 DEF Managed, At
<1>10. Outliving'
  <2>1. {d \in Contexts : running'[d].op = "accept"} = {d \in Contexts : running[d].op = "accept"}
    BY <1>0, <1>1
  <2>2. \A d \in Contexts : running[d].op = "accept" => running'[d].conn = running[d].conn
    BY <1>0, <1>1
  <2>3. Alive' = Alive
    BY <1>0, <2>1, <2>2 DEF Alive
  <2>4. \A d \in Contexts : running[d].op = "stop" => running'[d].op = "stop"
    BY <1>0, <1>1
  <2> QED
    BY <1>0, <1>2, <2>3, <2>4 DEF Outliving
<1> QED
  BY <1>1, <1>3, <1>4, <1>5, <1>6, <1>7, <1>8, <1>9, <1>10 DEF IInv, SafeInv

LEMMA FailCloseKeeps == ASSUME IInv, NEW c \in Contexts, FailClose(c) PROVE IInv'
<1> DEFINE k == running[c].conn
<1>0. /\ Contexts' = Contexts /\ AcceptorContext' = AcceptorContext /\ SignalContext' = SignalContext
      /\ UNCHANGED <<pool, phase, acceptor, accepting, accepted, signal, conns, clients,
                     failed, started, gone, fault>>
      /\ running[c].op = "fail" /\ running[c].step = "close" /\ fault = "none"
      /\ open' = open \ {k} /\ reading' = reading \ {k} /\ running' = [running EXCEPT ![c] = NoHandler]
  BY Frame DEF FailClose, At, Close
<1>1. /\ NoHandler \in HandlerSet /\ NoHandler.op = "idle" /\ NoHandler.step = "none"
  BY ContextFacts DEF NoHandler, HandlerSet, IInv, TypeOK
<1>2. HandlersOK' /\ running'[c] = NoHandler /\ \A d \in Contexts : d # c => running'[d] = running[d]
  BY <1>0, <1>1, HandlerSet1 DEF IInv
<1>3. Exclusive /\ Walking /\ Starting /\ Managed /\ Outliving
  BY <1>0 DEF IInv, SafeInv
<1>4. TypeOK'
  <2>1. acceptor' \in BOOLEAN
    BY <1>0 DEF IInv, TypeOK
  <2>2. DOMAIN running' = Contexts'
    BY <1>0, <1>2 DEF HandlersOK
  <2>3. /\ open' \subseteq Connections /\ reading' \subseteq open' \cap started'
        /\ failed' \subseteq started' \ reading'
    BY <1>0 DEF IInv, TypeOK
  <2> QED
    BY <1>0, <2>1, <2>2, <2>3 DEF IInv, TypeOK
<1>5. Placed'
  <2> SUFFICES ASSUME NEW d \in Contexts PROVE PlacedAt(d)'
    BY <1>0 DEF Placed
  <2>1. CASE d = c
    BY <1>2, <2>1 DEF PlacedAt
  <2>2. CASE d # c
    <3>1. PlacedAt(d) /\ running'[d] = running[d]
      BY <1>2, <2>2 DEF IInv, Placed
    <3> QED
      BY <1>0, <3>1 DEF PlacedAt
  <2> QED
    BY <2>1, <2>2
<1>6. Numbered' /\ Failing' /\ Stopping'
  BY <1>0 DEF IInv, Numbered, Failing, Stopping
<1>7. Named'
  <2>1. Known' = Known
    BY <1>0, <1>1, <1>2 DEF Known
  <2> QED
    BY <1>0, <2>1 DEF IInv, Named, NameOf
<1>8. Exclusive' /\ Walking' /\ Starting'
  BY <1>0, <1>1, <1>2, <1>3 DEF Exclusive, Using, Walking, Starting
<1>9. Managed'
  BY <1>0, <1>1, <1>2, <1>3 DEF Managed, At
<1>10. Outliving'
  <2>1. {d \in Contexts : running'[d].op = "accept"} = {d \in Contexts : running[d].op = "accept"}
    BY <1>0, <1>1, <1>2
  <2>2. \A d \in Contexts : running[d].op = "accept" => running'[d].conn = running[d].conn
    BY <1>0, <1>2
  <2>3. Alive' \subseteq Alive
    BY <1>0, <2>1, <2>2 DEF Alive
  <2>4. \A d \in Contexts : running[d].op = "stop" => running'[d].op = "stop"
    BY <1>0, <1>2
  <2> QED
    BY <1>0, <1>3, <2>3, <2>4 DEF Outliving
<1> QED
  BY <1>2, <1>4, <1>5, <1>6, <1>7, <1>8, <1>9, <1>10 DEF IInv, SafeInv

LEMMA StopAllBeginKeeps == ASSUME IInv, NEW c \in Contexts, StopAllBegin(c) PROVE IInv'
<1> DEFINE h == [Handler("stop", 0, "walk") EXCEPT !.todo = conns]
<1>0. /\ Contexts' = Contexts /\ AcceptorContext' = AcceptorContext /\ SignalContext' = SignalContext
      /\ UNCHANGED <<pool, phase, acceptor, accepting, accepted, signal, conns, clients, open,
                     reading, failed, started, gone>>
      /\ running[c].op = "stop" /\ running[c].step = "all" /\ fault = "none"
      /\ running' = [running EXCEPT ![c] = h]
      /\ fault' = IF Using = {} THEN "none" ELSE "race"
  BY Frame DEF StopAllBegin, At, Use, sockets
<1>1. /\ h \in HandlerSet /\ h.op = "stop" /\ h.step = "walk" /\ h.todo = conns
      /\ HandlersOK' /\ running'[c] = h /\ \A d \in Contexts : d # c => running'[d] = running[d]
  <2>1. h \in HandlerSet /\ h.op = "stop" /\ h.step = "walk" /\ h.todo = conns
    BY ContextFacts DEF Handler, HandlerSet, IInv, TypeOK
  <2> HIDE DEF h
  <2> QED
    BY <1>0, <2>1, HandlerSet1 DEF IInv
<1> HIDE DEF h
<1>2. TypeOK'
  <2>1. acceptor' \in BOOLEAN
    BY <1>0 DEF IInv, TypeOK
  <2>2. DOMAIN running' = Contexts' /\ fault' \in {"none", "race"}
    BY <1>0, <1>1 DEF HandlersOK
  <2> QED
    BY <1>0, <2>1, <2>2 DEF IInv, TypeOK
<1>3. Placed'
  <2> SUFFICES ASSUME NEW d \in Contexts PROVE PlacedAt(d)'
    BY <1>0 DEF Placed
  <2>1. CASE d = c
    <3>1. PlacedAt(c) /\ running[c] # NoHandler
      BY <1>0 DEF IInv, Placed, NoHandler
    <3> QED
      BY <1>0, <1>1, <2>1, <3>1 DEF PlacedAt
  <2>2. CASE d # c
    <3>1. PlacedAt(d) /\ running'[d] = running[d]
      BY <1>1, <2>2 DEF IInv, Placed
    <3> QED
      BY <1>0, <3>1 DEF PlacedAt
  <2> QED
    BY <2>1, <2>2
<1>4. Numbered' /\ Failing' /\ Stopping'
  BY <1>0 DEF IInv, Numbered, Failing, Stopping
<1>5. Named'
  <2>1. Known' = Known
    BY <1>0, <1>1 DEF Known
  <2> QED
    BY <1>0, <2>1 DEF IInv, Named, NameOf
<1>6. SafeInv'
  <2> SUFFICES ASSUME Using = {}
               PROVE  Exclusive' /\ Walking' /\ Starting' /\ Managed' /\ Outliving'
    BY <1>0 DEF SafeInv
  <2>1. Exclusive /\ Walking /\ Starting /\ Managed /\ Outliving
    BY <1>0 DEF IInv, SafeInv
  <2>2. Exclusive' /\ Walking' /\ Starting'
    BY <1>0, <1>1, <2>1 DEF Exclusive, Using, Walking, Starting
  <2>3. Managed'
    BY <1>0, <1>1, <2>1 DEF Managed, At
  <2>4. Outliving'
    BY <1>0, <1>1 DEF Outliving
  <2> QED
    BY <2>2, <2>3, <2>4
<1> QED
  BY <1>1, <1>2, <1>3, <1>4, <1>5, <1>6 DEF IInv

LEMMA StopOneKeeps == ASSUME IInv, NEW c \in Contexts, StopOne(c) PROVE IInv'
<1>a. PICK k \in running[c].todo :
        Close(k) /\ running' = [running EXCEPT ![c].todo = @ \ {k}]
  BY DEF StopOne
<1>0. /\ Contexts' = Contexts /\ AcceptorContext' = AcceptorContext /\ SignalContext' = SignalContext
      /\ UNCHANGED <<pool, phase, acceptor, accepting, accepted, signal, conns, clients,
                     failed, started, gone, fault>>
      /\ running[c].op = "stop" /\ running[c].step = "walk" /\ fault = "none"
      /\ open' = open \ {k} /\ reading' = reading \ {k}
  BY <1>a, Frame DEF StopOne, At, Close
<1>1. /\ HandlersOK'
      /\ running'[c].step = "walk" /\ running'[c].op = "stop"
      /\ running'[c].conn = running[c].conn /\ running'[c].todo = running[c].todo \ {k}
      /\ \A d \in Contexts : d # c => running'[d] = running[d]
  BY <1>0, <1>a, HandlerWalks DEF IInv
<1>2. Exclusive /\ Walking /\ Starting /\ Managed /\ Outliving
  BY <1>0 DEF IInv, SafeInv
<1>3. TypeOK'
  <2>1. acceptor' \in BOOLEAN
    BY <1>0 DEF IInv, TypeOK
  <2>2. DOMAIN running' = Contexts'
    BY <1>0, <1>1 DEF HandlersOK
  <2>3. /\ open' \subseteq Connections /\ reading' \subseteq open' \cap started'
        /\ failed' \subseteq started' \ reading'
    BY <1>0 DEF IInv, TypeOK
  <2> QED
    BY <1>0, <2>1, <2>2, <2>3 DEF IInv, TypeOK
<1>4. Placed'
  <2> SUFFICES ASSUME NEW d \in Contexts PROVE PlacedAt(d)'
    BY <1>0 DEF Placed
  <2>1. CASE d = c
    <3>1. PlacedAt(c) /\ running[c] # NoHandler
      BY <1>0 DEF IInv, Placed, NoHandler
    <3> QED
      BY <1>0, <1>1, <2>1, <3>1 DEF PlacedAt
  <2>2. CASE d # c
    <3>1. PlacedAt(d) /\ running'[d] = running[d]
      BY <1>1, <2>2 DEF IInv, Placed
    <3> QED
      BY <1>0, <3>1 DEF PlacedAt
  <2> QED
    BY <2>1, <2>2
<1>5. Numbered' /\ Failing' /\ Stopping'
  BY <1>0 DEF IInv, Numbered, Failing, Stopping
<1>6. Named'
  <2>1. Known' = Known
    BY <1>0, <1>1 DEF Known
  <2> QED
    BY <1>0, <2>1 DEF IInv, Named, NameOf
<1>7. Exclusive' /\ Walking' /\ Starting'
  BY <1>0, <1>1, <1>2 DEF Exclusive, Using, Walking, Starting
<1>8. Managed'
  BY <1>0, <1>1, <1>2 DEF Managed, At
<1>9. Outliving'
  BY <1>0, <1>1 DEF Outliving
<1> QED
  BY <1>1, <1>3, <1>4, <1>5, <1>6, <1>7, <1>8, <1>9 DEF IInv, SafeInv

\* The set is cleared when nothing in it is open: what is open, was started and
\* still has its peer was in it, so none is left but the connection that the
\* accept handler, on another thread, may be about to start.
LEMMA StopAllEndKeeps == ASSUME IInv, NEW c \in Contexts, StopAllEnd(c) PROVE IInv'
<1>0. /\ Contexts' = Contexts /\ AcceptorContext' = AcceptorContext /\ SignalContext' = SignalContext
      /\ UNCHANGED <<pool, phase, acceptor, accepting, accepted, signal, clients, open, reading,
                     failed, started, gone, fault>>
      /\ running[c].op = "stop" /\ running[c].step = "walk" /\ fault = "none"
      /\ running[c].todo = {}
      /\ conns' = {} /\ running' = [running EXCEPT ![c] = NoHandler]
  BY Frame DEF StopAllEnd, At, sockets
<1>1. /\ NoHandler \in HandlerSet /\ NoHandler.op = "idle" /\ NoHandler.step = "none"
  BY ContextFacts DEF NoHandler, HandlerSet, IInv, TypeOK
<1>2. HandlersOK' /\ running'[c] = NoHandler /\ \A d \in Contexts : d # c => running'[d] = running[d]
  BY <1>0, <1>1, HandlerSet1 DEF IInv
<1>3. Exclusive /\ Walking /\ Starting /\ Managed /\ Outliving
  BY <1>0 DEF IInv, SafeInv
<1>4. conns \cap open = {}
  BY <1>0, <1>3 DEF Walking
<1>5. TypeOK'
  <2>1. acceptor' \in BOOLEAN
    BY <1>0 DEF IInv, TypeOK
  <2>2. DOMAIN running' = Contexts'
    BY <1>0, <1>2 DEF HandlersOK
  <2> QED
    BY <1>0, <2>1, <2>2 DEF IInv, TypeOK
<1>6. Placed'
  <2> SUFFICES ASSUME NEW d \in Contexts PROVE PlacedAt(d)'
    BY <1>0 DEF Placed
  <2>1. CASE d = c
    BY <1>2, <2>1 DEF PlacedAt
  <2>2. CASE d # c
    <3>1. PlacedAt(d) /\ running'[d] = running[d]
      BY <1>2, <2>2 DEF IInv, Placed
    <3> QED
      BY <1>0, <3>1 DEF PlacedAt
  <2> QED
    BY <2>1, <2>2
<1>7. Numbered' /\ Failing' /\ Stopping'
  BY <1>0 DEF IInv, Numbered, Failing, Stopping
<1>8. Named'
  <2>1. Known' = Known
    BY <1>0, <1>1, <1>2 DEF Known
  <2> QED
    BY <1>0, <2>1 DEF IInv, Named, NameOf
<1>9. Exclusive' /\ Walking'
  BY <1>0, <1>1, <1>2, <1>3 DEF Exclusive, Using, Walking
<1>10. Starting'
  BY <1>0, <1>1, <1>2, <1>3, <1>4 DEF Starting
<1>11. Managed'
  BY <1>0, <1>1, <1>2, <1>3, <1>4 DEF Managed, At
<1>12. Outliving'
  <2>1. (open \cap started) \ gone = {}
    <3> SUFFICES ASSUME NEW k \in open \cap started PROVE k \in gone
      OBVIOUS
    <3>1. PICK d \in Contexts : At(d, "fail", "close") /\ running[d].conn = k
      BY <1>0, <1>3, <1>4 DEF Managed
    <3> QED
      BY <3>1, StepOf DEF At, IInv
  <2>2. \A j \in Alive' : \E d \in Contexts :
          d # c /\ running[d].op = "accept" /\ d = AcceptorContext /\ j = accepting
    <3> SUFFICES ASSUME NEW j \in Alive'
                 PROVE  \E d \in Contexts :
                   d # c /\ running[d].op = "accept" /\ d = AcceptorContext /\ j = accepting
      OBVIOUS
    <3>1. PICK d \in Contexts : running'[d].op = "accept" /\ running'[d].conn = j
      BY <1>0, <2>1 DEF Alive
    <3>2. d # c /\ running'[d] = running[d]
      BY <1>1, <1>2, <3>1
    <3> QED
      BY <3>1, <3>2, StepOf DEF IInv
  <2>3. \A j, k \in Alive' : j = k
    BY <2>2
  <2>4. pool = 1 => Alive' = {}
    BY <2>2, ContextFacts DEF IInv, TypeOK
  <2> QED
    BY <1>0, <2>3, <2>4 DEF Outliving
<1> QED
  BY <1>2, <1>5, <1>6, <1>7, <1>8, <1>9, <1>10, <1>11, <1>12 DEF IInv, SafeInv

LEMMA InitInv == Init => IInv
<1> SUFFICES ASSUME Init PROVE IInv
  OBVIOUS
<1>1. acceptor \in BOOLEAN
  BY DEF Init
<1>2. pool \in PoolSizes /\ Len(Peers) \in Nat /\ running \in [Contexts -> {NoHandler}]
  BY ContextFacts DEF Init
<1>3. HandlersOK
  BY <1>2 DEF HandlersOK, HandlerSet, NoHandler
<1>4. DOMAIN clients = {}
  BY DEF Init
<1>5. TypeOK
  BY <1>1, <1>2, <1>4 DEF Init, TypeOK
<1>6. Placed /\ Numbered /\ Failing /\ Stopping
  BY <1>2 DEF Init, Placed, PlacedAt, Numbered, Failing, Stopping
<1>7. \A c \in Contexts : running[c].step = "none"
  BY <1>2 DEF NoHandler
<1>8. Named
  BY <1>4, <1>7 DEF Init, Named, Known
<1>9. SafeInv
  BY <1>7 DEF Init, SafeInv, Exclusive, Using, Walking, Starting, Managed, Outliving
<1> QED
  BY <1>3, <1>5, <1>6, <1>8, <1>9 DEF IInv

LEMMA NextKeeps == IInv /\ [Next]_vars => IInv'
<1> SUFFICES ASSUME IInv, [Next]_vars PROVE IInv'
  OBVIOUS
<1>1. CASE Construct
  BY <1>1, ConstructKeeps
<1>2. CASE Connect
  BY <1>2, ConnectKeeps
<1>3. CASE Run \/ StopPool \/ Raise
  BY <1>3, OutsideKeeps
<1>4. ASSUME NEW k \in Connections, Leave(k) \/ ReadFails(k) PROVE IInv'
  BY <1>4, OutsideKeeps, ReadFailsKeeps
<1>5. CASE AcceptBegin
  BY <1>5, NotAcceptedKeeps, AcceptedKeeps
<1>6. CASE StopBegin
  BY <1>6, StopBeginKeeps
<1>7. ASSUME NEW k \in Connections, FailBegin(k) PROVE IInv'
  BY <1>7, FailBeginKeeps
<1>8. ASSUME NEW c \in Contexts, Step(c) PROVE IInv'
  BY <1>8, AcceptNameKeeps, AcceptInsertKeeps, AcceptStartKeeps, FailEraseKeeps,
     FailCloseKeeps, StopAllBeginKeeps, StopOneKeeps, StopAllEndKeeps DEF Step
<1>9. CASE UNCHANGED vars
  <2> USE <1>9 DEF vars
  <2>0. Contexts' = Contexts /\ AcceptorContext' = AcceptorContext /\ SignalContext' = SignalContext
    BY Frame
  <2>1. acceptor' \in BOOLEAN
    BY DEF IInv, TypeOK
  <2>2. TypeOK' /\ HandlersOK'
    BY <2>0, <2>1 DEF IInv, TypeOK, HandlersOK
  <2>3. Placed' /\ Numbered' /\ Failing' /\ Stopping'
    BY <2>0 DEF IInv, Placed, PlacedAt, Numbered, Failing, Stopping
  <2>4. Named'
    BY <2>0 DEF IInv, Named, Known, NameOf
  <2>5. SafeInv'
    BY <2>0, StillSafe
  <2> QED
    BY <2>2, <2>3, <2>4, <2>5 DEF IInv
<1> QED
  BY <1>1, <1>2, <1>3, <1>4, <1>5, <1>6, <1>7, <1>8, <1>9 DEF Next, Begin

THEOREM Invariant == Spec => []IInv
  BY InitInv, NextKeeps, PTL DEF Spec

\* The types of the server's state; a read is under way only on a socket that
\* is open and was started.
THEOREM TypeCorrect == Spec => []TypeOK
<1>1. IInv => TypeOK
  BY DEF IInv
<1> QED
  BY <1>1, Invariant, PTL

\* However the threads of the pool overlap, and unless they race on it, a
\* connection that is open and was started is in mConnections, or the handler
\* that erased it is about to close it.
THEOREM AllManaged == Spec => []Managed
<1>1. IInv => Managed
  BY DEF IInv, SafeInv, Managed
<1> QED
  BY <1>1, Invariant, PTL

\* One connection at most outlives the handler of the signal, and none if the
\* pool has one thread.
THEOREM FewSurvive == Spec => []Survivors
<1>1. IInv => Survivors
  <2> SUFFICES ASSUME IInv, fault = "none", signal = "taken",
                      \A c \in Contexts : running[c].op # "stop"
               PROVE  Cardinality((open \cap started) \ gone) <= IF pool = 1 THEN 0 ELSE 1
    BY DEF Survivors, SignalHandled
  <2> DEFINE S == (open \cap started) \ gone
  <2>1. S \subseteq Alive
    BY DEF Alive
  <2>2. (\A j, k \in S : j = k) /\ (pool = 1 => S = {})
    BY <2>1 DEF IInv, SafeInv, Outliving
  <2> HIDE DEF S
  <2>3. CASE S = {}
    <3>1. Cardinality(S) = 0
      BY <2>3, FS_EmptySet
    <3> QED
      BY <3>1 DEF S
  <2>4. CASE S # {}
    <3>0. PICK k \in S : TRUE
      BY <2>4
    <3>1. S = {k}
      BY <2>2, <3>0
    <3>2. Cardinality(S) = 1
      BY <3>1, FS_Singleton
    <3> QED
      BY <2>2, <2>4, <3>2 DEF S
  <2> QED
    BY <2>3, <2>4
<1> QED
  BY <1>1, Invariant, PTL

\* In the composite of an address and a port there is only the port left.
LEMMA CompositeIsPort ==
  ASSUME NEW ip \in Nat, NEW port \in 0..(2 ^ PortBits - 1)
  PROVE  GetCompositeIP(ip, port) = port
<1> DEFINE M == 2 ^ PortBits
           n == ip * M + port
           q == n \div M
           r == n % M
<1>1. M \in Nat \ {0} /\ port \in 0..(M - 1)
  BY ServerAssumption DEF ServerAssumption
<1> HIDE DEF M
<1>2. ip * M \in Nat
  BY <1>1
<1>3. n \in Nat
  BY <1>1, <1>2
<1> HIDE DEF n
<1>4. q \in Int /\ r \in 0..(M - 1) /\ n = M * q + r
  BY <1>1, <1>3
<1> HIDE DEF q, r
<1>5. M * (ip - q) = r - port
  BY <1>1, <1>4 DEF n
<1>6. ip - q = 0
  <2>1. ip - q >= 1 => M * (ip - q) >= M
    BY <1>1, <1>4
  <2>2. ip - q <= -1 => M * (ip - q) <= -M
    BY <1>1, <1>4
  <2> QED
    BY <1>1, <1>4, <1>5, <2>1, <2>2
<1>7. r = port
  BY <1>1, <1>4, <1>5, <1>6
<1> QED
  BY <1>7 DEF GetCompositeIP, r, n, M

\* One name at most reaches the connections of a port, whatever addresses they
\* come from: that of the first of them, which is never replaced.
THEOREM OneNamePerPort == Spec => []ReachableByPort
<1>1. ASSUME NEW j \in Connections, NEW k \in Connections, Peers[j].port = Peers[k].port
      PROVE  NameOf(j) = NameOf(k)
  <2>1. /\ Peers[j].ip \in Nat /\ Peers[j].port \in 0..(2 ^ PortBits - 1)
        /\ Peers[k].ip \in Nat /\ Peers[k].port \in 0..(2 ^ PortBits - 1)
    <3> DEFINE Ports == 0..(2 ^ PortBits - 1)
               Endpoints == [ip : Nat, port : Ports]
    <3>1. Peers \in Seq(Endpoints)
      BY ServerAssumption DEF ServerAssumption
    <3>2. \A p \in Endpoints : p.ip \in Nat /\ p.port \in Ports
      <4> HIDE DEF Ports
      <4> QED
        OBVIOUS
    <3> HIDE DEF Endpoints
    <3>3. Peers[j] \in Endpoints /\ Peers[k] \in Endpoints
      BY <3>1 DEF Connections
    <3> QED
      BY <3>2, <3>3
  <2>2. GetCompositeIP(Peers[j].ip, Peers[j].port) = GetCompositeIP(Peers[k].ip, Peers[k].port)
    BY <1>1, <2>1, CompositeIsPort
  <2> QED
    BY <2>2 DEF NameOf, FindInMapping
<1>2. IInv => ReachableByPort
  <2> SUFFICES ASSUME IInv PROVE ReachableByPort
    OBVIOUS
  <2>1. \A n \in DOMAIN clients : clients[n] \in Connections /\ NameOf(clients[n]) = n
    BY DEF IInv, TypeOK, Named
  <2>2. \A k \in started : k \in Connections /\ clients[NameOf(k)] <= k
    BY DEF IInv, TypeOK, Named, Known
  <2> QED
    BY <1>1, <2>1, <2>2 DEF ReachableByPort
<1> QED
  BY <1>2, Invariant, PTL
=============================================================================
