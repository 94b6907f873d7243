------------------------- MODULE HttpServer_proofs -------------------------
(***************************************************************************)
(* Proofs about the life cycle of the HTTP server, for any number of       *)
(* connections, pool threads, requests per connection and restarts, with   *)
(* accept errors and with a stop that comes before the listener is ready.  *)
(***************************************************************************)
EXTENDS HttpServer, FiniteSetTheorems, TLAPS

\* How the owner's and the listener's variables go together.
Threads ==
  /\ server <=> listener # "none"
  /\ isRunning <=> listener \in {"accepting", "shutdown"}
  /\ running => owner = "out" /\ listener # "none"
  /\ owner = "out" /\ ~running => listener = "none"
  /\ owner # "out" => listener # "none"
  /\ listener = "none" => sock = "invalid"
  /\ sock = "open" => listener \in {"spawned", "accepting"}

\* A connection waits for accept only at an open socket, and is in the pool only
\* while the listener has not joined it; a late request is its last one.
Served(c) ==
  /\ conn[c] = "backlog" => sock = "open"
  /\ InPool(c) => listener \in {"accepting", "shutdown"}
  /\ conn[c] \in {"waiting", "handling"} => left[c] > 0
  /\ late[c] <= 1
  /\ conn[c] \in {"away", "backlog", "queued", "waiting"} => late[c] = 0
  /\ conn[c] \in {"top", "handling"} /\ sock # "invalid" => late[c] = 0

ServerInv == TypeOK /\ Threads /\ \A c \in Conns : Served(c)

LEMMA ServerInit == Init => ServerInv
  <1> SUFFICES ASSUME Init PROVE ServerInv
    OBVIOUS
  <1>1. TypeOK
    <2>1. KeepAliveMax \in 0..KeepAliveMax /\ 0 \in 0..MaxStarts
      BY ServerConstants
    <2>2. /\ conn \in [Conns -> ConnStates]
          /\ left \in [Conns -> 0..KeepAliveMax]
          /\ late \in [Conns -> Nat]
      BY <2>1 DEF Init, ConnStates
    <2> QED
      BY <2>1, <2>2 DEF Init, TypeOK
  <1>2. Threads
    BY DEF Init, Threads
  <1>3. ASSUME NEW c \in Conns PROVE Served(c)
    BY ServerConstants DEF Init, Served, InPool, InWorker
  <1> QED
    BY <1>1, <1>2, <1>3 DEF ServerInv

LEMMA ServerNext == ServerInv /\ [Next]_vars => ServerInv'
  <1> SUFFICES ASSUME ServerInv, [Next]_vars PROVE ServerInv'
    OBVIOUS
  <1> USE ServerConstants
      DEF ServerInv, TypeOK, Threads, Served, InPool, InWorker, net, Move, CloseBacklog, ConnStates
  <1>1. CASE Start
    BY <1>1 DEF Start
  <1>2. CASE StopBegin
    BY <1>2 DEF StopBegin
  <1>3. CASE ServerStop
    BY <1>3 DEF ServerStop
  <1>4. CASE Join
    BY <1>4 DEF Join
  <1>5. CASE ListenBegin
    BY <1>5 DEF ListenBegin
  <1>6. CASE AcceptLoopEnds
    BY <1>6 DEF AcceptLoopEnds
  <1>7. CASE AcceptFails
    BY <1>7 DEF AcceptFails
  <1>8. CASE PoolShutdown
    BY <1>8 DEF PoolShutdown
  <1>9. ASSUME NEW c \in Conns, Accept(c) PROVE ServerInv'
    BY <1>9 DEF Accept
  <1>10. ASSUME NEW c \in Conns, Connect(c) PROVE ServerInv'
    BY <1>10 DEF Connect
  <1>11. ASSUME NEW c \in Conns, TakeJob(c) PROVE ServerInv'
    BY <1>11 DEF TakeJob
  <1>12. ASSUME NEW c \in Conns, LoopTest(c) PROVE ServerInv'
    BY <1>12 DEF LoopTest
  <1>13. ASSUME NEW c \in Conns, KeepAliveEnds(c) PROVE ServerInv'
    BY <1>13 DEF KeepAliveEnds
  <1>14. ASSUME NEW c \in Conns, HandlerBegin(c) PROVE ServerInv'
    BY <1>14 DEF HandlerBegin
  <1>15. ASSUME NEW c \in Conns, HandlerEnd(c) PROVE ServerInv'
    BY <1>15 DEF HandlerEnd
  <1>16. CASE UNCHANGED vars
    BY <1>16 DEF vars
  <1> QED
    BY <1>1, <1>2, <1>3, <1>4, <1>5, <1>6, <1>7, <1>8, <1>9, <1>10, <1>11, <1>12, <1>13,
       <1>14, <1>15, <1>16 DEF Next, Owner, Listener, Worker

LEMMA ServerInvAlways == Spec => []ServerInv
  BY ServerInit, ServerNext, PTL DEF Spec

\* stop destroys the httplib::Server only after every thread that uses it is gone.
THEOREM NoUseAfterReset == Spec => []ServerOutlivesItsThreads
  <1>1. ServerInv => ServerOutlivesItsThreads
    BY DEF ServerInv, Threads, Served, ServerOutlivesItsThreads
  <1> QED
    BY <1>1, ServerInvAlways, PTL

\* However many requests a keep-alive client has queued up, stop waits for one.
THEOREM OneLateRequest == Spec => []AtMostOneLateRequest
  <1>1. ServerInv => AtMostOneLateRequest
    BY DEF ServerInv, Served, AtMostOneLateRequest
  <1> QED
    BY <1>1, ServerInvAlways, PTL

\* A stop that returns leaves nothing open, served or running.
THEOREM StoppedIsStopped == Spec => []StopLeavesNothing
  <1>1. ServerInv => StopLeavesNothing
    BY DEF ServerInv, TypeOK, Threads, Served, StopLeavesNothing, InPool, InWorker, ConnStates
  <1> QED
    BY <1>1, ServerInvAlways, PTL

-----------------------------------------------------------------------------
(***************************************************************************)
(* What a stop waits for                                                   *)
(***************************************************************************)

SocketInv ==
  /\ listener = "spawned" => sock = "open"
  /\ listener = "accepting" => sock # "stale"

LEMMA SocketAlways == Spec => []SocketInv
  <1>1. Init => SocketInv
    BY DEF Init, SocketInv
  <1>2. SocketInv /\ ServerInv /\ [Next]_vars => SocketInv'
    <2> SUFFICES ASSUME SocketInv, ServerInv, [Next]_vars PROVE SocketInv'
      OBVIOUS
    <2> USE DEF SocketInv
    <2>1. CASE Owner
      BY <2>1 DEF Owner, Start, StopBegin, ServerStop, Join, ServerInv, Threads
    <2>2. CASE Listener \/ AcceptFails
      BY <2>2 DEF Listener, ListenBegin, AcceptLoopEnds, PoolShutdown, AcceptFails
    <2>3. CASE \E c \in Conns : Accept(c) \/ Worker(c) \/ Connect(c)
      BY <2>3 DEF Accept, Worker, TakeJob, LoopTest, KeepAliveEnds, HandlerBegin, HandlerEnd, Connect
    <2>4. CASE UNCHANGED vars
      BY <2>4 DEF vars
    <2> QED
      BY <2>1, <2>2, <2>3, <2>4 DEF Next
  <1> QED
    BY <1>1, <1>2, ServerInvAlways, PTL DEF Spec

\* A worker is free for a connection in the pool's queue.
WorkerFree == Cardinality({c \in Conns : InWorker(c)}) < Workers

\* While stop joins the listener thread, that thread has ended, or can take a step,
\* or a pool thread it waits for can; unless the stop came before is_running_ was
\* set, so that the listener accepts at an open socket, or is about to.
JoinIsNotStuck ==
  owner = "joining" =>
    \/ listener = "ended"
    \/ listener = "accepting" /\ sock = "invalid"
    \/ /\ listener = "shutdown"
       /\ \/ \A c \in Conns : ~InPool(c)
          \/ \E c \in Conns : InWorker(c)
          \/ \E c \in Conns : conn[c] = "queued" /\ WorkerFree
    \/ listener \in {"spawned", "accepting"} /\ sock = "open"

\* However many connections are queued for however few threads, a stop that found
\* the listener listening never waits for threads that all wait.
THEOREM StopIsNotStuck == Spec => []JoinIsNotStuck
  <1>1. ServerInv /\ SocketInv => JoinIsNotStuck
    <2> SUFFICES ASSUME ServerInv, SocketInv, owner = "joining" PROVE JoinIsNotStuck
      BY DEF JoinIsNotStuck
    <2>1. listener \in {"spawned", "accepting", "shutdown", "ended"}
      BY DEF ServerInv, TypeOK, Threads
    <2>2. listener = "spawned" => sock = "open"
      BY DEF SocketInv
    <2>3. listener = "accepting" => sock \in {"open", "invalid"}
      BY DEF ServerInv, TypeOK, SocketInv
    <2>4. \/ \A c \in Conns : ~InPool(c)
          \/ \E c \in Conns : InWorker(c)
          \/ \E c \in Conns : conn[c] = "queued" /\ WorkerFree
      <3>1. CASE \E c \in Conns : InWorker(c)
        BY <3>1
      <3>2. CASE \A c \in Conns : ~InWorker(c)
        <4>1. {c \in Conns : InWorker(c)} = {}
          BY <3>2
        <4>2. WorkerFree
          BY <4>1, FS_EmptySet, ServerConstants DEF WorkerFree
        <4> QED
          BY <3>2, <4>2 DEF InPool
      <3> QED
        BY <3>1, <3>2
    <2> QED
      BY <2>1, <2>2, <2>3, <2>4 DEF JoinIsNotStuck
  <1> QED
    BY <1>1, ServerInvAlways, SocketAlways, PTL

\* The steps a connection may still cost a stop: the wait, one request, the test
StepsLeft(c) ==
  CASE conn[c] = "waiting" -> 3
    [] conn[c] \in {"queued", "handling"} -> 2
    [] conn[c] = "top" -> 1
    [] OTHER -> 0

\* From the closing of the socket to the return of stop, every step of a pool thread
\* takes its connection nearer to its end, no other step takes any further from
\* it, and the socket stays closed.
ClosingGoesForward ==
  [][owner = "joining" /\ sock = "invalid" =>
       /\ sock' = "invalid"
       /\ \A c \in Conns : StepsLeft(c)' <= StepsLeft(c)
       /\ \A c \in Conns : Worker(c) => StepsLeft(c)' < StepsLeft(c)]_vars

\* So a stop waits for at most three steps of each connection's, whatever its
\* client sends: the ranking that ReadyStopReturns needs under fairness.
THEOREM StopGoesForward == Spec => ClosingGoesForward
  <1>1. ASSUME ServerInv, [Next]_vars, owner = "joining", sock = "invalid"
        PROVE  /\ sock' = "invalid"
               /\ \A c \in Conns : StepsLeft(c)' <= StepsLeft(c)
               /\ \A c \in Conns : Worker(c) => StepsLeft(c)' < StepsLeft(c)
    <2>1. conn \in [Conns -> ConnStates]
      BY <1>1 DEF ServerInv, TypeOK
    <2>2. ASSUME NEW d \in Conns, Worker(d)
          PROVE  /\ sock' = "invalid"
                 /\ StepsLeft(d)' < StepsLeft(d)
                 /\ \A c \in Conns \ {d} : conn'[c] = conn[c]
      BY <1>1, <2>1, <2>2
      DEF Worker, TakeJob, LoopTest, KeepAliveEnds, HandlerBegin, HandlerEnd, Move, StepsLeft
    <2>3. \A c \in Conns : StepsLeft(c) \in Nat
      BY DEF StepsLeft
    <2>4. CASE \E d \in Conns : Worker(d)
      <3>1. PICK d \in Conns : Worker(d)
        BY <2>4
      <3>2. \A c \in Conns \ {d} : StepsLeft(c)' = StepsLeft(c)
        BY <2>2, <3>1 DEF StepsLeft
      <3>3. \A c \in Conns : Worker(c) => StepsLeft(c)' < StepsLeft(c)
        BY <2>2
      <3>4. ASSUME NEW c \in Conns PROVE StepsLeft(c)' <= StepsLeft(c)
        <4>1. StepsLeft(c) \in Nat /\ StepsLeft(c)' \in Nat
          BY DEF StepsLeft
        <4>2. CASE c = d
          BY <3>1, <3>3, <4>1, <4>2
        <4>3. CASE c # d
          BY <3>2, <4>1, <4>3
        <4> QED
          BY <4>2, <4>3
      <3>5. sock' = "invalid"
        BY <2>2, <3>1
      <3> QED
        BY <3>3, <3>4, <3>5
    <2>5. ASSUME sock' = "invalid", ~\E d \in Conns : Worker(d),
                 \A c \in Conns : \/ conn'[c] = conn[c]
                                  \/ conn'[c] = "reset"
          PROVE  \A c \in Conns : StepsLeft(c)' <= StepsLeft(c)
      BY <2>3, <2>5 DEF StepsLeft
    <2>6. CASE ~\E d \in Conns : Worker(d)
      <3>1. CASE Owner \/ Listener \/ AcceptFails
        <4>1. sock' = "invalid" /\ \A c \in Conns : conn'[c] = conn[c]
          BY <1>1, <3>1 DEF Owner, Start, StopBegin, ServerStop, Join, Listener, ListenBegin,
             AcceptLoopEnds, PoolShutdown, AcceptFails, net
        <4> QED
          BY <2>5, <2>6, <4>1
      <3>2. CASE \E d \in Conns : Accept(d) \/ Connect(d)
        <4>1. /\ sock' = "invalid"
              /\ \A c \in Conns : conn'[c] = conn[c] \/ conn'[c] = "reset"
          BY <1>1, <2>1, <3>2 DEF Accept, Connect, Move
        <4> QED
          BY <2>5, <2>6, <4>1
      <3>3. CASE UNCHANGED vars
        BY <1>1, <2>5, <2>6, <3>3 DEF vars, net
      <3> QED
        BY <1>1, <2>6, <3>1, <3>2, <3>3 DEF Next
    <2> QED
      BY <2>4, <2>6
  <1> HIDE DEF ServerInv
  <1>2. ServerInv /\ [Next]_vars =>
          [owner = "joining" /\ sock = "invalid" =>
             /\ sock' = "invalid"
             /\ \A c \in Conns : StepsLeft(c)' <= StepsLeft(c)
             /\ \A c \in Conns : Worker(c) => StepsLeft(c)' < StepsLeft(c)]_vars
    BY <1>1
  <1> HIDE DEF Next, vars, StepsLeft, Worker
  <1> QED
    BY <1>2, ServerInvAlways, PTL DEF Spec, ClosingGoesForward

=============================================================================
