----------------------------- MODULE HttpServer -----------------------------
(***************************************************************************)
(* The life cycle of the host's HTTP server: HttpServer::start / stop      *)
(* (src/host/http_server.cpp), called by one owner thread, the listener    *)
(* thread it spawns, and the parts of httplib::Server those two and the    *)
(* pool threads run: accept loop, thread pool, keep-alive loop, stop.      *)
(*                                                                         *)
(* A connection is used once; it carries at most KeepAliveMax requests.    *)
(***************************************************************************)
EXTENDS Naturals, FiniteSets

CONSTANTS
  Conns,         \* client connections
  Workers,       \* threads in the pool
  KeepAliveMax,  \* keep_alive_max_count_
  MaxStarts,     \* how often the owner may start the server (bound)
  AcceptErrors   \* TRUE: accept may fail with an error that is not retried

ASSUME ServerConstants ==
  /\ Workers \in Nat \ {0}
  /\ KeepAliveMax \in Nat \ {0}
  /\ MaxStarts \in Nat
  /\ AcceptErrors \in BOOLEAN

VARIABLES
  owner,       \* the thread that starts and stops: "out", "stopping", "joining"
  running,     \* HttpServer::running_
  server,      \* whether server_ holds an httplib::Server
  listener,    \* thread_: "none", "spawned", "accepting", "shutdown", "ended"
  isRunning,   \* httplib::Server::is_running_
  sock,        \* svr_sock_: "open", "stale" (closed behind it) or "invalid"
  conn,        \* conn[c]: where connection c is
  left,        \* left[c]: requests c may still carry
  late,        \* late[c]: requests of c begun after stop invalidated svr_sock_
  starts       \* how often start bound the port

net == <<conn, left, late>>
vars == <<owner, running, server, listener, isRunning, sock, net, starts>>

\* "away": not connected yet; "backlog": connected, not accepted; "queued": in
\* the pool's jobs_; "top": a worker is at the head of the keep-alive loop;
\* "waiting": the worker waits for a request; "handling": in a route handler;
\* "closed": closed by the server; "reset": never served, or refused.
ConnStates ==
  {"away", "backlog", "queued", "top", "waiting", "handling", "closed", "reset"}
InWorker(c) == conn[c] \in {"top", "waiting", "handling"}
InPool(c) == conn[c] = "queued" \/ InWorker(c)

Move(c, state) == conn' = [conn EXCEPT ![c] = state]

\* Closing the listening socket resets what nobody accepted.
CloseBacklog ==
  conn' = [c \in Conns |-> IF conn[c] = "backlog" THEN "reset" ELSE conn[c]]

Init ==
  /\ owner = "out" /\ running = FALSE /\ server = FALSE
  /\ listener = "none" /\ isRunning = FALSE /\ sock = "invalid"
  /\ conn = [c \in Conns |-> "away"]
  /\ left = [c \in Conns |-> KeepAliveMax]
  /\ late = [c \in Conns |-> 0]
  /\ starts = 0

-----------------------------------------------------------------------------
(***************************************************************************)
(* The owner: start, start_any and stop                                    *)
(***************************************************************************)

\* start binds and spawns the listener; with running_ set it only returns true,
\* and when the port cannot be bound it leaves everything as it was.
Start ==
  /\ owner = "out" /\ ~running /\ starts < MaxStarts
  /\ server' = TRUE
  /\ sock' = "open"
  /\ running' = TRUE
  /\ listener' = "spawned"
  /\ starts' = starts + 1
  /\ UNCHANGED <<owner, isRunning, net>>

\* stop returns at once when running_ is not set; otherwise it clears it first.
StopBegin ==
  /\ owner = "out" /\ running
  /\ running' = FALSE
  /\ owner' = "stopping"
  /\ UNCHANGED <<server, listener, isRunning, sock, net, starts>>

ServerStop_tests_running ==
  /\ owner = "stopping"
  /\ owner' = "joining"
  /\ \/ running /\ sock' = "invalid" /\ CloseBacklog
     \/ ~running /\ UNCHANGED <<sock, conn>>
  /\ UNCHANGED <<running, server, listener, isRunning, left, late, starts>>

\* httplib::Server::stop: nothing at all unless is_running_ is set.
ServerStop ==
  /\ owner = "stopping"
  /\ owner' = "joining"
  /\ \/ isRunning /\ sock' = "invalid" /\ CloseBacklog
     \/ ~isRunning /\ UNCHANGED <<sock, conn>>
  /\ UNCHANGED <<running, server, listener, isRunning, left, late, starts>>

Join_detach ==
  /\ owner = "joining"
  /\ owner' = "out"
  /\ server' = FALSE
  /\ sock' = "invalid"
  /\ UNCHANGED <<running, listener, isRunning, net, starts>>

\* thread_.join(), then server_.reset()
Join ==
  /\ owner = "joining"
  /\ listener = "ended"
  /\ owner' = "out"
  /\ listener' = "none"
  /\ server' = FALSE
  /\ sock' = "invalid"
  /\ UNCHANGED <<running, isRunning, net, starts>>

-----------------------------------------------------------------------------
(***************************************************************************)
(* The listener thread: listen_after_bind                                  *)
(***************************************************************************)

ListenBegin ==
  /\ listener = "spawned"
  /\ listener' = "accepting"
  /\ isRunning' = TRUE
  /\ UNCHANGED <<owner, running, server, sock, net, starts>>

\* The pool's queue has no limit, so every accepted connection is queued.
Accept(c) ==
  /\ listener = "accepting" /\ sock = "open"
  /\ conn[c] = "backlog"
  /\ Move(c, "queued")
  /\ UNCHANGED <<owner, running, server, listener, isRunning, sock, left, late, starts>>

\* The loop ends when svr_sock_ was invalidated, by its test or by accept failing.
AcceptLoopEnds ==
  /\ listener = "accepting" /\ sock = "invalid"
  /\ listener' = "shutdown"
  /\ UNCHANGED <<owner, running, server, isRunning, sock, net, starts>>

\* accept fails on a healthy socket: it is closed, but svr_sock_ keeps its number.
AcceptFails ==
  /\ AcceptErrors
  /\ listener = "accepting" /\ sock = "open"
  /\ sock' = "stale"
  /\ listener' = "shutdown"
  /\ CloseBacklog
  /\ UNCHANGED <<owner, running, server, isRunning, left, late, starts>>

PoolShutdown_no_join ==
  /\ listener = "shutdown"
  /\ listener' = "ended"
  /\ isRunning' = FALSE
  /\ UNCHANGED <<owner, running, server, sock, net, starts>>

\* ThreadPool::shutdown: the workers empty the queue, then they are joined.
PoolShutdown ==
  /\ listener = "shutdown"
  /\ \A c \in Conns : ~InPool(c)
  /\ listener' = "ended"
  /\ isRunning' = FALSE
  /\ UNCHANGED <<owner, running, server, sock, net, starts>>

-----------------------------------------------------------------------------
(***************************************************************************)
(* Pool threads: one connection each, in process_server_socket_core        *)
(***************************************************************************)

TakeJob(c) ==
  /\ conn[c] = "queued"
  /\ Cardinality({d \in Conns : InWorker(d)}) < Workers
  /\ Move(c, "top")
  /\ UNCHANGED <<owner, running, server, listener, isRunning, sock, left, late, starts>>

LoopTest_ignores_stop(c) ==
  /\ conn[c] = "top"
  /\ IF left[c] > 0 THEN Move(c, "waiting") ELSE Move(c, "closed")
  /\ UNCHANGED <<owner, running, server, listener, isRunning, sock, left, late, starts>>

\* The loop's test: another request only while svr_sock_ is valid.
LoopTest(c) ==
  /\ conn[c] = "top"
  /\ IF sock # "invalid" /\ left[c] > 0 THEN Move(c, "waiting") ELSE Move(c, "closed")
  /\ UNCHANGED <<owner, running, server, listener, isRunning, sock, left, late, starts>>

KeepAliveEnds_never(c) == conn[c] = "waiting" /\ FALSE /\ UNCHANGED vars

\* keep_alive: no request within its time, or the client hung up.
KeepAliveEnds(c) ==
  /\ conn[c] = "waiting"
  /\ Move(c, "closed")
  /\ UNCHANGED <<owner, running, server, listener, isRunning, sock, left, late, starts>>

\* keep_alive sees a request: its handler starts, stopped or not.  Only a stop is
\* counted: a socket that accept's error closed leaves svr_sock_ as it was, and the
\* connections go on as if the server still listened.
HandlerBegin(c) ==
  /\ conn[c] = "waiting"
  /\ Move(c, "handling")
  /\ late' = IF sock = "invalid" THEN [late EXCEPT ![c] = @ + 1] ELSE late
  /\ UNCHANGED <<owner, running, server, listener, isRunning, sock, left, starts>>

\* The response is written, or writing it fails and the connection is closed.
HandlerEnd(c) ==
  /\ conn[c] = "handling"
  /\ left' = [left EXCEPT ![c] = @ - 1]
  /\ Move(c, "top") \/ Move(c, "closed")
  /\ UNCHANGED <<owner, running, server, listener, isRunning, sock, late, starts>>

\* A client connects: the kernel takes it from the bind on.
Connect(c) ==
  /\ conn[c] = "away"
  /\ Move(c, IF sock = "open" THEN "backlog" ELSE "reset")
  /\ UNCHANGED <<owner, running, server, listener, isRunning, sock, left, late, starts>>

Owner == Start \/ StopBegin \/ ServerStop \/ Join
Listener == ListenBegin \/ AcceptLoopEnds \/ PoolShutdown
Worker(c) == TakeJob(c) \/ LoopTest(c) \/ KeepAliveEnds(c) \/ HandlerBegin(c) \/ HandlerEnd(c)

Next ==
  \/ Owner \/ Listener \/ AcceptFails
  \/ \E c \in Conns : Accept(c) \/ Worker(c) \/ Connect(c)

Spec == Init /\ [][Next]_vars

\* Threads are scheduled, handlers return and keep_alive's clock runs.  Nobody
\* has to call start or stop, to connect or to send, and accept need not fail.
Fairness ==
  /\ WF_vars(ServerStop) /\ WF_vars(Join) /\ WF_vars(Listener)
  /\ \A c \in Conns : WF_vars(Accept(c)) /\ WF_vars(LoopTest(c))
                      /\ WF_vars(KeepAliveEnds(c)) /\ WF_vars(HandlerEnd(c))
                      /\ WF_vars(TakeJob(c))

FairSpec == Spec /\ Fairness

-----------------------------------------------------------------------------
(***************************************************************************)
(* Properties                                                              *)
(***************************************************************************)

\* Every variable of the server keeps its type.
TypeOK ==
  /\ owner \in {"out", "stopping", "joining"}
  /\ running \in BOOLEAN /\ server \in BOOLEAN /\ isRunning \in BOOLEAN
  /\ listener \in {"none", "spawned", "accepting", "shutdown", "ended"}
  /\ sock \in {"open", "stale", "invalid"}
  /\ conn \in [Conns -> ConnStates]
  /\ left \in [Conns -> 0..KeepAliveMax]
  /\ late \in [Conns -> Nat]
  /\ starts \in 0..MaxStarts

\* server_.reset() in stop never pulls the httplib::Server, its pool and its
\* routes from under a connection in the pool or under the listener.
ServerOutlivesItsThreads ==
  (\E c \in Conns : InPool(c)) \/ listener \in {"spawned", "accepting", "shutdown"}
    => server

\* A keep-alive client cannot hold up stop: after stop has closed the listening
\* socket a connection gets at most the one request its worker was waiting for.
AtMostOneLateRequest == \A c \in Conns : late[c] <= 1

\* Once stop has returned nothing is open or half served, and start can run again.
StopLeavesNothing ==
  owner = "out" /\ ~running =>
    /\ listener = "none" /\ ~server /\ ~isRunning /\ sock = "invalid"
    /\ \A c \in Conns : conn[c] \in {"away", "closed", "reset"}

\* A stop that finds the listener listening returns, whatever its clients do.
ReadyStopReturns == owner = "stopping" /\ isRunning ~> owner = "out"

\* Every connection is served and closed, or reset, however many clients sit
\* idle in the pool's threads, and whether or not the server is stopped.
EveryConnectionEnds ==
  \A c \in Conns : conn[c] # "away" ~> conn[c] \in {"closed", "reset"}

=============================================================================
