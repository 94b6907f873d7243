--------------------------- MODULE MainThreadQueue ---------------------------
(***************************************************************************)
(* The queue that marshals work onto REAPER's main thread                  *)
(* (src/host/main_thread_queue.{h,cpp}).  Any thread hands tasks in with   *)
(* enqueue, submit or submit_void; the main thread calls drain_all, which  *)
(* takes the whole queue under the mutex and then runs the batch without   *)
(* it.  submit and submit_void wait for a future with a timeout.           *)
(*                                                                         *)
(* A call is made by a worker thread or, when host[c] is a task, by that   *)
(* task while it runs: then a submit blocks the main thread itself.  Each  *)
(* call is made at most once, which bounds the queue.                      *)
(***************************************************************************)
EXTENDS Naturals, Sequences, Functions

CONSTANTS Calls, None

ASSUME QueueConstants == None \notin Calls

VARIABLES
  kind,        \* kind[c]: the member function c calls, None before
  host,        \* host[c]: the task that makes the call, None for a worker
  caller,      \* caller[c]: how far call c is (CallerStates)
  answer,      \* answer[c]: what submit / submit_void returned
  future,      \* future[c]: "none", "value" or "error"
  queue,       \* queue_: tasks waiting, oldest first
  batch,       \* drain_all's local deque, the part not yet started
  running,     \* the task the main thread is in, or None
  draining,    \* whether the main thread is in drain_all
  drained,     \* local.size(), what drain_all will return
  pushed,      \* every call that was queued, in that order (history)
  ran,         \* every task that ended, in that order (history)
  cleared,     \* the tasks clear() dropped (history)
  swap         \* Len(pushed) and Len(ran) at the last swap (history)

callers == <<kind, host, caller, answer>>
consumer == <<batch, running, draining, drained, swap>>
vars == <<callers, future, queue, consumer, pushed, ran, cleared>>

Kinds == {"enqueue", "submit", "submit_void"}
CallerStates == {"idle", "waiting", "answered", "timedout", "left"}

Init ==
  /\ kind = [c \in Calls |-> None]
  /\ host = [c \in Calls |-> None]
  /\ caller = [c \in Calls |-> "idle"]
  /\ answer = [c \in Calls |-> "none"]
  /\ future = [c \in Calls |-> "none"]
  /\ queue = <<>> /\ batch = <<>>
  /\ running = None /\ draining = FALSE /\ drained = 0
  /\ pushed = <<>> /\ ran = <<>> /\ cleared = {}
  /\ swap = [pushed |-> 0, ran |-> 0]

-----------------------------------------------------------------------------

\* The main thread sits in wait_for of a call that its own task made.
MainBlocked ==
  \E c \in Calls : host[c] # None /\ host[c] = running /\ caller[c] = "waiting"

\* enqueue / submit / submit_void up to the wait: the task is pushed under the
\* mutex.  A task can make calls only while it runs and is not blocked.
Push(c, k, h) ==
  /\ caller[c] = "idle"
  /\ h # None => h = running /\ ~MainBlocked
  /\ kind' = [kind EXCEPT ![c] = k]
  /\ host' = [host EXCEPT ![c] = h]
  /\ caller' = [caller EXCEPT ![c] = IF k = "enqueue" THEN "left" ELSE "waiting"]
  /\ queue' = Append(queue, c)
  /\ pushed' = Append(pushed, c)
  /\ UNCHANGED <<answer, future, consumer, ran, cleared>>

Get_spurious(c) ==
  /\ caller[c] = "waiting"
  /\ answer' = [answer EXCEPT ![c] = IF future[c] = "value" THEN "true" ELSE "false"]
  /\ caller' = [caller EXCEPT ![c] = "answered"]
  /\ UNCHANGED <<kind, host, future, queue, consumer, pushed, ran, cleared>>

\* wait_for finds the future ready: get() returns the value or, in submit,
\* rethrows; submit_void's task has turned an exception into false.
Get(c) ==
  /\ caller[c] = "waiting"
  /\ future[c] # "none"
  /\ answer' = [answer EXCEPT ![c] =
       IF kind[c] = "submit" THEN future[c]
       ELSE IF future[c] = "value" THEN "true" ELSE "false"]
  /\ caller' = [caller EXCEPT ![c] = "answered"]
  /\ UNCHANGED <<kind, host, future, queue, consumer, pushed, ran, cleared>>

Timeout_never(c) == caller[c] = "waiting" /\ FALSE /\ UNCHANGED vars

\* wait_for runs out of time; the task stays where it is.
Timeout(c) ==
  /\ caller[c] = "waiting"
  /\ future[c] = "none"
  /\ answer' = [answer EXCEPT ![c] = IF kind[c] = "submit" THEN "nullopt" ELSE "false"]
  /\ caller' = [caller EXCEPT ![c] = "timedout"]
  /\ UNCHANGED <<kind, host, future, queue, consumer, pushed, ran, cleared>>

-----------------------------------------------------------------------------

DrainSwap_copy ==
  /\ ~draining
  /\ draining' = TRUE
  /\ batch' = queue
  /\ drained' = Len(queue)
  /\ swap' = [pushed |-> Len(pushed), ran |-> Len(ran)]
  /\ UNCHANGED <<callers, future, queue, running, pushed, ran, cleared>>

DrainSwap_off_by_one ==
  /\ ~draining
  /\ draining' = TRUE
  /\ batch' = queue
  /\ queue' = <<>>
  /\ drained' = Len(queue) - 1
  /\ swap' = [pushed |-> Len(pushed), ran |-> Len(ran)]
  /\ UNCHANGED <<callers, future, running, pushed, ran, cleared>>

\* drain_all: local.swap(queue_) under the mutex
DrainSwap ==
  /\ ~draining
  /\ draining' = TRUE
  /\ batch' = queue
  /\ queue' = <<>>
  /\ drained' = Len(queue)
  /\ swap' = [pushed |-> Len(pushed), ran |-> Len(ran)]
  /\ UNCHANGED <<callers, future, running, pushed, ran, cleared>>

StartTask_live_queue ==
  /\ draining
  /\ running = None
  /\ batch \o queue # <<>>
  /\ running' = Head(batch \o queue)
  /\ batch' = Tail(batch \o queue)
  /\ queue' = <<>>
  /\ UNCHANGED <<callers, future, draining, drained, swap, pushed, ran, cleared>>

StartTask ==
  /\ running = None
  /\ batch # <<>>
  /\ running' = Head(batch)
  /\ batch' = Tail(batch)
  /\ UNCHANGED <<callers, future, queue, draining, drained, swap, pushed, ran, cleared>>

EndTask_unblocked(threw) ==
  /\ running # None
  /\ future' = IF kind[running] = "enqueue" THEN future
               ELSE [future EXCEPT ![running] = IF threw THEN "error" ELSE "value"]
  /\ ran' = Append(ran, running)
  /\ running' = None
  /\ UNCHANGED <<callers, queue, batch, draining, drained, swap, pushed, cleared>>

\* A submitted task whose exception reaches drain_all instead of its promise
EndTask_swallows(threw) ==
  /\ running # None
  /\ ~MainBlocked
  /\ future' = IF kind[running] = "enqueue" \/ threw THEN future
               ELSE [future EXCEPT ![running] = "value"]
  /\ ran' = Append(ran, running)
  /\ running' = None
  /\ UNCHANGED <<callers, queue, batch, draining, drained, swap, pushed, cleared>>

\* The task ends; a submitted one sets its promise, an exception of a plain
\* one is swallowed by drain_all.
EndTask(threw) ==
  /\ running # None
  /\ ~MainBlocked
  /\ future' = IF kind[running] = "enqueue" THEN future
               ELSE [future EXCEPT ![running] = IF threw THEN "error" ELSE "value"]
  /\ ran' = Append(ran, running)
  /\ running' = None
  /\ UNCHANGED <<callers, queue, batch, draining, drained, swap, pushed, cleared>>

\* drain_all returns drained.
DrainReturn ==
  /\ draining
  /\ running = None
  /\ batch = <<>>
  /\ draining' = FALSE
  /\ UNCHANGED <<callers, future, queue, batch, running, drained, swap, pushed, ran, cleared>>

\* clear(): the queue's tasks are destroyed, the batch being run is untouched.
\* The submitter holds the promise too, so its future is not broken.
Clear ==
  /\ queue # <<>>
  /\ cleared' = cleared \union Range(queue)
  /\ queue' = <<>>
  /\ UNCHANGED <<callers, future, consumer, pushed, ran>>

Next ==
  \/ \E c \in Calls, k \in Kinds, h \in Calls \union {None} : Push(c, k, h)
  \/ \E c \in Calls : Get(c) \/ Timeout(c)
  \/ DrainSwap \/ StartTask \/ DrainReturn
  \/ \E threw \in BOOLEAN : EndTask(threw)
  \/ Clear

\* The clock runs: a waiting call is answered or times out.
CallerFairness == \A c \in Calls : WF_vars(Get(c) \/ Timeout(c))

\* REAPER's main loop keeps draining, and tasks end unless they block.
ConsumerFairness ==
  /\ WF_vars(DrainSwap) /\ WF_vars(StartTask) /\ WF_vars(DrainReturn)
  /\ WF_vars(\E threw \in BOOLEAN : EndTask(threw))

Spec == Init /\ [][Next]_vars
FairSpec == Spec /\ CallerFairness /\ ConsumerFairness

-----------------------------------------------------------------------------
(***************************************************************************)
(* Properties                                                              *)
(***************************************************************************)

Answers == {"none", "value", "error", "true", "false", "nullopt"}

\* Every variable of the queue keeps its type.
TypeOK ==
  /\ kind \in [Calls -> Kinds \union {None}]
  /\ host \in [Calls -> Calls \union {None}]
  /\ caller \in [Calls -> CallerStates]
  /\ answer \in [Calls -> Answers]
  /\ future \in [Calls -> {"none", "value", "error"}]
  /\ {queue, batch, pushed, ran} \subseteq Seq(Calls)
  /\ running \in Calls \union {None}
  /\ draining \in BOOLEAN
  /\ drained \in Nat
  /\ cleared \subseteq Calls
  /\ swap \in [pushed: Nat, ran: Nat]

InHand == IF running = None THEN <<>> ELSE <<running>>
Line == InHand \o batch \o queue
Kept == ran \o Line

\* Across swaps, nested calls, timeouts and clears every task handed in is run
\* exactly once, in the order of the pushes, except those a clear dropped: pos
\* gives each task its place among the pushes.
FifoExactlyOnce ==
  /\ Range(Kept) = Range(pushed) \ cleared
  /\ \E pos \in [DOMAIN Kept -> DOMAIN pushed] :
       /\ \A i \in DOMAIN Kept : Kept[i] = pushed[pos[i]]
       /\ \A i, j \in DOMAIN Kept : i < j => pos[i] < pos[j]

\* drain_all works on what was queued before it took the queue: what its own
\* tasks push, and what arrives meanwhile, waits for the next drain.
DrainTakesOnlyOldTasks ==
  draining => Range(InHand \o batch) \subseteq Range(SubSeq(pushed, 1, swap.pushed))

\* drain_all returns the number of tasks it executed, the throwing ones included.
DrainCountsExecuted ==
  [][DrainReturn => drained = Len(ran) - swap.ran]_vars

\* What a waiting caller can hope for: its answer is there, or its task is on its
\* way to be run; or a clear dropped the task, and only then will no answer come,
\* as the submitter's own reference keeps the promise from being broken
\* (main_thread_queue.cpp:51-54, main_thread_queue.h:63-76).
WaitersAreServed ==
  \A c \in Calls :
    /\ caller[c] = "waiting" => future[c] # "none" \/ c \in Range(Line) \/ c \in cleared
    /\ c \in cleared => future[c] = "none" /\ c \notin Range(Line) /\ caller[c] # "idle"

\* A submit made on the main thread can never get its answer there: the main
\* thread is the only one that could run the task, and it is the one waiting.
OwnSubmitOnlyTimesOut ==
  \A c \in Calls : host[c] # None => caller[c] # "answered"

\* While REAPER's main loop drains, a task that was handed in is run or cleared,
\* though nobody waits for it any more, and though tasks of the main thread wait
\* for tasks behind them.
TaskRunsOrIsCleared ==
  \A c \in Calls : c \in Range(Line) ~> c \in Range(ran) \union cleared

\* The queue implements the abstract calls; a task takes effect when it ends.
Phase(c) ==
  CASE caller[c] = "idle"                 -> "new"
    [] caller[c] \in {"left", "timedout"} -> "gone"
    [] OTHER                              -> caller[c]

Marshalled == INSTANCE MarshalledCalls WITH
  todo <- Line, done <- ran, phase <- [c \in Calls |-> Phase(c)]

ImplementsMarshalledCalls == Marshalled!CallsSpec

=============================================================================
