------------------------------- MODULE Bench -------------------------------
(***************************************************************************)
(* The two programs that drive an Executor: the smoke test                 *)
(* (src/host/main.cpp) and the benchmark (src/host/bench.cpp), which times *)
(* invocations of each runtime, takes percentiles and gives the verdict    *)
(* GO or NO-GO.  A third driver is an embedder free in its calls.          *)
(*                                                                         *)
(* A latency is abstracted to whether it exceeds the budget.  That loses   *)
(* nothing: a percentile is one of the sorted latencies, so it is within   *)
(* the budget iff its index lies before the slow ones.                     *)
(***************************************************************************)
EXTENDS Executor

CONSTANTS
  Drivers,     \* which of "main", "bench", "embedder" may run
  BenchSizes,  \* values of --n
  Warmup,      \* invocations before the measurement (50 in the code)
  MaxSlow      \* how many latencies may exceed the budget, per runtime (bound)

ASSUME BenchConstants ==
  /\ Drivers \subseteq {"main", "bench", "embedder"}
  /\ BenchSizes \subseteq Int
  /\ Warmup \in Nat /\ MaxSlow \in Nat

VARIABLES
  driver,  \* who drives the executor
  n,       \* --n: invocations to time per runtime
  phase,   \* where the driver is
  timed,   \* invocations timed in this phase
  slow,    \* slow[id]: the latencies of that runtime over the budget
  report   \* "none", or the verdict written to the report

bench == <<driver, n, phase, timed, slow, report>>
allVars == <<vars, bench>>

Timed == {"lua-demo", "js-demo", "jsfx-demo"}

BenchInit ==
  /\ Init
  /\ driver \in Drivers
  /\ n \in IF driver = "bench" THEN BenchSizes ELSE {0}
  /\ phase = "start" /\ timed = 0
  /\ slow = [id \in Timed |-> 0]
  /\ report = "none"

TheThread == CHOOSE t \in Threads : TRUE

Enter(next) == phase' = next /\ timed' = 0

\* Both programs: install the main thread, init, and exit 1 when init fails.
Begin ==
  /\ driver # "embedder" /\ phase = "start"
  /\ \/ InstallMainThread(TheThread) /\ UNCHANGED phase
     \/ mainThread # None /\ InitCall(TheThread) /\ phase' = "init"
  /\ UNCHANGED <<driver, n, timed, slow, report>>

Initialised ==
  /\ phase = "init" /\ IsIdle
  /\ Enter(CASE ~answer.ok          -> "exit 1"
             [] answer.ok /\ driver = "main"  -> "shutdown"
             [] answer.ok /\ driver = "bench" -> "warmup")
  /\ UNCHANGED <<vars, driver, n, slow, report>>

\* What time_invokes asks for; "1+1" is no function's name, so the expression
\* made of it ("return 1+1()", "globalThis.1+1()") does not parse.
BenchScript(id) ==
  IF id = "jsfx-demo" THEN [does |-> "return", value |-> "nil"] ELSE [does |-> "syntax"]

Runtime == IF phase = "warmup" THEN "lua-demo" ELSE phase
Size == IF phase = "warmup" THEN Warmup ELSE n
NextPhase ==
  CASE phase = "warmup" -> "lua-demo"   [] phase = "lua-demo"  -> "js-demo"
    [] phase = "js-demo" -> "jsfx-demo" [] phase = "jsfx-demo" -> "shutdown"

Measuring == phase \in Timed \cup {"warmup"} /\ IsIdle

\* time_invokes drops the result; only the time taken counts, the warm-up's not.
TimeInvoke ==
  /\ Measuring /\ timed < Size
  /\ Invoke(TheThread, Runtime, BenchScript(Runtime))
  /\ timed' = timed + 1
  /\ \E over \in {0, 1} :
       /\ phase = "warmup" \/ slow[Runtime] = MaxSlow => over = 0
       /\ slow' = [slow EXCEPT ![Runtime] = @ + over]
  /\ UNCHANGED <<driver, n, phase, report>>

\* A negative size makes us.reserve throw, which nobody catches.
TimeNegative ==
  /\ Measuring /\ Size < 0
  /\ Enter("terminated")
  /\ UNCHANGED <<vars, driver, n, slow, report>>

TimedAll ==
  /\ Measuring /\ timed = Size
  /\ Enter(NextPhase)
  /\ UNCHANGED <<vars, driver, n, slow, report>>

ShutDown ==
  /\ phase = "shutdown" /\ Shutdown
  /\ Enter(IF driver = "main" THEN "exit 0" ELSE "report")
  /\ UNCHANGED <<driver, n, slow, report>>

\* pick(0.95): the sorted latencies' index; the fast ones come first.  With no
\* latencies the percentile is 0.
P95Index_p90 == (90 * (n - 1)) \div 100
P95Index == (95 * (n - 1)) \div 100
P95WithinBudget(id) == n = 0 \/ P95Index < n - slow[id]

\* The report, unless its file cannot be opened
Report ==
  /\ phase = "report"
  /\ \/ /\ report' = IF \A id \in Timed : P95WithinBudget(id) THEN "GO" ELSE "NO-GO"
        /\ Enter(IF report' = "GO" THEN "exit 0" ELSE "exit 1")
     \/ UNCHANGED report /\ Enter("exit 1")
  /\ UNCHANGED <<vars, driver, n, slow>>

\* The process that has ended stays so.
Ended ==
  /\ phase \in {"exit 0", "exit 1", "terminated"} \/ fate # "alive"
  /\ UNCHANGED allVars

BenchNext ==
  \/ Step /\ UNCHANGED bench
  \/ driver = "embedder" /\ Next /\ UNCHANGED bench
  \/ Begin \/ Initialised
  \/ TimeInvoke \/ TimeNegative \/ TimedAll
  \/ ShutDown \/ Report
  \/ Ended

BenchSpec == BenchInit /\ [][BenchNext]_allVars

-----------------------------------------------------------------------------
(***************************************************************************)
(* Property                                                                *)
(***************************************************************************)

\* What GO says and no more: of every runtime's latencies at most one in twenty,
\* rounded up, was over the budget, for every size of the benchmark, the small ones
\* too (bench.cpp:23-34, 91-93).  It says nothing of what was invoked: no invocation
\* has to succeed, nor to be one of the 1000 no-ops that multi-runtime/spec.md:53
\* asks for, and a benchmark of size 0 is GO.
GoMeansP95 == report = "GO" => \A id \in Timed : 20 * slow[id] < n + 20

=============================================================================
