------------------------------ MODULE Executor ------------------------------
(***************************************************************************)
(* class Executor (src/host/executor.cpp) and the runtimes it owns         *)
(* (src/host/runtime/): init with its roll-back, shutdown, and invoke,     *)
(* which evaluates a call expression in Lua or QuickJS.  One call runs at  *)
(* a time, on any thread, as the classes have no locks; a second init      *)
(* comes only after a shutdown or a failed init.                           *)
(*                                                                         *)
(* The libraries are external: an allocation may fail, evaluating may      *)
(* fail, and C code must give back what it takes from their stacks and     *)
(* heaps.  heap is what the libraries have allocated, handle what the      *)
(* classes' members point to.                                              *)
(***************************************************************************)
EXTENDS Bridge

CONSTANTS
  Threads,    \* threads of the process
  JsBridges,  \* what of the bridge a registration may get into QuickJS (bound)
  None        \* the default thread id

ASSUME ExecutorConstants ==
  /\ None \notin Threads /\ Threads # {}
  /\ JsBridges \subseteq SUBSET Functions

VARIABLES
  mainThread,  \* g_main_thread_id
  handle,      \* the members that are set, among "L_", "rt_" and "ctx_"
  heap,        \* the library objects that exist, named by the member they are for
  bridged,     \* bridged[r]: the functions that runtime r has in "reaforge"
  depth,       \* values on the Lua stack
  held,        \* JS values and C strings the C++ code holds references to
  call,        \* the call in progress: its point, thread (is_main_thread), id and script
  answer,      \* what the last call returned, until the next one begins
  asked,       \* the threads REAPER was asked on
  fate         \* "alive", or how the process ended

resources == <<handle, heap, bridged>>
values == <<depth, held>>
vars == <<mainThread, resources, values, call, answer, asked, fate>>

\* What the function named by a request does when it is called.  "syntax": the
\* call expression made of its name does not parse.  "exit": os.exit of Lua's
\* standard libraries; QuickJS is given none of its own.
Scripts ==
  [does : {"empty name", "syntax", "exit"}]
    \cup [does : {"raise"}, with : {"text", "no text"}]
    \cup [does : {"return"}, value : {"number", "string", "boolean", "nil"}]
    \cup [does : {"bridge"}, name : Functions, arg : Arguments]

Ids == {"lua-demo", "js-demo", "jsfx-demo", "other", ""}
Points == {"init_lua", "init_runtime", "init_context", "init_bridges",
           "lua_load", "lua_call", "lua_error", "lua_result",
           "js_eval", "js_error", "js_result"}

\* The process ends in a call, and nothing is done after it.
Fates == {"alive", "segv", "assert", "abort", "exit"}
Dies(how) == fate' = how /\ UNCHANGED <<resources, values, call, answer>>

NoBridge == [runtime \in {"lua", "js"} |-> {}]
NoScript == [does |-> "empty name"]
Idle == [at |-> "idle", thread |-> None, main |-> FALSE, id |-> "",
         script |-> NoScript, value |-> "nil"]
NoAnswer == [to |-> Idle, ok |-> TRUE, text |-> ""]
IsIdle == call.at = "idle" /\ fate = "alive"
At(point) == call.at = point /\ fate = "alive"
Goto(point) == call' = [call EXCEPT !.at = point]
Return(ok, text) ==
  /\ call' = Idle
  /\ answer' = [to |-> call, ok |-> ok, text |-> text]

Init ==
  /\ mainThread = None
  /\ handle = {} /\ heap = {} /\ bridged = NoBridge
  /\ depth = 0 /\ held = 0
  /\ call = Idle /\ answer = NoAnswer
  /\ asked = {} /\ fate = "alive"

\* Bridge::install_main_thread_id; main.cpp and bench.cpp call it first and once.
InstallMainThread(t) ==
  /\ IsIdle /\ mainThread = None
  /\ mainThread' = t
  /\ UNCHANGED <<resources, values, call, answer, asked, fate>>

-----------------------------------------------------------------------------
(***************************************************************************)
(* init and shutdown                                                       *)
(***************************************************************************)

\* LuaRuntime::shutdown and QuickJSRuntime::shutdown on what is set; freeing a
\* JSRuntime with references outstanding trips an assertion of the library.
Free(members) ==
  /\ heap' = heap \ (members \cap handle)
  /\ handle' = handle \ members
  /\ depth' = IF "L_" \in members THEN 0 ELSE depth
  /\ fate' = IF "rt_" \in members \cap handle /\ held > 0 THEN "assert" ELSE fate
  /\ UNCHANGED held

Allocate(member) ==
  /\ heap' = heap \cup {member}
  /\ handle' = handle \cup {member}
  /\ UNCHANGED <<values, fate>>

InitCall(t) ==
  /\ IsIdle /\ handle = {}
  /\ call' = [Idle EXCEPT !.at = "init_lua", !.thread = t]
  /\ answer' = NoAnswer
  /\ UNCHANGED <<mainThread, resources, values, asked, fate>>

\* luaL_newstate, and luaL_openlibs, whose failing allocation is a Lua error
\* outside of any protected call: Lua aborts the process.
InitLua ==
  /\ At("init_lua")
  /\ \/ Allocate("L_") /\ Goto("init_runtime") /\ UNCHANGED <<bridged, answer>>
     \/ Return(FALSE, "") /\ UNCHANGED <<resources, values, fate>>
     \/ Dies("abort")
  /\ UNCHANGED <<mainThread, asked>>

\* Leaving Lua up when JavaScript has failed
InitRuntime_no_rollback ==
  /\ At("init_runtime")
  /\ \/ Allocate("rt_") /\ Goto("init_context") /\ UNCHANGED answer
     \/ Return(FALSE, "") /\ UNCHANGED <<handle, heap, values, fate>>
  /\ UNCHANGED <<mainThread, bridged, asked>>

\* JS_NewRuntime; without it Lua is shut down again
InitRuntime ==
  /\ At("init_runtime")
  /\ \/ Allocate("rt_") /\ Goto("init_context") /\ UNCHANGED answer
     \/ Free({"L_"}) /\ Return(FALSE, "")
  /\ UNCHANGED <<mainThread, bridged, asked>>

\* JS_NewContext; without it the JSRuntime is freed, and Lua is shut down
InitContext ==
  /\ At("init_context")
  /\ \/ Allocate("ctx_") /\ Goto("init_bridges") /\ UNCHANGED answer
     \/ Free({"rt_", "L_"}) /\ Return(FALSE, "")
  /\ UNCHANGED <<mainThread, bridged, asked>>

\* What registering leaves on the Lua stack (the table, taken by lua_setglobal)
\* and held in JS (the object, given to the global object, and that object).
LuaRegistered == 1 - 1
JsRegistered == 2 - 1 - 1

\* JSFXRuntime::init always succeeds; then the bridges are registered.  Where Lua
\* cannot allocate it aborts the process, as in luaL_openlibs.  What QuickJS cannot
\* allocate, the object or some functions, the scripts do not find: init goes on.
InitBridges ==
  /\ At("init_bridges")
  /\ \/ /\ \E fns \in JsBridges : bridged' = [lua |-> Functions, js |-> fns]
        /\ depth' = depth + LuaRegistered
        /\ held' = held + JsRegistered
        /\ Return(TRUE, "")
        /\ UNCHANGED <<handle, heap, fate>>
     \/ Dies("abort")
  /\ UNCHANGED <<mainThread, asked>>

\* Executor::shutdown, also when nothing is up
Shutdown ==
  /\ IsIdle
  /\ Free({"ctx_", "rt_", "L_"})
  /\ bridged' = NoBridge
  /\ answer' = NoAnswer
  /\ UNCHANGED <<mainThread, call, asked>>

-----------------------------------------------------------------------------
(***************************************************************************)
(* invoke                                                                  *)
(***************************************************************************)

\* Routing on the id; a runtime that is not initialised answers an error.
FirstPoint(id, script) ==
  CASE script # NoScript /\ id = "lua-demo" /\ "L_" \in handle -> "lua_load"
    [] script # NoScript /\ id = "js-demo" /\ "ctx_" \in handle -> "js_eval"
    [] OTHER -> "error"

Invoke(t, id, script) ==
  LET asks == [at |-> FirstPoint(id, script), thread |-> t,
               main |-> t = mainThread, id |-> id, script |-> script,
               value |-> "nil"]
  IN /\ IsIdle
     /\ \/ asks.at # "error" /\ call' = asks /\ answer' = NoAnswer
        \/ asks.at = "error" /\ UNCHANGED call
             /\ answer' = [to |-> asks, ok |-> FALSE, text |-> "error"]
     /\ UNCHANGED <<mainThread, resources, values, asked, fate>>

\* luaL_loadstring leaves the chunk or a message
LuaLoad ==
  /\ At("lua_load")
  /\ depth' = depth + 1
  /\ call' = [call EXCEPT !.at = IF call.script.does = "syntax"
                                 THEN "lua_error" ELSE "lua_call",
                          !.value = "text"]
  /\ UNCHANGED <<mainThread, resources, held, answer, asked, fate>>

\* What a script comes to, given how the runtime's binding answers.
Run(script, bound) ==
  CASE script.does = "raise" ->
         [raises |-> TRUE, value |-> script.with, asked |-> FALSE]
    [] script.does = "return" ->
         [raises |-> FALSE, value |-> script.value, asked |-> FALSE]
    [] script.does = "bridge" ->
         [bound EXCEPT !.value = IF bound.raises THEN "text" ELSE @]
    [] OTHER -> [raises |-> TRUE, value |-> "text", asked |-> FALSE]

\* A function that is not there raises an error, as calling nothing does.
Bound(runtime, Binding(_, _, _)) ==
  IF call.script.does = "bridge" /\ call.script.name \in bridged[runtime]
  THEN Binding(call.script.name, call.script.arg, call.main)
  ELSE NoCall

Evaluate(comes, onError, onValue) ==
  /\ call' = [call EXCEPT !.at = IF comes.raises THEN onError ELSE onValue,
                          !.value = comes.value]
  /\ asked' = IF comes.asked THEN asked \cup {call.thread} ELSE asked

\* lua_pcall puts the result or the error in the chunk's place.
LuaPcall ==
  /\ At("lua_call")
  /\ \/ /\ call.script.does # "exit"
        /\ Evaluate(Run(call.script, Bound("lua", LuaCall)), "lua_error", "lua_result")
        /\ UNCHANGED <<resources, values, answer, fate>>
     \/ /\ call.script.does = "exit"
        /\ Dies("exit") /\ UNCHANGED asked
  /\ UNCHANGED mainThread

\* The message is made of lua_tostring, which is null unless the error is a
\* text (or a number): std::string + nullptr is undefined, a segfault here.
LuaError ==
  /\ At("lua_error")
  /\ \/ /\ call.value = "text"
        /\ depth' = depth - 1
        /\ Return(FALSE, "error")
        /\ UNCHANGED fate
     \/ /\ call.value # "text"
        /\ fate' = "segv"
        /\ UNCHANGED <<depth, call, answer>>
  /\ UNCHANGED <<mainThread, resources, held, asked>>

\* lua_isstring holds for numbers too; what is neither leaves the result empty.
LuaText(value) == IF value \in {"boolean", "nil"} THEN "" ELSE value
LuaResult ==
  /\ At("lua_result")
  /\ depth' = depth - 1
  /\ Return(TRUE, LuaText(call.value))
  /\ UNCHANGED <<mainThread, resources, held, asked, fate>>

\* JS_Eval: a value is a reference to give back, an exception is not one.
JsEval ==
  LET comes == Run(call.script, Bound("js", JsCall))
  IN /\ At("js_eval")
     /\ Evaluate(comes, "js_error", "js_result")
     /\ held' = IF comes.raises THEN held ELSE held + 1
     /\ UNCHANGED <<mainThread, resources, depth, answer, fate>>

\* The exception and its text are taken and freed; without a text "unknown" is.
JsErrorTaken == IF call.value = "text" THEN 2 ELSE 1
JsErrorFreed_text_forgotten == 1
JsErrorFreed == IF call.value = "text" THEN 2 ELSE 1
JsError ==
  /\ At("js_error")
  /\ held' = held + JsErrorTaken - JsErrorFreed
  /\ Return(FALSE, "error")
  /\ UNCHANGED <<mainThread, resources, depth, asked, fate>>

JsText(value) == IF value = "nil" THEN "" ELSE value
JsResult ==
  /\ At("js_result")
  /\ held' = held - 1
  /\ Return(TRUE, JsText(call.value))
  /\ UNCHANGED <<mainThread, resources, depth, asked, fate>>

-----------------------------------------------------------------------------
\* A call in progress takes its next step.
Step ==
  \/ InitLua \/ InitRuntime \/ InitContext \/ InitBridges
  \/ LuaLoad \/ LuaPcall \/ LuaError \/ LuaResult
  \/ JsEval \/ JsError \/ JsResult

\* An embedder that calls in any order the classes allow.
Next ==
  \/ Step
  \/ Shutdown
  \/ \E t \in Threads : InstallMainThread(t) \/ InitCall(t)
  \/ \E t \in Threads, id \in Ids, script \in Scripts : Invoke(t, id, script)

Spec == Init /\ [][Next]_vars

-----------------------------------------------------------------------------
(***************************************************************************)
(* Properties                                                              *)
(***************************************************************************)
Members == {"L_", "rt_", "ctx_"}
Texts == {"", "error", "number", "string", "boolean"} \cup {TrackNames[i] : i \in 1 .. TrackCount}

TypeOK ==
  /\ mainThread \in Threads \cup {None}
  /\ handle \subseteq Members /\ heap \subseteq Members
  /\ bridged \in [{"lua", "js"} -> SUBSET Functions]
  /\ depth \in Nat /\ held \in Nat
  /\ call.at \in Points \cup {"idle"}
  /\ call.thread \in Threads \cup {None}
  /\ answer.ok \in BOOLEAN /\ answer.text \in Texts
  /\ asked \subseteq Threads
  /\ fate \in Fates

\* Between calls either all three library objects exist and are pointed to, and
\* Lua has the whole bridge, or none exists: an init that fails half way has undone
\* what it did, and no member points to an object that was freed
\* (executor.cpp:9-29).  Nothing is promised of JavaScript's bridge: registering
\* ignores the failures of the library (bridge_quickjs.cpp:63-78).
AllRuntimesOrNone ==
  IsIdle => /\ heap = handle
            /\ \/ heap = {} /\ bridged = NoBridge
               \/ heap = Members /\ bridged["lua"] = Functions

\* However the evaluations so far ended, between calls nothing of theirs is left
\* on the Lua stack and no reference to a JS value is held; so the assertion
\* that JS_FreeRuntime makes of it never fails (lua_runtime.cpp:27-51,
\* quickjs_runtime.cpp:19-58, bridge_quickjs.cpp:63-78).
NothingLeftBehind ==
  /\ IsIdle => depth = 0 /\ held = 0
  /\ fate # "assert"

\* Whatever thread an embedder invokes on, REAPER is asked on the installed main
\* thread only: the executor has no guard, the bridge's functions have.
ReaperAskedOnMainThread == asked \subseteq {mainThread}

\* A track's index that fits a C++ int gets that track's name, and nil (which is
\* an empty result) when there is no such track, in both runtimes alike, wherever
\* the function has been registered.
RuntimeOf(q) == IF q.at \in {"lua_result", "lua_error"} THEN "lua" ELSE "js"
NamesAreRight ==
  LET q == answer.to
  IN (/\ q.at \in {"lua_result", "lua_error", "js_result", "js_error"}
      /\ q.script.does = "bridge" /\ q.script.name = "get_track_name"
      /\ q.script.arg.is = "integer" /\ q.script.arg.value \in Ints
      /\ q.main /\ q.script.name \in bridged[RuntimeOf(q)])
     => /\ answer.ok
        /\ answer.text = IF q.script.arg.value \in 0 .. TrackCount - 1
                         THEN TrackNames[q.script.arg.value + 1] ELSE ""

\* "The host MUST capture any runtime error ... and return it as a structured
\* error" (extension-execution/spec.md:50): an error of the script never ends
\* the process.
ErrorsAreCaptured == fate # "segv"

=============================================================================
