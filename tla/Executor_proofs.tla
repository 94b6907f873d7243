--------------------------- MODULE Executor_proofs ---------------------------
(***************************************************************************)
(* Proofs about the executor and its runtimes, for any threads, any width  *)
(* of a C++ int and any indexes a script may pass, under an embedder that  *)
(* makes any calls in any order; and about the programs that drive it, for *)
(* any size of the benchmark.                                              *)
(***************************************************************************)
EXTENDS Bench, TLAPS

-----------------------------------------------------------------------------
(***************************************************************************)
(* What an evaluation comes to                                             *)
(***************************************************************************)

Names == {TrackNames[i] : i \in 1 .. TrackCount}
Results == {"number", "string", "boolean", "nil"} \cup Names
Errors == {"text", "no text"}

\* A script that asks for the name of a track by an integer that fits an int
Asks(script) ==
  /\ script.does = "bridge" /\ script.name = "get_track_name"
  /\ script.arg.is = "integer" /\ script.arg.value \in Ints
NameAsked(script) ==
  IF script.arg.value \in 0 .. TrackCount - 1
  THEN TrackNames[script.arg.value + 1] ELSE "nil"

LEMMA NamesAre ==
  /\ TrackCount = 4
  /\ Names = {"Drums", "Bass", "Keys", "Vocals"}
  /\ \A i \in 0 .. 3 : TrackNames[i + 1] \in Names
  <1>1. TrackCount = 4
    BY DEF TrackCount, TrackNames
  <1>2. /\ TrackNames[1] = "Drums" /\ TrackNames[2] = "Bass"
        /\ TrackNames[3] = "Keys" /\ TrackNames[4] = "Vocals"
    BY DEF TrackNames
  <1>3. 1 .. TrackCount = {1, 2, 3, 4} /\ 0 .. 3 = {0, 1, 2, 3}
    BY <1>1
  <1>4. Names = {"Drums", "Bass", "Keys", "Vocals"}
    BY <1>2, <1>3 DEF Names
  <1>5. \A i \in 0 .. 3 : i + 1 \in 1 .. TrackCount
    BY <1>1
  <1> QED
    BY <1>1, <1>4, <1>5 DEF Names

LEMMA NameOfIndex ==
  \A i \in 0 .. TrackCount - 1 : TrackNames[i + 1] \in Names
  <1>1. TrackCount - 1 = 3
    BY NamesAre
  <1> QED
    BY <1>1, NamesAre

\* A number that fits is narrowed to itself.
LEMMA NarrowFits ==
  ASSUME NEW i \in Ints
  PROVE  Narrow(i) = i
  <1>1. IntMax \in Nat
    BY BindingConstants
  <1> DEFINE w == 2 * (IntMax + 1)
             d == i + IntMax + 1
  <1>2. w \in Nat \ {0} /\ d \in 0 .. w - 1 /\ i \in Int
    BY <1>1 DEF Ints
  <1> HIDE DEF w, d
  <1>3. d % w = d
    BY <1>2
  <1> QED
    BY <1>1, <1>2, <1>3 DEF Narrow, w, d

LEMMA CallOfBridge ==
  ASSUME NEW name \in Functions, NEW index, NEW onMain \in BOOLEAN
  PROVE  LET r == ToScript(BridgeCall(name, index, onMain))
         IN /\ r = [raises |-> r.raises, value |-> r.value, asked |-> r.asked]
            /\ r.raises = ~onMain
            /\ r.value \in Results
            /\ r.asked => onMain
            /\ name = "get_track_name" /\ onMain =>
                 r.value = IF index \in 0 .. TrackCount - 1
                           THEN TrackNames[index + 1] ELSE "nil"
  <1>1. TrackCount - 1 = 3
    BY NamesAre
  <1>2. \A i \in 0 .. TrackCount - 1 : TrackNames[i + 1] \in Results
    BY <1>1, NamesAre DEF Results
  <1>3. CASE ~onMain
    BY <1>3 DEF ToScript, BridgeCall, Results
  <1>4. CASE onMain /\ name # "get_track_name"
    BY <1>4 DEF ToScript, BridgeCall, Results
  <1>5. CASE onMain /\ name = "get_track_name" /\ index \in 0 .. TrackCount - 1
    BY <1>2, <1>5 DEF ToScript, BridgeCall, Results
  <1>6. CASE onMain /\ name = "get_track_name" /\ index \notin 0 .. TrackCount - 1
    BY <1>6 DEF ToScript, BridgeCall, Results
  <1> QED
    BY <1>3, <1>4, <1>5, <1>6

LEMMA ScriptFields ==
  ASSUME NEW script \in Scripts
  PROVE  /\ script.does \in {"empty name", "syntax", "exit", "raise", "return", "bridge"}
         /\ script.does = "raise" => script.with \in Errors
         /\ script.does = "return" => script.value \in Results
         /\ script.does = "bridge" => script.name \in Functions /\ script.arg \in Arguments
  BY DEF Scripts, Errors, Results

\* A script that throws what has no text: a table, a boolean, nil
ThrowsNoText(script) == script.does = "raise" /\ script.with = "no text"

\* A result of either binding: it raises or gives a value, an error lacks a text
\* only when the script threw it so, REAPER is asked on the main thread only,
\* and a script that asks for a name there gets it where the function exists.
Sound(r, script, onMain, functions) ==
  /\ r = [raises |-> r.raises, value |-> r.value, asked |-> r.asked]
  /\ r.raises \in BOOLEAN
  /\ r.value \in IF r.raises THEN Errors ELSE Results
  /\ r.raises /\ r.value # "text" => ThrowsNoText(script)
  /\ r.asked => onMain
  /\ Asks(script) /\ onMain /\ script.name \in functions =>
       ~r.raises /\ r.value = NameAsked(script)

LEMMA LuaRuns ==
  ASSUME NEW script \in Scripts, NEW onMain \in BOOLEAN, call.script = script, call.main = onMain
  PROVE  Sound(Run(script, Bound("lua", LuaCall)), script, onMain, bridged["lua"])
  <1>1. CASE script.does = "bridge" /\ script.name \in bridged["lua"]
    <2> DEFINE r == LuaCall(script.name, script.arg, onMain)
    <2>1. script.name \in Functions /\ script.arg \in Arguments
      BY <1>1, ScriptFields
    <2>2. /\ r = [raises |-> r.raises, value |-> r.value, asked |-> r.asked]
          /\ r.raises \in BOOLEAN
          /\ ~r.raises => r.value \in Results
          /\ r.asked => onMain
          /\ Asks(script) /\ onMain => ~r.raises /\ r.value = NameAsked(script)
      <3>1. CASE script.name # "get_track_name"
        <4>1. r = ToScript(BridgeCall(script.name, 0, onMain)) /\ ~Asks(script)
          BY <3>1 DEF LuaCall, Asks
        <4> HIDE DEF r
        <4> QED
          BY <2>1, <4>1, CallOfBridge
      <3>2. CASE script.name = "get_track_name" /\ script.arg.is # "integer"
        BY <3>2 DEF LuaCall, NoCall, Asks
      <3>3. CASE script.name = "get_track_name" /\ script.arg.is = "integer"
        <4> DEFINE index == Narrow(script.arg.value)
        <4>1. r = ToScript(BridgeCall(script.name, index, onMain))
          BY <3>3 DEF LuaCall
        <4>2. Asks(script) => index = script.arg.value /\ script.name = "get_track_name"
          BY NarrowFits DEF Asks
        <4> HIDE DEF r, index
        <4>3. /\ r = [raises |-> r.raises, value |-> r.value, asked |-> r.asked]
              /\ r.raises = ~onMain
              /\ r.value \in Results
              /\ r.asked => onMain
              /\ script.name = "get_track_name" /\ onMain =>
                   r.value = IF index \in 0 .. TrackCount - 1
                             THEN TrackNames[index + 1] ELSE "nil"
          BY <2>1, <4>1, CallOfBridge
        <4>4. Asks(script) /\ onMain => r.value = NameAsked(script)
          BY <4>2, <4>3 DEF NameAsked
        <4> QED
          BY <4>3, <4>4
      <3> QED
        BY <3>1, <3>2, <3>3
    <2>3. Bound("lua", LuaCall) = r
      BY <1>1 DEF Bound
    <2> HIDE DEF r
    <2>4. Run(script, r) = [r EXCEPT !.value = IF r.raises THEN "text" ELSE @]
      BY <1>1 DEF Run
    <2>5. Run(script, r) = [raises |-> r.raises, asked |-> r.asked,
                            value |-> IF r.raises THEN "text" ELSE r.value]
      BY <2>2, <2>4
    <2>6. Sound(Run(script, r), script, onMain, bridged["lua"])
      <3> DEFINE out == Run(script, r)
      <3>1. /\ out = [raises |-> out.raises, value |-> out.value, asked |-> out.asked]
            /\ out.raises = r.raises /\ out.asked = r.asked
            /\ out.value = IF r.raises THEN "text" ELSE r.value
        BY <2>5
      <3> HIDE DEF out
      <3>2. Sound(out, script, onMain, bridged["lua"])
        BY <2>2, <3>1 DEF Sound, Errors
      <3> QED
        BY <3>2 DEF out
    <2> QED
      BY <2>3, <2>6
  <1>2. CASE script.does = "bridge" /\ script.name \notin bridged["lua"]
    <2> DEFINE out == Run(script, NoCall)
    <2>1. Bound("lua", LuaCall) = NoCall
      BY <1>2 DEF Bound
    <2>2. out = [raises |-> TRUE, value |-> "text", asked |-> FALSE]
      BY <1>2 DEF Run, NoCall
    <2> HIDE DEF out
    <2>3. Sound(out, script, onMain, bridged["lua"])
      BY <1>2, <2>2 DEF Sound, Errors
    <2> QED
      BY <2>1, <2>3 DEF out
  <1>3. CASE script.does # "bridge"
    BY <1>3, ScriptFields DEF Sound, Run, Errors, Asks, ThrowsNoText
  <1> QED
    BY <1>1, <1>2, <1>3

LEMMA JsRuns ==
  ASSUME NEW script \in Scripts, NEW onMain \in BOOLEAN, call.script = script, call.main = onMain
  PROVE  Sound(Run(script, Bound("js", JsCall)), script, onMain, bridged["js"])
  <1>1. CASE script.does = "bridge" /\ script.name \in bridged["js"]
    <2> DEFINE r == JsCall(script.name, script.arg, onMain)
    <2>1. script.name \in Functions /\ script.arg \in Arguments
      BY <1>1, ScriptFields
    <2>2. /\ r = [raises |-> r.raises, value |-> r.value, asked |-> r.asked]
          /\ r.raises \in BOOLEAN
          /\ ~r.raises => r.value \in Results
          /\ r.asked => onMain
          /\ Asks(script) /\ onMain => ~r.raises /\ r.value = NameAsked(script)
      <3>1. CASE script.name = "get_track_name" /\ script.arg.is = "none"
        BY <3>1 DEF JsCall, NoCall, Asks
      <3>2. CASE ~(script.name = "get_track_name" /\ script.arg.is = "none")
        <4> DEFINE index == JsIndex(script.arg)
        <4>1. r = ToScript(BridgeCall(script.name, index, onMain))
          BY <3>2 DEF JsCall
        <4>2. Asks(script) => index = script.arg.value /\ script.name = "get_track_name"
          BY NarrowFits DEF Asks, JsIndex
        <4> HIDE DEF r, index
        <4>3. /\ r = [raises |-> r.raises, value |-> r.value, asked |-> r.asked]
              /\ r.raises = ~onMain
              /\ r.value \in Results
              /\ r.asked => onMain
              /\ script.name = "get_track_name" /\ onMain =>
                   r.value = IF index \in 0 .. TrackCount - 1
                             THEN TrackNames[index + 1] ELSE "nil"
          BY <2>1, <4>1, CallOfBridge
        <4>4. Asks(script) /\ onMain => r.value = NameAsked(script)
          BY <4>2, <4>3 DEF NameAsked
        <4> QED
          BY <4>3, <4>4
      <3> QED
        BY <3>1, <3>2
    <2>3. Bound("js", JsCall) = r
      BY <1>1 DEF Bound
    <2> HIDE DEF r
    <2>4. Run(script, r) = [r EXCEPT !.value = IF r.raises THEN "text" ELSE @]
      BY <1>1 DEF Run
    <2>5. Run(script, r) = [raises |-> r.raises, asked |-> r.asked,
                            value |-> IF r.raises THEN "text" ELSE r.value]
      BY <2>2, <2>4
    <2>6. Sound(Run(script, r), script, onMain, bridged["js"])
      <3> DEFINE out == Run(script, r)
      <3>1. /\ out = [raises |-> out.raises, value |-> out.value, asked |-> out.asked]
            /\ out.raises = r.raises /\ out.asked = r.asked
            /\ out.value = IF r.raises THEN "text" ELSE r.value
        BY <2>5
      <3> HIDE DEF out
      <3>2. Sound(out, script, onMain, bridged["js"])
        BY <2>2, <3>1 DEF Sound, Errors
      <3> QED
        BY <3>2 DEF out
    <2> QED
      BY <2>3, <2>6
  <1>2. CASE script.does = "bridge" /\ script.name \notin bridged["js"]
    <2> DEFINE out == Run(script, NoCall)
    <2>1. Bound("js", JsCall) = NoCall
      BY <1>2 DEF Bound
    <2>2. out = [raises |-> TRUE, value |-> "text", asked |-> FALSE]
      BY <1>2 DEF Run, NoCall
    <2> HIDE DEF out
    <2>3. Sound(out, script, onMain, bridged["js"])
      BY <1>2, <2>2 DEF Sound, Errors
    <2> QED
      BY <2>1, <2>3 DEF out
  <1>3. CASE script.does # "bridge"
    BY <1>3, ScriptFields DEF Sound, Run, Errors, Asks, ThrowsNoText
  <1> QED
    BY <1>1, <1>2, <1>3

-----------------------------------------------------------------------------
(***************************************************************************)
(* The inductive invariant                                                 *)
(***************************************************************************)

CallRecords ==
  [at : Points \cup {"idle"}, thread : Threads \cup {None}, main : BOOLEAN,
   id : Ids, script : Scripts, value : Results \cup Errors]
AnswerTexts == (Results \ {"nil"}) \cup {"", "error"}
Answers == [to : [at : Points \cup {"idle", "error"}, thread : Threads \cup {None},
                  main : BOOLEAN, id : Ids, script : Scripts, value : Results \cup Errors],
            ok : BOOLEAN, text : AnswerTexts]

CallType ==
  /\ call \in CallRecords /\ answer \in Answers
  /\ mainThread \in Threads \cup {None} /\ asked \subseteq Threads
  /\ bridged \in [{"lua", "js"} -> SUBSET Functions]
  /\ depth \in Nat /\ held \in Nat

Initialising == {"init_lua", "init_runtime", "init_context", "init_bridges"}
InLua == {"lua_load", "lua_call", "lua_error", "lua_result"}
InJs == {"js_eval", "js_error", "js_result"}

\* The whole of the bridge is there for Lua, and something of it for QuickJS.
Up == handle = Members /\ bridged["lua"] = Functions
Down == handle = {} /\ bridged = NoBridge

\* What exists at each point of init and of an evaluation
HeapInv ==
  /\ heap = handle
  /\ call.at = "init_lua" => Down
  /\ call.at = "init_runtime" => handle = {"L_"} /\ bridged = NoBridge
  /\ call.at = "init_context" => handle = {"L_", "rt_"} /\ bridged = NoBridge
  /\ call.at = "init_bridges" => handle = Members /\ bridged = NoBridge
  /\ call.at \in InLua \cup InJs => Up
  /\ call.at = "idle" => Down \/ Up

\* What an evaluation has on the stack, and what references it holds
ValueInv ==
  /\ depth = IF call.at \in {"lua_call", "lua_error", "lua_result"} THEN 1 ELSE 0
  /\ held = IF call.at = "js_result" THEN 1 ELSE 0
  /\ fate \in {"alive", "segv", "abort", "exit"}

\* Who asks REAPER
ThreadInv ==
  /\ ReaperAskedOnMainThread
  /\ call.at # "idle" /\ call.main => call.thread = mainThread /\ mainThread # None

\* What a call that has been evaluated holds
OutcomeInv ==
  /\ call.at \in {"lua_result", "js_result"} => call.value \in Results
  /\ call.at \in {"lua_error", "js_error", "lua_result", "js_result"}
       /\ Asks(call.script) /\ call.main /\ call.script.name \in bridged[RuntimeOf(call)] =>
         call.at \in {"lua_result", "js_result"} /\ call.value = NameAsked(call.script)

ExecInv == CallType /\ HeapInv /\ ValueInv /\ ThreadInv /\ OutcomeInv /\ NamesAreRight

LEMMA IdleType ==
  /\ Idle \in CallRecords /\ NoAnswer \in Answers
  /\ NoBridge \in [{"lua", "js"} -> SUBSET Functions]
  <1>1. NoScript \in Scripts
    BY DEF NoScript, Scripts
  <1>2. Idle \in CallRecords
    BY <1>1 DEF Idle, CallRecords, Ids, Results
  <1>3. Idle.at = "idle" /\ Idle \in [at : Points \cup {"idle", "error"}, thread : Threads \cup {None},
                  main : BOOLEAN, id : Ids, script : Scripts, value : Results \cup Errors]
    BY <1>1 DEF Idle, Ids, Results
  <1>4. NoAnswer \in Answers
    BY <1>3 DEF NoAnswer, Answers, AnswerTexts
  <1>5. NoBridge \in [{"lua", "js"} -> SUBSET Functions]
    BY DEF NoBridge
  <1> QED
    BY <1>2, <1>4, <1>5

LEMMA ExecInit == Init => ExecInv
  <1> SUFFICES ASSUME Init PROVE ExecInv
    OBVIOUS
  <1>1. call.at = "idle" /\ call = Idle /\ answer = NoAnswer /\ answer.to.at = "idle"
    BY DEF Init, Idle, NoAnswer
  <1>2. CallType
    BY <1>1, IdleType DEF Init, CallType
  <1>3. HeapInv /\ ValueInv /\ ThreadInv /\ OutcomeInv
    BY <1>1 DEF Init, HeapInv, Up, Down, ValueInv, ThreadInv, OutcomeInv, ReaperAskedOnMainThread, InLua, InJs
  <1>4. NamesAreRight
    BY <1>1 DEF NamesAreRight
  <1> QED
    BY <1>2, <1>3, <1>4 DEF ExecInv

LEMMA NamesKept ==
  ASSUME NamesAreRight, answer' = answer, bridged' = bridged
  PROVE  NamesAreRight'
  BY DEF NamesAreRight

\* A call that begins has not been answered yet.
LEMMA BeginsUnanswered ==
  ASSUME answer' = NoAnswer
  PROVE  NamesAreRight' /\ answer' \in Answers
  <1>1. NoAnswer.to.at = "idle"
    BY DEF NoAnswer, Idle
  <1> QED
    BY <1>1, IdleType DEF NamesAreRight

\* An answer says what the call was and leaves the executor idle.
LEMMA Returned ==
  ASSUME CallType, NEW ok \in BOOLEAN, NEW text \in AnswerTexts, Return(ok, text)
  PROVE  /\ call' = Idle /\ call'.at = "idle" /\ call' \in CallRecords
         /\ answer' \in Answers /\ answer'.to = call
         /\ answer'.ok = ok /\ answer'.text = text
  <1>1. call' = Idle /\ answer' = [to |-> call, ok |-> ok, text |-> text]
    BY DEF Return
  <1>2. call \in [at : Points \cup {"idle", "error"}, thread : Threads \cup {None},
                  main : BOOLEAN, id : Ids, script : Scripts, value : Results \cup Errors]
    BY DEF CallType, CallRecords
  <1>3. answer' \in Answers
    BY <1>1, <1>2 DEF Answers
  <1>4. Idle.at = "idle"
    BY DEF Idle
  <1> QED
    BY <1>1, <1>3, <1>4, IdleType

\* A process that ends leaves all as it was.
LEMMA DeathStep ==
  ASSUME ExecInv, NEW how \in {"abort", "exit", "segv"}, fate' = how,
         UNCHANGED <<mainThread, resources, values, call, answer, asked>>
  PROVE  ExecInv'
  <1>1. NamesAreRight'
    BY NamesKept DEF ExecInv, resources
  <1> QED
    BY <1>1 DEF ExecInv, CallType, HeapInv, Up, Down, ValueInv, ThreadInv, OutcomeInv,
                ReaperAskedOnMainThread, resources, values

LEMMA InstallStep ==
  ASSUME ExecInv, NEW t \in Threads, InstallMainThread(t)
  PROVE  ExecInv'
  <1> USE DEF InstallMainThread, IsIdle, ExecInv, resources, values
  <1>1. asked = {}
    BY ExecutorConstants DEF CallType, ThreadInv, ReaperAskedOnMainThread
  <1>2. CallType'
    BY DEF CallType
  <1>3. HeapInv' /\ ValueInv' /\ OutcomeInv' /\ NamesAreRight'
    BY DEF HeapInv, Up, Down, ValueInv, OutcomeInv, NamesAreRight
  <1>4. ThreadInv'
    BY <1>1 DEF ThreadInv, ReaperAskedOnMainThread
  <1> QED
    BY <1>2, <1>3, <1>4

LEMMA InitSteps ==
  ASSUME ExecInv,
         \/ \E t \in Threads : InitCall(t)
         \/ InitLua \/ InitRuntime \/ InitContext \/ InitBridges
  PROVE  ExecInv'
  <1>0. /\ CallType /\ HeapInv /\ ValueInv /\ ThreadInv /\ OutcomeInv /\ NamesAreRight
        /\ FALSE \in BOOLEAN /\ TRUE \in BOOLEAN /\ "" \in AnswerTexts
        /\ NoBridge \in [{"lua", "js"} -> SUBSET Functions]
    BY IdleType DEF ExecInv, AnswerTexts
  <1>1. ASSUME NEW t \in Threads, InitCall(t) PROVE ExecInv'
    <2>1. /\ call'.at = "init_lua" /\ call' \in CallRecords /\ call'.main = FALSE
      BY <1>1, IdleType DEF InitCall, CallRecords, Idle, Points
    <2>2. Down
      BY <1>0, <1>1 DEF InitCall, IsIdle, HeapInv, Up, Down, Members
    <2>3. CallType' /\ NamesAreRight'
      BY <1>0, <1>1, <2>1, BeginsUnanswered DEF InitCall, CallType, values, resources
    <2>4. HeapInv' /\ ValueInv' /\ ThreadInv' /\ OutcomeInv'
      BY <1>0, <1>1, <2>1, <2>2
      DEF InitCall, IsIdle, HeapInv, Up, Down, ValueInv, ThreadInv, OutcomeInv, ReaperAskedOnMainThread,
          InLua, InJs, resources, values
    <2> QED
      BY <2>3, <2>4 DEF ExecInv
  \* A step that ends init, with what it leaves
  <1>2. ASSUME NEW ok \in BOOLEAN, call.at \in Initialising, Return(ok, ""),
               mainThread' = mainThread, asked' = asked, fate' = "alive",
               heap' = handle', depth' = 0, held' = 0,
               bridged' \in [{"lua", "js"} -> SUBSET Functions], Down' \/ Up'
        PROVE  ExecInv'
    <2>1. /\ call'.at = "idle" /\ call' \in CallRecords
          /\ answer' \in Answers /\ answer'.to.at \in Initialising
      BY <1>0, <1>2, Returned
    <2>2. CallType'
      BY <1>0, <1>2, <2>1 DEF CallType
    <2>3. NamesAreRight'
      BY <2>1 DEF NamesAreRight, Initialising
    <2>4. HeapInv' /\ ValueInv' /\ ThreadInv' /\ OutcomeInv'
      BY <1>0, <1>2, <2>1
      DEF HeapInv, Up, Down, ValueInv, ThreadInv, OutcomeInv, ReaperAskedOnMainThread, InLua, InJs
    <2> QED
      BY <2>2, <2>3, <2>4 DEF ExecInv
  \* A step that goes on
  <1>3. ASSUME NEW point \in Initialising, call.at \in Initialising, Goto(point),
               UNCHANGED <<mainThread, asked, fate, answer, values, bridged>>,
               bridged = NoBridge, heap' = handle',
               handle' = CASE point = "init_lua" -> {} [] point = "init_runtime" -> {"L_"}
                           [] point = "init_context" -> {"L_", "rt_"} [] OTHER -> Members
        PROVE  ExecInv'
    <2>1. /\ call'.at = point /\ call'.main = call.main /\ call'.thread = call.thread
          /\ call' \in CallRecords
      BY <1>0, <1>3 DEF Goto, CallType, CallRecords, Initialising, Points
    <2>2. CallType' /\ NamesAreRight'
      BY <1>0, <1>3, <2>1 DEF CallType, NamesAreRight, values, resources
    <2>3. HeapInv' /\ ValueInv' /\ ThreadInv' /\ OutcomeInv'
      BY <1>0, <1>3, <2>1
      DEF HeapInv, Up, Down, ValueInv, ThreadInv, OutcomeInv, ReaperAskedOnMainThread, InLua, InJs,
          Initialising, values
    <2> QED
      BY <2>2, <2>3 DEF ExecInv
  <1>4. CASE InitLua
    <2>1. call.at = "init_lua" /\ handle = {} /\ heap = {} /\ bridged = NoBridge /\ depth = 0 /\ held = 0
          /\ fate = "alive"
      BY <1>0, <1>4 DEF InitLua, At, HeapInv, Up, Down, ValueInv
    <2>2. CASE Return(FALSE, "")
      <3>0. call'.at = "idle"
        BY <2>2 DEF Return, Idle
      <3>1. handle' = handle /\ heap' = heap /\ bridged' = bridged /\ depth' = depth /\ held' = held /\ fate' = fate
        BY <1>0, <1>4, <2>1, <2>2, <3>0 DEF CallType, CallRecords, InitLua, Goto, Allocate, Dies, values, resources, Idle
      <3> QED
        BY <1>0, <1>2, <1>4, <2>1, <2>2, <3>1 DEF InitLua, Initialising, Down
    <2>3. CASE Allocate("L_") /\ Goto("init_runtime") /\ UNCHANGED <<bridged, answer>>
      BY <1>3, <1>4, <2>1, <2>3 DEF InitLua, Initialising, Allocate
    <2>4. CASE Dies("abort")
      BY <1>4, <2>4, DeathStep DEF InitLua, Dies
    <2> QED
      BY <1>4, <2>2, <2>3, <2>4 DEF InitLua
  <1>5. CASE InitRuntime
    <2>1. call.at = "init_runtime" /\ handle = {"L_"} /\ heap = {"L_"} /\ bridged = NoBridge
          /\ depth = 0 /\ held = 0 /\ fate = "alive"
      BY <1>0, <1>5 DEF InitRuntime, At, HeapInv, Up, Down, ValueInv
    <2>2. CASE Free({"L_"}) /\ Return(FALSE, "")
      <3>1. handle' = {} /\ heap' = {} /\ depth' = 0 /\ held' = 0 /\ fate' = "alive"
        BY <2>1, <2>2 DEF Free
      <3> QED
        BY <1>0, <1>2, <1>5, <2>1, <2>2, <3>1 DEF InitRuntime, Initialising, Down
    <2>3. CASE Allocate("rt_") /\ Goto("init_context") /\ UNCHANGED answer
      BY <1>3, <1>5, <2>1, <2>3 DEF InitRuntime, Initialising, Allocate
    <2> QED
      BY <1>5, <2>2, <2>3 DEF InitRuntime
  <1>6. CASE InitContext
    <2>1. call.at = "init_context" /\ handle = {"L_", "rt_"} /\ heap = {"L_", "rt_"}
          /\ bridged = NoBridge /\ depth = 0 /\ held = 0 /\ fate = "alive"
      BY <1>0, <1>6 DEF InitContext, At, HeapInv, Up, Down, ValueInv
    <2>2. CASE Free({"rt_", "L_"}) /\ Return(FALSE, "")
      <3>1. depth' = 0 /\ held' = 0 /\ fate' = "alive"
        <4>1. Free({"rt_", "L_"})
          BY <2>2
        <4> QED
          BY <2>1, <4>1 DEF Free
      <3>2. handle' = {} /\ heap' = {}
        <4>1. heap' = heap \ ({"rt_", "L_"} \cap handle) /\ handle' = handle \ {"rt_", "L_"}
          BY <2>2 DEF Free
        <4> QED
          BY <2>1, <4>1
      <3> QED
        BY <1>0, <1>2, <1>6, <2>1, <2>2, <3>1, <3>2 DEF InitContext, Initialising, Down
    <2>3. CASE Allocate("ctx_") /\ Goto("init_bridges") /\ UNCHANGED answer
      BY <1>3, <1>6, <2>1, <2>3 DEF InitContext, Initialising, Allocate, Members
    <2> QED
      BY <1>6, <2>2, <2>3 DEF InitContext
  <1>7. CASE InitBridges
    <2>1. call.at = "init_bridges" /\ handle = Members /\ heap = Members
          /\ depth = 0 /\ held = 0 /\ fate = "alive"
      BY <1>0, <1>7 DEF InitBridges, At, HeapInv, ValueInv
    <2>2. CASE /\ \E fns \in JsBridges : bridged' = [lua |-> Functions, js |-> fns]
               /\ depth' = depth + LuaRegistered /\ held' = held + JsRegistered
               /\ Return(TRUE, "") /\ UNCHANGED <<handle, heap, fate>>
      <3>1. LuaRegistered = 0 /\ JsRegistered = 0
        BY DEF LuaRegistered, JsRegistered
      <3>2. depth' = 0 /\ held' = 0
        <4>1. depth' = depth + LuaRegistered /\ held' = held + JsRegistered
          BY <2>2
        <4> QED
          BY <2>1, <3>1, <4>1
      <3>3. PICK fns \in JsBridges : bridged' = [lua |-> Functions, js |-> fns]
        BY <2>2
      <3>4. /\ bridged' \in [{"lua", "js"} -> SUBSET Functions]
            /\ bridged'["lua"] = Functions
        BY <3>3, ExecutorConstants
      <3>5. Up'
        BY <2>1, <2>2, <3>4 DEF Up, Members
      <3> QED
        BY <1>0, <1>2, <1>7, <2>1, <2>2, <3>2, <3>4, <3>5 DEF InitBridges, Initialising
    <2>3. CASE Dies("abort")
      BY <1>7, <2>3, DeathStep DEF InitBridges, Dies
    <2> QED
      BY <1>7, <2>2, <2>3 DEF InitBridges
  <1> QED
    BY <1>1, <1>4, <1>5, <1>6, <1>7

LEMMA ShutdownStep ==
  ASSUME ExecInv, Shutdown
  PROVE  ExecInv'
  <1>0. CallType /\ HeapInv /\ ValueInv /\ ThreadInv /\ OutcomeInv
    BY DEF ExecInv
  <1>1. call.at = "idle" /\ call' = call /\ depth = 0 /\ held = 0 /\ fate = "alive"
    BY <1>0 DEF Shutdown, IsIdle, ValueInv
  <1>2. handle' = {} /\ heap' = {} /\ bridged' = NoBridge /\ depth' = 0 /\ held' = 0 /\ fate' = "alive"
    BY <1>0, <1>1 DEF Shutdown, Free, HeapInv, Up, Down, Members
  <1>3. CallType' /\ NamesAreRight'
    BY <1>0, <1>1, <1>2, IdleType, BeginsUnanswered DEF Shutdown, CallType
  <1>4. HeapInv' /\ ValueInv' /\ ThreadInv' /\ OutcomeInv'
    BY <1>0, <1>1, <1>2
    DEF Shutdown, HeapInv, Up, Down, ValueInv, ThreadInv, OutcomeInv, ReaperAskedOnMainThread, InLua, InJs
  <1> QED
    BY <1>3, <1>4 DEF ExecInv

LEMMA InvokeStep ==
  ASSUME ExecInv, NEW t \in Threads, NEW id \in Ids, NEW script \in Scripts,
         Invoke(t, id, script)
  PROVE  ExecInv'
  <1> DEFINE asks == [at |-> FirstPoint(id, script), thread |-> t, main |-> t = mainThread,
                      id |-> id, script |-> script, value |-> "nil"]
  <1>0. /\ CallType /\ HeapInv /\ ValueInv /\ ThreadInv /\ OutcomeInv
        /\ call.at = "idle" /\ depth = 0 /\ held = 0
    BY DEF ExecInv, Invoke, IsIdle, ValueInv
  <1>1. FirstPoint(id, script) \in {"lua_load", "js_eval", "error"}
    BY DEF FirstPoint
  <1>2. FirstPoint(id, script) # "error" => Up
    BY <1>0 DEF FirstPoint, HeapInv, Up, Down
  <1>3. /\ asks.at = FirstPoint(id, script) /\ asks.main = (t = mainThread) /\ asks.thread = t
        /\ asks \in [at : Points \cup {"idle", "error"}, thread : Threads \cup {None},
                     main : BOOLEAN, id : Ids, script : Scripts, value : Results \cup Errors]
        /\ asks.at # "error" => asks \in CallRecords
    BY <1>1 DEF Points, Results, CallRecords
  <1>4. /\ UNCHANGED <<mainThread, resources, values, asked, fate>>
        /\ \/ asks.at # "error" /\ call' = asks /\ answer' = NoAnswer
           \/ asks.at = "error" /\ UNCHANGED call
                /\ answer' = [to |-> asks, ok |-> FALSE, text |-> "error"]
    BY DEF Invoke
  <1> HIDE DEF asks
  <1>5. CASE asks.at # "error"
    <2>1. call' = asks /\ call'.at \in {"lua_load", "js_eval"} /\ answer' = NoAnswer
      BY <1>1, <1>3, <1>4, <1>5
    <2>2. CallType' /\ NamesAreRight'
      BY <1>0, <1>3, <1>4, <1>5, <2>1, BeginsUnanswered DEF CallType, values, resources
    <2>3. HeapInv' /\ ValueInv' /\ OutcomeInv'
      BY <1>0, <1>1, <1>2, <1>3, <1>4, <1>5, <2>1
      DEF HeapInv, Up, Down, ValueInv, OutcomeInv, InLua, InJs, resources, values
    <2>4. ThreadInv'
      BY <1>0, <1>3, <1>4, <2>1, ExecutorConstants DEF ThreadInv, ReaperAskedOnMainThread
    <2> QED
      BY <2>2, <2>3, <2>4 DEF ExecInv
  <1>6. CASE asks.at = "error"
    <2>1. call' = call /\ answer' = [to |-> asks, ok |-> FALSE, text |-> "error"]
      BY <1>4, <1>6
    <2>2. answer' \in Answers /\ answer'.to.at = "error"
      BY <1>3, <1>6, <2>1 DEF Answers, AnswerTexts
    <2>3. CallType' /\ NamesAreRight'
      BY <1>0, <1>4, <2>1, <2>2 DEF CallType, NamesAreRight, values, resources
    <2>4. HeapInv' /\ ValueInv' /\ ThreadInv' /\ OutcomeInv'
      BY <1>0, <1>4, <2>1
      DEF HeapInv, Up, Down, ValueInv, ThreadInv, OutcomeInv, ReaperAskedOnMainThread, InLua, InJs,
          resources, values
    <2> QED
      BY <2>3, <2>4 DEF ExecInv
  <1> QED
    BY <1>5, <1>6

\* Evaluating leaves the answer, the heap and the call's origin as they are.
LEMMA EvaluateStep ==
  ASSUME ExecInv, NEW comes, NEW onError, NEW onValue, NEW runtime,
         \/ runtime = "lua" /\ onError = "lua_error" /\ onValue = "lua_result"
         \/ runtime = "js" /\ onError = "js_error" /\ onValue = "js_result",
         Sound(comes, call.script, call.main, bridged[runtime]), bridged' = bridged,
         call.at \in {"lua_call", "js_eval"},
         Evaluate(comes, onError, onValue)
  PROVE  /\ call' \in CallRecords
         /\ call'.at = IF comes.raises THEN onError ELSE onValue
         /\ call'.thread = call.thread /\ call'.main = call.main
         /\ asked' \subseteq Threads /\ asked' \subseteq {mainThread}
         /\ OutcomeInv'
  <1>0. CallType /\ ThreadInv /\ comes.raises \in BOOLEAN
    BY DEF ExecInv, Sound
  <1>1. comes.value \in Results \cup Errors
    BY DEF Sound
  <1>2. /\ call'.at = (IF comes.raises THEN onError ELSE onValue)
        /\ call'.value = comes.value /\ call'.script = call.script
        /\ call'.thread = call.thread /\ call'.main = call.main
        /\ call' \in CallRecords
    BY <1>0, <1>1 DEF Evaluate, CallType, CallRecords, Points
  <1>3. comes.asked => call.thread = mainThread /\ call.thread \in Threads
    BY <1>0 DEF Sound, ThreadInv, CallType, CallRecords
  <1>4. asked' \subseteq Threads /\ asked' \subseteq {mainThread}
    BY <1>0, <1>3 DEF Evaluate, CallType, ThreadInv, ReaperAskedOnMainThread
  <1>5. OutcomeInv'
    <2>1. call'.at \in {"lua_result", "js_result"} => call'.value \in Results
      BY <1>0, <1>2 DEF Sound
    <2>0. RuntimeOf(call') = runtime
      BY <1>0, <1>2 DEF RuntimeOf
    <2>2. Asks(call'.script) /\ call'.main /\ call'.script.name \in bridged'[runtime] =>
            call'.at \in {"lua_result", "js_result"} /\ call'.value = NameAsked(call'.script)
      BY <1>0, <1>2 DEF Sound
    <2> QED
      BY <2>0, <2>1, <2>2 DEF OutcomeInv
  <1> QED
    BY <1>2, <1>4, <1>5

\* The evaluation of a call ends: what it returned is right.
LEMMA ResultStep ==
  ASSUME ExecInv, NEW ok \in BOOLEAN, NEW text \in AnswerTexts, Return(ok, text),
         call.at \in {"lua_error", "lua_result", "js_error", "js_result"},
         UNCHANGED <<mainThread, resources, asked, fate>>,
         depth' = 0, held' = 0,
         call.at \in {"lua_result", "js_result"} =>
           /\ ok
           /\ call.value \notin {"boolean", "nil"} => text = call.value
           /\ call.value = "nil" => text = ""
  PROVE  ExecInv'
  <1>0. CallType /\ HeapInv /\ ValueInv /\ ThreadInv /\ OutcomeInv
    BY DEF ExecInv
  <1>1. /\ call'.at = "idle" /\ call' \in CallRecords /\ answer' \in Answers
        /\ answer'.to = call /\ answer'.ok = ok /\ answer'.text = text
    BY <1>0, Returned
  <1>2. CallType'
    BY <1>0, <1>1 DEF CallType, resources
  <1>3. HeapInv' /\ ValueInv' /\ ThreadInv' /\ OutcomeInv'
    BY <1>0, <1>1
    DEF HeapInv, Up, Down, ValueInv, ThreadInv, OutcomeInv, ReaperAskedOnMainThread, InLua, InJs, resources
  <1>4. NamesAreRight'
    <2> SUFFICES ASSUME Asks(call.script), call.main,
                        call.script.name \in bridged[RuntimeOf(call)]
                 PROVE  ok /\ text = IF call.script.arg.value \in 0 .. TrackCount - 1
                                     THEN TrackNames[call.script.arg.value + 1] ELSE ""
      BY <1>1 DEF NamesAreRight, Asks, resources
    <2>1. call.at \in {"lua_result", "js_result"} /\ call.value = NameAsked(call.script)
      BY <1>0 DEF OutcomeInv
    <2>2. CASE call.script.arg.value \in 0 .. TrackCount - 1
      <3>1. call.value = TrackNames[call.script.arg.value + 1]
        BY <2>1, <2>2 DEF NameAsked
      <3>2. call.value \in Names
        BY <2>2, <3>1, NameOfIndex
      <3> QED
        BY <2>1, <2>2, <3>1, <3>2, NamesAre
    <2>3. CASE call.script.arg.value \notin 0 .. TrackCount - 1
      BY <2>1, <2>3 DEF NameAsked
    <2> QED
      BY <2>2, <2>3
  <1> QED
    BY <1>2, <1>3, <1>4 DEF ExecInv

LEMMA LuaSteps ==
  ASSUME ExecInv, LuaLoad \/ LuaPcall \/ LuaError \/ LuaResult
  PROVE  ExecInv'
  <1>0. /\ CallType /\ HeapInv /\ ValueInv /\ ThreadInv /\ OutcomeInv /\ NamesAreRight
        /\ FALSE \in BOOLEAN /\ TRUE \in BOOLEAN /\ "error" \in AnswerTexts
    BY DEF ExecInv, AnswerTexts
  <1>1. CASE LuaLoad
    <2>1. call.at = "lua_load" /\ depth = 0 /\ depth' = 1
      BY <1>0, <1>1 DEF LuaLoad, At, ValueInv
    <2>2. /\ call'.at \in {"lua_error", "lua_call"} /\ call' \in CallRecords
          /\ call'.script = call.script /\ call'.main = call.main /\ call'.thread = call.thread
          /\ call'.at = "lua_error" => call.script.does = "syntax"
      BY <1>0, <1>1 DEF LuaLoad, CallType, CallRecords, Points, Errors
    <2>3. CallType' /\ NamesAreRight'
      <3>1. UNCHANGED <<mainThread, resources, held, answer, asked, fate>>
        BY <1>1 DEF LuaLoad
      <3>2. NamesAreRight'
        BY <1>0, <3>1, NamesKept DEF resources
      <3>3. CallType'
        BY <1>0, <2>1, <2>2, <3>1 DEF CallType, resources
      <3> QED
        BY <3>2, <3>3
    <2>4. OutcomeInv'
      BY <2>2 DEF OutcomeInv, Asks
    <2>5. HeapInv' /\ ValueInv' /\ ThreadInv'
      BY <1>0, <1>1, <2>1, <2>2
      DEF LuaLoad, HeapInv, Up, Down, ValueInv, ThreadInv, ReaperAskedOnMainThread, InLua, InJs, resources
    <2> QED
      BY <2>3, <2>4, <2>5 DEF ExecInv
  <1>2. CASE LuaPcall
    <2>0. CASE Dies("exit") /\ UNCHANGED asked
      BY <1>2, <2>0, DeathStep DEF LuaPcall, Dies
    <2> DEFINE comes == Run(call.script, Bound("lua", LuaCall))
    <2>1. call.at = "lua_call" /\ call.script \in Scripts /\ call.main \in BOOLEAN
      BY <1>0, <1>2 DEF LuaPcall, At, CallType, CallRecords
    <2>2. Sound(comes, call.script, call.main, bridged["lua"])
      BY <2>1, LuaRuns
    <2> HIDE DEF comes
    <2>3. CASE /\ Evaluate(comes, "lua_error", "lua_result")
               /\ UNCHANGED <<resources, values, answer, fate>>
      <3>1. mainThread' = mainThread /\ bridged' = bridged
        BY <1>2, <2>3 DEF LuaPcall, resources
      <3>2. /\ call' \in CallRecords /\ call'.at \in {"lua_error", "lua_result"}
            /\ call'.thread = call.thread /\ call'.main = call.main
            /\ asked' \subseteq Threads /\ asked' \subseteq {mainThread}
            /\ OutcomeInv'
        BY <2>1, <2>2, <2>3, <3>1, EvaluateStep
      <3>3. CallType' /\ NamesAreRight'
        BY <1>0, <2>3, <3>1, <3>2, NamesKept DEF CallType, values
      <3>4. HeapInv' /\ ValueInv' /\ ThreadInv'
        BY <1>0, <2>1, <2>3, <3>1, <3>2
        DEF HeapInv, Up, Down, ValueInv, ThreadInv, ReaperAskedOnMainThread, InLua, InJs,
            resources, values
      <3> QED
        BY <3>2, <3>3, <3>4 DEF ExecInv
    <2> QED
      BY <1>2, <2>0, <2>3 DEF LuaPcall, comes
  <1>3. CASE LuaError
    <2>1. call.at = "lua_error" /\ depth = 1 /\ held = 0
      BY <1>0, <1>3 DEF LuaError, At, ValueInv
    <2>2. CASE depth' = depth - 1 /\ Return(FALSE, "error") /\ UNCHANGED fate
      <3>1. Return(FALSE, "error") /\ depth' = 0 /\ held' = 0
        <4>1. depth' = depth - 1 /\ held' = held
          BY <1>3, <2>2 DEF LuaError
        <4>2. depth' = 0 /\ held' = 0
          BY <2>1, <4>1
        <4> QED
          BY <2>2, <4>2
      <3>2. UNCHANGED <<mainThread, resources, asked, fate>>
        BY <1>3, <2>2 DEF LuaError
      <3>3. /\ call.at \in {"lua_error", "lua_result", "js_error", "js_result"}
            /\ call.at \notin {"lua_result", "js_result"}
        BY <2>1
      <3> QED
        BY <1>0, <3>1, <3>2, <3>3, ResultStep
    <2>3. CASE fate' = "segv" /\ UNCHANGED <<depth, call, answer>>
      <3>0. UNCHANGED <<mainThread, resources, held, asked>>
        BY <1>3 DEF LuaError
      <3> QED
        BY <2>3, <3>0, DeathStep DEF values
    <2> QED
      BY <1>3, <2>2, <2>3 DEF LuaError
  <1>4. CASE LuaResult
    <2>1. call.at = "lua_result" /\ depth = 1 /\ held = 0 /\ call.value \in Results
      BY <1>0, <1>4 DEF LuaResult, At, ValueInv, OutcomeInv
    <2> DEFINE text == LuaText(call.value)
    <2>2. /\ text \in AnswerTexts
          /\ call.value \notin {"boolean", "nil"} => text = call.value
          /\ call.value = "nil" => text = ""
      BY <2>1 DEF LuaText, AnswerTexts
    <2>3. /\ depth' = depth - 1 /\ held' = held /\ Return(TRUE, text)
          /\ UNCHANGED <<mainThread, resources, asked, fate>>
      BY <1>4 DEF LuaResult
    <2>4. depth' = 0 /\ held' = 0
      BY <2>1, <2>3
    <2> HIDE DEF text
    <2> QED
      BY <1>0, <2>1, <2>2, <2>3, <2>4, ResultStep
  <1> QED
    BY <1>1, <1>2, <1>3, <1>4

LEMMA JsSteps ==
  ASSUME ExecInv, JsEval \/ JsError \/ JsResult
  PROVE  ExecInv'
  <1>0. /\ CallType /\ HeapInv /\ ValueInv /\ ThreadInv /\ OutcomeInv /\ NamesAreRight
        /\ FALSE \in BOOLEAN /\ TRUE \in BOOLEAN /\ "error" \in AnswerTexts
    BY DEF ExecInv, AnswerTexts
  <1>1. CASE JsEval
    <2> DEFINE comes == Run(call.script, Bound("js", JsCall))
    <2>1. /\ call.at = "js_eval" /\ call.script \in Scripts /\ call.main \in BOOLEAN
          /\ depth = 0 /\ held = 0
      BY <1>0, <1>1 DEF JsEval, At, CallType, CallRecords, ValueInv
    <2>2. Sound(comes, call.script, call.main, bridged["js"])
      BY <2>1, JsRuns
    <2>3. /\ Evaluate(comes, "js_error", "js_result")
          /\ held' = IF comes.raises THEN held ELSE held + 1
          /\ UNCHANGED <<mainThread, resources, depth, answer, fate>>
      BY <1>1 DEF JsEval
    <2> HIDE DEF comes
    <2>4. /\ call' \in CallRecords
          /\ call'.at = IF comes.raises THEN "js_error" ELSE "js_result"
          /\ call'.thread = call.thread /\ call'.main = call.main
          /\ asked' \subseteq Threads /\ asked' \subseteq {mainThread}
          /\ OutcomeInv'
      BY <2>1, <2>2, <2>3, EvaluateStep DEF resources
    <2>5. held' = IF call'.at = "js_result" THEN 1 ELSE 0
      BY <2>1, <2>3, <2>4
    <2>6. CallType' /\ NamesAreRight'
      BY <1>0, <2>3, <2>4, <2>5, NamesKept DEF CallType, resources
    <2>7. HeapInv' /\ ValueInv' /\ ThreadInv'
      BY <1>0, <2>1, <2>3, <2>4, <2>5
      DEF HeapInv, Up, Down, ValueInv, ThreadInv, ReaperAskedOnMainThread, InLua, InJs, resources
    <2> QED
      BY <2>4, <2>6, <2>7 DEF ExecInv
  <1>2. CASE JsError
    <2>1. call.at = "js_error" /\ depth = 0 /\ held = 0
      BY <1>0, <1>2 DEF JsError, At, ValueInv
    <2>2. /\ held' = held + JsErrorTaken - JsErrorFreed /\ depth' = depth
          /\ Return(FALSE, "error") /\ UNCHANGED <<mainThread, resources, asked, fate>>
      BY <1>2 DEF JsError
    <2>3. held' = 0 /\ depth' = 0
      <3>1. JsErrorTaken = JsErrorFreed /\ JsErrorTaken \in {1, 2}
        BY DEF JsErrorTaken, JsErrorFreed
      <3>2. held' = held + JsErrorTaken - JsErrorFreed /\ depth' = depth
        BY <2>2
      <3> QED
        BY <2>1, <3>1, <3>2
    <2> QED
      BY <1>0, <2>1, <2>2, <2>3, ResultStep
  <1>3. CASE JsResult
    <2>1. call.at = "js_result" /\ depth = 0 /\ held = 1 /\ call.value \in Results
      BY <1>0, <1>3 DEF JsResult, At, ValueInv, OutcomeInv
    <2> DEFINE text == JsText(call.value)
    <2>2. /\ text \in AnswerTexts
          /\ call.value \notin {"boolean", "nil"} => text = call.value
          /\ call.value = "nil" => text = ""
      BY <2>1 DEF JsText, AnswerTexts
    <2>3. /\ held' = held - 1 /\ depth' = depth /\ Return(TRUE, text)
          /\ UNCHANGED <<mainThread, resources, asked, fate>>
      BY <1>3 DEF JsResult
    <2>4. depth' = 0 /\ held' = 0
      BY <2>1, <2>3
    <2> HIDE DEF text
    <2> QED
      BY <1>0, <2>1, <2>2, <2>3, <2>4, ResultStep
  <1> QED
    BY <1>1, <1>2, <1>3

LEMMA ExecNext == ExecInv /\ [Next]_vars => ExecInv'
  <1> SUFFICES ASSUME ExecInv, [Next]_vars PROVE ExecInv'
    OBVIOUS
  <1>1. CASE UNCHANGED vars
    <2>1. NamesAreRight'
      BY <1>1, NamesKept DEF vars, resources, ExecInv
    <2> QED
      BY <1>1, <2>1 DEF vars, resources, values, ExecInv, CallType, HeapInv, Up, Down, ValueInv, ThreadInv,
                        OutcomeInv, ReaperAskedOnMainThread
  <1> QED
    BY <1>1, InstallStep, InitSteps, ShutdownStep, InvokeStep, LuaSteps, JsSteps
    DEF Next, Step

LEMMA ExecInvariant == Spec => []ExecInv
  <1> HIDE DEF ExecInv, Init, Next, vars
  <1> QED
    BY ExecInit, ExecNext, PTL DEF Spec

-----------------------------------------------------------------------------
(***************************************************************************)
(* The theorems                                                            *)
(***************************************************************************)

\* No variable of the executor ever leaves its type.
THEOREM ExecutorTypes == Spec => []TypeOK
  <1>1. ExecInv => TypeOK
    <2> SUFFICES ASSUME ExecInv PROVE TypeOK
      OBVIOUS
    <2>1. /\ handle \subseteq Members /\ heap \subseteq Members /\ fate \in Fates
      BY DEF ExecInv, CallType, CallRecords, HeapInv, Up, Down, ValueInv, Points, InLua, InJs,
         Members, Fates
    <2>2. answer.text \in Texts
      BY DEF ExecInv, CallType, Answers, AnswerTexts, Results, Names, Texts
    <2> QED
      BY <2>1, <2>2 DEF ExecInv, CallType, CallRecords, Answers, TypeOK
  <1> QED
    BY <1>1, ExecInvariant, PTL

\* Wherever init stops and goes on to answer, of luaL_newstate, JS_NewRuntime and
\* JS_NewContext failing, it has undone what it did; an init that answers yes has
\* the whole bridge in Lua, whatever of it JavaScript got; and shutdown leaves
\* nothing.  (An allocation within luaL_openlibs or the Lua bridge does not come
\* back: WaysToDie.)
THEOREM InitRollsBack == Spec => []AllRuntimesOrNone
  <1>1. ExecInv => AllRuntimesOrNone
    BY DEF ExecInv, HeapInv, Up, Down, AllRuntimesOrNone, IsIdle
  <1> QED
    BY <1>1, ExecInvariant, PTL

\* No evaluation leaves anything on the Lua stack or holds a JS value, so that
\* shutting down never trips the library's assertion.
THEOREM CallsCleanUp == Spec => []NothingLeftBehind
  <1>1. ExecInv => NothingLeftBehind
    BY DEF ExecInv, ValueInv, NothingLeftBehind, IsIdle
  <1> QED
    BY <1>1, ExecInvariant, PTL

\* REAPER is never asked on a thread other than the installed one.
THEOREM AskedOnMainThread == Spec => []ReaperAskedOnMainThread
  <1>1. ExecInv => ReaperAskedOnMainThread
    BY DEF ExecInv, ThreadInv
  <1> QED
    BY <1>1, ExecInvariant, PTL

\* Both runtimes give a track's name for its index, however wide an int is.
THEOREM RightNames == Spec => []NamesAreRight
  <1>1. ExecInv => NamesAreRight
    BY DEF ExecInv
  <1> QED
    BY <1>1, ExecInvariant, PTL

\* How the process may have ended, and where it was then
Deaths ==
  /\ fate = "segv" => call.at = "lua_error" /\ ThrowsNoText(call.script)
  /\ fate = "exit" => call.at = "lua_call" /\ call.script.does = "exit"
  /\ fate = "abort" => call.at \in {"init_lua", "init_bridges"}

\* The process is in danger only on the way from an error without a text.
DangerInv ==
  /\ call.at = "lua_error" /\ call.value # "text" => ThrowsNoText(call.script)
  /\ Deaths

LEMMA DangerNext ==
  ASSUME ExecInv, DangerInv, [Next]_vars
  PROVE  DangerInv'
  <1>0. call \in CallRecords /\ Idle.at = "idle"
    BY DEF ExecInv, CallType, Idle
  <1>1. CASE fate = "alive" /\ fate' = "alive" /\ call'.at # "lua_error"
    BY <1>1 DEF DangerInv, Deaths
  <1>2. CASE LuaLoad
    <2>1. call'.value = "text" /\ fate' = "alive"
      BY <1>0, <1>2 DEF LuaLoad, At, CallRecords
    <2> QED
      BY <2>1 DEF DangerInv, Deaths
  <1>3. CASE LuaPcall
    <2> DEFINE comes == Run(call.script, Bound("lua", LuaCall))
    <2>1. Sound(comes, call.script, call.main, bridged["lua"])
      BY <1>0, LuaRuns DEF CallRecords
    <2> HIDE DEF comes
    <2>2. CASE Evaluate(comes, "lua_error", "lua_result") /\ fate' = fate
      <3>1. /\ call'.script = call.script /\ call'.value = comes.value /\ fate' = "alive"
            /\ call'.at = IF comes.raises THEN "lua_error" ELSE "lua_result"
        BY <1>0, <1>3, <2>2 DEF Evaluate, CallRecords, LuaPcall, At
      <3> QED
        BY <2>1, <3>1 DEF Sound, DangerInv, Deaths
    <2>3. CASE call.script.does = "exit" /\ Dies("exit")
      <3>1. call' = call /\ fate' = "exit" /\ call.at = "lua_call"
        BY <1>3, <2>3 DEF LuaPcall, At, Dies
      <3> QED
        BY <2>3, <3>1 DEF DangerInv, Deaths
    <2> QED
      BY <1>3, <2>2, <2>3 DEF LuaPcall, comes
  <1>4. CASE LuaError
    <2>1. CASE fate' = fate /\ call' = Idle
      BY <1>0, <1>4, <2>1 DEF LuaError, At, DangerInv, Deaths
    <2>2. CASE call.value # "text" /\ call' = call /\ fate' = "segv"
      BY <1>4, <2>2 DEF LuaError, At, DangerInv, Deaths, ThrowsNoText
    <2> QED
      BY <1>4, <2>1, <2>2 DEF LuaError, Return
  <1>5. CASE UNCHANGED <<call, fate>>
    BY <1>5 DEF DangerInv, Deaths, ThrowsNoText
  <1>6. CASE JsEval
    <2>1. fate = "alive" /\ fate' = "alive" /\ call'.at \in {"js_error", "js_result"}
      BY <1>0, <1>6 DEF JsEval, At, Evaluate, CallRecords
    <2> QED
      BY <1>1, <2>1
  <1>7. CASE LuaResult \/ JsError \/ JsResult
    BY <1>0, <1>1, <1>7 DEF LuaResult, JsError, JsResult, At, Return
  <1>8. CASE Dies("abort") /\ (InitLua \/ InitBridges)
    <2>1. call' = call /\ fate' = "abort" /\ call.at \in {"init_lua", "init_bridges"}
      BY <1>8 DEF Dies, InitLua, InitBridges, At
    <2> QED
      BY <2>1 DEF DangerInv, Deaths
  <1>14. CASE InitRuntime \/ InitContext \/ ((InitLua \/ InitBridges) /\ ~Dies("abort"))
    <2>1. held = 0
      BY <1>14 DEF ExecInv, ValueInv, InitLua, InitRuntime, InitContext, InitBridges, At
    <2>2. \A members : Free(members) => fate' = fate
      BY <2>1 DEF Free
    <2>3. fate = "alive" /\ fate' = "alive"
      BY <1>14, <2>2 DEF InitLua, InitRuntime, InitContext, InitBridges, At, Allocate
    <2>4. call' = Idle \/ \E point \in {"init_runtime", "init_context", "init_bridges"} : Goto(point)
      BY <1>14 DEF InitLua, InitRuntime, InitContext, InitBridges, Return
    <2>5. call'.at # "lua_error"
      BY <1>0, <2>4 DEF Goto, CallRecords
    <2> QED
      BY <1>1, <2>3, <2>5
  <1>9. CASE Shutdown
    <2>1. held = 0 /\ fate = "alive" /\ call.at = "idle" /\ call' = call
      BY <1>9 DEF ExecInv, ValueInv, Shutdown, IsIdle
    <2> QED
      BY <1>1, <1>9, <2>1 DEF Shutdown, Free
  <1>10. CASE \E t \in Threads : InstallMainThread(t)
    BY <1>5, <1>10 DEF InstallMainThread
  <1>11. CASE \E t \in Threads : InitCall(t)
    <2>1. call'.at = "init_lua" /\ fate = "alive" /\ fate' = "alive"
      BY <1>11 DEF InitCall, IsIdle, Idle
    <2> QED
      BY <1>1, <2>1
  <1>12. CASE \E t \in Threads, id \in Ids, script \in Scripts : Invoke(t, id, script)
    <2>1. PICK t \in Threads, id \in Ids, script \in Scripts : Invoke(t, id, script)
      BY <1>12
    <2>2. fate = "alive" /\ fate' = "alive" /\ call'.at # "lua_error"
      BY <2>1 DEF Invoke, IsIdle, FirstPoint
    <2> QED
      BY <1>1, <2>2
  <1>13. CASE UNCHANGED vars
    BY <1>5, <1>13 DEF vars
  <1> QED
    BY <1>2, <1>3, <1>4, <1>6, <1>7, <1>8, <1>9, <1>10, <1>11, <1>12, <1>13, <1>14 DEF Next, Step

\* Of what scripts do in this model (return or raise a value, call the bridge,
\* exit, not parse) and of the allocations init makes, the process ends in exactly
\* three ways: on a Lua error without a text, the finding; on a Lua script that
\* exits, which has the standard libraries for it; and on an allocation of
\* luaL_openlibs or of the Lua bridge's registration.  JavaScript, the other
\* failures of init, shutdown and every error with a text leave it alive.
THEOREM WaysToDie == Spec => [](fate # "assert" /\ Deaths)
  <1>1. Init => DangerInv
    <2> SUFFICES ASSUME Init PROVE DangerInv
      OBVIOUS
    <2>1. call = Idle /\ fate = "alive"
      BY DEF Init
    <2>2. call.at = "idle"
      BY <2>1 DEF Idle
    <2> QED
      BY <2>1, <2>2 DEF DangerInv, Deaths
  <1>2. ExecInv /\ DangerInv => fate # "assert" /\ Deaths
    BY DEF ExecInv, ValueInv, DangerInv
  <1>3. ExecInv /\ DangerInv /\ [Next]_vars => DangerInv'
    BY DangerNext
  <1> HIDE DEF ExecInv, DangerInv, Deaths, Init, Next, vars
  <1> QED
    BY <1>1, <1>2, <1>3, ExecInvariant, PTL DEF Spec

-----------------------------------------------------------------------------
(***************************************************************************)
(* The benchmark and the smoke test                                        *)
(***************************************************************************)

\* The programs only drive the executor: whatever the benchmark, the smoke test
\* or an embedder do, the executor takes a step of its own or none.
LEMMA DriversOnlyCall ==
  ASSUME [BenchNext]_allVars
  PROVE  [Next]_vars
  <1>1. TheThread \in Threads
    BY ExecutorConstants DEF TheThread
  <1>2. CASE Begin
    BY <1>1, <1>2 DEF Begin, Next
  <1>3. CASE TimeInvoke
    <2>1. Runtime \in Ids
      BY <1>3 DEF TimeInvoke, Measuring, Runtime, Timed, Ids
    <2>2. BenchScript(Runtime) \in Scripts
      BY DEF BenchScript, Scripts
    <2> QED
      BY <1>1, <1>3, <2>1, <2>2 DEF TimeInvoke, Next
  <1>4. CASE ShutDown
    BY <1>4 DEF ShutDown, Next
  <1>5. CASE Step \/ Next
    BY <1>5 DEF Next
  <1> QED
    BY <1>2, <1>3, <1>4, <1>5 DEF BenchNext, Initialised, TimeNegative, TimedAll, Report,
       Ended, allVars

\* What holds of the executor for every embedder holds for the programs.
THEOREM ProgramsRefineExecutor == BenchSpec => Spec
  <1>1. BenchInit => Init
    BY DEF BenchInit
  <1> QED
    BY <1>1, DriversOnlyCall, PTL DEF BenchSpec, Spec

THEOREM ProgramsKeepPromises ==
  BenchSpec => [](AllRuntimesOrNone /\ NothingLeftBehind /\ ReaperAskedOnMainThread /\ NamesAreRight)
  BY ProgramsRefineExecutor, InitRollsBack, CallsCleanUp, AskedOnMainThread, RightNames, PTL

\* The index of the percentile leaves at most one in twenty after it, rounded up.
LEMMA P95Rank ==
  ASSUME NEW m \in Int, NEW s \in Int, NEW i \in Int, i = (95 * (m - 1)) \div 100, i < m - s
  PROVE  20 * s < m + 20
  <1>1. 100 * i > 95 * (m - 1) - 100
    <2> DEFINE a == 95 * (m - 1)
    <2>1. a \in Int /\ i = a \div 100
      OBVIOUS
    <2> HIDE DEF a
    <2>2. 100 * (a \div 100) > a - 100
      BY <2>1
    <2> QED
      BY <2>1, <2>2 DEF a
  <1>2. s <= m - 1 - i
    OBVIOUS
  <1>3. 100 * s <= 100 * (m - 1) - 100 * i
    BY <1>2
  <1>4. 100 * s < 5 * (m - 1) + 100
    BY <1>1, <1>3
  <1> QED
    BY <1>4

\* The benchmark counts a slow latency only while it has some to time, and a
\* verdict is written once, after which nothing is timed.
BenchCounts ==
  /\ n \in Int /\ timed \in Nat /\ slow \in [Timed -> Nat]
  /\ \A id \in Timed : slow[id] > 0 => n > 0
AllWithinBudget == \A id \in Timed : P95WithinBudget(id)
BenchVerdict == report = "GO" => AllWithinBudget /\ phase = "exit 0"
BenchInv == BenchCounts /\ BenchVerdict

LEMMA CountsStep == BenchCounts /\ [BenchNext]_allVars => BenchCounts'
  <1> SUFFICES ASSUME BenchCounts, [BenchNext]_allVars PROVE BenchCounts'
    OBVIOUS
  <1>0. /\ n \in Int /\ timed \in Nat /\ slow \in [Timed -> Nat]
        /\ \A id \in Timed : slow[id] > 0 => n > 0
    BY DEF BenchCounts
  <1>1. CASE TimeInvoke
    <2>1. /\ phase \in Timed \cup {"warmup"} /\ timed < Size /\ timed' = timed + 1 /\ n' = n
      BY <1>1 DEF TimeInvoke, Measuring
    <2>2. PICK over \in {0, 1} :
            /\ phase = "warmup" => over = 0
            /\ slow' = [slow EXCEPT ![Runtime] = @ + over]
      BY <1>1 DEF TimeInvoke
    <2>3. Runtime \in Timed
      BY <2>1 DEF Runtime, Timed
    <2>4. over = 1 => n > 0
      <3> SUFFICES ASSUME over = 1 PROVE n > 0
        OBVIOUS
      <3>1. Size = n
        BY <2>2 DEF Size
      <3> QED
        BY <1>0, <2>1, <3>1
    <2>5. /\ slow' \in [Timed -> Nat]
          /\ slow'[Runtime] = slow[Runtime] + over
          /\ \A id \in Timed : id # Runtime => slow'[id] = slow[id]
      <3> HIDE DEF Runtime, Timed
      <3>1. over \in Nat
        OBVIOUS
      <3> QED
        BY <1>0, <2>2, <2>3, <3>1
    <2>6. ASSUME NEW id \in Timed, slow'[id] > 0 PROVE n > 0
      <3> HIDE DEF Runtime, Timed
      <3>1. CASE id = Runtime /\ over = 0
        BY <1>0, <2>3, <2>5, <2>6, <3>1
      <3>2. CASE id # Runtime
        BY <1>0, <2>5, <2>6, <3>2
      <3> QED
        BY <2>4, <3>1, <3>2
    <2>7. timed' \in Nat
      BY <1>0, <2>1
    <2> QED
      BY <1>0, <2>1, <2>5, <2>6, <2>7 DEF BenchCounts
  <1>2. CASE Begin \/ Initialised \/ TimeNegative \/ TimedAll \/ ShutDown \/ Report
               \/ UNCHANGED bench
    <2>1. UNCHANGED <<n, slow>> /\ (timed' = 0 \/ timed' = timed)
      BY <1>2 DEF Begin, Initialised, TimeNegative, TimedAll, ShutDown, Report, Enter, bench
    <2>2. timed' \in Nat
      BY <1>0, <2>1
    <2> QED
      BY <1>0, <2>1, <2>2 DEF BenchCounts
  <1> QED
    BY <1>1, <1>2 DEF BenchNext, Ended, allVars

LEMMA VerdictStep == BenchVerdict /\ [BenchNext]_allVars => BenchVerdict'
  <1> SUFFICES ASSUME BenchVerdict, [BenchNext]_allVars PROVE BenchVerdict'
    OBVIOUS
  <1>1. CASE TimeInvoke \/ Begin \/ Initialised \/ TimeNegative \/ TimedAll \/ ShutDown
    <2>1. phase # "exit 0" /\ report' = report
      BY <1>1 DEF TimeInvoke, Begin, Initialised, TimeNegative, TimedAll, ShutDown, Measuring, Timed
    <2> QED
      BY <2>1 DEF BenchVerdict
  <1>2. CASE Report
    <2>1. UNCHANGED <<n, slow>> /\ phase = "report"
      BY <1>2 DEF Report
    <2>2. AllWithinBudget' = AllWithinBudget
      BY <2>1 DEF AllWithinBudget, P95WithinBudget, P95Index
    <2>3. report' = "GO" => AllWithinBudget /\ phase' = "exit 0"
      <3>1. CASE report' = report
        BY <2>1, <3>1 DEF BenchVerdict
      <3>2. CASE /\ report' = IF AllWithinBudget THEN "GO" ELSE "NO-GO"
                 /\ phase' = IF report' = "GO" THEN "exit 0" ELSE "exit 1"
        BY <3>2
      <3> QED
        BY <1>2, <3>1, <3>2 DEF Report, Enter, AllWithinBudget
    <2> QED
      BY <2>2, <2>3 DEF BenchVerdict
  <1>3. CASE UNCHANGED bench
    <2>1. UNCHANGED <<n, slow, phase, report>>
      BY <1>3 DEF bench
    <2>2. AllWithinBudget' = AllWithinBudget
      BY <2>1 DEF AllWithinBudget, P95WithinBudget, P95Index
    <2> QED
      BY <2>1, <2>2 DEF BenchVerdict
  <1> QED
    BY <1>1, <1>2, <1>3 DEF BenchNext, Ended, allVars

\* GO means that of every runtime's latencies at most one in twenty, rounded up,
\* was over the budget; for every --n, warm-up and distribution of latencies.
THEOREM GoIsEarned == BenchSpec => []GoMeansP95
  <1>1. BenchInit => BenchInv
    <2> SUFFICES ASSUME BenchInit PROVE BenchInv
      OBVIOUS
    <2>1. n \in Int /\ timed = 0 /\ slow = [id \in Timed |-> 0] /\ report = "none"
      BY BenchConstants DEF BenchInit
    <2> QED
      BY <2>1 DEF BenchInv, BenchCounts, BenchVerdict
  <1>2. BenchInv => GoMeansP95
    <2> SUFFICES ASSUME BenchInv, report = "GO", NEW id \in Timed PROVE 20 * slow[id] < n + 20
      BY DEF GoMeansP95
    <2>1. n \in Int /\ slow[id] \in Nat /\ (slow[id] > 0 => n > 0)
      BY DEF BenchInv, BenchCounts
    <2>2. P95WithinBudget(id)
      BY DEF BenchInv, BenchVerdict, AllWithinBudget
    <2>3. CASE n = 0
      <3>1. slow[id] = 0
        BY <2>1, <2>3
      <3> QED
        BY <2>3, <3>1
    <2>4. CASE n # 0
      <3>1. P95Index < n - slow[id]
        BY <2>2, <2>4 DEF P95WithinBudget
      <3>2. P95Index \in Int
        BY <2>1 DEF P95Index
      <3> QED
        BY <2>1, <3>1, <3>2, P95Rank DEF P95Index
    <2> QED
      BY <2>3, <2>4
  <1>3. BenchInv /\ [BenchNext]_allVars => BenchInv'
    BY CountsStep, VerdictStep DEF BenchInv
  <1> QED
    BY <1>1, <1>2, <1>3, PTL DEF BenchSpec

=============================================================================
