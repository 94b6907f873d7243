------------------------------- MODULE Bridge -------------------------------
(***************************************************************************)
(* The read-only bridge from the script runtimes to REAPER                 *)
(* (src/host/bridge/bridge.cpp) and its bindings for Lua and QuickJS       *)
(* (bridge_lua.cpp, bridge_quickjs.cpp), as functions of the argument the  *)
(* script gives and of the thread the call is made on.  The REAPER side is *)
(* the stub the code carries: constants, and the names of four tracks.     *)
(***************************************************************************)
EXTENDS Integers, Sequences

CONSTANTS
  IntMax,    \* INT_MAX of the C++ build; scripts have wider integers
  Indexes    \* the integers a script may pass to get_track_name

ASSUME BindingConstants ==
  /\ IntMax \in Nat
  /\ Indexes \subseteq Int

TrackNames == <<"Drums", "Bass", "Keys", "Vocals">>
TrackCount == Len(TrackNames)

Functions == {"get_cursor_position", "get_project_tempo", "get_track_count",
              "get_track_name", "get_master_track_volume"}

\* What a script may pass: an integer, a text that is no numeral, or nothing.
Arguments == [is : {"integer"}, value : Indexes] \cup [is : {"text", "none"}]

\* A number narrowed to a C++ int: two's complement, so it wraps around.
Ints == -(IntMax + 1) .. IntMax
Narrow(i) == ((i + IntMax + 1) % (2 * (IntMax + 1))) - (IntMax + 1)

\* Not asking the guard; and counting tracks from one, as Lua does
BridgeCall_unguarded(name, index, onMain) ==
  IF name = "get_track_name" /\ index \notin 0 .. TrackCount - 1
  THEN [status |-> "OutOfRange", value |-> "nil", asked |-> TRUE]
  ELSE [status |-> "Ok", value |-> "number", asked |-> TRUE]
BridgeCall_from_one(name, index, onMain) ==
  IF name = "get_track_name" /\ index \in 1 .. TrackCount /\ onMain
  THEN [status |-> "Ok", value |-> TrackNames[index], asked |-> TRUE]
  ELSE [status |-> "OutOfRange", value |-> "nil", asked |-> onMain]

\* The five calls of class Bridge: the status, what REAPER answered (reduced to
\* what it is), and whether REAPER was asked at all.  The guard comes first.
BridgeCall(name, index, onMain) ==
  CASE ~onMain ->
         [status |-> "NotOnMainThread", value |-> "nil", asked |-> FALSE]
    [] onMain /\ name # "get_track_name" ->
         [status |-> "Ok", value |-> "number", asked |-> TRUE]
    [] onMain /\ name = "get_track_name" /\ index \in 0 .. TrackCount - 1 ->
         [status |-> "Ok", value |-> TrackNames[index + 1], asked |-> TRUE]
    [] OTHER ->
         [status |-> "OutOfRange", value |-> "nil", asked |-> TRUE]

\* What the script sees: a value, or an error raised in it.
NoCall == [raises |-> TRUE, value |-> "nil", asked |-> FALSE]

\* Both bindings: the guard's refusal raises, an index out of range is nil.
ToScript(result) ==
  [raises |-> result.status = "NotOnMainThread",
   value |-> result.value, asked |-> result.asked]

\* The l_... functions; luaL_checkinteger raises for all but integers.
LuaCall(name, arg, onMain) ==
  IF name # "get_track_name" THEN ToScript(BridgeCall(name, 0, onMain))
  ELSE IF arg.is = "integer"
       THEN ToScript(BridgeCall(name, Narrow(arg.value), onMain))
       ELSE NoCall

\* The js_... functions; JS_ToInt32 makes 0 of a text that is no numeral.
JsIndex(arg) == IF arg.is = "integer" THEN Narrow(arg.value) ELSE 0
JsCall(name, arg, onMain) ==
  IF name = "get_track_name" /\ arg.is = "none" THEN NoCall
  ELSE ToScript(BridgeCall(name, JsIndex(arg), onMain))

=============================================================================
