-------------------------- MODULE AgentBridge_proofs --------------------------
(***************************************************************************)
(* Proofs about the agent bridge, for any number of calls, timeouts, disk  *)
(* faults and crashes.  Every step of the bridge is a step or a stutter of *)
(* the writer, so what is proved of the writer holds here; what the bridge *)
(* adds is that its calls come one at a time.                              *)
(***************************************************************************)
EXTENDS AgentBridge, ArtifactWriter_proofs

\* A call whose request is on its way or in a handler is the one the bridge
\* waits for, or one it gave up.
BridgeInv ==
  /\ asking \in Calls \union {None}
  /\ wanted \in [Calls -> Requests \union {None}]
  /\ wire \in [Calls -> {"none", "sent", "gone"}]
  /\ \A c \in Calls :
       /\ wanted[c] = None => pc[c] = "idle"
       /\ wire[c] = "sent" => pc[c] = "idle" /\ wanted[c] \in Requests
       /\ wire[c] = "sent" \/ InFlight(c) => c = asking \/ c \in gaveUp

LEMMA BridgeInvInit == BridgeInit => BridgeInv
  BY DEF BridgeInit, Init, BridgeInv, InFlight, WriteSteps, RegisterSteps

\* The bridge drives the writer and does nothing to its state itself.
LEMMA BridgeStepsAreWriterSteps ==
  BridgeInv /\ [BridgeNext]_bridgeVars => [Next]_vars
  BY DEF BridgeInv, BridgeNext, CallTool, Handle, Return, Disconnect, GiveUp, Tell,
     HostStep, HostDies, Next, bridgeVars

\* The host's work starts no call.
LEMMA WorkStartsNothing ==
  ASSUME Sane, WorkStep, NEW c \in Calls
  PROVE  /\ InFlight(c)' => InFlight(c)
         /\ pc[c] = "idle" => pc'[c] = "idle"
  <1> USE DEF Answer, Goto, Sane, TypeOK, InFlight, WriteSteps, RegisterSteps
  <1>1. ASSUME NEW d \in Calls, Write(d)
        PROVE  (InFlight(c)' => InFlight(c)) /\ (pc[c] = "idle" => pc'[c] = "idle")
    BY <1>1 DEF Write, CheckExists, MakeFolder, OpenTmp, OpenFails, WriteBlock,
       CloseTmp, WriteFails, Rename, RenameFails, Cleanup
  <1>2. ASSUME NEW d \in Calls, Registration(d)
        PROVE  (InFlight(c)' => InFlight(c)) /\ (pc[c] = "idle" => pc'[c] = "idle")
    BY <1>2 DEF Registration, EnsureFn, Unregister, Register
  <1> QED
    BY <1>1, <1>2 DEF WorkStep, InstallFn, Crash, vars

LEMMA BridgeInvNext == Sane /\ BridgeInv /\ [BridgeNext]_bridgeVars => BridgeInv'
  <1> SUFFICES ASSUME Sane, BridgeInv, [BridgeNext]_bridgeVars PROVE BridgeInv'
    OBVIOUS
  <1> USE DEF BridgeInv
  <1>1. ASSUME NEW c \in Calls, NEW r \in Requests, CallTool(c, r) PROVE BridgeInv'
    <2>1. UNCHANGED <<pc, gaveUp>> /\ \A d \in Calls : InFlight(d)' = InFlight(d)
      BY <1>1 DEF CallTool, vars, InFlight
    <2>2. ~InFlight(c) /\ pc[c] = "idle"
      BY <1>1 DEF CallTool, InFlight, WriteSteps, RegisterSteps
    <2> QED
      BY <1>1, <2>1, <2>2, NoneIsNothing DEF CallTool
  <1>2. ASSUME NEW c \in Calls, Handle(c) PROVE BridgeInv'
    <2>1. wanted[c] \in Requests /\ (c = asking \/ c \in gaveUp)
      BY <1>2 DEF Handle
    <2>2. \A d \in Calls \ {c} : pc'[d] = pc[d]
      BY <1>2 DEF Handle, Begin, Answer, Goto, Sane, TypeOK
    <2>3. \A d \in Calls \ {c} : InFlight(d)' = InFlight(d)
      BY <2>2 DEF InFlight
    <2> QED
      BY <1>2, <2>1, <2>2, <2>3, NoneIsNothing DEF Handle
  <1>3. ASSUME NEW c \in Calls, NEW what, Tell(c, what),
               ~(wire'[c] = "sent" \/ InFlight(c)) \/ c \in gaveUp',
               gaveUp \subseteq gaveUp', wire' \in [Calls -> {"none", "sent", "gone"}],
               \A d \in Calls : wire'[d] = "sent" => wire[d] = "sent"
        PROVE  BridgeInv'
    <2>1. UNCHANGED <<pc, wanted>> /\ \A d \in Calls : InFlight(d)' = InFlight(d)
      BY <1>3 DEF Tell, vars, InFlight
    <2> QED
      BY <1>3, <2>1 DEF Tell
  <1>4. ASSUME NEW c \in Calls, Return(c) PROVE BridgeInv'
    BY <1>3, <1>4 DEF Return, InFlight, WriteSteps, RegisterSteps
  <1>5. ASSUME NEW c \in Calls, Disconnect(c) PROVE BridgeInv'
    BY <1>3, <1>5 DEF Disconnect, InFlight, WriteSteps, RegisterSteps
  <1>6. ASSUME NEW c \in Calls, GiveUp(c) PROVE BridgeInv'
    BY <1>3, <1>6 DEF GiveUp
  <1>7. CASE HostStep
    <2>1. WorkStep /\ UNCHANGED bridge
      BY <1>7 DEF HostStep, WorkStep
    <2> QED
      BY <2>1, WorkStartsNothing DEF bridge
  <1>8. CASE HostDies
    <2>1. WorkStep
      BY <1>8 DEF HostDies, WorkStep
    <2> QED
      BY <1>8, <2>1, WorkStartsNothing DEF HostDies
  <1>9. CASE UNCHANGED bridgeVars
    BY <1>9 DEF bridgeVars, bridge, vars, InFlight
  <1> QED
    BY <1>1, <1>2, <1>4, <1>5, <1>6, <1>7, <1>8, <1>9 DEF BridgeNext

\* The bridge's invariant, with the writer's.
LEMMA BridgeAlways == BridgeSpec => [](Sane /\ BridgeInv)
  <1>1. BridgeInit => Sane /\ BridgeInv
    BY SaneInit, BridgeInvInit DEF BridgeInit
  <1>2. Sane /\ BridgeInv /\ [BridgeNext]_bridgeVars => Sane' /\ BridgeInv'
    BY SaneNext, BridgeInvNext, BridgeStepsAreWriterSteps
  <1> QED
    BY <1>1, <1>2, PTL DEF BridgeSpec

\* Two handlers are at work at once only when the bridge gave one of their calls
\* up: blocking in call_tool makes the writer's clients serial until a timeout.
THEOREM SerialUntilTimeout == BridgeSpec => []OverlapNeedsTimeout
  <1>1. BridgeInv => OverlapNeedsTimeout
    BY DEF BridgeInv, OverlapNeedsTimeout
  <1> QED
    BY <1>1, BridgeAlways, PTL

\* A request that is handled before any timeout finds nobody at work.
LEMMA BridgeKeepsFiles ==
  ASSUME Sane, BridgeInv, gaveUp = {} => FileInv, [BridgeNext]_bridgeVars
  PROVE  (gaveUp = {} => FileInv)'
  <1> SUFFICES ASSUME gaveUp' = {} PROVE FileInv'
    OBVIOUS
  <1>1. gaveUp = {}
    BY DEF BridgeNext, CallTool, Handle, Return, Disconnect, GiveUp, Tell, HostStep,
       HostDies, bridge, bridgeVars
  <1>2. FileInv /\ [Next]_vars
    BY <1>1, BridgeStepsAreWriterSteps
  <1>3. ASSUME NEW c \in Calls, Handle(c) PROVE FileInv'
    <2>1. wanted[c] \in Requests /\ Begin(c, wanted[c])
      BY <1>3 DEF Handle, BridgeInv
    <2>2. \A d \in Calls : ~InFlight(d)
      BY <1>1, <1>3 DEF Handle, BridgeInv, InFlight, WriteSteps, RegisterSteps
    <2> QED
      BY <1>2, <2>1, <2>2, BeginKeepsFiles
  <1>4. CASE WorkStep
    BY <1>2, <1>4, WorkKeepsFiles
  <1> QED
    BY <1>3, <1>4 DEF BridgeNext, CallTool, Return, Disconnect, GiveUp, Tell, HostStep,
       HostDies, bridgeVars, WorkStep

\* Until the first timeout the visible artifacts are whole, through disk faults
\* and crashes, although the writer does nothing to keep its callers apart.
THEOREM WholeArtifacts == BridgeSpec => []WholeUntilTimeout
  <1> DEFINE Inv == gaveUp = {} => FileInv
  <1>1. BridgeInit => Inv
    BY FileInit DEF BridgeInit
  <1>2. Sane /\ BridgeInv /\ Inv /\ [BridgeNext]_bridgeVars => Inv'
    BY BridgeKeepsFiles
  <1>3. Inv => WholeUntilTimeout
    BY DEF FileInv, WholeUntilTimeout
  <1> HIDE DEF Inv
  <1> QED
    BY <1>1, <1>2, <1>3, BridgeAlways, PTL DEF BridgeSpec

-----------------------------------------------------------------------------
(***************************************************************************)
(* What the agent may conclude from its answers                            *)
(***************************************************************************)

\* What the bridge remembers of its calls: the request a handler works on is the
\* one it sent, an answer is the status of the result, a call it gave up was told
\* an error, and the call it is in is the last one it made.
Remembers(c) ==
  /\ arg[c] # None => arg[c] = wanted[c]
  /\ told[c] \notin {"none", "error"} => pc[c] = "done" /\ told[c] = Status(result[c])
  /\ c \in gaveUp => told[c] = "error"
  /\ told[c] # "none" => wanted[c] # None
  /\ c = asking => told[c] = "none" /\ wanted[c] # None
  /\ wanted[c] # None => \E i \in DOMAIN issued : issued[i] = c

BridgeMemory ==
  /\ told \in [Calls -> {"none", "error", "200", "400", "409", "500"}]
  /\ issued \in Seq(Calls)
  /\ asking # None => issued # <<>> /\ issued[Len(issued)] = asking
  /\ \A c \in Calls : Remembers(c)

LEMMA StatusIs ==
  ASSUME NEW r
  PROVE  /\ Status(r) \in {"200", "400", "409", "500"}
         /\ Status(r) = "200" <=> r = "OK"
         /\ Status(r) \in {"400", "409"} <=> r \in {"INVALID_NAME", "FILE_EXISTS"}
  <1>1. Status(r) \in {"200", "400", "409", "500"}
    BY DEF Status
  <1>2. Status(r) = "200" <=> r = "OK"
    BY DEF Status
  <1>3. Status(r) \in {"400", "409"} <=> r \in {"INVALID_NAME", "FILE_EXISTS"}
    BY DEF Status
  <1> QED
    BY <1>1, <1>2, <1>3

LEMMA MemoryInit == BridgeInit => BridgeMemory
  BY NoneIsNothing DEF BridgeInit, Init, BridgeMemory, Remembers

LEMMA MemoryNext ==
  Sane /\ Phases /\ BridgeInv /\ BridgeMemory /\ [BridgeNext]_bridgeVars => BridgeMemory'
  <1> SUFFICES ASSUME Sane, Phases, BridgeInv, BridgeMemory, [BridgeNext]_bridgeVars
               PROVE  BridgeMemory'
    OBVIOUS
  <1>1. ASSUME NEW c \in Calls, NEW r \in Requests, CallTool(c, r) PROVE BridgeMemory'
    <2>1. /\ asking = None /\ asking' = c /\ wanted[c] = None
          /\ wanted' = [wanted EXCEPT ![c] = r]
          /\ issued' = Append(issued, c)
          /\ UNCHANGED <<told, gaveUp, pc, arg, result>>
      BY <1>1 DEF CallTool, vars
    <2>2. /\ issued' \in Seq(Calls) /\ Len(issued') = Len(issued) + 1
          /\ issued'[Len(issued')] = c /\ issued' # <<>>
          /\ DOMAIN issued = 1..Len(issued) /\ DOMAIN issued' = 1..Len(issued')
          /\ \A i \in DOMAIN issued : i \in DOMAIN issued' /\ issued'[i] = issued[i]
          /\ Len(issued') \in DOMAIN issued'
      BY <2>1 DEF BridgeMemory
    <2>3. ASSUME NEW d \in Calls PROVE Remembers(d)'
      <3>1. CASE d = c
        <4>1. told[c] = "none" /\ arg[c] = None /\ c \notin gaveUp
          <5>1. pc[c] = "idle"
            BY <2>1 DEF BridgeInv
          <5> QED
            BY <2>1, <5>1 DEF BridgeMemory, Remembers, Phases, Phase
        <4>2. wanted'[c] = r /\ r # None
          BY <2>1, NoneIsNothing DEF BridgeInv
        <4> QED
          BY <2>1, <2>2, <3>1, <4>1, <4>2 DEF Remembers
      <3>2. CASE d # c
        <4>1. wanted'[d] = wanted[d]
          BY <2>1, <3>2 DEF BridgeInv
        <4>2. Remembers(d)
          BY DEF BridgeMemory
        <4> QED
          BY <2>1, <2>2, <3>2, <4>1, <4>2 DEF Remembers
      <3> QED
        BY <3>1, <3>2
    <2> QED
      BY <2>1, <2>2, <2>3 DEF BridgeMemory
  \* the steps of the host
  <1>2. ASSUME [Next]_vars, UNCHANGED <<asking, wanted, told, issued, gaveUp>>,
               \A c \in Calls : arg'[c] = arg[c] \/ arg'[c] = wanted[c]
        PROVE  BridgeMemory'
    <2>1. ASSUME NEW c \in Calls, told[c] \notin {"none", "error"}
          PROVE  pc'[c] = "done" /\ result'[c] = result[c]
      BY <1>2, <2>1, AnswerStays DEF BridgeMemory, Remembers
    <2>2. ASSUME NEW c \in Calls PROVE Remembers(c)'
      <3>1. Remembers(c)
        BY DEF BridgeMemory
      <3> QED
        BY <1>2, <2>1, <3>1 DEF Remembers
    <2> QED
      BY <1>2, <2>2 DEF BridgeMemory
  <1>3. ASSUME NEW c \in Calls, Handle(c) PROVE BridgeMemory'
    <2>1. \A d \in Calls : arg'[d] = arg[d] \/ arg'[d] = wanted[d]
      BY <1>3 DEF Handle, Begin, Sane, TypeOK
    <2> QED
      BY <1>2, <1>3, <2>1, BridgeStepsAreWriterSteps DEF Handle
  <1>4. ASSUME NEW c \in Calls, NEW what \in {"error", "200", "400", "409", "500"}, Tell(c, what),
               what # "error" => pc[c] = "done" /\ what = Status(result[c]) /\ gaveUp' = gaveUp,
               gaveUp' \subseteq gaveUp \union {c}
        PROVE  BridgeMemory'
    <2>1. /\ asking = c /\ asking' = None
          /\ told' = [told EXCEPT ![c] = what]
          /\ UNCHANGED <<wanted, issued, pc, arg, result>>
      BY <1>4 DEF Tell, vars
    <2>2. ASSUME NEW d \in Calls PROVE Remembers(d)'
      <3>1. Remembers(d)
        BY DEF BridgeMemory
      <3>2. CASE d = c
        <4>1. told'[c] = what /\ c # None
          BY <2>1, NoneIsNothing DEF BridgeMemory
        <4> QED
          BY <1>4, <2>1, <3>1, <3>2, <4>1 DEF Remembers
      <3>3. CASE d # c
        <4>1. told'[d] = told[d] /\ (d \in gaveUp' => d \in gaveUp) /\ d # asking'
          BY <1>4, <2>1, <3>3, NoneIsNothing DEF BridgeMemory
        <4> QED
          BY <2>1, <3>1, <4>1 DEF Remembers
      <3> QED
        BY <3>2, <3>3
    <2>3. told' \in [Calls -> {"none", "error", "200", "400", "409", "500"}]
      BY <1>4, <2>1 DEF BridgeMemory
    <2> QED
      BY <2>1, <2>2, <2>3 DEF BridgeMemory
  <1>5. ASSUME NEW c \in Calls, Return(c) PROVE BridgeMemory'
    <2>1. Status(result[c]) \in {"error", "200", "400", "409", "500"}
      BY StatusIs
    <2> QED
      BY <1>4, <1>5, <2>1 DEF Return
  <1>6. ASSUME NEW c \in Calls, Disconnect(c) \/ GiveUp(c) PROVE BridgeMemory'
    BY <1>4, <1>6 DEF Disconnect, GiveUp
  <1>7. CASE HostStep \/ HostDies
    <2>1. arg' = arg
      BY <1>7 DEF HostStep, HostDies, Crash, Write, Registration, InstallFn, CheckExists,
         MakeFolder, OpenTmp, OpenFails, WriteBlock, CloseTmp, WriteFails, Rename,
         RenameFails, Cleanup, EnsureFn, Unregister, Register
    <2> QED
      BY <1>2, <1>7, <2>1, BridgeStepsAreWriterSteps DEF HostStep, HostDies, bridge
  <1>8. CASE UNCHANGED bridgeVars
    <2>1. UNCHANGED <<asking, wanted, told, issued, gaveUp, arg>>
      BY <1>8 DEF bridgeVars, bridge, vars
    <2> QED
      BY <1>2, <2>1, BridgeStepsAreWriterSteps
  <1> QED
    BY <1>1, <1>3, <1>5, <1>6, <1>7, <1>8 DEF BridgeNext

\* Nobody's save of the artifact was given up.
Quiet(t) == \A d \in Calls : Wants(d, t) => d \notin gaveUp

\* A call that put its content in place
Stored(c) == result[c] \in {"OK", "REGISTER_FAILED"}

\* What a quiet artifact is, at any time: the temporary file of a call for it is
\* that call's own, and the artifact is the content of the last call that stored.
QuietInv ==
  \A t \in Targets : Quiet(t) =>
    /\ \A c \in CallsFor(t) : Writes(c)
    /\ \A c \in CallsFor(t) :
         Stored(c) /\ (\A d \in CallsFor(t) \ {c} : Stored(d) => ~IssuedAfter(d, c))
           => entry[t] # None /\ data[entry[t]] = Content(c)

LEMMA QuietInit == BridgeInit => QuietInv
  BY DEF BridgeInit, Init, QuietInv, CallsFor, For

\* A call that stored has stored for good.
LEMMA StoredStays ==
  ASSUME Sane, Phases, [Next]_vars, NEW c \in Calls, Stored(c)
  PROVE  Stored(c)'
  <1> USE DEF Answer, Goto, Sane, TypeOK
  <1>1. ASSUME NEW d \in Calls, NEW r \in Requests, Begin(d, r) PROVE Stored(c)'
    BY <1>1 DEF Begin, Stored, Phases, Phase
  <1>2. ASSUME NEW d \in Calls, Write(d) PROVE Stored(c)'
    BY <1>2 DEF Write, CheckExists, MakeFolder, OpenTmp, OpenFails, WriteBlock, CloseTmp,
       WriteFails, Rename, RenameFails, Cleanup, Stored, Phases, Phase, WriteSteps
  <1>3. ASSUME NEW d \in Calls, Registration(d) PROVE Stored(c)'
    BY <1>3 DEF Registration, EnsureFn, Unregister, Register, Stored
  <1> QED
    BY <1>1, <1>2, <1>3 DEF Next, InstallFn, Crash, vars, Stored

\* A call comes to have stored by its rename.
LEMMA StoredByRename ==
  ASSUME Sane, Phases, [Next]_vars, NEW c \in Calls, Stored(c)', ~Stored(c)
  PROVE  Rename(c)
  <1> USE DEF Answer, Goto, Sane, TypeOK
  <1>1. ASSUME NEW d \in Calls, NEW r \in Requests, Begin(d, r) PROVE FALSE
    BY <1>1 DEF Begin, Stored
  <1>2. ASSUME NEW d \in Calls, Write(d), ~Rename(d) PROVE FALSE
    BY <1>2 DEF Write, CheckExists, MakeFolder, OpenTmp, OpenFails, WriteBlock, CloseTmp,
       WriteFails, RenameFails, Cleanup, Stored
  <1>3. ASSUME NEW d \in Calls, Rename(d) PROVE d = c
    BY <1>3 DEF Rename, Stored
  <1>4. ASSUME NEW d \in Calls, Registration(d) PROVE FALSE
    <2>1. Stored(d)
      BY <1>4 DEF Registration, EnsureFn, Unregister, Register, Stored, Phases, Phase, RegisterSteps
    <2> QED
      BY <1>4, <2>1 DEF Registration, EnsureFn, Unregister, Register, Stored
  <1> QED
    BY <1>1, <1>2, <1>3, <1>4 DEF Next, InstallFn, Crash, vars, Stored

\* The order in which the agent made its calls does not change.
LEMMA OrderStays ==
  ASSUME BridgeInv, BridgeMemory, [BridgeNext]_bridgeVars, NEW c \in Calls, NEW d \in Calls,
         IssuedAfter(d, c)
  PROVE  IssuedAfter(d, c)'
  <1>1. \A i \in DOMAIN issued : i \in DOMAIN issued' /\ issued'[i] = issued[i]
    <2>1. ASSUME NEW e \in Calls, issued' = Append(issued, e) PROVE <1>1
      BY <2>1 DEF BridgeMemory
    <2> QED
      BY <2>1 DEF BridgeNext, CallTool, Handle, Return, Disconnect, GiveUp, Tell, HostStep,
         HostDies, bridge, bridgeVars
  <1> QED
    BY <1>1 DEF IssuedAfter

\* The call the bridge is in came after all others.
LEMMA AskingIsLast ==
  ASSUME BridgeMemory, NEW c \in Calls, wanted[c] # None, NEW d \in Calls, d = asking, d # c
  PROVE  IssuedAfter(d, c)
  <1>1. issued # <<>> /\ issued \in Seq(Calls) /\ issued[Len(issued)] = d
    BY NoneIsNothing DEF BridgeMemory
  <1>2. PICK i \in DOMAIN issued : issued[i] = c
    BY DEF BridgeMemory, Remembers
  <1>3. Len(issued) \in DOMAIN issued /\ i < Len(issued)
    BY <1>1, <1>2
  <1> QED
    BY <1>1, <1>2, <1>3 DEF IssuedAfter

LEMMA QuietNext ==
  Sane /\ Phases /\ Owned /\ Fresh /\ BridgeInv /\ BridgeMemory /\ QuietInv
    /\ [BridgeNext]_bridgeVars => QuietInv'
  <1> SUFFICES ASSUME Sane, Phases, Owned, Fresh, BridgeInv, BridgeMemory, QuietInv,
                      [BridgeNext]_bridgeVars, NEW t \in Targets, Quiet(t)'
               PROVE  /\ \A c \in CallsFor(t)' : Writes(c)'
                      /\ \A c \in CallsFor(t)' :
                           Stored(c)' /\ (\A d \in CallsFor(t)' \ {c} :
                                            Stored(d)' => ~IssuedAfter(d, c)')
                             => entry'[t] # None /\ data'[entry'[t]] = Content(c)'
    BY DEF QuietInv
  <1>1. [Next]_vars
    BY BridgeStepsAreWriterSteps
  <1>2. Quiet(t)
    <2>1. gaveUp \subseteq gaveUp' /\ \A d \in Calls : wanted[d] # None => wanted'[d] = wanted[d]
      BY DEF BridgeNext, CallTool, Handle, Return, Disconnect, GiveUp, Tell, HostStep,
         HostDies, bridge, bridgeVars, BridgeInv
    <2> QED
      BY <2>1 DEF Quiet, Wants
  \* a call for the artifact that is in flight is the one the bridge waits for
  <1>3. ASSUME NEW d \in CallsFor(t), InFlight(d) PROVE d = asking
    <2>1. Wants(d, t)
      BY DEF CallsFor, For, Target, Wants, BridgeMemory, Remembers
    <2> QED
      BY <1>2, <1>3, <2>1 DEF Quiet, BridgeInv, CallsFor
  <1>4. AloneAt(t)
    BY <1>3 DEF AloneAt
  <1>5. \A c \in CallsFor(t) : Writes(c)
    BY <1>2 DEF QuietInv
  <1>6. \A c \in CallsFor(t)' : Writes(c)'
    BY <1>1, <1>4, <1>5, WritesStay DEF CallsFor
  <1>7. ASSUME NEW c \in CallsFor(t)', Stored(c)',
               \A d \in CallsFor(t)' \ {c} : Stored(d)' => ~IssuedAfter(d, c)'
        PROVE  entry'[t] # None /\ data'[entry'[t]] = Content(c)'
    <2>1. c \in CallsFor(t) /\ Content(c)' = Content(c)
      <3>1. pc[c] # "idle"
        <4>1. CASE Stored(c)
          BY <4>1 DEF Stored, Phases, Phase, CallsFor
        <4>2. CASE ~Stored(c)
          BY <1>1, <1>7, <4>2, StoredByRename DEF Rename, CallsFor
        <4> QED
          BY <4>1, <4>2
      <3>2. arg'[c] = arg[c] /\ c \in Calls
        BY <1>1, <3>1, RequestStays DEF CallsFor
      <3> QED
        BY <3>2 DEF CallsFor, For, Target, Content
    <2>2. CASE Rename(c)
      BY <1>5, <2>1, <2>2, RenameLands
    <2>3. CASE ~Rename(c)
      <3>1. Stored(c)
        BY <1>1, <1>7, <2>1, <2>3, StoredByRename DEF CallsFor
      \* another call that renames now was made after this one
      <3>2. ASSUME NEW d \in CallsFor(t), Rename(d) PROVE FALSE
        <4>1. d \in Calls /\ InFlight(d) /\ d # c
          BY <2>3, <3>2 DEF CallsFor, Rename, InFlight, WriteSteps
        <4>2. d = asking
          BY <1>3, <4>1
        <4>3. wanted[c] # None
          BY <2>1 DEF CallsFor, For, BridgeMemory, Remembers
        <4>4. IssuedAfter(d, c)'
          BY <2>1, <4>1, <4>2, <4>3, AskingIsLast, OrderStays DEF CallsFor
        <4>5. Stored(d)'
          BY <3>2, <4>1 DEF Rename, Stored, Sane, TypeOK
        <4>6. d \in CallsFor(t)'
          BY <1>1, CallsForGrows
        <4> QED
          BY <1>7, <4>1, <4>4, <4>5, <4>6
      <3>3. \A d \in CallsFor(t) \ {c} : Stored(d) => ~IssuedAfter(d, c)
        <4> SUFFICES ASSUME NEW d \in CallsFor(t) \ {c}, Stored(d), IssuedAfter(d, c) PROVE FALSE
          OBVIOUS
        <4>1. d \in CallsFor(t)' /\ d \in Calls /\ c \in Calls
          BY <1>1, <2>1, CallsForGrows DEF CallsFor
        <4>2. Stored(d)' /\ IssuedAfter(d, c)'
          BY <1>1, <4>1, StoredStays, OrderStays
        <4> QED
          BY <1>7, <4>1, <4>2
      <3>4. entry[t] # None /\ data[entry[t]] = Content(c)
        BY <1>2, <2>1, <3>1, <3>3 DEF QuietInv
      <3>5. entry'[t] = entry[t] /\ data'[entry[t]] = data[entry[t]]
        BY <1>1, <1>5, <3>2, <3>4, ArtifactStays
      <3> QED
        BY <2>1, <3>4, <3>5
    <2> QED
      BY <2>2, <2>3
  <1> QED
    BY <1>6, <1>7

\* What the agent may conclude from its answers: the artifact it was told 200 for
\* is what it saved, while its later saves of it were refused and none was given
\* up; for any number of calls for any artifacts, disk faults and crashes.
THEOREM AnswersCanBeTrusted == BridgeSpec => []AcknowledgedIsVisible
  <1> DEFINE Writer == Sane /\ Phases /\ Owned /\ Fresh
             Inv == Writer /\ BridgeInv /\ BridgeMemory /\ QuietInv
  <1>1. BridgeInit => Inv
    BY SaneInit, PhaseInit, OwnedInit, FreshInit, BridgeInvInit, MemoryInit, QuietInit
    DEF BridgeInit
  <1>2. Inv /\ [BridgeNext]_bridgeVars => Inv'
    BY SaneNext, PhaseNext, OwnedNext, FreshNext, BridgeInvNext, MemoryNext, QuietNext,
       BridgeStepsAreWriterSteps
  <1>3. Inv => AcknowledgedIsVisible
    <2> SUFFICES ASSUME Sane, BridgeInv, BridgeMemory, QuietInv,
                        NEW c \in Calls, NEW t \in Targets, Wants(c, t), told[c] = "200",
                        \A d \in Calls \ {c} : Wants(d, t) =>
                          d \notin gaveUp /\ (IssuedAfter(d, c) => told[d] \in {"400", "409"})
                 PROVE  entry[t] # None /\ data[entry[t]] = Content(c)
      BY DEF AcknowledgedIsVisible
    <2>1. pc[c] = "done" /\ result[c] = "OK" /\ c \notin gaveUp
      BY StatusIs DEF BridgeMemory, Remembers
    <2>2. arg[c] \in Requests
      BY <2>1 DEF Sane
    <2>3. c \in CallsFor(t) /\ Stored(c)
      BY <2>1, <2>2, NoneIsNothing DEF BridgeMemory, Remembers, CallsFor, For, Target, Wants, Stored
    <2>4. Quiet(t)
      BY <2>1 DEF Quiet
    <2>5. ASSUME NEW d \in CallsFor(t) \ {c}, Stored(d) PROVE ~IssuedAfter(d, c)
      <3>1. Wants(d, t) /\ d \in Calls
        BY DEF BridgeMemory, Remembers, CallsFor, For, Target, Wants
      <3>2. told[d] \notin {"400", "409"}
        BY <2>5, <3>1, StatusIs DEF BridgeMemory, Remembers, Stored
      <3> QED
        BY <3>1, <3>2
    <2> QED
      BY <2>3, <2>4, <2>5 DEF QuietInv
  <1> HIDE DEF Inv
  <1> QED
    BY <1>1, <1>2, <1>3, PTL DEF BridgeSpec

-----------------------------------------------------------------------------
(***************************************************************************)
(* The bridge and the writer together                                      *)
(***************************************************************************)

\* Whatever the agent asks and however the bridge gives up, the host's writer
\* takes steps of its own only.
THEOREM BridgeRefinesWriter == BridgeSpec => Spec
  <1>1. BridgeInit => Init
    BY DEF BridgeInit
  <1> QED
    BY <1>1, BridgeAlways, BridgeStepsAreWriterSteps, PTL DEF BridgeSpec, Spec

\* So what the writer promises to callers that overlap, it keeps for the agent,
\* after timeouts too.
THEOREM AgentsSavesKeepPromises ==
  BridgeSpec => [](/\ RegisteredHasFile /\ FailureMeansAnotherLanded /\ BytesBelongToTarget
                   /\ NoStrayTmp /\ LostRegistrationReported)
  BY BridgeRefinesWriter, RegisteredScriptsHaveFiles, LoserMeansWinner, BytesStayHome,
     NoTmpIsLeft, RegistrationsAreNotLost, PTL

\* Until the first timeout, bridge and writer are the store of ArtifactStore:
\* every step is one of its steps or changes nothing a client can see.  It is
\* what WriterRefinesStore says for Serial clients, which the bridge's are not
\* by assumption but because call_tool blocks.
StoreUntilTimeout == [][gaveUp' = {} => Store!StoreNext \/ UNCHANGED AbstractVars]_bridgeVars

THEOREM AgentHasAStore == BridgeSpec => Store!StoreInit /\ StoreUntilTimeout
  <1> DEFINE Inv == gaveUp = {} => FileInv /\ \A c \in Calls : StillAbsent(c)
  <1>1. BridgeInit => Inv /\ Store!StoreInit
    <2>1. Init => Store!StoreInit
      BY DEF Init, Store!StoreInit, Outcome
    <2>2. Init => Inv
      BY FileInit DEF Init, StillAbsent
    <2> QED
      BY <2>1, <2>2 DEF BridgeInit
  <1>2. ASSUME [BridgeNext]_bridgeVars, gaveUp' = {} PROVE gaveUp = {}
    BY <1>2 DEF BridgeNext, CallTool, Handle, Return, Disconnect, GiveUp, Tell, HostStep,
       HostDies, bridge, bridgeVars
  <1>3. Sane /\ BridgeInv /\ Inv /\ [BridgeNext]_bridgeVars => Inv'
    <2> SUFFICES ASSUME Sane, BridgeInv, Inv, [BridgeNext]_bridgeVars, gaveUp' = {}
                 PROVE  (FileInv /\ \A c \in Calls : StillAbsent(c))'
      OBVIOUS
    <2>1. FileInv /\ (\A c \in Calls : StillAbsent(c)) /\ [Next]_vars
      BY <1>2, BridgeStepsAreWriterSteps
    <2>2. FileInv'
      BY <2>1, BridgeKeepsFiles
    <2>3. \A c \in Calls : StillAbsent(c)'
      BY <2>1, StillAbsentNext DEF FileInv
    <2> QED
      BY <2>2, <2>3
  <1>4. Sane /\ Phases /\ BridgeInv /\ Inv /\ [BridgeNext]_bridgeVars =>
          [gaveUp' = {} => Store!StoreNext \/ UNCHANGED AbstractVars]_bridgeVars
    <2> SUFFICES ASSUME Sane, Phases, BridgeInv, Inv, [BridgeNext]_bridgeVars, gaveUp' = {}
                 PROVE  Store!StoreNext \/ UNCHANGED AbstractVars
      OBVIOUS
    <2> QED
      BY <1>2, BridgeStepsAreWriterSteps, StoreStep
  <1> HIDE DEF Inv
  <1>5. BridgeSpec => []Phases
    BY BridgeRefinesWriter, PhasesAlways, PTL
  <1> QED
    BY <1>1, <1>3, <1>4, <1>5, BridgeAlways, PTL DEF BridgeSpec, StoreUntilTimeout

=============================================================================
