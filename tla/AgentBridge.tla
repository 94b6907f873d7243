----------------------------- MODULE AgentBridge -----------------------------
(***************************************************************************)
(* The save tools of tools/opencode_bridge.py in front of the artifact     *)
(* writer.  call_tool makes a blocking HTTP call inside its coroutine, so  *)
(* the bridge handles one tool call at a time, and gives a call up after   *)
(* ten seconds.  Giving up closes the bridge's end of the connection; a    *)
(* request the host has received is handled all the same, now or later, on *)
(* a thread of httplib's pool.                                             *)
(*                                                                         *)
(* This is where the writer's Serial clients come from: here it is FALSE,  *)
(* and what holds of the saves follows from the way the bridge calls.      *)
(***************************************************************************)
EXTENDS ArtifactWriter, Sequences, FiniteSets

CONSTANT MaxTimeouts    \* bound: how many calls the bridge gives up

ASSUME BridgeConstants == MaxTimeouts \in Nat

VARIABLES
  asking,   \* the tool call the bridge is in, or None
  wanted,   \* wanted[c]: the payload of call c, or None
  wire,     \* wire[c]: "none", "sent" or "gone" (taken by a handler, or lost)
  told,     \* told[c]: what the agent was told: a status, "error" or "none"
  issued,   \* history: the calls in the order the agent made them
  gaveUp    \* history: the calls the bridge gave up

bridge == <<asking, wanted, wire, told, issued, gaveUp>>
bridgeVars == <<vars, bridge>>

-----------------------------------------------------------------------------

BridgeInit ==
  /\ Init
  /\ asking = None
  /\ wanted = [c \in Calls |-> None]
  /\ wire = [c \in Calls |-> "none"]
  /\ told = [c \in Calls |-> "none"]
  /\ issued = <<>>
  /\ gaveUp = {}

\* The agent calls a save tool; the bridge builds the payload and posts it.
CallTool_concurrent(c, r) ==
  /\ wanted[c] = None
  /\ asking' = c
  /\ wanted' = [wanted EXCEPT ![c] = r]
  /\ wire' = [wire EXCEPT ![c] = "sent"]
  /\ issued' = Append(issued, c)
  /\ UNCHANGED <<told, gaveUp, vars>>

CallTool(c, r) ==
  /\ asking = None
  /\ wanted[c] = None
  /\ asking' = c
  /\ wanted' = [wanted EXCEPT ![c] = r]
  /\ wire' = [wire EXCEPT ![c] = "sent"]
  /\ issued' = Append(issued, c)
  /\ UNCHANGED <<told, gaveUp, vars>>

\* A pool thread takes the request, possibly after the bridge gave it up.
Handle(c) ==
  /\ wire[c] = "sent"
  /\ Begin(c, wanted[c])
  /\ wire' = [wire EXCEPT ![c] = "gone"]
  /\ UNCHANGED <<asking, wanted, told, issued, gaveUp>>

\* The status respond_write_result gives a result
Status_lenient(r) ==
  CASE r \in {"OK", "REGISTER_FAILED", "FILE_EXISTS"} -> "200"
    [] r = "INVALID_NAME" -> "400"
    [] OTHER              -> "500"
Status(r) ==
  CASE r = "OK"           -> "200"
    [] r = "INVALID_NAME" -> "400"
    [] r = "FILE_EXISTS"  -> "409"
    [] OTHER              -> "500"

Tell(c, what) ==
  /\ asking = c
  /\ asking' = None
  /\ told' = [told EXCEPT ![c] = what]
  /\ UNCHANGED <<wanted, issued, vars>>

\* raise_for_status: of an error the agent sees the status, not the envelope.
Return(c) ==
  /\ pc[c] = "done"
  /\ Tell(c, Status(result[c]))
  /\ UNCHANGED <<wire, gaveUp>>

\* httpx.HTTPError without a status: the host is not there to take the request,
\* dies while it handles it, or died before the answer was through (any answer may
\* be lost so once a host has died).
Disconnect(c) ==
  /\ \/ wire[c] = "sent"
     \/ wire[c] = "gone" /\ pc[c] \in {"idle", "dead"}
     \/ pc[c] = "done" /\ crashes > 0
  /\ Tell(c, "error")
  /\ wire' = [wire EXCEPT ![c] = "gone"]
  /\ UNCHANGED gaveUp

\* httpx.TimeoutException is an HTTPError too.
GiveUp(c) ==
  /\ Cardinality(gaveUp) < MaxTimeouts
  /\ wire[c] = "sent" \/ InFlight(c)
  /\ Tell(c, "error")
  /\ gaveUp' = gaveUp \union {c}
  /\ UNCHANGED wire

\* The host's own steps; what was sent to a host that dies is lost with it.
HostStep ==
  /\ \/ \E c \in Calls : Write(c) \/ Registration(c)
     \/ \E f \in {"host", "null", "unset"} : InstallFn(f)
  /\ UNCHANGED bridge

HostDies ==
  /\ Crash
  /\ wire' = [c \in Calls |-> IF wire[c] = "sent" THEN "gone" ELSE wire[c]]
  /\ UNCHANGED <<asking, wanted, told, issued, gaveUp>>

BridgeNext ==
  \/ \E c \in Calls, r \in Requests : CallTool(c, r)
  \/ \E c \in Calls : Handle(c) \/ Return(c) \/ Disconnect(c) \/ GiveUp(c)
  \/ HostStep
  \/ HostDies

BridgeSpec == BridgeInit /\ [][BridgeNext]_bridgeVars

-----------------------------------------------------------------------------
(***************************************************************************)
(* Properties                                                              *)
(***************************************************************************)

\* Two handlers are at work at once only when the bridge gave one of their
\* calls up: short of a timeout the writer's clients are serial.
OverlapNeedsTimeout ==
  \A c, d \in Calls :
    c # d /\ InFlight(c) /\ InFlight(d) => c \in gaveUp \/ d \in gaveUp

\* Short of a timeout, the visible artifacts are whole although the writer
\* itself does nothing to keep its callers apart.
WholeUntilTimeout == gaveUp = {} => TargetsComplete

Wants(c, t) == wanted[c] # None /\ <<wanted[c].kind, wanted[c].name>> = t
IssuedAfter(d, c) ==
  \E i, j \in DOMAIN issued : i < j /\ issued[i] = c /\ issued[j] = d

\* What the agent may conclude from its answers.  It was told 200 for a save of
\* an artifact, every save of it since then was answered 400 or 409, and no save
\* of it, earlier or later, was given up: then the artifact is what it saved.
AcknowledgedIsVisible ==
  \A c \in Calls, t \in Targets :
    /\ Wants(c, t) /\ told[c] = "200"
    /\ \A d \in Calls \ {c} : Wants(d, t) =>
         d \notin gaveUp /\ (IssuedAfter(d, c) => told[d] \in {"400", "409"})
    => entry[t] # None /\ data[entry[t]] = Content(c)

=============================================================================
