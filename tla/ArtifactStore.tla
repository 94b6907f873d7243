---------------------------- MODULE ArtifactStore ----------------------------
(***************************************************************************)
(* What the three save_* calls of the artifact writer promise a client     *)
(* that has one save per artifact in flight: a store of whole contents,    *)
(* changed by one indivisible step per successful call.  A call that does  *)
(* not ask to overwrite never replaces anything, and a call that reports   *)
(* a refusal or a failure has changed nothing.                             *)
(***************************************************************************)
CONSTANTS
  Calls,
  Requests,              \* what a call may ask for
  TargetOf(_),           \* the artifact a request names
  Overwrites(_),         \* whether a request asks to overwrite
  ContentOf(_, _),       \* the content a call with a request carries
  Targets,
  None

VARIABLES
  store,    \* store[t]: the content of artifact t, or None
  asked,    \* asked[c]: the request of call c, or None
  outcome   \* outcome[c]: "idle", "pending", "stored", "refused" or "failed"

StoreInit ==
  /\ store = [t \in Targets |-> None]
  /\ asked = [c \in Calls |-> None]
  /\ outcome = [c \in Calls |-> "idle"]

Ask(c, r) ==
  /\ outcome[c] = "idle"
  /\ asked' = [asked EXCEPT ![c] = r]
  /\ \E o \in {"pending", "failed"} : outcome' = [outcome EXCEPT ![c] = o]
  /\ UNCHANGED store

Put(c) ==
  LET t == TargetOf(asked[c]) IN
  /\ outcome[c] = "pending"
  /\ store[t] = None \/ Overwrites(asked[c])
  /\ store' = [store EXCEPT ![t] = ContentOf(c, asked[c])]
  /\ outcome' = [outcome EXCEPT ![c] = "stored"]
  /\ UNCHANGED asked

Refuse(c) ==
  /\ outcome[c] = "pending"
  /\ store[TargetOf(asked[c])] # None /\ ~Overwrites(asked[c])
  /\ outcome' = [outcome EXCEPT ![c] = "refused"]
  /\ UNCHANGED <<store, asked>>

\* A write error fails one call, the death of REAPER all that are pending.
Fail(F) ==
  /\ \A c \in F : outcome[c] = "pending"
  /\ outcome' = [c \in Calls |-> IF c \in F THEN "failed" ELSE outcome[c]]
  /\ UNCHANGED <<store, asked>>

StoreNext ==
  \/ \E c \in Calls, r \in Requests : Ask(c, r)
  \/ \E c \in Calls : Put(c) \/ Refuse(c)
  \/ \E F \in SUBSET Calls : Fail(F)

StoreSpec == StoreInit /\ [][StoreNext]_<<store, asked, outcome>>

=============================================================================
