--------------------------- MODULE ArtifactWriter ---------------------------
(***************************************************************************)
(* The artifact writer of the host (src/host/artifact_writer.cpp): the     *)
(* three save_* calls that HTTP handlers run on the threads of httplib's   *)
(* pool.  A call validates its name, looks at the target, writes           *)
(* <target>.tmp and renames it over the target; a Lua script may then be   *)
(* registered with REAPER.  Nothing in the file takes a lock around these  *)
(* steps, so each file system call is an action of its own.                *)
(*                                                                         *)
(* Files are POSIX files: a directory entry names an inode, an open handle *)
(* follows the inode, opening with trunc empties the inode that is there.  *)
(* A new inode is named after the call that created it (a call opens its   *)
(* temporary file at most once).  The bytes of call c are a run of         *)
(* arg[c].size blocks, each holding c: enough to tell whose bytes are      *)
(* where, and whether all of them are.                                     *)
(***************************************************************************)
EXTENDS Naturals

CONSTANTS
  Calls,        \* save requests; each is used once, which bounds the model
  Kinds,        \* artifact kinds, "lua" being the one that can be registered
  Names,        \* names a request may carry
  ValidNames,   \* those that match kNameRegex
  MaxSize,      \* longest content, in blocks
  Sizes,        \* the content lengths requests carry
  Serial,       \* TRUE: a client has one save per target in flight
  DiskFaults,   \* TRUE: mkdir, open, write and rename may fail
  MaxCrashes,   \* how often REAPER may die and be started again
  None          \* no inode, no block, no request, no content

ASSUME WriterConstants ==
  /\ ValidNames \subseteq Names
  /\ MaxSize \in Nat
  /\ Sizes \subseteq 0..MaxSize
  /\ Serial \in BOOLEAN
  /\ DiskFaults \in BOOLEAN
  /\ MaxCrashes \in Nat

VARIABLES
  pc,           \* pc[c]: the next step of call c
  arg,          \* arg[c]: the request of call c
  result,       \* result[c]: the WriteResult of call c
  entry,        \* entry[t]: inode the target's name is bound to
  tmp,          \* tmp[t]: inode <target>.tmp is bound to
  data,         \* data[i]: the blocks of inode i
  handle,       \* handle[c]: inode the ofstream of call c is open on
  off,          \* off[c]: blocks call c has written
  folders,      \* kinds whose <base>/<subfolder>/ReaForge exists
  slot,         \* g_add_remove_reascript with g_fn_initialized
  registered,   \* the scripts in REAPER's action list (saved by REAPER)
  crashes       \* how often REAPER died

files == <<entry, tmp, data, folders>>
actions == <<slot, registered>>
vars == <<pc, arg, result, files, handle, off, actions, crashes>>

-----------------------------------------------------------------------------

Targets == Kinds \X ValidNames
Blocks == 1..MaxSize
Inodes == Calls

Requests ==
  {r \in [kind: Kinds, name: Names, overwrite: BOOLEAN,
          register: BOOLEAN, size: Sizes] :
     r.register => r.kind = "lua"}

ASSUME NoneIsNothing == None \notin Calls /\ None \notin Requests

Target(c) == <<arg[c].kind, arg[c].name>>

\* <target>.tmp, named by its target
TmpOf_shared(c) == <<arg[c].kind, CHOOSE n \in ValidNames : TRUE>>
TmpOf(c) == Target(c)

ASSUME NoContent == None \notin [Blocks -> Calls \union {None}]

Empty == [k \in Blocks |-> None]
Content(c) == [k \in Blocks |-> IF k <= arg[c].size THEN c ELSE None]

\* Steps of do_write from the look at the target to the clean-up, and of save_lua
WriteSteps == {"exists", "mkdir", "open", "write", "rename", "cleanup"}
RegisterSteps == {"ensure", "unregister", "register"}
InFlight(c) == pc[c] \in WriteSteps \union RegisterSteps

Goto(c, step) == pc' = [pc EXCEPT ![c] = step]

\* The handler answers with result r
Answer(c, r) ==
  /\ Goto(c, "done")
  /\ result' = [result EXCEPT ![c] = r]

Init ==
  /\ pc = [c \in Calls |-> "idle"]
  /\ arg = [c \in Calls |-> None]
  /\ result = [c \in Calls |-> "NONE"]
  /\ entry = [t \in Targets |-> None]
  /\ tmp = [t \in Targets |-> None]
  /\ data = [i \in Inodes |-> Empty]
  /\ handle = [c \in Calls |-> None]
  /\ off = [c \in Calls |-> 0]
  /\ folders = {}
  /\ slot = "unset"
  /\ registered = {}
  /\ crashes = 0

-----------------------------------------------------------------------------
(***************************************************************************)
(* do_write and atomic_write                                               *)
(***************************************************************************)

\* A handler enters save_*; a bad name is answered before the disk is touched.
Begin(c, r) ==
  /\ pc[c] = "idle"
  /\ Serial => \A d \in Calls :
       InFlight(d) => Target(d) # <<r.kind, r.name>>
  /\ arg' = [arg EXCEPT ![c] = r]
  /\ \/ /\ r.name \notin ValidNames
        /\ Answer(c, "INVALID_NAME")
     \/ /\ r.name \in ValidNames
        /\ Goto(c, "exists")
        /\ UNCHANGED result
  /\ UNCHANGED <<files, handle, off, actions, crashes>>

CheckExists_blind(c) ==
  /\ pc[c] = "exists"
  /\ Goto(c, "mkdir")
  /\ UNCHANGED <<arg, result, files, handle, off, actions, crashes>>

CheckExists(c) ==
  /\ pc[c] = "exists"
  /\ \/ /\ entry[Target(c)] # None /\ ~arg[c].overwrite
        /\ Answer(c, "FILE_EXISTS")
     \/ /\ entry[Target(c)] = None \/ arg[c].overwrite
        /\ Goto(c, "mkdir")
        /\ UNCHANGED result
  /\ UNCHANGED <<arg, files, handle, off, actions, crashes>>

\* create_directories: its error is ignored, the open below fails instead.
MakeFolder(c) ==
  /\ pc[c] = "mkdir"
  /\ \/ folders' = folders \union {arg[c].kind}
     \/ DiskFaults /\ UNCHANGED folders
  /\ Goto(c, "open")
  /\ UNCHANGED <<arg, result, entry, tmp, data, handle, off, actions, crashes>>

OpenTmp_append(c) ==
  LET inode == IF tmp[TmpOf(c)] = None THEN c ELSE tmp[TmpOf(c)] IN
  /\ pc[c] = "open"
  /\ arg[c].kind \in folders
  /\ tmp' = [tmp EXCEPT ![TmpOf(c)] = inode]
  /\ handle' = [handle EXCEPT ![c] = inode]
  /\ Goto(c, "write")
  /\ UNCHANGED <<arg, result, entry, data, off, folders, actions, crashes>>

\* ofstream(tmp, trunc): empties the inode <target>.tmp names, or makes one.
OpenTmp(c) ==
  LET inode == IF tmp[TmpOf(c)] = None THEN c ELSE tmp[TmpOf(c)] IN
  /\ pc[c] = "open"
  /\ arg[c].kind \in folders
  /\ tmp' = [tmp EXCEPT ![TmpOf(c)] = inode]
  /\ data' = [data EXCEPT ![inode] = Empty]
  /\ handle' = [handle EXCEPT ![c] = inode]
  /\ Goto(c, "write")
  /\ UNCHANGED <<arg, result, entry, off, folders, actions, crashes>>

OpenFails(c) ==
  /\ pc[c] = "open"
  /\ DiskFaults \/ arg[c].kind \notin folders
  /\ Answer(c, "WRITE_FAILED")
  /\ UNCHANGED <<arg, files, handle, off, actions, crashes>>

WriteBlock_overrun(c) ==
  /\ pc[c] = "write"
  /\ off[c] <= arg[c].size
  /\ data' = [data EXCEPT ![handle[c]] = [@ EXCEPT ![off[c] + 1] = c]]
  /\ off' = [off EXCEPT ![c] = @ + 1]
  /\ UNCHANGED <<pc, arg, result, entry, tmp, handle, folders, actions, crashes>>

WriteBlock(c) ==
  /\ pc[c] = "write"
  /\ off[c] < arg[c].size
  /\ data' = [data EXCEPT ![handle[c]] = [@ EXCEPT ![off[c] + 1] = c]]
  /\ off' = [off EXCEPT ![c] = @ + 1]
  /\ UNCHANGED <<pc, arg, result, entry, tmp, handle, folders, actions, crashes>>

CloseTmp_unchecked(c) ==
  /\ pc[c] = "write"
  /\ handle' = [handle EXCEPT ![c] = None]
  /\ Goto(c, "rename")
  /\ UNCHANGED <<arg, result, files, off, actions, crashes>>

CloseTmp(c) ==
  /\ pc[c] = "write"
  /\ off[c] = arg[c].size
  /\ handle' = [handle EXCEPT ![c] = None]
  /\ Goto(c, "rename")
  /\ UNCHANGED <<arg, result, files, off, actions, crashes>>

\* A write or the close fails: atomic_write returns and leaves <target>.tmp.
WriteFails(c) ==
  /\ pc[c] = "write"
  /\ DiskFaults
  /\ handle' = [handle EXCEPT ![c] = None]
  /\ Answer(c, "WRITE_FAILED")
  /\ UNCHANGED <<arg, files, off, actions, crashes>>

Rename_copy(c) ==
  /\ pc[c] = "rename"
  /\ tmp[TmpOf(c)] # None
  /\ entry' = [entry EXCEPT ![Target(c)] = tmp[TmpOf(c)]]
  /\ result' = [result EXCEPT ![c] = "OK"]
  /\ Goto(c, IF arg[c].register THEN "ensure" ELSE "done")
  /\ UNCHANGED <<arg, tmp, data, folders, handle, off, actions, crashes>>

\* The artifact becomes visible.  save_lua goes on when asked to register.
Rename(c) ==
  /\ pc[c] = "rename"
  /\ tmp[TmpOf(c)] # None
  /\ entry' = [entry EXCEPT ![Target(c)] = tmp[TmpOf(c)]]
  /\ tmp' = [tmp EXCEPT ![TmpOf(c)] = None]
  /\ result' = [result EXCEPT ![c] = "OK"]
  /\ Goto(c, IF arg[c].register THEN "ensure" ELSE "done")
  /\ UNCHANGED <<arg, data, folders, handle, off, actions, crashes>>

\* ENOENT when another call renamed or removed the shared temporary file.
RenameFails(c) ==
  /\ pc[c] = "rename"
  /\ DiskFaults \/ tmp[TmpOf(c)] = None
  /\ Goto(c, "cleanup")
  /\ UNCHANGED <<arg, result, files, handle, off, actions, crashes>>

Cleanup_target(c) ==
  /\ pc[c] = "cleanup"
  /\ entry' = [entry EXCEPT ![Target(c)] = None]
  /\ Answer(c, "WRITE_FAILED")
  /\ UNCHANGED <<arg, tmp, data, folders, handle, off, actions, crashes>>

\* fs::remove(tmp) removes whatever the name is bound to by now; its own
\* failure is ignored.
Cleanup(c) ==
  /\ pc[c] = "cleanup"
  /\ \/ tmp' = [tmp EXCEPT ![TmpOf(c)] = None]
     \/ DiskFaults /\ UNCHANGED tmp
  /\ Answer(c, "WRITE_FAILED")
  /\ UNCHANGED <<arg, entry, data, folders, handle, off, actions, crashes>>

-----------------------------------------------------------------------------
(***************************************************************************)
(* save_lua's registration and the function slot.  slot is "unset" (null,  *)
(* not initialised), "mock" (the default that returns -1), "null" (set to  *)
(* an empty function) or "host" (REAPER's AddRemoveReaScript).             *)
(***************************************************************************)

\* ensure_default_fn, then the test for an empty function
EnsureFn(c) ==
  /\ pc[c] = "ensure"
  /\ slot' = IF slot = "unset" THEN "mock" ELSE slot
  /\ \/ slot = "null" /\ Answer(c, "REGISTER_FAILED")
     \/ slot # "null" /\ Goto(c, "unregister") /\ UNCHANGED result
  /\ UNCHANGED <<arg, files, handle, off, registered, crashes>>

\* AddRemoveReaScript(false, ...), which may fail: its answer is ignored.
Unregister(c) ==
  /\ pc[c] = "unregister"
  /\ \/ slot = "host" /\ registered' = registered \ {Target(c)}
     \/ UNCHANGED registered
  /\ Goto(c, "register")
  /\ UNCHANGED <<arg, result, files, handle, off, slot, crashes>>

Register_ignoring_id(c) ==
  /\ pc[c] = "register"
  /\ \/ slot = "host" /\ registered' = registered \union {Target(c)}
     \/ UNCHANGED registered
  /\ Answer(c, "OK")
  /\ UNCHANGED <<arg, files, handle, off, slot, crashes>>

\* AddRemoveReaScript(true, ...) gives a command id, or a non-positive one.
Register(c) ==
  /\ pc[c] = "register"
  /\ \/ /\ slot = "host"
        /\ registered' = registered \union {Target(c)}
        /\ Answer(c, "OK")
     \/ /\ Answer(c, "REGISTER_FAILED")
        /\ UNCHANGED registered
  /\ UNCHANGED <<arg, files, handle, off, slot, crashes>>

\* set_add_remove_reascript / reset_add_remove_reascript.  The header has them
\* called before the HTTP server starts, so no call is in flight.
InstallFn(f) ==
  /\ \A c \in Calls : ~InFlight(c)
  /\ slot' = f
  /\ UNCHANGED <<pc, arg, result, files, handle, off, registered, crashes>>

-----------------------------------------------------------------------------

\* REAPER dies: calls in flight are gone, the disk and REAPER's saved action
\* list are as they were; the next start has a fresh function slot.
Crash ==
  /\ crashes < MaxCrashes
  /\ crashes' = crashes + 1
  /\ pc' = [c \in Calls |-> IF InFlight(c) THEN "dead" ELSE pc[c]]
  /\ handle' = [c \in Calls |-> None]
  /\ slot' = "unset"
  /\ UNCHANGED <<arg, result, files, off, registered>>

Write(c) ==
  \/ CheckExists(c) \/ MakeFolder(c)
  \/ OpenTmp(c) \/ OpenFails(c)
  \/ WriteBlock(c) \/ CloseTmp(c) \/ WriteFails(c)
  \/ Rename(c) \/ RenameFails(c) \/ Cleanup(c)

Registration(c) == EnsureFn(c) \/ Unregister(c) \/ Register(c)

Next ==
  \/ \E c \in Calls, r \in Requests : Begin(c, r)
  \/ \E c \in Calls : Write(c) \/ Registration(c)
  \/ \E f \in {"host", "null", "unset"} : InstallFn(f)
  \/ Crash

Spec == Init /\ [][Next]_vars

-----------------------------------------------------------------------------
(***************************************************************************)
(* Properties                                                              *)
(***************************************************************************)

Results ==
  {"NONE", "OK", "INVALID_NAME", "FILE_EXISTS", "WRITE_FAILED", "REGISTER_FAILED"}

\* Every variable of the writer keeps its type.
TypeOK ==
  /\ pc \in [Calls -> {"idle", "done", "dead"} \union WriteSteps \union RegisterSteps]
  /\ arg \in [Calls -> Requests \union {None}]
  /\ result \in [Calls -> Results]
  /\ entry \in [Targets -> Inodes \union {None}]
  /\ tmp \in [Targets -> Inodes \union {None}]
  /\ data \in [Inodes -> [Blocks -> Calls \union {None}]]
  /\ handle \in [Calls -> Inodes \union {None}]
  /\ off \in [Calls -> 0..MaxSize]
  /\ folders \subseteq Kinds
  /\ slot \in {"unset", "mock", "null", "host"}
  /\ registered \subseteq Targets
  /\ crashes \in 0..MaxCrashes

\* A request of call c for target t that passed the name check
For(c, t) == arg[c] # None /\ Target(c) = t

\* "atomically" in artifact_writer.h: the visible artifact is at all times the
\* whole content of one request for it, whatever failed or died in between.
TargetsComplete ==
  \A t \in Targets : entry[t] # None =>
    \E c \in Calls : For(c, t) /\ data[entry[t]] = Content(c)

\* Even when saves of one artifact overlap, its bytes come from requests for it.
BytesBelongToTarget ==
  \A t \in Targets, k \in Blocks : entry[t] # None =>
    LET writer == data[entry[t]][k] IN writer # None => For(writer, t)

\* The README's promise: a save replaces an artifact only when it was asked to.
RefusesToOverwrite ==
  [][\A c \in Calls :
       Rename(c) => entry[Target(c)] = None \/ arg[c].overwrite]_vars

\* atomic_write leaves no <target>.tmp behind: where there is one, a call is
\* about to rename or remove it, or one died or met a disk fault.
NoStrayTmp ==
  \A t \in Targets : tmp[t] # None =>
    \E c \in Calls :
      /\ For(c, t)
      /\ \/ pc[c] \in {"write", "rename", "cleanup", "dead"}
         \/ DiskFaults /\ result[c] = "WRITE_FAILED"

\* On a healthy disk a save that loses the shared temporary file to another
\* reports WRITE_FAILED only once that other save's artifact is visible.
FailureMeansAnotherLanded ==
  \A c \in Calls :
    ~DiskFaults /\ result[c] = "WRITE_FAILED" => entry[Target(c)] # None

\* REAPER's action list never names a script that has no file.
RegisteredHasFile == \A t \in registered : entry[t] # None

\* A script a call registered stays in the action list, unless a call for the
\* same script is between its two AddRemoveReaScript calls, died, or answered
\* REGISTER_FAILED: the registration is never dropped behind the client's back.
LostRegistrationReported ==
  \A c \in Calls :
    /\ pc[c] = "done" /\ result[c] = "OK" /\ arg[c].register
    /\ Target(c) \notin registered
    => \E d \in Calls \ {c} :
         /\ For(d, Target(c)) /\ arg[d].register
         /\ \/ pc[d] \in {"register", "dead"}
            \/ result[d] = "REGISTER_FAILED"

\* The writer implements the abstract store when saves of an artifact do not
\* overlap.  A call's content counts as stored from its rename on.
Outcome(c) ==
  CASE result[c] \in {"OK", "REGISTER_FAILED"}          -> "stored"
    [] result[c] = "FILE_EXISTS"                        -> "refused"
    [] result[c] \in {"INVALID_NAME", "WRITE_FAILED"}   -> "failed"
    [] result[c] = "NONE" /\ pc[c] = "dead"             -> "failed"
    [] result[c] = "NONE" /\ pc[c] = "idle"             -> "idle"
    [] OTHER                                            -> "pending"

Store == INSTANCE ArtifactStore WITH
  store <- [t \in Targets |-> IF entry[t] = None THEN None ELSE data[entry[t]]],
  asked <- arg,
  outcome <- [c \in Calls |-> Outcome(c)],
  TargetOf <- LAMBDA r : <<r.kind, r.name>>,
  Overwrites <- LAMBDA r : r.overwrite,
  ContentOf <- LAMBDA c, r : [k \in Blocks |-> IF k <= r.size THEN c ELSE None]

ImplementsStore == Store!StoreSpec

=============================================================================
