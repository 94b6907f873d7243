----------------------- MODULE ArtifactWriter_proofs -----------------------
(***************************************************************************)
(* Proofs about the artifact writer, for any sets of calls, kinds and      *)
(* names, any content sizes, and any number of crashes.                    *)
(***************************************************************************)
EXTENDS ArtifactWriter, TLAPS

\* What the steps of a call rely on beside the types: a call that runs has a
\* request with a valid name, and a call that writes has an open file.
Sane ==
  /\ TypeOK
  /\ \A c \in Calls :
       /\ pc[c] # "idle" => arg[c] \in Requests
       /\ InFlight(c) => arg[c].name \in ValidNames
       /\ pc[c] = "write" => handle[c] # None

LEMMA SaneInit == Init => Sane
  BY WriterConstants DEF Init, Sane, TypeOK, InFlight, WriteSteps, RegisterSteps,
     Results, Inodes, Blocks, Empty

LEMMA TargetType ==
  ASSUME NEW c \in Calls, Sane, InFlight(c)
  PROVE  /\ arg[c] \in Requests /\ arg[c].kind \in Kinds
         /\ arg[c].size \in 0..MaxSize /\ arg[c].overwrite \in BOOLEAN
         /\ Target(c) \in Targets /\ TmpOf(c) = Target(c)
  BY WriterConstants DEF Sane, TypeOK, InFlight, WriteSteps, RegisterSteps, Requests,
     Target, TmpOf, Targets

LEMMA SaneNext == Sane /\ [Next]_vars => Sane'
  <1> SUFFICES ASSUME Sane, [Next]_vars PROVE Sane'
    OBVIOUS
  <1> USE WriterConstants, NoneIsNothing DEF Answer, Goto, files, actions
  <1>1. ASSUME NEW c \in Calls, NEW r \in Requests, Begin(c, r) PROVE Sane'
    BY SMTT(30), <1>1
    DEF Begin, Sane, TypeOK, InFlight, WriteSteps, RegisterSteps, Results, Requests
  <1>2. ASSUME NEW c \in Calls, CheckExists(c) PROVE Sane'
    <2>1. InFlight(c)
      BY <1>2 DEF CheckExists, InFlight, WriteSteps, RegisterSteps
    <2> QED
      BY ZenonT(60), <1>2, <2>1, TargetType
      DEF CheckExists, Sane, TypeOK, InFlight, WriteSteps, RegisterSteps, Results
  <1>3. ASSUME NEW c \in Calls, MakeFolder(c) PROVE Sane'
    <2>1. InFlight(c)
      BY <1>3 DEF MakeFolder, InFlight, WriteSteps, RegisterSteps
    <2> QED
      BY <1>3, <2>1, TargetType
      DEF MakeFolder, Sane, TypeOK, InFlight, WriteSteps, RegisterSteps, Results
  <1>4. ASSUME NEW c \in Calls, OpenTmp(c) PROVE Sane'
    <2>1. InFlight(c)
      BY <1>4 DEF OpenTmp, InFlight, WriteSteps, RegisterSteps
    <2> QED
      BY <1>4, <2>1, TargetType
      DEF OpenTmp, Sane, TypeOK, InFlight, WriteSteps, RegisterSteps, Results, Inodes, Blocks, Empty
  <1>5. ASSUME NEW c \in Calls, OpenFails(c) PROVE Sane'
    <2>1. InFlight(c)
      BY <1>5 DEF OpenFails, InFlight, WriteSteps, RegisterSteps
    <2> QED
      BY <1>5, <2>1, TargetType
      DEF OpenFails, Sane, TypeOK, InFlight, WriteSteps, RegisterSteps, Results
  <1>6. ASSUME NEW c \in Calls, WriteBlock(c) PROVE Sane'
    <2>1. InFlight(c) /\ pc[c] = "write"
      BY <1>6 DEF WriteBlock, InFlight, WriteSteps, RegisterSteps
    <2>2. arg[c].size \in 0..MaxSize /\ off[c] \in 0..MaxSize /\ off[c] < arg[c].size
      BY <1>6, <2>1, TargetType DEF WriteBlock, Sane, TypeOK
    <2>3. off' \in [Calls -> 0..MaxSize]
      BY <1>6, <2>2 DEF WriteBlock, Sane, TypeOK
    <2>4. data' \in [Inodes -> [Blocks -> Calls \union {None}]]
      BY <1>6 DEF WriteBlock, Sane, TypeOK
    <2> QED
      BY <1>6, <2>3, <2>4
      DEF WriteBlock, Sane, TypeOK, InFlight, WriteSteps, RegisterSteps
  <1>7. ASSUME NEW c \in Calls, CloseTmp(c) PROVE Sane'
    <2>1. InFlight(c)
      BY <1>7 DEF CloseTmp, InFlight, WriteSteps, RegisterSteps
    <2> QED
      BY <1>7, <2>1, TargetType
      DEF CloseTmp, Sane, TypeOK, InFlight, WriteSteps, RegisterSteps, Results
  <1>8. ASSUME NEW c \in Calls, WriteFails(c) PROVE Sane'
    <2>1. InFlight(c)
      BY <1>8 DEF WriteFails, InFlight, WriteSteps, RegisterSteps
    <2> QED
      BY <1>8, <2>1, TargetType
      DEF WriteFails, Sane, TypeOK, InFlight, WriteSteps, RegisterSteps, Results
  <1>9. ASSUME NEW c \in Calls, Rename(c) PROVE Sane'
    <2>1. InFlight(c)
      BY <1>9 DEF Rename, InFlight, WriteSteps, RegisterSteps
    <2> QED
      BY <1>9, <2>1, TargetType
      DEF Rename, Sane, TypeOK, InFlight, WriteSteps, RegisterSteps, Results
  <1>10. ASSUME NEW c \in Calls, RenameFails(c) PROVE Sane'
    <2>1. InFlight(c)
      BY <1>10 DEF RenameFails, InFlight, WriteSteps, RegisterSteps
    <2> QED
      BY <1>10, <2>1, TargetType
      DEF RenameFails, Sane, TypeOK, InFlight, WriteSteps, RegisterSteps, Results
  <1>11. ASSUME NEW c \in Calls, Cleanup(c) PROVE Sane'
    <2>1. InFlight(c)
      BY <1>11 DEF Cleanup, InFlight, WriteSteps, RegisterSteps
    <2> QED
      BY <1>11, <2>1, TargetType
      DEF Cleanup, Sane, TypeOK, InFlight, WriteSteps, RegisterSteps, Results
  <1>12. ASSUME NEW c \in Calls, EnsureFn(c) PROVE Sane'
    <2>1. InFlight(c)
      BY <1>12 DEF EnsureFn, InFlight, WriteSteps, RegisterSteps
    <2> QED
      BY <1>12, <2>1, TargetType
      DEF EnsureFn, Sane, TypeOK, InFlight, WriteSteps, RegisterSteps, Results
  <1>13. ASSUME NEW c \in Calls, Unregister(c) PROVE Sane'
    <2>1. InFlight(c)
      BY <1>13 DEF Unregister, InFlight, WriteSteps, RegisterSteps
    <2> QED
      BY <1>13, <2>1, TargetType
      DEF Unregister, Sane, TypeOK, InFlight, WriteSteps, RegisterSteps, Results
  <1>14. ASSUME NEW c \in Calls, Register(c) PROVE Sane'
    <2>1. InFlight(c)
      BY <1>14 DEF Register, InFlight, WriteSteps, RegisterSteps
    <2> QED
      BY <1>14, <2>1, TargetType
      DEF Register, Sane, TypeOK, InFlight, WriteSteps, RegisterSteps, Results
  <1>15. ASSUME NEW f \in {"host", "null", "unset"}, InstallFn(f) PROVE Sane'
    BY <1>15 DEF InstallFn, Sane, TypeOK, InFlight, WriteSteps, RegisterSteps
  <1>16. CASE Crash
    BY <1>16 DEF Crash, Sane, TypeOK, InFlight, WriteSteps, RegisterSteps
  <1>17. CASE UNCHANGED vars
    BY <1>17 DEF vars, Sane, TypeOK, InFlight, WriteSteps, RegisterSteps
  <1> QED
    BY <1>1, <1>2, <1>3, <1>4, <1>5, <1>6, <1>7, <1>8, <1>9, <1>10, <1>11, <1>12, <1>13, <1>14,
       <1>15, <1>16, <1>17
    DEF Next, Write, Registration

\* Type correctness of the writer, with what its steps rely on.
THEOREM SaneAlways == Spec => []Sane
  BY SaneInit, SaneNext, PTL DEF Spec

\* The type invariant, for every instance of the writer.
THEOREM TypeCorrect == Spec => []TypeOK
  <1>1. Sane => TypeOK
    BY DEF Sane
  <1> QED
    BY <1>1, SaneAlways, PTL

\* Where a call stands agrees with what it has answered so far.
Phase(c) ==
  /\ pc[c] = "idle" => arg[c] = None /\ result[c] = "NONE"
  /\ pc[c] \in WriteSteps => result[c] = "NONE"
  /\ pc[c] \in RegisterSteps => result[c] = "OK" /\ arg[c].register
  /\ pc[c] = "dead" => result[c] \in {"NONE", "OK"}
  /\ pc[c] = "done" => result[c] # "NONE"

Phases == \A c \in Calls : Phase(c)

LEMMA PhaseInit == Init => Phases
  BY DEF Init, Phases, Phase, WriteSteps, RegisterSteps

LEMMA PhaseNext == Sane /\ Phases /\ [Next]_vars => Phases'
  <1> SUFFICES ASSUME Sane, Phases, [Next]_vars, NEW c \in Calls PROVE Phase(c)'
    BY DEF Phases
  <1> USE DEF Answer, Goto, Sane, TypeOK, Phases, Phase, WriteSteps, RegisterSteps
  <1>1. ASSUME NEW d \in Calls, NEW r \in Requests, Begin(d, r) PROVE Phase(c)'
    BY <1>1 DEF Begin
  <1>2. ASSUME NEW d \in Calls, CheckExists(d) \/ MakeFolder(d) \/ OpenTmp(d) \/ OpenFails(d)
        PROVE  Phase(c)'
    BY <1>2 DEF CheckExists, MakeFolder, OpenTmp, OpenFails
  <1>3. ASSUME NEW d \in Calls, WriteBlock(d) \/ CloseTmp(d) \/ WriteFails(d) PROVE Phase(c)'
    BY <1>3 DEF WriteBlock, CloseTmp, WriteFails
  <1>4. ASSUME NEW d \in Calls, Rename(d) PROVE Phase(c)'
    BY <1>4 DEF Rename
  <1>5. ASSUME NEW d \in Calls, RenameFails(d) \/ Cleanup(d) PROVE Phase(c)'
    BY <1>5 DEF RenameFails, Cleanup
  <1>6. ASSUME NEW d \in Calls, Registration(d) PROVE Phase(c)'
    BY <1>6 DEF Registration, EnsureFn, Unregister, Register
  <1>7. ASSUME NEW f \in {"host", "null", "unset"}, InstallFn(f) PROVE Phase(c)'
    BY <1>7 DEF InstallFn
  <1>8. CASE Crash
    BY <1>8 DEF Crash, InFlight
  <1>9. CASE UNCHANGED vars
    BY <1>9 DEF vars
  <1> QED
    BY <1>1, <1>2, <1>3, <1>4, <1>5, <1>6, <1>7, <1>8, <1>9 DEF Next, Write

LEMMA PhasesAlways == Spec => []Phases
  BY PhaseInit, PhaseNext, SaneAlways, PTL DEF Spec

-----------------------------------------------------------------------------
(***************************************************************************)
(* Facts that hold however the saves of an artifact overlap                *)
(***************************************************************************)

\* No step takes a visible artifact away: only a rename touches the name, and it
\* binds it to an inode.
LEMMA EntryStays ==
  ASSUME Sane, [Next]_vars, NEW t \in Targets, entry[t] # None
  PROVE  entry'[t] # None
  <1> USE DEF Answer, Goto, files
  <1>1. ASSUME NEW c \in Calls, Write(c) PROVE entry'[t] # None
    BY <1>1 DEF Write, CheckExists, MakeFolder, OpenTmp, OpenFails, WriteBlock,
       CloseTmp, WriteFails, Rename, RenameFails, Cleanup, Sane, TypeOK
  <1>2. ASSUME NEW c \in Calls, Registration(c) PROVE entry'[t] # None
    BY <1>2 DEF Registration, EnsureFn, Unregister, Register
  <1> QED
    BY <1>1, <1>2 DEF Next, Begin, InstallFn, Crash, vars

\* A request does not change once it was made.
LEMMA RequestStays ==
  ASSUME Sane, [Next]_vars, NEW c \in Calls, pc[c] # "idle"
  PROVE  arg'[c] = arg[c] /\ (Target(c))' = Target(c)
  <1> USE DEF Answer, Goto, Target
  <1>1. ASSUME NEW d \in Calls, NEW r \in Requests, Begin(d, r) PROVE arg'[c] = arg[c]
    BY <1>1 DEF Begin, Sane, TypeOK
  <1>2. ASSUME NEW d \in Calls, Write(d) \/ Registration(d) PROVE arg' = arg
    BY <1>2 DEF Write, CheckExists, MakeFolder, OpenTmp, OpenFails, WriteBlock,
       CloseTmp, WriteFails, Rename, RenameFails, Cleanup,
       Registration, EnsureFn, Unregister, Register
  <1> QED
    BY <1>1, <1>2 DEF Next, InstallFn, Crash, vars

\* A call that registers has its file in place.
RegisterInv ==
  /\ \A c \in Calls : pc[c] \in RegisterSteps => entry[Target(c)] # None
  /\ RegisteredHasFile

LEMMA RegisterStep == Sane /\ RegisterInv /\ [Next]_vars => RegisterInv'
  <1> SUFFICES ASSUME Sane, RegisterInv, [Next]_vars PROVE RegisterInv'
    OBVIOUS
  <1>1. Sane'
    BY SaneNext
  <1> USE DEF Answer, Goto, files, actions
  <1>2. ASSUME NEW c \in Calls, pc'[c] \in RegisterSteps PROVE entry'[(Target(c))'] # None
    <2>1. CASE pc[c] \in RegisterSteps
      <3>1. Target(c) \in Targets
        BY <2>1, TargetType DEF InFlight
      <3>2. pc[c] # "idle"
        BY <2>1 DEF RegisterSteps
      <3> QED
        BY <2>1, <3>1, <3>2, EntryStays, RequestStays DEF RegisterInv
    <2>2. CASE pc[c] \notin RegisterSteps
      <3>1. Rename(c)
        <4>1. ASSUME NEW d \in Calls, NEW r \in Requests, Begin(d, r) PROVE FALSE
          BY <1>2, <2>2, <4>1 DEF Begin, Sane, TypeOK, RegisterSteps
        <4>2. ASSUME NEW d \in Calls, Write(d), ~Rename(d) PROVE FALSE
          BY <1>2, <2>2, <4>2 DEF Write, CheckExists, MakeFolder, OpenTmp, OpenFails,
             WriteBlock, CloseTmp, WriteFails, RenameFails, Cleanup, Sane, TypeOK, RegisterSteps
        <4>3. ASSUME NEW d \in Calls, Rename(d), d # c PROVE FALSE
          BY <1>2, <2>2, <4>3 DEF Rename, Sane, TypeOK, RegisterSteps
        <4>4. ASSUME NEW d \in Calls, Registration(d) PROVE FALSE
          BY <1>2, <2>2, <4>4 DEF Registration, EnsureFn, Unregister, Register,
             Sane, TypeOK, RegisterSteps
        <4> QED
          BY <1>2, <2>2, <4>1, <4>2, <4>3, <4>4
          DEF Next, InstallFn, Crash, vars, RegisterSteps, InFlight, WriteSteps
      <3>2. InFlight(c) /\ pc[c] # "idle"
        BY <3>1 DEF Rename, InFlight, WriteSteps
      <3> QED
        BY <3>1, <3>2, TargetType, RequestStays DEF Rename, Sane, TypeOK
    <2> QED
      BY <2>1, <2>2
  <1>3. RegisteredHasFile'
    <2> SUFFICES ASSUME NEW t \in registered' PROVE entry'[t] # None
      BY DEF RegisteredHasFile
    <2>1. CASE t \in registered
      BY <2>1, EntryStays DEF RegisterInv, RegisteredHasFile, Sane, TypeOK
    <2>2. CASE t \notin registered
      <3>1. PICK c \in Calls : Register(c) /\ t = Target(c)
        BY <2>2 DEF Next, Begin, Write, CheckExists, MakeFolder, OpenTmp, OpenFails,
           WriteBlock, CloseTmp, WriteFails, Rename, RenameFails, Cleanup, Registration,
           EnsureFn, Unregister, Register, InstallFn, Crash, vars
      <3> QED
        BY <3>1 DEF Register, RegisterInv, RegisterSteps
    <2> QED
      BY <2>1, <2>2
  <1> QED
    BY <1>2, <1>3 DEF RegisterInv

\* However saves overlap, fail or die, REAPER's action list names only scripts
\* that have a file.
THEOREM RegisteredScriptsHaveFiles == Spec => []RegisteredHasFile
  <1>1. Init => RegisterInv
    BY DEF Init, RegisterInv, RegisteredHasFile, RegisterSteps
  <1>2. RegisterInv => RegisteredHasFile
    BY DEF RegisterInv
  <1> QED
    BY <1>1, <1>2, SaneAlways, RegisterStep, PTL DEF Spec

\* On a healthy disk a call loses its temporary file only to a call that has
\* renamed it: the artifact is there before any of the losers can report it.
LossOf(c) ==
  /\ pc[c] = "idle" => result[c] = "NONE"
  /\ pc[c] = "open" => arg[c].kind \in folders
  /\ pc[c] \in {"write", "rename"} /\ tmp[Target(c)] = None => entry[Target(c)] # None
  /\ pc[c] = "cleanup" => entry[Target(c)] # None
  /\ result[c] = "WRITE_FAILED" => Target(c) \in Targets /\ entry[Target(c)] # None

LEMMA LossStep ==
  ASSUME ~DiskFaults, Sane, \A c \in Calls : LossOf(c), [Next]_vars, NEW c \in Calls
  PROVE  LossOf(c)'
  <1> USE DEF Answer, Goto, files, actions
  <1>1. \A t \in Targets : entry[t] # None => entry'[t] # None
    BY EntryStays
  <1>2. pc[c] # "idle" => arg'[c] = arg[c] /\ (Target(c))' = Target(c)
    BY RequestStays
  <1>3. InFlight(c) => Target(c) \in Targets /\ TmpOf(c) = Target(c) /\ pc[c] # "idle"
    BY TargetType DEF InFlight, WriteSteps, RegisterSteps
  <1> USE DEF LossOf, Sane, TypeOK, InFlight, WriteSteps, RegisterSteps
  <1>4. ASSUME NEW d \in Calls, NEW r \in Requests, Begin(d, r) PROVE LossOf(c)'
    BY <1>1, <1>2, <1>3, <1>4 DEF Begin
  <1>5. ASSUME NEW d \in Calls, CheckExists(d) PROVE LossOf(c)'
    <2>1. Target(d) \in Targets /\ TmpOf(d) = Target(d) /\ arg[d].kind \in Kinds
      BY <1>5, TargetType DEF CheckExists
    <2> QED
      BY <1>5, <2>1, <1>1, <1>2, <1>3 DEF CheckExists
  <1>6. ASSUME NEW d \in Calls, MakeFolder(d) PROVE LossOf(c)'
    <2>1. Target(d) \in Targets /\ TmpOf(d) = Target(d) /\ arg[d].kind \in Kinds
      BY <1>6, TargetType DEF MakeFolder
    <2> QED
      BY <1>6, <2>1, <1>1, <1>2, <1>3 DEF MakeFolder
  <1>7. ASSUME NEW d \in Calls, OpenTmp(d) PROVE LossOf(c)'
    <2>1. Target(d) \in Targets /\ TmpOf(d) = Target(d) /\ arg[d].kind \in Kinds
      BY <1>7, TargetType DEF OpenTmp
    <2>2. tmp'[Target(d)] # None /\ \A t \in Targets : tmp'[t] = None => tmp[t] = None
      BY <1>7, <2>1, NoneIsNothing DEF OpenTmp, Inodes
    <2>3. pc' = [pc EXCEPT ![d] = "write"] /\ UNCHANGED <<arg, result, entry, folders>>
      BY <1>7 DEF OpenTmp
    <2>4. CASE c = d
      BY <2>1, <2>2, <2>3, <2>4, <1>1, <1>2, <1>3, <1>7 DEF OpenTmp, Target
    <2>5. CASE c # d
      <3>1. pc'[c] = pc[c] /\ Target(c)' = Target(c)
        BY <2>3, <2>5 DEF Target
      <3> QED
        BY <2>2, <2>3, <3>1, <1>3
    <2> QED
      BY <2>4, <2>5
  <1>8. ASSUME NEW d \in Calls, OpenFails(d) PROVE LossOf(c)'
    <2>1. Target(d) \in Targets /\ TmpOf(d) = Target(d) /\ arg[d].kind \in Kinds
      BY <1>8, TargetType DEF OpenFails
    <2> QED
      BY <1>8, <2>1, <1>1, <1>2, <1>3 DEF OpenFails
  <1>9. ASSUME NEW d \in Calls, WriteBlock(d) PROVE LossOf(c)'
    <2>1. Target(d) \in Targets /\ TmpOf(d) = Target(d) /\ arg[d].kind \in Kinds
      BY <1>9, TargetType DEF WriteBlock
    <2> QED
      BY <1>9, <2>1, <1>1, <1>2, <1>3 DEF WriteBlock
  <1>10. ASSUME NEW d \in Calls, CloseTmp(d) PROVE LossOf(c)'
    <2>1. Target(d) \in Targets /\ TmpOf(d) = Target(d) /\ arg[d].kind \in Kinds
      BY <1>10, TargetType DEF CloseTmp
    <2> QED
      BY <1>10, <2>1, <1>1, <1>2, <1>3 DEF CloseTmp
  <1>11. ASSUME NEW d \in Calls, WriteFails(d) PROVE LossOf(c)'
    <2>1. Target(d) \in Targets /\ TmpOf(d) = Target(d) /\ arg[d].kind \in Kinds
      BY <1>11, TargetType DEF WriteFails
    <2> QED
      BY <1>11, <2>1, <1>1, <1>2, <1>3 DEF WriteFails
  <1>12. ASSUME NEW d \in Calls, Rename(d) PROVE LossOf(c)'
    <2>1. Target(d) \in Targets /\ TmpOf(d) = Target(d) /\ arg[d].kind \in Kinds
      BY <1>12, TargetType DEF Rename
    <2> QED
      BY <1>12, <2>1, <1>1, <1>2, <1>3 DEF Rename
  <1>13. ASSUME NEW d \in Calls, RenameFails(d) PROVE LossOf(c)'
    <2>1. Target(d) \in Targets /\ TmpOf(d) = Target(d) /\ arg[d].kind \in Kinds
      BY <1>13, TargetType DEF RenameFails
    <2> QED
      BY <1>13, <2>1, <1>1, <1>2, <1>3 DEF RenameFails
  <1>14. ASSUME NEW d \in Calls, Cleanup(d) PROVE LossOf(c)'
    <2>1. Target(d) \in Targets /\ TmpOf(d) = Target(d) /\ arg[d].kind \in Kinds
      BY <1>14, TargetType DEF Cleanup
    <2> QED
      BY <1>14, <2>1, <1>1, <1>2, <1>3 DEF Cleanup
  <1>15. ASSUME NEW d \in Calls, EnsureFn(d) PROVE LossOf(c)'
    <2>1. Target(d) \in Targets /\ TmpOf(d) = Target(d) /\ arg[d].kind \in Kinds
      BY <1>15, TargetType DEF EnsureFn
    <2> QED
      BY <1>15, <2>1, <1>1, <1>2, <1>3 DEF EnsureFn
  <1>16. ASSUME NEW d \in Calls, Unregister(d) PROVE LossOf(c)'
    <2>1. Target(d) \in Targets /\ TmpOf(d) = Target(d) /\ arg[d].kind \in Kinds
      BY <1>16, TargetType DEF Unregister
    <2> QED
      BY <1>16, <2>1, <1>1, <1>2, <1>3 DEF Unregister
  <1>17. ASSUME NEW d \in Calls, Register(d) PROVE LossOf(c)'
    <2>1. Target(d) \in Targets /\ TmpOf(d) = Target(d) /\ arg[d].kind \in Kinds
      BY <1>17, TargetType DEF Register
    <2> QED
      BY <1>17, <2>1, <1>1, <1>2, <1>3 DEF Register
  <1>18. CASE Crash
    BY <1>18, <1>1, <1>2, <1>3 DEF Crash
  <1>19. ASSUME NEW f \in {"host", "null", "unset"}, InstallFn(f) PROVE LossOf(c)'
    BY <1>19, <1>1, <1>2, <1>3 DEF InstallFn
  <1>20. CASE UNCHANGED vars
    BY <1>20, <1>1, <1>2, <1>3 DEF vars
  <1> QED
    BY <1>4, <1>5, <1>6, <1>7, <1>8, <1>9, <1>10, <1>11, <1>12, <1>13, <1>14, <1>15, <1>16,
       <1>17, <1>18, <1>19, <1>20
    DEF Next, Write, Registration

\* On a healthy disk, WRITE_FAILED is the answer only of a call that lost the
\* race to another one, whose artifact is visible; for any number of overlaps.
THEOREM LoserMeansWinner == Spec => []FailureMeansAnotherLanded
  <1> DEFINE LossInv == ~DiskFaults => \A c \in Calls : LossOf(c)
  <1>1. Init => LossInv
    BY DEF Init, LossOf
  <1>2. Sane /\ LossInv /\ [Next]_vars => LossInv'
    BY LossStep
  <1>3. LossInv => FailureMeansAnotherLanded
    BY DEF FailureMeansAnotherLanded, LossOf
  <1> HIDE DEF LossInv
  <1> QED
    BY <1>1, <1>2, <1>3, SaneAlways, PTL DEF Spec

\* The calls with a request for a target; a call that has its request keeps it.
CallsFor(t) == {c \in Calls : For(c, t)}

LEMMA CallsForGrows ==
  ASSUME Sane, Phases, [Next]_vars, NEW t
  PROVE  CallsFor(t) \subseteq CallsFor(t)'
  <1> SUFFICES ASSUME NEW c \in CallsFor(t) PROVE For(c, t)'
    BY DEF CallsFor
  <1>1. pc[c] # "idle"
    BY DEF Phases, Phase, For, CallsFor
  <1> QED
    BY <1>1, RequestStays DEF For, CallsFor

\* An inode belongs to one target for good: whatever is bound to its name, holds
\* it open or has bytes in it is for that target.
Owned ==
  /\ \A t \in Targets :
       /\ entry[t] # None => entry[t] \in CallsFor(t)
       /\ tmp[t] # None => tmp[t] \in CallsFor(t)
  /\ \A c \in Calls : pc[c] = "write" =>
       \E t \in Targets : c \in CallsFor(t) /\ handle[c] \in CallsFor(t)
  /\ \A i \in Inodes, k \in Blocks : data[i][k] # None =>
       \E t \in Targets : i \in CallsFor(t) /\ data[i][k] \in CallsFor(t)

LEMMA OwnedInit == Init => Owned
  BY DEF Init, Owned, Empty, Targets, Inodes

LEMMA OwnedNext == Sane /\ Phases /\ Owned /\ [Next]_vars => Owned'
  <1> SUFFICES ASSUME Sane, Phases, Owned, [Next]_vars PROVE Owned'
    OBVIOUS
  <1> USE DEF Answer, Goto, files
  <1>1. \A t : CallsFor(t) \subseteq CallsFor(t)'
    BY CallsForGrows
  \* the steps that bind no name and write no byte
  <1>2. ASSUME UNCHANGED <<entry, tmp, data>>,
               \A c \in Calls : pc'[c] = "write" => pc[c] = "write" /\ handle'[c] = handle[c]
        PROVE  Owned'
    <2>1. \A t \in Targets : /\ entry'[t] # None => entry'[t] \in CallsFor(t)'
                             /\ tmp'[t] # None => tmp'[t] \in CallsFor(t)'
      BY <1>1, <1>2 DEF Owned
    <2>2. ASSUME NEW c \in Calls, pc'[c] = "write"
          PROVE  \E t \in Targets : c \in CallsFor(t)' /\ handle'[c] \in CallsFor(t)'
      BY <1>1, <1>2, <2>2 DEF Owned
    <2>3. ASSUME NEW i \in Inodes, NEW k \in Blocks, data'[i][k] # None
          PROVE  \E t \in Targets : i \in CallsFor(t)' /\ data'[i][k] \in CallsFor(t)'
      BY <1>1, <1>2, <2>3 DEF Owned
    <2> QED
      BY <2>1, <2>2, <2>3 DEF Owned
  <1>3. ASSUME NEW d \in Calls, OpenTmp(d) PROVE Owned'
    <2> DEFINE u == Target(d)
               inode == IF tmp[u] = None THEN d ELSE tmp[u]
    <2>1. InFlight(d) /\ pc[d] = "open"
      BY <1>3 DEF OpenTmp, InFlight, WriteSteps, RegisterSteps
    <2>2. u \in Targets /\ d \in CallsFor(u)
      BY <2>1, TargetType, NoneIsNothing DEF CallsFor, For
    <2>3. inode \in CallsFor(u)
      BY <2>2 DEF Owned
    <2>4. /\ tmp' = [tmp EXCEPT ![u] = inode]
          /\ data' = [data EXCEPT ![inode] = Empty]
          /\ handle' = [handle EXCEPT ![d] = inode]
          /\ pc' = [pc EXCEPT ![d] = "write"]
          /\ entry' = entry
      BY <1>3, <2>1, TargetType DEF OpenTmp
    <2> HIDE DEF inode, u
    <2>5. \A t \in Targets : /\ entry'[t] # None => entry'[t] \in CallsFor(t)'
                             /\ tmp'[t] # None => tmp'[t] \in CallsFor(t)'
      BY <1>1, <2>3, <2>4 DEF Owned, Sane, TypeOK
    <2>6. ASSUME NEW c \in Calls, pc'[c] = "write"
          PROVE  \E t \in Targets : c \in CallsFor(t)' /\ handle'[c] \in CallsFor(t)'
      <3>1. CASE c = d
        <4>1. handle'[c] = inode
          BY <2>4, <3>1 DEF Sane, TypeOK
        <4> QED
          BY <1>1, <2>2, <2>3, <3>1, <4>1
      <3>2. CASE c # d
        <4>1. pc[c] = "write" /\ handle'[c] = handle[c]
          BY <2>4, <2>6, <3>2 DEF Sane, TypeOK
        <4> QED
          BY <1>1, <4>1 DEF Owned
      <3> QED
        BY <3>1, <3>2
    <2>7. ASSUME NEW i \in Inodes, NEW k \in Blocks, data'[i][k] # None
          PROVE  \E t \in Targets : i \in CallsFor(t)' /\ data'[i][k] \in CallsFor(t)'
      <3>1. data'[i][k] = data[i][k]
        BY <2>4, <2>7 DEF Empty, Sane, TypeOK
      <3> QED
        BY <1>1, <2>7, <3>1 DEF Owned
    <2> QED
      BY <2>5, <2>6, <2>7 DEF Owned
  <1>4. ASSUME NEW d \in Calls, WriteBlock(d) PROVE Owned'
    <2>1. /\ pc[d] = "write"
          /\ UNCHANGED <<pc, entry, tmp, handle>>
          /\ data' = [data EXCEPT ![handle[d]] = [@ EXCEPT ![off[d] + 1] = d]]
      BY <1>4 DEF WriteBlock
    <2>2. ASSUME NEW i \in Inodes, NEW k \in Blocks, data'[i][k] # None
          PROVE  \E t \in Targets : i \in CallsFor(t)' /\ data'[i][k] \in CallsFor(t)'
      <3>1. CASE data'[i][k] = data[i][k]
        BY <1>1, <2>2, <3>1 DEF Owned
      <3>2. CASE data'[i][k] # data[i][k]
        <4>1. i = handle[d] /\ data'[i][k] = d
          BY <2>1, <3>2 DEF Sane, TypeOK
        <4> QED
          BY <1>1, <2>1, <4>1 DEF Owned
      <3> QED
        BY <3>1, <3>2
    <2> QED
      BY <1>1, <2>1, <2>2 DEF Owned
  <1>5. ASSUME NEW d \in Calls, Rename(d) \/ Cleanup(d) PROVE Owned'
    <2> DEFINE u == Target(d)
    <2>1. InFlight(d)
      BY <1>5 DEF Rename, Cleanup, InFlight, WriteSteps
    <2>2. u \in Targets /\ TmpOf(d) = u
      BY <2>1, TargetType
    <2>3. /\ UNCHANGED <<data, handle>>
          /\ \A c \in Calls : pc'[c] = "write" => pc[c] = "write"
          /\ \A t \in Targets : tmp'[t] \in {tmp[t], None}
          /\ \A t \in Targets : entry'[t] \in {entry[t], tmp[t]}
      BY <1>5, <2>2 DEF Rename, Cleanup, Sane, TypeOK
    <2>4. \A t \in Targets : /\ entry'[t] # None => entry'[t] \in CallsFor(t)'
                             /\ tmp'[t] # None => tmp'[t] \in CallsFor(t)'
      BY <1>1, <2>3 DEF Owned
    <2>5. ASSUME NEW c \in Calls, pc'[c] = "write"
          PROVE  \E t \in Targets : c \in CallsFor(t)' /\ handle'[c] \in CallsFor(t)'
      BY <1>1, <2>3, <2>5 DEF Owned
    <2>6. ASSUME NEW i \in Inodes, NEW k \in Blocks, data'[i][k] # None
          PROVE  \E t \in Targets : i \in CallsFor(t)' /\ data'[i][k] \in CallsFor(t)'
      BY <1>1, <2>3, <2>6 DEF Owned
    <2> QED
      BY <2>4, <2>5, <2>6 DEF Owned
  <1>6. ASSUME NEW d \in Calls, NEW r \in Requests, Begin(d, r) PROVE Owned'
    BY <1>2, <1>6 DEF Begin, Sane, TypeOK
  <1>7. ASSUME NEW d \in Calls,
               CheckExists(d) \/ MakeFolder(d) \/ OpenFails(d) \/ CloseTmp(d)
                 \/ WriteFails(d) \/ RenameFails(d)
        PROVE  Owned'
    BY <1>2, <1>7 DEF CheckExists, MakeFolder, OpenFails, CloseTmp, WriteFails,
       RenameFails, Sane, TypeOK
  <1>8. ASSUME NEW d \in Calls, Registration(d) PROVE Owned'
    BY <1>2, <1>8 DEF Registration, EnsureFn, Unregister, Register, Sane, TypeOK
  <1>9. ASSUME NEW f \in {"host", "null", "unset"}, InstallFn(f) PROVE Owned'
    BY <1>2, <1>9 DEF InstallFn
  <1>10. CASE Crash
    BY <1>2, <1>10 DEF Crash, InFlight, WriteSteps, RegisterSteps
  <1>11. CASE UNCHANGED vars
    BY <1>2, <1>11 DEF vars
  <1> QED
    BY <1>3, <1>4, <1>5, <1>6, <1>7, <1>8, <1>9, <1>10, <1>11 DEF Next, Write

\* However saves of an artifact overlap, fail or die, its bytes come from
\* requests for it.
THEOREM BytesStayHome == Spec => []BytesBelongToTarget
  <1>1. Sane /\ Owned => BytesBelongToTarget
    <2> SUFFICES ASSUME Sane, Owned, NEW t \in Targets, NEW k \in Blocks,
                        entry[t] # None, data[entry[t]][k] # None
                 PROVE  For(data[entry[t]][k], t)
      BY DEF BytesBelongToTarget
    <2>1. entry[t] \in Inodes /\ For(entry[t], t)
      BY DEF Owned, CallsFor, Inodes
    <2>2. PICK u \in Targets : For(entry[t], u) /\ For(data[entry[t]][k], u)
      BY <2>1 DEF Owned, CallsFor
    <2> QED
      BY <2>1, <2>2 DEF For
  <1> QED
    BY <1>1, OwnedInit, OwnedNext, PhasesAlways, SaneAlways, PTL DEF Spec

\* A temporary file has a call that is about to rename or remove it, that died
\* before it could, or that met a disk fault; for any overlap of saves.
THEOREM NoTmpIsLeft == Spec => []NoStrayTmp
  <1>1. Init => NoStrayTmp
    BY DEF Init, NoStrayTmp
  <1>2. Sane /\ Phases /\ NoStrayTmp /\ [Next]_vars => NoStrayTmp'
    <2> SUFFICES ASSUME Sane, Phases, NoStrayTmp, [Next]_vars,
                        NEW t \in Targets, tmp'[t] # None
                 PROVE  \E c \in Calls :
                          /\ For(c, t)'
                          /\ \/ pc'[c] \in {"write", "rename", "cleanup", "dead"}
                             \/ DiskFaults /\ result'[c] = "WRITE_FAILED"
      BY DEF NoStrayTmp
    <2> USE DEF Answer, Goto, files
    <2>1. CASE tmp[t] # None
      <3>1. PICK c \in Calls :
              /\ c \in CallsFor(t)
              /\ \/ pc[c] \in {"write", "rename", "cleanup", "dead"}
                 \/ DiskFaults /\ result[c] = "WRITE_FAILED"
        BY <2>1 DEF NoStrayTmp, CallsFor
      <3>2. For(c, t)' /\ arg[c] # None /\ Target(c) = t
        BY <3>1, CallsForGrows DEF CallsFor, For
      <3>3. \/ pc'[c] \in {"write", "rename", "cleanup", "dead"}
            \/ DiskFaults /\ result'[c] = "WRITE_FAILED"
        <4>1. CASE result[c] = "WRITE_FAILED" /\ DiskFaults
          <5>1. pc[c] = "done"
            BY <4>1 DEF Phases, Phase, Sane, TypeOK
          <5>2. result'[c] = result[c]
            <6>1. ASSUME NEW d \in Calls, NEW r \in Requests, Begin(d, r) PROVE result'[c] = result[c]
              BY <5>1, <6>1 DEF Begin, Sane, TypeOK
            <6>2. ASSUME NEW d \in Calls, Write(d) PROVE result'[c] = result[c]
              BY <5>1, <6>2 DEF Write, CheckExists, MakeFolder, OpenTmp, OpenFails, WriteBlock,
                 CloseTmp, WriteFails, Rename, RenameFails, Cleanup, Sane, TypeOK
            <6>3. ASSUME NEW d \in Calls, Registration(d) PROVE result'[c] = result[c]
              BY <5>1, <6>3 DEF Registration, EnsureFn, Unregister, Register, Sane, TypeOK
            <6> QED
              BY <6>1, <6>2, <6>3 DEF Next, InstallFn, Crash, vars
          <5> QED
            BY <4>1, <5>2
        <4>2. CASE pc[c] \in {"write", "rename", "cleanup", "dead"}
          <5> USE DEF Sane, TypeOK
          <5>1. ASSUME NEW d \in Calls, NEW r \in Requests, Begin(d, r) PROVE <3>3!:
            BY <4>2, <5>1 DEF Begin
          <5>2. ASSUME NEW d \in Calls, Write(d), ~Rename(d), ~Cleanup(d) PROVE <3>3!:
            BY <4>2, <5>2 DEF Write, CheckExists, MakeFolder, OpenTmp, OpenFails,
               WriteBlock, CloseTmp, WriteFails, RenameFails
          <5>3. ASSUME NEW d \in Calls, Rename(d) \/ Cleanup(d) PROVE <3>3!:
            <6>1. InFlight(d)
              BY <5>3 DEF Rename, Cleanup, InFlight, WriteSteps
            <6>2. Target(d) \in Targets /\ TmpOf(d) = Target(d)
              BY <6>1, TargetType
            <6>3. CASE c # d
              BY <4>2, <5>3, <6>3 DEF Rename, Cleanup
            \* a call that renamed or removed the file left none under the name
            <6>4. CASE c = d
              BY <3>2, <5>3, <6>2, <6>4 DEF Rename, Cleanup
            <6> QED
              BY <6>3, <6>4
          <5>4. ASSUME NEW d \in Calls, Registration(d) PROVE <3>3!:
            BY <4>2, <5>4 DEF Registration, EnsureFn, Unregister, Register
          <5>5. CASE Crash
            BY <4>2, <5>5 DEF Crash, InFlight, WriteSteps
          <5> QED
            BY <4>2, <5>1, <5>2, <5>3, <5>4, <5>5 DEF Next, InstallFn, vars
        <4> QED
          BY <3>1, <4>1, <4>2
      <3> QED
        BY <3>2, <3>3
    <2>2. CASE tmp[t] = None
      <3>1. PICK d \in Calls : OpenTmp(d) /\ TmpOf(d) = t
        <4>1. ASSUME NEW d \in Calls, Write(d), ~OpenTmp(d) PROVE FALSE
          BY <2>2, <4>1 DEF Write, CheckExists, MakeFolder, OpenFails, WriteBlock,
             CloseTmp, WriteFails, Rename, RenameFails, Cleanup, Sane, TypeOK
        <4>2. ASSUME NEW d \in Calls, OpenTmp(d), TmpOf(d) # t PROVE FALSE
          BY <2>2, <4>2 DEF OpenTmp, Sane, TypeOK
        <4>3. ASSUME NEW d \in Calls, Registration(d) PROVE FALSE
          BY <2>2, <4>3 DEF Registration, EnsureFn, Unregister, Register
        <4> QED
          BY <2>2, <4>1, <4>2, <4>3 DEF Next, Begin, InstallFn, Crash, vars
      <3>2. InFlight(d)
        BY <3>1 DEF OpenTmp, InFlight, WriteSteps
      <3>3. d \in CallsFor(t)
        BY <3>1, <3>2, TargetType, NoneIsNothing DEF CallsFor, For
      <3>4. pc'[d] = "write"
        BY <3>1 DEF OpenTmp, Sane, TypeOK
      <3> QED
        BY <3>3, <3>4, CallsForGrows DEF CallsFor
    <2> QED
      BY <2>1, <2>2
  <1> QED
    BY <1>1, <1>2, PhasesAlways, SaneAlways, PTL DEF Spec

\* The answer of a call is final.
LEMMA AnswerStays ==
  ASSUME Sane, [Next]_vars, NEW c \in Calls, pc[c] \in {"done", "dead"}
  PROVE  pc'[c] = pc[c] /\ result'[c] = result[c]
  <1> USE DEF Answer, Goto, Sane, TypeOK
  <1>1. ASSUME NEW d \in Calls, NEW r \in Requests, Begin(d, r) PROVE pc'[c] = pc[c] /\ result'[c] = result[c]
    BY <1>1 DEF Begin
  <1>2. ASSUME NEW d \in Calls, Write(d) PROVE pc'[c] = pc[c] /\ result'[c] = result[c]
    BY <1>2 DEF Write, CheckExists, MakeFolder, OpenTmp, OpenFails, WriteBlock,
       CloseTmp, WriteFails, Rename, RenameFails, Cleanup
  <1>3. ASSUME NEW d \in Calls, Registration(d) PROVE pc'[c] = pc[c] /\ result'[c] = result[c]
    BY <1>3 DEF Registration, EnsureFn, Unregister, Register
  <1> QED
    BY <1>1, <1>2, <1>3 DEF Next, InstallFn, Crash, InFlight, WriteSteps, RegisterSteps, vars

\* A call that took its script out of the action list and has not put it back:
\* it is about to, or died, or reports the failure.
Unsettled(d, t) ==
  /\ d \in CallsFor(t) /\ arg[d].register
  /\ pc[d] \in {"register", "dead"} \/ result[d] = "REGISTER_FAILED"

\* An unsettled call settles only by registering the script.
LEMMA UnsettledStays ==
  ASSUME Sane, Phases, [Next]_vars, NEW d \in Calls, NEW t, Unsettled(d, t)
  PROVE  Unsettled(d, t)' \/ t \in registered'
  <1>1. d \in CallsFor(t)' /\ arg'[d] = arg[d]
    <2>1. pc[d] # "idle"
      BY DEF Unsettled, CallsFor, For, Phases, Phase
    <2> QED
      BY <2>1, CallsForGrows, RequestStays DEF Unsettled
  <1>2. CASE pc[d] = "dead"
    BY <1>1, <1>2, AnswerStays DEF Unsettled
  <1>3. CASE result[d] = "REGISTER_FAILED"
    <2>1. pc[d] = "done"
      BY <1>3 DEF Phases, Phase, Sane, TypeOK
    <2> QED
      BY <1>1, <1>3, <2>1, AnswerStays DEF Unsettled
  <1>4. CASE pc[d] = "register"
    <2> USE DEF Answer, Goto, Sane, TypeOK
    <2>1. CASE Register(d)
      BY <1>1, <1>4, <2>1 DEF Register, Unsettled, CallsFor, For
    <2>2. CASE ~Register(d)
      <3>1. ASSUME NEW c \in Calls, NEW r \in Requests, Begin(c, r) PROVE pc'[d] = pc[d]
        BY <1>4, <3>1 DEF Begin
      <3>2. ASSUME NEW c \in Calls, Write(c) PROVE pc'[d] = pc[d]
        BY <1>4, <3>2 DEF Write, CheckExists, MakeFolder, OpenTmp, OpenFails, WriteBlock,
           CloseTmp, WriteFails, Rename, RenameFails, Cleanup
      <3>3. ASSUME NEW c \in Calls, Registration(c) PROVE pc'[d] = pc[d]
        BY <1>4, <2>2, <3>3 DEF Registration, EnsureFn, Unregister, Register
      <3>4. pc'[d] \in {"register", "dead"}
        BY <1>4, <3>1, <3>2, <3>3 DEF Next, InstallFn, Crash, vars
      <3> QED
        BY <1>1, <3>4 DEF Unsettled
    <2> QED
      BY <2>1, <2>2
  <1> QED
    BY <1>2, <1>3, <1>4 DEF Unsettled

LEMMA RegistrationStep ==
  Sane /\ Phases /\ LostRegistrationReported /\ [Next]_vars => LostRegistrationReported'
  <1> SUFFICES ASSUME Sane, Phases, LostRegistrationReported, [Next]_vars, NEW c \in Calls,
                      pc'[c] = "done", result'[c] = "OK", arg'[c].register,
                      Target(c)' \notin registered'
               PROVE  \E d \in Calls \ {c} : Unsettled(d, Target(c))'
    BY DEF LostRegistrationReported, Unsettled, CallsFor
  <1> USE DEF Answer, Goto, Sane, TypeOK
  \* the call has already answered: its own last step leaves the script listed
  <1>1. pc[c] = "done" /\ result[c] = "OK"
    <2>1. ASSUME pc[c] # "done", NEW d \in Calls, NEW r \in Requests, Begin(d, r) PROVE FALSE
      BY <2>1 DEF Begin, Phases, Phase
    <2>2. ASSUME pc[c] # "done", NEW d \in Calls, Write(d) PROVE FALSE
      BY <2>2 DEF Write, CheckExists, MakeFolder, OpenTmp, OpenFails, WriteBlock,
         CloseTmp, WriteFails, Rename, RenameFails, Cleanup
    <2>3. ASSUME pc[c] # "done", NEW d \in Calls, Registration(d) PROVE FALSE
      BY <2>3 DEF Registration, EnsureFn, Unregister, Register, Target
    <2>4. pc[c] = "done"
      BY <2>1, <2>2, <2>3 DEF Next, InstallFn, Crash, vars
    <2> QED
      BY <2>4, AnswerStays
  <1>2. arg'[c] = arg[c] /\ Target(c)' = Target(c)
    BY <1>1, RequestStays
  <1> DEFINE t == Target(c)
  <1>3. CASE t \in registered
    <2>1. PICK d \in Calls : Unregister(d) /\ Target(d) = t
      <3>1. ASSUME NEW d \in Calls, Write(d) PROVE registered' = registered
        BY <3>1 DEF Write, CheckExists, MakeFolder, OpenTmp, OpenFails, WriteBlock,
           CloseTmp, WriteFails, Rename, RenameFails, Cleanup, actions
      <3> QED
        BY <1>2, <1>3, <3>1
        DEF Next, Begin, Registration, EnsureFn, Unregister, Register, InstallFn, Crash, vars, actions
    <2>2. InFlight(d) /\ pc[d] \in RegisterSteps /\ d # c
      BY <1>1, <2>1 DEF Unregister, InFlight, RegisterSteps
    <2>3. d \in CallsFor(t) /\ arg[d].register
      BY <2>1, <2>2, TargetType, NoneIsNothing DEF CallsFor, For, Phases, Phase
    <2>4. d \in CallsFor(t)' /\ arg'[d].register /\ pc'[d] = "register"
      <3>1. arg' = arg /\ pc'[d] = "register"
        BY <2>1 DEF Unregister
      <3> QED
        BY <1>2, <2>3, <3>1 DEF CallsFor, For, Target
    <2> QED
      BY <1>2, <2>2, <2>4 DEF Unsettled
  <1>4. CASE t \notin registered
    <2>1. PICK d \in Calls \ {c} : Unsettled(d, t)
      BY <1>1, <1>2, <1>4 DEF LostRegistrationReported, Unsettled, CallsFor
    <2> QED
      BY <1>2, <2>1, UnsettledStays
  <1> QED
    BY <1>3, <1>4

\* A registration is lost only to a call that died or that reports it; for any
\* number of overlapping saves of a script.
THEOREM RegistrationsAreNotLost == Spec => []LostRegistrationReported
  <1>1. Init => LostRegistrationReported
    BY DEF Init, LostRegistrationReported
  <1> QED
    BY <1>1, RegistrationStep, PhasesAlways, SaneAlways, PTL DEF Spec

-----------------------------------------------------------------------------
(***************************************************************************)
(* Atomicity, for clients that have one save of an artifact in flight      *)
(***************************************************************************)

Prefix(c, n) == [k \in Blocks |-> IF k <= n THEN c ELSE None]

LEMMA PrefixGrows ==
  ASSUME NEW c \in Calls, NEW n \in Nat
  PROVE  [Prefix(c, n) EXCEPT ![n + 1] = c] = Prefix(c, n + 1)
  <1>1. ASSUME NEW k \in Blocks
        PROVE  [Prefix(c, n) EXCEPT ![n + 1] = c][k] = Prefix(c, n + 1)[k]
    <2>1. k \in Nat
      BY WriterConstants DEF Blocks
    <2>2. k <= n + 1 <=> (k <= n \/ k = n + 1)
      BY <2>1
    <2> QED
      BY <2>2 DEF Prefix
  <1>2. /\ DOMAIN [Prefix(c, n) EXCEPT ![n + 1] = c] = Blocks
        /\ DOMAIN Prefix(c, n + 1) = Blocks
    BY DEF Prefix
  <1> QED
    BY <1>1, <1>2 DEF Prefix

\* At most one call works on a target.
Alone == \A c, d \in Calls : InFlight(c) /\ InFlight(d) /\ c # d => Target(c) # Target(d)

\* Nothing bears the name of a call that has not opened its file yet.
Unopened(c) ==
  /\ pc[c] = "idle" => arg[c] = None
  /\ pc[c] \in {"idle", "exists", "mkdir", "open"} =>
       off[c] = 0 /\ \A t \in Targets : entry[t] # c /\ tmp[t] # c

\* A temporary file is nobody else's file.
Apart ==
  \A t, u \in Targets : tmp[t] # None =>
    entry[u] # tmp[t] /\ (u # t => tmp[u] # tmp[t])

\* The temporary file of a call holds what the call has written, and no more.
Writes(c) ==
  /\ pc[c] = "write" =>
       /\ handle[c] = tmp[Target(c)]
       /\ data[tmp[Target(c)]] = Prefix(c, off[c])
  /\ pc[c] = "rename" =>
       /\ tmp[Target(c)] # None
       /\ data[tmp[Target(c)]] = Content(c)

FileInv ==
  /\ Alone
  /\ \A c \in Calls : Unopened(c)
  /\ Apart
  /\ \A c \in Calls : Writes(c)
  /\ TargetsComplete

\* A complete artifact stays complete while its inode is left alone.
LEMMA CompleteStays ==
  ASSUME Sane, FileInv, [Next]_vars, NEW t \in Targets,
         entry[t] # None, entry'[t] = entry[t], data'[entry[t]] = data[entry[t]]
  PROVE  \E c \in Calls : For(c, t)' /\ data'[entry'[t]] = Content(c)'
  <1>1. PICK c \in Calls : For(c, t) /\ data[entry[t]] = Content(c)
    BY DEF FileInv, TargetsComplete
  <1>2. arg'[c] = arg[c] /\ Target(c)' = Target(c)
    BY <1>1, RequestStays DEF FileInv, Unopened, For
  <1>3. For(c, t)' /\ Content(c)' = Content(c)
    BY <1>1, <1>2 DEF For, Content
  <1> QED
    BY <1>1, <1>3

\* Steps that change no file keep the invariant, whoever takes them.
LEMMA FilesUntouched ==
  ASSUME Sane, FileInv, [Next]_vars, UNCHANGED <<entry, tmp, data, off, arg>>,
         \A c \in Calls :
           /\ InFlight(c)' => InFlight(c)
           /\ pc'[c] \in {"idle", "exists", "mkdir", "open"} =>
                pc[c] \in {"idle", "exists", "mkdir", "open"}
           /\ pc'[c] = "idle" => pc[c] = "idle"
           /\ pc'[c] = "write" => pc[c] = "write" /\ handle'[c] = handle[c]
           /\ pc'[c] = "rename" => pc[c] = "rename" \/ CloseTmp(c)
  PROVE  FileInv'
  <1>1. Alone'
    BY DEF FileInv, Alone, Target
  <1>2. (\A c \in Calls : Unopened(c))'
    BY DEF FileInv, Unopened
  <1>3. Apart'
    BY DEF FileInv, Apart
  <1>4. ASSUME NEW c \in Calls PROVE Writes(c)'
    <2>1. CASE pc'[c] = "write"
      BY <2>1 DEF FileInv, Writes, Target, Prefix
    <2>2. CASE pc'[c] = "rename" /\ pc[c] = "rename"
      BY <2>2 DEF FileInv, Writes, Target, Content
    <2>3. CASE pc'[c] = "rename" /\ CloseTmp(c)
      <3>1. handle[c] # None /\ data[tmp[Target(c)]] = Prefix(c, arg[c].size) /\ handle[c] = tmp[Target(c)]
        BY <2>3 DEF CloseTmp, FileInv, Writes, Sane
      <3> QED
        BY <2>3, <3>1 DEF Writes, Prefix, Content, Target
    <2> QED
      BY <2>1, <2>2, <2>3 DEF Writes
  <1>5. TargetsComplete'
    BY CompleteStays DEF TargetsComplete
  <1> QED
    BY <1>1, <1>2, <1>3, <1>4, <1>5 DEF FileInv

\* A request for a target nobody works on
LEMMA BeginKeepsFiles ==
  ASSUME Sane, FileInv, [Next]_vars,
         NEW d \in Calls, NEW r \in Requests, Begin(d, r),
         \A c \in Calls : InFlight(c) => Target(c) # <<r.kind, r.name>>
  PROVE  FileInv'
  <1> USE DEF Answer, Goto, files, Sane, TypeOK
  <1>1. /\ arg' = [arg EXCEPT ![d] = r]
        /\ UNCHANGED <<entry, tmp, data, off, handle>>
        /\ pc[d] = "idle" /\ pc'[d] \in {"done", "exists"}
        /\ \A c \in Calls \ {d} : pc'[c] = pc[c]
    BY DEF Begin
  <1>2. \A c \in Calls \ {d} : Target(c)' = Target(c) /\ InFlight(c)' = InFlight(c)
    BY <1>1 DEF Target, InFlight
  <1>3. Alone'
    <2>1. Target(d)' = <<r.kind, r.name>>
      BY <1>1 DEF Target
    <2> QED
      BY <1>2, <2>1 DEF FileInv, Alone
  <1>4. (\A c \in Calls : Unopened(c))'
    BY <1>1 DEF FileInv, Unopened
  <1>5. Apart'
    BY <1>1 DEF FileInv, Apart
  <1>6. ASSUME NEW c \in Calls PROVE Writes(c)'
    <2>1. CASE c = d
      BY <1>1, <2>1 DEF Writes
    <2>2. CASE c # d
      <3>1. pc'[c] = pc[c] /\ arg'[c] = arg[c] /\ Target(c)' = Target(c)
        BY <1>1, <1>2, <2>2
      <3> QED
        BY <1>1, <3>1 DEF FileInv, Writes, Content, Prefix
    <2> QED
      BY <2>1, <2>2
  <1>7. TargetsComplete'
    BY <1>1, CompleteStays DEF TargetsComplete
  <1> QED
    BY <1>3, <1>4, <1>5, <1>6, <1>7 DEF FileInv

LEMMA OpenKeepsFiles ==
  ASSUME Sane, FileInv, [Next]_vars, NEW d \in Calls, OpenTmp(d)
  PROVE  FileInv'
  <1> DEFINE t == Target(d)
             inode == IF tmp[t] = None THEN d ELSE tmp[t]
  <1>1. InFlight(d) /\ pc[d] = "open"
    BY DEF OpenTmp, InFlight, WriteSteps, RegisterSteps
  <1>2. t \in Targets /\ TmpOf(d) = t
    BY <1>1, TargetType
  <1>3. /\ tmp' = [tmp EXCEPT ![t] = inode]
        /\ data' = [data EXCEPT ![inode] = Empty]
        /\ handle' = [handle EXCEPT ![d] = inode]
        /\ pc' = [pc EXCEPT ![d] = "write"]
        /\ UNCHANGED <<arg, entry, off>>
    BY <1>2 DEF OpenTmp, Goto
  <1>4. inode \in Inodes /\ inode # None
    BY <1>2, NoneIsNothing DEF Sane, TypeOK, Inodes
  <1>5. \A u \in Targets : entry[u] # inode /\ (u # t => tmp[u] # inode)
    BY <1>1, <1>2 DEF FileInv, Apart, Unopened
  <1>6. \A c \in Calls : Target(c)' = Target(c) /\ InFlight(c)' = InFlight(c)
    BY <1>1, <1>3 DEF Target, InFlight, WriteSteps, RegisterSteps, Sane, TypeOK
  <1> HIDE DEF inode
  <1>7. Alone'
    BY <1>6 DEF FileInv, Alone
  <1>8. (\A c \in Calls : Unopened(c))'
    <2> SUFFICES ASSUME NEW c \in Calls PROVE Unopened(c)'
      OBVIOUS
    <2>1. CASE c = d
      BY <1>3, <2>1 DEF Unopened, Sane, TypeOK
    <2>2. CASE c # d
      <3>1. pc'[c] = pc[c]
        BY <1>3, <2>2 DEF Sane, TypeOK
      <3>2. c # inode \/ pc[c] \notin {"idle", "exists", "mkdir", "open"}
        BY <1>2, <2>2 DEF inode, FileInv, Unopened
      <3> QED
        BY <1>3, <3>1, <3>2 DEF FileInv, Unopened, Sane, TypeOK
    <2> QED
      BY <2>1, <2>2
  <1>9. Apart'
    BY <1>2, <1>3, <1>4, <1>5 DEF FileInv, Apart, Sane, TypeOK
  <1>10. ASSUME NEW c \in Calls PROVE Writes(c)'
    <2>1. CASE c = d
      <3>1. off[d] = 0 /\ off' = off
        BY <1>1, <1>3 DEF FileInv, Unopened
      <3>2. Empty = Prefix(d, 0)
        BY WriterConstants DEF Empty, Prefix, Blocks
      <3> QED
        BY <1>2, <1>3, <1>4, <1>6, <2>1, <3>1, <3>2 DEF Writes, Sane, TypeOK, Prefix
    <2>2. CASE c # d /\ pc[c] \in {"write", "rename"}
      <3>1. InFlight(c)
        BY <2>2 DEF InFlight, WriteSteps
      <3>2. Target(c) \in Targets /\ Target(c) # t
        BY <1>1, <2>2, <3>1, TargetType DEF FileInv, Alone
      <3>3. tmp'[Target(c)] = tmp[Target(c)] /\ tmp[Target(c)] # inode
        BY <1>3, <1>5, <3>2 DEF Sane, TypeOK
      <3>4. tmp[Target(c)] \in Inodes
        BY <2>2, <3>2 DEF Sane, TypeOK, FileInv, Writes
      <3>5. data'[tmp[Target(c)]] = data[tmp[Target(c)]]
        BY <1>3, <3>3, <3>4 DEF Sane, TypeOK
      <3>6. pc'[c] = pc[c] /\ handle'[c] = handle[c] /\ UNCHANGED <<off, arg>>
        BY <1>3, <2>2 DEF Sane, TypeOK
      <3> QED
        BY <1>6, <3>3, <3>5, <3>6 DEF FileInv, Writes, Prefix, Content
    <2>3. CASE c # d /\ pc[c] \notin {"write", "rename"}
      BY <1>3, <2>3 DEF Writes, Sane, TypeOK
    <2> QED
      BY <2>1, <2>2, <2>3
  <1>11. TargetsComplete'
    BY <1>3, <1>4, <1>5, CompleteStays DEF TargetsComplete, Sane, TypeOK
  <1> QED
    BY <1>7, <1>8, <1>9, <1>10, <1>11 DEF FileInv

LEMMA WriteKeepsFiles ==
  ASSUME Sane, FileInv, [Next]_vars, NEW d \in Calls, WriteBlock(d)
  PROVE  FileInv'
  <1> DEFINE t == Target(d)
  <1>1. InFlight(d) /\ pc[d] = "write"
    BY DEF WriteBlock, InFlight, WriteSteps, RegisterSteps
  <1>2. t \in Targets
    BY <1>1, TargetType
  <1>3. handle[d] = tmp[t] /\ tmp[t] \in Inodes /\ tmp[t] # None
    BY <1>1, <1>2 DEF FileInv, Writes, Sane, TypeOK
  <1>4. /\ data' = [data EXCEPT ![tmp[t]] = [@ EXCEPT ![off[d] + 1] = d]]
        /\ off' = [off EXCEPT ![d] = @ + 1]
        /\ UNCHANGED <<pc, arg, entry, tmp, handle>>
    BY <1>3 DEF WriteBlock
  <1>5. \A u \in Targets : entry[u] # tmp[t] /\ (u # t => tmp[u] # tmp[t])
    BY <1>2, <1>3 DEF FileInv, Apart
  <1>6. \A c \in Calls : Target(c)' = Target(c) /\ InFlight(c)' = InFlight(c)
    BY <1>4 DEF Target, InFlight
  <1>7. Alone'
    BY <1>6 DEF FileInv, Alone
  <1>8. (\A c \in Calls : Unopened(c))'
    BY <1>1, <1>4 DEF FileInv, Unopened, Sane, TypeOK
  <1>9. Apart'
    BY <1>4 DEF FileInv, Apart
  <1>10. ASSUME NEW c \in Calls PROVE Writes(c)'
    <2>1. CASE c = d
      <3>1. off[d] \in Nat /\ off'[d] = off[d] + 1
        BY <1>4, WriterConstants DEF Sane, TypeOK
      <3>2. data'[tmp[t]] = [Prefix(d, off[d]) EXCEPT ![off[d] + 1] = d]
        BY <1>1, <1>3, <1>4 DEF FileInv, Writes, Sane, TypeOK
      <3>3. [Prefix(d, off[d]) EXCEPT ![off[d] + 1] = d] = Prefix(d, off[d] + 1)
        BY <3>1, PrefixGrows
      <3> QED
        BY <1>1, <1>3, <1>4, <1>6, <2>1, <3>1, <3>2, <3>3 DEF Writes, Prefix
    <2>2. CASE c # d /\ pc[c] \in {"write", "rename"}
      <3>1. InFlight(c)
        BY <2>2 DEF InFlight, WriteSteps
      <3>2. Target(c) \in Targets /\ Target(c) # t
        BY <1>1, <2>2, <3>1, TargetType DEF FileInv, Alone
      <3>3. tmp[Target(c)] # tmp[t] /\ tmp[Target(c)] \in Inodes
        BY <1>5, <2>2, <3>2 DEF Sane, TypeOK, FileInv, Writes
      <3>4. data'[tmp[Target(c)]] = data[tmp[Target(c)]]
        BY <1>4, <3>3 DEF Sane, TypeOK
      <3>5. off'[c] = off[c]
        BY <1>4, <2>2 DEF Sane, TypeOK
      <3> QED
        BY <1>4, <1>6, <3>4, <3>5 DEF FileInv, Writes, Prefix, Content
    <2>3. CASE c # d /\ pc[c] \notin {"write", "rename"}
      BY <1>4, <2>3 DEF Writes
    <2> QED
      BY <2>1, <2>2, <2>3
  <1>11. TargetsComplete'
    BY <1>3, <1>4, <1>5, CompleteStays DEF TargetsComplete, Sane, TypeOK
  <1> QED
    BY <1>7, <1>8, <1>9, <1>10, <1>11 DEF FileInv

\* A rename and a clean-up empty the name of the temporary file; a rename binds
\* the target to it.
LEMMA LeavingKeepsFiles ==
  ASSUME Sane, FileInv, [Next]_vars, NEW d \in Calls, Rename(d) \/ Cleanup(d)
  PROVE  FileInv'
  <1> DEFINE t == Target(d)
  <1>1. InFlight(d) /\ pc[d] \in {"rename", "cleanup"}
    BY DEF Rename, Cleanup, InFlight, WriteSteps, RegisterSteps
  <1>2. t \in Targets /\ TmpOf(d) = t
    BY <1>1, TargetType
  <1>3. /\ UNCHANGED <<arg, data, handle, off>>
        /\ pc'[d] \in {"ensure", "done"}
        /\ \A c \in Calls \ {d} : pc'[c] = pc[c]
        /\ \A u \in Targets : u # t => entry'[u] = entry[u] /\ tmp'[u] = tmp[u]
        /\ tmp'[t] \in {tmp[t], None}
        /\ entry'[t] = entry[t] \/ (pc[d] = "rename" /\ entry'[t] = tmp[t] /\ tmp'[t] = None)
    BY <1>2 DEF Rename, Cleanup, Answer, Goto, Sane, TypeOK
  <1>4. \A c \in Calls : Target(c)' = Target(c) /\ (InFlight(c)' => InFlight(c))
    BY <1>1, <1>3 DEF Target, InFlight
  <1>5. Alone'
    BY <1>4 DEF FileInv, Alone
  <1>6. (\A c \in Calls : Unopened(c))'
    <2> SUFFICES ASSUME NEW c \in Calls PROVE Unopened(c)'
      OBVIOUS
    <2>1. CASE c = d
      BY <1>3, <2>1 DEF Unopened
    <2>2. CASE c # d
      <3>1. pc'[c] = pc[c] /\ c # None
        BY <1>3, <2>2, NoneIsNothing
      <3> QED
        BY <1>2, <1>3, <3>1 DEF FileInv, Unopened
    <2> QED
      BY <2>1, <2>2
  <1>7. Apart'
    BY <1>2, <1>3 DEF FileInv, Apart
  <1>8. ASSUME NEW c \in Calls PROVE Writes(c)'
    <2>1. CASE c # d /\ pc[c] \in {"write", "rename"}
      <3>1. InFlight(c)
        BY <2>1 DEF InFlight, WriteSteps
      <3>2. Target(c) \in Targets /\ Target(c) # t
        BY <1>1, <2>1, <3>1, TargetType DEF FileInv, Alone
      <3>3. tmp'[Target(c)] = tmp[Target(c)] /\ pc'[c] = pc[c]
        BY <1>3, <2>1, <3>2
      <3> QED
        BY <1>3, <1>4, <3>3 DEF FileInv, Writes, Prefix, Content
    <2>2. CASE c = d
      BY <1>3, <2>2 DEF Writes
    <2>3. CASE c # d /\ pc[c] \notin {"write", "rename"}
      BY <1>3, <2>3 DEF Writes
    <2> QED
      BY <2>1, <2>2, <2>3
  <1>9. TargetsComplete'
    <2> SUFFICES ASSUME NEW u \in Targets, entry'[u] # None
                 PROVE  \E c \in Calls : For(c, u)' /\ data'[entry'[u]] = Content(c)'
      BY DEF TargetsComplete
    <2>1. CASE entry'[u] = entry[u]
      BY <1>3, <2>1, CompleteStays
    <2>2. CASE entry'[u] # entry[u]
      <3>1. u = t /\ pc[d] = "rename" /\ entry'[u] = tmp[t]
        BY <1>3, <2>2
      <3>2. data[tmp[t]] = Content(d)
        BY <3>1 DEF FileInv, Writes
      <3>3. arg[d] # None /\ arg'[d] = arg[d]
        BY <1>1, <1>3, TargetType, NoneIsNothing
      <3>4. For(d, u)' /\ Content(d)' = Content(d)
        BY <1>4, <3>1, <3>3 DEF For, Content
      <3> QED
        BY <1>3, <3>1, <3>2, <3>4
    <2> QED
      BY <2>1, <2>2
  <1> QED
    BY <1>5, <1>6, <1>7, <1>8, <1>9 DEF FileInv

\* The steps that take no new request keep the invariant, whoever the clients are.
WorkStep ==
  \/ \E c \in Calls : Write(c) \/ Registration(c)
  \/ \E f \in {"host", "null", "unset"} : InstallFn(f)
  \/ Crash
  \/ UNCHANGED vars

LEMMA WorkKeepsFiles ==
  ASSUME Sane, FileInv, WorkStep
  PROVE  FileInv'
  <1> USE DEF Answer, Goto, files
  <1>1. [Next]_vars
    BY DEF WorkStep, Next
  <1>2. ASSUME NEW d \in Calls, OpenTmp(d) PROVE FileInv'
    BY <1>1, <1>2, OpenKeepsFiles
  <1>3. ASSUME NEW d \in Calls, WriteBlock(d) PROVE FileInv'
    BY <1>1, <1>3, WriteKeepsFiles
  <1>4. ASSUME NEW d \in Calls, Rename(d) \/ Cleanup(d) PROVE FileInv'
    BY <1>1, <1>4, LeavingKeepsFiles
  <1>5. ASSUME NEW d \in Calls, CheckExists(d) PROVE FileInv'
    BY <1>1, <1>5, FilesUntouched DEF CheckExists, Sane, TypeOK, InFlight, WriteSteps, RegisterSteps
  <1>6. ASSUME NEW d \in Calls, MakeFolder(d) PROVE FileInv'
    BY <1>1, <1>6, FilesUntouched DEF MakeFolder, Sane, TypeOK, InFlight, WriteSteps, RegisterSteps
  <1>7. ASSUME NEW d \in Calls, OpenFails(d) PROVE FileInv'
    BY <1>1, <1>7, FilesUntouched DEF OpenFails, Sane, TypeOK, InFlight, WriteSteps, RegisterSteps
  <1>8. ASSUME NEW d \in Calls, CloseTmp(d) PROVE FileInv'
    BY <1>1, <1>8, FilesUntouched DEF CloseTmp, Sane, TypeOK, InFlight, WriteSteps, RegisterSteps
  <1>9. ASSUME NEW d \in Calls, WriteFails(d) PROVE FileInv'
    BY <1>1, <1>9, FilesUntouched DEF WriteFails, Sane, TypeOK, InFlight, WriteSteps, RegisterSteps
  <1>10. ASSUME NEW d \in Calls, RenameFails(d) PROVE FileInv'
    BY <1>1, <1>10, FilesUntouched
    DEF RenameFails, Sane, TypeOK, InFlight, WriteSteps, RegisterSteps
  <1>11. ASSUME NEW d \in Calls, EnsureFn(d) PROVE FileInv'
    BY <1>1, <1>11, FilesUntouched DEF EnsureFn, Sane, TypeOK, InFlight, WriteSteps, RegisterSteps
  <1>12. ASSUME NEW d \in Calls, Unregister(d) PROVE FileInv'
    BY <1>1, <1>12, FilesUntouched DEF Unregister, Sane, TypeOK, InFlight, WriteSteps, RegisterSteps
  <1>13. ASSUME NEW d \in Calls, Register(d) PROVE FileInv'
    BY <1>1, <1>13, FilesUntouched DEF Register, Sane, TypeOK, InFlight, WriteSteps, RegisterSteps
  <1>14. ASSUME NEW f \in {"host", "null", "unset"}, InstallFn(f) PROVE FileInv'
    BY <1>1, <1>14, FilesUntouched DEF InstallFn, InFlight
  <1>15. CASE Crash
    BY <1>1, <1>15, FilesUntouched DEF Crash, Sane, TypeOK, InFlight, WriteSteps, RegisterSteps
  <1>16. CASE UNCHANGED vars
    BY <1>1, <1>16, FilesUntouched DEF vars, InFlight
  <1> QED
    BY <1>2, <1>3, <1>4, <1>5, <1>6, <1>7, <1>8, <1>9, <1>10, <1>11, <1>12, <1>13, <1>14, <1>15,
       <1>16
    DEF WorkStep, Write, Registration

LEMMA FileNext ==
  ASSUME Serial, Sane, FileInv, [Next]_vars
  PROVE  FileInv'
  <1>1. ASSUME NEW d \in Calls, NEW r \in Requests, Begin(d, r) PROVE FileInv'
    <2>1. \A c \in Calls : InFlight(c) => Target(c) # <<r.kind, r.name>>
      BY <1>1 DEF Begin
    <2> QED
      BY <1>1, <2>1, BeginKeepsFiles
  <1>2. CASE WorkStep
    BY <1>2, WorkKeepsFiles
  <1> QED
    BY <1>1, <1>2 DEF Next, WorkStep

LEMMA FileInit == Init => FileInv
  BY NoneIsNothing DEF Init, FileInv, Alone, Unopened, Apart, Writes, TargetsComplete,
     InFlight, WriteSteps, RegisterSteps

\* Atomicity: for clients with one save of an artifact in flight, and whatever
\* disk faults and crashes there are, the visible artifact is at all times the
\* whole content of one request for it.
THEOREM SavesAreAtomic == Serial /\ Spec => []TargetsComplete
  <1> DEFINE Inv == Serial => FileInv
  <1>1. Init => Inv
    BY FileInit
  <1>2. Sane /\ Inv /\ [Next]_vars => Inv'
    BY FileNext
  <1>3. Spec => []Inv
    <2> HIDE DEF Inv
    <2> QED
      BY <1>1, <1>2, SaneAlways, PTL DEF Spec
  <1>4. Serial /\ Inv => TargetsComplete
    BY DEF FileInv
  <1> QED
    <2> HIDE DEF Inv
    <2>1. ASSUME Serial PROVE Inv => TargetsComplete
      BY <1>4, <2>1
    <2>2. CASE Serial
      BY <1>3, <2>1, <2>2, PTL
    <2>3. CASE ~Serial
      BY <2>3
    <2> QED
      BY <2>2, <2>3

\* What the look at the target has established still holds at the rename.
StillAbsent(c) ==
  pc[c] \in {"mkdir", "open", "write", "rename"} /\ ~arg[c].overwrite
    => entry[Target(c)] = None

LEMMA StillAbsentNext ==
  ASSUME Sane, Alone, \A c \in Calls : StillAbsent(c), [Next]_vars, NEW c \in Calls
  PROVE  StillAbsent(c)'
  <1> SUFFICES ASSUME pc'[c] \in {"mkdir", "open", "write", "rename"}, ~arg'[c].overwrite
               PROVE  entry'[Target(c)'] = None
    BY DEF StillAbsent
  <1> USE DEF Answer, Goto, files
  <1>1. \/ pc[c] \in {"mkdir", "open", "write", "rename"}
        \/ pc[c] = "exists" /\ CheckExists(c)
    <2>1. ASSUME NEW d \in Calls, Write(d) PROVE <1>1!:
      BY <2>1 DEF Write, CheckExists, MakeFolder, OpenTmp, OpenFails, WriteBlock,
         CloseTmp, WriteFails, Rename, RenameFails, Cleanup, Sane, TypeOK
    <2>2. ASSUME NEW d \in Calls, NEW r \in Requests, Begin(d, r) PROVE <1>1!:
      BY <2>2 DEF Begin, Sane, TypeOK
    <2>3. ASSUME NEW d \in Calls, Registration(d) PROVE <1>1!:
      BY <2>3 DEF Registration, EnsureFn, Unregister, Register, Sane, TypeOK
    <2>4. CASE Crash
      BY <2>4 DEF Crash, InFlight, WriteSteps
    <2>5. CASE UNCHANGED vars \/ \E f \in {"host", "null", "unset"} : InstallFn(f)
      BY <2>5 DEF vars, InstallFn
    <2> QED
      BY <2>1, <2>2, <2>3, <2>4, <2>5 DEF Next
  <1>2. InFlight(c) /\ pc[c] # "idle"
    BY <1>1 DEF InFlight, WriteSteps
  <1>3. arg'[c] = arg[c] /\ Target(c)' = Target(c) /\ Target(c) \in Targets
    BY <1>2, RequestStays, TargetType
  <1>4. entry[Target(c)] = None
    <2>1. CASE pc[c] = "exists"
      BY <1>1, <1>3, <2>1 DEF CheckExists, Sane, TypeOK
    <2>2. CASE pc[c] # "exists"
      BY <1>1, <1>3, <2>2 DEF StillAbsent
    <2> QED
      BY <2>1, <2>2
  <1>5. entry'[Target(c)] = entry[Target(c)]
    <2>1. ASSUME NEW d \in Calls, Rename(d) PROVE entry'[Target(c)] = entry[Target(c)]
      <3>1. d # c
        BY <2>1 DEF Rename, Sane, TypeOK
      <3>2. InFlight(d)
        BY <2>1 DEF Rename, InFlight, WriteSteps
      <3>3. Target(d) # Target(c)
        BY <1>2, <3>1, <3>2 DEF Alone
      <3> QED
        BY <1>3, <2>1, <3>3 DEF Rename, Sane, TypeOK
    <2>2. ASSUME NEW d \in Calls, Write(d), ~Rename(d) PROVE entry' = entry
      BY <2>2 DEF Write, CheckExists, MakeFolder, OpenTmp, OpenFails, WriteBlock,
         CloseTmp, WriteFails, RenameFails, Cleanup
    <2>3. ASSUME NEW d \in Calls, Registration(d) PROVE entry' = entry
      BY <2>3 DEF Registration, EnsureFn, Unregister, Register
    <2> QED
      BY <2>1, <2>2, <2>3 DEF Next, Begin, InstallFn, Crash, vars
  <1> QED
    BY <1>3, <1>4, <1>5

\* The README's promise, for clients with one save of an artifact in flight:
\* no artifact is replaced by a request that did not ask to overwrite it.
THEOREM NeverOverwritesUnasked == Serial /\ Spec => RefusesToOverwrite
  <1> DEFINE Inv == Serial => FileInv /\ \A c \in Calls : StillAbsent(c)
             Refuses == \A c \in Calls :
                          Rename(c) => entry[Target(c)] = None \/ arg[c].overwrite
  <1>1. Init => Inv
    BY FileInit DEF Init, StillAbsent
  <1>2. Sane /\ Inv /\ [Next]_vars => Inv'
    BY FileNext, StillAbsentNext DEF FileInv
  <1>3. ASSUME Serial PROVE Sane /\ Inv /\ [Next]_vars => [Refuses]_vars
    BY <1>3, TargetType DEF Rename, StillAbsent, InFlight, WriteSteps
  <1> HIDE DEF Inv
  <1>4. Spec => []Inv
    BY <1>1, <1>2, SaneAlways, PTL DEF Spec
  <1>5. CASE Serial
    <2>1. Spec => [][Refuses]_vars
      BY <1>3, <1>4, <1>5, SaneAlways, PTL DEF Spec
    <2> QED
      BY <2>1 DEF RefusesToOverwrite
  <1>6. CASE ~Serial
    BY <1>6
  <1> QED
    BY <1>5, <1>6

-----------------------------------------------------------------------------
(***************************************************************************)
(* One artifact at a time: what holds of an artifact whose own saves do    *)
(* not overlap, whatever happens to the others                             *)
(***************************************************************************)

\* A name is bound to a file only by the call that makes it, and the file of a
\* <target>.tmp is never the visible one: however saves overlap.
Fresh == (\A c \in Calls : Unopened(c)) /\ Apart

LEMMA FreshInit == Init => Fresh
  BY NoneIsNothing DEF Init, Fresh, Unopened, Apart

LEMMA FreshNext == Sane /\ Fresh /\ [Next]_vars => Fresh'
  <1> SUFFICES ASSUME Sane, Fresh, [Next]_vars PROVE Fresh'
    OBVIOUS
  <1> USE DEF Answer, Goto, files
  <1>1. ASSUME UNCHANGED <<entry, tmp, off>>,
               \A c \in Calls :
                 /\ pc'[c] \in {"idle", "exists", "mkdir", "open"} =>
                      pc[c] \in {"idle", "exists", "mkdir", "open"}
                 /\ pc'[c] = "idle" => pc[c] = "idle" /\ arg'[c] = arg[c]
        PROVE  Fresh'
    BY <1>1 DEF Fresh, Unopened, Apart
  <1>2. ASSUME NEW d \in Calls, OpenTmp(d) PROVE Fresh'
    <2> DEFINE u == Target(d)
               inode == IF tmp[u] = None THEN d ELSE tmp[u]
    <2>1. InFlight(d) /\ pc[d] = "open"
      BY <1>2 DEF OpenTmp, InFlight, WriteSteps, RegisterSteps
    <2>2. u \in Targets
      BY <2>1, TargetType
    <2>3. /\ tmp' = [tmp EXCEPT ![u] = inode]
          /\ pc' = [pc EXCEPT ![d] = "write"]
          /\ UNCHANGED <<arg, entry, off>>
      BY <1>2, <2>1, TargetType DEF OpenTmp
    <2>4. inode # None /\ \A t \in Targets : entry[t] # inode /\ (t # u => tmp[t] # inode)
      BY <2>1, <2>2, NoneIsNothing DEF Fresh, Apart, Unopened
    <2>5. \A c \in Calls \ {d} :
            c # inode \/ pc[c] \notin {"idle", "exists", "mkdir", "open"}
      BY <2>2 DEF Fresh, Unopened
    <2> HIDE DEF inode, u
    <2>6. ASSUME NEW c \in Calls PROVE Unopened(c)'
      BY <2>3, <2>5 DEF Fresh, Unopened, Sane, TypeOK
    <2>7. Apart'
      BY <2>2, <2>3, <2>4 DEF Fresh, Apart, Sane, TypeOK
    <2> QED
      BY <2>6, <2>7 DEF Fresh
  <1>3. ASSUME NEW d \in Calls, WriteBlock(d) PROVE Fresh'
    BY <1>3 DEF WriteBlock, Fresh, Unopened, Apart, Sane, TypeOK
  <1>4. ASSUME NEW d \in Calls, Rename(d) \/ Cleanup(d) PROVE Fresh'
    <2> DEFINE u == Target(d)
    <2>1. InFlight(d)
      BY <1>4 DEF Rename, Cleanup, InFlight, WriteSteps
    <2>2. u \in Targets /\ TmpOf(d) = u
      BY <2>1, TargetType
    <2>3. /\ UNCHANGED <<arg, off>>
          /\ \A c \in Calls : pc'[c] \in {"idle", "exists", "mkdir", "open"} => pc[c] = pc'[c]
          /\ \A t \in Targets : t # u => entry'[t] = entry[t] /\ tmp'[t] = tmp[t]
          /\ tmp'[u] \in {tmp[u], None}
          /\ entry'[u] = entry[u] \/ (entry'[u] = tmp[u] /\ tmp'[u] = None)
      BY <1>4, <2>2 DEF Rename, Cleanup, Sane, TypeOK
    <2> HIDE DEF u
    <2>4. ASSUME NEW c \in Calls PROVE Unopened(c)'
      BY <2>2, <2>3, NoneIsNothing DEF Fresh, Unopened
    <2>5. Apart'
      BY <2>2, <2>3 DEF Fresh, Apart
    <2> QED
      BY <2>4, <2>5 DEF Fresh
  <1>5. ASSUME NEW d \in Calls, NEW r \in Requests, Begin(d, r) PROVE Fresh'
    BY <1>5 DEF Begin, Fresh, Unopened, Apart, Sane, TypeOK
  <1>6. ASSUME NEW d \in Calls,
               CheckExists(d) \/ MakeFolder(d) \/ OpenFails(d) \/ CloseTmp(d)
                 \/ WriteFails(d) \/ RenameFails(d)
        PROVE  Fresh'
    BY <1>1, <1>6 DEF CheckExists, MakeFolder, OpenFails, CloseTmp, WriteFails,
       RenameFails, Sane, TypeOK
  <1>7. ASSUME NEW d \in Calls, Registration(d) PROVE Fresh'
    BY <1>1, <1>7 DEF Registration, EnsureFn, Unregister, Register, Sane, TypeOK
  <1>8. ASSUME NEW f \in {"host", "null", "unset"}, InstallFn(f) PROVE Fresh'
    BY <1>1, <1>8 DEF InstallFn
  <1>9. CASE Crash
    BY <1>1, <1>9 DEF Crash, InFlight, WriteSteps, RegisterSteps
  <1>10. CASE UNCHANGED vars
    BY <1>1, <1>10 DEF vars
  <1> QED
    BY <1>2, <1>3, <1>4, <1>5, <1>6, <1>7, <1>8, <1>9, <1>10 DEF Next, Write

\* Only calls for a target bind and unbind its names.
LEMMA NamesOf ==
  ASSUME Sane, [Next]_vars, NEW t \in Targets
  PROVE  /\ tmp'[t] # tmp[t] => \E d \in CallsFor(t) : OpenTmp(d) \/ Rename(d) \/ Cleanup(d)
         /\ entry'[t] # entry[t] => \E d \in CallsFor(t) : Rename(d)
  <1> USE DEF Answer, Goto, files
  <1>1. ASSUME NEW d \in Calls, OpenTmp(d) \/ Rename(d) \/ Cleanup(d), t # Target(d)
        PROVE  tmp'[t] = tmp[t] /\ entry'[t] = entry[t]
    <2>1. InFlight(d)
      BY <1>1 DEF OpenTmp, Rename, Cleanup, InFlight, WriteSteps
    <2>2. TmpOf(d) = Target(d)
      BY <2>1, TargetType
    <2> QED
      BY <1>1, <2>2 DEF OpenTmp, Rename, Cleanup, Sane, TypeOK
  <1>2. ASSUME NEW d \in Calls, OpenTmp(d) \/ Rename(d) \/ Cleanup(d), t = Target(d)
        PROVE  d \in CallsFor(t)
    <2>1. InFlight(d)
      BY <1>2 DEF OpenTmp, Rename, Cleanup, InFlight, WriteSteps
    <2> QED
      BY <1>2, <2>1, TargetType, NoneIsNothing DEF CallsFor, For
  <1>3. ASSUME NEW d \in Calls, Write(d), ~OpenTmp(d), ~Rename(d), ~Cleanup(d)
        PROVE  UNCHANGED <<entry, tmp>>
    BY <1>3 DEF Write, CheckExists, MakeFolder, OpenFails, WriteBlock, CloseTmp,
       WriteFails, RenameFails
  <1>4. ASSUME NEW d \in Calls, Registration(d) PROVE UNCHANGED <<entry, tmp>>
    BY <1>4 DEF Registration, EnsureFn, Unregister, Register
  <1>5. ASSUME NEW d \in Calls, OpenTmp(d) \/ Cleanup(d) PROVE entry' = entry
    BY <1>5 DEF OpenTmp, Cleanup
  <1> QED
    BY <1>1, <1>2, <1>3, <1>4, <1>5 DEF Next, Begin, InstallFn, Crash, vars

\* A file is written by calls for its target, and by those that have it open.
LEMMA BytesOf ==
  ASSUME Sane, Phases, Owned, [Next]_vars, NEW t \in Targets, NEW i \in CallsFor(t),
         data'[i] # data[i]
  PROVE  \E d \in CallsFor(t) :
           \/ OpenTmp(d) /\ i = IF tmp[t] = None THEN d ELSE tmp[t]
           \/ WriteBlock(d) /\ i = handle[d]
  <1> USE DEF Answer, Goto, files
  <1>1. ASSUME NEW d \in Calls, OpenTmp(d) PROVE d \in CallsFor(t) /\ i = IF tmp[t] = None THEN d ELSE tmp[t]
    <2> DEFINE u == Target(d)
    <2>1. InFlight(d)
      BY <1>1 DEF OpenTmp, InFlight, WriteSteps
    <2>2. u \in Targets /\ TmpOf(d) = u /\ d \in CallsFor(u)
      BY <2>1, TargetType, NoneIsNothing DEF CallsFor, For
    <2>3. i = IF tmp[u] = None THEN d ELSE tmp[u]
      BY <1>1, <2>2 DEF OpenTmp, Sane, TypeOK, Inodes, CallsFor
    <2>4. i \in CallsFor(u)
      BY <2>2, <2>3 DEF Owned
    <2>5. u = t
      BY <2>4 DEF CallsFor, For
    <2> QED
      BY <2>2, <2>3, <2>5
  <1>2. ASSUME NEW d \in Calls, WriteBlock(d) PROVE d \in CallsFor(t) /\ i = handle[d]
    <2>1. pc[d] = "write" /\ i = handle[d]
      BY <1>2 DEF WriteBlock, Sane, TypeOK, Inodes, CallsFor
    <2>2. PICK u \in Targets : d \in CallsFor(u) /\ i \in CallsFor(u)
      BY <2>1 DEF Owned
    <2> QED
      BY <2>1, <2>2 DEF CallsFor, For
  <1>3. ASSUME NEW d \in Calls, Write(d), ~OpenTmp(d), ~WriteBlock(d) PROVE data' = data
    BY <1>3 DEF Write, CheckExists, MakeFolder, OpenFails, CloseTmp, WriteFails, Rename,
       RenameFails, Cleanup
  <1>4. ASSUME NEW d \in Calls, Registration(d) PROVE data' = data
    BY <1>4 DEF Registration, EnsureFn, Unregister, Register
  <1> QED
    BY <1>1, <1>2, <1>3, <1>4 DEF Next, Begin, InstallFn, Crash, vars

\* While nobody else works on a target, the temporary file of a call for it holds
\* what the call has written; what happens to other targets does not matter.
AloneAt(t) ==
  \A c, d \in CallsFor(t) : InFlight(c) /\ InFlight(d) => c = d

LEMMA WritesStay ==
  ASSUME Sane, Phases, Owned, Fresh, [Next]_vars, NEW t \in Targets, AloneAt(t),
         \A c \in CallsFor(t) : Writes(c), NEW c \in Calls, For(c, t)'
  PROVE  Writes(c)'
  <1> SUFFICES ASSUME pc'[c] \in {"write", "rename"} PROVE Writes(c)'
    BY DEF Writes
  <1> USE DEF Answer, Goto, files
  <1>1. \/ OpenTmp(c)
        \/ WriteBlock(c)
        \/ CloseTmp(c)
        \/ pc[c] = pc'[c] /\ handle'[c] = handle[c] /\ off'[c] = off[c]
    <2>1. ASSUME NEW d \in Calls, NEW r \in Requests, Begin(d, r) PROVE <1>1!:
      BY <2>1 DEF Begin, Sane, TypeOK
    <2>2. ASSUME NEW d \in Calls, Write(d) PROVE <1>1!:
      BY <2>2 DEF Write, CheckExists, MakeFolder, OpenTmp, OpenFails, WriteBlock,
         CloseTmp, WriteFails, Rename, RenameFails, Cleanup, Sane, TypeOK
    <2>3. ASSUME NEW d \in Calls, Registration(d) PROVE <1>1!:
      BY <2>3 DEF Registration, EnsureFn, Unregister, Register, Sane, TypeOK
    <2>4. CASE Crash
      BY <2>4 DEF Crash, InFlight, WriteSteps
    <2> QED
      BY <2>1, <2>2, <2>3, <2>4 DEF Next, InstallFn, vars
  <1>2. pc[c] \in {"open", "write", "rename"} /\ InFlight(c)
    BY <1>1 DEF OpenTmp, WriteBlock, CloseTmp, InFlight, WriteSteps
  <1>3. arg'[c] = arg[c] /\ Target(c)' = Target(c)
    BY <1>2, RequestStays
  <1>4. c \in CallsFor(t) /\ Target(c) = t /\ TmpOf(c) = t
    BY <1>2, <1>3, TargetType DEF CallsFor, For
  <1>5. CASE OpenTmp(c)
    <2> DEFINE inode == IF tmp[t] = None THEN c ELSE tmp[t]
    <2>1. /\ tmp' = [tmp EXCEPT ![t] = inode]
          /\ data' = [data EXCEPT ![inode] = Empty]
          /\ handle' = [handle EXCEPT ![c] = inode]
          /\ pc'[c] = "write" /\ off' = off /\ pc[c] = "open"
      BY <1>4, <1>5 DEF OpenTmp, Sane, TypeOK
    <2>2. inode \in Inodes
      BY DEF Sane, TypeOK, Inodes
    <2>3. off'[c] = 0
      BY <2>1 DEF Fresh, Unopened
    <2>4. Empty = Prefix(c, 0)
      BY WriterConstants DEF Empty, Prefix, Blocks
    <2> HIDE DEF inode
    <2>5. handle'[c] = inode /\ tmp'[t] = inode /\ data'[inode] = Prefix(c, 0)
      BY <2>1, <2>2, <2>4 DEF Sane, TypeOK
    <2> QED
      BY <1>3, <1>4, <2>1, <2>3, <2>5 DEF Writes, Prefix
  <1>6. CASE WriteBlock(c)
    <2>1. /\ pc[c] = "write" /\ pc'[c] = "write"
          /\ UNCHANGED <<tmp, handle>>
          /\ data' = [data EXCEPT ![handle[c]] = [@ EXCEPT ![off[c] + 1] = c]]
          /\ off' = [off EXCEPT ![c] = @ + 1]
      BY <1>6 DEF WriteBlock
    <2>2. handle[c] = tmp[t] /\ tmp[t] \in Inodes /\ data[tmp[t]] = Prefix(c, off[c])
      BY <1>4, <2>1 DEF Writes, Sane, TypeOK
    <2>3. off[c] \in Nat /\ off'[c] = off[c] + 1
      BY <2>1, WriterConstants DEF Sane, TypeOK
    <2>4. data'[tmp[t]] = [Prefix(c, off[c]) EXCEPT ![off[c] + 1] = c]
      BY <2>1, <2>2 DEF Sane, TypeOK
    <2>5. [Prefix(c, off[c]) EXCEPT ![off[c] + 1] = c] = Prefix(c, off[c] + 1)
      BY <2>3, PrefixGrows
    <2> QED
      BY <1>3, <1>4, <2>1, <2>2, <2>3, <2>4, <2>5 DEF Writes, Prefix
  <1>7. CASE CloseTmp(c)
    <2>1. /\ pc[c] = "write" /\ pc'[c] = "rename" /\ off[c] = arg[c].size
          /\ UNCHANGED <<tmp, data>>
      BY <1>7 DEF CloseTmp, Sane, TypeOK
    <2>2. handle[c] = tmp[t] /\ handle[c] # None /\ data[tmp[t]] = Prefix(c, arg[c].size)
      BY <1>4, <2>1 DEF Writes, Sane
    <2> QED
      BY <1>3, <1>4, <2>1, <2>2 DEF Writes, Prefix, Content
  <1>8. CASE ~OpenTmp(c) /\ ~WriteBlock(c) /\ ~CloseTmp(c)
    <2>1. pc[c] = pc'[c] /\ handle'[c] = handle[c] /\ off'[c] = off[c]
      BY <1>1, <1>8
    <2>2. ASSUME NEW d \in CallsFor(t), OpenTmp(d) \/ WriteBlock(d) \/ Rename(d) \/ Cleanup(d)
          PROVE  FALSE
      <3>1. d \in Calls /\ InFlight(d)
        BY <2>2 DEF CallsFor, OpenTmp, WriteBlock, Rename, Cleanup, InFlight, WriteSteps
      <3>2. d = c
        BY <1>2, <1>4, <3>1 DEF AloneAt
      <3> QED
        BY <1>8, <2>1, <2>2, <3>2 DEF Rename, Cleanup, Sane, TypeOK
    <2>3. tmp'[t] = tmp[t]
      BY <2>2, NamesOf
    <2>4. tmp[t] # None /\ tmp[t] \in CallsFor(t)
      <3>1. tmp[t] # None
        BY <1>2, <1>4, <2>1 DEF Writes, Sane
      <3> QED
        BY <3>1 DEF Owned
    <2>5. data'[tmp[t]] = data[tmp[t]]
      BY <2>2, <2>4, BytesOf
    <2> QED
      BY <1>3, <1>4, <2>1, <2>3, <2>5 DEF Writes, Prefix, Content
  <1> QED
    BY <1>5, <1>6, <1>7, <1>8

\* Without a rename for it, an artifact keeps its file and the file its bytes.
LEMMA ArtifactStays ==
  ASSUME Sane, Phases, Owned, Fresh, [Next]_vars, NEW t \in Targets,
         \A c \in CallsFor(t) : Writes(c),
         entry[t] # None, \A d \in CallsFor(t) : ~Rename(d)
  PROVE  entry'[t] = entry[t] /\ data'[entry[t]] = data[entry[t]]
  <1>1. entry'[t] = entry[t]
    BY NamesOf
  <1>2. entry[t] \in CallsFor(t)
    BY DEF Owned
  <1>3. ASSUME NEW d \in CallsFor(t), OpenTmp(d) PROVE entry[t] # IF tmp[t] = None THEN d ELSE tmp[t]
    BY <1>3 DEF OpenTmp, CallsFor, Fresh, Unopened, Apart
  <1>4. ASSUME NEW d \in CallsFor(t), WriteBlock(d) PROVE entry[t] # handle[d]
    <2>1. handle[d] = tmp[t] /\ handle[d] # None
      BY <1>4 DEF WriteBlock, Writes, CallsFor, For, Sane
    <2> QED
      BY <2>1 DEF Fresh, Apart
  <1> QED
    BY <1>1, <1>2, <1>3, <1>4, BytesOf

\* A rename of a call that works alone makes its whole content visible.
LEMMA RenameLands ==
  ASSUME Sane, NEW t \in Targets, NEW c \in CallsFor(t), Writes(c), Rename(c)
  PROVE  entry'[t] # None /\ data'[entry'[t]] = Content(c)
  <1>1. pc[c] = "rename" /\ Target(c) = t /\ TmpOf(c) = t
    BY TargetType DEF Rename, CallsFor, For, InFlight, WriteSteps
  <1> QED
    BY <1>1 DEF Rename, Writes, Sane, TypeOK, files

-----------------------------------------------------------------------------
(***************************************************************************)
(* The writer implements ArtifactStore, for clients that have one save of  *)
(* an artifact in flight.  One lemma per abstract step says which steps of *)
(* the writer take it; the rest stutter.                                   *)
(***************************************************************************)


\* What an abstract step sees of a call, case by case
LEMMA OutcomeIs ==
  ASSUME NEW c \in Calls
  PROVE  /\ result[c] \in {"OK", "REGISTER_FAILED"} => Outcome(c) = "stored"
         /\ result[c] = "FILE_EXISTS" => Outcome(c) = "refused"
         /\ result[c] \in {"INVALID_NAME", "WRITE_FAILED"} => Outcome(c) = "failed"
         /\ result[c] = "NONE" /\ pc[c] = "dead" => Outcome(c) = "failed"
         /\ result[c] = "NONE" /\ pc[c] = "idle" => Outcome(c) = "idle"
         /\ result[c] = "NONE" /\ pc[c] \notin {"idle", "dead"} => Outcome(c) = "pending"
  BY DEF Outcome

LEMMA OutcomeIsNext ==
  ASSUME NEW c \in Calls
  PROVE  /\ result'[c] \in {"OK", "REGISTER_FAILED"} => Outcome(c)' = "stored"
         /\ result'[c] = "FILE_EXISTS" => Outcome(c)' = "refused"
         /\ result'[c] \in {"INVALID_NAME", "WRITE_FAILED"} => Outcome(c)' = "failed"
         /\ result'[c] = "NONE" /\ pc'[c] = "dead" => Outcome(c)' = "failed"
         /\ result'[c] = "NONE" /\ pc'[c] \notin {"idle", "dead"} => Outcome(c)' = "pending"
  BY DEF Outcome

LEMMA OutcomeKept ==
  ASSUME NEW c \in Calls, pc'[c] = pc[c], result'[c] = result[c]
  PROVE  Outcome(c)' = Outcome(c)
  BY DEF Outcome

\* The store of the abstract specification, and what its clients were told
StoredContent == [t \in Targets |-> IF entry[t] = None THEN None ELSE data[entry[t]]]
Outcomes == [c \in Calls |-> Outcome(c)]
AbstractVars == <<StoredContent, arg, Outcomes>>

LEMMA OthersKept ==
  ASSUME NEW d \in Calls, \A c \in Calls \ {d} : pc'[c] = pc[c] /\ result'[c] = result[c]
  PROVE  Outcomes' = [Outcomes EXCEPT ![d] = Outcome(d)']
  <1>1. \A c \in Calls : c # d => Outcome(c)' = Outcome(c)
    BY OutcomeKept
  <1>2. Outcomes' = [c \in Calls |-> Outcome(c)']
    BY DEF Outcomes
  <1>3. Outcomes = [c \in Calls |-> Outcome(c)]
    BY DEF Outcomes
  <1> HIDE DEF Outcome
  <1> QED
    BY <1>1, <1>2, <1>3

LEMMA ContentKept ==
  ASSUME entry' = entry,
         \A t \in Targets : entry[t] # None => data'[entry[t]] = data[entry[t]]
  PROVE  StoredContent' = StoredContent
  BY DEF StoredContent

\* A call that runs and has answered nothing is pending.
LEMMA PendingIs ==
  ASSUME Sane, Phases, NEW c \in Calls, pc[c] \in WriteSteps
  PROVE  Outcome(c) = "pending" /\ arg[c] \in Requests /\ Target(c) \in Targets
  <1>1. InFlight(c) /\ pc[c] \notin {"idle", "dead"}
    BY DEF InFlight, WriteSteps
  <1>2. result[c] = "NONE"
    BY DEF Phases, Phase
  <1> QED
    BY <1>1, <1>2, OutcomeIs, TargetType

\* Steps on the way: files come and go, but nothing a client can see
LEMMA StutterStep ==
  ASSUME Sane, Phases, NEW d \in Calls, pc[d] \in WriteSteps, pc'[d] \in WriteSteps,
         \A c \in Calls \ {d} : pc'[c] = pc[c], UNCHANGED <<arg, result>>, StoredContent' = StoredContent
  PROVE  UNCHANGED AbstractVars
  <1>1. Outcome(d)' = Outcome(d)
    <2>1. result'[d] = "NONE" /\ pc'[d] \notin {"idle", "dead"}
      BY DEF Phases, Phase, WriteSteps
    <2> QED
      BY <2>1, PendingIs, OutcomeIsNext
  <1>2. \A c \in Calls : Outcome(c)' = Outcome(c)
    BY <1>1, OutcomeKept
  <1> HIDE DEF Outcome
  <1>3. Outcomes' = Outcomes
    BY <1>2 DEF Outcomes
  <1> QED
    BY <1>3 DEF AbstractVars

\* A call that fails before its rename
LEMMA FailStep ==
  ASSUME Sane, Phases, NEW d \in Calls, pc[d] \in WriteSteps,
         Answer(d, "WRITE_FAILED"), arg' = arg, StoredContent' = StoredContent
  PROVE  Store!StoreNext
  <1>1. Outcome(d) = "pending"
    BY PendingIs
  <1>2. /\ \A c \in Calls \ {d} : pc'[c] = pc[c] /\ result'[c] = result[c]
        /\ result'[d] = "WRITE_FAILED"
    BY DEF Answer, Goto, Sane, TypeOK
  <1>3. Outcome(d)' = "failed" /\ \A c \in Calls \ {d} : Outcome(c)' = Outcome(c)
    BY <1>2, OutcomeIsNext, OutcomeKept
  <1> HIDE DEF Outcome
  <1>4. Store!Fail({d})
    BY <1>1, <1>3 DEF Store!Fail, StoredContent
  <1> QED
    BY <1>4 DEF Store!StoreNext

LEMMA AskStep ==
  ASSUME Sane, Phases, NEW d \in Calls, NEW r \in Requests, Begin(d, r)
  PROVE  Store!StoreNext
  <1>1. Outcome(d) = "idle"
    BY OutcomeIs DEF Begin, Phases, Phase
  <1>2. /\ arg' = [arg EXCEPT ![d] = r]
        /\ \A c \in Calls \ {d} : pc'[c] = pc[c] /\ result'[c] = result[c]
        /\ \/ result'[d] = "INVALID_NAME"
           \/ result'[d] = "NONE" /\ pc'[d] = "exists"
        /\ UNCHANGED <<entry, data>>
    BY DEF Begin, Answer, Goto, files, Sane, TypeOK, Phases, Phase
  <1>3. Outcome(d)' \in {"pending", "failed"}
    BY <1>2, OutcomeIsNext
  <1>4. Outcomes' = [Outcomes EXCEPT ![d] = Outcome(d)']
    BY <1>2, OthersKept
  <1>5. StoredContent' = StoredContent
    BY <1>2, ContentKept
  <1> HIDE DEF Outcome
  <1>6. Store!Ask(d, r)
    BY <1>1, <1>2, <1>3, <1>4, <1>5 DEF Store!Ask, StoredContent, Outcomes
  <1> QED
    BY <1>6 DEF Store!StoreNext

LEMMA RefuseStep ==
  ASSUME Sane, Phases, NEW d \in Calls, CheckExists(d), Answer(d, "FILE_EXISTS")
  PROVE  Store!StoreNext
  <1>1. pc[d] \in WriteSteps
    BY DEF CheckExists, WriteSteps
  <1>2. Outcome(d) = "pending" /\ arg[d] \in Requests /\ Target(d) \in Targets
    BY <1>1, PendingIs
  <1>3. /\ \A c \in Calls \ {d} : pc'[c] = pc[c] /\ result'[c] = result[c]
        /\ result'[d] = "FILE_EXISTS" /\ pc'[d] = "done"
        /\ UNCHANGED <<arg, entry, data>>
    BY DEF CheckExists, Answer, Goto, files, Sane, TypeOK
  <1>4. entry[Target(d)] # None /\ ~arg[d].overwrite
    BY <1>3 DEF CheckExists, Goto, Sane, TypeOK
  <1>5. StoredContent[Target(d)] # None
    <2>1. data[entry[Target(d)]] \in [Blocks -> Calls \union {None}]
      BY <1>2, <1>4 DEF Sane, TypeOK
    <2> QED
      BY <1>2, <1>4, <2>1, NoContent DEF StoredContent
  <1>6. Outcomes' = [Outcomes EXCEPT ![d] = "refused"]
    BY <1>3, OthersKept, OutcomeIsNext
  <1>7. StoredContent' = StoredContent
    BY <1>3, ContentKept
  <1> HIDE DEF Outcome
  <1>8. Store!Refuse(d)
    BY <1>2, <1>3, <1>4, <1>5, <1>6, <1>7 DEF Store!Refuse, StoredContent, Outcomes, Target
  <1> QED
    BY <1>8 DEF Store!StoreNext

LEMMA PutStep ==
  ASSUME Sane, Phases, FileInv, NEW d \in Calls, StillAbsent(d), Rename(d)
  PROVE  Store!StoreNext
  <1>1. pc[d] \in WriteSteps /\ pc[d] = "rename"
    BY DEF Rename, WriteSteps
  <1>2. Outcome(d) = "pending" /\ arg[d] \in Requests /\ Target(d) \in Targets
    BY <1>1, PendingIs
  <1>3. tmp[Target(d)] # None /\ data[tmp[Target(d)]] = Content(d)
    BY <1>1 DEF FileInv, Writes
  <1>4. /\ \A c \in Calls \ {d} : pc'[c] = pc[c] /\ result'[c] = result[c]
        /\ result'[d] = "OK"
        /\ entry' = [entry EXCEPT ![Target(d)] = tmp[Target(d)]]
        /\ UNCHANGED <<arg, data>>
    BY DEF Rename, TmpOf, Goto, Sane, TypeOK
  <1>5. StoredContent' = [StoredContent EXCEPT ![Target(d)] = Content(d)]
    BY <1>2, <1>3, <1>4 DEF StoredContent, Sane, TypeOK
  <1>6. StoredContent[Target(d)] = None \/ arg[d].overwrite
    BY <1>1, <1>2 DEF StillAbsent, StoredContent
  <1>7. Outcomes' = [Outcomes EXCEPT ![d] = "stored"]
    BY <1>4, OthersKept, OutcomeIsNext
  <1> HIDE DEF Outcome
  <1>8. Store!Put(d)
    BY <1>2, <1>4, <1>5, <1>6, <1>7 DEF Store!Put, StoredContent, Outcomes, Target, Content
  <1> QED
    BY <1>8 DEF Store!StoreNext

\* The death of REAPER fails every call that had stored nothing yet.
LEMMA CrashStep ==
  ASSUME Sane, Phases, Crash
  PROVE  Store!StoreNext
  <1> DEFINE F == {c \in Calls : pc[c] \in WriteSteps}
  <1>1. /\ UNCHANGED <<arg, entry, data, result>>
        /\ pc' = [c \in Calls |-> IF InFlight(c) THEN "dead" ELSE pc[c]]
    BY DEF Crash, files
  <1>2. ASSUME NEW c \in F PROVE Outcome(c) = "pending" /\ Outcome(c)' = "failed"
    <2>1. pc'[c] = "dead" /\ result'[c] = "NONE"
      BY <1>1 DEF InFlight, Phases, Phase
    <2> QED
      BY <2>1, PendingIs, OutcomeIsNext
  <1>3. ASSUME NEW c \in Calls \ F PROVE Outcome(c)' = Outcome(c)
    <2>1. CASE pc[c] \in RegisterSteps
      <3>1. result[c] = "OK" /\ result'[c] = "OK"
        BY <1>1, <2>1 DEF Phases, Phase
      <3> QED
        BY <3>1, OutcomeIs, OutcomeIsNext
    <2>2. CASE pc[c] \notin RegisterSteps
      <3>1. pc'[c] = pc[c] /\ result'[c] = result[c]
        BY <1>1, <2>2 DEF InFlight
      <3> QED
        BY <3>1, OutcomeKept
    <2> QED
      BY <2>1, <2>2
  <1>4. StoredContent' = StoredContent
    BY <1>1, ContentKept
  <1> HIDE DEF Outcome
  <1>5. Store!Fail(F)
    <2>1. \A c \in Calls : Outcome(c)' = IF c \in F THEN "failed" ELSE Outcome(c)
      BY <1>2, <1>3
    <2> HIDE DEF F
    <2>2. F \subseteq Calls
      BY DEF F
    <2> QED
      BY <1>1, <1>2, <1>4, <2>1, <2>2 DEF Store!Fail, StoredContent
  <1> QED
    BY <1>5 DEF Store!StoreNext

LEMMA StoreStep ==
  ASSUME Sane, Phases, FileInv, \A c \in Calls : StillAbsent(c), [Next]_vars
  PROVE  Store!StoreNext \/ UNCHANGED AbstractVars
  <1> USE DEF Goto, files
  <1>1. ASSUME NEW d \in Calls, NEW r \in Requests, Begin(d, r) PROVE Store!StoreNext
    BY <1>1, AskStep
  <1>2. ASSUME NEW d \in Calls, CheckExists(d) PROVE Store!StoreNext \/ UNCHANGED AbstractVars
    <2>1. CASE Answer(d, "FILE_EXISTS")
      BY <1>2, <2>1, RefuseStep
    <2>2. CASE ~Answer(d, "FILE_EXISTS")
      <3>1. /\ pc[d] \in WriteSteps /\ pc'[d] \in WriteSteps
            /\ \A c \in Calls \ {d} : pc'[c] = pc[c]
            /\ UNCHANGED <<arg, result, entry, data>>
        BY <1>2, <2>2 DEF CheckExists, WriteSteps, Sane, TypeOK
      <3> QED
        BY <3>1, ContentKept, StutterStep
    <2> QED
      BY <2>1, <2>2
  <1>3. ASSUME NEW d \in Calls, MakeFolder(d) \/ CloseTmp(d) \/ RenameFails(d)
        PROVE  UNCHANGED AbstractVars
    <2>1. /\ pc[d] \in WriteSteps /\ pc'[d] \in WriteSteps
          /\ \A c \in Calls \ {d} : pc'[c] = pc[c]
          /\ UNCHANGED <<arg, result, entry, data>>
      BY <1>3 DEF MakeFolder, CloseTmp, RenameFails, WriteSteps, Sane, TypeOK
    <2> QED
      BY <2>1, ContentKept, StutterStep
  <1>4. ASSUME NEW d \in Calls, OpenTmp(d) PROVE UNCHANGED AbstractVars
    <2> DEFINE inode == IF tmp[TmpOf(d)] = None THEN d ELSE tmp[TmpOf(d)]
    <2>1. /\ pc[d] \in WriteSteps /\ pc'[d] \in WriteSteps /\ pc[d] = "open"
          /\ \A c \in Calls \ {d} : pc'[c] = pc[c]
          /\ UNCHANGED <<arg, result, entry>>
          /\ data' = [data EXCEPT ![inode] = Empty]
      BY <1>4 DEF OpenTmp, WriteSteps, Sane, TypeOK
    <2>2. TmpOf(d) \in Targets
      BY <2>1, TargetType DEF InFlight
    \* the file that is emptied is not a visible one
    <2>3. \A t \in Targets : entry[t] # inode
      BY <2>1, <2>2 DEF FileInv, Apart, Unopened
    <2> HIDE DEF inode
    <2>4. \A t \in Targets : entry[t] # None => data'[entry[t]] = data[entry[t]]
      BY <2>1, <2>3 DEF Sane, TypeOK
    <2> QED
      BY <2>1, <2>4, ContentKept, StutterStep
  <1>5. ASSUME NEW d \in Calls, WriteBlock(d) PROVE UNCHANGED AbstractVars
    <2>1. /\ pc[d] \in WriteSteps /\ pc[d] = "write"
          /\ UNCHANGED <<pc, arg, result, entry>>
          /\ data' = [data EXCEPT ![handle[d]] = [@ EXCEPT ![off[d] + 1] = d]]
      BY <1>5 DEF WriteBlock, WriteSteps
    <2>2. Target(d) \in Targets /\ handle[d] = tmp[Target(d)] /\ handle[d] # None
      BY <2>1, TargetType DEF InFlight, FileInv, Writes, Sane
    \* the file that is written is not a visible one
    <2>3. \A t \in Targets : entry[t] # handle[d]
      BY <2>2 DEF FileInv, Apart
    <2>4. \A t \in Targets : entry[t] # None => data'[entry[t]] = data[entry[t]]
      BY <2>1, <2>3 DEF Sane, TypeOK
    <2> QED
      BY <2>1, <2>4, ContentKept, StutterStep
  <1>6. ASSUME NEW d \in Calls, OpenFails(d) \/ WriteFails(d) \/ Cleanup(d)
        PROVE  Store!StoreNext
    <2>1. /\ pc[d] \in WriteSteps
          /\ Answer(d, "WRITE_FAILED")
          /\ UNCHANGED <<arg, entry, data>>
      BY <1>6 DEF OpenFails, WriteFails, Cleanup, WriteSteps
    <2> QED
      BY <2>1, ContentKept, FailStep
  <1>7. ASSUME NEW d \in Calls, Rename(d) PROVE Store!StoreNext
    BY <1>7, PutStep
  <1>8. ASSUME NEW d \in Calls, Registration(d) PROVE UNCHANGED AbstractVars
    <2>1. /\ result[d] = "OK"
          /\ result'[d] \in {"OK", "REGISTER_FAILED"}
          /\ \A c \in Calls \ {d} : pc'[c] = pc[c] /\ result'[c] = result[c]
          /\ UNCHANGED <<arg, entry, data>>
      BY <1>8 DEF Registration, EnsureFn, Unregister, Register, Answer, RegisterSteps,
         Sane, TypeOK, Phases, Phase
    <2>2. \A c \in Calls : Outcome(c)' = Outcome(c)
      BY <2>1, OutcomeIs, OutcomeIsNext, OutcomeKept
    <2> HIDE DEF Outcome
    <2> QED
      BY <2>1, <2>2, ContentKept DEF AbstractVars, Outcomes
  <1>9. ASSUME NEW f \in {"host", "null", "unset"}, InstallFn(f) PROVE UNCHANGED AbstractVars
    <2>1. UNCHANGED <<pc, result, arg, entry, data>>
      BY <1>9 DEF InstallFn
    <2> QED
      BY <2>1, ContentKept, OutcomeKept DEF AbstractVars, Outcomes
  <1>10. CASE Crash
    BY <1>10, CrashStep
  <1>11. CASE UNCHANGED vars
    <2>1. UNCHANGED <<pc, result, arg, entry, data>>
      BY <1>11 DEF vars
    <2> QED
      BY <2>1, ContentKept, OutcomeKept DEF AbstractVars, Outcomes
  <1> QED
    BY <1>1, <1>2, <1>3, <1>4, <1>5, <1>6, <1>7, <1>8, <1>9, <1>10, <1>11 DEF Next, Write

\* For clients with one save of an artifact in flight the writer is a store of
\* whole contents: a save takes effect at its rename, in one step, and a save
\* that is refused, fails or dies has changed nothing a client can see.
THEOREM WriterRefinesStore == Serial /\ Spec => ImplementsStore
  <1> DEFINE Inv == Serial => FileInv /\ \A c \in Calls : StillAbsent(c)
  <1>1. Init => Store!StoreInit
    BY DEF Init, Store!StoreInit, Outcome
  <1>2. Init => Inv
    BY FileInit DEF Init, StillAbsent
  <1>3. Sane /\ Inv /\ [Next]_vars => Inv'
    BY FileNext, StillAbsentNext DEF FileInv
  <1>4. ASSUME Serial
        PROVE  Sane /\ Phases /\ Inv /\ [Next]_vars => [Store!StoreNext]_AbstractVars
    BY <1>4, StoreStep
  <1>5. AbstractVars = <<[t \in Targets |-> IF entry[t] = None THEN None ELSE data[entry[t]]],
                         arg, [c \in Calls |-> Outcome(c)]>>
    BY DEF AbstractVars, StoredContent, Outcomes
  <1> HIDE DEF Inv
  <1>6. Spec => []Inv
    BY <1>2, <1>3, SaneAlways, PTL DEF Spec
  <1>7. CASE Serial
    <2>1. Sane /\ Phases /\ Inv /\ [Next]_vars =>
            [Store!StoreNext]_<<[t \in Targets |-> IF entry[t] = None THEN None ELSE data[entry[t]]],
                                arg, [c \in Calls |-> Outcome(c)]>>
      BY <1>4, <1>5, <1>7 DEF AbstractVars, StoredContent, Outcomes
    <2> QED
      BY <1>1, <1>6, <2>1, SaneAlways, PhasesAlways, PTL DEF Spec, ImplementsStore, Store!StoreSpec
  <1>8. CASE ~Serial
    BY <1>8
  <1> QED
    BY <1>7, <1>8

=============================================================================
