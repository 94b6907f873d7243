------------------------ MODULE ArtifactListing_proofs ------------------------
(***************************************************************************)
(* Proofs about a listing beside the saves, for any number of calls,       *)
(* folders, names, disk faults and crashes.  A listing changes nothing of  *)
(* the writer, so what is proved of the writer holds here.                 *)
(***************************************************************************)
EXTENDS ArtifactListing, ArtifactWriter_proofs, FiniteSetTheorems

LEMMA ListingStepsAreWriterSteps == [ListingNext]_listingVars => [Next]_vars
  BY DEF ListingNext, Save, listingVars

\* The writer's invariant holds while a listing runs.
LEMMA WriterStaysSane == ListingSpec => []Sane
  <1>1. ListingInit => Sane
    BY SaneInit DEF ListingInit
  <1>2. Sane /\ [ListingNext]_listingVars => Sane'
    BY SaneNext, ListingStepsAreWriterSteps
  <1> QED
    BY <1>1, <1>2, PTL DEF ListingSpec

Whole(t) == <<t, "whole">>

\* The size of a visible artifact is that of a set of blocks.
LEMMA SizeOfVisible ==
  ASSUME Sane, NEW t \in Targets, entry[t] # None
  PROVE  /\ SizeOf(Whole(t)) = Cardinality({k \in Blocks : data[entry[t]][k] # None})
         /\ SizeOf(Whole(t)) \in 0..MaxSize
  <1> DEFINE filled == {k \in Blocks : data[entry[t]][k] # None}
  <1>1. SizeOf(Whole(t)) = Cardinality(filled)
    BY DEF SizeOf, Inode, Whole
  <1>2. IsFiniteSet(Blocks) /\ Cardinality(Blocks) = MaxSize
    BY FS_Interval, WriterConstants DEF Blocks
  <1>3. Cardinality(filled) \in Nat /\ Cardinality(filled) <= MaxSize
    BY <1>2, FS_Subset, FS_CardinalityType
  <1> QED
    BY <1>1, <1>3, WriterConstants

-----------------------------------------------------------------------------

\* What was visible since the request came is on record, what is asked for its
\* size is still there, and nothing is listed before the request comes.
VisibleInv ==
  /\ stage \in {"idle", "folders", "names", "stat", "done"}
  /\ stage = "idle" => listed = {} /\ atStart = {} /\ status = 0
  /\ ListedWasVisible
  /\ Listing => Visible \subseteq versions
  /\ stage \in {"names", "stat"} => folder \in Kinds
  /\ stage = "stat" =>
       \E t \in Targets : current = Whole(t) /\ entry[t] # None /\ folder = t[1]

LEMMA VisibleInit == ListingInit => VisibleInv
  BY DEF ListingInit, VisibleInv, ListedWasVisible, Listing

LEMMA VisibleUnchanged == UNCHANGED vars => Visible' = Visible
  BY DEF vars, files, Visible, SizeOf, Inode, Whole

LEMMA VisibleNext == Sane /\ VisibleInv /\ [ListingNext]_listingVars => VisibleInv'
  <1> SUFFICES ASSUME Sane, VisibleInv, [ListingNext]_listingVars PROVE VisibleInv'
    OBVIOUS
  <1> USE DEF VisibleInv, ListedWasVisible, Listing
  <1>1. CASE Save
    <2>1. \A t \in Targets : entry[t] # None => entry'[t] # None
      BY <1>1, EntryStays, ListingStepsAreWriterSteps
    <2>2. versions' = IF Listing THEN versions \union Visible' ELSE versions
      BY <1>1 DEF Save
    <2>3. UNCHANGED <<swallowed, atStart>>
      BY <1>1 DEF Save
    <2>4. CASE UNCHANGED lister
      BY <2>1, <2>2, <2>3, <2>4 DEF lister
    <2>5. CASE Listing /\ stage' = "done" /\ listed' = {}
      BY <2>5
    <2> QED
      BY <1>1, <2>4, <2>5 DEF Save
  <1>2. CASE List /\ UNCHANGED vars
    <2>1. Visible' = Visible /\ entry' = entry
      BY <1>2, VisibleUnchanged DEF vars, files
    <2>2. ASSUME NEW filter \in Kinds \union {None, BadKind}, ListBegin(filter)
          PROVE  VisibleInv'
      BY <2>1, <2>2 DEF ListBegin
    <2>3. ASSUME NEW k \in Kinds, OpenFolder(k) PROVE VisibleInv'
      BY <2>1, <2>3 DEF OpenFolder
    <2>4. ASSUME NEW k \in Kinds, OpenFolderFails(k) PROVE VisibleInv'
      BY <2>1, <2>4 DEF OpenFolderFails
    <2>5. ASSUME NEW file \in FilesIn(folder), NextName(file) PROVE VisibleInv'
      <3>1. CASE IsArtifact(file)
        <4>1. \E t \in Targets : file = Whole(t) /\ entry[t] # None /\ folder = t[1]
          BY <3>1 DEF FilesIn, IsArtifact, Whole
        <4> QED
          BY <2>1, <2>5, <3>1, <4>1 DEF NextName, history
      <3>2. CASE ~IsArtifact(file)
        BY <2>1, <2>5, <3>2 DEF NextName, history
      <3> QED
        BY <3>1, <3>2
    <2>6. ASSUME NEW file \in FilesIn(folder), NameFails(file) PROVE VisibleInv'
      BY <2>1, <2>6 DEF NameFails
    <2>7. CASE Stat \/ StatFails
      <3>1. PICK t \in Targets : current = Whole(t) /\ entry[t] # None /\ folder = t[1]
        BY <2>7 DEF Stat, StatFails
      <3>2. <<t, SizeOf(current)>> \in Visible /\ current[1] = t
        BY <3>1 DEF Visible, Whole
      <3>3. CASE Stat
        BY <2>1, <3>2, <3>3 DEF Stat, history
      <3>4. CASE StatFails
        <4>1. /\ listed' = listed \union {<<t, -1>>}
              /\ swallowed' = swallowed \union {t[1]}
              /\ stage = "stat" /\ stage' = "names"
              /\ UNCHANGED <<folder, atStart, versions, status>>
          BY <3>1, <3>2, <3>4 DEF StatFails
        <4> QED
          BY <2>1, <4>1
      <3> QED
        BY <2>7, <3>3, <3>4
    <2>8. CASE FolderEnds
      BY <2>1, <2>8 DEF FolderEnds, Leave, history
    <2>9. CASE IncrementFails
      BY <2>1, <2>9 DEF IncrementFails, Leave
    <2>10. CASE ListEnd
      BY <2>1, <2>10 DEF ListEnd, history
    <2> QED
      BY <1>2, <2>2, <2>3, <2>4, <2>5, <2>6, <2>7, <2>8, <2>9, <2>10 DEF List
  <1>3. CASE UNCHANGED listingVars
    BY <1>3, VisibleUnchanged DEF listingVars, lister, history, vars, files
  <1> QED
    BY <1>1, <1>2, <1>3 DEF ListingNext

LEMMA VisibleAlways == ListingSpec => []VisibleInv
  BY WriterStaysSane, VisibleInit, VisibleNext, PTL DEF ListingSpec

\* However saves overlap, what a listing shows was visible while it was served,
\* with that size: never a temporary file, never a name without a file.  Only a
\* size that could not be asked is shown as -1.
THEOREM ListingIsTruthful == ListingSpec => []ListedWasVisible
  <1>1. VisibleInv => ListedWasVisible
    BY DEF VisibleInv
  <1> QED
    BY <1>1, VisibleAlways, PTL

-----------------------------------------------------------------------------

\* Files are only in folders that exist.
FoldersInv == \A t \in Targets : entry[t] # None \/ tmp[t] # None => t[1] \in folders

LEMMA FoldersNext == Sane /\ FoldersInv /\ [Next]_vars => FoldersInv'
  <1> SUFFICES ASSUME Sane, FoldersInv, [Next]_vars PROVE FoldersInv'
    OBVIOUS
  <1> USE DEF FoldersInv, Answer, Goto, files
  <1>1. ASSUME NEW c \in Calls, OpenTmp(c) PROVE FoldersInv'
    <2>1. TmpOf(c) \in Targets /\ TmpOf(c)[1] \in folders
      <3>1. InFlight(c) /\ arg[c].kind \in folders
        BY <1>1 DEF OpenTmp, InFlight, WriteSteps
      <3>2. Target(c) \in Targets /\ TmpOf(c) = Target(c)
        BY <3>1, TargetType
      <3>3. Target(c)[1] = arg[c].kind
        BY DEF Target
      <3> QED
        BY <3>1, <3>2, <3>3
    <2> QED
      BY <1>1, <2>1 DEF OpenTmp, Sane, TypeOK
  <1>2. ASSUME NEW c \in Calls, Rename(c) \/ Cleanup(c) PROVE FoldersInv'
    <2>1. TmpOf(c) \in Targets /\ Target(c) = TmpOf(c)
      BY <1>2, TargetType DEF Rename, Cleanup, InFlight, WriteSteps
    <2> QED
      BY <1>2, <2>1 DEF Rename, Cleanup, Sane, TypeOK
  <1>3. ASSUME NEW c \in Calls, Write(c), ~OpenTmp(c), ~Rename(c), ~Cleanup(c)
        PROVE  UNCHANGED <<entry, tmp>> /\ folders \subseteq folders'
    BY <1>3 DEF Write, CheckExists, MakeFolder, OpenFails, WriteBlock, CloseTmp,
       WriteFails, RenameFails
  <1>4. ASSUME NEW c \in Calls, Registration(c) PROVE UNCHANGED files
    BY <1>4 DEF Registration, EnsureFn, Unregister, Register
  <1> QED
    BY <1>1, <1>2, <1>3, <1>4 DEF Next, Begin, InstallFn, Crash, vars

Listed(t) == \E size \in 0..MaxSize : <<t, size>> \in listed

\* An artifact that was there when the scan of its folder began is listed, or the
\* iterator still owes it, or its size is asked next, or an error was swallowed.
OwedInv ==
  /\ stage # "done" => status = 0
  /\ atStart \subseteq Targets
  /\ \A t \in atStart :
       /\ entry[t] # None
       /\ t[1] \notin swallowed /\ (stage # "done" \/ status = 200) =>
            \/ Listed(t)
            \/ stage \in {"names", "stat"} /\ folder = t[1] /\ Whole(t) \in owed
            \/ stage = "stat" /\ current = Whole(t)

LEMMA OwedInit == ListingInit => FoldersInv /\ OwedInv
  BY DEF ListingInit, Init, FoldersInv, OwedInv

LEMMA OwedNext ==
  ASSUME Sane, VisibleInv, FoldersInv, OwedInv, [ListingNext]_listingVars
  PROVE  OwedInv'
  <1> USE DEF OwedInv
  <1>1. CASE Save
    <2>1. \A t \in Targets : entry[t] # None => entry'[t] # None
      BY <1>1, EntryStays, ListingStepsAreWriterSteps
    <2>2. UNCHANGED <<swallowed, atStart>>
      BY <1>1 DEF Save
    <2>3. CASE UNCHANGED lister
      BY <2>1, <2>2, <2>3 DEF Listed, lister
    <2>4. CASE Listing /\ stage' = "done" /\ status' = status
      <3>1. status' = 0
        BY <2>4 DEF Listing
      <3> QED
        BY <2>1, <2>2, <2>4, <3>1
    <2> QED
      BY <1>1, <2>3, <2>4 DEF Save
  <1>2. CASE List /\ UNCHANGED vars
    <2> USE DEF Listed
    <2>1. entry' = entry
      BY <1>2 DEF vars, files
    <2>2. ASSUME NEW filter \in Kinds \union {None, BadKind}, ListBegin(filter)
          PROVE  OwedInv'
      BY <2>1, <2>2 DEF ListBegin, VisibleInv
    <2>3. ASSUME NEW k \in Kinds, OpenFolder(k) PROVE OwedInv'
      <3>1. \A t \in atStart : t[1] \notin swallowed => Listed(t)
        BY <2>3 DEF OpenFolder
      <3>2. ASSUME NEW t \in Targets, t[1] = k, entry[t] # None
            PROVE  k \in folders /\ Whole(t) \in FilesIn(k)
        BY <3>2 DEF FoldersInv, FilesIn, Whole
      <3> QED
        BY <2>1, <2>3, <3>1, <3>2 DEF OpenFolder
    <2>4. ASSUME NEW k \in Kinds, OpenFolderFails(k) PROVE OwedInv'
      <3>1. /\ swallowed' = swallowed \union {k}
            /\ atStart' = atStart \union {t \in Targets : t[1] = k /\ entry[t] # None}
            /\ stage = "folders" /\ UNCHANGED <<stage, status, folder, owed, current, listed>>
        BY <2>4 DEF OpenFolderFails
      <3> QED
        BY <2>1, <3>1
    <2>5. ASSUME NEW file \in FilesIn(folder), NextName(file) PROVE OwedInv'
      <3>1. \A t \in Targets : IsArtifact(Whole(t))
        BY DEF IsArtifact, Whole
      <3>2. /\ owed' = owed \ {file} /\ stage = "names"
            /\ UNCHANGED <<status, folder, listed, atStart, swallowed>>
            /\ \/ IsArtifact(file) /\ stage' = "stat" /\ current' = file
               \/ ~IsArtifact(file) /\ UNCHANGED <<stage, current>>
        BY <2>5 DEF NextName, history
      <3>3. ASSUME NEW t \in atStart, t[1] \notin swallowed, ~Listed(t)
            PROVE  \/ folder' = t[1] /\ Whole(t) \in owed'
                   \/ stage' = "stat" /\ current' = Whole(t)
        BY <3>1, <3>2, <3>3
      <3> QED
        BY <2>1, <3>2, <3>3
    <2>6. ASSUME NEW file \in FilesIn(folder), NameFails(file) PROVE OwedInv'
      <3>1. /\ owed' = owed \ {file} /\ swallowed' = swallowed \union {folder}
            /\ stage = "names" /\ UNCHANGED <<stage, status, folder, current, listed, atStart>>
        BY <2>6 DEF NameFails
      <3>2. \A t \in atStart : t[1] \notin swallowed' => Listed(t)
        BY <3>1
      <3> QED
        BY <2>1, <3>1, <3>2
    <2>7. CASE Stat
      <3>1. PICK t \in Targets : current = Whole(t) /\ entry[t] # None
        BY <2>7 DEF Stat, VisibleInv
      <3>2. <<t, SizeOf(Whole(t))>> \in listed' /\ SizeOf(Whole(t)) \in 0..MaxSize
        BY <2>7, <3>1, SizeOfVisible DEF Stat, Whole
      <3>3. \A u \in Targets : Whole(u) = Whole(t) => u = t
        BY DEF Whole
      <3>4. listed \subseteq listed' /\ stage = "stat" /\ stage' = "names"
            /\ UNCHANGED <<status, folder, owed, swallowed, atStart>>
        BY <2>7 DEF Stat, history
      <3> QED
        BY <2>1, <3>1, <3>2, <3>3, <3>4
    <2>8. CASE StatFails
      <3>1. PICK t \in Targets : current = Whole(t) /\ folder = t[1]
        BY <2>8 DEF StatFails, VisibleInv
      <3>2. \A u \in Targets : Whole(u) = Whole(t) => u = t
        BY DEF Whole
      <3>3. /\ listed \subseteq listed' /\ swallowed' = swallowed \union {t[1]}
            /\ stage = "stat" /\ stage' = "names"
            /\ UNCHANGED <<status, folder, owed, atStart>>
        BY <2>8, <3>1 DEF StatFails
      <3> QED
        BY <2>1, <3>1, <3>2, <3>3
    <2>9. CASE FolderEnds
      <3>1. \A t \in atStart : t[1] \notin swallowed => Listed(t)
        BY ZenonT(60), <2>9 DEF FolderEnds, FilesIn, Whole
      <3> QED
        BY <2>1, <2>9, <3>1 DEF FolderEnds, Leave, history
    <2>10. CASE IncrementFails
      <3>1. /\ swallowed' = swallowed \union {folder} /\ stage = "names" /\ stage' = "folders"
            /\ UNCHANGED <<status, listed, atStart>>
        BY <2>10 DEF IncrementFails, Leave
      <3>2. \A t \in atStart : t[1] \notin swallowed' => Listed(t)
        BY <3>1
      <3> QED
        BY <2>1, <3>1, <3>2
    <2>11. CASE ListEnd
      BY <2>1, <2>11 DEF ListEnd, history
    <2> QED
      BY <1>2, <2>2, <2>3, <2>4, <2>5, <2>6, <2>7, <2>8, <2>9, <2>10, <2>11 DEF List
  <1>3. CASE UNCHANGED listingVars
    BY <1>3 DEF listingVars, lister, history, vars, files, Listed
  <1> QED
    BY <1>1, <1>2, <1>3 DEF ListingNext

\* However saves overlap, an answer of 200 lists every artifact that was there
\* when the scan of its folder began, for the folders whose reading met no error.
THEOREM ListingIsComplete == ListingSpec => []NothingVisibleIsMissed
  <1> DEFINE Inv == FoldersInv /\ OwedInv
  <1>1. Sane /\ VisibleInv /\ Inv /\ [ListingNext]_listingVars => Inv'
    BY OwedNext, FoldersNext, ListingStepsAreWriterSteps
  <1>2. Inv => NothingVisibleIsMissed
    <2> SUFFICES ASSUME OwedInv, status = 200, NEW t \in atStart, t[1] \notin swallowed
                 PROVE  Listed(t)
      BY DEF NothingVisibleIsMissed, Listed
    <2>1. stage = "done"
      BY DEF OwedInv
    <2> HIDE DEF Listed
    <2> QED
      BY <2>1 DEF OwedInv
  <1>3. ListingInit => Inv
    BY OwedInit
  <1> HIDE DEF Inv
  <1> QED
    BY <1>1, <1>2, <1>3, WriterStaysSane, VisibleAlways, PTL DEF ListingSpec

-----------------------------------------------------------------------------

\* A whole content fills as many blocks as its request has.
LEMMA ContentSize ==
  ASSUME NEW c \in Calls, arg[c] \in Requests
  PROVE  Cardinality({k \in Blocks : Content(c)[k] # None}) = arg[c].size
  <1>1. arg[c].size \in 0..MaxSize
    BY WriterConstants DEF Requests
  <1>2. {k \in Blocks : Content(c)[k] # None} = 1..arg[c].size
    BY <1>1, NoneIsNothing, WriterConstants DEF Content, Blocks
  <1>3. arg[c].size \in Int /\ arg[c].size >= 0
    BY <1>1, WriterConstants
  <1>4. Cardinality(1..arg[c].size) = arg[c].size
    <2> DEFINE n == arg[c].size
    <2>1. Cardinality(1..n) = IF 1 > n THEN 0 ELSE n - 1 + 1
      BY SMTT(30), <1>3, FS_Interval
    <2> HIDE DEF n
    <2>2. n \in Int /\ n >= 0
      BY <1>3 DEF n
    <2>3. Cardinality(1..n) = n
      BY <2>1, <2>2
    <2> QED
      BY <2>3 DEF n
  <1> QED
    BY <1>2, <1>4

LEMMA SizesNext ==
  ASSUME Sane, FileInv, VisibleInv, ListedSizesAreWhole, [ListingNext]_listingVars
  PROVE  ListedSizesAreWhole'
  <1>1. ASSUME NEW e, NEW c \in Calls, For(c, e[1]), arg[c].size = e[2]
        PROVE  For(c, e[1])' /\ arg'[c].size = e[2]
    <2>1. pc[c] # "idle"
      BY <1>1 DEF For, FileInv, Unopened
    <2> QED
      BY <1>1, <2>1, RequestStays, ListingStepsAreWriterSteps DEF For
  <1>2. ASSUME NEW e \in listed', e[2] # -1
        PROVE  \E c \in Calls : For(c, e[1])' /\ arg'[c].size = e[2]
    <2>1. CASE e \in listed
      BY <1>1, <1>2, <2>1 DEF ListedSizesAreWhole
    <2>2. CASE e \notin listed
      <3>1. Stat /\ UNCHANGED vars
        <4>1. ListingNext /\ ~UNCHANGED listed
          BY <1>2, <2>2 DEF listingVars, lister
        <4>2. CASE Save
          BY <1>2, <2>2, <4>2 DEF Save, lister
        <4>3. CASE StatFails
          BY <1>2, <2>2, <4>3 DEF StatFails
        <4> QED
          BY <4>1, <4>2, <4>3 DEF ListingNext, List, ListBegin, OpenFolder,
             OpenFolderFails, NextName, NameFails, FolderEnds, IncrementFails, ListEnd
      <3>2. PICK t \in Targets : current = Whole(t) /\ entry[t] # None
        BY <3>1 DEF Stat, VisibleInv
      <3>3. e = <<t, SizeOf(Whole(t))>>
        BY <1>2, <2>2, <3>1, <3>2 DEF Stat, Whole
      <3>4. PICK c \in Calls : For(c, t) /\ data[entry[t]] = Content(c)
        BY <3>2 DEF FileInv, TargetsComplete
      <3>5. arg[c] \in Requests
        BY <3>4 DEF For, Sane, TypeOK
      <3>6. SizeOf(Whole(t)) = arg[c].size
        BY <3>2, <3>4, <3>5, SizeOfVisible, ContentSize
      <3> QED
        BY <1>1, <3>3, <3>4, <3>6
    <2> QED
      BY <2>1, <2>2
  <1> QED
    BY <1>2 DEF ListedSizesAreWhole

\* For clients with one save of an artifact in flight a listing shows only sizes
\* of whole contents, through disk faults and crashes.
THEOREM ListedSizesAreTrue == Serial /\ ListingSpec => []ListedSizesAreWhole
  <1> DEFINE Inv == Serial => FileInv /\ ListedSizesAreWhole
  <1>1. ListingInit => Inv
    BY FileInit DEF ListingInit, ListedSizesAreWhole
  <1>2. Sane /\ VisibleInv /\ Inv /\ [ListingNext]_listingVars => Inv'
    BY FileNext, SizesNext, ListingStepsAreWriterSteps
  <1>3. ListingSpec => []Inv
    <2> HIDE DEF Inv
    <2> QED
      BY <1>1, <1>2, WriterStaysSane, VisibleAlways, PTL DEF ListingSpec
  <1>4. CASE Serial
    <2>1. Inv => ListedSizesAreWhole
      BY <1>4
    <2> HIDE DEF Inv
    <2> QED
      BY <1>3, <2>1, PTL
  <1>5. CASE ~Serial
    BY <1>5
  <1> QED
    BY <1>4, <1>5

\* A listing takes nothing from what the writer promises: saves beside it are
\* the writer's own steps, with all that follows from them.
THEOREM ListingRefinesWriter == ListingSpec => Spec
  <1>1. ListingInit => Init
    BY DEF ListingInit
  <1> QED
    BY <1>1, ListingStepsAreWriterSteps, PTL DEF ListingSpec, Spec

THEOREM ListedSavesAreAStore == Serial /\ ListingSpec => ImplementsStore
  BY ListingRefinesWriter, WriterRefinesStore, PTL

=============================================================================
