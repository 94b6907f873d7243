--------------------------- MODULE ArtifactListing ---------------------------
(***************************************************************************)
(* GET /v1/artifacts beside the saves: list_artifacts of                   *)
(* src/host/project_reader.cpp runs on one thread of httplib's pool while  *)
(* the save handlers of ArtifactWriter run on others.  It walks a folder   *)
(* with a directory iterator and asks each file's size by name, so the     *)
(* folder can change between any two of its steps.                         *)
(*                                                                         *)
(* The iterator is readdir's: a name that is in the folder all the while   *)
(* is returned, one that comes or goes meanwhile may or may not be.  The   *)
(* order of folders and names, and modification times, are left out.       *)
(*                                                                         *)
(* With DiskFaults reading may fail too, and scan_folder swallows every    *)
(* error: a folder that cannot be tested or opened is passed over, one     *)
(* whose iterator fails ends there, a name whose type cannot be asked is   *)
(* skipped, and a size that cannot be asked is listed as -1 (2^64 - 1 in   *)
(* the answer).  The answer is 200 all the same.                           *)
(***************************************************************************)
EXTENDS ArtifactWriter, Integers, FiniteSets

CONSTANT BadKind     \* a kind parameter that names no folder

ASSUME ListingConstants == BadKind \notin Kinds /\ None \notin Kinds

VARIABLES
  stage,     \* "idle", "folders", "names", "stat" or "done"
  status,    \* of the answer: 0 before, 200 or 400
  kindsLeft, \* folders still to be scanned
  folder,    \* the kind whose folder is being scanned
  owed,      \* names in the folder when the iterator was opened, not yet met
  met,       \* names the iterator has returned
  current,   \* the name whose size is asked next
  listed,    \* the entries of the answer, as <<target, size>>
  swallowed, \* history: the folders whose reading met an error
  atStart,   \* history: the artifacts visible when the scan of their folder began
  versions   \* history: every <<target, size>> visible since the request came

lister == <<stage, status, kindsLeft, folder, owed, met, current, listed>>
history == <<swallowed, atStart, versions>>
listingVars == <<vars, lister, history>>

-----------------------------------------------------------------------------

\* A file is named by its target and its suffix.
FilesIn(k) ==
  {<<t, "whole">> : t \in {u \in Targets : u[1] = k /\ entry[u] # None}}
    \union {<<t, "tmp">> : t \in {u \in Targets : u[1] = k /\ tmp[u] # None}}

\* The suffix test of scan_folder: <name>.lua.tmp does not end in .lua
IsArtifact_any(file) == file[2] \in {"whole", "tmp"}
IsArtifact(file) == file[2] = "whole"

\* file_size of a name; it is -1 (as an unsigned number) when the name is gone
Inode(file) == IF file[2] = "whole" THEN entry[file[1]] ELSE tmp[file[1]]
SizeOf(file) ==
  IF Inode(file) = None THEN -1
  ELSE Cardinality({k \in Blocks : data[Inode(file)][k] # None})

Visible == {<<t, SizeOf(<<t, "whole">>)>> : t \in {u \in Targets : entry[u] # None}}

\* The request is being served
Listing == stage \in {"folders", "names", "stat"}

ListingInit ==
  /\ Init
  /\ stage = "idle" /\ status = 0
  /\ kindsLeft = {} /\ folder = None
  /\ owed = {} /\ met = {} /\ current = None
  /\ listed = {}
  /\ swallowed = {} /\ atStart = {} /\ versions = {}

\* The request comes with a kind, with none, or with one that names no folder.
ListBegin(filter) ==
  /\ stage = "idle"
  /\ \/ /\ filter = BadKind
        /\ stage' = "done" /\ status' = 400
        /\ UNCHANGED kindsLeft
     \/ /\ filter # BadKind
        /\ stage' = "folders"
        /\ kindsLeft' = IF filter = None THEN Kinds ELSE {filter}
        /\ UNCHANGED status
  /\ versions' = Visible
  /\ UNCHANGED <<folder, owed, met, current, listed, swallowed, atStart>>

\* A missing folder is passed over; an iterator is opened on the others.
OpenFolder(k) ==
  /\ stage = "folders"
  /\ k \in kindsLeft
  /\ kindsLeft' = kindsLeft \ {k}
  /\ \/ k \in folders /\ stage' = "names" /\ folder' = k /\ owed' = FilesIn(k)
     \/ k \notin folders /\ UNCHANGED <<stage, folder, owed>>
  /\ atStart' = atStart \union {t \in Targets : t[1] = k /\ entry[t] # None}
  /\ UNCHANGED <<status, met, current, listed, swallowed, versions>>

\* exists, is_directory or the opening of the iterator fails: as if it were missing.
OpenFolderFails(k) ==
  /\ DiskFaults
  /\ stage = "folders"
  /\ k \in kindsLeft
  /\ kindsLeft' = kindsLeft \ {k}
  /\ swallowed' = swallowed \union {k}
  /\ atStart' = atStart \union {t \in Targets : t[1] = k /\ entry[t] # None}
  /\ UNCHANGED <<stage, status, folder, owed, met, current, listed, versions>>

NextName_hasty(file) ==
  /\ stage = "names"
  /\ file \in FilesIn(folder) \ met
  /\ met' = met \union FilesIn(folder)
  /\ owed' = {}
  /\ \/ IsArtifact(file) /\ stage' = "stat" /\ current' = file
     \/ ~IsArtifact(file) /\ UNCHANGED <<stage, current>>
  /\ UNCHANGED <<status, kindsLeft, folder, listed, history>>

\* The iterator returns a name; a file that is no artifact is passed over.
NextName(file) ==
  /\ stage = "names"
  /\ file \in FilesIn(folder) \ met
  /\ met' = met \union {file}
  /\ owed' = owed \ {file}
  /\ \/ IsArtifact(file) /\ stage' = "stat" /\ current' = file
     \/ ~IsArtifact(file) /\ UNCHANGED <<stage, current>>
  /\ UNCHANGED <<status, kindsLeft, folder, listed, history>>

\* The file system does not say with the name what it is, and cannot be asked.
NameFails(file) ==
  /\ DiskFaults
  /\ stage = "names"
  /\ file \in FilesIn(folder) \ met
  /\ met' = met \union {file}
  /\ owed' = owed \ {file}
  /\ swallowed' = swallowed \union {folder}
  /\ UNCHANGED <<stage, status, kindsLeft, folder, current, listed, atStart, versions>>

Stat ==
  /\ stage = "stat"
  /\ listed' = listed \union {<<current[1], SizeOf(current)>>}
  /\ stage' = "names" /\ current' = None
  /\ UNCHANGED <<status, kindsLeft, folder, owed, met, history>>

StatFails ==
  /\ DiskFaults
  /\ stage = "stat"
  /\ listed' = listed \union {<<current[1], -1>>}
  /\ stage' = "names" /\ current' = None
  /\ swallowed' = swallowed \union {folder}
  /\ UNCHANGED <<status, kindsLeft, folder, owed, met, atStart, versions>>

\* The iterator is gone, and with it what it had met.
Leave ==
  /\ stage' = "folders"
  /\ folder' = None /\ owed' = {} /\ met' = {}

\* The iterator ends when it owes no name that is still there.
FolderEnds ==
  /\ stage = "names"
  /\ owed \intersect FilesIn(folder) = {}
  /\ Leave
  /\ UNCHANGED <<status, kindsLeft, current, listed, history>>

\* increment fails: the loop ends as if the folder were at its end.
IncrementFails ==
  /\ DiskFaults
  /\ stage = "names"
  /\ Leave
  /\ swallowed' = swallowed \union {folder}
  /\ UNCHANGED <<status, kindsLeft, current, listed, atStart, versions>>

ListEnd ==
  /\ stage = "folders"
  /\ kindsLeft = {}
  /\ stage' = "done" /\ status' = 200
  /\ UNCHANGED <<kindsLeft, folder, owed, met, current, listed, history>>

List ==
  \/ \E filter \in Kinds \union {None, BadKind} : ListBegin(filter)
  \/ \E k \in Kinds : OpenFolder(k) \/ OpenFolderFails(k)
  \/ \E file \in FilesIn(folder) : NextName(file) \/ NameFails(file)
  \/ Stat \/ StatFails
  \/ FolderEnds \/ IncrementFails
  \/ ListEnd

\* A step of the writer; REAPER's death takes a listing in progress with it.
Save ==
  /\ Next
  /\ \/ /\ crashes' = crashes \/ ~Listing
        /\ UNCHANGED lister
     \/ /\ crashes' # crashes /\ Listing
        /\ stage' = "done" /\ status' = status
        /\ kindsLeft' = {} /\ folder' = None /\ owed' = {} /\ met' = {}
        /\ current' = None /\ listed' = {}
  /\ versions' = IF Listing THEN versions \union Visible' ELSE versions
  /\ UNCHANGED <<swallowed, atStart>>

ListingNext == Save \/ (List /\ UNCHANGED vars)

ListingSpec == ListingInit /\ [][ListingNext]_listingVars

-----------------------------------------------------------------------------
(***************************************************************************)
(* Properties                                                              *)
(***************************************************************************)

\* Every listed entry is an artifact that was visible, with the listed size, at
\* some time while the request was served: no temporary file, no size of a file
\* that is being written, no -1 for one that is being replaced.  The -1 is there
\* only where asking the size of a file that was there failed.
ListedWasVisible ==
  \A e \in listed : e \in versions \/ (e[2] = -1 /\ e[1][1] \in swallowed)

\* An artifact that was there when the scan of its folder began is listed, also
\* when it is being replaced by a save, provided that reading its folder met no
\* error.  With one, the answer is 200 and the list is short: nothing in it
\* tells (project_reader.cpp:75-81).
NothingVisibleIsMissed ==
  status = 200 => \A t \in atStart :
    t[1] \notin swallowed => \E size \in 0..MaxSize : <<t, size>> \in listed

\* A whole artifact is listed with the size of one of the requests for it, or
\* with the -1 of a size that could not be asked.
ListedSizesAreWhole ==
  \A e \in listed : e[2] # -1 => \E c \in Calls : For(c, e[1]) /\ arg[c].size = e[2]

=============================================================================
