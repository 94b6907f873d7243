------------------------- MODULE HostLifecycle_proofs -------------------------
(***************************************************************************)
(* Proofs about HostLifecycle, for any number of folders and edits.  The   *)
(* invariant says how far a call of init has come with its three flags,    *)
(* and what a rebuild in progress has collected: of the folders nobody     *)
(* touched, exactly the manifests of those already visited, and of all     *)
(* folders only manifests that were really there.                          *)
(***************************************************************************)
EXTENDS HostLifecycle, TLAPS

\* How many of the three flags are up, at each stage of init and outside it.
FlagsFollowStage ==
  /\ registered = (initialized \/ stage \in {"panel", "up"})
  /\ created = (initialized \/ stage = "up")
  /\ stage \in {"init", "hooks", "panel", "up"} => ~initialized

\* What is no directory has no manifests.
NoDirNoManifests == dir # "folder" => \A f \in Folders : disk[f] = None

\* While a rebuild runs, what is on disk or collected has been seen.
CollectedWasSeen ==
  Rebuilding => /\ found \subseteq seenNow
                /\ \A f \in Folders : disk[f] \in Manifest => <<f, disk[f]>> \in seenNow

\* While a rebuild runs, it has of the untouched folders those it visited.
CollectedIsExact ==
  Rebuilding /\ opened => \A f \in Folders \ touchedNow, m \in Manifest :
    <<f, m>> \in found <=> f \notin todo /\ disk[f] = m

\* Before the directory is opened there is nothing to visit and nothing collected.
NothingBeforeOpening == ~opened => todo = {} /\ found = {}

HostInv ==
  /\ TypeOK
  /\ FlagsFollowStage
  /\ NoDirNoManifests
  /\ CollectedWasSeen
  /\ CollectedIsExact
  /\ NothingBeforeOpening
  /\ MenusWereOnDisk
  /\ UntouchedFoldersAreExact

-----------------------------------------------------------------------------

\* What OnDisk holds.
LEMMA OnDiskIs ==
  ASSUME TypeOK
  PROVE  /\ OnDisk \subseteq Entries
         /\ \A f \in Folders : disk[f] \in Manifest => <<f, disk[f]>> \in OnDisk
         /\ \A f \in Folders, m \in Manifest : <<f, m>> \in OnDisk <=> disk[f] = m
BY HostConstants DEF TypeOK, OnDisk, Entries, Contents

LEMMA InitInv == Init => HostInv
<1> SUFFICES ASSUME Init PROVE HostInv
  OBVIOUS
<1>1. TypeOK
  <2>1. dir \in {"folder", "file", "none"} /\ disk \in [Folders -> Contents]
    BY DEF Init
  <2>2. edits \in 0..MaxEdits
    BY HostConstants DEF Init
  <2> QED
    BY <2>1, <2>2, Zenon DEF Init, TypeOK
<1>2. FlagsFollowStage /\ NoDirNoManifests /\ MenusWereOnDisk /\ UntouchedFoldersAreExact
  BY DEF Init, FlagsFollowStage, NoDirNoManifests, MenusWereOnDisk,
         UntouchedFoldersAreExact, Entries
<1>3. CollectedWasSeen /\ CollectedIsExact /\ NothingBeforeOpening
  BY DEF Init, CollectedWasSeen, CollectedIsExact, NothingBeforeOpening, Rebuilding
<1> QED
  BY <1>1, <1>2, <1>3 DEF HostInv

-----------------------------------------------------------------------------
(***************************************************************************)
(* One lemma per group of actions                                          *)
(***************************************************************************)

\* What keeps the menus, the disk and the history of the menus keeps what the
\* menus promise.
LEMMA MenusKeptKeepsPromises ==
  ASSUME HostInv, UNCHANGED <<disk, menus, seen, touched>>
  PROVE  MenusWereOnDisk' /\ UntouchedFoldersAreExact'
<1>1. MenusWereOnDisk'
  BY DEF HostInv, MenusWereOnDisk, menus
<1>2. OnDisk' = OnDisk
  BY DEF OnDisk
<1>3. UntouchedFoldersAreExact'
  BY <1>2 DEF HostInv, UntouchedFoldersAreExact, menus
<1> QED
  BY <1>1, <1>3

\* The process ends: the next one begins as Init does.
LEMMA DieKeepsInv ==
  ASSUME HostInv, Die
  PROVE  HostInv'
<1>1. TypeOK'
  BY DEF HostInv, TypeOK, Die
<1>2. FlagsFollowStage' /\ NoDirNoManifests'
  BY DEF HostInv, FlagsFollowStage, NoDirNoManifests, Die
<1>3. ~Rebuilding'
  BY DEF Rebuilding, Die
<1>4. MenusWereOnDisk' /\ UntouchedFoldersAreExact'
  BY DEF MenusWereOnDisk, UntouchedFoldersAreExact, Entries, Die
<1>5. (CollectedWasSeen /\ CollectedIsExact /\ NothingBeforeOpening)'
  BY <1>3 DEF CollectedWasSeen, CollectedIsExact, NothingBeforeOpening, Die
<1> QED
  BY <1>1, <1>2, <1>4, <1>5 DEF HostInv

\* Steps that install nothing and leave no rebuild running.
LEMMA PlainStepKeepsInv ==
  ASSUME HostInv, UNCHANGED <<disk, menus, seen, touched>>,
         ~Rebuilding', TypeOK', FlagsFollowStage', NoDirNoManifests',
         NothingBeforeOpening'
  PROVE  HostInv'
<1>1. MenusWereOnDisk' /\ UntouchedFoldersAreExact'
  BY MenusKeptKeepsPromises
<1>2. CollectedWasSeen' /\ CollectedIsExact'
  BY DEF CollectedWasSeen, CollectedIsExact
<1> QED
  BY <1>1, <1>2 DEF HostInv

\* The steps of init, render and reload that are no part of a rebuild.
LEMMA PlainStepsKeepInv ==
  ASSUME HostInv,
         \/ InitBegin \/ CreatePanel \/ InitEnd
         \/ Render \/ RenderEnd
         \/ \E id \in Ids : Reload(id)
         \/ OpenForReload \/ ReloadNotFound
  PROVE  HostInv'
<1>1. UNCHANGED <<disk, menus, seen, touched>>
  BY DEF InitBegin, CreatePanel, InitEnd, Render, RenderEnd, Reload, OpenForReload,
         ReloadNotFound, history, menus
<1>2. ~Rebuilding'
  BY DEF Rebuilding, InitBegin, CreatePanel, InitEnd, Render, RenderEnd, Reload,
         OpenForReload, ReloadNotFound, BeginScan, Return
<1>3. TypeOK'
  <2> USE DEF HostInv, TypeOK, flags, menus, history
  <2>1. CASE InitBegin \/ Render
    BY <2>1 DEF InitBegin, Render, BeginScan
  <2>2. CASE CreatePanel
    BY <2>2 DEF CreatePanel
  <2>3. CASE InitEnd \/ RenderEnd \/ ReloadNotFound
    BY <2>3 DEF InitEnd, RenderEnd, ReloadNotFound, Return
  <2>4. CASE (\E id \in Ids : Reload(id)) \/ OpenForReload
    BY <2>4 DEF Reload, OpenForReload
  <2> QED
    BY <2>1, <2>2, <2>3, <2>4
<1>4. FlagsFollowStage'
  <2> USE DEF HostInv, FlagsFollowStage, flags
  <2>0. initialized \in BOOLEAN /\ registered \in BOOLEAN /\ created \in BOOLEAN
    BY DEF TypeOK
  <2>1. CASE InitBegin \/ Render
    BY <2>0, <2>1 DEF InitBegin, Render, BeginScan
  <2>2. CASE CreatePanel
    BY <2>0, <2>2 DEF CreatePanel
  <2>3. CASE InitEnd
    BY <2>0, <2>3 DEF InitEnd, Return
  <2>4. CASE RenderEnd \/ ReloadNotFound
    BY <2>0, <2>4 DEF RenderEnd, ReloadNotFound, Return
  <2>5. CASE (\E id \in Ids : Reload(id)) \/ OpenForReload
    BY <2>0, <2>5 DEF Reload, OpenForReload
  <2> QED
    BY <2>1, <2>2, <2>3, <2>4, <2>5
<1>5. NoDirNoManifests'
  <2>1. dir' = dir \/ dir' = "folder"
    BY DEF InitBegin, CreatePanel, InitEnd, Render, RenderEnd, Reload, OpenForReload,
           ReloadNotFound, BeginScan
  <2> QED
    BY <1>1, <2>1 DEF HostInv, NoDirNoManifests
<1>6. NothingBeforeOpening'
  BY DEF HostInv, NothingBeforeOpening, InitBegin, CreatePanel, InitEnd, Render,
         RenderEnd, Reload, OpenForReload, ReloadNotFound, BeginScan, Return
<1> QED
  BY <1>1, <1>2, <1>3, <1>4, <1>5, <1>6, PlainStepKeepsInv

\* A walk that an exception cuts off leaves the menus as they were.
LEMMA WalkThrowsKeepsInv ==
  ASSUME HostInv, WalkThrows
  PROVE  HostInv'
<1>1. CASE Die
  BY <1>1, DieKeepsInv
<1>2. CASE Return /\ UNCHANGED <<dir, disk, flags, menus, edits, seen, touched>>
  <2>1. TypeOK'
    BY <1>2 DEF HostInv, TypeOK, Return, flags, menus
  <2>2. stage \in {"init", "hooks", "render", "rebuild", "reload"}
    BY DEF WalkThrows, Scanning, Rebuilding
  <2>3. FlagsFollowStage'
    BY <1>2, <2>2 DEF HostInv, TypeOK, FlagsFollowStage, Return, flags
  <2>4. NoDirNoManifests' /\ ~Rebuilding' /\ NothingBeforeOpening'
    BY <1>2 DEF HostInv, NoDirNoManifests, NothingBeforeOpening, Return, Rebuilding
  <2> QED
    BY <1>2, <2>1, <2>3, <2>4, PlainStepKeepsInv
<1> QED
  BY <1>1, <1>2 DEF WalkThrows

\* A rebuild begins with nothing collected and what is on disk as seen.
LEMMA BeginRebuildKeepsInv ==
  ASSUME HostInv, NEW s \in {"hooks", "rebuild"}, BeginRebuild(s),
         UNCHANGED <<disk, flags, menus, wanted, edits, seen, touched>>,
         FlagsFollowStage'
  PROVE  HostInv'
<1>0. TypeOK /\ NoDirNoManifests
  BY DEF HostInv
<1>1. TypeOK'
  BY <1>0, OnDiskIs DEF TypeOK, BeginRebuild, BeginScan, flags, menus
<1>2. NoDirNoManifests'
  BY <1>0 DEF NoDirNoManifests, BeginRebuild, BeginScan
<1>3. CollectedWasSeen'
  BY <1>0, OnDiskIs DEF CollectedWasSeen, BeginRebuild, BeginScan
<1>4. CollectedIsExact'
  <2> SUFFICES ASSUME opened', NEW f \in Folders, NEW m \in Manifest
               PROVE  (<<f, m>> \in found <=> f \notin todo /\ disk[f] = m)'
    BY DEF CollectedIsExact
  <2>1. found' = {} /\ disk' = disk /\ dir # "folder"
    BY DEF BeginRebuild, BeginScan
  <2>2. disk[f] # m
    BY <1>0, <2>1, HostConstants DEF NoDirNoManifests
  <2> QED
    BY <2>1, <2>2
<1>5. NothingBeforeOpening'
  BY DEF NothingBeforeOpening, BeginRebuild, BeginScan
<1>6. MenusWereOnDisk' /\ UntouchedFoldersAreExact'
  BY MenusKeptKeepsPromises
<1> QED
  BY <1>1, <1>2, <1>3, <1>4, <1>5, <1>6 DEF HostInv

LEMMA RegisterHooksKeepsInv ==
  ASSUME HostInv, RegisterHooks
  PROVE  HostInv'
<1>1. ~registered /\ BeginRebuild("hooks") /\ stage = "init"
  BY DEF HostInv, TypeOK, FlagsFollowStage, RegisterHooks
<1>2. UNCHANGED <<disk, flags, menus, wanted, edits, seen, touched>>
  BY DEF RegisterHooks
<1>3. FlagsFollowStage'
  BY <1>1, <1>2 DEF HostInv, TypeOK, FlagsFollowStage, BeginRebuild, BeginScan, flags
<1> QED
  BY <1>1, <1>2, <1>3, BeginRebuildKeepsInv

\* The directory is opened: nothing is collected yet, and what is no directory
\* has nothing to collect.
LEMMA OpenDirKeepsInv ==
  ASSUME HostInv, OpenDir
  PROVE  HostInv'
<1>0. TypeOK /\ NoDirNoManifests /\ NothingBeforeOpening /\ CollectedWasSeen
      /\ FlagsFollowStage
  BY DEF HostInv
<1>1. /\ UNCHANGED <<dir, disk, flags, menus, stage, wanted, found, edits, history>>
      /\ ~opened /\ opened' = TRUE
      /\ todo' = IF dir = "folder" THEN Folders ELSE {}
  BY DEF OpenDir
<1>2. TypeOK'
  BY <1>0, <1>1 DEF TypeOK, flags, menus, history
<1>3. FlagsFollowStage' /\ NoDirNoManifests'
  BY <1>0, <1>1 DEF FlagsFollowStage, NoDirNoManifests, flags
<1>4. CollectedWasSeen' /\ NothingBeforeOpening'
  BY <1>0, <1>1 DEF CollectedWasSeen, NothingBeforeOpening, Rebuilding, history
<1>5. CollectedIsExact'
  <2> SUFFICES ASSUME Rebuilding, NEW f \in Folders, NEW m \in Manifest
               PROVE  (<<f, m>> \in found <=> f \notin todo /\ disk[f] = m)'
    BY <1>1 DEF CollectedIsExact, Rebuilding
  <2>1. found' = {}
    BY <1>0, <1>1 DEF NothingBeforeOpening
  <2>2. f \in todo' \/ disk'[f] # m
    BY <1>0, <1>1, HostConstants DEF NoDirNoManifests
  <2> QED
    BY <2>1, <2>2
<1>6. MenusWereOnDisk' /\ UntouchedFoldersAreExact'
  BY <1>1, MenusKeptKeepsPromises DEF history
<1> QED
  BY <1>2, <1>3, <1>4, <1>5, <1>6 DEF HostInv

LEMMA ScanFolderKeepsInv ==
  ASSUME HostInv, NEW f \in Folders, ScanFolder(f)
  PROVE  HostInv'
<1>0. TypeOK /\ FlagsFollowStage /\ NoDirNoManifests /\ CollectedWasSeen
      /\ CollectedIsExact /\ NothingBeforeOpening
  BY DEF HostInv
<1>1. /\ UNCHANGED <<dir, disk, flags, menus, stage, wanted, opened, edits, history>>
      /\ f \in todo
      /\ todo' = todo \ {f}
      /\ found' = IF disk[f] = None THEN found ELSE found \union {<<f, disk[f]>>}
      /\ disk[f] \in Manifest \union {None}
  BY <1>0 DEF ScanFolder, TypeOK, Contents
<1>2. TypeOK'
  BY <1>0, <1>1 DEF TypeOK, Entries, flags, menus, history
<1>3. FlagsFollowStage' /\ NoDirNoManifests'
  BY <1>0, <1>1 DEF FlagsFollowStage, NoDirNoManifests, flags
<1>4. CollectedWasSeen'
  BY <1>0, <1>1 DEF CollectedWasSeen, Rebuilding, history
<1>5. CollectedIsExact'
  <2> SUFFICES ASSUME Rebuilding, opened, NEW g \in Folders, g \notin touchedNow,
                      NEW m \in Manifest
               PROVE  (<<g, m>> \in found <=> g \notin todo /\ disk[g] = m)'
    BY <1>1 DEF CollectedIsExact, Rebuilding, history
  <2>1. <<g, m>> \in found <=> g \notin todo /\ disk[g] = m
    BY <1>0 DEF CollectedIsExact
  <2>2. CASE g = f
    BY <1>1, <2>1, <2>2, HostConstants
  <2>3. CASE g # f
    BY <1>1, <2>1, <2>3
  <2> QED
    BY <2>2, <2>3
<1>6. NothingBeforeOpening'
  BY <1>0, <1>1 DEF NothingBeforeOpening
<1>7. MenusWereOnDisk' /\ UntouchedFoldersAreExact'
  BY <1>1, MenusKeptKeepsPromises DEF history
<1> QED
  BY <1>2, <1>3, <1>4, <1>5, <1>6, <1>7 DEF HostInv

\* The end of a rebuild installs what it collected.
LEMMA InstallMenus ==
  ASSUME HostInv, Rebuilding, Install, UNCHANGED disk
  PROVE  MenusWereOnDisk' /\ UntouchedFoldersAreExact'
<1>0. TypeOK /\ CollectedWasSeen /\ CollectedIsExact
  BY DEF HostInv
<1>1. /\ track' = TrackMenu(found) /\ item' = ItemMenu(found)
      /\ seen' = seenNow /\ touched' = touchedNow
      /\ opened /\ todo = {}
  BY DEF Install, Scanned
<1>2. found \subseteq seenNow
  BY <1>0 DEF CollectedWasSeen
<1>3. MenusWereOnDisk'
  BY <1>1, <1>2 DEF MenusWereOnDisk, TrackMenu, ItemMenu
<1>4. OnDisk' = OnDisk
  BY DEF OnDisk
<1>5. ASSUME NEW e \in Entries, e[1] \notin touchedNow
      PROVE  e \in found <=> e \in OnDisk
  <2>1. PICK f \in Folders, m \in Manifest : e = <<f, m>>
    BY DEF Entries
  <2>2. e \in found <=> disk[f] = m
    BY <1>0, <1>1, <1>5, <2>1 DEF CollectedIsExact
  <2> QED
    BY <1>0, <2>1, <2>2, OnDiskIs
<1>6. UntouchedFoldersAreExact'
  BY <1>1, <1>4, <1>5 DEF UntouchedFoldersAreExact, TrackMenu, ItemMenu
<1> QED
  BY <1>3, <1>6

LEMMA RebuildEndsKeepInv ==
  ASSUME HostInv, HooksRegistered \/ RebuildEnd
  PROVE  HostInv'
<1>0. TypeOK /\ FlagsFollowStage /\ NoDirNoManifests /\ NothingBeforeOpening
  BY DEF HostInv
<1>1. Rebuilding /\ Install /\ UNCHANGED <<dir, disk, initialized, created, edits>>
  BY DEF HooksRegistered, RebuildEnd, Rebuilding, flags
<1>2. TypeOK'
  <2>1. registered' \in BOOLEAN
    BY <1>0 DEF TypeOK, HooksRegistered, RebuildEnd, flags
  <2>2. /\ stage' \in {"panel", "idle"}
        /\ wanted' \in Ids \union {None}
        /\ opened' \in BOOLEAN /\ todo' \subseteq Folders /\ found' \subseteq Entries
    BY <1>0 DEF TypeOK, HooksRegistered, RebuildEnd, Return
  <2>3. seenNow' = {} /\ touchedNow' = {}
    BY DEF HooksRegistered, RebuildEnd, Return
  <2>4. track' \subseteq Entries /\ item' \subseteq Entries
    BY <1>0, <1>1 DEF TypeOK, Install, TrackMenu, ItemMenu
  <2>5. seen' \subseteq Entries /\ touched' \subseteq Folders
    BY <1>0, <1>1 DEF TypeOK, Install
  <2> QED
    BY <1>0, <1>1, <2>1, <2>2, <2>3, <2>4, <2>5 DEF TypeOK
<1>3. FlagsFollowStage'
  <2>1. CASE HooksRegistered
    <3>1. stage = "hooks" /\ stage' = "panel" /\ registered' = TRUE
          /\ initialized' = initialized /\ created' = created
      BY <2>1 DEF HooksRegistered
    <3> QED
      BY <1>0, <3>1 DEF FlagsFollowStage, TypeOK
  <2>2. CASE RebuildEnd
    <3>1. /\ stage = "rebuild" /\ stage' = "idle"
          /\ registered' = registered /\ initialized' = initialized /\ created' = created
      BY <2>2 DEF RebuildEnd, Return, flags
    <3> QED
      BY <1>0, <3>1 DEF FlagsFollowStage
  <2> QED
    BY <2>1, <2>2
<1>4. NoDirNoManifests'
  BY <1>0, <1>1 DEF NoDirNoManifests
<1>5. ~Rebuilding' /\ NothingBeforeOpening'
  BY <1>0 DEF Rebuilding, NothingBeforeOpening, HooksRegistered, RebuildEnd, Return
<1>6. MenusWereOnDisk' /\ UntouchedFoldersAreExact'
  BY <1>1, InstallMenus
<1> QED
  BY <1>2, <1>3, <1>4, <1>5, <1>6 DEF HostInv, CollectedWasSeen, CollectedIsExact

LEMMA ShutdownKeepsInv ==
  ASSUME HostInv, Shutdown
  PROVE  HostInv'
<1>1. TypeOK'
  BY DEF HostInv, TypeOK, Shutdown, scanning
<1>2. FlagsFollowStage' /\ NoDirNoManifests' /\ NothingBeforeOpening'
  BY DEF HostInv, FlagsFollowStage, NoDirNoManifests, NothingBeforeOpening, Shutdown, scanning
<1>3. ~Rebuilding'
  BY DEF Rebuilding, Shutdown, scanning
<1>4. MenusWereOnDisk' /\ UntouchedFoldersAreExact'
  BY DEF MenusWereOnDisk, UntouchedFoldersAreExact, Entries, Shutdown
<1> QED
  BY <1>1, <1>2, <1>3, <1>4 DEF HostInv, CollectedWasSeen, CollectedIsExact

\* Looking for the manifest to reload leaves the menus alone.
LEMMA ReloadFolderKeepsInv ==
  ASSUME HostInv, NEW f \in Folders, ReloadFolder(f)
  PROVE  HostInv'
<1>0. /\ UNCHANGED <<disk, flags, menus, wanted, edits, seen, touched>>
      /\ stage = "reload"
  BY DEF ReloadFolder
<1>1. CASE Declares(f, wanted)
  <2>1. BeginRebuild("rebuild")
    BY <1>1 DEF ReloadFolder
  <2>2. FlagsFollowStage'
    BY <1>0, <2>1 DEF HostInv, FlagsFollowStage, BeginRebuild, BeginScan, flags
  <2> QED
    BY <1>0, <2>1, <2>2, BeginRebuildKeepsInv
<1>2. CASE ~Declares(f, wanted)
  <2>1. UNCHANGED <<dir, stage, opened, found, seenNow, touchedNow>> /\ todo' = todo \ {f}
    BY <1>2 DEF ReloadFolder
  <2>2. TypeOK'
    BY <1>0, <2>1 DEF HostInv, TypeOK, flags, menus
  <2>3. FlagsFollowStage' /\ NoDirNoManifests' /\ NothingBeforeOpening'
    BY <1>0, <2>1 DEF HostInv, FlagsFollowStage, NoDirNoManifests, NothingBeforeOpening, flags
  <2>4. ~Rebuilding'
    BY <1>0, <2>1 DEF Rebuilding
  <2> QED
    BY <1>0, <2>2, <2>3, <2>4, PlainStepKeepsInv
<1> QED
  BY <1>1, <1>2

\* The user's edits: what was seen stays seen, what was touched counts no more.
LEMMA EditKeepsInv ==
  ASSUME HostInv, NEW f \in Folders, NEW m \in Contents, Edit(f, m)
  PROVE  HostInv'
<1>0. /\ TypeOK /\ FlagsFollowStage /\ NothingBeforeOpening /\ CollectedWasSeen
      /\ CollectedIsExact /\ MenusWereOnDisk /\ UntouchedFoldersAreExact
  BY DEF HostInv
<1>1. /\ dir' = "folder"
      /\ disk' = [disk EXCEPT ![f] = m]
      /\ edits < MaxEdits /\ edits' = edits + 1
      /\ touched' = touched \union {f}
      /\ seenNow' = IF Rebuilding /\ m \in Manifest THEN seenNow \union {<<f, m>>} ELSE seenNow
      /\ touchedNow' = IF Rebuilding THEN touchedNow \union {f} ELSE touchedNow
      /\ UNCHANGED <<flags, menus, scanning, seen>>
  BY DEF Edit
<1>2. TypeOK'
  <2>1. disk' \in [Folders -> Contents]
    BY <1>0, <1>1 DEF TypeOK
  <2>2. edits' \in 0..MaxEdits
    BY <1>0, <1>1, HostConstants DEF TypeOK
  <2>3. seenNow' \subseteq Entries /\ touchedNow' \subseteq Folders /\ touched' \subseteq Folders
    BY <1>0, <1>1 DEF TypeOK, Entries
  <2> QED
    BY <1>0, <1>1, <2>1, <2>2, <2>3 DEF TypeOK, flags, menus, scanning
<1>3. FlagsFollowStage' /\ NoDirNoManifests' /\ NothingBeforeOpening'
  BY <1>0, <1>1 DEF FlagsFollowStage, NoDirNoManifests, NothingBeforeOpening, flags, scanning
<1>4. CollectedWasSeen'
  BY <1>0, <1>1 DEF CollectedWasSeen, Rebuilding, scanning, TypeOK
<1>5. CollectedIsExact'
  BY <1>0, <1>1 DEF CollectedIsExact, Rebuilding, scanning, TypeOK
<1>6. MenusWereOnDisk'
  BY <1>0, <1>1 DEF MenusWereOnDisk, menus
<1>7. UntouchedFoldersAreExact'
  <2>1. ASSUME NEW e \in Entries, e[1] \notin touched'
        PROVE  e[1] \notin touched /\ (e \in OnDisk <=> e \in OnDisk')
    <3>1. PICK g \in Folders, n \in Manifest : e = <<g, n>>
      BY DEF Entries
    <3>2. e \in OnDisk <=> disk[g] = n
      BY <1>0, <3>1, OnDiskIs
    <3>3. e \in OnDisk' <=> disk'[g] = n
      BY <3>1, <1>2 DEF OnDisk, TypeOK
    <3>4. g # f /\ g \notin touched
      BY <1>1, <2>1, <3>1
    <3> QED
      BY <1>0, <1>1, <3>1, <3>2, <3>3, <3>4 DEF TypeOK
  <2> QED
    BY <1>0, <1>1, <2>1 DEF UntouchedFoldersAreExact, menus
<1> QED
  BY <1>2, <1>3, <1>4, <1>5, <1>6, <1>7 DEF HostInv

LEMMA RemoveDirKeepsInv ==
  ASSUME HostInv, NEW d \in {"file", "none"}, RemoveDir(d)
  PROVE  HostInv'
<1>0. /\ TypeOK /\ FlagsFollowStage /\ NothingBeforeOpening /\ CollectedWasSeen
      /\ CollectedIsExact /\ MenusWereOnDisk
  BY DEF HostInv
<1>1. /\ disk' = [f \in Folders |-> None]
      /\ edits < MaxEdits /\ edits' = edits + 1
      /\ dir' = d
      /\ touched' = Folders
      /\ touchedNow' = IF Rebuilding THEN Folders ELSE touchedNow
      /\ UNCHANGED <<flags, menus, scanning, seen, seenNow>>
  BY DEF RemoveDir
<1>2. TypeOK'
  <2>1. disk' \in [Folders -> Contents]
    BY <1>1 DEF Contents
  <2>2. edits' \in 0..MaxEdits
    BY <1>0, <1>1, HostConstants DEF TypeOK
  <2> QED
    BY <1>0, <1>1, <2>1, <2>2 DEF TypeOK, flags, menus, scanning
<1>3. FlagsFollowStage' /\ NoDirNoManifests' /\ NothingBeforeOpening'
  BY <1>0, <1>1 DEF FlagsFollowStage, NoDirNoManifests, NothingBeforeOpening, flags, scanning
<1>4. CollectedWasSeen' /\ CollectedIsExact'
  BY <1>0, <1>1, HostConstants DEF CollectedWasSeen, CollectedIsExact, Rebuilding, scanning
<1>5. MenusWereOnDisk' /\ UntouchedFoldersAreExact'
  BY <1>0, <1>1 DEF MenusWereOnDisk, UntouchedFoldersAreExact, Entries, menus
<1> QED
  BY <1>2, <1>3, <1>4, <1>5 DEF HostInv

LEMMA StutterKeepsInv == HostInv /\ UNCHANGED vars => HostInv'
<1> SUFFICES ASSUME HostInv, UNCHANGED vars PROVE HostInv'
  OBVIOUS
<1>1. TypeOK'
  BY DEF HostInv, TypeOK, vars, flags, menus, scanning, history
<1>2. FlagsFollowStage' /\ NoDirNoManifests' /\ NothingBeforeOpening'
  BY DEF HostInv, FlagsFollowStage, NoDirNoManifests, NothingBeforeOpening, vars, flags, scanning
<1>3. CollectedWasSeen' /\ CollectedIsExact'
  BY DEF HostInv, CollectedWasSeen, CollectedIsExact, Rebuilding, vars, scanning, history
<1>4. MenusWereOnDisk' /\ UntouchedFoldersAreExact'
  BY MenusKeptKeepsPromises DEF vars, history
<1> QED
  BY <1>1, <1>2, <1>3, <1>4 DEF HostInv

-----------------------------------------------------------------------------

LEMMA StepInv == HostInv /\ [Next]_vars => HostInv'
<1> SUFFICES ASSUME HostInv, [Next]_vars PROVE HostInv'
  OBVIOUS
<1>1. CASE \/ InitBegin \/ CreatePanel \/ InitEnd \/ Render \/ RenderEnd
           \/ \E id \in Ids : Reload(id)
           \/ OpenForReload \/ ReloadNotFound
  BY <1>1, PlainStepsKeepInv
<1>2. CASE RegisterHooks
  BY <1>2, RegisterHooksKeepsInv
<1>3. CASE HooksRegistered \/ RebuildEnd
  BY <1>3, RebuildEndsKeepInv
<1>4. CASE Shutdown
  BY <1>4, ShutdownKeepsInv
<1>5. CASE OpenDir
  BY <1>5, OpenDirKeepsInv
<1>6. CASE WalkThrows
  BY <1>6, WalkThrowsKeepsInv
<1>7. ASSUME NEW f \in Folders, ScanFolder(f) \/ ReloadFolder(f) \/ ManifestKills(f)
      PROVE  HostInv'
  BY <1>7, ScanFolderKeepsInv, ReloadFolderKeepsInv, DieKeepsInv DEF ManifestKills
<1>8. ASSUME NEW f \in Folders, NEW m \in Contents, Edit(f, m) PROVE HostInv'
  BY <1>8, EditKeepsInv
<1>9. ASSUME NEW d \in {"file", "none"}, RemoveDir(d) PROVE HostInv'
  BY <1>9, RemoveDirKeepsInv
<1>10. CASE UNCHANGED vars
  BY <1>10, StutterKeepsInv
<1> QED
  BY <1>1, <1>2, <1>3, <1>4, <1>5, <1>6, <1>7, <1>8, <1>9, <1>10 DEF Next

LEMMA Invariance == Spec => []HostInv
<1>1. Init => HostInv
  BY InitInv
<1>2. HostInv /\ [Next]_vars => HostInv'
  BY StepInv
<1> QED
  BY <1>1, <1>2, PTL DEF Spec

\* Between two calls host, menu hooks and panel are up or down together
\* (host.cpp:16-44), wherever an exception of a scan cut off a call of init.
THEOREM NoHalfInitializedHost == Spec => []AllOrNothing
<1>1. HostInv => AllOrNothing
  BY DEF HostInv, TypeOK, FlagsFollowStage, AllOrNothing
<1> QED
  BY <1>1, Invariance, PTL

\* The menus list only manifests that were on disk during the rebuild that
\* listed them (context_menu.cpp:20-31), however many edits race the scan.
THEOREM MenusAreNotInvented == Spec => []MenusWereOnDisk
<1>1. HostInv => MenusWereOnDisk
  BY DEF HostInv
<1> QED
  BY <1>1, Invariance, PTL

\* Folders nobody edited since are in exactly the menus their targets name
\* (context_menu.cpp:24-28), targets other than "master" for the track menu.
THEOREM MenusAreExact == Spec => []UntouchedFoldersAreExact
<1>1. HostInv => UntouchedFoldersAreExact
  BY DEF HostInv
<1> QED
  BY <1>1, Invariance, PTL

=============================================================================
