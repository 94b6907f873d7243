---------------------------- MODULE HostLifecycle ----------------------------
(***************************************************************************)
(* The host's life cycle and its extension menus: host.cpp, panel.cpp,     *)
(* context_menu.cpp and extension_loader.cpp under src/host.  All of it    *)
(* runs on REAPER's main thread.  A scan of the extensions directory tests *)
(* it, opens it and reads one folder after another while the user edits    *)
(* those folders, so each of these is a step of its own.  Any of them may  *)
(* throw a filesystem_error, which nothing in src catches: the call it cut *)
(* off ends where it stood, and the process goes on only if the caller     *)
(* catches it.                                                             *)
(*                                                                         *)
(* register_hooks and panel::create answer true whenever they return: the  *)
(* two branches of host::init for an answer of false have no action.       *)
(***************************************************************************)
EXTENDS Naturals

CONSTANTS
  Folders,     \* sub-folders the extensions directory may have
  Ids,         \* extension ids; two folders may declare the same one
  Targets,     \* values of a manifest's target field
  MaxEdits,    \* bound: how often the user changes the directory
  None,        \* no manifest.lua, or one that parse_manifest rejects
  Deadly       \* one that ends the process: its error value has no text, so
               \* that a string is built from null, or it calls os.exit

\* A manifest that parses, as far as the menus are concerned
Manifest == [id: Ids, target: Targets]

Contents == Manifest \union {None, Deadly}

ASSUME HostConstants ==
  /\ MaxEdits \in Nat
  /\ None \notin Manifest /\ Deadly \notin Manifest
  /\ {"track", "master", "item", "midi_item"} \subseteq Targets

VARIABLES
  dir,           \* what the path of the extensions directory names
  disk,          \* disk[f]: the manifest of folder f
  initialized,   \* g_initialized of host.cpp
  registered,    \* g_registered of context_menu.cpp
  created,       \* created_ of panel.cpp
  track,         \* g_track_cache, as <<folder, manifest>> pairs
  item,          \* g_item_cache
  stage,         \* what the main thread is doing
  wanted,        \* the id given to panel::on_reload
  opened,        \* the walk has its directory iterator, or returns nothing
  todo,          \* folders the directory iterator has not yet come to
  found,         \* what scan has collected
  edits,         \* how often the user changed the directory
  seen,          \* history: on disk during the rebuild that filled the menus
  touched,       \* history: folders edited since that rebuild began
  seenNow,       \* history: the same two of the rebuild under way
  touchedNow

flags == <<initialized, registered, created>>
menus == <<track, item>>
scanning == <<stage, wanted, opened, todo, found>>
history == <<seen, touched, seenNow, touchedNow>>
vars == <<dir, disk, flags, menus, scanning, edits, history>>

-----------------------------------------------------------------------------

OnDisk == {<<f, disk[f]>> : f \in {g \in Folders : disk[g] \in Manifest}}

\* The two filters of rebuild_cache
TrackMenu_swapped(es) == {e \in es : e[2].target \in {"track", "item"}}
TrackMenu(es) == {e \in es : e[2].target \in {"track", "master"}}
ItemMenu(es) == {e \in es : e[2].target \in {"item", "midi_item"}}

Rebuilding == stage \in {"hooks", "rebuild"}
Scanning == stage \in {"init", "render"} \/ Rebuilding
Scanned == opened /\ todo = {}

Init ==
  /\ dir \in {"folder", "file", "none"}
  /\ disk \in [Folders -> Contents]
  /\ dir # "folder" => disk = [f \in Folders |-> None]
  /\ initialized = FALSE /\ registered = FALSE /\ created = FALSE
  /\ track = {} /\ item = {}
  /\ stage = "idle" /\ wanted = None
  /\ opened = FALSE /\ todo = {} /\ found = {}
  /\ edits = 0
  /\ seen = {} /\ touched = Folders
  /\ seenNow = {} /\ touchedNow = {}

-----------------------------------------------------------------------------
(***************************************************************************)
(* loader::scan                                                            *)
(***************************************************************************)

\* exists: a missing directory is made, and nothing is listed.
BeginScan(s) ==
  /\ stage' = s
  /\ dir' = IF dir = "none" THEN "folder" ELSE dir
  /\ opened' = (dir = "none")
  /\ todo' = {}
  /\ found' = {}

\* rebuild_cache begins with a scan.
BeginRebuild(s) ==
  /\ BeginScan(s)
  /\ seenNow' = OnDisk
  /\ touchedNow' = {}

\* is_directory and the iterator: what is no directory (any more) is empty.
OpenDir ==
  /\ Scanning
  /\ ~opened
  /\ opened' = TRUE
  /\ todo' = IF dir = "folder" THEN Folders ELSE {}
  /\ UNCHANGED <<dir, disk, flags, menus, stage, wanted, found, edits, history>>

\* A folder without a manifest that parses is passed over.
ScanFolder(f) ==
  /\ Scanning
  /\ f \in todo
  /\ disk[f] # Deadly
  /\ todo' = todo \ {f}
  /\ found' = IF disk[f] = None THEN found ELSE found \union {<<f, disk[f]>>}
  /\ UNCHANGED <<dir, disk, flags, menus, stage, wanted, opened, edits, history>>

\* The process ends; the next one begins with the disk as it is.
Die ==
  /\ initialized' = FALSE /\ registered' = FALSE /\ created' = FALSE
  /\ track' = {} /\ item' = {}
  /\ stage' = "idle" /\ wanted' = None
  /\ opened' = FALSE /\ todo' = {} /\ found' = {}
  /\ seen' = {} /\ touched' = Folders
  /\ seenNow' = {} /\ touchedNow' = {}
  /\ UNCHANGED <<dir, disk, edits>>

ManifestKills(f) ==
  /\ f \in todo
  /\ disk[f] = Deadly
  /\ Die

\* The walk is over, with or without a result: the main thread is free.
Return ==
  /\ stage' = "idle" /\ wanted' = None
  /\ opened' = FALSE /\ todo' = {} /\ found' = {}
  /\ seenNow' = {} /\ touchedNow' = {}

\* The directory went away between two steps, cannot be read, or a test of one
\* of its entries fails: filesystem_error out of scan or reload.
WalkThrows ==
  /\ Scanning \/ stage = "reload"
  /\ \/ /\ Return
        /\ UNCHANGED <<dir, disk, flags, menus, edits, seen, touched>>
     \/ Die

-----------------------------------------------------------------------------
(***************************************************************************)
(* host::init and host::shutdown                                           *)
(***************************************************************************)

\* The first scan of init only counts the extensions for the log.
InitBegin ==
  /\ stage = "idle"
  /\ ~initialized
  /\ BeginScan("init")
  /\ UNCHANGED <<disk, flags, menus, wanted, edits, history>>

RegisterHooks_flag_first ==
  /\ stage = "init"
  /\ Scanned
  /\ BeginRebuild("hooks")
  /\ registered' = TRUE
  /\ UNCHANGED <<disk, initialized, created, menus, wanted, edits, seen, touched>>

\* Hooks that are there already are not rebuilt.
RegisterHooks ==
  /\ stage = "init"
  /\ Scanned
  /\ IF registered
     THEN stage' = "panel" /\ UNCHANGED <<dir, opened, todo, found, seenNow, touchedNow>>
     ELSE BeginRebuild("hooks")
  /\ UNCHANGED <<disk, flags, menus, wanted, edits, seen, touched>>

Install_appends ==
  /\ Scanned
  /\ track' = track \union TrackMenu(found)
  /\ item' = item \union ItemMenu(found)
  /\ seen' = seenNow
  /\ touched' = touchedNow

\* The end of rebuild_cache: only now are the old entries thrown away.
Install ==
  /\ Scanned
  /\ track' = TrackMenu(found)
  /\ item' = ItemMenu(found)
  /\ seen' = seenNow
  /\ touched' = touchedNow

HooksRegistered ==
  /\ stage = "hooks"
  /\ Install
  /\ registered' = TRUE
  /\ stage' = "panel"
  /\ seenNow' = {} /\ touchedNow' = {}
  /\ UNCHANGED <<dir, disk, initialized, created, wanted, opened, todo, found, edits>>

CreatePanel ==
  /\ stage = "panel"
  /\ created' = TRUE
  /\ stage' = "up"
  /\ UNCHANGED <<dir, disk, initialized, registered, menus, wanted, opened, todo,
                 found, edits, history>>

InitEnd ==
  /\ stage = "up"
  /\ initialized' = TRUE
  /\ Return
  /\ UNCHANGED <<dir, disk, registered, created, menus, edits, seen, touched>>

\* Nothing shutdown calls can fail or be interrupted.
Shutdown ==
  /\ stage = "idle"
  /\ initialized
  /\ created' = FALSE
  /\ registered' = FALSE
  /\ track' = {} /\ item' = {}
  /\ initialized' = FALSE
  /\ seen' = {} /\ touched' = Folders
  /\ UNCHANGED <<dir, disk, scanning, edits, seenNow, touchedNow>>

-----------------------------------------------------------------------------
(***************************************************************************)
(* The panel                                                               *)
(***************************************************************************)

Render ==
  /\ stage = "idle"
  /\ created
  /\ BeginScan("render")
  /\ UNCHANGED <<disk, flags, menus, wanted, edits, history>>

RenderEnd ==
  /\ stage = "render"
  /\ Scanned
  /\ Return
  /\ UNCHANGED <<dir, disk, flags, menus, edits, seen, touched>>

\* on_reload: unlike render it does not ask whether the panel exists.  Where
\* there is no directory, there is nothing to reload.
Reload(id) ==
  /\ stage = "idle"
  /\ dir # "none"
  /\ stage' = "reload"
  /\ wanted' = id
  /\ UNCHANGED <<dir, disk, flags, menus, opened, todo, found, edits, history>>

\* Unlike scan, reload does not ask is_directory: it throws if there is none.
OpenForReload ==
  /\ stage = "reload"
  /\ ~opened
  /\ dir = "folder"
  /\ opened' = TRUE
  /\ todo' = Folders
  /\ UNCHANGED <<dir, disk, flags, menus, stage, wanted, found, edits, history>>

Declares(f, id) == disk[f] \in Manifest /\ disk[f].id = id

\* loader::reload stops at the first manifest that declares the id; then
\* invalidate_cache rebuilds the menus.
ReloadFolder(f) ==
  /\ stage = "reload"
  /\ f \in todo
  /\ \/ /\ Declares(f, wanted)
        /\ BeginRebuild("rebuild")
     \/ /\ ~Declares(f, wanted)
        /\ disk[f] # Deadly
        /\ todo' = todo \ {f}
        /\ UNCHANGED <<dir, stage, opened, found, seenNow, touchedNow>>
  /\ UNCHANGED <<disk, flags, menus, wanted, edits, seen, touched>>

\* No manifest declares the id (any more): the menus stay as they are.
ReloadNotFound ==
  /\ stage = "reload"
  /\ Scanned
  /\ Return
  /\ UNCHANGED <<dir, disk, flags, menus, edits, seen, touched>>

RebuildEnd ==
  /\ stage = "rebuild"
  /\ Install
  /\ Return
  /\ UNCHANGED <<dir, disk, flags, edits>>

-----------------------------------------------------------------------------

\* The user adds, changes, breaks or deletes the manifest of a folder.
Edit(f, m) ==
  /\ edits < MaxEdits
  /\ m # disk[f]
  /\ dir' = "folder"
  /\ disk' = [disk EXCEPT ![f] = m]
  /\ edits' = edits + 1
  /\ touched' = touched \union {f}
  /\ seenNow' = IF Rebuilding /\ m \in Manifest THEN seenNow \union {<<f, m>>} ELSE seenNow
  /\ touchedNow' = IF Rebuilding THEN touchedNow \union {f} ELSE touchedNow
  /\ UNCHANGED <<flags, menus, scanning, seen>>

\* The user deletes the extensions directory, or puts a file in its place.
RemoveDir(d) ==
  /\ edits < MaxEdits
  /\ dir # d
  /\ dir' = d
  /\ disk' = [f \in Folders |-> None]
  /\ edits' = edits + 1
  /\ touched' = Folders
  /\ touchedNow' = IF Rebuilding THEN Folders ELSE touchedNow
  /\ UNCHANGED <<flags, menus, scanning, seen, seenNow>>

Next ==
  \/ InitBegin \/ RegisterHooks \/ HooksRegistered \/ CreatePanel \/ InitEnd
  \/ Shutdown
  \/ Render \/ RenderEnd
  \/ \E id \in Ids : Reload(id)
  \/ OpenForReload \/ ReloadNotFound \/ RebuildEnd
  \/ OpenDir \/ WalkThrows
  \/ \E f \in Folders : ScanFolder(f) \/ ReloadFolder(f) \/ ManifestKills(f)
  \/ \E f \in Folders, m \in Contents : Edit(f, m)
  \/ \E d \in {"file", "none"} : RemoveDir(d)

Spec == Init /\ [][Next]_vars

-----------------------------------------------------------------------------
(***************************************************************************)
(* Properties                                                              *)
(***************************************************************************)

Entries == Folders \X Manifest

\* Every variable of the host keeps its type.
TypeOK ==
  /\ dir \in {"folder", "file", "none"}
  /\ disk \in [Folders -> Contents]
  /\ initialized \in BOOLEAN /\ registered \in BOOLEAN /\ created \in BOOLEAN
  /\ track \subseteq Entries /\ item \subseteq Entries
  /\ stage \in {"idle", "init", "hooks", "panel", "up", "render", "reload", "rebuild"}
  /\ wanted \in Ids \union {None}
  /\ opened \in BOOLEAN
  /\ todo \subseteq Folders
  /\ found \subseteq Entries
  /\ edits \in 0..MaxEdits
  /\ seen \subseteq Entries /\ touched \subseteq Folders
  /\ seenNow \subseteq Entries /\ touchedNow \subseteq Folders

\* "The host MUST NOT continue with a half-initialized state": between two
\* calls host, menu hooks and panel are all up or all down, also after an init
\* that an exception of one of its two scans cut off.
AllOrNothing == stage = "idle" => initialized = registered /\ registered = created

\* An entry of either menu is a manifest its folder really held at some time
\* during the rebuild that put it there, however the directory changed under
\* the scan, and whichever later rebuilds were cut off by an exception.
MenusWereOnDisk == track \union item \subseteq seen

\* Every folder nobody edited since the rebuild that filled the menus began is
\* in exactly the menus its target names, whatever happened to the others and
\* to later rebuilds.  The track menu's answer to target "master" is left out:
\* context_menu.cpp:27 lists such an extension for tracks, which
\* context-menu-integration/spec.md:29-31 forbids.
UntouchedFoldersAreExact ==
  \A e \in Entries : e[1] \notin touched =>
    /\ e \in item <=> e \in OnDisk /\ e[2].target \in {"item", "midi_item"}
    /\ e[2].target # "master" =>
         (e \in track <=> e \in OnDisk /\ e[2].target = "track")

=============================================================================
