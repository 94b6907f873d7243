--------------------------- MODULE ProjectReader ---------------------------
(***************************************************************************)
(* get_state (src/host/project_reader.cpp): a report on the open project,  *)
(* put together from many calls of REAPER's API.  The calls go through     *)
(* function pointers that a binder sets one by one and resets all at once, *)
(* under a mutex; get_state copies them under the mutex and calls them     *)
(* after releasing it.                                                     *)
(*                                                                         *)
(* Each API call is one step, on whatever thread get_state runs.  Between  *)
(* two of them the user, on REAPER's main thread, may edit the project.    *)
(* REAPER is external, and taken to answer null for what is gone, also     *)
(* when get_state asks with a pointer it was given before.                 *)
(***************************************************************************)
EXTENDS Integers, Sequences, FiniteSets, Functions

CONSTANTS
  Slots,     \* the function pointers get_state needs (eleven in the code)
  Tracks,    \* tracks that may be in the project
  Items,     \* media items
  FxOf,      \* FxOf[tr]: the number of FX on a track
  FxCap,     \* how many FX names are listed per track (16 in the code)
  IllNamed,  \* tracks with a name that, cut to its buffer, is not UTF-8
  MaxEdits,  \* edits during one get_state (bound)
  Null       \* a null pointer

ASSUME ReaderConstants ==
  /\ Slots # {}
  /\ Null \notin Tracks \cup Items
  /\ FxOf \in [Tracks -> Nat]
  /\ IllNamed \subseteq Tracks
  /\ FxCap \in Nat /\ MaxEdits \in Nat

VARIABLES
  slots,     \* the slots that are set
  tracks,    \* the project's tracks, in order
  trackOf,   \* trackOf[i]: the track item i is on, or Null
  selected,  \* the selected items, in the order REAPER enumerates them
  at,        \* where get_state is, "idle" between calls
  summary,   \* its parameter
  nTracks,   \* n_tracks
  nSelected, \* n_sel_items
  s,         \* the selected item it looks at
  t,         \* the track it looks at
  pointer,   \* item or tr: what an earlier API call returned
  perTrack,  \* per_track_sel
  rows,      \* j["tracks"]
  edits      \* edits since get_state began

project == <<tracks, trackOf, selected>>
locals == <<summary, nTracks, nSelected, s, t, pointer, perTrack, rows>>
vars == <<slots, project, at, locals, edits>>

TrackAt(i) == IF i + 1 \in 1 .. Len(tracks) THEN tracks[i + 1] ELSE Null
SelectedAt(i) == IF i + 1 \in 1 .. Len(selected) THEN selected[i + 1] ELSE Null

NoLocals ==
  /\ summary = FALSE
  /\ nTracks = 0 /\ nSelected = 0 /\ s = 0 /\ t = 0
  /\ pointer = Null /\ perTrack = <<>> /\ rows = <<>>

Init ==
  /\ slots = {}
  /\ tracks = <<>> /\ selected = <<>>
  /\ trackOf = [i \in Items |-> Null]
  /\ at = "idle" /\ NoLocals
  /\ edits = 0

-----------------------------------------------------------------------------
(***************************************************************************)
(* The binder, and the user                                                *)
(***************************************************************************)

\* set_reaper_fn_...
SetSlot(f) ==
  /\ slots' = slots \cup {f}
  /\ UNCHANGED <<project, at, locals, edits>>

\* reset_reaper_function_pointers
ResetSlots ==
  /\ slots' = {}
  /\ UNCHANGED <<project, at, locals, edits>>

\* The sequence without the elements of a set, the others in their order
Without(sq, gone) ==
  LET kept[k \in 0 .. Len(sq)] ==
        IF k = 0 THEN <<>>
        ELSE IF sq[k] \in gone THEN kept[k - 1] ELSE Append(kept[k - 1], sq[k])
  IN  kept[Len(sq)]

\* Edits between two calls of get_state are not counted.
Edit ==
  /\ at = "idle" \/ edits < MaxEdits
  /\ edits' = IF at = "idle" THEN 0 ELSE edits + 1
  /\ UNCHANGED <<slots, at, locals>>

InsertTrack(tr, i) ==
  /\ Edit
  /\ tr \notin Range(tracks) /\ i \in 0 .. Len(tracks)
  /\ tracks' = SubSeq(tracks, 1, i) \o <<tr>> \o SubSeq(tracks, i + 1, Len(tracks))
  /\ UNCHANGED <<trackOf, selected>>

\* A track takes its items along.
RemoveTrack(tr) ==
  /\ Edit
  /\ tr \in Range(tracks)
  /\ tracks' = Without(tracks, {tr})
  /\ trackOf' = [i \in Items |-> IF trackOf[i] = tr THEN Null ELSE trackOf[i]]
  /\ selected' = Without(selected, {i \in Items : trackOf[i] = tr})

\* A new item is selected, as REAPER's insert actions leave it.
AddItem(i, tr) ==
  /\ Edit
  /\ trackOf[i] = Null /\ tr \in Range(tracks)
  /\ trackOf' = [trackOf EXCEPT ![i] = tr]
  /\ selected' = Append(selected, i)
  /\ UNCHANGED tracks

Deselect(i) ==
  /\ Edit
  /\ i \in Range(selected)
  /\ selected' = Without(selected, {i})
  /\ UNCHANGED <<tracks, trackOf>>

-----------------------------------------------------------------------------
(***************************************************************************)
(* get_state                                                               *)
(***************************************************************************)
World == UNCHANGED <<slots, project, edits>>

\* The pointers are copied under the lock; one null among them ends the call.  What
\* the binder does afterwards does not reach the copies.
CopyPointers(brief) ==
  /\ at = "idle"
  /\ at' = IF slots = Slots THEN "count_tracks" ELSE "unavailable"
  /\ summary' = brief
  /\ UNCHANGED <<slots, project, nTracks, nSelected, s, t, pointer, perTrack, rows, edits>>

\* Name, tempo and sample rate are read before; they are of no account here.
CountTracks ==
  /\ at = "count_tracks"
  /\ nTracks' = Len(tracks)
  /\ at' = "count_items"
  /\ World /\ UNCHANGED <<summary, nSelected, s, t, pointer, perTrack, rows>>

CountSelectedItems ==
  /\ at = "count_items"
  /\ nSelected' = Len(selected)
  /\ perTrack' = [i \in 0 .. nTracks - 1 |-> 0]
  /\ at' = "item"
  /\ World /\ UNCHANGED <<summary, nTracks, s, t, pointer, rows>>

NextItem == s' = s + 1 /\ at' = "item"

GetItem ==
  /\ at = "item" /\ s < nSelected
  /\ \/ SelectedAt(s) = Null /\ NextItem /\ UNCHANGED pointer
     \/ SelectedAt(s) # Null /\ pointer' = SelectedAt(s)
          /\ at' = "item_track" /\ UNCHANGED s
  /\ World /\ UNCHANGED <<summary, nTracks, nSelected, t, perTrack, rows>>

\* Searching on from where the last search ended
GetItemTrack_no_reset ==
  /\ at = "item_track"
  /\ pointer' = trackOf[pointer]
  /\ \/ trackOf[pointer] = Null /\ NextItem
     \/ trackOf[pointer] # Null /\ at' = "match" /\ UNCHANGED s
  /\ World /\ UNCHANGED <<summary, nTracks, nSelected, t, perTrack, rows>>

GetItemTrack ==
  /\ at = "item_track"
  /\ pointer' = trackOf[pointer]
  /\ t' = 0
  /\ \/ trackOf[pointer] = Null /\ NextItem
     \/ trackOf[pointer] # Null /\ at' = "match" /\ UNCHANGED s
  /\ World /\ UNCHANGED <<summary, nTracks, nSelected, perTrack, rows>>

\* Searching on after a match
Match_no_break ==
  /\ at = "match" /\ t < nTracks
  /\ \/ /\ TrackAt(t) = pointer
        /\ perTrack' = [perTrack EXCEPT ![t] = @ + 1]
     \/ /\ TrackAt(t) # pointer
        /\ UNCHANGED perTrack
  /\ t' = t + 1
  /\ World /\ UNCHANGED <<at, summary, nTracks, nSelected, s, pointer, rows>>

\* The search for the track's index stops at the first match.
Match ==
  /\ at = "match" /\ t < nTracks
  /\ \/ /\ TrackAt(t) = pointer
        /\ perTrack' = [perTrack EXCEPT ![t] = @ + 1]
        /\ NextItem /\ UNCHANGED t
     \/ /\ TrackAt(t) # pointer
        /\ t' = t + 1
        /\ UNCHANGED <<perTrack, s, at>>
  /\ World /\ UNCHANGED <<summary, nTracks, nSelected, pointer, rows>>

NoMatch ==
  /\ at = "match" /\ t = nTracks
  /\ NextItem
  /\ World
  /\ UNCHANGED <<summary, nTracks, nSelected, t, pointer, perTrack, rows>>

ItemsCounted ==
  /\ at = "item" /\ s = nSelected
  /\ t' = 0 /\ at' = "track"
  /\ World
  /\ UNCHANGED <<summary, nTracks, nSelected, s, pointer, perTrack, rows>>

\* A track that is gone by now has no row.
GetTrack ==
  /\ at = "track" /\ t < nTracks
  /\ \/ TrackAt(t) = Null /\ t' = t + 1 /\ UNCHANGED <<at, pointer>>
     \/ TrackAt(t) # Null /\ pointer' = TrackAt(t) /\ at' = "row" /\ UNCHANGED t
  /\ World
  /\ UNCHANGED <<summary, nTracks, nSelected, s, perTrack, rows>>

ListedFx(tr) == IF FxOf[tr] < FxCap THEN FxOf[tr] ELSE FxCap
Row == [id |-> t, track |-> pointer, selected |-> perTrack[t] > 0,
        fx_count |-> FxOf[pointer],
        fx_names |-> IF summary THEN 0 ELSE ListedFx(pointer),
        selected_item_count |-> perTrack[t]]

AddRow ==
  /\ at = "row"
  /\ rows' = Append(rows, Row)
  /\ t' = t + 1 /\ at' = "track"
  /\ World
  /\ UNCHANGED <<summary, nTracks, nSelected, s, pointer, perTrack>>

\* j.dump() throws at a text that is not UTF-8, and nothing here catches it.
Report ==
  /\ at = "track" /\ t = nTracks
  /\ at' = IF \E k \in DOMAIN rows : rows[k].track \in IllNamed
            THEN "exception" ELSE "report"
  /\ World /\ UNCHANGED locals

\* The caller takes the report, the error REAPER_NOT_AVAILABLE, or the exception.
Return ==
  /\ at \in {"report", "unavailable", "exception"}
  /\ at' = "idle" /\ edits' = 0
  /\ summary' = FALSE
  /\ nTracks' = 0 /\ nSelected' = 0 /\ s' = 0 /\ t' = 0
  /\ pointer' = Null /\ perTrack' = <<>> /\ rows' = <<>>
  /\ UNCHANGED <<slots, project>>

GetState ==
  \/ \E brief \in BOOLEAN : CopyPointers(brief)
  \/ CountTracks \/ CountSelectedItems
  \/ GetItem \/ GetItemTrack \/ Match \/ NoMatch \/ ItemsCounted
  \/ GetTrack \/ AddRow \/ Report \/ Return

Environment ==
  \/ \E f \in Slots : SetSlot(f)
  \/ ResetSlots
  \/ \E tr \in Tracks, i \in 0 .. Cardinality(Tracks) : InsertTrack(tr, i)
  \/ \E tr \in Tracks : RemoveTrack(tr)
  \/ \E i \in Items, tr \in Tracks : AddItem(i, tr)
  \/ \E i \in Items : Deselect(i)

Next == GetState \/ Environment

Spec == Init /\ [][Next]_vars

-----------------------------------------------------------------------------
(***************************************************************************)
(* Properties                                                              *)
(***************************************************************************)
\* However the project is edited meanwhile, no selected item is counted on two
\* tracks: each can be given to one row, or to none, so that every row has as
\* many as it says (the break at project_reader.cpp:237).
CountsFitSelection ==
  at = "report" =>
    \E rowOf \in [1 .. nSelected -> 0 .. Len(rows)] :
      \A k \in 1 .. Len(rows) :
        rows[k].selected_item_count = Cardinality({i \in 1 .. nSelected : rowOf[i] = k})

\* The row of track i of the project as it is now.
OnTrack(tr) == {k \in 1 .. Len(selected) : trackOf[selected[k]] = tr}
ExactRow(i) ==
  LET tr == tracks[i]
      count == Cardinality(OnTrack(tr))
  IN [id |-> i - 1, track |-> tr, selected |-> count > 0, fx_count |-> FxOf[tr],
      fx_names |-> IF summary THEN 0 ELSE ListedFx(tr),
      selected_item_count |-> count]

\* When the user edited nothing between the first call and the last, the report
\* is the project: every track in order with its number of selected items.
QuietReportIsExact ==
  at = "report" /\ edits = 0 =>
    /\ rows = [i \in 1 .. Len(tracks) |-> ExactRow(i)]
    /\ nSelected = Len(selected)

=============================================================================
