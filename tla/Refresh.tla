------------------------------ MODULE Refresh ------------------------------
(***************************************************************************)
(* refresh_now (src/host/refresh.cpp): asks REAPER to rescan its action    *)
(* list through a command of the SWS extension.  It copies two function    *)
(* pointers under a mutex and calls them after releasing it, on the pool   *)
(* thread that serves the request: nothing hands it to the main thread,    *)
(* which may meanwhile set or reset the pointers.  REAPER is external.     *)
(***************************************************************************)
EXTENDS Naturals

CONSTANT MaxRebinds  \* settings and resettings during one refresh (bound)

ASSUME RefreshConstants == MaxRebinds \in Nat

VARIABLES
  fns,       \* main_on_command and named_command_lookup: "null" or "set"
  sws,       \* the SWS extension: "absent" or "installed"
  copied,    \* the copies refresh_now made of the pointers
  point,     \* where refresh_now is
  warnings,  \* RefreshResult::warnings
  rescans,   \* how often REAPER was told to rescan for this refresh
  rebinds    \* settings and resettings of the pointers during it

refresh == <<copied, point, warnings, rescans>>
refreshVars == <<fns, sws, refresh, rebinds>>

Points == {"idle", "copied", "found", "warn", "done"}

RefreshInit ==
  /\ fns = "null" /\ sws \in {"absent", "installed"}
  /\ copied = "null" /\ point = "idle" /\ warnings = {}
  /\ rescans = 0 /\ rebinds = 0

\* set_refresh_fns and reset_refresh_fns change both pointers under the mutex.
SetRefreshFns(to) ==
  /\ fns # to
  /\ point = "idle" \/ rebinds < MaxRebinds
  /\ rebinds' = IF point = "idle" THEN 0 ELSE rebinds + 1
  /\ fns' = to
  /\ UNCHANGED <<sws, refresh>>

CopyFns ==
  /\ point = "idle"
  /\ copied' = fns
  /\ point' = "copied"
  /\ UNCHANGED <<fns, sws, warnings, rescans, rebinds>>

\* Null pointers: no lookup, and no warning about it either.
SkipUnbound ==
  /\ point = "copied" /\ copied = "null"
  /\ point' = "warn"
  /\ UNCHANGED <<fns, sws, copied, warnings, rescans, rebinds>>

\* Saying nothing when the command is missing
LookUp_silent ==
  /\ point = "copied" /\ copied = "set"
  /\ point' = IF sws = "installed" THEN "found" ELSE "warn"
  /\ UNCHANGED <<fns, sws, copied, warnings, rescans, rebinds>>

\* NamedCommandLookup answers 0 for a command that no extension has.
LookUp ==
  /\ point = "copied" /\ copied = "set"
  /\ \/ sws = "installed" /\ point' = "found" /\ UNCHANGED warnings
     \/ sws = "absent" /\ point' = "warn"
          /\ warnings' = warnings \cup {"action list not rescanned"}
  /\ UNCHANGED <<fns, sws, copied, rescans, rebinds>>

\* Main_OnCommand
RunCommand ==
  /\ point = "found"
  /\ rescans' = rescans + 1
  /\ point' = "warn"
  /\ UNCHANGED <<fns, sws, copied, warnings, rebinds>>

WarnOfJsfx ==
  /\ point = "warn"
  /\ warnings' = warnings \cup {"JSFX needs a manual rescan"}
  /\ point' = "done"
  /\ UNCHANGED <<fns, sws, copied, rescans, rebinds>>

RefreshReturns ==
  /\ point = "done"
  /\ point' = "idle" /\ copied' = "null" /\ warnings' = {}
  /\ rescans' = 0 /\ rebinds' = 0
  /\ UNCHANGED <<fns, sws>>

RefreshSteps == SkipUnbound \/ LookUp \/ RunCommand \/ WarnOfJsfx
Rebind == \E to \in {"null", "set"} : SetRefreshFns(to)

-----------------------------------------------------------------------------
(***************************************************************************)
(* Property                                                                *)
(***************************************************************************)

\* The answer is true: the action list was rescanned once and nothing is said of
\* it, or not at all and the warning says so, unless the pointers were null when
\* they were copied; and they are what they were throughout when nobody changed
\* them.  That JSFX needs a manual rescan is always said (refresh.cpp:59-104).
RefreshTellsTheTruth ==
  point = "done" =>
    /\ "JSFX needs a manual rescan" \in warnings
    /\ "action list not rescanned" \in warnings => rescans = 0 /\ sws = "absent"
    /\ rescans <= 1
    /\ rebinds = 0 =>
         /\ rescans = 1 <=> fns = "set" /\ sws = "installed"
         /\ "action list not rescanned" \in warnings <=> fns = "set" /\ sws = "absent"

=============================================================================
