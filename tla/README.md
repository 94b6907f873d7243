# ReaForge: TLA+ models, model checking and proofs

ReaForge lets an agent write REAPER artifacts (JSFX, Lua scripts, FX chains).
Tool calls go from an MCP bridge over HTTP to a C++ host inside REAPER, which
writes files and registers scripts. This directory holds TLA+ modules
translated from the code under `src/src/host` (and the parts of cpp-httplib the
host leans on), TLC configurations that check them on small instances, and
TLAPS proofs that hold for all values of the constants.

## 1. The system

| Component | Code | State it keeps | Operations |
|---|---|---|---|
| Agent bridge | `tools/opencode_bridge.py` | base URL (found once), one HTTP client with a 10 s timeout | seven tool calls |
| HTTP server | `http_server.cpp`, `third_party/cpp-httplib` | `running_`, `server_`, `thread_`, the listening socket, `is_running_`, the pool's queue, connections | start, start_any, stop; accept, keep-alive loop |
| HTTP API | `http_server.cpp:22-352` | none | parse, call, answer; the error and exception hooks |
| Artifact writer | `artifact_writer.cpp` | the files, the `AddRemoveReaScript` slot, REAPER's action list | save_jsfx, save_lua, save_fx_chain, set / reset of the slot |
| Refresh | `refresh.cpp` | two function slots under a mutex | refresh_now, set / reset |
| Project reader | `project_reader.cpp` | eleven function slots under a mutex | get_state, list_artifacts, get_api_reference |
| Main thread queue | `main_thread_queue.{h,cpp}` | `queue_` under a mutex, one promise per submitted task | enqueue, submit, submit_void, drain_all, clear |
| Host lifecycle | `host.cpp` | `g_initialized` | init, shutdown |
| Extension loader | `extension_loader.cpp` | the extensions directory | scan, reload |
| Context menu | `context_menu.cpp` | `g_registered`, two entry caches | register, unregister, invalidate |
| Panel | `panel.cpp` | `created_` | create, destroy, render, on_reload |
| Executor, runtimes | `executor.cpp`, `runtime/` | the Lua state, the JSRuntime and the JSContext | init, shutdown, invoke; eval of each runtime |
| Bridge | `bridge/` | the main thread's id | five guarded REAPER calls, a Lua and a QuickJS binding of each |
| Entry points, benchmark | `main.cpp`, `bench.cpp` | the latencies of a run | smoke test; timing, percentiles, verdict |
| Stub server | `tools/stub_reaper_server.py` | files below a fixture root | the same HTTP routes |

How they meet: the server's pool threads run the route handlers, and the
handlers call the writer, the reader and refresh directly, without going to
REAPER's main thread. The main thread queue is meant to be the way there; so
far only its tests call it. The host's init and shutdown, the panel and the
context menu all run on the main thread and share the extensions directory
with the user. The executor evaluates scripts that call back into the bridge,
on whatever thread invoked it. Nobody calls the host from a plugin entry point
yet, and the executor's callers are the smoke test and the benchmark.

What is hard here: several handlers in the writer at once, with no lock around
its file system calls; a process that dies between two of them; a server whose
stop races its own start, its listener and its keep-alive clients; callers that
give up on tasks that still run; a directory, or a project, that changes while
it is read, or goes away under the reader; function pointers that are reset after
they were copied; an init that fails, throws or is cut off half way; and C
libraries that want back every value they gave.
`PROJECT.json` lists these hazards line by line with the properties aimed at
each.

What makes each component correct:

- writer: a visible artifact is always one request's whole content; nothing is
  replaced unasked; failures leave nothing behind that is not reported; the
  action list and the files agree.
- queue: tasks run once, in order; drains end; answers come from the task;
  nobody waits for ever.
- server: stop returns, leaves nothing, and does not free what threads use.
- host, loader, menus: never half up between calls; the menus show what the disk
  holds.
- reader, refresh: warnings match what was called; a report on a project is
  consistent with it; a listing shows what is there.
- HTTP API: an answer tells what was done, an error answer names its cause.
- executor: all runtimes or none; nothing left on a stack or heap; an error of a
  script is an answer; REAPER is asked on its main thread.
- benchmark: its verdict follows from the latencies it took.
- bridge: the agent's view of a save agrees with the disk.

## 2. The modules

`ArtifactStore` is the abstract store; `ArtifactWriter` is the writer. One
action per file system call: `Begin` (name check), `CheckExists`, `MakeFolder`,
`OpenTmp` / `OpenFails`, `WriteBlock`, `CloseTmp` / `WriteFails`, `Rename` /
`RenameFails`, `Cleanup`, and for save_lua `EnsureFn`, `Unregister`, `Register`.
`InstallFn` is the pair of setters of the slot, `Crash` the death of REAPER.
`entry` and `tmp` bind names to inodes, `data` holds an inode's blocks, `handle`
is the open stream: a stream follows its inode through renames, which is what
the shared temporary file is about. `Serial` restricts clients to one save per
artifact in flight. Files are POSIX files; a crash is the death of the process,
not of the machine. Resolving symbolic links (`is_under`) is not modelled. The
slot is changed only while no call is in flight, as the header asks. Both calls of
REAPER's action list may fail. The exceptions of `weakly_canonical` and `absolute`
are left to `HttpApi`, which says what becomes of them.

`MarshalledCalls` states what the queue promises; `MainThreadQueue` is the
queue. `Push` is every member up to its wait, `Get` and `Timeout` the two ends
of `wait_for`, `DrainSwap` / `StartTask` / `EndTask` / `DrainReturn` the pieces
of `drain_all`, `Clear` clear. `host[c]` names the task that makes call c, so
that a task which submits to its own queue blocks the main thread, as it does in
the code. `pushed`, `ran`, `cleared` and `swap` are history.

`HttpServer` has three kinds of threads: the owner (`Start`, `StopBegin`,
`ServerStop`, `Join`), the listener (`ListenBegin`, `Accept`,
`AcceptLoopEnds`, `AcceptFails`, `PoolShutdown`) and the pool's workers
(`TakeJob`, `LoopTest`, `KeepAliveEnds`, `HandlerBegin`, `HandlerEnd`), plus
`Connect` for the clients. One thread owns the server, as in the tests. A bind
that fails changes nothing and has no action.

`HostLifecycle` has the host, the loader, the menus and the panel. A walk of the
extensions directory is `BeginScan` (`exists`), `OpenDir` (`is_directory` and the
iterator) and one `ScanFolder` per folder; `OpenForReload` and `ReloadFolder` are
the same for `loader::reload`. `Edit` and `RemoveDir` (the user) come in between,
and so may `WalkThrows`, a `filesystem_error` that nobody in the code catches: it
ends the call where it stands, or the process if the embedder does not catch it
either. `ManifestKills` is a manifest that ends the process: its error has no text,
so that a string is built from null (`extension_loader.cpp:41,43`), or it calls
`os.exit`. `host::init` is `InitBegin`, `RegisterHooks` / `HooksRegistered`,
`CreatePanel` and `InitEnd`, each setting its own flag. The branches of `host::init`
for an answer of false have no action, because `register_hooks` and `panel::create`
answer true whenever they return. `seen`, `touched`, `seenNow` and `touchedNow` are
history.

`ArtifactListing` is `list_artifacts` beside the writer it extends: `ListBegin`
checks the kind, `OpenFolder` opens a directory iterator, `NextName` is its next
entry with the suffix test, `Stat` the `file_size` by name, `FolderEnds` and
`ListEnd` the rest; `Save` is any step of the writer in between. Where the file
system may fail, so may each of these (`OpenFolderFails`, `NameFails`, `StatFails`,
`IncrementFails`); the code swallows every such error and goes on, and `swallowed`
is the history of it. The iterator is
readdir's: a name that stays is returned, one that comes or goes may be. Kinds
stand for the three folders; the order of entries, modification times and
`is_regular_file` (only files are there) are left out.

`AgentBridge` puts the save tools of `opencode_bridge.py` in front of the
writer: `CallTool` builds and posts, `Handle` is a pool thread taking the
request (an answer is read when `pc` is "done"), `Return` an answer read through
`raise_for_status`, `Disconnect` a host that is gone, or that died before its
answer was read, `GiveUp` the 10 s timeout, `HostDies` a crash. The bridge is an
`async` function that blocks, so it has one call at a time. This is where the
writer's `Serial` clients come from: the module takes `Serial` as FALSE and
shows what serial calling gives. A host that has died is back for the next call.
Read tools change nothing and are left out.

`Refresh` is `refresh_now` call by call: `CopyFns` under the lock, `SkipUnbound`,
`LookUp` and `RunCommand` through the copies, `WarnOfJsfx`. `SetRefreshFns` is
the main thread's setter and resetter, which may come between any two.

`HttpApi` extends it with the routes. `Accept` reads a request; `Refuse` is what
httplib answers by itself (400, 413, 414, 415, 416, 500), `NoRoute` and
`Dispatch` its routing. Then come one action or a few per handler:
`FixedAnswer`, `SaveParse`, `SaveCheck`, `SaveStore` and `SaveAnswer`,
`RefreshBegin`, `RefreshGoesOn` and `RefreshAnswers`, `ArtifactsAnswer`,
`ApiReferenceAnswer`. `AnswerWith` is `set_content(out.dump())`, which throws
for a text that is not UTF-8; `FileSystemError` is the exception of
`weakly_canonical` and `absolute`, before the file is written or after.
`AnswerException` is the exception handler, which quotes the exception and so
may throw itself, and `Send` finishes the answer as httplib does: `RangeChecked`
turns an answer its range lies beyond into a 416, `FallBack` is the error
handler, which sees every error answer. A text is reduced to whether it is
UTF-8; `ascii` says which of the host's own texts are. `do_write` is one step
for its tests, one for the write and one for the answer, with `OthersChange`
(other saves and users) in between; its file system calls are in the writer's
own module.

`ProjectReader` is `get_state` call by call. `CopyPointers` is the copy under the
lock with the test for null ones; `CountTracks` and `CountSelectedItems` begin
the report, `GetItem`, `GetItemTrack`, `Match` and `NoMatch` find the track of
each selected item, `GetTrack` and `AddRow` make the rows, `Report` dumps them.
`SetSlot` and `ResetSlots` are the binder; `InsertTrack`, `RemoveTrack`, `AddItem`
and `Deselect` are the user, who edits the project between any two calls. Names,
tempo and cursor are left out; of a name only matters whether it is UTF-8 after
being cut to its buffer. `CountsFitSelection` says that each selected item can be
given to one row or none so that every row has as many as it says, rather than
bounding a sum.

`Bridge` has no state of its own: it is the five calls of class Bridge with
their guard, and the two bindings as functions from what a script passes to what
it gets, with the narrowing to a C++ int. `Executor` adds the state: `InitCall`,
`InitLua`, `InitRuntime`, `InitContext`, `InitBridges` are `Executor::init` with
the roll-back at each place a library may say that it failed, the aborts of Lua
where an allocation outside of a protected call fails, and a registration that
leaves JavaScript with a part of the bridge only (`bridged`); `Shutdown` its
counterpart, and `Invoke` the routing; `LuaLoad`, `LuaPcall`, `LuaError`,
`LuaResult` and `JsEval`, `JsError`, `JsResult` are the two evals, with the
depth of the Lua stack and the number of JS references held. What the library
has allocated (`heap`) is kept apart from what the members point to (`handle`);
`fate` is how the process ended. `Bench` has the drivers: the smoke test, the
benchmark and an embedder who calls in any order the classes allow, which is any
order but a second init while the runtimes are up.

The MC modules hold the symmetry sets and the constants that are functions or
hold negative numbers; `HttpServer` and `HttpApi` need neither, and their cfgs
name them directly. An operator named `X_word` next to `X`
(for example `CheckExists_blind`) is a deliberately wrong variant of `X`: no
specification uses it, and replacing `X` by it must make a property fail. That
is how each property is known to depend on the code it is about.

## 3. The runs

| Run | Question | Bounds |
|---|---|---|
| `writer_serial` | atomic, never overwrites unasked, implements the store | three saves, one valid and one invalid name, contents of 0 or 1 block, disk faults, one crash |
| `writer_overlap` | what survives free overlap on a healthy disk | three saves, two names, contents of two blocks |
| `writer_overlap_torn` | fails: two overlapping saves share `<target>.tmp` | two saves of two blocks |
| `queue` | order, once, drain boundaries, answers, what can become of a waiting caller; implements `MarshalledCalls`; while the main loop drains, every task is run or cleared, also behind tasks that wait on their own queue | three calls, nested ones included |
| `server` | the server object outlives its users; stop leaves nothing; at most one late request; a stop that finds the listener listening returns; every connection ends | three connections, two workers, two starts, two requests a connection |
| `host_menus` | never half up; menus against a directory in motion, walks that throw, manifests that end the process | two folders, two ids, five targets, two edits |
| `listing` | a listing beside saves shows only what was there, whole, and misses nothing that was in a folder read without an error | two serial saves of one name in two folders, contents of one or two blocks, disk faults for the saves and the listing, one crash, one listing |
| `agent` | handlers overlap only after a timeout; until then artifacts are whole; an acknowledged save is on disk | three tool calls, one valid and one invalid name, contents of one block, one timeout, one crash, no disk faults |
| `http_api` | error answers name their cause, the answer to a save tells what was written, a refresh tells what was done | every kind of request, refusal and range, one at a time, others' saves in between; two rebindings of the pointers during a refresh |
| `reader` | get_state's counts fit the selection; undisturbed, it is exact | two slots, three tracks, two items, two edits during a report |
| `runtimes` | all runtimes or none; nothing left behind; REAPER asked on the main thread only; right names; what GO counts | two threads, every failing allocation of init, three extents of a JavaScript bridge, every kind of script, an int of four bits, benchmarks of -1, 0, 2 and 20, two slow latencies a runtime |
| `runtimes_error` | fails: a Lua error value without a text | the same |

The larger runs have some millions of distinct states: `host_menus` 4.1, `agent`
3.5, `listing` 2.2, `writer_overlap` 1.9, `writer_serial` 0.9, `reader` 0.8,
`queue` 0.7; each ends within three minutes.

Why the bounds are enough. The writer's races need two calls, and a third one
shows the effect of a leftover; a write is torn as soon as a content has two
blocks, and in the serial run one block tells an empty file from a whole one.
Three queued tasks are the fewest that make order, a push during a drain and a
nested submit behind another task meet. With three connections one is served,
one queued and one in the backlog; the second start is a restart. Two saves are
enough for a listing to see one artifact appear and be replaced. In the agent's
run a third call can overlap the one that was given up while the second is
answered. Two folders let one be visited before and one after an edit; a second
edit undoes the first, or takes away the directory that the first has changed.

In `http_api` requests share the pointers of refresh and the target of a save,
which `OthersChange` changes at any time, so one at a time is enough; three of
refresh's steps can have a rebinding between them, and two rebindings undo each
other. In `reader` a copy of the pointers can be partial with two slots; three
tracks are the fewest in which a match can come first, in the middle and last,
and in which a removal shifts one index and not another; one of them has more
effects than are listed, one a name that cannot be dumped. In `runtimes` the int
of four bits has integers that fit it, that do not and stay out of range, and
that do not and become a track's index; a call's resources do not depend on
earlier calls, so the second of two calls shows what the first left; a size of
20 is the first at which one slow latency is allowed.

The two failing runs are the findings in `PROJECT.json`; each cites the sentence
it contradicts: overlapping saves of one artifact can leave a torn file, and a
Lua script that raises an error without a text ends the process.

More disagreements between the code and what is said about it came up while
modelling. They are in the models as the code has them, and have no run of
their own:

- Two overlapping saves with overwrite false can both pass the exists test, and
  the second replaces the first (`artifact_writer.cpp:107`), where `README.md:78`
  of the repository says that saves "refuse to overwrite existing files".
- A stop that comes before the listener listens never returns
  (`http_server.cpp:178`, `httplib.h:5918`), where `http_server.h:31` describes a
  stop that joins; `ReadyStopReturns` is what is left of it.
- After an error of accept the server still counts as running, and `start`
  answers true (`http_server.cpp:119`, `http_server.h:24`). The connections that are
  open then keep being served; `AtMostOneLateRequest` counts only requests begun
  after a stop.
- Reload of an extension whose folder is gone leaves the menus as they were
  (`panel.cpp:42`), where the context-menu specification (line 82) has them
  rebuilt. `rebuild_cache` lists extensions with target "master" in the track menu
  (`context_menu.cpp:26`), against `context-menu-integration/spec.md:27-36`;
  `UntouchedFoldersAreExact` leaves that one answer out. `on_reload` after a
  shutdown fills the caches of a host that is down (`panel.cpp:40`).
- An extensions directory that goes away while it is walked, or cannot be read,
  throws out of `host::init`, `render` or `on_reload`; none of them says so, and
  nobody catches it. A manifest whose error has no text ends the process, as
  `os.exit` in one does, where the log line at `extension_loader.cpp:89` is meant.
- A folder whose reading fails is listed as far as it was read, and the answer is
  200 (`project_reader.cpp:74-80`): a client cannot tell a short list from a whole
  one.
- `submit_void` answers false for a task that completed in time by throwing
  (`main_thread_queue.cpp:24`), where `main_thread_queue.h:31` says "false on
  timeout". A `clear` leaves the callers of the tasks it drops to their timeouts
  (`main_thread_queue.cpp:53`).
- `refresh_now` runs on a pool thread, where `refresh.h:22-24` and
  `http_server.cpp:245-248` speak of the main thread. Nothing the host ships calls
  `set_refresh_fns` or `get_state`; `/v1/state` answers 501, and
  PROJECT_NOT_OPEN (`project_reader.h:57-58`) is never answered.
- Texts that are not UTF-8: a malformed body that quotes one answers 500 INTERNAL
  instead of 400 (`http_server.cpp:35-55`); one such file name turns a whole
  listing into a 500; a save below such a base directory answers 500 although it
  was written; and `get_state` throws for a name that its buffer cuts inside a
  character. An exception of the file system that quotes such a base directory makes
  the exception handler throw, which ends the process (`http_server.cpp:336-351`).
- A save answers INTERNAL although it was written when `fs::absolute` throws after
  it (`artifact_writer.cpp:126`), and 416 when the request has a range that lies
  beyond the answer (`httplib.h:6742`): of the 4xx only that one can follow a write.
  A range on a request whose handler answers an error is applied to the error's
  text without a test, which cuts the text or ends the process.
- What httplib refuses by itself (an unreadable request, a body too large or
  compressed, a bad range, a line too long) gets the body NOT_FOUND from the error
  handler (`http_server.cpp:328-335`), whatever its status is.
- Every Lua and JavaScript invocation of the benchmark fails to parse ("1+1" is
  made "return 1+1()" and "globalThis.1+1()"), JSFX is not implemented, and the
  results are dropped (`bench.cpp:36-49`). So a GO, also that of
  `verify-report.md:46-47`, times errors, where `multi-runtime/spec.md:53` asks for
  no-op invocations that complete, 1000 of them. `--n=0` gives GO, and a negative
  one an uncaught exception. `GoMeansP95` is about the arithmetic of the percentile
  and claims no more.
- Registration in QuickJS ignores what the library could not allocate
  (`bridge_quickjs.cpp:63-78`): `Executor::init` answers true, and scripts find
  a part of the bridge or none of it. In Lua the same failure aborts REAPER
  (`lua_runtime.cpp:16`, `bridge_lua.cpp:73`). `luaL_openlibs` also gives
  scripts `os.exit`, which ends REAPER (`executor.cpp:40`).
- A call off the main thread is refused by the bridge and not by the executor,
  which evaluates it (`multi-runtime/spec.md:30`). An index that does not fit an
  int wraps around, and a JavaScript text that is no numeral is index 0, so both
  may get the name of a track (`bridge_lua.cpp:48`, `bridge_quickjs.cpp:41`). A
  second `Executor::init` without a shutdown overwrites live handles; the
  embedder of the model does not do it.

The type invariants of the queue, the executor, the server and the host are
parts of the invariants proved in section 5, and need no run; the writer's is
also checked.

Deadlock checking is off where the system may rest: calls used up in the writer,
the listing and the bridge, an owner who does nothing in the server. The queue,
the host, the routes, the project reader and the drivers always have a next
step.

## 4. Fairness

- `FairSpec` of the queue: a waiting caller's `wait_for` ends, since the clock
  runs; the main loop keeps calling `drain_all`; and tasks end unless they wait
  on the queue themselves. `Push` and `Clear` are never forced. The callers'
  clocks matter: without `Timeout` a task that submits to its own queue would
  block the main thread for good.
- `FairSpec` of the server: threads are scheduled, handlers return, the
  keep-alive clock runs. `Start`, `StopBegin`, `Connect`, `HandlerBegin` and
  `AcceptFails` are never forced: nobody has to call, connect, send or fail.
  Even so a stop may never return; `ReadyStopReturns` is what holds, for a stop
  that comes when `is_running_` is set.

All of it is weak fairness: each of these steps, once possible, stays possible
until it is taken, or another step of the same thread takes its place. The other
modules state no fairness: their liveness would say only that a loop over a
finite report, or a call of a library, ends.

## 5. The proofs

`ArtifactWriter_proofs` (any sets of calls and names, any sizes, any number of
crashes):

- `TypeCorrect`, from `Sane`: a call that runs has a valid request, one that
  writes has an open file.
- `RegisteredScriptsHaveFiles`: no step unbinds a target, and a call registers
  only after its rename.
- `LoserMeansWinner`: on a healthy disk only a rename by another call, or its
  clean-up after such a rename, can take a temporary file away.
- `SavesAreAtomic` (for `Serial`): `FileInv` says that the open temporary file
  of a call holds exactly the blocks it has written, that no other call has that
  inode open, and that no visible inode is open at all. Without the last part
  a later truncation could reach a visible file, which is what happens in
  `writer_overlap_torn`.
- `NeverOverwritesUnasked` (for `Serial`): between a call's exists test and its
  rename the target stays absent unless the call asked to overwrite.
- `BytesStayHome`, for clients that overlap: `Owned` says that an inode belongs
  to one target for good, that is, whatever is bound to its name, has it open or
  has bytes in it is for that target. The property alone is not inductive: a
  stream can write through an inode that is not visible yet.
- `NoTmpIsLeft` and `RegistrationsAreNotLost` need `Phases`, which ties a call's
  result to where it is; without it a call that is done could have no result yet,
  and a registering call one that failed.
- `WriterRefinesStore` (for `Serial`): every step of the writer is a step of
  `ArtifactStore` or changes nothing a client can see. A save takes effect at its
  rename (`FileInv` gives the content, `NeverOverwritesUnasked`'s invariant the
  permission), and `Fresh`, which holds for overlapping clients too, says that a
  new inode is bound only by the call that makes it, so that opening a temporary
  file can never truncate a visible one.

`HttpServer_proofs` (any number of connections, workers and starts):
`ServerInv` ties the owner's step to the state of the listener, the socket and
the object, and bounds each connection's late requests by where it is in the
keep-alive loop. From it `NoUseAfterReset`, `OneLateRequest` and
`StoppedIsStopped`. `StopIsNotStuck` and `StopGoesForward` are what fairness needs
for `ReadyStopReturns`: some thread that the stop waits for always has a step to
take, and after the socket is closed each connection has at most three steps left,
to which its client can add none.

`HostLifecycle_proofs` (any number of folders and edits): `HostInv` says what a
rebuild in progress has collected, namely of the untouched folders exactly the
manifests of those visited, and of all folders only what was really there. It also
says which flags each step of init has set, so that a walk that throws can only
leave all of them as they were before the call. From it `NoHalfInitializedHost`,
`MenusAreNotInvented`, `MenusAreExact`.

`ArtifactListing_proofs`: a listing's steps are stutters of the writer, so the
writer's lemmas carry over. `VisibleInv` says that every visible artifact with
its size is on record while the listing runs, and that the name asked for its
size still has a file, because no step of the writer takes one away; `OwedInv`
says where an artifact that was there at the start can be: listed, owed by the
iterator, asked next, or in a folder that met an error. From them
`ListingIsTruthful` and `ListingIsComplete`, however saves overlap;
`ListedSizesAreTrue` (for `Serial`) adds the writer's `FileInv`.
`ListingRefinesWriter` says once for all that the system with a listing
implements the writer, so that `ListedSavesAreAStore` follows from the writer's
refinement.

`AgentBridge_proofs`: `BridgeInv` says that a request that is on its way or
handled is the bridge's current call or one it gave up. `SerialUntilTimeout`
follows. `WholeArtifacts` is where the assumption `Serial` of the writer's
theorem is discharged: before the first timeout `Handle` finds nobody at work,
so `FileInv` survives it although `Serial` is not assumed. `AnswersCanBeTrusted`
needs `BridgeMemory`, what the agent was told against what the handler did, and
`QuietInv`: of an artifact no save of which was given up, the temporary file is
that of the one call in flight, and the content that of the last call that stored
it. It holds after timeouts of other artifacts' saves, where the handlers do
overlap. `BridgeRefinesWriter` makes the writer's theorems hold of the agent
(`AgentsSavesKeepPromises`), and `AgentHasAStore` shows bridge and writer together
to be the abstract store until the first timeout; after one they are not.

`MainThreadQueue_proofs` (any number of calls, of any kind): `QueueInv` is a
conjunction of what the line, the tasks in hand and the tasks that have run are
together, namely a subsequence of what was pushed, in order (`FifoExactlyOnce`,
whose witness says at which push each came in, and `PushedOnce`); of what a
drain has in hand (`DrainInv`); of which futures are set (`FutureInv`); and of
tasks that wait for calls of their own (`OwnInv`): their caller holds the main
thread, so nothing can drain. From it `QueueIsFifo`, `DrainIsBounded`,
`OwnSubmitTimesOut` and `DrainCount`; and `QueueRefines`, that every step of the
queue is a step or a stutter of `MarshalledCalls`, for which the invariant has
to say that a task that ran was pushed and not cleared. `OnlyClearLosesCallers`
(`WaitersAreServed`) says what can become of a caller, and `TasksMoveUp` and
`MainThreadIsNotStuck` are the steps of the argument for `TaskRunsOrIsCleared`
that need no fairness: places in the line only get better, and a blocked main
thread waits for a clock.

`Executor_proofs` (any threads, any indexes, any width of int): `ExecInv` says
for every point of a call which handles are set, how deep the stack is and what
is held (`HeapInv`, `ValueInv`), that a call which counts as the main thread's was
made on it (`ThreadInv`: it is why the id must be installed once), and that an
evaluated request for a track's name carries that name (`OutcomeInv`). From it
`InitRollsBack`, `CallsCleanUp`, `AskedOnMainThread` and `RightNames`.
`WaysToDie` says where the process can end in a call: in a Lua
error of a script that threw something without a text (the finding of
`runtimes_error`, for which `DangerInv` follows the error through the evaluation),
in a script that exits, and in Lua's allocations during init; never in the assertion
of JS_FreeRuntime. The drivers of `Bench` are shown to take only the
executor's steps (`ProgramsRefineExecutor`), hence `ProgramsKeepPromises`; and
`GoIsEarned` is about the verdict, for every size of the benchmark: `P95Rank` says
how many latencies can follow the percentile's index, `BenchCounts` that a slow
latency is counted only where some were timed (which is what sizes of zero and
below need), `BenchVerdict` that the verdict is not reached twice.

`Answers_proofs` is about what the host answers. `RefreshInv` says what has been
said and done at each step of a refresh, with the copies equal to the pointers
only while nothing was rebound. `ApiInv` adds, for every stage of a request, that
a reply without a body is httplib's own, that an exception means a text that is
not UTF-8 or a failing file system, and what the reply of a handler says of what was
written. From them
`RefreshIsTrue`, `CausesNamed` and `SavesAreHonest`.

The rest of that module is about `get_state`, for any slots, tracks, items and
number of edits. `CountsAreOnce` and `QuietReports` come from `ReaderInv`: the
project has no track twice and no null in it (`ProjectInv`); the two loops are
within their bounds (`ProgressInv`); there is an assignment of the items looked
at to track indexes of which the counts are the tally (`CountedOnce`), which a
match extends by one item; the rows have different indexes and repeat their
tracks' counts (`RowsOnce`); and while nobody edits, the counts, the item in
hand and the rows agree with the project (`QuietlyAgrees`). The counts need the
assignment to be carried along: from the final counts alone nothing tells which
item was counted where. That a removal leaves a sequence without repetitions
(`WithoutKeeps`) is proved by induction on its length. The library's induction
theorem has an operator for a parameter and cannot be used; `InductionOnNat`
states induction for a set instead and is proved from `FS_PigeonHole`.

Assumptions are the named ones on the constants (`WriterConstants`,
`NoneIsNothing`, `NoContent`, `ListingConstants`, `BridgeConstants`,
`ServerConstants`, `HostConstants`, `QueueConstants`, `BindingConstants`,
`ExecutorConstants`, `BenchConstants`, `ReaderConstants`, `RefreshConstants`),
which TLC evaluates on every run that uses them, and `Serial` where a theorem
names it.

`NoContent` only keeps "no file" apart from the content of one;
`ExecutorConstants` asks for a thread to exist.

So every invariant, action property and refinement that a passing run checks has
a theorem. Only model-checked: liveness (`TaskRunsOrIsCleared`, `ReadyStopReturns`,
`EveryConnectionEnds`), because TLAPS does not reason about fairness and ENABLED;
of the first two the rankings are proved.
The two findings are counterexamples, found by TLC: overlapping saves without
`Serial`, and `ErrorsAreCaptured`.

## 6. Plan

Done: every component that keeps state in the host has a module and a run, every
module translated from code has a proof about it, and every safety property of
the passing runs a theorem.

Next, in this order:

1. Proofs: the ranking of `EveryConnectionEnds` while the server runs; what a
   restart of the writer after a crash finds, as a theorem of its own.
2. The stub's `_write_artifact` against `ArtifactStore`.

A new question about a modelled system joins that system's run.

## 7. Not modelled

- The stub server (`stub_reaper_server.py`) stands in for the host in tests of
  the bridge: single-threaded, with the routes of `HttpApi`.
- The generator of the API reference and its output (`api_reference_data.h`):
  text, looked up by one of three keys.
- The sample extension, the tests and the drivers in Python and shell.
- `JSFXRuntime::compile`: nothing calls it, and its init always succeeds, so the
  executor's roll-back for it is dead code.
- The read tools of the agent bridge, which change nothing; a restart of the bridge
  process, after which it asks for its port again. A call whose host died after
  handling it may get its answer or lose it, whatever the socket held.
- What scripts compute, scripts that never end, allocations that fail while one
  runs, `std::bad_alloc` anywhere; the layout of JSON, symbolic links, power loss.
- Of HTTP: request paths that are not UTF-8, which the error handler quotes; ranges
  that lie within a 200 and cut it to a 206.
- Setting and resetting `get_state`'s pointers while it runs changes nothing once
  they are copied, by the shape of the code, so no property is about it. A row of
  its report is one step, and a track's number of effects does not change.
- The build: only the host, the panel, the menus, the loader and the executor are
  linked into the plug-in (`meson.build:55-69`); the queue, the writer, the server,
  the reader and refresh are compiled into their tests. The models show what this
  code does when it is called, not that REAPER calls it.
