# msMemScope in TLA+

Models, model-checking instances and proofs for msMemScope, the memory
profiler in `src/`. The profiler lives inside the process it observes: hooks
around the driver, the framework allocators, the C heap, kernels and Python
report what the application does; the reports become events; events pass
through a router that keeps a table of memory blocks; analyzers and the dump
are told of every event. A control thread starts and stops collection, Python
code does the same, and other processes attach over a Unix socket.

A definition carries the name it has in the source wherever that is possible,
`PROJECT.json` maps it to its lines, and a definition `X_Something` next to `X`
is a faulty variant of `X` that the properties must be able to tell from `X`.

## The system

| component | state | operations | talks to |
|---|---|---|---|
| driver hooks (`event_trace/hal_hooks`) | none | `halMemAlloc`, `halMemFree`: call the driver, report | EventReport, on the thread of the application |
| framework pools, operators, mstx (`memory_pool_trace`, `atb_hooks`, `mstx_hooks`, `op_handler`) | ids of open mstx ranges | pool malloc and free, operator access, range start and end | EventReport |
| EventReport (`event_trace/event_report.cpp`) | `halPtrs_`, `hostPtrs_`, `stepInfo_`, `pyStepId_`, the numbers of devices, the host window | one `Report...` per kind of event; filters by `--steps` and by address | Process, host heap hooks |
| EventTraceManager (`trace_manager`) | `status_`, the configuration | `DetermineTraceMode`, `SetTraceStatus`, `config` | EventReport, collectors, MemoryStateManager |
| Process and event router (`framework/process.cpp`, `event_router.cpp`) | `processMutex_` | `SendEvent`: `EventHandler` updates the table, dispatches, cleans up | MemoryStateManager, EventDispatcher |
| MemoryStateManager (`analysis/memory_state_manager.cpp`) | `poolsMap_` under `mtx_`, usage and peak, the id counter | `AddEvent`, `DeteleState`, `PromoteShadowStates`, `ResetUsageBaseline`, destructor | Dump |
| EventDispatcher | subscribers by priority, a lock with a 15 s timeout | `Dispatch`, `Subscribe`, `UnSubscribe` | Dump, analyzers |
| step tracker, leak, health, decompose, inefficient and OOM analyzers, memory comparison (`analysis/`) | boundaries, extremes, owners, API numbers per block | on marks, accesses and memory events | MemoryStateManager, Dump |
| host heap hooks (`event_trace/host_mem_hooks`) | block and stack tables in shards, an overflow ledger, counters, the gate of the window, series of the sampler | `malloc`, `free`, `realloc`, `SvcSetEnabled`, `SvcDumpInterimSnapshot`, `fork` | EventReport (boundaries, snapshot) |
| host leak analysis (`analysis/host_leak_analyzer.cpp`) | the open window, the last report | START and END of a window, the report at exit, overviews | EventReport (pulls the snapshot) |
| memory watch (`event_trace/memory_watch`) | nesting, watched tensors, limits | operator and kernel begin and end, `watch`, `remove` | dump of tensors |
| kernel hooks (`event_trace/kernel_hooks`) | names by task id | launches, profiling records, `aclInit` | EventReport, EventTraceManager |
| Python traces, descriptions, CPU tensors (`python_trace.cpp`, `describe_trace.cpp`, `cpu_tensor_collection.py`) | stacks of calls and labels per thread, known storages | calls and returns, `describe`, patched functions and finalizers | EventReport |
| function hooks (`hijacker/hijack_utility.py`, `triton_collection.py`) | units, wrappers, the original of each wrapped function | `hijacker`, `release`, the import of a module, calls of wrapped functions | the Python collections |
| control channel (`framework/control_channel`, `attach_controller.cpp`, `line_editor.cpp`) | wake pipe, `g_chActive`, socket file, sequence number, history | signal, connect, REGISTER, commands and responses, editing a line | EventTraceManager |
| command line (`client_parser.cpp`, `command.cpp`) | the configuration | options, launching | the hooks, by environment |

What is hard to get right here, and hardly reached by tests:

* **Shadow mode.** Outside a session the hooks go on reporting ("shadow"
  events) so that a later session knows what was allocated before it. A block
  passes through four shadow states in an order the application chooses, and
  five places erase blocks.
* **Threads.** Hooks run on every thread of the application; several locks and
  the interpreter lock are taken in different orders; the driver frees an
  address before the FREE is reported.
* **The heap while it is in use.** Malloc and free go on while a window opens,
  closes, is sampled or copied by a fork, in tables of fixed size.
* **Other processes and callers.** Controllers compete for one file name, a
  signal may arrive at any time, a wait may be given up while its answer is on
  the way; Python, the control channel, `aclInit` and the exit start and stop
  the same collection.
* **Nesting.** Steps, operators, kernels, labels and Python calls come in pairs
  that are opened before a start, broken by an exception or not closed at all.
* **Zero as a value.** Several records use 0 for "nothing yet".

## Modules

The pipeline of events:

* `MemoryStates` - the data: keys `<<pool, device, address>>`, blocks
  (`MemoryState` reduced to id, first and last kind of event, size, number of
  FREEs and shadow state), tables and meters.
* `EventRouter` - the whole pipeline, one event at a time. `AppMalloc`,
  `AppFree` and `AppAccess` are the application; each makes the decision of the
  hook and routes the event through table and dump in the same step, as
  `processMutex_` is held for the whole event. `Start` and `Stop` are
  `SetTraceStatus`, `Exit...` the destructor of MemoryStateManager.
* `TracePipeline` - the same operators split between threads. A hook goes
  through decide, register, send, residue, close, handle, dump and erase; the
  control thread through promoting, announce, switch, stopped and flushing. A
  step ends where another thread may run: at the release of a lock, or between
  two operations that take none. One pair is joined: `EraseBlock` removes a residual
  block and adds the MALLOC that met it in one step (`event_router.cpp:129-130`), so a
  promotion between these two is not among its behaviours. A `MemoryState*` that outlives `mtx_` is the
  id of its block (`hold`). `reuse` says when the driver hands an address out
  again: never, after its FREE was reported, or early.
* `TraceControl` - who switches all this: Python calls, the control channel,
  the `aclInit` hook and the exit, each a thread that walks through the latch, the
  host window, the announcement (which `--steps` may hold back), the status and the
  collectors (which need the interpreter lock), or through the configuration, the
  collectors and the subscription of analyzers.
* `Settings` - what the three sources of settings make of their values: the
  command line, `msmemscope.config()` and `set config`.
* `ControlSession` - the attach protocol: controllers from the socket file to
  the session and back, the listener thread of the target, interruption, kill
  and exit. `ControlFrames` is what travels in it: responses cut into frames,
  sent and read in any portions. `LineEditor` is the prompt of a controller.

The C heap:

* `HostWindow` - the contract between hooks and analyzer, an abstract
  specification of two variables: boundaries come in order, and the closing
  snapshot is complete before the end is announced.
* `HostHeap` - malloc, free and realloc of several threads, the block and stack
  tables with their reference counts, the overflow ledger, windows, snapshots,
  the sampler and fork. It implements `HostWindow` (`StagesInOrder`), and uses
  the block table as a map.
* `BlockTable` - one shard of that table as it is: linear probing, growth,
  removal that shifts entries back. `TableIsMap` says it is the map.
* `HostSeries` - rows, folding and eviction of the series of the sampler, and
  the growth rate made of them.
* `HostLeak` - the analyzer, on top of `HostWindow` (its service) and
  `HostSeries`: threads that open, close, look into and leave windows, the
  dispatcher with its timeout, `Subscribe` and `UnSubscribe`, the report at exit.

Parts with a state of their own:

* `StepTracking` - marks of steps (mstx and `msmemscope.step()`), each begun,
  stamped, numbered and delivered in separate steps, and StepTracker with the
  NPU part of LeakAnalyzer.
* `HealthGaps` - extremes of a pool in a step and of their ratio over steps.
* `HostBook` - registered host memory and CPU tensors in the books of
  EventReport, and `cpu_tensor_collection.py`: patching torch now or later,
  finalizers, disabling.
* `DeviceIds` - logical to physical device numbers, with and without dcmi.
* `KernelLink` - launches and executions, linked by task ids that come again.
* `MemoryWatch` - dumps before and after operators and kernels, nested.
* `Inefficient` - the classification of blocks by their accesses.
* `Owners` - labels of a thread, by system and user, and what a block inherits.
* `PythonTrace` - the stack of open Python calls.
* `MemoryCompare` - the shortest edit path between two dumps, as it is searched.
* `Hijack` - hooks of Python functions, registered and released while their
  module is imported, reloaded and called.

`Parts` puts the parts with proofs side by side: `KernelLink`, `MemoryWatch`, `HostBook`,
`BlockTable`, `DeviceIds`, `HealthGaps`, `StepTracking` and `ControlFrames`. They share no state; the
first state of a behaviour picks the part, and the variables of the others stay
empty, so that the state space is the sum, not the product, of theirs. The
assumptions of each part are restated for its constants.

`MC_*` instantiate the modules; `MC_Parts` extends `Parts` by the parts that are
model-checked only, in the same way.

The theorems are in `EventRouterProofs`, `TracePipelineProofs`, `HostHeapProofs`,
`ControlSessionProofs`, `HostLeakProofs`, `TraceControlProofs` and `PartsProofs`;
`MemoryStatesProofs` has what they need of sums.

## What the runs show

| run | bounds | shows |
|---|---|---|
| `EventRouter_lossless` | a driver and a framework pool, two addresses, two sizes, three blocks | no report is dropped: every block is written at most once, with one FREE and an id of its own (`RecordedOnce`); in a session live blocks and meters are what the application holds (`TableIsHeld`); no block of a session is left in the shadow; the destructor ends |
| `EventRouter_skips` | driver pool, three addresses | `--steps` drops any reports it likes: no record is lost (`NothingLost`, `ExitFlushes`), meters stay numbers and a FREE never ends another block that is held (`RecordsAreWhole`) |
| `MC_TracePipeline_hooks` | two threads, no restarts, addresses reused after the report or early | a thread never works on a block that is gone (`HeldStateIsLive`), every hook returns (`CallsReturn`), and registration, table and usage agree with the heap (`BooksAgree`, when addresses are not reused early) |
| `MC_TracePipeline_restarts` | two threads, two starts, fresh addresses | starts that race with hooks write nothing twice, erase nothing in use and drop no registered block (`HooksAreSafe`); a start that meets no call makes the books right (`CalmStartSettles`) |
| `MC_TraceControl_races` | four threads, three requests, two collectors, three settings of analyses, levels and events, with and without `--steps` | a start or stop that nothing overlapped leaves status, latch, window, announcement (except under `--steps`), subscriptions and collectors in agreement, and starts, stops and an exit that overlap only one another leave status and collectors so (`CallsSettle`); every request ends, but for the lock cycle below (`RequestsEnd`) |
| `MC_ControlSession_contend` | two controllers, two commands each, up to two frames per response, sequence numbers modulo 2 | a signal is not lost, both ends agree who is in session, no file stays (`SessionIsSound`); an awaited answer is that of its command; every attempt ends |
| `MC_HostHeap_windows` | two threads, two addresses, two stacks, tables of one or two slots, two windows, four calls, a snapshot, a fork | no entry goes while it is referred to (`OwnersStay`), the ledger is exact (`BooksAreExact`), no freed block looks like a leak (`NoFalseLeak`), no block enters behind the report, windows follow `HostWindow` (`StagesInOrder`), a child records nothing |
| `MC_HostLeak_windows` | two threads, three windows, five requests, waits that run out, two slots for three series, four beats | reports and overviews are of their window, and each window in which anything was recorded is reported once, unless one of its own boundaries was lost to the timeout (`ReportsAreTrue`), the growth rate of a series is that of its beats (`GrowthIsReal`), the exit ends |
| `MC_Parts_all` | below | one property for each part |

The parts of `MC_Parts_all`, their bounds and properties:

| part | bounds | property |
|---|---|---|
| `KernelLink` | two launching threads, two task keys, three launches, a buffer of four logs | an execution bears the name of its launch, also when task ids come again while nothing is traced (`NamesRight`) |
| `MemoryWatch` | two threads, two addresses, a first and a last operator, limits of one and none | a watched tensor is dumped once per side and never more often than asked for (`DumpsAsAsked`) |
| `HostBook`, `BlockTable` | one address in both channels, three switches; five colliding keys in four, then eight slots | one open MALLOC per address, and a pending enable is served; the table is the map of its blocks (`BooksKept`) |
| `DeviceIds` | lists of up to three of three cards and a bad token | numbers are those of the physical cards, whether or not the runtime heeds the list and dcmi works, stops halfway or hangs; exempt are a failed probe of a runtime that does not heed the list, a list beyond the cards that nobody counted, and the current device where only `rtGetDevice` tells it (`IdsArePhysical`) |
| `HealthGaps` | two pools, totals 0 to 2, three steps | extremes and ratios are exact, unless a total or a ratio was 0 (`GapsExact`) |
| `LineEditor` | a line of one character, a history of two, four lines | the history holds the last different commands that succeeded, newest first, none twice, and the cursor stays on the line (`EditorSound`) |
| `Settings` | up to three options, calls and requests of one or two | options that name different settings mean the same in either order, host-leaks stands alone, the events suffice for the analyses and a device remains (`SettingsSound`) |
| `Inefficient` | two blocks of three events, two threads, three APIs, a start or a stop of tracing | labels are those of the definition, for blocks whose allocation was traced; others have none; unless an operator was started before the end of another was seen (`LabelsRight`) |
| `MemoryCompare` | dumps of up to three lines, some of four, of an operator, a kernel and a size, with a bad name or a bad line; two frameworks, either level or both | unless the search took too long, every operator of the levels asked for is shown once and in order, and as many equal names are paired as can be; a side with a bad name is left out, and both sides for MindSpore's operators (`AlignsAll`) |
| `PythonTrace` | three functions, one ignored, one in C, three calls | events are of calls and close what they opened, though calls may pass unseen without a device or hidden by contextlib, unless the trace met what it cannot follow: a call without an entry right inside a call of the same function, a C function that fails, a stop inside an ignored one, a collection switched during a call (`PairsAreCalls`) |
| `Owners` | two threads, one with up to three open labels, one with one; one block; three labels of one level, one of another, two of users; stacks of two | a block has the innermost label of every level at its birth and the users' in their order, in whatever order they are closed, unless a stack was overfull (`OwnersRight`) |
| `StepTracking` | four marks of one thread and an allocating one; two marking threads in both ways | a block is charged to its step, is called a leak only after a later step, boundaries are in order and of one source (`StepsRight`) |
| `Hijack` | two functions of one module, two units of two priorities, an import and a reload or a failed import, one call | a call runs what is registered in the order of priorities and the function once; after the last release a name stands for the function again; a unit of an import runs once for it; what came or went during an import is exempt (`HijackSound`) |
| `ControlFrames` | two responses of up to seven bytes, payloads of eight, a socket that holds four | however chunks are halved and bytes are portioned, the controller shows a beginning of the response, is done with all of it only, and never waits for one that was sent (`ResponsesWhole`) |

A property with several conjuncts (`RecordedOnce`, `HooksAreSafe`,
`SessionIsSound`, ...) names them in its definition; each is stated and
commented on its own. `BooksKept` is of two parts: its mutant in `PROJECT.json`
changes `HostBook`, and a removal that moves entries past their homes (`Movable` of
`BlockTable`) violates it as well.

### Violations

Three runs end in a violation; each shows the code doing something other than
what a comment says of it.

* `MC_TracePipeline_held_state` (`HeldStateIsLive`): a start promotes under
  `mtx_` alone and erases blocks that were freed in the shadow. A hook that has
  just been given a pointer to such a block under `processMutex_` goes on using
  it.
* `MC_ControlSession_interrupted` (`AnswerIsOwn`): a wait that is given up keeps
  the session and its sequence number, so the late response passes for the
  answer of the next command.
* `MC_HostLeak_zeros` (`SnapshotWasTaken`): for the analyzer a window is open
  from its START, which is announced before the gate of the hooks is opened, to its
  END, which is announced after the gate is shut. An overview that is asked for in
  either gap passes both looks at the window, gets a snapshot nobody took, and shows
  its zeros as measured; the comment at `host_mem_hooks.cpp:3723` says the
  look of the caller has ruled that out. In the shortest behaviour the window is
  still opening.

Further configurations show counterexamples to what the source says or a reader
would expect; run them with `tlc -config X.cfg <module>`, the module being the
one the name begins with:

| configuration | property | what the code does |
|---|---|---|
| `EventRouter_dump_first` | `ExitFlushes` | the comment on the constructor of MemoryStateManager says its singletons are constructed first; Dump is not among them, and if it is first it is destroyed too early |
| `MC_HostHeap_reopened` | `RefsCounted` | `ClearTables` keeps entries with the references of blocks it has forgotten, which `host_mem_common.h:71` does not count |
| `MC_HostHeap_frozen` | `FreezeLosesNoFree` | a free that read the freeze flag just before it was set and the gate after it was shut goes by unrecorded, and its block stays in the ledger |
| `MC_HostHeap_oom` | `CloseEnds` | `RecordSeriesRow` returns with `g_seriesMtx` locked when it has no memory for a new series; the next close waits for ever |
| `MC_HostLeak_stuck` | `ExitEnds` | `UnSubscribe` waits for the lock of the dispatcher without the bound the comment beside it speaks of |
| `MC_TraceControl_exit` | `ExitClosesWindow` | a start that has decided may open the window behind the exit (the hooks then refuse by a guard of their own) |
| `MC_TraceControl_lock_cycle` | `NoLockCycle` | `SetTraceStatus` waits for the interpreter lock with `mutex_` held, while Python takes them the other way round; `RequestsEnd` exempts exactly this |

### Further disagreements

Met while modelling; unless it says otherwise the models contain them.

*The pipeline.* `ResetUsageBaseline` raises the usage without the peak, so the
peak may be below the usage until the next traced allocation
(`memory_state_manager.cpp:331`). A hook that decided for shadow mode just before
a start adds its block after promotion; the session keeps a shadow block it
does not report until the next start, so `CalmStartSettles` is about starts that
met no call. If the driver hands an address out before its FREE is reported,
the late FREE takes the registration of the new block; `BooksAgree` is
restricted to the other policies. Promotion and the flush at a stop write
through Dump without the lock of the dispatcher.

*Steps.* The event of a range end never carries its range id, so any range that
ends inside a step ends the step (`EndsOwnStep` of `StepTracking`, with one thread
and a foreign range in a step, does not hold). Under `msmemscope.step()` a range end is still the end of a step, as
`HandleMstxRangeEnd` does not look at `stepSource_`; two concurrent calls of
`step()` may take time and number in opposite orders. HealthAnalyzer takes a
greatest total or a ratio of 0 for "nothing yet" (`health_analyzer.cpp:208`, `:247`), so
that extremes that include one may be wrong; `GapsExact` is about the others.

*Control.* A chunk of a long response may end within a character (`ValidIsSent` of
`ControlFrames` does not hold once characters have two bytes); `frame.dump()` then
throws in the listener thread, where nothing catches it, and takes the process
down. Besides the two configurations above, `set config` writes the
configuration before it subscribes the analyzers, and neither is serialised
with a start (`control_command_handler.cpp:590`); the answer says "applied at
next start" where the host window may open at once; a start and a stop that
race may leave status and collectors in disagreement; the `aclInit` hook judges
outside `mutex_`; two Python starts at once promote and announce twice; the
control channel may overwrite settings another call made meanwhile with its
stale copy.

*Settings.* The comment at `control_command_handler.cpp:638` says control and
Python parse alike. They do not: with "none" control keeps the other tokens; it
refuses "oomfoo", which the command line and Python accept, and an empty
call-stack, which Python takes as "off"; both add to the stacks that are on
already; it does not check for the preloaded library. The full-content switch
is never taken back; a `config()` that is refused has already started or
stopped the trace of Python calls; an `--output` that is too long is ignored
silently; `--input` without `--compare` is refused.

*Attaching.* A controller that is refused ("already attached") removes the socket
file of the one that is still waiting (`attach_controller.cpp:887`); the waiting
one times out or aborts. `CheckSameUid` says that root may attach to the
process of any user (line 259), but `WaitAndAccept` asks for the user of the
controller itself (line 418); the model has processes of one user.

*Function hooks.* A wrapper forgets its original when its last hook is released, so
that a call that is on its way through it fails in the application
(`CallsSurvive` of `Hijack` does not hold). A first hook that is registered while its module is being
imported is not put in place when the loader has already asked for the wrapper,
or it is put in place twice, and the wrapper becomes its own original
(`hijack_utility.py:239`); a last hook that is released during a reload puts
the function of the previous import back. An explicit
`init_framework_hooks(decompose)` makes later automatic ones stand back
(`hijack_manager.py:98`), for ever, as `cleanup_framework_hooks` does not take the
flag back, but not those that came before it.

*Line editor.* Completing after a complete command offers its last word again; a
tab replaces the last word wherever the cursor is.

*Host heap.* Besides the configurations above: the guard `count + 1 >= cap` of
the block table cannot be reached as a failed growth refuses at 7/10 load
already.

*Host leaks.* If both the END of one window and the START of the next are lost to
the timeout, their figures are mixed; a lost START has no fallback, unlike a
lost END (`host_leak_analyzer.cpp:419`).

*Host memory and CPU tensors.* A FREE or an unregistration that `--steps` drops
leaves its address in `hostPtrs_`. `disable` frees the keys of a copy of its table
and clears the table after that, so that a tensor added between the two is cleared
without its FREE and leaves the stale entry the comment at
`cpu_tensor_collection.py:307` wants to avoid. A thread that has left its loop
to patch torch does so also after a `disable`. The part keeps the trace
on throughout.

*Devices.* Without dcmi a suffix of the list that is out of range is misjudged. A
probe that fails is taken to mean that the runtime heeds the list
(`event_report.cpp:428`), so that with one that does not the numbers are permuted, and
where the runtime has only `rtGetDevice` the current device is not translated at
all (`event_report.cpp:194`); `IdsArePhysical` exempts both.

*Kernels.* When a full buffer is dropped and the ids wrap around, an execution may
get the name of an older launch; the entry of a launch that failed makes
`KernelWatchEnd` (`runtime_hooks.cpp:51-60`) use the name of the previous kernel.

*Memory watch.* A watched address that has no dumps left makes the loop break
(`tensor_dumper.cpp:215`), so that one without a limit may be passed over
(`UnlimitedNeverSkipped` of `MemoryWatch` fails, against
`docs/en/user_guide/memory_analysis.md:415`). The name of the dump after the first
operator is made with the count of the first. `remove()` between the begin and the
end of an ATB kernel leaves `isRepeatWatch_` set; `watch()` between an outer and
an inner begin gives two dumps "after".

*Inefficient blocks.* Operators of several threads share `pidState`; labels then
depend on how they interleave. A block that was allocated while nothing was traced has
an event without an API id and is never labelled
(`inefficient_analyzer.cpp:191`), however it is used afterwards.

*Comparison.* A `BuildDiff` that is broken off still writes its part of the table;
several operators share the size of one next event of the framework; a bad name
in one dump empties that side only, and all of the other side is shown as if it were
new (`memory_compare.cpp:245`).

*Python calls.* A stop inside an ignored function leaves `throw_` set, so that
later calls are missed (against `memory_profile.md:80`); a C function that raises leaves its entry;
a call without a device has no entry, and its return ends the call of the same function around it;
nested calls of `__torch_dispatch__` pair the outer begin with the inner end;
frames open at the start are pushed innermost first; calls of `__exit__` of
contextlib are ignored when called but not when they return.

*Labels.* `EraseDescribe` compares the label as it was passed while the stack holds
what `ToSafeString` made of it; after nested labels A, B, A the address shows B; when a
fourth user label was dropped, its end erases an outer one of the same name.

### Bounds

Every bound is a constant of its module or named in `Parts` or `MC_Parts`.

*Pipeline.* Three blocks are enough for what the table is about: one that is live,
one residual at the same key, and one whose range contains the address of
another. Three addresses with sizes 1 and 2 give adjacent, overlapping and
covering ranges; `MaxFrees = 2` lets a block collect a second FREE. Two
threads give every interleaving of two events with a start.

*Trace control.* Four threads are the four kinds of caller (Python, control
channel, `aclInit`, exit), three requests a start, a stop and one that races with
either; the two collectors depend on different things, one on levels, events and
`aclInit`, one on a setting of its own, and the settings turn each on and off.
Whether a step is selected is not followed: with `--steps` an announcement may be held
back at any time.

*Attach.* Two controllers meet in all roles: waiting and refused, dead and finding
its file, in session and signalling; two commands and a modulus of 2 let the
sequence number wrap.

*Host heap.* Four calls of two threads on two addresses let a free meet the malloc
that reuses its address, and a realloc that fails meet both; tables of one or
two entries fill up with the second block; two windows let a call straddle one
boundary, both, or a whole window. `Plans` divides what may happen - many calls,
full tables, snapshots, a fork - among behaviours, each with the other bounds
small, so that the run stays exhaustive in each: one window with four calls and a
block table of two slots; two windows with four calls and one slot; one window
with three calls, snapshots and a fork.

*Host leak.* Three windows and five requests, with boundaries that may be lost, let a
window open at every step of the report on the one before, between a lost boundary
and a handled one, and stay empty between two that have data; two slots for three series make one be evicted,
four beats and two rows make one fold twice.

*Parts.* Chosen so that each container overflows or each id is used again once:
a buffer of four logs for three launches, a history of two for four lines, stacks of
two labels for three, a table of blocks that grows once, a socket smaller than a frame.
In `Inefficient` a behaviour ends when operators of two threads overlap.
`ControlFrames` keeps the proportions of the code (an escaped byte grows sixfold and
just fits), so that two escaped bytes are enough to halve a chunk.

`CHECK_DEADLOCK FALSE` is used throughout because bounded applications stop.

### Fairness

All of it is weak, and of steps inside a call that is under way; nobody is
obliged to make a call, type a command or stay alive. The bounds on calls keep a
mutex from being taken by others for ever, so that weak fairness is enough for
the wait for it.

* `EventRouter`: the steps of the destructor, a loop on one thread.
* `TracePipeline`: the steps of each hook and of the control thread.
* `TraceControl`: the steps of each request. Two requests that hold each other's
  lock have no step; `RequestsEnd` exempts them.
* `ControlSession`: a controller's own steps, time-outs included (30 s for the
  connection), and those of the listener.
* `HostHeap`: a request in progress and the end of a sample. The
  properties of the run are of safety; `CloseEnds` uses it.
* `HostLeak`: the steps of each request and of the exit. A wait for the
  dispatcher ends because the handler that holds it is such a step.

## What is proved

All theorems hold for every value of the constants, from the named assumptions
of the modules (types of the constants) alone, unless it says otherwise.

`EventRouterProofs`, with `--steps` dropping any report:

* `RecordsStayTyped` - the records keep their types;
* `NothingIsLost` - `Spec => []NothingLost`;
* `IdsStayUnique` - `Spec => []IdsUnique`;
* `SessionsAreResolved` - `Spec => []NoUnpromotedWhileTracing`;
* `ExitIsComplete` - if Dump outlives the table (`DumpOutlivesTable`; the
  configuration `EventRouter_dump_first` shows that it cannot be dropped),
  `Spec => []ExitFlushes`.

The inductive invariant is `RecordsTyped /\ Accounting /\
NoUnpromotedWhileTracing /\ ExitCovers`. `NothingLost` alone is not inductive:

* an erased id could be that of a second block, so ids have to be unique, and
  therefore issued by the counter (`IdsUnique`, `IdsIssued`);
* a block has to be accounted for exactly when it is no mere shadow block
  (`SeenIsTraced`), as shadow blocks may be erased unwritten;
* a traced FREE that reaches a SHADOW_CREATED block by containment would take it
  out of step with `seen`; `NoUnpromotedWhileTracing` says that there is none
  while events are traced;
* the destructor cleans up the keys it collected, so these have to be the
  domain of the table (`ExitCovers`).

All steps use one lemma, `SettledKeepsTable`: a step that puts a new table in
place and writes the blocks `K` keeps the accounts if ids in both are issued and
unique and every id to be accounted for stays or is in `K`. Each event is then
a lemma that shows what its table and its `K` are.

The second part of `EventRouterProofs`, on top of it:

* `RecordsAreOnce` - `Spec => []RecordedOnce`, and `RecordsStayWhole` -
  `Spec => []RecordsAreWhole`, if Dump outlives the table and every FREE that is
  reported meets its own block (`Paired`): no report is dropped, or all pools are
  the driver's, whose addresses are registered. `Paired` cannot be left out: the
  FREE of a framework block whose MALLOC `--steps` dropped is reported and may
  attach to a stale block that covers its address, which is then written with
  two FREEs.
* `TableStaysHeld` - `Spec => []TableIsHeld`, if no report is dropped.

The invariant is `Books`, together with the one above. Writing a block once needs
that no block of the table has been written before and that it has one FREE
exactly when it was freed in the shadow (`Rows`, `Marked`). That it has no second
FREE needs that a FREE finds its own block: registered addresses have open
blocks (`RegistryOpen`), the blocks the application holds do not overlap
(`Apart`) and are open in the table with their sizes, and no others are (`HeldIsOpen`, without
dropped reports). The meters are sums over the table: one key changes at a time,
or all are set to the sums (`Baseline`).

`MemoryStatesProofs` proves what the meters need of `SumFunctionOnSet`: the sum of a
finite set is a number (`SumType`), any element may be taken out first
(the lemma `SumTake`), and only the values on the set count (`SumSame`). The sum is a recursion over
subsets, and the induction theorem of the library takes an operator, which the
provers cannot instantiate; but its form for sets can be used: a well-founded relation has
a minimal element in every set that is not empty (`WFMin`), so the proofs refute
a smallest set for which the fact fails (`LeastSubset`).

`TracePipelineProofs`, for any number of hooks, pools, devices, addresses and sizes.
The assumptions say that the hooks report to pools the driver backfills
(`PipelineAssumption`) and that `None` is no hook:

* `PipelineStaysTyped` - `Spec => []TypeOK`. Ids are in a bounded range, and a FREE
  of an unknown block takes one as well as its MALLOC did. `CountBound` gives every
  call that may still take an id, and every live allocation for the FREE to come, a reserve
  of its own, so that the counter stays below twice the number of allocations;
* `HeldStatesStay` - without restarts, `Spec => []HeldStateIsLive`, also when the
  driver hands out an address again before its FREE is reported: what a FREE
  holds is taken under processMutex_, and only a promotion drops it without;
* `HooksStaySafe` - `Spec => []HooksAreSafe` if an address never comes back, or comes
  back only after its FREE was reported and nothing is started or stopped.
  `MC_TracePipeline_held_state` shows why: with addresses that come back and restarts, a
  start promotes the table under a FREE that holds one of its blocks;
* `BooksStayAgreed` - without restarts, `Spec => []BooksAgree`;
* `CalmStartsSettle` - under the hypothesis of `HooksStaySafe`,
  `Spec => []CalmStartSettles`.

`PipelineInv` is types, ids and locks and holds of every run, `TameInv` of the runs
`Tame` describes. Its core is `Stage`: what the heap, `halPtrs_` and the table
hold of a call's key at each place of the call; two calls are never about one
key (`Lone`), and a key no call is about has the same in all three (`Rest`).
`Rows` and `ShadowStays` say that a block of the table has not been written and stays
resolved while a session runs, `Session` that in a session that began calm the live
blocks are those of the heap and the meters their sums. A step of a hook touches its
own key only (`KeepsTo`), so each place needs one lemma about one key; a promotion is
the one step that touches them all (`PromoteTame`).

`ControlSessionProofs`, for any number of controllers (finite, and `None` is none of
them), commands, frames and sequence numbers:

* `SessionsAreSound` - `Spec => []SessionIsSound`: types, a signal that was
  heard while no session was active is answered or its byte is in the pipe, both
  ends agree on the session, no controller that is done leaves its file;
* `AwaitedAnswersAreOwn` - `Spec => []AwaitedAnswerIsOwn`.

`Agreed` ties both ends: a controller that is attached, or accepted the
connection, has the target's line, or that was hung up, which happens by an
exit or after it has gone. `WakeBound` counts the bytes of the pipe with the controllers
that have yet to signal, so that a byte is never refused by a full pipe.
`InStep` says where the one exchange of a controller is: its request, the
listener at work, or what is left of the response; only for controllers that
never gave up a wait, as `MC_ControlSession_interrupted` shows.

`HostLeakProofs`, for any threads and requests: `ReportsStayTrue` -
`Spec => []ReportsAreTrue`. `InTurn` says that one thread at a time opens or
closes, and what gate, boundary and closing snapshot are at each of its places;
`Kept`, what the analyzer knows, also when boundaries of other windows were lost: the
window it has open, no data in two reports, and a report for each window before that has
data and both its boundaries; `Queried`, that the snapshot of an
overview was taken after its window was looked up, so that it is of that window
when the number is the same at the end.

`TraceControlProofs`, for any threads and requests, any sequence of collectors that is
not empty and any settings of the analyses, levels and events the module tells apart, with
and without `--steps`: `CallsAlwaysSettle` - `Spec => CallsSettle`, an action property. It
must hold whatever requests that raced left behind, so the invariant `ControlInv` says
nothing of the books in general: requests in flight know of each other (`Aware`), a calm start
or stop has done at each place what the places before it do (`CalmStage`), and the
analyzers may lag behind the configuration only while somebody is on the way to
subscribe them (`Followed`). A start or stop that raced with its like only switches
the collectors under the lock, one by one, and those up to the current one are as they
should be (`Locked`, `SwitchStage`), so the last call settles them all.

`HostHeapProofs`, for any number of threads, addresses, stacks and any capacities:

* `WindowsInOrder` - `HostHeap` implements `HostWindow`. The invariant `Staged`
  says at which stage of a window which gate is up and what was announced; the
  hooks do not touch it (`HooksKeepStages`).
* `ChildIsSilent` - the child of a fork records no block and announces nothing.
  The thread that forked is at one of the places from which no step writes,
  and it is the only one left (`ChildSilent`).
* `ReportsAreComplete` - `Spec => []NothingBehindReport`: nothing enters a ledger
  behind the closing aggregate.
* `FreedIsNoLeak` - `Spec => []NoFalseLeak`: in an open window whose frees were
  all seen, the ledgers hold only blocks the application holds. This needs that calls
  in flight are about different heap blocks (`Apart`, which rests on the
  allocator never giving out a block that is held), what a call carries from one
  window into another (`CallsInv`), and that a block that was taken out of a ledger is
  in none until its call puts it back (`LeakInv`).
* `OwnersAreKept` - `Spec => []OwnersStay`. `RefsHeld` counts: an entry of the stack
  table has a reference for the table, each of its blocks, each call that has it in
  hand and a sample, so that a dead one (`refs` 1) has none of these
  (`DeadIsFree`). It is `>=`, not `=`: the child of a fork loses the calls of
  the other threads and the opening of a window the blocks of the last, and neither gives
  references back. A hook does one of seven things to blocks and entries
  (`HookKinds`): nothing, take or make an entry, drop it, store, capture
  or restore a block; the invariants are proved for each of these and not for each of
  the 17 steps.
* `BooksStayExact` - `Spec => []BooksAreExact`. The counts of an entry cover its
  blocks in the table and also the records that calls have taken out and may put back in the
  same window (`Taken`, `Bound`), or `live <= allocs` would fail at a refused
  realloc. That the sums are right needs that a block comes into a ledger that
  does not have it: what a call has taken away is in neither (`TakenAway`), nor is what
  a call is about to store, if every free of the window was seen (`Fresh`). A step then
  changes each set by the block or call at hand and its cardinality by one at most
  (`OneMoves`). `Threads` and `Addrs` need not be finite: the tables and the threads
  inside a hook are (`TableTypes`).

`PartsProofs`, for each part of `Parts`; a behaviour of `Spec` is one of one part, so each
theorem is about every behaviour of its part:

* `NamesStayRight` - `Spec => []NamesRight` (`KernelLink`), for any threads, task keys and
  buffers, unless the reader of the log threw a full buffer away. `LaunchWaits` says that
  the entry of a launch that is under way is the last of its thread and waits for its
  key. `Linked` says that a key has one entry, that all that is still to come of the key is of
  the launch the entry names, and that an end is among it which will use the entry
  up; so when a key comes again, its last entry is gone.
* `DumpsStayAsAsked` - `Spec => []DumpsAsAsked` (`MemoryWatch`), for any limits, negative
  ones being none. `LimitsKept` counts the dumps of an address against what
  it was given, `SidesOf` says at each place of a worker which sides it has written.
* `GapsStayExact` - `Spec => []GapsExact` (`HealthGaps`), for any pools and totals. What is
  kept are the extremes of what has been reported, with the zeros that are taken for
  none as an exception of their own; ratios are compared by cross products, whose
  order is total on the ratios a pool can have (`LessIsTransitive`).
* `IdsStayPhysical` - `Spec => []IdsArePhysical` (`DeviceIds`), for any list and any
  machine, failing probes and the old interface included, with the exemptions above. `ParsedRight`: the list that is used is the parsed variable under
  what dcmi said first, which stays; `TranslatedRight`: every number that was handed out is that
  of a card the machine shows. What is left is about lists: parsing keeps the valid tokens
  at the beginning as far as there are cards (`PrefixIs`), and a logical number is the position
  of its card in what the runtime shows (`NumbersAreRight`).
* `StepsStayRight` (`StepTracking`), for any threads, addresses and thresholds and all that
  `Plans` lets an application do: boundaries are in order and of one source, always;
  and the other two conjuncts of `StepsRight` hold under `InOneWay` - one thread marks the
  steps, in one way and without other ranges, or nobody allocates. Without it they do not hold:
  two `msmemscope.step()` at once may take their timestamps and their numbers in opposite
  orders, and the end of a range inside a step ends the step. `StepTimes` says
  that no timestamp is taken twice, `StepSources` that numbers come from the counter
  of their source, also those still on their way. For one who marks, `InTurns` says that
  steps are counted, stamped and delivered in turn, and `BornAfter` that a block that took
  its timestamp after n marks is later than the first n boundaries and earlier than the others,
  the one on its way included. So the search by time finds the step the block
  was born in (`ChargedRight`), whatever the order in which boundaries, blocks and
  ends are delivered; and `EndsAreEnded` - an end that is on its way is of a step that was ended -
  gives that a leak has outlived its step.
* `ResponsesStayWhole` - `Spec => []ResponsesWhole` (`ControlFrames`), for any texts,
  overheads and capacities. `Stream` is what is on its way: the bytes the reader
  has and those on the wire. They are in the order of frames and of the text (`InOrder`), begin where the
  reader's text ends (`Begins`), and the sender goes on behind the last of them (`Follows`,
  or `FollowsText` when there are none); none of it depends on how chunks are halved or
  bytes portioned.
* `BooksAreKept` - `Spec => []BooksKept`, of two parts:
  * `HostBook`: an address of host memory has at most one open MALLOC and no FREE
    without one, and a pending enable is served. The invariant `BookInv` ties `halPtrs_` to
    `hostPtrs_` (a registered address is there as pinned), each entry to one open
    MALLOC, and a pending enable to handlers not yet set.
  * `BlockTable`: `TableIsMap` for any hash, any capacity and any history of
    insertions, growths and removals. `TableInv` says that the arrays hold the map
    (`Holds`): every block is in one slot, with its value, and no slot between
    its home and it is empty; and that the count is below the capacity, so that
    a probe meets an empty slot and ends. A removal moves entries back into the hole it
    leaves; between two moves all is as it should be but for the slot of the hole (`HoldsBut`), and the
    empty slot ahead comes nearer with each turn (`IsTurn`), so that it is reached before
    the turns run out. A growth inserts the
    entries of the old arrays one by one into the new ones (`MovedHolds`).

Induction is used as in `MemoryStatesProofs`: a least counterexample is refuted.

### Only model-checked

Liveness (`ExitEnds`, `CallsReturn`, `AttemptsEnd`, `RequestsEnd`) and what uses
ENABLED are out of the prover's reach. `GrowthIsReal` is about rows that were
appended, folded, joined and sorted by folds over sequences, `SettingsSound` and `AlignsAll` about
what recursive functions make of a list, and these take induction over data. The
other parts of `MC_Parts` - `LineEditor`, `Inefficient`, `PythonTrace`, `Owners`
and `Hijack` - are checked on their instances only, and so is what
TracePipeline does when addresses come back early and sessions restart.

## Not modelled

* Everything that only formats or moves data: files of the dump (CSV, SQLite), logs,
  tables on the screen, reading of dumps and of tensors from the device, utilities.
* Python stacks of host blocks: frames of the interpreter, guarded by one lock.
* OOM analysis: sorts the live blocks of one moment for display.
* Of the modelled components: tensor totals and queries for display; the
  handling of failed allocations; kernel and operator reports, which wrap
  their arguments; the profiling of the driver; host leaks in LeakAnalyzer;
  subscribers other than the host leak analyzer meeting the dispatcher's timeout;
  frames of a foreign protocol, the listener of a forked child; which functions
  are hooked (`hijack_manager.py`, `triton_collection.py`), hooks of others on the
  same function, and classes and their heirs as places of functions; the commands step, export and display;
  capturing and naming frames, the aligned allocators and the allocations before
  the real functions are known; layout and confidence rules of the leak report,
  the guard of `~HostLeakAnalyzer` in a forked child; splitting of
  option values; launching; the interpreter and the frameworks themselves.
* Time-stamps of records, and the peak of a pool.

`PROJECT.json` lists the components with their status, and under `hazards` what
no property covers.

## What is left

In order of importance: proofs of the parts that are only model-checked; the other subscribers of the dispatcher and their timeout; failed
allocations and OOM snapshots; the peak and the time-stamps of records (a MALLOC
that slipped in after a stop may bear a later one than its shadow FREE,
`memory_state_manager.cpp:696`); the collection of selected steps under nested
ranges (`event_report.cpp:1778`).
