# Kira's runtime, specified and checked

Kira programs run in a hybrid of a bytecode VM and native code. This directory
holds TLA+ specifications of the parts of that runtime that keep state and meet
interference, TLC configurations that check them on small instances, and TLAPS
proofs for every instance where they exist. Three groups of parts are covered:

* live reload: `kira live` keeps a program running while its sources are edited;
  a supervisor process rebuilds and sends the new program to the runner process,
  which swaps it in between two callbacks, or is killed and relaunched;
* the cooperative executor of async tasks, in C and in the VM;
* the native code under Foundation and under compiled programs: files, calls of
  native functions by pointer, arrays, closures, tokens and text.

Paths below are relative to the repository root.

## 1. Inventory

The repository is a compiler and its tool chain (some 130 000 lines of Zig in
`packages/`, some 2 000 of C in `packages/kira_native_bridge` and `foundation/`).
Most of it is a sequential pipeline (lexer, parser, semantics, IR, bytecode, LLVM
and shader back ends) or I/O around it (CLI, tool chains, manifests). State that
several actors share, or that outlives a step, is in these parts:

| part | state | operations | hard because |
|---|---|---|---|
| hot swap (`kira_hybrid_runtime/src/hot_swap.zig`, `hot_swap_compat.zig`, `kira_vm_runtime/src/vm_reload.zig`) | mailbox under a mutex, callback depth, generation, completion flag, retired modules | `stage`, `enterCallback`, `evaluate`, `commit`, `exitCallback` | listener and main thread; ids and layouts in live values become stale; a parked frame; partial failure of commit |
| hybrid runtime and VM (`runtime.zig`, `native_calls.zig`, `vm.zig`, `vm_native_closure_bridge.zig`) | module, trampolines, prepared-code cache, closures, exported blocks, native-state boxes | native call, callback, make / export / import / release function values, make / free boxes | nesting of native and VM frames; a cache keyed by an address that does not change |
| supervisor (`kira_live/src/supervisor*.zig`, `apple_session.zig`) | child process, connection, bundle graph, generation | spawn, accept, handshake, watch, rebuild, attempt a hot reload, relaunch, quit | timeouts that race answers; blocking sends; edits at any time |
| source watcher (`source_watcher.zig`, `watch_inputs.zig`) | last seen state of each file | `changed`, `refresh` | editors write concurrently |
| runner (`runner_support.zig`, `reload_listener.zig`, `runner_client.zig`) | bundle directories, two threads on one socket | connect, receive, link, run, listen, stage | both threads write; either may block; the listener may die |
| task executor (`kira_native_bridge/src/runtime_helpers_tasks.inc`, `kira_vm_runtime/src/vm_tasks.zig`, `vm_interpreter_tasks.zig`, `kira_ir/src/async_state_machine.zig`) | FIFO of tasks, task states, deadlines, the bodies being driven | spawn, await, poll, cancel, detach, yield, sleep, drain | awaits nest on the stack while other bodies suspend; a cancel or a detach at any point; two implementations of one contract |
| Foundation file system (`foundation/NativeLibs/FS/fs.c`, `foundation/app/FileSystem.kira`) | a `File` handle; everything else is on the disk | read, read all, read range, write, make directory, rename, remove, list, free | each call is several system calls on a disk others change; any of them, or an allocation, may fail |
| dynamic FFI (`kira_native_bridge/src/dynamic_ffi_helpers.c`) | the loaded libffi, the last error, call builders, raw memory | open / close a library, build a call, invoke, read / write memory | the function called may call back and make further calls; loading is lazy and retried |
| native values (`kira_native_bridge/src/runtime_helpers.c` and its `.inc` files) | arrays and their buffers, elements, closures, the registry of native-state tokens | allocate, append, store, take, clone, release, export, dispose, exit | two allocators; ownership moves by convention; rejected stores; failed allocations |
| argument parser (`foundation/NativeLibs/ArgumentParser`) | none | classify and split a token | boundaries |
| ownership heap, build cache, package manager, debugger | reference ownership, fingerprints, lock file, breakpoints | | planned |

Interaction: the supervisor and the runner exchange frames over one TCP stream;
inside the runner the listener thread hands programs to the main thread through
the hot-swap mailbox, and the main thread reports swap events back over the
stream. A swap waits until the task executor is idle. The native helpers are
linked into the program; in a hybrid build the VM installs its own allocator and
closure destructor in them. `FileSystem.kira` calls the file layer and frees
what it returns.

What makes the parts correct: after any number of swaps every live value means
what it meant when it was made; no frame runs code that has gone; a report of
success is true and belongs to the attempt it is credited to; no edit is lost; a
task runs once and its result is joined at most once; a call that reports success
did what it says, whatever happened beside it, and one that fails gives back what
it took; memory is owned once and freed once by the allocator it came from;
nothing blocks for ever. `PROJECT.json` lists the hazards line by line with the
property that covers each.

## 2. Modules

| module | models | role |
|---|---|---|
| `HotSwap` | the swap inside the runner process | specification and properties |
| `MCHotSwap` | | small programs for TLC: one edit of each kind `evaluate` can meet |
| `HotSwapProofs` | | theorems about `HotSwap` |
| `LiveSession` | supervisor, socket, runner, editor | specification and properties; run directly |
| `LiveSessionProofs` | | theorems about `LiveSession` |
| `TaskContract` | what a task promises | abstract specification |
| `TaskExecutor` | both executors | specification, refinement of `TaskContract`; run directly |
| `TaskExecutorProofs` | | theorems about `TaskExecutor`, the refinement among them |
| `Disk` | the operating system's file system (external) | operators on disks |
| `FileSystem`, `MCFileSystem` | `fs.c` under several callers | specification and properties; a small tree |
| `FileSystemProofs` | | theorems about `FileSystem`, lemmas about path walks |
| `FileReadProofs` | | that `FileSystem` reads exactly |
| `FileRemoveProofs` | | that `FileSystem` removes the tree it was given and nothing else |
| `NativeMemory` | scalars in bytes and argument words | operators |
| `DynamicFfi`, `MCDynamicFfi` | libffi loading, calls, builders, raw memory | specification and properties; two libraries |
| `DynamicFfiProofs` | | theorems about `DynamicFfi`, lemmas about `NativeMemory` |
| `NativeText` | string primitives, token functions | operators |
| `NativeValues`, `MCNativeValues` | arrays, elements, closures, tokens, text calls | specification and properties; short texts |
| `NativeValuesProofs` | | theorems about `NativeValues` and `NativeText` |

Definitions marked `Mutant` are plausible bugs of one definition; each property
is shown to fail under one of them, so that it is known to say something.

### HotSwap

Two threads. `Stage` is the listener. Everything else is the main thread, which
is in native code (`pc = "native"`), in a VM frame (`"vm"`), inside
`enterCallback` with a swap taken (`"took"`), or stopped by a panic. `stack`
holds the VM frames; the first is the entry function, which stays parked under
the event loop for the whole session.

A program is a function table (id to name and signature) and a type table (name
to layout). Bodies, signatures and layouts are abstract values, because
`evaluate` only compares them. Structs and enums share one table: the same rule
applies to both.

`enterCallback` is split where another thread can intervene: `EnterCallback`
(nothing to do), `TakeStaged` (the locked take), and one of `DeferSwap`,
`RejectSwap`, `CommitFails`, `CommitSwap`. Each of these ends with `Dispatch`,
the rest of `invokeRuntime`: it pushes the callback's frame, or fails before the
first instruction (an unknown id, an argument that cannot be converted). Then the
deferred `exitCallback` runs first (`Leave`, which may send `completed` as any return
does, `Completes`) and the process panics (`runtime.zig:456-468`), unless the error
is one the VM raises at run time, which panics inside the call with the depth as it is
(`Stay`). `CommitSwap` is the whole of `commit`, including the
two `unreachable` branches, which are explicit states. An allocation failure in
`evaluate` has the effect of `CommitFails` with the trampolines unchanged.

A live function value (`slots`) is a heap closure, a block exported to native
code, or a bare function id (`const_function`). The fields `means` and `current`
are history: which function it was made for, and whether by code of the module
in force. Reads of either never guard an action.

Not in the model: the KIRA_HOTSWAP_DISABLE switch (read from the environment at both
ends of a callback; taken to be unset), marshalling of arguments and results,
an entry function with a native body (`run` then pushes no VM frame to park),
closures whose body is native (while one lives every swap is rejected), and the
generation of lambda names (the model takes a name to identify a function).

### LiveSession

Four actors. The supervisor's program counter `pc` walks through `runDesktop`
(`Desktop = TRUE`) or `driveLiveSession` for a macOS app (`Desktop = FALSE`): the
two share every wait and differ in when the watcher is made and what follows a
failed attempt. The runner has a main thread and a listener thread, each with
the frames it still has to write; the socket is two bounded FIFOs, so a write
blocks when nobody reads. The mutex of `sendText` is not represented: a frame is
written in one step, and when the socket is full both threads wait either way.
The editor saves at any moment, in place or by unlinking first.

The swap appears as it does from outside: a mailbox whose content is applied,
rejected (always possible: a live function may be gone), or left (deferred).
`Source` keeps of a save what the flow depends on: does it compile, did the
native library change, did a layout change.

The watcher's refresh is two steps, list and stat; a file that an editor has unlinked
in between ends the session with an error (`RefreshFails`).

Timeouts are ordinary actions of the supervisor that may come at any time
during the wait, so every race between a deadline and an answer is explored.

Left out: markers sent together are counted once; log lines the supervisor
ignores are kept only where the room they take in the socket matters; shutdown
during the initial bundle exchange cannot happen (the supervisor sends it only
from the watch loop); errors writing to the supervisor's own terminal.

### TaskContract and TaskExecutor

One thread. `stack` holds the bodies being driven, main at the bottom; `queue` is
the FIFO from its head on; `task` holds the fields of a `KiraTask` that decide
anything. A body of kind `work` runs to completion and its awaits nest
(`Await`, then `Drive` and `JoinDriven` are the loop of `kira_task_await`); a
`machine` body is what `async_state_machine.zig` makes of an async function: it
suspends to the back of the queue, with the task it is waiting for in `parked`,
and polls (`PollJoin`) each time it is driven; a `ready` body is a value. A machine
body may call a function that was not transformed (`CallHelper`), whose awaits,
yields and sleeps nest or act on `kira_task_current`. `Drained` is the end of both
loops: of the end-of-run drain, and of an await whose task cannot come, which the
code aborts on. `Return` of main starts `kira_task_drain_all`.

A handle is used only by the function that spawned it, as the compiler enforces
(KSEM158). Arguments, results and the freeing of task records at exit are left
out; they decide nothing. The VM's version differs in representation only
(an index for a pointer, a heap register for a result) and shares the module;
"map" names the C lines, and the comments of the module the VM's.

`TaskContract` has no queue and no stack: a body is entered and goes on from where
it suspended, never once a cancel was asked for, finishes at most once, and its
result is joined at most once and only if it was neither cancelled nor let go.
`KeepsContract` maps a pending task to `running`, `suspended` or `ready` by
whether it is on the stack and has started.

### Disk and FileSystem

A step of `FileSystem` is one system call of `fs.c` with the straight-line code
around it, so that the steps of two callers interleave where the operating system
lets them. `call` is the call in progress: the program counter, the open file, the
allocated capacity, what was read or written so far, the recursion stack of
`fs_remove_path`. `blocks` and `fds` count what the caller's calls hold. Each system
call and each allocation may also fail, at most `MaxFaults` times. `windows`
chooses the build: counts are then taken modulo `Dword` as the code's casts to
`DWORD` do, an open file cannot be changed by others, and a link is a directory link
(a symbolic link to a directory, or a junction; `GetFileAttributesA` reports both as
directories without looking at what they lead to, `DirLike` and `IsTree`).
`hist` and `alone` are history: the disks during a call, for properties such as
"at some moment of the call".

`Disk` is external: it says what the system calls do, as far as `fs.c` can tell
(stat and lstat, directories, one level of links, reading and writing at a
position).

Left out: the test functions as calls of their own (they appear inside the calls
that use them), permissions and other error codes (any call may fail), paths
longer than the instance's, short writes that make no progress, links to files on
Windows.

### NativeMemory and DynamicFfi

`stack` holds the native functions running, innermost last, so that a call is
open while the function it called makes further calls: `FfiCall` is everything up
to the jump, `FunctionReturns` everything after it. `EnsureLibffi` is the lazy
load with its retry after an incomplete library; `Install` lets a library appear
between two tries. A builder keeps the words `kira_dynamic_call_append` stored and,
as history, what was asked. Types, words and memory are modelled with their
conversions: two's complement, widths, byte offsets, little-endian order
(`NativeMemory`), with small bytes and widths.

One thread: the globals of the file are not synchronised, so calls of several
threads are outside what the code supports. Left out: `kira_ui_write_quad`
and the other bulk writers of UI vertices, the C-string helpers and the pointer
arithmetic, which are loops over the modelled writes; and the result slot of the
fixed-shape wrappers, an `int32_t` where libffi writes a whole `ffi_arg`
(`dynamic_ffi_helpers.c:618-619`, `632-633`), on which no property depends.

### NativeText and NativeValues

`heap` is the block at each address, with its kind and the allocator it came from;
`array` the `KiraArray` at each header address with its buffer; `locals`, `held`
and `field` what the program owns; `registry` the list of native-state tokens.
`hybrid` chooses the build: with the VM's allocator and closure destructor, or
with libc only. A hybrid program has closures of both allocators: those native code
makes come from `malloc` (`backend_capi_closures.zig:22`), those the VM exports from the
VM's allocator. `exported_native_closures` is the VM's list of the latter, by which its
destructor tells them apart (`vm.zig:251-269`, `ClosureFree`, `Unexported`). The program is what the compiler emits: it uses what it owns,
gives each value up once, and may pass any index. An allocation may fail anywhere;
the code's response (return NULL, drop, abandon a clone half-way) is in the action.
`fault` records a free that libc or the VM's allocator would not survive.

Text calls (`TextCall`) are pure functions and share nothing with the rest: a
behaviour makes one call on one short text. `kira_string_from_f64` starts from the
mantissa and exponent `snprintf` printed; the property compares the value the
result denotes, by arithmetic, with the one the input denoted.

Left out: printing and tracing, integers and booleans to text, copies of strings,
`kap_is_help_token`; what a closure captures, and so the hook by which native code
releases it, and the VM's sweep of exported blocks at its own end.

## 3. Runs

| run | cfg | expects | states | shows |
|---|---|---|---|---|
| `hot_swap` | `HotSwap.cfg` | pass | 3.6 M | two stagings of every kind of edit, accepted or rejected, nesting depth 2, two values |
| `hot_swap_progress` | `HotSwapLive.cfg` | pass | 10 k | a staged swap is settled |
| `function_values` | `HotSwapFunctionValues.cfg` | violation | | bare function values are not remapped |
| `live_desktop` | `LiveDesktop.cfg` | pass | 2.0 M | what the desktop supervisor believes when idle is true, and no runner is left behind |
| `live_desktop_progress` | `LiveDesktopProgress.cfg` | pass | 129 k | over a socket that does fill up: every build sent gets to run, unless the session ends or the send stays blocked |
| `apple_stale_completion` | `LiveAppleStaleCompletion.cfg` | violation | | a late answer completes the next attempt |
| `forgotten_edit` | `LiveForgottenEdit.cfg` | violation | | a save during the initial build, or during a rebuild, is not built |
| `task_executor` | `TaskExecutor.cfg` | pass | 338 k | the executor keeps the contract, loses no task, and ends |
| `drained_join` | `TaskDrainedJoin.cfg` | violation | | the end-of-run drain takes a result that a suspended body is waiting for |
| `file_system` | `FileSystem.cfg` | pass | 524 k | two callers, one failure anywhere: nothing leaks, reports are true, every call returns |
| `dynamic_ffi` | `DynamicFfi.cfg` | pass | 2.0 M | nested calls, retried loading, builders, overlapping writes |
| `native_values` | `NativeValues.cfg` | pass | 446 k | ownership in both builds with any allocation failing; text primitives |

The violation runs state what a comment or document of the repository says and
show an execution of the code that contradicts it; the `findings` of
`PROJECT.json` quote the lines. They sit beside passing runs of the same
subject where the code does keep its word: `CompletedMeansRunning` holds on the
desktop because every outcome but `completed` replaces the runner and its
connection; `ClosuresDenote` holds for closures made by code of the module in
force; `KeepsContract` holds because a result the drain takes is one the contract
lets the executor drop, while `JoinsAreHonoured` asks that the body that still
waits for it be told the truth.

Bounds.

* `HotSwap`: `MaxStaged = 2` lets a staging replace, or arrive during, another, and
  two swaps follow each other. `MaxDepth = 2` is the least depth at which an
  outermost callback differs from a nested one. Two slots allow a closure and the
  block exported from it. Two type names let a type appear. `Slots` are symmetric
  where no liveness is checked.
* `LiveSession`: three saves suffice for an attempt, its late answer and a further
  attempt. In `live_desktop` the socket holds a whole build. In
  `live_desktop_progress` it does not (a build is four frames, the way down holds one,
  the way up two), so that sends do block at both ends: behind a dead listener, and
  against each other. Both runs let editors unlink before they write.
* `TaskExecutor`: three tasks give a parent, a child it waits for and a bystander
  driven in between. Two calls per body and three by main let a body spawn and
  join, and main spawn twice and join, or cancel, or detach. `MaxClock = 1` is one
  deadline that has or has not passed.
* `FileSystem`: two callers with one call that takes a path each (and two reads
  through a handle), one failure. On POSIX the tree has a file of two bytes, a link and
  nested directories, so that a removal recurses and could follow a link; on Windows a
  link leads to the directory with the file and an empty directory, so that a removal
  recurses and does follow one. `MaxPath = 2` is two levels below the root.
  `Dword = 2` makes a file of two bytes one that does not fit a count.
* `DynamicFfi`: three calls, two of them open at once. A byte of two values and
  widths of one, two and three bytes give every carry and sign case. The block of
  memory shares no state with the calls, so `BlockAlone` explores it separately.
* `NativeValues`: three blocks, two headers and a first growth of two slots let an
  array grow, be cloned and fail half-way. `OneElementType` keeps to arrays of one
  element type per behaviour, since elements of different types never meet.
  A buffer that doubles needs arrays longer than the instance's two elements; that
  case rests on the proof alone, as does, in `TaskExecutor`, a body that is cancelled
  after it suspended below the canceller (more calls than `MaxFuel = 2`).

Deadlock checking is off because a session may end, a program may panic, abort or
exit, and callers may be done.

Fairness. In `HotSwap`: the main thread does not stop inside `enterCallback` (weak
fairness of `DeferSwap`, strong of settling, as the choice of deferring alternates with
it) and an event loop that keeps returning to the outermost level with a handler
calls it (strong fairness of taking). That frames keep coming and that tasks are
idle at some boundaries are hypotheses of `StagedIsSettled`, not fairness: the code
does not guarantee them. In `LiveSession`: each process or thread that can move
moves (weak fairness of the supervisor, main and listener threads, which the
operating system schedules) and a timed wait reaches its deadline. Crashes, the
editor, logging and quitting are never forced. In `TaskExecutor`: bodies return
(their calls are bounded), the executor's loops go on, and time passes while
someone waits for it: weak fairness of `Return \/ LeaveHelper`, of `Executor` and of
`Tick`. No task is chosen by fairness; the FIFO has to see to that, which is what
`EveryTaskEnds` checks. In `FileSystem`: a caller inside a call keeps running (weak
fairness of its next step). No system call is forced to succeed.

## 4. Proofs

Every theorem holds for all values of the constants that satisfy the named
assumptions of the component's module; TLC evaluates those assumptions on the
instance it checks. Each proof follows one pattern: an inductive invariant
`IndInv`, stronger than the properties; a lemma per action (and per kind of
change) that keeps it; the properties as its consequences. Every `IndInv` was
checked with TLC on the component's instance before it was proved.

### HotSwap

`HotSwapProofs` proves, for every set of programs, names, ids, slots and every
bound, each safety invariant that `HotSwap.cfg` checks, and the
action property. Assumptions: `ModulesAssumption` (the programs are well formed
tables, the first one among them) and `MarkersAssumption` (the markers for
"nothing" differ from real values).

The invariants are not inductive one by one. `IndInv` joins three groups:

* `TypeOK`.
* `SwapInv`. `Shape` ties `callback_depth` to the number of frames and to `pc`: this
  is what makes "outermost" mean "no frame but the entry frame".
  `PreparedCurrent` says the code cache is empty or of the module in force, so a
  dispatch runs current code. `FrameLayouts` says every type of a frame's own
  module survives unchanged in the module in force, which the parked frame needs
  when it builds boxes. With these, `ClosuresDenote`, `CallbacksRunTheirFunction`,
  `CallbackFramesAreCurrent`, `LayoutsHold` and `CommitIsInfallible` are preserved.
* `HandOverInv`. `Versions` orders the versions in the mailbox, in hand and settled;
  `PendingInCallback` says a pending completion belongs to a callback still
  running. With these, `NewestStagingNotLost` and `EveryApplyCompletesOnce` follow.

The central step is `CommitSwap`: lemma `MapKeepsName` (the id map preserves
names, as matches are unique by name) gives the values; `LayoutsSurviveIsPreorder`
carries layouts across successive swaps; `Shape` shows that only the entry frame
is below. `RunningCodeIsAllocated` is proved separately from `IndInv`, and
`CompletedByNewCodeOrAtPanic` from `IndInv` and the step: it says of each `completed`
sent that the frame just left ran code of the program reported or that the process
panics, which is what the lemma `DispatchReports` shows of a dispatch that fails.

### LiveSession

`LiveSessionProofs` proves `TypeOK`, `CompletedMeansRunning`, `WatchingMeansCurrent`,
`NoReportOutlivesItsAttempt`, `NativeCodeMatches`, `RelaunchesAreEarned` and
`NoRunnerIsLeftBehind` for any number of saves, any socket capacities and any
number of stray log frames. Assumptions: `SessionAssumption` (the bounds are
naturals, the capacities positive) and `NoneAssumption` (the marker for "nothing"
is not a program). `CompletedMeansRunning` is a theorem of the desktop
supervisor (`Desktop`), as the run `apple_stale_completion` shows it must be. None
of the others assumes anything of how editors save.

The properties speak of the moment the supervisor is idle; what makes them true is
where an attempt is in between. `IndInv` says so for every moment: a reload
attempt of the desktop supervisor is in exactly one place (frames on their way,
a bundle the listener still has to stage, a staged program, a program applied and
not yet reported, or one report on its way back), the frames carry the program
built last with its main bundle last, and a report tells the truth about the runner
(`Lifeline`, `Launched`, `Frames`, `Attempt`, `Answers`, `Current`). `Natives` ties
the native code in the runner to the one it was launched with, `Builds` counts:
every relaunch spends a build and every build a save. `Alone` says at which points
a runner may be alive: `NoRunnerIsLeftBehind` follows, as whoever spawns or returns has
killed it before, but for the return after a failed refresh.

### TaskExecutor

`TaskExecutorProofs` proves `TypeOK`, `InOnePlace` and the refinement
`KeepsContract`: every behaviour of the executor is one of `TaskContract` under the
mapping of section 2, for any number of tasks, nesting and calls. Assumption:
`TaskAssumption` (the tasks are `1 .. n`, main and the marker for "nothing" are none of
them, the kinds of body are the three modelled ones, the bounds are naturals).

`InOnePlace` is not inductive: that a task awaited on the stack is found in the
queue depends on who awaits whom. `IndInv` adds `StackShape` (main at the bottom, no
task twice), `Histories` (how far a body has come agrees with its state), `Places`
(a pending task is on the stack or in the queue, once), `AwaitsOwned` (a frame
blocked in `kira_task_await` waits for a task it spawned), `OwnerBelow` (a
task held by a function that cannot suspend has that function on the stack, and is
not itself on the stack at or below it) and, from these,
`AwaitedIsFresh` (the task waited for is not on the stack at or below the one that
waits). So a pending task that is awaited is queued, and the "drained" abort in the
middle of an await is never reached. `Allowed` then maps each step to a step of the
contract or to a stutter.

### DynamicFfi

`DynamicFfiProofs` proves `LibffiIsHeldOnce`, `ErrorTellsTheOutcome`,
`ArgumentsArrive` and `ReadsBack` for any libraries, functions, depth of nested calls,
base, word size, size of the block and sizes of types. Assumptions: `MemoryAssumption`,
`FfiAssumption` and `PowerAssumption`. The last is the definition of a power up to the
width of a word (one, then each time `Base` times the one before), since the
provers know no arithmetic of `^`; its laws (`PowersPositive`, `PowersDivide`) are lemmas.

`IndInv` has the loader's references (`Loader`), the contents of each builder (the words
of the first min(asked, capacity) arguments), the frames of open calls (what a
function got is what was asked) and the error. The arithmetic is in the lemmas
`Division`, `DivisionUnique` and `Wrapped`: cutting a value to a word and then to its
type gives what cutting it to its type gives, so that `FromWord(t, ToWord(t, v)) = v`
for a value of type `t`, signed or not.

`ReadsBack` has an invariant of its own, `BlockInv`: the block has its size and
every write not overwritten since is in it (`WriteHolds`). It rests on
`BytesMakeNumber` (the bytes of a number, the lowest first, add up to the number modulo
its width, by the least width at which they would not), hence `LoadOfStore`, and on
`LoadBeside`: a store changes no byte outside its place, so that a write which does
not overlap leaves what is read elsewhere as it was.

### NativeValues

`NativeValuesProofs` proves `FreesAreSound`, `OwnedOnce` and `BuffersMatchCapacity` for any
heap, any number of arrays, any lengths and first capacity, in both builds and
with any allocations failing (assumption: `ValuesAssumption`), and `TextsAreExact` for
any floats, tokens and searches, of any length, in any base up to ten (assumptions:
`TextAssumption`, and `JobsAssumption`: what `snprintf` prints with an exponent has a
first digit other than zero and one digit before its point). What it prints without
an exponent, zero included, the code leaves as it is (`runtime_helpers.c:352-355`).

That no free is wrong depends on the whole ownership discipline, so `IndInv` is that
discipline: `Single` (a local, a token's payload and an array's slot never share a
block, and no two slots do), `Sound` (what is owned is live and of the kind its owner
releases it as), `Kept` (what is live is owned, unless an allocation failed),
`Families` (whose allocator each block other than a closure, and each buffer, came from), `Fields` (every array
belongs to a local or to the field), `Listing` (the registry has live tokens, each
once, and all of them unless an allocation failed) and, in `Types`, that each
buffer has the size its capacity says. `Exports` is inductive beside it: the VM's list
holds exactly the live closures of its allocator, which is why its destructor gives
each closure back to the right one. The proofs go by kinds of change (a local
added or dropped; a slot pushed, replaced or taken; an array added, cloned or dropped;
a token added, filled or disposed of), each a lemma about the invariant that several
actions use.

The text primitives need no more of the state than `TextInv`: a result is the one of its
call. The rest is about data. `NumberPadded` says what zeros around its digits do
to a number (those in front nothing, each one behind is a factor of the base), and
`PowerSum` adds exponents; both by the least place at which they would fail, since the
library's induction theorems cannot be instantiated. Each of the three forms
`kira_string_from_f64` writes (`BodyBelowOne`, `BodyWhole`, `BodyBetween`) is the
digits so padded with a point in one place or none, hence `DenotesWithPoint` and
`DenotesWithout`. `TokenSplits` rests on the first `=` of what follows the dashes being
the first of the token, as no dash is one, and `SearchFinds` on the least of the
places compared.

### FileSystem

`FileSystemProofs` proves `NothingLeaks`, `BufferFits`, `WritesAreWhole`,
`MakeDirectoryIsHonest` and `ListingIsFaithful`, `FileReadProofs` proves `ReadsAreExact`
and `FileRemoveProofs` proves `RemoveStaysInTree`, for any number of callers, any tree to start from, any names,
arguments, chunk sizes and bounds, on both builds, with any calls failing and any
interleaving of system calls. Assumption: `DiskAssumption` (the inodes are positive
numbers, the arguments are paths, bytes and ranges, every disk to start from is one
whose root is a directory and whose entries name something).

The proofs have four parts. `Core` is inductive alone: `Tidy` says for each program
point how many blocks and descriptors the call holds there (`BlocksOf`, `FdsOf`: one
descriptor while a file or directory is open, one per directory on the stack of
`fs_remove_path`, a block per listed name and one for the array once it is allocated),
and `Shape` which calls can be at which point and how full the read buffer is.
`NothingLeaks` and `BufferFits` follow from it. Each action has a lemma
(`ReadChunkStep`, `RemoveNextStep`, ...) which shows that the caller's part stays tidy,
that the others are left alone and that files stay files.

`Seen` adds what the calls know of the past. `Histories`: the last disk a call in
progress has seen is the present one. `Honest`: a finished `fs_make_directory` has the
moment that its answer is true of; this needs that the directory just made is found
again along the same path (`WalkSame`, `MadeWalks`: linking a fresh inode under the
parent disturbs no walk to it), and that the second look and its answer are one step.
`ListingOk`: while a directory is read, every name read was there at some moment, no
name is read twice, the names at `opendir` are known, and what was read is listed
unless memory failed. `WritesOk`: the file being written is the one that the path
names and holds the part of the content already written (`OpenedEmpty`: the opening
found or made it there, empty; `WriteAtEnd`: each write adds to the end; `DataWalks`:
writing data disturbs no walk), as long as no other caller changed the disk. The path
walk is a recursive function; that it is well defined
(`WalkExists`, `WalkIs`) is proved by the least counterexample, since the library's
induction theorems cannot be instantiated.

`ReadsOk`, over `Seen`, is about the bytes. At each point of a read `Came` says of
every byte in the buffer that it was at its place on some disk of the call, and the
point adds what is settled there: in the loop, that the position and the buffer move
together and that the buffer was sized for a file that did not change (`Looping`,
`Ranging`); between the read and the size, that the rest was read (`Sized`). A loop
over an unchanged file ends only when it has everything (`ReadToEnd`, `ReadToRange`:
an empty read means the end or a request for nothing, and nothing is requested only
where the `DWORD` wraps). It needs what is open to stay what it is: `StepShape` shows
of every action of every caller that an inode in use keeps its kind and that no entry
names a free one. The proof also found a case the property had left out: a directory
can be opened on POSIX, and one whose `st_size` is 0 is read as an empty file
(`fs.c:128-151`); `ReadsAreWhole` now names it.

`RemovesOk`, also over `Seen`, is about a removal that nobody disturbs, and relates the
disk it started on to the present one. `Shrunk`: entries were only cleared, so whatever
a path still finds is what it found before (`ShrunkWalk`). `Within`: those cleared are
in the tree of the path or name its root. `Sound`: each frame of the recursion has the
path of an entry of the directory below it, and stands in the tree; a link is a leaf on POSIX,
which is why nothing is removed through one there (`fs.c:470-473`). On Windows the
theorem bounds the removal by `LinkedTreeOn`, the tree with all that its directory links
lead to, and that is all it gives: the lemmas about finding a path again after its
children went (`StandsFast`, `FrameThere`), and with them that an undisturbed removal
fails only for the reasons given, are about POSIX. `Thorough`: while no call
failed and the path still leads to its place (`Clear`), what a frame has not yet seen,
with the child being removed (`Busy`), is all that is left in its directory, so that
`rmdir` finds it empty. Three kinds of step keep it: one that changes the top frame
(`RetopKeeps`), one that goes down to a child (`Descends`) and one that clears an entry
and comes back up. The proof corrected the model twice: `TreeOn` reached two levels
only, and the property denied a failure that the code has, a path that leads through
a link in the tree it removes (`x/d/l/d`, where `l` in `d` is a link to `x`): `rmdir`
comes after the link is gone and no longer finds its directory (`fs.c:492`).

### Only model-checked

Only the liveness properties (`StagedIsSettled`, `EveryBuildIsDelivered`, `EveryTaskEnds`, `EveryCallReturns`): the prover does not handle fairness and
`ENABLED`. Every invariant and action property that a run checks is a theorem.

## 5. Disagreements seen while modelling, without a run of their own

* A frame parked under the event loop makes closures with ids of the retired module
  when it resumes (`hot_swap.zig:177`); `ClosuresDenote` is therefore about closures
  made by current code.
* When commit fails after the trampolines were rebound, they stay rebound
  (`hot_swap.zig:195`); `CommitFails` has both outcomes.
* "`completed` fires when the first callback after the swap finished" and is the
  "honest 'new code really ran' marker" (`hot_swap.zig:44-45`, `144-147`); a callback
  that fails before its first instruction sends it too, just before the process panics
  (`runtime.zig:456-468`). `CompletedByNewCodeOrAtPanic` names the case.
* "A broken edit must not end the live session" (`supervisor.zig:304`). An editor that
  unlinks before it writes can make `refresh` fail and end it
  (`source_watcher.zig:116`), and the supervisor then returns without killing the runner
  (`supervisor.zig:283`). `NoRunnerIsLeftBehind` allows this return and no other.
* A timeout means "runner unhealthy; relaunch" (`supervisor_reload.zig:12`), but the
  program is sent, with a blocking write, before the deadline starts to count
  (`supervisor_reload.zig:43`). When the socket is full and the listener is dead, or
  itself blocked on a write, the supervisor waits for ever; under
  KIRA_LIVE_NO_HOTPATCH nobody reads what it sends before it relaunches.
  `EveryBuildIsDelivered` is checked over a socket where this happens and names it
  as the exception (`SendBlocked`).
* While a closure with a native body lives every swap is rejected
  (`vm_native_closure_bridge.zig:95`).
* A `taskSleep` in a function called from a state machine body sets the deadline
  of the body and returns at once (`lower_exprs_async.zig:65-66` describes a
  suspension); the model does what the code does.
* `File.readAll` reports `ok` after a read that failed half-way;
  `ReadAllReturnsTheRest` is about reads without a failure. On Windows a file whose
  size does not fit a `DWORD` is read short and reported as read (`fs.c:114`); the
  read properties exclude it.
* `fs_read_file` of a directory fails at `read`, unless the directory's `st_size` is 0:
  then there is nothing to read, and the call succeeds (`fs.c:128-151`).
* `fs_path_exists` does not find a dangling link, where its comment
  (`fs.c:334-335`) says "any entry (file, directory, symlink, ...)".
* A clone of an empty array has no buffer, where `runtime_helpers_arrays.inc:7-8`
  says "never NULL"; `BuffersMatchCapacity` allows it.
* On Windows `fs_remove_path` does not ask whether a directory is a reparse point
  (`fs.c:437-465`): it goes through a directory link or junction in its tree, or given
  as its argument, and deletes what it finds there. `RemoveStaysInTree` states this extent.
* On Windows `fs_make_directory` succeeds when a directory link that leads nowhere
  has the name, where its comment says that what exists must be a directory.
* The globals of `dynamic_ffi_helpers.c` (395) are not synchronised with other threads.
  The token registry has a mutex, but the walk at exit
  (`runtime_helpers_native_state.inc:146`) does not take it.

## 6. Plan

Done: `HotSwap`, `LiveSession`, `TaskContract` and `TaskExecutor`, and the native layer
(`FileSystem`, `DynamicFfi`, `NativeValues`), with their runs; the proofs of section 4.

Next, in this order:

1. `SwapContract`: what a runner promises about a staged program (it is applied,
   rejected or replaced; `completed` follows an application). `HotSwap` shown to
   implement it, and `LiveSession` restated over it; the idle state of
   `TaskExecutor` in place of `SetTasks`.
2. The VM's ownership heap (retain, drop, move; no double release), the build cache
   (a reused artefact is the one a fresh build would give, with worker threads),
   the package manager's lock file, the debugger's stepping state.
3. A naming model for lambdas, whose generated names contain their ids.

## 7. Not modelled

The compiler passes, back ends and shader translators (pure functions over large
trees, covered by the corpus tests), the CLI and tool chain management (I/O), the
embedding header (`kira_main.h`, a thin C interface over the command line), the
browser's host functions, vendored code, examples and generated runners. Inside
modelled parts: what each subsection of section 2 lists as left out.
