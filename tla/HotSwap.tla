------------------------------- MODULE HotSwap -------------------------------
(***************************************************************************)
(* The in-process hot swap of a running hybrid program                     *)
(* (kira_hybrid_runtime/src/hot_swap.zig, hot_swap_compat.zig, runtime.zig *)
(* and kira_vm_runtime/src/vm_reload.zig).                                 *)
(*                                                                         *)
(* Two threads.  The listener thread stages a recompiled program in a      *)
(* one-place mailbox.  The main thread alternates between native code (the *)
(* event loop and everything it calls) and VM frames; at the outermost     *)
(* native->VM callback it takes the mailbox and defers, rejects or commits *)
(* the swap.  Values that survive the swap (closures, exported closure     *)
(* blocks, bare function values, native-state boxes) carry function ids    *)
(* and layouts of the module they were made under; a commit must leave     *)
(* them meaningful in the new one.                                         *)
(***************************************************************************)
EXTENDS Naturals, Sequences

CONSTANTS
  Names, Ids, Sigs,     \* function names, u32 function ids, signatures
  TypeNames, Layouts,   \* struct/enum names and their field layouts
  Modules,              \* the programs the rebuilds can produce
  FirstModule,          \* the program the process was started with
  EntryId,              \* the manifest's entry_function_id
  Slots,                \* places that can hold a live function value
  None, Free,           \* an empty mailbox; an empty slot
  MaxStaged,            \* bound: how many rebuilds the listener stages
  MaxDepth              \* bound: nested native->VM callbacks

Function == [name : Names, sig : Sigs]

\* A bytecode module: function table by id, type table by name.
Program == [fns   : UNION {[S -> Function] : S \in SUBSET Ids},
            types : UNION {[T -> Layouts] : T \in SUBSET TypeNames}]

ASSUME ModulesAssumption ==
  /\ Modules \subseteq Program
  /\ FirstModule \in Modules /\ EntryId \in DOMAIN FirstModule.fns
  /\ MaxStaged \in Nat /\ MaxDepth \in Nat

\* A loaded program: v counts stagings, 0 is the program first loaded.
StagedSwap == [v : Nat, prog : Modules]

\* A live function value.  fid is what memory holds; means and current are
\* history: the function it was created for, and whether the frame that made
\* it was executing the module in force.
Value == [kind : {"closure", "exported", "bare"}, fid : Ids,
          means : Names, current : BOOLEAN]

\* A VM frame: the program whose prepared code it executes, the function it
\* runs, and the value the native caller invoked (history).
Frame == [code : StagedSwap, runs : Names, call : Value]

ASSUME MarkersAssumption == None \notin StagedSwap /\ Free \notin Value

VARIABLES
  staged,              \* ReloadState.staged, under its mutex
  stagings,            \* stagings so far; the newest has this version
  taken,               \* enterCallback's local `staged`
  inflight,            \* the value native is calling, while a swap is taken
  module,              \* HybridRuntime.module and .manifest
  bound,               \* the program whose ids the native trampolines use
  prepared,            \* Vm.prepared_cache, or None
  retired,             \* ReloadState.retired_modules
  generation, completion_pending, callback_depth,
  slots,               \* the live function values
  boxes,               \* layout each live native-state box was built with
  tasks,               \* some VM task is queued, running or pending
  stack,               \* VM frames, the entry function's first
  pc,                  \* what the main thread is doing
  completed,           \* history: `completed` events sent
  settled              \* history: newest version applied or rejected

mailbox == <<staged, stagings>>
reload  == <<generation, completion_pending, completed>>
program == <<module, bound, prepared, retired>>
heap    == <<slots, boxes, tasks>>
vars == <<staged, stagings, taken, inflight, module, bound, prepared, retired,
          generation, completion_pending, callback_depth, slots, boxes, tasks,
          stack, pc, completed, settled>>

TypeOK ==
  /\ staged \in StagedSwap \cup {None}
  /\ stagings \in Nat
  /\ taken \in StagedSwap \cup {None}
  /\ inflight \in Value \cup {None}
  /\ module \in StagedSwap
  /\ bound \in StagedSwap
  /\ prepared \in StagedSwap \cup {None}
  /\ retired \in Seq(StagedSwap)
  /\ generation \in Nat /\ completed \in Nat /\ settled \in Nat
  /\ completion_pending \in BOOLEAN
  /\ callback_depth \in Nat
  /\ slots \in [Slots -> Value \cup {Free}]
  /\ boxes \in [TypeNames -> Layouts \cup {Free}]
  /\ tasks \in BOOLEAN
  /\ stack \in Seq(Frame)
  /\ pc \in {"native", "took", "vm", "panic", "unreachable"}

-----------------------------------------------------------------------------
(* Compatibility evaluation (hot_swap_compat.zig).                         *)

\* findUniqueFunction: the ids module p gives to name n.
IdsNamed(p, n) == {i \in DOMAIN p.fns : p.fns[i].name = n}

\* Old ids with a unique namesake of equal signature in the new module.
Mappable(old, new) ==
  {i \in DOMAIN old.fns :
     \E j \in DOMAIN new.fns : /\ IdsNamed(new, old.fns[i].name) = {j}
                               /\ new.fns[j].sig = old.fns[i].sig}

FunctionIdMap(old, new) ==
  [i \in Mappable(old, new) |->
     CHOOSE j \in DOMAIN new.fns : IdsNamed(new, old.fns[i].name) = {j}]

\* Mutant: only the names are compared.
NamesSurvive(old, new) == DOMAIN old.types \subseteq DOMAIN new.types

\* Every old struct and enum survives with an identical layout.
LayoutsSurvive(old, new) ==
  \A t \in DOMAIN old.types : t \in DOMAIN new.types /\ new.types[t] = old.types[t]

\* collectLiveFunctionIds: heap closures and exported blocks, not bare ids.
LiveFunctionIds ==
  {slots[s].fid : s \in {x \in Slots : slots[x] # Free /\ slots[x].kind # "bare"}}

\* Mutant: step 4 of evaluate is skipped.
CompatibleLayouts(old, new) == LayoutsSurvive(old, new)

\* evaluate: TRUE is .compatible, FALSE is .rejected.
Compatible(old, new) ==
  /\ LayoutsSurvive(old, new)
  /\ LiveFunctionIds \subseteq Mappable(old, new)

\* Mutant: the blocks exported to native code are forgotten.
RemappedHeapOnly(map) ==
  [s \in Slots |-> IF slots[s] # Free /\ slots[s].kind = "closure"
                   THEN [slots[s] EXCEPT !.fid = map[slots[s].fid]]
                   ELSE slots[s]]

\* remapLiveFunctionIds, commit pass.
Remapped(map) ==
  [s \in Slots |-> IF slots[s] # Free /\ slots[s].kind # "bare"
                   THEN [slots[s] EXCEPT !.fid = map[slots[s].fid]]
                   ELSE slots[s]]

\* Mutant: the in-flight id is dispatched as native code read it.
Untranslated(map, id) == id

\* The id a taken callback dispatches after a commit.
Translated(map, id) == IF id \in DOMAIN map THEN map[id] ELSE id

-----------------------------------------------------------------------------
Top == stack[Len(stack)]

\* The callback being entered is the outermost one.
Outermost == callback_depth + 1 = 1

\* Mutants: the deferred swap overwrites a newer one, or is dropped.
PutBackAlways == taken
PutBackNever == staged

\* The mailbox after a deferral.
PutBack == IF staged = None THEN taken ELSE staged

\* Mutant: the old module is not kept.
RetireNothing == retired

\* retired_modules after a commit.
Retire == Append(retired, module)

\* Mutant: the decoded code of the old module stays cached.
KeepCaches == prepared

\* invalidateModuleCaches: what prepared_cache holds after a commit.
InvalidateModuleCaches == None

\* Mutant: the return of a nested callback counts.
CompletesAtAnyDepth(depth, pending) == pending

\* This return is the end of the first callback after a swap.
Completes(depth, pending) == depth - 1 = 0 /\ pending

\* Mutant: the flag is not reset.
ReportWithoutReset == completed' = completed + 1 /\ completion_pending' = TRUE

\* exitCallback's `completed` event.
ReportCompleted == completed' = completed + 1 /\ completion_pending' = FALSE

\* exitCallback, called with this depth and this completion_pending.
Leave(depth, pending) ==
  /\ callback_depth' = depth - 1
  /\ IF Completes(depth, pending)
     THEN ReportCompleted
     ELSE completion_pending' = pending /\ UNCHANGED completed

\* No exitCallback runs: the callback goes on, or the process panics in it.
Stay(depth, pending) ==
  callback_depth' = depth /\ completion_pending' = pending /\ UNCHANGED completed

\* The call a frame reached without a callback stands for.
Entry(m, i) == [code |-> m, runs |-> m.prog.fns[i].name,
                call |-> [kind |-> "bare", fid |-> i,
                          means |-> m.prog.fns[i].name, current |-> TRUE]]

\* HybridRuntime.init, then run: the entry function is the first frame.
Init ==
  /\ staged = None /\ stagings = 0 /\ taken = None /\ inflight = None
  /\ module = [v |-> 0, prog |-> FirstModule]
  /\ bound = module /\ prepared = module /\ retired = <<>>
  /\ generation = 0 /\ completed = 0 /\ settled = 0
  /\ completion_pending = FALSE
  /\ callback_depth = 0
  /\ slots = [s \in Slots |-> Free]
  /\ boxes = [t \in TypeNames |-> Free]
  /\ tasks = FALSE
  /\ stack = <<Entry(module, EntryId)>>
  /\ pc = "vm"

\* Listener thread: a newer staging replaces an unconsumed older one.
Stage(p) ==
  /\ stagings < MaxStaged
  /\ stagings' = stagings + 1
  /\ staged' = [v |-> stagings + 1, prog |-> p]
  /\ UNCHANGED <<taken, inflight, program, reload, callback_depth, heap, stack,
                 pc, settled>>

\* preparedFor: the decoded code the VM runs, cached by the module's address.
PreparedFor(m, cache) == IF cache = None THEN m ELSE cache

\* The frame that runs function id of decoded program code.
FrameOf(call, id, code) ==
  [code |-> code, runs |-> code.prog.fns[id].name, call |-> call]

\* The hook's invokeRuntime.  m, cache, depth and pending are the module, the
\* prepared cache and the reload state once enterCallback has returned.  The
\* function runs; or it is unknown to the module or its arguments find no
\* memory, and the error leaves through the deferred exitCallback before the
\* bridge panics; or it is missing from the decoded code (RuntimeFailure), a
\* panic on the spot.
Dispatch(call, id, m, cache, depth, pending) ==
  LET code == PreparedFor(m, cache) IN
  \/ /\ id \in DOMAIN m.prog.fns /\ id \in DOMAIN code.prog.fns
     /\ prepared' = code
     /\ stack' = Append(stack, FrameOf(call, id, code))
     /\ pc' = "vm"
     /\ Stay(depth, pending)
  \/ /\ Leave(depth, pending)
     /\ prepared' = cache /\ pc' = "panic" /\ UNCHANGED stack
  \/ /\ id \in DOMAIN m.prog.fns /\ id \notin DOMAIN code.prog.fns
     /\ Stay(depth, pending)
     /\ prepared' = cache /\ pc' = "panic" /\ UNCHANGED stack

\* Mutant: a callback that applies no swap is not counted.
EnterCallbackUncounted(s) ==
  /\ pc = "native" /\ callback_depth < MaxDepth
  /\ slots[s] # Free /\ slots[s].kind # "closure"
  /\ ~Outermost \/ staged = None
  /\ Dispatch(slots[s], slots[s].fid, module, prepared, callback_depth,
              completion_pending)
  /\ UNCHANGED <<mailbox, taken, inflight, module, bound, retired, generation, heap,
                 settled>>

\* A call from native code that applies no swap: a nested callback, or an
\* outermost one that finds nothing staged.
EnterCallback(s) ==
  /\ pc = "native" /\ callback_depth < MaxDepth
  /\ slots[s] # Free /\ slots[s].kind # "closure"
  /\ ~Outermost \/ staged = None
  /\ Dispatch(slots[s], slots[s].fid, module, prepared, callback_depth + 1,
              completion_pending)
  /\ UNCHANGED <<mailbox, taken, inflight, module, bound, retired, generation, heap,
                 settled>>

\* An outermost callback takes the staged swap under the mutex.
TakeStaged(s) ==
  /\ pc = "native" /\ callback_depth < MaxDepth
  /\ slots[s] # Free /\ slots[s].kind # "closure"
  /\ callback_depth' = callback_depth + 1
  /\ Outermost /\ staged # None
  /\ taken' = staged /\ staged' = None
  /\ inflight' = slots[s]
  /\ pc' = "took"
  /\ UNCHANGED <<stagings, program, reload, heap, stack, settled>>

\* tasksIdle is false: put the swap back unless a newer one was staged.
DeferSwap ==
  /\ pc = "took" /\ tasks
  /\ staged' = PutBack
  /\ taken' = None /\ inflight' = None
  /\ Dispatch(inflight, inflight.fid, module, prepared, callback_depth,
              completion_pending)
  /\ UNCHANGED <<stagings, module, bound, retired, generation, heap, settled>>

\* evaluate rejects.  (An allocation that fails in evaluate leaves what
\* CommitFails leaves when it keeps the old trampolines.)
RejectSwap ==
  /\ pc = "took" /\ ~tasks
  /\ ~Compatible(module.prog, taken.prog)
  /\ settled' = taken.v
  /\ taken' = None /\ inflight' = None
  /\ Dispatch(inflight, inflight.fid, module, prepared, callback_depth,
              completion_pending)
  /\ UNCHANGED <<mailbox, module, bound, retired, generation, heap>>

\* commit fails: in rebind, which leaves the old trampolines, or reserving
\* room in a retired list, after the trampolines were rebound.
CommitFails ==
  /\ pc = "took" /\ ~tasks
  /\ Compatible(module.prog, taken.prog)
  /\ bound' \in {bound, taken}
  /\ settled' = taken.v
  /\ taken' = None /\ inflight' = None
  /\ Dispatch(inflight, inflight.fid, module, prepared, callback_depth,
              completion_pending)
  /\ UNCHANGED <<mailbox, module, retired, generation, heap>>

\* commit succeeds and the in-flight call runs in the new module.
CommitSwap ==
  LET map == FunctionIdMap(module.prog, taken.prog) IN
  /\ pc = "took" /\ ~tasks
  /\ Compatible(module.prog, taken.prog)
  /\ bound' = taken
  /\ IF /\ LiveFunctionIds \subseteq DOMAIN map
        /\ \A t \in TypeNames : boxes[t] # Free => t \in DOMAIN taken.prog.types
     THEN /\ slots' = Remapped(map)
          /\ retired' = Retire
          /\ module' = taken
          /\ generation' = generation + 1
          /\ settled' = taken.v
          /\ taken' = None /\ inflight' = None
          /\ Dispatch([inflight EXCEPT !.fid = Translated(map, inflight.fid)],
                      Translated(map, inflight.fid), taken, InvalidateModuleCaches,
                      callback_depth, TRUE)
     ELSE /\ pc' = "unreachable"
          /\ UNCHANGED <<slots, retired, module, reload, callback_depth, settled,
                         taken, inflight, prepared, stack>>
  /\ UNCHANGED <<mailbox, boxes, tasks>>

\* The callback returns to native code: exitCallback.
ExitCallback ==
  /\ pc = "vm" /\ Len(stack) > 1
  /\ stack' = SubSeq(stack, 1, Len(stack) - 1)
  /\ Leave(callback_depth, completion_pending)
  /\ pc' = "native"
  /\ UNCHANGED <<mailbox, taken, inflight, program, generation, heap, settled>>

\* The running frame calls a native function; the native function returns.
CallNative ==
  /\ pc = "vm" /\ pc' = "native"
  /\ UNCHANGED <<mailbox, taken, inflight, program, reload, callback_depth, heap,
                 stack, settled>>

ReturnFromNative ==
  /\ pc = "native" /\ pc' = "vm"
  /\ UNCHANGED <<mailbox, taken, inflight, program, reload, callback_depth, heap,
                 stack, settled>>

\* const_closure and const_function: the running code makes a function
\* value; ids come from the program that frame executes.
MakeFunctionValue(s, i, kind) ==
  /\ pc = "vm" /\ slots[s] = Free
  /\ i \in DOMAIN Top.code.prog.fns
  /\ slots' = [slots EXCEPT ![s] =
                 [kind |-> kind, fid |-> i, means |-> Top.code.prog.fns[i].name,
                  current |-> Top.code = module]]
  /\ UNCHANGED <<mailbox, taken, inflight, program, reload, callback_depth, boxes,
                 tasks, stack, pc, settled>>

\* exportRuntimeClosureToNative: a fresh block with the closure's id.
ExportClosure(s, t) ==
  /\ pc = "vm" /\ slots[s] # Free /\ slots[t] = Free
  /\ slots[s].kind = "closure"
  /\ IF slots[s].fid \in DOMAIN module.prog.fns
     THEN /\ slots' = [slots EXCEPT ![t] = [slots[s] EXCEPT !.kind = "exported"]]
          /\ UNCHANGED pc
     ELSE pc' = "panic" /\ UNCHANGED slots
  /\ UNCHANGED <<mailbox, taken, inflight, program, reload, callback_depth, boxes,
                 tasks, stack, settled>>

\* materializeNativeClosure: a block that comes back as an argument is copied
\* to a heap closure with the block's id.
MaterializeClosure(s, t) ==
  /\ pc = "vm" /\ slots[s] # Free /\ slots[t] = Free
  /\ slots[s].kind = "exported"
  /\ slots' = [slots EXCEPT ![t] = [slots[s] EXCEPT !.kind = "closure"]]
  /\ UNCHANGED <<mailbox, taken, inflight, program, reload, callback_depth, boxes,
                 tasks, stack, pc, settled>>

\* releaseExportedNativeClosure, or the drop of a closure or a bare value.
ReleaseValue(s) ==
  /\ slots[s] # Free
  /\ pc = "vm" \/ (pc = "native" /\ slots[s].kind = "exported")
  /\ slots' = [slots EXCEPT ![s] = Free]
  /\ UNCHANGED <<mailbox, taken, inflight, program, reload, callback_depth, boxes,
                 tasks, stack, pc, settled>>

\* allocateNativeState: the running code stores an object in a native-state
\* box, its fields placed where that code's own module has them.
MakeBox(t) ==
  /\ pc = "vm" /\ t \in DOMAIN Top.code.prog.types
  /\ boxes' = [boxes EXCEPT ![t] = Top.code.prog.types[t]]
  /\ UNCHANGED <<mailbox, taken, inflight, program, reload, callback_depth, slots,
                 tasks, stack, pc, settled>>

\* freeNativeState: the last box of the type goes.
FreeBox(t) ==
  /\ pc = "vm" /\ boxes[t] # Free
  /\ boxes' = [boxes EXCEPT ![t] = Free]
  /\ UNCHANGED <<mailbox, taken, inflight, program, reload, callback_depth, slots,
                 tasks, stack, pc, settled>>

\* The running code spawns a task; an await or drain runs the queue dry.
SetTasks(busy) ==
  /\ pc = "vm" /\ tasks # busy
  /\ tasks' = busy
  /\ UNCHANGED <<mailbox, taken, inflight, program, reload, callback_depth, slots,
                 boxes, stack, pc, settled>>

SettleSwap == RejectSwap \/ CommitFails \/ CommitSwap

Next ==
  \/ \E p \in Modules : Stage(p)
  \/ \E s \in Slots : EnterCallback(s)
  \/ \E s \in Slots : TakeStaged(s)
  \/ DeferSwap
  \/ RejectSwap
  \/ CommitFails
  \/ CommitSwap
  \/ ExitCallback
  \/ CallNative
  \/ ReturnFromNative
  \/ \E s \in Slots, i \in Ids, kind \in {"closure", "bare"} :
       MakeFunctionValue(s, i, kind)
  \/ \E s, t \in Slots : ExportClosure(s, t)
  \/ \E s, t \in Slots : MaterializeClosure(s, t)
  \/ \E s \in Slots : ReleaseValue(s)
  \/ \E t \in TypeNames : MakeBox(t)
  \/ \E t \in TypeNames : FreeBox(t)
  \/ \E busy \in BOOLEAN : SetTasks(busy)

Spec == Init /\ [][Next]_vars

-----------------------------------------------------------------------------
(* What the swap promises.                                                 *)

Range(seq) == {seq[i] : i \in 1 .. Len(seq)}

Denotes(val) == /\ val.fid \in DOMAIN module.prog.fns
                /\ module.prog.fns[val.fid].name = val.means

\* However many swaps intervene, a closure or exported block made by code of
\* the module then in force still names the function it was made for
\* (evaluate step 4 with remapLiveFunctionIds).
ClosuresDenote ==
  \A s \in Slots : (slots[s] # Free /\ slots[s].kind # "bare" /\ slots[s].current)
                      => Denotes(slots[s])

\* A callback through an exported block runs the function the block was made
\* for, also in the call during which the swap was applied (enterCallback's
\* translation of the in-flight id).
CallbacksRunTheirFunction ==
  \A k \in 2 .. Len(stack) :
    (stack[k].call.kind = "exported" /\ stack[k].call.current)
      => stack[k].runs = stack[k].call.means

\* Every frame above the parked entry frame executes the module in force: no
\* swap happens under a callback in progress, none leaves decoded code behind.
CallbackFramesAreCurrent ==
  \A k \in 2 .. Len(stack) : stack[k].code = module

\* Code a frame executes is still allocated: it is the module in force or a
\* retired one (the parked entry frame resumes retired code).
RunningCodeIsAllocated ==
  \A k \in 1 .. Len(stack) : stack[k].code \in {module} \cup Range(retired)

\* A native-state box is read with the layout it was built with, whichever
\* module's code built it (evaluate steps 1 and 2).
LayoutsHold ==
  \A t \in TypeNames :
    boxes[t] # Free => t \in DOMAIN module.prog.types /\ module.prog.types[t] = boxes[t]

\* Neither `unreachable` of commit is reached: what evaluate accepted,
\* remapLiveFunctionIds and repointNativeStateBoxes can carry out.
CommitIsInfallible == pc # "unreachable"

\* Every applied swap is reported completed exactly once, and before the next
\* one is applied.
EveryApplyCompletesOnce ==
  generation = completed + (IF completion_pending THEN 1 ELSE 0)

\* The newest staged program is waiting, being applied, or settled: a deferred
\* older swap put back by the main thread never displaces it.
NewestStagingNotLost ==
  stagings > 0 =>
    \/ staged # None /\ staged.v = stagings
    \/ taken # None /\ taken.v = stagings
    \/ settled = stagings

\* `completed` is sent when an outermost callback that executed the new
\* module's code returns.  The one other sender is the callback that applied
\* the swap and failed before its first instruction: no new code ran, and the
\* process stops with that step (the deferred exitCallback of runtimeInvoke).
CompletedByNewCodeOrAtPanic ==
  [][completed' # completed =>
       /\ module'.v > 0
       /\ \/ Len(stack) = 2 /\ Top.code = module
          \/ pc = "took" /\ module' = taken /\ pc' = "panic"]_vars

-----------------------------------------------------------------------------
(* A statement of the repository that the code does not keep.              *)

\* vm_reload.zig lists what a swap must fix as "every live value that
\* captured a module-relative function id"; bare function values are ids too.
FunctionValuesDenote ==
  \A s \in Slots : (slots[s] # Free /\ slots[s].current) => Denotes(slots[s])

-----------------------------------------------------------------------------
(* Progress.                                                               *)

\* The main thread does not stop inside enterCallback, and an event loop that
\* keeps returning to native code with a handler keeps calling it.
Fairness ==
  /\ SF_vars(\E s \in Slots : TakeStaged(s))
  /\ SF_vars(SettleSwap)
  /\ WF_vars(DeferSwap)

FairSpec == Spec /\ Fairness

\* The event loop keeps coming back to the outermost level with a handler.
EventLoopRuns ==
  []<>(/\ pc = "native" /\ callback_depth = 0
       /\ \E s \in Slots : slots[s] # Free /\ slots[s].kind # "closure")

\* Boundaries at which a swap was taken are not all met with tasks pending.
TasksDrain == []<>(pc = "took") => []<>(pc = "took" /\ ~tasks)

\* While frames keep coming and tasks drain, a staged swap is eventually
\* applied or rejected, itself or through a newer one that replaced it.
StagedIsSettled ==
  (EventLoopRuns /\ TasksDrain) =>
    \A n \in 1 .. MaxStaged :
      (staged # None /\ staged.v = n) ~> (settled >= n)
=============================================================================
