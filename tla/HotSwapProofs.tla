---------------------------- MODULE HotSwapProofs ----------------------------
(***************************************************************************)
(* Proofs about HotSwap, for every set of programs, ids, slots and bounds. *)
(*                                                                         *)
(* None of the promises is inductive alone.  A closure keeps its meaning   *)
(* across a commit only because the id it holds is in the map, which       *)
(* relates the map to the module the closure was made under: hence         *)
(* PreparedCurrent and CallbackFramesAreCurrent, which hold because a swap *)
(* is taken only when no callback is in progress (Shape).  Boxes keep      *)
(* their layout because every frame's program, the parked entry frame's    *)
(* included, has its types in the module in force (FrameLayouts).          *)
(***************************************************************************)
EXTENDS HotSwap, TLAPS

\* Where the main thread is, and what it holds there.
Shape ==
  /\ Len(stack) >= 1
  /\ pc \in {"native", "vm"} => callback_depth + 1 = Len(stack) /\ taken = None
  /\ pc = "took" => /\ callback_depth = 1 /\ Len(stack) = 1
                    /\ taken # None
                    /\ \E s \in Slots : slots[s] # Free /\ slots[s] = inflight

\* The decoded code the VM caches is that of the module in force.
PreparedCurrent == prepared \in {None, module}

\* Types a frame's program declares are declared alike by the module in force.
FrameLayouts ==
  \A k \in 1 .. Len(stack) : LayoutsSurvive(stack[k].code.prog, module.prog)

\* A swap awaiting its completion event has a callback in progress.
PendingInCallback ==
  completion_pending => /\ callback_depth >= 1 /\ pc # "took"
                        /\ module.v > 0

\* Which version each stage of the hand-over holds.
Versions ==
  /\ staged # None => staged.v = stagings /\ stagings > 0
  /\ taken # None => taken.v > 0
  /\ staged = None /\ taken # None => taken.v = stagings
  /\ staged = None /\ taken = None => settled = stagings

SwapInv ==
  /\ Shape /\ PreparedCurrent /\ FrameLayouts
  /\ ClosuresDenote /\ CallbacksRunTheirFunction /\ CallbackFramesAreCurrent
  /\ LayoutsHold /\ CommitIsInfallible

HandOverInv == PendingInCallback /\ EveryApplyCompletesOnce /\ Versions

IndInv == TypeOK /\ SwapInv /\ HandOverInv

-----------------------------------------------------------------------------
(* The operators the model is built from.                                  *)

\* A function table maps ids to functions.
LEMMA FunctionTable ==
  ASSUME NEW p \in Modules, NEW i \in DOMAIN p.fns
  PROVE  i \in Ids /\ p.fns[i] \in Function /\ p.fns[i].name \in Names
<1>1. p \in Program BY ModulesAssumption
<1>2. PICK S \in SUBSET Ids : p.fns \in [S -> Function] BY <1>1 DEF Program
<1> QED BY <1>2 DEF Function

\* A type table maps type names to layouts.
LEMMA TypeTable ==
  ASSUME NEW p \in Modules, NEW t \in DOMAIN p.types
  PROVE  t \in TypeNames /\ p.types[t] \in Layouts
<1>1. p \in Program BY ModulesAssumption
<1>2. PICK T \in SUBSET TypeNames : p.types \in [T -> Layouts] BY <1>1 DEF Program
<1> QED BY <1>2

\* The map takes an id to the one function of the same name in the new module.
LEMMA MapKeepsName ==
  ASSUME NEW old \in Modules, NEW new \in Modules, NEW i \in Mappable(old, new)
  PROVE  LET j == FunctionIdMap(old, new)[i] IN
         /\ j \in DOMAIN new.fns /\ j \in Ids
         /\ new.fns[j].name = old.fns[i].name
<1> DEFINE n == old.fns[i].name
           P(j) == IdsNamed(new, n) = {j}
           c == CHOOSE j \in DOMAIN new.fns : P(j)
<1>1. \E j \in DOMAIN new.fns : P(j) BY DEF Mappable
<1>2. c \in DOMAIN new.fns /\ P(c) BY <1>1
<1>3. c \in IdsNamed(new, n) BY <1>2
<1>4. new.fns[c].name = n BY <1>3 DEF IdsNamed
<1>5. FunctionIdMap(old, new)[i] = c BY DEF FunctionIdMap
<1>6. c \in Ids BY <1>2, FunctionTable
<1> HIDE DEF c, n
<1> QED BY <1>2, <1>4, <1>5, <1>6 DEF n

\* exitCallback counts down and reports at most once.
LEMMA LeaveTypes ==
  ASSUME NEW depth \in Nat, depth >= 1, NEW pending \in BOOLEAN, completed \in Nat,
         Leave(depth, pending)
  PROVE  /\ callback_depth' \in Nat /\ callback_depth' = depth - 1
         /\ completion_pending' \in BOOLEAN /\ completed' \in Nat
<1>1. callback_depth' = depth - 1 BY DEF Leave
<1>2. CASE Completes(depth, pending)
  <2>1. completed' = completed + 1 /\ completion_pending' = FALSE
    BY <1>2, Zenon DEF Leave, ReportCompleted
  <2>2. completed' \in Nat BY <2>1
  <2>3. completion_pending' \in BOOLEAN BY <2>1, Zenon
  <2> QED BY <1>1, <2>2, <2>3
<1>3. CASE ~Completes(depth, pending)
  <2>1. completed' = completed /\ completion_pending' = pending BY <1>3, Zenon DEF Leave
  <2>2. completion_pending' \in BOOLEAN BY <2>1, Zenon
  <2> QED BY <1>1, <2>1, <2>2
<1> QED BY <1>2, <1>3

\* What Dispatch leaves: one frame more of the code it is given, with the depth
\* kept, or a panic; the counters of the reload state keep their types.
Dispatched(call, id, m, cache, depth) ==
  /\ prepared' \in {PreparedFor(m, cache), cache}
  /\ PreparedFor(m, cache) \in StagedSwap
  /\ stack' \in Seq(Frame)
  /\ callback_depth' \in Nat /\ completion_pending' \in BOOLEAN
  /\ completed' \in Nat
  /\ \/ /\ pc' = "vm" /\ id \in DOMAIN m.prog.fns
        /\ FrameOf(call, id, PreparedFor(m, cache)) \in Frame
        /\ stack' = Append(stack, FrameOf(call, id, PreparedFor(m, cache)))
        /\ callback_depth' = depth
     \/ pc' = "panic" /\ stack' = stack

\* Dispatch pushes a frame or panics.
LEMMA DispatchPushes ==
  ASSUME NEW call \in Value, NEW id, NEW m \in StagedSwap,
         NEW cache \in StagedSwap \cup {None},
         NEW depth \in Nat, depth >= 1, NEW pending \in BOOLEAN,
         stack \in Seq(Frame), completed \in Nat,
         Dispatch(call, id, m, cache, depth, pending)
  PROVE  Dispatched(call, id, m, cache, depth)
<1> USE DEF Dispatched
<1> DEFINE code == PreparedFor(m, cache)
<1>1. code \in StagedSwap BY DEF PreparedFor
<1>2. ASSUME Stay(depth, pending)
      PROVE  /\ callback_depth' \in Nat /\ callback_depth' = depth
             /\ completion_pending' \in BOOLEAN /\ completed' \in Nat
  <2>1. completion_pending' = pending BY <1>2, Zenon DEF Stay
  <2>2. completion_pending' \in BOOLEAN BY <2>1, Zenon
  <2> QED BY <1>2, <2>2 DEF Stay
<1>3. CASE /\ id \in DOMAIN m.prog.fns /\ id \in DOMAIN code.prog.fns
           /\ prepared' = code
           /\ stack' = Append(stack, FrameOf(call, id, code))
           /\ pc' = "vm"
           /\ Stay(depth, pending)
  <2>1. code.prog.fns[id].name \in Names BY <1>1, <1>3, FunctionTable DEF StagedSwap
  <2>2. FrameOf(call, id, code) \in Frame BY <1>1, <2>1 DEF Frame, FrameOf
  <2>3. Append(stack, FrameOf(call, id, code)) \in Seq(Frame) BY <2>2
  <2> QED BY <1>1, <1>2, <1>3, <2>2, <2>3
<1>4. CASE Leave(depth, pending) /\ prepared' = cache /\ pc' = "panic" /\ stack' = stack
  BY <1>1, <1>4, LeaveTypes
<1>5. CASE Stay(depth, pending) /\ prepared' = cache /\ pc' = "panic" /\ stack' = stack
  BY <1>1, <1>2, <1>5
<1> QED BY <1>3, <1>4, <1>5 DEF Dispatch

\* Dispatch leaves one frame more and the VM running, or panics.
LEMMA DispatchDepth ==
  ASSUME NEW call \in Value, NEW id, NEW m \in StagedSwap,
         NEW cache \in StagedSwap \cup {None},
         NEW depth \in Nat, depth >= 1, NEW pending \in BOOLEAN,
         stack \in Seq(Frame), completed \in Nat,
         Dispatch(call, id, m, cache, depth, pending)
  PROVE  \/ /\ pc' = "vm" /\ Len(stack') = Len(stack) + 1
            /\ callback_depth' = depth
         \/ pc' = "panic" /\ Len(stack') = Len(stack)
<1> DEFINE frame == FrameOf(call, id, PreparedFor(m, cache))
<1>1. \/ /\ pc' = "vm" /\ frame \in Frame /\ stack' = Append(stack, frame)
         /\ callback_depth' = depth
      \/ pc' = "panic" /\ stack' = stack
  <2>1. Dispatched(call, id, m, cache, depth) BY DispatchPushes, Zenon
  <2> QED BY <2>1 DEF Dispatched
<1> HIDE DEF frame
<1>2. frame \in Frame => Len(Append(stack, frame)) = Len(stack) + 1 OBVIOUS
<1> QED BY <1>1, <1>2

\* Dispatch keeps completion events and applied swaps in step: an event is
\* sent only for the pending completion, and only as the depth reaches zero.
LEMMA DispatchReports ==
  ASSUME NEW call, NEW id, NEW m, NEW cache,
         NEW depth \in Nat, depth >= 1, NEW pending \in BOOLEAN, completed \in Nat,
         generation' = completed + (IF pending THEN 1 ELSE 0),
         pending => module'.v > 0,
         Dispatch(call, id, m, cache, depth, pending)
  PROVE  PendingInCallback' /\ EveryApplyCompletesOnce' /\ pc' # "took"
<1>1. pc' # "took" BY DEF Dispatch
<1>2. CASE Stay(depth, pending)
  <2>1. callback_depth' = depth /\ completed' = completed BY <1>2 DEF Stay
  <2>2. completion_pending' = pending BY <1>2, Zenon DEF Stay
  <2>3. EveryApplyCompletesOnce'
    <3>1. CASE pending BY <2>1, <2>2, <3>1 DEF EveryApplyCompletesOnce
    <3>2. CASE ~pending BY <2>1, <2>2, <3>2 DEF EveryApplyCompletesOnce
    <3> QED BY <3>1, <3>2, Zenon
  <2>4. PendingInCallback'
    <3>1. callback_depth' >= 1 BY <2>1
    <3> QED BY <1>1, <2>2, <3>1, Zenon DEF PendingInCallback
  <2> QED BY <1>1, <2>3, <2>4
<1>3. CASE Leave(depth, pending)
  <2>1. callback_depth' = depth - 1 BY <1>3 DEF Leave
  <2>2. CASE Completes(depth, pending)
    <3>1. pending BY <2>2, Zenon DEF Completes
    <3>2. completed' = completed + 1 BY <1>3, <2>2, Zenon DEF Leave, ReportCompleted
    <3>3. completion_pending' = FALSE BY <1>3, <2>2, Zenon DEF Leave, ReportCompleted
    <3>4. generation' = completed + 1 BY <3>1
    <3>5. EveryApplyCompletesOnce' BY <3>2, <3>3, <3>4 DEF EveryApplyCompletesOnce
    <3>6. PendingInCallback' BY <3>3, Zenon DEF PendingInCallback
    <3> QED BY <1>1, <3>5, <3>6
  <2>3. CASE ~Completes(depth, pending)
    <3>1. completed' = completed BY <1>3, <2>3, Zenon DEF Leave
    <3>2. completion_pending' = pending BY <1>3, <2>3, Zenon DEF Leave
    <3>3. CASE pending
      <4>1. completion_pending' = TRUE BY <3>2, <3>3, Zenon
      <4>2. depth - 1 # 0 BY <2>3, <3>3 DEF Completes
      <4>3. callback_depth' >= 1 BY <2>1, <4>2
      <4>4. generation' = completed + 1 BY <3>3
      <4>5. EveryApplyCompletesOnce' BY <3>1, <4>1, <4>4 DEF EveryApplyCompletesOnce
      <4>6. PendingInCallback' BY <1>1, <3>3, <4>3, Zenon DEF PendingInCallback
      <4> QED BY <1>1, <4>5, <4>6
    <3>4. CASE ~pending
      <4>1. ~completion_pending' BY <3>2, <3>4, Zenon
      <4>2. generation' = completed BY <3>4
      <4>3. EveryApplyCompletesOnce' BY <3>1, <4>1, <4>2 DEF EveryApplyCompletesOnce
      <4>4. PendingInCallback' BY <4>1, Zenon DEF PendingInCallback
      <4> QED BY <1>1, <4>3, <4>4
    <3> QED BY <3>3, <3>4, Zenon
  <2> QED BY <2>2, <2>3
<1> QED BY <1>2, <1>3 DEF Dispatch

-----------------------------------------------------------------------------
(* Type correctness.                                                       *)

\* What is known of a callback that has taken a swap.
LEMMA TookFacts ==
  ASSUME TypeOK, Shape, pc = "took"
  PROVE  /\ taken \in StagedSwap /\ inflight \in Value
         /\ module.prog \in Modules /\ taken.prog \in Modules
         /\ taken.v \in Nat /\ callback_depth >= 1
         /\ \E s \in Slots : slots[s] # Free /\ slots[s] = inflight
BY DEF TypeOK, Shape, StagedSwap

\* Every step of every action keeps every variable in its type.
LEMMA TypeStep == TypeOK /\ Shape /\ [Next]_vars => TypeOK'
<1> SUFFICES ASSUME TypeOK, Shape, [Next]_vars PROVE TypeOK' OBVIOUS
<1> USE DEF mailbox, reload, program, heap
<1>1. ASSUME NEW p \in Modules, Stage(p) PROVE TypeOK'
  BY <1>1 DEF TypeOK, Stage, StagedSwap
<1>2. ASSUME NEW s \in Slots, EnterCallback(s) PROVE TypeOK'
  <2>1. slots[s] \in Value BY <1>2 DEF TypeOK, EnterCallback
  <2>2. /\ prepared' \in StagedSwap \cup {None} /\ stack' \in Seq(Frame)
        /\ callback_depth' \in Nat /\ completion_pending' \in BOOLEAN
        /\ completed' \in Nat /\ pc' \in {"vm", "panic"}
    <3>1. /\ callback_depth + 1 \in Nat /\ callback_depth + 1 >= 1
          /\ Dispatch(slots[s], slots[s].fid, module, prepared, callback_depth + 1,
                      completion_pending)
      BY <1>2 DEF TypeOK, EnterCallback
    <3> DEFINE d == callback_depth + 1
    <3> HIDE DEF d
    <3>2. /\ d \in Nat /\ d >= 1
          /\ Dispatch(slots[s], slots[s].fid, module, prepared, d, completion_pending)
      BY <3>1 DEF d
    <3>3. Dispatched(slots[s], slots[s].fid, module, prepared, d)
      BY <2>1, <3>2, DispatchPushes, Zenon DEF TypeOK
    <3> QED BY <3>3 DEF TypeOK, Dispatched
  <2> QED BY <1>2, <2>2 DEF TypeOK, EnterCallback
<1>3. ASSUME NEW s \in Slots, TakeStaged(s) PROVE TypeOK'
  BY <1>3 DEF TypeOK, TakeStaged
<1>4. CASE DeferSwap
  <2>1. /\ prepared' \in StagedSwap \cup {None} /\ stack' \in Seq(Frame)
        /\ callback_depth' \in Nat /\ completion_pending' \in BOOLEAN
        /\ completed' \in Nat /\ pc' \in {"vm", "panic"}
    <3>1. /\ inflight \in Value /\ callback_depth >= 1
          /\ Dispatch(inflight, inflight.fid, module, prepared, callback_depth,
                      completion_pending)
      BY <1>4, TookFacts DEF DeferSwap
    <3>2. Dispatched(inflight, inflight.fid, module, prepared, callback_depth)
      BY <3>1, DispatchPushes, Zenon DEF TypeOK
    <3> QED BY <3>2 DEF TypeOK, Dispatched
  <2> QED BY <1>4, <2>1 DEF TypeOK, DeferSwap, PutBack
<1>5. CASE RejectSwap
  <2>1. /\ prepared' \in StagedSwap \cup {None} /\ stack' \in Seq(Frame)
        /\ callback_depth' \in Nat /\ completion_pending' \in BOOLEAN
        /\ completed' \in Nat /\ pc' \in {"vm", "panic"}
    <3>1. /\ inflight \in Value /\ callback_depth >= 1
          /\ Dispatch(inflight, inflight.fid, module, prepared, callback_depth,
                      completion_pending)
      BY <1>5, TookFacts DEF RejectSwap
    <3>2. Dispatched(inflight, inflight.fid, module, prepared, callback_depth)
      BY <3>1, DispatchPushes, Zenon DEF TypeOK
    <3> QED BY <3>2 DEF TypeOK, Dispatched
  <2> QED BY <1>5, <2>1, TookFacts DEF TypeOK, RejectSwap
<1>6. CASE CommitFails
  <2>1. /\ prepared' \in StagedSwap \cup {None} /\ stack' \in Seq(Frame)
        /\ callback_depth' \in Nat /\ completion_pending' \in BOOLEAN
        /\ completed' \in Nat /\ pc' \in {"vm", "panic"}
    <3>1. /\ inflight \in Value /\ callback_depth >= 1
          /\ Dispatch(inflight, inflight.fid, module, prepared, callback_depth,
                      completion_pending)
      BY <1>6, TookFacts DEF CommitFails
    <3>2. Dispatched(inflight, inflight.fid, module, prepared, callback_depth)
      BY <3>1, DispatchPushes, Zenon DEF TypeOK
    <3> QED BY <3>2 DEF TypeOK, Dispatched
  <2> QED BY <1>6, <2>1, TookFacts DEF TypeOK, CommitFails
<1>7. CASE CommitSwap
  <2> DEFINE map == FunctionIdMap(module.prog, taken.prog)
             mended == [inflight EXCEPT !.fid = Translated(map, inflight.fid)]
  <2>1. DOMAIN map = Mappable(module.prog, taken.prog) BY DEF FunctionIdMap
  <2>2. \A i \in DOMAIN map : map[i] \in Ids BY <1>7, <2>1, TookFacts, MapKeepsName DEF CommitSwap
  <2> HIDE DEF map
  <2>3. CASE pc' = "unreachable"
    <3>1. UNCHANGED <<slots, retired, module, generation, completion_pending,
                      settled, taken, inflight, prepared, stack, staged, stagings,
                      callback_depth, completed, boxes, tasks>>
      <4>1. ASSUME Dispatch(mended, Translated(map, inflight.fid), taken,
                            InvalidateModuleCaches, callback_depth, TRUE)
            PROVE FALSE
        BY <4>1, <2>3 DEF Dispatch
      <4> QED BY <1>7, <4>1 DEF CommitSwap, map
    <3>2. bound' = taken BY <1>7 DEF CommitSwap
    <3> QED BY <1>7, <2>3, <3>1, <3>2, TookFacts DEF TypeOK, CommitSwap
  <2>4. CASE pc' # "unreachable"
    <3>1. /\ LiveFunctionIds \subseteq DOMAIN map
          /\ slots' = Remapped(map) /\ retired' = Append(retired, module)
          /\ module' = taken /\ bound' = taken
          /\ generation' = generation + 1
          /\ settled' = taken.v /\ taken' = None /\ inflight' = None
          /\ Dispatch(mended, Translated(map, inflight.fid), taken, None,
                      callback_depth, TRUE)
          /\ UNCHANGED <<staged, stagings, boxes, tasks>>
      BY <1>7, <2>4 DEF CommitSwap, map, Retire, InvalidateModuleCaches
    <3>2. \A s \in Slots : Remapped(map)[s] \in Value \cup {Free}
      <4> TAKE s \in Slots
      <4>1. CASE slots[s] # Free /\ slots[s].kind # "bare"
        <5>1. slots[s].fid \in DOMAIN map BY <3>1, <4>1 DEF LiveFunctionIds
        <5>2. map[slots[s].fid] \in Ids BY <2>2, <5>1
        <5> QED BY <4>1, <5>2 DEF TypeOK, Remapped, Value
      <4>2. CASE ~(slots[s] # Free /\ slots[s].kind # "bare")
        BY <4>2 DEF TypeOK, Remapped
      <4> QED BY <4>1, <4>2
    <3>3. slots' \in [Slots -> Value \cup {Free}] BY <3>1, <3>2 DEF Remapped
    <3>4. mended \in Value
      <4>1. Translated(map, inflight.fid) \in Ids
        BY <1>7, <2>2, TookFacts DEF Translated, Value, CommitSwap
      <4> QED BY <1>7, <4>1, TookFacts DEF Value, CommitSwap
    <3>5. /\ prepared' \in StagedSwap \cup {None} /\ stack' \in Seq(Frame)
          /\ callback_depth' \in Nat /\ completion_pending' \in BOOLEAN
          /\ completed' \in Nat /\ pc' \in {"vm", "panic"}
      <4> HIDE DEF mended
      <4>1. taken \in StagedSwap /\ callback_depth >= 1 /\ TRUE \in BOOLEAN
        BY <1>7, TookFacts DEF CommitSwap
      <4> QED BY <3>1, <3>4, <4>1, DispatchPushes DEF TypeOK, Dispatched
    <3>6. taken \in StagedSwap /\ taken.v \in Nat BY <1>7, TookFacts DEF CommitSwap
    <3> QED BY <3>1, <3>3, <3>5, <3>6 DEF TypeOK
  <2> QED BY <2>3, <2>4
<1>8. CASE ExitCallback
  <2>1. callback_depth' \in Nat BY <1>8 DEF TypeOK, Shape, ExitCallback, Leave
  <2>2. stack' \in Seq(Frame) BY <1>8 DEF TypeOK, ExitCallback
  <2>3. completed' \in Nat /\ completion_pending' \in BOOLEAN
    <3>1. Leave(callback_depth, completion_pending) /\ callback_depth >= 1
      BY <1>8 DEF TypeOK, Shape, ExitCallback
    <3> QED BY <3>1, LeaveTypes DEF TypeOK
  <2> QED BY <1>8, <2>1, <2>2, <2>3 DEF TypeOK, ExitCallback
<1>9. CASE CallNative BY <1>9 DEF TypeOK, CallNative
<1>10. CASE ReturnFromNative BY <1>10 DEF TypeOK, ReturnFromNative
<1>11. ASSUME NEW s \in Slots, NEW i \in Ids, NEW kind \in {"closure", "bare"},
              MakeFunctionValue(s, i, kind)
       PROVE  TypeOK'
  <2>1. Top \in Frame BY DEF Top, TypeOK, Shape
  <2>2. Top.code.prog.fns[i].name \in Names
    BY <1>11, <2>1, FunctionTable DEF Frame, StagedSwap, MakeFunctionValue
  <2>3. slots' \in [Slots -> Value \cup {Free}]
    BY <1>11, <2>2 DEF TypeOK, MakeFunctionValue, Value
  <2> QED BY <1>11, <2>3 DEF TypeOK, MakeFunctionValue
<1>12. ASSUME NEW s \in Slots, NEW t \in Slots, ExportClosure(s, t) PROVE TypeOK'
  <2>1. [slots[s] EXCEPT !.kind = "exported"] \in Value
    BY <1>12 DEF TypeOK, ExportClosure, Value
  <2> QED BY <1>12, <2>1 DEF TypeOK, ExportClosure
<1>13. ASSUME NEW s \in Slots, ReleaseValue(s) PROVE TypeOK'
  BY <1>13 DEF TypeOK, ReleaseValue
<1>14. ASSUME NEW t \in TypeNames, MakeBox(t) PROVE TypeOK'
  <2>1. Top \in Frame BY DEF Top, TypeOK, Shape
  <2>2. Top.code.prog.types[t] \in Layouts
    BY <1>14, <2>1, TypeTable DEF Frame, StagedSwap, MakeBox
  <2> QED BY <1>14, <2>2 DEF TypeOK, MakeBox
<1>15. ASSUME NEW busy \in BOOLEAN, SetTasks(busy) PROVE TypeOK'
  BY <1>15 DEF TypeOK, SetTasks
<1>16. ASSUME NEW t \in TypeNames, FreeBox(t) PROVE TypeOK'
  BY <1>16 DEF TypeOK, FreeBox
<1>17. ASSUME NEW s \in Slots, NEW t \in Slots, MaterializeClosure(s, t) PROVE TypeOK'
  <2>1. [slots[s] EXCEPT !.kind = "closure"] \in Value
    BY <1>17 DEF TypeOK, MaterializeClosure, Value
  <2> QED BY <1>17, <2>1 DEF TypeOK, MaterializeClosure
<1>18. CASE UNCHANGED vars BY <1>18 DEF TypeOK, vars
<1> QED
  BY <1>1, <1>2, <1>3, <1>4, <1>5, <1>6, <1>7, <1>8, <1>9, <1>10, <1>11, <1>12,
     <1>13, <1>14, <1>15, <1>16, <1>17, <1>18 DEF Next

-----------------------------------------------------------------------------
(* Live values and frames across a swap.                                   *)

\* The part of SwapInv about live values and frames.
ValuesInv ==
  /\ PreparedCurrent /\ FrameLayouts
  /\ ClosuresDenote /\ CallbacksRunTheirFunction /\ CallbackFramesAreCurrent
  /\ LayoutsHold

\* Steps that touch no value, no frame and no program keep ValuesInv.
LEMMA QuietStep ==
  ValuesInv /\ UNCHANGED <<slots, boxes, module, prepared, stack>> => ValuesInv'
BY DEF ValuesInv, PreparedCurrent, FrameLayouts, ClosuresDenote, Denotes,
       CallbacksRunTheirFunction, CallbackFramesAreCurrent, LayoutsHold

\* Layouts survive any number of swaps.
LEMMA LayoutsSurviveIsPreorder ==
  /\ \A p : LayoutsSurvive(p, p)
  /\ \A p, q, r : LayoutsSurvive(p, q) /\ LayoutsSurvive(q, r) => LayoutsSurvive(p, r)
BY DEF LayoutsSurvive

\* A callback that applies no swap runs the function its block was made for.
LEMMA PushStep ==
  ASSUME TypeOK, ValuesInv, NEW call \in Value,
         (call.kind = "exported" /\ call.current) => Denotes(call),
         NEW depth \in Nat, depth >= 1, NEW pending \in BOOLEAN,
         Dispatch(call, call.fid, module, prepared, depth, pending),
         UNCHANGED <<slots, boxes, module>>
  PROVE  ValuesInv'
<1>1. PreparedFor(module, prepared) = module
  BY DEF ValuesInv, PreparedCurrent, PreparedFor
<1>2. /\ prepared' \in {module, prepared}
      /\ stack' \in Seq(Frame)
      /\ \/ /\ call.fid \in DOMAIN module.prog.fns
            /\ stack' = Append(stack, FrameOf(call, call.fid, module))
         \/ stack' = stack
  <2>1. /\ module \in StagedSwap /\ prepared \in StagedSwap \cup {None}
        /\ stack \in Seq(Frame) /\ completed \in Nat
    BY DEF TypeOK
  <2>2. Dispatched(call, call.fid, module, prepared, depth)
    BY <2>1, DispatchPushes, Zenon
  <2> QED BY <1>1, <2>2 DEF Dispatched
<1>3. stack \in Seq(Frame) /\ Len(stack) \in Nat BY DEF TypeOK
<1>4. PreparedCurrent' BY <1>2 DEF ValuesInv, PreparedCurrent
<1>5. ClosuresDenote' /\ LayoutsHold' BY DEF ValuesInv, ClosuresDenote, Denotes, LayoutsHold
<1>6. CASE stack' = stack BY <1>4, <1>5, <1>6
  DEF ValuesInv, FrameLayouts, CallbacksRunTheirFunction, CallbackFramesAreCurrent
<1>7. CASE /\ call.fid \in DOMAIN module.prog.fns
           /\ stack' = Append(stack, FrameOf(call, call.fid, module))
  <2> DEFINE top == FrameOf(call, call.fid, module)
  <2>1. /\ Len(stack') = Len(stack) + 1
        /\ \A k \in 1 .. Len(stack) : stack'[k] = stack[k]
        /\ stack'[Len(stack) + 1] = top
    BY <1>3, <1>7
  <2>2. top.code = module /\ top.call = call
        /\ top.runs = module.prog.fns[call.fid].name
    BY DEF FrameOf
  <2> HIDE DEF top
  <2>3. FrameLayouts'
    <3> SUFFICES ASSUME NEW k \in 1 .. Len(stack) + 1
                 PROVE  LayoutsSurvive(stack'[k].code.prog, module.prog)
      BY <2>1 DEF FrameLayouts
    <3>1. CASE k = Len(stack) + 1 BY <2>1, <2>2, <3>1, LayoutsSurviveIsPreorder
    <3>2. CASE k \in 1 .. Len(stack) BY <2>1, <3>2 DEF ValuesInv, FrameLayouts
    <3> QED BY <1>3, <3>1, <3>2
  <2>4. CallbackFramesAreCurrent'
    <3> SUFFICES ASSUME NEW k \in 2 .. Len(stack) + 1 PROVE stack'[k].code = module
      BY <2>1 DEF CallbackFramesAreCurrent
    <3>1. CASE k = Len(stack) + 1 BY <2>1, <2>2, <3>1
    <3>2. CASE k \in 2 .. Len(stack)
      BY <1>3, <2>1, <3>2 DEF ValuesInv, CallbackFramesAreCurrent
    <3> QED BY <1>3, <3>1, <3>2
  <2>5. CallbacksRunTheirFunction'
    <3> SUFFICES ASSUME NEW k \in 2 .. Len(stack) + 1,
                        stack'[k].call.kind = "exported", stack'[k].call.current
                 PROVE  stack'[k].runs = stack'[k].call.means
      BY <2>1 DEF CallbacksRunTheirFunction
    <3>1. CASE k = Len(stack) + 1 BY <2>1, <2>2, <3>1 DEF Denotes
    <3>2. CASE k \in 2 .. Len(stack)
      BY <1>3, <2>1, <3>2 DEF ValuesInv, CallbacksRunTheirFunction
    <3> QED BY <1>3, <3>1, <3>2
  <2> QED BY <1>4, <1>5, <2>3, <2>4, <2>5 DEF ValuesInv
<1> QED BY <1>2, <1>6, <1>7

\* A commit carries every live value and the in-flight call into the new module.
LEMMA CommitStep ==
  ASSUME TypeOK, Shape, ValuesInv, CommitSwap
  PROVE  ValuesInv' /\ pc' # "unreachable"
<1> DEFINE map == FunctionIdMap(module.prog, taken.prog)
           mended == [inflight EXCEPT !.fid = Translated(map, inflight.fid)]
           id == Translated(map, inflight.fid)
<1>1. /\ pc = "took" /\ taken \in StagedSwap /\ inflight \in Value
      /\ module.prog \in Modules /\ taken.prog \in Modules
  BY TookFacts DEF CommitSwap
<1>2. PICK s0 \in Slots : slots[s0] # Free /\ slots[s0] = inflight BY <1>1, TookFacts
<1>3. DOMAIN map = Mappable(module.prog, taken.prog) BY DEF FunctionIdMap
<1>4. /\ LiveFunctionIds \subseteq DOMAIN map
      /\ LayoutsSurvive(module.prog, taken.prog)
  BY <1>3 DEF CommitSwap, Compatible
<1>5. \A i \in DOMAIN map : /\ map[i] \in DOMAIN taken.prog.fns /\ map[i] \in Ids
                            /\ taken.prog.fns[map[i]].name = module.prog.fns[i].name
  BY <1>1, <1>3, MapKeepsName
<1>6. \A t \in TypeNames : boxes[t] # Free =>
        /\ t \in DOMAIN taken.prog.types
        /\ taken.prog.types[t] = boxes[t]
  BY <1>4 DEF ValuesInv, LayoutsHold, LayoutsSurvive
<1>7. /\ slots' = Remapped(map) /\ boxes' = boxes /\ module' = taken
      /\ Dispatch(mended, id, taken, None, callback_depth, TRUE)
  BY <1>4, <1>6 DEF CommitSwap, InvalidateModuleCaches
<1> HIDE DEF map
<1>8. id \in Ids BY <1>1, <1>5 DEF Translated, Value
<1>9. /\ mended \in Value /\ mended.kind = inflight.kind /\ mended.fid = id
      /\ mended.means = inflight.means /\ mended.current = inflight.current
  BY <1>1, <1>8 DEF Value
<1> HIDE DEF mended, id
<1>10. PreparedFor(taken, None) = taken BY DEF PreparedFor
<1>11. /\ prepared' \in {taken, None}
       /\ \/ /\ pc' = "vm" /\ id \in DOMAIN taken.prog.fns
             /\ stack' = Append(stack, FrameOf(mended, id, taken))
          \/ pc' = "panic" /\ stack' = stack
  <2>1. /\ stack \in Seq(Frame) /\ None \in StagedSwap \cup {None}
        /\ completed \in Nat /\ callback_depth \in Nat /\ callback_depth >= 1
        /\ TRUE \in BOOLEAN
    BY <1>1, TookFacts DEF TypeOK
  <2>2. /\ prepared' \in {PreparedFor(taken, None), None}
        /\ \/ /\ pc' = "vm" /\ id \in DOMAIN taken.prog.fns
              /\ stack' = Append(stack, FrameOf(mended, id, PreparedFor(taken, None)))
           \/ pc' = "panic" /\ stack' = stack
    BY <1>1, <1>7, <1>9, <2>1, DispatchPushes DEF Dispatched
  <2> QED BY <1>10, <2>2
<1>12. stack \in Seq(Frame) /\ Len(stack) = 1 BY <1>1 DEF TypeOK, Shape
<1>13. PreparedCurrent' BY <1>7, <1>11 DEF PreparedCurrent
<1>14. LayoutsHold' BY <1>6, <1>7 DEF LayoutsHold
<1>15. ClosuresDenote'
  <2> SUFFICES ASSUME NEW s \in Slots, slots'[s] # Free, slots'[s].kind # "bare",
                      slots'[s].current
               PROVE  /\ slots'[s].fid \in DOMAIN taken.prog.fns
                      /\ taken.prog.fns[slots'[s].fid].name = slots'[s].means
    BY <1>7 DEF ClosuresDenote, Denotes
  <2>1. slots[s] # Free /\ slots[s].kind # "bare" BY <1>7 DEF Remapped
  <2>2. slots'[s] = [slots[s] EXCEPT !.fid = map[slots[s].fid]]
    BY <1>7, <2>1 DEF Remapped
  <2>3. slots[s] \in Value BY <2>1 DEF TypeOK
  <2>4. /\ slots'[s].fid = map[slots[s].fid] /\ slots'[s].means = slots[s].means
        /\ slots[s].current
    BY <2>2, <2>3 DEF Value
  <2>5. slots[s].fid \in DOMAIN map BY <1>4, <2>1 DEF LiveFunctionIds
  <2>6. module.prog.fns[slots[s].fid].name = slots[s].means
    BY <2>1, <2>4 DEF ValuesInv, ClosuresDenote, Denotes
  <2> QED BY <1>5, <2>4, <2>5, <2>6
<1>16. LayoutsSurvive(stack[1].code.prog, taken.prog)
  BY <1>4, <1>12, LayoutsSurviveIsPreorder DEF ValuesInv, FrameLayouts
<1>17. CASE stack' = stack
  <2>1. Len(stack') = 1 /\ stack'[1] = stack[1] BY <1>12, <1>17
  <2>2. FrameLayouts' BY <1>7, <1>16, <2>1 DEF FrameLayouts
  <2>3. CallbacksRunTheirFunction' BY <2>1 DEF CallbacksRunTheirFunction
  <2>4. CallbackFramesAreCurrent' BY <2>1 DEF CallbackFramesAreCurrent
  <2> QED BY <1>11, <1>13, <1>14, <1>15, <2>2, <2>3, <2>4 DEF ValuesInv
<1>18. CASE /\ id \in DOMAIN taken.prog.fns
            /\ stack' = Append(stack, FrameOf(mended, id, taken))
  <2>1. Len(stack') = 2 /\ stack'[1] = stack[1] /\ stack'[2] = FrameOf(mended, id, taken)
    <3> DEFINE frame == FrameOf(mended, id, taken)
    <3> HIDE DEF frame
    <3>1. stack' = Append(stack, frame) BY <1>18 DEF frame
    <3>2. /\ Len(stack') = Len(stack) + 1 /\ stack'[Len(stack) + 1] = frame
          /\ \A k \in 1 .. Len(stack) : stack'[k] = stack[k]
      BY <1>12, <3>1
    <3> QED BY <1>12, <3>2 DEF frame
  <2>2. /\ stack'[2].code = taken /\ stack'[2].call = mended
        /\ stack'[2].runs = taken.prog.fns[id].name
    BY <2>1 DEF FrameOf
  <2>3. FrameLayouts'
    BY <1>7, <1>16, <2>1, <2>2, LayoutsSurviveIsPreorder DEF FrameLayouts
  <2>4. CallbackFramesAreCurrent' BY <1>7, <2>1, <2>2 DEF CallbackFramesAreCurrent
  <2>5. (mended.kind = "exported" /\ mended.current)
          => taken.prog.fns[id].name = mended.means
    <3> SUFFICES ASSUME inflight.kind = "exported", inflight.current
                 PROVE  taken.prog.fns[id].name = inflight.means
      BY <1>9
    <3>1. inflight.fid \in DOMAIN map BY <1>2, <1>4 DEF LiveFunctionIds
    <3>2. id = map[inflight.fid] BY <3>1 DEF id, Translated
    <3>3. module.prog.fns[inflight.fid].name = inflight.means
      BY <1>2 DEF ValuesInv, ClosuresDenote, Denotes
    <3> QED BY <1>5, <3>1, <3>2, <3>3
  <2>6. CallbacksRunTheirFunction'
    BY <2>1, <2>2, <2>5 DEF CallbacksRunTheirFunction
  <2> QED BY <1>11, <1>13, <1>14, <1>15, <1>18, <2>3, <2>4, <2>6 DEF ValuesInv
<1>19. pc' # "unreachable" BY <1>11
<1> QED BY <1>11, <1>17, <1>18, <1>19

\* Every step keeps the live values, the frames and the main thread's place.
LEMMA SwapStep == TypeOK /\ SwapInv /\ [Next]_vars => SwapInv'
<1> SUFFICES ASSUME TypeOK, SwapInv, [Next]_vars PROVE SwapInv' OBVIOUS
<1> USE DEF mailbox, reload, program, heap
<1>a. Shape /\ ValuesInv /\ pc # "unreachable"
  BY DEF SwapInv, ValuesInv, CommitIsInfallible
<1>b. SUFFICES Shape' /\ ValuesInv' /\ pc' # "unreachable"
  BY DEF SwapInv, ValuesInv, CommitIsInfallible
<1>c. stack \in Seq(Frame) /\ Len(stack) \in Nat /\ callback_depth \in Nat BY DEF TypeOK
<1>1. ASSUME NEW p \in Modules, Stage(p) PROVE Shape' /\ ValuesInv' /\ pc' # "unreachable"
  BY <1>1, <1>a, QuietStep DEF Stage, Shape
<1>2. ASSUME NEW s \in Slots, EnterCallback(s)
      PROVE  Shape' /\ ValuesInv' /\ pc' # "unreachable"
  <2>1. slots[s] \in Value BY <1>2 DEF TypeOK, EnterCallback
  <2> DEFINE d == callback_depth + 1
  <2>2. /\ Dispatch(slots[s], slots[s].fid, module, prepared, d, completion_pending)
        /\ d \in Nat /\ d >= 1
    BY <1>2, <1>c DEF EnterCallback
  <2>d. d = callback_depth + 1 OBVIOUS
  <2> HIDE DEF d
  <2>3. ((slots[s].kind = "exported" /\ slots[s].current) => Denotes(slots[s]))
        /\ UNCHANGED <<slots, boxes, module>>
    BY <1>2, <1>a DEF EnterCallback, ValuesInv, ClosuresDenote
  <2>4. ValuesInv'
    <3>1. completion_pending \in BOOLEAN BY DEF TypeOK
    <3> QED BY <1>a, <2>1, <2>2, <2>3, <3>1, PushStep
  <2>5. \/ /\ pc' = "vm" /\ Len(stack') = Len(stack) + 1 /\ callback_depth' = d
        \/ pc' = "panic" /\ Len(stack') = Len(stack)
    BY <2>1, <2>2, DispatchDepth DEF TypeOK
  <2>6. Shape' BY <1>2, <1>a, <1>c, <2>d, <2>5 DEF EnterCallback, Shape
  <2> QED BY <2>4, <2>5, <2>6
<1>3. ASSUME NEW s \in Slots, TakeStaged(s)
      PROVE  Shape' /\ ValuesInv' /\ pc' # "unreachable"
  <2>1. ValuesInv' BY <1>3, <1>a, QuietStep DEF TakeStaged
  <2>2. Shape' BY <1>3, <1>a, <1>c DEF TakeStaged, Shape, Outermost
  <2> QED BY <1>3, <2>1, <2>2 DEF TakeStaged
<1>4. ASSUME DeferSwap \/ RejectSwap \/ CommitFails
      PROVE  Shape' /\ ValuesInv' /\ pc' # "unreachable"
  <2>1. /\ pc = "took" /\ taken' = None
        /\ Dispatch(inflight, inflight.fid, module, prepared, callback_depth,
                    completion_pending)
        /\ UNCHANGED <<slots, boxes, module>>
    BY <1>4 DEF DeferSwap, RejectSwap, CommitFails
  <2>2. inflight \in Value BY <1>a, <2>1, TookFacts
  <2>3. (inflight.kind = "exported" /\ inflight.current) => Denotes(inflight)
    BY <1>a, <2>1 DEF Shape, ValuesInv, ClosuresDenote
  <2>4. ValuesInv'
    <3>1. completion_pending \in BOOLEAN BY DEF TypeOK
    <3>2. callback_depth >= 1 BY <1>a, <2>1, TookFacts
    <3> QED BY <1>a, <1>c, <2>1, <2>2, <2>3, <3>1, <3>2, PushStep
  <2>5. \/ /\ pc' = "vm" /\ Len(stack') = Len(stack) + 1
           /\ callback_depth' = callback_depth
        \/ pc' = "panic" /\ Len(stack') = Len(stack)
    <3>1. callback_depth >= 1 BY <1>a, <2>1, TookFacts
    <3> QED BY <1>c, <2>1, <2>2, <3>1, DispatchDepth DEF TypeOK
  <2>6. Shape'
    <3>1. callback_depth = 1 /\ Len(stack) = 1 BY <1>a, <2>1 DEF Shape
    <3>2. CASE pc' = "vm" BY <2>1, <2>5, <3>1, <3>2 DEF Shape
    <3>3. CASE pc' = "panic" BY <2>5, <3>1, <3>3 DEF Shape
    <3> QED BY <2>5, <3>2, <3>3
  <2> QED BY <2>4, <2>5, <2>6
<1>5. CASE CommitSwap
  <2>1. ValuesInv' /\ pc' # "unreachable" BY <1>5, <1>a, CommitStep
  <2>2. Shape'
    <3> DEFINE map == FunctionIdMap(module.prog, taken.prog)
               id == Translated(map, inflight.fid)
               mended == [inflight EXCEPT !.fid = id]
    <3>1. /\ pc = "took" /\ taken \in StagedSwap /\ taken.prog \in Modules
          /\ module.prog \in Modules /\ inflight \in Value
      BY <1>5, <1>a, TookFacts DEF CommitSwap
    <3>2. DOMAIN map = Mappable(module.prog, taken.prog) BY DEF FunctionIdMap
    <3>3. \A i \in DOMAIN map : map[i] \in Ids BY <3>1, <3>2, MapKeepsName
    <3>4. /\ taken' = None
          /\ Dispatch(mended, id, taken, None, callback_depth, TRUE)
      BY <1>5, <2>1 DEF CommitSwap, InvalidateModuleCaches
    <3> HIDE DEF map
    <3>5. mended \in Value BY <3>1, <3>3 DEF Value, Translated
    <3> HIDE DEF mended, id
    <3>6. \/ /\ pc' = "vm" /\ Len(stack') = Len(stack) + 1
             /\ callback_depth' = callback_depth
          \/ pc' = "panic" /\ Len(stack') = Len(stack)
      <4>1. /\ stack \in Seq(Frame) /\ None \in StagedSwap \cup {None}
            /\ callback_depth \in Nat /\ callback_depth >= 1 /\ completed \in Nat
            /\ TRUE \in BOOLEAN
        BY <1>a, <1>c, <3>1, TookFacts DEF TypeOK
      <4> QED BY <3>1, <3>4, <3>5, <4>1, DispatchDepth
    <3>7. callback_depth = 1 /\ Len(stack) = 1 BY <1>a, <3>1 DEF Shape
    <3>8. CASE pc' = "vm" BY <3>4, <3>6, <3>7, <3>8 DEF Shape
    <3>9. CASE pc' = "panic" BY <3>6, <3>7, <3>9 DEF Shape
    <3> QED BY <3>6, <3>8, <3>9
  <2> QED BY <2>1, <2>2
<1>6. CASE ExitCallback
  <2>1. /\ pc = "vm" /\ Len(stack) > 1 /\ pc' = "native"
        /\ stack' = SubSeq(stack, 1, Len(stack) - 1)
        /\ callback_depth' = callback_depth - 1
        /\ UNCHANGED <<slots, boxes, module, prepared, taken>>
    BY <1>6 DEF ExitCallback, Leave
  <2>2. /\ Len(stack') = Len(stack) - 1
        /\ \A k \in 1 .. Len(stack) - 1 : stack'[k] = stack[k]
    BY <1>c, <2>1
  <2>3. Shape' BY <1>a, <1>c, <2>1, <2>2 DEF Shape
  <2>4. PreparedCurrent' /\ ClosuresDenote' /\ LayoutsHold'
    BY <1>a, <2>1 DEF ValuesInv, PreparedCurrent, ClosuresDenote, Denotes, LayoutsHold
  <2>5. FrameLayouts' BY <1>a, <1>c, <2>1, <2>2 DEF ValuesInv, FrameLayouts
  <2>6. CallbackFramesAreCurrent'
    BY <1>a, <1>c, <2>1, <2>2 DEF ValuesInv, CallbackFramesAreCurrent
  <2>7. CallbacksRunTheirFunction'
    BY <1>a, <1>c, <2>1, <2>2 DEF ValuesInv, CallbacksRunTheirFunction
  <2> QED BY <2>1, <2>3, <2>4, <2>5, <2>6, <2>7 DEF ValuesInv
<1>7. CASE CallNative BY <1>7, <1>a, QuietStep DEF CallNative, Shape
<1>8. CASE ReturnFromNative BY <1>8, <1>a, QuietStep DEF ReturnFromNative, Shape
<1>9. ASSUME NEW s \in Slots, NEW i \in Ids, NEW kind \in {"closure", "bare"},
             MakeFunctionValue(s, i, kind)
      PROVE  Shape' /\ ValuesInv' /\ pc' # "unreachable"
  <2>1. /\ pc = "vm" /\ pc' = pc /\ i \in DOMAIN Top.code.prog.fns
        /\ UNCHANGED <<boxes, module, prepared, stack, taken, callback_depth>>
    BY <1>9 DEF MakeFunctionValue
  <2>2. Shape' BY <1>a, <2>1 DEF Shape
  <2>3. ClosuresDenote'
    <3> SUFFICES ASSUME NEW x \in Slots, slots'[x] # Free, slots'[x].kind # "bare",
                        slots'[x].current
                 PROVE  Denotes(slots'[x])
      BY <2>1 DEF ClosuresDenote, Denotes
    <3>1. CASE x = s
      <4>1. /\ slots'[x].fid = i /\ slots'[x].means = Top.code.prog.fns[i].name
            /\ slots'[x].current = (Top.code = module)
        BY <1>9, <3>1 DEF MakeFunctionValue, TypeOK
      <4> QED BY <2>1, <4>1 DEF Denotes
    <3>2. CASE x # s
      BY <1>9, <1>a, <3>2 DEF MakeFunctionValue, TypeOK, ValuesInv, ClosuresDenote
    <3> QED BY <3>1, <3>2
  <2>4. /\ PreparedCurrent' /\ FrameLayouts' /\ CallbacksRunTheirFunction'
        /\ CallbackFramesAreCurrent' /\ LayoutsHold'
    BY <1>a, <2>1 DEF ValuesInv, PreparedCurrent, FrameLayouts, LayoutsHold,
                      CallbacksRunTheirFunction, CallbackFramesAreCurrent
  <2> QED BY <2>1, <2>2, <2>3, <2>4 DEF ValuesInv
<1>10. ASSUME NEW s \in Slots, NEW t \in Slots, ExportClosure(s, t)
       PROVE  Shape' /\ ValuesInv' /\ pc' # "unreachable"
  <2>1. /\ pc = "vm" /\ pc' \in {"vm", "panic"}
        /\ UNCHANGED <<boxes, module, prepared, stack, taken, callback_depth>>
    BY <1>10 DEF ExportClosure
  <2>2. Shape' BY <1>a, <2>1 DEF Shape
  <2>3. ClosuresDenote'
    <3> SUFFICES ASSUME NEW x \in Slots, slots'[x] # Free, slots'[x].kind # "bare",
                        slots'[x].current
                 PROVE  Denotes(slots'[x])
      BY <2>1 DEF ClosuresDenote, Denotes
    <3>1. CASE slots'[x] = slots[x] BY <1>a, <3>1 DEF ValuesInv, ClosuresDenote
    <3>2. CASE slots'[x] # slots[x]
      <4>1. slots'[x] = [slots[s] EXCEPT !.kind = "exported"]
        BY <1>10, <3>2 DEF ExportClosure, TypeOK
      <4>2. slots[s] \in Value /\ slots[s] # Free /\ slots[s].kind = "closure"
        BY <1>10 DEF ExportClosure, TypeOK
      <4>3. /\ slots'[x].fid = slots[s].fid /\ slots'[x].means = slots[s].means
            /\ slots'[x].current = slots[s].current
        BY <4>1, <4>2 DEF Value
      <4> QED BY <1>a, <4>2, <4>3 DEF ValuesInv, ClosuresDenote, Denotes
    <3> QED BY <3>1, <3>2
  <2>4. /\ PreparedCurrent' /\ FrameLayouts' /\ CallbacksRunTheirFunction'
        /\ CallbackFramesAreCurrent' /\ LayoutsHold'
    BY <1>a, <2>1 DEF ValuesInv, PreparedCurrent, FrameLayouts, LayoutsHold,
                      CallbacksRunTheirFunction, CallbackFramesAreCurrent
  <2> QED BY <2>1, <2>2, <2>3, <2>4 DEF ValuesInv
<1>11. ASSUME NEW s \in Slots, ReleaseValue(s)
       PROVE  Shape' /\ ValuesInv' /\ pc' # "unreachable"
  <2>1. /\ pc \in {"vm", "native"} /\ pc' = pc
        /\ slots' = [slots EXCEPT ![s] = Free]
        /\ UNCHANGED <<boxes, module, prepared, stack, taken, callback_depth>>
    BY <1>11 DEF ReleaseValue
  <2>2. Shape' BY <1>a, <2>1 DEF Shape
  <2>3. ClosuresDenote'
    BY <1>a, <2>1 DEF ValuesInv, ClosuresDenote, Denotes, TypeOK
  <2>4. /\ PreparedCurrent' /\ FrameLayouts' /\ CallbacksRunTheirFunction'
        /\ CallbackFramesAreCurrent' /\ LayoutsHold'
    BY <1>a, <2>1 DEF ValuesInv, PreparedCurrent, FrameLayouts, LayoutsHold,
                      CallbacksRunTheirFunction, CallbackFramesAreCurrent
  <2> QED BY <2>1, <2>2, <2>3, <2>4 DEF ValuesInv
<1>12. ASSUME NEW t \in TypeNames, MakeBox(t)
       PROVE  Shape' /\ ValuesInv' /\ pc' # "unreachable"
  <2>1. /\ pc = "vm" /\ pc' = pc /\ t \in DOMAIN Top.code.prog.types
        /\ boxes' = [boxes EXCEPT ![t] = Top.code.prog.types[t]]
        /\ UNCHANGED <<slots, module, prepared, stack, taken, callback_depth>>
    BY <1>12 DEF MakeBox
  <2>2. Shape' BY <1>a, <2>1 DEF Shape
  <2>3. LayoutsSurvive(Top.code.prog, module.prog)
    BY <1>a, <1>c DEF Shape, ValuesInv, FrameLayouts, Top
  <2>4. LayoutsHold'
    BY <1>a, <2>1, <2>3 DEF ValuesInv, LayoutsHold, LayoutsSurvive, TypeOK
  <2>5. /\ PreparedCurrent' /\ FrameLayouts' /\ CallbacksRunTheirFunction'
        /\ CallbackFramesAreCurrent' /\ ClosuresDenote'
    BY <1>a, <2>1 DEF ValuesInv, PreparedCurrent, FrameLayouts, ClosuresDenote,
                      Denotes, CallbacksRunTheirFunction, CallbackFramesAreCurrent
  <2> QED BY <2>1, <2>2, <2>4, <2>5, <1>a DEF ValuesInv
<1>13. ASSUME NEW busy \in BOOLEAN, SetTasks(busy)
       PROVE  Shape' /\ ValuesInv' /\ pc' # "unreachable"
  BY <1>13, <1>a, QuietStep DEF SetTasks, Shape
<1>14. ASSUME NEW t \in TypeNames, FreeBox(t)
       PROVE  Shape' /\ ValuesInv' /\ pc' # "unreachable"
  <2>1. /\ pc = "vm" /\ pc' = pc /\ boxes' = [boxes EXCEPT ![t] = Free]
        /\ UNCHANGED <<slots, module, prepared, stack, taken, callback_depth>>
    BY <1>14 DEF FreeBox
  <2>2. Shape' BY <1>a, <2>1 DEF Shape
  <2>3. LayoutsHold' BY <1>a, <2>1 DEF ValuesInv, LayoutsHold, TypeOK
  <2>4. /\ PreparedCurrent' /\ FrameLayouts' /\ CallbacksRunTheirFunction'
        /\ CallbackFramesAreCurrent' /\ ClosuresDenote'
    BY <1>a, <2>1 DEF ValuesInv, PreparedCurrent, FrameLayouts, ClosuresDenote,
                      Denotes, CallbacksRunTheirFunction, CallbackFramesAreCurrent
  <2> QED BY <2>1, <2>2, <2>3, <2>4 DEF ValuesInv
<1>15. ASSUME NEW s \in Slots, NEW t \in Slots, MaterializeClosure(s, t)
       PROVE  Shape' /\ ValuesInv' /\ pc' # "unreachable"
  <2>1. /\ pc = "vm" /\ pc' = pc
        /\ UNCHANGED <<boxes, module, prepared, stack, taken, callback_depth>>
    BY <1>15 DEF MaterializeClosure
  <2>2. Shape' BY <1>a, <2>1 DEF Shape
  <2>3. ClosuresDenote'
    <3> SUFFICES ASSUME NEW x \in Slots, slots'[x] # Free, slots'[x].kind # "bare",
                        slots'[x].current
                 PROVE  Denotes(slots'[x])
      BY <2>1 DEF ClosuresDenote, Denotes
    <3>1. CASE slots'[x] = slots[x] BY <1>a, <3>1 DEF ValuesInv, ClosuresDenote
    <3>2. CASE slots'[x] # slots[x]
      <4>1. slots'[x] = [slots[s] EXCEPT !.kind = "closure"]
        BY <1>15, <3>2 DEF MaterializeClosure, TypeOK
      <4>2. slots[s] \in Value /\ slots[s] # Free /\ slots[s].kind = "exported"
        BY <1>15 DEF MaterializeClosure, TypeOK
      <4>3. /\ slots'[x].fid = slots[s].fid /\ slots'[x].means = slots[s].means
            /\ slots'[x].current = slots[s].current
        BY <4>1, <4>2 DEF Value
      <4> QED BY <1>a, <4>2, <4>3 DEF ValuesInv, ClosuresDenote, Denotes
    <3> QED BY <3>1, <3>2
  <2>4. /\ PreparedCurrent' /\ FrameLayouts' /\ CallbacksRunTheirFunction'
        /\ CallbackFramesAreCurrent' /\ LayoutsHold'
    BY <1>a, <2>1 DEF ValuesInv, PreparedCurrent, FrameLayouts, LayoutsHold,
                      CallbacksRunTheirFunction, CallbackFramesAreCurrent
  <2> QED BY <2>1, <2>2, <2>3, <2>4 DEF ValuesInv
<1>16. CASE UNCHANGED vars BY <1>16, <1>a, QuietStep DEF vars, Shape
<1> QED
  BY <1>1, <1>2, <1>3, <1>4, <1>5, <1>6, <1>7, <1>8, <1>9, <1>10, <1>11, <1>12,
     <1>13, <1>14, <1>15, <1>16 DEF Next

-----------------------------------------------------------------------------
(* The hand-over of stagings and the completion events.                    *)

\* What a step must leave alone for the completion bookkeeping to hold.
LEMMA ReportQuiet ==
  ASSUME PendingInCallback, EveryApplyCompletesOnce, TypeOK, pc' # "took",
         callback_depth' \in Nat, callback_depth' >= callback_depth,
         UNCHANGED <<module, reload>>
  PROVE  PendingInCallback' /\ EveryApplyCompletesOnce'
<1> USE DEF reload
<1>1. EveryApplyCompletesOnce' BY DEF EveryApplyCompletesOnce
<1>2. PendingInCallback'
  <2> SUFFICES ASSUME completion_pending' PROVE callback_depth' >= 1 /\ module'.v > 0
    BY DEF PendingInCallback
  <2>1. completion_pending BY Zenon
  <2>2. callback_depth >= 1 /\ module.v > 0 BY <2>1, Zenon DEF PendingInCallback
  <2> QED BY <2>2 DEF TypeOK
<1> QED BY <1>1, <1>2

\* Steps that touch neither mailbox nor taken swap keep the versions.
LEMMA VersionsQuiet ==
  Versions /\ UNCHANGED <<mailbox, taken, settled>> => Versions'
BY DEF Versions, mailbox

\* Every step keeps the hand-over of stagings and the completion bookkeeping.
LEMMA HandOverStep == IndInv /\ [Next]_vars => HandOverInv'
<1> SUFFICES ASSUME TypeOK, Shape, ValuesInv, PendingInCallback,
                    EveryApplyCompletesOnce, Versions, [Next]_vars
             PROVE  PendingInCallback' /\ EveryApplyCompletesOnce' /\ Versions'
  BY DEF IndInv, SwapInv, HandOverInv, ValuesInv
<1> USE DEF mailbox, reload, program, heap
<1>c. stack \in Seq(Frame) /\ Len(stack) \in Nat /\ callback_depth \in Nat
      /\ stagings \in Nat
  BY DEF TypeOK
<1>m. None \notin StagedSwap BY MarkersAssumption
<1>r. /\ completion_pending \in BOOLEAN /\ completed \in Nat
      /\ generation = completed + (IF completion_pending THEN 1 ELSE 0)
      /\ completion_pending => module.v > 0
  BY DEF TypeOK, EveryApplyCompletesOnce, PendingInCallback
<1>1. ASSUME NEW p \in Modules, Stage(p)
      PROVE  PendingInCallback' /\ EveryApplyCompletesOnce' /\ Versions'
  <2>1. Versions'
    <3>1. staged' # None BY <1>1, <1>m, <1>c DEF Stage, StagedSwap
    <3>2. staged'.v = stagings' /\ stagings' > 0 /\ taken' = taken BY <1>1, <1>c DEF Stage
    <3> QED BY <3>1, <3>2 DEF Versions
  <2>2. EveryApplyCompletesOnce' BY <1>1 DEF Stage, EveryApplyCompletesOnce
  <2>3. PendingInCallback' BY <1>1 DEF Stage, PendingInCallback
  <2> QED BY <2>1, <2>2, <2>3
<1>2. ASSUME NEW s \in Slots, EnterCallback(s)
      PROVE  PendingInCallback' /\ EveryApplyCompletesOnce' /\ Versions'
  <2>1. Versions' BY <1>2, VersionsQuiet DEF EnterCallback
  <2> DEFINE d == callback_depth + 1
  <2>2. /\ Dispatch(slots[s], slots[s].fid, module, prepared, d, completion_pending)
        /\ d \in Nat /\ d >= 1
        /\ UNCHANGED <<module, generation>>
    BY <1>2, <1>c DEF EnterCallback
  <2> HIDE DEF d
  <2> QED BY <1>r, <2>1, <2>2, DispatchReports
<1>3. ASSUME NEW s \in Slots, TakeStaged(s)
      PROVE  PendingInCallback' /\ EveryApplyCompletesOnce' /\ Versions'
  <2>1. Versions'
    <3>1. staged # None /\ staged' = None /\ taken' = staged /\ stagings' = stagings
          /\ taken = None
      BY <1>3 DEF TakeStaged, Shape
    <3>2. staged.v = stagings /\ staged \in StagedSwap BY <3>1 DEF Versions, TypeOK
    <3>3. stagings > 0 BY <3>1 DEF Versions
    <3> QED BY <3>1, <3>2, <3>3 DEF Versions
  <2>2. EveryApplyCompletesOnce' BY <1>3 DEF TakeStaged, EveryApplyCompletesOnce
  <2>3. PendingInCallback'
    <3>1. callback_depth = 0 BY <1>3, <1>c DEF TakeStaged, Outermost
    <3>2. ~completion_pending BY <3>1 DEF PendingInCallback
    <3>3. ~completion_pending' BY <1>3, <3>2, Zenon DEF TakeStaged
    <3> QED BY <3>3, Zenon DEF PendingInCallback
  <2> QED BY <2>1, <2>2, <2>3
<1>4. CASE DeferSwap
  <2>1. Versions'
    <3>1. /\ pc = "took" /\ staged' = PutBack /\ taken' = None /\ stagings' = stagings
      BY <1>4 DEF DeferSwap
    <3>2. taken # None BY <3>1 DEF Shape
    <3> QED BY <3>1, <3>2 DEF Versions, PutBack
  <2>2. /\ Dispatch(inflight, inflight.fid, module, prepared, callback_depth,
                    completion_pending)
        /\ UNCHANGED <<module, generation>> /\ callback_depth >= 1
    BY <1>4, TookFacts DEF DeferSwap
  <2> QED BY <1>c, <1>r, <2>1, <2>2, DispatchReports
<1>5. CASE RejectSwap \/ CommitFails
  <2>1. Versions'
    <3>1. /\ pc = "took" /\ taken' = None /\ settled' = taken.v
          /\ UNCHANGED <<staged, stagings>>
      BY <1>5 DEF RejectSwap, CommitFails
    <3>2. taken # None BY <3>1 DEF Shape
    <3> QED BY <3>1, <3>2 DEF Versions
  <2>2. /\ Dispatch(inflight, inflight.fid, module, prepared, callback_depth,
                    completion_pending)
        /\ UNCHANGED <<module, generation>> /\ callback_depth >= 1
    BY <1>5, TookFacts DEF RejectSwap, CommitFails
  <2> QED BY <1>c, <1>r, <2>1, <2>2, DispatchReports
<1>6. CASE CommitSwap
  <2>0. pc' # "unreachable" BY <1>6, CommitStep
  <2> DEFINE id == Translated(FunctionIdMap(module.prog, taken.prog), inflight.fid)
             mended == [inflight EXCEPT !.fid = id]
  <2>1. /\ pc = "took" /\ taken' = None /\ settled' = taken.v /\ module' = taken
        /\ generation' = generation + 1
        /\ Dispatch(mended, id, taken, InvalidateModuleCaches, callback_depth, TRUE)
        /\ UNCHANGED <<staged, stagings>>
    BY <1>6, <2>0 DEF CommitSwap
  <2> HIDE DEF id, mended
  <2>2. taken # None /\ callback_depth = 1 BY <2>1 DEF Shape
  <2>3. Versions' BY <2>1, <2>2 DEF Versions
  <2>4. module'.v > 0 BY <2>1, <2>2 DEF Versions
  <2>5. ~completion_pending BY <2>1 DEF PendingInCallback
  <2>6. generation = completed BY <2>5, <1>r
  <2>7. generation' = completed + (IF TRUE THEN 1 ELSE 0) BY <2>1, <2>6
  <2>8. callback_depth >= 1 /\ TRUE \in BOOLEAN BY <2>2
  <2> QED BY <1>c, <1>r, <2>1, <2>3, <2>4, <2>7, <2>8, DispatchReports
<1>7. CASE ExitCallback
  <2>1. Versions' BY <1>7, VersionsQuiet DEF ExitCallback
  <2>2. /\ pc' = "native" /\ callback_depth' = callback_depth - 1
        /\ UNCHANGED <<module, generation>>
        /\ callback_depth + 1 = Len(stack) /\ Len(stack) > 1
        /\ Leave(callback_depth, completion_pending)
    BY <1>7 DEF ExitCallback, Shape, Leave
  <2>3. CASE Completes(callback_depth, completion_pending)
    <3>1. completion_pending BY <2>3 DEF Completes
    <3>2. completed' = completed + 1 /\ ~completion_pending'
      BY <2>2, <2>3 DEF Leave, ReportCompleted
    <3>3. generation = completed + 1 BY <3>1 DEF EveryApplyCompletesOnce
    <3>4. EveryApplyCompletesOnce' BY <2>2, <3>2, <3>3 DEF EveryApplyCompletesOnce, TypeOK
    <3>5. PendingInCallback' BY <3>2 DEF PendingInCallback
    <3> QED BY <2>1, <3>4, <3>5
  <2>4. CASE ~Completes(callback_depth, completion_pending)
    <3>1. UNCHANGED <<completion_pending, completed>> BY <2>2, <2>4 DEF Leave
    <3>2. EveryApplyCompletesOnce' BY <2>2, <3>1 DEF EveryApplyCompletesOnce
    <3>3. PendingInCallback'
      <4> SUFFICES ASSUME completion_pending
                   PROVE  callback_depth' >= 1 /\ module'.v > 0
        BY <2>2, <3>1 DEF PendingInCallback
      <4>1. callback_depth - 1 # 0 BY <2>4 DEF Completes
      <4>2. module.v > 0 BY DEF PendingInCallback
      <4> QED BY <1>c, <2>2, <4>1, <4>2
    <3> QED BY <2>1, <3>2, <3>3
  <2> QED BY <2>3, <2>4
<1>8. ASSUME \/ CallNative \/ ReturnFromNative
             \/ \E s \in Slots, i \in Ids, kind \in {"closure", "bare"} :
                  MakeFunctionValue(s, i, kind)
             \/ \E s, t \in Slots : ExportClosure(s, t)
             \/ \E s, t \in Slots : MaterializeClosure(s, t)
             \/ \E s \in Slots : ReleaseValue(s)
             \/ \E t \in TypeNames : MakeBox(t)
             \/ \E t \in TypeNames : FreeBox(t)
             \/ \E busy \in BOOLEAN : SetTasks(busy)
      PROVE  PendingInCallback' /\ EveryApplyCompletesOnce' /\ Versions'
  <2>1. /\ UNCHANGED <<staged, stagings, taken, settled, callback_depth, module,
                       generation, completion_pending, completed>>
        /\ pc' # "took"
    BY <1>8 DEF CallNative, ReturnFromNative, MakeFunctionValue, ExportClosure, MaterializeClosure,
                ReleaseValue, MakeBox, FreeBox, SetTasks
  <2> QED BY <1>c, <2>1, VersionsQuiet, ReportQuiet
<1>9. CASE UNCHANGED vars
  BY <1>9 DEF vars, PendingInCallback, EveryApplyCompletesOnce, Versions
<1> QED BY <1>1, <1>2, <1>3, <1>4, <1>5, <1>6, <1>7, <1>8, <1>9 DEF Next

-----------------------------------------------------------------------------
(* The theorems.                                                           *)

\* The process starts with nothing staged and one frame of the first program.
LEMMA InitIndInv == Init => IndInv
<1> SUFFICES ASSUME Init PROVE IndInv OBVIOUS
<1>1. module \in StagedSwap /\ module.v = 0 /\ module.prog = FirstModule
  BY ModulesAssumption DEF Init, StagedSwap
<1>2. stack = <<Entry(module, EntryId)>> BY DEF Init
<1>3. Entry(module, EntryId) \in Frame /\ Entry(module, EntryId).code = module
  <2>1. EntryId \in Ids /\ FirstModule.fns[EntryId].name \in Names
    BY ModulesAssumption, FunctionTable
  <2> QED BY <1>1, <2>1 DEF Entry, Frame, Value
<1> DEFINE entry == Entry(module, EntryId)
<1> HIDE DEF entry
<1>4. /\ stack = <<entry>> /\ entry \in Frame /\ entry.code = module
  BY <1>2, <1>3 DEF entry
<1>5. /\ Len(stack) = 1 /\ stack[1] = entry /\ stack \in Seq(Frame) BY <1>4
<1>6. TypeOK
  <2>1. /\ staged = None /\ taken = None /\ inflight = None /\ retired = <<>>
        /\ stagings = 0 /\ generation = 0 /\ completed = 0 /\ settled = 0
        /\ callback_depth = 0 /\ pc = "vm"
        /\ bound = module /\ prepared = module
        /\ slots = [s \in Slots |-> Free] /\ boxes = [t \in TypeNames |-> Free]
    BY DEF Init
  <2>2. completion_pending \in BOOLEAN /\ tasks \in BOOLEAN BY DEF Init
  <2> QED BY <1>1, <1>5, <2>1, <2>2 DEF TypeOK
<1>7. Shape BY <1>5 DEF Init, Shape
<1>8. PreparedCurrent BY DEF Init, PreparedCurrent
<1>9. FrameLayouts BY <1>4, <1>5, LayoutsSurviveIsPreorder DEF FrameLayouts
<1>10. ClosuresDenote BY DEF Init, ClosuresDenote
<1>11. CallbacksRunTheirFunction BY <1>5 DEF CallbacksRunTheirFunction
<1>12. CallbackFramesAreCurrent BY <1>5 DEF CallbackFramesAreCurrent
<1>13. LayoutsHold /\ CommitIsInfallible BY DEF Init, LayoutsHold, CommitIsInfallible
<1>14. HandOverInv
  BY DEF Init, HandOverInv, PendingInCallback, EveryApplyCompletesOnce, Versions
<1> QED
  BY <1>6, <1>7, <1>8, <1>9, <1>10, <1>11, <1>12, <1>13, <1>14 DEF IndInv, SwapInv

\* One step of the system keeps the whole invariant.
LEMMA IndInvStep == IndInv /\ [Next]_vars => IndInv'
BY TypeStep, SwapStep, HandOverStep DEF IndInv, SwapInv

\* The inductive invariant holds of every reachable state.
THEOREM Inductive == Spec => []IndInv
BY InitIndInv, IndInvStep, PTL DEF Spec

\* Every variable of the swap machinery keeps its type; the callback depth,
\* which exitCallback decrements unconditionally, never goes below zero.
THEOREM TypeCorrect == Spec => []TypeOK
<1>1. IndInv => TypeOK BY DEF IndInv
<1> QED BY <1>1, Inductive, PTL

\* Closures and exported blocks survive any sequence of swaps with their
\* meaning (evaluate with remapLiveFunctionIds).
THEOREM ClosuresSurviveSwaps == Spec => []ClosuresDenote
<1>1. IndInv => ClosuresDenote BY DEF IndInv, SwapInv
<1> QED BY <1>1, Inductive, PTL

\* A callback through an exported block runs the function the block was made
\* for, the callback that applies the swap included.
THEOREM CallbacksAreRight == Spec => []CallbacksRunTheirFunction
<1>1. IndInv => CallbacksRunTheirFunction BY DEF IndInv, SwapInv
<1> QED BY <1>1, Inductive, PTL

\* No swap is applied under a callback in progress (enterCallback's depth
\* test), and none leaves decoded code of the old module behind.
THEOREM NoSwapUnderACallback == Spec => []CallbackFramesAreCurrent
<1>1. IndInv => CallbackFramesAreCurrent BY DEF IndInv, SwapInv
<1> QED BY <1>1, Inductive, PTL

\* Native-state boxes are always read with the layout they were built with.
THEOREM LayoutsAreStable == Spec => []LayoutsHold
<1>1. IndInv => LayoutsHold BY DEF IndInv, SwapInv
<1> QED BY <1>1, Inductive, PTL

\* What evaluate accepts, commit can carry out: its two `unreachable`
\* branches are never taken.
THEOREM EvaluateGuardsCommit == Spec => []CommitIsInfallible
<1>1. IndInv => CommitIsInfallible BY DEF IndInv, SwapInv
<1> QED BY <1>1, Inductive, PTL

\* Applied swaps and `completed` events stay in step.
THEOREM CompletionsMatchApplies == Spec => []EveryApplyCompletesOnce
<1>1. IndInv => EveryApplyCompletesOnce BY DEF IndInv, HandOverInv
<1> QED BY <1>1, Inductive, PTL

\* The race of stage with a deferral never loses the newest program.
THEOREM NewestSurvives == Spec => []NewestStagingNotLost
<1>1. IndInv => NewestStagingNotLost
  BY DEF IndInv, HandOverInv, Versions, NewestStagingNotLost
<1> QED BY <1>1, Inductive, PTL

\* A dispatch that sends `completed` fails its callback: the process panics.
LEMMA DispatchCompletes ==
  ASSUME NEW call, NEW id, NEW m, NEW cache, NEW depth, NEW pending,
         Dispatch(call, id, m, cache, depth, pending), completed' # completed
  PROVE  pc' = "panic" /\ Completes(depth, pending)
<1>1. ~Stay(depth, pending) BY DEF Stay
<1>2. Leave(depth, pending) /\ pc' = "panic" BY <1>1 DEF Dispatch
<1>3. Completes(depth, pending) BY <1>2, Zenon DEF Leave
<1> QED BY <1>2, <1>3

\* `completed` is reported by the return of an outermost callback that executed
\* the swapped-in module, and otherwise only by the callback that applied the
\* swap, failing before its first instruction, in the step that ends the
\* process: no later frame and no other callback ever sends it.
THEOREM CompletionMeansNewCode == Spec => CompletedByNewCodeOrAtPanic
<1> DEFINE Returned == Len(stack) = 2 /\ Top.code = module
           Failed == pc = "took" /\ module' = taken /\ pc' = "panic"
           A == completed' # completed => module'.v > 0 /\ (Returned \/ Failed)
<1>1. IndInv /\ [Next]_vars => [A]_vars
  <2> SUFFICES ASSUME IndInv, Next, completed' # completed
               PROVE  module'.v > 0 /\ (Returned \/ Failed)
    OBVIOUS
  <2> USE DEF reload, program
  <2>1. \/ ExitCallback \/ DeferSwap \/ RejectSwap \/ CommitFails \/ CommitSwap
        \/ \E s \in Slots : EnterCallback(s)
    BY DEF Next, Stage, TakeStaged, CallNative, ReturnFromNative, MakeFunctionValue,
           ExportClosure, MaterializeClosure, ReleaseValue, MakeBox, FreeBox, SetTasks
  <2>2. callback_depth \in Nat /\ stack \in Seq(Frame) BY DEF IndInv, TypeOK
  <2>3. /\ completion_pending => callback_depth >= 1 /\ pc # "took" /\ module.v > 0
        /\ taken # None => taken.v > 0
        /\ pc = "took" => taken # None
    BY DEF IndInv, HandOverInv, PendingInCallback, Versions, SwapInv, Shape
  <2>4. CASE ExitCallback
    <3>1. /\ pc = "vm" /\ Len(stack) > 1 /\ Leave(callback_depth, completion_pending)
          /\ module' = module
      BY <2>4 DEF ExitCallback
    <3>2. Completes(callback_depth, completion_pending) BY <3>1, Zenon DEF Leave
    <3>3. callback_depth - 1 = 0 BY <3>2 DEF Completes
    <3>4. completion_pending BY <3>2 DEF Completes
    <3>5. Len(stack) = 2 BY <2>2, <3>1, <3>3 DEF IndInv, SwapInv, Shape
    <3>6. Top.code = module
      BY <3>5 DEF IndInv, SwapInv, CallbackFramesAreCurrent, Top
    <3> QED BY <2>3, <3>1, <3>4, <3>5, <3>6
  <2>5. CASE DeferSwap \/ RejectSwap \/ CommitFails
    <3>1. /\ pc = "took"
          /\ Dispatch(inflight, inflight.fid, module, prepared, callback_depth,
                      completion_pending)
      BY <2>5 DEF DeferSwap, RejectSwap, CommitFails
    <3>2. completion_pending BY <3>1, DispatchCompletes DEF Completes
    <3> QED BY <2>3, <3>1, <3>2
  <2>6. CASE CommitSwap
    <3> DEFINE id == Translated(FunctionIdMap(module.prog, taken.prog), inflight.fid)
               mended == [inflight EXCEPT !.fid = id]
    <3>1. /\ pc = "took" /\ module' = taken
          /\ Dispatch(mended, id, taken, InvalidateModuleCaches, callback_depth, TRUE)
      BY <2>6 DEF CommitSwap
    <3> HIDE DEF id, mended
    <3>2. pc' = "panic" BY <3>1, DispatchCompletes
    <3> QED BY <2>3, <3>1, <3>2
  <2>7. ASSUME NEW s \in Slots, EnterCallback(s) PROVE FALSE
    <3> DEFINE d == callback_depth + 1
    <3>1. /\ d = callback_depth + 1
          /\ Dispatch(slots[s], slots[s].fid, module, prepared, d, completion_pending)
      BY <2>7 DEF EnterCallback
    <3> HIDE DEF d
    <3>2. Completes(d, completion_pending) BY <3>1, DispatchCompletes
    <3>3. d - 1 = 0 BY <3>2 DEF Completes
    <3>4. completion_pending BY <3>2 DEF Completes
    <3> QED BY <2>2, <2>3, <3>1, <3>3, <3>4
  <2> QED BY <2>1, <2>4, <2>5, <2>6, <2>7
<1> QED BY <1>1, Inductive, PTL DEF Spec, CompletedByNewCodeOrAtPanic

\* A commit retires the module it replaces before any frame of the new one
\* runs, so the code of every frame stays allocated.
LEMMA AllocatedStep == IndInv /\ RunningCodeIsAllocated /\ [Next]_vars => RunningCodeIsAllocated'
<1> SUFFICES ASSUME IndInv, RunningCodeIsAllocated, [Next]_vars
             PROVE  RunningCodeIsAllocated'
  OBVIOUS
<1> USE DEF mailbox, reload, program, heap
<1>a. TypeOK /\ Shape /\ ValuesInv /\ CommitIsInfallible
  BY DEF IndInv, SwapInv, ValuesInv
<1>b. TypeOK' /\ CallbackFramesAreCurrent' /\ Shape' /\ CommitIsInfallible'
  BY IndInvStep DEF IndInv, SwapInv
<1>c. /\ stack \in Seq(Frame) /\ stack' \in Seq(Frame)
      /\ retired \in Seq(StagedSwap) /\ Len(stack) \in Nat /\ Len(stack') \in Nat
  BY <1>a, <1>b DEF TypeOK
<1>d. Len(stack') >= 1 BY <1>b DEF Shape
<1>1. stack'[1] = stack[1]
  <2>0. Len(stack) >= 1 BY <1>a DEF Shape
  <2>1. ASSUME NEW call, NEW id, NEW m, NEW cache, NEW depth, NEW pending,
               Dispatch(call, id, m, cache, depth, pending)
        PROVE  stack'[1] = stack[1]
    <3> DEFINE frame == FrameOf(call, id, PreparedFor(m, cache))
    <3>1. stack' = stack \/ stack' = Append(stack, frame) BY <2>1 DEF Dispatch
    <3> HIDE DEF frame
    <3> QED BY <1>c, <2>0, <3>1
  <2>2. CASE ExitCallback BY <1>c, <2>0, <2>2 DEF ExitCallback
  <2>3. ASSUME NEW s \in Slots, EnterCallback(s) PROVE stack'[1] = stack[1]
    BY <2>1, <2>3 DEF EnterCallback
  <2>4. CASE DeferSwap \/ RejectSwap \/ CommitFails
    BY <2>1, <2>4 DEF DeferSwap, RejectSwap, CommitFails
  <2>5. CASE CommitSwap BY <1>b, <2>1, <2>5 DEF CommitSwap, CommitIsInfallible
  <2> QED
    BY <2>2, <2>3, <2>4, <2>5
    DEF Next, Stage, TakeStaged, CallNative, ReturnFromNative, MakeFunctionValue,
        ExportClosure, MaterializeClosure, ReleaseValue, MakeBox, FreeBox, SetTasks, vars
<1>2. {module} \cup Range(retired) \subseteq {module'} \cup Range(retired')
  <2>1. CASE CommitSwap
    <3>1. retired' = Append(retired, module)
      BY <1>b, <2>1 DEF CommitSwap, Retire, CommitIsInfallible
    <3>2. module \in StagedSwap BY <1>a DEF TypeOK
    <3>3. /\ Len(retired') = Len(retired) + 1 /\ retired'[Len(retired) + 1] = module
          /\ \A k \in 1 .. Len(retired) : retired'[k] = retired[k]
          /\ Len(retired) \in Nat
      BY <1>c, <3>1, <3>2
    <3> QED BY <3>3 DEF Range
  <2>2. CASE ~CommitSwap
    <3>1. UNCHANGED <<module, retired>>
      BY <2>2
      DEF Next, Stage, EnterCallback, TakeStaged, DeferSwap, RejectSwap, CommitFails,
          ExitCallback, CallNative, ReturnFromNative, MakeFunctionValue,
          ExportClosure, MaterializeClosure, ReleaseValue, MakeBox, FreeBox, SetTasks, vars
    <3> QED BY <3>1 DEF Range
  <2> QED BY <2>1, <2>2
<1> SUFFICES ASSUME NEW k \in 1 .. Len(stack')
             PROVE  stack'[k].code \in {module'} \cup Range(retired')
  BY DEF RunningCodeIsAllocated, Range
<1>3. CASE k = 1
  <2>1. stack[1].code \in {module} \cup Range(retired)
    BY <1>a, <1>c DEF RunningCodeIsAllocated, Shape
  <2> QED BY <1>1, <1>2, <1>3, <2>1
<1>4. CASE k # 1 BY <1>b, <1>c, <1>4 DEF CallbackFramesAreCurrent
<1> QED BY <1>3, <1>4

\* The code every frame executes is allocated: the module in force or one
\* kept in retired_modules, whatever the parked entry frame is still running.
THEOREM NoFrameOutlivesItsCode == Spec => []RunningCodeIsAllocated
<1>1. Init => RunningCodeIsAllocated
  <2> SUFFICES ASSUME Init PROVE RunningCodeIsAllocated OBVIOUS
  <2>1. IndInv BY InitIndInv
  <2>2. stack = <<Entry(module, EntryId)>> BY DEF Init
  <2>3. Len(stack) = 1 /\ stack[1].code = module BY <2>2 DEF Entry
  <2> QED BY <2>3 DEF RunningCodeIsAllocated
<1> QED BY <1>1, Inductive, AllocatedStep, PTL DEF Spec
=============================================================================
