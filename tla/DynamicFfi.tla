------------------------------ MODULE DynamicFfi ------------------------------
(***************************************************************************)
(* Calls of native functions by pointer                                    *)
(* (kira_native_bridge/src/dynamic_ffi_helpers.c, declared in              *)
(* foundation/NativeLibs/DynamicFfi/kira_dynamic_ffi.h): the lazy loading  *)
(* of libffi, kira_dynamic_ffi_call, the call builder, the raw memory a    *)
(* program passes to the functions it calls, and user-loaded libraries.    *)
(*                                                                         *)
(* One thread, but re-entrant: the native function called may call back    *)
(* into the program, which builds and makes further calls before the first *)
(* one returns.  `stack` holds the native functions that are running.      *)
(***************************************************************************)
EXTENDS NativeMemory, FiniteSets

CONSTANTS
  Libs, None,      \* shared libraries; no library (a NULL handle)
  SearchOrder,     \* the files kira_open_managed_libffi tries, in order
  Provides,        \* the libffi symbols each library exports
  Functions, Null, \* native functions; a symbol that was not found
  ResultTypes,     \* the types of the invoke functions
  Values,          \* the values passed as arguments and returned, besides zero
  DirectArgs,      \* argument lists of calls made without a builder
  Handles,         \* call builders
  MaxArgs,         \* KIRA_DYNAMIC_CALL_MAX_ARGS
  BlockSize,       \* bytes of the block the program allocates
  MaxDepth,        \* bound: native calls on the stack
  MaxAppends,      \* bound: arguments appended to one builder
  MaxOpens,        \* bound: user references to one library
  MaxCalls         \* bound: calls attempted

\* kira_dynamic_ffi_last_error
OK == "OK"
Failures == {"NULL_SYMBOL", "LIBFFI_UNAVAILABLE", "UNSUPPORTED_TYPE", "PREP_FAILED",
             "TOO_MANY_ARGS"}

\* What ensure_libffi insists on; a missing scalar type only rules out that type.
Essential == {"ffi_prep_cif", "ffi_call", "ptr"}

ASSUME FfiAssumption ==
  /\ None \notin Libs /\ Null \notin Functions
  /\ SearchOrder \in Seq(Libs) /\ DOMAIN Provides = Libs
  /\ MaxArgs \in Nat \ {0} /\ BlockSize \in Nat /\ ResultTypes \subseteq Scalars \cup {"void"}
  /\ DirectArgs \subseteq Seq(STRING \ {"void"})   \* no argument is of type void

VARIABLES
  installed,  \* the libraries dlopen would find now
  refs,       \* references the loader holds for each library
  opened,     \* history: references the program took and has not given back
  ffi,        \* kira_libffi: its library and the symbols that were found
  err,        \* kira_dynamic_ffi_last_error
  builder,    \* KiraDynamicCall per handle
  stack,      \* native functions running, innermost last
  answer,     \* what the last invoke returned, and whether it called
  mem,        \* the program's block, <<>> for NULL
  intact,     \* history: writes to it not overwritten since
  calls       \* calls attempted

vars == <<installed, refs, opened, ffi, err, builder, stack, answer, mem, intact, calls>>

NoFfi == [lib |-> None, syms |-> {}]
NoCall == [live |-> FALSE, capacity |-> 0, args |-> <<>>, asked |-> <<>>]
NoAnswer == [code |-> "none", value |-> 0, called |-> FALSE, returned |-> 0]

Init ==
  /\ installed \in SUBSET Libs /\ refs = [l \in Libs |-> 0] /\ opened = refs
  /\ ffi = NoFfi /\ err = OK /\ answer = NoAnswer
  /\ builder = [h \in Handles |-> NoCall] /\ stack = <<>>
  /\ mem = <<>> /\ intact = {} /\ calls = 0

-----------------------------------------------------------------------------
(* Libraries of the program, and the environment.                          *)

LibraryOpen(l) ==
  /\ l \in installed /\ opened[l] < MaxOpens
  /\ refs' = [refs EXCEPT ![l] = @ + 1] /\ opened' = [opened EXCEPT ![l] = @ + 1]
  /\ UNCHANGED <<installed, ffi, err, builder, stack, answer, mem, intact, calls>>

LibraryClose(l) ==
  /\ opened[l] > 0
  /\ refs' = [refs EXCEPT ![l] = @ - 1] /\ opened' = [opened EXCEPT ![l] = @ - 1]
  /\ UNCHANGED <<installed, ffi, err, builder, stack, answer, mem, intact, calls>>

\* A toolchain is installed, or an environment variable set, between two tries.
Install(l) ==
  /\ l \notin installed /\ installed' = installed \cup {l}
  /\ UNCHANGED <<refs, opened, ffi, err, builder, stack, answer, mem, intact, calls>>

-----------------------------------------------------------------------------
(* Loading libffi.                                                         *)

\* The first file of the search order that opens.
kira_open_managed_libffi ==
  LET found == {k \in DOMAIN SearchOrder : SearchOrder[k] \in installed}
  IN  IF found = {} THEN None
      ELSE SearchOrder[CHOOSE k \in found : \A j \in found : k <= j]

\* An incomplete library is closed and forgotten, so that the next call tries
\* again.  Mutant: only forgotten.
ForgetOnly(l) == [ffi |-> NoFfi, refs |-> [refs EXCEPT ![l] = @ + 1], ok |-> FALSE]
Abandon(l)    == [ffi |-> NoFfi, refs |-> refs, ok |-> FALSE]

\* kira_dynamic_ffi_ensure_libffi: the state it leaves and whether it succeeds.
EnsureLibffi ==
  LET l == kira_open_managed_libffi IN
  IF ffi.lib # None THEN [ffi |-> ffi, refs |-> refs, ok |-> TRUE]
  ELSE IF l = None THEN [ffi |-> ffi, refs |-> refs, ok |-> FALSE]
  ELSE IF Essential \subseteq Provides[l]
    THEN [ffi |-> [lib |-> l, syms |-> Provides[l]],
          refs |-> [refs EXCEPT ![l] = @ + 1], ok |-> TRUE]
  ELSE Abandon(l)

\* kira_ffi_type: NULL for an unknown tag or a type libffi did not export.
Tags == Scalars \cup {"void"}
kira_ffi_type(loaded, tag) == IF tag \in Tags \cap loaded.syms THEN tag ELSE Null

-----------------------------------------------------------------------------
(* Calls.                                                                  *)

Small(t) == Values \cap ValuesOf(t)

Fail(code) == /\ err' = code /\ UNCHANGED stack
              /\ answer' = [NoAnswer EXCEPT !.code = code]

\* kira_dynamic_ffi_call up to the jump to the function: the checks in their
\* order, any of which ends the call with its code.
FfiCall(function, result, args, asked) ==
  LET loaded == EnsureLibffi
      Known(tag) == kira_ffi_type(loaded.ffi, tag) # Null
      typed == Known(result) /\ \A k \in DOMAIN args : Known(args[k].type)
  IN
  /\ calls < MaxCalls /\ calls' = calls + 1
  /\ \/ /\ function = Null /\ Fail("NULL_SYMBOL") /\ UNCHANGED <<ffi, refs>>
     \/ /\ function # Null /\ Len(args) > MaxArgs
        /\ Fail("TOO_MANY_ARGS") /\ UNCHANGED <<ffi, refs>>
     \/ /\ function # Null /\ Len(args) <= MaxArgs
        /\ ffi' = loaded.ffi /\ refs' = loaded.refs
        /\ \/ ~loaded.ok /\ Fail("LIBFFI_UNAVAILABLE")
           \/ loaded.ok /\ ~typed /\ Fail("UNSUPPORTED_TYPE")
           \/ loaded.ok /\ typed /\ Fail("PREP_FAILED")
           \/ /\ loaded.ok /\ typed /\ Len(stack) < MaxDepth
              /\ stack' = Append(stack,
                   [function |-> function, result |-> result, asked |-> asked,
                    got |-> [k \in DOMAIN args |->
                               [type |-> args[k].type,
                                value |-> FromWord(args[k].type, args[k].word)]]])
              /\ UNCHANGED <<err, answer>>

\* kira_dynamic_ffi_call itself, and its two fixed-shape wrappers.
DirectCall(function, result, args) ==
  /\ FfiCall(function, result, [k \in DOMAIN args |->
       [type |-> args[k], word |-> 0]], [k \in DOMAIN args |-> [type |-> args[k], value |-> 0]])
  /\ UNCHANGED <<installed, opened, builder, mem, intact>>

\* The function returns.  libffi widens an integer result to a word of the
\* result slot, which was zeroed; the invoke reads its own type from it.
\* Mutant: success was recorded before the call.
RecordedBefore(f) == err' = err
RecordOutcome(f) == err' = OK

FunctionReturns(v) ==
  /\ stack # <<>>
  /\ LET f == Last(stack) IN
     /\ v \in IF f.result = "void" THEN {0} ELSE Small(f.result) \cup {0}
     /\ RecordOutcome(f)
     /\ answer' = [code |-> OK, called |-> TRUE, returned |-> v,
                   value |-> IF f.result = "void" THEN 0
                             ELSE AsType(f.result, v % Modulus(WordWidth))]
  /\ stack' = Front(stack)
  /\ UNCHANGED <<installed, refs, opened, ffi, builder, mem, intact, calls>>

-----------------------------------------------------------------------------
(* The call builder.                                                       *)

\* NULL if the program asks for too many arguments or there is no memory.
CallNew(h, max_args) ==
  /\ ~builder[h].live /\ max_args <= MaxArgs
  /\ builder' = [builder EXCEPT ![h] = [NoCall EXCEPT !.live = TRUE,
                   !.capacity = IF max_args = 0 THEN MaxArgs ELSE max_args]]
  /\ UNCHANGED <<installed, refs, opened, ffi, err, stack, answer, mem, intact, calls>>

\* Mutant: the count is kept.
KeepCount(b) == [b EXCEPT !.asked = <<>>]
ResetCount(b) == [b EXCEPT !.args = <<>>, !.asked = <<>>]

CallReset(h) ==
  /\ builder[h].live /\ builder' = [builder EXCEPT ![h] = ResetCount(@)]
  /\ UNCHANGED <<installed, refs, opened, ffi, err, stack, answer, mem, intact, calls>>

CallFree(h) ==
  /\ builder[h].live /\ builder' = [builder EXCEPT ![h] = NoCall]
  /\ UNCHANGED <<installed, refs, opened, ffi, err, stack, answer, mem, intact, calls>>

\* kira_dynamic_call_append: a full list drops the argument without a word.
IsFull(b) == Len(b.args) >= b.capacity

CallArg(h, t, v) ==
  /\ builder[h].live /\ Len(builder[h].asked) < MaxAppends
  /\ builder' = [builder EXCEPT
       ![h].args = IF IsFull(builder[h]) THEN @
                   ELSE Append(@, [type |-> t, word |-> ToWord(t, v)]),
       ![h].asked = Append(@, [type |-> t, value |-> v])]
  /\ UNCHANGED <<installed, refs, opened, ffi, err, stack, answer, mem, intact, calls>>

SelectPrefix(s, n) == SubSeq(s, 1, IF Len(s) < n THEN Len(s) ELSE n)

\* kira_dynamic_call_invoke; a NULL builder is reported like a NULL function.
CallInvoke(h, function, result) ==
  /\ builder[h].live
  /\ FfiCall(function, result, builder[h].args,
             SelectPrefix(builder[h].asked, builder[h].capacity))
  /\ UNCHANGED <<installed, opened, builder, mem, intact>>

InvokeNull ==
  /\ calls < MaxCalls /\ calls' = calls + 1 /\ Fail("NULL_SYMBOL")
  /\ UNCHANGED <<installed, refs, opened, ffi, builder, mem, intact>>

-----------------------------------------------------------------------------
(* The program's block: calloc, typed writes by it or by a function it     *)
(* passed the block to, free.                                              *)

Alloc ==
  /\ mem = <<>> /\ mem' = [k \in 1 .. BlockSize |-> 0] /\ intact' = {}
  /\ UNCHANGED <<installed, refs, opened, ffi, err, builder, stack, answer, calls>>

Free ==
  /\ mem # <<>> /\ mem' = <<>> /\ intact' = {}
  /\ UNCHANGED <<installed, refs, opened, ffi, err, builder, stack, answer, calls>>

Bytes(w) == w.offset + 1 .. w.offset + Width[w.type]

Write(offset, t, v) ==
  /\ mem # <<>> /\ offset + Width[t] <= BlockSize
  /\ mem' = Store(mem, offset, t, v)
  /\ LET w == [offset |-> offset, type |-> t, value |-> v]
     IN  intact' = {o \in intact : Bytes(o) \cap Bytes(w) = {}} \cup {w}
  /\ UNCHANGED <<installed, refs, opened, ffi, err, builder, stack, answer, calls>>

-----------------------------------------------------------------------------
Next ==
  \/ \E l \in Libs : LibraryOpen(l) \/ LibraryClose(l) \/ Install(l)
  \/ \E h \in Handles, n \in 0 .. MaxArgs : CallNew(h, n)
  \/ \E h \in Handles : CallReset(h) \/ CallFree(h)
  \/ \E h \in Handles, t \in Scalars : \E v \in Small(t) : CallArg(h, t, v)
  \/ \E h \in Handles, f \in Functions \cup {Null}, r \in ResultTypes : CallInvoke(h, f, r)
  \/ InvokeNull
  \/ \E f \in Functions \cup {Null}, r \in ResultTypes, a \in DirectArgs : DirectCall(f, r, a)
  \/ \E v \in Values \cup {0} : FunctionReturns(v)
  \/ Alloc \/ Free
  \/ \E n \in 0 .. BlockSize - 1, t \in Scalars : \E v \in Small(t) : Write(n, t, v)

Spec == Init /\ [][Next]_vars

-----------------------------------------------------------------------------
(* Properties.                                                             *)

\* The loader holds exactly the references the program took plus one for the
\* libffi in use, whatever failed loads and retries came before, and a libffi
\* in use has all that a call goes through (dynamic_ffi_helpers.c:394-425).
LibffiIsHeldOnce ==
  /\ \A l \in Libs : refs[l] = opened[l] + (IF ffi.lib = l THEN 1 ELSE 0)
  /\ ffi.lib # None => Essential \subseteq ffi.syms

\* "check kira_dynamic_ffi_last_error_code after an invoke to distinguish a
\* real zero result from a failed call" (kira_dynamic_ffi.h:108-110): the code
\* is about the invoke that returned last, whatever calls were made and
\* failed while its function ran, and a failed call returns zero.
ErrorTellsTheOutcome ==
  answer # NoAnswer =>
    /\ err = answer.code
    /\ (err = OK) <=> answer.called
    /\ answer.value = answer.returned /\ (err # OK => answer.value = 0)

\* The function is called with the arguments appended since the last reset,
\* up to the builder's capacity and never beyond, each with its type and value, negative ones
\* included (dynamic_ffi_helpers.c:497-566).
ArgumentsArrive ==
  /\ \A k \in DOMAIN stack : stack[k].got = stack[k].asked
  /\ \A h \in Handles : Len(builder[h].args) <= builder[h].capacity

\* A value written to native memory at a byte offset is read back from there
\* with its type, whatever is written next to it (dynamic_ffi_helpers.c:148-254).
ReadsBack ==
  \A w \in intact : Load(mem, w.offset, w.type) = w.value

=============================================================================
