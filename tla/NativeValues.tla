----------------------------- MODULE NativeValues -----------------------------
(***************************************************************************)
(* The values of native code: who owns the memory behind arrays, their     *)
(* elements, closures and native-state tokens, as                          *)
(* kira_native_bridge/src/runtime_helpers.c and the files it includes      *)
(* (runtime_helpers_arrays.inc, runtime_helpers_native_state.inc) manage   *)
(* it.  The program is what the compiler emits: it uses a value it owns,   *)
(* gives each one up once, and may pass any index.                         *)
(*                                                                         *)
(* Two builds.  Native: everything comes from libc and is released here.   *)
(* Hybrid: the VM installed its allocator and its closure destructor, so   *)
(* array storage is the VM's, release and clone are left to it, and a      *)
(* block must be given back with the size it was allocated with.           *)
(*                                                                         *)
(* A behaviour uses arrays, closures and tokens, or makes one call of a    *)
(* text primitive (`job`): they share nothing but the C heap.              *)
(***************************************************************************)
EXTENDS NativeText

CONSTANTS
  Null,
  Blocks,       \* addresses of elements, closures and tokens
  Headers,      \* addresses of arrays
  FirstCap,     \* the capacity of the first growth, four
  MaxLen,       \* bound: length of an array
  MaxLocals,    \* bound: values held by locals
  MaxTokens,    \* bound: live native-state tokens
  Jobs          \* calls of text primitives

ASSUME ValuesAssumption ==
  /\ Null \notin Blocks \cup Headers \cup Nat
  /\ FirstCap \in Nat \ {0} /\ MaxLen \in Nat

\* What snprintf leaves of a double in its form with an exponent, and any texts.
ASSUME JobsAssumption ==
  \A j \in Jobs :
    \/ /\ j.op = "float" /\ j.neg \in BOOLEAN /\ j.digits \in Seq(Digit) /\ j.digits # <<>>
       /\ j.digits[1] # 0 /\ j.point = 1 /\ j.exp10 \in Int
    \/ j.op = "token" /\ j.token \in Seq(Nat)
    \/ j.op = "search" /\ j.haystack \in Seq(Nat) /\ j.needle \in Seq(Nat)

VARIABLES
  hybrid,   \* kira_array_alloc_fn, kira_array_free_fn, kira_closure_destroy_fn set
  heap,     \* the block at each address
  array,    \* the KiraArray at each header address, with its items buffer
  locals,   \* blocks a local of the program owns
  held,     \* arrays a local of the program owns, or in a hybrid build the VM
  field,    \* an owned array field of a struct of the program
  registry, \* kira_native_state_registry, newest first
  exported_native_closures, \* the VM's list of the closure blocks it exported
  running,  \* the process has not called exit
  starved,  \* history: an allocation failed
  fault,    \* history: a block was freed twice, by the wrong allocator or size
  job, out  \* a text call and its result

vars == <<hybrid, heap, array, locals, held, field, registry, exported_native_closures, running,
          starved, fault, job, out>>

NoBlock == [kind |-> "none"]
NoArray == [elem |-> "none"]
NoJob == [op |-> "none"]
Leaf(kind, by) == [kind |-> kind, by |-> by]
Void == [tag |-> "void", ptr |-> Null]
Number == [tag |-> "int", ptr |-> Null]

Live == {b \in Blocks : heap[b].kind # "none"}
Arrays == {a \in Headers : array[a].elem # "none"}
Elems(a) == SubSeq(array[a].slots, 1, array[a].len)

Init ==
  /\ hybrid \in BOOLEAN /\ heap = [b \in Blocks |-> NoBlock] /\ array = [a \in Headers |-> NoArray]
  /\ locals = {} /\ held = {} /\ field = Null
  /\ registry = <<>> /\ exported_native_closures = {} /\ running = TRUE /\ starved = FALSE /\ fault = FALSE
  /\ job \in Jobs \cup {NoJob} /\ out = NoJob

-----------------------------------------------------------------------------
(* The allocators.                                                         *)

\* An allocation that succeeds returns an address not in use.
Room == Live # Blocks
Fresh == CHOOSE b \in Blocks : b \notin Live
FreshHeader == CHOOSE a \in Headers : a \notin Arrays

\* kira_bridge_alloc and kira_bridge_free: array storage; the rest is libc's.
BridgeFamily == IF hybrid THEN "vm" ELSE "libc"
AtLeastOne(n) == IF n = 0 THEN 1 ELSE n
Voids(n) == [k \in 1 .. n |-> Void]

\* Releases of blocks, each with the allocator it is given to.
Gone(block, by) == [block |-> block, by |-> by]
Misused(frees) == \E f \in frees : f.block \notin Live \/ heap[f.block].by # f.by
Without(frees) ==
  [b \in Blocks |-> IF \E f \in frees : f.block = b THEN NoBlock ELSE heap[b]]

\* The items buffer of an array, given back with a size: the VM's allocator
\* insists on the size it was allocated with.
ItemsMisused(a, size) ==
  array[a].buffer # Null /\ \/ array[a].by # BridgeFamily
                            \/ BridgeFamily = "vm" /\ array[a].buffer # size

Quiet == UNCHANGED <<hybrid, registry, exported_native_closures, running, job, out>>
Busy == running /\ job = NoJob

-----------------------------------------------------------------------------
(* Elements.                                                               *)

\* kira_struct_alloc for a boxed struct, kira_string_out for a string.
NewElement(kind) ==
  /\ Busy /\ ~hybrid /\ Room /\ Cardinality(locals) < MaxLocals
  /\ heap' = [heap EXCEPT ![Fresh] = Leaf(kind, "libc")]
  /\ locals' = locals \cup {Fresh}
  /\ UNCHANGED <<array, held, field, starved, fault>> /\ Quiet

ElementOf(b) == [tag |-> IF heap[b].kind = "string" THEN "string" ELSE "ptr", ptr |-> b]

\* What an element owns, released by its type: a string by free, a boxed
\* struct by its destructor and kira_struct_free.
Owned(e) == IF e.tag \in {"ptr", "string"} /\ e.ptr # Null THEN {Gone(e.ptr, "libc")} ELSE {}

DropElement(b) ==
  /\ Busy /\ b \in locals /\ heap[b].kind \in {"string", "struct"}
  /\ heap' = Without({Gone(b, "libc")}) /\ locals' = locals \ {b}
  /\ fault' = (fault \/ Misused({Gone(b, "libc")}))
  /\ UNCHANGED <<array, held, field, starved>> /\ Quiet

-----------------------------------------------------------------------------
(* Arrays: `buffer` is the size of the items allocation, Null without one. *)

NewArray(len, cap, buffer, slots, elem) ==
  [elem |-> elem, by |-> BridgeFamily, len |-> len, cap |-> cap, buffer |-> buffer, slots |-> slots]

\* kira_array_alloc; a hybrid program's elements are the VM's scalars.
\* copyArrayToNativeLayout makes a borrowed array whose cap is never zero.
ArrayAlloc(len, elem, exported) ==
  /\ Busy /\ (hybrid <=> elem = "int") /\ (exported => hybrid)
  /\ \/ /\ Arrays # Headers
        /\ array' = [array EXCEPT ![FreshHeader] =
             NewArray(len, IF exported THEN AtLeastOne(len) ELSE len,
                      AtLeastOne(len), Voids(AtLeastOne(len)), elem)]
        /\ held' = held \cup {FreshHeader} /\ UNCHANGED starved
     \/ starved' = TRUE /\ UNCHANGED <<array, held>>
  /\ UNCHANGED <<heap, locals, field, fault>> /\ Quiet

\* kira_array_append: in place while there is room, else into a larger buffer,
\* the old one freed by the size its capacity says.  Without memory the value
\* is dropped.  Mutant: freed by its length.
SizeByLength(a) == AtLeastOne(array[a].len)
SizeByCapacity(a) == AtLeastOne(array[a].cap)

CopiedInto(a, size) == [k \in 1 .. size |-> IF k <= array[a].len THEN array[a].slots[k] ELSE Void]

NextCap(a) ==
  LET doubled == IF array[a].cap < FirstCap THEN FirstCap ELSE array[a].cap * 2
  IN  IF doubled < array[a].len + 1 THEN array[a].len + 1 ELSE doubled

\* Mutant: the buffer grows by one while the capacity doubles.
GrownByOne(a) == array[a].len + 1
GrownBuffer(a) == NextCap(a)

\* The element passed: one the program owned, or a number.
Passed(a, b) ==
  IF array[a].elem = "int" THEN b = Null ELSE b \in locals /\ heap[b].kind = array[a].elem
ValueOf(b) == IF b = Null THEN Number ELSE ElementOf(b)

ArrayAppend(a, b) ==
  LET n == array[a].len + 1 IN
  /\ Busy /\ n <= MaxLen /\ Passed(a, b)
  /\ \/ /\ array[a].buffer # Null /\ array[a].len < array[a].cap
        /\ array' = [array EXCEPT ![a].slots[n] = ValueOf(b), ![a].len = n]
        /\ UNCHANGED <<starved, fault>>
     \/ /\ array[a].buffer = Null \/ array[a].len >= array[a].cap
        /\ array' = [array EXCEPT ![a] = NewArray(n, NextCap(a), GrownBuffer(a),
                       [CopiedInto(a, GrownBuffer(a)) EXCEPT ![n] = ValueOf(b)], array[a].elem)]
        /\ fault' = (fault \/ ItemsMisused(a, SizeByCapacity(a))) /\ UNCHANGED starved
     \/ /\ array[a].buffer = Null \/ array[a].len >= array[a].cap
        /\ starved' = TRUE /\ UNCHANGED <<array, fault>>
  /\ locals' = locals \ {b} /\ UNCHANGED <<heap, held, field>> /\ Quiet

\* kira_array_store_release, at any index: a rejected element is released, and
\* the one it replaces is.  The same element stored back is not.
\* Mutant: the rejected one forgotten.
Forgotten(e) == {}
Rejected(e) == Owned(e)
Replaced(old, e) == IF old.ptr = e.ptr THEN {} ELSE Owned(old)

ArrayStore(a, index, e) ==
  LET inside == index >= 0 /\ index < array[a].len
      frees == IF hybrid THEN {}
               ELSE IF inside THEN Replaced(Elems(a)[index + 1], e) ELSE Rejected(e)
  IN
  /\ array' = IF inside THEN [array EXCEPT ![a].slots[index + 1] = e] ELSE array
  /\ heap' = Without(frees) /\ fault' = (fault \/ Misused(frees))

ArrayStoreRelease(a, index, b) ==
  /\ Busy /\ Passed(a, b) /\ ArrayStore(a, index, ValueOf(b))
  /\ locals' = locals \ {b} /\ UNCHANGED <<held, field, starved>> /\ Quiet

ArrayStoreBack(a, index) ==
  /\ Busy /\ index \in 0 .. array[a].len - 1
  /\ ArrayStore(a, index, Elems(a)[index + 1])
  /\ UNCHANGED <<locals, held, field, starved>> /\ Quiet

\* An array that could not be allocated is NULL: a store to it is rejected, an
\* append drops the element, the array's owner none the wiser.
NullStoreRelease(b) ==
  /\ Busy /\ starved /\ b \in locals /\ heap[b].kind \in {"string", "struct"}
  /\ heap' = Without(Rejected(ElementOf(b))) /\ locals' = locals \ {b}
  /\ fault' = (fault \/ Misused(Rejected(ElementOf(b))))
  /\ UNCHANGED <<array, held, field, starved>> /\ Quiet

NullAppend(b) ==
  /\ Busy /\ starved /\ b \in locals /\ heap[b].kind \in {"string", "struct"}
  /\ locals' = locals \ {b}
  /\ UNCHANGED <<heap, array, held, field, starved, fault>> /\ Quiet

\* kira_array_take: the element becomes the program's, its slot void.
ArrayTake(a, index) ==
  /\ Busy /\ ~hybrid /\ index \in 0 .. array[a].len - 1
  /\ LET e == Elems(a)[index + 1] IN
     /\ array' = [array EXCEPT ![a].slots[index + 1] = Void]
     /\ locals' = locals \cup ({e.ptr} \ {Null})
  /\ UNCHANGED <<heap, held, field, starved, fault>> /\ Quiet

\* kira_array_clone (native): a copy of what each element owns.  An empty
\* array gets no items; neither does one whose items cannot be allocated, and
\* an element that cannot be is NULL.  A hybrid build gets the array itself.
NeedsCopy(e) == e.tag \in {"ptr", "string"}

ToCopy(a) == {k \in 1 .. array[a].len : NeedsCopy(Elems(a)[k]) /\ Elems(a)[k].ptr # Null}

CloneItems(a, failed) ==
  LET granted == ToCopy(a) \ failed
      copies == Injection(granted, Blocks \ Live)
      copy == CHOOSE f \in copies : TRUE
  IN
  /\ array[a].len > 0 /\ copies # {}
  /\ array' = [array EXCEPT ![FreshHeader] =
       NewArray(array[a].len, array[a].len, array[a].len,
                [k \in 1 .. array[a].len |->
                   IF k \notin ToCopy(a) THEN Elems(a)[k]
                   ELSE [Elems(a)[k] EXCEPT !.ptr = IF k \in failed THEN Null ELSE copy[k]]],
                array[a].elem)]
  /\ heap' = [b \in Blocks |-> IF b \in Range(copy) THEN Leaf(array[a].elem, "libc") ELSE heap[b]]

ArrayClone(a, failed) ==
  /\ Busy /\ ~hybrid /\ failed \subseteq ToCopy(a)
  /\ \/ /\ Arrays # Headers /\ held' = held \cup {FreshHeader}
        /\ \/ CloneItems(a, failed) /\ starved' = (starved \/ failed # {})
           \/ /\ failed = {} /\ starved' = (starved \/ array[a].len > 0) /\ UNCHANGED heap
              /\ array' = [array EXCEPT ![FreshHeader] = NewArray(0, 0, Null, <<>>, array[a].elem)]
     \/ failed = {} /\ starved' = TRUE /\ UNCHANGED <<array, heap, held>>
  /\ UNCHANGED <<locals, field, fault>> /\ Quiet

\* kira_array_release (native): the elements, the items, the header.  The VM's
\* destroyArrayNativeLayout does the same for a hybrid build's arrays, whose
\* elements are its own.
ElementFrees(a) == UNION {Owned(Elems(a)[k]) : k \in 1 .. array[a].len}

ReleaseAll(a) ==
  /\ array' = [array EXCEPT ![a] = NoArray] /\ heap' = Without(ElementFrees(a))
  /\ fault' = (fault \/ Misused(ElementFrees(a)) \/ ItemsMisused(a, SizeByCapacity(a)))

ArrayRelease(a) ==
  /\ Busy /\ a \in held /\ ReleaseAll(a) /\ held' = held \ {a}
  /\ UNCHANGED <<locals, field, starved>> /\ Quiet

\* kira_array_release_replaced: the field's old array goes, unless it is the
\* one stored back.
IsReplaced(old, incoming) == old # Null /\ old # incoming

SetField(a) ==
  /\ Busy /\ ~hybrid /\ a \in held \cup {field}
  /\ IF IsReplaced(field, a) THEN ReleaseAll(field) ELSE UNCHANGED <<array, heap, fault>>
  /\ field' = a /\ held' = held \ {a}
  /\ UNCHANGED <<locals, starved>> /\ Quiet

-----------------------------------------------------------------------------
(* Closures.                                                               *)

\* A closure block.  Native code allocates its own with malloc, in a hybrid
\* build too, where the VM exports others to it and lists them.
NewClosure(export) ==
  /\ Busy /\ Room /\ Cardinality(locals) < MaxLocals /\ (export => hybrid)
  /\ heap' = [heap EXCEPT ![Fresh] = Leaf("closure", IF export THEN "vm" ELSE "libc")]
  /\ locals' = locals \cup {Fresh}
  /\ exported_native_closures' = exported_native_closures \cup IF export THEN {Fresh} ELSE {}
  /\ UNCHANGED <<hybrid, array, held, field, registry, running, starved, fault, job, out>>

\* kira_destroy_closure: a tagged block goes to the installed destructor or to
\* free; a function id or an untagged pointer (`aliased`, another's block) is
\* left alone.  The VM's destructor, releaseExportedNativeClosure, knows its own
\* blocks by their addresses in the list, and gives any other back to libc.
ClosureFree(b) == Gone(b, IF b \in exported_native_closures THEN "vm" ELSE "libc")
Tagged(b) == heap[b].kind = "closure"

\* Mutant: the address stays in the list.
StillListed(frees) == exported_native_closures
Unexported(frees) == exported_native_closures \ {f.block : f \in frees}

DestroyClosure(b) ==
  LET frees == IF Tagged(b) THEN {ClosureFree(b)} ELSE {} IN
  /\ Busy /\ b \in Live
  /\ heap[b].kind = "token" \/ (heap[b].kind = "closure" /\ b \in locals)
  /\ heap' = Without(frees) /\ fault' = (fault \/ Misused(frees))
  /\ locals' = IF heap[b].kind = "closure" THEN locals \ {b} ELSE locals
  /\ exported_native_closures' = Unexported(frees)
  /\ UNCHANGED <<hybrid, array, held, field, registry, running, starved, job, out>>

-----------------------------------------------------------------------------
(* Native-state tokens.                                                    *)

Tokens == {b \in Live : heap[b].kind = "token"}

\* kira_native_state_registry_add.
Listed(t) == <<t>> \o registry

\* kira_native_state_alloc with its payload; registered unless the node cannot
\* be allocated.
StateAlloc(tracked) ==
  /\ Busy /\ Cardinality(Tokens) < MaxTokens
  /\ \/ /\ Room
        /\ heap' = [heap EXCEPT ![Fresh] = [kind |-> "token", by |-> "libc", inside |-> Null]]
        /\ registry' = IF tracked THEN Listed(Fresh) ELSE registry
        /\ starved' = (starved \/ ~tracked)
     \/ starved' = TRUE /\ UNCHANGED <<heap, registry>>
  /\ UNCHANGED <<hybrid, array, locals, held, field, exported_native_closures, running, fault, job, out>>

\* The program moves a string into the token's payload.
StateStore(t, b) ==
  /\ Busy /\ ~hybrid /\ t \in Tokens /\ heap[t].inside = Null
  /\ b \in locals /\ heap[b].kind = "string"
  /\ heap' = [heap EXCEPT ![t].inside = b] /\ locals' = locals \ {b}
  /\ UNCHANGED <<array, held, field, starved, fault>> /\ Quiet

\* kira_native_state_dispose: the interior through the installed hook, the
\* payload and the token.
DisposeFrees(t) ==
  {Gone(t, "libc")} \cup
    IF heap[t].inside = Null THEN {} ELSE {Gone(heap[t].inside, "libc")}

\* kira_native_state_registry_remove.
Unlinked(t) == RemoveFirst(registry, t)

StateFree(t) ==
  /\ Busy /\ t \in Tokens
  /\ registry' = Unlinked(t)
  /\ heap' = Without(DisposeFrees(t)) /\ fault' = (fault \/ Misused(DisposeFrees(t)))
  /\ UNCHANGED <<hybrid, array, locals, held, field, exported_native_closures, running, starved, job, out>>

\* exit: kira_native_state_registry_teardown disposes of every token listed.
Exit ==
  /\ Busy /\ running' = FALSE /\ registry' = <<>>
  /\ LET listed == ToSet(registry)
         frees == UNION {IF t \in Live THEN DisposeFrees(t) ELSE {Gone(t, "libc")} : t \in listed}
     IN  heap' = Without(frees) /\ fault' = (fault \/ Misused(frees))
  /\ UNCHANGED <<hybrid, array, locals, held, field, exported_native_closures, starved, job, out>>

-----------------------------------------------------------------------------
(* Text primitives.                                                        *)

Result(j) ==
  CASE j.op = "float" -> kira_string_from_f64(j.neg, j.digits, j.point, j.exp10)
    [] j.op = "search" -> kira_string_index_of(j.haystack, j.needle)
    [] j.op = "token" -> [kind |-> kap_classify_token(j.token), name |-> kap_option_name(j.token),
                          valued |-> kap_has_inline_value(j.token),
                          value |-> kap_inline_value(j.token)]

TextCall ==
  /\ running /\ job # NoJob /\ out = NoJob
  /\ out' = [op |-> job.op, value |-> Result(job)]
  /\ UNCHANGED <<hybrid, heap, array, locals, held, field, registry, exported_native_closures,
                 running, starved, fault, job>>

-----------------------------------------------------------------------------
Indices(a) == {-1} \cup 0 .. array[a].len

Next ==
  \/ \E kind \in {"string", "struct"} : NewElement(kind)
  \/ \E b \in locals : DropElement(b) \/ NullStoreRelease(b) \/ NullAppend(b)
  \/ \E len \in 0 .. MaxLen, elem \in {"int", "string", "struct"}, exported \in BOOLEAN :
       ArrayAlloc(len, elem, exported)
  \/ \E a \in Arrays : \/ \E b \in locals \cup {Null} : ArrayAppend(a, b)
                       \/ \E i \in Indices(a), b \in locals \cup {Null} : ArrayStoreRelease(a, i, b)
                       \/ \E i \in Indices(a) : ArrayStoreBack(a, i) \/ ArrayTake(a, i)
                       \/ \E failed \in SUBSET (1 .. array[a].len) : ArrayClone(a, failed)
                       \/ ArrayRelease(a) \/ SetField(a)
  \/ \E export \in BOOLEAN : NewClosure(export)
  \/ \E b \in Live : DestroyClosure(b)
  \/ \E tracked \in BOOLEAN : StateAlloc(tracked)
  \/ \E t \in Tokens : StateFree(t) \/ \E b \in locals : StateStore(t, b)
  \/ Exit \/ TextCall

Spec == Init /\ [][Next]_vars

-----------------------------------------------------------------------------
(* Properties.                                                             *)

\* Every block is given back once, to the allocator it came from and with the
\* size it was allocated with: array storage that moved between the builds'
\* allocators, elements, tokens freed before exit, and closures, whose allocator
\* a hybrid build tells by looking their addresses up (runtime_helpers.c:212-240,
\* runtime_helpers_arrays.inc:214-237, 265-316, vm.zig:256-269).
FreesAreSound == ~fault

\* The places that own a block; a token is the program's until the process exits.
Owners(b) ==
  {<<"local", x>> : x \in locals \cap {b}} \cup {<<"token", x>> : x \in IF running THEN Tokens \cap {b} ELSE {}}
    \cup {<<"inside", t>> : t \in {x \in Tokens : heap[x].inside = b}}
    \cup UNION {{<<"slot", a, k>> : k \in {k \in 1 .. array[a].len : Elems(a)[k].ptr = b}} : a \in Arrays}

\* "an element is reclaimed exactly once whether the array is released
\* wholesale or a slot is overwritten" (runtime_helpers_arrays.inc:97-99): no
\* block has two owners, and one without an owner was lost to an allocation
\* failure; rejected stores, clones, takes and replaced fields included.  exit
\* leaves no token behind (runtime_helpers_native_state.inc:1-9).
OwnedOnce ==
  /\ \A b \in Live : /\ Cardinality(Owners(b)) <= 1
                     /\ starved \/ Owners(b) # {}
  /\ Arrays = held \cup ({field} \ {Null}) /\ field \notin held

\* An array's buffer has the number of slots its capacity says, at least one,
\* however the array was made, grown or exported; only an array without
\* elements may have none (runtime_helpers.c:62-66).
BuffersMatchCapacity ==
  \A a \in Arrays :
    IF array[a].buffer = Null THEN array[a].len = 0 /\ array[a].cap = 0
    ELSE array[a].len <= array[a].cap /\ array[a].buffer = AtLeastOne(array[a].cap) /\ Len(array[a].slots) = array[a].buffer

\* "byte-identical to Zig's {d} float rendering" (runtime_helpers.c:303-305):
\* spelling out the exponent keeps the value, in plain form.
FloatsArePlain ==
  out.op = "float" =>
    DenotesThe(out.value, job.neg, job.digits, job.point, job.exp10, Len(out.value) + 4)

\* An option token is its dashes, its name and, if it has one, '=' and its
\* value (argument_parser.c:46-71).
TokensSplit ==
  out.op = "token" /\ out.value.kind \in {"LONG_OPTION", "SHORT_OPTION"} =>
    job.token = SubSeq(job.token, 1, Dashes(job.token)) \o out.value.name
                  \o IF out.value.valued THEN <<Equals>> \o out.value.value ELSE <<>>

\* indexOf returns the least offset at which a substring of the needle's
\* length, read back without a trap, is the needle, and -1 if there is none
\* (runtime_helpers.c:397-412, vm_interpreter_strings.zig:81-131).
SearchFindsTheFirst ==
  out.op = "search" =>
    LET Found(i) == /\ ~SubstringTraps(job.haystack, i, i + Len(job.needle))
                    /\ kira_string_substring(job.haystack, i, i + Len(job.needle)) = job.needle
    IN  IF out.value = -1 THEN \A i \in 0 .. Len(job.haystack) : ~Found(i)
        ELSE Found(out.value) /\ \A i \in 0 .. out.value - 1 : ~Found(i)

\* The three above: what the text primitives return, for every short text.
TextsAreExact == FloatsArePlain /\ TokensSplit /\ SearchFindsTheFirst
===============================================================================
