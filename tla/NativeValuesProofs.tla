------------------------- MODULE NativeValuesProofs -------------------------
(***************************************************************************)
(* Proofs about NativeValues: the memory behind values, for any heap, any  *)
(* number of arrays and any bounds, and after it the text primitives, for  *)
(* any text and any base up to ten.                                        *)
(***************************************************************************)
EXTENDS NativeValues, TLAPS, WellFoundedInduction, SequenceTheorems, FiniteSetTheorems

Element ==
  {e \in [tag : {"void", "int", "ptr", "string"}, ptr : Blocks \cup {Null}] :
     e.ptr # Null => e.tag \in {"ptr", "string"}}

LeafBlock == [kind : {"string", "struct", "closure"}, by : {"libc", "vm"}]
TokenBlock == [kind : {"token"}, by : {"libc"}, inside : Blocks \cup {Null}]
Block == {NoBlock} \cup LeafBlock \cup TokenBlock

\* The buffer of an array is as long as its capacity says.
Fits(x) ==
  IF x.buffer = Null THEN x.len = 0 /\ x.cap = 0
  ELSE x.len <= x.cap /\ x.buffer = AtLeastOne(x.cap) /\ Len(x.slots) = x.buffer

ArrayRecord ==
  {x \in [elem : {"int", "string", "struct"}, by : {"libc", "vm"}, len : Nat, cap : Nat,
          buffer : Nat \cup {Null}, slots : Seq(Element)] : Fits(x)}

Types ==
  /\ hybrid \in BOOLEAN /\ running \in BOOLEAN /\ starved \in BOOLEAN
  /\ heap \in [Blocks -> Block] /\ array \in [Headers -> {NoArray} \cup ArrayRecord]
  /\ locals \subseteq Blocks /\ held \subseteq Headers /\ field \in Headers \cup {Null}
  /\ registry \in Seq(Blocks)

-----------------------------------------------------------------------------
(* Who owns a block: a local, the payload of a token, a slot of an array.  *)

Kind(b) == heap[b].kind
InLocal(b) == b \in locals
InToken(t, b) == t \in Blocks /\ Kind(t) = "token" /\ heap[t].inside = b
InSlot(a, k, b) == a \in Arrays /\ k \in 1 .. array[a].len /\ array[a].slots[k].ptr = b

\* No block has two owners.
Single ==
  \A b \in Blocks :
    /\ \A t : ~(InLocal(b) /\ InToken(t, b))
    /\ \A a, k : ~(InLocal(b) /\ InSlot(a, k, b))
    /\ \A t, u : InToken(t, b) /\ InToken(u, b) => t = u
    /\ \A t, a, k : ~(InToken(t, b) /\ InSlot(a, k, b))
    /\ \A a, k, c, j : InSlot(a, k, b) /\ InSlot(c, j, b) => a = c /\ k = j

\* What is owned is live, and of the kind its owner releases it as.
Sound ==
  \A b \in Blocks :
    /\ InLocal(b) => Kind(b) \in {"string", "struct", "closure"}
    /\ \A t : InToken(t, b) => Kind(b) = "string"
    /\ \A a, k : InSlot(a, k, b) => Kind(b) = array[a].elem

\* What is live is owned, unless an allocation failed.
HasOwner(b) ==
  \/ InLocal(b) \/ (\E t : InToken(t, b)) \/ (\E a, k : InSlot(a, k, b))
  \/ (Kind(b) = "token" /\ running)

Kept == ~starved => \A b \in Blocks : Kind(b) # "none" => HasOwner(b)

\* Whose allocator a block came from; a closure's is told by the list below.
Families ==
  /\ \A b \in Blocks : Kind(b) \in {"string", "struct", "token"} => heap[b].by = "libc"
  /\ \A a \in Arrays : array[a].by = BridgeFamily /\ (hybrid <=> array[a].elem = "int")

Fields == Arrays = held \cup ({field} \ {Null}) /\ field \notin held

\* The list of tokens that exit walks: live ones, each once, and all of them
\* unless an allocation failed.
Listing ==
  /\ \A i \in 1 .. Len(registry) : Kind(registry[i]) = "token"
  /\ \A i, j \in 1 .. Len(registry) : registry[i] = registry[j] => i = j
  /\ running /\ ~starved =>
       \A t \in Blocks : Kind(t) = "token" => \E i \in 1 .. Len(registry) : registry[i] = t

Heap == Types /\ Single /\ Sound /\ Kept /\ Families /\ Fields /\ Listing

IndInv == Heap /\ ~fault

\* The VM's list holds exactly the live closures that are the VM's: an address
\* that stayed listed would be taken for one of them when it is used again.
Exports ==
  exported_native_closures = {b \in Blocks : Kind(b) = "closure" /\ heap[b].by = "vm"}

\* A step that neither makes nor releases a closure.
OtherKinds ==
  \A b \in Blocks : heap'[b] = heap[b] \/ (Kind(b) # "closure" /\ Kind(b)' # "closure")

-----------------------------------------------------------------------------
(* What the invariant says of a block and of an array.                     *)

\* The kinds of blocks.
LEMMA BlockFacts ==
  ASSUME Types, NEW b \in Blocks
  PROVE  /\ heap[b] \in Block /\ Kind(b) \in {"none", "string", "struct", "closure", "token"}
         /\ Kind(b) = "token" => heap[b] \in TokenBlock /\ heap[b].inside \in Blocks \cup {Null}
         /\ Kind(b) = "none" => heap[b] = NoBlock
         /\ Kind(b) \in {"string", "struct", "closure"} => heap[b] \in LeafBlock
<1>1. heap[b] \in Block BY DEF Types
<1>2. CASE heap[b] = NoBlock BY <1>2, <1>1 DEF Kind, NoBlock
<1>3. CASE heap[b] \in LeafBlock BY <1>3, <1>1 DEF Kind, LeafBlock
<1>4. CASE heap[b] \in TokenBlock BY <1>4, <1>1 DEF Kind, TokenBlock
<1> QED BY <1>1, <1>2, <1>3, <1>4 DEF Block

\* The fields of an array.
LEMMA ArrayFacts ==
  ASSUME Types, NEW a \in Arrays
  PROVE  /\ a \in Headers /\ array[a] \in ArrayRecord /\ Fits(array[a])
         /\ array[a].elem \in {"int", "string", "struct"} /\ array[a].by \in {"libc", "vm"}
         /\ array[a].len \in Nat /\ array[a].cap \in Nat /\ array[a].buffer \in Nat \cup {Null}
         /\ array[a].slots \in Seq(Element)
<1>1. a \in Headers /\ array[a].elem # "none" BY DEF Arrays
<1>2. array[a] \in {NoArray} \cup ArrayRecord BY <1>1 DEF Types
<1>3. array[a] \in ArrayRecord BY <1>1, <1>2 DEF NoArray
<1> QED BY <1>1, <1>3 DEF ArrayRecord

\* The elements of an array are slots of its buffer.
LEMMA SlotFacts ==
  ASSUME Types, NEW a \in Arrays, NEW k \in 1 .. array[a].len
  PROVE  /\ k \in 1 .. Len(array[a].slots) /\ array[a].slots[k] \in Element
         /\ array[a].slots[k].ptr \in Blocks \cup {Null} /\ Elems(a)[k] = array[a].slots[k]
         /\ array[a].slots[k].ptr # Null => array[a].slots[k].tag \in {"ptr", "string"}
         /\ array[a].buffer # Null
<1>1. /\ Fits(array[a]) /\ array[a].len \in Nat /\ array[a].cap \in Nat
      /\ array[a].slots \in Seq(Element)
  BY ArrayFacts
<1>2. array[a].len >= 1 /\ k \in Nat BY <1>1
<1>3. /\ array[a].buffer # Null /\ array[a].len <= array[a].cap
      /\ array[a].buffer = AtLeastOne(array[a].cap) /\ Len(array[a].slots) = array[a].buffer
  BY <1>1, <1>2 DEF Fits
<1>4. k \in 1 .. Len(array[a].slots) /\ array[a].len <= Len(array[a].slots)
  BY <1>1, <1>2, <1>3 DEF AtLeastOne
<1>5. array[a].slots[k] \in Element BY <1>1, <1>4
<1>6. Elems(a)[k] = array[a].slots[k]
  <2>1. \A i \in 1 .. array[a].len : array[a].slots[i] \in Element BY <1>1, <1>4
  <2>2. SubSeq(array[a].slots, 1, array[a].len)[k] = array[a].slots[1 + k - 1]
    BY <1>1, <2>1, SubSeqProperties
  <2>3. 1 + k - 1 = k BY <1>2
  <2>4. Elems(a) = SubSeq(array[a].slots, 1, array[a].len) BY DEF Elems
  <2> QED BY <2>2, <2>3, <2>4
<1> QED BY <1>3, <1>4, <1>5, <1>6 DEF Element

\* A block that is free, or a token, belongs to no one else.
LEMMA Unowned ==
  ASSUME Heap, NEW x \in Blocks, Kind(x) \in {"none", "token"}
  PROVE  ~InLocal(x) /\ (\A t : ~InToken(t, x)) /\ (\A a, k : ~InSlot(a, k, x))
<1>1. \A a, k : InSlot(a, k, x) => array[a].elem \in {"int", "string", "struct"}
  BY ArrayFacts DEF InSlot, Heap
<1> QED BY <1>1 DEF Heap, Sound

-----------------------------------------------------------------------------
(* What a change of the heap or of an array does to the owners.            *)

\* A step that leaves the tokens and their payloads alone.
SameTokens ==
  /\ UNCHANGED <<registry, running>> /\ (starved => starved')
  /\ \A t \in Blocks : /\ Kind(t)' = "token" <=> Kind(t) = "token"
                       /\ Kind(t) = "token" => heap'[t].inside = heap[t].inside

\* ... its payloads stay where they are.
LEMMA TokensStay ==
  ASSUME SameTokens
  PROVE  \A t, b : InToken(t, b)' <=> InToken(t, b)
BY DEF SameTokens, InToken

\* ... the registry lists what it listed.
LEMMA ListingStays ==
  ASSUME Types, Listing, SameTokens
  PROVE  Listing'
<1>1. registry \in Seq(Blocks) BY DEF Types
<1>2. \A i \in 1 .. Len(registry) : registry[i] \in Blocks BY <1>1
<1> QED BY <1>2 DEF Listing, SameTokens

\* A step that leaves the arrays alone.
LEMMA SlotsStay ==
  ASSUME array' = array
  PROVE  Arrays' = Arrays /\ \A a, k, b : InSlot(a, k, b)' <=> InSlot(a, k, b)
BY DEF InSlot, Arrays

\* Blocks that are kept, released or made as they should be.
LEMMA FamiliesStay ==
  ASSUME Families, hybrid' = hybrid, array' = array,
         \A b \in Blocks : \/ heap'[b] = heap[b] \/ heap'[b] = NoBlock
                           \/ heap'[b] \in LeafBlock /\ (heap'[b].kind # "closure" => heap'[b].by = "libc")
                           \/ heap'[b] \in TokenBlock
  PROVE  Families'
<1>1. BridgeFamily' = BridgeFamily BY DEF BridgeFamily
<1>2. Arrays' = Arrays BY DEF Arrays
<1>3. ASSUME NEW b \in Blocks
      PROVE  Kind(b)' \in {"string", "struct", "token"} => heap'[b].by = "libc"
  <2>1. CASE heap'[b] = heap[b] BY <2>1 DEF Families, Kind
  <2>2. CASE heap'[b] = NoBlock BY <2>2 DEF Kind, NoBlock
  <2>3. CASE heap'[b] \in LeafBlock /\ (heap'[b].kind # "closure" => heap'[b].by = "libc")
    BY <2>3 DEF Kind, LeafBlock
  <2>4. CASE heap'[b] \in TokenBlock BY <2>4 DEF Kind, TokenBlock
  <2> QED BY <1>3, <2>1, <2>2, <2>3, <2>4
<1> QED BY <1>1, <1>2, <1>3 DEF Families

-----------------------------------------------------------------------------
(* Blocks of locals.                                                       *)

\* A block is allocated into a local.
LEMMA AddLocal ==
  ASSUME Heap, NEW x \in Blocks, Kind(x) = "none", NEW r \in LeafBlock,
         r.kind # "closure" => r.by = "libc",
         heap' = [heap EXCEPT ![x] = r], locals' = locals \cup {x},
         UNCHANGED <<hybrid, array, held, field, registry, running, starved>>
  PROVE  Heap'
<1>1. \A b \in Blocks : heap'[b] = IF b = x THEN r ELSE heap[b] BY DEF Heap, Types
<1>2. r.kind \in {"string", "struct", "closure"} BY DEF LeafBlock
<1>3. \A b \in Blocks : Kind(b)' = IF b = x THEN r.kind ELSE Kind(b) BY <1>1 DEF Kind
<1>4. SameTokens BY <1>1, <1>2, <1>3 DEF SameTokens
<1>5. \A t, b : InToken(t, b)' <=> InToken(t, b) BY <1>4, TokensStay
<1>6. Arrays' = Arrays /\ \A a, k, b : InSlot(a, k, b)' <=> InSlot(a, k, b) BY SlotsStay
<1>7. \A b : InLocal(b)' <=> InLocal(b) \/ b = x BY DEF InLocal
<1>8. ~InLocal(x) /\ (\A t : ~InToken(t, x)) /\ (\A a, k : ~InSlot(a, k, x)) BY Unowned
<1>9. Types'
  <2>1. heap' \in [Blocks -> Block] BY DEF Heap, Types, Block
  <2> QED BY <2>1 DEF Heap, Types
<1>10. Single' BY <1>5, <1>6, <1>7, <1>8 DEF Heap, Single
<1>11. Sound' BY <1>2, <1>3, <1>5, <1>6, <1>7, <1>8 DEF Heap, Sound
<1>12. Kept'
  <2>1. \A b \in Blocks : b # x => (HasOwner(b)' <=> HasOwner(b))
    BY <1>3, <1>5, <1>6, <1>7 DEF HasOwner
  <2>2. HasOwner(x)' BY <1>7 DEF HasOwner
  <2> QED BY <1>3, <2>1, <2>2 DEF Heap, Kept
<1>13. Families' BY <1>1, FamiliesStay DEF Heap
<1>14. Fields' BY <1>6 DEF Heap, Fields
<1>15. Listing' BY <1>4, ListingStays DEF Heap
<1> QED BY <1>9, <1>10, <1>11, <1>12, <1>13, <1>14, <1>15 DEF Heap

\* A local is dropped and its block released, or lost where an allocation
\* failed.
LEMMA DropLocal ==
  ASSUME Heap, NEW x \in locals,
         heap' = [b \in Blocks |-> IF b = x THEN NoBlock ELSE heap[b]] \/ (heap' = heap /\ starved'),
         locals' = locals \ {x}, starved' \in BOOLEAN, starved => starved',
         UNCHANGED <<hybrid, array, held, field, registry, running>>
  PROVE  Heap'
<1>0. x \in Blocks /\ InLocal(x) /\ Kind(x) \in {"string", "struct", "closure"}
  BY DEF Heap, Types, Sound, InLocal
<1>1. \A b \in Blocks : heap'[b] = heap[b] \/ (b = x /\ heap'[b] = NoBlock) BY DEF Heap, Types
<1>3. \A b \in Blocks : b # x => Kind(b)' = Kind(b) BY <1>1 DEF Kind
<1>2. Kind(x)' = Kind(x) \/ Kind(x)' = "none" BY <1>0, <1>1 DEF Kind, NoBlock
<1>4. SameTokens BY <1>0, <1>1, <1>2, <1>3 DEF SameTokens
<1>5. \A t, b : InToken(t, b)' <=> InToken(t, b) BY <1>4, TokensStay
<1>6. Arrays' = Arrays /\ \A a, k, b : InSlot(a, k, b)' <=> InSlot(a, k, b) BY SlotsStay
<1>7. \A b : InLocal(b)' <=> InLocal(b) /\ b # x BY DEF InLocal
<1>8. (\A t : ~InToken(t, x)) /\ (\A a, k : ~InSlot(a, k, x)) BY <1>0 DEF Heap, Single
<1>9. Types'
  <2>1. heap' \in [Blocks -> Block] BY DEF Heap, Types, Block
  <2> QED BY <2>1 DEF Heap, Types
<1>10. Single' BY <1>5, <1>6, <1>7 DEF Heap, Single
<1>11. Sound' BY <1>3, <1>5, <1>6, <1>7, <1>8 DEF Heap, Sound
<1>12. Kept'
  <2>1. \A b \in Blocks : b # x => (HasOwner(b)' <=> HasOwner(b))
    BY <1>3, <1>5, <1>6, <1>7 DEF HasOwner
  <2>2. ~starved' => Kind(x)' = "none" BY <1>0 DEF Kind, NoBlock
  <2> QED BY <1>3, <2>1, <2>2 DEF Heap, Kept
<1>13. Families' BY <1>1, FamiliesStay DEF Heap
<1>14. Fields' BY <1>6 DEF Heap, Fields
<1>15. Listing' BY <1>4, ListingStays DEF Heap
<1> QED BY <1>9, <1>10, <1>11, <1>12, <1>13, <1>14, <1>15 DEF Heap

-----------------------------------------------------------------------------
(* Arrays.                                                                 *)

\* One array changes: the others keep their slots.
LEMMA OneArray ==
  ASSUME Types, NEW h \in Headers, NEW x \in {NoArray} \cup ArrayRecord,
         array' = [array EXCEPT ![h] = x]
  PROVE  /\ array' \in [Headers -> {NoArray} \cup ArrayRecord]
         /\ array'[h] = x /\ \A a \in Headers \ {h} : array'[a] = array[a]
         /\ x = NoArray => Arrays' = Arrays \ {h}
         /\ x \in ArrayRecord => Arrays' = Arrays \cup {h} /\ h \in Arrays'
         /\ \A a, k, b : a # h => (InSlot(a, k, b)' <=> InSlot(a, k, b))
         /\ \A k, b : InSlot(h, k, b)' <=> x \in ArrayRecord /\ k \in 1 .. x.len /\ x.slots[k].ptr = b
<1>1. array' \in [Headers -> {NoArray} \cup ArrayRecord] BY DEF Types
<1>2. array'[h] = x /\ \A a \in Headers \ {h} : array'[a] = array[a] BY DEF Types
<1>3. NoArray.elem = "none" BY DEF NoArray
<1>4. x \in ArrayRecord => x.elem # "none" BY DEF ArrayRecord
<1>5. /\ x = NoArray => Arrays' = Arrays \ {h}
      /\ x \in ArrayRecord => Arrays' = Arrays \cup {h} /\ h \in Arrays'
  BY <1>2, <1>3, <1>4 DEF Arrays
<1>6. \A a, k, b : a # h => (InSlot(a, k, b)' <=> InSlot(a, k, b))
  BY <1>2 DEF InSlot, Arrays
<1>7. \A k, b : InSlot(h, k, b)' <=> x \in ArrayRecord /\ k \in 1 .. x.len /\ x.slots[k].ptr = b
  BY <1>2, <1>3, <1>4 DEF InSlot, Arrays
<1> QED BY <1>1, <1>2, <1>5, <1>6, <1>7

\* ... when the new one is an array.
LEMMA OneArrayMade ==
  ASSUME Types, NEW h \in Headers, NEW x \in ArrayRecord, array' = [array EXCEPT ![h] = x]
  PROVE  /\ array' \in [Headers -> {NoArray} \cup ArrayRecord] /\ array'[h] = x
         /\ Arrays' = Arrays \cup {h} /\ \A a \in Headers \ {h} : array'[a] = array[a]
         /\ \A a, k, b : a # h => (InSlot(a, k, b)' <=> InSlot(a, k, b))
         /\ \A k, b : InSlot(h, k, b)' <=> k \in 1 .. x.len /\ x.slots[k].ptr = b
<1>1. x \in {NoArray} \cup ArrayRecord OBVIOUS
<1>2. array' \in [Headers -> {NoArray} \cup ArrayRecord] /\ array'[h] = x BY <1>1, OneArray
<1>3. Arrays' = Arrays \cup {h} /\ \A a \in Headers \ {h} : array'[a] = array[a] BY <1>1, OneArray
<1>4. \A a, k, b : a # h => (InSlot(a, k, b)' <=> InSlot(a, k, b)) BY <1>1, OneArray
<1>5. \A k, b : InSlot(h, k, b)' <=> k \in 1 .. x.len /\ x.slots[k].ptr = b
  BY <1>2, <1>3 DEF InSlot
<1> QED BY <1>2, <1>3, <1>4, <1>5

\* The arrays' allocators, when one array changes.
LEMMA OneArrayFamilies ==
  ASSUME Types, Families, hybrid' = hybrid, NEW h \in Headers, NEW x \in {NoArray} \cup ArrayRecord,
         array' = [array EXCEPT ![h] = x],
         x \in ArrayRecord => x.by = BridgeFamily /\ (hybrid <=> x.elem = "int"),
         \A b \in Blocks : \/ heap'[b] = heap[b] \/ heap'[b] = NoBlock
                           \/ heap'[b] \in LeafBlock /\ (heap'[b].kind # "closure" => heap'[b].by = "libc")
  PROVE  Families'
<1>1. BridgeFamily' = BridgeFamily BY DEF BridgeFamily
<1>2. /\ array'[h] = x /\ \A a \in Headers \ {h} : array'[a] = array[a]
      /\ x = NoArray => Arrays' = Arrays \ {h}
      /\ x \in ArrayRecord => Arrays' = Arrays \cup {h}
  BY OneArray
<1>3. ASSUME NEW b \in Blocks
      PROVE  Kind(b)' \in {"string", "struct", "token"} => heap'[b].by = "libc"
  <2>1. CASE heap'[b] = heap[b] BY <2>1 DEF Families, Kind
  <2>2. CASE heap'[b] = NoBlock BY <2>2 DEF Kind, NoBlock
  <2>3. CASE heap'[b] \in LeafBlock /\ (heap'[b].kind # "closure" => heap'[b].by = "libc")
    BY <2>3 DEF Kind, LeafBlock
  <2> QED BY <1>3, <2>1, <2>2, <2>3
<1>4. ASSUME NEW a \in Arrays'
      PROVE  array'[a].by = BridgeFamily /\ (hybrid <=> array'[a].elem = "int")
  <2>1. a \in Headers BY <1>4 DEF Arrays
  <2>2. CASE a = h
    <3>1. x \in ArrayRecord BY <1>2, <1>4, <2>2 DEF Arrays, NoArray
    <3> QED BY <1>2, <2>2, <3>1
  <2>3. CASE a # h
    <3>1. a \in Arrays /\ array'[a] = array[a] BY <1>2, <1>4, <2>1, <2>3 DEF Arrays
    <3> QED BY <3>1 DEF Families
  <2> QED BY <2>2, <2>3
<1> QED BY <1>1, <1>3, <1>4 DEF Families

\* An array is made whose elements own nothing.
LEMMA AddArray ==
  ASSUME Heap, NEW h \in Headers \ Arrays, NEW x \in ArrayRecord,
         x.by = BridgeFamily, hybrid <=> x.elem = "int",
         \A k \in 1 .. x.len : x.slots[k].ptr = Null,
         array' = [array EXCEPT ![h] = x], held' = held \cup {h},
         starved' \in BOOLEAN, starved => starved',
         UNCHANGED <<hybrid, heap, locals, field, registry, running>>
  PROVE  Heap'
<1>1. /\ array' \in [Headers -> {NoArray} \cup ArrayRecord] /\ array'[h] = x
      /\ Arrays' = Arrays \cup {h} /\ \A a \in Headers \ {h} : array'[a] = array[a]
      /\ \A a, k, b : a # h => (InSlot(a, k, b)' <=> InSlot(a, k, b))
      /\ \A k, b : InSlot(h, k, b)' <=> k \in 1 .. x.len /\ x.slots[k].ptr = b
  BY OneArrayMade DEF Heap
<1>2. Null \notin Blocks BY ValuesAssumption
<1>3. \A a, k : \A b \in Blocks : InSlot(a, k, b)' <=> InSlot(a, k, b)
  <2>1. \A k : \A b \in Blocks : ~InSlot(h, k, b)' BY <1>1, <1>2
  <2>2. \A k, b : ~InSlot(h, k, b) BY DEF InSlot
  <2> QED BY <1>1, <2>1, <2>2
<1>4. \A b : Kind(b)' = Kind(b) BY DEF Kind
<1>5. SameTokens BY <1>4 DEF SameTokens
<1>6. \A t, b : InToken(t, b)' <=> InToken(t, b) BY <1>5, TokensStay
<1>7. \A b : InLocal(b)' <=> InLocal(b) BY DEF InLocal
<1>8. Types' BY <1>1 DEF Heap, Types
<1>9. Single' BY <1>3, <1>6, <1>7 DEF Heap, Single
<1>10. Sound'
  <2>1. \A a, k, b : InSlot(a, k, b) => a # h /\ a \in Headers BY DEF InSlot, Arrays
  <2>2. \A a, k, b : InSlot(a, k, b) => array'[a].elem = array[a].elem BY <1>1, <2>1
  <2> QED BY <1>3, <1>4, <1>6, <1>7, <2>2 DEF Heap, Sound
<1>11. Kept'
  <2>1. \A b \in Blocks : HasOwner(b)' <=> HasOwner(b) BY <1>3, <1>4, <1>6, <1>7 DEF HasOwner
  <2> QED BY <1>4, <2>1 DEF Heap, Kept
<1>12. Families' BY OneArrayFamilies DEF Heap
<1>13. Fields'
  <2>1. h # field /\ h # Null BY ValuesAssumption DEF Heap, Fields
  <2> QED BY <1>1, <2>1 DEF Heap, Fields
<1>14. Listing' BY <1>5, ListingStays DEF Heap
<1> QED BY <1>8, <1>9, <1>10, <1>11, <1>12, <1>13, <1>14 DEF Heap

\* A local, or a number, is appended to an array.
LEMMA PushSlot ==
  ASSUME Heap, NEW a \in Arrays, NEW b, b = Null \/ (b \in locals /\ Kind(b) = array[a].elem),
         NEW x \in ArrayRecord, x.by = array[a].by, x.elem = array[a].elem,
         x.len = array[a].len + 1, x.slots[x.len].ptr = b,
         \A k \in 1 .. array[a].len : x.slots[k].ptr = array[a].slots[k].ptr,
         array' = [array EXCEPT ![a] = x], locals' = locals \ {b},
         UNCHANGED <<hybrid, heap, held, field, registry, running, starved>>
  PROVE  Heap'
<1> DEFINE n == array[a].len
<1>0. a \in Headers /\ n \in Nat /\ n + 1 \in 1 .. n + 1 /\ n + 1 \notin 1 .. n
  BY ArrayFacts DEF Heap
<1>n. \A k : k \in 1 .. n + 1 <=> k \in 1 .. n \/ k = n + 1 BY <1>0
<1>1. /\ array' \in [Headers -> {NoArray} \cup ArrayRecord] /\ array'[a] = x
      /\ Arrays' = Arrays \cup {a} /\ \A c \in Headers \ {a} : array'[c] = array[c]
      /\ \A c, k, y : c # a => (InSlot(c, k, y)' <=> InSlot(c, k, y))
      /\ \A k, y : InSlot(a, k, y)' <=> k \in 1 .. x.len /\ x.slots[k].ptr = y
  <2>1. Types /\ a \in Headers BY <1>0 DEF Heap
  <2>2. array' \in [Headers -> {NoArray} \cup ArrayRecord] /\ array'[a] = x BY <2>1 DEF Types
  <2>3. \A c \in Headers \ {a} : array'[c] = array[c] BY <2>1 DEF Types
  <2>4. x.elem # "none" BY DEF ArrayRecord
  <2>5. Arrays' = Arrays \cup {a} BY <2>1, <2>2, <2>3, <2>4 DEF Arrays
  <2>6. \A c, k, y : c # a => (InSlot(c, k, y)' <=> InSlot(c, k, y)) BY <2>3 DEF InSlot, Arrays
  <2>7. \A k, y : InSlot(a, k, y)' <=> k \in 1 .. x.len /\ x.slots[k].ptr = y
    BY <2>2, <2>5 DEF InSlot
  <2> QED BY <2>2, <2>3, <2>5, <2>6, <2>7
<1>2. Null \notin Blocks BY ValuesAssumption
<1>3. \A k, y : InSlot(a, k, y)' <=> InSlot(a, k, y) \/ (k = n + 1 /\ y = b)
  <2>1. \A k, y : InSlot(a, k, y) <=> k \in 1 .. n /\ array[a].slots[k].ptr = y BY DEF InSlot
  <2> QED BY <1>0, <1>n, <1>1, <2>1
<1> HIDE DEF n
<1>4. \A y : Kind(y)' = Kind(y) BY DEF Kind
<1>5. SameTokens BY <1>4 DEF SameTokens
<1>6. \A t, y : InToken(t, y)' <=> InToken(t, y) BY <1>5, TokensStay
<1>7. \A y : InLocal(y)' <=> InLocal(y) /\ y # b BY DEF InLocal
<1>8. b \in Blocks => /\ InLocal(b) /\ (\A t : ~InToken(t, b)) /\ (\A c, k : ~InSlot(c, k, b))
                      /\ Kind(b) = array[a].elem
  BY <1>2 DEF Heap, Types, Single, InLocal
<1>9. Types' BY <1>1 DEF Heap, Types
<1>10. Single'
  <2>1. \A y \in Blocks : y # b => \A c, k : InSlot(c, k, y)' <=> InSlot(c, k, y) BY <1>1, <1>3
  <2>2. b \in Blocks => \A c, k : InSlot(c, k, b)' <=> (c = a /\ k = n + 1) BY <1>1, <1>3, <1>8
  <2> QED BY <1>6, <1>7, <1>8, <2>1, <2>2 DEF Heap, Single
<1>11. Sound'
  <2>1. \A c, k, y : InSlot(c, k, y) => c \in Headers BY DEF InSlot, Arrays
  <2>2. \A c, k, y : InSlot(c, k, y) => array'[c].elem = array[c].elem BY <1>1, <2>1
  <2> QED BY <1>1, <1>3, <1>4, <1>6, <1>7, <1>8, <2>2 DEF Heap, Sound
<1>12. Kept'
  <2>1. ASSUME NEW y \in Blocks, HasOwner(y) PROVE HasOwner(y)'
    <3>1. CASE y = b
      <4>1. PICK k : k = n + 1 OBVIOUS
      <4>2. InSlot(a, k, y)' BY <1>3, <3>1, <4>1
      <4> QED BY <4>2 DEF HasOwner
    <3>2. CASE y # b
      <4>1. \A c, k : InSlot(c, k, y)' <=> InSlot(c, k, y) BY <1>1, <1>3, <3>2
      <4> QED BY <1>4, <1>6, <1>7, <2>1, <3>2, <4>1 DEF HasOwner
    <3> QED BY <3>1, <3>2
  <2> QED BY <1>4, <2>1 DEF Heap, Kept
<1>13. Families' BY <1>0, OneArrayFamilies DEF Heap, Families
<1>14. Fields' BY <1>1 DEF Heap, Fields
<1>15. Listing' BY <1>5, ListingStays DEF Heap
<1> QED BY <1>9, <1>10, <1>11, <1>12, <1>13, <1>14, <1>15 DEF Heap

\* A local replaces the element of a slot, which is released.
Replacing(a, i, b, x) ==
  /\ b \in locals /\ Kind(b) = array[a].elem
  /\ x \in ArrayRecord /\ x.by = array[a].by /\ x.elem = array[a].elem
  /\ x.len = array[a].len /\ x.slots[i].ptr = b
  /\ \A k \in 1 .. array[a].len : k # i => x.slots[k].ptr = array[a].slots[k].ptr
  /\ array' = [array EXCEPT ![a] = x] /\ locals' = locals \ {b}
  /\ \A y \in Blocks : heap'[y] = IF y = array[a].slots[i].ptr THEN NoBlock ELSE heap[y]
  /\ heap' \in [Blocks -> Block]
  /\ UNCHANGED <<hybrid, held, field, registry, running, starved>>

\* ... the invariant survives.
LEMMA ReplaceSlot ==
  ASSUME Heap, NEW a \in Arrays, NEW i \in 1 .. array[a].len, NEW b, NEW x, Replacing(a, i, b, x)
  PROVE  Heap'
<1>p. PICK old : old = array[a].slots[i].ptr OBVIOUS
<1>h. /\ b \in locals /\ Kind(b) = array[a].elem
      /\ x \in ArrayRecord /\ x.by = array[a].by /\ x.elem = array[a].elem
      /\ x.len = array[a].len /\ x.slots[i].ptr = b
      /\ \A k \in 1 .. array[a].len : k # i => x.slots[k].ptr = array[a].slots[k].ptr
      /\ array' = [array EXCEPT ![a] = x] /\ locals' = locals \ {b}
      /\ \A y \in Blocks : heap'[y] = IF y = old THEN NoBlock ELSE heap[y]
      /\ heap' \in [Blocks -> Block]
      /\ UNCHANGED <<hybrid, held, field, registry, running, starved>>
  BY <1>p DEF Replacing
<1> USE <1>p, <1>h
<1>0. a \in Headers /\ b \in Blocks /\ InLocal(b) /\ InSlot(a, i, old) BY ArrayFacts DEF Heap, Types, InLocal, InSlot
<1>1. /\ array' \in [Headers -> {NoArray} \cup ArrayRecord] /\ array'[a] = x
      /\ Arrays' = Arrays \cup {a} /\ \A c \in Headers \ {a} : array'[c] = array[c]
      /\ \A c, k, y : c # a => (InSlot(c, k, y)' <=> InSlot(c, k, y))
      /\ \A k, y : InSlot(a, k, y)' <=> k \in 1 .. x.len /\ x.slots[k].ptr = y
  <2>1. Types /\ a \in Headers BY <1>0 DEF Heap
  <2>2. array' \in [Headers -> {NoArray} \cup ArrayRecord] /\ array'[a] = x BY <2>1 DEF Types
  <2>3. \A c \in Headers \ {a} : array'[c] = array[c] BY <2>1 DEF Types
  <2>4. x \in ArrayRecord /\ array' = [array EXCEPT ![a] = x] OBVIOUS
  <2> HIDE <1>p, <1>h
  <2>5. Arrays' = Arrays \cup {a} /\ \A c, k, y : c # a => (InSlot(c, k, y)' <=> InSlot(c, k, y))
    BY <2>1, <2>4, OneArrayMade
  <2>6. \A k, y : InSlot(a, k, y)' <=> k \in 1 .. x.len /\ x.slots[k].ptr = y
    BY <2>2, <2>5 DEF InSlot
  <2> QED BY <2>2, <2>3, <2>5, <2>6
<1>2. (\A t : ~InToken(t, b)) /\ (\A c, k : ~InSlot(c, k, b)) BY <1>0 DEF Heap, Single
<1>3. old # b BY <1>0, <1>2
<1>4. \A c, k, y : InSlot(c, k, y)' <=> \/ InSlot(c, k, y) /\ ~(c = a /\ k = i)
                                        \/ c = a /\ k = i /\ y = b
  <2>1. \A k, y : InSlot(a, k, y) <=> k \in 1 .. array[a].len /\ array[a].slots[k].ptr = y BY DEF InSlot
  <2> QED BY <1>1, <2>1
<1>5. old \in Blocks => /\ Kind(old) = array[a].elem /\ ~InLocal(old) /\ (\A t : ~InToken(t, old))
                        /\ \A c, k : InSlot(c, k, old) <=> c = a /\ k = i
  BY <1>0 DEF Heap, Single, Sound
<1>6. \A y \in Blocks : heap'[y] = IF y = old THEN NoBlock ELSE heap[y] OBVIOUS
<1>7. \A y \in Blocks : Kind(y)' = IF y = old THEN "none" ELSE Kind(y) BY <1>6 DEF Kind, NoBlock
<1>8. array[a].elem # "token" /\ array[a].elem # "none" BY ArrayFacts DEF Heap
<1>9. SameTokens BY <1>5, <1>6, <1>7, <1>8 DEF SameTokens
<1>10. \A t, y : InToken(t, y)' <=> InToken(t, y) BY <1>9, TokensStay
<1>11. \A y : InLocal(y)' <=> InLocal(y) /\ y # b BY DEF InLocal
<1>12. Types'
  <2>1. heap' \in [Blocks -> Block] OBVIOUS
  <2> QED BY <1>1, <2>1 DEF Heap, Types
<1>13. Single' BY <1>2, <1>4, <1>10, <1>11 DEF Heap, Single
<1>14. Sound'
  <2>1. \A c, k, y : InSlot(c, k, y) => c \in Headers BY DEF InSlot, Arrays
  <2>2. \A c, k, y : InSlot(c, k, y) => array'[c].elem = array[c].elem BY <1>1, <2>1
  <2>3. array'[a].elem = array[a].elem BY <1>1
  <2>4. old \in Blocks => /\ ~InLocal(old)' /\ (\A t : ~InToken(t, old)')
                          /\ (\A c, k : ~InSlot(c, k, old)')
    BY <1>3, <1>4, <1>5, <1>10, <1>11
  <2>5. Kind(b)' = array[a].elem BY <1>0, <1>3, <1>7
  <2> QED BY <1>4, <1>7, <1>10, <1>11, <2>2, <2>3, <2>4, <2>5 DEF Heap, Sound
<1>15. Kept'
  <2>1. ASSUME NEW y \in Blocks, y # old, HasOwner(y) PROVE HasOwner(y)'
    <3>1. CASE y = b
      <4>1. InSlot(a, i, y)' BY <1>4, <3>1
      <4> QED BY <4>1 DEF HasOwner
    <3>2. CASE y # b
      <4>1. \A c, k : InSlot(c, k, y)' <=> InSlot(c, k, y)
        <5>1. ~InSlot(a, i, y) BY <2>1 DEF InSlot
        <5> QED BY <1>4, <3>2, <5>1
      <4> QED BY <1>7, <1>10, <1>11, <2>1, <3>2, <4>1 DEF HasOwner
    <3> QED BY <3>1, <3>2
  <2> QED BY <1>7, <2>1 DEF Heap, Kept
<1>16. Families' BY <1>0, <1>6, OneArrayFamilies DEF Heap, Families
<1>17. Fields' BY <1>1 DEF Heap, Fields
<1>18. Listing' BY <1>9, ListingStays DEF Heap
<1> QED BY <1>12, <1>13, <1>14, <1>15, <1>16, <1>17, <1>18 DEF Heap

\* An element becomes the program's, its slot void.
LEMMA TakeSlot ==
  ASSUME Heap, NEW a \in Arrays, NEW i \in 1 .. array[a].len,
         NEW old, old = array[a].slots[i].ptr,
         NEW x \in ArrayRecord, x.by = array[a].by, x.elem = array[a].elem,
         x.len = array[a].len, x.slots[i].ptr = Null,
         \A k \in 1 .. array[a].len : k # i => x.slots[k].ptr = array[a].slots[k].ptr,
         array' = [array EXCEPT ![a] = x], locals' = locals \cup ({old} \ {Null}),
         UNCHANGED <<hybrid, heap, held, field, registry, running, starved>>
  PROVE  Heap'
<1>0. a \in Headers /\ InSlot(a, i, old) /\ old \in Blocks \cup {Null}
  BY ArrayFacts, SlotFacts DEF Heap, InSlot
<1>n. Null \notin Blocks BY ValuesAssumption
<1>1. /\ array' \in [Headers -> {NoArray} \cup ArrayRecord] /\ array'[a] = x
      /\ Arrays' = Arrays \cup {a} /\ \A c \in Headers \ {a} : array'[c] = array[c]
      /\ \A c, k, y : c # a => (InSlot(c, k, y)' <=> InSlot(c, k, y))
      /\ \A k, y : InSlot(a, k, y)' <=> k \in 1 .. x.len /\ x.slots[k].ptr = y
  <2>1. Types /\ a \in Headers BY <1>0 DEF Heap
  <2>2. array' \in [Headers -> {NoArray} \cup ArrayRecord] /\ array'[a] = x BY <2>1 DEF Types
  <2>3. \A c \in Headers \ {a} : array'[c] = array[c] BY <2>1 DEF Types
  <2>4. x.elem # "none" BY DEF ArrayRecord
  <2>5. Arrays' = Arrays \cup {a} BY <2>1, <2>2, <2>3, <2>4 DEF Arrays
  <2>6. \A c, k, y : c # a => (InSlot(c, k, y)' <=> InSlot(c, k, y)) BY <2>3 DEF InSlot, Arrays
  <2>7. \A k, y : InSlot(a, k, y)' <=> k \in 1 .. x.len /\ x.slots[k].ptr = y
    BY <2>2, <2>5 DEF InSlot
  <2> QED BY <2>2, <2>3, <2>5, <2>6, <2>7
<1>2. \A c, k : \A y \in Blocks : InSlot(c, k, y)' <=> InSlot(c, k, y) /\ ~(c = a /\ k = i)
  <2>1. \A k, y : InSlot(a, k, y) <=> k \in 1 .. array[a].len /\ array[a].slots[k].ptr = y BY DEF InSlot
  <2> QED BY <1>n, <1>1, <2>1
<1>3. old \in Blocks => /\ Kind(old) = array[a].elem /\ ~InLocal(old) /\ (\A t : ~InToken(t, old))
                        /\ \A c, k : InSlot(c, k, old) <=> c = a /\ k = i
  BY <1>0 DEF Heap, Single, Sound
<1>4. \A y \in Blocks : InLocal(y)' <=> InLocal(y) \/ y = old BY <1>n DEF InLocal
<1>5. \A y : Kind(y)' = Kind(y) BY DEF Kind
<1>6. SameTokens BY <1>5 DEF SameTokens
<1>7. \A t, y : InToken(t, y)' <=> InToken(t, y) BY <1>6, TokensStay
<1>8. old \in Blocks => Kind(old) \in {"string", "struct", "closure"}
  BY <1>3, ArrayFacts, BlockFacts DEF Heap
<1>9. Types' BY <1>0, <1>1 DEF Heap, Types
<1>10. Single' BY <1>2, <1>3, <1>4, <1>7 DEF Heap, Single
<1>11. Sound'
  <2>1. \A c, k, y : InSlot(c, k, y) => c \in Headers BY DEF InSlot, Arrays
  <2>2. \A c, k, y : InSlot(c, k, y) => array'[c].elem = array[c].elem BY <1>1, <2>1
  <2> QED BY <1>2, <1>4, <1>5, <1>7, <1>8, <2>2 DEF Heap, Sound
<1>12. Kept'
  <2>1. ASSUME NEW y \in Blocks, HasOwner(y) PROVE HasOwner(y)'
    <3>1. CASE y = old BY <1>4, <3>1 DEF HasOwner
    <3>2. CASE y # old
      <4>1. ~InSlot(a, i, y) BY <3>2 DEF InSlot
      <4>2. \A c, k : InSlot(c, k, y)' <=> InSlot(c, k, y) BY <1>2, <4>1
      <4> QED BY <1>4, <1>5, <1>7, <2>1, <3>2, <4>2 DEF HasOwner
    <3> QED BY <3>1, <3>2
  <2> QED BY <1>5, <2>1 DEF Heap, Kept
<1>13. Families' BY <1>0, OneArrayFamilies DEF Heap, Families
<1>14. Fields' BY <1>1 DEF Heap, Fields
<1>15. Listing' BY <1>6, ListingStays DEF Heap
<1> QED BY <1>9, <1>10, <1>11, <1>12, <1>13, <1>14, <1>15 DEF Heap

\* An array is released with what its elements own.
LEMMA DropArray ==
  ASSUME Heap, NEW a \in Arrays, array' = [array EXCEPT ![a] = NoArray],
         \A y \in Blocks : heap'[y] = IF \E k : InSlot(a, k, y) THEN NoBlock ELSE heap[y],
         heap' \in [Blocks -> Block],
         held' \subseteq Headers, field' \in Headers \cup {Null},
         Arrays \ {a} = held' \cup ({field'} \ {Null}), field' \notin held',
         UNCHANGED <<hybrid, locals, registry, running, starved>>
  PROVE  Heap'
<1> DEFINE Mine(y) == \E k : InSlot(a, k, y)
<1>0. a \in Headers BY ArrayFacts DEF Heap
<1>1. /\ array' \in [Headers -> {NoArray} \cup ArrayRecord]
      /\ Arrays' = Arrays \ {a} /\ \A c \in Headers \ {a} : array'[c] = array[c]
      /\ \A c, k, y : c # a => (InSlot(c, k, y)' <=> InSlot(c, k, y))
  BY <1>0, OneArray DEF Heap
<1>2. \A k, y : ~InSlot(a, k, y)' BY <1>1 DEF InSlot
<1>3. \A y \in Blocks : Kind(y)' = IF Mine(y) THEN "none" ELSE Kind(y) BY DEF Kind, NoBlock
<1>4. \A y \in Blocks : Mine(y) => /\ Kind(y) = array[a].elem /\ ~InLocal(y) /\ (\A t : ~InToken(t, y))
                                   /\ \A c, k : c # a => ~InSlot(c, k, y)
  BY DEF Heap, Single, Sound
<1>5. array[a].elem # "token" /\ array[a].elem # "none" BY ArrayFacts DEF Heap
<1>6. SameTokens
  <2>1. \A t \in Blocks : Kind(t)' = "token" <=> Kind(t) = "token" BY <1>3, <1>4, <1>5
  <2>2. \A t \in Blocks : Kind(t) = "token" => heap'[t] = heap[t] BY <1>4, <1>5
  <2> QED BY <2>1, <2>2 DEF SameTokens
<1>7. \A t, y : InToken(t, y)' <=> InToken(t, y) BY <1>6, TokensStay
<1>8. \A y : InLocal(y)' <=> InLocal(y) BY DEF InLocal
<1>9. \A c, k, y : InSlot(c, k, y)' <=> InSlot(c, k, y) /\ c # a BY <1>1, <1>2
<1>10. \A y \in Blocks : heap'[y] = heap[y] \/ heap'[y] = NoBlock OBVIOUS
<1> HIDE DEF Mine
<1>11. Types' BY <1>1 DEF Heap, Types
<1>12. Single' BY <1>7, <1>8, <1>9 DEF Heap, Single
<1>13. Sound'
  <2>1. \A c, k, y : InSlot(c, k, y) => c \in Headers BY DEF InSlot, Arrays
  <2>2. \A c, k, y : InSlot(c, k, y) /\ c # a => array'[c].elem = array[c].elem BY <1>1, <2>1
  <2>3. ASSUME NEW y \in Blocks
        PROVE  /\ InLocal(y) \/ (\E t : InToken(t, y)) \/ (\E c, k : InSlot(c, k, y) /\ c # a)
                    => Kind(y)' = Kind(y)
    BY <1>3, <1>4
  <2> QED BY <1>7, <1>8, <1>9, <2>2, <2>3 DEF Heap, Sound
<1>14. Kept'
  <2>1. ASSUME NEW y \in Blocks, ~Mine(y), HasOwner(y) PROVE HasOwner(y)'
    <3>1. \A k : ~InSlot(a, k, y) BY <2>1 DEF Mine
    <3>2. \A c, k : InSlot(c, k, y)' <=> InSlot(c, k, y) BY <1>9, <3>1
    <3> QED BY <1>3, <1>7, <1>8, <2>1, <3>2 DEF HasOwner
  <2> QED BY <1>3, <2>1 DEF Heap, Kept
<1>15. Families'
  <2>1. NoArray \notin ArrayRecord BY DEF NoArray, ArrayRecord
  <2> QED BY <1>0, <1>10, <2>1, OneArrayFamilies DEF Heap
<1>16. Fields' BY <1>1 DEF Heap, Fields
<1>17. Listing' BY <1>6, ListingStays DEF Heap
<1> QED BY <1>11, <1>12, <1>13, <1>14, <1>15, <1>16, <1>17 DEF Heap

\* An array is cloned: its copies are allocated into its slots.
Cloning(h, x, D, copy) ==
  /\ h \in Headers \ Arrays /\ x \in ArrayRecord /\ x.by = BridgeFamily /\ (hybrid <=> x.elem = "int")
  /\ D # {} => x.elem \in {"string", "struct"}
  /\ \A k \in D : k \in 1 .. x.len /\ copy[k] \in Blocks /\ Kind(copy[k]) = "none"
  /\ \A k, j \in D : copy[k] = copy[j] => k = j
  /\ \A k \in 1 .. x.len : x.slots[k].ptr = IF k \in D THEN copy[k] ELSE Null
  /\ \A y \in Blocks : heap'[y] = IF \E k \in D : copy[k] = y THEN Leaf(x.elem, "libc")
                                     ELSE heap[y]
  /\ heap' \in [Blocks -> Block]
  /\ array' = [array EXCEPT ![h] = x] /\ held' = held \cup {h}
  /\ starved' \in BOOLEAN /\ (starved => starved')
  /\ UNCHANGED <<hybrid, locals, field, registry, running>>

\* ... the invariant survives.
LEMMA CloneArray ==
  ASSUME Heap, NEW h, NEW x, NEW D, NEW copy, Cloning(h, x, D, copy)
  PROVE  Heap'
<1>h. /\ h \in Headers \ Arrays /\ x \in ArrayRecord /\ x.by = BridgeFamily /\ (hybrid <=> x.elem = "int")
      /\ D # {} => x.elem \in {"string", "struct"}
      /\ \A k \in D : k \in 1 .. x.len /\ copy[k] \in Blocks /\ Kind(copy[k]) = "none"
      /\ \A k, j \in D : copy[k] = copy[j] => k = j
      /\ \A k \in 1 .. x.len : x.slots[k].ptr = IF k \in D THEN copy[k] ELSE Null
      /\ \A y \in Blocks : heap'[y] = IF \E k \in D : copy[k] = y THEN Leaf(x.elem, "libc")
                                         ELSE heap[y]
      /\ heap' \in [Blocks -> Block]
      /\ array' = [array EXCEPT ![h] = x] /\ held' = held \cup {h}
      /\ starved' \in BOOLEAN /\ (starved => starved')
      /\ UNCHANGED <<hybrid, locals, field, registry, running>>
  BY DEF Cloning
<1> USE <1>h
<1> DEFINE New(y) == \E k \in D : copy[k] = y
<1>0. Null \notin Blocks BY ValuesAssumption
<1>t. Types BY DEF Heap
<1>a. h \in Headers OBVIOUS
<1>b. array' \in [Headers -> {NoArray} \cup ArrayRecord] /\ array'[h] = x
  BY <1>t, <1>a DEF Types
<1>c. Arrays' = Arrays \cup {h} BY <1>t, <1>a, OneArrayMade
<1>d. \A a \in Headers \ {h} : array'[a] = array[a] BY <1>t, <1>a DEF Types
<1>e. \A a, k, b : a # h => (InSlot(a, k, b)' <=> InSlot(a, k, b)) BY <1>t, <1>a, OneArrayMade
<1>f. \A k, b : InSlot(h, k, b)' <=> k \in 1 .. x.len /\ x.slots[k].ptr = b
  BY <1>b, <1>c DEF InSlot
<1>1. /\ array' \in [Headers -> {NoArray} \cup ArrayRecord] /\ array'[h] = x
      /\ Arrays' = Arrays \cup {h} /\ \A a \in Headers \ {h} : array'[a] = array[a]
      /\ \A a, k, b : a # h => (InSlot(a, k, b)' <=> InSlot(a, k, b))
      /\ \A k, b : InSlot(h, k, b)' <=> k \in 1 .. x.len /\ x.slots[k].ptr = b
  BY <1>b, <1>c, <1>d, <1>e, <1>f
<1>2. \A k : \A y \in Blocks : InSlot(h, k, y)' <=> k \in D /\ copy[k] = y BY <1>0, <1>1
<1>3. \A k, y : ~InSlot(h, k, y) BY DEF InSlot
<1>4. \A y \in Blocks : New(y) => /\ Kind(y) = "none" /\ ~InLocal(y) /\ (\A t : ~InToken(t, y))
                                  /\ (\A a, k : ~InSlot(a, k, y))
  <2>1. \A y \in Blocks : New(y) => Kind(y) = "none" OBVIOUS
  <2> QED BY <2>1, Unowned
<1>5. \A y \in Blocks : New(y) => x.elem \in {"string", "struct"} OBVIOUS
<1>6. \A y \in Blocks : heap'[y] = IF New(y) THEN Leaf(x.elem, "libc") ELSE heap[y] OBVIOUS
<1>n. \A y : \A k \in D : copy[k] = y => New(y) OBVIOUS
<1> HIDE DEF New
<1>7. \A y \in Blocks : Kind(y)' = IF New(y) THEN x.elem ELSE Kind(y) BY <1>6 DEF Kind, Leaf
<1>8. SameTokens
  <2>1. \A t \in Blocks : Kind(t)' = "token" <=> Kind(t) = "token" BY <1>4, <1>5, <1>7
  <2>2. \A t \in Blocks : Kind(t) = "token" => heap'[t] = heap[t] BY <1>4, <1>6
  <2> QED BY <2>1, <2>2 DEF SameTokens
<1>9. \A t, y : InToken(t, y)' <=> InToken(t, y) BY <1>8, TokensStay
<1>10. \A y : InLocal(y)' <=> InLocal(y) BY DEF InLocal
<1>11. Types' BY <1>1 DEF Heap, Types
<1>12. Single'
  <2>1. \A y \in Blocks : ~New(y) => \A a, k : InSlot(a, k, y)' <=> InSlot(a, k, y)
    BY <1>1, <1>2, <1>3, <1>n
  <2>2. \A y \in Blocks : New(y) => \A a, k : InSlot(a, k, y)' <=> a = h /\ k \in D /\ copy[k] = y
    BY <1>1, <1>2, <1>4
  <2> QED BY <1>4, <1>9, <1>10, <2>1, <2>2 DEF Heap, Single
<1>13. Sound'
  <2>1. \A a, k, y : InSlot(a, k, y) => a # h /\ a \in Headers BY DEF InSlot, Arrays
  <2>2. \A a, k, y : InSlot(a, k, y) => array'[a].elem = array[a].elem BY <1>1, <2>1
  <2>3. ASSUME NEW y \in Blocks, NEW a, NEW k, InSlot(a, k, y)' PROVE Kind(y)' = array'[a].elem
    <3>1. CASE a = h BY <1>1, <1>2, <1>7, <1>n, <2>3, <3>1
    <3>2. CASE a # h
      <4>1. InSlot(a, k, y) BY <1>1, <2>3, <3>2
      <4>2. ~New(y) BY <1>4, <4>1
      <4> QED BY <1>7, <2>2, <4>1, <4>2 DEF Heap, Sound
    <3> QED BY <3>1, <3>2
  <2>4. \A y \in Blocks : InLocal(y) \/ (\E t : InToken(t, y)) => Kind(y)' = Kind(y) BY <1>4, <1>7
  <2> QED BY <1>9, <1>10, <2>3, <2>4 DEF Heap, Sound
<1>14. Kept'
  <2>1. ASSUME NEW y \in Blocks, New(y) PROVE HasOwner(y)'
    <3>1. PICK k \in D : copy[k] = y BY <2>1 DEF New
    <3>2. InSlot(h, k, y)' BY <1>2, <3>1
    <3> QED BY <3>2 DEF HasOwner
  <2>2. ASSUME NEW y \in Blocks, ~New(y), HasOwner(y) PROVE HasOwner(y)'
    <3>1. \A a, k : InSlot(a, k, y) => InSlot(a, k, y)' BY <1>1, <1>3
    <3> QED BY <1>7, <1>9, <1>10, <2>2, <3>1 DEF HasOwner
  <2> QED BY <1>7, <2>1, <2>2 DEF Heap, Kept
<1>15. Families'
  <2>1. ASSUME NEW y \in Blocks, New(y)
        PROVE  /\ heap'[y] \in LeafBlock
               /\ heap'[y].kind # "closure" => heap'[y].by = "libc"
    BY <1>5, <1>6, <2>1 DEF Leaf, LeafBlock
  <2> QED BY <1>6, <2>1, OneArrayFamilies DEF Heap
<1>16. Fields'
  <2>1. h # field /\ h # Null BY ValuesAssumption DEF Heap, Fields
  <2> QED BY <1>1, <2>1 DEF Heap, Fields
<1>17. Listing' BY <1>8, ListingStays DEF Heap
<1> QED BY <1>11, <1>12, <1>13, <1>14, <1>15, <1>16, <1>17 DEF Heap

-----------------------------------------------------------------------------
(* Tokens.                                                                 *)

\* A token is allocated; it is listed, unless the node cannot be allocated.
LEMMA AddToken ==
  ASSUME Heap, NEW x \in Blocks, Kind(x) = "none", running,
         heap' = [heap EXCEPT ![x] = [kind |-> "token", by |-> "libc", inside |-> Null]],
         registry' = <<x>> \o registry \/ (registry' = registry /\ starved'),
         starved' \in BOOLEAN, starved => starved',
         UNCHANGED <<hybrid, array, locals, held, field, running>>
  PROVE  Heap'
<1> DEFINE r == [kind |-> "token", by |-> "libc", inside |-> Null]
<1>0. Null \notin Blocks BY ValuesAssumption
<1>1. \A b \in Blocks : heap'[b] = IF b = x THEN r ELSE heap[b] BY DEF Heap, Types
<1>2. \A b \in Blocks : Kind(b)' = IF b = x THEN "token" ELSE Kind(b) BY <1>1 DEF Kind
<1>3. \A t : \A b \in Blocks : InToken(t, b)' <=> InToken(t, b)
  BY <1>0, <1>1, <1>2 DEF InToken
<1>4. Arrays' = Arrays /\ \A a, k, b : InSlot(a, k, b)' <=> InSlot(a, k, b) BY SlotsStay
<1>5. \A b : InLocal(b)' <=> InLocal(b) BY DEF InLocal
<1>6. ~InLocal(x) /\ (\A t : ~InToken(t, x)) /\ (\A a, k : ~InSlot(a, k, x)) BY Unowned
<1>7. registry \in Seq(Blocks) /\ Len(registry) \in Nat BY DEF Heap, Types
<1>8. registry' = <<x>> \o registry =>
        /\ registry' \in Seq(Blocks) /\ Len(registry') = Len(registry) + 1 /\ registry'[1] = x
        /\ \A i \in 1 .. Len(registry) : registry'[i + 1] = registry[i]
        /\ \A i \in 2 .. Len(registry) + 1 : registry'[i] = registry[i - 1]
  <2> SUFFICES ASSUME registry' = <<x>> \o registry
               PROVE  /\ registry' \in Seq(Blocks) /\ Len(registry') = Len(registry) + 1
                      /\ registry'[1] = x
                      /\ \A i \in 1 .. Len(registry) : registry'[i + 1] = registry[i]
                      /\ \A i \in 2 .. Len(registry) + 1 : registry'[i] = registry[i - 1]
    OBVIOUS
  <2>1. <<x>> \in Seq(Blocks) /\ Len(<<x>>) = 1 /\ <<x>>[1] = x OBVIOUS
  <2> QED BY <1>7, <2>1, ConcatProperties
<1> HIDE DEF r
<1>9. Types'
  <2>1. heap' \in [Blocks -> Block] BY DEF Heap, Types, Block, TokenBlock
  <2> QED BY <1>7, <1>8, <2>1 DEF Heap, Types
<1>10. Single' BY <1>3, <1>4, <1>5 DEF Heap, Single
<1>11. Sound' BY <1>2, <1>3, <1>4, <1>5, <1>6 DEF Heap, Sound
<1>12. Kept'
  <2>1. \A b \in Blocks : b # x => (HasOwner(b)' <=> HasOwner(b))
    BY <1>2, <1>3, <1>4, <1>5 DEF HasOwner
  <2>2. HasOwner(x)' BY <1>2 DEF HasOwner
  <2> QED BY <1>2, <2>1, <2>2 DEF Heap, Kept
<1>13. Families'
  <2>1. r \in TokenBlock BY DEF r, TokenBlock
  <2> QED BY <1>1, <2>1, FamiliesStay DEF Heap
<1>14. Fields' BY <1>4 DEF Heap, Fields
<1>15. Listing'
  <2>0. \A i \in 1 .. Len(registry) : registry[i] \in Blocks /\ registry[i] # x
    BY <1>7 DEF Heap, Listing
  <2>1. CASE registry' = registry /\ starved' BY <1>2, <2>0, <2>1 DEF Heap, Listing
  <2>2. CASE registry' = <<x>> \o registry
    <3>1. \A i \in 1 .. Len(registry) + 1 : i = 1 \/ (i \in 2 .. Len(registry) + 1 /\ i - 1 \in 1 .. Len(registry))
      BY <1>7
    <3>2. \A i \in 1 .. Len(registry) + 1 :
            registry'[i] = IF i = 1 THEN x ELSE registry[i - 1]
      BY <1>8, <2>2, <3>1
    <3>3. \A i \in 1 .. Len(registry') : heap'[registry'[i]].kind = "token"
      <4> SUFFICES ASSUME NEW i \in 1 .. Len(registry) + 1 PROVE heap'[registry'[i]].kind = "token"
        BY <1>8, <2>2
      <4>1. \A b \in Blocks : heap'[b].kind = IF b = x THEN "token" ELSE heap[b].kind
        BY <1>2 DEF Kind
      <4>2. CASE i = 1 BY <1>8, <2>2, <4>1, <4>2
      <4>3. CASE i # 1
        <5>1. i - 1 \in 1 .. Len(registry) /\ registry'[i] = registry[i - 1] BY <3>1, <3>2, <4>3
        <5>2. heap[registry[i - 1]].kind = "token" BY <5>1 DEF Heap, Listing, Kind
        <5> QED BY <2>0, <4>1, <5>1, <5>2
      <4> QED BY <4>2, <4>3
    <3>4. \A i, j \in 1 .. Len(registry') : registry'[i] = registry'[j] => i = j
      <4> SUFFICES ASSUME NEW i \in 1 .. Len(registry) + 1, NEW j \in 1 .. Len(registry) + 1,
                          registry'[i] = registry'[j]
                   PROVE  i = j
        BY <1>8, <2>2
      <4>1. CASE i = 1 /\ j = 1 BY <4>1
      <4>2. CASE i = 1 /\ j # 1 BY <2>0, <3>1, <3>2, <4>2
      <4>3. CASE i # 1 /\ j = 1 BY <2>0, <3>1, <3>2, <4>3
      <4>4. CASE i # 1 /\ j # 1
        <5>1. i - 1 \in 1 .. Len(registry) /\ j - 1 \in 1 .. Len(registry) BY <3>1, <4>4
        <5>2. registry[i - 1] = registry[j - 1] BY <3>2, <4>4
        <5>3. i - 1 = j - 1 BY <5>1, <5>2 DEF Heap, Listing
        <5> QED BY <1>7, <5>3
      <4> QED BY <4>1, <4>2, <4>3, <4>4
    <3>5. ASSUME running', ~starved', NEW t \in Blocks, Kind(t)' = "token"
          PROVE  \E i \in 1 .. Len(registry') : registry'[i] = t
      <4>1. CASE t = x
        <5>1. 1 \in 1 .. Len(registry') BY <1>7, <1>8, <2>2
        <5> QED BY <1>8, <2>2, <4>1, <5>1
      <4>2. CASE t # x
        <5>1. PICK i \in 1 .. Len(registry) : registry[i] = t
          BY <1>2, <3>5, <4>2 DEF Heap, Listing
        <5>2. i + 1 \in 1 .. Len(registry') BY <1>7, <1>8, <2>2
        <5> QED BY <1>8, <2>2, <5>1, <5>2
      <4> QED BY <4>1, <4>2
    <3> QED BY <3>3, <3>4, <3>5 DEF Listing, Kind
  <2> QED BY <2>1, <2>2
<1> QED BY <1>9, <1>10, <1>11, <1>12, <1>13, <1>14, <1>15 DEF Heap

\* A token with another payload ...
Holding(q, b) == [q EXCEPT !.inside = b]

\* ... is a token.
LEMMA OtherPayload ==
  ASSUME NEW q \in TokenBlock, NEW b \in Blocks
  PROVE  Holding(q, b) \in TokenBlock /\ Holding(q, b).inside = b
BY DEF TokenBlock, Holding

\* A local string is moved into the payload of a token.
LEMMA StoreToken ==
  ASSUME Heap, NEW t \in Blocks, Kind(t) = "token", heap[t].inside = Null,
         NEW b \in locals, Kind(b) = "string",
         heap' = [heap EXCEPT ![t].inside = b], locals' = locals \ {b},
         UNCHANGED <<hybrid, array, held, field, registry, running, starved>>
  PROVE  Heap'
<1>0. Null \notin Blocks /\ b \in Blocks /\ InLocal(b) BY ValuesAssumption DEF Heap, Types, InLocal
<1>1. heap[t] \in TokenBlock BY BlockFacts DEF Heap
<1>2. PICK r \in TokenBlock : r = Holding(heap[t], b) /\ r.inside = b
  BY <1>0, <1>1, OtherPayload
<1>3. \A y \in Blocks : heap'[y] = IF y = t THEN r ELSE heap[y] BY <1>2 DEF Heap, Types, Holding
<1>4. \A y \in Blocks : Kind(y)' = Kind(y)
  <2>1. r.kind = "token" BY DEF TokenBlock
  <2> QED BY <1>3, <2>1 DEF Kind
<1>5. \A u : \A y \in Blocks : InToken(u, y)' <=> InToken(u, y) \/ (u = t /\ y = b)
  <2>1. \A y \in Blocks : ~InToken(t, y) BY <1>0 DEF InToken
  <2> QED BY <1>2, <1>3, <1>4, <2>1 DEF InToken
<1>6. Arrays' = Arrays /\ \A a, k, y : InSlot(a, k, y)' <=> InSlot(a, k, y) BY SlotsStay
<1>7. \A y : InLocal(y)' <=> InLocal(y) /\ y # b BY DEF InLocal
<1>8. (\A u : ~InToken(u, b)) /\ (\A a, k : ~InSlot(a, k, b)) BY <1>0 DEF Heap, Single
<1>9. Types'
  <2>1. \A y \in Blocks : heap'[y] \in Block BY <1>3 DEF Heap, Types, Block
  <2>2. heap' = [y \in Blocks |-> heap'[y]] BY DEF Heap, Types
  <2>3. heap' \in [Blocks -> Block] BY <2>1, <2>2
  <2> QED BY <2>3 DEF Heap, Types
<1>10. Single' BY <1>5, <1>6, <1>7, <1>8 DEF Heap, Single
<1>11. Sound' BY <1>4, <1>5, <1>6, <1>7 DEF Heap, Sound
<1>12. Kept'
  <2>1. ASSUME NEW y \in Blocks, HasOwner(y) PROVE HasOwner(y)'
    BY <1>4, <1>5, <1>6, <1>7, <2>1 DEF HasOwner
  <2> QED BY <1>4, <2>1 DEF Heap, Kept
<1>13. Families' BY <1>3, FamiliesStay DEF Heap
<1>14. Fields' BY <1>6 DEF Heap, Fields
<1>15. Listing'
  <2>1. \A i \in 1 .. Len(registry) : registry[i] \in Blocks BY DEF Heap, Types
  <2> QED BY <1>4, <2>1 DEF Heap, Listing
<1> QED BY <1>9, <1>10, <1>11, <1>12, <1>13, <1>14, <1>15 DEF Heap

\* Tokens are disposed of with their payloads.
LEMMA DropTokens ==
  ASSUME Heap, NEW D, D \subseteq Blocks, \A t \in D : Kind(t) = "token",
         \A y \in Blocks : heap'[y] = IF y \in D \/ (\E t \in D : InToken(t, y)) THEN NoBlock
                                      ELSE heap[y],
         heap' \in [Blocks -> Block], registry' \in Seq(Blocks), Listing',
         running' \in BOOLEAN,
         running' # running /\ ~starved => \A t \in Blocks : Kind(t) = "token" => t \in D,
         UNCHANGED <<hybrid, array, locals, held, field, starved>>
  PROVE  Heap'
<1> DEFINE Old(y) == y \in D \/ \E t \in D : InToken(t, y)
<1>1. \A y \in Blocks : heap'[y] = IF Old(y) THEN NoBlock ELSE heap[y] OBVIOUS
<1>2. \A y \in Blocks : Kind(y)' = IF Old(y) THEN "none" ELSE Kind(y) BY <1>1 DEF Kind, NoBlock
<1>3. \A y \in Blocks : Kind(y) = "token" => (Old(y) <=> y \in D)
  BY DEF Heap, Sound
<1>4. \A t : \A y \in Blocks : InToken(t, y)' <=> InToken(t, y) /\ t \notin D
  <2>1. \A t \in Blocks : t \in D => Kind(t)' # "token" BY <1>2
  <2>2. \A t \in Blocks : Kind(t)' = "token" <=> Kind(t) = "token" /\ t \notin D BY <1>2, <1>3
  <2>3. \A t \in Blocks : Kind(t)' = "token" => heap'[t] = heap[t] BY <1>1, <1>2
  <2> QED BY <2>1, <2>2, <2>3 DEF InToken
<1>5. Arrays' = Arrays /\ \A a, k, y : InSlot(a, k, y)' <=> InSlot(a, k, y) BY SlotsStay
<1>6. \A y : InLocal(y)' <=> InLocal(y) BY DEF InLocal
<1>7. \A y \in Blocks : Old(y) => /\ ~InLocal(y) /\ (\A a, k : ~InSlot(a, k, y))
                                  /\ (\A t : InToken(t, y) => t \in D)
  <2>1. \A y \in D : ~InLocal(y) /\ (\A a, k : ~InSlot(a, k, y)) /\ (\A t : ~InToken(t, y))
    BY Unowned
  <2> QED BY <2>1 DEF Heap, Single
<1> HIDE DEF Old
<1>8. Types' BY DEF Heap, Types
<1>9. Single' BY <1>4, <1>5, <1>6 DEF Heap, Single
<1>10. Sound' BY <1>2, <1>4, <1>5, <1>6, <1>7 DEF Heap, Sound
<1>11. Kept'
  <2>1. ASSUME NEW y \in Blocks, ~starved, ~Old(y), HasOwner(y) PROVE HasOwner(y)'
    <3>1. \A t : InToken(t, y) => InToken(t, y)' BY <1>4, <2>1 DEF Old
    <3>2. Kind(y) = "token" /\ running => Kind(y)' = "token" /\ running' BY <1>2, <1>3, <2>1 DEF Heap, Types
    <3> QED BY <1>5, <1>6, <2>1, <3>1, <3>2 DEF HasOwner
  <2> QED BY <1>2, <2>1 DEF Heap, Kept
<1>12. Families' BY <1>1, FamiliesStay DEF Heap
<1>13. Fields' BY <1>5 DEF Heap, Fields
<1> QED BY <1>8, <1>9, <1>10, <1>11, <1>12, <1>13 DEF Heap

-----------------------------------------------------------------------------
(* Sequences without one of their elements.                                *)

\* A non-empty set of positions has a least one.
LEMMA LeastPosition ==
  ASSUME NEW I, I \subseteq Nat, I # {}
  PROVE  Min(I) \in I
<1>1. \E x \in I : \A y \in I : ~(y < x) /\ x \in Nat
  <2>1. PICK x \in I : \A y \in I : ~(<<y, x>> \in OpToRel(<, Nat)) BY NatLessThanWellFounded, WFMin
  <2> QED BY <2>1 DEF OpToRel
<1>2. \E x \in I : \A y \in I : x =< y BY <1>1
<1> QED BY <1>2 DEF Min

\* RemoveFirst on a sequence without repetitions: what is left has none, and
\* is every other element.
LEMMA RemovedOnce ==
  ASSUME NEW S, NEW s \in Seq(S), NEW e,
         \A i, j \in 1 .. Len(s) : s[i] = s[j] => i = j,
         NEW r, r = RemoveFirst(s, e)
  PROVE  /\ r \in Seq(S)
         /\ \A i, j \in 1 .. Len(r) : r[i] = r[j] => i = j
         /\ \A i \in 1 .. Len(r) : r[i] # e /\ \E j \in 1 .. Len(s) : s[j] = r[i]
         /\ \A j \in 1 .. Len(s) : s[j] # e => \E i \in 1 .. Len(r) : r[i] = s[j]
<1>0. Len(s) \in Nat /\ \A i \in 1 .. Len(s) : s[i] \in S OBVIOUS
<1>1. CASE ~\E i \in 1 .. Len(s) : s[i] = e
  <2>1. r = s BY <1>1 DEF RemoveFirst
  <2> QED BY <1>1, <2>1
<1>2. CASE \E i \in 1 .. Len(s) : s[i] = e
  <2> DEFINE I == {i \in 1 .. Len(s) : s[i] = e}
  <2>1. Min(I) \in I
    <3>1. I \subseteq Nat /\ I # {} BY <1>0, <1>2
    <3> QED BY <3>1, LeastPosition
  <2>2. PICK m \in 1 .. Len(s) : s[m] = e /\ r = SubSeq(s, 1, m - 1) \o SubSeq(s, m + 1, Len(s))
    <3>1. r = RemoveAt(s, Min(I)) BY <1>2 DEF RemoveFirst, SelectInSeq
    <3> QED BY <2>1, <3>1 DEF RemoveAt
  <2> HIDE DEF I
  <2>3. m \in Nat /\ m >= 1 /\ m <= Len(s) BY <1>0, <2>2
  <2>4. PICK p : p = SubSeq(s, 1, m - 1) OBVIOUS
  <2>5. PICK q : q = SubSeq(s, m + 1, Len(s)) OBVIOUS
  <2>6. p \in Seq(S) /\ Len(p) = m - 1 /\ \A i \in 1 .. m - 1 : p[i] = s[i]
    <3>1. \A i \in 1 .. m - 1 : s[i] \in S BY <1>0, <2>3
    <3>2. /\ SubSeq(s, 1, m - 1) \in Seq(S)
          /\ Len(SubSeq(s, 1, m - 1)) = IF 1 <= m - 1 THEN m - 1 - 1 + 1 ELSE 0
          /\ \A i \in 1 .. m - 1 - 1 + 1 : SubSeq(s, 1, m - 1)[i] = s[1 + i - 1]
      BY <2>3, <3>1, SubSeqProperties
    <3> QED BY <2>3, <2>4, <3>2
  <2>7. q \in Seq(S) /\ Len(q) = Len(s) - m /\ \A i \in 1 .. Len(s) - m : q[i] = s[m + i]
    <3>1. \A i \in m + 1 .. Len(s) : s[i] \in S BY <1>0, <2>3
    <3>2. /\ SubSeq(s, m + 1, Len(s)) \in Seq(S)
          /\ Len(SubSeq(s, m + 1, Len(s))) = IF m + 1 <= Len(s) THEN Len(s) - (m + 1) + 1 ELSE 0
          /\ \A i \in 1 .. Len(s) - (m + 1) + 1 : SubSeq(s, m + 1, Len(s))[i] = s[m + 1 + i - 1]
      BY <1>0, <2>3, <3>1, SubSeqProperties
    <3> QED BY <1>0, <2>3, <2>5, <3>2
  <2>8. /\ r \in Seq(S) /\ Len(r) = Len(s) - 1
        /\ \A i \in 1 .. Len(s) - 1 : r[i] = IF i < m THEN s[i] ELSE s[i + 1]
    <3>1. r = p \o q BY <2>2, <2>4, <2>5
    <3>2. r \in Seq(S) /\ Len(r) = Len(p) + Len(q)
      <4>1. p \in Seq(S) /\ q \in Seq(S) BY <2>6, <2>7
      <4>2. p \o q \in Seq(S) BY <4>1, ConcatProperties
      <4>3. Len(p \o q) = Len(p) + Len(q) BY <4>1, ConcatProperties
      <4> QED BY <3>1, <4>2, <4>3
    <3>3. ASSUME NEW i \in 1 .. Len(s) - 1 PROVE r[i] = IF i < m THEN s[i] ELSE s[i + 1]
      <4>1. CASE i < m
        <5>1. i \in 1 .. Len(p) BY <1>0, <2>3, <2>6, <4>1
        <5>2. r[i] = p[i] BY <2>6, <2>7, <3>1, <5>1
        <5> QED BY <1>0, <2>3, <2>6, <4>1, <5>1, <5>2
      <4>2. CASE ~(i < m)
        <5>1. i \in Len(p) + 1 .. Len(p) + Len(q) /\ i - Len(p) = i - m + 1 BY <1>0, <2>3, <2>6, <2>7, <4>2
        <5>2. r[i] = q[i - Len(p)] BY <2>6, <2>7, <3>1, <5>1
        <5>3. i - m + 1 \in 1 .. Len(s) - m /\ m + (i - m + 1) = i + 1 BY <1>0, <2>3, <4>2
        <5>4. q[i - m + 1] = s[i + 1] BY <2>7, <5>3
        <5> QED BY <4>2, <5>1, <5>2, <5>4
      <4> QED BY <4>1, <4>2
    <3>4. Len(p) + Len(q) = Len(s) - 1 BY <1>0, <2>3, <2>6, <2>7
    <3> QED BY <3>2, <3>3, <3>4
  <2>9. ASSUME NEW i \in 1 .. Len(s) - 1
        PROVE  \E j \in 1 .. Len(s) : j # m /\ r[i] = s[j] /\ j = IF i < m THEN i ELSE i + 1
    BY <1>0, <2>3, <2>8
  <2>10. \A i, j \in 1 .. Len(r) : r[i] = r[j] => i = j
    <3> SUFFICES ASSUME NEW i \in 1 .. Len(s) - 1, NEW j \in 1 .. Len(s) - 1, r[i] = r[j] PROVE i = j
      BY <2>8
    <3>1. PICK k \in 1 .. Len(s) : r[i] = s[k] /\ k = IF i < m THEN i ELSE i + 1 BY <2>9
    <3>2. PICK l \in 1 .. Len(s) : r[j] = s[l] /\ l = IF j < m THEN j ELSE j + 1 BY <2>9
    <3>3. k = l BY <3>1, <3>2
    <3> QED BY <1>0, <2>3, <3>1, <3>2, <3>3
  <2>11. \A i \in 1 .. Len(r) : r[i] # e /\ \E j \in 1 .. Len(s) : s[j] = r[i]
    <3> SUFFICES ASSUME NEW i \in 1 .. Len(s) - 1
                 PROVE  r[i] # e /\ \E j \in 1 .. Len(s) : s[j] = r[i]
      BY <2>8
    <3>1. PICK j \in 1 .. Len(s) : j # m /\ r[i] = s[j] BY <2>9
    <3>2. s[j] # s[m] BY <3>1
    <3> QED BY <2>2, <3>1, <3>2
  <2>12. \A j \in 1 .. Len(s) : s[j] # e => \E i \in 1 .. Len(r) : r[i] = s[j]
    <3> SUFFICES ASSUME NEW j \in 1 .. Len(s), s[j] # e PROVE \E i \in 1 .. Len(s) - 1 : r[i] = s[j]
      BY <2>8
    <3>1. CASE j < m
      <4>1. j \in 1 .. Len(s) - 1 /\ r[j] = s[j] BY <1>0, <2>3, <2>8, <3>1
      <4> QED BY <4>1
    <3>2. CASE j > m
      <4>1. j - 1 \in 1 .. Len(s) - 1 /\ ~(j - 1 < m) /\ j - 1 + 1 = j BY <1>0, <2>3, <3>2
      <4>2. r[j - 1] = s[j] BY <2>8, <4>1
      <4> QED BY <4>1, <4>2
    <3>3. j \in Nat /\ j # m BY <1>0, <2>2
    <3> QED BY <2>3, <3>1, <3>2, <3>3
  <2> QED BY <2>8, <2>10, <2>11, <2>12
<1> QED BY <1>1, <1>2

-----------------------------------------------------------------------------
(* The operators of the actions.                                           *)

\* No block changes; an allocation may have failed.
LEMMA Same ==
  ASSUME Heap, UNCHANGED <<hybrid, heap, array, locals, registry, running>>,
         held' \subseteq Headers, field' \in Headers \cup {Null}, Fields',
         starved' \in BOOLEAN, starved => starved'
  PROVE  Heap'
<1>1. Types' BY DEF Heap, Types
<1>2. \A b : Kind(b)' = Kind(b) BY DEF Kind
<1>3. SameTokens BY <1>2 DEF SameTokens
<1>4. \A t, b : InToken(t, b)' <=> InToken(t, b) BY <1>3, TokensStay
<1>5. \A a, k, b : InSlot(a, k, b)' <=> InSlot(a, k, b) BY SlotsStay
<1>6. \A b : InLocal(b)' <=> InLocal(b) BY DEF InLocal
<1>7. Single' BY <1>4, <1>5, <1>6 DEF Heap, Single
<1>8. Sound' BY <1>2, <1>4, <1>5, <1>6 DEF Heap, Sound
<1>9. \A b \in Blocks : HasOwner(b)' <=> HasOwner(b)
  BY <1>2, <1>4, <1>5, <1>6 DEF HasOwner
<1>10. Kept' BY <1>2, <1>9 DEF Heap, Kept
<1>11. Families' BY FamiliesStay DEF Heap
<1>12. Listing' BY <1>3, ListingStays DEF Heap
<1> QED BY <1>1, <1>7, <1>8, <1>10, <1>11, <1>12 DEF Heap

\* An address that is free.
LEMMA FreshBlock ==
  ASSUME Types, Room
  PROVE  Fresh \in Blocks /\ Kind(Fresh) = "none"
<1>1. \E b \in Blocks : b \notin Live BY DEF Room, Live
<1>2. Fresh \in Blocks /\ Fresh \notin Live BY <1>1 DEF Fresh
<1> QED BY <1>2 DEF Live, Kind

\* A header address that is free.
LEMMA FreshArray ==
  ASSUME Arrays # Headers
  PROVE  FreshHeader \in Headers \ Arrays
<1>1. \E a \in Headers : a \notin Arrays BY DEF Arrays
<1> QED BY <1>1 DEF FreshHeader

\* Releasing nothing ...
LEMMA FreeNothing ==
  ASSUME Types
  PROVE  ~Misused({}) /\ Without({}) = heap
BY DEF Types, Misused, Without

\* ... and releasing one live block to its own allocator.
LEMMA FreeOne ==
  ASSUME NEW x \in Blocks, Kind(x) # "none", NEW by, heap[x].by = by
  PROVE  /\ ~Misused({Gone(x, by)})
         /\ Without({Gone(x, by)}) = [b \in Blocks |-> IF b = x THEN NoBlock ELSE heap[b]]
<1>1. Gone(x, by).block = x /\ Gone(x, by).by = by BY DEF Gone
<1>2. x \in Live BY DEF Live, Kind
<1> QED BY <1>1, <1>2 DEF Misused, Without

\* Releasing live blocks of libc's.
LEMMA FreeMany ==
  ASSUME Heap, NEW frees, NEW P,
         \A f \in frees : /\ f.by = "libc" /\ f.block \in P,
         \A y \in P : y \in Blocks /\ Kind(y) \in {"string", "struct", "token"},
         \A y \in P : \E f \in frees : f.block = y
  PROVE  /\ ~Misused(frees) /\ Without(frees) \in [Blocks -> Block]
         /\ \A y \in Blocks : Without(frees)[y] = IF y \in P THEN NoBlock ELSE heap[y]
<1>1. \A y \in P : y \in Live /\ heap[y].by = "libc" BY DEF Heap, Families, Live, Kind
<1>2. ~Misused(frees) BY <1>1 DEF Misused
<1>3. Without(frees) = [b \in Blocks |-> IF b \in P THEN NoBlock ELSE heap[b]]
  BY DEF Without
<1>4. \A b \in Blocks : (IF b \in P THEN NoBlock ELSE heap[b]) \in Block BY DEF Heap, Types, Block
<1> QED BY <1>2, <1>3, <1>4

\* The items of an array are given back as they were allocated.
LEMMA ItemsFreed ==
  ASSUME Heap, NEW a \in Arrays
  PROVE  ~ItemsMisused(a, SizeByCapacity(a))
<1>1. Fits(array[a]) BY ArrayFacts DEF Heap
<1>2. array[a].by = BridgeFamily BY DEF Heap, Families
<1> QED BY <1>1, <1>2 DEF Fits, ItemsMisused, SizeByCapacity

\* An array as kira_array_alloc and its callers fill it in.
LEMMA MadeArray ==
  ASSUME hybrid \in BOOLEAN, NEW len \in Nat, NEW cap \in Nat, NEW buffer \in Nat \cup {Null},
         NEW slots \in Seq(Element), NEW elem \in {"int", "string", "struct"},
         IF buffer = Null THEN len = 0 /\ cap = 0
         ELSE len <= cap /\ buffer = AtLeastOne(cap) /\ Len(slots) = buffer,
         NEW x, x = NewArray(len, cap, buffer, slots, elem)
  PROVE  /\ x \in ArrayRecord /\ x.by = BridgeFamily /\ x.elem = elem
         /\ x.len = len /\ x.slots = slots
<1>1. BridgeFamily \in {"libc", "vm"} BY DEF BridgeFamily
<1>2. x \in [elem : {"int", "string", "struct"}, by : {"libc", "vm"}, len : Nat, cap : Nat,
             buffer : Nat \cup {Null}, slots : Seq(Element)]
  BY <1>1 DEF NewArray
<1>3. /\ x.by = BridgeFamily /\ x.elem = elem /\ x.len = len /\ x.slots = slots
      /\ x.cap = cap /\ x.buffer = buffer
  BY DEF NewArray
<1>4. Fits(x) BY <1>3 DEF Fits
<1> QED BY <1>2, <1>3, <1>4 DEF ArrayRecord

\* An array's record, field by field.
LEMMA Spelled ==
  ASSUME NEW q \in ArrayRecord, NEW s, NEW n, NEW r, r = [q EXCEPT !.slots = s, !.len = n]
  PROVE  r = [elem |-> q.elem, by |-> q.by, len |-> n, cap |-> q.cap, buffer |-> q.buffer,
              slots |-> s]
<1>1. q \in [elem : {"int", "string", "struct"}, by : {"libc", "vm"}, len : Nat, cap : Nat,
             buffer : Nat \cup {Null}, slots : Seq(Element)]
  BY DEF ArrayRecord
<1> QED BY <1>1

\* An array with other slots of the same number, and another length.
LEMMA Rewritten ==
  ASSUME NEW q \in ArrayRecord, NEW s \in Seq(Element), Len(s) = Len(q.slots),
         NEW n \in Nat, q.buffer # Null, n <= q.cap,
         NEW x, x = [elem |-> q.elem, by |-> q.by, len |-> n, cap |-> q.cap, buffer |-> q.buffer,
                     slots |-> s]
  PROVE  x \in ArrayRecord /\ x.by = q.by /\ x.elem = q.elem /\ x.len = n /\ x.slots = s
<1>1. Fits(q) BY DEF ArrayRecord
<1>2. x \in [elem : {"int", "string", "struct"}, by : {"libc", "vm"}, len : Nat, cap : Nat,
             buffer : Nat \cup {Null}, slots : Seq(Element)]
  BY DEF ArrayRecord
<1>3. /\ x.by = q.by /\ x.elem = q.elem /\ x.len = n /\ x.slots = s /\ x.cap = q.cap
      /\ x.buffer = q.buffer
  OBVIOUS
<1>4. Fits(x) BY <1>1, <1>3 DEF Fits
<1> QED BY <1>2, <1>3, <1>4 DEF ArrayRecord

-----------------------------------------------------------------------------
(* The actions: elements, closures and lost values.                        *)

\* kira_struct_alloc, kira_string_out.
LEMMA NewElementStep ==
  ASSUME IndInv, NEW kind \in {"string", "struct"}, NewElement(kind)
  PROVE  IndInv'
<1>1. Heap /\ Types BY DEF IndInv, Heap
<1>2. Room /\ ~hybrid BY DEF NewElement
<1>3. Fresh \in Blocks /\ Kind(Fresh) = "none" BY <1>1, <1>2, FreshBlock
<1>4. Leaf(kind, "libc") \in LeafBlock /\ Leaf(kind, "libc").kind # "closure" /\ Leaf(kind, "libc").by = "libc"
  BY DEF Leaf, LeafBlock
<1>5. /\ heap' = [heap EXCEPT ![Fresh] = Leaf(kind, "libc")] /\ locals' = locals \cup {Fresh}
      /\ UNCHANGED <<hybrid, array, held, field, registry, running, starved>> /\ fault' = fault
  BY DEF NewElement, Quiet
<1>6. Heap' BY <1>1, <1>3, <1>4, <1>5, AddLocal
<1> QED BY <1>5, <1>6 DEF IndInv

\* A closure is made, by native code or by the VM for it.
LEMMA NewClosureStep ==
  ASSUME IndInv, Exports, NEW export \in BOOLEAN, NewClosure(export)
  PROVE  IndInv' /\ Exports'
<1>1. Heap /\ Types BY DEF IndInv, Heap
<1>2. Room BY DEF NewClosure
<1>3. Fresh \in Blocks /\ Kind(Fresh) = "none" BY <1>1, <1>2, FreshBlock
<1>4. PICK by \in {"libc", "vm"} : by = IF export THEN "vm" ELSE "libc" OBVIOUS
<1>5. PICK r : r = Leaf("closure", by) OBVIOUS
<1>6. r \in LeafBlock /\ r.kind = "closure" /\ r.by = by BY <1>5 DEF Leaf, LeafBlock
<1>7. PICK x \in Blocks : x = Fresh /\ Kind(x) = "none" BY <1>3
<1>8. /\ heap' = [heap EXCEPT ![x] = r] /\ locals' = locals \cup {x}
      /\ exported_native_closures' = exported_native_closures \cup IF by = "vm" THEN {x} ELSE {}
      /\ UNCHANGED <<hybrid, array, held, field, registry, running, starved>> /\ fault' = fault
  BY <1>4, <1>5, <1>7 DEF NewClosure
<1>9. Heap' BY <1>1, <1>6, <1>7, <1>8, AddLocal
<1>10. \A b \in Blocks : heap'[b] = IF b = x THEN r ELSE heap[b] BY <1>1, <1>8 DEF Types
<1>11. Exports' BY <1>6, <1>7, <1>8, <1>10 DEF Exports, Kind
<1> QED BY <1>8, <1>9, <1>11 DEF IndInv

\* A local string or struct is released.
LEMMA LocalFreed ==
  ASSUME IndInv, NEW b \in locals, Kind(b) # "closure",
         heap' = Without({Gone(b, "libc")}), fault' = (fault \/ Misused({Gone(b, "libc")})),
         locals' = locals \ {b},
         UNCHANGED <<hybrid, array, held, field, registry, running, starved>>
  PROVE  IndInv'
<1>1. Heap BY DEF IndInv
<1>2. b \in Blocks /\ Kind(b) \in {"string", "struct"}
  BY <1>1 DEF Heap, Types, Sound, InLocal
<1>3. heap[b].by = "libc" BY <1>1, <1>2 DEF Heap, Families
<1>4. /\ ~Misused({Gone(b, "libc")})
      /\ heap' = [y \in Blocks |-> IF y = b THEN NoBlock ELSE heap[y]]
  BY <1>2, <1>3, FreeOne
<1>5. starved' \in BOOLEAN /\ (starved => starved') BY <1>1 DEF Heap, Types
<1>6. Heap' BY <1>1, <1>4, <1>5, DropLocal
<1> QED BY <1>4, <1>6 DEF IndInv

\* A local element is released.
LEMMA DropElementStep ==
  ASSUME IndInv, NEW b \in locals, DropElement(b)
  PROVE  IndInv'
<1>1. Kind(b) # "closure" BY DEF DropElement, Kind
<1> QED BY <1>1, LocalFreed DEF DropElement, Quiet

\* What an element read from a local owns.
LEMMA ElementOwns ==
  ASSUME NEW b \in Blocks
  PROVE  /\ ElementOf(b).ptr = b /\ ElementOf(b) \in Element
         /\ Owned(ElementOf(b)) = {Gone(b, "libc")}
<1>1. b # Null BY ValuesAssumption
<1>2. ElementOf(b).ptr = b /\ ElementOf(b).tag \in {"ptr", "string"} BY DEF ElementOf
<1>3. ElementOf(b) \in Element BY <1>2 DEF Element, ElementOf
<1> QED BY <1>1, <1>2, <1>3 DEF Owned

\* A store to an array that is NULL.
LEMMA NullStoreReleaseStep ==
  ASSUME IndInv, NEW b \in locals, NullStoreRelease(b)
  PROVE  IndInv'
<1>1. b \in Blocks BY DEF IndInv, Heap, Types
<1>2. Rejected(ElementOf(b)) = {Gone(b, "libc")} BY <1>1, ElementOwns DEF Rejected
<1>3. Kind(b) # "closure" BY DEF NullStoreRelease, Kind
<1> QED BY <1>2, <1>3, LocalFreed DEF NullStoreRelease, Quiet

\* A local is dropped without being released, an allocation having failed.
LEMMA LocalLost ==
  ASSUME IndInv, NEW b \in locals, starved', locals' = locals \ {b}, starved' \in BOOLEAN,
         UNCHANGED <<hybrid, heap, array, held, field, registry, running, fault>>
  PROVE  IndInv'
<1>1. Heap BY DEF IndInv
<1>2. Heap' BY <1>1, DropLocal
<1> QED BY <1>2 DEF IndInv

\* An append to an array that is NULL.
LEMMA NullAppendStep ==
  ASSUME IndInv, NEW b \in locals, NullAppend(b)
  PROVE  IndInv'
<1>1. starved' /\ starved' \in BOOLEAN BY DEF NullAppend, IndInv, Heap, Types
<1> QED BY <1>1, LocalLost DEF NullAppend, Quiet

\* kira_destroy_closure: the list tells the allocator.
LEMMA DestroyClosureStep ==
  ASSUME IndInv, Exports, NEW b \in Live, DestroyClosure(b)
  PROVE  IndInv' /\ Exports'
<1>1. Heap /\ Types BY DEF IndInv, Heap
<1>2. /\ UNCHANGED <<hybrid, array, held, field, registry, running, starved>>
      /\ starved' \in BOOLEAN /\ (starved => starved')
  BY <1>1 DEF DestroyClosure, Types
<1>3. CASE ~Tagged(b)
  <2>1. /\ heap' = Without({}) /\ fault' = (fault \/ Misused({})) /\ locals' = locals
        /\ exported_native_closures' = Unexported({})
    BY <1>3 DEF DestroyClosure, Tagged
  <2>2. heap' = heap /\ ~Misused({}) BY <1>1, <2>1, FreeNothing
  <2>3. Fields' BY <1>1, <1>2 DEF Heap, Fields, Arrays
  <2>4. held' \subseteq Headers /\ field' \in Headers \cup {Null} BY <1>1, <1>2 DEF Types
  <2>5. Heap' BY <1>1, <1>2, <2>1, <2>2, <2>3, <2>4, Same
  <2>6. exported_native_closures' = exported_native_closures BY <2>1 DEF Unexported
  <2>7. Exports' BY <2>2, <2>6 DEF Exports, Kind
  <2> QED BY <2>1, <2>2, <2>5, <2>7 DEF IndInv
<1>4. CASE Tagged(b)
  <2>1. /\ heap' = Without({ClosureFree(b)}) /\ fault' = (fault \/ Misused({ClosureFree(b)}))
        /\ locals' = locals \ {b} /\ b \in locals
        /\ exported_native_closures' = Unexported({ClosureFree(b)})
    BY <1>4 DEF DestroyClosure, Tagged
  <2>2. b \in Blocks /\ Kind(b) = "closure" BY <1>4 DEF Live, Tagged, Kind
  <2>3. heap[b].by \in {"libc", "vm"} BY <1>1, <2>2, BlockFacts DEF LeafBlock
  <2>4. PICK by : by = IF b \in exported_native_closures THEN "vm" ELSE "libc" OBVIOUS
  <2>5. heap[b].by = by BY <2>2, <2>3, <2>4 DEF Exports
  <2>6. /\ ~Misused({Gone(b, by)})
        /\ Without({Gone(b, by)}) = [y \in Blocks |-> IF y = b THEN NoBlock ELSE heap[y]]
    BY <2>2, <2>5, FreeOne
  <2>7. ClosureFree(b) = Gone(b, by) /\ Gone(b, by).block = b BY <2>4 DEF ClosureFree, Gone
  <2>8. heap' = [y \in Blocks |-> IF y = b THEN NoBlock ELSE heap[y]] /\ ~fault'
    BY <2>1, <2>6, <2>7 DEF IndInv
  <2>9. Heap' BY <1>1, <1>2, <2>1, <2>8, DropLocal
  <2>10. exported_native_closures' = exported_native_closures \ {b}
    BY <2>1, <2>7 DEF Unexported
  <2>11. \A y \in Blocks : heap'[y] = IF y = b THEN NoBlock ELSE heap[y] BY <2>8
  <2>12. Exports' BY <2>10, <2>11 DEF Exports, Kind, NoBlock
  <2> QED BY <2>8, <2>9, <2>12 DEF IndInv
<1> QED BY <1>3, <1>4

-----------------------------------------------------------------------------
(* The actions: arrays.                                                    *)

\* A buffer of void slots.
LEMMA VoidSlots ==
  ASSUME NEW n \in Nat
  PROVE  /\ Voids(n) \in Seq(Element) /\ Len(Voids(n)) = n
         /\ \A k \in 1 .. n : Voids(n)[k].ptr = Null
<1>1. Void \in Element /\ Void.ptr = Null BY DEF Void, Element
<1>2. Voids(n) \in [1 .. n -> Element] BY <1>1 DEF Voids
<1>3. Voids(n) \in Seq(Element) /\ Len(Voids(n)) = n BY <1>2
<1> QED BY <1>1, <1>3 DEF Voids

\* kira_array_alloc, copyArrayToNativeLayout.
LEMMA ArrayAllocStep ==
  ASSUME IndInv, NEW len \in Nat, NEW elem \in {"int", "string", "struct"},
         NEW exported \in BOOLEAN, ArrayAlloc(len, elem, exported)
  PROVE  IndInv'
<1>1. Heap /\ Types BY DEF IndInv, Heap
<1>2. /\ UNCHANGED <<hybrid, heap, locals, field, registry, running>> /\ fault' = fault
      /\ (hybrid <=> elem = "int")
  BY DEF ArrayAlloc, Quiet
<1>3. CASE starved' = TRUE /\ UNCHANGED <<array, held>>
  <2>1. Fields' BY <1>1, <1>2, <1>3 DEF Heap, Fields, Arrays
  <2>2. held' \subseteq Headers /\ field' \in Headers \cup {Null} BY <1>1, <1>2, <1>3 DEF Types
  <2>3. Heap' BY <1>1, <1>2, <1>3, <2>1, <2>2, Same
  <2> QED BY <1>2, <2>3 DEF IndInv
<1>4. CASE ~(starved' = TRUE /\ UNCHANGED <<array, held>>)
  <2>1. PICK n \in Nat : n = AtLeastOne(len) /\ n >= 1 /\ len <= n BY DEF AtLeastOne
  <2>2. PICK cap \in Nat : /\ cap = IF exported THEN AtLeastOne(len) ELSE len
                           /\ AtLeastOne(cap) = n /\ len <= cap
    BY <2>1 DEF AtLeastOne
  <2>3. PICK x : x = NewArray(len, cap, n, Voids(n), elem) OBVIOUS
  <2>4. /\ Arrays # Headers /\ array' = [array EXCEPT ![FreshHeader] = x]
        /\ held' = held \cup {FreshHeader} /\ starved' = starved
    BY <1>4, <2>1, <2>2, <2>3 DEF ArrayAlloc
  <2>5. Voids(n) \in Seq(Element) /\ Len(Voids(n)) = n /\ \A k \in 1 .. n : Voids(n)[k].ptr = Null
    BY VoidSlots
  <2>6. hybrid \in BOOLEAN /\ n # Null BY <1>1, ValuesAssumption DEF Types
  <2>7. /\ x \in ArrayRecord /\ x.by = BridgeFamily /\ x.elem = elem /\ x.len = len
        /\ x.slots = Voids(n)
    BY <2>2, <2>3, <2>5, <2>6, MadeArray
  <2>8. \A k \in 1 .. x.len : x.slots[k].ptr = Null BY <2>1, <2>5, <2>7
  <2>9. PICK h \in Headers \ Arrays : h = FreshHeader BY <2>4, FreshArray
  <2>10. starved' \in BOOLEAN /\ (starved => starved') BY <1>1, <2>4 DEF Types
  <2>11. Heap'
    <3>1. array' = [array EXCEPT ![h] = x] /\ held' = held \cup {h} BY <2>4, <2>9
    <3>2. hybrid <=> x.elem = "int" BY <1>2, <2>7
    <3> HIDE <2>4
    <3> QED BY <1>1, <1>2, <2>7, <2>8, <2>10, <3>1, <3>2, AddArray
  <2> QED BY <1>2, <2>11 DEF IndInv
<1> QED BY <1>3, <1>4

\* An element the program passes.
LEMMA PassedFacts ==
  ASSUME Heap, NEW a \in Arrays, NEW b \in locals \cup {Null}, Passed(a, b)
  PROVE  /\ ValueOf(b) \in Element /\ ValueOf(b).ptr = b
         /\ b = Null \/ (b \in locals /\ b \in Blocks /\ Kind(b) = array[a].elem)
         /\ hybrid <=> b = Null
         /\ b # Null => ValueOf(b) = ElementOf(b)
<1>1. locals \subseteq Blocks /\ Null \notin Blocks BY ValuesAssumption DEF Heap, Types
<1>2. hybrid <=> array[a].elem = "int" BY DEF Heap, Families
<1>3. b # Null <=> array[a].elem # "int" BY <1>1 DEF Passed
<1>4. b # Null => b \in locals /\ Kind(b) = array[a].elem BY <1>3 DEF Passed, Kind
<1>5. CASE b = Null
  <2>1. ValueOf(b) = Number BY <1>5 DEF ValueOf
  <2> QED BY <1>2, <1>3, <1>5, <2>1 DEF Number, Element
<1>6. CASE b # Null
  <2>1. ValueOf(b) = ElementOf(b) BY <1>6 DEF ValueOf
  <2>2. b \in Blocks BY <1>1, <1>4, <1>6
  <2>3. ElementOf(b).ptr = b /\ ElementOf(b) \in Element BY <2>2, ElementOwns
  <2> QED BY <1>2, <1>3, <1>4, <1>6, <2>1, <2>2, <2>3
<1> QED BY <1>5, <1>6

\* The larger buffer: long enough for one more element, never empty.
LEMMA GrownFacts ==
  ASSUME Types, NEW a \in Arrays
  PROVE  /\ NextCap(a) \in Nat /\ NextCap(a) >= array[a].len + 1
         /\ CopiedInto(a, NextCap(a)) \in Seq(Element) /\ Len(CopiedInto(a, NextCap(a))) = NextCap(a)
         /\ \A k \in 1 .. array[a].len : CopiedInto(a, NextCap(a))[k] = array[a].slots[k]
<1>1. array[a].len \in Nat /\ array[a].cap \in Nat BY ArrayFacts
<1>2. NextCap(a) \in Nat /\ NextCap(a) >= array[a].len + 1
  <2>1. PICK d : d = IF array[a].cap < FirstCap THEN FirstCap ELSE array[a].cap * 2 OBVIOUS
  <2>2. d \in Nat BY <1>1, <2>1, ValuesAssumption
  <2>3. NextCap(a) = IF d < array[a].len + 1 THEN array[a].len + 1 ELSE d BY <2>1 DEF NextCap
  <2> QED BY <1>1, <2>2, <2>3
<1>3. PICK n \in Nat : n = NextCap(a) BY <1>2
<1>4. \A k \in 1 .. n : (IF k <= array[a].len THEN array[a].slots[k] ELSE Void) \in Element
  <2> SUFFICES ASSUME NEW k \in 1 .. n
               PROVE  (IF k <= array[a].len THEN array[a].slots[k] ELSE Void) \in Element
    OBVIOUS
  <2>1. CASE k <= array[a].len
    <3>1. k \in 1 .. array[a].len BY <1>1, <2>1
    <3> QED BY <2>1, <3>1, SlotFacts
  <2>2. CASE ~(k <= array[a].len) BY <2>2 DEF Void, Element
  <2> QED BY <2>1, <2>2
<1>5. PICK s : s = CopiedInto(a, n) OBVIOUS
<1>6. s \in [1 .. n -> Element] BY <1>4, <1>5 DEF CopiedInto
<1>7. s \in Seq(Element) /\ Len(s) = n BY <1>6
<1>8. \A k \in 1 .. array[a].len : s[k] = array[a].slots[k]
  <2>1. \A k \in 1 .. array[a].len : k \in 1 .. n /\ k <= array[a].len BY <1>1, <1>2, <1>3
  <2> QED BY <1>5, <2>1 DEF CopiedInto
<1> QED BY <1>2, <1>3, <1>5, <1>7, <1>8

\* An element joins an array.
LEMMA Appended ==
  ASSUME IndInv, NEW a \in Arrays, NEW b, b = Null \/ (b \in locals /\ Kind(b) = array[a].elem),
         NEW x \in ArrayRecord, x.by = array[a].by, x.elem = array[a].elem,
         x.len = array[a].len + 1, x.slots[x.len].ptr = b,
         \A k \in 1 .. array[a].len : x.slots[k] = array[a].slots[k],
         array' = [array EXCEPT ![a] = x], locals' = locals \ {b}, ~fault',
         UNCHANGED <<hybrid, heap, held, field, registry, running, starved>>
  PROVE  IndInv'
<1>1. Heap BY DEF IndInv
<1>2. \A k \in 1 .. array[a].len : x.slots[k].ptr = array[a].slots[k].ptr OBVIOUS
<1>3. Heap' BY <1>1, <1>2, PushSlot
<1> QED BY <1>3 DEF IndInv

\* kira_array_append: in place, grown, or without memory.
LEMMA ArrayAppendStep ==
  ASSUME IndInv, NEW a \in Arrays, NEW b \in locals \cup {Null}, ArrayAppend(a, b)
  PROVE  IndInv'
<1> DEFINE n == array[a].len + 1
<1>1. Heap /\ Types /\ ~fault BY DEF IndInv, Heap
<1>2. /\ UNCHANGED <<hybrid, heap, held, field, registry, running>> /\ locals' = locals \ {b}
      /\ Passed(a, b)
  BY DEF ArrayAppend, Quiet
<1>3. PICK e \in Element : e = ValueOf(b) /\ e.ptr = b BY <1>1, <1>2, PassedFacts
<1>4. b = Null \/ (b \in locals /\ Kind(b) = array[a].elem) BY <1>1, <1>2, PassedFacts
<1>5. /\ a \in Headers /\ array[a] \in ArrayRecord /\ Fits(array[a]) /\ array[a].len \in Nat
      /\ array[a].cap \in Nat /\ array[a].slots \in Seq(Element)
      /\ array[a].elem \in {"int", "string", "struct"}
  BY <1>1, ArrayFacts
<1>6. CASE /\ array[a].buffer # Null /\ array[a].len < array[a].cap
           /\ array' = [array EXCEPT ![a].slots[n] = ValueOf(b), ![a].len = n]
           /\ UNCHANGED <<starved, fault>>
  <2>1. PICK s : s = [array[a].slots EXCEPT ![n] = e] OBVIOUS
  <2>2. n \in 1 .. Len(array[a].slots) /\ n \in Nat /\ n <= array[a].cap
    BY <1>5, <1>6 DEF Fits, AtLeastOne
  <2>3. /\ s \in Seq(Element) /\ Len(s) = Len(array[a].slots) /\ s[n] = e
        /\ \A k \in 1 .. Len(array[a].slots) : k # n => s[k] = array[a].slots[k]
    BY <1>5, <2>1, <2>2
  <2>r. PICK x : x = [elem |-> array[a].elem, by |-> array[a].by, len |-> n, cap |-> array[a].cap,
                      buffer |-> array[a].buffer, slots |-> s]
    OBVIOUS
  <2>x. array' = [array EXCEPT ![a] = x]
    <3>1. array' = [array EXCEPT ![a] = [array[a] EXCEPT !.slots = s, !.len = n]]
      BY <1>3, <1>5, <1>6, <2>1
    <3>2. PICK r : r = [array[a] EXCEPT !.slots = s, !.len = n] OBVIOUS
    <3>3. r = x BY <1>5, <2>r, <3>2, Spelled
    <3> QED BY <3>1, <3>2, <3>3
  <2> HIDE DEF n
  <2>4. x \in ArrayRecord /\ x.by = array[a].by /\ x.elem = array[a].elem /\ x.len = n /\ x.slots = s
    <3>1. PICK q \in ArrayRecord : q = array[a] BY <1>5
    <3>2. Len(s) = Len(q.slots) /\ n \in Nat /\ q.buffer # Null /\ n <= q.cap BY <1>6, <2>2, <2>3, <3>1
    <3>3. x = [elem |-> q.elem, by |-> q.by, len |-> n, cap |-> q.cap, buffer |-> q.buffer,
               slots |-> s]
      BY <2>r, <3>1
    <3>4. x \in ArrayRecord /\ x.by = q.by /\ x.elem = q.elem /\ x.len = n /\ x.slots = s
      BY <2>3, <3>2, <3>3, Rewritten
    <3> QED BY <3>1, <3>4
  <2>5. \A k \in 1 .. array[a].len : k \in 1 .. Len(array[a].slots) /\ k # n
    BY <1>5, <2>2 DEF n
  <2>6. x.len = array[a].len + 1 /\ x.slots[x.len].ptr = b BY <1>3, <2>3, <2>4 DEF n
  <2>7. \A k \in 1 .. array[a].len : x.slots[k] = array[a].slots[k] BY <2>3, <2>4, <2>5
  <2>8. ~fault' /\ starved' = starved BY <1>1, <1>6
  <2> QED BY <1>2, <1>4, <2>x, <2>4, <2>6, <2>7, <2>8, Appended
<1>7. CASE /\ array' = [array EXCEPT ![a] = NewArray(n, NextCap(a), GrownBuffer(a),
                       [CopiedInto(a, GrownBuffer(a)) EXCEPT ![n] = ValueOf(b)], array[a].elem)]
           /\ fault' = (fault \/ ItemsMisused(a, SizeByCapacity(a))) /\ UNCHANGED starved
  <2>1. PICK m \in Nat : m = NextCap(a) /\ m >= n /\ m # Null
    BY <1>1, GrownFacts, ValuesAssumption
  <2>2. PICK s \in Seq(Element) : /\ s = CopiedInto(a, m) /\ Len(s) = m
                                  /\ \A k \in 1 .. array[a].len : s[k] = array[a].slots[k]
    BY <1>1, <2>1, GrownFacts
  <2>3. n \in Nat /\ n >= 1 /\ AtLeastOne(m) = m BY <1>5, <2>1 DEF AtLeastOne
  <2>4. PICK t : t = [s EXCEPT ![n] = e] OBVIOUS
  <2>5. /\ t \in Seq(Element) /\ Len(t) = m /\ t[n] = e
        /\ \A k \in 1 .. m : k # n => t[k] = s[k]
    BY <2>1, <2>2, <2>3, <2>4
  <2>6. PICK x : x = NewArray(n, m, m, t, array[a].elem) OBVIOUS
  <2>7. array' = [array EXCEPT ![a] = x] BY <1>3, <1>7, <2>1, <2>2, <2>4, <2>6 DEF GrownBuffer
  <2>8. ~fault' BY <1>1, <1>7, ItemsFreed
  <2>9. hybrid \in BOOLEAN BY <1>1 DEF Types
  <2>10. /\ x \in ArrayRecord /\ x.by = BridgeFamily /\ x.elem = array[a].elem /\ x.len = n
         /\ x.slots = t
    <3>1. IF m = Null THEN n = 0 /\ m = 0 ELSE n <= m /\ m = AtLeastOne(m) /\ Len(t) = m
      BY <2>1, <2>3, <2>5
    <3>2. m \in Nat \cup {Null} /\ t \in Seq(Element) /\ n \in Nat BY <2>3, <2>5
    <3>3. PICK c \in {"int", "string", "struct"} : c = array[a].elem BY <1>5
    <3>4. x = NewArray(n, m, m, t, c) BY <2>6, <3>3
    <3> HIDE DEF n
    <3>5. /\ x \in ArrayRecord /\ x.by = BridgeFamily /\ x.elem = c /\ x.len = n /\ x.slots = t
      BY <2>9, <3>1, <3>2, <3>4, MadeArray
    <3> QED BY <3>3, <3>5
  <2>11. array[a].by = BridgeFamily BY <1>1 DEF Heap, Families
  <2>12. \A k \in 1 .. array[a].len : x.slots[k] = array[a].slots[k]
    <3>1. \A k \in 1 .. array[a].len : k \in 1 .. m /\ k # n BY <1>5, <2>1
    <3> QED BY <2>2, <2>5, <2>10, <3>1
  <2>13. x.len = array[a].len + 1 /\ x.slots[x.len].ptr = b BY <1>3, <2>5, <2>10
  <2>14. x.by = array[a].by BY <2>10, <2>11
  <2>15. starved' = starved BY <1>7
  <2> HIDE DEF n
  <2> QED BY <1>2, <1>4, <2>7, <2>8, <2>10, <2>12, <2>13, <2>14, <2>15, Appended
<1>8. CASE starved' = TRUE /\ UNCHANGED <<array, fault>>
  <2>1. CASE b = Null
    <3>1. locals' = locals BY <1>1, <1>2, <2>1, ValuesAssumption DEF Types
    <3>2. Fields' BY <1>1, <1>2, <1>8 DEF Heap, Fields, Arrays
    <3>3. held' \subseteq Headers /\ field' \in Headers \cup {Null} BY <1>1, <1>2 DEF Types
    <3>4. Heap' BY <1>1, <1>2, <1>8, <3>1, <3>2, <3>3, Same
    <3> QED BY <1>1, <1>8, <3>4 DEF IndInv
  <2>2. CASE b \in locals BY <1>2, <1>8, <2>2, LocalLost
  <2> QED BY <2>1, <2>2
<1> QED BY <1>6, <1>7, <1>8 DEF ArrayAppend

\* A slot of an array is overwritten.
WithSlot(a, i, e) == [array[a] EXCEPT !.slots = [array[a].slots EXCEPT ![i] = e]]

\* ... it is an array still, and its other slots keep their elements.
LEMMA Stored ==
  ASSUME Types, NEW a \in Arrays, NEW i \in 1 .. array[a].len, NEW e \in Element
  PROVE  /\ WithSlot(a, i, e) \in ArrayRecord /\ WithSlot(a, i, e).by = array[a].by
         /\ WithSlot(a, i, e).elem = array[a].elem /\ WithSlot(a, i, e).len = array[a].len
         /\ WithSlot(a, i, e).slots[i] = e
         /\ \A k \in 1 .. array[a].len : k # i => WithSlot(a, i, e).slots[k] = array[a].slots[k]
<1>1. /\ a \in Headers /\ array[a] \in ArrayRecord /\ Fits(array[a]) /\ array[a].len \in Nat
      /\ array[a].cap \in Nat /\ array[a].slots \in Seq(Element)
  BY ArrayFacts
<1>2. /\ i \in 1 .. Len(array[a].slots) /\ array[a].buffer # Null /\ array[a].len <= array[a].cap
      /\ \A k \in 1 .. array[a].len : k \in 1 .. Len(array[a].slots)
  BY <1>1, SlotFacts DEF Fits
<1>3. PICK s : s = [array[a].slots EXCEPT ![i] = e] OBVIOUS
<1>4. /\ s \in Seq(Element) /\ Len(s) = Len(array[a].slots) /\ s[i] = e
      /\ \A k \in 1 .. Len(array[a].slots) : k # i => s[k] = array[a].slots[k]
  BY <1>1, <1>2, <1>3
<1>5. PICK n \in Nat : n = array[a].len BY <1>1
<1>6. PICK x : x = [elem |-> array[a].elem, by |-> array[a].by, len |-> n, cap |-> array[a].cap,
                    buffer |-> array[a].buffer, slots |-> s]
  OBVIOUS
<1>7. WithSlot(a, i, e) = x
  <2>1. PICK r : r = [array[a] EXCEPT !.slots = s, !.len = n] OBVIOUS
  <2>2. r = x BY <1>1, <1>6, <2>1, Spelled
  <2>3. r = [array[a] EXCEPT !.slots = s] BY <1>1, <1>5, <2>1 DEF ArrayRecord
  <2> QED BY <1>3, <2>2, <2>3 DEF WithSlot
<1>8. x \in ArrayRecord /\ x.by = array[a].by /\ x.elem = array[a].elem /\ x.len = n /\ x.slots = s
  <2>1. PICK q \in ArrayRecord : q = array[a] BY <1>1
  <2>2. Len(s) = Len(q.slots) /\ q.buffer # Null /\ n <= q.cap BY <1>2, <1>4, <1>5, <2>1
  <2>3. x = [elem |-> q.elem, by |-> q.by, len |-> n, cap |-> q.cap, buffer |-> q.buffer,
             slots |-> s]
    BY <1>6, <2>1
  <2>4. x \in ArrayRecord /\ x.by = q.by /\ x.elem = q.elem /\ x.len = n /\ x.slots = s
    BY <1>4, <2>2, <2>3, Rewritten
  <2> QED BY <2>1, <2>4
<1> QED BY <1>2, <1>4, <1>5, <1>7, <1>8

\* The elements of a hybrid build's arrays are scalars.
LEMMA HybridSlots ==
  ASSUME Heap, hybrid, NEW a \in Arrays, NEW k \in 1 .. array[a].len
  PROVE  array[a].slots[k].ptr = Null
<1>1. array[a].slots[k].ptr \in Blocks \cup {Null} BY SlotFacts DEF Heap
<1>2. array[a].elem = "int" BY DEF Heap, Families
<1>3. ASSUME array[a].slots[k].ptr \in Blocks PROVE FALSE
  <2>1. PICK y \in Blocks : y = array[a].slots[k].ptr BY <1>3
  <2>2. InSlot(a, k, y) BY <2>1 DEF InSlot
  <2>3. Kind(y) = "int" BY <1>2, <2>2 DEF Heap, Sound
  <2> QED BY <2>3, BlockFacts DEF Heap
<1> QED BY <1>1, <1>3

\* What a slot owns.
LEMMA SlotOwns ==
  ASSUME Heap, NEW a \in Arrays, NEW k \in 1 .. array[a].len
  PROVE  /\ array[a].slots[k].ptr = Null => Owned(array[a].slots[k]) = {}
         /\ array[a].slots[k].ptr # Null =>
              /\ Owned(array[a].slots[k]) = {Gone(array[a].slots[k].ptr, "libc")}
              /\ array[a].slots[k].ptr \in Blocks
              /\ Kind(array[a].slots[k].ptr) \in {"string", "struct"}
              /\ InSlot(a, k, array[a].slots[k].ptr)
<1>1. /\ array[a].slots[k].ptr \in Blocks \cup {Null}
      /\ array[a].slots[k].ptr # Null => array[a].slots[k].tag \in {"ptr", "string"}
  BY SlotFacts DEF Heap
<1>2. array[a].slots[k].ptr = Null => Owned(array[a].slots[k]) = {} BY DEF Owned
<1>3. ASSUME array[a].slots[k].ptr # Null
      PROVE  /\ Owned(array[a].slots[k]) = {Gone(array[a].slots[k].ptr, "libc")}
             /\ array[a].slots[k].ptr \in Blocks
             /\ Kind(array[a].slots[k].ptr) \in {"string", "struct"}
             /\ InSlot(a, k, array[a].slots[k].ptr)
  <2>1. PICK y \in Blocks : y = array[a].slots[k].ptr BY <1>1, <1>3
  <2>2. InSlot(a, k, y) BY <2>1 DEF InSlot
  <2>3. Kind(y) = array[a].elem BY <2>2 DEF Heap, Sound
  <2>4. array[a].elem \in {"int", "string", "struct"} BY ArrayFacts DEF Heap
  <2>5. Kind(y) # "int" BY BlockFacts DEF Heap
  <2>6. Owned(array[a].slots[k]) = {Gone(array[a].slots[k].ptr, "libc")} BY <1>1, <1>3 DEF Owned
  <2> QED BY <2>1, <2>2, <2>3, <2>4, <2>5, <2>6
<1> QED BY <1>2, <1>3

\* kira_array_store_release, at any index, in both builds.
LEMMA ArrayStoreReleaseStep ==
  ASSUME IndInv, NEW a \in Arrays, NEW index \in Indices(a), NEW b \in locals \cup {Null},
         ArrayStoreRelease(a, index, b)
  PROVE  IndInv'
<1>1. Heap /\ Types /\ ~fault BY DEF IndInv, Heap
<1>2. /\ UNCHANGED <<hybrid, held, field, registry, running, starved>> /\ locals' = locals \ {b}
      /\ Passed(a, b) /\ ArrayStore(a, index, ValueOf(b))
  BY DEF ArrayStoreRelease, Quiet
<1>3. PICK e \in Element : e = ValueOf(b) /\ e.ptr = b BY <1>1, <1>2, PassedFacts
<1>4. /\ b = Null \/ (b \in locals /\ b \in Blocks /\ Kind(b) = array[a].elem)
      /\ hybrid <=> b = Null
      /\ b # Null => e = ElementOf(b)
  BY <1>1, <1>2, <1>3, PassedFacts
<1>5. array[a].len \in Nat BY <1>1, ArrayFacts
<1>6. starved' \in BOOLEAN /\ (starved => starved') BY <1>1, <1>2 DEF Types
<1>7. CASE index >= 0 /\ index < array[a].len
  <2>1. PICK i \in 1 .. array[a].len : i = index + 1 BY <1>5, <1>7 DEF Indices
  <2>2. Elems(a)[i] = array[a].slots[i] BY <1>1, SlotFacts
  <2>3. /\ array' = [array EXCEPT ![a].slots[i] = e]
        /\ hybrid => heap' = Without({}) /\ fault' = (fault \/ Misused({}))
        /\ ~hybrid => /\ heap' = Without(Replaced(array[a].slots[i], e))
                      /\ fault' = (fault \/ Misused(Replaced(array[a].slots[i], e)))
    BY <1>2, <1>3, <1>7, <2>1, <2>2 DEF ArrayStore
  <2>4. PICK x \in ArrayRecord :
          /\ array' = [array EXCEPT ![a] = x]
          /\ x.by = array[a].by /\ x.elem = array[a].elem /\ x.len = array[a].len
          /\ x.slots[i] = e
          /\ \A k \in 1 .. array[a].len : k # i => x.slots[k] = array[a].slots[k]
    <3>1. array' = [array EXCEPT ![a] = WithSlot(a, i, e)] BY <2>3 DEF WithSlot
    <3>2. PICK y : y = WithSlot(a, i, e) OBVIOUS
    <3>3. /\ y \in ArrayRecord
          /\ y.by = array[a].by /\ y.elem = array[a].elem /\ y.len = array[a].len
          /\ y.slots[i] = e
          /\ \A k \in 1 .. array[a].len : k # i => y.slots[k] = array[a].slots[k]
      BY <1>1, <3>2, Stored
    <3> QED BY <3>1, <3>2, <3>3
  <2>5. x.slots[i].ptr = b BY <1>3, <2>4
  <2>6. \A k \in 1 .. array[a].len : k # i => x.slots[k].ptr = array[a].slots[k].ptr BY <2>4
  <2>7. PICK old : old = array[a].slots[i].ptr OBVIOUS
  <2>8. CASE hybrid
    <3>1. heap' = heap /\ ~fault' BY <1>1, <2>3, <2>8, FreeNothing
    <3>2. b = Null /\ old = Null BY <1>1, <1>4, <2>7, <2>8, HybridSlots
    <3>3. locals' = locals \cup ({old} \ {Null})
      BY <1>1, <1>2, <3>2, ValuesAssumption DEF Types
    <3>4. x.slots[i].ptr = Null BY <2>5, <3>2
    <3>5. array' = [array EXCEPT ![a] = x] BY <2>4
    <3>6. Heap' BY <1>1, <1>2, <2>4, <2>6, <2>7, <3>1, <3>3, <3>4, <3>5, TakeSlot
    <3> QED BY <3>1, <3>6 DEF IndInv
  <2>9. CASE ~hybrid
    <3>1. b \in locals /\ b \in Blocks /\ Kind(b) = array[a].elem /\ b # Null
      BY <1>4, <2>9, ValuesAssumption
    <3>2. old # b
      <4>1. InLocal(b) BY <3>1 DEF InLocal
      <4>2. ~InSlot(a, i, b) BY <1>1, <3>1, <4>1 DEF Heap, Single
      <4> QED BY <2>7, <4>2 DEF InSlot
    <3>3. Replaced(array[a].slots[i], e) = Owned(array[a].slots[i])
      BY <1>3, <2>7, <3>2 DEF Replaced
    <3>4. ~fault' /\ heap' = [y \in Blocks |-> IF y = old THEN NoBlock ELSE heap[y]]
      <4>1. CASE old = Null
        <5>1. Owned(array[a].slots[i]) = {} BY <1>1, <2>7, <4>1, SlotOwns
        <5>2. heap' = heap /\ ~fault' BY <1>1, <2>3, <2>9, <3>3, <5>1, FreeNothing
        <5> QED BY <1>1, <4>1, <5>2, ValuesAssumption DEF Types
      <4>2. CASE old # Null
        <5>1. /\ Owned(array[a].slots[i]) = {Gone(old, "libc")}
              /\ old \in Blocks /\ Kind(old) \in {"string", "struct"}
          BY <1>1, <2>7, <4>2, SlotOwns
        <5>2. heap[old].by = "libc" BY <1>1, <5>1 DEF Heap, Families
        <5>3. /\ ~Misused({Gone(old, "libc")})
              /\ Without({Gone(old, "libc")}) = [y \in Blocks |-> IF y = old THEN NoBlock ELSE heap[y]]
          BY <5>1, <5>2, FreeOne
        <5> QED BY <1>1, <2>3, <2>9, <3>3, <5>1, <5>3
      <4> QED BY <4>1, <4>2
    <3>5. array' = [array EXCEPT ![a] = x] BY <2>4
    <3>6. PICK c \in locals : c = b BY <3>1
    <3>7. Kind(c) = array[a].elem /\ x.slots[i].ptr = c /\ locals' = locals \ {c}
      BY <1>2, <2>5, <3>1, <3>6
    <3>8. x.by = array[a].by /\ x.elem = array[a].elem /\ x.len = array[a].len BY <2>4
    <3>9. UNCHANGED <<hybrid, held, field, registry, running, starved>> BY <1>2
    <3>10. /\ \A y \in Blocks : heap'[y] = IF y = old THEN NoBlock ELSE heap[y]
           /\ heap' \in [Blocks -> Block]
      BY <1>1, <3>4 DEF Types, Block
    <3>11. Heap BY <1>1
    <3>12. Replacing(a, i, c, x) BY <2>6, <2>7, <3>5, <3>7, <3>8, <3>9, <3>10 DEF Replacing
    <3>13. Heap' BY <3>11, <3>12, ReplaceSlot
    <3> QED BY <3>4, <3>13 DEF IndInv
  <2> QED BY <2>8, <2>9
<1>8. CASE ~(index >= 0 /\ index < array[a].len)
  <2>1. /\ array' = array
        /\ hybrid => heap' = Without({}) /\ fault' = (fault \/ Misused({}))
        /\ ~hybrid => heap' = Without(Rejected(e)) /\ fault' = (fault \/ Misused(Rejected(e)))
    BY <1>2, <1>3, <1>8 DEF ArrayStore
  <2>2. CASE hybrid
    <3>1. heap' = heap /\ ~fault' BY <1>1, <2>1, <2>2, FreeNothing
    <3>2. locals' = locals BY <1>1, <1>2, <1>4, <2>2, ValuesAssumption DEF Types
    <3>3. Fields' BY <1>1, <1>2, <2>1 DEF Heap, Fields, Arrays
    <3>4. held' \subseteq Headers /\ field' \in Headers \cup {Null} BY <1>1, <1>2 DEF Types
    <3>5. Heap' BY <1>1, <1>2, <1>6, <2>1, <3>1, <3>2, <3>3, <3>4, Same
    <3> QED BY <3>1, <3>5 DEF IndInv
  <2>3. CASE ~hybrid
    <3>1. b \in locals /\ b \in Blocks /\ Kind(b) = array[a].elem /\ e = ElementOf(b)
      BY <1>4, <2>3
    <3>2. Rejected(e) = {Gone(b, "libc")} BY <3>1, ElementOwns DEF Rejected
    <3>3. Kind(b) # "closure" BY <1>1, <3>1, ArrayFacts
    <3>4. heap' = Without({Gone(b, "libc")}) /\ fault' = (fault \/ Misused({Gone(b, "libc")}))
      BY <2>1, <2>3, <3>2
    <3> QED BY <1>2, <2>1, <3>1, <3>3, <3>4, LocalFreed
  <2> QED BY <2>2, <2>3
<1> QED BY <1>7, <1>8

\* The same element stored back.
LEMMA ArrayStoreBackStep ==
  ASSUME IndInv, NEW a \in Arrays, NEW index \in Indices(a), ArrayStoreBack(a, index)
  PROVE  IndInv'
<1>1. Heap /\ Types /\ ~fault BY DEF IndInv, Heap
<1>2. /\ UNCHANGED <<hybrid, locals, held, field, registry, running, starved>>
      /\ index \in 0 .. array[a].len - 1 /\ ArrayStore(a, index, Elems(a)[index + 1])
  BY DEF ArrayStoreBack, Quiet
<1>3. a \in Headers /\ array[a] \in ArrayRecord /\ array[a].len \in Nat /\ array[a].slots \in Seq(Element)
  BY <1>1, ArrayFacts
<1>4. PICK i \in 1 .. array[a].len : i = index + 1 BY <1>2, <1>3
<1>5. Elems(a)[i] = array[a].slots[i] /\ i \in 1 .. Len(array[a].slots) BY <1>1, SlotFacts
<1>6. index >= 0 /\ index < array[a].len BY <1>2, <1>3
<1>7. Replaced(array[a].slots[i], array[a].slots[i]) = {} BY DEF Replaced
<1>8. /\ array' = [array EXCEPT ![a].slots[i] = array[a].slots[i]]
      /\ heap' = Without({}) /\ fault' = (fault \/ Misused({}))
  BY <1>2, <1>4, <1>5, <1>6, <1>7 DEF ArrayStore
<1>9. heap' = heap /\ ~fault' BY <1>1, <1>8, FreeNothing
<1>10. array' = array
  <2>1. [array[a].slots EXCEPT ![i] = array[a].slots[i]] = array[a].slots BY <1>3, <1>5
  <2>2. array' = [array EXCEPT ![a].slots = array[a].slots] BY <1>8, <2>1
  <2>3. [array[a] EXCEPT !.slots = array[a].slots] = array[a] BY <1>3 DEF ArrayRecord
  <2>4. array' = [array EXCEPT ![a] = array[a]] BY <2>2, <2>3
  <2> QED BY <1>1, <2>4 DEF Types
<1>11. Fields' BY <1>1, <1>2, <1>10 DEF Heap, Fields, Arrays
<1>12. held' \subseteq Headers /\ field' \in Headers \cup {Null} BY <1>1, <1>2 DEF Types
<1>13. starved' \in BOOLEAN /\ (starved => starved') BY <1>1, <1>2 DEF Types
<1>14. Heap' BY <1>1, <1>2, <1>9, <1>10, <1>11, <1>12, <1>13, Same
<1> QED BY <1>9, <1>14 DEF IndInv

\* kira_array_take.
LEMMA ArrayTakeStep ==
  ASSUME IndInv, NEW a \in Arrays, NEW index \in Indices(a), ArrayTake(a, index)
  PROVE  IndInv'
<1>1. Heap /\ Types BY DEF IndInv, Heap
<1>2. /\ UNCHANGED <<hybrid, heap, held, field, registry, running, starved, fault>>
      /\ index \in 0 .. array[a].len - 1
      /\ array' = [array EXCEPT ![a].slots[index + 1] = Void]
      /\ locals' = locals \cup ({Elems(a)[index + 1].ptr} \ {Null})
  BY DEF ArrayTake, Quiet
<1>3. array[a].len \in Nat BY <1>1, ArrayFacts
<1>4. PICK i \in 1 .. array[a].len : i = index + 1 BY <1>2, <1>3
<1>5. Elems(a)[i] = array[a].slots[i] BY <1>1, SlotFacts
<1>6. Void \in Element /\ Void.ptr = Null BY DEF Void, Element
<1>7. PICK e \in Element : e = Void BY <1>6
<1>8. array' = [array EXCEPT ![a] = WithSlot(a, i, e)] BY <1>2, <1>4, <1>7 DEF WithSlot
<1>9. PICK x \in ArrayRecord :
        /\ array' = [array EXCEPT ![a] = x]
        /\ x.by = array[a].by /\ x.elem = array[a].elem /\ x.len = array[a].len
        /\ x.slots[i] = e
        /\ \A k \in 1 .. array[a].len : k # i => x.slots[k] = array[a].slots[k]
  BY <1>1, <1>8, Stored
<1>10. PICK old : old = array[a].slots[i].ptr OBVIOUS
<1>11. locals' = locals \cup ({old} \ {Null}) BY <1>2, <1>4, <1>5, <1>10
<1>12. x.slots[i].ptr = Null BY <1>6, <1>7, <1>9
<1>13. \A k \in 1 .. array[a].len : k # i => x.slots[k].ptr = array[a].slots[k].ptr BY <1>9
<1>14. UNCHANGED <<hybrid, heap, held, field, registry, running, starved>> BY <1>2
<1>15. x.by = array[a].by /\ x.elem = array[a].elem /\ x.len = array[a].len BY <1>9
<1>16. array' = [array EXCEPT ![a] = x] BY <1>9
<1>17. Heap' BY <1>1, <1>10, <1>11, <1>12, <1>13, <1>14, <1>15, <1>16, TakeSlot
<1> QED BY <1>2, <1>17 DEF IndInv

\* An array without elements or items is made.
LEMMA EmptyArray ==
  ASSUME IndInv, ~hybrid, Arrays # Headers, NEW elem \in {"string", "struct"},
         array' = [array EXCEPT ![FreshHeader] = NewArray(0, 0, Null, <<>>, elem)],
         held' = held \cup {FreshHeader}, starved' \in BOOLEAN, starved => starved',
         UNCHANGED <<hybrid, heap, locals, field, registry, running, fault>>
  PROVE  IndInv'
<1>1. Heap /\ Types BY DEF IndInv, Heap
<1>2. PICK x : x = NewArray(0, 0, Null, <<>>, elem) OBVIOUS
<1>3. hybrid \in BOOLEAN /\ <<>> \in Seq(Element) /\ 0 \in Nat /\ Null \in Nat \cup {Null}
  BY <1>1 DEF Types
<1>4. x \in ArrayRecord /\ x.by = BridgeFamily /\ x.elem = elem /\ x.len = 0
  <2>1. PICK n \in Nat : n = 0 OBVIOUS
  <2>2. PICK m \in Nat \cup {Null} : m = Null OBVIOUS
  <2>3. PICK s \in Seq(Element) : s = <<>> BY <1>3
  <2>4. PICK c \in {"int", "string", "struct"} : c = elem OBVIOUS
  <2>5. IF m = Null THEN n = 0 /\ n = 0 ELSE n <= n /\ m = AtLeastOne(n) /\ Len(s) = m
    BY <2>1, <2>2
  <2>6. x = NewArray(n, n, m, s, c) BY <1>2, <2>1, <2>2, <2>3, <2>4
  <2>7. x \in ArrayRecord /\ x.by = BridgeFamily /\ x.elem = c /\ x.len = n
    BY <1>3, <2>5, <2>6, MadeArray
  <2> QED BY <2>1, <2>4, <2>7
<1>5. PICK h \in Headers \ Arrays : h = FreshHeader BY FreshArray
<1>6. array' = [array EXCEPT ![h] = x] /\ held' = held \cup {h} BY <1>2, <1>5
<1>7. (hybrid <=> x.elem = "int") /\ \A k \in 1 .. x.len : x.slots[k].ptr = Null BY <1>4
<1>8. Heap' BY <1>1, <1>4, <1>6, <1>7, AddArray
<1> QED BY <1>8 DEF IndInv

\* A slot that needs no copy owns nothing.
LEMMA CopyFacts ==
  ASSUME Heap, NEW a \in Arrays, NEW k \in 1 .. array[a].len
  PROVE  /\ k \notin ToCopy(a) => array[a].slots[k].ptr = Null
         /\ k \in ToCopy(a) => array[a].slots[k].tag \in {"ptr", "string"}
<1>1. /\ Elems(a)[k] = array[a].slots[k]
      /\ array[a].slots[k].ptr # Null => array[a].slots[k].tag \in {"ptr", "string"}
  BY SlotFacts DEF Heap
<1> QED BY <1>1 DEF ToCopy, NeedsCopy

\* kira_array_clone with its items, some copies failing.
LEMMA CloneItemsStep ==
  ASSUME IndInv, NEW a \in Arrays, NEW failed \in SUBSET ToCopy(a), ~hybrid, Arrays # Headers,
         CloneItems(a, failed), held' = held \cup {FreshHeader},
         starved' \in BOOLEAN, starved => starved',
         UNCHANGED <<hybrid, locals, field, registry, running, fault>>
  PROVE  IndInv'
<1>1. Heap /\ Types BY DEF IndInv, Heap
<1>2. PICK D : D = ToCopy(a) \ failed OBVIOUS
<1>3. /\ array[a].len > 0 /\ array[a].len \in Nat /\ array[a].elem \in {"string", "struct"}
      /\ D \subseteq 1 .. array[a].len /\ array[a].slots \in Seq(Element)
  BY <1>1, <1>2, ArrayFacts DEF CloneItems, ToCopy, Heap, Families
<1>4. PICK copy : /\ copy = CHOOSE f \in Injection(D, Blocks \ Live) : TRUE
                  /\ copy \in Injection(D, Blocks \ Live)
  BY <1>2 DEF CloneItems
<1>5. /\ copy \in [D -> Blocks \ Live]
      /\ \A k, j \in D : copy[k] = copy[j] => k = j
  BY <1>4 DEF Injection, IsInjective
<1>6. \A k \in D : copy[k] \in Blocks /\ Kind(copy[k]) = "none" BY <1>5 DEF Live, Kind
<1>7. PICK s : s = [k \in 1 .. array[a].len |->
                      IF k \notin ToCopy(a) THEN Elems(a)[k]
                      ELSE [Elems(a)[k] EXCEPT !.ptr = IF k \in failed THEN Null ELSE copy[k]]]
  OBVIOUS
<1>8. PICK n \in Nat : n = array[a].len /\ n # Null /\ n = AtLeastOne(n)
  BY <1>3, ValuesAssumption DEF AtLeastOne
<1>9. PICK x : x = NewArray(n, n, n, s, array[a].elem) OBVIOUS
<1>10. /\ array' = [array EXCEPT ![FreshHeader] = x]
       /\ heap' = [b \in Blocks |-> IF b \in Range(copy) THEN Leaf(array[a].elem, "libc") ELSE heap[b]]
  BY <1>2, <1>4, <1>7, <1>8, <1>9 DEF CloneItems
<1>11. ASSUME NEW k \in 1 .. array[a].len
       PROVE  s[k] \in Element /\ s[k].ptr = IF k \in D THEN copy[k] ELSE Null
  <2>1. array[a].slots[k] \in Element /\ Elems(a)[k] = array[a].slots[k] BY <1>1, SlotFacts
  <2>2. CASE k \notin ToCopy(a)
    <3>1. s[k] = array[a].slots[k] BY <1>7, <2>1, <2>2
    <3>2. array[a].slots[k].ptr = Null BY <1>1, <2>2, CopyFacts
    <3> QED BY <1>2, <2>1, <2>2, <3>1, <3>2
  <2>3. CASE k \in ToCopy(a)
    <3>1. PICK p : p = IF k \in failed THEN Null ELSE copy[k] OBVIOUS
    <3>2. p \in Blocks \cup {Null} /\ p = IF k \in D THEN copy[k] ELSE Null
      BY <1>2, <1>6, <2>3, <3>1
    <3>3. s[k] = [array[a].slots[k] EXCEPT !.ptr = p] BY <1>7, <2>1, <2>3, <3>1
    <3>4. array[a].slots[k].tag \in {"ptr", "string"} BY <1>1, <2>3, CopyFacts
    <3>5. s[k] \in Element /\ s[k].ptr = p BY <2>1, <3>2, <3>3, <3>4 DEF Element
    <3> QED BY <3>2, <3>5
  <2> QED BY <2>2, <2>3
<1>12. s \in Seq(Element) /\ Len(s) = n
  <2>1. s \in [1 .. n -> Element] BY <1>7, <1>8, <1>11
  <2> QED BY <2>1
<1>13. /\ x \in ArrayRecord /\ x.by = BridgeFamily /\ x.elem = array[a].elem /\ x.len = n
       /\ x.slots = s
  <2>1. IF n = Null THEN n = 0 /\ n = 0 ELSE n <= n /\ n = AtLeastOne(n) /\ Len(s) = n
    BY <1>8, <1>12
  <2>2. hybrid \in BOOLEAN /\ n \in Nat \cup {Null} BY <1>1 DEF Types
  <2>3. PICK c \in {"int", "string", "struct"} : c = array[a].elem BY <1>3
  <2>4. x = NewArray(n, n, n, s, c) BY <1>9, <2>3
  <2>5. x \in ArrayRecord /\ x.by = BridgeFamily /\ x.elem = c /\ x.len = n /\ x.slots = s
    BY <1>12, <2>1, <2>2, <2>4, MadeArray
  <2> QED BY <2>3, <2>5
<1>14. PICK h \in Headers \ Arrays : h = FreshHeader BY FreshArray
<1>15. \A y \in Blocks : heap'[y] = IF \E k \in D : copy[k] = y THEN Leaf(x.elem, "libc") ELSE heap[y]
  <2>1. \A y : y \in Range(copy) <=> \E k \in D : copy[k] = y BY <1>5 DEF Range
  <2> QED BY <1>10, <1>13, <2>1
<1>16. heap' \in [Blocks -> Block]
  <2>1. Leaf(x.elem, "libc") \in Block BY <1>3, <1>13 DEF Leaf, Block, LeafBlock
  <2>2. \A y \in Blocks : heap'[y] \in Block BY <1>1, <1>15, <2>1 DEF Types
  <2>3. heap' = [y \in Blocks |-> heap'[y]] BY <1>10
  <2> QED BY <2>2, <2>3
<1>17. \A k \in D : k \in 1 .. x.len BY <1>3, <1>8, <1>13
<1>18. \A k \in 1 .. x.len : x.slots[k].ptr = IF k \in D THEN copy[k] ELSE Null
  BY <1>8, <1>11, <1>13
<1>19. array' = [array EXCEPT ![h] = x] /\ held' = held \cup {h} BY <1>10, <1>14
<1>20. Cloning(h, x, D, copy)
  BY <1>3, <1>5, <1>6, <1>13, <1>15, <1>16, <1>17, <1>18, <1>19 DEF Cloning
<1>21. Heap' BY <1>1, <1>20, CloneArray
<1> QED BY <1>21 DEF IndInv

\* kira_array_clone.
LEMMA ArrayCloneStep ==
  ASSUME IndInv, NEW a \in Arrays, NEW failed, ArrayClone(a, failed)
  PROVE  IndInv'
<1>1. Heap /\ Types BY DEF IndInv, Heap
<1>2. /\ UNCHANGED <<hybrid, locals, field, registry, running, fault>>
      /\ ~hybrid /\ failed \in SUBSET ToCopy(a)
  BY DEF ArrayClone, Quiet
<1>3. array[a].elem \in {"string", "struct"} BY <1>1, <1>2, ArrayFacts DEF Heap, Families
<1>4. starved \in BOOLEAN BY <1>1 DEF Types
<1>5. CASE starved' = TRUE /\ UNCHANGED <<array, heap, held>>
  <2>1. Fields' BY <1>1, <1>2, <1>5 DEF Heap, Fields, Arrays
  <2>2. held' \subseteq Headers /\ field' \in Headers \cup {Null} BY <1>1, <1>2, <1>5 DEF Types
  <2>3. Heap' BY <1>1, <1>2, <1>5, <2>1, <2>2, Same
  <2> QED BY <1>2, <2>3 DEF IndInv
<1>6. CASE /\ Arrays # Headers /\ held' = held \cup {FreshHeader}
           /\ CloneItems(a, failed) /\ starved' = (starved \/ failed # {})
  <2>1. starved' \in BOOLEAN /\ (starved => starved') BY <1>4, <1>6
  <2> QED BY <1>2, <1>6, <2>1, CloneItemsStep
<1>7. CASE /\ Arrays # Headers /\ held' = held \cup {FreshHeader}
           /\ starved' = (starved \/ array[a].len > 0) /\ UNCHANGED heap
           /\ array' = [array EXCEPT ![FreshHeader] = NewArray(0, 0, Null, <<>>, array[a].elem)]
  <2>1. starved' \in BOOLEAN /\ (starved => starved') BY <1>4, <1>7
  <2>2. PICK c \in {"string", "struct"} : c = array[a].elem BY <1>3
  <2>3. array' = [array EXCEPT ![FreshHeader] = NewArray(0, 0, Null, <<>>, c)] BY <1>7, <2>2
  <2> QED BY <1>2, <1>7, <2>1, <2>3, EmptyArray
<1> QED BY <1>5, <1>6, <1>7 DEF ArrayClone

\* Every element of an array, its items and its header are released.
LEMMA Released ==
  ASSUME IndInv, NEW a \in Arrays, ReleaseAll(a),
         held' \subseteq Headers, field' \in Headers \cup {Null},
         Arrays \ {a} = held' \cup ({field'} \ {Null}), field' \notin held',
         UNCHANGED <<hybrid, locals, registry, running, starved>>
  PROVE  IndInv'
<1>1. Heap /\ Types /\ ~fault BY DEF IndInv, Heap
<1>2. /\ array' = [array EXCEPT ![a] = NoArray] /\ heap' = Without(ElementFrees(a))
      /\ fault' = (fault \/ Misused(ElementFrees(a)) \/ ItemsMisused(a, SizeByCapacity(a)))
  BY DEF ReleaseAll
<1>3. PICK P : P = {y \in Blocks : \E k : InSlot(a, k, y)} OBVIOUS
<1>4. PICK frees : frees = ElementFrees(a) OBVIOUS
<1>5. \A f : f \in frees <=> \E k \in 1 .. array[a].len : f \in Owned(array[a].slots[k])
  <2>1. \A k \in 1 .. array[a].len : Elems(a)[k] = array[a].slots[k] BY <1>1, SlotFacts
  <2>2. \A f : f \in frees <=> \E k \in 1 .. array[a].len : f \in Owned(Elems(a)[k])
    BY <1>4 DEF ElementFrees
  <2> QED BY <2>1, <2>2
<1>6. \A f \in frees : f.by = "libc" /\ f.block \in P
  <2> SUFFICES ASSUME NEW f \in frees PROVE f.by = "libc" /\ f.block \in P
    OBVIOUS
  <2>1. PICK k \in 1 .. array[a].len : f \in Owned(array[a].slots[k]) BY <1>5
  <2>2. PICK y : y = array[a].slots[k].ptr OBVIOUS
  <2>3. y # Null BY <1>1, <2>1, <2>2, SlotOwns
  <2>4. Owned(array[a].slots[k]) = {Gone(y, "libc")} /\ y \in Blocks /\ InSlot(a, k, y)
    BY <1>1, <2>2, <2>3, SlotOwns
  <2>5. f = Gone(y, "libc") BY <2>1, <2>4
  <2>6. f.by = "libc" /\ f.block = y BY <2>5 DEF Gone
  <2> QED BY <1>3, <2>4, <2>6
<1>7. ASSUME NEW y \in P
      PROVE  /\ y \in Blocks /\ Kind(y) \in {"string", "struct", "token"}
             /\ \E f \in frees : f.block = y
  <2>1. y \in Blocks BY <1>3
  <2>2. PICK k : InSlot(a, k, y) BY <1>3
  <2>3. k \in 1 .. array[a].len /\ array[a].slots[k].ptr = y BY <2>2 DEF InSlot
  <2>4. y # Null BY <2>1, ValuesAssumption
  <2>5. Owned(array[a].slots[k]) = {Gone(y, "libc")} /\ Kind(y) \in {"string", "struct"}
    BY <1>1, <2>3, <2>4, SlotOwns
  <2>6. Gone(y, "libc") \in frees BY <1>5, <2>3, <2>5
  <2>7. Gone(y, "libc").block = y BY DEF Gone
  <2> QED BY <2>1, <2>5, <2>6, <2>7
<1>8. /\ ~Misused(frees) /\ Without(frees) \in [Blocks -> Block]
      /\ \A y \in Blocks : Without(frees)[y] = IF y \in P THEN NoBlock ELSE heap[y]
  BY <1>1, <1>6, <1>7, FreeMany
<1>9. ~ItemsMisused(a, SizeByCapacity(a)) BY <1>1, ItemsFreed
<1>10. ~fault' BY <1>1, <1>2, <1>4, <1>8, <1>9
<1>11. /\ heap' \in [Blocks -> Block]
       /\ \A y \in Blocks : heap'[y] = IF \E k : InSlot(a, k, y) THEN NoBlock ELSE heap[y]
  BY <1>2, <1>3, <1>4, <1>8
<1>12. array' = [array EXCEPT ![a] = NoArray] BY <1>2
<1>13. Heap' BY <1>1, <1>11, <1>12, DropArray
<1> QED BY <1>10, <1>13 DEF IndInv

\* kira_array_release.
LEMMA ArrayReleaseStep ==
  ASSUME IndInv, NEW a \in Arrays, ArrayRelease(a)
  PROVE  IndInv'
<1>1. Heap /\ Types BY DEF IndInv, Heap
<1>2. /\ UNCHANGED <<hybrid, locals, field, registry, running, starved>> /\ a \in held
      /\ ReleaseAll(a) /\ held' = held \ {a}
  BY DEF ArrayRelease, Quiet
<1>3. /\ held' \subseteq Headers /\ field' \in Headers \cup {Null}
      /\ Arrays \ {a} = held' \cup ({field'} \ {Null}) /\ field' \notin held'
  BY <1>1, <1>2 DEF Types, Heap, Fields
<1> QED BY <1>2, <1>3, Released

\* kira_array_release_replaced.
LEMMA SetFieldStep ==
  ASSUME IndInv, NEW a \in Arrays, SetField(a)
  PROVE  IndInv'
<1>1. Heap /\ Types BY DEF IndInv, Heap
<1>2. /\ UNCHANGED <<hybrid, locals, registry, running, starved>> /\ a \in held \cup {field}
      /\ field' = a /\ held' = held \ {a}
  BY DEF SetField, Quiet
<1>3. a \in Headers /\ a # Null /\ field \notin held /\ Arrays = held \cup ({field} \ {Null})
  BY <1>1, ValuesAssumption DEF Heap, Fields, Arrays
<1>4. held' \subseteq Headers /\ field' \in Headers \cup {Null} BY <1>1, <1>2, <1>3 DEF Types
<1>5. CASE IsReplaced(field, a)
  <2>1. field # Null /\ field # a /\ ReleaseAll(field) BY <1>5 DEF IsReplaced, SetField
  <2>2. PICK c \in Arrays : c = field BY <1>3, <2>1
  <2>3. /\ Arrays \ {c} = held' \cup ({field'} \ {Null}) /\ field' \notin held'
    BY <1>2, <1>3, <2>1, <2>2
  <2>4. ReleaseAll(c) BY <2>1, <2>2
  <2> QED BY <1>2, <1>4, <2>3, <2>4, Released
<1>6. CASE ~IsReplaced(field, a)
  <2>1. UNCHANGED <<array, heap, fault>> BY <1>6 DEF SetField
  <2>2. Arrays' = Arrays BY <2>1 DEF Arrays
  <2>3. Fields' BY <1>2, <1>3, <1>6, <2>2 DEF Fields, IsReplaced
  <2>4. starved' \in BOOLEAN /\ (starved => starved') BY <1>1, <1>2 DEF Types
  <2>5. Heap' BY <1>1, <1>2, <1>4, <2>1, <2>3, <2>4, Same
  <2> QED BY <2>1, <2>5 DEF IndInv
<1> QED BY <1>5, <1>6

-----------------------------------------------------------------------------
(* The actions: tokens, exit and text.                                     *)

\* kira_native_state_alloc.
LEMMA StateAllocStep ==
  ASSUME IndInv, NEW tracked \in BOOLEAN, StateAlloc(tracked)
  PROVE  IndInv'
<1>1. Heap /\ Types BY DEF IndInv, Heap
<1>2. /\ UNCHANGED <<hybrid, array, locals, held, field, running, fault>> /\ running
  BY DEF StateAlloc, Busy
<1>3. starved \in BOOLEAN BY <1>1 DEF Types
<1>4. CASE starved' = TRUE /\ UNCHANGED <<heap, registry>>
  <2>1. Fields' BY <1>1, <1>2 DEF Heap, Fields, Arrays
  <2>2. held' \subseteq Headers /\ field' \in Headers \cup {Null} BY <1>1, <1>2 DEF Types
  <2>3. Heap' BY <1>1, <1>2, <1>4, <2>1, <2>2, Same
  <2> QED BY <1>2, <2>3 DEF IndInv
<1>5. CASE /\ Room
           /\ heap' = [heap EXCEPT ![Fresh] = [kind |-> "token", by |-> "libc", inside |-> Null]]
           /\ registry' = IF tracked THEN Listed(Fresh) ELSE registry
           /\ starved' = (starved \/ ~tracked)
  <2>1. PICK x \in Blocks : x = Fresh /\ Kind(x) = "none" BY <1>1, <1>5, FreshBlock
  <2>2. /\ heap' = [heap EXCEPT ![x] = [kind |-> "token", by |-> "libc", inside |-> Null]]
        /\ registry' = <<x>> \o registry \/ (registry' = registry /\ starved')
        /\ starved' \in BOOLEAN /\ (starved => starved')
    BY <1>3, <1>5, <2>1 DEF Listed
  <2>3. Heap' BY <1>1, <1>2, <2>1, <2>2, AddToken
  <2> QED BY <1>2, <2>3 DEF IndInv
<1> QED BY <1>4, <1>5 DEF StateAlloc

\* A string moved into a token.
LEMMA StateStoreStep ==
  ASSUME IndInv, NEW t \in Tokens, NEW b \in locals, StateStore(t, b)
  PROVE  IndInv'
<1>1. Heap BY DEF IndInv
<1>2. t \in Blocks /\ Kind(t) = "token" BY DEF Tokens, Live, Kind
<1>3. /\ heap[t].inside = Null /\ Kind(b) = "string"
      /\ heap' = [heap EXCEPT ![t].inside = b] /\ locals' = locals \ {b}
      /\ UNCHANGED <<hybrid, array, held, field, registry, running, starved>> /\ fault' = fault
  BY DEF StateStore, Quiet, Kind
<1>4. Heap' BY <1>1, <1>2, <1>3, StoreToken
<1> QED BY <1>3, <1>4 DEF IndInv

\* What disposing of a token releases: the token and the string in its payload.
LEMMA DisposeFacts ==
  ASSUME Heap, NEW t \in Blocks, Kind(t) = "token"
  PROVE  /\ \A f \in DisposeFrees(t) : f.by = "libc" /\ (f.block = t \/ InToken(t, f.block))
         /\ \E f \in DisposeFrees(t) : f.block = t
         /\ \A y \in Blocks : InToken(t, y) =>
              /\ Kind(y) = "string" /\ \E f \in DisposeFrees(t) : f.block = y
         /\ \A f \in DisposeFrees(t) : f.block \in Blocks
<1>1. heap[t].inside \in Blocks \cup {Null} BY BlockFacts DEF Heap
<1>2. Null \notin Blocks BY ValuesAssumption
<1>3. \A y, by : Gone(y, by).block = y /\ Gone(y, by).by = by BY DEF Gone
<1>4. \A y : InToken(t, y) <=> heap[t].inside = y BY DEF InToken
<1>5. Gone(t, "libc") \in DisposeFrees(t) BY DEF DisposeFrees
<1>6. heap[t].inside # Null => Gone(heap[t].inside, "libc") \in DisposeFrees(t) BY DEF DisposeFrees
<1>7. \A f \in DisposeFrees(t) :
        f = Gone(t, "libc") \/ (heap[t].inside # Null /\ f = Gone(heap[t].inside, "libc"))
  BY DEF DisposeFrees
<1>8. \A f \in DisposeFrees(t) : f.by = "libc" /\ (f.block = t \/ InToken(t, f.block)) BY <1>3, <1>4, <1>7
<1>9. \E f \in DisposeFrees(t) : f.block = t BY <1>3, <1>5
<1>10. \A y \in Blocks : InToken(t, y) => \E f \in DisposeFrees(t) : f.block = y
  BY <1>2, <1>3, <1>4, <1>6
<1>11. \A y \in Blocks : InToken(t, y) => Kind(y) = "string" BY DEF Heap, Sound
<1>12. \A f \in DisposeFrees(t) : f.block \in Blocks BY <1>1, <1>3, <1>7
<1> QED BY <1>8, <1>9, <1>10, <1>11, <1>12

\* Tokens D are disposed of.
LEMMA Disposed ==
  ASSUME Heap, NEW D, D \subseteq Blocks, \A t \in D : Kind(t) = "token",
         NEW frees, \A f : f \in frees <=> \E t \in D : f \in DisposeFrees(t)
  PROVE  /\ ~Misused(frees) /\ Without(frees) \in [Blocks -> Block]
         /\ \A y \in Blocks : Without(frees)[y] =
              IF y \in D \/ (\E t \in D : InToken(t, y)) THEN NoBlock ELSE heap[y]
<1>1. Heap OBVIOUS
<1>2. PICK P : P = {y \in Blocks : y \in D \/ \E t \in D : InToken(t, y)} OBVIOUS
<1>3. \A f : f \in frees <=> \E t \in D : f \in DisposeFrees(t) OBVIOUS
<1>z. \A y \in Blocks : y \in P <=> y \in D \/ (\E t \in D : InToken(t, y)) BY <1>2
<1>4. \A f \in frees : f.by = "libc" /\ f.block \in P
  <2> SUFFICES ASSUME NEW f \in frees PROVE f.by = "libc" /\ f.block \in P
    OBVIOUS
  <2>1. PICK t \in D : f \in DisposeFrees(t) BY <1>3
  <2>2. t \in Blocks /\ Kind(t) = "token" BY <2>1
  <2>3. f.by = "libc" /\ (f.block = t \/ InToken(t, f.block)) /\ f.block \in Blocks
    BY <1>1, <2>1, <2>2, DisposeFacts
  <2> QED BY <1>2, <2>1, <2>3
<1>5. ASSUME NEW y \in P
      PROVE  /\ y \in Blocks /\ Kind(y) \in {"string", "struct", "token"}
             /\ \E f \in frees : f.block = y
  <2>1. y \in Blocks BY <1>2
  <2>2. CASE y \in D
    <3>1. Kind(y) = "token" BY <2>2
    <3>2. \E f \in DisposeFrees(y) : f.block = y BY <1>1, <2>1, <3>1, DisposeFacts
    <3> QED BY <1>3, <2>1, <2>2, <3>1, <3>2
  <2>3. CASE \E t \in D : InToken(t, y)
    <3>1. PICK t \in D : InToken(t, y) BY <2>3
    <3>2. t \in Blocks /\ Kind(t) = "token" BY <3>1
    <3>3. Kind(y) = "string" /\ \E f \in DisposeFrees(t) : f.block = y
      BY <1>1, <2>1, <3>1, <3>2, DisposeFacts
    <3> QED BY <1>3, <2>1, <3>1, <3>3
  <2> QED BY <1>2, <2>2, <2>3
<1>6. /\ ~Misused(frees) /\ Without(frees) \in [Blocks -> Block]
      /\ \A y \in Blocks : Without(frees)[y] = IF y \in P THEN NoBlock ELSE heap[y]
  BY <1>1, <1>4, <1>5, FreeMany
<1> QED BY <1>6, <1>z

\* kira_native_state_free.
LEMMA StateFreeStep ==
  ASSUME IndInv, NEW t \in Tokens, StateFree(t)
  PROVE  IndInv'
<1>1. Heap /\ Types BY DEF IndInv, Heap
<1>2. t \in Blocks /\ Kind(t) = "token" BY DEF Tokens, Live, Kind
<1>3. /\ UNCHANGED <<hybrid, array, locals, held, field, running, starved>>
      /\ registry' = RemoveFirst(registry, t)
      /\ heap' = Without(DisposeFrees(t)) /\ fault' = (fault \/ Misused(DisposeFrees(t)))
  BY DEF StateFree, Unlinked
<1>4. PICK D : D = {t} OBVIOUS
<1>5. D \subseteq Blocks /\ \A u \in D : Kind(u) = "token" BY <1>2, <1>4
<1>6. PICK frees : frees = DisposeFrees(t) OBVIOUS
<1>7. \A f : f \in frees <=> \E u \in D : f \in DisposeFrees(u) BY <1>4, <1>6
<1>8. heap' = Without(frees) /\ fault' = (fault \/ Misused(frees)) BY <1>3, <1>6
<1>9. /\ ~fault' /\ heap' \in [Blocks -> Block]
      /\ \A y \in Blocks : heap'[y] = IF y \in D \/ (\E u \in D : InToken(u, y)) THEN NoBlock
                                     ELSE heap[y]
  <2>1. /\ ~Misused(frees) /\ Without(frees) \in [Blocks -> Block]
        /\ \A y \in Blocks : Without(frees)[y] =
             IF y \in D \/ (\E u \in D : InToken(u, y)) THEN NoBlock ELSE heap[y]
    BY <1>1, <1>5, <1>7, Disposed
  <2> QED BY <1>8, <2>1 DEF IndInv
<1>10. /\ registry \in Seq(Blocks)
       /\ \A i, j \in 1 .. Len(registry) : registry[i] = registry[j] => i = j
  BY <1>1 DEF Types, Heap, Listing
<1>11. PICK r : r = RemoveFirst(registry, t) OBVIOUS
<1>12. /\ r \in Seq(Blocks)
       /\ \A i, j \in 1 .. Len(r) : r[i] = r[j] => i = j
       /\ \A i \in 1 .. Len(r) : r[i] # t /\ \E j \in 1 .. Len(registry) : registry[j] = r[i]
       /\ \A j \in 1 .. Len(registry) : registry[j] # t => \E i \in 1 .. Len(r) : r[i] = registry[j]
  BY <1>10, <1>11, RemovedOnce
<1>13. registry' = r BY <1>3, <1>11
<1>14. \A y \in Blocks : Kind(y) = "token" => (InToken(t, y) <=> FALSE)
  BY <1>1, Unowned
<1>15. \A y \in Blocks : heap'[y].kind = "token" <=> heap[y].kind = "token" /\ y # t
  <2>1. NoBlock.kind = "none" BY DEF NoBlock
  <2> QED BY <1>2, <1>4, <1>9, <1>14, <2>1 DEF Kind
<1>16. Listing'
  <2>1. ASSUME NEW i \in 1 .. Len(r) PROVE heap'[r[i]].kind = "token"
    <3>1. PICK j \in 1 .. Len(registry) : registry[j] = r[i] BY <1>12
    <3>2. registry[j] \in Blocks /\ heap[registry[j]].kind = "token"
      BY <1>1, <1>10 DEF Heap, Listing, Kind
    <3> QED BY <1>12, <1>15, <3>1, <3>2
  <2>2. ASSUME running', ~starved', NEW u \in Blocks, heap'[u].kind = "token"
        PROVE  \E i \in 1 .. Len(r) : r[i] = u
    <3>1. heap[u].kind = "token" /\ u # t BY <1>15, <2>2
    <3>2. PICK j \in 1 .. Len(registry) : registry[j] = u
      BY <1>1, <1>3, <2>2, <3>1 DEF Heap, Listing, Kind
    <3> QED BY <1>12, <3>1, <3>2
  <2> QED BY <1>12, <1>13, <2>1, <2>2 DEF Listing, Kind
<1>17. running' \in BOOLEAN /\ running' = running BY <1>1, <1>3 DEF Types
<1>18. registry' \in Seq(Blocks) BY <1>12, <1>13
<1>19. UNCHANGED <<hybrid, array, locals, held, field, starved>> BY <1>3
<1>20. Heap' BY <1>1, <1>5, <1>9, <1>16, <1>17, <1>18, <1>19, DropTokens
<1> QED BY <1>9, <1>20 DEF IndInv

\* exit and the teardown of the registry.
LEMMA ExitStep ==
  ASSUME IndInv, Exit
  PROVE  IndInv'
<1>1. Heap /\ Types BY DEF IndInv, Heap
<1>2. PICK D : D = ToSet(registry) OBVIOUS
<1>3. \A t : t \in D <=> \E i \in 1 .. Len(registry) : registry[i] = t
  BY <1>1, <1>2 DEF ToSet, Types
<1>4. D \subseteq Blocks /\ \A t \in D : Kind(t) = "token"
  BY <1>1, <1>3 DEF Heap, Types, Listing
<1>5. \A t \in D : t \in Live BY <1>4 DEF Live, Kind
<1>6. PICK frees : frees = UNION {DisposeFrees(t) : t \in D} OBVIOUS
<1>7. frees = UNION {IF t \in Live THEN DisposeFrees(t) ELSE {Gone(t, "libc")} : t \in D}
  BY <1>5, <1>6
<1>8. /\ heap' = Without(frees) /\ fault' = (fault \/ Misused(frees))
      /\ running /\ running' = FALSE /\ registry' = <<>>
      /\ UNCHANGED <<hybrid, array, locals, held, field, starved>>
  BY <1>2, <1>7 DEF Exit, Busy
<1>9. /\ ~fault' /\ heap' \in [Blocks -> Block]
      /\ \A y \in Blocks : heap'[y] = IF y \in D \/ (\E u \in D : InToken(u, y)) THEN NoBlock
                                     ELSE heap[y]
  <2>1. \A f : f \in frees <=> \E t \in D : f \in DisposeFrees(t) BY <1>6
  <2>2. /\ ~Misused(frees) /\ Without(frees) \in [Blocks -> Block]
        /\ \A y \in Blocks : Without(frees)[y] =
             IF y \in D \/ (\E u \in D : InToken(u, y)) THEN NoBlock ELSE heap[y]
    BY <1>1, <1>4, <2>1, Disposed
  <2> QED BY <1>8, <2>2 DEF IndInv
<1>10. Listing' BY <1>8 DEF Listing
<1>11. ~starved => \A t \in Blocks : Kind(t) = "token" => t \in D
  BY <1>1, <1>3, <1>8 DEF Heap, Listing
<1>12. registry' \in Seq(Blocks) /\ running' \in BOOLEAN
  <2>1. <<>> \in Seq(Blocks) OBVIOUS
  <2>2. registry' = <<>> /\ running' = FALSE BY <1>8
  <2> QED BY <2>1, <2>2
<1>13. UNCHANGED <<hybrid, array, locals, held, field, starved>> BY <1>8
<1>14. Heap' BY <1>1, <1>4, <1>9, <1>10, <1>11, <1>12, <1>13, DropTokens
<1> QED BY <1>9, <1>14 DEF IndInv

\* A step that touches no memory.
LEMMA MemoryStays ==
  ASSUME IndInv,
         UNCHANGED <<hybrid, heap, array, locals, held, field, registry, running, starved, fault>>
  PROVE  IndInv'
<1>1. Heap /\ Types BY DEF IndInv, Heap
<1>2. Fields' BY <1>1 DEF Heap, Fields, Arrays
<1>3. held' \subseteq Headers /\ field' \in Headers \cup {Null} BY <1>1 DEF Types
<1>4. starved' \in BOOLEAN /\ (starved => starved') BY <1>1 DEF Types
<1>5. Heap' BY <1>1, <1>2, <1>3, <1>4, Same
<1> QED BY <1>5 DEF IndInv

-----------------------------------------------------------------------------
(* The list of exported closures, over the actions that make and release   *)
(* none.                                                                   *)

\* Such a step keeps the list right.
LEMMA ExportsStay ==
  ASSUME Exports, OtherKinds, exported_native_closures' = exported_native_closures
  PROVE  Exports'
BY DEF Exports, OtherKinds, Kind

\* Releases of other blocks.
LEMMA OthersFreed ==
  ASSUME NEW frees, heap' = Without(frees), \A f \in frees : Kind(f.block) # "closure"
  PROVE  OtherKinds
<1>1. \A b \in Blocks : heap'[b] = IF \E f \in frees : f.block = b THEN NoBlock ELSE heap[b]
  BY DEF Without
<1>2. NoBlock.kind # "closure" BY DEF NoBlock
<1> QED BY <1>1, <1>2 DEF OtherKinds, Kind

\* One release of another block.
LEMMA OtherFreed ==
  ASSUME NEW b, Kind(b) # "closure", heap' = Without({Gone(b, "libc")})
  PROVE  OtherKinds
<1>1. \A f \in {Gone(b, "libc")} : Kind(f.block) # "closure" BY DEF Gone
<1> QED BY <1>1, OthersFreed

\* What an array owns is no closure.
LEMMA SlotsAreOther ==
  ASSUME Heap, NEW a \in Arrays, NEW k \in 1 .. array[a].len, NEW f \in Owned(Elems(a)[k])
  PROVE  Kind(f.block) # "closure"
<1>1. Elems(a)[k] = array[a].slots[k] BY SlotFacts DEF Heap
<1>2. PICK y : y = array[a].slots[k].ptr OBVIOUS
<1>3. y # Null BY <1>1, <1>2, SlotOwns
<1>4. Owned(array[a].slots[k]) = {Gone(y, "libc")} /\ Kind(y) \in {"string", "struct"}
  BY <1>2, <1>3, SlotOwns
<1>5. f.block = y BY <1>1, <1>4 DEF Gone
<1> QED BY <1>4, <1>5

\* The release of an array.
LEMMA ReleaseAllKinds ==
  ASSUME Heap, NEW a \in Arrays, ReleaseAll(a)
  PROVE  OtherKinds
<1>1. \A f \in ElementFrees(a) : Kind(f.block) # "closure"
  BY SlotsAreOther DEF ElementFrees
<1> QED BY <1>1, OthersFreed DEF ReleaseAll

\* A store: of the element an array held, or of one rejected.
LEMMA StoreKinds ==
  ASSUME IndInv, NEW a \in Arrays, NEW index \in Indices(a), NEW e, ArrayStore(a, index, e),
         hybrid \/ \A f \in Owned(e) : Kind(f.block) # "closure"
  PROVE  OtherKinds
<1>1. Heap BY DEF IndInv
<1>2. array[a].len \in Nat BY <1>1, ArrayFacts DEF Heap
<1>3. CASE hybrid
  <2>1. heap' = Without({}) BY <1>3 DEF ArrayStore
  <2> QED BY <2>1, OthersFreed
<1>4. CASE ~hybrid /\ index >= 0 /\ index < array[a].len
  <2>1. PICK k \in 1 .. array[a].len : k = index + 1 BY <1>2, <1>4 DEF Indices
  <2>2. heap' = Without(Replaced(Elems(a)[k], e)) BY <1>4, <2>1 DEF ArrayStore
  <2>3. \A f \in Owned(Elems(a)[k]) : Kind(f.block) # "closure" BY <1>1, SlotsAreOther
  <2>4. \A f \in Replaced(Elems(a)[k], e) : Kind(f.block) # "closure" BY <2>3 DEF Replaced
  <2> QED BY <2>2, <2>4, OthersFreed
<1>5. CASE ~hybrid /\ ~(index >= 0 /\ index < array[a].len)
  <2>1. heap' = Without(Rejected(e)) BY <1>5 DEF ArrayStore
  <2> QED BY <1>5, <2>1, OthersFreed DEF Rejected
<1> QED BY <1>3, <1>4, <1>5

\* kira_array_store_release.
LEMMA ArrayStoreReleaseKinds ==
  ASSUME IndInv, NEW a \in Arrays, NEW index \in Indices(a), NEW b \in locals \cup {Null},
         ArrayStoreRelease(a, index, b)
  PROVE  OtherKinds
<1>1. Heap /\ Types BY DEF IndInv, Heap
<1>2. Passed(a, b) /\ ArrayStore(a, index, ValueOf(b)) BY DEF ArrayStoreRelease
<1>3. PICK e : e = ValueOf(b) OBVIOUS
<1>4. CASE b = Null
  <2>1. hybrid BY <1>1, <1>2, <1>4, PassedFacts
  <2> QED BY <1>2, <1>3, <2>1, StoreKinds
<1>5. CASE b # Null
  <2>1. b \in Blocks /\ Kind(b) = array[a].elem /\ ~hybrid /\ e = ElementOf(b)
    BY <1>1, <1>2, <1>3, <1>5, PassedFacts DEF ValueOf
  <2>2. Kind(b) # "closure" BY <1>1, <2>1, ArrayFacts
  <2>3. Owned(e) = {Gone(b, "libc")} BY <2>1, ElementOwns
  <2>4. \A f \in Owned(e) : Kind(f.block) # "closure" BY <2>2, <2>3 DEF Gone
  <2> QED BY <1>2, <1>3, <2>4, StoreKinds
<1> QED BY <1>4, <1>5

\* The same element stored back.
LEMMA ArrayStoreBackKinds ==
  ASSUME IndInv, NEW a \in Arrays, NEW index \in Indices(a), ArrayStoreBack(a, index)
  PROVE  OtherKinds
<1>1. Heap /\ array[a].len \in Nat BY ArrayFacts DEF IndInv, Heap
<1>2. index \in 0 .. array[a].len - 1 /\ ArrayStore(a, index, Elems(a)[index + 1])
  BY DEF ArrayStoreBack
<1>3. PICK k \in 1 .. array[a].len : k = index + 1 BY <1>1, <1>2
<1>4. PICK e : e = Elems(a)[k] OBVIOUS
<1>5. \A f \in Owned(e) : Kind(f.block) # "closure" BY <1>1, <1>4, SlotsAreOther
<1> QED BY <1>2, <1>3, <1>4, <1>5, StoreKinds

\* kira_array_clone.
LEMMA ArrayCloneKinds ==
  ASSUME IndInv, NEW a \in Arrays, NEW failed, ArrayClone(a, failed)
  PROVE  OtherKinds
<1>1. Heap /\ Types /\ ~hybrid BY DEF IndInv, Heap, ArrayClone
<1>2. array[a].elem \in {"string", "struct"} BY <1>1, ArrayFacts DEF Heap, Families
<1>3. CASE UNCHANGED heap BY <1>3 DEF OtherKinds
<1>4. CASE CloneItems(a, failed)
  <2>1. PICK D : D = ToCopy(a) \ failed OBVIOUS
  <2>2. PICK copy : /\ copy = CHOOSE f \in Injection(D, Blocks \ Live) : TRUE
                    /\ copy \in Injection(D, Blocks \ Live)
    BY <1>4, <2>1 DEF CloneItems
  <2>3. heap' = [b \in Blocks |-> IF b \in Range(copy) THEN Leaf(array[a].elem, "libc") ELSE heap[b]]
    BY <1>4, <2>1, <2>2 DEF CloneItems
  <2>4. copy \in [D -> Blocks \ Live] BY <2>2 DEF Injection
  <2>5. \A b \in Range(copy) : b \notin Live BY <2>4 DEF Range
  <2>6. \A b \in Range(copy) \cap Blocks : Kind(b) = "none" BY <2>5 DEF Live, Kind
  <2>7. Leaf(array[a].elem, "libc").kind # "closure" BY <1>2 DEF Leaf
  <2> QED BY <2>3, <2>6, <2>7 DEF OtherKinds, Kind
<1> QED BY <1>3, <1>4 DEF ArrayClone

\* What disposing of a token releases is no closure.
LEMMA TokensAreOther ==
  ASSUME Heap, NEW t \in Blocks, Kind(t) = "token", NEW f \in DisposeFrees(t)
  PROVE  Kind(f.block) # "closure"
<1>1. f.block \in Blocks /\ (f.block = t \/ InToken(t, f.block)) BY DisposeFacts
<1>2. InToken(t, f.block) => Kind(f.block) = "string" BY <1>1, DisposeFacts
<1> QED BY <1>1, <1>2

\* kira_native_state_alloc, and a string moved into a token.
LEMMA StateKinds ==
  ASSUME IndInv,
         \/ \E tracked \in BOOLEAN : StateAlloc(tracked)
         \/ \E t \in Tokens, b \in locals : StateStore(t, b)
  PROVE  OtherKinds
<1>1. Heap /\ Types BY DEF IndInv, Heap
<1>2. ASSUME NEW tracked \in BOOLEAN, StateAlloc(tracked) PROVE OtherKinds
  <2>1. CASE UNCHANGED heap BY <2>1 DEF OtherKinds
  <2>2. CASE Room /\ heap' = [heap EXCEPT ![Fresh] = [kind |-> "token", by |-> "libc", inside |-> Null]]
    <3>1. PICK x \in Blocks : x = Fresh /\ Kind(x) = "none" BY <1>1, <2>2, FreshBlock
    <3>2. PICK r : r = [kind |-> "token", by |-> "libc", inside |-> Null] OBVIOUS
    <3>3. \A b \in Blocks : heap'[b] = IF b = x THEN r ELSE heap[b] BY <1>1, <2>2, <3>1, <3>2 DEF Types
    <3>4. r.kind # "closure" BY <3>2
    <3> QED BY <3>1, <3>3, <3>4 DEF OtherKinds, Kind
  <2> QED BY <1>2, <2>1, <2>2 DEF StateAlloc
<1>3. ASSUME NEW t \in Tokens, NEW b \in locals, StateStore(t, b) PROVE OtherKinds
  <2>1. t \in Blocks /\ Kind(t) = "token" BY DEF Tokens, Live, Kind
  <2>2. heap' = [heap EXCEPT ![t].inside = b] BY <1>3 DEF StateStore
  <2>3. heap[t] \in TokenBlock BY <1>1, <2>1, BlockFacts
  <2>4. PICK r : r = [heap[t] EXCEPT !.inside = b] OBVIOUS
  <2>5. r.kind = "token" BY <2>3, <2>4 DEF TokenBlock
  <2>6. \A y \in Blocks : heap'[y] = IF y = t THEN r ELSE heap[y] BY <1>1, <2>2, <2>4 DEF Types
  <2> QED BY <2>1, <2>5, <2>6 DEF OtherKinds, Kind
<1> QED BY <1>2, <1>3

\* kira_native_state_free and exit.
LEMMA StateFreeKinds ==
  ASSUME IndInv, (\E t \in Tokens : StateFree(t)) \/ Exit
  PROVE  OtherKinds
<1>1. Heap /\ Types BY DEF IndInv, Heap
<1>2. ASSUME NEW t \in Tokens, StateFree(t) PROVE OtherKinds
  <2>1. t \in Blocks /\ Kind(t) = "token" BY DEF Tokens, Live, Kind
  <2>2. \A f \in DisposeFrees(t) : Kind(f.block) # "closure" BY <1>1, <2>1, TokensAreOther
  <2> QED BY <1>2, <2>2, OthersFreed DEF StateFree
<1>3. ASSUME Exit PROVE OtherKinds
  <2>1. \A t \in ToSet(registry) : t \in Blocks /\ Kind(t) = "token"
    BY <1>1 DEF ToSet, Heap, Types, Listing
  <2>2. \A t \in ToSet(registry) : t \in Live BY <2>1 DEF Live, Kind
  <2>3. PICK frees : frees = UNION {IF t \in Live THEN DisposeFrees(t) ELSE {Gone(t, "libc")} :
                                      t \in ToSet(registry)}
    OBVIOUS
  <2>4. ASSUME NEW f \in frees PROVE Kind(f.block) # "closure"
    <3>1. PICK t \in ToSet(registry) : f \in DisposeFrees(t) BY <2>2, <2>3
    <3>2. t \in Blocks /\ Kind(t) = "token" BY <2>1, <3>1
    <3> QED BY <1>1, <3>1, <3>2, TokensAreOther
  <2>5. heap' = Without(frees) BY <1>3, <2>3 DEF Exit
  <2> QED BY <2>4, <2>5, OthersFreed
<1> QED BY <1>2, <1>3

\* Elements made, and locals released or lost.
LEMMA LocalKinds ==
  ASSUME IndInv,
         \/ \E kind \in {"string", "struct"} : NewElement(kind)
         \/ \E b \in locals : DropElement(b) \/ NullStoreRelease(b) \/ NullAppend(b)
  PROVE  OtherKinds
<1>1. Heap /\ Types BY DEF IndInv, Heap
<1>2. ASSUME NEW kind \in {"string", "struct"}, NewElement(kind) PROVE OtherKinds
  <2>1. Room BY <1>2 DEF NewElement
  <2>2. PICK x \in Blocks : x = Fresh /\ Kind(x) = "none" BY <1>1, <2>1, FreshBlock
  <2>3. PICK r : r = Leaf(kind, "libc") OBVIOUS
  <2>6. r.kind # "closure" BY <2>3 DEF Leaf
  <2>4. heap' = [heap EXCEPT ![x] = r] BY <1>2, <2>2, <2>3 DEF NewElement
  <2>5. \A b \in Blocks : heap'[b] = IF b = x THEN r ELSE heap[b] BY <1>1, <2>4 DEF Types
  <2> QED BY <2>2, <2>5, <2>6 DEF OtherKinds, Kind
<1>3. ASSUME NEW b \in locals, DropElement(b) PROVE OtherKinds
  BY <1>3, OtherFreed DEF DropElement, Kind
<1>4. ASSUME NEW b \in locals, NullStoreRelease(b) PROVE OtherKinds
  <2>1. b \in Blocks /\ Kind(b) # "closure" BY <1>1, <1>4 DEF Types, NullStoreRelease, Kind
  <2>2. Rejected(ElementOf(b)) = {Gone(b, "libc")} BY <2>1, ElementOwns DEF Rejected
  <2>3. heap' = Without({Gone(b, "libc")}) BY <1>4, <2>2 DEF NullStoreRelease
  <2> QED BY <2>1, <2>3, OtherFreed
<1>5. ASSUME NEW b \in locals, NullAppend(b) PROVE OtherKinds
  BY <1>5 DEF NullAppend, OtherKinds
<1> QED BY <1>2, <1>3, <1>4, <1>5

\* Steps on arrays.
LEMMA ArrayKinds ==
  ASSUME IndInv, NEW a \in Arrays,
         \/ \E b \in locals \cup {Null} : ArrayAppend(a, b)
         \/ \E i \in Indices(a), b \in locals \cup {Null} : ArrayStoreRelease(a, i, b)
         \/ \E i \in Indices(a) : ArrayStoreBack(a, i) \/ ArrayTake(a, i)
         \/ \E failed \in SUBSET (1 .. array[a].len) : ArrayClone(a, failed)
         \/ ArrayRelease(a) \/ SetField(a)
  PROVE  OtherKinds
<1>0. Heap BY DEF IndInv
<1>1. CASE \E b \in locals \cup {Null} : ArrayAppend(a, b) BY <1>1 DEF ArrayAppend, OtherKinds
<1>2. CASE \E i \in Indices(a), b \in locals \cup {Null} : ArrayStoreRelease(a, i, b)
  BY <1>2, ArrayStoreReleaseKinds
<1>3. CASE \E i \in Indices(a) : ArrayStoreBack(a, i) BY <1>3, ArrayStoreBackKinds
<1>4. CASE \E i \in Indices(a) : ArrayTake(a, i) BY <1>4 DEF ArrayTake, OtherKinds
<1>5. CASE \E failed \in SUBSET (1 .. array[a].len) : ArrayClone(a, failed)
  BY <1>5, ArrayCloneKinds
<1>6. CASE ArrayRelease(a) BY <1>0, <1>6, ReleaseAllKinds DEF ArrayRelease
<1>7. CASE SetField(a)
  <2>1. CASE IsReplaced(field, a)
    <3>1. field # Null /\ ReleaseAll(field) BY <1>7, <2>1 DEF SetField, IsReplaced
    <3>2. PICK c \in Arrays : c = field BY <1>0, <3>1 DEF Heap, Fields
    <3>3. ReleaseAll(c) BY <3>1, <3>2
    <3> QED BY <1>0, <3>3, ReleaseAllKinds
  <2>2. CASE ~IsReplaced(field, a) BY <1>7, <2>2 DEF SetField, OtherKinds
  <2> QED BY <2>1, <2>2
<1> QED BY <1>1, <1>2, <1>3, <1>4, <1>5, <1>6, <1>7

-----------------------------------------------------------------------------
(* The specification.                                                      *)

\* The invariant holds at the start.
LEMMA InitHolds ==
  ASSUME Init
  PROVE  IndInv /\ Exports
<1>1. /\ heap = [b \in Blocks |-> NoBlock] /\ array = [a \in Headers |-> NoArray]
      /\ locals = {} /\ held = {} /\ field = Null /\ registry = <<>>
      /\ hybrid \in BOOLEAN /\ running = TRUE /\ starved = FALSE /\ fault = FALSE
  BY DEF Init
<1>2. \A b \in Blocks : Kind(b) = "none" BY <1>1 DEF Kind, NoBlock
<1>3. Arrays = {} BY <1>1 DEF Arrays, NoArray
<1>4. \A b : ~InLocal(b) BY <1>1 DEF InLocal
<1>5. \A t, b : ~InToken(t, b) BY <1>2 DEF InToken
<1>6. \A a, k, b : ~InSlot(a, k, b) BY <1>3 DEF InSlot
<1>7. Types
  <2>1. registry \in Seq(Blocks)
    <3>1. <<>> \in Seq(Blocks) OBVIOUS
    <3> QED BY <1>1, <3>1
  <2>2. heap \in [Blocks -> Block] BY <1>1 DEF Block
  <2>3. array \in [Headers -> {NoArray} \cup ArrayRecord] BY <1>1
  <2> QED BY <1>1, <2>1, <2>2, <2>3 DEF Types
<1>8. Single BY <1>4, <1>5, <1>6 DEF Single
<1>9. Sound BY <1>4, <1>5, <1>6 DEF Sound
<1>10. Kept BY <1>2 DEF Kept
<1>11. Families BY <1>2, <1>3 DEF Families
<1>12. Fields BY <1>1, <1>3 DEF Fields
<1>13. Listing
  <2>1. Len(registry) = 0 BY <1>1
  <2> QED BY <1>2, <2>1 DEF Listing
<1>14. Exports BY <1>2 DEF Init, Exports
<1> QED BY <1>1, <1>7, <1>8, <1>9, <1>10, <1>11, <1>12, <1>13, <1>14 DEF IndInv, Heap

\* Every action keeps the invariant.
LEMMA NextPreserves ==
  ASSUME IndInv, Exports, Next
  PROVE  IndInv' /\ Exports'
<1>1. CASE \E kind \in {"string", "struct"} : NewElement(kind)
  <2>1. exported_native_closures' = exported_native_closures BY <1>1 DEF NewElement, Quiet
  <2> QED BY <1>1, <2>1, NewElementStep, LocalKinds, ExportsStay
<1>2. CASE \E b \in locals : DropElement(b) \/ NullStoreRelease(b) \/ NullAppend(b)
  <2>1. exported_native_closures' = exported_native_closures
    BY <1>2 DEF DropElement, NullStoreRelease, NullAppend, Quiet
  <2>2. IndInv' BY <1>2, DropElementStep, NullStoreReleaseStep, NullAppendStep
  <2> QED BY <1>2, <2>1, <2>2, LocalKinds, ExportsStay
<1>3. CASE \E len \in 0 .. MaxLen, elem \in {"int", "string", "struct"}, exported \in BOOLEAN :
             ArrayAlloc(len, elem, exported)
  <2>1. PICK len \in 0 .. MaxLen, elem \in {"int", "string", "struct"}, exported \in BOOLEAN :
          ArrayAlloc(len, elem, exported)
    BY <1>3
  <2>2. len \in Nat BY ValuesAssumption
  <2>3. UNCHANGED <<heap, exported_native_closures>> BY <2>1 DEF ArrayAlloc, Quiet
  <2>4. OtherKinds BY <2>3 DEF OtherKinds
  <2> QED BY <2>1, <2>2, <2>3, <2>4, ArrayAllocStep, ExportsStay
<1>4. ASSUME NEW a \in Arrays,
             \/ \E b \in locals \cup {Null} : ArrayAppend(a, b)
             \/ \E i \in Indices(a), b \in locals \cup {Null} : ArrayStoreRelease(a, i, b)
             \/ \E i \in Indices(a) : ArrayStoreBack(a, i) \/ ArrayTake(a, i)
             \/ \E failed \in SUBSET (1 .. array[a].len) : ArrayClone(a, failed)
             \/ ArrayRelease(a) \/ SetField(a)
      PROVE  IndInv' /\ Exports'
  <2>0. OtherKinds BY <1>4, ArrayKinds
  <2>1. CASE \E b \in locals \cup {Null} : ArrayAppend(a, b)
    <3>1. exported_native_closures' = exported_native_closures BY <2>1 DEF ArrayAppend, Quiet
    <3> QED BY <2>0, <2>1, <3>1, ArrayAppendStep, ExportsStay
  <2>2. CASE \E i \in Indices(a), b \in locals \cup {Null} : ArrayStoreRelease(a, i, b)
    <3>1. exported_native_closures' = exported_native_closures BY <2>2 DEF ArrayStoreRelease, Quiet
    <3> QED BY <2>0, <2>2, <3>1, ArrayStoreReleaseStep, ExportsStay
  <2>3. CASE \E i \in Indices(a) : ArrayStoreBack(a, i) \/ ArrayTake(a, i)
    <3>1. exported_native_closures' = exported_native_closures
      BY <2>3 DEF ArrayStoreBack, ArrayTake, Quiet
    <3> QED BY <2>0, <2>3, <3>1, ArrayStoreBackStep, ArrayTakeStep, ExportsStay
  <2>4. CASE \E failed \in SUBSET (1 .. array[a].len) : ArrayClone(a, failed)
    <3>1. exported_native_closures' = exported_native_closures BY <2>4 DEF ArrayClone, Quiet
    <3> QED BY <2>0, <2>4, <3>1, ArrayCloneStep, ExportsStay
  <2>5. CASE ArrayRelease(a)
    <3>1. exported_native_closures' = exported_native_closures BY <2>5 DEF ArrayRelease, Quiet
    <3> QED BY <2>0, <2>5, <3>1, ArrayReleaseStep, ExportsStay
  <2>6. CASE SetField(a)
    <3>1. exported_native_closures' = exported_native_closures BY <2>6 DEF SetField, Quiet
    <3> QED BY <2>0, <2>6, <3>1, SetFieldStep, ExportsStay
  <2> QED BY <1>4, <2>1, <2>2, <2>3, <2>4, <2>5, <2>6
<1>5. CASE \E export \in BOOLEAN : NewClosure(export) BY <1>5, NewClosureStep
<1>6. CASE \E b \in Live : DestroyClosure(b) BY <1>6, DestroyClosureStep
<1>7. CASE \/ \E tracked \in BOOLEAN : StateAlloc(tracked)
           \/ \E t \in Tokens : StateFree(t) \/ \E b \in locals : StateStore(t, b)
           \/ Exit
  <2>1. exported_native_closures' = exported_native_closures
    BY <1>7 DEF StateAlloc, StateFree, StateStore, Exit, Quiet
  <2>2. OtherKinds BY <1>7, StateKinds, StateFreeKinds
  <2>3. IndInv' BY <1>7, StateAllocStep, StateFreeStep, StateStoreStep, ExitStep
  <2> QED BY <2>1, <2>2, <2>3, ExportsStay
<1>8. CASE TextCall
  <2>1. UNCHANGED <<heap, exported_native_closures>> BY <1>8 DEF TextCall
  <2>2. OtherKinds BY <2>1 DEF OtherKinds
  <2> QED BY <1>8, <2>1, <2>2, MemoryStays, ExportsStay DEF TextCall
<1> QED BY <1>1, <1>2, <1>3, <1>4, <1>5, <1>6, <1>7, <1>8 DEF Next

\* Whatever the program does with its values, and whichever allocations fail,
\* every block has at most one owner, of the right kind and allocator, every
\* buffer its capacity's size, the registry lists live tokens once, and the VM's
\* list its closures.
THEOREM Inductive == Spec => [](IndInv /\ Exports)
<1>1. Init => IndInv /\ Exports BY InitHolds
<1>2. IndInv /\ Exports /\ [Next]_vars => IndInv' /\ Exports'
  <2>1. IndInv /\ Exports /\ Next => IndInv' /\ Exports' BY NextPreserves
  <2>2. ASSUME IndInv, Exports, UNCHANGED vars PROVE IndInv' /\ Exports'
    <3>1. OtherKinds /\ exported_native_closures' = exported_native_closures
      BY <2>2 DEF vars, OtherKinds
    <3> QED BY <2>2, <3>1, MemoryStays, ExportsStay DEF vars
  <2> QED BY <2>1, <2>2
<1> QED BY <1>1, <1>2, PTL DEF Spec

\* No block is freed twice, to the wrong allocator or with the wrong size.
THEOREM SoundFrees == Spec => []FreesAreSound
<1>1. IndInv => FreesAreSound BY DEF IndInv, FreesAreSound
<1> QED BY <1>1, Inductive, PTL

\* Every array's buffer has the size its capacity says.
THEOREM BufferSizes == Spec => []BuffersMatchCapacity
<1>1. ASSUME IndInv PROVE BuffersMatchCapacity
  <2>1. Types BY <1>1 DEF IndInv, Heap
  <2>2. \A a \in Arrays : Fits(array[a]) BY <2>1, ArrayFacts
  <2> QED BY <2>2 DEF BuffersMatchCapacity, Fits
<1> QED BY <1>1, Inductive, PTL

\* The owners of a block, as the invariant names them.
LEMMA OwnersAre ==
  ASSUME Types, NEW b \in Blocks, NEW w
  PROVE  w \in Owners(b) <=>
           \/ w = <<"local", b>> /\ InLocal(b)
           \/ w = <<"token", b>> /\ Kind(b) = "token" /\ running
           \/ \E t : w = <<"inside", t>> /\ InToken(t, b)
           \/ \E a, k : w = <<"slot", a, k>> /\ InSlot(a, k, b)
<1>1. w \in {<<"local", x>> : x \in locals \cap {b}} <=> w = <<"local", b>> /\ InLocal(b)
  BY DEF InLocal
<1>2. \A t : t \in Tokens <=> t \in Blocks /\ Kind(t) = "token" BY DEF Tokens, Live, Kind
<1>3. w \in {<<"token", x>> : x \in IF running THEN Tokens \cap {b} ELSE {}} <=>
        w = <<"token", b>> /\ Kind(b) = "token" /\ running
  BY <1>2
<1>4. w \in {<<"inside", t>> : t \in {x \in Tokens : heap[x].inside = b}} <=>
        \E t : w = <<"inside", t>> /\ InToken(t, b)
  BY <1>2 DEF InToken
<1>5. w \in UNION {{<<"slot", a, k>> : k \in {k \in 1 .. array[a].len : Elems(a)[k].ptr = b}} : a \in Arrays}
        <=> \E a, k : w = <<"slot", a, k>> /\ InSlot(a, k, b)
  <2>1. \A a \in Arrays : \A k \in 1 .. array[a].len : Elems(a)[k] = array[a].slots[k] BY SlotFacts
  <2>2. w \in UNION {{<<"slot", a, k>> : k \in {k \in 1 .. array[a].len : Elems(a)[k].ptr = b}} : a \in Arrays}
          <=> \E a \in Arrays : \E k \in 1 .. array[a].len : Elems(a)[k].ptr = b /\ w = <<"slot", a, k>>
    OBVIOUS
  <2> QED BY <2>1, <2>2 DEF InSlot
<1> QED BY <1>1, <1>3, <1>4, <1>5 DEF Owners

\* No block has two owners, none lacks one unless an allocation failed, and
\* every array belongs to a local or to the field, not to both.
THEOREM SingleOwner == Spec => []OwnedOnce
<1>1. ASSUME IndInv PROVE OwnedOnce
  <2>1. Heap /\ Types BY <1>1 DEF IndInv, Heap
  <2>2. ASSUME NEW b \in Live
        PROVE  Cardinality(Owners(b)) <= 1 /\ (starved \/ Owners(b) # {})
    <3>1. b \in Blocks /\ Kind(b) # "none" BY DEF Live, Kind
    <3>2. \A w : w \in Owners(b) <=>
            \/ w = <<"local", b>> /\ InLocal(b)
            \/ w = <<"token", b>> /\ Kind(b) = "token" /\ running
            \/ \E t : w = <<"inside", t>> /\ InToken(t, b)
            \/ \E a, k : w = <<"slot", a, k>> /\ InSlot(a, k, b)
      BY <2>1, <3>1, OwnersAre
    <3>3. starved \/ Owners(b) # {}
      <4>1. starved \/ HasOwner(b) BY <2>1, <3>1 DEF Heap, Kept
      <4> QED BY <3>2, <4>1 DEF HasOwner
    <3>4. \A v, w \in Owners(b) : v = w
      <4>1. Kind(b) = "token" => ~InLocal(b) /\ (\A t : ~InToken(t, b)) /\ (\A a, k : ~InSlot(a, k, b))
        BY <2>1, <3>1, Unowned
      <4>2. /\ \A t : ~(InLocal(b) /\ InToken(t, b))
            /\ \A a, k : ~(InLocal(b) /\ InSlot(a, k, b))
            /\ \A t, u : InToken(t, b) /\ InToken(u, b) => t = u
            /\ \A t, a, k : ~(InToken(t, b) /\ InSlot(a, k, b))
            /\ \A a, k, c, j : InSlot(a, k, b) /\ InSlot(c, j, b) => a = c /\ k = j
        BY <2>1, <3>1 DEF Heap, Single
      <4> QED BY <3>2, <4>1, <4>2
    <3>5. Owners(b) = {} \/ \E w : Owners(b) = {w} BY <3>4
    <3>6. Cardinality(Owners(b)) = 0 \/ Cardinality(Owners(b)) = 1
      BY <3>5, FS_EmptySet, FS_Singleton
    <3> QED BY <3>3, <3>6
  <2>3. Arrays = held \cup ({field} \ {Null}) /\ field \notin held BY <2>1 DEF Heap, Fields
  <2> QED BY <2>2, <2>3 DEF OwnedOnce
<1> QED BY <1>1, Inductive, PTL

-----------------------------------------------------------------------------
(* The text primitives.  Induction over texts and numbers is written as    *)
(* the least counterexample.                                               *)

\* A non-empty set of naturals has a least element: the induction of what follows.
LEMMA LeastOf ==
  ASSUME NEW S \in SUBSET Nat, S # {}
  PROVE  \E x \in S : \A y \in S : x <= y
<1>1. \E x \in S : \A y \in S : ~(y < x) /\ x \in Nat
  <2>1. PICK x \in S : \A y \in S : ~(<<y, x>> \in OpToRel(<, Nat))
    BY NatLessThanWellFounded, WFMin, ZenonT(30)
  <2> QED BY <2>1 DEF OpToRel
<1>2. PICK x \in S : \A y \in S : ~(y < x) BY <1>1
<1>3. \A y \in S : x <= y
  <2>1. \A y \in S : x \in Nat /\ y \in Nat OBVIOUS
  <2> QED BY <1>2, <2>1
<1> QED BY <1>3

-----------------------------------------------------------------------------
(* Powers and numbers.                                                     *)

IsPower(p, n) == p = [k \in 0 .. n |-> IF k = 0 THEN 1 ELSE Radix * p[k - 1]]

\* The table of the powers up to n, by the least n without one.
LEMMA PowerExists ==
  ASSUME NEW n \in Nat
  PROVE  \E p : IsPower(p, n)
<1> DEFINE Bad == {m \in Nat : ~\E p : IsPower(p, m)}
<1>0. Bad \in SUBSET Nat OBVIOUS
<1>1. SUFFICES ASSUME Bad # {} PROVE FALSE OBVIOUS
<1>2. PICK m \in Bad : \A y \in Bad : m <= y BY <1>0, <1>1, LeastOf
<1>3. CASE m = 0
  <2> DEFINE p == [k \in 0 .. 0 |-> 1]
  <2>1. IsPower(p, 0) BY DEF IsPower
  <2> QED BY <1>3, <2>1
<1>4. CASE m # 0
  <2>1. m - 1 \in Nat /\ m - 1 \notin Bad BY <1>2, <1>4
  <2>2. PICK p : IsPower(p, m - 1) BY <2>1
  <2>3. p = [k \in 0 .. m - 1 |-> IF k = 0 THEN 1 ELSE Radix * p[k - 1]] BY <2>2 DEF IsPower
  <2> DEFINE more == [k \in 0 .. m |-> IF k = m THEN Radix * p[m - 1] ELSE p[k]]
  <2>4. ASSUME NEW k \in 0 .. m
        PROVE  more[k] = IF k = 0 THEN 1 ELSE Radix * more[k - 1]
    <3>1. CASE k = m BY <3>1, <1>4
    <3>2. CASE k # m
      <4>1. k \in 0 .. m - 1 /\ more[k] = p[k] /\ (k # 0 => more[k - 1] = p[k - 1]) BY <3>2
      <4>2. p[k] = IF k = 0 THEN 1 ELSE Radix * p[k - 1] BY <2>3, <4>1
      <4> QED BY <4>1, <4>2
    <3> QED BY <3>1, <3>2
  <2> HIDE DEF more
  <2>5. more = [k \in 0 .. m |-> more[k]] BY DEF more
  <2>6. IsPower(more, m) BY <2>4, <2>5 DEF IsPower
  <2> QED BY <2>6
<1> QED BY <1>3, <1>4

\* A power is in that table.
LEMMA PowerIs ==
  ASSUME NEW n \in Nat
  PROVE  \E p : IsPower(p, n) /\ Power(n) = p[n]
<1>1. \E p : IsPower(p, n) BY PowerExists
<1> QED BY <1>1 DEF IsPower, Power

\* Tables of different length agree.
LEMMA PowersAgree ==
  ASSUME NEW n \in Nat, NEW m \in Nat, n <= m, NEW p, IsPower(p, n), NEW q, IsPower(q, m)
  PROVE  p[n] = q[n]
<1> DEFINE Bad == {k \in 0 .. n : p[k] # q[k]}
<1>0. Bad \in SUBSET Nat OBVIOUS
<1>1. /\ \A k \in 0 .. n : p[k] = IF k = 0 THEN 1 ELSE Radix * p[k - 1]
      /\ \A k \in 0 .. m : q[k] = IF k = 0 THEN 1 ELSE Radix * q[k - 1]
  BY DEF IsPower
<1>2. Bad = {}
  <2>1. SUFFICES ASSUME Bad # {} PROVE FALSE OBVIOUS
  <2>2. PICK k \in Bad : \A y \in Bad : k <= y BY <1>0, <2>1, LeastOf
  <2>3. k \in 0 .. m /\ k \in 0 .. n BY <2>2
  <2>4. k # 0 BY <1>1, <2>2, <2>3
  <2>5. k - 1 \in 0 .. n /\ k - 1 \notin Bad BY <2>2, <2>4
  <2> QED BY <1>1, <2>2, <2>3, <2>4, <2>5
<1> QED BY <1>2

\* The recursion of a power.
LEMMA PowerLaws ==
  ASSUME NEW n \in Nat
  PROVE  Power(0) = 1 /\ Power(n + 1) = Radix * Power(n)
<1>1. Power(0) = 1
  <2>1. PICK p : IsPower(p, 0) /\ Power(0) = p[0] BY PowerIs
  <2> QED BY <2>1 DEF IsPower
<1>2. PICK p : IsPower(p, n) /\ Power(n) = p[n] BY PowerIs
<1>3. PICK q : IsPower(q, n + 1) /\ Power(n + 1) = q[n + 1] BY PowerIs
<1>4. p[n] = q[n] BY <1>2, <1>3, PowersAgree
<1>5. n + 1 \in 0 .. n + 1 /\ n + 1 # 0 /\ n + 1 - 1 = n OBVIOUS
<1>6. q[n + 1] = Radix * q[n] BY <1>3, <1>5 DEF IsPower
<1> QED BY <1>1, <1>2, <1>3, <1>4, <1>6

\* Powers are naturals.
LEMMA PowerType == \A n \in Nat : Power(n) \in Nat
<1> DEFINE Bad == {n \in Nat : Power(n) \notin Nat}
<1>0. Bad \in SUBSET Nat /\ Radix \in Nat BY TextAssumption
<1>1. SUFFICES ASSUME Bad # {} PROVE FALSE OBVIOUS
<1>2. PICK n \in Bad : \A y \in Bad : n <= y BY <1>0, <1>1, LeastOf
<1>3. n # 0 BY <1>2, PowerLaws
<1>4. PICK m \in Nat : n = m + 1 /\ m \notin Bad
  <2>1. n - 1 \in Nat /\ n = (n - 1) + 1 /\ n - 1 \notin Bad BY <1>2, <1>3
  <2> QED BY <2>1
<1>5. PICK p \in Nat : p = Power(m) BY <1>4
<1>6. Power(n) = Radix * p BY <1>4, <1>5, PowerLaws
<1>7. Radix * p \in Nat BY <1>0
<1> QED BY <1>2, <1>6, <1>7

\* The power of a sum is the product.
LEMMA PowerSum ==
  ASSUME NEW a \in Nat, NEW b \in Nat
  PROVE  Power(a + b) = Power(a) * Power(b)
<1> DEFINE Bad == {k \in Nat : Power(a + k) # Power(a) * Power(k)}
<1>0. Bad \in SUBSET Nat /\ Radix \in Nat BY TextAssumption
<1>1. SUFFICES ASSUME Bad # {} PROVE FALSE OBVIOUS
<1>2. PICK k \in Bad : \A y \in Bad : k <= y BY <1>0, <1>1, LeastOf
<1>3. PICK p \in Nat : p = Power(a) BY PowerType
<1>4. k # 0
  <2>1. a + 0 = a /\ p * 1 = p /\ Power(0) = 1 BY PowerLaws
  <2> QED BY <1>2, <1>3, <2>1
<1>5. PICK m \in Nat : k = m + 1 /\ m \notin Bad
  <2>1. k - 1 \in Nat /\ k = (k - 1) + 1 /\ k - 1 \notin Bad BY <1>2, <1>4
  <2> QED BY <2>1
<1>6. PICK q \in Nat : q = Power(m) BY PowerType
<1>7. Power(a + m) = p * q BY <1>3, <1>5, <1>6
<1>8. Power(k) = Radix * q BY <1>5, <1>6, PowerLaws
<1>9. PICK e \in Nat : e = a + m /\ a + k = e + 1 BY <1>5
<1>10. Power(a + k) = Radix * (p * q) BY <1>7, <1>9, PowerLaws
<1>11. Radix * (p * q) = p * (Radix * q) BY <1>0
<1> QED BY <1>2, <1>3, <1>8, <1>10, <1>11

\* num[k] is the number that the first k digits make.
IsNumber(s, num, n) == num = [k \in 0 .. n |-> IF k = 0 THEN 0 ELSE Radix * num[k - 1] + s[k]]

\* The table of the numbers of the first n digits, by the least n without one.
LEMMA NumberExists ==
  ASSUME NEW s, NEW n \in Nat
  PROVE  \E num : IsNumber(s, num, n)
<1> DEFINE Bad == {m \in Nat : ~\E num : IsNumber(s, num, m)}
<1>0. Bad \in SUBSET Nat OBVIOUS
<1>1. SUFFICES ASSUME Bad # {} PROVE FALSE OBVIOUS
<1>2. PICK m \in Bad : \A y \in Bad : m <= y BY <1>0, <1>1, LeastOf
<1>3. CASE m = 0
  <2> DEFINE p == [k \in 0 .. 0 |-> 0]
  <2>1. IsNumber(s, p, 0) BY DEF IsNumber
  <2> QED BY <1>3, <2>1
<1>4. CASE m # 0
  <2>1. m - 1 \in Nat /\ m - 1 \notin Bad BY <1>2, <1>4
  <2>2. PICK p : IsNumber(s, p, m - 1) BY <2>1
  <2>3. p = [k \in 0 .. m - 1 |-> IF k = 0 THEN 0 ELSE Radix * p[k - 1] + s[k]]
    BY <2>2 DEF IsNumber
  <2> DEFINE more == [k \in 0 .. m |-> IF k = m THEN Radix * p[m - 1] + s[m] ELSE p[k]]
  <2>4. ASSUME NEW k \in 0 .. m
        PROVE  more[k] = IF k = 0 THEN 0 ELSE Radix * more[k - 1] + s[k]
    <3>1. CASE k = m BY <3>1, <1>4
    <3>2. CASE k # m
      <4>1. k \in 0 .. m - 1 /\ more[k] = p[k] /\ (k # 0 => more[k - 1] = p[k - 1]) BY <3>2
      <4>2. p[k] = IF k = 0 THEN 0 ELSE Radix * p[k - 1] + s[k] BY <2>3, <4>1
      <4> QED BY <4>1, <4>2
    <3> QED BY <3>1, <3>2
  <2> HIDE DEF more
  <2>5. more = [k \in 0 .. m |-> more[k]] BY DEF more
  <2>6. IsNumber(s, more, m) BY <2>4, <2>5 DEF IsNumber
  <2> QED BY <2>6
<1> QED BY <1>3, <1>4

\* The number of a text of digits is in that table.
LEMMA NumberIs ==
  ASSUME NEW s \in Seq(Digit)
  PROVE  \E num : IsNumber(s, num, Len(s)) /\ NumberOf(s) = num[Len(s)]
<1>1. Len(s) \in Nat OBVIOUS
<1>2. \E num : IsNumber(s, num, Len(s)) BY <1>1, NumberExists
<1> QED BY <1>2 DEF IsNumber, NumberOf

\* The numbers in that table are naturals.
LEMMA NumberType ==
  ASSUME NEW s \in Seq(Digit), NEW n \in Nat, n = Len(s), NEW num, IsNumber(s, num, n)
  PROVE  \A k \in 0 .. n : num[k] \in Nat
<1> DEFINE Bad == {k \in 0 .. n : num[k] \notin Nat}
<1>0. Bad \in SUBSET Nat /\ Radix \in Nat BY TextAssumption
<1>1. SUFFICES ASSUME Bad # {} PROVE FALSE OBVIOUS
<1>2. PICK k \in Bad : \A y \in Bad : k <= y BY <1>0, <1>1, LeastOf
<1>3. \A i \in 0 .. n : num[i] = IF i = 0 THEN 0 ELSE Radix * num[i - 1] + s[i] BY DEF IsNumber
<1>4. k # 0 BY <1>2, <1>3
<1>5. k - 1 \in 0 .. n /\ k - 1 \notin Bad /\ k \in 1 .. n BY <1>2, <1>4
<1>6. PICK x \in Nat : x = num[k - 1] BY <1>5
<1>7. PICK d \in Nat : d = s[k]
  <2>1. s[k] \in Digit BY <1>5
  <2> QED BY <1>0, <2>1 DEF Digit
<1>8. num[k] = Radix * x + d BY <1>3, <1>4, <1>5, <1>6, <1>7
<1>9. Radix * x + d \in Nat BY <1>0
<1> QED BY <1>2, <1>8, <1>9

\* Zeros in front change nothing, each one at the end is a factor Radix.
Padded(s, d, z, w) ==
  /\ Len(s) = z + Len(d) + w
  /\ \A k \in 1 .. z : s[k] = 0
  /\ \A k \in 1 .. Len(d) : s[z + k] = d[k]
  /\ \A k \in 1 .. w : s[z + Len(d) + k] = 0

\* What padding does to the number of a text.
LEMMA NumberPadded ==
  ASSUME NEW s \in Seq(Digit), NEW d \in Seq(Digit), NEW z \in Nat, NEW w \in Nat,
         Padded(s, d, z, w)
  PROVE  NumberOf(d) \in Nat /\ NumberOf(s) = NumberOf(d) * Power(w)
<1>0. Radix \in Nat BY TextAssumption
<1>1. PICK n \in Nat, l \in Nat : n = Len(d) /\ l = z + n + w /\ l = Len(s) BY DEF Padded
<1>2. PICK y : IsNumber(d, y, n) /\ NumberOf(d) = y[n] BY <1>1, NumberIs
<1>3. PICK x : IsNumber(s, x, l) /\ NumberOf(s) = x[l] BY <1>1, NumberIs
<1>4. \A k \in 0 .. n : y[k] = IF k = 0 THEN 0 ELSE Radix * y[k - 1] + d[k]
  BY <1>2 DEF IsNumber
<1>5. \A k \in 0 .. l : x[k] = IF k = 0 THEN 0 ELSE Radix * x[k - 1] + s[k]
  BY <1>3 DEF IsNumber
<1>6. \A k \in 0 .. n : y[k] \in Nat BY <1>1, <1>2, NumberType
<1>7. \A k \in 0 .. z : x[k] = 0
  <2> DEFINE Bad == {k \in 0 .. z : x[k] # 0}
  <2>0. Bad \in SUBSET Nat OBVIOUS
  <2>1. SUFFICES ASSUME Bad # {} PROVE FALSE OBVIOUS
  <2>2. PICK k \in Bad : \A i \in Bad : k <= i BY <2>0, <2>1, LeastOf
  <2>3. k \in 0 .. l /\ k # 0 BY <1>1, <1>5, <2>2
  <2>4. k - 1 \in 0 .. z /\ k - 1 \notin Bad /\ k \in 1 .. z BY <2>2, <2>3
  <2>5. x[k] = Radix * 0 + 0 BY <1>5, <2>3, <2>4 DEF Padded
  <2> QED BY <1>0, <2>2, <2>5
<1>8. \A k \in 0 .. n : x[z + k] = y[k]
  <2> DEFINE Bad == {k \in 0 .. n : x[z + k] # y[k]}
  <2>0. Bad \in SUBSET Nat OBVIOUS
  <2>1. SUFFICES ASSUME Bad # {} PROVE FALSE OBVIOUS
  <2>2. PICK k \in Bad : \A i \in Bad : k <= i BY <2>0, <2>1, LeastOf
  <2>3. k # 0
    <3>1. z \in 0 .. z /\ z + 0 = z /\ y[0] = 0 BY <1>1, <1>4
    <3> QED BY <1>7, <2>2, <3>1
  <2>4. k - 1 \in 0 .. n /\ k - 1 \notin Bad /\ k \in 1 .. n BY <2>2, <2>3
  <2>5. PICK j \in 1 .. l : j = z + k /\ j - 1 = z + (k - 1) BY <1>1, <2>4
  <2>6. s[j] = d[k] BY <1>1, <2>4, <2>5 DEF Padded
  <2>7. x[j] = Radix * x[j - 1] + s[j] BY <1>5, <2>5
  <2>8. y[k] = Radix * y[k - 1] + d[k] BY <1>4, <2>4
  <2>9. x[j - 1] = y[k - 1] BY <2>4, <2>5
  <2> QED BY <2>2, <2>5, <2>6, <2>7, <2>8, <2>9
<1>9. PICK v \in Nat : v = y[n] /\ v = x[z + n]
  <2>1. n \in 0 .. n BY <1>1
  <2>2. y[n] \in Nat /\ x[z + n] = y[n] BY <1>6, <1>8, <2>1
  <2> QED BY <2>2
<1>10. \A k \in 0 .. w : x[z + n + k] = v * Power(k)
  <2> DEFINE Bad == {k \in 0 .. w : x[z + n + k] # v * Power(k)}
  <2>0. Bad \in SUBSET Nat OBVIOUS
  <2>1. SUFFICES ASSUME Bad # {} PROVE FALSE OBVIOUS
  <2>2. PICK k \in Bad : \A i \in Bad : k <= i BY <2>0, <2>1, LeastOf
  <2>3. k # 0
    <3>1. z + n + 0 = z + n /\ v * 1 = v /\ Power(0) = 1 BY PowerLaws
    <3> QED BY <1>9, <2>2, <3>1
  <2>4. PICK m \in 0 .. w : m = k - 1 /\ k = m + 1 /\ m \notin Bad /\ k \in 1 .. w
    BY <2>2, <2>3
  <2>5. PICK j \in 1 .. l : j = z + n + k /\ j - 1 = z + n + m BY <1>1, <2>4
  <2>6. s[j] = 0 BY <1>1, <2>4, <2>5 DEF Padded
  <2>7. x[j] = Radix * x[j - 1] + s[j] BY <1>5, <2>5
  <2>8. PICK q \in Nat : q = Power(m) BY <2>4, PowerType
  <2>9. x[j - 1] = v * q BY <2>4, <2>5, <2>8
  <2>10. Power(k) = Radix * q BY <2>4, <2>8, PowerLaws
  <2>11. Radix * (v * q) + 0 = v * (Radix * q) BY <1>0
  <2> QED BY <2>2, <2>5, <2>6, <2>7, <2>9, <2>10, <2>11
<1>11. x[l] = v * Power(w)
  <2>1. w \in 0 .. w /\ l = z + n + w BY <1>1
  <2> QED BY <1>10, <2>1
<1> QED BY <1>2, <1>3, <1>9, <1>11

-----------------------------------------------------------------------------
(* Parts of texts.                                                         *)

\* The minimum of a set of naturals.
IsLeast(x, S) == x \in S /\ \A y \in S : x <= y

LEMMA MinIs ==
  ASSUME NEW S \in SUBSET Nat, S # {}
  PROVE  IsLeast(Min(S), S)
<1>1. \E x \in S : \A y \in S : x <= y BY LeastOf
<1> QED BY <1>1 DEF Min, IsLeast

\* u is the n characters of t after the first e.
IsPart(u, t, e, n) ==
  u \in Seq(Nat) /\ Len(u) = n /\ \A k \in 1 .. n : u[k] = t[e + k]

\* SubSeq gives such a part.
LEMMA PartIs ==
  ASSUME NEW t \in Seq(Nat), NEW e \in Nat, NEW n \in Nat, e + n <= Len(t),
         NEW a \in Int, NEW b \in Int, a = e + 1, b = e + n, NEW u, u = SubSeq(t, a, b)
  PROVE  IsPart(u, t, e, n)
<1>1. PICK l \in Nat : l = Len(t) OBVIOUS
<1>2. \A i \in a .. b : t[i] \in Nat BY <1>1
<1>3. /\ u \in Seq(Nat) /\ Len(u) = IF a <= b THEN b - a + 1 ELSE 0
      /\ \A i \in 1 .. b - a + 1 : u[i] = t[a + i - 1]
  BY <1>2, SubSeqProperties
<1>4. Len(u) = n BY <1>3
<1>5. ASSUME NEW k \in 1 .. n PROVE u[k] = t[e + k]
  <2>1. k \in 1 .. b - a + 1 /\ a + k - 1 = e + k OBVIOUS
  <2> QED BY <1>3, <2>1
<1> QED BY <1>3, <1>4, <1>5 DEF IsPart

\* c is a, of m characters, and then b, of n.
IsJoin(c, a, m, b, n) ==
  /\ c \in Seq(Nat) /\ Len(c) = m + n
  /\ \A k \in 1 .. m : c[k] = a[k]
  /\ \A k \in 1 .. n : c[m + k] = b[k]

\* Concatenation gives such a text.
LEMMA JoinIs ==
  ASSUME NEW a \in Seq(Nat), NEW b \in Seq(Nat), NEW m \in Nat, NEW n \in Nat,
         m = Len(a), n = Len(b), NEW c, c = a \o b
  PROVE  IsJoin(c, a, m, b, n)
<1>1. /\ c \in Seq(Nat) /\ Len(c) = m + n
      /\ \A i \in 1 .. m + n : c[i] = IF i <= m THEN a[i] ELSE b[i - m]
  BY ConcatProperties
<1>2. ASSUME NEW k \in 1 .. m PROVE c[k] = a[k]
  <2>1. k \in 1 .. m + n /\ k <= m OBVIOUS
  <2> QED BY <1>1, <2>1
<1>3. ASSUME NEW k \in 1 .. n PROVE c[m + k] = b[k]
  <2>1. k \in Nat /\ 1 <= k /\ k <= n OBVIOUS
  <2>2. PICK i \in Nat : i = m + k OBVIOUS
  <2>3. i \in 1 .. m + n /\ ~(i <= m) /\ i - m = k BY <2>1, <2>2
  <2> QED BY <1>1, <2>2, <2>3
<1> QED BY <1>1, <1>2, <1>3 DEF IsJoin

\* Texts with the same characters.
LEMMA SameText ==
  ASSUME NEW a \in Seq(Nat), NEW b \in Seq(Nat), NEW n \in Nat, n = Len(a), n = Len(b),
         \A k \in 1 .. n : a[k] = b[k]
  PROVE  a = b
<1>1. Len(a) = Len(b) /\ \A k \in 1 .. Len(a) : a[k] = b[k] OBVIOUS
<1> QED BY <1>1, SeqEqual

\* The zeros that fill up a number.
LEMMA ZerosAre ==
  ASSUME NEW z \in Nat, NEW u, u = Zeros(z)
  PROVE  u \in Seq(Nat) /\ Len(u) = z /\ \A k \in 1 .. z : u[k] = 0
BY DEF Zeros

\* The point, or the first of them.
LEMMA PointIs ==
  ASSUME NEW t \in Seq(Nat), NEW l \in Nat, l = Len(t), NEW p, p = PointAt(t)
  PROVE  /\ p \in 1 .. l + 1
         /\ \A i \in 1 .. p - 1 : t[i] # Point
         /\ p <= l => t[p] = Point
<1>1. PICK at : at = {i \in DOMAIN t : t[i] = Point} OBVIOUS
<1>2. at = {i \in 1 .. l : t[i] = Point} /\ at \in SUBSET Nat BY <1>1
<1>3. PointAt(t) = IF at = {} THEN Len(t) + 1 ELSE Min(at) BY <1>1 DEF PointAt
<1>4. CASE at = {}
  <2>1. p = l + 1 BY <1>3, <1>4
  <2>2. ASSUME NEW i \in 1 .. p - 1 PROVE t[i] # Point
    <3>1. i \in 1 .. l BY <2>1
    <3> QED BY <1>2, <1>4, <3>1
  <2>3. p \in 1 .. l + 1 /\ ~(p <= l) BY <2>1
  <2> QED BY <2>2, <2>3
<1>5. CASE at # {}
  <2>0. IsLeast(Min(at), at) BY <1>2, <1>5, MinIs
  <2>1. p \in at /\ \A y \in at : p <= y BY <1>3, <1>5, <2>0 DEF IsLeast
  <2>2. p \in 1 .. l /\ t[p] = Point BY <1>2, <2>1
  <2>3. ASSUME NEW i \in 1 .. p - 1 PROVE t[i] # Point
    <3>1. i \in 1 .. l /\ ~(p <= i) BY <2>2
    <3> QED BY <1>2, <2>1, <3>1
  <2> QED BY <2>2, <2>3
<1> QED BY <1>4, <1>5

\* The one point of the text is at p; without it, its characters from f on are u.
HasPoint(t, l, p) ==
  t[p] = Point /\ \A i \in 1 .. l : t[i] = Point => i = p
SkipsPoint(u, t, l, f, p) ==
  /\ FractionLength(t) = l - p
  /\ u \in Seq(Nat) /\ Len(u) = l - f
  /\ \A k \in 1 .. p - f : u[k] = t[f - 1 + k]
  /\ \A k \in 1 .. l - p : u[p - f + k] = t[p + k]

\* Plain skips the one point.
LEMMA PlainWith ==
  ASSUME NEW t \in Seq(Nat), NEW l \in Nat, l = Len(t), NEW f \in {1, 2}, NEW p \in f .. l,
         HasPoint(t, l, p), NEW u, u = Plain(t, f)
  PROVE  SkipsPoint(u, t, l, f, p)
<1>0. t[p] = Point /\ \A i \in 1 .. l : t[i] = Point => i = p BY DEF HasPoint
<1>1. PointAt(t) = p
  <2>1. PICK q : q = PointAt(t) OBVIOUS
  <2>2. q \in 1 .. l + 1 /\ (\A i \in 1 .. q - 1 : t[i] # Point) /\ (q <= l => t[q] = Point)
    BY <2>1, PointIs
  <2>3. p \in 1 .. l OBVIOUS
  <2>4. q <= p BY <1>0, <2>2, <2>3
  <2>5. q \in 1 .. l BY <2>2, <2>4
  <2> QED BY <1>0, <2>1, <2>2, <2>5
<1>2. PICK e \in Nat, h \in Int, m \in Int : e = f - 1 /\ h = p - 1 /\ m = p + 1 OBVIOUS
<1>3. PICK x \in Nat : x = p - f OBVIOUS
<1>4. PICK y \in Nat : y = l - p
  <2>1. p \in Nat /\ p <= l OBVIOUS
  <2>2. l - p \in Nat BY <2>1
  <2> QED BY <2>2
<1>5. PICK a, b : a = SubSeq(t, f, h) /\ b = SubSeq(t, m, l) OBVIOUS
<1>6. u = a \o b BY <1>1, <1>2, <1>5 DEF Plain
<1>7. IsPart(a, t, e, x)
  <2>1. e + x <= Len(t) /\ f = e + 1 /\ h = e + x /\ f \in Int BY <1>2, <1>3
  <2> QED BY <1>5, <2>1, PartIs
<1>8. IsPart(b, t, p, y)
  <2>1. p + y <= Len(t) /\ l = p + y /\ l \in Int /\ p \in Nat BY <1>4
  <2> QED BY <1>2, <1>5, <2>1, PartIs
<1>9. IsJoin(u, a, x, b, y) BY <1>6, <1>7, <1>8, JoinIs DEF IsPart
<1>10. x + y = l - f BY <1>3, <1>4
<1>11. FractionLength(t) = l - p BY <1>1 DEF FractionLength
<1>12. u \in Seq(Nat) /\ Len(u) = l - f BY <1>9, <1>10 DEF IsJoin
<1>13. ASSUME NEW k \in 1 .. p - f PROVE u[k] = t[f - 1 + k]
  <2>1. k \in 1 .. x BY <1>3
  <2>2. u[k] = a[k] BY <1>9, <2>1 DEF IsJoin
  <2>3. a[k] = t[e + k] BY <1>7, <2>1 DEF IsPart
  <2> QED BY <1>2, <2>2, <2>3
<1>14. ASSUME NEW k \in 1 .. l - p PROVE u[p - f + k] = t[p + k]
  <2>1. k \in 1 .. y BY <1>4
  <2>2. u[x + k] = b[k] BY <1>9, <2>1 DEF IsJoin
  <2>3. b[k] = t[p + k] BY <1>8, <2>1 DEF IsPart
  <2> QED BY <1>3, <2>2, <2>3
<1> QED BY <1>11, <1>12, <1>13, <1>14 DEF SkipsPoint

\* A text without a point, and its characters from f on.
NoPoint(t, l) == \A i \in 1 .. l : t[i] # Point
IsRest(u, t, l, f) ==
  /\ FractionLength(t) = 0
  /\ u \in Seq(Nat) /\ Len(u) = l - f + 1
  /\ \A k \in 1 .. l - f + 1 : u[k] = t[f - 1 + k]

\* Plain of a text without a point.
LEMMA PlainWithout ==
  ASSUME NEW t \in Seq(Nat), NEW l \in Nat, l = Len(t), NEW f \in {1, 2}, f <= l,
         NoPoint(t, l), NEW u, u = Plain(t, f)
  PROVE  IsRest(u, t, l, f)
<1>1. PointAt(t) = l + 1
  <2>1. PICK q : q = PointAt(t) OBVIOUS
  <2>2. q \in 1 .. l + 1 /\ (q <= l => t[q] = Point) BY <2>1, PointIs
  <2> QED BY <2>1, <2>2 DEF NoPoint
<1>2. PICK a, b : a = SubSeq(t, f, l) /\ b = SubSeq(t, l + 2, l) OBVIOUS
<1>3. u = a \o b
  <2>1. l + 1 - 1 = l /\ l + 1 + 1 = l + 2 OBVIOUS
  <2> QED BY <1>1, <1>2, <2>1 DEF Plain
<1>4. b = <<>>
  <2>1. PICK m \in Int : m = l + 2 /\ l < m OBVIOUS
  <2> QED BY <1>2, <2>1, SubSeqEmpty
<1>50. PICK e \in Nat : e = f - 1 OBVIOUS
<1>51. PICK n \in Nat : n = l - f + 1
  <2>1. l - f + 1 \in Nat OBVIOUS
  <2> QED BY <2>1
<1>5. e = f - 1 /\ n = l - f + 1 BY <1>50, <1>51
<1>6. IsPart(a, t, e, n)
  <2>1. e + n <= Len(t) /\ f = e + 1 /\ l = e + n /\ f \in Int /\ l \in Int BY <1>5
  <2> QED BY <1>2, <2>1, PartIs
<1>7. u = a BY <1>3, <1>4, <1>6, ConcatEmptySeq DEF IsPart
<1>8. FractionLength(t) = 0 BY <1>1 DEF FractionLength
<1> QED BY <1>5, <1>6, <1>7, <1>8 DEF IsPart, IsRest

-----------------------------------------------------------------------------
(* kira_string_from_f64.                                                   *)

\* A digit is neither a dash nor a point.
LEMMA DigitIs == \A d \in Digit : d \in Nat /\ d # Dash /\ d # Point
BY TextAssumption DEF Digit, Dash, Point

\* The sign, and what follows it.
Sign(neg) == IF neg THEN <<Dash>> ELSE <<>>
First(neg) == IF neg THEN 2 ELSE 1

\* t is the sign and then body, of b characters, which starts at f.
IsSigned(t, f, body, b, neg) ==
  /\ f \in {1, 2} /\ t \in Seq(Nat) /\ Len(t) = f - 1 + b
  /\ \A k \in 1 .. b : t[f - 1 + k] = body[k]
  /\ (t[1] = Dash) <=> neg
  /\ \A i \in 1 .. f - 1 : t[i] # Point

\* The sign is one dash or nothing.
LEMMA Signed ==
  ASSUME NEW neg \in BOOLEAN, NEW f, f = First(neg), NEW body \in Seq(Nat), NEW b \in Nat,
         b = Len(body), b > 0, body[1] # Dash, NEW t, t = Sign(neg) \o body
  PROVE  IsSigned(t, f, body, b, neg)
<1>1. CASE neg
  <2>1. f = 2 BY <1>1 DEF First
  <2>2. PICK s : s = <<Dash>> OBVIOUS
  <2>7. s \in Seq(Nat) /\ Len(s) = 1 /\ s[1] = Dash BY <2>2 DEF Dash
  <2>3. PICK m \in Nat : m = 1 /\ m = Len(s) BY <2>7
  <2>4. t = s \o body BY <1>1, <2>2 DEF Sign
  <2>5. IsJoin(t, s, m, body, b) BY <2>3, <2>4, <2>7, JoinIs
  <2>6. t[1] = Dash /\ Dash # Point BY <2>3, <2>5, <2>7 DEF Dash, Point, IsJoin
  <2>8. f - 1 = m BY <2>1, <2>3
  <2>9. \A i \in 1 .. f - 1 : t[i] # Point
    <3>1. \A i \in 1 .. f - 1 : i = 1 BY <2>1
    <3> QED BY <2>6, <3>1
  <2> QED BY <1>1, <2>1, <2>5, <2>6, <2>8, <2>9 DEF IsJoin, IsSigned
<1>2. CASE ~neg
  <2>1. f = 1 BY <1>2 DEF First
  <2>2. t = body BY <1>2, ConcatEmptySeq DEF Sign
  <2> QED BY <1>2, <2>1, <2>2 DEF IsSigned
<1> QED BY <1>1, <1>2

\* Without its point at q, the text is z zeros, the n digits d, and w zeros.
Written(k, z, d, n) == IF z < k /\ k <= z + n THEN d[k - z] ELSE 0
Spread(body, q, b, z, d, n) ==
  /\ Len(body) = b /\ b = 1 + z + n /\ body[q] = Point
  /\ \A k \in 1 .. b - 1 : (IF k < q THEN body[k] ELSE body[k + 1]) = Written(k, z, d, n)

\* Every character written is a digit.
LEMMA WrittenDigit ==
  ASSUME NEW d \in Seq(Digit), NEW n \in Nat, n = Len(d), NEW z \in Nat, NEW k \in Nat
  PROVE  Written(k, z, d, n) \in Digit
<1>1. 0 \in Digit BY TextAssumption DEF Digit
<1>2. CASE z < k /\ k <= z + n
  <2>1. PICK i \in 1 .. n : i = k - z BY <1>2
  <2>2. d[i] \in Digit OBVIOUS
  <2> QED BY <1>2, <2>1, <2>2 DEF Written
<1>3. CASE ~(z < k /\ k <= z + n) BY <1>1, <1>3 DEF Written
<1> QED BY <1>2, <1>3

\* A text that is written so pads the digits.
IsWritten(u, l, z, d, n) == Len(u) = l /\ \A k \in 1 .. l : u[k] = Written(k, z, d, n)

LEMMA WrittenPads ==
  ASSUME NEW d \in Seq(Digit), NEW n \in Nat, n = Len(d), NEW z \in Nat, NEW w \in Nat,
         NEW l \in Nat, l = z + n + w, NEW u \in Seq(Nat), IsWritten(u, l, z, d, n)
  PROVE  u \in Seq(Digit) /\ Padded(u, d, z, w)
<1>0. Len(u) = l /\ \A k \in 1 .. l : u[k] = Written(k, z, d, n) BY DEF IsWritten
<1>1. \A k \in 1 .. l : u[k] \in Digit BY <1>0, WrittenDigit
<1>2. u \in Seq(Digit)
  <2>1. \A k \in 1 .. Len(u) : u[k] \in Digit BY <1>0, <1>1
  <2>2. PICK x \in Nat : x = Len(u) OBVIOUS
  <2>3. u \in [1 .. x -> Nat] BY <2>2
  <2>4. u \in [1 .. x -> Digit] BY <2>1, <2>2, <2>3
  <2> QED BY <2>4, SeqDef
<1>3. ASSUME NEW k \in 1 .. z PROVE u[k] = 0
  <2>1. k \in 1 .. l /\ ~(z < k) OBVIOUS
  <2> QED BY <1>0, <2>1 DEF Written
<1>4. ASSUME NEW k \in 1 .. n PROVE u[z + k] = d[k]
  <2>1. PICK i \in Nat : i = z + k OBVIOUS
  <2>2. i \in 1 .. l /\ z < i /\ i <= z + n /\ i - z = k BY <2>1
  <2> QED BY <1>0, <2>1, <2>2 DEF Written
<1>5. ASSUME NEW k \in 1 .. w PROVE u[z + n + k] = 0
  <2>1. PICK i \in Nat : i = z + n + k OBVIOUS
  <2>2. i \in 1 .. l /\ ~(i <= z + n) BY <2>1
  <2> QED BY <1>0, <2>1, <2>2 DEF Written
<1> QED BY <1>0, <1>2, <1>3, <1>4, <1>5 DEF Padded

Spreads(body, q, b, z, d, n) ==
  /\ \A i \in 1 .. b : i # q => body[i] \in Digit
  /\ \A k \in 1 .. q - 1 : body[k] = Written(k, z, d, n)
  /\ \A k \in 1 .. b - q : body[q + k] = Written(q - 1 + k, z, d, n)

\* The characters of such a text before and after its point.
LEMMA SpreadIs ==
  ASSUME NEW d \in Seq(Digit), NEW n \in Nat, n = Len(d), NEW z \in Nat, NEW b \in Nat,
         NEW q \in 2 .. b - 1, NEW body \in Seq(Nat), Spread(body, q, b, z, d, n)
  PROVE  Spreads(body, q, b, z, d, n)
<1>1. \A k \in 1 .. b - 1 :
        (IF k < q THEN body[k] ELSE body[k + 1]) = Written(k, z, d, n)
  BY DEF Spread
<1>2. ASSUME NEW k \in 1 .. q - 1 PROVE body[k] = Written(k, z, d, n)
  <2>1. k \in 1 .. b - 1 /\ k < q OBVIOUS
  <2> QED BY <1>1, <2>1
<1>3. ASSUME NEW k \in 1 .. b - q PROVE body[q + k] = Written(q - 1 + k, z, d, n)
  <2>1. PICK i \in Nat : i = q - 1 + k OBVIOUS
  <2>2. i \in 1 .. b - 1 /\ ~(i < q) /\ i + 1 = q + k BY <2>1
  <2> QED BY <1>1, <2>1, <2>2
<1>4. ASSUME NEW i \in 1 .. b, i # q PROVE body[i] \in Digit
  <2>1. CASE i < q
    <3>1. i \in 1 .. q - 1 /\ i \in Nat BY <2>1
    <3> QED BY <1>2, <3>1, WrittenDigit
  <2>2. CASE ~(i < q)
    <3>1. PICK k \in Nat : k = i - 1 OBVIOUS
    <3>2. k \in 1 .. b - 1 /\ ~(k < q) /\ k + 1 = i BY <1>4, <2>2, <3>1
    <3>3. body[i] = Written(k, z, d, n) BY <1>1, <3>2
    <3> QED BY <3>3, WrittenDigit
  <2> QED BY <2>1, <2>2
<1> QED BY <1>2, <1>3, <1>4 DEF Spreads

\* A text with a point.
LEMMA DenotesWithPoint ==
  ASSUME NEW neg \in BOOLEAN, NEW d \in Seq(Digit), NEW n \in Nat, n = Len(d), NEW z \in Nat,
         NEW b \in Nat, NEW q \in 2 .. b - 1, NEW body \in Seq(Nat), Spread(body, q, b, z, d, n),
         body[1] = 0 => q = 2,
         NEW point \in Int, NEW exp10 \in Int, b - q = n - (point + exp10),
         NEW scale \in Int, NEW t, t = Sign(neg) \o body
  PROVE  DenotesThe(t, neg, d, point, exp10, scale)
<1>1. b = Len(body) /\ b = 1 + z + n /\ body[q] = Point BY DEF Spread
<1>2. /\ \A i \in 1 .. b : i # q => body[i] \in Digit
      /\ \A k \in 1 .. q - 1 : body[k] = Written(k, z, d, n)
      /\ \A k \in 1 .. b - q : body[q + k] = Written(q - 1 + k, z, d, n)
  <2>1. Spreads(body, q, b, z, d, n) BY SpreadIs
  <2> QED BY <2>1 DEF Spreads
<1>3. body[1] # Dash
  <2>1. 1 \in 1 .. b /\ 1 # q OBVIOUS
  <2> QED BY <1>2, <2>1, DigitIs
<1>4. PICK f : f = First(neg) OBVIOUS
<1>5. /\ f \in {1, 2} /\ t \in Seq(Nat) /\ Len(t) = f - 1 + b
      /\ \A k \in 1 .. b : t[f - 1 + k] = body[k]
      /\ (t[1] = Dash) <=> neg
      /\ \A i \in 1 .. f - 1 : t[i] # Point
  <2>1. b > 0 OBVIOUS
  <2>2. IsSigned(t, f, body, b, neg) BY <1>1, <1>3, <1>4, <2>1, Signed
  <2> QED BY <2>2 DEF IsSigned
<1>6. PICK l \in Nat : l = f - 1 + b BY <1>5
<1>7. PICK p \in Nat : p = f - 1 + q BY <1>5
<1>8. p \in f .. l /\ f < p /\ p < l /\ p - f = q - 1 /\ l - p = b - q /\ l - f = b - 1
  BY <1>5, <1>6, <1>7
<1>9. t[p] = Point
  <2>1. q \in 1 .. b OBVIOUS
  <2> QED BY <1>1, <1>5, <1>7, <2>1
<1>10. ASSUME NEW i \in 1 .. l, t[i] = Point PROVE i = p
  <2>1. SUFFICES ASSUME i # p PROVE FALSE OBVIOUS
  <2>2. ~(i \in 1 .. f - 1) BY <1>5, <1>10
  <2>3. PICK k \in Int : k = i - f + 1 BY <1>5
  <2>4. k \in 1 .. b /\ i = f - 1 + k /\ k # q BY <1>5, <1>6, <1>7, <2>1, <2>2, <2>3
  <2>5. t[i] = body[k] /\ body[k] \in Digit BY <1>2, <1>5, <2>4
  <2> QED BY <1>10, <2>5, DigitIs
<1>11. PICK u : u = Plain(t, f) OBVIOUS
<1>12. /\ FractionLength(t) = l - p
       /\ u \in Seq(Nat) /\ Len(u) = l - f
       /\ \A k \in 1 .. p - f : u[k] = t[f - 1 + k]
       /\ \A k \in 1 .. l - p : u[p - f + k] = t[p + k]
  <2>1. HasPoint(t, l, p) BY <1>9, <1>10 DEF HasPoint
  <2>3. f \in {1, 2} /\ t \in Seq(Nat) /\ l = Len(t) /\ p \in f .. l BY <1>5, <1>6, <1>8
  <2>2. SkipsPoint(u, t, l, f, p) BY <1>11, <2>1, <2>3, PlainWith
  <2> QED BY <2>2 DEF SkipsPoint
<1>13. ASSUME NEW k \in 1 .. b - 1 PROVE u[k] = Written(k, z, d, n)
  <2>1. CASE k <= q - 1
    <3>1. k \in 1 .. p - f /\ k \in 1 .. b /\ k \in 1 .. q - 1 BY <1>8, <2>1
    <3> QED BY <1>2, <1>5, <1>12, <3>1
  <2>2. CASE ~(k <= q - 1)
    <3>1. PICK i \in Int : i = k - (q - 1) OBVIOUS
    <3>6. i \in 1 .. b - q /\ q - 1 + i = k BY <2>2, <3>1
    <3>2. i \in 1 .. b - q /\ i \in 1 .. l - p /\ p - f + i = k /\ q - 1 + i = k
      BY <1>8, <3>6
    <3>3. PICK j \in Int : j = q + i BY <3>2
    <3>4. j \in 1 .. b /\ f - 1 + j = p + i BY <1>5, <1>7, <3>2, <3>3
    <3>5. u[k] = t[p + i] BY <1>12, <3>2
    <3>8. t[p + i] = body[j] BY <1>5, <3>4
    <3>7. body[j] = Written(k, z, d, n) BY <1>2, <3>2, <3>3
    <3> QED BY <3>5, <3>8, <3>7
  <2> QED BY <2>1, <2>2
<1>14. u \in Seq(Digit) /\ Padded(u, d, z, 0)
  <2>1. PICK m \in Nat : m = b - 1 OBVIOUS
  <2>2. m = z + n + 0 /\ Len(u) = m BY <1>1, <1>8, <1>12, <2>1
  <2>3. IsWritten(u, m, z, d, n) BY <1>13, <2>1, <2>2 DEF IsWritten
  <2> QED BY <1>12, <2>2, <2>3, WrittenPads
<1>15. NumberOf(u) = NumberOf(d)
  <2>1. PICK v \in Nat : v = NumberOf(d) BY <1>14, NumberPadded
  <2>2. NumberOf(u) = NumberOf(d) * Power(0) BY <1>14, NumberPadded
  <2>4. Power(0) = 1 BY PowerLaws
  <2>3. v * 1 = v OBVIOUS
  <2> QED BY <2>1, <2>2, <2>3, <2>4
<1>16. scale - FractionLength(t) = scale + exp10 - (Len(d) - point)
  <2>0. FractionLength(t) = b - q /\ b - q \in Int BY <1>8, <1>12
  <2>1. PICK e \in Int : e = FractionLength(t) /\ e = n - (point + exp10) BY <2>0
  <2>2. scale - e = scale + exp10 - (n - point) BY <2>1
  <2> QED BY <2>1, <2>2
<1>17. \A i \in f .. l : t[i] = Point => f < i /\ i < l
  <2>1. \A i \in f .. l : i \in 1 .. l BY <1>5
  <2> QED BY <1>8, <1>10, <2>1
<1>18. \A i, j \in f .. l : t[i] = Point /\ t[j] = Point => i = j
  <2>1. \A i \in f .. l : i \in 1 .. l BY <1>5
  <2> QED BY <1>10, <2>1
<1>19. t[f] = 0 => l > f /\ t[f + 1] = Point
  <2>1. 1 \in 1 .. b /\ f - 1 + 1 = f BY <1>5
  <2>2. t[f] = body[1] BY <1>5, <2>1
  <2>3. q = 2 => f + 1 = p BY <1>5, <1>7
  <2>4. l > f BY <1>5, <1>8
  <2> QED BY <1>9, <2>2, <2>3, <2>4
<1>20. f = IF neg THEN 2 ELSE 1 BY <1>4 DEF First
<1>21. l = Len(t) BY <1>5, <1>6
<1>22. NumberOf(Plain(t, f)) * Power(scale - FractionLength(t))
         = NumberOf(d) * Power(scale + exp10 - (Len(d) - point))
  BY <1>11, <1>15, <1>16
<1> QED BY <1>5, <1>11, <1>14, <1>17, <1>18, <1>19, <1>20, <1>21, <1>22 DEF DenotesThe

\* A text without one.
LEMMA DenotesWithout ==
  ASSUME NEW neg \in BOOLEAN, NEW d \in Seq(Digit), NEW n \in Nat, n = Len(d), n > 0,
         d[1] # 0, NEW w \in Nat, NEW b \in Nat, b = n + w,
         NEW body \in Seq(Nat), IsWritten(body, b, 0, d, n),
         NEW point \in Int, NEW exp10 \in Int, w = (point + exp10) - n,
         NEW scale \in Nat, NEW t, t = Sign(neg) \o body
  PROVE  DenotesThe(t, neg, d, point, exp10, scale)
<1>0. Len(body) = b /\ \A k \in 1 .. b : body[k] = Written(k, 0, d, n) BY DEF IsWritten
<1>1. \A k \in 1 .. b : body[k] \in Digit
  <2>1. 0 \in Nat OBVIOUS
  <2> QED BY <1>0, <2>1, WrittenDigit
<1>2. body[1] = d[1] /\ 1 \in 1 .. b
  <2>1. 1 \in 1 .. b /\ 0 < 1 /\ 1 <= 0 + n /\ 1 - 0 = 1 OBVIOUS
  <2> QED BY <1>0, <2>1 DEF Written
<1>3. PICK f : f = First(neg) OBVIOUS
<1>4. /\ f \in {1, 2} /\ t \in Seq(Nat) /\ Len(t) = f - 1 + b
      /\ \A k \in 1 .. b : t[f - 1 + k] = body[k]
      /\ (t[1] = Dash) <=> neg
      /\ \A i \in 1 .. f - 1 : t[i] # Point
  <2>1. b > 0 /\ b = Len(body) BY <1>0
  <2>2. body[1] # Dash BY <1>1, <1>2, DigitIs
  <2>3. IsSigned(t, f, body, b, neg) BY <1>3, <2>1, <2>2, Signed
  <2> QED BY <2>3 DEF IsSigned
<1>5. PICK l \in Nat : l = f - 1 + b BY <1>4
<1>6. ASSUME NEW i \in 1 .. l PROVE t[i] # Point
  <2>1. CASE i \in 1 .. f - 1 BY <1>4, <2>1
  <2>2. CASE ~(i \in 1 .. f - 1)
    <3>1. PICK k \in Int : k = i - f + 1 BY <1>4
    <3>2. k \in 1 .. b /\ i = f - 1 + k BY <1>4, <1>5, <2>2, <3>1
    <3>3. t[i] = body[k] /\ body[k] \in Digit BY <1>1, <1>4, <3>2
    <3> QED BY <3>3, DigitIs
  <2> QED BY <2>1, <2>2
<1>7. PICK u : u = Plain(t, f) OBVIOUS
<1>8. f <= l /\ l - f + 1 = b BY <1>4, <1>5
<1>9. /\ FractionLength(t) = 0
      /\ u \in Seq(Nat) /\ Len(u) = l - f + 1
      /\ \A k \in 1 .. l - f + 1 : u[k] = t[f - 1 + k]
  <2>1. NoPoint(t, l) BY <1>6 DEF NoPoint
  <2>3. f \in {1, 2} /\ t \in Seq(Nat) /\ l = Len(t) /\ f <= l BY <1>4, <1>5, <1>8
  <2>2. IsRest(u, t, l, f) BY <1>7, <2>1, <2>3, PlainWithout
  <2> QED BY <2>2 DEF IsRest
<1>10. u \in Seq(Digit) /\ Padded(u, d, 0, w)
  <2>1. ASSUME NEW k \in 1 .. b PROVE u[k] = Written(k, 0, d, n)
    <3>1. k \in 1 .. l - f + 1 BY <1>8
    <3>2. u[k] = t[f - 1 + k] BY <1>9, <3>1
    <3>3. t[f - 1 + k] = body[k] BY <1>4
    <3> QED BY <1>0, <3>2, <3>3
  <2>2. b = 0 + n + w /\ Len(u) = b BY <1>8, <1>9
  <2>3. IsWritten(u, b, 0, d, n) BY <2>1, <2>2 DEF IsWritten
  <2>4. 0 \in Nat /\ u \in Seq(Nat) BY <1>9
  <2> QED BY <2>2, <2>3, <2>4, WrittenPads
<1>11. PICK v \in Nat, x \in Nat, y \in Nat : v = NumberOf(d) /\ x = Power(w) /\ y = Power(scale)
  BY <1>10, NumberPadded, PowerType
<1>12. NumberOf(u) = v * x BY <1>10, <1>11, NumberPadded
<1>13. scale - FractionLength(t) = scale BY <1>9
<1>14. scale + exp10 - (Len(d) - point) = scale + w OBVIOUS
<1>15. Power(scale + w) = y * x BY <1>11, PowerSum
<1>16. (v * x) * y = v * (y * x) OBVIOUS
<1>17. NumberOf(u) * Power(scale - FractionLength(t))
         = NumberOf(d) * Power(scale + exp10 - (Len(d) - point))
  BY <1>11, <1>12, <1>13, <1>14, <1>15, <1>16
<1>18. t[f] # 0
  <2>1. f - 1 + 1 = f BY <1>4
  <2> QED BY <1>2, <1>4, <2>1
<1>19. \A i \in f .. l : t[i] # Point
  <2>1. \A i \in f .. l : i \in 1 .. l BY <1>4
  <2> QED BY <1>6, <2>1
<1>20. f = IF neg THEN 2 ELSE 1 BY <1>3 DEF First
<1> QED BY <1>4, <1>5, <1>7, <1>10, <1>17, <1>18, <1>19, <1>20 DEF DenotesThe

\* The three forms of the text after the sign: the point is dp digits from the left.
Body(d, n, dp) ==
  IF dp <= 0 THEN <<0, Point>> \o Zeros(-dp) \o d
  ELSE IF dp >= n THEN d \o Zeros(dp - n)
  ELSE SubSeq(d, 1, dp) \o <<Point>> \o SubSeq(d, dp + 1, n)

\* Digits are characters.
LEMMA DigitsAreText ==
  ASSUME NEW d \in Seq(Digit)
  PROVE  d \in Seq(Nat)
<1>1. PICK x \in Nat : x = Len(d) OBVIOUS
<1>2. \A k \in 1 .. x : d[k] \in Nat BY <1>1, DigitIs
<1>3. d \in [1 .. x -> Digit] BY <1>1
<1>4. d \in [1 .. x -> Nat] BY <1>2, <1>3
<1> QED BY <1>4, SeqDef

\* Less than one: zeros after the point.
LEMMA BodyBelowOne ==
  ASSUME NEW d \in Seq(Digit), NEW n \in Nat, n = Len(d), NEW dp \in Int, dp <= 0,
         NEW z \in Nat, z = 1 - dp, NEW b \in Nat, b = 1 + z + n, NEW body, body = Body(d, n, dp)
  PROVE  body \in Seq(Nat) /\ Spread(body, 2, b, z, d, n) /\ body[1] = 0
<1>1. PICK m \in Nat : m = -dp OBVIOUS
<1>2. PICK a, s, c : a = <<0, Point>> /\ s = Zeros(m) /\ c = a \o s OBVIOUS
<1>3. PICK two \in Nat : two = 2 OBVIOUS
<1>4. a \in Seq(Nat) /\ Len(a) = two /\ a[1] = 0 /\ a[2] = Point BY <1>2, <1>3 DEF Point
<1>5. s \in Seq(Nat) /\ Len(s) = m /\ \A k \in 1 .. m : s[k] = 0 BY <1>2, ZerosAre
<1>6. IsJoin(c, a, two, s, m) BY <1>2, <1>4, <1>5, JoinIs
<1>7. /\ c \in Seq(Nat) /\ Len(c) = two + m
      /\ \A k \in 1 .. two : c[k] = a[k]
      /\ \A k \in 1 .. m : c[two + k] = s[k]
  BY <1>6 DEF IsJoin
<1>8. PICK e \in Nat : e = two + m OBVIOUS
<1>9. IsJoin(body, c, e, d, n)
  <2>1. body = c \o d BY <1>1, <1>2 DEF Body
  <2>2. d \in Seq(Nat) /\ e = Len(c) BY <1>7, <1>8, DigitsAreText
  <2> QED BY <1>7, <2>1, <2>2, JoinIs
<1>10. /\ body \in Seq(Nat) /\ Len(body) = e + n
       /\ \A k \in 1 .. e : body[k] = c[k]
       /\ \A k \in 1 .. n : body[e + k] = d[k]
  BY <1>9 DEF IsJoin
<1>11. e = z + 1 /\ e >= 2 /\ two = 2 BY <1>1, <1>3, <1>8
<1>12. body[1] = 0 /\ body[2] = Point
  <2>1. 1 \in 1 .. e /\ 2 \in 1 .. e /\ 1 \in 1 .. two /\ 2 \in 1 .. two BY <1>11
  <2> QED BY <1>4, <1>7, <1>10, <2>1
<1>13. ASSUME NEW k \in 1 .. b - 1
       PROVE  (IF k < 2 THEN body[k] ELSE body[k + 1]) = Written(k, z, d, n)
  <2>1. k \in Nat /\ 1 <= k /\ k <= z + n OBVIOUS
  <2>2. CASE k < 2
    <3>1. k = 1 /\ ~(z < k) BY <1>11, <2>1, <2>2
    <3> QED BY <1>12, <3>1 DEF Written
  <2>3. CASE k >= 2 /\ k <= z
    <3>1. PICK i \in Int : i = k - 1 OBVIOUS
    <3>2. i \in 1 .. m /\ two + i = k + 1 /\ k + 1 \in 1 .. e BY <1>1, <1>11, <2>1, <2>3, <3>1
    <3>5. body[k + 1] = c[k + 1] BY <1>10, <3>2
    <3>6. c[two + i] = s[i] BY <1>7, <3>2
    <3>3. body[k + 1] = 0 BY <1>5, <3>2, <3>5, <3>6
    <3>4. ~(k < 2) /\ ~(z < k) BY <2>1, <2>3
    <3> QED BY <3>3, <3>4 DEF Written
  <2>4. CASE k >= 2 /\ ~(k <= z)
    <3>1. PICK i \in Int : i = k - z OBVIOUS
    <3>2. i \in 1 .. n /\ e + i = k + 1 BY <1>11, <2>1, <2>4, <3>1
    <3>3. body[k + 1] = d[i] BY <1>10, <3>2
    <3>4. ~(k < 2) /\ z < k /\ k <= z + n BY <2>1, <2>4
    <3> QED BY <3>1, <3>3, <3>4 DEF Written
  <2> QED BY <2>1, <2>2, <2>3, <2>4
<1>14. Len(body) = b BY <1>10, <1>11
<1> QED BY <1>10, <1>12, <1>13, <1>14 DEF Spread

\* A whole number: zeros at the end.
LEMMA BodyWhole ==
  ASSUME NEW d \in Seq(Digit), NEW n \in Nat, n = Len(d), NEW dp \in Int, dp > 0, dp >= n,
         NEW w \in Nat, w = dp - n, NEW b \in Nat, b = n + w, NEW body, body = Body(d, n, dp)
  PROVE  body \in Seq(Nat) /\ IsWritten(body, b, 0, d, n)
<1>1. PICK s : s = Zeros(w) OBVIOUS
<1>2. s \in Seq(Nat) /\ Len(s) = w /\ \A k \in 1 .. w : s[k] = 0 BY <1>1, ZerosAre
<1>3. body = d \o s
  <2>1. ~(dp <= 0) /\ dp >= n OBVIOUS
  <2> QED BY <1>1, <2>1 DEF Body
<1>4. IsJoin(body, d, n, s, w) BY <1>2, <1>3, DigitsAreText, JoinIs
<1>5. /\ body \in Seq(Nat) /\ Len(body) = n + w
      /\ \A k \in 1 .. n : body[k] = d[k]
      /\ \A k \in 1 .. w : body[n + k] = s[k]
  BY <1>4 DEF IsJoin
<1>6. ASSUME NEW k \in 1 .. b PROVE body[k] = Written(k, 0, d, n)
  <2>1. k \in Nat /\ 0 < k /\ k - 0 = k OBVIOUS
  <2>2. CASE k <= n
    <3>1. k \in 1 .. n /\ k <= 0 + n BY <2>1, <2>2
    <3> QED BY <1>5, <2>1, <3>1 DEF Written
  <2>3. CASE ~(k <= n)
    <3>1. PICK i \in Int : i = k - n OBVIOUS
    <3>2. i \in 1 .. w /\ n + i = k /\ ~(k <= 0 + n) BY <2>1, <2>3, <3>1
    <3> QED BY <1>2, <1>5, <3>2 DEF Written
  <2> QED BY <2>2, <2>3
<1> QED BY <1>5, <1>6 DEF IsWritten

\* The point between two digits.
LEMMA BodyBetween ==
  ASSUME NEW d \in Seq(Digit), NEW n \in Nat, n = Len(d), NEW dp \in Int, 0 < dp, dp < n,
         NEW q \in Nat, q = dp + 1, NEW b \in Nat, b = n + 1, NEW body, body = Body(d, n, dp)
  PROVE  body \in Seq(Nat) /\ body[1] = d[1] /\ Spread(body, q, b, 0, d, n)
<1>0. PICK m \in Nat : m = dp OBVIOUS
<1>01. PICK w \in Int : w = n - dp
  <2>1. n - dp \in Int OBVIOUS
  <2> QED BY <2>1
<1>1. m = dp /\ w = n - dp BY <1>0, <1>01
<1>2. w \in Nat BY <1>01, <1>1
<1>3. PICK a, s, e, c : /\ a = SubSeq(d, 1, dp) /\ s = <<Point>> /\ e = SubSeq(d, dp + 1, n)
                        /\ c = a \o s
  OBVIOUS
<1>4. d \in Seq(Nat) BY DigitsAreText
<1>5. IsPart(a, d, 0, m)
  <2>1. 0 + m <= Len(d) /\ 1 = 0 + 1 /\ dp = 0 + m /\ 0 \in Nat /\ 1 \in Int BY <1>1
  <2> QED BY <1>3, <1>4, <2>1, PartIs
<1>6. IsPart(e, d, m, w)
  <2>1. m + w <= Len(d) /\ dp + 1 = m + 1 /\ n = m + w /\ dp + 1 \in Int /\ n \in Int BY <1>1
  <2> QED BY <1>2, <1>3, <1>4, <2>1, PartIs
<1>7. PICK one \in Nat : one = 1 OBVIOUS
<1>8. s \in Seq(Nat) /\ Len(s) = one /\ s[1] = Point BY <1>3, <1>7 DEF Point
<1>9. IsJoin(c, a, m, s, one) BY <1>3, <1>5, <1>8, JoinIs DEF IsPart
<1>10. IsJoin(body, c, q, e, w)
  <2>1. ~(dp <= 0) /\ ~(dp >= n) OBVIOUS
  <2>2. body = c \o e BY <1>3, <2>1 DEF Body
  <2>3. c \in Seq(Nat) /\ q = Len(c) BY <1>1, <1>7, <1>9 DEF IsJoin
  <2>4. e \in Seq(Nat) /\ w = Len(e) BY <1>6 DEF IsPart
  <2> QED BY <1>2, <2>2, <2>3, <2>4, JoinIs
<1>11. /\ body \in Seq(Nat) /\ Len(body) = q + w
       /\ \A k \in 1 .. q : body[k] = c[k]
       /\ \A k \in 1 .. w : body[q + k] = e[k]
  BY <1>10 DEF IsJoin
<1>12. body[q] = Point
  <2>1. q \in 1 .. q /\ 1 \in 1 .. one /\ q = m + 1 BY <1>1, <1>7
  <2> QED BY <1>8, <1>9, <1>11, <2>1 DEF IsJoin
<1>13. \A k \in 1 .. m : body[k] = d[k]
  <2>1. ASSUME NEW k \in 1 .. m PROVE body[k] = d[k]
    <3>1. k \in 1 .. q /\ 0 + k = k BY <1>1
    <3> QED BY <1>5, <1>9, <1>11, <3>1 DEF IsJoin, IsPart
  <2> QED BY <2>1
<1>14. ASSUME NEW k \in 1 .. b - 1
       PROVE  (IF k < q THEN body[k] ELSE body[k + 1]) = Written(k, 0, d, n)
  <2>1. k \in Nat /\ 0 < k /\ k <= 0 + n /\ k - 0 = k OBVIOUS
  <2>2. Written(k, 0, d, n) = d[k] BY <2>1 DEF Written
  <2>3. CASE k < q
    <3>1. k \in 1 .. m BY <1>1, <2>1, <2>3
    <3> QED BY <1>13, <2>2, <2>3, <3>1
  <2>4. CASE ~(k < q)
    <3>1. PICK i \in Int : i = k - m OBVIOUS
    <3>2. i \in 1 .. w /\ m + i = k /\ q + i = k + 1 BY <1>1, <2>1, <2>4, <3>1
    <3>3. body[k + 1] = d[k] BY <1>6, <1>11, <3>2 DEF IsPart
    <3> QED BY <2>2, <2>4, <3>3
  <2> QED BY <2>3, <2>4
<1>15. Len(body) = b /\ b = 1 + 0 + n BY <1>1, <1>11
<1>16. 1 \in 1 .. m BY <1>1
<1> QED BY <1>11, <1>12, <1>13, <1>14, <1>15, <1>16 DEF Spread

\* What the text of a float denotes.
LEMMA FloatDenotes ==
  ASSUME NEW neg \in BOOLEAN, NEW d \in Seq(Digit), d # <<>>, d[1] # 0,
         NEW point \in Int, NEW exp10 \in Int,
         NEW t, t = kira_string_from_f64(neg, d, point, exp10)
  PROVE  DenotesThe(t, neg, d, point, exp10, Len(t) + 4)
<1>1. PICK n \in Nat : n = Len(d) OBVIOUS
<1>2. n > 0 BY <1>1
<1>3. PICK dp \in Int : dp = point + exp10 OBVIOUS
<1>4. PICK body : body = Body(d, n, dp) OBVIOUS
<1>5. t = Sign(neg) \o body
  BY <1>1, <1>3, <1>4 DEF kira_string_from_f64, PointPosition, Body, Sign
<1>6. ASSUME body \in Seq(Nat) PROVE Len(t) + 4 \in Nat
  <2>1. Sign(neg) \in Seq(Nat) BY DEF Sign, Dash
  <2>2. t \in Seq(Nat) BY <1>5, <1>6, <2>1
  <2> QED BY <2>2
<1>7. CASE dp <= 0
  <2>1. PICK z \in Nat : z = 1 - dp BY <1>7
  <2>2. PICK b \in Nat : b = 1 + z + n OBVIOUS
  <2>3. body \in Seq(Nat) /\ Spread(body, 2, b, z, d, n)
    BY <1>1, <1>4, <1>7, <2>1, <2>2, BodyBelowOne
  <2>4. 2 \in 2 .. b - 1 /\ b - 2 = n - (point + exp10) BY <1>2, <1>3, <1>7, <2>1, <2>2
  <2>5. PICK scale \in Int : scale = Len(t) + 4 BY <1>6, <2>3
  <2> QED BY <1>1, <1>5, <2>3, <2>4, <2>5, DenotesWithPoint
<1>8. CASE dp > 0 /\ dp >= n
  <2>1. PICK w \in Nat : w = dp - n BY <1>8
  <2>2. PICK b \in Nat : b = n + w OBVIOUS
  <2>3. body \in Seq(Nat) /\ IsWritten(body, b, 0, d, n)
    BY <1>1, <1>4, <1>8, <2>1, <2>2, BodyWhole
  <2>4. w = (point + exp10) - n BY <1>3, <2>1
  <2>5. PICK scale \in Nat : scale = Len(t) + 4 BY <1>6, <2>3
  <2> QED BY <1>1, <1>2, <1>5, <2>2, <2>3, <2>4, <2>5, DenotesWithout
<1>9. CASE dp > 0 /\ dp < n
  <2>1. PICK q \in Nat : q = dp + 1 BY <1>9
  <2>2. PICK b \in Nat : b = n + 1 OBVIOUS
  <2>3. body \in Seq(Nat) /\ Spread(body, q, b, 0, d, n) /\ body[1] # 0
    <3>1. 0 < dp /\ dp < n BY <1>9
    <3>2. q = dp + 1 /\ b = n + 1 /\ n = Len(d) /\ body = Body(d, n, dp)
      BY <1>1, <1>4, <2>1, <2>2
    <3>3. body \in Seq(Nat) BY <3>1, <3>2, BodyBetween
    <3>4. Spread(body, q, b, 0, d, n) BY <3>1, <3>2, BodyBetween
    <3>5. body[1] = d[1] BY <3>1, <3>2, BodyBetween
    <3> QED BY <3>3, <3>4, <3>5
  <2>4. q \in 2 .. b - 1 /\ b - q = n - (point + exp10) /\ 0 \in Nat BY <1>3, <1>9, <2>1, <2>2
  <2>5. PICK scale \in Int : scale = Len(t) + 4 BY <1>6, <2>3
  <2> QED BY <1>1, <1>5, <2>3, <2>4, <2>5, DenotesWithPoint
<1> QED BY <1>7, <1>8, <1>9

-----------------------------------------------------------------------------
(* kira_string_index_of.                                                   *)

FoundAt(h, nd, i) ==
  /\ ~SubstringTraps(h, i, i + Len(nd))
  /\ kira_string_substring(h, i, i + Len(nd)) = nd
FoundFirst(h, nd, r) ==
  IF r = -1 THEN \A i \in 0 .. Len(h) : ~FoundAt(h, nd, i)
  ELSE FoundAt(h, nd, r) /\ \A i \in 0 .. r - 1 : ~FoundAt(h, nd, i)

\* A search finds the first place.
LEMMA SearchFinds ==
  ASSUME NEW h \in Seq(Nat), NEW nd \in Seq(Nat), NEW r, r = kira_string_index_of(h, nd)
  PROVE  FoundFirst(h, nd, r)
<1>1. PICK l \in Nat, m \in Nat : l = Len(h) /\ m = Len(nd) OBVIOUS
<1>2. PICK hits : hits = {i \in 0 .. l - m : SubSeq(h, i + 1, i + m) = nd} OBVIOUS
<1>3. hits \in SUBSET Nat BY <1>2
<1>4. r = IF nd = <<>> THEN 0 ELSE IF hits = {} THEN -1 ELSE Min(hits)
  BY <1>1, <1>2 DEF kira_string_index_of, Scanned
<1>5. ASSUME NEW i \in Nat PROVE FoundAt(h, nd, i) <=> i \in hits
  <2>1. SubstringTraps(h, i, i + m) <=> ~(i \in 0 .. l - m) BY <1>1 DEF SubstringTraps
  <2> QED BY <1>1, <1>2, <2>1 DEF FoundAt, kira_string_substring
<1>6. CASE nd = <<>>
  <2>1. r = 0 BY <1>4, <1>6
  <2>2. m = 0 /\ 0 \in 0 .. l - m BY <1>1, <1>6
  <2>3. SubSeq(h, 0 + 1, 0 + m) = <<>>
    <3>1. 0 + 1 \in Int /\ 0 + m \in Int /\ 0 + m < 0 + 1 BY <2>2
    <3> QED BY <3>1, SubSeqEmpty
  <2>4. 0 \in hits BY <1>2, <1>6, <2>2, <2>3
  <2>5. FoundAt(h, nd, r) BY <1>5, <2>1, <2>4
  <2>6. 0 .. r - 1 = {} BY <2>1
  <2>7. r # -1 BY <2>1
  <2> QED BY <2>5, <2>6, <2>7 DEF FoundFirst
<1>7. CASE nd # <<>> /\ hits = {}
  <2>1. r = -1 BY <1>4, <1>7
  <2>2. \A i \in 0 .. Len(h) : ~FoundAt(h, nd, i) BY <1>5, <1>7
  <2> QED BY <2>1, <2>2 DEF FoundFirst
<1>8. CASE nd # <<>> /\ hits # {}
  <2>0. IsLeast(Min(hits), hits) BY <1>3, <1>8, MinIs
  <2>1. r \in hits /\ \A i \in hits : r <= i BY <1>4, <1>8, <2>0 DEF IsLeast
  <2>2. r \in Nat /\ r # -1 BY <1>3, <2>1
  <2>3. ASSUME NEW i \in 0 .. r - 1 PROVE ~FoundAt(h, nd, i)
    <3>1. i \in Nat /\ ~(r <= i) BY <2>2
    <3> QED BY <1>5, <2>1, <3>1
  <2> QED BY <1>5, <2>1, <2>2, <2>3 DEF FoundFirst
<1> QED BY <1>6, <1>7, <1>8

-----------------------------------------------------------------------------
(* The tokens of a command line.                                           *)

\* The first '=' follows the first e characters; e is the length without one.
FirstEquals(s, l, e) ==
  e \in 0 .. l /\ (\A i \in 1 .. e : s[i] # Equals) /\ (e < l => s[e + 1] = Equals)

\* What EqualsAt looks for.
LEMMA EqualsAtIs ==
  ASSUME NEW s \in Seq(Nat), NEW l \in Nat, l = Len(s), NEW e, e = EqualsAt(s)
  PROVE  FirstEquals(s, l, e)
<1>1. PICK at : at = {i \in DOMAIN s : s[i] = Equals} OBVIOUS
<1>2. at = {i \in 1 .. l : s[i] = Equals} /\ at \in SUBSET Nat BY <1>1
<1>3. e = IF at = {} THEN l ELSE Min(at) - 1 BY <1>1 DEF EqualsAt
<1>4. CASE at = {}
  <2>1. e = l BY <1>3, <1>4
  <2>2. \A i \in 1 .. e : s[i] # Equals BY <1>2, <1>4, <2>1
  <2> QED BY <2>1, <2>2 DEF FirstEquals
<1>5. CASE at # {}
  <2>1. PICK p : p = Min(at) OBVIOUS
  <2>0. IsLeast(Min(at), at) BY <1>2, <1>5, MinIs
  <2>2. p \in at /\ \A y \in at : p <= y BY <2>0, <2>1 DEF IsLeast
  <2>3. p \in 1 .. l /\ s[p] = Equals BY <1>2, <2>2
  <2>4. e = p - 1 BY <1>3, <1>5, <2>1
  <2>5. e \in 0 .. l /\ e + 1 = p BY <2>3, <2>4
  <2>6. ASSUME NEW i \in 1 .. e PROVE s[i] # Equals
    <3>1. i \in 1 .. l /\ ~(p <= i) BY <2>3, <2>4
    <3> QED BY <1>2, <2>2, <3>1
  <2> QED BY <2>3, <2>5, <2>6 DEF FirstEquals
<1> QED BY <1>4, <1>5

\* A token starts with its dashes.
LEMMA DashesAre ==
  ASSUME NEW t \in Seq(Nat), NEW l \in Nat, l = Len(t), NEW n, n = Dashes(t)
  PROVE  n \in Nat /\ n <= l /\ \A k \in 1 .. n : t[k] # Equals
<1>1. ASSUME NEW s \in Seq(Nat), NEW m \in Nat, m = Len(s), IsPrefix(s, t)
      PROVE  m <= l /\ \A k \in 1 .. m : t[k] = s[k]
  <2>1. m <= l /\ SubSeq(s, 1, m) = SubSeq(t, 1, m) BY <1>1 DEF IsPrefix
  <2>2. PICK x, y : x = SubSeq(s, 1, m) /\ y = SubSeq(t, 1, m) OBVIOUS
  <2>3. 0 \in Nat /\ 0 + m <= Len(s) /\ 0 + m <= Len(t) /\ 1 = 0 + 1 /\ m = 0 + m
       /\ 1 \in Int /\ m \in Int
    BY <1>1, <2>1
  <2>4. IsPart(x, s, 0, m) BY <2>2, <2>3, PartIs
  <2>5. IsPart(y, t, 0, m) BY <2>2, <2>3, PartIs
  <2>6. ASSUME NEW k \in 1 .. m PROVE t[k] = s[k]
    <3>1. 0 + k = k OBVIOUS
    <3> QED BY <2>1, <2>2, <2>4, <2>5, <3>1 DEF IsPart
  <2> QED BY <2>1, <2>6
<1>2. CASE StartsWith(t, <<Dash, Dash>>)
  <2>1. PICK s : s = <<Dash, Dash>> OBVIOUS
  <2>2. s \in Seq(Nat) /\ Len(s) = 2 /\ s[1] = Dash /\ s[2] = Dash BY <2>1 DEF Dash
  <2>3. PICK m \in Nat : m = 2 OBVIOUS
  <2>4. IsPrefix(s, t) BY <1>2, <2>1 DEF StartsWith
  <2>5. m <= l /\ \A k \in 1 .. m : t[k] = s[k] BY <1>1, <2>2, <2>3, <2>4
  <2>6. n = m BY <1>2, <2>3 DEF Dashes
  <2>7. ASSUME NEW k \in 1 .. m PROVE t[k] # Equals
    <3>1. k = 1 \/ k = 2 BY <2>3
    <3> QED BY <2>2, <2>5, <3>1 DEF Dash, Equals
  <2> QED BY <2>5, <2>6, <2>7
<1>3. CASE ~StartsWith(t, <<Dash, Dash>>) /\ StartsWith(t, <<Dash>>)
  <2>1. PICK s : s = <<Dash>> OBVIOUS
  <2>2. s \in Seq(Nat) /\ Len(s) = 1 /\ s[1] = Dash BY <2>1 DEF Dash
  <2>3. PICK m \in Nat : m = 1 OBVIOUS
  <2>4. IsPrefix(s, t) BY <1>3, <2>1 DEF StartsWith
  <2>5. m <= l /\ \A k \in 1 .. m : t[k] = s[k] BY <1>1, <2>2, <2>3, <2>4
  <2>6. n = m BY <1>3, <2>3 DEF Dashes
  <2>7. ASSUME NEW k \in 1 .. m PROVE t[k] # Equals
    <3>1. k = 1 BY <2>3
    <3> QED BY <2>2, <2>5, <3>1 DEF Dash, Equals
  <2> QED BY <2>5, <2>6, <2>7
<1>4. CASE ~StartsWith(t, <<Dash, Dash>>) /\ ~StartsWith(t, <<Dash>>)
  <2>1. n = 0 BY <1>4 DEF Dashes
  <2> QED BY <2>1
<1> QED BY <1>2, <1>3, <1>4

\* A token is its dashes, its name and, after '=', its value.
LEMMA TokenSplits ==
  ASSUME NEW t \in Seq(Nat)
  PROVE  t = SubSeq(t, 1, Dashes(t)) \o kap_option_name(t)
               \o IF kap_has_inline_value(t) THEN <<Equals>> \o kap_inline_value(t) ELSE <<>>
<1>1. PICK l \in Nat : l = Len(t) OBVIOUS
<1>2. PICK n \in Nat : n = Dashes(t) /\ n <= l /\ \A k \in 1 .. n : t[k] # Equals
  BY <1>1, DashesAre
<1>3. PICK e : e = EqualsAt(t) OBVIOUS
<1>4. e \in 0 .. l /\ (\A i \in 1 .. e : t[i] # Equals) /\ (e < l => t[e + 1] = Equals)
  BY <1>1, <1>3, EqualsAtIs DEF FirstEquals
<1>5. n <= e
  <2>1. SUFFICES ASSUME e < n PROVE FALSE BY <1>4
  <2>2. e < l /\ e + 1 \in 1 .. n BY <1>2, <1>4, <2>1
  <2> QED BY <1>2, <1>4, <2>2
<1>6. PICK rest : rest = SubSeq(t, n + 1, l) OBVIOUS
<1>7. PICK m \in Nat : m = l - n BY <1>2
<1>8. IsPart(rest, t, n, m)
  <2>1. n + m <= Len(t) /\ l = n + m /\ n + 1 \in Int /\ l \in Int BY <1>1, <1>7
  <2> QED BY <1>6, <2>1, PartIs
<1>9. rest \in Seq(Nat) /\ Len(rest) = m /\ \A k \in 1 .. m : rest[k] = t[n + k]
  BY <1>8 DEF IsPart
<1>10. PICK r : r = EqualsAt(rest) OBVIOUS
<1>11. r \in 0 .. m /\ (\A i \in 1 .. r : rest[i] # Equals) /\ (r < m => rest[r + 1] = Equals)
  BY <1>9, <1>10, EqualsAtIs DEF FirstEquals
<1>12. n + r = e
  <2>1. CASE n + r < e
    <3>1. PICK i \in Nat : i = r + 1 BY <1>11
    <3>2. i \in 1 .. m /\ r < m /\ n + i \in 1 .. e BY <1>4, <1>7, <1>11, <2>1, <3>1
    <3> QED BY <1>4, <1>9, <1>11, <3>1, <3>2
  <2>2. CASE n + r > e
    <3>1. PICK i \in Int : i = e + 1 - n BY <1>4
    <3>2. i \in 1 .. m /\ i \in 1 .. r /\ e < l /\ n + i = e + 1
      BY <1>4, <1>5, <1>7, <1>11, <2>2, <3>1
    <3> QED BY <1>4, <1>9, <1>11, <3>2
  <2> QED BY <1>4, <1>11, <2>1, <2>2
<1>13. PICK name : name = SubSeq(rest, 1, r) OBVIOUS
<1>14. kap_option_name(t) = name
  BY <1>1, <1>2, <1>6, <1>10, <1>13 DEF kap_option_name, NameOf
<1>15. r \in Nat /\ e \in Nat BY <1>4, <1>11
<1>16. IsPart(name, rest, 0, r)
  <2>1. 0 + r <= Len(rest) /\ 1 = 0 + 1 /\ r = 0 + r /\ 0 \in Nat /\ 1 \in Int /\ r \in Int
    BY <1>9, <1>11
  <2> QED BY <1>9, <1>13, <1>15, <2>1, PartIs
<1>17. PICK a : a = SubSeq(t, 1, n) OBVIOUS
<1>18. IsPart(a, t, 0, n)
  <2>1. 0 + n <= Len(t) /\ 1 = 0 + 1 /\ n = 0 + n /\ 0 \in Nat /\ 1 \in Int /\ n \in Int
    BY <1>1, <1>2
  <2> QED BY <1>17, <2>1, PartIs
<1>19. PICK c : c = a \o name OBVIOUS
<1>20. IsJoin(c, a, n, name, r) BY <1>15, <1>16, <1>18, <1>19, JoinIs DEF IsPart
<1>21. c \in Seq(Nat) /\ Len(c) = e BY <1>12, <1>20 DEF IsJoin
<1>22. ASSUME NEW k \in 1 .. e PROVE c[k] = t[k]
  <2>1. CASE k <= n
    <3>1. k \in 1 .. n /\ 0 + k = k BY <2>1
    <3> QED BY <1>18, <1>20, <3>1 DEF IsJoin, IsPart
  <2>2. CASE ~(k <= n)
    <3>1. PICK i \in Int : i = k - n OBVIOUS
    <3>2. i \in 1 .. r /\ i \in 1 .. m /\ n + i = k /\ 0 + i = i
      BY <1>11, <1>12, <1>15, <2>2, <3>1
    <3>3. c[k] = name[i] BY <1>20, <3>2 DEF IsJoin
    <3>4. name[i] = rest[i] BY <1>16, <3>2 DEF IsPart
    <3> QED BY <1>9, <3>2, <3>3, <3>4
  <2> QED BY <2>1, <2>2
<1>23. kap_has_inline_value(t) <=> e < l BY <1>1, <1>3 DEF kap_has_inline_value
<1>24. CASE e < l
  <2>1. PICK x : x = SubSeq(t, e + 2, l) OBVIOUS
  <2>2. kap_inline_value(t) = x BY <1>1, <1>3, <1>23, <1>24, <2>1 DEF kap_inline_value
  <2>3. PICK f \in Nat : f = e + 1 BY <1>15
  <2>4. PICK w \in Nat : w = l - f BY <1>15, <1>24, <2>3
  <2>5. IsPart(x, t, f, w)
    <3>1. f + w <= Len(t) /\ e + 2 = f + 1 /\ l = f + w /\ e + 2 \in Int /\ l \in Int
      BY <1>1, <1>15, <2>3, <2>4
    <3> QED BY <2>1, <3>1, PartIs
  <2>6. PICK s, one : s = <<Equals>> /\ one = 1 OBVIOUS
  <2>7. s \in Seq(Nat) /\ Len(s) = one /\ s[1] = Equals /\ one \in Nat BY <2>6 DEF Equals
  <2>8. PICK v : v = s \o x OBVIOUS
  <2>9. IsJoin(v, s, one, x, w) BY <2>5, <2>7, <2>8, JoinIs DEF IsPart
  <2>10. PICK z \in Nat : z = w + 1 OBVIOUS
  <2>11. v \in Seq(Nat) /\ z = Len(v) BY <2>6, <2>9, <2>10 DEF IsJoin
  <2>12. PICK g : g = c \o v OBVIOUS
  <2>13. IsJoin(g, c, e, v, z) BY <1>15, <1>21, <2>11, <2>12, JoinIs
  <2>14. g \in Seq(Nat) /\ l = Len(g)
    <3>1. e + z = l BY <1>15, <2>3, <2>4, <2>10
    <3> QED BY <2>13, <3>1 DEF IsJoin
  <2>15. ASSUME NEW k \in 1 .. l PROVE g[k] = t[k]
    <3>1. CASE k <= e
      <4>1. k \in 1 .. e BY <3>1
      <4> QED BY <1>22, <2>13, <4>1 DEF IsJoin
    <3>2. CASE k = e + 1
      <4>1. 1 \in 1 .. z /\ 1 \in 1 .. one BY <2>6, <2>10
      <4>2. g[e + 1] = v[1] BY <2>13, <4>1 DEF IsJoin
      <4>3. v[1] = s[1] BY <2>9, <4>1 DEF IsJoin
      <4> QED BY <1>4, <1>24, <2>7, <3>2, <4>2, <4>3
    <3>3. CASE k > e + 1
      <4>1. PICK i \in Int : i = k - f BY <2>3
      <4>2. i \in 1 .. w /\ f + i = k BY <1>15, <2>3, <2>4, <3>3, <4>1
      <4>3. PICK j \in Int : j = one + i BY <2>6, <4>2
      <4>4. j \in 1 .. z /\ e + j = k BY <1>15, <2>3, <2>6, <2>10, <4>2, <4>3
      <4>5. g[k] = v[j] BY <2>13, <4>4 DEF IsJoin
      <4>6. v[j] = x[i] BY <2>9, <4>2, <4>3 DEF IsJoin
      <4> QED BY <2>5, <4>2, <4>5, <4>6 DEF IsPart
    <3> QED BY <1>15, <3>1, <3>2, <3>3
  <2>16. g = t BY <1>1, <2>14, <2>15, SameText
  <2> QED BY <1>2, <1>14, <1>17, <1>19, <1>23, <1>24, <2>2, <2>6, <2>8, <2>12, <2>16
<1>25. CASE ~(e < l)
  <2>1. e = l BY <1>4, <1>25
  <2>2. c = t BY <1>1, <1>21, <1>22, <2>1, SameText
  <2>3. c \o <<>> = c BY <1>21, ConcatEmptySeq
  <2> QED BY <1>2, <1>14, <1>17, <1>19, <1>23, <1>25, <2>2, <2>3
<1> QED BY <1>24, <1>25

-----------------------------------------------------------------------------
(* What a call returned.                                                   *)

\* A call is one the program makes; its result is the one of that call.
TextInv ==
  /\ job \in Jobs \cup {NoJob}
  /\ out = NoJob \/ out = [op |-> job.op, value |-> Result(job)]

\* Every other step leaves the call and its result alone.
LEMMA OtherSteps ==
  ASSUME Next
  PROVE  TextCall \/ UNCHANGED <<job, out>>
<1>1. CASE \E kind \in {"string", "struct"} : NewElement(kind) BY <1>1 DEF NewElement, Quiet
<1>2. CASE \E b \in locals : DropElement(b) \/ NullStoreRelease(b) \/ NullAppend(b)
  BY <1>2 DEF DropElement, NullStoreRelease, NullAppend, Quiet
<1>3. CASE \E len \in 0 .. MaxLen, elem \in {"int", "string", "struct"}, exported \in BOOLEAN :
             ArrayAlloc(len, elem, exported)
  BY <1>3 DEF ArrayAlloc, Quiet
<1>4. ASSUME NEW a \in Arrays,
             \/ \E b \in locals \cup {Null} : ArrayAppend(a, b)
             \/ \E i \in Indices(a), b \in locals \cup {Null} : ArrayStoreRelease(a, i, b)
             \/ \E i \in Indices(a) : ArrayStoreBack(a, i) \/ ArrayTake(a, i)
             \/ \E failed \in SUBSET (1 .. array[a].len) : ArrayClone(a, failed)
             \/ ArrayRelease(a) \/ SetField(a)
      PROVE  UNCHANGED <<job, out>>
  <2>1. CASE \E b \in locals \cup {Null} : ArrayAppend(a, b) BY <2>1 DEF ArrayAppend, Quiet
  <2>2. CASE \E i \in Indices(a), b \in locals \cup {Null} : ArrayStoreRelease(a, i, b)
    BY <2>2 DEF ArrayStoreRelease, Quiet
  <2>3. CASE \E i \in Indices(a) : ArrayStoreBack(a, i) \/ ArrayTake(a, i)
    BY <2>3 DEF ArrayStoreBack, ArrayTake, Quiet
  <2>4. CASE \E failed \in SUBSET (1 .. array[a].len) : ArrayClone(a, failed)
    BY <2>4 DEF ArrayClone, Quiet
  <2>5. CASE ArrayRelease(a) BY <2>5 DEF ArrayRelease, Quiet
  <2>6. CASE SetField(a) BY <2>6 DEF SetField, Quiet
  <2> QED BY <1>4, <2>1, <2>2, <2>3, <2>4, <2>5, <2>6
<1>5. CASE (\E export \in BOOLEAN : NewClosure(export)) \/ \E b \in Live : DestroyClosure(b)
  BY <1>5 DEF NewClosure, DestroyClosure
<1>6. CASE \/ \E tracked \in BOOLEAN : StateAlloc(tracked)
           \/ \E t \in Tokens : StateFree(t) \/ \E b \in locals : StateStore(t, b)
  BY <1>6 DEF StateAlloc, StateFree, StateStore, Quiet
<1>7. CASE Exit BY <1>7 DEF Exit
<1>8. CASE TextCall BY <1>8
<1> QED BY <1>1, <1>2, <1>3, <1>4, <1>5, <1>6, <1>7, <1>8 DEF Next

\* Every result is the one of its call.
LEMMA TextInductive == Spec => []TextInv
<1>1. Init => TextInv BY DEF Init, TextInv
<1>2. TextInv /\ [Next]_vars => TextInv'
  <2> SUFFICES ASSUME TextInv, [Next]_vars PROVE TextInv' OBVIOUS
  <2>1. TextCall \/ UNCHANGED <<job, out>> BY OtherSteps DEF vars
  <2>2. CASE TextCall BY <2>2 DEF TextInv, TextCall
  <2>3. CASE UNCHANGED <<job, out>>
    <3>1. Result(job') = Result(job) BY <2>3
    <3> QED BY <2>3 DEF TextInv
  <2> QED BY <2>1, <2>2, <2>3
<1> QED BY <1>1, <1>2, PTL DEF Spec

\* The results of all three kinds of call mean what they should.
LEMMA TextsExact ==
  ASSUME TextInv
  PROVE  TextsAreExact
<1>1. ASSUME NEW op \in {"float", "token", "search"}, out.op = op
      PROVE  job \in Jobs /\ job.op = op /\ out.value = Result(job)
  <2>1. out # NoJob BY <1>1 DEF NoJob
  <2>2. out = [op |-> job.op, value |-> Result(job)] BY <2>1 DEF TextInv
  <2>3. job.op = op /\ out.value = Result(job) BY <1>1, <2>2
  <2>4. job # NoJob BY <2>3 DEF NoJob
  <2> QED BY <2>3, <2>4 DEF TextInv
<1>2. FloatsArePlain
  <2> SUFFICES ASSUME out.op = "float"
               PROVE  DenotesThe(out.value, job.neg, job.digits, job.point, job.exp10,
                                 Len(out.value) + 4)
    BY DEF FloatsArePlain
  <2>1. job \in Jobs /\ job.op = "float" /\ out.value = Result(job) BY <1>1
  <2>2. /\ job.neg \in BOOLEAN /\ job.digits \in Seq(Digit) /\ job.digits # <<>>
        /\ job.digits[1] # 0 /\ job.point = 1 /\ job.exp10 \in Int
    BY <2>1, JobsAssumption
  <2>3. out.value = kira_string_from_f64(job.neg, job.digits, job.point, job.exp10)
    BY <2>1 DEF Result
  <2>4. job.point \in Int BY <2>2
  <2> QED BY <2>2, <2>3, <2>4, FloatDenotes
<1>3. TokensSplit
  <2> SUFFICES ASSUME out.op = "token"
               PROVE  job.token = SubSeq(job.token, 1, Dashes(job.token)) \o out.value.name
                        \o IF out.value.valued THEN <<Equals>> \o out.value.value ELSE <<>>
    BY DEF TokensSplit
  <2>1. job \in Jobs /\ job.op = "token" /\ out.value = Result(job) BY <1>1
  <2>2. job.token \in Seq(Nat) BY <2>1, JobsAssumption
  <2>3. /\ out.value.name = kap_option_name(job.token)
        /\ out.value.valued = kap_has_inline_value(job.token)
        /\ out.value.value = kap_inline_value(job.token)
    BY <2>1 DEF Result
  <2> QED BY <2>2, <2>3, TokenSplits
<1>4. SearchFindsTheFirst
  <2> SUFFICES ASSUME out.op = "search"
               PROVE  FoundFirst(job.haystack, job.needle, out.value)
    BY DEF SearchFindsTheFirst, FoundFirst, FoundAt
  <2>1. job \in Jobs /\ job.op = "search" /\ out.value = Result(job) BY <1>1
  <2>2. job.haystack \in Seq(Nat) /\ job.needle \in Seq(Nat) BY <2>1, JobsAssumption
  <2>3. out.value = kira_string_index_of(job.haystack, job.needle) BY <2>1 DEF Result
  <2> QED BY <2>2, <2>3, SearchFinds
<1> QED BY <1>2, <1>3, <1>4 DEF TextsAreExact

\* What the text primitives return is exact, for every float, token and search:
\* the plain form denotes the same number, an option token is its dashes, name and value,
\* and a search finds the first place (runtime_helpers.c, argument_parser.c).
THEOREM ExactTexts == Spec => []TextsAreExact
<1>1. TextInv => TextsAreExact BY TextsExact
<1> QED BY <1>1, TextInductive, PTL

=============================================================================
