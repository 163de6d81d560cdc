-------------------------- MODULE DynamicFfiProofs --------------------------
(***************************************************************************)
(* Proofs about DynamicFfi, for any libraries, types and bounds.           *)
(***************************************************************************)
EXTENDS DynamicFfi, TLAPS, WellFoundedInduction, SequenceTheorems

\* An argument a program passes, and the word it is kept in.
Argument == {a \in [type : Scalars, value : Int] : a.value \in ValuesOf(a.type)}
Word == [type : Scalars, word : Int]

WordOf(a) == [type |-> a.type, word |-> ToWord(a.type, a.value)]

\* A builder keeps the words of the first arguments asked for.
Builder ==
  {b \in [live : BOOLEAN, capacity : Nat, args : Seq(Word), asked : Seq(Argument)] :
     /\ Len(b.args) = IF Len(b.asked) < b.capacity THEN Len(b.asked) ELSE b.capacity
     /\ \A k \in 1 .. Len(b.args) : b.args[k] = WordOf(b.asked[k])}

\* A running function has the arguments that were asked for.
Frame ==
  {f \in [function : Functions, result : ResultTypes, asked : Seq(Argument), got : Seq(Argument)] :
     f.got = f.asked}

Loader ==
  /\ refs \in [Libs -> Int] /\ opened \in [Libs -> Int]
  /\ ffi.lib \in Libs \cup {None}
  /\ LibffiIsHeldOnce

IndInv ==
  /\ Loader
  /\ builder \in [Handles -> Builder] /\ stack \in Seq(Frame)
  /\ ErrorTellsTheOutcome

-----------------------------------------------------------------------------
(* Arithmetic of words.                                                    *)

\* The order of the natural numbers, as a relation.
LEMMA LessPairs ==
  ASSUME NEW x \in Nat, NEW y \in Nat, y < x
  PROVE  <<y, x>> \in OpToRel(<, Nat)
BY DEF OpToRel

\* A non-empty set of natural numbers has a least one.
LEMMA FirstOf ==
  ASSUME NEW S \in SUBSET Nat, S # {}
  PROVE  \E x \in S : \A y \in S : x <= y
<1>1. PICK x \in S : \A y \in S : ~(<<y, x>> \in OpToRel(<, Nat))
  BY NatLessThanWellFounded, WFMin
<1>2. \A y \in S : x <= y
  <2> SUFFICES ASSUME NEW y \in S PROVE x <= y OBVIOUS
  <2>1. x \in Nat /\ y \in Nat OBVIOUS
  <2>2. ~(y < x) BY <1>1, <2>1, LessPairs
  <2> QED BY <2>1, <2>2
<1> QED BY <1>2

LEMMA Division ==
  ASSUME NEW x \in Int, NEW m \in Nat \ {0}
  PROVE  x % m \in 0 .. m - 1 /\ \E k \in Int : x = m * k + (x % m)
<1>1. x = m * (x \div m) + (x % m) /\ x \div m \in Int OBVIOUS
<1>2. x % m \in 0 .. m - 1 OBVIOUS
<1> QED BY <1>1, <1>2

LEMMA DivisionUnique ==
  ASSUME NEW m \in Nat \ {0}, NEW k \in Int, NEW s \in 0 .. m - 1, NEW x \in Int, x = m * k + s
  PROVE  x % m = s
<1>1. PICK j \in Int : x = m * j + (x % m) BY Division
<1>2. x % m \in 0 .. m - 1 BY Division
<1>3. m * (k - j) = (x % m) - s BY <1>1, <1>2
<1>4. CASE k - j >= 1
  <2>1. m * (k - j) >= m BY <1>4
  <2> QED BY <2>1, <1>2, <1>3
<1>5. CASE k - j <= -1
  <2>1. m * (k - j) <= -m BY <1>5
  <2> QED BY <2>1, <1>2, <1>3
<1>6. CASE k = j BY <1>1, <1>6
<1> QED BY <1>4, <1>5, <1>6

LEMMA SmallNumber ==
  ASSUME NEW m \in Nat \ {0}, NEW s \in 0 .. m - 1
  PROVE  s % m = s
<1>1. s = m * 0 + s /\ s \in Int OBVIOUS
<1> QED BY <1>1, DivisionUnique

LEMMA Regroup ==
  ASSUME NEW m \in Int, NEW q \in Int, NEW a \in Int, NEW b \in Int, NEW r \in Int, NEW s \in Int,
         (m * q) * a + r = m * b + s
  PROVE  r = m * (b - q * a) + s
<1>1. (m * q) * a = m * (q * a) OBVIOUS
<1>2. PICK qa \in Int : qa = q * a OBVIOUS
<1>3. m * (b - qa) = m * b - m * qa OBVIOUS
<1>4. PICK mqa \in Int : mqa = m * qa OBVIOUS
<1>5. PICK mb \in Int : mb = m * b OBVIOUS
<1>6. PICK mqa2 \in Int : mqa2 = (m * q) * a OBVIOUS
<1>7. mqa2 = mqa BY <1>1, <1>2, <1>4, <1>6
<1>8. mqa2 + r = mb + s BY <1>5, <1>6
<1>9. r = mb - mqa + s BY <1>7, <1>8
<1> QED BY <1>2, <1>3, <1>4, <1>5, <1>9

-----------------------------------------------------------------------------
(* Types and words.                                                        *)

LEMMA PowersPositive == \A n \in 0 .. WordWidth : Modulus(n) \in Nat \ {0}
<1> DEFINE Bad == {n \in 0 .. WordWidth : Modulus(n) \notin Nat \ {0}}
<1>1. SUFFICES ASSUME Bad # {} PROVE FALSE OBVIOUS
<1>2. WordWidth \in Nat /\ Base \in Nat \ {0} BY MemoryAssumption
<1>0. Bad \in SUBSET Nat BY <1>2
<1>3. PICK n \in Bad : \A y \in Bad : n <= y BY <1>0, <1>1, FirstOf
<1>4. n # 0 BY <1>3, PowerAssumption
<1>5. PICK m \in 0 .. WordWidth - 1 : m = n - 1 /\ n = m + 1 BY <1>2, <1>3, <1>4
<1>6. m \in 0 .. WordWidth /\ m \notin Bad BY <1>2, <1>3, <1>5
<1>7. PICK p \in Nat \ {0} : p = Modulus(m) BY <1>6
<1>8. Modulus(n) = Base * p BY <1>5, <1>7, PowerAssumption
<1>9. Base * p \in Nat \ {0} BY <1>2, <1>7
<1> QED BY <1>3, <1>8, <1>9

LEMMA PowersDivide ==
  ASSUME NEW n \in 0 .. WordWidth
  PROVE  \E k \in Nat \ {0} : Modulus(WordWidth) = Modulus(n) * k
<1> DEFINE Divides(d) == \E k \in Nat \ {0} : Modulus(WordWidth) = Modulus(WordWidth - d) * k
           Bad == {d \in 0 .. WordWidth : ~Divides(d)}
<1>1. WordWidth \in Nat /\ Base \in Nat \ {0} BY MemoryAssumption
<1>2. Bad = {}
  <2>1. SUFFICES ASSUME Bad # {} PROVE FALSE OBVIOUS
  <2>0. Bad \in SUBSET Nat BY <1>1
  <2>2. PICK d \in Bad : \A y \in Bad : d <= y BY <2>0, <2>1, FirstOf
  <2>3. d # 0
    <3>1. WordWidth - 0 = WordWidth /\ WordWidth \in 0 .. WordWidth BY <1>1
    <3>2. PICK p \in Nat \ {0} : p = Modulus(WordWidth) BY <3>1, PowersPositive
    <3>3. p = p * 1 BY <3>2
    <3>4. Divides(0) BY <3>1, <3>2, <3>3
    <3> QED BY <2>2, <3>4
  <2>4. PICK e \in 0 .. WordWidth, m \in 0 .. WordWidth - 1 :
          e = d - 1 /\ m = WordWidth - d /\ m + 1 = WordWidth - e
    BY <1>1, <2>2, <2>3
  <2>5. Divides(e) BY <1>1, <2>2, <2>4
  <2>6. PICK k \in Nat \ {0} : Modulus(WordWidth) = Modulus(m + 1) * k BY <2>4, <2>5
  <2>7. Modulus(m + 1) = Base * Modulus(m) BY <2>4, PowerAssumption
  <2>8. m \in 0 .. WordWidth BY <1>1, <2>4
  <2>9. PICK p \in Nat \ {0} : p = Modulus(m) BY <2>8, PowersPositive
  <2>10. (Base * p) * k = p * (Base * k) /\ Base * k \in Nat \ {0} BY <1>1, <2>6, <2>9
  <2>11. Modulus(WordWidth) = Modulus(m) * (Base * k) BY <2>6, <2>7, <2>9, <2>10
  <2>12. Divides(d) BY <2>4, <2>10, <2>11
  <2> QED BY <2>2, <2>12
<1>3. PICK d \in 0 .. WordWidth : n = WordWidth - d
  <2>1. WordWidth - n \in 0 .. WordWidth /\ n = WordWidth - (WordWidth - n) BY <1>1
  <2> QED BY <2>1
<1>4. Divides(d) BY <1>2
<1> QED BY <1>3, <1>4

\* The moduli are positive and the word's is a multiple of each.
LEMMA Moduli ==
  ASSUME NEW t \in Scalars
  PROVE  /\ Modulus(Width[t]) \in Nat \ {0} /\ Modulus(WordWidth) \in Nat \ {0}
         /\ \E k \in Nat \ {0} : Modulus(WordWidth) = Modulus(Width[t]) * k
<1>1. WordWidth \in 0 .. WordWidth /\ Width[t] \in 0 .. WordWidth
  BY MemoryAssumption DEF Scalars
<1> QED BY <1>1, PowersPositive, PowersDivide

\* Cutting a number to a word first does not change its bits.
LEMMA Wrapped ==
  ASSUME NEW t \in Scalars, NEW x \in Int
  PROVE  (x % Modulus(WordWidth)) % Modulus(Width[t]) = x % Modulus(Width[t])
<1> DEFINE m == Modulus(Width[t])  M == Modulus(WordWidth)  r == x % M  s == x % m
<1>1. m \in Nat \ {0} /\ M \in Nat \ {0} BY Moduli
<1>2. PICK q \in Nat \ {0} : M = m * q BY Moduli
<1> HIDE DEF m, M
<1>3. r \in Int /\ s \in 0 .. m - 1 BY <1>1, Division
<1>4. PICK a \in Int : x = M * a + r BY <1>1, Division
<1>5. PICK b \in Int : x = m * b + s BY <1>1, Division
<1> HIDE DEF r, s
<1>6. r = m * (b - q * a) + s BY <1>1, <1>2, <1>3, <1>4, <1>5, Regroup
<1>7. PICK d \in Int : d = b - q * a BY <1>2
<1>8. r = m * d + s BY <1>6, <1>7
<1>9. r % m = s BY <1>1, <1>3, <1>8, DivisionUnique
<1> QED BY <1>9 DEF r, s, m, M

\* A value of a type is recovered from its bit pattern.
LEMMA BitsOfValue ==
  ASSUME NEW t \in Scalars, NEW v \in ValuesOf(t)
  PROVE  v \in Int /\ AsType(t, v % Modulus(Width[t])) = v
<1> DEFINE m == Modulus(Width[t])
<1>1. m \in Nat \ {0} BY Moduli
<1>2. PICK bits \in 0 .. m - 1 : v = AsType(t, bits) BY DEF ValuesOf
<1>3. AsType(t, bits) = IF t \in SignedTypes /\ 2 * (bits % m) >= m THEN (bits % m) - m ELSE bits % m
  BY DEF AsType
<1> HIDE DEF m
<1>4. bits % m = bits
  <2>1. bits = m * 0 + bits BY <1>1
  <2> QED BY <1>1, <2>1, DivisionUnique
<1>5. v \in Int BY <1>1, <1>2, <1>3, <1>4
<1>6. v % m = bits
  <2>1. CASE v = bits BY <2>1, <1>4
  <2>2. CASE v = bits - m
    <3>1. v = m * (-1) + bits BY <1>1, <2>2
    <3> QED BY <1>1, <1>5, <3>1, DivisionUnique
  <2> QED BY <1>2, <1>3, <1>4, <2>1, <2>2
<1> QED BY <1>2, <1>5, <1>6 DEF m

\* Zero is a value of every type, and is its own bit pattern.
LEMMA ZeroOfType ==
  ASSUME NEW t \in Scalars
  PROVE  0 \in ValuesOf(t) /\ AsType(t, 0) = 0
<1> DEFINE m == Modulus(Width[t])
<1>1. m \in Nat \ {0} BY Moduli
<1>2. AsType(t, 0) = IF t \in SignedTypes /\ 2 * (0 % m) >= m THEN (0 % m) - m ELSE 0 % m
  BY DEF AsType
<1>3. ValuesOf(t) = {AsType(t, bits) : bits \in 0 .. m - 1} BY DEF ValuesOf
<1> HIDE DEF m
<1>4. 0 % m = 0
  <2>1. 0 = m * 0 + 0 BY <1>1
  <2> QED BY <1>1, <2>1, DivisionUnique
<1>5. AsType(t, 0) = 0 BY <1>1, <1>2, <1>4
<1>6. 0 \in 0 .. m - 1 BY <1>1
<1> QED BY <1>3, <1>5, <1>6

\* AsType looks only at the bits of the type's width.
LEMMA AsTypeOfBits ==
  ASSUME NEW t \in Scalars, NEW x \in Int, NEW y \in Int,
         x % Modulus(Width[t]) = y % Modulus(Width[t])
  PROVE  AsType(t, x) = AsType(t, y)
BY DEF AsType

\* kira_dynamic_call_arg_* and libffi's load: the word gives the value back.
LEMMA WordKeepsValue ==
  ASSUME NEW t \in Scalars, NEW v \in ValuesOf(t)
  PROVE  ToWord(t, v) \in Int /\ FromWord(t, ToWord(t, v)) = v
<1> DEFINE m == Modulus(Width[t])  M == Modulus(WordWidth)
<1>1. m \in Nat \ {0} /\ M \in Nat \ {0} BY Moduli
<1>3. v \in Int /\ AsType(t, v % m) = v BY BitsOfValue
<1>4. ToWord(t, v) = (v % m) % M BY DEF ToWord
<1> HIDE DEF m, M
<1>5. v % m \in Int BY <1>1, <1>3, Division
<1>6. (v % m) % M \in Int BY <1>1, <1>5, Division
<1>7. ((v % m) % M) % m = (v % m) % m BY <1>5, Wrapped DEF m, M
<1>8. AsType(t, (v % m) % M) = AsType(t, v % m) BY <1>5, <1>6, <1>7, AsTypeOfBits DEF m
<1> QED BY <1>3, <1>4, <1>6, <1>8 DEF FromWord

\* A result widened to a word is read back by the invoke of its type.
LEMMA ResultKeepsValue ==
  ASSUME NEW t \in Scalars, NEW v \in ValuesOf(t)
  PROVE  AsType(t, v % Modulus(WordWidth)) = v
<1> DEFINE m == Modulus(Width[t])  M == Modulus(WordWidth)
<1>1. m \in Nat \ {0} /\ M \in Nat \ {0} BY Moduli
<1>3. v \in Int /\ AsType(t, v % m) = v BY BitsOfValue
<1> HIDE DEF m, M
<1>5. v % m \in 0 .. m - 1 /\ v % M \in Int BY <1>1, <1>3, Division
<1>6. (v % M) % m = v % m BY <1>3, Wrapped DEF m, M
<1>7. (v % m) % m = v % m
  <2>1. v % m = m * 0 + (v % m) BY <1>1, <1>5
  <2> QED BY <1>1, <1>5, <2>1, DivisionUnique
<1>8. AsType(t, v % M) = AsType(t, v % m) BY <1>5, <1>6, <1>7, AsTypeOfBits DEF m
<1> QED BY <1>3, <1>8 DEF M

-----------------------------------------------------------------------------
(* Argument lists.                                                         *)

\* What libffi loads for an argument list.
Loaded(args) ==
  [k \in DOMAIN args |-> [type |-> args[k].type, value |-> FromWord(args[k].type, args[k].word)]]

\* An argument survives its word.
LEMMA ArgumentLoads ==
  ASSUME NEW a \in Argument
  PROVE  /\ WordOf(a) \in Word
         /\ [type |-> WordOf(a).type, value |-> FromWord(WordOf(a).type, WordOf(a).word)] = a
<1>1. a \in [type : Scalars, value : Int] /\ a.value \in ValuesOf(a.type) BY DEF Argument
<1>2. a.type \in Scalars BY <1>1
<1>3. ToWord(a.type, a.value) \in Int /\ FromWord(a.type, ToWord(a.type, a.value)) = a.value
  BY <1>1, <1>2, WordKeepsValue
<1>4. a = [type |-> a.type, value |-> a.value] BY <1>1
<1> QED BY <1>2, <1>3, <1>4 DEF Word, WordOf

\* The arguments of a builder arrive: those asked for, up to its capacity.
LEMMA BuilderLoads ==
  ASSUME NEW b \in Builder
  PROVE  /\ SelectPrefix(b.asked, b.capacity) \in Seq(Argument)
         /\ Loaded(b.args) = SelectPrefix(b.asked, b.capacity)
<1> DEFINE n == Len(b.args)
<1>1. b.args \in Seq(Word) /\ b.asked \in Seq(Argument) /\ b.capacity \in Nat BY DEF Builder
<1>2. n = IF Len(b.asked) < b.capacity THEN Len(b.asked) ELSE b.capacity BY DEF Builder
<1>3. \A k \in 1 .. n : b.args[k] = WordOf(b.asked[k]) BY DEF Builder
<1>4. SelectPrefix(b.asked, b.capacity) = SubSeq(b.asked, 1, n) BY <1>2 DEF SelectPrefix
<1>5. n \in 0 .. Len(b.asked) /\ DOMAIN b.args = 1 .. n BY <1>1, <1>2
<1> HIDE DEF n
<1>6. \A k \in 1 .. n : b.asked[k] \in Argument BY <1>1, <1>5
<1>7. /\ SubSeq(b.asked, 1, n) \in Seq(Argument) /\ Len(SubSeq(b.asked, 1, n)) = n
      /\ \A k \in 1 .. n : SubSeq(b.asked, 1, n)[k] = b.asked[k]
  BY <1>5, <1>6, SubSeqProperties
<1>8. \A k \in 1 .. n : Loaded(b.args)[k] = b.asked[k]
  BY <1>3, <1>5, <1>6, ArgumentLoads DEF Loaded
<1>9. DOMAIN Loaded(b.args) = 1 .. n /\ Loaded(b.args) = [k \in 1 .. n |-> Loaded(b.args)[k]]
  BY <1>5 DEF Loaded
<1>10. SubSeq(b.asked, 1, n) = [k \in 1 .. n |-> SubSeq(b.asked, 1, n)[k]]
  BY <1>5, <1>7
<1>11. Loaded(b.args) = SubSeq(b.asked, 1, n) BY <1>7, <1>8, <1>9, <1>10
<1> QED BY <1>4, <1>7, <1>11

\* So do the zero words of a call made without a builder.
LEMMA DirectLoads ==
  ASSUME NEW tags \in Seq(Scalars)
  PROVE  LET args == [k \in DOMAIN tags |-> [type |-> tags[k], word |-> 0]]
             asked == [k \in DOMAIN tags |-> [type |-> tags[k], value |-> 0]]
         IN  asked \in Seq(Argument) /\ Loaded(args) = asked
<1> DEFINE args == [k \in DOMAIN tags |-> [type |-> tags[k], word |-> 0]]
           asked == [k \in DOMAIN tags |-> [type |-> tags[k], value |-> 0]]
<1>1. \A k \in DOMAIN tags : tags[k] \in Scalars OBVIOUS
<1>2. \A k \in DOMAIN tags : FromWord(tags[k], 0) = 0 BY <1>1, ZeroOfType DEF FromWord
<1>3. \A k \in DOMAIN tags : [type |-> tags[k], value |-> 0] \in Argument
  BY <1>1, ZeroOfType DEF Argument
<1>4. Loaded(args) = [k \in DOMAIN tags |-> [type |-> tags[k], value |-> FromWord(tags[k], 0)]]
  BY DEF Loaded
<1>5. Loaded(args) = asked BY <1>2, <1>4
<1>6. DOMAIN tags = 1 .. Len(tags) /\ Len(tags) \in Nat OBVIOUS
<1>7. asked \in Seq(Argument) BY <1>3, <1>6
<1> QED BY <1>5, <1>7

-----------------------------------------------------------------------------
(* Loading libffi.                                                         *)

\* The search finds a library or none.
LEMMA SearchFinds == kira_open_managed_libffi \in Libs \cup {None}
<1> DEFINE found == {k \in DOMAIN SearchOrder : SearchOrder[k] \in installed}
           first == CHOOSE k \in found : \A j \in found : k <= j
<1>1. SearchOrder \in Seq(Libs) BY FfiAssumption
<1>2. found \subseteq Nat BY <1>1
<1>3. CASE found = {} BY <1>3 DEF kira_open_managed_libffi
<1>4. CASE found # {}
  <2>1. \E k \in found : \A j \in found : k <= j BY <1>2, <1>4, FirstOf
  <2>2. first \in found BY <2>1
  <2>3. SearchOrder[first] \in Libs BY <1>1, <2>2
  <2>4. kira_open_managed_libffi = SearchOrder[first] BY <1>4 DEF kira_open_managed_libffi
  <2> QED BY <2>3, <2>4
<1> QED BY <1>3, <1>4

\* kira_dynamic_ffi_ensure_libffi leaves the loader's books balanced, whether
\* it finds libffi, finds an incomplete one or finds none.
LEMMA EnsureBalances ==
  ASSUME Loader, ffi' = EnsureLibffi.ffi, refs' = EnsureLibffi.refs, UNCHANGED opened
  PROVE  Loader'
<1> DEFINE l == kira_open_managed_libffi
<1>1. l \in Libs \cup {None} BY SearchFinds
<1>2. None \notin Libs BY FfiAssumption
<1> HIDE DEF l
<1>3. CASE ffi.lib # None
  <2>1. ffi' = ffi /\ refs' = refs BY <1>3 DEF EnsureLibffi
  <2> QED BY <2>1 DEF Loader, LibffiIsHeldOnce
<1>4. CASE ffi.lib = None /\ l = None
  <2>1. ffi' = ffi /\ refs' = refs BY <1>4 DEF EnsureLibffi, l
  <2> QED BY <2>1 DEF Loader, LibffiIsHeldOnce
<1>5. CASE ffi.lib = None /\ l # None /\ Essential \subseteq Provides[l]
  <2>1. ffi' = [lib |-> l, syms |-> Provides[l]] /\ refs' = [refs EXCEPT ![l] = @ + 1]
    BY <1>5 DEF EnsureLibffi, l
  <2>2. l \in Libs BY <1>1, <1>5
  <2>3. ffi'.lib = l /\ ffi'.syms = Provides[l] BY <2>1
  <2>4. \A k \in Libs : refs'[k] = IF k = l THEN refs[k] + 1 ELSE refs[k]
    BY <2>1, <2>2 DEF Loader
  <2>5. \A k \in Libs : refs[k] = opened[k] BY <1>2, <1>5 DEF Loader, LibffiIsHeldOnce
  <2>6. \A k \in Libs : refs'[k] = opened'[k] + (IF ffi'.lib = k THEN 1 ELSE 0)
    BY <2>3, <2>4, <2>5 DEF Loader
  <2>7. refs' \in [Libs -> Int] BY <2>1, <2>2 DEF Loader
  <2> QED BY <1>5, <2>2, <2>3, <2>6, <2>7 DEF Loader, LibffiIsHeldOnce
<1>6. CASE ffi.lib = None /\ l # None /\ ~(Essential \subseteq Provides[l])
  <2>1. ffi' = NoFfi /\ refs' = refs BY <1>6 DEF EnsureLibffi, Abandon, l
  <2>2. ffi'.lib = None BY <2>1 DEF NoFfi
  <2> QED BY <1>6, <2>1, <2>2 DEF Loader, LibffiIsHeldOnce
<1> QED BY <1>3, <1>4, <1>5, <1>6

-----------------------------------------------------------------------------
(* Calls.                                                                  *)

\* A failed call reports its code and returns zero.
LEMMA FailureTells ==
  ASSUME NEW code \in Failures, Fail(code)
  PROVE  ErrorTellsTheOutcome' /\ stack' = stack
<1>1. /\ answer' = [code |-> code, value |-> 0, called |-> FALSE, returned |-> 0]
      /\ err' = code /\ stack' = stack
  BY DEF Fail, NoAnswer
<1>2. code # OK BY DEF Failures, OK
<1> QED BY <1>1, <1>2 DEF ErrorTellsTheOutcome

\* kira_dynamic_ffi_call: whichever check ends it, the invariant holds, if the
\* words passed are those of the arguments asked for.
LEMMA FfiCallHolds ==
  ASSUME IndInv, NEW function \in Functions \cup {Null}, NEW result \in ResultTypes,
         NEW args, NEW asked, FfiCall(function, result, args, asked), UNCHANGED <<opened, builder>>,
         (\A k \in DOMAIN args : args[k].type \in Tags)
           => asked \in Seq(Argument) /\ Loaded(args) = asked
  PROVE  IndInv'
<1> DEFINE Known(tag) == kira_ffi_type(EnsureLibffi.ffi, tag) # Null
           typed == Known(result) /\ \A k \in DOMAIN args : Known(args[k].type)
           f == [function |-> function, result |-> result, asked |-> asked, got |-> Loaded(args)]
<1>1. \/ Fail("NULL_SYMBOL") /\ UNCHANGED <<ffi, refs>>
      \/ Fail("TOO_MANY_ARGS") /\ UNCHANGED <<ffi, refs>>
      \/ /\ ffi' = EnsureLibffi.ffi /\ refs' = EnsureLibffi.refs
         /\ \/ Fail("LIBFFI_UNAVAILABLE") \/ Fail("UNSUPPORTED_TYPE") \/ Fail("PREP_FAILED")
            \/ /\ function # Null /\ typed /\ stack' = Append(stack, f)
               /\ UNCHANGED <<err, answer>>
  BY DEF FfiCall, Loaded
<1>2. typed => \A k \in DOMAIN args : args[k].type \in Tags BY DEF kira_ffi_type
<1> HIDE DEF typed, f
<1>3. Loader'
  <2>1. CASE UNCHANGED <<ffi, refs>> BY <2>1 DEF IndInv, Loader, LibffiIsHeldOnce
  <2>2. CASE ffi' = EnsureLibffi.ffi /\ refs' = EnsureLibffi.refs
    BY <2>2, EnsureBalances DEF IndInv
  <2> QED BY <1>1, <2>1, <2>2
<1>4. CASE \E code \in Failures : Fail(code)
  BY <1>3, <1>4, FailureTells DEF IndInv
<1>5. CASE function # Null /\ typed /\ stack' = Append(stack, f) /\ UNCHANGED <<err, answer>>
  <2>1. asked \in Seq(Argument) /\ Loaded(args) = asked BY <1>2, <1>5
  <2>2. f \in Frame BY <1>5, <2>1 DEF f, Frame
  <2>3. stack' \in Seq(Frame) BY <1>5, <2>2, AppendProperties DEF IndInv
  <2>4. ErrorTellsTheOutcome' BY <1>5 DEF IndInv, ErrorTellsTheOutcome
  <2> QED BY <1>3, <2>3, <2>4 DEF IndInv
<1>6. {"NULL_SYMBOL", "TOO_MANY_ARGS", "LIBFFI_UNAVAILABLE", "UNSUPPORTED_TYPE", "PREP_FAILED"}
        \subseteq Failures
  BY DEF Failures
<1> QED BY <1>1, <1>4, <1>5, <1>6

\* The function that returns was called, and its result is what it returned.
LEMMA ReturnHolds ==
  ASSUME IndInv, NEW v \in Values \cup {0}, FunctionReturns(v)
  PROVE  IndInv'
<1> DEFINE f == Last(stack)
<1>1. stack \in Seq(Frame) /\ stack # <<>> BY DEF IndInv, FunctionReturns
<1>2. Len(stack) \in 1 .. Len(stack) /\ Len(stack) \in Nat BY <1>1
<1>3. f \in Frame BY <1>1, <1>2 DEF Last
<1>4. stack' \in Seq(Frame)
  <2>1. stack' = SubSeq(stack, 1, Len(stack) - 1) BY DEF FunctionReturns, Front
  <2>2. \A i \in 1 .. Len(stack) - 1 : stack[i] \in Frame BY <1>1
  <2> QED BY <1>2, <2>1, <2>2, SubSeqProperties
<1>5. /\ v \in (IF f.result = "void" THEN {0} ELSE Small(f.result) \cup {0}) /\ err' = OK
      /\ answer' = [code |-> OK, called |-> TRUE, returned |-> v,
                    value |-> IF f.result = "void" THEN 0
                              ELSE AsType(f.result, v % Modulus(WordWidth))]
  BY DEF FunctionReturns, RecordOutcome
<1>6. f.result \in Scalars \cup {"void"} BY <1>3, FfiAssumption DEF Frame
<1> HIDE DEF f
<1>7. answer'.value = v
  <2>1. CASE f.result = "void" BY <1>5, <2>1
  <2>2. CASE f.result # "void"
    <3>1. f.result \in Scalars BY <1>6, <2>2
    <3>2. v \in ValuesOf(f.result) BY <1>5, <2>2, <3>1, ZeroOfType DEF Small
    <3>3. AsType(f.result, v % Modulus(WordWidth)) = v BY <3>1, <3>2, ResultKeepsValue
    <3> QED BY <1>5, <2>2, <3>3
  <2> QED BY <2>1, <2>2
<1>8. ErrorTellsTheOutcome' BY <1>5, <1>7 DEF ErrorTellsTheOutcome, OK
<1>9. UNCHANGED <<refs, opened, ffi, builder>> BY DEF FunctionReturns
<1> QED BY <1>4, <1>8, <1>9 DEF IndInv, Loader, LibffiIsHeldOnce

\* A call made without a builder.
LEMMA DirectHolds ==
  ASSUME IndInv, NEW function \in Functions \cup {Null}, NEW result \in ResultTypes,
         NEW tags \in DirectArgs, DirectCall(function, result, tags)
  PROVE  IndInv'
<1> DEFINE args == [k \in DOMAIN tags |-> [type |-> tags[k], word |-> 0]]
           asked == [k \in DOMAIN tags |-> [type |-> tags[k], value |-> 0]]
<1>1. tags \in Seq(STRING \ {"void"}) BY FfiAssumption
<1>2. FfiCall(function, result, args, asked) /\ UNCHANGED <<opened, builder>> BY DEF DirectCall
<1>3. ASSUME \A k \in DOMAIN args : args[k].type \in Tags
      PROVE  asked \in Seq(Argument) /\ Loaded(args) = asked
  <2>1. DOMAIN tags = 1 .. Len(tags) /\ Len(tags) \in Nat BY <1>1
  <2>2. \A k \in 1 .. Len(tags) : tags[k] \in Scalars
    <3> TAKE k \in 1 .. Len(tags)
    <3>1. tags[k] \in STRING \ {"void"} BY <1>1
    <3>2. args[k].type = tags[k] /\ k \in DOMAIN args BY <2>1
    <3>3. tags[k] \in Tags BY <1>3, <3>2
    <3> QED BY <3>1, <3>3 DEF Tags
  <2>3. tags \in Seq(Scalars) BY <1>1, <2>1, <2>2
  <2> QED BY <2>3, DirectLoads
<1> HIDE DEF args, asked
<1> QED BY <1>2, <1>3, FfiCallHolds

\* kira_dynamic_call_invoke.
LEMMA InvokeHolds ==
  ASSUME IndInv, NEW h \in Handles, NEW function \in Functions \cup {Null},
         NEW result \in ResultTypes, CallInvoke(h, function, result)
  PROVE  IndInv'
<1>1. builder[h] \in Builder BY DEF IndInv
<1> DEFINE args == builder[h].args
           asked == SelectPrefix(builder[h].asked, builder[h].capacity)
<1>2. FfiCall(function, result, args, asked) /\ UNCHANGED <<opened, builder>> BY DEF CallInvoke
<1>3. asked \in Seq(Argument) /\ Loaded(args) = asked BY <1>1, BuilderLoads
<1> HIDE DEF args, asked
<1> QED BY <1>2, <1>3, FfiCallHolds

-----------------------------------------------------------------------------
(* Builders.                                                               *)

\* A new, emptied or freed builder has no arguments.
LEMMA EmptyBuilder ==
  ASSUME NEW live \in BOOLEAN, NEW capacity \in Nat
  PROVE  [live |-> live, capacity |-> capacity, args |-> <<>>, asked |-> <<>>] \in Builder
BY DEF Builder

\* What makes a record a builder.
LEMMA FilledBuilder ==
  ASSUME NEW live \in BOOLEAN, NEW capacity \in Nat, NEW args \in Seq(Word),
         NEW asked \in Seq(Argument),
         Len(args) = IF Len(asked) < capacity THEN Len(asked) ELSE capacity,
         \A k \in 1 .. Len(args) : args[k] = WordOf(asked[k])
  PROVE  [live |-> live, capacity |-> capacity, args |-> args, asked |-> asked] \in Builder
BY DEF Builder

\* A builder whose argument lists are replaced.
LEMMA ReplacedLists ==
  ASSUME NEW b \in Builder, NEW args \in Seq(Word), NEW asked \in Seq(Argument),
         NEW c, c = [b EXCEPT !.args = args, !.asked = asked]
  PROVE  c = [live |-> b.live, capacity |-> b.capacity, args |-> args, asked |-> asked]
<1> DEFINE Fields == [live : BOOLEAN, capacity : Nat, args : Seq(Word), asked : Seq(Argument)]
<1>1. b \in Fields BY DEF Builder
<1>2. c \in Fields BY <1>1
<1>3. c.live = b.live /\ c.capacity = b.capacity /\ c.args = args /\ c.asked = asked BY <1>1
<1>4. c = [live |-> c.live, capacity |-> c.capacity, args |-> c.args, asked |-> c.asked] BY <1>2
<1> QED BY <1>3, <1>4

\* A builder just made.
LEMMA NewBuilder ==
  ASSUME NEW n \in Nat, NEW c, c = [NoCall EXCEPT !.live = TRUE, !.capacity = n]
  PROVE  c \in Builder
<1>1. c = [live |-> TRUE, capacity |-> n, args |-> <<>>, asked |-> <<>>] BY DEF NoCall
<1> QED BY <1>1, EmptyBuilder

\* kira_dynamic_call_append.
LEMMA AppendedBuilder ==
  ASSUME NEW b \in Builder, NEW t \in Scalars, NEW v \in ValuesOf(t)
  PROVE  [b EXCEPT !.args = IF IsFull(b) THEN @ ELSE Append(@, [type |-> t, word |-> ToWord(t, v)]),
                   !.asked = Append(@, [type |-> t, value |-> v])] \in Builder
<1> DEFINE a == [type |-> t, value |-> v]
           args == IF IsFull(b) THEN b.args ELSE Append(b.args, WordOf(a))
           asked == Append(b.asked, a)
           c == [live |-> b.live, capacity |-> b.capacity, args |-> args, asked |-> asked]
<1>1. v \in Int BY BitsOfValue
<1>2. a \in Argument BY <1>1 DEF Argument
<1>3. WordOf(a) = [type |-> t, word |-> ToWord(t, v)] BY DEF WordOf
<1>4. WordOf(a) \in Word BY <1>2, ArgumentLoads
<1>5. /\ b.args \in Seq(Word) /\ b.asked \in Seq(Argument) /\ b.capacity \in Nat
      /\ Len(b.args) = IF Len(b.asked) < b.capacity THEN Len(b.asked) ELSE b.capacity
      /\ \A k \in 1 .. Len(b.args) : b.args[k] = WordOf(b.asked[k])
      /\ b.live \in BOOLEAN
      /\ b \in [live : BOOLEAN, capacity : Nat, args : Seq(Word), asked : Seq(Argument)]
  BY DEF Builder
<1> HIDE DEF a
<1>6. /\ asked \in Seq(Argument) /\ Len(asked) = Len(b.asked) + 1
      /\ asked[Len(b.asked) + 1] = a /\ \A k \in 1 .. Len(b.asked) : asked[k] = b.asked[k]
  BY <1>2, <1>5, AppendProperties
<1>7. ASSUME IsFull(b) PROVE c \in Builder
  <2>1. args = b.args /\ Len(b.args) >= b.capacity BY <1>7 DEF IsFull
  <2>2. Len(args) = IF Len(asked) < b.capacity THEN Len(asked) ELSE b.capacity
    BY <1>5, <1>6, <2>1
  <2>3. \A k \in 1 .. Len(args) : args[k] = WordOf(asked[k])
    <3> HIDE DEF asked
    <3>1. Len(b.args) <= Len(b.asked) /\ Len(b.args) \in Nat /\ Len(b.asked) \in Nat BY <1>5
    <3>2. \A k \in 1 .. Len(b.args) : k \in 1 .. Len(b.asked) BY <3>1
    <3> QED BY <1>5, <1>6, <2>1, <3>2
  <2> HIDE DEF args, asked
  <2> QED BY <1>5, <1>6, <2>1, <2>2, <2>3, FilledBuilder
<1>8. ASSUME ~IsFull(b) PROVE c \in Builder
  <2>1. args = Append(b.args, WordOf(a)) /\ Len(b.args) < b.capacity BY <1>5, <1>8 DEF IsFull
  <2>2. Len(b.args) = Len(b.asked) BY <1>5, <2>1
  <2>3. /\ args \in Seq(Word) /\ Len(args) = Len(b.args) + 1
        /\ args[Len(b.args) + 1] = WordOf(a) /\ \A k \in 1 .. Len(b.args) : args[k] = b.args[k]
    BY <1>4, <1>5, <2>1, AppendProperties
  <2> HIDE DEF args, asked
  <2>4. \A k \in 1 .. Len(args) : args[k] = WordOf(asked[k])
    <3> SUFFICES ASSUME NEW k \in 1 .. Len(args) PROVE args[k] = WordOf(asked[k]) OBVIOUS
    <3>1. CASE k = Len(b.args) + 1 BY <1>6, <2>2, <2>3, <3>1
    <3>2. CASE k \in 1 .. Len(b.args) BY <1>5, <1>6, <2>2, <2>3, <3>2
    <3> QED BY <1>5, <2>3, <3>1, <3>2
  <2>5. Len(args) = IF Len(asked) < b.capacity THEN Len(asked) ELSE b.capacity
    BY <1>5, <1>6, <2>1, <2>2, <2>3
  <2> QED BY <1>5, <1>6, <2>3, <2>4, <2>5, FilledBuilder
<1>9. [b EXCEPT !.args = args, !.asked = asked] = c
  <2>1. args \in Seq(Word) BY <1>4, <1>5, AppendProperties
  <2> HIDE DEF args, asked
  <2> QED BY <1>6, <2>1, ReplacedLists
<1>10. [b EXCEPT !.args = args, !.asked = asked] \in Builder BY <1>7, <1>8, <1>9
<1> QED BY <1>3, <1>10 DEF a

\* The steps on builders keep every builder's words in step with what was asked.
LEMMA BuilderStepHolds ==
  ASSUME IndInv, NEW h \in Handles,
         \/ \E n \in 0 .. MaxArgs : CallNew(h, n)
         \/ CallReset(h) \/ CallFree(h)
         \/ \E t \in Scalars : \E v \in Small(t) : CallArg(h, t, v)
  PROVE  IndInv'
<1>1. UNCHANGED <<refs, opened, ffi, err, stack, answer>>
  BY DEF CallNew, CallReset, CallFree, CallArg
<1>2. builder \in [Handles -> Builder] /\ builder[h] \in Builder BY DEF IndInv
<1>3. MaxArgs \in Nat \ {0} BY FfiAssumption
<1>4. \E b \in Builder : builder' = [builder EXCEPT ![h] = b]
  <2>1. CASE \E n \in 0 .. MaxArgs : CallNew(h, n)
    <3>1. PICK n \in 0 .. MaxArgs : CallNew(h, n) BY <2>1
    <3>2. PICK c \in Nat : c = IF n = 0 THEN MaxArgs ELSE n BY <1>3
    <3>3. PICK b : b = [NoCall EXCEPT !.live = TRUE, !.capacity = c] OBVIOUS
    <3>4. builder' = [builder EXCEPT ![h] = b] BY <3>1, <3>2, <3>3 DEF CallNew
    <3>5. b \in Builder BY <3>3, NewBuilder
    <3> QED BY <3>4, <3>5
  <2>2. CASE CallReset(h)
    <3>1. PICK b \in Builder : b = builder[h] BY <1>2
    <3>2. [b EXCEPT !.args = <<>>, !.asked = <<>>]
            = [live |-> b.live, capacity |-> b.capacity, args |-> <<>>, asked |-> <<>>]
      <4>1. <<>> \in Seq(Word) /\ <<>> \in Seq(Argument) OBVIOUS
      <4> QED BY <4>1, ReplacedLists
    <3>3. b.live \in BOOLEAN /\ b.capacity \in Nat BY DEF Builder
    <3>4. ResetCount(b) \in Builder BY <3>2, <3>3, EmptyBuilder DEF ResetCount
    <3>5. builder' = [builder EXCEPT ![h] = ResetCount(b)] BY <1>2, <2>2, <3>1 DEF CallReset
    <3> QED BY <3>4, <3>5
  <2>3. CASE CallFree(h) BY <2>3, EmptyBuilder DEF CallFree, NoCall
  <2>4. CASE \E t \in Scalars : \E v \in Small(t) : CallArg(h, t, v)
    <3>1. PICK t \in Scalars : \E v \in Small(t) : CallArg(h, t, v) BY <2>4
    <3>2. PICK v \in ValuesOf(t) : CallArg(h, t, v) BY <3>1 DEF Small
    <3> DEFINE b == builder[h]
    <3>3. builder' = [builder EXCEPT ![h] =
            [b EXCEPT !.args = IF IsFull(b) THEN @ ELSE Append(@, [type |-> t, word |-> ToWord(t, v)]),
                      !.asked = Append(@, [type |-> t, value |-> v])]]
      BY <1>2, <3>2 DEF CallArg
    <3> QED BY <1>2, <3>3, AppendedBuilder
  <2> QED BY <2>1, <2>2, <2>3, <2>4
<1>5. builder' \in [Handles -> Builder] BY <1>2, <1>4
<1> QED BY <1>1, <1>5 DEF IndInv, Loader, LibffiIsHeldOnce, ErrorTellsTheOutcome

-----------------------------------------------------------------------------
(* The program's block.                                                    *)

\* at[n] is the number that the n bytes after the offset make.
IsSum(block, offset, at, w) ==
  at = [n \in 0 .. w |-> IF n = 0 THEN 0 ELSE at[n - 1] + Modulus(n - 1) * block[offset + n]]

LEMMA SumExists ==
  ASSUME NEW block, NEW offset, NEW w \in Nat
  PROVE  \E at : IsSum(block, offset, at, w)
<1> DEFINE Part(n) == Modulus(n - 1) * block[offset + n]
           Bad == {n \in Nat : ~\E at : IsSum(block, offset, at, n)}
<1>1. SUFFICES ASSUME Bad # {} PROVE FALSE OBVIOUS
<1>2. PICK n \in Bad : \A y \in Bad : n <= y BY <1>1, FirstOf
<1>3. CASE n = 0
  <2> DEFINE at == [k \in 0 .. 0 |-> 0]
  <2>1. IsSum(block, offset, at, 0) BY DEF IsSum
  <2> QED BY <1>3, <2>1
<1>4. CASE n # 0
  <2>1. n - 1 \in Nat /\ n - 1 \notin Bad BY <1>2, <1>4
  <2>2. PICK at : IsSum(block, offset, at, n - 1) BY <2>1
  <2>3. at = [k \in 0 .. n - 1 |-> IF k = 0 THEN 0 ELSE at[k - 1] + Part(k)]
    BY <2>2 DEF IsSum
  <2> HIDE DEF Part
  <2> DEFINE more == [k \in 0 .. n |-> IF k = n THEN at[n - 1] + Part(n) ELSE at[k]]
  <2>4. ASSUME NEW k \in 0 .. n
        PROVE  more[k] = IF k = 0 THEN 0 ELSE more[k - 1] + Part(k)
    <3>1. CASE k = n BY <3>1, <1>4
    <3>2. CASE k # n
      <4>1. k \in 0 .. n - 1 /\ more[k] = at[k] /\ (k # 0 => more[k - 1] = at[k - 1]) BY <3>2
      <4>2. at[k] = IF k = 0 THEN 0 ELSE at[k - 1] + Part(k) BY <2>3, <4>1
      <4> QED BY <4>1, <4>2
    <3> QED BY <3>1, <3>2
  <2> HIDE DEF more
  <2>5. more = [k \in 0 .. n |-> more[k]] BY DEF more
  <2>6. IsSum(block, offset, more, n) BY <2>4, <2>5 DEF IsSum, Part
  <2> QED BY <2>6
<1> QED BY <1>3, <1>4

LEMMA WidthIs ==
  ASSUME NEW t \in Scalars
  PROVE  Width[t] \in Nat \ {0} /\ Width[t] \in 0 .. WordWidth
BY MemoryAssumption DEF Scalars

LEMMA LoadIs ==
  ASSUME NEW block, NEW offset, NEW t \in Scalars
  PROVE  \E at : /\ IsSum(block, offset, at, Width[t])
                 /\ Load(block, offset, t) = AsType(t, at[Width[t]])
<1>1. \E at : IsSum(block, offset, at, Width[t]) BY WidthIs, SumExists
<1> QED BY <1>1 DEF IsSum, Load

\* Bytes that are the same make the same value.
LEMMA SameBytes ==
  ASSUME NEW t \in Scalars, NEW a, NEW b, NEW offset \in Nat,
         \A k \in 1 .. Width[t] : a[offset + k] = b[offset + k]
  PROVE  Load(a, offset, t) = Load(b, offset, t)
<1>1. PICK w \in Nat : w = Width[t] BY WidthIs
<1>2. PICK x : IsSum(a, offset, x, w) /\ Load(a, offset, t) = AsType(t, x[w]) BY <1>1, LoadIs
<1>3. PICK y : IsSum(b, offset, y, w) /\ Load(b, offset, t) = AsType(t, y[w]) BY <1>1, LoadIs
<1>4. \A n \in 0 .. w :
        /\ x[n] = IF n = 0 THEN 0 ELSE x[n - 1] + Modulus(n - 1) * a[offset + n]
        /\ y[n] = IF n = 0 THEN 0 ELSE y[n - 1] + Modulus(n - 1) * b[offset + n]
  BY <1>2, <1>3 DEF IsSum
<1> DEFINE Bad == {n \in 0 .. w : x[n] # y[n]}
<1>5. Bad = {}
  <2>1. SUFFICES ASSUME Bad # {} PROVE FALSE OBVIOUS
  <2>0. Bad \in SUBSET Nat OBVIOUS
  <2>2. PICK n \in Bad : \A z \in Bad : n <= z BY <2>0, <2>1, FirstOf
  <2>3. n # 0 BY <1>4, <2>2
  <2>4. n - 1 \in 0 .. w /\ n \in 1 .. w BY <2>2, <2>3
  <2>5. x[n - 1] = y[n - 1] BY <2>2, <2>4
  <2>6. a[offset + n] = b[offset + n] BY <1>1, <2>4
  <2> QED BY <1>4, <2>2, <2>3, <2>5, <2>6
<1>6. x[w] = y[w] BY <1>5
<1> QED BY <1>2, <1>3, <1>6

\* One byte more.
LEMMA Digit ==
  ASSUME NEW m \in Nat \ {0}, NEW b \in Nat \ {0}, NEW x \in Nat,
         NEW q, q = x \div m
  PROVE  q \in Int /\ (x % m) + m * (q % b) = x % (b * m)
<1>1. q \in Int /\ x = m * q + (x % m) OBVIOUS
<1>2. PICK r \in 0 .. m - 1 : r = x % m BY Division
<1>3. PICK d \in 0 .. b - 1, j \in Int : d = q % b /\ q = b * j + d
  <2>1. q % b \in 0 .. b - 1 /\ \E j \in Int : q = b * j + (q % b) BY <1>1, Division
  <2> QED BY <2>1
<1>4. m * (b * j + d) = (b * m) * j + m * d OBVIOUS
<1>5. PICK s \in Int : s = m * d + r OBVIOUS
<1>7. PICK c \in Nat \ {0} : c = b * m OBVIOUS
<1>6. x = c * j + s
  <2>1. m * q = m * (b * j + d) BY <1>3
  <2>2. PICK mq \in Int, cj \in Int, md \in Int : mq = m * q /\ cj = c * j /\ md = m * d
    BY <1>1, <1>3
  <2>3. mq = cj + md BY <1>4, <1>7, <2>1, <2>2
  <2>4. x = mq + r /\ s = md + r BY <1>1, <1>2, <1>5, <2>2
  <2>5. x = cj + s BY <2>3, <2>4
  <2> QED BY <2>2, <2>5
<1>8. s \in 0 .. c - 1
  <2>1. m * d >= 0 /\ m * d <= m * (b - 1) BY <1>3
  <2>2. m * (b - 1) = b * m - m OBVIOUS
  <2>3. PICK md \in Int, bm \in Int : md = m * d /\ bm = b * m OBVIOUS
  <2>4. 0 <= md /\ md <= bm - m BY <2>1, <2>2, <2>3
  <2>5. s = md + r BY <1>5, <2>3
  <2>6. s \in 0 .. bm - 1 BY <2>4, <2>5
  <2> QED BY <1>7, <2>3, <2>6
<1>9. x % c = s
  <2>1. x \in Int OBVIOUS
  <2> QED BY <1>6, <1>8, <2>1, DivisionUnique
<1> QED BY <1>1, <1>2, <1>3, <1>5, <1>7, <1>9

\* The bytes of a number make the number, up to the width.
Holds(block, offset, bits, w) == \A k \in 1 .. w : block[offset + k] = ByteOf(bits, k - 1)

LEMMA BytesMakeNumber ==
  ASSUME NEW w \in 0 .. WordWidth, NEW bits \in Nat, NEW block, NEW offset \in Nat, NEW at,
         IsSum(block, offset, at, w), Holds(block, offset, bits, w)
  PROVE  at[w] = bits % Modulus(w)
<1> DEFINE Bad == {n \in 0 .. w : at[n] # bits % Modulus(n)}
<1>1. \A n \in 0 .. w : at[n] = IF n = 0 THEN 0 ELSE at[n - 1] + Modulus(n - 1) * block[offset + n]
  BY DEF IsSum
<1>2. WordWidth \in Nat /\ w \in Nat /\ Base \in Nat \ {0} BY MemoryAssumption
<1>3. Bad = {}
  <2>1. SUFFICES ASSUME Bad # {} PROVE FALSE OBVIOUS
  <2>0. Bad \in SUBSET Nat BY <1>2
  <2>2. PICK n \in Bad : \A z \in Bad : n <= z BY <2>0, <2>1, FirstOf
  <2>3. n # 0
    <3>1. bits % 1 = 0
      <4>1. bits = 1 * bits + 0 OBVIOUS
      <4> QED BY <4>1, DivisionUnique
    <3> QED BY <1>1, <2>2, <3>1, PowerAssumption
  <2>4. PICK l \in 0 .. WordWidth - 1 : l = n - 1 /\ n = l + 1 /\ l \in 0 .. w /\ n \in 1 .. w
    BY <1>2, <2>2, <2>3
  <2>5. l \in 0 .. WordWidth BY <1>2, <2>4
  <2>6. PICK m \in Nat \ {0} : m = Modulus(l) BY <2>5, PowersPositive
  <2>7. Modulus(n) = Base * m BY <2>4, <2>6, PowerAssumption
  <2>8. at[l] = bits % m BY <2>2, <2>4, <2>6
  <2>9. PICK q : q = bits \div m OBVIOUS
  <2>10. block[offset + n] = q % Base BY <2>4, <2>6, <2>9 DEF ByteOf, Holds
  <2>11. at[n] = (bits % m) + m * (q % Base) BY <1>1, <2>4, <2>3, <2>6, <2>8, <2>10
  <2>12. at[n] = bits % (Base * m) BY <1>2, <2>6, <2>9, <2>11, Digit
  <2> QED BY <2>2, <2>7, <2>12
<1>4. w \in 0 .. w BY <1>2
<1> QED BY <1>3, <1>4

\* kira_dynamic_read_*_at after kira_dynamic_write_*_at of the same type there.
LEMMA LoadOfStore ==
  ASSUME NEW t \in Scalars, NEW v \in ValuesOf(t), NEW offset \in Nat, NEW size \in Nat,
         offset + Width[t] <= size, NEW block, DOMAIN block = 1 .. size,
         NEW x, x = Store(block, offset, t, v)
  PROVE  Load(x, offset, t) = v
<1>1. PICK w \in Nat : w = Width[t] /\ w \in 0 .. WordWidth BY WidthIs
<1>2. PICK m \in Nat \ {0} : m = Modulus(w) BY <1>1, PowersPositive
<1>3. v \in Int /\ AsType(t, v % m) = v BY <1>1, <1>2, BitsOfValue
<1>4. PICK bits \in Nat : bits = v % m /\ bits \in 0 .. m - 1
  <2>1. v % m \in 0 .. m - 1 BY <1>2, <1>3, Division
  <2>2. v % m \in Nat BY <1>2, <2>1
  <2> QED BY <2>1, <2>2
<1>5. x = [k \in 1 .. size |-> IF k \in offset + 1 .. offset + w
                                THEN ByteOf(bits, k - offset - 1) ELSE block[k]]
  BY <1>1, <1>2, <1>4 DEF Store, ByteOffset
<1>6. ASSUME NEW k \in 1 .. w PROVE x[offset + k] = ByteOf(bits, k - 1)
  <2>1. PICK j \in 1 .. size : j = offset + k /\ j \in offset + 1 .. offset + w BY <1>1
  <2>2. x[j] = ByteOf(bits, j - offset - 1) BY <1>5, <2>1
  <2>3. j - offset - 1 = k - 1 BY <2>1
  <2> QED BY <2>1, <2>2, <2>3
<1>7. PICK at : IsSum(x, offset, at, w) /\ Load(x, offset, t) = AsType(t, at[w]) BY <1>1, LoadIs
<1>11. Holds(x, offset, bits, w) BY <1>6 DEF Holds
<1>8. at[w] = bits % Modulus(w) BY <1>1, <1>7, <1>11, BytesMakeNumber
<1>9. bits % m = bits BY <1>4, SmallNumber
<1>10. at[w] = v % m BY <1>2, <1>4, <1>8, <1>9
<1> QED BY <1>3, <1>7, <1>10

\* A write changes no byte outside its own.
Apart(o, u, offset, t) == (o + 1 .. o + Width[u]) \cap (offset + 1 .. offset + Width[t]) = {}

LEMMA LoadBeside ==
  ASSUME NEW t \in Scalars, NEW v \in ValuesOf(t), NEW offset \in Nat, NEW size \in Nat,
         NEW block, DOMAIN block = 1 .. size, NEW x, x = Store(block, offset, t, v),
         NEW o \in Nat, NEW u \in Scalars, o + Width[u] <= size, Apart(o, u, offset, t)
  PROVE  Load(x, o, u) = Load(block, o, u)
<1>1. PICK w \in Nat : w = Width[u] BY WidthIs
<1>2. ASSUME NEW k \in 1 .. Width[u] PROVE x[o + k] = block[o + k]
  <2>1. PICK j \in 1 .. size : j = o + k /\ j \in o + 1 .. o + w BY <1>1, <1>2
  <2>2. j \notin offset + 1 .. offset + Width[t] BY <1>1, <2>1 DEF Apart
  <2>3. x[j] = block[j] BY <2>1, <2>2 DEF Store, ByteOffset
  <2> QED BY <2>1, <2>3
<1> QED BY <1>2, SameBytes

\* The block has its size, and every write not overwritten since is in it.
BlockInv ==
  /\ mem # <<>> => DOMAIN mem = 1 .. BlockSize
  /\ \A w \in intact :
       w.offset \in Nat /\ w.type \in Scalars /\ w.offset + Width[w.type] <= BlockSize
  /\ ReadsBack

LEMMA WriteHolds ==
  ASSUME BlockInv, NEW n \in 0 .. BlockSize - 1, NEW t \in Scalars, NEW v \in Small(t),
         Write(n, t, v)
  PROVE  BlockInv'
<1>1. BlockSize \in Nat /\ n \in Nat BY FfiAssumption
<1>2. v \in ValuesOf(t) BY DEF Small
<1>3. DOMAIN mem = 1 .. BlockSize /\ n + Width[t] <= BlockSize BY DEF BlockInv, Write
<1>4. PICK x : x = Store(mem, n, t, v) /\ mem' = x BY DEF Write
<1>5. DOMAIN x = 1 .. BlockSize BY <1>3, <1>4 DEF Store
<1>6. PICK w : w = [offset |-> n, type |-> t, value |-> v] OBVIOUS
<1>7. w.offset = n /\ w.type = t /\ w.value = v BY <1>6
<1>8. intact' = {o \in intact : Bytes(o) \cap Bytes(w) = {}} \cup {w} BY <1>6 DEF Write
<1>9. ASSUME NEW o \in intact'
      PROVE  /\ o.offset \in Nat /\ o.type \in Scalars /\ o.offset + Width[o.type] <= BlockSize
             /\ Load(x, o.offset, o.type) = o.value
  <2>1. CASE o = w
    <3>1. Load(x, n, t) = v BY <1>1, <1>2, <1>3, <1>4, LoadOfStore
    <3> QED BY <1>1, <1>3, <1>7, <2>1, <3>1
  <2>2. CASE o # w
    <3>1. o \in intact /\ Bytes(o) \cap Bytes(w) = {} BY <1>8, <1>9, <2>2
    <3>2. PICK i \in Nat, u \in Scalars : i = o.offset /\ u = o.type /\ i + Width[u] <= BlockSize
      BY <3>1 DEF BlockInv
    <3>3. Apart(i, u, n, t) BY <1>7, <3>1, <3>2 DEF Bytes, Apart
    <3>4. PICK block : block = mem OBVIOUS
    <3>6. DOMAIN block = 1 .. BlockSize /\ x = Store(block, n, t, v) BY <1>3, <1>4, <3>4
    <3>7. Load(x, i, u) = Load(block, i, u) BY <1>1, <1>2, <3>2, <3>3, <3>6, LoadBeside
    <3>5. Load(mem, i, u) = o.value BY <3>1, <3>2 DEF BlockInv, ReadsBack
    <3> QED BY <3>2, <3>4, <3>5, <3>7
  <2> QED BY <2>1, <2>2
<1> QED BY <1>4, <1>5, <1>9 DEF BlockInv, ReadsBack

-----------------------------------------------------------------------------
(* The theorems.                                                           *)

\* The program's own references to a library are counted on both sides.
LEMMA LibraryHolds ==
  ASSUME IndInv, NEW l \in Libs, LibraryOpen(l) \/ LibraryClose(l) \/ Install(l)
  PROVE  IndInv'
<1>1. UNCHANGED <<ffi, err, builder, stack, answer>> BY DEF LibraryOpen, LibraryClose, Install
<1>2. PICK d \in Int : /\ refs' = [refs EXCEPT ![l] = @ + d]
                       /\ opened' = [opened EXCEPT ![l] = @ + d]
  <2>1. CASE LibraryOpen(l)
    <3> WITNESS 1 \in Int
    <3> QED BY <2>1 DEF LibraryOpen
  <2>2. CASE LibraryClose(l)
    <3> WITNESS -1 \in Int
    <3> QED BY <2>2 DEF LibraryClose, IndInv, Loader
  <2>3. CASE Install(l)
    <3> WITNESS 0 \in Int
    <3> QED BY <2>3 DEF Install, IndInv, Loader
  <2> QED BY <2>1, <2>2, <2>3
<1>3. refs' \in [Libs -> Int] /\ opened' \in [Libs -> Int] BY <1>2 DEF IndInv, Loader
<1>4. \A k \in Libs : refs'[k] - opened'[k] = refs[k] - opened[k] BY <1>2 DEF IndInv, Loader
<1>5. \A k \in Libs : refs'[k] = opened'[k] + (IF ffi'.lib = k THEN 1 ELSE 0)
  BY <1>1, <1>3, <1>4 DEF IndInv, Loader, LibffiIsHeldOnce
<1> QED BY <1>1, <1>3, <1>5 DEF IndInv, Loader, LibffiIsHeldOnce, ErrorTellsTheOutcome

\* The invariant holds at the start.
LEMMA InitHolds == Init => IndInv
<1> SUFFICES ASSUME Init PROVE IndInv OBVIOUS
<1>1. Loader BY FfiAssumption DEF Init, Loader, LibffiIsHeldOnce, NoFfi
<1>2. builder \in [Handles -> Builder] BY EmptyBuilder DEF Init, NoCall
<1>3. stack \in Seq(Frame) BY DEF Init
<1>4. ErrorTellsTheOutcome BY DEF Init, ErrorTellsTheOutcome
<1> QED BY <1>1, <1>2, <1>3, <1>4 DEF IndInv

\* Every step keeps it.
LEMMA NextHolds == IndInv /\ [Next]_vars => IndInv'
<1> SUFFICES ASSUME IndInv, [Next]_vars PROVE IndInv' OBVIOUS
<1>1. CASE \E l \in Libs : LibraryOpen(l) \/ LibraryClose(l) \/ Install(l)
  BY <1>1, LibraryHolds
<1>2. CASE \E h \in Handles, n \in 0 .. MaxArgs : CallNew(h, n)
  BY <1>2, BuilderStepHolds
<1>3. CASE \E h \in Handles : CallReset(h) \/ CallFree(h)
  BY <1>3, BuilderStepHolds
<1>4. CASE \E h \in Handles, t \in Scalars : \E v \in Small(t) : CallArg(h, t, v)
  BY <1>4, BuilderStepHolds
<1>5. CASE \E h \in Handles, f \in Functions \cup {Null}, r \in ResultTypes : CallInvoke(h, f, r)
  BY <1>5, InvokeHolds
<1>6. CASE InvokeNull
  <2>1. "NULL_SYMBOL" \in Failures BY DEF Failures
  <2>2. Fail("NULL_SYMBOL") /\ UNCHANGED <<refs, opened, ffi, builder>> BY <1>6 DEF InvokeNull
  <2>3. ErrorTellsTheOutcome' /\ stack' = stack BY <2>1, <2>2, FailureTells
  <2> QED BY <2>2, <2>3 DEF IndInv, Loader, LibffiIsHeldOnce
<1>7. CASE \E f \in Functions \cup {Null}, r \in ResultTypes, a \in DirectArgs : DirectCall(f, r, a)
  BY <1>7, DirectHolds
<1>8. CASE \E v \in Values \cup {0} : FunctionReturns(v)
  BY <1>8, ReturnHolds
<1>9. CASE \/ Alloc \/ Free
           \/ \E n \in 0 .. BlockSize - 1, t \in Scalars : \E v \in Small(t) : Write(n, t, v)
  <2>1. UNCHANGED <<refs, opened, ffi, err, builder, stack, answer>>
    BY <1>9 DEF Alloc, Free, Write
  <2> QED BY <2>1 DEF IndInv, Loader, LibffiIsHeldOnce, ErrorTellsTheOutcome
<1>10. CASE UNCHANGED vars
  BY <1>10 DEF vars, IndInv, Loader, LibffiIsHeldOnce, ErrorTellsTheOutcome
<1> QED
  BY <1>1, <1>2, <1>3, <1>4, <1>5, <1>6, <1>7, <1>8, <1>9, <1>10 DEF Next

\* The inductive invariant: builders hold the words of what was asked for,
\* running functions got what was asked for, the loader's books balance.
THEOREM Inductive == Spec => []IndInv
BY InitHolds, NextHolds, PTL DEF Spec

\* However often loading libffi fails and is tried again, the loader holds one
\* reference for it and those of the program (dynamic_ffi_helpers.c:394-425).
THEOREM HeldOnce == Spec => []LibffiIsHeldOnce
<1>1. IndInv => LibffiIsHeldOnce BY DEF IndInv, Loader
<1> QED BY <1>1, Inductive, PTL

\* The code the program reads is that of the invoke that returned last, calls
\* nested in it included, and the value is what the function returned, for
\* every integer width (dynamic_ffi_helpers.c:459-493, 575-613).
THEOREM ErrorTells == Spec => []ErrorTellsTheOutcome
<1>1. IndInv => ErrorTellsTheOutcome BY DEF IndInv
<1> QED BY <1>1, Inductive, PTL

\* Every argument a running function got is the one the program asked for, of
\* any type, signed ones included, and no builder overflows
\* (dynamic_ffi_helpers.c:497-566).
THEOREM Arguments == Spec => []ArgumentsArrive
<1>1. IndInv => ArgumentsArrive
  <2> SUFFICES ASSUME IndInv PROVE ArgumentsArrive OBVIOUS
  <2>1. \A k \in DOMAIN stack : stack[k] \in Frame BY DEF IndInv
  <2>2. \A h \in Handles : builder[h] \in Builder BY DEF IndInv
  <2>3. \A h \in Handles : Len(builder[h].args) <= builder[h].capacity
    BY <2>2 DEF Builder
  <2> QED BY <2>1, <2>3 DEF Frame, ArgumentsArrive
<1> QED BY <1>1, Inductive, PTL

\* The inductive invariant of the block the program shares with native code.
LEMMA BlockHolds == Spec => []BlockInv
<1>1. Init => BlockInv BY DEF Init, BlockInv, ReadsBack
<1>2. BlockInv /\ [Next]_vars => BlockInv'
  <2> SUFFICES ASSUME BlockInv, [Next]_vars PROVE BlockInv' OBVIOUS
  <2>1. CASE UNCHANGED <<mem, intact>> BY <2>1 DEF BlockInv, ReadsBack
  <2>2. CASE Alloc
    <3>1. DOMAIN mem' = 1 .. BlockSize /\ intact' = {} BY <2>2 DEF Alloc
    <3> QED BY <3>1 DEF BlockInv, ReadsBack
  <2>3. CASE Free
    <3>1. mem' = <<>> /\ intact' = {} BY <2>3 DEF Free
    <3> QED BY <3>1 DEF BlockInv, ReadsBack
  <2>4. CASE \E n \in 0 .. BlockSize - 1, t \in Scalars : \E v \in Small(t) : Write(n, t, v)
    BY <2>4, WriteHolds
  <2>5. \/ UNCHANGED <<mem, intact>> \/ Alloc \/ Free
        \/ \E n \in 0 .. BlockSize - 1, t \in Scalars : \E v \in Small(t) : Write(n, t, v)
    BY DEF Next, vars, LibraryOpen, LibraryClose, Install, CallNew, CallReset, CallFree,
           CallArg, CallInvoke, InvokeNull, DirectCall, FunctionReturns
  <2> QED BY <2>1, <2>2, <2>3, <2>4, <2>5
<1> QED BY <1>1, <1>2, PTL DEF Spec

\* A value written to native memory at a byte offset is read back from there
\* with its type, for any widths, signed types included, whatever is written
\* beside it (dynamic_ffi_helpers.c:148-254).
THEOREM WritesReadBack == Spec => []ReadsBack
<1>1. BlockInv => ReadsBack BY DEF BlockInv
<1> QED BY <1>1, BlockHolds, PTL

=============================================================================
