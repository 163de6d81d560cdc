----------------------------- MODULE NativeMemory -----------------------------
(***************************************************************************)
(* Scalars in raw memory and in argument words, as                         *)
(* kira_native_bridge/src/dynamic_ffi_helpers.c stores and loads them.     *)
(* Memory is a sequence of bytes, little-endian; a byte has Base values    *)
(* and a scalar type its width in bytes, both as small as an instance      *)
(* needs.  Floats and pointers are bit patterns like the unsigned types.   *)
(***************************************************************************)
EXTENDS Integers, Sequences, SequencesExt

CONSTANTS
  Base,       \* the number of values of a byte
  Width,      \* bytes of each scalar type
  SignedTypes,\* i8, i16, i32, i64
  WordWidth   \* bytes of a uintptr_t

Scalars == DOMAIN Width

ASSUME MemoryAssumption ==
  /\ Base \in Nat \ {0, 1} /\ WordWidth \in Nat \ {0}
  /\ SignedTypes \subseteq Scalars /\ Width \in [Scalars -> 1 .. WordWidth]

Modulus(bytes) == Base ^ bytes

\* What a power is, up to the width of a word.
ASSUME PowerAssumption ==
  Modulus(0) = 1 /\ \A n \in 0 .. WordWidth - 1 : Modulus(n + 1) = Base * Modulus(n)

\* A bit pattern read as a type: two's complement for the signed ones.
AsType(t, bits) ==
  LET m == Modulus(Width[t])  u == bits % m
  IN  IF t \in SignedTypes /\ 2 * u >= m THEN u - m ELSE u

ValuesOf(t) == {AsType(t, bits) : bits \in 0 .. Modulus(Width[t]) - 1}

\* kira_dynamic_write_*_at and kira_dynamic_read_*_at: byte offsets.
\* Mutant: the offset counts elements of the type.
ElementOffset(t, offset) == Width[t] * offset
ByteOffset(t, offset) == offset

ByteOf(bits, k) == (bits \div Modulus(k)) % Base

Store(mem, offset, t, v) ==
  LET at == ByteOffset(t, offset)  bits == v % Modulus(Width[t]) IN
  [k \in DOMAIN mem |-> IF k \in at + 1 .. at + Width[t]
                          THEN ByteOf(bits, k - at - 1) ELSE mem[k]]

\* sum[n] is the number that the first n bytes make.
Load(mem, offset, t) ==
  LET sum[n \in 0 .. Width[t]] ==
        IF n = 0 THEN 0 ELSE sum[n - 1] + Modulus(n - 1) * mem[offset + n]
  IN  AsType(t, sum[Width[t]])

\* kira_dynamic_call_arg_*: a value in an argument word.  i32 goes through
\* uint32_t, so the high half of its word is zero.
ToWord(t, v) == (v % Modulus(Width[t])) % Modulus(WordWidth)

\* What libffi loads for an argument of that type from the word's address.
FromWord(t, word) == AsType(t, word)
===============================================================================
