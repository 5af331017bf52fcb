----------------------------- MODULE FrameMask -----------------------------
(***************************************************************************)
(* Masking of payloads (frame.hpp).  A key of four bytes is repeated over  *)
(* the payload; the code does it byte by byte, by machine words, and in    *)
(* pieces with a prepared key that is a machine word, rotated after each   *)
(* piece by shifts whose direction depends on the byte order.              *)
(*                                                                         *)
(* A byte has Base values, a power of two, and a word is the number that   *)
(* its bytes make in the machine's order, modulo Base^Word.                *)
(***************************************************************************)
EXTENDS Integers, Sequences, Bitwise

CONSTANTS
  Base,          \* values of a byte
  Word,          \* sizeof(size_t): 4 or 8
  LittleEndian,  \* lib::net::is_little_endian()
  Keys,          \* masking keys: sequences of four bytes
  Content        \* the payload

\* What is assumed of the constants.
MaskAssumption == Word \in {4, 8} /\ LittleEndian \in BOOLEAN

VARIABLES
  key, prepared_key,
  input,   \* what has not been masked
  output   \* what has

vars == <<key, prepared_key, input, output>>

\* A word of n bytes in memory, and the number it is.
InMemory(w, n) ==
  [i \in 1 .. n |-> (w \div (Base ^ (IF LittleEndian THEN i - 1 ELSE n - i))) % Base]
Number(bytes) ==
  LET n == Len(bytes)
      f[i \in 0 .. n] == IF i = 0 THEN 0
        ELSE f[i - 1] + bytes[i] * (Base ^ (IF LittleEndian THEN i - 1 ELSE n - i))
  IN  f[n]
ShiftLeft(w, n) == (w % (Base ^ (Word - n))) * (Base ^ n)
ShiftRight(w, n) == w \div (Base ^ n)

prepare_masking_key(k) ==
  IF Word = 8 THEN Number(k) * (Base ^ 4) + Number(k) ELSE Number(k)

circshift_prepared_key(pk, offset) ==
  IF offset = 0 THEN pk
  ELSE IF LittleEndian
    THEN ShiftRight(pk, offset) + ShiftLeft(pk, Word - offset)
    ELSE ShiftLeft(pk, offset) + ShiftRight(pk, Word - offset)

\* byte_mask() with a key offset.
byte_mask(bytes, k, offset) ==
  [i \in 1 .. Len(bytes) |-> bytes[i] ^^ k[((offset + i - 1) % 4) + 1]]

word_mask_exact(bytes, k) ==
  LET words == (Len(bytes) \div Word) * Word
      pk == InMemory(prepare_masking_key(k), Word)
  IN  [i \in 1 .. Len(bytes) |->
         IF i <= words THEN bytes[i] ^^ pk[((i - 1) % Word) + 1] ELSE bytes[i] ^^ k[((i - 1) % 4) + 1]]

Init ==
  /\ key \in Keys /\ prepared_key = prepare_masking_key(key)
  /\ input = Content /\ output = <<>>

Took(n, masked, shift) ==
  /\ output' = output \o masked
  /\ input' = SubSeq(input, n + 1, Len(input))
  /\ prepared_key' = circshift_prepared_key(prepared_key, shift)
  /\ UNCHANGED key

\* byte_mask_circ(): the key is the low half of the prepared one.
byte_mask_circ(n) ==
  Took(n, byte_mask(SubSeq(input, 1, n), InMemory(prepared_key % (Base ^ 4), 4), 0), n % 4)

\* word_mask_circ().
word_mask_circ(n) ==
  LET pk == InMemory(prepared_key, Word)
  IN  Took(n, [i \in 1 .. n |-> input[i] ^^ pk[((i - 1) % Word) + 1]], n % Word)

Next == \E n \in 1 .. Len(input) : byte_mask_circ(n) \/ word_mask_circ(n)

Spec == Init /\ [][Next]_vars

\* Whatever pieces a payload comes in and whichever way each is masked, the
\* result is the payload masked as a whole, byte by byte.
PiecesAgree == output = byte_mask(SubSeq(Content, 1, Len(output)), key, 0)

\* The prepared key stands where the next byte needs it: it is the key,
\* repeated, from the position that was reached.
KeyInPlace ==
  InMemory(prepared_key, Word) =
    [i \in 1 .. Word |-> key[((Len(output) + i - 1) % 4) + 1]]

\* Masking by words is masking by bytes, and undoes itself.
WordsAgree ==
  \A n \in 0 .. Len(input) :
    LET d == SubSeq(input, 1, n)
    IN  /\ word_mask_exact(d, key) = byte_mask(d, key, 0)
        /\ word_mask_exact(word_mask_exact(d, key), key) = d
==============================================================================
