--------------------------- MODULE Utf8Validator ---------------------------
(***************************************************************************)
(* The validator of text (utf8_validator.hpp): a table that maps a byte to *)
(* one of twelve types and a state and a type to the next state, run over  *)
(* a text that comes in pieces, against what UTF-8 is: each character is   *)
(* encoded in the fewest bytes, is no surrogate and at most 0x10FFFF.      *)
(***************************************************************************)
EXTENDS Integers, Sequences, SequencesExt, Bitwise

CONSTANTS
  SampleBytes,  \* bytes a text is made of
  MaxChars      \* bound: characters of a text

VARIABLES
  m_state, m_codepoint,
  char,   \* bytes since the last whole character
  chars   \* characters so far

vars == <<m_state, m_codepoint, char, chars>>

utf8_accept == 0
utf8_reject == 1

\* The first part of utf8d: the type of a byte.
TypeOf(b) ==
  CASE b <= 127 -> 0 [] b \in 128 .. 143 -> 1 [] b \in 144 .. 159 -> 9
    [] b \in 160 .. 191 -> 7 [] b \in 192 .. 193 -> 8 [] b \in 194 .. 223 -> 2
    [] b = 224 -> 10 [] b = 237 -> 4 [] b \in (225 .. 239) \ {237} -> 3
    [] b = 240 -> 11 [] b \in 241 .. 243 -> 6 [] b = 244 -> 5 [] b >= 245 -> 8

\* The second part of utf8d: a row for each state, a column for each type.
Row(s) ==
  CASE s = 0 -> <<0, 1, 2, 3, 5, 8, 7, 1, 1, 1, 4, 6, 1, 1, 1, 1>>
    [] s = 1 -> <<1, 1, 1, 1, 1, 1, 1, 1, 1, 1, 1, 1, 1, 1, 1, 1>>
    [] s = 2 -> <<1, 0, 1, 1, 1, 1, 1, 0, 1, 0, 1, 1, 1, 1, 1, 1>>
    [] s = 3 -> <<1, 2, 1, 1, 1, 1, 1, 2, 1, 2, 1, 1, 1, 1, 1, 1>>
    [] s = 4 -> <<1, 1, 1, 1, 1, 1, 1, 2, 1, 1, 1, 1, 1, 1, 1, 1>>
    [] s = 5 -> <<1, 2, 1, 1, 1, 1, 1, 1, 1, 2, 1, 1, 1, 1, 1, 1>>
    [] s = 6 -> <<1, 1, 1, 1, 1, 1, 1, 3, 1, 3, 1, 1, 1, 1, 1, 1>>
    [] s = 7 -> <<1, 3, 1, 1, 1, 1, 1, 3, 1, 3, 1, 1, 1, 1, 1, 1>>
    [] s = 8 -> <<1, 3, 1, 1, 1, 1, 1, 1, 1, 1, 1, 1, 1, 1, 1, 1>>

\* decode() of a byte.  A type is too large a shift only where the byte is
\* rejected.
Codepoint(s, cp, b) ==
  IF s # utf8_accept THEN (b & 63) + cp * 64
  ELSE (255 \div (2 ^ TypeOf(b))) & b

Init == m_state = utf8_accept /\ m_codepoint = 0 /\ char = <<>> /\ chars = 0

\* validator::consume(), and a round of validator::decode().
Consume(b) ==
  /\ m_state # utf8_reject /\ chars < MaxChars
  /\ m_state' = Row(m_state)[TypeOf(b) + 1]
  /\ m_codepoint' = Codepoint(m_state, m_codepoint, b)
  /\ char' = IF m_state = utf8_accept THEN <<b>> ELSE Append(char, b)
  /\ chars' = IF m_state' = utf8_accept THEN chars + 1 ELSE chars

\* validator::reset() after a text that was refused or cut off.
Reset ==
  /\ m_state # utf8_accept /\ chars < MaxChars
  /\ m_state' = utf8_accept /\ m_codepoint' = 0
  /\ char' = <<>> /\ chars' = chars + 1

Next == (\E b \in SampleBytes : Consume(b)) \/ Reset
Spec == Init /\ [][Next]_vars

------------------------------------------------------------------------------
(* What UTF-8 is *)

\* How many bytes the first one announces, and its share of the character.
Length(b) ==
  IF b < 128 THEN 1 ELSE IF b \in 192 .. 223 THEN 2
  ELSE IF b \in 224 .. 239 THEN 3 ELSE IF b \in 240 .. 247 THEN 4 ELSE 0
Lead(b) == IF b < 128 THEN b ELSE b - (256 - 2 ^ (8 - Length(b)))
Scalar(n, len) ==
  /\ n >= (CASE len = 1 -> 0 [] len = 2 -> 128 [] len = 3 -> 2048 [] len = 4 -> 65536)
  /\ n \notin 55296 .. 57343 /\ n <= 1114111
Value(s) == FoldLeft(LAMBDA n, b : n * 64 + (b - 128), Lead(s[1]), Tail(s))

\* s can be continued to a character, or is one.
CanBecome(s) ==
  LET len == Length(s[1])
      missing == len - Len(s)
      least == Value(s) * (64 ^ missing)
      most == least + (64 ^ missing) - 1
  IN  /\ len > 0 /\ missing >= 0
      /\ \A i \in 2 .. Len(s) : s[i] \in 128 .. 191
      /\ \/ Scalar(least, len) \/ Scalar(most, len)
         \/ missing > 0 /\ least < 2048 /\ len = 3 /\ most >= 2048
         \/ missing > 0 /\ least < 65536 /\ len = 4 /\ most >= 65536

\* utf8_validator.hpp:41: a byte is refused exactly when no character goes
\* on with it, so a text is refused at its first wrong byte and not later.
RefusesAtOnce == char # <<>> => (m_state = utf8_reject <=> ~CanBecome(char))

\* The validator is complete exactly at the end of a character, and has then
\* decoded it.
AcceptsCharacters ==
  char # <<>> =>
    /\ m_state = utf8_accept <=> CanBecome(char) /\ Len(char) = Length(char[1])
    /\ m_state = utf8_accept => m_codepoint = Value(char)
==============================================================================
