---------------------------- MODULE FrameHeader ----------------------------
(***************************************************************************)
(* The header of a frame, bit by bit (frame.hpp): two bytes that are set   *)
(* as a whole by the constructor of basic_header or field by field by the  *)
(* set_ functions, and up to twelve of extended_header, whose meaning      *)
(* depends on the two.  Sizes are below 2^31, the range of TLC's integers. *)
(***************************************************************************)
EXTENDS Integers, Sequences, SequencesExt, Bitwise

CONSTANTS Opcodes, Sizes, MaskingKeys

payload_size_basic == 125
payload_size_extended == 65535
payload_size_code_16bit == 126
payload_size_code_64bit == 127
BHB0_FIN == 128
BHB0_RSV1 == 64
BHB0_RSV2 == 32
BHB0_RSV3 == 16
BHB0_OPCODE == 15
BHB1_MASK == 128
BHB1_PAYLOAD == 127

VARIABLES
  want,    \* what the header was set to say
  b0, b1,  \* basic_header
  bytes    \* extended_header

vars == <<want, b0, b1, bytes>>

SizeCode(size) ==
  IF size <= payload_size_basic THEN size
  ELSE IF size <= payload_size_extended THEN payload_size_code_16bit
  ELSE payload_size_code_64bit

\* basic_header(op, size, fin, mask, rsv1, rsv2, rsv3).
Basic(w) ==
  [b0 |-> (((IF w.fin THEN BHB0_FIN ELSE 0) | (IF w.rsv1 THEN BHB0_RSV1 ELSE 0))
           | ((IF w.rsv2 THEN BHB0_RSV2 ELSE 0) | (IF w.rsv3 THEN BHB0_RSV3 ELSE 0)))
          | (w.op & BHB0_OPCODE),
   b1 |-> (IF w.masked THEN BHB1_MASK ELSE 0) | SizeCode(w.size)]

\* _htonll(): the bytes of a size of 64 bits, the highest first.
_htonll(size) ==
  [i \in 1 .. 8 |-> IF i <= 4 THEN 0 ELSE (size \div (256 ^ (8 - i))) % 256]
FromBytes(s) == FoldLeft(LAMBDA n, b : n * 256 + b, 0, s)

\* extended_header::copy_payload(), which says where the key follows.
copy_payload(size) ==
  SubSeq(_htonll(size),
         1 + (IF size <= payload_size_basic THEN 8
              ELSE IF size <= payload_size_extended THEN 6 ELSE 0), 8)

\* extended_header(size) and extended_header(size, masking_key): zeros follow.
Extended(w) ==
  LET used == copy_payload(w.size) \o (IF w.masked THEN w.key ELSE <<>>)
  IN  [i \in 1 .. 12 |-> IF i <= Len(used) THEN used[i] ELSE 0]

\* The getters.
get_fin == b0 & BHB0_FIN = BHB0_FIN
get_rsv1 == b0 & BHB0_RSV1 = BHB0_RSV1
get_rsv2 == b0 & BHB0_RSV2 = BHB0_RSV2
get_rsv3 == b0 & BHB0_RSV3 = BHB0_RSV3
get_opcode == b0 & BHB0_OPCODE
get_masked == b1 & BHB1_MASK = BHB1_MASK
get_basic_size == b1 & BHB1_PAYLOAD

get_masking_key_offset ==
  IF get_basic_size = payload_size_code_16bit THEN 2
  ELSE IF get_basic_size = payload_size_code_64bit THEN 8 ELSE 0

get_header_len == 2 + get_masking_key_offset + (IF get_masked THEN 4 ELSE 0)

get_masking_key ==
  IF get_masked THEN SubSeq(bytes, get_masking_key_offset + 1, get_masking_key_offset + 4)
  ELSE <<0, 0, 0, 0>>

get_payload_size ==
  IF get_basic_size <= payload_size_basic THEN get_basic_size
  ELSE IF get_basic_size = payload_size_code_16bit THEN FromBytes(SubSeq(bytes, 1, 2))
  ELSE FromBytes(SubSeq(bytes, 1, 8))

prepare_header == <<b0, b1>> \o SubSeq(bytes, 1, get_header_len - 2)

Fields ==
  [op : Opcodes, fin : BOOLEAN, rsv1 : BOOLEAN, rsv2 : BOOLEAN, rsv3 : BOOLEAN,
   masked : BOOLEAN, size : Sizes, key : MaskingKeys]

\* A data frame is made by prepare_data_frame() with the rsv1 bit or without, a
\* control frame without.
Init ==
  /\ want \in {w \in Fields : ~w.rsv2 /\ ~w.rsv3 /\ (w.op >= 8 => w.fin /\ ~w.rsv1)}
  /\ b0 = Basic(want).b0 /\ b1 = Basic(want).b1
  /\ bytes = Extended(want)

Cleared(b, bit) == IF b & bit = bit THEN b - bit ELSE b

\* set_fin(), set_rsv1(), set_rsv2(), set_rsv3(): one bit of the first byte.
SetBit(b, bit, value) == IF value THEN b | bit ELSE Cleared(b, bit)

set_fin(v) ==
  /\ b0' = SetBit(b0, BHB0_FIN, v) /\ want' = [want EXCEPT !.fin = v]
  /\ UNCHANGED <<b1, bytes>>
set_rsv1(v) ==
  /\ b0' = SetBit(b0, BHB0_RSV1, v) /\ want' = [want EXCEPT !.rsv1 = v]
  /\ UNCHANGED <<b1, bytes>>
set_rsv2(v) ==
  /\ b0' = SetBit(b0, BHB0_RSV2, v) /\ want' = [want EXCEPT !.rsv2 = v]
  /\ UNCHANGED <<b1, bytes>>
set_rsv3(v) ==
  /\ b0' = SetBit(b0, BHB0_RSV3, v) /\ want' = [want EXCEPT !.rsv3 = v]
  /\ UNCHANGED <<b1, bytes>>

\* set_masked() leaves the extended header, which has to be made anew.
set_masked(v) ==
  /\ b1' = SetBit(b1, BHB1_MASK, v) /\ want' = [want EXCEPT !.masked = v]
  /\ bytes' = Extended(want') /\ UNCHANGED b0

Next ==
  \E v \in BOOLEAN : set_fin(v) \/ set_rsv1(v) \/ set_rsv2(v) \/ set_rsv3(v) \/ set_masked(v)

Spec == Init /\ [][Next]_vars

\* A field reads as it was last set, whatever happened to the others.
FieldsApart ==
  /\ get_fin = want.fin /\ get_rsv1 = want.rsv1 /\ get_rsv2 = want.rsv2
  /\ get_rsv3 = want.rsv3 /\ get_opcode = want.op /\ get_masked = want.masked

\* The size is read back at every boundary of its three encodings.
SizeReadBack == get_payload_size = want.size

\* The key is read from where it was put, and the header that is sent is as
\* long as the reader expects: it ends with the key, or with the size.
KeyReadBack ==
  /\ want.masked => get_masking_key = want.key
  /\ Len(prepare_header) = get_header_len
  /\ \A i \in get_header_len - 1 .. 12 : bytes[i] = 0

\* The encoding is the shortest, as validate_incoming_extended_header() wants.
EncodingMinimal ==
  /\ get_basic_size = payload_size_code_16bit => want.size > payload_size_basic
  /\ get_basic_size = payload_size_code_64bit => want.size > payload_size_extended
==============================================================================
