---------------------------- MODULE FramingProofs ----------------------------
(***************************************************************************)
(* Proofs about Hybi13 for any frames a peer may send, however many, of    *)
(* any size, read in pieces of any size: the receiver always stands at a   *)
(* known place of a known frame (FramingInv), so that it reads each header *)
(* as it was written, implements FrameStream, and accepts what the         *)
(* library's sender makes.                                                 *)
(***************************************************************************)
EXTENDS Hybi13, SequenceTheorems, WellFoundedInduction, TLAPS

Opcodes == {"continuation", "text", "binary"} \cup Control \cup Reserved
Codes == {"basic", "16bit", "64bit"}
Chars == {"ascii", "lead", "cont", "code", "other"}
FrameRecords ==
  [op : Opcodes, fin : BOOLEAN, rsv : BOOLEAN, masked : BOOLEAN, code : Codes,
   payload : Seq(Chars)]

\* What a peer may send: any frame whose size fits into the code it was written
\* with, allowed by the protocol or not.
FramesFit ==
  /\ Frames \subseteq FrameRecords
  /\ \A f \in Frames :
       /\ f.code = "basic" => Len(f.payload) <= BasicSize
       /\ f.code = "16bit" => Len(f.payload) <= ExtendedSize

------------------------------------------------------------------------------
(* The bytes of a frame *)

WireBytes ==
  [kind : {"b0"}, op : Opcodes, fin : BOOLEAN, rsv : BOOLEAN]
    \cup [kind : {"b1"}, masked : BOOLEAN, code : Codes, size : Nat]
    \cup [kind : {"size"}, at : Nat, size : Nat]
    \cup [kind : {"key"}, at : Nat]
    \cup [kind : {"payload"}, char : Chars, mask : Int]

Byte0(f) == [kind |-> "b0", op |-> f.op, fin |-> f.fin, rsv |-> f.rsv]
Byte1(f) == [kind |-> "b1", masked |-> f.masked, code |-> f.code, size |-> Len(f.payload)]
SizeByte(f, i) == [kind |-> "size", at |-> i, size |-> Len(f.payload)]
KeyByte(i) == [kind |-> "key", at |-> i]
PayloadByte(f, i) ==
  [kind |-> "payload", char |-> f.payload[i], mask |-> IF f.masked THEN (i - 1) % 4 ELSE -1]

KeyLen(f) == IF f.masked THEN 4 ELSE 0
HeaderOf(f) == 2 + KeyOffset(f.code) + KeyLen(f)

\* The lengths of the parts of a header, by its size code and whether there is a key.
LEMMA HeaderLens ==
  ASSUME NEW f \in FrameRecords
  PROVE  /\ KeyOffset(f.code) \in {0, 2, 8} /\ KeyLen(f) \in {0, 4}
         /\ f.code = "basic" <=> KeyOffset(f.code) = 0
         /\ HeaderLen(Byte1(f)) = KeyOffset(f.code) + KeyLen(f)
         /\ HeaderOf(f) \in 2 .. 14 /\ Len(f.payload) \in Nat
         /\ f.payload \in Seq(Chars)
  BY DEF FrameRecords, Codes, KeyOffset, KeyLen, HeaderLen, Byte1, HeaderOf

\* What prepare_header() and the masking put at each place of a frame.
LEMMA BytesAre ==
  ASSUME NEW f \in FrameRecords
  PROVE  /\ Bytes(f) \in Seq(WireBytes)
         /\ Len(Bytes(f)) = HeaderOf(f) + Len(f.payload)
         /\ Bytes(f)[1] = Byte0(f) /\ Bytes(f)[2] = Byte1(f)
         /\ \A i \in 1 .. KeyOffset(f.code) : Bytes(f)[2 + i] = SizeByte(f, i)
         /\ \A i \in 1 .. KeyLen(f) : Bytes(f)[2 + KeyOffset(f.code) + i] = KeyByte(i)
         /\ \A i \in 1 .. Len(f.payload) : Bytes(f)[HeaderOf(f) + i] = PayloadByte(f, i)
<1> DEFINE n == Len(f.payload)
           o == KeyOffset(f.code)
           k == KeyLen(f)
           basic == <<Byte0(f), Byte1(f)>>
           sizes == [i \in 1 .. o |-> SizeByte(f, i)]
           keys == [i \in 1 .. k |-> KeyByte(i)]
           chars == [i \in 1 .. n |-> PayloadByte(f, i)]
<1>1. Bytes(f) = ((basic \o sizes) \o keys) \o chars
  BY DEF Bytes, Byte0, Byte1, SizeByte, KeyByte, PayloadByte, KeyLen
<1>2. n \in Nat /\ o \in Nat /\ k \in Nat /\ HeaderOf(f) = 2 + o + k
  BY HeaderLens DEF HeaderOf
<1>3. basic \in Seq(WireBytes) /\ Len(basic) = 2 /\ basic[1] = Byte0(f) /\ basic[2] = Byte1(f)
  <2>1. Byte0(f) \in WireBytes /\ Byte1(f) \in WireBytes
    BY <1>2 DEF Byte0, Byte1, WireBytes, FrameRecords
  <2> QED BY <2>1
<1>4. sizes \in Seq(WireBytes) /\ Len(sizes) = o /\ \A i \in 1 .. o : sizes[i] = SizeByte(f, i)
  <2>1. \A i \in 1 .. o : SizeByte(f, i) \in WireBytes
    BY <1>2 DEF SizeByte, WireBytes
  <2> QED BY <1>2, <2>1
<1>5. keys \in Seq(WireBytes) /\ Len(keys) = k /\ \A i \in 1 .. k : keys[i] = KeyByte(i)
  <2>1. \A i \in 1 .. k : KeyByte(i) \in WireBytes
    BY <1>2 DEF KeyByte, WireBytes
  <2> QED BY <1>2, <2>1
<1>6. chars \in Seq(WireBytes) /\ Len(chars) = n /\ \A i \in 1 .. n : chars[i] = PayloadByte(f, i)
  <2>1. \A i \in 1 .. n : f.payload[i] \in Chars
    BY HeaderLens
  <2>2. \A i \in 1 .. n : (IF f.masked THEN (i - 1) % 4 ELSE -1) \in Int
    BY <1>2
  <2>3. \A i \in 1 .. n : PayloadByte(f, i) \in WireBytes
    BY <2>1, <2>2 DEF PayloadByte, WireBytes
  <2> QED BY <1>2, <2>3
<1> HIDE DEF n, o, k, basic, sizes, keys, chars
<1> DEFINE two == basic \o sizes
           three == two \o keys
<1>a. /\ two \in Seq(WireBytes) /\ Len(two) = Len(basic) + Len(sizes)
      /\ \A i \in 1 .. Len(basic) + Len(sizes) :
           two[i] = IF i <= Len(basic) THEN basic[i] ELSE sizes[i - Len(basic)]
  BY <1>3, <1>4, ConcatProperties
<1>7. /\ two \in Seq(WireBytes) /\ Len(two) = 2 + o /\ two[1] = Byte0(f) /\ two[2] = Byte1(f)
      /\ \A i \in 1 .. o : two[2 + i] = SizeByte(f, i)
  BY <1>2, <1>3, <1>4, <1>a
<1> HIDE DEF two
<1>b. /\ three \in Seq(WireBytes) /\ Len(three) = Len(two) + Len(keys)
      /\ \A i \in 1 .. Len(two) + Len(keys) :
           three[i] = IF i <= Len(two) THEN two[i] ELSE keys[i - Len(two)]
  BY <1>5, <1>7, ConcatProperties
<1>8. /\ three \in Seq(WireBytes) /\ Len(three) = 2 + o + k
      /\ three[1] = Byte0(f) /\ three[2] = Byte1(f)
      /\ \A i \in 1 .. o : three[2 + i] = SizeByte(f, i)
      /\ \A i \in 1 .. k : three[2 + o + i] = KeyByte(i)
  BY <1>2, <1>5, <1>7, <1>b
<1> HIDE DEF three
<1>9. Bytes(f) = three \o chars
  BY <1>1 DEF two, three
<1>c. /\ three \o chars \in Seq(WireBytes) /\ Len(three \o chars) = Len(three) + Len(chars)
      /\ \A i \in 1 .. Len(three) + Len(chars) :
           (three \o chars)[i] = IF i <= Len(three) THEN three[i] ELSE chars[i - Len(three)]
  BY <1>6, <1>8, ConcatProperties
<1>10. /\ Bytes(f) \in Seq(WireBytes) /\ Len(Bytes(f)) = 2 + o + k + n
       /\ Bytes(f)[1] = Byte0(f) /\ Bytes(f)[2] = Byte1(f)
       /\ \A i \in 1 .. o : Bytes(f)[2 + i] = SizeByte(f, i)
       /\ \A i \in 1 .. k : Bytes(f)[2 + o + i] = KeyByte(i)
       /\ \A i \in 1 .. n : Bytes(f)[2 + o + k + i] = PayloadByte(f, i)
  BY <1>2, <1>6, <1>8, <1>9, <1>c
<1> QED BY <1>2, <1>10 DEF n, o, k

------------------------------------------------------------------------------
(* Streams: the bytes of whole frames *)

\* The least set of byte sequences that has the empty one and is closed under
\* putting a frame in front.
Closed(S) == <<>> \in S /\ \A f \in Frames, t \in S : Bytes(f) \o t \in S
Streams == {s \in Seq(WireBytes) : \A S \in SUBSET Seq(WireBytes) : Closed(S) => s \in S}

\* Streams is closed under what it is built with.
LEMMA StreamsClosed ==
  ASSUME FramesFit
  PROVE  Closed(Streams) /\ Streams \subseteq Seq(WireBytes)
<1>1. <<>> \in Streams
  BY DEF Streams, Closed
<1>2. ASSUME NEW f \in Frames, NEW t \in Streams PROVE Bytes(f) \o t \in Streams
  <2>1. Bytes(f) \in Seq(WireBytes) /\ t \in Seq(WireBytes)
    BY <1>2, BytesAre DEF FramesFit, Streams
  <2>2. Bytes(f) \o t \in Seq(WireBytes)
    BY <2>1, ConcatProperties
  <2>3. ASSUME NEW S \in SUBSET Seq(WireBytes), Closed(S) PROVE Bytes(f) \o t \in S
    BY <1>2, <2>3 DEF Streams, Closed
  <2> QED BY <2>2, <2>3 DEF Streams
<1> QED BY <1>1, <1>2 DEF Closed, Streams

\* A stream begins with a frame, if with anything.
LEMMA StreamBegins ==
  ASSUME FramesFit, NEW s \in Streams, s # <<>>
  PROVE  \E f \in Frames, t \in Streams : s = Bytes(f) \o t
<1> DEFINE S == {u \in Streams : u = <<>> \/ \E f \in Frames, t \in Streams : u = Bytes(f) \o t}
<1>1. S \in SUBSET Seq(WireBytes)
  BY StreamsClosed
<1>2. Closed(S)
  BY StreamsClosed DEF Closed
<1>3. s \in S
  BY <1>1, <1>2 DEF Streams
<1> QED BY <1>3

\* And goes on with one.
LEMMA StreamGoesOn ==
  ASSUME FramesFit, NEW s \in Streams, NEW f \in Frames
  PROVE  s \o Bytes(f) \in Streams
<1>0. Bytes(f) \in Seq(WireBytes) /\ \A g \in Frames : Bytes(g) \in Seq(WireBytes)
  BY BytesAre DEF FramesFit
<1> DEFINE S == {u \in Streams : u \o Bytes(f) \in Streams}
<1>1. S \in SUBSET Seq(WireBytes)
  BY StreamsClosed
<1>2. <<>> \in S
  <2>1. <<>> \in Streams /\ <<>> \o Bytes(f) = Bytes(f) /\ Bytes(f) \o <<>> = Bytes(f)
    BY <1>0, StreamsClosed, ConcatEmptySeq DEF Closed
  <2>2. Bytes(f) \o <<>> \in Streams
    BY <2>1, StreamsClosed DEF Closed
  <2> QED BY <2>1, <2>2
<1>3. ASSUME NEW g \in Frames, NEW t \in S PROVE Bytes(g) \o t \in S
  <2>1. t \in Streams /\ t \o Bytes(f) \in Streams /\ t \in Seq(WireBytes)
    BY <1>1, <1>3
  <2>2. Bytes(g) \o t \in Streams /\ Bytes(g) \o (t \o Bytes(f)) \in Streams
    BY <2>1, StreamsClosed DEF Closed
  <2>3. (Bytes(g) \o t) \o Bytes(f) = Bytes(g) \o (t \o Bytes(f))
    BY <1>0, <2>1, ConcatAssociative
  <2> QED BY <2>2, <2>3
<1>4. Closed(S)
  BY <1>2, <1>3 DEF Closed
<1>5. s \in S
  BY <1>1, <1>4 DEF Streams
<1> QED BY <1>5
------------------------------------------------------------------------------
(* The decoding of a text in pieces *)

Utf8States == {"accept", "more", "reject"}

\* A set of natural numbers has a least element.
LEMMA LeastOf ==
  ASSUME NEW S \in SUBSET Nat, S # {}
  PROVE  \E i \in S : \A j \in S : i <= j
<1>1. PICK i \in S : \A j \in S : <<j, i>> \notin OpToRel(<, Nat)
  BY NatLessThanWellFounded, WFMin, Zenon
<1>2. \A j \in S : ~(j < i)
  BY <1>1, Zenon DEF OpToRel
<1> QED BY <1>2

\* f[k] is the state after k bytes of p.
Decodes(f, s, p, n) ==
  f = [k \in 0 .. n |-> IF k = 0 THEN s ELSE Utf8Step(f[k - 1], p[k])]

\* Decode() by the function it chooses.
LEMMA DecodeIs ==
  ASSUME NEW s, NEW p
  PROVE  Decode(s, p) = (CHOOSE f : Decodes(f, s, p, Len(p)))[Len(p)]
  BY DEF Decode, Decodes

\* There is such a function, for every length.
LEMMA DecodesExists ==
  ASSUME NEW s, NEW p, NEW n \in Nat
  PROVE  \E f : Decodes(f, s, p, n)
<1> DEFINE T == {m \in Nat : ~ \E f : Decodes(f, s, p, m)}
<1>1. CASE T = {}
  BY <1>1
<1>2. CASE T # {}
  <2>1. PICK m \in T : \A k \in T : m <= k
    BY <1>2, LeastOf
  <2>2. CASE m = 0
    <3>1. [k \in 0 .. 0 |-> s] =
            [k \in 0 .. 0 |-> IF k = 0 THEN s ELSE Utf8Step([x \in 0 .. 0 |-> s][k - 1], p[k])]
      OBVIOUS
    <3>2. Decodes([k \in 0 .. 0 |-> s], s, p, 0)
      BY <3>1 DEF Decodes
    <3> QED BY <2>2, <3>2
  <2>3. CASE m # 0
    <3>1. m - 1 \in Nat /\ m - 1 \notin T
      BY <2>1, <2>3
    <3>2. PICK f : Decodes(f, s, p, m - 1)
      BY <3>1
    <3> DEFINE g == [k \in 0 .. m |-> IF k = m THEN Utf8Step(f[m - 1], p[m]) ELSE f[k]]
    <3>3. \A k \in 0 .. m : g[k] = IF k = 0 THEN s ELSE Utf8Step(g[k - 1], p[k])
      BY <2>3, <3>1, <3>2 DEF Decodes
    <3>4. Decodes(g, s, p, m)
      <4> DEFINE h == [k \in 0 .. m |-> IF k = 0 THEN s ELSE Utf8Step(g[k - 1], p[k])]
      <4>1. g = h
        BY <3>3
      <4> QED BY <4>1 DEF Decodes
    <3> QED BY <3>4
  <2> QED BY <2>2, <2>3
<1> QED BY <1>1, <1>2

Agree(p, q, n) == \A k \in 1 .. n : p[k] = q[k]
\* Two of them agree as far as their texts do.
LEMMA DecodesUnique ==
  ASSUME NEW s, NEW p, NEW q, NEW n \in Nat, NEW m \in Nat, n <= m,
         Agree(p, q, n), NEW f, NEW g, Decodes(f, s, p, n), Decodes(g, s, q, m)
  PROVE  \A k \in 0 .. n : f[k] = g[k]
<1> DEFINE T == {k \in 0 .. n : f[k] # g[k]}
<1>0. T \subseteq Nat
  OBVIOUS
<1>1. CASE T # {}
  <2> HIDE DEF T
  <2>1. PICK i \in T : \A k \in T : i <= k
    BY <1>0, <1>1, LeastOf
  <2> USE DEF T
  <2>2. f[0] = s /\ g[0] = s
    BY DEF Decodes
  <2>3. i - 1 \in 0 .. n /\ i - 1 \notin T /\ i # 0
    BY <2>1, <2>2
  <2>4. f[i] = Utf8Step(f[i - 1], p[i]) /\ g[i] = Utf8Step(g[i - 1], q[i])
    BY <2>1, <2>3 DEF Decodes
  <2>5. p[i] = q[i]
    BY <2>1, <2>3 DEF Agree
  <2> QED BY <2>1, <2>3, <2>4, <2>5
<1> QED BY <1>1

\* No bytes leave the state as it is.
LEMMA DecodeNothing == ASSUME NEW s PROVE Decode(s, <<>>) = s
<1> DEFINE f == CHOOSE f : Decodes(f, s, <<>>, 0)
<1>1. Decodes(f, s, <<>>, 0)
  BY DecodesExists
<1>2. Decode(s, <<>>) = f[0]
  BY DecodeIs
<1> HIDE DEF f
<1> QED BY <1>1, <1>2 DEF Decodes

\* One more byte is one more step.
LEMMA DecodeOneMore ==
  ASSUME NEW s, NEW p \in Seq(Chars), NEW e \in Chars
  PROVE  Decode(s, Append(p, e)) = Utf8Step(Decode(s, p), e)
<1> DEFINE n == Len(p)
           q == Append(p, e)
           f == CHOOSE f : Decodes(f, s, p, Len(p))
           g == CHOOSE g : Decodes(g, s, q, Len(q))
<1>1. n \in Nat /\ Len(q) = n + 1 /\ q[n + 1] = e /\ \A k \in 1 .. n : p[k] = q[k]
  BY AppendProperties
<1>2. Decodes(f, s, p, n) /\ Decodes(g, s, q, n + 1)
  <2>1. (\E x : Decodes(x, s, p, Len(p))) /\ Len(p) = n
    BY <1>1, DecodesExists
  <2>2. Len(q) = n + 1 /\ n + 1 \in Nat
    BY <1>1
  <2>3. \E x : Decodes(x, s, q, n + 1)
    BY <2>2, DecodesExists
  <2> QED BY <2>1, <2>2, <2>3
<1>3. Decode(s, p) = f[n] /\ Decode(s, q) = g[n + 1]
  BY <1>1, DecodeIs
<1> HIDE DEF f, g, n, q
<1>4. f[n] = g[n]
  <2>1. n + 1 \in Nat /\ n <= n + 1 /\ n \in 0 .. n
    BY <1>1
  <2>2. Decodes(f, s, p, n) /\ Decodes(g, s, q, n + 1)
    BY <1>2
  <2>3. n \in Nat /\ Agree(p, q, n)
    BY <1>1 DEF Agree
  <2>4. \A k \in 0 .. n : f[k] = g[k]
    BY <2>1, <2>2, <2>3, DecodesUnique
  <2> QED BY <2>1, <2>4
<1>5. g[n + 1] = Utf8Step(g[n], e)
  BY <1>1, <1>2 DEF Decodes
<1> QED BY <1>3, <1>4, <1>5 DEF q

\* A text is decoded in pieces as it is decoded whole.
LEMMA DecodeInPieces ==
  ASSUME NEW s, NEW p \in Seq(Chars), NEW q \in Seq(Chars)
  PROVE  Decode(s, p \o q) = Decode(Decode(s, p), q)
<1> DEFINE Fails(n) == \E u \in Seq(Chars) : Len(u) = n /\ Decode(s, p \o u) # Decode(Decode(s, p), u)
           T == {n \in Nat : Fails(n)}
<1>1. CASE T = {}
  <2>1. Len(q) \in Nat /\ ~Fails(Len(q))
    BY <1>1, LenProperties
  <2> QED BY <2>1
<1>2. CASE T # {}
  <2>1. PICK n \in T : \A k \in T : n <= k
    BY <1>2, LeastOf
  <2>2. PICK u \in Seq(Chars) : Len(u) = n /\ Decode(s, p \o u) # Decode(Decode(s, p), u)
    BY <2>1
  <2>3. CASE u = <<>>
    BY <2>2, <2>3, DecodeNothing, ConcatEmptySeq
  <2>4. CASE u # <<>>
    <3>1. PICK v \in Seq(Chars), e \in Chars : u = Append(v, e)
      BY <2>4, SequenceEmptyOrAppend
    <3>2. Len(v) \in Nat /\ Len(u) = Len(v) + 1
      BY <3>1, AppendProperties, LenProperties
    <3>3. ~Fails(Len(v))
      BY <2>1, <2>2, <3>2
    <3>4. Decode(s, p \o v) = Decode(Decode(s, p), v)
      BY <3>3
    <3>5. p \o v \in Seq(Chars) /\ p \o u = Append(p \o v, e)
      <4>1. <<e>> \in Seq(Chars) /\ p \o v \in Seq(Chars)
        BY ConcatProperties
      <4>2. u = v \o <<e>> /\ Append(p \o v, e) = (p \o v) \o <<e>>
        BY <3>1, <4>1, AppendIsConcat
      <4>3. p \o (v \o <<e>>) = (p \o v) \o <<e>>
        BY <4>1, ConcatAssociative
      <4> QED BY <4>1, <4>2, <4>3
    <3>6. Decode(s, p \o u) = Utf8Step(Decode(s, p \o v), e)
      BY <3>5, DecodeOneMore, ZenonT(30)
    <3>7. Decode(Decode(s, p), u) = Utf8Step(Decode(Decode(s, p), v), e)
      BY <3>1, DecodeOneMore
    <3> QED BY <2>2, <3>4, <3>6, <3>7
  <2> QED BY <2>3, <2>4
<1> QED BY <1>1, <1>2

\* The states of the decoder, and that it never leaves "reject".
LEMMA DecodeStates ==
  ASSUME NEW s \in Utf8States, NEW p \in Seq(Chars)
  PROVE  Decode(s, p) \in Utf8States /\ (s = "reject" => Decode(s, p) = "reject")
<1> DEFINE f == CHOOSE f : Decodes(f, s, p, Len(p))
           Good(x) == x \in Utf8States /\ (s = "reject" => x = "reject")
           T == {k \in 0 .. Len(p) : ~Good(f[k])}
<1>1. Len(p) \in Nat
  BY LenProperties
<1>2. Decodes(f, s, p, Len(p))
  BY <1>1, DecodesExists
<1>3. Decode(s, p) = f[Len(p)]
  BY DecodeIs
<1> HIDE DEF f
<1>4. CASE T = {}
  <2>1. Good(f[Len(p)])
    BY <1>1, <1>4
  <2> QED BY <1>3, <2>1
<1>5. CASE T # {}
  <2>0. T \subseteq Nat
    BY <1>1
  <2> HIDE DEF T
  <2>1. PICK k \in T : \A j \in T : k <= j
    BY <1>5, <2>0, LeastOf
  <2> USE DEF T
  <2>2. k # 0
    BY <1>1, <1>2, <2>1 DEF Decodes
  <2>3. k - 1 \in 0 .. Len(p) /\ Good(f[k - 1])
    BY <1>1, <2>1, <2>2
  <2>4. f[k] = Utf8Step(f[k - 1], p[k])
    BY <1>1, <1>2, <2>1, <2>2 DEF Decodes
  <2>5. Good(f[k])
    BY <2>3, <2>4 DEF Utf8Step, Utf8States
  <2> QED BY <2>1, <2>5
<1> QED BY <1>4, <1>5

\* FrameStream decodes as the receiver does.
LEMMA AbstractDecode ==
  ASSUME NEW s, NEW p
  PROVE  Stream!Utf8From(s, p) = Decode(s, p)
  BY DEF Stream!Utf8From, Decode, Stream!Utf8Step, Utf8Step

------------------------------------------------------------------------------
(* What is left of a frame *)

\* s is what is left of frame f when p of its bytes were taken, and then t.
Left(s, f, p, t) == s = SubSeq(Bytes(f), p + 1, Len(Bytes(f))) \o t

\* What is left, byte by byte.
LEMMA LeftIs ==
  ASSUME NEW f \in FrameRecords, NEW p \in 0 .. Len(Bytes(f)),
         NEW s \in Seq(WireBytes), NEW t \in Seq(WireBytes)
  PROVE  Left(s, f, p, t) <=>
           /\ Len(s) = Len(Bytes(f)) - p + Len(t)
           /\ \A i \in 1 .. Len(s) :
                s[i] = IF i <= Len(Bytes(f)) - p THEN Bytes(f)[p + i] ELSE t[i - (Len(Bytes(f)) - p)]
<1> DEFINE b == Bytes(f)
           r == SubSeq(b, p + 1, Len(b))
<1>1. b \in Seq(WireBytes) /\ Len(b) \in Nat /\ p \in Nat /\ p <= Len(b)
  BY BytesAre, LenProperties
<1> HIDE DEF b
<1>2. \A i \in p + 1 .. Len(b) : b[i] \in WireBytes
  BY <1>1
<1>3. /\ r \in Seq(WireBytes) /\ Len(r) = Len(b) - p
      /\ \A i \in 1 .. Len(b) - p : r[i] = b[p + i]
  <2>1. p + 1 \in Int /\ Len(b) \in Int
    BY <1>1
  <2>2. /\ r \in Seq(WireBytes)
        /\ Len(r) = IF p + 1 <= Len(b) THEN Len(b) - (p + 1) + 1 ELSE 0
        /\ \A i \in 1 .. Len(b) - (p + 1) + 1 : r[i] = b[p + 1 + i - 1]
    BY <1>2, <2>1, SubSeqProperties
  <2> QED BY <1>1, <2>2
<1> HIDE DEF r
<1>4. /\ r \o t \in Seq(WireBytes) /\ Len(r \o t) = Len(r) + Len(t)
      /\ \A i \in 1 .. Len(r) + Len(t) : (r \o t)[i] = IF i <= Len(r) THEN r[i] ELSE t[i - Len(r)]
  BY <1>3, ConcatProperties
<1>5. Len(t) \in Nat /\ Len(s) \in Nat
  BY LenProperties
<1>6. s = r \o t <=> Len(s) = Len(r \o t) /\ \A i \in 1 .. Len(s) : s[i] = (r \o t)[i]
  BY <1>4, SeqEqual
<1>7. Left(s, f, p, t) <=> s = r \o t
  BY DEF Left, r, b
<1>8. Left(s, f, p, t) <=>
        /\ Len(s) = Len(b) - p + Len(t)
        /\ \A i \in 1 .. Len(s) :
             s[i] = IF i <= Len(b) - p THEN b[p + i] ELSE t[i - (Len(b) - p)]
  <2> DEFINE e(i) == IF i <= Len(b) - p THEN b[p + i] ELSE t[i - (Len(b) - p)]
  <2>1. Len(r \o t) = Len(b) - p + Len(t)
    BY <1>1, <1>3, <1>4, <1>5
  <2>2. \A i \in 1 .. Len(r \o t) : (r \o t)[i] = e(i)
    BY <1>1, <1>3, <1>4, <1>5
  <2> HIDE DEF e
  <2>3. Left(s, f, p, t) <=> Len(s) = Len(b) - p + Len(t) /\ \A i \in 1 .. Len(s) : s[i] = e(i)
    BY <1>6, <1>7, <2>1, <2>2
  <2> QED BY <2>3 DEF e
<1> QED BY <1>8 DEF b

\* The first n bytes of the buffer are the frame's next, and n fewer are left.
LEMMA LeftTaken ==
  ASSUME NEW f \in FrameRecords, NEW p \in 0 .. Len(Bytes(f)), NEW t \in Seq(WireBytes),
         NEW r \in Seq(WireBytes), NEW u \in Seq(WireBytes), Left(r \o u, f, p, t),
         NEW n \in 0 .. Len(r), n <= Len(Bytes(f)) - p
  PROVE  /\ \A i \in 1 .. n : r[i] = Bytes(f)[p + i]
         /\ SubSeq(r, n + 1, Len(r)) \in Seq(WireBytes)
         /\ Left(SubSeq(r, n + 1, Len(r)) \o u, f, p + n, t)
<1> DEFINE b == Bytes(f)
           v == SubSeq(r, n + 1, Len(r))
<1>1. /\ Len(b) \in Nat /\ p \in Nat /\ p <= Len(b) /\ Len(r) \in Nat /\ Len(u) \in Nat /\ Len(t) \in Nat
      /\ n \in Nat /\ n <= Len(r) /\ n <= Len(b) - p
  BY BytesAre, LenProperties
<1>2. /\ r \o u \in Seq(WireBytes) /\ Len(r \o u) = Len(r) + Len(u)
      /\ \A i \in 1 .. Len(r) + Len(u) : (r \o u)[i] = IF i <= Len(r) THEN r[i] ELSE u[i - Len(r)]
  BY ConcatProperties
<1>3. /\ Len(r \o u) = Len(b) - p + Len(t)
      /\ \A i \in 1 .. Len(r \o u) :
           (r \o u)[i] = IF i <= Len(b) - p THEN b[p + i] ELSE t[i - (Len(b) - p)]
  BY <1>2, LeftIs
<1>4. v \in Seq(WireBytes) /\ Len(v) = Len(r) - n /\ \A i \in 1 .. Len(r) - n : v[i] = r[n + i]
  <2>1. \A i \in n + 1 .. Len(r) : r[i] \in WireBytes
    BY <1>1
  <2>2. /\ v \in Seq(WireBytes)
        /\ Len(v) = IF n + 1 <= Len(r) THEN Len(r) - (n + 1) + 1 ELSE 0
        /\ \A i \in 1 .. Len(r) - (n + 1) + 1 : v[i] = r[n + 1 + i - 1]
    BY <1>1, <2>1, SubSeqProperties
  <2> QED BY <1>1, <2>2
<1> HIDE DEF v
<1>5. /\ v \o u \in Seq(WireBytes) /\ Len(v \o u) = Len(v) + Len(u)
      /\ \A i \in 1 .. Len(v) + Len(u) : (v \o u)[i] = IF i <= Len(v) THEN v[i] ELSE u[i - Len(v)]
  BY <1>4, ConcatProperties
<1>6. p + n \in 0 .. Len(b)
  BY <1>1
<1> HIDE DEF b
<1>7. Len(v \o u) = Len(b) - (p + n) + Len(t)
  BY <1>1, <1>2, <1>3, <1>4, <1>5
<1>8. ASSUME NEW i \in 1 .. Len(v \o u)
      PROVE  (v \o u)[i] = IF i <= Len(b) - (p + n) THEN b[p + n + i] ELSE t[i - (Len(b) - (p + n))]
  <2>1. (v \o u)[i] = (r \o u)[n + i]
    BY <1>1, <1>2, <1>4, <1>5, SMTT(30)
  <2>2. n + i \in 1 .. Len(r \o u)
    BY <1>1, <1>2, <1>4, <1>5
  <2>3. (r \o u)[n + i] = IF n + i <= Len(b) - p THEN b[p + (n + i)] ELSE t[(n + i) - (Len(b) - p)]
    BY <1>3, <2>2
  <2>4. i \in Int
    OBVIOUS
  <2> QED BY <1>1, <2>1, <2>3, <2>4, SMTT(30)
<1>9. Left(v \o u, f, p + n, t)
  <2>1. p + n \in 0 .. Len(Bytes(f))
    BY <1>6 DEF b
  <2>2. Left(v \o u, f, p + n, t) <=>
          /\ Len(v \o u) = Len(Bytes(f)) - (p + n) + Len(t)
          /\ \A i \in 1 .. Len(v \o u) :
               (v \o u)[i] = IF i <= Len(Bytes(f)) - (p + n) THEN Bytes(f)[p + n + i]
                            ELSE t[i - (Len(Bytes(f)) - (p + n))]
    BY <1>5, <2>1, LeftIs
  <2> QED BY <1>7, <1>8, <2>2 DEF b
<1>10. ASSUME NEW i \in 1 .. n PROVE r[i] = b[p + i]
  <2>1. i \in 1 .. Len(r \o u) /\ i <= Len(r) /\ i <= Len(b) - p
    BY <1>1, <1>2
  <2>2. (r \o u)[i] = r[i]
    BY <1>2, <2>1
  <2>3. (r \o u)[i] = b[p + i]
    BY <1>3, <2>1
  <2> QED BY <2>2, <2>3
<1> QED BY <1>4, <1>9, <1>10 DEF v, b

\* Nothing is left of a frame whose bytes were all taken.
LEMMA LeftNothing ==
  ASSUME NEW f \in FrameRecords, NEW s \in Seq(WireBytes), NEW t \in Seq(WireBytes),
         Left(s, f, Len(Bytes(f)), t)
  PROVE  s = t
<1>1. Len(Bytes(f)) \in Nat /\ Len(Bytes(f)) + 1 \in Int /\ Len(Bytes(f)) < Len(Bytes(f)) + 1
  BY BytesAre, LenProperties
<1>2. SubSeq(Bytes(f), Len(Bytes(f)) + 1, Len(Bytes(f))) = <<>>
  BY <1>1, SubSeqEmpty
<1> QED BY <1>2, ConcatEmptySeq DEF Left

\* Of a frame that was not begun everything is left.
LEMMA LeftWhole ==
  ASSUME NEW f \in FrameRecords, NEW t
  PROVE  Left(Bytes(f) \o t, f, 0, t)
<1>1. SubSeq(Bytes(f), 0 + 1, Len(Bytes(f))) = Bytes(f)
  BY BytesAre, SubSeqFull
<1> QED BY <1>1 DEF Left

\* Bytes that are read or sent stay in their order.
LEMMA Regroup ==
  ASSUME NEW x \in Seq(WireBytes), NEW y \in Seq(WireBytes), NEW z \in Seq(WireBytes)
  PROVE  (x \o y) \o z = x \o (y \o z)
  BY ConcatAssociative

\* What is sent comes behind.
LEMMA LeftSent ==
  ASSUME NEW f \in FrameRecords, NEW p \in 0 .. Len(Bytes(f)), NEW r \in Seq(WireBytes),
         NEW u \in Seq(WireBytes), NEW t \in Seq(WireBytes), NEW g \in Seq(WireBytes),
         Left(r \o u, f, p, t)
  PROVE  Left(r \o (u \o g), f, p, t \o g)
<1>1. SubSeq(Bytes(f), p + 1, Len(Bytes(f))) \in Seq(WireBytes)
  <2>1. Bytes(f) \in Seq(WireBytes) /\ Len(Bytes(f)) \in Int /\ p + 1 \in Int
    BY BytesAre, LenProperties
  <2>2. \A i \in p + 1 .. Len(Bytes(f)) : Bytes(f)[i] \in WireBytes
    BY <2>1
  <2> QED BY <2>1, <2>2, SubSeqProperties
<1>2. PICK l \in Seq(WireBytes) : l = SubSeq(Bytes(f), p + 1, Len(Bytes(f)))
  BY <1>1
<1>3. r \o u = l \o t
  BY <1>2 DEF Left
<1>4. r \o (u \o g) = (r \o u) \o g
  BY Regroup, SMTT(30)
<1>5. (l \o t) \o g = l \o (t \o g)
  BY Regroup
<1> QED BY <1>2, <1>3, <1>4, <1>5 DEF Left

------------------------------------------------------------------------------
(* The inductive invariant *)

\* A text that is sent in fragments ends with a character: finalize_message()
\* does not test that.
FragmentsEnd ==
  \A f \in Frames : f.op = "continuation" /\ f.fin =>
    \A s \in {"accept", "more"} : Decode(s, f.payload) # "more"

Msgs ==
  [op : Opcodes \cup {"none"}, payload : Seq(Chars), key : 0 .. 3, utf8 : Utf8States]
Delivered == [op : Opcodes, payload : Seq(Chars)]

FramingTypes ==
  /\ buf \in Seq(WireBytes) /\ wire \in Seq(WireBytes)
  /\ m_state \in {"HEADER_BASIC", "HEADER_EXTENDED", "APPLICATION", "READY"}
  /\ m_bytes_needed \in Nat
  /\ m_data_msg \in Msgs /\ m_control_msg \in Msgs /\ current \in {"data", "control"}
  /\ got \in Seq(Delivered)

\* The validator has seen the payload of a text, and found no fault with it.
Decoded(m) ==
  /\ m.utf8 = IF m.op = "text" THEN Decode("accept", m.payload) ELSE "accept"
  /\ m.utf8 # "reject"

\* The message whose last frame has not come.
Unfinished(m) == m = NoMsg \/ (m.op \in {"text", "binary"} /\ Decoded(m))

\* What validate_incoming_basic_header() has let through.
Valid(f) ==
  /\ ~f.rsv /\ f.op \notin Reserved /\ f.masked = IsServer
  /\ is_control(f.op) => f.code = "basic" /\ f.fin
InOrder(f) == is_control(f.op) \/ (f.op = "continuation" <=> m_data_msg # NoMsg)

\* The bytes of the extended header that have come are where they belong.
Filled(f, n) == \A i \in 1 .. n : ext[i] = Bytes(f)[2 + i]
HeaderRead(f) ==
  /\ b0 = Byte0(f) /\ b1 = Byte1(f) /\ Valid(f)
  /\ f.code = SizeCode(Len(f.payload)) /\ Filled(f, HeaderLen(Byte1(f)))

\* The first q bytes of a frame's payload are in the message that it is of.
OfControl(f, q) ==
  /\ current = "control" /\ Unfinished(m_data_msg)
  /\ m_control_msg.op = f.op /\ m_control_msg.payload = SubSeq(f.payload, 1, q)
  /\ f.masked => m_control_msg.key = q % 4
OfData(f, q, old) ==
  /\ current = "data" /\ Decoded(m_data_msg) /\ m_data_msg.op \in {"text", "binary"}
  /\ m_data_msg.payload = old \o SubSeq(f.payload, 1, q)
  /\ f.masked => m_data_msg.key = q % 4
  /\ f.op # "continuation" => old = <<>> /\ m_data_msg.op = f.op
  /\ Len(old) + Len(f.payload) <= MaxMessageSize
Holds(f, q) ==
  IF is_control(f.op) THEN OfControl(f, q) ELSE \E old \in Seq(Chars) : OfData(f, q, old)

\* Where consume() stands: between two frames, after one byte of a frame's basic
\* header, in its extended header, in its payload, or after it; t comes behind.
AtBoundary ==
  /\ m_state = "HEADER_BASIC" /\ m_bytes_needed = 2
  /\ buf \o wire \in Streams /\ Unfinished(m_data_msg)
OneByte(f, t) ==
  /\ m_state = "HEADER_BASIC" /\ m_bytes_needed = 1 /\ b0 = Byte0(f)
  /\ Left(buf \o wire, f, 1, t) /\ Unfinished(m_data_msg)
InHeader(f, t) ==
  /\ m_state = "HEADER_EXTENDED" /\ b0 = Byte0(f) /\ b1 = Byte1(f) /\ Valid(f) /\ InOrder(f)
  /\ m_cursor \in 0 .. HeaderLen(Byte1(f)) /\ m_bytes_needed = HeaderLen(Byte1(f)) - m_cursor
  /\ Filled(f, m_cursor)
  /\ Left(buf \o wire, f, 2 + m_cursor, t) /\ Unfinished(m_data_msg)
InPayload(f, t) ==
  /\ m_state = "APPLICATION" /\ HeaderRead(f)
  /\ m_bytes_needed \in 0 .. Len(f.payload) /\ Holds(f, Len(f.payload) - m_bytes_needed)
  /\ Left(buf \o wire, f, Len(Bytes(f)) - m_bytes_needed, t)
AtEnd(f, t) ==
  /\ m_state = "READY" /\ HeaderRead(f) /\ f.fin
  /\ m_bytes_needed = 0 /\ Holds(f, Len(f.payload))
  /\ Left(buf \o wire, f, Len(Bytes(f)), t)

Reading(f, t) == OneByte(f, t) \/ InHeader(f, t) \/ InPayload(f, t) \/ AtEnd(f, t)

FramingInv ==
  /\ FramingTypes
  /\ m_state = "READY" => ec = "none"
  /\ ec = "none" => AtBoundary \/ \E f \in Frames, t \in Streams : Reading(f, t)

------------------------------------------------------------------------------
(* What the receiver makes of a header *)

\* The size code of a frame that fits it: minimal, or what
\* validate_incoming_extended_header() refuses.
LEMMA CodeFits ==
  ASSUME FramingAssumption, FramesFit, NEW f \in Frames
  PROVE  /\ f \in FrameRecords
         /\ f.code # "basic" /\ f.code # SizeCode(Len(f.payload)) =>
              \/ f.code = "16bit" /\ Len(f.payload) <= BasicSize
              \/ f.code = "64bit" /\ Len(f.payload) <= ExtendedSize
         /\ f.code = SizeCode(Len(f.payload)) =>
              /\ f.code = "16bit" => ~(Len(f.payload) <= BasicSize)
              /\ f.code = "64bit" => ~(Len(f.payload) <= ExtendedSize)
         /\ f.code = "basic" => f.code = SizeCode(Len(f.payload)) /\ Len(f.payload) <= BasicSize
<1>1. /\ f \in FrameRecords /\ Len(f.payload) \in Nat /\ f.code \in {"basic", "16bit", "64bit"}
      /\ f.code = "basic" => Len(f.payload) <= BasicSize
      /\ f.code = "16bit" => Len(f.payload) <= ExtendedSize
  BY HeaderLens DEF FramesFit, FrameRecords, Codes
<1>2. BasicSize \in Nat /\ ExtendedSize \in Nat /\ BasicSize < ExtendedSize
  BY DEF FramingAssumption
<1> QED BY <1>1, <1>2 DEF SizeCode

\* A header whose bytes are where they belong says what the peer wrote.
LEMMA HeaderSays ==
  ASSUME NEW f \in FrameRecords, b1 = Byte1(f), Filled(f, HeaderLen(Byte1(f)))
  PROVE  KeyRead /\ PayloadSize = Len(f.payload) /\ b1.kind = "b1" /\ b1.size = Len(f.payload)
<1> DEFINE o == KeyOffset(f.code)
           k == KeyLen(f)
<1>1. /\ b1.code = f.code /\ b1.masked = f.masked /\ b1.size = Len(f.payload) /\ b1.kind = "b1"
      /\ o \in {0, 2, 8} /\ k \in {0, 4} /\ HeaderLen(Byte1(f)) = o + k
      /\ f.code = "basic" <=> o = 0
      /\ f.masked => k = 4
  BY HeaderLens DEF Byte1, KeyLen
<1>2. \A i \in 1 .. o : ext[i] = SizeByte(f, i)
  <2> TAKE i \in 1 .. o
  <2>1. i \in 1 .. o + k
    BY <1>1
  <2> QED BY <1>1, <2>1, BytesAre DEF Filled
<1>3. \A i \in 1 .. k : ext[o + i] = KeyByte(i)
  <2> TAKE i \in 1 .. k
  <2>1. o + i \in 1 .. o + k /\ 2 + (o + i) = 2 + o + i
    BY <1>1
  <2>2. ext[o + i] = Bytes(f)[2 + o + i]
    BY <1>1, <2>1 DEF Filled
  <2>3. \A j \in 1 .. KeyLen(f) : Bytes(f)[2 + KeyOffset(f.code) + j] = KeyByte(j)
    BY BytesAre
  <2> QED BY <2>2, <2>3
<1> HIDE DEF o, k
<1>4. \A i \in 1 .. o : ext[i].kind = "size" /\ ext[i].at = i /\ ext[i].size = Len(f.payload)
  <2> TAKE i \in 1 .. o
  <2>1. ext[i] = SizeByte(f, i)
    BY <1>2
  <2> QED BY <2>1 DEF SizeByte
<1>5. \A i \in 1 .. k : ext[o + i].kind = "key" /\ ext[o + i].at = i
  <2> TAKE i \in 1 .. k
  <2>1. ext[o + i] = KeyByte(i)
    BY <1>3
  <2> QED BY <2>1 DEF KeyByte
<1>6. KeyRead
  <2>1. o = KeyOffset(b1.code)
    BY <1>1 DEF o
  <2>2. CASE f.masked
    <3>1. k = 4
      BY <1>1, <2>2
    <3> QED BY <1>5, <2>1, <3>1 DEF KeyRead
  <2> QED BY <1>1, <2>2 DEF KeyRead
<1>7. PayloadSize = Len(f.payload)
  <2>1. o = KeyOffset(b1.code)
    BY <1>1 DEF o
  <2>2. CASE f.code = "basic"
    BY <1>1, <2>2 DEF PayloadSize
  <2>3. CASE f.code # "basic"
    <3>1. 1 \in 1 .. o
      BY <1>1, <2>3
    <3>2. ext[1].size = Len(f.payload)
      BY <1>4, <3>1
    <3> QED BY <1>1, <1>4, <2>1, <2>3, <3>2 DEF PayloadSize
  <2> QED BY <2>2, <2>3
<1> QED BY <1>1, <1>6, <1>7

------------------------------------------------------------------------------
(* What FrameStream makes of the receiver's state *)

\* Its variables: what was delivered, what is pending, whether the stream ended.
NoPart == [op |-> "none", payload |-> <<>>]
Pend(d) == IF d = NoMsg THEN NoPart ELSE [op |-> d.op, payload |-> d.payload]
Out == IF m_state = "READY" THEN Append(got, [op |-> Current.op, payload |-> Current.payload])
                            ELSE got
Part == IF NoFrameYet THEN NoPart ELSE [op |-> m_data_msg.op, payload |-> Before]
Failed == ec # "none"

\* The frame without the form its size is written in.
Seen(f) ==
  [op |-> f.op, fin |-> f.fin, rsv |-> f.rsv, masked |-> f.masked,
   minimal |-> f.code = SizeCode(Len(f.payload)), payload |-> f.payload]

\* FrameStream's message of a frame, after what is pending.
Whole(p, f) ==
  IF f.op = "continuation" THEN [op |-> p.op, payload |-> p.payload \o f.payload]
                           ELSE [op |-> f.op, payload |-> f.payload]
MayCome(p, f) ==
  /\ f.op \in {"continuation", "text", "binary"} \cup Control
  /\ ~f.rsv /\ f.code = SizeCode(Len(f.payload)) /\ f.masked = IsServer
  /\ f.op \in Control => f.fin /\ Len(f.payload) <= BasicSize
  /\ f.op = "continuation" => p # NoPart
  /\ f.op \in {"text", "binary"} => p = NoPart
  /\ f.op \notin Control => Len(Whole(p, f).payload) <= MaxMessageSize
  /\ Whole(p, f).op = "text" =>
       Decode("accept", Whole(p, f).payload) \in IF f.fin THEN {"accept"} ELSE {"accept", "more"}

\* A frame that may come, and what is done with it, is a step of FrameStream.
LEMMA Accepts ==
  ASSUME NEW f \in Frames, ec = "none", ec' = "none", MayCome(Part, f),
         Out' = IF f.fin THEN Append(Out, Whole(Part, f)) ELSE Out,
         Part' = IF f.op \in Control THEN Part ELSE IF f.fin THEN NoPart ELSE Whole(Part, f)
  PROVE  Stream!Next
<1>1. Whole(Part, Seen(f)) = Whole(Part, f) /\ Stream!MessageOf(Seen(f)) = Whole(Part, f)
  BY DEF Whole, Seen, Stream!MessageOf, Part, NoPart
<1>2. Stream!Legal(Seen(f))
  BY <1>1, AbstractDecode DEF Stream!Legal, MayCome, Seen, Part, NoPart, Control, Stream!Control, Stream!NoMessage
<1>3. Stream!Accept(Seen(f))
  BY <1>1, <1>2 DEF Stream!Accept, Out, Part, NoPart, Seen, Control, Stream!Control, Stream!NoMessage
<1> QED BY <1>3 DEF Stream!Next, Seen

\* So is a frame that may not, and the error.
LEMMA Refuses ==
  ASSUME NEW f \in Frames, ec = "none", ec' # "none", ~MayCome(Part, f), Out' = Out, Part' = Part
  PROVE  Stream!Next
<1>1. Whole(Part, Seen(f)) = Whole(Part, f) /\ Stream!MessageOf(Seen(f)) = Whole(Part, f)
  BY DEF Whole, Seen, Stream!MessageOf, Part, NoPart
<1>2. ~Stream!Legal(Seen(f))
  BY <1>1, AbstractDecode DEF Stream!Legal, MayCome, Seen, Part, NoPart, Control, Stream!Control, Stream!NoMessage
<1>3. Stream!Refuse(Seen(f))
  BY <1>1, <1>2 DEF Stream!Refuse, Out, Part, NoPart, Seen
<1> QED BY <1>3 DEF Stream!Next, Seen

\* Nothing of the frame at hand is in a data message, or it is not of one.
LEMMA PartOutside ==
  /\ m_data_msg \in Msgs
  /\ \/ m_state \in {"HEADER_BASIC", "HEADER_EXTENDED"}
     \/ current = "control"
  => Part = Pend(m_data_msg)
<1> SUFFICES ASSUME m_data_msg \in Msgs,
                    m_state \in {"HEADER_BASIC", "HEADER_EXTENDED"} \/ current = "control"
             PROVE  Part = Pend(m_data_msg)
  OBVIOUS
<1>1. ~(current = "data" /\ m_state \in {"READY", "APPLICATION"})
  OBVIOUS
<1>2. NoFrameYet <=> m_data_msg = NoMsg
  BY <1>1 DEF NoFrameYet
<1>3. Before = SubSeq(m_data_msg.payload, 1, Len(m_data_msg.payload) - 0)
  BY <1>1 DEF Before
<1>4. m_data_msg.payload \in Seq(Chars) /\ Len(m_data_msg.payload) - 0 = Len(m_data_msg.payload)
  BY LenProperties DEF Msgs
<1>5. Before = m_data_msg.payload
  BY <1>3, <1>4, SubSeqFull
<1> QED BY <1>2, <1>5 DEF Part, Pend

\* The same of the state after a step.
LEMMA Outside ==
  ASSUME m_data_msg' \in Msgs,
         m_state' \in {"HEADER_BASIC", "HEADER_EXTENDED"} \/ current' = "control"
  PROVE  Part' = Pend(m_data_msg')
<1>1. (/\ m_data_msg \in Msgs
       /\ \/ m_state \in {"HEADER_BASIC", "HEADER_EXTENDED"}
          \/ current = "control"
       => Part = Pend(m_data_msg))'
  BY PartOutside, PTL
<1>2. (Pend(m_data_msg))' = Pend(m_data_msg')
  BY DEF Pend, NoMsg, NoPart
<1> QED BY <1>1, <1>2

------------------------------------------------------------------------------
(* Each step keeps the invariant, and is one of FrameStream or none *)

\* No step of FrameStream.
Stutters == Out' = Out /\ Part' = Part /\ (ec' # "none") = (ec # "none")

\* The length of a frame.
LEMMA SizeOf ==
  ASSUME NEW f \in FrameRecords
  PROVE  /\ Len(Bytes(f)) = 2 + HeaderLen(Byte1(f)) + Len(f.payload)
         /\ HeaderLen(Byte1(f)) \in 0 .. 12 /\ Len(f.payload) \in Nat
<1>1. /\ KeyOffset(f.code) \in {0, 2, 8} /\ KeyLen(f) \in {0, 4} /\ Len(f.payload) \in Nat
      /\ HeaderLen(Byte1(f)) = KeyOffset(f.code) + KeyLen(f)
  BY HeaderLens
<1>2. Len(Bytes(f)) = HeaderOf(f) + Len(f.payload)
  BY BytesAre
<1> QED BY <1>1, <1>2 DEF HeaderOf

\* The peer sends a frame: it comes behind what is on the way.
LEMMA SendKeeps ==
  ASSUME FramingAssumption, FramesFit, FramingInv, NEW g \in Frames, Send(g)
  PROVE  FramingInv' /\ Stutters
<1>1. /\ wire' = wire \o Bytes(g) /\ Bytes(g) \in Seq(WireBytes)
      /\ UNCHANGED <<buf, m_state, m_bytes_needed, b0, b1, ext, m_cursor, m_data_msg, m_control_msg,
                     current, got, ec>>
  BY BytesAre DEF Send, header, FramesFit
<1>2. buf \in Seq(WireBytes) /\ wire \in Seq(WireBytes) /\ FramingTypes
  BY DEF FramingInv, FramingTypes
<1>3. FramingTypes'
  <2>1. wire \o Bytes(g) \in Seq(WireBytes)
    BY <1>1, <1>2, ConcatProperties
  <2> QED BY <1>1, <1>2, <2>1 DEF FramingTypes
<1>4. ASSUME AtBoundary PROVE AtBoundary'
  <2>1. buf \o (wire \o Bytes(g)) = (buf \o wire) \o Bytes(g)
    BY <1>1, <1>2, Regroup
  <2>2. (buf \o wire) \o Bytes(g) \in Streams
    BY <1>4, StreamGoesOn DEF AtBoundary
  <2> QED BY <1>1, <1>4, <2>1, <2>2 DEF AtBoundary, Unfinished, Decoded
<1>5. ASSUME NEW f \in Frames, NEW t \in Streams, Reading(f, t)
      PROVE  t \o Bytes(g) \in Streams /\ Reading(f, t \o Bytes(g))'
  <2>1. f \in FrameRecords /\ t \in Seq(WireBytes) /\ t \o Bytes(g) \in Streams
    BY StreamsClosed, StreamGoesOn DEF FramesFit
  <2>2. ASSUME NEW p \in 0 .. Len(Bytes(f)), Left(buf \o wire, f, p, t)
        PROVE  Left(buf \o wire', f, p, t \o Bytes(g))
    BY <1>1, <1>2, <2>1, <2>2, LeftSent
  <2>3. Len(Bytes(f)) = 2 + HeaderLen(Byte1(f)) + Len(f.payload) /\ HeaderLen(Byte1(f)) \in Nat
        /\ Len(f.payload) \in Nat
    BY <2>1, SizeOf
  <2>4. CASE OneByte(f, t)
    <3>1. 1 \in 0 .. Len(Bytes(f))
      BY <2>3
    <3>2. Left(buf \o wire', f, 1, t \o Bytes(g))
      BY <2>2, <2>4, <3>1 DEF OneByte
    <3>3. OneByte(f, t \o Bytes(g))'
      BY <1>1, <2>4, <3>2 DEF OneByte, Unfinished, Decoded
    <3> QED BY <2>1, <3>3 DEF Reading
  <2>5. CASE InHeader(f, t)
    <3>1. 2 + m_cursor \in 0 .. Len(Bytes(f))
      BY <2>3, <2>5 DEF InHeader
    <3>2. Left(buf \o wire', f, 2 + m_cursor, t \o Bytes(g))
      BY <2>2, <2>5, <3>1 DEF InHeader
    <3>3. InHeader(f, t \o Bytes(g))'
      BY <1>1, <2>5, <3>2 DEF InHeader, Unfinished, Decoded, InOrder, Filled
    <3> QED BY <2>1, <3>3 DEF Reading
  <2>6. CASE InPayload(f, t)
    <3>1. Len(Bytes(f)) - m_bytes_needed \in 0 .. Len(Bytes(f))
      BY <2>3, <2>6 DEF InPayload
    <3>2. Left(buf \o wire', f, Len(Bytes(f)) - m_bytes_needed, t \o Bytes(g))
      BY <2>2, <2>6, <3>1 DEF InPayload
    <3> QED BY <1>1, <2>1, <2>6, <3>2
            DEF Reading, InPayload, HeaderRead, Filled, Holds, OfControl, OfData, Unfinished, Decoded
  <2>7. CASE AtEnd(f, t)
    <3>1. Left(buf \o wire', f, Len(Bytes(f)), t \o Bytes(g))
      BY <2>2, <2>3, <2>7 DEF AtEnd
    <3> QED BY <1>1, <2>1, <2>7, <3>1
            DEF Reading, AtEnd, HeaderRead, Filled, Holds, OfControl, OfData, Unfinished, Decoded
  <2> QED BY <1>5, <2>4, <2>5, <2>6, <2>7 DEF Reading
<1>6. FramingInv'
  BY <1>1, <1>3, <1>4, <1>5 DEF FramingInv
<1>7. Stutters
  BY <1>1 DEF Stutters, Out, Current, Part, NoFrameYet, Before, PayloadSize
<1> QED BY <1>6, <1>7

\* A read moves bytes, in their order, however many.
LEMMA ReadKeeps ==
  ASSUME FramingAssumption, FramesFit, FramingInv, Read
  PROVE  FramingInv' /\ Stutters
<1>1. PICK n \in 1 .. MaxRead :
        n <= Len(wire) /\ buf' = SubSeq(wire, 1, n) /\ wire' = SubSeq(wire, n + 1, Len(wire))
  BY DEF Read
<1>2. /\ buf = <<>> /\ ec = "none" /\ m_state # "READY"
      /\ UNCHANGED <<m_state, m_bytes_needed, b0, b1, ext, m_cursor, m_data_msg, m_control_msg,
                     current, got, ec>>
  BY DEF Read, header
<1>3. buf \in Seq(WireBytes) /\ wire \in Seq(WireBytes) /\ FramingTypes
  BY DEF FramingInv, FramingTypes
<1>4. buf' \in Seq(WireBytes) /\ wire' \in Seq(WireBytes) /\ buf' \o wire' = wire
  <2>1. n \in Int /\ Len(wire) \in Nat /\ 1 <= n /\ n <= Len(wire) /\ n + 1 \in Int
    BY <1>1, <1>3, LenProperties DEF FramingAssumption
  <2>2. \A i \in 1 .. Len(wire) : wire[i] \in WireBytes
    BY <1>3
  <2>3. \A i \in 1 .. n : wire[i] \in WireBytes
    BY <2>1, <2>2
  <2>4. \A i \in n + 1 .. Len(wire) : wire[i] \in WireBytes
    BY <2>1, <2>2
  <2>5. /\ buf' \in Seq(WireBytes) /\ Len(buf') = n
        /\ \A i \in 1 .. n : buf'[i] = wire[i]
    <3>1. /\ SubSeq(wire, 1, n) \in Seq(WireBytes)
          /\ Len(SubSeq(wire, 1, n)) = IF 1 <= n THEN n - 1 + 1 ELSE 0
          /\ \A i \in 1 .. n - 1 + 1 : SubSeq(wire, 1, n)[i] = wire[1 + i - 1]
      BY <2>1, <2>3, SubSeqProperties
    <3> QED BY <1>1, <2>1, <3>1
  <2>6. /\ wire' \in Seq(WireBytes) /\ Len(wire') = Len(wire) - n
        /\ \A i \in 1 .. Len(wire) - n : wire'[i] = wire[n + i]
    <3>1. /\ SubSeq(wire, n + 1, Len(wire)) \in Seq(WireBytes)
          /\ Len(SubSeq(wire, n + 1, Len(wire))) =
               IF n + 1 <= Len(wire) THEN Len(wire) - (n + 1) + 1 ELSE 0
          /\ \A i \in 1 .. Len(wire) - (n + 1) + 1 :
               SubSeq(wire, n + 1, Len(wire))[i] = wire[n + 1 + i - 1]
      BY <2>1, <2>4, SubSeqProperties
    <3> QED BY <1>1, <2>1, <3>1
  <2>7. /\ buf' \o wire' \in Seq(WireBytes) /\ Len(buf' \o wire') = Len(buf') + Len(wire')
        /\ \A i \in 1 .. Len(buf') + Len(wire') :
             (buf' \o wire')[i] = IF i <= Len(buf') THEN buf'[i] ELSE wire'[i - Len(buf')]
    BY <2>5, <2>6, ConcatProperties
  <2>8. Len(buf' \o wire') = Len(wire)
    BY <2>1, <2>5, <2>6, <2>7
  <2>9. \A i \in 1 .. Len(wire) : (buf' \o wire')[i] = wire[i]
    BY <2>1, <2>5, <2>6, <2>7
  <2> QED BY <1>3, <2>5, <2>6, <2>7, <2>8, <2>9, SeqEqual
<1>5. buf \o wire = wire
  BY <1>2, <1>3, ConcatEmptySeq
<1>6. FramingTypes'
  BY <1>2, <1>3, <1>4 DEF FramingTypes
<1>7. AtBoundary => AtBoundary'
  BY <1>2, <1>4, <1>5 DEF AtBoundary, Unfinished, Decoded
<1>8. ASSUME NEW f \in Frames, NEW t \in Streams, Reading(f, t) PROVE Reading(f, t)'
  BY <1>2, <1>4, <1>5, <1>8
     DEF Reading, OneByte, InHeader, InPayload, AtEnd, HeaderRead, Filled, Holds, OfControl, OfData,
         Unfinished, Decoded, InOrder
<1>9. FramingInv'
  BY <1>2, <1>6, <1>7, <1>8 DEF FramingInv
<1>10. Stutters
  BY <1>2 DEF Stutters, Out, Current, Part, NoFrameYet, Before, PayloadSize
<1> QED BY <1>9, <1>10

\* FrameStream has a message pending when the receiver has.
LEMMA PendingIs ==
  ASSUME NEW d \in Msgs, Unfinished(d)
  PROVE  /\ Pend(d) = NoPart <=> d = NoMsg
         /\ Pend(d).op = d.op /\ Pend(d).payload = d.payload
  BY DEF Pend, NoPart, NoMsg, Unfinished, Msgs

\* What a basic header may say.
LEMMA BasicTold ==
  ASSUME FramingAssumption, FramesFit, NEW f \in Frames, m_data_msg \in Msgs, Unfinished(m_data_msg)
  PROVE  IF BasicError(Byte0(f), Byte1(f), m_data_msg = NoMsg) = "none"
           THEN Valid(f) /\ InOrder(f) ELSE ~MayCome(Pend(m_data_msg), f)
<1> DEFINE e == BasicError(Byte0(f), Byte1(f), m_data_msg = NoMsg)
           new == m_data_msg = NoMsg
<1>1. /\ f.op \in Opcodes /\ f.fin \in BOOLEAN /\ f.rsv \in BOOLEAN /\ f.masked \in BOOLEAN
      /\ f.code \in Codes /\ IsServer \in BOOLEAN
  BY DEF FramesFit, FrameRecords, FramingAssumption
<1>2. /\ Byte0(f).op = f.op /\ Byte0(f).fin = f.fin /\ Byte0(f).rsv = f.rsv
      /\ Byte1(f).masked = f.masked /\ Byte1(f).code = f.code
  BY DEF Byte0, Byte1
<1>3. Pend(m_data_msg) = NoPart <=> new
  BY PendingIs
<1>4. e = IF is_control(f.op) /\ f.code # "basic" THEN "control_too_big"
          ELSE IF f.rsv THEN "invalid_rsv_bit"
          ELSE IF f.op \in Reserved THEN "invalid_opcode"
          ELSE IF is_control(f.op) /\ ~f.fin THEN "fragmented_control"
          ELSE IF new /\ f.op = "continuation" THEN "invalid_continuation"
          ELSE IF ~new /\ ~is_control(f.op) /\ f.op # "continuation" THEN "invalid_continuation"
          ELSE IF IsServer /\ ~f.masked THEN "masking_required"
          ELSE IF ~IsServer /\ f.masked THEN "masking_forbidden" ELSE "none"
  BY <1>2 DEF BasicError
<1> HIDE DEF e
<1>5. CASE e = "none"
  <2>1. Valid(f)
    BY <1>1, <1>4, <1>5 DEF Valid
  <2>2. InOrder(f)
    BY <1>1, <1>4, <1>5 DEF InOrder
  <2> QED BY <1>5, <2>1, <2>2 DEF e
<1>6. CASE e # "none"
  <2> SUFFICES ASSUME MayCome(Pend(m_data_msg), f) PROVE FALSE
    BY <1>6 DEF e
  <2>1. /\ f.op \in {"continuation", "text", "binary"} \cup Control /\ ~f.rsv /\ f.masked = IsServer
        /\ f.op \in Control => f.fin /\ Len(f.payload) <= BasicSize
        /\ f.code = SizeCode(Len(f.payload))
        /\ f.op = "continuation" => ~new
        /\ f.op \in {"text", "binary"} => new
    BY <1>3 DEF MayCome
  <2>2. f.op \notin Reserved /\ (is_control(f.op) <=> f.op \in Control)
    BY <2>1 DEF Reserved, is_control, Control
  <2>3. is_control(f.op) => f.code = "basic"
    BY <2>1, <2>2 DEF SizeCode
  <2> QED BY <1>1, <1>4, <1>6, <2>1, <2>2, <2>3 DEF Control
<1> QED BY <1>5, <1>6

\* The two bytes of a basic header are there.
LEMMA BasicDone ==
  ASSUME FramingAssumption, FramesFit, FramingTypes, ec = "none",
         NEW f \in Frames, NEW t \in Streams, m_state = "HEADER_BASIC",
         Unfinished(m_data_msg), b0' = Byte0(f), b1' = Byte1(f),
         ec' = BasicError(Byte0(f), Byte1(f), m_data_msg = NoMsg),
         ec' # "none" => m_bytes_needed' = 0 /\ m_state' = m_state,
         ec' = "none" => ExpectExtended(Byte1(f)),
         buf' \in Seq(WireBytes), Left(buf' \o wire, f, 2, t),
         UNCHANGED <<wire, ext, m_data_msg, m_control_msg, current, got>>
  PROVE  FramingInv' /\ (Stutters \/ Stream!Next)
<1>1. m_data_msg \in Msgs /\ f \in FrameRecords
  BY DEF FramingTypes, FramesFit
<1>2. Part = Pend(m_data_msg) /\ m_state' \in {"HEADER_BASIC", "HEADER_EXTENDED"}
  BY <1>1, PartOutside DEF ExpectExtended
<1>3. Part' = Part /\ Out' = Out
  <2>1. Part' = Pend(m_data_msg')
    BY <1>1, <1>2, Outside
  <2> QED BY <1>2, <2>1 DEF Out
<1>4. HeaderLen(Byte1(f)) \in Nat
  BY <1>1, SizeOf
<1>5. CASE ec' = "none"
  <2>1. Valid(f) /\ InOrder(f)
    BY <1>1, <1>5, BasicTold
  <2>2. InOrder(f)'
    BY <2>1 DEF InOrder
  <2>3. InHeader(f, t)'
    <3>1. m_state' = "HEADER_EXTENDED" /\ m_cursor' = 0 /\ m_bytes_needed' = HeaderLen(Byte1(f))
      BY <1>5 DEF ExpectExtended
    <3>2. Unfinished(m_data_msg)' /\ Filled(f, 0)'
      BY DEF Unfinished, Decoded, Filled
    <3>3. Left(buf' \o wire', f, 2 + m_cursor', t)
      BY <3>1
    <3>4. m_cursor' \in 0 .. HeaderLen(Byte1(f)) /\ m_bytes_needed' = HeaderLen(Byte1(f)) - m_cursor'
      BY <1>4, <3>1
    <3>5. Filled(f, m_cursor)'
      BY <3>1 DEF Filled
    <3> QED BY <2>1, <2>2, <3>1, <3>2, <3>3, <3>4, <3>5 DEF InHeader
  <2>4. FramingTypes'
    BY <1>4, <1>5 DEF FramingTypes, ExpectExtended
  <2>5. FramingInv'
    BY <1>5, <2>3, <2>4 DEF FramingInv, Reading, ExpectExtended
  <2>6. Stutters
    BY <1>3, <1>5 DEF Stutters
  <2> QED BY <2>5, <2>6
<1>6. CASE ec' # "none"
  <2>1. ~MayCome(Part, f)
    BY <1>1, <1>2, <1>6, BasicTold
  <2>2. Stream!Next
    BY <1>3, <1>6, <2>1, Refuses
  <2>3. FramingTypes'
    BY <1>6 DEF FramingTypes
  <2>4. FramingInv'
    BY <1>6, <2>3 DEF FramingInv
  <2> QED BY <2>2, <2>4
<1> QED BY <1>5, <1>6

\* One byte of a basic header, or two, and their validation.
LEMMA BasicKeeps ==
  ASSUME FramingAssumption, FramesFit, FramingInv, HeaderBasic
  PROVE  FramingInv' /\ (Stutters \/ Stream!Next)
<1> DEFINE n == IF Len(buf) > 1 /\ m_bytes_needed = 2 THEN 2 ELSE 1
           h0 == IF m_bytes_needed = 2 THEN buf[1] ELSE b0
           h1 == IF n = 2 THEN buf[2] ELSE buf[1]
<1>1. /\ m_state = "HEADER_BASIC" /\ buf # <<>> /\ ec = "none"
      /\ UNCHANGED <<sent, wire, ext, m_data_msg, m_control_msg, current, got>>
      /\ buf' = SubSeq(buf, n + 1, Len(buf)) /\ b0' = h0
  BY DEF HeaderBasic
<1>2. m_bytes_needed - n > 0 =>
        m_bytes_needed' = m_bytes_needed - n /\ UNCHANGED <<b1, m_state, m_cursor, ec>>
  BY DEF HeaderBasic
<1>3. ~(m_bytes_needed - n > 0) =>
        /\ b1' = h1 /\ ec' = BasicError(h0, h1, m_data_msg = NoMsg)
        /\ ec' # "none" => m_bytes_needed' = 0 /\ UNCHANGED <<m_state, m_cursor>>
        /\ ec' = "none" => ExpectExtended(h1)
  BY DEF HeaderBasic
<1>4. FramingTypes /\ buf \in Seq(WireBytes) /\ wire \in Seq(WireBytes) /\ m_bytes_needed \in Nat
  BY DEF FramingInv, FramingTypes
<1>5. Len(buf) \in Nat /\ Len(buf) >= 1
  BY <1>1, <1>4, EmptySeq, LenProperties
<1> HIDE DEF h0, h1
<1>6. PICK f \in Frames, t \in Streams :
        /\ Unfinished(m_data_msg)
        /\ \/ m_bytes_needed = 2 /\ Left(buf \o wire, f, 0, t)
           \/ OneByte(f, t)
  <2>1. CASE AtBoundary
    <3>1. buf \o wire # <<>> /\ buf \o wire \in Streams
      <4>1. Len(buf \o wire) = Len(buf) + Len(wire) /\ Len(wire) \in Nat
        BY <1>4, ConcatProperties, LenProperties
      <4>2. Len(buf \o wire) # 0
        BY <1>5, <4>1
      <4> QED BY <2>1, <4>2 DEF AtBoundary
    <3>2. PICK f \in Frames, t \in Streams : buf \o wire = Bytes(f) \o t
      BY <3>1, StreamBegins
    <3>3. Left(buf \o wire, f, 0, t)
      BY <3>2, LeftWhole DEF FramesFit
    <3> QED BY <2>1, <3>3 DEF AtBoundary
  <2>2. CASE \E f \in Frames, t \in Streams : Reading(f, t)
    BY <1>1, <2>2 DEF Reading, OneByte, InHeader, InPayload, AtEnd
  <2> QED BY <1>1, <2>1, <2>2 DEF FramingInv
<1>7. /\ f \in FrameRecords /\ t \in Seq(WireBytes) /\ Bytes(f)[1] = Byte0(f) /\ Bytes(f)[2] = Byte1(f)
      /\ Len(Bytes(f)) \in Nat /\ Len(Bytes(f)) >= 2
  <2>1. f \in FrameRecords /\ t \in Seq(WireBytes)
    BY StreamsClosed DEF FramesFit
  <2>2. HeaderLen(Byte1(f)) \in Nat /\ Len(f.payload) \in Nat
        /\ Len(Bytes(f)) = 2 + HeaderLen(Byte1(f)) + Len(f.payload)
    BY <2>1, SizeOf
  <2> QED BY <2>1, <2>2, BytesAre
<1>8. CASE m_bytes_needed = 2 /\ Left(buf \o wire, f, 0, t)
  <2>1. n \in {1, 2} /\ n \in 0 .. Len(buf) /\ n <= Len(Bytes(f)) - 0 /\ 0 \in 0 .. Len(Bytes(f))
    BY <1>5, <1>7
  <2> HIDE DEF n
  <2>2. /\ \A i \in 1 .. n : buf[i] = Bytes(f)[0 + i]
        /\ buf' \in Seq(WireBytes) /\ Left(buf' \o wire, f, 0 + n, t)
    BY <1>1, <1>4, <1>7, <1>8, <2>1, LeftTaken
  <2>3. b0' = Byte0(f)
    <3>1. buf[1] = Byte0(f)
      BY <1>7, <2>1, <2>2
    <3> QED BY <1>1, <1>8, <3>1 DEF h0
  <2>4. CASE n = 1
    <3>1. m_bytes_needed' = 1 /\ UNCHANGED <<m_state, ec>> /\ 0 + n = 1
      BY <1>2, <1>8, <2>4
    <3>2. OneByte(f, t)'
      <4>1. Left(buf' \o wire', f, 1, t)
        BY <1>1, <2>2, <3>1
      <4>2. Unfinished(m_data_msg)'
        BY <1>1, <1>6 DEF Unfinished, Decoded
      <4> QED BY <1>1, <2>3, <3>1, <4>1, <4>2 DEF OneByte
    <3>3. FramingTypes'
      BY <1>1, <1>4, <2>2, <3>1 DEF FramingTypes
    <3>4. FramingInv'
      BY <1>1, <3>1, <3>2, <3>3 DEF FramingInv, Reading
    <3>5. Stutters
      BY <1>1, <3>1, <2>4 DEF Stutters, Out, Part, NoFrameYet, Before
    <3> QED BY <3>4, <3>5
  <2>5. CASE n = 2
    <3>1. h0 = Byte0(f) /\ h1 = Byte1(f) /\ 0 + n = 2 /\ ~(m_bytes_needed - n > 0)
      BY <1>7, <1>8, <2>2, <2>5 DEF h0, h1
    <3> QED BY <1>1, <1>3, <1>4, <1>6, <2>2, <3>1, BasicDone
  <2> QED BY <2>1, <2>4, <2>5
<1>9. CASE OneByte(f, t)
  <2>1. n = 1 /\ n \in 0 .. Len(buf) /\ n <= Len(Bytes(f)) - 1 /\ 1 \in 0 .. Len(Bytes(f))
        /\ m_bytes_needed = 1 /\ b0 = Byte0(f) /\ Left(buf \o wire, f, 1, t)
    BY <1>5, <1>7, <1>9 DEF OneByte
  <2> HIDE DEF n
  <2>2. /\ \A i \in 1 .. n : buf[i] = Bytes(f)[1 + i]
        /\ buf' \in Seq(WireBytes) /\ Left(buf' \o wire, f, 1 + n, t)
    BY <1>1, <1>4, <1>7, <2>1, LeftTaken
  <2>3. h0 = Byte0(f) /\ h1 = Byte1(f) /\ 1 + n = 2 /\ ~(m_bytes_needed - n > 0)
    <3>1. 1 \in 1 .. n /\ 1 + 1 = 2
      BY <2>1
    <3>2. buf[1] = Byte1(f)
      BY <1>7, <2>2, <3>1
    <3> QED BY <2>1, <3>2 DEF h0, h1
  <2> QED BY <1>1, <1>3, <1>4, <1>6, <2>2, <2>3, BasicDone
<1> QED BY <1>6, <1>8, <1>9

\* Any number of bytes of an extended header: they fill its next places.
LEMMA ExtendedKeeps ==
  ASSUME FramingAssumption, FramesFit, FramingInv, HeaderExtended
  PROVE  FramingInv' /\ Stutters
<1> DEFINE n == IF m_bytes_needed < Len(buf) THEN m_bytes_needed ELSE Len(buf)
<1>1. /\ m_state = "HEADER_EXTENDED" /\ m_bytes_needed > 0 /\ buf # <<>> /\ ec = "none"
      /\ ext' = [i \in 1 .. 12 |->
                   IF i \in m_cursor + 1 .. m_cursor + n THEN buf[i - m_cursor] ELSE ext[i]]
      /\ m_cursor' = m_cursor + n /\ m_bytes_needed' = m_bytes_needed - n
      /\ buf' = SubSeq(buf, n + 1, Len(buf))
      /\ UNCHANGED <<wire, m_state, b0, b1, m_data_msg, m_control_msg, current, got, ec>>
  BY DEF HeaderExtended
<1>2. FramingTypes /\ buf \in Seq(WireBytes) /\ wire \in Seq(WireBytes) /\ m_bytes_needed \in Nat
      /\ Len(buf) \in Nat
  BY LenProperties DEF FramingInv, FramingTypes
<1>3. PICK f \in Frames, t \in Streams : InHeader(f, t)
  <2>1. ~AtBoundary
    BY <1>1 DEF AtBoundary
  <2>2. \E f \in Frames, t \in Streams : Reading(f, t)
    BY <1>1, <2>1 DEF FramingInv
  <2> QED BY <1>1, <2>2 DEF Reading, OneByte, InPayload, AtEnd
<1>4. /\ f \in FrameRecords /\ t \in Seq(WireBytes) /\ HeaderLen(Byte1(f)) \in 0 .. 12
      /\ Len(f.payload) \in Nat /\ Len(Bytes(f)) = 2 + HeaderLen(Byte1(f)) + Len(f.payload)
  BY StreamsClosed, SizeOf DEF FramesFit
<1>5. m_cursor \in Nat /\ m_bytes_needed = HeaderLen(Byte1(f)) - m_cursor
      /\ m_cursor <= HeaderLen(Byte1(f)) /\ Filled(f, m_cursor)
      /\ Left(buf \o wire, f, 2 + m_cursor, t)
  BY <1>3, <1>4 DEF InHeader
<1>6. n \in 0 .. Len(buf) /\ n <= m_bytes_needed /\ n \in Nat
  BY <1>2
<1> HIDE DEF n
<1> DEFINE hl == HeaderLen(Byte1(f))
           all == Len(Bytes(f))
<1>a. /\ hl \in Nat /\ hl <= 12 /\ all \in Nat /\ 2 + hl <= all /\ m_cursor \in Nat
      /\ m_bytes_needed = hl - m_cursor /\ n <= hl - m_cursor /\ n \in Nat
      /\ 2 + m_cursor \in 0 .. all /\ n <= all - (2 + m_cursor)
      /\ m_cursor + n \in 0 .. hl /\ m_cursor + n <= 12
      /\ m_bytes_needed - n = hl - (m_cursor + n)
      /\ 2 + (m_cursor + n) = 2 + m_cursor + n
  <2>1. hl \in Nat /\ hl <= 12 /\ all \in Nat /\ 2 + hl <= all
    <3>1. PICK h \in 0 .. 12 : h = HeaderLen(Byte1(f))
      BY <1>4
    <3>2. PICK z \in Nat : z = Len(f.payload)
      BY <1>4
    <3>3. hl = h /\ all = 2 + h + z
      BY <1>4, <3>1, <3>2
    <3> QED BY <3>3
  <2>2. m_cursor \in Nat /\ m_bytes_needed = hl - m_cursor /\ m_cursor <= hl
    BY <1>5
  <2> HIDE DEF hl, all
  <2>3. n <= hl - m_cursor /\ n \in Nat
    BY <1>6, <2>2
  <2> QED BY <2>1, <2>2, <2>3
<1>7. /\ \A i \in 1 .. n : buf[i] = Bytes(f)[2 + m_cursor + i]
      /\ buf' \in Seq(WireBytes) /\ Left(buf' \o wire, f, 2 + m_cursor + n, t)
  <2>1. 2 + m_cursor \in 0 .. Len(Bytes(f)) /\ n <= Len(Bytes(f)) - (2 + m_cursor)
    BY <1>a
  <2> HIDE DEF hl, all
  <2> DEFINE p == 2 + m_cursor
  <2>2. Left(buf \o wire, f, p, t) /\ n \in 0 .. Len(buf)
        /\ p \in 0 .. Len(Bytes(f)) /\ n <= Len(Bytes(f)) - p
    BY <1>5, <1>6, <2>1
  <2> HIDE DEF p
  <2>3. /\ \A i \in 1 .. n : buf[i] = Bytes(f)[p + i]
        /\ SubSeq(buf, n + 1, Len(buf)) \in Seq(WireBytes)
        /\ Left(SubSeq(buf, n + 1, Len(buf)) \o wire, f, p + n, t)
    BY <1>2, <1>4, <2>2, LeftTaken
  <2> QED BY <1>1, <2>3 DEF p
<1>8. Filled(f, m_cursor)'
  <2> SUFFICES ASSUME NEW i \in 1 .. m_cursor + n PROVE ext'[i] = Bytes(f)[2 + i]
    BY <1>1 DEF Filled
  <2>1. i \in 1 .. 12 /\ i \in Int
    BY <1>a
  <2>2. CASE i <= m_cursor
    <3>1. ext'[i] = ext[i] /\ i \in 1 .. m_cursor
      BY <1>1, <1>5, <2>1, <2>2
    <3> QED BY <1>5, <3>1 DEF Filled
  <2>3. CASE ~(i <= m_cursor)
    <3>1. i \in m_cursor + 1 .. m_cursor + n /\ i - m_cursor \in 1 .. n
      BY <1>5, <1>6, <2>1, <2>3
    <3>2. ext'[i] = buf[i - m_cursor]
      BY <1>1, <2>1, <3>1
    <3>3. 2 + m_cursor + (i - m_cursor) = 2 + i
      BY <1>5, <2>1
    <3> QED BY <1>7, <3>1, <3>2, <3>3
  <2> QED BY <2>2, <2>3
<1>9. InHeader(f, t)'
  <2>1. 2 + m_cursor' = 2 + m_cursor + n /\ m_cursor' \in 0 .. HeaderLen(Byte1(f))
        /\ m_bytes_needed' = HeaderLen(Byte1(f)) - m_cursor'
    BY <1>1, <1>a
  <2>2. Unfinished(m_data_msg)' /\ InOrder(f)'
    BY <1>1, <1>3 DEF InHeader, Unfinished, Decoded, InOrder
  <2>3. Left(buf' \o wire', f, 2 + m_cursor', t)
    BY <1>1, <1>7, <2>1
  <2> QED BY <1>1, <1>3, <1>8, <2>1, <2>2, <2>3 DEF InHeader
<1>10. FramingTypes'
  <2>1. m_bytes_needed' \in Nat
    BY <1>1, <1>2, <1>6
  <2> QED BY <1>1, <1>2, <1>7, <2>1 DEF FramingTypes
<1>11. FramingInv'
  BY <1>1, <1>9, <1>10 DEF FramingInv, Reading
<1>12. Stutters
  BY <1>1 DEF Stutters, Out, Part, NoFrameYet, Before
<1> QED BY <1>11, <1>12

\* The front of a sequence that something was put behind.
LEMMA FrontOf ==
  ASSUME NEW S, NEW p \in Seq(S), NEW q \in 0 .. Len(p)
  PROVE  /\ SubSeq(p, 1, q) \in Seq(S) /\ Len(SubSeq(p, 1, q)) = q
         /\ \A i \in 1 .. q : SubSeq(p, 1, q)[i] = p[i]
<1>1. Len(p) \in Nat /\ q \in Int /\ 0 <= q /\ q <= Len(p)
  BY LenProperties
<1>2. \A i \in 1 .. q : p[i] \in S
  BY <1>1
<1>3. /\ SubSeq(p, 1, q) \in Seq(S)
      /\ Len(SubSeq(p, 1, q)) = IF 1 <= q THEN q - 1 + 1 ELSE 0
      /\ \A i \in 1 .. q - 1 + 1 : SubSeq(p, 1, q)[i] = p[1 + i - 1]
  BY <1>1, <1>2, SubSeqProperties
<1> QED BY <1>1, <1>3

\* What is put behind is taken off again.
LEMMA FrontBack ==
  ASSUME NEW S, NEW x \in Seq(S), NEW y \in Seq(S)
  PROVE  SubSeq(x \o y, 1, Len(x \o y) - Len(y)) = x
<1>1. /\ x \o y \in Seq(S) /\ Len(x \o y) = Len(x) + Len(y)
      /\ \A i \in 1 .. Len(x) + Len(y) : (x \o y)[i] = IF i <= Len(x) THEN x[i] ELSE y[i - Len(x)]
  BY ConcatProperties
<1>2. Len(x) \in Nat /\ Len(y) \in Nat
  BY LenProperties
<1>3. Len(x \o y) - Len(y) = Len(x) /\ Len(x) \in 0 .. Len(x \o y)
  BY <1>1, <1>2
<1>4. /\ SubSeq(x \o y, 1, Len(x)) \in Seq(S) /\ Len(SubSeq(x \o y, 1, Len(x))) = Len(x)
      /\ \A i \in 1 .. Len(x) : SubSeq(x \o y, 1, Len(x))[i] = (x \o y)[i]
  BY <1>1, <1>3, FrontOf
<1>5. \A i \in 1 .. Len(x) : SubSeq(x \o y, 1, Len(x))[i] = x[i]
  BY <1>1, <1>2, <1>4
<1>6. SubSeq(x \o y, 1, Len(x)) = x
  BY <1>4, <1>5, SeqEqual
<1> QED BY <1>3, <1>6

\* A frame of a data message: what was there before it is in front.
DataSoFar(f, old, q) ==
  /\ m_data_msg \in Msgs /\ m_data_msg.op # "none" /\ current = "data"
  /\ m_state = "APPLICATION" /\ b0 = Byte0(f) /\ PayloadSize = Len(f.payload)
  /\ m_data_msg.payload = old \o SubSeq(f.payload, 1, q)
  /\ q = Len(f.payload) - m_bytes_needed
           + IF ec = "invalid_utf8" /\ m_bytes_needed > 0
               THEN IF m_bytes_needed < Len(buf) THEN m_bytes_needed ELSE Len(buf) ELSE 0

DataLeavesPart ==
  \A f \in FrameRecords, old \in Seq(Chars) :
    \A q \in 0 .. Len(f.payload) :
      DataSoFar(f, old, q) =>
        Part = IF f.op = "continuation" THEN [op |-> m_data_msg.op, payload |-> old] ELSE NoPart

\* It is what is pending, however much of the frame has come.
LEMMA PartOfData == DataLeavesPart
<1> SUFFICES ASSUME NEW f \in FrameRecords, NEW old \in Seq(Chars),
                    NEW q \in 0 .. Len(f.payload), DataSoFar(f, old, q)
             PROVE  Part = IF f.op = "continuation" THEN [op |-> m_data_msg.op, payload |-> old]
                                                    ELSE NoPart
  BY DEF DataLeavesPart
<1>1. NoFrameYet <=> f.op # "continuation"
  BY DEF NoFrameYet, NoMsg, Byte0, DataSoFar
<1>2. Before = SubSeq(m_data_msg.payload, 1, Len(m_data_msg.payload) - q)
  BY DEF Before, DataSoFar
<1>3. f.payload \in Seq(Chars) /\ Len(f.payload) \in Nat /\ q \in Nat
  BY HeaderLens
<1>4. SubSeq(f.payload, 1, q) \in Seq(Chars) /\ Len(SubSeq(f.payload, 1, q)) = q
  BY <1>3, FrontOf
<1>5. Before = old
  <2>1. SubSeq(old \o SubSeq(f.payload, 1, q), 1, Len(old \o SubSeq(f.payload, 1, q)) - q) = old
    BY <1>3, <1>4, FrontBack
  <2> QED BY <1>2, <2>1 DEF DataSoFar
<1> QED BY <1>1, <1>5 DEF Part

\* The same of the state after a step.
LEMMA OfDataAfter ==
  ASSUME NEW f \in FrameRecords, NEW old \in Seq(Chars), NEW q \in 0 .. Len(f.payload),
         DataSoFar(f, old, q)'
  PROVE  Part' = IF f.op = "continuation" THEN [op |-> m_data_msg'.op, payload |-> old] ELSE NoPart
<1>1. DataLeavesPart'
  BY PartOfData, PTL
<1>2. DataSoFar(f, old, q)' =>
        (Part = IF f.op = "continuation" THEN [op |-> m_data_msg.op, payload |-> old] ELSE NoPart)'
  BY <1>1 DEF DataLeavesPart
<1>3. (Part = IF f.op = "continuation" THEN [op |-> m_data_msg.op, payload |-> old] ELSE NoPart)'
  BY <1>2, Zenon
<1> QED BY <1>3 DEF NoPart

\* A frame that would make its message too long is set up, but not begun.
LEMMA PartTooBig ==
  /\ m_data_msg \in Msgs /\ m_state = "APPLICATION" /\ current \in {"data", "control"}
  /\ m_bytes_needed = PayloadSize /\ PayloadSize \in Nat /\ ec # "invalid_utf8"
  /\ b0.op # "continuation" => m_data_msg = NoMsg
  => Part = Pend(m_data_msg)
<1> SUFFICES ASSUME m_data_msg \in Msgs, m_state = "APPLICATION", current \in {"data", "control"},
                    m_bytes_needed = PayloadSize, PayloadSize \in Nat, ec # "invalid_utf8",
                    b0.op # "continuation" => m_data_msg = NoMsg
             PROVE  Part = Pend(m_data_msg)
  OBVIOUS
<1>1. CASE current = "control"
  BY <1>1, PartOutside
<1>2. CASE current = "data"
  <2>1. NoFrameYet <=> m_data_msg = NoMsg
    BY <1>2 DEF NoFrameYet
  <2>2. Before = SubSeq(m_data_msg.payload, 1, Len(m_data_msg.payload) - 0)
    <3> DEFINE z == PayloadSize - m_bytes_needed + 0
    <3>1. z = 0
      OBVIOUS
    <3>2. Before = SubSeq(m_data_msg.payload, 1, Len(m_data_msg.payload) - z)
      BY <1>2 DEF Before
    <3> HIDE DEF z
    <3> QED BY <3>1, <3>2
  <2>3. m_data_msg.payload \in Seq(Chars) /\ Len(m_data_msg.payload) - 0 = Len(m_data_msg.payload)
    BY LenProperties DEF Msgs
  <2>4. Before = m_data_msg.payload
    BY <2>2, <2>3, SubSeqFull
  <2> QED BY <2>1, <2>4 DEF Part, Pend
<1> QED BY <1>1, <1>2

\* Of the state after the error, too.
LEMMA TooBigAfter ==
  ASSUME m_data_msg' \in Msgs, m_state' = "APPLICATION", current' \in {"data", "control"},
         m_bytes_needed' = PayloadSize', PayloadSize' \in Nat, ec' # "invalid_utf8",
         b0'.op # "continuation" => m_data_msg' = NoMsg
  PROVE  Part' = Pend(m_data_msg')
<1>1. (/\ m_data_msg \in Msgs /\ m_state = "APPLICATION" /\ current \in {"data", "control"}
       /\ m_bytes_needed = PayloadSize /\ PayloadSize \in Nat /\ ec # "invalid_utf8"
       /\ b0.op # "continuation" => m_data_msg = NoMsg
       => Part = Pend(m_data_msg))'
  BY PartTooBig, PTL
<1>2. (Pend(m_data_msg))' = Pend(m_data_msg')
  BY DEF Pend, NoMsg, NoPart
<1> QED BY <1>1, <1>2 DEF NoMsg

\* The header is complete: a message is begun or continued, or the size refused.
LEMMA SetUpKeeps ==
  ASSUME FramingAssumption, FramesFit, FramingInv, SetUpMessage
  PROVE  FramingInv' /\ (Stutters \/ Stream!Next)
<1> DEFINE n == PayloadSize
           key == IF KeyRead THEN 0 ELSE 2
           tooBig == Len(m_data_msg.payload) + n > MaxMessageSize
<1>1. /\ m_state = "HEADER_EXTENDED" /\ m_bytes_needed = 0 /\ ec = "none"
      /\ UNCHANGED <<sent, wire, buf, b0, b1, ext, m_cursor, got>>
  BY DEF SetUpMessage, header
<1>2. ExtendedError # "none" =>
        ec' = ExtendedError /\ UNCHANGED <<m_state, m_bytes_needed, m_data_msg, m_control_msg, current>>
  BY DEF SetUpMessage
<1>3. ExtendedError = "none" =>
        /\ m_state' = "APPLICATION" /\ m_bytes_needed' = n
        /\ is_control(b0.op) =>
             /\ m_control_msg' = [NoMsg EXCEPT !.op = b0.op, !.key = key]
             /\ current' = "control" /\ UNCHANGED <<m_data_msg, ec>>
        /\ ~is_control(b0.op) /\ tooBig =>
             ec' = "message_too_big" /\ UNCHANGED <<m_data_msg, m_control_msg, current>>
        /\ ~is_control(b0.op) /\ ~tooBig =>
             m_data_msg' = DataMessage(key) /\ current' = "data" /\ UNCHANGED <<m_control_msg, ec>>
  BY DEF SetUpMessage
<1>4. FramingTypes /\ buf \in Seq(WireBytes) /\ wire \in Seq(WireBytes) /\ m_data_msg \in Msgs
      /\ current \in {"data", "control"} /\ m_control_msg \in Msgs
  BY DEF FramingInv, FramingTypes
<1>5. PICK f \in Frames, t \in Streams : InHeader(f, t)
  <2>1. ~AtBoundary
    BY <1>1 DEF AtBoundary
  <2>2. \E f \in Frames, t \in Streams : Reading(f, t)
    BY <1>1, <2>1 DEF FramingInv
  <2> QED BY <1>1, <2>2 DEF Reading, OneByte, InPayload, AtEnd
<1>6. /\ f \in FrameRecords /\ t \in Seq(WireBytes) /\ HeaderLen(Byte1(f)) \in Nat
      /\ Len(f.payload) \in Nat /\ Len(Bytes(f)) = 2 + HeaderLen(Byte1(f)) + Len(f.payload)
      /\ f.payload \in Seq(Chars) /\ f.op \in Opcodes
  <2>1. f \in FrameRecords /\ t \in Seq(WireBytes)
    BY StreamsClosed DEF FramesFit
  <2> QED BY <2>1, SizeOf, HeaderLens DEF FrameRecords
<1>7. /\ b0 = Byte0(f) /\ b1 = Byte1(f) /\ Valid(f) /\ InOrder(f) /\ Unfinished(m_data_msg)
      /\ m_cursor = HeaderLen(Byte1(f)) /\ Filled(f, HeaderLen(Byte1(f)))
      /\ Left(buf \o wire, f, 2 + HeaderLen(Byte1(f)), t)
  <2>1. /\ b0 = Byte0(f) /\ b1 = Byte1(f) /\ Valid(f) /\ InOrder(f) /\ Unfinished(m_data_msg)
        /\ m_cursor \in 0 .. HeaderLen(Byte1(f)) /\ m_bytes_needed = HeaderLen(Byte1(f)) - m_cursor
        /\ Filled(f, m_cursor) /\ Left(buf \o wire, f, 2 + m_cursor, t)
    BY <1>5 DEF InHeader
  <2>2. m_cursor = HeaderLen(Byte1(f))
    BY <1>1, <1>6, <2>1
  <2> QED BY <2>1, <2>2
<1>8. KeyRead /\ n = Len(f.payload)
  BY <1>6, <1>7, HeaderSays
<1>9. /\ b0.op = f.op /\ b0.fin = f.fin /\ b1.code = f.code /\ b1.masked = f.masked
      /\ Byte0(f).op = f.op
  BY <1>7 DEF Byte0, Byte1
<1>10. Part = Pend(m_data_msg)
  BY <1>1, <1>4, PartOutside
<1>11. PayloadSize' = n
  BY <1>1 DEF PayloadSize
<1>12. (m_state' # "READY") => Out' = Out
  BY <1>1 DEF Out
<1>13. (ExtendedError = "none") <=> (f.code = SizeCode(Len(f.payload)))
  BY <1>8, <1>9, CodeFits DEF ExtendedError
<1>a. tooBig <=> ~(Len(m_data_msg.payload) + Len(f.payload) <= MaxMessageSize)
  <2>1. Len(m_data_msg.payload) \in Nat /\ MaxMessageSize \in Nat
    BY <1>4, LenProperties DEF Msgs, FramingAssumption
  <2>2. tooBig <=> Len(m_data_msg.payload) + Len(f.payload) > MaxMessageSize
    BY <1>8
  <2>3. Len(m_data_msg.payload) + Len(f.payload) > MaxMessageSize
          <=> ~(Len(m_data_msg.payload) + Len(f.payload) <= MaxMessageSize)
    <3>1. PICK a \in Nat, b \in Nat, m \in Nat :
            a = Len(m_data_msg.payload) /\ b = Len(f.payload) /\ m = MaxMessageSize
      BY <1>6, <2>1
    <3>2. a + b > m <=> ~(a + b <= m)
      OBVIOUS
    <3> QED BY <3>1, <3>2, Zenon
  <2> QED BY <2>2, <2>3, Zenon
<1> HIDE DEF n, key, tooBig
<1>14. CASE ExtendedError # "none"
  <2>1. ec' # "none" /\ Part' = Part
    BY <1>1, <1>2, <1>4, <1>10, <1>14, Outside
  <2>2. ~MayCome(Part, f)
    BY <1>13, <1>14 DEF MayCome
  <2>3. Stream!Next
    BY <1>1, <1>2, <1>12, <1>14, <2>1, <2>2, Refuses
  <2>4. FramingTypes'
    BY <1>1, <1>2, <1>4, <1>14 DEF FramingTypes
  <2>5. FramingInv'
    BY <1>1, <1>2, <1>14, <2>1, <2>4 DEF FramingInv
  <2> QED BY <2>3, <2>5
<1>15. ASSUME ExtendedError = "none", ec' = "none", Holds(f, 0)'
       PROVE  \E g \in Frames, s \in Streams : Reading(g, s)'
  <2>1. m_state' = "APPLICATION" /\ m_bytes_needed' = Len(f.payload)
    BY <1>3, <1>8, <1>15
  <2>2. HeaderRead(f)'
    BY <1>1, <1>7, <1>13, <1>15 DEF HeaderRead, Filled
  <2>3. /\ Len(Bytes(f)) - m_bytes_needed' = 2 + HeaderLen(Byte1(f))
        /\ Len(f.payload) - m_bytes_needed' = 0 /\ m_bytes_needed' \in 0 .. Len(f.payload)
    BY <1>6, <2>1
  <2>4. Left(buf' \o wire', f, Len(Bytes(f)) - m_bytes_needed', t)
    BY <1>1, <1>7, <2>3
  <2>5. Holds(f, Len(f.payload) - m_bytes_needed)'
    BY <1>15, <2>3 DEF Holds, OfControl, OfData, Unfinished, Decoded
  <2>6. InPayload(f, t)'
    BY <2>1, <2>2, <2>3, <2>4, <2>5 DEF InPayload
  <2> QED BY <2>6 DEF Reading
<1>16. SubSeq(f.payload, 1, 0) = <<>>
  BY SubSeqEmpty
<1>17. NoMsg.payload = <<>> /\ NoMsg.utf8 = "accept" /\ NoMsg.op = "none" /\ NoMsg.key = 0
  BY DEF NoMsg
<1>18. CASE ExtendedError = "none" /\ is_control(f.op)
  <2>1. /\ m_state' = "APPLICATION" /\ m_bytes_needed' = n /\ current' = "control"
        /\ m_control_msg' = [NoMsg EXCEPT !.op = f.op, !.key = key] /\ key = 0
        /\ UNCHANGED <<m_data_msg, ec>>
    BY <1>3, <1>8, <1>9, <1>18 DEF key
  <2>2. /\ m_control_msg'.op = f.op /\ m_control_msg'.payload = <<>> /\ m_control_msg'.key = 0
        /\ m_control_msg' \in Msgs
    <3>1. m_control_msg' = [op |-> f.op, payload |-> <<>>, key |-> 0, utf8 |-> "accept"]
      BY <2>1 DEF NoMsg
    <3>2. f.op \in Opcodes \cup {"none"} /\ <<>> \in Seq(Chars) /\ 0 \in 0 .. 3
          /\ "accept" \in Utf8States
      BY <1>6 DEF Utf8States
    <3> QED BY <3>1, <3>2 DEF Msgs
  <2>3. OfControl(f, 0)'
    <3>1. m_control_msg'.payload = SubSeq(f.payload, 1, 0) /\ m_control_msg'.key = 0 % 4
      BY <1>16, <2>2
    <3>2. Unfinished(m_data_msg)'
      BY <1>7, <2>1 DEF Unfinished, Decoded
    <3> QED BY <2>1, <2>2, <3>1, <3>2 DEF OfControl
  <2>4. Holds(f, 0)'
    BY <1>18, <2>3 DEF Holds
  <2>5. FramingTypes'
    BY <1>1, <1>4, <1>6, <1>8, <2>1, <2>2 DEF FramingTypes
  <2>6. FramingInv'
    BY <1>1, <1>15, <1>18, <2>1, <2>4, <2>5 DEF FramingInv
  <2>7. Part' = Part
    BY <1>4, <1>10, <2>1, Outside
  <2>8. Stutters
    BY <1>12, <2>1, <2>7 DEF Stutters
  <2> QED BY <2>6, <2>8
<1>19. CASE ExtendedError = "none" /\ ~is_control(f.op) /\ tooBig
  <2>1. /\ m_state' = "APPLICATION" /\ m_bytes_needed' = n /\ ec' = "message_too_big"
        /\ UNCHANGED <<m_data_msg, m_control_msg, current>>
    BY <1>3, <1>9, <1>19
  <2>2. f.op # "continuation" => m_data_msg = NoMsg
    BY <1>7, <1>19 DEF InOrder
  <2>3. Part' = Part
    <3>1. /\ m_data_msg' \in Msgs /\ current' \in {"data", "control"} /\ m_bytes_needed' = PayloadSize'
          /\ PayloadSize' \in Nat /\ ec' # "invalid_utf8" /\ b0' = b0
      BY <1>1, <1>4, <1>6, <1>8, <1>11, <2>1
    <3>2. b0'.op # "continuation" => m_data_msg' = NoMsg
      BY <1>9, <2>1, <2>2, <3>1
    <3> QED BY <1>10, <2>1, <3>1, <3>2, TooBigAfter
  <2>4. ~MayCome(Part, f)
    <3>1. f.op \notin Control
      BY <1>19 DEF is_control
    <3>2. Len(Whole(Pend(m_data_msg), f).payload) = Len(m_data_msg.payload) + n
      <4>1. m_data_msg.payload \in Seq(Chars) /\ Pend(m_data_msg).payload = m_data_msg.payload
        BY <1>4, <1>7, PendingIs DEF Msgs
      <4>2. CASE f.op = "continuation"
        <5>1. Whole(Pend(m_data_msg), f).payload = m_data_msg.payload \o f.payload
          BY <4>1, <4>2 DEF Whole
        <5>2. Len(m_data_msg.payload \o f.payload) = Len(m_data_msg.payload) + Len(f.payload)
          BY <1>6, <4>1, ConcatProperties
        <5> QED BY <1>8, <5>1, <5>2
      <4>3. CASE f.op # "continuation"
        <5>1. Whole(Pend(m_data_msg), f).payload = f.payload /\ Len(m_data_msg.payload) = 0
          BY <1>17, <2>2, <4>3 DEF Whole
        <5> QED BY <1>6, <1>8, <5>1
      <4> QED BY <4>2, <4>3
    <3>4. ~(Len(m_data_msg.payload) + n <= MaxMessageSize)
      BY <1>8, <1>19, <1>a
    <3> QED BY <1>10, <3>1, <3>2, <3>4 DEF MayCome
  <2>5. Stream!Next
    BY <1>1, <1>12, <2>1, <2>3, <2>4, Refuses
  <2>6. FramingTypes'
    BY <1>1, <1>4, <1>6, <1>8, <2>1 DEF FramingTypes
  <2>7. FramingInv'
    BY <2>1, <2>6 DEF FramingInv
  <2> QED BY <2>5, <2>7
<1>20. CASE ExtendedError = "none" /\ ~is_control(f.op) /\ ~tooBig
  <2>1. /\ m_state' = "APPLICATION" /\ m_bytes_needed' = n /\ current' = "data"
        /\ m_data_msg' = DataMessage(0) /\ UNCHANGED <<m_control_msg, ec>>
    BY <1>3, <1>8, <1>9, <1>20 DEF key
  <2>2. f.op = "continuation" <=> m_data_msg # NoMsg
    BY <1>7, <1>20 DEF InOrder
  <2>3. f.op \in {"continuation", "text", "binary"}
    BY <1>6, <1>7, <1>20 DEF Opcodes, Valid, is_control, Control, Reserved
  <2>4. /\ m_data_msg'.op = IF m_data_msg = NoMsg THEN f.op ELSE m_data_msg.op
        /\ m_data_msg'.payload = m_data_msg.payload /\ m_data_msg'.key = 0
        /\ m_data_msg'.utf8 = m_data_msg.utf8 /\ m_data_msg' \in Msgs
    <3>1. CASE m_data_msg = NoMsg
      <4>1. m_data_msg' = [op |-> f.op, payload |-> <<>>, key |-> 0, utf8 |-> "accept"]
        BY <1>9, <2>1, <3>1 DEF DataMessage, NoMsg
      <4>2. f.op \in Opcodes \cup {"none"} /\ <<>> \in Seq(Chars) /\ 0 \in 0 .. 3
            /\ "accept" \in Utf8States
        BY <1>6 DEF Utf8States
      <4>3. m_data_msg' \in Msgs
        BY <4>1, <4>2 DEF Msgs
      <4> QED BY <1>17, <3>1, <4>1, <4>3
    <3>2. CASE m_data_msg # NoMsg
      <4>1. m_data_msg' = [m_data_msg EXCEPT !.key = 0]
        BY <2>1, <3>2 DEF DataMessage
      <4>2. 0 \in 0 .. 3
        OBVIOUS
      <4> QED BY <1>4, <3>2, <4>1, <4>2 DEF Msgs
    <3> QED BY <3>1, <3>2
  <2>5. m_data_msg.payload \in Seq(Chars) /\ Len(m_data_msg.payload) \in Nat
    BY <1>4, LenProperties DEF Msgs
  <2>6. m_data_msg'.op \in {"text", "binary"} /\ Decoded(m_data_msg')
    <3>1. CASE m_data_msg = NoMsg
      <4>1. m_data_msg'.op = f.op /\ f.op \in {"text", "binary"} /\ m_data_msg'.payload = <<>>
            /\ m_data_msg'.utf8 = "accept"
        BY <1>17, <2>2, <2>3, <2>4, <3>1
      <4> QED BY <4>1, DecodeNothing DEF Decoded
    <3>2. CASE m_data_msg # NoMsg
      BY <1>7, <2>4, <3>2 DEF Unfinished, Decoded
    <3> QED BY <3>1, <3>2
  <2>7. OfData(f, 0, m_data_msg.payload)'
    <3>1. m_data_msg.payload \o <<>> = m_data_msg.payload
      BY <2>5, ConcatEmptySeq
    <3>2. f.op # "continuation" => m_data_msg.payload = <<>> /\ m_data_msg'.op = f.op
      BY <1>17, <2>2, <2>4
    <3>3. Len(m_data_msg.payload) + Len(f.payload) <= MaxMessageSize
      BY <1>20, <1>a
    <3>4. m_data_msg'.payload = m_data_msg.payload \o SubSeq(f.payload, 1, 0)
      BY <1>16, <2>4, <3>1
    <3>5. m_data_msg'.key = 0 % 4
      BY <2>4
    <3>6. PICK old \in Seq(Chars) : old = m_data_msg.payload
      BY <2>5
    <3>7. OfData(f, 0, old)'
      BY <2>1, <2>6, <3>2, <3>3, <3>4, <3>5, <3>6 DEF OfData, Decoded
    <3> QED BY <2>4, <3>6, <3>7 DEF OfData
  <2>8. Holds(f, 0)'
    BY <1>20, <2>4, <2>5, <2>7 DEF Holds
  <2>9. FramingTypes'
    BY <1>1, <1>4, <1>6, <1>8, <2>1, <2>4 DEF FramingTypes
  <2>10. FramingInv'
    BY <1>1, <1>15, <1>20, <2>1, <2>8, <2>9 DEF FramingInv
  <2>11. Part' = Part
    <3>1. PICK old \in Seq(Chars) : old = m_data_msg.payload
      BY <2>5
    <3>2. DataSoFar(f, old, 0)'
      <4>1. m_data_msg'.payload = old \o SubSeq(f.payload, 1, 0)
        BY <1>16, <2>4, <2>5, <3>1, ConcatEmptySeq
      <4>2. m_data_msg'.op # "none"
        BY <2>6
      <4>3. 0 = Len(f.payload) - m_bytes_needed' /\ ec' = "none" /\ b0' = Byte0(f)
        BY <1>1, <1>6, <1>7, <1>8, <2>1
      <4>4. PayloadSize' = Len(f.payload)
        BY <1>8, <1>11
      <4> QED BY <2>1, <2>4, <4>1, <4>2, <4>3, <4>4 DEF DataSoFar
    <3>3. 0 \in 0 .. Len(f.payload)
      BY <1>6
    <3>4. Part' = IF f.op = "continuation" THEN [op |-> m_data_msg'.op, payload |-> old] ELSE NoPart
      BY <1>6, <3>2, <3>3, OfDataAfter
    <3> QED BY <1>10, <2>2, <2>4, <3>1, <3>4 DEF Pend
  <2>12. Stutters
    BY <1>12, <2>1, <2>11 DEF Stutters
  <2> QED BY <2>10, <2>12
<1> QED BY <1>14, <1>18, <1>19, <1>20

\* A key that is rotated as the bytes are unmasked stays in step with the position.
LEMMA KeyTurns ==
  ASSUME NEW q \in Nat, NEW n \in Nat
  PROVE  /\ ((q % 4) + n) % 4 = (q + n) % 4
         /\ q % 4 \in 0 .. 3
  OBVIOUS

\* Each byte of a piece meets the key byte it was masked with.
LEMMA KeyTurnsBefore ==
  ASSUME NEW q \in Nat, NEW i \in Nat, i >= 1
  PROVE  ((q % 4) + i - 1) % 4 = (q + i - 1) % 4
<1>1. i - 1 \in Nat /\ q % 4 \in Nat /\ (q % 4) + i - 1 = (q % 4) + (i - 1) /\ q + i - 1 = q + (i - 1)
  BY KeyTurns
<1>2. ((q % 4) + (i - 1)) % 4 = (q + (i - 1)) % 4
  BY <1>1, KeyTurns
<1> QED BY <1>1, <1>2

\* The next n bytes of a payload behind its first q are its first q + n.
LEMMA FrontGrows ==
  ASSUME NEW S, NEW p \in Seq(S), NEW q \in Nat, NEW n \in Nat, q + n <= Len(p),
         NEW c \in Seq(S), Len(c) = n, \A i \in 1 .. n : c[i] = p[q + i]
  PROVE  SubSeq(p, 1, q) \o c = SubSeq(p, 1, q + n)
<1>1. q \in 0 .. Len(p) /\ q + n \in 0 .. Len(p) /\ Len(p) \in Nat
  BY LenProperties
<1>2. /\ SubSeq(p, 1, q) \in Seq(S) /\ Len(SubSeq(p, 1, q)) = q
      /\ \A i \in 1 .. q : SubSeq(p, 1, q)[i] = p[i]
  BY <1>1, FrontOf
<1>3. /\ SubSeq(p, 1, q + n) \in Seq(S) /\ Len(SubSeq(p, 1, q + n)) = q + n
      /\ \A i \in 1 .. q + n : SubSeq(p, 1, q + n)[i] = p[i]
  BY <1>1, FrontOf
<1>4. PICK a \in Seq(S), b \in Seq(S) : a = SubSeq(p, 1, q) /\ b = SubSeq(p, 1, q + n)
  BY <1>2, <1>3
<1>5. /\ a \o c \in Seq(S) /\ Len(a \o c) = Len(a) + Len(c)
      /\ \A i \in 1 .. Len(a) + Len(c) : (a \o c)[i] = IF i <= Len(a) THEN a[i] ELSE c[i - Len(a)]
  BY ConcatProperties
<1>6. Len(a) = q /\ Len(b) = q + n /\ (\A i \in 1 .. q : a[i] = p[i]) /\ \A i \in 1 .. q + n : b[i] = p[i]
  BY <1>2, <1>3, <1>4
<1>7. ASSUME NEW i \in 1 .. q + n PROVE (a \o c)[i] = b[i]
  <2>1. CASE i <= q
    BY <1>5, <1>6, <2>1
  <2>2. CASE ~(i <= q)
    <3>1. i - q \in 1 .. n /\ q + (i - q) = i
      BY <2>2
    <3>2. c[i - q] = p[i]
      BY <3>1
    <3> QED BY <1>5, <1>6, <2>2, <3>2
  <2> QED BY <2>1, <2>2
<1>8. a \o c = b
  BY <1>5, <1>6, <1>7, SeqEqual
<1> QED BY <1>4, <1>8

\* A text that was rejected is not made good by what follows.
LEMMA RejectedStays ==
  ASSUME NEW p \in Seq(Chars), NEW r \in Seq(Chars), Decode("accept", p) = "reject"
  PROVE  Decode("accept", p \o r) = "reject"
<1>1. Decode("accept", p \o r) = Decode("reject", r)
  BY DecodeInPieces
<1> QED BY <1>1, DecodeStates DEF Utf8States

\* The bytes taken from the buffer, unmasked, are the next of the payload.
LEMMA UnmaskedIs ==
  ASSUME NEW f \in FrameRecords, NEW q \in Nat, NEW n \in Nat, q + n <= Len(f.payload),
         buf \in Seq(WireBytes), n <= Len(buf), b1 = Byte1(f), NEW key \in 0 .. 3,
         f.masked => key = q % 4,
         \A i \in 1 .. n : buf[i] = Bytes(f)[HeaderOf(f) + (q + i)]
  PROVE  /\ Unmasked(SubSeq(buf, 1, n), key) \in Seq(Chars)
         /\ Len(Unmasked(SubSeq(buf, 1, n), key)) = n
         /\ \A i \in 1 .. n : Unmasked(SubSeq(buf, 1, n), key)[i] = f.payload[q + i]
<1> DEFINE s == SubSeq(buf, 1, n)
           c == Unmasked(s, key)
           e(i) == IF s[i].kind = "payload" /\ (b1.masked => s[i].mask = (key + i - 1) % 4)
                     THEN s[i].char ELSE "garbled"
<1>1. n \in 0 .. Len(buf) /\ Len(f.payload) \in Nat
  BY HeaderLens, LenProperties
<1>2. s \in Seq(WireBytes) /\ Len(s) = n /\ \A i \in 1 .. n : s[i] = buf[i]
  BY <1>1, FrontOf
<1> HIDE DEF s
<1>3. ASSUME NEW i \in 1 .. n PROVE e(i) = f.payload[q + i] /\ f.payload[q + i] \in Chars
  <2>1. q + i \in 1 .. Len(f.payload) /\ i \in Nat /\ i >= 1 /\ q + i \in Int
    BY <1>1
  <2>2. Bytes(f)[HeaderOf(f) + (q + i)] = PayloadByte(f, q + i)
    BY <2>1, BytesAre
  <2>3. s[i] = PayloadByte(f, q + i)
    BY <1>2, <2>2
  <2>4. /\ s[i].kind = "payload" /\ s[i].char = f.payload[q + i]
        /\ f.masked => s[i].mask = (q + i - 1) % 4
    BY <2>3 DEF PayloadByte
  <2>5. f.masked => (key + i - 1) % 4 = (q + i - 1) % 4
    BY <2>1, KeyTurnsBefore
  <2>6. b1.masked = f.masked
    BY DEF Byte1
  <2>7. e(i) = f.payload[q + i]
    BY <2>4, <2>5, <2>6
  <2>8. f.payload[q + i] \in Chars
    BY <2>1 DEF FrameRecords
  <2> QED BY <2>7, <2>8
<1>4. c = [i \in 1 .. n |-> e(i)]
  BY <1>2 DEF Unmasked
<1> HIDE DEF e, c
<1>5. \A i \in 1 .. n : c[i] = e(i)
  BY <1>4
<1>6. c \in Seq(Chars) /\ Len(c) = n
  BY <1>3, <1>4, SMTT(30)
<1>7. \A i \in 1 .. n : c[i] = f.payload[q + i]
  BY <1>3, <1>5
<1> QED BY <1>6, <1>7 DEF c, s

\* A payload is its first q bytes and the rest.
LEMMA FrontAndRest ==
  ASSUME NEW S, NEW p \in Seq(S), NEW k \in 0 .. Len(p)
  PROVE  \E r \in Seq(S), a \in Seq(S) : p = a \o r /\ a = SubSeq(p, 1, k)
<1> DEFINE r == SubSeq(p, k + 1, Len(p))
<1>1. Len(p) \in Nat /\ k \in Nat /\ k <= Len(p) /\ k + 1 \in Int
  BY LenProperties
<1>2. SubSeq(p, 1, k) \in Seq(S) /\ Len(SubSeq(p, 1, k)) = k
      /\ \A i \in 1 .. k : SubSeq(p, 1, k)[i] = p[i]
  BY FrontOf
<1>3. r \in Seq(S) /\ Len(r) = Len(p) - k /\ \A i \in 1 .. Len(p) - k : r[i] = p[k + i]
  <2>1. \A i \in k + 1 .. Len(p) : p[i] \in S
    BY <1>1
  <2>2. /\ r \in Seq(S) /\ Len(r) = IF k + 1 <= Len(p) THEN Len(p) - (k + 1) + 1 ELSE 0
        /\ \A i \in 1 .. Len(p) - (k + 1) + 1 : r[i] = p[k + 1 + i - 1]
    BY <1>1, <2>1, SubSeqProperties
  <2> QED BY <1>1, <2>2
<1> HIDE DEF r
<1>4. PICK a \in Seq(S) : a = SubSeq(p, 1, k)
  BY <1>2
<1>5. /\ a \o r \in Seq(S) /\ Len(a \o r) = Len(a) + Len(r)
      /\ \A i \in 1 .. Len(a) + Len(r) : (a \o r)[i] = IF i <= Len(a) THEN a[i] ELSE r[i - Len(a)]
  BY <1>3, ConcatProperties
<1>6. Len(a) = k /\ Len(a \o r) = Len(p)
  BY <1>1, <1>2, <1>3, <1>4, <1>5
<1>7. ASSUME NEW i \in 1 .. Len(p) PROVE (a \o r)[i] = p[i]
  <2>1. CASE i <= k
    <3>1. i \in 1 .. k
      BY <1>1, <2>1
    <3> QED BY <1>1, <1>2, <1>4, <1>5, <1>6, <2>1, <3>1
  <2>2. CASE ~(i <= k)
    <3>1. i - k \in 1 .. Len(p) - k /\ k + (i - k) = i /\ i \in 1 .. Len(a) + Len(r)
      BY <1>1, <1>3, <1>6, <2>2
    <3>2. (a \o r)[i] = r[i - k]
      BY <1>5, <1>6, <2>2, <3>1
    <3> QED BY <1>3, <3>1, <3>2
  <2> QED BY <2>1, <2>2
<1>8. p = a \o r
  BY <1>5, <1>6, <1>7, SeqEqual
<1> QED BY <1>3, <1>4, <1>8

\* How much of a frame one call of process_payload_bytes() takes.
Taken(needed, has, size, head, all, q, n) ==
  /\ n \in Nat /\ n >= 1 /\ n <= has /\ n <= needed /\ q \in Nat
  /\ q + n <= size /\ q \in 0 .. size /\ q + n \in 0 .. size
  /\ size - (needed - n) = q + n /\ needed - n \in 0 .. size
  /\ all - needed = head + q
  /\ all - (needed - n) = head + q + n
  /\ head + q \in 0 .. all /\ n <= all - (head + q)
  /\ n \in 0 .. has

\* The arithmetic of that.
LEMMA PieceTaken ==
  ASSUME NEW needed \in Nat, needed > 0, NEW has \in Nat, has >= 1, NEW size \in Nat, needed <= size,
         NEW head \in Nat, NEW all, all = head + size,
         NEW q, q = size - needed, NEW n, n = IF needed < has THEN needed ELSE has
  PROVE  Taken(needed, has, size, head, all, q, n)
  BY DEF Taken

\* Any number of bytes of a payload: unmasked and decoded they are those that were sent.
LEMMA PayloadKeeps ==
  ASSUME FramingAssumption, FramesFit, FramingInv, PayloadBytes
  PROVE  FramingInv' /\ (Stutters \/ Stream!Next)
<1>1. /\ m_state = "APPLICATION" /\ m_bytes_needed > 0 /\ buf # <<>> /\ ec = "none"
      /\ UNCHANGED <<wire, m_state, b0, b1, ext, m_cursor, current, got>>
  BY DEF PayloadBytes, header
<1>4. FramingTypes /\ buf \in Seq(WireBytes) /\ wire \in Seq(WireBytes) /\ m_data_msg \in Msgs
      /\ current \in {"data", "control"} /\ m_control_msg \in Msgs /\ m_bytes_needed \in Nat
      /\ Len(buf) \in Nat /\ Len(buf) >= 1
  BY <1>1, EmptySeq, LenProperties DEF FramingInv, FramingTypes
<1>0. PICK n \in Nat : n = IF m_bytes_needed < Len(buf) THEN m_bytes_needed ELSE Len(buf)
  BY <1>4
<1> DEFINE chars == Unmasked(SubSeq(buf, 1, n), Current.key)
           utf8 == IF Current.op = "text" THEN Decode(Current.utf8, chars) ELSE "accept"
           msg == [Current EXCEPT !.payload = Current.payload \o chars, !.utf8 = utf8, !.key = NextKey(n)]
<1>2. /\ current = "data" => m_data_msg' = msg /\ UNCHANGED m_control_msg
      /\ current # "data" => m_control_msg' = msg /\ UNCHANGED m_data_msg
  BY <1>0 DEF PayloadBytes
<1>3. /\ utf8 = "reject" => ec' = "invalid_utf8" /\ UNCHANGED <<buf, m_bytes_needed>>
      /\ utf8 # "reject" =>
           buf' = SubSeq(buf, n + 1, Len(buf)) /\ m_bytes_needed' = m_bytes_needed - n /\ UNCHANGED ec
  BY <1>0 DEF PayloadBytes
<1>5. PICK f \in Frames, t \in Streams : InPayload(f, t)
  <2>1. ~AtBoundary
    BY <1>1 DEF AtBoundary
  <2>2. \E f \in Frames, t \in Streams : Reading(f, t)
    BY <1>1, <2>1 DEF FramingInv
  <2> QED BY <1>1, <2>2 DEF Reading, OneByte, InHeader, AtEnd
<1>6. /\ f \in FrameRecords /\ t \in Seq(WireBytes)
      /\ Len(f.payload) \in Nat /\ Len(Bytes(f)) = HeaderOf(f) + Len(f.payload)
      /\ f.payload \in Seq(Chars) /\ f.op \in Opcodes /\ HeaderOf(f) \in Nat
  <2>1. f \in FrameRecords /\ t \in Seq(WireBytes)
    BY StreamsClosed DEF FramesFit
  <2>2. Len(Bytes(f)) = HeaderOf(f) + Len(f.payload)
    BY <2>1, BytesAre
  <2>3. HeaderOf(f) \in 2 .. 14 /\ Len(f.payload) \in Nat /\ f.payload \in Seq(Chars)
    BY <2>1, HeaderLens
  <2>4. f.op \in Opcodes
    BY <2>1 DEF FrameRecords
  <2>5. HeaderOf(f) \in Nat
    BY <2>3
  <2> QED BY <2>1, <2>2, <2>3, <2>4, <2>5
<1>b. Holds(f, Len(f.payload) - m_bytes_needed) /\ m_bytes_needed <= Len(f.payload)
  BY <1>5, <1>6 DEF InPayload
<1>11. PICK q \in Nat : q = Len(f.payload) - m_bytes_needed
  <2>1. Len(f.payload) - m_bytes_needed \in Nat
    BY <1>4, <1>6, <1>b
  <2> QED BY <2>1
<1>7. /\ HeaderRead(f) /\ Holds(f, q) /\ m_bytes_needed <= Len(f.payload)
      /\ Left(buf \o wire, f, Len(Bytes(f)) - m_bytes_needed, t)
  BY <1>5, <1>11, <1>b DEF InPayload
<1>8. b0 = Byte0(f) /\ b1 = Byte1(f) /\ Valid(f) /\ PayloadSize = Len(f.payload) /\ b1.masked = f.masked
  <2>1. b0 = Byte0(f) /\ b1 = Byte1(f) /\ Valid(f) /\ Filled(f, HeaderLen(Byte1(f)))
    BY <1>7 DEF HeaderRead
  <2> QED BY <1>6, <2>1, HeaderSays DEF Byte1
<1>9. /\ n \in Nat /\ n >= 1 /\ n <= Len(buf) /\ n <= m_bytes_needed /\ q \in Nat
      /\ q + n <= Len(f.payload) /\ q \in 0 .. Len(f.payload) /\ q + n \in 0 .. Len(f.payload)
      /\ Len(f.payload) - (m_bytes_needed - n) = q + n
      /\ m_bytes_needed - n \in 0 .. Len(f.payload)
      /\ Len(Bytes(f)) - m_bytes_needed = HeaderOf(f) + q
      /\ Len(Bytes(f)) - (m_bytes_needed - n) = HeaderOf(f) + q + n
      /\ HeaderOf(f) + q \in 0 .. Len(Bytes(f)) /\ n <= Len(Bytes(f)) - (HeaderOf(f) + q)
      /\ n \in 0 .. Len(buf)
  <2>1. Taken(m_bytes_needed, Len(buf), Len(f.payload), HeaderOf(f), Len(Bytes(f)), q, n)
    BY <1>0, <1>1, <1>4, <1>6, <1>7, <1>11, PieceTaken
  <2> QED BY <2>1 DEF Taken
<1>12. /\ \A i \in 1 .. n : buf[i] = Bytes(f)[HeaderOf(f) + (q + i)]
       /\ SubSeq(buf, n + 1, Len(buf)) \in Seq(WireBytes)
       /\ Left(SubSeq(buf, n + 1, Len(buf)) \o wire, f, Len(Bytes(f)) - (m_bytes_needed - n), t)
  <2> DEFINE p == HeaderOf(f) + q
  <2>1. p \in 0 .. Len(Bytes(f)) /\ n <= Len(Bytes(f)) - p /\ Left(buf \o wire, f, p, t)
        /\ p + n = Len(Bytes(f)) - (m_bytes_needed - n)
    BY <1>7, <1>9
  <2>2. \A i \in 1 .. n : p + i = HeaderOf(f) + (q + i)
    BY <1>6, <1>9
  <2> HIDE DEF p
  <2>3. /\ \A i \in 1 .. n : buf[i] = Bytes(f)[p + i]
        /\ SubSeq(buf, n + 1, Len(buf)) \in Seq(WireBytes)
        /\ Left(SubSeq(buf, n + 1, Len(buf)) \o wire, f, p + n, t)
    BY <1>4, <1>6, <1>9, <2>1, LeftTaken
  <2> QED BY <2>1, <2>2, <2>3
<1>13. Current.key \in 0 .. 3 /\ Current.payload \in Seq(Chars) /\ Current.op \in Opcodes \cup {"none"}
       /\ Current.utf8 \in Utf8States /\ Current \in Msgs
  BY <1>4 DEF Current, Msgs
<1>14. (f.masked => Current.key = q % 4) /\ (is_control(f.op) <=> current = "control")
  BY <1>4, <1>7 DEF Holds, OfControl, OfData, Current
<1>15. /\ chars \in Seq(Chars) /\ Len(chars) = n
       /\ \A i \in 1 .. n : chars[i] = f.payload[q + i]
  <2>1. PICK key \in 0 .. 3 : key = Current.key
    BY <1>13
  <2>2. /\ q + n <= Len(f.payload) /\ buf \in Seq(WireBytes) /\ n <= Len(buf) /\ b1 = Byte1(f)
        /\ f.masked => key = q % 4
        /\ \A i \in 1 .. n : buf[i] = Bytes(f)[HeaderOf(f) + (q + i)]
    BY <1>4, <1>8, <1>9, <1>12, <1>14, <2>1
  <2>3. /\ Unmasked(SubSeq(buf, 1, n), key) \in Seq(Chars)
        /\ Len(Unmasked(SubSeq(buf, 1, n), key)) = n
        /\ \A i \in 1 .. n : Unmasked(SubSeq(buf, 1, n), key)[i] = f.payload[q + i]
    BY <1>6, <2>2, UnmaskedIs, ZenonT(30)
  <2> QED BY <2>1, <2>3
<1> HIDE DEF chars
<1>16. SubSeq(f.payload, 1, q) \in Seq(Chars)
       /\ SubSeq(f.payload, 1, q) \o chars = SubSeq(f.payload, 1, q + n)
  <2>1. SubSeq(f.payload, 1, q) \in Seq(Chars)
    BY <1>6, <1>9, FrontOf
  <2>2. SubSeq(f.payload, 1, q) \o chars = SubSeq(f.payload, 1, q + n)
    <3>1. f.payload \in Seq(Chars)
      BY <1>6
    <3>2. q \in Nat /\ n \in Nat /\ q + n <= Len(f.payload)
      BY <1>9
    <3> QED BY <1>15, <3>1, <3>2, FrontGrows
  <2> QED BY <2>1, <2>2
<1>17. f.masked => NextKey(n) = (q + n) % 4
  BY <1>8, <1>9, <1>14, KeyTurns DEF NextKey
<1>18. NextKey(n) \in 0 .. 3
  <2>1. PICK k \in 0 .. 3 : k = Current.key
    BY <1>13
  <2>2. k + n \in Nat
    OBVIOUS
  <2>3. (k + n) % 4 \in 0 .. 3
    BY <2>2, KeyTurns
  <2> QED BY <2>1, <2>3 DEF NextKey
<1>19. utf8 \in Utf8States
  BY <1>13, <1>15, DecodeStates DEF Utf8States
<1> HIDE DEF utf8
<1>20. /\ msg.op = Current.op /\ msg.payload = Current.payload \o chars /\ msg.utf8 = utf8
       /\ msg.key = NextKey(n) /\ msg \in Msgs
  <2>1. Current.payload \o chars \in Seq(Chars)
    BY <1>13, <1>15, ConcatProperties
  <2>2. PICK m \in Msgs : m = Current
    BY <1>13
  <2>3. msg = [m EXCEPT !.payload = m.payload \o chars, !.utf8 = utf8, !.key = NextKey(n)]
    BY <2>2
  <2>4. PICK c \in Seq(Chars), k \in 0 .. 3 : c = m.payload \o chars /\ k = NextKey(n)
    BY <1>18, <2>1, <2>2
  <2>5. msg = [m EXCEPT !.payload = c, !.utf8 = utf8, !.key = k]
    BY <2>3, <2>4
  <2> HIDE DEF msg
  <2>6. msg \in Msgs /\ msg.op = m.op /\ msg.payload = c /\ msg.utf8 = utf8 /\ msg.key = k
    BY <1>19, <2>5 DEF Msgs
  <2> QED BY <2>2, <2>4, <2>6
<1> HIDE DEF msg
<1>21. PayloadSize' = PayloadSize /\ Out' = Out
  BY <1>1 DEF PayloadSize, Out
<1>22. FramingTypes'
  <2>1. m_data_msg' \in Msgs /\ m_control_msg' \in Msgs
    BY <1>2, <1>4, <1>20
  <2>2. buf' \in Seq(WireBytes) /\ m_bytes_needed' \in Nat
    <3>1. m_bytes_needed - n \in Nat
      BY <1>4, <1>9
    <3> QED BY <1>3, <1>4, <1>12, <3>1
  <2> QED BY <1>1, <1>4, <2>1, <2>2 DEF FramingTypes
<1>23. HeaderRead(f)'
  BY <1>1, <1>7 DEF HeaderRead, Filled
<1>24. ASSUME utf8 # "reject", Holds(f, q + n)' PROVE FramingInv'
  <2>1. m_bytes_needed' = m_bytes_needed - n /\ ec' = "none"
        /\ buf' = SubSeq(buf, n + 1, Len(buf))
    BY <1>1, <1>3, <1>24
  <2>2. m_bytes_needed' \in 0 .. Len(f.payload) /\ Len(f.payload) - m_bytes_needed' = q + n
    BY <1>9, <2>1
  <2>3. Left(buf' \o wire', f, Len(Bytes(f)) - m_bytes_needed', t)
    BY <1>1, <1>12, <2>1
  <2>4. Holds(f, Len(f.payload) - m_bytes_needed)'
    BY <1>24, <2>2 DEF Holds, OfControl, OfData, Unfinished, Decoded
  <2>5. InPayload(f, t)'
    BY <1>1, <1>23, <2>2, <2>3, <2>4 DEF InPayload
  <2> QED BY <1>1, <1>22, <2>1, <2>5 DEF FramingInv, Reading
<1>25. CASE current = "control"
  <2>1. /\ OfControl(f, q) /\ Current = m_control_msg /\ is_control(f.op)
        /\ m_control_msg' = msg /\ UNCHANGED m_data_msg
    BY <1>2, <1>7, <1>14, <1>25 DEF Holds, Current
  <2>2. f.op # "text"
    BY <2>1 DEF is_control, Control
  <2>3. utf8 = "accept" /\ ec' = "none"
    BY <1>1, <1>3, <2>1, <2>2 DEF utf8, OfControl
  <2>4. OfControl(f, q + n)'
    <3>1. m_control_msg'.op = f.op /\ m_control_msg'.payload = SubSeq(f.payload, 1, q + n)
      BY <1>16, <1>20, <2>1 DEF OfControl
    <3>2. f.masked => m_control_msg'.key = (q + n) % 4
      BY <1>17, <1>20, <2>1
    <3>3. Unfinished(m_data_msg)'
      BY <2>1 DEF OfControl, Unfinished, Decoded
    <3> QED BY <1>1, <1>25, <3>1, <3>2, <3>3 DEF OfControl
  <2>5. FramingInv'
    BY <1>24, <2>1, <2>3, <2>4 DEF Holds
  <2>6. Part' = Part
    BY <1>1, <1>4, <1>25, <2>1, PartOutside, Outside
  <2>7. Stutters
    BY <1>1, <1>21, <2>3, <2>6 DEF Stutters
  <2> QED BY <2>5, <2>7
<1>26. CASE current = "data"
  <2>1. Current = m_data_msg /\ ~is_control(f.op) /\ m_data_msg' = msg /\ UNCHANGED m_control_msg
    BY <1>2, <1>14, <1>26 DEF Current
  <2>2. PICK old \in Seq(Chars) : OfData(f, q, old)
    BY <1>7, <2>1 DEF Holds
  <2>3. /\ m_data_msg'.op = m_data_msg.op /\ m_data_msg'.utf8 = utf8
        /\ m_data_msg'.payload = old \o SubSeq(f.payload, 1, q + n)
        /\ f.masked => m_data_msg'.key = (q + n) % 4
        /\ m_data_msg'.payload = m_data_msg.payload \o chars
    <3>1. m_data_msg.payload = old \o SubSeq(f.payload, 1, q)
      BY <2>2 DEF OfData
    <3>2. PICK a \in Seq(Chars), c \in Seq(Chars), b \in {SubSeq(f.payload, 1, q + n)} :
            a = SubSeq(f.payload, 1, q) /\ c = chars /\ a \o c = b
      BY <1>15, <1>16
    <3>3. (old \o a) \o c = old \o (a \o c)
      BY ConcatAssociative
    <3>4. m_data_msg.payload \o chars = old \o SubSeq(f.payload, 1, q + n)
      BY <3>1, <3>2, <3>3
    <3> QED BY <1>17, <1>20, <2>1, <3>4
  <2>4. m_data_msg.op \in {"text", "binary"} /\ Decoded(m_data_msg)
        /\ (f.op # "continuation" => old = <<>> /\ m_data_msg.op = f.op)
        /\ Len(old) + Len(f.payload) <= MaxMessageSize
    BY <2>2 DEF OfData
  <2>5. utf8 = IF m_data_msg.op = "text" THEN Decode("accept", m_data_msg'.payload) ELSE "accept"
    <3>1. PICK a \in Seq(Chars) : a = m_data_msg.payload
      BY <1>4 DEF Msgs
    <3>2. Decode("accept", a \o chars) = Decode(Decode("accept", a), chars)
      BY <1>15, DecodeInPieces
    <3> QED BY <2>1, <2>3, <2>4, <3>1, <3>2 DEF utf8, Decoded
  <2>6. m_data_msg'.op # "none"
    BY <2>3, <2>4
  <2>7. Part = IF f.op = "continuation" THEN [op |-> m_data_msg.op, payload |-> old] ELSE NoPart
    <3>1. q = Len(f.payload) - m_bytes_needed + 0
      BY <1>6, <1>4, <1>11
    <3>2. m_data_msg.payload = old \o SubSeq(f.payload, 1, q)
      BY <2>2 DEF OfData
    <3>3. DataSoFar(f, old, q)
      BY <1>1, <1>4, <1>8, <1>26, <2>4, <3>1, <3>2 DEF DataSoFar
    <3> QED BY <1>6, <1>9, <3>3, PartOfData DEF DataLeavesPart
  <2>8. ASSUME q + n = Len(f.payload) - m_bytes_needed'
                         + IF ec' = "invalid_utf8" /\ m_bytes_needed' > 0
                             THEN IF m_bytes_needed' < Len(buf') THEN m_bytes_needed' ELSE Len(buf')
                             ELSE 0
        PROVE  Part' = Part
    <3>1. DataSoFar(f, old, q + n)'
      BY <1>1, <1>8, <1>20, <1>21, <1>26, <2>1, <2>3, <2>6, <2>8 DEF DataSoFar
    <3>2. Part' = IF f.op = "continuation" THEN [op |-> m_data_msg'.op, payload |-> old] ELSE NoPart
      BY <1>6, <1>9, <3>1, OfDataAfter
    <3> QED BY <2>3, <2>7, <3>2
  <2>9. CASE utf8 # "reject"
    <3>1. OfData(f, q + n, old)'
      BY <1>1, <1>26, <2>3, <2>4, <2>5, <2>9 DEF OfData, Decoded
    <3>2. FramingInv'
      BY <1>24, <2>1, <2>9, <3>1 DEF Holds
    <3>3. Part' = Part
      <4>1. ec' = "none" /\ m_bytes_needed' = m_bytes_needed - n
        BY <1>1, <1>3, <2>9
      <4>2. q + n = Len(f.payload) - m_bytes_needed' + 0
        BY <1>4, <1>6, <1>9, <4>1
      <4> QED BY <2>8, <4>1, <4>2
    <3>4. Stutters
      BY <1>1, <1>3, <1>21, <2>9, <3>3 DEF Stutters
    <3> QED BY <3>2, <3>4
  <2>10. CASE utf8 = "reject"
    <3>1. ec' = "invalid_utf8" /\ buf' = buf /\ m_bytes_needed' = m_bytes_needed
      BY <1>3, <2>10
    <3>2. Part' = Part
      <4>1. q + n = Len(f.payload) - m_bytes_needed + n
        BY <1>4, <1>6, <1>9, <1>11
      <4> QED BY <1>1, <1>0, <2>8, <3>1, <4>1
    <3>3. Whole(Part, f) = [op |-> m_data_msg.op, payload |-> old \o f.payload]
      <4>1. f.op # "continuation" => old \o f.payload = f.payload
        BY <1>6, <2>4, ConcatEmptySeq
      <4> QED BY <2>4, <2>7, <4>1 DEF Whole
    <3>4. m_data_msg.op = "text" /\ Decode("accept", m_data_msg'.payload) = "reject"
      BY <2>5, <2>10
    <3>5. Decode("accept", old \o f.payload) = "reject"
      <4>1. PICK r \in Seq(Chars), a \in Seq(Chars) :
              f.payload = a \o r /\ a = SubSeq(f.payload, 1, q + n)
        <5>1. PICK k \in 0 .. Len(f.payload) : k = q + n
          BY <1>9
        <5>2. \E r \in Seq(Chars), a \in Seq(Chars) : f.payload = a \o r /\ a = SubSeq(f.payload, 1, k)
          BY <1>6, FrontAndRest
        <5> QED BY <5>1, <5>2
      <4>2. old \o (a \o r) = (old \o a) \o r
        BY ConcatAssociative
      <4>5. old \o a \in Seq(Chars)
        BY ConcatProperties
      <4>3. Decode("accept", old \o a) = "reject"
        BY <2>3, <3>4, <4>1
      <4>4. Decode("accept", (old \o a) \o r) = "reject"
        BY <4>3, <4>5, RejectedStays
      <4> QED BY <4>1, <4>2, <4>4
    <3>6. ~MayCome(Part, f)
      BY <3>3, <3>4, <3>5 DEF MayCome
    <3>7. Stream!Next
      BY <1>1, <1>21, <3>1, <3>2, <3>6, Refuses
    <3>8. FramingInv'
      BY <1>1, <1>22, <3>1 DEF FramingInv
    <3> QED BY <3>7, <3>8
  <2> QED BY <2>9, <2>10
<1> QED BY <1>4, <1>25, <1>26

\* A text whose last fragment has come and that was not rejected is complete.
LEMMA FragmentEnds ==
  ASSUME FragmentsEnd, NEW f \in Frames, f \in FrameRecords, NEW old \in Seq(Chars),
         f.op = "continuation", f.fin, Decode("accept", old \o f.payload) # "reject"
  PROVE  Decode("accept", old \o f.payload) = "accept"
<1>1. f.payload \in Seq(Chars)
  BY DEF FrameRecords
<1>2. PICK s \in Utf8States : s = Decode("accept", old)
  BY DecodeStates DEF Utf8States
<1>3. Decode("accept", old \o f.payload) = Decode(s, f.payload)
  BY <1>1, <1>2, DecodeInPieces
<1>4. Decode(s, f.payload) \in Utf8States /\ (s = "reject" => Decode(s, f.payload) = "reject")
  BY <1>1, DecodeStates
<1>5. s \in {"accept", "more"}
  BY <1>3, <1>4 DEF Utf8States
<1>6. Decode(s, f.payload) # "more"
  BY <1>5 DEF FragmentsEnd
<1> QED BY <1>3, <1>4, <1>6 DEF Utf8States

\* The frame is complete: the message is delivered, awaits its next frame, or is
\* a text cut off.
LEMMA FinishKeeps ==
  ASSUME FramingAssumption, FramesFit, FramingInv, FinishFrame
  PROVE  FramingInv' /\ (FragmentsEnd => Stutters \/ Stream!Next)
<1>1. /\ m_state = "APPLICATION" /\ m_bytes_needed = 0 /\ ec = "none"
      /\ UNCHANGED <<wire, buf, m_cursor, m_data_msg, m_control_msg, current, got>>
      /\ ~b0.fin => HeadersReset /\ ec' = "none"
      /\ b0.fin /\ TextCutOff =>
           ec' = "invalid_utf8" /\ UNCHANGED <<m_state, b0, b1, ext, m_bytes_needed>>
      /\ b0.fin /\ ~TextCutOff =>
           m_state' = "READY" /\ UNCHANGED <<b0, b1, ext, m_bytes_needed, ec>>
  BY DEF FinishFrame
<1>2. FramingTypes /\ buf \in Seq(WireBytes) /\ wire \in Seq(WireBytes) /\ m_data_msg \in Msgs
      /\ current \in {"data", "control"} /\ m_control_msg \in Msgs
  BY DEF FramingInv, FramingTypes
<1>3. PICK f \in Frames, t \in Streams : InPayload(f, t)
  <2>1. ~AtBoundary
    BY <1>1 DEF AtBoundary
  <2>2. \E f \in Frames, t \in Streams : Reading(f, t)
    BY <1>1, <2>1 DEF FramingInv
  <2> QED BY <1>1, <2>2 DEF Reading, OneByte, InHeader, AtEnd
<1>4. /\ f \in FrameRecords /\ t \in Seq(WireBytes) /\ f.payload \in Seq(Chars) /\ f.op \in Opcodes
      /\ Len(f.payload) \in Nat /\ Len(Bytes(f)) \in Nat /\ f.fin \in BOOLEAN
  <2>1. f \in FrameRecords /\ t \in Seq(WireBytes)
    BY StreamsClosed DEF FramesFit
  <2>2. f.payload \in Seq(Chars) /\ f.op \in Opcodes /\ f.fin \in BOOLEAN /\ Bytes(f) \in Seq(WireBytes)
    BY <2>1, BytesAre DEF FrameRecords
  <2> QED BY <2>1, <2>2, LenProperties
<1>5. /\ HeaderRead(f) /\ Holds(f, Len(f.payload)) /\ Left(buf \o wire, f, Len(Bytes(f)), t)
  <2>1. Len(f.payload) - 0 = Len(f.payload) /\ Len(Bytes(f)) - 0 = Len(Bytes(f))
    BY <1>4
  <2>2. HeaderRead(f) /\ Holds(f, Len(f.payload) - 0) /\ Left(buf \o wire, f, Len(Bytes(f)) - 0, t)
    BY <1>1, <1>3 DEF InPayload
  <2> QED BY <2>1, <2>2
<1>6. /\ b0 = Byte0(f) /\ b1 = Byte1(f) /\ Valid(f) /\ PayloadSize = Len(f.payload)
      /\ b0.fin = f.fin /\ b0.op = f.op /\ f.code = SizeCode(Len(f.payload))
  <2>1. b0 = Byte0(f) /\ b1 = Byte1(f) /\ Valid(f) /\ Filled(f, HeaderLen(Byte1(f)))
        /\ f.code = SizeCode(Len(f.payload))
    BY <1>5 DEF HeaderRead
  <2> QED BY <1>4, <2>1, HeaderSays DEF Byte0
<1>7. SubSeq(f.payload, 1, Len(f.payload)) = f.payload
  BY <1>4, SubSeqFull
<1>8. buf \o wire = t /\ buf \o wire \in Streams
  <2>1. buf \o wire \in Seq(WireBytes)
    BY <1>2, ConcatProperties
  <2> QED BY <1>4, <1>5, <2>1, LeftNothing
<1>9. Out = got
  BY <1>1 DEF Out
<1>10. /\ f.op \in {"continuation", "text", "binary"} \cup Control
       /\ ~f.rsv /\ f.masked = IsServer /\ (is_control(f.op) <=> f.op \in Control)
  BY <1>4, <1>6 DEF Opcodes, Valid, Control, Reserved, is_control
<1>11. FramingTypes'
  <2>1. m_state' \in {"HEADER_BASIC", "APPLICATION", "READY"} /\ m_bytes_needed' \in Nat
    BY <1>1 DEF HeadersReset
  <2> QED BY <1>1, <1>2, <2>1 DEF FramingTypes
<1>12. ASSUME m_state' = "READY", f.fin, UNCHANGED <<b0, b1, ext, m_bytes_needed, ec>>
       PROVE  FramingInv'
  <2>1. HeaderRead(f)'
    BY <1>5, <1>12 DEF HeaderRead, Filled
  <2>2. Holds(f, Len(f.payload))'
    BY <1>1, <1>5 DEF Holds, OfControl, OfData, Unfinished, Decoded
  <2>3. Left(buf' \o wire', f, Len(Bytes(f)), t)
    BY <1>1, <1>5
  <2>4. AtEnd(f, t)'
    BY <1>1, <1>12, <2>1, <2>2, <2>3 DEF AtEnd
  <2> QED BY <1>1, <1>11, <1>12, <2>4 DEF FramingInv, Reading
<1>13. CASE is_control(f.op)
  <2>1. OfControl(f, Len(f.payload)) /\ f.fin /\ current = "control"
    BY <1>5, <1>6, <1>13 DEF Holds, OfControl, Valid
  <2>2. Current.op = f.op /\ Current.payload = f.payload /\ f.op # "text"
    BY <1>7, <1>10, <1>13, <2>1 DEF OfControl, Current, Control
  <2>3. m_state' = "READY" /\ UNCHANGED <<b0, b1, ext, m_bytes_needed, ec>>
    BY <1>1, <1>6, <2>1, <2>2 DEF TextCutOff
  <2>4. Part' = Part
    BY <1>1, <1>2, <2>1, PartOutside, Outside
  <2>5. Whole(Part, f) = [op |-> f.op, payload |-> f.payload]
    BY <1>10, <1>13 DEF Whole, Control
  <2>6. Out' = Append(Out, Whole(Part, f))
    BY <1>1, <1>9, <2>1, <2>2, <2>3, <2>5 DEF Out, Current
  <2>7. f.op \in Control /\ Len(f.payload) <= BasicSize
    BY <1>6, <1>10, <1>13, CodeFits DEF Valid
  <2>8. MayCome(Part, f)
    <3>1. Whole(Part, f).op # "text"
      BY <2>2, <2>5
    <3>2. f.op \notin {"continuation", "text", "binary"}
      BY <2>7 DEF Control
    <3> QED BY <1>6, <1>10, <2>1, <2>7, <3>1, <3>2 DEF MayCome
  <2>9. Stream!Next
    BY <1>1, <2>1, <2>3, <2>4, <2>6, <2>7, <2>8, Accepts
  <2> QED BY <1>12, <2>1, <2>3, <2>9
<1>14. CASE ~is_control(f.op)
  <2>1. PICK old \in Seq(Chars) : OfData(f, Len(f.payload), old)
    BY <1>5, <1>14 DEF Holds
  <2>2. /\ current = "data" /\ Decoded(m_data_msg) /\ m_data_msg.op \in {"text", "binary"}
        /\ m_data_msg.payload = old \o f.payload /\ Current = m_data_msg
        /\ f.op # "continuation" => old = <<>> /\ m_data_msg.op = f.op
        /\ Len(old) + Len(f.payload) <= MaxMessageSize
        /\ f.op \notin Control
    BY <1>7, <1>10, <1>14, <2>1 DEF OfData, Current
  <2>3. DataSoFar(f, old, Len(f.payload)) /\ Len(f.payload) \in 0 .. Len(f.payload)
    <3>1. Len(f.payload) = Len(f.payload) - 0 + 0 /\ Len(f.payload) \in 0 .. Len(f.payload)
      BY <1>4
    <3> QED BY <1>1, <1>2, <1>6, <1>7, <2>2, <3>1 DEF DataSoFar
  <2>4. Part = IF f.op = "continuation" THEN [op |-> m_data_msg.op, payload |-> old] ELSE NoPart
    BY <1>4, <2>3, PartOfData DEF DataLeavesPart
  <2>5. Whole(Part, f) = [op |-> m_data_msg.op, payload |-> m_data_msg.payload]
    <3>1. f.op # "continuation" => old \o f.payload = f.payload
      BY <1>4, <2>2, ConcatEmptySeq
    <3> QED BY <2>2, <2>4, <3>1 DEF Whole
  <2>6. m_data_msg.op = "text" =>
          Decode("accept", m_data_msg.payload) = m_data_msg.utf8 /\ m_data_msg.utf8 \in {"accept", "more"}
    BY <1>2, <2>2 DEF Decoded, Msgs, Utf8States
  <2>7. ASSUME f.fin /\ m_data_msg.op = "text" => m_data_msg.utf8 = "accept"
        PROVE  MayCome(Part, f)
    <3>1. Len(m_data_msg.payload) <= MaxMessageSize
      <4>1. Len(old \o f.payload) = Len(old) + Len(f.payload)
        BY <1>4, ConcatProperties
      <4> QED BY <2>2, <4>1
    <3>2. f.op = "continuation" => Part # NoPart
      BY <2>2, <2>4 DEF NoPart
    <3>3. f.op \in {"text", "binary"} => Part = NoPart
      BY <2>4
    <3>4. Whole(Part, f).op = "text" =>
            Decode("accept", Whole(Part, f).payload) \in IF f.fin THEN {"accept"} ELSE {"accept", "more"}
      BY <2>5, <2>6, <2>7
    <3> QED BY <1>6, <1>10, <2>2, <2>5, <3>1, <3>2, <3>3, <3>4 DEF MayCome
  <2>8. CASE ~f.fin
    <3>1. m_state' = "HEADER_BASIC" /\ m_bytes_needed' = 2 /\ ec' = "none"
      BY <1>1, <1>6, <2>8 DEF HeadersReset
    <3>2. Part' = Pend(m_data_msg) /\ Out' = Out
      BY <1>1, <1>2, <1>9, <3>1, Outside DEF Out
    <3>3. Pend(m_data_msg) = Whole(Part, f)
      BY <2>2, <2>5 DEF Pend, NoMsg
    <3>4. AtBoundary'
      BY <1>1, <1>8, <2>2, <3>1 DEF AtBoundary, Unfinished, Decoded
    <3>5. FramingInv'
      BY <1>11, <3>1, <3>4 DEF FramingInv
    <3>6. Stream!Next
      BY <1>1, <2>2, <2>7, <2>8, <3>1, <3>2, <3>3, Accepts
    <3> QED BY <3>5, <3>6
  <2>9. CASE f.fin /\ TextCutOff
    <3>1. /\ ec' = "invalid_utf8" /\ UNCHANGED <<m_state, b0, b1, ext, m_bytes_needed>>
          /\ f.op = "text" /\ m_data_msg.utf8 # "accept"
      BY <1>1, <1>6, <2>2, <2>9 DEF TextCutOff
    <3>2. m_data_msg.op = "text" /\ Whole(Part, f).op = "text"
          /\ Decode("accept", Whole(Part, f).payload) # "accept"
      BY <2>2, <2>5, <2>6, <3>1
    <3>3. ~MayCome(Part, f)
      BY <2>9, <3>2 DEF MayCome
    <3>4. Part' = Part
      <4>1. Len(f.payload) = Len(f.payload) - 0 + 0 /\ ~(m_bytes_needed' > 0) /\ m_bytes_needed' = 0
        BY <1>1, <1>4, <3>1
      <4>2. PayloadSize' = PayloadSize
        BY <3>1 DEF PayloadSize
      <4>3. DataSoFar(f, old, Len(f.payload))'
        BY <1>1, <1>2, <1>6, <1>7, <2>2, <3>1, <4>1, <4>2 DEF DataSoFar
      <4>4. Part' = IF f.op = "continuation" THEN [op |-> m_data_msg'.op, payload |-> old] ELSE NoPart
        BY <1>4, <2>3, <4>3, OfDataAfter
      <4> QED BY <2>4, <3>1, <4>4
    <3>5. Out' = Out
      BY <1>1, <1>9, <3>1 DEF Out
    <3>6. Stream!Next
      BY <1>1, <3>1, <3>3, <3>4, <3>5, Refuses
    <3>7. FramingInv'
      BY <1>11, <1>1, <3>1 DEF FramingInv
    <3> QED BY <3>6, <3>7
  <2>10. CASE f.fin /\ ~TextCutOff
    <3>1. m_state' = "READY" /\ UNCHANGED <<b0, b1, ext, m_bytes_needed, ec>>
      BY <1>1, <1>6, <2>10
    <3>2. ASSUME FragmentsEnd, m_data_msg.op = "text" PROVE m_data_msg.utf8 = "accept"
      <4>1. CASE f.op = "continuation"
        BY <1>4, <2>2, <2>6, <2>10, <3>2, <4>1, FragmentEnds
      <4>2. CASE f.op # "continuation"
        BY <1>6, <2>2, <2>10, <3>2, <4>2 DEF TextCutOff
      <4> QED BY <4>1, <4>2
    <3>3. Part' = NoPart
      BY <1>1, <2>2, <3>1 DEF Part, NoFrameYet
    <3>4. Out' = Append(Out, Whole(Part, f))
      BY <1>1, <1>9, <2>2, <2>5, <3>1 DEF Out, Current
    <3>5. ASSUME FragmentsEnd PROVE Stream!Next
      BY <1>1, <2>2, <2>7, <2>10, <3>1, <3>2, <3>3, <3>4, <3>5, Accepts
    <3> QED BY <1>12, <2>10, <3>1, <3>5
  <2> QED BY <1>4, <2>8, <2>9, <2>10
<1> QED BY <1>13, <1>14

\* get_message() hands over what was counted as delivered when the frame was complete.
LEMMA DeliverKeeps ==
  ASSUME FramingAssumption, FramesFit, FramingInv, GetMessage
  PROVE  FramingInv' /\ Stutters
<1>1. /\ m_state = "READY" /\ ec = "none" /\ ec' = "none"
      /\ got' = Append(got, [op |-> Current.op, payload |-> Current.payload])
      /\ current = "control" => m_control_msg' = NoMsg /\ UNCHANGED m_data_msg
      /\ current # "control" => m_data_msg' = NoMsg /\ UNCHANGED m_control_msg
      /\ m_state' = "HEADER_BASIC" /\ m_bytes_needed' = 2
      /\ UNCHANGED <<wire, buf, current>>
  BY DEF GetMessage, HeadersReset, FramingInv
<1>2. FramingTypes /\ buf \in Seq(WireBytes) /\ wire \in Seq(WireBytes) /\ m_data_msg \in Msgs
      /\ current \in {"data", "control"} /\ m_control_msg \in Msgs /\ got \in Seq(Delivered)
  BY DEF FramingInv, FramingTypes
<1>3. PICK f \in Frames, t \in Streams : AtEnd(f, t)
  <2>1. ~AtBoundary
    BY <1>1 DEF AtBoundary
  <2>2. \E f \in Frames, t \in Streams : Reading(f, t)
    BY <1>1, <2>1 DEF FramingInv
  <2> QED BY <1>1, <2>2 DEF Reading, OneByte, InHeader, InPayload
<1>4. f \in FrameRecords /\ t \in Seq(WireBytes) /\ f.op \in Opcodes
  BY StreamsClosed DEF FramesFit, FrameRecords
<1>5. buf \o wire \in Streams
  <2>1. buf \o wire \in Seq(WireBytes)
    BY <1>2, ConcatProperties
  <2>2. Left(buf \o wire, f, Len(Bytes(f)), t)
    BY <1>3 DEF AtEnd
  <2> QED BY <1>4, <2>1, <2>2, LeftNothing
<1>6. Holds(f, Len(f.payload))
  BY <1>3 DEF AtEnd
<1>7. NoMsg \in Msgs /\ Unfinished(NoMsg) /\ Pend(NoMsg) = NoPart
  <2>1. <<>> \in Seq(Chars) /\ 0 \in 0 .. 3
    OBVIOUS
  <2> QED BY <2>1 DEF NoMsg, Msgs, Utf8States, Unfinished, Pend
<1>8. Current \in Msgs /\ Current.op \in Opcodes /\ Unfinished(m_data_msg')
  <2>1. CASE is_control(f.op)
    <3>1. /\ current = "control" /\ Unfinished(m_data_msg) /\ m_control_msg.op = f.op
      BY <1>6, <2>1 DEF Holds, OfControl
    <3> QED BY <1>1, <1>2, <1>4, <3>1 DEF Current
  <2>2. CASE ~is_control(f.op)
    <3>1. current = "data" /\ m_data_msg.op \in {"text", "binary"}
      BY <1>6, <2>2 DEF Holds, OfData
    <3> QED BY <1>1, <1>2, <1>7, <3>1 DEF Current, Opcodes
  <2> QED BY <2>1, <2>2
<1>9. Out' = Out
  BY <1>1 DEF Out
<1>10. Part' = Part
  <2>1. m_data_msg' \in Msgs
    BY <1>1, <1>2, <1>7
  <2>2. Part' = Pend(m_data_msg')
    BY <1>1, <2>1, Outside
  <2>3. CASE current = "control"
    BY <1>1, <1>2, <2>2, <2>3, PartOutside
  <2>4. CASE current # "control"
    <3>1. Part = NoPart
      BY <1>1, <1>2, <2>4 DEF Part, NoFrameYet
    <3> QED BY <1>1, <1>7, <2>2, <2>4, <3>1
  <2> QED BY <2>3, <2>4
<1>11. FramingTypes'
  <2>1. [op |-> Current.op, payload |-> Current.payload] \in Delivered
    BY <1>8 DEF Delivered, Msgs
  <2>2. got' \in Seq(Delivered)
    BY <1>1, <1>2, <2>1, AppendProperties
  <2>3. m_data_msg' \in Msgs /\ m_control_msg' \in Msgs
    BY <1>1, <1>2, <1>7
  <2> QED BY <1>1, <1>2, <2>2, <2>3 DEF FramingTypes
<1>12. AtBoundary'
  <2>1. buf' \o wire' \in Streams
    BY <1>1, <1>5
  <2>2. Unfinished(m_data_msg)'
    BY <1>8 DEF Unfinished, Decoded
  <2> QED BY <1>1, <2>1, <2>2 DEF AtBoundary
<1>13. FramingInv'
  BY <1>1, <1>11, <1>12 DEF FramingInv
<1>14. Stutters
  BY <1>1, <1>9, <1>10 DEF Stutters
<1> QED BY <1>13, <1>14

------------------------------------------------------------------------------
(* What is concluded *)

\* The initial state satisfies the invariant and maps to that of FrameStream.
LEMMA FramingStart ==
  ASSUME FramesFit, Init
  PROVE  FramingInv /\ Stream!Init
<1>1. <<>> \o <<>> = <<>> /\ <<>> \in Seq(WireBytes)
  BY ConcatEmptySeq
<1>2. <<>> \in Streams
  BY StreamsClosed DEF Closed
<1>3. NoMsg \in Msgs /\ Unfinished(NoMsg)
  <2>1. <<>> \in Seq(Chars) /\ 0 \in 0 .. 3
    OBVIOUS
  <2> QED BY <2>1 DEF NoMsg, Msgs, Utf8States, Unfinished
<1>4. FramingTypes
  BY <1>1, <1>3 DEF Init, FramingTypes
<1>5. AtBoundary
  BY <1>1, <1>2, <1>3 DEF Init, AtBoundary
<1>6. FramingInv
  BY <1>4, <1>5 DEF FramingInv, Init
<1>7. Stream!Init
  BY DEF Init, Stream!Init, Stream!NoMessage, NoFrameYet
<1> QED BY <1>6, <1>7

\* Every step keeps the invariant, and is one of FrameStream or none of it.
LEMMA FramingStep ==
  ASSUME FramingAssumption, FramesFit, FramingInv, [Next]_vars
  PROVE  FramingInv' /\ (FragmentsEnd => Stutters \/ Stream!Next)
<1>1. CASE \E g \in Frames : Send(g)
  BY <1>1, SendKeeps
<1>2. CASE Read
  BY <1>2, ReadKeeps
<1>3. CASE HeaderBasic
  BY <1>3, BasicKeeps
<1>4. CASE HeaderExtended
  BY <1>4, ExtendedKeeps
<1>5. CASE SetUpMessage
  BY <1>5, SetUpKeeps
<1>6. CASE PayloadBytes
  BY <1>6, PayloadKeeps
<1>7. CASE FinishFrame
  BY <1>7, FinishKeeps
<1>8. CASE GetMessage
  BY <1>8, DeliverKeeps
<1>9. CASE UNCHANGED vars
  <2>1. FramingInv'
    <3>1. FramingTypes' /\ (m_state' = "READY" => ec' = "none") /\ ec' = ec
      BY <1>9 DEF vars, header, FramingInv, FramingTypes
    <3>2. AtBoundary => AtBoundary'
      BY <1>9 DEF vars, header, AtBoundary, Unfinished, Decoded
    <3>3. ASSUME NEW f, NEW t, Reading(f, t) PROVE Reading(f, t)'
      <4>1. UNCHANGED <<b0, b1, ext, m_cursor, m_bytes_needed, m_state, buf, wire, current,
                        m_data_msg, m_control_msg>>
        BY <1>9 DEF vars, header
      <4>2. OneByte(f, t) => OneByte(f, t)'
        BY <4>1 DEF OneByte, Unfinished, Decoded
      <4>3. InHeader(f, t) => InHeader(f, t)'
        BY <4>1 DEF InHeader, Unfinished, Decoded, InOrder, Filled
      <4>4. HeaderRead(f) => HeaderRead(f)'
        BY <4>1 DEF HeaderRead, Filled
      <4>5. ASSUME NEW q, Holds(f, q) PROVE Holds(f, q)'
        BY <4>1, <4>5 DEF Holds, OfControl, OfData, Unfinished, Decoded
      <4>6. InPayload(f, t) => InPayload(f, t)'
        BY <4>1, <4>4, <4>5 DEF InPayload
      <4>7. AtEnd(f, t) => AtEnd(f, t)'
        BY <4>1, <4>4, <4>5 DEF AtEnd
      <4> QED BY <3>3, <4>2, <4>3, <4>6, <4>7 DEF Reading
    <3> QED BY <3>1, <3>2, <3>3 DEF FramingInv
  <2>2. Stutters
    BY <1>9 DEF vars, header, Stutters, Out, Current, Part, NoFrameYet, Before, PayloadSize
  <2> QED BY <2>1, <2>2
<1> QED BY <1>1, <1>2, <1>3, <1>4, <1>5, <1>6, <1>7, <1>8, <1>9 DEF Next, Consume

\* consume() always knows where in which frame it stands: for any frames a peer may
\* send, cut into pieces of any size, the bytes that are read and on the way are the
\* rest of the frame at hand and then whole frames, the header holds its first
\* bytes and the message those of its payload.
THEOREM FramesTrack ==
  FramingAssumption /\ FramesFit => (Spec => []FramingInv)
<1> SUFFICES ASSUME FramingAssumption, FramesFit PROVE Spec => []FramingInv
  OBVIOUS
<1>1. Init => FramingInv
  BY FramingStart
<1>2. FramingInv /\ [Next]_vars => FramingInv'
  BY FramingStep
<1> QED BY <1>1, <1>2, PTL DEF Spec

\* HeaderUnderstood (hybi13.hpp consume(), get_payload_size(), get_masking_key()): once
\* the payload is read, key and size are those the peer wrote, whatever the reads cut.
THEOREM HeadersUnderstood ==
  FramingAssumption /\ FramesFit => (Spec => []HeaderUnderstood)
<1> SUFFICES ASSUME FramingAssumption, FramesFit PROVE Spec => []HeaderUnderstood
  OBVIOUS
<1>1. FramingInv => HeaderUnderstood
  <2> SUFFICES ASSUME FramingInv, m_state = "APPLICATION", ec = "none"
               PROVE  KeyRead /\ b1.kind = "b1" /\ PayloadSize = b1.size
    BY DEF HeaderUnderstood
  <2>1. PICK f \in Frames, t \in Streams : InPayload(f, t)
    BY DEF FramingInv, AtBoundary, Reading, OneByte, InHeader, AtEnd
  <2>2. f \in FrameRecords /\ b1 = Byte1(f) /\ Filled(f, HeaderLen(Byte1(f)))
    BY <2>1 DEF InPayload, HeaderRead, FramesFit
  <2> QED BY <2>2, HeaderSays
<1> QED BY <1>1, FramesTrack, PTL

\* StreamPromise: consume() implements FrameStream. It delivers what the frames say one by
\* one, and ends the stream at a frame the protocol forbids. finalize_message() looks at
\* the opcode of the last frame only, hence FragmentsEnd.
THEOREM ImplementsStream ==
  FramingAssumption /\ FramesFit /\ FragmentsEnd => (Spec => StreamPromise)
<1> SUFFICES ASSUME FramingAssumption, FramesFit, FragmentsEnd PROVE Spec => StreamPromise
  OBVIOUS
<1>1. Init => Stream!Init
  BY FramingStart
<1>2. FramingInv /\ [Next]_vars => [Stream!Next]_<<
        IF m_state = "READY"
          THEN Append(got, [op |-> Current.op, payload |-> Current.payload]) ELSE got,
        IF NoFrameYet THEN [op |-> "none", payload |-> <<>>]
                      ELSE [op |-> m_data_msg.op, payload |-> Before],
        ec # "none">>
  <2>1. FramingInv /\ [Next]_vars => Stutters \/ Stream!Next
    BY FramingStep
  <2> QED BY <2>1 DEF Stutters, Out, Part, NoPart
<1> QED BY <1>1, <1>2, FramesTrack, PTL DEF Spec, StreamPromise, Stream!Spec

\* Frames that the library's own sender makes of whole messages.
WholeMessages ==
  [op : {"text", "binary"}, fin : {TRUE}, payload : {p \in Seq(Chars) : Len(p) <= MaxMessageSize}]
Prepared ==
  Frames \subseteq PrepareDataFrame(WholeMessages) \cup PrepareControl("ping", Seq(Chars))
                   \cup PrepareControl("pong", Seq(Chars)) \cup PrepareClose(Seq(Chars))

\* Such a frame fits its code, and may come whenever no message is unfinished.
LEMMA PreparedMayCome ==
  ASSUME FramingAssumption, Prepared, NEW f \in Frames
  PROVE  /\ f \in FrameRecords /\ f.fin /\ f.code = SizeCode(Len(f.payload))
         /\ MayCome(NoPart, f)
<1>1. CASE f \in PrepareDataFrame(WholeMessages)
  <2>1. PICK m \in WholeMessages : f = Frame(m.op, m.fin, IsServer, m.payload)
                                   /\ (m.op = "text" => Decode("accept", m.payload) = "accept")
    BY <1>1 DEF PrepareDataFrame
  <2>2. m.op \in {"text", "binary"} /\ m.fin = TRUE /\ m.payload \in Seq(Chars)
        /\ Len(m.payload) <= MaxMessageSize
    BY <2>1 DEF WholeMessages
  <2>3. /\ f.op = m.op /\ f.fin = TRUE /\ f.rsv = FALSE /\ f.masked = IsServer /\ f.payload = m.payload
        /\ f.code = SizeCode(Len(m.payload))
    BY <2>1, <2>2 DEF Frame
  <2>4. Whole(NoPart, f) = [op |-> m.op, payload |-> m.payload]
    BY <2>2, <2>3 DEF Whole
  <2>5. SizeCode(Len(m.payload)) \in Codes
    BY DEF SizeCode, Codes
  <2>6. f \in FrameRecords
    BY <2>1, <2>2, <2>5 DEF Frame, FrameRecords, Opcodes, FramingAssumption
  <2>7. f.op \notin Control
    BY <2>2, <2>3 DEF Control
  <2>8. MayCome(NoPart, f)
    BY <2>1, <2>2, <2>3, <2>4, <2>7 DEF MayCome
  <2> QED BY <2>3, <2>6, <2>8
<1>2. ASSUME NEW op \in Control, NEW p \in Seq(Chars), Len(p) <= BasicSize,
             f = Frame(op, TRUE, IsServer, p)
      PROVE  /\ f \in FrameRecords /\ f.fin /\ f.code = SizeCode(Len(f.payload))
             /\ MayCome(NoPart, f)
  <2>1. /\ f.op = op /\ f.fin = TRUE /\ f.rsv = FALSE /\ f.masked = IsServer /\ f.payload = p
        /\ f.code = SizeCode(Len(p))
    BY <1>2 DEF Frame
  <2>2. op \notin {"continuation", "text", "binary"}
    BY <1>2 DEF Control
  <2>3. Whole(NoPart, f).op # "text"
    BY <2>1, <2>2 DEF Whole
  <2>4. SizeCode(Len(p)) \in Codes
    BY DEF SizeCode, Codes
  <2>5. f \in FrameRecords
    BY <1>2, <2>4 DEF Frame, FrameRecords, Opcodes, FramingAssumption
  <2>6. MayCome(NoPart, f)
    BY <1>2, <2>1, <2>2, <2>3 DEF MayCome
  <2> QED BY <2>1, <2>5, <2>6
<1>3. ASSUME NEW op \in {"ping", "pong"}, f \in PrepareControl(op, Seq(Chars))
      PROVE  /\ f \in FrameRecords /\ f.fin /\ f.code = SizeCode(Len(f.payload))
             /\ MayCome(NoPart, f)
  <2>1. PICK p \in Seq(Chars) : Len(p) <= BasicSize /\ f = Frame(op, TRUE, IsServer, p)
    BY <1>3 DEF PrepareControl
  <2> QED BY <1>2, <2>1 DEF Control
<1>4. CASE f \in PrepareClose(Seq(Chars))
  <2>1. PICK p : /\ f = Frame("close", TRUE, IsServer, p)
                 /\ p = <<>> \/ \E r \in Seq(Chars) : Len(r) + 2 <= BasicSize /\ p = <<"code", "code">> \o r
    BY <1>4 DEF PrepareClose
  <2>2. p \in Seq(Chars) /\ Len(p) <= BasicSize
    <3>1. CASE p = <<>>
      BY <3>1 DEF FramingAssumption
    <3>2. ASSUME NEW r \in Seq(Chars), Len(r) + 2 <= BasicSize, p = <<"code", "code">> \o r
          PROVE  p \in Seq(Chars) /\ Len(p) <= BasicSize
      <4>1. <<"code", "code">> \in Seq(Chars) /\ Len(<<"code", "code">>) = 2
        BY DEF Chars
      <4>2. p \in Seq(Chars) /\ Len(p) = 2 + Len(r)
        BY <3>2, <4>1, ConcatProperties
      <4>3. Len(r) \in Nat
        BY <3>2, LenProperties
      <4> QED BY <3>2, <4>2, <4>3 DEF FramingAssumption
    <3> QED BY <2>1, <3>1, <3>2
  <2> QED BY <1>2, <2>1, <2>2 DEF Control
<1> QED BY <1>1, <1>3, <1>4 DEF Prepared

\* The library's frames fit their codes, and none is a fragment.
LEMMA PreparedFit ==
  ASSUME FramingAssumption, Prepared
  PROVE  FramesFit /\ FragmentsEnd
<1>1. ASSUME NEW f \in Frames
      PROVE  /\ f \in FrameRecords /\ f.op # "continuation"
             /\ f.code = "basic" => Len(f.payload) <= BasicSize
             /\ f.code = "16bit" => Len(f.payload) <= ExtendedSize
  <2>1. f \in FrameRecords /\ f.code = SizeCode(Len(f.payload)) /\ MayCome(NoPart, f)
    BY <1>1, PreparedMayCome
  <2>2. Len(f.payload) \in Nat /\ BasicSize \in Nat /\ ExtendedSize \in Nat
    BY <2>1, HeaderLens DEF FramingAssumption
  <2> QED BY <2>1, <2>2 DEF MayCome, SizeCode
<1> QED BY <1>1 DEF FramesFit, FragmentsEnd

\* Between two such frames no message is unfinished.
Accepted == Part = NoPart /\ ec = "none"

\* Nor does a step leave one unfinished, or refuse one.
LEMMA AcceptedKept ==
  ASSUME FramingAssumption, Prepared, Accepted, Stutters \/ Stream!Next
  PROVE  Accepted'
<1>1. CASE Stutters
  BY <1>1 DEF Accepted, Stutters
<1>2. CASE Stream!Next
  <2>1. PICK f \in Frames : Stream!Accept(Seen(f)) \/ Stream!Refuse(Seen(f))
    BY <1>2 DEF Stream!Next, Seen
  <2>2. f.fin /\ MayCome(NoPart, f)
    BY <2>1, PreparedMayCome
  <2>3. Part = NoPart /\ ec = "none"
    BY DEF Accepted
  <2>4. Whole(Part, Seen(f)) = Whole(Part, f) /\ Stream!MessageOf(Seen(f)) = Whole(Part, f)
    BY DEF Whole, Seen, Stream!MessageOf, Part, NoPart
  <2>5. Stream!Legal(Seen(f))
    BY <2>2, <2>3, <2>4, AbstractDecode
       DEF Stream!Legal, MayCome, Seen, Part, NoPart, Control, Stream!Control, Stream!NoMessage
  <2>6. Stream!Accept(Seen(f))
    BY <2>1, <2>5 DEF Stream!Refuse
  <2>7. Seen(f).fin
    BY <2>2 DEF Seen
  <2>8. (ec # "none")' = (ec # "none")
    BY <2>6 DEF Stream!Accept
  <2>9. Part' = NoPart
    BY <2>3, <2>6, <2>7 DEF Stream!Accept, Part, NoPart, Stream!NoMessage
  <2> QED BY <2>3, <2>8, <2>9 DEF Accepted
<1> QED BY <1>1, <1>2

\* SentIsAccepted: what prepare_data_frame(), prepare_control() and prepare_close() make is
\* never an error to the consume() of the other end, if no message is too big for it.
THEOREM PreparedAccepted == FramingAssumption /\ Prepared => (Spec => []SentIsAccepted)
<1> SUFFICES ASSUME FramingAssumption, Prepared PROVE Spec => []SentIsAccepted
  OBVIOUS
<1>1. FramesFit /\ FragmentsEnd
  BY PreparedFit
<1>2. Init => Accepted
  BY DEF Init, Accepted, Part, NoFrameYet
<1>3. FramingInv /\ Accepted /\ [Next]_vars => Accepted'
  BY <1>1, FramingStep, AcceptedKept
<1>4. Accepted => SentIsAccepted
  BY DEF Accepted, SentIsAccepted
<1> QED BY <1>1, <1>2, <1>3, <1>4, FramesTrack, PTL DEF Spec

\* Every text that was delivered, or is about to be, is complete.
TextsWhole == \A i \in 1 .. Len(Out) : Out[i].op = "text" => Decode("accept", Out[i].payload) = "accept"

\* What counts as delivered begins with what was.
LEMMA OutIs ==
  ASSUME FramingTypes
  PROVE  /\ Out \in Seq([op : Opcodes \cup {"none"}, payload : Seq(Chars)])
         /\ Len(got) <= Len(Out) /\ \A i \in 1 .. Len(got) : Out[i] = got[i]
<1> DEFINE D == [op : Opcodes \cup {"none"}, payload : Seq(Chars)]
           m == [op |-> Current.op, payload |-> Current.payload]
<1>1. Delivered \subseteq D
  BY DEF Delivered
<1>2. got \in Seq(Delivered)
  BY DEF FramingTypes
<1>3. got \in Seq(D)
  <2>1. \A i \in 1 .. Len(got) : got[i] \in D
    BY <1>1, <1>2
  <2>2. Len(got) \in Nat /\ got = [i \in 1 .. Len(got) |-> got[i]]
    BY <1>2
  <2> HIDE DEF D
  <2>3. got \in [1 .. Len(got) -> D]
    BY <2>1, <2>2
  <2> QED BY <2>2, <2>3, SeqDef
<1>4. m \in D
  BY DEF FramingTypes, Current, Msgs
<1> HIDE DEF D, m
<1>5. /\ Append(got, m) \in Seq(D) /\ Len(Append(got, m)) = Len(got) + 1
      /\ \A i \in 1 .. Len(got) : Append(got, m)[i] = got[i]
  BY <1>3, <1>4, AppendProperties
<1>6. Out = got \/ Out = Append(got, m)
  BY DEF Out, m
<1>7. Len(got) \in Nat
  BY <1>3, LenProperties
<1>8. D = [op : Opcodes \cup {"none"}, payload : Seq(Chars)]
  BY DEF D
<1>9. CASE Out = got
  BY <1>3, <1>7, <1>8, <1>9
<1>10. CASE Out = Append(got, m)
  <2>1. Out \in Seq(D) /\ Len(Out) = Len(got) + 1
    BY <1>5, <1>10
  <2>2. Len(got) <= Len(Out)
    BY <1>7, <2>1
  <2> QED BY <1>5, <1>8, <1>10, <2>1, <2>2
<1> QED BY <1>6, <1>9, <1>10

\* A step of FrameStream delivers no text cut off.
LEMMA TextsKept ==
  ASSUME FramingTypes, TextsWhole, Stutters \/ Stream!Next
  PROVE  TextsWhole'
<1>1. CASE Out' = Out
  BY <1>1 DEF TextsWhole
<1>2. CASE Stream!Next /\ Out' # Out
  <2>1. PICK f \in Frames : Stream!Accept(Seen(f))
    <3>1. PICK f \in Frames : Stream!Accept(Seen(f)) \/ Stream!Refuse(Seen(f))
      BY <1>2 DEF Stream!Next, Seen
    <3> QED BY <1>2, <3>1 DEF Stream!Refuse, Out
  <2> DEFINE m == Stream!MessageOf(Seen(f))
  <2>2. Out' = Append(Out, m) /\ Seen(f).fin /\ Stream!Legal(Seen(f))
    BY <1>2, <2>1 DEF Stream!Accept, Out
  <2>3. m.op = "text" => Decode("accept", m.payload) = "accept"
    BY <2>2, AbstractDecode DEF Stream!Legal
  <2> HIDE DEF m
  <2>4. /\ Len(Append(Out, m)) = Len(Out) + 1 /\ Append(Out, m)[Len(Out) + 1] = m
        /\ \A i \in 1 .. Len(Out) : Append(Out, m)[i] = Out[i]
    <3>1. PICK D : Out \in Seq(D)
      BY OutIs
    <3>2. Out \in Seq(D \cup {m}) /\ m \in D \cup {m}
      BY <3>1
    <3> QED BY <3>2, AppendProperties
  <2>5. Len(Out) \in Nat
    BY OutIs, LenProperties
  <2>6. ASSUME NEW i \in 1 .. Len(Out'), Out'[i].op = "text"
        PROVE  Decode("accept", Out'[i].payload) = "accept"
    <3>1. CASE i = Len(Out) + 1
      BY <2>2, <2>3, <2>4, <2>6, <3>1
    <3>2. CASE i # Len(Out) + 1
      <4>1. i \in 1 .. Len(Out)
        BY <2>2, <2>4, <2>5, <3>2
      <4>2. Out'[i] = Out[i]
        BY <2>2, <2>4, <4>1
      <4> QED BY <2>6, <4>1, <4>2 DEF TextsWhole
    <3> QED BY <3>1, <3>2
  <2> QED BY <2>6 DEF TextsWhole
<1> QED BY <1>1, <1>2 DEF Stutters

\* TextIsComplete (hybi13.hpp:545): a text that is handed over ends with a whole character.
\* Without FragmentsEnd it need not.
THEOREM TextsComplete ==
  FramingAssumption /\ FramesFit /\ FragmentsEnd => (Spec => []TextIsComplete)
<1> SUFFICES ASSUME FramingAssumption, FramesFit, FragmentsEnd PROVE Spec => []TextIsComplete
  OBVIOUS
<1>1. Init => TextsWhole
  BY DEF Init, TextsWhole, Out
<1>2. FramingInv /\ TextsWhole /\ [Next]_vars => TextsWhole'
  BY FramingStep, TextsKept DEF FramingInv
<1>3. FramingInv /\ TextsWhole => TextIsComplete
  <2> SUFFICES ASSUME FramingInv, TextsWhole, NEW i \in 1 .. Len(got), got[i].op = "text"
               PROVE  Decode("accept", got[i].payload) = "accept"
    BY DEF TextIsComplete
  <2>1. FramingTypes
    BY DEF FramingInv
  <2>2. Len(got) <= Len(Out) /\ Out[i] = got[i] /\ Len(got) \in Nat /\ Len(Out) \in Nat
    BY <2>1, OutIs, LenProperties DEF FramingTypes
  <2>3. i \in 1 .. Len(Out)
    BY <2>2
  <2> QED BY <2>2, <2>3 DEF TextsWhole
<1> QED BY <1>1, <1>2, <1>3, FramesTrack, PTL DEF Spec
==============================================================================
