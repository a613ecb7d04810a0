-------------------------------- MODULE Wire --------------------------------
(***************************************************************************)
(* The wire format of the generated protobuf code                          *)
(* (module/types/optimism.pb.go, module/config/config.pb.go): how a field  *)
(* is written, how many bytes it takes, and how the three kinds of         *)
(* elements a decoder meets are read.  A buffer is a sequence of bytes and *)
(* an index counts the bytes before it, as iNdEx does.                     *)
(*                                                                         *)
(* Reading yields a set: the one result, or none if the code returns an    *)
(* error.                                                                  *)
(***************************************************************************)
EXTENDS Integers, Sequences, SequencesExt, FiniteSetsExt

CONSTANTS
  Word,  \* width of uint64 and int, 64
  Half   \* width of uint32 and int32, 32

ASSUME WireAssumption ==
  /\ Word \in Nat /\ Word >= 8  \* a byte is a word
  /\ Half \in 5..Word           \* and the field number of a tag of one byte a positive int32

Byte == 0..255

\* 1 << n
Pow2 ==
  LET pow[n \in 0..Word] == IF n = 0 THEN 1 ELSE 2 * pow[n - 1]
  IN  [n \in 0..Word |-> pow[n]]

\* The values of uint64 and uint32.
Uint64Values == 0..(Pow2[Word] - 1)
Uint32Values == 0..(Pow2[Half] - 1)

\* A word of width w taken as a signed integer.
Signed(x, w) == IF x >= Pow2[w - 1] THEN x - Pow2[w] ELSE x

\* Addition of two ints.
Wrap(x) == Signed(x % Pow2[Word], Word)

-----------------------------------------------------------------------------
(* Writing.                                                                *)

\* math_bits.Len64: as many bits as there are powers of two up to x.
Len64(x) == Cardinality({n \in 0..(Word - 1) : x >= Pow2[n]})

\* Faulty variant (Stable): the "| 1" of the source is missing, zero takes no byte.
SovZero(x) == (Len64(x) + 6) \div 7

\* The number of bytes of a varint; x | 1 differs from x in length only for zero.
Sov(x) == (Len64(IF x = 0 THEN 1 ELSE x) + 6) \div 7

\* What is left of v after i groups of seven bits.
Rest(v, i) == v \div Pow2[7 * i]

\* encodeVarint: groups of seven bits, low ones first, in the space Sov allots.
Varint(v) ==
  [i \in 1..Sov(v) |-> IF Rest(v, i - 1) >= 128 THEN 128 + (Rest(v, i - 1) % 128)
                       ELSE Rest(v, i - 1)]

Delimited(tag, bytes) == <<tag>> \o Varint(Len(bytes)) \o bytes

\* A slice: one delimited element after the other.
Delimiteds(tag, elements) == FlattenSeq([i \in DOMAIN elements |-> Delimited(tag, elements[i])])

BytesField(tag, bytes) == IF Len(bytes) > 0 THEN Delimited(tag, bytes) ELSE <<>>
UintField(tag, v) == IF v # 0 THEN <<tag>> \o Varint(v) ELSE <<>>
BoolField(tag, b) == IF b THEN <<tag, 1>> ELSE <<>>

\* A pointer to a message, or a slice of them: a nil pointer is the empty sequence.
MessageField(tag, messages, Marshal(_)) ==
  Delimiteds(tag, [i \in DOMAIN messages |-> Marshal(messages[i])])

\* A map, its entries in the order of the keys given.
MapField(tag, map, order) ==
  Delimiteds(tag, [i \in DOMAIN order |->
    Delimited(\h0a, order[i]) \o <<\h10>> \o Varint(map[order[i]])])

-----------------------------------------------------------------------------
(* Sizes, which the generated code computes on its own.                    *)

DelimitedSize(l) == 1 + l + Sov(l)
DelimitedsSize(elements, SizeOf(_)) ==
  SumFunction([i \in DOMAIN elements |-> DelimitedSize(SizeOf(elements[i]))])
BytesSize(bytes) == IF Len(bytes) > 0 THEN DelimitedSize(Len(bytes)) ELSE 0
UintSize(v) == IF v # 0 THEN 1 + Sov(v) ELSE 0
BoolSize(b) == IF b THEN 2 ELSE 0
MapSize(map) ==
  SumFunction([k \in DOMAIN map |-> DelimitedSize(DelimitedSize(Len(k)) + 1 + Sov(map[k]))])

-----------------------------------------------------------------------------
(* Reading, from index at of a buffer.                                     *)

\* The bytes that may end a varint: shift stays below the width of a word.
VarintEnds(data, at) ==
  {i \in (at + 1)..Min({Len(data), at + (Word + 6) \div 7}) : data[i] < 128}

\* The groups of seven bits of the bytes after at up to i.
Groups(data, at, i) ==
  SumFunction([j \in (at + 1)..i |-> (data[j] % 128) * Pow2[7 * (j - at - 1)]])

\* Faulty variant (TypeOK): bits shifted out of the word are kept.
ReadVarintWide(data, at) ==
  {[value |-> Groups(data, at, i), at |-> i] :
     i \in {j \in VarintEnds(data, at) : \A k \in VarintEnds(data, at) : j <= k}}

ReadVarint(data, at) ==
  {[value |-> Groups(data, at, i) % Pow2[Word], at |-> i] :
     i \in {j \in VarintEnds(data, at) : \A k \in VarintEnds(data, at) : j <= k}}

\* Field number and wire type.
ReadTag(data, at) ==
  {[num |-> Signed((w.value \div 8) % Pow2[Half], Half), type |-> w.value % 8, at |-> w.at] :
     w \in ReadVarint(data, at)}

\* Faulty variant (CutIsPartial): a length that runs over the end is cut short.
ReadDelimitedClamped(data, at) ==
  {[from |-> n.at, post |-> Min({Wrap(n.at + Signed(n.value, Word)), Len(data)})] :
     n \in {r \in ReadVarint(data, at) : Signed(r.value, Word) >= 0 /\ Wrap(r.at + r.value) >= 0}}

\* A length and the bytes it counts: from iNdEx to postIndex.
ReadDelimited(data, at) ==
  {d \in {[from |-> n.at, post |-> Wrap(n.at + Signed(n.value, Word))] :
            n \in {r \in ReadVarint(data, at) : Signed(r.value, Word) >= 0}} :
     d.post >= 0 /\ d.post <= Len(data)}

Slice(data, d) == SubSeq(data, d.from + 1, d.post)

\* The bitwise or of two words.
Or(a, b) ==
  SumFunction([i \in 0..(Word - 1) |->
    IF (a \div Pow2[i]) % 2 = 1 \/ (b \div Pow2[i]) % 2 = 1 THEN Pow2[i] ELSE 0])
=============================================================================
