-------------------------- MODULE InvertedHeightKey --------------------------
(***************************************************************************)
(* The keys of the two reverse indexes of blockprocessor.cpp, at the byte *)
(* level, on a little-endian host.                                         *)
(*                                                                         *)
(* BuildInversedHeightKey[Indexed] builds a std::tuple whose last element *)
(* is htobe32(UINT32_MAX - nMinedHeight).  The evoDB stores the tuple's   *)
(* serialization (a string is its length byte and its bytes, an LLMQType *)
(* one byte, an int or a uint32 its little-endian bytes) and LevelDB      *)
(* orders keys bytewise.  The iterators read a key back into the tuple    *)
(* (CDBIterator::GetKey) and compare tuples with std::tuple's operator<,  *)
(* which compares the byte-swapped number as it is held in memory.        *)
(*                                                                         *)
(* The height field is KeyBits wide.  uint32_t is 32 bits; TLC's integers *)
(* are 32-bit signed, so the runs use 16 bits, which has the same byte    *)
(* structure (more than one byte, a carry between bytes).                  *)
(***************************************************************************)
EXTENDS Integers, Sequences

CONSTANT KeyBits    \* width of the height field (uint32_t: 32)

ASSUME KeyBits % 8 = 0 /\ KeyBits >= 16

UintMax == 2^KeyBits - 1            \* std::numeric_limits<uint32_t>::max()
FieldBytes == KeyBits \div 8

\* Unsigned subtraction, modulo 2^KeyBits.
UintSub(a, b) == (a - b) % (UintMax + 1)

\* The n bytes of x, least / most significant first.
LEBytes(x, n) == [i \in 1..n |-> (x \div 2^(8 * (i - 1))) % 256]
BEBytes(x, n) == [i \in 1..n |-> (x \div 2^(8 * (n - i))) % 256]

\* The number whose little-endian bytes are s (ser_readdata32, le32toh).
RECURSIVE LEValue(_)
LEValue(s) == IF s = <<>> THEN 0 ELSE Head(s) + 256 * LEValue(Tail(s))

\* htobe32 and be32toh on a little-endian host: the bytes reversed.
Bswap(x) == LEValue(BEBytes(x, FieldBytes))

\* The namespace strings, as their ASCII bytes.
DB_MINED_COMMITMENT_BY_INVERSED_HEIGHT == <<113, 95, 109, 99, 105, 104>>                 \* "q_mcih"
DB_MINED_COMMITMENT_BY_INVERSED_HEIGHT_Q_INDEXED == <<113, 95, 109, 99, 105, 104, 105>>  \* "q_mcihi"

\* Mutant: the inverted height stored without htobe32.
InvertedFieldNoSwap(nMinedHeight) == UintSub(UintMax, nMinedHeight)

\* The inverted height as the tuple holds it.
InvertedField(nMinedHeight) == Bswap(UintSub(UintMax, nMinedHeight))

\* A key tuple: its string and the sequence of its numeric elements.
BuildInversedHeightKey(llmqType, nMinedHeight) ==
    [tag |-> DB_MINED_COMMITMENT_BY_INVERSED_HEIGHT,
     nums |-> <<llmqType, InvertedField(nMinedHeight)>>]

BuildInversedHeightKeyIndexed(llmqType, nMinedHeight, quorumIndex) ==
    [tag |-> DB_MINED_COMMITMENT_BY_INVERSED_HEIGHT_Q_INDEXED,
     nums |-> <<llmqType, quorumIndex, InvertedField(nMinedHeight)>>]

IsIndexedKey(k) == Len(k.nums) = 3

\* The bytes the evoDB stores for a key tuple (CDataStream << tuple).
Serialize(k) ==
    <<Len(k.tag)>> \o k.tag \o <<k.nums[1]>>
    \o (IF IsIndexedKey(k) THEN LEBytes(k.nums[2], 4) ELSE <<>>)
    \o LEBytes(k.nums[Len(k.nums)], FieldBytes)

\* Lexicographic order of two sequences of numbers: LevelDB's bytewise
\* comparator on keys, and std::string / std::tuple comparison on tuples.
RECURSIVE BytesLess(_, _)
BytesLess(a, b) ==
    IF a = <<>> THEN b # <<>>
    ELSE IF b = <<>> THEN FALSE
    ELSE \/ Head(a) < Head(b)
         \/ Head(a) = Head(b) /\ BytesLess(Tail(a), Tail(b))

\* std::tuple operator< on two key tuples of the same shape.
TupleLess(a, b) ==
    \/ BytesLess(a.tag, b.tag)
    \/ a.tag = b.tag /\ BytesLess(a.nums, b.nums)

\* CDBIterator::GetKey into a tuple of the flat or of the indexed shape:
\* it fails when the bytes run out; trailing bytes are ignored.
KeyParses(b, indexed) ==
    /\ b # <<>>
    /\ Len(b) >= b[1] + 2 + (IF indexed THEN 4 ELSE 0) + FieldBytes

ParseKey(b, indexed) ==
    LET o == b[1] + 2                               \* the type byte
        u == o + 1 + (IF indexed THEN 4 ELSE 0)     \* the height field
    IN [tag |-> SubSeq(b, 2, o - 1),
        nums |-> <<b[o]>>
                 \o (IF indexed THEN <<LEValue(SubSeq(b, o + 1, o + 4))>> ELSE <<>>)
                 \o <<LEValue(SubSeq(b, u, u + FieldBytes - 1))>>]

\* Mutant: the height decoded without be32toh.
DecodeNoSwap(k) == UintSub(UintMax, k.nums[Len(k.nums)])

\* nMinedHeight = UINT32_MAX - be32toh(std::get<..>(curKey)).
DecodeMinedHeight(k) == UintSub(UintMax, Bswap(k.nums[Len(k.nums)]))

=============================================================================
