-------------------------------- MODULE Lzs ---------------------------------
(***************************************************************************)
(* LZS compression of packets (lzs.c): the compressor's hash table and ring *)
(* of links, the bit encoding of literals, offsets and lengths, and the     *)
(* decompressor.  The widths are constants with the relations of the code:  *)
(* a literal has one byte, a short offset one bit less, a long one more.    *)
(***************************************************************************)
EXTENDS Integers, Sequences, SequencesExt

CONSTANTS
  LzByte,     \* bits of a byte (8)
  LzExtra,    \* bits a long offset has more than a short one (4)
  LzInputs,   \* packets: sequences of bytes
  LzMissing   \* bytes an output buffer is too small by

LzShort == LzByte - 1
LzLong == LzShort + LzExtra
MaxHistory == 2^LzLong
InvalidOfs == -1
Uninit == -2

VARIABLES
  lzSrc,    \* the packet
  lzPhase,  \* "compress", "flush", "decompress", "done", or an error
  lzPos,    \* inpos (from 0); decompressing: the next bit
  lzTable,  \* hash_table: the last position of two bytes
  lzChain,  \* hash_chain: the position before it, for the last positions
  lzBits,   \* what was put: bits
  lzOut,    \* the decompressed bytes
  lzRoom    \* dstlen of the decompressor

lzvars == <<lzSrc, lzPhase, lzPos, lzTable, lzChain, lzBits, lzOut, lzRoom>>

\* the n low bits of v, the high one first
BitsOf(n, v) == [i \in 1..n |-> (v \div 2^(n - i)) % 2]

PUT_BITS(bits, n, v) == bits \o BitsOf(n, v)

----------------------------- (* lzs_compress *) ----------------------------
Byte(p) == lzSrc[p + 1]
Srclen == Len(lzSrc)
HASH(p) == <<Byte(p), Byte(p + 1)>>
TableAt(table, h) == IF h \in DOMAIN table THEN table[h] ELSE InvalidOfs

Reachable(hofs, p) == hofs # InvalidOfs /\ hofs + MaxHistory > p

\* how far the bytes at p and at an earlier position agree, from len on
RECURSIVE Extend(_, _, _)
Extend(hofs, p, len) ==
  IF len + p = Srclen \/ Byte(len + p) # Byte(len + hofs) THEN len ELSE Extend(hofs, p, len + 1)

Agree(hofs, p, len) == \A i \in 2..len : Byte(hofs + i) = Byte(p + i)

\* the longest match in the history: its length and position
RECURSIVE Longest(_, _, _, _)
Longest(hofs, p, best, chain) ==
  IF ~Reachable(hofs, p) THEN best
  ELSE LET better == IF Agree(hofs, p, best[1]) THEN <<Extend(hofs, p, best[1] + 1), hofs>> ELSE best
       IN IF better[1] + p = Srclen THEN better
          ELSE Longest(chain[hofs % MaxHistory], p, better, chain)

PutOffset(bits, offset) ==
  IF offset < 2^LzShort THEN PUT_BITS(bits, LzShort + 2, 3 * 2^LzShort + offset)
  ELSE PUT_BITS(bits, LzLong + 2, 2 * 2^LzLong + offset)

RECURSIVE PutLong(_, _)
PutLong(bits, length) ==
  IF length >= 30 THEN PutLong(PUT_BITS(bits, 8, 255), length - 30)
  ELSE IF length >= 15 THEN PUT_BITS(bits, 8, 240 + length - 15)
  ELSE PUT_BITS(bits, 4, length)

\* Mutant: 8 is put as the short form's next value.
PutLengthLate(bits, length) ==
  IF length < 5 THEN PUT_BITS(bits, 2, length - 2)
  ELSE IF length <= 8 THEN PUT_BITS(bits, 4, length + 7)
  ELSE PutLong(bits, length + 7)

PutLength(bits, length) ==
  IF length < 5 THEN PUT_BITS(bits, 2, length - 2)
  ELSE IF length < 8 THEN PUT_BITS(bits, 4, length + 7)
  ELSE PutLong(bits, length + 7)

PutLiteral(bits, b) == PUT_BITS(bits, LzByte + 1, b)

\* the positions first..last enter the table and the ring
Enter(table, chain, first, last) ==
  LET step(acc, p) == <<(HASH(p) :> p) @@ acc[1], [acc[2] EXCEPT ![p % MaxHistory] = TableAt(acc[1], HASH(p))]>>
  IN FoldLeft(step, <<table, chain>>, [i \in 1..(last - first + 1) |-> first + i - 1])

Compressing == lzPhase = "compress" /\ lzPos < Srclen - 2

\* the two bytes were not seen before
Literal ==
  /\ Compressing /\ ~Reachable(TableAt(lzTable, HASH(lzPos)), lzPos)
  /\ LET e == Enter(lzTable, lzChain, lzPos, lzPos) IN lzTable' = e[1] /\ lzChain' = e[2]
  /\ lzBits' = PutLiteral(lzBits, Byte(lzPos))
  /\ lzPos' = lzPos + 1
  /\ UNCHANGED <<lzSrc, lzPhase, lzOut, lzRoom>>

\* a match; its other bytes enter the table, unless it ends the packet
Match ==
  /\ Compressing /\ Reachable(TableAt(lzTable, HASH(lzPos)), lzPos)
  /\ LET hofs == TableAt(lzTable, HASH(lzPos))
         first == Enter(lzTable, lzChain, lzPos, lzPos)
         best == Longest(hofs, lzPos, <<2, hofs>>, first[2])
         ends == lzPos + best[1] >= Srclen - 2
         all == IF ends THEN first ELSE Enter(first[1], first[2], lzPos + 1, lzPos + best[1] - 1)
     IN /\ lzBits' = PutLength(PutOffset(lzBits, lzPos - best[2]), best[1])
        /\ lzTable' = all[1] /\ lzChain' = all[2]
        /\ lzPos' = lzPos + best[1]
        /\ lzPhase' = IF ends THEN "flush" ELSE lzPhase
  /\ UNCHANGED <<lzSrc, lzOut, lzRoom>>

\* what is left: two bytes, one or none
Rest ==
  IF lzPos = Srclen - 2
  THEN LET hofs == TableAt(lzTable, HASH(lzPos))
       IN IF Reachable(hofs, lzPos) THEN PUT_BITS(PutOffset(lzBits, lzPos - hofs), 2, 0)
          ELSE PutLiteral(PutLiteral(lzBits, Byte(lzPos)), Byte(lzPos + 1))
  ELSE IF lzPos = Srclen - 1 THEN PutLiteral(lzBits, Byte(lzPos))
  ELSE lzBits

\* the end marker and zeros that bring it out
Marker(bits) == PUT_BITS(bits, 2 * LzByte, 3 * 2^(2 * LzByte - 2))

\* whole bytes only; a buffer that is too small is an error.  The packet is
\* then decompressed into a buffer that may be too small as well.
Flush(missing, missing2) ==
  /\ lzPhase = "flush" \/ (lzPhase = "compress" /\ lzPos >= Srclen - 2)
  /\ LET bits == Marker(Rest)
         whole == Len(bits) \div LzByte
     IN /\ lzBits' = SubSeq(bits, 1, whole * LzByte)
        /\ lzPhase' = IF missing > 0 THEN "EFBIG" ELSE "decompress"
  /\ lzPos' = 0
  /\ lzRoom' = IF missing > 0 THEN -1 ELSE Srclen - missing2
  /\ lzTable' = <<>> /\ lzChain' = <<>>
  /\ UNCHANGED <<lzSrc, lzOut>>

---------------------------- (* lzs_decompress *) ---------------------------
\* bytes left, the current one included
SrcLeft(pos) == Len(lzBits) \div LzByte - pos \div LzByte

ValueOf(bits) == FoldLeft(LAMBDA v, b : 2 * v + b, 0, bits)

\* GET_BITS: fewer than two bytes left is an error (-1)
GET_BITS(pos, n) == IF SrcLeft(pos) < 2 THEN -1 ELSE ValueOf(SubSeq(lzBits, pos + 1, pos + n))

\* for each nibble of ones 15 more
RECURSIVE Nibbles(_, _)
Nibbles(pos, length) ==
  LET v == GET_BITS(pos, 4)
  IN IF v = -1 THEN <<-1, pos>>
     ELSE IF v = 15 THEN Nibbles(pos + 4, length + 15)
     ELSE <<length + v, pos + 4>>

\* the length at a position, and the position after it
GetLength(pos) ==
  LET a == GET_BITS(pos, 2)
      b == GET_BITS(pos + 2, 2)
  IN IF a = -1 THEN <<-1, pos>>
     ELSE IF a # 3 THEN <<a + 2, pos + 2>>
     ELSE IF b = -1 THEN <<-1, pos>>
     ELSE IF b # 3 THEN <<b + 5, pos + 4>>
     ELSE Nibbles(pos + 4, 8)

Fails(error) == lzPhase' = error /\ UNCHANGED <<lzSrc, lzPos, lzTable, lzChain, lzBits, lzOut, lzRoom>>

\* the bytes offset back, one after the other: they may overlap
RECURSIVE Copied(_, _, _)
Copied(out, offset, length) ==
  IF length = 0 THEN out ELSE Copied(Append(out, out[Len(out) - offset + 1]), offset, length - 1)

GetToken ==
  /\ lzPhase = "decompress"
  /\ LET v == GET_BITS(lzPos, LzByte + 1)
         after == lzPos + LzByte + 1
         long == v < 3 * 2^LzShort
         x == GET_BITS(after, LzExtra)
         offset == IF long THEN (v % 2^LzShort) * 2^LzExtra + x ELSE v % 2^LzShort
         len == GetLength(IF long THEN after + LzExtra ELSE after)
     IN IF v = -1 THEN Fails("EINVAL")
        ELSE IF v < 2^LzByte
             THEN IF Len(lzOut) = lzRoom THEN Fails("EFBIG")
                  ELSE /\ lzOut' = Append(lzOut, v) /\ lzPos' = after
                       /\ UNCHANGED <<lzSrc, lzPhase, lzTable, lzChain, lzBits, lzRoom>>
        ELSE IF v = 3 * 2^LzShort
             THEN lzPhase' = "done" /\ UNCHANGED <<lzSrc, lzPos, lzTable, lzChain, lzBits, lzOut, lzRoom>>
        ELSE IF (long /\ x = -1) \/ len[1] = -1 \/ offset = 0 \/ offset > Len(lzOut) THEN Fails("EINVAL")
        ELSE IF len[1] + Len(lzOut) > lzRoom THEN Fails("EFBIG")
        ELSE /\ lzOut' = Copied(lzOut, offset, len[1]) /\ lzPos' = len[2]
             /\ UNCHANGED <<lzSrc, lzPhase, lzTable, lzChain, lzBits, lzRoom>>

-----------------------------------------------------------------------------
LzInit ==
  /\ lzSrc \in LzInputs
  /\ lzPhase = "compress"
  /\ lzPos = 0
  /\ lzTable = <<>>
  /\ lzChain = [i \in 0..(MaxHistory - 1) |-> Uninit]
  /\ lzBits = <<>> /\ lzOut = <<>> /\ lzRoom = 0

LzNext == Literal \/ Match \/ (\E m, n \in LzMissing : Flush(m, n)) \/ GetToken

\* Decompression gives back the packet that was compressed, and fails only
\* when the buffer is too small: matches that overlap themselves, lengths at
\* every change of their encoding, offsets at both ends of the history, and
\* the last two bytes included (lzs_compress, lzs_decompress).
RoundTrip ==
  /\ lzOut = SubSeq(lzSrc, 1, Len(lzOut))
  /\ (lzPhase = "done" => lzOut = lzSrc)
  /\ lzPhase # "EINVAL"
  /\ (lzPhase = "EFBIG" => lzRoom < Srclen)

\* "we can only ever follow links to it that have already been initialised":
\* every link that can be followed was written, leads further back, and to
\* the same two bytes (lzs.c, hash_chain).
LinksLeadBack ==
  lzPhase \in {"compress", "flush"} =>
    \A h \in DOMAIN lzTable : \A p \in 0..(lzPos - 1) :
      (p + MaxHistory > lzPos /\ p + 1 < Srclen /\ HASH(p) = h /\ lzTable[h] >= p) =>
        LET back == lzChain[p % MaxHistory]
        IN lzPhase = "flush" \/ (back # Uninit /\ back < p /\ (back # InvalidOfs => HASH(back) = h))

\* What is compressed is decompressed to itself, and the chains, which are not initialised,
\* only lead to earlier positions (lzs.c:218).
Lossless == RoundTrip /\ LinksLeadBack
=============================================================================
