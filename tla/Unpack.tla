------------------------------- MODULE Unpack -------------------------------
(***************************************************************************)
(* Values of 10, 12 or 14 bits packed in bytes (src/src/decompress.rs).    *)
(* Two bits are the least that is told apart: a byte is four of them, and  *)
(* they are named <<pixel, place in its value>>, the highest first, so     *)
(* that a run stands for every picture of its size.                        *)
(***************************************************************************)
EXTENDS Integers, Sequences, FiniteSetsExt

CONSTANTS Packings    \* bpc, compression, endian, width, height, byte_len, bytes

Compressions == {"None", "NikonPack", "PentaxPack", "Olympus", "PanasonicRaw1"}
Packing ==
  [bpc : {8, 10, 12, 14}, compression : Compressions, endian : {"little", "big"},
   width : Nat, height : Nat, byte_len : Nat, bytes : Nat]

ASSUME UnpackAssumption == Packings \subseteq Packing

VARIABLES packing,
          fetched,      \* bytes
          out_data,
          unpacked      \* "no", "ok" or "error"

unpackVars == <<packing, fetched, out_data, unpacked>>

Padded == {"NikonPack", "Olympus", "PanasonicRaw1"}
BigEndian == \/ packing.compression \in {"NikonPack", "PentaxPack"}
             \/ packing.compression = "None" /\ packing.endian = "big"

-----------------------------------------------------------------------------
(* What the file holds, by the layout of each packing: rows of whole bytes,*)
(* and a byte of padding after ten pixels where there is padding.  Places  *)
(* and lengths are of two bits: a pair of 12 bits takes 12 of them.        *)
Value(p) == [i \in 1 .. packing.bpc \div 2 |-> <<p, i>>]

Pair(p, q) == IF BigEndian
              THEN Value(p) \o Value(q)
              ELSE SubSeq(Value(p), 3, 6) \o SubSeq(Value(q), 5, 6)
                     \o SubSeq(Value(p), 1, 2) \o SubSeq(Value(q), 1, 4)

RowLen == IF packing.bpc # 12 THEN packing.width * (packing.bpc \div 2)
          ELSE 12 * (packing.width \div 2)
                 + (IF packing.compression \in Padded THEN 4 * (packing.width \div 10) ELSE 0)

OfPairs(first, group, i) ==
  LET p == first + 10 * group + 2 * (i \div 12)
  IN IF i < 60 THEN Pair(p + 1, p + 2)[(i % 12) + 1] ELSE <<"pad">>

PackedRow(r) ==
  LET first == r * packing.width
      n == packing.bpc \div 2
      group == IF packing.compression \in Padded THEN 64 ELSE 60
  IN IF packing.bpc = 12
     THEN [i \in 1 .. RowLen |-> OfPairs(first, (i - 1) \div group, (i - 1) % group)]
     ELSE [i \in 1 .. RowLen |-> Value(first + ((i - 1) \div n) + 1)[((i - 1) % n) + 1]]

File == [i \in 1 .. packing.height * RowLen |->
           PackedRow((i - 1) \div RowLen)[((i - 1) % RowLen) + 1]]

(* The rows fill whole bytes, and whole groups where there is padding.     *)
RowsPackEvenly ==
  packing.width % (IF packing.bpc # 12 THEN 4
                   ELSE IF packing.compression \in Padded THEN 10 ELSE 2) = 0

-----------------------------------------------------------------------------
(* block_size of unpack_from_reader: the bytes of one row.                 *)
block_size ==
  CASE packing.bpc = 10 -> (packing.width \div 4) * 5
    [] packing.bpc = 14 -> (packing.width \div 4) * 7
    [] OTHER -> (packing.width \div 2) * 3
                  + (IF packing.compression \in Padded THEN packing.width \div 10 ELSE 0)

Byte(b, i) == SubSeq(b, 4 * i + 1, 4 * i + 4)
HighHalf(c) == SubSeq(c, 1, 2)
LowHalf(c) == SubSeq(c, 3, 4)
NotPossible == [ok |-> FALSE, values |-> <<>>]

(* unpack_bento16: `width' values in a row, an error if the block ends.    *)
unpack_bento16(block, n) ==
  IF packing.width * n > Len(block) THEN NotPossible
  ELSE [ok |-> TRUE,
        values |-> [i \in 1 .. packing.width |-> SubSeq(block, (i - 1) * n + 1, i * n)]]

PadsAreData(len) ==            \* mutant: the padding is taken for data
  [t \in 1 .. len \div 3 |-> 3 * (t - 1)]

(* unpack_be12to16 and unpack_le12to16: where they take three bytes to make*)
(* two values; after five times three the padding is left out.             *)
Sources(len) ==
  LET pad == IF packing.compression \in Padded THEN 1 ELSE 0
      n == len \div (15 + pad)
      rest == len % (15 + pad)
  IN [t \in 1 .. 5 * n + rest \div 3 |-> 3 * (t - 1) + pad * ((t - 1) \div 5)]

BadRest(len) == IF packing.compression \in Padded THEN len % 16 # 0 ELSE (len % 15) % 3 # 0

BigTwo(b, s) ==
  <<Byte(b, s) \o HighHalf(Byte(b, s + 1)), LowHalf(Byte(b, s + 1)) \o Byte(b, s + 2)>>
LittleTwo(b, s) ==
  <<LowHalf(Byte(b, s + 1)) \o Byte(b, s), Byte(b, s + 2) \o HighHalf(Byte(b, s + 1))>>

UnpackBlock(block) ==
  LET len == Len(block) \div 4
      src == Sources(len)
  IN CASE packing.bpc # 12 -> unpack_bento16(block, packing.bpc \div 2)
       [] packing.bpc = 12 /\ BadRest(len) -> NotPossible
       [] OTHER -> [ok |-> TRUE,
                    values |-> [i \in 1 .. 2 * Len(src) |->
                      LET s == src[((i - 1) \div 2) + 1]
                      IN (IF BigEndian THEN BigTwo(block, s) ELSE LittleTwo(block, s))
                           [((i - 1) % 2) + 1]]]

-----------------------------------------------------------------------------
UnpackInit ==
  /\ packing \in Packings
  /\ fetched = 0 /\ out_data = <<>> /\ unpacked = "no"

ByteLen == Min({packing.byte_len, block_size * packing.height})
Here == SubSeq(File, 4 * fetched + 1, 4 * (fetched + block_size))

Finish(how) ==
  /\ unpacked' = how
  /\ UNCHANGED <<packing, fetched, out_data>>

InvalidBpc == packing.bpc \notin {10, 12, 14} /\ Finish("error")

(* read_exact of a block the file does not have.                           *)
EndOfFile ==
  /\ packing.bpc \in {10, 12, 14}
  /\ fetched < ByteLen /\ fetched + block_size > packing.bytes
  /\ Finish("error")

ReadBlock ==
  /\ packing.bpc \in {10, 12, 14}
  /\ fetched < ByteLen /\ fetched + block_size <= packing.bytes
  /\ LET values == UnpackBlock(Here) IN
     IF values.ok
     THEN /\ fetched' = fetched + block_size
          /\ out_data' = out_data \o values.values
          /\ UNCHANGED <<packing, unpacked>>
     ELSE Finish("error")

AllRead == packing.bpc \in {10, 12, 14} /\ fetched >= ByteLen /\ Finish("ok")

UnpackStep ==
  /\ unpacked = "no"
  /\ InvalidBpc \/ EndOfFile \/ ReadBlock \/ AllRead

UnpackSpec == UnpackInit /\ [][UnpackStep]_unpackVars

-----------------------------------------------------------------------------
UnpackTypeOK ==
  /\ fetched \in Nat /\ unpacked \in {"no", "ok", "error"}
  /\ \A i \in DOMAIN out_data : Len(out_data[i]) = packing.bpc \div 2

(* Where rows fill whole bytes, each value comes out whole, in its place,  *)
(* and of no other bits, whatever the packing; and the rows asked for are  *)
(* all there, or it is an error (unpack_from_reader and what it calls).    *)
ValuesAreWherePacked ==
  RowsPackEvenly =>
    /\ \A i \in DOMAIN out_data : out_data[i] = Value(i)
    /\ unpacked = "ok" /\ packing.byte_len >= block_size * packing.height
         => Len(out_data) = packing.width * packing.height
=============================================================================
