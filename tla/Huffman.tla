------------------------------ MODULE Huffman ------------------------------
(***************************************************************************)
(* The Huffman tables of a lossless JPEG stream, and the differences read  *)
(* with them (src/src/decompress/ljpeg.rs).  Codes are of at most MaxBits  *)
(* (16) bits, and a table of the 2 ^ ByteBits (256) bytes finds the short  *)
(* ones at once.                                                           *)
(***************************************************************************)
EXTENDS BitReaders

CONSTANT DhtSegments      \* the counts and values of DHT segments

Bytes == 0 .. FF
Lengths == 1 .. MaxBits
DhtSegment == [bits : [Lengths -> Nat], huffval : Seq(Nat)]

ASSUME HuffmanAssumption ==
  /\ DhtSegments \subseteq DhtSegment
  /\ \A d \in DhtSegments : SumFunction(d.bits) = Len(d.huffval)

VARIABLES table,      \* the HuffmanTable
          last     \* the last difference: from which bit, its size, its value

huffVars == <<reader, table, last>>

(* HuffmanTable::default                                                   *)
DefaultTable ==
  [bits |-> [l \in Lengths |-> 0], huffval |-> <<>>, fixed |-> "not yet", defined |-> 0,
   mincode |-> [l \in Lengths |-> 0], maxcode |-> [l \in Lengths |-> 0],
   valptr |-> [l \in Lengths |-> 0],
   numbits |-> [b \in Bytes |-> 0], value |-> [b \in Bytes |-> 0]]

(* huffsize: the length of each code, in order.                            *)
HuffSize(t) == FlattenSeq([l \in Lengths |-> [i \in 1 .. t.bits[l] |-> l]])

(* huffcode: the codes themselves, one up from the last, and shifted when  *)
(* they get longer.                                                        *)
HuffCode(size) ==
  LET code[p \in DOMAIN size] ==
        IF p = 1 THEN 0 ELSE (code[p - 1] + 1) * 2 ^ (size[p] - size[p - 1])
  IN code

FirstOf(t, l) == SumFunctionOnSet(t.bits, 1 .. l - 1) + 1

fast_left(t) ==                \* mutant: the old lookups are left in place
  LET size == HuffSize(t) code == HuffCode(size)
      Finds(b) == {p \in DOMAIN size : /\ size[p] <= ByteBits
                                       /\ b \div 2 ^ (ByteBits - size[p]) = code[p]}
      Found(b) == Finds(b) # {}
  IN [numbits |-> [b \in Bytes |-> IF Found(b) THEN size[Max(Finds(b))] ELSE t.numbits[b]],
      value |-> [b \in Bytes |-> IF Found(b) THEN t.huffval[Max(Finds(b))] ELSE t.value[b]]]

(* The numbits and value tables: every byte that begins with a short code. *)
fast(t) ==
  LET size == HuffSize(t) code == HuffCode(size)
      Finds(b) == {p \in DOMAIN size : /\ size[p] <= ByteBits
                                       /\ b \div 2 ^ (ByteBits - size[p]) = code[p]}
      Found(b) == Finds(b) # {}
  IN [numbits |-> [b \in Bytes |-> IF Found(b) THEN size[Max(Finds(b))] ELSE 0],
      value |-> [b \in Bytes |-> IF Found(b) THEN t.huffval[Max(Finds(b))] ELSE t.value[b]]]

(* HuffmanTable::fix: what the scan needs, from the counts.  Lengths that  *)
(* have no code keep their old mincode and valptr.                         *)
fix(t) ==
  LET size == HuffSize(t)
      code == HuffCode(size)
      Has(l) == t.bits[l] > 0
      f == fast(t)
      overflows == \E p \in DOMAIN size : code[p] + 1 > 2 ^ MaxBits - 1
      invalid == \E p \in DOMAIN size :
                    size[p] <= ByteBits /\ code[p] * 2 ^ (ByteBits - size[p]) > FF
  IN [t EXCEPT
        !.fixed = IF overflows \/ invalid THEN "error" ELSE "ok",
        !.mincode = [l \in Lengths |-> IF Has(l) THEN code[FirstOf(t, l)] ELSE @[l]],
        !.maxcode = [l \in Lengths |->
                       IF Has(l) THEN code[FirstOf(t, l) + t.bits[l] - 1] ELSE -1],
        !.valptr = [l \in Lengths |-> IF Has(l) THEN FirstOf(t, l) ELSE @[l]],
        !.numbits = f.numbits, !.value = f.value]

(* get_dht: the counts, and as many values as they add up to.              *)
get_dht(t, d) ==
  [t EXCEPT !.bits = d.bits, !.defined = @ + 1,
            !.huffval = d.huffval \o SubSeq(@, Len(d.huffval) + 1, Len(@))]

Take(r, n) == CHOOSE q \in GetBits(r, n) : TRUE      \* one, for a JPEG reader

(* huff_decode: the reader after it, and the symbol.  No code at all ends  *)
(* at the sentinel, one bit past the longest, as symbol 0.                 *)
RECURSIVE LongCode(_, _, _, _)
LongCode(t, r, code, l) ==
  IF r.end # "no" THEN [reader |-> r, symbol |-> 0]
  ELSE IF l > MaxBits THEN [reader |-> r, symbol |-> 0]
  ELSE IF code <= t.maxcode[l]
    THEN [reader |-> r, symbol |-> t.huffval[t.valptr[l] + code - t.mincode[l]]]
    ELSE LET p == Peek(r, 1) IN
         IF p.end # "no" THEN [reader |-> p, symbol |-> 0]
         ELSE LongCode(t, consume(p, 1), 2 * code + p.left[1], l + 1)

huff_decode(t, r) ==
  LET p == Peek(r, ByteBits)
      code == ValueOf(Peeked(p, ByteBits))
  IN CASE p.end # "no" -> [reader |-> p, symbol |-> 0]
       [] p.end = "no" /\ t.numbits[code] # 0 ->
            [reader |-> consume(p, t.numbits[code]), symbol |-> t.value[code]]
       [] OTHER -> LongCode(t, consume(p, ByteBits), code, ByteBits)

(* Figure F.12: the sign of a difference of s bits.                        *)
extend(x, s) == IF x < 2 ^ (s - 1) THEN x - 2 ^ s + 1 ELSE x

(* "Section F.2.2.1: decode the difference": a size and that many bits.    *)
Difference(t, r) ==
  LET h == huff_decode(t, r)
      s == h.symbol
      p == Peek(h.reader, s)
      bits == Peeked(p, s)
  IN CASE h.reader.end # "no" \/ s = 0 -> [reader |-> h.reader, s |-> s, d |-> 0]
       [] h.reader.end = "no" /\ s > MaxBits ->
            [reader |-> Ends(h.reader, "error"), s |-> s, d |-> 0]
       [] OTHER -> [reader |-> Take(h.reader, s), s |-> s,
                    d |-> IF p.end = "no" THEN extend(ValueOf(bits), s) ELSE 0]

-----------------------------------------------------------------------------
Nothing == [from |-> 0, s |-> -1, d |-> 0]

HuffInit ==
  /\ BitsInit
  /\ table = DefaultTable
  /\ last = Nothing

(* A DHT segment, possibly for a table that has been used, and the fix of  *)
(* the scan that uses it.  An error ends the picture.                      *)
DefineTable ==
  /\ reader.kind = "jpeg" /\ reader.pos = 0 /\ reader.taken = 0
  /\ table.defined < 2 /\ table.fixed # "error"
  /\ \E d \in DhtSegments : table' = fix(get_dht(table, d))
  /\ UNCHANGED <<reader, last>>

DecodeDifference ==
  /\ reader.kind = "jpeg" /\ reader.end = "no" /\ reader.taken < MaxTaken
  /\ table.fixed = "ok"
  /\ LET diff == Difference(table, reader)
     IN /\ reader' = diff.reader
        /\ last' = [from |-> reader.taken, s |-> diff.s, d |-> diff.d]
  /\ UNCHANGED table

(* Whatever else reads from the stream has nothing to do with the table.   *)
OtherReads ==
  /\ table = DefaultTable
  /\ BitsStep
  /\ last' = Nothing
  /\ UNCHANGED table

HuffStep == DefineTable \/ DecodeDifference \/ OtherReads

HuffSpec == HuffInit /\ [][HuffStep]_huffVars

-----------------------------------------------------------------------------
HuffTypeOK ==
  /\ BitsTypeOK
  /\ table.fixed \in {"not yet", "ok", "error"}
  /\ table.maxcode \in [Lengths -> -1 .. 2 ^ MaxBits - 1]
  /\ table.numbits \in [Bytes -> 0 .. ByteBits]
  /\ last.s \in Nat \cup {-1} /\ last.d \in Int

(* What the codes are: of its length, each is the first word in order that *)
(* no code before it begins.                                               *)
ReferenceCode(t) ==
  LET size == HuffSize(t)
      code[p \in DOMAIN size] ==
        Min({w \in 0 .. 2 ^ size[p] - 1 :
               \A q \in 1 .. p - 1 : w \div 2 ^ (size[p] - size[q]) # code[q]})
  IN code

(* Each difference is read from exactly its bits: the one code of the      *)
(* table the stream goes on with, then as many bits as its symbol says,    *)
(* which are the difference, or the difference less one, in two's          *)
(* complement (fix, huff_decode, extend; the tables may be defined again). *)
DifferencesAreTheirBits ==
  LET bits == Stream(reader)
      size == HuffSize(table)
      from == last.from
      Word(at, n) == ValueOf(SubSeq(bits, at + 1, at + n))
      Next == {p \in DOMAIN size : Word(from, size[p]) = ReferenceCode(table)[p]}
      long == IF Next = {} THEN MaxBits + 1 ELSE size[CHOOSE p \in Next : TRUE]
      s == last.s
      d == last.d
  IN last.s >= 0 /\ reader.end = "no" =>
       /\ s = IF Next = {} THEN 0 ELSE table.huffval[CHOOSE p \in Next : TRUE]
       /\ reader.taken = from + long + s
       /\ IF s = 0 THEN d = 0
                   ELSE /\ (IF d < 0 THEN -d ELSE d) \in 2 ^ (s - 1) .. 2 ^ s - 1
                        /\ Word(from + long, s) = (IF d < 0 THEN d - 1 ELSE d) % 2 ^ s
=============================================================================
