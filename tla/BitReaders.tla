----------------------------- MODULE BitReaders -----------------------------
(***************************************************************************)
(* The bit readers of the decompressors (src/src/decompress/bit_reader.rs):*)
(* over big and little endian words, and over the bytes of a JPEG stream,  *)
(* with its stuffed bytes and markers.  A byte has ByteBits bits and a     *)
(* word WordBytes bytes (8 and 4 in the code; a u64 holds two words).      *)
(* `bits' and `bits_left' are `left', the bits left, the oldest first.     *)
(***************************************************************************)
EXTENDS Integers, Sequences, SequencesExt

CONSTANTS ByteBits, WordBytes, BitBuffers,
          MaxTaken             \* the most bits a caller takes

ASSUME BitReadersAssumption ==
  /\ ByteBits \in Nat \ {0, 1} /\ WordBytes \in Nat \ {0, 1, 2}
  /\ MaxTaken \in Nat
  /\ BitBuffers \subseteq Seq(0 .. 2 ^ ByteBits - 1)

FF == 2 ^ ByteBits - 1
BitsPerLong == ByteBits * WordBytes
MinGetBits == BitsPerLong - (ByteBits - 1)
MaxBits == 2 * ByteBits                    \* of one get_bits: 16

(* A reader is [kind, buf, pos, left, end]; `end' says how it stopped:     *)
(* "error" was returned, "panic" ends the caller.  Only the properties     *)
(* read `from' and `taken': how many bits were consumed since which byte.  *)
NewReader(kind, buf) ==
  [kind |-> kind, buf |-> buf, pos |-> 0, left |-> <<>>, end |-> "no",
   from |-> 0, taken |-> 0]

BitsOf(c, n) == [i \in 1 .. n |-> (c \div 2 ^ (n - i)) % 2]
ValueOf(bits) == FoldLeft(LAMBDA v, b : 2 * v + b, 0, bits)

Ends(r, how) == [r EXCEPT !.end = how]
ByteAt(r, i) == r.buf[i + 1]

(* LJpegBitReader::read_u8, and the one at the head of fill_bit_buffer:    *)
(* past the end of the buffer they panic.                                  *)
read_u8(r) ==
  IF r.pos < Len(r.buf) THEN [r EXCEPT !.pos = @ + 1, !.from = r.pos + 1]
                        ELSE Ends(r, "panic")

discard(r) == [r EXCEPT !.left = <<>>, !.from = r.pos, !.taken = 0]

Load(r, c, n) == [r EXCEPT !.left = @ \o BitsOf(c, ByteBits), !.pos = @ + n]

FillPastMarker(r) ==           \* mutant: the marker is not put back
  LET two == r.pos + 1 < Len(r.buf) IN
  CASE r.pos >= Len(r.buf)                     -> Ends(r, "panic")
    [] ByteAt(r, r.pos) # FF                   -> Load(r, ByteAt(r, r.pos), 1)
    [] ByteAt(r, r.pos) = FF /\ ~two           -> Ends(r, "panic")
    [] OTHER -> Load(r, IF ByteAt(r, r.pos + 1) = 0 THEN FF ELSE 0, 2)

(* One turn of the loop of fill_bit_buffer.  A stuffed zero after FF is    *)
(* dropped; anything else after FF is a marker: it is put back, and zeros  *)
(* stand in if the bits left are not more than those asked for.            *)
FillOnce(r) ==
  LET two == r.pos + 1 < Len(r.buf) IN
  CASE r.pos >= Len(r.buf)                     -> Ends(r, "panic")
    [] ByteAt(r, r.pos) # FF                   -> Load(r, ByteAt(r, r.pos), 1)
    [] ByteAt(r, r.pos) = FF /\ ~two           -> Ends(r, "panic")
    [] OTHER -> IF ByteAt(r, r.pos + 1) = 0 THEN Load(r, FF, 2) ELSE Load(r, 0, 0)

AtMarker(r) ==
  /\ r.pos + 1 < Len(r.buf)
  /\ ByteAt(r, r.pos) = FF /\ ByteAt(r, r.pos + 1) # 0

fill_bit_buffer(r, nbits) ==
  LET RECURSIVE Fill(_)
      Fill(q) == IF \/ q.end # "no"
                    \/ Len(q.left) >= MinGetBits
                    \/ AtMarker(q) /\ Len(q.left) > nbits
                 THEN q ELSE Fill(FillOnce(q))
  IN Fill(r)

(* read_u32 of the two other readers: an error at the end of the data.     *)
LoadWord(r) ==
  IF r.pos + WordBytes > Len(r.buf) THEN Ends(r, "error")
  ELSE LET word == SubSeq(r.buf, r.pos + 1, r.pos + WordBytes)
           bytes == IF r.kind = "be" THEN word ELSE Reverse(word)
       IN [r EXCEPT !.left = @ \o FlattenSeq([i \in DOMAIN bytes |-> BitsOf(bytes[i], ByteBits)]),
                    !.pos = @ + WordBytes]

(* The reader after peek(nbits), and what peek returns of it.              *)
Peek(r, nbits) ==
  CASE Len(r.left) >= nbits -> r
    [] r.kind = "jpeg"      -> fill_bit_buffer(r, nbits)
    [] OTHER                -> LoadWord(r)

Peeked(r, nbits) == SubSeq(r.left, 1, nbits)

consume(r, nbits) ==
  [r EXCEPT !.left = SubSeq(@, nbits + 1, Len(@)), !.taken = @ + nbits]

(* get_bits consumes even when peek failed.  The little endian reader      *)
(* keeps to what it has; in the others the subtraction overflows, which    *)
(* panics in a build that checks it, and then the error is not returned.   *)
GetBits(r, nbits) ==
  IF nbits > MaxBits THEN {Ends(r, "error")}
  ELSE LET p == Peek(r, nbits) IN
       CASE p.end = "no" -> {consume(p, nbits)}
         [] p.end = "error" /\ r.kind = "be" -> {p, Ends(p, "panic")}
         [] OTHER -> {p}

(* consume_zerobits: batches of leading zeros, until a batch has a one;    *)
(* the unwrap of an error of peek panics.                                  *)
NumBits == MaxBits - 1

LeadingZeros(bits) == IF \E i \in DOMAIN bits : bits[i] = 1
                      THEN (CHOOSE i \in DOMAIN bits : bits[i] = 1
                                       /\ \A j \in 1 .. i - 1 : bits[j] = 0) - 1
                      ELSE Len(bits)

RECURSIVE ConsumeZeroBits(_)
ConsumeZeroBits(r) ==
  LET p == Peek(r, NumBits)
      n == LeadingZeros(Peeked(p, NumBits))
  IN IF p.end # "no" THEN Ends(p, "panic")
     ELSE IF n # NumBits THEN consume(p, n)
     ELSE ConsumeZeroBits(consume(p, n))

-----------------------------------------------------------------------------
(* Any caller of one reader.                                               *)
VARIABLE reader

BitsInit ==
  \E kind \in {"be", "le", "jpeg"}, buf \in BitBuffers : reader = NewReader(kind, buf)

CallPeek == \E n \in 1 .. MaxBits : reader' = Peek(reader, n)

CallGetBits == \E n \in 0 .. MaxBits + 1 : reader' \in GetBits(reader, n)

CallZeroBits ==
  /\ reader.kind = "be"
  /\ reader' = ConsumeZeroBits(reader)

(* discard and then the bytes of a marker, as process_restart reads them.  *)
Discard ==
  /\ reader.kind = "jpeg"
  /\ reader' = discard(reader)

ReadByte ==
  /\ reader.kind = "jpeg" /\ reader.left = <<>> /\ reader.taken = 0
  /\ reader' = read_u8(reader)

BitsStep ==
  /\ reader.end = "no" /\ reader.taken < MaxTaken
  /\ CallPeek \/ CallGetBits \/ CallZeroBits \/ Discard \/ ReadByte

BitsSpec == BitsInit /\ [][BitsStep]_reader

-----------------------------------------------------------------------------
BitsTypeOK ==
  /\ reader.left \in Seq({0, 1})
  /\ reader.pos \in 0 .. Len(reader.buf)
  /\ reader.end \in {"no", "error", "panic"}
  /\ reader.from \in 0 .. reader.pos /\ reader.taken \in Nat

(* The first marker of a JPEG stream at or after a place: FF and a byte    *)
(* that is not zero, where the FF is not itself the byte after an FF that  *)
(* is read as data.                                                        *)
RECURSIVE MarkerFrom(_, _)
MarkerFrom(buf, p) ==
  CASE p + 1 >= Len(buf) -> Len(buf)
    [] buf[p + 1] # FF   -> MarkerFrom(buf, p + 1)
    [] buf[p + 2] = 0    -> MarkerFrom(buf, p + 2)
    [] OTHER             -> p

(* The bits of the data between two places, by the format of the stream.   *)
DataBits(r, from, to) ==
  LET bytes == IF r.kind = "jpeg"
               THEN SelectSeq([i \in 1 .. to - from |-> from + i],
                      LAMBDA i : ~ (i > from + 1 /\ r.buf[i] = 0 /\ r.buf[i - 1] = FF))
               ELSE [i \in 1 .. to - from |->
                      IF r.kind = "be" THEN from + i
                      ELSE LET k == from + i - 1
                           IN (k \div WordBytes + 1) * WordBytes - (k % WordBytes)]
  IN FlattenSeq([i \in DOMAIN bytes |-> BitsOf(r.buf[bytes[i]], ByteBits)])

(* All the bits there are from where the reader started, and zeros.        *)
Stream(r) ==
  LET end == IF r.kind = "jpeg" THEN MarkerFrom(r.buf, r.from)
             ELSE (Len(r.buf) \div WordBytes) * WordBytes
  IN DataBits(r, r.from, end) \o [i \in 1 .. MaxTaken + 2 * BitsPerLong |-> 0]

(* The bits read ahead never reach past a marker: after a discard, the     *)
(* next marker is still ahead, and a stream that has one is not read past  *)
(* its end (fill_bit_buffer puts the marker back).                         *)
MarkersAreAhead ==
  reader.kind = "jpeg" =>
    LET marker == MarkerFrom(reader.buf, reader.from)
    IN /\ reader.pos <= marker
       /\ reader.end = "panic" => marker = Len(reader.buf)

(* The bits a caller gets are those of the data, in order, none skipped    *)
(* and none twice, however they are asked for; at a marker they go on as   *)
(* zeros, and the marker stays ahead (LJpegBitReader::fill_bit_buffer,     *)
(* peek and consume of the three readers).                                 *)
BitsAreTheData ==
  /\ MarkersAreAhead
  /\ reader.end = "no" =>
       \A i \in DOMAIN reader.left : reader.left[i] = Stream(reader)[reader.taken + i]
=============================================================================
