-------------------------- MODULE PanasonicChunks --------------------------
(***************************************************************************)
(* The compressed data of RW2 (src/src/panasonic/decompress.rs): blocks of *)
(* Chunks (1024) chunks of two halves of 64 bits, in an order that starts  *)
(* in the middle of the block; and a chunk: 14 pixels of two colours in    *)
(* turn, of 8 or 12 bits each, which depend on what was read before.       *)
(***************************************************************************)
EXTENDS Integers, Sequences, FiniteSets

CONSTANTS Chunks,      \* in a block: 1024, an even number
          Lengths1,    \* of the data, in halves
          Tops,        \* bytes a pixel has, high bits first
          Lows         \* the four bits that follow some

ASSUME PanasonicAssumption ==
  /\ Chunks \in Nat /\ Chunks % 2 = 0 /\ Chunks > 0
  /\ Lengths1 \subseteq Nat
  /\ Tops \subseteq 0 .. 255 /\ Lows \subseteq 0 .. 15

VARIABLES length,     \* of the data, in halves
          chunk,      \* the index of the chunk, or none yet: -1
          halves,     \* the two halves it is made of
          px,         \* the pixels decoded: px_allidx
          used,       \* BitsCursor::pos
          nonzero,    \* color_nonzero: the colours it is set for
          prev,       \* the last pixel of each colour
          shift,
          end         \* "no", "ok", "error"

panaVars == <<length, chunk, halves, px, used, nonzero, prev, shift, end>>

PanaInit ==
  /\ length \in Lengths1
  /\ chunk = -1 /\ halves = <<>>
  /\ px = 14 /\ used = 0
  /\ nonzero = {} /\ prev = <<0, 0>> /\ shift = 0
  /\ end = "no"

-----------------------------------------------------------------------------
(* chunk_to_offset, in halves.                                             *)
chunk_to_offset(idx) ==
  IF idx > Chunks \div 2 THEN 2 * idx - (Chunks + 1) ELSE 2 * idx + Chunks - 1

Unsplit(i) ==                  \* mutant: the halves of every chunk are together
  LET block == 2 * Chunks * (i \div Chunks)
      offset == chunk_to_offset(i % Chunks)
  IN <<block + offset, block + offset + 1>>

(* block_get_chunk: the one at the end of the block has its other half at  *)
(* the start.                                                              *)
HalvesOf(i) ==
  LET block == 2 * Chunks * (i \div Chunks)
      offset == chunk_to_offset(i % Chunks)
  IN <<block + offset, block + (IF offset = 2 * Chunks - 1 THEN 0 ELSE offset + 1)>>

NotWhole ==
  /\ chunk = -1 /\ length % (2 * Chunks) # 0
  /\ end' = "error"
  /\ UNCHANGED <<length, chunk, halves, px, used, nonzero, prev, shift>>

NextChunk ==
  /\ length % (2 * Chunks) = 0 /\ px = 14
  /\ IF 2 * (chunk + 1) < length
     THEN /\ chunk' = chunk + 1
          /\ halves' = HalvesOf(chunk + 1)
          /\ px' = 0 /\ used' = 0
          /\ nonzero' = {} /\ prev' = <<0, 0>> /\ shift' = 0
          /\ UNCHANGED end
     ELSE end' = "ok" /\ UNCHANGED <<chunk, halves, px, used, nonzero, prev, shift>>
  /\ UNCHANGED length

-----------------------------------------------------------------------------
(* decode_chunk.                                                           *)
colour == (px % 2) + 1
NewGroup == px >= 2 /\ (px - 2) % 3 = 0

(* The two bits before a group of three pixels.                            *)
Shifts == {0, 1, 2, 4}

Put(v, bits) ==
  /\ prev' = [prev EXCEPT ![colour] = v]
  /\ used' = used + bits + (IF NewGroup THEN 2 ELSE 0)
  /\ px' = px + 1
  /\ UNCHANGED <<length, chunk, halves, end>>

(* load_initial_px: the low bits are there for the first that is not zero. *)
HasLow(top) == top # 0 \/ colour \in nonzero

InitialPixel(sh) ==
  /\ px < 2 \/ colour \notin nonzero
  /\ \E top \in Tops, low \in Lows :
       /\ nonzero' = IF HasLow(top) THEN nonzero \cup {colour} ELSE nonzero
       /\ Put(16 * top + (IF HasLow(top) THEN low ELSE 0), IF HasLow(top) THEN 12 ELSE 8)
  /\ shift' = sh

(* decode_next_px: j replaces the pixel but for its lowest bits, or is     *)
(* added to it.                                                            *)
PowerOf2(sh) == CASE sh = 0 -> 1 [] sh = 1 -> 2 [] sh = 2 -> 4 [] sh = 4 -> 16

Next(j, sh, v) ==
  LET unit == PowerOf2(sh) IN
  CASE j = 0 -> v
    [] j # 0 /\ (128 * unit > v \/ sh = 4) -> j * unit + (v % unit)
    [] OTHER -> v - 128 * unit + j * unit

NextPixel(sh) ==
  /\ px >= 2 /\ colour \in nonzero
  /\ \E j \in Tops : Put(Next(j, sh, prev[colour]), 8)
  /\ shift' = sh
  /\ UNCHANGED nonzero

DecodePixel ==
  /\ px < 14
  /\ \E sh \in IF NewGroup THEN Shifts ELSE {shift} : InitialPixel(sh) \/ NextPixel(sh)

PanaStep == end = "no" /\ (NotWhole \/ NextChunk \/ DecodePixel)

PanaSpec == PanaInit /\ [][PanaStep]_panaVars

-----------------------------------------------------------------------------
(* The halves of a block are read once each, in order, from the middle of  *)
(* the block and around its end (chunk_to_offset and block_get_chunk); the *)
(* pixels of a chunk never ask for more bits than it has, however late the *)
(* first that is not zero comes, and use them all but four for each colour *)
(* that has none (decode_chunk); and they fit in 16 bits.                  *)
ChunksHoldTheirPixels ==
  /\ chunk >= 0 =>
       \A h \in {1, 2} :
          halves[h] = 2 * Chunks * (chunk \div Chunks)
                        + ((Chunks - 1 + (2 * (chunk % Chunks)) + h - 1) % (2 * Chunks))
  /\ used <= 128
  /\ chunk >= 0 /\ px = 14 =>
       used = 128 - 4 * Cardinality({1, 2} \ nonzero)
  /\ \A c \in {1, 2} : 0 <= prev[c] /\ prev[c] < 65536
=============================================================================
