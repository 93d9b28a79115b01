--------------------------- MODULE PicturesProofs ---------------------------
(***************************************************************************)
(* Theorems about the decoders of pictures: PanasonicChunks, for blocks of *)
(* every even number of chunks and data of every length; Tiles, for        *)
(* pictures and tiles of every size, whatever becomes of each tile;        *)
(* SlicedBuffer, for every list of slices; and Unpack, for every packing   *)
(* and pictures of every size whose rows fill whole bytes.                 *)
(***************************************************************************)
EXTENDS PanasonicChunks, Tiles, SlicedBuffer, Unpack,
        FiniteSetTheorems, SequenceTheorems, TLAPS

LEMMA ModOfSmall == \A a, n \in Nat : a < n => a % n = a
OBVIOUS

LEMMA ModOnceAround == \A a, n \in Nat : n > 0 /\ n <= a /\ a < 2 * n => a % n = a - n
OBVIOUS

LEMMA ModIsSmall == \A a, n \in Nat : n > 0 => a % n \in 0 .. n - 1
OBVIOUS
-----------------------------------------------------------------------------
(* The halves of a chunk are two in a row, from the middle of the block.   *)
HalvesFollow(i, hs) ==
  \A h \in {1, 2} :
    hs[h] = 2 * Chunks * (i \div Chunks)
              + ((Chunks - 1 + (2 * (i % Chunks)) + h - 1) % (2 * Chunks))

(* The bits of n pixels of which the first that is not zero has come, or   *)
(* not, for each colour.                                                   *)
BitsOf(n, seen) ==
  8 * n + 2 * (n \div 3) + (IF 1 \in seen THEN 4 ELSE 0) + (IF 2 \in seen THEN 4 ELSE 0)

(* What a pixel adds to the one before it of its colour is at most 508.    *)
Most(n) == 4095 + 508 * n

PInv ==
  /\ chunk \in Int /\ chunk >= -1
  /\ px \in 0 .. 14 /\ shift \in Shifts
  /\ nonzero \subseteq {1, 2}
  /\ px < 2 => 2 \notin nonzero
  /\ px < 1 => 1 \notin nonzero
  /\ prev \in [1 .. 2 -> Nat]
  /\ \A c \in 1 .. 2 : prev[c] <= Most(px)
  /\ chunk >= 0 => HalvesFollow(chunk, halves) /\ used = BitsOf(px, nonzero)
  /\ chunk = -1 => used = 0 /\ px = 14

LEMMA HalvesAreInOrder ==
  ASSUME NEW i \in Nat PROVE HalvesFollow(i, HalvesOf(i))
<1> DEFINE m == i % Chunks
           block == 2 * Chunks * (i \div Chunks)
<1>1. Chunks \in Nat /\ Chunks > 0 /\ Chunks % 2 = 0 /\ 2 * Chunks \in Nat
  BY PanasonicAssumption
<1>2. PICK half \in Nat : half = Chunks \div 2 /\ Chunks = 2 * half
  BY <1>1
<1>3. m \in 0 .. Chunks - 1
  BY <1>1, ModIsSmall
<1>4. block \in Int
  BY <1>1
<1> HIDE DEF m, block
<1>5. chunk_to_offset(m) = (Chunks - 1 + 2 * m) % (2 * Chunks)
  <2>1. CASE m > half
    <3>1. Chunks - 1 + 2 * m \in Nat /\ 2 * Chunks <= Chunks - 1 + 2 * m
          /\ Chunks - 1 + 2 * m < 2 * (2 * Chunks)
      BY <1>1, <1>2, <1>3, <2>1
    <3>2. (Chunks - 1 + 2 * m) % (2 * Chunks) = (Chunks - 1 + 2 * m) - 2 * Chunks
      <4>1. PICK a, n \in Nat : a = Chunks - 1 + 2 * m /\ n = 2 * Chunks /\ n > 0
        BY <1>1, <3>1
      <4>2. a % n = a - n
        BY <3>1, <4>1, ModOnceAround
      <4>3. QED
        BY <4>1, <4>2
    <3>3. QED
      BY <1>1, <1>2, <1>3, <2>1, <3>2 DEF chunk_to_offset
  <2>2. CASE m <= half
    <3>1. Chunks - 1 + 2 * m \in Nat /\ Chunks - 1 + 2 * m < 2 * Chunks
      BY <1>1, <1>2, <1>3, <2>2
    <3>2. (Chunks - 1 + 2 * m) % (2 * Chunks) = Chunks - 1 + 2 * m
      BY <1>1, <3>1, ModOfSmall
    <3>3. QED
      BY <1>1, <1>2, <1>3, <2>2, <3>2 DEF chunk_to_offset
  <2>3. QED
    BY <1>2, <1>3, <2>1, <2>2
<1>6. (IF chunk_to_offset(m) = 2 * Chunks - 1 THEN 0 ELSE chunk_to_offset(m) + 1)
        = (Chunks - 1 + 2 * m + 1) % (2 * Chunks)
  <2>1. CASE m > half
    <3>1. Chunks - 1 + 2 * m + 1 \in Nat /\ 2 * Chunks <= Chunks - 1 + 2 * m + 1
          /\ Chunks - 1 + 2 * m + 1 < 2 * (2 * Chunks)
      BY <1>1, <1>2, <1>3, <2>1
    <3>2. (Chunks - 1 + 2 * m + 1) % (2 * Chunks) = (Chunks - 1 + 2 * m + 1) - 2 * Chunks
      BY <1>1, <3>1, ModOnceAround
    <3>3. QED
      BY <1>1, <1>2, <1>3, <2>1, <3>2 DEF chunk_to_offset
  <2>2. CASE m = half
    <3>1. (Chunks - 1 + 2 * m + 1) % (2 * Chunks) = (Chunks - 1 + 2 * m + 1) - 2 * Chunks
      BY <1>1, <1>2, <2>2, ModOnceAround
    <3>2. QED
      BY <1>1, <1>2, <2>2, <3>1 DEF chunk_to_offset
  <2>3. CASE m < half
    <3>1. Chunks - 1 + 2 * m + 1 \in Nat /\ Chunks - 1 + 2 * m + 1 < 2 * Chunks
      BY <1>1, <1>2, <1>3, <2>3
    <3>2. (Chunks - 1 + 2 * m + 1) % (2 * Chunks) = Chunks - 1 + 2 * m + 1
      BY <1>1, <3>1, ModOfSmall
    <3>3. QED
      BY <1>1, <1>2, <1>3, <2>3, <3>2 DEF chunk_to_offset
  <2>4. QED
    BY <1>2, <1>3, <2>1, <2>2, <2>3
<1>7. HalvesOf(i) = <<block + chunk_to_offset(m),
                      block + (IF chunk_to_offset(m) = 2 * Chunks - 1 THEN 0
                               ELSE chunk_to_offset(m) + 1)>>
  BY DEF HalvesOf, block, m
<1>8. /\ HalvesOf(i)[1] = block + ((Chunks - 1 + 2 * m) % (2 * Chunks))
      /\ HalvesOf(i)[2] = block + ((Chunks - 1 + 2 * m + 1) % (2 * Chunks))
  BY <1>5, <1>6, <1>7
<1>9. Chunks - 1 + 2 * m + 1 - 1 = Chunks - 1 + 2 * m
      /\ Chunks - 1 + 2 * m + 2 - 1 = Chunks - 1 + 2 * m + 1
  BY <1>1, <1>3
<1>10. QED
  BY <1>8, <1>9 DEF HalvesFollow, block, m

(* decode_next_px: the new value, from the one before it.                  *)
LEMMA NextIsBounded ==
  ASSUME NEW j \in 0 .. 255, NEW sh \in Shifts, NEW v \in Nat,
         NEW n \in Nat, v <= Most(n)
  PROVE  Next(j, sh, v) \in Nat /\ Next(j, sh, v) <= Most(n + 1)
<1>1. CASE sh = 0
  BY <1>1 DEF Next, PowerOf2, Most
<1>2. CASE sh = 1
  BY <1>2 DEF Next, PowerOf2, Most
<1>3. CASE sh = 2
  BY <1>3 DEF Next, PowerOf2, Most
<1>4. CASE sh = 4
  BY <1>4 DEF Next, PowerOf2, Most
<1>5. QED
  BY <1>1, <1>2, <1>3, <1>4 DEF Shifts

(* A pixel, of either kind: some bits, and a value.                        *)
LEMMA PutKeepsPInv ==
  ASSUME PInv, px < 14, chunk >= 0, NEW v \in Nat, v <= Most(px + 1),
         NEW bits, Put(v, bits), shift' \in Shifts,
         \/ UNCHANGED nonzero /\ bits = 8
         \/ nonzero' = nonzero \cup {colour} /\ colour \notin nonzero /\ bits = 12
  PROVE  PInv'
<1>1. /\ prev' = [prev EXCEPT ![colour] = v]
      /\ used' = used + bits + (IF NewGroup THEN 2 ELSE 0)
      /\ px' = px + 1 /\ chunk' = chunk /\ halves' = halves
  BY DEF Put
<1>2. /\ px \in 0 .. 13 /\ colour \in 1 .. 2
      /\ nonzero \subseteq {1, 2} /\ prev \in [1 .. 2 -> Nat]
  BY DEF PInv, colour
<1>3. /\ prev' \in [1 .. 2 -> Nat] /\ prev'[colour] = v
      /\ \A c \in 1 .. 2 : c # colour => prev'[c] = prev[c]
  BY <1>1, <1>2
<1>4. nonzero' \subseteq {1, 2}
  <2>1. colour \in {1, 2}
    BY <1>2
  <2>2. nonzero' = nonzero \/ nonzero' = nonzero \cup {colour}
    OBVIOUS
  <2>3. QED
    BY ONLY <1>2, <2>1, <2>2
<1>5. \A c \in 1 .. 2 : prev'[c] <= Most(px')
  BY <1>1, <1>2, <1>3 DEF PInv, Most
<1>6. (px + 1) \div 3 = px \div 3 + (IF NewGroup THEN 1 ELSE 0)
  BY <1>2 DEF NewGroup
<1>7. used' = BitsOf(px + 1, nonzero')
  <2>1. used = BitsOf(px, nonzero)
    BY DEF PInv
  <2>2. CASE colour = 1
    BY <1>1, <1>2, <1>4, <1>6, <2>1, <2>2 DEF BitsOf
  <2>3. CASE colour = 2
    BY <1>1, <1>2, <1>4, <1>6, <2>1, <2>3 DEF BitsOf
  <2>4. QED
    BY <1>2, <2>2, <2>3
<1>8. px' < 2 => 2 \notin nonzero'
  BY <1>1, <1>2, <1>4 DEF PInv, colour
<1>9. QED
  BY <1>1, <1>2, <1>3, <1>4, <1>5, <1>7, <1>8 DEF PInv, HalvesFollow

LEMMA InitialPixelKeepsPInv ==
  ASSUME PInv, px < 14, chunk >= 0, NEW sh \in Shifts, InitialPixel(sh)
  PROVE  PInv'
<1>1. PICK top \in Tops, low \in Lows :
        /\ nonzero' = IF HasLow(top) THEN nonzero \cup {colour} ELSE nonzero
        /\ Put(16 * top + (IF HasLow(top) THEN low ELSE 0), IF HasLow(top) THEN 12 ELSE 8)
        /\ shift' = sh
  BY DEF InitialPixel
<1>2. px \in 0 .. 13 /\ colour \notin nonzero
  BY DEF InitialPixel, PInv, colour
<1>3. top \in 0 .. 255 /\ low \in 0 .. 15
  BY PanasonicAssumption
<1>4. PICK v, bits : /\ v = 16 * top + (IF HasLow(top) THEN low ELSE 0)
                     /\ bits = (IF HasLow(top) THEN 12 ELSE 8)
  OBVIOUS
<1>5. Put(v, bits) /\ shift' \in Shifts
  BY <1>1, <1>4
<1>6. v \in Nat /\ v <= Most(px + 1)
  BY <1>2, <1>3, <1>4 DEF Most
<1>7. \/ UNCHANGED nonzero /\ bits = 8
      \/ nonzero' = nonzero \cup {colour} /\ colour \notin nonzero /\ bits = 12
  BY <1>1, <1>2, <1>4
<1>8. QED
  BY <1>5, <1>6, <1>7, PutKeepsPInv

LEMMA NextPixelKeepsPInv ==
  ASSUME PInv, px < 14, chunk >= 0, NEW sh \in Shifts, NextPixel(sh)
  PROVE  PInv'
<1>1. PICK j \in Tops : Put(Next(j, sh, prev[colour]), 8)
  BY DEF NextPixel
<1>2. shift' \in Shifts /\ UNCHANGED nonzero
  BY DEF NextPixel
<1>3. px \in 0 .. 13 /\ colour \in 1 .. 2
  BY DEF PInv, colour
<1>4. PICK before \in Nat : before = prev[colour] /\ before <= Most(px)
  BY <1>3 DEF PInv
<1>5. PICK v : v = Next(j, sh, before)
  OBVIOUS
<1>6. v \in Nat /\ v <= Most(px + 1)
  <2>1. j \in 0 .. 255
    BY PanasonicAssumption
  <2>2. px \in Nat /\ before \in Nat /\ before <= Most(px)
    BY <1>3, <1>4
  <2>3. QED
    BY <1>5, <2>1, <2>2, NextIsBounded
<1>7. Put(v, 8)
  BY <1>1, <1>4, <1>5
<1>8. QED
  BY <1>2, <1>6, <1>7, PutKeepsPInv

LEMMA PixelKeepsPInv == ASSUME PInv, DecodePixel PROVE PInv'
<1>1. px < 14 /\ chunk >= 0
  BY DEF DecodePixel, PInv
<1>2. PICK sh \in Shifts : InitialPixel(sh) \/ NextPixel(sh)
  BY DEF DecodePixel, PInv
<1>3. QED
  BY <1>1, <1>2, InitialPixelKeepsPInv, NextPixelKeepsPInv

(* Before the first pixel of a chunk.                                      *)
LEMMA NoPixels == <<0, 0>> \in [1 .. 2 -> Nat] /\ \A c \in 1 .. 2 : <<0, 0>>[c] = 0
OBVIOUS

LEMMA NextChunkKeepsPInv == ASSUME PInv, NextChunk PROVE PInv'
<1>1. CASE 2 * (chunk + 1) < length
  <2>1. /\ chunk' = chunk + 1 /\ halves' = HalvesOf(chunk + 1)
        /\ px' = 0 /\ used' = 0
        /\ nonzero' = {} /\ prev' = <<0, 0>> /\ shift' = 0
    BY <1>1 DEF NextChunk
  <2>2. chunk + 1 \in Nat
    BY DEF PInv
  <2>3. HalvesFollow(chunk', halves')
    BY <2>1, <2>2, HalvesAreInOrder
  <2>4. prev' \in [1 .. 2 -> Nat] /\ \A c \in 1 .. 2 : prev'[c] = 0
    BY <2>1, NoPixels
  <2>5. used' = BitsOf(px', nonzero')
    BY <2>1 DEF BitsOf
  <2>6. QED
    BY <2>1, <2>2, <2>3, <2>4, <2>5 DEF PInv, Shifts, Most
<1>2. CASE ~ (2 * (chunk + 1) < length)
  <2>1. UNCHANGED <<chunk, halves, px, used, nonzero, prev, shift>>
    BY <1>2 DEF NextChunk
  <2>2. QED
    BY <2>1 DEF PInv
<1>3. QED
  BY <1>1, <1>2

(* All the bits of a chunk are used, but for colours that are all zero.    *)
LEMMA BitsOfAChunk ==
  ASSUME NEW seen \in SUBSET {1, 2}
  PROVE  BitsOf(14, seen) = 128 - 4 * Cardinality({1, 2} \ seen)
<1>1. 8 * 14 + 2 * (14 \div 3) = 120
  OBVIOUS
<1>2. Cardinality({}) = 0 /\ Cardinality({1}) = 1 /\ Cardinality({2}) = 1
  BY FS_EmptySet, FS_Singleton
<1>3. Cardinality({1, 2}) = 2
  <2>1. {1, 2} = 1 .. 2
    OBVIOUS
  <2>2. 1 \in Int /\ 2 \in Int /\ ~ (1 > 2) /\ 2 - 1 + 1 = 2
    OBVIOUS
  <2>3. Cardinality(1 .. 2) = 2
    BY ONLY <2>2, FS_Interval
  <2>4. QED
    BY <2>1, <2>3
<1>4. CASE seen = {}
  <2>1. {1, 2} \ seen = {1, 2}
    BY <1>4
  <2>2. QED
    BY <1>1, <1>3, <1>4, <2>1 DEF BitsOf
<1>5. CASE seen = {1}
  <2>1. {1, 2} \ seen = {2}
    BY <1>5
  <2>2. QED
    BY <1>1, <1>2, <1>5, <2>1 DEF BitsOf
<1>6. CASE seen = {2}
  <2>1. {1, 2} \ seen = {1}
    BY <1>6
  <2>2. QED
    BY <1>1, <1>2, <1>6, <2>1 DEF BitsOf
<1>7. CASE seen = {1, 2}
  <2>1. {1, 2} \ seen = {}
    BY <1>7
  <2>2. QED
    BY <1>1, <1>2, <1>7, <2>1 DEF BitsOf
<1>8. QED
  BY <1>4, <1>5, <1>6, <1>7

LEMMA PInvIsEnough == PInv => ChunksHoldTheirPixels
<1> SUFFICES ASSUME PInv PROVE ChunksHoldTheirPixels
  OBVIOUS
<1>1. used <= 128
  <2>1. CASE chunk = -1
    BY <2>1 DEF PInv
  <2>2. CASE chunk >= 0
    BY <2>2 DEF PInv, BitsOf
  <2>3. QED
    BY <2>1, <2>2 DEF PInv
<1>2. ASSUME chunk >= 0, px = 14
      PROVE  used = 128 - 4 * Cardinality({1, 2} \ nonzero)
  <2>1. used = BitsOf(14, nonzero) /\ nonzero \in SUBSET {1, 2}
    BY <1>2 DEF PInv
  <2>2. QED
    BY <2>1, BitsOfAChunk
<1>3. ASSUME NEW c \in {1, 2} PROVE 0 <= prev[c] /\ prev[c] < 65536
  <2>1. PICK n \in 0 .. 14 : n = px
    BY DEF PInv
  <2>2. PICK v \in Nat : v = prev[c] /\ v <= 4095 + 508 * n
    BY <2>1 DEF PInv, Most
  <2>3. 0 <= v /\ v < 65536
    BY <2>1, <2>2
  <2>4. QED
    BY <2>2, <2>3
<1>4. ASSUME chunk >= 0, NEW h \in {1, 2}
      PROVE  halves[h] = 2 * Chunks * (chunk \div Chunks)
               + ((Chunks - 1 + (2 * (chunk % Chunks)) + h - 1) % (2 * Chunks))
  BY <1>4 DEF PInv, HalvesFollow
<1>5. QED
  BY <1>1, <1>2, <1>3, <1>4 DEF ChunksHoldTheirPixels

(* Data of every length: the halves, the bits and the values of a chunk    *)
(* agree with how many of its pixels are decoded (panasonic/decompress.rs).*)
THEOREM PanasonicInvariance == PanaSpec => []PInv
<1>1. ASSUME PanaInit PROVE PInv
  <2>1. prev \in [1 .. 2 -> Nat] /\ \A c \in 1 .. 2 : prev[c] = 0
    BY <1>1, NoPixels DEF PanaInit
  <2>2. QED
    BY <1>1, <2>1 DEF PanaInit, PInv, Shifts, Most
<1>2. ASSUME PInv, [PanaStep]_panaVars PROVE PInv'
  <2>1. CASE NotWhole
    BY <1>2, <2>1 DEF NotWhole, PInv, HalvesFollow
  <2>2. CASE UNCHANGED panaVars
    BY <1>2, <2>2 DEF panaVars, PInv, HalvesFollow
  <2>3. QED
    BY <1>2, <2>1, <2>2, PixelKeepsPInv, NextChunkKeepsPInv DEF PanaStep
<1>3. QED
  BY <1>1, <1>2, PTL DEF PanaSpec

(* panasonic/decompress.rs: each half of a block is read in its turn, a    *)
(* chunk has the bits its 14 pixels take, neither fewer nor more, and its  *)
(* pixels fit in 16 bits.                                                  *)
THEOREM ChunksAreRead == PanaSpec => []ChunksHoldTheirPixels
<1>1. QED
  BY PanasonicInvariance, PInvIsEnough, PTL
-----------------------------------------------------------------------------
(* Quotients and remainders by a number that is not known.                 *)
LEMMA Division ==
  ASSUME NEW a \in Nat, NEW n \in Nat, n > 0
  PROVE  a \div n \in Nat /\ a % n \in 0 .. n - 1 /\ a = (a \div n) * n + (a % n)
OBVIOUS

LEMMA Products == \A a, b, c \in Nat : a <= b => a * c <= b * c
OBVIOUS

LEMMA ProductsAreNats == \A a, b \in Nat : a * b \in Nat
OBVIOUS

LEMMA DivisionIsUnique ==
  ASSUME NEW n \in Nat, NEW q \in Nat, NEW r \in Nat, r < n
  PROVE  (q * n + r) \div n = q /\ (q * n + r) % n = r
<1>1. PICK a \in Nat : a = q * n + r
  BY ProductsAreNats
<1>2. PICK x, y \in Nat : x = a \div n /\ y = a % n /\ a = x * n + y /\ y < n
  BY <1>1, Division
<1>3. ~ (x < q)
  <2>1. SUFFICES ASSUME x + 1 <= q PROVE FALSE
    BY <1>2
  <2>2. (x + 1) * n <= q * n
    BY <2>1, <1>2, Products
  <2>3. (x + 1) * n = x * n + n
    BY <1>2
  <2>4. QED
    BY <1>1, <1>2, <2>2, <2>3, ProductsAreNats
<1>4. ~ (q < x)
  <2>1. SUFFICES ASSUME q + 1 <= x PROVE FALSE
    BY <1>2
  <2>2. (q + 1) * n <= x * n
    BY <2>1, <1>2, Products
  <2>3. (q + 1) * n = q * n + n
    OBVIOUS
  <2>4. QED
    BY <1>1, <1>2, <2>2, <2>3, ProductsAreNats
<1>5. QED
  BY <1>1, <1>2, <1>3, <1>4

LEMMA Divide ==
  ASSUME NEW a \in Nat, NEW n \in Nat, n > 0
  PROVE  \E q, r \in Nat : q = a \div n /\ r = a % n /\ a = q * n + r /\ r < n
<1>1. a \div n \in Nat /\ a % n \in Nat /\ a % n < n /\ a = (a \div n) * n + (a % n)
  BY Division
<1>2. QED
  BY <1>1

IsDivided(a, n, q, r) ==
  a \in Nat /\ n \in Nat /\ q \in Nat /\ r \in Nat /\ r < n /\ a = q * n + r

LEMMA Divided == \A a, n, q, r : IsDivided(a, n, q, r) => a \div n = q /\ a % n = r
BY DivisionIsUnique DEF IsDivided

LEMMA Distributes ==
  \A a, b, c \in Nat : (a + b) * c = c * a + c * b /\ a * c = c * a
OBVIOUS

LEMMA QuotientIsLess ==
  \A a, n, q, r, m : m \in Nat /\ IsDivided(a, n, q, r) => (q < m <=> a < m * n)
<1>1. SUFFICES ASSUME NEW n \in Nat, NEW q \in Nat, NEW r \in Nat, NEW m \in Nat, r < n
               PROVE  q < m <=> q * n + r < m * n
  BY DEF IsDivided
<1>2. q * n \in Nat /\ m * n \in Nat
  BY ProductsAreNats
<1>3. ASSUME q < m PROVE q * n + r < m * n
  <2>1. (q + 1) * n <= m * n
    BY <1>3, Products
  <2>2. (q + 1) * n = q * n + n
    OBVIOUS
  <2>3. QED
    BY <1>1, <1>2, <2>1, <2>2
<1>4. ASSUME m <= q PROVE m * n <= q * n + r
  <2>1. m * n <= q * n
    BY <1>4, Products
  <2>2. QED
    BY <1>2, <2>1
<1>5. QED
  BY <1>2, <1>3, <1>4

LEMMA Across ==
  ASSUME NEW w \in Nat, NEW u \in Nat, w > 0, u > 0
  PROVE  /\ (w + u - 1) \div u \in Nat /\ (w + u - 1) \div u > 0
         /\ w <= ((w + u - 1) \div u) * u
         /\ ((w + u - 1) \div u - 1) * u < w
OBVIOUS

LEMMA NextInRow ==
  ASSUME NEW k \in Nat, NEW n \in Nat, n > 0
  PROVE  /\ (k + 1) \div n = (IF (k % n) + 1 = n THEN k \div n + 1 ELSE k \div n)
         /\ (k + 1) % n = (IF (k % n) + 1 = n THEN 0 ELSE (k % n) + 1)
<1>1. PICK q, r \in Nat : q = k \div n /\ r = k % n /\ k = q * n + r /\ r < n
  BY Division
<1>2. CASE r + 1 = n
  <2>1. k + 1 = (q + 1) * n + 0
    BY <1>1, <1>2
  <2>2. QED
    BY <1>1, <1>2, <2>1, DivisionIsUnique
<1>3. CASE r + 1 < n
  <2>1. k + 1 = q * n + (r + 1)
    BY <1>1, <1>3
  <2>2. QED
    BY <1>1, <1>3, <2>1, DivisionIsUnique
<1>4. QED
  BY <1>1, <1>2, <1>3
-----------------------------------------------------------------------------
(* Where the n-th tile is placed.                                          *)
IsPlace(n, line, col) ==
  IF picture.u_width = 0 THEN line = 0 /\ col = 0
  ELSE /\ line = (n \div TilesAcross) * picture.u_height
       /\ col = (n % TilesAcross) * picture.u_width

(* What a pixel is when the tiles before this one are combined.            *)
IsDrawn(n, p, v) ==
  /\ \A t \in 1 .. n - 1 : Covers(t, p) => v = PixelFrom(t, p)
  /\ v # Garbage => \E t \in 1 .. n - 1 : Covers(t, p)

LostForATile ==
  \E i \in DOMAIN picture.tiles :
    \/ picture.tiles[i].kind = "panic"
    \/ /\ picture.tiles[i].kind = "tile"
       /\ picture.tiles[i].values < picture.u_width * picture.u_height

TInv ==
  /\ picture \in TiledPicture
  /\ DOMAIN decoded = 1 .. Len(picture.tiles)
  /\ \A i \in 1 .. Len(picture.tiles) : decoded[i] \in {Pending, picture.tiles[i]}
  /\ stage = "combine" =>
       \A i \in 1 .. Len(picture.tiles) :
         decoded[i] = picture.tiles[i] /\ picture.tiles[i].kind # "panic"
  /\ tile \in 1 .. Len(picture.tiles) + 1
  /\ IsPlace(UsableBefore(tile), first_row, first_col)
  /\ \A p \in Pixels : IsDrawn(tile, p, image[p])
  /\ stage = "done" =>
       \A p \in Pixels, t \in tile .. Len(picture.tiles) : ~ Covers(t, p)
  /\ stage = "panic" => LostForATile

LEMMA TiledPictureFacts ==
  ASSUME picture \in TiledPicture
  PROVE  /\ picture.width \in Nat /\ picture.width > 0
         /\ picture.height \in Nat /\ picture.height > 0
         /\ picture.u_width \in Nat /\ picture.u_height \in Nat
         /\ Len(picture.tiles) \in Nat /\ DOMAIN picture.tiles = 1 .. Len(picture.tiles)
         /\ \A i \in 1 .. Len(picture.tiles) :
              /\ picture.tiles[i].kind \in {"tile", "error", "panic"}
              /\ picture.tiles[i].values \in Nat
<1>1. /\ picture.width \in Nat \ {0} /\ picture.height \in Nat \ {0}
      /\ picture.u_width \in Nat /\ picture.u_height \in Nat
      /\ picture.tiles \in Seq(Decoding)
  BY DEF TiledPicture
<1>2. /\ Len(picture.tiles) \in Nat /\ DOMAIN picture.tiles = 1 .. Len(picture.tiles)
      /\ \A i \in 1 .. Len(picture.tiles) : picture.tiles[i] \in Decoding
  BY <1>1
<1>3. QED
  BY <1>1, <1>2 DEF Decoding

(* Counting the tiles that could be decoded.                               *)
LEMMA UsableIsCounted ==
  ASSUME NEW t \in Nat \ {0}
  PROVE  /\ UsableBefore(t) \in Nat
         /\ UsableBefore(t + 1) = UsableBefore(t)
                                   + (IF picture.tiles[t].kind = "tile" THEN 1 ELSE 0)
         /\ \A s \in Nat \ {0} : s >= t => UsableBefore(s) \in Nat /\ UsableBefore(t) <= UsableBefore(s)
<1> DEFINE U(n) == {i \in 1 .. n - 1 : picture.tiles[i].kind = "tile"}
<1>1. ASSUME NEW n \in Nat \ {0} PROVE IsFiniteSet(U(n)) /\ Cardinality(U(n)) \in Nat
  <2>1. IsFiniteSet(1 .. n - 1)
    <3>1. 1 \in Int /\ n - 1 \in Int
      OBVIOUS
    <3>2. QED
      BY ONLY <3>1, FS_Interval
  <2>2. U(n) \subseteq 1 .. n - 1
    OBVIOUS
  <2>3. IsFiniteSet(U(n))
    BY <2>1, <2>2, FS_Subset
  <2>4. QED
    BY <2>3, FS_CardinalityType
<1>. UsableBefore(t + 1) = Cardinality(U(t + 1)) /\ UsableBefore(t) = Cardinality(U(t))
  BY DEF UsableBefore
<1> HIDE DEF U
<1>2. UsableBefore(t + 1) = UsableBefore(t)
                              + (IF picture.tiles[t].kind = "tile" THEN 1 ELSE 0)
  <2>1. CASE picture.tiles[t].kind = "tile"
    <3>1. U(t + 1) = U(t) \cup {t} /\ t \notin U(t)
      BY <2>1 DEF U
    <3>2. Cardinality(U(t) \cup {t}) = Cardinality(U(t)) + 1
      BY <1>1, <3>1, FS_AddElement
    <3>3. QED
      BY <2>1, <3>1, <3>2
  <2>2. CASE picture.tiles[t].kind # "tile"
    <3>1. U(t + 1) = U(t)
      BY <2>2 DEF U
    <3>2. QED
      BY <1>1, <2>2, <3>1
  <2>3. QED
    BY <2>1, <2>2
<1>3. ASSUME NEW s \in Nat \ {0}, s >= t
      PROVE  UsableBefore(s) \in Nat /\ UsableBefore(t) <= UsableBefore(s)
  <2>1. U(t) \subseteq U(s)
    BY <1>3 DEF U
  <2>2. Cardinality(U(t)) <= Cardinality(U(s))
    BY <1>1, <2>1, FS_Subset
  <2>3. QED
    BY <1>1, <2>2 DEF UsableBefore, U
<1>4. QED
  BY <1>1, <1>2, <1>3

(* A pixel is copied from the tile that is placed, if it is one of those   *)
(* the tile covers (combine_tiles, copy_from_slice).                       *)
LEMMA CoveringIsCovers ==
  ASSUME TInv, decoded[tile].kind = "tile", picture.tiles[tile].kind = "tile", NEW p \in Pixels
  PROVE  /\ Covering(p) # {} => Covers(tile, p) /\ Copied(p) = PixelFrom(tile, p)
         /\ Covers(tile, p) => Covering(p) # {}
<1>1. PICK w, h, u, v \in Nat :
        /\ w = picture.width /\ h = picture.height /\ w > 0 /\ h > 0
        /\ u = picture.u_width /\ v = picture.u_height
  BY TiledPictureFacts DEF TInv
<1>2. PICK k \in Nat : k = UsableBefore(tile)
  <2>1. tile \in Nat \ {0}
    BY TiledPictureFacts DEF TInv
  <2>2. QED
    BY <2>1, UsableIsCounted
<1>3. p \in Nat /\ p < w * h
  BY <1>1 DEF Pixels
<1>4. PICK line, col \in Nat : line = RowOf(p) /\ col = ColOf(p) /\ p = line * w + col /\ col < w
  <2>1. PICK line, col \in Nat :
          line = p \div w /\ col = p % w /\ p = line * w + col /\ col < w
    BY <1>1, <1>3, Divide
  <2>2. line = RowOf(p) /\ col = ColOf(p)
    BY <1>1, <2>1 DEF RowOf, ColOf
  <2>3. QED
    BY <2>1, <2>2
<1>5. line < h
  <2>1. SUFFICES ASSUME h <= line PROVE FALSE
    BY <1>1, <1>4
  <2>2. h * w <= line * w
    BY <1>1, <1>4, <2>1, Products
  <2>3. QED
    BY <1>1, <1>3, <1>4, <2>2, ProductsAreNats
<1>6. CASE u = 0 \/ v = 0
  <2>1. Covering(p) = {}
    <3>1. CASE v = 0
      BY <1>1, <3>1 DEF Covering, Rows
    <3>2. CASE u = 0
      <4>1. row_len = 0
        <5>1. first_col = 0
          BY <1>1, <3>2 DEF TInv, IsPlace
        <5>2. QED
          BY <1>1, <3>2, <5>1 DEF row_len, Smaller
      <4>2. QED
        BY <4>1 DEF Covering
    <3>3. QED
      BY <1>6, <3>1, <3>2
  <2>2. QED
    BY <1>1, <1>6, <2>1 DEF Covers
<1>7. CASE u > 0 /\ v > 0
  <2>1. PICK a \in Nat : a = TilesAcross /\ a > 0 /\ w <= a * u
    BY <1>1, <1>7, Across DEF TilesAcross
  <2>2. PICK q, m \in Nat : q = k \div a /\ m = k % a /\ k = q * a + m /\ m < a
    BY <1>2, <2>1, Divide
  <2>3. first_row = q * v /\ first_col = m * u
    <3>1. IsPlace(k, first_row, first_col)
      BY <1>2 DEF TInv
    <3>2. QED
      BY <1>1, <1>7, <2>1, <2>2, <3>1 DEF IsPlace
  <2>4. PICK x, y \in Nat : x = first_col /\ y = first_row
    BY <1>1, <2>2, <2>3, ProductsAreNats
  <2>5. row_len = Smaller(u, w - x)
    BY <1>1, <2>4 DEF row_len
  <2>6. ASSUME NEW r \in Covering(p)
        PROVE  Covers(tile, p) /\ r = line % v /\ p - buf_pos(r) = col % u
    <3>1. r \in Nat /\ r < v /\ y + r < h
      BY <1>1, <2>4 DEF Covering, Rows
    <3>2. PICK d \in Nat : d = p - buf_pos(r) /\ d < u /\ x + d < w
      BY <1>1, <2>4, <2>5 DEF Covering, Smaller
    <3>3. p = (y + r) * w + (x + d)
      <4>1. buf_pos(r) = (y + r) * w + x
        BY <1>1, <2>4 DEF buf_pos
      <4>2. PICK b \in Nat : b = (y + r) * w
        BY <1>1, <2>4, <3>1, ProductsAreNats
      <4>3. QED
        BY <1>3, <2>4, <3>2, <4>1, <4>2
    <3>4. line = y + r /\ col = x + d
      <4>1. y + r \in Nat /\ x + d \in Nat
        BY <2>4, <3>1, <3>2
      <4>2. p \div w = y + r /\ p % w = x + d
        <5>1. IsDivided(p, w, y + r, x + d)
          BY <1>1, <1>3, <3>2, <3>3, <4>1 DEF IsDivided
        <5>2. QED
          BY <5>1, Divided
      <4>3. QED
        BY <1>1, <1>4, <4>2 DEF RowOf, ColOf
    <3>5. line \div v = q /\ line % v = r
      <4>1. IsDivided(line, v, q, r)
      BY <1>1, <1>4, <2>2, <2>3, <2>4, <3>1, <3>4 DEF IsDivided
    <4>2. QED
      BY <4>1, Divided
    <3>6. col \div u = m /\ col % u = d
      <4>1. IsDivided(col, u, m, d)
      BY <1>1, <1>4, <2>2, <2>3, <2>4, <3>2, <3>4 DEF IsDivided
    <4>2. QED
      BY <4>1, Divided
    <3>7. Covers(tile, p)
      <4>1. UsableBefore(tile) = (RowOf(p) \div picture.u_height) * TilesAcross
                                    + (ColOf(p) \div picture.u_width)
        BY <1>1, <1>2, <1>4, <2>1, <2>2, <3>5, <3>6
      <4>2. QED
        BY <1>1, <1>7, <4>1 DEF Covers
    <3>8. QED
      BY <3>2, <3>5, <3>6, <3>7
  <2>7. ASSUME Covering(p) # {}
        PROVE  Covers(tile, p) /\ Copied(p) = PixelFrom(tile, p)
    <3>1. PICK r : r = (CHOOSE s \in Covering(p) : TRUE) /\ r \in Covering(p)
      BY <2>7
    <3>2. Copied(p) = [tile |-> tile, at |-> tile_pos(r) + p - buf_pos(r)]
      BY <3>1 DEF Copied
    <3>3. Covers(tile, p) /\ r = line % v /\ p - buf_pos(r) = col % u
      BY <3>1, <2>6
    <3>4. r \in Nat /\ buf_pos(r) \in Int /\ tile_pos(r) \in Int
      <4>1. r \in Nat
        BY <1>1, <3>1 DEF Covering, Rows
      <4>2. (y + r) * w \in Nat /\ r * u \in Nat
        BY <4>1, <1>1, <2>4, ProductsAreNats
      <4>3. QED
        BY <1>1, <2>4, <4>1, <4>2 DEF buf_pos, tile_pos
    <3>5. tile_pos(r) + p - buf_pos(r) = tile_pos(r) + (p - buf_pos(r))
      BY <1>3, <3>4
    <3>6. tile_pos(r) = (line % v) * u
      BY <1>1, <3>3 DEF tile_pos
    <3>7. QED
      BY <1>1, <1>4, <3>2, <3>3, <3>5, <3>6 DEF PixelFrom
  <2>8. ASSUME Covers(tile, p) PROVE Covering(p) # {}
    <3>1. PICK i, r \in Nat : i = line \div v /\ r = line % v /\ line = i * v + r /\ r < v
      BY <1>1, <1>4, <1>7, Divide
    <3>2. PICK j, d \in Nat : j = col \div u /\ d = col % u /\ col = j * u + d /\ d < u
      BY <1>1, <1>4, <1>7, Divide
    <3>3. j < a
      <4>1. SUFFICES ASSUME a <= j PROVE FALSE
        BY <2>1, <3>2
      <4>2. a * u <= j * u
        BY <2>1, <3>2, <4>1, Products
      <4>3. QED
        BY <1>1, <1>4, <2>1, <3>2, <4>2, ProductsAreNats
    <3>4. k = i * a + j
      BY <1>1, <1>2, <1>4, <2>1, <2>8, <3>1, <3>2 DEF Covers
    <3>5. q = i /\ m = j
      <4>1. IsDivided(k, a, i, j)
        BY <1>2, <2>1, <3>1, <3>2, <3>3, <3>4 DEF IsDivided
      <4>2. QED
        BY <2>2, <4>1, Divided
    <3>6. line = y + r /\ col = x + d
      BY <2>3, <2>4, <3>1, <3>2, <3>5
    <3>7. p - buf_pos(r) = d
      <4>1. buf_pos(r) = line * w + x
        BY <1>1, <2>4, <3>6 DEF buf_pos
      <4>2. PICK b \in Nat : b = line * w
        BY <1>1, <1>4, ProductsAreNats
      <4>3. QED
        <5>1. p = b + col /\ buf_pos(r) = b + x /\ col = x + d
          BY <1>4, <3>6, <4>1, <4>2
        <5>2. QED
          BY <1>4, <2>4, <3>2, <4>2, <5>1
    <3>8. d \in 0 .. row_len - 1
      BY <1>1, <1>4, <2>4, <2>5, <3>2, <3>6 DEF Smaller
    <3>9. r \in Rows
      BY <1>1, <1>5, <2>4, <3>1, <3>6 DEF Rows
    <3>10. QED
      BY <3>7, <3>8, <3>9 DEF Covering
  <2>9. QED
    BY <2>7, <2>8
<1>8. QED
  BY <1>1, <1>6, <1>7

(* The place of the next tile (combine_tiles, first_row and first_col).    *)
LEMMA PlaceIsKept ==
  ASSUME TInv, NextPlace, NEW n \in Nat, n = UsableBefore(tile)
  PROVE  IsPlace(n + 1, first_row', first_col')
<1>1. PICK w, u, v \in Nat :
        w = picture.width /\ w > 0 /\ u = picture.u_width /\ v = picture.u_height
  BY TiledPictureFacts DEF TInv
<1>2. IsPlace(n, first_row, first_col)
  BY DEF TInv
<1>3. CASE u = 0
  BY <1>1, <1>2, <1>3 DEF NextPlace, IsPlace
<1>4. CASE u > 0
  <2>1. PICK a \in Nat : a = TilesAcross /\ a > 0
    BY <1>1, <1>4, Across DEF TilesAcross
  <2>2. PICK q, m \in Nat : q = n \div a /\ m = n % a /\ m < a
    BY <2>1, Divide
  <2>3. first_row = q * v /\ first_col = m * u
    BY <1>1, <1>2, <1>4, <2>1, <2>2 DEF IsPlace
  <2>4. PICK x, y \in Nat : x = m * u /\ y = q * v
    BY <1>1, <2>2, ProductsAreNats
  <2>5. /\ (n + 1) \div a = (IF m + 1 = a THEN q + 1 ELSE q)
        /\ (n + 1) % a = (IF m + 1 = a THEN 0 ELSE m + 1)
    <3>1. /\ (n + 1) \div a = (IF (n % a) + 1 = a THEN n \div a + 1 ELSE n \div a)
          /\ (n + 1) % a = (IF (n % a) + 1 = a THEN 0 ELSE (n % a) + 1)
      BY <2>1, NextInRow
    <3>2. QED
      BY <2>2, <3>1
  <2>6. (m + 1) * u = x + u /\ (q + 1) * v = y + v
    <3>1. \A c, d \in Nat : (c + 1) * d = c * d + d
      OBVIOUS
    <3>2. QED
      BY ONLY <1>1, <2>2, <2>4, <3>1
  <2>7. CASE m + 1 = a
    <3>1. x + u >= w
      <4>1. w <= a * u
        BY <1>1, <1>4, <2>1, Across DEF TilesAcross
      <4>2. QED
        BY <2>6, <2>7, <4>1
    <3>2. first_col' = 0 /\ first_row' = y + v
      BY <1>1, <2>3, <2>4, <3>1 DEF NextPlace
    <3>3. (n + 1) \div a = q + 1 /\ (n + 1) % a = 0 /\ 0 * u = 0
      BY <1>1, <2>5, <2>7
    <3>4. QED
      BY <1>1, <1>4, <2>1, <2>6, <3>2, <3>3 DEF IsPlace
  <2>8. CASE m + 1 # a
    <3>1. x + u < w
      <4>1. (a - 1) * u < w
        BY <1>1, <1>4, <2>1, Across DEF TilesAcross
      <4>2. PICK b \in Nat : b = a - 1 /\ m + 1 <= b
        BY <2>1, <2>2, <2>8
      <4>3. (m + 1) * u <= b * u
        BY <1>1, <2>2, <4>2, Products
      <4>4. x + u <= b * u /\ b * u < w /\ b * u \in Nat
        BY <1>1, <2>6, <4>1, <4>2, <4>3, ProductsAreNats
      <4>5. QED
        BY <1>1, <2>4, <4>4
    <3>2. first_col' = x + u /\ first_row' = y
      BY <1>1, <2>3, <2>4, <3>1 DEF NextPlace
    <3>3. (n + 1) \div a = q /\ (n + 1) % a = m + 1
      BY <2>5, <2>8
    <3>4. QED
      BY <1>1, <1>4, <2>1, <2>4, <2>6, <3>2, <3>3 DEF IsPlace
  <2>9. QED
    BY <2>7, <2>8
<1>5. QED
  BY <1>1, <1>3, <1>4

(* The last tile placed, or the end of the picture: nothing is left to do. *)
LEMMA NothingIsLeft ==
  ASSUME TInv, Complete, NEW p \in Pixels, NEW t \in tile .. Len(picture.tiles)
  PROVE  ~ Covers(t, p)
<1> SUFFICES ASSUME Covers(t, p) PROVE FALSE
  OBVIOUS
<1>1. PICK w, h, u, v \in Nat :
        /\ w = picture.width /\ h = picture.height /\ w > 0 /\ h > 0
        /\ u = picture.u_width /\ v = picture.u_height /\ u > 0 /\ v > 0
  BY TiledPictureFacts DEF TInv, Covers
<1>2. tile \in Nat \ {0} /\ t \in Nat \ {0} /\ tile <= t
  BY TiledPictureFacts DEF TInv
<1>3. PICK k, n \in Nat : k = UsableBefore(tile) /\ n = UsableBefore(t) /\ k <= n
  BY <1>2, UsableIsCounted
<1>4. p \in Nat /\ p < w * h
  BY <1>1 DEF Pixels
<1>5. PICK line, col \in Nat : line = p \div w /\ col = p % w /\ p = line * w + col /\ col < w
  BY <1>1, <1>4, Divide
<1>6. PICK i, r \in Nat : i = line \div v /\ r = line % v /\ line = i * v + r /\ r < v
  BY <1>1, <1>5, Divide
<1>7. PICK j, d \in Nat : j = col \div u /\ d = col % u /\ col = j * u + d /\ d < u
  BY <1>1, <1>5, Divide
<1>8. PICK a \in Nat : a = TilesAcross /\ a > 0 /\ w <= a * u
  BY <1>1, Across DEF TilesAcross
<1>9. PICK q, m \in Nat : q = k \div a /\ m = k % a /\ k = q * a + m /\ m < a
  BY <1>3, <1>8, Divide
<1>10. n = i * a + j
  BY <1>1, <1>3, <1>5, <1>6, <1>7, <1>8 DEF Covers, RowOf, ColOf
<1>11. PICK y \in Nat : y = q * v /\ h <= y
  <2>1. IsPlace(k, first_row, first_col)
    BY <1>3 DEF TInv
  <2>2. first_row = q * v
    BY <1>1, <1>8, <1>9, <2>1 DEF IsPlace
  <2>3. QED
    BY <1>1, <2>2, <1>9, ProductsAreNats DEF Complete
<1>12. line < h
  <2>1. IsDivided(p, w, line, col) /\ p < h * w
    BY <1>1, <1>4, <1>5 DEF IsDivided
  <2>2. QED
    BY <1>1, <2>1, QuotientIsLess
<1>13. i < q
  <2>1. IsDivided(line, v, i, r)
    BY <1>1, <1>5, <1>6 DEF IsDivided
  <2>2. line < q * v
    BY <1>1, <1>5, <1>11, <1>12
  <2>3. QED
    BY <1>9, <2>1, <2>2, QuotientIsLess
<1>14. j < a
  <2>1. IsDivided(col, u, j, d)
    BY <1>1, <1>5, <1>7 DEF IsDivided
  <2>2. PICK x \in Nat : x = a * u /\ w <= x
    BY <1>1, <1>8, ProductsAreNats
  <2>3. col < a * u
    BY <1>1, <1>5, <2>2
  <2>4. QED
    BY <1>8, <2>1, <2>3, QuotientIsLess
<1>15. n < q * a
  <2>1. IsDivided(n, a, i, j)
    BY <1>3, <1>6, <1>7, <1>8, <1>10, <1>14 DEF IsDivided
  <2>2. QED
    BY <1>9, <1>13, <2>1, QuotientIsLess
<1>16. PICK z \in Nat : z = q * a
  BY <1>8, <1>9, ProductsAreNats
<1>17. QED
  BY <1>3, <1>9, <1>15, <1>16

(* What the definitions of a picture say does not change with the rest.    *)
LEMMA TilesStayThere ==
  ASSUME UNCHANGED picture
  PROVE  /\ Pixels' = Pixels /\ (LostForATile' <=> LostForATile)
         /\ \A t, p : Covers(t, p)' <=> Covers(t, p)
         /\ \A n, p, v : IsDrawn(n, p, v)' <=> IsDrawn(n, p, v)
         /\ \A n, line, col : IsPlace(n, line, col)' <=> IsPlace(n, line, col)
         /\ \A t : UsableBefore(t)' = UsableBefore(t)
<1>1. \A t : UsableBefore(t)' = UsableBefore(t)
  BY DEF UsableBefore
<1>2. TilesAcross' = TilesAcross /\ Pixels' = Pixels
  BY DEF TilesAcross, Pixels
<1>3. \A p : RowOf(p)' = RowOf(p) /\ ColOf(p)' = ColOf(p)
  BY DEF RowOf, ColOf
<1>4. \A t, p : Covers(t, p)' <=> Covers(t, p)
  BY <1>1, <1>2, <1>3 DEF Covers
<1>5. \A t, p : PixelFrom(t, p)' = PixelFrom(t, p)
  BY <1>3 DEF PixelFrom
<1>6. \A n, p, v : IsDrawn(n, p, v)' <=> IsDrawn(n, p, v)
  BY <1>4, <1>5 DEF IsDrawn
<1>7. \A n, line, col : IsPlace(n, line, col)' <=> IsPlace(n, line, col)
  BY <1>2 DEF IsPlace
<1>8. LostForATile' <=> LostForATile
  BY DEF LostForATile
<1>9. QED
  BY <1>1, <1>2, <1>4, <1>6, <1>7, <1>8

LEMMA TilesInitHolds == ASSUME TilesInit PROVE TInv
<1>1. picture \in TiledPicture
  BY TilesAssumption DEF TilesInit
<1>2. DOMAIN picture.tiles = 1 .. Len(picture.tiles) /\ Len(picture.tiles) \in Nat
  BY <1>1, TiledPictureFacts
<1>3. DOMAIN decoded = 1 .. Len(picture.tiles)
      /\ \A i \in 1 .. Len(picture.tiles) : decoded[i] \in {Pending, picture.tiles[i]}
  BY <1>2 DEF TilesInit
<1>4. UsableBefore(1) = 0
  <2>1. {i \in 1 .. 1 - 1 : picture.tiles[i].kind = "tile"} = {}
    OBVIOUS
  <2>2. QED
    BY <2>1, FS_EmptySet DEF UsableBefore
<1>5. IsPlace(0, 0, 0)
  <2>1. CASE picture.u_width = 0
    BY <2>1 DEF IsPlace
  <2>2. CASE picture.u_width # 0
    <3>1. PICK a \in Nat : a = TilesAcross /\ a > 0
      BY <1>1, <2>2, TiledPictureFacts, Across DEF TilesAcross
    <3>2. 0 \div a = 0 /\ 0 % a = 0
      <4>1. IsDivided(0, a, 0, 0)
        BY <3>1 DEF IsDivided
      <4>2. QED
        BY <4>1, Divided
    <3>3. picture.u_width \in Nat /\ picture.u_height \in Nat
      BY <1>1, TiledPictureFacts
    <3>4. QED
      BY <2>2, <3>1, <3>2, <3>3 DEF IsPlace
  <2>3. QED
    BY <2>1, <2>2
<1>6. \A p \in Pixels : IsDrawn(1, p, image[p])
  BY DEF TilesInit, IsDrawn
<1>7. QED
  BY <1>1, <1>2, <1>3, <1>4, <1>5, <1>6 DEF TilesInit, TInv

LEMMA DecodeTileKeepsTInv ==
  ASSUME TInv, NEW i \in DOMAIN picture.tiles, DecodeTile(i) PROVE TInv'
<1>1. UNCHANGED <<picture, stage, tile, first_row, first_col, image>> /\ stage = "decode"
  BY DEF DecodeTile, place
<1>2. i \in 1 .. Len(picture.tiles)
  BY TiledPictureFacts DEF TInv
<1>3. /\ DOMAIN decoded' = 1 .. Len(picture.tiles)
      /\ \A j \in 1 .. Len(picture.tiles) : decoded'[j] \in {Pending, picture.tiles[j]}
  BY <1>2 DEF TInv, DecodeTile
<1>4. QED
  BY <1>1, <1>3, TilesStayThere DEF TInv

LEMMA CollectKeepsTInv == ASSUME TInv, Collect PROVE TInv'
<1>1. /\ UNCHANGED <<picture, decoded, tile, first_row, first_col, image>>
      /\ stage' \in {"panic", "combine"}
  BY DEF Collect, place
<1>2. \A i \in 1 .. Len(picture.tiles) : decoded[i] = picture.tiles[i]
  BY DEF TInv, Collect
<1>3. DOMAIN decoded = 1 .. Len(picture.tiles) /\ DOMAIN picture.tiles = 1 .. Len(picture.tiles)
  BY TiledPictureFacts DEF TInv
<1>4. stage' = "panic" => LostForATile
  BY <1>2, <1>3 DEF Collect, LostForATile
<1>5. stage' = "combine" => \A i \in 1 .. Len(picture.tiles) : picture.tiles[i].kind # "panic"
  BY <1>2, <1>3 DEF Collect
<1>6. QED
  BY <1>1, <1>2, <1>4, <1>5, TilesStayThere DEF TInv

(* The tile that is combined next.                                         *)
LEMMA TileToCombine ==
  ASSUME TInv, Combining
  PROVE  /\ tile \in Nat \ {0} /\ tile <= Len(picture.tiles) /\ Len(picture.tiles) \in Nat
         /\ decoded[tile] = picture.tiles[tile]
         /\ UsableBefore(tile) \in Nat
         /\ UsableBefore(tile + 1) = UsableBefore(tile)
                                      + (IF picture.tiles[tile].kind = "tile" THEN 1 ELSE 0)
<1>1. Len(picture.tiles) \in Nat
  BY TiledPictureFacts DEF TInv
<1>2. tile \in Nat \ {0} /\ tile <= Len(picture.tiles)
  BY <1>1 DEF TInv, Combining
<1>3. decoded[tile] = picture.tiles[tile]
  BY <1>1, <1>2 DEF TInv, Combining
<1>4. QED
  BY <1>1, <1>2, <1>3, UsableIsCounted

LEMMA SkipTileKeepsTInv == ASSUME TInv, SkipTile PROVE TInv'
<1>1. UNCHANGED <<picture, decoded, stage, first_row, first_col, image>>
      /\ tile' = tile + 1 /\ stage = "combine"
  BY DEF SkipTile, Combining
<1>2. /\ tile \in Nat \ {0} /\ tile <= Len(picture.tiles) /\ Len(picture.tiles) \in Nat
      /\ picture.tiles[tile].kind = "error"
      /\ UsableBefore(tile + 1) = UsableBefore(tile)
  BY TileToCombine DEF SkipTile
<1>3. tile' \in 1 .. Len(picture.tiles) + 1
  BY <1>1, <1>2
<1>4. \A p \in Pixels : IsDrawn(tile + 1, p, image[p])
  <2>1. SUFFICES ASSUME NEW p \in Pixels PROVE IsDrawn(tile + 1, p, image[p])
    OBVIOUS
  <2>2. IsDrawn(tile, p, image[p])
    BY DEF TInv
  <2>3. ~ Covers(tile, p)
    BY <1>2 DEF Covers
  <2>4. \A t : t \in 1 .. tile + 1 - 1 <=> t \in 1 .. tile - 1 \/ t = tile
    BY <1>2
  <2>5. QED
    BY <2>2, <2>3, <2>4 DEF IsDrawn
<1>5. IsPlace(UsableBefore(tile + 1), first_row, first_col)
  BY <1>2 DEF TInv
<1>6. QED
  BY <1>1, <1>3, <1>4, <1>5, TilesStayThere DEF TInv

LEMMA PlaceTileKeepsTInv == ASSUME TInv, PlaceTile PROVE TInv'
<1>1. UNCHANGED <<picture, decoded, stage>> /\ tile' = tile + 1 /\ stage = "combine"
  BY DEF PlaceTile, Combining
<1>2. /\ tile \in Nat \ {0} /\ tile <= Len(picture.tiles) /\ Len(picture.tiles) \in Nat
      /\ decoded[tile].kind = "tile" /\ picture.tiles[tile].kind = "tile"
      /\ UsableBefore(tile) \in Nat
      /\ UsableBefore(tile + 1) = UsableBefore(tile) + 1
  BY TileToCombine DEF PlaceTile
<1>3. tile' \in 1 .. Len(picture.tiles) + 1
  BY <1>1, <1>2
<1>4. IsPlace(UsableBefore(tile + 1), first_row', first_col')
  BY <1>2, PlaceIsKept DEF PlaceTile
<1>5. \A p \in Pixels : IsDrawn(tile + 1, p, image'[p])
  <2>1. SUFFICES ASSUME NEW p \in Pixels PROVE IsDrawn(tile + 1, p, image'[p])
    OBVIOUS
  <2>2. image'[p] = IF Covering(p) # {} THEN Copied(p) ELSE image[p]
    BY DEF PlaceTile
  <2>3. IsDrawn(tile, p, image[p])
    BY DEF TInv
  <2>4. \A t : t \in 1 .. tile + 1 - 1 <=> t \in 1 .. tile - 1 \/ t = tile
    BY <1>2
  <2>5. CASE Covers(tile, p)
    <3>1. image'[p] = PixelFrom(tile, p)
      BY <1>2, <2>2, <2>5, CoveringIsCovers
    <3>2. ASSUME NEW t \in 1 .. tile - 1 PROVE ~ Covers(t, p)
      <4>1. SUFFICES ASSUME Covers(t, p) PROVE FALSE
        OBVIOUS
      <4>2. t \in Nat \ {0} /\ t + 1 \in Nat \ {0} /\ tile >= t + 1
        BY <1>2
      <4>3. UsableBefore(t) \in Nat /\ UsableBefore(t + 1) = UsableBefore(t) + 1
        BY <4>1, <4>2, UsableIsCounted DEF Covers
      <4>4. UsableBefore(t + 1) <= UsableBefore(tile)
        BY <1>2, <4>2, UsableIsCounted
      <4>5. UsableBefore(t) = UsableBefore(tile)
        BY <2>5, <4>1 DEF Covers
      <4>6. QED
        BY <1>2, <4>3, <4>4, <4>5
    <3>3. QED
      BY <2>4, <2>5, <3>1, <3>2 DEF IsDrawn
  <2>6. CASE ~ Covers(tile, p)
    <3>1. image'[p] = image[p]
      BY <1>2, <2>2, <2>6, CoveringIsCovers
    <3>2. QED
      BY <2>3, <2>4, <2>6, <3>1 DEF IsDrawn
  <2>7. QED
    BY <2>5, <2>6
<1>6. QED
  BY <1>1, <1>3, <1>4, <1>5, TilesStayThere DEF TInv

(* Neither slice is out of its buffer, but for a tile that is too short    *)
(* (combine_tiles, copy_from_slice).                                       *)
LEMMA ShortTileKeepsTInv == ASSUME TInv, ShortTile PROVE TInv'
<1>1. UNCHANGED <<picture, decoded, tile, first_row, first_col, image>>
      /\ stage = "combine" /\ stage' = "panic"
  BY DEF ShortTile, Combining, place
<1>2. /\ tile \in Nat \ {0} /\ tile <= Len(picture.tiles) /\ Len(picture.tiles) \in Nat
      /\ decoded[tile] = picture.tiles[tile] /\ picture.tiles[tile].kind = "tile"
  BY TileToCombine DEF ShortTile
<1>3. PICK w, h, u, v, most \in Nat :
        /\ w = picture.width /\ h = picture.height /\ w > 0 /\ h > 0
        /\ u = picture.u_width /\ v = picture.u_height
        /\ most = picture.tiles[tile].values
  <2>1. picture \in TiledPicture /\ tile \in 1 .. Len(picture.tiles)
    BY <1>2 DEF TInv
  <2>2. picture.tiles[tile].values \in Nat
    BY <2>1, TiledPictureFacts
  <2>3. QED
    BY <2>1, <2>2, TiledPictureFacts
<1>4. PICK r \in Rows : \/ ~ (buf_pos(r) + row_len <= picture.width * picture.height)
                        \/ ~ (tile_pos(r) + row_len <= decoded[tile].values)
  BY DEF ShortTile, Fits
<1>5. r \in Nat /\ r < v /\ first_row + r < h
  BY <1>3, <1>4 DEF Rows
<1>6. PICK x \in Nat : x = first_col /\ x < w
  <2>1. PICK n \in Nat : n = UsableBefore(tile)
    BY <1>2, UsableIsCounted
  <2>2. IsPlace(n, first_row, first_col)
    BY <2>1 DEF TInv
  <2>3. CASE u = 0
    BY <1>3, <2>2, <2>3 DEF IsPlace
  <2>4. CASE u > 0
    <3>1. PICK a \in Nat : a = TilesAcross /\ a > 0
      BY <1>3, <2>4, Across DEF TilesAcross
    <3>2. PICK m \in Nat : m = n % a /\ m < a
      BY <2>1, <3>1, Divide
    <3>3. first_col = m * u
      BY <1>3, <2>2, <2>4, <3>1, <3>2 DEF IsPlace
    <3>4. (a - 1) * u < w
      BY <1>3, <2>4, <3>1, Across DEF TilesAcross
    <3>5. PICK b \in Nat : b = a - 1 /\ m <= b
      BY <3>1, <3>2
    <3>6. m * u <= b * u /\ b * u < w
      BY <1>3, <3>2, <3>4, <3>5, Products
    <3>7. m * u \in Nat /\ b * u \in Nat
      BY <1>3, <3>2, <3>5, ProductsAreNats
    <3>8. QED
      BY <1>3, <3>3, <3>6, <3>7
  <2>5. QED
    BY <1>3, <2>3, <2>4
<1>7. PICK y \in Nat : y = first_row
  <2>1. PICK n \in Nat : n = UsableBefore(tile)
    BY <1>2, UsableIsCounted
  <2>2. IsPlace(n, first_row, first_col)
    BY <2>1 DEF TInv
  <2>3. CASE u = 0
    BY <1>3, <2>2, <2>3 DEF IsPlace
  <2>4. CASE u > 0
    <3>1. PICK a \in Nat : a = TilesAcross /\ a > 0
      BY <1>3, <2>4, Across DEF TilesAcross
    <3>2. PICK q \in Nat : q = n \div a
      BY <2>1, <3>1, Divide
    <3>3. first_row = q * v
      BY <1>3, <2>2, <2>4, <3>1, <3>2 DEF IsPlace
    <3>4. QED
      BY <1>3, <3>2, <3>3, ProductsAreNats
  <2>5. QED
    BY <1>3, <2>3, <2>4
<1>8. PICK len \in Nat : len = row_len /\ len <= u /\ x + len <= w
  BY <1>3, <1>6 DEF row_len, Smaller
<1>9. buf_pos(r) + row_len <= picture.width * picture.height
  <2>1. buf_pos(r) = (y + r) * w + x
    BY <1>3, <1>6, <1>7 DEF buf_pos
  <2>2. y + r + 1 \in Nat /\ y + r + 1 <= h
    BY <1>3, <1>5, <1>7
  <2>3. (y + r + 1) * w <= h * w
    BY <1>3, <2>2, Products
  <2>4. PICK b \in Nat : b = (y + r) * w
    BY <1>3, <1>5, <1>7, ProductsAreNats
  <2>5. (y + r + 1) * w = b + w
    BY <1>3, <1>5, <1>7, <2>4
  <2>6. PICK all \in Nat : all = h * w /\ all = w * h
    BY <1>3, ProductsAreNats
  <2>7. QED
    BY <1>3, <1>6, <1>8, <2>1, <2>3, <2>4, <2>5, <2>6
<1>10. most < u * v
  <2>1. ~ (r * u + len <= most)
    BY <1>2, <1>3, <1>4, <1>8, <1>9 DEF tile_pos
  <2>2. (r + 1) * u <= v * u
    BY <1>3, <1>5, Products
  <2>3. PICK b \in Nat : b = r * u
    BY <1>3, <1>5, ProductsAreNats
  <2>4. (r + 1) * u = b + u
    <3>1. \A c, d \in Nat : (c + 1) * d = c * d + d
      OBVIOUS
    <3>2. QED
      BY ONLY <1>3, <1>5, <2>3, <3>1
  <2>5. PICK all \in Nat : all = u * v /\ all = v * u
    BY <1>3, ProductsAreNats
  <2>6. QED
    BY <1>3, <1>8, <2>1, <2>2, <2>3, <2>4, <2>5
<1>11. LostForATile
  BY <1>2, <1>3, <1>10, TiledPictureFacts DEF LostForATile, TInv
<1>12. QED
  BY <1>1, <1>11, TilesStayThere DEF TInv

LEMMA ReturnPictureKeepsTInv == ASSUME TInv, ReturnPicture PROVE TInv'
<1>1. UNCHANGED <<picture, decoded, tile, first_row, first_col, image>> /\ stage' = "done"
  BY DEF ReturnPicture, place
<1>2. ASSUME NEW p \in Pixels, NEW t \in tile .. Len(picture.tiles) PROVE ~ Covers(t, p)
  <2>1. CASE Complete
    BY <2>1, NothingIsLeft
  <2>2. CASE ~ Complete
    BY <2>2, TiledPictureFacts DEF ReturnPicture, Combining, TInv
  <2>3. QED
    BY <2>1, <2>2
<1>3. QED
  BY <1>1, <1>2, TilesStayThere DEF TInv

(* Pictures and tiles of every size, any number of tiles, decoded in any   *)
(* order: the tiles so far cover what is theirs (tiled.rs).                *)
THEOREM TilesInvariance == TilesSpec => []TInv
<1>1. ASSUME TInv, [TilesStep]_tilesVars PROVE TInv'
  <2>1. CASE UNCHANGED tilesVars
    <3>1. UNCHANGED <<picture, decoded, stage, tile, first_row, first_col, image>>
      BY <2>1 DEF tilesVars, place
    <3>2. QED
      BY <1>1, <3>1, TilesStayThere DEF TInv
  <2>2. CASE TilesStep
    BY <1>1, <2>2, DecodeTileKeepsTInv, CollectKeepsTInv, SkipTileKeepsTInv,
       PlaceTileKeepsTInv, ShortTileKeepsTInv, ReturnPictureKeepsTInv DEF TilesStep
  <2>3. QED
    BY <1>1, <2>1, <2>2
<1>2. QED
  BY <1>1, TilesInitHolds, PTL DEF TilesSpec

(* Every pixel of a picture that is returned is the one of the tile that   *)
(* covers it, and a picture is lost only for a tile that panics or is too  *)
(* short (tiled.rs, combine_tiles).                                        *)
THEOREM TilesCoverThePicture == TilesSpec => []PixelsAreOfTheirTile
<1>1. TInv => PixelsAreOfTheirTile
  <2>1. SUFFICES ASSUME TInv PROVE PixelsAreOfTheirTile
    OBVIOUS
  <2>2. DOMAIN picture.tiles = 1 .. Len(picture.tiles) /\ Len(picture.tiles) \in Nat
        /\ tile \in 1 .. Len(picture.tiles) + 1
    <3>1. picture \in TiledPicture /\ tile \in 1 .. Len(picture.tiles) + 1
      BY <2>1 DEF TInv
    <3>2. QED
      BY <3>1, TiledPictureFacts
  <2>3. ASSUME stage = "done", NEW p \in Pixels
        PROVE  /\ \A t \in DOMAIN picture.tiles : Covers(t, p) => image[p] = PixelFrom(t, p)
               /\ image[p] # Garbage => \E t \in DOMAIN picture.tiles : Covers(t, p)
    <3>1. IsDrawn(tile, p, image[p])
      BY <2>1 DEF TInv
    <3>2. \A t \in tile .. Len(picture.tiles) : ~ Covers(t, p)
      BY <2>1, <2>3 DEF TInv
    <3>3. \A t : t \in DOMAIN picture.tiles <=>
                   t \in 1 .. tile - 1 \/ t \in tile .. Len(picture.tiles)
      BY <2>2
    <3>4. QED
      BY <3>1, <3>2, <3>3 DEF IsDrawn
  <2>4. stage = "panic" => LostForATile
    BY <2>1 DEF TInv
  <2>5. QED
    BY <2>3, <2>4 DEF PixelsAreOfTheirTile, LostForATile
<1>2. QED
  BY <1>1, TilesInvariance, PTL
-----------------------------------------------------------------------------
(* The cursor of a picture in slices when n values were appended: in a row *)
(* and at a column of the slice, or past the last slice.                   *)
AtPlace(n, s, r, x, q) ==
  /\ s \in 1 .. Len(slices) /\ r \in Nat /\ r < height /\ x \in Nat /\ x < slices[s]
  /\ q = r * width + (Offset(s) + x)
  /\ n = height * Offset(s) + (r * slices[s] + x)

IsAt(n, s, off, w, ro, q) ==
  IF Len(slices) = 1 THEN q = n
  ELSE /\ s \in 1 .. Len(slices) + 1 /\ off = Offset(s) /\ w = WidthOf(s)
       /\ IF s <= Len(slices)
          THEN \E r, x \in Nat : AtPlace(n, s, r, x, q) /\ ro = r * width + Offset(s)
          ELSE n = height * Total

IsWritten(n, p, v) ==
  /\ \A s \in DOMAIN slices :
       InSlice(s, p) => v = IF NumberOf(s, p) <= n THEN NumberOf(s, p) ELSE 0
  /\ v # 0 => \E s \in DOMAIN slices : InSlice(s, p)

SInv ==
  /\ sliced \in SlicedPicture
  /\ appended \in Nat
  /\ DOMAIN buffer = Places
  /\ SlicesFit /\ appended <= height * Total =>
       /\ ~failed
       /\ IsAt(appended, slice, slice_offset, slice_width, row_offset, pos)
       /\ \A p \in Places : IsWritten(appended, p, buffer[p])

LEMMA SlicedPictureFacts ==
  ASSUME sliced \in SlicedPicture
  PROVE  /\ width \in Nat /\ width > 0 /\ height \in Nat /\ height > 0
         /\ Len(slices) \in Nat /\ Len(slices) > 0 /\ DOMAIN slices = 1 .. Len(slices)
         /\ \A s \in 1 .. Len(slices) : slices[s] \in Nat
<1>1. width \in Nat \ {0} /\ height \in Nat \ {0} /\ slices \in Seq(Nat) /\ slices # <<>>
  BY DEF SlicedPicture, width, height, slices
<1>2. QED
  BY <1>1

(* A slice starts where the one before it ends.                            *)
LEMMA OffsetsFollow ==
  ASSUME sliced \in SlicedPicture
  PROVE  /\ Offset(1) = 0
         /\ \A s \in 1 .. Len(slices) + 1 : Offset(s) \in Nat
         /\ \A s \in 1 .. Len(slices) : Offset(s + 1) = Offset(s) + slices[s]
         /\ \A s, t \in 1 .. Len(slices) + 1 : s <= t => Offset(s) <= Offset(t)
<1> DEFINE Cells(t) == {t} \X (1 .. slices[t])
           Before(s) == UNION {Cells(t) : t \in 1 .. s - 1}
<1>1. /\ Len(slices) \in Nat /\ Len(slices) > 0
      /\ \A s \in 1 .. Len(slices) : slices[s] \in Nat
  BY SlicedPictureFacts
<1>2. \A s : Offset(s) = Cardinality(Before(s))
  BY DEF Offset
<1>3. ASSUME NEW t \in 1 .. Len(slices)
      PROVE  IsFiniteSet(Cells(t)) /\ Cardinality(Cells(t)) = slices[t]
  <2>1. PICK n \in Nat : n = slices[t]
    BY <1>1
  <2>2. IsFiniteSet(1 .. n) /\ Cardinality(1 .. n) = n
    <3>1. 1 \in Int /\ n \in Int /\ (IF 1 > n THEN 0 ELSE n - 1 + 1) = n
      BY <2>1
    <3>2. QED
      BY ONLY <3>1, FS_Interval
  <2>3. IsFiniteSet({t}) /\ Cardinality({t}) = 1
    BY FS_Singleton
  <2>4. IsFiniteSet({t} \X (1 .. n)) /\ Cardinality({t} \X (1 .. n)) = 1 * n
    BY ONLY <2>2, <2>3, FS_Product
  <2>5. QED
    BY <2>1, <2>4
<1>4. ASSUME NEW s \in 1 .. Len(slices) + 1 PROVE IsFiniteSet(Before(s))
  <2> DEFINE S == 1 .. s - 1
             T == {Cells(t) : t \in S}
             f == [t \in S |-> Cells(t)]
  <2>1. IsFiniteSet(S)
    <3>1. 1 \in Int /\ s - 1 \in Int
      BY <1>1
    <3>2. QED
      BY ONLY <3>1, FS_Interval
  <2>2. f \in Surjection(S, T)
    <3>1. f \in [S -> T] /\ \A y \in T : \E t \in S : f[t] = y
      BY DEF f, T
    <3>2. QED
      BY <3>1 DEF Surjection
  <2>3. IsFiniteSet(T)
    BY ONLY <2>1, <2>2, FS_Surjection
  <2>4. \A y \in T : IsFiniteSet(y)
    BY <1>1, <1>3
  <2>5. QED
    BY ONLY <2>3, <2>4, FS_UNION
<1>5. Offset(1) = 0
  <2>1. Before(1) = {}
    OBVIOUS
  <2>2. QED
    BY <1>2, <2>1, FS_EmptySet
<1>6. \A s \in 1 .. Len(slices) + 1 : Offset(s) \in Nat
  BY <1>2, <1>4, FS_CardinalityType
<1>7. ASSUME NEW s \in 1 .. Len(slices) PROVE Offset(s + 1) = Offset(s) + slices[s]
  <2>1. s \in 1 .. Len(slices) + 1
    BY <1>1
  <2>2. Before(s + 1) = Before(s) \cup Cells(s)
    BY <1>1
  <2>3. Before(s) \cap Cells(s) = {}
    BY <1>1
  <2>4. IsFiniteSet(Before(s)) /\ IsFiniteSet(Cells(s)) /\ Cardinality(Cells(s)) = slices[s]
    BY <1>3, <1>4, <2>1
  <2> HIDE DEF Before, Cells
  <2>5. Cardinality(Before(s) \cup Cells(s)) =
          Cardinality(Before(s)) + Cardinality(Cells(s)) - Cardinality(Before(s) \cap Cells(s))
    BY <2>4, FS_Union
  <2>6. Cardinality(Before(s) \cap Cells(s)) = 0
    BY <2>3, FS_EmptySet
  <2>7. PICK a, b \in Nat : a = Offset(s) /\ b = slices[s]
    BY <1>1, <1>6, <2>1
  <2>8. Offset(s + 1) = a + b - 0
    BY <1>2, <2>2, <2>4, <2>5, <2>6, <2>7
  <2>9. QED
    BY <2>7, <2>8
<1>8. ASSUME NEW s \in 1 .. Len(slices) + 1, NEW t \in 1 .. Len(slices) + 1, s <= t
      PROVE  Offset(s) <= Offset(t)
  <2>1. Before(s) \subseteq Before(t)
    BY <1>1, <1>8
  <2>2. Cardinality(Before(s)) <= Cardinality(Before(t))
    BY <1>4, <2>1, FS_Subset
  <2>3. QED
    BY <1>2, <2>2
<1>9. QED
  BY <1>5, <1>6, <1>7, <1>8

(* SlicedBuffer::extend writes where the next value belongs, and where no  *)
(* other does.                                                             *)
LEMMA PlaceIsItsOwn ==
  ASSUME sliced \in SlicedPicture, SlicesFit,
         NEW n \in Nat, NEW s, NEW r, NEW x, NEW q, AtPlace(n, s, r, x, q)
  PROVE  /\ q \in Places /\ q \div width = r /\ q % width = Offset(s) + x
         /\ InSlice(s, q) /\ NumberOf(s, q) = n + 1
         /\ \A t \in DOMAIN slices : InSlice(t, q) => t = s
         /\ \A p \in Places, t \in DOMAIN slices :
              InSlice(t, p) /\ NumberOf(t, p) = n + 1 => p = q
<1>1. PICK w, h, last \in Nat :
        w = width /\ w > 0 /\ h = height /\ h > 0 /\ last = Len(slices) /\ last > 0
  BY SlicedPictureFacts
<1>2. DOMAIN slices = 1 .. last
  BY <1>1, SlicedPictureFacts
<1>3. s \in 1 .. last /\ r \in Nat /\ r < h /\ x \in Nat /\ x < slices[s]
      /\ q = r * w + (Offset(s) + x) /\ n = h * Offset(s) + (r * slices[s] + x)
  BY <1>1 DEF AtPlace
<1>4. PICK off, len \in Nat :
        off = Offset(s) /\ len = slices[s] /\ Offset(s + 1) = off + len
  <2>1. s \in 1 .. Len(slices) /\ s \in 1 .. Len(slices) + 1
    BY <1>1, <1>3
  <2>2. Offset(s) \in Nat /\ slices[s] \in Nat /\ Offset(s + 1) = Offset(s) + slices[s]
    BY <2>1, SlicedPictureFacts, OffsetsFollow
  <2>3. QED
    BY <2>2
<1>5. off + len <= w
  <2>1. Offset(s + 1) <= Total
    <3>1. /\ s + 1 \in 1 .. Len(slices) + 1 /\ Len(slices) + 1 \in 1 .. Len(slices) + 1
          /\ s + 1 <= Len(slices) + 1
      BY <1>1, <1>3
    <3>2. QED
      BY <3>1, OffsetsFollow DEF Total
  <2>2. Total <= w
    <3>1. CASE Len(slices) = 1
      BY <1>1, <3>1, OffsetsFollow DEF SlicesFit, Total
    <3>2. CASE Len(slices) # 1
      BY <1>1, <3>2 DEF SlicesFit
    <3>3. QED
      BY <3>1, <3>2
  <2>3. Total \in Nat
    BY <1>1, OffsetsFollow DEF Total
  <2>4. QED
    BY <1>4, <2>1, <2>2, <2>3
<1>6. x < len /\ off + x \in Nat /\ off + x < w
  BY <1>3, <1>4, <1>5
<1>7. PICK a, b, c \in Nat : a = r * w /\ b = h * off /\ c = r * len
  BY <1>1, <1>3, <1>4, ProductsAreNats
<1>8. q \in Nat /\ q = a + (off + x) /\ n = b + (c + x)
  BY <1>3, <1>4, <1>7
<1>9. IsDivided(q, w, r, off + x)
  BY <1>1, <1>3, <1>6, <1>7, <1>8 DEF IsDivided
<1>10. q \div w = r /\ q % w = off + x
  BY <1>9, Divided
<1>11. q \in Places
  <2>1. q < h * w
    BY <1>1, <1>3, <1>9, QuotientIsLess
  <2>2. PICK all \in Nat : all = h * w /\ all = w * h
    BY <1>1, ProductsAreNats
  <2>3. QED
    BY <1>1, <1>8, <2>1, <2>2 DEF Places
<1>12. InSlice(s, q)
  <2>1. q % width = off + x
    BY <1>1, <1>10
  <2>2. QED
    BY <1>3, <1>4, <1>6, <2>1 DEF InSlice
<1>13. NumberOf(s, q) = n + 1
  <2>1. NumberOf(s, q) = b + c + (off + x - off) + 1
    <3>1. q % width = off + x /\ q \div width = r
      BY <1>1, <1>10
    <3>2. height * Offset(s) = b /\ (q \div width) * slices[s] = c
      BY <1>1, <1>4, <1>7, <3>1
    <3>3. NumberOf(s, q) = height * Offset(s) + (q \div width) * slices[s]
                             + ((q % width) - Offset(s)) + 1
      BY DEF NumberOf
    <3>4. (q % width) - Offset(s) = off + x - off
      BY ONLY <1>3, <1>4, <3>1
    <3>5. QED
      BY ONLY <3>2, <3>3, <3>4
  <2>2. QED
    BY <1>3, <1>4, <1>7, <1>8, <2>1
(* Two slices have no column in common, and no value.                      *)
<1>14. ASSUME NEW t \in 1 .. last, t # s
       PROVE  \/ Offset(t) + slices[t] <= off
              \/ off + len <= Offset(t)
  <2>1. /\ s \in 1 .. Len(slices) + 1 /\ t \in 1 .. Len(slices) + 1
        /\ s + 1 \in 1 .. Len(slices) + 1 /\ t + 1 \in 1 .. Len(slices) + 1
        /\ t + 1 <= s \/ s + 1 <= t
    BY <1>1, <1>3, <1>14
  <2>2. Offset(t + 1) = Offset(t) + slices[t]
    BY <1>1, OffsetsFollow
  <2>3. Offset(t + 1) <= off \/ off + len <= Offset(t)
    BY <1>4, <2>1, OffsetsFollow
  <2>4. QED
    BY <2>2, <2>3
<1>15. ASSUME NEW t \in 1 .. last, InSlice(t, q) PROVE t = s
  <2>1. SUFFICES ASSUME t # s PROVE FALSE
    OBVIOUS
  <2>2. PICK o, l \in Nat : o = Offset(t) /\ l = slices[t]
    BY <1>1, SlicedPictureFacts, OffsetsFollow
  <2>3. o <= off + x /\ off + x < o + l
    BY <1>1, <1>10, <1>15, <2>2 DEF InSlice
  <2>4. o + l <= off \/ off + len <= o
    BY <1>14, <2>1, <2>2
  <2>5. QED
    BY <1>3, <1>4, <1>6, <2>2, <2>3, <2>4
<1>16. ASSUME NEW p \in Places, NEW t \in 1 .. last, InSlice(t, p), NumberOf(t, p) = n + 1
       PROVE  p = q
  <2>1. p \in Nat /\ p < w * h
    BY <1>1 DEF Places
  <2>2. PICK i, j \in Nat : i = p \div w /\ j = p % w /\ p = i * w + j /\ j < w
    BY <1>1, <2>1, Divide
  <2>3. PICK o, l \in Nat : o = Offset(t) /\ l = slices[t]
    BY <1>1, SlicedPictureFacts, OffsetsFollow
  <2>4. PICK y \in Nat : y = j - o /\ y < l /\ j = o + y
    <3>1. o <= j /\ j < o + l
      BY <1>1, <1>16, <2>2, <2>3 DEF InSlice
    <3>2. QED
      BY <2>2, <2>3, <3>1
  <2>5. i < h
    <3>1. IsDivided(p, w, i, j)
      BY <1>1, <2>1, <2>2 DEF IsDivided
    <3>2. p < h * w
      BY <1>1, <2>1
    <3>3. QED
      BY <1>1, <3>1, <3>2, QuotientIsLess
  <2>6. PICK d, e \in Nat : d = h * o /\ e = i * l
    BY <1>1, <2>2, <2>3, ProductsAreNats
  <2>7. n = d + (e + y)
    <3>1. NumberOf(t, p) = d + e + y + 1
      BY <1>1, <2>2, <2>3, <2>4, <2>6 DEF NumberOf
    <3>2. QED
      BY <1>16, <2>4, <2>6, <3>1
  <2>8. t = s
    <3>1. SUFFICES ASSUME t # s PROVE FALSE
      OBVIOUS
    <3>2. o + l <= off \/ off + len <= o
      BY <1>14, <2>3, <3>1
    <3>3. e + y < h * l
      <4>1. IsDivided(e + y, l, i, y)
        <5>1. i \in Nat
          BY <2>2
        <5>2. QED
          BY ONLY <5>1, <2>3, <2>4, <2>6 DEF IsDivided
      <4>2. QED
        BY <1>1, <2>5, <4>1, QuotientIsLess
    <3>4. c + x < h * len
      <4>1. IsDivided(c + x, len, r, x)
        BY <1>3, <1>4, <1>6, <1>7 DEF IsDivided
      <4>2. QED
        BY <1>1, <1>3, <4>1, QuotientIsLess
    <3>5. PICK f, g \in Nat : f = h * l /\ g = h * len
      BY <1>1, <1>4, <2>3, ProductsAreNats
    <3>6. CASE o + l <= off
      <4>1. (o + l) * h <= off * h
        BY <1>1, <1>4, <2>3, <3>6, Products
      <4>2. (o + l) * h = d + f /\ off * h = b
        <5>1. (o + l) * h = h * o + h * l /\ off * h = h * off
          BY ONLY <1>1, <1>4, <2>3, Distributes
        <5>2. QED
          BY ONLY <1>7, <2>6, <3>5, <5>1
      <4>3. QED
        BY <1>3, <1>7, <1>8, <2>4, <2>6, <2>7, <3>3, <3>5, <4>1, <4>2
    <3>7. CASE off + len <= o
      <4>1. (off + len) * h <= o * h
        BY <1>1, <1>4, <2>3, <3>7, Products
      <4>2. (off + len) * h = b + g /\ o * h = d
        <5>1. (off + len) * h = h * off + h * len /\ o * h = h * o
          BY ONLY <1>1, <1>4, <2>3, Distributes
        <5>2. QED
          BY ONLY <1>7, <2>6, <3>5, <5>1
      <4>3. QED
        BY <1>3, <1>7, <1>8, <2>4, <2>6, <2>7, <3>4, <3>5, <4>1, <4>2
    <3>8. QED
      BY <3>2, <3>6, <3>7
  <2>9. o = off /\ l = len /\ d = b
    BY <1>4, <1>7, <2>3, <2>6, <2>8
  <2>10. IsDivided(c + x, len, r, x) /\ IsDivided(c + x, len, i, y)
    <3>1. c + x = e + y
      BY <1>3, <1>7, <1>8, <2>4, <2>6, <2>7, <2>9
    <3>2. IsDivided(c + x, len, r, x)
      BY ONLY <1>3, <1>4, <1>6, <1>7 DEF IsDivided
    <3>3. i \in Nat
      BY <2>2
    <3>4. IsDivided(e + y, l, i, y)
      BY ONLY <2>3, <2>4, <2>6, <3>3 DEF IsDivided
    <3>5. QED
      BY <2>9, <3>1, <3>2, <3>4
  <2>11. r = i /\ x = y
    BY <2>10, Divided
  <2>12. QED
    BY <1>7, <1>8, <2>2, <2>4, <2>9, <2>11
<1>17. QED
  BY <1>1, <1>2, <1>4, <1>10, <1>11, <1>12, <1>13, <1>15, <1>16

(* One more value is written (SlicedBuffer::extend).                       *)
LEMMA OneMoreIsWritten ==
  ASSUME sliced \in SlicedPicture, SlicesFit,
         NEW n \in Nat, NEW s, NEW r, NEW x, NEW q, AtPlace(n, s, r, x, q),
         NEW p \in Places, NEW v, IsWritten(n, p, v)
  PROVE  IsWritten(n + 1, p, IF p = q THEN n + 1 ELSE v)
<1>1. /\ InSlice(s, q) /\ NumberOf(s, q) = n + 1
      /\ \A t \in DOMAIN slices : InSlice(t, q) => t = s
      /\ \A t \in DOMAIN slices : InSlice(t, p) /\ NumberOf(t, p) = n + 1 => p = q
  BY PlaceIsItsOwn
<1>2. s \in DOMAIN slices
  BY SlicedPictureFacts DEF AtPlace
<1>3. CASE p = q
  BY <1>1, <1>2, <1>3 DEF IsWritten
<1>4. CASE p # q
  <2>1. ASSUME NEW t \in DOMAIN slices, InSlice(t, p)
        PROVE  v = IF NumberOf(t, p) <= n + 1 THEN NumberOf(t, p) ELSE 0
    <3>1. NumberOf(t, p) # n + 1
      BY <1>1, <1>4, <2>1
    <3>2. v = IF NumberOf(t, p) <= n THEN NumberOf(t, p) ELSE 0
      BY <2>1 DEF IsWritten
    <3>3. NumberOf(t, p) \in Int
      <4>1. /\ t \in 1 .. Len(slices) /\ height \in Nat /\ width \in Nat /\ width > 0
            /\ Offset(t) \in Nat /\ slices[t] \in Nat
        BY SlicedPictureFacts, OffsetsFollow
      <4>2. PICK i, j \in Nat : i = p \div width /\ j = p % width
        <5>1. p \in Nat
          BY <4>1 DEF Places
        <5>2. QED
          BY <4>1, <5>1, Divide
      <4>3. height * Offset(t) \in Nat /\ i * slices[t] \in Nat
        BY <4>1, <4>2, ProductsAreNats
      <4>4. QED
        <5>1. NumberOf(t, p) = height * Offset(t) + i * slices[t] + (j - Offset(t)) + 1
          BY <4>2 DEF NumberOf
        <5>2. PICK a, b \in Nat : a = height * Offset(t) /\ b = i * slices[t]
          BY <4>3
        <5>3. j - Offset(t) \in Int
          BY <4>1, <4>2
        <5>4. QED
          BY ONLY <5>1, <5>2, <5>3
    <3>4. QED
      BY <3>1, <3>2, <3>3
  <2>2. QED
    BY <1>4, <2>1 DEF IsWritten
<1>5. QED
  BY <1>3, <1>4

(* The cursor moves to the place of the next value (SlicedBuffer::advance, *)
(* next_row and next_slice).                                               *)
LEMMA AdvanceKeepsPlace ==
  ASSUME sliced \in SlicedPicture, SlicesFit, Len(slices) > 1,
         NEW n \in Nat, IsAt(n, slice, slice_offset, slice_width, row_offset, pos),
         slice <= Len(slices), advance
  PROVE  IsAt(n + 1, slice', slice_offset', slice_width', row_offset', pos')
<1>1. PICK w, h, last \in Nat :
        w = width /\ w > 0 /\ h = height /\ h > 0 /\ last = Len(slices) /\ last > 1
  BY SlicedPictureFacts
<1>2. slice \in 1 .. last /\ slice_offset = Offset(slice) /\ slice_width = slices[slice]
  BY <1>1 DEF IsAt, WidthOf
<1>3. PICK s : s = slice
  OBVIOUS
<1>4. s \in 1 .. last
  BY <1>2, <1>3
<1>5. PICK off, len \in Nat :
        /\ off = Offset(s) /\ len = slices[s] /\ Offset(s + 1) = off + len
        /\ slice_offset = off /\ slice_width = len
  <2>1. s \in 1 .. Len(slices) /\ s \in 1 .. Len(slices) + 1
    BY <1>1, <1>4
  <2>2. QED
    BY <1>2, <1>3, <2>1, SlicedPictureFacts, OffsetsFollow
<1>6. PICK r, x \in Nat : AtPlace(n, s, r, x, pos) /\ row_offset = r * w + off
  <2>1. \E r, x \in Nat : AtPlace(n, s, r, x, pos) /\ row_offset = r * width + Offset(s)
    BY <1>1, <1>3 DEF IsAt
  <2>2. QED
    BY <1>1, <1>5, <2>1
<1>7. r < h /\ x < len /\ pos = r * w + (off + x) /\ n = h * off + (r * len + x)
  BY <1>1, <1>5, <1>6 DEF AtPlace
<1>8. r \in Nat /\ x \in Nat /\ r < h /\ x < len
  BY <1>6, <1>7
<1>9. PICK a, b, c \in Nat : a = r * w /\ b = h * off /\ c = r * len
  BY <1>1, <1>5, <1>6, ProductsAreNats
<1>10. PICK q, ro \in Nat :
        /\ a \in Nat /\ b \in Nat /\ c \in Nat /\ q = pos /\ ro = row_offset
        /\ q = a + (off + x) /\ ro = a + off /\ n = b + (c + x)
  BY <1>6, <1>7, <1>9
<1>11. IF x + 1 >= len THEN next_row
      ELSE pos' = q + 1 /\ UNCHANGED <<slice, slice_offset, slice_width, row_offset>>
  <2>1. IF q + 1 - ro >= len THEN next_row
        ELSE pos' = q + 1 /\ UNCHANGED <<slice, slice_offset, slice_width, row_offset>>
    BY <1>5, <1>10 DEF advance
  <2>2. q + 1 - ro = x + 1
    BY ONLY off \in Nat, <1>5, <1>8, <1>10
  <2>3. QED
    BY <2>1, <2>2
<1>12. row = r + 1
  <2>1. pos \div width = r
    BY <1>6, PlaceIsItsOwn
  <2>2. QED
    BY <2>1 DEF row
<1>13. (r + 1) * w = a + w /\ (r + 1) * len = c + len
  <2>1. \A d, e \in Nat : (d + 1) * e = d * e + e
    OBVIOUS
  <2>2. QED
    BY ONLY <1>1, <1>5, <1>8, <1>9, <2>1
<1>14. CASE x + 1 < len
  <2>1. pos' = pos + 1 /\ UNCHANGED <<slice, slice_offset, slice_width, row_offset>>
    <3>1. ~ (x + 1 >= len)
      BY ONLY <1>8, <1>14, len \in Nat
    <3>2. q = pos
      BY <1>10
    <3>3. QED
      BY ONLY <1>11, <3>1, <3>2
  <2>2. AtPlace(n + 1, s, r, x + 1, pos')
    <3>1. pos' = a + (off + (x + 1)) /\ n + 1 = b + (c + (x + 1))
      <4>1. pos' = q + 1
        BY <1>10, <2>1
      <4>2. QED
        BY ONLY off \in Nat, <1>5, <1>8, <1>10, <4>1
    <3>2. QED
      BY <1>1, <1>4, <1>5, <1>8, <1>9, <1>14, <3>1 DEF AtPlace
  <2>3. slice' = s /\ slice_offset' = Offset(s) /\ slice_width' = WidthOf(s)
        /\ row_offset' = r * width + Offset(s)
    BY <1>1, <1>2, <1>3, <1>5, <1>6, <2>1 DEF WidthOf
  <2>4. QED
    BY <1>1, <1>4, <1>8, <2>2, <2>3 DEF IsAt
<1>15. CASE x + 1 = len /\ r + 1 < h
  <2>1. pos' = (r + 1) * w + off /\ row_offset' = pos'
        /\ UNCHANGED <<slice, slice_offset, slice_width>>
    <3>1. next_row
      BY <1>5, <1>8, <1>11, <1>15
    <3>2. row = r + 1 /\ row # height
      BY <1>1, <1>8, <1>12, <1>15
    <3>3. QED
      BY <1>1, <1>5, <3>1, <3>2 DEF next_row
  <2>2. AtPlace(n + 1, s, r + 1, 0, pos')
    <3>1. pos' = (r + 1) * w + (off + 0)
      BY <1>1, <1>5, <1>8, <1>9, <1>13, <2>1
    <3>2. n + 1 = b + (c + len + 0)
      <4>1. n \in Nat
        OBVIOUS
      <4>2. QED
        BY ONLY <4>1, <1>5, <1>8, <1>10, <1>15
    <3>3. n + 1 = height * Offset(s) + ((r + 1) * slices[s] + 0)
      BY <1>1, <1>5, <1>9, <1>13, <3>2
    <3>4. pos' = (r + 1) * width + (Offset(s) + 0)
      BY <1>1, <1>5, <3>1
    <3>5. r + 1 \in Nat /\ r + 1 < height /\ 0 < slices[s] /\ s \in 1 .. Len(slices)
      BY <1>1, <1>4, <1>5, <1>8, <1>15
    <3>6. QED
      BY <3>3, <3>4, <3>5 DEF AtPlace
  <2>3. slice' = s /\ slice_offset' = Offset(s) /\ slice_width' = WidthOf(s)
        /\ row_offset' = (r + 1) * width + Offset(s)
    BY <1>1, <1>2, <1>3, <1>5, <2>1 DEF WidthOf
  <2>4. r + 1 \in Nat /\ 0 \in Nat
    BY <1>8
  <2>5. QED
    <3>1. \E i, j \in Nat :
            AtPlace(n + 1, s, i, j, pos') /\ row_offset' = i * width + Offset(s)
      BY <2>2, <2>3, <2>4
    <3>2. s \in 1 .. Len(slices) + 1 /\ s <= Len(slices)
      BY <1>1, <1>4
    <3>3. QED
      BY <1>1, <2>3, <3>1, <3>2 DEF IsAt
<1>16. CASE x + 1 = len /\ r + 1 = h
  <2>1. /\ slice' = s + 1 /\ slice_offset' = off + len /\ slice_width' = WidthOf(s + 1)
        /\ pos' = 0 * w + (off + len) /\ row_offset' = pos'
    <3>1. next_row
      BY <1>5, <1>8, <1>11, <1>16
    <3>2. row = height
      BY <1>1, <1>8, <1>12, <1>16
    <3>3. next_slice /\ pos' = 0 * width + slice_offset' /\ row_offset' = pos'
      BY <3>1, <3>2 DEF next_row
    <3>4. WidthOf(slice) = len
      BY <1>1, <1>2, <1>5 DEF WidthOf
    <3>5. QED
      BY <1>1, <1>2, <1>3, <1>5, <3>3, <3>4 DEF next_slice
  <2>2. n + 1 = h * Offset(s + 1)
    <3>1. n + 1 = b + (c + len)
      <4>1. n \in Nat
        OBVIOUS
      <4>2. QED
        BY ONLY <4>1, <1>5, <1>8, <1>10, <1>16
    <3>2. (off + len) * h = h * off + h * len /\ (off + len) * h = h * (off + len)
      BY ONLY <1>1, <1>5, Distributes
    <3>3. h * len = c + len
      BY <1>13, <1>16
    <3>4. QED
      BY <1>5, <1>9, <3>1, <3>2, <3>3
  <2>3. CASE s + 1 <= last
    <3>1. s + 1 \in 1 .. Len(slices)
      BY <1>1, <1>4, <2>3
    <3>2. slices[s + 1] \in Nat /\ slices[s + 1] > 0
      BY <3>1, SlicedPictureFacts DEF SlicesFit
    <3>3. 0 * slices[s + 1] = 0 /\ 0 * w = 0
      BY <1>1, <3>2
    <3>4. n + 1 = height * Offset(s + 1) + (0 * slices[s + 1] + 0)
      BY <1>1, <1>5, <2>2, <3>3
    <3>5. pos' = 0 * width + (Offset(s + 1) + 0) /\ row_offset' = 0 * width + Offset(s + 1)
      BY <1>1, <1>5, <2>1, <3>3
    <3>6. AtPlace(n + 1, s + 1, 0, 0, pos')
      BY <1>1, <3>1, <3>2, <3>4, <3>5 DEF AtPlace
    <3>7. \E y, z \in Nat : /\ AtPlace(n + 1, s + 1, y, z, pos')
                           /\ row_offset' = y * width + Offset(s + 1)
      BY <3>5, <3>6
    <3>8. s + 1 <= Len(slices) /\ s + 1 \in 1 .. Len(slices) + 1
      BY <1>1, <3>1
    <3>9. /\ slice' = s + 1 /\ slice_offset' = Offset(s + 1)
          /\ slice_width' = WidthOf(s + 1) /\ Len(slices) # 1
      <4>1. slice' = s + 1 /\ slice_offset' = Offset(s + 1) /\ slice_width' = WidthOf(s + 1)
        BY ONLY <1>5, <2>1
      <4>2. Len(slices) # 1
        BY ONLY <1>1
      <4>3. QED
        BY <4>1, <4>2
    <3>10. QED
      BY ONLY <3>7, <3>8, <3>9 DEF IsAt
  <2>4. CASE ~ (s + 1 <= last)
    <3>1. s + 1 = Len(slices) + 1 /\ s + 1 \in 1 .. Len(slices) + 1
      BY <1>1, <1>4, <2>4
    <3>2. n + 1 = height * Total
      BY <1>1, <2>2, <3>1 DEF Total
    <3>3. slice' = s + 1 /\ slice_offset' = Offset(s + 1) /\ slice_width' = WidthOf(s + 1)
      BY ONLY <1>5, <2>1
    <3>4. Len(slices) # 1 /\ ~ (s + 1 <= Len(slices))
      BY ONLY <1>1, <3>1
    <3>5. QED
      BY ONLY <3>1, <3>2, <3>3, <3>4 DEF IsAt
  <2>5. QED
    BY <2>3, <2>4
<1>17. QED
  BY <1>1, <1>5, <1>8, <1>14, <1>15, <1>16

(* What the definitions of a picture in slices say does not change.        *)
LEMMA SlicesStayThere ==
  ASSUME UNCHANGED sliced
  PROVE  /\ Places' = Places /\ Total' = Total /\ height' = height
         /\ (SlicesFit' <=> SlicesFit)
         /\ \A n, p, v : IsWritten(n, p, v)' <=> IsWritten(n, p, v)
         /\ \A n, s, off, w, ro, q : IsAt(n, s, off, w, ro, q)' <=> IsAt(n, s, off, w, ro, q)
<1>1. slices' = slices /\ width' = width /\ height' = height /\ Places' = Places
  BY DEF slices, width, height, Places
<1>2. \A s : Offset(s)' = Offset(s)
  BY <1>1 DEF Offset
<1>3. Total' = Total /\ (SlicesFit' <=> SlicesFit)
  BY <1>1, <1>2 DEF Total, SlicesFit
<1>4. \A s, p : (InSlice(s, p)' <=> InSlice(s, p)) /\ NumberOf(s, p)' = NumberOf(s, p)
  BY <1>1, <1>2 DEF InSlice, NumberOf
<1>5. \A n, p, v : IsWritten(n, p, v)' <=> IsWritten(n, p, v)
  BY <1>1, <1>4 DEF IsWritten
<1>6. \A n, s, r, x, q : AtPlace(n, s, r, x, q)' <=> AtPlace(n, s, r, x, q)
  BY <1>1, <1>2 DEF AtPlace
<1>7. \A n, s, off, w, ro, q : IsAt(n, s, off, w, ro, q)' <=> IsAt(n, s, off, w, ro, q)
  BY <1>1, <1>2, <1>3, <1>6 DEF IsAt, WidthOf
<1>8. QED
  BY <1>1, <1>3, <1>5, <1>7

LEMMA SlicedInitHolds == ASSUME SlicedInit PROVE SInv
<1>1. sliced \in SlicedPicture
  BY SlicedBufferAssumption DEF SlicedInit
<1>2. PICK h, w, last \in Nat :
        h = height /\ h > 0 /\ w = width /\ w > 0 /\ last = Len(slices) /\ last > 0
  BY <1>1, SlicedPictureFacts
<1>3. ASSUME SlicesFit PROVE IsAt(0, 1, 0, slices[1], 0, 0)
  <2>1. CASE last = 1
    BY <1>2, <2>1 DEF IsAt
  <2>2. CASE last > 1
    <3>1. slices[1] \in Nat /\ slices[1] > 0 /\ Offset(1) = 0
      BY <1>1, <1>2, <1>3, SlicedPictureFacts, OffsetsFollow DEF SlicesFit
    <3>2. 0 * w = 0 /\ h * 0 = 0 /\ 0 * slices[1] = 0
      BY <1>2, <3>1
    <3>3. AtPlace(0, 1, 0, 0, 0)
      BY <1>2, <3>1, <3>2 DEF AtPlace
    <3>4. \E r, x \in Nat : AtPlace(0, 1, r, x, 0) /\ 0 = r * width + Offset(1)
      <4>1. 0 = 0 * width + Offset(1)
        BY <1>2, <3>1, <3>2
      <4>2. QED
        BY <3>3, <4>1
    <3>5. 1 \in 1 .. Len(slices) + 1 /\ 1 <= Len(slices) /\ Len(slices) # 1
      BY <1>2, <2>2
    <3>6. QED
      BY <3>1, <3>4, <3>5 DEF IsAt, WidthOf
  <2>3. QED
    BY <1>2, <2>1, <2>2
<1>4. ASSUME NEW p \in Places PROVE IsWritten(0, p, 0)
  <2>1. ASSUME NEW s \in DOMAIN slices, InSlice(s, p), NumberOf(s, p) <= 0
        PROVE  FALSE
    <3>1. /\ s \in 1 .. Len(slices) /\ Offset(s) \in Nat /\ slices[s] \in Nat
      BY <1>1, <1>2, SlicedPictureFacts, OffsetsFollow
    <3>2. p \in Nat
      BY <1>2 DEF Places
    <3>3. PICK i, j \in Nat : i = p \div w /\ j = p % w
      BY <1>2, <3>2, Divide
    <3>4. PICK a, b \in Nat : a = h * Offset(s) /\ b = i * slices[s]
      BY <1>2, <3>1, <3>3, ProductsAreNats
    <3>5. PICK y \in Nat : y = j - Offset(s)
      BY <1>2, <2>1, <3>1, <3>3 DEF InSlice
    <3>6. NumberOf(s, p) = a + b + y + 1
      BY <1>2, <3>3, <3>4, <3>5 DEF NumberOf
    <3>7. QED
      BY <2>1, <3>4, <3>5, <3>6
  <2>2. QED
    BY <2>1 DEF IsWritten
<1>5. appended = 0 /\ DOMAIN buffer = Places /\ failed = FALSE
      /\ slice = 1 /\ slice_offset = 0 /\ slice_width = slices[1] /\ row_offset = 0 /\ pos = 0
      /\ \A p \in Places : buffer[p] = 0
  BY DEF SlicedInit
<1>6. QED
  BY <1>1, <1>3, <1>4, <1>5 DEF SInv

LEMMA ExtendKeepsSInv == ASSUME SInv, SlicedStep PROVE SInv'
<1>1. /\ appended' = appended + 1 /\ UNCHANGED sliced
      /\ ExtendOne \/ ExtendFull \/ ExtendSlices \/ ExtendPanics
  BY DEF SlicedStep
<1>2. sliced \in SlicedPicture /\ appended \in Nat /\ DOMAIN buffer = Places
  BY DEF SInv
<1>3. DOMAIN buffer' = Places
  BY <1>1, <1>2 DEF ExtendOne, ExtendFull, ExtendSlices, ExtendPanics, Write
<1>4. ASSUME SlicesFit, appended + 1 <= height * Total
      PROVE  /\ ~ failed'
             /\ IsAt(appended + 1, slice', slice_offset', slice_width', row_offset', pos')
             /\ \A p \in Places : IsWritten(appended + 1, p, buffer'[p])
  <2>1. PICK h, w, last, total, n, all \in Nat :
          /\ h = height /\ h > 0 /\ w = width /\ w > 0 /\ last = Len(slices) /\ last > 0
          /\ total = Total /\ n = appended /\ all = h * total
    <3>1. Total \in Nat
      BY <1>2, SlicedPictureFacts, OffsetsFollow DEF Total
    <3>2. height * Total \in Nat
      BY <1>2, <3>1, SlicedPictureFacts, ProductsAreNats
    <3>3. QED
      BY <1>2, <3>1, <3>2, SlicedPictureFacts
  <2>2. n + 1 <= all /\ n <= height * Total
    BY <1>4, <2>1
  <2>3. /\ ~ failed
        /\ IsAt(n, slice, slice_offset, slice_width, row_offset, pos)
        /\ \A p \in Places : IsWritten(n, p, buffer[p])
    BY <1>4, <2>1, <2>2 DEF SInv
  <2>4. CASE last = 1
    <3>1. pos = n
      BY <2>1, <2>3, <2>4 DEF IsAt
    <3>2. Offset(1) = 0 /\ slices[1] = w /\ total = w
      <4>1. slices[1] = w
        BY <1>4, <2>1, <2>4 DEF SlicesFit
      <4>2. 1 \in 1 .. Len(slices) /\ Len(slices) + 1 = 1 + 1
        BY <2>1, <2>4
      <4>3. Offset(1) = 0 /\ Offset(1 + 1) = 0 + slices[1]
        BY <1>2, <4>2, OffsetsFollow
      <4>4. QED
        BY <2>1, <4>1, <4>2, <4>3 DEF Total
    <3>3. PICK r, x \in Nat : r = n \div w /\ x = n % w /\ n = r * w + x /\ x < w
      BY <2>1, Divide
    <3>4. r < h
      <4>1. IsDivided(n, w, r, x)
        BY <2>1, <3>3 DEF IsDivided
      <4>2. n < h * w
        BY <2>1, <2>2, <3>2
      <4>3. QED
        BY <2>1, <4>1, <4>2, QuotientIsLess
    <3>5. AtPlace(n, 1, r, x, n)
      <4>1. n = r * width + (Offset(1) + x)
        BY <2>1, <3>2, <3>3
      <4>2. n = height * Offset(1) + (r * slices[1] + x)
        <5>1. h * 0 = 0
          BY <2>1
        <5>2. r * w \in Nat
          BY <2>1, <3>3, ProductsAreNats
        <5>3. QED
          BY <2>1, <3>2, <3>3, <5>1, <5>2
      <4>3. QED
        BY <2>1, <2>4, <3>2, <3>3, <3>4, <4>1, <4>2 DEF AtPlace
    <3>6. pos \in Places /\ pos < width * height /\ pos = n
      BY <1>2, <1>4, <2>1, <3>1, <3>5, PlaceIsItsOwn DEF Places
    <3>7. Write /\ pos' = n + 1 /\ ~ failed'
      <4>1. Len(slices) = 1
        BY <2>1, <2>4
      <4>2. ExtendOne
        BY <1>1, <2>1, <3>6, <4>1 DEF ExtendFull, ExtendSlices, ExtendPanics
      <4>3. QED
        BY <2>3, <3>6, <4>2 DEF ExtendOne
    <3>8. \A p \in Places : buffer'[p] = IF p = n THEN n + 1 ELSE buffer[p]
      BY <1>2, <2>1, <3>6, <3>7 DEF Write
    <3>9. \A p \in Places : IsWritten(n + 1, p, buffer'[p])
      BY <1>2, <1>4, <2>3, <3>5, <3>8, OneMoreIsWritten
    <3>10. QED
      BY <2>1, <2>4, <3>7, <3>9 DEF IsAt
  <2>5. CASE last > 1
    <3>1. slice <= Len(slices)
      <4>1. SUFFICES ASSUME ~ (slice <= Len(slices)) PROVE FALSE
        OBVIOUS
      <4>2. n = all
        BY <2>1, <2>3, <2>5, <4>1 DEF IsAt
      <4>3. QED
        BY <2>1, <2>2, <4>2
    <3>2. PICK r, x \in Nat : AtPlace(n, slice, r, x, pos)
      BY <2>1, <2>3, <2>5, <3>1 DEF IsAt
    <3>3. pos \in Places
      BY <1>2, <1>4, <2>1, <3>2, PlaceIsItsOwn
    <3>4. pos < width * height
      BY <2>1, <3>3 DEF Places
    <3>5. Write /\ advance /\ ~ failed'
      <4>1. Len(slices) > 1 /\ Len(slices) # 1
        BY ONLY <2>1, <2>5
      <4>2. ExtendSlices
        BY <1>1, <2>1, <3>3, <3>4, <4>1 DEF ExtendOne, ExtendFull, ExtendPanics, Places
      <4>3. QED
        BY <2>3, <4>2 DEF ExtendSlices
    <3>6. \A p \in Places : buffer'[p] = IF p = pos THEN n + 1 ELSE buffer[p]
      BY <1>2, <2>1, <3>3, <3>5 DEF Write
    <3>7. \A p \in Places : IsWritten(n + 1, p, buffer'[p])
      BY <1>2, <1>4, <2>3, <3>2, <3>6, OneMoreIsWritten
    <3>8. IsAt(n + 1, slice', slice_offset', slice_width', row_offset', pos')
      BY <1>2, <1>4, <2>1, <2>3, <2>5, <3>1, <3>5, AdvanceKeepsPlace
    <3>9. QED
      BY <2>1, <3>5, <3>7, <3>8
  <2>6. QED
    BY <2>1, <2>4, <2>5
<1>5. QED
  BY <1>1, <1>2, <1>3, <1>4, SlicesStayThere DEF SInv

(* Pictures of every size, slices of every width, any number of values:    *)
(* the cursor is where the next value belongs (sliced_buffer.rs).          *)
THEOREM SlicesInvariance == SlicedSpec => []SInv
<1>1. ASSUME SInv, [SlicedStep]_slicedVars PROVE SInv'
  <2>1. CASE UNCHANGED slicedVars
    <3>1. UNCHANGED <<sliced, buffer, slice, slice_offset, slice_width, row_offset, pos,
                      appended, failed>>
      BY <2>1 DEF slicedVars, cursor
    <3>2. QED
      BY <1>1, <3>1, SlicesStayThere DEF SInv
  <2>2. QED
    BY <1>1, <2>1, ExtendKeepsSInv
<1>2. QED
  BY <1>1, SlicedInitHolds, PTL DEF SlicedSpec

(* Each value is at its place in its slice, and extend does not panic      *)
(* (sliced_buffer.rs).                                                     *)
THEOREM SlicesMakeThePicture == SlicedSpec => []ValuesAreInSliceOrder
<1>1. SInv => ValuesAreInSliceOrder
  BY DEF SInv, ValuesAreInSliceOrder, IsWritten
<1>2. QED
  BY <1>1, SlicesInvariance, PTL
-----------------------------------------------------------------------------
(* Two sequences in a row, of m and of n elements.                         *)
Cat(s, t) == s \o t

IsCat(v, s, m, t, n) ==
  /\ v = [i \in 1 .. m + n |-> v[i]]
  /\ \A i \in 1 .. m : v[i] = s[i]
  /\ \A i \in 1 .. n : v[m + i] = t[i]

LEMMA CatIsBoth ==
  ASSUME NEW S, NEW s \in Seq(S), NEW t \in Seq(S), NEW m \in Nat, NEW n \in Nat,
         Len(s) = m, Len(t) = n
  PROVE  /\ Cat(s, t) \in Seq(S) /\ Len(Cat(s, t)) = m + n
         /\ IsCat(Cat(s, t), s, m, t, n)
<1>1. PICK v : v = s \o t
  OBVIOUS
<1>2. /\ v \in Seq(S) /\ Len(v) = Len(s) + Len(t)
      /\ \A i \in 1 .. Len(s) + Len(t) : v[i] = IF i <= Len(s) THEN s[i] ELSE t[i - Len(s)]
  BY <1>1, ConcatProperties
<1>3. v = [i \in 1 .. m + n |-> v[i]]
  BY <1>2, LenProperties
<1>4. \A i \in 1 .. n : v[m + i] = t[i]
  <2> TAKE i \in 1 .. n
  <2>1. m + i \in 1 .. m + n /\ ~ (m + i <= m) /\ (m + i) - m = i
    OBVIOUS
  <2>2. v[m + i] = t[(m + i) - m]
    BY <1>2, <2>1
  <2>3. QED
    BY <2>1, <2>2
<1>5. \A i \in 1 .. m : v[i] = s[i]
  BY <1>2
<1>6. Cat(s, t) = v
  BY <1>1 DEF Cat
<1>7. QED
  BY <1>2, <1>3, <1>4, <1>5, <1>6 DEF IsCat

LEMMA CatIsOne ==
  ASSUME NEW s, NEW t, NEW m \in Nat, NEW n \in Nat, NEW v, NEW w,
         IsCat(v, s, m, t, n), IsCat(w, s, m, t, n)
  PROVE  v = w
<1>1. \A i \in 1 .. m + n : v[i] = w[i]
  <2> TAKE i \in 1 .. m + n
  <2>1. CASE i <= m
    <3>1. i \in 1 .. m
      BY <2>1
    <3>2. QED
      BY <3>1 DEF IsCat
  <2>2. CASE i > m
    <3>1. i - m \in 1 .. n /\ m + (i - m) = i
      BY <2>2
    <3>2. v[m + (i - m)] = t[i - m] /\ w[m + (i - m)] = t[i - m]
      BY <3>1 DEF IsCat
    <3>3. QED
      BY <3>1, <3>2
  <2>3. QED
    BY <2>1, <2>2
<1>2. v = [i \in 1 .. m + n |-> v[i]] /\ w = [i \in 1 .. m + n |-> w[i]]
  BY DEF IsCat
<1>3. QED
  BY <1>1, <1>2

(* Some of a sequence, in a row.                                           *)
LEMMA Cut ==
  ASSUME NEW S, NEW s, NEW m \in Nat, NEW n \in Nat, NEW len, len = n - m + 1, m <= n,
         \A i \in m .. n : s[i] \in S
  PROVE  /\ SubSeq(s, m, n) \in Seq(S) /\ Len(SubSeq(s, m, n)) = len
         /\ \A i \in 1 .. len : SubSeq(s, m, n)[i] = s[m + i - 1]
BY SubSeqProperties

(* The bits of a pair of values, in each order.                            *)
LEMMA PairIsItsUnits ==
  ASSUME packing.bpc = 12, NEW p, NEW q
  PROVE  Pair(p, q) =
           [u \in 1 .. 12 |->
              IF BigEndian THEN IF u <= 6 THEN <<p, u>> ELSE <<q, u - 6>>
              ELSE IF u <= 4 THEN <<p, u + 2>> ELSE IF u <= 6 THEN <<q, u>>
              ELSE IF u <= 8 THEN <<p, u - 6>> ELSE <<q, u - 8>>]
<1> DEFINE S == {<<p, i>> : i \in 1 .. 6} \cup {<<q, i>> : i \in 1 .. 6}
           P == Value(p)
           Q == Value(q)
<1>1. P = [i \in 1 .. 6 |-> <<p, i>>] /\ Q = [i \in 1 .. 6 |-> <<q, i>>]
  BY DEF Value
<1> HIDE DEF P, Q
<1>2. /\ \A i \in 1 .. 6 : P[i] = <<p, i>> /\ P[i] \in S
      /\ \A i \in 1 .. 6 : Q[i] = <<q, i>> /\ Q[i] \in S
      /\ P \in Seq(S) /\ Q \in Seq(S) /\ Len(P) = 6 /\ Len(Q) = 6
  BY <1>1
<1> HIDE DEF S
<1>3. CASE BigEndian
  <2> DEFINE v == [u \in 1 .. 12 |-> IF u <= 6 THEN <<p, u>> ELSE <<q, u - 6>>]
  <2>1. Pair(p, q) = Cat(P, Q)
    BY <1>3, Zenon DEF Pair, Cat, P, Q
  <2>2. IsCat(v, P, 6, Q, 6)
    BY <1>2 DEF IsCat
  <2>3. IsCat(Cat(P, Q), P, 6, Q, 6)
    BY <1>2, CatIsBoth
  <2> HIDE DEF v
  <2>4. Cat(P, Q) = v
    BY <2>2, <2>3, CatIsOne
  <2>5. QED
    BY <1>3, <2>1, <2>4 DEF v
<1>4. CASE ~BigEndian
  <2> DEFINE A == SubSeq(P, 3, 6)
             B == SubSeq(Q, 5, 6)
             C == SubSeq(P, 1, 2)
             D == SubSeq(Q, 1, 4)
             ab == [u \in 1 .. 6 |-> IF u <= 4 THEN <<p, u + 2>> ELSE <<q, u>>]
             abc == [u \in 1 .. 8 |-> IF u <= 6 THEN ab[u] ELSE <<p, u - 6>>]
             v == [u \in 1 .. 12 |-> IF u <= 8 THEN abc[u] ELSE <<q, u - 8>>]
  <2>1. A \in Seq(S) /\ Len(A) = 4 /\ \A i \in 1 .. 4 : A[i] = <<p, i + 2>>
    BY <1>2, Cut
  <2>2. B \in Seq(S) /\ Len(B) = 2 /\ \A i \in 1 .. 2 : B[i] = <<q, i + 4>>
    BY <1>2, Cut
  <2>3. C \in Seq(S) /\ Len(C) = 2 /\ \A i \in 1 .. 2 : C[i] = <<p, i>>
    BY <1>2, Cut
  <2>4. D \in Seq(S) /\ Len(D) = 4 /\ \A i \in 1 .. 4 : D[i] = <<q, i>>
    BY <1>2, Cut
  <2>5. Pair(p, q) = Cat(Cat(Cat(A, B), C), D)
    BY <1>4, Zenon DEF Pair, Cat, A, B, C, D, P, Q
  <2> HIDE DEF A, B, C, D
  <2>6. IsCat(ab, A, 4, B, 2)
    BY <2>1, <2>2 DEF IsCat
  <2>7. IsCat(abc, ab, 6, C, 2)
    BY <2>3 DEF IsCat
  <2>8. IsCat(v, abc, 8, D, 4)
    BY <2>4 DEF IsCat
  <2>9. v = [u \in 1 .. 12 |->
               IF u <= 4 THEN <<p, u + 2>> ELSE IF u <= 6 THEN <<q, u>>
               ELSE IF u <= 8 THEN <<p, u - 6>> ELSE <<q, u - 8>>]
    OBVIOUS
  <2> HIDE DEF ab, abc, v
  <2>10. /\ Cat(A, B) \in Seq(S) /\ Len(Cat(A, B)) = 6
         /\ IsCat(Cat(A, B), A, 4, B, 2)
    <3>1. /\ Cat(A, B) \in Seq(S) /\ Len(Cat(A, B)) = 4 + 2
          /\ IsCat(Cat(A, B), A, 4, B, 2)
      BY <2>1, <2>2, CatIsBoth
    <3>2. QED
      BY <3>1
  <2>11. Cat(A, B) = ab /\ ab \in Seq(S) /\ Len(ab) = 6
    <3>1. Cat(A, B) = ab
      BY <2>6, <2>10, CatIsOne
    <3>2. QED
      BY <2>10, <3>1
  <2>12. /\ Cat(ab, C) \in Seq(S) /\ Len(Cat(ab, C)) = 8
         /\ IsCat(Cat(ab, C), ab, 6, C, 2)
    <3>1. C \in Seq(S) /\ Len(C) = 2
      BY <2>3
    <3>2. PICK m, n \in Nat : m = 6 /\ n = 2
      OBVIOUS
    <3>3. Len(ab) = m /\ Len(C) = n
      BY <2>11, <3>1, <3>2
    <3>4. /\ Cat(ab, C) \in Seq(S) /\ Len(Cat(ab, C)) = m + n
          /\ IsCat(Cat(ab, C), ab, m, C, n)
      BY ONLY <2>11, <3>1, <3>3, m \in Nat, n \in Nat, CatIsBoth
    <3>5. QED
      BY <3>2, <3>4
  <2>13. Cat(ab, C) = abc
    BY <2>7, <2>12, CatIsOne
  <2>14. IsCat(Cat(abc, D), abc, 8, D, 4)
    BY <2>4, <2>12, <2>13, CatIsBoth
  <2>15. Cat(abc, D) = v
    BY <2>8, <2>14, CatIsOne
  <2>16. QED
    BY <1>4, <2>5, <2>9, <2>11, <2>13, <2>15
<1>5. QED
  BY <1>3, <1>4

(* Two values out of three bytes, by the bits taken.                       *)
LEMMA TwoAreTheirUnits ==
  ASSUME NEW b, NEW s \in Nat
  PROVE  \E w :
           /\ w = [i \in 1 .. 12 |-> b[4 * s + i]]
           /\ BigTwo(b, s) = <<[i \in 1 .. 6 |-> w[i]], [i \in 1 .. 6 |-> w[i + 6]]>>
           /\ LittleTwo(b, s) = <<[i \in 1 .. 6 |-> IF i <= 2 THEN w[i + 6] ELSE w[i - 2]],
                                  [i \in 1 .. 6 |-> IF i <= 4 THEN w[i + 8] ELSE w[i]]>>
<1> DEFINE X == Byte(b, s)
           Y == Byte(b, s + 1)
           Z == Byte(b, s + 2)
           H == HighHalf(Y)
           L == LowHalf(Y)
<1>1. PICK w : w = [i \in 1 .. 12 |-> b[4 * s + i]]
  OBVIOUS
<1>2. PICK S : \A i \in 1 .. 12 : w[i] \in S
  <2>1. \A i \in 1 .. 12 : w[i] \in {w[j] : j \in 1 .. 12}
    OBVIOUS
  <2>2. QED
    BY <2>1
<1>3. ASSUME NEW j \in 0 .. 2
      PROVE  /\ Byte(b, s + j) \in Seq(S) /\ Len(Byte(b, s + j)) = 4
             /\ \A i \in 1 .. 4 : Byte(b, s + j)[i] = w[4 * j + i]
  <2>1. PICK m, n \in Nat : m = 4 * (s + j) + 1 /\ n = 4 * (s + j) + 4
    OBVIOUS
  <2>2. \A i \in 1 .. 4 : 4 * j + i \in 1 .. 12 /\ m + i - 1 = 4 * s + (4 * j + i)
    BY <2>1
  <2>3. \A i \in 1 .. 4 : b[m + i - 1] = w[4 * j + i]
    BY <1>1, <2>2
  <2>4. \A i \in m .. n : b[i] \in S
    <3>1. SUFFICES ASSUME NEW i \in m .. n PROVE b[i] \in S
      OBVIOUS
    <3>2. PICK k \in 1 .. 4 : i = m + k - 1
      <4>1. i - m + 1 \in 1 .. 4 /\ i = m + (i - m + 1) - 1
        BY <2>1
      <4>2. QED
        BY <4>1
    <3>3. QED
      BY <1>2, <2>2, <2>3, <3>2
  <2>5. Byte(b, s + j) = SubSeq(b, m, n)
    BY <2>1 DEF Byte
  <2>6. 4 = n - m + 1 /\ m <= n
    BY <2>1
  <2>7. /\ SubSeq(b, m, n) \in Seq(S) /\ Len(SubSeq(b, m, n)) = 4
        /\ \A i \in 1 .. 4 : SubSeq(b, m, n)[i] = b[m + i - 1]
    BY <2>4, <2>6, Cut
  <2>8. QED
    BY <2>3, <2>5, <2>7
<1>4. /\ X \in Seq(S) /\ Len(X) = 4 /\ \A i \in 1 .. 4 : X[i] = w[i]
      /\ Y \in Seq(S) /\ Len(Y) = 4 /\ \A i \in 1 .. 4 : Y[i] = w[4 + i]
      /\ Z \in Seq(S) /\ Len(Z) = 4 /\ \A i \in 1 .. 4 : Z[i] = w[8 + i]
  <2>1. s + 0 = s /\ \A i \in 1 .. 4 : 4 * 0 + i = i
    OBVIOUS
  <2>2. 0 \in 0 .. 2 /\ 1 \in 0 .. 2 /\ 2 \in 0 .. 2 /\ 4 * 1 = 4 /\ 4 * 2 = 8
    OBVIOUS
  <2>3. QED
    BY <1>3, <2>1, <2>2
<1> HIDE DEF X, Y, Z
<1>5. /\ H \in Seq(S) /\ Len(H) = 2 /\ \A i \in 1 .. 2 : H[i] = w[4 + i]
      /\ L \in Seq(S) /\ Len(L) = 2 /\ \A i \in 1 .. 2 : L[i] = w[6 + i]
  <2>1. \A i \in 1 .. 4 : Y[i] \in S
    BY <1>2, <1>4
  <2>2. /\ H \in Seq(S) /\ Len(H) = 2 /\ \A i \in 1 .. 2 : H[i] = Y[i]
    BY <2>1, Cut DEF HighHalf
  <2>3. /\ L \in Seq(S) /\ Len(L) = 2 /\ \A i \in 1 .. 2 : L[i] = Y[i + 2]
    BY <2>1, Cut DEF LowHalf
  <2>4. QED
    BY <1>4, <2>2, <2>3
<1> HIDE DEF H, L
<1>6. Cat(X, H) = [i \in 1 .. 6 |-> w[i]]
  <2> DEFINE v == [i \in 1 .. 6 |-> w[i]]
  <2>1. IsCat(v, X, 4, H, 2)
    BY <1>4, <1>5 DEF IsCat
  <2>2. IsCat(Cat(X, H), X, 4, H, 2)
    BY <1>4, <1>5, CatIsBoth
  <2> HIDE DEF v
  <2>3. Cat(X, H) = v
    BY <2>1, <2>2, CatIsOne
  <2>4. QED
    BY <2>3 DEF v
<1>7. Cat(L, Z) = [i \in 1 .. 6 |-> w[i + 6]]
  <2> DEFINE v == [i \in 1 .. 6 |-> w[i + 6]]
  <2>1. IsCat(v, L, 2, Z, 4)
    BY <1>4, <1>5 DEF IsCat
  <2>2. IsCat(Cat(L, Z), L, 2, Z, 4)
    BY <1>4, <1>5, CatIsBoth
  <2> HIDE DEF v
  <2>3. Cat(L, Z) = v
    BY <2>1, <2>2, CatIsOne
  <2>4. QED
    BY <2>3 DEF v
<1>8. Cat(L, X) = [i \in 1 .. 6 |-> IF i <= 2 THEN w[i + 6] ELSE w[i - 2]]
  <2> DEFINE v == [i \in 1 .. 6 |-> IF i <= 2 THEN w[i + 6] ELSE w[i - 2]]
  <2>1. IsCat(v, L, 2, X, 4)
    BY <1>4, <1>5 DEF IsCat
  <2>2. IsCat(Cat(L, X), L, 2, X, 4)
    BY <1>4, <1>5, CatIsBoth
  <2> HIDE DEF v
  <2>3. Cat(L, X) = v
    BY <2>1, <2>2, CatIsOne
  <2>4. QED
    BY <2>3 DEF v
<1>9. Cat(Z, H) = [i \in 1 .. 6 |-> IF i <= 4 THEN w[i + 8] ELSE w[i]]
  <2> DEFINE v == [i \in 1 .. 6 |-> IF i <= 4 THEN w[i + 8] ELSE w[i]]
  <2>1. IsCat(v, Z, 4, H, 2)
    BY <1>4, <1>5 DEF IsCat
  <2>2. IsCat(Cat(Z, H), Z, 4, H, 2)
    BY <1>4, <1>5, CatIsBoth
  <2> HIDE DEF v
  <2>3. Cat(Z, H) = v
    BY <2>1, <2>2, CatIsOne
  <2>4. QED
    BY <2>3 DEF v
<1>10. /\ BigTwo(b, s) = <<Cat(X, H), Cat(L, Z)>>
       /\ LittleTwo(b, s) = <<Cat(L, X), Cat(Z, H)>>
  BY Zenon DEF BigTwo, LittleTwo, X, Y, Z, H, L, Cat
<1>11. QED
  BY ONLY <1>1, <1>6, <1>7, <1>8, <1>9, <1>10

(* Either way the two are the pair that is packed there.                   *)
HoldsPair(b, s, p, q) == s \in Nat /\ \A u \in 1 .. 12 : b[4 * s + u] = Pair(p, q)[u]

LEMMA TwoAreThePair ==
  ASSUME packing.bpc = 12, NEW b, NEW s, NEW p, NEW q, HoldsPair(b, s, p, q)
  PROVE  (IF BigEndian THEN BigTwo(b, s) ELSE LittleTwo(b, s)) = <<Value(p), Value(q)>>
<1>1. PICK w :
        /\ w = [i \in 1 .. 12 |-> b[4 * s + i]]
        /\ BigTwo(b, s) = <<[i \in 1 .. 6 |-> w[i]], [i \in 1 .. 6 |-> w[i + 6]]>>
        /\ LittleTwo(b, s) = <<[i \in 1 .. 6 |-> IF i <= 2 THEN w[i + 6] ELSE w[i - 2]],
                               [i \in 1 .. 6 |-> IF i <= 4 THEN w[i + 8] ELSE w[i]]>>
  BY TwoAreTheirUnits DEF HoldsPair
<1>2. \A u \in 1 .. 12 :
        w[u] = IF BigEndian THEN IF u <= 6 THEN <<p, u>> ELSE <<q, u - 6>>
               ELSE IF u <= 4 THEN <<p, u + 2>> ELSE IF u <= 6 THEN <<q, u>>
               ELSE IF u <= 8 THEN <<p, u - 6>> ELSE <<q, u - 8>>
  <2>1. \A u \in 1 .. 12 : w[u] = Pair(p, q)[u]
    BY <1>1 DEF HoldsPair
  <2>2. QED
    BY <2>1, PairIsItsUnits
<1>3. Value(p) = [i \in 1 .. 6 |-> <<p, i>>] /\ Value(q) = [i \in 1 .. 6 |-> <<q, i>>]
  BY DEF Value
<1>4. CASE BigEndian
  <2>1. \A i \in 1 .. 6 : w[i] = <<p, i>> /\ w[i + 6] = <<q, i>>
    BY <1>2, <1>4
  <2>2. QED
    BY <1>1, <1>3, <1>4, <2>1
<1>5. CASE ~BigEndian
  <2>1. \A i \in 1 .. 6 : /\ (IF i <= 2 THEN w[i + 6] ELSE w[i - 2]) = <<p, i>>
                          /\ (IF i <= 4 THEN w[i + 8] ELSE w[i]) = <<q, i>>
    BY <1>2, <1>5
  <2>2. QED
    BY <1>1, <1>3, <1>5, <2>1
<1>6. QED
  BY <1>4, <1>5

-----------------------------------------------------------------------------
Width == packing.width
PadOf == IF packing.compression \in Padded THEN 1 ELSE 0

(* What rows that pack evenly are: whole groups, with their padding.       *)
LEMMA RowsAreBlocks ==
  ASSUME packing \in Packing, packing.bpc \in {10, 12, 14}, RowsPackEvenly
  PROVE  /\ block_size \in Nat /\ RowLen = 4 * block_size /\ RowLen \in Nat
         /\ Width \in Nat /\ packing.height \in Nat /\ packing.byte_len \in Nat
         /\ block_size = 0 => Width = 0
         /\ packing.bpc # 12 => RowLen = Width * (packing.bpc \div 2)
         /\ packing.bpc = 12 => /\ 2 * block_size = 3 * Width + 2 * PadOf * (Width \div 10)
                                /\ Width % (IF PadOf = 1 THEN 10 ELSE 2) = 0
<1> DEFINE w == packing.width
<1>1. w \in Nat /\ packing.height \in Nat /\ packing.byte_len \in Nat
  BY DEF Packing
<1>2. CASE packing.bpc = 10
  <2>1. w % 4 = 0
    BY <1>1, <1>2 DEF RowsPackEvenly
  <2>2. RowLen = w * 5 /\ block_size = (w \div 4) * 5 /\ packing.bpc \div 2 = 5
    BY <1>2 DEF RowLen, block_size
  <2>3. QED
    BY <1>1, <1>2, <2>1, <2>2 DEF Width
<1>3. CASE packing.bpc = 14
  <2>1. w % 4 = 0
    BY <1>1, <1>3 DEF RowsPackEvenly
  <2>2. RowLen = w * 7 /\ block_size = (w \div 4) * 7 /\ packing.bpc \div 2 = 7
    BY <1>3 DEF RowLen, block_size
  <2>3. QED
    BY <1>1, <1>3, <2>1, <2>2 DEF Width
<1>4. CASE packing.bpc = 12
  <2>1. CASE packing.compression \in Padded
    <3>1. w % 10 = 0
      BY <1>4, <2>1 DEF RowsPackEvenly
    <3>2. RowLen = 12 * (w \div 2) + 4 * (w \div 10) /\ block_size = (w \div 2) * 3 + w \div 10
      BY <1>4, <2>1 DEF RowLen, block_size
    <3>3. PICK g \in Nat : w = 10 * g /\ g = w \div 10 /\ w \div 2 = 5 * g
      BY <1>1, <3>1
    <3>4. RowLen = 64 * g /\ block_size = 16 * g
      BY <3>2, <3>3
    <3>5. PadOf = 1 /\ Width = w
      BY <2>1 DEF PadOf, Width
    <3>6. QED
      BY <1>1, <1>4, <3>1, <3>3, <3>4, <3>5
  <2>2. CASE packing.compression \notin Padded
    <3>1. w % 2 = 0
      BY <1>4, <2>2 DEF RowsPackEvenly
    <3>2. RowLen = 12 * (w \div 2) /\ block_size = (w \div 2) * 3
      BY <1>1, <1>4, <2>2 DEF RowLen, block_size
    <3>3. PICK h \in Nat : w = 2 * h /\ h = w \div 2
      BY <1>1, <3>1
    <3>4. RowLen = 12 * h /\ block_size = 3 * h
      BY <3>2, <3>3
    <3>5. PadOf = 0 /\ Width = w
      BY <2>2 DEF PadOf, Width
    <3>6. QED
      BY <1>1, <1>4, <3>1, <3>3, <3>4, <3>5
  <2>3. QED
    BY <2>1, <2>2
<1>5. QED
  BY <1>2, <1>3, <1>4

(* The next block of the file is its next row.                             *)
LEMMA RowIsHere ==
  ASSUME packing \in Packing, packing.bpc \in {10, 12, 14}, RowsPackEvenly,
         NEW r \in Nat, r < packing.height, fetched = r * block_size, block_size > 0
  PROVE  \E S : /\ Here \in Seq(S) /\ Len(Here) = RowLen
                /\ \A k \in 1 .. RowLen : Here[k] = PackedRow(r)[k] /\ Here[k] \in S
<1>1. PICK len \in Nat : len = RowLen /\ len = 4 * block_size /\ len > 0
  BY RowsAreBlocks
<1>2. PICK high \in Nat : high = packing.height /\ r < high
  BY RowsAreBlocks
<1>3. PICK before \in Nat : before = r * len /\ before = 4 * fetched
  <2>1. 4 * (r * block_size) = r * (4 * block_size) /\ r * len \in Nat
    BY RowsAreBlocks
  <2>2. QED
    BY <1>1, <2>1
<1>4. before + len <= high * len /\ high * len \in Nat
  <2>1. (r + 1) * len <= high * len
    BY <1>2, Products
  <2>2. (r + 1) * len = r * len + len
    OBVIOUS
  <2>3. QED
    BY <1>3, <2>1, <2>2, ProductsAreNats
<1>5. File = [i \in 1 .. high * len |-> PackedRow((i - 1) \div len)[((i - 1) % len) + 1]]
  BY <1>1, <1>2 DEF File
<1>6. ASSUME NEW k \in 1 .. len PROVE File[before + k] = PackedRow(r)[k]
  <2>1. IsDivided(before + k - 1, len, r, k - 1)
    BY <1>1, <1>3 DEF IsDivided
  <2>2. (before + k - 1) \div len = r /\ (before + k - 1) % len = k - 1
    BY <2>1, Divided
  <2>3. before + k \in 1 .. high * len
    BY <1>4
  <2>4. File[before + k] = PackedRow((before + k - 1) \div len)[((before + k - 1) % len) + 1]
    BY <1>5, <2>3
  <2>5. QED
    BY <2>2, <2>4
<1>7. PICK S : \A k \in 1 .. len : File[before + k] \in S
  <2>1. \A k \in 1 .. len : File[before + k] \in {File[before + j] : j \in 1 .. len}
    OBVIOUS
  <2>2. QED
    BY <2>1
<1>8. PICK m, n \in Nat : m = before + 1 /\ n = before + len
  OBVIOUS
<1>9. Here = SubSeq(File, m, n)
  <2>1. 4 * (fetched + block_size) = n
    BY <1>1, <1>3, <1>8, RowsAreBlocks
  <2>2. QED
    BY <1>3, <1>8, <2>1 DEF Here
<1>10. \A i \in m .. n : File[i] \in S
  <2> TAKE i \in m .. n
  <2>1. i - before \in 1 .. len /\ i = before + (i - before)
    BY <1>8
  <2>2. QED
    BY <1>7, <2>1
<1>11. len = n - m + 1 /\ m <= n
  BY <1>1, <1>8
<1>12. /\ Here \in Seq(S) /\ Len(Here) = len
       /\ \A i \in 1 .. len : Here[i] = File[m + i - 1]
  <2>1. /\ SubSeq(File, m, n) \in Seq(S) /\ Len(SubSeq(File, m, n)) = len
        /\ \A i \in 1 .. len : SubSeq(File, m, n)[i] = File[m + i - 1]
    BY ONLY m \in Nat, n \in Nat, <1>10, <1>11, Cut
  <2>2. QED
    BY <1>9, <2>1
<1>13. ASSUME NEW k \in 1 .. len PROVE Here[k] = PackedRow(r)[k] /\ Here[k] \in S
  <2>1. m + k - 1 = before + k
    BY <1>8
  <2>2. Here[k] = File[before + k]
    BY <1>12, <2>1
  <2>3. QED
    BY <1>6, <1>7, <2>2
<1>14. QED
  BY ONLY <1>1, <1>12, <1>13

(* Values of 10 and 14 bits.                                               *)
LEMMA BentoIsItsRow ==
  ASSUME packing \in Packing, packing.bpc \in {10, 14}, RowsPackEvenly,
         NEW r \in Nat, NEW S, NEW block \in Seq(S), Len(block) = RowLen,
         \A k \in 1 .. RowLen : block[k] = PackedRow(r)[k] /\ block[k] \in S
  PROVE  UnpackBlock(block) =
           [ok |-> TRUE, values |-> [i \in 1 .. Width |-> Value(r * Width + i)]]
<1>1. PICK n \in Nat : n = packing.bpc \div 2 /\ n > 0
  OBVIOUS
<1>2. PICK w \in Nat : w = packing.width /\ w = Width /\ RowLen = w * n
  BY <1>1, RowsAreBlocks DEF Width
<1>3. PICK first \in Nat : first = r * w
  BY ProductsAreNats
<1>4. ASSUME NEW k \in 1 .. RowLen
      PROVE  PackedRow(r)[k] = Value(first + ((k - 1) \div n) + 1)[((k - 1) % n) + 1]
  <2>1. PackedRow(r) = [i \in 1 .. RowLen |-> Value(first + ((i - 1) \div n) + 1)[((i - 1) % n) + 1]]
    <3>1. packing.bpc # 12
      OBVIOUS
    <3>2. QED
      BY ONLY <1>1, <1>2, <1>3, <3>1, Zenon DEF PackedRow
  <2>2. QED
    BY <2>1
<1>5. ASSUME NEW i \in 1 .. w
      PROVE  SubSeq(block, (i - 1) * n + 1, i * n) = Value(first + i)
  <2>1. PICK before \in Nat : before = (i - 1) * n
    BY <1>1, ProductsAreNats
  <2>2. i * n = before + n /\ before + n <= RowLen
    <3>1. i * n = (i - 1) * n + n
      BY <1>1
    <3>2. i * n <= w * n
      BY <1>1, Products
    <3>3. QED
      BY <1>2, <2>1, <3>1, <3>2
  <2>3. ASSUME NEW j \in 1 .. n PROVE block[before + j] = <<first + i, j>> /\ block[before + j] \in S
    <3>1. PICK k : k = before + j
      OBVIOUS
    <3>2. k \in 1 .. RowLen
      BY <1>1, <1>2, <2>2, <3>1
    <3>3. (k - 1) \div n = i - 1 /\ (k - 1) % n = j - 1
      <4>1. IsDivided(k - 1, n, i - 1, j - 1)
        <5>1. k - 1 = before + (j - 1) /\ k - 1 \in Nat /\ j - 1 \in Nat /\ j - 1 < n
          BY ONLY <1>1, j \in 1 .. n, before \in Nat, <3>1
        <5>2. i - 1 \in Nat /\ n \in Nat /\ before = (i - 1) * n
          BY <1>1, <2>1
        <5>3. QED
          BY ONLY <5>1, <5>2 DEF IsDivided
      <4>2. QED
        BY <4>1, Divided
    <3>4. block[k] = Value(first + (i - 1) + 1)[j - 1 + 1]
      <4>1. PackedRow(r)[k] = Value(first + ((k - 1) \div n) + 1)[((k - 1) % n) + 1]
        BY <1>4, <3>2
      <4>2. block[k] = PackedRow(r)[k]
        BY <3>2
      <4>3. QED
        BY <3>3, <4>1, <4>2
    <3>5. first + (i - 1) + 1 = first + i /\ j - 1 + 1 = j
      BY <1>1
    <3>6. QED
      BY <1>1, <3>1, <3>2, <3>4, <3>5 DEF Value
  <2>4. PICK m, l \in Nat : m = before + 1 /\ l = before + n
    BY before + 1 \in Nat, before + n \in Nat
  <2>5. \A k \in m .. l : block[k] \in S
    <3> TAKE k \in m .. l
    <3>1. k - before \in 1 .. n /\ k = before + (k - before)
      BY <1>1, <2>4
    <3>2. QED
      BY <2>3, <3>1
  <2>6. n = l - m + 1 /\ m <= l /\ \A j \in 1 .. n : m + j - 1 = before + j
    BY <1>1, <2>4
  <2>7. PICK v : v = SubSeq(block, m, l)
    OBVIOUS
  <2>8. v \in Seq(S) /\ Len(v) = n /\ \A j \in 1 .. n : v[j] = block[m + j - 1]
    BY <2>5, <2>6, <2>7, Cut
  <2>9. v = [j \in 1 .. n |-> v[j]] /\ \A j \in 1 .. n : v[j] = <<first + i, j>>
    BY <2>3, <2>6, <2>8, LenProperties
  <2>10. v = Value(first + i)
    BY <1>1, <2>9 DEF Value
  <2>11. QED
    BY <2>1, <2>2, <2>4, <2>7, <2>10
<1>6. UnpackBlock(block) = unpack_bento16(block, n)
  BY <1>1 DEF UnpackBlock
<1>7. ~ (packing.width * n > Len(block))
  BY <1>1, <1>2
<1>8. unpack_bento16(block, n) =
        [ok |-> TRUE, values |-> [i \in 1 .. w |-> SubSeq(block, (i - 1) * n + 1, i * n)]]
  BY <1>2, <1>7 DEF unpack_bento16
<1>9. [i \in 1 .. w |-> SubSeq(block, (i - 1) * n + 1, i * n)] = [i \in 1 .. w |-> Value(first + i)]
  BY <1>5, Zenon
<1>10. QED
  BY <1>2, <1>3, <1>6, <1>8, <1>9

(* Where three bytes of a row are taken from: those of a pair.             *)
LEMMA SourcesAreThePairs ==
  ASSUME packing \in Packing, packing.bpc = 12, RowsPackEvenly
  PROVE  /\ Width % 2 = 0
         /\ Sources(block_size) =
              [t \in 1 .. Width \div 2 |-> 3 * (t - 1) + PadOf * ((t - 1) \div 5)]
         /\ ~BadRest(block_size)
<1>1. PICK w \in Nat : w = Width
  BY RowsAreBlocks
<1>2. CASE packing.compression \in Padded
  <2>1. PadOf = 1
    BY <1>2 DEF PadOf
  <2>2. PICK g \in Nat : w = 10 * g /\ block_size = 16 * g
    <3>1. w % 10 = 0 /\ 2 * block_size = 3 * w + 2 * (w \div 10) /\ block_size \in Nat
      BY <1>1, <2>1, RowsAreBlocks
    <3>2. QED
      BY <3>1
  <2>3. block_size \div (15 + 1) = g /\ block_size % (15 + 1) = 0 /\ w \div 2 = 5 * g /\ w % 2 = 0
    BY <2>2
  <2>4. Sources(block_size) =
          [t \in 1 .. 5 * g + 0 \div 3 |-> 3 * (t - 1) + 1 * ((t - 1) \div 5)]
    BY <1>2, <2>3 DEF Sources
  <2>5. 5 * g + 0 \div 3 = w \div 2
    BY <2>3
  <2>6. ~BadRest(block_size)
    BY <1>2, <2>3 DEF BadRest
  <2>7. QED
    BY <1>1, <2>1, <2>3, <2>4, <2>5, <2>6
<1>3. CASE packing.compression \notin Padded
  <2>1. PadOf = 0
    BY <1>3 DEF PadOf
  <2>2. PICK h \in Nat : w = 2 * h /\ block_size = 3 * h
    <3>1. w % 2 = 0 /\ 2 * block_size = 3 * w /\ block_size \in Nat
      BY <1>1, <2>1, RowsAreBlocks
    <3>2. QED
      BY <3>1
  <2>3. PICK n, rest \in Nat : n = block_size \div 15 /\ rest = block_size % 15
    BY <2>2
  <2>4. 5 * n + rest \div 3 = h /\ rest % 3 = 0 /\ w \div 2 = h /\ w % 2 = 0
    BY <2>2, <2>3
  <2>5. block_size \div (15 + 0) = n /\ block_size % (15 + 0) = rest
    BY <2>3
  <2>6. Sources(block_size) =
          [t \in 1 .. 5 * n + rest \div 3 |-> 3 * (t - 1) + 0 * ((t - 1) \div 5)]
    BY <1>3, <2>5 DEF Sources
  <2>7. ~BadRest(block_size)
    BY <1>3, <2>3, <2>4 DEF BadRest
  <2>8. QED
    BY <1>1, <2>1, <2>4, <2>6, <2>7
<1>4. QED
  BY <1>2, <1>3

(* The units of a pair follow in its row.                                  *)
(* The bytes of pair t of row r, and the values before it.                 *)
IsAtPair(r, t, s, before) ==
  /\ s = 3 * (t - 1) + PadOf * ((t - 1) \div 5)
  /\ before = r * Width + 2 * t - 2

LEMMA PairsFollow ==
  ASSUME packing \in Packing, packing.bpc = 12, RowsPackEvenly, NEW r \in Nat,
         NEW t \in 1 .. Width \div 2, NEW u \in 1 .. 12,
         NEW s, NEW before, IsAtPair(r, t, s, before)
  PROVE  /\ s \in Nat /\ 4 * s + u \in 1 .. RowLen
         /\ PackedRow(r)[4 * s + u] = Pair(before + 1, before + 2)[u]
<1>1. PICK w \in Nat : w = Width
  BY RowsAreBlocks
<1>2. PICK pad \in 0 .. 1 : pad = PadOf
  BY DEF PadOf
<1>3. PICK a, b \in Nat : t - 1 = 5 * a + b /\ b < 5 /\ a = (t - 1) \div 5
  BY <1>1
<1>4. s \in Nat /\ s = 3 * (t - 1) + PadOf * ((t - 1) \div 5)
  BY <1>1, <1>2, <1>3 DEF IsAtPair
<1>5. PICK i \in Nat : i = 12 * b + u - 1 /\ i < 60 /\ i \div 12 = b /\ i % 12 = u - 1
  BY <1>3
<1>6. PICK group \in Nat : group = 60 + 4 * pad
                           /\ group = (IF packing.compression \in Padded THEN 64 ELSE 60)
  BY <1>2 DEF PadOf
<1>7. 4 * s + u - 1 = a * group + i
  <2>1. CASE pad = 0
    BY <1>2, <1>3, <1>4, <1>5, <1>6, <2>1
  <2>2. CASE pad = 1
    BY <1>2, <1>3, <1>4, <1>5, <1>6, <2>2
  <2>3. QED
    BY <2>1, <2>2
<1>8. PICK k : k = 4 * s + u /\ (k - 1) \div group = a /\ (k - 1) % group = i
  <2>1. PICK k : k = 4 * s + u
    OBVIOUS
  <2>2. IsDivided(k - 1, group, a, i)
    BY <1>3, <1>4, <1>5, <1>6, <1>7, <2>1 DEF IsDivided
  <2>3. (k - 1) \div group = a /\ (k - 1) % group = i
    BY <2>2, Divided
  <2>4. QED
    BY <2>1, <2>3
<1>9. 4 * s + u \in 1 .. RowLen
  <2>1. 2 * t <= w
    BY <1>1
  <2>2. /\ RowLen = 4 * block_size /\ block_size \in Nat
        /\ 2 * block_size = 3 * w + 2 * pad * (w \div 10)
        /\ w % (IF pad = 1 THEN 10 ELSE 2) = 0
    BY <1>1, <1>2, RowsAreBlocks
  <2>3. CASE pad = 0
    BY <1>2, <1>4, <2>1, <2>2, <2>3
  <2>4. CASE pad = 1
    <3>1. PICK g \in Nat : w = 10 * g /\ w \div 10 = g /\ RowLen = 64 * g
      BY <2>2, <2>4
    <3>2. s = 16 * a + 3 * b /\ 10 * a + 2 * b + 2 <= 10 * g
      BY <1>2, <1>3, <1>4, <2>1, <2>4, <3>1
    <3>3. a + 1 <= g
      BY <1>3, <3>2
    <3>4. QED
      BY <1>3, <3>1, <3>2, <3>3
  <2>5. QED
    BY <2>3, <2>4
<1>10. PICK first \in Nat : first = r * w /\ first = r * packing.width
  BY <1>1, ProductsAreNats DEF Width
<1>11. PackedRow(r) = [j \in 1 .. RowLen |-> OfPairs(first, (j - 1) \div group, (j - 1) % group)]
  BY ONLY <1>6, <1>10, packing.bpc = 12, Zenon DEF PackedRow
<1>12. PackedRow(r)[4 * s + u] = OfPairs(first, a, i)
  <2>1. k \in 1 .. RowLen
    BY <1>8, <1>9
  <2>2. PackedRow(r)[k] = OfPairs(first, (k - 1) \div group, (k - 1) % group)
    BY <1>11, <2>1
  <2>3. QED
    BY <1>8, <2>2
<1>13. before = first + 10 * a + 2 * b
  <2>1. before = first + 2 * t - 2
    BY <1>1, <1>10 DEF IsAtPair
  <2>2. QED
    BY <1>3, <2>1
<1>14. OfPairs(first, a, i) = Pair(before + 1, before + 2)[u]
  <2>1. (u - 1) + 1 = u
    OBVIOUS
  <2>2. QED
    BY <1>5, <1>13, <2>1 DEF OfPairs
<1>15. QED
  BY <1>4, <1>9, <1>12, <1>14

(* Values of 12 bits.                                                      *)
LEMMA PairsAreTheirRow ==
  ASSUME packing \in Packing, packing.bpc = 12, RowsPackEvenly,
         NEW r \in Nat, NEW block, Len(block) = RowLen,
         \A k \in 1 .. RowLen : block[k] = PackedRow(r)[k]
  PROVE  UnpackBlock(block) =
           [ok |-> TRUE, values |-> [i \in 1 .. Width |-> Value(r * Width + i)]]
<1>1. PICK w, h \in Nat : w = Width /\ w = 2 * h /\ h = w \div 2
  <2>1. Width \in Nat
    BY RowsAreBlocks
  <2>2. Width % 2 = 0
    BY SourcesAreThePairs
  <2>3. Width \div 2 \in Nat /\ Width = 2 * (Width \div 2)
    BY <2>1, <2>2
  <2>4. QED
    BY <2>1, <2>3
<1>2. Len(block) \div 4 = block_size
  BY RowsAreBlocks
<1>3. PICK src : /\ src = Sources(block_size) /\ Len(src) = h
                 /\ src = [t \in 1 .. h |-> 3 * (t - 1) + PadOf * ((t - 1) \div 5)]
  BY <1>1, SourcesAreThePairs
<1>4. PICK first \in Nat : first = r * w
  BY ProductsAreNats
<1> DEFINE Two(s) == IF BigEndian THEN BigTwo(block, s) ELSE LittleTwo(block, s)
<1>5. ASSUME NEW t \in 1 .. h
      PROVE  Two(src[t]) = <<Value(first + 2 * t - 1), Value(first + 2 * t)>>
  <2>1. PICK s : s = src[t] /\ s = 3 * (t - 1) + PadOf * ((t - 1) \div 5)
    BY <1>3
  <2>2. PICK before \in Nat : before = first + 2 * t - 2
    BY <1>4
  <2>3. IsAtPair(r, t, s, before)
    BY <1>1, <1>4, <2>1, <2>2 DEF IsAtPair
  <2>4. PICK p, q : p = before + 1 /\ q = before + 2
    OBVIOUS
  <2>5. \A u \in 1 .. 12 : s \in Nat /\ 4 * s + u \in 1 .. RowLen
                           /\ PackedRow(r)[4 * s + u] = Pair(p, q)[u]
    <3>1. t \in 1 .. Width \div 2
      BY <1>1
    <3>2. ASSUME NEW u \in 1 .. 12
          PROVE  /\ s \in Nat /\ 4 * s + u \in 1 .. RowLen
                 /\ PackedRow(r)[4 * s + u] = Pair(before + 1, before + 2)[u]
      BY ONLY packing \in Packing, packing.bpc = 12, RowsPackEvenly, r \in Nat, u \in 1 .. 12,
              <2>3, <3>1, PairsFollow
    <3>3. QED
      BY <2>4, <3>2
  <2>6. HoldsPair(block, s, p, q)
    <3>1. s \in Nat
      <4>1. 1 \in 1 .. 12
        OBVIOUS
      <4>2. QED
        BY <2>5, <4>1
    <3>2. QED
      BY <2>5, <3>1 DEF HoldsPair
  <2>7. Two(s) = <<Value(p), Value(q)>>
    BY <2>6, TwoAreThePair
  <2>8. p = first + 2 * t - 1 /\ q = first + 2 * t
    BY <2>2, <2>4
  <2>9. QED
    BY <2>1, <2>7, <2>8
<1>6. UnpackBlock(block) =
        [ok |-> TRUE, values |-> [i \in 1 .. 2 * h |-> Two(src[((i - 1) \div 2) + 1])[((i - 1) % 2) + 1]]]
  BY <1>2, <1>3, SourcesAreThePairs, Zenon DEF UnpackBlock
<1> HIDE DEF Two
<1>7. ASSUME NEW i \in 1 .. 2 * h
      PROVE  Two(src[((i - 1) \div 2) + 1])[((i - 1) % 2) + 1] = Value(first + i)
  <2>1. PICK t \in 1 .. h : t = ((i - 1) \div 2) + 1
    BY <1>1
  <2>2. CASE i % 2 = 1
    <3>1. ((i - 1) % 2) + 1 = 1 /\ first + 2 * t - 1 = first + i
      BY <2>1, <2>2
    <3>2. Two(src[t])[1] = Value(first + 2 * t - 1)
      BY <1>5
    <3>3. QED
      BY <2>1, <3>1, <3>2
  <2>3. CASE i % 2 = 0
    <3>1. ((i - 1) % 2) + 1 = 2 /\ first + 2 * t = first + i
      BY <2>1, <2>3
    <3>2. Two(src[t])[2] = Value(first + 2 * t)
      BY <1>5
    <3>3. QED
      BY <2>1, <3>1, <3>2
  <2>4. QED
    BY <2>2, <2>3
<1>8. [i \in 1 .. 2 * h |-> Two(src[((i - 1) \div 2) + 1])[((i - 1) % 2) + 1]]
        = [i \in 1 .. 2 * h |-> Value(first + i)]
  BY <1>7, Zenon
<1>9. QED
  BY <1>1, <1>4, <1>6, <1>8

-----------------------------------------------------------------------------
(* What is out is whole rows of values.                                    *)
Bpcs == {10, 12, 14}
RowsAreOut(r) ==
  /\ fetched = r * block_size
  /\ out_data = [i \in 1 .. r * Width |-> Value(i)]

UInv ==
  /\ packing \in Packing
  /\ packing.bpc \notin Bpcs => out_data = <<>> /\ unpacked # "ok"
  /\ packing.bpc \in Bpcs /\ RowsPackEvenly =>
       /\ \E r \in 0 .. packing.height : RowsAreOut(r)
       /\ unpacked = "ok" => fetched >= ByteLen

LEMMA LesserOfTwo ==
  ASSUME NEW a \in Nat, NEW b \in Nat
  PROVE  Min({a, b}) = IF a <= b THEN a ELSE b
<1>1. PICK c : c = (IF a <= b THEN a ELSE b)
  OBVIOUS
<1>2. c \in {a, b} /\ \A y \in {a, b} : c <= y
  BY <1>1
<1>3. \A x \in {a, b} : (\A y \in {a, b} : x <= y) => x = c
  BY <1>1
<1>4. QED
  BY <1>1, <1>2, <1>3 DEF Min

LEMMA LeastOfBytes ==
  ASSUME packing \in Packing, packing.bpc \in Bpcs, RowsPackEvenly
  PROVE  \E all \in Nat : /\ all = block_size * packing.height
                          /\ ByteLen = IF packing.byte_len <= all THEN packing.byte_len ELSE all
<1>1. PICK all \in Nat : all = block_size * packing.height
  BY RowsAreBlocks, ProductsAreNats DEF Bpcs
<1>2. packing.byte_len \in Nat
  BY RowsAreBlocks DEF Bpcs
<1>3. QED
  BY <1>1, <1>2, LesserOfTwo DEF ByteLen

LEMMA UnpackInitHolds == ASSUME UnpackInit PROVE UInv
<1>1. packing \in Packing
  BY UnpackAssumption DEF UnpackInit
<1>2. fetched = 0 /\ out_data = <<>> /\ unpacked = "no"
  BY DEF UnpackInit
<1>3. ASSUME packing.bpc \in Bpcs, RowsPackEvenly
      PROVE  \E r \in 0 .. packing.height : RowsAreOut(r)
  <2>1. Width \in Nat /\ packing.height \in Nat /\ block_size \in Nat
    BY <1>1, <1>3, RowsAreBlocks DEF Bpcs
  <2>2. 0 * block_size = 0 /\ 0 * Width = 0
    BY <2>1
  <2>3. <<>> = [i \in 1 .. 0 |-> Value(i)]
    OBVIOUS
  <2>4. RowsAreOut(0)
    BY <1>2, <2>2, <2>3 DEF RowsAreOut
  <2>5. QED
    BY <2>1, <2>4
<1>4. QED
  BY <1>1, <1>2, <1>3 DEF UInv

(* The next row, after those that are out.                                 *)
LEMMA OneMoreRow ==
  ASSUME packing \in Packing, packing.bpc \in Bpcs, RowsPackEvenly,
         NEW r \in Nat, r < packing.height, block_size > 0, fetched = r * block_size,
         NEW out, out = [i \in 1 .. r * Width |-> Value(i)]
  PROVE  /\ UnpackBlock(Here).ok
         /\ out \o UnpackBlock(Here).values = [i \in 1 .. (r + 1) * Width |-> Value(i)]
<1>1. PICK w \in Nat : w = Width
  BY RowsAreBlocks DEF Bpcs
<1>2. PICK S : /\ Here \in Seq(S) /\ Len(Here) = RowLen
               /\ \A k \in 1 .. RowLen : Here[k] = PackedRow(r)[k] /\ Here[k] \in S
  BY RowIsHere DEF Bpcs
<1>3. UnpackBlock(Here) = [ok |-> TRUE, values |-> [i \in 1 .. w |-> Value(r * w + i)]]
  <2>1. CASE packing.bpc = 12
    BY <1>1, <1>2, <2>1, PairsAreTheirRow
  <2>2. CASE packing.bpc # 12
    <3>1. packing.bpc \in {10, 14}
      BY <2>2 DEF Bpcs
    <3>2. QED
      BY <1>1, <1>2, <3>1, BentoIsItsRow
  <2>3. QED
    BY <2>1, <2>2
<1>4. PICK m \in Nat : m = r * w /\ (r + 1) * w = m + w
  <2>1. r * w \in Nat /\ (r + 1) * w = r * w + w
    BY ProductsAreNats
  <2>2. QED
    BY <2>1
<1> DEFINE T == {Value(i) : i \in Nat}
           values == [i \in 1 .. w |-> Value(m + i)]
           all == [i \in 1 .. m + w |-> Value(i)]
<1>5. UnpackBlock(Here).ok /\ UnpackBlock(Here).values = values
  BY <1>3, <1>4
<1>6. out = [i \in 1 .. m |-> Value(i)]
  BY <1>1, <1>4
<1>7. out \in Seq(T) /\ Len(out) = m
  <2>1. [i \in 1 .. m |-> Value(i)] \in Seq(T) /\ Len([i \in 1 .. m |-> Value(i)]) = m
    BY <1>4
  <2>2. QED
    BY ONLY <1>6, <2>1
<1>8. values \in Seq(T) /\ Len(values) = w
  BY <1>4
<1>9. IsCat(all, out, m, values, w)
  <2>1. \A i \in 1 .. m : all[i] = Value(i) /\ out[i] = Value(i)
    BY ONLY <1>6, m \in Nat, w \in Nat
  <2>2. \A i \in 1 .. w : all[m + i] = Value(m + i) /\ values[i] = Value(m + i)
    BY ONLY m \in Nat, w \in Nat
  <2>3. all = [i \in 1 .. m + w |-> all[i]]
    OBVIOUS
  <2>4. QED
    BY <2>1, <2>2, <2>3 DEF IsCat
<1> HIDE DEF values, all, T
<1>10. IsCat(Cat(out, values), out, m, values, w)
  BY <1>7, <1>8, CatIsBoth
<1>11. Cat(out, values) = all
  BY <1>9, <1>10, CatIsOne
<1>12. out \o values = all
  BY <1>11, Zenon DEF Cat
<1>13. QED
  BY <1>1, <1>4, <1>5, <1>12 DEF all

LEMMA ReadBlockKeepsUInv == ASSUME UInv, unpacked = "no", ReadBlock PROVE UInv'
<1>1. packing.bpc \in Bpcs /\ fetched < ByteLen
  BY DEF ReadBlock, Bpcs
<1>2. CASE ~UnpackBlock(Here).ok
  <2>1. UNCHANGED <<packing, fetched, out_data>> /\ unpacked' = "error"
    BY <1>2 DEF ReadBlock, Finish
  <2>2. QED
    BY <1>1, <2>1 DEF UInv, RowsPackEvenly, RowsAreOut, block_size, Width, Value
<1>3. CASE UnpackBlock(Here).ok
  <2>1. /\ fetched' = fetched + block_size
        /\ out_data' = out_data \o UnpackBlock(Here).values
        /\ UNCHANGED <<packing, unpacked>>
    BY <1>3 DEF ReadBlock
  <2>2. ASSUME RowsPackEvenly PROVE \E r \in 0 .. packing.height : RowsAreOut(r)'
    <3>1. PICK r \in 0 .. packing.height : RowsAreOut(r)
      BY <1>1, <2>2 DEF UInv
    <3>2. packing \in Packing
      BY DEF UInv
    <3>3. PICK high, b \in Nat : high = packing.height /\ b = block_size
      BY <1>1, <2>2, <3>2, RowsAreBlocks DEF Bpcs
    <3>4. r \in Nat /\ fetched = r * b /\ r * b \in Nat
      BY <3>1, <3>3, ProductsAreNats DEF RowsAreOut
    <3>5. r * b < b * high
      <4>1. PICK all \in Nat :
              /\ all = block_size * packing.height
              /\ ByteLen = IF packing.byte_len <= all THEN packing.byte_len ELSE all
        BY <1>1, <2>2, <3>2, LeastOfBytes
      <4>2. packing.byte_len \in Nat
        BY <3>2 DEF Packing
      <4>3. QED
        BY <1>1, <3>3, <3>4, <4>1, <4>2
    <3>6. b > 0 /\ r < high
      <4>1. b # 0
        BY <3>3, <3>4, <3>5
      <4>2. ~ (high <= r)
        <5>1. high <= r => high * b <= r * b
          BY <3>3, <3>4, Products
        <5>2. high * b = b * high
          BY <3>3
        <5>3. QED
          BY <3>3, <3>4, <3>5, <5>1, <5>2, ProductsAreNats
      <4>3. QED
        BY <3>3, <3>4, <4>1, <4>2
    <3>7. out_data = [i \in 1 .. r * Width |-> Value(i)] /\ fetched = r * block_size
      BY <3>1 DEF RowsAreOut
    <3>8. out_data' = [i \in 1 .. (r + 1) * Width |-> Value(i)]
      BY <1>1, <2>1, <2>2, <3>2, <3>3, <3>4, <3>6, <3>7, OneMoreRow
    <3>9. fetched' = (r + 1) * block_size
      <4>1. (r + 1) * b = r * b + b
        BY <3>3, <3>4
      <4>2. QED
        BY <2>1, <3>3, <3>4, <4>1
    <3>10. r + 1 \in 0 .. packing.height
      BY <3>3, <3>4, <3>6
    <3>11. RowsAreOut(r + 1)'
      BY <2>1, <3>8, <3>9 DEF RowsAreOut, block_size, Width, Value
    <3>12. QED
      BY <3>10, <3>11
  <2>3. RowsPackEvenly' <=> RowsPackEvenly
    BY <2>1 DEF RowsPackEvenly
  <2>4. QED
    BY <1>1, <2>1, <2>2, <2>3 DEF UInv
<1>4. QED
  BY <1>2, <1>3

LEMMA FinishKeepsUInv ==
  ASSUME UInv, NEW how, Finish(how), how = "ok" => packing.bpc \in Bpcs /\ fetched >= ByteLen
  PROVE  UInv'
<1>1. UNCHANGED <<packing, fetched, out_data>> /\ unpacked' = how
  BY DEF Finish
<1>2. /\ block_size' = block_size /\ Width' = Width /\ RowsPackEvenly' = RowsPackEvenly
      /\ ByteLen' = ByteLen
  BY <1>1 DEF block_size, Width, RowsPackEvenly, ByteLen
<1>3. \A r : RowsAreOut(r) => RowsAreOut(r)'
  BY <1>1, <1>2 DEF RowsAreOut, Value
<1>4. QED
  BY <1>1, <1>2, <1>3 DEF UInv

(* The loop of unpack_from_reader has read whole rows, and unpacked them.  *)
THEOREM UnpackInvariance == UnpackSpec => []UInv
<1>1. UnpackInit => UInv
  BY UnpackInitHolds
<1>2. UInv /\ [UnpackStep]_unpackVars => UInv'
  <2> SUFFICES ASSUME UInv, [UnpackStep]_unpackVars PROVE UInv'
    OBVIOUS
  <2>1. CASE UNCHANGED unpackVars
    <3>1. UNCHANGED <<packing, fetched, out_data, unpacked>>
      BY <2>1 DEF unpackVars
    <3>2. block_size' = block_size /\ Width' = Width /\ RowsPackEvenly' = RowsPackEvenly
          /\ ByteLen' = ByteLen
      BY <3>1 DEF block_size, Width, RowsPackEvenly, ByteLen
    <3>3. \A r : RowsAreOut(r) => RowsAreOut(r)'
      BY <3>1, <3>2 DEF RowsAreOut, Value
    <3>4. QED
      BY <3>1, <3>2, <3>3 DEF UInv
  <2>2. CASE unpacked = "no" /\ ReadBlock
    BY <2>2, ReadBlockKeepsUInv
  <2>3. CASE InvalidBpc
    BY <2>3, FinishKeepsUInv DEF InvalidBpc
  <2>4. CASE EndOfFile
    BY <2>4, FinishKeepsUInv DEF EndOfFile
  <2>5. CASE AllRead
    BY <2>5, FinishKeepsUInv DEF AllRead, Bpcs
  <2>6. QED
    BY <2>1, <2>2, <2>3, <2>4, <2>5 DEF UnpackStep
<1>3. QED
  BY <1>1, <1>2, PTL DEF UnpackSpec

LEMMA UInvIsEnough == UInv => ValuesAreWherePacked
<1> SUFFICES ASSUME UInv, RowsPackEvenly
             PROVE  /\ \A i \in DOMAIN out_data : out_data[i] = Value(i)
                    /\ unpacked = "ok" /\ packing.byte_len >= block_size * packing.height
                         => Len(out_data) = packing.width * packing.height
  BY DEF ValuesAreWherePacked
<1>1. CASE packing.bpc \notin Bpcs
  BY <1>1 DEF UInv
<1>2. CASE packing.bpc \in Bpcs
  <2>1. PICK r \in 0 .. packing.height : RowsAreOut(r)
    BY <1>2 DEF UInv
  <2>2. packing \in Packing
    BY DEF UInv
  <2>3. PICK w, b, high, n \in Nat :
          /\ w = Width /\ w = packing.width /\ b = block_size /\ high = packing.height
          /\ n = packing.byte_len /\ (b = 0 => w = 0)
    BY <1>2, <2>2, RowsAreBlocks DEF Width, Bpcs
  <2>4. r \in Nat /\ r <= high /\ r * b \in Nat /\ r * w \in Nat /\ b * high \in Nat
    BY <2>1, <2>3, ProductsAreNats
  <2>5. out_data = [i \in 1 .. r * w |-> Value(i)] /\ fetched = r * b
    BY <2>1, <2>3 DEF RowsAreOut
  <2>6. \A i \in DOMAIN out_data : out_data[i] = Value(i)
    BY <2>5
  <2>7. Len(out_data) = r * w
    BY <2>4, <2>5
  <2>8. ASSUME unpacked = "ok", n >= b * high PROVE r * w = w * high
    <3>1. r * b >= b * high
      <4>1. PICK all \in Nat :
              /\ all = block_size * packing.height
              /\ ByteLen = IF packing.byte_len <= all THEN packing.byte_len ELSE all
        BY <1>2, <2>2, LeastOfBytes
      <4>2. fetched >= ByteLen
        BY <1>2, <2>8 DEF UInv
      <4>3. QED
        BY <2>3, <2>4, <2>5, <2>8, <4>1, <4>2
    <3>2. CASE b = 0
      BY <2>3, <2>4, <3>2
    <3>3. CASE b > 0
      <4>1. ~ (r + 1 <= high)
        <5>1. r + 1 <= high => (r + 1) * b <= high * b
          BY <2>3, <2>4, Products
        <5>2. (r + 1) * b = r * b + b /\ high * b = b * high
          BY <2>3, <2>4
        <5>3. QED
          BY <2>3, <2>4, <3>1, <3>3, <5>1, <5>2
      <4>2. high < r + 1
        BY <2>3, <2>4, <4>1
      <4>3. r = high
        BY ONLY <2>4, <4>2, high \in Nat
      <4>4. QED
        BY <2>3, <4>3
    <3>4. QED
      BY <2>3, <3>2, <3>3
  <2>9. QED
    BY <2>3, <2>6, <2>7, <2>8
<1>3. QED
  BY <1>1, <1>2

(* Every value of a packed row comes out whole, in its place and of its    *)
(* own bits, and all rows asked for are there or it is an error            *)
(* (unpack_from_reader and what it calls).                                 *)
THEOREM ValuesComeOutWhole == UnpackSpec => []ValuesAreWherePacked
<1>1. QED
  BY UnpackInvariance, UInvIsEnough, PTL
=============================================================================
