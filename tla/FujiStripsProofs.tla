-------------------------- MODULE FujiStripsProofs --------------------------
(***************************************************************************)
(* The strips of a picture with a valid header are a partition of its      *)
(* columns, whatever the block size: what makes the unlocked buffer of     *)
(* decompress_fuji safe.  And in each strip a sample is computed from      *)
(* neighbours that are decoded, for lines of every width, strips of any    *)
(* number of rounds, and strips that interleave in every way.              *)
(***************************************************************************)
EXTENDS FujiStrips, TLAPS

Positive == Nat \ {0}

(* No column of the picture belongs to two strips, or to none, and no      *)
(* strip has columns behind the picture (Strip::width, Strip::offset_x).   *)
StripsCoverThePicture ==
  /\ \A n \in Strips : Columns(n) \subseteq 0 .. picture.raw_width - 1
  /\ \A n, m \in Strips : n # m => Columns(n) \cap Columns(m) = {}
  /\ \A x \in 0 .. picture.raw_width - 1 : \E n \in Strips : x \in Columns(n)

(* What is decoded has passed Header::is_valid.                            *)
OnlyValidIsDecoded ==
  /\ picture \in Picture
  /\ stage \in {"decode", "done"} => is_valid

(* What the header says of the blocks is what division by them is.         *)
LEMMA BlocksCoverTheWidth ==
  ASSUME NEW w \in Positive, NEW b \in Positive, NEW k \in Positive,
         k = (w + b - 1) \div b
  PROVE  b * (k - 1) < w /\ w <= b * k
<1> DEFINE a == w + b - 1
<1>1. a \in Nat /\ k = a \div b
  BY DEF Positive
<1>2. b * k <= a /\ a < b * k + b
  <2>1. a = b * (a \div b) + (a % b) /\ a % b \in 0 .. b - 1
    BY <1>1, Z3 DEF Positive
  <2>2. QED
    BY <1>1, <2>1 DEF Positive
<1>3. b * (k - 1) = b * k - b
  BY DEF Positive
<1>4. QED
  BY <1>2, <1>3 DEF Positive

(* A strip ends before the next one starts, and the last one ends with the *)
(* picture: columns of two strips never meet, and every column is in one.  *)
LEMMA StripsArePartition ==
  ASSUME picture \in Picture, is_valid
  PROVE  StripsCoverThePicture
<1> DEFINE b == BlockSize
           k == picture.blocks_in_row
           w == picture.raw_width
<1>1. b \in Positive /\ k \in Positive /\ w \in Positive
  BY FujiStripsAssumption DEF Positive, Picture, is_valid
<1>2. picture.block_size = b /\ k = (w + b - 1) \div b
  BY DEF is_valid, div_round_up
<1>3. b * (k - 1) < w /\ w <= b * k
  BY <1>1, <1>2, BlocksCoverTheWidth
<1>4. Strips = 0 .. k - 1 /\ \A n \in Strips : offset_x(n) = b * n
  BY <1>2 DEF Strips, offset_x
<1>5. ASSUME NEW n \in Strips, NEW m \in Strips, n < m
      PROVE  b * (n + 1) <= b * m
  BY <1>1, <1>4, <1>5, Z3 DEF Positive
<1>6. ASSUME NEW n \in Strips
      PROVE  /\ width(n) \in Positive
             /\ n + 1 # k => offset_x(n) + width(n) = b * (n + 1)
             /\ n + 1 = k => offset_x(n) + width(n) = w
             /\ offset_x(n) + width(n) <= b * (n + 1)
             /\ offset_x(n) + width(n) <= w
  <2>1. b * n \in Nat /\ b * (n + 1) = b * n + b
    BY <1>1, <1>4 DEF Positive
  <2>2. CASE n + 1 # k
    <3>1. width(n) = b
      BY <1>2, <2>2 DEF width
    <3>2. b * (n + 1) <= b * (k - 1)
      BY <1>1, <1>4, <2>2, Z3 DEF Positive
    <3>3. b * (k - 1) \in Nat
      BY <1>1 DEF Positive
    <3>4. QED
      BY <1>1, <1>3, <1>4, <2>1, <2>2, <3>1, <3>2, <3>3 DEF Positive
  <2>3. CASE n + 1 = k
    <3>1. width(n) = w - b * n
      BY <1>4, <2>3 DEF width
    <3>2. n = k - 1 /\ n + 1 = k
      BY <1>1, <1>4, <2>3 DEF Positive
    <3>3. b * n < w /\ w <= b * (n + 1)
      BY <1>3, <3>2
    <3>4. n + 1 = k /\ offset_x(n) = b * n
      BY <1>4, <3>2
    <3>5. QED
      BY <1>1, <2>1, <3>1, <3>3, <3>4 DEF Positive
  <2>4. QED
    BY <2>2, <2>3
<1>7. ASSUME NEW n \in Strips
      PROVE  Columns(n) \subseteq 0 .. w - 1
  <2>1. offset_x(n) \in Nat
    BY <1>1, <1>4 DEF Positive
  <2>2. QED
    BY <1>1, <1>6, <2>1 DEF Columns, Positive
<1>8. ASSUME NEW n \in Strips, NEW m \in Strips, n < m
      PROVE  Columns(n) \cap Columns(m) = {}
  <2>1. offset_x(n) \in Nat /\ offset_x(m) = b * m /\ b * m \in Nat
    BY <1>1, <1>4 DEF Positive
  <2>2. offset_x(n) + width(n) <= offset_x(m)
    BY <1>1, <1>4, <1>5, <1>6, <1>8, <2>1 DEF Positive
  <2>3. width(n) \in Nat /\ width(m) \in Nat
    BY <1>6 DEF Positive
  <2>4. QED
    BY <2>1, <2>2, <2>3 DEF Columns
<1>9. ASSUME NEW n \in Strips, NEW m \in Strips, n # m
      PROVE  Columns(n) \cap Columns(m) = {}
  <2>1. n < m \/ m < n
    BY <1>4, <1>9
  <2>2. QED
    BY <1>8, <2>1
<1>10. ASSUME NEW x \in 0 .. w - 1
       PROVE  \E n \in Strips : x \in Columns(n)
  <2> DEFINE n == x \div b
  <2>1. x = b * n + (x % b) /\ x % b \in 0 .. b - 1 /\ n \in Nat
    BY <1>1, Z3 DEF Positive
  <2>2. b * n <= x /\ x < b * n + b /\ b * n \in Nat
    BY <1>1, <2>1 DEF Positive
  <2>3. n \in Strips
    <3>1. b * n < b * k
      BY <1>1, <1>3, <2>2 DEF Positive
    <3>2. n < k
      BY <1>1, <2>1, <3>1, Z3 DEF Positive
    <3>3. QED
      BY <1>1, <1>4, <2>1, <3>2 DEF Positive
  <2>4. x < offset_x(n) + width(n)
    <3>1. b * (n + 1) = b * n + b
      BY <1>1, <2>1 DEF Positive
    <3>2. CASE n + 1 # k
      BY <1>6, <2>2, <2>3, <3>1, <3>2
    <3>3. CASE n + 1 = k
      BY <1>1, <1>6, <2>3, <3>3 DEF Positive
    <3>4. QED
      BY <3>2, <3>3
  <2>5. QED
    BY <1>4, <1>6, <2>2, <2>3, <2>4 DEF Columns, Positive
<1>11. QED
  BY <1>7, <1>9, <1>10 DEF StripsCoverThePicture

LEMMA ValidIsInvariant ==
  StripsSpec => []OnlyValidIsDecoded
<1>1. StripsInit => OnlyValidIsDecoded
  BY FujiStripsAssumption DEF StripsInit, OnlyValidIsDecoded
<1>2. OnlyValidIsDecoded /\ [StripsStep]_stripsVars => OnlyValidIsDecoded'
  <2> SUFFICES ASSUME OnlyValidIsDecoded, [StripsStep]_stripsVars
               PROVE  OnlyValidIsDecoded'
    OBVIOUS
  <2> USE DEF OnlyValidIsDecoded
  <2>1. picture' = picture
    BY DEF StripsStep, stripsVars, ReadHeader, Return, StartBlock, DecodeEven, DecodeOdd,
           Break, EndPass, EndBlock
  <2>2. is_valid' = is_valid
    BY <2>1 DEF is_valid, cfa, cfa_height, div_round_up
  <2>3. CASE ReadHeader
    BY <2>1, <2>2, <2>3 DEF ReadHeader
  <2>4. CASE Return
    BY <2>1, <2>2, <2>4 DEF Return
  <2>5. ASSUME NEW n \in Strips, StartBlock(n) PROVE OnlyValidIsDecoded'
    BY <2>1, <2>2, <2>5 DEF StartBlock
  <2>6. ASSUME NEW n \in Strips, DecodeEven(n) PROVE OnlyValidIsDecoded'
    BY <2>1, <2>2, <2>6 DEF DecodeEven
  <2>7. ASSUME NEW n \in Strips, DecodeOdd(n) PROVE OnlyValidIsDecoded'
    BY <2>1, <2>2, <2>7 DEF DecodeOdd
  <2>8. ASSUME NEW n \in Strips, Break(n) PROVE OnlyValidIsDecoded'
    BY <2>1, <2>8 DEF Break
  <2>9. ASSUME NEW n \in Strips, EndPass(n) PROVE OnlyValidIsDecoded'
    BY <2>1, <2>2, <2>9 DEF EndPass
  <2>10. ASSUME NEW n \in Strips, EndBlock(n) PROVE OnlyValidIsDecoded'
    BY <2>1, <2>2, <2>10 DEF EndBlock
  <2>11. CASE UNCHANGED stripsVars
    BY <2>1, <2>2, <2>11 DEF stripsVars
  <2>12. QED
    BY <2>3, <2>4, <2>5, <2>6, <2>7, <2>8, <2>9, <2>10, <2>11 DEF StripsStep
<1>3. QED
  BY <1>1, <1>2, PTL DEF StripsSpec

(* While strips are decoded in parallel, with no lock on the buffer they   *)
(* write, no pixel is written by two of them, and none is out of the       *)
(* picture (decompress_fuji, the SAFETY of inner_mut).                     *)
THEOREM StripsNeverMeet ==
  StripsSpec => [](stage \in {"decode", "done"} => StripsCoverThePicture)
<1>1. OnlyValidIsDecoded => (stage \in {"decode", "done"} => StripsCoverThePicture)
  BY StripsArePartition DEF OnlyValidIsDecoded
<1>2. QED
  BY <1>1, ValidIsInvariant, PTL
-----------------------------------------------------------------------------
(* The lines of a strip, of a width w, in the round l, in the pass k.      *)

(* The first line of a colour that is not decoded yet.                     *)
NextLine(k, c) ==
  IF k = 0 THEN 2
  ELSE CASE c = "G" -> k + 1
         [] c = "R" -> 2 + (k \div 2)
         [] c = "B" -> 1 + ((k + 1) \div 2)

RowOfLine(l, c, i) == Decoded(c) * l + i - 2

IsSampleAt(v, c, r, p) == v # Zero /\ v.colour = c /\ v.row = r /\ v.at = p

(* A cell of a row: one of its samples, or an end of the row above.        *)
IsCell(w, v, c, r, x) ==
  LET q == IF x \in {0, w + 1} THEN r - 1 ELSE r
      p == IF x = 0 THEN 0 ELSE IF x = w + 1 THEN w - 1 ELSE x - 1
  IN IF q < 0 THEN v = Zero ELSE IsSampleAt(v, c, q, p)

WasDecoded(p, at) == IF p % 2 = 0 THEN p < at.even ELSE p < at.odd

BufferOK(w, b) ==
  b = [c \in Colour |-> [i \in Lines(c) |-> [x \in 0 .. w + 1 |-> b[c][i][x]]]]

(* Lines before the next are whole, and the ends of the next are there.    *)
LinesAreRows(w, l, k, b) ==
  \A c \in Colour : \A i \in Lines(c), x \in 0 .. w + 1 :
    i < NextLine(k, c) \/ (i = NextLine(k, c) /\ x \in {0, w + 1})
      => IsCell(w, b[c][i][x], c, RowOfLine(l, c, i), x)

(* The line in work has the samples behind which the positions are.        *)
LineInWork(w, l, k, cs, b) ==
  k \in 1 .. 6 =>
    \A c \in DOMAIN LineOf(k), p \in 0 .. w - 1 :
      WasDecoded(p, cs[c])
        => IsSampleAt(b[c][NextLine(k, c)][p + 1], c, RowOfLine(l, c, NextLine(k, c)), p)

(* The odd positions follow the even ones, of both colours of a pass.      *)
PositionsFollow(w, t, at) ==
  /\ at.even \in Nat /\ at.even % 2 = 0 /\ at.even <= w + 1
  /\ at.odd \in Nat /\ at.odd % 2 = 1 /\ at.odd <= w + 1
  /\ t = "odd" => at.odd + 3 <= at.even
  /\ t = "even" => at.odd = 1 \/ at.odd < at.even \/ at.even >= w

ColoursOK(w, k, t, cs) ==
  /\ cs = [c \in Colour |-> [even |-> cs[c].even, odd |-> cs[c].odd]]
  /\ t \in {"even", "odd"}
  /\ k \notin 1 .. 6 => t = "even"
  /\ k = 1 => cs["B"] = NewColours["B"]
  /\ k \in 1 .. 6 => /\ \A c \in DOMAIN LineOf(k) : cs[c] = cs["G"]
                     /\ PositionsFollow(w, t, cs["G"])

StripOK(w, l, k, t, cs, b) ==
  /\ l \in Nat /\ k \in 0 .. 7
  /\ ColoursOK(w, k, t, cs)
  /\ BufferOK(w, b)
  /\ LinesAreRows(w, l, k, b)
  /\ LineInWork(w, l, k, cs, b)

(* The two colours of a pass, and which line is next.                      *)
LEMMA PassesGoDown ==
  /\ \A k \in 1 .. 6 : /\ DOMAIN LineOf(k) \subseteq Colour /\ "G" \in DOMAIN LineOf(k)
                       /\ \A c \in DOMAIN LineOf(k) : LineOf(k)[c] = NextLine(k, c)
  /\ \A k \in 1 .. 6, c \in Colour :
       NextLine(k + 1, c) = (IF c \in DOMAIN LineOf(k) THEN NextLine(k, c) + 1 ELSE NextLine(k, c))
  /\ \A k \in 0 .. 7, c \in Colour : NextLine(k, c) \in 2 .. Decoded(c) + 2
  /\ \A k \in 1 .. 6 : \A c \in DOMAIN LineOf(k) : NextLine(k, c) \in 2 .. Decoded(c) + 1
  /\ \A c \in Colour : NextLine(0, c) = 2 /\ NextLine(1, c) = 2 /\ NextLine(7, c) = Decoded(c) + 2
<1>1. \A k \in 1 .. 6 : k = 1 \/ k = 2 \/ k = 3 \/ k = 4 \/ k = 5 \/ k = 6
  OBVIOUS
<1>2. \A k \in 0 .. 7 : k = 0 \/ k \in 1 .. 6 \/ k = 7
  OBVIOUS
<1>3. ASSUME NEW c \in Colour
      PROVE  /\ NextLine(0, c) = 2 /\ NextLine(1, c) = 2
             /\ NextLine(2, c) = (IF c = "B" THEN 2 ELSE 3)
             /\ NextLine(3, c) = (IF c = "G" THEN 4 ELSE 3)
             /\ NextLine(4, c) = (IF c = "G" THEN 5 ELSE IF c = "R" THEN 4 ELSE 3)
             /\ NextLine(5, c) = (IF c = "G" THEN 6 ELSE 4)
             /\ NextLine(6, c) = (IF c = "G" THEN 7 ELSE IF c = "R" THEN 5 ELSE 4)
             /\ NextLine(7, c) = (IF c = "G" THEN 8 ELSE 5)
  <2>1. c = "R" \/ c = "G" \/ c = "B"
    BY DEF Colour
  <2>2. QED
    BY <2>1 DEF NextLine
<1>4. /\ LineOf(1) = [R |-> 2, G |-> 2] /\ LineOf(2) = [G |-> 3, B |-> 2]
      /\ LineOf(3) = [R |-> 3, G |-> 4] /\ LineOf(4) = [G |-> 5, B |-> 3]
      /\ LineOf(5) = [R |-> 4, G |-> 6] /\ LineOf(6) = [G |-> 7, B |-> 4]
  BY DEF LineOf
<1>5. Colour = {"R", "G", "B"}
  BY DEF Colour
<1>6. ASSUME NEW k \in 1 .. 6
      PROVE  /\ DOMAIN LineOf(k) \subseteq Colour /\ "G" \in DOMAIN LineOf(k)
             /\ \A c \in DOMAIN LineOf(k) : /\ LineOf(k)[c] = NextLine(k, c)
                                            /\ NextLine(k, c) \in 2 .. Decoded(c) + 1
             /\ \A c \in Colour :
                  NextLine(k + 1, c) = (IF c \in DOMAIN LineOf(k) THEN NextLine(k, c) + 1 ELSE NextLine(k, c))
  <2>1. CASE k \in {1, 3, 5}
    <3>1. DOMAIN LineOf(k) = {"R", "G"}
      BY <1>4, <2>1
    <3>2. QED
      BY <1>3, <1>4, <1>5, <2>1, <3>1 DEF Decoded
  <2>2. CASE k \in {2, 4, 6}
    <3>1. DOMAIN LineOf(k) = {"G", "B"}
      BY <1>4, <2>2
    <3>2. QED
      BY <1>3, <1>4, <1>5, <2>2, <3>1 DEF Decoded
  <2>3. QED
    BY <1>1, <2>1, <2>2
<1>7. ASSUME NEW k \in 0 .. 7, NEW c \in Colour
      PROVE  NextLine(k, c) \in 2 .. Decoded(c) + 2
  BY <1>1, <1>2, <1>3 DEF Decoded
<1>8. QED
  BY <1>3, <1>6, <1>7 DEF Decoded

LEMMA NextIsALine ==
  \A k \in 1 .. 6 : \A c \in DOMAIN LineOf(k) : c \in Colour /\ NextLine(k, c) \in Lines(c)
<1> SUFFICES ASSUME NEW k \in 1 .. 6, NEW c \in DOMAIN LineOf(k)
             PROVE  c \in Colour /\ NextLine(k, c) \in Lines(c)
  OBVIOUS
<1>1. c \in Colour /\ NextLine(k, c) \in 2 .. Decoded(c) + 1
  BY PassesGoDown
<1>2. QED
  BY <1>1 DEF Lines, Decoded

LEMMA RowsAreNumbers ==
  \A l \in Nat, c \in Colour, i \in Int :
    /\ Decoded(c) \in {3, 6} /\ RowOfLine(l, c, i) \in Int
    /\ RowOfLine(l, c, i - 1) = RowOfLine(l, c, i) - 1
    /\ RowOfLine(l + 1, c, i) = RowOfLine(l, c, Decoded(c) + i)
    /\ i >= 2 => RowOfLine(l, c, i) \in Nat
<1> SUFFICES ASSUME NEW l \in Nat, NEW c \in Colour, NEW i \in Int
             PROVE  /\ Decoded(c) \in {3, 6} /\ RowOfLine(l, c, i) \in Int
                    /\ RowOfLine(l, c, i - 1) = RowOfLine(l, c, i) - 1
                    /\ RowOfLine(l + 1, c, i) = RowOfLine(l, c, Decoded(c) + i)
                    /\ i >= 2 => RowOfLine(l, c, i) \in Nat
  OBVIOUS
<1>1. CASE Decoded(c) = 3
  BY <1>1 DEF RowOfLine
<1>2. CASE Decoded(c) = 6
  BY <1>2 DEF RowOfLine
<1>3. QED
  BY <1>1, <1>2 DEF Decoded

(* A sample of each colour of the pass is written behind its position p,   *)
(* and nothing else.                                                       *)
OnlyBehind(w, k, p, b, b2) ==
  \A c \in Colour : \A i \in Lines(c), x \in 0 .. w + 1 :
    ~(c \in DOMAIN LineOf(k) /\ i = NextLine(k, c) /\ x = p + 1) => b2[c][i][x] = b[c][i][x]

SamplesBehind(w, l, k, p, cs, cs2, b2) ==
  \A c \in DOMAIN LineOf(k) :
    /\ IsSampleAt(b2[c][NextLine(k, c)][p + 1], c, RowOfLine(l, c, NextLine(k, c)), p)
    /\ \A q \in 0 .. w - 1 : WasDecoded(q, cs2[c]) => q = p \/ WasDecoded(q, cs[c])

LEMMA SamplesAreWritten ==
  ASSUME NEW w \in Nat \ {0}, NEW l \in Nat, NEW k \in 1 .. 6, NEW t, NEW cs, NEW b,
         StripOK(w, l, k, t, cs, b), NEW p \in 0 .. w - 1, NEW b2, NEW cs2,
         OnlyBehind(w, k, p, b, b2), SamplesBehind(w, l, k, p, cs, cs2, b2)
  PROVE  LinesAreRows(w, l, k, b2) /\ LineInWork(w, l, k, cs2, b2)
<1> USE DEF OnlyBehind, SamplesBehind
<1>1. LinesAreRows(w, l, k, b2)
  <2> SUFFICES ASSUME NEW c \in Colour, NEW i \in Lines(c), NEW x \in 0 .. w + 1,
                      i < NextLine(k, c) \/ (i = NextLine(k, c) /\ x \in {0, w + 1})
               PROVE  IsCell(w, b2[c][i][x], c, RowOfLine(l, c, i), x)
    BY DEF LinesAreRows
  <2>1. ~(i = NextLine(k, c) /\ x = p + 1)
    <3>1. NextLine(k, c) \in Nat
      BY PassesGoDown
    <3>2. QED
      BY <3>1
  <2>2. b2[c][i][x] = b[c][i][x]
    BY <2>1
  <2>3. QED
    BY <2>2 DEF StripOK, LinesAreRows
<1>2. LineInWork(w, l, k, cs2, b2)
  <2> SUFFICES ASSUME NEW c \in DOMAIN LineOf(k), NEW q \in 0 .. w - 1, WasDecoded(q, cs2[c])
               PROVE  IsSampleAt(b2[c][NextLine(k, c)][q + 1], c, RowOfLine(l, c, NextLine(k, c)), q)
    BY DEF LineInWork
  <2>1. CASE q = p
    BY <2>1
  <2>2. CASE q # p
    <3>1. WasDecoded(q, cs[c]) /\ q + 1 # p + 1 /\ q + 1 \in 0 .. w + 1
      BY <2>2
    <3>2. c \in Colour /\ NextLine(k, c) \in Lines(c)
      BY NextIsALine
    <3>3. b2[c][NextLine(k, c)][q + 1] = b[c][NextLine(k, c)][q + 1]
      BY <3>1, <3>2
    <3>4. QED
      BY <3>1, <3>3 DEF StripOK, LineInWork
  <2>3. QED
    BY <2>1, <2>2
<1>3. QED
  BY <1>1, <1>2

(* The next even position of each colour, and then the odd ones' turn.     *)
LEMMA EvenIsNext ==
  ASSUME NEW w \in Nat \ {0}, NEW k \in 1 .. 6, NEW cs, ColoursOK(w, k, "even", cs),
         cs["G"].even < w, NEW cs2,
         cs2 = [c \in Colour |-> IF c \in DOMAIN LineOf(k) THEN [cs[c] EXCEPT !.even = @ + 2] ELSE cs[c]],
         NEW t2, t2 = IF cs2["G"].even > Lag THEN "odd" ELSE "even"
  PROVE  /\ ColoursOK(w, k, t2, cs2)
         /\ \A c \in DOMAIN LineOf(k) : \A q \in 0 .. w - 1 :
              WasDecoded(q, cs2[c]) => q = cs["G"].even \/ WasDecoded(q, cs[c])
<1> DEFINE e == cs["G"].even
           o == cs["G"].odd
<1>1. /\ DOMAIN LineOf(k) \subseteq Colour /\ "G" \in DOMAIN LineOf(k)
      /\ \A c \in DOMAIN LineOf(k) : cs[c] = cs["G"]
      /\ \A c \in Colour : cs[c] = [even |-> cs[c].even, odd |-> cs[c].odd]
  BY PassesGoDown DEF ColoursOK
<1>2. PositionsFollow(w, "even", cs["G"])
  BY DEF ColoursOK
<1>3. e \in Nat /\ e % 2 = 0 /\ o \in Nat /\ o % 2 = 1 /\ o <= w + 1 /\ (o = 1 \/ o < e \/ e >= w)
  BY <1>2 DEF PositionsFollow
<1>4. ASSUME NEW c \in DOMAIN LineOf(k) PROVE cs2[c] = [even |-> e + 2, odd |-> o]
  <2>1. cs2[c] = [cs[c] EXCEPT !.even = @ + 2] /\ cs[c] = [even |-> e, odd |-> o]
    BY <1>1
  <2>2. QED
    BY <2>1
<1>5. \A c \in Colour : cs2[c] = [even |-> cs2[c].even, odd |-> cs2[c].odd]
  <2> SUFFICES ASSUME NEW c \in Colour PROVE cs2[c] = [even |-> cs2[c].even, odd |-> cs2[c].odd]
    OBVIOUS
  <2>1. CASE c \in DOMAIN LineOf(k)
    BY <1>4, <2>1
  <2>2. CASE c \notin DOMAIN LineOf(k)
    BY <1>1, <2>2
  <2>3. QED
    BY <2>1, <2>2
<1>6. PositionsFollow(w, t2, cs2["G"])
  <2>1. cs2["G"] = [even |-> e + 2, odd |-> o]
    BY <1>1, <1>4
  <2>2. (e + 2) % 2 = 0 /\ e + 2 <= w + 1
    BY <1>3
  <2>3. Lag \in Nat /\ Lag >= 2
    BY FujiStripsAssumption
  <2>4. t2 = "odd" => o + 3 <= e + 2
    <3>1. e < w
      OBVIOUS
    <3>2. SUFFICES ASSUME e + 2 > Lag PROVE o + 3 <= e + 2
      BY <2>1
    <3>3. e >= 1
      BY <1>3, <2>3, <3>2
    <3>4. e >= 2
      BY <1>3, <3>3
    <3>5. QED
      BY <1>3, <3>1, <3>4
  <2>5. t2 = "even" => o = 1 \/ o < e + 2 \/ e + 2 >= w
    BY <1>3
  <2>6. t2 \in {"even", "odd"}
    OBVIOUS
  <2>7. QED
    BY <1>3, <2>1, <2>2, <2>4, <2>5, <2>6 DEF PositionsFollow
<1>7. k = 1 => cs2["B"] = NewColours["B"]
  <2>1. k = 1 => "B" \notin DOMAIN LineOf(k)
    BY DEF LineOf
  <2>2. QED
    BY <2>1 DEF ColoursOK, Colour
<1>8. ColoursOK(w, k, t2, cs2)
  <2>1. cs2 = [c \in Colour |-> cs2[c]]
    OBVIOUS
  <2>2. cs2 = [c \in Colour |-> [even |-> cs2[c].even, odd |-> cs2[c].odd]]
    BY <1>5, <2>1
  <2>3. \A c \in DOMAIN LineOf(k) : cs2[c] = cs2["G"]
    BY <1>1, <1>4
  <2>4. QED
    BY <1>6, <1>7, <2>2, <2>3 DEF ColoursOK
<1>9. ASSUME NEW c \in DOMAIN LineOf(k), NEW q \in 0 .. w - 1, WasDecoded(q, cs2[c])
      PROVE  q = e \/ WasDecoded(q, cs[c])
  <2>1. cs2[c] = [even |-> e + 2, odd |-> o] /\ cs[c].even = e /\ cs[c].odd = o
    BY <1>1, <1>4
  <2>2. QED
    BY <1>3, <1>9, <2>1 DEF WasDecoded
<1>10. QED
  BY <1>8, <1>9

(* The next odd position of each colour: it is behind, or the even ones    *)
(* are at the end.                                                         *)
LEMMA OddIsNext ==
  ASSUME NEW w \in Nat \ {0}, NEW k \in 1 .. 6, NEW t, NEW cs, ColoursOK(w, k, t, cs),
         t = "odd" \/ (cs["G"].even >= w /\ cs["G"].odd < w), NEW cs2,
         cs2 = [c \in Colour |-> IF c \in DOMAIN LineOf(k) THEN [cs[c] EXCEPT !.odd = @ + 2] ELSE cs[c]]
  PROVE  /\ ColoursOK(w, k, "even", cs2)
         /\ \A c \in DOMAIN LineOf(k) : \A q \in 0 .. w - 1 :
              WasDecoded(q, cs2[c]) => q = cs["G"].odd \/ WasDecoded(q, cs[c])
         /\ cs["G"].odd \in 0 .. w - 1
<1> DEFINE e == cs["G"].even
           o == cs["G"].odd
<1>1. /\ DOMAIN LineOf(k) \subseteq Colour /\ "G" \in DOMAIN LineOf(k)
      /\ \A c \in DOMAIN LineOf(k) : cs[c] = cs["G"]
      /\ \A c \in Colour : cs[c] = [even |-> cs[c].even, odd |-> cs[c].odd]
  BY PassesGoDown DEF ColoursOK
<1>2. PositionsFollow(w, t, cs["G"])
  BY DEF ColoursOK
<1>3. /\ e \in Nat /\ e % 2 = 0 /\ o \in Nat /\ o % 2 = 1 /\ e <= w + 1
      /\ o < w /\ (o + 2 < e \/ e >= w)
  BY <1>2 DEF PositionsFollow
<1>4. ASSUME NEW c \in DOMAIN LineOf(k) PROVE cs2[c] = [even |-> e, odd |-> o + 2]
  <2>1. cs2[c] = [cs[c] EXCEPT !.odd = @ + 2] /\ cs[c] = [even |-> e, odd |-> o]
    BY <1>1
  <2>2. QED
    BY <2>1
<1>5. \A c \in Colour : cs2[c] = [even |-> cs2[c].even, odd |-> cs2[c].odd]
  <2> SUFFICES ASSUME NEW c \in Colour PROVE cs2[c] = [even |-> cs2[c].even, odd |-> cs2[c].odd]
    OBVIOUS
  <2>1. CASE c \in DOMAIN LineOf(k)
    BY <1>4, <2>1
  <2>2. CASE c \notin DOMAIN LineOf(k)
    BY <1>1, <2>2
  <2>3. QED
    BY <2>1, <2>2
<1>6. PositionsFollow(w, "even", cs2["G"])
  <2>1. cs2["G"] = [even |-> e, odd |-> o + 2]
    BY <1>1, <1>4
  <2>2. (o + 2) % 2 = 1 /\ o + 2 <= w + 1
    BY <1>3
  <2>3. QED
    BY <1>3, <2>1, <2>2 DEF PositionsFollow
<1>7. k = 1 => cs2["B"] = NewColours["B"]
  <2>1. k = 1 => "B" \notin DOMAIN LineOf(k)
    BY DEF LineOf
  <2>2. QED
    BY <2>1 DEF ColoursOK, Colour
<1>8. ColoursOK(w, k, "even", cs2)
  <2>1. cs2 = [c \in Colour |-> cs2[c]]
    OBVIOUS
  <2>2. cs2 = [c \in Colour |-> [even |-> cs2[c].even, odd |-> cs2[c].odd]]
    BY <1>5, <2>1
  <2>3. \A c \in DOMAIN LineOf(k) : cs2[c] = cs2["G"]
    BY <1>1, <1>4
  <2>4. QED
    BY <1>6, <1>7, <2>2, <2>3 DEF ColoursOK
<1>9. ASSUME NEW c \in DOMAIN LineOf(k), NEW q \in 0 .. w - 1, WasDecoded(q, cs2[c])
      PROVE  q = o \/ WasDecoded(q, cs[c])
  <2>1. cs2[c] = [even |-> e, odd |-> o + 2] /\ cs[c].even = e /\ cs[c].odd = o
    BY <1>1, <1>4
  <2>2. QED
    BY <1>3, <1>9, <2>1 DEF WasDecoded
<1>10. QED
  BY <1>3, <1>8, <1>9

(* A pass ends: its lines are whole, and their ends are put before and     *)
(* behind the next ones.                                                   *)
EndsGiven(w, k, b, b2) ==
  \A c \in Colour : \A i \in Lines(c), x \in 0 .. w + 1 :
    b2[c][i][x] = IF c \in DOMAIN LineOf(k) /\ i >= 2 /\ x = 0 THEN b[c][i - 1][1]
                  ELSE IF c \in DOMAIN LineOf(k) /\ i >= 2 /\ x = w + 1 THEN b[c][i - 1][w]
                  ELSE b[c][i][x]

LEMMA PassEnds ==
  ASSUME NEW w \in Nat \ {0}, NEW l, NEW k \in 1 .. 6, NEW cs, NEW b,
         StripOK(w, l, k, "even", cs, b), cs["G"].even >= w, cs["G"].odd >= w,
         NEW cs2, cs2 = [c \in Colour |-> IF c \in Reset(k) THEN NewColours[c] ELSE cs[c]],
         NEW b2, BufferOK(w, b2), EndsGiven(w, k, b, b2)
  PROVE  StripOK(w, l, k + 1, "even", cs2, b2)
<1> USE DEF EndsGiven
<1>1. l \in Nat /\ k + 1 \in 1 .. 7
  BY DEF StripOK
<1>2. ColoursOK(w, k + 1, "even", cs2)
  <2>1. \A c \in Colour : cs2[c] = [even |-> cs2[c].even, odd |-> cs2[c].odd]
    BY DEF StripOK, ColoursOK, NewColours
  <2>2. cs2 = [c \in Colour |-> cs2[c]]
    OBVIOUS
  <2>3. cs2 = [c \in Colour |-> [even |-> cs2[c].even, odd |-> cs2[c].odd]]
    BY <2>1, <2>2
  <2>4. k + 1 \in 1 .. 6 => \A c \in DOMAIN LineOf(k + 1) : cs2[c] = [even |-> 0, odd |-> 1]
    <3>1. k = 1 => cs["B"] = [even |-> 0, odd |-> 1]
      BY DEF StripOK, ColoursOK, NewColours, Colour
    <3>2. \A c \in Colour : c \in Reset(k) => cs2[c] = [even |-> 0, odd |-> 1]
      BY DEF NewColours
    <3>3. CASE k = 1
      <4>1. DOMAIN LineOf(2) = {"G", "B"}
        BY DEF LineOf
      <4>2. QED
        BY <3>1, <3>2, <3>3, <4>1 DEF Reset, Colour
    <3>4. CASE k \in {2, 4}
      <4>1. DOMAIN LineOf(3) = {"R", "G"} /\ DOMAIN LineOf(5) = {"R", "G"}
        BY DEF LineOf
      <4>2. QED
        BY <3>2, <3>4, <4>1 DEF Reset, Colour
    <3>5. CASE k \in {3, 5}
      <4>1. DOMAIN LineOf(4) = {"G", "B"} /\ DOMAIN LineOf(6) = {"G", "B"}
        BY DEF LineOf
      <4>2. QED
        BY <3>2, <3>5, <4>1 DEF Reset, Colour
    <3>6. CASE k = 6
      BY <3>6
    <3>7. QED
      BY <3>3, <3>4, <3>5, <3>6
  <2>5. k + 1 \in 1 .. 6 => /\ \A c \in DOMAIN LineOf(k + 1) : cs2[c] = cs2["G"]
                            /\ PositionsFollow(w, "even", cs2["G"])
    <3> SUFFICES ASSUME k + 1 \in 1 .. 6
                 PROVE  /\ \A c \in DOMAIN LineOf(k + 1) : cs2[c] = cs2["G"]
                        /\ PositionsFollow(w, "even", cs2["G"])
      OBVIOUS
    <3>1. "G" \in DOMAIN LineOf(k + 1)
      BY PassesGoDown
    <3>2. cs2["G"] = [even |-> 0, odd |-> 1]
      BY <2>4, <3>1
    <3>3. PositionsFollow(w, "even", [even |-> 0, odd |-> 1])
      BY DEF PositionsFollow
    <3>4. QED
      BY <2>4, <3>2, <3>3
  <2>6. QED
    BY <1>1, <2>3, <2>5 DEF ColoursOK
<1>3. ASSUME NEW c \in Colour, NEW i \in Lines(c), NEW x \in 0 .. w + 1, i < NextLine(k, c)
      PROVE  IsCell(w, b[c][i][x], c, RowOfLine(l, c, i), x)
  BY <1>3 DEF StripOK, LinesAreRows
<1>4. ASSUME NEW c \in DOMAIN LineOf(k), NEW x \in 1 .. w
      PROVE  IsCell(w, b[c][NextLine(k, c)][x], c, RowOfLine(l, c, NextLine(k, c)), x)
  <2>1. cs[c].even >= w /\ cs[c].odd >= w
    BY DEF StripOK, ColoursOK
  <2>2. x - 1 \in 0 .. w - 1 /\ WasDecoded(x - 1, cs[c])
    <3>1. cs[c].even \in Nat /\ cs[c].odd \in Nat
      BY DEF StripOK, ColoursOK, PositionsFollow
    <3>2. QED
      BY <2>1, <3>1 DEF WasDecoded
  <2>3. IsSampleAt(b[c][NextLine(k, c)][(x - 1) + 1], c, RowOfLine(l, c, NextLine(k, c)), x - 1)
    BY <2>2 DEF StripOK, LineInWork
  <2>4. RowOfLine(l, c, NextLine(k, c)) \in Nat
    <3>1. c \in Colour /\ NextLine(k, c) \in 2 .. Decoded(c) + 1
      BY PassesGoDown
    <3>2. Decoded(c) \in Int
      BY DEF Decoded
    <3>3. NextLine(k, c) \in Int /\ NextLine(k, c) >= 2
      BY <3>1, <3>2
    <3>4. QED
      BY <1>1, <3>1, <3>3, RowsAreNumbers
  <2>5. (x - 1) + 1 = x /\ x \notin {0, w + 1}
    OBVIOUS
  <2>6. QED
    BY <2>3, <2>4, <2>5 DEF IsCell
<1>5. LinesAreRows(w, l, k + 1, b2)
  <2> SUFFICES ASSUME NEW c \in Colour, NEW i \in Lines(c), NEW x \in 0 .. w + 1,
                      i < NextLine(k + 1, c) \/ (i = NextLine(k + 1, c) /\ x \in {0, w + 1})
               PROVE  IsCell(w, b2[c][i][x], c, RowOfLine(l, c, i), x)
    BY DEF LinesAreRows
  <2>1. i \in Nat /\ NextLine(k, c) \in Nat /\ NextLine(k, c) >= 2
    BY PassesGoDown DEF Lines
  <2>2. CASE c \notin DOMAIN LineOf(k)
    <3>1. NextLine(k + 1, c) = NextLine(k, c) /\ b2[c][i][x] = b[c][i][x]
      BY <2>2, PassesGoDown
    <3>2. QED
      BY <3>1 DEF StripOK, LinesAreRows
  <2>3. CASE c \in DOMAIN LineOf(k) /\ (i < 2 \/ x \notin {0, w + 1})
    <3>1. b2[c][i][x] = b[c][i][x]
      <4>1. ~(i >= 2 /\ x = 0) /\ ~(i >= 2 /\ x = w + 1)
        BY <2>1, <2>3
      <4>2. QED
        BY <4>1
    <3>2. NextLine(k + 1, c) = NextLine(k, c) + 1
      BY <2>3, PassesGoDown
    <3>3. i < NextLine(k, c) \/ (i = NextLine(k, c) /\ x \in 1 .. w)
      BY <2>1, <2>3, <3>2
    <3>4. QED
      BY <1>3, <1>4, <2>3, <3>1, <3>3
  <2>4. CASE c \in DOMAIN LineOf(k) /\ i >= 2 /\ x \in {0, w + 1}
    <3> DEFINE e == IF x = 0 THEN 1 ELSE w
    <3>1. b2[c][i][x] = b[c][i - 1][e]
      BY <2>4
    <3>2. NextLine(k + 1, c) = NextLine(k, c) + 1 /\ i - 1 <= NextLine(k, c) /\ i - 1 \in Lines(c)
      BY <2>1, <2>4, PassesGoDown DEF Lines, Decoded
    <3>3. e \in 1 .. w /\ e \in 0 .. w + 1
      OBVIOUS
    <3>4. IsCell(w, b[c][i - 1][e], c, RowOfLine(l, c, i - 1), e)
      <4>1. CASE i - 1 < NextLine(k, c)
        BY <1>3, <3>2, <3>3, <4>1
      <4>2. CASE i - 1 = NextLine(k, c)
        BY <1>4, <2>4, <3>3, <4>2
      <4>3. QED
        BY <2>1, <3>2, <4>1, <4>2
    <3>5. RowOfLine(l, c, i - 1) = RowOfLine(l, c, i) - 1 /\ RowOfLine(l, c, i) \in Int
      BY <1>1, <2>1, RowsAreNumbers
    <3>6. QED
      BY <2>4, <3>1, <3>3, <3>4, <3>5 DEF IsCell
  <2>5. QED
    BY <2>1, <2>2, <2>3, <2>4
<1>6. LineInWork(w, l, k + 1, cs2, b2)
  <2> SUFFICES ASSUME k + 1 \in 1 .. 6, NEW c \in DOMAIN LineOf(k + 1), NEW p \in 0 .. w - 1,
                      WasDecoded(p, cs2[c])
               PROVE  FALSE
    BY DEF LineInWork
  <2>1. PositionsFollow(w, "even", cs2["G"]) /\ cs2[c] = cs2["G"]
    BY <1>2 DEF ColoursOK
  <2>2. cs2["G"] = [even |-> 0, odd |-> 1]
    <3>1. "G" \in Reset(k) /\ "G" \in Colour
      BY DEF Reset, Colour
    <3>2. QED
      BY <3>1 DEF NewColours
  <2>3. QED
    BY <2>1, <2>2 DEF WasDecoded
<1>7. QED
  BY <1>1, <1>2, <1>5, <1>6 DEF StripOK

(* A round ends: the last two lines of each colour are kept as the first   *)
(* of the next, and the others are cleared.                                *)
LinesKept(w, b, b2) ==
  \A c \in Colour :
    /\ \A x \in 0 .. w + 1 : \A i \in 0 .. 1 : b2[c][i][x] = b[c][Decoded(c) + i][x]
    /\ b2[c][2][0] = b[c][Decoded(c) + 1][1]
    /\ b2[c][2][w + 1] = b[c][Decoded(c) + 1][w]

LEMMA RoundEnds ==
  ASSUME NEW w \in Nat \ {0}, NEW l, NEW t, NEW cs, NEW b, StripOK(w, l, 7, t, cs, b),
         NEW b2, BufferOK(w, b2), LinesKept(w, b, b2)
  PROVE  StripOK(w, l + 1, 0, t, cs, b2)
<1> USE DEF LinesKept
<1>1. l \in Nat /\ ColoursOK(w, 0, t, cs)
  BY DEF StripOK, ColoursOK
<1>2. ASSUME NEW c \in Colour, NEW i \in 0 .. 1, NEW x \in 0 .. w + 1
      PROVE  IsCell(w, b[c][Decoded(c) + i][x], c, RowOfLine(l + 1, c, i), x)
  <2>1. Decoded(c) + i \in Lines(c) /\ Decoded(c) + i < NextLine(7, c)
    BY PassesGoDown DEF Lines, Decoded
  <2>2. IsCell(w, b[c][Decoded(c) + i][x], c, RowOfLine(l, c, Decoded(c) + i), x)
    BY <2>1 DEF StripOK, LinesAreRows
  <2>3. QED
    BY <1>1, <2>2, RowsAreNumbers
<1>3. LinesAreRows(w, l + 1, 0, b2)
  <2> SUFFICES ASSUME NEW c \in Colour, NEW i \in Lines(c), NEW x \in 0 .. w + 1,
                      i < 2 \/ (i = 2 /\ x \in {0, w + 1})
               PROVE  IsCell(w, b2[c][i][x], c, RowOfLine(l + 1, c, i), x)
    BY PassesGoDown DEF LinesAreRows
  <2>1. CASE i < 2
    <3>1. i \in 0 .. 1
      BY <2>1 DEF Lines
    <3>2. QED
      BY <1>2, <3>1
  <2>2. CASE i = 2 /\ x \in {0, w + 1}
    <3> DEFINE e == IF x = 0 THEN 1 ELSE w
    <3>1. b2[c][i][x] = b[c][Decoded(c) + 1][e] /\ e \in 1 .. w /\ e \in 0 .. w + 1
      BY <2>2
    <3>2. IsCell(w, b[c][Decoded(c) + 1][e], c, RowOfLine(l + 1, c, 1), e)
      BY <1>2, <3>1
    <3>3. RowOfLine(l + 1, c, 1) = RowOfLine(l + 1, c, 2) - 1 /\ RowOfLine(l + 1, c, 2) \in Int
      <4>1. l + 1 \in Nat /\ 2 - 1 = 1
        BY <1>1
      <4>2. QED
        BY <4>1, RowsAreNumbers
    <3>4. QED
      BY <2>2, <3>1, <3>2, <3>3 DEF IsCell
  <2>3. QED
    BY <2>1, <2>2
<1>4. QED
  BY <1>1, <1>3 DEF StripOK, LineInWork

(* The samples of a pair, at the position p, are written by DecodePair.    *)
LEMMA PairIsWritten ==
  ASSUME NEW n \in Strips, line_width \in Nat \ {0}, linebuf = [m \in Strips |-> linebuf[m]],
         StripOK(line_width, line[n], pass[n], turn[n], colours[n], linebuf[n]),
         pass[n] \in 1 .. 6, NEW p \in 0 .. line_width - 1,
         \A c \in Pair(n) : Position(n, c) = p,
         DecodePair(n), NEW cs2,
         \A c \in Pair(n) : \A q \in 0 .. line_width - 1 :
           WasDecoded(q, cs2[c]) => q = p \/ WasDecoded(q, colours[n][c])
  PROVE  /\ BufferOK(line_width, linebuf'[n])
         /\ LinesAreRows(line_width, line[n], pass[n], linebuf'[n])
         /\ LineInWork(line_width, line[n], pass[n], cs2, linebuf'[n])
<1> DEFINE w == line_width
           k == pass[n]
           b == linebuf[n]
           b2 == linebuf'[n]
<1>1. /\ Pair(n) = DOMAIN LineOf(k) /\ line[n] \in Nat
      /\ \A c \in Pair(n) : c \in Colour /\ LineOf(k)[c] = NextLine(k, c) /\ NextLine(k, c) \in Lines(c)
  BY PassesGoDown, NextIsALine DEF Pair, StripOK
<1>2. b = [c \in Colour |-> [i \in Lines(c) |-> [x \in 0 .. w + 1 |-> b[c][i][x]]]]
  BY DEF StripOK, BufferOK
<1>3. b2 = [c \in Colour |->
              IF c \in Pair(n) THEN [b[c] EXCEPT ![LineOf(k)[c]][Position(n, c) + 1] = Sample(n, c)]
                               ELSE b[c]]
  BY DEF DecodePair
<1>4. ASSUME NEW c \in Colour
      PROVE  /\ b2[c] = [i \in Lines(c) |-> [x \in 0 .. w + 1 |-> b2[c][i][x]]]
             /\ \A i \in Lines(c), x \in 0 .. w + 1 :
                  b2[c][i][x] = IF c \in Pair(n) /\ i = NextLine(k, c) /\ x = p + 1
                                  THEN Sample(n, c) ELSE b[c][i][x]
  <2> DEFINE bc == b[c]
  <2>1. bc = [i \in Lines(c) |-> [x \in 0 .. w + 1 |-> bc[i][x]]]
    BY <1>2
  <2>2. CASE c \notin Pair(n)
    <3>1. b2[c] = bc
      BY <1>3, <2>2
    <3> HIDE DEF bc
    <3>2. QED
      BY <2>1, <2>2, <3>1 DEF bc
  <2>3. CASE c \in Pair(n)
    <3> DEFINE j == NextLine(k, c)
               s == Sample(n, c)
    <3>1. b2[c] = [bc EXCEPT ![j][p + 1] = s] /\ j \in Lines(c)
      BY <1>1, <1>3, <2>3
    <3> HIDE DEF j, s, bc
    <3>2. [bc EXCEPT ![j][p + 1] = s] = [i \in Lines(c) |-> [x \in 0 .. w + 1 |->
             IF i = j /\ x = p + 1 THEN s ELSE bc[i][x]]]
      <4> DEFINE new == [bc[j] EXCEPT ![p + 1] = s]
      <4>1. new = [x \in 0 .. w + 1 |-> IF x = p + 1 THEN s ELSE bc[j][x]]
        <5>1. bc[j] = [x \in 0 .. w + 1 |-> bc[j][x]]
          BY <2>1, <3>1
        <5>2. QED
          BY <5>1
      <4> HIDE DEF new
      <4>2. [bc EXCEPT ![j] = new] = [i \in Lines(c) |-> IF i = j THEN new ELSE bc[i]]
        BY <2>1
      <4>3. \A i \in Lines(c) : (IF i = j THEN new ELSE bc[i])
              = [x \in 0 .. w + 1 |-> IF i = j /\ x = p + 1 THEN s ELSE bc[i][x]]
        <5>1. \A i \in Lines(c) : bc[i] = [x \in 0 .. w + 1 |-> bc[i][x]]
          BY <2>1
        <5>2. QED
          BY <4>1, <5>1
      <4>4. [bc EXCEPT ![j][p + 1] = s] = [bc EXCEPT ![j] = new]
        BY DEF new
      <4>5. QED
        BY <4>2, <4>3, <4>4
    <3>3. /\ b2[c] = [i \in Lines(c) |-> [x \in 0 .. w + 1 |-> b2[c][i][x]]]
          /\ \A i \in Lines(c), x \in 0 .. w + 1 :
               b2[c][i][x] = IF i = j /\ x = p + 1 THEN s ELSE bc[i][x]
      <4>1. b2[c] = [i \in Lines(c) |-> [x \in 0 .. w + 1 |->
               IF i = j /\ x = p + 1 THEN s ELSE bc[i][x]]]
        BY <3>1, <3>2
      <4> HIDE DEF b2
      <4>2. QED
        BY <4>1
    <3>4. QED
      BY <2>3, <3>3 DEF bc, j, s
  <2>4. QED
    BY <2>2, <2>3
<1>5. BufferOK(w, b2)
  <2>1. b2 = [c \in Colour |-> b2[c]]
    BY <1>3
  <2>2. \A c \in Colour : b2[c] = [i \in Lines(c) |-> [x \in 0 .. w + 1 |-> b2[c][i][x]]]
    BY <1>4
  <2>3. QED
    BY <2>1, <2>2 DEF BufferOK
<1>6. ASSUME NEW c \in Colour, NEW i \in Lines(c), NEW x \in 0 .. w + 1,
             ~(c \in DOMAIN LineOf(k) /\ i = NextLine(k, c) /\ x = p + 1)
      PROVE  b2[c][i][x] = b[c][i][x]
  <2>1. ~(c \in Pair(n) /\ i = NextLine(k, c) /\ x = p + 1)
    BY <1>1, <1>6
  <2>2. b2[c][i][x] = IF c \in Pair(n) /\ i = NextLine(k, c) /\ x = p + 1
                        THEN Sample(n, c) ELSE b[c][i][x]
    BY <1>4
  <2>3. QED
    BY <2>1, <2>2
<1>7. ASSUME NEW c \in DOMAIN LineOf(k)
      PROVE  IsSampleAt(b2[c][NextLine(k, c)][p + 1], c, RowOfLine(line[n], c, NextLine(k, c)), p)
  <2>1. c \in Pair(n) /\ c \in Colour /\ NextLine(k, c) \in Lines(c) /\ p + 1 \in 0 .. w + 1
    BY <1>1
  <2>2. b2[c][NextLine(k, c)][p + 1] = Sample(n, c)
    BY <1>4, <2>1
  <2>3. Row(n, c) = RowOfLine(line[n], c, NextLine(k, c))
    BY <1>1 DEF Row, RowOfLine
  <2>4. Row(n, c) \in Nat
    <3>1. NextLine(k, c) \in 2 .. Decoded(c) + 1 /\ Decoded(c) \in Int
      BY PassesGoDown DEF Decoded
    <3>2. QED
      BY <1>1, <2>1, <2>3, <3>1, RowsAreNumbers
  <2>5. /\ Sample(n, c) \in SampleType
        /\ Sample(n, c).colour = c /\ Sample(n, c).row = Row(n, c) /\ Sample(n, c).at = p
    BY <1>1, <2>1, <2>4 DEF Sample, SampleType
  <2>6. QED
    BY <2>2, <2>3, <2>5, FujiStripsAssumption DEF IsSampleAt
<1>8. QED
  <2> DEFINE l == line[n]
             t == turn[n]
             cs == colours[n]
  <2>1. /\ w \in Nat \ {0} /\ l \in Nat /\ k \in 1 .. 6 /\ StripOK(w, l, k, t, cs, b)
        /\ p \in 0 .. w - 1 /\ BufferOK(w, b2)
    BY <1>1, <1>5
  <2>2. OnlyBehind(w, k, p, b, b2)
    BY <1>6 DEF OnlyBehind
  <2>3. SamplesBehind(w, l, k, p, cs, cs2, b2)
    BY <1>1, <1>7 DEF SamplesBehind
  <2> HIDE DEF w, l, k, t, cs, b, b2
  <2>4. LinesAreRows(w, l, k, b2) /\ LineInWork(w, l, k, cs2, b2)
    BY <2>1, <2>2, <2>3, SamplesAreWritten
  <2>5. QED
    BY <2>1, <2>4 DEF w, l, k, b2

-----------------------------------------------------------------------------
(* The strips of the decoder.                                              *)
StripAt(n) == StripOK(line_width, line[n], pass[n], turn[n], colours[n], linebuf[n])

AllAreStrips ==
  /\ line = [n \in Strips |-> line[n]]
  /\ pass = [n \in Strips |-> pass[n]]
  /\ turn = [n \in Strips |-> turn[n]]
  /\ colours = [n \in Strips |-> colours[n]]
  /\ linebuf = [n \in Strips |-> linebuf[n]]
  /\ \A n \in Strips : StripAt(n)

LEMMA StripsStart ==
  StripsInit => AllAreStrips
<1> SUFFICES ASSUME StripsInit PROVE AllAreStrips
  OBVIOUS
<1>1. picture \in Picture
  BY FujiStripsAssumption DEF StripsInit
<1>2. line_width \in Nat
  BY <1>1 DEF Picture, line_width
<1> DEFINE w == line_width
           zeros == [c \in Colour |-> [i \in Lines(c) |-> [x \in 0 .. w + 1 |-> Zero]]]
<1>3. ASSUME NEW n \in Strips
      PROVE  /\ line[n] = 0 /\ pass[n] = 0 /\ turn[n] = "even" /\ colours[n] = NewColours
             /\ linebuf[n] = zeros
  BY DEF StripsInit, Cells
<1>4. ASSUME NEW c \in Colour, NEW i \in Lines(c), NEW x \in 0 .. w + 1
      PROVE  zeros[c][i][x] = Zero
  OBVIOUS
<1>5. BufferOK(w, zeros)
  BY DEF BufferOK
<1>6. LinesAreRows(w, 0, 0, zeros)
  <2> SUFFICES ASSUME NEW c \in Colour, NEW i \in Lines(c), NEW x \in 0 .. w + 1,
                      i < NextLine(0, c) \/ (i = NextLine(0, c) /\ x \in {0, w + 1})
               PROVE  IsCell(w, zeros[c][i][x], c, RowOfLine(0, c, i), x)
    BY DEF LinesAreRows
  <2> HIDE DEF zeros
  <2>1. RowOfLine(0, c, i) = i - 2
    <3>1. Decoded(c) * 0 = 0 /\ i \in Int
      BY DEF Decoded, Lines
    <3>2. QED
      BY <3>1 DEF RowOfLine
  <2>2. i \in Nat /\ (i < 2 \/ (i = 2 /\ x \in {0, w + 1}))
    BY DEF NextLine, Lines
  <2>3. QED
    BY <1>4, <2>1, <2>2 DEF IsCell
<1>7. ColoursOK(w, 0, "even", NewColours)
  BY DEF ColoursOK, NewColours
<1>8. StripOK(w, 0, 0, "even", NewColours, zeros)
  BY <1>5, <1>6, <1>7 DEF StripOK, LineInWork
<1>9. QED
  BY <1>3, <1>8 DEF AllAreStrips, StripAt, StripsInit

(* A step of one strip leaves the others as they are.                      *)
LEMMA OneStripMoves ==
  ASSUME AllAreStrips, NEW n \in Strips, picture' = picture,
         NEW l, line' = [line EXCEPT ![n] = l], NEW k, pass' = [pass EXCEPT ![n] = k],
         NEW t, turn' = [turn EXCEPT ![n] = t], NEW cs, colours' = [colours EXCEPT ![n] = cs],
         NEW b, linebuf' = [linebuf EXCEPT ![n] = b],
         StripOK(line_width, l, k, t, cs, b)
  PROVE  AllAreStrips'
<1>1. Strips' = Strips /\ line_width' = line_width
  BY DEF Strips, line_width, XTrans
<1>2. ASSUME NEW m \in Strips, m # n
      PROVE  /\ line'[m] = line[m] /\ pass'[m] = pass[m] /\ turn'[m] = turn[m]
             /\ colours'[m] = colours[m] /\ linebuf'[m] = linebuf[m]
  BY <1>2 DEF AllAreStrips
<1>3. /\ line'[n] = l /\ pass'[n] = k /\ turn'[n] = t
      /\ colours'[n] = cs /\ linebuf'[n] = b
  BY DEF AllAreStrips
<1>4. ASSUME NEW m \in Strips PROVE StripAt(m)'
  <2>1. CASE m = n
    BY <1>1, <1>3, <2>1 DEF StripAt
  <2>2. CASE m # n
    <3>1. StripAt(m)
      BY DEF AllAreStrips
    <3>2. QED
      BY <1>1, <1>2, <2>2, <3>1 DEF StripAt
  <2>3. QED
    BY <2>1, <2>2
<1>5. /\ line' = [m \in Strips |-> line'[m]] /\ pass' = [m \in Strips |-> pass'[m]]
      /\ turn' = [m \in Strips |-> turn'[m]] /\ colours' = [m \in Strips |-> colours'[m]]
      /\ linebuf' = [m \in Strips |-> linebuf'[m]]
  BY DEF AllAreStrips
<1>6. QED
  BY <1>1, <1>4, <1>5 DEF AllAreStrips

LEMMA StartBlockMoves ==
  ASSUME AllAreStrips, line_width \in Nat \ {0}, NEW n \in Strips, StartBlock(n)
  PROVE  AllAreStrips'
<1> DEFINE w == line_width
           b == linebuf[n]
<1>1. StripOK(w, line[n], 0, turn[n], colours[n], b)
  BY DEF AllAreStrips, StripAt, StartBlock
<1>2. line[n] \in Nat /\ BufferOK(w, b) /\ turn[n] = "even" /\ w \in Nat
  BY <1>1 DEF StripOK, ColoursOK
<1>3. ColoursOK(w, 1, "even", NewColours)
  <2>1. \A c \in Colour : NewColours[c] = [even |-> 0, odd |-> 1]
    BY DEF NewColours
  <2>2. PositionsFollow(w, "even", [even |-> 0, odd |-> 1])
    BY <1>2 DEF PositionsFollow
  <2>3. DOMAIN LineOf(1) \subseteq Colour /\ "G" \in Colour
    BY PassesGoDown DEF Colour
  <2>4. NewColours = [c \in Colour |-> [even |-> NewColours[c].even, odd |-> NewColours[c].odd]]
    BY DEF NewColours
  <2>5. QED
    BY <2>1, <2>2, <2>3, <2>4 DEF ColoursOK
<1>4. LinesAreRows(w, line[n], 1, b)
  <2>1. \A c \in Colour : NextLine(1, c) = NextLine(0, c)
    BY PassesGoDown
  <2>2. QED
    BY <1>1, <2>1 DEF StripOK, LinesAreRows
<1>5. LineInWork(w, line[n], 1, NewColours, b)
  <2> SUFFICES ASSUME NEW c \in DOMAIN LineOf(1), NEW p \in 0 .. w - 1, WasDecoded(p, NewColours[c])
               PROVE  FALSE
    BY DEF LineInWork
  <2>1. c \in Colour
    BY PassesGoDown
  <2>2. QED
    BY <2>1 DEF WasDecoded, NewColours
<1>6. StripOK(w, line[n], 1, turn[n], NewColours, b)
  BY <1>2, <1>3, <1>4, <1>5 DEF StripOK
<1>7. /\ line' = [line EXCEPT ![n] = line[n]] /\ turn' = [turn EXCEPT ![n] = turn[n]]
      /\ linebuf' = [linebuf EXCEPT ![n] = b] /\ picture' = picture
      /\ pass' = [pass EXCEPT ![n] = 1] /\ colours' = [colours EXCEPT ![n] = NewColours]
  BY DEF StartBlock, AllAreStrips
<1>8. QED
  BY <1>6, <1>7, OneStripMoves

LEMMA DecodeEvenMoves ==
  ASSUME AllAreStrips, line_width \in Nat \ {0}, NEW n \in Strips, DecodeEven(n)
  PROVE  AllAreStrips'
<1> DEFINE w == line_width
           k == pass[n]
           cs == colours[n]
           e == cs["G"].even
           cs2 == [c \in Colour |-> IF c \in DOMAIN LineOf(k) THEN [cs[c] EXCEPT !.even = @ + 2] ELSE cs[c]]
           t2 == IF cs2["G"].even > Lag THEN "odd" ELSE "even"
<1>1. StripOK(w, line[n], k, "even", cs, linebuf[n]) /\ turn[n] = "even"
  BY DEF AllAreStrips, StripAt, DecodeEven, AtEven
<1>2. k \in 1 .. 6 /\ e < w /\ w \in Nat \ {0}
  BY DEF DecodeEven, AtEven, InPass
<1>3. ColoursOK(w, k, "even", cs) /\ e \in 0 .. w - 1
  BY <1>1, <1>2 DEF StripOK, ColoursOK, PositionsFollow
<1>4. /\ ColoursOK(w, k, t2, cs2)
      /\ \A c \in DOMAIN LineOf(k) : \A q \in 0 .. w - 1 :
           WasDecoded(q, cs2[c]) => q = e \/ WasDecoded(q, cs[c])
  <2> HIDE DEF w, k, cs2, t2, cs
  <2>1. cs2 = [c \in Colour |-> IF c \in DOMAIN LineOf(k) THEN [cs[c] EXCEPT !.even = @ + 2] ELSE cs[c]]
    BY DEF cs2
  <2>2. t2 = IF cs2["G"].even > Lag THEN "odd" ELSE "even"
    BY DEF t2
  <2>3. QED
    BY <1>2, <1>3, <2>1, <2>2, EvenIsNext
<1>5. \A c \in Pair(n) : Position(n, c) = e
  BY <1>2, <1>3 DEF Position, DecodeEven, ColoursOK, Pair
<1>6. /\ BufferOK(w, linebuf'[n]) /\ LinesAreRows(w, line[n], k, linebuf'[n])
      /\ LineInWork(w, line[n], k, cs2, linebuf'[n])
  <2> HIDE DEF cs2, e
  <2>1. DecodePair(n) /\ linebuf = [m \in Strips |-> linebuf[m]]
    BY DEF DecodeEven, AllAreStrips
  <2>2. StripOK(line_width, line[n], pass[n], turn[n], colours[n], linebuf[n])
    BY <1>1
  <2>3. \A c \in Pair(n) : \A q \in 0 .. line_width - 1 :
          WasDecoded(q, cs2[c]) => q = e \/ WasDecoded(q, colours[n][c])
    BY <1>4 DEF Pair
  <2>4. QED
    BY <1>2, <1>3, <1>5, <2>1, <2>2, <2>3, PairIsWritten
<1>7. StripOK(w, line[n], k, t2, cs2, linebuf'[n])
  <2>1. line[n] \in Nat /\ k \in 0 .. 7
    BY <1>1 DEF StripOK
  <2>2. QED
    BY <1>4, <1>6, <2>1 DEF StripOK
<1>8. colours' = [colours EXCEPT ![n] = cs2] /\ colours'[n] = cs2
  BY DEF DecodeEven, Pair, AllAreStrips
<1>9. /\ line' = [line EXCEPT ![n] = line[n]] /\ pass' = [pass EXCEPT ![n] = k]
      /\ turn' = [turn EXCEPT ![n] = t2] /\ picture' = picture
  <2> HIDE DEF cs2
  <2>1. QED
    BY <1>8 DEF DecodeEven, AllAreStrips
<1>10. linebuf' = [linebuf EXCEPT ![n] = linebuf'[n]]
  BY DEF DecodeEven, DecodePair, AllAreStrips
<1> HIDE DEF cs2, t2
<1>11. QED
  BY <1>7, <1>8, <1>9, <1>10, OneStripMoves

LEMMA DecodeOddMoves ==
  ASSUME AllAreStrips, line_width \in Nat \ {0}, NEW n \in Strips, DecodeOdd(n)
  PROVE  AllAreStrips'
<1> DEFINE w == line_width
           k == pass[n]
           cs == colours[n]
           o == cs["G"].odd
           cs2 == [c \in Colour |-> IF c \in DOMAIN LineOf(k) THEN [cs[c] EXCEPT !.odd = @ + 2] ELSE cs[c]]
<1>1. StripOK(w, line[n], k, turn[n], cs, linebuf[n])
  BY DEF AllAreStrips, StripAt
<1>2. k \in 1 .. 6 /\ w \in Nat \ {0} /\ (turn[n] = "odd" \/ (cs["G"].even >= w /\ cs["G"].odd < w))
  BY DEF DecodeOdd, AtOdd, InPass
<1>3. ColoursOK(w, k, turn[n], cs)
  BY <1>1 DEF StripOK
<1>4. /\ ColoursOK(w, k, "even", cs2)
      /\ \A c \in DOMAIN LineOf(k) : \A q \in 0 .. w - 1 :
           WasDecoded(q, cs2[c]) => q = o \/ WasDecoded(q, cs[c])
      /\ o \in 0 .. w - 1
  <2> DEFINE t == turn[n]
  <2>1. ColoursOK(w, k, t, cs) /\ (t = "odd" \/ (cs["G"].even >= w /\ cs["G"].odd < w))
    BY <1>2, <1>3
  <2> HIDE DEF w, k, cs2, cs, t
  <2>2. cs2 = [c \in Colour |-> IF c \in DOMAIN LineOf(k) THEN [cs[c] EXCEPT !.odd = @ + 2] ELSE cs[c]]
    BY DEF cs2
  <2>3. QED
    BY <1>2, <2>1, <2>2, OddIsNext
<1>5. \A c \in Pair(n) : Position(n, c) = o
  BY <1>2, <1>3 DEF Position, DecodeOdd, ColoursOK, Pair
<1>6. /\ BufferOK(w, linebuf'[n]) /\ LinesAreRows(w, line[n], k, linebuf'[n])
      /\ LineInWork(w, line[n], k, cs2, linebuf'[n])
  <2> HIDE DEF cs2, o
  <2>1. DecodePair(n) /\ linebuf = [m \in Strips |-> linebuf[m]]
    BY DEF DecodeOdd, AllAreStrips
  <2>2. \A c \in Pair(n) : \A q \in 0 .. line_width - 1 :
          WasDecoded(q, cs2[c]) => q = o \/ WasDecoded(q, colours[n][c])
    BY <1>4 DEF Pair
  <2>3. QED
    BY <1>1, <1>2, <1>4, <1>5, <2>1, <2>2, PairIsWritten
<1>7. StripOK(w, line[n], k, "even", cs2, linebuf'[n])
  <2>1. line[n] \in Nat /\ k \in 0 .. 7
    BY <1>1 DEF StripOK
  <2>2. QED
    BY <1>4, <1>6, <2>1 DEF StripOK
<1>8. colours' = [colours EXCEPT ![n] = cs2]
  BY DEF DecodeOdd, Pair, AllAreStrips
<1>9. /\ line' = [line EXCEPT ![n] = line[n]] /\ pass' = [pass EXCEPT ![n] = k]
      /\ turn' = [turn EXCEPT ![n] = "even"] /\ picture' = picture
  BY DEF DecodeOdd, AllAreStrips
<1>10. linebuf' = [linebuf EXCEPT ![n] = linebuf'[n]]
  BY DEF DecodeOdd, DecodePair, AllAreStrips
<1> HIDE DEF cs2
<1>11. QED
  BY <1>7, <1>8, <1>9, <1>10, OneStripMoves

LEMMA EndPassMoves ==
  ASSUME AllAreStrips, line_width \in Nat \ {0}, NEW n \in Strips, EndPass(n)
  PROVE  AllAreStrips'
<1> DEFINE w == line_width
           k == pass[n]
           l == line[n]
           b == linebuf[n]
           b2 == linebuf'[n]
           cs == colours[n]
           cs2 == [c \in Colour |-> IF c \in Reset(k) THEN NewColours[c] ELSE cs[c]]
<1>1. /\ StripOK(w, l, k, "even", cs, b) /\ turn[n] = "even" /\ k \in 1 .. 6
      /\ cs["G"].even >= w /\ cs["G"].odd >= w
  BY DEF AllAreStrips, StripAt, EndPass, InPass
<1>2. b = [c \in Colour |-> [i \in Lines(c) |-> [x \in 0 .. w + 1 |-> b[c][i][x]]]]
  BY <1>1 DEF StripOK, BufferOK
<1>3. b2 = [c \in Colour |-> IF c \in Pair(n) THEN Extended(b[c], c) ELSE b[c]]
  BY DEF EndPass, AllAreStrips
<1>4. ASSUME NEW c \in Colour, NEW i \in Lines(c)
      PROVE  /\ b2[c][i] = [x \in 0 .. w + 1 |-> b2[c][i][x]]
             /\ \A x \in 0 .. w + 1 :
                  b2[c][i][x] = IF c \in DOMAIN LineOf(k) /\ i >= 2 /\ x = 0 THEN b[c][i - 1][1]
                                ELSE IF c \in DOMAIN LineOf(k) /\ i >= 2 /\ x = w + 1 THEN b[c][i - 1][w]
                                ELSE b[c][i][x]
  <2>1. b[c][i] = [x \in 0 .. w + 1 |-> b[c][i][x]]
    BY <1>2
  <2>2. CASE c \in Pair(n) /\ i >= 2
    <3> DEFINE row == b[c][i]
               first == b[c][i - 1][1]
               last == b[c][i - 1][w]
    <3>1. b2[c][i] = [row EXCEPT ![0] = first, ![w + 1] = last]
      BY <1>3, <2>2 DEF Extended, Lines
    <3>2. row = [x \in 0 .. w + 1 |-> row[x]]
      BY <2>1
    <3> HIDE DEF row, first, last
    <3>3. [row EXCEPT ![0] = first, ![w + 1] = last]
            = [x \in 0 .. w + 1 |-> IF x = 0 THEN first ELSE IF x = w + 1 THEN last ELSE row[x]]
      BY <3>2
    <3> DEFINE new == b2[c][i]
    <3>4. new = [x \in 0 .. w + 1 |-> IF x = 0 THEN first ELSE IF x = w + 1 THEN last ELSE row[x]]
      BY <3>1, <3>3
    <3> HIDE DEF new
    <3>5. /\ new = [x \in 0 .. w + 1 |-> new[x]]
          /\ \A x \in 0 .. w + 1 : new[x] = IF x = 0 THEN first ELSE IF x = w + 1 THEN last ELSE row[x]
      BY <3>4
    <3>6. QED
      BY <2>2, <3>5 DEF new, first, last, row, Pair
  <2>3. CASE ~(c \in Pair(n) /\ i >= 2)
    <3>1. b2[c][i] = b[c][i]
      BY <1>3, <2>3 DEF Extended, Lines
    <3>2. ~(c \in DOMAIN LineOf(k) /\ i >= 2)
      BY <2>3 DEF Pair
    <3>3. QED
      BY <2>1, <3>1, <3>2
  <2>4. QED
    BY <2>2, <2>3
<1>5. BufferOK(w, b2)
  <2>1. b2 = [c \in Colour |-> b2[c]]
    BY <1>3
  <2>2. ASSUME NEW c \in Colour PROVE b2[c] = [i \in Lines(c) |-> b2[c][i]]
    <3>1. CASE c \in Pair(n)
      BY <1>3, <3>1 DEF Extended
    <3>2. CASE c \notin Pair(n)
      <4>1. b2[c] = b[c]
        BY <1>3, <3>2
      <4>2. b[c] = [i \in Lines(c) |-> b[c][i]]
        BY <1>2
      <4>3. QED
        BY <4>1, <4>2
    <3>3. QED
      BY <3>1, <3>2
  <2> HIDE DEF b2
  <2>3. \A c \in Colour : b2[c] = [i \in Lines(c) |-> [x \in 0 .. w + 1 |-> b2[c][i][x]]]
    <3> SUFFICES ASSUME NEW c \in Colour
                 PROVE  b2[c] = [i \in Lines(c) |-> [x \in 0 .. w + 1 |-> b2[c][i][x]]]
      OBVIOUS
    <3>1. \A i \in Lines(c) : b2[c][i] = [x \in 0 .. w + 1 |-> b2[c][i][x]]
      BY <1>4
    <3>2. QED
      BY <2>2, <3>1
  <2>4. QED
    BY <2>1, <2>3 DEF BufferOK
<1>6. StripOK(w, l, k + 1, "even", cs2, b2)
  <2>1. EndsGiven(w, k, b, b2)
    BY <1>4 DEF EndsGiven
  <2>2. cs2 = [c \in Colour |-> IF c \in Reset(k) THEN NewColours[c] ELSE cs[c]]
    OBVIOUS
  <2> HIDE DEF w, k, l, b, b2, cs, cs2
  <2>3. w \in Nat \ {0}
    BY DEF w
  <2>4. QED
    BY <1>1, <1>5, <2>1, <2>2, <2>3, PassEnds
<1>7. colours' = [colours EXCEPT ![n] = cs2] /\ pass' = [pass EXCEPT ![n] = k + 1]
  BY DEF EndPass, AllAreStrips
<1>8. line' = [line EXCEPT ![n] = l] /\ turn' = [turn EXCEPT ![n] = "even"] /\ picture' = picture
  BY DEF EndPass, AllAreStrips
<1>9. linebuf' = [linebuf EXCEPT ![n] = b2]
  BY DEF EndPass, AllAreStrips
<1> HIDE DEF cs2
<1>10. QED
  BY <1>6, <1>7, <1>8, <1>9, OneStripMoves

LEMMA EndBlockMoves ==
  ASSUME AllAreStrips, line_width \in Nat \ {0}, NEW n \in Strips, EndBlock(n)
  PROVE  AllAreStrips'
<1> DEFINE w == line_width
           l == line[n]
           t == turn[n]
           b == linebuf[n]
           b2 == linebuf'[n]
           cs == colours[n]
<1>1. StripOK(w, l, 7, t, cs, b)
  BY DEF AllAreStrips, StripAt, EndBlock
<1>2. b2 = [c \in Colour |-> Cleared(n, c)]
  BY DEF EndBlock, AllAreStrips
<1>3. ASSUME NEW c \in Colour
      PROVE  /\ b2[c] = [i \in Lines(c) |-> [x \in 0 .. w + 1 |-> b2[c][i][x]]]
             /\ \A x \in 0 .. w + 1 : \A i \in 0 .. 1 : b2[c][i][x] = b[c][Decoded(c) + i][x]
             /\ b2[c][2][0] = b[c][Decoded(c) + 1][1]
             /\ b2[c][2][w + 1] = b[c][Decoded(c) + 1][w]
  <2> DEFINE new == b2[c]
  <2>1. new = [i \in Lines(c) |->
                 CASE i < 2 -> Kept(n, c, i)
                   [] i = 2 -> [x \in 0 .. w + 1 |-> IF x = 0 THEN Kept(n, c, 1)[1]
                                                     ELSE IF x = w + 1 THEN Kept(n, c, 1)[w] ELSE Zero]
                   [] OTHER -> [x \in 0 .. w + 1 |-> Zero]]
    BY <1>2 DEF Cleared, Cells
  <2>2. Decoded(c) \in {3, 6} /\ Lines(c) = 0 .. Decoded(c) + 1
    BY DEF Decoded, Lines
  <2>3. \A i \in 0 .. 1 : Kept(n, c, i) = [x \in 0 .. w + 1 |-> b[c][Decoded(c) + i][x]]
    <3>1. \A i \in 0 .. 1 : Decoded(c) + i \in Lines(c)
      BY <2>2
    <3>2. b = [d \in Colour |-> [i \in Lines(d) |-> [x \in 0 .. w + 1 |-> b[d][i][x]]]]
      BY <1>1 DEF StripOK, BufferOK
    <3>3. b[c] = [i \in Lines(c) |-> [x \in 0 .. w + 1 |-> b[c][i][x]]]
      BY <3>2
    <3>4. QED
      BY <3>1, <3>3 DEF Kept
  <2> HIDE DEF new, b
  <2>4. ASSUME NEW i \in 0 .. 1
        PROVE  /\ new[i] = [x \in 0 .. w + 1 |-> new[i][x]]
               /\ \A x \in 0 .. w + 1 : new[i][x] = b[c][Decoded(c) + i][x]
    <3>1. i \in Lines(c) /\ i < 2
      BY <2>2
    <3>2. new[i] = Kept(n, c, i)
      BY <2>1, <3>1
    <3>3. QED
      BY <2>3, <3>2
  <2>5. /\ new[2] = [x \in 0 .. w + 1 |-> new[2][x]]
        /\ new[2][0] = b[c][Decoded(c) + 1][1]
        /\ new[2][w + 1] = b[c][Decoded(c) + 1][w]
    <3>1. new[2] = [x \in 0 .. w + 1 |-> IF x = 0 THEN Kept(n, c, 1)[1]
                                         ELSE IF x = w + 1 THEN Kept(n, c, 1)[w] ELSE Zero]
      BY <2>1, <2>2
    <3>2. /\ Kept(n, c, 1)[1] = b[c][Decoded(c) + 1][1]
          /\ Kept(n, c, 1)[w] = b[c][Decoded(c) + 1][w]
      BY <2>3
    <3>3. QED
      BY <3>1, <3>2
  <2>6. ASSUME NEW i \in Lines(c), i > 2
        PROVE  new[i] = [x \in 0 .. w + 1 |-> new[i][x]]
    <3>1. new[i] = [x \in 0 .. w + 1 |-> Zero]
      BY <2>1, <2>2, <2>6
    <3>2. QED
      BY <3>1
  <2>7. new = [i \in Lines(c) |-> [x \in 0 .. w + 1 |-> new[i][x]]]
    <3>1. new = [i \in Lines(c) |-> new[i]]
      BY <2>1
    <3>2. \A i \in Lines(c) : new[i] = [x \in 0 .. w + 1 |-> new[i][x]]
      <4> SUFFICES ASSUME NEW i \in Lines(c) PROVE new[i] = [x \in 0 .. w + 1 |-> new[i][x]]
        OBVIOUS
      <4>1. i \in 0 .. 1 \/ i = 2 \/ i > 2
        BY <2>2
      <4>2. QED
        BY <2>4, <2>5, <2>6, <4>1
    <3>3. QED
      BY <3>1, <3>2
  <2>8. QED
    BY <2>4, <2>5, <2>7 DEF new
<1>4. BufferOK(w, b2)
  <2>1. b2 = [c \in Colour |-> b2[c]]
    BY <1>2
  <2>2. \A c \in Colour : b2[c] = [i \in Lines(c) |-> [x \in 0 .. w + 1 |-> b2[c][i][x]]]
    BY <1>3
  <2>3. QED
    BY <2>1, <2>2 DEF BufferOK
<1>5. StripOK(w, l + 1, 0, t, cs, b2)
  <2>1. LinesKept(w, b, b2)
    BY <1>3 DEF LinesKept
  <2>2. w \in Nat \ {0}
    OBVIOUS
  <2> HIDE DEF w, l, t, b, b2, cs
  <2>3. QED
    BY <1>1, <1>4, <2>1, <2>2, RoundEnds
<1>6. /\ line' = [line EXCEPT ![n] = l + 1] /\ pass' = [pass EXCEPT ![n] = 0]
      /\ turn' = [turn EXCEPT ![n] = t] /\ colours' = [colours EXCEPT ![n] = cs]
      /\ linebuf' = [linebuf EXCEPT ![n] = b2] /\ picture' = picture
  BY DEF EndBlock, AllAreStrips
<1>7. QED
  BY <1>5, <1>6, OneStripMoves

(* What is decoded, and where the strips are.                              *)
StripsInv ==
  /\ OnlyValidIsDecoded
  /\ AllAreStrips

LEMMA ValidHasWidth ==
  ASSUME is_valid PROVE line_width \in Nat \ {0}
<1>1. picture.block_size = BlockSize
  BY DEF is_valid
<1>2. BlockSize \in Nat /\ BlockSize >= 6
  BY FujiStripsAssumption DEF RowHeight
<1>3. (BlockSize * 2) \div 3 \in Nat \ {0} /\ BlockSize \div 2 \in Nat \ {0}
  BY <1>2
<1>4. QED
  BY <1>1, <1>3 DEF line_width

LEMMA StripsAreInvariant ==
  StripsSpec => []StripsInv
<1>1. AllAreStrips /\ OnlyValidIsDecoded /\ [StripsStep]_stripsVars => AllAreStrips'
  <2> SUFFICES ASSUME AllAreStrips, OnlyValidIsDecoded, [StripsStep]_stripsVars
               PROVE  AllAreStrips'
    OBVIOUS
  <2>1. ASSUME UNCHANGED <<picture, block>> PROVE AllAreStrips'
    BY <2>1 DEF AllAreStrips, StripAt, Strips, line_width, XTrans, block
  <2>2. CASE ReadHeader
    BY <2>1, <2>2 DEF ReadHeader
  <2>3. CASE Return
    BY <2>1, <2>3 DEF Return
  <2>4. CASE UNCHANGED stripsVars
    BY <2>1, <2>4 DEF stripsVars
  <2>5. ASSUME stage = "decode", NEW n \in Strips,
               \/ StartBlock(n) \/ DecodeEven(n) \/ DecodeOdd(n)
               \/ Break(n) \/ EndPass(n) \/ EndBlock(n)
        PROVE  AllAreStrips'
    <3>1. line_width \in Nat \ {0}
      BY <2>5, ValidHasWidth DEF OnlyValidIsDecoded
    <3>2. CASE StartBlock(n)
      BY <3>1, <3>2, StartBlockMoves
    <3>3. CASE DecodeEven(n)
      BY <3>1, <3>3, DecodeEvenMoves
    <3>4. CASE DecodeOdd(n)
      BY <3>1, <3>4, DecodeOddMoves
    <3>5. CASE Break(n)
      BY <2>1, <3>5 DEF Break
    <3>6. CASE EndPass(n)
      BY <3>1, <3>6, EndPassMoves
    <3>7. CASE EndBlock(n)
      BY <3>1, <3>7, EndBlockMoves
    <3>8. QED
      BY <2>5, <3>2, <3>3, <3>4, <3>5, <3>6, <3>7
  <2>6. QED
    BY <2>2, <2>3, <2>4, <2>5 DEF StripsStep
<1>2. QED
  BY <1>1, StripsStart, ValidIsInvariant, PTL DEF StripsSpec, StripsInv

(* A cell of a strip, by its row.                                          *)
LEMMA CellsAreRows ==
  ASSUME NEW n \in Strips, line[n] \in Nat, NEW c \in Colour, NEW i \in Int, NEW x,
         IsCell(line_width, linebuf[n][c][i][x], c, RowOfLine(line[n], c, i), x),
         NEW r, r = RowOfLine(line[n], c, i)
  PROVE  IsRow(CellOf(n, c, r, x), c, r, x)
<1>1. r - Decoded(c) * line[n] + 2 = i
  <2>1. Decoded(c) * line[n] \in Int
    BY DEF Decoded
  <2>2. QED
    BY <2>1 DEF RowOfLine
<1>2. CellOf(n, c, r, x) = linebuf[n][c][i][x]
  BY <1>1 DEF CellOf
<1>3. QED
  BY <1>2 DEF IsRow, IsCell, IsSampleAt

LEMMA NeighboursAreThere ==
  ASSUME StripsInv, NEW n \in Strips, AtEven(n) \/ AtOdd(n), NEW c \in Pair(n)
  PROVE  \A cell \in Neighbours(n, c) :
           /\ cell[2] \in Cells
           /\ IsRow(CellOf(n, c, cell[1], cell[2]), c, cell[1], cell[2])
<1> DEFINE w == line_width
           k == pass[n]
           l == line[n]
           b == linebuf[n]
           at == colours[n]["G"]
           i == NextLine(k, c)
           r == Row(n, c)
           p == Position(n, c)
<1>1. k \in 1 .. 6 /\ w \in Nat \ {0} /\ l \in Nat /\ StripOK(w, l, k, turn[n], colours[n], b)
  <2>1. stage = "decode" /\ k \in 1 .. 6
    BY DEF AtEven, AtOdd, InPass
  <2>2. QED
    BY <2>1, ValidHasWidth DEF StripsInv, OnlyValidIsDecoded, AllAreStrips, StripAt, StripOK
<1>2. /\ c \in DOMAIN LineOf(k) /\ c \in Colour /\ LineOf(k)[c] = i
      /\ Decoded(c) \in {3, 6} /\ i \in 2 .. Decoded(c) + 1
  BY <1>1, PassesGoDown DEF Pair, Decoded
<1>3. r = RowOfLine(l, c, i) /\ r \in Nat
  <2>1. r = RowOfLine(l, c, i)
    BY <1>2 DEF Row, RowOfLine
  <2>2. i \in Int /\ i >= 2
    BY <1>2
  <2> HIDE DEF i, r, l
  <2>3. QED
    BY <1>1, <1>2, <2>1, <2>2, RowsAreNumbers
<1>4. r - 1 = RowOfLine(l, c, i - 1) /\ r - 2 = RowOfLine(l, c, i - 2)
  <2>1. i \in Int /\ i - 1 \in Int /\ i - 2 = (i - 1) - 1 /\ r - 2 = (r - 1) - 1
    BY <1>2, <1>3
  <2> HIDE DEF i, r, l
  <2>2. QED
    BY <1>1, <1>2, <1>3, <2>1, RowsAreNumbers
<1>5. colours[n][c] = at /\ PositionsFollow(w, turn[n], at) /\ turn[n] \in {"even", "odd"}
  BY <1>1, <1>2 DEF StripOK, ColoursOK
<1>6. p \in 0 .. w - 1 /\ p = IF AtEven(n) THEN at.even ELSE at.odd
  <2>1. CASE AtEven(n)
    BY <1>1, <1>5, <2>1 DEF AtEven, Position, PositionsFollow
  <2>2. CASE ~AtEven(n)
    BY <1>1, <1>5, <2>2 DEF AtOdd, Position, PositionsFollow
  <2>3. QED
    BY <2>1, <2>2
<1>7. ASSUME NEW x \in 0 .. w + 1
      PROVE  /\ IsRow(CellOf(n, c, r - 1, x), c, r - 1, x)
             /\ IsRow(CellOf(n, c, r - 2, x), c, r - 2, x)
  <2>1. ASSUME NEW j \in {i - 1, i - 2}
        PROVE  IsCell(w, b[c][j][x], c, RowOfLine(l, c, j), x)
    <3>1. j \in Lines(c) /\ j < i
      BY <1>2 DEF Lines
    <3>2. QED
      BY <1>1, <1>2, <3>1 DEF StripOK, LinesAreRows
  <2>2. i - 1 \in Int /\ i - 2 \in Int
    BY <1>2
  <2>3. QED
    BY <1>1, <1>2, <1>4, <2>1, <2>2, CellsAreRows
<1>8. ASSUME NEW q \in 0 .. w - 1, WasDecoded(q, at)
      PROVE  IsRow(CellOf(n, c, r, q + 1), c, r, q + 1)
  <2>1. IsSampleAt(b[c][i][q + 1], c, RowOfLine(l, c, i), q)
    BY <1>1, <1>2, <1>5, <1>8 DEF StripOK, LineInWork
  <2>2. IsCell(w, b[c][i][q + 1], c, RowOfLine(l, c, i), q + 1)
    BY <1>1, <1>3, <2>1 DEF IsCell
  <2>3. i \in Int
    BY <1>2
  <2>4. QED
    BY <1>1, <1>2, <1>3, <2>2, <2>3, CellsAreRows
<1>9. IsRow(CellOf(n, c, r, w + 1), c, r, w + 1)
  <2>1. i \in Lines(c) /\ w + 1 \in 0 .. w + 1 /\ i \in Int
    BY <1>1, <1>2 DEF Lines
  <2>2. IsCell(w, b[c][i][w + 1], c, RowOfLine(l, c, i), w + 1)
    BY <1>1, <1>2, <2>1 DEF StripOK, LinesAreRows
  <2>3. QED
    BY <1>1, <1>2, <1>3, <2>1, <2>2, CellsAreRows
<1>10. p \in 0 .. w + 1 /\ p + 1 \in 0 .. w + 1 /\ p + 2 \in 0 .. w + 1
  BY <1>1, <1>6
<1>11. CASE AtEven(n)
  <2>1. Neighbours(n, c) = {<<r - 1, p>>, <<r - 1, p + 1>>, <<r - 1, p + 2>>, <<r - 2, p + 1>>}
    BY <1>11 DEF Neighbours
  <2> HIDE DEF w, r, p
  <2>2. QED
    BY <1>7, <1>10, <2>1 DEF Cells, w
<1>12. CASE ~AtEven(n)
  <2>1. Neighbours(n, c) = {<<r - 1, p>>, <<r - 1, p + 1>>, <<r - 1, p + 2>>, <<r, p>>, <<r, p + 2>>}
    BY <1>12 DEF Neighbours
  <2>2. /\ p = at.odd /\ at.even \in Nat /\ p % 2 = 1 /\ p \in Nat
        /\ p + 1 < at.even \/ at.even >= w
    <3>1. turn[n] = "odd" \/ at.even >= w
      BY <1>12 DEF AtOdd
    <3>2. QED
      BY <1>5, <1>6, <1>12, <3>1 DEF PositionsFollow
  <2>3. IsRow(CellOf(n, c, r, p), c, r, p)
    <3>1. p - 1 \in 0 .. w - 1 /\ (p - 1) % 2 = 0 /\ p - 1 < at.even
      BY <1>1, <1>6, <2>2
    <3>2. (p - 1) + 1 = p
      BY <2>2
    <3>3. IsRow(CellOf(n, c, r, (p - 1) + 1), c, r, (p - 1) + 1)
      BY <1>8, <3>1 DEF WasDecoded
    <3>4. QED
      BY <3>2, <3>3
  <2>4. IsRow(CellOf(n, c, r, p + 2), c, r, p + 2)
    <3>1. CASE p + 1 = w
      <4>1. p + 2 = w + 1
        BY <2>2, <3>1
      <4>2. QED
        BY <1>9, <4>1
    <3>2. CASE p + 1 < w
      <4>1. p + 1 \in 0 .. w - 1 /\ (p + 1) % 2 = 0 /\ p + 1 < at.even /\ (p + 1) + 1 = p + 2
        BY <1>1, <2>2, <3>2
      <4>2. IsRow(CellOf(n, c, r, (p + 1) + 1), c, r, (p + 1) + 1)
        BY <1>8, <4>1 DEF WasDecoded
      <4>3. QED
        BY <4>1, <4>2
    <3>3. QED
      BY <1>1, <1>6, <3>1, <3>2
  <2> HIDE DEF w, r, p
  <2>5. QED
    BY <1>7, <1>10, <2>1, <2>3, <2>4 DEF Cells, w
<1>13. QED
  BY <1>11, <1>12

(* No sample is computed from a cell that was not decoded, or that was     *)
(* cleared or given to another row since: whatever the width, the order in *)
(* which the strips go on, and how far the odd positions lag behind the    *)
(* even ones (fuji_bayer_decode_block, fuji_xtrans_decode_block,           *)
(* fuji_extend_generic, mtable and ztable).                                *)
THEOREM SamplesHaveNeighbours ==
  StripsSpec => []NeighboursAreDecoded
<1>1. StripsInv => NeighboursAreDecoded
  BY NeighboursAreThere DEF NeighboursAreDecoded
<1>2. QED
  BY <1>1, StripsAreInvariant, PTL
=============================================================================
