--------------------------- MODULE RowPredictors ---------------------------
(***************************************************************************)
(* The pictures that are differences from pixels seen before: PEF          *)
(* (src/src/pentax/decompress.rs), NEF (src/src/nikon/diffiterator.rs),    *)
(* CRW (src/src/canon/crw/decompress.rs) and ORF                           *)
(* (src/src/olympus/decompress.rs).  The differences are read by others    *)
(* (module CodeTrees for the first three); here they are a sequence.       *)
(***************************************************************************)
EXTENDS Integers, Sequences, SequencesExt, FiniteSetsExt

CONSTANTS CodedPictures,  \* codec, width, height, diffs, low (of CRW), init (of NEF)
          PixelValues,    \* how many values a pixel has: 2 ^ 16
          Block,          \* the samples of a block of CRW: 64
          FarApart        \* the distance that matters to the predictor of ORF: 32

CodedPicture ==
  [codec : {"pef", "nef", "crw", "orf"}, width : Nat \ {0}, height : Nat \ {0},
   diffs : Seq(Int), low : Seq(0 .. 3), init : Seq(Seq(Int))]

ASSUME RowPredictorsAssumption ==
  /\ CodedPictures \subseteq CodedPicture
  /\ PixelValues \in Nat \ {0} /\ Block \in Nat \ {0} /\ Block % 2 = 0 /\ FarApart \in Nat

VARIABLES coded,
          done,       \* the differences used
          up,         \* PEF: pred_up1 and pred_up2; NEF: vpred; by parity of the row
          left,       \* PEF: pred_left1 and 2; NEF: hpred; CRW: base; ORF: wo
          nw,         \* ORF: nw;  CRW: carry, at 0
          pixels,     \* what was put out, by place
          over        \* written past the end: a panic

predVars == <<coded, done, up, left, nw, pixels, over>>

Two(v) == [p \in {0, 1} |-> v]

(* What hpred of NEF is before the first row: 0x148, never used.           *)
Unused == 328
Size == coded.width * coded.height

PredInit ==
  /\ coded \in CodedPictures
  /\ done = 0
  /\ up = IF coded.codec = "nef" THEN [r \in {0, 1} |-> [p \in {0, 1} |-> coded.init[r + 1][p + 1]]]
          ELSE Two(Two(0))
  /\ left = Two(IF coded.codec = "nef" THEN Unused ELSE 0) /\ nw = Two(0)
  /\ pixels = [i \in 0 .. Size - 1 |-> 0]
  /\ over = FALSE

More == done < Len(coded.diffs) /\ ~over
Next1 == coded.diffs[done + 1]
Next2 == coded.diffs[done + 2]
PixelOf(v) == v % PixelValues

-----------------------------------------------------------------------------
(* PEF: decompress.  Pairs of pixels, each from the one two places to the  *)
(* left; the first pair from two rows above.  A row of odd width ends with *)
(* a pair that reaches into the next row, or out of the picture.           *)
PairsPerRow == (coded.width + 1) \div 2

AnyRow(row) == 0               \* mutant: the row above, of the other colours

Parity(row) == row % 2

PefPair ==
  /\ coded.codec = "pef" /\ ~over /\ done + 2 <= Len(coded.diffs)
  /\ done \div 2 < PairsPerRow * coded.height
  /\ LET pair == done \div 2
         row == pair \div PairsPerRow
         col == 2 * (pair % PairsPerRow)
         from == IF col = 0 THEN up[Parity(row)] ELSE left
         now == [p \in {0, 1} |-> from[p] + (IF p = 0 THEN Next1 ELSE Next2)]
         at == row * coded.width + col
     IN /\ left' = now
        /\ up' = IF col = 0 THEN [up EXCEPT ![Parity(row)] = now] ELSE up
        /\ over' = (at + 1 >= Size)
        /\ pixels' = [i \in DOMAIN pixels |-> IF i \in {at, at + 1} THEN PixelOf(now[i - at]) ELSE pixels[i]]
  /\ done' = done + 2
  /\ UNCHANGED <<coded, nw>>

(* NEF: CfaIterator::get.                                                  *)
NefPixel ==
  /\ coded.codec = "nef" /\ More /\ done < Size
  /\ LET row == done \div coded.width
         col == done % coded.width
         v == PixelOf((IF col < 2 THEN up[Parity(row)][col] ELSE left[col % 2]) + Next1)
     IN /\ up' = IF col < 2 THEN [up EXCEPT ![Parity(row)][col] = v] ELSE up
        /\ left' = [left EXCEPT ![col % 2] = v]
        /\ pixels' = [pixels EXCEPT ![done] = v]
  /\ done' = done + 1
  /\ UNCHANGED <<coded, nw, over>>

-----------------------------------------------------------------------------
(* CRW: decompress, a block of samples.  The first sample of a block is a  *)
(* difference from that of the block before; a row starts from the middle. *)
Middle == 512

SampleDiffs ==
  [i \in 0 .. Block - 1 |-> coded.diffs[done + i + 1] + (IF i = 0 THEN nw[0] ELSE 0)]

(* base, after sample i of the block.                                      *)
Bases ==
  LET base[i \in -1 .. Block - 1] ==
        IF i = -1 THEN left
        ELSE LET b == IF (done + i) % coded.width = 0 THEN Two(Middle) ELSE base[i - 1]
             IN [b EXCEPT ![i % 2] = @ + SampleDiffs[i]]
  IN base

(* With low bits, the value is made of the next sample of the block and    *)
(* the two bits of this one.                                               *)
Samples ==
  LET out == [i \in 0 .. Block - 1 |-> PixelOf(Bases[i][i % 2])]
  IN IF coded.low = <<>> THEN out
     ELSE [i \in 0 .. Block - 1 |->
             PixelOf((IF i + 1 < Block THEN out[i + 1] ELSE 0) * 4) + coded.low[done + i + 1]]

CrwBlock ==
  /\ coded.codec = "crw" /\ done < Size /\ done + Block <= Len(coded.diffs)
  /\ left' = Bases[Block - 1]
  /\ nw' = [nw EXCEPT ![0] = SampleDiffs[0]]
  /\ pixels' = [i \in 0 .. done + Block - 1 |-> IF i < done THEN pixels[i] ELSE Samples[i - done]]
  /\ done' = done + Block
  /\ UNCHANGED <<coded, up, over>>

-----------------------------------------------------------------------------
(* ORF: decompress_olympus, a pixel.  Its neighbours are of its own parity:*)
(* wo to the left, n two rows above, nw there to the left.                 *)
Abs(v) == IF v < 0 THEN -v ELSE v
Between(a, b, c) == (a < b /\ b < c) \/ (c < b /\ b < a)

FromNeighbours(w, n, d) ==
  CASE Between(w, d, n) /\ (Abs(w - d) > FarApart \/ Abs(n - d) > FarApart) -> w + n - d
    [] Between(w, d, n) /\ Abs(w - d) <= FarApart /\ Abs(n - d) <= FarApart -> (w + n) \div 2
    [] ~Between(w, d, n) /\ Abs(w - d) > Abs(n - d) -> w
    [] OTHER -> n

(* What nw is after the pixel.                                             *)
NwAfter(col, n, p) == n

OrfPixel ==
  /\ coded.codec = "orf" /\ More
  /\ done < 2 * (coded.width \div 2) * coded.height
  /\ LET perRow == 2 * (coded.width \div 2)
         y == done \div perRow
         x == done % perRow
         p == x % 2
         col == x - p
         n == pixels[(y - 2) * coded.width + x]
         pred == CASE y < 2 /\ col < 2   -> 0
                   [] y < 2 /\ col >= 2  -> left[p]
                   [] y >= 2 /\ col < 2  -> n
                   [] OTHER -> FromNeighbours(left[p], n, nw[p])
     IN /\ left' = [left EXCEPT ![p] = pred + Next1]
        /\ nw' = IF y >= 2 THEN [nw EXCEPT ![p] = NwAfter(col, n, p)] ELSE nw
        /\ pixels' = [pixels EXCEPT ![y * coded.width + x] = PixelOf(pred + Next1)]
  /\ done' = done + 1
  /\ UNCHANGED <<coded, up, over>>

PredStep == PefPair \/ NefPixel \/ CrwBlock \/ OrfPixel

PredSpec == PredInit /\ [][PredStep]_predVars

-----------------------------------------------------------------------------
SumOf(S) == FoldSet(LAMBDA i, s : s + coded.diffs[i], 0, S)

Row(i) == i \div coded.width
Col(i) == i % coded.width

(* PEF and NEF: the differences that lead to a pixel, along its row from   *)
(* its first pair, and down the first pairs of the rows of its parity.     *)
Leading(i) ==
  {k + 1 : k \in {k \in 0 .. Size - 1 :
     /\ Col(k) % 2 = Col(i) % 2
     /\ \/ Row(k) = Row(i) /\ Col(k) <= Col(i)
        \/ Row(k) < Row(i) /\ Row(k) % 2 = Row(i) % 2 /\ Col(k) < 2}}

Start(i) == IF coded.codec = "nef" THEN coded.init[(Row(i) % 2) + 1][(Col(i) % 2) + 1] ELSE 0

(* CRW: what sample i adds to those of its row: the difference, or the sum *)
(* of those of the blocks so far.                                          *)
Added(i) == IF i % Block = 0 THEN SumOf({Block * b + 1 : b \in 0 .. i \div Block})
            ELSE coded.diffs[i + 1]
CrwValue(i) ==
  Middle + FoldSet(LAMBDA k, s : s + Added(k), 0,
             {k \in 0 .. i : Row(k) = Row(i) /\ k % 2 = i % 2})

(* Each pixel is the one its neighbours in the picture, and its difference,*)
(* make it, whatever the predictors have been through: in PEF and NEF all  *)
(* the differences that lead to it, in CRW those of its row and of the     *)
(* blocks before, in ORF three pixels that are in the picture now.         *)
(* Nothing is said of CRW pictures with low bits: the code adds those of a *)
(* sample to the next one (canon/crw/decompress.rs:319), and in the        *)
(* expression it was made from (dcraw/decompress.c:389) the index is read  *)
(* and changed in no order.                                                *)
PixelsArePredicted ==
  LET At(y, x) == pixels[y * coded.width + x] IN
  /\ (coded.codec = "pef" /\ coded.width % 2 = 0) \/ coded.codec = "nef" =>
       \A i \in 0 .. Min({done, Size}) - 1 :
          pixels[i] = PixelOf(Start(i) + SumOf(Leading(i)))
  /\ coded.codec = "crw" /\ coded.low = <<>> =>
       \A i \in 0 .. done - 1 : pixels[i] = PixelOf(CrwValue(i))
  /\ coded.codec = "orf" /\ coded.width % 2 = 0 =>
       \A y \in 2 .. coded.height - 1, x \in 2 .. coded.width - 1 :
          y * coded.width + x < done /\ (\A i \in 1 .. done : coded.diffs[i] >= 0) =>
            At(y, x) = PixelOf(FromNeighbours(At(y, x - 2), At(y - 2, x), At(y - 2, x - 2))
                             + coded.diffs[y * coded.width + x + 1])
=============================================================================
