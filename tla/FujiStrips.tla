----------------------------- MODULE FujiStrips -----------------------------
(***************************************************************************)
(* Compressed pictures of Fujifilm (src/src/fujifilm/decompress.rs).  A    *)
(* picture is cut in vertical strips that are decoded in parallel into one *)
(* buffer, which they share without a lock.  A strip is decoded six rows   *)
(* at a time into lines of one colour each, a sample from those around it; *)
(* the last two lines of each colour are kept for the next six rows.       *)
(*                                                                         *)
(* A sample is named by its colour, its row among those of the colour and  *)
(* its position, and by whether it was read from the stream or is only     *)
(* interpolated.  Its value is left out, as are the tables it is computed  *)
(* with (see FujiCodes).                                                   *)
(***************************************************************************)
EXTENDS Integers, FiniteSets

CONSTANTS Pictures,   \* the headers, with what else is in the file
          Patterns,   \* colour filters: what pattern() of a mosaic may be
          BlockSize,  \* 0x300
          WidthStep,  \* 24
          MaxSize,    \* 0x3000
          Lag,        \* 8: how far even positions are ahead of odd ones
          Zero        \* u16::default()

Colour == {"R", "G", "B"}
RowHeight == 6

Picture ==
  [known : BOOLEAN,                       \* signature, raw_bits
   raw_type : {0, 16}, raw_height : Nat, raw_width : Nat,
   raw_rounded_width : Nat, block_size : Nat, blocks_in_row : Nat,
   total_lines : Nat, lossless : BOOLEAN,
   as_said : BOOLEAN,                     \* dimensions are those of the container
   bases : BOOLEAN,                       \* all q_bases are there
   short : SUBSET Nat,                    \* strips with a stream that is not good
   cfa : Patterns]

SampleType == [colour : Colour, row : Nat, at : Nat, from : {"stream", "neighbours"}]

ASSUME FujiStripsAssumption ==
  /\ Pictures \subseteq Picture
  /\ \A p \in Patterns : \E size \in {2, 6} :
       p \in [0 .. size - 1 -> [0 .. size - 1 -> Colour]]
  /\ BlockSize \in Nat \ {0} /\ BlockSize % RowHeight = 0
  /\ WidthStep \in Nat \ {0} /\ MaxSize \in Nat
  /\ Lag \in Nat \ {0, 1} /\ Lag < BlockSize \div 2
  /\ Zero \notin SampleType

VARIABLES picture,
          stage,     \* where decompress_fuji is
          line,      \* cur_line of each strip
          pass,      \* of fuji_bayer_decode_block or fuji_xtrans_decode_block
          turn,      \* where in the loop of a pass
          colours,   \* the next even and the next odd position of each colour
          linebuf,   \* the lines of each colour
          out,       \* the buffer of the picture
          read       \* samples read from the stream so far: history

block == <<line, pass, turn, colours, linebuf, read>>
stripsVars == <<picture, stage, block, out>>

cfa == picture.cfa
cfa_height == Cardinality(DOMAIN cfa)
cfa_width == Cardinality(DOMAIN cfa[0])

Strips == 0 .. picture.blocks_in_row - 1

div_round_up(a, b) == (a + b - 1) \div b

(* Header::is_valid; the subtraction is of u16.                            *)
is_valid ==
  /\ picture.known
  /\ picture.raw_height <= MaxSize
  /\ picture.raw_height >= cfa_height
  /\ picture.raw_height % cfa_height = 0
  /\ picture.raw_width <= MaxSize
  /\ picture.raw_width >= BlockSize
  /\ picture.raw_width % WidthStep = 0
  /\ picture.raw_rounded_width <= MaxSize
  /\ picture.block_size = BlockSize
  /\ picture.raw_rounded_width >= BlockSize
  /\ picture.raw_rounded_width % BlockSize = 0
  /\ (picture.raw_rounded_width - picture.raw_width) % 65536 < BlockSize
  /\ picture.blocks_in_row \in 1 .. MaxSize \div BlockSize
  /\ picture.blocks_in_row = picture.raw_rounded_width \div BlockSize
  /\ picture.blocks_in_row = div_round_up(picture.raw_width, BlockSize)
  /\ picture.total_lines \in 1 .. MaxSize \div RowHeight
  /\ picture.total_lines = picture.raw_height \div RowHeight

(* Where a strip is.                                                       *)
offset_x(n) == picture.block_size * n
offset_y(l) == RowHeight * l
width(n) == IF n + 1 # picture.blocks_in_row
              THEN picture.block_size
              ELSE picture.raw_width - offset_x(n)

XTrans == picture.raw_type = 16
line_width == IF XTrans THEN (picture.block_size * 2) \div 3
                        ELSE picture.block_size \div 2

(* The lines of a colour: 0 and 1 are kept, the others are decoded.        *)
Decoded(c) == IF c = "G" THEN 6 ELSE 3
Lines(c) == 0 .. Decoded(c) + 1
Cells == 0 .. line_width + 1

NewColours == [c \in Colour |-> [even |-> 0, odd |-> 1]]

StripsInit ==
  /\ picture \in Pictures
  /\ stage = "header"
  /\ line = [n \in Strips |-> 0]
  /\ pass = [n \in Strips |-> 0]
  /\ turn = [n \in Strips |-> "even"]
  /\ colours = [n \in Strips |-> NewColours]
  /\ linebuf = [n \in Strips |-> [c \in Colour |-> [i \in Lines(c) |-> [x \in Cells |-> Zero]]]]
  /\ out = [y \in 0 .. picture.raw_height - 1 |->
              [x \in 0 .. picture.raw_width - 1 |-> Zero]]
  /\ read = [n \in Strips |-> 0]

(* decompress_fuji, before the strips: the assert is for the dimensions.   *)
ReadHeader ==
  /\ stage = "header"
  /\ stage' = IF ~is_valid THEN "error"
              ELSE IF ~picture.as_said THEN "panic"
              ELSE "decode"
  /\ UNCHANGED <<picture, block, out>>

(* One round of the loop over cur_line starts: a picture with loss needs   *)
(* its q_bases.                                                            *)
StartBlock(n) ==
  /\ pass[n] = 0
  /\ line[n] < picture.total_lines
  /\ picture.lossless \/ picture.bases
  /\ pass' = [pass EXCEPT ![n] = 1]
  /\ colours' = [colours EXCEPT ![n] = NewColours]
  /\ UNCHANGED <<picture, stage, line, turn, linebuf, out, read>>

(* The two colours of a pass, and the line of each.                        *)
LineOf(k) == CASE k = 1 -> [R |-> 2, G |-> 2]
               [] k = 2 -> [G |-> 3, B |-> 2]
               [] k = 3 -> [R |-> 3, G |-> 4]
               [] k = 4 -> [G |-> 5, B |-> 3]
               [] k = 5 -> [R |-> 4, G |-> 6]
               [] k = 6 -> [G |-> 7, B |-> 4]

Pair(n) == DOMAIN LineOf(pass[n])

(* The even positions a pass interpolates, modulo 4: those where the       *)
(* pattern has other colours.                                              *)
Interpolated(k, c) ==
  CASE k = 1 /\ c = "R" -> {0, 2}
    [] k = 2 /\ c = "B" -> {0, 2}
    [] k = 3 /\ c = "R" -> {0}
    [] k = 3 /\ c = "G" -> {0, 2}
    [] k = 4 /\ c = "B" -> {2}
    [] k = 5 /\ c = "R" -> {2}
    [] k = 6 /\ c = "G" -> {0, 2}
    [] k = 6 /\ c = "B" -> {0}
    [] OTHER -> {}

FromStream(k, c, p) == ~XTrans \/ p % 4 \notin Interpolated(k, c)

InPass(n) == stage = "decode" /\ pass[n] \in 1 .. 6

(* The loop goes on while a green position is left; the odd ones follow    *)
(* the even ones at a distance.                                            *)
AtEven(n) ==
  /\ InPass(n)
  /\ turn[n] = "even"
  /\ colours[n]["G"].even < line_width

AtOdd(n) ==
  /\ InPass(n)
  /\ colours[n]["G"].even > Lag
  /\ \/ turn[n] = "odd"
     \/ /\ colours[n]["G"].even >= line_width
        /\ colours[n]["G"].odd < line_width

Position(n, c) == IF AtEven(n) THEN colours[n][c].even ELSE colours[n][c].odd

Row(n, c) == Decoded(c) * line[n] + LineOf(pass[n])[c] - 2

(* fuji_decode_sample_even, fuji_decode_sample_odd and                     *)
(* fuji_decode_interpolation_even: the cell of a position is one further.  *)
Sample(n, c) ==
  LET p == Position(n, c)
  IN [colour |-> c, row |-> Row(n, c), at |-> p,
      from |-> IF FromStream(pass[n], c, p) THEN "stream" ELSE "neighbours"]

DecodePair(n) ==
  /\ linebuf' = [linebuf EXCEPT ![n] = [c \in Colour |->
       IF c \in Pair(n)
         THEN [linebuf[n][c] EXCEPT ![LineOf(pass[n])[c]][Position(n, c) + 1] = Sample(n, c)]
         ELSE linebuf[n][c]]]
  /\ read' = [read EXCEPT ![n] =
       @ + Cardinality({c \in Pair(n) : Sample(n, c).from = "stream"})]

DecodeEven(n) ==
  /\ AtEven(n)
  /\ DecodePair(n)
  /\ colours' = [colours EXCEPT ![n] = [c \in Colour |->
       IF c \in Pair(n) THEN [colours[n][c] EXCEPT !.even = @ + 2] ELSE colours[n][c]]]
  /\ turn' = [turn EXCEPT ![n] = IF colours'[n]["G"].even > Lag THEN "odd" ELSE "even"]
  /\ UNCHANGED <<picture, stage, line, pass, out>>

DecodeOdd(n) ==
  /\ ~AtEven(n) /\ AtOdd(n)
  /\ DecodePair(n)
  /\ colours' = [colours EXCEPT ![n] = [c \in Colour |->
       IF c \in Pair(n) THEN [colours[n][c] EXCEPT !.odd = @ + 2] ELSE colours[n][c]]]
  /\ turn' = [turn EXCEPT ![n] = "even"]
  /\ UNCHANGED <<picture, stage, line, pass, out>>

(* A strip that is not good: there are no q_bases, the stream is out of    *)
(* the file or ends, or a code is invalid.  It panics, and so does the     *)
(* caller, whatever the other strips do.                                   *)
Break(n) ==
  /\ \/ pass[n] = 0 /\ line[n] < picture.total_lines /\ ~picture.lossless /\ ~picture.bases
     \/ n \in picture.short /\ (AtEven(n) \/ AtOdd(n))
  /\ stage' = "panic"
  /\ UNCHANGED <<picture, block, out>>

(* fuji_extend_generic: the cells before and behind a line are the ends of *)
(* the line above, as it then is.                                          *)
Extended(lines, c) ==
  [i \in Lines(c) |->
     IF i < 2 THEN lines[i]
     ELSE [lines[i] EXCEPT ![0] = lines[i - 1][1],
                           ![line_width + 1] = lines[i - 1][line_width]]]

(* The colours that start again for the next pass.                         *)
Reset(k) == CASE k = 1 -> {"G"}
              [] k \in {2, 4} -> {"R", "G"}
              [] k \in {3, 5} -> {"G", "B"}
              [] k = 6 -> {}

EndPass(n) ==
  /\ InPass(n)
  /\ turn[n] = "even"
  /\ colours[n]["G"].even >= line_width /\ colours[n]["G"].odd >= line_width
  /\ linebuf' = [linebuf EXCEPT ![n] = [c \in Colour |->
       IF c \in Pair(n) THEN Extended(linebuf[n][c], c) ELSE linebuf[n][c]]]
  /\ colours' = [colours EXCEPT ![n] = [c \in Colour |->
       IF c \in Reset(pass[n]) THEN NewColours[c] ELSE colours[n][c]]]
  /\ pass' = [pass EXCEPT ![n] = @ + 1]
  /\ UNCHANGED <<picture, stage, line, turn, out, read>>

KeptFirst(n, c, i) ==          \* mutant: the first two lines that were decoded
  linebuf[n][c][i + 2]

(* mtable: the last two lines are kept.                                    *)
Kept(n, c, i) == linebuf[n][c][Decoded(c) + i]

(* ztable: the others are cleared, and the first of them is extended.      *)
Cleared(n, c) ==
  [i \in Lines(c) |->
     CASE i < 2 -> Kept(n, c, i)
       [] i = 2 -> [x \in Cells |-> IF x = 0 THEN Kept(n, c, 1)[1]
                                    ELSE IF x = line_width + 1 THEN Kept(n, c, 1)[line_width]
                                    ELSE Zero]
       [] OTHER -> [x \in Cells |-> Zero]]

IndexRounded(col) ==           \* mutant: two thirds of the column
  IF XTrans THEN (col * 2) \div 3 ELSE col \div 2

(* index of copy_line_to_bayer and copy_line_to_xtrans; the bits that are  *)
(* or'ed do not meet.                                                      *)
Index(col) ==
  IF XTrans THEN 2 * (((col * 2) \div 3) \div 2) + ((col % 3) % 2) + ((col % 3) \div 2)
            ELSE col \div 2

ShownLine(c, y) == 2 + (IF c = "G" THEN y ELSE y \div 2)

(* The colour copy_line takes a pixel for.  The pattern is indexed by the  *)
(* column and the row (Pattern::index); copy_line gives the row first.     *)
ColourTaken(y, col) == cfa[col % cfa_width][y % cfa_height]

(* The pixel of a strip, at a row and a column within its six rows.        *)
Shown(n, y, col) ==
  LET c == ColourTaken(y, col)
  IN linebuf[n][c][ShownLine(c, y)][1 + Index(col)]

(* copy_line: every pixel is written to the shared buffer.                 *)
CopyLine(n) ==
  out' = [y \in DOMAIN out |-> [x \in DOMAIN out[y] |->
            IF /\ y - offset_y(line[n]) \in 0 .. RowHeight - 1
               /\ x - offset_x(n) \in 0 .. width(n) - 1
              THEN [strip |-> n,
                    sample |-> Shown(n, y - offset_y(line[n]), x - offset_x(n))]
              ELSE out[y][x]]]

(* The rest of the round: keep, copy, clear.                               *)
EndBlock(n) ==
  /\ stage = "decode"
  /\ pass[n] = 7
  /\ CopyLine(n)
  /\ linebuf' = [linebuf EXCEPT ![n] = [c \in Colour |-> Cleared(n, c)]]
  /\ line' = [line EXCEPT ![n] = @ + 1]
  /\ pass' = [pass EXCEPT ![n] = 0]
  /\ UNCHANGED <<picture, stage, turn, colours, read>>

(* for_each ends when every strip did.                                     *)
Return ==
  /\ stage = "decode"
  /\ \A n \in Strips : line[n] = picture.total_lines
  /\ stage' = "done"
  /\ UNCHANGED <<picture, block, out>>

StripsStep ==
  \/ ReadHeader \/ Return
  \/ /\ stage = "decode"
     /\ \E n \in Strips : \/ StartBlock(n) \/ DecodeEven(n) \/ DecodeOdd(n)
                          \/ Break(n) \/ EndPass(n) \/ EndBlock(n)

StripsSpec == StripsInit /\ [][StripsStep]_stripsVars

-----------------------------------------------------------------------------
StripsTypeOK ==
  /\ picture \in Picture
  /\ stage \in {"header", "decode", "done", "error", "panic"}
  /\ line \in [Strips -> 0 .. picture.total_lines]
  /\ pass \in [Strips -> 0 .. 7]
  /\ turn \in [Strips -> {"even", "odd"}]
  /\ \A n \in Strips, c \in Colour :
       /\ colours[n][c].even \in {2 * i : i \in 0 .. (line_width + 1) \div 2}
       /\ colours[n][c].odd \in 0 .. line_width + 1
       /\ linebuf[n][c] \in [Lines(c) -> [Cells -> SampleType \cup {Zero}]]

(* The cells the next sample of a colour is computed from.                 *)
Neighbours(n, c) ==
  LET r == Row(n, c)
      p == Position(n, c)
      above == {<<r - 1, p>>, <<r - 1, p + 1>>, <<r - 1, p + 2>>}
  IN IF AtEven(n) THEN above \cup {<<r - 2, p + 1>>}
                  ELSE above \cup {<<r, p>>, <<r, p + 2>>}

CellOf(n, c, r, x) == linebuf[n][c][r - Decoded(c) * line[n] + 2][x]

(* What the cell of a row should hold: the row is the one that was decoded,*)
(* in whatever round, with the ends of the row above before and behind it. *)
IsRow(value, c, r, x) ==
  LET q == IF x \in {0, line_width + 1} THEN r - 1 ELSE r
      p == IF x = 0 THEN 0 ELSE IF x = line_width + 1 THEN line_width - 1 ELSE x - 1
  IN IF q < 0 THEN value = Zero
     ELSE value # Zero /\ value.colour = c /\ value.row = q /\ value.at = p

(* A sample is computed from samples that are there, of the rows above it, *)
(* those of the round before included: no cell is read before it is        *)
(* decoded, or after it was cleared or given to another row                *)
(* (decompress.rs, the passes, mtable and ztable).                         *)
NeighboursAreDecoded ==
  \A n \in Strips : AtEven(n) \/ AtOdd(n) =>
    \A c \in Pair(n) : \A cell \in Neighbours(n, c) :
      /\ cell[2] \in Cells
      /\ IsRow(CellOf(n, c, cell[1], cell[2]), c, cell[1], cell[2])

Columns(n) == offset_x(n) .. offset_x(n) + width(n) - 1
SameLine(c, y, z) ==
  IF c = "G" THEN y = z ELSE y \div 2 = z \div 2

(* The pattern the passes of X-Trans are made for.  Nothing compares what  *)
(* the file has with it, nor with raw_type; with another one, interpolated *)
(* samples are shown and samples of the stream are not.                    *)
RedAt == {<<0, 2>>, <<1, 5>>, <<2, 1>>, <<2, 3>>, <<3, 5>>, <<4, 2>>, <<5, 0>>, <<5, 4>>}
BlueAt == {<<0, 5>>, <<1, 2>>, <<2, 0>>, <<2, 4>>, <<3, 2>>, <<4, 5>>, <<5, 1>>, <<5, 3>>}
XTransPattern ==
  [y \in 0 .. 5 |-> [x \in 0 .. 5 |-> IF <<y, x>> \in RedAt THEN "R"
                                     ELSE IF <<y, x>> \in BlueAt THEN "B" ELSE "G"]]

FitsAsTaken ==
  IF XTrans THEN [y \in 0 .. 5 |-> [x \in 0 .. 5 |-> ColourTaken(y, x)]] = XTransPattern
            ELSE cfa_height = 2

PixelsAreSamples ==
  stage = "done" =>
    \A n \in Strips : \A y \in DOMAIN out, x \in Columns(n) :
      LET c == ColourTaken(y, x)
          pixel == out[y][x]
      IN IF y >= RowHeight * picture.total_lines
           THEN pixel = Zero
           ELSE /\ pixel.strip = n
                /\ pixel.sample # Zero
                /\ pixel.sample.colour = c
                /\ pixel.sample.row = (IF c = "G" THEN y ELSE y \div 2)
                /\ FitsAsTaken =>
                     /\ pixel.sample.from = "stream"
                     /\ \A z \in {y - 1, y, y + 1} \cap DOMAIN out, w \in Columns(n) :
                          SameLine(c, y, z) /\ ColourTaken(z, w) = c /\ w > x
                            => out[z][w].sample.at > pixel.sample.at

SamplesAreShown ==
  stage = "done" /\ FitsAsTaken =>
    \A n \in Strips : width(n) = BlockSize
      => read[n] = RowHeight * picture.total_lines * BlockSize

(* In the end every pixel is a sample of the strip it lies in, of its row  *)
(* and of the colour copy_line takes it for (the pattern transposed: see   *)
(* PixelsFollowThePattern for what the pattern itself has).  Rows below    *)
(* the last six are not written (copy_line, width, offset_x).  Where that  *)
(* is the pattern the passes are made for, the sample was read from the    *)
(* stream, the pixels of a line of samples are in the order of the         *)
(* samples, and no bits are spent on what is not shown: of a strip of the  *)
(* full width as many samples are read as it has pixels.                   *)
PictureIsItsSamples == PixelsAreSamples /\ SamplesAreShown

(* What copy_line is said to do (decompress.rs:568 and 574, "Copy line by  *)
(* Bayer pattern", "Copy line by X-Trans pattern"), of a pattern that is   *)
(* read from left to right and top to bottom (mosaic.rs:91): each pixel    *)
(* is of the colour that the pattern has at its row and column.            *)
PixelsFollowThePattern ==
  stage = "done" =>
    \A y \in DOMAIN out, x \in DOMAIN out[0] :
      out[y][x] # Zero => out[y][x].sample.colour = cfa[y % cfa_height][x % cfa_width]
=============================================================================
