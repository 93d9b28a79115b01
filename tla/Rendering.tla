------------------------------ MODULE Rendering ------------------------------
(***************************************************************************)
(* Rendering a raw picture (src/src/rawimage.rs, rendered_image, and what  *)
(* it calls in render/): the values are made linear, the colours of each   *)
(* pixel interpolated from its neighbours or grays made of three channels, *)
(* and colours corrected.                                                  *)
(* A value is kept as twice its numerator over the range of white and      *)
(* black, so that the mean of two values is a number here; correction and  *)
(* gamma change every value alike and are only told of.  An overflow is a  *)
(* panic, as in a build that checks for it.                                *)
(***************************************************************************)
EXTENDS Integers, Sequences, SequencesExt, FiniteSetsExt

CONSTANTS RawImages,    \* what the file and the caller gave
          Spot          \* the pixel the log tells of (1000)

Stages == <<"Raw", "Linearization", "Interpolation", "Colour">>
Bayer == {"Bggr", "Grbg", "Gbrg", "Rggb"}

(* The data are values, by place, or none of 16 bits; a table is there when*)
(* it is used; of the two matrices only what the calculation asks of them. *)
RawImage ==
  [width : Nat, height : Nat, data : Seq(Nat), is16 : BOOLEAN, type : {"Raw", "Other"},
   white : Nat, black : Nat, table : Seq(Nat), bpc : Nat,
   photom : {"CFA", "LinearRaw", "Other"}, pattern : Bayer \cup {"Other"},
   stage : 0 .. 3, target : {"SRgb", "Other"}, logged : BOOLEAN,
   matrices : [1 .. 2 -> {"none", "D65", "other", "short D65", "singular D65"}]]

ASSUME RenderingAssumption == Spot \in Nat \ {0}

VARIABLES asked,        \* self and options
          rphase,
          planes,       \* data, width, height, cc
          cell,         \* x, y, offset and doffset of bimedian
          dst,
          mosaic,       \* the pattern of what is returned
          corrected     \* which corrections the values have been through

rendVars == <<asked, rphase, planes, cell, dst, mosaic, corrected>>

Stage(s) == asked.stage + 1 >= CHOOSE i \in DOMAIN Stages : Stages[i] = s

(* pixel_at as the log has it: TRUE when it panics.                        *)
BadPixel(b) ==
  LET first == Spot * b.width * b.cc + Spot * b.cc
  IN asked.logged /\ Spot <= b.width /\ Spot <= b.height /\ first + b.cc > Len(b.data)

RendInit ==
  /\ asked \in RawImages
  /\ rphase = "called"
  /\ planes = [data |-> <<>>, width |-> 0, height |-> 0, cc |-> 1]
  /\ cell = [x |-> 1, y |-> 1, offset |-> 0, doffset |-> 0]
  /\ dst = <<>> /\ mosaic = asked.pattern /\ corrected = {}

End(how) == rphase' = how /\ UNCHANGED <<asked, planes, cell, dst, mosaic, corrected>>

-----------------------------------------------------------------------------
Refuse ==
  /\ rphase = "called"
  /\ \/ asked.stage = 0 /\ End("unimplemented")
     \/ asked.stage > 0 /\ (asked.type # "Raw" \/ ~asked.is16) /\ End("invalid")

(* linearize: a table counts when it is as long as bpc tells.  What it and *)
(* the values after it come to is divided by white less black; values here *)
(* are before that division, by one number for all of them.  When it is 0, *)
(* they are no numbers, and planes says nothing of them.                   *)
HasTable == Len(asked.table) = 2 ^ asked.bpc
Linear(v) == CASE HasTable -> 2 * asked.table[v + 1]
               [] ~HasTable /\ v < asked.black -> 0
               [] OTHER -> 2 * (v - asked.black)

Values == [data |-> asked.data, width |-> asked.width, height |-> asked.height, cc |-> 1]
OutOfTable == HasTable /\ \E i \in DOMAIN asked.data : asked.data[i] >= Len(asked.table)

Linearize ==
  /\ rphase = "called" /\ asked.stage > 0 /\ asked.type = "Raw" /\ asked.is16
  /\ IF asked.white < asked.black \/ OutOfTable \/ BadPixel(Values)
     THEN End("panic")
     ELSE /\ planes' = [Values EXCEPT !.data = [i \in DOMAIN asked.data |-> Linear(asked.data[i])]]
          /\ rphase' = IF Stage("Interpolation") THEN "interpolate" ELSE "finish"
          /\ UNCHANGED <<asked, cell, dst, mosaic, corrected>>

(* Interpolate: what neither way is for.                                   *)
CannotInterpolate ==
  /\ rphase = "interpolate"
  /\ \/ asked.photom = "Other"
     \/ asked.photom = "CFA" /\ asked.pattern \notin Bayer
  /\ End("invalid")

(* to_rgb of grayscale.rs.                                                 *)
ToRgb ==
  /\ rphase = "interpolate" /\ asked.photom = "LinearRaw"
  /\ planes' = [planes EXCEPT !.cc = 3,
                  !.data = FlattenSeq([i \in DOMAIN planes.data |->
                             <<planes.data[i], planes.data[i], planes.data[i]>>])]
  /\ mosaic' = "Empty"
  /\ rphase' = IF Stage("Colour") THEN "colour" ELSE "finish"
  /\ UNCHANGED <<asked, cell, dst, corrected>>

-----------------------------------------------------------------------------
(* bimedian: from the pixel at (1, 1), row by row.                         *)
StartBimedian ==
  /\ rphase = "interpolate" /\ asked.photom = "CFA" /\ asked.pattern \in Bayer
  /\ IF planes.height = 0 THEN End("panic")
     ELSE /\ cell' = [x |-> 1, y |-> 1, offset |-> planes.width + 1, doffset |-> 0]
          /\ dst' = [i \in 1 .. 3 * planes.width * planes.height |-> 0]
          /\ rphase' = "bimedian"
          /\ UNCHANGED <<asked, planes, mosaic, corrected>>

SwappedPatterns ==             \* mutant: the patterns with green first are swapped
  CASE asked.pattern = "Bggr" -> 0 [] asked.pattern = "Gbrg" -> 1
    [] asked.pattern = "Grbg" -> 2 [] OTHER -> 3

npattern == CASE asked.pattern = "Bggr" -> 0 [] asked.pattern = "Grbg" -> 1
              [] asked.pattern = "Gbrg" -> 2 [] OTHER -> 3

Drow == planes.width
Side == {cell.offset - 1, cell.offset + 1}
Column == {cell.offset - Drow, cell.offset + Drow}
Cross == Side \cup Column
Corners == {cell.offset - Drow - 1, cell.offset - Drow + 1, cell.offset + Drow - 1, cell.offset + Drow + 1}

(* The places red, green and blue are computed from.                       *)
Sources3 ==
  LET blueRow == (cell.y + (npattern % 2)) % 2 = 0
      other == (cell.x + (npattern \div 2)) % 2 = 1
      here == {cell.offset}
  IN CASE blueRow /\ other -> <<Column, here, Side>>
       [] blueRow /\ ~other -> <<Corners, Cross, here>>
       [] ~blueRow /\ other -> <<here, Cross, Corners>>
       [] OTHER -> <<Side, here, Column>>

(* m4: three are sorted, then the fourth is put among them.                *)
m4(a, b, c, d) ==
  LET s == SortSeq(<<a, b, c>>, <)
  IN CASE d >= s[3] -> s[2] + s[3]
       [] s[1] <= d /\ d < s[3] -> s[2] + d
       [] OTHER -> s[1] + s[2]

Mixed(places) ==
  LET v(p) == planes.data[p + 1]
  IN CASE Cardinality(places) = 1 -> v(cell.offset)
       [] Cardinality(places) = 2 -> (v(Min(places)) + v(Max(places))) \div 2
       [] OTHER -> LET p == SetToSortSeq(places, <)
                   IN m4(v(p[1]), v(p[2]), v(p[3]), v(p[4])) \div 2

InterpolatePixel ==
  /\ rphase = "bimedian" /\ planes.width > 0
  /\ cell.y < planes.height - 1 /\ cell.x < planes.width - 1
  /\ IF Max(UNION Range(Sources3)) >= Len(planes.data) THEN End("panic")
     ELSE /\ dst' = [dst EXCEPT ![3 * cell.doffset + 1] = Mixed(Sources3[1]),
                                ![3 * cell.doffset + 2] = Mixed(Sources3[2]),
                                ![3 * cell.doffset + 3] = Mixed(Sources3[3])]
          /\ cell' = [cell EXCEPT !.x = @ + 1, !.offset = @ + 1, !.doffset = @ + 1]
          /\ UNCHANGED <<asked, rphase, planes, mosaic, corrected>>

(* Two places are skipped between rows: the last and the first.            *)
EndRow ==
  /\ rphase = "bimedian"
  /\ cell.y < planes.height - 1 /\ cell.x >= planes.width - 1
  /\ IF planes.width = 0 THEN End("panic")
     ELSE /\ cell' = [cell EXCEPT !.x = 1, !.y = @ + 1, !.offset = @ + 2]
          /\ UNCHANGED <<asked, rphase, planes, dst, mosaic, corrected>>

(* The result is cut to the pixels that have all their neighbours.         *)
Shrink ==
  /\ rphase = "bimedian" /\ cell.y >= planes.height - 1
  /\ IF planes.width < 2 \/ planes.height < 2 THEN End("panic")
     ELSE LET w == planes.width - 2
              h == planes.height - 2
          IN /\ planes' = [data |-> SubSeq(dst, 1, 3 * w * h), width |-> w, height |-> h, cc |-> 3]
             /\ mosaic' = "Empty"
             /\ rphase' = IF Stage("Colour") THEN "colour" ELSE "finish"
             /\ UNCHANGED <<asked, cell, dst, corrected>>

-----------------------------------------------------------------------------
(* The matrix colour_correct takes is the first of the two for D65, which  *)
(* has to have nine values and an inverse; none is only told to the log.   *)
ForD65(i) == asked.matrices[i] \notin {"none", "other"}
MatrixTaken == CHOOSE m \in {asked.matrices[i] : i \in 1 .. 2} \cup {"none"} :
                 \/ ForD65(1) /\ m = asked.matrices[1]
                 \/ ~ForD65(1) /\ ForD65(2) /\ m = asked.matrices[2]
                 \/ ~ForD65(1) /\ ~ForD65(2) /\ m = "none"

Correct ==
  /\ rphase = "colour" /\ asked.photom = "CFA"
  /\ \/ asked.target # "SRgb" /\ End("unimplemented")
     \/ /\ asked.target = "SRgb"
        /\ MatrixTaken \notin {"none", "D65"} \/ (MatrixTaken = "D65" /\ BadPixel(planes))
        /\ End("panic")
     \/ /\ asked.target = "SRgb" /\ MatrixTaken \in {"none", "D65"}
        /\ MatrixTaken = "D65" => ~BadPixel(planes)
        /\ corrected' = {"gamma"} \cup (IF MatrixTaken = "D65" THEN {"matrix"} ELSE {})
        /\ rphase' = "finish"
        /\ UNCHANGED <<asked, planes, cell, dst, mosaic>>

CorrectGray ==
  /\ rphase = "colour" /\ asked.photom # "CFA"
  /\ corrected' = {"gamma"}
  /\ rphase' = "finish"
  /\ UNCHANGED <<asked, planes, cell, dst, mosaic>>

Finish16 ==
  /\ rphase = "finish"
  /\ IF BadPixel(planes) THEN End("panic") ELSE End("rendered")

RendStep ==
  \/ Refuse \/ Linearize \/ CannotInterpolate \/ ToRgb
  \/ StartBimedian \/ InterpolatePixel \/ EndRow \/ Shrink
  \/ Correct \/ CorrectGray \/ Finish16

RendSpec == RendInit /\ [][RendStep]_rendVars

-----------------------------------------------------------------------------
RendTypeOK ==
  /\ asked \in RawImage /\ mosaic \in Bayer \cup {"Other", "Empty"}
  /\ cell.x \in Nat /\ cell.y \in Nat /\ cell.doffset * 3 <= Len(dst)

(* The colour of a place of the sensor, from the patterns of mosaic.rs.    *)
PatternColours == [Rggb |-> <<1, 2, 2, 3>>, Gbrg |-> <<2, 3, 1, 2>>,
                   Bggr |-> <<3, 2, 2, 1>>, Grbg |-> <<2, 1, 3, 2>>]
ColourAt(x, y) == PatternColours[asked.pattern][2 * (y % 2) + (x % 2) + 1]

Away(x, y, p) == (p[1] - x) * (p[1] - x) + (p[2] - y) * (p[2] - y)

(* The median of the values of the nearest places of colour c, doubled: of *)
(* two or four it is the mean of the two in the middle.                    *)
MedianOf(c, x, y) ==
  LET window == {p \in (x - 1 .. x + 1) \X (y - 1 .. y + 1) : ColourAt(p[1], p[2]) = c}
      nearest == {p \in window : \A q \in window : Away(x, y, p) <= Away(x, y, q)}
      ps == SetToSeq(nearest)
      vs == SortSeq([i \in DOMAIN ps |-> Linear(asked.data[ps[i][2] * asked.width + ps[i][1] + 1])], <)
      n == Len(vs)
  IN IF n = 1 THEN vs[1] ELSE (vs[n \div 2] + vs[n \div 2 + 1]) \div 2

IsWhole == Len(asked.data) = asked.width * asked.height

HasRange == asked.white # asked.black

(* When there is a range to divide by, a rendered pixel has, of each       *)
(* colour of the sensor, the median of the nearest samples of that colour, *)
(* whatever the pattern and the size; a picture is as large as it says; a  *)
(* panic is of a picture that is too small or whose data are short, of a   *)
(* white under the black, of a table or a matrix that is no use, or the    *)
(* log's (bimedian and m4, which nothing checks against the patterns of    *)
(* mosaic.rs).                                                             *)
PixelsAreInterpolated ==
  /\ rphase = "rendered" /\ IsWhole =>
       /\ Len(planes.data) = planes.cc * planes.width * planes.height
       /\ mosaic = IF Stage("Interpolation") THEN "Empty" ELSE asked.pattern
  /\ rphase = "rendered" /\ Stage("Interpolation") /\ asked.photom = "CFA" /\ HasRange =>
       \A x \in 0 .. planes.width - 1, y \in 0 .. planes.height - 1, c \in 1 .. 3 :
         planes.data[3 * (y * planes.width + x) + c] = MedianOf(c, x + 1, y + 1)
  /\ rphase = "panic" =>
       \/ asked.width < 2 \/ asked.height < 2
       \/ Len(asked.data) < asked.width * asked.height
       \/ asked.white < asked.black
       \/ OutOfTable
       \/ Stage("Colour") /\ MatrixTaken \notin {"none", "D65"}
       \/ /\ asked.logged
          /\ \E cut \in {0, 2} :
               \/ asked.height - cut = Spot /\ asked.width - cut >= Spot
               \/ asked.height - cut = Spot + 1 /\ asked.width - cut = Spot
=============================================================================
