----------------------------- MODULE MCPictures -----------------------------
(* The ways values get to their places in a picture (tiles, slices, packed *)
(* words, predictors, the chunks of RW2) and the ways they are decoded     *)
(* (bit readers and Huffman tables, lossless JPEG, trees of codes), and    *)
(* how a picture is rendered.  A run is one of them; the other modules     *)
(* then have one input that stays as it is.                                *)
EXTENDS Tiles, SlicedBuffer, Unpack, RowPredictors, PanasonicChunks, Huffman, Ljpeg,
        CodeTrees, Rendering

(* Inputs of the decoders of bits: buffers and Huffman tables of lossless  *)
(* JPEG, its files, and the tables of CRW, NEF and PEF.                    *)
(* Buffers of bytes of two bits: FF, stuffed and not, at every place.      *)
MCBitBuffers ==
  {a \o b : a \in {<<>>} \cup [1 .. 3 -> {0, 1, 3}],
            b \in {<<3>>, <<3, 2>>, <<1, 3, 0, 3, 1>>, <<0, 0, 0, 1, 0>>}}

Dht(a, b, c, d, values) == [bits |-> <<a, b, c, d>>, huffval |-> values]

MCDht ==
  {Dht(1, 1, 1, 1, <<0, 1, 2, 3>>), Dht(0, 3, 0, 0, <<2, 1, 0>>), Dht(1, 0, 0, 2, <<1, 5, 4>>),
   Dht(0, 0, 0, 0, <<>>), Dht(0, 0, 1, 2, <<2, 1, 0>>), Dht(1, 1, 2, 0, <<2, 1, 3, 0>>),
   Dht(1, 3, 0, 0, <<1, 2, 3, 0>>)}

Seg(m, v) == [m |-> m, bad |-> FALSE, v |-> v]
Bad(m) == [m |-> m, bad |-> TRUE, v |-> <<>>]
Soi == Seg("SOI", <<>>)
Differ(v) == [kind |-> "diff", v |-> v]
Rst(n) == [kind |-> "rst", v |-> n]
Eoi == [kind |-> "eoi", v |-> 0]
Diffs(n) == [i \in 1 .. n |-> Differ(((i * i * 3) % 7) - 2)]

(* Every predictor, with and without restarts.                             *)
Headers ==
  {<<Soi, Seg("APP", <<>>), Seg("DHT", <<0, 1>>), Seg("DRI", <<dri>>),
     Seg("SOF", <<4, 3, 2, 1>> \o ids), Seg("SOS", <<psv, pt>> \o scan)>> :
     dri \in {0, 2, 4}, psv \in 0 .. 7, pt \in {0, 4}, ids \in {<<1>>},
     scan \in {<<1, 0>>}}
    \cup
  {<<Soi, Seg("APP", <<>>), Seg("DHT", <<0, 1>>), Seg("DRI", <<dri>>),
     Seg("SOF", <<4, 3, 2, 1>> \o ids), Seg("SOS", <<psv, 1>> \o scan)>> :
     dri \in 0 .. 4, psv \in {1, 7}, ids \in {<<1>>, <<1, 2>>},
     scan \in {<<1, 0>>, <<2, 0, 1, 0>>}}

Broken ==
  {<<Soi>>, <<Seg("EOI", <<>>)>>, <<Soi, Bad("APP")>>, <<Soi, Bad("SOF")>>,
   <<Soi, Seg("EOI", <<>>), Seg("EOI", <<>>)>>,
   <<Soi, Seg("SOF", <<4, 3, 2, 1, 1>>), Seg("EOI", <<>>)>>,
   <<Soi, Seg("SOF", <<4, 3, 2, 2, 1>>), Seg("EOI", <<>>)>>,
   <<Soi, Seg("SOF", <<4, 3, 2, 1, 1>>), Seg("SOS", <<1, 0, 1, 0>>)>>,
   <<Soi, Seg("DHT", <<0, 0>>), Seg("SOF", <<4, 3, 2, 1, 1>>), Seg("SOS", <<1, 0, 1, 0>>)>>}

(* Data that is short or long in any interval, restarts that are not the   *)
(* next, sizes of no difference, no end.                                   *)
Datas ==
  {<<Eoi>>, <<>>, Diffs(12) \o <<Eoi>>, Diffs(12), Diffs(7),
   Diffs(3) \o <<[kind |-> "bad", v |-> 0], Eoi>>}
    \cup {Diffs(a) \o <<Rst(0)>> \o Diffs(b) \o <<Rst(1)>> \o Diffs(c) \o <<Eoi>> :
            a \in {2, 3, 4}, b \in {1, 2, 4}, c \in {0, 2}}
    \cup {Diffs(a) \o <<Rst(r)>> \o Diffs(b) \o <<Eoi>> : a \in {3, 4, 8}, b \in {1, 4}, r \in {0, 1}}

(* Four restarts, so that their numbers come round.                        *)
ManyRestarts ==
  [segments : {<<Soi, Seg("DHT", <<0, 1>>), Seg("DRI", <<2>>), Seg("SOF", <<4, 5, 2, 1, 1>>),
                 Seg("SOS", <<psv, 0, 1, 0>>)>> : psv \in {1, 6}},
   data : {FlattenSeq([i \in 1 .. 5 |-> Diffs(n) \o <<IF i = 5 THEN Eoi ELSE Rst((i - 1) % m)>>]) :
             n \in 1 .. 3, m \in {2, 3}}]

MCJpegs ==
  [segments : Headers, data : Datas] \cup [segments : Broken, data : {<<Eoi>>}] \cup ManyRestarts

(* The three tables of CRW, and of NEF with the codes its comments give.    *)
MCCountTables == {
  [counts |-> <<0, 1, 4, 2, 3, 1, 2, 0, 0, 0, 0, 0, 0, 0, 0, 0>>, leaves |->
  <<4, 3, 5, 6, 2, 7, 1, 8, 9, 0, 10, 11, 255>>],
  [counts |-> <<0, 2, 2, 3, 1, 1, 1, 1, 2, 0, 0, 0, 0, 0, 0, 0>>, leaves |->
  <<3, 2, 4, 1, 5, 0, 6, 7, 9, 8, 10, 11, 255>>],
  [counts |-> <<0, 0, 6, 3, 1, 1, 2, 0, 0, 0, 0, 0, 0, 0, 0, 0>>, leaves |->
  <<6, 5, 7, 4, 8, 3, 9, 2, 0, 10, 1, 11, 255>>]}
MCNodeTables == <<
  <<<<FALSE, 6>>, <<FALSE, 3>>, <<TRUE, 5>>, <<FALSE, 5>>, <<TRUE, 4>>,
  <<TRUE, 3>>, <<FALSE, 10>>, <<FALSE, 9>>, <<TRUE, 6>>, <<TRUE, 2>>, <<FALSE,
  12>>, <<TRUE, 7>>, <<FALSE, 14>>, <<TRUE, 1>>, <<FALSE, 16>>, <<TRUE, 0>>,
  <<FALSE, 18>>, <<TRUE, 8>>, <<FALSE, 20>>, <<TRUE, 9>>, <<FALSE, 22>>,
  <<TRUE, 11>>, <<FALSE, 24>>, <<TRUE, 10>>, <<FALSE, 26>>, <<TRUE, 12>>,
  <<TRUE, 0>>>>,
  <<<<FALSE, 6>>, <<FALSE, 3>>, <<TRUE, 5>>, <<FALSE, 5>>, <<TRUE, 6>>,
  <<TRUE, 4>>, <<FALSE, 10>>, <<FALSE, 9>>, <<TRUE, 7>>, <<TRUE, 8>>, <<FALSE,
  14>>, <<FALSE, 13>>, <<TRUE, 3>>, <<TRUE, 9>>, <<FALSE, 18>>, <<FALSE, 17>>,
  <<TRUE, 2>>, <<TRUE, 1>>, <<FALSE, 22>>, <<FALSE, 21>>, <<TRUE, 0>>, <<TRUE,
  10>>, <<FALSE, 24>>, <<TRUE, 11>>, <<FALSE, 26>>, <<TRUE, 12>>, <<FALSE,
  28>>, <<TRUE, 13>>, <<TRUE, 14>>>>,
  <<<<FALSE, 6>>, <<FALSE, 3>>, <<TRUE, 7>>, <<FALSE, 5>>, <<TRUE, 6>>,
  <<TRUE, 8>>, <<FALSE, 10>>, <<FALSE, 9>>, <<TRUE, 5>>, <<TRUE, 9>>, <<FALSE,
  14>>, <<FALSE, 13>>, <<TRUE, 4>>, <<TRUE, 10>>, <<FALSE, 18>>, <<FALSE,
  17>>, <<TRUE, 3>>, <<TRUE, 11>>, <<FALSE, 22>>, <<FALSE, 21>>, <<TRUE, 12>>,
  <<TRUE, 2>>, <<FALSE, 24>>, <<TRUE, 0>>, <<FALSE, 26>>, <<TRUE, 1>>,
  <<FALSE, 28>>, <<TRUE, 13>>, <<TRUE, 14>>>>>>
MCDocumented == <<
  {<<<<0, 0>>, 5>>, <<<<0, 1, 0>>, 4>>, <<<<0, 1, 1>>, 3>>, <<<<1, 0, 0>>,
  6>>, <<<<1, 0, 1>>, 2>>, <<<<1, 1, 0>>, 7>>, <<<<1, 1, 1, 0>>, 1>>, <<<<1,
  1, 1, 1, 0>>, 0>>, <<<<1, 1, 1, 1, 1, 0>>, 8>>, <<<<1, 1, 1, 1, 1, 1, 0>>,
  9>>, <<<<1, 1, 1, 1, 1, 1, 1, 0>>, 11>>, <<<<1, 1, 1, 1, 1, 1, 1, 1, 0>>,
  10>>, <<<<1, 1, 1, 1, 1, 1, 1, 1, 1, 0>>, 12>>, <<<<1, 1, 1, 1, 1, 1, 1, 1,
  1, 1>>, 0>>},
  {<<<<0, 0>>, 5>>, <<<<0, 1, 0>>, 6>>, <<<<0, 1, 1>>, 4>>, <<<<1, 0, 0>>,
  7>>, <<<<1, 0, 1>>, 8>>, <<<<1, 1, 0, 0>>, 3>>, <<<<1, 1, 0, 1>>, 9>>,
  <<<<1, 1, 1, 0, 0>>, 2>>, <<<<1, 1, 1, 0, 1>>, 1>>, <<<<1, 1, 1, 1, 0, 0>>,
  0>>, <<<<1, 1, 1, 1, 0, 1>>, 10>>, <<<<1, 1, 1, 1, 1, 0>>, 11>>, <<<<1, 1,
  1, 1, 1, 1, 0>>, 12>>, <<<<1, 1, 1, 1, 1, 1, 1, 0>>, 13>>, <<<<1, 1, 1, 1,
  1, 1, 1, 1>>, 14>>},
  {<<<<0, 0>>, 7>>, <<<<0, 1, 0>>, 6>>, <<<<0, 1, 1>>, 8>>, <<<<1, 0, 0>>,
  5>>, <<<<1, 0, 1>>, 9>>, <<<<1, 1, 0, 0>>, 4>>, <<<<1, 1, 0, 1>>, 10>>,
  <<<<1, 1, 1, 0, 0>>, 3>>, <<<<1, 1, 1, 0, 1>>, 11>>, <<<<1, 1, 1, 1, 0, 0>>,
  12>>, <<<<1, 1, 1, 1, 0, 1>>, 2>>, <<<<1, 1, 1, 1, 1, 0>>, 0>>, <<<<1, 1, 1,
  1, 1, 1, 0>>, 1>>, <<<<1, 1, 1, 1, 1, 1, 1, 0>>, 13>>, <<<<1, 1, 1, 1, 1, 1,
  1, 1>>, 14>>}>>
Pef(c, l) == [counts |-> c, leaves |-> l]
MCPefTables ==
  {Pef(<<0, 2, 1, 2>>, <<1, 2, 0, 3, 2>>), Pef(<<1, 1, 1>>, <<0, 3, 1>>),
   Pef(<<0, 4>>, <<0, 1, 2, 5>>), Pef(<<2, 1>>, <<0, 1, 2>>), Pef(<<0, 1>>, <<2>>)}

-----------------------------------------------------------------------------
VARIABLE layout

Tile(k, n) == [kind |-> k, values |-> n]

(* Pictures of up to 5 by 3, cut in tiles of 2 or 3 by 1 or 2: tiles that  *)
(* fit, that reach out to the right, below or both; too few, too many; of  *)
(* no size; with errors, short tiles and panics among them.                *)
MCTiled ==
  [width : {3, 4, 5}, height : {2, 3}, u_width : {2, 3}, u_height : {1, 2},
   tiles : {<<a, b>> \o c : a \in {Tile("tile", 6), Tile("error", 0)},
                            b \in {Tile("tile", 6), Tile("error", 0), Tile("tile", 3)},
                            c \in {<<>>, <<Tile("tile", 7), Tile("tile", 6)>>,
                                   <<Tile("tile", 6), Tile("panic", 0)>>}}]
    \cup [width : {2, 3}, height : {2}, u_width : {0, 2}, u_height : {0, 1},
          tiles : {<<Tile("tile", 2), Tile("tile", 2)>>}]

MCSliced ==
  [width : {1, 4, 5}, height : 1 .. 3,
   slices : {<<1>>, <<4>>, <<2, 2>>, <<2, 2, 1>>, <<1, 1, 1>>, <<3, 1>>, <<0, 2>>,
             <<3, 3>>, <<5>>}]

(* Packed rows of each kind and of widths that end in the middle of three  *)
(* or of sixteen bytes, in files that are long enough or not.              *)
MCPackings ==
  {p \in [bpc : {8, 10, 12, 14}, compression : Compressions, endian : {"little", "big"},
          width : {0, 1, 2, 3, 4, 5, 8, 10, 12, 20, 24}, height : {1, 3},
          byte_len : {0, 7, 200}, bytes : {0, 30, 200}] :
     /\ p.compression # "None" => p.endian = "little"
     /\ p.bpc # 12 => p.compression = "None"}

(* Differences of every kind of predictor, on pictures that end in the     *)
(* middle of a pair or of a block.                                         *)
Small(n, a) == [i \in 1 .. n |-> ((i * i * a + i) % 7) - 2]
Large(n, a) == [i \in 1 .. n |-> (i * i * a + 2 * i) % 9]

Coded(codec, w, h, diffs, low) ==
  [codec |-> codec, width |-> w, height |-> h, diffs |-> diffs, low |-> low,
   init |-> <<<<3, 9>>, <<5, 60>>>>]

MCCoded ==
  {Coded(c, w, h, Small(w * h + h, a), <<>>) :
     c \in {"pef", "nef"}, w \in {1, 2, 3, 4, 6}, h \in {1, 4, 5}, a \in 1 .. 3}
    \cup {Coded("crw", w, h, Small(w * h + 4 - ((w * h) % 4), a), low) :
            w \in {3, 4, 6, 8}, h \in {1, 3}, a \in 1 .. 3,
            low \in {<<>>, [i \in 1 .. 28 |-> i % 4]}}
    \cup {Coded("orf", w, h, Large(w * h, a), <<>>) :
            w \in {2, 4, 5, 6}, h \in {1, 4, 5}, a \in 1 .. 7}

(* Pictures of every pattern and of sizes down to nothing, data that are   *)
(* short or long, tables and matrices of use and of none.                  *)
Sample(i, a) == (i * i * a + 5 * i) % 29
Plain(w, h, n, p) ==
  [width |-> w, height |-> h, data |-> [i \in 1 .. n |-> Sample(i, w + 2 * h)], is16 |-> TRUE, type |-> "Raw",
   white |-> 31, black |-> 3, table |-> <<>>, bpc |-> 3, photom |-> "CFA", pattern |-> p,
   stage |-> 2, target |-> "SRgb", logged |-> FALSE, matrices |-> <<"none", "none">>]
Rggb == Plain(4, 4, 16, "Rggb")
MCRaws ==
  {[Plain(w, h, w * h, p) EXCEPT !.black = b] : w \in {1, 3, 4, 5}, h \in {3, 4, 5}, p \in Bayer, b \in {0, 9}}
    \cup {Plain(w, h, w * h, "Grbg") : w \in 0 .. 2, h \in 0 .. 3}
    \cup {Plain(4, 4, n, "Bggr") : n \in {0, 3, 11, 15, 18}}
    \cup {[Rggb EXCEPT !.stage = s, !.photom = p, !.pattern = c, !.is16 = d] :
            s \in 0 .. 3, p \in {"CFA", "LinearRaw", "Other"}, c \in {"Gbrg", "Other"}, d \in BOOLEAN}
    \cup {[Rggb EXCEPT !.stage = 3, !.target = t, !.matrices = <<a, b>>] : t \in {"SRgb", "Other"},
            a \in {"none", "D65", "other"}, b \in {"none", "D65", "short D65", "singular D65"}}
    \cup {[Rggb EXCEPT !.type = "Other"], [Rggb EXCEPT !.white = 2], [Rggb EXCEPT !.white = 3]}
    \cup {[Rggb EXCEPT !.table = [i \in 1 .. 2 ^ b |-> (7 * i) % 5], !.bpc = n] : b \in {4, 5}, n \in {4, 5}}
    \cup {[Plain(w, h, w * h, "Gbrg") EXCEPT !.logged = TRUE, !.stage = s,
             !.photom = p, !.matrices[2] = "D65"] :
            w \in 4 .. 7, h \in 4 .. 7, s \in {1, 3}, p \in {"CFA", "LinearRaw"}}

AnyOf(S) == CHOOSE x \in S : TRUE

Layouts == {"tiles", "slices", "packed", "predicted", "chunks", "bits", "ljpeg", "trees",
            "rendered"}

AnyTree == [kind |-> "nef", table |-> 1, nodes |-> MCNodeTables[1]]
NoTree == node = 0 /\ word = <<>> /\ tree = AnyTree

(* What the parts that are not of the layout have is fixed before the rest *)
(* of their state is.                                                      *)
MCInit ==
  /\ layout \in Layouts
  /\ layout # "tiles" => picture = AnyOf(MCTiled)
  /\ layout # "slices" => sliced = AnyOf(MCSliced)
  /\ layout # "packed" => packing = AnyOf(MCPackings)
  /\ layout # "predicted" => coded = AnyOf(MCCoded)
  /\ layout # "chunks" => length = 0
  /\ layout # "bits" => reader = NewReader("be", AnyOf(MCBitBuffers))
  /\ layout # "ljpeg" => jpeg = AnyOf(MCJpegs)
  /\ layout # "rendered" => asked = Plain(2, 2, 4, "Grbg")
  /\ IF layout = "trees" THEN TreesInit ELSE NoTree
  /\ TilesInit /\ SlicedInit /\ UnpackInit /\ PredInit /\ PanaInit
  /\ HuffInit /\ LjpegInit /\ RendInit

placeVars == <<tilesVars, slicedVars, unpackVars, predVars, panaVars>>
codeVars == <<huffVars, ljpegVars, treeVars, rendVars>>

MCNext ==
  /\ UNCHANGED layout
  /\ \/ layout = "tiles" /\ TilesStep
        /\ UNCHANGED <<slicedVars, unpackVars, predVars, panaVars, codeVars>>
     \/ layout = "slices" /\ SlicedStep
        /\ UNCHANGED <<tilesVars, unpackVars, predVars, panaVars, codeVars>>
     \/ layout = "packed" /\ UnpackStep
        /\ UNCHANGED <<tilesVars, slicedVars, predVars, panaVars, codeVars>>
     \/ layout = "predicted" /\ PredStep
        /\ UNCHANGED <<tilesVars, slicedVars, unpackVars, panaVars, codeVars>>
     \/ layout = "chunks" /\ PanaStep
        /\ UNCHANGED <<tilesVars, slicedVars, unpackVars, predVars, codeVars>>
     \/ layout = "bits" /\ HuffStep /\ UNCHANGED <<placeVars, ljpegVars, treeVars, rendVars>>
     \/ layout = "ljpeg" /\ LjpegStep /\ UNCHANGED <<placeVars, huffVars, treeVars, rendVars>>
     \/ layout = "trees" /\ TreesStep /\ UNCHANGED <<placeVars, huffVars, ljpegVars, rendVars>>
     \/ layout = "rendered" /\ RendStep /\ UNCHANGED <<placeVars, huffVars, ljpegVars, treeVars>>

MCSpec == MCInit /\ [][MCNext]_<<layout, placeVars, codeVars>>
=============================================================================
