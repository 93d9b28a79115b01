------------------------------- MODULE Tiles -------------------------------
(***************************************************************************)
(* A tiled picture (src/src/decompress/tiled.rs): the tiles are decoded in *)
(* parallel, each by a decompressor of its own, and combined into one      *)
(* buffer when all are done.                                               *)
(*                                                                         *)
(* A pixel is named by where it comes from: the tile, and its place in the *)
(* data of the tile.  What a pixel of the buffer is before it is written   *)
(* is Garbage: the buffer is not initialised.                              *)
(***************************************************************************)
EXTENDS Integers, Sequences, FiniteSets

CONSTANTS TiledPictures,  \* the pictures: dimensions, tile_size, and how each tile decodes
          Garbage,
          Pending

(* A stream decodes to so many values, or to an error, or the decoder      *)
(* panics (it reads past the end of the stream).                           *)
Decoding == [kind : {"tile", "error", "panic"}, values : Nat]

TiledPicture ==
  [width : Nat \ {0}, height : Nat \ {0}, u_width : Nat, u_height : Nat,
   tiles : Seq(Decoding)]

ASSUME TilesAssumption == TiledPictures \subseteq TiledPicture

VARIABLES picture,    \* the RawImage
          decoded,    \* dec_tiles: what is there of each tile
          stage,      \* where decompress is
          tile,       \* the next tile to combine
          first_row, first_col,
          image       \* buffer

place == <<tile, first_row, first_col>>
tilesVars == <<picture, decoded, stage, place, image>>

Pixels == 0 .. picture.width * picture.height - 1

TilesInit ==
  /\ picture \in TiledPictures
  /\ decoded = [i \in DOMAIN picture.tiles |-> Pending]
  /\ stage = "decode"
  /\ tile = 1 /\ first_row = 0 /\ first_col = 0
  /\ image = [p \in Pixels |-> Garbage]

(* One closure of par_iter().map() ends; they end in any order.            *)
DecodeTile(i) ==
  /\ stage = "decode"
  /\ decoded[i] = Pending
  /\ decoded' = [decoded EXCEPT ![i] = picture.tiles[i]]
  /\ UNCHANGED <<picture, stage, place, image>>

(* collect(): all are there; a panic of one is a panic of all.             *)
Collect ==
  /\ stage = "decode"
  /\ \A i \in DOMAIN decoded : decoded[i] # Pending
  /\ stage' = IF \E i \in DOMAIN decoded : decoded[i].kind = "panic"
                THEN "panic" ELSE "combine"
  /\ UNCHANGED <<picture, decoded, place, image>>

Smaller(a, b) == IF a < b THEN a ELSE b

FullRow == picture.u_width     \* mutant: a row that is not cut

(* The part of a row of the tile that is in the picture.                   *)
row_len == Smaller(picture.u_width, picture.width - first_col)

(* The rows of the tile that are in the picture.                           *)
Rows == {r \in 0 .. picture.u_height - 1 : first_row + r < picture.height}

buf_pos(r) == (first_row + r) * picture.width + first_col
tile_pos(r) == r * picture.u_width

(* copy_from_slice of every row: both slices are in their buffers.         *)
Fits == \A r \in Rows : /\ buf_pos(r) + row_len <= picture.width * picture.height
                        /\ tile_pos(r) + row_len <= decoded[tile].values

Covering(p) == {r \in Rows : p - buf_pos(r) \in 0 .. row_len - 1}

Copied(p) ==
  LET r == CHOOSE r \in Covering(p) : TRUE
  IN [tile |-> tile, at |-> tile_pos(r) + p - buf_pos(r)]

NextPlace ==
  LET col == first_col + picture.u_width
  IN /\ first_col' = IF col >= picture.width THEN 0 ELSE col
     /\ first_row' = IF col >= picture.width THEN first_row + picture.u_height
                                             ELSE first_row

(* Where the loop of combine_tiles breaks.                                 *)
Complete == first_row >= picture.height

Combining == stage = "combine" /\ ~Complete /\ tile <= Len(picture.tiles)

(* A tile that is None is passed over, and its place is not.               *)
SkipTile ==
  /\ Combining
  /\ decoded[tile].kind = "error"
  /\ tile' = tile + 1
  /\ UNCHANGED <<picture, decoded, stage, first_row, first_col, image>>

PlaceTile ==
  /\ Combining
  /\ decoded[tile].kind = "tile"
  /\ Fits
  /\ image' = [p \in Pixels |-> IF Covering(p) # {} THEN Copied(p) ELSE image[p]]
  /\ tile' = tile + 1
  /\ NextPlace
  /\ UNCHANGED <<picture, decoded, stage>>

ShortTile ==
  /\ Combining
  /\ decoded[tile].kind = "tile"
  /\ ~Fits
  /\ stage' = "panic"
  /\ UNCHANGED <<picture, decoded, place, image>>

ReturnPicture ==
  /\ stage = "combine"
  /\ ~Combining
  /\ stage' = "done"
  /\ UNCHANGED <<picture, decoded, place, image>>

TilesStep ==
  \/ \E i \in DOMAIN picture.tiles : DecodeTile(i)
  \/ Collect \/ SkipTile \/ PlaceTile \/ ShortTile \/ ReturnPicture

TilesSpec == TilesInit /\ [][TilesStep]_tilesVars

-----------------------------------------------------------------------------
Pixel == [tile : Nat, at : Nat]

TilesTypeOK ==
  /\ picture \in TiledPicture
  /\ decoded \in [DOMAIN picture.tiles -> Decoding \cup {Pending}]
  /\ stage \in {"decode", "combine", "done", "panic"}
  /\ tile \in 1 .. Len(picture.tiles) + 1
  /\ first_row \in Nat
  /\ first_col \in 0 .. picture.width - 1
  /\ image \in [Pixels -> Pixel \cup {Garbage}]

(* How many tiles before this one could be decoded.                        *)
UsableBefore(t) == Cardinality({i \in 1 .. t - 1 : picture.tiles[i].kind = "tile"})

(* The tiles cover the picture from left to right and from top to bottom;  *)
(* the last of a row and those of the last row may reach out of it.        *)
TilesAcross == (picture.width + picture.u_width - 1) \div picture.u_width

RowOf(p) == p \div picture.width
ColOf(p) == p % picture.width

Covers(t, p) ==
  /\ picture.u_width # 0 /\ picture.u_height # 0
  /\ picture.tiles[t].kind = "tile"
  /\ UsableBefore(t) = (RowOf(p) \div picture.u_height) * TilesAcross
                          + (ColOf(p) \div picture.u_width)

PixelFrom(t, p) ==
  [tile |-> t,
   at |-> (RowOf(p) % picture.u_height) * picture.u_width + (ColOf(p) % picture.u_width)]

(* Whatever the order in which the tiles were decoded, every pixel is the  *)
(* one of the tile that covers it.  The tiles that could not be decoded    *)
(* give up their place to the next one, and what no tile is left for is    *)
(* not initialised.  The picture is lost only for a tile that panics, or   *)
(* that has less data than tile_size says: never for tiles that reach out  *)
(* of the picture, too many or too few of them (tiled.rs, combine_tiles).  *)
PixelsAreOfTheirTile ==
  /\ stage = "done" =>
       \A p \in Pixels :
         /\ \A t \in DOMAIN picture.tiles : Covers(t, p) => image[p] = PixelFrom(t, p)
         /\ image[p] # Garbage => \E t \in DOMAIN picture.tiles : Covers(t, p)
  /\ stage = "panic" =>
       \E i \in DOMAIN picture.tiles :
         \/ picture.tiles[i].kind = "panic"
         \/ /\ picture.tiles[i].kind = "tile"
            /\ picture.tiles[i].values < picture.u_width * picture.u_height
=============================================================================
