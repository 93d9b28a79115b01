---------------------------- MODULE VendorLoads ----------------------------
(***************************************************************************)
(* load_rawdata of each format: for those on a TIFF container, what it does*)
(* with the image of tiff_get_rawdata, and for the others how the image is *)
(* found.  Then the data are unpacked or decoded, unless the caller asked  *)
(* for them as they are (`skip'), and levels, areas and balance are set.   *)
(*                                                                         *)
(* The levels of black and white are those of the first colour; an area, a *)
(* crop and a balance are only set or not.  When a tag is "short" or       *)
(* "beyond", formats differ in whether they test for it or panic.          *)
(***************************************************************************)
EXTENDS RawLoads

CONSTANTS Wide,         \* 3700 columns: how a long ORF is packed
          Alignment,    \* 2048, of the second half of an interlaced ORF
          RafHeader,    \* 2048, before the data of a RAF without a CFA IFD
          ChunkSize,    \* 0x4000 bytes of Panasonic data
          CurveSize     \* 0x4001, the most elements of a curve that is read

OverflowU32(n) == n > U32Max

(* What a decoder returns is a picture with its own size and depth ...     *)
WithBuffer(r) ==
  [r EXCEPT !.kind = "Data16", !.len = file.decoded.width * file.decoded.height, !.type = "Raw",
            !.width = file.decoded.width, !.height = file.decoded.height, !.bpc = file.decoded.bpc]
(* ... or only values, as many as the picture has.                         *)
WithValues(r, n) == [r EXCEPT !.kind = "Data16", !.len = n, !.type = "Raw"]

Format(f) == file.format = f
Step(from, f) == lphase = from /\ Format(f)

-----------------------------------------------------------------------------
(* DNG: the levels are set first, then LJPEG of one piece or of tiles.     *)
DngLevels ==
  /\ Step("loaded", "dng")
  /\ LET broken == \/ NoValues(file.black) \/ NoValues(file.white) \/ file.wb = "short"
                   \/ file.crop = "beyond" /\ file.area = "good"
     IN \/ broken /\ Ends("panic")
        \/ ~broken /\ Goes("tagged",
             [raw EXCEPT !.area = IF file.area = "good" THEN "tag" ELSE "all",
                !.crop = file.crop \in {"good", "beyond"}, !.neutral = file.wb = "good",
                !.black = Level(file.black, raw.black), !.white = Level(file.white, raw.white)])

(* A bad tile is lost (Tiles); the picture is there all the same.          *)
DngDecompress ==
  /\ Step("tagged", "dng")
  /\ LET ljpeg == ~file.skip /\ raw.type = "CompressedRaw" /\ raw.compression = "LJpeg"
     IN \/ ~ljpeg /\ Goes("ok", raw)
        \/ ljpeg /\ raw.kind = "Tiled" /\ Goes("ok", WithValues(raw, raw.width * raw.height))
        \/ ljpeg /\ raw.kind = "Data8" /\ file.decoded.ok /\ Goes("ok", WithBuffer(raw))
        \/ ljpeg /\ raw.kind = "Data8" /\ ~file.decoded.ok /\ Ends("error")

-----------------------------------------------------------------------------
(* NEF.  The D100 has six columns more than it says, packed; the image     *)
(* keeps the width it had.                                                 *)
PackedWidth == raw.width + 6
NikonBlock == PackedBlock(12, "NikonPack", PackedWidth)
UnpackedBlocks ==
  LET len == Min({raw.len, NikonBlock * raw.height})
  IN IF NikonBlock = 0 THEN 0 ELSE (len + NikonBlock - 1) \div NikonBlock

UnpackNikon ==
  /\ Step("loaded", "d100")
  /\ LET packed == raw.bpc = 12 /\ raw.kind = "Data8"
         some == packed /\ UnpackedBlocks > 0
         values == Unpacked12(NikonBlock, TRUE)
         past == raw.len < NikonBlock \/ (values # Missing /\ UnpackedBlocks * NikonBlock > raw.len)
     IN \/ ~packed /\ Ends("error")
        \/ some /\ past /\ Ends("panic")
        \/ some /\ ~past /\ values = Missing /\ Ends("error")
        \/ some /\ ~past /\ values # Missing /\
             Goes("decoded", WithValues(raw, UnpackedBlocks * values))
        \/ packed /\ ~some /\ Goes("decoded", WithValues(raw, 0))

(* get_compression_curve.  The header says which code and how the curve is *)
(* given: interpolated, or value by value; of a lossless file (0x46) it is *)
(* not read and stays 0.  `elems' is how many values are said to follow,   *)
(* and `there' how many do.                                                *)
Curve == file.curve
CurveStep == IF Curve.elems > 1 THEN ((2 ^ raw.bpc) % 32768) \div (Curve.elems - 1) ELSE 0
Interpolates == Curve.header = "lossy" /\ Curve.split /\ CurveStep > 0
OneByOne == ~Interpolates /\ Curve.header # "lossless" /\ Curve.elems <= CurveSize
CurveOutcome ==
  CASE Curve.header = "none" \/ (Curve.header = "lossless" /\ raw.bpc = 12) -> "unsupported"
    [] Curve.header = "unknown" \/ (Curve.header # "none" /\ raw.bpc \notin {12, 14}) -> "bad"
    [] OTHER ->
         CASE (Interpolates \/ OneByOne) /\ Curve.there < Curve.elems -> "bad"
           [] OneByOne /\ Curve.there >= Curve.elems /\ Curve.elems = 0 -> "panic"
           [] OTHER -> "curve"

(* decompress_nikon_quantized: the last column is dropped.  The black of   *)
(* the curve is set, and white by the depth of the values in the file.     *)
Dequantized ==
  [WithValues(raw, (raw.width - 1) * raw.height) EXCEPT
     !.width = raw.width - 1, !.white = White(raw.bpc),
     !.zeros = ~(Interpolates \/ OneByOne),
     !.black = IF Interpolates \/ OneByOne THEN Curve.first ELSE 0]

NefDecompress ==
  /\ Step("loaded", "nef")
  /\ LET quantized == ~file.skip /\ raw.compression = "NikonQuantized"
     IN \/ (~quantized \/ CurveOutcome = "unsupported") /\ Goes("decoded", raw)
        \/ quantized /\ CurveOutcome = "bad" /\ Ends("error")
        \/ quantized /\ (CurveOutcome = "panic" \/ (CurveOutcome = "curve" /\ raw.width = 0)) /\ Ends("panic")
        \/ quantized /\ CurveOutcome = "curve" /\ raw.width > 0 /\
             \/ (raw.kind # "Data8" \/ ~file.decoded.ok) /\ Ends("error")
             \/ raw.kind = "Data8" /\ file.decoded.ok /\ Goes("decoded", Dequantized)

NefLevels ==
  /\ lphase = "decoded" /\ file.format \in {"nef", "d100"}
  /\ LET broken == NoValues(file.black) \/ file.crop = "short" \/ file.wb = "short"
     IN \/ broken /\ Ends("panic")
        \/ ~broken /\ Goes("ok", [raw EXCEPT !.area = "all", !.crop = file.crop # "none",
                            !.neutral = file.wb = "good", !.black = Level(file.black, raw.black)])

-----------------------------------------------------------------------------
(* ORF.  Data too short for words of 16 bits are packed in one of three    *)
(* ways, or compressed, told by their length.                              *)
BytesOf(r) == IF r.kind = "Data16" THEN 2 * r.len ELSE r.len
PackedOrf(r) == r.height * (((r.width * 12) \div 8) + ((r.width + 2) \div 10))
ThreeHalves(r) == (r.height * r.width * 3) \div 2
IsUnpackable(r) == BytesOf(r) = PackedOrf(r)

(* The odd rows are in a second half, aligned.  Each row must begin within *)
(* its half, and a row of odd width must run out of data before its end.   *)
InterlacedPanics(r) ==
  LET n == BytesOf(r)
      half == (r.height + 1) \div 2
      second == ((((half * r.width * 3) \div 2) \div Alignment) + 1) * Alignment
      Off(row) == (((row \div 2) * r.width) * 12) \div 8
      Left(row) == (IF row % 2 = 0 THEN n ELSE n - second) - Off(row)
  IN \/ second > n
     \/ \E row \in 0 .. r.height - 1 :
          \/ Left(row) < 0
          \/ r.width % 2 = 1 /\ Left(row) - 3 * (r.width \div 2) >= 3

OrfPanics(r) ==
  \/ OverflowU32(r.width * 12)
  \/ /\ ~IsUnpackable(r)
     /\ \/ OverflowU32(r.height * r.width * 3)
        \/ BytesOf(r) = ThreeHalves(r) /\ r.width < Wide /\ InterlacedPanics(r)
        \/ BytesOf(r) = ThreeHalves(r) /\ r.width >= Wide /\ BytesOf(r) % 12 # 0

OrfValues(r) ==
  CASE IsUnpackable(r) ->
         unpack_from_reader(r.width, r.height, 12, "Olympus", BytesOf(r), BytesOf(r))
    [] ~IsUnpackable(r) /\ BytesOf(r) # ThreeHalves(r) /\ ~file.decoded.ok -> Missing
    [] OTHER -> r.width * r.height

(* What comes out of tiff_get_rawdata may be half of a picture already, in *)
(* words; they are then taken as bytes.                                    *)
OrfDecompress ==
  /\ Step("loaded", "orf")
  /\ LET r == IF BytesOf(raw) < 2 * raw.width * raw.height
              THEN [raw EXCEPT !.compression = "Olympus", !.type = "CompressedRaw"] ELSE raw
         decodes == ~file.skip /\ r.compression = "Olympus" /\ r.kind # "Tiled"
     IN \/ ~decodes /\ Goes("decoded", r)
        \/ decodes /\ OrfPanics(r) /\ Ends("panic")
        \/ decodes /\ ~OrfPanics(r) /\ Goes("decoded", IF OrfValues(r) = Missing THEN r
             ELSE [WithValues(r, OrfValues(r)) EXCEPT !.compression = "None"])

OrfLevels ==
  /\ Step("decoded", "orf")
  /\ \/ file.crop = "beyond" /\ Ends("panic")
     \/ file.crop # "beyond" /\ Goes("ok",
          [raw EXCEPT !.bpc = 12, !.white = White(12), !.crop = file.crop = "good",
             !.area = IF file.area = "good" THEN "tag" ELSE "all", !.neutral = file.wb = "good",
             !.black = IF file.black # <<>> /\ Len(file.black[1]) \in {1, 4}
                       THEN Level(file.black, 0) ELSE 0])

-----------------------------------------------------------------------------
(* PEF: all levels from the maker note, or those built in, if there is a   *)
(* maker note; then whatever data of bytes there are go to the decoder.    *)
BuiltinBlack == IF file.builtin = <<>> THEN 0 ELSE file.builtin[1]
BuiltinWhite == IF file.builtin = <<>> THEN 0 ELSE file.builtin[2]

PefBlack(tag) == IF file.white = <<>> /\ tag = 0 THEN BuiltinBlack ELSE tag
PefWhite == IF file.white = <<>> /\ BuiltinWhite # 0 THEN BuiltinWhite
            ELSE Level(file.white, raw.white)

PefLevels ==
  /\ Step("loaded", "pef")
  /\ LET broken == NoValues(file.black) \/ file.wb = "short"
     IN \/ ~file.mnote /\ Goes("tagged", raw)
        \/ file.mnote /\ broken /\ Ends("panic")
        \/ file.mnote /\ ~broken /\ Goes("tagged",
             [raw EXCEPT !.crop = file.crop \in {"good", "beyond"}, !.area = "all",
                !.neutral = file.wb = "good", !.white = PefWhite,
                !.black = PefBlack(Level(file.black, raw.black))])

PefDecompress ==
  /\ Step("tagged", "pef")
  /\ Goes("ok", IF raw.kind = "Data8" /\ file.decoded.ok
                THEN [WithValues(raw, raw.width * raw.height) EXCEPT !.compression = "None"]
                ELSE raw)

-----------------------------------------------------------------------------
(* ARW: levels of the tags, or else those built in, be they 0.  ERF: of    *)
(* the maker note only.                                                    *)
ArwWhite ==
  CASE file.white # <<>> -> Level(file.white, 0)
    [] file.white = <<>> /\ file.builtin # <<>> -> BuiltinWhite
    [] OTHER -> raw.white

ArwLevels ==
  /\ Step("loaded", "arw")
  /\ LET broken == \/ NoValues(file.black) \/ NoValues(file.white)
                   \/ "short" \in {file.settings, file.wb}
     IN \/ broken /\ Ends("panic")
        \/ ~broken /\ Goes("ok",
             [raw EXCEPT !.area = "all", !.crop = file.crop \in {"good", "beyond"},
                !.neutral = file.wb = "good", !.white = ArwWhite,
                !.black = Level(file.black, BuiltinBlack)])

ErfLevels ==
  /\ Step("loaded", "erf")
  /\ LET broken == NoValues(file.black) \/ file.wb = "short"
     IN \/ file.mnote /\ broken /\ Ends("panic")
        \/ file.mnote /\ ~broken /\ Goes("ok",
             [raw EXCEPT !.area = IF file.area = "good" THEN "tag" ELSE "none",
                !.neutral = file.wb = "good", !.black = Level(file.black, raw.black)])
        \/ ~file.mnote /\ Goes("ok", raw)

-----------------------------------------------------------------------------
(* Formats that find their data themselves.  A RawImage has no compression *)
(* and no levels until they are set.                                       *)
Image(kind, len, type, bpc) ==
  [NoRaw EXCEPT !.kind = kind, !.len = len, !.type = type, !.bpc = bpc,
     !.compression = "Unknown", !.width = Max({0, file.width}), !.height = Max({0, file.height})]

FirstCount == IF file.counts = <<>> THEN Missing ELSE file.counts[1]

(* The A100: the dimensions are in a block of a MRW container in a private *)
(* tag, and that the block is there is taken for granted.                  *)
A100Load ==
  /\ lphase = "called" /\ Format("a100")
  /\ LET found == file.dir /\ file.offset # Missing /\ file.block # "none"
         sized == found /\ file.block = "good" /\ Dimensions
     IN \/ (~found \/ (file.block = "good" /\ ~Dimensions)) /\ Ends("error")
        \/ found /\ file.block = "broken" /\ Ends("panic")
        \/ sized /\ (OverflowU32(Twice) \/ file.wb = "beyond") /\ Ends("panic")
        \/ sized /\ ~OverflowU32(Twice) /\ file.wb # "beyond" /\
             \E n \in load_buffer8(file.offset, Twice) :
               Goes("ok", [Image("Data8", n, "CompressedRaw", file.bpc)
                             EXCEPT !.neutral = file.wb = "good"])

(* CR2, and the TIF files of the first cameras, which may not say how many *)
(* bytes: then it is all that is left.                                     *)
ByteLength ==
  IF Format("tif") /\ FirstCount = Missing THEN file.length - file.offset ELSE FirstCount

\* The dimensions are kept only by data that is not decompressed.
get_raw_bytes(width, height, len) ==
  \/ ~file.skip /\ ~file.decoded.ok /\ Ends("error")
  \/ ~file.skip /\ file.decoded.ok /\ Goes("decoded", WithBuffer(Image("Data16", 0, "Raw", 0)))
  \/ file.skip /\ \E n \in load_buffer8(file.offset, len) :
       Goes("decoded", [Image("Data8", n, "CompressedRaw", 8) EXCEPT !.width = width, !.height = height])

TifRawBytes ==
  /\ lphase = "called" /\ Format("tif")
  /\ LET found == file.dir /\ file.offset # Missing
         past == FirstCount = Missing /\ file.offset > file.length
     IN \/ ~found /\ Ends("error")
        \/ found /\ past /\ Ends("panic")
        \/ found /\ ~past /\ get_raw_bytes(0, 0, ByteLength)

Cr2RawBytes ==
  /\ lphase = "called" /\ Format("cr2")
  /\ LET found == file.dir /\ file.offset # Missing /\ FirstCount # Missing
         sized == Image("Data8", 0, "CompressedRaw", 8)
     IN \/ ~found /\ Ends("error")
        \/ found /\ get_raw_bytes(sized.width, sized.height, ByteLength)

\* What the maker note says: of the first cameras, only the white balance.
TifTags ==
  IF file.mnote /\ file.wb = "short" THEN [panics |-> TRUE]
  ELSE [panics |-> FALSE, raw |-> [raw EXCEPT !.neutral = file.mnote /\ file.wb = "good"]]

CanonNote == INSTANCE CanonTags

Cr2Crop == CanonNote!UserCrop(CanonNote!AspectInfo(file.note.aspect), CanonNote!SensorInfo(file.note.sensor))
\* The level of black of the colour data, if their layout is known.
Cr2Black ==
  {IF CanonNote!blacks(c) >= 0 THEN c.black ELSE 0 :
     c \in {c \in Range(file.note.colour) : CanonNote!identify(c) # 0}}

Cr2Tags ==
  IF ~file.mnote THEN [panics |-> FALSE, raw |-> raw]
  ELSE [panics |-> \/ \E crop \in Cr2Crop : OverflowU32(crop.x) \/ OverflowU32(crop.y)
                   \/ \E c \in Range(file.note.colour) : ~CanonNote!ColourReadable(c),
        raw |-> [raw EXCEPT !.area = IF CanonNote!SensorInfo(file.note.sensor) # {} THEN "tag" ELSE "none",
                   !.crop = Cr2Crop # {},
                   !.neutral = Cr2Black # {},
                   !.black = Max({0} \cup Cr2Black)]]

(* White is built in, or else of the depth of the data; black is of the    *)
(* colour data in the maker note, or else built in.                        *)
Cr2Levels ==
  /\ lphase = "decoded" /\ file.format \in {"cr2", "tif"}
  /\ LET tags == IF Format("cr2") THEN Cr2Tags ELSE TifTags
     IN \/ tags.panics /\ Ends("panic")
        \/ ~tags.panics /\ Goes("ok",
             [tags.raw EXCEPT !.black = IF @ = 0 THEN BuiltinBlack ELSE @,
                !.white = IF BuiltinWhite = 0 THEN White(raw.bpc) ELSE BuiltinWhite])

(* MRW: the dimensions are those of the PRD block; the depth of what was   *)
(* unpacked is said to be 16.                                              *)
MrwLength == IF file.packed THEN Pixels + (Pixels \div 2) ELSE Twice

MrwLoad ==
  /\ lphase = "called" /\ Format("mrw")
  /\ LET found == file.dir /\ file.block = "good" /\ Dimensions
         bytes == load_buffer8(file.offset, MrwLength)
     IN \/ ~found /\ Ends("error")
        \/ found /\ OverflowU32(MrwLength) /\ Ends("panic")
        \/ found /\ ~OverflowU32(MrwLength) /\ ~file.packed /\
             Goes("decoded", Image("Data16", MrwLength \div 2, "Raw", file.bpc))
        \/ found /\ ~OverflowU32(MrwLength) /\ file.packed /\ \E n \in bytes :
             \/ file.skip /\ Goes("decoded", Image("Data8", n, "CompressedRaw", file.bpc))
             \/ ~file.skip /\ n % 3 # 0 /\ Ends("error")
             \/ ~file.skip /\ n % 3 = 0 /\
                  Goes("decoded", Image("Data16", Unpacked12(n, FALSE), "Raw", 16))

MrwLevels ==
  /\ Step("decoded", "mrw")
  /\ \/ file.wb = "beyond" /\ Ends("panic")
     \/ file.wb # "beyond" /\ Goes("ok",
          [raw EXCEPT !.white = BuiltinWhite, !.black = BuiltinBlack, !.neutral = file.wb = "good"])

-----------------------------------------------------------------------------
(* RW2: with the raw offset of its own tag the data go to the end of the   *)
(* file; with the offset of a strip they are as many as the tag says, but  *)
(* it is the bytes there are that tell how they are packed.                *)
HasRawOffset == file.raw_offset # Missing
DataOffset == IF HasRawOffset THEN file.raw_offset ELSE file.offset
RealLen == file.length - DataOffset
DataLen == IF HasRawOffset THEN RealLen ELSE FirstCount
Rw2Found == /\ file.dir /\ Dimensions /\ (HasRawOffset \/ (file.offset # Missing /\ FirstCount # Missing))
            /\ ~OverflowU32(Pixels) /\ DataOffset <= file.length

IsPlain == ~HasRawOffset /\ RealLen >= Twice
IsPacked == ~HasRawOffset /\ RealLen < Twice /\ RealLen >= (Pixels * 3) \div 2
Rw2Overflows == ~HasRawOffset /\ (OverflowU32(Twice) \/ (RealLen < Twice /\ OverflowU32(Pixels * 3)))

(* Raw1 data are decoded in whole chunks, 14 values of 16 bytes.           *)
Rw2Image(n) ==
  LET raw1 == ~file.skip /\ file.compression = "PanasonicRaw1" /\ n % ChunkSize = 0
  IN CASE ~IsPlain /\ ~IsPacked /\ raw1 -> [Image("Data16", (n * 14) \div 16, "Raw", file.bpc)
                                          EXCEPT !.compression = "None"]
       [] ~IsPlain /\ ~IsPacked /\ ~raw1 -> [Image("Data8", n, "CompressedRaw", file.bpc)
                                           EXCEPT !.compression = file.compression]
       [] IsPlain -> [Image("Data16", DataLen \div 2, "Raw", file.bpc)
                        EXCEPT !.compression = file.compression]
       [] IsPacked -> [Image("Data16", unpack_from_reader(file.width, file.height, 12, "PanasonicRaw1", n, n),
                             "Raw", file.bpc) EXCEPT !.compression = file.compression]

Rw2Load ==
  /\ lphase = "called" /\ Format("rw2")
  /\ \/ ~Rw2Found /\ Ends("error")
     \/ Rw2Found /\ Rw2Overflows /\ Ends("panic")
     \/ Rw2Found /\ ~Rw2Overflows /\ \E n \in load_buffer8(DataOffset, DataLen) :
          \/ Rw2Image(n).len = Missing /\ Ends("error")
          \/ Rw2Image(n).len # Missing /\ Goes("decoded", Rw2Image(n))

(* Black that is not said is as white that is not said.                    *)
Rw2Levels ==
  /\ Step("decoded", "rw2")
  /\ \/ file.bpc >= 32 /\ Ends("panic")
     \/ file.bpc < 32 /\ Goes("ok",
          [raw EXCEPT !.area = "all", !.crop = TRUE, !.neutral = file.wb = "good",
             !.white = Level(file.white, White(file.bpc)), !.black = Level(file.black, White(file.bpc))])

-----------------------------------------------------------------------------
(* RAF: where the data are comes from a directory of the CFA container, or *)
(* without one from the header, and the depth is then guessed.  A CFA with *)
(* no such directory leaves the offset 0.                                  *)
RafBps == IF file.cfa = "dir" THEN file.bpc ELSE IF file.packed THEN 12 ELSE 16
RafOffset == CASE file.cfa = "dir" /\ file.offset # Missing -> file.offset + file.raw_offset
               [] file.cfa = "header" -> file.raw_offset + RafHeader
               [] OTHER -> 0
RafLength == CASE file.cfa = "dir" -> Max({0, FirstCount})
               [] file.cfa = "header" -> FirstCount - RafHeader
               [] OTHER -> 0

RafCompressed == RafLength < (RafBps * Pixels) \div 8
RafThere == file.length - RafOffset

(* 14 bits are read from words of four bytes.                              *)
RafUnpacked ==
  CASE RafThere < 0 -> Missing
    [] RafThere >= 0 /\ RafBps = 14 -> IF 4 * ((14 * Pixels + 31) \div 32) <= RafThere THEN Pixels ELSE Missing
    [] RafThere >= 0 /\ RafBps \in {10, 12} ->
         unpack_from_reader(file.width, file.height, RafBps, "None", RafLength, RafThere)
    [] OTHER -> Missing

RafImages ==
  CASE RafCompressed /\ ~file.skip /\ file.decoded.ok -> {WithBuffer(Image("Data16", 0, "Raw", 0))}
    [] RafCompressed /\ (file.skip \/ ~file.decoded.ok) ->
         {Image("Data8", n + 16, "CompressedRaw", RafBps) : n \in load_buffer8(RafOffset, RafLength)}
    [] ~RafCompressed /\ RafLength = Twice -> {Image("Data16", Pixels, "Raw", 16)}
    [] OTHER -> {Image("Data16", RafUnpacked, "Raw", 16)}

RafLoad ==
  /\ lphase = "called" /\ Format("raf")
  /\ LET found == file.dir /\ Dimensions
         broken == file.wb = "short" \/ OverflowU32(RafOffset) \/ RafLength < 0
         some == found /\ ~broken /\ RafOffset # 0 /\ RafLength # 0
     IN \/ (~found \/ (~broken /\ ~some)) /\ Ends("error")
        \/ found /\ broken /\ Ends("panic")
        \/ some /\ \E r \in RafImages :
             \/ r.len = Missing /\ Ends("error")
             \/ r.len # Missing /\ Goes("decoded", r)

(* The output size is after the values that are too big to be a width; if  *)
(* all are, the index is past them when it is tested.                      *)
RafLevels ==
  /\ Step("decoded", "raf")
  /\ LET allBig == file.outs # <<>> /\ \A i \in DOMAIN file.outs[1] : file.outs[1][i] >= file.width
         black == IF file.cfa = "dir" THEN file.black ELSE <<>>
         broken == allBig \/ NoValues(black) \/ RafBps >= 31
     IN \/ broken /\ Ends("panic")
        \/ ~broken /\ Goes("ok",
             [raw EXCEPT !.black = Level(black, 0), !.white = White(RafBps),
                !.area = IF file.area = "good" THEN "tag" ELSE "none",
                !.crop = file.crop = "good", !.neutral = file.wb = "good"])

LoadsStep ==
  \/ TiffGetRawData
  \/ DngLevels \/ DngDecompress
  \/ UnpackNikon \/ NefDecompress \/ NefLevels
  \/ OrfDecompress \/ OrfLevels
  \/ PefLevels \/ PefDecompress
  \/ ArwLevels \/ ErfLevels \/ A100Load
  \/ TifRawBytes \/ Cr2RawBytes \/ Cr2Levels
  \/ MrwLoad \/ MrwLevels
  \/ Rw2Load \/ Rw2Levels
  \/ RafLoad \/ RafLevels

-----------------------------------------------------------------------------
(* A file that is whole: what its tags say is there and makes sense, and   *)
(* its data are as many bytes as its pixels need at its depth.             *)

\* Of a Canon: a crop inside the numbers there are, and colour data of a
\* length the code knows, or of at least the longest that it reads from.
GoodNote ==
  /\ \A crop \in Cr2Crop : ~OverflowU32(crop.x) /\ ~OverflowU32(crop.y)
  /\ \A c \in Range(file.note.colour) : c.len \in {582, 653} \/ c.len >= 782

GoodTags ==
  /\ {file.area, file.crop, file.wb, file.settings} \subseteq {"none", "good"}
  /\ ~NoValues(file.black) /\ ~NoValues(file.white) /\ file.bpc < 31
  /\ file.block = "good" /\ file.curve.elems > 0
  /\ file.outs # <<>> => \E i \in DOMAIN file.outs[1] : file.outs[1][i] < file.width
  /\ GoodNote
GoodSize == Dimensions /\ 12 * file.width <= U32Max /\ 3 * Pixels <= U32Max /\ Pixels > 0

(* n bytes from offset are in the file and hold all pixels: 16 bytes for   *)
(* ten of them when padded, or else rows of whole bytes.                   *)
HoldsPixels(offset, n, bits, padded, w) ==
  /\ n >= 0 /\ offset + n <= file.length
  /\ IF padded THEN w % 10 = 0 /\ 10 * n >= 16 * w * file.height
     ELSE (w * bits) % 8 = 0 /\ 8 * n >= bits * w * file.height

HasItsPixels ==
  CASE file.format = "orf" ->
         /\ HasStrips /\ HoldsPixels(StripOffset, Sum32(file.counts), 12, FALSE, file.width)
         /\ 3 * file.width >= 2 * Alignment /\ Pixels % 8 = 0 /\ file.height >= 2
    [] file.format = "d100" -> HasStrips /\ HoldsPixels(StripOffset, Sum32(file.counts), 12, TRUE, file.width + 6)
    [] file.format \in TiffFormats \ {"orf", "d100"} ->
         HasStrips /\ HoldsPixels(StripOffset, Sum32(file.counts), file.bpc, file.bpc = 12 /\ file.compression = "NikonPack", file.width)
    [] file.format = "mrw" -> HoldsPixels(file.offset, MrwLength, IF file.packed THEN 12 ELSE 16, FALSE, file.width)
    [] file.format = "rw2" /\ HasRawOffset -> RealLen >= 0 /\ 14 * RealLen >= 16 * Pixels
    [] file.format = "rw2" /\ ~HasRawOffset ->
         HoldsPixels(file.offset, FirstCount, IF IsPlain THEN 16 ELSE 12, IsPacked, file.width)
    [] file.format = "raf" ->
         HoldsPixels(RafOffset, RafLength, RafBps, FALSE, file.width) /\ 16 * Pixels <= 8 * RafThere
    [] OTHER -> file.offset <= file.length

IsWhole == GoodTags /\ GoodSize /\ HasItsPixels

(* Whatever the format and the packing, of a whole file a picture that is  *)
(* said to be Raw has all of its pixels, in words of 16 bits, and no load  *)
(* panics (load_rawdata of every format).                                  *)
WholeFilesLoadWhole ==
  IsWhole =>
    /\ lphase # "panic"
    /\ (lphase = "ok" /\ raw.type = "Raw") =>
          raw.kind = "Data16" /\ raw.len >= raw.width * raw.height

(* "A 0 value for white isn't valid" (canon/cr2.rs), and rendering divides *)
(* by white less black: no format makes 0 of the level tiff_get_rawdata    *)
(* made of the depth, unless a tag says so.                                *)
WhiteIsNotZero ==
  (lphase = "ok" /\ file.format \in TiffFormats /\ file.bpc > 0 /\ file.white = <<>>) => raw.white # 0
=============================================================================
