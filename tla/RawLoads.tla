------------------------------ MODULE RawLoads ------------------------------
(***************************************************************************)
(* What the raw pictures of all formats have in common: a RawImage, and    *)
(* how tiff_get_rawdata fills it in from a directory of a TIFF file (where *)
(* the data are, how many bytes, what they are taken for).  What each      *)
(* format makes of it is in VendorLoads.                                   *)
(*                                                                         *)
(* Data are known by their number only; that decoders and unpacking put    *)
(* the right values at the right places is for Unpack, Ljpeg, Tiles and    *)
(* the others.  A panic is that of a build that checks for overflow.       *)
(***************************************************************************)
EXTENDS Integers, Sequences, SequencesExt, FiniteSetsExt, Folds

CONSTANTS RawFiles,     \* of each format, what its files may be
          U32Max        \* u32::MAX

Missing == -1                                    \* a tag that is not there
TiffFormats == {"dng", "nef", "d100", "orf", "pef", "arw", "erf"}
Formats == TiffFormats \cup {"a100", "cr2", "tif", "mrw", "rw2", "raf"}

(* How a tag of several values is: with all of them, with too few, or with *)
(* values that overflow when one is added to another.                      *)
TagStates == {"none", "good", "short", "beyond"}

(* `decoded' is what the decoder of the format makes of the data.  Levels  *)
(* are <<>> without the tag, and <<v>> with the sequence of its values v.  *)
(* `note' is what a maker note of a Canon has: the sensor, the aspect and  *)
(* the colour data, which are <<>> or <<c>> (CanonTags).  `settings' is the *)
(* camera settings of a Sony, which the aspect ratio is read from.         *)
RawFileOK(f) ==
  /\ f.format \in Formats /\ f.skip \in BOOLEAN /\ f.dir \in BOOLEAN
  /\ f.length \in 0 .. U32Max
  /\ {f.width, f.height, f.offset} \subseteq {Missing} \cup 0 .. U32Max
  /\ \A i \in DOMAIN f.counts : f.counts[i] \in 0 .. U32Max
  /\ {f.area, f.crop, f.wb, f.settings} \subseteq TagStates
  /\ Len(f.black) <= 1 /\ Len(f.white) <= 1
  /\ Len(f.note.colour) <= 1

ASSUME RawLoadsAssumption ==
  U32Max \in Nat /\ \A format \in Formats : \A f \in RawFiles[format] : f.format = format /\ RawFileOK(f)

VARIABLES file,
          lphase,       \* what is next, or how the load ended
          raw           \* the RawImage, as far as it is known

loadVars == <<file, lphase, raw>>

(* zeros: values that are all 0, whatever the data.  area, crop, neutral:  *)
(* the active area, the user crop and the white balance that were set.     *)
NoRaw == [kind |-> "none", len |-> 0, type |-> "Raw", compression |-> "None", bpc |-> 0,
          width |-> 0, height |-> 0, white |-> 0, black |-> 0, zeros |-> FALSE,
          area |-> "none", crop |-> FALSE, neutral |-> FALSE]

LoadsInit == (\E f \in Formats : file \in RawFiles[f]) /\ lphase = "called" /\ raw = NoRaw

Ends(how) == lphase' = how /\ UNCHANGED <<file, raw>>
Goes(next, r) == lphase' = next /\ raw' = r /\ UNCHANGED file

-----------------------------------------------------------------------------
(* The lengths load_buffer8 may return: after a failed seek it reads on    *)
(* from wherever the cursor is.  That read() may also give fewer bytes     *)
(* than there are is in ContainerIo, not here.                             *)
load_buffer8(offset, n) ==
  LET from == IF offset <= file.length THEN {offset} ELSE 0 .. file.length
  IN {Min({n, file.length - p}) : p \in from}

White(bpc) == IF bpc >= 16 THEN 65535 ELSE (2 ^ bpc) - 1

(* to_quad, of which the first value is kept; it takes no empty slice.     *)
NoValues(levels) == levels = <<<<>>>>
Level(levels, default) ==
  IF levels = <<>> \/ NoValues(levels) THEN default ELSE levels[1][1] % 65536

Padded12 == {"NikonPack", "Olympus", "PanasonicRaw1"}

(* unpack_be12to16 and unpack_le12to16 of n bytes: the values, or Missing. *)
Unpacked12(n, padded) ==
  CASE padded /\ n % 16 = 0 -> 10 * (n \div 16)
    [] ~padded /\ n % 3 = 0 -> 2 * (n \div 3)
    [] OTHER -> Missing

PackedBlock(bpc, pack, w) ==
  CASE bpc = 10 -> 5 * (w \div 4)
    [] bpc = 14 -> 7 * (w \div 4)
    [] OTHER -> 3 * (w \div 2) + (IF pack \in Padded12 THEN w \div 10 ELSE 0)

(* unpack_from_reader, of a reader with `there' bytes left: the values, or *)
(* Missing for an error.                                                   *)
unpack_from_reader(w, h, bpc, pack, byte_len, there) ==
  LET size == PackedBlock(bpc, pack, w)
      len == Min({byte_len, size * h})
      rows == IF size = 0 THEN 0 ELSE (len + size - 1) \div size
      row == CASE bpc = 12 -> Unpacked12(size, pack \in Padded12)
               [] bpc # 12 /\ w * bpc <= 8 * size -> w
               [] OTHER -> Missing
  IN IF rows > 0 /\ (rows * size > there \/ row = Missing) THEN Missing ELSE rows * row

-----------------------------------------------------------------------------
(* Only the first strip's offset is used, for as many bytes as there are   *)
(* in all strips.                                                          *)
Sum32(s) == LET n == FoldSeq(+, 0, s) IN IF n > U32Max THEN Missing ELSE n
HasStrips == file.offset # Missing /\ file.counts # <<>> /\ Sum32(file.counts) # Missing
TileBytes == [i \in DOMAIN file.tiles |-> file.tiles[i][2]]

FirstStrip == IF HasStrips THEN file.counts[1] ELSE Max({0, Sum32(TileBytes)}) \* mutant: not all strips

ByteLen == IF HasStrips THEN Sum32(file.counts) ELSE Max({0, Sum32(TileBytes)})
StripOffset == Max({0, file.offset})

Pixels == file.width * file.height
Twice == 2 * Pixels
Dimensions == file.width # Missing /\ file.height # Missing
Plausible == Pixels <= U32Max \div 2 /\ ByteLen <= file.length /\ file.bpc <= 32

(* An ORF that is too short for words of 16 bits is a packed one.          *)
IsPackedOrf == file.format = "orf" /\ file.compression # "absent" /\ ByteLen < Twice
Packing == CASE IsPackedOrf -> "Olympus"
             [] ~IsPackedOrf /\ file.compression = "absent" -> "None"
             [] OTHER -> file.compression
ActualBpc == IF IsPackedOrf THEN 12 ELSE file.bpc

(* 12 or 14 bits in words of 16.                                           *)
InWords == ActualBpc = 16 \/ (ActualBpc \in {12, 14} /\ Packing = "None" /\ ByteLen = Twice)
IsCompressed == Packing \notin {"None", "NikonPack", "PentaxPack"}

TiffImage(kind, len) ==
  [NoRaw EXCEPT !.kind = kind, !.len = len, !.bpc = ActualBpc,
     !.type = IF IsCompressed THEN "CompressedRaw" ELSE "Raw",
     !.compression = IF IsCompressed THEN Packing ELSE "None",
     !.width = file.width, !.height = file.height, !.white = White(ActualBpc)]

(* A tile that is not in the file is an empty buffer.                      *)
TileLength(t) == IF t[1] + t[2] > file.length THEN 0 ELSE t[2]

(* The images there may be; with Missing values it is an error.            *)
TiffImages ==
  LET there == file.length - StripOffset
      tiled == ~HasStrips /\ file.tiles # <<>>
  IN CASE IsCompressed /\ tiled ->
            {TiffImage("Tiled", FoldSeq(LAMBDA t, n : n + TileLength(t), 0, file.tiles))}
       [] IsCompressed /\ ~tiled ->
            {TiffImage("Data8", n) : n \in load_buffer8(StripOffset, ByteLen)}
       [] ~IsCompressed /\ InWords -> {TiffImage("Data16", ByteLen \div 2)}
       [] ~IsCompressed /\ ~InWords /\ ActualBpc = 8 ->
            {TiffImage("Data16", n) : n \in load_buffer8(StripOffset, ByteLen)}
       [] ~IsCompressed /\ ~InWords /\ ActualBpc \in {10, 12, 14} ->
            {TiffImage("Data16", IF there < 0 THEN Missing
               ELSE unpack_from_reader(file.width, file.height, ActualBpc, Packing, ByteLen, there))}
       [] OTHER -> {TiffImage("Data16", Missing)}

(* tiff_get_rawdata and tiff_get_rawdata_with_endian.  The level of white  *)
(* is 1 << bpc, in a u32.                                                  *)
TiffGetRawData ==
  /\ lphase = "called" /\ file.format \in TiffFormats
  /\ \/ ~(file.dir /\ Dimensions /\ Plausible) /\ Ends("error")
     \/ /\ file.dir /\ Dimensions /\ Plausible
        /\ \E r \in TiffImages :
             \/ r.len = Missing /\ Ends("error")
             \/ r.len # Missing /\ r.bpc = 32 /\ Ends("panic")
             \/ r.len # Missing /\ r.bpc # 32 /\ Goes("loaded", r)
=============================================================================
