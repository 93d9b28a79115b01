------------------------------ MODULE MCFiles -------------------------------
(***************************************************************************)
(* The containers of Canon (CR3 files, which are boxes, and CRW files,     *)
(* which are heaps), the tables of RAF and MRW files, the compressed data  *)
(* of RAF files (strips of samples, and the codes of samples), and how the *)
(* raw picture of a file of each format is loaded.  Each is one part; the  *)
(* others stay as they are.                                                *)
(***************************************************************************)
EXTENDS MCCanon, FujiStrips, FujiCodes, VendorLoads, RecordTables

(* Pictures of Fujifilm for TLC: their headers, and patterns of filters.    *)
(*                                                                         *)
(* Blocks of 12 columns, and odd positions 2 behind the even ones.         *)
Rows(a, b, c, d, e, f) == [y \in 0 .. 5 |-> CASE y = 0 -> a [] y = 1 -> b [] y = 2 -> c
                                               [] y = 3 -> d [] y = 4 -> e [] y = 5 -> f]
Six(a, b, c, d, e, f) == [p \in 0 .. 5 |-> CASE p = 0 -> a [] p = 1 -> b [] p = 2 -> c
                                              [] p = 3 -> d [] p = 4 -> e [] p = 5 -> f]
Two(a, b) == [p \in 0 .. 1 |-> IF p = 0 THEN a ELSE b]

XT(r, b) ==
  LET one == Six("G", "G", r, "G", "G", b)
      two == Six("G", "G", b, "G", "G", r)
  IN Rows(one, two, Six(b, r, "G", r, b, "G"), two, one, Six(r, b, "G", b, r, "G"))

Bayer == {Two(Two("R", "G"), Two("G", "B")), Two(Two("G", "B"), Two("R", "G")),
          Two(Two("B", "G"), Two("G", "R")), Two(Two("G", "R"), Two("B", "G"))}

(* Points that differ in fewer values than those of 12 bits do.             *)
MCPoints == <<2, 5, 8>>

MCPatterns == Bayer \cup {XT("R", "B"), XT("B", "R")}

Header(type, height, w, blocks, pattern) ==
  [known |-> TRUE, raw_type |-> type, raw_height |-> height, raw_width |-> w,
   raw_rounded_width |-> blocks * 12, block_size |-> 12, blocks_in_row |-> blocks,
   total_lines |-> height \div 6, lossless |-> TRUE, as_said |-> TRUE, bases |-> TRUE,
   short |-> {}, cfa |-> pattern]

(* Two strips, one of them narrow, or one; a height that is no multiple of *)
(* six; the pattern of X-Trans, and the one that is taken for it, and 2x2  *)
(* patterns of which two are taken for each other; with loss, with q_bases *)
(* or without; streams that are not good; headers with each field out of   *)
(* range.                                                                  *)
MCPictures ==
  {Header(16, 12, 18, 2, XT("B", "R")), Header(16, 18, 12, 1, XT("B", "R")),
   Header(16, 6, 12, 1, XT("R", "B")), Header(16, 6, 12, 1, Two(Two("R", "G"), Two("G", "B"))),
   Header(0, 12, 24, 2, Two(Two("R", "G"), Two("G", "B")))}
    \cup {Header(0, 8, 18, 2, p) : p \in Bayer}
    \cup {[Header(0, 6, 18, 2, Two(Two("R", "G"), Two("G", "B")))
             EXCEPT !.lossless = FALSE, !.bases = b, !.short = s] :
            b \in BOOLEAN, s \in {{}, {1}}}
    \cup {[Header(16, 12, w, b, XT("R", "B")) EXCEPT !.raw_rounded_width = r, !.known = k,
             !.as_said = a, !.total_lines = l] :
            w \in {6, 12, 13, 18}, b \in 0 .. 3, r \in {12, 24}, k \in BOOLEAN,
            a \in {FALSE}, l \in {0, 2}}

-----------------------------------------------------------------------------
(* Files of every format, a few pixels each: whole and cut short, with the  *)
(* data in one strip, in several and in tiles, plain, packed or compressed, *)
(* with tags of every state.                                                *)
Decoder(ok, w, h) == [ok |-> ok, width |-> w, height |-> h, bpc |-> 14]
NoCurve == [header |-> "lossy", split |-> TRUE, elems |-> 3, there |-> 3, first |-> 1]

NoNote == [sensor |-> <<>>, aspect |-> <<>>, colour |-> <<>>]

Base(format, w, h, bpc, pack, counts) ==
  [format |-> format, skip |-> FALSE, dir |-> TRUE, length |-> 120, width |-> w, height |-> h,
   bpc |-> bpc, compression |-> pack, offset |-> 8, counts |-> counts, tiles |-> <<>>,
   decoded |-> Decoder(TRUE, w, h), black |-> <<>>, white |-> <<>>, builtin |-> <<>>,
   area |-> "none", crop |-> "none", wb |-> "none", settings |-> "none", mnote |-> TRUE, curve |-> NoCurve,
   block |-> "good", packed |-> FALSE, note |-> NoNote, raw_offset |-> Missing, cfa |-> "dir", outs |-> <<>>]

Packs == {"absent", "None", "LJpeg", "NikonQuantized", "NikonPack", "PentaxPack"}

(* What tiff_get_rawdata meets: depths, packings, strips, tiles, no tags.  *)
TiffShapes(format) ==
  {Base(format, w, 2, b, p, c) : w \in {4, 10}, b \in {0, 8, 10, 12, 14, 16, 32, 33}, p \in Packs,
                                 c \in {<<8>>, <<12>>, <<16, 16>>, <<20, 20>>, <<30>>, <<8, 8>>, <<20, 0>>}}
    \cup {[Base(format, 4, 2, 12, p, c) EXCEPT !.tiles = t] : p \in Packs, c \in {<<>>, <<400, 200>>},
            t \in {<<>>, <<<<8, 10>>, <<18, 20>>>>, <<<<8, 10>>, <<110, 20>>>>}}
    \cup {[Base(format, w, h, 16, "None", <<16>>) EXCEPT !.offset = o, !.dir = d, !.length = n] :
            w \in {Missing, 4}, h \in {Missing, 2, 100}, o \in {Missing, 8, 200},
            d \in BOOLEAN, n \in {12, 120}}
    \cup {[Base(format, 4, 2, b, p, <<16>>) EXCEPT !.offset = 200] : b \in {8, 12}, p \in {"None", "LJpeg"}}

WithTags(S) ==
  {[f EXCEPT !.area = a, !.crop = c, !.wb = w] : f \in S, a \in TagStates \ {"short"}, c \in TagStates,
                                                w \in {"none", "good", "short"}}
WithLevels(S) ==
  {[f EXCEPT !.black = b, !.white = w, !.builtin = l, !.mnote = m] : f \in S, b \in {<<>>, <<<<5>>>>, <<<<5, 6, 7>>>>},
     w \in {<<>>, <<<<90>>>>}, l \in {<<>>, <<3, 99>>, <<0, 0>>}, m \in BOOLEAN}
    \cup {[f EXCEPT !.black = <<<<>>>>] : f \in S}
AlsoSkipped(S) == S \cup {[f EXCEPT !.skip = TRUE] : f \in S}
AlsoFailing(S) == S \cup {[f EXCEPT !.decoded = Decoder(FALSE, 0, 0)] : f \in S}
AlsoEither(S) == AlsoSkipped(S) \cup AlsoFailing(S)

Plainly(format) == Base(format, 4, 2, 16, "None", <<16>>)

DngFiles ==
  AlsoEither({f \in TiffShapes("dng") : f.compression = "LJpeg"})
    \cup {f \in TiffShapes("dng") : f.compression \in {"absent", "None", "PentaxPack", "LJpeg"}}
    \cup WithTags({Plainly("dng")}) \cup WithLevels({Plainly("dng")})
    \cup {[Plainly("dng") EXCEPT !.white = <<<<>>>>]}

Curves == [header : {"none", "lossy", "late", "lossless", "unknown"}, split : BOOLEAN,
           elems : {0, 1, 3, 9}, there : {0, 3, 9}, first : {1}]
NefFiles ==
  {f \in TiffShapes("nef") : f.compression \in {"None", "NikonPack", "NikonQuantized", "LJpeg"}}
    \cup AlsoFailing({[Base("nef", w, 2, b, "NikonQuantized", <<8>>) EXCEPT !.curve = c] :
                   w \in {0, 4}, b \in {12, 14, 16}, c \in Curves})
    \cup AlsoSkipped({Base("nef", 4, 2, 12, "NikonQuantized", <<8>>),
                  [Base("nef", 4, 2, 12, "NikonQuantized", <<>>) EXCEPT !.tiles = <<<<8, 10>>>>]})
    \cup WithTags({Plainly("nef")}) \cup WithLevels({Plainly("nef")})
D100Files ==
  {[Base("d100", w, h, b, p, <<n>>) EXCEPT !.length = 60] : w \in {0, 1, 4, 6}, h \in 0 .. 2, b \in {12, 14},
     p \in {"None", "NikonQuantized"}, n \in {0, 8, 16, 24, 32, 48}}

OrfFiles ==
  AlsoFailing({[Base("orf", w, h, b, p, <<n>>) EXCEPT !.length = 400] : w \in {5, 7, 8, 10, 16}, h \in {1, 2, 3, 4}, b \in {12, 16},
     p \in {"absent", "None"}, n \in {10, 12, 13, 16, 24, 26, 30, 32, 40, 46, 48, 50, 60, 64, 72, 96, 128}})
    \cup AlsoSkipped({Base("orf", w, h, 16, "None", <<20>>) : w \in {10, 40, 50}, h \in {1, 6}})
    \cup WithTags({Plainly("orf")}) \cup WithLevels({Plainly("orf")})
    \cup {[Base("orf", 4, 2, 12, "LJpeg", <<>>) EXCEPT !.tiles = <<<<8, 40>>>>]}

PefFiles ==
  AlsoFailing({f \in TiffShapes("pef") : f.compression \in {"None", "PentaxPack", "LJpeg"}})
    \cup WithTags({Plainly("pef")}) \cup WithLevels({Plainly("pef")})
ArwFiles ==
  {f \in TiffShapes("arw") : f.compression \in {"None", "LJpeg"}}
    \cup WithTags({Plainly("arw")}) \cup WithLevels({Plainly("arw")})
    \cup {[Plainly("arw") EXCEPT !.white = <<<<>>>>]}
    \cup {[Plainly("arw") EXCEPT !.settings = s, !.crop = c] : s \in {"good", "short"}, c \in {"none", "good"}}
ErfFiles ==
  {f \in TiffShapes("erf") : f.compression = "None"} \cup WithTags({Plainly("erf")})
    \cup WithLevels({Plainly("erf")}) \cup {[f EXCEPT !.mnote = FALSE] : f \in WithTags({Plainly("erf")})}

BlockFiles(f) ==
  AlsoSkipped({[Base(f, w, h, 12, "absent", <<>>) EXCEPT !.block = b, !.offset = o, !.wb = t, !.packed = p, !.builtin = l] :
     w \in {Missing, 3, 4}, h \in {1, 2, 100}, b \in {"none", "broken", "good"},
     o \in {8, 112, 200}, t \in {"none", "good", "beyond"}, p \in BOOLEAN, l \in {<<>>, <<3, 99>>}})
CanonFiles(f) ==
  AlsoEither({[Base(f, 4, 2, 12, "absent", c) EXCEPT !.offset = o, !.crop = p, !.area = a, !.wb = w, !.mnote = m] :
     c \in {<<>>, <<16>>, <<150>>}, o \in {Missing, 8, 200}, p \in TagStates,
     a \in {"none", "good"}, w \in {"none", "good", "short"}, m \in BOOLEAN})
    \cup WithLevels({Plainly(f)})

(* Maker notes of a Canon: areas of odd size, turned around or cut short;  *)
(* aspects that are unknown or too far out; colour data around each length *)
(* and of each version there is a layout for, and of others.               *)
Colours ==
  {<<>>} \cup {<<[len |-> n, version |-> v, black |-> k]>> :
     n \in {0, 1, 66, 67, 200, 582, 653, 696, 782, 1273, 1816, 2024, 3778}, v \in -5 .. 16, k \in {0, 5}}
Cr2Notes ==
  [sensor : {<<>>, <<0, 9, 9, 0, 0, 1, 2, 8>>, <<0, 9, 9, 0, 0, 1, 2, 8, 9>>, <<0, 9, 9, 0, 0, 8, 2, 8, 9>>,
             <<0, 9, 9, 0, 0, 1, 9, 8, 9>>},
   aspect : {<<>>, <<1, 4, 4, 0>>} \cup {<<r, 4, 4, far, 0>> : r \in {1, 3, 7}, far \in {0, 511}},
   colour : {<<>>, <<[len |-> 1273, version |-> 10, black |-> 5]>>}]
Cr2Files ==
  CanonFiles("cr2")
    \cup {[Base("cr2", 4, 2, 12, "absent", <<16>>) EXCEPT !.note = n] :
            n \in Cr2Notes \cup {[NoNote EXCEPT !.colour = c] : c \in Colours}}
    \cup {[Base("cr2", 4, 2, 12, "absent", <<16>>) EXCEPT !.mnote = FALSE, !.note.colour = c] : c \in Colours}

Rw2Files ==
  AlsoSkipped({[Base("rw2", w, h, b, p, c) EXCEPT !.raw_offset = r, !.length = n, !.white = l, !.black = l] :
     w \in {Missing, 4, 10}, h \in {2, 100}, b \in {12, 32}, p \in {"Unknown", "PanasonicRaw1"},
     c \in {<<>>, <<16>>, <<20>>, <<32>>}, r \in {Missing, 8, 200}, n \in {14, 24, 40, 120}, l \in {<<>>, <<<<90>>>>}})
    \cup {Base("rw2", w, 6, 12, "Unknown", <<16>>) : w \in {40, 50}}
RafFiles ==
  AlsoEither({[Base("raf", w, h, b, "absent", <<n>>) EXCEPT !.cfa = c, !.raw_offset = 8, !.packed = p] :
     w \in {4, 5}, h \in {2, 3}, b \in {0, 10, 12, 14, 16, 31}, c \in {"dir", "nodir", "header"},
     p \in BOOLEAN, n \in {0, 2, 4, 10, 12, 14, 16, 20, 24, 30, 100}})
    \cup {[Base("raf", 4, 2, 12, "absent", c) EXCEPT !.raw_offset = 8, !.outs = <<o>>, !.wb = w, !.black = k, !.crop = a, !.area = a,
             !.offset = s] :
           c \in {<<>>, <<12>>, <<16>>}, o \in {<<>>, <<9, 8>>, <<9, 2, 8>>, <<9, 3>>}, w \in {"none", "good", "short"},
           k \in {<<>>, <<<<>>>>, <<<<4>>>>}, a \in {"none", "good"}, s \in {Missing, 8, 200, 500}}
    \cup {[Plainly("raf") EXCEPT !.width = Missing, !.raw_offset = 8]}

MCRawFiles ==
  [dng |-> DngFiles, nef |-> NefFiles, d100 |-> D100Files, orf |-> OrfFiles, pef |-> PefFiles,
   arw |-> ArwFiles, erf |-> ErfFiles, a100 |-> BlockFiles("a100"), mrw |-> BlockFiles("mrw"),
   cr2 |-> Cr2Files, tif |-> CanonFiles("tif"), rw2 |-> Rw2Files, raf |-> RafFiles]

-----------------------------------------------------------------------------
(* Tables of records for TLC: whole ones, and others with a cell changed   *)
(* or cut off.  Cells are even numbers, so that a size read at any place   *)
(* is of whole cells.                                                      *)
Item(name, data) == [name |-> name, data |-> data]
\* An item, with its length in units of `by` to a cell.
Flat(items, by) == FlattenSeq([k \in 1 .. Len(items) |->
    <<items[k].name, by * Len(items[k].data)>> \o items[k].data])

\* Up to three records of two tags, empty, of four bytes, or longer; and data
\* of an undocumented tag, at the end, or before other records.
RafItems ==
    LET values == {<<>>, <<2, 4>>, <<4, 2, 6>>}
        some == {Item(t, v) : t \in {2, 4}, v \in values}
        data == {Item(RafDataTag, v) : v \in {<<>>, <<2, 6>>, <<2>>}}
    IN {<<>>} \cup {<<a>> : a \in some \cup data} \cup {<<a, b>> : a, b \in some \cup data}
         \cup {<<a, b, c>> : a \in some, b \in {Item(2, <<2, 4>>), Item(4, <<>>)}, c \in data}
         \cup {<<a, b, Item(2, <<2, 4>>)>> : a \in some, b \in data}
         \cup {<<Item(6, <<2, 2>>), a, b>> : a \in some, b \in some}

RafCells(items, behind) ==
    <<0, Len(items)>> \o Flat(items, 2) \o [k \in 1 .. behind |-> 4]

Raf(items, behind) ==
    [format |-> "raf", items |-> items, behind |-> behind, cells |-> RafCells(items, behind), whole |-> TRUE,
     asked |-> "meta", jpeg_offset |-> 148, meta |-> [offset |-> 1, len |-> 2], extra |-> [offset |-> 0, len |-> 0]]

RafTables ==
    LET whole == {Raf(i, n) : i \in RafItems, n \in {0, 6}}
        odd == {[Raf(i, 6) EXCEPT !.whole = FALSE] :
                  i \in {<<Item(2, <<2, 4>>), Item(4, <<4, 2, 6>>)>>,
                         <<Item(RafDataTag, <<2>>), Item(2, <<2, 4>>), Item(4, <<>>)>>}}
    IN whole
       \* The second table, which is there or not.
       \cup {[f EXCEPT !.asked = "extra", !.extra = f.meta] : f \in whole}
       \cup {[f EXCEPT !.asked = "extra", !.extra = f.meta, !.jpeg_offset = 100, !.whole = FALSE] : f \in odd}
       \* A place that is wrong.
       \cup {[f EXCEPT !.meta = [offset |-> o, len |-> n]] : f \in odd, o \in {0, 2, 99}, n \in {0, 2}}
       \cup {[f EXCEPT !.cells = SubSeq(@, 1, Len(@) - n)] : f \in odd, n \in 1 .. 14}
       \cup UNION {{[f EXCEPT !.cells[k] = c] : k \in 2 .. Len(f.cells), c \in {0, 2, 4, RafDataTag}} : f \in odd}

-----------------------------------------------------------------------------
PrdItem == Item(PRD, <<8, 2, 4, 12, Packed, GbrgPattern>>)
OtherPrd == Item(PRD, <<8, 4, 6, 12, 0, 2>>)
WbgItem(d) == Item(WBG, <<2, d, 2, 4, 4, 6>>)
TtwItem == Item(TTW, <<6, 8, 10>>)

\* The blocks in different orders, some twice, with blocks that are skipped.
MrwItems ==
    {<<PrdItem, TtwItem, WbgItem(2)>>, <<TtwItem, WbgItem(26), Item(RIF, <<2>>), PrdItem>>,
     <<OtherPrd, PrdItem, TtwItem, Item(PAD, <<>>)>>, <<WbgItem(2), Item(14, <<2, 4>>), PrdItem>>,
     <<WbgItem(2), TtwItem, WbgItem(4)>>, <<Item(PAD, <<>>), Item(RIF, <<>>), TtwItem>>,
     <<PrdItem, WbgItem(2), Item(PAD, <<0>>)>>, <<WbgItem(250), PrdItem, Item(RIF, <<0>>)>>}

MrwPixels == <<14, 14>>
MrwCells(items) ==
    LET blocks == Flat(items, 1)
    IN <<0, Len(blocks)>> \o blocks \o MrwPixels

Note(in, offset, len) == [in |-> in, offset |-> offset, len |-> len]

Mrw(items, note, checked) ==
    [format |-> "mrw", items |-> items, behind |-> 2, cells |-> MrwCells(items), whole |-> TRUE, pixels |-> MrwPixels,
     ifd |-> TRUE, note |-> note, checked |-> checked]

WholeMrws == {Mrw(i, Note("tags", 1, 2), c) : i \in MrwItems, c \in BOOLEAN}
OddMrws == {[Mrw(i, Note("tags", 1, 2), FALSE) EXCEPT !.whole = FALSE] : i \in MrwItems}

MrwTables ==
    WholeMrws
    \cup {[f EXCEPT !.note = Note(in, o, 1), !.ifd = g] :
            f \in OddMrws, in \in {"none", "old", "tags"}, o \in {0, 2, 90}, g \in BOOLEAN}
    \cup {[f EXCEPT !.cells = SubSeq(@, 1, Len(@) - n)] : f \in OddMrws, n \in 0 .. 8}
    \cup UNION {{[f EXCEPT !.cells[k] = c] : k \in 1 .. Len(f.cells), c \in {0, 1, 3, 40}} :
                   f \in OddMrws}

MCTableFiles == RafTables \cup MrwTables

-----------------------------------------------------------------------------
(* The run: one part at a time.                                            *)
VARIABLE part

Parts == {"boxes", "heaps", "strips", "codes", "loads", "tables"}

One(inputs) == CHOOSE input \in inputs : TRUE

(* The parts that are not of the run have one input, and are initialised    *)
(* once, before the one that is.                                           *)
MCInit ==
    /\ part \in Parts
    /\ part # "boxes" => (mp4 = One(Mp4Files) /\ Cr3Init)
    /\ part # "heaps" => (crw = One(CrwFilesRead) /\ CrwInit)
    /\ part # "strips" => (picture = One(Pictures) /\ StripsInit)
    /\ part # "codes" => (depth = Min(Depths) /\ q_base = 0 /\ qtable = 3 /\ CodesInit)
    /\ part # "loads" => (file = One(RawFiles.mrw) /\ LoadsInit)
    /\ part # "tables" => (table = One(TableFiles) /\ TablesInit)
    /\ CASE part = "boxes" -> Cr3Init
         [] part = "heaps" -> CrwInit
         [] part = "strips" -> StripsInit
         [] part = "codes" -> CodesInit
         [] part = "loads" -> LoadsInit
         [] part = "tables" -> TablesInit

canonVars == <<cr3_vars, crw_vars>>
fujiVars == <<stripsVars, codesVars>>
ownVars == <<loadVars, table_vars>>

MCNext ==
    /\ UNCHANGED part
    /\ \/ part = "boxes" /\ Cr3Next /\ UNCHANGED <<crw_vars, fujiVars, ownVars>>
       \/ part = "heaps" /\ CrwNext /\ UNCHANGED <<cr3_vars, fujiVars, ownVars>>
       \/ part = "strips" /\ StripsStep /\ UNCHANGED <<canonVars, codesVars, ownVars>>
       \/ part = "codes" /\ CodesStep /\ UNCHANGED <<canonVars, stripsVars, ownVars>>
       \/ part = "loads" /\ LoadsStep /\ UNCHANGED <<canonVars, fujiVars, table_vars>>
       \/ part = "tables" /\ TablesStep /\ UNCHANGED <<canonVars, fujiVars, loadVars>>

(* A picture of one strip and of the pattern of X-Trans.                   *)
MCXTransPicture == {Header(16, 6, 12, 1, XT("R", "B"))}
MCStripsSpec == part = "strips" /\ MCInit /\ [][MCNext]_<<part, canonVars, fujiVars, ownVars>>

MCSpec == MCInit /\ [][MCNext]_<<part, canonVars, fujiVars, ownVars>>
=============================================================================
