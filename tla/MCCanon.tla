------------------------------ MODULE MCCanon -------------------------------
(***************************************************************************)
(* Files of boxes for TLC: a CR3 of three tracks, films and sounds with    *)
(* each kind of entry, the same cut short, and the same with one edit: a   *)
(* box longer, shorter, without a length or with a wide one, of another    *)
(* version or name, with other values, twice, swapped, or not there.       *)
(***************************************************************************)
EXTENDS Cr3Files, CrwFiles

\* Boxes as they are, and edits of files.  TLC compares two records by the
\* field whose name it met first, and x is of one type for each name only:
\* nothing TLC reads before may be called x.
B(d, name, own) == [d |-> d, name |-> name, head |-> 2, own |-> own, extra |-> 0, wide |-> FALSE,
                    zero |-> FALSE, v |-> 0, n |-> 0, x |-> "none", r |-> "none"]
X(d, name, own, x) == [B(d, name, own) EXCEPT !.x = x]
N(d, name, own, n, x) == [B(d, name, own) EXCEPT !.n = n, !.x = x]
Uuid(d) == [X(d, "uuid", 0, "canon") EXCEPT !.head = 3]

Trak(entry, kids) ==
    <<B(1, "trak", 0), B(2, "tkhd", 5), B(2, "mdia", 0), X(3, "mdhd", 5, 1), X(3, "hdlr", 4, entry.t),
      B(3, "minf", 0), B(4, "stbl", 0), N(5, "stsd", 2, 1, "none"), B(6, entry.name, entry.own)>>
    \o kids
    \o <<N(5, "stts", 4, 1, "none"), N(5, "stsz", 4, 1, 0), N(5, "stco", 3, 1, "none")>>

Craw == [t |-> "vide", name |-> "CRAW", own |-> 3]
Canon == <<Uuid(1), B(2, "CNCV", 1), N(2, "CTBO", 7, 3, <<<<1, 1>>, <<2, 2>>, <<0, 0>>>>),
           B(2, "CMT1", 1), B(2, "CMT3", 2), N(2, "THMB", 6, 2, "none")>>
Cr3 == <<X(0, "ftyp", 2, "crx "), B(0, "moov", 0)>> \o Canon \o <<X(1, "mvhd", 5, 1)>>
       \o Trak(Craw, <<B(7, "JPEG", 0), B(7, "CMP1", 1)>>) \o Trak(Craw, <<>>) \o Trak(Craw, <<B(7, "CMP1", 1)>>)
       \o <<B(0, "mdat", 2)>>
Movie(entry, kids) ==
    <<X(0, "ftyp", 3, "isom"), B(0, "moov", 0), X(1, "mvhd", 5, 1)>>
    \o Trak(entry, kids)
    \o <<B(1, "mvex", 0), B(2, "mehd", 2), B(1, "pssh", 1), B(1, "udta", 0), B(2, "meta", 1), B(3, "ilst", 0),
         B(4, "item", 0), B(5, "data", 1), B(5, "data", 1), B(4, "covr", 0), B(5, "data", 1),
         B(0, "free", 1)>>
Video(name) == [t |-> "vide", name |-> name, own |-> 2]
Audio(name) == [t |-> "soun", name |-> name, own |-> 2]
Config(name) == N(7, name, 1, 1, "none")
Sinf == <<B(7, "sinf", 0), B(8, "frma", 1), B(8, "schm", 4), B(8, "schi", 0), N(9, "tenc", 2, 2, "none")>>

Film == Movie(Video("avc1"), <<Config("avcC")>>)
WholeCr3s ==
    {Cr3,
     Film, Movie(Video("encv"), Sinf \o <<Config("vpcC")>>),
     Movie(Audio("mp4a"), <<Config("esds")>>), Movie(Audio("enca"), <<Config("dfLa")>> \o Sinf),
     Movie(Audio(".mp3"), <<B(7, "wave", 0), B(8, "esds", 1)>>),
     Movie([t |-> "text", name |-> "text", own |-> 1], <<>>)}

\* The boxes that are edited: of the CR3 all but those in its second track,
\* of the film what the CR3 has not, of the others the entries.
Edited(f) ==
    LET traks == SetToSortSeq({i \in 1 .. Len(f) : f[i].name = "trak"}, <)
    IN CASE f = Cr3 -> (1 .. Len(f)) \ Inside(f, traks[2])
         [] f = Film -> {i \in 1 .. Len(f) : f[i].d >= 6 \/ f[i].name \notin {Cr3[j].name : j \in 1 .. Len(Cr3)}}
         [] OTHER -> {i \in 1 .. Len(f) : f[i].d >= 6}

\* One edit at the box i.
Drop(f, i) == SelectSeq([k \in 1 .. Len(f) |-> <<k, f[k]>>], LAMBDA e : e[1] \notin {i} \cup Inside(f, i))
Boxes(es) == [k \in 1 .. Len(es) |-> es[k][2]]
Insert(f, i, b) == SubSeq(f, 1, i - 1) \o <<b>> \o SubSeq(f, i, Len(f))
After1(f, i) == i + 1 + Cardinality(Inside(f, i))
Swap(f, i) ==
    LET j == After1(f, i)
        k == After1(f, j)
    IN SubSeq(f, 1, i - 1) \o SubSeq(f, j, k - 1) \o SubSeq(f, i, j - 1) \o SubSeq(f, k, Len(f))
CanSwap(f, i) == After1(f, i) <= Len(f) /\ f[After1(f, i)].d = f[i].d

Pad(d) == [B(d, "pad", 1) EXCEPT !.head = 0]
Configs == DOMAIN ConfigOf["video"] \cup DOMAIN ConfigOf["audio"]
LeafBoxes == {"ftyp", "CNCV", "CTBO", "CMT1", "CMT3", "THMB", "mvhd", "tkhd", "mdhd", "hdlr", "stts", "stsz", "stco",
            "mehd", "pssh", "data", "frma", "schm", "tenc", "free", "mdat", "CMP1", "JPEG"} \cup Configs
SoundEntries == {"mp4a", "enca", ".mp3"}
Versions(b) ==
    IF b.name \in SoundEntries
    THEN {[b EXCEPT !.v = 1, !.own = @ + 1], [b EXCEPT !.v = 2, !.own = @ + 1], [b EXCEPT !.v = 3]}
    ELSE IF b.name \in {"mvhd", "tkhd", "mdhd", "hdlr", "mehd", "stts"}
    THEN {[b EXCEPT !.v = 1], [b EXCEPT !.v = 1, !.own = @ + 1], [b EXCEPT !.v = 3]} ELSE {}
Lengths(b) ==
    (IF b.name \in LeafBoxes THEN {[b EXCEPT !.own = @ + 1]} ELSE {}) \cup
    (IF b.name \in {"stts", "stsz", "stco", "CTBO", "stsd", "THMB"} THEN {[b EXCEPT !.n = @ + 1], [b EXCEPT !.n = 0]} ELSE {})
Results(b) == IF b.name \in Configs \cup {"data", "ftyp"} THEN {[b EXCEPT !.r = "invalid"], [b EXCEPT !.r = "unsupported"]} ELSE {}
Names(b) == CASE b.name = "stco" -> {[b EXCEPT !.name = "co64"], [b EXCEPT !.name = "stss"]}
              [] b.name = "CMP1" -> {[b EXCEPT !.name = "JPEG"]}
              [] b.name = "stts" -> {[b EXCEPT !.name = "stsc"], [b EXCEPT !.name = "ctts"]}
              [] OTHER -> {}
BoxValues(b) == CASE b.name \in {"mvhd", "mdhd"} -> {[b EXCEPT !.x = 0]}
               [] b.name = "ftyp" -> {[b EXCEPT !.x = "none"]}
               [] b.name = "uuid" -> {[b EXCEPT !.x = "other"]}
               [] b.name = "hdlr" -> {[b EXCEPT !.x = "meta"], [b EXCEPT !.x = "soun"]}
               [] b.name \in {"CMT1", "CMT3"} -> {[b EXCEPT !.x = "short"], [b EXCEPT !.x = "bad"]}
               [] b.name = "THMB" -> {[b EXCEPT !.x = "zero"]}
               [] b.name = "stsz" -> {[b EXCEPT !.x = 2, !.own = 3]}
               [] OTHER -> {}
Changed(b) ==
    {[b EXCEPT !.extra = e] : e \in {-1, 1, 2}} \cup
    {[b EXCEPT !.zero = TRUE], [b EXCEPT !.wide = TRUE, !.head = @ + 1]} \cup
    Versions(b) \cup Lengths(b) \cup Results(b) \cup Names(b) \cup BoxValues(b)

Edts(f, i, x) == Insert(Insert(f, i, N(3, "elst", 5, 1, x)), i, B(2, "edts", 0))

Edits(f, i) ==
    {[f EXCEPT ![i] = b] : b \in Changed(f[i])} \cup
    {Boxes(Drop(f, i)), Insert(f, i, B(f[i].d, "free", 1)),
     SubSeq(f, 1, i) \o SubSeq(f, i, i + Cardinality(Inside(f, i))) \o SubSeq(f, After1(f, i), Len(f))} \cup
    (IF After1(f, i) = Len(f) + 1 \/ f[Min({After1(f, i), Len(f)})].d < f[i].d THEN {Insert(f, After1(f, i), Pad(f[i].d))} ELSE {}) \cup
    (IF CanSwap(f, i) THEN {Swap(f, i)} ELSE {}) \cup
    (IF f[i].name = "mvhd" THEN {Insert(f, i, X(1, "uuid", 0, "other"))} ELSE {}) \cup
    (IF f[i].name = "mdia" THEN {Edts(f, i, "some"), Edts(f, i, "empty")} ELSE {})

MCMp4Files ==
    {Laid(f, cut) : f \in WholeCr3s, cut \in {0, 1, 4}} \cup
    {Laid(f, 0) : f \in UNION {UNION {Edits(b, i) : i \in Edited(b)} : b \in WholeCr3s}}

-----------------------------------------------------------------------------
(***************************************************************************)
(* CRW files for TLC: heaps with what the code looks for, and the same     *)
(* with one cell changed.                                                  *)
(***************************************************************************)
Num(n) == [tag |-> "number", n |-> n, inrec |-> FALSE, at |-> 0, len |-> 0]
R(tag, at, len) == [tag |-> tag, n |-> 0, inrec |-> FALSE, at |-> at, len |-> len]
I(tag, n) == [tag |-> tag, n |-> n, inrec |-> TRUE, at |-> 0, len |-> 0]

\* The heap of these parts: records with data of their own, or without.
Part(tag, data) == [tag |-> tag, data |-> data, inrec |-> FALSE]
InRecord(tag, n) == [tag |-> tag, data |-> <<Num(n)>>, inrec |-> TRUE]
DataOf(parts) == FlattenSeq([k \in 1 .. Len(parts) |-> IF parts[k].inrec THEN <<>> ELSE parts[k].data])
HeapOf(parts) ==
    DataOf(parts) \o <<Num(Len(parts))>>
    \o [k \in 1 .. Len(parts) |->
          IF parts[k].inrec THEN I(parts[k].tag, parts[k].data[1].n)
          ELSE R(parts[k].tag, Len(DataOf(SubSeq(parts, 1, k - 1))), Len(parts[k].data))]
    \o <<Num(Len(DataOf(parts)))>>

Camera == HeapOf(<<Part("RawMakeModel", <<Num(1)>>)>>)
Exif(parts) == HeapOf(<<Part("DecoderTable", <<Num(0)>>)>> \o parts)
WholeCrw(parts) ==
    <<Num(0)>> \o
    HeapOf(<<Part("RawImageData", <<Num(7)>>), Part("JpegImage", <<Num(8)>>),
             Part("ImageProps", HeapOf(<<Part("ImageInfo", <<Num(3)>>), Part("CameraObject", Camera),
                                         Part("ExifInformation", Exif(parts))>>))>>)

Settings == Part("CameraSettings", <<Num(1), Num(2), Num(3)>>)
ExifParts ==
    {<<Part("CanonModelID", <<Num(5)>>), Part("ColourInfo2", <<Num(600)>>), Settings,
       Part("FocalLength", <<Num(1), Num(2)>>)>>,
     <<InRecord("CanonModelID", 5), Part("ColourInfo1", <<Num(1), Num(1), Num(1)>>), InRecord("SerialNumber", 1)>>,
     <<Part("ColourInfo1", <<Num(1), Num(1), Num(1)>>), Part("ColourInfo2", <<Num(276)>>)>>,
     <<Part("ShotInfo", <<Num(2)>>), Part("WhiteBalanceTable", <<Num(1)>>), Part("OwnerName", <<Num(1)>>),
       Part("ColourInfo1", <<Num(1), Num(1)>>)>>}
WholeCrws == {WholeCrw(parts) : parts \in ExifParts}

\* The cells that are changed: all of a file with two parts, whatever is in
\* the Exif heap of the others.
ChangedCells(parts) ==
    IF Len(parts) = 2 THEN 1 .. Len(WholeCrw(parts))
    ELSE {4 + Len(Camera) + k : k \in 1 .. Len(Exif(parts))}

\* A cell changed: a number or an address by one, a length, what a record is.
Changes(c) ==
    IF c.tag = "number" THEN {[c EXCEPT !.n = @ + 1], [c EXCEPT !.n = 0]}
    ELSE {[c EXCEPT !.at = @ + 1], [c EXCEPT !.at = 0], [c EXCEPT !.at = U32Values - 2], [c EXCEPT !.len = @ + 1],
          [c EXCEPT !.len = @ - 1], [c EXCEPT !.inrec = ~@], [c EXCEPT !.tag = "Other"],
          [c EXCEPT !.tag = "ImageProps"]}

File(cells, header, order, checked) == [cells |-> cells, header |-> header, order |-> order, checked |-> checked]

MCCrwFiles ==
    {File(p, h, o, FALSE) : p \in WholeCrws, h \in {0, 1, 99}, o \in {"II", "bad"}} \cup
    {File(SubSeq(p, 1, Len(p) - n), 1, "II", FALSE) : p \in WholeCrws, n \in 1 .. 3} \cup
    UNION {LET p == WholeCrw(parts)
           IN UNION {{File([p EXCEPT ![k] = c], 1, "II", FALSE) : c \in Changes(p[k])} : k \in ChangedCells(parts)} :
             parts \in ExifParts} \cup
    \* In a build that checks for overflow, the addresses that may overflow.
    UNION {{File([p EXCEPT ![k] = [@ EXCEPT !.at = U32Values - 2, !.len = @ + n]], 1, "II", TRUE) :
               k \in {j \in 1 .. Len(p) : p[j].tag # "number"}, n \in 0 .. 1} : p \in WholeCrws} \cup
    \* A heap that may be in itself.
    UNION {{File([p EXCEPT ![k] = [@ EXCEPT !.at = 0, !.len = n]], 1, "II", FALSE) :
               k \in {j \in 1 .. Len(p) : p[j].tag \in HeapTags}, n \in 1 .. Len(p)} : p \in WholeCrws}
=============================================================================
