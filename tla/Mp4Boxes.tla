------------------------------ MODULE Mp4Boxes ------------------------------
(***************************************************************************)
(* The parser of ISO media files (mp4/parse), as CR3 uses it: one reader   *)
(* for the whole file, and boxes in boxes, each of which takes the bytes   *)
(* its header announces from the box around it.  A reader of a box goes    *)
(* through the boxes in it, and each has to be read to its end, or the     *)
(* next header is taken from the middle of something.                      *)
(*                                                                         *)
(* A file is the sequence of its boxes in the order of their headers, d    *)
(* being how deep each is.  A cell stands for a field: a header has two    *)
(* (size and name), three when the size is wide or when a uuid follows;    *)
(* own are the cells of the box before the boxes in it, and extra what its *)
(* size claims beyond what it has.  A box "pad" is no box: cells without a *)
(* header, for padding.  What is kept of a box is its index in the file.   *)
(***************************************************************************)
EXTENDS Integers, Sequences, FiniteSetsExt, SequencesExt

CONSTANT Mp4Files    \* the files, as Laid gives them

VARIABLES
    mp4,      \* the file that is read
    pos,      \* the cursor of its reader
    open,     \* the file and the boxes being read, outermost first
    ctx,      \* the MediaContext
    track,    \* the Track being read
    outcome   \* "reading", "ok", an error, "panic", or "lost": a header was
              \* taken from where no box begins

mp4_vars == <<mp4, pos, open, ctx, track, outcome>>

None == 0    \* no box

-----------------------------------------------------------------------------
(* The file, before it is read. *)

BoxCells(b) == b.head + b.own

\* The boxes in the box at i, at any depth, are those that follow it deeper,
\* up to the first that does not.
Inside(boxes, i) ==
    LET behind == {j \in i + 1 .. Len(boxes) : boxes[j].d <= boxes[i].d}
    IN (i + 1 .. Len(boxes)) \ (IF behind = {} THEN {} ELSE Min(behind) .. Len(boxes))

\* The file of these boxes, short of cut cells at its end.
Laid(boxes, cut) ==
    LET n == Len(boxes)
        start[i \in 1 .. n + 1] == IF i = 1 THEN 0 ELSE start[i - 1] + BoxCells(boxes[i - 1])
    IN [boxes |-> boxes,
        at    |-> [i \in 1 .. n |-> start[i]],
        size  |-> [i \in 1 .. n |-> start[Max({i} \cup Inside(boxes, i)) + 1] - start[i] + boxes[i].extra],
        len   |-> start[n + 1] - cut]

NoTrack == [box |-> None, type |-> "unknown", tkhd |-> None, mdhd |-> None, elst |-> None,
            stsd |-> [box |-> None, entries |-> <<>>], stts |-> None, stsc |-> None, stsz |-> None, stco |-> None,
            stss |-> None, ctts |-> None]

NoContext == [moov |-> FALSE, ftyp |-> "none", brand |-> "none", mvhd |-> None, tracks |-> <<>>, mvex |-> None,
              pssh |-> <<>>, userdata |-> "none", meta |-> <<>>,
              craw |-> None, cncv |-> None, offsets |-> <<>>, thumbnail |-> None,
              metas |-> [name \in {"CMT1", "CMT2", "CMT3", "CMT4"} |-> None]]

\* A box being read: the reader it has, the end it claims, and what its
\* reader has found in it so far.
Opened(i, in, end) == [box |-> i, in |-> in, end |-> end, found |-> <<>>]

Mp4Init ==
    /\ mp4 \in Mp4Files
    /\ pos = 0
    /\ open = <<Opened(None, "mp4", mp4.len)>>
    /\ ctx = NoContext
    /\ track = NoTrack
    /\ outcome = "reading"

-----------------------------------------------------------------------------
(* The reader, and the takes around it. *)

Top == Last(open)
Box(i) == mp4.boxes[i]

\* What can be read ends with the file and with each of the boxes.
Limit(boxes) == Min({mp4.len} \cup {boxes[k].end : k \in 1 .. Len(boxes)})

\* The box whose header is at the cursor, if there is one.
Ahead == {i \in 1 .. Len(mp4.boxes) : mp4.at[i] = pos /\ Box(i).name # "pad"}
Following == CHOOSE i \in Ahead : TRUE

NarrowHeader(i) == 2      \* mutant: a wide size is taken for a narrow one

HeaderCells(i) == IF Box(i).wide THEN 3 ELSE 2
EndOf(i) == mp4.at[i] + mp4.size[i]

\* The end of what there is in a header ends the list of boxes, whatever of
\* the header was there.
AtEnd ==
    \/ Limit(open) - pos < 2
    \/ Ahead # {} /\ Limit(open) - pos < HeaderCells(Following)

\* A uuid is read from a box that is big enough, or what there is of it.
WholeUuid(i) ==
    LET end == pos + HeaderCells(i) + 1
    IN Box(i).name = "uuid" /\ end <= EndOf(i) /\ end <= Limit(open)
Content(i) == pos + HeaderCells(i) + (IF WholeUuid(i) THEN 1 ELSE 0)

\* What is left after n cells of the content of i, or after all there is.
Room(i) == Min({EndOf(i), Limit(open)})
After(i, n) == Min({Content(i) + n, Room(i)})
Short(i, n) == Content(i) + n > Room(i)

\* The list of boxes in the one being read goes on.
GoesOn(in) ==
    /\ outcome = "reading"
    /\ Top.in = in
    /\ in = "stsd" => (Len(Top.found) = 0 \/ Len(Top.found) # Box(Top.box).n)

\* Its next box is one of these.
Reads(in, names) ==
    /\ GoesOn(in)
    /\ ~AtEnd
    /\ Ahead # {}
    /\ ~Box(Following).zero /\ mp4.size[Following] >= HeaderCells(Following)
    /\ Box(Following).name \in names

-----------------------------------------------------------------------------
(* Errors.  They end the parsing, but for those below udta, which read_moov *)
(* keeps, those of a cover, and the entries of a stsd that are unsupported. *)

Found(stack, x) == [stack EXCEPT ![Len(stack)].found = Append(@, x)]

Fail(error, to) == /\ outcome' = error
                   /\ pos' = to
                   /\ UNCHANGED <<open, ctx, track>>

\* The reader of a box that caught an error, or one that ended, goes on with
\* the box around it.
Catching(stack, error, to) ==
    {k \in 1 .. Len(stack) :
        \/ stack[k].in = "udta"
        \/ stack[k].in = "covr" /\ to = stack[k].end
        \/ stack[k].in \in {"video", "audio"} /\ error = "unsupported"}

Raise(stack, error, to) ==
    IF Catching(stack, error, to) = {}
    THEN Fail(error, to)
    ELSE LET k == Max(Catching(stack, error, to))
             around == SubSeq(stack, 1, k - 1)
             rest == IF stack[k].in = "covr" THEN to ELSE Min({stack[k].end, Limit(around)})
         IN IF rest < stack[k].end
            THEN Fail("invalid", rest)
            ELSE /\ pos' = rest
                 /\ open' = IF stack[k].in \in {"video", "audio"}
                            THEN Found(around, [box |-> stack[k].box, kind |-> "unknown"])
                            ELSE around
                 /\ ctx' = IF stack[k].in = "udta"
                           THEN [ctx EXCEPT !.userdata = "error", !.meta = <<>>] ELSE ctx
                 /\ UNCHANGED <<track, outcome>>

\* check_parser_state!, which these readers do without.
Unchecked == {"mvex", "schi", "wave", "CRAW", "craw"}

\* The box i in the one on top was read as far as to.
Done(i, error, to, stack2, ctx2, track2) ==
    IF error # "none" THEN Raise(open, error, to)
    ELSE IF to < EndOf(i) /\ Top.in \notin Unchecked THEN Raise(open, "invalid", to)
    ELSE /\ pos' = to
         /\ open' = stack2 /\ ctx' = ctx2 /\ track' = track2
         /\ UNCHANGED outcome

Keep(i, error, to) == Done(i, error, to, open, ctx, track)
KeepInContext(i, error, to, ctx2) == Done(i, error, to, open, ctx2, track)
KeepInTrack(i, error, to, track2) == Done(i, error, to, open, ctx, track2)
KeepFound(i, error, to, x) == Done(i, error, to, Found(open, x), ctx, track)

Eof(i, n) == IF Short(i, n) THEN "eof" ELSE "none"

-----------------------------------------------------------------------------
(* Boxes that are read at once.  v is a version, n a count, x a value that  *)
(* a reader tells apart, r what comes of a content that is not modelled.    *)

ReadFtyp ==
    /\ Reads("mp4", {"ftyp"})
    /\ LET i == Following
       IN KeepInContext(i, IF Short(i, 2) THEN "eof" ELSE Box(i).r, Room(i),
                        [ctx EXCEPT !.ftyp = Box(i).x])

\* The time fields of version 1 are wider.
VersionError(i, n) ==
    IF Short(i, 1) THEN "eof" ELSE IF Box(i).v \notin {0, 1} THEN "invalid" ELSE Eof(i, n)

ReadMvhd ==
    /\ Reads("moov", {"mvhd"})
    /\ LET i == Following
           error == VersionError(i, 4 + Box(i).v)
       IN KeepInContext(i, IF error = "none" /\ Box(i).x = 0 THEN "invalid" ELSE error,
                        After(i, 5 + Box(i).v), [ctx EXCEPT !.mvhd = i])

ReadMdhd ==
    /\ Reads("mdia", {"mdhd"})
    /\ LET i == Following
           error == VersionError(i, 4 + Box(i).v)
       IN KeepInTrack(i, IF error = "none" /\ Box(i).x = 0 THEN "invalid" ELSE error,
                      After(i, 5 + Box(i).v), [track EXCEPT !.mdhd = i])

ReadTkhd ==
    /\ Reads("trak", {"tkhd"})
    /\ LET i == Following
       IN KeepInTrack(i, VersionError(i, 5 + Box(i).v), After(i, 5 + Box(i).v),
                      [track EXCEPT !.tkhd = i])

\* hdlr says what the entries are, from then on.
ReadHdlr ==
    /\ Reads("mdia", {"hdlr"})
    /\ LET i == Following
           error == IF Short(i, 1) THEN "eof" ELSE IF Box(i).v # 0 THEN "unsupported" ELSE Eof(i, 3)
       IN KeepInTrack(i, error, Room(i),
                      IF Box(i).x \in {"vide", "soun", "meta"}
                      THEN [track EXCEPT !.type = Box(i).x] ELSE track)

\* Tables: a count, and as many entries; what is left is padding.
EntryCells == [elst |-> 3, stts |-> 2, stsc |-> 3, stss |-> 1, stco |-> 1, co64 |-> 1]
TableError(i) ==
    IF Short(i, 2) THEN "eof"
    ELSE IF Box(i).name = "elst" /\ Box(i).v \notin {0, 1} /\ Box(i).n > 0 THEN "invalid"
    ELSE Eof(i, 2 + (Box(i).n * EntryCells[Box(i).name]))

ReadTable ==
    /\ Reads("stbl", {"stts", "stsc", "stss", "stco", "co64"})
    /\ LET i == Following
       IN KeepInTrack(i, TableError(i), Room(i),
            CASE Box(i).name = "stts" -> [track EXCEPT !.stts = i]
              [] Box(i).name = "stsc" -> [track EXCEPT !.stsc = i]
              [] Box(i).name = "stss" -> [track EXCEPT !.stss = i]
              [] OTHER -> [track EXCEPT !.stco = i])

\* One size for all samples, or a table of them.
ReadStsz ==
    /\ Reads("stbl", {"stsz"})
    /\ LET i == Following
       IN KeepInTrack(i, IF Short(i, 3) THEN "eof" ELSE Eof(i, 3 + (IF Box(i).x = 0 THEN Box(i).n ELSE 0)),
                      Room(i), [track EXCEPT !.stsz = i])

\* The count is compared with what the box claims, and nothing may be left.
ReadCtts ==
    /\ Reads("stbl", {"ctts"})
    /\ LET i == Following
           left == EndOf(i) - (Content(i) + 2)
       IN KeepInTrack(i, IF Short(i, 2) THEN "eof"
                         ELSE IF 2 * Box(i).n > left THEN "invalid"
                         ELSE IF Box(i).n > 0 /\ Box(i).v \notin {0, 1} THEN "invalid"
                         ELSE IF Short(i, 2 + (2 * Box(i).n)) THEN "eof"
                         ELSE IF 2 * Box(i).n < left THEN "invalid" ELSE "none",
                      After(i, 2 + (2 * Box(i).n)), [track EXCEPT !.ctts = i])

\* An empty list is ignored, and so is one that has only an empty edit: what
\* is left of it is not checked then.
ReadElst ==
    /\ Reads("edts", {"elst"})
    /\ LET i == Following
           ignored == Box(i).n = 0 \/ (Box(i).n = 1 /\ Box(i).x = "empty")
       IN \/ /\ ignored /\ TableError(i) = "none"
             /\ pos' = Room(i)
             /\ UNCHANGED <<open, ctx, track, outcome>>
          \/ /\ ~ignored \/ TableError(i) # "none"
             /\ KeepInTrack(i, TableError(i), Room(i), [track EXCEPT !.elst = i])

\* The boxes in mvex are not checked: what mehd does not read is next.
ReadMehd ==
    /\ Reads("mvex", {"mehd"})
    /\ LET i == Following
       IN KeepFound(i, VersionError(i, 2), After(i, 2), i)

\* A buffer is read whole.
NotWhole(i) == IF Room(i) < EndOf(i) THEN "invalid" ELSE Box(i).r

ReadPssh ==
    /\ Reads("moov", {"pssh"})
    /\ LET i == Following
       IN KeepInContext(i, NotWhole(i), Room(i), [ctx EXCEPT !.pssh = Append(@, i)])

\* Only boxes called data are kept of an item, and of those the last.
ReadData ==
    /\ Top.in \in {"item", "covr"}
    /\ Reads(Top.in, {"data"})
    /\ LET i == Following IN KeepFound(i, NotWhole(i), Room(i), i)

-----------------------------------------------------------------------------
(* Boxes that have boxes. *)

\* The reader of a box begins with n cells of its own, then there are boxes.
Enter(i, in, n, ctx2, track2) ==
    IF Short(i, n) THEN Raise(open, "eof", After(i, n))
    ELSE /\ pos' = Content(i) + n
         /\ open' = Append(open, Opened(i, in, EndOf(i)))
         /\ ctx' = ctx2 /\ track' = track2
         /\ UNCHANGED outcome

\* The brand is that of the last ftyp.
OpenMoov ==
    /\ Reads("mp4", {"moov"})
    /\ Enter(Following, "moov", 0,
             [ctx EXCEPT !.brand = IF ctx.ftyp = "none" THEN @ ELSE ctx.ftyp], track)

OpenTrakOver ==      \* mutant: the tables of the track before are kept
    /\ Reads("moov", {"trak"})
    /\ Enter(Following, "trak", 0, ctx, [track EXCEPT !.box = Following])

OpenTrak ==
    /\ Reads("moov", {"trak"})
    /\ Enter(Following, "trak", 0, ctx, [NoTrack EXCEPT !.box = Following])

OpenUdta ==
    /\ Reads("moov", {"udta"})
    /\ Enter(Following, "udta", 0, [ctx EXCEPT !.userdata = "none", !.meta = <<>>], track)

Holds == [moov |-> {"mvex"}, trak |-> {"edts", "mdia"}, mdia |-> {"minf"}, minf |-> {"stbl"},
          udta |-> {"meta"}, meta |-> {"ilst"}, ilst |-> {"item", "covr"},
          audio |-> {"wave"}, sinf |-> {"schi"}]

\* meta is a full box.
OpenBox ==
    /\ Top.in \in DOMAIN Holds
    /\ Reads(Top.in, Holds[Top.in])
    /\ Enter(Following, Box(Following).name, IF Box(Following).name = "meta" THEN 1 ELSE 0, ctx, track)

OpenStsd ==
    /\ Reads("stbl", {"stsd"})
    /\ Enter(Following, "stsd", 2, ctx, track)

VideoEntries == {"avc1", "encv", "mp4v", "vp09", "av01", "s263"}
AudioEntries == {"mp4a", "enca", "fLaC", "Opus", "alac", ".mp3", "lpcm"}
Entries == VideoEntries \cup AudioEntries \cup {"CRAW", "text"}

\* An entry is of the type of its track, whatever it is called.
OpenVideoEntry ==
    /\ track.type = "vide"
    /\ Reads("stsd", Entries)
    /\ LET i == Following
           craw == Box(i).name = "CRAW" /\ ctx.brand = "crx "
       IN IF Short(i, 1) THEN Raise(open, "eof", After(i, 1))
          ELSE /\ pos' = After(i, IF craw THEN 3 ELSE 2)
               /\ open' = Append(open, Opened(i, IF craw THEN "CRAW" ELSE "video", EndOf(i)))
               /\ UNCHANGED <<ctx, track, outcome>>

OpenAudioEntry ==
    /\ track.type = "soun"
    /\ Reads("stsd", Entries)
    /\ LET i == Following
           inside == Append(open, Opened(i, "audio", EndOf(i)))
       IN IF Short(i, 2) THEN Raise(inside, "eof", After(i, 2))
          ELSE IF Box(i).v \notin 0 .. 2 THEN Raise(inside, "unsupported", After(i, 2))
          ELSE IF Box(i).v = 2 /\ Short(i, 3) THEN Raise(inside, "eof", After(i, 3))
          ELSE /\ pos' = After(i, IF Box(i).v = 0 THEN 2 ELSE 3)
               /\ open' = inside
               /\ UNCHANGED <<ctx, track, outcome>>

SkipEntry ==
    /\ track.type \notin {"vide", "soun"}
    /\ Reads("stsd", Entries)
    /\ LET i == Following
       IN KeepFound(i, "none", Room(i), [box |-> i, kind |-> "unknown"])

\* What describes a codec is for some entries only, and there is one of it,
\* but for those that may come again.
ConfigOf == [video |-> [avcC |-> {"avc1", "encv"}, d263 |-> {"s263"}, vpcC |-> {"vp09", "encv"},
                        av1C |-> {"av01", "encv"}, esds |-> {"mp4v"}],
             audio |-> [esds |-> {"mp4a", "enca"}, dfLa |-> {"fLaC", "enca"},
                        dOps |-> {"Opus", "enca"}, alac |-> {"alac"}]]
MayRepeat == {"av1C"}
Whole == {"avcC", "d263", "av1C", "esds"}
Codecs == {k \in 1 .. Len(Top.found) : Top.found[k].codec}
Described == Codecs # {} \/ (Top.in = "audio" /\ Box(Top.box).name \in {".mp3", "lpcm"})

ReadConfig ==
    /\ Top.in \in DOMAIN ConfigOf
    /\ Reads(Top.in, DOMAIN ConfigOf[Top.in])
    /\ LET i == Following
           name == Box(i).name
           misplaced == \/ Box(Top.box).name \notin ConfigOf[Top.in][name]
                        \/ name \notin MayRepeat /\ Described
       IN KeepFound(i, IF misplaced THEN "invalid"
                       ELSE IF name \in Whole THEN NotWhole(i)
                       ELSE IF Short(i, Box(i).n) THEN "eof" ELSE Box(i).r,
                    IF name \in Whole THEN Room(i) ELSE After(i, Box(i).n),
                    [box |-> i, codec |-> TRUE])

\* The esds of a QuickTime wave.
ReadWaveEsds ==
    /\ Reads("wave", {"esds"})
    /\ LET i == Following IN KeepFound(i, NotWhole(i), Room(i), i)

OpenSinf ==
    /\ Top.in \in {"video", "audio"}
    /\ Reads(Top.in, {"sinf"})
    /\ LET i == Following
       IN IF Box(Top.box).name \in {"encv", "enca"} THEN Enter(i, "sinf", 0, ctx, track)
          ELSE Raise(open, "invalid", Content(i))

ReadSinf ==
    /\ Reads("sinf", {"frma", "schm"})
    /\ LET i == Following
           n == IF Box(i).name = "frma" THEN 1 ELSE 3
       IN KeepFound(i, Eof(i, n), IF Box(i).name = "frma" THEN After(i, n) ELSE Room(i), i)

\* The boxes in schi are not checked.  n is what tenc says it has.
ReadTenc ==
    /\ Reads("schi", {"tenc"})
    /\ LET i == Following
       IN KeepFound(i, IF Top.found # <<>> THEN "invalid" ELSE Eof(i, Box(i).n), After(i, Box(i).n), i)

-----------------------------------------------------------------------------
(* Canon's boxes: the header in a uuid of moov, and the CRAW entries. *)

OpenCraw ==
    /\ ctx.brand = "crx "
    /\ Reads("moov", {"uuid"})
    /\ WholeUuid(Following) /\ Box(Following).x = "canon"
    /\ Enter(Following, "craw", 0,
             [ctx EXCEPT !.craw = Following, !.cncv = None, !.offsets = <<>>, !.thumbnail = None,
                         !.metas = [name \in DOMAIN @ |-> None]], track)

\* Another uuid is skipped; one that is cut short has no value, which is a
\* panic in the message of the debug log, when that is on.
SkipUuid ==
    /\ Reads("moov", {"uuid"})
    /\ ~(ctx.brand = "crx " /\ WholeUuid(Following) /\ Box(Following).x = "canon")
    /\ LET i == Following
       IN \/ Keep(i, "none", Room(i))
          \/ ~WholeUuid(i) /\ Fail("panic", Content(i))

ReadCanonData ==
    /\ Reads("craw", {"CNCV", "CMT1", "CMT2", "CMT3", "CMT4"})
    /\ LET i == Following
       IN KeepInContext(i, NotWhole(i), Room(i),
                        IF Box(i).name = "CNCV" THEN [ctx EXCEPT !.cncv = i]
                        ELSE [ctx EXCEPT !.metas[Box(i).name] = i])

\* The table of offsets and sizes is read up to the first that is zero.
ReadOffsets ==
    /\ Reads("craw", {"CTBO"})
    /\ LET i == Following
           last == Min({Box(i).n} \cup
                       {k \in 1 .. Min({Box(i).n, Len(Box(i).x)}) : 0 \in {Box(i).x[k][1], Box(i).x[k][2]}})
       IN KeepInContext(i, Eof(i, 1 + (2 * last)), Room(i),
                        [ctx EXCEPT !.offsets = @ \o SelectSeq(SubSeq(Box(i).x, 1, last), LAMBDA e : 0 \notin {e[1], e[2]})])

ReadThumbnail ==
    /\ Reads("craw", {"THMB"})
    /\ LET i == Following
           short == Box(i).n + HeaderCells(i) + 4 > mp4.size[i]
       IN KeepInContext(i, IF Short(i, 3) THEN "eof"
                           ELSE IF short \/ Short(i, 4 + Box(i).n) THEN "invalid" ELSE "none",
                        Room(i), [ctx EXCEPT !.thumbnail = i])

\* A box JPEG in a CRAW entry says that it is no raw picture.
ReadCrawBox ==
    /\ Reads("CRAW", {"JPEG", "CMP1", "free"})
    /\ LET i == Following
       IN Done(i, "none", Room(i), IF Box(i).name = "JPEG" THEN Found(open, i) ELSE open, ctx, track)

-----------------------------------------------------------------------------
(* Boxes that are skipped, and the ends of lists. *)

Known == [mp4 |-> {"ftyp", "moov"}, moov |-> {"uuid", "mvhd", "trak", "mvex", "pssh", "udta"},
          trak |-> {"tkhd", "edts", "mdia"}, edts |-> {"elst"}, mdia |-> {"mdhd", "hdlr", "minf"},
          minf |-> {"stbl"},
          stbl |-> {"stsd", "stts", "stsc", "stsz", "stco", "co64", "stss", "ctts"},
          mvex |-> {"mehd"}, udta |-> {"meta"}, meta |-> {"ilst"}, ilst |-> {"item", "covr"},
          item |-> {"data"}, covr |-> {"data"}, sinf |-> {"frma", "schm", "schi"}, schi |-> {"tenc"},
          wave |-> {"esds"}, video |-> DOMAIN ConfigOf["video"] \cup {"sinf"},
          audio |-> DOMAIN ConfigOf["audio"] \cup {"wave", "sinf"},
          craw |-> {"CNCV", "CTBO", "CMT1", "CMT2", "CMT3", "CMT4", "THMB"}]

Skipped == {"free", "mdat", "stts", "trak", "moov", "JPEG", "CMP1", "mehd", "hdlr"}

SkipBox ==
    /\ Top.in \in DOMAIN Known
    /\ Reads(Top.in, Skipped \ Known[Top.in])
    /\ Keep(Following, "none", Room(Following))

\* Sizes that read_box_header refuses: zero, and less than the header.
BadHeader ==
    /\ GoesOn(Top.in)
    /\ ~AtEnd
    /\ Ahead # {}
    /\ \/ Box(Following).zero /\ Raise(open, "unsupported", pos + 2)
       \/ ~Box(Following).zero /\ mp4.size[Following] < HeaderCells(Following)
          /\ Raise(open, "invalid", pos + HeaderCells(Following))

\* A header is taken from something else.
Astray ==
    /\ GoesOn(Top.in)
    /\ ~AtEnd
    /\ Ahead = {}
    /\ Fail("lost", pos)

\* The list of the boxes in the one on top ends; what is left of it is
\* skipped, or must be nothing.
Leaves(in) ==
    /\ outcome = "reading"
    /\ Top.in = in
    /\ ~GoesOn(in) \/ AtEnd

EndOfList == IF GoesOn(Top.in) THEN Limit(open) ELSE pos

Leave(padded, error, x, ctx2, track2) ==
    LET around == Front(open)
        rest == IF padded THEN Limit(open) ELSE EndOfList
    IN IF error # "none" THEN Raise(around, error, rest)
       ELSE IF rest < Top.end /\ Last(around).in \notin Unchecked THEN Raise(around, "invalid", rest)
       ELSE /\ pos' = rest
            /\ open' = IF x = <<>> THEN around ELSE Found(around, Head(x))
            /\ ctx' = ctx2 /\ track' = track2
            /\ UNCHANGED outcome

LeaveBox ==
    /\ Top.in \in {"edts", "mdia", "minf", "stbl", "meta", "ilst", "sinf", "schi", "craw"}
    /\ Leaves(Top.in)
    /\ Leave(FALSE, "none", IF Top.in = "sinf" THEN <<[box |-> Top.box, codec |-> FALSE]>> ELSE <<>>, ctx, track)

LeaveMvex ==
    /\ Leaves("mvex")
    /\ Leave(FALSE, "none", <<>>,
             [ctx EXCEPT !.mvex = IF Top.found = <<>> THEN Top.box ELSE Last(Top.found)], track)

LeaveTrak ==
    /\ Leaves("trak")
    /\ Leave(FALSE, "none", <<>>, [ctx EXCEPT !.tracks = Append(@, track)], track)

LeaveStsd ==
    /\ Leaves("stsd")
    /\ Leave(TRUE, "none", <<>>, ctx, [track EXCEPT !.stsd = [box |-> Top.box, entries |-> Top.found]])

LeaveCrawEntry ==
    /\ Leaves("CRAW")
    /\ Leave(TRUE, "none", <<[box |-> Top.box, kind |-> IF Top.found = <<>> THEN "raw" ELSE "jpeg"]>>, ctx, track)

LeaveEntry ==
    /\ Top.in \in {"video", "audio"}
    /\ Leaves(Top.in)
    /\ Leave(FALSE, "none", <<[box |-> Top.box, kind |-> IF Described THEN "codec" ELSE "unknown"]>>, ctx, track)

LeaveWave ==
    /\ Leaves("wave")
    /\ Leave(FALSE, IF Top.found = <<>> THEN "invalid" ELSE "none",
             <<[box |-> Top.box, codec |-> TRUE]>>, ctx, track)

LeaveItem ==
    /\ Top.in \in {"item", "covr"}
    /\ Leaves(Top.in)
    /\ Leave(FALSE, "none", <<>>,
             IF Top.found = <<>> THEN ctx ELSE [ctx EXCEPT !.meta = Append(@, Last(Top.found))], track)

LeaveUdta ==
    /\ Leaves("udta")
    /\ Leave(FALSE, "none", <<>>, [ctx EXCEPT !.userdata = "ok"], track)

LeaveMoov ==
    /\ Leaves("moov")
    /\ Leave(FALSE, "none", <<>>, [ctx EXCEPT !.moov = TRUE], track)

EndOfFile ==
    /\ Leaves("mp4")
    /\ Fail(IF ctx.moov THEN "ok" ELSE "no moov", Limit(open))

Mp4Step ==
    \/ ReadFtyp \/ ReadMvhd \/ ReadMdhd \/ ReadTkhd \/ ReadHdlr \/ ReadTable \/ ReadStsz
    \/ ReadCtts \/ ReadElst \/ ReadMehd \/ ReadPssh \/ ReadData
    \/ OpenMoov \/ OpenTrak \/ OpenUdta \/ OpenBox \/ OpenStsd
    \/ OpenVideoEntry \/ OpenAudioEntry \/ SkipEntry \/ ReadConfig \/ ReadWaveEsds
    \/ OpenSinf \/ ReadSinf \/ ReadTenc
    \/ OpenCraw \/ SkipUuid \/ ReadCanonData \/ ReadOffsets \/ ReadThumbnail \/ ReadCrawBox
    \/ SkipBox \/ BadHeader \/ Astray
    \/ LeaveBox \/ LeaveMvex \/ LeaveTrak \/ LeaveStsd \/ LeaveCrawEntry \/ LeaveEntry \/ LeaveWave
    \/ LeaveItem \/ LeaveUdta \/ LeaveMoov \/ EndOfFile

Mp4Next == /\ Mp4Step
           /\ UNCHANGED mp4

-----------------------------------------------------------------------------
(* What is said of the parser.  A file is well formed when the sizes of its *)
(* boxes are those of what they have.                                       *)

Indexes == 1 .. Len(mp4.boxes)
WellFormed ==
    \A i \in Indexes : /\ Box(i).extra = 0 /\ ~Box(i).zero
                       /\ Box(i).name = "pad" => Box(i).own = 1

\* The names of the boxes around the box i, outermost first.
Path(i) ==
    LET around == SelectSeq([j \in 1 .. i - 1 |-> j], LAMBDA j : \A k \in j + 1 .. i : Box(k).d > Box(j).d)
    IN [k \in 1 .. Len(around) |-> Box(around[k]).name]

\* In a well-formed file a header is read only where a box begins, but for
\* what is left of a mehd or a tenc, whose readers do not check it, and for
\* entries that are not of the type of their track: each type begins with
\* fields of its own, and CRAW is of no type under another brand.
HeadersAreAtBoxes ==
    outcome = "lost" /\ WellFormed =>
        \/ Top.in \in {"mvex", "schi"}
        \/ Top.in = "video" /\ Box(Top.box).name \notin VideoEntries
        \/ Top.in = "audio" /\ Box(Top.box).name \notin AudioEntries

\* A file that is well formed and parsed has the tracks of its moov boxes in
\* their order, each with the tables of its own boxes, the last of each kind;
\* and a raw picture is a CRAW entry of a track that said it was video before,
\* with no JPEG in it.
Tables == <<"moov", "trak", "mdia", "minf", "stbl">>
TracksAreTheirBoxes ==
    outcome = "ok" /\ WellFormed =>
        LET traks == SelectSeq([i \in Indexes |-> i], LAMBDA i : Box(i).name = "trak" /\ Path(i) = <<"moov">>)
            In(t, names, path) ==
                Max({None} \cup {j \in Inside(mp4.boxes, t) : Box(j).name \in names /\ Path(j) = path})
        IN /\ Len(ctx.tracks) = Len(traks)
           /\ \A k \in 1 .. Len(traks) :
                LET t == ctx.tracks[k]
                IN /\ t.box = traks[k]
                   /\ t.tkhd = In(t.box, {"tkhd"}, SubSeq(Tables, 1, 2))
                   /\ t.mdhd = In(t.box, {"mdhd"}, SubSeq(Tables, 1, 3))
                   /\ t.stsz = In(t.box, {"stsz"}, Tables)
                   /\ t.stco = In(t.box, {"stco", "co64"}, Tables)
                   /\ t.stts = In(t.box, {"stts"}, Tables)
                   /\ \A e \in Range(t.stsd.entries) :
                        /\ Path(e.box) = Append(Tables, "stsd") /\ e.box \in Inside(mp4.boxes, t.box)
                        /\ e.kind = "raw" =>
                             /\ Box(e.box).name = "CRAW"
                             /\ \A j \in Inside(mp4.boxes, e.box) : Box(j).name # "JPEG"
                             /\ \E h \in Inside(mp4.boxes, t.box) :
                                    h < e.box /\ Box(h).name = "hdlr" /\ Box(h).x = "vide"

=============================================================================
