------------------------------ MODULE CrwFiles ------------------------------
(***************************************************************************)
(* CRW files (canon/crw.rs) over their CIFF container (canon/crw/ciff.rs,  *)
(* canon/crw/ciff/container.rs): heaps in heaps, found from their ends and *)
(* read when they are asked for, through the one View of the container,    *)
(* which is a RefCell: who reads it while another holds it panics.         *)
(*                                                                         *)
(* A file is a sequence of cells, a cell being a field: a number, or a     *)
(* record of a heap.  A heap of len cells at base ends with the place of    *)
(* its count of records, which the records follow.                         *)
(***************************************************************************)
EXTENDS Integers, Sequences, FiniteSetsExt, SequencesExt

CONSTANTS CrwFilesRead,  \* the files
          U32Values,     \* the number of addresses
          StackDepth,    \* how deep translate_record_entry may go
          MaxIndex,      \* the number of indexes of the white balance
          LongTable      \* the length above which ColourInfo1 is not a D30's

VARIABLES
    crw,       \* the file: its cells, its header (the byte order it says, and
               \* its length), and whether the build checks overflows
    cell,      \* the OnceCells: of the container, and of the file
    held,      \* the View is borrowed
    calls,     \* what is left to do of the call in progress
    result     \* of the last call

crw_vars == <<crw, cell, held, calls, result>>

Unset == [is |-> "unset"]
Nothing == [is |-> "none"]

ContainerCells == {"header", "heap", "image_props", "image_spec", "camera_props", "exif_info",
                   "camera_settings", "dirs"}
FileCells == {"type_id", "crw_thumbnails"}

CrwInit ==
    /\ crw \in CrwFilesRead
    /\ cell = [c \in ContainerCells \cup FileCells |-> Unset]
    /\ held = FALSE
    /\ calls = <<>>
    /\ result = "none"

-----------------------------------------------------------------------------
(* The cells of the file, at addresses from 0. *)

FileLen == Len(crw.cells)
Readable(at, n) == at + n <= FileLen

\* A number, or what the bytes of a record come to as one: too much.
Number(at) == IF crw.cells[at + 1].tag = "number" THEN crw.cells[at + 1].n ELSE FileLen + 1

\* An offset is from the start of its heap, in 32 bits.
Address(base, offset) == (base + offset) % U32Values
Overflows(base, offset) == crw.checked /\ base + offset >= U32Values

\* Heap::load.  A record that cannot be read is none, and of those with the
\* same tag the last is kept.
RecordsAt(base, first, n) ==
    LET found == {k \in first .. first + n - 1 : Readable(k, 1) /\ crw.cells[k + 1].tag # "number"}
    IN {[r EXCEPT !.at = Address(base, r.at)] :
          r \in {crw.cells[k + 1] : k \in {k \in found :
                    \A j \in found : j > k => crw.cells[j + 1].tag # crw.cells[k + 1].tag}}}

LoadHeap(base, len) ==
    IF len < 1 \/ ~Readable(base, len) \/ Number(base + len - 1) > len - 1 THEN [is |-> "panic"]
    ELSE LET start == base + Number(base + len - 1)
             n == Number(start)
         IN IF \E k \in start + 1 .. start + n :
                 Readable(k, 1) /\ ~crw.cells[k + 1].inrec /\ Overflows(base, crw.cells[k + 1].at)
            THEN [is |-> "panic"]
            ELSE [is |-> "heap", records |-> RecordsAt(base, start + 1, n)]

\* The record of this tag in a heap that may not be there.
Of(heap, tag) == IF heap.is = "heap" THEN {r \in heap.records : r.tag = tag} ELSE {}
InHeap(heap, tag) == {r \in Of(heap, tag) : ~r.inrec}

\* heap_from_heap: a heap in another has to load.
HeapIn(heap, tag) ==
    IF InHeap(heap, tag) = {} THEN Nothing
    ELSE LET r == CHOOSE r \in InHeap(heap, tag) : TRUE IN LoadHeap(r.at, r.len)

\* The values of a record that are not those of a heap: what there is.
Values(r) == IF r.inrec THEN <<r.n, 0, 0, 0>> ELSE [k \in 1 .. r.len |-> Number(r.at + k - 1)]
Count(r) == IF r.inrec THEN 2 ELSE r.len
HasValues(r) == r.inrec \/ Readable(r.at, r.len)

-----------------------------------------------------------------------------
(* A call is a list of what is left to do; what begins is done first. *)

Doing(what) == calls # <<>> /\ Head(calls).do = what
Do(what) == [do |-> what]
Then(more) == calls' = more \o Tail(calls)
Panic(why) == /\ result' = why
              /\ calls' = <<>>
              /\ UNCHANGED <<cell, held>>

GoOn(more) == /\ Then(more)
              /\ UNCHANGED <<cell, held, result>>
Stop(with) == /\ calls' = <<>>
              /\ result' = with
              /\ UNCHANGED <<cell, held>>

Set(c, value) == cell' = [cell EXCEPT ![c] = value]

\* The model the id in a record is of, when it is one of the list.
ModelId == Of(cell["exif_info"], "CanonModelID")
ModelIdRead == {r \in ModelId : HasValues(r)}
KnownModel == \E r \in ModelIdRead : Count(r) > 0 /\ Values(r)[1] # 0

\* What a cell needs of others, before it is made.
NeedsOf(c) ==
    CASE c = "header" -> <<>>
      [] c = "heap" -> <<"header">>
      [] c = "image_props" -> <<"heap">>
      [] c \in {"image_spec", "camera_props", "exif_info"} -> <<"image_props">>
      [] c = "camera_settings" -> <<"exif_info">>
      [] c = "type_id" -> IF cell["exif_info"] # Unset /\ ~KnownModel
                          THEN <<"exif_info", "camera_props">> ELSE <<"exif_info">>
      [] c = "crw_thumbnails" -> <<"heap">>
      [] c = "dirs" -> <<"header", "image_spec", "camera_props", "image_props", "exif_info">>

\* Whether it is read from the View, when it is made.
ReadsView(c) ==
    CASE c \in {"header", "heap"} -> TRUE
      [] c = "image_props" -> InHeap(cell["heap"], "ImageProps") # {}
      [] c = "image_spec" -> InHeap(cell["image_props"], "ImageInfo") # {}
      [] c = "camera_props" -> InHeap(cell["image_props"], "CameraObject") # {}
      [] c = "exif_info" -> InHeap(cell["image_props"], "ExifInformation") # {}
      [] c = "camera_settings" -> InHeap(cell["exif_info"], "CameraSettings") # {}
      [] c = "type_id" -> \/ InHeap(cell["exif_info"], "CanonModelID") # {}
                          \/ ~KnownModel /\ InHeap(cell["camera_props"], "RawMakeModel") # {}
      [] c = "crw_thumbnails" -> InHeap(cell["heap"], "JpegImage") # {}
      [] OTHER -> FALSE

OneOf(heap, tag) ==
    LET rs == {r \in InHeap(heap, tag) : HasValues(r)}
    IN IF rs = {} THEN Nothing ELSE [is |-> "values", of |-> Values(CHOOSE r \in rs : TRUE)]

\* What it is then.
Made(c) ==
    CASE c = "header" -> IF crw.order = "bad" THEN [is |-> "panic"] ELSE [is |-> "header"]
      [] c = "heap" -> IF crw.header > FileLen THEN [is |-> "panic"]
                       ELSE LoadHeap(crw.header, FileLen - crw.header)
      [] c = "image_props" -> HeapIn(cell["heap"], "ImageProps")
      [] c = "image_spec" -> OneOf(cell["image_props"], "ImageInfo")
      [] c = "camera_props" -> HeapIn(cell["image_props"], "CameraObject")
      [] c = "exif_info" -> HeapIn(cell["image_props"], "ExifInformation")
      [] c = "camera_settings" -> OneOf(cell["exif_info"], "CameraSettings")
      [] c = "type_id" -> IF \E r \in ModelIdRead : Count(r) = 0 THEN [is |-> "panic"] ELSE [is |-> "id"]
      [] c = "crw_thumbnails" -> [is |-> "thumbnails"]

\* get_or_init of any of them but dirs.
Get ==
    /\ calls # <<>> /\ Head(calls).do \in DOMAIN cell \ {"dirs"}
    /\ LET c == Head(calls).do
           missing == SelectSeq(NeedsOf(c), LAMBDA n : cell[n] = Unset)
       IN CASE cell[c] # Unset -> Then(<<>>) /\ UNCHANGED <<cell, held, result>>
            [] cell[c] = Unset /\ missing # <<>> ->
                 calls' = <<Do(Head(missing))>> \o calls /\ UNCHANGED <<cell, held, result>>
            [] OTHER ->
                 IF held /\ ReadsView(c) THEN Panic("borrowed")
                 ELSE IF Made(c).is = "panic" THEN Panic(c)
                 ELSE /\ Set(c, Made(c)) /\ Then(<<>>)
                      /\ UNCHANGED <<held, result>>
    /\ UNCHANGED crw

-----------------------------------------------------------------------------
(* The directories are made of the records of the heaps of the properties. *)

HeapTags == {"ImageProps", "CameraObject", "ExifInformation"}
Translations(heap) ==
    IF heap.is # "heap" THEN <<>>
    ELSE FoldSet(LAMBDA r, todo : Append(todo, [do |-> "translate", r |-> r]), <<>>, heap.records)

MakeDirs ==
    /\ Doing("dirs")
    /\ LET missing == SelectSeq(NeedsOf("dirs"), LAMBDA n : cell[n] = Unset)
       IN IF cell["dirs"] # Unset THEN Then(<<>>)
          ELSE IF missing # <<>> THEN calls' = <<Do(Head(missing))>> \o calls
          ELSE Then(Translations(cell["image_props"]) \o Translations(cell["exif_info"]) \o <<Do("made")>>)
    /\ UNCHANGED <<crw, cell, held, result>>

DirsMade ==
    /\ Doing("made")
    /\ Set("dirs", [is |-> "dirs"])
    /\ Then(<<>>)
    /\ UNCHANGED <<crw, held, result>>

\* How many records the one being translated is in.
Depth == Cardinality({k \in 1 .. Len(calls) : calls[k].do = "leave"})

\* A heap is translated record by record, by recursion.
TranslateHeap ==
    /\ Doing("translate") /\ Head(calls).r.tag \in HeapTags /\ ~Head(calls).r.inrec
    /\ LET heap == LoadHeap(Head(calls).r.at, Head(calls).r.len)
       IN IF heap.is = "panic" THEN Panic("heap")
          ELSE IF Depth >= StackDepth THEN Panic("overflow")
          ELSE /\ Then(Translations(heap) \o <<Do("leave")>>)
               /\ UNCHANGED <<cell, held, result>>
    /\ UNCHANGED crw

LeaveHeap == /\ Doing("leave")
             /\ Then(<<>>)
             /\ UNCHANGED <<crw, cell, held, result>>

\* What a translation takes: how many values of its record, and how many of
\* the camera settings, for which the exif_info may have none.
OfRecord == [FocalLength |-> 2, OwnerName |-> 1, SerialNumber |-> 1, CapturedTime |-> 1, CameraSettings |-> 0]
OfSettings(tag) == CASE tag = "CameraSettings" -> 2 [] tag = "FocalLength" -> 3 [] OTHER -> 0

TranslateValue ==
    /\ Doing("translate")
    /\ LET r == Head(calls).r
           settings == cell["camera_settings"]
           converted == r.tag \in DOMAIN OfRecord /\ (HasValues(r) \/ r.tag = "CameraSettings")
       IN /\ r.tag \notin HeapTags \/ r.inrec
          /\ IF ~converted THEN GoOn(<<>>)
             ELSE IF Count(r) < OfRecord[r.tag] THEN Panic("index")
             ELSE IF OfSettings(r.tag) > 0 /\ settings = Unset THEN GoOn(<<Do("camera_settings"), Head(calls)>>)
             ELSE IF OfSettings(r.tag) > 0 /\ settings.is = "values" /\ Len(settings.of) < OfSettings(r.tag)
             THEN Panic("index")
             ELSE GoOn(<<>>)
    /\ UNCHANGED crw

-----------------------------------------------------------------------------
(* The white balance, of the first of three records that has one. *)

\* ColourInfo2: a magic of 276 says there is none.
BalanceOfInfo2 ==
    /\ Doing("balance")
    /\ LET rs == InHeap(cell["exif_info"], "ColourInfo2")
           r == CHOOSE r \in rs : TRUE
           magic == IF Readable(r.at, 1) THEN Number(r.at) ELSE 0
       IN IF rs = {} \/ magic = 276 THEN GoOn(<<Do("balance1")>>)
          ELSE GoOn(<<>>)
    /\ UNCHANGED crw

\* ColourInfo1: the longer one is where the model says, and the model is
\* asked for while the View is held.
BalanceOfInfo1 ==
    /\ Doing("balance1")
    /\ LET rs == InHeap(cell["exif_info"], "ColourInfo1")
           r == CHOOSE r \in rs : TRUE
       IN IF rs = {} \/ r.len < LongTable THEN GoOn(<<Do("balance index")>>)
          ELSE IF r.len = LongTable
          THEN IF Readable(r.at, r.len) THEN GoOn(<<>>) ELSE GoOn(<<Do("balance index")>>)
          ELSE /\ held' = TRUE
               /\ Then(<<Do("type_id"), Do("balance at")>>)
               /\ UNCHANGED <<cell, result>>
    /\ UNCHANGED crw

HeldOn ==      \* mutant: the View stays borrowed after the white balance
    /\ Doing("balance at")
    /\ Then(<<>>)
    /\ UNCHANGED <<crw, cell, held, result>>

BalanceAtOffset ==
    /\ Doing("balance at")
    /\ held' = FALSE
    /\ Then(<<>>)
    /\ UNCHANGED <<crw, cell, result>>

\* ShotInfo has an index in a list of ten, which is not tested.
BalanceOfShot ==
    /\ Doing("balance index")
    /\ LET rs == {r \in InHeap(cell["exif_info"], "ShotInfo") : Readable(r.at, 1)}
           indexes == {Number(r.at) : r \in rs}
       IN IF InHeap(cell["exif_info"], "WhiteBalanceTable") # {} /\ \E i \in indexes : i >= MaxIndex
          THEN Panic("index") ELSE GoOn(<<>>)
    /\ UNCHANGED crw

-----------------------------------------------------------------------------
(* The calls. *)

Panics == {"borrowed", "overflow", "index"} \cup DOMAIN cell
Idle == calls = <<>> /\ result \notin Panics

\* Raw data are asked for with or without decompression.
Call ==
    /\ Idle
    /\ calls' \in {<<Do("type_id"), Do("answer")>>, <<Do("crw_thumbnails"), Do("answer")>>,
                   <<Do("dirs"), Do("answer")>>} \cup
                  {<<Do("image_spec"), Do("exif_info"), Do("load"), Do(raw)>> : raw \in {"copy", "decompress"}}
    /\ UNCHANGED <<crw, cell, held, result>>

\* load_rawdata: what it has to find, and the white balance.
LoadRawdata ==
    /\ Doing("load")
    /\ IF /\ cell["image_spec"].is # "none" /\ cell["exif_info"].is = "heap"
          /\ \E r \in InHeap(cell["exif_info"], "DecoderTable") : Readable(r.at, 1)
       THEN GoOn(<<Do("balance")>>)
       ELSE Stop("not found")
    /\ UNCHANGED crw

\* The raw data are copied whole, or decompressed for the type of the camera.
\* raw_data asks for the main directory when there are any.
RawRecord == InHeap(cell["heap"], "RawImageData")
Copy ==
    /\ Doing("copy")
    /\ IF \E r \in RawRecord : HasValues(r) THEN GoOn(<<Do("dirs"), Do("answer")>>) ELSE Stop("not found")
    /\ UNCHANGED crw

Decompress ==
    /\ Doing("decompress")
    /\ IF \E r \in RawRecord : r.at <= FileLen THEN GoOn(<<Do("type_id"), Do("decompressed")>>)
       ELSE Stop("not found")
    /\ UNCHANGED crw

Decompressed ==
    /\ Doing("decompressed")
    /\ \/ GoOn(<<Do("dirs"), Do("answer")>>)
       \/ Stop("not found")
    /\ UNCHANGED crw

Answered == /\ Doing("answer")
            /\ Stop("ok")
            /\ UNCHANGED crw

CrwNext ==
    \/ Get \/ MakeDirs \/ DirsMade \/ TranslateHeap \/ LeaveHeap \/ TranslateValue
    \/ BalanceOfInfo2 \/ BalanceOfInfo1 \/ BalanceAtOffset \/ BalanceOfShot
    \/ Call \/ LoadRawdata \/ Copy \/ Decompress \/ Decompressed \/ Answered

-----------------------------------------------------------------------------
\* The heaps that the translation of the heap at base goes down to.
Below(place) ==
    LET heap == LoadHeap(place[1], place[2])
    IN IF heap.is = "heap"
       THEN {<<r.at, r.len>> : r \in {q \in heap.records : q.tag \in HeapTags /\ ~q.inrec}} ELSE {}

RECURSIVE Down(_, _)
Down(places, met) ==
    IF places \subseteq met THEN met
    ELSE Down(UNION {Below(p) : p \in places \ met}, met \cup places)

\* The View is read by one at a time whatever was asked before, but for the
\* white balance of a longer ColourInfo1, which asks for a type id that is
\* not known yet while it holds the View; and the translation of the records
\* ends, but for heaps that lead to themselves.
CallsComeToAnEnd ==
    /\ result = "borrowed" =>
         /\ cell["type_id"] = Unset
         /\ \E r \in InHeap(cell["exif_info"], "ColourInfo1") : r.len > LongTable
         /\ ~\E r \in ModelId : r.inrec /\ r.n # 0
    /\ result = "overflow" =>
         \E top \in Down(Below(<<crw.header, FileLen - crw.header>>), {}) : top \in Down(Below(top), {})

=============================================================================
