------------------------------ MODULE LazyCells ------------------------------
(***************************************************************************)
(* RAF, RW2 and JPEG files: everything is read when it is first asked for  *)
(* and kept in a OnceCell, through several Views of one io                 *)
(* (src/src/fujifilm.rs, fujifilm/raf.rs, panasonic.rs, jpeg.rs and        *)
(* jpeg/container.rs).                                                     *)
(*                                                                         *)
(* The Views are those of WindowedFile: each is a file of its own that     *)
(* forgets its position when another is used.  Two of them are read        *)
(* without a seek: the table of a meta container, right after its View     *)
(* was made, and the JPEG stream, by a decoder that is made on a clone of  *)
(* its View and reads on from wherever the cursor is when it is asked.     *)
(***************************************************************************)
EXTENDS WindowedFile, Sequences

CONSTANTS Files,  \* the files: format, and which of its parts can be read
          Size,   \* the length of the file
          Unset,  \* a cell that was not initialised
          None    \* a cell that holds None

Part == {"stream", "exif", "meta", "cfa"}
FileType == [format : {"raf", "rw2", "jpeg"}, has : SUBSET Part]

ASSUME LazyCellsAssumption ==
  /\ Files \subseteq FileType
  /\ View = {"file", "stream", "decoder", "meta", "cfa"}
  /\ Size \in Nat /\ Size > 3 /\ Number \subseteq Int  \* every Place is in the file
  /\ {Unset, None, Lost} \cap Int = {} /\ Unset # None

Cell == {"container", "dirs", "preview", "info", "exif", "thumbnails", "meta", "cfa"}

VARIABLES file,     \* the file
          cells,    \* the OnceCells; None, or what it holds, by place
          decoder,  \* the cell of the decoder: what it did, where it began
          todo,     \* what is left of the call in progress
          hit       \* the Views an operation failed on: history

windows == <<base, size, cur, answer>>
lazyVars == <<windows, file, cells, decoder, todo, hit>>

(* Where the parts of a file are.                                          *)
Place(v) == IF v \in {"stream", "decoder"} /\ file.format # "jpeg" THEN 1
            ELSE IF v = "meta" THEN 2
            ELSE IF v = "cfa" THEN 3
            ELSE 0

LazyInit ==
  /\ Init
  /\ file \in Files
  /\ cells = [c \in Cell |-> Unset]
  /\ decoder = [state |-> "unset"]
  /\ todo = <<>>
  /\ hit = {}

Set(c, value) == cells' = [cells EXCEPT ![c] = value]

Then(more) == todo' = more \o Tail(todo)
Done == todo' = Tail(todo)
Doing(what) == todo # <<>> /\ Head(todo) = what

(* A seek in a View and the reads after it.                                *)
SeekAndRead(v) ==
  /\ cur' = Alone(v, 1)
  /\ answer' = [kind |-> "bytes", view |-> v, from |-> base[v], n |-> 1]
  /\ UNCHANGED <<base, size>>

Works == UNCHANGED hit
Breaks(v) == Fail /\ hit' = hit \cup {v}

(* What a caller may ask of a file: RawFileImpl of each format.            *)
Calls ==
  CASE file.format = "raf" ->
         {<<"thumbnails">>, <<"thumbnails", "bytes">>,
          <<"container", "preview", "exif">>,
          <<"container", "meta", "cfa", "cfa dirs", "bytes">>}
    [] file.format = "rw2" ->
         {<<"thumbnails">>, <<"thumbnails", "bytes">>,
          <<"container", "dirs", "bytes">>,
          <<"container", "preview", "exif", "exif of the file">>}
    [] file.format = "jpeg" ->
         {<<"thumbnails">>, <<"thumbnails", "bytes">>,
          <<"container">>, <<"container", "exif">>}

Call == /\ todo = <<>>
        /\ todo' \in Calls
        /\ UNCHANGED <<windows, file, cells, decoder, hit>>

(* container()? fails: the cell stays as it was, and the call ends; in the *)
(* closure of Rw2File::jpeg_preview it is the preview that is None.        *)
GiveUp ==
  IF \E i \in DOMAIN todo : todo[i] = "stream"
    THEN /\ Set("preview", None)
         /\ \E i \in DOMAIN todo :
              todo[i] = "stream" /\ todo' = SubSeq(todo, i + 1, Len(todo))
    ELSE todo' = <<>> /\ UNCHANGED cells

Own == IF file.format = "jpeg" THEN "stream" ELSE "file"

IsSet(c) == cells[c] # Unset
Has(part) == part \in file.has

(* An operation on a cell that is set already.                             *)
Again(what, c) ==
  /\ Doing(what) /\ IsSet(c)
  /\ Done
  /\ UNCHANGED <<windows, file, cells, decoder, hit>>

(* container(): a View on the whole file, then load().                     *)
Container ==
  /\ Doing("container") /\ ~IsSet("container")
  /\ \/ /\ Open(Own, 0, Size) /\ Works
        /\ IF file.format = "jpeg"
             THEN /\ cells' = [cells EXCEPT !["container"] = 0, !["preview"] = 0]
                  /\ Done
             ELSE Then(<<"load">>) /\ UNCHANGED cells
     \/ Breaks(Own) /\ GiveUp
  /\ UNCHANGED <<file, decoder>>

(* RafContainer::load, tiff::Container::load: seek to the first byte.      *)
Load ==
  /\ Doing("load")
  /\ \/ SeekAndRead("file") /\ Works /\ Set("container", 0) /\ Done
     \/ Breaks("file") /\ GiveUp
  /\ UNCHANGED <<file, decoder>>

(* tiff::Container::directory(0).                                          *)
Dirs ==
  /\ Doing("dirs") /\ ~IsSet("dirs")
  /\ \/ SeekAndRead("file") /\ Works /\ Set("dirs", 0)
     \/ Breaks("file") /\ Set("dirs", None)
  /\ Done
  /\ UNCHANGED <<file, decoder>>

(* jpeg_preview(): get_or_init.  Rw2File looks for the stream in the IFD.  *)
Preview ==
  /\ Doing("preview") /\ ~IsSet("preview")
  /\ Then(IF file.format = "rw2" THEN <<"container", "dirs", "stream">>
                                 ELSE <<"stream">>)
  /\ UNCHANGED <<windows, file, cells, decoder, hit>>

NoStream == file.format = "rw2" /\ (cells["dirs"] = None \/ ~Has("stream"))

Stream ==
  /\ Doing("stream")
  /\ \/ /\ NoStream /\ Works /\ UNCHANGED windows
        /\ Set("preview", None)
     \/ /\ ~NoStream /\ Open("stream", Place("stream"), Size - Place("stream")) /\ Works
        /\ Set("preview", Place("stream"))
     \/ /\ ~NoStream /\ Breaks("stream")
        /\ Set("preview", None)
  /\ Done
  /\ UNCHANGED <<file, decoder>>

(* Nothing is asked of a preview that is None.                             *)
NoPreview ==
  /\ Doing("info") \/ Doing("exif") \/ Doing("offset")
  /\ cells["preview"] \in {Unset, None}
  /\ Done
  /\ UNCHANGED <<windows, file, cells, decoder, hit>>

Asked(c) == Doing(c) /\ ~IsSet(c) /\ cells["preview"] \notin {Unset, None}

(* decoder(): made on a clone of the View of the stream.                   *)
MakeDecoder ==
  /\ Asked("info") \/ Asked("exif")
  /\ decoder.state = "unset"
  /\ Duplicate("stream", "decoder")
  /\ decoder' = [state |-> "fresh"]
  /\ UNCHANGED <<file, cells, todo, hit>>

Found(c, place) == IF c = "exif" /\ ~Has("exif") THEN None ELSE place

(* image_info(), exif(): read_info of the decoder.  One that has the info  *)
(* reads no more.  One that failed goes on where it stopped, and may take  *)
(* what it finds there for a picture.                                      *)
InfoIsThere(c) ==
  /\ Asked(c) /\ decoder.state = "read"
  /\ Set(c, Found(c, decoder.from)) /\ Done
  /\ UNCHANGED <<windows, file, decoder, hit>>

ReadInfo(c) ==
  /\ Asked(c) /\ decoder.state \in {"fresh", "broken"}
  /\ Has("stream") \/ decoder.state = "broken"
  /\ Read("decoder", 1)
  /\ decoder' = [state |-> "read", from |-> answer'.from]
  /\ Set(c, Found(c, answer'.from)) /\ Done
  /\ UNCHANGED <<file, hit>>

ReadInfoFails(c) ==
  /\ Asked(c) /\ decoder.state \in {"fresh", "broken"}
  /\ \E n \in {0, 1} : Read("decoder", n)
  /\ decoder' = [state |-> "broken"]
  /\ hit' = IF Has("stream") THEN hit \cup {"decoder"} ELSE hit
  /\ Set(c, None) /\ Done
  /\ UNCHANGED file

OffsetFromFile ==              \* mutant: the offset is read from the file again
  /\ Doing("offset") /\ cells["preview"] \notin {Unset, None}
  /\ Then(<<"container", "load", "dirs">>)
  /\ UNCHANGED <<windows, file, cells, decoder, hit>>

(* Rw2File::thumbnails: jpeg_data_offset() once more.                      *)
Offset ==
  /\ Doing("offset") /\ cells["preview"] \notin {Unset, None}
  /\ Then(<<"container", "dirs">>)
  /\ UNCHANGED <<windows, file, cells, decoder, hit>>

StartThumbnails(steps) ==
  /\ Doing("thumbnails") /\ ~IsSet("thumbnails")
  /\ Then(steps)
  /\ UNCHANGED <<windows, file, cells, decoder, hit>>

ThumbnailsWithoutExif ==       \* mutant: the list is kept before the Exif is read
  StartThumbnails(
    CASE file.format = "raf" -> <<"container", "preview", "info", "keep", "exif">>
      [] file.format = "rw2" -> <<"preview", "offset", "info", "keep", "exif">>
      [] file.format = "jpeg" -> <<"container", "exif", "keep">>)

(* thumbnails() of each format.                                            *)
Thumbnails ==
  StartThumbnails(
    CASE file.format = "raf" -> <<"container", "preview", "info", "exif", "keep">>
      [] file.format = "rw2" -> <<"preview", "offset", "exif", "info", "keep">>
      [] file.format = "jpeg" -> <<"container", "exif", "keep">>)

Holds(c) == cells[c] \notin {Unset, None}

Keep ==
  /\ Doing("keep")
  /\ Set("thumbnails",
         {t \in {"preview", "exif"} : Holds(t) /\ ~(t = "preview" /\ file.format = "jpeg")})
  /\ Done
  /\ UNCHANGED <<windows, file, decoder, hit>>

MetaLater ==                   \* mutant: the preview is made before the table is read
  /\ Doing("meta") /\ ~IsSet("meta")
  /\ Open("meta", Place("meta"), Size - Place("meta")) /\ Works
  /\ Then(<<"preview", "load meta">>)
  /\ UNCHANGED <<file, cells, decoder>>

(* RafContainer::meta_container_at.                                        *)
Meta ==
  /\ Doing("meta") /\ ~IsSet("meta")
  /\ \/ /\ Has("meta") /\ Open("meta", Place("meta"), Size - Place("meta")) /\ Works
        /\ Then(<<"load meta">>) /\ UNCHANGED cells
     \/ Has("meta") /\ Breaks("meta") /\ Set("meta", None) /\ Done
     \/ ~Has("meta") /\ UNCHANGED <<windows, hit>> /\ Set("meta", None) /\ Done
  /\ UNCHANGED <<file, decoder>>

(* MetaContainer::load: it does not seek.                                  *)
LoadMeta ==
  /\ Doing("load meta")
  /\ \/ Read("meta", 1) /\ Works /\ Set("meta", answer'.from)
     \/ Breaks("meta") /\ Set("meta", None)
  /\ Done
  /\ UNCHANGED <<file, decoder>>

(* RafContainer::cfa_container; load_rawdata ends without a meta container.*)
NoMeta ==
  /\ Doing("cfa") /\ ~Holds("meta")
  /\ todo' = <<>>
  /\ UNCHANGED <<windows, file, cells, decoder, hit>>

Cfa ==
  /\ Doing("cfa") /\ Holds("meta") /\ ~IsSet("cfa")
  /\ \/ /\ Has("cfa") /\ Open("cfa", Place("cfa"), Size - Place("cfa")) /\ Works
        /\ Then(<<"load cfa">>) /\ UNCHANGED cells
     \/ Has("cfa") /\ Breaks("cfa") /\ Set("cfa", None) /\ Done
     \/ ~Has("cfa") /\ UNCHANGED <<windows, hit>> /\ Set("cfa", None) /\ Done
  /\ UNCHANGED <<file, decoder>>

LoadCfa ==
  /\ Doing("load cfa")
  /\ \/ SeekAndRead("cfa") /\ Works /\ Set("cfa", Place("cfa"))
     \/ Breaks("cfa") /\ Set("cfa", None)
  /\ Done
  /\ UNCHANGED <<file, decoder>>

(* What is read with a seek, and kept elsewhere or not at all: the         *)
(* directories of the CFA container, the Exif IFD of an RW2 file without a *)
(* preview, the bytes of a picture or of a thumbnail.                      *)
ReadElsewhere(what, v, wanted) ==
  /\ Doing(what)
  /\ \/ wanted /\ SeekAndRead(v) /\ Works
     \/ wanted /\ Breaks(v)
     \/ UNCHANGED <<windows, hit>>      \* it is there, or not asked for
  /\ Done
  /\ UNCHANGED <<file, cells, decoder>>

Step ==
  \/ Again("container", "container") \/ Container \/ Load
  \/ Again("dirs", "dirs") \/ Dirs
  \/ Again("preview", "preview") \/ Preview \/ Stream
  \/ Again("info", "info") \/ Again("exif", "exif") \/ NoPreview \/ MakeDecoder
  \/ \E c \in {"info", "exif"} : InfoIsThere(c) \/ ReadInfo(c) \/ ReadInfoFails(c)
  \/ Again("thumbnails", "thumbnails") \/ Thumbnails \/ Offset \/ Keep
  \/ Again("meta", "meta") \/ Meta \/ LoadMeta
  \/ NoMeta \/ (Holds("meta") /\ Again("cfa", "cfa")) \/ Cfa \/ LoadCfa
  \/ ReadElsewhere("cfa dirs", "cfa", Holds("cfa"))
  \/ ReadElsewhere("exif of the file", "file", ~Holds("exif"))
  \/ ReadElsewhere("bytes", Own, IsSet("container"))

LazyNext == Call \/ Step

(* A call runs until it returns.                                           *)
LazySpec == LazyInit /\ [][LazyNext]_lazyVars /\ WF_lazyVars(Step)

-----------------------------------------------------------------------------
LazyTypeOK ==
  /\ file \in FileType
  /\ \A c \in Cell \ {"thumbnails"} : cells[c] \in Number \cup {Unset, None}
  /\ Holds("thumbnails") => cells["thumbnails"] \subseteq {"preview", "exif"}
  /\ decoder.state \in {"unset", "fresh", "read", "broken"}
  /\ decoder.state = "read" => decoder.from \in Number
  /\ hit \subseteq View
  /\ cur \in [View -> Number \cup {Lost}]
  /\ \A v \in View : base[v] \in {0, Place(v)}

(* The decoder of a preview begins at the first byte of its stream,        *)
(* whatever was called before and whenever it is first asked, though       *)
(* nothing seeks there (jpeg/container.rs, decoder, image_info, exif).     *)
DecoderStartsAtItsStream ==
  decoder.state = "read" /\ Has("stream") /\ "decoder" \notin hit
    => decoder.from = Place("stream")

(* What a cell holds for good is what the file has, in every order of the  *)
(* calls; a cell is None that should not be only after a failure of a View *)
(* it was read through (fujifilm/raf.rs, jpeg/container.rs, panasonic.rs). *)
Untouched(views) == hit \cap views = {}

FailuresAreContained ==
  /\ IsSet("preview") /\ Untouched({"file", "stream"})
       => (cells["preview"] = None) = (file.format = "rw2" /\ ~Has("stream"))
  /\ \A c \in {"info", "exif"} :
       IsSet(c) /\ Has("stream") /\ Untouched({"decoder"})
         => cells[c] = Found(c, Place("stream"))
  /\ \A c \in {"meta", "cfa"} :
       IsSet(c) /\ Untouched({c})
         => cells[c] = IF Has(c) THEN Place(c) ELSE None

(* The list of thumbnails is the same whenever it is built: what was asked *)
(* of the file before takes nothing from it (thumbnails() of the formats). *)
(* And every call returns, with the list as it should be if it is kept by  *)
(* then: no cell waits for itself, whatever was set.                       *)
ListAsOfTheFile ==
  IsSet("thumbnails") /\ Has("stream") /\ Untouched({"file", "stream", "decoder"})
    => cells["thumbnails"] = (IF file.format = "jpeg" THEN {} ELSE {"preview"})
                               \cup (IF Has("exif") THEN {"exif"} ELSE {})

ListIsTheSame == todo # <<>> ~> todo = <<>> /\ ListAsOfTheFile
=============================================================================
