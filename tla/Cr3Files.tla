------------------------------ MODULE Cr3Files ------------------------------
(***************************************************************************)
(* CR3 files (canon/cr3.rs) over their ISO container (mp4/container.rs):   *)
(* what is asked of a file once it is parsed.  The raw picture is the      *)
(* third track, the thumbnails are the header's, the JPEG tracks and the   *)
(* preview, and the metadata are four TIFF blocks that are made together   *)
(* the first time any of them is asked for.                                *)
(***************************************************************************)
EXTENDS Mp4Boxes

VARIABLES
    meta_ifds,    \* the cell of the metadata blocks: what it was set to, if it was
    thumbnails,   \* the cell of the thumbnails
    answer        \* of the last call

cr3_vars == <<mp4_vars, meta_ifds, thumbnails, answer>>

Answer(call, error) == [call |-> call, error |-> error]

Cr3Init ==
    /\ Mp4Init
    /\ meta_ifds = <<>>
    /\ thumbnails = <<>>
    /\ answer = Answer("none", "none")

\* A call, of a file whose container could be loaded; a panic is the last.
Asked == outcome = "ok" /\ answer.error # "panic"

-----------------------------------------------------------------------------
(* The tracks, counted from 1. *)

track_count == Len(ctx.tracks)

is_track_video(k) ==
    k <= track_count /\ ctx.tracks[k].tkhd # None /\ ctx.tracks[k].type = "vide"

\* The first entry of a list, which has to be there.
FirstSample(t) == t.stsz = None \/ Box(t.stsz).x > 0 \/ Box(t.stsz).n > 0
FirstOffset(t) == t.stco = None \/ Box(t.stco).n > 0

\* There is a description, or it is a panic to take the first.
raw_track(k) ==
    LET t == ctx.tracks[k]
        first == t.stsd.entries[1]
        error == IF k > track_count \/ t.type # "vide" THEN "not found"
                 ELSE IF t.stsd.box = None THEN "format"
                 ELSE IF t.stsd.entries = <<>> THEN "panic"
                 ELSE IF first.kind \notin {"raw", "jpeg"} THEN "format"
                 ELSE IF FirstSample(t) /\ FirstOffset(t) THEN "none" ELSE "panic"
    IN IF error # "none" THEN [error |-> error]
       ELSE [error |-> "none", is_jpeg |-> first.kind = "jpeg", entry |-> first.box,
             len |-> t.stsz, offset |-> t.stco]

-----------------------------------------------------------------------------
(* The metadata blocks. *)

\* A block of less than four bytes is no TIFF; one that cannot be loaded is
\* a panic, whichever of the four was asked for.  Without a header there are
\* no blocks.
IfdHolders ==
    IF ctx.craw = None THEN <<>>
    ELSE [k \in 1 .. 4 |->
            LET i == ctx.metas[<<"CMT1", "CMT2", "CMT3", "CMT4">>[k]]
            IN IF i # None /\ Box(i).x = "short" THEN None ELSE i]
IfdsLoad == \A k \in 1 .. Len(IfdHolders) : IfdHolders[k] # None => Box(IfdHolders[k]).x # "bad"

\* Asked for the block idx, counted from 0: where there are none, the first
\* is past the end, the test of the index being off by one.
metadata_block(call, idx, given) ==
    IF meta_ifds = <<>> /\ ~IfdsLoad
    THEN answer' = Answer(call, "panic") /\ UNCHANGED meta_ifds
    ELSE /\ meta_ifds' = <<IfdHolders>>
         /\ answer' = IF Len(IfdHolders) = 0 /\ idx = 0 THEN Answer(call, "panic") ELSE given

MetadataBlock ==
    /\ Asked
    /\ \E idx \in 0 .. 3 : metadata_block("ifd", idx, Answer("ifd", "none"))
    /\ UNCHANGED thumbnails

-----------------------------------------------------------------------------
(* The thumbnails. *)

Descriptions(k) ==
    IF is_track_video(k) /\ raw_track(k).error = "none" /\ raw_track(k).is_jpeg
    THEN <<[from |-> "track", box |-> raw_track(k).entry]>> ELSE <<>>

OfHeader ==
    IF ctx.craw # None /\ ctx.thumbnail # None /\ Box(ctx.thumbnail).x # "zero"
    THEN <<[from |-> "header", box |-> ctx.thumbnail]>> ELSE <<>>

\* The preview is described by what its offset leads to, if it can be read
\* and is of any size.
OfPreview == IF Len(ctx.offsets) < 2 THEN {<<>>} ELSE {<<>>, <<[from |-> "preview", box |-> None]>>}

Thumbnails ==
    /\ Asked /\ thumbnails = <<>>
    /\ IF \E k \in 1 .. track_count : is_track_video(k) /\ raw_track(k).error = "panic"
       THEN answer' = Answer("thumbnails", "panic") /\ UNCHANGED thumbnails
       ELSE \E preview \in OfPreview :
              /\ thumbnails' = <<OfHeader \o FlattenSeq([k \in 1 .. track_count |-> Descriptions(k)]) \o preview>>
              /\ answer' = Answer("thumbnails", "none")
    /\ UNCHANGED meta_ifds

-----------------------------------------------------------------------------
(* The raw data. *)

MainTrack == 3    \* index 2

\* What load_rawdata says of the main track.
EvenJpeg ==      \* mutant: the main track is not asked whether it is JPEG
    IF is_track_video(MainTrack) THEN raw_track(MainTrack).error ELSE "not found"

RawError ==
    IF ~is_track_video(MainTrack) THEN "not found"
    ELSE LET raw == raw_track(MainTrack)
         IN IF raw.error = "none" /\ raw.is_jpeg THEN "not found" ELSE raw.error

\* The maker note is asked for the sensor, and then the main block for the
\* colour matrices, when there is a raw picture.
RawData ==
    /\ Asked
    /\ IF RawError = "none"
       THEN metadata_block("raw_data", 0, [call |-> "raw_data", error |-> "none", raw |-> raw_track(MainTrack)])
       ELSE /\ answer' = Answer("raw_data", IF RawError = "panic" THEN "panic" ELSE "not found")
            /\ UNCHANGED meta_ifds
    /\ UNCHANGED thumbnails

Cr3Next ==
    \/ Mp4Next /\ UNCHANGED <<meta_ifds, thumbnails, answer>>
    \/ (MetadataBlock \/ Thumbnails \/ RawData) /\ UNCHANGED mp4_vars

-----------------------------------------------------------------------------
\* The raw data of a well-formed file are those of the first entry of its
\* third trak, with the sizes and offsets of that trak, and no thumbnail is
\* made of the same track.
RawIsTheThirdTracks ==
    answer.call = "raw_data" /\ answer.error = "none" /\ WellFormed =>
        LET traks == SelectSeq([i \in Indexes |-> i], LAMBDA i : Box(i).name = "trak" /\ Path(i) = <<"moov">>)
            third == Inside(mp4.boxes, traks[MainTrack])
            entry == answer.raw.entry
        IN /\ entry \in third /\ Box(entry).name = "CRAW"
           /\ \A j \in Inside(mp4.boxes, entry) : Box(j).name # "JPEG"
           /\ {answer.raw.len, answer.raw.offset} \ {None} \subseteq third
           /\ \A list \in Range(thumbnails) : \A k \in 1 .. Len(list) : list[k].box # entry

=============================================================================
