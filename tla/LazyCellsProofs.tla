-------------------------- MODULE LazyCellsProofs --------------------------
(***************************************************************************)
(* Theorems about LazyCells: where the decoder of a preview starts, what   *)
(* the cells hold and what is in the list of thumbnails, for every order   *)
(* of calls and every failure.  Only the end of a call is left to TLC.     *)
(***************************************************************************)
EXTENDS LazyCells, SequenceTheorems, TLAPS

Steps ==
  {"container", "load", "dirs", "preview", "stream", "info", "exif", "offset",
   "thumbnails", "keep", "meta", "load meta", "cfa", "load cfa", "cfa dirs",
   "exif of the file", "bytes"}

OfDecoder == {"info", "exif"}

Format == file.format

(* After the preview the decoder is asked, in an RW2 file perhaps after    *)
(* the offset of the stream.                                               *)
DecoderIsNext(t, i) ==
  \/ i < Len(t) /\ t[i + 1] \in OfDecoder
  \/ /\ Format = "rw2" /\ i + 1 < Len(t)
     /\ t[i + 1] = "offset" /\ t[i + 2] \in OfDecoder

StepsInOrder(t) ==
  /\ t \in Seq(Steps)
  /\ \A i \in 2 .. Len(t) : t[i] \notin {"load", "load meta", "load cfa"}
  /\ \A i \in 1 .. Len(t) : t[i] \in {"preview", "stream"} => DecoderIsNext(t, i)

JpegSteps(t) ==
  Format = "jpeg" =>
    \A i \in 1 .. Len(t) :
      /\ t[i] \in {"thumbnails", "container", "exif", "keep", "bytes"}
      /\ i < Len(t) /\ t[i] = "container" => t[i + 1] = "exif"

(* The stream is looked for right after its file was read.                 *)
StreamIsNear ==
  \A i \in 1 .. Len(todo) :
    todo[i] = "stream" =>
      /\ ~IsSet("preview")
      /\ Format = "raf" => i = 1
      /\ Format = "rw2" => /\ i < 4
                           /\ i > 1 => todo[i - 1] = "dirs"
                           /\ i = 3 => todo[1] \in {"container", "load"}
                           /\ i < 3 => IsSet("container")
                           /\ i = 1 => IsSet("dirs")

(* A stream that waits for its decoder.                                    *)
Waits == decoder.state = "unset" /\ Holds("preview")

NothingBeforeTheDecoder ==
  CASE Format = "raf" -> todo # <<>> /\ todo[1] \in OfDecoder
    [] Format = "rw2" ->
         /\ IsSet("container") /\ IsSet("dirs")
         /\ \/ Len(todo) > 0 /\ todo[1] \in OfDecoder
            \/ Len(todo) > 1 /\ todo[1] \in {"offset", "dirs"} /\ todo[2] \in OfDecoder
            \/ /\ Len(todo) > 2 /\ todo[1] = "container" /\ todo[2] = "dirs"
               /\ todo[3] \in OfDecoder
    [] Format = "jpeg" ->
         /\ IsSet("container") /\ ~IsSet("thumbnails")
         /\ todo # <<>> => todo[1] \in {"thumbnails", "container", "exif"}

StreamIsPlaced ==
  Waits => /\ cur["stream"] = 0 /\ base["stream"] = Place("stream")
           /\ NothingBeforeTheDecoder

DecoderIsPlaced ==
  /\ decoder.state \in {"unset", "fresh", "read", "broken"}
  /\ decoder.state = "unset" => ~IsSet("info") /\ ~IsSet("exif")
  /\ decoder.state = "fresh" =>
       /\ cur["decoder"] = 0 /\ base["decoder"] = Place("stream")
       /\ todo # <<>> /\ Asked(todo[1]) /\ todo[1] \in OfDecoder
  /\ decoder.state = "read" => decoder.from \in Int
  /\ decoder.state = "broken" /\ Has("stream") => "decoder" \in hit

JpegContainer ==
  Format = "jpeg" =>
    /\ IsSet("container") => cells["preview"] = 0
    /\ ~IsSet("container") =>
         /\ ~IsSet("preview") /\ ~IsSet("thumbnails")
         /\ todo # <<>> => todo[1] \in {"container", "thumbnails"}

DirsAreRead == cells["dirs"] = None => "file" \in hit

PartsArePlaced ==
  /\ todo # <<>> /\ todo[1] = "load meta" =>
       Has("meta") /\ cur["meta"] = 0 /\ base["meta"] = Place("meta")
  /\ todo # <<>> /\ todo[1] = "load cfa" => Has("cfa")

(* What is still to be done before the list is kept.                       *)
OfPreview == IF Format = "jpeg" THEN {"container"} ELSE {"preview", "stream"}

KeptWhenDone ==
  \A i \in 1 .. Len(todo) :
    /\ todo[i] \in {"exif", "keep"} =>
         IsSet("preview") \/ \E k \in 1 .. i - 1 : todo[k] \in OfPreview
    /\ todo[i] = "keep" =>
         \/ IsSet("exif") \/ cells["preview"] = None
         \/ \E k \in 1 .. i - 1 : todo[k] = "exif"

CellsOK == /\ file \in FileType /\ cells = [c \in Cell |-> cells[c]]
           /\ base \in [View -> Int] /\ cur \in [View -> Int \cup {Lost}]

LInv ==
  /\ CellsOK
  /\ StepsInOrder(todo) /\ JpegSteps(todo)
  /\ StreamIsNear /\ StreamIsPlaced /\ DecoderIsPlaced
  /\ JpegContainer /\ DirsAreRead /\ PartsArePlaced /\ KeptWhenDone
  /\ DecoderStartsAtItsStream /\ FailuresAreContained /\ ListAsOfTheFile
-----------------------------------------------------------------------------
LEMMA PlacesAreNumbers ==
  /\ View = {"file", "stream", "decoder", "meta", "cfa"}
  /\ \A v \in View : Place(v) \in Nat
  /\ \A n \in Int : n # Unset /\ n # None /\ n # Lost
  /\ 0 # Unset /\ 0 # None /\ 0 # Lost /\ Unset # None
BY LazyCellsAssumption DEF Place

LEMMA FirstStep ==
  ASSUME todo \in Seq(Steps)
  PROVE  /\ Len(todo) \in Nat
         /\ todo = <<>> <=> Len(todo) = 0
         /\ todo # <<>> => Head(todo) = todo[1] /\ todo[1] \in Steps
BY HeadTailProperties, EmptySeq

(* The first step was done.                                                *)
Popped ==
  /\ todo \in Seq(Steps) /\ Len(todo) \in Nat /\ Len(todo) > 0
  /\ todo' \in Seq(Steps) /\ Len(todo') = Len(todo) - 1
  /\ \A i \in 1 .. Len(todo') : todo'[i] = todo[i + 1]

(* The first n steps are gone.                                             *)
Dropped(n) ==
  /\ todo' \in Seq(Steps) /\ Len(todo') \in Nat /\ Len(todo) = Len(todo') + n
  /\ \A i \in 1 .. Len(todo') : todo'[i] = todo[i + n]

LEMMA DonePops ==
  ASSUME todo \in Seq(Steps), todo # <<>>, Done PROVE Popped
BY FirstStep, HeadTailProperties DEF Done, Popped

(* Others take the place of the first step.                                *)
Pushed(more) ==
  /\ todo \in Seq(Steps) /\ Len(todo) \in Nat /\ Len(todo) > 0
  /\ todo' \in Seq(Steps) /\ Len(todo') = Len(more) + Len(todo) - 1
  /\ \A i \in 1 .. Len(more) : todo'[i] = more[i]
  /\ \A i \in Len(more) + 1 .. Len(todo') : todo'[i] = todo[i - Len(more) + 1]

LEMMA ThenPushes ==
  ASSUME todo \in Seq(Steps), todo # <<>>, NEW more \in Seq(Steps), Then(more)
  PROVE  Pushed(more)
<1>1. /\ Tail(todo) \in Seq(Steps) /\ Len(Tail(todo)) = Len(todo) - 1
      /\ \A i \in 1 .. Len(Tail(todo)) : Tail(todo)[i] = todo[i + 1]
  BY HeadTailProperties
<1>2. /\ todo' \in Seq(Steps) /\ Len(todo') = Len(more) + Len(Tail(todo))
      /\ \A i \in 1 .. Len(more) + Len(Tail(todo)) :
           todo'[i] = IF i <= Len(more) THEN more[i] ELSE Tail(todo)[i - Len(more)]
  BY <1>1, ConcatProperties DEF Then
<1>3. Len(more) \in Nat /\ Len(todo) \in Nat /\ Len(todo) > 0
  BY FirstStep
<1>4. QED
  BY <1>1, <1>2, <1>3 DEF Pushed

LEMMA PushOne ==
  ASSUME NEW more, Len(more) = 1, Pushed(more)
  PROVE  /\ todo \in Seq(Steps) /\ Len(todo) \in Nat /\ Len(todo) > 0
         /\ todo' \in Seq(Steps) /\ Len(todo') = Len(todo) /\ todo'[1] = more[1]
         /\ \A i \in 2 .. Len(todo) : todo'[i] = todo[i]
BY DEF Pushed

LEMMA Indices ==
  \A n \in Nat : \A i \in 1 .. n :
    /\ i = 1 \/ i \in 2 .. n
    /\ i = 1 \/ i = 2 \/ i = 3 \/ ~ i < 4
    /\ i = 2 => i > 1 /\ i - 1 = 1
    /\ i = 3 => i > 1 /\ ~ i < 3 /\ i - 1 \in 2 .. n
    /\ \A k \in 1 .. i - 1 : k \in 1 .. n /\ (k = 1 \/ k \in 2 .. i - 1)
    /\ \A k \in 2 .. i - 1 : k \in 1 .. i - 1 /\ k \in 2 .. n
    /\ i < n => i + 1 \in 2 .. n
    /\ i + 1 < n => i + 2 \in 2 .. n /\ i + 1 \in 2 .. n
OBVIOUS

-----------------------------------------------------------------------------
(* Steps that are gone leave the others in order.                          *)
LEMMA DropKeepsOrder ==
  ASSUME LInv, UNCHANGED file, NEW n \in Nat, n > 0, Dropped(n)
  PROVE  /\ StepsInOrder(todo)' /\ JpegSteps(todo)'
         /\ \A i \in 1 .. Len(todo') : todo'[i] \notin {"load", "load meta", "load cfa"}
<1>1. /\ \A i \in 2 .. Len(todo) : todo[i] \notin {"load", "load meta", "load cfa"}
      /\ \A i \in 1 .. Len(todo) :
           todo[i] \in {"preview", "stream"} => DecoderIsNext(todo, i)
      /\ JpegSteps(todo)
  BY DEF LInv, StepsInOrder
<1>2. \A i \in 1 .. Len(todo') :
        i + n \in 2 .. Len(todo) /\ i + n \in 1 .. Len(todo) /\ todo'[i] = todo[i + n]
  BY DEF Dropped
<1>3. \A i \in 1 .. Len(todo') :
        todo'[i] \in {"preview", "stream"} => DecoderIsNext(todo, i)'
  <2> SUFFICES ASSUME NEW i \in 1 .. Len(todo'), todo'[i] \in {"preview", "stream"}
               PROVE  DecoderIsNext(todo, i)'
    OBVIOUS
  <2>1. DecoderIsNext(todo, i + n)
    BY <1>1, <1>2
  <2>2. /\ i + n < Len(todo) => i < Len(todo') /\ todo'[i + 1] = todo[i + n + 1]
        /\ i + n + 1 < Len(todo) => i + 1 < Len(todo') /\ todo'[i + 2] = todo[i + n + 2]
    <3>1. i + n < Len(todo) => i + 1 \in 1 .. Len(todo') /\ (i + 1) + n = i + n + 1
      BY DEF Dropped
    <3>2. i + n + 1 < Len(todo) => i + 2 \in 1 .. Len(todo') /\ (i + 2) + n = i + n + 2
      BY DEF Dropped
    <3>3. QED
      BY <3>1, <3>2 DEF Dropped
  <2>3. QED
    BY <2>1, <2>2 DEF DecoderIsNext, Format
<1>4. JpegSteps(todo)'
  <2> SUFFICES ASSUME Format = "jpeg", NEW i \in 1 .. Len(todo')
               PROVE  /\ todo'[i] \in {"thumbnails", "container", "exif", "keep", "bytes"}
                      /\ i < Len(todo') /\ todo'[i] = "container" => todo'[i + 1] = "exif"
    BY DEF JpegSteps, Format
  <2>1. /\ todo[i + n] \in {"thumbnails", "container", "exif", "keep", "bytes"}
        /\ i + n < Len(todo) /\ todo[i + n] = "container" => todo[i + n + 1] = "exif"
    BY <1>1, <1>2 DEF JpegSteps
  <2>2. i < Len(todo') => i + n < Len(todo) /\ todo'[i + 1] = todo[i + n + 1]
    <3>1. i < Len(todo') => i + 1 \in 1 .. Len(todo') /\ (i + 1) + n = i + n + 1
      BY DEF Dropped
    <3>2. QED
      BY <3>1 DEF Dropped
  <2>3. QED
    BY <1>2, <2>1, <2>2
<1>5. \A i \in 1 .. Len(todo') : todo'[i] \notin {"load", "load meta", "load cfa"}
  BY <1>1, <1>2
<1>6. StepsInOrder(todo)'
  <2>1. todo' \in Seq(Steps) /\ Len(todo') \in Nat
    BY DEF Dropped
  <2>2. \A i \in 2 .. Len(todo') : todo'[i] \notin {"load", "load meta", "load cfa"}
    <3>1. \A i \in 2 .. Len(todo') : i \in 1 .. Len(todo')
      BY <2>1
    <3>2. QED
      BY ONLY <1>5, <3>1
  <2>3. QED
    BY <1>3, <2>1, <2>2 DEF StepsInOrder
<1>7. QED
  BY <1>4, <1>5, <1>6

LEMMA PopKeepsOrder ==
  ASSUME LInv, Popped, UNCHANGED file
  PROVE  /\ StepsInOrder(todo)' /\ JpegSteps(todo)'
         /\ todo' # <<>> => todo'[1] \notin {"load", "load meta", "load cfa"}
<1>1. Dropped(1)
  BY DEF Popped, Dropped
<1>2. todo' # <<>> => 1 \in 1 .. Len(todo')
  BY EmptySeq DEF Popped
<1>3. /\ StepsInOrder(todo)' /\ JpegSteps(todo)'
      /\ \A i \in 1 .. Len(todo') : todo'[i] \notin {"load", "load meta", "load cfa"}
  <2>1. 1 \in Nat /\ 1 > 0
    OBVIOUS
  <2>2. QED
    BY <1>1, <2>1, DropKeepsOrder
<1>4. QED
  BY <1>2, <1>3

(* Only one stream is looked for.                                          *)
LEMMA OneStream ==
  ASSUME LInv, NEW i \in 1 .. Len(todo), NEW j \in 1 .. Len(todo),
         todo[i] = "stream", todo[j] = "stream"
  PROVE  i = j
<1>1. Format \in {"raf", "rw2"}
  BY DEF LInv, CellsOK, FileType, JpegSteps, Format
<1>2. StreamIsNear /\ Len(todo) \in Nat
  BY FirstStep DEF LInv, StepsInOrder
<1>3. QED
  BY <1>1, <1>2 DEF StreamIsNear

LEMMA PopKeepsStream ==
  ASSUME LInv, Popped, UNCHANGED file,
         IsSet("container") \/ todo[1] \in {"container", "load"} => IsSet("container")',
         IsSet("dirs") \/ todo[1] = "dirs" => IsSet("dirs")',
         todo[1] = "stream" \/ Format = "jpeg" \/ UNCHANGED cells["preview"]
  PROVE  StreamIsNear'
<1> SUFFICES ASSUME NEW i \in 1 .. Len(todo'), todo'[i] = "stream"
             PROVE  /\ ~IsSet("preview")'
                    /\ Format = "raf" => i = 1
                    /\ Format = "rw2" => /\ i < 4
                                         /\ i > 1 => todo'[i - 1] = "dirs"
                                         /\ i = 3 => todo'[1] \in {"container", "load"}
                                         /\ i < 3 => IsSet("container")'
                                         /\ i = 1 => IsSet("dirs")'
  BY DEF StreamIsNear, Format
<1>1. i + 1 \in 2 .. Len(todo) /\ todo[i + 1] = "stream" /\ Len(todo) \in Nat
  BY DEF Popped
<1>2. Format \in {"raf", "rw2"}
  BY <1>1 DEF LInv, CellsOK, FileType, JpegSteps, Format
<1>3. todo[1] # "stream"
  BY <1>1, OneStream
<1>4. /\ ~IsSet("preview")
      /\ Format # "raf"
      /\ i + 1 < 4 /\ todo[i] = "dirs"
      /\ i + 1 = 3 => todo[1] \in {"container", "load"}
      /\ i + 1 < 3 => IsSet("container")
  BY <1>1, <1>2 DEF LInv, StreamIsNear
<1>5. i \in 1 .. 2
  BY <1>1, <1>4
<1>6. ~IsSet("preview")'
  BY <1>2, <1>3, <1>4 DEF IsSet
<1>7. i = 1 => todo[1] = "dirs" /\ IsSet("dirs")' /\ IsSet("container")'
  BY <1>4
<1>8. i = 2 => todo'[1] = "dirs" /\ IsSet("container")'
  BY <1>4 DEF Popped
<1>9. QED
  BY <1>2, <1>4, <1>5, <1>6, <1>7, <1>8

LEMMA PopKeepsList ==
  ASSUME LInv, Popped, UNCHANGED file,
         IsSet("preview") \/ todo[1] \in OfPreview => IsSet("preview")',
         IsSet("exif") => IsSet("exif")',
         cells["preview"] = None => cells'["preview"] = None,
         todo[1] = "exif" => IsSet("exif")' \/ cells'["preview"] = None
  PROVE  KeptWhenDone'
<1>1. OfPreview' = OfPreview
  BY DEF OfPreview, Format
<1>2. ASSUME NEW i \in 1 .. Len(todo'), todo'[i] \in {"exif", "keep"}
      PROVE  IsSet("preview")' \/ \E k \in 1 .. i - 1 : todo'[k] \in OfPreview
  <2>1. i + 1 \in 1 .. Len(todo) /\ todo[i + 1] = todo'[i]
    BY DEF Popped
  <2>2. IsSet("preview") \/ \E k \in 1 .. i : todo[k] \in OfPreview
    BY <1>2, <2>1 DEF LInv, KeptWhenDone
  <2>3. ASSUME NEW k \in 1 .. i, todo[k] \in OfPreview
        PROVE  todo[1] \in OfPreview \/ \E l \in 1 .. i - 1 : todo'[l] \in OfPreview
    <3>1. CASE k = 1
      BY <2>3, <3>1
    <3>2. CASE k # 1
      <4>1. k - 1 \in 1 .. i - 1 /\ todo'[k - 1] = todo[k]
        BY <3>2 DEF Popped
      <4>2. QED
        BY <2>3, <4>1
    <3>3. QED
      BY <3>1, <3>2
  <2>4. QED
    BY <2>2, <2>3
<1>3. ASSUME NEW i \in 1 .. Len(todo'), todo'[i] = "keep"
      PROVE  \/ IsSet("exif")' \/ cells'["preview"] = None
             \/ \E k \in 1 .. i - 1 : todo'[k] = "exif"
  <2>1. i + 1 \in 1 .. Len(todo) /\ todo[i + 1] = todo'[i]
    BY DEF Popped
  <2>2. IsSet("exif") \/ cells["preview"] = None \/ \E k \in 1 .. i : todo[k] = "exif"
    BY <1>3, <2>1 DEF LInv, KeptWhenDone
  <2>3. ASSUME NEW k \in 1 .. i, todo[k] = "exif"
        PROVE  todo[1] = "exif" \/ \E l \in 1 .. i - 1 : todo'[l] = "exif"
    <3>1. CASE k = 1
      BY <2>3, <3>1
    <3>2. CASE k # 1
      <4>1. k - 1 \in 1 .. i - 1 /\ todo'[k - 1] = todo[k]
        BY <3>2 DEF Popped
      <4>2. QED
        BY <2>3, <4>1
    <3>3. QED
      BY <3>1, <3>2
  <2>4. QED
    BY <2>2, <2>3
<1>4. QED
  BY <1>1, <1>2, <1>3 DEF KeptWhenDone

-----------------------------------------------------------------------------
(* What the cells hold does not depend on what is still to be done; a cell *)
(* that is not written goes on to say what it said.                        *)
PreviewIsOK ==
  IsSet("preview") /\ Untouched({"file", "stream"})
    => (cells["preview"] = None) = (Format = "rw2" /\ ~Has("stream"))

InfoIsOK(c) ==
  IsSet(c) /\ Has("stream") /\ Untouched({"decoder"})
    => cells[c] = Found(c, Place("stream"))

PartIsOK(c) ==
  IsSet(c) /\ Untouched({c}) => cells[c] = IF Has(c) THEN Place(c) ELSE None

AnswersOK ==
  DirsAreRead /\ DecoderStartsAtItsStream /\ FailuresAreContained /\ ListAsOfTheFile

LEMMA AnswersAre ==
  /\ FailuresAreContained <=> /\ PreviewIsOK /\ InfoIsOK("info") /\ InfoIsOK("exif")
                              /\ PartIsOK("meta") /\ PartIsOK("cfa")
  /\ FailuresAreContained' <=>
       /\ PreviewIsOK' /\ InfoIsOK("info")' /\ InfoIsOK("exif")'
       /\ PartIsOK("meta")' /\ PartIsOK("cfa")'
BY DEF FailuresAreContained, PreviewIsOK, InfoIsOK, PartIsOK, Format

LEMMA CellStays ==
  ASSUME LInv, UNCHANGED file, hit \subseteq hit'
  PROVE  /\ UNCHANGED cells["dirs"] => DirsAreRead'
         /\ UNCHANGED decoder => DecoderStartsAtItsStream'
         /\ UNCHANGED cells["preview"] => PreviewIsOK'
         /\ UNCHANGED cells["info"] => InfoIsOK("info")'
         /\ UNCHANGED cells["exif"] => InfoIsOK("exif")'
         /\ UNCHANGED cells["meta"] => PartIsOK("meta")'
         /\ UNCHANGED cells["cfa"] => PartIsOK("cfa")'
         /\ UNCHANGED cells["thumbnails"] => ListAsOfTheFile'
<1>1. UNCHANGED cells["dirs"] => DirsAreRead'
  BY DEF LInv, DirsAreRead
<1>2. UNCHANGED decoder => DecoderStartsAtItsStream'
  BY DEF LInv, DecoderStartsAtItsStream, Has, Place
<1>3. \A views : Untouched(views)' => Untouched(views)
  BY DEF Untouched
<1>4. /\ PreviewIsOK /\ InfoIsOK("info") /\ InfoIsOK("exif")
      /\ PartIsOK("meta") /\ PartIsOK("cfa")
  BY AnswersAre DEF LInv
<1>5. UNCHANGED cells["preview"] => PreviewIsOK'
  BY <1>3, <1>4 DEF PreviewIsOK, IsSet, Has, Format
<1>6. \A c : InfoIsOK(c) /\ UNCHANGED cells[c] => InfoIsOK(c)'
  BY <1>3 DEF InfoIsOK, IsSet, Has, Found, Place
<1>7. \A c : PartIsOK(c) /\ UNCHANGED cells[c] => PartIsOK(c)'
  BY <1>3 DEF PartIsOK, IsSet, Has, Place
<1>8. UNCHANGED cells["thumbnails"] => ListAsOfTheFile'
  BY <1>3 DEF LInv, ListAsOfTheFile, Has, IsSet
<1>9. QED
  BY <1>1, <1>2, <1>4, <1>5, <1>6, <1>7, <1>8

LEMMA AnswersStay ==
  ASSUME LInv, UNCHANGED <<file, cells, decoder>>, hit \subseteq hit'
  PROVE  AnswersOK'
<1>1. \A c \in Cell : UNCHANGED cells[c]
  OBVIOUS
<1>2. /\ DirsAreRead' /\ DecoderStartsAtItsStream' /\ ListAsOfTheFile'
      /\ PreviewIsOK' /\ InfoIsOK("info")' /\ InfoIsOK("exif")'
      /\ PartIsOK("meta")' /\ PartIsOK("cfa")'
  BY <1>1, CellStays DEF Cell
<1>3. QED
  BY <1>2, AnswersAre DEF AnswersOK

(* A stream only waits, and a decoder is only fresh, while nothing else is *)
(* to be done.                                                             *)
Other ==
  {"load", "preview", "stream", "keep", "meta", "load meta", "cfa", "load cfa",
   "cfa dirs", "exif of the file", "bytes"}

LEMMA NothingWaits ==
  ASSUME LInv, Len(todo) > 0,
         \/ todo[1] \in Other
         \/ todo[1] = "container" /\ ~IsSet("container")
         \/ todo[1] = "dirs" /\ ~IsSet("dirs")
  PROVE  ~ Waits
<1>1. Format \in {"raf", "rw2", "jpeg"}
  BY DEF LInv, CellsOK, FileType, Format
<1>2. todo # <<>>
  BY EmptySeq
<1>3. ASSUME Waits PROVE NothingBeforeTheDecoder
  BY <1>3 DEF LInv, StreamIsPlaced
<1>4. QED
  BY <1>1, <1>2, <1>3 DEF NothingBeforeTheDecoder, OfDecoder, Other

LEMMA NoneIsFresh ==
  ASSUME LInv, todo = <<>> \/ todo[1] \notin OfDecoder
  PROVE  decoder.state # "fresh"
BY DEF LInv, DecoderIsPlaced

LEMMA DecoderStays ==
  ASSUME LInv, todo = <<>> \/ todo[1] \notin OfDecoder,
         UNCHANGED <<file, decoder>>, hit \subseteq hit',
         UNCHANGED <<cells["info"], cells["exif"]>>
  PROVE  DecoderIsPlaced'
BY NoneIsFresh DEF LInv, DecoderIsPlaced, IsSet, Has

LEMMA StreamStays ==
  ASSUME ~ Waits, UNCHANGED decoder, UNCHANGED cells["preview"]
  PROVE  StreamIsPlaced'
BY DEF StreamIsPlaced, Waits, Holds

(* The container of a JPEG file comes first.                               *)
LEMMA JpegStays ==
  ASSUME LInv, Len(todo) > 0, UNCHANGED file, todo[1] \notin {"container", "thumbnails"},
         UNCHANGED <<cells["container"], cells["preview"]>>
  PROVE  JpegContainer'
<1>1. todo # <<>>
  BY EmptySeq
<1>2. QED
  BY <1>1 DEF LInv, JpegContainer, IsSet, Format

LEMMA PartsStay ==
  ASSUME todo' # <<>> => todo'[1] \notin {"load meta", "load cfa"}
  PROVE  PartsArePlaced'
BY DEF PartsArePlaced
-----------------------------------------------------------------------------
(* Steps that find what they want.                                         *)
LEMMA AgainKeepsLInv ==
  ASSUME LInv, NEW c \in {"container", "dirs", "preview", "info", "exif", "thumbnails", "meta", "cfa"},
         Again(c, c)
  PROVE  LInv'
<1>1. /\ todo # <<>> /\ todo[1] = c /\ IsSet(c) /\ Done
      /\ UNCHANGED <<windows, file, cells, decoder, hit>>
      /\ todo \in Seq(Steps)
  BY FirstStep DEF Again, Doing, LInv, StepsInOrder
<1>2. Popped
  BY <1>1, DonePops
<1>3. /\ UNCHANGED <<file, cells, decoder, hit, base, cur>>
      /\ \A d : IsSet(d)' = IsSet(d) /\ Holds(d)' = Holds(d) /\ Has(d)' = Has(d)
  BY <1>1 DEF windows, IsSet, Holds, Has
<1>4. StepsInOrder(todo)' /\ JpegSteps(todo)' /\ PartsArePlaced'
  BY <1>2, <1>3, PopKeepsOrder, PartsStay
<1>5. StreamIsNear'
  BY <1>1, <1>2, <1>3, PopKeepsStream
<1>6. KeptWhenDone'
  <2>1. c \in OfPreview => IsSet("preview")
    BY <1>1, PlacesAreNumbers DEF OfPreview, LInv, CellsOK, JpegContainer, IsSet, Format
  <2>2. QED
    BY <1>1, <1>2, <1>3, <2>1, PopKeepsList
<1>7. AnswersOK' /\ CellsOK'
  BY <1>3, AnswersStay DEF LInv, CellsOK
<1>8. DecoderIsPlaced'
  <2>1. decoder.state # "fresh"
    BY <1>1 DEF LInv, DecoderIsPlaced, Asked
  <2>2. QED
    BY <1>3, <2>1 DEF LInv, DecoderIsPlaced
<1>9. JpegContainer'
  <2>1. Format = "jpeg" => IsSet("container")
    BY <1>1 DEF LInv, JpegContainer
  <2>2. QED
    BY <1>3, <2>1 DEF LInv, JpegContainer, Format
<1>10. StreamIsPlaced'
  <2> SUFFICES ASSUME Waits PROVE NothingBeforeTheDecoder'
    BY <1>3 DEF LInv, StreamIsPlaced, Waits, Place
  <2>1. c \notin OfDecoder
    BY <1>1 DEF LInv, DecoderIsPlaced, Waits, OfDecoder
  <2>2. NothingBeforeTheDecoder
    BY DEF LInv, StreamIsPlaced
  <2>3. CASE Format = "raf"
    BY <1>1, <2>1, <2>2, <2>3 DEF NothingBeforeTheDecoder
  <2>4. CASE Format = "rw2"
    <3>1. CASE Len(todo) > 1 /\ todo[1] \in {"offset", "dirs"} /\ todo[2] \in OfDecoder
      <4>1. Len(todo') > 0 /\ todo'[1] = todo[2]
        BY <1>2, <3>1 DEF Popped
      <4>2. QED
        BY <1>3, <2>2, <2>4, <3>1, <4>1 DEF NothingBeforeTheDecoder, Format, OfDecoder
    <3>2. CASE /\ Len(todo) > 2 /\ todo[1] = "container" /\ todo[2] = "dirs"
               /\ todo[3] \in OfDecoder
      <4>1. Len(todo') > 1 /\ todo'[1] = todo[2] /\ todo'[2] = todo[3]
        BY <1>2, <3>2 DEF Popped
      <4>2. QED
        BY <1>3, <2>2, <2>4, <3>2, <4>1 DEF NothingBeforeTheDecoder, Format, OfDecoder
    <3>3. QED
      BY <1>1, <2>1, <2>2, <2>4, <3>1, <3>2 DEF NothingBeforeTheDecoder
  <2>5. CASE Format = "jpeg"
    <3>1. c = "container" /\ IsSet("container") /\ ~IsSet("thumbnails")
      BY <1>1, <2>1, <2>2, <2>5 DEF NothingBeforeTheDecoder, OfDecoder
    <3>2. ASSUME todo' # <<>> PROVE todo'[1] = "exif"
      <4>1. 1 < Len(todo) /\ 1 \in 1 .. Len(todo) /\ 1 + 1 = 2 /\ todo'[1] = todo[1 + 1]
        BY <1>2, <3>2, EmptySeq DEF Popped
      <4>2. QED
        BY <1>1, <2>5, <3>1, <4>1 DEF LInv, JpegSteps
    <3>3. QED
      BY <1>3, <2>5, <3>1, <3>2 DEF NothingBeforeTheDecoder, Format
  <2>6. QED
    BY <2>3, <2>4, <2>5 DEF LInv, CellsOK, FileType, Format
<1>11. QED
  BY <1>4, <1>5, <1>6, <1>7, <1>8, <1>9, <1>10 DEF LInv, AnswersOK

LEMMA NoPreviewKeepsLInv == ASSUME LInv, NoPreview PROVE LInv'
<1>1. /\ todo # <<>> /\ todo[1] \in {"info", "exif", "offset"} /\ Done
      /\ cells["preview"] \in {Unset, None}
      /\ UNCHANGED <<windows, file, cells, decoder, hit>>
      /\ todo \in Seq(Steps)
  BY FirstStep DEF NoPreview, Doing, LInv, StepsInOrder
<1>2. Popped
  BY <1>1, DonePops
<1>3. /\ UNCHANGED <<file, cells, decoder, hit, base, cur>>
      /\ \A d : IsSet(d)' = IsSet(d) /\ Holds(d)' = Holds(d) /\ Has(d)' = Has(d)
      /\ ~ Waits /\ ~ Waits'
  BY <1>1 DEF windows, IsSet, Holds, Has, Waits
<1>4. StepsInOrder(todo)' /\ JpegSteps(todo)' /\ PartsArePlaced'
  BY <1>2, <1>3, PopKeepsOrder, PartsStay
<1>5. StreamIsNear'
  BY <1>1, <1>2, <1>3, PopKeepsStream
<1>6. KeptWhenDone'
  <2>1. todo[1] \notin OfPreview
    BY <1>1 DEF OfPreview
  <2>2. todo[1] = "exif" => IsSet("preview")
    <3>1. 1 \in 1 .. Len(todo)
      BY <1>2 DEF Popped
    <3>2. QED
      BY <3>1 DEF LInv, KeptWhenDone
  <2>3. QED
    BY <1>1, <1>2, <1>3, <2>1, <2>2, PopKeepsList DEF IsSet
<1>7. AnswersOK' /\ CellsOK'
  BY <1>3, AnswersStay DEF LInv, CellsOK
<1>8. DecoderIsPlaced'
  <2>1. decoder.state # "fresh"
    BY <1>1 DEF LInv, DecoderIsPlaced, Asked
  <2>2. QED
    BY <1>3, <2>1 DEF LInv, DecoderIsPlaced
<1>9. JpegContainer'
  BY <1>1, <1>2, <1>3, JpegStays DEF Popped
<1>10. StreamIsPlaced'
  BY <1>3 DEF StreamIsPlaced
<1>11. QED
  BY <1>4, <1>5, <1>6, <1>7, <1>8, <1>9, <1>10 DEF LInv, AnswersOK

LEMMA Tuples ==
  ASSUME NEW S
  PROVE  /\ \A a \in S : <<a>> \in Seq(S)
         /\ \A a, b \in S : <<a, b>> \in Seq(S)
         /\ \A a, b, c \in S : <<a, b, c>> \in Seq(S)
         /\ \A a, b, c, d \in S : <<a, b, c, d>> \in Seq(S)
         /\ \A a, b, c, d, e \in S : <<a, b, c, d, e>> \in Seq(S)
OBVIOUS

(* A list of steps that is in order by itself.                             *)
Whole(t) ==
  /\ t \in Seq(Steps) /\ Len(t) \in Nat /\ Len(t) > 0
  /\ \A i \in 1 .. Len(t) :
       /\ t[i] \notin {"load", "load meta", "load cfa", "stream"}
       /\ t[i] = "preview" => DecoderIsNext(t, i)
       /\ t[i] \in {"exif", "keep"} => \E k \in 1 .. i - 1 : t[k] \in OfPreview
       /\ t[i] = "keep" => \E k \in 1 .. i - 1 : t[k] = "exif"
  /\ JpegSteps(t)

LEMMA Places ==
  /\ 1 + 1 = 2 /\ 2 + 1 = 3 /\ 3 + 1 = 4 /\ 1 + 2 = 3
  /\ 1 < 2 /\ 1 < 3 /\ 1 < 4 /\ 1 < 5 /\ 2 < 3 /\ 2 < 4 /\ 2 < 5
  /\ ~ 1 < 1 /\ ~ 2 < 2 /\ ~ 3 < 3
  /\ 1 \in 1 .. 2 - 1 /\ 1 \in 1 .. 3 - 1 /\ 1 \in 1 .. 4 - 1 /\ 1 \in 1 .. 5 - 1
  /\ 2 \in 1 .. 3 - 1 /\ 2 \in 1 .. 4 - 1 /\ 2 \in 1 .. 5 - 1
  /\ 3 \in 1 .. 5 - 1 /\ 4 \in 1 .. 5 - 1
OBVIOUS

LEMMA AskedNext ==
  ASSUME NEW t, NEW i \in Nat, NEW j \in Nat, NEW n \in Nat,
         Len(t) = n, i < n, i + 1 = j, t[j] \in {"info", "exif"}
  PROVE  DecoderIsNext(t, i)
BY DEF DecoderIsNext, OfDecoder

LEMMA AskedAfterOffset ==
  ASSUME NEW t, NEW n \in Nat, Len(t) = n, 2 < n, Format = "rw2",
         t[2] = "offset", t[3] \in {"info", "exif"}
  PROVE  DecoderIsNext(t, 1)
BY DEF DecoderIsNext, OfDecoder

(* The calls and the lists of thumbnails() are in order.                   *)
LEMMA ListsAreWhole ==
  ASSUME file \in FileType, NEW t,
         \/ t \in Calls
         \/ Format = "raf" /\ t = <<"container", "preview", "info", "exif", "keep">>
         \/ Format = "rw2" /\ t = <<"preview", "offset", "exif", "info", "keep">>
         \/ Format = "jpeg" /\ t = <<"container", "exif", "keep">>
         \/ Format # "jpeg" /\ t = <<"container", "dirs">>
  PROVE  Whole(t)
<1>1. CASE t = <<"thumbnails">>
  <2>1. t \in Seq(Steps)
    <3>1. {"thumbnails"} \subseteq Steps
      BY DEF Steps
    <3>2. QED
      BY <1>1, <3>1, Tuples
  <2>2. Len(t) = 1
    BY <1>1
  <2>3. t[1] = "thumbnails"
    BY <1>1
  <2>4. \A i \in 1 .. Len(t) : i = 1
    BY ONLY <2>2
  <2>5. JpegSteps(t)
    BY <2>2, <2>3, <2>4, Places DEF JpegSteps
  <2>6. \A i \in 1 .. Len(t) : t[i] \notin {"load", "load meta", "load cfa", "stream"}
    BY <2>3, <2>4
  <2>7. Len(t) \in Nat /\ Len(t) > 0
    BY ONLY <2>2
  <2>8. QED
    BY <2>1, <2>3, <2>4, <2>5, <2>6, <2>7, Places DEF Whole
<1>2. CASE t = <<"thumbnails", "bytes">>
  <2>1. t \in Seq(Steps)
    <3>1. {"thumbnails", "bytes"} \subseteq Steps
      BY DEF Steps
    <3>2. QED
      BY <1>2, <3>1, Tuples
  <2>2. Len(t) = 2
    BY <1>2
  <2>3. t[1] = "thumbnails" /\ t[2] = "bytes"
    BY <1>2
  <2>4. \A i \in 1 .. Len(t) : i = 1 \/ i = 2
    BY ONLY <2>2
  <2>5. JpegSteps(t)
    BY <2>2, <2>3, <2>4, Places DEF JpegSteps
  <2>6. \A i \in 1 .. Len(t) : t[i] \notin {"load", "load meta", "load cfa", "stream"}
    BY <2>3, <2>4
  <2>7. Len(t) \in Nat /\ Len(t) > 0
    BY ONLY <2>2
  <2>8. QED
    BY <2>1, <2>3, <2>4, <2>5, <2>6, <2>7, Places DEF Whole
<1>3. CASE Format = "raf" /\ t = <<"container", "preview", "exif">>
  <2>1. t \in Seq(Steps)
    <3>1. {"container", "preview", "exif"} \subseteq Steps
      BY DEF Steps
    <3>2. QED
      BY <1>3, <3>1, Tuples
  <2>2. Len(t) = 3
    BY <1>3
  <2>3. t[1] = "container" /\ t[2] = "preview" /\ t[3] = "exif"
    BY <1>3
  <2>4. \A i \in 1 .. Len(t) : i = 1 \/ i = 2 \/ i = 3
    BY ONLY <2>2
  <2>5. JpegSteps(t)
    BY <1>3 DEF JpegSteps
  <2>6. DecoderIsNext(t, 2)
    BY <2>2, <2>3, Places, AskedNext
  <2>7. t[2] \in OfPreview
    BY <1>3, <2>3 DEF OfPreview
  <2>8. \A i \in 1 .. Len(t) : t[i] \notin {"load", "load meta", "load cfa", "stream"}
    BY <2>3, <2>4
  <2>9. Len(t) \in Nat /\ Len(t) > 0
    BY ONLY <2>2
  <2>10. QED
    BY <2>1, <2>3, <2>4, <2>5, <2>6, <2>7, <2>8, <2>9, Places DEF Whole
<1>4. CASE Format = "raf" /\ t = <<"container", "meta", "cfa", "cfa dirs", "bytes">>
  <2>1. t \in Seq(Steps)
    <3>1. {"container", "meta", "cfa", "cfa dirs", "bytes"} \subseteq Steps
      BY DEF Steps
    <3>2. QED
      BY <1>4, <3>1, Tuples
  <2>2. Len(t) = 5
    BY <1>4
  <2>3. t[1] = "container" /\ t[2] = "meta" /\ t[3] = "cfa" /\ t[4] = "cfa dirs" /\ t[5] = "bytes"
    BY <1>4
  <2>4. \A i \in 1 .. Len(t) : i = 1 \/ i = 2 \/ i = 3 \/ i = 4 \/ i = 5
    BY ONLY <2>2
  <2>5. JpegSteps(t)
    BY <1>4 DEF JpegSteps
  <2>6. \A i \in 1 .. Len(t) : t[i] \notin {"load", "load meta", "load cfa", "stream"}
    BY <2>3, <2>4
  <2>7. Len(t) \in Nat /\ Len(t) > 0
    BY ONLY <2>2
  <2>8. QED
    BY <2>1, <2>3, <2>4, <2>5, <2>6, <2>7, Places DEF Whole
<1>5. CASE Format = "rw2" /\ t = <<"container", "dirs", "bytes">>
  <2>1. t \in Seq(Steps)
    <3>1. {"container", "dirs", "bytes"} \subseteq Steps
      BY DEF Steps
    <3>2. QED
      BY <1>5, <3>1, Tuples
  <2>2. Len(t) = 3
    BY <1>5
  <2>3. t[1] = "container" /\ t[2] = "dirs" /\ t[3] = "bytes"
    BY <1>5
  <2>4. \A i \in 1 .. Len(t) : i = 1 \/ i = 2 \/ i = 3
    BY ONLY <2>2
  <2>5. JpegSteps(t)
    BY <1>5 DEF JpegSteps
  <2>6. \A i \in 1 .. Len(t) : t[i] \notin {"load", "load meta", "load cfa", "stream"}
    BY <2>3, <2>4
  <2>7. Len(t) \in Nat /\ Len(t) > 0
    BY ONLY <2>2
  <2>8. QED
    BY <2>1, <2>3, <2>4, <2>5, <2>6, <2>7, Places DEF Whole
<1>6. CASE Format = "rw2" /\ t = <<"container", "preview", "exif", "exif of the file">>
  <2>1. t \in Seq(Steps)
    <3>1. {"container", "preview", "exif", "exif of the file"} \subseteq Steps
      BY DEF Steps
    <3>2. QED
      BY <1>6, <3>1, Tuples
  <2>2. Len(t) = 4
    BY <1>6
  <2>3. t[1] = "container" /\ t[2] = "preview" /\ t[3] = "exif" /\ t[4] = "exif of the file"
    BY <1>6
  <2>4. \A i \in 1 .. Len(t) : i = 1 \/ i = 2 \/ i = 3 \/ i = 4
    BY ONLY <2>2
  <2>5. JpegSteps(t)
    BY <1>6 DEF JpegSteps
  <2>6. DecoderIsNext(t, 2)
    BY <2>2, <2>3, Places, AskedNext
  <2>7. t[2] \in OfPreview
    BY <1>6, <2>3 DEF OfPreview
  <2>8. \A i \in 1 .. Len(t) : t[i] \notin {"load", "load meta", "load cfa", "stream"}
    BY <2>3, <2>4
  <2>9. Len(t) \in Nat /\ Len(t) > 0
    BY ONLY <2>2
  <2>10. QED
    BY <2>1, <2>3, <2>4, <2>5, <2>6, <2>7, <2>8, <2>9, Places DEF Whole
<1>7. CASE t = <<"container">>
  <2>1. t \in Seq(Steps)
    <3>1. {"container"} \subseteq Steps
      BY DEF Steps
    <3>2. QED
      BY <1>7, <3>1, Tuples
  <2>2. Len(t) = 1
    BY <1>7
  <2>3. t[1] = "container"
    BY <1>7
  <2>4. \A i \in 1 .. Len(t) : i = 1
    BY ONLY <2>2
  <2>5. JpegSteps(t)
    BY <2>2, <2>3, <2>4, Places DEF JpegSteps
  <2>6. \A i \in 1 .. Len(t) : t[i] \notin {"load", "load meta", "load cfa", "stream"}
    BY <2>3, <2>4
  <2>7. Len(t) \in Nat /\ Len(t) > 0
    BY ONLY <2>2
  <2>8. QED
    BY <2>1, <2>3, <2>4, <2>5, <2>6, <2>7, Places DEF Whole
<1>8. CASE Format = "jpeg" /\ t = <<"container", "exif">>
  <2>1. t \in Seq(Steps)
    <3>1. {"container", "exif"} \subseteq Steps
      BY DEF Steps
    <3>2. QED
      BY <1>8, <3>1, Tuples
  <2>2. Len(t) = 2
    BY <1>8
  <2>3. t[1] = "container" /\ t[2] = "exif"
    BY <1>8
  <2>4. \A i \in 1 .. Len(t) : i = 1 \/ i = 2
    BY ONLY <2>2
  <2>5. JpegSteps(t)
    BY <2>2, <2>3, <2>4, Places DEF JpegSteps
  <2>6. t[1] \in OfPreview
    BY <1>8, <2>3 DEF OfPreview
  <2>7. \A i \in 1 .. Len(t) : t[i] \notin {"load", "load meta", "load cfa", "stream"}
    BY <2>3, <2>4
  <2>8. Len(t) \in Nat /\ Len(t) > 0
    BY ONLY <2>2
  <2>9. QED
    BY <2>1, <2>3, <2>4, <2>5, <2>6, <2>7, <2>8, Places DEF Whole
<1>9. CASE Format = "raf" /\ t = <<"container", "preview", "info", "exif", "keep">>
  <2>1. t \in Seq(Steps)
    <3>1. {"container", "preview", "info", "exif", "keep"} \subseteq Steps
      BY DEF Steps
    <3>2. QED
      BY <1>9, <3>1, Tuples
  <2>2. Len(t) = 5
    BY <1>9
  <2>3. t[1] = "container" /\ t[2] = "preview" /\ t[3] = "info" /\ t[4] = "exif" /\ t[5] = "keep"
    BY <1>9
  <2>4. \A i \in 1 .. Len(t) : i = 1 \/ i = 2 \/ i = 3 \/ i = 4 \/ i = 5
    BY ONLY <2>2
  <2>5. JpegSteps(t)
    BY <1>9 DEF JpegSteps
  <2>6. DecoderIsNext(t, 2)
    BY <2>2, <2>3, Places, AskedNext
  <2>7. t[2] \in OfPreview
    BY <1>9, <2>3 DEF OfPreview
  <2>8. \A i \in 1 .. Len(t) : t[i] \notin {"load", "load meta", "load cfa", "stream"}
    BY <2>3, <2>4
  <2>9. Len(t) \in Nat /\ Len(t) > 0
    BY ONLY <2>2
  <2>10. QED
    BY <2>1, <2>3, <2>4, <2>5, <2>6, <2>7, <2>8, <2>9, Places DEF Whole
<1>10. CASE Format = "rw2" /\ t = <<"preview", "offset", "exif", "info", "keep">>
  <2>1. t \in Seq(Steps)
    <3>1. {"preview", "offset", "exif", "info", "keep"} \subseteq Steps
      BY DEF Steps
    <3>2. QED
      BY <1>10, <3>1, Tuples
  <2>2. Len(t) = 5
    BY <1>10
  <2>3. t[1] = "preview" /\ t[2] = "offset" /\ t[3] = "exif" /\ t[4] = "info" /\ t[5] = "keep"
    BY <1>10
  <2>4. \A i \in 1 .. Len(t) : i = 1 \/ i = 2 \/ i = 3 \/ i = 4 \/ i = 5
    BY ONLY <2>2
  <2>5. JpegSteps(t)
    BY <1>10 DEF JpegSteps
  <2>6. DecoderIsNext(t, 1)
    BY <1>10, <2>2, <2>3, Places, AskedAfterOffset
  <2>7. t[1] \in OfPreview
    BY <1>10, <2>3 DEF OfPreview
  <2>8. \A i \in 1 .. Len(t) : t[i] \notin {"load", "load meta", "load cfa", "stream"}
    BY <2>3, <2>4
  <2>9. Len(t) \in Nat /\ Len(t) > 0
    BY ONLY <2>2
  <2>10. QED
    BY <2>1, <2>3, <2>4, <2>5, <2>6, <2>7, <2>8, <2>9, Places DEF Whole
<1>11. CASE Format = "jpeg" /\ t = <<"container", "exif", "keep">>
  <2>1. t \in Seq(Steps)
    <3>1. {"container", "exif", "keep"} \subseteq Steps
      BY DEF Steps
    <3>2. QED
      BY <1>11, <3>1, Tuples
  <2>2. Len(t) = 3
    BY <1>11
  <2>3. t[1] = "container" /\ t[2] = "exif" /\ t[3] = "keep"
    BY <1>11
  <2>4. \A i \in 1 .. Len(t) : i = 1 \/ i = 2 \/ i = 3
    BY ONLY <2>2
  <2>5. JpegSteps(t)
    BY <2>2, <2>3, <2>4, Places DEF JpegSteps
  <2>6. t[1] \in OfPreview
    BY <1>11, <2>3 DEF OfPreview
  <2>7. \A i \in 1 .. Len(t) : t[i] \notin {"load", "load meta", "load cfa", "stream"}
    BY <2>3, <2>4
  <2>8. Len(t) \in Nat /\ Len(t) > 0
    BY ONLY <2>2
  <2>9. QED
    BY <2>1, <2>3, <2>4, <2>5, <2>6, <2>7, <2>8, Places DEF Whole
<1>12. CASE Format # "jpeg" /\ t = <<"container", "dirs">>
  <2>1. t \in Seq(Steps)
    <3>1. {"container", "dirs"} \subseteq Steps
      BY DEF Steps
    <3>2. QED
      BY <1>12, <3>1, Tuples
  <2>2. Len(t) = 2
    BY <1>12
  <2>3. t[1] = "container" /\ t[2] = "dirs"
    BY <1>12
  <2>4. \A i \in 1 .. Len(t) : i = 1 \/ i = 2
    BY ONLY <2>2
  <2>5. JpegSteps(t)
    BY <1>12 DEF JpegSteps
  <2>6. Len(t) \in Nat /\ Len(t) > 0
    BY ONLY <2>2
  <2>7. QED
    BY <2>1, <2>3, <2>4, <2>5, <2>6 DEF Whole
<1>13. QED
  BY <1>1, <1>2, <1>3, <1>4, <1>5, <1>6, <1>7, <1>8, <1>9, <1>10, <1>11, <1>12
     DEF Calls, FileType, Format

(* A new call, and a call that ends.                                       *)
LEMMA CallKeepsLInv == ASSUME LInv, Call PROVE LInv'
<1>1. /\ todo = <<>> /\ todo' \in Calls
      /\ UNCHANGED <<file, cells, decoder, hit, base, cur>>
      /\ \A d : IsSet(d)' = IsSet(d) /\ Holds(d)' = Holds(d) /\ Has(d)' = Has(d)
      /\ Format' = Format /\ Format \in {"raf", "rw2", "jpeg"} /\ CellsOK
  BY DEF Call, windows, IsSet, Holds, Has, LInv, CellsOK, FileType, Format
<1>2. Whole(todo')
  BY <1>1, ListsAreWhole DEF CellsOK
<1>3. Len(todo') \in Nat /\ todo'[1] \in {"thumbnails", "container"}
  <2>1. \A t \in Calls : t[1] \in {"thumbnails", "container"}
    <3>1. /\ <<"thumbnails">>[1] = "thumbnails"
          /\ <<"thumbnails", "bytes">>[1] = "thumbnails"
          /\ <<"container", "preview", "exif">>[1] = "container"
          /\ <<"container", "meta", "cfa", "cfa dirs", "bytes">>[1] = "container"
          /\ <<"container", "dirs", "bytes">>[1] = "container"
          /\ <<"container", "preview", "exif", "exif of the file">>[1] = "container"
          /\ <<"container">>[1] = "container" /\ <<"container", "exif">>[1] = "container"
      OBVIOUS
    <3>2. CASE Format = "raf"
      BY <3>1, <3>2 DEF Calls, Format
    <3>3. CASE Format = "rw2"
      BY <3>1, <3>3 DEF Calls, Format
    <3>4. CASE Format = "jpeg"
      BY <3>1, <3>4 DEF Calls, Format
    <3>5. QED
      BY <1>1, <3>2, <3>3, <3>4
  <2>2. QED
    BY <1>1, <1>2, <2>1 DEF Whole
<1>4. /\ \A i \in 1 .. Len(todo') :
           /\ todo'[i] \notin {"load", "load meta", "load cfa", "stream"}
           /\ todo'[i] = "preview" => DecoderIsNext(todo, i)'
           /\ todo'[i] \in {"exif", "keep"} => \E k \in 1 .. i - 1 : todo'[k] \in OfPreview
           /\ todo'[i] = "keep" => \E k \in 1 .. i - 1 : todo'[k] = "exif"
      /\ todo' \in Seq(Steps)
  BY <1>1, <1>2 DEF Whole, DecoderIsNext, Format
<1>5. StepsInOrder(todo)'
  <2>1. \A i \in 2 .. Len(todo') : i \in 1 .. Len(todo')
    BY <1>3
  <2>2. QED
    BY <1>4, <2>1 DEF StepsInOrder
<1>6. JpegSteps(todo)'
  BY <1>1, <1>2 DEF Whole, JpegSteps, Format
<1>7. StreamIsNear'
  BY <1>4 DEF StreamIsNear
<1>8. KeptWhenDone'
  BY <1>1, <1>4 DEF KeptWhenDone, OfPreview
<1>9. PartsArePlaced'
  BY <1>3, PartsStay
<1>10. AnswersOK' /\ CellsOK'
  BY <1>1, AnswersStay DEF CellsOK
<1>11. DecoderIsPlaced'
  BY <1>1, DecoderStays
<1>12. JpegContainer'
  BY <1>1, <1>3 DEF LInv, JpegContainer
<1>13. StreamIsPlaced'
  <2> SUFFICES ASSUME Waits PROVE NothingBeforeTheDecoder'
    BY <1>1 DEF LInv, StreamIsPlaced, Waits, Place
  <2>1. NothingBeforeTheDecoder
    BY DEF LInv, StreamIsPlaced
  <2>2. Format = "jpeg" /\ IsSet("container") /\ ~IsSet("thumbnails")
    <3>1. Len(todo) = 0 /\ ~ Len(todo) > 0 /\ ~ Len(todo) > 1 /\ ~ Len(todo) > 2
      BY <1>1, EmptySeq
    <3>2. QED
      BY <1>1, <2>1, <3>1 DEF NothingBeforeTheDecoder
  <2>3. QED
    BY <1>1, <1>3, <2>2 DEF NothingBeforeTheDecoder
<1>14. QED
  BY <1>5, <1>6, <1>7, <1>8, <1>9, <1>10, <1>11, <1>12, <1>13 DEF LInv, AnswersOK

LEMMA EndKeepsLInv ==
  ASSUME LInv, Len(todo) > 0, todo' = <<>>, UNCHANGED <<file, cells, decoder>>,
         hit \subseteq hit', CellsOK',
         todo[1] \notin OfDecoder, ~ Waits
  PROVE  LInv'
<1>1. /\ StepsInOrder(todo)' /\ JpegSteps(todo)' /\ PartsArePlaced' /\ StreamIsNear'
      /\ KeptWhenDone'
  BY EmptySeq DEF StepsInOrder, JpegSteps, PartsArePlaced, StreamIsNear, KeptWhenDone
<1>2. AnswersOK' /\ CellsOK'
  BY AnswersStay DEF LInv
<1>3. DecoderIsPlaced' /\ StreamIsPlaced'
  BY DecoderStays, StreamStays
<1>4. JpegContainer'
  BY EmptySeq DEF LInv, JpegContainer, IsSet, Format
<1>5. QED
  BY <1>1, <1>2, <1>3, <1>4 DEF LInv, AnswersOK

LEMMA NoMetaKeepsLInv == ASSUME LInv, NoMeta PROVE LInv'
<1>1. /\ todo # <<>> /\ Head(todo) = "cfa" /\ todo' = <<>>
      /\ UNCHANGED <<file, cells, decoder, hit, base, cur>>
  BY DEF NoMeta, Doing, windows
<1>2. Len(todo) > 0 /\ todo[1] = "cfa"
  <2>1. todo \in Seq(Steps)
    BY DEF LInv, StepsInOrder
  <2>2. QED
    BY <1>1, <2>1, FirstStep
<1>3. CellsOK
  BY DEF LInv
<1>4. ~ Waits /\ todo[1] \notin OfDecoder
  BY <1>2, NothingWaits DEF Other, OfDecoder
<1>5. QED
  BY <1>1, <1>2, <1>3, <1>4, EndKeepsLInv DEF CellsOK

-----------------------------------------------------------------------------
(* What a step that writes a cell, or that moves in a View, leaves alone.  *)
OrderOK ==
  /\ StepsInOrder(todo) /\ JpegSteps(todo)
  /\ StreamIsNear /\ StreamIsPlaced /\ DecoderIsPlaced
  /\ JpegContainer /\ PartsArePlaced /\ KeptWhenDone

LEMMA LInvIs == LInv' <=> CellsOK' /\ OrderOK' /\ AnswersOK'
BY DEF LInv, OrderOK, AnswersOK

LEMMA DoingIsFirst ==
  ASSUME LInv, NEW x, Doing(x)
  PROVE  /\ todo \in Seq(Steps) /\ todo # <<>> /\ Len(todo) \in Nat /\ Len(todo) > 0
         /\ todo[1] = x
         /\ Format \in {"raf", "rw2", "jpeg"}
         /\ Format = "jpeg" => x \in {"thumbnails", "container", "exif", "keep", "bytes"}
<1>1. todo \in Seq(Steps) /\ todo # <<>> /\ Head(todo) = x
  BY DEF LInv, StepsInOrder, Doing
<1>2. Len(todo) \in Nat /\ Len(todo) > 0 /\ todo[1] = x
  BY <1>1, FirstStep
<1>3. 1 \in 1 .. Len(todo)
  BY <1>2
<1>4. Format = "jpeg" => x \in {"thumbnails", "container", "exif", "keep", "bytes"}
  BY <1>2, <1>3 DEF LInv, JpegSteps
<1>5. QED
  BY <1>1, <1>2, <1>4 DEF LInv, CellsOK, FileType, Format

LEMMA SetIs ==
  ASSUME LInv, NEW c \in Cell, NEW value, Set(c, value)
  PROVE  /\ cells' = [d \in Cell |-> cells'[d]]
         /\ cells'[c] = value
         /\ \A d \in Cell \ {c} : cells'[d] = cells[d]
BY DEF LInv, CellsOK, Set

Moves(v) == \/ UNCHANGED windows
            \/ Fail
            \/ SeekAndRead(v)
            \/ \E n \in {0, 1} : Read(v, n)
            \/ \E b \in Int, n \in Int : Open(v, b, n)
            \/ Duplicate("stream", v)

LEMMA MovesKeepCells ==
  ASSUME LInv, NEW v \in View, Moves(v), UNCHANGED file, cells' = [d \in Cell |-> cells'[d]]
  PROVE  CellsOK'
<1>1. AllLost \in [View -> Int \cup {Lost}]
  BY DEF AllLost
<1>2. \A p \in Int : Alone(v, p) \in [View -> Int \cup {Lost}]
  BY <1>1 DEF Alone
<1>3. base \in [View -> Int] /\ cur \in [View -> Int \cup {Lost}] /\ "stream" \in View
  BY PlacesAreNumbers DEF LInv, CellsOK
<1>4. base' \in [View -> Int] /\ cur' \in [View -> Int \cup {Lost}]
  <2>1. CASE UNCHANGED windows
    BY <1>3, <2>1 DEF windows
  <2>2. CASE Fail
    BY <1>3, <2>2 DEF Fail
  <2>3. CASE SeekAndRead(v)
    BY <1>2, <1>3, <2>3 DEF SeekAndRead
  <2>4. ASSUME NEW n \in {0, 1}, Read(v, n)
        PROVE  base' \in [View -> Int] /\ cur' \in [View -> Int \cup {Lost}]
    BY <1>1, <1>2, <1>3, <2>4 DEF Read
  <2>5. ASSUME NEW b \in Int, NEW n \in Int, Open(v, b, n)
        PROVE  base' \in [View -> Int] /\ cur' \in [View -> Int \cup {Lost}]
    BY <1>2, <1>3, <2>5 DEF Open
  <2>6. CASE Duplicate("stream", v)
    BY <1>2, <1>3, <2>6 DEF Duplicate
  <2>7. QED
    BY <2>1, <2>2, <2>3, <2>4, <2>5, <2>6 DEF Moves
<1>5. QED
  BY <1>4 DEF LInv, CellsOK

(* A step that is done, and that is none of those of the preview.          *)
LEMMA PopKeepsRest ==
  ASSUME LInv, Popped, ~ Waits, UNCHANGED <<file, decoder>>, hit \subseteq hit',
         NEW c \in {"container", "dirs", "thumbnails", "meta", "cfa"},
         \A d \in Cell \ {c} : cells'[d] = cells[d],
         todo[1] \notin {"info", "exif", "preview", "stream", "thumbnails"},
         Format = "jpeg" => todo[1] # "container" /\ c # "container",
         c = "container" \/ todo[1] \in {"container", "load"} => IsSet("container")',
         c = "dirs" \/ todo[1] = "dirs" => IsSet("dirs")'
  PROVE  OrderOK'
<1>1. /\ UNCHANGED <<cells["preview"], cells["info"], cells["exif"]>>
      /\ c # "container" => UNCHANGED cells["container"]
      /\ c # "dirs" => UNCHANGED cells["dirs"]
  BY DEF Cell
<1>2. StepsInOrder(todo)' /\ JpegSteps(todo)' /\ PartsArePlaced'
  BY PopKeepsOrder, PartsStay
<1>3. StreamIsNear'
  <2>1. IsSet("container") \/ todo[1] \in {"container", "load"} => IsSet("container")'
    BY <1>1 DEF IsSet
  <2>2. IsSet("dirs") \/ todo[1] = "dirs" => IsSet("dirs")'
    BY <1>1 DEF IsSet
  <2>3. QED
    BY <1>1, <2>1, <2>2, PopKeepsStream
<1>4. StreamIsPlaced'
  BY <1>1, StreamStays
<1>5. DecoderIsPlaced'
  BY <1>1, DecoderStays DEF OfDecoder
<1>6. JpegContainer'
  <2>1. Len(todo) > 0
    BY DEF Popped
  <2>2. CASE Format = "jpeg"
    BY <1>1, <2>1, <2>2, JpegStays
  <2>3. CASE Format # "jpeg"
    BY <2>3 DEF JpegContainer, Format
  <2>4. QED
    BY <2>2, <2>3
<1>7. KeptWhenDone'
  <2>1. todo[1] \notin OfPreview
    BY DEF OfPreview
  <2>2. QED
    BY <1>1, <2>1, PopKeepsList DEF IsSet
<1>8. QED
  BY <1>2, <1>3, <1>4, <1>5, <1>6, <1>7 DEF OrderOK

LEMMA DirsKeepsLInv == ASSUME LInv, Dirs PROVE LInv'
<1>1. /\ ~IsSet("dirs") /\ Done /\ UNCHANGED <<file, decoder>> /\ Doing("dirs")
  BY DEF Dirs
<1>2. Popped /\ todo[1] = "dirs" /\ Format # "jpeg" /\ Len(todo) > 0
  BY <1>1, DoingIsFirst, DonePops
<1>3. \E value \in {0, None} :
        /\ Set("dirs", value) /\ Moves("file") /\ hit \subseteq hit'
        /\ value = None => "file" \in hit'
  <2>1. ASSUME SeekAndRead("file"), Works, Set("dirs", 0)
        PROVE  /\ Set("dirs", 0) /\ Moves("file") /\ hit \subseteq hit'
               /\ 0 = None => "file" \in hit'
    BY <2>1, PlacesAreNumbers DEF Moves, Works
  <2>2. ASSUME Breaks("file"), Set("dirs", None)
        PROVE  /\ Set("dirs", None) /\ Moves("file") /\ hit \subseteq hit'
               /\ None = None => "file" \in hit'
    BY <2>2 DEF Moves, Breaks
  <2>3. QED
    BY <2>1, <2>2 DEF Dirs
<1>4. PICK value \in {0, None} :
        /\ Set("dirs", value) /\ Moves("file") /\ hit \subseteq hit'
        /\ value = None => "file" \in hit'
  BY <1>3
<1>5. /\ cells' = [d \in Cell |-> cells'[d]] /\ cells'["dirs"] = value
      /\ \A d \in Cell \ {"dirs"} : cells'[d] = cells[d]
  BY <1>4, SetIs DEF Cell
<1>6. CellsOK'
  BY <1>1, <1>4, <1>5, MovesKeepCells, PlacesAreNumbers
<1>7. IsSet("dirs")'
  BY <1>4, <1>5, PlacesAreNumbers DEF IsSet
<1>8. OrderOK'
  BY <1>1, <1>2, <1>4, <1>5, <1>7, NothingWaits, PopKeepsRest
<1>9. AnswersOK'
  <2>1. DirsAreRead'
    BY <1>4, <1>5 DEF DirsAreRead
  <2>2. \A d \in {"preview", "info", "exif", "meta", "cfa", "thumbnails"} : UNCHANGED cells[d]
    BY <1>5 DEF Cell
  <2>3. QED
    BY <1>1, <1>4, <2>1, <2>2, CellStays, AnswersAre DEF AnswersOK
<1>10. QED
  BY <1>6, <1>8, <1>9, LInvIs

(* The list is kept when the preview and the Exif have been asked for.     *)
LEMMA KeepKeepsLInv == ASSUME LInv, Keep PROVE LInv'
<1> DEFINE list ==
      {t \in {"preview", "exif"} : Holds(t) /\ ~(t = "preview" /\ Format = "jpeg")}
<1>1. /\ Doing("keep") /\ Set("thumbnails", list) /\ Done
      /\ UNCHANGED <<windows, file, decoder, hit>>
  BY DEF Keep, Format
<1>2. Popped /\ todo[1] = "keep" /\ 1 \in 1 .. Len(todo) /\ Len(todo) > 0
  BY <1>1, DoingIsFirst, DonePops
<1>3. /\ cells' = [d \in Cell |-> cells'[d]] /\ cells'["thumbnails"] = list
      /\ \A d \in Cell \ {"thumbnails"} : cells'[d] = cells[d]
  <2> HIDE DEF list
  <2>1. QED
    BY <1>1, SetIs DEF Cell
<1>4. CellsOK'
  BY <1>1, <1>3, MovesKeepCells, PlacesAreNumbers DEF Moves
<1>5. OrderOK'
  <2>1. ~ Waits
    BY <1>2, NothingWaits DEF Other
  <2>2. QED
    BY <1>1, <1>2, <1>3, <2>1, PopKeepsRest
<1>6. ListAsOfTheFile'
  <2> SUFFICES ASSUME Has("stream"), Untouched({"file", "stream", "decoder"})
               PROVE  list = (IF Format = "jpeg" THEN {} ELSE {"preview"})
                               \cup (IF Has("exif") THEN {"exif"} ELSE {})
    BY <1>1, <1>3 DEF ListAsOfTheFile, Has, Untouched, Format
  <2>1. IsSet("preview") \/ \E k \in 1 .. 1 - 1 : todo[k] \in OfPreview
    BY <1>2 DEF LInv, KeptWhenDone
  <2>2. \/ IsSet("exif") \/ cells["preview"] = None
        \/ \E k \in 1 .. 1 - 1 : todo[k] = "exif"
    BY <1>2 DEF LInv, KeptWhenDone
  <2>3. ~ \E k \in 1 .. 1 - 1 : TRUE
    OBVIOUS
  <2>4. Holds("preview")
    <3>1. IsSet("preview") /\ Untouched({"file", "stream"})
      BY <2>1, <2>3 DEF Untouched
    <3>2. QED
      BY <3>1, AnswersAre DEF LInv, PreviewIsOK, Holds, IsSet
  <2>5. IsSet("exif") /\ Untouched({"decoder"})
    BY <2>2, <2>3, <2>4 DEF Holds, Untouched
  <2>6. cells["exif"] = Found("exif", Place("stream"))
    BY <2>5, AnswersAre DEF LInv, InfoIsOK
  <2>7. Holds("exif") <=> Has("exif")
    BY <2>6, PlacesAreNumbers DEF Found, Holds
  <2>8. QED
    BY <2>4, <2>7
<1>7. AnswersOK'
  <2>1. \A d \in {"preview", "info", "exif", "meta", "cfa", "dirs"} : UNCHANGED cells[d]
    BY <1>3 DEF Cell
  <2>2. QED
    BY <1>1, <1>6, <2>1, CellStays, AnswersAre DEF AnswersOK
<1>8. QED
  BY <1>4, <1>5, <1>7, LInvIs

(* What is read with a seek and kept elsewhere.                            *)
LEMMA ElsewhereKeepsLInv ==
  ASSUME LInv, NEW what \in {"cfa dirs", "exif of the file", "bytes"}, NEW v \in View,
         NEW wanted, ReadElsewhere(what, v, wanted)
  PROVE  LInv'
<1>1. /\ Doing(what) /\ Moves(v) /\ hit \subseteq hit' /\ Done
      /\ UNCHANGED <<file, cells, decoder>>
  BY DEF ReadElsewhere, Moves, Works, Breaks
<1>2. Popped /\ todo[1] = what /\ Len(todo) > 0
  BY <1>1, DoingIsFirst, DonePops
<1>3. CellsOK' /\ AnswersOK'
  BY <1>1, MovesKeepCells, AnswersStay DEF LInv, CellsOK
<1>4. OrderOK'
  <2>1. ~ Waits
    BY <1>2, NothingWaits DEF Other
  <2>2. \A d \in Cell \ {"meta"} : cells'[d] = cells[d]
    BY <1>1
  <2>3. QED
    BY <1>1, <1>2, <2>1, <2>2, PopKeepsRest
<1>5. QED
  BY <1>3, <1>4, LInvIs

(* A container that is loaded after its View was made.                     *)
LEMMA LoadComesNext ==
  ASSUME LInv, ~ Waits, todo # <<>>, Format # "jpeg",
         NEW x \in {"load", "load meta", "load cfa"}, Then(<<x>>),
         todo[1] \in {"container", "meta", "cfa"},
         x = "load" <=> todo[1] = "container",
         UNCHANGED <<file, cells, decoder>>, hit \subseteq hit'
  PROVE  (PartsArePlaced' => OrderOK' /\ AnswersOK') /\ todo' # <<>> /\ todo'[1] = x
<1>1. /\ todo \in Seq(Steps) /\ Len(todo) \in Nat /\ Len(todo) > 0
      /\ todo' \in Seq(Steps) /\ Len(todo') = Len(todo) /\ todo'[1] = x
      /\ \A i \in 2 .. Len(todo) : todo'[i] = todo[i]
  <2>1. todo \in Seq(Steps) /\ <<x>> \in Seq(Steps)
    <3>1. x \in Steps
      BY DEF Steps
    <3>2. QED
      BY <3>1, Tuples DEF LInv, StepsInOrder
  <2>2. Pushed(<<x>>)
    BY <2>1, ThenPushes
  <2>3. Len(<<x>>) = 1 /\ <<x>>[1] = x
    OBVIOUS
  <2>4. QED
    BY <2>2, <2>3, PushOne
<1>2. todo' # <<>>
  BY <1>1, EmptySeq
<1>3. /\ \A d : IsSet(d)' = IsSet(d)
      /\ Format' = Format /\ OfPreview' = OfPreview
  BY DEF IsSet, Format, OfPreview
<1>4. StepsInOrder(todo)'
  <2>1. \A i \in 2 .. Len(todo') : todo'[i] \notin {"load", "load meta", "load cfa"}
    BY <1>1 DEF LInv, StepsInOrder
  <2>2. ASSUME NEW i \in 1 .. Len(todo'), todo'[i] \in {"preview", "stream"}
        PROVE  DecoderIsNext(todo, i)'
    <3>1. i \in 2 .. Len(todo) /\ todo'[i] = todo[i] /\ i \in 1 .. Len(todo)
      <4>1. i # 1
        BY <1>1, <2>2
      <4>2. QED
        BY <1>1, <4>1, Indices
    <3>2. DecoderIsNext(todo, i)
      BY <2>2, <3>1 DEF LInv, StepsInOrder
    <3>3. /\ i < Len(todo) => todo'[i + 1] = todo[i + 1]
          /\ i + 1 < Len(todo) => todo'[i + 2] = todo[i + 2] /\ todo'[i + 1] = todo[i + 1]
      BY <1>1, <3>1, Indices
    <3>4. QED
      BY <1>1, <1>3, <3>2, <3>3 DEF DecoderIsNext
  <2>3. QED
    BY <1>1, <2>1, <2>2 DEF StepsInOrder
<1>5. JpegSteps(todo)' /\ JpegContainer'
  BY <1>3 DEF JpegSteps, JpegContainer
<1>6. StreamIsNear'
  <2> SUFFICES ASSUME NEW i \in 1 .. Len(todo'), todo'[i] = "stream"
               PROVE  /\ ~IsSet("preview")
                      /\ Format = "raf" => i = 1
                      /\ Format = "rw2" => /\ i < 4
                                           /\ i > 1 => todo'[i - 1] = "dirs"
                                           /\ i = 3 => todo'[1] \in {"container", "load"}
                                           /\ i < 3 => IsSet("container")
                                           /\ i = 1 => IsSet("dirs")
    BY <1>3 DEF StreamIsNear
  <2>1. i # 1
    BY <1>1
  <2>2. i \in 2 .. Len(todo) /\ i \in 1 .. Len(todo) /\ todo[i] = "stream"
    BY <1>1, <2>1, Indices
  <2>3. /\ ~IsSet("preview")
        /\ Format = "raf" => i = 1
        /\ Format = "rw2" => /\ i < 4
                             /\ i > 1 => todo[i - 1] = "dirs"
                             /\ i = 3 => todo[1] \in {"container", "load"}
    BY <2>2 DEF LInv, StreamIsNear
  <2>4. Format = "rw2" => i = 3
    <3>1. Format = "rw2" => i # 2
      BY <1>1, <2>2, <2>3, Indices
    <3>2. QED
      BY <1>1, <2>1, <2>2, <2>3, <3>1, Indices
  <2>5. i = 3 => todo'[i - 1] = todo[i - 1] /\ ~ i < 3
    <3>1. i = 3 => ~ i < 3 /\ i - 1 \in 2 .. Len(todo)
      BY <1>1, <2>2, Indices
    <3>2. QED
      BY <1>1, <3>1
  <2>6. Format = "raf" => FALSE
    BY <2>1, <2>3
  <2>7. QED
    BY <1>1, <2>1, <2>3, <2>4, <2>5, <2>6
<1>7. StreamIsPlaced'
  BY StreamStays
<1>8. DecoderIsPlaced'
  BY DecoderStays DEF OfDecoder
<1>9. KeptWhenDone'
  <2>1. x \notin OfPreview /\ todo[1] \notin OfPreview
    BY DEF OfPreview
  <2>2. \A i \in 1 .. Len(todo') : todo'[i] \in {"exif", "keep"} =>
          i \in 1 .. Len(todo) /\ todo[i] = todo'[i] /\ \A k \in 2 .. i - 1 : todo'[k] = todo[k]
    <3>1. x \notin {"exif", "keep"}
      OBVIOUS
    <3>2. \A i \in 1 .. Len(todo') : i = 1 \/ i \in 2 .. Len(todo)
      BY <1>1, Indices
    <3>3. \A i \in 1 .. Len(todo') : \A k \in 2 .. i - 1 : k \in 2 .. Len(todo)
      BY <1>1, Indices
    <3>4. QED
      BY <1>1, <3>1, <3>2, <3>3
  <2>3. ASSUME NEW i \in 1 .. Len(todo'), todo'[i] \in {"exif", "keep"}
        PROVE  IsSet("preview") \/ \E k \in 1 .. i - 1 : todo'[k] \in OfPreview
    <3>1. IsSet("preview") \/ \E k \in 1 .. i - 1 : todo[k] \in OfPreview
      BY <2>2, <2>3 DEF LInv, KeptWhenDone
    <3>2. \A k \in 1 .. i - 1 : todo[k] \in OfPreview => k \in 2 .. i - 1 /\ k \in 1 .. i - 1
      BY <1>1, <2>1, Indices
    <3>3. QED
      BY <2>2, <2>3, <3>1, <3>2
  <2>4. ASSUME NEW i \in 1 .. Len(todo'), todo'[i] = "keep"
        PROVE  \/ IsSet("exif") \/ cells["preview"] = None
               \/ \E k \in 1 .. i - 1 : todo'[k] = "exif"
    <3>1. IsSet("exif") \/ cells["preview"] = None \/ \E k \in 1 .. i - 1 : todo[k] = "exif"
      BY <2>2, <2>4 DEF LInv, KeptWhenDone
    <3>2. \A k \in 1 .. i - 1 : todo[k] = "exif" => k \in 2 .. i - 1 /\ k \in 1 .. i - 1
      <4>1. todo[1] # "exif"
        OBVIOUS
      <4>2. QED
        BY <1>1, <4>1, Indices
    <3>3. QED
      BY <2>2, <2>4, <3>1, <3>2
  <2>5. QED
    BY <1>3, <2>3, <2>4 DEF KeptWhenDone
<1>10. AnswersOK'
  BY AnswersStay
<1>11. QED
  BY <1>1, <1>2, <1>4, <1>5, <1>6, <1>7, <1>8, <1>9, <1>10 DEF OrderOK

(* A part of a RAF file: its cell says if the file has it, or if the View  *)
(* of it failed.                                                           *)
LEMMA PartIsWritten ==
  ASSUME LInv, NEW c \in {"meta", "cfa"}, NEW value, Set(c, value), value # Unset,
         Popped, todo[1] \in {"meta", "load meta", "cfa", "load cfa"},
         Moves(c), UNCHANGED <<file, decoder>>, hit \subseteq hit',
         c \in hit' \/ value = IF Has(c) THEN Place(c) ELSE None
  PROVE  LInv'
<1>1. /\ cells' = [d \in Cell |-> cells'[d]] /\ cells'[c] = value
      /\ \A d \in Cell \ {c} : cells'[d] = cells[d]
  <2>1. c \in Cell
    BY DEF Cell
  <2>2. QED
    BY <2>1, SetIs
<1>2. CellsOK'
  <2>1. c \in View
    BY PlacesAreNumbers
  <2>2. QED
    BY <1>1, <2>1, MovesKeepCells
<1>3. OrderOK'
  <2>1. ~ Waits
    BY NothingWaits DEF Other, Popped
  <2>2. QED
    BY <1>1, <2>1, PopKeepsRest
<1>4. PartIsOK(c)'
  BY <1>1 DEF PartIsOK, Has, Place, Untouched
<1>5. AnswersOK'
  <2>1. \A d \in {"preview", "info", "exif", "dirs", "thumbnails"} : UNCHANGED cells[d]
    BY <1>1 DEF Cell
  <2>2. \A d \in {"meta", "cfa"} \ {c} : UNCHANGED cells[d]
    BY <1>1 DEF Cell
  <2>3. PartIsOK("meta")' /\ PartIsOK("cfa")'
    BY <1>4, <2>2, CellStays
  <2>4. QED
    BY <2>1, <2>3, CellStays, AnswersAre DEF AnswersOK
<1>6. QED
  BY <1>2, <1>3, <1>5, LInvIs

LEMMA MetaKeepsLInv == ASSUME LInv, Meta PROVE LInv'
<1>1. /\ Doing("meta") /\ ~IsSet("meta") /\ UNCHANGED <<file, decoder>>
  BY DEF Meta
<1>2. todo # <<>> /\ todo[1] = "meta" /\ Format # "jpeg" /\ Len(todo) > 0
  BY <1>1, DoingIsFirst
<1>3. CASE /\ Has("meta") /\ Open("meta", Place("meta"), Size - Place("meta")) /\ Works
           /\ Then(<<"load meta">>) /\ UNCHANGED cells
  <2>1. Place("meta") \in Int /\ Size - Place("meta") \in Int /\ "meta" \in View
    BY PlacesAreNumbers, LazyCellsAssumption
  <2>2. CellsOK'
    BY <1>1, <1>3, <2>1, MovesKeepCells DEF Moves, LInv, CellsOK
  <2>3. (PartsArePlaced' => OrderOK' /\ AnswersOK') /\ todo' # <<>> /\ todo'[1] = "load meta"
    <3>1. ~ Waits
      BY <1>2, NothingWaits DEF Other
    <3>2. QED
      BY <1>1, <1>2, <1>3, <3>1, LoadComesNext DEF Works
  <2>4. cur'["meta"] = 0 /\ base'["meta"] = Place("meta")
    BY <1>3, <2>1 DEF Open, Alone, AllLost, LInv, CellsOK
  <2>5. PartsArePlaced'
    BY <1>1, <1>3, <2>3, <2>4 DEF PartsArePlaced, Has, Place
  <2>6. QED
    BY <2>2, <2>3, <2>5, LInvIs
<1>4. CASE /\ Done /\ Set("meta", None)
           /\ \/ Has("meta") /\ Breaks("meta")
              \/ ~Has("meta") /\ UNCHANGED <<windows, hit>>
  <2>1. Popped
    BY <1>1, <1>4, DoingIsFirst, DonePops
  <2>2. Moves("meta") /\ hit \subseteq hit' /\ ("meta" \in hit' \/ ~Has("meta"))
    BY <1>4 DEF Moves, Breaks
  <2>3. None # Unset
    BY PlacesAreNumbers
  <2>4. "meta" \in hit' \/ None = IF Has("meta") THEN Place("meta") ELSE None
    BY <2>2
  <2>5. QED
    BY <1>1, <1>2, <1>4, <2>1, <2>2, <2>3, <2>4, PartIsWritten
<1>5. QED
  BY <1>3, <1>4 DEF Meta

LEMMA CfaKeepsLInv == ASSUME LInv, Cfa PROVE LInv'
<1>1. /\ Doing("cfa") /\ ~IsSet("cfa") /\ UNCHANGED <<file, decoder>>
  BY DEF Cfa
<1>2. todo # <<>> /\ todo[1] = "cfa" /\ Format # "jpeg" /\ Len(todo) > 0
  BY <1>1, DoingIsFirst
<1>3. CASE /\ Has("cfa") /\ Open("cfa", Place("cfa"), Size - Place("cfa")) /\ Works
           /\ Then(<<"load cfa">>) /\ UNCHANGED cells
  <2>1. Place("cfa") \in Int /\ Size - Place("cfa") \in Int /\ "cfa" \in View
    BY PlacesAreNumbers, LazyCellsAssumption
  <2>2. CellsOK'
    BY <1>1, <1>3, <2>1, MovesKeepCells DEF Moves, LInv, CellsOK
  <2>3. (PartsArePlaced' => OrderOK' /\ AnswersOK') /\ todo' # <<>> /\ todo'[1] = "load cfa"
    <3>1. ~ Waits
      BY <1>2, NothingWaits DEF Other
    <3>2. QED
      BY <1>1, <1>2, <1>3, <3>1, LoadComesNext DEF Works
  <2>4. PartsArePlaced'
    BY <1>1, <1>3, <2>3 DEF PartsArePlaced, Has
  <2>5. QED
    BY <2>2, <2>3, <2>4, LInvIs
<1>4. CASE /\ Done /\ Set("cfa", None)
           /\ \/ Has("cfa") /\ Breaks("cfa")
              \/ ~Has("cfa") /\ UNCHANGED <<windows, hit>>
  <2>1. Popped
    BY <1>1, <1>4, DoingIsFirst, DonePops
  <2>2. Moves("cfa") /\ hit \subseteq hit' /\ ("cfa" \in hit' \/ ~Has("cfa"))
    BY <1>4 DEF Moves, Breaks
  <2>3. None # Unset
    BY PlacesAreNumbers
  <2>4. "cfa" \in hit' \/ None = IF Has("cfa") THEN Place("cfa") ELSE None
    BY <2>2
  <2>5. QED
    BY <1>1, <1>2, <1>4, <2>1, <2>2, <2>3, <2>4, PartIsWritten
<1>5. QED
  BY <1>3, <1>4 DEF Cfa

(* The table of a meta container is read where its View was placed.        *)
LEMMA LoadMetaKeepsLInv == ASSUME LInv, LoadMeta PROVE LInv'
<1>1. Doing("load meta") /\ Done /\ UNCHANGED <<file, decoder>>
  BY DEF LoadMeta
<1>2. Popped /\ todo[1] = "load meta" /\ todo # <<>>
  BY <1>1, DoingIsFirst, DonePops
<1>3. /\ Has("meta") /\ cur["meta"] = 0 /\ base["meta"] = Place("meta")
      /\ Place("meta") \in Int /\ Place("meta") # Unset /\ None # Unset /\ 0 # Lost
  <2>1. Has("meta") /\ cur["meta"] = 0 /\ base["meta"] = Place("meta")
    BY <1>2 DEF LInv, PartsArePlaced
  <2>2. "meta" \in View
    BY PlacesAreNumbers
  <2>3. Place("meta") \in Int
    BY <2>2, PlacesAreNumbers
  <2>4. QED
    BY <2>1, <2>3, PlacesAreNumbers
<1>4. CASE Read("meta", 1) /\ Works /\ Set("meta", answer'.from)
  <2>1. answer'.from = Place("meta")
    BY <1>3, <1>4 DEF Read
  <2>2. Moves("meta") /\ hit \subseteq hit'
    BY <1>4 DEF Moves, Works
  <2>3. QED
    BY <1>1, <1>2, <1>3, <1>4, <2>1, <2>2, PartIsWritten
<1>5. CASE Breaks("meta") /\ Set("meta", None)
  <2>1. Moves("meta") /\ hit \subseteq hit' /\ "meta" \in hit'
    BY <1>5 DEF Moves, Breaks
  <2>2. QED
    BY <1>1, <1>2, <1>3, <1>5, <2>1, PartIsWritten
<1>6. QED
  BY <1>4, <1>5 DEF LoadMeta

LEMMA LoadCfaKeepsLInv == ASSUME LInv, LoadCfa PROVE LInv'
<1>1. Doing("load cfa") /\ Done /\ UNCHANGED <<file, decoder>>
  BY DEF LoadCfa
<1>2. Popped /\ todo[1] = "load cfa" /\ todo # <<>>
  BY <1>1, DoingIsFirst, DonePops
<1>3. Has("cfa") /\ Place("cfa") # Unset /\ None # Unset
  <2>1. Has("cfa")
    BY <1>2 DEF LInv, PartsArePlaced
  <2>2. "cfa" \in View
    BY PlacesAreNumbers
  <2>3. Place("cfa") \in Int
    BY <2>2, PlacesAreNumbers
  <2>4. QED
    BY <2>1, <2>3, PlacesAreNumbers
<1>4. CASE SeekAndRead("cfa") /\ Works /\ Set("cfa", Place("cfa"))
  <2>1. Moves("cfa") /\ hit \subseteq hit'
    BY <1>4 DEF Moves, Works
  <2>2. QED
    BY <1>1, <1>2, <1>3, <1>4, <2>1, PartIsWritten
<1>5. CASE Breaks("cfa") /\ Set("cfa", None)
  <2>1. Moves("cfa") /\ hit \subseteq hit' /\ "cfa" \in hit'
    BY <1>5 DEF Moves, Breaks
  <2>2. QED
    BY <1>1, <1>2, <1>3, <1>5, <2>1, PartIsWritten
<1>6. QED
  BY <1>4, <1>5 DEF LoadCfa

(* A container that fails ends the call; if the stream of a preview was    *)
(* looked for it is the preview that is None, and the call goes on.        *)
LEMMA GiveUpKeepsLInv ==
  ASSUME LInv, Len(todo) > 0, todo[1] \in {"container", "load"}, ~ Waits,
         Breaks(Own), GiveUp, UNCHANGED <<file, decoder>>
  PROVE  LInv'
<1>1. todo \in Seq(Steps) /\ Len(todo) \in Nat /\ DOMAIN todo = 1 .. Len(todo)
  <2>1. todo \in Seq(Steps)
    BY DEF LInv, StepsInOrder
  <2>2. QED
    BY ONLY <2>1
<1>2. hit' = hit \cup {Own} /\ hit \subseteq hit' /\ Own \in View /\ Moves(Own)
  BY PlacesAreNumbers DEF Breaks, Own, Moves
<1>3. CASE ~ \E i \in DOMAIN todo : todo[i] = "stream"
  <2>1. todo' = <<>> /\ UNCHANGED cells
    BY <1>3 DEF GiveUp
  <2>2. CellsOK'
    BY <1>2, <2>1, MovesKeepCells DEF LInv, CellsOK
  <2>3. QED
    BY <1>2, <2>1, <2>2, EndKeepsLInv DEF OfDecoder
<1>4. CASE \E i \in DOMAIN todo : todo[i] = "stream"
  <2>1. PICK i \in 1 .. Len(todo) : todo[i] = "stream" /\ todo' = SubSeq(todo, i + 1, Len(todo))
    BY <1>1, <1>4 DEF GiveUp
  <2>2. Set("preview", None)
    BY <1>4 DEF GiveUp
  <2>3. /\ cells' = [d \in Cell |-> cells'[d]] /\ cells'["preview"] = None
        /\ \A d \in Cell \ {"preview"} : cells'[d] = cells[d]
    BY <2>2, SetIs DEF Cell
  <2>4. i \in Nat /\ i > 0 /\ Dropped(i)
    <3>1. i \in Nat /\ i > 0 /\ i + 1 \in Int /\ Len(todo) \in Int /\ i <= Len(todo)
      BY <1>1
    <3>2. \A j \in i + 1 .. Len(todo) : todo[j] \in Steps
      <4>1. \A j \in i + 1 .. Len(todo) : j \in 1 .. Len(todo)
        BY <3>1
      <4>2. QED
        BY <1>1, <4>1
    <3>3. /\ todo' \in Seq(Steps)
          /\ Len(todo') = IF i + 1 <= Len(todo) THEN Len(todo) - (i + 1) + 1 ELSE 0
          /\ \A j \in 1 .. Len(todo) - (i + 1) + 1 : todo'[j] = todo[(i + 1) + j - 1]
      BY <2>1, <3>1, <3>2, SubSeqProperties
    <3>4. Len(todo') = Len(todo) - i
      BY ONLY <3>1, <3>3
    <3>5. QED
      BY ONLY <3>1, <3>3, <3>4 DEF Dropped
  <2>5. CellsOK'
    BY <1>2, <2>3, MovesKeepCells
  <2>6. Format # "jpeg" /\ Own = "file"
    BY <2>1 DEF LInv, JpegSteps, Own, Format
  <2>7. StepsInOrder(todo)' /\ JpegSteps(todo)' /\ PartsArePlaced'
    <3>1. todo' # <<>> => 1 \in 1 .. Len(todo')
      BY <2>4, EmptySeq DEF Dropped
    <3>2. QED
      BY <2>4, <3>1, DropKeepsOrder, PartsStay
  <2>8. StreamIsNear'
    <3>1. \A j \in 1 .. Len(todo') : todo'[j] # "stream"
      <4>1. \A j \in 1 .. Len(todo') :
              j + i \in 1 .. Len(todo) /\ j + i # i /\ todo'[j] = todo[j + i]
        BY <2>4 DEF Dropped
      <4>2. QED
        BY <2>1, <4>1, OneStream
    <3>2. QED
      BY <3>1 DEF StreamIsNear
  <2>9. StreamIsPlaced' /\ JpegContainer' /\ DecoderIsPlaced'
    <3>1. UNCHANGED <<cells["info"], cells["exif"]>>
      BY <2>3 DEF Cell
    <3>2. DecoderIsPlaced'
      BY <1>2, <3>1, DecoderStays DEF OfDecoder
    <3>3. QED
      BY <2>3, <2>6, <3>2 DEF StreamIsPlaced, Waits, Holds, JpegContainer, Format
  <2>10. KeptWhenDone'
    BY <2>3, PlacesAreNumbers DEF KeptWhenDone, IsSet
  <2>11. AnswersOK'
    <3>1. \A d \in Cell \ {"preview"} : UNCHANGED cells[d]
      BY <2>3
    <3>2. PreviewIsOK'
      BY <1>2, <2>6 DEF PreviewIsOK, Untouched
    <3>3. QED
      BY <1>2, <3>1, <3>2, CellStays, AnswersAre DEF AnswersOK, Cell
  <2>12. QED
    BY <2>5, <2>7, <2>8, <2>9, <2>10, <2>11, LInvIs DEF OrderOK
<1>5. QED
  BY <1>3, <1>4

LEMMA LoadKeepsLInv == ASSUME LInv, Load PROVE LInv'
<1>1. Doing("load") /\ UNCHANGED <<file, decoder>>
  BY DEF Load
<1>2. /\ todo # <<>> /\ todo[1] = "load" /\ Format # "jpeg" /\ Len(todo) > 0
      /\ ~ Waits
  <2>1. todo # <<>> /\ todo[1] = "load" /\ Format # "jpeg" /\ Len(todo) > 0
    BY <1>1, DoingIsFirst
  <2>2. QED
    BY <2>1, NothingWaits DEF Other
<1>3. CASE SeekAndRead("file") /\ Works /\ Set("container", 0) /\ Done
  <2>1. Popped
    BY <1>1, <1>3, DoingIsFirst, DonePops
  <2>2. /\ cells' = [d \in Cell |-> cells'[d]] /\ cells'["container"] = 0
        /\ \A d \in Cell \ {"container"} : cells'[d] = cells[d]
    BY <1>3, SetIs DEF Cell
  <2>3. CellsOK' /\ hit \subseteq hit'
    BY <1>1, <1>3, <2>2, MovesKeepCells, PlacesAreNumbers DEF Moves, Works
  <2>4. IsSet("container")'
    BY <2>2, PlacesAreNumbers DEF IsSet
  <2>5. OrderOK'
    BY <1>1, <1>2, <2>1, <2>2, <2>3, <2>4, PopKeepsRest
  <2>6. AnswersOK'
    <3>1. \A d \in Cell \ {"container"} : UNCHANGED cells[d]
      BY <2>2
    <3>2. QED
      BY <1>1, <2>3, <3>1, CellStays, AnswersAre DEF AnswersOK, Cell
  <2>7. QED
    BY <2>3, <2>5, <2>6, LInvIs
<1>4. CASE Breaks("file") /\ GiveUp
  <2>1. Own = "file"
    BY <1>2 DEF Own, Format
  <2>2. QED
    BY <1>1, <1>2, <1>4, <2>1, GiveUpKeepsLInv
<1>5. QED
  BY <1>3, <1>4 DEF Load

LEMMA ContainerKeepsLInv == ASSUME LInv, Container PROVE LInv'
<1>1. Doing("container") /\ ~IsSet("container") /\ UNCHANGED <<file, decoder>>
  BY DEF Container
<1>2. /\ todo # <<>> /\ todo[1] = "container" /\ Len(todo) > 0 /\ Len(todo) \in Nat
      /\ ~ Waits /\ todo \in Seq(Steps)
  BY <1>1, DoingIsFirst, NothingWaits
<1>3. CASE Breaks(Own) /\ GiveUp
  BY <1>1, <1>2, <1>3, GiveUpKeepsLInv
<1>4. CASE /\ Open(Own, 0, Size) /\ Works /\ Format # "jpeg"
           /\ Then(<<"load">>) /\ UNCHANGED cells
  <2>1. 0 \in Int /\ Size \in Int /\ Own \in View
    BY PlacesAreNumbers, LazyCellsAssumption DEF Own
  <2>2. CellsOK'
    BY <1>1, <1>4, <2>1, MovesKeepCells DEF Moves, LInv, CellsOK
  <2>3. (PartsArePlaced' => OrderOK' /\ AnswersOK') /\ todo' # <<>> /\ todo'[1] = "load"
    BY <1>1, <1>2, <1>4, LoadComesNext DEF Works
  <2>4. PartsArePlaced'
    BY <2>3, PartsStay
  <2>5. QED
    BY <2>2, <2>3, <2>4, LInvIs
<1>5. CASE /\ Open("stream", 0, Size) /\ Works /\ Format = "jpeg" /\ Done
           /\ cells' = [cells EXCEPT !["container"] = 0, !["preview"] = 0]
  <2>1. Popped
    BY <1>2, <1>5, DonePops
  <2>2. /\ cells' = [d \in Cell |-> cells'[d]]
        /\ cells'["container"] = 0 /\ cells'["preview"] = 0
        /\ \A d \in Cell \ {"container", "preview"} : cells'[d] = cells[d]
    BY <1>5 DEF LInv, CellsOK, Cell
  <2>3. CellsOK' /\ hit \subseteq hit'
    <3>1. 0 \in Int /\ Size \in Int /\ "stream" \in View
      BY PlacesAreNumbers, LazyCellsAssumption
    <3>2. QED
      BY <1>1, <1>5, <2>2, <3>1, MovesKeepCells DEF Moves, Works
  <2>4. IsSet("container")' /\ IsSet("preview")' /\ cells["preview"] # None /\ Format' = Format
    <3>1. cells["preview"] = Unset
      BY <1>1, <1>5 DEF LInv, JpegContainer, IsSet
    <3>2. QED
      BY <1>1, <2>2, <3>1, PlacesAreNumbers DEF IsSet, Format
  <2>5. \A d \in Cell \ {"container", "preview"} : UNCHANGED cells[d]
    BY <2>2
  <2>6. StepsInOrder(todo)' /\ JpegSteps(todo)' /\ PartsArePlaced'
    BY <1>1, <2>1, PopKeepsOrder, PartsStay
  <2>7. StreamIsNear'
    <3>1. \A i \in 1 .. Len(todo') : todo'[i] # "stream"
      BY <1>5, <2>4, <2>6 DEF JpegSteps
    <3>2. QED
      BY <3>1 DEF StreamIsNear
  <2>8. StreamIsPlaced'
    <3>1. cur'["stream"] = 0 /\ base'["stream"] = Place("stream")'
      <4>1. "stream" \in View
        BY PlacesAreNumbers
      <4>2. QED
        BY <1>1, <1>5, <4>1 DEF Open, Alone, AllLost, LInv, CellsOK, Place, Format
    <3>2. ~IsSet("thumbnails")'
      BY <1>1, <1>5, <2>5 DEF LInv, JpegContainer, IsSet, Cell
    <3>3. todo' # <<>> => todo'[1] = "exif"
      <4>1. todo' # <<>> => 1 < Len(todo) /\ 1 \in 1 .. Len(todo) /\ todo'[1] = todo[1 + 1]
        BY <2>1, EmptySeq DEF Popped
      <4>2. QED
        BY <1>2, <1>5, <4>1 DEF LInv, JpegSteps
    <3>4. NothingBeforeTheDecoder'
      BY <1>5, <2>4, <3>2, <3>3 DEF NothingBeforeTheDecoder
    <3>5. QED
      BY <3>1, <3>4 DEF StreamIsPlaced
  <2>9. DecoderIsPlaced'
    <3>1. UNCHANGED <<cells["info"], cells["exif"]>>
      BY <2>5 DEF Cell
    <3>2. QED
      BY <1>1, <1>2, <2>3, <3>1, DecoderStays DEF OfDecoder
  <2>10. JpegContainer'
    BY <2>2, <2>4 DEF JpegContainer
  <2>11. KeptWhenDone'
    <3>1. UNCHANGED cells["exif"]
      BY <2>5 DEF Cell
    <3>2. QED
      BY <1>1, <1>2, <2>1, <2>4, <3>1, PopKeepsList DEF IsSet
  <2>12. AnswersOK'
    <3>1. PreviewIsOK'
      BY <1>5, <2>2, <2>4, PlacesAreNumbers DEF PreviewIsOK
    <3>2. QED
      BY <1>1, <2>3, <2>5, <3>1, CellStays, AnswersAre DEF AnswersOK, Cell
  <2>13. QED
    BY <2>3, <2>6, <2>7, <2>8, <2>9, <2>10, <2>11, <2>12, LInvIs DEF OrderOK
<1>6. QED
  BY <1>3, <1>4, <1>5 DEF Container, Own, Format

-----------------------------------------------------------------------------
(* The stream of a preview, found where nothing but its decoder is next.   *)
LEMMA StreamKeepsLInv == ASSUME LInv, Stream PROVE LInv'
<1>1. Doing("stream") /\ Done /\ UNCHANGED <<file, decoder>>
  BY DEF Stream
<1>2. /\ Popped /\ todo # <<>> /\ todo[1] = "stream" /\ Len(todo) > 0 /\ Len(todo) \in Nat
      /\ Format \in {"raf", "rw2"} /\ 1 \in 1 .. Len(todo)
  <2>1. /\ todo # <<>> /\ todo[1] = "stream" /\ Len(todo) > 0 /\ Len(todo) \in Nat
        /\ Format \in {"raf", "rw2"} /\ Popped
    BY <1>1, DoingIsFirst, DonePops
  <2>2. QED
    BY <2>1
<1>3. /\ ~IsSet("preview")
      /\ Format = "rw2" => IsSet("container") /\ IsSet("dirs")
  BY <1>2 DEF LInv, StreamIsNear
<1>4. DecoderIsNext(todo, 1)
  BY <1>2 DEF LInv, StepsInOrder
<1>5. \E value \in {None, Place("stream")} :
        /\ Set("preview", value) /\ Moves("stream") /\ hit \subseteq hit'
        /\ value = None => NoStream \/ "stream" \in hit'
        /\ value # None => /\ ~NoStream
                           /\ Open("stream", Place("stream"), Size - Place("stream"))
  <2>1. Place("stream") # None /\ Place("stream") \in Int /\ Size - Place("stream") \in Int
    <3>1. "stream" \in View
      BY PlacesAreNumbers
    <3>2. Place("stream") \in Int
      BY <3>1, PlacesAreNumbers
    <3>3. QED
      BY <3>2, PlacesAreNumbers, LazyCellsAssumption
  <2>2. CASE NoStream /\ Works /\ UNCHANGED windows /\ Set("preview", None)
    BY <2>2 DEF Moves, Works
  <2>3. CASE /\ ~NoStream /\ Open("stream", Place("stream"), Size - Place("stream")) /\ Works
             /\ Set("preview", Place("stream"))
    BY <2>1, <2>3 DEF Moves, Works
  <2>4. CASE ~NoStream /\ Breaks("stream") /\ Set("preview", None)
    BY <2>4 DEF Moves, Breaks
  <2>5. QED
    BY <2>2, <2>3, <2>4 DEF Stream
<1>6. PICK value \in {None, Place("stream")} :
        /\ Set("preview", value) /\ Moves("stream") /\ hit \subseteq hit'
        /\ value = None => NoStream \/ "stream" \in hit'
        /\ value # None => /\ ~NoStream
                           /\ Open("stream", Place("stream"), Size - Place("stream"))
  BY <1>5
<1>7. /\ cells' = [d \in Cell |-> cells'[d]] /\ cells'["preview"] = value
      /\ \A d \in Cell \ {"preview"} : cells'[d] = cells[d]
  BY <1>6, SetIs DEF Cell
<1>8. CellsOK' /\ "stream" \in View /\ value # Unset
  <2>1. "stream" \in View
    BY PlacesAreNumbers
  <2>2. CellsOK'
    BY <1>1, <1>6, <1>7, <2>1, MovesKeepCells
  <2>3. Place("stream") \in Int
    BY <2>1, PlacesAreNumbers
  <2>4. QED
    BY <2>1, <2>2, <2>3, PlacesAreNumbers
<1>9. /\ IsSet("preview")' /\ \A d \in Cell \ {"preview"} : IsSet(d)' = IsSet(d)
      /\ \A d \in Cell \ {"preview"} : UNCHANGED cells[d]
      /\ Format' = Format
  BY <1>1, <1>7, <1>8 DEF IsSet, Format
<1>10. StepsInOrder(todo)' /\ JpegSteps(todo)' /\ PartsArePlaced'
  BY <1>1, <1>2, PopKeepsOrder, PartsStay
<1>11. StreamIsNear'
  BY <1>1, <1>2, <1>9, PopKeepsStream DEF Cell
<1>12. StreamIsPlaced'
  <2> SUFFICES ASSUME Waits'
               PROVE  /\ cur'["stream"] = 0 /\ base'["stream"] = Place("stream")'
                      /\ NothingBeforeTheDecoder'
    BY DEF StreamIsPlaced
  <2>1. Open("stream", Place("stream"), Size - Place("stream"))
    BY <1>6, <1>7 DEF Waits, Holds
  <2>2. cur'["stream"] = 0 /\ base'["stream"] = Place("stream")'
    BY <1>1, <1>8, <2>1 DEF Open, Alone, AllLost, LInv, CellsOK, Place
  <2>3. CASE Format = "raf"
    <3>1. 1 < Len(todo) /\ todo[1 + 1] \in OfDecoder
      BY <1>4, <2>3 DEF DecoderIsNext
    <3>2. todo' # <<>> /\ todo'[1] \in OfDecoder
      BY <1>2, <3>1, EmptySeq DEF Popped
    <3>3. QED
      BY <1>9, <2>2, <2>3, <3>2 DEF NothingBeforeTheDecoder
  <2>4. CASE Format = "rw2"
    <3>1. \/ Len(todo') > 0 /\ todo'[1] \in OfDecoder
          \/ Len(todo') > 1 /\ todo'[1] = "offset" /\ todo'[2] \in OfDecoder
      <4>1. \/ 1 < Len(todo) /\ todo[1 + 1] \in OfDecoder
            \/ 1 + 1 < Len(todo) /\ todo[1 + 1] = "offset" /\ todo[1 + 2] \in OfDecoder
        BY <1>4 DEF DecoderIsNext
      <4>2. /\ 1 < Len(todo) => Len(todo') > 0 /\ todo'[1] = todo[1 + 1]
            /\ 1 + 1 < Len(todo) => Len(todo') > 1 /\ todo'[2] = todo[1 + 2] /\ 1 < Len(todo)
        BY <1>2 DEF Popped
      <4>3. QED
        BY <4>1, <4>2
    <3>2. IsSet("container")' /\ IsSet("dirs")'
      BY <1>3, <1>9, <2>4 DEF Cell
    <3>3. QED
      BY <1>9, <2>2, <2>4, <3>1, <3>2 DEF NothingBeforeTheDecoder
  <2>5. QED
    BY <1>2, <2>3, <2>4
<1>13. DecoderIsPlaced'
  <2>1. UNCHANGED <<cells["info"], cells["exif"]>>
    BY <1>9 DEF Cell
  <2>2. QED
    BY <1>1, <1>2, <1>6, <2>1, DecoderStays DEF OfDecoder
<1>14. JpegContainer'
  BY <1>2, <1>9 DEF JpegContainer
<1>15. KeptWhenDone'
  <2>1. cells["preview"] # None /\ UNCHANGED cells["exif"]
    BY <1>3, <1>9, PlacesAreNumbers DEF IsSet, Cell
  <2>2. QED
    BY <1>1, <1>2, <1>9, <2>1, PopKeepsList DEF IsSet
<1>16. AnswersOK'
  <2>1. PreviewIsOK'
    <3>1. SUFFICES ASSUME Untouched({"file", "stream"})'
                   PROVE  (value = None) = (Format = "rw2" /\ ~Has("stream"))
      BY <1>1, <1>7 DEF PreviewIsOK, Has, Format
    <3>2. "stream" \notin hit' /\ "file" \notin hit
      BY <1>6, <3>1 DEF Untouched
    <3>3. cells["dirs"] # None
      BY <3>2 DEF LInv, DirsAreRead
    <3>4. NoStream <=> Format = "rw2" /\ ~Has("stream")
      BY <3>3 DEF NoStream, Format
    <3>5. QED
      BY <1>6, <3>2, <3>4
  <2>2. QED
    BY <1>1, <1>6, <1>9, <2>1, CellStays, AnswersAre DEF AnswersOK, Cell
<1>17. QED
  BY <1>8, <1>10, <1>11, <1>12, <1>13, <1>14, <1>15, <1>16, LInvIs DEF OrderOK

-----------------------------------------------------------------------------
(* The decoder is made while its stream waits where it was placed.         *)
LEMMA AskedIsFirst ==
  ASSUME LInv, NEW c \in OfDecoder, Asked(c)
  PROVE  /\ todo # <<>> /\ todo[1] = c /\ Len(todo) > 0 /\ todo \in Seq(Steps)
         /\ c \in Cell /\ ~IsSet(c) /\ Holds("preview")
BY DoingIsFirst DEF Asked, OfDecoder, Cell, Holds

LEMMA MakeDecoderKeepsLInv == ASSUME LInv, MakeDecoder PROVE LInv'
<1>1. /\ decoder.state = "unset" /\ Duplicate("stream", "decoder")
      /\ decoder' = [state |-> "fresh"]
      /\ UNCHANGED <<file, cells, todo, hit>>
  BY DEF MakeDecoder
<1>2. PICK c \in OfDecoder : Asked(c)
  BY DEF MakeDecoder, OfDecoder
<1>3. todo # <<>> /\ todo[1] = c /\ Holds("preview")
  BY <1>2, AskedIsFirst
<1>4. cur["stream"] = 0 /\ base["stream"] = Place("stream")
  BY <1>1, <1>3 DEF LInv, StreamIsPlaced, Waits
<1>5. "decoder" \in View /\ "stream" \in View /\ 0 # Lost
  BY PlacesAreNumbers
<1>6. CellsOK'
  BY <1>1, <1>5, MovesKeepCells DEF Moves, LInv, CellsOK
<1>7. /\ \A d : IsSet(d)' = IsSet(d) /\ Holds(d)' = Holds(d) /\ Has(d)' = Has(d)
      /\ Format' = Format /\ OfPreview' = OfPreview /\ decoder'.state = "fresh"
  BY <1>1 DEF IsSet, Holds, Has, Format, OfPreview
<1>8. StepsInOrder(todo)' /\ JpegSteps(todo)'
  BY <1>1 DEF LInv, StepsInOrder, JpegSteps, DecoderIsNext, Format
<1>9. StreamIsNear' /\ KeptWhenDone' /\ JpegContainer'
  BY <1>1, <1>7 DEF LInv, StreamIsNear, KeptWhenDone, JpegContainer
<1>10. PartsArePlaced'
  BY <1>1, <1>3, PartsStay DEF OfDecoder
<1>11. StreamIsPlaced'
  BY <1>7 DEF StreamIsPlaced, Waits
<1>12. DecoderIsPlaced'
  <2>1. cur'["decoder"] = 0 /\ base'["decoder"] = Place("stream")'
    BY <1>1, <1>4, <1>5 DEF Duplicate, Alone, AllLost, LInv, CellsOK, Place
  <2>2. Asked(todo[1])' /\ todo'[1] \in OfDecoder
    BY <1>1, <1>2, <1>3 DEF Asked, Doing, IsSet
  <2>3. QED
    BY <1>1, <1>3, <1>7, <2>1, <2>2 DEF DecoderIsPlaced
<1>13. AnswersOK'
  <2>1. DecoderStartsAtItsStream'
    BY <1>7 DEF DecoderStartsAtItsStream
  <2>2. \A d \in Cell : UNCHANGED cells[d]
    BY <1>1
  <2>3. QED
    BY <1>1, <2>1, <2>2, CellStays, AnswersAre DEF AnswersOK, Cell
<1>14. QED
  BY <1>6, <1>8, <1>9, <1>10, <1>11, <1>12, <1>13, LInvIs DEF OrderOK

(* What the decoder says is kept, and the step is done.                    *)
LEMMA InfoIsWritten ==
  ASSUME LInv, NEW c \in OfDecoder, Asked(c), Done,
         NEW value, Set(c, value), value # Unset,
         UNCHANGED file, hit \subseteq hit', CellsOK',
         decoder'.state \in {"read", "broken"},
         decoder'.state = "read" => decoder'.from \in Int,
         decoder'.state = "broken" /\ Has("stream") => "decoder" \in hit',
         DecoderStartsAtItsStream',
         Has("stream") /\ "decoder" \notin hit' => value = Found(c, Place("stream"))
  PROVE  LInv'
<1>1. /\ Popped /\ todo[1] = c /\ Len(todo) > 0 /\ c \in Cell
      /\ c \in {"info", "exif"} /\ todo[1] \notin OfPreview
  <2>1. todo # <<>> /\ todo[1] = c /\ Len(todo) > 0 /\ todo \in Seq(Steps) /\ c \in Cell
    BY AskedIsFirst
  <2>2. QED
    BY <2>1, DonePops DEF OfDecoder, OfPreview
<1>2. cells'[c] = value /\ \A d \in Cell \ {c} : UNCHANGED cells[d]
  BY <1>1, SetIs
<1>3. /\ IsSet(c)'
      /\ UNCHANGED <<cells["container"], cells["dirs"], cells["preview"], cells["meta"],
                     cells["cfa"], cells["thumbnails"]>>
  BY <1>1, <1>2 DEF IsSet, Cell
<1>4. StepsInOrder(todo)' /\ JpegSteps(todo)' /\ PartsArePlaced'
  BY <1>1, PopKeepsOrder, PartsStay
<1>5. StreamIsNear'
  <2>1. todo[1] \notin {"container", "load", "dirs"}
    BY <1>1
  <2>2. /\ IsSet("container") => IsSet("container")'
        /\ IsSet("dirs") => IsSet("dirs")'
    BY <1>3 DEF IsSet
  <2>3. QED
    BY <1>1, <1>3, <2>1, <2>2, PopKeepsStream
<1>6. StreamIsPlaced'
  BY DEF StreamIsPlaced, Waits
<1>7. DecoderIsPlaced'
  BY DEF DecoderIsPlaced, Has
<1>8. JpegContainer'
  BY <1>1, <1>3, JpegStays
<1>9. KeptWhenDone'
  <2>1. IsSet("exif") => IsSet("exif")'
    BY <1>2, <1>3 DEF IsSet, Cell
  <2>2. IsSet("preview") => IsSet("preview")'
    BY <1>3 DEF IsSet
  <2>3. QED
    BY <1>1, <1>3, <2>1, <2>2, PopKeepsList
<1>10. AnswersOK'
  <2>1. InfoIsOK(c)'
    BY <1>2 DEF InfoIsOK, Untouched, Has, Found, Place
  <2>2. \A d \in OfDecoder \ {c} : UNCHANGED cells[d]
    BY <1>2 DEF OfDecoder, Cell
  <2>3. InfoIsOK("info")' /\ InfoIsOK("exif")'
    BY <1>1, <2>1, <2>2, CellStays DEF OfDecoder
  <2>4. QED
    BY <1>3, <2>3, CellStays, AnswersAre DEF AnswersOK
<1>11. QED
  BY <1>4, <1>5, <1>6, <1>7, <1>8, <1>9, <1>10, LInvIs DEF OrderOK

LEMMA InfoIsThereKeepsLInv ==
  ASSUME LInv, NEW c \in OfDecoder, InfoIsThere(c) PROVE LInv'
<1>1. /\ Asked(c) /\ decoder.state = "read" /\ Set(c, Found(c, decoder.from)) /\ Done
      /\ UNCHANGED <<windows, file, decoder, hit>>
  BY DEF InfoIsThere
<1>2. decoder.from \in Int
  BY <1>1 DEF LInv, DecoderIsPlaced
<1>3. Found(c, decoder.from) # Unset
  BY <1>2, PlacesAreNumbers DEF Found
<1>4. CellsOK'
  <2>1. cells' = [d \in Cell |-> cells'[d]]
    BY <1>1, SetIs, AskedIsFirst
  <2>2. QED
    BY <1>1, <2>1, MovesKeepCells, PlacesAreNumbers DEF Moves
<1>5. DecoderStartsAtItsStream'
  BY <1>1 DEF LInv, DecoderStartsAtItsStream, Has, Place
<1>6. Has("stream") /\ "decoder" \notin hit' => Found(c, decoder.from) = Found(c, Place("stream"))
  BY <1>1 DEF LInv, DecoderStartsAtItsStream
<1>7. QED
  BY <1>1, <1>2, <1>3, <1>4, <1>5, <1>6, InfoIsWritten

(* A decoder that did not fail is read where it was made.                  *)
LEMMA ReadInfoKeepsLInv ==
  ASSUME LInv, NEW c \in OfDecoder, ReadInfo(c) PROVE LInv'
<1> DEFINE from == answer'.from
<1>1. /\ Asked(c) /\ decoder.state \in {"fresh", "broken"} /\ Read("decoder", 1)
      /\ decoder' = [state |-> "read", from |-> from]
      /\ Set(c, Found(c, from)) /\ Done
      /\ UNCHANGED <<file, hit>>
  BY DEF ReadInfo
<1>2. "decoder" \in View /\ 0 # Lost
  BY PlacesAreNumbers
<1>3. from \in Int
  <2>1. \/ cur["decoder"] # Lost /\ from = base["decoder"] + cur["decoder"]
        \/ from \in Number
    BY <1>1 DEF Read
  <2>2. QED
    BY <1>2, <2>1, LazyCellsAssumption DEF LInv, CellsOK
<1>4. decoder'.state = "read" /\ decoder'.from = from
  BY <1>1
<1>5. Has("stream") /\ "decoder" \notin hit => from = Place("stream")
  <2> SUFFICES ASSUME Has("stream"), "decoder" \notin hit PROVE from = Place("stream")
    OBVIOUS
  <2>1. cur["decoder"] = 0 /\ base["decoder"] = Place("stream")
    BY <1>1 DEF LInv, DecoderIsPlaced
  <2>2. from = base["decoder"] + cur["decoder"]
    BY <1>1, <1>2, <2>1 DEF Read
  <2>3. QED
    BY <1>2, <2>1, <2>2 DEF LInv, CellsOK
<1> HIDE DEF from
<1>6. Found(c, from) # Unset
  BY <1>3, PlacesAreNumbers DEF Found
<1>7. CellsOK'
  <2>1. cells' = [d \in Cell |-> cells'[d]]
    BY <1>1, SetIs, AskedIsFirst
  <2>2. QED
    BY <1>1, <1>2, <2>1, MovesKeepCells DEF Moves
<1>8. DecoderStartsAtItsStream'
  BY <1>1, <1>4, <1>5 DEF DecoderStartsAtItsStream, Has, Place
<1>9. Has("stream") /\ "decoder" \notin hit' => Found(c, from) = Found(c, Place("stream"))
  BY <1>1, <1>5
<1>10. QED
  BY <1>1, <1>3, <1>4, <1>6, <1>7, <1>8, <1>9, InfoIsWritten

LEMMA ReadInfoFailsKeepsLInv ==
  ASSUME LInv, NEW c \in OfDecoder, ReadInfoFails(c) PROVE LInv'
<1>1. /\ Asked(c) /\ \E n \in {0, 1} : Read("decoder", n)
      /\ decoder' = [state |-> "broken"]
      /\ hit' = IF Has("stream") THEN hit \cup {"decoder"} ELSE hit
      /\ Set(c, None) /\ Done /\ UNCHANGED file
  BY DEF ReadInfoFails
<1>2. CellsOK'
  <2>1. cells' = [d \in Cell |-> cells'[d]]
    BY <1>1, SetIs, AskedIsFirst
  <2>2. QED
    BY <1>1, <2>1, MovesKeepCells, PlacesAreNumbers DEF Moves
<1>3. /\ decoder'.state = "broken" /\ hit \subseteq hit'
      /\ Has("stream") => "decoder" \in hit'
      /\ None # Unset
  BY <1>1, PlacesAreNumbers
<1>4. DecoderStartsAtItsStream'
  BY <1>3 DEF DecoderStartsAtItsStream
<1>5. QED
  BY <1>1, <1>2, <1>3, <1>4, InfoIsWritten

-----------------------------------------------------------------------------
(* Steps that take the place of the first one: the others move by d.       *)
Shifted(more, d) ==
  /\ d \in Nat /\ Len(todo) \in Nat /\ Len(more) = d + 1
  /\ todo' \in Seq(Steps) /\ Len(todo') \in Nat /\ Len(todo') = Len(todo) + d
  /\ 1 \in 1 .. Len(todo') /\ \A i \in 2 .. Len(todo') : i \in 1 .. Len(todo')
  /\ \A i \in 1 .. Len(more) : i \in 1 .. Len(todo') /\ todo'[i] = more[i]
  /\ \A i \in 1 .. Len(more) : i = Len(more) \/ (i < Len(more) /\ todo'[i + 1] = more[i + 1])
  /\ \A i \in 1 .. Len(more) : \A k \in 1 .. i - 1 : k \in 1 .. Len(more)
  /\ \A j \in 2 .. Len(todo) :
       /\ j \in 1 .. Len(todo) /\ j + d \in 1 .. Len(todo') /\ todo'[j + d] = todo[j]
       /\ j + d < Len(todo') <=> j < Len(todo)
       /\ j < Len(todo) => todo'[(j + d) + 1] = todo[j + 1]
       /\ j + 1 < Len(todo) => /\ j < Len(todo) /\ (j + d) + 1 < Len(todo')
                               /\ todo'[(j + d) + 2] = todo[j + 2]
  /\ \A i \in 1 .. Len(todo') :
       i \in 1 .. Len(more) \/ \E j \in 2 .. Len(todo) : i = j + d
  /\ \A i \in 1 .. Len(more) :
       /\ i < Len(more) => i < Len(todo')
       /\ i + 1 < Len(more) => /\ i < Len(more) /\ i + 1 < Len(todo')
                               /\ todo'[i + 2] = more[i + 2]

LEMMA Shifts ==
  \A n, d \in Nat : \A j \in 2 .. n :
    /\ j \in 1 .. n
    /\ j < n <=> j + d < n + d
    /\ j < n => j + 1 \in 2 .. n /\ (j + d) + 1 = (j + 1) + d
    /\ j + 1 < n => j + 2 \in 2 .. n /\ (j + d) + 2 = (j + 2) + d /\ (j + d) + 1 < n + d
    /\ \A k \in 1 .. j - 1 : (k = 1 \/ k \in 2 .. n) /\ k + d \in 1 .. (j + d) - 1
    /\ \A l \in 1 .. d + 1 : l \in 1 .. (j + d) - 1
OBVIOUS

LEMMA PushShifts ==
  ASSUME NEW more, Len(more) \in Nat, Len(more) > 0, Pushed(more)
  PROVE  \E d : Shifted(more, d)
<1> DEFINE d == Len(more) - 1
<1>1. /\ Len(todo) \in Nat /\ Len(todo) > 0 /\ Len(todo') = Len(more) + Len(todo) - 1
      /\ \A i \in 1 .. Len(more) : todo'[i] = more[i]
      /\ \A i \in Len(more) + 1 .. Len(todo') : todo'[i] = todo[i - Len(more) + 1]
  BY DEF Pushed
<1>2. /\ d \in Nat /\ Len(todo') = Len(todo) + d /\ Len(more) = d + 1
      /\ todo' \in Seq(Steps)
  BY <1>1 DEF Pushed
<1> HIDE DEF d
<1>3. \A i \in 1 .. Len(more) : i \in 1 .. Len(todo') /\ todo'[i] = more[i]
  BY <1>1, <1>2
<1>4. ASSUME NEW j \in 2 .. Len(todo)
      PROVE  j + d \in 1 .. Len(todo') /\ todo'[j + d] = todo[j]
  <2>1. /\ j + d \in Len(more) + 1 .. Len(todo') /\ (j + d) - Len(more) + 1 = j
        /\ j + d \in 1 .. Len(todo')
    BY <1>1, <1>2
  <2>2. todo'[j + d] = todo[(j + d) - Len(more) + 1]
    BY <1>1, <2>1
  <2>3. QED
    BY <2>1, <2>2
<1>5. ASSUME NEW i \in 1 .. Len(todo'), i \notin 1 .. Len(more)
      PROVE  \E j \in 2 .. Len(todo) : i = j + d
  <2>1. i - d \in 2 .. Len(todo) /\ i = (i - d) + d
    BY <1>1, <1>2, <1>5
  <2>2. QED
    BY <2>1
<1>6. /\ Len(todo') \in Nat /\ 1 \in 1 .. Len(todo')
      /\ \A i \in 2 .. Len(todo') : i \in 1 .. Len(todo')
      /\ \A i \in 1 .. Len(more) : i = Len(more) \/ (i < Len(more) /\ i + 1 \in 1 .. Len(more))
      /\ \A i \in 1 .. Len(more) : \A k \in 1 .. i - 1 : k \in 1 .. Len(more)
  BY <1>1, <1>2
<1>7. ASSUME NEW j \in 2 .. Len(todo)
      PROVE  /\ j \in 1 .. Len(todo)
             /\ j + d < Len(todo') <=> j < Len(todo)
             /\ j < Len(todo) => todo'[(j + d) + 1] = todo[j + 1]
             /\ j + 1 < Len(todo) => /\ j < Len(todo) /\ (j + d) + 1 < Len(todo')
                                     /\ todo'[(j + d) + 2] = todo[j + 2]
  <2>1. /\ j \in 1 .. Len(todo)
        /\ j < Len(todo) <=> j + d < Len(todo) + d
        /\ j < Len(todo) => j + 1 \in 2 .. Len(todo) /\ (j + d) + 1 = (j + 1) + d
        /\ j + 1 < Len(todo) => /\ j + 2 \in 2 .. Len(todo)
                                /\ (j + d) + 2 = (j + 2) + d
                                /\ (j + d) + 1 < Len(todo) + d
    BY <1>1, <1>2, Shifts
  <2>2. j < Len(todo) => todo'[(j + d) + 1] = todo[j + 1]
    <3>1. ASSUME j < Len(todo)
          PROVE  todo'[(j + 1) + d] = todo[j + 1]
      BY <2>1, <3>1, <1>4
    <3>2. QED
      BY <2>1, <3>1
  <2>3. j + 1 < Len(todo) => todo'[(j + d) + 2] = todo[j + 2]
    <3>1. ASSUME j + 1 < Len(todo)
          PROVE  todo'[(j + 2) + d] = todo[j + 2]
      BY <2>1, <3>1, <1>4
    <3>2. QED
      BY <2>1, <3>1
  <2>4. j + 1 < Len(todo) => j < Len(todo)
    BY <1>1
  <2>5. QED
    BY <1>2, <2>1, <2>2, <2>3, <2>4
<1>8. ASSUME NEW i \in 1 .. Len(more)
      PROVE  /\ i < Len(more) => i < Len(todo')
             /\ i + 1 < Len(more) => /\ i < Len(more) /\ i + 1 < Len(todo')
                                     /\ todo'[i + 2] = more[i + 2]
  <2>1. i + 1 < Len(more) => i + 2 \in 1 .. Len(more)
    OBVIOUS
  <2>2. Len(more) <= Len(todo')
    BY <1>1, <1>2
  <2>3. QED
    BY <1>1, <1>2, <2>1, <2>2
<1>9. Shifted(more, d)
  BY <1>1, <1>2, <1>3, <1>4, <1>5, <1>6, <1>7, <1>8 DEF Shifted
<1>10. QED
  BY <1>9

LEMMA PushKeepsOrder ==
  ASSUME LInv, UNCHANGED file,
         NEW more, Len(more) \in Nat, Len(more) > 0, Pushed(more), JpegSteps(more),
         Format = "jpeg" => more[Len(more)] # "container",
         \A i \in 1 .. Len(more) :
           /\ more[i] \notin {"load", "load meta", "load cfa"}
           /\ more[i] \in {"preview", "stream"} => DecoderIsNext(todo, i)'
  PROVE  StepsInOrder(todo)' /\ JpegSteps(todo)' /\ PartsArePlaced'
<1>1. PICK d : Shifted(more, d)
  BY PushShifts
<1>2. /\ d \in Nat /\ Len(todo) \in Nat /\ Len(todo') = Len(todo) + d /\ Len(more) = d + 1
      /\ \A i \in 1 .. Len(more) : i \in 1 .. Len(todo') /\ todo'[i] = more[i]
      /\ \A j \in 2 .. Len(todo) : j + d \in 1 .. Len(todo') /\ todo'[j + d] = todo[j]
      /\ \A i \in 1 .. Len(todo') :
           i \in 1 .. Len(more) \/ \E j \in 2 .. Len(todo) : i = j + d
      /\ \A j \in 2 .. Len(todo) : j \in 1 .. Len(todo)
  BY <1>1, Shifts DEF Shifted
<1>3. ASSUME NEW i \in 1 .. Len(todo')
      PROVE  todo'[i] \notin {"load", "load meta", "load cfa"}
  <2>1. CASE i \in 1 .. Len(more)
    BY <1>2, <2>1
  <2>2. ASSUME NEW j \in 2 .. Len(todo), i = j + d PROVE todo'[i] = todo[j]
    BY <1>2, <2>2
  <2>3. \A j \in 2 .. Len(todo) : todo[j] \notin {"load", "load meta", "load cfa"}
    BY DEF LInv, StepsInOrder
  <2>4. QED
    BY <1>2, <2>1, <2>2, <2>3
<1>4. ASSUME NEW i \in 1 .. Len(todo'), todo'[i] \in {"preview", "stream"}
      PROVE  DecoderIsNext(todo, i)'
  <2>1. CASE i \in 1 .. Len(more)
    BY <1>2, <1>4, <2>1
  <2>2. ASSUME NEW j \in 2 .. Len(todo), i = j + d PROVE DecoderIsNext(todo, i)'
    <3>1. j \in 1 .. Len(todo) /\ todo[j] = todo'[i]
      BY <1>2, <2>2
    <3>2. DecoderIsNext(todo, j)
      BY <1>4, <3>1 DEF LInv, StepsInOrder
    <3>3. /\ j < Len(todo) => i < Len(todo') /\ todo'[i + 1] = todo[j + 1]
          /\ j + 1 < Len(todo) => /\ i + 1 < Len(todo') /\ todo'[i + 2] = todo[j + 2]
                                  /\ todo'[i + 1] = todo[j + 1]
      BY <1>1, <2>2 DEF Shifted
    <3>4. QED
      BY ONLY <3>2, <3>3, UNCHANGED file DEF DecoderIsNext, Format
  <2>3. QED
    BY <1>2, <2>1, <2>2
<1>5. JpegSteps(todo)'
  <2> SUFFICES ASSUME Format = "jpeg", NEW i \in 1 .. Len(todo')
               PROVE  /\ todo'[i] \in {"thumbnails", "container", "exif", "keep", "bytes"}
                      /\ i < Len(todo') /\ todo'[i] = "container" => todo'[i + 1] = "exif"
    BY DEF JpegSteps, Format
  <2>1. CASE i \in 1 .. Len(more)
    <3>1. /\ more[i] \in {"thumbnails", "container", "exif", "keep", "bytes"}
          /\ i < Len(more) /\ more[i] = "container" => more[i + 1] = "exif"
      BY <2>1 DEF JpegSteps
    <3>2. i = Len(more) \/ (i < Len(more) /\ todo'[i + 1] = more[i + 1])
      BY <1>1, <2>1 DEF Shifted
    <3>3. todo'[i] = more[i]
      BY <1>2, <2>1
    <3>4. i = Len(more) => more[i] # "container"
      OBVIOUS
    <3>5. QED
      BY <3>1, <3>2, <3>3, <3>4
  <2>2. ASSUME NEW j \in 2 .. Len(todo), i = j + d
        PROVE  /\ todo'[i] \in {"thumbnails", "container", "exif", "keep", "bytes"}
               /\ i < Len(todo') /\ todo'[i] = "container" => todo'[i + 1] = "exif"
    <3>1. /\ todo[j] \in {"thumbnails", "container", "exif", "keep", "bytes"}
          /\ j < Len(todo) /\ todo[j] = "container" => todo[j + 1] = "exif"
      BY <1>2 DEF LInv, JpegSteps
    <3>2. /\ todo'[i] = todo[j]
          /\ i < Len(todo') => j < Len(todo) /\ todo'[i + 1] = todo[j + 1]
      BY <1>1, <2>2 DEF Shifted
    <3>3. QED
      BY <3>1, <3>2
  <2>3. QED
    BY <1>2, <2>1, <2>2
<1>6. PartsArePlaced'
  <2>1. 1 \in 1 .. Len(todo')
    BY <1>1 DEF Shifted
  <2>2. QED
    BY <1>3, <2>1, PartsStay
<1>7. StepsInOrder(todo)'
  <2>1. todo' \in Seq(Steps) /\ \A i \in 2 .. Len(todo') : i \in 1 .. Len(todo')
    BY <1>1 DEF Shifted
  <2>2. QED
    BY <1>3, <1>4, <2>1 DEF StepsInOrder
<1>8. QED
  BY <1>5, <1>6, <1>7

LEMMA PushKeepsList ==
  ASSUME LInv, UNCHANGED <<file, cells>>,
         NEW more, Len(more) \in Nat, Len(more) > 0, Pushed(more), todo[1] # "exif",
         todo[1] \in OfPreview => \E k \in 1 .. Len(more) : more[k] \in OfPreview,
         \A i \in 1 .. Len(more) :
           /\ more[i] \in {"exif", "keep"} => \E k \in 1 .. i - 1 : more[k] \in OfPreview
           /\ more[i] = "keep" => \E k \in 1 .. i - 1 : more[k] = "exif"
  PROVE  KeptWhenDone'
<1>1. PICK d : Shifted(more, d)
  BY PushShifts
<1>2. /\ d \in Nat /\ Len(todo) \in Nat /\ Len(todo') = Len(todo) + d /\ Len(more) = d + 1
      /\ \A i \in 1 .. Len(more) : i \in 1 .. Len(todo') /\ todo'[i] = more[i]
      /\ \A j \in 2 .. Len(todo) : j + d \in 1 .. Len(todo') /\ todo'[j + d] = todo[j]
      /\ \A i \in 1 .. Len(todo') :
           i \in 1 .. Len(more) \/ \E j \in 2 .. Len(todo) : i = j + d
      /\ \A j \in 2 .. Len(todo) : j \in 1 .. Len(todo)
  BY <1>1, Shifts DEF Shifted
<1>9. \A i \in 1 .. Len(more) : \A k \in 1 .. i - 1 : k \in 1 .. Len(more)
  BY <1>1 DEF Shifted
<1>3. /\ \A c : IsSet(c)' = IsSet(c)
      /\ OfPreview' = OfPreview
  BY DEF IsSet, OfPreview, Format
<1>4. ASSUME NEW j \in 2 .. Len(todo), NEW k \in 1 .. j - 1
      PROVE  \/ k = 1 /\ \A l \in 1 .. Len(more) : l \in 1 .. (j + d) - 1
             \/ k + d \in 1 .. (j + d) - 1 /\ todo'[k + d] = todo[k]
  <2>1. /\ k = 1 \/ k \in 2 .. Len(todo)
        /\ k + d \in 1 .. (j + d) - 1
        /\ \A l \in 1 .. Len(more) : l \in 1 .. (j + d) - 1
    BY <1>2, Shifts
  <2>2. QED
    BY <1>2, <2>1
<1>5. ASSUME NEW i \in 1 .. Len(todo'), todo'[i] \in {"exif", "keep"}
      PROVE  IsSet("preview") \/ \E k \in 1 .. i - 1 : todo'[k] \in OfPreview
  <2>1. CASE i \in 1 .. Len(more)
    BY <1>2, <1>9, <1>5, <2>1
  <2>2. ASSUME NEW j \in 2 .. Len(todo), i = j + d
        PROVE  IsSet("preview") \/ \E k \in 1 .. i - 1 : todo'[k] \in OfPreview
    <3>1. IsSet("preview") \/ \E k \in 1 .. j - 1 : todo[k] \in OfPreview
      BY <1>2, <1>5, <2>2 DEF LInv, KeptWhenDone
    <3>2. ASSUME NEW k \in 1 .. j - 1, todo[k] \in OfPreview
          PROVE  \E l \in 1 .. i - 1 : todo'[l] \in OfPreview
      <4>1. CASE k = 1 /\ \A l \in 1 .. Len(more) : l \in 1 .. (j + d) - 1
        BY <1>2, <2>2, <3>2, <4>1
      <4>2. CASE k + d \in 1 .. (j + d) - 1 /\ todo'[k + d] = todo[k]
        BY <2>2, <3>2, <4>2
      <4>3. QED
        BY <1>4, <4>1, <4>2
    <3>3. QED
      BY <3>1, <3>2
  <2>3. QED
    BY <1>2, <2>1, <2>2
<1>6. ASSUME NEW i \in 1 .. Len(todo'), todo'[i] = "keep"
      PROVE  \/ IsSet("exif") \/ cells["preview"] = None
             \/ \E k \in 1 .. i - 1 : todo'[k] = "exif"
  <2>1. CASE i \in 1 .. Len(more)
    BY <1>2, <1>9, <1>6, <2>1
  <2>2. ASSUME NEW j \in 2 .. Len(todo), i = j + d
        PROVE  \/ IsSet("exif") \/ cells["preview"] = None
               \/ \E k \in 1 .. i - 1 : todo'[k] = "exif"
    <3>1. IsSet("exif") \/ cells["preview"] = None \/ \E k \in 1 .. j - 1 : todo[k] = "exif"
      BY <1>2, <1>6, <2>2 DEF LInv, KeptWhenDone
    <3>2. ASSUME NEW k \in 1 .. j - 1, todo[k] = "exif"
          PROVE  \E l \in 1 .. i - 1 : todo'[l] = "exif"
      BY <1>4, <2>2, <3>2
    <3>3. QED
      BY <3>1, <3>2
  <2>3. QED
    BY <1>2, <2>1, <2>2
<1>7. QED
  BY <1>3, <1>5, <1>6 DEF KeptWhenDone

LEMMA NoStreamLater ==
  ASSUME LInv, Len(todo) > 0, todo[1] \notin {"container", "load", "dirs"}
  PROVE  \A j \in 2 .. Len(todo) : todo[j] # "stream"
<1> SUFFICES ASSUME NEW j \in 2 .. Len(todo), todo[j] = "stream" PROVE FALSE
  OBVIOUS
<1>1. Len(todo) \in Nat
  BY FirstStep DEF LInv, StepsInOrder
<1>2. j \in 1 .. Len(todo) /\ j > 1 /\ (j = 2 \/ j = 3 \/ ~ j < 4)
  BY <1>1
<1>3. Format = "raf" \/ Format = "rw2"
  BY <1>2 DEF LInv, CellsOK, FileType, JpegSteps, Format
<1>4. /\ Format = "raf" => j = 1
      /\ Format = "rw2" => /\ j < 4 /\ todo[j - 1] = "dirs"
                           /\ j = 3 => todo[1] \in {"container", "load"}
  BY <1>2 DEF LInv, StreamIsNear
<1>5. j = 2 => j - 1 = 1
  OBVIOUS
<1>6. j # 1
  BY <1>2
<1>7. QED
  BY <1>2, <1>3, <1>4, <1>5, <1>6

LEMMA WholeIsPushed ==
  ASSUME LInv, NEW more, Whole(more), todo # <<>>, Then(more),
         todo[1] \notin {"container", "load", "dirs", "preview", "stream", "info", "exif"},
         Format = "jpeg" => more[Len(more)] # "container",
         UNCHANGED <<windows, file, cells, decoder, hit>>
  PROVE  /\ todo' # <<>> /\ todo'[1] = more[1] /\ Pushed(more)
         /\ JpegContainer' /\ StreamIsPlaced' => LInv'
<1>1. /\ more \in Seq(Steps) /\ Len(more) \in Nat /\ Len(more) > 0 /\ JpegSteps(more)
      /\ \A i \in 1 .. Len(more) :
           /\ more[i] \notin {"load", "load meta", "load cfa", "stream"}
           /\ more[i] = "preview" => DecoderIsNext(more, i)
           /\ more[i] \in {"exif", "keep"} => \E k \in 1 .. i - 1 : more[k] \in OfPreview
           /\ more[i] = "keep" => \E k \in 1 .. i - 1 : more[k] = "exif"
  BY DEF Whole
<1>2. Pushed(more)
  BY <1>1, ThenPushes DEF LInv, StepsInOrder
<1>3. PICK d : Shifted(more, d)
  BY <1>1, <1>2, PushShifts
<1>4. Format' = Format /\ UNCHANGED <<base, cur>>
  BY DEF Format, windows
<1>5. ASSUME NEW i \in 1 .. Len(more), more[i] \in {"preview", "stream"}
      PROVE  DecoderIsNext(todo, i)'
  <2>1. DecoderIsNext(more, i)
    BY <1>1, <1>5
  <2>2. /\ i < Len(more) => i < Len(todo') /\ todo'[i + 1] = more[i + 1]
        /\ i + 1 < Len(more) => /\ i + 1 < Len(todo') /\ todo'[i + 2] = more[i + 2]
                                /\ todo'[i + 1] = more[i + 1]
    <3>1. /\ i = Len(more) \/ (i < Len(more) /\ todo'[i + 1] = more[i + 1])
          /\ i < Len(more) => i < Len(todo')
          /\ i + 1 < Len(more) => /\ i < Len(more) /\ i + 1 < Len(todo')
                                  /\ todo'[i + 2] = more[i + 2]
      BY <1>3 DEF Shifted
    <3>2. i = Len(more) => ~ i < Len(more)
      <4>1. Len(more) \in Nat
        BY <1>1
      <4>2. QED
        BY ONLY <4>1
    <3>3. QED
      BY <3>1, <3>2
  <2>3. QED
    BY ONLY <1>4, <2>1, <2>2 DEF DecoderIsNext
<1>6. StepsInOrder(todo)' /\ JpegSteps(todo)' /\ PartsArePlaced'
  BY <1>1, <1>2, <1>5, PushKeepsOrder
<1>7. KeptWhenDone'
  <2>1. todo[1] \notin OfPreview
    BY DEF OfPreview
  <2>2. QED
    BY <1>1, <1>2, <2>1, PushKeepsList
<1>8. StreamIsNear'
  <2>1. Len(todo) > 0
    BY <1>2 DEF Pushed
  <2>2. \A j \in 2 .. Len(todo) : todo[j] # "stream"
    BY <2>1, NoStreamLater
  <2>3. ASSUME NEW i \in 1 .. Len(todo') PROVE todo'[i] # "stream"
    <3>1. CASE i \in 1 .. Len(more)
      <4>1. todo'[i] = more[i]
        BY <1>3, <3>1 DEF Shifted
      <4>2. QED
        BY <1>1, <3>1, <4>1
    <3>2. ASSUME NEW j \in 2 .. Len(todo), i = j + d PROVE todo'[i] # "stream"
      <4>1. todo'[i] = todo[j]
        BY <1>3, <3>2 DEF Shifted
      <4>2. QED
        BY <2>2, <4>1
    <3>3. i \in 1 .. Len(more) \/ \E j \in 2 .. Len(todo) : i = j + d
      BY <1>3 DEF Shifted
    <3>4. QED
      BY <3>1, <3>2, <3>3
  <2>4. QED
    BY <2>3 DEF StreamIsNear
<1>9. CellsOK' /\ AnswersOK'
  BY <1>4, AnswersStay DEF LInv, CellsOK
<1>10. DecoderIsPlaced'
  BY <1>4, DecoderStays DEF OfDecoder
<1>11. todo' # <<>> /\ todo'[1] = more[1]
  <2>1. 1 \in 1 .. Len(more)
    <3>1. Len(more) \in Nat /\ Len(more) > 0
      BY <1>1
    <3>2. QED
      BY ONLY <3>1
  <2>2. todo'[1] = more[1] /\ Len(todo') \in Nat /\ 1 \in 1 .. Len(todo')
    BY <1>3, <2>1 DEF Shifted
  <2>3. QED
    BY <2>2, EmptySeq
<1>12. QED
  BY <1>2, <1>6, <1>7, <1>8, <1>9, <1>10, <1>11, LInvIs DEF OrderOK

(* The list of thumbnails is asked for.                                    *)
LEMMA ThumbnailsKeepLInv == ASSUME LInv, Thumbnails PROVE LInv'
<1> DEFINE more == CASE Format = "raf" -> <<"container", "preview", "info", "exif", "keep">>
                     [] Format = "rw2" -> <<"preview", "offset", "exif", "info", "keep">>
                     [] Format = "jpeg" -> <<"container", "exif", "keep">>
<1>1. /\ Doing("thumbnails") /\ ~IsSet("thumbnails") /\ Then(more)
      /\ UNCHANGED <<windows, file, cells, decoder, hit>>
  BY DEF Thumbnails, StartThumbnails, Format
<1>2. /\ todo # <<>> /\ todo[1] = "thumbnails" /\ Len(todo) > 0
      /\ Format \in {"raf", "rw2", "jpeg"}
  BY <1>1, DoingIsFirst
<1>3. Whole(more)
  BY <1>2, ListsAreWhole DEF LInv, CellsOK
<1>4. Format = "jpeg" => more[1] = "container" /\ more[Len(more)] # "container"
  <2>1. LET t == <<"container", "exif", "keep">> IN t[1] = "container" /\ t[Len(t)] = "keep"
    OBVIOUS
  <2>2. QED
    BY <2>1
<1> HIDE DEF more
<1>5. /\ todo' # <<>> /\ todo'[1] = more[1]
      /\ JpegContainer' /\ StreamIsPlaced' => LInv'
  BY <1>1, <1>2, <1>3, <1>4, WholeIsPushed
<1>6. /\ \A d : IsSet(d)' = IsSet(d)
      /\ Format' = Format /\ UNCHANGED <<file, cells, decoder, hit, base, cur>>
  BY <1>1 DEF IsSet, Format, windows
<1>7. JpegContainer'
  BY <1>4, <1>5, <1>6 DEF LInv, JpegContainer
<1>8. StreamIsPlaced'
  <2> SUFFICES ASSUME Waits PROVE NothingBeforeTheDecoder'
    BY <1>6 DEF LInv, StreamIsPlaced, Waits, Place, Holds
  <2>1. NothingBeforeTheDecoder
    BY DEF LInv, StreamIsPlaced
  <2>2. Format = "jpeg" /\ IsSet("container")
    BY <1>2, <2>1 DEF NothingBeforeTheDecoder, OfDecoder
  <2>3. QED
    BY <1>1, <1>4, <1>5, <1>6, <2>2 DEF NothingBeforeTheDecoder
<1>9. QED
  BY <1>5, <1>7, <1>8

(* The offset of the stream is asked for once more, before the decoder.    *)
LEMMA OffsetKeepsLInv == ASSUME LInv, Offset PROVE LInv'
<1> DEFINE more == <<"container", "dirs">>
<1>1. /\ Doing("offset") /\ Then(more)
      /\ UNCHANGED <<windows, file, cells, decoder, hit>>
  BY DEF Offset
<1>2. /\ todo # <<>> /\ todo[1] = "offset" /\ Len(todo) > 0 /\ Len(todo) \in Nat
      /\ Format \in {"raf", "rw2"}
  BY <1>1, DoingIsFirst
<1>3. Whole(more)
  BY <1>2, ListsAreWhole DEF LInv, CellsOK
<1>4. Len(more) = 2 /\ more[1] = "container" /\ more[2] = "dirs"
  OBVIOUS
<1> HIDE DEF more
<1>5. Pushed(more) /\ (JpegContainer' /\ StreamIsPlaced' => LInv')
  BY <1>1, <1>2, <1>3, WholeIsPushed
<1>6. /\ \A d : IsSet(d)' = IsSet(d)
      /\ Format' = Format /\ UNCHANGED <<file, cells, decoder, hit, base, cur>>
  BY <1>1 DEF IsSet, Format, windows
<1>7. JpegContainer'
  BY <1>2, <1>6 DEF JpegContainer
<1>8. StreamIsPlaced'
  <2> SUFFICES ASSUME Waits PROVE NothingBeforeTheDecoder'
    BY <1>6 DEF LInv, StreamIsPlaced, Waits, Place, Holds
  <2>1. NothingBeforeTheDecoder
    BY DEF LInv, StreamIsPlaced
  <2>2. Format = "rw2"
    BY <1>2, <2>1 DEF NothingBeforeTheDecoder, OfDecoder
  <2>3. IsSet("container") /\ IsSet("dirs") /\ Len(todo) > 1 /\ todo[2] \in OfDecoder
    BY <1>2, <2>1, <2>2 DEF NothingBeforeTheDecoder, OfDecoder
  <2>4. /\ Len(todo') > 2 /\ todo'[1] = "container" /\ todo'[2] = "dirs"
        /\ todo'[3] = todo[2]
    <3>1. PICK d : Shifted(more, d)
      BY <1>4, <1>5, PushShifts
    <3>2. d = 1 /\ 2 \in 2 .. Len(todo) /\ 1 \in 1 .. Len(more) /\ 2 \in 1 .. Len(more)
      <4>1. Len(more) = 2 /\ Len(more) = d + 1 /\ d \in Nat
        BY <1>4, <3>1 DEF Shifted
      <4>2. Len(todo) \in Nat /\ Len(todo) > 1
        BY <1>2, <2>3
      <4>3. d = 1
        BY ONLY <4>1
      <4>4. 2 \in 2 .. Len(todo)
        BY ONLY <4>2
      <4>5. 1 \in 1 .. Len(more) /\ 2 \in 1 .. Len(more)
        BY ONLY <4>1
      <4>6. QED
        BY <4>3, <4>4, <4>5
    <3>3. todo'[1] = more[1] /\ todo'[2] = more[2] /\ todo'[2 + 1] = todo[2]
      BY <3>1, <3>2 DEF Shifted
    <3>4. Len(todo') > 2
      <4>1. Len(todo') = Len(todo) + d /\ Len(todo) \in Nat /\ Len(todo) > 1
        BY <1>2, <2>3, <3>1 DEF Shifted
      <4>2. QED
        BY ONLY <3>2, <4>1
    <3>5. QED
      BY <1>4, <3>3, <3>4
  <2>5. QED
    BY <1>6, <2>2, <2>3, <2>4 DEF NothingBeforeTheDecoder
<1>9. QED
  BY <1>5, <1>7, <1>8

(* The stream is looked for, right after its file was read, and before its *)
(* decoder.                                                                *)
LEMMA StreamIsLookedFor ==
  ASSUME LInv, Doing("preview"), ~IsSet("preview"), NEW more \in Seq(Steps), Then(more),
         \/ Format = "raf" /\ Len(more) = 1 /\ more[1] = "stream"
         \/ /\ Format = "rw2" /\ Len(more) = 3
            /\ more[1] = "container" /\ more[2] = "dirs" /\ more[3] = "stream",
         UNCHANGED <<windows, file, cells, decoder, hit>>
  PROVE  LInv'
<1>1. /\ todo # <<>> /\ todo[1] = "preview" /\ Len(todo) > 0 /\ Len(todo) \in Nat
      /\ todo \in Seq(Steps) /\ Format # "jpeg"
  BY DoingIsFirst
<1>2. /\ \A c : IsSet(c)' = IsSet(c)
      /\ Format' = Format /\ UNCHANGED <<file, cells, decoder, hit, base, cur>>
  BY DEF IsSet, Format, windows
<1>3. Len(more) \in Nat /\ Len(more) > 0 /\ Len(more) \in {1, 3}
  OBVIOUS
<1>4. Pushed(more)
  BY <1>1, ThenPushes
<1>5. PICK d : Shifted(more, d)
  BY <1>3, <1>4, PushShifts
<1>6. DecoderIsNext(todo, 1)
  <2>1. 1 \in 1 .. Len(todo)
    BY ONLY <1>1
  <2>2. QED
    BY <1>1, <2>1 DEF LInv, StepsInOrder
<1>7. DecoderIsNext(todo, Len(more))'
  <2>1. /\ 1 < Len(todo) => /\ Len(more) < Len(todo')
                            /\ todo'[Len(more) + 1] = todo[1 + 1]
        /\ 1 + 1 < Len(todo) => /\ Len(more) + 1 < Len(todo')
                                /\ todo'[Len(more) + 1] = todo[1 + 1]
                                /\ todo'[Len(more) + 2] = todo[1 + 2]
    <3>1. /\ d \in Nat /\ Len(more) = d + 1 /\ Len(todo') = Len(todo) + d
          /\ Len(todo') \in Nat /\ Len(todo) \in Nat
          /\ \A j \in 2 .. Len(todo) : todo'[j + d] = todo[j]
      BY <1>5 DEF Shifted
    <3>2. 1 < Len(todo) => 2 \in 2 .. Len(todo) /\ 2 + d = Len(more) + 1
      BY ONLY <3>1
    <3>3. 1 + 1 < Len(todo) => 3 \in 2 .. Len(todo) /\ 3 + d = Len(more) + 2 /\ 1 < Len(todo)
      BY ONLY <3>1
    <3>4. /\ 1 < Len(todo) => Len(more) < Len(todo')
          /\ 1 + 1 < Len(todo) => Len(more) + 1 < Len(todo')
          /\ 1 + 1 = 2 /\ 1 + 2 = 3
      BY ONLY <3>1
    <3>5. QED
      BY ONLY <3>1, <3>2, <3>3, <3>4
  <2>2. QED
    BY ONLY <1>2, <1>6, <2>1 DEF DecoderIsNext
<1>8. ASSUME NEW i \in 1 .. Len(more)
      PROVE  (more[i] = "stream" /\ i = Len(more)) \/ more[i] \in {"container", "dirs"}
  <2>1. CASE Len(more) = 1
    <3>1. i = 1
      BY ONLY <2>1
    <3>2. QED
      BY <2>1, <3>1
  <2>2. CASE Len(more) = 3
    <3>1. i = 1 \/ i = 2 \/ i = 3
      BY ONLY <2>2
    <3>2. QED
      BY <2>2, <3>1
  <2>3. QED
    BY <1>3, <2>1, <2>2
<1>9. JpegSteps(more)
  BY <1>1 DEF JpegSteps
<1>10. StepsInOrder(todo)' /\ JpegSteps(todo)' /\ PartsArePlaced'
  BY <1>1, <1>3, <1>4, <1>7, <1>8, <1>9, PushKeepsOrder
<1>11. KeptWhenDone'
  <2>1. more[Len(more)] \in OfPreview /\ Len(more) \in 1 .. Len(more)
    <3>1. Len(more) \in 1 .. Len(more)
      BY ONLY <1>3
    <3>2. more[Len(more)] = "stream"
      OBVIOUS
    <3>3. QED
      BY <1>1, <3>1, <3>2 DEF OfPreview
  <2>2. QED
    BY <1>1, <1>3, <1>4, <1>8, <2>1, PushKeepsList
<1>12. StreamIsNear'
  <2>1. \A j \in 2 .. Len(todo) : todo[j] # "stream"
    BY <1>1, NoStreamLater
  <2>2. ASSUME NEW i \in 1 .. Len(todo'), todo'[i] = "stream" PROVE i = Len(more)
    <3>1. CASE i \in 1 .. Len(more)
      <4>1. todo'[i] = more[i]
        BY <1>5, <3>1 DEF Shifted
      <4>2. QED
        BY <1>8, <2>2, <3>1, <4>1
    <3>2. ASSUME NEW j \in 2 .. Len(todo), i = j + d PROVE FALSE
      <4>1. todo'[i] = todo[j]
        BY <1>5, <3>2 DEF Shifted
      <4>2. QED
        BY <2>1, <2>2, <4>1
    <3>3. i \in 1 .. Len(more) \/ \E j \in 2 .. Len(todo) : i = j + d
      BY <1>5 DEF Shifted
    <3>4. QED
      BY <3>1, <3>2, <3>3
  <2>3. CASE Format = "raf"
    BY <1>2, <2>2, <2>3 DEF StreamIsNear
  <2>4. CASE Format = "rw2"
    <3>1. Len(more) = 3 /\ more[1] = "container" /\ more[2] = "dirs"
      BY <2>4
    <3>2. 1 \in 1 .. Len(more) /\ 2 \in 1 .. Len(more) /\ 3 - 1 = 2 /\ 3 < 4 /\ ~ 3 < 3
      <4>1. Len(more) = 3
        BY <3>1
      <4>2. QED
        BY ONLY <4>1
    <3>3. todo'[1] = "container" /\ todo'[3 - 1] = "dirs"
      BY <1>5, <3>1, <3>2 DEF Shifted
    <3>4. \A i \in 1 .. Len(todo') : todo'[i] = "stream" => i = 3
      BY <2>2, <3>1
    <3>5. QED
      BY <1>2, <2>4, <3>2, <3>3, <3>4 DEF StreamIsNear
  <2>5. QED
    BY <2>3, <2>4
<1>13. StreamIsPlaced'
  BY <1>1, <1>2, NothingWaits, StreamStays DEF Other
<1>14. DecoderIsPlaced'
  BY <1>1, <1>2, DecoderStays DEF OfDecoder
<1>15. JpegContainer'
  BY <1>1, <1>2 DEF JpegContainer
<1>16. CellsOK' /\ AnswersOK'
  BY <1>2, AnswersStay DEF LInv, CellsOK
<1>17. QED
  BY <1>10, <1>11, <1>12, <1>13, <1>14, <1>15, <1>16, LInvIs DEF OrderOK

LEMMA PreviewKeepsLInv == ASSUME LInv, Preview PROVE LInv'
<1>1. /\ Doing("preview") /\ ~IsSet("preview")
      /\ UNCHANGED <<windows, file, cells, decoder, hit>>
      /\ Format \in {"raf", "rw2"}
  <2>1. /\ Doing("preview") /\ ~IsSet("preview")
        /\ UNCHANGED <<windows, file, cells, decoder, hit>>
    BY DEF Preview
  <2>2. QED
    BY <2>1, DoingIsFirst
<1>2. CASE Format = "raf"
  <2> DEFINE more == <<"stream">>
  <2>1. more \in Seq(Steps) /\ Len(more) = 1 /\ more[1] = "stream"
    BY Tuples DEF Steps
  <2>2. Then(more)
    BY <1>2 DEF Preview, Format
  <2> HIDE DEF more
  <2>3. QED
    BY <1>1, <1>2, <2>1, <2>2, StreamIsLookedFor
<1>3. CASE Format = "rw2"
  <2> DEFINE more == <<"container", "dirs", "stream">>
  <2>1. more \in Seq(Steps)
    <3>1. {"container", "dirs", "stream"} \subseteq Steps
      BY DEF Steps
    <3>2. QED
      BY <3>1, Tuples
  <2>2. Len(more) = 3 /\ more[1] = "container" /\ more[2] = "dirs" /\ more[3] = "stream"
    OBVIOUS
  <2>3. Then(more)
    BY <1>3 DEF Preview, Format
  <2> HIDE DEF more
  <2>4. QED
    BY <1>1, <1>3, <2>1, <2>2, <2>3, StreamIsLookedFor
<1>4. QED
  BY <1>1, <1>2, <1>3

-----------------------------------------------------------------------------
LEMMA InitIsInOrder == LazyInit => LInv
<1> SUFFICES ASSUME LazyInit PROVE LInv
  OBVIOUS
<1>1. /\ file \in FileType /\ cells = [c \in Cell |-> Unset]
      /\ base = [v \in View |-> 0] /\ cur = [v \in View |-> Lost]
      /\ decoder.state = "unset" /\ todo = <<>> /\ hit = {}
  BY LazyCellsAssumption DEF LazyInit, Init, AllLost
<1>2. \A c \in Cell : ~IsSet(c)
  BY <1>1 DEF IsSet
<1>3. CellsOK
  BY <1>1 DEF CellsOK
<1>4. Len(todo) = 0 /\ todo \in Seq(Steps) /\ 1 .. Len(todo) = {} /\ 2 .. Len(todo) = {}
  BY <1>1
<1>5. /\ StepsInOrder(todo) /\ JpegSteps(todo) /\ StreamIsNear /\ KeptWhenDone
      /\ PartsArePlaced
  BY <1>1, <1>4 DEF StepsInOrder, JpegSteps, StreamIsNear, KeptWhenDone, PartsArePlaced
<1>6. StreamIsPlaced /\ DecoderIsPlaced /\ JpegContainer
  BY <1>1, <1>2 DEF StreamIsPlaced, Waits, Holds, IsSet, DecoderIsPlaced, JpegContainer, Cell
<1>7. DirsAreRead /\ ListAsOfTheFile
  <2>1. cells["dirs"] # None /\ ~IsSet("thumbnails")
    BY <1>1, <1>2, PlacesAreNumbers DEF Cell
  <2>2. QED
    BY <2>1 DEF DirsAreRead, ListAsOfTheFile
<1>8. DecoderStartsAtItsStream /\ FailuresAreContained
  BY <1>1, <1>2 DEF DecoderStartsAtItsStream, FailuresAreContained, Cell
<1>9. QED
  BY <1>3, <1>5, <1>6, <1>7, <1>8 DEF LInv

LEMMA StepKeepsLInv == ASSUME LInv, Step PROVE LInv'
<1>1. CASE \/ Again("container", "container") \/ Again("dirs", "dirs")
           \/ Again("preview", "preview") \/ Again("info", "info")
           \/ Again("exif", "exif") \/ Again("thumbnails", "thumbnails")
           \/ Again("meta", "meta") \/ (Holds("meta") /\ Again("cfa", "cfa"))
  BY <1>1, AgainKeepsLInv
<1>2. CASE Container \/ Load \/ Dirs
  BY <1>2, ContainerKeepsLInv, LoadKeepsLInv, DirsKeepsLInv
<1>3. CASE Preview \/ Stream \/ NoPreview \/ MakeDecoder
  BY <1>3, PreviewKeepsLInv, StreamKeepsLInv, NoPreviewKeepsLInv, MakeDecoderKeepsLInv
<1>4. CASE \E c \in {"info", "exif"} : InfoIsThere(c) \/ ReadInfo(c) \/ ReadInfoFails(c)
  BY <1>4, InfoIsThereKeepsLInv, ReadInfoKeepsLInv, ReadInfoFailsKeepsLInv DEF OfDecoder
<1>5. CASE Thumbnails \/ Offset \/ Keep
  BY <1>5, ThumbnailsKeepLInv, OffsetKeepsLInv, KeepKeepsLInv
<1>6. CASE Meta \/ LoadMeta \/ NoMeta \/ Cfa \/ LoadCfa
  BY <1>6, MetaKeepsLInv, LoadMetaKeepsLInv, NoMetaKeepsLInv, CfaKeepsLInv,
     LoadCfaKeepsLInv
<1>7. CASE ReadElsewhere("cfa dirs", "cfa", Holds("cfa"))
  BY <1>7, ElsewhereKeepsLInv, PlacesAreNumbers
<1>8. CASE ReadElsewhere("exif of the file", "file", ~Holds("exif"))
  BY <1>8, ElsewhereKeepsLInv, PlacesAreNumbers
<1>9. CASE ReadElsewhere("bytes", Own, IsSet("container"))
  <2>1. Own \in View
    BY PlacesAreNumbers DEF Own
  <2>2. QED
    BY <1>9, <2>1, ElsewhereKeepsLInv
<1>10. QED
  BY <1>1, <1>2, <1>3, <1>4, <1>5, <1>6, <1>7, <1>8, <1>9 DEF Step

LEMMA StutterKeepsLInv == ASSUME LInv, UNCHANGED lazyVars PROVE LInv'
<1>1. /\ UNCHANGED <<file, cells, decoder, todo, hit, base, cur>>
      /\ \A c : IsSet(c)' = IsSet(c) /\ Holds(c)' = Holds(c) /\ Has(c)' = Has(c)
      /\ Format' = Format /\ OfPreview' = OfPreview
      /\ \A v : Place(v)' = Place(v)
  BY DEF lazyVars, windows, IsSet, Holds, Has, Format, OfPreview, Place
<1>2. CellsOK' /\ AnswersOK'
  BY <1>1, AnswersStay DEF LInv, CellsOK
<1>3. StepsInOrder(todo)' /\ JpegSteps(todo)' /\ JpegContainer'
  BY <1>1 DEF LInv, StepsInOrder, JpegSteps, DecoderIsNext, JpegContainer
<1>4. StreamIsNear' /\ KeptWhenDone' /\ PartsArePlaced'
  BY <1>1 DEF LInv, StreamIsNear, KeptWhenDone, PartsArePlaced
<1>5. StreamIsPlaced'
  <2>1. NothingBeforeTheDecoder' = NothingBeforeTheDecoder
    BY <1>1 DEF NothingBeforeTheDecoder
  <2>2. QED
    BY <1>1, <2>1 DEF LInv, StreamIsPlaced, Waits
<1>6. DecoderIsPlaced'
  <2>1. \A c : Asked(c)' = Asked(c)
    BY <1>1 DEF Asked, Doing
  <2>2. QED
    BY <1>1, <2>1 DEF LInv, DecoderIsPlaced
<1>7. QED
  BY <1>2, <1>3, <1>4, <1>5, <1>6, LInvIs DEF OrderOK

(* What holds between any two steps of the calls a RAF, RW2 or JPEG file   *)
(* answers: which steps may follow which, where the Views and the decoder  *)
(* are while a step relies on it, and what each OnceCell says (fujifilm.rs *)
(* and fujifilm/raf.rs, panasonic.rs, jpeg.rs and jpeg/container.rs).      *)
THEOREM LazyInvariance == LazySpec => []LInv
<1>1. ASSUME LInv, [LazyNext]_lazyVars PROVE LInv'
  BY <1>1, CallKeepsLInv, StepKeepsLInv, StutterKeepsLInv DEF LazyNext
<1>2. QED
  BY InitIsInOrder, <1>1, PTL DEF LazySpec

(* Nothing seeks in the View of the JPEG stream before its decoder reads:  *)
(* in every order of calls and after every failure the decoder starts at   *)
(* the first byte of the stream (jpeg/container.rs: decoder, image_info,   *)
(* exif; Rw2File::jpeg_preview).                                           *)
THEOREM DecodersStartAtTheirStreams == LazySpec => []DecoderStartsAtItsStream
<1>1. LInv => DecoderStartsAtItsStream
  BY DEF LInv
<1>2. QED
  BY <1>1, LazyInvariance, PTL

(* What is kept for good is what the file has, unless a View it was read   *)
(* through failed: the None that a OnceCell keeps is never the trace of a  *)
(* failure elsewhere (get_or_init and get_or_try_init of fujifilm/raf.rs,  *)
(* panasonic.rs and jpeg/container.rs).                                    *)
THEOREM FailuresStayWhereTheyWere == LazySpec => []FailuresAreContained
<1>1. LInv => FailuresAreContained
  BY DEF LInv
<1>2. QED
  BY <1>1, LazyInvariance, PTL

(* The list of thumbnails that a file keeps is that of the file, whatever  *)
(* was asked of it before (thumbnails() of the three formats).             *)
THEOREM ListsAreOfTheFile == LazySpec => []ListAsOfTheFile
<1>1. LInv => ListAsOfTheFile
  BY DEF LInv
<1>2. QED
  BY <1>1, LazyInvariance, PTL
=============================================================================
