----------------------------- MODULE Thumbnails -----------------------------
(***************************************************************************)
(* The thumbnails of a RawFile: the list is built when it is first asked   *)
(* for (RawFileImpl::thumbnails of each format, tiff::tiff_thumbnails and  *)
(* tiff::Container::add_thumbnail_from_stream), kept in a OnceCell, and    *)
(* RawFile::thumbnail chooses from it (src/src/rawfile.rs).                *)
(*                                                                         *)
(* A source is where a format finds a thumbnail: an IFD, a JPEG stream a   *)
(* maker note points at, or bytes a maker note holds.  dim is its larger   *)
(* dimension, by which it is listed.  A source may not be readable.        *)
(***************************************************************************)
EXTENDS Integers, Sequences

CONSTANTS Sources,  \* the lists of sources a file may have
          Asked,    \* the sizes callers ask for
          MaxU32,   \* the largest u32
          Unset

Via == {"ifd", "stream", "bytes"}
Source == [via : Via, dim : 0 .. MaxU32, ok : BOOLEAN]
Listing == [dim : 0 .. MaxU32, of : Nat]

ASSUME ThumbnailsAssumption ==
  /\ MaxU32 \in Nat \ {0}
  /\ Sources \subseteq Seq(Source)
  /\ Asked \subseteq 0 .. MaxU32
  /\ Unset \notin Seq(Listing)

VARIABLES sources,   \* what the file has
          storage,   \* ThumbnailStorage, OnceCell: the thumbnails, in order
          stage,     \* where the call is
          tsize,     \* the size asked for
          next,      \* the next source, or the next thumbnail listed
          list,      \* the thumbnails found so far: dim, and the source it is of
          bigger,    \* smallest_bigger
          smaller,   \* biggest_smaller
          found,     \* found_size
          answer     \* what the last call gave: which thumbnail, or an error

loop == <<next, bigger, smaller, found>>
vars == <<sources, storage, stage, tsize, list, loop, answer>>

Init ==
  /\ sources \in Sources
  /\ storage = Unset
  /\ stage = "idle"
  /\ tsize = 0
  /\ next = 1 /\ list = <<>>
  /\ bigger = MaxU32 /\ smaller = 0 /\ found = 0
  /\ answer = [kind |-> "none"]

Return(a) == stage' = "idle" /\ answer' = a

Error(e) == [kind |-> "error", why |-> e]

(* RawFile::thumbnail: 0 is an invalid size.                               *)
Ask(t) ==
  /\ stage = "idle"
  /\ tsize' = t
  /\ IF t = 0 THEN Return(Error("InvalidParam"))
              ELSE stage' = "thumbnails" /\ UNCHANGED answer
  /\ UNCHANGED <<sources, storage, list, loop>>

(* The choice starts on the list that is there.                            *)
Choose ==
  /\ next' = 1
  /\ bigger' = MaxU32 /\ smaller' = 0 /\ found' = 0
  /\ stage' = "choose"

(* thumbnails(): get_or_try_init.                                          *)
Cached ==
  /\ stage = "thumbnails"
  /\ storage # Unset
  /\ Choose
  /\ UNCHANGED <<sources, storage, tsize, list, answer>>

(* container()? fails: no list is kept, the next call tries again.         *)
NoContainer ==
  /\ stage = "thumbnails"
  /\ storage = Unset
  /\ Return(Error("Container"))
  /\ UNCHANGED <<sources, storage, tsize, list, loop>>

StartList ==
  /\ stage = "thumbnails"
  /\ storage = Unset
  /\ stage' = "list"
  /\ list' = <<>>
  /\ next' = 1
  /\ UNCHANGED <<sources, storage, tsize, bigger, smaller, found, answer>>

\* What a source must be to be had at all: an IFD with no dimensions is passed over.
CanBeHad(s) == s.ok /\ (s.via = "ifd" => s.dim > 0)

IsListedIfBigger(s) ==         \* mutant: no stream below what is listed
  CanBeHad(s) /\ (s.via = "stream" => \A i \in DOMAIN list : list[i].dim < s.dim)

(* One source.  ifd_locate_thumbnail lists a dimension that is not 0; a    *)
(* stream is listed unless there is a thumbnail of its size already, and a *)
(* stream that is no JPEG has the size 0; bytes are listed as they are.    *)
IsListed(s) ==
  CanBeHad(s) /\ (s.via = "stream" => s.dim \notin {list[i].dim : i \in DOMAIN list})

AddSource ==
  /\ stage = "list"
  /\ next <= Len(sources)
  /\ next' = next + 1
  /\ list' = IF IsListed(sources[next])
               THEN Append(list, [dim |-> sources[next].dim, of |-> next])
               ELSE list
  /\ UNCHANGED <<sources, storage, stage, tsize, bigger, smaller, found, answer>>

(* ThumbnailStorage::with_thumbnails.                                      *)
KeepList ==
  /\ stage = "list"
  /\ next > Len(sources)
  /\ storage' = list
  /\ Choose
  /\ UNCHANGED <<sources, tsize, list, answer>>

LastLess(s) ==                 \* mutant: the last smaller one, not the biggest
  /\ s < tsize
  /\ smaller' = s
  /\ next' = next + 1
  /\ UNCHANGED <<bigger, found, stage>>

(* thumbnail(): the loop over the sizes.                                   *)
CompareLess(s) ==
  /\ s < tsize
  /\ smaller' = IF s > smaller THEN s ELSE smaller
  /\ next' = next + 1
  /\ UNCHANGED <<bigger, found, stage>>

CompareGreater(s) ==
  /\ s > tsize
  /\ bigger' = IF s < bigger THEN s ELSE bigger
  /\ next' = next + 1
  /\ UNCHANGED <<smaller, found, stage>>

CompareEqual(s) ==
  /\ s = tsize
  /\ found' = s
  /\ stage' = "fetch"
  /\ UNCHANGED <<next, bigger, smaller>>

Compare ==
  /\ stage = "choose"
  /\ next <= Len(storage)
  /\ LET s == storage[next].dim
     IN CompareLess(s) \/ CompareGreater(s) \/ CompareEqual(s)
  /\ UNCHANGED <<sources, storage, tsize, list, answer>>

DecideBigger ==                \* mutant: at least the size, or nothing
  /\ stage = "choose"
  /\ next > Len(storage)
  /\ found' = IF bigger < MaxU32 THEN bigger ELSE 0
  /\ IF found' = 0 THEN Return(Error("NotFound"))
                   ELSE stage' = "fetch" /\ UNCHANGED answer
  /\ UNCHANGED <<sources, storage, tsize, list, next, bigger, smaller>>

(* After the loop: the next bigger one, or else the largest.               *)
Decide ==
  /\ stage = "choose"
  /\ next > Len(storage)
  /\ found' = IF bigger < MaxU32 THEN bigger ELSE smaller
  /\ IF found' = 0 THEN Return(Error("NotFound"))
                   ELSE stage' = "fetch" /\ UNCHANGED answer
  /\ UNCHANGED <<sources, storage, tsize, list, next, bigger, smaller>>

(* thumbnail_for_size: the first of that size.  Its bytes may not be       *)
(* readable (RawContainer::make_thumbnail).                                *)
First(s) == {i \in DOMAIN storage : /\ storage[i].dim = s
                                    /\ \A j \in 1 .. i - 1 : storage[j].dim # s}

Fetch ==
  /\ stage = "fetch"
  /\ \/ First(found) = {} /\ Return(Error("NotFound"))
     \/ \E i \in First(found) : Return([kind |-> "thumbnail", of |-> storage[i].of])
     \/ First(found) # {} /\ Return(Error("Io"))
  /\ UNCHANGED <<sources, storage, tsize, list, loop>>

Call == \E t \in Asked : Ask(t)

Step == \/ Cached \/ NoContainer \/ StartList \/ AddSource \/ KeepList
        \/ Compare \/ Decide \/ Fetch

Next == Call \/ Step

(* A call runs until it returns.                                           *)
Spec == Init /\ [][Next]_vars /\ WF_vars(Step)

-----------------------------------------------------------------------------
TypeOK ==
  /\ sources \in Seq(Source)
  /\ storage = Unset \/ storage \in Seq(Listing)
  /\ list \in Seq(Listing)
  /\ stage \in {"idle", "thumbnails", "list", "choose", "fetch"}
  /\ tsize \in 0 .. MaxU32
  /\ next \in Nat \ {0}
  /\ bigger \in 0 .. MaxU32
  /\ smaller \in 0 .. MaxU32
  /\ found \in 0 .. MaxU32
  /\ stage \in {"choose", "fetch"} => storage # Unset
  /\ stage # "idle" => tsize > 0

Listed == {storage[i].dim : i \in DOMAIN storage}

(* s is the one of the sizes to give for t: t itself, or the next bigger,  *)
(* or when there is none the biggest of all.  u32::MAX is no size.         *)
IsNearest(s, t, sizes) ==
  /\ s \in sizes
  /\ s # t => t \notin sizes
  /\ s > t => \A r \in sizes : r > t => r >= s
  /\ s < t => \A r \in sizes : r <= s \/ r = MaxU32

(* The size the loop settles on is the nearest one in the list, whatever   *)
(* the order the format lists its thumbnails in (rawfile.rs, thumbnail).   *)
ChoiceIsNearest == stage = "fetch" => IsNearest(found, tsize, Listed)

(* A thumbnail is refused as not found only when the list has none to give *)
(* (rawfile.rs: the search by size after the choice cannot come up empty). *)
RefusedOnlyWhenNone ==
  [][answer' # answer /\ answer' = Error("NotFound")
       => Listed \subseteq {0, MaxU32} /\ tsize \notin Listed]_vars

Had == {i \in DOMAIN sources : CanBeHad(sources[i])}

(* The thumbnail a caller gets is the nearest of all that the file has, in *)
(* its list or not, and of the pictures of that size the one its format    *)
(* comes to first: that a stream is left out where its size is listed      *)
(* (add_thumbnail_from_stream) takes no size away and puts no picture in   *)
(* the place of an earlier one, in the list that is kept and in every call *)
(* that chooses from it (thumbnails, thumbnail, thumbnail_for_size).       *)
GivenIsTheFilesNearest ==
  [][stage = "fetch" /\ answer'.kind = "thumbnail" =>
       /\ answer'.of \in Had
       /\ IsNearest(sources[answer'.of].dim, tsize, {sources[i].dim : i \in Had})
       /\ \A i \in Had : i < answer'.of => sources[i].dim # sources[answer'.of].dim]_vars
=============================================================================
