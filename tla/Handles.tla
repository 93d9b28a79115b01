------------------------------ MODULE Handles ------------------------------
(* The C API (src/src/capi.rs, src/src/capi/): boxes that are given to the *)
(* caller and released by it, the reference counted file behind them, and  *)
(* the pointers that are lent into a box or into the file.  The caller is  *)
(* one that does what the headers say: it releases a box once, and uses a  *)
(* lent pointer until its owner is released or, for what an iterator       *)
(* lends, moved.  The iterator over the metadata is src/src/metadata.rs.   *)
EXTENDS Naturals, Sequences, SequencesExt, FiniteSets

CONSTANTS
  Files,      \* the files that are opened, each at most once
  Dirs,       \* the entries of each directory of a file; no sequence at all
              \* (Unopened) when the container could not be opened
  Boxes,      \* places of the heap
  Unopened

ASSUME DirsAssumption ==
  \A f \in Files : f \in DOMAIN Dirs /\ (Dirs[f] = Unopened \/ Dirs[f] \in Seq(Nat))
ASSUME BoxesAssumption == IsFiniteSet(Boxes)

VARIABLES
  strong,     \* strong[f]: the reference count of the file, Rc<dyn RawFile>
  boxes,      \* boxes[b]: what is in a place of the heap
  lent,       \* the pointers the caller may still use
  given       \* given[b]: what an iterator has given so far

handleVars == <<strong, boxes, lent, given>>

Free == [kind |-> "free"]
Kinds == {"rawfile", "thumbnail", "rawdata", "bitmap", "metavalue"}

(* The inner iterator: over the directories, over one directory, or empty. *)
(* It borrows from the file.                                               *)
OverDirs(i) == [on |-> "dirs", i |-> i, dir |-> 0]
OverDir(d) == [on |-> "dir", i |-> 0, dir |-> d]
Nowhere == [on |-> "nowhere", i |-> 0, dir |-> 0]

HandlesInit ==
  /\ strong = [f \in Files |-> 0]
  /\ boxes = [b \in Boxes |-> Free]
  /\ lent = {}
  /\ given = [b \in Boxes |-> <<>>]

FreeBox == {b \in Boxes : boxes[b] = Free}
LiveFile(f) == strong[f] > 0
Handle(b) == boxes[b].kind = "rawfile"

(* Box::into_raw.                                                          *)
Alloc(b, object) ==
  /\ b \in FreeBox
  /\ boxes' = [boxes EXCEPT ![b] = object]
  /\ given' = [given EXCEPT ![b] = <<>>]

(* or_rawfile_new, or_rawfile_new_from_memory: a handle on a new file.     *)
New ==
  \E f \in Files, b \in Boxes :
    /\ strong[f] = 0
    /\ Alloc(b, [kind |-> "rawfile", file |-> f])
    /\ strong' = [strong EXCEPT ![f] = 1]
    /\ UNCHANGED lent

(* or_rawdata_new, or_thumbnail_new, and or_get_extract_thumbnail and      *)
(* or_get_extract_rawdata, whose file is gone when they return.            *)
NewAlone ==
  \E b \in Boxes, k \in {"thumbnail", "rawdata"} :
    /\ Alloc(b, [kind |-> k])
    /\ UNCHANGED <<strong, lent>>

(* or_rawfile_get_thumbnail, _rawdata, _rendered_image, _metavalue: what   *)
(* they return has copies of what it needs of the file.  When they fail    *)
(* they return null and change nothing.                                    *)
GetBox ==
  \E h, b \in Boxes, k \in Kinds \ {"rawfile"} :
    /\ Handle(h)
    /\ Alloc(b, [kind |-> k])
    /\ UNCHANGED <<strong, lent>>

(* or_rawfile_get_metadata_iterator: the iterator borrows from the file,   *)
(* and has a clone of the handle so that the file stays.                   *)
\* mutant: the iterator borrows without a clone of the handle
GetIteratorOnly ==
  \E h, b \in Boxes :
    /\ Handle(h)
    /\ LET f == boxes[h].file IN
       /\ Alloc(b, [kind |-> "iterator", file |-> f, stack |-> <<>>, item |-> FALSE,
                    inner |-> IF Dirs[f] = Unopened THEN Nowhere ELSE OverDirs(0)])
       /\ UNCHANGED <<strong, lent>>

GetIterator ==
  \E h, b \in Boxes :
    /\ Handle(h)
    /\ LET f == boxes[h].file IN
       /\ Alloc(b, [kind |-> "iterator", file |-> f, stack |-> <<>>, item |-> FALSE,
                    inner |-> IF Dirs[f] = Unopened THEN Nowhere ELSE OverDirs(0)])
       /\ strong' = [strong EXCEPT ![f] = @ + 1]
       /\ UNCHANGED lent

(* The pointers into the file (thumbnail sizes, directories) the headers   *)
(* say belong to the raw file, and the ones into a box that belong to it   *)
(* (the data of a picture, its matrices and its mosaic, the string of a    *)
(* metavalue).  null is not lent.                                          *)
LendOfFile ==
  \E h \in Boxes :
    /\ Handle(h)
    /\ lent' = lent \cup {[into |-> "file", at |-> boxes[h].file, owner |-> h]}
    /\ UNCHANGED <<strong, boxes, given>>

LendOfBox ==
  \E b \in Boxes :
    /\ boxes[b].kind \in Kinds \ {"rawfile"}
    /\ lent' = lent \cup {[into |-> "box", at |-> b, owner |-> b]}
    /\ UNCHANGED <<strong, boxes, given>>

Iterator(b) == boxes[b].kind = "iterator"

(* or_metadata_iterator_get_dir: the directory the inner iterator is on;   *)
(* it is in the file.                                                      *)
GetDir ==
  \E b \in Boxes :
    /\ Iterator(b) /\ boxes[b].inner.on = "dir"
    /\ lent' = lent \cup {[into |-> "file", at |-> boxes[b].file, owner |-> b]}
    /\ UNCHANGED <<strong, boxes, given>>

(* or_metadata_iterator_get_entry, and the key and the value of the entry. *)
GetEntry ==
  \E b \in Boxes :
    /\ Iterator(b) /\ boxes[b].item
    /\ lent' = lent \cup {[into |-> "entry", at |-> b, owner |-> b]}
    /\ UNCHANGED <<strong, boxes, given>>

(* What the caller can no longer use.                                      *)
Forget(b) == lent' = {p \in lent : p.owner # b}

(* metadata::Iterator::next, unrolled: a directory is entered and its      *)
(* parent stacked; a directory that is at its end gives way to the parent. *)
(* Each step stands for one call of next by itself.                        *)
AtEnd(f, n) == n.i = (IF n.on = "dirs" THEN Len(Dirs[f]) ELSE Dirs[f][n.dir])

\* mutant: the parent is stacked as it was before it gave the directory
EnterAgain(n, stack) == [inner |-> OverDir(n.i + 1), stack |-> Append(stack, n)]

Enter(n, stack) == [inner |-> OverDir(n.i + 1), stack |-> Append(stack, OverDirs(n.i + 1))]

Move(f, it) ==
  CASE AtEnd(f, it.inner) /\ it.stack # <<>> ->
         [inner |-> Last(it.stack), stack |-> Front(it.stack)]
    [] ~AtEnd(f, it.inner) /\ it.inner.on = "dirs" -> Enter(it.inner, it.stack)
    [] OTHER -> it

(* Until it is on an entry or at its very end: at most a pop and a push    *)
(* for each directory.                                                     *)
Settled(f, it) ==
  LET last == 2 * Len(Dirs[f]) + 2
      moved[n \in 0 .. last] == IF n = 0 THEN it ELSE Move(f, moved[n - 1])
  IN moved[last]

OnEntry(f, n) == n.on = "dir" /\ ~AtEnd(f, n)

(* or_metadata_iterator_next: the entry before is dropped, whatever comes. *)
IteratorNext ==
  \E b \in Boxes :
    /\ Iterator(b)
    /\ LET f == boxes[b].file
           it == [inner |-> boxes[b].inner, stack |-> boxes[b].stack]
           on == IF it.inner.on = "nowhere" THEN it ELSE Settled(f, it)
       IN IF OnEntry(f, on.inner)
          THEN /\ boxes' = [boxes EXCEPT ![b].inner = [on.inner EXCEPT !.i = @ + 1],
                                         ![b].stack = on.stack, ![b].item = TRUE]
               /\ given' = [given EXCEPT ![b] = Append(@, <<on.inner.dir, on.inner.i + 1>>)]
          ELSE /\ boxes' = [boxes EXCEPT ![b].inner = on.inner, ![b].stack = on.stack,
                                         ![b].item = FALSE]
               /\ given' = given
    /\ Forget(b)
    /\ UNCHANGED strong

(* or_rawfile_release and or_metadata_iterator_free drop their share of    *)
(* the file; or_thumbnail_release, or_rawdata_release,                     *)
(* or_bitmapdata_release and or_metavalue_release only their box.  null is *)
(* refused, or ignored.                                                    *)
Release ==
  \E b \in Boxes :
    /\ boxes[b] # Free
    /\ boxes' = [boxes EXCEPT ![b] = Free]
    /\ strong' = IF boxes[b].kind \in {"rawfile", "iterator"}
                 THEN [strong EXCEPT ![boxes[b].file] = @ - 1] ELSE strong
    /\ given' = [given EXCEPT ![b] = <<>>]
    /\ Forget(b)

HandlesStep ==
  \/ New \/ NewAlone \/ GetBox \/ GetIterator
  \/ LendOfFile \/ LendOfBox \/ GetDir \/ GetEntry
  \/ IteratorNext \/ Release

HandlesSpec == HandlesInit /\ [][HandlesStep]_handleVars

-----------------------------------------------------------------------------
Live(p) ==
  CASE p.into = "file" -> LiveFile(p.at)
    [] p.into = "box" -> boxes[p.at] # Free
    [] p.into = "entry" -> Iterator(p.at) /\ boxes[p.at].item

Keeps(b, f) == boxes[b].kind \in {"rawfile", "iterator"} /\ boxes[b].file = f

(* A caller that does what the headers say never uses memory that was      *)
(* released: what it was lent is live, whatever it released in whatever    *)
(* order (or_rawfile_get_ifd, or_rawfile_get_thumbnail_sizes,              *)
(* or_metadata_iterator_get_dir and the others); so is the file an         *)
(* iterator reads; and a file is there exactly as long as a handle or an   *)
(* iterator has it, so that none is leaked.                                *)
LentPointersAreLive ==
  /\ \A p \in lent : Live(p)
  /\ \A f \in Files : LiveFile(f) <=> \E b \in Boxes : Keeps(b, f)

(* The entries of a file, <<directory, entry>>, and their order.           *)
EntriesOf(f) == UNION {{d} \X (1 .. Dirs[f][d]) : d \in DOMAIN Dirs[f]}
Precedes(e, n) == e[1] < n[1] \/ (e[1] = n[1] /\ e[2] < n[2])

(* An iterator gives the entries of every directory once and in order,     *)
(* empty directories or not, and passes over none; it says that there is   *)
(* no more only after the last, says it again when it is asked again, and  *)
(* is on the directory of the entry it gave (metadata::Iterator::next and  *)
(* dir).                                                                   *)
EntriesComeInOrder ==
  \A b \in Boxes : Iterator(b) /\ boxes[b].inner.on # "nowhere" =>
    LET entries == EntriesOf(boxes[b].file)
        all == {given[b][k] : k \in DOMAIN given[b]}
    IN /\ all \subseteq entries
       /\ \A k, n \in DOMAIN given[b] : k < n => Precedes(given[b][k], given[b][n])
       /\ \A e \in entries, n \in all : Precedes(e, n) => e \in all
       /\ boxes[b].item =>
            boxes[b].inner.on = "dir" /\ boxes[b].inner.dir = Last(given[b])[1]
       /\ ~boxes[b].item /\ boxes[b].inner # OverDirs(0) => all = entries
=============================================================================
