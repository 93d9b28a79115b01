--------------------------- MODULE TiffDirsProofs ---------------------------
(***************************************************************************)
(* Theorems about TiffDirs: the directories that are kept are the file's,  *)
(* for every file, however long, broken or winding, every first use of the *)
(* cells in every order, and every other user of the io.                   *)
(***************************************************************************)
EXTENDS TiffDirs, FiniteSetTheorems, SequenceTheorems, TLAPS

FileType == [0 .. Size - 1 -> Nat]

Data == {Nothing} \cup (Seq(Nat) \ {<<>>})

(* What the reading in progress comes to.                                  *)
Outcome(f, r) == IF r.stage = "maker" THEN NoteAt(f, r.at) ELSE DirAt(f, r.at, r.base)

ReadingOK ==
  /\ EntriesAreInPlace
  /\ reading.stage = "maker" => RawType(file) \notin CanonTypes

(* The cell that is being initialised.                                     *)
For(cell) == want # <<>> /\ Head(want) = cell

DirsGoOn ==
  For("dirs") =>
    /\ dirs = Unset
    /\ link = Unset => reading = Idle
    /\ link # Unset =>
         /\ IsChained(file, list) /\ Len(list) <= MaxDirs
         /\ link = LinkTo(file, list, Len(list) + 1) \/ Len(list) = MaxDirs
         /\ reading # Idle =>
              link # 0 /\ Outcome(file, reading) = Chained(file, Len(list) + 1, link)

ExifGoesOn ==
  For("exif") =>
    /\ exif = Unset
    /\ reading # Idle => dirs # Unset /\ Outcome(file, reading) = ExifOf(file, Directory0)

MnoteGoesOn ==
  For("mnote") =>
    /\ mnote = Unset
    /\ reading # Idle => exif # Unset /\ Outcome(file, reading) = NoteOf(file, exif)

(* The offsets left are the last ones; the one being read is before them.  *)
SubsLeft(all, left, n) ==
  /\ n = Len(all) - Len(left) /\ n >= 0
  /\ \A j \in 1 .. Len(left) : left[j] = all[n + j]

SubsSoFar(d, n) ==
  /\ SubsLeft(SubOffsets(d), todo.at, n)
  /\ reading = Idle => AreSubs(file, list, d, n)
  /\ reading # Idle => /\ n > 0 /\ SubOffsets(d)[n] # 0
                       /\ AreSubs(file, list, d, n - 1)
                       /\ Outcome(file, reading) = DirAt(file, SubOffsets(d)[n], d.base)

SubsGoOn ==
  For("sub") =>
    /\ dirs # Unset /\ todo.dir \in DOMAIN dirs
    /\ sub[todo.dir] = Unset
    /\ LET d == dirs[todo.dir] IN SubsSoFar(d, Len(SubOffsets(d)) - Len(todo.at))

(* The calls that keep nothing.                                            *)
CallGoesOn ==
  /\ For("gps") \/ For("entry") =>
       /\ got # NoCall /\ reading # Idle
       /\ Outcome(file, reading) = DirAt(file, got.at, got.dir.base)
  /\ want # <<>> /\ got # NoCall => For("gps") \/ For("entry")

NothingElseGoesOn ==
  /\ want = <<>> => reading = Idle
  /\ link # Unset => For("dirs")

DInv ==
  /\ TypeOK /\ ReadingOK
  /\ DirsGoOn /\ ExifGoesOn /\ MnoteGoesOn /\ SubsGoOn /\ CallGoesOn /\ NothingElseGoesOn
  /\ DirsAreTheChain /\ PointersAreFollowed
-----------------------------------------------------------------------------
(* The words of a directory.                                               *)
LEMMA KindsAreKnown ==
  ASSUME NEW w PROVE Kind(w).tag \in Tag /\ Kind(w).n \in 0 .. 2
BY DEF Kind, Tag

LEMMA ValueIsData ==
  ASSUME NEW f \in FileType, NEW w, NEW word \in Nat, NEW base \in Nat
  PROVE  Value(f, Kind(w), word, base) \in Data
<1> DEFINE k == Kind(w)
           words == [j \in 1 .. k.n |-> f[base + word + j - 1]]
<1>1. k.n \in 0 .. 2
  BY KindsAreKnown
<1>2. <<word>> \in Seq(Nat) \ {<<>>}
  OBVIOUS
<1>3. ASSUME k.n # 0, Fits(base + word, k.n) PROVE words \in Seq(Nat) \ {<<>>}
  <2>1. \A j \in 1 .. k.n : base + word + j - 1 \in 0 .. Size - 1
    BY <1>1, <1>3, TiffDirsAssumption DEF Fits
  <2>2. words \in [1 .. k.n -> Nat]
    BY <2>1 DEF FileType
  <2>3. words \in Seq(Nat)
    <3> HIDE DEF words
    <3>1. k.n \in Nat
      BY <1>1
    <3>2. QED
      BY <2>2, <3>1, SeqDef, Zenon
  <2>4. DOMAIN words = 1 .. k.n
    OBVIOUS
  <2>5. 1 \in DOMAIN words
    BY <1>1, <1>3, <2>4
  <2>6. QED
    BY <2>3, <2>5
<1>4. CASE k.n = 0
  BY <1>2, <1>4 DEF Value, Data
<1>5. CASE k.n # 0
  <2> HIDE DEF k
  <2>1. Value(f, k, word, base) \in {Nothing, <<word>>, words}
    BY <1>1, <1>5 DEF Value
  <2>2. Value(f, k, word, base) = words => Fits(base + word, k.n) \/ words = Nothing \/ words = <<word>>
    BY <1>1, <1>5 DEF Value
  <2>3. QED
    BY <1>2, <1>3, <1>5, <2>1, <2>2 DEF Data, k
<1>6. QED
  BY <1>4, <1>5

LEMMA NoEntriesYet ==
  ASSUME NEW f, NEW at, NEW base
  PROVE  EntriesOf(f, at, base, 0) = NoEntries
<1>1. \A t \in Tag : Tagged(f, at, 0, t) = {}
  BY DEF Tagged
<1>2. QED
  BY <1>1 DEF EntriesOf, NoEntries

(* One more entry replaces what its tag had.                               *)
LEMMA OneMoreEntry ==
  ASSUME NEW f, NEW at, NEW base, NEW n \in Nat,
         NEW w, w = EntryWord(at, n + 1)
  PROVE  EntriesOf(f, at, base, n + 1) =
           [EntriesOf(f, at, base, n) EXCEPT
              ![Kind(f[w]).tag] = Value(f, Kind(f[w]), f[w + 1], base)]
<1> DEFINE k == Kind(f[w])
           Old(t) == Tagged(f, at, n, t)
           New(t) == Tagged(f, at, n + 1, t)
<1>1. ASSUME NEW t \in Tag, t # k.tag PROVE New(t) = Old(t)
  BY <1>1 DEF Tagged
<1>2. /\ n + 1 \in New(k.tag)
      /\ \A j \in New(k.tag) : j \in Nat /\ j <= n + 1
  BY DEF Tagged
<1>3. LastOf(New(k.tag)) = n + 1
  BY <1>2 DEF LastOf
<1>4. ASSUME NEW t \in Tag, t # k.tag
      PROVE  EntriesOf(f, at, base, n + 1)[t] = EntriesOf(f, at, base, n)[t]
  BY <1>1, <1>4, Zenon DEF EntriesOf
<1>5. EntriesOf(f, at, base, n + 1)[k.tag] = Value(f, k, f[w + 1], base)
  <2>1. New(k.tag) # {} /\ k.tag \in Tag
    BY <1>2, KindsAreKnown
  <2>2. QED
    BY <1>3, <2>1, Zenon DEF EntriesOf
<1>6. /\ EntriesOf(f, at, base, n + 1) = [t \in Tag |-> EntriesOf(f, at, base, n + 1)[t]]
      /\ EntriesOf(f, at, base, n) = [t \in Tag |-> EntriesOf(f, at, base, n)[t]]
  BY DEF EntriesOf
<1> HIDE DEF k
<1>7. QED
  BY <1>4, <1>5, <1>6 DEF k

-----------------------------------------------------------------------------
(* Lists of directories.                                                   *)
LEMMA OffsetsAreNumbers ==
  ASSUME NEW d \in Directory PROVE SubOffsets(d) \in Seq(Nat)
BY DEF SubOffsets, Entry, Directory, Tag

LEMMA SubsAreFinite ==
  ASSUME NEW f, NEW d, NEW n \in Nat
  PROVE  /\ IsFiniteSet(SubsAt(f, d, n))
         /\ Cardinality(SubsAt(f, d, n)) \in Nat
         /\ \A m \in 0 .. n : Cardinality(SubsAt(f, d, m)) <= Cardinality(SubsAt(f, d, n))
<1>1. IsFiniteSet(1 .. n)
  BY FS_Interval
<1>2. SubsAt(f, d, n) \subseteq 1 .. n
  BY DEF SubsAt
<1>3. IsFiniteSet(SubsAt(f, d, n))
  BY <1>1, <1>2, FS_Subset
<1>4. \A m \in 0 .. n : SubsAt(f, d, m) \subseteq SubsAt(f, d, n)
  BY DEF SubsAt
<1>5. QED
  BY <1>3, <1>4, FS_CardinalityType, FS_Subset

(* An offset of 0, or of nothing, adds no directory.                       *)
LEMMA NoMoreSubs ==
  ASSUME NEW f, NEW d, NEW n \in Nat \ {0}, NEW l, AreSubs(f, l, d, n - 1),
         SubOffsets(d)[n] = 0 \/ DirAt(f, SubOffsets(d)[n], d.base) = Nothing
  PROVE  AreSubs(f, l, d, n)
<1>1. SubsAt(f, d, n) = SubsAt(f, d, n - 1)
  BY DEF SubsAt
<1>2. QED
  BY <1>1 DEF AreSubs

LEMMA OneMoreSub ==
  ASSUME NEW f, NEW d, NEW n \in Nat \ {0}, NEW S, NEW l \in Seq(S), NEW e \in S,
         AreSubs(f, l, d, n - 1),
         SubOffsets(d)[n] # 0, e = DirAt(f, SubOffsets(d)[n], d.base), e # Nothing
  PROVE  AreSubs(f, Append(l, e), d, n)
<1> DEFINE Count(j) == Cardinality(SubsAt(f, d, j))
<1>1. SubsAt(f, d, n) = SubsAt(f, d, n - 1) \cup {n} /\ n \notin SubsAt(f, d, n - 1)
  BY DEF SubsAt
<1>2. Count(n) = Count(n - 1) + 1
  <2>1. n - 1 \in Nat
    OBVIOUS
  <2>2. IsFiniteSet(SubsAt(f, d, n - 1))
    BY <2>1, SubsAreFinite
  <2>3. QED
    BY <1>1, <2>2, FS_AddElement
<1>3. Len(l) = Count(n - 1) /\ Len(Append(l, e)) = Count(n)
  BY <1>2 DEF AreSubs
<1>4. Append(l, e)[Count(n)] = e
  BY <1>2, <1>3
<1>5. ASSUME NEW j \in SubsAt(f, d, n - 1)
      PROVE  Append(l, e)[Count(j)] = DirAt(f, SubOffsets(d)[j], d.base)
  <2>1. j \in 1 .. n - 1 /\ j \in SubsAt(f, d, j)
    BY DEF SubsAt
  <2>2. Count(j) \in Nat /\ Count(j) <= Count(n - 1)
    BY <2>1, SubsAreFinite
  <2>3. Count(j) # 0
    BY <2>1, SubsAreFinite, FS_EmptySet
  <2>4. Count(j) \in 1 .. Len(l)
    BY <1>3, <2>2, <2>3
  <2>5. Append(l, e)[Count(j)] = l[Count(j)]
    BY <2>4
  <2>6. QED
    BY <2>5 DEF AreSubs
<1>6. QED
  BY <1>1, <1>3, <1>4, <1>5 DEF AreSubs

(* A chain is as long as its links allow.                                  *)
LEMMA OneMoreLink ==
  ASSUME NEW f, NEW S, NEW chain \in Seq(S), NEW e \in S,
         IsChained(f, chain), NEW link0, link0 = LinkTo(f, chain, Len(chain) + 1),
         link0 # 0, e = Chained(f, Len(chain) + 1, link0), e # Nothing
  PROVE  /\ IsChained(f, Append(chain, e))
         /\ LinkTo(f, Append(chain, e), Len(chain) + 2) = e.next
<1> DEFINE n == Len(chain)
           longer == Append(chain, e)
<1>1. /\ Len(longer) = n + 1 /\ longer[n + 1] = e /\ n \in Nat
      /\ \A i \in 1 .. n : longer[i] = chain[i]
  OBVIOUS
<1>2. \A i \in 1 .. n + 1 : LinkTo(f, longer, i) = LinkTo(f, chain, i)
  BY <1>1 DEF LinkTo
<1>3. IsChained(f, longer)
  BY <1>1, <1>2 DEF IsChained
<1>4. LinkTo(f, longer, n + 2) = longer[n + 1].next
  BY <1>1 DEF LinkTo
<1>5. QED
  BY <1>1, <1>3, <1>4

(* The calls that wait for one another.                                    *)
LEMMA Waiting ==
  ASSUME NEW w \in Wants, w # <<>>
  PROVE  /\ Head(w) \in {"dirs", "exif", "mnote", "sub", "gps", "entry"}
         /\ Tail(w) \in Wants
         /\ Tail(w) # <<>> => \/ Head(w) = "dirs" /\ Head(Tail(w)) = "exif"
                              \/ Head(w) = "exif" /\ Head(Tail(w)) = "mnote"
<1> DEFINE C == {"dirs", "exif", "mnote", "sub", "gps", "entry"}
<1>1. CASE \E c \in C : w = <<c>>
  <2>1. \A c \in C : Tail(<<c>>) = <<>> /\ Head(<<c>>) = c
    OBVIOUS
  <2>2. QED
    BY <1>1, <2>1 DEF Wants
<1>2. CASE w = <<"dirs", "exif">>
  <2>1. Tail(w) = <<"exif">> /\ Head(w) = "dirs"
    BY <1>2
  <2>2. QED
    BY <2>1 DEF Wants
<1>3. CASE w = <<"exif", "mnote">>
  <2>1. Tail(w) = <<"mnote">> /\ Head(w) = "exif"
    BY <1>3
  <2>2. QED
    BY <2>1 DEF Wants
<1>4. CASE w = <<"dirs", "exif", "mnote">>
  <2>1. Tail(w) = <<"exif", "mnote">> /\ Head(w) = "dirs"
    BY <1>4
  <2>2. QED
    BY <2>1 DEF Wants
<1>5. QED
  BY <1>1, <1>2, <1>3, <1>4 DEF Wants

LEMMA Needing ==
  ASSUME NEW w \in Wants, w # <<>>
  PROVE  /\ Head(w) = "exif" => /\ <<"dirs">> \o w \in Wants
                                /\ <<"dirs">> \o w # <<>>
                                /\ Head(<<"dirs">> \o w) = "dirs"
         /\ Head(w) = "mnote" => /\ <<"exif">> \o w \in Wants
                                 /\ <<"exif">> \o w # <<>>
                                 /\ Head(<<"exif">> \o w) = "exif"
<1> DEFINE S == {"dirs", "exif", "mnote"}
<1>1. ASSUME NEW c \in S, NEW v \in Seq(S), NEW u \in Seq(S), Len(u) = Len(v) + 1,
             u[1] = c, \A i \in 1 .. Len(v) : u[i + 1] = v[i]
      PROVE  <<c>> \o v = u
  <2>1. <<c>> \in Seq(S) /\ Len(<<c>>) = 1
    OBVIOUS
  <2>2. /\ <<c>> \o v \in Seq(S) /\ Len(<<c>> \o v) = 1 + Len(v)
        /\ \A i \in 1 .. 1 + Len(v) :
             (<<c>> \o v)[i] = IF i <= 1 THEN <<c>>[i] ELSE v[i - 1]
    BY <2>1, ConcatProperties
  <2>3. ASSUME NEW i \in 1 .. 1 + Len(v) PROVE (<<c>> \o v)[i] = u[i]
    <3>1. CASE i = 1
      BY <1>1, <2>2, <3>1
    <3>2. CASE i - 1 \in 1 .. Len(v)
      <4>1. u[(i - 1) + 1] = v[i - 1]
        BY <1>1, <3>2
      <4>2. QED
        BY <2>2, <3>2, <4>1
    <3>3. QED
      BY <3>1, <3>2
  <2>4. QED
    BY <1>1, <2>2, <2>3, SeqEqual
<1>2. ASSUME NEW c \in S, NEW e \in S PROVE <<c>> \o <<e>> = <<c, e>>
  <2> DEFINE v == <<e>>
             u == <<c, e>>
  <2>1. /\ v \in Seq(S) /\ u \in Seq(S) /\ Len(u) = 2 /\ Len(v) = 1
        /\ u[1] = c /\ u[1 + 1] = v[1]
    OBVIOUS
  <2> HIDE DEF u, v
  <2>2. /\ c \in S /\ Len(u) = Len(v) + 1
        /\ \A i \in 1 .. Len(v) : u[i + 1] = v[i]
    BY <2>1
  <2>3. <<c>> \o v = u
    BY <1>1, <2>1, <2>2, Zenon
  <2>4. QED
    BY <2>3 DEF u, v
<1>3. <<"dirs">> \o <<"exif", "mnote">> = <<"dirs", "exif", "mnote">>
  <2> DEFINE v == <<"exif", "mnote">>
             u == <<"dirs", "exif", "mnote">>
  <2>1. /\ v \in Seq(S) /\ u \in Seq(S) /\ Len(u) = 3 /\ Len(v) = 2
        /\ u[1] = "dirs" /\ u[1 + 1] = v[1] /\ u[2 + 1] = v[2]
    OBVIOUS
  <2> HIDE DEF u, v
  <2>2. /\ "dirs" \in S /\ Len(u) = Len(v) + 1
        /\ \A i \in 1 .. Len(v) : u[i + 1] = v[i]
    BY <2>1
  <2>3. <<"dirs">> \o v = u
    BY <1>1, <2>1, <2>2, Zenon
  <2>4. QED
    BY <2>3 DEF u, v
<1>4. ASSUME Head(w) = "exif"
      PROVE  /\ <<"dirs">> \o w \in Wants
             /\ <<"dirs">> \o w # <<>>
             /\ Head(<<"dirs">> \o w) = "dirs"
  <2>1. w = <<"exif">> \/ w = <<"exif", "mnote">>
    BY <1>4 DEF Wants
  <2>2. CASE w = <<"exif">>
    <3>1. <<"dirs">> \o w = <<"dirs", "exif">>
      BY <1>2, <2>2
    <3>2. QED
      BY <3>1 DEF Wants
  <2>3. CASE w = <<"exif", "mnote">>
    <3>1. <<"dirs">> \o w = <<"dirs", "exif", "mnote">>
      BY <1>3, <2>3
    <3>2. QED
      BY <3>1 DEF Wants
  <2>4. QED
    BY <2>1, <2>2, <2>3
<1>5. ASSUME Head(w) = "mnote"
      PROVE  /\ <<"exif">> \o w \in Wants
             /\ <<"exif">> \o w # <<>>
             /\ Head(<<"exif">> \o w) = "exif"
  <2>1. w = <<"mnote">>
    BY <1>5 DEF Wants
  <2>2. <<"exif">> \o w = <<"exif", "mnote">>
    BY <1>2, <2>1
  <2>3. QED
    BY <2>2 DEF Wants
<1>6. QED
  BY <1>4, <1>5

-----------------------------------------------------------------------------
(* Readings: how they begin, and that they come to what was begun.         *)
LEMMA NotIdle ==
  \A r \in Readings : /\ r.stage \in {"idle", "maker", "count", "entries"}
                      /\ r.stage = "idle" <=> r = Idle
BY DEF Readings, Idle

LEMMA ReadBegins ==
  ASSUME NEW at \in Nat, NEW base \in Nat, Read(at, base)
  PROVE  /\ reading' \in Readings /\ reading' # Idle
         /\ Outcome(file, reading') = DirAt(file, at, base)
         /\ ReadingOK'
<1>1. reading' = [stage |-> "count", at |-> at, base |-> base]
  BY DEF Read
<1>2. reading'.stage = "count" /\ reading'.at = at /\ reading'.base = base
  BY <1>1
<1>3. reading' \in Readings /\ reading' # Idle
  BY <1>1 DEF Readings, Idle
<1>4. QED
  BY <1>2, <1>3 DEF Outcome, ReadingOK, EntriesAreInPlace

LEMMA ReadNoteBegins ==
  ASSUME NEW at \in Nat, ReadNote(at), UNCHANGED file
  PROVE  /\ reading' \in Readings /\ reading' # Idle
         /\ Outcome(file, reading') = NoteAt(file, at)
         /\ ReadingOK'
<1>1. CASE RawType(file) \in CanonTypes
  <2>1. Read(at, 0)
    BY <1>1 DEF ReadNote
  <2>2. NoteAt(file, at) = DirAt(file, at, 0)
    BY <1>1 DEF NoteAt
  <2>3. QED
    BY <2>1, <2>2, ReadBegins
<1>2. CASE RawType(file) \notin CanonTypes
  <2>1. reading' = [stage |-> "maker", at |-> at]
    BY <1>2 DEF ReadNote
  <2>2. reading'.stage = "maker" /\ reading'.at = at
    BY <2>1
  <2>3. reading' \in Readings /\ reading' # Idle
    BY <2>1 DEF Readings, Idle
  <2>4. QED
    BY <1>2, <2>2, <2>3 DEF Outcome, ReadingOK, EntriesAreInPlace
<1>3. QED
  BY <1>1, <1>2

LEMMA ReadingGoesOn ==
  ASSUME DInv, reading # Idle, reading' \in Readings, reading' # Idle, ReadingOK',
         Outcome(file, reading') = Outcome(file, reading),
         UNCHANGED <<file, cells, want, walk>>, pos' \in 0 .. Size
  PROVE  DInv'
<1> USE DEF DInv, cells, walk
<1>1. TypeOK'
  BY DEF TypeOK
<1>2. DirsGoOn' /\ ExifGoesOn' /\ MnoteGoesOn'
  BY DEF DirsGoOn, ExifGoesOn, MnoteGoesOn, For, Directory0
<1>3. SubsGoOn'
  BY DEF SubsGoOn, SubsSoFar, SubsLeft, For
<1>4. CallGoesOn' /\ NothingElseGoesOn'
  BY DEF CallGoesOn, NothingElseGoesOn, For
<1>5. DirsAreTheChain' /\ PointersAreFollowed'
  BY DEF DirsAreTheChain, PointersAreFollowed, Directory0
<1>6. QED
  BY <1>1, <1>2, <1>3, <1>4, <1>5

-----------------------------------------------------------------------------
(* What becomes of the directory that was read.                            *)
LEMMA Returned ==
  ASSUME DInv, want # <<>>, want' = Tail(want), reading' = Idle, link' = Unset
  PROVE  /\ want' \in Wants /\ reading' \in Readings /\ link' \in {Unset} \cup Nat
         /\ ReadingOK' /\ DirsGoOn' /\ SubsGoOn' /\ NothingElseGoesOn'
         /\ For("exif")' => For("dirs")
         /\ For("mnote")' => For("exif")
         /\ ~For("gps")' /\ ~For("entry")'
<1>1. want \in Wants
  BY DEF DInv, TypeOK
<1>2. /\ want' \in Wants
      /\ want' # <<>> => \/ Head(want) = "dirs" /\ Head(want') = "exif"
                         \/ Head(want) = "exif" /\ Head(want') = "mnote"
  BY <1>1, Waiting
<1>3. reading' \in Readings /\ reading'.stage = "idle"
  BY DEF Readings, Idle
<1>4. ReadingOK'
  BY <1>3 DEF ReadingOK, EntriesAreInPlace
<1>5. DirsGoOn' /\ SubsGoOn' /\ NothingElseGoesOn'
  BY <1>2 DEF DirsGoOn, SubsGoOn, NothingElseGoesOn, For
<1>6. QED
  BY <1>2, <1>3, <1>4, <1>5 DEF For

LEMMA NotACall ==
  ASSUME DInv, want # <<>>, Head(want) \notin {"gps", "entry"}
  PROVE  got = NoCall
BY DEF DInv, CallGoesOn, For

LEMMA DirsAreSet ==
  ASSUME DInv, For("dirs"), link # Unset,
         link = 0 \/ Chained(file, Len(list) + 1, link) = Nothing,
         SetDirs, reading' = Idle, UNCHANGED file, pos' \in 0 .. Size
  PROVE  DInv'
<1> USE DEF DInv
<1>1. /\ want # <<>> /\ Head(want) = "dirs" /\ got = NoCall
      /\ want' = Tail(want) /\ link' = Unset /\ dirs' = list
      /\ UNCHANGED <<exif, mnote, sub, list, todo, got>>
  BY NotACall DEF For, SetDirs
<1>2. /\ dirs = Unset /\ exif = Unset /\ mnote = Unset
      /\ \A i \in 1 .. MaxDirs : sub[i] = Unset
  BY <1>1 DEF DirsGoOn, PointersAreFollowed
<1>3. TypeOK'
  BY <1>1, Returned DEF TypeOK
<1>4. DirsAreTheChain'
  BY <1>1 DEF DirsAreTheChain, DirsGoOn, IsWhole
<1>5. ExifGoesOn' /\ MnoteGoesOn' /\ CallGoesOn'
  BY <1>1, <1>2, Returned DEF ExifGoesOn, MnoteGoesOn, CallGoesOn
<1>6. PointersAreFollowed'
  BY <1>1, <1>2 DEF PointersAreFollowed
<1>7. QED
  BY <1>1, <1>3, <1>4, <1>5, <1>6, Returned

LEMMA ExifIsSet ==
  ASSUME DInv, For("exif"), dirs # Unset, NEW d \in {Nothing} \cup Directory,
         d = ExifOf(file, Directory0), SetExif(d), reading' = Idle,
         UNCHANGED file, pos' \in 0 .. Size
  PROVE  DInv'
<1> USE DEF DInv
<1>1. /\ want # <<>> /\ Head(want) = "exif" /\ got = NoCall /\ link = Unset
      /\ want' = Tail(want) /\ exif' = d
      /\ UNCHANGED <<dirs, mnote, sub, list, link, todo, got>>
  BY NotACall DEF For, SetExif, NothingElseGoesOn, walk
<1>2. exif = Unset /\ mnote = Unset
  BY <1>1 DEF ExifGoesOn, PointersAreFollowed
<1>3. TypeOK'
  BY <1>1, Returned DEF TypeOK
<1>4. DirsAreTheChain'
  BY <1>1 DEF DirsAreTheChain
<1>5. ~For("exif")'
  BY <1>1, Returned DEF For
<1>6. ExifGoesOn' /\ MnoteGoesOn' /\ CallGoesOn'
  BY <1>1, <1>2, <1>5, Returned DEF ExifGoesOn, MnoteGoesOn, CallGoesOn
<1>7. PointersAreFollowed'
  BY <1>1, <1>2 DEF PointersAreFollowed, Directory0
<1>8. QED
  BY <1>1, <1>3, <1>4, <1>6, <1>7, Returned

LEMMA MnoteIsSet ==
  ASSUME DInv, For("mnote"), exif # Unset, NEW d \in {Nothing} \cup Directory,
         d = NoteOf(file, exif), SetMnote(d), reading' = Idle,
         UNCHANGED file, pos' \in 0 .. Size
  PROVE  DInv'
<1> USE DEF DInv
<1>1. /\ want # <<>> /\ Head(want) = "mnote" /\ got = NoCall /\ link = Unset
      /\ want' = Tail(want) /\ mnote' = d
      /\ UNCHANGED <<dirs, exif, sub, list, link, todo, got>>
  BY NotACall DEF For, SetMnote, NothingElseGoesOn, walk
<1>2. TypeOK'
  BY <1>1, Returned DEF TypeOK
<1>3. DirsAreTheChain'
  BY <1>1 DEF DirsAreTheChain
<1>4. ~For("exif")' /\ ~For("mnote")'
  BY <1>1, Returned DEF For
<1>5. ExifGoesOn' /\ MnoteGoesOn' /\ CallGoesOn'
  BY <1>1, <1>4, Returned DEF ExifGoesOn, MnoteGoesOn, CallGoesOn
<1>6. PointersAreFollowed'
  BY <1>1 DEF PointersAreFollowed, Directory0
<1>7. QED
  BY <1>1, <1>2, <1>3, <1>5, <1>6, Returned

LEMMA DirIsKept ==
  ASSUME DInv, For("dirs"), reading # Idle, NEW d \in Directory,
         d # Nothing, d = Outcome(file, reading),
         list' = Kept(d), link' = d.next, UNCHANGED <<file, cells, want, todo, got>>,
         reading' = Idle, pos' \in 0 .. Size
  PROVE  DInv'
<1> USE DEF DInv, cells
<1>1. /\ dirs = Unset /\ link \in Nat /\ link # Unset
      /\ link # 0 /\ d = Chained(file, Len(list) + 1, link)
      /\ IsChained(file, list) /\ Len(list) \in Nat /\ Len(list) <= MaxDirs
      /\ link = LinkTo(file, list, Len(list) + 1) \/ Len(list) = MaxDirs
      /\ list \in Seq(Directory)
  BY DEF DirsGoOn, TypeOK
<1>2. d.next \in Nat /\ d.next # Unset
  BY TiffDirsAssumption DEF Directory
<1>3. /\ list' \in Seq(Directory) /\ Len(list') \in Nat /\ Len(list') <= MaxDirs
      /\ IsChained(file, list')
      /\ d.next = LinkTo(file, list', Len(list') + 1) \/ Len(list') = MaxDirs
  <2>1. CASE Len(list) < MaxDirs
    <3>1. list' = Append(list, d)
      BY <2>1 DEF Kept
    <3>2. Len(list') = Len(list) + 1 /\ list' \in Seq(Directory)
      BY <1>1, <3>1
    <3>3. link = LinkTo(file, list, Len(list) + 1)
      BY <1>1, <2>1
    <3>4. /\ IsChained(file, list')
          /\ LinkTo(file, list', Len(list) + 2) = d.next
      BY <1>1, <3>1, <3>3, OneMoreLink
    <3>5. (Len(list) + 1) + 1 = Len(list) + 2
      BY <1>1
    <3>6. QED
      BY <1>1, <2>1, <3>2, <3>4, <3>5, TiffDirsAssumption
  <2>2. CASE ~ (Len(list) < MaxDirs)
    <3>1. list' = list /\ Len(list) = MaxDirs
      BY <1>1, <2>2, TiffDirsAssumption DEF Kept
    <3>2. QED
      BY <1>1, <3>1
  <2>3. QED
    BY <2>1, <2>2
<1>4. DirsGoOn'
  BY <1>1, <1>2, <1>3 DEF DirsGoOn, For
<1>5. TypeOK'
  BY <1>2, <1>3 DEF TypeOK, Readings
<1>6. ReadingOK'
  BY DEF ReadingOK, EntriesAreInPlace, Idle
<1>7. ~For("exif")' /\ ~For("mnote")' /\ ~For("sub")' /\ ~For("gps")' /\ ~For("entry")'
  BY DEF For
<1>8. ExifGoesOn' /\ MnoteGoesOn' /\ SubsGoOn'
  BY <1>7 DEF ExifGoesOn, MnoteGoesOn, SubsGoOn
<1>9. CallGoesOn' /\ NothingElseGoesOn'
  BY <1>7 DEF CallGoesOn, NothingElseGoesOn, For
<1>10. DirsAreTheChain' /\ PointersAreFollowed'
  BY DEF DirsAreTheChain, PointersAreFollowed, Directory0
<1>11. QED
  BY <1>4, <1>5, <1>6, <1>8, <1>9, <1>10

LEMMA SubIsKept ==
  ASSUME DInv, For("sub"), reading # Idle, NEW e \in {Nothing} \cup Directory,
         e = Outcome(file, reading),
         list' = IF e = Nothing THEN list ELSE Append(list, e),
         UNCHANGED <<file, cells, want, link, todo, got>>,
         reading' = Idle, pos' \in 0 .. Size
  PROVE  DInv'
<1> USE DEF DInv, cells
<1> DEFINE d == dirs[todo.dir]
           all == SubOffsets(d)
           n == Len(all) - Len(todo.at)
<1>1. /\ dirs # Unset /\ todo.dir \in DOMAIN dirs /\ sub[todo.dir] = Unset
      /\ SubsLeft(all, todo.at, n) /\ n > 0 /\ all[n] # 0
      /\ AreSubs(file, list, d, n - 1)
      /\ e = DirAt(file, all[n], d.base)
  BY DEF SubsGoOn, SubsSoFar
<1>2. list \in Seq(Directory) /\ todo.at \in Seq(Nat)
  BY DEF TypeOK
<1>3. all \in Seq(Nat)
  <2>1. d \in Directory
    BY <1>1 DEF TypeOK
  <2>2. QED
    BY <2>1, OffsetsAreNumbers
<1>4. n \in Nat \ {0}
  <2>1. Len(all) \in Nat /\ Len(todo.at) \in Nat
    BY <1>2, <1>3, LenProperties
  <2> HIDE DEF all
  <2>2. QED
    BY <1>1, <2>1
<1>5. list' \in Seq(Directory) /\ AreSubs(file, list', d, n)
  <2> HIDE DEF n, d
  <2>1. CASE e = Nothing
    BY <1>1, <1>2, <1>4, <2>1, NoMoreSubs
  <2>2. CASE e # Nothing
    BY <1>1, <1>2, <1>4, <2>2, OneMoreSub
  <2>3. QED
    BY <2>1, <2>2
<1>6. SubsGoOn'
  BY <1>1, <1>5 DEF SubsGoOn, SubsSoFar, SubsLeft
<1>7. TypeOK'
  BY <1>5 DEF TypeOK, Readings
<1>8. ReadingOK'
  BY DEF ReadingOK, EntriesAreInPlace, Idle
<1>9. ~For("dirs")' /\ ~For("exif")' /\ ~For("mnote")' /\ ~For("gps")' /\ ~For("entry")'
  BY DEF For
<1>10. DirsGoOn' /\ ExifGoesOn' /\ MnoteGoesOn'
  BY <1>9 DEF DirsGoOn, ExifGoesOn, MnoteGoesOn
<1>11. CallGoesOn' /\ NothingElseGoesOn'
  BY <1>9 DEF CallGoesOn, NothingElseGoesOn, For
<1>12. DirsAreTheChain' /\ PointersAreFollowed'
  BY DEF DirsAreTheChain, PointersAreFollowed, Directory0
<1>13. QED
  BY <1>6, <1>7, <1>8, <1>10, <1>11, <1>12

LEMMA CallReturns ==
  ASSUME DInv, For("gps") \/ For("entry"), reading # Idle,
         NEW d \in {Nothing} \cup Directory, d = Outcome(file, reading),
         want' = Tail(want), got' = [got EXCEPT !.ifd = d],
         UNCHANGED <<file, cells, list, link, todo>>, reading' = Idle, pos' \in 0 .. Size
  PROVE  DInv'
<1> USE DEF DInv, cells
<1>1. /\ want # <<>> /\ Head(want) \in {"gps", "entry"} /\ link = Unset
      /\ got \in [of : {"gps", "entry"}, dir : Directory, at : Nat,
                  ifd : {Unset, Nothing} \cup Directory]
      /\ d = DirAt(file, got.at, got.dir.base)
  BY DEF For, CallGoesOn, NothingElseGoesOn, TypeOK
<1>2. want' = <<>>
  BY <1>1, Waiting DEF TypeOK
<1>3. /\ got' \in [of : {"gps", "entry"}, dir : Directory, at : Nat,
                   ifd : {Unset, Nothing} \cup Directory]
      /\ got'.ifd = d /\ got'.at = got.at /\ got'.dir = got.dir
  BY <1>1
<1>4. TypeOK'
  BY <1>1, <1>3, Returned DEF TypeOK
<1>5. ExifGoesOn' /\ MnoteGoesOn' /\ CallGoesOn'
  BY <1>2 DEF ExifGoesOn, MnoteGoesOn, CallGoesOn, For
<1>6. DirsAreTheChain' /\ PointersAreFollowed'
  BY <1>1, <1>3 DEF DirsAreTheChain, PointersAreFollowed, Directory0
<1>7. QED
  BY <1>1, <1>4, <1>5, <1>6, Returned

LEMMA DoneKeepsDInv ==
  ASSUME DInv, reading # Idle, NEW d \in {Nothing} \cup Directory,
         d = Outcome(file, reading), Done(d), UNCHANGED file, pos' \in 0 .. Size
  PROVE  DInv'
<1>1. want # <<>> /\ reading' = Idle
  BY DEF DInv, NothingElseGoesOn, Done
<1>2. CASE Head(want) = "dirs"
  <2>1. link # Unset /\ d = Chained(file, Len(list) + 1, link)
    BY <1>1, <1>2 DEF DInv, DirsGoOn, For
  <2>2. CASE d = Nothing
    BY <1>1, <1>2, <2>1, <2>2, DirsAreSet DEF For, Done, SetDirs
  <2>3. CASE d # Nothing
    BY <1>1, <1>2, <2>1, <2>3, DirIsKept DEF For, Done
  <2>4. QED
    BY <2>2, <2>3
<1>3. CASE Head(want) = "exif"
  <2>1. dirs # Unset /\ d = ExifOf(file, Directory0)
    BY <1>1, <1>3 DEF DInv, ExifGoesOn, For
  <2>2. SetExif(d)
    BY <1>3 DEF Done
  <2>3. QED
    BY <1>1, <1>3, <2>1, <2>2, ExifIsSet DEF For
<1>4. CASE Head(want) = "mnote"
  <2>1. exif # Unset /\ d = NoteOf(file, exif)
    BY <1>1, <1>4 DEF DInv, MnoteGoesOn, For
  <2>2. SetMnote(d)
    BY <1>4 DEF Done
  <2>3. QED
    BY <1>1, <1>4, <2>1, <2>2, MnoteIsSet DEF For
<1>5. CASE Head(want) = "sub"
  BY <1>1, <1>5, SubIsKept DEF For, Done
<1>6. CASE Head(want) \in {"gps", "entry"}
  BY <1>1, <1>6, CallReturns DEF For, Done
<1>7. QED
  BY <1>1, <1>2, <1>3, <1>4, <1>5, <1>6 DEF Done

-----------------------------------------------------------------------------
(* The steps of a reading.                                                 *)
LEMMA FileIsWords == DInv => file \in FileType
BY TiffDirsAssumption DEF DInv, TypeOK, FileType

(* Dir::create_maker_note.                                                 *)
LEMMA ReadMakerKeepsDInv == ASSUME DInv, ReadMaker PROVE DInv'
<1> DEFINE at == reading.at
           m == Maker(file, at)
<1>1. reading.stage = "maker" /\ UNCHANGED file
  BY DEF ReadMaker, Stage
<1>2. /\ at \in Nat /\ reading # Idle
      /\ Outcome(file, reading) = NoteAt(file, at)
      /\ RawType(file) \notin CanonTypes
  BY <1>1 DEF DInv, TypeOK, Readings, Idle, Outcome, ReadingOK
<1>3. pos \in 0 .. Size /\ Size \in Nat
  BY TiffDirsAssumption DEF DInv, TypeOK
<1>4. CASE ~ Fits(at, 1)
  <2>1. Done(Nothing) /\ pos' = IF at <= Size THEN Size ELSE pos
    BY <1>4 DEF ReadMaker
  <2>2. Outcome(file, reading) = Nothing
    BY <1>2, <1>4 DEF NoteAt
  <2>3. QED
    BY <1>1, <1>2, <1>3, <2>1, <2>2, DoneKeepsDInv
<1>5. CASE Fits(at, 1)
  <2>1. /\ pos' = at + 1
        /\ \/ m = Refused /\ Done(Nothing)
           \/ /\ m # Refused
              /\ Read(at + Words(m.skip), NoteBase(file, at))
              /\ UNCHANGED <<cells, want, walk>>
    BY <1>5 DEF ReadMaker
  <2>2. pos' \in 0 .. Size
    BY <1>2, <1>3, <1>5, <2>1 DEF Fits
  <2>3. CASE m = Refused
    <3>1. Outcome(file, reading) = Nothing /\ Done(Nothing)
      BY <1>2, <2>1, <2>3 DEF NoteAt
    <3>2. QED
      BY <1>1, <1>2, <2>2, <3>1, DoneKeepsDInv
  <2>4. CASE m # Refused
    <3>1. /\ Read(at + Words(m.skip), NoteBase(file, at))
          /\ UNCHANGED <<cells, want, walk>>
      BY <2>1, <2>4
    <3>2. at + Words(m.skip) \in Nat /\ NoteBase(file, at) \in Nat
      BY <1>2 DEF Words, NoteBase
    <3>3. Outcome(file, reading) = DirAt(file, at + Words(m.skip), NoteBase(file, at))
      BY <1>2, <1>5, <2>4 DEF NoteAt, NoteBase
    <3>4. QED
      BY <1>1, <1>2, <2>2, <3>1, <3>2, <3>3, ReadBegins, ReadingGoesOn
  <2>5. QED
    BY <2>3, <2>4
<1>6. QED
  BY <1>4, <1>5

(* Dir::read, its three parts.                                             *)
LEMMA ReadCountKeepsDInv == ASSUME DInv, ReadCount PROVE DInv'
<1> DEFINE at == reading.at
           base == reading.base
<1>1. reading.stage = "count" /\ UNCHANGED file
  BY DEF ReadCount, Stage
<1>2. /\ at \in Nat /\ base \in Nat /\ reading # Idle
      /\ Outcome(file, reading) = DirAt(file, at, base)
  BY <1>1 DEF DInv, TypeOK, Readings, Idle, Outcome
<1>3. pos \in 0 .. Size /\ Size \in Nat
  BY TiffDirsAssumption DEF DInv, TypeOK
<1>4. CASE ~ Fits(at, 1)
  <2>1. Done(Nothing) /\ pos' = IF at <= Size THEN at ELSE pos
    BY <1>4 DEF ReadCount
  <2>2. Outcome(file, reading) = Nothing
    BY <1>2, <1>4 DEF DirAt
  <2>3. QED
    BY <1>1, <1>2, <1>3, <2>1, <2>2, DoneKeepsDInv
<1>5. CASE Fits(at, 1)
  <2>1. /\ pos' = at + 1
        /\ reading' = [stage |-> "entries", at |-> at, base |-> base,
                       left |-> EntryCount(file[at]), entries |-> NoEntries]
        /\ UNCHANGED <<cells, want, walk>>
    BY <1>5 DEF ReadCount
  <2>2. at \in 0 .. Size - 1 /\ pos' \in 0 .. Size
    BY <1>2, <1>3, <1>5, <2>1 DEF Fits
  <2>3. EntryCount(file[at]) \in Nat
    BY <2>2, FileIsWords, TiffDirsAssumption DEF FileType, EntryCount
  <2>4. NoEntries \in [Tag -> Data]
    BY DEF NoEntries, Data
  <2>5. reading' \in Readings /\ reading' # Idle
    BY <1>2, <2>1, <2>2, <2>3, <2>4 DEF Readings, Data, Idle
  <2>6. /\ reading'.stage = "entries" /\ reading'.at = at /\ reading'.base = base
        /\ reading'.left = EntryCount(file[at]) /\ reading'.entries = NoEntries
    BY <2>1
  <2>7. ReadingOK'
    <3>1. EntryCount(file[at]) - reading'.left = 0 /\ at \in DOMAIN file
      BY <2>2, <2>3, <2>6, FileIsWords DEF FileType
    <3>2. reading'.entries = EntriesOf(file, at, base, 0)
      BY <2>6, NoEntriesYet
    <3>3. pos' = at + 1 + 2 * 0
      BY <1>2, <2>1
    <3>4. QED
      BY <1>1, <2>3, <2>6, <3>1, <3>2, <3>3 DEF ReadingOK, EntriesAreInPlace
  <2>8. Outcome(file, reading') = Outcome(file, reading)
    BY <1>2, <2>6 DEF Outcome
  <2>9. QED
    BY <1>1, <1>2, <2>1, <2>2, <2>5, <2>7, <2>8, ReadingGoesOn
<1>6. QED
  BY <1>4, <1>5

(* What is known while entries are read.                                   *)
LEMMA InTheEntries ==
  ASSUME DInv, Stage("entries"),
         NEW at, at = reading.at, NEW base, base = reading.base,
         NEW n, n = EntryCount(file[at]) - reading.left
  PROVE  /\ reading = [stage |-> "entries", at |-> at, base |-> base,
                       left |-> reading.left, entries |-> reading.entries]
         /\ at \in 0 .. Size - 1 /\ base \in Nat /\ reading # Idle
         /\ EntryCount(file[at]) \in Nat /\ reading.left \in Nat /\ n \in Nat
         /\ reading.left + n = EntryCount(file[at])
         /\ reading.entries \in [Tag -> Data]
         /\ reading.entries = EntriesOf(file, at, base, n)
         /\ pos = at + 1 + 2 * n
         /\ Size \in Nat /\ pos \in 0 .. Size
         /\ Outcome(file, reading) = DirAt(file, at, base)
         /\ Fits(at, 1)
<1>1. reading.stage = "entries"
  BY DEF Stage
<1>2. reading \in [stage : {"entries"}, at : 0 .. Size - 1, base : Nat, left : Nat,
                   entries : [Tag -> Data]]
  BY <1>1 DEF DInv, TypeOK, Readings, Idle, Data
<1>3. /\ reading = [stage |-> "entries", at |-> at, base |-> base,
                    left |-> reading.left, entries |-> reading.entries]
      /\ at \in 0 .. Size - 1 /\ base \in Nat /\ reading.left \in Nat
      /\ reading.entries \in [Tag -> Data]
  BY <1>2
<1>4. reading # Idle
  BY <1>1 DEF Idle
<1>5. EntryCount(file[at]) \in Nat
  BY <1>3, FileIsWords, TiffDirsAssumption DEF FileType, EntryCount
<1>6. /\ reading.left <= EntryCount(file[at]) /\ pos = at + 1 + 2 * n
      /\ reading.entries = EntriesOf(file, at, base, n)
  BY <1>1 DEF DInv, ReadingOK, EntriesAreInPlace
<1>7. Size \in Nat /\ pos \in 0 .. Size
  BY TiffDirsAssumption DEF DInv, TypeOK
<1>8. Outcome(file, reading) = DirAt(file, at, base)
  BY <1>1 DEF Outcome
<1>9. Fits(at, 1)
  BY <1>3, <1>7 DEF Fits
<1>10. n \in Nat /\ reading.left + n = EntryCount(file[at])
  BY <1>3, <1>5, <1>6
<1>11. QED
  BY <1>3, <1>4, <1>5, <1>6, <1>7, <1>8, <1>9, <1>10

LEMMA ReadEntryKeepsDInv == ASSUME DInv, ReadEntry PROVE DInv'
<1>1. PICK at, base, n : at = reading.at /\ base = reading.base /\ n = EntryCount(file[at]) - reading.left
  OBVIOUS
<1>2. Stage("entries") /\ reading.left > 0 /\ UNCHANGED file
  BY DEF ReadEntry
<1>3. /\ reading = [stage |-> "entries", at |-> at, base |-> base,
                    left |-> reading.left, entries |-> reading.entries]
      /\ at \in 0 .. Size - 1 /\ base \in Nat /\ reading # Idle
      /\ EntryCount(file[at]) \in Nat /\ reading.left \in Nat /\ n \in Nat
      /\ reading.left + n = EntryCount(file[at])
      /\ reading.entries \in [Tag -> Data]
      /\ reading.entries = EntriesOf(file, at, base, n)
      /\ pos = at + 1 + 2 * n
      /\ Size \in Nat /\ pos \in 0 .. Size
      /\ Outcome(file, reading) = DirAt(file, at, base)
      /\ Fits(at, 1)
  BY <1>1, <1>2, InTheEntries
<1>4. CASE ~ Fits(pos, 2)
  <2>1. Done(Nothing) /\ pos' = Size
    BY <1>4 DEF ReadEntry
  <2>2. ~ Fits(at, 2 * EntryCount(file[at]) + 2)
    BY <1>2, <1>3, <1>4 DEF Fits
  <2>3. Outcome(file, reading) = Nothing
    BY <1>3, <2>2 DEF DirAt
  <2>4. QED
    BY <1>2, <1>3, <2>1, <2>3, DoneKeepsDInv
<1>5. CASE Fits(pos, 2)
  <2> DEFINE k == Kind(file[pos])
             v == Value(file, k, file[pos + 1], base)
  <2>1. /\ reading' = [reading EXCEPT !.left = @ - 1, !.entries[k.tag] = v]
        /\ pos' = pos + 2
        /\ UNCHANGED <<cells, want, walk>>
    BY <1>1, <1>5 DEF ReadEntry
  <2>2. pos' \in 0 .. Size /\ pos \in 0 .. Size - 1 /\ pos + 1 \in 0 .. Size - 1
    BY <1>3, <1>5, <2>1 DEF Fits
  <2>3. file[pos + 1] \in Nat
    BY <2>2, FileIsWords DEF FileType
  <2>4. v \in Data
    BY <1>3, <2>3, FileIsWords, ValueIsData
  <2>5. pos = EntryWord(at, n + 1)
    BY <1>3 DEF EntryWord
  <2>6. EntriesOf(file, at, base, n + 1) = [reading.entries EXCEPT ![k.tag] = v]
    <3>1. n \in Nat
      BY <1>3
    <3>2. EntriesOf(file, at, base, n + 1) = [EntriesOf(file, at, base, n) EXCEPT ![k.tag] = v]
      BY ONLY <2>5, <3>1, OneMoreEntry
    <3>3. QED
      BY <1>3, <3>2, Zenon
  <2> HIDE DEF k, v
  <2>7. reading' = [stage |-> "entries", at |-> at, base |-> base,
                    left |-> reading.left - 1,
                    entries |-> EntriesOf(file, at, base, n + 1)]
    <3>1. reading \in [stage : {"entries"}, at : 0 .. Size - 1, base : Nat, left : Nat,
                       entries : [Tag -> Data]]
      BY <1>3
    <3>2. reading' = [stage |-> "entries", at |-> at, base |-> base,
                      left |-> reading.left - 1,
                      entries |-> [reading.entries EXCEPT ![k.tag] = v]]
      BY <1>1, <2>1, <3>1
    <3>3. QED
      BY <2>6, <3>2
  <2>8. EntriesOf(file, at, base, n + 1) \in [Tag -> Data]
    BY <1>3, <2>4, <2>6
  <2>9. /\ reading'.stage = "entries" /\ reading'.at = at /\ reading'.base = base
        /\ reading'.left = reading.left - 1
        /\ reading'.entries = EntriesOf(file, at, base, n + 1)
    BY <2>7
  <2>10. reading.left - 1 \in Nat
    BY <1>2, <1>3
  <2>11. reading' \in Readings /\ reading' # Idle
    BY <1>3, <2>7, <2>8, <2>10 DEF Readings, Data, Idle
  <2>12. ReadingOK'
    <3>1. EntryCount(file[at]) - reading'.left = n + 1 /\ reading'.left <= EntryCount(file[at])
      BY <1>3, <2>9, <2>10
    <3>2. pos' = at + 1 + 2 * (n + 1)
      BY <1>3, <2>1
    <3>3. at \in DOMAIN file
      BY <1>3, FileIsWords DEF FileType
    <3>4. QED
      BY <1>2, <2>9, <3>1, <3>2, <3>3 DEF ReadingOK, EntriesAreInPlace
  <2>13. Outcome(file, reading') = Outcome(file, reading)
    BY <1>3, <2>9 DEF Outcome
  <2>14. QED
    BY <1>2, <1>3, <2>1, <2>2, <2>11, <2>12, <2>13, ReadingGoesOn
<1>6. QED
  BY <1>4, <1>5

LEMMA ReadNextKeepsDInv == ASSUME DInv, ReadNext PROVE DInv'
<1>1. PICK at, base, n : at = reading.at /\ base = reading.base /\ n = EntryCount(file[at]) - reading.left
  OBVIOUS
<1>2. Stage("entries") /\ reading.left = 0 /\ UNCHANGED file
  BY DEF ReadNext
<1>3. /\ at \in 0 .. Size - 1 /\ base \in Nat /\ reading # Idle
      /\ EntryCount(file[at]) \in Nat /\ n = EntryCount(file[at])
      /\ reading.entries \in [Tag -> Data]
      /\ reading.entries = EntriesOf(file, at, base, EntryCount(file[at]))
      /\ pos = at + 1 + 2 * EntryCount(file[at])
      /\ Size \in Nat /\ pos \in 0 .. Size
      /\ Outcome(file, reading) = DirAt(file, at, base)
      /\ Fits(at, 1)
  BY <1>1, <1>2, InTheEntries
<1>4. Fits(pos, 1) <=> Fits(at, 2 * EntryCount(file[at]) + 2)
  BY <1>3 DEF Fits
<1>5. CASE ~ Fits(pos, 1)
  <2>1. Done(Nothing) /\ pos' = pos
    BY <1>5 DEF ReadNext
  <2>2. Outcome(file, reading) = Nothing
    BY <1>3, <1>4, <1>5 DEF DirAt
  <2>3. QED
    BY <1>2, <1>3, <2>1, <2>2, DoneKeepsDInv
<1>6. CASE Fits(pos, 1)
  <2> DEFINE d == [at |-> at, base |-> base, entries |-> reading.entries,
                   next |-> file[pos]]
  <2>1. Done(d) /\ pos' = pos + 1
    BY <1>1, <1>6 DEF ReadNext
  <2>2. pos' \in 0 .. Size /\ pos \in 0 .. Size - 1
    BY <1>3, <1>6, <2>1 DEF Fits
  <2>3. file[pos] \in Nat
    BY <2>2, FileIsWords DEF FileType
  <2>4. d \in Directory
    BY <1>3, <2>3 DEF Directory, Data
  <2>5. d = Outcome(file, reading)
    BY <1>3, <1>4, <1>6 DEF DirAt
  <2>6. QED
    BY <1>2, <1>3, <2>1, <2>2, <2>4, <2>5, DoneKeepsDInv
<1>7. QED
  BY <1>5, <1>6

-----------------------------------------------------------------------------
(* Where a reading begins for a cell.                                      *)
LEMMA ReadingBegins ==
  ASSUME DInv, want # <<>>, reading = Idle, reading' \in Readings, reading' # Idle,
         ReadingOK', UNCHANGED <<file, pos, cells, want, list, link, got>>,
         todo' \in [dir : Nat, at : Seq(Nat)],
         For("dirs") => link \notin {Unset, 0}
                        /\ Outcome(file, reading') = Chained(file, Len(list) + 1, link),
         For("exif") => dirs # Unset /\ Outcome(file, reading') = ExifOf(file, Directory0),
         For("mnote") => exif # Unset /\ Outcome(file, reading') = NoteOf(file, exif),
         SubsGoOn'
  PROVE  DInv'
<1> USE DEF DInv, cells
<1>1. TypeOK'
  BY DEF TypeOK
<1>2. DirsGoOn' /\ ExifGoesOn' /\ MnoteGoesOn'
  BY DEF DirsGoOn, ExifGoesOn, MnoteGoesOn, For, Directory0
<1>3. CallGoesOn' /\ NothingElseGoesOn'
  BY DEF CallGoesOn, NothingElseGoesOn, For
<1>4. DirsAreTheChain' /\ PointersAreFollowed'
  BY DEF DirsAreTheChain, PointersAreFollowed, Directory0
<1>5. QED
  BY <1>1, <1>2, <1>3, <1>4

LEMMA EntriesAreNumbers ==
  ASSUME NEW d \in {Nothing} \cup Directory, NEW t \in Tag, Entry(d, t) # Nothing
  PROVE  d \in Directory /\ Entry(d, t) \in Seq(Nat) /\ Entry(d, t)[1] \in Nat
<1>1. d \in Directory /\ Entry(d, t) = d.entries[t]
  BY DEF Entry
<1>2. d.entries[t] \in Seq(Nat) \ {<<>>}
  BY <1>1 DEF Entry, Directory
<1>3. 1 \in 1 .. Len(d.entries[t])
  BY <1>2
<1>4. QED
  BY <1>1, <1>2, <1>3, ElementOfSeq

LEMMA NextDirKeepsDInv == ASSUME DInv, NextDir PROVE DInv'
<1>1. /\ For("dirs") /\ want # <<>> /\ reading = Idle
      /\ link \notin {Unset, 0}
      /\ IF Len(list) < Len(DirMap) /\ DirMap[Len(list) + 1] = "MakerNote"
           THEN ReadNote(link) ELSE Read(link, 0)
      /\ UNCHANGED <<file, pos, cells, want, walk>>
  BY DEF NextDir, Wanted, For
<1>2. link \in Nat /\ Len(list) \in Nat /\ Len(DirMap) \in Nat
  BY <1>1, TiffDirsAssumption DEF DInv, TypeOK
<1>3. /\ reading' \in Readings /\ reading' # Idle /\ ReadingOK'
      /\ Outcome(file, reading') = Chained(file, Len(list) + 1, link)
  <2>1. CASE Len(list) < Len(DirMap) /\ DirMap[Len(list) + 1] = "MakerNote"
    <3>1. ReadNote(link)
      BY <1>1, <2>1
    <3>2. Chained(file, Len(list) + 1, link) = NoteAt(file, link)
      BY <1>2, <2>1 DEF Chained
    <3>3. QED
      BY <1>1, <1>2, <3>1, <3>2, ReadNoteBegins
  <2>2. CASE ~ (Len(list) < Len(DirMap) /\ DirMap[Len(list) + 1] = "MakerNote")
    <3>1. Read(link, 0)
      BY <1>1, <2>2
    <3>2. Chained(file, Len(list) + 1, link) = DirAt(file, link, 0)
      BY <1>2, <2>2 DEF Chained
    <3>3. QED
      BY <1>1, <1>2, <3>1, <3>2, ReadBegins
  <2>3. QED
    BY <2>1, <2>2
<1>4. ~For("exif") /\ ~For("mnote") /\ ~For("sub")'
  BY <1>1 DEF For
<1>5. SubsGoOn'
  BY <1>4 DEF SubsGoOn
<1>6. todo' \in [dir : Nat, at : Seq(Nat)]
  BY <1>1 DEF DInv, TypeOK, walk
<1>7. QED
  BY <1>1, <1>3, <1>4, <1>5, <1>6, ReadingBegins DEF walk

LEMMA FindExifKeepsDInv == ASSUME DInv, FindExif PROVE DInv'
<1> DEFINE e == Entry(Directory0, "exif")
<1>1. /\ For("exif") /\ want # <<>> /\ reading = Idle /\ dirs # Unset
      /\ \/ e = Nothing /\ SetExif(Nothing) /\ UNCHANGED reading
         \/ /\ e # Nothing
            /\ Read(e[1], Directory0.base)
            /\ UNCHANGED <<cells, want, walk>>
      /\ UNCHANGED <<file, pos>>
  BY DEF FindExif, Wanted, For
<1>2. Directory0 \in {Nothing} \cup Directory
  <2>1. dirs \in Seq(Directory)
    BY <1>1 DEF DInv, TypeOK
  <2>2. CASE dirs = <<>>
    BY <2>2 DEF Directory0
  <2>3. CASE dirs # <<>>
    <3>1. 1 \in 1 .. Len(dirs)
      BY <2>1, <2>3
    <3>2. QED
      BY <2>1, <2>3, <3>1, ElementOfSeq DEF Directory0
  <2>4. QED
    BY <2>2, <2>3
<1>3. pos \in 0 .. Size
  BY DEF DInv, TypeOK
<1>4. CASE e = Nothing
  <2>1. ExifOf(file, Directory0) = Nothing
    BY <1>4 DEF ExifOf
  <2>2. QED
    BY <1>1, <1>3, <1>4, <2>1, ExifIsSet
<1>5. CASE e # Nothing
  <2>1. Read(e[1], Directory0.base) /\ UNCHANGED <<cells, want, walk>>
    BY <1>1, <1>5
  <2>2. e[1] \in Nat /\ Directory0.base \in Nat
    BY <1>2, <1>5, EntriesAreNumbers DEF Tag, Directory
  <2>3. ExifOf(file, Directory0) = DirAt(file, e[1], Directory0.base)
    BY <1>5 DEF ExifOf
  <2>4. /\ reading' \in Readings /\ reading' # Idle /\ ReadingOK'
        /\ Outcome(file, reading') = ExifOf(file, Directory0)
    BY <2>1, <2>2, <2>3, ReadBegins
  <2>5. ~For("dirs") /\ ~For("mnote") /\ ~For("sub")'
    BY <1>1, <2>1 DEF For
  <2>6. SubsGoOn'
    BY <2>5 DEF SubsGoOn
  <2>7. todo' \in [dir : Nat, at : Seq(Nat)]
    BY <2>1 DEF DInv, TypeOK, walk
  <2>8. QED
    BY <1>1, <2>1, <2>4, <2>5, <2>6, <2>7, ReadingBegins DEF walk
<1>6. QED
  BY <1>4, <1>5

LEMMA FindMnoteKeepsDInv == ASSUME DInv, FindMnote PROVE DInv'
<1> DEFINE e == Entry(exif, "mnote")
<1>1. /\ For("mnote") /\ want # <<>> /\ reading = Idle /\ exif # Unset
      /\ \/ e = Nothing /\ SetMnote(Nothing) /\ UNCHANGED reading
         \/ /\ e # Nothing
            /\ ReadNote(e[1])
            /\ UNCHANGED <<cells, want, walk>>
      /\ UNCHANGED <<file, pos>>
  BY DEF FindMnote, Wanted, For
<1>2. exif \in {Nothing} \cup Directory /\ pos \in 0 .. Size
  BY <1>1 DEF DInv, TypeOK
<1>3. CASE e = Nothing
  <2>1. NoteOf(file, exif) = Nothing
    BY <1>3 DEF NoteOf
  <2>2. QED
    BY <1>1, <1>2, <1>3, <2>1, MnoteIsSet
<1>4. CASE e # Nothing
  <2>1. ReadNote(e[1]) /\ UNCHANGED <<cells, want, walk>>
    BY <1>1, <1>4
  <2>2. e[1] \in Nat
    BY <1>2, <1>4, EntriesAreNumbers DEF Tag
  <2>3. NoteOf(file, exif) = NoteAt(file, e[1])
    BY <1>4 DEF NoteOf
  <2>4. /\ reading' \in Readings /\ reading' # Idle /\ ReadingOK'
        /\ Outcome(file, reading') = NoteOf(file, exif)
    BY <1>1, <2>1, <2>2, <2>3, ReadNoteBegins
  <2>5. ~For("dirs") /\ ~For("exif") /\ ~For("sub")'
    BY <1>1, <2>1 DEF For
  <2>6. SubsGoOn'
    BY <2>5 DEF SubsGoOn
  <2>7. todo' \in [dir : Nat, at : Seq(Nat)]
    BY <2>1 DEF DInv, TypeOK, walk
  <2>8. QED
    BY <1>1, <2>1, <2>4, <2>5, <2>6, <2>7, ReadingBegins DEF walk
<1>5. QED
  BY <1>3, <1>4

(* get_sub_ifds(): the offset that is next, and the end.                   *)
LEMMA OneSubLess ==
  ASSUME NEW all \in Seq(Nat), NEW left \in Seq(Nat), left # <<>>,
         NEW n, SubsLeft(all, left, n)
  PROVE  /\ n \in Nat /\ Head(left) \in Nat /\ Tail(left) \in Seq(Nat)
         /\ Head(left) = all[n + 1]
         /\ Len(all) - Len(Tail(left)) = n + 1
         /\ SubsLeft(all, Tail(left), n + 1)
<1>1. /\ Head(left) \in Nat /\ Tail(left) \in Seq(Nat) /\ Head(left) = left[1]
      /\ Len(Tail(left)) = Len(left) - 1
      /\ \A j \in 1 .. Len(Tail(left)) : Tail(left)[j] = left[j + 1]
      /\ Len(left) \in Nat \ {0} /\ Len(all) \in Nat
  BY HeadTailProperties, LenProperties
<1>2. n \in Nat /\ n = Len(all) - Len(left) /\ \A j \in 1 .. Len(left) : left[j] = all[n + j]
  BY <1>1 DEF SubsLeft
<1>3. Head(left) = all[n + 1]
  BY <1>1, <1>2
<1>4. Len(all) - Len(Tail(left)) = n + 1
  BY <1>1, <1>2
<1>5. ASSUME NEW j \in 1 .. Len(Tail(left)) PROVE Tail(left)[j] = all[(n + 1) + j]
  <2>1. j + 1 \in 1 .. Len(left) /\ n + (j + 1) = (n + 1) + j
    BY <1>1, <1>2
  <2>2. left[j + 1] = all[n + (j + 1)]
    BY <1>2, <2>1
  <2>3. QED
    BY <1>1, <2>1, <2>2
<1>6. QED
  BY <1>1, <1>2, <1>3, <1>4, <1>5 DEF SubsLeft

LEMMA NextSubKeepsDInv == ASSUME DInv, NextSub PROVE DInv'
<1>1. PICK d, n, a : /\ d = dirs[todo.dir] /\ a = Head(todo.at)
                     /\ n = Len(SubOffsets(d)) - Len(todo.at)
  OBVIOUS
<1>2. /\ For("sub") /\ want # <<>> /\ reading = Idle /\ todo.at # <<>>
      /\ todo' = [todo EXCEPT !.at = Tail(@)]
      /\ IF a = 0 THEN UNCHANGED reading ELSE Read(a, d.base)
      /\ UNCHANGED <<file, pos, cells, want, list, link, got>>
  BY <1>1 DEF NextSub, Wanted, For
<1>3. /\ dirs # Unset /\ todo.dir \in DOMAIN dirs /\ sub[todo.dir] = Unset
      /\ SubsLeft(SubOffsets(d), todo.at, n) /\ AreSubs(file, list, d, n)
  BY <1>1, <1>2 DEF DInv, SubsGoOn, SubsSoFar
<1>4. /\ todo \in [dir : Nat, at : Seq(Nat)] /\ todo.at \in Seq(Nat)
      /\ list \in Seq(Directory) /\ d \in Directory
  BY <1>1, <1>3 DEF DInv, TypeOK
<1>5. /\ n \in Nat /\ a \in Nat /\ Tail(todo.at) \in Seq(Nat)
      /\ a = SubOffsets(d)[n + 1]
      /\ Len(SubOffsets(d)) - Len(Tail(todo.at)) = n + 1
      /\ SubsLeft(SubOffsets(d), Tail(todo.at), n + 1)
  BY <1>1, <1>2, <1>3, <1>4, OffsetsAreNumbers, OneSubLess
<1>6. /\ todo' \in [dir : Nat, at : Seq(Nat)]
      /\ todo'.dir = todo.dir /\ todo'.at = Tail(todo.at)
  BY <1>2, <1>4, <1>5
<1>7. n + 1 \in Nat \ {0} /\ (n + 1) - 1 = n /\ n + 1 > 0
  BY <1>5
<1>8. d = dirs'[todo'.dir] /\ n + 1 = Len(SubOffsets(d)) - Len(todo'.at)
  BY <1>1, <1>2, <1>5, <1>6 DEF cells
<1>9. ~For("dirs") /\ ~For("exif") /\ ~For("mnote") /\ ~For("gps") /\ ~For("entry")
  BY <1>2 DEF For
<1>10. CASE a = 0
  <2>1. AreSubs(file, list, d, n + 1)
    <3>1. PICK m \in Nat \ {0} : m = n + 1 /\ m - 1 = n
      BY <1>7
    <3>2. SubOffsets(d)[m] = 0
      BY <1>5, <1>10, <3>1
    <3>3. AreSubs(file, list, d, m)
      BY <1>3, <3>1, <3>2, NoMoreSubs
    <3>4. QED
      BY <3>1, <3>3
  <2>2. UNCHANGED reading
    BY <1>2, <1>10
  <2>3. SubsGoOn'
    BY <1>2, <1>3, <1>5, <1>6, <1>8, <2>1, <2>2 DEF SubsGoOn, SubsSoFar, cells
  <2>4. TypeOK' /\ ReadingOK'
    BY <1>2, <1>6, <2>2 DEF DInv, TypeOK, ReadingOK, EntriesAreInPlace, cells
  <2>5. DirsGoOn' /\ ExifGoesOn' /\ MnoteGoesOn'
    BY <1>2, <1>9 DEF DirsGoOn, ExifGoesOn, MnoteGoesOn, For
  <2>6. CallGoesOn' /\ NothingElseGoesOn'
    BY <1>2, <1>9, <2>2 DEF DInv, CallGoesOn, NothingElseGoesOn, For
  <2>7. DirsAreTheChain' /\ PointersAreFollowed'
    BY <1>2 DEF DInv, DirsAreTheChain, PointersAreFollowed, Directory0, cells
  <2>8. QED
    BY <2>3, <2>4, <2>5, <2>6, <2>7 DEF DInv
<1>11. CASE a # 0
  <2>1. Read(a, d.base) /\ d.base \in Nat
    BY <1>2, <1>4, <1>11 DEF Directory
  <2>2. /\ reading' \in Readings /\ reading' # Idle /\ ReadingOK'
        /\ Outcome(file, reading') = DirAt(file, a, d.base)
    BY <1>5, <2>1, ReadBegins
  <2>3. SubsGoOn'
    BY <1>2, <1>3, <1>5, <1>6, <1>7, <1>8, <1>11, <2>2 DEF SubsGoOn, SubsSoFar, cells
  <2>4. QED
    BY <1>2, <1>6, <1>9, <2>2, <2>3, ReadingBegins
<1>12. QED
  BY <1>10, <1>11

LEMMA LastSubKeepsDInv == ASSUME DInv, LastSub PROVE DInv'
<1> USE DEF DInv
<1>1. PICK d, n : d = dirs[todo.dir] /\ n = Len(SubOffsets(d)) - Len(todo.at)
  OBVIOUS
<1>2. /\ For("sub") /\ want # <<>> /\ reading = Idle /\ todo.at = <<>>
      /\ sub' = [sub EXCEPT ![todo.dir] = list]
      /\ want' = Tail(want)
      /\ UNCHANGED <<file, pos, dirs, exif, mnote, list, link, todo, got, reading>>
  BY DEF LastSub, Wanted, For, walk
<1>3. got = NoCall /\ link = Unset
  BY <1>2, NotACall DEF NothingElseGoesOn, For
<1>4. /\ dirs # Unset /\ todo.dir \in DOMAIN dirs
      /\ AreSubs(file, list, d, n)
  BY <1>1, <1>2 DEF SubsGoOn, SubsSoFar
<1>5. d \in Directory
  BY <1>1, <1>4 DEF TypeOK
<1>6. n = Len(SubOffsets(d))
  BY <1>1, <1>2, <1>5, OffsetsAreNumbers, LenProperties
<1>7. want' \in Wants /\ ~For("exif")' /\ ~For("mnote")'
  BY <1>2, <1>3, Returned DEF For
<1>8. TypeOK'
  BY <1>2, <1>7 DEF TypeOK
<1>9. ExifGoesOn' /\ MnoteGoesOn' /\ CallGoesOn'
  BY <1>2, <1>3, <1>7, Returned DEF ExifGoesOn, MnoteGoesOn, CallGoesOn
<1>10. DirsAreTheChain'
  BY <1>2 DEF DirsAreTheChain
<1>11. PointersAreFollowed'
  <2>1. /\ \A i \in 1 .. MaxDirs : i # todo.dir => sub'[i] = sub[i]
        /\ todo.dir \in 1 .. MaxDirs => sub'[todo.dir] = list
    BY <1>2 DEF TypeOK
  <2>2. \A i \in 1 .. MaxDirs : sub'[i] # Unset =>
          /\ dirs' # Unset /\ i \in DOMAIN dirs'
          /\ AreSubs(file', sub'[i], dirs'[i], Len(SubOffsets(dirs'[i])))
    BY <1>1, <1>2, <1>4, <1>6, <2>1 DEF PointersAreFollowed
  <2>3. QED
    BY <1>2, <1>3, <2>2 DEF PointersAreFollowed, Directory0
<1>12. QED
  BY <1>2, <1>3, <1>8, <1>9, <1>10, <1>11, Returned

-----------------------------------------------------------------------------
(* The calls, what they need, and other users of the io.                   *)
LEMMA AskKeepsDInv ==
  ASSUME DInv, NEW cell, cell \in {"dirs", "exif", "mnote"}, Ask(cell),
         cell = "dirs" => dirs = Unset, cell = "exif" => exif = Unset,
         cell = "mnote" => mnote = Unset
  PROVE  DInv'
<1> USE DEF DInv
<1>1. /\ want = <<>> /\ want' = <<cell>> /\ got' = NoCall /\ reading = Idle /\ link = Unset
      /\ UNCHANGED <<file, pos, dirs, exif, mnote, sub, list, link, todo, reading>>
  BY DEF Ask, cells, NothingElseGoesOn, For
<1>2. want' \in Wants /\ want' # <<>> /\ Head(want') = cell
  BY <1>1 DEF Wants
<1>3. TypeOK'
  BY <1>1, <1>2 DEF TypeOK
<1>4. ReadingOK'
  BY <1>1 DEF ReadingOK, EntriesAreInPlace
<1>5. /\ DirsGoOn' /\ ExifGoesOn' /\ MnoteGoesOn' /\ SubsGoOn' /\ CallGoesOn'
      /\ NothingElseGoesOn'
  BY <1>1, <1>2
  DEF DirsGoOn, ExifGoesOn, MnoteGoesOn, SubsGoOn, CallGoesOn, NothingElseGoesOn, For
<1>6. DirsAreTheChain' /\ PointersAreFollowed'
  BY <1>1 DEF DirsAreTheChain, PointersAreFollowed, Directory0
<1>7. QED
  BY <1>3, <1>4, <1>5, <1>6

LEMMA AskSubsKeepsDInv ==
  ASSUME DInv, NEW i \in 1 .. MaxDirs, AskSubs(i) PROVE DInv'
<1> USE DEF DInv
<1>1. PICK d, all : d = dirs[i] /\ all = SubOffsets(d)
  OBVIOUS
<1>2. /\ want = <<>> /\ want' = <<"sub">> /\ got' = NoCall /\ reading = Idle /\ link = Unset
      /\ dirs # Unset /\ i \in DOMAIN dirs /\ sub[i] = Unset
      /\ list' = <<>> /\ todo' = [dir |-> i, at |-> all]
      /\ UNCHANGED <<file, pos, dirs, exif, mnote, sub, link, reading>>
  BY <1>1 DEF AskSubs, cells, NothingElseGoesOn, For
<1>3. want' \in Wants /\ want' # <<>> /\ Head(want') = "sub"
  BY <1>2 DEF Wants
<1>4. d \in Directory
  BY <1>1, <1>2 DEF TypeOK
<1>5. all \in Seq(Nat) /\ Len(all) \in Nat
  BY <1>1, <1>4, OffsetsAreNumbers, LenProperties
<1>6. todo' \in [dir : Nat, at : Seq(Nat)] /\ todo'.dir = i /\ todo'.at = all
  BY <1>2, <1>5
<1>7. SubsLeft(all, all, 0)
  BY <1>5 DEF SubsLeft
<1>8. AreSubs(file, <<>>, d, 0)
  <2>1. SubsAt(file, d, 0) = {}
    BY DEF SubsAt
  <2>2. QED
    BY <2>1, FS_EmptySet DEF AreSubs
<1>9. SubsGoOn'
  <2>1. Len(SubOffsets(d)) - Len(todo'.at) = 0
    BY <1>1, <1>5, <1>6
  <2>2. QED
    BY <1>1, <1>2, <1>6, <1>7, <1>8, <2>1 DEF SubsGoOn, SubsSoFar
<1>10. TypeOK'
  BY <1>2, <1>3, <1>6 DEF TypeOK
<1>11. ReadingOK'
  BY <1>2 DEF ReadingOK, EntriesAreInPlace
<1>12. /\ DirsGoOn' /\ ExifGoesOn' /\ MnoteGoesOn' /\ CallGoesOn' /\ NothingElseGoesOn'
  BY <1>2, <1>3 DEF DirsGoOn, ExifGoesOn, MnoteGoesOn, CallGoesOn, NothingElseGoesOn, For
<1>13. DirsAreTheChain' /\ PointersAreFollowed'
  BY <1>2 DEF DirsAreTheChain, PointersAreFollowed, Directory0
<1>14. QED
  BY <1>9, <1>10, <1>11, <1>12, <1>13

LEMMA AskForKeepsDInv ==
  ASSUME DInv, NEW of \in {"gps", "entry"}, NEW dir \in Directory, NEW at \in Nat,
         AskFor(of, dir, at), UNCHANGED cells
  PROVE  DInv'
<1> USE DEF DInv
<1>1. /\ want = <<>> /\ want' = <<of>> /\ link = Unset
      /\ got' = [of |-> of, dir |-> dir, at |-> at, ifd |-> Unset]
      /\ Read(at, dir.base)
      /\ UNCHANGED <<file, pos, dirs, exif, mnote, sub, list, link, todo>>
  BY DEF AskFor, cells, NothingElseGoesOn, For
<1>2. want' \in Wants /\ want' # <<>> /\ Head(want') = of
  BY <1>1 DEF Wants
<1>3. /\ reading' \in Readings /\ reading' # Idle /\ ReadingOK'
      /\ Outcome(file, reading') = DirAt(file, at, dir.base)
  BY <1>1, ReadBegins DEF Directory
<1>4. /\ got' \in [of : {"gps", "entry"}, dir : Directory, at : Nat,
                   ifd : {Unset, Nothing} \cup Directory]
      /\ got'.dir = dir /\ got'.at = at /\ got' # NoCall
  BY <1>1 DEF NoCall
<1>5. TypeOK'
  BY <1>1, <1>2, <1>3, <1>4 DEF TypeOK
<1>6. /\ DirsGoOn' /\ ExifGoesOn' /\ MnoteGoesOn' /\ SubsGoOn' /\ CallGoesOn'
      /\ NothingElseGoesOn'
  BY <1>1, <1>2, <1>3, <1>4
  DEF DirsGoOn, ExifGoesOn, MnoteGoesOn, SubsGoOn, CallGoesOn, NothingElseGoesOn, For
<1>7. DirsAreTheChain' /\ PointersAreFollowed'
  BY <1>1, <1>2 DEF DirsAreTheChain, PointersAreFollowed, Directory0
<1>8. QED
  BY <1>3, <1>5, <1>6, <1>7

LEMMA CallKeepsDInv == ASSUME DInv, Call PROVE DInv'
<1>1. CASE AskDirs
  BY <1>1, AskKeepsDInv DEF AskDirs
<1>2. CASE AskExif
  BY <1>2, AskKeepsDInv DEF AskExif
<1>3. CASE AskMnote
  BY <1>3, AskKeepsDInv DEF AskMnote
<1>4. CASE AskGps
  <2>1. PICK i \in DOMAIN dirs : /\ Entry(dirs[i], "gps") # Nothing
                                 /\ AskFor("gps", dirs[i], Entry(dirs[i], "gps")[1])
    BY <1>4 DEF AskGps
  <2>2. dirs # Unset
    BY <1>4 DEF AskGps
  <2>3. dirs[i] \in Directory
    BY <2>1, <2>2 DEF DInv, TypeOK
  <2>4. Entry(dirs[i], "gps")[1] \in Nat
    BY <2>1, <2>3, EntriesAreNumbers DEF Tag
  <2>5. UNCHANGED cells
    BY <2>1 DEF AskFor
  <2>6. QED
    BY <2>1, <2>3, <2>4, <2>5, AskForKeepsDInv
<1>5. CASE AskEntry
  <2>1. PICK dir \in {exif, mnote} \ {Unset, Nothing} :
          \/ /\ Entry(dir, "subs") # Nothing
             /\ AskFor("entry", dir, Entry(dir, "subs")[1] + dir.base)
          \/ /\ Entry(dir, "mnote") # Nothing
             /\ AskFor("entry", dir, Entry(dir, "mnote")[1])
    BY <1>5 DEF AskEntry
  <2>2. dir \in Directory /\ dir.base \in Nat
    BY <2>1 DEF DInv, TypeOK, Directory
  <2>3. UNCHANGED cells
    BY <2>1 DEF AskFor
  <2>4. CASE /\ Entry(dir, "subs") # Nothing
             /\ AskFor("entry", dir, Entry(dir, "subs")[1] + dir.base)
    <3>1. Entry(dir, "subs")[1] + dir.base \in Nat
      BY <2>2, <2>4, EntriesAreNumbers DEF Tag
    <3>2. QED
      BY <2>2, <2>3, <2>4, <3>1, AskForKeepsDInv
  <2>5. CASE /\ Entry(dir, "mnote") # Nothing
             /\ AskFor("entry", dir, Entry(dir, "mnote")[1])
    <3>1. Entry(dir, "mnote")[1] \in Nat
      BY <2>2, <2>5, EntriesAreNumbers DEF Tag
    <3>2. QED
      BY <2>2, <2>3, <2>5, <3>1, AskForKeepsDInv
  <2>6. QED
    BY <2>1, <2>4, <2>5
<1>6. CASE \E i \in 1 .. MaxDirs : AskSubs(i)
  BY <1>6, AskSubsKeepsDInv
<1>7. QED
  BY <1>1, <1>2, <1>3, <1>4, <1>5, <1>6 DEF Call

LEMMA NeedKeepsDInv == ASSUME DInv, NeedDirs \/ NeedExif PROVE DInv'
<1> USE DEF DInv
<1>1. PICK first \in {"dirs", "exif"} :
        /\ first = "dirs" => For("exif") /\ dirs = Unset
        /\ first = "exif" => For("mnote") /\ exif = Unset
        /\ want # <<>> /\ reading = Idle
        /\ want' = <<first>> \o want
        /\ UNCHANGED <<file, pos, dirs, exif, mnote, sub, list, link, todo, got, reading>>
  BY DEF NeedDirs, NeedExif, Need, Wanted, For, cells, walk
<1>2. want' \in Wants /\ want' # <<>> /\ Head(want') = first
  BY <1>1, Needing DEF TypeOK, For
<1>3. link = Unset /\ got = NoCall
  BY <1>1, NotACall DEF NothingElseGoesOn, For
<1>4. TypeOK'
  BY <1>1, <1>2 DEF TypeOK
<1>5. ReadingOK'
  BY <1>1 DEF ReadingOK, EntriesAreInPlace
<1>6. /\ DirsGoOn' /\ ExifGoesOn' /\ MnoteGoesOn' /\ SubsGoOn' /\ CallGoesOn'
      /\ NothingElseGoesOn'
  BY <1>1, <1>2, <1>3
  DEF DirsGoOn, ExifGoesOn, MnoteGoesOn, SubsGoOn, CallGoesOn, NothingElseGoesOn, For
<1>7. DirsAreTheChain' /\ PointersAreFollowed'
  BY <1>1, <1>2, <1>3 DEF DirsAreTheChain, PointersAreFollowed, Directory0
<1>8. QED
  BY <1>4, <1>5, <1>6, <1>7

LEMMA FirstDirKeepsDInv == ASSUME DInv, FirstDir PROVE DInv'
<1> USE DEF DInv
<1>1. /\ For("dirs") /\ want # <<>> /\ reading = Idle /\ link = Unset
      /\ list' = <<>>
      /\ link' = IF Size > 1 THEN file[1] ELSE 0
      /\ pos' = IF Size > 1 THEN 2 ELSE 1
      /\ UNCHANGED <<file, dirs, exif, mnote, sub, want, todo, got, reading>>
  BY DEF FirstDir, Wanted, For, cells
<1>2. Size \in Nat \ {0} /\ MaxDirs \in Nat /\ Unset \notin Nat
  BY TiffDirsAssumption
<1>3. link' \in Nat /\ link' # Unset /\ pos' \in 0 .. Size
  BY <1>1, <1>2, FileIsWords DEF FileType
<1>4. /\ list' \in Seq(Directory) /\ Len(list') = 0
      /\ IsChained(file, list') /\ link' = LinkTo(file, list', Len(list') + 1)
  BY <1>1 DEF IsChained, LinkTo
<1>5. TypeOK'
  BY <1>1, <1>3, <1>4 DEF TypeOK
<1>6. DirsGoOn'
  BY <1>1, <1>2, <1>3, <1>4 DEF DirsGoOn, For
<1>7. ReadingOK'
  BY <1>1 DEF ReadingOK, EntriesAreInPlace, TypeOK, Idle
<1>8. /\ ExifGoesOn' /\ MnoteGoesOn' /\ SubsGoOn' /\ CallGoesOn' /\ NothingElseGoesOn'
  BY <1>1 DEF ExifGoesOn, MnoteGoesOn, SubsGoOn, CallGoesOn, NothingElseGoesOn, For
<1>9. DirsAreTheChain' /\ PointersAreFollowed'
  BY <1>1 DEF DirsAreTheChain, PointersAreFollowed, Directory0
<1>10. QED
  BY <1>5, <1>6, <1>7, <1>8, <1>9

LEMMA LastDirKeepsDInv == ASSUME DInv, LastDir PROVE DInv'
<1>1. /\ For("dirs") /\ link = 0 /\ SetDirs /\ reading' = Idle /\ UNCHANGED <<file, pos>>
  BY DEF LastDir, Wanted, For
<1>2. link # Unset /\ pos \in 0 .. Size
  BY <1>1, TiffDirsAssumption DEF DInv, TypeOK
<1>3. QED
  BY <1>1, <1>2, DirsAreSet

LEMMA StrayKeepsDInv == ASSUME DInv, Stray PROVE DInv'
<1> USE DEF DInv
<1>1. /\ want = <<>> /\ reading = Idle /\ pos' \in 0 .. Size
      /\ UNCHANGED <<file, dirs, exif, mnote, sub, want, list, link, todo, got, reading>>
  BY TiffDirsAssumption DEF Stray, cells, walk, NothingElseGoesOn
<1>2. TypeOK'
  BY <1>1 DEF TypeOK
<1>3. ReadingOK'
  BY <1>1 DEF ReadingOK, EntriesAreInPlace, Idle
<1>4. /\ DirsGoOn' /\ ExifGoesOn' /\ MnoteGoesOn' /\ SubsGoOn' /\ CallGoesOn'
      /\ NothingElseGoesOn'
  BY <1>1
  DEF DirsGoOn, ExifGoesOn, MnoteGoesOn, SubsGoOn, CallGoesOn, NothingElseGoesOn, For
<1>5. DirsAreTheChain' /\ PointersAreFollowed'
  BY <1>1 DEF DirsAreTheChain, PointersAreFollowed, Directory0
<1>6. QED
  BY <1>2, <1>3, <1>4, <1>5

LEMMA StutterKeepsDInv == ASSUME DInv, UNCHANGED vars PROVE DInv'
BY DEF vars, cells, walk, DInv, TypeOK, ReadingOK, EntriesAreInPlace, DirsGoOn, ExifGoesOn,
   MnoteGoesOn, SubsGoOn, SubsSoFar, CallGoesOn, NothingElseGoesOn, For, DirsAreTheChain,
   PointersAreFollowed, Directory0

LEMMA NextKeepsDInv == ASSUME DInv, [Next]_vars PROVE DInv'
BY CallKeepsDInv, StrayKeepsDInv, StutterKeepsDInv, NeedKeepsDInv, FirstDirKeepsDInv,
   NextDirKeepsDInv, LastDirKeepsDInv, FindExifKeepsDInv, FindMnoteKeepsDInv,
   NextSubKeepsDInv, LastSubKeepsDInv, ReadMakerKeepsDInv, ReadCountKeepsDInv,
   ReadEntryKeepsDInv, ReadNextKeepsDInv
DEF Next, Step

LEMMA InitIsDInv == ASSUME Init PROVE DInv
<1>1. /\ file \in Files /\ pos = 1 /\ want = <<>> /\ list = <<>> /\ link = Unset
      /\ dirs = Unset /\ exif = Unset /\ mnote = Unset
      /\ sub = [i \in 1 .. MaxDirs |-> Unset]
      /\ todo = [dir |-> 0, at |-> <<>>] /\ got = NoCall /\ reading = Idle
  BY DEF Init
<1>2. TypeOK
  BY <1>1, TiffDirsAssumption DEF TypeOK, Wants, Readings
<1>3. ReadingOK
  BY <1>1 DEF ReadingOK, EntriesAreInPlace, Idle
<1>4. /\ DirsGoOn /\ ExifGoesOn /\ MnoteGoesOn /\ SubsGoOn /\ CallGoesOn
      /\ NothingElseGoesOn
  BY <1>1
  DEF DirsGoOn, ExifGoesOn, MnoteGoesOn, SubsGoOn, CallGoesOn, NothingElseGoesOn, For
<1>5. DirsAreTheChain /\ PointersAreFollowed
  BY <1>1 DEF DirsAreTheChain, PointersAreFollowed
<1>6. QED
  BY <1>2, <1>3, <1>4, <1>5 DEF DInv

-----------------------------------------------------------------------------
(* Container and Dir: what is kept, what is being read and what it will    *)
(* come to agree with the file in every state (tiff/container.rs,          *)
(* tiff/dir.rs).                                                           *)
THEOREM DirsInvariance == Spec => []DInv
<1>1. QED
  BY InitIsDInv, NextKeepsDInv, PTL DEF Spec

(* tiff/container.rs, dirs(): the chain that is kept is the one in the     *)
(* file, for every file and every use of the io between the calls.         *)
THEOREM ChainsAreTheFiles == Spec => []DirsAreTheChain
<1>1. DInv => DirsAreTheChain
  BY DEF DInv
<1>2. QED
  BY <1>1, DirsInvariance, PTL

(* tiff/dir.rs, get_exif_ifd, get_mnote_ifd, get_sub_ifds,                 *)
(* get_gpsinfo_ifd, ifd_in_entry: what they return, now or from a cell, is *)
(* where the pointers lead, in whatever order they are first asked for.    *)
THEOREM PointersLeadThere == Spec => []PointersAreFollowed
<1>1. DInv => PointersAreFollowed
  BY DEF DInv
<1>2. QED
  BY <1>1, DirsInvariance, PTL

(* tiff/dir.rs, Dir::read: data elsewhere in the file, or data that is not *)
(* there, never makes it lose its place among the entries.                 *)
THEOREM EntriesKeepTheirPlace == Spec => []EntriesAreInPlace
<1>1. DInv => EntriesAreInPlace
  BY DEF DInv, ReadingOK
<1>2. QED
  BY <1>1, DirsInvariance, PTL
=============================================================================
