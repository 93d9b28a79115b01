------------------------------ MODULE TiffDirs ------------------------------
(***************************************************************************)
(* src/src/tiff/container.rs and src/src/tiff/dir.rs: the directories of a *)
(* TIFF file, read when they are first asked for.  dirs() follows the      *)
(* chain of IFDs; exif_dir(), mnote_dir() and get_sub_ifds() follow the    *)
(* pointers the entries hold; each result stays in a OnceCell, so what is  *)
(* read on the first call is what every later caller gets.                 *)
(*                                                                         *)
(* All of them read through one View whose cursor other containers move    *)
(* (module ViewIo).  An entry whose data is elsewhere in the file moves it *)
(* as well, in the middle of a directory.  One step here is one visit of   *)
(* the io: the header, one entry with its data, the link to the next IFD.  *)
(*                                                                         *)
(* A file is made of words.  Word 0 is the magic, word 1 is where the      *)
(* first IFD is; an IFD is the count of its entries, two words for each    *)
(* (what it is, its value) and the link to the next IFD, 0 for none.  The  *)
(* header of a maker note is the number of one of Headers, or none.        *)
(***************************************************************************)
EXTENDS MakerNotes, Sequences, FiniteSets

CONSTANTS Size,         \* the number of words of a file
          Files,        \* the files opened
          DirMap,       \* Container.dir_map: the types of the first IFDs
          RawTypes,     \* Container.raw_type, by the magic
          Headers,      \* what maker notes begin with
          ParseSubIfd,  \* LoaderFixup::parse_subifd
          Strays,       \* where other containers leave the cursor
          MaxCount,     \* the largest i16
          MaxDirs,      \* bound: how many directories of a chain are kept
          Unset,        \* a OnceCell before its first use
          Nothing       \* no directory: Option::None, Result::Err

ASSUME TiffDirsAssumption ==
  /\ Size \in Nat \ {0}
  /\ Files \subseteq [0 .. Size - 1 -> Nat]
  /\ DirMap \in Seq({"Main", "Raw", "MakerNote"})
  /\ \A f \in Files : f[0] \in DOMAIN RawTypes
  /\ ParseSubIfd \in BOOLEAN
  /\ Strays \subseteq 0 .. Size
  /\ MaxCount \in Nat
  /\ MaxDirs \in Nat /\ MaxDirs > Len(DirMap)
  /\ Unset \notin Nat

VARIABLES file,     \* what was opened
          pos,      \* the cursor, relative to the View
          dirs,     \* Container.dirs, OnceCell
          exif,     \* Container.exif_ifd, OnceCell
          mnote,    \* Container.mnote_ifd, OnceCell
          sub,      \* Dir.sub_ifds of each directory of the chain, OnceCell
          want,     \* the cells being initialised, the innermost first
          list,     \* dirs() and get_sub_ifds(): the directories read so far
          link,     \* dirs(): dir_offset, where the next directory is
          todo,     \* get_sub_ifds(): the directory, the offsets left to read
          got,      \* get_gpsinfo_ifd(), ifd_in_entry(): what the last call is for, and returned
          reading   \* Dir::read in progress

cells == <<dirs, exif, mnote, sub>>
walk == <<list, link, todo, got>>
vars == <<file, pos, dirs, exif, mnote, sub, want, list, link, todo, got, reading>>

Idle == [stage |-> "idle"]
NoCall == [of |-> "none"]

Init ==
  /\ file \in Files
  /\ pos = 1                        \* load() has read the magic
  /\ dirs = Unset /\ exif = Unset /\ mnote = Unset
  /\ sub = [i \in 1 .. MaxDirs |-> Unset]
  /\ want = <<>>
  /\ list = <<>> /\ link = Unset /\ todo = [dir |-> 0, at |-> <<>>] /\ got = NoCall
  /\ reading = Idle

-----------------------------------------------------------------------------
(* The entries, and what is done with them.  The value of an entry is in   *)
(* the entry, or n words of data elsewhere.                                *)
Kind(word) == CASE word = 1 -> [tag |-> "exif", n |-> 0]
                [] word = 2 -> [tag |-> "mnote", n |-> 1]
                [] word = 3 -> [tag |-> "subs", n |-> 0]
                [] word = 4 -> [tag |-> "subs", n |-> 2]
                [] word = 5 -> [tag |-> "gps", n |-> 0]
                [] OTHER -> [tag |-> "plain", n |-> 0]

Tag == {"exif", "mnote", "subs", "gps", "plain"}

(* Entry::load_data_impl: is the data inside the View?                     *)
Fits(at, n) == at <= Size /\ n <= Size - at

(* Entry::load_data: the data in the file f, from its offset and the base  *)
(* of the IFD.  Undefined data (a maker note) also keeps its offset, which *)
(* is what is asked of it.  When it fails the entry gets the type Error.   *)
Value(f, k, word, base) ==
  CASE k.n = 0 -> <<word>>
    [] k.n > 0 /\ ~ Fits(base + word, k.n) -> Nothing
    [] k.tag = "mnote" /\ Fits(base + word, k.n) -> <<word>>
    [] OTHER -> [j \in 1 .. k.n |-> f[base + word + j - 1]]

NoEntries == [t \in Tag |-> Nothing]

(* What a directory holds under a tag.                                     *)
Entry(dir, t) == IF dir = Nothing THEN Nothing ELSE dir.entries[t]

-----------------------------------------------------------------------------
(* The calls.  A value that is there is returned without a step.           *)
Ask(cell) ==
  /\ want = <<>>
  /\ want' = <<cell>>
  /\ got' = NoCall
  /\ UNCHANGED <<file, pos, cells, list, link, todo, reading>>

AskDirs == dirs = Unset /\ Ask("dirs")
AskExif == exif = Unset /\ Ask("exif")
AskMnote == mnote = Unset /\ Ask("mnote")

(* get_sub_ifds(): the offsets in the entry.                               *)
SubOffsets(d) ==
  LET e == Entry(d, "subs") IN IF e = Nothing \/ ~ ParseSubIfd THEN <<>> ELSE e

(* get_sub_ifds() is a method of a Dir, so its chain has been read.        *)
AskSubs(i) ==
  /\ want = <<>>
  /\ dirs # Unset
  /\ i \in DOMAIN dirs
  /\ sub[i] = Unset
  /\ want' = <<"sub">>
  /\ list' = <<>>
  /\ todo' = [dir |-> i,
              at |-> SubOffsets(dirs[i])]
  /\ got' = NoCall
  /\ UNCHANGED <<file, pos, cells, link, reading>>

(* Another container uses the io between two calls.                        *)
Stray ==
  /\ want = <<>>
  /\ pos' \in Strays
  /\ UNCHANGED <<file, cells, want, walk, reading>>

(* The innermost cell wanted, when nothing is being read for it.           *)
Wanted(cell) == want # <<>> /\ Head(want) = cell /\ reading = Idle

(* exif_dir() uses directory(0), mnote_dir() uses exif_dir().              *)
Need(cell, first) ==
  /\ Wanted(cell)
  /\ want' = <<first>> \o want
  /\ UNCHANGED <<file, pos, cells, walk, reading>>

NeedDirs == dirs = Unset /\ Need("exif", "dirs")
NeedExif == exif = Unset /\ Need("mnote", "exif")

-----------------------------------------------------------------------------
(* Dir::read at a place, or Dir::create_maker_note.                        *)
Read(at, base) ==
  reading' = [stage |-> "count", at |-> at, base |-> base]

RawType(f) == RawTypes[f[0]]

ReadNote(at) ==
  IF RawType(file) \in CanonTypes THEN Read(at, 0)
  ELSE reading' = [stage |-> "maker", at |-> at]

(* get_gpsinfo_ifd() and ifd_in_entry() are methods of a Dir and keep      *)
(* nothing: they read each time.  A number in an entry is relative to the  *)
(* base of its directory; of undefined data the offset is used as it is.   *)
AskFor(of, dir, at) ==
  /\ want = <<>>
  /\ want' = <<of>>
  /\ got' = [of |-> of, dir |-> dir, at |-> at, ifd |-> Unset]
  /\ Read(at, dir.base)
  /\ UNCHANGED <<file, pos, cells, list, link, todo>>

AskGps ==
  /\ dirs # Unset
  /\ \E i \in DOMAIN dirs :
       LET e == Entry(dirs[i], "gps") IN e # Nothing /\ AskFor("gps", dirs[i], e[1])

AskEntry ==
  \E dir \in {exif, mnote} \ {Unset, Nothing} :
    \/ LET e == Entry(dir, "subs") IN
         e # Nothing /\ AskFor("entry", dir, e[1] + dir.base)
    \/ LET e == Entry(dir, "mnote") IN e # Nothing /\ AskFor("entry", dir, e[1])

(* dirs(): where the first directory is, the directory at the link, and    *)
(* the end of the chain.                                                   *)
FirstDirWhereItIs ==             \* mutant: it forgets to seek
  /\ Wanted("dirs")
  /\ link = Unset
  /\ list' = <<>>
  /\ link' = IF Size > pos THEN file[pos] ELSE 0
  /\ pos' = IF Size > pos THEN pos + 1 ELSE pos
  /\ UNCHANGED <<file, cells, want, todo, got, reading>>

FirstDir ==
  /\ Wanted("dirs")
  /\ link = Unset
  /\ list' = <<>>
  /\ link' = IF Size > 1 THEN file[1] ELSE 0
  /\ pos' = IF Size > 1 THEN 2 ELSE 1
  /\ UNCHANGED <<file, cells, want, todo, got, reading>>

NextDir ==
  /\ Wanted("dirs")
  /\ link \notin {Unset, 0}
  /\ IF Len(list) < Len(DirMap) /\ DirMap[Len(list) + 1] = "MakerNote"
       THEN ReadNote(link)
       ELSE Read(link, 0)
  /\ UNCHANGED <<file, pos, cells, want, walk>>

SetDirs ==
  /\ dirs' = list
  /\ want' = Tail(want)
  /\ link' = Unset
  /\ UNCHANGED <<exif, mnote, sub, list, todo, got>>

LastDir ==
  /\ Wanted("dirs")
  /\ link = 0
  /\ SetDirs
  /\ UNCHANGED <<file, pos, reading>>

(* exif_dir() and mnote_dir(): what becomes of the cell.                   *)
SetExif(d) == /\ exif' = d
              /\ want' = Tail(want)
              /\ UNCHANGED <<dirs, mnote, sub, walk>>

SetMnote(d) == /\ mnote' = d
               /\ want' = Tail(want)
               /\ UNCHANGED <<dirs, exif, sub, walk>>

Directory0 == IF dirs = <<>> THEN Nothing ELSE dirs[1]

FindExif ==
  /\ Wanted("exif")
  /\ dirs # Unset
  /\ LET e == Entry(Directory0, "exif") IN
       \/ /\ e = Nothing
          /\ SetExif(Nothing)
          /\ UNCHANGED reading
       \/ /\ e # Nothing
          /\ Read(e[1], Directory0.base)
          /\ UNCHANGED <<cells, want, walk>>
  /\ UNCHANGED <<file, pos>>

FindMnote ==
  /\ Wanted("mnote")
  /\ exif # Unset
  /\ LET e == Entry(exif, "mnote") IN
       \/ /\ e = Nothing
          /\ SetMnote(Nothing)
          /\ UNCHANGED reading
       \/ /\ e # Nothing
          /\ ReadNote(e[1])
          /\ UNCHANGED <<cells, want, walk>>
  /\ UNCHANGED <<file, pos>>

(* get_sub_ifds(): the next offset, and the end of the list.               *)
NextSubOrNone ==                 \* mutant: an offset of 0 is never skipped
  /\ Wanted("sub")
  /\ todo.at # <<>>
  /\ IF Head(todo.at) = 0 THEN UNCHANGED <<todo, reading>>
     ELSE /\ todo' = [todo EXCEPT !.at = Tail(@)]
          /\ Read(Head(todo.at), dirs[todo.dir].base)
  /\ UNCHANGED <<file, pos, cells, want, list, link, got>>

NextSub ==
  /\ Wanted("sub")
  /\ todo.at # <<>>
  /\ todo' = [todo EXCEPT !.at = Tail(@)]
  /\ IF Head(todo.at) = 0 THEN UNCHANGED reading
     ELSE Read(Head(todo.at), dirs[todo.dir].base)
  /\ UNCHANGED <<file, pos, cells, want, list, link, got>>

LastSub ==
  /\ Wanted("sub")
  /\ todo.at = <<>>
  /\ sub' = [sub EXCEPT ![todo.dir] = list]
  /\ want' = Tail(want)
  /\ UNCHANGED <<file, pos, dirs, exif, mnote, walk, reading>>

-----------------------------------------------------------------------------
(* What becomes of the directory read for the innermost cell, d, or of the *)
(* failure to read it.  A chain ends at the directory that cannot be read; *)
(* a list of sub IFDs goes on without it.                                  *)
Kept(d) == IF Len(list) < MaxDirs THEN Append(list, d) ELSE list

Done(d) ==
  /\ reading' = Idle
  /\ \/ /\ Head(want) = "dirs"
        /\ \/ d = Nothing /\ SetDirs
           \/ /\ d # Nothing
              /\ list' = Kept(d)
              /\ link' = d.next
              /\ UNCHANGED <<cells, want, todo, got>>
     \/ Head(want) = "exif" /\ SetExif(d)
     \/ Head(want) = "mnote" /\ SetMnote(d)
     \/ /\ Head(want) = "sub"
        /\ list' = IF d = Nothing THEN list ELSE Append(list, d)
        /\ UNCHANGED <<cells, want, link, todo, got>>
     \/ /\ Head(want) \in {"gps", "entry"}
        /\ want' = Tail(want)
        /\ got' = [got EXCEPT !.ifd = d]
        /\ UNCHANGED <<cells, list, link, todo>>

Stage(s) == want # <<>> /\ reading.stage = s

(* Bytes of a header, in words; no other word is known as a header.        *)
Words(bytes) == IF bytes > 16 THEN 2 ELSE IF bytes > 0 THEN 1 ELSE 0

Header(word) ==
  IF word \in DOMAIN Headers THEN Headers[word]
  ELSE [name |-> "", bytes |-> <<1, 1, 1>>, mlt0 |-> FALSE]

Maker(f, at) == create_maker_note(RawType(f), Header(f[at]))

NoteBaseOfFile(f, at) == 0          \* mutant: no offset is relative to the note

NoteBase(f, at) ==
  IF Maker(f, at).base = InFile THEN 0 ELSE at + Words(Maker(f, at).base)

(* create_maker_note: the header is read, and says where the IFD is and    *)
(* what the offsets in it are relative to.                                 *)
ReadMaker ==
  /\ Stage("maker")
  /\ UNCHANGED file
  /\ LET at == reading.at IN
       \/ /\ ~ Fits(at, 1)
          /\ Done(Nothing)
          /\ pos' = IF at <= Size THEN Size ELSE pos
       \/ /\ Fits(at, 1)
          /\ pos' = at + 1
          /\ \/ Maker(file, at) = Refused /\ Done(Nothing)
             \/ /\ Maker(file, at) # Refused
                /\ Read(at + Words(Maker(file, at).skip), NoteBase(file, at))
                /\ UNCHANGED <<cells, want, walk>>

(* The number of entries is an i16: no entry is read of a negative one.    *)
EntryCount(word) == IF word <= MaxCount THEN word ELSE 0

(* Dir::read: the number of entries.                                       *)
ReadCount ==
  /\ Stage("count")
  /\ UNCHANGED file
  /\ LET at == reading.at IN
       \/ /\ ~ Fits(at, 1)
          /\ Done(Nothing)
          /\ pos' = IF at <= Size THEN at ELSE pos
       \/ /\ Fits(at, 1)
          /\ pos' = at + 1
          /\ reading' = [stage |-> "entries", at |-> at, base |-> reading.base,
                         left |-> EntryCount(file[at]), entries |-> NoEntries]
          /\ UNCHANGED <<cells, want, walk>>

ReadEntryAndStay ==              \* mutant: the cursor stays behind the data
  /\ Stage("entries")
  /\ reading.left > 0
  /\ UNCHANGED file
  /\ \/ /\ ~ Fits(pos, 2)
        /\ Done(Nothing)
        /\ pos' = Size
     \/ /\ Fits(pos, 2)
        /\ LET k == Kind(file[pos])
               data == reading.base + file[pos + 1] IN
             /\ reading' = [reading EXCEPT
                  !.left = @ - 1,
                  !.entries[k.tag] = Value(file, k, file[pos + 1], reading.base)]
             /\ pos' = IF k.n > 0 /\ Fits(data, k.n) THEN data + k.n ELSE pos + 2
        /\ UNCHANGED <<cells, want, walk>>

(* Dir::read: one entry.  The data of an entry may take the cursor         *)
(* anywhere, it is put back behind the entry, be the data read or not.     *)
ReadEntry ==
  /\ Stage("entries")
  /\ reading.left > 0
  /\ UNCHANGED file
  /\ \/ /\ ~ Fits(pos, 2)
        /\ Done(Nothing)
        /\ pos' = Size
     \/ /\ Fits(pos, 2)
        /\ LET k == Kind(file[pos]) IN
             reading' = [reading EXCEPT
               !.left = @ - 1,
               !.entries[k.tag] = Value(file, k, file[pos + 1], reading.base)]
        /\ pos' = pos + 2
        /\ UNCHANGED <<cells, want, walk>>

(* Dir::read: the link to the next directory.                              *)
ReadNext ==
  /\ Stage("entries")
  /\ reading.left = 0
  /\ UNCHANGED file
  /\ \/ /\ ~ Fits(pos, 1)
        /\ Done(Nothing)
        /\ pos' = pos
     \/ /\ Fits(pos, 1)
        /\ Done([at |-> reading.at, base |-> reading.base,
                 entries |-> reading.entries, next |-> file[pos]])
        /\ pos' = pos + 1

Call == AskDirs \/ AskExif \/ AskMnote \/ AskGps \/ AskEntry \/ \E i \in 1 .. MaxDirs : AskSubs(i)

Step == \/ NeedDirs \/ NeedExif
        \/ FirstDir \/ NextDir \/ LastDir
        \/ FindExif \/ FindMnote \/ NextSub \/ LastSub
        \/ ReadMaker \/ ReadCount \/ ReadEntry \/ ReadNext

Next == Call \/ Stray \/ Step

(* A call runs until it returns, no call has to be made.                   *)
Spec == Init /\ [][Next]_vars /\ WF_vars(Step)

-----------------------------------------------------------------------------
(* What the file f holds, read without a cursor: the words of the i-th     *)
(* entry, and under each tag the last of the first n entries.              *)
EntryWord(at, i) == at + 2 * i - 1

Tagged(f, at, n, t) == {i \in 1 .. n : Kind(f[EntryWord(at, i)]).tag = t}

LastOf(S) == CHOOSE i \in S : \A j \in S : j <= i

EntriesOf(f, at, base, n) ==
  [t \in Tag |->
     IF Tagged(f, at, n, t) = {} THEN Nothing
     ELSE LET w == EntryWord(at, LastOf(Tagged(f, at, n, t)))
          IN Value(f, Kind(f[w]), f[w + 1], base)]

DirAt(f, at, base) ==
  LET n == EntryCount(f[at]) IN
  IF ~ Fits(at, 1) \/ ~ Fits(at, 2 * n + 2) THEN Nothing
  ELSE [at |-> at, base |-> base, entries |-> EntriesOf(f, at, base, n),
        next |-> f[at + 1 + 2 * n]]

NoteAt(f, at) ==
  IF RawType(f) \in CanonTypes THEN DirAt(f, at, 0)
  ELSE IF ~ Fits(at, 1) \/ Maker(f, at) = Refused THEN Nothing
  ELSE DirAt(f, at + Words(Maker(f, at).skip),
             IF Maker(f, at).base = InFile THEN 0 ELSE at + Words(Maker(f, at).base))

(* The i-th directory of a chain, at a link to it.                         *)
Chained(f, i, at) ==
  IF i <= Len(DirMap) /\ DirMap[i] = "MakerNote" THEN NoteAt(f, at)
                                                 ELSE DirAt(f, at, 0)

(* The link to the i-th directory, after those before it.                  *)
LinkTo(f, chain, i) ==
  IF i = 1 THEN (IF Size > 1 THEN f[1] ELSE 0) ELSE chain[i - 1].next

IsChained(f, chain) ==
  \A i \in 1 .. Len(chain) :
    /\ LinkTo(f, chain, i) # 0
    /\ chain[i] = Chained(f, i, LinkTo(f, chain, i))
    /\ chain[i] # Nothing

(* No directory follows: there is no link, or it leads to none.            *)
IsWhole(f, chain) ==
  LET n == Len(chain) + 1 IN
    LinkTo(f, chain, n) = 0 \/ Chained(f, n, LinkTo(f, chain, n)) = Nothing

(* The directories that pointers of the directory d lead to.               *)
ExifOf(f, d) ==
  LET e == Entry(d, "exif") IN IF e = Nothing THEN Nothing ELSE DirAt(f, e[1], d.base)

NoteOf(f, d) ==
  LET e == Entry(d, "mnote") IN IF e = Nothing THEN Nothing ELSE NoteAt(f, e[1])

(* Of the first n offsets of d, those of a directory; and l is the list of *)
(* these directories.                                                      *)
SubsAt(f, d, n) ==
  {j \in 1 .. n : SubOffsets(d)[j] # 0 /\ DirAt(f, SubOffsets(d)[j], d.base) # Nothing}

AreSubs(f, l, d, n) ==
  /\ Len(l) = Cardinality(SubsAt(f, d, n))
  /\ \A j \in SubsAt(f, d, n) :
       l[Cardinality(SubsAt(f, d, j))] = DirAt(f, SubOffsets(d)[j], d.base)

(* The chain of the file ends within the bound.                            *)
ChainDir[i \in 1 .. MaxDirs] ==
  LET at == IF i = 1 THEN (IF Size > 1 THEN file[1] ELSE 0)
            ELSE IF ChainDir[i - 1] = Nothing THEN 0
            ELSE ChainDir[i - 1].next
  IN IF at = 0 THEN Nothing ELSE Chained(file, i, at)

Ends == ChainDir[MaxDirs] = Nothing

-----------------------------------------------------------------------------
Directory == [at : Nat, base : Nat, next : Nat,
              entries : [Tag -> {Nothing} \cup (Seq(Nat) \ {<<>>})]]

Wants == {<<>>, <<"dirs">>, <<"exif">>, <<"mnote">>, <<"sub">>, <<"gps">>, <<"entry">>,
          <<"dirs", "exif">>, <<"exif", "mnote">>, <<"dirs", "exif", "mnote">>}

Readings == {Idle}
            \cup [stage : {"maker"}, at : Nat]
            \cup [stage : {"count"}, at : Nat, base : Nat]
            \cup [stage : {"entries"}, at : 0 .. Size - 1, base : Nat, left : Nat,
                  entries : [Tag -> {Nothing} \cup (Seq(Nat) \ {<<>>})]]

(* The cells, one type for each; the calls that wait for one another; the  *)
(* place of the cursor.                                                    *)
TypeOK ==
  /\ file \in [0 .. Size - 1 -> Nat]
  /\ pos \in 0 .. Size
  /\ dirs = Unset \/ dirs \in Seq(Directory)
  /\ exif \in {Unset, Nothing} \cup Directory
  /\ mnote \in {Unset, Nothing} \cup Directory
  /\ sub = [i \in 1 .. MaxDirs |-> sub[i]]
  /\ want \in Wants
  /\ list \in Seq(Directory)
  /\ link \in {Unset} \cup Nat
  /\ todo \in [dir : Nat, at : Seq(Nat)]
  /\ got \in {NoCall} \cup [of : {"gps", "entry"}, dir : Directory, at : Nat,
                            ifd : {Unset, Nothing} \cup Directory]
  /\ reading \in Readings

(* The chain dirs() keeps is the one in the file, whatever the cursor was  *)
(* when it was first asked for, wherever the data of the entries took it,  *)
(* and however many of the entries are broken: each directory is the one   *)
(* its link leads to, and the chain goes on while there is one             *)
(* (tiff/container.rs, dirs(); tiff/dir.rs, Dir::read).                    *)
DirsAreTheChain ==
  dirs # Unset => /\ IsChained(file, dirs)
                  /\ IsWhole(file, dirs) \/ Len(dirs) = MaxDirs

(* The directories found through pointers are those the pointers lead to,  *)
(* in whatever order the three are first asked for: the bases of the       *)
(* makers' notes and the failures included; and so are those that are not  *)
(* kept, each time they are asked for (get_exif_ifd, get_mnote_ifd,        *)
(* get_sub_ifds, get_gpsinfo_ifd, ifd_in_entry).                           *)
PointersAreFollowed ==
  /\ exif # Unset => dirs # Unset /\ exif = ExifOf(file, Directory0)
  /\ mnote # Unset => exif # Unset /\ mnote = NoteOf(file, exif)
  /\ \A i \in 1 .. MaxDirs : sub[i] # Unset =>
       /\ dirs # Unset /\ i \in DOMAIN dirs
       /\ AreSubs(file, sub[i], dirs[i], Len(SubOffsets(dirs[i])))
  /\ (got # NoCall /\ want = <<>>) => got.ifd = DirAt(file, got.at, got.dir.base)

(* While the entries are read, the cursor is on the next one and those     *)
(* before it were read: what an entry with data elsewhere does to the      *)
(* cursor is undone, whether the data could be read or not (tiff/dir.rs,   *)
(* Dir::read: stream_position before, seek after load_data, and only then  *)
(* the test of its result).                                                *)
EntriesAreInPlace ==
  reading.stage = "entries" =>
    LET at == reading.at
        n == EntryCount(file[at]) - reading.left
    IN /\ at \in DOMAIN file
       /\ reading.left <= EntryCount(file[at])
       /\ pos = at + 1 + 2 * n
       /\ reading.entries = EntriesOf(file, at, reading.base, n)

(* Every call on a file whose chain ends returns (tiff/container.rs,       *)
(* dirs(): the loop ends at a link of 0 or at a broken directory).         *)
CallsReturn == Ends => (want # <<>> ~> want = <<>>)

(* tiff/container.rs, dirs(): "We should be ok to deal with this. ARW for  *)
(* DSLR-A550 and NEX-3 do that", said of a link that goes backwards.       *)
BackwardLinksAreDealtWith == want # <<>> ~> want = <<>>
=============================================================================
