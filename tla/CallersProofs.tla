--------------------------- MODULE CallersProofs ---------------------------
(***************************************************************************)
(* Theorems about what the callers of the library do (the parts of         *)
(* MCCallers).  Handles: a caller that keeps to the headers of the C API   *)
(* only reads live memory and leaks no file, and an iterator gives every   *)
(* entry once and in order, for every set of files, every size of the heap *)
(* and boxes released in every order.  EntryValues: what an entry gives is *)
(* its own, for every type and count.  Identify: what a file is opened as, *)
(* for every file and every short read.                                    *)
(***************************************************************************)
EXTENDS Handles, EntryValues, Identify, FiniteSetTheorems, WellFoundedInduction, TLAPS

(* What each kind of box has.                                              *)
IsIterator(o) ==
  /\ o.kind = "iterator"
  /\ o = [kind |-> "iterator", file |-> o.file, stack |-> o.stack,
          item |-> o.item, inner |-> o.inner]
  /\ o.file \in Files

IsObject(o) ==
  \/ o = Free
  \/ \E k \in Kinds \ {"rawfile"} : o = [kind |-> k]
  \/ \E f \in Files : o = [kind |-> "rawfile", file |-> f]
  \/ IsIterator(o)

BoxesOK ==
  /\ boxes = [b \in Boxes |-> boxes[b]]
  /\ \A b \in Boxes : IsObject(boxes[b])

(* The reference count is the number of handles and iterators.             *)
Keepers(f) == {b \in Boxes : Keeps(b, f)}

FilesAreCounted ==
  /\ strong = [f \in Files |-> strong[f]]
  /\ \A f \in Files : strong[f] = Cardinality(Keepers(f))

(* The owner of a lent pointer is still there, and keeps what it lent.     *)
OwnerKeeps(p) ==
  /\ p.owner \in Boxes
  /\ \/ p.into = "file" /\ p.at \in Files /\ Keeps(p.owner, p.at)
     \/ p.into = "box" /\ p.at = p.owner /\ boxes[p.owner] # Free
     \/ p.into = "entry" /\ p.at = p.owner /\ Iterator(p.owner)
                         /\ boxes[p.owner].item

OwnersKeep == \A p \in lent : OwnerKeeps(p)

HInv == BoxesOK /\ FilesAreCounted /\ OwnersKeep

-----------------------------------------------------------------------------
LEMMA KeepersAreFinite ==
  ASSUME NEW f
  PROVE  /\ IsFiniteSet(Keepers(f))
         /\ Cardinality(Keepers(f)) \in Nat
         /\ Cardinality(Keepers(f)) = 0 <=> Keepers(f) = {}
<1>1. Keepers(f) \in SUBSET Boxes
  BY DEF Keepers
<1>2. IsFiniteSet(Keepers(f))
  BY <1>1, BoxesAssumption, FS_Subset
<1>3. QED
  BY <1>2, FS_CardinalityType, FS_EmptySet

(* The counts make every lent pointer live: this is the property, from the *)
(* invariant.                                                              *)
LEMMA CountedIsLive == HInv => LentPointersAreLive
<1> SUFFICES ASSUME HInv PROVE LentPointersAreLive
  OBVIOUS
<1>1. ASSUME NEW f \in Files
      PROVE  LiveFile(f) <=> \E b \in Boxes : Keeps(b, f)
  <2>1. strong[f] > 0 <=> Keepers(f) # {}
    BY KeepersAreFinite DEF HInv, FilesAreCounted
  <2>2. QED
    BY <2>1 DEF LiveFile, Keepers
<1>2. ASSUME NEW p \in lent PROVE Live(p)
  <2>1. OwnerKeeps(p)
    BY DEF HInv, OwnersKeep
  <2>2. CASE p.into = "file"
    BY <1>1, <2>1, <2>2 DEF OwnerKeeps, Live
  <2>3. CASE p.into = "box"
    BY <2>1, <2>3 DEF OwnerKeeps, Live
  <2>4. CASE p.into = "entry"
    BY <2>1, <2>4 DEF OwnerKeeps, Live
  <2>5. QED
    BY <2>1, <2>2, <2>3, <2>4 DEF OwnerKeeps
<1>3. QED
  BY <1>1, <1>2 DEF LentPointersAreLive

(* Pointers whose owner a step leaves alone stay as they were.             *)
LEMMA OthersKeep ==
  ASSUME OwnersKeep, NEW b \in Boxes,
         \A c \in Boxes \ {b} : boxes'[c] = boxes[c],
         \A p \in lent' : p \in lent /\ p.owner # b
  PROVE  OwnersKeep'
BY DEF OwnersKeep, OwnerKeeps, Keeps, Iterator

(* A free place of the heap owns nothing.                                  *)
LEMMA FreeOwnsNothing ==
  ASSUME HInv, NEW b \in Boxes, boxes[b] = Free
  PROVE  \A p \in lent : p.owner # b
BY DEF HInv, OwnersKeep, OwnerKeeps, Keeps, Iterator, Free

LEMMA AllocChangesOne ==
  ASSUME HInv, NEW b \in Boxes, NEW o, IsObject(o), Alloc(b, o), UNCHANGED lent
  PROVE  /\ BoxesOK' /\ OwnersKeep'
         /\ boxes[b] = Free /\ boxes'[b] = o
         /\ \A c \in Boxes \ {b} : boxes'[c] = boxes[c]
<1>1. /\ boxes[b] = Free /\ boxes'[b] = o
      /\ boxes' = [c \in Boxes |-> boxes'[c]]
      /\ \A c \in Boxes \ {b} : boxes'[c] = boxes[c]
  BY DEF Alloc, FreeBox, HInv, BoxesOK
<1>2. BoxesOK'
  BY <1>1 DEF HInv, BoxesOK, IsObject, IsIterator
<1>3. OwnersKeep'
  BY <1>1, FreeOwnsNothing, OthersKeep DEF HInv
<1>4. QED
  BY <1>1, <1>2, <1>3

(* A box that has no share of a file changes no count.                     *)
LEMMA AllocKeepsHInv ==
  ASSUME HInv, NEW b \in Boxes, NEW k \in Kinds \ {"rawfile"},
         Alloc(b, [kind |-> k]), UNCHANGED <<strong, lent>>
  PROVE  HInv'
<1> DEFINE o == [kind |-> k]
<1>1. IsObject(o)
  BY DEF IsObject
<1>2. /\ BoxesOK' /\ OwnersKeep'
      /\ boxes[b] = Free /\ boxes'[b] = o
      /\ \A c \in Boxes \ {b} : boxes'[c] = boxes[c]
  BY <1>1, AllocChangesOne
<1>3. o.kind = k /\ k \notin {"rawfile", "iterator"}
  BY DEF Kinds
<1>4. ASSUME NEW f \in Files PROVE Keepers(f)' = Keepers(f)
  BY <1>2, <1>3 DEF Keepers, Keeps, Free
<1>5. FilesAreCounted'
  BY <1>4 DEF FilesAreCounted, HInv
<1>6. QED
  BY <1>2, <1>5 DEF HInv

(* A handle or an iterator on f is one more of those that keep it.         *)
LEMMA ShareKeepsHInv ==
  ASSUME HInv, NEW b \in Boxes, NEW f \in Files, NEW o, IsObject(o),
         o.kind \in {"rawfile", "iterator"}, o.file = f,
         Alloc(b, o), UNCHANGED lent,
         strong' = [strong EXCEPT ![f] = @ + 1]
  PROVE  HInv'
<1>1. /\ BoxesOK' /\ OwnersKeep'
      /\ boxes[b] = Free /\ boxes'[b] = o
      /\ \A c \in Boxes \ {b} : boxes'[c] = boxes[c]
  BY AllocChangesOne
<1>2. Keepers(f)' = Keepers(f) \cup {b} /\ b \notin Keepers(f)
  BY <1>1 DEF Keepers, Keeps, Free
<1>3. ASSUME NEW g \in Files, g # f PROVE Keepers(g)' = Keepers(g)
  BY <1>1, <1>3 DEF Keepers, Keeps, Free
<1>4. Cardinality(Keepers(f)') = Cardinality(Keepers(f)) + 1
  BY <1>2, KeepersAreFinite, FS_AddElement
<1>5. FilesAreCounted'
  BY <1>3, <1>4 DEF HInv, FilesAreCounted
<1>6. QED
  BY <1>1, <1>5 DEF HInv

LEMMA NewKeepsHInv == ASSUME HInv, New PROVE HInv'
<1>1. PICK f \in Files, b \in Boxes :
        /\ strong[f] = 0
        /\ Alloc(b, [kind |-> "rawfile", file |-> f])
        /\ strong' = [strong EXCEPT ![f] = 1]
        /\ UNCHANGED lent
  BY DEF New
<1>2. strong' = [strong EXCEPT ![f] = @ + 1]
  BY <1>1 DEF HInv, FilesAreCounted
<1>3. IsObject([kind |-> "rawfile", file |-> f])
  BY DEF IsObject
<1>4. QED
  BY <1>1, <1>2, <1>3, ShareKeepsHInv

(* capi.rs, or_rawfile_get_metadata_iterator: the clone of the handle is   *)
(* what counts the iterator.                                               *)
LEMMA GetIteratorKeepsHInv == ASSUME HInv, GetIterator PROVE HInv'
<1>1. PICK h \in Boxes, b \in Boxes :
        /\ Handle(h)
        /\ Alloc(b, [kind |-> "iterator", file |-> boxes[h].file, stack |-> <<>>,
                     item |-> FALSE,
                     inner |-> IF Dirs[boxes[h].file] = Unopened
                               THEN Nowhere ELSE OverDirs(0)])
        /\ strong' = [strong EXCEPT ![boxes[h].file] = @ + 1]
        /\ UNCHANGED lent
  BY DEF GetIterator
<1>2. boxes[h].file \in Files
  BY <1>1 DEF Handle, HInv, BoxesOK, IsObject, IsIterator, Free, Kinds
<1>3. PICK o : /\ o = [kind |-> "iterator", file |-> boxes[h].file, stack |-> <<>>,
                       item |-> FALSE,
                       inner |-> IF Dirs[boxes[h].file] = Unopened
                                 THEN Nowhere ELSE OverDirs(0)]
  OBVIOUS
<1>4. IsObject(o) /\ o.kind = "iterator" /\ o.file = boxes[h].file
  BY <1>2, <1>3 DEF IsObject, IsIterator
<1>5. QED
  BY <1>1, <1>2, <1>3, <1>4, ShareKeepsHInv

(* What is lent is what its owner has.                                     *)
LEMMA LendingKeepsHInv ==
  ASSUME HInv, UNCHANGED <<strong, boxes>>, NEW p, OwnerKeeps(p),
         lent' = lent \cup {p}
  PROVE  HInv'
<1>1. BoxesOK'
  BY DEF HInv, BoxesOK, IsObject, IsIterator
<1>2. FilesAreCounted'
  BY DEF HInv, FilesAreCounted, Keepers, Keeps
<1>3. OwnersKeep'
  BY DEF HInv, OwnersKeep, OwnerKeeps, Keeps, Iterator
<1>4. QED
  BY <1>1, <1>2, <1>3 DEF HInv

LEMMA LendKeepsHInv ==
  ASSUME HInv, LendOfFile \/ LendOfBox \/ GetDir \/ GetEntry
  PROVE  HInv'
<1>1. CASE LendOfFile
  <2>1. PICK h \in Boxes :
          /\ Handle(h)
          /\ lent' = lent \cup {[into |-> "file", at |-> boxes[h].file, owner |-> h]}
          /\ UNCHANGED <<strong, boxes, given>>
    BY <1>1 DEF LendOfFile
  <2>2. boxes[h].file \in Files
    BY <2>1 DEF Handle, HInv, BoxesOK, IsObject, IsIterator, Free, Kinds
  <2>3. OwnerKeeps([into |-> "file", at |-> boxes[h].file, owner |-> h])
    BY <2>1, <2>2 DEF OwnerKeeps, Keeps, Handle
  <2>4. QED
    BY <2>1, <2>3, LendingKeepsHInv
<1>2. CASE LendOfBox
  <2>1. PICK b \in Boxes :
          /\ boxes[b].kind \in Kinds \ {"rawfile"}
          /\ lent' = lent \cup {[into |-> "box", at |-> b, owner |-> b]}
          /\ UNCHANGED <<strong, boxes, given>>
    BY <1>2 DEF LendOfBox
  <2>2. boxes[b] # Free
    BY <2>1 DEF Free, Kinds
  <2>3. OwnerKeeps([into |-> "box", at |-> b, owner |-> b])
    BY <2>1, <2>2 DEF OwnerKeeps
  <2>4. QED
    BY <2>1, <2>3, LendingKeepsHInv
<1>3. CASE GetDir
  <2>1. PICK b \in Boxes :
          /\ Iterator(b)
          /\ lent' = lent \cup {[into |-> "file", at |-> boxes[b].file, owner |-> b]}
          /\ UNCHANGED <<strong, boxes, given>>
    BY <1>3 DEF GetDir
  <2>2. boxes[b].file \in Files
    BY <2>1 DEF Iterator, HInv, BoxesOK, IsObject, IsIterator, Free, Kinds
  <2>3. OwnerKeeps([into |-> "file", at |-> boxes[b].file, owner |-> b])
    BY <2>1, <2>2 DEF OwnerKeeps, Keeps, Iterator
  <2>4. QED
    BY <2>1, <2>3, LendingKeepsHInv
<1>4. CASE GetEntry
  <2>1. PICK b \in Boxes :
          /\ Iterator(b) /\ boxes[b].item
          /\ lent' = lent \cup {[into |-> "entry", at |-> b, owner |-> b]}
          /\ UNCHANGED <<strong, boxes, given>>
    BY <1>4 DEF GetEntry
  <2>2. OwnerKeeps([into |-> "entry", at |-> b, owner |-> b])
    BY <2>1 DEF OwnerKeeps
  <2>3. QED
    BY <2>1, <2>2, LendingKeepsHInv
<1>5. QED
  BY <1>1, <1>2, <1>3, <1>4

(* metadata.rs and capi/metadata.rs: a move changes where an iterator is,   *)
(* never what it keeps, and takes back what it lent.                       *)
LEMMA IteratorNextKeepsHInv == ASSUME HInv, IteratorNext PROVE HInv'
<1> DEFINE Moved(b, inner, stack, item) ==
             boxes' = [boxes EXCEPT ![b].inner = inner, ![b].stack = stack,
                                    ![b].item = item]
<1>1. PICK b \in Boxes :
        /\ Iterator(b)
        /\ \E inner, stack, item : Moved(b, inner, stack, item)
        /\ Forget(b)
        /\ UNCHANGED strong
  <2>1. PICK b \in Boxes : \E on :
          /\ Iterator(b)
          /\ \/ Moved(b, [on.inner EXCEPT !.i = @ + 1], on.stack, TRUE)
             \/ Moved(b, on.inner, on.stack, FALSE)
          /\ Forget(b)
          /\ UNCHANGED strong
    BY Zenon DEF IteratorNext
  <2>2. \E inner, stack, item : Moved(b, inner, stack, item)
    BY <2>1
  <2>3. QED
    BY <2>1, <2>2
<1> PICK inner, stack, item : Moved(b, inner, stack, item)
  BY <1>1
<1>2. IsIterator(boxes[b])
  BY <1>1 DEF Iterator, HInv, BoxesOK, IsObject, Free, Kinds
<1>3. /\ boxes' = [c \in Boxes |-> boxes'[c]]
      /\ \A c \in Boxes \ {b} : boxes'[c] = boxes[c]
      /\ boxes'[b] = [kind |-> "iterator", file |-> boxes[b].file, stack |-> stack,
                      item |-> item, inner |-> inner]
  BY <1>1, <1>2 DEF HInv, BoxesOK, IsIterator
<1>4. boxes'[b].kind = "iterator" /\ boxes'[b].file = boxes[b].file
  <2>1. \A x, o : o = [kind |-> "iterator", file |-> x, stack |-> stack,
                      item |-> item, inner |-> inner]
                 => o.kind = "iterator" /\ o.file = x
    OBVIOUS
  <2>2. QED
    BY <1>3, <2>1
<1>5. BoxesOK'
  <2>1. IsIterator(boxes'[b])
    BY <1>2, <1>3 DEF IsIterator
  <2>2. QED
    BY <1>3, <2>1 DEF HInv, BoxesOK, IsObject, IsIterator
<1>6. ASSUME NEW f \in Files PROVE Keepers(f)' = Keepers(f)
  BY <1>1, <1>3, <1>4 DEF Keepers, Keeps, Iterator
<1>7. FilesAreCounted'
  BY <1>1, <1>6 DEF HInv, FilesAreCounted
<1>8. OwnersKeep'
  BY <1>1, <1>3, OthersKeep DEF HInv, Forget
<1>9. QED
  BY <1>5, <1>7, <1>8 DEF HInv

(* A box that goes takes its share of the file and all it lent.            *)
LEMMA ReleaseKeepsHInv == ASSUME HInv, Release PROVE HInv'
<1>1. PICK b \in Boxes :
        /\ boxes[b] # Free
        /\ boxes' = [boxes EXCEPT ![b] = Free]
        /\ strong' = IF boxes[b].kind \in {"rawfile", "iterator"}
                     THEN [strong EXCEPT ![boxes[b].file] = @ - 1] ELSE strong
        /\ Forget(b)
  BY DEF Release
<1>2. /\ boxes' = [c \in Boxes |-> boxes'[c]]
      /\ \A c \in Boxes \ {b} : boxes'[c] = boxes[c]
      /\ boxes'[b] = Free
  BY <1>1 DEF HInv, BoxesOK
<1>3. BoxesOK'
  BY <1>2 DEF HInv, BoxesOK, IsObject, IsIterator
<1>4. OwnersKeep'
  BY <1>1, <1>2, OthersKeep DEF HInv, Forget
<1>5. ASSUME NEW f \in Files, ~Keeps(b, f) PROVE Keepers(f)' = Keepers(f)
  BY <1>2, <1>5 DEF Keepers, Keeps, Free
<1>6. FilesAreCounted'
  <2>1. CASE boxes[b].kind \in {"rawfile", "iterator"}
    <3>1. PICK f \in Files : f = boxes[b].file
      BY <2>1 DEF HInv, BoxesOK, IsObject, IsIterator, Free, Kinds
    <3>2. Keepers(f)' = Keepers(f) \ {b} /\ b \in Keepers(f)
      BY <1>2, <2>1, <3>1 DEF Keepers, Keeps, Free
    <3>3. Cardinality(Keepers(f)') = Cardinality(Keepers(f)) - 1
      BY <3>2, KeepersAreFinite, FS_RemoveElement
    <3>4. ASSUME NEW g \in Files, g # f PROVE Keepers(g)' = Keepers(g)
      BY <1>5, <3>1, <3>4 DEF Keeps
    <3>5. QED
      BY <1>1, <2>1, <3>1, <3>3, <3>4 DEF HInv, FilesAreCounted
  <2>2. CASE boxes[b].kind \notin {"rawfile", "iterator"}
    <3>1. UNCHANGED strong /\ \A f \in Files : Keepers(f)' = Keepers(f)
      BY <1>1, <1>5, <2>2 DEF Keeps
    <3>2. QED
      BY <3>1 DEF HInv, FilesAreCounted
  <2>3. QED
    BY <2>1, <2>2
<1>7. QED
  BY <1>3, <1>4, <1>6 DEF HInv

LEMMA StepKeepsHInv == ASSUME HInv, [HandlesStep]_handleVars PROVE HInv'
<1>1. CASE NewAlone
  BY <1>1, AllocKeepsHInv DEF NewAlone, Kinds
<1>2. CASE GetBox
  BY <1>2, AllocKeepsHInv DEF GetBox
<1>3. CASE UNCHANGED handleVars
  BY <1>3
  DEF handleVars, HInv, BoxesOK, IsObject, IsIterator, FilesAreCounted, Keepers,
      Keeps, OwnersKeep, OwnerKeeps, Iterator
<1>4. QED
  BY <1>1, <1>2, <1>3, NewKeepsHInv, GetIteratorKeepsHInv, LendKeepsHInv,
     IteratorNextKeepsHInv, ReleaseKeepsHInv
  DEF HandlesStep

(* The C API: what counts and lends are agrees in every state.             *)
THEOREM HandlesInvariance == HandlesSpec => []HInv
<1>1. HandlesInit => HInv
  <2> SUFFICES ASSUME HandlesInit PROVE HInv
    OBVIOUS
  <2>1. BoxesOK /\ OwnersKeep
    BY DEF HandlesInit, BoxesOK, IsObject, OwnersKeep
  <2>2. ASSUME NEW f \in Files PROVE Keepers(f) = {}
    BY DEF HandlesInit, Keepers, Keeps, Free
  <2>3. FilesAreCounted
    BY <2>2, FS_EmptySet DEF HandlesInit, FilesAreCounted
  <2>4. QED
    BY <2>1, <2>3 DEF HInv
<1>2. QED
  BY <1>1, StepKeepsHInv, PTL DEF HandlesSpec

(* capi.rs: a caller that does what the headers say never reads memory     *)
(* that was released, and the last release of a file frees it.             *)
THEOREM NoDanglingPointers == HandlesSpec => []LentPointersAreLive
<1>1. QED
  BY HandlesInvariance, CountedIsLive, PTL

-----------------------------------------------------------------------------
(* The iterator of the metadata: what its moves come to.                   *)
Moves(f, it, n, m) == m = [k \in 0 .. n |-> IF k = 0 THEN it ELSE Move(f, m[k - 1])]

(* The least number of a set: how what follows is proved of every number.  *)
LEMMA LeastNumber ==
  ASSUME NEW T, T \subseteq Nat, T # {}
  PROVE  \E k \in T : \A j \in T : k <= j
<1>1. PICK k \in T : \A j \in T : <<j, k>> \notin OpToRel(<, Nat)
  BY WFMin, NatLessThanWellFounded
<1>2. \A j \in T : ~(j < k)
  BY <1>1 DEF OpToRel
<1>3. \A j \in T : k <= j
  BY <1>2
<1>4. QED
  BY <1>3

(* The recursion of Settled has a solution.                                *)
LEMMA MovesExist ==
  ASSUME NEW f, NEW it, NEW last \in Nat
  PROVE  \E m : Moves(f, it, last, m)
<1> DEFINE NoMoves(n) == \A m : ~Moves(f, it, n, m)
           T == {n \in Nat : NoMoves(n)}
<1>1. SUFFICES ASSUME T # {} PROVE FALSE
  BY <1>1
<1>2. PICK n \in T : \A k \in T : n <= k
  BY <1>1, LeastNumber
<1>3. n \in Nat /\ NoMoves(n) /\ \A k \in Nat : k < n => ~NoMoves(k)
  <2> HIDE DEF NoMoves
  <2>1. QED
    BY <1>2
<1>4. n # 0
  <2> DEFINE m == [k \in 0 .. 0 |-> it]
  <2>1. Moves(f, it, 0, m)
    BY DEF Moves
  <2>2. QED
    BY <1>3, <2>1
<1>5. PICK m : Moves(f, it, n - 1, m)
  <2>1. n - 1 \in Nat /\ n - 1 < n
    BY <1>3, <1>4
  <2>2. QED
    BY <1>3, <2>1
<1> DEFINE long == [k \in 0 .. n |-> IF k = n THEN Move(f, m[n - 1]) ELSE m[k]]
<1>6. Moves(f, it, n, long)
  <2>1. \A k \in 0 .. n - 1 : m[k] = IF k = 0 THEN it ELSE Move(f, m[k - 1])
    BY <1>5 DEF Moves
  <2>2. ASSUME NEW k \in 0 .. n
        PROVE  long[k] = IF k = 0 THEN it ELSE Move(f, long[k - 1])
    <3>1. k # 0 => long[k - 1] = m[k - 1]
      BY <1>3, <1>4
    <3>2. CASE k = n
      BY <1>4, <3>1, <3>2
    <3>3. CASE k # n
      BY <1>3, <2>1, <3>1, <3>3
    <3>4. QED
      BY <3>2, <3>3
  <2>3. long = [k \in 0 .. n |-> long[k]]
    OBVIOUS
  <2> HIDE DEF long
  <2>4. [k \in 0 .. n |-> long[k]] = [k \in 0 .. n |-> IF k = 0 THEN it ELSE Move(f, long[k - 1])]
    BY <2>2, Zenon
  <2>5. QED
    BY <2>3, <2>4 DEF Moves
<1>7. QED
  BY <1>3, <1>6

LEMMA SettledIsMoved ==
  ASSUME NEW f, NEW it, Len(Dirs[f]) \in Nat
  PROVE  \E m : Moves(f, it, 2 * Len(Dirs[f]) + 2, m) /\ Settled(f, it) = m[2 * Len(Dirs[f]) + 2]
<1> DEFINE last == 2 * Len(Dirs[f]) + 2
           m == CHOOSE m : m = [k \in 0 .. last |-> IF k = 0 THEN it ELSE Move(f, m[k - 1])]
<1>1. \E a : a = [k \in 0 .. last |-> IF k = 0 THEN it ELSE Move(f, a[k - 1])]
  <2>1. last \in Nat
    OBVIOUS
  <2>2. PICK a : Moves(f, it, last, a)
    BY <2>1, MovesExist
  <2>3. QED
    BY <2>2, Zenon DEF Moves
<1>2. m = [k \in 0 .. last |-> IF k = 0 THEN it ELSE Move(f, m[k - 1])]
  BY <1>1, Zenon
<1>3. Settled(f, it) = m[last]
  BY Zenon DEF Settled
<1>4. QED
  BY <1>2, <1>3, Zenon DEF Moves

-----------------------------------------------------------------------------
(* Where an iterator is: over the directories, or in one of them, whose    *)
(* parent is behind it.                                                    *)
IsPlace(f, n, stack) ==
  \/ \E i \in 0 .. Len(Dirs[f]) : n = OverDirs(i) /\ stack = <<>>
  \/ \E d \in 1 .. Len(Dirs[f]) : \E i \in 0 .. Dirs[f][d] :
       n = [on |-> "dir", i |-> i, dir |-> d] /\ stack = <<OverDirs(d)>>

Behind(n, e) ==
  IF n.on = "dirs" THEN e[1] <= n.i ELSE e[1] < n.dir \/ (e[1] = n.dir /\ e[2] <= n.i)

(* On an entry, or at the very end; and how many moves it may take.        *)
Rested(f, n) == OnEntry(f, n) \/ n = OverDirs(Len(Dirs[f]))

MovesLeft(f, n) ==
  IF n.on = "dirs" THEN 2 * (Len(Dirs[f]) - n.i) ELSE 2 * (Len(Dirs[f]) - n.dir) + 1

SamePlace(f, n, m) == \A e \in EntriesOf(f) : Behind(m, e) <=> Behind(n, e)

LEMMA PlaceIsNumbers ==
  ASSUME NEW f, Dirs[f] \in Seq(Nat), NEW n, NEW stack, IsPlace(f, n, stack)
  PROVE  \/ n.on = "dirs" /\ n.i \in Nat
         \/ n.on = "dir" /\ n.i \in Nat /\ n.dir \in Nat
<1>1. Len(Dirs[f]) \in Nat /\ \A d \in 1 .. Len(Dirs[f]) : Dirs[f][d] \in Nat
  OBVIOUS
<1>2. CASE \E i \in 0 .. Len(Dirs[f]) : n = OverDirs(i)
  BY <1>1, <1>2 DEF OverDirs
<1>3. CASE \E d \in 1 .. Len(Dirs[f]) : \E i \in 0 .. Dirs[f][d] : n = [on |-> "dir", i |-> i, dir |-> d]
  BY <1>1, <1>3
<1>4. QED
  BY <1>2, <1>3 DEF IsPlace

LEMMA LeftIsNatural ==
  ASSUME NEW f, Dirs[f] \in Seq(Nat), NEW n, NEW stack, IsPlace(f, n, stack)
  PROVE  MovesLeft(f, n) \in Nat /\ MovesLeft(f, n) <= 2 * Len(Dirs[f])
<1> DEFINE len == Len(Dirs[f])
<1>1. len \in Nat
  OBVIOUS
<1>2. ASSUME NEW i \in 0 .. len, n = OverDirs(i)
      PROVE  MovesLeft(f, n) = 2 * (len - i)
  BY <1>2 DEF OverDirs, MovesLeft
<1>3. ASSUME NEW d \in 1 .. len, NEW i, n = [on |-> "dir", i |-> i, dir |-> d]
      PROVE  MovesLeft(f, n) = 2 * (len - d) + 1
  BY <1>3 DEF MovesLeft
<1>4. CASE \E i \in 0 .. len : n = OverDirs(i)
  BY <1>1, <1>2, <1>4
<1>5. CASE \E d \in 1 .. len : \E i \in 0 .. Dirs[f][d] : n = [on |-> "dir", i |-> i, dir |-> d]
  BY <1>1, <1>3, <1>5
<1>6. QED
  BY <1>4, <1>5 DEF IsPlace

LEMMA EntriesAreNumbers ==
  ASSUME NEW f, Dirs[f] \in Seq(Nat), NEW e \in EntriesOf(f)
  PROVE  /\ e[1] \in 1 .. Len(Dirs[f]) /\ Dirs[f][e[1]] \in Nat /\ e[2] \in 1 .. Dirs[f][e[1]]
         /\ e = <<e[1], e[2]>>
BY DEF EntriesOf

(* A move changes nothing of what was given.                               *)
LEMMA MoveKeeps ==
  ASSUME NEW f, Dirs[f] \in Seq(Nat), NEW n, NEW stack, IsPlace(f, n, stack),
         NEW it, it = [inner |-> n, stack |-> stack], ~Rested(f, n)
  PROVE  \E m, s : /\ Move(f, it) = [inner |-> m, stack |-> s]
                   /\ IsPlace(f, m, s) /\ SamePlace(f, n, m)
                   /\ MovesLeft(f, m) = MovesLeft(f, n) - 1
<1> DEFINE len == Len(Dirs[f])
<1>1. len \in Nat /\ \A d \in 1 .. len : Dirs[f][d] \in Nat
  OBVIOUS
<1>2. ASSUME NEW i \in 0 .. len, n = OverDirs(i), stack = <<>>
      PROVE  \E m, s : /\ Move(f, it) = [inner |-> m, stack |-> s]
                       /\ IsPlace(f, m, s) /\ SamePlace(f, n, m)
                       /\ MovesLeft(f, m) = MovesLeft(f, n) - 1
  <2>1. i < len /\ n.on = "dirs" /\ n.i = i /\ ~AtEnd(f, n)
    BY <1>1, <1>2 DEF Rested, OverDirs, AtEnd
  <2>2. Move(f, it) = [inner |-> OverDir(i + 1), stack |-> <<OverDirs(i + 1)>>]
    BY <1>2, <2>1 DEF Move, Enter
  <2>3. IsPlace(f, OverDir(i + 1), <<OverDirs(i + 1)>>)
    <3>1. i + 1 \in 1 .. len /\ 0 \in 0 .. Dirs[f][i + 1]
      BY <1>1, <2>1
    <3>2. OverDir(i + 1) = [on |-> "dir", i |-> 0, dir |-> i + 1]
      BY DEF OverDir
    <3>3. QED
      BY <3>1, <3>2 DEF IsPlace
  <2>4. SamePlace(f, n, OverDir(i + 1))
    BY <1>1, <2>1, EntriesAreNumbers DEF SamePlace, Behind, OverDir
  <2>5. MovesLeft(f, OverDir(i + 1)) = MovesLeft(f, n) - 1
    <3>1. OverDir(i + 1).on = "dir" /\ OverDir(i + 1).dir = i + 1
      BY DEF OverDir
    <3>2. /\ MovesLeft(f, n) = 2 * (len - i)
          /\ MovesLeft(f, OverDir(i + 1)) = 2 * (len - (i + 1)) + 1
      BY <2>1, <3>1 DEF MovesLeft
    <3> HIDE DEF len
    <3>3. \A l, k \in Nat : 2 * (l - (k + 1)) + 1 = 2 * (l - k) - 1
      OBVIOUS
    <3>4. i \in Nat /\ len \in Nat
      BY <1>1
    <3>5. QED
      BY <3>2, <3>3, <3>4
  <2>6. QED
    BY <2>2, <2>3, <2>4, <2>5
<1>3. ASSUME NEW d \in 1 .. len, NEW i \in 0 .. Dirs[f][d],
             n = [on |-> "dir", i |-> i, dir |-> d], stack = <<OverDirs(d)>>
      PROVE  \E m, s : /\ Move(f, it) = [inner |-> m, stack |-> s]
                       /\ IsPlace(f, m, s) /\ SamePlace(f, n, m)
                       /\ MovesLeft(f, m) = MovesLeft(f, n) - 1
  <2>1. n.on = "dir" /\ n.dir = d /\ n.i = i /\ AtEnd(f, n) /\ i = Dirs[f][d]
    BY <1>1, <1>3 DEF Rested, OnEntry, AtEnd
  <2>2. Move(f, it) = [inner |-> OverDirs(d), stack |-> <<>>]
    <3>1. stack # <<>> /\ Last(stack) = OverDirs(d) /\ Front(stack) = <<>>
      BY <1>3 DEF Last, Front
    <3>2. QED
      BY <2>1, <3>1 DEF Move
  <2>3. IsPlace(f, OverDirs(d), <<>>)
    BY <1>1 DEF IsPlace
  <2>4. SamePlace(f, n, OverDirs(d))
    BY <1>1, <2>1, EntriesAreNumbers DEF SamePlace, Behind, OverDirs
  <2>5. MovesLeft(f, OverDirs(d)) = MovesLeft(f, n) - 1
    BY <1>1, <2>1 DEF MovesLeft, OverDirs
  <2>6. QED
    BY <2>2, <2>3, <2>4, <2>5
<1>4. QED
  BY <1>2, <1>3 DEF IsPlace

LEMMA RestIsKept ==
  ASSUME NEW f, Dirs[f] \in Seq(Nat), NEW n, NEW stack, IsPlace(f, n, stack),
         NEW it, it = [inner |-> n, stack |-> stack], Rested(f, n)
  PROVE  Move(f, it) = it
<1>1. CASE OnEntry(f, n)
  <2>1. n.on = "dir" /\ ~AtEnd(f, n)
    BY <1>1 DEF OnEntry
  <2>2. QED
    BY <2>1 DEF Move
<1>2. CASE n = OverDirs(Len(Dirs[f]))
  <2>1. n.on = "dirs" /\ AtEnd(f, n) /\ stack = <<>>
    BY <1>2 DEF OverDirs, AtEnd, IsPlace
  <2>2. QED
    BY <2>1 DEF Move
<1>3. QED
  BY <1>1, <1>2 DEF Rested

(* The moves end on an entry, or at the very end, and skip no entry.       *)
LEMMA SettledRests ==
  ASSUME NEW f, Dirs[f] \in Seq(Nat), NEW n, NEW stack, IsPlace(f, n, stack)
  PROVE  \E m, s : /\ Settled(f, [inner |-> n, stack |-> stack]) = [inner |-> m, stack |-> s]
                   /\ IsPlace(f, m, s) /\ SamePlace(f, n, m) /\ Rested(f, m)
<1> DEFINE it == [inner |-> n, stack |-> stack]
           len == Len(Dirs[f])
           last == 2 * len + 2
<1>1. len \in Nat
  OBVIOUS
<1>2. PICK a : Moves(f, it, last, a) /\ Settled(f, it) = a[last]
  BY <1>1, SettledIsMoved
<1> DEFINE Good(k, m, s) == /\ a[k] = [inner |-> m, stack |-> s]
                            /\ IsPlace(f, m, s) /\ SamePlace(f, n, m)
                            /\ Rested(f, m) \/ MovesLeft(f, m) <= 2 * len - k
           AllGood(k) == \E m, s : Good(k, m, s)
           Bad == {k \in 0 .. last : ~AllGood(k)}
<1>3. a[0] = it /\ \A k \in 1 .. last : a[k] = Move(f, a[k - 1])
  <2>1. last \in Nat
    BY <1>1
  <2> HIDE DEF it, last
  <2>2. a = [k \in 0 .. last |-> IF k = 0 THEN it ELSE Move(f, a[k - 1])]
    BY <1>2 DEF Moves
  <2>3. \A k \in 0 .. last : a[k] = IF k = 0 THEN it ELSE Move(f, a[k - 1])
    BY <2>2
  <2>4. QED
    BY <2>1, <2>3
<1>4. Good(0, n, stack)
  <2>1. MovesLeft(f, n) <= 2 * len
    BY LeftIsNatural
  <2>2. QED
    BY <1>1, <1>3, <2>1 DEF SamePlace
<1>5. Bad = {}
  <2> SUFFICES ASSUME Bad # {} PROVE FALSE
    OBVIOUS
  <2>1. last \in Nat /\ Bad \subseteq Nat
    BY <1>1
  <2>2. AllGood(0)
    BY <1>4
  <2> HIDE DEF AllGood
  <2> HIDE DEF last
  <2>3. PICK k \in Bad : \A j \in Bad : k <= j
    BY <2>1, LeastNumber
  <2>4. k \in 1 .. last /\ ~AllGood(k) /\ k - 1 \in 0 .. last
    <3>1. k \in 0 .. last /\ ~AllGood(k)
      BY <2>3
    <3>2. k # 0
      BY <2>2, <3>1
    <3>3. QED
      BY <2>1, <3>1, <3>2
  <2>5. AllGood(k - 1)
    <3>1. k - 1 \notin Bad
      BY <2>1, <2>3, <2>4
    <3>2. QED
      BY <2>4, <3>1
  <2>6. PICK m, s : Good(k - 1, m, s)
    BY <2>5 DEF AllGood
  <2>7. a[k] = Move(f, [inner |-> m, stack |-> s])
    BY <1>3, <2>4, <2>6
  <2>8. CASE Rested(f, m)
    <3>1. a[k] = [inner |-> m, stack |-> s]
      BY <2>6, <2>7, <2>8, RestIsKept
    <3>2. Good(k, m, s)
      BY <2>6, <2>8, <3>1
    <3>3. QED
      BY <2>4, <3>2 DEF AllGood
  <2>9. CASE ~Rested(f, m)
    <3>1. PICK m2, s2 : /\ Move(f, [inner |-> m, stack |-> s]) = [inner |-> m2, stack |-> s2]
                        /\ IsPlace(f, m2, s2) /\ SamePlace(f, m, m2)
                        /\ MovesLeft(f, m2) = MovesLeft(f, m) - 1
      BY <2>6, <2>9, MoveKeeps
    <3>2. MovesLeft(f, m) \in Nat
      BY <2>6, LeftIsNatural
    <3>3. SamePlace(f, n, m2)
      BY <2>6, <3>1 DEF SamePlace
    <3>4. Good(k, m2, s2)
      BY <1>1, <2>4, <2>6, <2>7, <2>9, <3>1, <3>2, <3>3
    <3>5. QED
      BY <2>4, <3>4 DEF AllGood
  <2>10. QED
    BY <2>8, <2>9
<1>6. PICK m, s : Good(last, m, s)
  <2>1. last \in 0 .. last
    BY <1>1
  <2> HIDE DEF last, AllGood
  <2>2. AllGood(last)
    BY <1>5, <2>1
  <2>3. QED
    BY <2>2 DEF AllGood
<1>7. Rested(f, m)
  <2>1. MovesLeft(f, m) \in Nat
    BY <1>6, LeftIsNatural
  <2>2. QED
    BY <1>1, <1>6, <2>1
<1>8. QED
  BY <1>2, <1>6, <1>7

(* What an iterator on f was given: all that is behind it, in order.       *)
GivenIs(f, n, g) ==
  /\ g = [k \in 1 .. Len(g) |-> g[k]] /\ Len(g) \in Nat
  /\ \A k \in 1 .. Len(g) : g[k] \in EntriesOf(f) /\ Behind(n, g[k])
  /\ \A e \in EntriesOf(f) : Behind(n, e) => \E k \in 1 .. Len(g) : g[k] = e
  /\ \A k, m \in 1 .. Len(g) : k < m => Precedes(g[k], g[m])

IteratorOK(f, n, stack, item, g) ==
  IF Dirs[f] = Unopened THEN n = Nowhere
  ELSE /\ IsPlace(f, n, stack)
       /\ GivenIs(f, n, g)
       /\ item => n.on = "dir" /\ Len(g) > 0 /\ g[Len(g)][1] = n.dir
       /\ ~item /\ n # OverDirs(0) => n = OverDirs(Len(Dirs[f]))

BoxOK(o, g) == o.kind = "iterator" => IteratorOK(o.file, o.inner, o.stack, o.item, g)

IteratorsAreInPlace ==
  /\ given = [b \in Boxes |-> given[b]]
  /\ \A b \in Boxes : BoxOK(boxes[b], given[b])

(* A new iterator has given nothing.                                       *)
LEMMA NewIsInPlace ==
  ASSUME NEW f \in Files
  PROVE  IteratorOK(f, IF Dirs[f] = Unopened THEN Nowhere ELSE OverDirs(0), <<>>, FALSE, <<>>)
<1>1. CASE Dirs[f] = Unopened
  BY <1>1 DEF IteratorOK
<1>2. CASE Dirs[f] # Unopened
  <2>1. Dirs[f] \in Seq(Nat)
    BY <1>2, DirsAssumption
  <2>2. Len(Dirs[f]) \in Nat /\ IsPlace(f, OverDirs(0), <<>>)
    BY <2>1 DEF IsPlace
  <2>3. \A e \in EntriesOf(f) : ~Behind(OverDirs(0), e)
    BY <2>1, EntriesAreNumbers DEF Behind, OverDirs
  <2>4. GivenIs(f, OverDirs(0), <<>>)
    BY <2>3 DEF GivenIs
  <2>5. QED
    BY <1>2, <2>2, <2>4 DEF IteratorOK
<1>3. QED
  BY <1>1, <1>2

(* One more entry: the next of the directory the iterator is on.           *)
LEMMA OneMoreIsGiven ==
  ASSUME NEW f, Dirs[f] \in Seq(Nat), NEW n, NEW stack, NEW g,
         Dirs[f] # Unopened, IsPlace(f, n, stack), GivenIs(f, n, g), OnEntry(f, n)
  PROVE  IteratorOK(f, [n EXCEPT !.i = @ + 1], stack, TRUE, Append(g, <<n.dir, n.i + 1>>))
<1> DEFINE e == <<n.dir, n.i + 1>>
           m == [n EXCEPT !.i = @ + 1]
           h == Append(g, e)
<1>1. Len(Dirs[f]) \in Nat /\ \A d \in 1 .. Len(Dirs[f]) : Dirs[f][d] \in Nat
  OBVIOUS
<1>2. /\ n.on = "dir" /\ n.dir \in 1 .. Len(Dirs[f]) /\ n.i \in 0 .. Dirs[f][n.dir]
      /\ n = [on |-> "dir", i |-> n.i, dir |-> n.dir] /\ stack = <<OverDirs(n.dir)>>
  BY <1>1 DEF OnEntry, IsPlace, OverDirs
<1>3. n.i + 1 \in 1 .. Dirs[f][n.dir]
  BY <1>1, <1>2 DEF OnEntry, AtEnd
<1>4. m = [on |-> "dir", i |-> n.i + 1, dir |-> n.dir]
  BY <1>2
<1>5. m.on = "dir" /\ m.i = n.i + 1 /\ m.dir = n.dir
  BY <1>4
<1>6. IsPlace(f, m, stack)
  BY <1>2, <1>3, <1>4 DEF IsPlace
<1>7. e \in EntriesOf(f) /\ e[1] = n.dir /\ e[2] = n.i + 1
  BY <1>2, <1>3 DEF EntriesOf
<1> HIDE DEF m, e
<1>8. \A x \in EntriesOf(f) : Behind(m, x) <=> Behind(n, x) \/ x = e
  <2> SUFFICES ASSUME NEW x \in EntriesOf(f) PROVE Behind(m, x) <=> Behind(n, x) \/ x = e
    OBVIOUS
  <2>1. x[1] \in Nat /\ x[2] \in Nat /\ x = <<x[1], x[2]>> /\ e = <<n.dir, n.i + 1>>
    BY <1>1, EntriesAreNumbers DEF e
  <2>2. x = e <=> x[1] = n.dir /\ x[2] = n.i + 1
    BY <2>1
  <2>3. QED
    BY <1>1, <1>2, <1>5, <2>1, <2>2 DEF Behind
<1>9. \A x \in EntriesOf(f) : Behind(n, x) => Precedes(x, e)
  BY <1>1, <1>2, <1>7, EntriesAreNumbers DEF Behind, Precedes
<1>10. /\ Len(h) = Len(g) + 1 /\ h[Len(h)] = e
       /\ h = [k \in 1 .. Len(h) |-> h[k]]
       /\ \A k \in 1 .. Len(g) : h[k] = g[k]
  <2> DEFINE S == {g[k] : k \in 1 .. Len(g)} \cup {e}
  <2>1. Len(g) \in Nat /\ g = [k \in 1 .. Len(g) |-> g[k]]
    BY DEF GivenIs
  <2>2. g \in Seq(S) /\ e \in S
    BY <2>1
  <2> HIDE DEF S
  <2>3. h \in Seq(S) /\ Len(h) = Len(g) + 1
    BY <2>2
  <2>4. h[Len(g) + 1] = e /\ \A k \in 1 .. Len(g) : h[k] = g[k]
    BY <2>1, <2>2
  <2> HIDE DEF h
  <2>5. h = [k \in 1 .. Len(h) |-> h[k]]
    BY <2>3
  <2>6. QED
    BY <2>3, <2>4, <2>5
<1> HIDE DEF h
<1>11. GivenIs(f, m, h)
  <2>1. Len(g) \in Nat /\ Len(h) \in Nat
    BY <1>10 DEF GivenIs
  <2>2. \A k \in 1 .. Len(h) : k \in 1 .. Len(g) \/ (k = Len(h) /\ h[k] = e)
    BY <1>10, <2>1
  <2>3. \A k \in 1 .. Len(h) : h[k] \in EntriesOf(f) /\ Behind(m, h[k])
    BY <1>7, <1>8, <1>10, <2>2 DEF GivenIs
  <2>4. \A x \in EntriesOf(f) : Behind(m, x) => \E k \in 1 .. Len(h) : h[k] = x
    <3>1. \A k \in 1 .. Len(g) : k \in 1 .. Len(h)
      BY <1>10, <2>1
    <3>2. Len(h) \in 1 .. Len(h)
      BY <1>10, <2>1
    <3>3. QED
      BY <1>8, <1>10, <3>1, <3>2 DEF GivenIs
  <2>5. ASSUME NEW k \in 1 .. Len(h), NEW l \in 1 .. Len(h), k < l
        PROVE  Precedes(h[k], h[l])
    <3>1. k \in 1 .. Len(g) /\ h[k] = g[k]
      BY <1>10, <2>1, <2>5
    <3>2. CASE l \in 1 .. Len(g)
      BY <1>10, <2>5, <3>1, <3>2 DEF GivenIs
    <3>3. CASE l = Len(h)
      BY <1>9, <1>10, <3>1, <3>3 DEF GivenIs
    <3>4. QED
      BY <2>2, <3>2, <3>3
  <2>6. QED
    BY <1>10, <2>1, <2>3, <2>4, <2>5 DEF GivenIs
<1>12. Len(h) > 0
  BY <1>10 DEF GivenIs
<1>13. QED
  BY <1>5, <1>6, <1>7, <1>10, <1>11, <1>12 DEF IteratorOK, m, h, e

(* metadata.rs, next: an entry of where the moves lead, or the end.        *)
LEMMA NextIsInPlace ==
  ASSUME NEW f \in Files, NEW n, NEW stack, NEW item, NEW g, IteratorOK(f, n, stack, item, g),
         NEW on, on = IF n.on = "nowhere" THEN [inner |-> n, stack |-> stack]
                      ELSE Settled(f, [inner |-> n, stack |-> stack])
  PROVE  IF OnEntry(f, on.inner)
         THEN IteratorOK(f, [on.inner EXCEPT !.i = @ + 1], on.stack, TRUE,
                         Append(g, <<on.inner.dir, on.inner.i + 1>>))
         ELSE IteratorOK(f, on.inner, on.stack, FALSE, g)
<1>1. CASE Dirs[f] = Unopened
  <2>1. n = Nowhere /\ n.on = "nowhere"
    BY <1>1 DEF IteratorOK, Nowhere
  <2>2. on.inner = Nowhere /\ ~OnEntry(f, Nowhere)
    BY <2>1 DEF OnEntry, Nowhere
  <2>3. QED
    BY <1>1, <2>2 DEF IteratorOK
<1>2. CASE Dirs[f] # Unopened
  <2>1. Dirs[f] \in Seq(Nat) /\ IsPlace(f, n, stack) /\ GivenIs(f, n, g)
    BY <1>2, DirsAssumption DEF IteratorOK
  <2>2. n.on # "nowhere"
    BY <2>1 DEF IsPlace, OverDirs
  <2>3. PICK m, s : /\ on = [inner |-> m, stack |-> s]
                    /\ IsPlace(f, m, s) /\ SamePlace(f, n, m) /\ Rested(f, m)
    BY <2>1, <2>2, SettledRests
  <2>4. on.inner = m /\ on.stack = s
    BY <2>3
  <2>5. GivenIs(f, m, g)
    BY <2>1, <2>3 DEF GivenIs, SamePlace
  <2>6. CASE OnEntry(f, m)
    BY <1>2, <2>1, <2>3, <2>4, <2>5, <2>6, OneMoreIsGiven
  <2>7. CASE ~OnEntry(f, m)
    <3>1. m = OverDirs(Len(Dirs[f]))
      BY <2>3, <2>7 DEF Rested
    <3>2. QED
      BY <1>2, <2>3, <2>4, <2>5, <2>7, <3>1 DEF IteratorOK
  <2>8. QED
    BY <2>4, <2>6, <2>7
<1>3. QED
  BY <1>1, <1>2

(* A box that is allocated.                                                *)
LEMMA AllocIsInPlace ==
  ASSUME HInv, IteratorsAreInPlace, NEW b \in Boxes, NEW o, Alloc(b, o), BoxOK(o, <<>>)
  PROVE  IteratorsAreInPlace'
<1>1. /\ boxes' = [boxes EXCEPT ![b] = o] /\ given' = [given EXCEPT ![b] = <<>>]
      /\ boxes = [c \in Boxes |-> boxes[c]] /\ given = [c \in Boxes |-> given[c]]
  BY DEF Alloc, HInv, BoxesOK, IteratorsAreInPlace
<1>2. /\ boxes'[b] = o /\ given'[b] = <<>>
      /\ \A c \in Boxes \ {b} : boxes'[c] = boxes[c] /\ given'[c] = given[c]
      /\ given' = [c \in Boxes |-> given'[c]]
  BY <1>1
<1>3. QED
  BY <1>2 DEF IteratorsAreInPlace

LEMMA IteratorNextIsInPlace ==
  ASSUME HInv, IteratorsAreInPlace, IteratorNext PROVE IteratorsAreInPlace'
<1>1. PICK b \in Boxes : \E on :
        /\ Iterator(b)
        /\ on = IF boxes[b].inner.on = "nowhere" THEN [inner |-> boxes[b].inner, stack |-> boxes[b].stack]
                ELSE Settled(boxes[b].file, [inner |-> boxes[b].inner, stack |-> boxes[b].stack])
        /\ IF OnEntry(boxes[b].file, on.inner)
           THEN /\ boxes' = [boxes EXCEPT ![b].inner = [on.inner EXCEPT !.i = @ + 1],
                                          ![b].stack = on.stack, ![b].item = TRUE]
                /\ given' = [given EXCEPT ![b] = Append(@, <<on.inner.dir, on.inner.i + 1>>)]
           ELSE /\ boxes' = [boxes EXCEPT ![b].inner = on.inner, ![b].stack = on.stack,
                                          ![b].item = FALSE]
                /\ given' = given
  BY Zenon DEF IteratorNext
<1> DEFINE o == boxes[b]
<1>2. PICK on :
        /\ on = IF o.inner.on = "nowhere" THEN [inner |-> o.inner, stack |-> o.stack]
                ELSE Settled(o.file, [inner |-> o.inner, stack |-> o.stack])
        /\ IF OnEntry(o.file, on.inner)
           THEN /\ boxes' = [boxes EXCEPT ![b].inner = [on.inner EXCEPT !.i = @ + 1],
                                          ![b].stack = on.stack, ![b].item = TRUE]
                /\ given' = [given EXCEPT ![b] = Append(@, <<on.inner.dir, on.inner.i + 1>>)]
           ELSE /\ boxes' = [boxes EXCEPT ![b].inner = on.inner, ![b].stack = on.stack,
                                          ![b].item = FALSE]
                /\ given' = given
  BY <1>1
<1>3. IsIterator(o) /\ o.file \in Files /\ o.kind = "iterator"
  BY <1>1 DEF Iterator, HInv, BoxesOK, IsObject, IsIterator, Free, Kinds
<1>4. boxes = [c \in Boxes |-> boxes[c]] /\ given = [c \in Boxes |-> given[c]]
  BY DEF HInv, BoxesOK, IteratorsAreInPlace
<1>5. IteratorOK(o.file, o.inner, o.stack, o.item, given[b])
  BY <1>3 DEF IteratorsAreInPlace, BoxOK
<1>6. IF OnEntry(o.file, on.inner)
      THEN IteratorOK(o.file, [on.inner EXCEPT !.i = @ + 1], on.stack, TRUE,
                      Append(given[b], <<on.inner.dir, on.inner.i + 1>>))
      ELSE IteratorOK(o.file, on.inner, on.stack, FALSE, given[b])
  BY <1>2, <1>3, <1>5, NextIsInPlace
<1> DEFINE After(inner, item, g) ==
             /\ boxes' = [boxes EXCEPT ![b].inner = inner, ![b].stack = on.stack, ![b].item = item]
             /\ given' = [given EXCEPT ![b] = g]
             /\ IteratorOK(o.file, inner, on.stack, item, g)
<1>7. PICK inner, item, g : After(inner, item, g)
  <2>1. CASE OnEntry(o.file, on.inner)
    <3>1. After([on.inner EXCEPT !.i = @ + 1], TRUE, Append(given[b], <<on.inner.dir, on.inner.i + 1>>))
      BY <1>2, <1>4, <1>6, <2>1
    <3>2. QED
      BY <3>1
  <2>2. CASE ~OnEntry(o.file, on.inner)
    <3>1. After(on.inner, FALSE, given[b])
      BY <1>2, <1>4, <1>6, <2>2
    <3>2. QED
      BY <3>1
  <2>3. QED
    BY <2>1, <2>2
<1>8. /\ \A c \in Boxes \ {b} : boxes'[c] = boxes[c] /\ given'[c] = given[c]
      /\ given' = [c \in Boxes |-> given'[c]] /\ given'[b] = g
      /\ boxes'[b] = [kind |-> "iterator", file |-> o.file, stack |-> on.stack,
                      item |-> item, inner |-> inner]
  BY <1>3, <1>4, <1>7 DEF IsIterator
<1>9. BoxOK(boxes'[b], given'[b])
  <2>1. /\ boxes'[b].file = o.file /\ boxes'[b].inner = inner
        /\ boxes'[b].stack = on.stack /\ boxes'[b].item = item
    BY <1>8
  <2>2. IteratorOK(o.file, inner, on.stack, item, g)
    BY <1>7
  <2> HIDE DEF o
  <2>3. QED
    BY <1>8, <2>1, <2>2, Zenon DEF BoxOK
<1>10. QED
  BY <1>8, <1>9 DEF IteratorsAreInPlace

LEMMA StepIsInPlace ==
  ASSUME HInv, IteratorsAreInPlace, [HandlesStep]_handleVars PROVE IteratorsAreInPlace'
<1>1. CASE New
  <2>1. PICK f \in Files, b \in Boxes : Alloc(b, [kind |-> "rawfile", file |-> f])
    BY <1>1 DEF New
  <2>2. QED
    BY <2>1, AllocIsInPlace DEF BoxOK
<1>2. CASE NewAlone \/ GetBox
  <2>1. PICK b \in Boxes, k \in Kinds : Alloc(b, [kind |-> k])
    BY <1>2 DEF NewAlone, GetBox, Kinds
  <2>2. [kind |-> k].kind # "iterator"
    BY DEF Kinds
  <2>3. BoxOK([kind |-> k], <<>>)
    BY <2>2 DEF BoxOK
  <2>4. QED
    BY <2>1, <2>3, AllocIsInPlace
<1>3. CASE GetIterator
  <2>1. PICK h \in Boxes, b \in Boxes :
          /\ Handle(h)
          /\ Alloc(b, [kind |-> "iterator", file |-> boxes[h].file, stack |-> <<>>, item |-> FALSE,
                       inner |-> IF Dirs[boxes[h].file] = Unopened THEN Nowhere ELSE OverDirs(0)])
    BY <1>3 DEF GetIterator
  <2>2. boxes[h].file \in Files
    BY <2>1 DEF Handle, HInv, BoxesOK, IsObject, IsIterator, Free, Kinds
  <2> DEFINE o == [kind |-> "iterator", file |-> boxes[h].file, stack |-> <<>>, item |-> FALSE,
                   inner |-> IF Dirs[boxes[h].file] = Unopened THEN Nowhere ELSE OverDirs(0)]
  <2>3. /\ o.file = boxes[h].file /\ o.stack = <<>> /\ o.item = FALSE
        /\ o.inner = IF Dirs[boxes[h].file] = Unopened THEN Nowhere ELSE OverDirs(0)
    OBVIOUS
  <2>4. BoxOK(o, <<>>)
    <3> HIDE DEF o
    <3>1. QED
      BY <2>2, <2>3, NewIsInPlace DEF BoxOK
  <2>5. QED
    BY <2>1, <2>4, AllocIsInPlace
<1>4. CASE LendOfFile \/ LendOfBox \/ GetDir \/ GetEntry \/ UNCHANGED handleVars
  BY <1>4 DEF LendOfFile, LendOfBox, GetDir, GetEntry, handleVars, IteratorsAreInPlace
<1>5. CASE Release
  <2>1. PICK b \in Boxes :
          boxes' = [boxes EXCEPT ![b] = Free] /\ given' = [given EXCEPT ![b] = <<>>]
    BY <1>5 DEF Release
  <2>2. boxes = [c \in Boxes |-> boxes[c]] /\ given = [c \in Boxes |-> given[c]]
    BY DEF HInv, BoxesOK, IteratorsAreInPlace
  <2>3. /\ boxes'[b] = Free /\ given' = [c \in Boxes |-> given'[c]]
        /\ \A c \in Boxes \ {b} : boxes'[c] = boxes[c] /\ given'[c] = given[c]
    BY <2>1, <2>2
  <2>4. BoxOK(boxes'[b], given'[b])
    BY <2>3 DEF BoxOK, Free
  <2>5. QED
    BY <2>3, <2>4 DEF IteratorsAreInPlace
<1>6. QED
  BY <1>1, <1>2, <1>3, <1>4, <1>5, IteratorNextIsInPlace DEF HandlesStep

LEMMA IteratorsInvariance ==
  HandlesSpec => []IteratorsAreInPlace
<1>1. HandlesInit => IteratorsAreInPlace
  BY DEF HandlesInit, IteratorsAreInPlace, BoxOK, Free
<1>2. QED
  BY <1>1, StepIsInPlace, HandlesInvariance, PTL DEF HandlesSpec

LEMMA InPlaceIsInOrder == HInv /\ IteratorsAreInPlace => EntriesComeInOrder
<1> SUFFICES ASSUME HInv, IteratorsAreInPlace, NEW b \in Boxes,
                    Iterator(b), boxes[b].inner.on # "nowhere"
             PROVE  LET entries == EntriesOf(boxes[b].file)
                        all == {given[b][k] : k \in DOMAIN given[b]}
                    IN /\ all \subseteq entries
                       /\ \A k, n \in DOMAIN given[b] : k < n => Precedes(given[b][k], given[b][n])
                       /\ \A e \in entries, n \in all : Precedes(e, n) => e \in all
                       /\ boxes[b].item =>
                            boxes[b].inner.on = "dir" /\ boxes[b].inner.dir = Last(given[b])[1]
                       /\ ~boxes[b].item /\ boxes[b].inner # OverDirs(0) => all = entries
  BY DEF EntriesComeInOrder
<1> DEFINE o == boxes[b]
           f == o.file
           g == given[b]
           all == {g[k] : k \in DOMAIN g}
<1>1. f \in Files /\ o.kind = "iterator"
  BY DEF Iterator, HInv, BoxesOK, IsObject, IsIterator, Free, Kinds
<1>2. Dirs[f] # Unopened /\ Dirs[f] \in Seq(Nat)
  BY <1>1, DirsAssumption DEF IteratorsAreInPlace, BoxOK, IteratorOK, Nowhere
<1>3. IsPlace(f, o.inner, o.stack) /\ GivenIs(f, o.inner, g)
  BY <1>1, <1>2 DEF IteratorsAreInPlace, BoxOK, IteratorOK
<1>4. DOMAIN g = 1 .. Len(g)
  BY <1>3 DEF GivenIs
<1>5. \A e : e \in all <=> e \in EntriesOf(f) /\ Behind(o.inner, e)
  BY <1>3, <1>4 DEF GivenIs
<1>6. all \subseteq EntriesOf(f)
  BY <1>5
<1>7. \A k, n \in DOMAIN g : k < n => Precedes(g[k], g[n])
  BY <1>3, <1>4 DEF GivenIs
<1>8. ASSUME NEW e \in EntriesOf(f), NEW n \in all, Precedes(e, n) PROVE e \in all
  <2>1. /\ e[1] \in Nat /\ e[2] \in Nat /\ n[1] \in Nat /\ n[2] \in Nat /\ Behind(o.inner, n)
    BY <1>2, <1>5, <1>8, EntriesAreNumbers
  <2>2. Behind(o.inner, e)
    <3>1. \/ o.inner.on = "dirs" /\ o.inner.i \in Nat
          \/ o.inner.on = "dir" /\ o.inner.i \in Nat /\ o.inner.dir \in Nat
      BY <1>2, <1>3, PlaceIsNumbers
    <3> HIDE DEF o
    <3>2. QED
      BY <1>8, <2>1, <3>1 DEF Behind, Precedes
  <2>3. QED
    BY <1>5, <1>8, <2>2
<1>9. o.item => o.inner.on = "dir" /\ o.inner.dir = Last(g)[1]
  BY <1>1, <1>2 DEF IteratorsAreInPlace, BoxOK, IteratorOK, Last
<1>10. ASSUME ~o.item, o.inner # OverDirs(0) PROVE all = EntriesOf(f)
  <2>1. o.inner = OverDirs(Len(Dirs[f]))
    BY <1>1, <1>2, <1>10 DEF IteratorsAreInPlace, BoxOK, IteratorOK
  <2>2. \A e \in EntriesOf(f) : Behind(o.inner, e)
    BY <1>2, <2>1, EntriesAreNumbers DEF Behind, OverDirs
  <2>3. QED
    BY <1>5, <2>2
<1>11. QED
  BY <1>6, <1>7, <1>8, <1>9, <1>10

(* metadata.rs, Iterator::next: for files of any number of directories,    *)
(* empty ones or not, and as many iterators as there are boxes, each gives *)
(* the entries once and in order, passes over none, and ends after the     *)
(* last.                                                                   *)
THEOREM EntriesAreGivenInOrder == HandlesSpec => []EntriesComeInOrder
<1>1. QED
  BY HandlesInvariance, IteratorsInvariance, InPlaceIsInOrder, PTL

-----------------------------------------------------------------------------
(* The values of entries.                                                  *)

(* What may be given for an entry by an accessor: ValuesAreTheEntrys, of   *)
(* any entry and answer.                                                   *)
Within(e, g) ==
  \A i \in DOMAIN g.values : g.values[i].from + g.values[i].bytes <= DataLen(e)

AreOwn(e, g) ==
  \A i \in DOMAIN g.values : \E j \in 1 .. e.count : g.values[i] = OwnValues(e)[j]

AllData(e, g) ==
  \E n \in {OwnData(e), DataLen(e)} :
    g.values = IF e.type = "Ascii" THEN <<[from |-> 0, bytes |-> n]>>
               ELSE [i \in 1 .. n |-> ValueAt("Byte", i - 1)]

Proper(e, name, g) ==
  /\ Within(e, g)
  /\ e.type \in Numbers /\ name # "untyped" => AreOwn(e, g)
  /\ name \in {"metadata", "text"} =>
       /\ g.is = "some"
       /\ e.type \in Numbers => g.values = OwnValues(e)
       /\ e.type \notin Numbers => AllData(e, g)
  /\ name \in {"uints", "ints", "floats"} /\ g.is = "some" => g.values = OwnValues(e)
  /\ g.is = "panic" => \/ name = "uint" /\ e.zero
                       \/ name = "first" /\ e.count = 0
                       \/ name = "value" /\ e.type = "Undefined"

LEMMA UnitsAreSmall ==
  /\ \A t : tag_unit_size(t) \in {1, 2, 4, 8}
  /\ tag_unit_size("Byte") = 1 /\ tag_unit_size("Undefined") = 1 /\ tag_unit_size("Long") = 4
  /\ ReadableTypes = {"Byte", "SByte", "Short", "SShort", "Long", "SLong", "Float",
                      "Rational", "SRational", "Double"}
  /\ Numbers = {"SByte", "Short", "SShort", "Long", "SLong", "Float",
                "Rational", "SRational", "Double"}
<1>1. TagTypes = {"Byte", "Ascii", "SByte", "Undefined", "Invalid", "Error", "Short", "SShort",
                  "Long", "SLong", "Float", "Rational", "SRational", "Double"}
  BY DEF TagTypes, Units
<1>2. \A t \in TagTypes : Units[t] \in {1, 2, 4, 8}
  BY DEF TagTypes, Units
<1>3. \A t : tag_unit_size(t) \in {1, 2, 4, 8}
  BY <1>2 DEF tag_unit_size
<1>4. Units["Byte"] = 1 /\ Units["Undefined"] = 1 /\ Units["Long"] = 4
  BY DEF Units
<1>5. QED
  BY <1>1, <1>3, <1>4 DEF tag_unit_size, ReadableTypes, Numbers

(* A number is a place in whole units.                                     *)
LEMMA DataIsEnough ==
  ASSUME NEW e, e.count \in Nat
  PROVE  /\ DataLen(e) \in Nat /\ DataLen(e) >= 4
         /\ e.loaded => DataLen(e) >= e.count
         /\ e.loaded => \A n \in Nat : n <= e.count => tag_unit_size(e.type) * n <= DataLen(e)
<1> DEFINE u == tag_unit_size(e.type)
<1>1. u \in {1, 2, 4, 8}
  BY UnitsAreSmall
<1>2. DataLen(e) = IF u * e.count <= 4 \/ ~e.loaded THEN 4 ELSE u * e.count
  BY DEF DataLen, Inline
<1> HIDE DEF u
<1>3. u = 1 \/ u = 2 \/ u = 4 \/ u = 8
  BY <1>1
<1>4. DataLen(e) \in Nat /\ DataLen(e) >= 4 /\ (e.loaded => DataLen(e) >= e.count)
  BY <1>2, <1>3
<1>5. ASSUME e.loaded PROVE \A n \in Nat : n <= e.count => u * n <= DataLen(e)
  BY <1>2, <1>3, <1>5
<1>6. QED
  BY <1>4, <1>5 DEF u

(* One value: inside the data or a panic.                                  *)
LEMMA OneIsWithin ==
  ASSUME NEW e, e.count \in Nat, NEW t, NEW index \in Nat
  PROVE  LET r == ReadOne(e, t, index) IN
           \/ r = Panics
           \/ /\ r.is = "some" /\ r.values = <<ValueAt(t, index)>>
              /\ Within(e, r)
<1> DEFINE u == tag_unit_size(t)
           r == ReadOne(e, t, index)
<1>1. u \in {1, 2, 4, 8}
  BY UnitsAreSmall
<1>2. CASE ~InData(e, t, index)
  BY <1>2 DEF ReadOne
<1>3. CASE InData(e, t, index)
  <2>1. r.is = "some" /\ r.values = <<ValueAt(t, index)>>
    BY <1>3 DEF ReadOne, Some
  <2>2. u * index + u <= DataLen(e)
    <3>1. u * (index + 1) <= DataLen(e)
      BY <1>3 DEF InData
    <3> HIDE DEF u
    <3>2. (u = 1 \/ u = 2 \/ u = 4 \/ u = 8) /\ DataLen(e) \in Nat
      BY <1>1, DataIsEnough
    <3>3. QED
      BY <3>1, <3>2
  <2>3. ValueAt(t, index).from = u * index /\ ValueAt(t, index).bytes = u
    BY DEF ValueAt
  <2>4. Within(e, r)
    BY <2>1, <2>2, <2>3 DEF Within
  <2>5. QED
    BY <2>1, <2>4
<1>4. QED
  BY <1>2, <1>3

(* A value of the entry's own type is one of its values.                   *)
LEMMA OwnIsRead ==
  ASSUME NEW e, e.count \in Nat, e.loaded, NEW index \in Nat, index < e.count
  PROVE  LET r == ReadOne(e, e.type, index) IN
           r.is = "some" /\ Within(e, r) /\ AreOwn(e, r)
<1> DEFINE r == ReadOne(e, e.type, index)
<1>1. InData(e, e.type, index)
  BY DataIsEnough DEF InData
<1>2. r = Some(<<ValueAt(e.type, index)>>)
  BY <1>1 DEF ReadOne
<1>3. r.is = "some" /\ r.values = <<ValueAt(e.type, index)>> /\ r # Panics
  BY <1>2 DEF Some, Panics
<1>4. Within(e, r)
  BY <1>3, OneIsWithin
<1>5. AreOwn(e, r)
  <2>1. index + 1 \in 1 .. e.count /\ OwnValues(e)[index + 1] = ValueAt(e.type, index)
    BY DEF OwnValues
  <2>2. QED
    BY <1>3, <2>1 DEF AreOwn
<1>6. QED
  BY <1>3, <1>4, <1>5

(* Values that are as many as fit are read, and are inside the data.       *)
LEMMA AllAreRead ==
  ASSUME NEW e, e.count \in Nat, NEW t, NEW n \in Nat, tag_unit_size(t) * n <= DataLen(e)
  PROVE  LET r == ReadAll(e, t, n) IN
           r = Some([i \in 1 .. n |-> ValueAt(t, i - 1)]) /\ Within(e, r)
<1> DEFINE u == tag_unit_size(t)
           r == ReadAll(e, t, n)
<1>1. u \in {1, 2, 4, 8} /\ DataLen(e) \in Nat
  BY UnitsAreSmall, DataIsEnough
<1>2. n = 0 \/ InData(e, t, n - 1)
  BY DEF InData
<1>3. r = Some([i \in 1 .. n |-> ValueAt(t, i - 1)])
  BY <1>2 DEF ReadAll
<1>4. ASSUME NEW i \in 1 .. n
      PROVE  ValueAt(t, i - 1).from + ValueAt(t, i - 1).bytes <= DataLen(e)
  <2>1. u * (i - 1) + u <= u * n
    BY <1>1
  <2>2. QED
    BY <1>1, <2>1 DEF ValueAt
<1>5. r.values = [i \in 1 .. n |-> ValueAt(t, i - 1)]
  BY <1>3 DEF Some
<1>6. Within(e, r)
  BY <1>4, <1>5 DEF Within
<1>7. QED
  BY <1>3, <1>6

LEMMA OwnAreRead ==
  ASSUME NEW e, e.count \in Nat, e.loaded
  PROVE  LET r == ReadAll(e, e.type, e.count) IN
           r = Some(OwnValues(e)) /\ Within(e, r) /\ AreOwn(e, r)
<1> DEFINE r == ReadAll(e, e.type, e.count)
<1>1. r = Some(OwnValues(e)) /\ Within(e, r)
  BY DataIsEnough, AllAreRead DEF OwnValues
<1>2. r.values = OwnValues(e) /\ DOMAIN OwnValues(e) = 1 .. e.count
  BY <1>1 DEF Some, OwnValues
<1>3. QED
  BY <1>1, <1>2 DEF AreOwn

LEMMA ArraysAreProper ==
  ASSUME NEW e, e.count \in Nat, e.loaded, NEW t \in ReadableTypes,
         NEW name, name \in {"array", "floats", "uints"}, name = "array" \/ t = e.type
  PROVE  Proper(e, name, value_array(e, t))
<1> DEFINE r == value_array(e, t)
           n == e.count \div tag_unit_size("Undefined")
<1>1. t # "Undefined" /\ t # "Ascii" /\ ~IsArray(t)
  BY UnitsAreSmall DEF IsArray
<1>2. CASE e.type = "Undefined"
  <2>1. r = ReadAll(e, t, e.count \div tag_unit_size(t))
    BY <1>1, <1>2 DEF value_array
  <2>2. /\ e.count \div tag_unit_size(t) \in Nat
        /\ tag_unit_size(t) * (e.count \div tag_unit_size(t)) <= DataLen(e)
    <3> DEFINE u == tag_unit_size(t)
    <3>1. DataLen(e) \in Nat /\ DataLen(e) >= e.count /\ (u = 1 \/ u = 2 \/ u = 4 \/ u = 8)
      BY UnitsAreSmall, DataIsEnough
    <3> HIDE DEF u
    <3>2. e.count \div u \in Nat /\ u * (e.count \div u) <= e.count
      BY <3>1
    <3>3. u * (e.count \div u) \in Nat
      BY <3>1, <3>2
    <3>4. QED
      BY <3>1, <3>2, <3>3 DEF u
  <2>3. Within(e, r) /\ r.is = "some"
    BY <2>1, <2>2, AllAreRead DEF Some
  <2>4. e.type \notin Numbers /\ name = "array"
    BY <1>1, <1>2, UnitsAreSmall
  <2>5. QED
    BY <2>3, <2>4 DEF Proper
<1>3. CASE e.type # "Undefined" /\ e.type = t
  <2>1. r = ReadAll(e, e.type, e.count)
    BY <1>1, <1>3 DEF value_array
  <2>2. r = Some(OwnValues(e)) /\ Within(e, r) /\ AreOwn(e, r)
    BY <2>1, OwnAreRead
  <2>3. r.is = "some" /\ r.values = OwnValues(e)
    BY <2>2 DEF Some
  <2>4. QED
    BY <2>2, <2>3 DEF Proper
<1>4. CASE e.type # "Undefined" /\ e.type # t
  <2>1. r = None
    BY <1>4 DEF value_array
  <2>2. QED
    BY <2>1 DEF None, Proper, Within, AreOwn
<1>5. QED
  BY <1>2, <1>3, <1>4

(* What there is for an entry, and what there is not.                      *)
LEMMA NoneIsProper ==
  ASSUME NEW e, NEW name, name \notin {"metadata", "text"}
  PROVE  Proper(e, name, None)
BY DEF None, Proper, Within, AreOwn

LEMMA OwnIsProper ==
  ASSUME NEW e, e.count \in Nat, e.loaded, NEW name
  PROVE  /\ e.type \in Numbers => Proper(e, name, Some(OwnValues(e)))
         /\ name \notin {"metadata", "text"} => Proper(e, name, Some(OwnValues(e)))
<1> DEFINE r == Some(OwnValues(e))
<1>1. r.is = "some" /\ r.values = OwnValues(e)
  BY DEF Some
<1>2. r = ReadAll(e, e.type, e.count) /\ Within(e, r) /\ AreOwn(e, r)
  BY OwnAreRead
<1>3. QED
  BY <1>1, <1>2 DEF Proper

LEMMA OneIsProper ==
  ASSUME NEW e, e.count \in Nat, e.loaded, NEW index \in Nat, index < e.count, NEW name,
         name \notin {"metadata", "text", "uints", "ints", "floats"}
  PROVE  Proper(e, name, ReadOne(e, e.type, index))
<1>1. /\ ReadOne(e, e.type, index).is = "some"
      /\ Within(e, ReadOne(e, e.type, index)) /\ AreOwn(e, ReadOne(e, e.type, index))
  BY OwnIsRead
<1>2. QED
  BY <1>1 DEF Proper

LEMMA ValueIsProper ==
  ASSUME NEW e, e.count \in Nat, e.loaded, NEW t \in ReadableTypes, NEW index \in Nat
  PROVE  Proper(e, "value", value_at_index(e, t, index, FALSE))
<1> DEFINE r == value_at_index(e, t, index, FALSE)
<1>1. CASE e.type \notin {"Undefined", t} \/ ~(index < e.count)
  BY <1>1, NoneIsProper DEF value_at_index
<1>2. CASE e.type = t /\ index < e.count
  <2>1. r = ReadOne(e, e.type, index)
    BY <1>2 DEF value_at_index
  <2>2. QED
    BY <1>2, <2>1, OneIsProper
<1>3. CASE e.type = "Undefined" /\ index < e.count
  <2>1. r = ReadOne(e, t, index)
    BY <1>3 DEF value_at_index
  <2>2. r = Panics \/ (r.is = "some" /\ Within(e, r))
    <3>1. \/ ReadOne(e, t, index) = Panics
          \/ ReadOne(e, t, index).is = "some" /\ Within(e, ReadOne(e, t, index))
      BY OneIsWithin
    <3>2. QED
      BY <2>1, <3>1
  <2>3. e.type \notin Numbers /\ Within(e, Panics)
    BY <1>3, UnitsAreSmall DEF Within, Panics
  <2>4. QED
    BY <1>3, <2>2, <2>3 DEF Proper
<1>4. QED
  BY <1>1, <1>2, <1>3

LEMMA UntypedIsProper ==
  ASSUME NEW e, e.count \in Nat
  PROVE  Proper(e, "untyped", value_at_index(e, "Long", 0, TRUE))
<1> DEFINE r == value_at_index(e, "Long", 0, TRUE)
<1>1. CASE ~(0 < e.count)
  BY <1>1, NoneIsProper DEF value_at_index
<1>2. CASE 0 < e.count
  <2>1. r = ReadOne(e, "Long", 0)
    BY <1>2 DEF value_at_index
  <2>2. InData(e, "Long", 0)
    BY UnitsAreSmall, DataIsEnough DEF InData
  <2>3. ReadOne(e, "Long", 0).is = "some" /\ Panics.is = "panic"
    BY <2>2 DEF ReadOne, Some, Panics
  <2>4. r.is = "some" /\ Within(e, r)
    <3>1. ReadOne(e, "Long", 0) = Panics \/ Within(e, ReadOne(e, "Long", 0))
      BY OneIsWithin
    <3>2. QED
      BY <2>1, <2>3, <3>1
  <2>5. QED
    BY <2>4 DEF Proper
<1>3. QED
  BY <1>1, <1>2

LEMMA StringIsProper ==
  ASSUME NEW e, e.count \in Nat, e.loaded
  PROVE  Proper(e, "string", value_of_string(e)) /\ Proper(e, "string", string_value(e))
<1> DEFINE r == Some(<<[from |-> 0, bytes |-> DataLen(e)]>>)
<1>1. r.is = "some" /\ r.values = <<[from |-> 0, bytes |-> DataLen(e)]>>
  BY DEF Some
<1>2. Within(e, r)
  BY <1>1, DataIsEnough DEF Within
<1>3. e.type \in {"Ascii", "Undefined"} => Proper(e, "string", r)
  BY <1>1, <1>2, UnitsAreSmall DEF Proper
<1>4. QED
  BY <1>3, NoneIsProper DEF value_of_string, string_value

LEMMA UintIsProper ==
  ASSUME NEW e, e.count \in Nat, e.loaded, e.zero \in BOOLEAN
  PROVE  Proper(e, "uint", uint_value_at_index(e, 0)) /\ Proper(e, "int", int_value_at_index(e, 0))
<1>1. CASE 0 >= e.count
  BY <1>1, NoneIsProper DEF uint_value_at_index, int_value_at_index
<1>2. CASE 0 < e.count
  <2>1. \A name \in {"uint", "int"} : Proper(e, name, ReadOne(e, e.type, 0))
    BY <1>2, OneIsProper
  <2>2. Proper(e, "int", int_value_at_index(e, 0))
    BY <2>1, NoneIsProper DEF int_value_at_index
  <2>3. CASE e.type \in {"Short", "Long"}
    BY <1>2, <2>1, <2>2, <2>3 DEF uint_value_at_index
  <2>4. CASE e.type = "Rational"
    <3>1. uint_value_at_index(e, 0) = Quotient(e)
      BY <1>2, <2>4 DEF uint_value_at_index
    <3>2. value_at_index(e, "Rational", 0, FALSE) = ReadOne(e, e.type, 0)
      BY <1>2, <2>4 DEF value_at_index
    <3>3. Quotient(e) = ReadOne(e, e.type, 0) \/ (Quotient(e) = Panics /\ e.zero)
      BY <3>2 DEF Quotient
    <3>4. e.zero => Proper(e, "uint", Panics)
      BY DEF Proper, Panics, Within, AreOwn
    <3>5. QED
      BY <2>1, <2>2, <3>1, <3>3, <3>4
  <2>5. CASE e.type \notin {"Short", "Long", "Rational"}
    <3>1. uint_value_at_index(e, 0) = None
      BY <1>2, <2>5 DEF uint_value_at_index
    <3>2. QED
      BY <2>2, <3>1, NoneIsProper
  <2>6. QED
    BY <2>3, <2>4, <2>5
<1>3. QED
  BY <1>1, <1>2

(* An entry of numbers gives them, however it is asked for all of them.    *)
LEMMA NumbersAreOwn ==
  ASSUME NEW e, e.count \in Nat, e.loaded
  PROVE  LET own == Some(OwnValues(e)) IN
         /\ \A t \in ReadableTypes : e.type = t => value_array(e, t) = own
         /\ e.type \in {"Short", "Long", "Rational"} => uint_value_array(e) = own
         /\ e.type \notin {"Short", "Long", "Rational"} => uint_value_array(e) = None
         /\ e.type \in {"SShort", "SLong"} => int_value_array(e) = own
         /\ e.type \notin {"SShort", "SLong"} => int_value_array(e) = None
         /\ float_value_array(e) \in {own, None}
<1> DEFINE own == Some(OwnValues(e))
<1>1. ReadAll(e, e.type, e.count) = own
  BY OwnAreRead
<1>2. \A t \in ReadableTypes : e.type = t => value_array(e, t) = own
  <2> SUFFICES ASSUME NEW t \in ReadableTypes, e.type = t PROVE value_array(e, t) = own
    OBVIOUS
  <2>1. ~IsArray(t) /\ e.type # "Undefined"
    BY UnitsAreSmall DEF IsArray
  <2>2. QED
    BY <1>1, <2>1 DEF value_array
<1>3. \A t \in {"Rational", "SRational"} : e.type = t => value_array(e, t) = own
  BY <1>2, UnitsAreSmall
<1>4. /\ e.type \in {"Short", "Long", "Rational"} => uint_value_array(e) = own
      /\ e.type \notin {"Short", "Long", "Rational"} => uint_value_array(e) = None
  BY <1>1, <1>3 DEF uint_value_array
<1>5. /\ e.type \in {"SShort", "SLong"} => int_value_array(e) = own
      /\ e.type \notin {"SShort", "SLong"} => int_value_array(e) = None
  BY <1>1 DEF int_value_array
<1>6. float_value_array(e) \in {own, None}
  <2> HIDE DEF own
  <2>1. QED
    BY <1>1, <1>3, <1>4 DEF float_value_array
<1>7. QED
  BY <1>2, <1>4, <1>5, <1>6

(* The metadata of an entry: its numbers, its text, or its bytes.          *)
LEMMA MetadataAreAll ==
  ASSUME NEW e, e.count \in Nat, e.loaded \/ e.type = "Error"
  PROVE  LET r == from_entry(e) IN
         /\ r = Some(r.values) /\ r.is = "some"
         /\ \E n \in Nat : r.values = [i \in 1 .. n |-> r.values[i]]
         /\ Within(e, r) /\ (e.type \in Numbers => AreOwn(e, r) /\ r.values = OwnValues(e))
         /\ e.type \notin Numbers => AllData(e, r)
<1> DEFINE r == from_entry(e)
           own == Some(OwnValues(e))
<1>1. CASE e.type \in Numbers
  <2>0. e.loaded
    BY <1>1, UnitsAreSmall
  <2>1. own.is = "some" /\ own.values = OwnValues(e) /\ Panics.is = "panic"
    BY DEF Some, Panics
  <2>2. Unwrapped(own) = own
    BY <2>1 DEF Unwrapped
  <2>3. r = own
    <3>1. CASE e.type \in {"Rational", "SRational", "Float", "Double", "SByte"}
      <4>1. value_array(e, e.type) = own
        BY <2>0, <3>1, NumbersAreOwn, UnitsAreSmall
      <4> HIDE DEF own
      <4>2. QED
        BY <2>2, <3>1, <4>1 DEF from_entry
    <3>2. CASE e.type \in {"Short", "Long"}
      <4>1. uint_value_array(e) = own
        BY <2>0, <3>2, NumbersAreOwn
      <4> HIDE DEF own
      <4>2. QED
        BY <2>2, <3>2, <4>1 DEF from_entry
    <3>3. CASE e.type \in {"SShort", "SLong"}
      <4>1. int_value_array(e) = own
        BY <2>0, <3>3, NumbersAreOwn
      <4> HIDE DEF own
      <4>2. QED
        BY <2>2, <3>3, <4>1 DEF from_entry
    <3>4. QED
      BY <1>1, <3>1, <3>2, <3>3, UnitsAreSmall
  <2>4. Within(e, own) /\ AreOwn(e, own)
    <3>1. ReadAll(e, e.type, e.count) = own
      BY <2>0, OwnAreRead
    <3>2. QED
      BY <2>0, <3>1, OwnAreRead
  <2>5. \E n \in Nat : OwnValues(e) = [i \in 1 .. n |-> OwnValues(e)[i]]
    BY DEF OwnValues
  <2>6. QED
    BY <1>1, <2>1, <2>3, <2>4, <2>5
<1>2. CASE e.type = "Ascii"
  <2>1. r = Some(<<[from |-> 0, bytes |-> DataLen(e)]>>)
    <3>1. string_value(e) = Some(<<[from |-> 0, bytes |-> DataLen(e)]>>)
      BY <1>2 DEF string_value
    <3>2. Unwrapped(string_value(e)) = string_value(e)
      BY <3>1 DEF Unwrapped, Some
    <3>3. QED
      BY <1>2, <3>1, <3>2 DEF from_entry
  <2>2. r.is = "some" /\ r.values = <<[from |-> 0, bytes |-> DataLen(e)]>> /\ r = Some(r.values)
    BY <2>1 DEF Some
  <2>3. Within(e, r)
    BY <2>2, DataIsEnough DEF Within
  <2>4. <<[from |-> 0, bytes |-> DataLen(e)]>>
          = [i \in 1 .. 1 |-> <<[from |-> 0, bytes |-> DataLen(e)]>>[i]]
    OBVIOUS
  <2>5. e.type \notin Numbers /\ AllData(e, r)
    BY <1>2, <2>2, UnitsAreSmall DEF AllData
  <2> HIDE DEF r
  <2>6. \E n \in Nat : r.values = [i \in 1 .. n |-> r.values[i]]
    BY <2>2, <2>4
  <2>7. QED
    BY <2>2, <2>3, <2>5, <2>6 DEF r
<1>3. CASE e.type \notin Numbers /\ e.type # "Ascii"
  <2> DEFINE n == DataLen(e)
             bytes == [i \in 1 .. n |-> ValueAt("Byte", i - 1)]
  <2>1. r = ReadAll(e, "Byte", n)
    BY <1>3, UnitsAreSmall DEF from_entry
  <2>2. n \in Nat /\ tag_unit_size("Byte") * n <= n
    BY DataIsEnough, UnitsAreSmall
  <2>3. r = Some(bytes) /\ Within(e, r)
    BY <2>1, <2>2, AllAreRead
  <2>4. r.is = "some" /\ r.values = bytes /\ r = Some(r.values)
    BY <2>3 DEF Some
  <2>5. AllData(e, r)
    BY <1>3, <2>4 DEF AllData
  <2>6. bytes = [i \in 1 .. n |-> bytes[i]]
    OBVIOUS
  <2> HIDE DEF r, bytes
  <2>7. \E m \in Nat : r.values = [i \in 1 .. m |-> r.values[i]]
    BY <2>2, <2>4, <2>6
  <2>8. QED
    BY <1>3, <2>3, <2>4, <2>5, <2>7 DEF r
<1>4. QED
  BY <1>1, <1>2, <1>3

(* A beginning of what is proper.                                          *)
LEMMA BeginningIsProper ==
  ASSUME NEW e, NEW v, NEW n \in Nat, v = [i \in 1 .. n |-> v[i]], NEW m \in Nat, m <= n,
         Within(e, Some(v)), e.type \in Numbers => AreOwn(e, Some(v)),
         NEW name, name \notin {"metadata", "text", "uints", "ints", "floats"}
  PROVE  Proper(e, name, Some(SubSeq(v, 1, m)))
<1>1. v \in Seq({v[i] : i \in 1 .. n}) /\ Len(v) = n
  OBVIOUS
<1>2. /\ DOMAIN SubSeq(v, 1, m) = 1 .. m
      /\ \A i \in 1 .. m : SubSeq(v, 1, m)[i] = v[i]
  BY <1>1
<1>3. DOMAIN v = 1 .. n
  OBVIOUS
<1> DEFINE r == Some(SubSeq(v, 1, m))
<1>4. r.is = "some" /\ r.values = SubSeq(v, 1, m) /\ Some(v).values = v
  BY DEF Some
<1> HIDE DEF r
<1>5. DOMAIN r.values = 1 .. m /\ \A i \in 1 .. m : i \in DOMAIN v /\ r.values[i] = v[i]
  BY <1>2, <1>3, <1>4
<1>6. Within(e, r) /\ (e.type \in Numbers => AreOwn(e, r))
  <2>1. \A i \in DOMAIN v : v[i].from + v[i].bytes <= DataLen(e)
    BY <1>4 DEF Within
  <2>2. e.type \in Numbers => \A i \in DOMAIN v : \E j \in 1 .. e.count : v[i] = OwnValues(e)[j]
    BY <1>4 DEF AreOwn
  <2>3. Within(e, r)
    BY <1>5, <2>1 DEF Within
  <2>4. ASSUME e.type \in Numbers, NEW i \in DOMAIN r.values
        PROVE  \E j \in 1 .. e.count : r.values[i] = OwnValues(e)[j]
    <3>1. i \in DOMAIN v /\ r.values[i] = v[i]
      BY <1>5
    <3>2. PICK j \in 1 .. e.count : v[i] = OwnValues(e)[j]
      BY <2>2, <2>4, <3>1
    <3>3. QED
      BY <3>1, <3>2
  <2>5. e.type \in Numbers => AreOwn(e, r)
    BY <2>4 DEF AreOwn
  <2>6. QED
    BY <2>3, <2>5
<1>7. QED
  BY <1>4, <1>6 DEF Proper, r

LEMMA MetadataAreProper ==
  ASSUME NEW e, e.count \in Nat, e.loaded \/ e.type = "Error"
  PROVE  /\ \A name \in {"metadata", "text"} : Proper(e, name, from_entry(e))
         /\ Proper(e, "abridged", Written(e, FALSE)) /\ Written(e, TRUE) = from_entry(e)
         /\ Proper(e, "first", integer(e)) /\ Proper(e, "first", rational(e))
<1> DEFINE r == from_entry(e)
<1>1. \A name \in {"metadata", "text", "abridged"} : Proper(e, name, r)
  BY MetadataAreAll DEF Proper
<1>2. PICK n \in Nat : r.values = [i \in 1 .. n |-> r.values[i]]
  BY MetadataAreAll
<1>3. Len(r.values) = n /\ (r.values = <<>> => n = 0)
  <2> DEFINE v == r.values
  <2>1. v = [i \in 1 .. n |-> v[i]]
    BY <1>2
  <2> HIDE DEF v
  <2>2. v \in Seq({v[i] : i \in 1 .. n}) /\ Len(v) = n
    BY <2>1
  <2>3. QED
    BY <2>2 DEF v
<1>4. r = Some(r.values) /\ r.is = "some" /\ Within(e, r) /\ (e.type \in Numbers => AreOwn(e, r))
  BY MetadataAreAll
<1>5. ASSUME NEW m \in Nat, m <= n, NEW name \in {"abridged", "first"}
      PROVE  Proper(e, name, Some(SubSeq(r.values, 1, m)))
  <2> DEFINE v == r.values
  <2>1. v = [i \in 1 .. n |-> v[i]] /\ Within(e, Some(v)) /\ (e.type \in Numbers => AreOwn(e, Some(v)))
    BY <1>2, <1>4
  <2> HIDE DEF v
  <2>2. Proper(e, name, Some(SubSeq(v, 1, m)))
    BY <1>5, <2>1, BeginningIsProper
  <2>3. QED
    BY <2>2 DEF v
<1>6. Proper(e, "abridged", Written(e, FALSE))
  <2>1. CASE Len(r.values) > AbridgedAt
    <3>1. Written(e, FALSE) = Some(SubSeq(r.values, 1, 21))
      BY <1>4, <2>1 DEF Written, AbridgedAt
    <3>2. 21 <= n
      BY <1>3, <2>1 DEF AbridgedAt
    <3>3. QED
      BY <1>5, <3>1, <3>2
  <2>2. CASE ~(Len(r.values) > AbridgedAt)
    BY <1>1, <2>2 DEF Written
  <2>3. QED
    BY <2>1, <2>2
<1>7. Written(e, TRUE) = r
  BY DEF Written
<1>8. ASSUME e.type \in {"Short", "Long", "Rational"} PROVE Proper(e, "first", FirstOf(r))
  <2>1. r.values = OwnValues(e)
    BY <1>8, MetadataAreAll, UnitsAreSmall
  <2>2. CASE r.values = <<>>
    <3>1. e.count = 0
      BY <2>1, <2>2 DEF OwnValues
    <3>2. FirstOf(r) = Panics
      BY <1>4, <2>2 DEF FirstOf
    <3>3. QED
      BY <3>1, <3>2 DEF Proper, Panics, Within, AreOwn
  <2>3. CASE r.values # <<>>
    <3>1. n >= 1
      <4>1. n = 0 => r.values = <<>>
        BY <1>2
      <4>2. QED
        BY <2>3, <4>1
    <3>2. FirstOf(r) = Some(SubSeq(r.values, 1, 1))
      <4>1. FirstOf(r) = [r EXCEPT !.values = SubSeq(@, 1, 1)]
        BY <2>3 DEF FirstOf
      <4> DEFINE v == r.values
      <4>2. r = [is |-> "some", values |-> v]
        BY <1>4 DEF Some
      <4> HIDE DEF r, v
      <4>3. [r EXCEPT !.values = SubSeq(@, 1, 1)] = [is |-> "some", values |-> SubSeq(v, 1, 1)]
        BY <4>2
      <4>4. QED
        BY <4>1, <4>3 DEF v, Some
    <3>3. QED
      BY <1>5, <3>1, <3>2
  <2>4. QED
    BY <2>2, <2>3
<1>9. Proper(e, "first", integer(e)) /\ Proper(e, "first", rational(e))
  BY <1>8, NoneIsProper DEF integer, rational
<1>10. QED
  BY <1>1, <1>6, <1>7, <1>9

(* An entry that could not be loaded has no values.                        *)
LEMMA NotLoadedHasNone ==
  ASSUME NEW e, e.type = "Error"
  PROVE  /\ \A t \in ReadableTypes, i \in Nat : value_at_index(e, t, i, FALSE) = None
         /\ \A t \in ReadableTypes : value_array(e, t) = None
         /\ value_of_string(e) = None /\ string_value(e) = None
         /\ uint_value_at_index(e, 0) = None /\ int_value_at_index(e, 0) = None
         /\ uint_value_array(e) = None /\ int_value_array(e) = None /\ float_value_array(e) = None
<1>1. \A t \in ReadableTypes : e.type # t
  BY UnitsAreSmall
<1>2. QED
  BY <1>1 DEF value_at_index, value_array, value_of_string, string_value, uint_value_at_index,
              int_value_at_index, uint_value_array, int_value_array, float_value_array

-----------------------------------------------------------------------------
(* Nothing was asked, or what was given is proper.                         *)
ValuesInv ==
  /\ entry \in Entries
  /\ accessor = "none" => got = None
  /\ Proper(entry, accessor, got)

LEMMA ValuesInvariance ==
  ValuesSpec => []ValuesInv
<1>1. ValuesInit => ValuesInv
  <2>1. Proper(entry, "none", None)
    BY NoneIsProper
  <2>2. QED
    BY <2>1 DEF ValuesInit, ValuesInv
<1>2. ValuesInv /\ [ValuesStep]_valueVars => ValuesInv'
  <2> SUFFICES ASSUME ValuesInv, [ValuesStep]_valueVars PROVE ValuesInv'
    OBVIOUS
  <2>1. /\ entry \in Entries /\ entry.count \in Nat /\ entry.zero \in BOOLEAN
        /\ entry.loaded \/ entry.type = "Error"
    BY EntriesAssumption DEF ValuesInv
  <2>2. ASSUME NEW name, NEW g, AskFor(name, g), name # "none", Proper(entry, name, g)
        PROVE  ValuesInv'
    BY <2>1, <2>2 DEF AskFor, ValuesInv
  <2>3. CASE AskValue
    <3>1. PICK t \in ReadableTypes, i \in 0 .. 2 : AskFor("value", value_at_index(entry, t, i, FALSE))
      BY <2>3 DEF AskValue
    <3>2. Proper(entry, "value", value_at_index(entry, t, i, FALSE))
      <4>1. i \in Nat /\ t \in ReadableTypes
        OBVIOUS
      <4>2. QED
        BY <2>1, <4>1, ValueIsProper, NotLoadedHasNone, NoneIsProper, Zenon
    <3>3. QED
      BY <2>2, <3>1, <3>2
  <2>4. CASE AskString
    BY <2>1, <2>2, <2>4, StringIsProper, NotLoadedHasNone, NoneIsProper DEF AskString
  <2>5. CASE AskUntyped
    BY <2>1, <2>2, <2>5, UntypedIsProper DEF AskUntyped
  <2>6. CASE AskUint
    BY <2>1, <2>2, <2>6, UintIsProper, NotLoadedHasNone, NoneIsProper DEF AskUint
  <2>7. CASE AskInt
    BY <2>1, <2>2, <2>7, UintIsProper, NotLoadedHasNone, NoneIsProper DEF AskInt
  <2>8. CASE AskArray
    BY <2>1, <2>2, <2>8, ArraysAreProper, NotLoadedHasNone, NoneIsProper DEF AskArray
  <2>9. CASE AskUints
    <3>1. (entry.loaded /\ uint_value_array(entry) = Some(OwnValues(entry))) \/ uint_value_array(entry) = None
      BY <2>1, NumbersAreOwn, NotLoadedHasNone
    <3>2. Proper(entry, "uints", uint_value_array(entry))
      BY <2>1, <3>1, OwnIsProper, NoneIsProper
    <3>3. QED
      BY <2>2, <2>9, <3>2 DEF AskUints
  <2>10. CASE AskInts
    <3>1. (entry.loaded /\ int_value_array(entry) = Some(OwnValues(entry))) \/ int_value_array(entry) = None
      BY <2>1, NumbersAreOwn, NotLoadedHasNone
    <3>2. Proper(entry, "ints", int_value_array(entry))
      BY <2>1, <3>1, OwnIsProper, NoneIsProper
    <3>3. QED
      BY <2>2, <2>10, <3>2 DEF AskInts
  <2>11. CASE AskFloats
    <3>1. (entry.loaded /\ float_value_array(entry) = Some(OwnValues(entry))) \/ float_value_array(entry) = None
      BY <2>1, NumbersAreOwn, NotLoadedHasNone
    <3>2. Proper(entry, "floats", float_value_array(entry))
      BY <2>1, <3>1, OwnIsProper, NoneIsProper
    <3>3. QED
      BY <2>2, <2>11, <3>2 DEF AskFloats
  <2>12. CASE AskMetadata
    BY <2>1, <2>2, <2>12, MetadataAreProper DEF AskMetadata
  <2>13. CASE AskFirst
    BY <2>1, <2>2, <2>13, MetadataAreProper DEF AskFirst
  <2>14. CASE AskText
    <3>1. PICK full \in BOOLEAN : AskFor(IF full THEN "text" ELSE "abridged", Written(entry, full))
      BY <2>14 DEF AskText
    <3>2. Proper(entry, "text", Written(entry, TRUE)) /\ Proper(entry, "abridged", Written(entry, FALSE))
      BY <2>1, MetadataAreProper
    <3>3. CASE full
      <4>1. AskFor("text", Written(entry, TRUE))
        BY <3>1, <3>3
      <4>2. QED
        BY <2>2, <3>2, <4>1
    <3>4. CASE ~full
      <4>1. AskFor("abridged", Written(entry, FALSE))
        BY <3>1, <3>4
      <4>2. QED
        BY <2>2, <3>2, <4>1
    <3>5. QED
      BY <3>3, <3>4
  <2>15. CASE UNCHANGED valueVars
    BY <2>15 DEF valueVars, ValuesInv
  <2>16. QED
    BY <2>3, <2>4, <2>5, <2>6, <2>7, <2>8, <2>9, <2>10, <2>11, <2>12, <2>13, <2>14, <2>15
       DEF ValuesStep
<1>3. QED
  BY <1>1, <1>2, PTL DEF ValuesSpec

(* Whatever the type and the count of an entry, and whatever it is asked   *)
(* for, the values that are given are made of its own bytes, and the       *)
(* metadata are all of them and are never refused (tiff/entry.rs,          *)
(* Iterator::from_entry).                                                  *)
THEOREM ValuesGivenAreOwn ==
  ValuesSpec => []ValuesAreTheEntrys
<1>1. ValuesInv => ValuesAreTheEntrys
  BY DEF ValuesInv, ValuesAreTheEntrys, Proper, Within, AreOwn, AllData
<1>2. QED
  BY <1>1, ValuesInvariance, PTL

-----------------------------------------------------------------------------
(* Opening a file.                                                         *)

(* What a file is by its content, when enough of it is read, and the kind  *)
(* it is opened as by its name or, when that says nothing, by its content. *)
ContentType(f) ==
  CASE f.begins = "jpeg" -> "Jpeg" [] f.begins = "mrm" -> "Mrw" [] f.begins = "crx" -> "Cr3"
    [] f.begins = "heap" -> "Crw" [] f.begins = "iiro" -> "Orf" [] f.begins = "iiu" -> "Rw2"
    [] f.begins = "fuji" -> "Raf" [] f.begins = "tiff cr" -> "Cr2" [] f.begins = "tiff" -> TypeOfDir(f)
    [] OTHER -> NoType

KindOf(f) ==
  IF type_for_extension(f.ext) # NoType THEN FACTORY_MAP[type_for_extension(f.ext)] ELSE ContentType(f)

(* Whatever type a file gets, its RawFile is that of its kind.             *)
IsItsKind(f, t) == t \in DOMAIN FACTORY_MAP => FACTORY_MAP[t] = KindOf(f)

OpenedAsItsKind ==
  /\ file_opened \in OpenedFiles /\ way \in Ways
  /\ kinds \subseteq {KindOf(file_opened)}
  /\ (opening = "typed" /\ way.hint = NoType) => IsItsKind(file_opened, type)

\* The first bytes tell the type that the whole content does.
LEMMA MagicsTellTheType ==
  ASSUME NEW f \in OpenedFiles, NEW n, NEW m \in Told(f, n) PROVE m.type = ContentType(f)
<1>1. ASSUME NEW b, NEW t, NEW l, m = [begins |-> b, type |-> t, len |-> l],
             f.begins = b => t = ContentType(f)
      PROVE  m.type = ContentType(f)
  BY <1>1 DEF Told
<1>2. m \in Magics
  BY DEF Told
<1>3. QED
  BY <1>1, <1>2 DEF Magics, ContentType

\* So does the directory of a file that is a TIFF, also when too few bytes were read to see more.
LEMMA DirectoriesTellTheType ==
  ASSUME NEW f \in OpenedFiles, f.begins \in {"tiff", "tiff cr"} PROVE TypeOfDir(f) = ContentType(f)
BY IdentifyAssumption DEF IsOfItsFormat, TypeOfDir, TypeOfMake, ContentType

\* A type that is told by content has a RawFile of its own.
LEMMA ContentTypesHaveRawFiles ==
  ASSUME NEW f, ContentType(f) # NoType
  PROVE  ContentType(f) \in DOMAIN FACTORY_MAP /\ FACTORY_MAP[ContentType(f)] = ContentType(f)
BY DEF ContentType, TypeOfDir, TypeOfMake, FACTORY_MAP, NoType

\* What an extension says of a file of its format, its content says too, or nothing.
LEMMA ExtensionsAgree ==
  ASSUME NEW f \in OpenedFiles, type_for_extension(f.ext) # NoType, ContentType(f) # NoType
  PROVE  FACTORY_MAP[type_for_extension(f.ext)] = ContentType(f)
<1>1. PICK e \in EXT_TYPE : e[1] = f.ext /\ type_for_extension(f.ext) = e[2]
  BY DEF type_for_extension
<1>2. IsOfItsFormat(f) /\ ContentType(f) # NoType
  BY IdentifyAssumption
<1>3. /\ f.begins \in {"jpeg", "jfif"} => ContentType(f) = "Jpeg"
      /\ f.begins = "iiu" => ContentType(f) = "Rw2"
      /\ f.begins = "crx" => ContentType(f) = "Cr3"
      /\ f.begins = "iiro" => ContentType(f) = "Orf"
      /\ f.begins = "fuji" => ContentType(f) = "Raf"
      /\ f.begins = "tiff cr" => ContentType(f) = "Cr2"
      /\ f.begins = "tiff" /\ f.dng => ContentType(f) = "Dng"
  BY <1>2 DEF ContentType, TypeOfDir, NoType
<1>4. ASSUME f.begins = "tiff", ~f.dng
      PROVE  /\ f.make = "SONY" => ContentType(f) = "Arw"
             /\ f.make = "NIKON" => ContentType(f) = "Nef"
             /\ f.make = "SEIKO EPSON CORP." => ContentType(f) = "Erf"
             /\ f.make \in {"PENTAX Corporation ", "RICOH"} => ContentType(f) = "Pef"
             /\ f.make = "Canon" => ContentType(f) = "Cr2"
  <2>1. ContentType(f) = TypeOfMake(f.make)
    BY <1>4 DEF ContentType, TypeOfDir
  <2>2. QED
    BY <1>2, <2>1 DEF TypeOfMake, NoType
<1>5. /\ FACTORY_MAP["Arw"] = "Arw" /\ FACTORY_MAP["Cr2"] = "Cr2" /\ FACTORY_MAP["Cr3"] = "Cr3"
      /\ FACTORY_MAP["Dng"] = "Dng" /\ FACTORY_MAP["Erf"] = "Erf" /\ FACTORY_MAP["Jpeg"] = "Jpeg"
      /\ FACTORY_MAP["Gpr"] = "Dng" /\ FACTORY_MAP["Nef"] = "Nef" /\ FACTORY_MAP["Nrw"] = "Nef"
      /\ FACTORY_MAP["Orf"] = "Orf" /\ FACTORY_MAP["Pef"] = "Pef" /\ FACTORY_MAP["Raf"] = "Raf"
      /\ FACTORY_MAP["Rw"] = "Rw2" /\ FACTORY_MAP["Rw2"] = "Rw2"
  BY DEF FACTORY_MAP
<1> DEFINE Agrees(x, t) == f.ext = x => FACTORY_MAP[t] = ContentType(f)
<1>6. /\ Agrees("arw", "Arw") /\ Agrees("sr2", "Arw") /\ Agrees("nef", "Nef") /\ Agrees("nrw", "Nrw")
      /\ Agrees("erf", "Erf") /\ Agrees("pef", "Pef") /\ Agrees("cr2", "Cr2")
  BY <1>2, <1>3, <1>4, <1>5 DEF IsOfItsFormat, Tiff
<1>7. /\ Agrees("dng", "Dng") /\ Agrees("gpr", "Gpr") /\ Agrees("jpg", "Jpeg") /\ Agrees("jpeg", "Jpeg")
      /\ Agrees("cr3", "Cr3") /\ Agrees("orf", "Orf") /\ Agrees("raf", "Raf") /\ Agrees("raw", "Rw")
      /\ Agrees("rw2", "Rw2") /\ Agrees("rwl", "Rw2")
  BY <1>2, <1>3, <1>5 DEF IsOfItsFormat
<1>8. ASSUME NEW x, NEW t, e = <<x, t>>, Agrees(x, t)
      PROVE  FACTORY_MAP[e[2]] = ContentType(f)
  <2>1. e[1] = x /\ e[2] = t
    BY <1>8
  <2>2. QED
    BY <1>1, <1>8, <2>1
<1>9. FACTORY_MAP[e[2]] = ContentType(f)
  <2> HIDE DEF Agrees
  <2>1. QED
    BY <1>1, <1>6, <1>7, <1>8 DEF EXT_TYPE
<1>10. QED
  BY <1>1, <1>9

LEMMA ContentIsItsKind ==
  ASSUME NEW f \in OpenedFiles, NEW t \in {ContentType(f), NoType} PROVE IsItsKind(f, t)
<1>1. NoType \notin DOMAIN FACTORY_MAP
  BY DEF FACTORY_MAP, NoType
<1>2. CASE ContentType(f) # NoType
  <2>1. KindOf(f) = ContentType(f)
    BY <1>2, ExtensionsAgree DEF KindOf
  <2>2. QED
    BY <1>1, <1>2, <2>1, ContentTypesHaveRawFiles DEF IsItsKind
<1>3. QED
  BY <1>1, <1>2 DEF IsItsKind

LEMMA ContentTells ==
  ASSUME OpenedAsItsKind, Content PROVE OpenedAsItsKind'
<1> DEFINE f == file_opened
<1>1. f \in OpenedFiles /\ file_opened' = f /\ way' = way /\ kinds' = kinds
  BY DEF OpenedAsItsKind, Content, Identified
<1>2. CASE Identified("error", NoType)
  BY <1>1, <1>2 DEF Identified, OpenedAsItsKind
<1>3. ASSUME NEW t \in {ContentType(f), NoType}, Identified("typed", t)
      PROVE  OpenedAsItsKind'
  <2>1. IsItsKind(f, t)
    BY <1>1, ContentIsItsKind
  <2>2. QED
    BY <1>1, <1>3, <2>1 DEF Identified, OpenedAsItsKind
<1>4. ASSUME NEW n \in 0 .. 16, Told(f, n) # {}, Identified("typed", (CHOOSE m \in Told(f, n) : TRUE).type)
      PROVE  OpenedAsItsKind'
  <2> DEFINE m == CHOOSE m \in Told(f, n) : TRUE
  <2>1. m.type = ContentType(f)
    BY <1>1, <1>4, MagicsTellTheType
  <2>2. QED
    BY <1>3, <1>4, <2>1
<1>5. ASSUME NEW tiff, tiff => f.begins \in {"tiff", "tiff cr"},
             Identified("typed", IF tiff /\ f.dir THEN TypeOfDir(f) ELSE NoType)
      PROVE  OpenedAsItsKind'
  <2>1. (IF tiff /\ f.dir THEN TypeOfDir(f) ELSE NoType) \in {ContentType(f), NoType}
    BY <1>1, <1>5, DirectoriesTellTheType
  <2>2. QED
    BY <1>3, <1>5, <2>1
<1>6. QED
  BY <1>2, <1>4, <1>5 DEF Content

LEMMA FilesAreOpenedAsTheirKind ==
  IdentifySpec => []OpenedAsItsKind
<1>1. IdentifyInit => OpenedAsItsKind
  BY DEF IdentifyInit, OpenedAsItsKind
<1>2. OpenedAsItsKind /\ [IdentifyStep]_identifyVars => OpenedAsItsKind'
  <2> SUFFICES ASSUME OpenedAsItsKind, [IdentifyStep]_identifyVars PROVE OpenedAsItsKind'
    OBVIOUS
  <2>1. CASE Hint
    <3>1. file_opened' = file_opened /\ way' = way /\ kinds' = kinds
      BY <2>1 DEF Hint, Identified
    <3>2. ASSUME opening' = "typed", way.hint = NoType PROVE IsItsKind(file_opened, type')
      <4>1. type' = type_for_extension(Extension) /\ type' # NoType
        BY <2>1, <3>2 DEF Hint, Identified
      <4>2. Extension = file_opened.ext
        BY <4>1, IdentifyAssumption DEF OpenedAsItsKind, Extension
      <4>3. QED
        BY <4>1, <4>2 DEF IsItsKind, KindOf
    <3>3. QED
      BY <3>1, <3>2 DEF OpenedAsItsKind
  <2>2. CASE Content
    BY <2>2, ContentTells
  <2>3. CASE Construct
    <3>1. file_opened' = file_opened /\ way' = way /\ opening' # "typed"
      BY <2>3 DEF Construct, Identified
    <3>2. kinds' \subseteq {KindOf(file_opened)}
      BY <2>3 DEF Construct, OpenedAsItsKind, IsItsKind
    <3>3. QED
      BY <3>1, <3>2 DEF OpenedAsItsKind
  <2>4. CASE OpenAgain
    BY <2>4 DEF OpenAgain, OpenedAsItsKind
  <2>5. CASE UNCHANGED identifyVars
    BY <2>5 DEF identifyVars, OpenedAsItsKind
  <2>6. QED
    BY <2>1, <2>2, <2>3, <2>4, <2>5 DEF IdentifyStep
<1>3. QED
  BY <1>1, <1>2, PTL DEF IdentifySpec

(* However often and however a file is opened, by its name or by its first *)
(* bytes, its directory and its make, it is opened as one kind of file or  *)
(* not at all: the table of extensions, the tests of type_for_content and  *)
(* the factory agree on every file that is what its extension says.        *)
THEOREM FilesOpenAsOneKind ==
  IdentifySpec => []OpenedAsOneKind
<1>1. OpenedAsItsKind => OpenedAsOneKind
  BY DEF OpenedAsItsKind, OpenedAsOneKind
<1>2. QED
  BY <1>1, FilesAreOpenedAsTheirKind, PTL
=============================================================================
