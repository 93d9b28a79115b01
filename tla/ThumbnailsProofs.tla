-------------------------- MODULE ThumbnailsProofs --------------------------
(***************************************************************************)
(* Theorems about Thumbnails, for every list of sources and every size.    *)
(***************************************************************************)
EXTENDS Thumbnails, TLAPS, WellFoundedInduction

(* The loop of RawFile::thumbnail, between two sizes: what it has seen of  *)
(* the list, and the nearest of that on each side.                         *)
Seen == 1 .. next - 1

BiggerIsNearest ==
  /\ \A i \in Seen : storage[i].dim > tsize => bigger <= storage[i].dim
  /\ bigger < MaxU32 => \E i \in Seen : storage[i].dim = bigger /\ bigger > tsize

SmallerIsNearest ==
  /\ \A i \in Seen : storage[i].dim < tsize => storage[i].dim <= smaller
  /\ smaller > 0 => \E i \in Seen : storage[i].dim = smaller /\ smaller < tsize

LoopInvariant ==
  /\ next <= Len(storage) + 1
  /\ \A i \in Seen : storage[i].dim # tsize
  /\ BiggerIsNearest
  /\ SmallerIsNearest

IInv ==
  /\ TypeOK
  /\ stage = "choose" => LoopInvariant
  /\ ChoiceIsNearest

LEMMA InitSatisfiesTypeOK == Init => TypeOK
<1> SUFFICES ASSUME Init PROVE TypeOK
  OBVIOUS
<1>1. sources \in Seq(Source)
  BY ThumbnailsAssumption DEF Init
<1>2. list \in Seq(Listing)
  BY DEF Init
<1>3. MaxU32 \in Nat \ {0}
  BY ThumbnailsAssumption
<1>4. QED
  BY <1>1, <1>2, <1>3 DEF Init, TypeOK

LEMMA InitSatisfiesIInv == Init => IInv
BY InitSatisfiesTypeOK DEF Init, IInv, ChoiceIsNearest

(* The list is in place while the loop runs.                               *)
LEMMA ListIsKept ==
  ASSUME TypeOK, stage \in {"choose", "fetch"}
  PROVE  /\ storage \in Seq(Listing)
         /\ \A i \in DOMAIN storage : storage[i].dim \in 0 .. MaxU32
         /\ DOMAIN storage = 1 .. Len(storage) /\ Len(storage) \in Nat
<1>1. storage \in Seq(Listing)
  BY DEF TypeOK
<1>2. DOMAIN storage = 1 .. Len(storage) /\ Len(storage) \in Nat
  BY <1>1
<1>3. \A i \in DOMAIN storage : storage[i] \in Listing
  BY <1>1
<1>4. QED
  BY <1>1, <1>2, <1>3 DEF Listing

(* The size chosen after the loop is the nearest of the whole list.        *)
LEMMA DecidedIsNearest ==
  ASSUME TypeOK, LoopInvariant, stage = "choose", next > Len(storage),
         NEW f, f = IF bigger < MaxU32 THEN bigger ELSE smaller, f # 0
  PROVE  IsNearest(f, tsize, Listed)
<1> USE ThumbnailsAssumption
<1>1. /\ tsize \in 0 .. MaxU32 /\ tsize > 0 /\ next \in Nat
      /\ bigger \in 0 .. MaxU32 /\ smaller \in 0 .. MaxU32
  BY DEF TypeOK
<1>2. /\ \A i \in DOMAIN storage : storage[i].dim \in 0 .. MaxU32
      /\ DOMAIN storage = Seen
  BY ListIsKept, <1>1 DEF LoopInvariant, Seen
<1>3. tsize \notin Listed
  BY <1>2 DEF Listed, LoopInvariant
<1>4. CASE bigger < MaxU32
  <2>1. f = bigger /\ f \in Listed /\ f > tsize
    BY <1>1, <1>2, <1>4 DEF LoopInvariant, BiggerIsNearest, Listed
  <2>2. \A r \in Listed : r > tsize => r >= f
    BY <1>1, <1>2, <2>1 DEF LoopInvariant, BiggerIsNearest, Listed
  <2>3. QED
    BY <1>1, <1>3, <2>1, <2>2 DEF IsNearest
<1>5. CASE ~(bigger < MaxU32)
  <2>1. f = smaller /\ bigger = MaxU32 /\ smaller > 0
    BY <1>1, <1>5
  <2>2. f \in Listed /\ f < tsize
    BY <1>1, <1>2, <2>1 DEF LoopInvariant, SmallerIsNearest, Listed
  <2>3. ASSUME NEW r \in Listed PROVE r <= f \/ r = MaxU32
    <3>1. PICK i \in Seen : r = storage[i].dim /\ r \in 0 .. MaxU32
      BY <1>2 DEF Listed
    <3>2. CASE r < tsize
      BY <1>1, <2>1, <3>1, <3>2 DEF LoopInvariant, SmallerIsNearest
    <3>3. CASE r > tsize
      BY <1>1, <2>1, <3>1, <3>3 DEF LoopInvariant, BiggerIsNearest
    <3>4. QED
      BY <1>1, <1>3, <3>1, <3>2, <3>3
  <2>4. QED
    BY <1>1, <1>3, <2>1, <2>2, <2>3 DEF IsNearest
<1>6. QED
  BY <1>4, <1>5

(* A size that is listed is the nearest to itself.                         *)
LEMMA EqualIsNearest ==
  ASSUME TypeOK, stage = "choose", next <= Len(storage),
         storage[next].dim = tsize
  PROVE  IsNearest(tsize, tsize, Listed)
<1>1. next \in DOMAIN storage /\ tsize \in Nat
  BY ListIsKept, ThumbnailsAssumption DEF TypeOK
<1>2. QED
  BY <1>1 DEF IsNearest, Listed

(* One more size: the loop invariant is kept.                              *)
LEMMA ComparedIsNearest ==
  ASSUME TypeOK, LoopInvariant, stage = "choose", next <= Len(storage),
         UNCHANGED <<storage, tsize>>,
         CompareLess(storage[next].dim) \/ CompareGreater(storage[next].dim)
  PROVE  LoopInvariant' /\ next' \in Nat \ {0}
         /\ bigger' \in 0 .. MaxU32 /\ smaller' \in 0 .. MaxU32
<1> DEFINE s == storage[next].dim
<1>1. /\ tsize \in Nat /\ next \in Nat \ {0} /\ MaxU32 \in Nat
      /\ bigger \in 0 .. MaxU32 /\ smaller \in 0 .. MaxU32
  BY ThumbnailsAssumption DEF TypeOK
<1>2. /\ \A i \in Seen : storage[i].dim \in 0 .. MaxU32
      /\ s \in 0 .. MaxU32 /\ Len(storage) \in Nat
  BY ListIsKept, <1>1 DEF LoopInvariant, Seen
<1>3. next' = next + 1 /\ next' \in Nat \ {0}
  BY <1>1 DEF CompareLess, CompareGreater
<1>4. Seen' = Seen \cup {next}
  BY <1>1, <1>3 DEF Seen
<1>5. s # tsize
  BY <1>1, <1>2 DEF CompareLess, CompareGreater
<1>6. next' <= Len(storage') + 1 /\ \A i \in Seen' : storage'[i].dim # tsize'
  BY <1>1, <1>2, <1>3, <1>4, <1>5 DEF LoopInvariant
<1>7. CASE CompareLess(s)
  <2>1. bigger' = bigger /\ s < tsize
    BY <1>7 DEF CompareLess
  <2>2. BiggerIsNearest'
    BY <1>1, <1>2, <1>4, <2>1 DEF LoopInvariant, BiggerIsNearest
  <2>3. /\ smaller' = IF s > smaller THEN s ELSE smaller
        /\ smaller' \in 0 .. MaxU32
    BY <1>1, <1>2, <1>7 DEF CompareLess
  <2>4. SmallerIsNearest'
    BY <1>1, <1>2, <1>4, <2>1, <2>3 DEF LoopInvariant, SmallerIsNearest
  <2>5. QED
    BY <1>1, <1>3, <1>6, <2>1, <2>2, <2>3, <2>4 DEF LoopInvariant
<1>8. CASE CompareGreater(s)
  <2>1. smaller' = smaller /\ s > tsize
    BY <1>8 DEF CompareGreater
  <2>2. SmallerIsNearest'
    BY <1>1, <1>2, <1>4, <2>1 DEF LoopInvariant, SmallerIsNearest
  <2>3. /\ bigger' = IF s < bigger THEN s ELSE bigger
        /\ bigger' \in 0 .. MaxU32
    BY <1>1, <1>2, <1>8 DEF CompareGreater
  <2>4. BiggerIsNearest'
    BY <1>1, <1>2, <1>4, <2>1, <2>3 DEF LoopInvariant, BiggerIsNearest
  <2>5. QED
    BY <1>1, <1>3, <1>6, <2>1, <2>2, <2>3, <2>4 DEF LoopInvariant
<1>9. QED
  BY <1>7, <1>8

(* Where the list is chosen from, nothing has been seen of it yet.         *)
LEMMA ChooseStartsTheLoop ==
  ASSUME Choose, TypeOK, storage' \in Seq(Listing), tsize' \in 0 .. MaxU32
  PROVE  LoopInvariant'
<1>1. next' = 1 /\ bigger' = MaxU32 /\ smaller' = 0 /\ Len(storage') \in Nat
  BY DEF Choose
<1>2. MaxU32 \in Nat /\ Seen' = {}
  BY <1>1, ThumbnailsAssumption DEF Seen
<1>3. QED
  BY <1>1, <1>2 DEF LoopInvariant, BiggerIsNearest, SmallerIsNearest

(* The steps of the comparison and of the decision settle on a size that   *)
(* is the nearest.                                                         *)
LEMMA CompareKeepsIInv == IInv /\ Compare => IInv'
<1> SUFFICES ASSUME IInv, Compare PROVE IInv'
  OBVIOUS
<1> USE ThumbnailsAssumption
<1> DEFINE s == storage[next].dim
<1>1. /\ TypeOK /\ stage = "choose" /\ LoopInvariant /\ next <= Len(storage)
      /\ UNCHANGED <<sources, storage, tsize, list, answer>>
  BY DEF IInv, Compare
<1>2. CASE CompareLess(s) \/ CompareGreater(s)
  <2>1. LoopInvariant' /\ next' \in Nat \ {0}
        /\ bigger' \in 0 .. MaxU32 /\ smaller' \in 0 .. MaxU32
    BY <1>1, <1>2, ComparedIsNearest
  <2>2. stage' = "choose" /\ found' = found
    BY <1>1, <1>2 DEF CompareLess, CompareGreater
  <2>3. TypeOK'
    BY <1>1, <2>1, <2>2 DEF TypeOK
  <2>4. QED
    BY <2>1, <2>2, <2>3 DEF IInv, ChoiceIsNearest
<1>3. CASE CompareEqual(s)
  <2>1. /\ found' = tsize /\ stage' = "fetch"
        /\ UNCHANGED <<next, bigger, smaller>> /\ s = tsize
    BY <1>3 DEF CompareEqual
  <2>2. IsNearest(tsize, tsize, Listed)
    BY <1>1, <2>1, EqualIsNearest
  <2>3. IsNearest(found, tsize, Listed)'
    BY <1>1, <2>1, <2>2 DEF IsNearest, Listed
  <2>4. TypeOK'
    BY <1>1, <2>1 DEF TypeOK
  <2>5. QED
    BY <2>1, <2>3, <2>4 DEF IInv, ChoiceIsNearest
<1>4. QED
  BY <1>2, <1>3 DEF Compare

LEMMA DecideKeepsIInv == IInv /\ Decide => IInv'
<1> SUFFICES ASSUME IInv, Decide PROVE IInv'
  OBVIOUS
<1> USE ThumbnailsAssumption
<1>1. /\ TypeOK /\ stage = "choose" /\ LoopInvariant /\ next > Len(storage)
      /\ UNCHANGED <<sources, storage, tsize, list, next, bigger, smaller>>
      /\ found' = IF bigger < MaxU32 THEN bigger ELSE smaller
  BY DEF IInv, Decide
<1>2. found' \in 0 .. MaxU32
  BY <1>1 DEF TypeOK
<1>3. CASE found' = 0
  <2>1. stage' = "idle"
    BY <1>3 DEF Decide, Return
  <2>2. TypeOK'
    BY <1>1, <1>2, <2>1 DEF TypeOK
  <2>3. QED
    BY <2>1, <2>2 DEF IInv, ChoiceIsNearest
<1>4. CASE found' # 0
  <2>1. stage' = "fetch"
    BY <1>4 DEF Decide
  <2>2. IsNearest(found', tsize, Listed)
    BY <1>1, <1>4, DecidedIsNearest
  <2>3. IsNearest(found, tsize, Listed)'
    BY <1>1, <2>2 DEF IsNearest, Listed
  <2>4. TypeOK'
    BY <1>1, <1>2, <2>1 DEF TypeOK
  <2>5. QED
    BY <2>1, <2>3, <2>4 DEF IInv, ChoiceIsNearest
<1>5. QED
  BY <1>3, <1>4

(* The steps before the choice.                                            *)
LEMMA AskKeepsIInv ==
  ASSUME IInv, NEW t \in Asked, Ask(t)
  PROVE  IInv'
<1> USE ThumbnailsAssumption
<1>1. /\ tsize' \in 0 .. MaxU32 /\ stage' \in {"idle", "thumbnails"}
      /\ stage' # "idle" => tsize' > 0
  BY DEF Ask, Return
<1>2. TypeOK'
  BY <1>1 DEF IInv, TypeOK, Ask, loop
<1>3. QED
  BY <1>1, <1>2 DEF IInv, ChoiceIsNearest

LEMMA ListKeepsIInv ==
  ASSUME IInv, Cached \/ NoContainer \/ StartList \/ AddSource \/ KeepList
  PROVE  IInv'
<1> USE ThumbnailsAssumption
<1>1. TypeOK /\ MaxU32 \in Nat
  BY DEF IInv
<1>2. CASE Cached
  <2>1. /\ storage \in Seq(Listing) /\ storage # Unset
        /\ UNCHANGED <<sources, storage, tsize, list>>
    BY <1>1, <1>2 DEF TypeOK, Cached
  <2>2. LoopInvariant' /\ stage' = "choose"
    BY <1>1, <1>2, <2>1, ChooseStartsTheLoop DEF TypeOK, Cached, Choose
  <2>3. tsize > 0
    BY <1>2 DEF IInv, Cached, TypeOK
  <2>4. TypeOK'
    BY <1>1, <1>2, <2>1, <2>3 DEF TypeOK, Cached, Choose
  <2>5. QED
    BY <2>2, <2>4 DEF IInv, ChoiceIsNearest
<1>3. CASE NoContainer
  <2>1. stage' = "idle" /\ UNCHANGED <<sources, storage, tsize, list, loop>>
    BY <1>3 DEF NoContainer, Return
  <2>2. TypeOK'
    BY <1>1, <2>1 DEF TypeOK, loop
  <2>3. QED
    BY <2>1, <2>2 DEF IInv, ChoiceIsNearest
<1>4. CASE StartList
  <2>1. stage' = "list" /\ list' \in Seq(Listing) /\ next' \in Nat \ {0}
    BY <1>4 DEF StartList
  <2>2. TypeOK'
    BY <1>1, <1>4, <2>1 DEF TypeOK, StartList
  <2>3. QED
    BY <2>1, <2>2 DEF IInv, ChoiceIsNearest
<1>5. CASE AddSource
  <2>1. /\ stage' = stage /\ stage = "list" /\ next \in 1 .. Len(sources)
        /\ sources \in Seq(Source) /\ list \in Seq(Listing)
    BY <1>1, <1>5 DEF AddSource, TypeOK
  <2>2. sources[next] \in Source
    BY <2>1
  <2>3. [dim |-> sources[next].dim, of |-> next] \in Listing
    BY <2>1, <2>2 DEF Source, Listing
  <2>4. list' \in Seq(Listing) /\ next' \in Nat \ {0}
    BY <1>5, <2>1, <2>3 DEF AddSource
  <2>5. TypeOK'
    BY <1>1, <1>5, <2>1, <2>4 DEF AddSource, TypeOK
  <2>6. QED
    BY <2>1, <2>5 DEF IInv, ChoiceIsNearest
<1>6. CASE KeepList
  <2>1. /\ storage' \in Seq(Listing) /\ storage' # Unset
        /\ UNCHANGED <<sources, tsize, list>> /\ tsize \in 0 .. MaxU32
    BY <1>1, <1>6 DEF TypeOK, KeepList
  <2>2. LoopInvariant' /\ stage' = "choose"
    BY <1>1, <1>6, <2>1, ChooseStartsTheLoop DEF KeepList, Choose
  <2>3. tsize > 0
    BY <1>6 DEF IInv, KeepList, TypeOK
  <2>4. TypeOK'
    BY <1>1, <1>6, <2>1, <2>3 DEF TypeOK, KeepList, Choose
  <2>5. QED
    BY <2>2, <2>4 DEF IInv, ChoiceIsNearest
<1>7. QED
  BY <1>2, <1>3, <1>4, <1>5, <1>6

LEMMA FetchKeepsIInv == IInv /\ Fetch => IInv'
<1> SUFFICES ASSUME IInv, Fetch PROVE IInv'
  OBVIOUS
<1>1. stage' = "idle" /\ UNCHANGED <<sources, storage, tsize, list, loop>>
  BY DEF Fetch, Return
<1>2. TypeOK'
  BY <1>1 DEF IInv, TypeOK, loop
<1>3. QED
  BY <1>1, <1>2 DEF IInv, ChoiceIsNearest

LEMMA StepKeepsIInv == IInv /\ [Next]_vars => IInv'
<1> SUFFICES ASSUME IInv, [Next]_vars PROVE IInv'
  OBVIOUS
<1>1. CASE Call
  BY <1>1, AskKeepsIInv DEF Call
<1>2. CASE Step
  BY <1>2, ListKeepsIInv, CompareKeepsIInv, DecideKeepsIInv, FetchKeepsIInv
  DEF Step
<1>3. CASE UNCHANGED vars
  BY <1>3 DEF vars, loop, IInv, TypeOK, LoopInvariant, Seen, BiggerIsNearest,
     SmallerIsNearest, ChoiceIsNearest, IsNearest, Listed
<1>4. QED
  BY <1>1, <1>2, <1>3 DEF Next

(* The inductive invariant of the choice.                                  *)
THEOREM ThumbnailsInvariance == Spec => []IInv
BY InitSatisfiesIInv, StepKeepsIInv, PTL DEF Spec

(* RawFile::thumbnail keeps its variables in their types.                  *)
THEOREM ThumbnailsTypes == Spec => []TypeOK
<1>1. IInv => TypeOK
  BY DEF IInv
<1>2. QED
  BY <1>1, ThumbnailsInvariance, PTL

(* rawfile.rs, thumbnail: the size chosen is the nearest in the list, for  *)
(* every list a format can make and every size.                            *)
THEOREM ChoosesTheNearest == Spec => []ChoiceIsNearest
<1>1. IInv => ChoiceIsNearest
  BY DEF IInv
<1>2. QED
  BY <1>1, ThumbnailsInvariance, PTL

(* There is a first of every size that is listed.                          *)
LEMMA ListedHasAFirst ==
  ASSUME TypeOK, stage = "fetch", NEW s \in Listed
  PROVE  First(s) # {}
<1> DEFINE T == {i \in DOMAIN storage : storage[i].dim = s}
<1>1. T \subseteq Nat /\ T # {} /\ DOMAIN storage = 1 .. Len(storage)
      /\ Len(storage) \in Nat
  BY ListIsKept DEF Listed
<1>2. PICK i \in T : \A j \in T : <<j, i>> \notin OpToRel(<, Nat)
  BY <1>1, WFMin, NatLessThanWellFounded
<1>3. \A j \in T : ~(j < i)
  BY <1>1, <1>2 DEF OpToRel
<1>4. \A j \in 1 .. i - 1 : storage[j].dim # s
  BY <1>1, <1>3
<1>5. i \in First(s)
  BY <1>4 DEF First
<1>6. QED
  BY <1>5

(* rawfile.rs, thumbnail: a caller is told that there is no thumbnail only *)
(* when the list has none to give.                                         *)
LEMMA StepRefusesOnlyWhenNone ==
  ASSUME IInv, [Next]_vars, answer' # answer, answer' = Error("NotFound")
  PROVE  Listed \subseteq {0, MaxU32} /\ tsize \notin Listed
<1> USE ThumbnailsAssumption
<1>1. CASE Decide
  <2>1. /\ TypeOK /\ stage = "choose" /\ LoopInvariant /\ next > Len(storage)
        /\ found' = IF bigger < MaxU32 THEN bigger ELSE smaller
        /\ found' = 0
    BY <1>1 DEF IInv, Decide
  <2>2. /\ tsize \in 1 .. MaxU32 /\ next \in Nat
        /\ bigger \in 0 .. MaxU32 /\ smaller \in 0 .. MaxU32
    BY <2>1 DEF TypeOK
  <2>3. /\ \A i \in DOMAIN storage : storage[i].dim \in 0 .. MaxU32
        /\ DOMAIN storage = Seen
    BY <2>1, <2>2, ListIsKept DEF LoopInvariant, Seen
  <2>4. bigger = MaxU32 /\ smaller = 0
    BY <2>1, <2>2, <2>3 DEF LoopInvariant, BiggerIsNearest
  <2>5. \A i \in DOMAIN storage : storage[i].dim \in {0, MaxU32} \ {tsize}
    BY <2>1, <2>2, <2>3, <2>4
    DEF LoopInvariant, BiggerIsNearest, SmallerIsNearest
  <2>6. QED
    BY <2>5 DEF Listed
<1>2. CASE Fetch
  <2>1. stage = "fetch" /\ found \in Listed /\ TypeOK
    BY <1>2 DEF IInv, Fetch, ChoiceIsNearest, IsNearest
  <2>2. First(found) # {}
    BY <2>1, ListedHasAFirst
  <2>3. answer' # Error("NotFound")
    BY <1>2, <2>2 DEF Fetch, Return, Error
  <2>4. QED
    BY <2>3
<1>3. CASE Call
  BY <1>3 DEF Call, Ask, Return, Error
<1>4. CASE NoContainer
  BY <1>4 DEF NoContainer, Return, Error
<1>5. CASE Cached \/ StartList \/ AddSource \/ KeepList \/ Compare
  BY <1>5 DEF Cached, StartList, AddSource, KeepList, Compare
<1>6. CASE UNCHANGED vars
  BY <1>6 DEF vars
<1>7. QED
  BY <1>1, <1>2, <1>3, <1>4, <1>5, <1>6 DEF Next, Step

THEOREM NothingIsRefusedThatIsThere == Spec => RefusedOnlyWhenNone
<1>1. IInv /\ [Next]_vars
        => [answer' # answer /\ answer' = Error("NotFound")
              => Listed \subseteq {0, MaxU32} /\ tsize \notin Listed]_vars
  BY StepRefusesOnlyWhenNone
<1>2. QED
  BY <1>1, ThumbnailsInvariance, PTL DEF Spec, RefusedOnlyWhenNone

-----------------------------------------------------------------------------
(* The list, of the sources before n: each listed is one of them that can  *)
(* be had, in their order, and each that can be had has its size listed,   *)
(* by itself or by one before it.                                          *)
ListsWhatIsThere(l, n) ==
  /\ \A j \in DOMAIN l : /\ l[j].of \in 1 .. n - 1 /\ CanBeHad(sources[l[j].of])
                         /\ l[j].dim = sources[l[j].of].dim
  /\ \A j, k \in DOMAIN l : j < k => l[j].of < l[k].of
  /\ \A i \in 1 .. n - 1 : CanBeHad(sources[i]) =>
       \E j \in DOMAIN l : l[j].dim = sources[i].dim /\ l[j].of <= i

ListedAsTheyAre ==
  /\ stage = "list" => next <= Len(sources) + 1 /\ ListsWhatIsThere(list, next)
  /\ storage # Unset => ListsWhatIsThere(storage, Len(sources) + 1)

LEMMA AddSourceListsWhatIsThere ==
  ASSUME TypeOK, ListedAsTheyAre, AddSource PROVE ListsWhatIsThere(list, next)'
<1> DEFINE s == sources[next]
           new == [dim |-> s.dim, of |-> next]
<1>1. /\ list \in Seq(Listing) /\ sources' = sources /\ next \in Nat \ {0} /\ next' = next + 1
      /\ next <= Len(sources) /\ sources \in Seq(Source)
  BY DEF TypeOK, AddSource
<1>2. ListsWhatIsThere(list, next)
  BY DEF AddSource, ListedAsTheyAre
<1>3. /\ \A j \in DOMAIN list : /\ list[j].of \in 1 .. next - 1 /\ CanBeHad(sources[list[j].of])
                               /\ list[j].dim = sources[list[j].of].dim
      /\ \A j, k \in DOMAIN list : j < k => list[j].of < list[k].of
      /\ \A i \in 1 .. next - 1 : CanBeHad(sources[i]) =>
           \E j \in DOMAIN list : list[j].dim = sources[i].dim /\ list[j].of <= i
  BY <1>2 DEF ListsWhatIsThere
<1>4. CASE ~IsListed(s)
  <2>1. list' = list
    BY <1>4 DEF AddSource
  <2>2. CanBeHad(s) => \E j \in DOMAIN list : list[j].dim = s.dim /\ list[j].of <= next
    <3>1. \A j \in DOMAIN list : list[j].of <= next
      BY <1>1, <1>3
    <3>2. CanBeHad(s) => \E j \in DOMAIN list : list[j].dim = s.dim
      BY <1>4 DEF IsListed
    <3>3. QED
      BY <3>1, <3>2
  <2>3. \A i \in 1 .. next' - 1 : i \in 1 .. next - 1 \/ i = next
    BY <1>1
  <2>4. \A i \in 1 .. next' - 1 : CanBeHad(sources[i]) =>
          \E j \in DOMAIN list : list[j].dim = sources[i].dim /\ list[j].of <= i
    BY <1>3, <2>2, <2>3
  <2>5. \A j \in DOMAIN list : list[j].of \in 1 .. next' - 1
    BY <1>1, <1>3
  <2>6. QED
    BY <1>1, <1>3, <2>1, <2>4, <2>5 DEF ListsWhatIsThere, CanBeHad
<1>5. CASE IsListed(s)
  <2>1. list' = Append(list, new) /\ CanBeHad(s)
    BY <1>5 DEF AddSource, IsListed
  <2>2. new \in Listing
    <3>1. s \in Source
      BY <1>1
    <3>2. QED
      BY <1>1, <3>1 DEF Source, Listing
  <2>3. /\ DOMAIN list = 1 .. Len(list) /\ Len(list) \in Nat
        /\ DOMAIN list' = 1 .. Len(list) + 1
        /\ \A i \in 1 .. Len(list) : list'[i] = list[i]
        /\ list'[Len(list) + 1] = new
    BY <1>1, <2>1, <2>2
  <2>4. \A j \in DOMAIN list' : /\ list'[j].of \in 1 .. next' - 1 /\ CanBeHad(sources[list'[j].of])
                               /\ list'[j].dim = sources[list'[j].of].dim
    BY <1>1, <1>3, <2>1, <2>3
  <2>5. \A j, k \in DOMAIN list' : j < k => list'[j].of < list'[k].of
    BY <1>1, <1>3, <2>3
  <2>6. ASSUME NEW i \in 1 .. next' - 1, CanBeHad(sources[i])
        PROVE  \E j \in DOMAIN list' : list'[j].dim = sources[i].dim /\ list'[j].of <= i
    <3>1. CASE i = next
      BY <1>1, <2>3, <3>1
    <3>2. CASE i \in 1 .. next - 1
      <4>1. PICK j \in DOMAIN list : list[j].dim = sources[i].dim /\ list[j].of <= i
        BY <1>3, <2>6, <3>2
      <4>2. QED
        BY <2>3, <4>1
    <3>3. QED
      BY <1>1, <3>1, <3>2
  <2>7. QED
    BY <1>1, <2>4, <2>5, <2>6 DEF ListsWhatIsThere, CanBeHad
<1>6. QED
  BY <1>4, <1>5

LEMMA StepListsWhatIsThere ==
  ASSUME TypeOK, ListedAsTheyAre, [Next]_vars PROVE ListedAsTheyAre'
<1>1. sources' = sources
  BY DEF Next, Call, Step, Ask, Cached, NoContainer, StartList, AddSource, KeepList, Compare,
     Decide, Fetch, vars
<1>2. CASE AddSource
  <2>1. stage' = stage /\ storage' = storage /\ stage = "list" /\ next' <= Len(sources) + 1
    BY <1>2 DEF AddSource, TypeOK
  <2>2. ListsWhatIsThere(list, next)'
    BY <1>2, AddSourceListsWhatIsThere
  <2>3. QED
    BY <1>1, <2>1, <2>2 DEF ListedAsTheyAre, ListsWhatIsThere, CanBeHad
<1>3. CASE StartList
  <2>1. list' = <<>> /\ next' = 1 /\ storage' = storage /\ storage = Unset /\ Len(sources) \in Nat
    BY <1>3 DEF StartList, TypeOK
  <2>2. ListsWhatIsThere(list, next)'
    BY <2>1 DEF ListsWhatIsThere
  <2>3. QED
    BY <1>1, <2>1, <2>2 DEF ListedAsTheyAre
<1>4. CASE KeepList
  <2>1. storage' = list /\ stage' = "choose" /\ next = Len(sources) + 1
        /\ ListsWhatIsThere(list, next)
    BY <1>4 DEF KeepList, Choose, ListedAsTheyAre, TypeOK
  <2>2. QED
    BY <1>1, <2>1 DEF ListedAsTheyAre, ListsWhatIsThere, CanBeHad
<1>5. CASE ~AddSource /\ ~StartList /\ ~KeepList
  <2>1. UNCHANGED <<sources, list, storage>> /\ (stage' = "list" => stage = "list" /\ next' = next)
    BY <1>5 DEF Next, Call, Step, Ask, Return, Cached, Choose, NoContainer, Compare, CompareLess,
       CompareGreater, CompareEqual, Decide, Fetch, vars, loop
  <2>2. QED
    BY <2>1 DEF ListedAsTheyAre, ListsWhatIsThere, CanBeHad
<1>6. QED
  BY <1>2, <1>3, <1>4, <1>5

\* What is fetched from a complete list is the nearest, and the first, of the file.
LEMMA FetchedIsTheFilesNearest ==
  ASSUME IInv, ListedAsTheyAre, Fetch, answer'.kind = "thumbnail"
  PROVE  /\ answer'.of \in Had
         /\ IsNearest(sources[answer'.of].dim, tsize, {sources[i].dim : i \in Had})
         /\ \A i \in Had : i < answer'.of => sources[i].dim # sources[answer'.of].dim
<1> DEFINE g == answer'.of
           Sizes == {sources[i].dim : i \in Had}
<1>1. /\ TypeOK /\ stage = "fetch" /\ storage # Unset /\ IsNearest(found, tsize, Listed)
      /\ ListsWhatIsThere(storage, Len(sources) + 1)
      /\ DOMAIN sources = 1 .. Len(sources) /\ Len(sources) \in Nat
  BY DEF IInv, ListedAsTheyAre, Fetch, TypeOK, ChoiceIsNearest
<1>2. PICK k \in First(found) : g = storage[k].of
  BY DEF Fetch, Return, Error
<1>3. /\ k \in DOMAIN storage /\ storage[k].dim = found
      /\ \A j \in 1 .. k - 1 : storage[j].dim # found
      /\ DOMAIN storage = 1 .. Len(storage) /\ Len(storage) \in Nat
  BY <1>1, <1>2, ListIsKept DEF First
<1>4. g \in Had /\ sources[g].dim = found
  BY <1>1, <1>2, <1>3 DEF ListsWhatIsThere, Had
<1>5. Sizes = Listed
  BY <1>1 DEF ListsWhatIsThere, Had, Listed
<1>6. ASSUME NEW i \in Had, i < g, sources[i].dim = found PROVE FALSE
  <2>1. PICK j \in DOMAIN storage : storage[j].dim = found /\ storage[j].of <= i
    BY <1>1, <1>6 DEF ListsWhatIsThere, Had
  <2>2. storage[j].of \in Int /\ g \in Int /\ i \in Int
    BY <1>1, <1>2, <1>3, <2>1 DEF ListsWhatIsThere, Had
  <2>3. ~(j < k)
    BY <1>3, <2>1
  <2>4. j = k \/ k < j
    BY <1>3, <2>3
  <2>5. g <= storage[j].of
    BY <1>1, <1>2, <1>3, <2>2, <2>4 DEF ListsWhatIsThere
  <2>6. QED
    BY <1>6, <2>1, <2>2, <2>5
<1>7. QED
  BY <1>1, <1>4, <1>5, <1>6

LEMMA FilesAreListedAsTheyAre == Spec => []ListedAsTheyAre
<1>1. Init => ListedAsTheyAre
  BY DEF Init, ListedAsTheyAre
<1>2. IInv /\ ListedAsTheyAre /\ [Next]_vars => ListedAsTheyAre'
  BY StepListsWhatIsThere DEF IInv
<1>3. QED
  BY <1>1, <1>2, ThumbnailsInvariance, PTL DEF Spec

(* rawfile.rs, thumbnail, and tiff/container.rs, add_thumbnail_from_stream:*)
(* whatever streams the list leaves out, a caller gets the nearest of all  *)
(* that the file has, and of that size the one its format comes to first.  *)
THEOREM CallersGetTheFilesNearest == Spec => GivenIsTheFilesNearest
<1>1. IInv /\ ListedAsTheyAre /\ [Next]_vars
        => [stage = "fetch" /\ answer'.kind = "thumbnail" =>
              /\ answer'.of \in Had
              /\ IsNearest(sources[answer'.of].dim, tsize, {sources[i].dim : i \in Had})
              /\ \A i \in Had : i < answer'.of => sources[i].dim # sources[answer'.of].dim]_vars
  <2> SUFFICES ASSUME IInv, ListedAsTheyAre, [Next]_vars, vars' # vars,
                      stage = "fetch", answer'.kind = "thumbnail"
               PROVE  Fetch
    BY FetchedIsTheFilesNearest
  <2>1. QED
    BY DEF Next, Call, Step, Ask, Cached, NoContainer, StartList, AddSource, KeepList, Compare, Decide
<1>2. QED
  BY <1>1, ThumbnailsInvariance, FilesAreListedAsTheyAre, PTL DEF Spec, GivenIsTheFilesNearest
=============================================================================
