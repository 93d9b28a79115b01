---------------------------- MODULE ViewIoProofs ----------------------------
(***************************************************************************)
(* Theorems about ViewIo, for every set of handles, every file length and  *)
(* every set of places and counts asked for.                               *)
(***************************************************************************)
EXTENDS ViewIo, TLAPS

(* What the three invariants need of each other: the lengths of the        *)
(* windows bound the seeks, the holder is open, so the window of the       *)
(* holder is one WindowsReachTheEnd speaks of.                             *)
IInv == TypeOK /\ WindowsReachTheEnd /\ HolderIsInItsWindow

(* Placing a View on a byte of the file gives it a window that reaches the *)
(* end, with the cursor on its first byte.                                 *)
LEMMA PlaceViewKeepsIInv ==
  ASSUME IInv, NEW v \in View, NEW off \in Ask, off <= length,
         PlaceView(v, off)
  PROVE  IInv'
<1>1. TypeOK'
  BY ViewIoAssumption DEF IInv, TypeOK, PlaceView
<1>2. WindowsReachTheEnd'
  BY ViewIoAssumption DEF IInv, TypeOK, WindowsReachTheEnd, PlaceView
<1>3. HolderIsInItsWindow'
  BY ViewIoAssumption DEF IInv, TypeOK, HolderIsInItsWindow, PlaceView
<1>4. QED
  BY <1>1, <1>2, <1>3 DEF IInv

LEMMA ErrorKeepsIInv == ASSUME IInv, Error PROVE IInv'
BY DEF IInv, TypeOK, WindowsReachTheEnd, HolderIsInItsWindow, Error

(* A seek stays in the window, whatever place is asked for; a read, of any  *)
(* number of bytes, in the file or where the cursor was.                   *)
LEMMA SeekStartKeepsIInv ==
  ASSUME IInv, NEW v \in View, NEW p \in Nat, SeekStart(v, p)
  PROVE  IInv'
<1> USE ViewIoAssumption
<1>1. CASE Error
  BY <1>1, ErrorKeepsIInv
<1>2. CASE ~Error
  <2>1. /\ v \in open /\ p <= len[v] /\ pos' = p + offset[v] /\ holder' = v
        /\ UNCHANGED <<length, alive, open, offset, len>>
    BY <1>2 DEF SeekStart
  <2>2. p + offset[v] <= length
    BY <2>1 DEF IInv, TypeOK, WindowsReachTheEnd
  <2>3. QED
    BY <2>1, <2>2
    DEF IInv, TypeOK, WindowsReachTheEnd, HolderIsInItsWindow
<1>3. QED
  BY <1>1, <1>2

LEMMA ReadKeepsIInv ==
  ASSUME IInv, NEW v \in View, NEW n \in Nat, Read(v, n)
  PROVE  IInv'
<1> USE ViewIoAssumption
<1>1. PICK k \in 0 .. n : k <= Left /\ pos' = pos + k
  BY DEF Read
<1>2. pos' \in 0 .. Limit /\ pos' >= pos
  BY <1>1 DEF Left, IInv, TypeOK
<1>3. QED
  BY <1>2 DEF IInv, TypeOK, WindowsReachTheEnd, HolderIsInItsWindow, Read, Uses

(* Every operation of a View keeps the three invariants.                   *)
LEMMA StepKeepsIInv == ASSUME IInv, [Next]_vars PROVE IInv'
<1> USE ViewIoAssumption
<1>1. ASSUME NEW v \in View, NEW off \in Ask, CreateView(v, off)
      PROVE  IInv'
  BY <1>1, PlaceViewKeepsIInv, ErrorKeepsIInv DEF CreateView
<1>2. ASSUME NEW u \in View, NEW v \in View, NEW off \in Ask,
             CreateSubview(u, v, off)
      PROVE  IInv'
  BY <1>2, PlaceViewKeepsIInv, ErrorKeepsIInv DEF CreateSubview
<1>3. ASSUME NEW u \in View, NEW v \in View, CloneView(u, v)
      PROVE  IInv'
  <2>1. TypeOK'
    BY <1>3 DEF IInv, TypeOK, CloneView
  <2>2. WindowsReachTheEnd'
    BY <1>3 DEF IInv, TypeOK, WindowsReachTheEnd, CloneView
  <2>3. HolderIsInItsWindow'
    BY <1>3 DEF IInv, TypeOK, HolderIsInItsWindow, CloneView
  <2>4. QED
    BY <2>1, <2>2, <2>3 DEF IInv
<1>4. ASSUME NEW v \in View, NEW p \in Ask, SeekStart(v, p)
      PROVE  IInv'
  BY <1>4, SeekStartKeepsIInv
<1>5. ASSUME NEW v \in View, NEW d \in Count, SeekCurrent(v, d)
      PROVE  IInv'
  <2>1. pos' \in 0 .. Limit /\ pos' >= pos
    BY <1>5 DEF IInv, TypeOK, SeekCurrent
  <2>2. QED
    BY <1>5, <2>1 DEF IInv, TypeOK, WindowsReachTheEnd, HolderIsInItsWindow,
                      SeekCurrent, Uses
<1>6. ASSUME NEW v \in View, NEW n \in Count, Read(v, n)
      PROVE  IInv'
  BY <1>6, ReadKeepsIInv
<1>7. ASSUME NEW v \in View, DropView(v)
      PROVE  IInv'
  BY <1>7 DEF IInv, TypeOK, WindowsReachTheEnd, HolderIsInItsWindow, DropView
<1>8. CASE DropViewer
  BY <1>8 DEF IInv, TypeOK, WindowsReachTheEnd, HolderIsInItsWindow,
              DropViewer
<1>9. CASE UNCHANGED vars
  BY <1>9 DEF IInv, TypeOK, WindowsReachTheEnd, HolderIsInItsWindow, vars
<1>10. CASE Fails
  BY <1>10, ErrorKeepsIInv DEF Fails
<1>11. QED
  BY <1>1, <1>2, <1>3, <1>4, <1>5, <1>6, <1>7, <1>8, <1>9, <1>10 DEF Next

LEMMA InitSatisfiesIInv == Init => IInv
BY ViewIoAssumption
DEF Init, IInv, TypeOK, WindowsReachTheEnd, HolderIsInItsWindow

(* The inductive invariant holds in every state of the shared cursor.      *)
THEOREM Invariance == Spec => []IInv
<1>1. QED
  BY InitSatisfiesIInv, StepKeepsIInv, PTL DEF Spec

(* io.rs: the state keeps its types, and the cursor stays a u64.           *)
THEOREM TypeCorrect == Spec => []TypeOK
<1>1. IInv => TypeOK
  BY DEF IInv
<1>2. QED
  BY <1>1, Invariance, PTL

(* io.rs, create_view and create_subview: every window reaches the end of  *)
(* the file, at any depth of nesting.                                      *)
THEOREM WindowsAreSuffixes == Spec => []WindowsReachTheEnd
<1>1. IInv => WindowsReachTheEnd
  BY DEF IInv
<1>2. QED
  BY <1>1, Invariance, PTL

(* io.rs, View::seek: the subtraction of the offset does not underflow     *)
(* for the View that placed the cursor.                                    *)
THEOREM NoUnderflow == Spec => []HolderIsInItsWindow
<1>1. IInv => HolderIsInItsWindow
  BY DEF IInv
<1>2. QED
  BY <1>1, Invariance, PTL

-----------------------------------------------------------------------------
(* Where a seek or a move lands, and what it reports, agree: the           *)
(* subtraction of Relative is exact while the cursor is in the window.     *)
LEMMA RelativeIsExact ==
  ASSUME NEW i \in Nat, NEW off \in Nat, i >= off
  PROVE  Relative(i, off) = i - off
BY DEF Relative

(* io.rs, View::seek: a position given to a container leads back to the    *)
(* byte the cursor is on.                                                  *)
THEOREM ReportedPositionsAreTrue == Spec => PositionsAreTrue
<1> DEFINE Report ==
             /\ answer' # answer
             /\ answer'.kind = "position"
             /\ holder' = answer'.view
           IsTrue == pos' = offset[answer'.view] + answer'.at
<1> USE ViewIoAssumption
<1>1. ASSUME IInv, Next, Report PROVE IsTrue
  <2>1. ~ Error
    BY <1>1 DEF Error
  <2>2. ASSUME NEW v \in View, NEW p \in Ask, SeekStart(v, p)
        PROVE  IsTrue
    <3>1. /\ v \in open /\ pos' = p + offset[v]
          /\ answer' = [kind |-> "position", view |-> v,
                        at |-> Relative(pos', offset[v])]
      BY <2>1, <2>2 DEF SeekStart
    <3>2. Relative(pos', offset[v]) = pos' - offset[v]
      BY <1>1, <3>1, RelativeIsExact DEF IInv, TypeOK
    <3>3. QED
      BY <1>1, <3>1, <3>2 DEF IInv, TypeOK
  <2>3. ASSUME NEW v \in View, NEW d \in Count, SeekCurrent(v, d)
        PROVE  IsTrue
    <3>1. v # Nobody /\ pos \in Nat /\ offset[v] \in Nat /\ d \in Nat
      BY <1>1 DEF IInv, TypeOK
    <3>2. /\ pos' = pos + d
          /\ holder' = Uses(v)
          /\ answer' = [kind |-> "position", view |-> v,
                        at |-> Relative(pos', offset[v])]
      BY <2>3 DEF SeekCurrent
    <3>3. holder = v /\ pos >= offset[v]
      BY <1>1, <3>1, <3>2 DEF Uses, IInv, HolderIsInItsWindow
    <3>4. Relative(pos', offset[v]) = pos' - offset[v]
      BY <3>1, <3>2, <3>3, RelativeIsExact
    <3>5. QED
      BY <3>1, <3>2, <3>4
  <2>4. ASSUME NEW v \in View, NEW n \in Count, Read(v, n)
        PROVE  FALSE
    <3>1. PICK k \in 0 .. n :
            answer' = [kind |-> "bytes", view |-> v, from |-> pos, n |-> k]
      BY <2>4 DEF Read
    <3>2. answer'.kind = "bytes"
      BY <3>1
    <3>3. QED
      BY <1>1, <3>2
  <2>5. ASSUME NEW v \in View, NEW off \in Ask, CreateView(v, off)
        PROVE  FALSE
    <3>1. answer' = [kind |-> "opened", view |-> v]
      BY <2>1, <2>5 DEF CreateView, PlaceView
    <3>2. QED
      BY <1>1, <3>1
  <2>6. ASSUME NEW u \in View, NEW v \in View, NEW off \in Ask,
               CreateSubview(u, v, off)
        PROVE  FALSE
    BY <1>1, <2>1, <2>6 DEF CreateSubview, PlaceView
  <2>7. ASSUME NEW u \in View, NEW v \in View, CloneView(u, v)
        PROVE  FALSE
    BY <1>1, <2>7 DEF CloneView
  <2>8. ASSUME NEW v \in View, DropView(v)
        PROVE  FALSE
    BY <1>1, <2>8 DEF DropView
  <2>9. ~ DropViewer
    BY <1>1 DEF DropViewer
  <2>10. ~ Fails
    BY <2>1 DEF Fails
  <2>11. QED
    BY <1>1, <2>2, <2>3, <2>4, <2>5, <2>6, <2>7, <2>8, <2>9, <2>10 DEF Next
<1>2. ASSUME IInv, [Next]_vars PROVE [Report => IsTrue]_vars
  BY <1>1, <1>2 DEF vars
<1>3. QED
  BY <1>2, Invariance, PTL DEF Spec, PositionsAreTrue

-----------------------------------------------------------------------------
(* The position each View has, as WindowedFile sees it.                    *)
Cur == [v \in View |-> IF v = holder THEN pos - offset[v] ELSE Nobody]

(* A step that makes v the holder leaves v the only View that knows where  *)
(* it is.                                                                  *)
LEMMA HolderIsAlone ==
  ASSUME NEW v \in View, holder' = v
  PROVE  Cur' = File!Alone(v, pos' - offset'[v])
BY DEF Cur, File!Alone, File!AllLost

(* With no holder, no View knows where it is.                              *)
LEMMA NobodyHolds == holder' = Nobody => Cur' = File!AllLost
BY ViewIoAssumption DEF Cur, File!AllLost

(* Opening a View maps to opening a file of its own.                       *)
LEMMA PlaceViewOpensAFile ==
  ASSUME IInv, NEW v \in View, NEW off \in Ask, off <= length,
         PlaceView(v, off)
  PROVE  File!Next
<1> USE ViewIoAssumption
<1>1. Cur' = File!Alone(v, 0)
  <2>1. holder' = v /\ pos' = off /\ offset'[v] = off
    BY DEF PlaceView, IInv, TypeOK
  <2>2. QED
    BY <2>1, HolderIsAlone
<1>2. off \in 0 .. Limit /\ length - off \in 0 .. Limit
  BY DEF IInv, TypeOK
<1>3. PICK n \in 0 .. Limit : n = length - off
  BY <1>2
<1>4. File!Open(v, off, n)
  BY <1>1, <1>3 DEF PlaceView, File!Open, Cur
<1>5. QED
  BY <1>2, <1>4 DEF File!Next

LEMMA ErrorIsAFailure == ASSUME Error PROVE File!Next
BY DEF Error, File!Next, File!Fail

(* A seek and a read are those of the file of the View, whatever is asked.  *)
LEMMA SeekStartRefines ==
  ASSUME IInv, NEW v \in View, NEW p \in 0 .. Limit, SeekStart(v, p)
  PROVE  File!Next
<1> USE ViewIoAssumption
<1>1. CASE Error
  BY <1>1, ErrorIsAFailure
<1>2. CASE ~Error
  <2>1. /\ v \in open /\ p <= len[v] /\ pos' = p + offset[v]
        /\ holder' = v /\ UNCHANGED <<length, alive, open, offset, len>>
        /\ answer' = [kind |-> "position", view |-> v,
                      at |-> Relative(pos', offset[v])]
    BY <1>2 DEF SeekStart
  <2>2. pos' - offset'[v] = p /\ Relative(pos', offset[v]) = p
    BY <2>1, RelativeIsExact DEF IInv, TypeOK
  <2>3. Cur' = File!Alone(v, p)
    BY <2>1, <2>2, HolderIsAlone
  <2>4. File!Seek(v, p)
    BY <2>1, <2>2, <2>3 DEF File!Seek, Cur
  <2>5. QED
    BY <2>4 DEF File!Next
<1>3. QED
  BY <1>1, <1>2

LEMMA ReadRefines ==
  ASSUME IInv, NEW v \in View, NEW n \in Nat, Read(v, n)
  PROVE  File!Next
<1> USE ViewIoAssumption
<1>1. /\ v # Nobody /\ pos \in 0 .. Limit /\ offset[v] \in Nat
      /\ n \in Nat
  BY DEF IInv, TypeOK
<1>2. PICK k \in 0 .. n :
        /\ k <= Left /\ pos' = pos + k
        /\ answer' = [kind |-> "bytes", view |-> v, from |-> pos, n |-> k]
  BY DEF Read
<1>3. holder' = Uses(v) /\ UNCHANGED <<offset, len>>
  BY DEF Read
<1>4. ASSUME holder = v PROVE File!Read(v, k)
  <2>1. Cur[v] = pos - offset[v] /\ Cur[v] # Nobody
    BY <1>1, <1>4 DEF Cur
  <2>2. pos' - offset'[v] = Cur[v] + k /\ offset[v] + Cur[v] = pos
    BY <1>1, <1>2, <1>3, <2>1
  <2>3. Cur' = File!Alone(v, Cur[v] + k)
    BY <1>3, <1>4, <2>2, HolderIsAlone DEF Uses
  <2>4. QED
    BY <1>2, <1>3, <2>1, <2>2, <2>3 DEF File!Read, Cur
<1>5. ASSUME holder # v PROVE File!Read(v, k)
  <2>1. Cur[v] = Nobody /\ Cur' = File!AllLost
    BY <1>3, <1>5, NobodyHolds DEF Cur, Uses
  <2>2. QED
    BY <1>1, <1>2, <1>3, <2>1 DEF File!Read, Cur
<1>6. File!Read(v, k)
  BY <1>4, <1>5
<1>7. k \in 0 .. Limit
  BY <1>1, <1>2 DEF Left
<1>8. QED
  BY <1>6, <1>7 DEF File!Next

(* Each operation on the shared cursor is the operation of the same name   *)
(* on a file of its own, or fails, or is not seen.                         *)
LEMMA StepRefines == ASSUME IInv, [Next]_vars PROVE [File!Next]_(File!vars)
<1> USE ViewIoAssumption
<1>1. ASSUME NEW v \in View, NEW off \in Ask, CreateView(v, off)
      PROVE  File!Next
  BY <1>1, PlaceViewOpensAFile, ErrorIsAFailure DEF CreateView
<1>2. ASSUME NEW u \in View, NEW v \in View, NEW off \in Ask,
             CreateSubview(u, v, off)
      PROVE  File!Next
  BY <1>2, PlaceViewOpensAFile, ErrorIsAFailure DEF CreateSubview
<1>3. ASSUME NEW u \in View, NEW v \in View, CloneView(u, v)
      PROVE  File!Next
  <2>1. u # v /\ u \in open /\ v \notin open /\ holder # v
    BY <1>3 DEF CloneView, IInv, TypeOK
  <2>2. CASE holder = u
    <3>1. holder' = v /\ pos' = pos /\ offset'[v] = offset[u]
      BY <1>3, <2>2 DEF CloneView, IInv, TypeOK
    <3>2. Cur' = File!Alone(v, pos - offset[u])
      BY <3>1, HolderIsAlone
    <3>3. Cur[u] = pos - offset[u] /\ Cur[u] # Nobody
      BY <2>2 DEF Cur, IInv, TypeOK
    <3>4. File!Duplicate(u, v)
      BY <1>3, <3>2, <3>3 DEF CloneView, File!Duplicate, Cur
    <3>5. QED
      BY <3>4 DEF File!Next
  <2>3. CASE holder # u
    <3>1. Cur' = Cur
      BY <1>3, <2>1, <2>3 DEF CloneView, Cur, IInv, TypeOK
    <3>2. Cur[u] = Nobody
      BY <2>3 DEF Cur
    <3>3. File!Duplicate(u, v)
      BY <1>3, <3>1, <3>2 DEF CloneView, File!Duplicate, Cur
    <3>4. QED
      BY <3>3 DEF File!Next
  <2>4. QED
    BY <2>2, <2>3
<1>4. ASSUME NEW v \in View, NEW p \in Ask, SeekStart(v, p)
      PROVE  File!Next
  BY <1>4, SeekStartRefines
<1>5. ASSUME NEW v \in View, NEW d \in Count, SeekCurrent(v, d)
      PROVE  File!Next
  <2>1. /\ v # Nobody /\ pos \in Nat /\ offset[v] \in 0 .. Limit
        /\ d \in 0 .. Limit
    BY DEF IInv, TypeOK
  <2>2. /\ pos' = pos + d /\ pos + d <= Limit /\ holder' = Uses(v)
        /\ UNCHANGED <<offset, len>>
        /\ answer' = [kind |-> "position", view |-> v,
                      at |-> Relative(pos', offset[v])]
    BY <1>5 DEF SeekCurrent
  <2>3. CASE holder = v
    <3>1. pos >= offset[v]
      BY <2>1, <2>3 DEF IInv, HolderIsInItsWindow
    <3>2. Cur[v] = pos - offset[v] /\ Cur[v] # Nobody
      BY <2>1, <2>3 DEF Cur
    <3>3. /\ pos' - offset'[v] = Cur[v] + d
          /\ Relative(pos', offset[v]) = Cur[v] + d
      BY <2>1, <2>2, <3>1, <3>2, RelativeIsExact
    <3>4. Cur' = File!Alone(v, Cur[v] + d)
      BY <2>2, <2>3, <3>3, HolderIsAlone DEF Uses
    <3>5. File!Advance(v, d)
      BY <2>2, <3>2, <3>3, <3>4 DEF File!Advance, Cur
    <3>6. QED
      BY <2>1, <3>5 DEF File!Next
  <2>4. CASE holder # v
    <3>1. Cur[v] = Nobody /\ Cur' = File!AllLost
      BY <2>2, <2>4, NobodyHolds DEF Cur, Uses
    <3>2. Relative(pos', offset[v]) \in 0 .. Limit
      BY <2>1, <2>2 DEF Relative
    <3>3. File!Advance(v, d)
      BY <2>2, <3>1, <3>2 DEF File!Advance, Cur
    <3>4. QED
      BY <2>1, <3>3 DEF File!Next
  <2>5. QED
    BY <2>3, <2>4
<1>6. ASSUME NEW v \in View, NEW n \in Count, Read(v, n)
      PROVE  File!Next
  BY <1>6, ReadRefines
<1>7. ASSUME NEW v \in View, DropView(v)
      PROVE  [File!Next]_(File!vars)
  <2>1. CASE holder = v
    <3>1. Cur' = File!AllLost
      BY <1>7, <2>1 DEF DropView, Cur, File!AllLost
    <3>2. Cur[v] # Nobody
      BY <2>1 DEF Cur, IInv, TypeOK
    <3>3. File!Close(v)
      BY <1>7, <3>1, <3>2 DEF DropView, File!Close, Cur
    <3>4. QED
      BY <3>3 DEF File!Next
  <2>2. CASE holder # v
    BY <1>7, <2>2 DEF DropView, File!vars
  <2>3. QED
    BY <2>1, <2>2
<1>8. CASE DropViewer
  BY <1>8 DEF DropViewer, File!vars
<1>9. CASE UNCHANGED vars
  BY <1>9 DEF vars, File!vars
<1>10. CASE Fails
  BY <1>10, ErrorIsAFailure DEF Fails
<1>11. QED
  BY <1>1, <1>2, <1>3, <1>4, <1>5, <1>6, <1>7, <1>8, <1>9, <1>10 DEF Next

(* io.rs: the Views of one io behave as files of their own that forget     *)
(* their position when another is used.                                    *)
THEOREM ViewsAreFiles == Spec => IsWindowedFile
<1>1. Init => File!Init
  BY ViewIoAssumption DEF Init, File!Init, File!AllLost
<1>2. QED
  BY <1>1, StepRefines, Invariance, PTL DEF Spec, IsWindowedFile, File!Spec
=============================================================================
