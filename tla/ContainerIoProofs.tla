------------------------- MODULE ContainerIoProofs -------------------------
(***************************************************************************)
(* Theorems about ContainerIo: what buffers and thumbnails hold, for every *)
(* file, every number of Views, every place and count asked for, and reads *)
(* as short as the io likes.  The Views are those of ViewIoProofs.         *)
(***************************************************************************)
EXTENDS ContainerIo, ViewIoProofs

(* An operation in progress.                                               *)
Operation ==
  [kind : {"buffer8", "buffer16", "thumbnail"}, view : View, at : 0 .. Limit,
   size : Nat, stage : {"seek", "read"}, placed : BOOLEAN, first : Nat, done : Nat]

Running == op # Idle /\ op.kind # "panic"

OperationOK ==
  Running => /\ op \in Operation
             /\ op.view \in open
             /\ op.done <= op.size

(* Nothing is read before the seek, and load_buffer8 reads only once.  A   *)
(* thumbnail is cut to the window when it starts, and reads only when its  *)
(* seek succeeded.                                                         *)
StagesInOrder ==
  Running => /\ op.stage = "seek" \/ op.kind = "buffer8" => op.done = 0
             /\ op.kind = "thumbnail" => op.at + op.size <= len[op.view]
             /\ op.kind = "thumbnail" /\ op.stage = "read" => op.placed

(* The bytes come from where the seek went, if it went.                    *)
PlacedAtItsOffset ==
  Running /\ op.stage = "read" /\ op.placed => op.first = offset[op.view] + op.at

(* The four are inductive together: PiecesAreARun needs that an operation  *)
(* starts from the cursor, with no bytes.                                  *)
CInv ==
  /\ IInv
  /\ OperationOK
  /\ StagesInOrder
  /\ PlacedAtItsOffset
  /\ PiecesAreARun

-----------------------------------------------------------------------------
(* With no operation in progress there is nothing to keep but the Views.   *)
LEMMA IdleKeepsCInv ==
  ASSUME IInv', op' = Idle
  PROVE  CInv'
BY DEF CInv, OperationOK, StagesInOrder, PlacedAtItsOffset, PiecesAreARun,
       Running, InProgress

(* An operation that just started has done nothing.                        *)
LEMMA StartKeepsCInv ==
  ASSUME CInv, UNCHANGED vars,
         NEW kind \in {"buffer8", "buffer16", "thumbnail"}, NEW v \in open,
         NEW o \in 0 .. Limit, NEW n \in Nat, Start(kind, v, o, n),
         kind = "thumbnail" => o + n <= len[v]
  PROVE  CInv'
<1>1. v \in View
  BY DEF CInv, IInv, TypeOK
<1>2. /\ op' \in Operation
      /\ op'.kind = kind /\ op'.view = v /\ op'.at = o /\ op'.size = n
      /\ op'.stage = "seek" /\ op'.done = 0
  BY <1>1 DEF Start, Operation
<1>3. IInv'
  BY DEF CInv, IInv, TypeOK, WindowsReachTheEnd, HolderIsInItsWindow, vars
<1>4. OperationOK'
  BY <1>2 DEF OperationOK, vars
<1>5. StagesInOrder'
  BY <1>2 DEF StagesInOrder, vars
<1>6. PlacedAtItsOffset' /\ PiecesAreARun'
  BY <1>2 DEF PlacedAtItsOffset, PiecesAreARun, InProgress
<1>7. QED
  BY <1>3, <1>4, <1>5, <1>6 DEF CInv

LEMMA BeginKeepsCInv ==
  ASSUME CInv, NEW v \in View, NEW o \in Ask, NEW n \in Count, Begin(v, o, n)
  PROVE  CInv'
<1> USE ViewIoAssumption
<1>1. v \in open /\ UNCHANGED vars /\ o \in 0 .. Limit /\ n \in Nat
  BY DEF Begin
<1>2. CASE LoadBuffer8(v, o, n)
  BY <1>1, <1>2, StartKeepsCInv DEF LoadBuffer8
<1>3. CASE LoadBuffer16(v, o, n)
  <2>1. 2 * (n \div 2) \in Nat
    BY <1>1
  <2>2. QED
    BY <1>1, <1>3, <2>1, StartKeepsCInv DEF LoadBuffer16
<1>4. CASE MakeThumbnail(v, o, n)
  <2>1. len[v] \in Nat
    BY DEF CInv, IInv, TypeOK
  <2>2. CASE o + n <= len[v]
    BY <1>1, <1>4, <2>2, StartKeepsCInv DEF MakeThumbnail
  <2>3. CASE ~(o + n <= len[v]) /\ o <= len[v]
    <3>1. len[v] - o \in Nat /\ o + (len[v] - o) <= len[v]
      BY <1>1, <2>1, <2>3
    <3>2. Start("thumbnail", v, o, len[v] - o)
      BY <1>4, <2>3 DEF MakeThumbnail
    <3>3. QED
      BY <1>1, <3>1, <3>2, StartKeepsCInv
  <2>4. CASE ~(o + n <= len[v]) /\ ~(o <= len[v])
    <3>1. op' = [kind |-> "panic"]
      BY <1>4, <2>4 DEF MakeThumbnail
    <3>2. IInv'
      BY <1>1 DEF CInv, IInv, TypeOK, WindowsReachTheEnd, HolderIsInItsWindow, vars
    <3>3. QED
      BY <3>1, <3>2 DEF CInv, OperationOK, StagesInOrder, PlacedAtItsOffset,
                        PiecesAreARun, Running, InProgress
  <2>5. QED
    BY <2>2, <2>3, <2>4
<1>5. QED
  BY <1>2, <1>3, <1>4 DEF Begin

(* What a seek leaves: the cursor where it went, or where it was.          *)
LEMMA SeekKeepsCInv == ASSUME CInv, Seek PROVE CInv'
<1>1. /\ Running /\ op \in Operation /\ op.view \in open /\ op.stage = "seek"
      /\ op.at \in 0 .. Limit /\ op.done = 0 /\ op.done <= op.size
      /\ op.view \in View
      /\ op.kind = "thumbnail" => op.at + op.size <= len[op.view]
  BY DEF Seek, InProgress, Running, CInv, OperationOK, StagesInOrder, Operation
<1>2. IInv'
  BY <1>1, SeekStartKeepsIInv, ErrorKeepsIInv DEF Seek, CInv, Fails
<1>3. CASE Return([kind |-> "error"])
  BY <1>2, <1>3, IdleKeepsCInv DEF Return
<1>4. CASE ~Return([kind |-> "error"])
  <2>1. /\ op' = [op EXCEPT !.stage = "read", !.first = pos',
                            !.placed = answer'.kind = "position"]
        /\ answer'.kind # "error" \/ op.kind # "thumbnail"
    BY <1>4 DEF Seek
  <2>2. pos' \in Nat
    BY <1>2 DEF IInv, TypeOK
  <2>3. /\ op' \in Operation /\ op'.stage = "read" /\ op'.first = pos'
        /\ op'.placed = (answer'.kind = "position")
        /\ op'.kind = op.kind /\ op'.view = op.view /\ op'.at = op.at
        /\ op'.size = op.size /\ op'.done = 0
    BY <1>1, <2>1, <2>2 DEF Operation
  <2>4. UNCHANGED <<open, offset, len>>
    BY DEF Seek, SeekStart, Fails, Error
  <2>5. OperationOK'
    BY <1>1, <2>3, <2>4 DEF OperationOK
  <2>6. answer'.kind # "error" =>
          /\ answer'.kind = "position"
          /\ pos' = op.at + offset[op.view]
    <3>1. CASE Error
      BY <3>1 DEF Error
    <3>2. CASE ~Error
      <4>1. /\ pos' = op.at + offset[op.view]
            /\ answer' = [kind |-> "position", view |-> op.view,
                          at |-> Relative(pos', offset[op.view])]
        BY <3>2 DEF Seek, Fails, SeekStart
      <4>2. QED
        BY <4>1
    <3>3. QED
      BY <3>1, <3>2
  <2>7. answer'.kind = "error" \/ answer'.kind = "position"
    BY <2>6
  <2>8. StagesInOrder'
    BY <1>1, <2>1, <2>3, <2>4, <2>6 DEF StagesInOrder
  <2>9. PlacedAtItsOffset'
    <3>1. op.at \in Nat /\ offset[op.view] \in Nat
      BY <1>1 DEF CInv, IInv, TypeOK
    <3>2. op'.placed => pos' = op.at + offset[op.view]
      BY <2>3, <2>6
    <3>3. QED
      BY <2>3, <2>4, <3>1, <3>2 DEF PlacedAtItsOffset
  <2>10. PiecesAreARun'
    <3>1. \A n \in Nat : n + 0 = n
      OBVIOUS
    <3>2. op'.first = pos' /\ op'.done = 0 /\ pos' + 0 = pos'
      BY <2>2, <2>3, <3>1
    <3>3. QED
      BY <3>2 DEF PiecesAreARun
  <2>11. QED
    BY <1>2, <2>5, <2>8, <2>9, <2>10 DEF CInv
<1>5. QED
  BY <1>3, <1>4

(* One read ends load_buffer8.                                             *)
LEMMA ReadOnceKeepsCInv == ASSUME CInv, ReadOnce PROVE CInv'
<1>1. op' = Idle
  BY DEF ReadOnce, Return
<1>2. op.view \in View /\ op.size \in Nat
  BY DEF ReadOnce, InProgress, CInv, OperationOK, Running, Operation
<1>3. IInv'
  BY <1>2, ReadKeepsIInv, ErrorKeepsIInv DEF ReadOnce, CInv, Fails
<1>4. QED
  BY <1>1, <1>3, IdleKeepsCInv

(* A piece of n bytes moves the cursor by n: nobody else moves it.         *)
LEMMA ReadMoreKeepsCInv == ASSUME CInv, ReadMore PROVE CInv'
<1>1. /\ Running /\ op \in Operation /\ op.view \in open /\ op.stage = "read"
      /\ op.view \in View /\ op.size \in Nat /\ op.done \in Nat
      /\ op.first \in Nat /\ op.done < op.size /\ op.size - op.done \in Nat
      /\ op.kind # "buffer8"
  BY DEF ReadMore, InProgress, Running, CInv, OperationOK, Operation
<1>2. IInv'
  BY <1>1, ReadKeepsIInv, ErrorKeepsIInv DEF ReadMore, CInv, Fails
<1>3. CASE op' = Idle
  BY <1>2, <1>3, IdleKeepsCInv
<1>4. CASE op' # Idle
  <2>1. /\ Read(op.view, op.size - op.done)
        /\ op' = [op EXCEPT !.done = @ + answer'.n]
    BY <1>4 DEF ReadMore, GiveUp, Return
  <2>2. PICK k \in 0 .. op.size - op.done :
          /\ pos' = pos + k
          /\ answer' = [kind |-> "bytes", view |-> op.view, from |-> pos, n |-> k]
    BY <2>1 DEF Read
  <2>3. /\ UNCHANGED <<open, offset, len>>
        /\ op' = [op EXCEPT !.done = op.done + k]
    <3>1. answer'.n = k
      BY <2>2
    <3>2. QED
      BY <2>1, <3>1 DEF Read
  <2>4. op.done + k \in Nat /\ op.done + k <= op.size
    BY <1>1, <2>2
  <2>5. /\ op' \in Operation /\ op'.stage = "read" /\ op'.first = op.first
        /\ op'.placed = op.placed /\ op'.kind = op.kind /\ op'.view = op.view
        /\ op'.at = op.at /\ op'.size = op.size /\ op'.done = op.done + k
    BY <1>1, <2>3, <2>4 DEF Operation
  <2>6. OperationOK'
    BY <1>1, <2>3, <2>4, <2>5 DEF OperationOK
  <2>7. StagesInOrder'
    BY <1>1, <2>3, <2>5 DEF StagesInOrder, CInv
  <2>8. PlacedAtItsOffset'
    BY <1>1, <2>3, <2>5 DEF PlacedAtItsOffset, CInv
  <2>9. PiecesAreARun'
    <3>1. pos = op.first + op.done
      BY <1>1 DEF CInv, PiecesAreARun, InProgress, Running
    <3>2. op'.first + op'.done = pos'
      BY <1>1, <2>2, <2>5, <3>1
    <3>3. QED
      BY <3>2 DEF PiecesAreARun
  <2>10. QED
    BY <1>2, <2>6, <2>7, <2>8, <2>9 DEF CInv
<1>5. QED
  BY <1>3, <1>4

(* Every step of an operation, or between two, keeps the invariant.        *)
LEMMA StepKeepsCInv == ASSUME CInv, [ContainerNext]_allVars PROVE CInv'
<1>1. ASSUME NEW v \in View, NEW o \in Ask, NEW n \in Count, Begin(v, o, n)
      PROVE  CInv'
  BY <1>1, BeginKeepsCInv
<1>2. CASE ReadAll
  <2>1. op' = Idle /\ IInv'
    BY <1>2 DEF ReadAll, Return, vars, CInv, IInv, TypeOK, WindowsReachTheEnd,
                HolderIsInItsWindow
  <2>2. QED
    BY <2>1, IdleKeepsCInv
<1>3. CASE Elsewhere
  BY <1>3, StepKeepsIInv, IdleKeepsCInv DEF Elsewhere, CInv
<1>4. CASE UNCHANGED allVars
  <2>1. UNCHANGED op /\ IInv' /\ UNCHANGED vars
    BY <1>4 DEF allVars, vars, CInv, IInv, TypeOK, WindowsReachTheEnd,
                HolderIsInItsWindow
  <2>2. QED
    BY <2>1 DEF CInv, OperationOK, StagesInOrder, PlacedAtItsOffset,
                PiecesAreARun, Running, InProgress, vars
<1>5. QED
  BY <1>1, <1>2, <1>3, <1>4, SeekKeepsCInv, ReadOnceKeepsCInv,
     ReadMoreKeepsCInv
  DEF ContainerNext, Step

THEOREM ContainerInvariance == ContainerSpec => []CInv
<1>1. ContainerInit => CInv
  BY InitSatisfiesIInv
  DEF ContainerInit, CInv, OperationOK, StagesInOrder, PlacedAtItsOffset,
      PiecesAreARun, Running, InProgress
<1>2. QED
  BY <1>1, StepKeepsCInv, PTL DEF ContainerSpec

(* container.rs: what read_exact puts together from short reads are bytes  *)
(* that follow each other in the file.                                     *)
THEOREM PiecesFollowEachOther == ContainerSpec => []PiecesAreARun
<1>1. CInv => PiecesAreARun
  BY DEF CInv
<1>2. QED
  BY <1>1, ContainerInvariance, PTL

-----------------------------------------------------------------------------
(* What an operation returns is decided where it ends.                     *)
LEMMA OnlyStepsReturn ==
  ASSUME CInv, [ContainerNext]_allVars, got' # got, got'.kind # "none"
  PROVE  Step
BY DEF ContainerNext, Begin, Elsewhere, NotYet, allVars

(* container.rs, make_thumbnail: the bytes asked for, no more than the     *)
(* window has, and never some that were not read.                          *)
THEOREM ThumbnailsAreWhole == ContainerSpec => ThumbnailIsItsBytes
<1> DEFINE Returned == got' # got /\ got'.kind = "thumbnail"
           IsItsBytes == /\ got'.first = offset[op.view] + op.at
                         /\ got'.n = op.size
                         /\ op.at + op.size <= len[op.view]
<1>1. ASSUME CInv, [ContainerNext]_allVars, Returned PROVE IsItsBytes
  <2>1. Step
    BY <1>1, OnlyStepsReturn
  <2>2. ~Seek
    BY <1>1 DEF Seek, Return
  <2>3. ~ReadOnce
    BY <1>1 DEF ReadOnce, Return, Result
  <2>4. ~ReadMore
    BY <1>1 DEF ReadMore, GiveUp, Return, Result
  <2>5. ReadAll
    BY <2>1, <2>2, <2>3, <2>4 DEF Step
  <2>6. op.kind = "thumbnail" /\ got' = Result("thumbnail", op.first, op.done)
    BY <1>1, <2>5 DEF ReadAll, Return, Result
  <2>7. Running /\ op.stage = "read" /\ op.done = op.size
    BY <2>5 DEF ReadAll, InProgress, Running
  <2>8. /\ op.placed /\ op.at + op.size <= len[op.view]
        /\ op.first = offset[op.view] + op.at
    BY <1>1, <2>6, <2>7 DEF CInv, StagesInOrder, PlacedAtItsOffset
  <2>9. QED
    BY <2>6, <2>7, <2>8 DEF Result
<1>2. CInv /\ [ContainerNext]_allVars => [Returned => IsItsBytes]_allVars
  BY <1>1
<1>3. QED
  BY <1>2, ContainerInvariance, PTL DEF ContainerSpec, ThumbnailIsItsBytes

(* container.rs, load_buffer8 and load_buffer16: what was read is from the *)
(* offset on when the seek succeeded, and only the end of the file or a    *)
(* failure cuts a buffer of words.                                         *)
THEOREM BuffersAreInPlace == ContainerSpec => BuffersAreTheirBytes
<1> USE ViewIoAssumption
<1> DEFINE Returned == got' # got /\ got'.kind = "buffer"
           InPlace == op.placed /\ got'.n > 0
                        => got'.first = offset[op.view] + op.at
           Filled == op.kind = "buffer16" /\ got'.n < op.size
                       => answer'.kind = "error" \/ pos >= IoLen
<1>1. ASSUME CInv, [ContainerNext]_allVars, Returned PROVE InPlace /\ Filled
  <2>1. Step
    BY <1>1, OnlyStepsReturn
  <2>2. ~Seek
    BY <1>1 DEF Seek, Return
  <2>3. /\ Running /\ op.stage = "read" /\ op \in Operation
        /\ pos = op.first + op.done
        /\ op.placed => op.first = offset[op.view] + op.at
    BY <1>1, <2>1, <2>2
    DEF Step, ReadOnce, ReadMore, ReadAll, InProgress, Running, CInv,
        OperationOK, PlacedAtItsOffset, PiecesAreARun
  <2>4. op.first \in Nat /\ op.done \in Nat /\ op.size \in Nat /\ pos \in Nat
    BY <1>1, <2>3 DEF Operation, CInv, IInv, TypeOK
  <2>5. CASE ReadOnce
    <3>1. op.kind = "buffer8" /\ op.done = 0
      BY <1>1, <2>3, <2>5 DEF ReadOnce, CInv, StagesInOrder
    <3>2. got'.first = pos
      BY <2>5 DEF ReadOnce, Return, Result
    <3>3. pos = op.first
      BY <2>3, <2>4, <3>1
    <3>4. QED
      BY <2>3, <3>1, <3>2, <3>3
  <2>6. CASE ReadMore
    <3>1. op.done < op.size
      BY <2>6 DEF ReadMore
    <3>2. GiveUp
      BY <1>1, <2>6 DEF ReadMore
    <3>3. got'.first = op.first
      BY <1>1, <3>2 DEF GiveUp, Return, Result
    <3>4. answer'.kind = "error" \/ pos >= IoLen
      <4>1. CASE Fails
        BY <4>1 DEF Fails, Error
      <4>2. CASE ~Fails
        <5>1. Read(op.view, op.size - op.done) /\ (answer'.n = 0 \/ answer'.n > 0)
          BY <2>6, <4>2 DEF ReadMore
        <5>2. op' = Idle /\ op # Idle
          BY <2>3, <3>2 DEF GiveUp, Return, Running
        <5>3. PICK k \in 0 .. op.size - op.done :
                /\ k = 0 => Left = 0 \/ op.size - op.done = 0
                /\ answer' = [kind |-> "bytes", view |-> op.view, from |-> pos,
                              n |-> k]
          BY <5>1 DEF Read
        <5>4. CASE k = 0
          <6>1. Left = 0
            BY <2>4, <3>1, <5>3, <5>4
          <6>2. QED
            BY <2>4, <6>1 DEF Left
        <5>5. CASE k # 0
          <6>1. answer'.n = k
            BY <5>3
          <6>2. UNCHANGED got
            BY <2>6, <4>2, <5>5, <6>1 DEF ReadMore
          <6>3. QED
            BY <1>1, <6>2
        <5>6. QED
          BY <5>4, <5>5
      <4>3. QED
        BY <4>1, <4>2
    <3>5. QED
      BY <2>3, <3>3, <3>4
  <2>7. CASE ReadAll
    <3>1. got'.first = op.first /\ got'.n = op.size
      BY <2>7 DEF ReadAll, Return, Result
    <3>2. QED
      BY <2>3, <2>4, <3>1
  <2>8. QED
    BY <2>1, <2>2, <2>5, <2>6, <2>7 DEF Step
<1>2. CInv /\ [ContainerNext]_allVars
        => [Returned => InPlace /\ Filled]_allVars
  BY <1>1
<1>3. QED
  BY <1>2, ContainerInvariance, PTL DEF ContainerSpec, BuffersAreTheirBytes

-----------------------------------------------------------------------------
(* No operation of a container does to the Views what the abstract files   *)
(* of WindowedFile do not allow: each View is a file of its own for the    *)
(* containers too, whatever sizes their descriptions give.                 *)
LEMMA ContainerStepRefines ==
  ASSUME CInv, [ContainerNext]_allVars PROVE [File!Next]_(File!vars)
<1> USE ViewIoAssumption
<1>1. CASE UNCHANGED vars
  BY <1>1 DEF vars, File!vars
<1>2. CASE Elsewhere
  BY <1>2, StepRefines DEF Elsewhere, CInv
<1>3. CASE Step /\ ~UNCHANGED vars
  <2>1. /\ op.view \in View /\ op.at \in 0 .. Limit /\ op.size \in Nat
        /\ op.done \in Nat /\ op.done <= op.size
    BY <1>3 DEF Step, Seek, ReadOnce, ReadMore, ReadAll, InProgress, CInv,
                OperationOK, Running, Operation
  <2>2. op.size - op.done \in Nat
    BY <2>1
  <2>3. CASE Fails
    BY <2>3, ErrorIsAFailure DEF Fails
  <2>4. CASE SeekStart(op.view, op.at)
    BY <2>1, <2>4, SeekStartRefines DEF CInv
  <2>5. CASE Read(op.view, op.size)
    BY <2>1, <2>5, ReadRefines DEF CInv
  <2>6. CASE Read(op.view, op.size - op.done)
    BY <2>1, <2>2, <2>6, ReadRefines DEF CInv
  <2>7. QED
    BY <1>3, <2>3, <2>4, <2>5, <2>6 DEF Step, Seek, ReadOnce, ReadMore, ReadAll
<1>4. QED
  BY <1>1, <1>2, <1>3 DEF ContainerNext, Begin, allVars, vars

(* container.rs and io.rs together: the containers over the shared cursor  *)
(* implement the abstract files.                                           *)
THEOREM ContainersKeepToTheirFiles == ContainerSpec => IsWindowedFile
<1>1. ContainerInit => File!Init
  BY ViewIoAssumption DEF ContainerInit, Init, File!Init, File!AllLost
<1>2. QED
  BY <1>1, ContainerStepRefines, ContainerInvariance, PTL
  DEF ContainerSpec, IsWindowedFile, File!Spec
=============================================================================
