---------------------------- MODULE ContainerIo ----------------------------
(***************************************************************************)
(* src/src/container.rs: what every container gets from RawContainer.      *)
(* make_thumbnail, load_buffer8 and load_buffer16 seek in the View of the  *)
(* container and read from it, while the io and its cursor are shared      *)
(* (module ViewIo).  They differ in what they do when a step fails: a      *)
(* thumbnail is an error, a buffer is returned all the same.               *)
(*                                                                         *)
(* One step here is one call of the View; a read_exact is as many reads as *)
(* the io makes of it.  Contents are named by place: a result says which   *)
(* bytes of the file it holds, and how many of its bytes were read.        *)
(***************************************************************************)
EXTENDS ViewIo

CONSTANTS Idle

VARIABLES op,    \* the operation in progress
          got    \* what the operation that just ended returned

allVars == <<vars, op, got>>

NotYet == [kind |-> "none"]

ContainerInit == Init /\ op = Idle /\ got = NotYet

(* An operation of a View v on n bytes at o: whether its seek succeeded,   *)
(* where the first byte it read was, how many it has read.                 *)
Start(kind, v, o, n) ==
  op' = [kind |-> kind, view |-> v, at |-> o, size |-> n, stage |-> "seek",
         placed |-> FALSE, first |-> 0, done |-> 0]

(* load_buffer8, load_buffer16: the length is only known to the caller.    *)
(* The buffer of load_buffer16 has room for whole words.                   *)
LoadBuffer8(v, o, n) == Start("buffer8", v, o, n)
LoadBuffer16(v, o, n) == Start("buffer16", v, o, 2 * (n \div 2))

(* make_thumbnail: a size that goes past the end of the View is cut.  When *)
(* the offset is past it as well the subtraction underflows; no buffer has *)
(* the size that gives, and the program panics.                            *)
MakeThumbnail(v, o, n) ==
  IF o + n <= len[v] THEN Start("thumbnail", v, o, n)
  ELSE IF o <= len[v] THEN Start("thumbnail", v, o, len[v] - o)
  ELSE op' = [kind |-> "panic"]

Begin(v, o, n) ==
  /\ op = Idle
  /\ v \in open
  /\ alive
  /\ LoadBuffer8(v, o, n) \/ LoadBuffer16(v, o, n) \/ MakeThumbnail(v, o, n)
  /\ got' = NotYet
  /\ UNCHANGED vars

Return(result) == op' = Idle /\ got' = result

InProgress(stage) == op # Idle /\ op.kind # "panic" /\ op.stage = stage

(* n bytes of the file from first on.                                      *)
Result(kind, first, n) == [kind |-> kind, first |-> first, n |-> n]

(* Mutant: no operation minds a failed seek.                               *)
SeekAnyhow ==
  /\ InProgress("seek")
  /\ SeekStart(op.view, op.at) \/ Fails
  /\ op' = [op EXCEPT !.stage = "read", !.first = pos']
  /\ UNCHANGED got

(* A failed seek ends make_thumbnail.  The buffers log it, and read from   *)
(* wherever the cursor of the io is.                                       *)
Seek ==
  /\ InProgress("seek")
  /\ SeekStart(op.view, op.at) \/ Fails
  /\ IF answer'.kind = "error" /\ op.kind = "thumbnail"
       THEN Return([kind |-> "error"])
       ELSE /\ op' = [op EXCEPT !.stage = "read", !.first = pos',
                                !.placed = answer'.kind = "position"]
            /\ UNCHANGED got

(* load_buffer8: one read.  A short one makes the buffer shorter; a failed *)
(* one leaves it as it was allocated.                                      *)
ReadOnce ==
  /\ InProgress("read")
  /\ op.kind = "buffer8"
  /\ \/ /\ Read(op.view, op.size)
        /\ Return(Result("buffer", pos, answer'.n))
     \/ /\ Fails
        /\ Return(Result("buffer", pos, 0))

(* read_exact: until all bytes are there, or the io has no more, or fails. *)
(* Then a thumbnail is an error, and a buffer of words is returned as far  *)
(* as it was filled.                                                       *)
GiveUp ==
  Return(IF op.kind = "thumbnail" THEN [kind |-> "error"]
         ELSE Result("buffer", op.first, op.done))

(* Mutants: a read is taken for all that was asked; a short read is taken  *)
(* for the end.                                                            *)
TakeForAll ==
  /\ InProgress("read")
  /\ op.done < op.size
  /\ Read(op.view, op.size - op.done)
  /\ op' = [op EXCEPT !.done = op.size]
  /\ UNCHANGED got

TakeForTheEnd ==
  /\ InProgress("read")
  /\ op.kind \in {"thumbnail", "buffer16"}
  /\ op.done < op.size
  /\ Read(op.view, op.size - op.done)
  /\ op' = Idle
  /\ got' = Result("buffer", op.first, op.done + answer'.n)

ReadMore ==
  /\ InProgress("read")
  /\ op.kind \in {"thumbnail", "buffer16"}
  /\ op.done < op.size
  /\ \/ /\ Read(op.view, op.size - op.done)
        /\ \/ answer'.n = 0 /\ GiveUp
           \/ /\ answer'.n > 0
              /\ op' = [op EXCEPT !.done = @ + answer'.n]
              /\ UNCHANGED got
     \/ Fails /\ GiveUp

ReadAll ==
  /\ InProgress("read")
  /\ op.kind \in {"thumbnail", "buffer16"}
  /\ op.done = op.size
  /\ Return(Result(IF op.kind = "thumbnail" THEN "thumbnail" ELSE "buffer",
                   op.first, op.done))
  /\ UNCHANGED vars

Step == Seek \/ ReadOnce \/ ReadMore \/ ReadAll

(* Between two operations the Views are used for anything else.            *)
Elsewhere == op = Idle /\ Next /\ got' = NotYet /\ UNCHANGED op

ContainerNext ==
  \/ \E v \in View, o \in Ask, n \in Count : Begin(v, o, n)
  \/ Step
  \/ Elsewhere

(* An operation runs until it returns.                                     *)
ContainerSpec == ContainerInit /\ [][ContainerNext]_allVars /\ WF_allVars(Step)

-----------------------------------------------------------------------------
(* The operation in progress and its result, with the Views.               *)
ContainerTypeOK ==
  /\ TypeOK
  /\ op # Idle /\ op.kind # "panic" =>
       /\ op.view \in open
       /\ op.stage \in {"seek", "read"}
       /\ op.done <= op.size
  /\ got.kind \in {"none", "error", "thumbnail", "buffer"}

(* What is read piece by piece is one run of bytes: no other View gets     *)
(* between the pieces (container.rs: the View is borrowed for the whole    *)
(* operation, the io only for each call).                                  *)
PiecesAreARun == InProgress("read") => pos = op.first + op.done

(* A thumbnail is the bytes its description asks for, all of them, or      *)
(* those up to the end of the View when it asks for more; never bytes of   *)
(* another place, and never some that were not read.                       *)
ThumbnailIsItsBytes ==
  [][got' # got /\ got'.kind = "thumbnail"
       => /\ got'.first = offset[op.view] + op.at
          /\ got'.n = op.size
          /\ op.at + op.size <= len[op.view]]_allVars

(* A buffer holds bytes from its offset on, once the seek succeeded; and a *)
(* buffer of words that is not filled met the end of the file, or a        *)
(* failure of the io: short reads do not cut it (load_buffer16_endian).    *)
BuffersAreTheirBytes ==
  [][got' # got /\ got'.kind = "buffer"
       => /\ op.placed /\ got'.n > 0
               => got'.first = offset[op.view] + op.at
          /\ op.kind = "buffer16" /\ got'.n < op.size
               => answer'.kind = "error" \/ pos >= IoLen]_allVars

(* The same; and the operations that do not panic return, however short    *)
(* the reads.                                                              *)
BuffersHoldTheirBytes ==
  /\ BuffersAreTheirBytes
  /\ op # Idle /\ op.kind # "panic" ~> op = Idle

(* container.rs:144: "Load an 8bit buffer at `offset` and of `len` bytes." *)
LoadedFromOffset ==
  [][got' # got /\ got'.kind = "buffer" /\ op.kind = "buffer8" /\ got'.n > 0
       => got'.first = offset[op.view] + op.at]_allVars

(* The same, of the length, where the View has that many bytes and the io  *)
(* does not fail, neither when it is placed nor when it is read.           *)
LoadedWhole ==
  [][got' # got /\ got'.kind = "buffer" /\ op.kind = "buffer8" /\ op.placed
       => \/ answer'.kind = "error"
          \/ op.at + op.size > len[op.view]
          \/ got'.n = op.size]_allVars
=============================================================================
