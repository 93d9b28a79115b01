------------------------------- MODULE ViewIo -------------------------------
(***************************************************************************)
(* src/src/io.rs: a Viewer owns the io of one file, and Views are windows  *)
(* on it.  A View has an offset and a length but no cursor: the cursor is  *)
(* the one of the io, shared by every View of the file (also by a View and *)
(* the clone a JPEG decoder gets).                                         *)
(*                                                                         *)
(* The code is single threaded and every call borrows the io for its own   *)
(* duration, so an operation of a View is one step.  What interleaves are  *)
(* the containers: one opens, seeks and reads between two operations of    *)
(* another.  holder is a history variable: the View that placed the cursor *)
(* last, while no other View has used it since.                            *)
(***************************************************************************)
EXTENDS Integers

CONSTANTS View,      \* the handles
          Nobody,    \* no handle
          IoLen,     \* how many bytes the io has
          Given,     \* the length passed to Viewer::new, 0 when unknown
          Ask,       \* the offsets and positions asked for
          Count,     \* the byte counts asked for
          Limit      \* the largest u64

ASSUME ViewIoAssumption ==
  /\ Nobody \notin View /\ Nobody \notin Int
  /\ Limit \in Nat
  /\ IoLen \in 0 .. Limit
  /\ Given \in 0 .. Limit
  /\ Ask \subseteq 0 .. Limit
  /\ Count \subseteq 0 .. Limit

VARIABLES pos,       \* the cursor of the io
          length,    \* Viewer.length
          alive,     \* the Viewer is not dropped
          open,      \* the Views in use
          offset,    \* View.offset
          len,       \* View.length
          holder,    \* the View that knows where the cursor is (history)
          answer     \* what the last operation gave its caller

vars == <<pos, length, alive, open, offset, len, holder, answer>>

(* Viewer::new: without a length it seeks to the end to learn it, and      *)
(* leaves the cursor there.  When that seek fails the length is 0.         *)
Init ==
  /\ \/ Given # 0 /\ length = Given /\ pos = 0
     \/ Given = 0 /\ length = IoLen /\ pos = IoLen
     \/ Given = 0 /\ length = 0 /\ pos = 0
  /\ alive = TRUE
  /\ open = {}
  /\ offset = [v \in View |-> 0]
  /\ len = [v \in View |-> 0]
  /\ holder = Nobody
  /\ answer = [kind |-> "none"]

Error == /\ answer' = [kind |-> "error"]
         /\ UNCHANGED <<pos, length, alive, open, offset, len, holder>>

(* Mutant: a window that is as long as the file, wherever it starts.       *)
WholeFileView(v, off) ==
  /\ pos' = off
  /\ open' = open \cup {v}
  /\ offset' = [offset EXCEPT ![v] = off]
  /\ len' = [len EXCEPT ![v] = length]
  /\ holder' = v
  /\ answer' = [kind |-> "opened", view |-> v]
  /\ UNCHANGED <<length, alive>>

(* View::new: place the io on the first byte, keep offset and length.      *)
PlaceView(v, off) ==
  /\ pos' = off
  /\ open' = open \cup {v}
  /\ offset' = [offset EXCEPT ![v] = off]
  /\ len' = [len EXCEPT ![v] = length - off]
  /\ holder' = v
  /\ answer' = [kind |-> "opened", view |-> v]
  /\ UNCHANGED <<length, alive>>

(* Viewer::create_view: the caller holds the Viewer.                       *)
CreateView(v, off) ==
  /\ alive
  /\ v \notin open
  /\ \/ off > length /\ Error
     \/ off <= length /\ PlaceView(v, off)

(* Viewer::create_subview: the offset is a place in the file, not in the   *)
(* window of u, whose offset is not added.                                 *)
CreateSubview(u, v, off) ==
  /\ u \in open
  /\ v \notin open
  /\ \/ (~alive \/ off > length) /\ Error
     \/ alive /\ off <= length /\ PlaceView(v, off)

(* View is Clone: what jpeg::Container::decoder hands to the decoder.      *)
CloneView(u, v) ==
  /\ u \in open
  /\ v \notin open
  /\ open' = open \cup {v}
  /\ offset' = [offset EXCEPT ![v] = offset[u]]
  /\ len' = [len EXCEPT ![v] = len[u]]
  /\ holder' = IF holder = u THEN v ELSE holder
  /\ answer' = [kind |-> "opened", view |-> v]
  /\ UNCHANGED <<pos, length, alive>>

(* Mutant: the position of the io, not of the View.                        *)
Absolute(i, off) == i

(* u64 subtraction of View::seek: i - self.offset.                         *)
Relative(i, off) == IF i >= off THEN i - off ELSE i + Limit + 1 - off

(* Mutants: seeks that forget the offset of the window, its length, or to  *)
(* check the position first.                                               *)
SeekFile(v, p) ==
  /\ v \in open
  /\ alive
  /\ \/ p > len[v] /\ Error
     \/ /\ p <= len[v]
        /\ pos' = p
        /\ holder' = v
        /\ answer' = [kind |-> "position", view |-> v,
                      at |-> Relative(pos', offset[v])]
        /\ UNCHANGED <<length, alive, open, offset, len>>

SeekThenCheck(v, p) ==
  /\ v \in open
  /\ alive
  /\ pos' = p + offset[v]
  /\ answer' = IF p > len[v] THEN [kind |-> "error"]
               ELSE [kind |-> "position", view |-> v, at |-> p]
  /\ holder' = IF p > len[v] THEN holder ELSE v
  /\ UNCHANGED <<length, alive, open, offset, len>>

(* View::seek, SeekFrom::Start: the position is checked against the        *)
(* window, and a failed check does not touch the io.                       *)
SeekStart(v, p) ==
  /\ v \in open
  /\ alive
  /\ \/ p > len[v] /\ Error
     \/ /\ p <= len[v]
        /\ pos' = p + offset[v]
        /\ holder' = v
        /\ answer' = [kind |-> "position", view |-> v,
                      at |-> Relative(pos', offset[v])]
        /\ UNCHANGED <<length, alive, open, offset, len>>

(* The holder goes on from where it is.  Another View that goes on from    *)
(* the cursor as it finds it leaves nobody who knows where that is.        *)
Uses(v) == IF holder = v THEN v ELSE Nobody

(* View::seek, SeekFrom::Current, stream_position() for d = 0: handed to   *)
(* the io as it is, with no check.  No caller moves backwards, or past     *)
(* what a u64 holds.                                                       *)
SeekCurrent(v, d) ==
  /\ v \in open
  /\ alive
  /\ pos + d <= Limit
  /\ pos' = pos + d
  /\ holder' = Uses(v)
  /\ answer' = [kind |-> "position", view |-> v,
                at |-> Relative(pos', offset[v])]
  /\ UNCHANGED <<length, alive, open, offset, len>>

(* The bytes that are left after the cursor.                               *)
Left == IF pos >= IoLen THEN 0 ELSE IoLen - pos

(* View::read: the io may give less than asked, and nothing only at its    *)
(* end.  The window of v does not bound the read.                          *)
Read(v, n) ==
  /\ v \in open
  /\ alive
  /\ holder' = Uses(v)
  /\ \E k \in 0 .. n :
       /\ k <= Left
       /\ k = 0 => (Left = 0 \/ n = 0)
       /\ pos' = pos + k
       /\ answer' = [kind |-> "bytes", view |-> v, from |-> pos, n |-> k]
  /\ UNCHANGED <<length, alive, open, offset, len>>

(* The io fails, when it is read or moved, or when a new View is placed:    *)
(* the error is passed on.                                                 *)
Fails ==
  /\ alive
  /\ Error

(* A View goes out of scope.                                               *)
DropView(v) ==
  /\ v \in open
  /\ open' = open \ {v}
  /\ holder' = IF holder = v THEN Nobody ELSE holder
  /\ UNCHANGED <<pos, length, alive, offset, len, answer>>

(* The last Rc<Viewer> goes: the Views only hold Weak references.  A View  *)
(* used after that panics (expect in read and seek), which ends the        *)
(* program: SeekStart, SeekCurrent and Read are steps of a live Viewer.    *)
DropViewer ==
  /\ alive
  /\ alive' = FALSE
  /\ UNCHANGED <<pos, length, open, offset, len, holder, answer>>

Next ==
  \/ \E v \in View, off \in Ask : CreateView(v, off)
  \/ \E u, v \in View, off \in Ask : CreateSubview(u, v, off)
  \/ \E u, v \in View : CloneView(u, v)
  \/ \E v \in View, p \in Ask : SeekStart(v, p)
  \/ \E v \in View, d \in Count : SeekCurrent(v, d)
  \/ \E v \in View, n \in Count : Read(v, n)
  \/ \E v \in View : DropView(v)
  \/ Fails
  \/ DropViewer

Spec == Init /\ [][Next]_vars

-----------------------------------------------------------------------------
(* Types, and how the parts of the state bound each other.                 *)
TypeOK ==
  /\ pos \in 0 .. Limit
  /\ length \in 0 .. Limit
  /\ alive \in BOOLEAN
  /\ open \subseteq View
  /\ offset \in [View -> 0 .. Limit]
  /\ len \in [View -> 0 .. Limit]
  /\ holder \in open \cup {Nobody}

(* Every View reaches from its offset to the end of the file, however deep *)
(* it was opened: create_subview takes a place in the file and the length  *)
(* of the file, where adding or cutting by its parent would be easy to get *)
(* wrong (io.rs, create_view and create_subview).                          *)
WindowsReachTheEnd == \A v \in open : offset[v] + len[v] = length

(* The View that placed the cursor last is never behind its own first      *)
(* byte, so the u64 subtraction that makes a position relative (io.rs,     *)
(* View::seek) does not underflow, whatever other Views did before.        *)
HolderIsInItsWindow == holder # Nobody => pos >= offset[holder]

(* A position given to a container whose View knows where the cursor is    *)
(* leads back to the cursor: the offset that a seek adds is the one it     *)
(* takes off (io.rs, View::seek).                                          *)
PositionsAreTrue ==
  [][answer' # answer /\ answer'.kind = "position" /\ holder' = answer'.view
       => pos' = offset[answer'.view] + answer'.at]_vars

(* The shared cursor is invisible to a container that seeks, or has just   *)
(* opened its View, before it reads: every View is a file of its own.      *)
File == INSTANCE WindowedFile WITH
          Lost <- Nobody,
          Number <- 0 .. Limit,
          base <- offset,
          size <- len,
          cur <- [v \in View |-> IF v = holder THEN pos - offset[v] ELSE Nobody]

IsWindowedFile == File!Spec
=============================================================================
