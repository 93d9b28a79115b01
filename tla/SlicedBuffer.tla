---------------------------- MODULE SlicedBuffer ----------------------------
(***************************************************************************)
(* The buffer of a picture that comes in vertical slices, mostly Canon     *)
(* (src/src/decompress/sliced_buffer.rs).  Values are appended one after   *)
(* the other; the k-th value is named k, and 0 is T::default().            *)
(***************************************************************************)
EXTENDS Integers, Sequences, FiniteSets

CONSTANTS SlicedPictures,  \* the pictures: width, height, widths of the slices
          MaxValues        \* the most values appended

SlicedPicture ==
  [width : Nat \ {0}, height : Nat \ {0}, slices : Seq(Nat) \ {<<>>}]

ASSUME SlicedBufferAssumption ==
  /\ SlicedPictures \subseteq SlicedPicture
  /\ MaxValues \in Nat

VARIABLES sliced,        \* width, height, slices
          buffer,
          slice,         \* counted from 1 here
          slice_offset, slice_width, row_offset,
          pos,           \* where the next value is written
          appended,      \* how many values were, all in all
          failed         \* a write past the end: extend panics

cursor == <<slice, slice_offset, slice_width, row_offset, pos>>
slicedVars == <<sliced, buffer, cursor, appended, failed>>

width == sliced.width
height == sliced.height
slices == sliced.slices
Places == 0 .. width * height - 1

(* SlicedBuffer::new                                                       *)
SlicedInit ==
  /\ sliced \in SlicedPictures
  /\ buffer = [p \in Places |-> 0]
  /\ slice = 1 /\ slice_offset = 0
  /\ slice_width = slices[1]
  /\ row_offset = 0
  /\ pos = 0
  /\ appended = 0
  /\ failed = FALSE

WidthOf(s) == IF s <= Len(slices) THEN slices[s] ELSE 0

next_slice ==
  /\ slice' = IF slice <= Len(slices) THEN slice + 1 ELSE slice
  /\ slice_offset' = slice_offset + WidthOf(slice)
  /\ slice_width' = WidthOf(slice')

row == pos \div width + 1

next_row ==
  /\ IF row = height THEN next_slice
                     ELSE UNCHANGED <<slice, slice_offset, slice_width>>
  /\ pos' = (IF row = height THEN 0 ELSE row) * width + slice_offset'
  /\ row_offset' = pos'

advance_late ==                \* mutant: one column too many
  IF pos - row_offset >= slice_width
    THEN next_row
    ELSE pos' = pos + 1 /\ UNCHANGED <<slice, slice_offset, slice_width, row_offset>>

advance ==
  IF pos + 1 - row_offset >= slice_width
    THEN next_row
    ELSE pos' = pos + 1 /\ UNCHANGED <<slice, slice_offset, slice_width, row_offset>>

Write == buffer' = [buffer EXCEPT ![pos] = appended + 1]

(* extend: one value of the iterator.  With one slice it ends quietly at   *)
(* the end of the buffer.                                                  *)
ExtendOne ==
  /\ Len(slices) = 1
  /\ pos < width * height
  /\ Write
  /\ pos' = pos + 1
  /\ UNCHANGED <<slice, slice_offset, slice_width, row_offset, failed>>

ExtendFull ==
  /\ Len(slices) = 1
  /\ pos >= width * height
  /\ UNCHANGED <<buffer, cursor, failed>>

ExtendSlices ==
  /\ Len(slices) > 1
  /\ pos < width * height
  /\ Write
  /\ advance
  /\ UNCHANGED failed

ExtendPanics ==
  /\ Len(slices) > 1
  /\ pos >= width * height
  /\ failed' = TRUE
  /\ UNCHANGED <<buffer, cursor>>

SlicedStep ==
  /\ ~failed
  /\ appended < MaxValues
  /\ appended' = appended + 1
  /\ UNCHANGED sliced
  /\ ExtendOne \/ ExtendFull \/ ExtendSlices \/ ExtendPanics

SlicedSpec == SlicedInit /\ [][SlicedStep]_slicedVars

-----------------------------------------------------------------------------
SlicedTypeOK ==
  /\ sliced \in SlicedPicture
  /\ buffer \in [Places -> Nat]
  /\ slice \in 1 .. Len(slices) + 1
  /\ slice_offset \in Nat /\ slice_width \in Nat
  /\ row_offset \in Nat /\ pos \in Nat
  /\ appended \in Nat
  /\ failed \in BOOLEAN

(* Where slice s starts, and where the one after the last would: after all *)
(* the columns of those before.                                            *)
Offset(s) == Cardinality(UNION {{t} \X (1 .. slices[t]) : t \in 1 .. s - 1})

Total == Offset(Len(slices) + 1)

(* The slices are columns of the picture, as a CR2 file should have them.  *)
(* A picture that has only one slice is not sliced.                        *)
SlicesFit ==
  /\ \A s \in DOMAIN slices : slices[s] > 0
  /\ IF Len(slices) = 1 THEN slices[1] = width ELSE Total <= width

(* The value the picture should have at a place of slice s: slice after    *)
(* slice, and each row by row.                                             *)
InSlice(s, p) == Offset(s) <= p % width /\ p % width < Offset(s) + slices[s]

NumberOf(s, p) ==
  height * Offset(s) + (p \div width) * slices[s] + ((p % width) - Offset(s)) + 1

(* While there are no more values than the slices hold, each is where the  *)
(* drawing at the head of sliced_buffer.rs puts it, and nothing else is    *)
(* written; and extend does not panic.                                     *)
ValuesAreInSliceOrder ==
  SlicesFit /\ appended <= height * Total =>
    /\ ~failed
    /\ \A p \in Places :
         /\ \A s \in DOMAIN slices :
              InSlice(s, p) =>
                buffer[p] = IF NumberOf(s, p) <= appended THEN NumberOf(s, p) ELSE 0
         /\ buffer[p] # 0 => \E s \in DOMAIN slices : InSlice(s, p)
=============================================================================
