---------------------------- MODULE MCLazyCells ----------------------------
(* Every file of each format: a stream that is a JPEG or not, with an Exif *)
(* or not; a RAF file also with the two other parts or not.                *)
EXTENDS LazyCells

MCFiles ==
  [format : {"raf"}, has : SUBSET Part]
    \cup [format : {"rw2", "jpeg"}, has : SUBSET {"stream", "exif"}]

MCNumber == 0 .. 4
=============================================================================
