----------------------------- MODULE MCTiffDirs -----------------------------
(* Files with two directories: A, at word 2, of two entries, and B, at     *)
(* word 8, of one entry or none, or of a negative count.  Six words of     *)
(* data follow.                                                            *)
EXTENDS TiffDirs

MCRawTypes == <<"Other", "Arw", "Nef", "Rw2", "Dng", "Cr2">>

Typed(type, first, a1, a2, nextA, nB, b, nextB, data) ==
  [w \in 0 .. 17 |->
     (<<type, first, 2>> \o a1 \o a2 \o <<nextA, nB>> \o b \o <<nextB>> \o data)[w + 1]]

Layout(first, a1, a2, nextA, nB, b, nextB, data) ==
  Typed(1, first, a1, a2, nextA, nB, b, nextB, data \o <<0, 0, 0>>)

(* Headers: of makers that tell offsets in the note from offsets in the    *)
(* file, one that is refused (1 to 4), and the rest.                       *)
By(name, bytes) == [name |-> name, bytes |-> bytes, mlt0 |-> FALSE]
MCHeaders ==
  <<By("OLYMPUS", <<83, 0, 73>>), By("OLYMP", <<0, 1, 0>>), By("LSI1", <<0, 0, 0>>),
    By("Nikon", <<0, 1, 0>>), By("Nikon", <<0, 2, 16>>), By("Nikon", <<0, 3, 0>>), By("SONY DSC ", <<83, 67, 32>>),
    By("LEICA CAMERA AG", <<32, 67, 65>>), By("LEICA", <<0, 0, 0>>), By("LEICA", <<0, 2, 0>>),
    By("LEICA", <<0, 9, 0>>), By("LEICA", <<0, 26, 0>>), By("LEICA", <<0, 2, 255>>), By("LEICA", <<48, 3, 0>>),
    By("LEICA", <<0, 50, 0>>), By("PENTAX ", <<65, 32, 0>>), By("STMN", <<0, 0, 0>>), By("SIGMA", <<0, 0, 0>>),
    [name |-> "", bytes |-> <<0, 0, 0>>, mlt0 |-> TRUE]>>

(* Chains: no directory, one, two, one that cannot be read, one that       *)
(* starts inside another or in the data, a link backwards or to itself.    *)
ChainFiles ==
  {Layout(first, <<a, v>>, <<0, 0>>, nextA, b[1], <<4, b[2]>>, nextB, <<d, 8, 0>>) :
     first \in {0, 2, 8, 20}, a \in {0, 4}, v \in {12, 16},
     nextA \in {0, 8, 12, 20}, b \in {<<0, 2>>, <<1, 2>>, <<1, 12>>, <<99, 2>>},
     nextB \in {0, 2, 12}, d \in {0, 1}}

(* Pointers: B is the Exif directory, its maker note is at word 12 or 11   *)
(* with a header of each kind; A also has one or two sub IFDs.             *)
PointerFiles ==
  {Layout(2, <<1, x>>, <<s, v>>, 0, 1, <<2, m>>, 0, <<d, e, 0>>) :
     x \in {8, 12, 20}, s \in {1, 3, 4}, v \in {8, 12, 16, 20},
     m \in {11, 12, 17}, d \in {0, 1, 2, 3}, e \in {0, 8}}

(* Notes: a header of each maker in files of each type, before a directory *)
(* with an entry or none, or before what is none.                          *)
NoteFiles ==
  {Typed(t, 2, <<1, 8>>, <<0, 0>>, 0, 1, <<2, 12>>, 0, <<h>> \o note) :
     t \in DOMAIN MCRawTypes, h \in 0 .. Len(MCHeaders),
     note \in {<<1, 3, 2, 0, 0>>, <<0, 1, 4, 0, 0>>}}

(* Directories that are read each time: GPS, and those in an entry of the  *)
(* Exif directory or of the maker note, with data there or elsewhere.      *)
CallFiles ==
  {Typed(1, 2, <<1, 8>>, <<5, g>>, 0, 1, <<2, 12>>, 0, <<h, 1, k, v, 0, 2>>) :
     g \in {8, 12, 20}, h \in {1, 2}, k \in {2, 3, 4}, v \in {1, 4, 20}}

MCFiles == ChainFiles \cup PointerFiles \cup NoteFiles \cup CallFiles

(* The second directory is before the first in the file; its link is 0, or *)
(* leads back to the first, or to itself.                                  *)
MCBackward ==
  {Layout(8, <<0, 0>>, <<0, 0>>, nextA, nB, <<0, 0>>, 2, <<0, 0, 0>>) :
     nextA \in {0, 8, 2}, nB \in {1}}

MCDirMap == <<"Main">>
MCStrays == {0}
=============================================================================
