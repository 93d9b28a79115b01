--------------------------- MODULE MCContainerIo ---------------------------
(* One file, in two parts that no step leads from one to the other: three  *)
(* handles, a parent, a subview of it and a clone, that are opened, placed *)
(* and read in every order; and the buffers and thumbnails that up to two  *)
(* of them load, with other uses of the io between two loads.              *)
EXTENDS ContainerIo

CONSTANTS v1, v2, v3

VARIABLE part

MCAsk == {0, 2, 4}
MCCount == {0, 3}
MCView == {v1, v2, v3}

MCInit == part \in {"views", "operations"} /\ ContainerInit

MCNext ==
  /\ UNCHANGED part
  /\ \/ part = "views" /\ Elsewhere
     \/ part = "operations" /\ ContainerNext /\ open' \subseteq {v1, v2}

MCSpec == MCInit /\ [][MCNext]_<<part, allVars>> /\ WF_allVars(Step)
=============================================================================
