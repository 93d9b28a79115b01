------------------------------ MODULE MakerNotes ------------------------------
(***************************************************************************)
(* src/src/tiff/dir.rs, Dir::create_maker_note: what the first bytes of a  *)
(* maker note, and the type of the file, tell of the directory in it: the  *)
(* bytes of the header it begins behind, and what its offsets are relative *)
(* to.  The tests go from top to bottom, the first that fits decides.      *)
(*                                                                         *)
(* Of the 19 bytes that are read, name is the name they begin with, bytes  *)
(* those at 5, 6 and 7 where they are told apart, and mlt0 whether MLT0 is *)
(* at 10.                                                                  *)
(***************************************************************************)
EXTENDS Integers

CanonTypes == {"Cr2", "Cr3", "Crw"}

\* Offsets are relative to the file (0 as the base), or to a byte of the note.
InFile == -1

Note(id, skip, base) == [id |-> id, skip |-> skip, base |-> base]
Unknown == Note("", 0, InFile)
Refused == Note("refused", 0, InFile)

\* The A100 has padding.
SonyNote(header) == Note("Sony5", IF header.name = "SONY DSC " THEN 12 ELSE 0, InFile)

NikonNote(header) ==
  CASE header.bytes[2] = 1 -> Note("Nikon2", 8, 8)
    [] header.bytes[2] = 2 -> Note("Nikon", 18, 10)
    [] OTHER -> Note("NikonX", 0, 0)

HeaderlessNikonNote == Note("NikonHeaderless", 0, InFile)

\* The makers that are known by their name alone.
OlympusNotes == {<<"OLYMPUS", Note("Olympus2", 12, 0)>>, <<"OM SYSTEM", Note("Olympus2", 16, 0)>>,
                 <<"OLYMP", Note("Olympus", 8, InFile)>>, <<"EPSON", Note("Epson", 8, InFile)>>}
PentaxNotes == {<<"AOC", Note("Pentax", 6, InFile)>>, <<"PENTAX ", Note("Pentax", 10, 0)>>}
PanasonicNotes == {<<"Panasonic", Note("Panasonic", 12, InFile)>>, <<"Ricoh", Note("Ricoh", 8, InFile)>>}
OtherNotes == {<<"YI", Note("Xiaoyi", 12, 0)>>, <<"Apple iOS", Note("Apple", 14, 0)>>,
               <<"STMN", Note("Samsung1", 0, 0)>>, <<"FUJIFILM", Note("Fujifilm", 12, 0)>>,
               <<"SIGMA", Note("Sigma", 10, InFile)>>}
NamedNotes == OlympusNotes \cup PentaxNotes \cup PanasonicNotes \cup OtherNotes
IsNamed(name) == \E n \in NamedNotes : n[1] = name
Named(name) == (CHOOSE n \in NamedNotes : n[1] = name)[2]

\* A Leica is a rebadged Panasonic in an RW2 file.
LeicaCameraNote(type) ==
  CASE type = "Rw2" -> Note("Panasonic", 18, InFile)
    [] type = "Dng" -> Note("Leica5", 18, InFile)
    [] OTHER -> Unknown

LeicaM8Note(type) ==
  IF type = "Rw2" THEN Note("Panasonic", 8, InFile) ELSE Note("Leica2", 8, 0)

LeicaNote(type, bytes) ==
  CASE bytes = <<0, 0, 0>> -> LeicaM8Note(type)
    [] bytes[1] = 0 /\ bytes[3] = 0 /\ bytes[2] \in 8 .. 10 -> Note("Leica5", 8, InFile)
    [] bytes[1] = 0 /\ bytes[3] = 0 /\ bytes[2] \in {1, 4, 5, 6, 7, 16, 26} -> Note("Leica5", 8, 0)
    [] bytes = <<0, 2, 255>> -> Note("Leica6", 8, InFile)
    [] bytes = <<48, 3, 0>> -> Note("Leica4", 8, 0)          \* 48 is the character 0
    [] bytes = <<0, 2, 0>> -> Note("Leica9", 8, InFile)
    [] OTHER -> Unknown

\* No directories.
RefusedNames == {"SEITZ PHOTOTECHNIK", "LSI1", "HDRP"}

OtherNote(header) ==
  CASE header.mlt0 -> Note("Minolta", 0, 0)
    [] ~header.mlt0 /\ header.name \in RefusedNames -> Refused
    [] OTHER -> Unknown

LeicaOrOther(type, header) ==
  LET note == CASE header.name = "LEICA CAMERA AG" -> LeicaCameraNote(type)
                [] header.name = "LEICA" -> LeicaNote(type, header.bytes)
                [] OTHER -> Unknown
  IN IF note # Unknown THEN note ELSE OtherNote(header)

\* For all files but those of Canon, whose notes have no header.
create_maker_note(type, header) ==
  CASE type = "Arw" -> SonyNote(header)
    [] type # "Arw" /\ header.name = "Nikon" -> NikonNote(header)
    [] type = "Nef" /\ header.name # "Nikon" -> HeaderlessNikonNote
    [] type \notin {"Arw", "Nef"} /\ IsNamed(header.name) -> Named(header.name)
    [] OTHER -> LeicaOrOther(type, header)
=============================================================================
