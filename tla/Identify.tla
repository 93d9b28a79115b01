------------------------------ MODULE Identify ------------------------------
(***************************************************************************)
(* Opening a file: src/src/rawfile.rs (rawfile_from_file, from_io),        *)
(* src/src/identify.rs and src/src/factory.rs.  The type is the one the    *)
(* caller gives, or that of the extension, or that of the first 16 bytes   *)
(* and of the first directory; the type tells which kind of RawFile is     *)
(* constructed.                                                            *)
(***************************************************************************)
EXTENDS Integers

CONSTANTS OpenedFiles,  \* the files
          Ways          \* how they are opened

(* A file: the extension of its format, what its first bytes are, their    *)
(* number, whether its first directory can be read, has a DNG version, and *)
(* names which make.  A way: the type the caller gives, and the extension  *)
(* of the name it is opened by (in any case, "" for none, and when it is   *)
(* opened from memory or an io), or "its own".  kinds is history: what the *)
(* file was opened as without a hint, each time it was.                    *)
VARIABLES file_opened, way, opening, type, kinds

identifyVars == <<file_opened, way, opening, type, kinds>>

NoType == "none"

IdentifyInit ==
  /\ file_opened \in OpenedFiles /\ way \in Ways /\ kinds = {}
  /\ opening = "called" /\ type = NoType

Identified(next, t) == opening' = next /\ type' = t /\ UNCHANGED <<file_opened, way>>

EXT_TYPE ==
  {<<"arw", "Arw">>, <<"cr2", "Cr2">>, <<"cr3", "Cr3">>, <<"dng", "Dng">>, <<"erf", "Erf">>, <<"jpg", "Jpeg">>,
   <<"jpeg", "Jpeg">>, <<"gpr", "Gpr">>, <<"nef", "Nef">>, <<"nrw", "Nrw">>, <<"orf", "Orf">>, <<"pef", "Pef">>,
   <<"raf", "Raf">>, <<"raw", "Rw">>, <<"rw2", "Rw2">>, <<"rwl", "Rw2">>, <<"sr2", "Arw">>}

type_for_extension(ext) ==
  IF \E e \in EXT_TYPE : e[1] = ext THEN (CHOOSE e \in EXT_TYPE : e[1] = ext)[2] ELSE NoType

\* The kind of RawFile that is constructed for a type.
FACTORY_MAP ==
  [t \in {"Arw", "Cr2", "Cr3", "Crw", "Dng", "Erf", "Jpeg", "Gpr", "Mrw", "Nef", "Nrw", "Orf", "Pef",
          "Raf", "Rw", "Rw2"} |->
     CASE t = "Gpr" -> "Dng" [] t = "Nrw" -> "Nef" [] t = "Rw" -> "Rw2" [] OTHER -> t]

Extension == IF way.ext = "its own" THEN file_opened.ext ELSE way.ext

(* The extension is a string only when it is UTF-8.                        *)
Hint ==
  /\ opening = "called"
  /\ LET hint == IF way.hint # NoType THEN way.hint ELSE type_for_extension(Extension)
     IN \/ way.hint = NoType /\ Extension = "not UTF-8" /\ Identified("panic", NoType)
        \/ (way.hint = NoType => Extension # "not UTF-8") /\
             Identified(IF hint = NoType THEN "content" ELSE "typed", hint)
  /\ UNCHANGED kinds

-----------------------------------------------------------------------------
(* type_for_content.  Of each beginning, the type and how many bytes have  *)
(* to be there for it to be told.                                          *)
Magics ==
  {[begins |-> "jpeg", type |-> "Jpeg", len |-> 4], [begins |-> "mrm", type |-> "Mrw", len |-> 4],
   [begins |-> "crx", type |-> "Cr3", len |-> 12], [begins |-> "heap", type |-> "Crw", len |-> 14],
   [begins |-> "iiro", type |-> "Orf", len |-> 4], [begins |-> "iiu", type |-> "Rw2", len |-> 4],
   [begins |-> "fuji", type |-> "Raf", len |-> 16], [begins |-> "tiff cr", type |-> "Cr2", len |-> 12]}

Told(f, n) == {m \in Magics : m.begins = f.begins /\ m.len <= n}

\* The make is what Exif says, whole or a part of it.
TypeOfMake(make) ==
  CASE make = "NIKON" -> "Nef" [] make = "SEIKO EPSON CORP." -> "Erf"
    [] make = "PENTAX Corporation " -> "Pef" [] make = "SONY" -> "Arw"
    [] make = "Canon" -> "Cr2" [] OTHER -> NoType

Tiff(f, makes) == f.begins = "tiff" /\ ~f.dng /\ f.make \in makes

(* What files of each extension hold, as their formats and their makers    *)
(* have it; a file of any other may hold anything.                         *)
IsOfItsFormat(f) ==
  /\ f.ext \in {"jpg", "jpeg"} => f.begins \in {"jpeg", "jfif"}
  /\ f.ext \in {"dng", "gpr"} => f.begins = "tiff" /\ f.dng
  /\ f.ext \in {"arw", "sr2"} => Tiff(f, {"SONY"})
  /\ f.ext \in {"nef", "nrw"} => Tiff(f, {"NIKON"})
  /\ f.ext = "erf" => Tiff(f, {"SEIKO EPSON CORP."})
  /\ f.ext = "pef" => Tiff(f, {"PENTAX Corporation ", "RICOH"})
  /\ f.ext = "cr2" => f.begins = "tiff cr" \/ Tiff(f, {"Canon"})
  /\ f.ext \in {"raw", "rw2", "rwl"} => f.begins = "iiu"
  /\ f.ext = "cr3" => f.begins = "crx"
  /\ f.ext = "orf" => f.begins = "iiro"
  /\ f.ext = "raf" => f.begins = "fuji"
  /\ f.begins = "tiff cr" => ~f.dng /\ f.make = "Canon"

(* The names a file is given are its own or of no known format.            *)
ASSUME IdentifyAssumption ==
  /\ \A f \in OpenedFiles : f.len \in Nat /\ f.dir \in BOOLEAN /\ f.dng \in BOOLEAN /\ IsOfItsFormat(f)
  /\ \A w \in Ways : w.ext = "its own" \/ type_for_extension(w.ext) = NoType

TypeByMakeFirst(f) ==            \* mutant: the make is asked before the DNG version
  IF TypeOfMake(f.make) # NoType THEN TypeOfMake(f.make) ELSE IF f.dng THEN "Dng" ELSE NoType

TypeOfDir(f) == IF f.dng THEN "Dng" ELSE TypeOfMake(f.make)

(* One read of the io, which may be short, or fail; reading the directory  *)
(* may fail too.                                                           *)
Content ==
  /\ opening = "content" /\ UNCHANGED kinds
  /\ \/ Identified("error", NoType)
     \/ \E n \in 0 .. 16 :
          /\ n <= file_opened.len
          /\ LET f == file_opened
                 told == Told(f, n)
                 tiff == n >= 8 /\ told = {} /\ f.begins \in {"tiff", "tiff cr"}
             IN \/ n <= 4 /\ Identified("error", NoType)
                \/ n > 4 /\ told # {} /\ Identified("typed", (CHOOSE m \in told : TRUE).type)
                \/ n > 4 /\ told = {} /\
                     Identified("typed", IF tiff /\ f.dir THEN TypeOfDir(f) ELSE NoType)

(* UnrecognizedFormat for a type that has no RawFile.                      *)
Construct ==
  /\ opening = "typed"
  /\ \/ type \notin DOMAIN FACTORY_MAP /\ Identified("error", type) /\ UNCHANGED kinds
     \/ /\ type \in DOMAIN FACTORY_MAP /\ Identified("opened", FACTORY_MAP[type])
        /\ kinds' = IF way.hint = NoType THEN kinds \cup {FACTORY_MAP[type]} ELSE kinds

(* The same file is opened again, in any way.                              *)
OpenAgain ==
  /\ opening \in {"opened", "error"}
  /\ opening' = "called" /\ type' = NoType /\ way' \in Ways
  /\ UNCHANGED <<file_opened, kinds>>

IdentifyStep == Hint \/ Content \/ Construct \/ OpenAgain

IdentifySpec == IdentifyInit /\ [][IdentifyStep]_identifyVars

-----------------------------------------------------------------------------
(* However often a file is opened, by its own name, by one that says       *)
(* nothing or from memory, however few bytes the one read returns, and     *)
(* whether or not its directory can be read, it is one kind of file that   *)
(* it is opened as, or it is not opened: what the extensions say, and what *)
(* the first bytes, the DNG version and the makes say, agree once the      *)
(* RawFile is constructed (identify_extension, type_for_content, from_io). *)
OpenedAsOneKind == \A k, l \in kinds : k = l
=============================================================================
