----------------------------- MODULE MCCallers -----------------------------
(* What the callers of the library do: ask for thumbnails; hold boxes of   *)
(* the C API, four of them, on two files, one with an empty directory      *)
(* between two and one whose container could not be opened; ask the        *)
(* entries of every type, inline and not, for their values; have the       *)
(* colour matrices copied; and open files.  Each is one part.              *)
EXTENDS Thumbnails, Handles, EntryValues, ColourMatrices, Identify, TLC

CONSTANTS f1, f2, b1, b2, b3, b4

VARIABLE part

(* Every file with up to two IFD thumbnails and one found in a maker note, *)
(* and files with three; sizes up to 4, which stands for u32::MAX.         *)
Readable(via, dims) == [via : {via}, dim : dims, ok : {TRUE}]

MCSources ==
  {<<>>}
    \cup {<<a, b, c>> : a \in Readable("ifd", 0 .. 4),
                        b \in Readable("ifd", 1 .. 3) \cup Readable("stream", 0 .. 3),
                        c \in Readable("stream", 0 .. 3) \cup Readable("bytes", {2})
                                \cup {[via |-> "stream", dim |-> 2, ok |-> FALSE]}}

MCAsked == 0 .. 4

MCDirs == f1 :> <<2, 0, 1>> @@ f2 :> Unopened
MCSymmetry == Permutations({b1, b2, b3, b4})

MCEntries ==
  [type : TagTypes \cup {"?"}, count : (0 .. 9) \cup {21, 22}, zero : {FALSE}, loaded : {TRUE}]
    \cup [type : {"Rational"}, count : 0 .. 2, zero : {TRUE}, loaded : {TRUE}]
    \cup [type : {"Error"}, count : {1, 3, 9, 22}, zero : {FALSE}, loaded : {FALSE}]

MCMatrices == {<<>>, <<2>>, <<3>>}

(* Of each extension, the files it may stand for, and four of no known     *)
(* extension; hints of types with a RawFile and without one; names that    *)
(* are the file's, unknown, none or no string.                             *)
File(ext, begins, dng, make) == [ext |-> ext, begins |-> begins, dng |-> dng, make |-> make]
Beginnings ==
  {File("jpg", "jpeg", FALSE, ""), File("jpeg", "jfif", FALSE, ""), File("mrw", "mrm", FALSE, ""),
   File("cr3", "crx", FALSE, ""), File("crw", "heap", FALSE, ""), File("orf", "iiro", FALSE, ""),
   File("raf", "fuji", FALSE, ""), File("cr2", "tiff cr", FALSE, "Canon"), File("cr2", "tiff", FALSE, "Canon"),
   File("tif", "tiff", FALSE, "Canon"), File("erf", "tiff", FALSE, "SEIKO EPSON CORP."),
   File("tif", "tiff", FALSE, "Leica"), File("txt", "text", FALSE, "")}
    \cup {File(e, "iiu", FALSE, "") : e \in {"raw", "rw2", "rwl"}}
    \cup {File(e, "tiff", FALSE, "NIKON") : e \in {"nef", "nrw"}}
    \cup {File(e, "tiff", FALSE, "SONY") : e \in {"arw", "sr2"}}
    \cup {File("pef", "tiff", FALSE, m) : m \in {"PENTAX Corporation ", "RICOH"}}
    \cup {File(e, "tiff", TRUE, m) : e \in {"dng", "gpr"}, m \in {"PENTAX Corporation ", "Leica"}}
MCOpenedFiles ==
  {[ext |-> b.ext, begins |-> b.begins, dng |-> b.dng, make |-> b.make, len |-> l, dir |-> d] :
     b \in Beginnings, l \in {3, 9, 200}, d \in BOOLEAN}
MCWays ==
  [hint : {"none"}, ext : {"its own", "", "bak", "not UTF-8"}] \cup [hint : {"Gpr", "Sr2"}, ext : {""}]

AnyEntry == [type |-> "Short", count |-> 1, zero |-> FALSE, loaded |-> TRUE]
AnyFile == CHOOSE f \in MCOpenedFiles : TRUE
AnyWay == CHOOSE w \in MCWays : TRUE
NoMatrices == [provided |-> <<<<>>, <<>>>>, builtin |-> <<>>]

MCInit ==
  /\ \/ part = "thumbnails" /\ entry = AnyEntry /\ matrices = NoMatrices /\ size = 0
     \/ part = "handles" /\ entry = AnyEntry /\ matrices = NoMatrices /\ size = 0 /\ sources = <<>>
     \/ part = "values" /\ matrices = NoMatrices /\ size = 0 /\ sources = <<>>
     \/ part = "matrices" /\ entry = AnyEntry /\ sources = <<>>
     \/ part = "open" /\ entry = AnyEntry /\ matrices = NoMatrices /\ size = 0 /\ sources = <<>>
  /\ part # "open" => file_opened = AnyFile /\ way = AnyWay
  /\ Init
  /\ HandlesInit
  /\ ValuesInit
  /\ MatricesInit
  /\ IdentifyInit

MCNext ==
  /\ UNCHANGED part
  /\ \/ part = "thumbnails" /\ Next /\ UNCHANGED <<handleVars, valueVars, matrixVars, identifyVars>>
     \/ part = "handles" /\ HandlesStep /\ UNCHANGED <<vars, valueVars, matrixVars, identifyVars>>
     \/ part = "values" /\ ValuesStep /\ UNCHANGED <<vars, handleVars, matrixVars, identifyVars>>
     \/ part = "matrices" /\ MatricesStep /\ UNCHANGED <<vars, handleVars, valueVars, identifyVars>>
     \/ part = "open" /\ IdentifyStep /\ UNCHANGED <<vars, handleVars, valueVars, matrixVars>>

MCSpec == MCInit /\ [][MCNext]_<<part, vars, handleVars, valueVars, matrixVars, identifyVars>>
=============================================================================
