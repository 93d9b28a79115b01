---------------------------- MODULE EntryValues ----------------------------
(* The values of the entries of a directory (src/src/tiff/entry.rs, with   *)
(* the types of src/src/tiff/exif.rs): what the typed accessors give for   *)
(* an entry as it was read, and the metadata the iterators give            *)
(* (src/src/tiff/iterator.rs, src/src/metadata.rs).  The bytes of an entry *)
(* are named by their place; a value is where it was read from, how many   *)
(* bytes of it and in which order, so that a value is right when it is     *)
(* made of the right bytes.                                                *)
EXTENDS Naturals, Sequences, FiniteSets

CONSTANTS Entries       \* [type, count, zero, loaded]: type is the name of a tag
                        \* type or "?"; zero: the denominators are 0; loaded: the
                        \* data, when they are elsewhere, could be read
ASSUME EntriesAssumption ==
  \A e \in Entries : /\ e.count \in Nat /\ e.zero \in BOOLEAN /\ e.loaded \in BOOLEAN
                     /\ ~e.loaded => e.type = "Error"   \* Dir::read

VARIABLES
  entry,      \* the entry that is asked
  accessor,   \* what it was asked for
  got         \* what it gave

valueVars == <<entry, accessor, got>>

(* tag_unit_size, and unit_size of the types values are read as, which are *)
(* named by their exif_type.                                               *)
Units == [Byte |-> 1, Ascii |-> 1, SByte |-> 1, Undefined |-> 1, Invalid |-> 1, Error |-> 1,
          Short |-> 2, SShort |-> 2, Long |-> 4, SLong |-> 4, Float |-> 4,
          Rational |-> 8, SRational |-> 8, Double |-> 8]
TagTypes == DOMAIN Units
tag_unit_size(t) == IF t \in TagTypes THEN Units[t] ELSE 1

IsArray(t) == t \in {"Ascii", "Undefined"}
ReadableTypes == TagTypes \ {"Ascii", "Undefined", "Invalid", "Error"}

(* The data of an entry: its four bytes, or as many as its values need     *)
(* (Entry::is_inline, load_data).  One whose data could not be loaded has  *)
(* the type Error, its count, and the four bytes that were their place.    *)
Inline(e) == tag_unit_size(e.type) * e.count <= 4
DataLen(e) == IF Inline(e) \/ ~e.loaded THEN 4 ELSE tag_unit_size(e.type) * e.count

None == [is |-> "none", values |-> <<>>]
Panics == [is |-> "panic", values |-> <<>>]
Some(values) == [is |-> "some", values |-> values]

(* T::read of the slice that begins at a unit: a slice that is out of the  *)
(* data, or too short, panics.                                             *)
InData(e, t, index) == tag_unit_size(t) * (index + 1) <= DataLen(e)
ValueAt(t, index) == [from |-> tag_unit_size(t) * index, bytes |-> tag_unit_size(t)]

ReadOne(e, t, index) == IF InData(e, t, index) THEN Some(<<ValueAt(t, index)>>) ELSE Panics
ReadAll(e, t, n) ==
  IF n = 0 \/ InData(e, t, n - 1) THEN Some([i \in 1 .. n |-> ValueAt(t, i - 1)]) ELSE Panics

value_at_index(e, t, index, untyped) ==
  IF (untyped \/ e.type \in {"Undefined", t}) /\ index < e.count
  THEN ReadOne(e, t, index) ELSE None

(* A single rational is divided as it is, and always the first.            *)
Quotient(e) ==
  LET r == value_at_index(e, "Rational", 0, FALSE) IN
  IF r.is = "some" /\ e.zero THEN Panics ELSE r

uint_value_at_index(e, index) ==
  CASE index < e.count /\ e.type \in {"Short", "Long"} -> ReadOne(e, e.type, index)
    [] index < e.count /\ e.type = "Rational" -> Quotient(e)
    [] OTHER -> None

int_value_at_index(e, index) ==
  IF index < e.count /\ e.type \in {"SShort", "SLong"} THEN ReadOne(e, e.type, index) ELSE None

\* mutant: the bytes of an untyped entry are counted as if they were values
value_array_of_bytes(e, t) ==
  IF ~IsArray(t) /\ e.type \in {"Undefined", t} THEN ReadAll(e, t, e.count) ELSE None

(* The count of an untyped entry is in bytes.                              *)
value_array(e, t) ==
  IF ~IsArray(t) /\ e.type \in {"Undefined", t}
  THEN ReadAll(e, t, IF e.type = "Undefined" THEN e.count \div tag_unit_size(t) ELSE e.count)
  ELSE None

(* Quotients of an array are 0, or no number, when the denominator is 0.   *)
uint_value_array(e) ==
  CASE e.type \in {"Short", "Long"} -> ReadAll(e, e.type, e.count)
    [] e.type = "Rational" -> value_array(e, "Rational")
    [] OTHER -> None

float_value_array(e) ==
  CASE e.type \in {"Short", "Long"} -> uint_value_array(e)
    [] e.type \in {"Rational", "SRational"} -> value_array(e, e.type)
    [] e.type \in {"Float", "Double"} -> ReadAll(e, e.type, e.count)
    [] OTHER -> None

int_value_array(e) ==
  IF e.type \in {"SShort", "SLong"} THEN ReadAll(e, e.type, e.count) ELSE None

(* The whole data, to the end of the string.                               *)
string_value(e) == IF e.type = "Ascii" THEN Some(<<[from |-> 0, bytes |-> DataLen(e)]>>) ELSE None

(* The value at 0 of a string; untyped bytes are read as one too.          *)
value_of_string(e) ==
  IF e.type \in {"Ascii", "Undefined"} /\ e.count > 0
  THEN Some(<<[from |-> 0, bytes |-> DataLen(e)]>>) ELSE None

Unwrapped(r) == IF r.is = "none" THEN Panics ELSE r

(* What the iterator over a directory makes of an entry; an entry of bytes *)
(* gives all of its data, and is as long as the data.                      *)
from_entry(e) ==
  CASE e.type = "Ascii" -> Unwrapped(string_value(e))
    [] e.type \in {"Rational", "SRational", "Float", "Double", "SByte"} ->
         Unwrapped(value_array(e, e.type))
    [] e.type \in {"Short", "Long"} -> Unwrapped(uint_value_array(e))
    [] e.type \in {"SShort", "SLong"} -> Unwrapped(int_value_array(e))
    [] OTHER -> ReadAll(e, "Byte", DataLen(e))

(* Value::integer and Value::rational: the first, of the metadata of an    *)
(* entry of numbers.  An empty array panics.                               *)
FirstOf(r) == IF r.is = "some" /\ r.values = <<>> THEN Panics
            ELSE [r EXCEPT !.values = SubSeq(@, 1, 1)]
integer(e) == IF e.type \in {"Short", "Long"} THEN FirstOf(from_entry(e)) ELSE None
rational(e) == IF e.type = "Rational" THEN FirstOf(from_entry(e)) ELSE None

(* Value::into_string: how many values are written; what is left out of an *)
(* abridged text is what comes after 21.                                   *)
AbridgedAt == 20
Written(e, full) ==
  LET v == from_entry(e) IN
  IF v.is = "some" /\ ~full /\ Len(v.values) > AbridgedAt
  THEN Some(SubSeq(v.values, 1, AbridgedAt + 1)) ELSE v

(* The ways in: Dir::value, value_untyped of ifd_in_entry, uint_value,     *)
(* u16_value_array and the like, the metadata, and its text.               *)
AskFor(name, result) ==
  /\ accessor = "none"
  /\ accessor' = name /\ got' = result /\ UNCHANGED entry

AskValue == \E t \in ReadableTypes, i \in 0 .. 2 : AskFor("value", value_at_index(entry, t, i, FALSE))
AskUntyped == entry.type \in {"?", "Invalid", "Error", "Long"} /\ AskFor("untyped", value_at_index(entry, "Long", 0, TRUE))
AskString == AskFor("string", value_of_string(entry)) \/ AskFor("string", string_value(entry))
AskUint == AskFor("uint", uint_value_at_index(entry, 0))
AskInt == AskFor("int", int_value_at_index(entry, 0))
AskArray == \E t \in ReadableTypes : AskFor("array", value_array(entry, t))
AskUints == AskFor("uints", uint_value_array(entry))
AskInts == AskFor("ints", int_value_array(entry))
AskFloats == AskFor("floats", float_value_array(entry))
AskMetadata == AskFor("metadata", from_entry(entry))
AskFirst == AskFor("first", integer(entry)) \/ AskFor("first", rational(entry))
AskText == \E full \in BOOLEAN : AskFor(IF full THEN "text" ELSE "abridged", Written(entry, full))

ValuesInit == entry \in Entries /\ accessor = "none" /\ got = None

ValuesStep ==
  \/ AskValue \/ AskString \/ AskUntyped \/ AskUint \/ AskInt \/ AskArray \/ AskUints
  \/ AskInts \/ AskFloats \/ AskMetadata \/ AskFirst \/ AskText

ValuesSpec == ValuesInit /\ [][ValuesStep]_valueVars

-----------------------------------------------------------------------------
(* The entry as the file has it: count values, one after the other.        *)
OwnValues(e) == [i \in 1 .. e.count |-> ValueAt(e.type, i - 1)]
OwnData(e) == tag_unit_size(e.type) * e.count

Numbers == TagTypes \ {"Byte", "Ascii", "Undefined", "Invalid", "Error"}

(* Whatever accessor an entry is asked by, the values it gives are of its  *)
(* own bytes, and in an entry of numbers they are its values; the metadata *)
(* are all of them, for every entry, and are never refused: none of the    *)
(* unwraps of from_entry fails.  What panics is a quotient by 0, the first *)
(* of no values, and a value of an untyped entry that is past its bytes.   *)
ValuesAreTheEntrys ==
  /\ accessor # "none" =>
       \A i \in DOMAIN got.values :
         /\ got.values[i].from + got.values[i].bytes <= DataLen(entry)
         /\ (entry.type \in Numbers /\ accessor # "untyped") =>
              \E j \in 1 .. entry.count : got.values[i] = OwnValues(entry)[j]
  /\ accessor \in {"metadata", "text"} =>
       /\ got.is = "some"
       /\ entry.type \in Numbers => got.values = OwnValues(entry)
       /\ entry.type \notin Numbers =>
            \E n \in {OwnData(entry), DataLen(entry)} :
              got.values = IF entry.type = "Ascii" THEN <<[from |-> 0, bytes |-> n]>>
                           ELSE [i \in 1 .. n |-> ValueAt("Byte", i - 1)]
  /\ accessor \in {"uints", "ints", "floats"} /\ got.is = "some" => got.values = OwnValues(entry)
  /\ got.is = "panic" =>
       \/ accessor = "uint" /\ entry.zero
       \/ accessor = "first" /\ entry.count = 0
       \/ accessor = "value" /\ entry.type = "Undefined"
=============================================================================
