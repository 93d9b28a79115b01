---------------------------- MODULE RecordTables ----------------------------
(***************************************************************************)
(* Two containers that are a row of records, each of which leads to the    *)
(* next by its length: the tables of tags of a RAF file (fujifilm/raf.rs)  *)
(* and the blocks of an MRW file (minolta.rs), with what the blocks are    *)
(* asked for.  A file is cells, of two bytes: what is read at any place is *)
(* whatever cell is there, whether or not a record begins at it.           *)
(***************************************************************************)
EXTENDS Integers, Sequences, SequencesExt, FiniteSetsExt

CONSTANTS
    TableFiles,   \* the files that are read
    RafDataTag    \* TAG_RAF_DATA

VARIABLES
    table,    \* the file
    tstep,    \* where the load is: "new", "records", "version", "loaded", "failed"
    cursor,   \* the cell the next record is at
    left,     \* RAF: records to go; MRW: where the blocks end
    found,    \* by tag, or by name of block
    told      \* the answer to the last call

table_vars == <<table, tstep, cursor, left, found, told>>

Absent == [type |-> "absent"]

\* Cells are counted from 0; a read past the end fails.
CellsAt(at, n) == SubSeq(table.cells, at + 1, at + n)
HasCells(at, n) == at + n <= Len(table.cells)

TablesInit ==
    /\ table \in TableFiles
    /\ tstep = "new"
    /\ cursor = 0
    /\ left = 0
    /\ found = [name \in 0 .. 15 |-> Absent]
    /\ told = Absent

Load(step, at, n, records) ==
    tstep' = step /\ cursor' = at /\ left' = n /\ found' = records /\ UNCHANGED <<table, told>>
LoadFails == Load("failed", cursor, left, found)

Tell(answer) == told' = answer /\ UNCHANGED <<table, tstep, cursor, left, found>>
Asks(format) == tstep = "loaded" /\ table.format = format /\ told.type # "panic"

-----------------------------------------------------------------------------
(* RAF: a count, then a tag, a size in bytes and a value for each record.  *)

\* The header has the place of the second table only when the preview does
\* not begin where it would be.
Directory == 120
TableAt ==
    IF table.asked = "meta" THEN table.meta
    ELSE IF table.jpeg_offset > Directory THEN table.extra
    ELSE [offset |-> 0, len |-> 0]

meta_container_at ==
    /\ tstep = "new" /\ table.format = "raf"
    /\ LET at == TableAt.offset
           none == at = 0 \/ TableAt.len = 0 \/ ~HasCells(at, 1)
       IN \/ none /\ LoadFails
          \/ ~none /\ Load("records", at + 1, table.cells[at + 1], found)

\* The size of the undocumented data is taken for its number of u32: of a
\* value of size bytes, as the layout above MetaContainer::load has it, four
\* times as many are read.
ValueCells(tag, size) == IF size # 4 /\ tag = RafDataTag THEN 2 * size ELSE size \div 2

ValueType(tag, size) ==
    IF size = 4 THEN "int" ELSE IF tag = RafDataTag THEN "u32s" ELSE "bytes"

Inserted(tag, value) == [found EXCEPT ![tag] = value]

RafRecord ==
    /\ tstep = "records" /\ table.format = "raf" /\ left > 0
    /\ LET head == CellsAt(cursor, 2)
           tag == head[1]
           size == head[2]
           cells == ValueCells(tag, size)
       IN IF ~HasCells(cursor, 2) \/ ~HasCells(cursor + 2, cells) THEN LoadFails
          ELSE Load("records", cursor + 2 + cells, left - 1,
                    Inserted(tag, [type |-> ValueType(tag, size), cells |-> CellsAt(cursor + 2, cells)]))

RafLoaded ==
    /\ tstep = "records" /\ table.format = "raf" /\ left = 0
    /\ Load("loaded", cursor, left, found)

\* A value of four bytes is two numbers, the height or y first.
SensorDimension == 2
ImgHeightWidth == 4
ImgTopLeft == 6
AreTwo(tag) == found[tag].type = "int"
TwoNumbers(tag) == [height |-> found[tag].cells[1], width |-> found[tag].cells[2]]

\* The sensor's tag counts when it is there, of whatever type.
RafDimensions ==
    /\ Asks("raf")
    /\ LET tag == IF found[SensorDimension] # Absent THEN SensorDimension ELSE ImgHeightWidth
       IN \/ ~AreTwo(tag) /\ Tell([type |-> "no dimensions"])
          \/ AreTwo(tag) /\
               Tell([type |-> "dimensions", size |-> TwoNumbers(tag),
                     area |-> IF AreTwo(ImgTopLeft) /\ AreTwo(ImgHeightWidth)
                              THEN <<TwoNumbers(ImgTopLeft), TwoNumbers(ImgHeightWidth)>> ELSE <<>>])

-----------------------------------------------------------------------------
(* MRW: a block of all the blocks, then the blocks, in any order.          *)

\* DATA_BLOCK_HEADER_LENGTH, and the names that are looked for.
BlockHeader == 2
PRD == 1
TTW == 2
WBG == 3
RIF == 4
PAD == 5
BlockNames == {PRD, TTW, WBG, RIF, PAD}

Block(at) == [type |-> "block", offset |-> at, length |-> CellsAt(at, 2)[2]]

MrwStart ==
    /\ tstep = "new" /\ table.format = "mrw"
    /\ \/ ~HasCells(0, BlockHeader) /\ LoadFails
       \/ HasCells(0, BlockHeader) /\ Load("records", BlockHeader, Block(0).length, found)

NextBlock(block) == cursor + block.length + BlockHeader

WithinWhole == cursor + BlockHeader < left    \* mutant: a short block at the end is lost

Within == cursor < left

MrwBlock ==
    /\ tstep = "records" /\ table.format = "mrw" /\ Within
    /\ LET name == CellsAt(cursor, 1)[1]
           block == Block(cursor)
       IN \/ ~HasCells(cursor, BlockHeader) /\ LoadFails
          \/ HasCells(cursor, BlockHeader) /\
               Load("records", NextBlock(block), left,
                    IF name \in BlockNames THEN Inserted(name, block) ELSE found)

\* The version is at the start of the PRD.
MrwLoaded ==
    /\ tstep = "records" /\ table.format = "mrw" /\ ~Within
    /\ LET prd == found[PRD]
       IN \/ prd # Absent /\ ~HasCells(prd.offset + BlockHeader, 1) /\ LoadFails
          \/ (prd # Absent => HasCells(prd.offset + BlockHeader, 1)) /\ Load("loaded", cursor, left, found)

\* DataBlock::uint16_value and uint8_value; -1 when it cannot be read.
Missing16 == -1
uint_value(block, offset) ==
    LET at == block.offset + BlockHeader + offset
    IN IF HasCells(at, 1) THEN table.cells[at + 1] ELSE Missing16

\* Places in the PRD.
SensorLength == 1
SensorWidth == 2
PixelSize == 3
StorageType == 4
BayerPattern == 5

\* Values there.
Packed == 9
GbrgPattern == 4

raw_data_offset == BlockHeader + left

minolta_prd ==
    /\ Asks("mrw")
    /\ LET prd == found[PRD]
           v == [k \in {SensorLength, SensorWidth, PixelSize, StorageType, BayerPattern} |->
                   uint_value(prd, k)]
       IN Tell(IF prd = Absent \/ Missing16 \in {v[SensorLength], v[SensorWidth], v[PixelSize]}
               THEN [type |-> "no prd"]
               ELSE [type |-> "prd", y |-> v[SensorLength], x |-> v[SensorWidth], bps |-> v[PixelSize],
                     packed |-> v[StorageType] = Packed, gbrg |-> v[BayerPattern] = GbrgPattern,
                     data |-> raw_data_offset])

\* 1 << (6 + d), of a u8 and in an i32.
Shifts(d) == d + 6 < 32
Exponent(d) == ((d + 6) % 256) % 32

\* The three denominators, then the three nominators.
get_wb ==
    /\ Asks("mrw")
    /\ LET wbg == found[WBG]
           v == [k \in 1 .. 6 |-> uint_value(wbg, k - 1)]
           stops == {k \in 1 .. 6 : v[k] = Missing16 \/ (k <= 3 /\ table.checked /\ ~Shifts(v[k]))}
           first == CHOOSE k \in stops : \A j \in stops : k <= j
       IN Tell(IF wbg = Absent THEN [type |-> "no wb"]
               ELSE IF stops = {}
                    THEN [type |-> "wb", num |-> SubSeq(v, 4, 6),
                          den |-> [k \in 1 .. 3 |-> Exponent(v[k])]]
               ELSE IF v[first] = Missing16 THEN [type |-> "no wb"] ELSE [type |-> "panic"])

\* The window on the directory of the file begins in the TTW, and goes on
\* to the end.  The first byte of the thumbnail is set, so one has to be there.
MrwThumbnail ==
    /\ Asks("mrw")
    /\ LET start == found[TTW].offset + BlockHeader
           window == Len(table.cells) - start
           lost == IF found[TTW] = Absent THEN TRUE ELSE window < 0 \/ ~table.ifd
           none == \/ table.note.in = "none"
                   \/ table.note.in = "tags" /\ 0 \in {table.note.offset, table.note.len}
           here == window - table.note.offset
           lens == IF here < 0 THEN 0 .. table.note.len ELSE {Min({here, table.note.len})}
       IN \/ lost /\ Tell([type |-> "panic"])
          \/ ~lost /\ none /\ Tell([type |-> "no thumbnail"])
          \/ ~lost /\ ~none /\
               \E n \in lens : Tell(IF n = 0 THEN [type |-> "panic"]
                                    ELSE [type |-> "thumbnail", len |-> n, at |-> start + table.note.offset])

TablesStep ==
    \/ meta_container_at \/ RafRecord \/ RafLoaded \/ RafDimensions
    \/ MrwStart \/ MrwBlock \/ MrwLoaded
    \/ minolta_prd \/ get_wb \/ MrwThumbnail

-----------------------------------------------------------------------------
(* A whole file is made of items, of a name (or tag) and its cells.        *)

\* The last item of a name counts.  An empty block at the end of all the
\* blocks begins where they end, and is not looked at.
Items(name) ==
    SelectSeq(table.items, LAMBDA i : i.name = name /\ (table.format = "mrw" => i.data # <<>>))

RafIsItems ==
    \A tag \in {i.name : i \in ToSet(table.items)} :
        LET data == Last(Items(tag)).data
        IN /\ found[tag].type = ValueType(tag, 2 * Len(data))
           /\ IsPrefix(data, found[tag].cells)
           /\ tag # RafDataTag => found[tag].cells = data

MrwIsItems ==
    \A name \in BlockNames :
        IF Items(name) = <<>>
        THEN found[name] # Absent => found[name].length = 0
        ELSE /\ found[name] # Absent
             /\ CellsAt(found[name].offset + BlockHeader, found[name].length) = Last(Items(name)).data

\* The dimensions are of the last records of their tags, and of the sensor
\* if it has some.
DimensionsAreItems ==
    told.type = "dimensions" =>
        LET tag == IF Items(SensorDimension) # <<>> THEN SensorDimension ELSE ImgHeightWidth
        IN /\ <<told.size.height, told.size.width>> = Last(Items(tag)).data
           /\ told.area # <<>> => <<told.area[2].height, told.area[2].width>> = Last(Items(ImgHeightWidth)).data

\* What the blocks say, each of its own block.
AnswersAreItems ==
    /\ told.type = "prd" =>
         LET data == Last(Items(PRD)).data
         IN /\ told.y = data[2] /\ told.x = data[3] /\ told.bps = data[4]
            /\ told.data = Len(table.cells) - Len(table.pixels)
    /\ told.type = "wb" => told.num = SubSeq(Last(Items(WBG)).data, 4, 6)
    /\ told.type = "thumbnail" =>
         CellsAt(told.at, told.len) = SubSeq(Last(Items(TTW)).data, table.note.offset + 1,
                                           table.note.offset + table.note.len)
    /\ told.type = "no prd" => Items(PRD) = <<>>
    /\ told.type = "no wb" => Items(WBG) = <<>>

\* The cells of an item that load reads and that are behind it.
Overread(item) ==
    IF table.format = "raf" THEN ValueCells(item.name, 2 * Len(item.data)) - Len(item.data) ELSE 0

\* No record is misread for the undocumented data before it: what is read
\* behind an item is behind the whole table.
NoneIsMisread ==
    \A k \in DOMAIN table.items :
        /\ k < Len(table.items) => Overread(table.items[k]) = 0
        /\ Overread(table.items[k]) <= table.behind

\* The container of a whole file loads, and has for each tag or name the last
\* record of it in the file, whatever their order and their number; the
\* dimensions of a RAF file, and what the blocks of an MRW file are asked for,
\* are of these records.  Nothing is said of a RAF file in which records
\* follow undocumented data of another size than four bytes (they are read
\* from the middle of others), or in which too little follows these data
\* (MetaContainer::load, MrwContainer::load and what reads the blocks).
TableIsItsRecords ==
    table.whole /\ NoneIsMisread =>
      /\ tstep # "failed"
      /\ tstep = "loaded" =>
           IF table.format = "raf" THEN RafIsItems /\ DimensionsAreItems ELSE MrwIsItems /\ AnswersAreItems
=============================================================================
