# TLA+ models of libopenraw

libopenraw reads the raw files of digital cameras. It identifies a file, finds
the directories, the thumbnails and the picture data in it, decompresses the
picture and renders it. This directory holds TLA+ models of the library (the Rust
code in `src/src/`), TLC configurations that check them on small instances, and
TLAPS proofs of what matters most for every instance. `PROJECT.json` lists, for
every definition, the lines of code it stands for.

## The system

A file is opened by a *factory* chosen from its extension or first bytes. The
result is a `RawFile`, one Rust type for each format. It owns a `Viewer`, which
owns the io of the file; everything else reads through `View`s, windows on that
io. A `RawFile` creates a *container* on a View when it is first asked for
something, a container creates sub containers on subviews, and almost everything
found is kept in a `OnceCell`. The library is single threaded, but for the
decompressors that decode tiles or strips in parallel. Callers are Rust programs,
or C programs through boxed handles.

| component | state | operations | what is hard | what makes it correct | modules |
|---|---|---|---|---|---|
| `io.rs`: Viewer, View | the io and its cursor, shared; an offset and a length for each View | `create_view`, `create_subview`, `clone`, `read`, `seek` | any View moves the cursor of all the others; relative positions by subtraction; windows inside windows | a View is a file of its own for a caller that seeks before it reads; positions are exact; windows reach the end of the file | `WindowedFile`, `ViewIo` |
| `container.rs`: RawContainer | a View | `make_thumbnail`, `load_buffer8`, `load_buffer16` | failed seeks, short reads, failing io, sizes past the end | what is returned is the bytes that were asked for | `ContainerIo` |
| `tiff/`: Container, Dir, Entry | `dirs`, `exif_ifd`, `mnote_ifd`, `sub_ifds`, each in a OnceCell | `dirs`, `directory`, `exif_dir`, `mnote_dir`, `get_sub_ifds`, `get_gpsinfo_ifd`, `ifd_in_entry`, `Dir::read`, `create_maker_note`; the accessors of entries | nested lazy cells in any order, data of entries elsewhere, broken entries, links that loop, bases of maker notes, indexes of one type into the bytes of another | cells hold what the file says; the cursor is back in place after each entry; every call returns; values are those of the entry | `TiffDirs`, `MakerNotes`, `EntryValues` |
| `rawfile.rs`, `tiff.rs`, `thumbnails()` of each format | the list of thumbnails, in a OnceCell | `thumbnails`, `thumbnail`, `thumbnail_for_size`, `colour_matrix` | sentinels 0 and u32::MAX, unreadable streams, two thumbnails of one size | the nearest size is given, of all that the file has; nothing is refused that is there | `Thumbnails`, `ColourMatrices` |
| `identify.rs`, `factory.rs` | none | `rawfile_from_file`, `type_for_content`, `get_rawfile_factory` | short files, one read, makers that write DNG, two ways to tell the type | a file is one kind of file, however it is opened | `Identify` |
| `jpeg/`: Container | `decoder`, `image_info`, `exif`, each in a OnceCell | `width`, `height`, `exif`, `exif_dir` | the decoder reads on from the shared cursor, after an error too | the decoder starts at the first byte of the stream | `LazyCells` |
| `fujifilm.rs`, `fujifilm/raf.rs` | the preview, two meta containers, the CFA container, each in a OnceCell | `load`, `jpeg_preview`, `meta_container`, `cfa_container`, `load_rawdata` | cells that fill other cells through one cursor; records that lead to the next by their size | each cell is what its offset says; a table is its records | `LazyCells`, `RecordTables`, `VendorLoads` |
| `panasonic.rs`, `jpeg.rs` | a preview in a OnceCell | `jpeg_preview`, `thumbnails`, `ifd` | as above | as above | `LazyCells`, `VendorLoads` |
| `decompress/tiled.rs` | the tiles, decoded in parallel | `decompress`, `combine_tiles` | edge tiles, tiles that fail | every pixel is the one of its tile | `Tiles` |
| `decompress/sliced_buffer.rs` | the position in the picture, the slice | `extend` | wrapping at rows and slices | the order of the stream is the order of the slices | `SlicedBuffer` |
| `decompress/bit_reader.rs` | bits, a position | `fill_bit_buffer`, `peek`, `consume`, `get_bits` | markers, stuffed bytes, the end of the data | the bits are those of the data, in order | `BitReaders` |
| `decompress/ljpeg.rs` | tables, rows, predictors, restarts | `decompress_buffer` and what it calls | restart markers, tables that are defined again, broken data | a difference is its bits, a row is predicted from the right neighbours | `Huffman`, `Ljpeg` |
| `decompress.rs` | a block | `unpack`, `unpack_from_reader` | padding, rows that are no whole number of blocks | every value in its place | `Unpack` |
| `fujifilm/decompress.rs` | one buffer, shared by strips in parallel | `decompress_strip` | unsafe sharing, lines decoded in two passes from each other | strips write apart from each other, and everywhere; only decoded neighbours are used; pixels have the colour of the pattern | `FujiStrips`, `FujiCodes` |
| `canon/crw.rs`, `canon/crw/` | heaps and values, each in a OnceCell; one View in a RefCell | `heap`, `image_props`, `exif_info`, `dirs`, `load_rawdata`, `decompress` | offsets added unchecked, heaps in heaps, cells that are filled while the View is borrowed | calls come to an end | `CrwFiles`, `CodeTrees`, `RowPredictors` |
| `mp4/`, `canon/cr3.rs` | the parsed context, metadata blocks and thumbnails in OnceCells | `read_mp4` and the reader of each box; `raw_track`, `metadata_block`, `thumbnails`, `load_rawdata` | sizes that lie; readers that have to end where their box does; items taken without a test | tracks are those of the file; the raw picture is the third track | `Mp4Boxes`, `Cr3Files` |
| decompressors of `olympus`, `pentax`, `nikon`, `panasonic`, `canon/crw` | predictors, trees and tables of codes | `decompress` | blocks, rows, parities; caches of codes | every pixel is its neighbours and its difference | `RowPredictors`, `CodeTrees`, `PanasonicChunks` |
| `load_rawdata` of every format, `canon.rs`, `canon/colour.rs` | a RawImage | `tiff_get_rawdata` and what each format makes of it; `identify`, `blacks`, `as_shot` | packings guessed from lengths, tags that are short or overflow, levels from tags or tables | a whole file gives all its pixels | `RawLoads`, `VendorLoads`, `CanonTags` |
| `minolta.rs` | the blocks of an MRW file | `load`, `get_wb`, the thumbnail | blocks in any order | as the tables of RAF | `RecordTables` |
| `rawimage.rs`, `bitmap.rs`, `mosaic.rs`, `render/`, `colour/` | the picture | `rendered_image`, `linearize`, `bimedian_demosaic` | borders, patterns, empty pictures | every pixel is the median of its neighbours | `Rendering` |
| `capi/` | boxed handles | `or_*_new`, `or_*_release`, accessors | what a handle lends | nothing lent outlives its owner | `Handles`, `ColourMatrices` |
| `metadata.rs`, `tiff/iterator.rs` | a position, a stack | `next` | directories of directories, empty ones | each entry once and in order | `Handles`, `EntryValues` |
| tables of constants, `dump.rs`, `probe.rs`, `bin/`, bindings, test suites, `dcraw` | | | | not part of the core | |

`PROJECT.json` lists the components with what is modelled of each, and the
hazards: the places where this code is hard to test, each with the properties
that would catch it going wrong.

## The plan

Everything below is done.

1. The shared io: `WindowedFile`, `ViewIo`, `ViewIoProofs`, `ContainerIo`,
   `ContainerIoProofs`.
2. What is read lazily: `TiffDirs` with `MakerNotes`, `TiffDirsProofs`, `LazyCells`,
   `LazyCellsProofs`.
3. What callers get: `Thumbnails`, `ThumbnailsProofs`, `EntryValues`, `Handles`,
   `CallersProofs`, `ColourMatrices`, `Identify`.
4. How pictures are decoded: `BitReaders`, `Huffman`, `Ljpeg`, `CodeTrees`,
   `RowPredictors`, `PanasonicChunks`, `Unpack`, `Tiles`, `SlicedBuffer`,
   `PicturesProofs`, `FujiStrips`, `FujiStripsProofs`, `FujiCodes`; and rendered:
   `Rendering`.
5. Containers that are not TIFF: `CrwFiles`, `Mp4Boxes`, `Cr3Files`,
   `RecordTables`; and the raw picture of every format: `RawLoads`,
   `VendorLoads`, `CanonTags`.
6. The proofs: of 1 and 2 first, then of what callers get, of the decoders, and of
   the strips of Fujifilm. What they leave to TLC is told below.

## The modules

### The io and what is read through it

**`WindowedFile`** is the promise of `io.rs`: every View is a file of its own
with its own position, which it loses when another View is used. What a window
reads in a lost position can be any bytes.

**`ViewIo`** is `io.rs`. `pos` is the cursor of the io, `length` is
`Viewer.length`, `offset` and `len` are those of each View, `open` the Views in
use, `alive` whether the `Rc<Viewer>` is. `holder` is a history variable: the
View that placed the cursor last while no other was used since. There is an
action for each operation (`CreateView`, `CreateSubview`, `CloneView`,
`SeekStart`, `SeekCurrent`, `Read`) and for a View or the Viewer going out of
scope; `Fails` is the io failing. A call borrows the io (`RefCell`) from its
first to its last line, so a call is a step; what interleaves are the calls of
the containers. The refinement mapping gives `holder` the position
`pos - offset[holder]` and every other View none.

**`ContainerIo`** extends `ViewIo` with the three operations every container
has from `RawContainer`. Each is a sequence of calls of its View: a seek, then
one `read` (`load_buffer8`) or as many as `read_exact` makes of the io. `op` is
the operation in progress, `got` its result. Contents are named by place: a
result is the first byte and how many. `MCContainerIo` checks both modules.

**`TiffDirs`** is `tiff/container.rs` and `tiff/dir.rs`. A file is a function
from places to words: the magic, which gives the type of the file, the place of
the first IFD, then IFDs and data. An IFD is a count, two words for each entry
and the link to the next. `dirs`, `exif`, `mnote` and `sub` are the OnceCells,
`want` is the stack of cells being initialised (a maker note wants the Exif
directory, which wants the chain), `got` what a call that keeps nothing returned
(`get_gpsinfo_ifd`, `ifd_in_entry`), `reading` is `Dir::read` in progress. Each
visit of the io is a step: the header, the count, one entry with the data it
points at, the link. Between two calls other containers move the cursor
(`Stray`). What the file says is stated without a cursor, relative to the list
that is kept (`DirAt` is a directory, `IsChained` a list of directories each of
which the one before links to, `AreSubs` those of the offsets of an entry), so that
files and lists may be of any length. The kinds of entries are reduced to a pointer to the Exif IFD, a maker
note, sub IFDs in the entry or elsewhere, a GPS IFD, and anything else.

**`MakerNotes`** is `create_maker_note` for every maker it knows: from the header
of a note and the type of the file to how many bytes are skipped and what offsets
are relative to. In `TiffDirs` a header is one word, so a distance in bytes into
the note becomes the word it is in. The byte order a note may have of its own
(Fujifilm, Apple) gives other values, not other places, and is left out.

**`LazyCells`** extends `WindowedFile`, the promise of `io.rs`, with the cells of
`fujifilm.rs`, `fujifilm/raf.rs`, `panasonic.rs`, `jpeg.rs` and
`jpeg/container.rs`. Each View is one of the Views of `WindowedFile`: the file's
own, that of the JPEG stream, the clone the decoder reads, and those of the two
other parts of a RAF file. `cells` are the OnceCells; what a cell holds is named
by the place in the file it was read from. `todo` is what is left of a call, a
stack of operations: asking for a cell that is not set pushes what its closure
does. `hit` is history, the Views an operation failed on. The JPEG decoder is
external: it reads on from where its View is, and after an error from where it
stopped.

**`RecordTables`** is two containers that are a row of records: the tables of tags
of a RAF file and the blocks of an MRW file, and what is asked of them (the
dimensions of a RAF file; the sensor, the white balance and the thumbnail of an
MRW file). A file is cells of two bytes, and a record is read wherever the one
before it leads, whether or not a record begins there. Sizes in the tables are
even. The size of `RAF_DATA` is taken for a number of u32, as the code does, which
is four times the bytes its format is said to give it (`Overread`): records behind
it are read from the wrong place. `TableIsItsRecords` promises the records of a
table in which none is misread (`NoneIsMisread`), and nothing of the others.

**`CrwFiles`** is a CRW file: the heaps, found from their ends, the OnceCells of
the container and of the file, and the calls that fill them. `calls` is what is
left to do of the call in progress, `held` whether the one View is borrowed: a
cell that has to be read meanwhile panics. Addresses are of 32 bits and wrap, or
panic in a build that checks; a stack has a depth.

**`Mp4Boxes`** is the parser of ISO media files in `mp4/parse`, for the boxes of a
CR3 and of the films and sounds the parser knows. One cursor goes through the
file; `open` is the stack of boxes being read, each with the end it claims; each
reader takes its own fields, goes through the boxes inside or skips them, and
tests what is left. A cell stands for a field. When a header is read from where no box begins, the run ends as
`lost`: what would follow depends on the bytes. **`Cr3Files`** extends it with
what `canon/cr3.rs` and `mp4/container.rs` make of a parsed file.

**`RawLoads`** and **`VendorLoads`** are `load_rawdata` of every format. `RawLoads`
has the RawImage and `tiff_get_rawdata`: where the data are, how many bytes, which
packing they are taken for. (A `read` that returns fewer bytes than there are, in
`load_buffer8`, is in `ContainerIo`; here it returns what there is, and anything
after a failed seek.) `VendorLoads` has an action for each step a format
makes of it: unpacking, decoding, levels, areas and balance. Data are known by
their number only; a decoder gives a picture of some size or fails. Tags of
several values are there, missing, short, or with values that overflow. **`CanonTags`**
is what a CR2 reads from the arrays of Canon's maker note: the sensor's rectangle,
made even, the crop in it, and the layout of the colour data, guessed from the
length and then from the version, by which the levels of black and the balance are
found. An index behind the end panics; a layout of more than 782 values has all of
its indexes.

### What is done with bits and values

**`BitReaders`** is the three readers of `bit_reader.rs`; the JPEG one puts a
marker back and goes on with zeros. The bits left are a sequence, so that
properties compare them with those of the data. **`Huffman`** extends it with the
tables of `ljpeg.rs` (`fix`, the lookup of short codes, `huff_decode`, `extend`).
**`Ljpeg`** is the rest of `ljpeg.rs`: the segments of the header, the rows, the
predictors, the restarts. Its data are differences and markers. The two are kept
apart because their properties are: `DifferencesAreTheirBits` says that what
`Huffman` hands on is what the bits say.

**`CodeTrees`** is the other ways codes are kept: the tree of CRW built from counts
(`make_decoder`), the constant trees of NEF, the table of PEF with its cache of
whole differences. **`RowPredictors`** is what PEF, NEF, CRW and ORF make of
differences, one sample a step. Where a CRW file has low bits, a pixel is made of
them and of the sample after it, as the code does; whether it should be its own is
not said, and `PixelsArePredicted` speaks of files without. **`PanasonicChunks`** is the order of the halves
of a block and the pixels of a chunk of RW2. **`Unpack`** is
`unpack_from_reader`: values are named by pixel and place, two bits at a time, so
that one run stands for every picture of its size.

**`Tiles`** is `decompress/tiled.rs`. `decoded` is filled by the parallel
closures in any order; then `combine_tiles` goes from tile to tile, a step for
each. A pixel is named by its tile and its place in the data of the tile. How a
stream decodes (to so many values, to an error, to a panic) is part of the
picture. What no tile covers keeps `Garbage`: the buffer is not initialised.
**`SlicedBuffer`** is `decompress/sliced_buffer.rs`, one value at a time; the
k-th value is named k. Its variables are the fields, `slice` counted from 1. Both are
compared with a picture that is given by divisions (`Covers` and `PixelFrom`,
`InSlice` and `NumberOf`): no loop, no cursor.

**`FujiStrips`** is the decompressor of Fujifilm, `fujifilm/decompress.rs`, without
the values. Every strip has its own `line` (the round of six rows), `pass` (one of
six, of two colours each; 0 between rounds, 7 when all are done), `colours` (the
next even and the next odd position of each colour) and `linebuf`; `out` is the
buffer they share. A step decodes one sample of each of the two colours, ends a
pass (`EndPass`: the extra cells, the positions that start again) or ends a round
(`EndBlock`: keep two lines of each colour, copy the rest, clear). Strips
interleave step by step. A sample is a name: colour, row, position, and whether it
was read from the stream or interpolated. `read` is history. Two kinds of header
(Bayer and X-Trans) decode by the same actions: they differ in the width of a
line, in what is interpolated and in the index of a column. `copy_line` indexes
the pattern by row and column where `Pattern` takes the column first
(`ColourTaken`): `PictureIsItsSamples` is about the colours it takes, and that they
are not those of the pattern is what `pattern_taken` shows.
**`FujiCodes`** is how a sample of such a picture gets its value: `read_code`,
`bit_diff`, the gradient, the wrap and the clamp. The neighbours choose the table (the
main one, or with loss one of three for small slopes), the gradient in it, and what is
predicted. A step reads any valid code with any neighbours that lead to the table of
the one gradient that is followed; a line with another `q_base` has a new main table.

**`Rendering`** is `RawImage::rendered_image` with the demosaicer. Values are kept
as twice their numerators over the range of white and black, so that a mean of
two is a number here; corrections change every value alike and are only told of.
When white and black are equal the code divides by 0 and the values are no numbers:
`PixelsAreInterpolated` then speaks of sizes and panics only.

### What callers do

**`Identify`** is the opening of a file: the hint of the caller, the extension, the
first 16 bytes, the first directory, and the table of factories. A file is what the
formats put in files of its extension (`IsOfItsFormat`) and is opened again and
again, by its own name, by a name that says nothing, or from memory (`Ways`); `kinds`
is history, what it was opened as each time.

**`Thumbnails`** is the list of thumbnails and the choice from it
(`RawFile::thumbnail`, `thumbnail_for_size`, the `thumbnails()` of the formats,
`tiff_thumbnails`, `ifd_locate_thumbnail`, `add_thumbnail_from_stream`). A
source is where a format finds a thumbnail, with the larger dimension it is
listed by and whether it can be read. What callers get is compared with all that
the file has, not with the list.

**`EntryValues`** is the accessors of an entry. Bytes are named by their place; a
value is where it was read from, how many bytes, in which order.
**`Handles`** is the C API: `boxes` are given out and released, `strong` is the
reference count of each file, `lent` the pointers the caller may still use by the
rules of the headers, `given` what an iterator gave; the iterator is
`metadata.rs`. **`ColourMatrices`** is the copy of a matrix into an array of the
caller.

`MC...` modules give the constants their values for TLC, and put several machines
that do not interact into one run: `MCCallers` (parts thumbnails, handles, values,
matrices, open), `MCPictures` (layouts tiles, slices, packed, predicted, chunks,
bits, ljpeg, trees, rendered) and `MCFiles` (parts boxes, heaps, strips, codes,
loads, tables). A behaviour is of one part, chosen at the start; the others keep
one state.

## The runs

| run | what it checks | bounds |
|---|---|---|
| `container_io` | windows reach the end; the holder is in its window; positions lead back to the cursor; `ContainerIo`, and so `ViewIo`, implements `WindowedFile`; one run of bytes for each operation; thumbnails are exactly their bytes; buffers start where they should once the seek succeeded, are short only at the end or on a failure, and are returned in the end | in one part three Views (a parent, a subview, a clone), in the other two that load; a file of three bytes, offsets 0, 2, 4, sizes 0 and 3, a u64 that ends at 5 |
| `loaded_from_offset` | *violated*: `load_buffer8` returns bytes from its offset | as `container_io` |
| `loaded_whole` | *violated*: `load_buffer8` returns the bytes that are there | as `container_io` |
| `tiff_dirs` | the cells, and what is read each time, hold what the file says (`DirAt`, `Chain`, `ExifDir`, `NoteDir`, `SubDirs` read the file without a cursor); the cursor is on the next entry; calls return if the chain ends | files of 18 words with two directories, all combinations of links, pointers, broken pointers and data that fit; notes with 19 headers, or none of them, in files of six types |
| `tiff_backward` | *violated*: a link that leads backwards is dealt with | as `tiff_dirs` |
| `callers` | the choice of a thumbnail is the nearest size, a refusal is justified, what is given is the nearest of all the file has and of its size the first; what a box lends is live and no file is leaked; metadata come once and in order; values are those of the entry; a file is opened as one kind of file in every way | three sources, sizes 0 to 4 where 4 stands for u32::MAX; four boxes on two files, one with an empty directory in between and one that could not be opened, up to symmetry of the boxes; entries of every type and of no known type, counts 0 to 9, 21, 22, and some whose data were not loaded; 26 kinds of files, of every extension in the table and of others, of 3, 9 or 200 bytes, opened by their own name, by an unknown one, by none, or with a hint |
| `matrix_sizes` | *violated*: the size that is reported is that of the matrix | matrices of no, two or three values, arrays of up to four |
| `lazy_cells` | the decoder of a preview starts at its stream; what a cell holds for good is right, and None only by its own failure; the list of thumbnails is the same whenever it is built, and calls return | every combination of parts of each format, every order of calls, any of the Views failing at any time, four bytes |
| `pictures` | each pixel is of the tile that covers it, whatever the order of decoding; each value is where the slices, the packing and the chunks put it; bits are those of the data; differences are their bits; pixels are predicted from the right neighbours; codes lead to their values; a rendered pixel is the median of its nearest samples, and what panics is told | pictures of up to 5 by 3 in two to four tiles, one to three slices with 17 values; rows of up to 24 packed values; predictors on pictures of up to 6 by 5 in blocks of 4; blocks of 4 chunks; buffers of up to eight bytes of two bits, words of four bytes, codes of up to four bits; JPEGs of up to 2 by 5 with restarts of 0 to 4 samples; the whole trees of NEF and CRW; rendered pictures of up to 7 by 7 |
| `files` | headers are read where boxes are; tracks are of their boxes; the raw picture is the third track's; calls of a CRW file come to an end; samples of Fujifilm are computed from decoded neighbours, and the picture is the samples of the stream (of its strip, colour and row, in order, none left out of a full strip); there is a code for every value; whole files load whole, in every format; a table is its records | a CR3 of three tracks, five other movies, and each with one edit of a box (longer, shorter, no size, wide, another name, twice, swapped, gone) or cut short (of a film only the boxes the CR3 has not, or that are deep, are edited); four CRW files, and each with one cell of its Exif heap changed, one of them any cell; strips as below; samples of 2 and 4 bits, `q_base` 0 and 3, each of the four tables, neighbours of 0 to 3 and 15; thirteen formats with tags of every state; tables of up to three records, `RAF_DATA` at any place and with any room behind, and blocks in eight orders, with cells changed or cut |
| `white_levels` | *violated*: no format sets a white level of 0 that no tag asks for | as `files` |
| `pattern_taken` | *violated*: a pixel of a RAF file has the colour of the pattern at its row and column | X-Trans pictures of `files` |

The bounds are enough for what can happen.

* `container_io`: a third View is needed for a View to be used between two uses of
  another by neither the first nor its clone, and need not load anything for that;
  one byte past the end is the only way to be past it; a u64 only has to be larger
  than the file; reads of three bytes are cut by a short read in every way.
* `tiff_dirs`: chains of up to two directories that continue, end, break, loop or
  overlap, with entries before and behind the data they point at. `MaxDirs` cuts
  the list of a chain that loops (the code has no such bound), and
  `DirsAreTheChain` speaks of chains that ended.
* `lazy_cells`: the parts of a file lie at different places, so a cell read from
  the wrong one holds the wrong place; calls go on until every cell is set, in
  every order.
* `callers`: the counts of entries go over every limit of four bytes; four boxes
  are a file, an iterator, what it gave, and one more.
* `pictures`: there are tiles that fit, that reach out to the right, below and
  both, and rows of tiles in between; values are more than any of the pictures
  holds. A byte of two bits has a marker byte (all ones), a stuffed one and
  others; codes go up to the most a `get_bits` may ask for, and some are longer
  than a byte. A block of 4 and a distance of 3 stand for 64 and 32, ten bits for
  sixteen: what matters is that rows end inside blocks and that values wrap.
* `files`, the strips: blocks have 12 columns, not 768, widths are multiples of 6,
  not 24, and odd positions follow at 2, not 8: what matters is that the pattern
  repeats in a block, that the last strip may be narrower than a block, and that
  a line is longer than the distance. One or two strips, up to three rounds or a
  height that is no multiple of six: from the second round on all lines are kept
  from a round before, so a third adds nothing but the same again. Codes depend
  on depth and `q_base` by divisions that round, which 2 and 4 bits and the `q_base`
  of the tables (0, 1, 2, and a main one of 0 or 3) do in each direction. The points
  of the tables are at 2, 5 and 8 for 0x12, 0x43 and 0x114, and slopes up to 1 are
  small, not up to 5: here as there a slope that chooses one of the three tables is
  below the first of its points, which is why 5 gradients are enough for it, and
  greater points may not fit in the depth. A gradient is halved after 4 samples instead of 64.
* `files`, the rest: `U32Max` is 511, larger than any file and small enough for
  sums of the lengths in its tags to overflow; an ORF row is long from 16 columns (3700), its
  second half is aligned at 4 bytes (2048), blocks of RW2 are of 16 bytes
  (0x4000), a curve has at most 8 elements (0x4001). Addresses of a CRW file wrap
  at 128, more than its cells. The stack ends at four heaps in each other; whole
  files have two.

The type invariants (`TypeOK`, `ContainerTypeOK`, `StripsTypeOK` and the others)
document the state. They hold in the instances of the runs; those of `ViewIo`,
`Thumbnails` and `TiffDirs` are proved. The runs spend their properties on the rest.

`MCContainerIo`, `MCPictures`, `MCCallers` and `MCFiles` turn the deadlock check off because
the program really stops there: the Viewer may be dropped, an impossible size
panics, a picture is complete, an answer was given, a file was read.

## Fairness

`ContainerSpec`, `LazySpec` and the specification of `TiffDirs` assume weak
fairness of `Step`, a step of the call in progress: a call runs on the thread of
its caller until it returns. No call has to be made (`Begin`, `Call`), and other
containers need not use the io. That calls return is checked as `CallsReturn`
in `tiff_dirs`, and within `BuffersHoldTheirBytes` and `ListIsTheSame` in
`container_io` and `lazy_cells`. `ViewIo`, `MCCallers`, `MCPictures` and `MCFiles` assume
nothing, and their properties are of safety.

## What the violated runs show

* `load_buffer8` logs a failed seek and reads all the same, from wherever the
  cursor was left; its comment promises bytes at `offset`. In the run a View has
  just been opened at 0, where that left the cursor, and a buffer at 2 gets byte 0.
* `load_buffer8` calls `read` once; its comment promises `len` bytes. The other
  two operations use `read_exact`.
* The comment in `dirs()` says of links that lead backwards "We should be ok to
  deal with this". A link to a directory of the chain is followed for ever.
* The C header says of the colour matrices that `size` tells how much is needed
  when the array is too small. It is left as it was.
* A comment in `canon/cr2.rs` says of the table of levels that a white of 0 is not
  valid; `sony.rs` takes it, for the many cameras whose table has 0.
* The decompressor of Fujifilm copies lines "by Bayer pattern" and "by X-Trans
  pattern", and patterns are read from left to right and top to bottom. It indexes
  them by row and column, where the index takes the column first. The run ends with
  an X-Trans picture in which a pixel that is red by its pattern is a sample of
  blue, and one that is blue is a sample of red.

## The proofs

`ViewIoProofs` proves, for any set of Views, any file length and any offsets and
counts asked for within a u64 (`ViewIoAssumption`):

* `TypeCorrect`, `WindowsAreSuffixes`, `NoUnderflow`: the three invariants of the
  run. None is inductive alone. The cursor stays a u64 only because a seek is
  bounded by the length of the window and the window by the file; the holder stays
  in its window only because it is open. `IInv` is their conjunction. Every
  operation keeps it (`StepKeepsIInv`), failing ones at once since an error changes
  nothing.
* `ReportedPositionsAreTrue`: for the View that knows where the cursor is, the
  wrapping subtraction is exact (`RelativeIsExact`), so what it reports leads back
  to the cursor.
* `ViewsAreFiles`: `ViewIo` implements `WindowedFile`. `HolderIsAlone` says that a
  step that makes a View the holder maps to one after which only that View knows
  where it is; each action is then the action of the same name.

`ContainerIoProofs` extends it with the operations of containers, for the same Views
and files, every place and count asked for, and reads as short as the io likes. The
invariant `CInv` adds to `IInv` that nothing is read before the seek, that a
thumbnail is cut to its window before it reads, and that the first byte is the one
the seek went to, if it went.

* `PiecesFollowEachOther`: the bytes of an operation are one run that ends at the
  cursor. It is inductive only with `StagesInOrder`: an operation starts from the
  cursor with no bytes.
* `ThumbnailsAreWhole`: a thumbnail has exactly its bytes.
* `BuffersAreInPlace`: the half of `BuffersHoldTheirBytes` that is safety. That a
  buffer is returned in the end stays with TLC.
* `ContainersKeepToTheirFiles`: `ContainerIo` implements `WindowedFile`, since each
  of its steps is one of `ViewIo` or leaves the io alone.

`TiffDirsProofs` proves, for every file of every size, however broken or winding,
and any first uses of the cells with any other user of the io between them
(`TiffDirsAssumption`: types, a limit of directories beyond those the fixups know,
and the mark of an empty cell that is not a number):

* `EntriesKeepTheirPlace`: the cursor is on the next entry, wherever the data of the
  last one were.
* `ChainsAreTheFiles` and `PointersLeadThere`: what the cells hold is what the file
  says.

The idea of the invariant `DInv` is what a reading in progress will come to
(`Outcome`): a directory that is being read for the chain comes to the one the last
link leads to, for a maker note to the note of the Exif directory, and so on.
Reading an entry does not change that, so each cell gets what the file says, even
when reading it was begun by another cell (`want` is a stack of at most three). None
of the three properties is inductive: they do not say what was asked for.

`LazyCellsProofs` proves, for every RAF, RW2 or JPEG file that has or lacks each of its
parts, any order of calls, and any use of the io between their steps and any failure
of it in them (`LazyCellsAssumption`: types, a file with room for the four places its
parts have, and marks of cells that are not numbers):

* `DecodersStartAtTheirStreams`: a decoder is made where its stream begins.
* `FailuresStayWhereTheyWere`: a cell keeps what the file has, or that it has none,
  unless a View it was itself read through failed.
* `ListsAreOfTheFile`: a kept list of thumbnails is the one of the file. It is the
  half of `ListIsTheSame` that is safety.

None of the three is inductive, since they say nothing of a call in progress. The
invariant `LInv` adds what the steps still to do (`todo`) rely on. `StepsInOrder` and
`JpegSteps` say which step may follow which; `StreamIsNear`, that a stream is looked
for right after the file was read. `StreamIsPlaced` is the reason for the decoder: a
stream that waits for one has the cursor at its first byte, and only steps that do no
io come before it (`NothingBeforeTheDecoder`). `JpegContainer`, `DecoderIsPlaced`,
`DirsAreRead` and `PartsArePlaced` say of each container that is made what it was
made of, and `KeptWhenDone` that a list is kept only after the preview and the Exif
were asked for.

`CallersProofs` proves four of the things callers get, each by an invariant of its
own. The first, of `Handles`: for every set of files, every finite set of places for boxes
(`BoxesAssumption`) and boxes released in every order the headers allow, that what
is lent is live and that a file lives exactly as long as a box keeps it
(`NoDanglingPointers`). The invariant `HInv` is that each reference count is the
number of boxes that keep the file (`FilesAreCounted`, by the cardinality of sets),
and that the owner of each lent pointer is there and keeps what it points into
(`OwnersKeep`). A release takes away one keeper and every pointer the box lent; a
count of one then means that no other box keeps the file (`KeepersAreFinite`).

The second, of `Handles` too: an iterator over the metadata gives every entry of
every directory once and in order, and has given all of them when it says there are
no more, for every number of directories, empty ones too, and iterators that go on
while others are made, shared and released (`EntriesAreGivenInOrder`;
`DirsAssumption`: a file has a list of directories, by their numbers of entries, or
cannot be opened). `IteratorsAreInPlace` says that an iterator is over the directories
or in one of them (`IsPlace`), and that what it has given is exactly what is behind
it (`GivenIs`, `Behind`). The moves of one `or_metadata_iterator_next` over the empty
directories change nothing of what is behind (`MoveKeeps`) and end, since `MovesLeft`
goes down with each (`SettledRests`). They are a recursive function, and that there
is one (`MovesExist`) is argued with the least number at which there is none
(`LeastNumber`, from the well-founded order of the numbers), which is how these proofs
do what an induction would.

The third, of `EntryValues`, for entries of every type and every count
(`EntriesAssumption`: a count is a number, and whether the divisor is 0 is known):
what an accessor gives is of the entry's own bytes, at their places and in order, and
metadata are given and whole (`ValuesGivenAreOwn`). `ValuesInv` is what is proper for
each accessor to give (`Proper`). The bytes an entry holds are enough for its count by
`DataIsEnough`, in which the count times the size of a value goes over the four bytes
of the entry or not; `AllAreRead` and `OwnAreRead` are the walk through them.

The fourth, of `Identify`, for every file of a known format or of none, every length,
every short read, and any number of times it is opened in any way: it is opened as
one kind of file or not at all (`FilesOpenAsOneKind`). `IdentifyAssumption` says what
the formats put in files of each extension, and that the other names a file may be
given say nothing; what is proved is that the table of extensions, the tests of the
first bytes, the DNG version and the makers, and the table of factories then agree.
The invariant `OpenedAsItsKind` names the kind each file comes to.

`ThumbnailsProofs` proves, for every list of sources and every size asked for
(`ThumbnailsAssumption`: sizes are u32, and a list is not the mark of an empty
cell):

* `ThumbnailsInvariance`: the loop invariant of `RawFile::thumbnail`. After each
  turn, `smaller` is the biggest of the sizes seen that are too small and `bigger`
  the smallest of those that are big enough (`SmallerIsNearest`, `BiggerIsNearest`),
  where 0 and u32::MAX stand for none; the size decided on is then the nearest of
  the list (`DecidedIsNearest`). The invariant of the run, `ChoiceIsNearest`, says
  nothing before the end of the loop and so is not inductive.
* `ThumbnailsTypes` and `ChoosesTheNearest` follow from it.
* `NothingIsRefusedThatIsThere`: the lookup by size after the choice finds a
  thumbnail (`ListedHasAFirst`, a least index by well-founded order), so NotFound is
  the answer only when the loop left no size.
* `CallersGetTheFilesNearest`: the thumbnail a caller gets is the nearest of all that
  the file has, listed or left out, and the first of its size. `ListedAsTheyAre` says
  what a list leaves out: what cannot be had, and streams of a size it already has,
  so the sizes of the list are those of the file and the first of each is in it.

`FujiStripsProofs` proves, for every header and every block size
(`FujiStripsAssumption`: types, a block size that is not 0, and a mark that is no
sample), that while strips
are decoded no column of the picture is in two of them, every column is in one, and
none is past the picture (`StripsNeverMeet`): what the unlocked buffer they share
rests on. The reason is in `Header::is_valid`, which has to hold from `ReadHeader`
on (`OnlyValidIsDecoded`, the inductive invariant): the number of blocks it asks for
is the width by the block size, rounded up, so the last block starts inside the
picture and ends at or behind its end (`BlocksCoverTheWidth`), and its strip is cut
there (`StripsArePartition`).

It also proves `SamplesHaveNeighbours`: what a sample is computed from are decoded
samples of the rows above, or of the ends of lines, for lines of every width,
any number of rounds and strips that interleave in every way. The property looks at one sample and
is far from inductive. `StripsInv` says of every strip, by its round and pass, which
line of each colour is next (`NextLine`); that the lines before it are whole rows of
this round or the two kept from the last (`LinesAreRows`); that the line in work has
what is behind its two positions (`LineInWork`); and that the odd position follows the
even one at its distance (`PositionsFollow`, `ColoursOK`). Each kind of step keeps
this for its own strip (`EvenIsNext`, `OddIsNext`, `PassEnds`, `RoundEnds`), and the
other strips are not touched (`OneStripMoves`). `NeighboursAreThere` then follows
without the machine: a neighbour of a sample is in a line before, or in the line in
work and behind.

`PicturesProofs` proves four decoders, each by the invariant of its loop.

* `ChunksAreRead` (`PanasonicAssumption`: blocks of an even number of chunks): the
  halves of a chunk are two that follow in the block, begun in its middle; a chunk
  takes 128 bits, or 4 fewer for each colour that stays 0; a pixel stays in its 16
  bits. `PInv` counts the bits by pixel, and bounds a pixel by what each of the
  fourteen may add (`Most`), which is why the u16 cannot overflow.
* `TilesCoverThePicture`, for pictures and tiles of every size and whatever becomes
  of each tile: every pixel is the one of the tile that covers it. `TInv` says where
  the next tile begins, by the number of tiles that could be decoded so far
  (`UsableIsCounted`): its column and row by division by the tiles in a row of them;
  and of every pixel that it is of a tile so far or not yet written. That the loop
  may stop at the bottom needs that no later tile covers anything.
* `SlicesMakeThePicture`, for every list of slices that fit in the picture: a value
  is in the place its number has by slice, row and column. `SInv` gives the slice,
  the row, the column and the position from the number of values, and the step that
  wraps at the end of a row or of a slice keeps that.
* `ValuesComeOutWhole`, for values of 10, 12 and 14 bits in every packing and both
  orders, and pictures of every size whose rows pack evenly (`RowsPackEvenly`): each
  value is of its own bits and in its place, and all rows are there or it is an
  error. `UInv` says that what is out is whole rows (`RowsAreOut`). The next block
  of the file is its next row (`RowIsHere`), as a row is as long as a block
  (`RowsAreBlocks`); where three bytes are taken, past the padding, is where the next
  pair is (`SourcesAreThePairs`, `PairsFollow`); and the halves of the three bytes
  make the two values of the pair in either order (`PairIsItsUnits`,
  `TwoAreThePair`).

Everything else is only model-checked. These stay with TLC for good:

* that calls return (`CallsReturn`, and the halves of `BuffersHoldTheirBytes` and
  `ListIsTheSame` that say so), which is liveness under fairness;
* what a recursive operator computes: `BitReaders`, `Huffman`, `CodeTrees` and
  `CrwFiles`;
* facts about every input of an algorithm on data, which would need an induction
  over data: `PixelsArePredicted` compares a pixel with a sum of the differences of
  its row, `PictureIsPredicted` a picture with a recursive one,
  `PixelsAreInterpolated` a value with the median of a sorted sequence,
  `PictureIsItsSamples` counts the samples of each row.

These could be proved and are not: each needs a description of whole files, one
format after the other, that is longer than the reader it is about:
`HeadersAreAtBoxes` and `TracksAreTheirBoxes` (`Mp4Boxes`), `RawIsTheThirdTracks`
(`Cr3Files`), `WholeFilesLoadWhole` (`VendorLoads`), `TableIsItsRecords`
(`RecordTables`). So could `EveryValueHasACode` (`FujiCodes`), whose lengths of
codes are powers of two, of which the provers have no axioms.

## What the models say that a reader may not expect

These are facts of the models, stated in the properties and hazards, and not
disagreements with a document:

* A tile that cannot be decoded gives its place to the next one: all later tiles
  of the picture move (`UsableBefore`). What no tile is left for is what the
  memory held.
* A tile stream with less data than `tile_size` says, or cut short, ends the
  whole picture in a panic.
* Values appended past the last slice may be written over the picture before
  `extend` panics, and the widths of the slices are not compared with that of
  the picture.
* A cell that holds None after a failure of the io holds it for ever.
* Nothing compares the pattern of a compressed Fujifilm picture with the kind its
  header gives. What `PictureIsItsSamples` says of samples of the stream it says of
  patterns that, as they are taken, are those the passes are made for (`FitsAsTaken`:
  `XTransPattern`, and two rows for Bayer).
* A height of a Bayer picture that is no multiple of six leaves its last rows at 0.
* `RAF_DATA` of a RAF file: its size in bytes (raf.rs:577-585) is taken for a number
  of u32 (597-599), so more is read than the record has, and what follows it in the
  table is misread or cannot be read; the dimensions are then looked for in all of it,
  and the search indexes past the end when every value is too big.
* `metadata_block` with the index right behind the last one passes its test.
* Offsets of a CRW file are added in u32: they panic in a debug build and wrap in
  a release build. A heap that contains itself ends the stack. A cell that has to
  be read while the View is borrowed panics; `CallsComeToAnEnd` tells when.

## What is not modelled

Text output (`dump`, `probe`), the contents of the tables of cameras, tags and
matrices, the JPEG decoder (a crate), floating point arithmetic of colours, the
wording of errors, and the programs, bindings and test suites around the library.

Within the modelled parts: byte orders (a wrong one gives other values, not other
places); the boxes of ISO media that a CR3 or the six movies of the run do not
have (items and properties of AVIF, encryption, tracks of codecs in detail); the
end of a strip within a code; the values in the maker note of a CR3, which has
those of a CR2 (`CanonTags`) only there or missing; the table of a PEF read from the maker note; the
white balances of NEF and the linearization tables of DNG. `PROJECT.json` notes
this for each component.
