------------------------------- MODULE Ljpeg -------------------------------
(***************************************************************************)
(* The lossless JPEG decompressor (src/src/decompress/ljpeg.rs).  A file   *)
(* is the sequence of its header segments and the data of its scan.  The   *)
(* data are the differences, as module Huffman reads them from the bits,   *)
(* and the markers between them.                                           *)
(***************************************************************************)
EXTENDS Integers, Sequences, SequencesExt, FiniteSetsExt

CONSTANTS Jpegs,           \* the files
          ZeroDifference,  \* the difference that zero bits are read as
          SampleValues,    \* how many values a sample has: 2 ^ 16
          RestartNumbers   \* RST0 .. RST7

(* Segments are [m |-> marker, bad |-> the length or an index is wrong] and*)
(* what they hold; data are [kind |-> "diff", "bad", "rst" or "eoi", v].   *)
ASSUME LjpegAssumption ==
  /\ \A j \in Jpegs : j.segments \in Seq([m : STRING, bad : BOOLEAN, v : Seq(Int)])
  /\ \A j \in Jpegs : \A i \in DOMAIN j.data : j.data[i].kind \in {"diff", "bad", "rst", "eoi"}
  /\ ZeroDifference \in Int /\ SampleValues \in Nat \ {0} /\ RestartNumbers \in Nat \ {0}

VARIABLES jpeg,
          seg,      \* the segments read
          at,       \* the data read
          state,    \* what is done next: "soi" .. "rows"; "ok", "error", "panic"
          dc,       \* the DecompressInfo
          cur_row,  \* which of the two rows is written
          mcu_row, rows, output

ljpegVars == <<jpeg, seg, at, state, dc, cur_row, mcu_row, rows, output>>

prev_row == 1 - cur_row
Segment == jpeg.segments[seg + 1]
In(reading) == state = reading /\ seg < Len(jpeg.segments)

(* LJpeg::new, DecompressInfo::default                                     *)
LjpegInit ==
  /\ jpeg \in Jpegs
  /\ seg = 0 /\ at = 0 /\ state = "soi"
  /\ dc = [width |-> 0, height |-> 0, precision |-> 0, comps |-> <<>>, sampled |-> FALSE,
           scan |-> <<>>, tables |-> [i \in 0 .. 3 |-> "none"], psv |-> 0, pt |-> 0,
           interval |-> 0, in_rows |-> 0, to_go |-> 0, next |-> 0]
  /\ cur_row = 0
  /\ mcu_row = [i \in {0, 1} |-> <<>>]
  /\ rows = 0 /\ output = <<>>

-----------------------------------------------------------------------------
(* The headers.                                                            *)
Tables == {"DHT", "DRI", "DQT", "APP", "RST"}

(* get_dht, get_dri; the other segments are skipped.  v is the number of   *)
(* the table and whether its codes are possible, or the interval.          *)
Define(s) ==
  CASE s.m = "DHT" -> [dc EXCEPT !.tables[s.v[1]] = IF s.v[2] = 1 THEN "ok" ELSE "bad"]
    [] s.m = "DRI" -> [dc EXCEPT !.interval = s.v[1]]
    [] OTHER -> dc

(* get_sof: v is precision, height, width, the sampling of the components, *)
(* and their names.                                                        *)
SofIsBad(s) ==
  s.bad \/ s.v[2] = 0 \/ s.v[3] = 0 \/ Len(s.v) = 4 \/ s.v[1] \notin 2 .. 16

get_sof(s) ==
  [dc EXCEPT !.precision = s.v[1], !.height = s.v[2], !.width = s.v[3],
             !.sampled = s.v[4] # 1,
             !.comps = [i \in 1 .. Len(s.v) - 4 |-> [id |-> s.v[i + 4], table |-> 0]]]

(* get_sos: v is the predictor, the point transform, then a component and  *)
(* a table for each component of the scan.                                 *)
ScanOf(s) ==
  [i \in 1 .. (Len(s.v) - 2) \div 2 |-> [id |-> s.v[2 * i + 1], table |-> s.v[2 * i + 2]]]

SosIsBad(s) ==
  \/ s.bad \/ Len(ScanOf(s)) \notin 1 .. 4
  \/ \E i \in DOMAIN ScanOf(s) : \A c \in DOMAIN dc.comps : dc.comps[c].id # ScanOf(s)[i].id

get_sos(s) == [dc EXCEPT !.psv = s.v[1], !.pt = s.v[2], !.scan = ScanOf(s)]

(* The next marker is looked for byte by byte, and past the end there is   *)
(* a panic.                                                                *)
NoMarker ==
  /\ state \in {"soi", "file", "scan"}
  /\ seg = Len(jpeg.segments)
  /\ state' = "panic"
  /\ UNCHANGED <<jpeg, seg, at, dc, cur_row, mcu_row, rows, output>>

Header(next, info) ==
  /\ seg' = seg + 1 /\ state' = next /\ dc' = info
  /\ UNCHANGED <<jpeg, at, cur_row, mcu_row, rows, output>>

(* read_file_header: the SOI, and process_tables up to the first marker    *)
(* that is not a table.  A SOF it does not know is only warned about.      *)
ReadSoi ==
  /\ In("soi")
  /\ Header(IF Segment.m = "SOI" THEN "file" ELSE "error", dc)

ProcessTable ==
  /\ In("file") \/ In("scan")
  /\ Segment.m \in Tables
  /\ IF Segment.bad THEN Header("error", dc) ELSE Header(state, Define(Segment))

ReadSof ==
  /\ In("file") /\ Segment.m = "SOF"
  /\ IF SofIsBad(Segment) THEN Header("error", dc) ELSE Header("scan", get_sof(Segment))

OtherSof ==
  /\ In("file") /\ Segment.m \notin Tables \cup {"SOF"}
  /\ Header("scan", dc)

(* read_scan_header.  Anything else than a scan ends the headers too: the  *)
(* caller does not look at the result.                                     *)
ReadSos ==
  /\ In("scan") /\ Segment.m = "SOS"
  /\ IF SosIsBad(Segment) THEN Header("error", dc) ELSE Header("init", get_sos(Segment))

NoScan ==
  /\ In("scan") /\ Segment.m \notin Tables \cup {"SOS"}
  /\ Header("init", dc)

(* The rest of decompress_buffer before the rows: the checks of dimensions *)
(* and components, decoder_struct_init and huff_decoder_init.              *)
CanDecode ==
  /\ dc.width # 0 /\ dc.height # 0
  /\ Len(dc.comps) <= 4 /\ ~dc.sampled
  /\ \A i \in DOMAIN dc.scan : dc.scan[i].table \in 0 .. 3 /\ dc.tables[dc.scan[i].table] = "ok"

InitDecoder ==
  /\ state = "init"
  /\ IF CanDecode
     THEN LET in_rows == dc.interval \div dc.width IN
          /\ dc' = [dc EXCEPT !.in_rows = in_rows, !.to_go = in_rows]
          /\ mcu_row' = [i \in {0, 1} |-> [c \in 0 .. dc.width - 1 |-> [k \in DOMAIN dc.scan |-> 0]]]
          /\ state' = "rows"
     ELSE state' = "error" /\ UNCHANGED <<dc, mcu_row>>
  /\ UNCHANGED <<jpeg, seg, at, cur_row, rows, output>>

-----------------------------------------------------------------------------
(* The rows of the scan: decode_image.                                     *)
Cols == 0 .. dc.width - 1
Comps == DOMAIN dc.scan
PerRow == dc.width * Len(dc.scan)

IsMarker(i) == jpeg.data[i].kind \in {"rst", "eoi"}
Markers(i) == {k \in i + 1 .. Len(jpeg.data) : IsMarker(k)}
NextMarker(i) == Min(Markers(i))

(* The differences of a row, read from place p of the data: up to a marker,*)
(* which stays, and zero bits from there on.  d is counted from 1.         *)
Diff(p, d) == IF Markers(p) # {} /\ p + d >= NextMarker(p)
              THEN ZeroDifference ELSE jpeg.data[p + d].v

RowEnd(p) == IF Markers(p) # {} THEN Min({p + PerRow, NextMarker(p) - 1}) ELSE p + PerRow

(* A size of more than 16 bits is an error; with no marker behind it, the  *)
(* data may end while bits are read ahead, or for want of bits.            *)
BadSize(p) == \E i \in p + 1 .. Min({RowEnd(p), Len(jpeg.data)}) : jpeg.data[i].kind = "bad"
Ended(p) == Markers(p) = {} /\ p + PerRow > Len(jpeg.data)
MayEnd(p) == Markers(p) = {} /\ PerRow > 0

quick_predict(left, upper, diag) ==
  CASE dc.psv = 1 -> left
    [] dc.psv = 2 -> upper
    [] dc.psv = 3 -> diag
    [] dc.psv = 4 -> left + upper - diag
    [] dc.psv = 5 -> left + (upper - diag) \div 2
    [] dc.psv = 6 -> upper + (left - diag) \div 2
    [] dc.psv = 7 -> (left + upper) \div 2
    [] OTHER -> 0

DefaultPredictor == 2 ^ (dc.precision - dc.pt - 1)

(* decode_first_row, at place p: what the row then holds.                  *)
FirstRow(p) ==
  LET row[c \in Cols] ==
        [k \in Comps |-> (Diff(p, c * Len(dc.scan) + k)
           + (IF c = 0 THEN DefaultPredictor ELSE row[c - 1][k])) % SampleValues]
  IN row

(* The first column of the other rows is predicted from above.             *)
OtherRow(p) ==
  LET up == mcu_row[prev_row]
      row[c \in Cols] ==
        [k \in Comps |-> (Diff(p, c * Len(dc.scan) + k)
           + (IF c = 0 THEN up[0][k]
              ELSE quick_predict(row[c - 1][k], up[c][k], up[c - 1][k]))) % SampleValues]
  IN row

PutAndStay(row) ==             \* mutant: the rows are not swapped
  /\ mcu_row' = [mcu_row EXCEPT ![cur_row] = row]
  /\ cur_row' = cur_row
  /\ output' = output \o FlattenSeq([c \in 1 .. dc.width |->
                           [k \in Comps |-> (row[c - 1][k] * 2 ^ dc.pt) % SampleValues]])

(* The row is written, put in the output (pm_put_row), and swapped with    *)
(* the previous one.                                                       *)
PutRow(row) ==
  /\ mcu_row' = [mcu_row EXCEPT ![cur_row] = row]
  /\ cur_row' = prev_row
  /\ output' = output \o FlattenSeq([c \in 1 .. dc.width |->
                           [k \in Comps |-> (row[c - 1][k] * 2 ^ dc.pt) % SampleValues]])

Stop(how) ==
  /\ state' = how
  /\ UNCHANGED <<jpeg, seg, at, dc, cur_row, mcu_row, rows, output>>

Decode(p, row, info) ==
  \/ BadSize(p) /\ Stop("error")
  \/ MayEnd(p) /\ Stop("panic")
  \/ /\ ~BadSize(p) /\ ~Ended(p)
     /\ PutRow(row)
     /\ at' = RowEnd(p)
     /\ dc' = info
     /\ rows' = rows + 1
     /\ state' = IF rows + 1 = dc.height THEN "ok" ELSE "rows"
     /\ UNCHANGED <<jpeg, seg>>

(* Rows since the start or a restart are counted down.                     *)
Counted(info) == IF info.in_rows # 0 THEN [info EXCEPT !.to_go = @ - 1] ELSE info

DecodeFirstRow ==
  /\ state = "rows" /\ rows = 0
  /\ IF dc.precision < dc.pt + 1 /\ dc.scan # <<>> THEN Stop("error")
     ELSE Decode(at, FirstRow(at), Counted(dc))

MustRestart == rows > 0 /\ dc.in_rows # 0 /\ dc.to_go = 0

DecodeRow ==
  /\ state = "rows" /\ rows > 0 /\ ~MustRestart
  /\ Decode(at, OtherRow(at), Counted(dc))

(* process_restart: the marker is looked for from where the reader is; it  *)
(* has to be the one that comes next.  Then a first row.                   *)
AfterMarker(p) == NextMarker(p)

ProcessRestart ==
  /\ state = "rows" /\ MustRestart
  /\ IF Markers(at) = {} THEN Stop("panic")
     ELSE IF jpeg.data[NextMarker(at)] # [kind |-> "rst", v |-> dc.next] THEN Stop("error")
     ELSE Decode(AfterMarker(at), FirstRow(AfterMarker(at)),
            Counted([dc EXCEPT !.to_go = dc.in_rows, !.next = (@ + 1) % RestartNumbers]))

LjpegStep ==
  \/ NoMarker \/ ReadSoi \/ ProcessTable \/ ReadSof \/ OtherSof \/ ReadSos \/ NoScan
  \/ InitDecoder \/ DecodeFirstRow \/ DecodeRow \/ ProcessRestart

LjpegSpec == LjpegInit /\ [][LjpegStep]_ljpegVars

-----------------------------------------------------------------------------
LjpegTypeOK ==
  /\ state \in {"soi", "file", "scan", "init", "rows", "ok", "error", "panic"}
  /\ seg \in 0 .. Len(jpeg.segments) /\ at \in 0 .. Len(jpeg.data)
  /\ cur_row \in {0, 1} /\ rows \in 0 .. dc.height
  /\ output \in Seq(0 .. SampleValues - 1)
  /\ dc.to_go \in 0 .. dc.in_rows /\ dc.next \in 0 .. RestartNumbers - 1

(* The picture by the standard: interval after interval, each with the     *)
(* differences between its own two markers, and zero bits if they are too  *)
(* few.                                                                    *)
IntervalOf(r) == IF dc.in_rows = 0 THEN 0 ELSE r \div dc.in_rows
StartOf(n) == LET f[i \in 0 .. n] == IF i = 0 THEN 0 ELSE NextMarker(f[i - 1]) IN f[n]
InInterval(r) == IF dc.in_rows = 0 THEN r ELSE r % dc.in_rows

Picture ==
  LET Difference(r, c, k) ==
        Diff(StartOf(IntervalOf(r)), InInterval(r) * PerRow + c * Len(dc.scan) + k)
      sample[r \in 0 .. rows - 1, c \in Cols, k \in Comps] ==
        (Difference(r, c, k) +
           CASE InInterval(r) = 0 /\ c = 0 -> DefaultPredictor
             [] InInterval(r) = 0 /\ c > 0 -> sample[r, c - 1, k]
             [] InInterval(r) > 0 /\ c = 0 -> sample[r - 1, c, k]
             [] OTHER -> quick_predict(sample[r, c - 1, k], sample[r - 1, c, k],
                                       sample[r - 1, c - 1, k])) % SampleValues
  IN sample

(* While the restart interval is a number of whole rows, as the standard   *)
(* says it shall be, each row put out is predicted from the right          *)
(* neighbours, and from the differences of its own restart interval: data  *)
(* lost or left over in one interval do not change the next               *)
(* (decode_image, process_restart, decode_first_row).                      *)
PictureIsPredicted ==
  state \in {"rows", "ok"} /\ dc.interval = dc.in_rows * dc.width =>
    \A r \in 0 .. rows - 1, c \in Cols, k \in Comps :
       output[r * PerRow + c * Len(dc.scan) + k]
         = (Picture[r, c, k] * 2 ^ dc.pt) % SampleValues
=============================================================================
