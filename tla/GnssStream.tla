------------------------------ MODULE GnssStream ------------------------------
(***************************************************************************)
(* The gnss thread's read loop (core/src/gnss_thread.c:518-580): what the  *)
(* GNSS module sends is a mixture of text sentences and binary records; it *)
(* arrives in reads of any length, and each read goes to the record        *)
(* scanner, the line assembler, or both, as gnss_ctrl.parseDataType says,  *)
(* which the console changes at any time.                                  *)
(*                                                                         *)
(* The stream is a sequence of cells.  A record is its header, len cells   *)
(* of payload and its check sum: the code's 8 + length + 3 bytes, with     *)
(* Overhead = 2 for sizeof(gns_raw_data1_packet_t) = 11.  The check sum is *)
(* right when the cells are those of one record, in order, with none       *)
(* missing; minmea_check likewise accepts exactly a whole sentence.        *)
(***************************************************************************)
EXTENDS Naturals, Sequences, FiniteSets, SequencesExt

CONSTANTS RawSize,   \* sizeof(gnss_ctrl.data_raw)
          LineSize,  \* sizeof(gnss_ctrl.data_nmea)
          MaxRead,   \* sizeof(buf): the longest read
          Kinds,     \* what the module may send
          Bytes,     \* what the payload of a record may look like
          Commanded, \* the modes the console may choose
          MaxItems   \* bound: items the module sends in a behaviour

Overhead == 2

ASSUME StreamAssumption ==
  /\ RawSize \in Nat /\ RawSize > Overhead
  /\ LineSize \in Nat /\ LineSize > 2   \* a sentence fits in
  /\ MaxRead \in Nat \ {0}
  /\ Kinds \subseteq {"record", "posdata", "cut", "sentence"}
  /\ Bytes \subseteq {"$", "lf", "x"}
  /\ Commanded \subseteq {"AUTO", "NMEA", "EPHB"}
  /\ MaxItems \in Nat

Modes == {"AUTO", "NMEA", "EPHB"}

\* The bytes of an item, in order.  A record is of the first kind, handled by its type, or
\* of the second, POSDATAB; a cut record lost its last bytes; byte is what the payload of
\* a record happens to look like: a "$", a line feed, or neither.
BytesOf(kind, byte) ==
  CASE kind = "sentence" -> <<"$", "x", "lf">>
    [] kind = "cut"      -> <<"x", byte>>
    [] OTHER             -> <<"x", byte, "x", "x">>

\* length, in the header of every record
ClaimedLength == 2

Cells(id, kind, byte) ==
  LET bytes == BytesOf(kind, byte)
  IN  [i \in 1 .. Len(bytes) |-> [id |-> id, kind |-> kind, at |-> i, byte |-> bytes[i],
                                  last |-> i = Len(bytes)]]

VARIABLES parseDataType, \* gnss_ctrl.parseDataType
          data_raw,      \* gnss_ctrl.data_raw, as much as is in use
          data_nmea,     \* gnss_ctrl.data_nmea, as much as is in use
          coming,        \* external: the cells sent and not read
          items,         \* external: items sent so far
          decoded,       \* history: records handled by type, in order
          lines,         \* history: sentences minmea_check accepted, in order
          whole,         \* history: items whose last cell came with the last read
          unscanned,     \* history: items a cell of which the scanner did not get or dropped, ...
          unlined        \* ... or did not reach the assembler in AUTO; not those read before

vars == <<parseDataType, data_raw, data_nmea, coming, items, decoded, lines, whole,
          unscanned, unlined>>

Init == /\ parseDataType = "AUTO"
        /\ data_raw = <<>>
        /\ data_nmea = <<>>
        /\ coming = <<>>
        /\ items = 0
        /\ decoded = <<>>
        /\ lines = <<>>
        /\ whole = {}
        /\ unscanned = {}
        /\ unlined = {}

-----------------------------------------------------------------------------
(* The record scanner: handle_gnss_raw *)

\* The cells of buf from p on are one record.
ChecksOut(buf, p) ==
  /\ p + Overhead + ClaimedLength - 1 <= Len(buf)
  /\ \A k \in 0 .. Overhead + ClaimedLength - 1 :
       buf[p + k].id = buf[p].id /\ buf[p + k].at = k + 1

Header(buf, p, kinds) == buf[p].kind \in kinds /\ buf[p].at = 1

Found(buf, p) == Header(buf, p, {"record", "cut"}) /\ ChecksOut(buf, p)

\* The scan from position p on, given that from later ones: the records found and how much
\* of buf is done with.  A record of the first kind is skipped and done with up to
\* i + length, which leaves its last Overhead bytes; POSDATAB is neither, so it is decoded
\* again by later calls until a record of the first kind follows it.
ScanAt(buf, p, scan) ==
  IF p + Overhead > Len(buf) THEN [found |-> <<>>, done |-> 0]
  ELSE IF Found(buf, p)
         THEN LET rest == scan[p + ClaimedLength]
              IN  [found |-> <<buf[p].id>> \o rest.found,
                   done  |-> IF rest.done > 0 THEN rest.done ELSE p - 1 + ClaimedLength]
         ELSE scan[p + 1]

Scan(buf) == LET scan[p \in 1 .. Len(buf) + 1] == ScanAt(buf, p, scan) IN scan[1]

MinOf(a, b) == IF a < b THEN a ELSE b

\* the items in S that may have cells to come
Unread(S) == {id \in S : \E i \in 1 .. Len(coming) : coming[i].id = id}

Ids(cells) == {cells[i].id : i \in 1 .. Len(cells)}

\* Mutant of Room: as if the buffer were empty.
Room_of_empty(cells) == RawSize

\* sizeof(data_raw) - data_raw_len
Room(cells) == RawSize - Len(cells)

\* Mutants of Unhandled: nothing is removed; everything is.
Unhandled_all(buf, done) == buf

Unhandled_none(buf, done) == IF done > 0 THEN <<>> ELSE buf

\* memmove of what the scan was not done with
Unhandled(buf, done) == SubSeq(buf, done + 1, Len(buf))

\* gnss_handle_raw_bytes: a full buffer is dropped, and so is what does not fit.
ScanChunk(chunk) ==
  LET full == Len(data_raw) = RawSize
      kept == IF full THEN <<>> ELSE data_raw
      copy == SubSeq(chunk, 1, MinOf(Len(chunk), Room(kept)))
      scan == Scan(kept \o copy)
  IN  /\ decoded' = decoded \o scan.found
      /\ data_raw' = Unhandled(kept \o copy, scan.done)
      /\ unscanned' = Unread(unscanned) \cup (IF full THEN Ids(data_raw) ELSE {})
                        \cup Ids(SubSeq(chunk, Len(copy) + 1, Len(chunk)))

-----------------------------------------------------------------------------
(* The line assembler: gnss_handle_nmea_bytes *)

\* minmea_check: a sentence from its "$" to the cell before its line feed
IsSentence(line) ==
  /\ line # <<>> /\ line[1].kind = "sentence"
  /\ Len(line) = Len(BytesOf("sentence", "x")) - 1
  /\ \A i \in 1 .. Len(line) : line[i].id = line[1].id /\ line[i].at = i

\* Mutant of TakeByte: a "$" does not begin a new line.
TakeByte_no_restart(acc, cell, start) ==
  CASE acc.line = <<>> /\ start /\ cell.byte # "$" -> acc
    [] cell.byte = "lf" -> [line |-> <<>>,
                            good |-> acc.good \o (IF IsSentence(acc.line) THEN <<acc.line[1].id>> ELSE <<>>)]
    [] OTHER -> [acc EXCEPT !.line =
                   IF Len(acc.line) < LineSize - 1 THEN Append(acc.line, cell) ELSE <<>>]

\* One byte of the loop: start says that a line has to begin with "$".
TakeByte(acc, cell, start) ==
  LET line == IF start /\ cell.byte = "$" THEN <<>> ELSE acc.line
  IN  CASE line = <<>> /\ start /\ cell.byte # "$" -> [acc EXCEPT !.line = line]
        [] cell.byte = "lf" -> [line |-> <<>>,
                                good |-> acc.good \o (IF IsSentence(line) THEN <<line[1].id>> ELSE <<>>)]
        [] OTHER -> [acc EXCEPT !.line =
                       IF Len(line) < LineSize - 1 THEN Append(line, cell) ELSE <<>>]

LineChunk(chunk, start) ==
  LET after[i \in 0 .. Len(chunk)] ==
        IF i = 0 THEN [line |-> data_nmea, good |-> lines]
                 ELSE TakeByte(after[i - 1], chunk[i], start)
  IN  /\ data_nmea' = after[Len(chunk)].line
      /\ lines' = after[Len(chunk)].good

-----------------------------------------------------------------------------
(* One read *)

Read(n) ==
  /\ n <= Len(coming)
  /\ LET chunk == SubSeq(coming, 1, n)
         ends  == {i \in 1 .. n : chunk[i].last}
     IN  /\ CASE parseDataType = "AUTO" -> ScanChunk(chunk) /\ LineChunk(chunk, TRUE)
              [] parseDataType = "NMEA" -> /\ LineChunk(chunk, FALSE)
                                           /\ unscanned' = Unread(unscanned) \cup Ids(chunk)
                                           /\ UNCHANGED <<data_raw, decoded>>
              [] OTHER                  -> ScanChunk(chunk) /\ UNCHANGED <<data_nmea, lines>>
         /\ unlined' = Unread(unlined)
                         \cup (IF parseDataType = "AUTO" THEN {} ELSE Ids(chunk))
         /\ whole' = {[id |-> chunk[i].id, kind |-> chunk[i].kind] : i \in ends}
  /\ coming' = SubSeq(coming, n + 1, Len(coming))
  /\ UNCHANGED <<parseDataType, items>>

\* gnss_datatype_cfg and the other console commands that assign parseDataType
SetParseDataType(mode) ==
  /\ parseDataType' = mode
  /\ UNCHANGED <<data_raw, data_nmea, coming, items, decoded, lines, whole, unscanned, unlined>>

\* The module sends an item, no sooner than a read can reach it: what else is on the way
\* makes no difference to the reads before.
Send(kind, byte) ==
  /\ items < MaxItems
  /\ Len(coming) < MaxRead
  /\ items' = items + 1
  /\ coming' = coming \o Cells(items + 1, kind, byte)
  /\ UNCHANGED <<parseDataType, data_raw, data_nmea, decoded, lines, whole, unscanned, unlined>>

Next == \/ \E n \in 1 .. MaxRead : Read(n)
        \/ \E mode \in Commanded : SetParseDataType(mode)
        \/ \E kind \in Kinds, byte \in Bytes : Send(kind, byte)

Spec == Init /\ [][Next]_vars

-----------------------------------------------------------------------------
(* Properties *)

\* Neither buffer outgrows its array, whatever comes, in whatever pieces, and whichever mode
\* leaves it unscanned (gnss_func.h:100-111, gnss_thread.c:86-134).
BuffersHold == Len(data_raw) <= RawSize /\ Len(data_nmea) < LineSize

Increasing(seq) == \A i, j \in 1 .. Len(seq) : i < j => seq[i] < seq[j]

\* However the reads cut the stream: a record is decoded, and offered to the network, at
\* most once and in order, although each scan leaves the last bytes of the record before
\* it in the buffer (gnss_ephb.c:340-341, gnss_thread.c:126-134).
RecordsOnce == Increasing(decoded)

\* A record is decoded as soon as its last byte is read, unless the buffer was full and
\* dropped some of it, or the console had switched the scanner off
\* (gnss_thread.c:113-125).
RecordsDecoded ==
  \A w \in whole : w.kind = "record" /\ w.id \notin unscanned => w.id \in ToSet(decoded)

\* In AUTO mode a sentence is handled once, in order, whatever binary came before
\* it (gnss_thread.c:63-111).
SentencesHeard ==
  /\ Increasing(lines)
  /\ \A w \in whole : w.kind = "sentence" /\ w.id \notin unlined => w.id \in ToSet(lines)
==============================================================================
