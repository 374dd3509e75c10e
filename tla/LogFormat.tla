----------------------------- MODULE LogFormat -----------------------------
(***************************************************************************)
(* The log files of leveldb (write-ahead logs and manifests): log::Writer  *)
(* cuts a record into fragments that do not cross a block, PosixMmapFile   *)
(* appends them to a file mapped region by region, and log::Reader puts    *)
(* the records together again.  A file is a sequence of cells.  A header   *)
(* takes kHeaderSize cells, each knowing its place, the type and, for the  *)
(* checksum and the length, the fragment it describes.                     *)
(***************************************************************************)
EXTENDS Integers, Sequences, FiniteSets, SequencesExt

CONSTANTS
  kBlockSize, kHeaderSize,
  MapSize,      \* cells that MapNewRegion adds to the file, whole blocks
  MaxRecords,   \* bound: records of a log
  MaxLength,    \* bound: cells of a record
  MaxFails      \* bound: records whose append fails

ASSUME LogFormatAssumption ==
  /\ kHeaderSize \in 1..kBlockSize
  /\ MapSize > 0 /\ MapSize % kBlockSize = 0
  /\ MaxRecords \in Nat /\ MaxLength \in Nat /\ MaxFails \in Nat

VARIABLES
  w,        \* the writer and its file
  recs,     \* history: for each call of AddRecord its data and its status
  before    \* history: cells in the file before the last call

vars == <<w, recs, before>>

Zero == <<"zero">>
Zeros(n) == [i \in 1..n |-> Zero]
Header(t, frag) == [i \in 1..kHeaderSize |-> <<"header", i, t, frag>>]
\* Record r of n cells.
Data(r, n) == [j \in 1..n |-> <<"data", r, j>>]
Least(a, b) == IF a <= b THEN a ELSE b
-----------------------------------------------------------------------------
(* Writing.  A writer is [file, mapped: its size, off: block_offset_,      *)
(* maps: calls of MapNewRegion for this record, ok: the last status].      *)

NewWriter == [file |-> <<>>, mapped |-> 0, off |-> 0, maps |-> 0, ok |-> TRUE]

RECURSIVE AppendCells(_, _, _)
\* PosixMmapFile::Append: what fits into the region is copied, then the next
\* region is mapped, which fails in the call numbered fail.
AppendCells(x, cells, fail) ==
  IF cells = <<>> THEN [x EXCEPT !.ok = TRUE]
  ELSE IF Len(x.file) = x.mapped
  THEN IF x.maps + 1 = fail
       THEN [x EXCEPT !.maps = @ + 1, !.ok = FALSE]
       ELSE AppendCells([x EXCEPT !.maps = @ + 1, !.mapped = @ + MapSize],
                        cells, fail)
  ELSE AppendCells([x EXCEPT !.file = Append(@, Head(cells))], Tail(cells), fail)

\* The offset advances whether or not the cells were written.
EmitPhysicalRecord(x, t, frag, fail) ==
  LET Payload(h) == IF h.ok THEN AppendCells(h, frag, fail) ELSE h
  IN [Payload(AppendCells(x, Header(t, frag), fail))
        EXCEPT !.off = x.off + kHeaderSize + Len(frag)]

\* The trailer of a block too short for a header is filled with zeros; the
\* status of that append is not looked at.
SwitchBlock(x, fail) ==
  IF kBlockSize - x.off >= kHeaderSize THEN x
  ELSE [AppendCells(x, Zeros(kBlockSize - x.off), fail) EXCEPT !.off = 0]

TypeOfEnds(begin, end) ==  \* a mutant: no middle fragments
  IF begin THEN (IF end THEN "full" ELSE "first") ELSE "last"
RecordType(begin, end) ==
  IF begin THEN (IF end THEN "full" ELSE "first")
  ELSE (IF end THEN "last" ELSE "middle")

RECURSIVE AddFragments(_, _, _, _)
AddFragments(x, data, begin, fail) ==
  LET Emit(v, n) == EmitPhysicalRecord(v, RecordType(begin, n = Len(data)),
                                       SubSeq(data, 1, n), fail)
      Rest(v, n) == IF v.ok /\ n < Len(data)
                    THEN AddFragments(v, SubSeq(data, n + 1, Len(data)), FALSE, fail)
                    ELSE v
      Go(v, n) == Rest(Emit(v, n), n)
      Fit(v) == Go(v, Least(Len(data), kBlockSize - v.off - kHeaderSize))
  IN Fit(SwitchBlock(x, fail))

AddRecord(x, data, fail) == AddFragments(x, data, TRUE, fail)
-----------------------------------------------------------------------------
(* Reading *)

\* The kHeaderSize first cells are one header.
IsHeader(buf) ==
  /\ \A i \in 1..kHeaderSize : buf[i][1] = "header" /\ buf[i][2] = i
  /\ \A i \in 1..kHeaderSize : SubSeq(buf[i], 3, 4) = SubSeq(buf[1], 3, 4)

HeaderOnly(buf) == IsHeader(buf)  \* a mutant: length and checksum are trusted
\* The checks of ReadPhysicalRecord: zeros that a mapped region leaves, a
\* length beyond the block, a checksum that does not match.
Sound(buf) ==
  /\ IsHeader(buf)
  /\ kHeaderSize + Len(buf[1][4]) <= Len(buf)
  /\ SubSeq(buf, kHeaderSize + 1, kHeaderSize + Len(buf[1][4])) = buf[1][4]

RECURSIVE ReadRecords(_, _, _, _)
\* ReadRecord until the end of the file: rest is the file after the current
\* buffer, part is the fragmented record so far, <<>> if there is none.
ReadRecords(rest, buf, eof, part) ==
  LET Next(p) == ReadRecords(rest, SubSeq(buf, kHeaderSize + Len(buf[1][4]) + 1,
                                          Len(buf)), eof, p)
      Block(n) == ReadRecords(SubSeq(rest, n + 1, Len(rest)), SubSeq(rest, 1, n),
                              n < kBlockSize, part)
      Fragment(t, frag) ==
        CASE t = "full"   -> <<frag>> \o Next(<<>>)
          [] t = "first"  -> Next(<<frag>>)
          [] t = "middle" -> Next(IF part = <<>> THEN part ELSE <<part[1] \o frag>>)
          [] t = "last"   -> (IF part = <<>> THEN <<>> ELSE <<part[1] \o frag>>)
                             \o Next(<<>>)
  IN CASE Len(buf) < kHeaderSize /\ ~eof -> Block(Least(kBlockSize, Len(rest)))
       [] Len(buf) < kHeaderSize /\ eof  -> <<>>
       [] Len(buf) >= kHeaderSize /\ Sound(buf) -> Fragment(buf[1][3], buf[1][4])
       [] OTHER -> ReadRecords(rest, <<>>, eof, <<>>)

\* The records in a file, which after a crash ends with the unused cells of
\* the last region.
ReadAll(file, mapped) == ReadRecords(file \o Zeros(mapped - Len(file)), <<>>, FALSE, <<>>)
-----------------------------------------------------------------------------
Init == w = NewWriter /\ recs = <<>> /\ before = 0

Failed == {r \in 1..Len(recs) : ~recs[r].ok}

\* A call of AddRecord in which the mapping of region number fail fails.
WriteRecord(n, fail) ==
  /\ Len(recs) < MaxRecords
  /\ fail # 0 => Cardinality(Failed) < MaxFails
  /\ \E x \in {AddRecord([w EXCEPT !.maps = 0], Data(Len(recs) + 1, n), fail)} :
       /\ fail # 0 => ~x.ok
       /\ w' = x
       /\ recs' = Append(recs, [data |-> Data(Len(recs) + 1, n), ok |-> x.ok])
  /\ before' = Len(w.file)

Next == \E n \in 0..MaxLength, fail \in 0..MaxLength : WriteRecord(n, fail)

Spec == Init /\ [][Next]_vars
-----------------------------------------------------------------------------
(* Properties *)

\* The file is a whole number of regions and no write goes past the last one;
\* the writer's offset stays within a block, also after failed appends.
TypeOK ==
  /\ Len(w.file) <= w.mapped /\ w.mapped % MapSize = 0
  /\ w.off \in 0..kBlockSize
  /\ w.ok \in BOOLEAN
  /\ before \in 0..Len(w.file)

\* What is read if the process dies with c cells in the file.
Survives(c) == ReadAll(SubSeq(w.file, 1, c), w.mapped)
Written(S) == [i \in 1..Cardinality(S) |-> recs[SetToSortSeq(S, <)[i]].data]

\* A process that dies at any moment of its writing, between or within two
\* appends, leaves a log from which exactly the records written completely
\* until then are read.
CrashKeepsPrefix ==
  Failed = {} =>
    \A c \in before..Len(w.file) :
      Survives(c) = Written(1..(IF c = Len(w.file) THEN Len(recs) ELSE Len(recs) - 1))

\* When appends fail and later ones succeed, what is read are records as they
\* were written, in their order, never one whose append failed and never one
\* put together from fragments of two; and all records from before the first
\* failure are there.
FailureInventsNothing ==
  \A c \in before..Len(w.file) :
    \E got \in {Survives(c)}, S \in SUBSET ((1..Len(recs)) \ Failed) :
      /\ got = Written(S)
      /\ \A r \in 1..(Len(recs) - 1) : 1..r \cap Failed = {} => r \in S
=============================================================================
