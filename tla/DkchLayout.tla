----------------------------- MODULE DkchLayout -----------------------------
(***************************************************************************)
(* The DKCH container as it lies in a self-extracting .EXE: stub blob,     *)
(* archive header, one record per file with its chunks inline, an optional *)
(* run-after command, and the 8-byte trailer (host/src/archive.rs).        *)
(*                                                                         *)
(* An image is a sequence of cells, one per byte.  The first byte of a     *)
(* field holds its value, the bytes after it are Pad; fields that both     *)
(* readers always read back to back share one cell.  Integers keep their   *)
(* real widths, so an offset here is an offset in the file.  A byte of a   *)
(* packed file is <<name, n>>: the n-th byte of that source file.          *)
(***************************************************************************)
EXTENDS Integers, Sequences

Stored == 0
Aplib  == 1
Lzsa2  == 2
Lzma   == 3
Algorithms == {Stored, Aplib, Lzsa2, Lzma}

CONSTANTS
  BufSize,    \* bytes of the stub's output buffer: BUF_SIZE, LZMA_BUF_SIZE
  SrcSize,    \* per stub blob, bytes of its input buffer: APLIB_SRC_SIZE, LZMA_SRC_SIZE
  MaxInput,   \* per algorithm, the host's limit on a chunk's uncompressed bytes
  MaxPacked   \* per algorithm, the host's limit on a chunk's compressed bytes

\* stub_for: which of the two stub programs the host puts in front of an archive.
StubFor(algo) == IF algo = Lzma THEN "lzma" ELSE "aplib"

\* The comments on APLIB_MAX_COMPRESSED_CHUNK and its siblings: no chunk the host
\* writes is larger than the stub's buffers.
ASSUME CeilingsMatch ==
  /\ BufSize \in Nat \ {0}
  /\ SrcSize \in [{"aplib", "lzma"} -> Nat]
  /\ MaxInput \in [Algorithms -> Nat]
  /\ MaxPacked \in [Algorithms -> Nat]
  /\ \A algo \in Algorithms \ {Stored} :
        MaxInput[algo] <= BufSize /\ MaxPacked[algo] <= SrcSize[StubFor(algo)]

HeaderSize  == 25   \* magic, 17 bytes of fields, CRC32
TrailerSize == 8    \* magic and archive_offset
ChunkHead   == 4    \* compressed_size and uncompressed_size, u16 each
CrcSize     == 4    \* CRC32 of the uncompressed file

\* name_len, name with its NUL, attrs, timestamp, uncompressed_size, chunk_count.
RecordHead(nameLen) == 1 + nameLen + 1 + 4 + 4 + 2

Pad == [k |-> "pad"]
TrailerCell(off) == [k |-> "trailer", off |-> off]
HeaderCell(algo, flag, count, run, packed) ==
  [k |-> "header", algo |-> algo, flag |-> flag, count |-> count, run |-> run, packed |-> packed]
RecordCell(f) ==
  [k |-> "record", name |-> f.name, nameLen |-> f.nameLen, stamp |-> f.stamp,
   usz |-> f.usz, count |-> Len(f.chunks)]
ChunkCell(c) == [k |-> "chunk", csize |-> c.csize, usize |-> c.usize]
ByteCell(b)  == [k |-> "byte", b |-> b]
CrcCell(content) == [k |-> "crc", of |-> content]
CommandCell == [k |-> "command"]

\* The first n bytes of a file, and the usize bytes of a chunk that begins at base.
Bytes(name, n) == [i \in 1..n |-> <<name, i>>]
Slice(name, base, usize) == [i \in 1..usize |-> <<name, base + i>>]
PackedCell(plain) == [k |-> "packed", plain |-> plain]

\* What a reader finds at offset p, counted from 0, of image s.
CellAt(s, p) == IF p + 1 \in DOMAIN s.image THEN s.image[p + 1] ELSE [k |-> "eof"]

(***************************************************************************)
(* An sfx is what one pack run leaves on disk: the image and, for the      *)
(* properties only, the entries it was made from.  at[i] is the offset of  *)
(* record i from the archive header; within file f, f.at[j] is the offset  *)
(* of chunk header j (the last one: of the file CRC) and f.base[j] the     *)
(* number of uncompressed bytes before chunk j.                            *)
(***************************************************************************)
ChunkFits(algo, c) ==
  /\ c.csize \in Nat /\ c.usize \in Nat
  /\ c.csize = 0 <=> c.usize = 0
  /\ IF algo = Stored
     THEN c.csize = c.usize /\ c.usize <= MaxInput[algo]
     ELSE c.usize <= MaxInput[algo] /\ c.csize <= MaxPacked[algo]

ChunkLaidOut(s, f, j) ==
  LET c == f.chunks[j]
      p == s.off + f.at[j]
  IN  /\ ChunkFits(s.algo, c)
      /\ f.at[j] \in Nat /\ f.base[j] \in Nat
      /\ f.at[j + 1] = f.at[j] + ChunkHead + c.csize
      /\ f.base[j + 1] = f.base[j] + c.usize /\ f.base[j + 1] <= f.usz
      /\ CellAt(s, p) = ChunkCell(c)
      /\ s.algo = Stored =>
           \A b \in 1..c.csize :
              CellAt(s, p + ChunkHead + b - 1) = ByteCell(<<f.name, f.base[j] + b>>)
      /\ s.algo # Stored /\ c.csize > 0 =>
           CellAt(s, p + ChunkHead) = PackedCell(Slice(f.name, f.base[j], c.usize))

FileLaidOut(s, i) ==
  LET f == s.files[i]
      n == Len(f.chunks)
  IN  /\ n \in Nat
      /\ f.nameLen \in Nat /\ f.usz \in Nat /\ f.stamp \in Nat
      /\ s.at[i] \in Nat
      /\ CellAt(s, s.off + s.at[i]) = RecordCell(f)
      /\ f.at[1] = s.at[i] + RecordHead(f.nameLen)
      /\ f.base[1] = 0
      /\ \A j \in 1..n : ChunkLaidOut(s, f, j)
      /\ f.at[n + 1] \in Nat
      /\ f.base[n + 1] = f.usz
      /\ CellAt(s, s.off + f.at[n + 1]) = CrcCell(Bytes(f.name, f.usz))
      /\ s.at[i + 1] = f.at[n + 1] + CrcSize

WellFormed(s) ==
  LET n == Len(s.files)
  IN  /\ n \in Nat /\ s.off \in Nat /\ s.size \in Nat
      /\ s.algo \in Algorithms /\ s.flag \in BOOLEAN
      /\ s.stub = StubFor(s.algo)
      /\ s.size >= TrailerSize
      /\ CellAt(s, s.size - TrailerSize) = TrailerCell(s.off)
      /\ s.off + TrailerSize <= s.size
      /\ s.at[1] = HeaderSize
      /\ s.at[n + 1] \in Nat
      /\ CellAt(s, s.off) = HeaderCell(s.algo, s.flag, n, IF s.flag THEN s.at[n + 1] ELSE 0, s.packed)
      /\ \A i \in 1..n : FileLaidOut(s, i)
      /\ \A i, j \in 1..n : s.files[i].name = s.files[j].name => i = j
      /\ s.flag => CellAt(s, s.off + s.at[n + 1]) = CommandCell
=============================================================================
