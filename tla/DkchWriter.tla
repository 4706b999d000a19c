----------------------------- MODULE DkchWriter -----------------------------
(***************************************************************************)
(* Archive::write and what pack puts around it: the bytes, in the order    *)
(* they are written.  No offset is computed on the way, except the one     *)
(* run_after_offset that Archive::write computes from the sizes of the     *)
(* records before it writes them.                                          *)
(***************************************************************************)
EXTENDS DkchLayout, SequencesExt

CONSTANTS
  MaxChunks,   \* u16::MAX: chunks of one file
  MaxOffset    \* u16::MAX: run_after_offset

ASSUME FieldsHold == MaxChunks \in Nat /\ MaxOffset \in Nat

\* A field of the given width.
Field(cell, width) == <<cell>> \o [i \in 1..(width - 1) |-> Pad]

\* start, start + widths[1], start + widths[1] + widths[2], ...
PrefixSums(start, widths) ==
  LET sum[k \in 0..Len(widths)] == IF k = 0 THEN start ELSE sum[k - 1] + widths[k]
  IN  [k \in 1..(Len(widths) + 1) |-> sum[k - 1]]
Total(widths) == Last(PrefixSums(0, widths))

\* Where the chunks of an entry begin in the source file, and the file's size.
Bases(e)  == PrefixSums(0, [j \in 1..Len(e.chunks) |-> e.chunks[j].usize])
SizeOf(e) == Last(Bases(e))

(***************************************************************************)
(* build_stored_entry and its siblings cut n bytes into chunks of          *)
(* chunkSize bytes, the last one shorter, and pack each; an empty file is  *)
(* one empty chunk.  packed[u] is the packed size of u bytes.  They refuse *)
(* a chunk that comes out larger than the stub's input buffer, and a file  *)
(* of more chunks than a record can count.                                 *)
(***************************************************************************)
BuildChunks(algo, n, chunkSize, packed) ==
  IF n = 0 THEN <<[csize |-> 0, usize |-> 0]>>
  ELSE [j \in 1..((n + chunkSize - 1) \div chunkSize) |->
         LET rest == n - (j - 1) * chunkSize
             u == IF rest < chunkSize THEN rest ELSE chunkSize
         IN  [csize |-> IF algo = Stored THEN u ELSE packed[u], usize |-> u]]

EntryAccepted(algo, chunkSize, chunks) ==
  /\ chunkSize \in 1..MaxInput[algo]
  /\ Len(chunks) <= MaxChunks
  /\ algo # Stored => \A j \in DOMAIN chunks : chunks[j].csize <= MaxPacked[algo]

(***************************************************************************)
(* What pack hands to write_sfx: entries of chunks within the limits, as   *)
(* the builders make them, and no name twice, as dedupe sees to.           *)
(***************************************************************************)
EntryFits(algo, e) ==
  /\ e.nameLen \in Nat /\ e.stamp \in Nat
  /\ e.chunks \in Seq({e.chunks[j] : j \in DOMAIN e.chunks})
  /\ \A j \in DOMAIN e.chunks : ChunkFits(algo, e.chunks[j])

Fits(a) ==
  /\ a.algo \in Algorithms /\ a.command \in Nat
  /\ a.entries \in Seq({a.entries[i] : i \in DOMAIN a.entries})
  /\ \A i \in DOMAIN a.entries : EntryFits(a.algo, a.entries[i])
  /\ \A i, j \in DOMAIN a.entries : a.entries[i].name = a.entries[j].name => i = j

\* The compressed form of chunk j: its own bytes when stored, else an opaque block.
ChunkData(e, algo, j) ==
  LET c == e.chunks[j]
      plain == Slice(e.name, Bases(e)[j], c.usize)
  IN  IF algo = Stored THEN [i \in 1..c.csize |-> ByteCell(plain[i])]
      ELSE IF c.csize = 0 THEN <<>> ELSE Field(PackedCell(plain), c.csize)

ChunkBytes(e, algo, j) ==
  Field(ChunkCell(e.chunks[j]), ChunkHead) \o ChunkData(e, algo, j)

\* write_file
WriteFile(e, algo) ==
  Field(RecordCell([name |-> e.name, nameLen |-> e.nameLen, stamp |-> e.stamp,
                    usz |-> SizeOf(e), chunks |-> e.chunks]), RecordHead(e.nameLen))
    \o FlattenSeq([j \in 1..Len(e.chunks) |-> ChunkBytes(e, algo, j)])
    \o Field(CrcCell(Bytes(e.name, SizeOf(e))), CrcSize)

\* serialized_file_size
SerializedFileSize(e) ==
  1 + e.nameLen + (1 + 4 + 4 + 2 + 4)
    + Total([j \in 1..Len(e.chunks) |-> 4 + e.chunks[j].csize])
FileSizes(a) == [i \in 1..Len(a.entries) |-> SerializedFileSize(a.entries[i])]

\* The offset Archive::write puts in the header and Archive::read expects there.
RunAfterOffset(a) == HeaderSize + Total(FileSizes(a))

\* Archive::write refuses a command it could not address.
ArchiveAccepted(a) == a.command > 0 => RunAfterOffset(a) <= MaxOffset

\* Mutant: the total is that of the last file.
CompressedTotalLast(a) ==
  IF a.entries = <<>> THEN 0
  ELSE LET e == Last(a.entries) IN Total([j \in 1..Len(e.chunks) |-> e.chunks[j].csize])

\* totals: the compressed bytes of all chunks, which the reader takes for its budget.
CompressedTotal(a) ==
  Total([i \in 1..Len(a.entries) |->
           LET e == a.entries[i] IN Total([j \in 1..Len(e.chunks) |-> e.chunks[j].csize])])

\* encode_header_with: flag and offset are both set or both clear.
HeaderBytes(a) ==
  Field(HeaderCell(a.algo, a.command > 0, Len(a.entries),
                   IF a.command > 0 THEN RunAfterOffset(a) ELSE 0, CompressedTotal(a)), HeaderSize)

\* Archive::write.  a.command is the length of the command with its NUL, 0 for none.
WriteArchive(a) ==
  HeaderBytes(a)
    \o FlattenSeq([i \in 1..Len(a.entries) |-> WriteFile(a.entries[i], a.algo)])
    \o (IF a.command > 0 THEN Field(CommandCell, a.command) ELSE <<>>)

\* The stub blob, whose length becomes archive_offset.
StubBytes(stubLen) == [i \in 1..stubLen |-> [k |-> "code"]]

\* write_sfx: everything the output file holds when pack succeeds.
WriteSfx(a, stubLen) ==
  StubBytes(stubLen) \o WriteArchive(a) \o Field(TrailerCell(stubLen), TrailerSize)

(***************************************************************************)
(* The same archive with the entries it was made from and the offsets the  *)
(* layout promises, for DkchLayout!WellFormed to compare with the bytes.   *)
(***************************************************************************)
Described(a, stubLen) ==
  LET image == WriteSfx(a, stubLen)
      at == PrefixSums(HeaderSize, FileSizes(a))
      chunkAt(i) ==
        PrefixSums(at[i] + RecordHead(a.entries[i].nameLen),
                   [j \in 1..Len(a.entries[i].chunks) |->
                      ChunkHead + a.entries[i].chunks[j].csize])
      described(i) ==
        LET e == a.entries[i]
        IN  [name |-> e.name, nameLen |-> e.nameLen, stamp |-> e.stamp, chunks |-> e.chunks,
             usz |-> SizeOf(e), at |-> chunkAt(i), base |-> Bases(e)]
  IN  [image |-> image, size |-> Len(image), off |-> stubLen, algo |-> a.algo,
       stub |-> StubFor(a.algo), flag |-> a.command > 0, packed |-> CompressedTotal(a), at |-> at,
       files |-> [i \in 1..Len(a.entries) |-> described(i)]]
=============================================================================
