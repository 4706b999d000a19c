----------------------------- MODULE HostUnpack -----------------------------
(***************************************************************************)
(* unpack on the host: load_archive and Archive::read take the whole       *)
(* archive into memory, and only then are the entries written, one by one. *)
(* The input is any sequence of cells, an SFX or not; the reader is at a   *)
(* position and takes what lies there for the field it expects, or        *)
(* refuses.                                                                *)
(***************************************************************************)
EXTENDS DkchWriter

CONSTANTS
  MaxSfxInput,  \* MAX_INPUT_SFX_BYTES: the longest file load_archive reads
  MaxEntry,     \* MAX_UNCOMPRESSED: the largest entry write_entry unpacks
  Inside        \* per source file, the cells its bytes look like to a reader who takes
                \* them for fields: a packed file may itself be an SFX

VARIABLES
  cells,     \* the input file, which unpack does not change
  reading,   \* where unpack is
  at,        \* position in the input
  header,    \* what Archive::read took from the header
  record,    \* read_file's locals: the record and the chunks so far
  entries,   \* archive.files, and later those not yet written
  dest       \* per name, what unpack wrote under it

NoHeader == [algo |-> Stored, flag |-> FALSE, count |-> 0, run |-> 0, budget |-> 0]
NoRecord == [name |-> "", nameLen |-> 0, usz |-> 0, count |-> 0, sum |-> 0, chunks |-> <<>>]

Init ==
  /\ reading = "idle" /\ at = 0 /\ header = NoHeader /\ record = NoRecord
  /\ entries = <<>> /\ dest = <<>>

\* A byte that bit rot or a bad transfer has changed.
Damaged == [k |-> "damaged"]

\* What a byte looks like to a reader, and the one at offset p.
Looks(c) ==
  IF c.k = "byte" /\ c.b[1] \in DOMAIN Inside /\ c.b[2] \in DOMAIN Inside[c.b[1]]
  THEN Inside[c.b[1]][c.b[2]]
  ELSE c
Seen(p) == Looks(CellAt([image |-> cells], p))

\* read_exact of a field that is at p + 1 in the file, and whole.
Reads(p, width, kind) ==
  /\ p >= 0 /\ p + width <= Len(cells)
  /\ Seen(p).k = kind
  /\ \A i \in 1..(width - 1) : Seen(p + i) = Pad

\* bail, or an ArchiveError: nothing is written.
Refuse == reading' = "refused" /\ UNCHANGED <<at, header, record, entries, dest>>

----------------------------------------------------------------------------
\* load_archive: the trailer at the end of the file gives the offset of the archive.
Open ==
  LET p == Len(cells) - TrailerSize
      off == Seen(p).off
      accepted == /\ Len(cells) <= MaxSfxInput
                  /\ Reads(p, TrailerSize, "trailer")
                  /\ off + TrailerSize <= Len(cells)
  IN  /\ reading = "idle"
      /\ IF accepted
         THEN reading' = "header" /\ at' = off /\ UNCHANGED <<header, record, entries, dest>>
         ELSE Refuse

\* Magic, CRC and fields of the header.
ReadHeader ==
  LET h == Seen(at)
  IN  /\ reading = "header"
      /\ IF Reads(at, HeaderSize, "header")
         THEN /\ reading' = "file" /\ at' = at + HeaderSize
              /\ header' = [algo |-> h.algo, flag |-> h.flag, count |-> h.count, run |-> h.run,
                           budget |-> h.packed]
              /\ UNCHANGED <<record, entries, dest>>
         ELSE Refuse

\* read_file, up to the chunks.
ReadRecord ==
  LET r == Seen(at)
  IN  /\ reading = "file" /\ Len(entries) < header.count
      /\ IF Reads(at, 1, "record") /\ Reads(at, RecordHead(r.nameLen), "record")
         THEN /\ reading' = "chunk" /\ at' = at + RecordHead(r.nameLen)
              /\ record' = [name |-> r.name, nameLen |-> r.nameLen, usz |-> r.usz,
                            count |-> r.count, sum |-> 0, chunks |-> <<>>]
              /\ UNCHANGED <<header, entries, dest>>
         ELSE Refuse

\* What a chunk adds to the sum that must equal the record's uncompressed_size.
Counted(c) == c.usize

\* The next chunk, within what is left of the compressed bytes that the header declares.
ReadChunk ==
  LET c == Seen(at)
      data == at + ChunkHead
  IN  /\ reading = "chunk" /\ Len(record.chunks) < record.count
      /\ IF Reads(at, ChunkHead, "chunk") /\ c.csize <= header.budget
            /\ data + c.csize <= Len(cells)
         THEN /\ at' = data + c.csize
              /\ header' = [header EXCEPT !.budget = @ - c.csize]
              /\ record' = [record EXCEPT !.sum = @ + Counted(c),
                              !.chunks = Append(@, [csize |-> c.csize, usize |-> c.usize,
                                 data |-> SubSeq(cells, data + 1, data + c.csize)])]
              /\ UNCHANGED <<reading, entries, dest>>
         ELSE Refuse

\* Mutant: a CRC cut off at the end of the file reads as some number.
CrcReadsPastEnd(p) == TRUE

\* The last field of a record is all there.
CrcReads(p) == p + CrcSize <= Len(cells)

ReadFileCrc ==
  /\ reading = "chunk" /\ Len(record.chunks) = record.count
  /\ IF record.sum = record.usz /\ CrcReads(at)
     THEN /\ reading' = "file" /\ at' = at + CrcSize
          /\ entries' = Append(entries,
                          [name |-> record.name, nameLen |-> record.nameLen, usz |-> record.usz,
                           chunks |-> record.chunks, crc |-> Seen(at)])
          /\ UNCHANGED <<header, record, dest>>
     ELSE Refuse

\* self_consistency_check_offset: where the command begins, going by the sizes just read.
ExpectedOffset ==
  HeaderSize + Total([i \in 1..Len(entries) |-> SerializedFileSize(entries[i])])

\* The end of Archive::read: flag and offset are both there or both absent, the offset is
\* the expected one, and the command is at the cursor.
EndOfRecords ==
  LET consistent == header.flag = (header.run # 0)
      command == header.run = ExpectedOffset /\ Reads(at, 1, "command")
  IN  /\ reading = "file" /\ Len(entries) = header.count
      /\ IF consistent /\ (header.flag => command)
         THEN reading' = "writing" /\ UNCHANGED <<at, header, record, entries, dest>>
         ELSE Refuse

----------------------------------------------------------------------------
\* write_entry.

DamagedByte == <<"damaged", 0>>

\* The bytes it decodes from the chunks of an entry; a damaged chunk gives other bytes.
Decode(e) ==
  FlattenSeq([j \in 1..Len(e.chunks) |->
    LET c == e.chunks[j]
    IN  IF header.algo = Stored
        THEN [i \in 1..Len(c.data) |-> IF c.data[i].k = "byte" THEN c.data[i].b ELSE DamagedByte]
        ELSE IF c.usize = 0 THEN <<>>
        ELSE IF c.data[1].k = "packed" THEN c.data[1].plain ELSE <<DamagedByte>>])

\* Mutant: the CRC is not compared.
WritableUnread(e) == e.usz <= MaxEntry /\ e.name \notin DOMAIN dest

\* Everything that is checked before an entry is written: the size, that no earlier entry
\* had the name, and the CRC, which stands here for the bytes it was computed from.
Writable(e) ==
  /\ e.usz <= MaxEntry
  /\ e.name \notin DOMAIN dest
  /\ e.crc = CrcCell(Decode(e))

\* fs::write: bytes under a name that is free.
Put(name, bytes) == [n \in DOMAIN dest \union {name} |-> IF n = name THEN bytes ELSE dest[n]]

\* The next entry is written.
WriteEntry ==
  LET e == Head(entries)
  IN  /\ reading = "writing" /\ entries # <<>>
      /\ IF Writable(e)
         THEN dest' = Put(e.name, Decode(e)) /\ entries' = Tail(entries) /\ reading' = reading
         ELSE reading' = "failed" /\ UNCHANGED <<dest, entries>>
      /\ UNCHANGED <<at, header, record>>

\* fs::write creates the file and fails on the way.
WriteEntryFails ==
  LET e == Head(entries)
  IN  /\ reading = "writing" /\ entries # <<>> /\ Writable(e)
      /\ \E k \in 0..e.usz : dest' = Put(e.name, SubSeq(Decode(e), 1, k))
      /\ reading' = "failed"
      /\ UNCHANGED <<at, header, record, entries>>

\* unpack returns Ok.
Finish ==
  /\ reading = "writing" /\ entries = <<>>
  /\ reading' = "ok"
  /\ UNCHANGED <<at, header, record, entries, dest>>

Next ==
  /\ \/ Open \/ ReadHeader \/ ReadRecord \/ ReadChunk \/ ReadFileCrc \/ EndOfRecords
     \/ WriteEntry \/ WriteEntryFails \/ Finish
  /\ cells' = cells
=============================================================================
