------------------------- MODULE StubExtractProofs -------------------------
(***************************************************************************)
(* The stub walks every image the host lays out without losing its place,  *)
(* and every output file is exact: proofs for all images, buffer sizes and *)
(* failure patterns.                                                       *)
(***************************************************************************)
EXTENDS StubExtract, TLAPS

----------------------------------------------------------------------------
\* The bytes of a file and of a chunk.

LEMMA BytesLen ==
  ASSUME NEW name, NEW n \in Nat
  PROVE  /\ Len(Bytes(name, n)) = n
         /\ Bytes(name, n) \in Seq({name} \X (Nat \ {0}))
  BY DEF Bytes

LEMMA SliceLen ==
  ASSUME NEW name, NEW b \in Nat, NEW n \in Nat
  PROVE  /\ Len(Slice(name, b, n)) = n
         /\ Slice(name, b, n) \in Seq({name} \X (Nat \ {0}))
  BY DEF Slice

LEMMA BytesAppend ==
  ASSUME NEW name, NEW m \in Nat, NEW u \in Nat
  PROVE  Bytes(name, m) \o Slice(name, m, u) = Bytes(name, m + u)
  BY DEF Bytes, Slice

LEMMA BytesPrefix ==
  ASSUME NEW name, NEW m \in Nat, NEW k \in 0..m
  PROVE  SubSeq(Bytes(name, m), 1, k) = Bytes(name, k)
  BY DEF Bytes

LEMMA SlicePrefix ==
  ASSUME NEW name, NEW b \in Nat, NEW m \in Nat, NEW k \in 0..m
  PROVE  SubSeq(Slice(name, b, m), 1, k) = Slice(name, b, k)
  BY DEF Slice

----------------------------------------------------------------------------
\* The inductive invariant.  AtTheRightField needs to know that main()'s locals hold what
\* the header and the record say; OutputsExact needs to know how much of the current file
\* has been written, and that the bytes on their way are the next ones.

InFile  == {"creat", "skip", "chunk", "copy", "write"}
Walking == InFile \union {"record", "exec", "child"}
Running == pc \notin {"exit", "off"}

LocalsMatch ==
  LET f == S.files[fi]
  IN  /\ pc = "header" \/ pc \in Walking => hdr.off = S.off
      /\ pc \in Walking =>
           /\ hdr.algo = S.algo /\ hdr.count = N /\ hdr.flag = S.flag
           /\ S.flag => hdr.run = S.at[N + 1]
      /\ pc \in InFile =>
           fi <= N /\ rec = [name |-> f.name, stamp |-> f.stamp, count |-> Len(f.chunks)]
      /\ pc = "copy" => S.algo = Stored /\ left <= f.chunks[ci].csize
      /\ pc = "write" => buf = Slice(f.name, f.base[ci], f.chunks[ci].usize)
      /\ pc \in {"trailer", "header"} => fi = 1
      /\ pc \in {"exec", "child"} => fi = N + 1

\* How the output files stand when main() is at record fi.
DiskMatches ==
  \A j \in 1..N :
    LET f == S.files[j]
        o == disk[f.name]
    IN  /\ Running /\ j < fi => j \in skipped \/ o.st = "closed"
        /\ j = fi /\ pc \in {"trailer", "header", "record", "creat"} => o = Untouched
        /\ j = fi /\ pc \in {"chunk", "write"} => o.st = "open" /\ Len(o.data) = f.base[ci]
        /\ j = fi /\ pc = "copy" => o.st = "open" /\ Len(o.data) + left = f.base[ci + 1]
        /\ j \in skipped => j <= fi /\ o = Untouched
        /\ j = fi /\ Running => (j \in skipped <=> pc = "skip")

IInv == TypeOK /\ LocalsMatch /\ AtTheRightField /\ OutputsExact /\ DiskMatches

----------------------------------------------------------------------------
\* What the layout says of the running image.

LEMMA ImageFacts ==
  ASSUME which \in DOMAIN Sfxs
  PROVE  /\ N \in Nat /\ S.off \in Nat /\ S.size \in Nat
         /\ S.algo \in Algorithms /\ S.flag \in BOOLEAN /\ S.stub = StubFor(S.algo)
         /\ S.size >= TrailerSize /\ S.off + TrailerSize <= S.size
         /\ Cell(S.size - TrailerSize) = TrailerCell(S.off)
         /\ S.at[1] = HeaderSize /\ S.at[N + 1] \in Nat
         /\ Cell(S.off) = HeaderCell(S.algo, S.flag, N, IF S.flag THEN S.at[N + 1] ELSE 0, S.packed)
         /\ S.flag => Cell(S.off + S.at[N + 1]) = CommandCell
  BY SfxsWellFormed DEF WellFormed, S, N, Cell

LEMMA FileFacts ==
  ASSUME which \in DOMAIN Sfxs, NEW j \in 1..N
  PROVE  LET f == S.files[j]
             n == Len(f.chunks)
         IN  /\ f.name \in Names
             /\ \A k \in 1..N : S.files[k].name = f.name => k = j
             /\ n \in Nat /\ f.nameLen \in Nat /\ f.usz \in Nat /\ f.stamp \in Nat
             /\ S.at[j] \in Nat /\ f.at[n + 1] \in Nat
             /\ Cell(S.off + S.at[j]) = RecordCell(f)
             /\ f.at[1] = S.at[j] + RecordHead(f.nameLen)
             /\ f.base[1] = 0 /\ f.base[n + 1] = f.usz
             /\ Cell(S.off + f.at[n + 1]) = CrcCell(Bytes(f.name, f.usz))
             /\ S.at[j + 1] = f.at[n + 1] + CrcSize
  BY SfxsWellFormed DEF WellFormed, FileLaidOut, S, N, Names, Cell

LEMMA ChunkFacts ==
  ASSUME which \in DOMAIN Sfxs, NEW j \in 1..N, NEW k \in 1..Len(S.files[j].chunks)
  PROVE  LET f == S.files[j]
             c == f.chunks[k]
         IN  /\ ChunkFits(S.algo, c)
             /\ f.at[k] \in Nat /\ f.base[k] \in Nat /\ f.base[k + 1] <= f.usz
             /\ f.at[k + 1] = f.at[k] + ChunkHead + c.csize
             /\ f.base[k + 1] = f.base[k] + c.usize
             /\ Cell(S.off + f.at[k]) = ChunkCell(c)
             /\ S.algo = Stored =>
                  \A b \in 1..c.csize :
                     Cell(S.off + f.at[k] + ChunkHead + b - 1)
                       = ByteCell(<<f.name, f.base[k] + b>>)
             /\ S.algo # Stored /\ c.csize > 0 =>
                  Cell(S.off + f.at[k] + ChunkHead)
                    = PackedCell(Slice(f.name, f.base[k], c.usize))
  BY SfxsWellFormed, ZenonT(60) DEF WellFormed, FileLaidOut, ChunkLaidOut, S, N, Cell

LEMMA Frame ==
  ASSUME which' = which
  PROVE  /\ S' = S /\ N' = N /\ Names' = Names
         /\ ByteSeq' = ByteSeq /\ RecordType' = RecordType /\ FileType' = FileType
  BY DEF S, N, Names, ByteSeq, RecordType, FileType

----------------------------------------------------------------------------
\* The invariant holds in the beginning and after every action.

LEMMA InitInv ==
  ASSUME Init
  PROVE  IInv
  <1>1. which \in DOMAIN Sfxs /\ N \in Nat
    BY ImageFacts DEF Init
  <1>2. \A j \in 1..N : S.files[j].name \in Names /\ S.files[j].usz \in Nat
    BY <1>1, FileFacts
  <1>3. TypeOK
    <2>1. <<>> \in ByteSeq /\ Len(<<>>) <= BufSize
      BY CeilingsMatch DEF ByteSeq
    <2>2. ControlOK
      BY DEF Init, ControlOK
    <2>3. hdr \in HeaderType /\ rec \in RecordType
      BY DEF Init, HeaderType, RecordType, NoHeader, NoRecord, Algorithms, Stored
    <2>4. Untouched \in FileType
      BY <2>1 DEF Untouched, FileType
    <2>5. LocalsOK
      BY <1>1, <2>3 DEF Init, LocalsOK
    <2>6. FilesOK
      BY <2>1, <2>4 DEF Init, FilesOK
    <2> QED BY <2>2, <2>5, <2>6 DEF TypeOK
  <1>4. OutputsExact
    <2> SUFFICES ASSUME NEW j \in 1..N
                 PROVE  LET f == S.files[j]
                            o == disk[f.name]
                        IN  Len(o.data) <= f.usz /\ o.data = Bytes(f.name, Len(o.data))
                            /\ o = Untouched
      BY DEF OutputsExact, Untouched
    <2>1. disk[S.files[j].name] = Untouched
      BY <1>2 DEF Init
    <2>2. Bytes(S.files[j].name, 0) = <<>>
      BY DEF Bytes
    <2> QED BY <1>2, <2>1, <2>2 DEF Untouched
  <1>5. DiskMatches
    BY <1>1, <1>2 DEF Init, DiskMatches, Running
  <1> QED
    BY <1>3, <1>4, <1>5 DEF IInv, LocalsMatch, AtTheRightField, Init, InFile, Walking

LEMMA ReadTrailerInv ==
  ASSUME IInv, ReadTrailer
  PROVE  IInv'
  <1>1. which \in DOMAIN Sfxs /\ UNCHANGED <<which, fi, rec, ci, left, buf, disk, skipped, child>>
    BY DEF IInv, TypeOK, ControlOK, ReadTrailer, Check, Goto, Die
  <1>2. /\ S' = S /\ N' = N /\ Names' = Names
        /\ ByteSeq' = ByteSeq /\ RecordType' = RecordType /\ FileType' = FileType
    BY <1>1, Frame
  <1>3. pc = "trailer" /\ pc' = "header" /\ pos' = S.off /\ hdr' = [hdr EXCEPT !.off = S.off]
        /\ UNCHANGED <<code, fault>>
    BY <1>1, ImageFacts DEF ReadTrailer, Check, Goto, Die, TrailerCell, TrailerSize
  <1>4. TypeOK'
    <2>1. ControlOK'
      BY <1>1, <1>3 DEF IInv, TypeOK, ControlOK
    <2>2. hdr' \in HeaderType
      BY <1>1, <1>3, ImageFacts DEF IInv, TypeOK, LocalsOK, HeaderType
    <2>3. LocalsOK'
      BY <1>1, <1>2, <1>3, <2>2, ImageFacts DEF IInv, TypeOK, LocalsOK
    <2>4. FilesOK'
      BY <1>1, <1>2 DEF IInv, TypeOK, FilesOK
    <2> QED BY <2>1, <2>3, <2>4 DEF TypeOK
  <1>5. LocalsMatch'
    BY <1>1, <1>2, <1>3 DEF IInv, TypeOK, LocalsOK, LocalsMatch, InFile, Walking
  <1>6. AtTheRightField'
    BY <1>1, <1>2, <1>3, ImageFacts DEF AtTheRightField
  <1>7. OutputsExact' /\ DiskMatches'
    BY <1>1, <1>2, <1>3 DEF IInv, OutputsExact, DiskMatches, Running
  <1> QED BY <1>4, <1>5, <1>6, <1>7 DEF IInv

LEMMA ReadHeaderInv ==
  ASSUME IInv, ReadHeader
  PROVE  IInv'
  <1>1. which \in DOMAIN Sfxs /\ UNCHANGED <<which, fi, rec, ci, left, buf, disk, skipped, child>>
    BY DEF IInv, TypeOK, ControlOK, ReadHeader, Check, Goto, Die
  <1>2. /\ S' = S /\ N' = N /\ Names' = Names
        /\ ByteSeq' = ByteSeq /\ RecordType' = RecordType /\ FileType' = FileType
    BY <1>1, Frame
  <1>3. pc = "header" /\ pos = S.off /\ fi = 1 /\ hdr.off = S.off
    <2>1. pc = "header" /\ pos = S.off + 0
      BY DEF IInv, AtTheRightField, ReadHeader
    <2>2. fi = 1 /\ hdr.off = S.off
      BY <2>1 DEF IInv, LocalsMatch
    <2> QED BY <1>1, <2>1, <2>2, ImageFacts
  <1>4. Cell(pos) = HeaderCell(S.algo, S.flag, N, IF S.flag THEN S.at[N + 1] ELSE 0, S.packed)
    BY <1>1, <1>3, ImageFacts
  <1>5. CanDecode(S.algo)
    BY <1>1, ImageFacts DEF CanDecode, StubFor, Algorithms, Stored, Aplib, Lzsa2, Lzma
  <1>6. pc' = "record" /\ UNCHANGED <<code, fault>>
    BY <1>4, <1>5 DEF ReadHeader, Check, Goto, HeaderCell
  <1>7. pos' = S.off + HeaderSize
    BY <1>3 DEF ReadHeader
  <1>8. hdr' = [off |-> S.off, algo |-> S.algo, count |-> N, flag |-> S.flag,
               run |-> IF S.flag THEN S.at[N + 1] ELSE 0]
    <2>1. hdr' = [hdr EXCEPT !.algo = S.algo, !.count = N, !.flag = S.flag,
                            !.run = IF S.flag THEN S.at[N + 1] ELSE 0]
      BY <1>4 DEF ReadHeader, HeaderCell
    <2> QED BY <1>3, <2>1 DEF IInv, TypeOK, LocalsOK, HeaderType
  <1>9. TypeOK'
    <2>1. ControlOK'
      BY <1>1, <1>6 DEF IInv, TypeOK, ControlOK
    <2>2. hdr' \in HeaderType
      BY <1>1, <1>8, ImageFacts DEF HeaderType
    <2>3. LocalsOK'
      BY <1>1, <1>2, <1>6, <1>7, <2>2, ImageFacts DEF IInv, TypeOK, LocalsOK, HeaderSize
    <2>4. FilesOK'
      BY <1>1, <1>2 DEF IInv, TypeOK, FilesOK
    <2> QED BY <2>1, <2>3, <2>4 DEF TypeOK
  <1>10. LocalsMatch'
    BY <1>2, <1>6, <1>8 DEF LocalsMatch, InFile, Walking
  <1>11. AtTheRightField'
    BY <1>1, <1>2, <1>3, <1>6, <1>7, ImageFacts DEF AtTheRightField
  <1>12. OutputsExact' /\ DiskMatches'
    BY <1>1, <1>2, <1>3, <1>6 DEF IInv, OutputsExact, DiskMatches, Running
  <1> QED BY <1>9, <1>10, <1>11, <1>12 DEF IInv

\* What the invariant says while main() is inside a record.
LEMMA CurrentFile ==
  ASSUME IInv, pc \in InFile
  PROVE  /\ which \in DOMAIN Sfxs /\ fi \in 1..N
         /\ rec = [name |-> S.files[fi].name, stamp |-> S.files[fi].stamp,
                   count |-> Len(S.files[fi].chunks)]
         /\ hdr.algo = S.algo /\ hdr.count = N
         /\ disk[rec.name] \in FileType
         /\ disk[rec.name].data = Bytes(rec.name, Len(disk[rec.name].data))
         /\ Len(disk[rec.name].data) \in Nat
  <1>1. which \in DOMAIN Sfxs
    BY DEF IInv, TypeOK, ControlOK
  <1>2. fi \in 1..N
    BY <1>1, ImageFacts DEF IInv, TypeOK, LocalsOK, LocalsMatch
  <1>3. /\ rec = [name |-> S.files[fi].name, stamp |-> S.files[fi].stamp,
                  count |-> Len(S.files[fi].chunks)]
        /\ hdr.algo = S.algo /\ hdr.count = N
    BY DEF IInv, LocalsMatch, Walking
  <1>4. rec.name = S.files[fi].name /\ rec.name \in Names
    BY <1>1, <1>2, <1>3, FileFacts
  <1>5. disk[rec.name] \in FileType
    BY <1>4 DEF IInv, TypeOK, FilesOK
  <1>6. disk[rec.name].data = Bytes(rec.name, Len(disk[rec.name].data))
    BY <1>2, <1>4 DEF IInv, OutputsExact
  <1>7. disk[rec.name].data \in ByteSeq
    BY <1>5 DEF FileType
  <1>8. Len(disk[rec.name].data) \in Nat
    BY <1>7 DEF ByteSeq
  <1> QED BY <1>1, <1>2, <1>3, <1>5, <1>6, <1>8

\* An action that changes at most the current output file, to o.
LEMMA OneFileChanges ==
  ASSUME IInv, fi \in 1..N, NEW o \in FileType,
         disk' = [disk EXCEPT ![S.files[fi].name] = o]
  PROVE  /\ disk' \in [Names -> FileType]
         /\ disk'[S.files[fi].name] = o
         /\ \A j \in 1..N : j # fi => disk'[S.files[j].name] = disk[S.files[j].name]
  <1>1. which \in DOMAIN Sfxs /\ disk \in [Names -> FileType]
    BY DEF IInv, TypeOK, ControlOK, FilesOK
  <1>2. S.files[fi].name \in Names
    BY <1>1, FileFacts
  <1>3. \A j \in 1..N : S.files[j].name \in Names
                        /\ (S.files[j].name = S.files[fi].name => j = fi)
    BY <1>1, FileFacts
  <1> QED BY <1>1, <1>2, <1>3

LEMMA OutputsKept ==
  ASSUME IInv, UNCHANGED <<which, fi, disk>>
  PROVE  OutputsExact'
  BY Frame DEF IInv, OutputsExact

LEMMA OutputsUpdated ==
  ASSUME IInv, which' = which, fi \in 1..N, fi' \in {fi, fi + 1},
         NEW o \in FileType,
         disk' = [disk EXCEPT ![S.files[fi].name] = o],
         Len(o.data) <= S.files[fi].usz,
         o.data = Bytes(S.files[fi].name, Len(o.data)),
         o.st = "closed" => Len(o.data) = S.files[fi].usz /\ o.stamp \in {0, S.files[fi].stamp}
  PROVE  OutputsExact'
  <1>1. S' = S /\ N' = N
    BY Frame
  <1>2. /\ disk'[S.files[fi].name] = o
        /\ \A j \in 1..N : j # fi => disk'[S.files[j].name] = disk[S.files[j].name]
    BY OneFileChanges
  <1>3. N \in Nat
    BY ImageFacts DEF IInv, TypeOK, ControlOK
  <1> SUFFICES ASSUME NEW j \in 1..N
               PROVE  LET f == S.files[j]
                          p == disk'[f.name]
                      IN  /\ Len(p.data) <= f.usz
                          /\ p.data = Bytes(f.name, Len(p.data))
                          /\ p.st = "closed" => Len(p.data) = f.usz /\ p.stamp \in {0, f.stamp}
                          /\ j > fi' => p = Untouched
    BY <1>1, ZenonT(60) DEF OutputsExact
  <1>4. CASE j = fi
    BY <1>2, <1>4
  <1>5. CASE j # fi
    <2>1. disk'[S.files[j].name] = disk[S.files[j].name]
      BY <1>2, <1>5
    <2>2. j > fi' => j > fi
      BY <1>3
    <2> QED BY <2>1, <2>2 DEF IInv, OutputsExact
  <1> QED BY <1>4, <1>5

LEMMA ReadRecordInv ==
  ASSUME IInv, ReadRecord
  PROVE  IInv'
  <1>1. which \in DOMAIN Sfxs
        /\ UNCHANGED <<which, hdr, fi, ci, left, buf, disk, skipped, child, code, fault>>
    BY DEF IInv, TypeOK, ControlOK, ReadRecord, Goto
  <1>2. /\ S' = S /\ N' = N /\ Names' = Names
        /\ ByteSeq' = ByteSeq /\ RecordType' = RecordType /\ FileType' = FileType
    BY <1>1, Frame
  <1>3. pc = "record" /\ pc' = "creat" /\ fi \in 1..N
    BY <1>1, ImageFacts DEF ReadRecord, Goto, IInv, TypeOK, LocalsOK, LocalsMatch, Walking
  <1>4. pos = S.off + S.at[fi]
    BY <1>3 DEF IInv, AtTheRightField
  <1>5. Cell(pos) = RecordCell(S.files[fi])
    BY <1>1, <1>3, <1>4, FileFacts
  <1>6. rec' = [name |-> S.files[fi].name, stamp |-> S.files[fi].stamp,
               count |-> Len(S.files[fi].chunks)]
    BY <1>5 DEF ReadRecord, RecordCell
  <1>7. pos' = S.off + S.files[fi].at[1] /\ pos' \in Nat
    <2>1. pos' = S.off + S.at[fi] + RecordHead(S.files[fi].nameLen)
      BY <1>4, <1>5 DEF ReadRecord, RecordCell
    <2>2. /\ S.off \in Nat /\ S.at[fi] \in Nat /\ S.files[fi].nameLen \in Nat
          /\ S.files[fi].at[1] = S.at[fi] + RecordHead(S.files[fi].nameLen)
      BY <1>1, <1>3, ImageFacts, FileFacts
    <2>3. RecordHead(S.files[fi].nameLen) \in Nat
      BY <2>2 DEF RecordHead
    <2>4. pos' = S.off + S.files[fi].at[1] /\ S.files[fi].at[1] \in Nat
      BY <2>1, <2>2, <2>3
    <2> QED BY <2>2, <2>4
  <1>8. TypeOK'
    <2>1. ControlOK'
      BY <1>1, <1>3 DEF IInv, TypeOK, ControlOK
    <2>2. rec' \in RecordType
      BY <1>1, <1>3, <1>6, FileFacts DEF RecordType
    <2>4. LocalsOK'
      BY <1>1, <1>2, <1>3, <1>7, <2>2 DEF IInv, TypeOK, LocalsOK
    <2>5. FilesOK'
      BY <1>1, <1>2 DEF IInv, TypeOK, FilesOK
    <2> QED BY <2>1, <2>4, <2>5 DEF TypeOK
  <1>9. LocalsMatch'
    BY <1>1, <1>2, <1>3, <1>6, ImageFacts DEF IInv, LocalsMatch, InFile, Walking
  <1>10. AtTheRightField'
    BY <1>1, <1>2, <1>3, <1>7 DEF AtTheRightField
  <1>11. OutputsExact'
    BY <1>1, OutputsKept
  <1>12. DiskMatches'
    BY <1>1, <1>2, <1>3 DEF IInv, DiskMatches, Running
  <1> QED BY <1>8, <1>9, <1>10, <1>11, <1>12 DEF IInv

LEMMA CreateInv ==
  ASSUME IInv, Create
  PROVE  IInv'
  <1>1. UNCHANGED <<which, pos, hdr, fi, rec, left, buf, skipped, child, code, fault>>
        /\ pc = "creat" /\ pc' = "chunk" /\ ci' = 1
    BY DEF Create, Goto
  <1>2. /\ S' = S /\ N' = N /\ Names' = Names
        /\ ByteSeq' = ByteSeq /\ RecordType' = RecordType /\ FileType' = FileType
    BY <1>1, Frame
  <1>3. which \in DOMAIN Sfxs /\ fi \in 1..N
        /\ rec = [name |-> S.files[fi].name, stamp |-> S.files[fi].stamp,
                  count |-> Len(S.files[fi].chunks)]
    BY <1>1, CurrentFile DEF InFile
  <1>4. Created \in FileType /\ Len(Created.data) = 0 /\ Created.st = "open"
        /\ Created.data = Bytes(S.files[fi].name, 0)
    BY DEF Created, FileType, ByteSeq, Bytes
  <1>5. disk' = [disk EXCEPT ![S.files[fi].name] = Created]
    BY <1>3 DEF Create
  <1>6. /\ disk' \in [Names -> FileType]
        /\ disk'[S.files[fi].name] = Created
        /\ \A j \in 1..N : j # fi => disk'[S.files[j].name] = disk[S.files[j].name]
    BY <1>3, <1>4, <1>5, OneFileChanges
  <1>7. TypeOK'
    <2>1. ControlOK'
      BY <1>1 DEF IInv, TypeOK, ControlOK
    <2>2. rec'.count \in Nat
      BY <1>1 DEF IInv, TypeOK, LocalsOK, RecordType
    <2>3. LocalsOK'
      BY <1>1, <1>2, <2>2 DEF IInv, TypeOK, LocalsOK
    <2>4. FilesOK'
      BY <1>1, <1>2, <1>6 DEF IInv, TypeOK, FilesOK
    <2> QED BY <2>1, <2>3, <2>4 DEF TypeOK
  <1>8. LocalsMatch'
    BY <1>1, <1>2 DEF IInv, LocalsMatch, InFile, Walking
  <1>9. AtTheRightField'
    BY <1>1, <1>2 DEF IInv, AtTheRightField
  <1>10. OutputsExact'
    <2>1. Len(Created.data) <= S.files[fi].usz
      BY <1>3, <1>4, FileFacts
    <2> QED BY <1>1, <1>3, <1>4, <1>5, <2>1, OutputsUpdated
  <1>11. DiskMatches'
    <2>1. S.files[fi].base[1] = 0
      BY <1>3, FileFacts
    <2> QED BY <1>1, <1>2, <1>3, <1>4, <1>6, <2>1 DEF IInv, DiskMatches, Running
  <1> QED BY <1>7, <1>8, <1>9, <1>10, <1>11 DEF IInv

\* The field at the cursor when the chunk loop is about to take chunk ci, or is done.
LEMMA AtChunk ==
  ASSUME IInv, pc \in {"chunk", "skip"}, ci <= rec.count
  PROVE  LET f == S.files[fi]
             c == f.chunks[ci]
         IN  /\ which \in DOMAIN Sfxs /\ fi \in 1..N
             /\ ci \in 1..Len(f.chunks) /\ Len(f.chunks) = rec.count
             /\ pos = S.off + f.at[ci]
             /\ Cell(pos) = ChunkCell(c)
             /\ c.csize \in Nat /\ c.usize \in Nat
             /\ f.at[ci + 1] = f.at[ci] + ChunkHead + c.csize
             /\ S.off + f.at[ci + 1] = pos + ChunkHead + c.csize
  <1>1. which \in DOMAIN Sfxs /\ fi \in 1..N /\ rec.count = Len(S.files[fi].chunks)
    BY CurrentFile DEF InFile
  <1>2. ci \in 1..Len(S.files[fi].chunks)
    BY <1>1, FileFacts DEF IInv, TypeOK, LocalsOK
  <1>3. pos = S.off + S.files[fi].at[ci]
    BY DEF IInv, AtTheRightField
  <1>4. ChunkFits(S.algo, S.files[fi].chunks[ci]) /\ S.files[fi].at[ci] \in Nat
        /\ S.files[fi].at[ci + 1] = S.files[fi].at[ci] + ChunkHead + S.files[fi].chunks[ci].csize
        /\ Cell(pos) = ChunkCell(S.files[fi].chunks[ci])
    BY <1>1, <1>2, <1>3, ChunkFacts
  <1>5. S.files[fi].chunks[ci].csize \in Nat /\ S.files[fi].chunks[ci].usize \in Nat
    BY <1>4 DEF ChunkFits
  <1>6. S.off \in Nat
    BY <1>1, ImageFacts
  <1>7. S.off + S.files[fi].at[ci + 1] = pos + ChunkHead + S.files[fi].chunks[ci].csize
    BY <1>3, <1>4, <1>5, <1>6 DEF ChunkHead
  <1> QED BY <1>1, <1>2, <1>3, <1>4, <1>5, <1>7

LEMMA AtCrc ==
  ASSUME IInv, pc \in {"chunk", "skip"}, ci > rec.count
  PROVE  /\ which \in DOMAIN Sfxs /\ fi \in 1..N
         /\ ci = Len(S.files[fi].chunks) + 1
         /\ pos + CrcSize = S.off + S.at[fi + 1]
  <1>1. which \in DOMAIN Sfxs /\ fi \in 1..N /\ rec.count = Len(S.files[fi].chunks)
    BY CurrentFile DEF InFile
  <1>2. ci = Len(S.files[fi].chunks) + 1
    <2>1. rec.count \in Nat
      BY <1>1, FileFacts
    <2>2. ci <= rec.count + 1 /\ ci \in Nat
      BY DEF IInv, TypeOK, LocalsOK
    <2> QED BY <1>1, <2>1, <2>2
  <1>3. pos = S.off + S.files[fi].at[ci]
    BY DEF IInv, AtTheRightField
  <1>4. S.at[fi + 1] = S.files[fi].at[ci] + CrcSize /\ S.files[fi].at[ci] \in Nat
    BY <1>1, <1>2, FileFacts
  <1>5. S.off \in Nat
    BY <1>1, ImageFacts
  <1>6. pos + CrcSize = S.off + S.at[fi + 1]
    <2> DEFINE a == S.files[fi].at[ci]
    <2>1. pos = S.off + a /\ S.at[fi + 1] = a + CrcSize /\ a \in Nat
      BY <1>3, <1>4
    <2> HIDE DEF a
    <2>2. (S.off + a) + CrcSize = S.off + (a + CrcSize)
      BY <1>5, <2>1 DEF CrcSize
    <2> QED BY <2>1, <2>2, Zenon
  <1> QED BY <1>1, <1>2, <1>6, Zenon

LEMMA CannotCreateInv ==
  ASSUME IInv, CannotCreate
  PROVE  IInv'
  <1>1. UNCHANGED <<which, pos, hdr, fi, rec, left, buf, disk, child, code>>
        /\ pc = "creat" /\ pc' = "skip" /\ ci' = 1
        /\ skipped' = skipped \union {fi} /\ fault' = TRUE
    BY DEF CannotCreate
  <1>2. /\ S' = S /\ N' = N /\ Names' = Names
        /\ ByteSeq' = ByteSeq /\ RecordType' = RecordType /\ FileType' = FileType
    BY <1>1, Frame
  <1>3. which \in DOMAIN Sfxs /\ fi \in 1..N
    BY <1>1, CurrentFile DEF InFile
  <1>4. TypeOK'
    <2>1. ControlOK'
      BY <1>1 DEF IInv, TypeOK, ControlOK
    <2>2. rec'.count \in Nat
      BY <1>1 DEF IInv, TypeOK, LocalsOK, RecordType
    <2>3. LocalsOK'
      BY <1>1, <1>2, <2>2 DEF IInv, TypeOK, LocalsOK
    <2>4. FilesOK'
      BY <1>1, <1>2, <1>3 DEF IInv, TypeOK, FilesOK
    <2> QED BY <2>1, <2>3, <2>4 DEF TypeOK
  <1>5. LocalsMatch'
    BY <1>1, <1>2 DEF IInv, LocalsMatch, InFile, Walking
  <1>6. AtTheRightField'
    BY <1>1, <1>2 DEF IInv, AtTheRightField
  <1>7. OutputsExact'
    BY <1>1, OutputsKept
  <1>8. DiskMatches'
    BY <1>1, <1>2, <1>3 DEF IInv, DiskMatches, Running
  <1> QED BY <1>4, <1>5, <1>6, <1>7, <1>8 DEF IInv

LEMMA SkipChunkInv ==
  ASSUME IInv, SkipChunk
  PROVE  IInv'
  <1>1. UNCHANGED <<which, hdr, fi, rec, left, buf, disk, skipped, child, code, fault>>
        /\ pc = "skip" /\ pc' = "skip" /\ ci' = ci + 1 /\ ci <= rec.count
        /\ pos' = pos + ChunkHead + Cell(pos).csize
    BY DEF SkipChunk, Goto
  <1>2. /\ S' = S /\ N' = N /\ Names' = Names
        /\ ByteSeq' = ByteSeq /\ RecordType' = RecordType /\ FileType' = FileType
    BY <1>1, Frame
  <1>3. /\ which \in DOMAIN Sfxs /\ fi \in 1..N /\ ci \in 1..rec.count
        /\ S.files[fi].chunks[ci].csize \in Nat
        /\ Cell(pos) = ChunkCell(S.files[fi].chunks[ci])
        /\ S.off + S.files[fi].at[ci + 1] = pos + ChunkHead + S.files[fi].chunks[ci].csize
    BY <1>1, AtChunk
  <1>4. pos' = S.off + S.files[fi].at[ci + 1] /\ pos' \in Nat
    <2>1. pos' = pos + ChunkHead + S.files[fi].chunks[ci].csize
      BY <1>1, <1>3 DEF ChunkCell
    <2> QED BY <1>3, <2>1 DEF IInv, TypeOK, LocalsOK, ChunkHead
  <1>5. TypeOK'
    <2>1. ControlOK'
      BY <1>1 DEF IInv, TypeOK, ControlOK
    <2>2. rec.count \in Nat
      BY DEF IInv, TypeOK, LocalsOK, RecordType
    <2>3. ci' \in Nat \ {0} /\ ci' <= rec'.count + 1
      BY <1>1, <1>3, <2>2
    <2>4. LocalsOK'
      BY <1>1, <1>2, <1>4, <2>3 DEF IInv, TypeOK, LocalsOK
    <2>5. FilesOK'
      BY <1>1, <1>2 DEF IInv, TypeOK, FilesOK
    <2> QED BY <2>1, <2>4, <2>5 DEF TypeOK
  <1>6. LocalsMatch'
    BY <1>1, <1>2 DEF IInv, LocalsMatch, InFile, Walking
  <1>7. AtTheRightField'
    BY <1>1, <1>2, <1>4 DEF AtTheRightField
  <1>8. OutputsExact'
    BY <1>1, OutputsKept
  <1>9. DiskMatches'
    BY <1>1, <1>2 DEF IInv, DiskMatches, Running
  <1> QED BY <1>5, <1>6, <1>7, <1>8, <1>9 DEF IInv

LEMMA SkipCrcInv ==
  ASSUME IInv, SkipCrc
  PROVE  IInv'
  <1>1. UNCHANGED <<which, hdr, rec, ci, left, buf, disk, skipped, child, code, fault>>
        /\ pc = "skip" /\ pc' = "record" /\ fi' = fi + 1 /\ ci > rec.count
        /\ pos' = pos + CrcSize
    BY DEF SkipCrc, Goto
  <1>2. /\ S' = S /\ N' = N /\ Names' = Names
        /\ ByteSeq' = ByteSeq /\ RecordType' = RecordType /\ FileType' = FileType
    BY <1>1, Frame
  <1>3. which \in DOMAIN Sfxs /\ fi \in 1..N /\ pos' = S.off + S.at[fi + 1]
    BY <1>1, AtCrc
  <1>4. N \in Nat
    BY <1>3, ImageFacts
  <1>5. TypeOK'
    <2>1. ControlOK'
      BY <1>1 DEF IInv, TypeOK, ControlOK
    <2>2. LocalsOK'
      BY <1>1, <1>2, <1>3, <1>4 DEF IInv, TypeOK, LocalsOK, CrcSize
    <2>3. FilesOK'
      BY <1>1, <1>2 DEF IInv, TypeOK, FilesOK
    <2> QED BY <2>1, <2>2, <2>3 DEF TypeOK
  <1>6. LocalsMatch'
    BY <1>1, <1>2 DEF IInv, LocalsMatch, InFile, Walking
  <1>7. AtTheRightField'
    BY <1>1, <1>2, <1>3 DEF AtTheRightField
  <1>8. OutputsExact'
    BY <1>1, <1>2, <1>3 DEF IInv, OutputsExact
  <1>9. DiskMatches'
    <2> SUFFICES ASSUME NEW j \in 1..N
                 PROVE  /\ j < fi + 1 => j \in skipped \/ disk[S.files[j].name].st = "closed"
                        /\ j = fi + 1 => disk[S.files[j].name] = Untouched /\ j \notin skipped
                        /\ j \in skipped => j <= fi + 1 /\ disk[S.files[j].name] = Untouched
      BY <1>1, <1>2 DEF DiskMatches, Running
    <2>1. j < fi + 1 => j < fi \/ j = fi
      BY <1>3, <1>4
    <2>2. j = fi + 1 => j > fi /\ ~(j <= fi)
      BY <1>3, <1>4
    <2>3. j <= fi => j <= fi + 1
      BY <1>3, <1>4
    <2> QED BY <1>1, <2>1, <2>2, <2>3 DEF IInv, DiskMatches, OutputsExact, Running
  <1> QED BY <1>5, <1>6, <1>7, <1>8, <1>9 DEF IInv

\* n more bytes, the next ones, are appended to the current output file.
LEMMA FileGrows ==
  ASSUME IInv, pc \in {"copy", "write"}, UNCHANGED <<which, fi>>, NEW n \in Nat,
         Len(disk[rec.name].data) + n <= S.files[fi].usz,
         disk[rec.name].st = "open",
         Write(Slice(rec.name, Len(disk[rec.name].data), n))
  PROVE  /\ OutputsExact'
         /\ disk' \in [Names -> FileType]
         /\ disk'[S.files[fi].name].st = "open"
         /\ Len(disk'[S.files[fi].name].data) = Len(disk[rec.name].data) + n
         /\ \A j \in 1..N : j # fi => disk'[S.files[j].name] = disk[S.files[j].name]
  <1> DEFINE name == S.files[fi].name
             m == Len(disk[rec.name].data)
             o == [disk[name] EXCEPT !.data = Bytes(name, m + n)]
  <1>1. /\ which \in DOMAIN Sfxs /\ fi \in 1..N /\ rec.name = name /\ m \in Nat
        /\ disk[name] \in FileType
        /\ disk[name].data = Bytes(name, m)
    BY CurrentFile DEF InFile
  <1>2. name \in Names /\ disk \in [Names -> FileType]
    BY <1>1, FileFacts DEF IInv, TypeOK, FilesOK
  <1>3. disk[name].data \o Slice(name, m, n) = Bytes(name, m + n)
    BY <1>1, BytesAppend
  <1>4. disk' = [disk EXCEPT ![name] = o]
    BY <1>1, <1>2, <1>3 DEF Write
  <1>5. Len(Bytes(name, m + n)) = m + n /\ Bytes(name, m + n) \in ByteSeq
    <2>1. m + n \in Nat
      BY <1>1
    <2>2. /\ Len(Bytes(name, m + n)) = m + n
          /\ Bytes(name, m + n) \in Seq({name} \X (Nat \ {0}))
      BY <2>1, BytesLen
    <2>3. {name} \X (Nat \ {0}) \subseteq Names \X (Nat \ {0})
      BY <1>2
    <2> QED BY <2>2, <2>3 DEF ByteSeq
  <1>6. o \in FileType /\ o.st = "open" /\ o.data = Bytes(name, m + n)
    BY <1>1, <1>5 DEF FileType
  <1> HIDE DEF o
  <1>7. /\ disk' \in [Names -> FileType] /\ disk'[name] = o
        /\ \A j \in 1..N : j # fi => disk'[S.files[j].name] = disk[S.files[j].name]
    BY <1>1, <1>4, <1>6, OneFileChanges
  <1>8. OutputsExact'
    BY <1>1, <1>4, <1>5, <1>6, OutputsUpdated
  <1> QED BY <1>5, <1>6, <1>7, <1>8

\* The stored bytes copy_bytes has still to copy are the next ones of the output file.
LEMMA CopyWindow ==
  ASSUME IInv, pc = "copy"
  PROVE  LET done == Len(disk[rec.name].data)
         IN  /\ \A k \in 1..left : Cell(pos + k - 1) = ByteCell(<<rec.name, done + k>>)
             /\ done + left <= S.files[fi].usz
             /\ disk[rec.name].st = "open"
             /\ pos \in Nat /\ left \in Nat
  <1> DEFINE f == S.files[fi]
             c == f.chunks[ci]
             done == Len(disk[rec.name].data)
  <1>1. /\ which \in DOMAIN Sfxs /\ fi \in 1..N
        /\ rec.name = f.name /\ rec.count = Len(f.chunks)
        /\ done \in Nat
    BY CurrentFile DEF InFile
  <1>2. ci \in 1..Len(f.chunks) /\ left \in Nat /\ pos \in Nat
    <2>1. Len(f.chunks) \in Nat
      BY <1>1, FileFacts
    <2> QED BY <1>1, <2>1 DEF IInv, TypeOK, LocalsOK
  <1>3. S.algo = Stored /\ left <= c.csize
    BY DEF IInv, LocalsMatch
  <1>4. disk[rec.name].st = "open" /\ done + left = f.base[ci + 1]
    BY <1>1 DEF IInv, DiskMatches
  <1>5. pos + left = S.off + f.at[ci + 1]
    BY DEF IInv, AtTheRightField
  <1>6. /\ ChunkFits(S.algo, c) /\ f.base[ci + 1] <= f.usz
        /\ f.at[ci] \in Nat /\ f.base[ci] \in Nat
        /\ f.at[ci + 1] = f.at[ci] + ChunkHead + c.csize
        /\ f.base[ci + 1] = f.base[ci] + c.usize
    BY <1>1, <1>2, ChunkFacts
  <1>11. \A b \in 1..c.csize :
            Cell(S.off + f.at[ci] + ChunkHead + b - 1) = ByteCell(<<f.name, f.base[ci] + b>>)
    BY <1>1, <1>2, <1>3, ChunkFacts
  <1>7. c.csize \in Nat /\ c.usize = c.csize
    BY <1>3, <1>6 DEF ChunkFits
  <1>8. S.off \in Nat
    BY <1>1, ImageFacts
  <1> HIDE DEF f, c, done
  <1>12. done = f.base[ci] + (c.csize - left)
    <2>1. done + left = f.base[ci] + c.csize
      BY <1>4, <1>6, <1>7
    <2> QED BY <1>1, <1>2, <1>6, <1>7, <2>1, SMTT(60)
  <1>13. pos = S.off + f.at[ci] + ChunkHead + (c.csize - left)
    <2>1. pos + left = S.off + (f.at[ci] + ChunkHead + c.csize)
      BY <1>5, <1>6
    <2>2. f.at[ci] \in Nat /\ c.csize \in Nat /\ left \in Nat /\ pos \in Nat
      BY <1>2, <1>6, <1>7
    <2>3. \A p, l, o, a, z \in Nat : p + l = o + (a + 4 + z) => p = o + a + 4 + (z - l)
      OBVIOUS
    <2> QED BY <1>8, <2>1, <2>2, <2>3 DEF ChunkHead
  <1>9. ASSUME NEW k \in 1..left
        PROVE  Cell(pos + k - 1) = ByteCell(<<rec.name, done + k>>)
    <2> DEFINE b == c.csize - left + k
    <2>1. b \in 1..c.csize
      BY <1>2, <1>3, <1>7
    <2>2. pos + k - 1 = S.off + f.at[ci] + ChunkHead + b - 1
      <3>1. f.at[ci] \in Nat /\ c.csize \in Nat /\ left \in Nat /\ k \in Nat
        BY <1>2, <1>6, <1>7
      <3>2. \A o, a, z, l, i \in Nat :
               o + a + 4 + (z - l) + i - 1 = o + a + 4 + (z - l + i) - 1
        OBVIOUS
      <3> QED BY <1>8, <1>13, <3>1, <3>2 DEF ChunkHead
    <2>3. done + k = f.base[ci] + b
      BY <1>2, <1>6, <1>7, <1>12
    <2>4. Cell(S.off + f.at[ci] + ChunkHead + b - 1) = ByteCell(<<f.name, f.base[ci] + b>>)
      BY <1>11, <2>1
    <2> QED BY <1>1, <2>2, <2>3, <2>4
  <1>10. done + left <= f.usz
    BY <1>4, <1>6
  <1> QED BY <1>2, <1>4, <1>9, <1>10 DEF done, f

LEMMA ReadEmptyChunkInv ==
  ASSUME IInv, ReadEmptyChunk
  PROVE  IInv'
  <1> DEFINE f == S.files[fi]
             c == f.chunks[ci]
  <1>0. pc = "chunk" /\ ci <= rec.count /\ Cell(pos).csize = 0
    BY DEF ReadEmptyChunk
  <1>3. /\ which \in DOMAIN Sfxs /\ fi \in 1..N /\ ci \in 1..Len(f.chunks)
        /\ Len(f.chunks) = rec.count /\ Cell(pos) = ChunkCell(c)
        /\ S.off + f.at[ci + 1] = pos + ChunkHead + c.csize
    BY <1>0, AtChunk
  <1>4. c.csize = 0
    BY <1>0, <1>3 DEF ChunkCell
  <1>5. /\ c.usize = 0 /\ f.base[ci + 1] = f.base[ci] + c.usize
        /\ f.base[ci] \in Nat
    BY <1>3, <1>4, ChunkFacts DEF ChunkFits
  <1>6. Cell(pos).usize = 0
    BY <1>3, <1>5 DEF ChunkCell
  <1>1. UNCHANGED <<which, hdr, fi, rec, left, buf, disk, skipped, child, code, fault>>
        /\ pc' = "chunk" /\ ci' = ci + 1 /\ pos' = pos + ChunkHead
    BY <1>6 DEF ReadEmptyChunk, Check, Goto
  <1>2. /\ S' = S /\ N' = N /\ Names' = Names
        /\ ByteSeq' = ByteSeq /\ RecordType' = RecordType /\ FileType' = FileType
    BY <1>1, Frame
  <1>7. pos' = S.off + f.at[ci + 1] /\ pos' \in Nat
    BY <1>1, <1>3, <1>4 DEF IInv, TypeOK, LocalsOK, ChunkHead
  <1>8. f.base[ci + 1] = f.base[ci]
    BY <1>5
  <1>9. TypeOK'
    <2>1. ControlOK'
      BY <1>0, <1>1 DEF IInv, TypeOK, ControlOK
    <2>2. rec.count \in Nat
      BY DEF IInv, TypeOK, LocalsOK, RecordType
    <2>3. ci' \in Nat \ {0} /\ ci' <= rec'.count + 1
      BY <1>1, <1>3, <2>2
    <2>4. LocalsOK'
      BY <1>1, <1>2, <1>7, <2>3 DEF IInv, TypeOK, LocalsOK
    <2>5. FilesOK'
      BY <1>1, <1>2 DEF IInv, TypeOK, FilesOK
    <2> QED BY <2>1, <2>4, <2>5 DEF TypeOK
  <1>10. LocalsMatch'
    BY <1>0, <1>1, <1>2 DEF IInv, LocalsMatch, InFile, Walking
  <1>11. AtTheRightField'
    BY <1>1, <1>2, <1>7 DEF AtTheRightField
  <1>12. OutputsExact'
    BY <1>1, OutputsKept
  <1>13. DiskMatches'
    BY <1>0, <1>1, <1>2, <1>8 DEF IInv, DiskMatches, Running
  <1> QED BY <1>9, <1>10, <1>11, <1>12, <1>13 DEF IInv

LEMMA ReadStoredChunkInv ==
  ASSUME IInv, ReadStoredChunk
  PROVE  IInv'
  <1> DEFINE f == S.files[fi]
             c == f.chunks[ci]
  <1>0. pc = "chunk" /\ ci <= rec.count /\ hdr.algo = Stored
    BY DEF ReadStoredChunk
  <1>3. /\ which \in DOMAIN Sfxs /\ fi \in 1..N /\ ci \in 1..Len(f.chunks)
        /\ Len(f.chunks) = rec.count /\ Cell(pos) = ChunkCell(c)
        /\ c.csize \in Nat /\ c.usize \in Nat
        /\ S.off + f.at[ci + 1] = pos + ChunkHead + c.csize
    BY <1>0, AtChunk
  <1>4. S.algo = Stored
    BY <1>0, CurrentFile DEF InFile
  <1>5. c.usize = c.csize /\ f.base[ci + 1] = f.base[ci] + c.usize /\ f.base[ci] \in Nat
    BY <1>3, <1>4, ChunkFacts DEF ChunkFits
  <1>6. Cell(pos).usize = c.csize /\ Cell(pos).csize = c.csize
    BY <1>3, <1>5 DEF ChunkCell
  <1>1. UNCHANGED <<which, hdr, fi, rec, ci, buf, disk, skipped, child, code, fault>>
        /\ pc' = "copy" /\ pos' = pos + ChunkHead /\ left' = c.csize
    BY <1>6 DEF ReadStoredChunk, Check, Goto
  <1>2. /\ S' = S /\ N' = N /\ Names' = Names
        /\ ByteSeq' = ByteSeq /\ RecordType' = RecordType /\ FileType' = FileType
    BY <1>1, Frame
  <1>7. pos' \in Nat /\ pos' + left' = S.off + f.at[ci + 1]
    BY <1>1, <1>3 DEF IInv, TypeOK, LocalsOK, ChunkHead
  <1>8. TypeOK'
    <2>1. ControlOK'
      BY <1>0, <1>1 DEF IInv, TypeOK, ControlOK
    <2>2. LocalsOK'
      BY <1>0, <1>1, <1>2, <1>3, <1>7 DEF IInv, TypeOK, LocalsOK
    <2>3. FilesOK'
      BY <1>1, <1>2 DEF IInv, TypeOK, FilesOK
    <2> QED BY <2>1, <2>2, <2>3 DEF TypeOK
  <1>9. LocalsMatch'
    <2>1. left' <= c.csize
      BY <1>1, <1>3
    <2> QED BY <1>0, <1>1, <1>2, <1>4, <2>1 DEF IInv, LocalsMatch, InFile, Walking
  <1>10. AtTheRightField'
    BY <1>1, <1>2, <1>7 DEF AtTheRightField
  <1>11. OutputsExact'
    BY <1>1, OutputsKept
  <1>12. DiskMatches'
    <2>1. f.base[ci] + left' = f.base[ci + 1]
      BY <1>1, <1>5
    <2> QED BY <1>0, <1>1, <1>2, <2>1 DEF IInv, DiskMatches, Running
  <1> QED BY <1>8, <1>9, <1>10, <1>11, <1>12 DEF IInv

LEMMA CopyBytesInv ==
  ASSUME IInv, CopyBytes
  PROVE  IInv'
  <1> DEFINE f == S.files[fi]
             done == Len(disk[rec.name].data)
  <1>0. pc = "copy" /\ left \in Nat /\ pos \in Nat
    BY DEF CopyBytes, IInv, TypeOK, LocalsOK
  <1>1. PICK got \in 1..left :
          /\ Write([k \in 1..got |-> Cell(pos + k - 1).b])
          /\ pos' = pos + got /\ left' = left - got
          /\ UNCHANGED <<which, hdr, fi, rec, ci, buf, skipped, child, code, fault>>
          /\ pc' = "copy"
    <2>1. \A got \in 1..(IF left < BufSize THEN left ELSE BufSize) : got \in 1..left
      BY <1>0, CeilingsMatch
    <2> QED BY <2>1 DEF CopyBytes, Goto
  <1>2. /\ S' = S /\ N' = N /\ Names' = Names
        /\ ByteSeq' = ByteSeq /\ RecordType' = RecordType /\ FileType' = FileType
    BY <1>1, Frame
  <1>3. /\ which \in DOMAIN Sfxs /\ fi \in 1..N /\ rec.name = f.name /\ done \in Nat
        /\ f.usz \in Nat
    BY <1>0, CurrentFile, FileFacts DEF InFile
  <1>4. /\ \A k \in 1..left : Cell(pos + k - 1) = ByteCell(<<rec.name, done + k>>)
        /\ done + left <= f.usz
        /\ disk[rec.name].st = "open"
    BY <1>0, CopyWindow
  <1>5. Write(Slice(rec.name, done, got))
    <2>1. ASSUME NEW k \in 1..got PROVE Cell(pos + k - 1).b = <<rec.name, done + k>>
      <3>1. k \in 1..left
        BY <1>0
      <3>2. Cell(pos + k - 1) = ByteCell(<<rec.name, done + k>>)
        BY <1>4, <3>1
      <3> QED BY <3>2 DEF ByteCell
    <2>2. [k \in 1..got |-> Cell(pos + k - 1).b] = Slice(rec.name, done, got)
      BY <2>1 DEF Slice
    <2> QED BY <1>1, <2>2
  <1>6. done + got <= f.usz /\ got \in Nat
    <2>1. \A d, l, g, u \in Nat : g <= l /\ d + l <= u => d + g <= u
      OBVIOUS
    <2>2. got \in Nat /\ got <= left
      BY <1>0
    <2> HIDE DEF done, f
    <2> QED BY <1>0, <1>3, <1>4, <2>1, <2>2
  <1>7. /\ OutputsExact' /\ disk' \in [Names -> FileType]
        /\ disk'[f.name].st = "open" /\ Len(disk'[f.name].data) = done + got
        /\ \A j \in 1..N : j # fi => disk'[S.files[j].name] = disk[S.files[j].name]
    BY <1>0, <1>1, <1>4, <1>5, <1>6, FileGrows
  <1>8. TypeOK'
    <2>1. ControlOK'
      BY <1>1 DEF IInv, TypeOK, ControlOK
    <2>2. pos' \in Nat /\ left' \in Nat
      BY <1>0, <1>1
    <2>3. LocalsOK'
      BY <1>0, <1>1, <1>2, <2>2 DEF IInv, TypeOK, LocalsOK
    <2>4. FilesOK'
      BY <1>1, <1>2, <1>7 DEF IInv, TypeOK, FilesOK
    <2> QED BY <2>1, <2>3, <2>4 DEF TypeOK
  <1>9. LocalsMatch'
    <2>1. S.algo = Stored /\ left <= f.chunks[ci].csize
      BY <1>0 DEF IInv, LocalsMatch
    <2>2. f.chunks[ci].csize \in Nat
      <3>1. ci \in 1..Len(f.chunks)
        BY <1>0, <1>3, CurrentFile, FileFacts DEF InFile, IInv, TypeOK, LocalsOK
      <3> QED BY <1>3, <3>1, ChunkFacts DEF ChunkFits
    <2>3. left' <= f.chunks[ci].csize
      BY <1>0, <1>1, <2>1, <2>2
    <2> QED BY <1>0, <1>1, <1>2, <2>1, <2>3 DEF IInv, LocalsMatch, InFile, Walking
  <1>10. AtTheRightField'
    <2>1. pos' + left' = pos + left
      BY <1>0, <1>1
    <2> QED BY <1>0, <1>1, <1>2, <2>1 DEF IInv, AtTheRightField
  <1>11. DiskMatches'
    <2>1. done + left = f.base[ci + 1]
      BY <1>0, <1>3 DEF IInv, DiskMatches
    <2>2. Len(disk'[f.name].data) + left' = f.base[ci + 1]
      BY <1>0, <1>1, <1>3, <1>7, <2>1
    <2>3. fi \notin skipped
      BY <1>0, <1>3 DEF IInv, DiskMatches, Running
    <2> QED BY <1>0, <1>1, <1>2, <1>7, <2>2, <2>3 DEF IInv, DiskMatches, Running
  <1> QED BY <1>7, <1>8, <1>9, <1>10, <1>11 DEF IInv

LEMMA CopyDoneInv ==
  ASSUME IInv, CopyDone
  PROVE  IInv'
  <1> DEFINE f == S.files[fi]
  <1>1. UNCHANGED <<which, pos, hdr, fi, rec, left, buf, disk, skipped, child, code, fault>>
        /\ pc = "copy" /\ pc' = "chunk" /\ left = 0 /\ ci' = ci + 1
    BY DEF CopyDone, Goto
  <1>2. /\ S' = S /\ N' = N /\ Names' = Names
        /\ ByteSeq' = ByteSeq /\ RecordType' = RecordType /\ FileType' = FileType
    BY <1>1, Frame
  <1>3. which \in DOMAIN Sfxs /\ fi \in 1..N /\ Len(disk[f.name].data) \in Nat
    BY <1>1, CurrentFile DEF InFile
  <1>4. pos = S.off + f.at[ci + 1]
    BY <1>1 DEF IInv, AtTheRightField, TypeOK, LocalsOK
  <1>5. TypeOK'
    <2>1. ControlOK'
      BY <1>1 DEF IInv, TypeOK, ControlOK
    <2>2. rec.count \in Nat
      BY DEF IInv, TypeOK, LocalsOK, RecordType
    <2>3. LocalsOK'
      BY <1>1, <1>2, <2>2 DEF IInv, TypeOK, LocalsOK
    <2>4. FilesOK'
      BY <1>1, <1>2 DEF IInv, TypeOK, FilesOK
    <2> QED BY <2>1, <2>3, <2>4 DEF TypeOK
  <1>6. LocalsMatch'
    BY <1>1, <1>2 DEF IInv, LocalsMatch, InFile, Walking
  <1>7. AtTheRightField'
    BY <1>1, <1>2, <1>4 DEF AtTheRightField
  <1>8. OutputsExact'
    BY <1>1, OutputsKept
  <1>9. DiskMatches'
    <2>1. Len(disk[f.name].data) = f.base[ci + 1]
      BY <1>1, <1>3 DEF IInv, DiskMatches
    <2> QED BY <1>1, <1>2, <2>1 DEF IInv, DiskMatches, Running
  <1> QED BY <1>5, <1>6, <1>7, <1>8, <1>9 DEF IInv

LEMMA ReadPackedChunkInv ==
  ASSUME IInv, ReadPackedChunk
  PROVE  IInv'
  <1> DEFINE f == S.files[fi]
             c == f.chunks[ci]
             plain == Slice(f.name, f.base[ci], c.usize)
  <1>0. pc = "chunk" /\ ci <= rec.count /\ hdr.algo # Stored /\ Cell(pos).csize # 0
    BY DEF ReadPackedChunk
  <1>3. /\ which \in DOMAIN Sfxs /\ fi \in 1..N /\ ci \in 1..Len(f.chunks)
        /\ Len(f.chunks) = rec.count /\ Cell(pos) = ChunkCell(c)
        /\ c.csize \in Nat /\ c.usize \in Nat
        /\ pos = S.off + f.at[ci]
        /\ S.off + f.at[ci + 1] = pos + ChunkHead + c.csize
    BY <1>0, AtChunk
  <1>4. S.algo # Stored /\ S.algo \in Algorithms /\ S.stub = StubFor(S.algo)
    BY <1>0, <1>3, CurrentFile, ImageFacts DEF InFile
  <1>5. Cell(pos).usize = c.usize /\ Cell(pos).csize = c.csize /\ c.csize > 0
    BY <1>0, <1>3 DEF ChunkCell
  <1>6. /\ c.usize <= MaxInput[S.algo] /\ c.csize <= MaxPacked[S.algo]
        /\ f.base[ci] \in Nat
        /\ Cell(S.off + f.at[ci] + ChunkHead) = PackedCell(plain)
    BY <1>3, <1>4, <1>5, ChunkFacts DEF ChunkFits
  <1>7. c.usize <= BufSize /\ c.csize <= SrcSize[S.stub]
    <2>1. MaxInput[S.algo] <= BufSize /\ MaxPacked[S.algo] <= SrcSize[S.stub]
      BY <1>4, CeilingsMatch
    <2>2. SrcSize[S.stub] \in Nat /\ MaxInput[S.algo] \in Nat /\ MaxPacked[S.algo] \in Nat
          /\ BufSize \in Nat
      BY <1>4, CeilingsMatch DEF StubFor
    <2> QED BY <1>3, <1>6, <2>1, <2>2, SMTT(60)
  <1>8. Len(plain) = c.usize /\ plain \in ByteSeq
    <2>1. /\ Len(plain) = c.usize
          /\ plain \in Seq({f.name} \X (Nat \ {0}))
      BY <1>3, <1>6, SliceLen
    <2>2. {f.name} \X (Nat \ {0}) \subseteq Names \X (Nat \ {0})
      BY <1>3, FileFacts
    <2> QED BY <2>1, <2>2 DEF ByteSeq
  <1>9. Cell(pos + ChunkHead).plain = plain
    BY <1>3, <1>6 DEF PackedCell
  <1> HIDE DEF plain
  <1>1. UNCHANGED <<which, hdr, fi, rec, ci, left, disk, skipped, child, code, fault>>
        /\ pc' = "write" /\ pos' = pos + ChunkHead + c.csize /\ buf' = plain
    BY <1>5, <1>7, <1>8, <1>9 DEF ReadPackedChunk, Check, Goto
  <1>2. /\ S' = S /\ N' = N /\ Names' = Names
        /\ ByteSeq' = ByteSeq /\ RecordType' = RecordType /\ FileType' = FileType
    BY <1>1, Frame
  <1>10. pos' \in Nat /\ pos' = S.off + f.at[ci + 1]
    <2>1. pos \in Nat /\ c.csize \in Nat
      BY <1>3 DEF IInv, TypeOK, LocalsOK
    <2>2. pos' = S.off + f.at[ci + 1]
      BY <1>1, <1>3
    <2> HIDE DEF c
    <2>3. pos' \in Nat
      BY <1>1, <2>1 DEF ChunkHead
    <2> QED BY <2>2, <2>3
  <1>11. TypeOK'
    <2>1. ControlOK'
      BY <1>0, <1>1 DEF IInv, TypeOK, ControlOK
    <2>2. LocalsOK'
      BY <1>0, <1>1, <1>2, <1>10 DEF IInv, TypeOK, LocalsOK
    <2>3. FilesOK'
      BY <1>1, <1>2, <1>7, <1>8 DEF IInv, TypeOK, FilesOK
    <2> QED BY <2>1, <2>2, <2>3 DEF TypeOK
  <1>12. LocalsMatch'
    BY <1>0, <1>1, <1>2 DEF IInv, LocalsMatch, InFile, Walking, plain
  <1>13. AtTheRightField'
    BY <1>1, <1>2, <1>10 DEF AtTheRightField
  <1>14. OutputsExact'
    BY <1>1, OutputsKept
  <1>15. DiskMatches'
    BY <1>0, <1>1, <1>2 DEF IInv, DiskMatches, Running
  <1> QED BY <1>11, <1>12, <1>13, <1>14, <1>15 DEF IInv

\* The chunk waiting in the buffer is the next one of the output file.
LEMMA WriteWindow ==
  ASSUME IInv, pc = "write"
  PROVE  LET f == S.files[fi]
             n == f.chunks[ci].usize
         IN  /\ fi \in 1..N /\ rec.name = f.name /\ n \in Nat
             /\ ci <= rec.count /\ rec.count \in Nat
             /\ buf = Slice(rec.name, Len(disk[rec.name].data), n)
             /\ Len(disk[rec.name].data) \in Nat
             /\ Len(disk[rec.name].data) + n = f.base[ci + 1]
             /\ f.base[ci + 1] <= f.usz /\ f.usz \in Nat
             /\ disk[rec.name].st = "open"
  <1> DEFINE f == S.files[fi]
  <1>1. /\ which \in DOMAIN Sfxs /\ fi \in 1..N
        /\ rec.name = f.name /\ rec.count = Len(f.chunks)
        /\ Len(disk[rec.name].data) \in Nat
    BY CurrentFile DEF InFile
  <1>2. rec.count \in Nat /\ f.usz \in Nat
    BY <1>1, FileFacts
  <1>3. ci \in 1..Len(f.chunks)
    BY <1>1, <1>2 DEF IInv, TypeOK, LocalsOK
  <1>4. disk[rec.name].st = "open" /\ Len(disk[rec.name].data) = f.base[ci]
    BY <1>1 DEF IInv, DiskMatches
  <1>5. buf = Slice(f.name, f.base[ci], f.chunks[ci].usize)
    BY DEF IInv, LocalsMatch
  <1>6. /\ f.chunks[ci].usize \in Nat /\ f.base[ci + 1] <= f.usz
        /\ f.base[ci + 1] = f.base[ci] + f.chunks[ci].usize
    BY <1>1, <1>3, ChunkFacts DEF ChunkFits
  <1> QED BY <1>1, <1>2, <1>3, <1>4, <1>5, <1>6, SMTT(30), ZenonT(30)

LEMMA WriteBufferInv ==
  ASSUME IInv, WriteBuffer
  PROVE  IInv'
  <1> DEFINE f == S.files[fi]
             done == Len(disk[rec.name].data)
             n == f.chunks[ci].usize
  <1>1. UNCHANGED <<which, pos, hdr, fi, rec, left, buf, skipped, child, code, fault>>
        /\ pc = "write" /\ pc' = "chunk" /\ ci' = ci + 1 /\ Write(buf)
    BY DEF WriteBuffer, Goto
  <1>2. /\ S' = S /\ N' = N /\ Names' = Names
        /\ ByteSeq' = ByteSeq /\ RecordType' = RecordType /\ FileType' = FileType
    BY <1>1, Frame
  <1>3. /\ fi \in 1..N /\ rec.name = f.name /\ n \in Nat
        /\ ci <= rec.count /\ rec.count \in Nat
        /\ buf = Slice(rec.name, done, n)
        /\ done + n = f.base[ci + 1] /\ f.base[ci + 1] <= f.usz
        /\ disk[rec.name].st = "open"
    BY <1>1, WriteWindow
  <1>4. /\ OutputsExact' /\ disk' \in [Names -> FileType]
        /\ disk'[f.name].st = "open" /\ Len(disk'[f.name].data) = done + n
        /\ \A j \in 1..N : j # fi => disk'[S.files[j].name] = disk[S.files[j].name]
    BY <1>1, <1>3, FileGrows
  <1>5. TypeOK'
    <2>1. ControlOK'
      BY <1>1 DEF IInv, TypeOK, ControlOK
    <2>2. LocalsOK'
      <3>1. ci' \in Nat \ {0} /\ ci' <= rec'.count + 1
        <4>1. ci \in Nat \ {0}
          BY Zenon DEF IInv, TypeOK, LocalsOK
        <4>2. ci' = ci + 1 /\ rec' = rec /\ ci <= rec.count /\ rec.count \in Nat
          BY <1>1, <1>3, Zenon
        <4>3. ci + 1 \in Nat \ {0} /\ ci + 1 <= rec.count + 1
          <5> HIDE DEF f, done, n
          <5> QED BY <4>1, <4>2
        <4> QED BY <4>2, <4>3, Zenon
      <3>2. /\ pos' \in Nat /\ hdr' \in HeaderType /\ rec' \in RecordType' /\ left' \in Nat
            /\ fi' \in 1..(N' + 1)
        BY <1>1, <1>2 DEF IInv, TypeOK, LocalsOK
      <3> QED BY <1>1, <3>1, <3>2 DEF LocalsOK, HeaderType
    <2>3. FilesOK'
      BY <1>1, <1>2, <1>4 DEF IInv, TypeOK, FilesOK
    <2> QED BY <2>1, <2>2, <2>3 DEF TypeOK
  <1>6. LocalsMatch'
    BY <1>1, <1>2 DEF IInv, LocalsMatch, InFile, Walking
  <1>7. AtTheRightField'
    BY <1>1, <1>2 DEF IInv, AtTheRightField
  <1>8. DiskMatches'
    <2>1. fi \notin skipped
      BY <1>1, <1>3 DEF IInv, DiskMatches, Running
    <2> QED BY <1>1, <1>2, <1>3, <1>4, <2>1, ZenonT(60) DEF IInv, DiskMatches, Running
  <1> QED BY <1>4, <1>5, <1>6, <1>7, <1>8 DEF IInv

LEMMA CloseFileInv ==
  ASSUME IInv, CloseFile
  PROVE  IInv'
  <1> DEFINE f == S.files[fi]
  <1>1. UNCHANGED <<which, hdr, rec, ci, left, buf, skipped, child, code, fault>>
        /\ pc = "chunk" /\ pc' = "record" /\ fi' = fi + 1 /\ ci > rec.count
        /\ pos' = pos + CrcSize
    BY DEF CloseFile, Goto
  <1>2. /\ S' = S /\ N' = N /\ Names' = Names
        /\ ByteSeq' = ByteSeq /\ RecordType' = RecordType /\ FileType' = FileType
    BY <1>1, Frame
  <1>3. /\ which \in DOMAIN Sfxs /\ fi \in 1..N /\ pos' = S.off + S.at[fi + 1]
        /\ ci = Len(f.chunks) + 1
    BY <1>1, AtCrc
  <1>4. /\ rec.name = f.name /\ rec.stamp = f.stamp /\ disk[f.name] \in FileType
        /\ disk[f.name].data = Bytes(f.name, Len(disk[f.name].data))
    BY <1>1, CurrentFile DEF InFile
  <1>5. N \in Nat /\ f.usz \in Nat /\ f.stamp \in Nat /\ f.base[ci] = f.usz /\ f.name \in Names
    BY <1>3, ImageFacts, FileFacts
  <1>6. Len(disk[f.name].data) = f.usz
    BY <1>1, <1>3, <1>5 DEF IInv, DiskMatches
  <1>7. PICK stamp \in {0, f.stamp} :
          disk' = [disk EXCEPT ![f.name].st = "closed", ![f.name].stamp = stamp]
    BY <1>4 DEF CloseFile
  <1> DEFINE o == [disk[f.name] EXCEPT !.st = "closed", !.stamp = stamp]
  <1>8. disk' = [disk EXCEPT ![f.name] = o]
    BY <1>5, <1>7 DEF IInv, TypeOK, FilesOK
  <1>9. /\ o \in FileType /\ o.st = "closed" /\ o.data = disk[f.name].data
        /\ o.stamp \in {0, f.stamp}
    <2>1. stamp \in Nat
      BY <1>5
    <2>2. disk[f.name] \in [st : {"untouched", "open", "closed"}, data : ByteSeq, stamp : Nat]
      BY <1>4 DEF FileType
    <2>3. o.st = "closed" /\ o.data = disk[f.name].data /\ o.stamp = stamp
      BY <2>2
    <2>4. o \in FileType
      BY <2>1, <2>2 DEF FileType
    <2> QED BY <2>3, <2>4
  <1> HIDE DEF o
  <1>10. /\ disk' \in [Names -> FileType] /\ disk'[f.name] = o
         /\ \A j \in 1..N : j # fi => disk'[S.files[j].name] = disk[S.files[j].name]
    BY <1>3, <1>8, <1>9, OneFileChanges
  <1>11. TypeOK'
    <2>1. ControlOK'
      BY <1>1 DEF IInv, TypeOK, ControlOK
    <2>2. LocalsOK'
      BY <1>1, <1>2, <1>3, <1>5 DEF IInv, TypeOK, LocalsOK, CrcSize
    <2>3. FilesOK'
      BY <1>1, <1>2, <1>10 DEF IInv, TypeOK, FilesOK
    <2> QED BY <2>1, <2>2, <2>3 DEF TypeOK
  <1>12. LocalsMatch'
    BY <1>1, <1>2 DEF IInv, LocalsMatch, InFile, Walking
  <1>13. AtTheRightField'
    BY <1>1, <1>2, <1>3 DEF AtTheRightField
  <1>14. OutputsExact'
    <2>1. Len(o.data) <= f.usz /\ o.data = Bytes(f.name, Len(o.data)) /\ Len(o.data) = f.usz
      BY <1>4, <1>5, <1>6, <1>9
    <2> QED BY <1>1, <1>3, <1>8, <1>9, <2>1, OutputsUpdated
  <1>15. DiskMatches'
    <2> SUFFICES ASSUME NEW j \in 1..N
                 PROVE  /\ j < fi + 1 => j \in skipped \/ disk'[S.files[j].name].st = "closed"
                        /\ j = fi + 1 => disk'[S.files[j].name] = Untouched /\ j \notin skipped
                        /\ j \in skipped => j <= fi + 1 /\ disk'[S.files[j].name] = Untouched
      BY <1>1, <1>2 DEF DiskMatches, Running
    <2>1. CASE j = fi
      <3>1. fi \notin skipped
        BY <1>1, <1>3 DEF IInv, DiskMatches, Running
      <3> QED BY <1>3, <1>9, <1>10, <2>1, <3>1
    <2>2. CASE j # fi
      <3>1. disk'[S.files[j].name] = disk[S.files[j].name]
        BY <1>10, <2>2
      <3>2. (j < fi + 1 => j < fi) /\ (j = fi + 1 => j > fi /\ ~(j <= fi)) /\ (j <= fi => j <= fi + 1)
        BY <1>3, <1>5, <2>2
      <3> QED BY <1>1, <3>1, <3>2 DEF IInv, DiskMatches, OutputsExact, Running
    <2> QED BY <2>1, <2>2
  <1> QED BY <1>11, <1>12, <1>13, <1>14, <1>15 DEF IInv

\* Every way main() ends, or power is lost, when the files and the locals stay as they are.
LEMMA EndInv ==
  ASSUME IInv, pc' \in {"exit", "off"}, ControlOK',
         UNCHANGED <<which, pos, hdr, fi, rec, ci, left, buf, disk, skipped>>
  PROVE  IInv'
  <1>1. which' = which
    OBVIOUS
  <1>2. /\ S' = S /\ N' = N /\ Names' = Names
        /\ ByteSeq' = ByteSeq /\ RecordType' = RecordType /\ FileType' = FileType
    BY <1>1, Frame
  <1>3. TypeOK'
    <2>1. LocalsOK'
      BY <1>2 DEF IInv, TypeOK, LocalsOK
    <2>2. FilesOK'
      BY <1>2 DEF IInv, TypeOK, FilesOK
    <2> QED BY <2>1, <2>2 DEF TypeOK
  <1>4. LocalsMatch' /\ AtTheRightField'
    BY DEF LocalsMatch, AtTheRightField, InFile, Walking
  <1>5. OutputsExact'
    BY OutputsKept
  <1>6. DiskMatches'
    BY <1>2 DEF IInv, DiskMatches, Running
  <1> QED BY <1>3, <1>4, <1>5, <1>6 DEF IInv

LEMMA ReadCommandInv ==
  ASSUME IInv, ReadCommand
  PROVE  IInv'
  <1>1. UNCHANGED <<which, hdr, fi, rec, ci, left, buf, disk, skipped, child, code, fault>>
        /\ pc = "record" /\ pc' = "exec" /\ fi > hdr.count /\ hdr.flag
        /\ pos' = hdr.off + hdr.run
    BY DEF ReadCommand, Goto
  <1>2. /\ S' = S /\ N' = N /\ Names' = Names
        /\ ByteSeq' = ByteSeq /\ RecordType' = RecordType /\ FileType' = FileType
    BY <1>1, Frame
  <1>3. which \in DOMAIN Sfxs
    BY DEF IInv, TypeOK, ControlOK
  <1>4. hdr.off = S.off /\ hdr.count = N /\ hdr.flag = S.flag /\ (S.flag => hdr.run = S.at[N + 1])
    BY <1>1 DEF IInv, LocalsMatch, Walking
  <1>5. fi = N + 1
    <2>1. N \in Nat
      BY <1>3, ImageFacts
    <2> QED BY <1>1, <1>4, <2>1 DEF IInv, TypeOK, LocalsOK
  <1>6. pos' = S.off + S.at[N + 1] /\ pos' \in Nat
    BY <1>1, <1>3, <1>4, ImageFacts
  <1>7. TypeOK'
    <2>1. ControlOK'
      BY <1>1 DEF IInv, TypeOK, ControlOK
    <2>2. LocalsOK'
      BY <1>1, <1>2, <1>6 DEF IInv, TypeOK, LocalsOK
    <2>3. FilesOK'
      BY <1>1, <1>2 DEF IInv, TypeOK, FilesOK
    <2> QED BY <2>1, <2>2, <2>3 DEF TypeOK
  <1>8. LocalsMatch'
    BY <1>1, <1>2, <1>5 DEF IInv, LocalsMatch, InFile, Walking
  <1>9. AtTheRightField'
    BY <1>1, <1>2, <1>6 DEF AtTheRightField
  <1>10. OutputsExact'
    BY <1>1, OutputsKept
  <1>11. DiskMatches'
    BY <1>1, <1>2 DEF IInv, DiskMatches, Running
  <1> QED BY <1>7, <1>8, <1>9, <1>10, <1>11 DEF IInv

LEMMA ExecLoadsInv ==
  ASSUME IInv, ExecLoads
  PROVE  IInv'
  <1>1. UNCHANGED <<which, pos, hdr, fi, rec, ci, left, buf, disk, skipped, code, fault>>
        /\ pc = "exec" /\ pc' = "child" /\ child' = "running"
    BY DEF ExecLoads, Goto
  <1>2. /\ S' = S /\ N' = N /\ Names' = Names
        /\ ByteSeq' = ByteSeq /\ RecordType' = RecordType /\ FileType' = FileType
    BY <1>1, Frame
  <1>3. TypeOK'
    <2>1. ControlOK'
      BY <1>1 DEF IInv, TypeOK, ControlOK
    <2>2. LocalsOK'
      BY <1>1, <1>2 DEF IInv, TypeOK, LocalsOK
    <2>3. FilesOK'
      BY <1>1, <1>2 DEF IInv, TypeOK, FilesOK
    <2> QED BY <2>1, <2>2, <2>3 DEF TypeOK
  <1>4. LocalsMatch'
    BY <1>1, <1>2 DEF IInv, LocalsMatch, InFile, Walking
  <1>5. AtTheRightField'
    BY <1>1 DEF AtTheRightField
  <1>6. OutputsExact'
    BY <1>1, OutputsKept
  <1>7. DiskMatches'
    BY <1>1, <1>2 DEF IInv, DiskMatches, Running
  <1> QED BY <1>3, <1>4, <1>5, <1>6, <1>7 DEF IInv

\* A run that ends while a file is open: what is left of it is a prefix.
LEMMA EndWithPartialFile ==
  ASSUME IInv, pc' \in {"exit", "off"}, ControlOK', OutputsExact',
         disk' \in [Names -> FileType],
         fi \in 1..N, fi \notin skipped,
         \A j \in 1..N : j # fi => disk'[S.files[j].name] = disk[S.files[j].name],
         UNCHANGED <<which, pos, hdr, fi, rec, ci, left, buf, skipped>>
  PROVE  IInv'
  <1>1. which' = which
    OBVIOUS
  <1>2. /\ S' = S /\ N' = N /\ Names' = Names
        /\ ByteSeq' = ByteSeq /\ RecordType' = RecordType /\ FileType' = FileType
    BY <1>1, Frame
  <1>3. TypeOK'
    <2>1. LocalsOK'
      BY <1>2 DEF IInv, TypeOK, LocalsOK
    <2>2. FilesOK'
      BY <1>2 DEF IInv, TypeOK, FilesOK
    <2> QED BY <2>1, <2>2 DEF TypeOK
  <1>4. LocalsMatch' /\ AtTheRightField'
    BY DEF LocalsMatch, AtTheRightField, InFile, Walking
  <1>5. DiskMatches'
    BY <1>2 DEF IInv, DiskMatches, Running
  <1> QED BY <1>3, <1>4, <1>5 DEF IInv

LEMMA ShortWriteInv ==
  ASSUME IInv, ShortWrite
  PROVE  IInv'
  <1> DEFINE done == Len(disk[rec.name].data)
             n == IF left < BufSize THEN left ELSE BufSize
             pending == IF pc = "write" THEN buf
                        ELSE [k \in 1..n |-> Cell(pos + k - 1).b]
  <1>1. PICK wrote \in 0..(Len(pending) - 1) : Write(SubSeq(pending, 1, wrote))
    BY DEF ShortWrite
  <1>2. UNCHANGED <<which, pos, hdr, fi, rec, ci, left, buf, skipped, child>>
        /\ pc \in {"copy", "write"} /\ pc' = "exit" /\ code' = 1 /\ fault' = TRUE
    BY DEF ShortWrite
  <1>3. ControlOK'
    BY <1>2 DEF IInv, TypeOK, ControlOK
  <1>4. fi \in 1..N /\ rec.name = S.files[fi].name /\ done \in Nat /\ S.files[fi].usz \in Nat
    BY <1>2, CurrentFile, FileFacts DEF InFile
  <1>5. disk[rec.name].st = "open" /\ fi \notin skipped
    BY <1>2, <1>4 DEF IInv, DiskMatches, Running
  <1>6. /\ wrote \in Nat
        /\ Write(Slice(rec.name, done, wrote))
        /\ done + wrote <= S.files[fi].usz
    <2>0. \A d, l, x, u \in Nat : x <= l /\ d + l <= u => d + x <= u
      OBVIOUS
    <2>1. CASE pc = "write"
      <3> DEFINE u == S.files[fi].chunks[ci].usize
      <3>1. /\ u \in Nat /\ pending = Slice(rec.name, done, u)
            /\ done + u <= S.files[fi].usz
        BY <2>1, WriteWindow
      <3> HIDE DEF u, pending, done
      <3>2. /\ wrote \in Nat /\ done + wrote <= S.files[fi].usz
            /\ SubSeq(pending, 1, wrote) = Slice(rec.name, done, wrote)
        <4>1. Len(Slice(rec.name, done, u)) = u
          BY <1>4, <3>1, SliceLen
        <4>2. wrote \in 0..(u - 1) /\ u \in Nat
          BY <1>1, <3>1, <3>1, <4>1
        <4>3. wrote \in 0..u /\ wrote \in Nat /\ wrote <= u
          BY <4>2
        <4>4. SubSeq(pending, 1, wrote) = Slice(rec.name, done, wrote)
          BY <1>4, <3>1, <4>2, <4>3, SlicePrefix
        <4>5. done + wrote <= S.files[fi].usz
          BY <1>4, <3>1, <2>0, <4>3
        <4> QED BY <4>3, <4>4, <4>5
      <3> QED BY <1>1, <3>2 DEF done
    <2>2. CASE pc = "copy"
      <3>1. /\ \A k \in 1..left : Cell(pos + k - 1) = ByteCell(<<rec.name, done + k>>)
            /\ done + left <= S.files[fi].usz /\ left \in Nat
        BY <2>2, CopyWindow
      <3>2. n \in Nat /\ n <= left
        BY <3>1, CeilingsMatch
      <3>3. pending = Slice(rec.name, done, n)
        <4>1. ASSUME NEW k \in 1..n PROVE Cell(pos + k - 1).b = <<rec.name, done + k>>
          <5>1. k \in 1..left
            BY <3>1, <3>2
          <5>2. Cell(pos + k - 1) = ByteCell(<<rec.name, done + k>>)
            BY <3>1, <5>1
          <5> QED BY <5>2 DEF ByteCell
        <4>2. pending = [k \in 1..n |-> Cell(pos + k - 1).b]
          BY <2>2
        <4> HIDE DEF n, pending
        <4> QED BY <4>1, <4>2 DEF Slice
      <3> HIDE DEF n, pending, done
      <3>5. done + n <= S.files[fi].usz
        BY <1>4, <3>1, <3>2, <2>0
      <3>6. /\ wrote \in Nat /\ done + wrote <= S.files[fi].usz
            /\ SubSeq(pending, 1, wrote) = Slice(rec.name, done, wrote)
        <4>1. Len(Slice(rec.name, done, n)) = n
          BY <1>4, <3>2, SliceLen
        <4>2. wrote \in 0..(n - 1) /\ n \in Nat
          BY <1>1, <3>2, <3>3, <4>1
        <4>3. wrote \in 0..n /\ wrote \in Nat /\ wrote <= n
          BY <4>2
        <4>4. SubSeq(pending, 1, wrote) = Slice(rec.name, done, wrote)
          BY <1>4, <3>3, <4>2, <4>3, SlicePrefix
        <4>5. done + wrote <= S.files[fi].usz
          BY <1>4, <3>2, <3>5, <2>0, <4>3
        <4> QED BY <4>3, <4>4, <4>5
      <3> QED BY <1>1, <3>6 DEF done
    <2> QED BY <1>2, <2>1, <2>2
  <1> HIDE DEF pending, n
  <1>7. /\ OutputsExact' /\ disk' \in [Names -> FileType]
        /\ \A j \in 1..N : j # fi => disk'[S.files[j].name] = disk[S.files[j].name]
    BY <1>2, <1>5, <1>6, FileGrows
  <1> QED BY <1>2, <1>3, <1>4, <1>5, <1>7, EndWithPartialFile

LEMMA PowerLossInv ==
  ASSUME IInv, PowerLoss
  PROVE  IInv'
  <1>1. UNCHANGED <<which, pos, hdr, fi, rec, ci, left, buf, skipped, child, code>>
        /\ Running /\ pc' = "off" /\ fault' = TRUE
    BY DEF PowerLoss, Running
  <1>2. ControlOK'
    BY <1>1 DEF IInv, TypeOK, ControlOK
  <1>3. CASE disk' = disk
    BY <1>1, <1>2, <1>3, EndInv
  <1>4. CASE rec.name \in Names /\ disk[rec.name].st = "open"
    <2>1. which \in DOMAIN Sfxs /\ N \in Nat
      BY ImageFacts DEF IInv, TypeOK, ControlOK
    <2>2. PICK j \in 1..N : rec.name = S.files[j].name
      BY <1>4 DEF Names
    <2>3. j = fi
      <3>1. disk[rec.name] # Untouched
        BY <1>4 DEF Untouched
      <3>2. ~(j > fi)
        BY <2>2, <3>1 DEF IInv, OutputsExact
      <3>3. ~(j < fi)
        BY <1>1, <1>4, <2>2, <3>1 DEF IInv, DiskMatches
      <3> QED BY <2>1, <3>2, <3>3 DEF IInv, TypeOK, LocalsOK
    <2> DEFINE name == S.files[fi].name
               m == Len(disk[name].data)
    <2>4. fi \in 1..N /\ rec.name = name
      BY <2>2, <2>3
    <2>5. fi \notin skipped
      BY <1>4, <2>4 DEF IInv, DiskMatches, Untouched
    <2>6. /\ disk[name] \in FileType /\ m \in Nat /\ m <= S.files[fi].usz
          /\ disk[name].data = Bytes(name, m) /\ S.files[fi].usz \in Nat
      <3>1. disk[name] \in FileType
        BY <1>4, <2>4 DEF IInv, TypeOK, FilesOK
      <3>2. disk[name].data \in ByteSeq
        BY <3>1 DEF FileType
      <3>3. m \in Nat
        BY <3>2, SMTT(60) DEF ByteSeq
      <3>4. m <= S.files[fi].usz /\ disk[name].data = Bytes(name, m)
        BY <2>4 DEF IInv, OutputsExact
      <3> QED BY <2>1, <2>4, <3>1, <3>3, <3>4, FileFacts
    <2>7. PICK kept \in 0..m : disk' = [disk EXCEPT ![name].data = SubSeq(@, 1, kept)]
      BY <1>4, <2>4 DEF PowerLoss
    <2> DEFINE o == [disk[name] EXCEPT !.data = Bytes(name, kept)]
    <2>8. disk' = [disk EXCEPT ![name] = o]
      <3>1. SubSeq(disk[name].data, 1, kept) = Bytes(name, kept)
        BY <2>6, BytesPrefix
      <3> QED BY <1>4, <2>4, <2>7, <3>1 DEF IInv, TypeOK, FilesOK
    <2>9. Len(Bytes(name, kept)) = kept /\ Bytes(name, kept) \in ByteSeq
      <3>1. kept \in Nat
        BY <2>6
      <3>2. /\ Len(Bytes(name, kept)) = kept
            /\ Bytes(name, kept) \in Seq({name} \X (Nat \ {0}))
        BY <3>1, BytesLen
      <3>3. {name} \X (Nat \ {0}) \subseteq Names \X (Nat \ {0})
        BY <1>4, <2>4
      <3> QED BY <3>2, <3>3 DEF ByteSeq
    <2>10. o \in FileType /\ o.st = "open" /\ o.data = Bytes(name, kept)
      BY <1>4, <2>4, <2>6, <2>9 DEF FileType
    <2>11. Len(o.data) <= S.files[fi].usz /\ o.data = Bytes(name, Len(o.data))
      BY <2>6, <2>9, <2>10
    <2> HIDE DEF o
    <2>12. /\ disk' \in [Names -> FileType]
           /\ \A k \in 1..N : k # fi => disk'[S.files[k].name] = disk[S.files[k].name]
      BY <2>4, <2>8, <2>10, OneFileChanges
    <2>13. OutputsExact'
      BY <1>1, <2>4, <2>8, <2>10, <2>11, OutputsUpdated
    <2> QED BY <1>1, <1>2, <2>4, <2>5, <2>12, <2>13, EndWithPartialFile
  <1> QED BY <1>3, <1>4 DEF PowerLoss

\* Every step of the stub or of its surroundings keeps the invariant.
LEMMA StepInv ==
  ASSUME IInv, [Next]_vars
  PROVE  IInv'
  <1>1. CASE ReadTrailer \/ ReadHeader
    BY <1>1, ReadTrailerInv, ReadHeaderInv
  <1>2. CASE ReadRecord \/ Create \/ CannotCreate \/ SkipChunk \/ SkipCrc
    BY <1>2, ReadRecordInv, CreateInv, CannotCreateInv, SkipChunkInv, SkipCrcInv
  <1>3. CASE ReadEmptyChunk \/ ReadStoredChunk \/ CopyBytes \/ CopyDone
    BY <1>3, ReadEmptyChunkInv, ReadStoredChunkInv, CopyBytesInv, CopyDoneInv
  <1>4. CASE ReadPackedChunk \/ WriteBuffer \/ CloseFile
    BY <1>4, ReadPackedChunkInv, WriteBufferInv, CloseFileInv
  <1>5. CASE ReadCommand \/ ExecLoads
    BY <1>5, ReadCommandInv, ExecLoadsInv
  <1>6. CASE ExitWithoutCommand \/ CommandUnreadable \/ ExecFails \/ ChildReturns \/ IoError
    <2>1. /\ UNCHANGED <<which, pos, hdr, fi, rec, ci, left, buf, disk, skipped>>
          /\ pc' = "exit" /\ Running
      BY <1>6 DEF ExitWithoutCommand, CommandUnreadable, ExecFails, ChildReturns, IoError,
                  Done, Running
    <2>2. child' \in {child, "unloadable", "returned"} /\ code' \in {0, 1}
          /\ fault' \in {fault, TRUE}
      BY <1>6 DEF ExitWithoutCommand, CommandUnreadable, ExecFails, ChildReturns, IoError, Done
    <2>3. ControlOK'
      BY <2>1, <2>2 DEF IInv, TypeOK, ControlOK
    <2> QED BY <2>1, <2>3, EndInv
  <1>7. CASE ShortWrite
    BY <1>7, ShortWriteInv
  <1>8. CASE PowerLoss
    BY <1>8, PowerLossInv
  <1>9. CASE UNCHANGED vars
    <2>1. /\ UNCHANGED <<which, pc, pos, hdr, fi, rec, ci, left, buf, disk, skipped, child, code, fault>>
          /\ S' = S /\ N' = N /\ Names' = Names
          /\ ByteSeq' = ByteSeq /\ RecordType' = RecordType /\ FileType' = FileType
      BY <1>9, Frame DEF vars
    <2>2. TypeOK'
      <3>1. ControlOK'
        BY <2>1, Zenon DEF IInv, TypeOK, ControlOK
      <3>2. LocalsOK'
        BY <2>1 DEF IInv, TypeOK, LocalsOK, HeaderType
      <3>3. FilesOK'
        BY <2>1, Zenon DEF IInv, TypeOK, FilesOK
      <3> QED BY <3>1, <3>2, <3>3 DEF TypeOK
    <2>3. LocalsMatch' /\ AtTheRightField'
      <3>1. LocalsMatch'
        BY <2>1, ZenonT(60) DEF IInv, LocalsMatch, InFile, Walking
      <3>2. AtTheRightField'
        BY <2>1, ZenonT(60) DEF IInv, AtTheRightField
      <3> QED BY <3>1, <3>2
    <2>4. OutputsExact' /\ DiskMatches'
      BY <2>1, Zenon DEF IInv, OutputsExact, DiskMatches, Running
    <2> QED BY <2>2, <2>3, <2>4 DEF IInv
  <1> QED BY <1>1, <1>2, <1>3, <1>4, <1>5, <1>6, <1>7, <1>8, <1>9 DEF Next, Step, Stopped

\* The strengthened invariant holds of main() for every image the host can write, whatever
\* the buffer sizes and however the DOS calls behave.
THEOREM Invariance == Spec => []IInv
  <1>1. Init => IInv
    BY InitInv
  <1>2. IInv /\ [Next]_vars => IInv'
    BY StepInv
  <1> QED BY <1>1, <1>2, PTL DEF Spec

\* The locals of main() stay within their ranges and the output buffer is never overrun.
THEOREM TypeCorrect == Spec => []TypeOK
  <1>1. IInv => TypeOK
    BY DEF IInv
  <1> QED BY <1>1, Invariance, PTL

\* main() always reads the field it takes it for, through skips, short copies and all codecs.
THEOREM Aligned == Spec => []AtTheRightField
  <1>1. IInv => AtTheRightField
    BY DEF IInv
  <1> QED BY <1>1, Invariance, PTL

\* Every output file is at any time a prefix of what was packed under its name, and the
\* whole of it once main() has closed it.
THEOREM Exact == Spec => []OutputsExact
  <1>1. IInv => OutputsExact
    BY DEF IInv
  <1> QED BY <1>1, Invariance, PTL

----------------------------------------------------------------------------
(* The stub implements Extraction, and if DOS does its part extracts       *)
(* everything, for every image and every buffer size.  Each step of main() *)
(* is a step of the abstract specification or leaves its variables alone.  *)
(* The argument needs the invariant above: a file counts as whole only     *)
(* because what was written before it is closed is known to be all of it.  *)

LEMMA AbstractInit ==
  ASSUME Init
  PROVE  Ext!Init
  <1>1. N \in Nat
    BY ImageFacts DEF Init
  <1>2. ASSUME NEW j \in 1..N PROVE Outcome(j) = "untouched"
    BY DEF Init, Outcome, Names, Untouched
  <1>3. Files = [j \in 1..N |-> "untouched"]
    BY <1>2 DEF Files
  <1>4. Files \in Seq({"untouched"})
    BY <1>1, <1>3
  <1>5. RunStatus = "running" /\ Launched = FALSE
    BY DEF Init, RunStatus, Launched
  <1> QED BY <1>4, <1>5 DEF Ext!Init

\* An outcome depends on the output file and on skipped only.
LEMMA OutcomeKept ==
  ASSUME which' = which, NEW j \in 1..N,
         disk'[S.files[j].name] = disk[S.files[j].name],
         j \in skipped' <=> j \in skipped
  PROVE  Outcome(j)' = Outcome(j)
  <1>1. S' = S
    BY Frame
  <1> QED BY <1>1 DEF Outcome

LEMMA FilesKept ==
  ASSUME UNCHANGED <<which, disk, skipped>>
  PROVE  Files' = Files
  <1>1. N' = N
    BY Frame
  <1>2. \A j \in 1..N : Outcome(j)' = Outcome(j)
    BY OutcomeKept
  <1> QED BY <1>1, <1>2 DEF Files

\* What lies behind the file loop is whole or skipped.
LEMMA BehindIsSettled ==
  ASSUME IInv, Running, NEW i \in 1..N, i < fi
  PROVE  Outcome(i) \in {"whole", "skipped"}
  <1> DEFINE o == disk[S.files[i].name]
  <1>1. i \in skipped \/ o.st = "closed"
    BY DEF IInv, DiskMatches
  <1>2. CASE i \in skipped
    BY <1>2 DEF Outcome
  <1>3. CASE i \notin skipped /\ o.st = "closed"
    <2>1. o.data = Bytes(S.files[i].name, S.files[i].usz)
      BY <1>3 DEF IInv, OutputsExact
    <2> QED BY <1>3, <2>1 DEF Outcome
  <1> QED BY <1>1, <1>2, <1>3

LEMMA AtTheEndAllSettled ==
  ASSUME IInv, Running, fi = N + 1
  PROVE  Ext!AllSettled
  <1>1. N \in Nat
    BY ImageFacts DEF IInv, TypeOK, ControlOK
  <1>2. ASSUME NEW i \in 1..N PROVE Files[i] \in {"whole", "skipped"}
    BY <1>1, BehindIsSettled DEF Files
  <1> QED BY <1>2 DEF Ext!AllSettled, Ext!Settled, Files

LEMMA TurnOfCurrent ==
  ASSUME IInv, Running, NEW cur \in 1..N, cur = fi, RunStatus' = RunStatus, Launched' = Launched
  PROVE  Ext!Turn(cur)
  <1>1. N \in Nat
    BY ImageFacts DEF IInv, TypeOK, ControlOK
  <1>2. RunStatus = "running"
    BY DEF Running, RunStatus
  <1>3. ASSUME NEW i \in 1..(cur - 1) PROVE Files[i] \in {"whole", "skipped"}
    <2>1. i \in 1..N /\ i < fi
      BY <1>1
    <2> QED BY <2>1, BehindIsSettled DEF Files
  <1> QED BY <1>2, <1>3 DEF Ext!Turn, Ext!Settled

\* A step that changes no output file and does not end the run cleanly.
LEMMA QuietStep ==
  ASSUME Running, Files' = Files, Launched' = Launched,
         pc' \notin {"exit", "off"} \/ (pc' = "exit" /\ code' = 1) \/ pc' = "off"
  PROVE  [Ext!Next]_Ext!vars
  <1>1. Files' = Files
    OBVIOUS
  <1>2. RunStatus = "running"
    BY DEF Running, RunStatus
  <1>3. CASE pc' \notin {"exit", "off"}
    <2>1. RunStatus' = "running"
      BY <1>3 DEF RunStatus
    <2> QED BY <1>1, <1>2, <2>1 DEF Ext!vars
  <1>4. CASE pc' \in {"exit", "off"}
    <2>1. RunStatus' = "failed"
      BY <1>4 DEF RunStatus
    <2>2. Ext!Fail
      BY <1>1, <1>2, <2>1 DEF Ext!Fail
    <2> QED BY <2>2 DEF Ext!Next
  <1> QED BY <1>3, <1>4

\* A step that returns 0 from main().
LEMMA CleanExit ==
  ASSUME IInv, Running, fi = N + 1, UNCHANGED <<which, disk, skipped>>, Launched' = Launched,
         pc' = "exit", code' = 0
  PROVE  [Ext!Next]_Ext!vars
  <1>1. Files' = Files
    BY FilesKept
  <1>2. RunStatus = "running" /\ RunStatus' = "ok"
    BY DEF Running, RunStatus
  <1>3. Ext!Succeed
    BY <1>1, <1>2, AtTheEndAllSettled DEF Ext!Succeed
  <1> QED BY <1>3 DEF Ext!Next

\* A step that gives one file another outcome.
LEMMA OneOutcomeChanges ==
  ASSUME which' = which, NEW cur \in 1..N, NEW outcome, Outcome(cur)' = outcome,
         \A j \in 1..N : j # cur => /\ disk'[S.files[j].name] = disk[S.files[j].name]
                                    /\ j \in skipped' <=> j \in skipped
  PROVE  Files' = [Files EXCEPT ![cur] = outcome]
  <1>1. N' = N
    BY Frame
  <1>2. \A j \in 1..N : j # cur => Outcome(j)' = Outcome(j)
    BY OutcomeKept
  <1>3. \A j \in 1..N : Outcome(j)' = [Files EXCEPT ![cur] = outcome][j]
    BY <1>2 DEF Files
  <1> QED BY <1>1, <1>3 DEF Files

\* The name of the current record is the name of no other file.
LEMMA OnlyCurrentFile ==
  ASSUME IInv, fi \in 1..N, rec.name = S.files[fi].name, NEW o,
         disk' = [disk EXCEPT ![rec.name] = o]
  PROVE  /\ disk'[S.files[fi].name] = o
         /\ \A j \in 1..N : j # fi => disk'[S.files[j].name] = disk[S.files[j].name]
  <1>1. which \in DOMAIN Sfxs /\ disk \in [Names -> FileType]
    BY DEF IInv, TypeOK, ControlOK, FilesOK
  <1>2. \A j \in 1..N : j # fi => S.files[j].name # S.files[fi].name
    BY <1>1, FileFacts
  <1>3. \A j \in 1..N : S.files[j].name \in Names
    BY DEF Names
  <1> QED BY <1>1, <1>2, <1>3

\* Writing to the open file leaves it partial.
LEMMA PartialStays ==
  ASSUME IInv, fi \in 1..N, rec.name = S.files[fi].name, fi \notin skipped,
         UNCHANGED <<which, skipped>>,
         disk[rec.name].st = "open", NEW data,
         disk' = [disk EXCEPT ![rec.name].data = data]
  PROVE  Files' = Files
  <1> DEFINE o == [disk[rec.name] EXCEPT !.data = data]
  <1>1. disk[rec.name] \in FileType
    BY DEF IInv, TypeOK, FilesOK, Names
  <1>2. o.st = "open"
    BY <1>1 DEF FileType
  <1>3. disk' = [disk EXCEPT ![rec.name] = o]
    BY DEF IInv, TypeOK, FilesOK
  <1> HIDE DEF o
  <1>4. /\ disk'[S.files[fi].name] = o
        /\ \A j \in 1..N : j # fi => disk'[S.files[j].name] = disk[S.files[j].name]
    BY <1>3, OnlyCurrentFile
  <1>5. PICK cur \in 1..N : cur = fi
    OBVIOUS
  <1>6. S' = S
    BY Frame
  <1>7. Outcome(cur) = "partial"
    BY <1>5 DEF Outcome
  <1>8. Outcome(cur)' = "partial"
    BY <1>2, <1>4, <1>5, <1>6 DEF Outcome
  <1>9. Files' = [Files EXCEPT ![cur] = "partial"]
    BY <1>4, <1>5, <1>8, OneOutcomeChanges, SMTT(60)
  <1> QED BY <1>7, <1>9 DEF Files

\* What a step that begins, finishes or skips the current file must show.
LEMMA FileStep ==
  ASSUME IInv, which' = which, pc \in InFile, Running', Launched' = Launched,
         NEW cur \in 1..N, cur = fi,
         \A j \in 1..N : j # cur => /\ disk'[S.files[j].name] = disk[S.files[j].name]
                                    /\ j \in skipped' <=> j \in skipped,
         \/ Outcome(cur) = "untouched" /\ Outcome(cur)' \in {"partial", "skipped"}
         \/ Outcome(cur) = "partial" /\ Outcome(cur)' = "whole"
  PROVE  [Ext!Next]_Ext!vars
  <1>1. cur \in 1..N
    OBVIOUS
  <1>2. RunStatus = "running" /\ RunStatus' = "running" /\ Running
    BY DEF Running, RunStatus, InFile
  <1>3. Ext!Turn(cur)
    BY <1>1, <1>2, TurnOfCurrent
  <1>4. Files[cur] = Outcome(cur) /\ DOMAIN Files = 1..N
    BY <1>1 DEF Files
  <1>5. CASE Outcome(cur) = "untouched" /\ Outcome(cur)' = "partial"
    <2>1. Files' = [Files EXCEPT ![cur] = "partial"]
      BY <1>1, <1>5, OneOutcomeChanges
    <2>2. Ext!Begin(cur)
      BY <1>3, <1>4, <1>5, <2>1 DEF Ext!Begin
    <2> QED BY <1>1, <1>4, <2>2 DEF Ext!Next
  <1>6. CASE Outcome(cur) = "untouched" /\ Outcome(cur)' = "skipped"
    <2>1. Files' = [Files EXCEPT ![cur] = "skipped"]
      BY <1>1, <1>6, OneOutcomeChanges
    <2>2. Ext!Skip(cur)
      BY <1>3, <1>4, <1>6, <2>1 DEF Ext!Skip
    <2> QED BY <1>1, <1>4, <2>2 DEF Ext!Next
  <1>7. CASE Outcome(cur) = "partial" /\ Outcome(cur)' = "whole"
    <2>1. Files' = [Files EXCEPT ![cur] = "whole"]
      BY <1>1, <1>7, OneOutcomeChanges
    <2>2. Ext!Finish(cur)
      BY <1>3, <1>4, <1>7, <2>1 DEF Ext!Finish
    <2> QED BY <1>1, <1>4, <2>2 DEF Ext!Next
  <1> QED BY <1>5, <1>6, <1>7

LEMMA CreateBegins ==
  ASSUME IInv, IInv', Create
  PROVE  [Ext!Next]_Ext!vars
  <1>1. /\ UNCHANGED <<which, fi, skipped, child>> /\ pc = "creat" /\ pc' = "chunk"
        /\ disk' = [disk EXCEPT ![rec.name] = Created]
    BY DEF Create, Goto
  <1>2. fi \in 1..N /\ rec.name = S.files[fi].name
    BY <1>1, CurrentFile DEF InFile
  <1>0. PICK cur \in 1..N : cur = fi
    BY <1>2
  <1>3. /\ disk'[S.files[fi].name] = Created
        /\ \A j \in 1..N : j # fi => disk'[S.files[j].name] = disk[S.files[j].name]
    BY <1>1, <1>2, OnlyCurrentFile
  <1>4. fi \notin skipped /\ disk[S.files[fi].name] = Untouched
    BY <1>1, <1>2 DEF IInv, DiskMatches, Running
  <1>5. S' = S
    BY <1>1, Frame
  <1>6. Outcome(cur) = "untouched" /\ Outcome(cur)' = "partial"
    BY <1>1, <1>0, <1>3, <1>4, <1>5 DEF Outcome, Created, Untouched
  <1>7. Running' /\ Launched' = Launched
    BY <1>1 DEF Running, Launched
  <1> QED BY <1>1, <1>3, <1>0, <1>6, <1>7, FileStep DEF InFile

LEMMA CannotCreateSkips ==
  ASSUME IInv, IInv', CannotCreate
  PROVE  [Ext!Next]_Ext!vars
  <1>1. /\ UNCHANGED <<which, fi, disk, child>> /\ pc = "creat" /\ pc' = "skip"
        /\ skipped' = skipped \union {fi}
    BY DEF CannotCreate
  <1>2. fi \in 1..N
    BY <1>1, CurrentFile DEF InFile
  <1>0. PICK cur \in 1..N : cur = fi
    BY <1>2
  <1>3. fi \notin skipped /\ disk[S.files[fi].name] = Untouched
    BY <1>1, <1>2 DEF IInv, DiskMatches, Running
  <1>4. Outcome(cur) = "untouched" /\ Outcome(cur)' = "skipped"
    BY <1>1, <1>0, <1>3 DEF Outcome, Untouched
  <1>5. Running' /\ Launched' = Launched
    BY <1>1 DEF Running, Launched
  <1> QED BY <1>1, <1>0, <1>4, <1>5, FileStep DEF InFile

LEMMA CloseFileFinishes ==
  ASSUME IInv, IInv', CloseFile
  PROVE  [Ext!Next]_Ext!vars
  <1>1. /\ UNCHANGED <<which, skipped, child>> /\ pc = "chunk" /\ pc' = "record"
        /\ fi' = fi + 1
    BY DEF CloseFile, Goto
  <1>2. fi \in 1..N /\ rec.name = S.files[fi].name
    BY <1>1, CurrentFile DEF InFile
  <1>0. PICK cur \in 1..N : cur = fi
    BY <1>2
  <1>3. PICK stamp : disk' = [disk EXCEPT ![rec.name].st = "closed", ![rec.name].stamp = stamp]
    BY DEF CloseFile
  <1>4. disk' = [disk EXCEPT ![rec.name] =
                   [disk[rec.name] EXCEPT !.st = "closed", !.stamp = stamp]]
    BY <1>2, <1>3 DEF IInv, TypeOK, FilesOK
  <1>5. \A j \in 1..N : j # fi => disk'[S.files[j].name] = disk[S.files[j].name]
    BY <1>2, <1>4, OnlyCurrentFile
  <1>6. fi \notin skipped /\ disk[S.files[fi].name].st = "open"
    BY <1>1, <1>2 DEF IInv, DiskMatches, Running
  <1>7. Outcome(cur) = "partial"
    BY <1>0, <1>6 DEF Outcome
  <1>8. Outcome(cur)' = "whole"
    <2>1. Running' /\ cur < fi' /\ cur \in 1..N'
      BY <1>1, <1>2, <1>0, Frame DEF Running
    <2>2. S' = S
      BY <1>1, Frame
    <2>3. disk'[S.files[cur].name].st = "closed"
      BY <1>1, <1>0, <1>6, <2>1, <2>2 DEF IInv, DiskMatches
    <2>4. disk'[S.files[cur].name].data = Bytes(S.files[cur].name, S.files[cur].usz)
      BY <2>1, <2>2, <2>3 DEF IInv, OutputsExact
    <2> QED BY <1>1, <1>0, <1>6, <2>2, <2>3, <2>4 DEF Outcome
  <1>9. Running' /\ Launched' = Launched
    BY <1>1 DEF Running, Launched
  <1> QED BY <1>1, <1>0, <1>5, <1>7, <1>8, <1>9, FileStep DEF InFile

----------------------------------------------------------------------------
\* The command is started from one place only.

ChildOnce ==
  /\ pc = "child" => child = "running"
  /\ pc \notin {"child", "exit", "off"} => child = "none"

LEMMA ChildOnceStep ==
  ASSUME ChildOnce, [Next]_vars
  PROVE  ChildOnce'
  <1>1. CASE ReadTrailer \/ ReadHeader \/ ReadRecord \/ Create \/ CannotCreate
    BY <1>1 DEF ReadTrailer, ReadHeader, ReadRecord, Create, CannotCreate, Check, Goto, Die,
       ChildOnce
  <1>2. CASE SkipChunk \/ SkipCrc \/ ReadEmptyChunk \/ ReadStoredChunk \/ CopyBytes
    BY <1>2 DEF SkipChunk, SkipCrc, ReadEmptyChunk, ReadStoredChunk, CopyBytes, Check, Goto, Die,
       ChildOnce
  <1>3. CASE CopyDone \/ ReadPackedChunk \/ WriteBuffer \/ CloseFile
    BY <1>3 DEF CopyDone, ReadPackedChunk, WriteBuffer, CloseFile, Check, Goto, Die, ChildOnce
  <1>4. CASE ExitWithoutCommand \/ ReadCommand \/ CommandUnreadable \/ ExecLoads \/ ExecFails
    BY <1>4 DEF ExitWithoutCommand, ReadCommand, CommandUnreadable, ExecLoads, ExecFails, Goto,
       Done, ChildOnce
  <1>5. CASE ChildReturns \/ IoError \/ ShortWrite \/ PowerLoss
    BY <1>5 DEF ChildReturns, IoError, ShortWrite, PowerLoss, Done, ChildOnce
  <1>6. CASE UNCHANGED vars
    BY <1>6 DEF vars, ChildOnce
  <1> QED BY <1>1, <1>2, <1>3, <1>4, <1>5, <1>6 DEF Next, Step, Stopped

\* main() and its failures write to the open file only.
LEMMA WriteKeepsOutcomes ==
  ASSUME IInv, pc \in {"copy", "write"}, UNCHANGED <<which, skipped>>, NEW bytes, Write(bytes)
  PROVE  Files' = Files
  <1>1. fi \in 1..N /\ rec.name = S.files[fi].name
    BY CurrentFile DEF InFile
  <1>2. disk[rec.name].st = "open" /\ fi \notin skipped
    BY <1>1 DEF IInv, DiskMatches, Running
  <1>3. disk' = [disk EXCEPT ![rec.name].data = disk[rec.name].data \o bytes]
    BY <1>1 DEF Write, IInv, TypeOK, FilesOK, Names
  <1> QED BY <1>1, <1>2, <1>3, PartialStays

LEMMA PowerLossKeepsOutcomes ==
  ASSUME IInv, PowerLoss
  PROVE  Files' = Files
  <1>1. UNCHANGED <<which, skipped>> /\ Running
    BY DEF PowerLoss, Running
  <1>2. CASE disk' = disk
    BY <1>1, <1>2, FilesKept
  <1>3. CASE rec.name \in Names /\ disk[rec.name].st = "open"
    <2>1. which \in DOMAIN Sfxs /\ N \in Nat /\ fi \in 1..(N + 1)
      BY ImageFacts DEF IInv, TypeOK, ControlOK, LocalsOK
    <2>2. PICK j \in 1..N : rec.name = S.files[j].name
      BY <1>3 DEF Names
    <2>3. disk[rec.name] # Untouched
      BY <1>3 DEF Untouched
    <2>4. ~(j > fi)
      BY <2>2, <2>3 DEF IInv, OutputsExact
    <2>5. ~(j < fi)
      BY <1>1, <1>3, <2>2, <2>3 DEF IInv, DiskMatches
    <2>6. fi \in 1..N /\ rec.name = S.files[fi].name
      BY <2>1, <2>2, <2>4, <2>5
    <2>7. fi \notin skipped
      BY <1>3, <2>3, <2>6 DEF IInv, DiskMatches
    <2>8. PICK kept : disk' = [disk EXCEPT ![rec.name].data = SubSeq(@, 1, kept)]
      BY <1>3 DEF PowerLoss
    <2>9. disk' = [disk EXCEPT ![rec.name].data = SubSeq(disk[rec.name].data, 1, kept)]
      BY <1>3, <2>8 DEF IInv, TypeOK, FilesOK
    <2> QED BY <1>1, <1>3, <2>6, <2>7, <2>9, PartialStays
  <1> QED BY <1>2, <1>3 DEF PowerLoss

\* Every step of the stub is a step of Extraction or changes nothing it speaks of.
LEMMA StepImplements ==
  ASSUME IInv, IInv', ChildOnce, [Next]_vars
  PROVE  [Ext!Next]_Ext!vars
  <1>0. ASSUME pc = "record", fi > hdr.count PROVE fi = N + 1
    <2>1. hdr.count = N /\ fi \in 1..(N + 1) /\ which \in DOMAIN Sfxs
      BY <1>0 DEF IInv, TypeOK, ControlOK, LocalsOK, LocalsMatch, Walking
    <2>2. N \in Nat
      BY <2>1, ImageFacts
    <2> QED BY <1>0, <2>1, <2>2
  <1>1. CASE ReadTrailer \/ ReadHeader \/ ReadRecord \/ SkipChunk \/ SkipCrc
    <2>1. UNCHANGED <<which, disk, skipped, child>> /\ Running
          /\ (pc' \notin {"exit", "off"} \/ (pc' = "exit" /\ code' = 1))
      BY <1>1 DEF ReadTrailer, ReadHeader, ReadRecord, SkipChunk, SkipCrc, Check, Goto, Die, Running
    <2> QED BY <2>1, FilesKept, QuietStep DEF Launched
  <1>2. CASE ReadEmptyChunk \/ ReadStoredChunk \/ CopyDone \/ ReadPackedChunk
    <2>1. UNCHANGED <<which, disk, skipped, child>> /\ Running
          /\ (pc' \notin {"exit", "off"} \/ (pc' = "exit" /\ code' = 1))
      BY <1>2 DEF ReadEmptyChunk, ReadStoredChunk, CopyDone, ReadPackedChunk, Check, Goto, Die,
         Running
    <2> QED BY <2>1, FilesKept, QuietStep DEF Launched
  <1>3. CASE ReadCommand \/ IoError
    <2>1. UNCHANGED <<which, disk, skipped, child>> /\ Running
          /\ (pc' \notin {"exit", "off"} \/ (pc' = "exit" /\ code' = 1))
      BY <1>3 DEF ReadCommand, IoError, Goto, Running
    <2> QED BY <2>1, FilesKept, QuietStep DEF Launched
  <1>4. CASE CopyBytes \/ WriteBuffer \/ ShortWrite
    <2>1. /\ UNCHANGED <<which, skipped, child>> /\ pc \in {"copy", "write"}
          /\ (pc' \notin {"exit", "off"} \/ (pc' = "exit" /\ code' = 1))
      BY <1>4 DEF CopyBytes, WriteBuffer, ShortWrite, Goto
    <2>2. PICK bytes : Write(bytes)
      BY <1>4 DEF CopyBytes, WriteBuffer, ShortWrite
    <2>3. Files' = Files
      BY <2>1, <2>2, WriteKeepsOutcomes
    <2> QED BY <2>1, <2>3, QuietStep DEF Launched, Running
  <1>5. CASE Create
    BY <1>5, CreateBegins
  <1>6. CASE CannotCreate
    BY <1>6, CannotCreateSkips
  <1>7. CASE CloseFile
    BY <1>7, CloseFileFinishes
  <1>8. CASE ExitWithoutCommand \/ CommandUnreadable
    <2>1. /\ UNCHANGED <<which, disk, skipped, child>> /\ pc = "record" /\ fi > hdr.count
          /\ pc' = "exit" /\ code' = 0
      BY <1>8 DEF ExitWithoutCommand, CommandUnreadable, Done
    <2> QED BY <1>0, <2>1, CleanExit DEF Launched, Running
  <1>9. CASE ExecLoads
    <2>1. /\ UNCHANGED <<which, disk, skipped>> /\ pc = "exec" /\ pc' = "child"
          /\ child' = "running"
      BY <1>9 DEF ExecLoads, Goto
    <2>2. Files' = Files
      BY <2>1, FilesKept
    <2>3. ~Launched /\ Launched' = TRUE
      BY <2>1 DEF ChildOnce, Launched
    <2>4. RunStatus = "running" /\ RunStatus' = "running"
      BY <2>1 DEF RunStatus
    <2>5. Ext!AllSettled
      BY <2>1, AtTheEndAllSettled DEF IInv, LocalsMatch, Running
    <2>6. Ext!Launch
      BY <2>2, <2>3, <2>4, <2>5 DEF Ext!Launch
    <2> QED BY <2>6 DEF Ext!Next
  <1>10. CASE ExecFails \/ ChildReturns
    <2>1. /\ UNCHANGED <<which, disk, skipped>> /\ pc \in {"exec", "child"}
          /\ pc' = "exit" /\ code' = 0
      BY <1>10 DEF ExecFails, ChildReturns, Done
    <2>2. Launched' = Launched
      BY <1>10 DEF ExecFails, ChildReturns, ChildOnce, Launched
    <2>3. fi = N + 1
      BY <2>1 DEF IInv, LocalsMatch
    <2> QED BY <2>1, <2>2, <2>3, CleanExit DEF Running
  <1>11. CASE PowerLoss
    <2>1. Running /\ child' = child /\ pc' = "off"
      BY <1>11 DEF PowerLoss, Running
    <2> QED BY <1>11, <2>1, PowerLossKeepsOutcomes, QuietStep DEF Launched
  <1>12. CASE UNCHANGED vars
    <2>1. Files' = Files
      BY <1>12, FilesKept DEF vars
    <2>2. RunStatus' = RunStatus /\ Launched' = Launched
      BY <1>12 DEF vars, RunStatus, Launched
    <2> QED BY <2>1, <2>2 DEF Ext!vars
  <1> QED BY <1>1, <1>2, <1>3, <1>4, <1>5, <1>6, <1>7, <1>8, <1>9, <1>10, <1>11, <1>12
      DEF Next, Step, Stopped

\* Every run of the stub is a run of Extraction: main() returns 0 only when every file is whole
\* or was reported, and starts the command at most once, after the last file.
THEOREM Implements == Spec => ImplementsExtraction
  <1>1. Init => ChildOnce
    BY DEF Init, ChildOnce
  <1>2. ChildOnce /\ [Next]_vars => ChildOnce'
    BY ChildOnceStep
  <1>3. IInv /\ IInv' /\ ChildOnce /\ [Next]_vars => [Ext!Next]_Ext!vars
    BY StepImplements
  <1>4. Init => Ext!Init
    BY AbstractInit
  <1> QED BY <1>1, <1>2, <1>3, <1>4, Invariance, PTL DEF Spec, Ext!Spec, ImplementsExtraction

----------------------------------------------------------------------------
(***************************************************************************)
(* Clean runs.  On an image the host wrote no check of main() ever fires:  *)
(* as long as DOS does what it is asked, everything is extracted and the   *)
(* errorlevel is 0.  This is where the two lists of limits, the host's and *)
(* the stub's, are needed (CeilingsMatch).                                 *)
(***************************************************************************)

\* What holds as long as no call has failed.
Faultless ==
  /\ ~fault => skipped = {} /\ code = 0
  /\ pc \in {"exec", "child"} => S.flag
  /\ pc = "exit" /\ ~fault =>
       /\ \A j \in 1..N : disk[S.files[j].name].st = "closed"
       /\ child = IF S.flag THEN "returned" ELSE "none"

\* A step within the walk that neither fails nor ends it.
WalksOn ==
  /\ pc' \notin {"exec", "child", "exit", "off"}
  /\ UNCHANGED <<which, skipped, code, fault>>

LEMMA WalkIsFaultless ==
  ASSUME Faultless, WalksOn
  PROVE  Faultless'
  BY DEF Faultless, WalksOn

\* The checks of the trailer and the header.
LEMMA OpeningPasses ==
  ASSUME IInv, ReadTrailer \/ ReadHeader
  PROVE  WalksOn
  <1>1. which \in DOMAIN Sfxs
    BY DEF IInv, TypeOK, ControlOK
  <1>2. CASE ReadTrailer
    BY <1>1, <1>2, ImageFacts
       DEF ReadTrailer, Check, Goto, Die, TrailerCell, TrailerSize, WalksOn
  <1>3. CASE ReadHeader
    <2>1. pc = "header" /\ pos = S.off + 0
      BY <1>3 DEF IInv, AtTheRightField, ReadHeader
    <2>2. pos = S.off
      BY <1>1, <2>1, ImageFacts
    <2>3. Cell(pos).algo = S.algo
      BY <1>1, <2>2, ImageFacts DEF HeaderCell
    <2>4. CanDecode(S.algo)
      BY <1>1, ImageFacts DEF CanDecode, StubFor, Algorithms, Stored, Aplib, Lzsa2, Lzma
    <2> QED BY <1>3, <2>3, <2>4 DEF ReadHeader, Check, Goto, WalksOn
  <1> QED BY <1>2, <1>3

\* The checks of a chunk's two sizes.
LEMMA SizesPass ==
  ASSUME IInv, ReadEmptyChunk \/ ReadStoredChunk \/ ReadPackedChunk
  PROVE  WalksOn
  <1> DEFINE f == S.files[fi]
             c == f.chunks[ci]
             plain == Slice(f.name, f.base[ci], c.usize)
  <1>0. pc = "chunk" /\ ci <= rec.count
    BY DEF ReadEmptyChunk, ReadStoredChunk, ReadPackedChunk
  <1>1. /\ which \in DOMAIN Sfxs /\ fi \in 1..N /\ ci \in 1..Len(f.chunks)
        /\ Cell(pos) = ChunkCell(c) /\ pos = S.off + f.at[ci]
        /\ c.csize \in Nat /\ c.usize \in Nat
    BY <1>0, AtChunk
  <1>2. ChunkFits(S.algo, c) /\ f.base[ci] \in Nat
    BY <1>1, ChunkFacts
  <1>3. hdr.algo = S.algo /\ S.algo \in Algorithms /\ S.stub = StubFor(S.algo)
    BY <1>0, <1>1, CurrentFile, ImageFacts DEF InFile
  <1>4. Cell(pos).csize = c.csize /\ Cell(pos).usize = c.usize
    BY <1>1 DEF ChunkCell
  <1>5. CASE ReadEmptyChunk
    <2>1. Cell(pos).usize = 0
      BY <1>2, <1>4, <1>5 DEF ReadEmptyChunk, ChunkFits
    <2> QED BY <1>5, <2>1 DEF ReadEmptyChunk, Check, Goto, WalksOn
  <1>6. CASE ReadStoredChunk
    <2>1. Cell(pos).csize = Cell(pos).usize
      BY <1>2, <1>3, <1>4, <1>6 DEF ReadStoredChunk, ChunkFits
    <2> QED BY <1>6, <2>1 DEF ReadStoredChunk, Check, Goto, WalksOn
  <1>7. CASE ReadPackedChunk
    <2>1. S.algo # Stored /\ c.csize > 0
      <3>1. hdr.algo # Stored /\ Cell(pos).csize # 0
        BY <1>7, Zenon DEF ReadPackedChunk
      <3> HIDE DEF c, f
      <3> QED BY <1>1, <1>3, <1>4, <3>1
    <2>2. c.usize <= MaxInput[S.algo] /\ c.csize <= MaxPacked[S.algo]
      BY <1>2, <2>1 DEF ChunkFits
    <2>3. /\ MaxInput[S.algo] <= BufSize /\ MaxPacked[S.algo] <= SrcSize[S.stub]
          /\ SrcSize[S.stub] \in Nat /\ MaxInput[S.algo] \in Nat /\ MaxPacked[S.algo] \in Nat
          /\ BufSize \in Nat
      BY <1>3, <2>1, CeilingsMatch DEF StubFor
    <2>4. c.csize <= SrcSize[S.stub] /\ c.usize <= BufSize
      <3> HIDE DEF c
      <3> QED BY <1>1, <2>2, <2>3
    <2>5. Cell(pos + ChunkHead) = PackedCell(plain)
      BY <1>1, <2>1, ChunkFacts
    <2>6. Len(plain) = c.usize
      BY <1>1, <1>2, SliceLen
    <2>7. Cell(pos + ChunkHead).plain = plain
      BY <2>5 DEF PackedCell
    <2> HIDE DEF plain, c, f
    <2> QED BY <1>4, <1>7, <2>4, <2>6, <2>7 DEF ReadPackedChunk, Check, Goto, WalksOn
  <1> QED BY <1>5, <1>6, <1>7

\* Where main() is behind the last file, and no file was passed over, every file is closed.
LEMMA AllClosed ==
  ASSUME IInv, Running, fi = N + 1, skipped = {}, NEW j \in 1..N
  PROVE  disk[S.files[j].name].st = "closed"
  <1>1. N \in Nat
    BY ImageFacts DEF IInv, TypeOK, ControlOK
  <1>2. j < fi
    BY <1>1
  <1> QED BY <1>2 DEF IInv, DiskMatches

\* The exits of main() that no failure leads to.
LEMMA CleanExits ==
  ASSUME IInv, Faultless, ChildOnce, ExitWithoutCommand \/ ChildReturns
  PROVE  Faultless'
  <1>1. /\ UNCHANGED <<which, fi, disk, skipped, fault>> /\ Running
        /\ pc' = "exit" /\ code' = 0
    BY DEF ExitWithoutCommand, ChildReturns, Done, Running
  <1>2. S' = S /\ N' = N
    BY <1>1, Frame
  <1>3. fi = N + 1
    <2>1. CASE ExitWithoutCommand
      <3>1. pc = "record" /\ fi > hdr.count /\ which \in DOMAIN Sfxs
        BY <2>1 DEF ExitWithoutCommand, IInv, TypeOK, ControlOK
      <3>2. hdr.count = N /\ fi \in 1..(N + 1) /\ N \in Nat
        BY <3>1, ImageFacts DEF IInv, TypeOK, LocalsOK, LocalsMatch, Walking
      <3> QED BY <3>1, <3>2
    <2>2. CASE ChildReturns
      BY <2>2 DEF ChildReturns, IInv, LocalsMatch
    <2> QED BY <2>1, <2>2
  <1>4. child' = IF S.flag THEN "returned" ELSE "none"
    <2>1. CASE ExitWithoutCommand
      BY <2>1 DEF ExitWithoutCommand, IInv, LocalsMatch, Walking, ChildOnce
    <2>2. CASE ChildReturns
      BY <2>2 DEF ChildReturns, Faultless
    <2> QED BY <2>1, <2>2
  <1>5. ~fault => \A j \in 1..N : disk[S.files[j].name].st = "closed"
    BY <1>1, <1>3, AllClosed DEF Faultless
  <1> QED BY <1>1, <1>2, <1>4, <1>5 DEF Faultless

LEMMA FaultlessStep ==
  ASSUME IInv, Faultless, ChildOnce, [Next]_vars
  PROVE  Faultless'
  <1>1. CASE ReadTrailer \/ ReadHeader
    BY <1>1, OpeningPasses, WalkIsFaultless
  <1>2. CASE ReadEmptyChunk \/ ReadStoredChunk \/ ReadPackedChunk
    BY <1>2, SizesPass, WalkIsFaultless
  <1>3. CASE ReadRecord \/ Create \/ SkipChunk \/ SkipCrc
    <2>1. WalksOn
      BY <1>3 DEF ReadRecord, Create, SkipChunk, SkipCrc, Goto, WalksOn
    <2> QED BY <2>1, WalkIsFaultless
  <1>4. CASE CopyBytes \/ CopyDone \/ WriteBuffer \/ CloseFile
    <2>1. WalksOn
      BY <1>4 DEF CopyBytes, CopyDone, WriteBuffer, CloseFile, Goto, WalksOn
    <2> QED BY <2>1, WalkIsFaultless
  <1>5. CASE ReadCommand \/ ExecLoads
    <2>1. pc' \in {"exec", "child"} /\ UNCHANGED <<which, skipped, code, fault>>
      BY <1>5 DEF ReadCommand, ExecLoads, Goto
    <2>2. S' = S
      BY <2>1, Frame
    <2>3. S.flag
      BY <1>5 DEF ReadCommand, ExecLoads, Faultless, IInv, LocalsMatch, Walking
    <2> QED BY <2>1, <2>2, <2>3 DEF Faultless
  <1>6. CASE ExitWithoutCommand \/ ChildReturns
    BY <1>6, CleanExits
  <1>7. CASE CannotCreate \/ CommandUnreadable \/ ExecFails \/ IoError \/ ShortWrite \/ PowerLoss
    <2>1. fault' = TRUE /\ pc' \notin {"exec", "child"}
      BY <1>7 DEF CannotCreate, CommandUnreadable, ExecFails, IoError, ShortWrite, PowerLoss, Done
    <2> QED BY <2>1 DEF Faultless
  <1>8. CASE UNCHANGED vars
    <2>1. S' = S /\ N' = N
      BY <1>8, Frame DEF vars
    <2> QED BY <1>8, <2>1 DEF vars, Faultless
  <1> QED BY <1>1, <1>2, <1>3, <1>4, <1>5, <1>6, <1>7, <1>8 DEF Next, Step, Stopped

\* If no DOS call fails, no check of main() fires on an image the host wrote, with whatever
\* buffer sizes, as long as the host's limits do not exceed them: every file is extracted,
\* a command that was packed has run, and the errorlevel is 0.
THEOREM CleanRuns == Spec => []CleanRunSucceeds
  <1>1. Init => Faultless /\ ChildOnce
    BY DEF Init, Faultless, ChildOnce
  <1>2. IInv /\ Faultless /\ ChildOnce /\ [Next]_vars => Faultless'
    BY FaultlessStep
  <1>3. ChildOnce /\ [Next]_vars => ChildOnce'
    BY ChildOnceStep
  <1>4. Faultless => CleanRunSucceeds
    BY DEF Faultless, CleanRunSucceeds
  <1> QED BY <1>1, <1>2, <1>3, <1>4, Invariance, PTL DEF Spec
=============================================================================
