---------------------------- MODULE StubExtract ----------------------------
(***************************************************************************)
(* main() of stubs/src/stub.c and stubs/src/stub_lzma.c: the DOS program   *)
(* that finds the archive behind its own code and extracts it.  Both stubs *)
(* walk the archive the same way and differ in the chunk codec; which one  *)
(* runs is part of the image.                                              *)
(*                                                                         *)
(* The stub knows nothing but the bytes at its cursor.  An action that     *)
(* reads a field is enabled only when that field lies at the cursor, so a  *)
(* stub that lost its place is stuck; AtTheRightField says it never is.    *)
(* Every DOS call may fail, and power may be cut between any two steps.    *)
(* A depacker is taken to return what was packed.                          *)
(***************************************************************************)
EXTENDS DkchLayout

CONSTANT
  Sfxs   \* the images the stub may be run from: a function to sfx records

ASSUME SfxsWellFormed == \A w \in DOMAIN Sfxs : WellFormed(Sfxs[w])

VARIABLES
  which,     \* the image running, never changes
  pc,        \* where main() is
  pos,       \* file position of the self handle
  hdr,       \* locals of main(): archive_off, algo, file_count, run-after
  fi,        \* number of the record the file loop is at, from 1 (main's i plus 1)
  rec,       \* locals of one iteration: namebuf, ts, chunk_count
  ci,        \* number of the chunk the chunk loop is at, from 1
  left,      \* copy_bytes: bytes still to copy
  buf,       \* g_buf / g_lzma_buf: the uncompressed bytes waiting to be written
  disk,      \* per name: the output file
  skipped,   \* records whose "cannot create" message was printed
  child,     \* the run-after program: "none", "running", "returned", "unloadable"
  code,      \* errorlevel, meaningful at "exit"
  fault      \* some DOS call has failed, or power was cut

vars == <<which, pc, pos, hdr, fi, rec, ci, left, buf, disk, skipped, child, code, fault>>

S == Sfxs[which]
N == Len(S.files)
Names == {S.files[j].name : j \in 1..N}

\* The field at offset p of the running image.
Cell(p) == CellAt(S, p)

NoHeader == [off |-> 0, algo |-> 0, count |-> 0, flag |-> FALSE, run |-> 0]
NoRecord == [name |-> "", stamp |-> 0, count |-> 0]

\* An output file: not created yet, being written, or closed by the stub.
Untouched == [st |-> "untouched", data |-> <<>>, stamp |-> 0]
Created   == [st |-> "open", data |-> <<>>, stamp |-> 0]

Init ==
  /\ which \in DOMAIN Sfxs
  /\ pc = "trailer" /\ pos = 0
  /\ hdr = NoHeader /\ fi = 1
  /\ rec = NoRecord /\ ci = 1 /\ left = 0 /\ buf = <<>>
  /\ disk = [n \in Names |-> Untouched]
  /\ skipped = {} /\ child = "none" /\ code = 0 /\ fault = FALSE

Goto(label) == pc' = label /\ UNCHANGED <<which, code, fault>>

\* die(msg), and the two places where main() returns 0.
Die  == pc' = "exit" /\ code' = 1 /\ UNCHANGED <<which, fault>>
Done == pc' = "exit" /\ code' = 0 /\ UNCHANGED which

\* Continue at label if main()'s checks accept what was read, else die.
Check(accepted, label) == IF accepted THEN Goto(label) ELSE Die

----------------------------------------------------------------------------
\* Opening: the trailer gives the archive offset, the header the file count.

ReadTrailer ==
  LET p == S.size - TrailerSize
      c == Cell(p)
  IN  /\ pc = "trailer"
      /\ c.k = "trailer"
      /\ hdr' = [hdr EXCEPT !.off = c.off]
      /\ pos' = c.off
      /\ Check(c.off + TrailerSize <= S.size, "header")
      /\ UNCHANGED <<fi, rec, ci, left, buf, disk, skipped, child>>

\* Mutant: the check of the algorithm was not raised when LZSA2 was added.
CanDecodeNoLzsa2(algo) == IF S.stub = "lzma" THEN algo = Lzma ELSE algo < Lzsa2

\* "bad algo" and "lzma stub: not an lzma archive"
CanDecode(algo) == IF S.stub = "lzma" THEN algo = Lzma ELSE algo <= Lzsa2

ReadHeader ==
  LET c == Cell(pos)
  IN  /\ pc = "header"
      /\ c.k = "header"
      /\ hdr' = [hdr EXCEPT !.algo = c.algo, !.count = c.count, !.flag = c.flag, !.run = c.run]
      /\ pos' = pos + HeaderSize
      /\ Check(CanDecode(c.algo), "record")
      /\ UNCHANGED <<fi, rec, ci, left, buf, disk, skipped, child>>

----------------------------------------------------------------------------
\* The file loop.

\* name_len, name, attrs, timestamp, size and chunk_count of the next file.  The names
\* the host writes pass validate_name.
ReadRecord ==
  LET c == Cell(pos)
  IN  /\ pc = "record" /\ fi <= hdr.count
      /\ c.k = "record"
      /\ rec' = [name |-> c.name, stamp |-> c.stamp, count |-> c.count]
      /\ pos' = pos + RecordHead(c.nameLen)
      /\ Goto("creat")
      /\ UNCHANGED <<hdr, fi, ci, left, buf, disk, skipped, child>>

\* Mutant: the chunk loop counts from the wrong number.
CreateMiscounts ==
  /\ pc = "creat"
  /\ disk' = [disk EXCEPT ![rec.name] = Created]
  /\ ci' = 0
  /\ Goto("chunk")
  /\ UNCHANGED <<pos, hdr, fi, rec, left, buf, skipped, child>>

\* _dos_creat truncates whatever had the name.
Create ==
  /\ pc = "creat"
  /\ disk' = [disk EXCEPT ![rec.name] = Created]
  /\ ci' = 1
  /\ Goto("chunk")
  /\ UNCHANGED <<pos, hdr, fi, rec, left, buf, skipped, child>>

\* Mutant: break where main() has continue.
CannotCreateBreaks ==
  /\ pc = "creat"
  /\ skipped' = skipped \union {fi}
  /\ fi' = hdr.count + 1
  /\ pc' = "record" /\ fault' = TRUE
  /\ UNCHANGED <<which, pos, hdr, rec, ci, left, buf, disk, child, code>>

\* A read-only file or a full root directory: report it and stay aligned.
CannotCreate ==
  /\ pc = "creat"
  /\ skipped' = skipped \union {fi}
  /\ ci' = 1
  /\ pc' = "skip" /\ fault' = TRUE
  /\ UNCHANGED <<which, pos, hdr, fi, rec, left, buf, disk, child, code>>

\* Mutant: no skip_bytes over the data.
SkipChunkHeadOnly ==
  /\ pc = "skip" /\ ci <= rec.count
  /\ Cell(pos).k = "chunk"
  /\ pos' = pos + ChunkHead
  /\ ci' = ci + 1
  /\ Goto("skip")
  /\ UNCHANGED <<hdr, fi, rec, left, buf, disk, skipped, child>>

\* Read a chunk header and lseek over its data.
SkipChunk ==
  LET c == Cell(pos)
  IN  /\ pc = "skip" /\ ci <= rec.count
      /\ c.k = "chunk"
      /\ pos' = pos + ChunkHead + c.csize
      /\ ci' = ci + 1
      /\ Goto("skip")
      /\ UNCHANGED <<hdr, fi, rec, left, buf, disk, skipped, child>>

\* Mutant: the file CRC is not skipped.
SkipCrcNoRead ==
  /\ pc = "skip" /\ ci > rec.count
  /\ fi' = fi + 1
  /\ Goto("record")
  /\ UNCHANGED <<pos, hdr, rec, ci, left, buf, disk, skipped, child>>

\* The file CRC behind a file that was passed over.
SkipCrc ==
  /\ pc = "skip" /\ ci > rec.count
  /\ Cell(pos).k = "crc"
  /\ pos' = pos + CrcSize
  /\ fi' = fi + 1
  /\ Goto("record")
  /\ UNCHANGED <<hdr, rec, ci, left, buf, disk, skipped, child>>

----------------------------------------------------------------------------
\* The chunk loop.

Write(bytes) == disk' = [disk EXCEPT ![rec.name].data = @ \o bytes]

ReadEmptyChunk ==
  LET c == Cell(pos)
  IN  /\ pc = "chunk" /\ ci <= rec.count
      /\ c.k = "chunk" /\ c.csize = 0
      /\ pos' = pos + ChunkHead
      /\ ci' = ci + 1
      /\ Check(c.usize = 0, "chunk")
      /\ UNCHANGED <<hdr, fi, rec, left, buf, disk, skipped, child>>

ReadStoredChunk ==
  LET c == Cell(pos)
  IN  /\ pc = "chunk" /\ ci <= rec.count /\ hdr.algo = Stored
      /\ c.k = "chunk" /\ c.csize # 0
      /\ pos' = pos + ChunkHead
      /\ left' = c.csize
      /\ Check(c.csize = c.usize, "copy")
      /\ UNCHANGED <<hdr, fi, rec, ci, buf, disk, skipped, child>>

\* One turn of copy_bytes' loop: as many bytes as the buffer holds, or fewer.
CopyBytes ==
  /\ pc = "copy" /\ left > 0
  /\ \E got \in 1..(IF left < BufSize THEN left ELSE BufSize) :
       /\ \A k \in 1..got : Cell(pos + k - 1).k = "byte"
       /\ Write([k \in 1..got |-> Cell(pos + k - 1).b])
       /\ pos' = pos + got
       /\ left' = left - got
  /\ Goto("copy")
  /\ UNCHANGED <<hdr, fi, rec, ci, buf, skipped, child>>

CopyDone ==
  /\ pc = "copy" /\ left = 0
  /\ ci' = ci + 1
  /\ Goto("chunk")
  /\ UNCHANGED <<pos, hdr, fi, rec, left, buf, disk, skipped, child>>

\* aplib, lzsa2, lzma: check the sizes, read the whole chunk and depack it.
ReadPackedChunk ==
  LET c == Cell(pos)
      fits == c.csize <= SrcSize[S.stub] /\ c.usize <= BufSize
      d == Cell(pos + ChunkHead)
  IN  /\ pc = "chunk" /\ ci <= rec.count /\ hdr.algo # Stored
      /\ c.k = "chunk" /\ c.csize # 0
      /\ fits => d.k = "packed"
      /\ pos' = pos + ChunkHead + (IF fits THEN c.csize ELSE 0)
      /\ buf' = IF fits THEN d.plain ELSE buf
      /\ Check(fits /\ Len(d.plain) = c.usize, "write")
      /\ UNCHANGED <<hdr, fi, rec, ci, left, disk, skipped, child>>

\* Mutant: the number of bytes DOS wrote is not compared with usize.
WriteBufferUnchecked ==
  /\ pc = "write"
  /\ \E wrote \in 0..Len(buf) : Write(SubSeq(buf, 1, wrote))
  /\ ci' = ci + 1
  /\ Goto("chunk")
  /\ UNCHANGED <<pos, hdr, fi, rec, left, buf, skipped, child>>

\* One _dos_write of the whole chunk.
WriteBuffer ==
  /\ pc = "write"
  /\ Write(buf)
  /\ ci' = ci + 1
  /\ Goto("chunk")
  /\ UNCHANGED <<pos, hdr, fi, rec, left, buf, skipped, child>>

\* Read the file CRC (unchecked), set the time unless it is zero, close.  The result of
\* _dos_setftime is ignored.
CloseFile ==
  /\ pc = "chunk" /\ ci > rec.count
  /\ Cell(pos).k = "crc"
  /\ pos' = pos + CrcSize
  /\ \E stamp \in {0, rec.stamp} :
       disk' = [disk EXCEPT ![rec.name].st = "closed", ![rec.name].stamp = stamp]
  /\ fi' = fi + 1
  /\ Goto("record")
  /\ UNCHANGED <<hdr, rec, ci, left, buf, skipped, child>>

----------------------------------------------------------------------------
\* After the last file: run the command if there is one.

ExitWithoutCommand ==
  /\ pc = "record" /\ fi > hdr.count /\ ~hdr.flag
  /\ Done
  /\ UNCHANGED <<pos, hdr, fi, rec, ci, left, buf, disk, skipped, child, fault>>

\* Seek to the command, read it, close the self handle.
ReadCommand ==
  /\ pc = "record" /\ fi > hdr.count /\ hdr.flag
  /\ Cell(hdr.off + hdr.run).k = "command"
  /\ pos' = hdr.off + hdr.run
  /\ Goto("exec")
  /\ UNCHANGED <<hdr, fi, rec, ci, left, buf, disk, skipped, child>>

\* Any error on the way to the command skips the EXEC; the exit stays clean.
CommandUnreadable ==
  /\ pc = "record" /\ fi > hdr.count /\ hdr.flag
  /\ Done /\ fault' = TRUE
  /\ UNCHANGED <<pos, hdr, fi, rec, ci, left, buf, disk, skipped, child>>

\* INT 21h/4Bh.
ExecLoads ==
  /\ pc = "exec"
  /\ child' = "running"
  /\ Goto("child")
  /\ UNCHANGED <<pos, hdr, fi, rec, ci, left, buf, disk, skipped>>

ExecFails ==
  /\ pc = "exec"
  /\ child' = "unloadable"
  /\ Done /\ fault' = TRUE
  /\ UNCHANGED <<pos, hdr, fi, rec, ci, left, buf, disk, skipped>>

\* exec_dos returns when the child exits, whatever its errorlevel.
ChildReturns ==
  /\ pc = "child"
  /\ child' = "returned"
  /\ Done
  /\ UNCHANGED <<pos, hdr, fi, rec, ci, left, buf, disk, skipped, fault>>

----------------------------------------------------------------------------
\* Failures.

\* A DOS open, read or seek that main() does not survive, or the LZMA decoder's malloc.
IoError ==
  /\ \/ pc \in {"trailer", "header", "skip", "chunk"}
     \/ pc = "record" /\ fi <= hdr.count
     \/ pc = "copy" /\ left > 0
  /\ pc' = "exit" /\ code' = 1 /\ fault' = TRUE
  /\ UNCHANGED <<which, pos, hdr, fi, rec, ci, left, buf, disk, skipped, child>>

\* The disk fills up: DOS writes a part of what it was given and main() dies.
ShortWrite ==
  /\ \/ pc = "copy" /\ left > 0
     \/ pc = "write"
  /\ LET pending ==
           IF pc = "write" THEN buf
           ELSE [k \in 1..(IF left < BufSize THEN left ELSE BufSize) |-> Cell(pos + k - 1).b]
     IN  \E wrote \in 0..(Len(pending) - 1) : Write(SubSeq(pending, 1, wrote))
  /\ pc' = "exit" /\ code' = 1 /\ fault' = TRUE
  /\ UNCHANGED <<which, pos, hdr, fi, rec, ci, left, buf, skipped, child>>

\* Power is cut, or the user reboots: a file that was never closed keeps a part of what
\* was written to it, because DOS writes its length when it is closed.
PowerLoss ==
  /\ pc \notin {"exit", "off"}
  /\ pc' = "off" /\ fault' = TRUE
  /\ IF rec.name \in Names /\ disk[rec.name].st = "open"
     THEN \E kept \in 0..Len(disk[rec.name].data) :
            disk' = [disk EXCEPT ![rec.name].data = SubSeq(@, 1, kept)]
     ELSE disk' = disk
  /\ UNCHANGED <<which, pos, hdr, fi, rec, ci, left, buf, skipped, child, code>>

\* The program has ended.
Stopped == pc \in {"exit", "off"} /\ UNCHANGED vars

----------------------------------------------------------------------------
\* What main() does by itself; the child program and the failures are the environment's.
Step ==
  \/ ReadTrailer \/ ReadHeader
  \/ ReadRecord \/ Create \/ CannotCreate \/ SkipChunk \/ SkipCrc
  \/ ReadEmptyChunk \/ ReadStoredChunk \/ CopyBytes \/ CopyDone
  \/ ReadPackedChunk \/ WriteBuffer \/ CloseFile
  \/ ExitWithoutCommand \/ ReadCommand \/ CommandUnreadable \/ ExecLoads \/ ExecFails

Next == Step \/ ChildReturns \/ IoError \/ ShortWrite \/ PowerLoss \/ Stopped

\* DOS runs one program: main() goes on until it exits, waits for its child or loses power.
\* Nothing obliges the child to end or a call to fail.
Spec == Init /\ [][Next]_vars /\ WF_vars(Step)

----------------------------------------------------------------------------
\* The values every variable stays in, with the bounds of the loops and of the buffer.
ByteSeq == Seq(Names \X (Nat \ {0}))
HeaderType == [off : Nat, algo : Algorithms, count : Nat, flag : BOOLEAN, run : Nat]
RecordType == [name : Names \union {""}, stamp : Nat, count : Nat]
FileType   == [st : {"untouched", "open", "closed"}, data : ByteSeq, stamp : Nat]
ControlOK ==
  /\ which \in DOMAIN Sfxs
  /\ pc \in {"trailer", "header", "record", "creat", "skip", "chunk", "copy", "write",
             "exec", "child", "exit", "off"}
  /\ child \in {"none", "running", "returned", "unloadable"}
  /\ code \in {0, 1}
  /\ fault \in BOOLEAN
LocalsOK ==
  /\ pos \in Nat
  /\ hdr \in HeaderType
  /\ fi \in 1..(N + 1)
  /\ rec \in RecordType
  /\ ci \in Nat \ {0}
  /\ pc \in {"chunk", "skip"} => ci <= rec.count + 1
  /\ pc \in {"copy", "write"} => ci <= rec.count
  /\ left \in Nat
FilesOK ==
  /\ buf \in ByteSeq /\ Len(buf) <= BufSize
  /\ disk \in [Names -> FileType]
  /\ skipped \subseteq 1..N
TypeOK == ControlOK /\ LocalsOK /\ FilesOK

\* Whatever was skipped, copied or depacked before, and however DOS cut up the reads, the
\* cursor is at the field main() reads next.  Nothing in the container marks a record or
\* a chunk, so one miscounted byte turns all that follows into garbage.
AtTheRightField ==
  LET f == S.files[fi]
      at(offset) == pos = S.off + offset
  IN  /\ pc = "header" => at(0)
      /\ pc = "record" => at(S.at[fi])
      /\ pc = "creat"  => at(f.at[1])
      /\ pc \in {"chunk", "skip"} => at(f.at[ci])
      /\ pc = "copy"   => pos + left = S.off + f.at[ci + 1]
      /\ pc = "write"  => at(f.at[ci + 1])
      /\ pc = "exec"   => at(S.at[N + 1])

\* No output file ever holds a byte that was not packed at that place under that name, a
\* closed one holds all of them, also after an exit, a full disk or a power loss, and
\* nothing is created ahead of its turn.
OutputsExact ==
  \A j \in 1..N :
    LET f == S.files[j]
        o == disk[f.name]
    IN  /\ Len(o.data) <= f.usz
        /\ o.data = Bytes(f.name, Len(o.data))
        /\ o.st = "closed" => Len(o.data) = f.usz /\ o.stamp \in {0, f.stamp}
        /\ j > fi => o = Untouched

\* If no DOS call failed, no check of main() fires on an image the host wrote: everything
\* is extracted, a command that was packed has run, and the errorlevel is 0.
CleanRunSucceeds ==
  pc = "exit" /\ ~fault =>
    /\ code = 0 /\ skipped = {}
    /\ \A j \in 1..N : disk[S.files[j].name].st = "closed"
    /\ child = IF S.flag THEN "returned" ELSE "none"

\* The states of Extraction: per record what became of its file, how the run stands, and
\* whether the command has been started.
Outcome(j) ==
  LET f == S.files[j]
      o == disk[f.name]
  IN  IF j \in skipped THEN "skipped"
      ELSE IF o.st = "untouched" THEN "untouched"
      ELSE IF o.st = "closed" /\ o.data = Bytes(f.name, f.usz) THEN "whole"
      ELSE "partial"
RunStatus ==
  IF pc = "off" \/ (pc = "exit" /\ code = 1) THEN "failed"
  ELSE IF pc = "exit" THEN "ok" ELSE "running"

Files == [j \in 1..N |-> Outcome(j)]
Launched == child \in {"running", "returned"}

Ext == INSTANCE Extraction WITH file <- Files, status <- RunStatus, launched <- Launched

\* The stub implements Extraction: errorlevel 0 only with every file whole or reported,
\* the command started at most once and after the last file, never after a failure.
ImplementsExtraction == Ext!Spec

\* The walk ends: main() exits, or hands over to the child, on every image.
Terminates == <>(pc \in {"exit", "off", "child"})
=============================================================================
