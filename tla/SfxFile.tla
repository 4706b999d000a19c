------------------------------ MODULE SfxFile ------------------------------
(***************************************************************************)
(* The file at pack's output path over its life: write_sfx writes it in    *)
(* place, pack may be killed, a call may fail or power may be cut at any   *)
(* point, the next pack starts over, a byte may rot, and unpack reads it.  *)
(* The trailer at the end is all that tells a finished file from an        *)
(* unfinished one.                                                         *)
(*                                                                         *)
(* pack and unpack are not run on one path at the same time; unpack leaves *)
(* the file as it is, so one unpack at the end of a behaviour shows all.   *)
(***************************************************************************)
EXTENDS DkchWriter

CONSTANTS
  Images,       \* per archive that pack is asked for: what a finished write_sfx leaves
  StubLen,      \* bytes of the stub blob
  MaxImage,     \* i32::MAX: the longest file the stub can seek in
  MaxRuns,      \* bound: how often pack is run
  MaxSfxInput, MaxEntry, Inside   \* see HostUnpack

ASSUME ImagesAreWritten == \A a \in DOMAIN Images : Images[a] = WriteSfx(a, StubLen)
ASSUME ArchivesAssumption ==
  /\ StubLen \in Nat /\ MaxRuns \in Nat /\ MaxEntry \in Nat
  /\ \A a \in DOMAIN Images : Fits(a)

VARIABLES
  file,      \* the cells in the file
  of,        \* the archive they came from (for the properties)
  durable,   \* file and of as they are known to be after a power loss, if there is a file
  link,      \* the entry in the directory: none, new (in memory only) or kept (on disk)
  job,       \* the archive pack is writing or wrote last
  wpos,      \* write_sfx's position in the file
  packing,   \* where pack is
  reported,  \* pack has returned Ok for the file as it is
  damaged,   \* a byte has rotted
  runs,      \* how often pack was started
  reading, at, header, record, entries, dest   \* see HostUnpack

packVars == <<file, of, durable, link, job, wpos, packing, reported, runs>>
unpackVars == <<reading, at, header, record, entries, dest>>
vars == <<packVars, damaged, unpackVars>>

Unpack == INSTANCE HostUnpack WITH cells <- file

\* A packed file may hold another SFX: the trailers that show in an image, its own and
\* those of files stored in it, give StubLen for the offset of the archive, or a place
\* where the image shows no header.  Contents made to look like both are left out.
ASSUME InsideAssumption ==
  \A a \in DOMAIN Images : \A p \in DOMAIN Images[a] :
    LET Shown(q) == Unpack!Looks(Images[a][q])
        off == Shown(p).off
    IN  Shown(p).k = "trailer" =>
          off = StubLen \/ ~ (off + 1 \in DOMAIN Images[a] /\ Shown(off + 1).k = "header")

NoArchive == [entries |-> <<>>]
Image == Images[job]

Init ==
  /\ file = <<>> /\ of = NoArchive /\ durable = <<file, of>> /\ job = NoArchive /\ wpos = 0
  /\ link = "none"
  /\ packing = "idle" /\ reported = FALSE /\ damaged = FALSE /\ runs = 0
  /\ Unpack!Init

Writing == packing \in {"stub", "archive", "trailer"}

\* Neither program runs, and unpack has not been run.
Resting == ~Writing /\ packing # "sync" /\ reading = "idle"

\* A file that rotted or went through a power loss is not packed to again here: Create
\* would truncate it like any other.
CanPack == Resting /\ packing # "off" /\ ~damaged /\ runs < MaxRuns

----------------------------------------------------------------------------
\* write_sfx.  Everything was read and compressed before: job is complete.

\* Mutant: the file is opened without truncating it.
CreateKeepsTail ==
  /\ CanPack
  /\ \E a \in DOMAIN Images : job' = a /\ of' = a
  /\ file' = file
  /\ wpos' = 0 /\ packing' = "stub" /\ reported' = FALSE
  /\ link' = IF link = "none" THEN "new" ELSE link
  /\ runs' = runs + 1
  /\ UNCHANGED <<durable, damaged, unpackVars>>

\* File::create truncates what was there, or makes a new entry in the directory.
Create ==
  /\ CanPack
  /\ \E a \in DOMAIN Images : job' = a /\ of' = a
  /\ file' = <<>>
  /\ wpos' = 0 /\ packing' = "stub" /\ reported' = FALSE
  /\ link' = IF link = "none" THEN "new" ELSE link
  /\ runs' = runs + 1
  /\ UNCHANGED <<durable, damaged, unpackVars>>

\* Where the bytes of a write phase end.
EndOf(phase) ==
  CASE phase = "stub"    -> StubLen
    [] phase = "archive" -> Len(Image) - TrailerSize
    [] phase = "trailer" -> Len(Image)

\* write_all may take any number of calls and stop after any byte.  What lies behind the
\* position stays as it was.
WriteByte ==
  /\ Writing /\ wpos < EndOf(packing)
  /\ file' = SubSeq(Image, 1, wpos + 1) \o SubSeq(file, wpos + 2, Len(file))
  /\ wpos' = wpos + 1
  /\ UNCHANGED <<of, durable, link, job, packing, reported, damaged, runs, unpackVars>>

\* On to the next phase: Archive::write refuses a run-after offset beyond its field
\* only now, when the stub is in the file, and write_sfx looks at the size only when
\* the file is complete.
NextPhase ==
  /\ Writing /\ wpos = EndOf(packing)
  /\ packing' =
       CASE packing = "stub"    -> IF ArchiveAccepted(job) THEN "archive" ELSE "failed"
         [] packing = "archive" -> "trailer"
         [] packing = "trailer" -> IF Len(file) <= MaxImage THEN "sync" ELSE "failed"
  /\ UNCHANGED <<file, of, durable, link, job, wpos, reported, damaged, runs, unpackVars>>

\* Mutant: pack returns without sync_all.
SyncSkipped ==
  /\ packing = "sync"
  /\ packing' = "ok" /\ reported' = TRUE
  /\ UNCHANGED <<file, of, durable, link, job, wpos, damaged, runs, unpackVars>>

\* sync_all of the file, and pack returns Ok.  Nobody syncs the directory.
Sync ==
  /\ packing = "sync"
  /\ durable' = <<file, of>>
  /\ packing' = "ok" /\ reported' = TRUE
  /\ UNCHANGED <<file, of, link, job, wpos, damaged, runs, unpackVars>>

\* A write, metadata or sync_all returns an error, and pack returns it; or the process is
\* killed.
PackStops ==
  /\ Writing \/ packing = "sync"
  /\ packing' = "failed" /\ wpos' = 0
  /\ UNCHANGED <<file, of, durable, link, job, reported, damaged, runs, unpackVars>>

\* The system writes the directory to the disk when it likes.
DirWritten ==
  /\ link = "new" /\ reading = "idle"
  /\ link' = "kept"
  /\ UNCHANGED <<file, of, durable, job, wpos, packing, reported, damaged, runs, unpackVars>>

\* What is not synced may be lost from any byte on, or the truncation may be undone; and a
\* file whose name is not on the disk may be lost altogether, whatever became of its bytes.
PowerLoss ==
  /\ packing \notin {"idle", "off"} /\ reading = "idle" /\ ~damaged
  /\ packing' = "off" /\ wpos' = 0
  /\ \/ /\ link = "new" /\ link' = "none"
        /\ file' = <<>> /\ of' = NoArchive
     \/ /\ link' = "kept"
        /\ IF durable = <<file, of>> THEN UNCHANGED <<file, of>>
           ELSE \/ (\E k \in 0..Len(file) : file' = SubSeq(file, 1, k)) /\ of' = of
                \/ file' = durable[1] /\ of' = durable[2]
  /\ durable' = <<file', of'>>
  /\ UNCHANGED <<job, reported, damaged, runs, unpackVars>>

\* A byte that a checksum covers rots in the finished file: in the header, in a chunk's
\* data or in a file CRC.
Rot ==
  /\ packing = "ok" /\ ~damaged /\ reading = "idle"
  /\ \E p \in DOMAIN file :
       /\ file[p].k \in {"header", "byte", "packed", "crc"}
       /\ file' = [file EXCEPT ![p] = Unpack!Damaged]
  /\ damaged' = TRUE
  /\ UNCHANGED <<of, durable, link, job, wpos, packing, reported, runs, unpackVars>>

\* unpack runs while pack does not.
RunUnpack ==
  /\ ~Writing /\ packing # "sync"
  /\ Unpack!Next
  /\ UNCHANGED <<of, durable, link, job, wpos, packing, reported, damaged, runs>>

Next ==
  \/ Create \/ WriteByte \/ NextPhase \/ Sync
  \/ PackStops \/ DirWritten \/ PowerLoss \/ Rot
  \/ RunUnpack

Spec == Init /\ [][Next]_vars

----------------------------------------------------------------------------
\* The values of the variables; while pack writes, the file has a name and holds nothing
\* but what was written so far.
TypeOK ==
  /\ packing \in {"idle", "stub", "archive", "trailer", "sync", "ok", "failed", "off"}
  /\ reading \in {"idle", "header", "file", "chunk", "writing", "refused", "failed", "ok"}
  /\ {job, of, durable[2]} \subseteq DOMAIN Images \union {NoArchive}
  /\ link \in {"none", "new", "kept"}
  /\ reported \in BOOLEAN /\ damaged \in BOOLEAN /\ runs \in 0..MaxRuns
  /\ Writing => link # "none" /\ Len(file) = wpos /\ wpos <= Len(Image)

\* Whatever pack was doing when it stopped, unpack never takes an unfinished file for an
\* SFX, nor a mixture of two: what it accepts is the finished file of one pack run.  This
\* must hold even when the unfinished file ends with the bytes of another SFX.
OnlyFinishedFilesAccepted ==
  reading \in {"writing", "failed", "ok"} /\ ~damaged =>
    of \in DOMAIN Images /\ file = Images[of]

\* Once pack has returned Ok the file is finished.  A power loss leaves it as it is, or
\* leaves no file at all when the name is new: never a part of it, and never what an older
\* pack wrote.
ReportedFilesLast ==
  reported /\ ~damaged =>
    \/ link # "none" /\ file = Image
    \/ link = "none" /\ file = <<>> /\ packing = "off"

\* An SFX that pack reported can be unpacked, unless it is lost with its name, is longer
\* than unpack reads or an entry is: the offset, the flags and the sizes the reader insists
\* on are those the writer wrote, and unpack fails only for what it cannot write.
ReportedFilesUnpack ==
  reported /\ ~damaged /\ link # "none" /\ Len(file) <= MaxSfxInput =>
    /\ reading # "refused"
    /\ reading = "writing" /\ entries # <<>> =>
         Head(entries).usz > MaxEntry \/ Unpack!Writable(Head(entries))

\* No matter which covered byte has rotted, unpack writes nothing but what was packed, one
\* entry after the other, and a prefix of the last of them when it fails to write; and when
\* it returns Ok it has written every entry.
UnpackedFilesExact ==
  LET es == of.entries
      Of(n) == CHOOSE e \in {es[i] : i \in DOMAIN es} : e.name = n
      Whole(e) == e.name \in DOMAIN dest /\ Len(dest[e.name]) = SizeOf(e)
  IN  /\ \A n \in DOMAIN dest :
           /\ \E i \in DOMAIN es : es[i].name = n
           /\ dest[n] = Bytes(n, Len(dest[n]))
           /\ Len(dest[n]) <= SizeOf(Of(n))
           /\ reading # "failed" => Len(dest[n]) = SizeOf(Of(n))
      /\ \A i \in DOMAIN es : es[i].name \in DOMAIN dest => \A j \in 1..(i - 1) : Whole(es[j])
      /\ reading = "ok" => DOMAIN dest = {es[i].name : i \in DOMAIN es}
=============================================================================
