# A TLA+ model of doskrunch

doskrunch packs files into a self-extracting DOS program (an SFX). A host tool
written in Rust compresses the files and puts a small DOS program, the *stub*,
in front of them; the stub runs on a machine from an 8086 up and extracts the
files without any further help. The host and the stub share no code. What holds
them together is a file format (DKCH), a handful of size limits written down
twice, the aPLib bit stream, the rules for 8.3 names, the bytes of a command and
of a date, and the order in which things happen. These modules are about that.

Contents: [the system](#the-system), [the modules](#the-modules),
[the runs](#the-runs), [the proofs](#the-proofs),
[what the models leave out](#what-the-models-leave-out),
[where code and documents disagree](#where-code-and-documents-disagree),
[plan](#plan).

## The system

### Components

| Component | State it keeps | Operations | What makes it correct |
|---|---|---|---|
| **Container format** (`host/src/archive.rs`) | bytes only: stub, header, records with their chunks, command, trailer | `Archive::write`, `Archive::read`, `serialized_file_size`, `run_after_offset` | Nothing in the file marks a record or a chunk. Sizes computed by the writer, the reader and the stub must agree byte for byte; the reader refuses everything else |
| **stub.c**, **stub_lzma.c** | file position, locals of the two nested loops, one buffer, the open output file | find the trailer, read the header, then per file: record, create, chunks, CRC, close; run the command | Stays aligned also past files it cannot create; never leaves a wrong byte in a file; errorlevel 0 only when every file is there or was reported |
| **exec_dos.asm** | DOS's saved stack | load and run a program | Returns whether or not the program loaded |
| **pack: `write_sfx`** (`host/src/pack.rs`) | the output file, written in place | create, stub, archive, trailer, `sync_all` | Whatever stops it, a half-written file is not taken for an SFX; once it has returned Ok the file stays whole, or is lost with a name that the system had not yet written to the disk |
| **pack: naming and order** (`pack.rs`, `name83.rs`) | list of names, set of taken names | stat, mangle, refuse device names, sort, dedupe, read | Distinct names that DOS accepts; the same files always give the same archive |
| **pack: `expand_inputs`, `walk_dir`** | list of paths | walk directories, exclude the output | Nothing twice, not the output itself, no symlinks followed |
| **Name validators** (`archive.rs`, `unpack.rs`, `stub.c`) | none | three predicates, written separately | All accept every name that pack makes |
| **unpack** (`host/src/unpack.rs`) | the archive in memory, the files written | load, decode, compare the CRC, write | Writes nothing that was not packed; an error leaves whole entries and at most one prefix |
| **aPLib depackers** (five assembly ports) | bit queue, last offset, "was a literal" flag, buffer | one command at a time; block copies in the mmx and sse ports | The inverse of the writer, in every port; nothing written behind the chunk |
| **aPLib stream writer** (`vendor/apultra/src/shrink.c`) | the stream, the byte that takes bits, last offset, flag | one command at a time | The other half of the same contract |
| **The run-after command** (`archive.rs`, `stub.c`) | a string with NUL, at most 128 bytes | check as text, check as bytes, read back, split, hand to `EXEC` | What the user asked for is what DOS runs, with all its arguments; what `inspect` shows is what runs |
| **FAT timestamps** (`fat_time.rs`, `archive.rs`) | none | seconds since 1970 to two 16-bit words | The calendar's date and time, clamped at both ends; never 0, which means "none" |
| **Compression bindings** (`compress/*.rs`) | a C table behind a `Once`, one xz decoder per call | compress, decompress | A chunk comes back whole or as an error; the table is written once; each decoder is freed once |
| **Command line**, **`stub_for`**, **stub build**, **inspect** (`main.rs`, `pack.rs`, `build.rs`, `Makefile`) | tables | parse, check, choose a blob, print | The layers' tables agree; what is delivered runs on the CPU that was named |
| **LZSA2 depackers**, **vendored codecs**, **benchmark** | registers | see `PROJECT.json` | |

### How they interact

- *pack to stub*: only through the bytes of the SFX. The stub finds the archive
  by the trailer, the records by adding up sizes, the command by an offset in
  the header.
- *pack to unpack*: the same bytes, read more strictly.
- *pack to a later pack*: the output path; a new pack truncates what the last
  one left.
- *pack to others*: other processes may write, move and exchange files while pack
  walks, stats and reads them.
- *caller to codecs*: as a library, the host may be called from several threads;
  they share one static table in the xz code.
- *command line to pack to builders to stub build*: each has its own table of
  what is allowed, and each must allow what the one before it lets through.
- *writer to depacker*: the bit stream of a chunk. Each side keeps the last
  offset and the literal flag to itself, and both must agree at every command.
- *stub to DOS*: calls that fail, read less than asked, or write less than asked
  without an error. *stub to child*: `EXEC` at the end.

### What is hard here

Concurrency is at two places only: other processes change the files that pack
looks at several times, and threads that use the host as a library meet at a
table that the first of them must write. DOS runs one program at a time. The rest
of the difficulty lies elsewhere:

- long sequences of legal steps after which two programs must still agree, with
  nothing in the data to notice that they do not (cursor, bit queue, offsets);
- partial failure: DOS calls, a full disk, files that cannot be created, a kill
  or a power loss at any byte of an in-place write;
- limits written down in two or three languages (buffer sizes, algorithm lists,
  thresholds, widths of fields, CPU tiers);
- numbers at a boundary: block copies that overlap themselves, suffixes that get
  longer, offsets exactly at a threshold, a command that just fills its buffer,
  the first and the last day of a calendar.

`PROJECT.json` lists each of these hazards at its line with the properties that
cover it.

## The modules

```
Extraction  <---implements---  StubExtract --extends--> DkchLayout <--extends-- DkchWriter
(abstract)                          |                                            |
                                    +--------- MCStubExtract --------------------+
                                                                                 |
                              SfxFile --extends-------------------------------->-+
                                 +--- INSTANCE HostUnpack --extends------------>-+
AplibChunk --extends--> AplibDepack          FatCalendar --extends--> FatTime
PackTree    PackNames    RunAfter    HostCodecs    Options
```

The five in the last line meet the others at a value and not in a composition:
`PackTree` ends with the list of files with which `PackNames` begins, `PackNames`
with the entries that `DkchWriter` writes; `RunAfter` opens up the command that
is one cell of an image; `FatTime` computes the word that an entry carries;
`HostCodecs` is the call that `HostUnpack` makes for each chunk; `Options` has
the real sizes that `DkchLayout` leaves as constants. Composing them would
multiply states without a step of one that another could disturb.

| Module | What it models | Code |
|---|---|---|
| `DkchLayout` | The container, its field widths, the limits both sides have, and `WellFormed`: what an image must be for a reader who knows only the format | `archive.rs`, constants of the stubs, `stub_for` |
| `DkchWriter` | The bytes `Archive::write` and `write_sfx` produce, in the order they are written, and the refusals | `archive.rs`, `pack.rs` |
| `Extraction` | What running an SFX promises, without format, cursor or buffer | (abstract) |
| `StubExtract` | `main()` of both stubs, the DOS calls and their failures, the child | `stub.c`, `stub_lzma.c`, `exec_dos.asm` |
| `HostUnpack` | `load_archive`, `Archive::read`, `write_entry` | `archive.rs`, `unpack.rs` |
| `SfxFile` | The output path over its life: pack, killed, failed, repeated, power lost, rotted, unpacked | `pack.rs`, with `HostUnpack` |
| `AplibDepack` | The depacker, one action per command and per turn of a copy loop | `stubs/src/aplib_depack_*.asm` |
| `AplibChunk` | The stream writer in front of it | `vendor/apultra/src/shrink.c` |
| `PackNames` | Two packs of the same files, from the list of paths to the archive's entries | `pack.rs`, `name83.rs`, the validators |
| `PackTree` | The walk, pass 1, the reads and the creation of the output, in a tree that others change | `pack.rs` |
| `RunAfter` | The command, byte for byte, from `--run-after` to the parameter block of `EXEC` | `archive.rs`, `stub.c` |
| `FatTime`, `FatCalendar` | The conversion of a time; a calendar that walks beside it | `fat_time.rs`, `pack.rs`, `archive.rs` |
| `HostCodecs` | Calls of `compress` and `decompress` by several threads | `compress/*.rs` |
| `Options` | A request through command line, pack, builders, file, `inspect` and the CPU it runs on | `main.rs`, `pack.rs`, `archive.rs`, `stubs.rs`, `Makefile` |

`MC*` modules give the constants of a run; `*Proofs` modules hold theorems. The
definitions called `...Unchecked`, `...OffByOne` and the like, marked *Mutant*,
are the same operation with a plausible mistake; no specification uses them.
Each stands for the question whether a property would notice.

### The format: `DkchLayout`, `DkchWriter`

An image is a sequence of cells, one for every byte, so an offset in the model
is an offset in the file and every field has its real width (25-byte header,
records of 12 + name bytes, 4-byte chunk headers, 4-byte CRC, 8-byte trailer).
The first cell of a field carries its value, the rest are padding. A byte of a
source file is `<<name, n>>`; a CRC is modelled by the bytes it was computed
from, and a compressed block by the bytes that were compressed. `WellFormed`
describes an image from the reader's side. `DkchWriter` knows nothing of it and
concatenates fields. That the two agree is an assumption of `StubExtract` and a
theorem of the writer (`WriterKeepsTheFormat`), for every archive that `Fits`: its
chunks are within the limits, its names distinct. That the builders make such
entries of any file is a theorem too (`BuildersKeepTheLimits`).

### The stub: `StubExtract`, `Extraction`

`pc` names the place in `main()`; `pos` is the position of the self handle;
`hdr`, `rec`, `fi`, `ci` are the locals of `main()` and of its two loops; `disk`
is what DOS holds of the output files. Each action is one DOS call or one run of
calls between which nothing of interest can happen, with the checks the code
makes on what came back: `ReadTrailer`, `ReadHeader`, `ReadRecord`, `Create` or
`CannotCreate`, then `SkipChunk`/`SkipCrc` on one side, and `ReadEmptyChunk`,
`ReadStoredChunk` + `CopyBytes` + `CopyDone`, `ReadPackedChunk` + `WriteBuffer`,
`CloseFile` on the other; at the end `ReadCommand`, `CommandUnreadable`,
`ExecLoads`, `ExecFails`, `ChildReturns`, `ExitWithoutCommand`. `IoError`,
`ShortWrite` and `PowerLoss` are enabled wherever the code makes such a call.

The stub is *not* told where things are. An action that reads a field requires
that field at `pos`; a stub that miscounts would be stuck, and the run checks
both that this never happens (deadlock, `Terminates`) and the cursor itself
(`AtTheRightField`).

`Extraction` is what a user is promised: entries in archive order, each whole or
reported before the next is touched, the command at most once and only after the
last, and an early stop leaves at most one partial file. `StubExtract` implements
it with a file counted as whole only when its bytes are all there.

### The output file: `SfxFile`, `HostUnpack`

`SfxFile` writes an image byte by byte, so that every kill point is a state.
`PowerLoss` takes away any suffix of what was not synced, or brings back the
older file. `write_sfx` syncs the file (`pack.rs:553`) and not its directory, so
`Sync` makes contents and length durable and not the name: `link` says whether the
name of the output is new, and `DirWritten` is the system writing the directory
back, at any time or never. Until then a power loss may take a new output
altogether, after Ok too; `ReportedFilesLast` says that it takes all of it or
nothing. `Rot` damages one byte that a checksum covers. `HostUnpack` reads
whatever is there: `Reads` looks at every cell of a field, so a field that is
cut off or misplaced is refused, as `read_exact` and the magic and CRC checks
do. One of the archives stores a file that is itself an SFX (`Inside` says what
its bytes look like to a reader who takes them for fields), because a file cut
off right behind it ends with a valid trailer. The code of the stub and compressed
data are taken never to look like a trailer.

### A chunk: `AplibChunk`, `AplibDepack`

`AplibChunk` first writes a stream: `WriteFirst`, `WriteLiteral`,
`WriteShortLiteral`, `WriteRepeat`, `WriteShortMatch`, `WriteLargeMatch`,
`WriteEnd`, each putting its bits where `apultra_write_bits` puts them. Which
literal or match comes next is *any* that the format can express and that is
true of the chunk; the optimiser's choice is one of them. Then a port of the
depacker runs on these bytes. Variables have the names of the registers. The
ports differ in `Width`, the bytes of a block copy (0 for those without).

### Names: `PackNames`

`argv` is the list `expand_inputs` made, in any order. `Stat`, `Sort`, `Dedupe`,
`Build`, `WriteSfx` are pack's passes, a file per step; `Fail` its refusals.
`Again` runs a second pack of the same files, listed in another order and touched
in between. `ReadByHost`, `UnpackedByHost`, `CreatedByStub` are the three
validators.

### Which files: `PackTree`

The file system is a graph of inodes: `tree` gives the entries of each directory,
`Kind` says which inode is a directory, a file, a link or something else, and
`Dest` where a link leads. `Stat`, `LStat` and `Canon` are the calls the code
makes, with links followed or not (`StatIn`, `LStatIn`, `CanonIn` say what they
find in a given tree). pack's steps are `CheckOutput`, `Exclude`, `Visit` and
`Judge` (one round of the walk: `symlink_metadata` and what follows from it),
`ReadDir`, `WalkDone` (with the limit of 65,535 files), `StatNext` (pass 1, which
refuses a name that is no UTF-8 or becomes a device name), `NameAll` (the sort,
and dedupe when it gives up), `ReadNext`, `Create`, each with one look at the file
system at most; `CallFails` is any of their calls returning an error of its own.
Mangling is a table here (`Mangled`, `Unnamed`), and dedupe may give up once there
are more files than suffixes; how names are made, and exactly when the suffixes
run out, is in `PackNames`. Between any two of the steps `Rewrite` and `Swap` may
write a file or exchange a name, as the scenario permits. `todo` is the stack of
`walk_dir`'s recursion, flattened. `OnWindows` is the system without `O_NOFOLLOW`
and without inode numbers. `Wanted` is the reference: all files below the inputs,
told by quantifying over paths and not by a walk.

### The command: `RunAfter`

`file` holds the bytes of the file from the command's offset: the command, the
trailer's magic and the stub's length. `SetRunAfter` is the way through
`--run-after`, `AssignField` the way of a caller who sets the public field,
`Write` the second check and the bytes, `Rot` damages one byte of the command,
`Read` is `Archive::read`, `Exec` the end of the stub's `main()`. `Slurp`,
`Program`, `Args` and `CommandLine` follow `stub.c` from the read to the command
line given to DOS, with the bytes behind the NUL that the read brings in.
`MeantProgram` and `MeantArgs` are what the user means, told without a buffer.

### Time: `FatTime`, `FatCalendar`

`FatTime` is the arithmetic of `civil_from_unix` and `unix_to_fat`, with a moment
as a day and a second of the day, since TLC's integers have 32 bits.
`FatCalendar` has two clocks: `mtime` counts days, and `date` advances by the
rule for the lengths of months. `Later` and `NextDay` move both. That the
conversion of the one shows the other is what the run is about.

### Codecs: `HostCodecs`

Each thread compresses data, keeps the chunk, may get it back damaged, and
decompresses it. What the C libraries do is left open as far as their results
permit (`Encoded`, `Reports`); the Rust around them is modelled call by call:
`Check`, `CallOnce` and `InitDone` (the `Once` around `xz_crc32_init`), `Alloc`,
`Run`, `Finish`. `live` and `freed` follow the decoder that the drop guard owns.

### Requests: `Options`

A request comes by the command line, from a caller of `pack`, or from a caller
of the builders. `Parse`, `Pack` and `BuildEntry` check it, each with its own
table; `Write` casts to the widths of the fields; `Inspect` decodes the bytes;
`Run` executes the blob on any CPU: `Linked` says which objects the Makefile
links into it and what each needs, `StubFault` what the extractor finds wrong.

## The runs

| Run | Asks | Distinct states | Result |
|---|---|---|---|
| `stub_extract` | Does the stub extract every image the host writes, and stop in order when it cannot? | 52,254 | holds |
| `sfx_file` | Is the trailer a sound commit mark, do reported files last and unpack, is nothing wrong ever written? | 19,562 | holds |
| `aplib_chunk` | Does every port invert every stream the writer can produce? | 367,933 | holds |
| `pack_names` | Are stored names unique and acceptable, and archives reproducible? | 303,002 | holds |
| `pack_tree` | Does pack take what was asked for, and nothing else, while others change the tree, and give up only for a visible reason? | 128,731 | holds |
| `run_after` | Does the stub run the command that was asked for, and the one that is shown? | 308,787 | holds |
| `fat_calendar` | Does DOS show the calendar's date for every file? | 154,500 | holds |
| `host_codecs` | Do threads share the xz code safely, is an Ok the whole chunk, does each call return? | 191,064 | holds |
| `options` | Do the layers agree on what is allowed, and does what is delivered run? | 136,816 | holds |
| `aplib_gate_comment` | Is the comment on the block gate right? | - | violated |
| `stored_order` | Is the README's sentence on the order of entries right? | - | violated |
| `fat_clamp` | Is the clamp after 2107 where the comments say? | - | violated |

**stub_extract.** *Images:* everything the writer makes of up to three files of
0 to 7 bytes, for four algorithms, chunk sizes 2 to 5, a compressor that shrinks
and one that expands, with and without a command, as far as pack accepts it: the
same acceptance conditions as the code, scaled. *Bounds:* an output buffer of 3
bytes and an input buffer of 4 stand for 16384 and 18464 and keep their relation:
a packed chunk may fill the one exactly and expand into the other, a stored
chunk is larger than the buffer and takes several turns. Seven bytes are enough
for chunks that are empty, full, cut short, and three in a row; three files for
one before and one after a file that cannot be created. *Properties:*
`AtTheRightField` (the cursor), `OutputsExact` (no wrong byte, at any moment, in
any failure), `CleanRunSucceeds` (if no call fails then no check of the stub
fires: this is where the two lists of limits meet), `ImplementsExtraction`,
`Terminates`.

**sfx_file.** *Archives:* two files compressed with a command; no file and a
command; a stored SFX;
records too long for the 16-bit command offset; a file longer than the stub can
seek. *Bounds:* two packs over one another, which is enough for a later one to
stop anywhere over an earlier one's result; the limits of 65535 and 2 GiB are
scaled to lie between the archives. *Properties:* `OnlyFinishedFilesAccepted`,
`ReportedFilesLast`, `ReportedFilesUnpack`, `UnpackedFilesExact`. Deadlock is
not checked, because the system really stops: after unpack nothing remains to do.

**aplib_chunk.** *Chunks:* eight of up to 11 bytes, chosen for runs, for periods
just above and below the block widths, for repetitions at every class of offset,
and for the bytes 0 and 255. *Bounds:* the numbers of the format are scaled (256
to 3, 128 to 2, 1280 to 4, 32000 to 6) so that all thresholds are met and
crossed within 11 bytes, blocks of 8 and 16 bytes become 2 and 3; three matches
and one short literal per stream, and all streams with that many. Bits and bytes
are real: eight to a byte, one at a time. *Properties:* `DecodedExact` at every
step (including that nothing behind the bytes written is touched),
`WholeChunkDone` (length and the last byte of the stream), `CopyExact`,
`Completes`.

**pack_names.** *Sources:* nine file names chosen to collide: the same name in
two cases, a name cut to the same stem, files really called like the first and
the second candidate of dedupe, a device name, names with dots, blanks and
non-ASCII letters, one without an extension. *Bounds:* names of 4.1 instead of
8.3, suffixes of two lengths (`~1` and one that stands for `~10`), up to four
files, so that suffixes run out. Every list of up to four and every second order
of it. *Properties:* `UniqueOnDos`, `AcceptedEverywhere`, `Reproducible`,
`ExhaustedOnlyWhenFull`.

**pack_tree.** *The tree:* three levels with links to a file, to a directory and
back to the root of the walk, a fifo, an output of an earlier run with a second
name, a directory outside, and below another a file whose name is refused. Mangling
makes one name of two and moves one to the front. *Bounds:* nine lists of inputs
(overlapping, the output itself, through a link, missing, with the refused name
inside or outside the depth limit), nine outputs (one of them the fifo), three
depth limits, both systems, with and without `--preserve-timestamps`, all
undisturbed; a header that counts 9 files (for 65,535) and 8 suffixes (for 9999),
so that some lists of inputs have as many files as the header counts, some one too
many and some more than there are suffixes; and eight scenarios in which others rewrite two files
and exchange nine entries, with at most two changes in one run. Two changes are
one between any two looks at the same path and one more elsewhere; pack looks at
a path at most three times. *Properties:* `PackedAsAsked` against the reference,
`FailsForAReason`, `InputsSurvive`, `StampNotLater`, `ReadsNoLink`. The first three
are about runs in which others write files and exchange no entry: a file put in
the place of another is packed, or missed, or overwritten, and the code promises
nothing else. Deadlock is not checked: pack ends.

**run_after.** *Bounds:* a buffer of 10 bytes for 128, so that the whole trailer
fits behind a short command and is cut off behind a long one; all commands up to
3 bytes over NUL, CR, blank and a letter; all mixtures of blanks and letters at
the limit and one to either side; the smallest and the greatest length of a blob
in the repository. One damaged byte, four values. *Properties:* `RunsTheCommand`,
`HostAndStubAgree`, `OneVerdict`.

**fat_calendar.** Every day from 1968-12-31 to the end of 2109, which holds both
ends of FAT's range with their surroundings, 1970, and the centuries 2000 and
2100 of both kinds; on each day three times of day, the first, the last, and one
with three different fields. Nothing is scaled. *Properties:* `ShowsTheCalendar`,
`AlwaysADosDate`, `NeverGoesBack`. The one day on which the code disagrees with
its comment (below) is left out of two of them by name (`Unclamped`).

**host_codecs.** *Bounds:* two threads with every pair of codecs; data of 0 and 2
bytes; a dictionary one byte too small and one just large enough. Two threads are
enough for one to arrive before, during and after the other's initialisation; the
proof covers more. *Properties:* `TableReadyFirst`, `EveryDecoderFreed`,
`OkIsWhole`, `RoundTrips`, `AllReturn`.

**options.** The sizes are the real ones; the values enumerated are both sides of
every ceiling, and files of 65,535 and 65,536 bytes in chunks of one byte, so that
a record has as many chunks as it can count and one more. All algorithms, all
CPUs asked for, all CPUs run on. *Properties:* `RunsWhereAsked`, `LayersAgree`,
`ReadersAgree`.

### Fairness

- `StubExtract`: weak fairness of `Step`, the steps of `main()` itself. DOS runs
  one program at a time and `main()` has no waits, so it goes on until it exits
  or starts the child. Nothing obliges the child to return (so `Terminates` ends
  at the hand-over), and no failure is obliged to happen.
- `AplibChunk`: weak fairness of `Next`; writer and depacker are sequential code
  without a wait. A run always leads to the end mark because the writer may not
  write for ever on a finite chunk.
- `HostCodecs`: weak fairness of `Step(t)` for each thread: an operating system
  runs every thread that can run. A thread at `call_once` while another
  initialises cannot; `AllReturn` says that it is let go.
- `SfxFile`, `PackNames`, `PackTree`, `RunAfter`, `FatCalendar`, `Options`: none;
  only safety is claimed.

## The proofs

TLC checks the instances above; TLAPS proves the following for every value of
the constants that satisfies the named assumptions.

| Theorem | States | Module |
|---|---|---|
| `TypeCorrect` | `Spec => []TypeOK` | `StubExtractProofs` |
| `Aligned` | `Spec => []AtTheRightField` | `StubExtractProofs` |
| `Exact` | `Spec => []OutputsExact` | `StubExtractProofs` |
| `Implements` | `Spec => ImplementsExtraction` | `StubExtractProofs` |
| `CleanRuns` | `Spec => []CleanRunSucceeds` | `StubExtractProofs` |
| `WriterKeepsTheFormat` | `Fits(a) => WellFormed(Described(a, stubLen))` | `SfxFileProofs` |
| `BuildersKeepTheLimits` | `EntryAccepted(...) => EntryFits(...) /\ SizeOf(e) = n` for what `BuildChunks` makes of `n` bytes | `SfxFileProofs` |
| `Typed`, `ReportedLast` | `Spec => []TypeOK`, `[]ReportedFilesLast` | `SfxFileProofs` |
| `OnlyFinishedAccepted` | `Spec => []OnlyFinishedFilesAccepted` | `SfxFileProofs` |
| `ReportedUnpacks`, `UnpackedExactly` | `Spec => []ReportedFilesUnpack`, `[]UnpackedFilesExact` | `SfxFileProofs` |
| `CopiesMatches` | `DepackSpec => []CopyExact` | `AlgorithmProofs` |
| `ChunkTypes`, `ChunkComesBack`, `WholeStreamRead` | `Spec => []TypeOK`, `[]DecodedExact`, `[]WholeChunkDone` | `AlgorithmProofs` |
| `NamesTyped`, `NamesUnique`, `NamesAccepted`, `GivesUpWhenFull` | `Spec => []TypeOK`, `[]UniqueOnDos`, `[]AcceptedEverywhere`, `[]ExhaustedOnlyWhenFull` | `PackNamesProofs` |
| `Rebuilds` | `Spec => []Reproducible` | `PackNamesProofs` |
| `TypeCorrect` | `Spec => []TypeInv` | `PackTreeProofs` |
| `StampIsNeverLater` | `Spec => []StampNotLater` | `PackTreeProofs` |
| `FailuresHaveReasons`, `InputsAreNotDestroyed` | `Spec => []FailsForAReason`, `[]InputsSurvive` | `PackTreeProofs` |
| `ReadsFollowNoLink` | `Spec => ReadsNoLink` | `PackTreeProofs` |
| `WalkFindsWhatIsBelow` | `Spec => []PackedAsAsked` | `PackTreeProofs` |
| `DaysAreCounted` | `WalkSpec => []CalendarInv` | `AlgorithmProofs` |
| `StampsShowTheCalendar`, `StampsAreDates`, `StampsNeverGoBack` | `WalkSpec => []ShowsTheCalendar`, `[]AlwaysADosDate`, `NeverGoesBack` | `AlgorithmProofs` |
| `ArchivesRun`, `TablesAgree`, `InspectShowsTheRequest` | `Spec => []RunsWhereAsked`, `[]LayersAgree`, `[]ReadersAgree` | `OptionsProofs` |
| `OneLine`, `CommandRuns`, `ShownIsRun` | `Spec => []OneVerdict`, `[]RunsTheCommand`, `[]HostAndStubAgree` | `RunAfterProofs` |
| `TableReady`, `DecodersFreed`, `WholeOrError`, `RoundTrip` | `Spec => []TableReadyFirst`, `[]EveryDecoderFreed`, `[]OkIsWhole`, `[]RoundTrips` | `HostCodecsProofs` |

**The stub.** Assumed: `SfxsWellFormed` (the images are laid out as the format
says; `WriterKeepsTheFormat` proves this of all the writer makes, and TLC evaluates it) and `CeilingsMatch` (the
host's limits do not exceed the stub's buffers). Neither `AtTheRightField` nor
`OutputsExact` is inductive. The cursor is right only if the locals hold what the
header and record say (`LocalsMatch`: counts, algorithm, where the command is,
and that the buffer holds the bytes of the current chunk); the files are exact
only if it is known how much of the current one is written (`DiskMatches`: its
length is the offset of the chunk, or that offset plus what `copy_bytes` still
has to do, and every earlier file is closed or skipped). The invariant is the
conjunction of these with the three properties. There is one lemma per action;
the lemmas `FileGrows`, `CopyWindow` and `WriteWindow` carry the argument that
bytes appended to a prefix of a file are the next bytes of it. With it, `Aligned`
says that the stub never loses its place in any archive, however DOS cuts up its
reads, whatever was skipped.

**Refinement.** The mapping gives per record *untouched*, *partial*, *whole* or
*skipped*. Every action either is quiet (leaves the mapped state alone) or is one
step of `Extraction`: `Create` is `Begin`, `CannotCreate` is `Skip`, `CloseFile`
is `Finish`, `ExecLoads` is `Launch`, exits are `Succeed` or `Fail`. That
`CloseFile` finishes a *whole* file needs the invariant above, that an exit is
after all files needs `DiskMatches`, and that the command starts once needs one
more fact, that there is no child before `"exec"`.

**Clean runs.** `Faultless` says what holds as long as no call has failed: nothing
is skipped, the errorlevel is 0, and at the exit every file is closed and a packed
command has run. It is inductive together with the invariant and the child fact
above. The step that takes work is that no check fires: `OpeningPasses` shows it
for the trailer and the algorithm (the list in `stub_for` against the one in the
stub), `SizesPass` for the sizes of a chunk, which rests on the bounds in
`CeilingsMatch`.

**Block copies.** `DepackSpec` is the depacker alone, called with any bytes in
`g_src` and any contents of `g_buf`. The invariant adds that the source pointer
runs exactly `dx` behind the destination and that the block loop is entered with
a whole block left and an offset of at least a block. Then a block never loads a
byte that it has yet to store, so the overlapping match comes out as `rep movsb`
would have made it, for every width, offset and length. Assumed:
`FormatAssumption` (numbers are numbers).

**A whole chunk.** That a writer and a depacker agree is a relation between two
programs that are never at the same place, so the invariant `ChunkInv` needs
something that both have in common. This is a set of *places* (`Trail`): a place is
a state of the writer between two commands, with the stream so far, the bytes
written, the last offset and the flag. `Start` and the present state are places, and
each but the present one is left for another by a command of the writer (`Leads`).
The stream of each place is a beginning of the final one; this takes some care, as
the byte that takes bits is not the last one and goes on changing, so `Begins`
compares it without its free bits. When the end mark is written the set is a map of
the stream (`Map`), and the depacker walks on it. `At` says that it has read
what is in a stream and nothing more, down to the sentinel bit of its queue, and
`Stage` where it is, label by label: at a place, with its registers equal to the
place's offset and flag (`AtPlace`); behind some bits of a command whose end is the
next place (`AtMatch`, `OnTurn`, `AtOther`, `AtBackLow`, ...); or copying, with
window bytes ahead that equal those one offset back (`AtCopy`). The code word
decides the branch: from what is at the next place in the stream, `Codes` and the
lemmas behind it tell which bits come, and that no other command has them. Gamma
numbers are read bit by bit from the top while the writer's are built by halving;
`WaysExist` joins the two by the least-number principle. `DecodedExact` is the part
`MemOK`, `WholeChunkDone` the stage `AtDone`. Where the copy loop is split into blocks,
the argument of the paragraph above is used with the window's own bytes. Assumed:
`ChunkAssumption` (a chunk has a byte, and fits the buffer), `NumbersAssumption` (a low byte and a short offset with
its length fit into a byte, and a short offset is below the thresholds at which a
length is implied; with 256, 128 and 1280 they do, and so with the scaled numbers)
and `FormatAssumption`. Nothing is assumed of the writer's choices.

**Names.** The argument is about the shape of a name: a stem of 1 to `StemMax`
characters and an extension of 0 to `ExtMax`, none of them a dot, lower-case or
illegal. Mangle makes such names of anything, dedupe's candidates keep the shape,
and no candidate is a device name because device names contain no tilde. The
invariant is `VariablesOK` (every name so far is of that shape), `Progress`,
`used = Names` and `Distinct`. Names without lower case that are distinct are
distinct to DOS; names of this shape pass all three validators. When dedupe gives
up, all its candidates are among the names given out; they are different from one
another, because in two stems of one length the longer suffix has a digit where
the shorter has its tilde; so at least as many names as suffixes are given out.
Assumed: `NamesAssumption` (the lengths are positive, the printed suffix fits into
the stem, device names have no tilde, paths have names) and `DigitsAssumption`
(different numbers are printed differently).

**The same archive again.** The order of names is total (`LessIrreflexive`,
`LessTransitive`, `LessTotal`), and with the path as the second key so is the
order of the files. Two lists that are sorted by a total order and hold the same
files are the same list (`NotBefore`: if a file came before the one at the same
place of the other list, k files would have to be among k - 1). dedupe's choice
is unique (`ChoiceUnique`), so it makes the same names of the same list, by the
least-number principle on the first difference (`SameNames`). The invariant says
of the running pack how far it has come on its way from its arguments to its
result (`Outcome`) and keeps the outcome of the first pack; `SameOutcome` compares
the two at the end. The assumptions are those for names.

**The writer.** The format is one place after the other, so its proof is about sums
and about sequences joined end to end. `SumsAre` says what `PrefixSums` computes,
`Flattened` where the parts of a joined sequence lie: at the sums of the lengths
before them. Both are recursive functions, and what they are at every argument is
proved by the least-number principle (`Along`, `Recursion`). From them each field
has its place in a chunk, a chunk in a record, a record in the archive (`ChunkLies`,
`FileLies`, `ArchiveLies`, `ImageLies`), and `WellFormed` follows conjunct by
conjunct. Nothing is assumed but `Fits`, and that a builder's result fits is
`BuildersKeepTheLimits`, where packed data of a nonempty chunk is never empty (no
codec makes a stream of no bytes).

**The output file.** None of the three properties of the reader is inductive, nor
are they together: what unpack has read so far must be tied to the archive. The
invariant `IInv` has three parts.

- `Packing` is pack by itself: while it writes, the file is the first `wpos` cells
  of the archive, so nothing of an earlier file is left behind it; and a file that
  is reported is the whole archive and is what a power loss leaves of a file that has
  kept its name, because `sync_all` precedes the Ok. A file that has lost its name
  is there no more, and pack is off.
- `OnFile` says that the file, and what is durable of it, show an image (`Shows`):
  each is a prefix of one, cell for cell, but for what has rotted where a checksum
  covers it.
- `OnTrack` says where unpack can be in such a file. After `Open`, `at` is the
  stub's length or a place that holds no header; from then on header, record and
  entries are what the archive has, cell by cell, `at` is the place of the next
  field, and the byte budget is what the chunks still to come add up to. Behind
  `EndOfRecords` the file is whole, `k` entries are written and the rest is the
  archive's from `k + 1` on.

Each action of unpack has a lemma of two halves: the check passes and the reader
stays on track, or it fails and then the file is not a whole undamaged one
(`~Sound`). The second halves together are `ReportedFilesUnpack`.
`OnlyFinishedFilesAccepted` is decided at the end of the records. A reader that got
there has a file that holds them all, and that file ends with eight bytes that look
like a trailer. They cannot begin within the records, for then they would reach over
the CRC of the last one, or over the header (`NoTrailerInRecords`); behind the records
there are the command and the trailer only, so the file is whole (`WholeFile`).
`UnpackedFilesExact` follows from `CrcTells`: if the CRC of an entry fits, over data
and with a CRC that may have rotted, the data are the right ones. Assumed:
`ImagesAreWritten` (the images are what `WriteSfx` makes), `ArchivesAssumption` (the
archives fit, the numbers are numbers) and `InsideAssumption`. The last is about the contents of stored files: a trailer that shows inside an image
gives the length of the stub, or points at no header. Without it the property is
false, in the model and in the code: a file can be made to contain a header and a
trailer that points back at it, and then a pack killed right behind it leaves
something that unpack takes for an SFX. An SFX stored in another does not do that, as
its offset is counted from the start of the outer file; TLC evaluates the assumption
on such an image.

**The command.** The two validators accept the same commands (a text with a NUL
put behind it passes the check of the bytes exactly if the text passed). In the
file, the first NUL of what the stub reads is the one behind the command
(`PlaceIsFirst`, by the least-number principle), and a blank that `memchr` finds
lies in the command or the command has none, since the trailer's bytes up to the
end of the buffer are no blanks. So the split is the one the user meant
(`SplitIsMeant`), at every length and every limit. Assumed: `SizeAssumption` (the
buffer has at least two bytes), `CommandsAssumption`, `DamageAssumption` (bytes are
bytes), `OffsetsAssumption` (the stub's length, as bytes of the trailer, has none
equal to a blank; TLC evaluates this for the shortest and the longest blob only).

**Codecs.** The invariant has a part for the `Once` (`OnceGuards`: the table is
being written by the thread that won, or is complete, or nobody is past the call)
and three for each thread: what it owns and has freed (`Owns`), which chunk it
works on (`Knows`), and that a result is what the codec reported (`Honest`). A step
of one thread disturbs the parts of another only through the `Once`. Assumed:
`CodecsAssumption` (sizes are numbers). What a library may report is in `Encoded`
and `Reports`, not in an assumption.

**The walk.** Assumed: `TreeAssumption` (a finite list of entries per directory),
`LinksAssumption` (a link leads along a path without further links),
`NamesAssumption` (names are numbers, and so are the limits on files and suffixes)
and `ScenariosAssumption` (inputs are paths, others exchange entries of
directories). The first part of the module is about the calls, in any tree: what
`stat` and `lstat` find at a path extended by a name, that `realpath` gives a path
without links and one that finds the same inode, and that exchanging one entry
changes what is found behind that entry only. These rest on recursive functions
along a path, again by the least-number principle. The invariant has three parts.
`TypeInv` holds always: types, and that a stamp taken in pass 1 and contents read
in pass 2 are no newer than the file, from which `StampNotLater` follows.
`QuietInv` holds as long as nobody exchanges an entry: what the walk has on its
stack and in its list is there and is what it was found to be, the excluded path
finds the output under all its names, and what is packed and truncated is what the
paths name. Finally, as long as others exchange neither directories nor links, the
components of a listed path below its input stay free of links (`SteadyInv`),
which is the second half of `ReadsNoLink`.

**What the walk finds.** `PackedAsAsked` compares a depth-first walk that keeps a
stack with `Wanted`, which has no walk in it. `Yields` stands between them: what
an entry of the stack still has to give, as a set of paths behind it. Three facts
carry it. What an input yields is what is `Below` it (`BelowIsYields`): a path
that goes through directories only has a real path of the same length, `NotDeeper`
bounds it by the depth of the tree, and neither the limit nor a link lets the walk
past what the quantifier takes in. One round replaces an entry by what it yields:
a file by itself, a directory by its entries, anything else by nothing
(`TakesFirst`, `OpensFirst`). And the parts are in order: the entries of a
directory are put on the stack by name, and whatever is behind one name comes
before whatever is behind a greater one. So with `m` inputs begun and `n` entries
of the last still on the stack, what has been found is all that the inputs before
give, one behind the other (`Joined`), and behind it a list in the order of the
paths which, together with the `n` entries, covers the present one (`Covers`). At
the end nothing is left to cover, and a list in order is the only one with its
elements (`OneOrder`), so it is the one that `InOrder` chooses. The sort then
keeps the elements and puts each behind those that precede it: every place of the
list has one rank, and the ranks are the places (`Ranks`, `ArrangedInOrder`). Why
a run has failed is said by `AtFailure`: up to the end of the walk each step that
fails has the output or an input for its reason (`QuietFailed`), and behind it the
same result helps: as the list is `Wanted`, a refused name in it and its length
are those of what was asked for (`WantedIsAsked`, `AtFailure`). Needed besides:
nobody exchanges entries (that is in the property), and the output is no
directory. The second is in no assumption; a run that is done has created its
output and so shows it (`Written`). Assumed: the four above and
`DeepestAssumption`, that `Deepest` bounds the depth of the tree; `Wanted`
quantifies over paths up to it.

**The calendar.** `DayNumber` is a closed form: 365 days for each year since 1970 and
one more for every leap year before. `CalendarInv` says that the two clocks agree by
it; a step keeps it because each month begins where the one before ends
(`NextDateIsNext`). `CivilDateOf` shows that the code's arithmetic of eras and shifted
years inverts it, for every date of every year in `Int`, so nothing is left to the
range that TLC visits. The stamps then follow by reading the bit fields of the two
words (`DateWord`, `TimeWord`), the order of stamps from the order of those fields.
Assumed: `CalendarAssumption` (the first and the last year are integers, the seconds
lie within a day and midnight is one of them). `AlgorithmProofs` holds this and the
depacker; the two share no lemma.

**Requests.** `IInv` has one part per station: what was asked for (`RequestInv`), what
the layers passed so far have made sure of (`PassedInv`), the measures of the entry
(`EntryInv`), the bytes of the file (`FileInv`), and that nothing is shown or refused
before its time. `PassedInv` carries the theorems: it says of each table what its
passing means to the next. Assumed: `OptionsAssumption` (sizes and depths are
numbers), so the theorems hold between the sizes that TLC enumerates too.

**Model-checked only.** Every invariant and action property that a passing run checks
is stated by a theorem. With TLC stay `Terminates`, `Completes` and `AllReturn`:
liveness under fairness and `ENABLED` are out of the prover's reach. Of refinement,
the part of safety is proved (`Implements`). Induction theorems that take an
operator as a parameter cannot be used; where induction over data was needed, the
least-number principle on a set did instead. The three runs that end in a violation
are counterexamples, and nothing is to be proved there.

## What the models leave out

*The container.* Magic numbers and attributes are not represented; the content of
the command is in `RunAfter`. The inputs of `HostUnpack` are files that pack can
leave, also damaged; which check refuses a header that nobody's pack wrote is not
examined.

*The stub.* Depackers return what was packed; `AplibChunk` examines this for
aPLib. The LZMA decoder's `malloc`, which can fail, is one of the errors at the
header. Files that were closed are taken to survive a power loss (DOS writes the
directory entry at close). The child program leaves the disk alone. The stack work
of `exec_dos.asm` and the FCBs of the parameter block are not modelled. Names in
these images pass `validate_name`; `PackNames` shows that pack's names do.

*The output file.* pack and unpack are not run on one path at the same time.
Rot is in bytes that a checksum covers; a changed name, size or count is not
covered by one, in the code as in the model. The read and compression passes
before `write_sfx` are done: an error there touches no file. A power loss takes a
suffix or undoes the truncation; a file system that reorders data blocks could
leave more. A directory entry that has reached the disk is taken to stay there.

*The chunk.* What apultra's optimiser chooses is open, so its own correctness is
not claimed, only that of every stream its writer can write. The host's decoder
(`expand.c`) is not modelled. The 16-bit port computes an offset in 16 bits;
chunks are at most 16 KiB, so no offset gets near.

*Names.* `expand_inputs` is represented by its result; the walk, and files that
change under it, are in `PackTree`. Mangle's `UNNAMED` is for an empty stem, which
no file name has; it is not in the model. A candidate may equal the name it is
made from (a file really called `README~1`), so `ExhaustedOnlyWhenFull` asks for
as many named files as there are suffixes and not for one more.

*The tree.* Loops of links (the walk does not follow any) are left out, and a
directory is listed at one moment. A call that fails for a reason of its own (no
permission, a medium error) and a file or a sum that is too large are one action,
`CallFails`; `FailsForAReason` excepts the runs in which it was taken. An output
that is a fifo with no reader makes `File::create` wait for one; the model has the
step that fails, and a wait is the step not taken. The order of names is that of
numbers. A name is refused or not by itself, whatever the directory it is in.

*The command.* One byte is damaged at most. The command is read back by an
unpack on the same file.

*Time.* Moments before 1968 and after 2109 behave like those at the ends that are
modelled: both clamps are comparisons. Leap seconds are not in Unix time.

*Codecs.* Inside, the libraries are not modelled, only what they return; that they
share nothing but the CRC table between threads is read from their sources.

*Requests.* Modelled are the arguments that a later layer checks or depends on:
algorithm, CPU, chunk size, depth, timestamps (the command is in `RunAfter`, the
inputs and the output in `PackTree`). The spelling of arguments, the help texts and
what `inspect` prints around the fields are not.

*Not modelled at all:* the LZSA2 depackers (two assembly ports of a second bit
stream; the method of `AplibDepack` applies, the effort is that of the whole
format), `list-targets` and `list-algos` (they print fixed lists),
the timing of the benchmark, and the vendored codecs beyond what `AplibChunk` and
`HostCodecs` say of them. `PROJECT.json` gives the reason for each.

## Where code and documents disagree

Three sentences are refuted by a run:

- `README.md:196-197`: entries "are sorted lexicographically by the stored 8.3
  name". pack sorts by the mangled name and gives out `~N` suffixes afterwards.
  The counterexample has `ABCD.T` twice and `ABX.T`: the archive holds `ABCD.T`,
  `AB~1.T`, `ABX.T`, and `~` comes after `X`. The archive is reproducible all the
  same (`Reproducible`).
- `aplib_depack_mmx.asm:134-136` and `aplib_depack_sse.asm:136-139`: where blocks
  are used, source and destination "don't overlap". With an offset of at least a
  block but below the length they do. The copy is right all the same, for the
  reason above (`CopiesMatches`).
- `fat_time.rs:21-25`: times outside 1980-2107 are clamped. `FAT_MAX_UNIX` is a day
  too late: a file of 2108-01-01 is not clamped, its year does not fit into seven
  bits, and it shows as 1980-01-01.

Five more were met while reading and have no run:

- `stub.c:255-257` and `278-280` describe checks on the characters of a name;
  those of the extension are not checked. `CreatedByStub` is what the code does.
- `stub.c:598` looks for a blank in the whole buffer, also behind the NUL, which
  is not what the comment above it says. It does no harm to a file that is as it
  was written (`RunsTheCommand`); with a damaged byte it may, and
  `HostAndStubAgree` names the exception.
- `stub.c:641` says that `exec_dos` returns only when the load fails; lines
  637-638 and `exec_dos.asm` say that it returns in either case, and it does.
- `main.rs:248` says of the p3 tier that its SSE depacker is deferred;
  `Makefile:300-307` links `aplib_depack_sse` and `stubs.rs:19` says SSE. `Options`
  models what is linked.
- A command that begins with a blank is accepted at every place and has an empty
  program name, which DOS cannot load.

## Plan

Done: format and stub, the abstract extraction, output file and unpack,
depackers and writer, names, the command, the walk, time, codecs and requests, and
the theorems above. Left, in this order:

1. `Lzsa2Depack`: nibbles and repeat offsets, in the manner of `AplibDepack`; its
   proof can follow `ChunkInv`.
2. apultra's `expand.c` as one more port of the aPLib depacker.
3. A writer that is not `WriteSfx`: headers that no pack made, and which check of
   the two readers refuses each.
