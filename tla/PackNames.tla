------------------------------ MODULE PackNames ------------------------------
(***************************************************************************)
(* How pack names and orders the entries of an archive: mangle to 8.3,     *)
(* sort, resolve collisions, read.  Two packs of the same files run one    *)
(* after the other, with the files listed in different orders and touched  *)
(* in between, as a user rebuilds a release.                               *)
(*                                                                         *)
(* A name is a sequence of character codes; the lengths 8 and 3 and the    *)
(* range of the ~N suffixes are parameters.                                *)
(***************************************************************************)
EXTENDS Integers, Sequences, FiniteSets, Functions

CONSTANTS
  StemMax,    \* 8: characters before the dot
  ExtMax,     \* 3: characters after it
  MaxSuffix,  \* 9999: the last collision suffix dedupe tries
  Digits,     \* Digits[n]: what format! prints for n
  Reserved,   \* DOS_RESERVED: the device names
  Sources,    \* Sources[p]: the file name at the end of path p; paths compare as numbers
  MaxFiles    \* bound on the files of one pack

VARIABLES
  preserve,   \* opts.preserve_timestamps
  argv,       \* per pack, expand_inputs' list of paths
  pack,       \* which of the two packs is running
  stage,      \* where it is
  prelim,     \* pass 1: mangled name, path and mtime per file
  used,       \* dedupe's set of taken names
  entries,    \* final name, path and mtime per file
  files,      \* archive.files: name, contents and timestamp
  result      \* per pack, how it ended and the files it packed

vars == <<preserve, argv, pack, stage, prelim, used, entries, files, result>>

Dot == 46
Tilde == 126
Underscore == 95
LowerA == 97
LowerZ == 122
\* b" \"*+,/:;<=>?[\\]|"
ILLEGAL == {32, 34, 42, 43, 44, 47, 58, 59, 60, 61, 62, 63, 91, 92, 93, 124}

ASSUME NamesAssumption ==
  /\ StemMax \in Nat \ {0} /\ ExtMax \in Nat \ {0}
  /\ MaxSuffix \in Nat /\ MaxFiles \in Nat
  /\ Digits \in [1..MaxSuffix -> Seq(48..57)]
  /\ \A n \in 1..MaxSuffix : Len(Digits[n]) < StemMax
  /\ \A name \in Reserved : \A i \in DOMAIN name : name[i] # Tilde
  /\ DOMAIN Sources \subseteq Nat
  /\ \A p \in DOMAIN Sources : Sources[p] \in Seq(Nat) /\ Sources[p] # <<>>
\* Different suffixes are printed differently.
ASSUME DigitsAssumption == \A m, n \in 1..MaxSuffix : Digits[m] = Digits[n] => m = n

----------------------------------------------------------------------------
\* to_ascii_uppercase, of a character and of a name.
UpperCode(c) == IF c \in LowerA..LowerZ THEN c - 32 ELSE c
Upper(s) == [i \in 1..Len(s) |-> UpperCode(s[i])]

Take(s, n) == SubSeq(s, 1, IF Len(s) < n THEN Len(s) ELSE n)

\* 0 when there is none.
LastDot(s) == CHOOSE i \in 0..Len(s) :
                /\ i > 0 => s[i] = Dot
                /\ \A j \in (i + 1)..Len(s) : s[j] # Dot

\* The character sanitize_part stores for c.
CleanKeepsCase(c) == IF c \in 32..126 \ (ILLEGAL \cup {Dot}) THEN c ELSE Underscore
CleanKeepsDot(c) == IF c \in 32..126 \ ILLEGAL THEN UpperCode(c) ELSE Underscore
Clean(c) == IF c \in 32..126 \ (ILLEGAL \cup {Dot}) THEN UpperCode(c) ELSE Underscore

SanitizePart(s, max) == LET kept == Take(s, max) IN [i \in 1..Len(kept) |-> Clean(kept[i])]

\* Stem and extension, joined by a dot if there is an extension.
Joined(stem, ext) == IF ext = <<>> THEN stem ELSE stem \o <<Dot>> \o ext

\* mangle: a name whose only dot is its first character has no extension.  A stem comes out
\* empty for no file name, so mangle's UNNAMED never appears.
Mangle(s) ==
  LET dot == LastDot(s)
      stem == IF dot <= 1 THEN s ELSE SubSeq(s, 1, dot - 1)
      ext  == IF dot <= 1 THEN <<>> ELSE SubSeq(s, dot + 1, Len(s))
  IN  Joined(SanitizePart(stem, StemMax), SanitizePart(ext, ExtMax))

\* The part of a name before its first dot.
StemOf(s) == Take(s, CHOOSE n \in 0..Len(s) : /\ \A i \in 1..n : s[i] # Dot
                                              /\ n < Len(s) => s[n + 1] = Dot)
IsDosReserved(s) == Upper(StemOf(s)) \in Reserved

\* The name dedupe tries with suffix ~n: the stem gives way, the extension stays.
CandidateUntrimmed(name, n) ==
  LET dot  == LastDot(name)
      stem == IF dot = 0 THEN name ELSE SubSeq(name, 1, dot - 1)
      ext  == IF dot = 0 THEN <<>> ELSE SubSeq(name, dot, Len(name))
  IN  stem \o <<Tilde>> \o Digits[n] \o ext
CandidateTrimmedLate(name, n) ==
  LET dot  == LastDot(name)
      stem == IF dot = 0 THEN name ELSE SubSeq(name, 1, dot - 1)
      ext  == IF dot = 0 THEN <<>> ELSE SubSeq(name, dot, Len(name))
  IN  Take(stem \o <<Tilde>> \o Digits[n], StemMax) \o ext
Candidate(name, n) ==
  LET dot  == LastDot(name)
      stem == IF dot = 0 THEN name ELSE SubSeq(name, 1, dot - 1)
      ext  == IF dot = 0 THEN <<>> ELSE SubSeq(name, dot, Len(name))
      suffix == <<Tilde>> \o Digits[n]
      keep == IF Len(suffix) < StemMax THEN StemMax - Len(suffix) ELSE 0
  IN  Take(stem, keep) \o suffix \o ext

\* The suffixes that are free for a name.
Free(name) == {n \in 1..MaxSuffix : Candidate(name, n) \notin used}

----------------------------------------------------------------------------
\* String::cmp
Less(s, t) ==
  \E n \in 0..Len(s) :
    /\ n <= Len(t) /\ Take(s, n) = Take(t, n)
    /\ n < Len(t)
    /\ n = Len(s) \/ s[n + 1] < t[n + 1]

\* The sort key: mangled name, then source path.
BeforeByNameOnly(a, b) == Less(a.name, b.name)
Before(a, b) == Less(a.name, b.name) \/ (a.name = b.name /\ a.path < b.path)

\* sort_by, which is stable: the k-th file of the result is the f[k]-th of s.
Sortings(s) ==
  {f \in Bijection(DOMAIN s, DOMAIN s) :
     \A j, k \in DOMAIN s :
       j < k => \/ Before(s[f[j]], s[f[k]])
                \/ ~Before(s[f[k]], s[f[j]]) /\ f[j] < f[k]}

\* What a file's mtime becomes in its entry.
Timestamp(e) == IF preserve THEN e.mtime ELSE 0

----------------------------------------------------------------------------
Fresh == stage' = "stat" /\ prelim' = <<>> /\ used' = {} /\ entries' = <<>> /\ files' = <<>>

\* The two packs get the same files, the first in path order and the second in any order.
Init ==
  /\ preserve \in BOOLEAN
  /\ \E n \in 0..MaxFiles : \E s \in [1..n -> DOMAIN Sources], f \in Bijection(1..n, 1..n) :
       /\ \A j, k \in 1..n : j < k => s[j] <= s[k]
       /\ argv = <<s, [k \in 1..n |-> s[f[k]]]>>
  /\ pack = 1 /\ stage = "stat" /\ prelim = <<>> /\ used = {} /\ entries = <<>> /\ files = <<>>
  /\ result = <<>>

Fail(why) == stage' = why /\ UNCHANGED <<preserve, argv, pack, prelim, used, entries, files, result>>

\* Pass 1, one file: stat, mangle, refuse a device name.  The files are touched between packs.
Stat ==
  /\ stage = "stat" /\ Len(prelim) < Len(argv[pack])
  /\ LET path == argv[pack][Len(prelim) + 1]
         name == Mangle(Sources[path])
     IN  IF IsDosReserved(name) THEN Fail("reserved")
         ELSE /\ prelim' = Append(prelim, [name |-> name, path |-> path, mtime |-> pack])
              /\ UNCHANGED <<preserve, argv, pack, stage, used, entries, files, result>>

\* All files are known: the reproducible default sorts them.
Sort ==
  /\ stage = "stat" /\ Len(prelim) = Len(argv[pack])
  /\ IF preserve THEN prelim' = prelim
     ELSE \E f \in Sortings(prelim) : prelim' = [k \in 1..Len(prelim) |-> prelim[f[k]]]
  /\ stage' = "dedupe"
  /\ UNCHANGED <<preserve, argv, pack, used, entries, files, result>>

\* One file gets its final name: its own if it is free, or the first free suffix.
TakeName(name) ==
  /\ used' = used \cup {name}
  /\ entries' = Append(entries, [prelim[Len(entries) + 1] EXCEPT !.name = name])
  /\ UNCHANGED <<preserve, argv, pack, stage, prelim, files, result>>
Dedupe ==
  /\ stage = "dedupe" /\ Len(entries) < Len(prelim)
  /\ LET name == prelim[Len(entries) + 1].name
     IN  IF name \notin used THEN TakeName(name)
         ELSE IF Free(name) = {} THEN Fail("exhausted")
         ELSE \E n \in Free(name) : /\ \A m \in Free(name) : n <= m
                                    /\ TakeName(Candidate(name, n))

\* One file is read and built into an entry of the archive.
Build ==
  /\ stage = "dedupe" /\ Len(entries) = Len(prelim) /\ Len(files) < Len(entries)
  /\ LET e == entries[Len(files) + 1]
     IN  files' = Append(files, [name |-> e.name, data |-> e.path, stamp |-> Timestamp(e)])
  /\ UNCHANGED <<preserve, argv, pack, stage, prelim, used, entries, result>>

\* The archive is complete and goes to write_sfx.
WriteSfx ==
  /\ stage = "dedupe" /\ Len(entries) = Len(prelim) /\ Len(files) = Len(entries)
  /\ stage' = "packed"
  /\ UNCHANGED <<preserve, argv, pack, prelim, used, entries, files, result>>

\* The pack has ended, and the user packs again.
Ended == stage \in {"packed", "reserved", "exhausted"}
Again ==
  /\ Ended /\ pack = 1
  /\ result' = [end |-> stage, files |-> files]
  /\ pack' = 2 /\ Fresh /\ UNCHANGED <<preserve, argv>>

\* Both packs have ended.
Over == Ended /\ pack = 2 /\ UNCHANGED vars

Next == Stat \/ Sort \/ Dedupe \/ Build \/ WriteSfx \/ Again \/ Over
Spec == Init /\ [][Next]_vars

----------------------------------------------------------------------------
\* validate_archive_name: what Archive::read takes for a name (given without its NUL).
ReadByHost(s) ==
  /\ Len(s) \in 1..(StemMax + 1 + ExtMax)
  /\ \A i \in DOMAIN s : s[i] \in 32..126 \ ILLEGAL
  /\ Cardinality({i \in DOMAIN s : s[i] = Dot}) <= 1
  /\ LET dot == LastDot(s)
     IN  IF dot = 0 THEN Len(s) <= StemMax
         ELSE dot - 1 \in 1..StemMax /\ Len(s) - dot <= ExtMax
  /\ s[Len(s)] # Dot
  /\ ~IsDosReserved(s)

\* safe_basename: what unpack takes for the name of a file it creates.
UnpackedByHost(s) ==
  /\ s # <<>>
  /\ \A i \in DOMAIN s : s[i] >= 32 /\ s[i] # 127 /\ s[i] \notin ILLEGAL
  /\ s[1] # Dot /\ s[Len(s)] # Dot
  /\ ~IsDosReserved(s)

\* validate_name in the stub: characters are checked up to the first dot only.
CreatedByStub(s) ==
  /\ Len(s) \in 1..(StemMax + 1 + ExtMax)
  /\ s[1] # Dot /\ s[Len(s)] # Dot /\ s[Len(s)] # 32
  /\ LET n == Len(StemOf(s))
     IN  /\ \A i \in 1..n : s[i] \in 32..126 \ ILLEGAL
         /\ n \in 1..StemMax
         /\ n < Len(s) => Len(s) - n - 1 <= ExtMax /\ LastDot(s) = n + 1
  /\ ~IsDosReserved(s)

----------------------------------------------------------------------------
Names == {entries[i].name : i \in DOMAIN entries}

\* Every name that is taken fits 8.3, and the names taken are those of the entries so far.
TypeOK ==
  /\ preserve \in BOOLEAN /\ pack \in 1..2
  /\ stage \in {"stat", "dedupe", "packed", "reserved", "exhausted"}
  /\ used = Names
  /\ \A s \in used : Len(s) <= StemMax + 1 + ExtMax
  /\ Len(files) <= Len(entries) /\ Len(entries) <= Len(prelim) /\ Len(prelim) <= Len(argv[pack])

\* No two entries of an archive are the same file to DOS, which ignores case: neither the
\* stub's creat nor unpack on a case-insensitive disk overwrites one with another.
UniqueOnDos ==
  \A i, j \in DOMAIN entries : Upper(entries[i].name) = Upper(entries[j].name) => i = j

\* Whatever the source files are called, the three checks that a stored name meets later,
\* in Archive::read, in unpack and in the stub, let it through.
AcceptedEverywhere ==
  \A i \in DOMAIN entries : /\ ReadByHost(entries[i].name)
                            /\ UnpackedByHost(entries[i].name)
                            /\ CreatedByStub(entries[i].name)

\* In the reproducible default the archive depends on the set of files alone: not on the
\* order they were given or listed in, nor on when they were last touched.
Reproducible ==
  (~preserve /\ pack = 2 /\ Ended) => result = [end |-> stage, files |-> files]

\* pack gives up on a collision only when the suffixes really ran out: it has named at least
\* as many files as there are suffixes (one more, unless the name is its own candidate).
ExhaustedOnlyWhenFull == stage = "exhausted" => Len(entries) >= MaxSuffix

\* README.md, Reproducible builds: "file entries are sorted lexicographically by the stored
\* 8.3 name".
SortedByStoredName ==
  (~preserve /\ stage = "packed") =>
    \A i, j \in DOMAIN files : i < j => Less(files[i].name, files[j].name)
=============================================================================
