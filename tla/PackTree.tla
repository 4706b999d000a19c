------------------------------ MODULE PackTree ------------------------------
(***************************************************************************)
(* Which files pack puts into an archive: the checks on the output, the    *)
(* walk over the inputs, pass 1, the reads and the creation of the output, *)
(* call by call, in a file system that others may change between two calls.*)
(*                                                                         *)
(* Names are numbers and compare as such, paths are sequences of names     *)
(* from the root.  How a name becomes an 8.3 name is in PackNames and a    *)
(* table here; the contents of the output are in SfxFile.                  *)
(***************************************************************************)
EXTENDS Integers, Sequences, FiniteSets, SequencesExt

CONSTANTS
  Kind,       \* per inode "dir", "file", "link" or "other" (device, fifo, socket)
  Dest,       \* per link the path it stands for, without links in it
  Tree,       \* per directory its entries at the start: name to inode
  Mangled,    \* per name that mangle changes, what it becomes
  Unnamed,    \* the names that are no UTF-8 or become a device name
  MaxFiles,   \* u16::MAX, the archive's count of files
  MaxSuffix,  \* how many suffixes dedupe tries
  Scenarios,  \* what may be asked for, on which system, and what others may do
  MaxChanges, \* bound on what others do during one run
  Deepest     \* bound on the depth of the tree, for the reference only

Root == 0
Missing == -1
NoPath == <<>>

VARIABLES
  asked,      \* the scenario: inputs, output, max_depth, preserve_timestamps, the system
  tree,       \* the entries now
  version,    \* per file, how often it was written: its contents and its mtime
  swapped,    \* the entries <<dir, name>> that others have exchanged
  stage,
  exclude,    \* canonical path of the output, when there was one
  todo,       \* what the walk has yet to visit, the innermost directory first
  meta,       \* what symlink_metadata said of the first of todo
  out,        \* expand_inputs' list
  prelim,     \* pass 1: paths with their mtimes
  packed,     \* path, file, contents and timestamp of each entry
  clobbered,  \* the file that File::create has truncated
  fault       \* a call of pack's own has failed

vars == <<asked, tree, version, swapped, stage, exclude, todo, meta, out, prelim, packed, clobbered, fault>>
fs == <<tree, version, swapped>>

----------------------------------------------------------------------------
(* The file system: link-free lookup, realpath, stat and lstat.            *)

KindOf(i) == IF i \in DOMAIN Kind THEN Kind[i] ELSE "none"

\* What the directory i has under a name, and what a path leads to, in a tree t.
Hop(t, i, n) == IF KindOf(i) = "dir" /\ n \in DOMAIN t[i] THEN t[i][n] ELSE Missing
Node(t, path) ==
  LET at[k \in 0..Len(path)] == IF k = 0 THEN Root ELSE Hop(t, at[k - 1], path[k])
  IN  at[Len(path)]

\* One component more of a path that has no links so far.
Enter(t, p, n) ==
  LET i == Node(t, Append(p, n)) IN IF KindOf(i) = "link" THEN Dest[i] ELSE Append(p, n)
CanonIn(t, path) ==
  LET real[k \in 0..Len(path)] == IF k = 0 THEN NoPath ELSE Enter(t, real[k - 1], path[k])
  IN  real[Len(path)]
StatIn(t, path) == Node(t, CanonIn(t, path))
LStatIn(t, path) == Hop(t, StatIn(t, Front(path)), Last(path))

Canon(path) == CanonIn(tree, path)
Stat(path) == StatIn(tree, path)
LStat(path) == LStatIn(tree, path)

\* A system without O_NOFOLLOW and without inode numbers.
OnWindows == asked.system = "windows"

Paths == Seq(Nat) \ {NoPath}
Inodes == DOMAIN Kind

ASSUME TreeAssumption ==
  /\ Root \in Inodes /\ Kind[Root] = "dir" /\ Missing \notin Inodes
  /\ \A i \in Inodes : Kind[i] \in {"dir", "file", "link", "other"}
  /\ DOMAIN Tree = {i \in Inodes : Kind[i] = "dir"}
  /\ \A i \in DOMAIN Tree :
       /\ IsFiniteSet(DOMAIN Tree[i])
       /\ \A n \in DOMAIN Tree[i] : n \in Nat /\ Tree[i][n] \in Inodes
  /\ MaxChanges \in Nat /\ Deepest \in Nat

ASSUME NamesAssumption ==
  /\ \A n \in DOMAIN Mangled : n \in Nat /\ Mangled[n] \in Nat
  /\ Unnamed \subseteq Nat /\ MaxFiles \in Nat /\ MaxSuffix \in Nat

\* Nothing lies more than Deepest levels below an entry of the root.
ASSUME DeepestAssumption ==
  \A path \in [1..Deepest + 2 -> UNION {DOMAIN Tree[i] : i \in DOMAIN Tree}] : Node(Tree, path) = Missing

\* What a link stands for is written without links.
ASSUME LinksAssumption ==
  \A i \in Inodes : Kind[i] = "link" =>
    /\ i \in DOMAIN Dest /\ Dest[i] \in Seq(Nat)
    /\ \A k \in 1..Len(Dest[i]) : KindOf(Node(Tree, SubSeq(Dest[i], 1, k))) # "link"

\* The root is neither packed nor written to; others exchange entries that were there.
ASSUME ScenariosAssumption ==
  \A a \in Scenarios :
    /\ a.inputs \in Seq(Paths) /\ a.output \in Paths /\ a.max \in Nat /\ a.preserve \in BOOLEAN
    /\ \A s \in a.swaps : /\ s[1] \in Inodes /\ Kind[s[1]] = "dir" /\ s[2] \in DOMAIN Tree[s[1]]
                         /\ s[3] \in Inodes \cup {Missing}

----------------------------------------------------------------------------
Top(path) == [path |-> path, depth |-> 0]

Init ==
  /\ asked \in Scenarios
  /\ tree = Tree /\ version = [i \in {j \in DOMAIN Kind : Kind[j] = "file"} |-> 0] /\ swapped = {}
  /\ stage = "output" /\ exclude = NoPath /\ meta = Missing
  /\ todo = [k \in 1..Len(asked.inputs) |-> Top(asked.inputs[k])]
  /\ out = <<>> /\ prelim = <<>> /\ packed = <<>> /\ clobbered = Missing /\ fault = FALSE

Goto(s) == stage' = s
Keep == UNCHANGED <<asked, fs, fault>>

\* A symlink as the output is refused.
CheckOutput ==
  /\ stage = "output"
  /\ Goto(IF KindOf(LStat(asked.output)) = "link" THEN "failed" ELSE "exclude")
  /\ Keep /\ UNCHANGED <<exclude, todo, meta, out, prelim, packed, clobbered>>

\* canonicalize_for_exclude.
Exclude ==
  /\ stage = "exclude"
  /\ exclude' = IF Stat(asked.output) = Missing THEN NoPath ELSE Canon(asked.output)
  /\ Goto("walk")
  /\ Keep /\ UNCHANGED <<todo, meta, out, prelim, packed, clobbered>>

\* The head of the loops in expand_inputs and walk_dir: links are passed over.
Visit ==
  /\ stage = "walk" /\ todo # <<>>
  /\ LET i == LStat(Head(todo).path)
     IN /\ Goto(CASE i = Missing -> "failed" [] KindOf(i) = "link" -> "walk" [] OTHER -> "judge")
        /\ todo' = IF KindOf(i) = "link" THEN Tail(todo) ELSE todo
        /\ meta' = i
  /\ Keep /\ UNCHANGED <<exclude, out, prelim, packed, clobbered>>

\* Mutant: canonical paths only, on every system.
MatchesExcludePathOnly(path) == exclude # NoPath /\ Stat(path) # Missing /\ Canon(path) = exclude

MatchesExclude(path) ==
  /\ exclude # NoPath
  /\ \/ ~OnWindows /\ LStat(path) # Missing /\ LStat(path) = LStat(exclude)
     \/ Stat(path) # Missing /\ Canon(path) = exclude

\* Mutant: one level too many.
DescendsTooFar(depth) == asked.max = 0 \/ depth <= asked.max

\* None is 0; pack refuses a limit of 0.
Descends(depth) == asked.max = 0 \/ depth < asked.max

\* Mutant: the output is an error wherever it is met.
VerdictStrict(entry) ==
  IF MatchesExclude(entry.path) THEN "refuse"
  ELSE CASE Kind[meta] = "file" -> "take"
         [] Kind[meta] = "dir" /\ Descends(entry.depth) -> "descend"
         [] OTHER -> "drop"

\* What becomes of an entry; an input named by the user is refused where an entry
\* met on the way is dropped.
Verdict(entry) ==
  IF MatchesExclude(entry.path) THEN IF entry.depth = 0 THEN "refuse" ELSE "drop"
  ELSE CASE Kind[meta] = "file" -> "take"
         [] Kind[meta] = "dir" /\ Descends(entry.depth) -> "descend"
         [] Kind[meta] = "other" /\ entry.depth = 0 -> "refuse"
         [] OTHER -> "drop"

\* The rest of the loop's body, by the kind that Visit has seen.
Judge ==
  /\ stage = "judge"
  /\ LET verdict == Verdict(Head(todo))
     IN /\ out' = IF verdict = "take" THEN Append(out, Head(todo).path) ELSE out
        /\ todo' = IF verdict \in {"take", "drop"} THEN Tail(todo) ELSE todo
        /\ Goto(CASE verdict = "refuse" -> "failed" [] verdict = "descend" -> "readdir" [] OTHER -> "walk")
  /\ Keep /\ UNCHANGED <<exclude, meta, prelim, packed, clobbered>>

\* The names of a directory in their order.
Sorted(names) ==
  [k \in 1..Cardinality(names) |->
     CHOOSE n \in names : Cardinality({m \in names : m < n}) = k - 1]

\* walk_dir's read_dir and sort; read_dir follows a link that has come here since.
ReadDir ==
  /\ stage = "readdir"
  /\ LET dir == Head(todo)
         i == Stat(dir.path)
         names == Sorted(DOMAIN tree[i])
     IN IF KindOf(i) = "dir"
        THEN /\ todo' = [k \in 1..Len(names) |-> [path |-> Append(dir.path, names[k]), depth |-> dir.depth + 1]]
                        \o Tail(todo)
             /\ Goto("walk")
        ELSE Goto("failed") /\ UNCHANGED todo
  /\ Keep /\ UNCHANGED <<exclude, meta, out, prelim, packed, clobbered>>

\* More files than the header can count are refused.
WalkDone ==
  /\ stage = "walk" /\ todo = <<>>
  /\ Goto(IF Len(out) > MaxFiles THEN "failed" ELSE "stat")
  /\ Keep /\ UNCHANGED <<exclude, todo, meta, out, prelim, packed, clobbered>>

\* Pass 1: anything but a regular file is an error now, and so is a name that 8.3 has no room for.
StatNext ==
  /\ stage = "stat"
  /\ IF Len(prelim) = Len(out) THEN Goto("name") /\ UNCHANGED prelim
     ELSE LET path == out[Len(prelim) + 1]
              i == LStat(path)
          IN IF KindOf(i) = "file" /\ Last(path) \notin Unnamed
             THEN /\ prelim' = Append(prelim, [path |-> path, file |-> i, mtime |-> version[i]])
                  /\ UNCHANGED stage
             ELSE Goto("failed") /\ UNCHANGED prelim
  /\ Keep /\ UNCHANGED <<exclude, todo, meta, out, packed, clobbered>>

\* By components, a directory before what is in it.
Lexicographic(p, q) ==
  \/ Len(p) < Len(q) /\ p = SubSeq(q, 1, Len(p))
  \/ \E k \in 1..Len(p) : k <= Len(q) /\ p[k] < q[k] /\ SubSeq(p, 1, k - 1) = SubSeq(q, 1, k - 1)

Mangle(n) == IF n \in DOMAIN Mangled THEN Mangled[n] ELSE n

\* The archive's order: by mangled name, then by path.
Precedes(p, q) ==
  LET m == Mangle(Last(p))
      n == Mangle(Last(q))
  IN  m < n \/ (m = n /\ Lexicographic(p, q))

\* sort_by leaves equal entries as they are.
Earlier(list, j, k) ==
  \/ Precedes(list[j].path, list[k].path)
  \/ list[j].path = list[k].path /\ j < k

Arranged(list) ==
  [k \in 1..Len(list) |->
     list[CHOOSE i \in 1..Len(list) : Cardinality({j \in 1..Len(list) : Earlier(list, j, i)}) = k - 1]]

\* The sort, then dedupe: it gives up when all suffixes of a stem are taken, each by a file.
NameAll ==
  /\ stage = "name"
  /\ \/ Goto("read") /\ prelim' = IF asked.preserve THEN prelim ELSE Arranged(prelim)
     \/ Len(prelim) > MaxSuffix /\ Goto("failed") /\ UNCHANGED prelim
  /\ Keep /\ UNCHANGED <<exclude, todo, meta, out, packed, clobbered>>

\* Mutant: fs::read on every system.
ReadNoFollowPlain(path) == Stat(path)

\* read_no_follow: the file that is read.
ReadNoFollow(path) == IF OnWindows THEN Stat(path) ELSE LStat(path)

\* The time that goes into the archive.
Stamp(mtime) == IF asked.preserve THEN mtime ELSE 0

ReadNext ==
  /\ stage = "read"
  /\ IF Len(packed) = Len(prelim) THEN Goto("create") /\ UNCHANGED packed
     ELSE LET entry == prelim[Len(packed) + 1]
              i == ReadNoFollow(entry.path)
          IN IF KindOf(i) = "file"
             THEN /\ packed' = Append(packed, [path |-> entry.path, file |-> i, contents |-> version[i],
                                               same |-> i = entry.file, stamp |-> Stamp(entry.mtime)])
                  /\ UNCHANGED stage
             ELSE Goto("failed") /\ UNCHANGED packed
  /\ Keep /\ UNCHANGED <<exclude, todo, meta, out, prelim, clobbered>>

\* Mutant: the mtime is asked for again at the end.
CreateRestamps ==
  /\ stage = "create"
  /\ packed' = [k \in DOMAIN packed |-> [packed[k] EXCEPT !.stamp = Stamp(version[packed[k].file])]]
  /\ Goto("done")
  /\ Keep /\ UNCHANGED <<exclude, todo, meta, out, prelim, clobbered>>

\* write_sfx's File::create: it follows links and truncates what it finds.  A fifo that
\* nobody reads blocks it; one that somebody reads fails the sync behind the write.
Create ==
  /\ stage = "create"
  /\ LET i == Stat(asked.output)
         there == KindOf(i) = "file"
     IN /\ clobbered' = IF there THEN i ELSE clobbered
        /\ Goto(IF there \/ (i = Missing /\ KindOf(Stat(Front(Canon(asked.output)))) = "dir")
                THEN "done" ELSE "failed")
  /\ Keep /\ UNCHANGED <<exclude, todo, meta, out, prelim, packed>>

\* A call that may fail for a reason of its own, EACCES or EIO say, or because a file or
\* their sum is too large; a failing write leaves the output truncated.
Calling ==
  \/ stage \in {"exclude", "readdir", "create"}
  \/ stage = "walk" /\ todo # <<>>
  \/ stage = "stat" /\ Len(prelim) < Len(out)
  \/ stage = "read" /\ Len(packed) < Len(prelim)
CallFails ==
  /\ Calling
  /\ fault' = TRUE
  /\ Goto("failed")
  /\ LET i == Stat(asked.output)
     IN clobbered' \in {clobbered} \cup (IF stage = "create" /\ KindOf(i) = "file" THEN {i} ELSE {})
  /\ UNCHANGED <<asked, fs, exclude, todo, meta, out, prelim, packed>>

----------------------------------------------------------------------------
(* Others, while pack runs.                                                *)

Running == stage \notin {"done", "failed"}
Changes == Cardinality(swapped) + FoldFunction(+, 0, version)

Rewrite(i) ==
  /\ Running /\ Changes < MaxChanges
  /\ version' = [version EXCEPT ![i] = @ + 1]
  /\ UNCHANGED <<asked, tree, swapped, stage, exclude, todo, meta, out, prelim, packed, clobbered, fault>>

\* rename, ln -s or rm: an entry stands for something else, or for nothing.
Swap(dir, name, i) ==
  /\ Running /\ Changes < MaxChanges
  /\ <<dir, name>> \notin swapped
  /\ tree' = [tree EXCEPT ![dir] = IF i = Missing THEN [n \in DOMAIN @ \ {name} |-> @[n]]
                                   ELSE [@ EXCEPT ![name] = i]]
  /\ swapped' = swapped \cup {<<dir, name>>}
  /\ UNCHANGED <<asked, version, stage, exclude, todo, meta, out, prelim, packed, clobbered, fault>>

Others ==
  \/ \E i \in asked.rewrites : Rewrite(i)
  \/ \E s \in asked.swaps : Swap(s[1], s[2], s[3])

Pack == \/ CheckOutput \/ Exclude \/ Visit \/ Judge \/ ReadDir \/ WalkDone
        \/ StatNext \/ NameAll \/ ReadNext \/ Create \/ CallFails
Next == Pack \/ Others
Spec == Init /\ [][Next]_vars

----------------------------------------------------------------------------
(* What was asked for, told without a walk.                                *)

Names == UNION {DOMAIN tree[d] : d \in DOMAIN tree}
Within(depth) == UNION {[1..k -> Names] : k \in 0..depth}

SameAsOutput(path, i) ==
  Stat(asked.output) # Missing /\ IF OnWindows THEN path = Canon(asked.output) ELSE i = Stat(asked.output)

\* The regular files at or below an input, by their paths without links: those of
\* the names that lead to a file, not deeper than the limit, and not the output.
Below(top) ==
  IF KindOf(LStat(top)) = "link" THEN {}
  ELSE {top \o r : r \in {r \in Within(IF asked.max = 0 THEN Deepest ELSE asked.max) :
                            LET i == Node(tree, Canon(top) \o r)
                            IN KindOf(i) = "file" /\ ~SameAsOutput(Canon(top) \o r, i)}}

InOrder(paths) ==
  [k \in 1..Cardinality(paths) |->
     CHOOSE p \in paths : Cardinality({q \in paths : Lexicographic(q, p)}) = k - 1]

Wanted == FlattenSeq([k \in 1..Len(asked.inputs) |-> InOrder(Below(asked.inputs[k]))])

Times(list, path) == Cardinality({k \in 1..Len(list) : list[k] = path})

\* expand_inputs over any number of inputs, overlapping or not, with links, cycles of
\* links, fifos and hard links in the tree, packs every regular file within the depth
\* once per input, and neither the output nor anything behind a link; writes by others
\* change nothing of that.  The archive has them in the order of the inputs and of the
\* paths with --preserve-timestamps, and by mangled name, then by path without.
PackedAsAsked ==
  stage = "done" /\ swapped = {} =>
    LET paths == [k \in 1..Len(packed) |-> packed[k].path]
        wanted == Wanted
    IN IF asked.preserve THEN paths = wanted
       ELSE /\ \A j, k \in 1..Len(paths) : j < k => ~Precedes(paths[k], paths[j])
            /\ Len(paths) = Len(wanted)
            /\ \A k \in 1..Len(wanted) : Times(paths, wanted[k]) = Times(wanted, wanted[k])

\* When nobody moves files and no call fails by itself, pack gives up only for a reason
\* the user can see.  The output is a link, a directory, a fifo or nowhere; an input is
\* missing, is no file or directory, or is the output; or among the files to be packed
\* is one whose name is no UTF-8 or becomes a device name, or there are more of them than
\* the header can count or than one name has suffixes for.  Links, fifos and the output
\* met in the walk are no such reason, nor are the names of files that are left out.
FailsForAReason ==
  stage = "failed" /\ swapped = {} /\ ~fault =>
    \/ KindOf(LStat(asked.output)) \notin {"file", "none"}
    \/ KindOf(Stat(Front(asked.output))) # "dir"
    \/ \E k \in 1..Len(asked.inputs) :
         LET i == LStat(asked.inputs[k])
         IN KindOf(i) \in {"none", "other"} \/ SameAsOutput(Canon(asked.inputs[k]), i)
    \/ LET wanted == Wanted
       IN \/ \E k \in 1..Len(wanted) : Last(wanted[k]) \in Unnamed
          \/ Len(wanted) > MaxFiles \/ Len(wanted) > MaxSuffix

\* No file that was packed is destroyed by writing the output, and be it by a write that
\* fails: the output is recognised under every name it has in the inputs, unless others
\* move files meanwhile.  On Windows this holds for a file with one name only (the
\* warning that pack prints there).
InputsSurvive ==
  swapped = {} =>
    \A k \in 1..Len(packed) :
      packed[k].file = clobbered => OnWindows /\ Canon(packed[k].path) # Canon(asked.output)

\* One read, for ReadsNoLink.
ReadFollowsNoLink ==
  packed' # packed /\ ~OnWindows =>
    LET path == Last(packed').path
    IN /\ KindOf(LStat(path)) = "file"
       /\ (\A s \in swapped : Kind[Tree[s[1]][s[2]]] \notin {"dir", "link"}) =>
            \E top \in {asked.inputs[k] : k \in 1..Len(asked.inputs)} :
              /\ Len(top) <= Len(path) /\ top = SubSeq(path, 1, Len(top))
              /\ \A j \in Len(top)..Len(path) - 1 : KindOf(LStat(SubSeq(path, 1, j))) = "dir"

\* With O_NOFOLLOW, what is read under a path is a file that the path itself names at
\* that moment, whatever others exchange; and unless they exchange a directory or a link,
\* everything from the input down to it is a directory, so that no link is on the way.
\* The windows documented on expand_inputs are the exchanges that this leaves out.
ReadsNoLink == [][ReadFollowsNoLink]_vars

\* The time stored with an entry is never later than its contents, whoever writes to the
\* file while pack runs, and it is theirs when nobody does; a file put in the place of
\* another between stat and read keeps the other's time.
StampNotLater ==
  \A k \in 1..Len(packed) :
    packed[k].same =>
      /\ packed[k].stamp <= packed[k].contents
      /\ version[packed[k].file] = 0 => packed[k].stamp = packed[k].contents
=============================================================================
