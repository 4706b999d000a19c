---------------------------- MODULE OptionsProofs ----------------------------
(***************************************************************************)
(* The tables of the layers, for a file of any size, any chunk size and any *)
(* depth that may be asked for.                                            *)
(***************************************************************************)
EXTENDS Options, TLAPS

USE OptionsAssumption

----------------------------------------------------------------------------
\* The inductive invariant.

\* A request, with the depth that --no-recurse stands for.
RequestInv ==
  /\ asked \in [via: {"cli", "library", "builder"}, algo: Algorithms, target: TierSet,
                chunk: ChunkSizes, noRecurse: BOOLEAN, maxDepth: Depths \cup {1},
                preserve: BOOLEAN, size: FileSizes]
  /\ stage \in {"parse", "pack", "build", "built", "write", "written", "refused"}

\* What a request has passed when it is at a stage.
PassedInv ==
  /\ stage = "parse" => asked.via = "cli"
  /\ stage = "pack" => asked.via # "builder"
  /\ stage = "pack" /\ asked.via = "cli" =>
       asked.chunk \in 1..CliCeiling(asked.algo) /\ asked.maxDepth # 0
  /\ stage = "build" /\ asked.via # "builder" => PackFault(asked) = "none"
  /\ stage \in {"write", "written"} => PackFault(asked) = "none"

\* The entry counts every byte of the file, in fields that hold it.
Measures(e) ==
  /\ e.count \in 1..(U16 - 1)
  /\ e.full \in 0..asked.chunk /\ e.last \in 0..asked.chunk
  /\ (e.count - 1) * e.full + e.last = asked.size
  /\ asked.size = 0 => e.full = 0 /\ e.last = 0 /\ e.packed = 0
  /\ asked.size > 0 => e.packed \in Compressed(asked.algo)
  /\ e.packed \in 0..MaxPacked(asked.algo)

EntryInv == stage \in {"write", "written"} => Measures(entry)

\* The file holds what was asked, and the entry uncut.
FileInv ==
  stage = "written" =>
    sfx = <<[blob |-> Blob(IF asked.algo = "lzma" THEN "lzma" ELSE "aplib", asked.target),
             algo |-> AlgorithmByte(asked.algo), target |-> TargetByte(asked.target),
             flags |-> IF asked.preserve THEN 0 ELSE 4,
             count |-> entry.count, full |-> entry.full,
             last |-> entry.last, packed |-> entry.packed]>>

UnreadInv == stage # "written" => shown = <<>> /\ ran = NotRun

UnrefusedInv == stage # "refused" => refused = NoRefusal

IInv ==
  /\ RequestInv /\ PassedInv /\ EntryInv /\ FileInv /\ UnreadInv /\ UnrefusedInv
  /\ LayersAgree /\ ReadersAgree /\ RunsWhereAsked

----------------------------------------------------------------------------
\* The tiers.

LEMMA TierNames ==
  /\ DOMAIN Tiers = 1..8
  /\ TierSet = {"8086", "286", "386", "486", "pentium", "pentium-mmx", "p2", "p3"}
<1>1. /\ DOMAIN Tiers = 1..8
      /\ Tiers[1] = "8086" /\ Tiers[2] = "286" /\ Tiers[3] = "386" /\ Tiers[4] = "486"
      /\ Tiers[5] = "pentium" /\ Tiers[6] = "pentium-mmx" /\ Tiers[7] = "p2" /\ Tiers[8] = "p3"
  BY DEF Tiers
<1>2. TierSet = {Tiers[i] : i \in 1..8}  BY <1>1 DEF TierSet, Range
<1>3. {Tiers[i] : i \in 1..8} = {Tiers[1], Tiers[2], Tiers[3], Tiers[4],
                                 Tiers[5], Tiers[6], Tiers[7], Tiers[8]}
  <2>1. 1..8 = {1, 2, 3, 4, 5, 6, 7, 8}  OBVIOUS
  <2> QED  BY <2>1, Zenon
<1> QED  BY <1>1, <1>2, <1>3

\* The place of every tier.
LEMMA Levels ==
  /\ Level("8086") = 1 /\ Level("286") = 2 /\ Level("386") = 3 /\ Level("486") = 4
  /\ Level("pentium") = 5 /\ Level("pentium-mmx") = 6 /\ Level("p2") = 7 /\ Level("p3") = 8
<1>1. \A i \in 1..8 : /\ Tiers[i] = "8086" <=> i = 1
                      /\ Tiers[i] = "286" <=> i = 2
                      /\ Tiers[i] = "386" <=> i = 3
                      /\ Tiers[i] = "486" <=> i = 4
                      /\ Tiers[i] = "pentium" <=> i = 5
                      /\ Tiers[i] = "pentium-mmx" <=> i = 6
                      /\ Tiers[i] = "p2" <=> i = 7
                      /\ Tiers[i] = "p3" <=> i = 8
  BY DEF Tiers
<1>2. DOMAIN Tiers = 1..8  BY TierNames
<1>3. ASSUME NEW t, NEW n \in 1..8, \A i \in 1..8 : Tiers[i] = t <=> i = n
      PROVE  Level(t) = n
  BY <1>2, <1>3 DEF Level
<1> HIDE DEF Tiers
<1>4. Level("8086") = 1  BY <1>1, <1>3
<1>5. Level("286") = 2  BY <1>1, <1>3
<1>6. Level("386") = 3  BY <1>1, <1>3
<1>7. Level("486") = 4  BY <1>1, <1>3
<1>8. Level("pentium") = 5  BY <1>1, <1>3
<1>9. Level("pentium-mmx") = 6  BY <1>1, <1>3
<1>10. Level("p2") = 7  BY <1>1, <1>3
<1>11. Level("p3") = 8  BY <1>1, <1>3
<1> QED  BY <1>4, <1>5, <1>6, <1>7, <1>8, <1>9, <1>10, <1>11

\* The largest of at most four numbers is one of them and no less than any.
LEMMA MaxOfFour ==
  ASSUME NEW a \in Int, NEW b \in Int, NEW c \in Int, NEW d \in Int
  PROVE  Max({a, b, c, d}) \in {a, b, c, d}
         /\ \A x \in {a, b, c, d} : x <= Max({a, b, c, d})
<1>1. \E x \in {a, b, c, d} : \A y \in {a, b, c, d} : x >= y  OBVIOUS
<1> QED  BY <1>1 DEF Max

LEMMA MaxOfTwo ==
  ASSUME NEW a \in Int, NEW b \in Int
  PROVE  Max({a, b}) \in {a, b}
<1>1. \E x \in {a, b} : \A y \in {a, b} : x >= y  OBVIOUS
<1> QED  BY <1>1 DEF Max

\* No object linked into a blob needs a later CPU than the blob is for.
LEMMA LinkedForTheTier ==
  ASSUME NEW family \in {"lzma", "aplib"}, NEW tier \in TierSet
  PROVE  Highest(Linked(Blob(family, tier))) \in Int
         /\ Highest(Linked(Blob(family, tier))) <= Level(tier)
<1> DEFINE b == Blob(family, tier)
           depacker == CASE tier \in {"8086", "286"} -> "8086" [] tier \in {"386", "486"} -> "386"
                         [] tier = "p2" -> "pentium-mmx" [] OTHER -> tier
           lzsa2 == IF tier \in {"8086", "286"} THEN "8086" ELSE "386"
<1>1. b.family = family /\ b.tier = tier  BY DEF Blob
<1>2. Linked(b) = {CodegenFor(tier), "8086"}
                    \cup (IF family = "aplib" THEN {depacker, lzsa2} ELSE {})
  BY <1>1 DEF Linked
<1>3. /\ CodegenFor(tier) \in TierSet /\ depacker \in TierSet /\ lzsa2 \in TierSet
      /\ Level(CodegenFor(tier)) \in Int /\ Level(CodegenFor(tier)) <= Level(tier)
      /\ Level(depacker) \in Int /\ Level(depacker) <= Level(tier)
      /\ Level(lzsa2) \in Int /\ Level(lzsa2) <= Level(tier)
      /\ Level("8086") \in Int /\ Level("8086") <= Level(tier)
  BY TierNames, Levels DEF CodegenFor
<1> HIDE DEF b, depacker, lzsa2
<1>4. CASE family = "aplib"
  <2>1. Linked(b) = {CodegenFor(tier), "8086", depacker, lzsa2}  BY <1>2, <1>4
  <2>2. {Level(t) : t \in Linked(b)} =
          {Level(CodegenFor(tier)), Level("8086"), Level(depacker), Level(lzsa2)}
    BY <2>1
  <2> QED  BY <1>3, <2>2, MaxOfFour DEF Highest, b
<1>5. CASE family = "lzma"
  <2>1. Linked(b) = {CodegenFor(tier), "8086"}  BY <1>2, <1>5
  <2>2. {Level(t) : t \in Linked(b)} =
          {Level(CodegenFor(tier)), Level("8086"), Level("8086"), Level("8086")}
    BY <2>1
  <2> QED  BY <1>3, <2>2, MaxOfFour DEF Highest, b
<1> QED  BY <1>4, <1>5

----------------------------------------------------------------------------
\* The bytes of the header.

LEMMA BytesReadBack ==
  ASSUME NEW algo \in Algorithms, NEW tier \in TierSet
  PROVE  AlgorithmOf(AlgorithmByte(algo)) = algo /\ TargetOf(TargetByte(tier)) = tier
<1>1. AlgorithmOf(AlgorithmByte(algo)) = algo
  BY DEF AlgorithmOf, AlgorithmByte, Algorithms
<1>2. TargetOf(TargetByte(tier)) = tier
  <2>1. tier # "8086" => Level(tier) \in 2..8 /\ Tiers[Level(tier)] = tier
    <3>1. /\ Tiers[2] = "286" /\ Tiers[3] = "386" /\ Tiers[4] = "486" /\ Tiers[5] = "pentium"
          /\ Tiers[6] = "pentium-mmx" /\ Tiers[7] = "p2" /\ Tiers[8] = "p3"
      BY DEF Tiers
    <3> QED  BY <3>1, TierNames, Levels
  <2> QED  BY <2>1 DEF TargetOf, TargetByte
<1> QED  BY <1>1, <1>2

----------------------------------------------------------------------------
\* The chunks.

\* Rounding up: the last chunk is not empty and no larger than the others.
LEMMA RoundedUp ==
  ASSUME NEW n \in Nat, n > 0, NEW c \in Nat, c > 0
  PROVE  /\ (n + c - 1) \div c \in Nat /\ (n + c - 1) \div c >= 1
         /\ n - ((n + c - 1) \div c - 1) * c \in 1..c
<1> DEFINE m == n + c - 1
           q == m \div c
<1>1. m \in Nat /\ m >= c /\ m = n + c - 1  OBVIOUS
<1> HIDE DEF m
<1>2. q \in Int /\ c * q <= m /\ m < c * q + c  BY <1>1
<1> HIDE DEF q
<1>3. (q - 1) * c = c * q - c  BY <1>2
<1>4. q >= 1
  <2>1. SUFFICES ASSUME q <= 0 PROVE FALSE  BY <1>2
  <2>2. c * q <= 0  BY <1>2, <2>1
  <2> QED  BY <1>1, <1>2, <2>2
<1>5. n - (q - 1) * c = m - c * q + 1  BY <1>1, <1>2, <1>3
<1>6. m - c * q + 1 \in 1..c  BY <1>1, <1>2
<1> QED  BY <1>1, <1>2, <1>4, <1>5, <1>6 DEF m, q

----------------------------------------------------------------------------
\* The steps.

\* Only the request counts for what pack finds wrong with it.
LEMMA Sound ==
  ASSUME PackFault(asked) = "none", asked.algo \in Algorithms
  PROVE  /\ asked.chunk \in 1..MaxChunk(asked.algo) /\ asked.maxDepth # 0
         /\ StubFor(asked.algo, asked.target) =
              {Blob(IF asked.algo = "lzma" THEN "lzma" ELSE "aplib", asked.target)}
BY DEF PackFault, StubFor

\* There is a blob for all but what has no 32 bits.
LEMMA StubExists ==
  ASSUME NEW r
  PROVE  PackFault(r) # "stub"
BY DEF PackFault, StubFor

LEMMA InitHolds == Init => IInv
<1> SUFFICES ASSUME Init PROVE IInv  OBVIOUS
<1>1. asked \in Requests /\ (asked.via = "builder" => asked.maxDepth = NoLimit /\ ~asked.preserve)
  BY DEF Init
<1>2. stage = CASE asked.via = "cli" -> "parse" [] asked.via = "library" -> "pack"
                [] OTHER -> "build"
  BY DEF Init
<1>3. refused = NoRefusal /\ shown = <<>> /\ ran = NotRun  BY DEF Init
<1>4. asked.via \in {"cli", "library", "builder"}  BY <1>1 DEF Requests
<1>5. RequestInv  BY <1>1, <1>2, <1>4 DEF RequestInv, Requests
<1>6. PassedInv  BY <1>2, <1>4 DEF PassedInv
<1>7. EntryInv /\ FileInv /\ UnreadInv /\ UnrefusedInv
  BY <1>2, <1>3, <1>4 DEF EntryInv, FileInv, UnreadInv, UnrefusedInv
<1>8. LayersAgree /\ ReadersAgree /\ RunsWhereAsked
  BY <1>3 DEF LayersAgree, ReadersAgree, RunsWhereAsked, NoRefusal
<1> QED  BY <1>5, <1>6, <1>7, <1>8 DEF IInv

\* A refusal keeps the invariant when its reason is one the layers may give.
LEMMA RefuseHolds ==
  ASSUME NEW who, NEW reason, IInv, stage # "written", Refuse(who, reason),
         who = "pack" /\ asked.via = "cli" => reason = "tier",
         who = "pack" => reason # "stub",
         who = "builder" /\ asked.via # "builder" => reason # "chunk",
         who = "cli" /\ reason # "conflict" => PackFault(asked) # "none"
  PROVE  IInv'
<1>1. /\ stage' = "refused" /\ refused' = [by |-> who, why |-> reason]
      /\ UNCHANGED <<asked, entry, sfx, shown, ran>>
  BY DEF Refuse
<1>2. shown = <<>> /\ ran = NotRun  BY DEF IInv, UnreadInv
<1>3. RequestInv' /\ PassedInv' /\ EntryInv' /\ FileInv'
  BY <1>1 DEF IInv, RequestInv, PassedInv, EntryInv, FileInv
<1>4. UnreadInv' /\ UnrefusedInv'  BY <1>1, <1>2 DEF UnreadInv, UnrefusedInv
<1>5. LayersAgree'  BY <1>1 DEF LayersAgree, PackFault, StubFor
<1>6. ReadersAgree' /\ RunsWhereAsked'  BY <1>1, <1>2 DEF ReadersAgree, RunsWhereAsked
<1> QED  BY <1>3, <1>4, <1>5, <1>6 DEF IInv

\* The command line's ceilings are pack's.
LEMMA ParseHolds == IInv /\ Parse => IInv'
<1> SUFFICES ASSUME IInv, Parse PROVE IInv'  OBVIOUS
<1>1. /\ asked.algo \in Algorithms /\ asked.noRecurse \in BOOLEAN
      /\ asked.maxDepth \in Depths \cup {1} /\ asked.chunk \in ChunkSizes
      /\ stage = "parse" /\ asked.via = "cli" /\ shown = <<>> /\ ran = NotRun /\ refused = NoRefusal
  BY DEF Parse, IInv, RequestInv, PassedInv, UnreadInv, UnrefusedInv
<1>2. ASSUME ParseFault # "none", Refuse("cli", ParseFault)
      PROVE  IInv'
  <2>1. ParseFault # "conflict" => PackFault(asked) # "none"
    <3>1. ASSUME ParseFault = "depth" PROVE PackFault(asked) # "none"
      <4>1. Depth = 0  BY <3>1 DEF ParseFault
      <4>2. asked.maxDepth = 0  BY <4>1 DEF Depth
      <4> QED  BY <4>2 DEF PackFault
    <3>2. ASSUME ParseFault = "chunk" PROVE PackFault(asked) # "none"
      <4>1. asked.chunk \notin 1..CliCeiling(asked.algo)  BY <3>2 DEF ParseFault
      <4> QED  BY <4>1 DEF PackFault, CliCeiling, MaxChunk
    <3> QED  BY <1>2, <3>1, <3>2 DEF ParseFault
  <2> QED  BY <1>1, <1>2, <2>1, RefuseHolds
<1>3. ASSUME ParseFault = "none", stage' = "pack", asked' = [asked EXCEPT !.maxDepth = Depth],
             UNCHANGED <<refused, entry, sfx, shown, ran>>
      PROVE  IInv'
  <2>1. Depth # 0 /\ asked.chunk \in 1..CliCeiling(asked.algo)  BY <1>3 DEF ParseFault
  <2>2. Depth \in Depths \cup {1}  BY <1>1 DEF Depth
  <2>3. RequestInv'  BY <1>3, <2>2 DEF IInv, RequestInv
  <2>4. asked'.via = asked.via /\ asked'.chunk = asked.chunk /\ asked'.algo = asked.algo
        /\ asked'.maxDepth = Depth
    BY <1>3 DEF IInv, RequestInv
  <2>5. PassedInv'  BY <1>1, <1>3, <2>1, <2>4 DEF PassedInv, CliCeiling
  <2>6. EntryInv' /\ FileInv' /\ UnreadInv' /\ UnrefusedInv'
    BY <1>1, <1>3 DEF EntryInv, FileInv, UnreadInv, UnrefusedInv
  <2>7. LayersAgree' /\ ReadersAgree' /\ RunsWhereAsked'
    BY <1>1, <1>3 DEF LayersAgree, ReadersAgree, RunsWhereAsked, NoRefusal
  <2> QED  BY <2>3, <2>5, <2>6, <2>7 DEF IInv
<1> QED  BY <1>2, <1>3 DEF Parse

\* What the command line has let through has no fault left but the tier.
LEMMA PackHolds == IInv /\ Pack => IInv'
<1> SUFFICES ASSUME IInv, Pack PROVE IInv'  OBVIOUS
<1>1. /\ asked.algo \in Algorithms /\ asked.via # "builder" /\ stage = "pack"
      /\ shown = <<>> /\ ran = NotRun /\ refused = NoRefusal
      /\ asked.via = "cli" => asked.chunk \in 1..CliCeiling(asked.algo) /\ asked.maxDepth # 0
  BY DEF Pack, IInv, RequestInv, PassedInv, UnreadInv, UnrefusedInv
<1>2. ASSUME PackFault(asked) # "none", Refuse("pack", PackFault(asked))
      PROVE  IInv'
  <2>1. PackFault(asked) # "stub"  BY StubExists
  <2>2. asked.via = "cli" => PackFault(asked) = "tier"
    BY <1>1, <1>2, <2>1 DEF PackFault, CliCeiling, MaxChunk
  <2> QED  BY <1>1, <1>2, <2>1, <2>2, RefuseHolds
<1>3. ASSUME PackFault(asked) = "none", stage' = "build",
             UNCHANGED <<asked, refused, entry, sfx, shown, ran>>
      PROVE  IInv'
  <2>1. RequestInv'  BY <1>3 DEF IInv, RequestInv
  <2>2. PassedInv'  BY <1>3 DEF PassedInv, PackFault, StubFor
  <2>3. EntryInv' /\ FileInv' /\ UnreadInv' /\ UnrefusedInv'
    BY <1>1, <1>3 DEF EntryInv, FileInv, UnreadInv, UnrefusedInv
  <2>4. LayersAgree' /\ ReadersAgree' /\ RunsWhereAsked'
    BY <1>1, <1>3 DEF LayersAgree, ReadersAgree, RunsWhereAsked, NoRefusal
  <2> QED  BY <2>1, <2>2, <2>3, <2>4 DEF IInv
<1> QED  BY <1>2, <1>3 DEF Pack

LEMMA Counts ==
  ASSUME NEW k \in Nat, k >= 1, k < U16
  PROVE  k \in 1..(U16 - 1)
<1>1. U16 \in Nat  BY DEF U16
<1> QED  BY <1>1

\* The entry that comes of a chunk size in the builders' range.
LEMMA EntryMeasures ==
  ASSUME asked.size \in Nat, asked.algo \in Algorithms, asked.chunk \in 1..MaxChunk(asked.algo),
         ChunkCount(asked.size) < U16, NEW p \in Compressed(asked.algo),
         asked.size > 0 => p <= MaxPacked(asked.algo)
  PROVE  Measures([count |-> ChunkCount(asked.size),
                   full |-> IF ChunkCount(asked.size) = 1 THEN asked.size ELSE asked.chunk,
                   last |-> asked.size - (ChunkCount(asked.size) - 1) * asked.chunk,
                   packed |-> IF asked.size = 0 THEN 0 ELSE p])
<1> DEFINE n == asked.size
           c == asked.chunk
           k == ChunkCount(n)
           last == n - (k - 1) * c
           full == IF k = 1 THEN n ELSE c
           packed == IF n = 0 THEN 0 ELSE p
<1>1. n \in Nat /\ c \in Nat /\ c > 0  BY DEF MaxChunk
<1>2. k \in Nat /\ k >= 1 /\ k < U16
      /\ (n = 0 => k = 1 /\ last = 0) /\ (n > 0 => last \in 1..c)
  <2>1. CASE n = 0  BY <1>1, <2>1 DEF ChunkCount, U16
  <2>2. CASE n > 0
    <3>1. k = (n + c - 1) \div c  BY <1>1, <2>2 DEF ChunkCount
    <3> QED  BY <1>1, <2>2, <3>1, RoundedUp
  <2> QED  BY <1>1, <2>1, <2>2
<1>3. p \in Nat /\ p \in 0..MaxPacked(asked.algo) \cup {MaxPacked(asked.algo) + 1}
      /\ MaxPacked(asked.algo) \in Nat
  BY DEF Compressed, MaxPacked, Algorithms, U16
<1>4. (n > 0 => packed \in Compressed(asked.algo)) /\ packed \in 0..MaxPacked(asked.algo)
      /\ (n = 0 => packed = 0)
  BY <1>1, <1>3
<1> DEFINE e == [count |-> k, full |-> full, last |-> last, packed |-> packed]
<1>5. ASSUME full \in 0..c, last \in 0..c, (k - 1) * full + last = n,
             n = 0 => full = 0 /\ last = 0
      PROVE  Measures(e)
  <2> HIDE DEF k, full, last, packed
  <2>1. e.count = k /\ e.full = full /\ e.last = last /\ e.packed = packed  OBVIOUS
  <2>2. k \in Nat /\ k >= 1 /\ k < U16  BY <1>2
  <2>3. k \in 1..(U16 - 1)  BY <2>2, Counts
  <2> HIDE DEF e
  <2> QED  BY <1>4, <1>5, <2>1, <2>3 DEF Measures, n
<1> HIDE DEF n, c, k, packed, e
<1>6. ASSUME k = 1 PROVE Measures(e)
  <2>1. last = n /\ full = n  BY <1>1, <1>6
  <2>2. n \in 0..c  BY <1>1, <1>2, <2>1
  <2>3. (k - 1) * full + last = n  BY <1>1, <1>6, <2>1
  <2> QED  BY <1>5, <2>1, <2>2, <2>3
<1>7. ASSUME k # 1 PROVE Measures(e)
  <2>1. n > 0 /\ last \in 1..c /\ full = c  BY <1>1, <1>2, <1>7
  <2>2. (k - 1) * full + last = n
    <3>1. (k - 1) * c \in Int  BY <1>1, <1>2
    <3> QED  BY <1>1, <2>1, <3>1
  <2> HIDE DEF last, full
  <2>3. full \in 0..c  BY <1>1, <2>1
  <2>4. last \in 0..c  BY <1>1, <2>1
  <2> QED  BY <1>1, <1>5, <2>1, <2>2, <2>3, <2>4
<1> QED  BY <1>6, <1>7 DEF e, k, n, c, packed

\* What pack has let through, the builders refuse for its data alone.
LEMMA BuildEntryHolds == IInv /\ BuildEntry => IInv'
<1> SUFFICES ASSUME IInv, BuildEntry PROVE IInv'  OBVIOUS
<1> DEFINE count == ChunkCount(asked.size)
           made(p) == [count |-> count,
                       full |-> IF count = 1 THEN asked.size ELSE asked.chunk,
                       last |-> asked.size - (count - 1) * asked.chunk,
                       packed |-> IF asked.size = 0 THEN 0 ELSE p]
<1>1. /\ asked.algo \in Algorithms /\ asked.size \in Nat /\ stage = "build"
      /\ shown = <<>> /\ ran = NotRun /\ refused = NoRefusal
      /\ asked.via # "builder" => PackFault(asked) = "none"
  BY DEF BuildEntry, IInv, RequestInv, PassedInv, UnreadInv, UnrefusedInv
<1>2. ASSUME asked.chunk \notin BuildRange(asked.algo), Refuse("builder", "chunk")
      PROVE  IInv'
  <2>1. asked.via = "builder"  BY <1>1, <1>2, Sound DEF BuildRange
  <2> QED  BY <1>1, <1>2, <2>1, RefuseHolds
<1>3. ASSUME Refuse("builder", "chunks") PROVE IInv'  BY <1>1, <1>3, RefuseHolds
<1>4. ASSUME Refuse("builder", "packed") PROVE IInv'  BY <1>1, <1>4, RefuseHolds
<1>5. ASSUME NEW p \in Compressed(asked.algo),
             asked.chunk \in BuildRange(asked.algo), count < U16,
             asked.size > 0 => p <= MaxPacked(asked.algo), entry' = made(p),
             stage' = IF asked.via = "builder" THEN "built" ELSE "write",
             UNCHANGED <<asked, refused, sfx, shown, ran>>
      PROVE  IInv'
  <2>1. Measures(entry')  BY <1>1, <1>5, EntryMeasures DEF BuildRange
  <2> HIDE DEF made
  <2>2. RequestInv'  BY <1>5 DEF IInv, RequestInv
  <2>3. PassedInv'  BY <1>1, <1>5 DEF PassedInv, PackFault, StubFor
  <2>4. EntryInv'  BY <1>5, <2>1 DEF EntryInv, Measures, Compressed
  <2>5. FileInv' /\ UnreadInv' /\ UnrefusedInv'
    BY <1>1, <1>5 DEF FileInv, UnreadInv, UnrefusedInv
  <2>6. LayersAgree' /\ ReadersAgree' /\ RunsWhereAsked'
    BY <1>1, <1>5 DEF LayersAgree, ReadersAgree, RunsWhereAsked, NoRefusal
  <2> QED  BY <2>2, <2>3, <2>4, <2>5, <2>6 DEF IInv
<1> HIDE DEF IInv
<1> QED  BY <1>2, <1>3, <1>4, <1>5 DEF BuildEntry

\* A number below 2^16 passes the cast as it is.
LEMMA NotCut ==
  ASSUME NEW n \in Nat, n < U16
  PROVE  n % U16 = n
BY DEF U16

\* Nothing that a u16 holds is above the ceilings of the chunks.
LEMMA Ceilings ==
  ASSUME NEW algo \in Algorithms
  PROVE  MaxChunk(algo) \in Nat /\ MaxChunk(algo) < U16
         /\ MaxPacked(algo) \in Nat /\ MaxPacked(algo) < U16
         /\ (algo # "stored" => MaxChunk(algo) = Kib16)
BY DEF MaxChunk, MaxPacked, Algorithms, U16, Kib16

\* No field is cut.
LEMMA WriteHolds == IInv /\ Write => IInv'
<1> SUFFICES ASSUME IInv, Write PROVE IInv'  OBVIOUS
<1>1. /\ asked.algo \in Algorithms /\ stage = "write" /\ PackFault(asked) = "none"
      /\ shown = <<>> /\ ran = NotRun /\ refused = NoRefusal /\ Measures(entry)
      /\ stage' = "written" /\ UNCHANGED <<asked, refused, entry, shown, ran>>
  BY DEF Write, IInv, RequestInv, PassedInv, EntryInv, UnreadInv, UnrefusedInv
<1>2. RequestInv' /\ PassedInv' /\ EntryInv'
  <2>1. RequestInv'  BY <1>1 DEF IInv, RequestInv
  <2>2. PassedInv'  BY <1>1 DEF PassedInv, PackFault, StubFor
  <2>3. EntryInv'  BY <1>1 DEF EntryInv, Measures, Compressed
  <2> QED  BY <2>1, <2>2, <2>3
<1>3. /\ entry.count \in Nat /\ entry.count < U16
      /\ entry.full \in Nat /\ entry.full < U16 /\ entry.last \in Nat /\ entry.last < U16
      /\ entry.packed \in Nat /\ entry.packed < U16
  <2>1. asked.chunk \in 1..MaxChunk(asked.algo)  BY <1>1, Sound
  <2>2. U16 \in Nat  BY DEF U16
  <2>3. entry.count \in Nat /\ entry.count < U16  BY <1>1, <2>2 DEF Measures
  <2>4. /\ entry.full \in Nat /\ entry.full < U16 /\ entry.last \in Nat /\ entry.last < U16
    BY <1>1, <2>1, <2>2, Ceilings DEF Measures
  <2>5. entry.packed \in Nat /\ entry.packed < U16  BY <1>1, <2>2, Ceilings DEF Measures
  <2> QED  BY <2>3, <2>4, <2>5
<1>4. /\ entry.count % U16 = entry.count /\ entry.full % U16 = entry.full
      /\ entry.last % U16 = entry.last /\ entry.packed % U16 = entry.packed
  BY <1>3, NotCut
<1>5. FileInv'
  <2>1. PICK blob \in StubFor(asked.algo, asked.target) :
          sfx' = <<[blob |-> blob, algo |-> AlgorithmByte(asked.algo),
                    target |-> TargetByte(asked.target),
                    flags |-> IF asked.preserve THEN 0 ELSE 4,
                    count |-> entry.count % U16, full |-> entry.full % U16,
                    last |-> entry.last % U16, packed |-> entry.packed % U16]>>
    BY DEF Write
  <2>2. blob = Blob(IF asked.algo = "lzma" THEN "lzma" ELSE "aplib", asked.target)
    BY <1>1, Sound
  <2> QED  BY <1>1, <1>4, <2>1, <2>2 DEF FileInv
<1>6. UnreadInv' /\ UnrefusedInv'  BY <1>1 DEF UnreadInv, UnrefusedInv
<1>7. LayersAgree' /\ ReadersAgree' /\ RunsWhereAsked'
  BY <1>1 DEF LayersAgree, ReadersAgree, RunsWhereAsked, NoRefusal
<1> QED  BY <1>2, <1>5, <1>6, <1>7 DEF IInv

\* What is in the header reads back as what was asked.
LEMMA InspectHolds == IInv /\ Inspect => IInv'
<1> SUFFICES ASSUME IInv, Inspect PROVE IInv'  OBVIOUS
<1>1. /\ asked.algo \in Algorithms /\ asked.target \in TierSet /\ asked.preserve \in BOOLEAN
      /\ stage = "written" /\ UNCHANGED <<asked, stage, refused, entry, sfx, ran>>
  BY DEF Inspect, IInv, RequestInv
<1>2. RequestInv' /\ PassedInv' /\ EntryInv' /\ FileInv' /\ UnreadInv' /\ UnrefusedInv'
  <2>1. RequestInv'  BY <1>1 DEF IInv, RequestInv
  <2>2. PassedInv'  BY <1>1 DEF IInv, PassedInv, PackFault, StubFor
  <2>3. EntryInv'  BY <1>1 DEF IInv, EntryInv, Measures, Compressed
  <2>4. FileInv'  BY <1>1 DEF IInv, FileInv
  <2>5. UnreadInv' /\ UnrefusedInv'  BY <1>1 DEF IInv, UnreadInv, UnrefusedInv
  <2> QED  BY <2>1, <2>2, <2>3, <2>4, <2>5
<1>3. LayersAgree'  BY <1>1 DEF IInv, LayersAgree, PackFault, StubFor
<1>4. ReadersAgree'
  <2>1. /\ sfx[1].algo = AlgorithmByte(asked.algo) /\ sfx[1].target = TargetByte(asked.target)
        /\ sfx[1].flags = IF asked.preserve THEN 0 ELSE 4
    BY <1>1 DEF IInv, FileInv
  <2>2. ((sfx[1].flags \div 4) % 2 = 1) = ~asked.preserve  BY <1>1, <2>1
  <2>3. AlgorithmOf(sfx[1].algo) = asked.algo /\ TargetOf(sfx[1].target) = asked.target
    BY <1>1, <2>1, BytesReadBack
  <2>4. shown' = <<[algo |-> AlgorithmOf(sfx[1].algo), target |-> TargetOf(sfx[1].target),
                    reproducible |-> (sfx[1].flags \div 4) % 2 = 1]>>
    BY DEF Inspect
  <2>5. shown' = <<[algo |-> asked.algo, target |-> asked.target,
                    reproducible |-> ~asked.preserve]>>
    BY <2>2, <2>3, <2>4, Zenon
  <2> QED  BY <1>1, <2>5 DEF ReadersAgree
<1>5. RunsWhereAsked'  BY <1>1 DEF IInv, RunsWhereAsked
<1> QED  BY <1>2, <1>3, <1>4, <1>5 DEF IInv

\* The extractor finds nothing wrong with the file.
LEMMA NoFault ==
  ASSUME IInv, stage = "written"
  PROVE  StubFault(sfx[1]) = "none" /\ (sfx[1].count - 1) * sfx[1].full + sfx[1].last = asked.size
<1> DEFINE s == sfx[1]
<1>1. asked.algo \in Algorithms /\ asked.size \in Nat /\ PackFault(asked) = "none" /\ Measures(entry)
  BY DEF IInv, RequestInv, PassedInv, EntryInv
<1>2. /\ s.blob = Blob(IF asked.algo = "lzma" THEN "lzma" ELSE "aplib", asked.target)
      /\ s.algo = AlgorithmByte(asked.algo) /\ s.count = entry.count /\ s.full = entry.full
      /\ s.last = entry.last /\ s.packed = entry.packed
  BY DEF IInv, FileInv
<1> HIDE DEF s
<1>3. s.blob.family = IF asked.algo = "lzma" THEN "lzma" ELSE "aplib"  BY <1>2 DEF Blob
<1>4. s.algo \in Decodes(s.blob) /\ (s.algo = 0 <=> asked.algo = "stored")
  BY <1>1, <1>2, <1>3 DEF Decodes, AlgorithmByte, Algorithms
<1>5. MaxPacked(asked.algo) <= SrcSize(s.blob) \/ asked.algo = "stored"
  BY <1>1, <1>3 DEF MaxPacked, SrcSize, Algorithms
<1>6. s.packed = 0 /\ asked.algo # "stored" => s.full = 0 /\ s.last = 0
  <2>1. asked.algo # "stored" => 0 \notin Compressed(asked.algo)
    BY <1>1 DEF Compressed, MaxPacked, Algorithms
  <2> QED  BY <1>1, <1>2, <2>1 DEF Measures
<1>7. s.packed <= SrcSize(s.blob) \/ asked.algo = "stored"
  <2>1. SrcSize(s.blob) \in Nat  BY DEF SrcSize
  <2> QED  BY <1>1, <1>2, <1>5, <2>1, Ceilings DEF Measures
<1>8. Max({s.full, s.last}) <= BufSize \/ asked.algo = "stored"
  <2>1. s.full \in Nat /\ s.last \in Nat /\ s.full <= asked.chunk /\ s.last <= asked.chunk
    BY <1>1, <1>2, Sound DEF Measures
  <2>2. Max({s.full, s.last}) \in {s.full, s.last}  BY <2>1, MaxOfTwo
  <2>3. asked.algo # "stored" => asked.chunk \in Nat /\ asked.chunk <= Kib16
    BY <1>1, Sound, Ceilings
  <2>4. Kib16 \in Nat  BY DEF Kib16
  <2> QED  BY <2>1, <2>2, <2>3, <2>4 DEF BufSize
<1>9. SrcSize(s.blob) \in Nat /\ BufSize \in Nat /\ s.packed \in Nat /\ Max({s.full, s.last}) \in Nat
  <2>1. s.full \in Nat /\ s.last \in Nat /\ s.packed \in Nat
    BY <1>1, <1>2, Sound, Ceilings DEF Measures
  <2>2. Max({s.full, s.last}) \in {s.full, s.last}  BY <2>1, MaxOfTwo
  <2> QED  BY <2>1, <2>2 DEF SrcSize, BufSize, Kib16
<1>10. StubFault(s) = "none"
  BY <1>4, <1>6, <1>7, <1>8, <1>9 DEF StubFault
<1>11. (s.count - 1) * s.full + s.last = asked.size  BY <1>1, <1>2 DEF Measures
<1> QED  BY <1>10, <1>11 DEF s

\* A later CPU than the one asked for runs what that one runs.
LEMMA RunHolds == IInv /\ (\E cpu \in TierSet : Run(cpu)) => IInv'
<1> SUFFICES ASSUME IInv, NEW cpu \in TierSet, Run(cpu) PROVE IInv'  OBVIOUS
<1>1. /\ asked.algo \in Algorithms /\ asked.target \in TierSet
      /\ stage = "written" /\ UNCHANGED <<asked, stage, refused, entry, sfx, shown>>
  BY DEF Run, IInv, RequestInv
<1>2. RequestInv' /\ PassedInv' /\ EntryInv' /\ FileInv' /\ UnreadInv' /\ UnrefusedInv'
  <2>1. RequestInv'  BY <1>1 DEF IInv, RequestInv
  <2>2. PassedInv'  BY <1>1 DEF IInv, PassedInv, PackFault, StubFor
  <2>3. EntryInv'  BY <1>1 DEF IInv, EntryInv, Measures, Compressed
  <2>4. FileInv'  BY <1>1 DEF IInv, FileInv
  <2>5. UnreadInv' /\ UnrefusedInv'  BY <1>1 DEF IInv, UnreadInv, UnrefusedInv
  <2> QED  BY <2>1, <2>2, <2>3, <2>4, <2>5
<1>3. LayersAgree' /\ ReadersAgree'
  BY <1>1 DEF IInv, LayersAgree, ReadersAgree, PackFault, StubFor
<1>4. RunsWhereAsked'
  <2>1. SUFFICES ASSUME Level(ran'.on) >= Level(asked.target)
                 PROVE  ran'.end = "none" /\ ran'.bytes = asked.size
    BY <1>1 DEF RunsWhereAsked
  <2>2. ran'.on = cpu
    <3>1. \E end, bytes : ran' = [on |-> cpu, end |-> end, bytes |-> bytes]  BY DEF Run
    <3> QED  BY <3>1
  <2>3. sfx[1].blob = Blob(IF asked.algo = "lzma" THEN "lzma" ELSE "aplib", asked.target)
    BY <1>1 DEF IInv, FileInv
  <2>4. /\ Highest(Linked(sfx[1].blob)) \in Int
        /\ Highest(Linked(sfx[1].blob)) <= Level(asked.target)
    BY <1>1, <2>3, LinkedForTheTier
  <2>5. Level(cpu) \in Int /\ Level(asked.target) \in Int  BY <1>1, TierNames, Levels
  <2>6. ~(Highest(Linked(sfx[1].blob)) > Level(cpu))  BY <2>1, <2>2, <2>4, <2>5
  <2>7. StubFault(sfx[1]) = "none"
        /\ (sfx[1].count - 1) * sfx[1].full + sfx[1].last = asked.size
    BY <1>1, NoFault
  <2>8. ran' = [on |-> cpu, end |-> StubFault(sfx[1]),
                bytes |-> IF StubFault(sfx[1]) # "none" THEN 0
                          ELSE (sfx[1].count - 1) * sfx[1].full + sfx[1].last]
    BY <2>6 DEF Run
  <2> QED  BY <2>7, <2>8
<1> QED  BY <1>2, <1>3, <1>4 DEF IInv

LEMMA NextHolds == IInv /\ [Next]_vars => IInv'
<1> SUFFICES ASSUME IInv, [Next]_vars PROVE IInv'  OBVIOUS
<1>1. CASE Parse  BY <1>1, ParseHolds
<1>2. CASE Pack  BY <1>2, PackHolds
<1>3. CASE BuildEntry  BY <1>3, BuildEntryHolds
<1>4. CASE Write  BY <1>4, WriteHolds
<1>5. CASE Inspect  BY <1>5, InspectHolds
<1>6. CASE \E cpu \in TierSet : Run(cpu)  BY <1>6, RunHolds
<1>7. CASE UNCHANGED vars
  BY <1>7 DEF vars, IInv, RequestInv, PassedInv, EntryInv, Measures, Compressed, FileInv,
     UnreadInv, UnrefusedInv, LayersAgree, ReadersAgree, RunsWhereAsked, PackFault, StubFor
<1> QED  BY <1>1, <1>2, <1>3, <1>4, <1>5, <1>6, <1>7 DEF Next

THEOREM Invariant == Spec => []IInv
<1>1. Init => IInv  BY InitHolds
<1>2. IInv /\ [Next]_vars => IInv'  BY NextHolds
<1> QED  BY <1>1, <1>2, PTL DEF Spec

\* What pack delivers runs to its end, with every byte, on the CPU asked for
\* and on every later one, whatever the sizes, the algorithm and the tier.
THEOREM ArchivesRun == Spec => []RunsWhereAsked
<1>1. IInv => RunsWhereAsked  BY DEF IInv
<1> QED  BY <1>1, Invariant, PTL

\* No layer refuses for its tables what the layer before it has let through.
THEOREM TablesAgree == Spec => []LayersAgree
<1>1. IInv => LayersAgree  BY DEF IInv
<1> QED  BY <1>1, Invariant, PTL

\* inspect prints what was asked of pack, for every algorithm and every tier.
THEOREM InspectShowsTheRequest == Spec => []ReadersAgree
<1>1. IInv => ReadersAgree  BY DEF IInv
<1> QED  BY <1>1, Invariant, PTL

=============================================================================
