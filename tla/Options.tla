------------------------------- MODULE Options -------------------------------
(***************************************************************************)
(* What may be asked of pack, from the command line or as a library: the   *)
(* algorithm, the CPU, the chunk size, the depth.  Each layer has a table  *)
(* of its own of what is allowed, the blobs were built long before with    *)
(* their instructions and buffers, and the archive that comes out is read  *)
(* by another host or run on some machine.                                 *)
(*                                                                         *)
(* Here the sizes are the real ones, which DkchLayout leaves open.  One    *)
(* file is packed; of its bytes only the number is kept.                   *)
(***************************************************************************)
EXTENDS Integers, Sequences, SequencesExt, FiniteSetsExt

CONSTANTS
  ChunkSizes, \* --chunk-size
  Depths,     \* --max-depth; NoLimit when it is not given
  FileSizes

Algorithms == {"stored", "aplib", "lzsa2", "lzma"}
NoLimit == -1
U16 == 65536
Kib16 == 16384

\* CPU tiers in the order in which each runs what the ones before it run.
Tiers == <<"8086", "286", "386", "486", "pentium", "pentium-mmx", "p2", "p3">>
TierSet == Range(Tiers)
Level(tier) == CHOOSE i \in DOMAIN Tiers : Tiers[i] = tier
Highest(tiers) == Max({Level(t) : t \in tiers})

VARIABLES
  asked,      \* the request
  stage,
  refused,    \* who refused it and why
  entry,      \* the entry: number of chunks, sizes of all but the last, of the last
  sfx,        \* the file written: blob, header bytes, entry as its u16 fields hold it
  shown,      \* what inspect prints of it
  ran         \* the machine it was run on and what came of it

vars == <<asked, stage, refused, entry, sfx, shown, ran>>

ASSUME OptionsAssumption ==
  /\ ChunkSizes \subseteq Nat /\ FileSizes \subseteq Nat /\ Depths \subseteq Nat \cup {NoLimit}

NoRefusal == [by |-> "nobody", why |-> "none"]
NoEntry == [count |-> 0, full |-> 0, last |-> 0, packed |-> 0]
NotRun == [on |-> "none", end |-> "none", bytes |-> 0]

Requests ==
  [via: {"cli", "library", "builder"}, algo: Algorithms, target: TierSet, chunk: ChunkSizes,
   noRecurse: BOOLEAN, maxDepth: Depths, preserve: BOOLEAN, size: FileSizes]

Init ==
  /\ asked \in {r \in Requests : /\ r.noRecurse => r.via = "cli"
                                 /\ r.via = "builder" => r.maxDepth = NoLimit /\ ~r.preserve}
  /\ stage = CASE asked.via = "cli" -> "parse" [] asked.via = "library" -> "pack"
              [] OTHER -> "build"
  /\ refused = NoRefusal /\ entry = NoEntry
  /\ sfx = <<>> /\ shown = <<>> /\ ran = NotRun

Refuse(who, reason) ==
  /\ stage' = "refused" /\ refused' = [by |-> who, why |-> reason]
  /\ UNCHANGED <<asked, entry, sfx, shown, ran>>

----------------------------------------------------------------------------
(* The command line.                                                       *)

\* Mutant: the new algorithm was given the ceiling of the u16 field.
CliCeilingLoose(algo) == IF algo \in {"stored", "lzsa2"} THEN U16 - 1 ELSE Kib16
CliCeiling(algo) == IF algo = "stored" THEN U16 - 1 ELSE Kib16

Depth == IF asked.noRecurse THEN 1 ELSE asked.maxDepth

ParseFault ==
  IF asked.noRecurse /\ asked.maxDepth # NoLimit THEN "conflict"
  ELSE IF Depth = 0 THEN "depth"
  ELSE IF asked.chunk \notin 1..CliCeiling(asked.algo) THEN "chunk" ELSE "none"

Parse ==
  /\ stage = "parse"
  /\ \/ ParseFault # "none" /\ Refuse("cli", ParseFault)
     \/ /\ ParseFault = "none"
        /\ stage' = "pack" /\ asked' = [asked EXCEPT !.maxDepth = Depth]
        /\ UNCHANGED <<refused, entry, sfx, shown, ran>>

----------------------------------------------------------------------------
(* pack                                                                    *)

\* APLIB_CHUNK_INPUT, LZMA_CHUNK_INPUT, LZSA2_CHUNK_INPUT and u16::MAX.
MaxChunk(algo) == IF algo = "stored" THEN U16 - 1 ELSE Kib16

Blob(family, tier) == [family |-> family, tier |-> tier]

\* Mutant: the tiers with the same compiler flag share their blob.
StubForShared(algo, target) ==
  IF algo = "lzma" /\ target \in {"8086", "286"} THEN {}
  ELSE {Blob(IF algo = "lzma" THEN "lzma" ELSE "aplib", IF target = "p2" THEN "p3" ELSE target)}

\* stub_for: no blob for LZMA below the 386.
StubFor(algo, target) ==
  IF algo = "lzma" /\ target \in {"8086", "286"} THEN {}
  ELSE {Blob(IF algo = "lzma" THEN "lzma" ELSE "aplib", target)}

PackFault(r) ==
  IF r.algo = "lzma" /\ r.target \in {"8086", "286"} THEN "tier"
  ELSE IF r.chunk \notin 1..MaxChunk(r.algo) THEN "chunk"
  ELSE IF r.maxDepth = 0 THEN "depth"
  ELSE IF StubFor(r.algo, r.target) = {} THEN "stub" ELSE "none"

Pack ==
  /\ stage = "pack"
  /\ \/ PackFault(asked) # "none" /\ Refuse("pack", PackFault(asked))
     \/ /\ PackFault(asked) = "none" /\ stage' = "build"
        /\ UNCHANGED <<asked, refused, entry, sfx, shown, ran>>

\* APLIB_MAX_COMPRESSED_CHUNK and its siblings.
MaxPacked(algo) ==
  CASE algo = "aplib" -> 18464 [] algo \in {"lzma", "lzsa2"} -> 17408 [] OTHER -> U16 - 1

\* The largest chunk a codec may return: a small one, or one about the ceiling.
Compressed(algo) ==
  IF algo = "stored" THEN {0} ELSE {1, MaxPacked(algo), MaxPacked(algo) + 1}

ChunkCount(n) == IF n = 0 THEN 1 ELSE (n + asked.chunk - 1) \div asked.chunk
BuildRange(algo) == 1..MaxChunk(algo)

\* build_aplib_entry and its siblings, which are also called without pack: the
\* ranges they check again, and what they make.
BuildEntry ==
  /\ stage = "build"
  /\ LET n == asked.size
         count == ChunkCount(n)
     IN  \/ asked.chunk \notin BuildRange(asked.algo) /\ Refuse("builder", "chunk")
         \/ /\ asked.chunk \in BuildRange(asked.algo)
            /\ count >= U16 /\ Refuse("builder", "chunks")
         \/ /\ asked.chunk \in BuildRange(asked.algo) /\ count < U16
            /\ \E p \in Compressed(asked.algo) :
                 \/ n > 0 /\ p > MaxPacked(asked.algo) /\ Refuse("builder", "packed")
                 \/ /\ (n > 0 => p <= MaxPacked(asked.algo))
                    /\ entry' = [count |-> count,
                                 full |-> IF count = 1 THEN n ELSE asked.chunk,
                                 last |-> n - (count - 1) * asked.chunk,
                                 packed |-> IF n = 0 THEN 0 ELSE p]
                    /\ stage' = IF asked.via = "builder" THEN "built" ELSE "write"
                    /\ UNCHANGED <<asked, refused, sfx, shown, ran>>

----------------------------------------------------------------------------
(* The file.                                                               *)

AlgorithmByte(algo) ==
  CASE algo = "stored" -> 0 [] algo = "aplib" -> 1 [] algo = "lzsa2" -> 2 [] OTHER -> 3

\* Mutant: the discriminants count on from 0.
TargetByteDense(tier) == Level(tier) - 1

\* The discriminants of TargetTier: 1 is no tier.
TargetByte(tier) == IF tier = "8086" THEN 0 ELSE Level(tier)

\* from_u8 of both; "unknown" for None.
AlgorithmOf(byte) ==
  IF byte < 4 THEN <<"stored", "aplib", "lzsa2", "lzma">>[byte + 1] ELSE "unknown"
TargetOf(byte) ==
  IF byte = 0 THEN "8086" ELSE IF byte \in 2..8 THEN Tiers[byte] ELSE "unknown"

\* The casts to u16, and RUN_AFTER apart the one flag there is.
Write ==
  /\ stage = "write"
  /\ \E blob \in StubFor(asked.algo, asked.target) :
       sfx' = <<[blob |-> blob, algo |-> AlgorithmByte(asked.algo),
                 target |-> TargetByte(asked.target),
                 flags |-> IF asked.preserve THEN 0 ELSE 4,
                 count |-> entry.count % U16, full |-> entry.full % U16,
                 last |-> entry.last % U16, packed |-> entry.packed % U16]>>
  /\ stage' = "written"
  /\ UNCHANGED <<asked, refused, entry, shown, ran>>

\* inspect
Inspect ==
  /\ stage = "written" /\ shown = <<>>
  /\ shown' = <<[algo |-> AlgorithmOf(sfx[1].algo), target |-> TargetOf(sfx[1].target),
                 reproducible |-> (sfx[1].flags \div 4) % 2 = 1]>>
  /\ UNCHANGED <<asked, stage, refused, entry, sfx, ran>>

----------------------------------------------------------------------------
(* The blobs and the machine.                                              *)

\* The compiler's flag: -5 and -6 are each the flag of two tiers.
CodegenFor(tier) ==
  CASE tier = "pentium-mmx" -> "pentium" [] tier = "p3" -> "p2" [] OTHER -> tier

\* The objects linked into a blob, each by the CPU its instructions need.
Linked(blob) ==
  LET depacker == CASE blob.tier \in {"8086", "286"} -> "8086"
                    [] blob.tier \in {"386", "486"} -> "386"
                    [] blob.tier = "p2" -> "pentium-mmx"
                    [] OTHER -> blob.tier
      lzsa2 == IF blob.tier \in {"8086", "286"} THEN "8086" ELSE "386"
      exec == "8086"
  IN  {CodegenFor(blob.tier), exec} \cup (IF blob.family = "aplib" THEN {depacker, lzsa2} ELSE {})

\* The buffers and the algorithms of the two extractors.
SrcSize(blob) == IF blob.family = "aplib" THEN 18464 ELSE 17408
BufSize == Kib16
Decodes(blob) == IF blob.family = "aplib" THEN 0..2 ELSE {3}

\* What the extractor finds wrong with the chunks of the file, if anything.
StubFault(s) ==
  IF s.algo \notin Decodes(s.blob) THEN "algorithm"
  ELSE IF s.algo = 0 THEN "none"
  ELSE IF s.packed = 0 THEN (IF {s.full, s.last} = {0} THEN "none" ELSE "zero csize")
  ELSE IF s.packed > SrcSize(s.blob) THEN "csize"
  ELSE IF Max({s.full, s.last}) > BufSize THEN "usize" ELSE "none"

Run(cpu) ==
  /\ stage = "written" /\ ran = NotRun
  /\ LET s == sfx[1]
     IN  \/ /\ Highest(Linked(s.blob)) > Level(cpu)
            /\ ran' = [on |-> cpu, end |-> "illegal instruction", bytes |-> 0]
         \/ /\ Highest(Linked(s.blob)) <= Level(cpu)
            /\ ran' = [on |-> cpu, end |-> StubFault(s),
                       bytes |-> IF StubFault(s) # "none" THEN 0
                                 ELSE (s.count - 1) * s.full + s.last]
  /\ UNCHANGED <<asked, stage, refused, entry, sfx, shown>>

Next == Parse \/ Pack \/ BuildEntry \/ Write \/ Inspect \/ \E cpu \in TierSet : Run(cpu)

Spec == Init /\ [][Next]_vars

----------------------------------------------------------------------------
(* Every archive pack delivers runs to its end, with every byte, on the CPU *)
(* it was asked for and on every later one: the blob has no instruction    *)
(* beyond the target, it knows the algorithm, its buffers take every chunk *)
(* the builders let through and no u16 field was cut.                      *)
RunsWhereAsked ==
  ran # NotRun /\ Level(ran.on) >= Level(asked.target)
    => ran.end = "none" /\ ran.bytes = asked.size

(* The layers' tables agree: after the command line has let a request      *)
(* through, pack refuses only LZMA for a CPU without 32 bits, the builders *)
(* only what depends on the data, and what the command line refuses for    *)
(* its chunk size or depth pack would refuse as well.                      *)
LayersAgree ==
  /\ refused.by = "pack" /\ asked.via = "cli" => refused.why = "tier"
  /\ refused.by = "pack" => refused.why # "stub"
  /\ refused.by = "builder" /\ asked.via # "builder" => refused.why # "chunk"
  /\ refused.by = "cli" /\ refused.why # "conflict" => PackFault(asked) # "none"

(* What inspect prints of an archive is what was asked of pack.            *)
ReadersAgree ==
  shown # <<>> => shown[1] = [algo |-> asked.algo, target |-> asked.target,
                              reproducible |-> ~asked.preserve]
=============================================================================
