----------------------------- MODULE HostCodecs -----------------------------
(***************************************************************************)
(* The host's calls into the three codecs (compress/aplib.rs, lzma.rs and  *)
(* lzsa2.rs), made by several threads at once: a chunk is compressed, kept *)
(* for a while and decompressed.  The codecs are C libraries and an LZMA   *)
(* encoder from outside; here they do whatever their results permit.       *)
(*                                                                         *)
(* A stream is known by what it was made from, or is Garbage.              *)
(***************************************************************************)
EXTENDS Integers, FiniteSets

CONSTANTS
  Threads,
  Sizes,      \* lengths of the data
  Dicts,      \* LZMA dictionaries
  DictMin     \* 4096: lzma_rust::DICT_SIZE_MIN

Codecs == {"aplib", "lzma", "lzsa2"}
Garbage == -1

VARIABLES
  job,        \* per thread the codec, the data's length and the dictionary
  pc,
  stream,     \* per thread the chunk: length in bytes (0 or more), made from
  expected,   \* per thread the size it declares
  damaged,
  once,       \* CRC32_INIT: "new", "running" or "done"
  table,      \* xz_crc32_table: "raw", "writing" or "ready"
  live,       \* the threads with an xz decoder that is not freed
  freed,      \* per thread, how often a decoder was freed
  ran,        \* per thread what the decoder reported: status and bytes produced
  result      \* per thread "none", "ok" with a number of bytes, or an error

vars == <<job, pc, stream, expected, damaged, once, table, live, freed, ran, result>>
shared == <<once, table, live, freed>>

ASSUME CodecsAssumption ==
  /\ Sizes \subseteq Nat /\ Dicts \subseteq Nat /\ DictMin \in Nat

Chunk(len, of) == [len |-> len, of |-> of]
Nothing == Chunk(0, 0)
Ok(n) == [tag |-> "ok", bytes |-> n]
Err(why) == [tag |-> why, bytes |-> 0]

Init ==
  /\ job \in [Threads -> [codec: Codecs, size: Sizes, dict: Dicts]]
  /\ pc = [t \in Threads |-> "compress"]
  /\ stream = [t \in Threads |-> Nothing]
  /\ expected = [t \in Threads |-> 0]
  /\ damaged = [t \in Threads |-> FALSE]
  /\ once = "new" /\ table = "raw" /\ live = {} /\ freed = [t \in Threads |-> 0]
  /\ ran = [t \in Threads |-> [status |-> "none", produced |-> 0]]
  /\ result = [t \in Threads |-> Err("none")]

Goto(t, place) == pc' = [pc EXCEPT ![t] = place]
Return(t, value) == Goto(t, "returned") /\ result' = [result EXCEPT ![t] = value]

----------------------------------------------------------------------------
(* compress                                                                *)

DictTooSmall(t) == job[t].codec = "lzma" /\ job[t].dict < DictMin

\* Mutant: the framing byte is put in front of an empty chunk as well.
EncodedFramed(t) ==
  IF job[t].size = 0 /\ job[t].codec = "lzma" THEN {Chunk(1, 0)}
  ELSE IF job[t].size = 0 THEN {Nothing} ELSE {Chunk(n, job[t].size) : n \in {1, job[t].size}}

\* What compress may return: nothing for no data, else a stream of some length.
Encoded(t) ==
  IF job[t].size = 0 THEN {Nothing} ELSE {Chunk(n, job[t].size) : n \in {1, job[t].size}}

Compress(t) ==
  /\ pc[t] = "compress"
  /\ job[t].size = 0 \/ ~DictTooSmall(t)
  /\ \E c \in Encoded(t) : stream' = [stream EXCEPT ![t] = c]
  /\ expected' = [expected EXCEPT ![t] = job[t].size]
  /\ Goto(t, "stored")
  /\ UNCHANGED <<job, damaged, shared, ran, result>>

\* The dictionary is too small, the encoder reports an error, or the first byte of its
\* stream is not the zero that makes room for the properties.
CompressFails(t) ==
  /\ pc[t] = "compress" /\ job[t].size > 0
  /\ Return(t, Err("encoder"))
  /\ UNCHANGED <<job, stream, expected, damaged, shared, ran>>

\* The chunk comes back as it was stored, or not.
Fetch(t) ==
  /\ pc[t] = "stored"
  /\ \/ UNCHANGED <<stream, expected, damaged>>
     \/ \E c \in {Nothing, Chunk(1, Garbage), stream[t]}, n \in Sizes :
          /\ stream' = [stream EXCEPT ![t] = c]
          /\ expected' = [expected EXCEPT ![t] = n]
          /\ damaged' = [damaged EXCEPT ![t] = TRUE]
  /\ Goto(t, "decompress")
  /\ UNCHANGED <<job, shared, ran, result>>

----------------------------------------------------------------------------
(* decompress                                                              *)

\* Chunks of no data, and the refusals before the codec is called.
Check(t) ==
  LET none == stream[t].len = 0
      refuse == \/ expected[t] = 0 /\ ~none
                \/ expected[t] > 0 /\ none /\ job[t].codec # "aplib"
                \/ expected[t] > 0 /\ DictTooSmall(t)
  IN /\ pc[t] = "decompress"
     /\ IF refuse THEN Return(t, Err("refused"))
        ELSE IF expected[t] = 0 THEN Return(t, Ok(0))
        ELSE Goto(t, IF job[t].codec = "lzma" THEN "once" ELSE "run") /\ UNCHANGED result
     /\ UNCHANGED <<job, stream, expected, damaged, shared, ran>>

\* Mutant: a flag that is tested and set.
CallOnceFlag(t) ==
  /\ pc[t] = "once"
  /\ IF once = "done" THEN Goto(t, "alloc") /\ UNCHANGED <<once, table>>
     ELSE once' = "running" /\ table' = "writing" /\ Goto(t, "init")
  /\ UNCHANGED <<job, stream, expected, damaged, live, freed, ran, result>>

\* CRC32_INIT.call_once: the first thread runs xz_crc32_init, others wait for its end.
CallOnce(t) ==
  /\ pc[t] = "once" /\ once # "running"
  /\ IF once = "done" THEN Goto(t, "alloc") /\ UNCHANGED <<once, table>>
     ELSE once' = "running" /\ table' = "writing" /\ Goto(t, "init")
  /\ UNCHANGED <<job, stream, expected, damaged, live, freed, ran, result>>

\* Mutant: the thread that has initialised does not say so.
InitDoneSilent(t) ==
  /\ pc[t] = "init"
  /\ table' = "ready"
  /\ Goto(t, "alloc")
  /\ UNCHANGED <<job, stream, expected, damaged, once, live, freed, ran, result>>

InitDone(t) ==
  /\ pc[t] = "init"
  /\ once' = "done" /\ table' = "ready"
  /\ Goto(t, "alloc")
  /\ UNCHANGED <<job, stream, expected, damaged, live, freed, ran, result>>

\* xz_dec_microlzma_alloc gives a decoder, which the guard owns from now on, or NULL.
Alloc(t) ==
  /\ pc[t] = "alloc"
  /\ \/ live' = live \cup {t} /\ Goto(t, "run") /\ UNCHANGED result
     \/ Return(t, Err("memory")) /\ UNCHANGED live
  /\ UNCHANGED <<job, stream, expected, damaged, once, table, freed, ran>>

\* What a decoder may report: the whole data for its own stream and size, anything else
\* for any other; xz may also run out of input without an error.
Reports(t) ==
  IF stream[t].of = expected[t] THEN {[status |-> "end", produced |-> expected[t]]}
  ELSE [status: {"end", "error"} \cup (IF job[t].codec = "lzma" THEN {"ok"} ELSE {}),
        produced: 0..expected[t]]

Run(t) ==
  /\ pc[t] = "run"
  /\ \E r \in Reports(t) : ran' = [ran EXCEPT ![t] = r]
  /\ Goto(t, "ran")
  /\ UNCHANGED <<job, stream, expected, damaged, shared, result>>

\* Mutant: the number of bytes is not compared.
VerdictAnySize(t) == IF ran[t].status = "end" THEN Ok(expected[t]) ELSE Err("decoder")

Verdict(t) ==
  IF ran[t].status = "end" /\ ran[t].produced = expected[t] THEN Ok(expected[t]) ELSE Err("decoder")

\* Mutant: the decoder is freed on the way to Ok only.
FinishLeaks(t) ==
  /\ pc[t] = "ran"
  /\ Return(t, Verdict(t))
  /\ IF t \in live /\ Verdict(t).tag = "ok"
     THEN live' = live \ {t} /\ freed' = [freed EXCEPT ![t] = @ + 1]
     ELSE UNCHANGED <<live, freed>>
  /\ UNCHANGED <<job, stream, expected, damaged, once, table, ran>>

\* The checks of what came back; on each way out the guard frees the decoder.
Finish(t) ==
  /\ pc[t] = "ran"
  /\ Return(t, Verdict(t))
  /\ IF t \in live
     THEN live' = live \ {t} /\ freed' = [freed EXCEPT ![t] = @ + 1]
     ELSE UNCHANGED <<live, freed>>
  /\ UNCHANGED <<job, stream, expected, damaged, once, table, ran>>

Step(t) ==
  \/ Compress(t) \/ CompressFails(t) \/ Fetch(t)
  \/ Check(t) \/ CallOnce(t) \/ InitDone(t) \/ Alloc(t) \/ Run(t) \/ Finish(t)

Next == \E t \in Threads : Step(t)

\* The scheduler runs every thread that can run.
Spec == Init /\ [][Next]_vars /\ \A t \in Threads : WF_vars(Step(t))

----------------------------------------------------------------------------
\* No decoder runs, and none is even allocated, before xz_crc32_table is complete, and
\* no two threads write it (the data race that the comment on CRC32_INIT describes).
TableReadyFirst ==
  /\ \A t \in Threads : pc[t] = "alloc" \/ t \in live => table = "ready"
  /\ Cardinality({t \in Threads : pc[t] = "init"}) <= 1

\* Each decoder is freed once: a call that has returned has left none behind, on the
\* early returns as well, and never frees the one that it does not have.
EveryDecoderFreed ==
  \A t \in Threads :
    /\ t \in live => pc[t] \in {"run", "ran"}
    /\ freed[t] = IF job[t].codec = "lzma" /\ pc[t] = "returned" /\ ran[t].status # "none" THEN 1 ELSE 0

\* An Ok has as many bytes as the chunk declares, all of them from a decoder that came
\* to its end, or is for a chunk of no data and no bytes.
OkIsWhole ==
  \A t \in Threads :
    result[t].tag = "ok" =>
      /\ result[t].bytes = expected[t]
      /\ IF expected[t] = 0 THEN stream[t].len = 0
         ELSE ran[t] = [status |-> "end", produced |-> expected[t]]

\* What compress returned for a chunk decompresses to it, empty chunks included, in any
\* company of threads: without damage, only the encoder or the memory can fail.
RoundTrips ==
  \A t \in Threads :
    pc[t] = "returned" /\ ~damaged[t] =>
      result[t] \in {Ok(job[t].size), Err("encoder"), Err("memory")}

\* Every call returns: a thread that waits for another's initialisation is let go.
AllReturn == \A t \in Threads : <>(pc[t] = "returned")
=============================================================================
