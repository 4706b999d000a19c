--------------------------- MODULE MCStubExtract ---------------------------
(***************************************************************************)
(* Images for the model checker: the archives the writer produces from up  *)
(* to three small files, for each algorithm, chunk size and compressor     *)
(* behaviour, with and without a command.  The buffers are scaled down in  *)
(* the proportions of the code: packed chunks fill the output buffer       *)
(* exactly and may expand to the size of the input buffer, stored chunks   *)
(* are larger than the output buffer.                                      *)
(***************************************************************************)
EXTENDS StubExtract, DkchWriter

MCBufSize   == 3
MCSrcSize   == [stub \in {"aplib", "lzma"} |-> 4]
MCMaxInput  == [algo \in Algorithms |-> IF algo = Stored THEN 5 ELSE MCBufSize]
MCMaxChunks == 3
MCMaxOffset == 100
MCMaxPacked == [algo \in Algorithms |-> IF algo = Lzsa2 THEN 3 ELSE 4]

\* Packed size of 1, 2 and 3 bytes: a compressor that shrinks and one that expands.
Compressors == {<<1, 1, 2>>, <<2, 3, 4>>}

\* Names of different lengths, so that records have different sizes.
File(name, nameLen, stamp, n) == [name |-> name, nameLen |-> nameLen, stamp |-> stamp, n |-> n]
FileLists ==
  { <<>> }
    \union {<<File("A", 2, 7, n)>> : n \in 0..7}
    \union {<<File("B.EXT", 6, 0, n), File("A", 2, 8, m)>> : n, m \in {0, 3, 4}}
    \union {<<File("A", 2, 9, 1), File("B.EXT", 6, 7, 0), File("C", 2, 0, 5)>>}

\* The archives pack accepts with a given algorithm, chunk size and compressor.
Archives(algo, chunkSize, packed) ==
  LET entries(fs) ==
        [i \in 1..Len(fs) |->
           [name |-> fs[i].name, nameLen |-> fs[i].nameLen, stamp |-> fs[i].stamp,
            chunks |-> BuildChunks(algo, fs[i].n, chunkSize, packed)]]
  IN  {[algo |-> algo, command |-> len, entries |-> es] :
         len \in {0, 2},
         es \in {entries(fs) : fs \in {l \in FileLists :
                   \A i \in 1..Len(l) : EntryAccepted(algo, chunkSize, entries(l)[i].chunks)}}}

AllArchives ==
  {a \in UNION {Archives(algo, chunkSize, packed) :
                  algo \in Algorithms, chunkSize \in 2..5, packed \in Compressors} :
     ArchiveAccepted(a)}

StubLen == 2
\* One image per archive; @@ makes TLC compute each of them once.
Images == [a \in AllArchives |-> Described(a, StubLen)] @@ <<>>
MCSfxs == Images
=============================================================================
