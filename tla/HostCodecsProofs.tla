-------------------------- MODULE HostCodecsProofs --------------------------
(***************************************************************************)
(* The codec calls of any number of threads, with any sizes and            *)
(* dictionaries.                                                           *)
(***************************************************************************)
EXTENDS HostCodecs, FiniteSetTheorems, TLAPS

----------------------------------------------------------------------------
\* The inductive invariant.

Places == {"compress", "stored", "decompress", "once", "init", "alloc", "run", "ran", "returned"}
Outcomes == [tag: {"none", "ok", "encoder", "refused", "memory", "decoder"}, bytes: Nat]
Decoding == {"once", "init", "alloc", "run", "ran"}

TypeOK ==
  /\ job \in [Threads -> [codec: Codecs, size: Sizes, dict: Dicts]]
  /\ pc \in [Threads -> Places]
  /\ stream \in [Threads -> [len: Int, of: Int]]
  /\ expected \in [Threads -> Nat]
  /\ damaged \in [Threads -> BOOLEAN]
  /\ once \in {"new", "running", "done"}
  /\ table \in {"raw", "writing", "ready"}
  /\ live \subseteq Threads
  /\ freed \in [Threads -> Nat]
  /\ ran \in [Threads -> [status: {"none", "end", "error", "ok"}, produced: Nat]]
  /\ result \in [Threads -> Outcomes]

\* The table is ready when the Once is done, and only one thread is at work on it.
OnceGuards ==
  /\ once = "done" <=> table = "ready"
  /\ \A t \in Threads : pc[t] = "init" => once = "running"
  /\ \A t \in Threads : pc[t] = "alloc" \/ t \in live => once = "done"
  /\ \A s, t \in Threads : pc[s] = "init" /\ pc[t] = "init" => s = t

\* An LZMA call has its decoder exactly while the guard is in scope.
Owns(t) ==
  /\ t \in live <=> job[t].codec = "lzma" /\ pc[t] \in {"run", "ran"}
  /\ pc[t] \in {"init", "alloc", "once"} => job[t].codec = "lzma"
  /\ freed[t] = IF job[t].codec = "lzma" /\ pc[t] = "returned" /\ ran[t].status # "none" THEN 1 ELSE 0

\* What a call knows at each place.
Knows(t) ==
  /\ pc[t] \notin {"ran", "returned"} => ran[t].status = "none"
  /\ pc[t] = "ran" => ran[t].status # "none"
  /\ pc[t] # "returned" => result[t].tag = "none"
  /\ pc[t] \in Decoding => expected[t] > 0
  /\ result[t].tag = "ok" =>
       /\ result[t].bytes = expected[t]
       /\ IF expected[t] = 0 THEN stream[t].len = 0
          ELSE ran[t] = [status |-> "end", produced |-> expected[t]]

\* An undamaged chunk is the one that compress made.
Honest(t) ==
  /\ pc[t] = "compress" => ~damaged[t]
  /\ ~damaged[t] /\ pc[t] \notin {"compress", "returned"} =>
       /\ expected[t] = job[t].size
       /\ job[t].size = 0 => stream[t].len = 0
       /\ job[t].size > 0 => stream[t].len > 0 /\ stream[t].of = job[t].size /\ ~DictTooSmall(t)
  /\ ~damaged[t] /\ pc[t] = "ran" => ran[t] = [status |-> "end", produced |-> expected[t]]
  /\ ~damaged[t] /\ pc[t] = "returned" => result[t] \in {Ok(job[t].size), Err("encoder"), Err("memory")}

Sound(t) == Owns(t) /\ Knows(t) /\ Honest(t)
IInv == TypeOK /\ OnceGuards /\ \A t \in Threads : Sound(t)

----------------------------------------------------------------------------
\* One lemma per action.

LEMMA InitSound ==
  ASSUME Init PROVE IInv
<1> USE CodecsAssumption
<1>1. TypeOK  BY DEF Init, TypeOK, Places, Outcomes, Nothing, Chunk, Err
<1>2. OnceGuards  BY DEF Init, OnceGuards
<1>3. ASSUME NEW t \in Threads PROVE Sound(t)
  BY <1>3 DEF Init, Sound, Owns, Knows, Honest, Err, Decoding
<1> QED  BY <1>1, <1>2, <1>3 DEF IInv

\* What a thread does leaves the others' calls alone.
LEMMA OthersSound ==
  ASSUME NEW t \in Threads, NEW u \in Threads, Sound(u),
         UNCHANGED <<job[u], pc[u], stream[u], expected[u], damaged[u], freed[u], ran[u], result[u]>>,
         u \in live' <=> u \in live
  PROVE  Sound(u)'
  BY DEF Sound, Owns, Knows, Honest, DictTooSmall, Ok, Err

LEMMA CompressSound ==
  ASSUME IInv, NEW t \in Threads, Compress(t) PROVE IInv'
<1> USE CodecsAssumption DEF Compress, Goto, shared, IInv
<1>1. PICK c \in Encoded(t) : stream' = [stream EXCEPT ![t] = c]  OBVIOUS
<1>2. job[t].size \in Nat  BY DEF TypeOK
<1>3. c \in [len: Int, of: Int] /\ c.of = job[t].size /\ (c.len = 0 <=> job[t].size = 0) /\ c.len >= 0
  BY <1>1, <1>2 DEF Encoded, Chunk, Nothing
<1>4. TypeOK'  BY <1>1, <1>2, <1>3 DEF TypeOK, Places
<1>5. OnceGuards'  BY DEF OnceGuards, TypeOK
<1>6. Sound(t)'
  BY <1>1, <1>2, <1>3 DEF TypeOK, Sound, Owns, Knows, Honest, DictTooSmall, Decoding
<1>7. ASSUME NEW u \in Threads, u # t PROVE Sound(u)'
  BY <1>1, <1>7, OthersSound DEF TypeOK
<1> QED  BY <1>4, <1>5, <1>6, <1>7

LEMMA CompressFailsSound ==
  ASSUME IInv, NEW t \in Threads, CompressFails(t) PROVE IInv'
<1> USE CodecsAssumption DEF CompressFails, Return, Goto, shared, IInv
<1>1. TypeOK'  BY DEF TypeOK, Places, Outcomes, Err
<1>2. OnceGuards'  BY DEF OnceGuards, TypeOK
<1>3. Sound(t)'  BY DEF TypeOK, Sound, Owns, Knows, Honest, Decoding, Err
<1>4. ASSUME NEW u \in Threads, u # t PROVE Sound(u)'
  BY <1>4, OthersSound DEF TypeOK
<1> QED  BY <1>1, <1>2, <1>3, <1>4

LEMMA FetchSound ==
  ASSUME IInv, NEW t \in Threads, Fetch(t) PROVE IInv'
<1> USE CodecsAssumption DEF Fetch, Goto, shared, IInv
<1>1. TypeOK'
  <2>1. CASE UNCHANGED <<stream, expected, damaged>>  BY <2>1 DEF TypeOK, Places
  <2>2. CASE ~UNCHANGED <<stream, expected, damaged>>
    <3>1. PICK c \in {Nothing, Chunk(1, Garbage), stream[t]}, n \in Sizes :
            /\ stream' = [stream EXCEPT ![t] = c]
            /\ expected' = [expected EXCEPT ![t] = n]
            /\ damaged' = [damaged EXCEPT ![t] = TRUE]
      BY <2>2
    <3>2. c \in [len: Int, of: Int]  BY DEF Chunk, Nothing, Garbage, TypeOK
    <3> QED  BY <3>1, <3>2 DEF TypeOK, Places
  <2> QED  BY <2>1, <2>2
<1>2. OnceGuards'  BY DEF OnceGuards, TypeOK
<1>3. Sound(t)'  BY DEF TypeOK, Sound, Owns, Knows, Honest, DictTooSmall, Decoding
<1>4. ASSUME NEW u \in Threads, u # t PROVE Sound(u)'
  BY <1>4, OthersSound DEF TypeOK
<1> QED  BY <1>1, <1>2, <1>3, <1>4

LEMMA CheckSound ==
  ASSUME IInv, NEW t \in Threads, Check(t) PROVE IInv'
<1> USE DEF IInv
<1>1. /\ \E p \in {"returned", "once", "run"} : pc' = [pc EXCEPT ![t] = p]
      /\ \E v \in {Err("refused"), Ok(0), result[t]} : result' = [result EXCEPT ![t] = v]
      /\ UNCHANGED <<job, stream, expected, damaged, once, table, live, freed, ran>>
  BY SMTT(60) DEF Check, Return, Goto, shared, TypeOK
<1>2. Err("refused") \in Outcomes /\ Ok(0) \in Outcomes /\ result[t] \in Outcomes
  BY DEF Outcomes, Err, Ok, TypeOK
<1>3. TypeOK'
  <2>1. pc' \in [Threads -> Places]  BY <1>1 DEF TypeOK, Places
  <2>2. result' \in [Threads -> Outcomes]  BY <1>1, <1>2 DEF TypeOK
  <2> QED  BY <1>1, <2>1, <2>2 DEF TypeOK
<1>4. OnceGuards'
  BY <1>1 DEF OnceGuards, TypeOK
<1>5. Sound(t)'
  BY CodecsAssumption, SMTT(60)
  DEF Check, Return, Goto, shared, TypeOK, Sound, Owns, Knows, Honest, DictTooSmall, Decoding, Err, Ok
<1>6. ASSUME NEW u \in Threads, u # t PROVE Sound(u)'
  BY <1>1, <1>6, OthersSound DEF TypeOK
<1> QED  BY <1>3, <1>4, <1>5, <1>6

LEMMA CallOnceSound ==
  ASSUME IInv, NEW t \in Threads, CallOnce(t) PROVE IInv'
<1> USE CodecsAssumption DEF CallOnce, Goto, IInv
<1>1. TypeOK'  BY DEF TypeOK, Places
<1>2. OnceGuards'  BY DEF OnceGuards, TypeOK
<1>3. Sound(t)'  BY DEF TypeOK, Sound, Owns, Knows, Honest, DictTooSmall, Decoding
<1>4. ASSUME NEW u \in Threads, u # t PROVE Sound(u)'
  BY <1>4, OthersSound DEF TypeOK
<1> QED  BY <1>1, <1>2, <1>3, <1>4

LEMMA InitDoneSound ==
  ASSUME IInv, NEW t \in Threads, InitDone(t) PROVE IInv'
<1> USE CodecsAssumption DEF InitDone, Goto, IInv
<1>1. TypeOK'  BY DEF TypeOK, Places
<1>2. OnceGuards'  BY DEF OnceGuards, TypeOK
<1>3. Sound(t)'  BY DEF TypeOK, Sound, Owns, Knows, Honest, DictTooSmall, Decoding
<1>4. ASSUME NEW u \in Threads, u # t PROVE Sound(u)'
  BY <1>4, OthersSound DEF TypeOK
<1> QED  BY <1>1, <1>2, <1>3, <1>4

LEMMA AllocSound ==
  ASSUME IInv, NEW t \in Threads, Alloc(t) PROVE IInv'
<1> USE CodecsAssumption DEF Alloc, Return, Goto, IInv
<1>a. pc' \in [Threads -> Places]  BY DEF TypeOK, Places
<1>b. result' \in [Threads -> Outcomes]
  <2>1. Err("memory") \in Outcomes  BY DEF Outcomes, Err
  <2> QED  BY <2>1 DEF TypeOK
<1>1. TypeOK'  BY <1>a, <1>b DEF TypeOK
<1>2. OnceGuards'  BY DEF OnceGuards, TypeOK
<1>3. Sound(t)'  BY DEF TypeOK, Sound, Owns, Knows, Honest, DictTooSmall, Decoding, Err
<1>4. ASSUME NEW u \in Threads, u # t PROVE Sound(u)'
  BY <1>4, OthersSound DEF TypeOK
<1> QED  BY <1>1, <1>2, <1>3, <1>4

LEMMA RunSound ==
  ASSUME IInv, NEW t \in Threads, Run(t) PROVE IInv'
<1> USE CodecsAssumption DEF Run, Goto, shared, IInv
<1>1. PICK r \in Reports(t) : ran' = [ran EXCEPT ![t] = r]  OBVIOUS
<1>2. expected[t] \in Nat  BY DEF TypeOK
<1>3. /\ r \in [status: {"end", "error", "ok"}, produced: Nat]
      /\ stream[t].of = expected[t] => r = [status |-> "end", produced |-> expected[t]]
  BY <1>1, <1>2 DEF Reports
<1>4. TypeOK'  BY <1>1, <1>3 DEF TypeOK, Places
<1>5. OnceGuards'  BY DEF OnceGuards, TypeOK
<1>6. Sound(t)'
  BY <1>1, <1>2, <1>3 DEF TypeOK, Sound, Owns, Knows, Honest, DictTooSmall, Decoding
<1>7. ASSUME NEW u \in Threads, u # t PROVE Sound(u)'
  BY <1>1, <1>7, OthersSound DEF TypeOK
<1> QED  BY <1>4, <1>5, <1>6, <1>7

LEMMA FinishSound ==
  ASSUME IInv, NEW t \in Threads, Finish(t) PROVE IInv'
<1> USE CodecsAssumption DEF Finish, Return, Goto, IInv
<1>1. Verdict(t) \in {Ok(expected[t]), Err("decoder")}  BY DEF Verdict
<1>2. TypeOK'  BY <1>1 DEF TypeOK, Places, Outcomes, Err, Ok
<1>3. OnceGuards'  BY DEF OnceGuards, TypeOK
<1>4. Sound(t)'
  BY DEF TypeOK, Sound, Owns, Knows, Honest, DictTooSmall, Decoding, Verdict, Err, Ok
<1>5. ASSUME NEW u \in Threads, u # t PROVE Sound(u)'
  BY <1>5, OthersSound DEF TypeOK
<1> QED  BY <1>2, <1>3, <1>4, <1>5

LEMMA StutterSound ==
  ASSUME IInv, UNCHANGED vars PROVE IInv'
  BY DEF IInv, vars, TypeOK, OnceGuards, Sound, Owns, Knows, Honest, DictTooSmall

\* The invariant holds of every reachable state.
THEOREM Invariant == Spec => []IInv
<1>1. Init => IInv  BY InitSound
<1>2. IInv /\ [Next]_vars => IInv'
  <2> SUFFICES ASSUME IInv, [Next]_vars PROVE IInv'  OBVIOUS
  <2>1. ASSUME NEW t \in Threads, Step(t) PROVE IInv'
    BY <2>1, CompressSound, CompressFailsSound, FetchSound, CheckSound, CallOnceSound,
       InitDoneSound, AllocSound, RunSound, FinishSound DEF Step
  <2>2. CASE UNCHANGED vars  BY <2>2, StutterSound
  <2> QED  BY <2>1, <2>2 DEF Next
<1> QED  BY <1>1, <1>2, PTL DEF Spec

----------------------------------------------------------------------------
\* No decoder is allocated or runs before the CRC table is complete, and one thread at
\* most is writing it, however many call decompress at once: what CRC32_INIT is for.
THEOREM TableReady == Spec => []TableReadyFirst
<1>1. IInv => TableReadyFirst
  <2> SUFFICES ASSUME IInv PROVE TableReadyFirst  OBVIOUS
  <2> DEFINE Writers == {t \in Threads : pc[t] = "init"}
  <2>1. CASE Writers = {}  BY <2>1, FS_EmptySet DEF IInv, OnceGuards, TableReadyFirst
  <2>2. CASE Writers # {}
    <3>1. PICK t : Writers = {t}  BY <2>2 DEF IInv, OnceGuards
    <3>2. Cardinality(Writers) = 1  BY <3>1, FS_Singleton
    <3> QED  BY <3>2 DEF IInv, OnceGuards, TableReadyFirst
  <2> QED  BY <2>1, <2>2
<1> QED  BY <1>1, Invariant, PTL

\* Each xz decoder is freed exactly once by the guard, on every way out of decompress.
THEOREM DecodersFreed == Spec => []EveryDecoderFreed
<1>1. IInv => EveryDecoderFreed  BY DEF IInv, Sound, Owns, EveryDecoderFreed
<1> QED  BY <1>1, Invariant, PTL

\* decompress returns Ok only for a whole chunk of the declared size.
THEOREM WholeOrError == Spec => []OkIsWhole
<1>1. IInv => OkIsWhole  BY DEF IInv, Sound, Knows, OkIsWhole
<1> QED  BY <1>1, Invariant, PTL

\* What compress has made, decompress gives back, for any sizes and dictionaries.
THEOREM RoundTrip == Spec => []RoundTrips
<1>1. IInv => RoundTrips  BY DEF IInv, Sound, Honest, RoundTrips
<1> QED  BY <1>1, Invariant, PTL
=============================================================================
