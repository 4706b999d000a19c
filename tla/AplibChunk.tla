----------------------------- MODULE AplibChunk -----------------------------
(***************************************************************************)
(* One aPLib chunk from pack to extraction: apultra_write_block, the part  *)
(* of the host's compressor that writes the stream, and then aplib_depack  *)
(* in the stub.  Two programs that share nothing but the bytes must keep   *)
(* three things in step: where the bits are that were written into a byte  *)
(* ahead of later bytes, whether the last command was a literal, and the   *)
(* offset of the last match.                                               *)
(*                                                                         *)
(* Which matches the compressor chooses is left open: any way to cut the   *)
(* chunk into literals and true matches that the format can express.       *)
(***************************************************************************)
EXTENDS AplibDepack

CONSTANTS
  Chunks,      \* the chunks: sequences of bytes, none of them empty
  Old,         \* what g_buf holds before
  MaxMatches,  \* bound: matches in a chunk
  MaxShort     \* bound: short literals in a chunk

ASSUME ChunkAssumption ==
  \A c \in Chunks : c \in Seq(0..255) /\ Len(c) \in 1..BufferSize

\* What makes the numbers of the format fit together: a low byte and a short offset with
\* its length go into a byte, and what is a short offset is below the other thresholds.
ASSUME NumbersAssumption ==
  /\ Radix \in 1..256 /\ Near <= 128 /\ Near <= Min3
  /\ Ports # {}

VARIABLES
  window,   \* pInWindow: the chunk
  next,     \* i: bytes of the chunk already written
  w,        \* the stream so far: out, and the byte that takes the next bits
  rep,      \* nRepMatchOffset
  follows,  \* nCurFollowsLiteral
  matches, shorts   \* how many there are, for the bounds

writeVars == <<window, next, w, rep, follows, matches, shorts>>
vars == <<writeVars, depackVars>>

----------------------------------------------------------------------------
\* Bits and bytes of the stream.

\* Mutant: the bits that went into the last byte are not masked off.
PutBitsUnmasked(s, v, n) ==
  LET over == n - (s.shift + 1)
      begun == IF s.shift = -1 THEN s.out ELSE [s.out EXCEPT ![s.at] = @ + (v \div 2^over)]
  IN  IF over <= 0
      THEN [s EXCEPT !.out[s.at] = @ + v * 2^(-over), !.shift = @ - n]
      ELSE [out |-> Append(begun, v * 2^(8 - over)),
            at |-> Len(s.out) + 1, shift |-> 7 - over]

\* apultra_write_bits: the n bits of v, n <= 8.  When the byte that takes bits is full a
\* new one is put into the stream; bytes written meanwhile come behind it.
PutBits(s, v, n) ==
  LET over == n - (s.shift + 1)
      begun == IF s.shift = -1 THEN s.out ELSE [s.out EXCEPT ![s.at] = @ + (v \div 2^over)]
  IN  IF over <= 0
      THEN [s EXCEPT !.out[s.at] = @ + v * 2^(-over), !.shift = @ - n]
      ELSE [out |-> Append(begun, (v % 2^over) * 2^(8 - over)),
            at |-> Len(s.out) + 1, shift |-> 7 - over]

Put(s, b) == [s EXCEPT !.out = Append(@, b)]

\* apultra_write_gamma2_value, n >= 2: the bits of n below its highest 1, from the top on,
\* each with a flag whether more follow.
PutGamma(s, n) ==
  LET upTo[m \in 1..n] == IF m = 1 THEN s ELSE PutBits(upTo[m \div 2], 2 * (m % 2) + 1, 2)
  IN  PutBits(upTo[n \div 2], 2 * (n % 2), 2)

----------------------------------------------------------------------------
\* apultra_write_block, one action per command.

Writing == pc = "writing"
Left == Len(window) - next

\* A match of the chunk at the writer's place.
TrueMatch(offset, length) ==
  /\ offset \in 1..next /\ length <= Left
  /\ \A k \in 1..length : window[next + k] = window[next + k - offset]

\* The first byte has no command.
WriteFirst ==
  /\ Writing /\ next = 0
  /\ w' = Put(w, window[1])
  /\ next' = 1 /\ follows' = TRUE
  /\ UNCHANGED <<window, rep, matches, shorts, depackVars>>

WriteLiteral ==
  /\ Writing /\ next > 0 /\ Left > 0
  /\ w' = Put(PutBits(w, 0, 1), window[next + 1])
  /\ next' = next + 1 /\ follows' = TRUE
  /\ UNCHANGED <<window, rep, matches, shorts, depackVars>>

\* A zero byte, or one of the last fifteen.
WriteShortLiteral ==
  /\ Writing /\ next > 0 /\ Left > 0 /\ shorts < MaxShort
  /\ \E back \in 0..15 :
       /\ IF back = 0 THEN window[next + 1] = 0 ELSE TrueMatch(back, 1)
       /\ w' = PutBits(PutBits(w, 7, 3), back, 4)
  /\ next' = next + 1 /\ follows' = TRUE
  /\ shorts' = shorts + 1
  /\ UNCHANGED <<window, rep, matches, depackVars>>

\* What the three kinds of match have in common.
WriteMatch(offset, length, stream) ==
  /\ next > 0 /\ matches < MaxMatches
  /\ TrueMatch(offset, length)
  /\ w' = stream
  /\ rep' = offset /\ follows' = FALSE
  /\ next' = next + length
  /\ matches' = matches + 1
  /\ UNCHANGED <<window, shorts, depackVars>>

Repeated(offset) == offset = rep /\ follows
FitsShort(offset, length) == offset < Near /\ length <= 3

\* The offset of the last match again, straight after a literal.
WriteRepeat ==
  /\ Writing
  /\ \E length \in 2..Left :
    /\ Repeated(rep)
    /\ WriteMatch(rep, length, PutGamma(PutBits(PutBits(w, 2, 2), 0, 2), length))

WriteShortMatch ==
  /\ Writing
  /\ \E offset \in 1..next, length \in 2..3 :
    /\ ~Repeated(offset) /\ FitsShort(offset, length)
    /\ WriteMatch(offset, length, Put(PutBits(w, 6, 3), 2 * offset + length - 2))

\* Mutant: the thresholds one apart from the depacker's.
ImpliedByWriterOffByOne(offset) ==
  IF offset < Near \/ offset > Min4 THEN 2 ELSE IF offset <= Min3 THEN 0 ELSE 1

\* What the writer subtracts from the length of a large match.
ImpliedByWriter(offset) ==
  IF offset < Near \/ offset >= Min4 THEN 2 ELSE IF offset < Min3 THEN 0 ELSE 1

WriteLargeMatch ==
  /\ Writing
  /\ \E offset \in 1..next, length \in 2..Left :
    /\ ~Repeated(offset) /\ ~FitsShort(offset, length)
    /\ length - ImpliedByWriter(offset) >= 2
    /\ WriteMatch(offset, length,
         PutGamma(Put(PutGamma(PutBits(w, 2, 2), (offset \div Radix) + (IF follows THEN 3 ELSE 2)),
                      offset % Radix),
                  length - ImpliedByWriter(offset)))

\* The end mark; the stub then reads the chunk and calls the routine it was linked with.
WriteEnd ==
  /\ Writing /\ next > 0 /\ Left = 0
  /\ w' = Put(PutBits(w, 6, 3), 0)
  /\ src' = w'.out
  /\ port' \in Ports
  /\ pc' = "literal"
  /\ UNCHANGED <<window, next, rep, follows, matches, shorts, mem, bits, di, si, cx, dx, bx, from, upto>>

Init ==
  /\ window \in Chunks
  /\ next = 0 /\ w = [out |-> <<>>, at |-> 0, shift |-> -1]
  /\ rep = 0 /\ follows = FALSE /\ matches = 0 /\ shorts = 0
  /\ port \in {CHOOSE p \in Ports : TRUE} /\ src = <<>>
  /\ mem = [a \in 0..(BufferSize - 1) |-> Old]
  /\ pc = "writing" /\ DepackInit

Write ==
  \/ WriteFirst \/ WriteLiteral \/ WriteShortLiteral
  \/ WriteRepeat \/ WriteShortMatch \/ WriteLargeMatch \/ WriteEnd

Stopped == pc = "done" /\ UNCHANGED vars

Next == Write \/ (Depack /\ UNCHANGED writeVars) \/ Stopped

\* Both are sequential code without a wait in it.
Spec == Init /\ [][Next]_vars /\ WF_vars(Next)

----------------------------------------------------------------------------
\* The values of the variables; a gamma number or a length never exceeds what a chunk can
\* be long, and nothing that is a byte exceeds 255.
TypeOK ==
  /\ pc \in {"writing", "literal", "command", "match", "high", "length", "repeat", "other",
             "back high", "back low", "copy", "block", "bytes", "done"}
  /\ port \in Ports
  /\ \A k \in 1..Len(w.out) : w.out[k] \in 0..255
  /\ w.shift \in -1..7
  /\ bits.al \in 0..255 /\ bits.si \in 1..(Len(src) + 1) \union {1}
  /\ bx \in {2, 3} /\ dx \in 0..BufferSize /\ cx \in 0..(BufferSize + 1)

\* At every moment g_buf holds the first bytes of the chunk and, behind them, what was
\* there before: no command and no block of any port writes a wrong byte or one too many.
DecodedExact ==
  pc # "writing" =>
    /\ di <= Len(window)
    /\ \A a \in 0..(di - 1) : mem[a] = window[a + 1]
    /\ \A a \in di..(BufferSize - 1) : mem[a] = Old

\* What stub.c compares when the routine returns: all of the chunk has been written, and
\* the whole stream, no more and no less, was read for it.
WholeChunkDone ==
  pc = "done" => di = Len(window) /\ bits.si = Len(src) + 1

\* The decoder reaches the end mark of every stream.
Completes == <>(pc = "done")
=============================================================================
