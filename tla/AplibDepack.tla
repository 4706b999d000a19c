---------------------------- MODULE AplibDepack ----------------------------
(***************************************************************************)
(* aplib_depack: the assembly routine that turns one aPLib chunk in g_src  *)
(* back into the bytes of g_buf.  The five ports (16, 32, p5, mmx, sse)    *)
(* decode the same stream and differ in how they copy a match: byte by     *)
(* byte, or in blocks of 8 or 16 bytes while enough of it is left.         *)
(*                                                                         *)
(* Variables have the names of the registers.  The numbers 256, 128, 1280  *)
(* and 32000 of the format and the block widths are parameters, so that    *)
(* short chunks reach every case; bits and bytes are those of the code.    *)
(***************************************************************************)
EXTENDS Integers, Sequences

CONSTANTS
  Radix,    \* 256: a large offset is a gamma number times Radix plus a byte
  Near,     \* 128: offsets below it fit in seven bits
  Min3,     \* 1280 (0x500): shortest match at larger offsets is 3
  Min4,     \* 32000 (0x7D00): shortest match at larger offsets is 4
  Ports,    \* the ports of the routine
  Width,    \* per port, bytes of a block: 8 (MOVQ), 16 (MOVUPS), 0 for none
  BufferSize   \* bytes of g_buf

ASSUME FormatAssumption ==
  /\ {Radix, Near, Min3, Min4, BufferSize} \subseteq Nat
  /\ Width \in [Ports -> Nat]

VARIABLES
  port,     \* which of the ports runs
  src,      \* g_src: the bytes of the packed chunk
  mem,      \* g_buf: its bytes by address from 0, with what earlier chunks left there
  pc,       \* label
  bits,     \* [al, si]: the bit queue and the number of the next byte of src
  di,       \* edi: address of the next byte to write
  si,       \* esi while a match is copied: address of the next byte to read
  cx,       \* ecx: the gamma number being read, bytes still to copy
  dx,       \* edx: offset of the last match
  bx,       \* ebx: 3 after a literal, 2 after a match
  from, upto   \* for the properties: the addresses where the match being copied begins and ends

depackVars == <<port, src, mem, pc, bits, di, si, cx, dx, bx, from, upto>>

\* A byte of the stream; what lies behind it in g_src is left from an earlier chunk.
SrcByte(n) == IF n \in DOMAIN src THEN src[n] ELSE 0

\* The bit queue shifted by one.  Its lowest 1 is a sentinel: when it is shifted out the
\* queue is empty, the next byte is loaded, and the sentinel is put behind its bits.
TakeBit(q) ==
  LET doubled == (2 * q.al) % 256
      loaded == SrcByte(q.si)
  IN  IF doubled # 0 THEN [bit |-> q.al \div 128, al |-> doubled, si |-> q.si]
      ELSE [bit |-> loaded \div 128, al |-> (2 * loaded + q.al \div 128) % 256, si |-> q.si + 1]

Queue(t) == [al |-> t.al, si |-> t.si]

\* On entry: the sentinel alone in the queue; the first byte is a literal.
DepackInit ==
  /\ bits = [al |-> 128, si |-> 1]
  /\ di = 0 /\ si = 0 /\ cx = 0 /\ dx = 0 /\ bx = 3 /\ from = 0 /\ upto = 0

PutByte(b) == mem' = [mem EXCEPT ![di] = b] /\ di' = di + 1

Literal ==
  /\ pc = "literal"
  /\ PutByte(SrcByte(bits.si))
  /\ bits' = [bits EXCEPT !.si = @ + 1]
  /\ bx' = 3 /\ pc' = "command"
  /\ UNCHANGED <<port, src, si, cx, dx, from, upto>>

\* 0 literal, 10 large match, 110 short match, 111 short literal.
Command ==
  /\ pc \in {"command", "match"}
  /\ LET t == TakeBit(bits)
     IN  /\ bits' = Queue(t)
         /\ pc' = IF pc = "command" THEN (IF t.bit = 0 THEN "literal" ELSE "match")
                  ELSE (IF t.bit = 0 THEN "high" ELSE "other")
  /\ cx' = 1   \* where a gamma number starts
  /\ UNCHANGED <<port, src, mem, di, si, dx, bx, from, upto>>

\* Mutant: the offset of the last match is reused after a match, too.
RepeatsAlways(high) == high < 3

\* A high part below ebx is no offset but a repeat of the last one; after a match, 2 is
\* the smallest high part.
Repeats(high) == high < bx

\* One turn of the gamma loop for the high part of an offset, and what follows the last:
\* the low byte of the offset, unless the last offset is used again.
HighPart ==
  LET t == TakeBit(bits)
      more == TakeBit(Queue(t))
      high == 2 * cx + t.bit
  IN  /\ pc = "high"
      /\ IF more.bit = 1
         THEN cx' = high /\ bits' = Queue(more) /\ UNCHANGED <<pc, dx>>
         ELSE /\ cx' = 1
              /\ IF Repeats(high)
                 THEN pc' = "repeat" /\ bits' = Queue(more) /\ dx' = dx
                 ELSE /\ pc' = "length"
                      /\ bits' = [Queue(more) EXCEPT !.si = @ + 1]
                      /\ dx' = (high - bx) * Radix + SrcByte(more.si)
      /\ UNCHANGED <<port, src, mem, di, si, bx, from, upto>>

\* What the length of a large match does not say because it is always there.
ImpliedLength(offset) ==
  IF offset >= Min4 THEN 2 ELSE IF offset >= Min3 THEN 1 ELSE IF offset >= Near THEN 0 ELSE 2

\* One turn of the gamma loop for the length, and the adjustment after the last.
Length ==
  LET t == TakeBit(bits)
      more == TakeBit(Queue(t))
      length == 2 * cx + t.bit
  IN  /\ pc \in {"length", "repeat"}
      /\ bits' = Queue(more)
      /\ IF more.bit = 1
         THEN cx' = length /\ pc' = pc
         ELSE /\ cx' = length + (IF pc = "length" THEN ImpliedLength(dx) ELSE 0)
              /\ pc' = "copy"
      /\ UNCHANGED <<port, src, mem, di, si, dx, bx, from, upto>>

\* Seven bits of offset and one of length; offset 0 ends the chunk.
ShortMatch ==
  LET t == TakeBit(bits)
      b == SrcByte(t.si)
  IN  /\ pc = "other" /\ t.bit = 0
      /\ bits' = [Queue(t) EXCEPT !.si = @ + 1]
      /\ dx' = b \div 2
      /\ IF b \div 2 = 0 THEN pc' = "done" /\ cx' = cx
         ELSE pc' = "copy" /\ cx' = 2 + (b % 2)
      /\ UNCHANGED <<port, src, mem, di, si, bx, from, upto>>

\* Four bits, two at a time: a zero byte, or one byte from at most 15 back.
ShortLiteral ==
  LET t == TakeBit(bits)
  IN  /\ pc = "other" /\ t.bit = 1
      /\ bits' = Queue(t)
      /\ cx' = 0 /\ pc' = "back high"
      /\ UNCHANGED <<port, src, mem, di, si, dx, bx, from, upto>>

BackHigh ==
  LET t == TakeBit(bits)
      u == TakeBit(Queue(t))
  IN  /\ pc = "back high"
      /\ bits' = Queue(u)
      /\ cx' = 2 * t.bit + u.bit /\ pc' = "back low"
      /\ UNCHANGED <<port, src, mem, di, si, dx, bx, from, upto>>

BackLow ==
  LET t == TakeBit(bits)
      u == TakeBit(Queue(t))
      back == 4 * cx + 2 * t.bit + u.bit
  IN  /\ pc = "back low"
      /\ bits' = Queue(u)
      /\ PutByte(IF back = 0 THEN 0 ELSE mem[di - back])
      /\ bx' = 3 /\ pc' = "command"
      /\ UNCHANGED <<port, src, si, cx, dx, from, upto>>

----------------------------------------------------------------------------
\* apl_got_len: copy cx bytes from dx back.

\* Mutant: the gate looks at the length only.
BlocksLengthOnly == Width[port] > 0 /\ cx >= Width[port]

\* The gate of the mmx and sse ports.
Blocks == Width[port] > 0 /\ cx >= Width[port] /\ dx >= Width[port]

StartCopy ==
  /\ pc = "copy"
  /\ si' = di - dx /\ from' = di /\ upto' = di + cx
  /\ pc' = IF Blocks THEN "block" ELSE "bytes"
  /\ UNCHANGED <<port, src, mem, bits, di, cx, dx, bx>>

\* The block loop: load Width bytes, store them, while Width more are left.
CopyBlock ==
  LET w == Width[port]
  IN  /\ pc = "block"
      /\ mem' = [a \in DOMAIN mem |-> IF a \in di..(di + w - 1) THEN mem[si + (a - di)] ELSE mem[a]]
      /\ si' = si + w /\ di' = di + w /\ cx' = cx - w
      /\ pc' = IF cx - w >= w THEN "block" ELSE "bytes"
      /\ UNCHANGED <<port, src, bits, dx, bx, from, upto>>

\* rep movsb, one byte at a time.
CopyByte ==
  /\ pc = "bytes" /\ cx > 0
  /\ PutByte(mem[si])
  /\ si' = si + 1 /\ cx' = cx - 1
  /\ UNCHANGED <<port, src, pc, bits, dx, bx, from, upto>>

\* Mutant: the jump back goes to the wrong label.
CopyEndsAtGate ==
  /\ pc = "bytes" /\ cx = 0
  /\ bx' = 2 /\ pc' = "copy"
  /\ UNCHANGED <<port, src, mem, bits, di, si, cx, dx, from, upto>>

CopyEnds ==
  /\ pc = "bytes" /\ cx = 0
  /\ bx' = 2 /\ pc' = "command"
  /\ UNCHANGED <<port, src, mem, bits, di, si, cx, dx, from, upto>>

Depack ==
  \/ Literal \/ Command \/ HighPart \/ Length \/ ShortMatch
  \/ ShortLiteral \/ BackHigh \/ BackLow
  \/ StartCopy \/ CopyBlock \/ CopyByte \/ CopyEnds

\* The routine by itself, called with any bytes whatever in g_src and g_buf.
DepackSpec ==
  /\ DepackInit /\ pc = "literal"
  /\ port \in Ports /\ src \in Seq(0..255) /\ mem \in [0..(BufferSize - 1) -> 0..255]
  /\ [][Depack]_depackVars

----------------------------------------------------------------------------
\* While a match is copied, and when it has been, every byte of it is the byte dx before
\* it, also where the match overlaps itself and a block loads bytes stored just before:
\* all ports copy what rep movsb copies, as far as the addresses lie in g_buf, and the
\* block loop never writes beyond the end of the match.
CopyExact ==
  pc \in {"block", "bytes"} =>
    /\ from <= di /\ di <= upto /\ cx = upto - di
    /\ \A a \in from..(di - 1) : {a, a - dx} \subseteq DOMAIN mem => mem[a] = mem[a - dx]

\* The comment on the gate (aplib_depack_mmx.asm:134, aplib_depack_sse.asm:136): where
\* blocks are used, the bytes read and the bytes written do not overlap.
WindowsApart == pc = "block" => si + cx <= di
=============================================================================
