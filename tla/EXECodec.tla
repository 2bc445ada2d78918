------------------------------ MODULE EXECodec ------------------------------
(***************************************************************************)
(* EXE codec: in machine code, the relative addresses of jumps and calls   *)
(* become absolute ones.                                                   *)
(*                                                                         *)
(* Base is the number of byte values (256).  An integer and the operand of *)
(* an X86 jump take IntBytes bytes (4), an ARM64 instruction InstrBytes    *)
(* (4), of whose value AddrSpan (2^26) is the part of the address.  The    *)
(* sections a header names are given beside the block: what precedes the   *)
(* code is copied, whatever it is.                                         *)
(***************************************************************************)
EXTENDS Integers, Sequences, SequencesExt, Blocks

CONSTANTS
  Base, IntBytes, InstrBytes, AddrSpan,
  TwoByte, Jcc, Jump, Escape, \* X86: 0x0F, 0x8?, 0xE8 and 0xE9, 0x9B
  ThreeByte,                  \* 0x38 and 0x3A
  Branch, CompareBranch,      \* ARM64: opcodes of B and BL, of CBZ and CBNZ
  MinBlock, MinMatches,
  GrowShare, CapShare,        \* of the block: what it may grow by (8, 50)
  ZeroShare, OnesShare, JumpShare, \* detectType's thresholds (10, 100, 200)
  Small                       \* the least 16 byte values

Ones == Base - 1

X86 == 4

ARM64 == 2

MAX_BLOCK_SIZE == AddrSpan * InstrBytes - 1

HeaderSize == 1 + 2 * IntBytes

getMaxEncodedLength(n) == n + n \div GrowShare

Word(n) == Digits(n % Base ^ IntBytes, Base, IntBytes)

Header(mode, codeStart, codeEnd) == <<mode>> \o Word(codeStart) \o Word(codeEnd)

(***************************************************************************)
(* X86.  The instruction at i: the place of its opcode, whether it is a    *)
(* jump, and whether the end of the code cuts it.                          *)
(***************************************************************************)
Opcode(src, i) == IF At(src, i) = TwoByte THEN i + 1 ELSE i

IsJump(src, i) ==
  IF At(src, i) = TwoByte THEN At(src, i + 1) \in Jcc ELSE At(src, i) \in Jump

IsCut(src, i, codeEnd) ==
  \/ Opcode(src, i) >= codeEnd
  \/ IsJump(src, i) /\ Opcode(src, i) + IntBytes >= codeEnd

(***************************************************************************)
(* A jump goes at most Base^(IntBytes - 1) - 1 bytes either way; the byte  *)
(* above the offset is the sign.  What does not look like that is no jump. *)
(* The address is written the other way round, half of each byte flipped.  *)
(***************************************************************************)
Reach == Base ^ (IntBytes - 1)

Offset(src, op) == Value(Part(src, op + 1, IntBytes - 1), Base)

Sign(src, op) == At(src, op + IntBytes)

FalseJump(src, op) ==
  \/ Sign(src, op) \notin {0, Ones}
  \/ Sign(src, op) = Ones /\ Offset(src, op) = 0

Address(src, op) ==
  op + Offset(src, op) - (IF Sign(src, op) = 0 THEN 0 ELSE Reach)

Flipped(digits) == [k \in DOMAIN digits |-> (digits[k] + Base \div 2) % Base]

Escaped(b) == IF b = Escape THEN <<Escape, b>> ELSE <<b>>

(***************************************************************************)
(* What the instruction becomes, where the next one is, and whether an     *)
(* address was changed.                                                    *)
(***************************************************************************)
Instruction(src, i) ==
  LET op == Opcode(src, i)
      prefix == Part(src, i, op - i)
  IN  IF ~IsJump(src, i)
      THEN [code |-> prefix \o Escaped(At(src, op)), next |-> op + 1, match |-> 0]
      ELSE IF FalseJump(src, op)
      THEN [code |-> prefix \o <<Escape, At(src, op)>>, next |-> op + 1, match |-> 0]
      ELSE [code |-> prefix \o <<At(src, op)>> \o Flipped(Reverse(Word(Address(src, op)))),
            next |-> op + 1 + IntBytes, match |-> 1]

\* i: read so far; out: written so far, without the header; full: no room was left.
RECURSIVE EncodeX86(_, _, _, _, _, _)
EncodeX86(src, i, codeEnd, dstEnd, out, matches) ==
  LET stopped(full) == [i |-> i, out |-> out, matches |-> matches, full |-> full]
  IN  IF i >= codeEnd THEN stopped(FALSE)
      ELSE IF HeaderSize + Len(out) >= dstEnd THEN stopped(TRUE)
      ELSE IF IsCut(src, i, codeEnd) THEN stopped(FALSE)
      ELSE CHOOSE r \in {EncodeX86(src, ins.next, codeEnd, dstEnd, out \o ins.code,
                                   matches + ins.match) : ins \in {Instruction(src, i)}} : TRUE

(***************************************************************************)
(* ARM64.  A branch holds the opcode above a signed number of              *)
(* instructions; a target before the block, or at its start, is written as *)
(* 0, and the instruction itself follows.                                  *)
(***************************************************************************)
Instr(src, i) == Value(Part(src, i, InstrBytes), Base)

Signed(offset) == IF offset < AddrSpan \div 2 THEN offset ELSE offset - AddrSpan

Target(src, i) ==
  LET addr == i + InstrBytes * Signed(Instr(src, i) % AddrSpan)
  IN  IF addr < 0 THEN 0 ELSE addr

WithTarget(op, units) == Digits(op * AddrSpan + (units % AddrSpan), Base, InstrBytes)

RECURSIVE EncodeARM(_, _, _, _, _, _)
EncodeARM(src, i, codeEnd, dstEnd, out, matches) ==
  LET op == Instr(src, i) \div AddrSpan
      addr == Target(src, i)
      instr == Part(src, i, InstrBytes)
      code == WithTarget(op, addr \div InstrBytes)
      stopped(full) == [i |-> i, out |-> out, matches |-> matches, full |-> full]
      on(written, match) ==
        EncodeARM(src, i + InstrBytes, codeEnd, dstEnd, out \o written, matches + match)
  IN  IF i + InstrBytes > codeEnd THEN stopped(FALSE)
      ELSE IF HeaderSize + Len(out) >= dstEnd THEN stopped(TRUE)
      ELSE IF op \notin Branch THEN on(instr, 0)
      ELSE IF addr = 0 THEN on(code \o instr, 0)
      ELSE on(code, 1)

(***************************************************************************)
(* The result: enough addresses changed, room for the rest, and no more    *)
(* growth than false positives may cost.                                   *)
(***************************************************************************)
Encoded(mode, src, codeStart, dstEnd, r) ==
  LET n == Len(src)
      end == HeaderSize + Len(r.out)
      size == end + n - r.i
  IN  IF r.matches < MinMatches \/ r.full \/ size > dstEnd \/ size > n + n \div CapShare
      THEN Fail
      ELSE Done(Header(mode, codeStart, end) \o r.out \o From(src, r.i))

ForwardX86(src, room, codeStart, codeEnd) ==
  LET dstEnd == room - (IntBytes + 1)
  IN  Once(LAMBDA r : Encoded(X86, src, codeStart, dstEnd, r),
           EncodeX86(src, codeStart, codeEnd, dstEnd, Part(src, 0, codeStart), 0))

ForwardARM(src, room, codeStart, codeEnd) ==
  LET dstEnd == room - 2 * InstrBytes
  IN  Once(LAMBDA r : Encoded(ARM64, src, codeStart, dstEnd, r),
           EncodeARM(src, codeStart, codeEnd, dstEnd, Part(src, 0, codeStart), 0))

(***************************************************************************)
(* parseHeader: the code goes from the first section that does not start   *)
(* the block to the end of the last one.  A section that is not in the     *)
(* block, or a broken table behind those listed, makes the header unknown, *)
(* and leaves the range as it is by then.                                  *)
(***************************************************************************)
setCodeRange(r, n, section) ==
  IF ~r.known THEN r
  ELSE IF section.length > n - section.start THEN [r EXCEPT !.known = FALSE]
  ELSE [r EXCEPT !.start = IF @ = 0 THEN section.start ELSE @,
                 !.end = section.start + section.length]

parseHeader(header, n) ==
  LET range == FoldLeft(LAMBDA r, s : setCodeRange(r, n, s),
                        [known |-> header.arch # "NONE", start |-> 0, end |-> n],
                        header.sections)
  IN  [range EXCEPT !.known = @ /\ ~header.broken]

(***************************************************************************)
(* detectType without a header that tells: jumps and branches are counted  *)
(* where the scan stops, which passes over some bytes.                     *)
(***************************************************************************)
ARMJump(src, i, codeEnd) ==
  /\ i % InstrBytes = 0 /\ i + InstrBytes <= codeEnd
  /\ Instr(src, i) \div AddrSpan \in Branch \cup CompareBranch

RECURSIVE Scan(_, _, _, _)
Scan(src, i, codeEnd, t) ==
  LET b == At(src, i)
      called == b \in Jump /\ i + IntBytes < codeEnd /\ Sign(src, i) \in {0, Ones}
      two == b = TwoByte /\ i + 1 < codeEnd
      j == IF ~two THEN i
           ELSE IF At(src, i + 1) \in ThreeByte /\ i + 2 < codeEnd THEN i + 2 ELSE i + 1
      x86 == called \/ (two /\ At(src, j) \in Jcc)
      arm == (~x86) /\ ARMJump(src, j, codeEnd)
  IN  IF i >= codeEnd THEN t
      ELSE Scan(src, j + 1, codeEnd,
                [seen |-> Append(t.seen, b),
                 x86 |-> t.x86 + (IF x86 THEN 1 ELSE 0),
                 arm |-> t.arm + (IF arm THEN 1 ELSE 0)])

Judged(t, n) ==
  CASE \/ CountOf(t.seen, 0) < n \div ZeroShare
       \/ CountOf(t.seen, Ones) < n \div OnesShare
       \/ Len(SelectSeq(t.seen, LAMBDA b : b \in Small)) > n \div 2 -> "NOT_EXE"
    [] OTHER -> IF t.x86 >= n \div JumpShare THEN "X86"
                ELSE IF t.arm >= n \div JumpShare THEN "ARM64" ELSE "NOT_EXE"

detectType(src, header, detected, range) ==
  LET n == IF range.known THEN range.end - range.start ELSE Len(src)
  IN  IF range.end < range.start THEN "NOT_EXE"
      ELSE IF range.known /\ header.arch \in {"X86", "ARM64"} THEN header.arch
      ELSE IF n <= 0 \/ detected # "BIN" THEN "NOT_EXE"
      ELSE Once(LAMBDA t : Judged(t, n),
                Scan(src, range.start, range.end, [seen |-> <<>>, x86 |-> 0, arm |-> 0]))

forward(src, room, type, detected, header) ==
  LET n == Len(src)
      coded(range) ==
        LET mode == detectType(src, header, detected, range)
        IN  CASE mode = "X86" -> ForwardX86(src, room, range.start, range.end)
              [] mode = "ARM64" -> ForwardARM(src, room, range.start, range.end)
              [] OTHER -> Fail
  IN  IF n = 0 THEN Done(<<>>)
      ELSE IF \/ n < MinBlock \/ n > MAX_BLOCK_SIZE
              \/ room < getMaxEncodedLength(n)
              \/ type \notin {"UNDEFINED", "EXE", "BIN"}
      THEN Fail
      ELSE Once(coded, parseHeader(header, n))

(***************************************************************************)
(* The inverses: dst is written so far, and its length the place of the    *)
(* instruction; a jump back gets the sign byte back, however far.          *)
(***************************************************************************)
Tailed(src, i, dst, room) ==
  IF Len(dst) + Len(src) - i > room THEN Fail ELSE Done(dst \o From(src, i))

SignedWord(digits) ==
  LET v == Value(digits, Base)
  IN  IF v < Base ^ IntBytes \div 2 THEN v ELSE v - Base ^ IntBytes

Relative(addr, at) ==
  IF addr >= at THEN addr - at ELSE -((at - addr) % Reach)

RECURSIVE DecodeX86(_, _, _, _, _)
DecodeX86(src, i, codeEnd, dst, room) ==
  LET two == At(src, i) = TwoByte
      op == Opcode(src, i)
      at == Len(dst) + (op - i)
      lit == IF At(src, op) = Escape THEN op + 1 ELSE op
      prefix == Part(src, i, op - i)
      addr == SignedWord(Reverse(Flipped(Part(src, op + 1, IntBytes))))
  IN  IF i >= codeEnd THEN Tailed(src, i, dst, room)
      ELSE IF op >= codeEnd
      THEN IF Len(dst) >= room THEN Fail ELSE Tailed(src, i + 1, Append(dst, TwoByte), room)
      ELSE IF ~IsJump(src, i)
      THEN IF lit >= codeEnd \/ at >= room THEN Fail
           ELSE DecodeX86(src, lit + 1, codeEnd, dst \o prefix \o <<At(src, lit)>>, room)
      ELSE IF op + IntBytes >= codeEnd \/ at + 1 + IntBytes > room THEN Fail
      ELSE DecodeX86(src, op + 1 + IntBytes, codeEnd,
                     dst \o prefix \o <<At(src, op)>> \o Word(Relative(addr, at)), room)

RECURSIVE DecodeARM(_, _, _, _, _)
DecodeARM(src, i, codeEnd, dst, room) ==
  LET op == Instr(src, i) \div AddrSpan
      addr == (Instr(src, i) % AddrSpan) * InstrBytes
      on(from, next) == DecodeARM(src, next, codeEnd, dst \o from, room)
  IN  IF i >= codeEnd THEN Tailed(src, i, dst, room)
      ELSE IF i + InstrBytes > codeEnd \/ Len(dst) + InstrBytes > room THEN Fail
      ELSE IF op \notin Branch THEN on(Part(src, i, InstrBytes), i + InstrBytes)
      ELSE IF addr # 0
      THEN on(WithTarget(op, (addr - Len(dst)) \div InstrBytes), i + InstrBytes)
      ELSE IF i + 2 * InstrBytes > codeEnd THEN Fail
      ELSE on(Part(src, i + InstrBytes, InstrBytes), i + 2 * InstrBytes)

inverse(src, room) ==
  LET mode == At(src, 0)
      codeStart == Value(Part(src, 1, IntBytes), Base)
      codeEnd == Value(Part(src, 1 + IntBytes, IntBytes), Base)
      from == HeaderSize + codeStart
      begun == Part(src, HeaderSize, codeStart)
  IN  IF src = <<>> THEN Done(<<>>)
      ELSE IF \/ Len(src) < HeaderSize \/ codeEnd > Len(src)
              \/ from > codeEnd \/ codeStart > room
      THEN Fail
      ELSE CASE mode = X86 -> DecodeX86(src, from, codeEnd, begun, room)
             [] mode = ARM64 -> DecodeARM(src, from, codeEnd, begun, room)
             [] OTHER -> Fail
=============================================================================
