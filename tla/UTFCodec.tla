------------------------------ MODULE UTFCodec ------------------------------
(***************************************************************************)
(* UTF codec: the characters of a text, the most frequent first, are       *)
(* listed in a header and replaced by one or two byte aliases.  A block    *)
(* may start or end inside a character: up to three bytes at its start and *)
(* the last four are left as they are.                                     *)
(*                                                                         *)
(* Short is the number of one byte aliases (128), MaxSymbols bounds the    *)
(* distinct characters (32768), Slack is what the header may need (8192).  *)
(***************************************************************************)
EXTENDS Integers, Sequences, FiniteSets, SequencesExt, Blocks

CONSTANTS Short, MaxSymbols, MinBlock, Slack

getMaxEncodedLength(n) == n + Slack

Tail4 == 4

LEN_SEQ(b) ==
  CASE b < 128 -> 1
    [] b \in 194..223 -> 2
    [] b \in 224..239 -> 3
    [] b \in 240..244 -> 4
    [] OTHER -> 0

Continues(b) == b \in 128..191

(***************************************************************************)
(* A character as a number: its size in the top bits, then its payload,    *)
(* which of a byte after the first keeps only the six low bits.            *)
(***************************************************************************)
Size2 == 524288

pack(src, i) ==
  LET b(k) == At(src, i + k)
      low(k) == b(k) % 64
      lead == b(0) \div 16
  IN  CASE lead < 8 -> [size |-> 1, val |-> b(0)]
        [] lead \in {12, 13} -> [size |-> 2, val |-> Size2 + b(0) * 256 + b(1)]
        [] lead = 14 -> [size |-> 3, val |-> 2 * Size2 + (b(0) % 16) * 4096 + low(1) * 64 + low(2)]
        [] lead = 15 -> [size |-> 4, val |-> 4 * Size2 + (b(0) % 8) * 262144
                                             + low(1) * 4096 + low(2) * 64 + low(3)]
        [] OTHER -> [size |-> 0, val |-> 0]

unpack(v) ==
  LET six(d) == 128 + ((v \div d) % 64)
  IN  CASE v \div Size2 = 0 -> <<v % 256>>
        [] v \div Size2 = 1 -> <<(v \div 256) % 256, v % 256>>
        [] v \div Size2 = 2 -> <<224 + ((v \div 4096) % 16), six(64), six(1)>>
        [] v \div Size2 \in 4..7 -> <<240 + ((v \div 262144) % 8), six(4096), six(64), six(1)>>
        [] OTHER -> <<>>

(***************************************************************************)
(* The quick validation: bytes no text has, second bytes no first byte     *)
(* allows, and enough continuation bytes.                                  *)
(***************************************************************************)
SecondBytes(a) ==
  CASE a = 224 -> 160..191
    [] a = 237 -> 128..159
    [] a = 240 -> 144..191
    [] a = 244 -> 128..143
    [] a \in 194..223 \cup 225..236 \cup 238..239 \cup 241..243 -> 128..191
    [] OTHER -> 0..255

validate(block) ==
  /\ ~ \E i \in DOMAIN block : block[i] \in {192, 193} \cup 245..255
  /\ \A i \in 2..Len(block) : block[i] \in SecondBytes(block[i - 1])
  /\ Cardinality({i \in DOMAIN block : Continues(block[i])}) >= Len(block) \div 8

RECURSIVE LeadingFragment(_, _)
LeadingFragment(src, i) ==
  IF i < 4 /\ LEN_SEQ(At(src, i)) = 0 THEN LeadingFragment(src, i + 1) ELSE i

Start(src) ==
  IF Len(src) >= 3 /\ Part(src, 0, 3) = <<239, 187, 191>> THEN 3 ELSE LeadingFragment(src, 0)

(***************************************************************************)
(* The characters from i on, until the last four bytes are reached.        *)
(***************************************************************************)
WholeAt(src, i) ==
  LET s == pack(src, i).size
  IN  /\ s # 0
      /\ s >= 3 => Continues(At(src, i + 2))
      /\ s = 4 => Continues(At(src, i + 3))

RECURSIVE Characters(_, _, _)
Characters(src, i, vals) ==
  IF i >= Len(src) - Tail4 THEN [ok |-> TRUE, vals |-> vals, at |-> i]
  ELSE IF ~WholeAt(src, i) THEN [ok |-> FALSE, vals |-> vals, at |-> i]
  ELSE Characters(src, i + pack(src, i).size, Append(vals, pack(src, i).val))

Ranked(vals) ==
  LET freq == [v \in ToSet(vals) |-> CountOf(vals, v)]
  IN  Ordered(ToSet(vals), LAMBDA a, b : freq[a] > freq[b] \/ (freq[a] = freq[b] /\ a > b))

Alias(rank) ==
  IF rank < Short THEN <<rank>> ELSE <<Short + (rank % Short), rank \div Short>>

Header(start, adjust, symbols) ==
  <<start, adjust, Len(symbols) \div 256, Len(symbols) % 256>>
  \o FlattenSeq([k \in DOMAIN symbols |->
       <<symbols[k] \div 65536, (symbols[k] \div 256) % 256, symbols[k] % 256>>])

Aliases(vals, symbols) ==
  LET rank == [v \in ToSet(vals) |-> (CHOOSE k \in DOMAIN symbols : symbols[k] = v) - 1]
  IN  FlattenSeq([k \in DOMAIN vals |-> Alias(rank[vals[k]])])

Worth(src) == Len(src) - Len(src) \div 10

forward(src, room, type) ==
  LET start == Start(src)
      chars == Characters(src, start, <<>>)
      symbols == Ranked(chars.vals)
      n == Len(symbols)
      data == Aliases(chars.vals, symbols)
      out == Header(start, chars.at - (Len(src) - Tail4), symbols)
             \o Part(src, 0, start) \o data \o From(src, chars.at)
  IN  IF src = <<>> THEN Done(<<>>)
      ELSE IF \/ Len(src) < MinBlock \/ room < getMaxEncodedLength(Len(src))
              \/ type \notin {"UNDEFINED", "UTF8"}
              \/ type # "UTF8" /\ ~validate(Part(src, start, Len(src) - start - Tail4))
              \/ ~chars.ok \/ n = 0 \/ n >= MaxSymbols
              \/ 3 * n + 6 >= Worth(src)
              \/ 10 + Len(data) >= Worth(src)
           THEN Fail
           ELSE [ok |-> Len(out) < Worth(src), out |-> out]

(***************************************************************************)
(* The inverse.                                                            *)
(***************************************************************************)
SymbolAt(src, k) ==
  unpack(At(src, 4 + 3 * k) * 65536 + At(src, 5 + 3 * k) * 256 + At(src, 6 + 3 * k))

RECURSIVE Expand(_, _, _, _, _, _)
Expand(src, i, end, symbols, out, room) ==
  LET long == At(src, i) >= Short
      alias == IF long THEN At(src, i + 1) * Short + (At(src, i) % Short) ELSE At(src, i)
      next == IF long THEN i + 2 ELSE i + 1
  IN  IF i >= end THEN [ok |-> TRUE, at |-> i, out |-> out]
      ELSE IF alias >= Len(symbols) \/ Len(out) + Len(symbols[alias + 1]) > room
           THEN [ok |-> FALSE]
           ELSE Expand(src, next, end, symbols, out \o symbols[alias + 1], room)

LastFragment(src, body, end, room, adjust) ==
  LET full == body.at # end \/ Len(body.out) >= room - Tail4 + adjust
      out == IF full THEN body.out ELSE body.out \o Part(src, body.at, Tail4 - adjust)
  IN  [ok |-> body.at + (IF full THEN 0 ELSE Tail4 - adjust) = Len(src), out |-> out]

inverse(src, room) ==
  LET start == At(src, 0) % 4
      adjust == At(src, 1) % 4
      n == At(src, 2) * 256 + At(src, 3)
      end == Len(src) - Tail4 + adjust
      at == 4 + 3 * n
      symbols == [k \in 1..n |-> SymbolAt(src, k - 1)]
      body == Expand(src, at + start, end, symbols, Part(src, at, start), room)
  IN  IF src = <<>> THEN Done(<<>>)
      ELSE IF Len(src) < 4 THEN Fail
      ELSE IF n = 0 \/ n >= MaxSymbols \/ 3 * n > Len(src) - 4 THEN Fail
      ELSE IF \/ \E k \in DOMAIN symbols : symbols[k] = <<>>
              \/ room < 4 \/ at + start > end \/ start > room
           THEN Fail
      ELSE IF ~body.ok THEN Fail
      ELSE LastFragment(src, body, end, room, adjust)
=============================================================================
