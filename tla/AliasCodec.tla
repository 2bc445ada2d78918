----------------------------- MODULE AliasCodec -----------------------------
(***************************************************************************)
(* Alias codec: a block that uses few byte values has several of them      *)
(* packed in a byte; in another the most frequent pairs are replaced by    *)
(* byte values the block does not use.                                     *)
(*                                                                         *)
(* Base is the number of byte values (256), a fourth power, so that a byte *)
(* holds four symbols of an alphabet of Quarter (4) and two of an alphabet *)
(* of Root (16); a block needs Root absent values.  A length takes         *)
(* LengthBytes bytes (4).                                                  *)
(***************************************************************************)
EXTENDS Integers, Sequences, FiniteSets, SequencesExt, Blocks

CONSTANTS Base, Root, Quarter, MinBlock, MaxHeader, LengthBytes, WorthShare

Byte == 0..Base - 1

getMaxEncodedLength(n) == n + MaxHeader

Ascending(S) == Ordered(S, LAMBDA a, b : a < b)

Absent(src) == Ascending({b \in Byte : ~Contains(src, b)})

Symbols(src) == Ascending(ToSet(src))

Refused(type, onlyDNA) ==
  \/ type \in {"MULTIMEDIA", "UTF8", "EXE", "BIN"}
  \/ onlyDNA /\ type \notin {"UNDEFINED", "DNA"}

(***************************************************************************)
(* Packing: per symbols to a byte, the first of them the most significant, *)
(* after the count of the bytes that are left as they are.                 *)
(***************************************************************************)
IndexIn(symbols, b) == (CHOOSE k \in DOMAIN symbols : symbols[k] = b) - 1

Packed(src, symbols, per, radix) ==
  LET odd == Len(src) % per
  IN  <<odd>> \o Part(src, 0, odd) \o
      [k \in 1..Len(src) \div per |->
         Value([j \in 1..per |-> IndexIn(symbols, At(src, odd + k * per - j))], radix)]

PackBytes(src) ==
  LET symbols == Symbols(src)
      n == Len(symbols)
  IN  <<Base - n>> \o
      IF n = 1 THEN <<src[1]>> \o Digits(Len(src), Base, LengthBytes)
      ELSE symbols \o IF n <= Quarter THEN Packed(src, symbols, 4, Quarter)
                      ELSE Packed(src, symbols, 2, Root)

(***************************************************************************)
(* Digrams: the pairs of the block, the most frequent first, are given the *)
(* absent values in turn.  The histogram counts a zero before the block.   *)
(***************************************************************************)
PairAt(src, i) == <<At(src, i), At(src, i + 1)>>

Frequencies(src) ==
  LET all == {PairAt(src, i) : i \in 0..Len(src) - 2}
  IN  [p \in all |-> Cardinality({i \in 0..Len(src) - 2 : PairAt(src, i) = p})]

Pairs(src) ==
  LET freqs(f) == {[pair |-> p, freq |-> f[p]] : p \in DOMAIN f}
      val(p) == p[1] * Base + p[2]
  IN  Ordered(Once(freqs, Frequencies(<<0>> \o src)),
              LAMBDA a, b : \/ a.freq > b.freq
                            \/ a.freq = b.freq /\ val(a.pair) > val(b.pair))

RECURSIVE Aliased(_, _, _, _)
Aliased(src, i, aliases, out) ==
  LET at == {k \in DOMAIN aliases : aliases[k].pair = PairAt(src, i)}
  IN  IF i >= Len(src) - 1 THEN [at |-> i, out |-> out]
      ELSE IF at = {} THEN Aliased(src, i + 1, aliases, Append(out, At(src, i)))
      ELSE Aliased(src, i + 2, aliases,
                   Append(out, aliases[CHOOSE k \in at : TRUE].byte))

Digrams(src) ==
  LET absent == Absent(src)
      pairs == Pairs(src)
      n == IF Len(pairs) < Len(absent) THEN Len(pairs) ELSE Len(absent)
      aliases == [k \in 1..n |-> [pair |-> pairs[k].pair, byte |-> absent[k]]]
      savings == Fold(LAMBDA s, p : s + p.freq, 0, SubSeq(pairs, 1, n))
      body == Aliased(src, 0, aliases, <<>>)
      left == From(src, body.at)
  IN  IF n < Root \/ savings < Len(src) \div WorthShare THEN Fail
      ELSE Done(<<n, Len(left)>>
                \o FlattenSeq([k \in 1..n |-> aliases[k].pair \o <<aliases[k].byte>>])
                \o body.out \o left)

forward(src, room, type, detected, onlyDNA) ==
  LET known == IF type = "UNDEFINED" THEN detected ELSE type
      res == IF Len(Symbols(src)) <= Root THEN Done(PackBytes(src)) ELSE Digrams(src)
  IN  IF src = <<>> THEN Done(<<>>)
      ELSE IF \/ Len(src) < MinBlock
              \/ room < getMaxEncodedLength(Len(src))
              \/ Refused(type, onlyDNA)
              \/ Len(Absent(src)) < Root
              \/ onlyDNA /\ known # "DNA"
           THEN Fail
           ELSE [res EXCEPT !.ok = @ /\ Len(res.out) < Len(src)]

(***************************************************************************)
(* The inverse.                                                            *)
(***************************************************************************)
Unpacked(src, at, symbols, per, radix, room) ==
  LET odd == At(src, at)
      data == From(src, at + 1 + odd)
  IN  IF odd >= 4 \/ at + 1 + odd > Len(src) \/ Len(data) > (room - odd) \div per THEN Fail
      ELSE Done(Part(src, at + 1, odd) \o
                FlattenSeq([k \in DOMAIN data |->
                  [j \in 1..per |-> symbols[Reverse(Digits(data[k], radix, per))[j] + 1]]]))

UnpackBytes(src, room) ==
  LET n == Base - At(src, 0)
      size == Value(Part(src, 2, LengthBytes), Base)
  IN  IF n = 1
      THEN IF Len(src) < LengthBytes + 2 \/ size > room THEN Fail
           ELSE Done(Fill(src[2], size))
      ELSE IF n + 2 > Len(src) THEN Fail
      ELSE IF n <= Quarter THEN Unpacked(src, n + 1, Part(src, 1, n), 4, Quarter, room)
      ELSE Unpacked(src, n + 1, Part(src, 1, n), 2, Root, room)

UnaliasDigrams(src, room) ==
  LET n == At(src, 0)
      odd == At(src, 1)
      alias(b) == {k \in 0..n - 1 : At(src, 4 + 3 * k) = b}
      meaning(b) == IF alias(b) = {} THEN <<b>>
                    ELSE PairAt(src, 2 + 3 * CHOOSE k \in alias(b) :
                                               \A j \in alias(b) : j <= k)
      data == Part(src, 2 + 3 * n, Len(src) - odd - 2 - 3 * n)
      out == FlattenSeq([k \in DOMAIN data |-> meaning(data[k])])
  IN  IF odd > 1 \/ 2 + 3 * n > Len(src) - odd \/ Len(out) + odd > room THEN Fail
      ELSE Done(out \o From(src, Len(src) - odd))

inverse(src, room) ==
  IF src = <<>> THEN Done(<<>>)
  ELSE IF At(src, 0) < Root THEN Fail
  ELSE IF At(src, 0) >= Base - Root THEN UnpackBytes(src, room)
  ELSE IF Len(src) < 2 THEN Fail
  ELSE UnaliasDigrams(src, room)
=============================================================================
