---------------------------- MODULE EntropyUtils ----------------------------
(***************************************************************************)
(* What the entropy coders share: how an alphabet and an integer are       *)
(* written, and frequencies scaled to a power of two.  Reading starts at a *)
(* position of the bits and returns the one it has come to.                *)
(***************************************************************************)
EXTENDS Integers, Sequences, FiniteSets, Blocks

CONSTANTS
  SymBits,     \* bits of a byte: there are 2^SymBits symbols
  MaskBits,    \* a presence mask is about 2^MaskBits symbols
  VarBits,     \* bits of an integer that a byte of it carries
  IntBytes,    \* bytes of the longest integer
  UintBits     \* width of an unsigned integer

Base == 2 ^ SymBits

Symbols == 0..(Base - 1)

Min2(m, n) == IF m < n THEN m ELSE n

Max2(m, n) == IF m > n THEN m ELSE n

Raw(s) == Fold(LAMBDA t, b : t \o Bits(b, SymBits), <<>>, s)

RawRead(bits, at, n) == [k \in 1..n |-> Peek(bits, at + (k - 1) * SymBits, SymBits)]

Present(freqs) == Ordered({s \in Symbols : freqs[s] # 0}, LAMBDA a, b : a < b)

Histogram(block) == [s \in Symbols |-> CountOf(block, s)]

(***************************************************************************)
(* An alphabet, in increasing order: none, every symbol, or the masks up   *)
(* to that of the last symbol.                                             *)
(***************************************************************************)
MaskOf(alphabet, m) ==
  [j \in 1..(2 ^ MaskBits) |->
     IF \E k \in DOMAIN alphabet : alphabet[k] = (m + 1) * 2 ^ MaskBits - j THEN 1 ELSE 0]

encodeAlphabet(alphabet) ==
  LET lastMask == alphabet[Len(alphabet)] \div 2 ^ MaskBits
  IN  CASE alphabet = <<>> -> <<0, 1>>
        [] Len(alphabet) = Base -> <<0, 0>>
        [] OTHER -> Fold(LAMBDA t, m : t \o MaskOf(alphabet, m - 1),
                         <<1>> \o Bits(lastMask, SymBits - MaskBits),
                         [k \in 1..(lastMask + 1) |-> k])

decodeAlphabet(bits, at) ==
  LET lastMask == Peek(bits, at + 1, SymBits - MaskBits)
      start == at + 1 + SymBits - MaskBits
      held == {s \in Symbols :
                 /\ s \div 2 ^ MaskBits <= lastMask
                 /\ Peek(bits, start + (s \div 2 ^ MaskBits + 1) * 2 ^ MaskBits
                                 - (s % 2 ^ MaskBits) - 1, 1) = 1}
  IN  IF Peek(bits, at, 1) = 0
      THEN [alphabet |-> IF Peek(bits, at + 1, 1) = 0 THEN [k \in 1..Base |-> k - 1] ELSE <<>>,
            at |-> at + 2]
      ELSE [alphabet |-> Ordered(held, LAMBDA a, b : a < b),
            at |-> start + (lastMask + 1) * 2 ^ MaskBits]

(***************************************************************************)
(* Integers, a few bits a byte, the least significant first.  A last byte  *)
(* that says there is more, or holds more than the bits that are left of   *)
(* an integer, is an error.                                                *)
(***************************************************************************)
RECURSIVE writeVarInt(_)
writeVarInt(value) ==
  IF value >= 2 ^ VarBits
  THEN <<1>> \o Bits(value % 2 ^ VarBits, VarBits) \o writeVarInt(value \div 2 ^ VarBits)
  ELSE <<0>> \o Bits(value, VarBits)

LeftOver == UintBits - VarBits * (IntBytes - 1)

RECURSIVE VarIntFrom(_, _, _)
VarIntFrom(bits, at, left) ==
  LET more == Peek(bits, at, 1) = 1
      value == Peek(bits, at + 1, VarBits)
      high == VarIntFrom(bits, at + 1 + VarBits, left - 1)
      tooLong == left = 1 /\ (more \/ value >= 2 ^ LeftOver)
  IN  CASE tooLong -> [ok |-> FALSE, value |-> 0, at |-> at + 1 + VarBits]
        [] ~more /\ ~tooLong -> [ok |-> TRUE, value |-> value, at |-> at + 1 + VarBits]
        [] OTHER -> [high EXCEPT !.value = value + 2 ^ VarBits * @]

readVarInt(bits, at) == VarIntFrom(bits, at, IntBytes)

(***************************************************************************)
(* normalizeFrequencies: frequencies that add up to total scaled to add up *)
(* to scale.  The error of the rounding goes to the largest one when it is *)
(* small; otherwise a part of it does and the rest is spread, one at a     *)
(* time and in a few rounds, over those above two; what even that leaves   *)
(* is taken from the largest, on unsigned numbers.                         *)
(***************************************************************************)
ScaledFreq(f, total, scale) ==
  CASE f = 0 -> 0
    [] f # 0 /\ f * scale <= total -> 1
    [] OTHER -> (f * scale + total \div 2) \div total

Pass(freqs, alphabet, delta, inc) ==
  LET adjust(t, s) ==
        IF t.delta = 0 \/ t.freqs[s] <= 2 THEN t
        ELSE [freqs |-> [t.freqs EXCEPT ![s] = @ + inc], delta |-> t.delta - 1, made |-> TRUE]
  IN  Fold(adjust, [freqs |-> freqs, delta |-> delta, made |-> FALSE], alphabet)

RECURSIVE Spread(_, _, _, _, _)
Spread(freqs, alphabet, delta, inc, round) ==
  LET pass == Pass(freqs, alphabet, delta, inc)
  IN  IF round = 6 \/ delta <= 0 THEN [freqs |-> freqs, delta |-> delta]
      ELSE IF ~pass.made THEN [freqs |-> pass.freqs, delta |-> pass.delta]
      ELSE Spread(pass.freqs, alphabet, pass.delta, inc, round + 1)

Corrected(freqs, alphabet, idxMax, delta) ==
  LET errThr == freqs[idxMax] \div 16
      size == IF delta < 0 THEN -delta ELSE delta
      less == IF delta < 0 THEN errThr ELSE -errThr
      rest == Spread([freqs EXCEPT ![idxMax] = @ + less], alphabet, size - errThr,
                     IF delta < 0 THEN 1 ELSE -1, 1)
  IN  IF size <= errThr THEN [freqs EXCEPT ![idxMax] = @ - delta]
      ELSE [rest.freqs EXCEPT ![idxMax] = Max2((@ - rest.delta) % 2 ^ UintBits, 1)]

normalizeFrequencies(freqs, total, scale) ==
  LET alphabet == Present(freqs)
      scaled == [s \in Symbols |-> ScaledFreq(freqs[s], total, scale)]
      sum == Fold(LAMBDA n, s : n + scaled[s], 0, alphabet)
      idxMax == CHOOSE s \in Symbols :
                  /\ \A r \in Symbols : scaled[r] <= scaled[s]
                  /\ \A r \in 0..(s - 1) : scaled[r] < scaled[s]
  IN  CASE alphabet = <<>> \/ total = scale -> freqs
        [] alphabet # <<>> /\ total # scale ->
             IF Len(alphabet) = 1 THEN [freqs EXCEPT ![alphabet[1]] = scale]
             ELSE IF sum = scale THEN scaled
             ELSE Corrected(scaled, alphabet, idxMax, sum - scale)

(***************************************************************************)
(* Normalized frequencies but the first, in groups: the width of the       *)
(* largest of the group, then all of them less one.                        *)
(***************************************************************************)
GroupSize(alphabet) == IF Len(alphabet) >= Base \div 4 THEN 8 ELSE 6

Widest(group) ==
  LET max == Fold(Max2, 0, group)
  IN  IF max = 0 THEN 0 ELSE Log2(max) + 1

RECURSIVE FreqGroups(_, _, _, _)
FreqGroups(freqs, alphabet, i, llr) ==
  LET n == Min2(GroupSize(alphabet), Len(alphabet) - i + 1)
      group == [k \in 1..n |-> freqs[alphabet[i + k - 1]] - 1]
      logMax == Widest(group)
  IN  IF i > Len(alphabet) THEN <<>>
      ELSE Fold(LAMBDA t, f : t \o Bits(f, logMax), Bits(logMax, llr), group)
             \o FreqGroups(freqs, alphabet, i + n, llr)

RECURSIVE ReadGroups(_, _, _, _, _, _, _)
ReadGroups(bits, at, alphabet, i, llr, lr, got) ==
  LET n == Min2(GroupSize(alphabet), Len(alphabet) - i + 1)
      logMax == Peek(bits, at, llr)
      group == [k \in 1..n |-> Peek(bits, at + llr + (k - 1) * logMax, logMax) + 1]
  IN  IF i > Len(alphabet) \/ logMax > lr
      THEN [ok |-> i > Len(alphabet), rest |-> got, at |-> at]
      ELSE ReadGroups(bits, at + llr + n * logMax, alphabet, i + n, llr, lr, got \o group)

(***************************************************************************)
(* The frequencies that were read, with the first inferred; valid unless   *)
(* nothing is left for it.                                                 *)
(***************************************************************************)
FreqsOf(alphabet, rest, scale) ==
  LET first == scale - SumOf(rest)
  IN  [ok |-> first > 0 /\ \A k \in DOMAIN rest : rest[k] < scale,
       freqs |-> [s \in Symbols |->
                    IF s = alphabet[1] THEN first
                    ELSE IF \E k \in DOMAIN rest : alphabet[k + 1] = s
                         THEN rest[CHOOSE k \in DOMAIN rest : alphabet[k + 1] = s]
                         ELSE 0]]

(***************************************************************************)
(* What a chunk and those after it decode to; a failure ends it.           *)
(***************************************************************************)
Joined(chunk, rest) ==
  IF chunk.ok THEN [rest EXCEPT !.out = chunk.out \o @] ELSE chunk

CumFreq(freqs, s) == Fold(LAMBDA n, k : n + freqs[k - 1], 0, [k \in 1..s |-> k])

SymbolAt(freqs, cum) ==
  LET held == {s \in Symbols : CumFreq(freqs, s) <= cum /\ cum < CumFreq(freqs, s) + freqs[s]}
  IN  IF held = {} THEN 0 ELSE CHOOSE s \in held : TRUE
=============================================================================
