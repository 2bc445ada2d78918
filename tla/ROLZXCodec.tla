----------------------------- MODULE ROLZXCodec -----------------------------
(***************************************************************************)
(* ROLZX: the literals and matches of ROLZ, each coded by an adaptive      *)
(* binary coder whose predictions depend on the byte before.               *)
(*                                                                         *)
(* The coder itself is left out: a symbol is decoded to what was encoded   *)
(* when the predictions are the same, that is when the same symbols were   *)
(* coded in the same context since the last reset, and to anything when    *)
(* they are not.  A coded symbol carries that history.                     *)
(***************************************************************************)
EXTENDS ROLZCodec

CONSTANT Byte

Contexts == {"LITERAL_CTX", "MATCH_CTX"} \X Byte

Reset == [c \in Contexts |-> <<>>]

EncodeSymbol(re, c, val) ==
  [probs |-> [re.probs EXCEPT ![c] = Append(@, val)],
   out |-> Append(re.out, [probs |-> re.probs[c], val |-> val])]

Literal(b) == <<"LITERAL_FLAG", b>>

EncodeLiterals(re, src, from, n, first) ==
  Fold(LAMBDA r, k :
         EncodeSymbol(r, <<"LITERAL_CTX", IF first THEN 0 ELSE At(src, from + k - 1)>>,
                      Literal(At(src, from + k))),
       re, [k \in 1..n |-> k - 1])

EncodeMatch(re, before, m, set) ==
  EncodeSymbol(EncodeSymbol(re, <<"LITERAL_CTX", before>>, <<"MATCH_FLAG", m.len - set.min>>),
               <<"MATCH_CTX", before>>, m.rank)

RECURSIVE EncodeChunkX(_, _, _, _, _, _, _)
EncodeChunkX(src, base, size, i, p, re, set) ==
  LET q == RegisterAt(src, base, i, p, set)
      next(m) ==
        IF m.len < set.min
        THEN EncodeChunkX(src, base, size, i + 1, q,
                          EncodeLiterals(re, src, base + i, 1, FALSE), set)
        ELSE EncodeChunkX(src, base, size, i + m.len, q,
                          EncodeMatch(re, At(src, base + i - 1), m, set), set)
  IN  IF i >= size THEN [p |-> p, re |-> re]
      ELSE Once(next, findMatch(src, base, i, size, p, set, TRUE))

RECURSIVE EncodeChunksX(_, _, _, _, _, _)
EncodeChunksX(src, base, size, counters, out, set) ==
  LET end == Smaller(base + size, Len(src) - LastPart)
      n == Smaller(Len(src) - LastPart - base, First)
      re == EncodeLiterals([probs |-> Reset, out |-> out], src, base, n, TRUE)
      next(t) == IF end >= Len(src) - LastPart
                 THEN EncodeLiterals(t.re, src, end, LastPart, FALSE).out
                 ELSE EncodeChunksX(src, end, end - base, t.p.counters, t.re.out, set)
  IN  Once(next, EncodeChunkX(src, base, end - base, n,
                              [counters |-> counters, rings |-> NoPlaces], re, set))

Dispose == 8

EncodedX(src, set) ==
  <<Len(src), set.flags>> \o EncodeChunksX(src, 0, Chunks(Len(src)), NoCounters, <<>>, set)

forward2(src, room, type) ==
  LET result(out) == [ok |-> Len(out) + Dispose < Len(src), out |-> out]
  IN  IF room < getMaxEncodedLength(Len(src), TRUE) THEN Fail
      ELSE Once(result, EncodedX(src, Settings(type, TRUE)))

(***************************************************************************)
(* The inverse.  Its chunks are cut from the whole block, those of the     *)
(* encoder from the block without its last part.                           *)
(***************************************************************************)
DecodeSymbol(rd, c) ==
  LET s == rd.src[rd.at]
  IN  IF rd.at > Len(rd.src) THEN [ok |-> FALSE]
      ELSE [ok |-> s.probs = rd.probs[c], val |-> s.val,
            rd |-> [rd EXCEPT !.at = @ + 1, !.probs[c] = Append(@, s.val)]]

RECURSIVE DecodeFirst(_, _, _)
DecodeFirst(rd, out, n) ==
  LET s == DecodeSymbol(rd, <<"LITERAL_CTX", 0>>)
  IN  IF n = 0 THEN [ok |-> TRUE, rd |-> rd, out |-> out]
      ELSE IF ~s.ok THEN [ok |-> FALSE]
      ELSE IF s.val[1] = "MATCH_FLAG" THEN [ok |-> FALSE]
      ELSE DecodeFirst(s.rd, Append(out, s.val[2]), n - 1)

RECURSIVE DecodeChunkX(_, _, _, _, _, _, _)
DecodeChunkX(rd, out, base, size, p, dstEnd, set) ==
  LET pos == Len(out) - base
      before == out[Len(out)]
      key == Key(out, Len(out), set)
      q == Register(p, key, 0, pos)
      s == DecodeSymbol(rd, <<"LITERAL_CTX", before>>)
      rank == DecodeSymbol(s.rd, <<"MATCH_CTX", before>>)
  IN  IF pos >= size THEN [ok |-> TRUE, rd |-> rd, out |-> out, counters |-> p.counters]
      ELSE IF ~s.ok THEN [ok |-> FALSE]
      ELSE IF s.val[1] = "LITERAL_FLAG"
           THEN DecodeChunkX(s.rd, Append(out, s.val[2]), base, size, q, dstEnd, set)
      ELSE IF ~rank.ok \/ pos + s.val[2] + MinMatch > dstEnd THEN [ok |-> FALSE]
      ELSE DecodeChunkX(rank.rd,
             out \o CopyAt(out, base + Place(p, key, rank.val).at, s.val[2] + set.min),
             base, size, q, dstEnd, set)

RECURSIVE DecodeChunksX(_, _, _, _, _)
DecodeChunksX(rd, out, counters, dstEnd, set) ==
  LET size == Smaller(Chunks(dstEnd), dstEnd - Len(out))
      first == DecodeFirst([rd EXCEPT !.probs = Reset], out, Smaller(dstEnd - Len(out), First))
      res == DecodeChunkX(first.rd, first.out, Len(out), size,
                          [counters |-> counters, rings |-> NoPlaces], dstEnd, set)
  IN  IF Len(out) >= dstEnd THEN [ok |-> rd.at = Len(rd.src) + 1, out |-> out]
      ELSE IF ~first.ok THEN Fail
      ELSE IF ~res.ok THEN Fail
      ELSE DecodeChunksX(res.rd, res.out, res.counters, dstEnd, set)

inverse2(src, room) ==
  LET rd == [src |-> From(src, 2), at |-> 1, probs |-> Reset]
  IN  IF At(src, 0) <= 0 \/ At(src, 0) > room THEN Fail
      ELSE DecodeChunksX(rd, <<>>, NoCounters, At(src, 0), SettingsOf(At(src, 1), TRUE))

(***************************************************************************)
(* ROLZ or ROLZX, as x says.                                               *)
(***************************************************************************)
forward(src, room, type, x) ==
  IF src = <<>> THEN Done(<<>>)
  ELSE IF Len(src) < MinBlock THEN Fail
  ELSE IF x THEN forward2(src, room, type) ELSE forward1(src, room, type)

inverse(src, room, x) ==
  IF src = <<>> THEN Done(<<>>)
  ELSE IF Len(src) < 5 THEN Fail
  ELSE IF x THEN inverse2(src, room) ELSE inverse1(src, room)
=============================================================================
