------------------------------- MODULE Blocks -------------------------------
(***************************************************************************)
(* Blocks of bytes as the transforms and entropy coders see them: arrays   *)
(* indexed from 0, sub-arrays given by an offset and a length, and the     *)
(* outcome (a success flag and what was written) of an operation on one.   *)
(***************************************************************************)
LOCAL INSTANCE Integers
LOCAL INSTANCE Sequences
LOCAL INSTANCE FiniteSets

At(s, i) == s[i + 1]

Part(s, i, n) == SubSeq(s, i + 1, i + n)

From(s, i) == SubSeq(s, i + 1, Len(s))

Fill(v, n) == [k \in 1..n |-> v]

Set(s, i, v) == [s EXCEPT ![i + 1] = v]

Done(out) == [ok |-> TRUE, out |-> out]

Fail == [ok |-> FALSE, out |-> <<>>]

(***************************************************************************)
(* op of v, which TLC evaluates once.                                      *)
(***************************************************************************)
Once(op(_), v) == CHOOSE u \in {op(w) : w \in {v}} : TRUE

(***************************************************************************)
(* The elements of a set from the least, in the order less.                *)
(***************************************************************************)
Ordered(S, less(_, _)) ==
  LET ranked(T) == [k \in 1..Cardinality(T) |->
                      CHOOSE x \in T : Cardinality({y \in T : less(y, x)}) = k - 1]
  IN  Once(ranked, S)

(***************************************************************************)
(* What is left of t after op has taken every element of s in turn.  (The  *)
(* bound variable makes TLC evaluate what a call gets before the call.)    *)
(***************************************************************************)
Fold(op(_, _), t, s) ==
  LET over(w) ==
        LET f[k \in 0..Len(w)] ==
              IF k = 0 THEN t ELSE CHOOSE u \in {op(v, w[k]) : v \in {f[k - 1]}} : TRUE
        IN  f[Len(w)]
  IN  Once(over, s)

SumOf(s) == Fold(LAMBDA a, b : a + b, 0, s)

CountOf(s, v) == Len(SelectSeq(s, LAMBDA x : x = v))

(***************************************************************************)
(* The digits of n in base b, least significant first, and back.           *)
(***************************************************************************)
Digits(n, b, k) == [j \in 1..k |-> (n \div b ^ (j - 1)) % b]

Value(digits, b) == SumOf([j \in DOMAIN digits |-> digits[j] * b ^ (j - 1)])

(***************************************************************************)
(* n shifted right, the k bits of it, most significant first, and back.    *)
(***************************************************************************)
Halves(n) ==
  LET h[k \in Nat] == IF k = 0 THEN n ELSE h[k - 1] \div 2 IN h

Bits(n, k) == [j \in 1..k |-> Halves(n)[k - j] % 2]

Numeral(s) == Fold(LAMBDA a, b : 2 * a + b, 0, s)

(***************************************************************************)
(* The n bits from position i on as a number, 0s past the end.             *)
(***************************************************************************)
Peek(s, i, n) == Numeral([k \in 1..n |-> IF i + k <= Len(s) THEN s[i + k] ELSE 0])

Log2(n) == CHOOSE k \in 0..n : Halves(n)[k] = 1
=============================================================================
