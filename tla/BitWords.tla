------------------------------ MODULE BitWords ------------------------------
(***************************************************************************)
(* What the two bitstreams have in common: bits come in bytes of ByteBits  *)
(* and words of WordBytes bytes (8 and 8 in the code), most significant    *)
(* first.  A bit is a number: its rank among the bits the client has       *)
(* written, or 0 for padding.                                              *)
(***************************************************************************)
EXTENDS Integers, Sequences

CONSTANTS ByteBits,   \* bits of a byte
          WordBytes   \* bytes of _current

ASSUME WordAssumption ==
  /\ ByteBits \in Nat \ {0}
  /\ WordBytes \in Nat \ {0}

WordBits == ByteBits * WordBytes

\* n bits, rounded down to bytes, up to bytes, down to words.
BytesDown(n) == (n \div ByteBits) * ByteBits
BytesUp(n)   == ((n + ByteBits - 1) \div ByteBits) * ByteBits
WordsDown(n) == (n \div WordBits) * WordBits

First(n, s)  == SubSeq(s, 1, n)
Behind(n, s) == SubSeq(s, n + 1, Len(s))
=============================================================================
