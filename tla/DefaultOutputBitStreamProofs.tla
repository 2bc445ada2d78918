-------------------- MODULE DefaultOutputBitStreamProofs --------------------
(***************************************************************************)
(* Proofs about DefaultOutputBitStream, for bytes, words and buffers of    *)
(* any size and any sequence of calls and failures.                        *)
(***************************************************************************)
EXTENDS DefaultOutputBitStream, SequenceTheorems, TLAPS

-----------------------------------------------------------------------------
(* Arithmetic and sequences.                                               *)

LEMMA DivBound ==
  ASSUME NEW n \in Nat, NEW b \in Nat \ {0}
  PROVE  /\ n \div b \in Nat
         /\ (n \div b) * b <= n
         /\ n < (n \div b) * b + b
  OBVIOUS

LEMMA Mono ==
  ASSUME NEW p \in Int, NEW q \in Int, NEW b \in Nat, p <= q
  PROVE  p * b <= q * b
  OBVIOUS

LEMMA Cancel ==
  ASSUME NEW p \in Int, NEW q \in Int, NEW b \in Nat \ {0}, p * b < q * b
  PROVE  p < q
  OBVIOUS

LEMMA Distributes ==
  ASSUME NEW p \in Int, NEW q \in Int, NEW b \in Int
  PROVE  (p + q) * b = p * b + q * b
  OBVIOUS

LEMMA WordBitsType == WordBits \in Nat \ {0} /\ ByteBits <= WordBits
  BY WordAssumption DEF WordBits

LEMMA BufferBitsType ==
  BufferBits \in Nat /\ BufferBits >= 5 * WordBits
<1>1. OutWords \in Nat /\ OutWords >= 5
  BY OutAssumption
<1> QED
  BY <1>1, WordBitsType, Mono DEF BufferBits

\* A part of a word fills at most a word when it is rounded up to bytes.
LEMMA BytesUpBound ==
  ASSUME NEW n \in 0..WordBits
  PROVE  /\ BytesUp(n) \in Nat
         /\ n <= BytesUp(n)
         /\ BytesUp(n) < n + ByteBits
         /\ BytesUp(n) <= WordBits
<1> DEFINE q == (n + ByteBits - 1) \div ByteBits
<1>1. ByteBits \in Nat \ {0} /\ WordBytes \in Nat \ {0}
  BY WordAssumption
<1>2. /\ q \in Nat
      /\ q * ByteBits <= n + ByteBits - 1
      /\ n + ByteBits - 1 < q * ByteBits + ByteBits
  BY <1>1, WordBitsType, DivBound
<1>3. WordBits = WordBytes * ByteBits
  BY <1>1 DEF WordBits
<1>4. (WordBytes + 1) * ByteBits = WordBits + ByteBits
  BY <1>1, <1>3, Distributes
<1>5. q * ByteBits < (WordBytes + 1) * ByteBits
  BY <1>1, <1>2, <1>4, WordBitsType
<1>6. q < WordBytes + 1
  BY <1>1, <1>2, <1>5, Cancel
<1>7. q * ByteBits <= WordBytes * ByteBits
  BY <1>1, <1>2, <1>6, Mono
<1>8. BytesUp(n) = q * ByteBits
  BY DEF BytesUp
<1> HIDE DEF q
<1> QED
  BY <1>1, <1>2, <1>3, <1>7, <1>8, WordBitsType

LEMMA BytesUpZero == BytesUp(0) = 0
<1> DEFINE q == (0 + ByteBits - 1) \div ByteBits
<1>1. ByteBits \in Nat \ {0}
  BY WordAssumption
<1>2. q \in Nat /\ q * ByteBits <= ByteBits - 1
  BY <1>1, DivBound
<1>3. q < 1
  BY <1>1, <1>2, Cancel
<1> QED
  BY <1>1, <1>2, <1>3 DEF BytesUp

LEMMA SplitAt ==
  ASSUME NEW s \in Seq(Nat), NEW n \in 0..Len(s)
  PROVE  /\ First(n, s) \in Seq(Nat) /\ Len(First(n, s)) = n
         /\ Behind(n, s) \in Seq(Nat) /\ Len(Behind(n, s)) = Len(s) - n
         /\ First(n, s) \o Behind(n, s) = s
<1>1. Len(s) \in Nat /\ n \in Nat /\ n <= Len(s)
  BY LenProperties
<1>2. SubSeq(s, 1, n) \o SubSeq(s, n + 1, Len(s)) = s
  <2>1. /\ 1 \in 1..(Len(s) + 1)
        /\ n \in (1 - 1)..Len(s)
        /\ Len(s) \in n..Len(s)
    BY <1>1
  <2>2. SubSeq(s, 1, n) \o SubSeq(s, n + 1, Len(s)) = SubSeq(s, 1, Len(s))
    BY <2>1, ConcatAdjacentSubSeq
  <2>3. SubSeq(s, 1, Len(s)) = s
    BY SubSeqFull
  <2> QED
    BY <2>2, <2>3
<1>3. /\ SubSeq(s, 1, n) \in Seq(Nat)
      /\ Len(SubSeq(s, 1, n)) = n
  BY <1>1
<1>4. /\ SubSeq(s, n + 1, Len(s)) \in Seq(Nat)
      /\ Len(SubSeq(s, n + 1, Len(s))) = Len(s) - n
  BY <1>1
<1> QED
  BY <1>2, <1>3, <1>4 DEF First, Behind

LEMMA Concatenated ==
  ASSUME NEW s \in Seq(Nat), NEW t \in Seq(Nat)
  PROVE  s \o t \in Seq(Nat) /\ Len(s \o t) = Len(s) + Len(t)
  BY ConcatProperties

LEMMA FreshType ==
  ASSUME count \in Nat, NEW k \in Nat, NEW n \in Nat
  PROVE  /\ Fresh(k, n) \in Seq(Nat)
         /\ Len(Fresh(k, n)) = n
         /\ \A i \in 1..n : Fresh(k, n)[i] = count + k + i
  BY DEF Fresh

\* The bits of a call may be taken in two parts.
LEMMA FreshSplit ==
  ASSUME count \in Nat, NEW k \in Nat, NEW n \in Nat
  PROVE  Fresh(0, k) \o Fresh(k, n) = Fresh(0, k + n)
<1>1. /\ Fresh(0, k) \in Seq(Nat) /\ Len(Fresh(0, k)) = k
      /\ \A i \in 1..k : Fresh(0, k)[i] = count + 0 + i
  BY FreshType
<1>2. /\ Fresh(k, n) \in Seq(Nat) /\ Len(Fresh(k, n)) = n
      /\ \A i \in 1..n : Fresh(k, n)[i] = count + k + i
  BY FreshType
<1>3. /\ Fresh(0, k + n) \in Seq(Nat) /\ Len(Fresh(0, k + n)) = k + n
      /\ \A i \in 1..(k + n) : Fresh(0, k + n)[i] = count + 0 + i
  BY FreshType
<1> DEFINE s == Fresh(0, k)
           t == Fresh(k, n)
           u == Fresh(0, k + n)
<1> HIDE DEF s, t, u
<1>4. /\ s \o t \in Seq(Nat)
      /\ Len(s \o t) = k + n
      /\ \A i \in 1..(k + n) : (s \o t)[i] = IF i <= k THEN s[i] ELSE t[i - k]
  <2>1. s \in Seq(Nat) /\ t \in Seq(Nat) /\ Len(s) = k /\ Len(t) = n
    BY <1>1, <1>2 DEF s, t
  <2> QED
    BY <2>1, ConcatProperties
<1>5. ASSUME NEW i \in 1..(k + n) PROVE (s \o t)[i] = u[i]
  <2>1. u[i] = count + i
    BY <1>3 DEF u
  <2>2. CASE i <= k
    BY <1>1, <1>4, <2>1, <2>2 DEF s
  <2>3. CASE ~(i <= k)
    <3>1. i - k \in 1..n
      BY <2>3
    <3>2. t[i - k] = count + k + (i - k)
      BY <1>2, <3>1 DEF t
    <3> QED
      BY <1>4, <2>1, <2>3, <3>2
  <2> QED
    BY <2>2, <2>3
<1>6. s \o t = u
  BY <1>3, <1>4, <1>5, SeqEqual DEF u
<1> QED
  BY <1>6 DEF s, t, u

-----------------------------------------------------------------------------
(* Order.                                                                  *)

InOrder(s) == \A i \in 1..Len(s) : s[i] = i

\* In order but for padding behind the bits of the client.
Prefix(s, k) == \A i \in 1..Len(s) : s[i] = i \/ (s[i] = 0 /\ i > k)

LEMMA Extend ==
  ASSUME NEW s \in Seq(Nat), Len(s) = count, InOrder(s), NEW n \in Nat
  PROVE  /\ s \o Fresh(0, n) \in Seq(Nat)
         /\ Len(s \o Fresh(0, n)) = count + n
         /\ InOrder(s \o Fresh(0, n))
<1>0. count \in Nat
  BY LenProperties
<1>1. /\ Fresh(0, n) \in Seq(Nat) /\ Len(Fresh(0, n)) = n
      /\ \A i \in 1..n : Fresh(0, n)[i] = count + 0 + i
  BY <1>0, FreshType
<1> DEFINE t == Fresh(0, n)
<1> HIDE DEF t
<1>2. /\ s \o t \in Seq(Nat)
      /\ Len(s \o t) = count + n
      /\ \A i \in 1..(count + n) :
           (s \o t)[i] = IF i <= count THEN s[i] ELSE t[i - count]
  <2>1. t \in Seq(Nat) /\ Len(t) = n
    BY <1>1 DEF t
  <2> QED
    BY <2>1, ConcatProperties
<1>3. ASSUME NEW i \in 1..(count + n) PROVE (s \o t)[i] = i
  <2>1. CASE i <= count
    BY <1>0, <1>2, <2>1 DEF InOrder
  <2>2. CASE ~(i <= count)
    <3>1. i - count \in 1..n
      BY <1>0, <2>2
    <3>2. t[i - count] = count + 0 + (i - count)
      BY <1>1, <3>1 DEF t
    <3> QED
      BY <1>0, <1>2, <2>2, <3>2
  <2> QED
    BY <1>0, <2>1, <2>2
<1> QED
  BY <1>2, <1>3 DEF t, InOrder

-----------------------------------------------------------------------------
(* Whole words.                                                            *)

WholeWords(n) == \E q \in Nat : n = q * WordBits

LEMMA WholeWordsSum ==
  ASSUME NEW m \in Nat, NEW n \in Nat, WholeWords(m), WholeWords(n)
  PROVE  WholeWords(m + n)
<1>1. PICK p \in Nat : m = p * WordBits
  BY DEF WholeWords
<1>2. PICK q \in Nat : n = q * WordBits
  BY DEF WholeWords
<1>3. m + n = (p + q) * WordBits
  BY <1>1, <1>2, WordBitsType, Distributes
<1> QED
  BY <1>3 DEF WholeWords

LEMMA WholeWordsBasics ==
  /\ WholeWords(0)
  /\ WholeWords(WordBits)
  /\ WholeWords(Four)
  /\ WholeWords(BufferBits - WordBits)
<1>1. WordBits \in Nat \ {0} /\ OutWords \in Nat /\ OutWords >= 5
  BY WordBitsType, OutAssumption
<1>2. 0 = 0 * WordBits /\ WordBits = 1 * WordBits /\ Four = 4 * WordBits
  BY <1>1 DEF Four
<1>3. BufferBits - WordBits = (OutWords - 1) * WordBits
  <2>1. (OutWords - 1) * WordBits + 1 * WordBits = OutWords * WordBits
    BY <1>1, Distributes
  <2>2. (OutWords - 1) * WordBits \in Int
    BY <1>1
  <2> QED
    BY <1>1, <2>1, <2>2 DEF BufferBits
<1>4. OutWords - 1 \in Nat
  BY <1>1
<1> QED
  BY <1>2, <1>3, <1>4 DEF WholeWords

\* Where four words are not refused, they leave room for one more.
LEMMA FourFit ==
  ASSUME NEW n \in Nat, WholeWords(n), n < BufferBits - Four
  PROVE  n + Four <= BufferBits - WordBits
<1>1. WordBits \in Nat \ {0} /\ OutWords \in Nat /\ OutWords >= 5
  BY WordBitsType, OutAssumption
<1>2. PICK q \in Nat : n = q * WordBits
  BY DEF WholeWords
<1>3. (q + 4) * WordBits = n + Four
  BY <1>1, <1>2, Distributes DEF Four
<1>4. (q + 4) * WordBits < OutWords * WordBits
  BY <1>1, <1>2, <1>3 DEF BufferBits, Four
<1>5. q + 4 < OutWords
  BY <1>1, <1>4, Cancel
<1>6. (q + 5) * WordBits <= OutWords * WordBits
  BY <1>1, <1>5, Mono
<1>7. (q + 5) * WordBits = n + Four + WordBits
  <2>1. (q + 5) * WordBits = (q + 4) * WordBits + 1 * WordBits
    BY <1>1, Distributes
  <2> QED
    BY <1>1, <1>3, <2>1
<1> QED
  BY <1>1, <1>2, <1>6, <1>7 DEF BufferBits, Four

LEMMA Downs ==
  ASSUME NEW n \in Nat
  PROVE  /\ WordsDown(n) \in Nat
         /\ WholeWords(WordsDown(n))
         /\ WordsDown(n) <= BytesDown(n)
         /\ BytesDown(n) \in Nat
         /\ BytesDown(n) <= n
         /\ n < ByteBits => BytesDown(n) = 0
<1> DEFINE d == n \div ByteBits
           q == n \div WordBits
<1>1. ByteBits \in Nat \ {0} /\ WordBytes \in Nat \ {0} /\ WordBits \in Nat \ {0}
  BY WordAssumption, WordBitsType
<1>2. d \in Nat /\ d * ByteBits <= n /\ n < d * ByteBits + ByteBits
  BY <1>1, DivBound
<1>3. q \in Nat /\ q * WordBits <= n
  BY <1>1, DivBound
<1>4. WordsDown(n) = q * WordBits /\ BytesDown(n) = d * ByteBits
  BY DEF WordsDown, BytesDown
<1> HIDE DEF d, q
<1>5. d * ByteBits \in Nat /\ q * WordBits \in Nat
  BY <1>1, <1>2, <1>3
<1>6. q * WordBits <= d * ByteBits
  <2>1. q * WordBytes \in Nat
    BY <1>1, <1>3
  <2>2. (q * WordBytes) * ByteBits = q * WordBits
    BY <1>1, <1>3 DEF WordBits
  <2>3. (d + 1) * ByteBits = d * ByteBits + ByteBits
    BY <1>1, <1>2, Distributes
  <2>4. (q * WordBytes) * ByteBits < (d + 1) * ByteBits
    BY <1>1, <1>2, <1>3, <1>5, <2>2, <2>3
  <2>5. q * WordBytes < d + 1
    BY <1>1, <1>2, <2>1, <2>4, Cancel
  <2>6. (q * WordBytes) * ByteBits <= d * ByteBits
    BY <1>1, <1>2, <2>1, <2>5, Mono
  <2> QED
    BY <2>2, <2>6
<1>7. n < ByteBits => d = 0
  <2>1. SUFFICES ASSUME n < ByteBits PROVE d < 1
    BY <1>2
  <2>2. d * ByteBits < 1 * ByteBits
    BY <1>1, <1>2, <1>5, <2>1
  <2> QED
    BY <1>1, <1>2, <2>2, Cancel
<1>8. n < ByteBits => d * ByteBits = 0
  BY <1>1, <1>7
<1> QED
  BY <1>2, <1>3, <1>4, <1>5, <1>6, <1>8 DEF WholeWords

\* Whole words in front change nothing when the rest is rounded up.
LEMMA BytesUpShift ==
  ASSUME NEW m \in Nat, WholeWords(m), NEW n \in 0..WordBits
  PROVE  BytesUp(m + n) = m + BytesUp(n)
<1> DEFINE r == n + ByteBits - 1
           d == r \div ByteBits
           e == (m + r) \div ByteBits
<1>1. ByteBits \in Nat \ {0} /\ WordBytes \in Nat \ {0} /\ WordBits \in Nat
  BY WordAssumption, WordBitsType
<1>2. PICK q \in Nat : m = q * WordBits
  BY DEF WholeWords
<1> DEFINE p == q * WordBytes
<1>3. p \in Nat /\ m = p * ByteBits
  BY <1>1, <1>2 DEF WordBits
<1>4. r \in Nat /\ n \in Nat
  BY <1>1
<1>5. d \in Nat /\ d * ByteBits <= r /\ r < d * ByteBits + ByteBits
  BY <1>1, <1>4, DivBound
<1>6. e \in Nat /\ e * ByteBits <= m + r /\ m + r < e * ByteBits + ByteBits
  BY <1>1, <1>4, DivBound
<1>7. BytesUp(m + n) = e * ByteBits /\ BytesUp(n) = d * ByteBits
  <2>1. m + n + ByteBits - 1 = m + r
    BY <1>1, <1>4
  <2> QED
    BY <2>1 DEF BytesUp
<1> HIDE DEF d, e, p, r
<1>8. d * ByteBits \in Nat /\ e * ByteBits \in Nat
  BY <1>1, <1>5, <1>6
<1>9. /\ (p + d) * ByteBits = m + d * ByteBits
      /\ (p + d + 1) * ByteBits = m + d * ByteBits + ByteBits
      /\ (e + 1) * ByteBits = e * ByteBits + ByteBits
  <2>1. (p + d) * ByteBits = m + d * ByteBits
    BY <1>1, <1>3, <1>5, Distributes
  <2>2. (p + d + 1) * ByteBits = (p + d) * ByteBits + 1 * ByteBits
    BY <1>1, <1>3, <1>5, Distributes
  <2>3. (e + 1) * ByteBits = e * ByteBits + 1 * ByteBits
    BY <1>1, <1>6, Distributes
  <2>4. 1 * ByteBits = ByteBits
    BY <1>1
  <2> QED
    BY <2>1, <2>2, <2>3, <2>4
<1>10. e < p + d + 1
  <2>1. e * ByteBits < (p + d + 1) * ByteBits
    BY <1>1, <1>4, <1>5, <1>6, <1>8, <1>9
  <2> QED
    BY <1>1, <1>3, <1>5, <1>6, <2>1, Cancel
<1>11. p + d < e + 1
  <2>1. (p + d) * ByteBits < (e + 1) * ByteBits
    BY <1>1, <1>4, <1>5, <1>6, <1>8, <1>9
  <2> QED
    BY <1>1, <1>3, <1>5, <1>6, <2>1, Cancel
<1>12. e = p + d
  BY <1>3, <1>5, <1>6, <1>10, <1>11
<1> QED
  BY <1>7, <1>9, <1>12

-----------------------------------------------------------------------------
(* The inductive invariant.                                                *)

\* Everything taken from the client, on its way.
Taken == sink \o (buffer \o current)

\* No call has failed.
Sound == closed = 0 /\ failures = 0

Ordered == Len(Taken) = count /\ InOrder(Taken)

Roomy ==
  /\ Len(buffer) <= BufferBits - WordBits
  /\ WholeWords(Len(buffer))
  /\ WholeWords(Len(sink))
  /\ written = Len(sink)

\* Outside the loops that shift words, _availBits tells what is in _current;
\* inside them "a" does.
Filled ==
  IF loop = "words"
    THEN /\ kept \in 1..WordBits
         /\ availBits \in {kept, WordBits}
         /\ Len(current) = WordBits - kept
    ELSE /\ availBits \in 1..WordBits
         /\ Len(current) = WordBits - availBits

Looping ==
  /\ count + remaining <= MaxBits
  /\ loop = "none" => remaining = 0
  /\ loop = "copy" => current = <<>> \/ remaining < ByteBits

\* What is left after a failure.
Wrecked ==
  /\ Len(buffer) <= BufferBits
  /\ Len(buffer) + BytesUp(WordBits - availBits) <= BufferBits
  /\ Len(current) >= WordBits - availBits
  /\ Prefix(sink \o (buffer \o Padded), count)

Sealed ==
  /\ buffer = <<>>
  /\ availBits = 0
  /\ Prefix(sink, count)
  /\ failures = 0 => Len(sink) = BytesUp(count) /\ written = count - WordBits

OutInv ==
  /\ OutTypeOK
  /\ Sound => Ordered /\ Roomy /\ Filled /\ Looping
  /\ ~Sound => loop = "none" /\ remaining = 0
  /\ closed = 0 /\ failures # 0 => Wrecked
  /\ closed = 1 => Sealed

LEMMA OutInvInit == OutInit => OutInv
<1> SUFFICES ASSUME OutInit PROVE OutInv
  OBVIOUS
<1>1. WordBits \in Nat \ {0} /\ BufferBits \in Nat /\ BufferBits >= 5 * WordBits
  BY WordBitsType, BufferBitsType
<1>2. OutTypeOK
  BY <1>1, OutAssumption DEF OutInit, OutTypeOK
<1>3. Ordered
  <2>1. Taken = <<>>
    BY DEF OutInit, Taken
  <2> QED
    BY <2>1 DEF Ordered, InOrder, OutInit
<1>4. Roomy
  BY <1>1, WholeWordsBasics DEF OutInit, Roomy
<1>5. Filled /\ Looping
  BY <1>1, OutAssumption DEF OutInit, Filled, Looping
<1> QED
  BY <1>2, <1>3, <1>4, <1>5 DEF OutInv, OutInit, Sound

-----------------------------------------------------------------------------
(* Sequences put together in another way.                                  *)

Cat(a, b) == a \o b

LEMMA CatAssociative ==
  ASSUME NEW a \in Seq(Nat), NEW b \in Seq(Nat), NEW c \in Seq(Nat)
  PROVE  Cat(a, Cat(b, c)) = Cat(Cat(a, b), c)
  BY DEF Cat

LEMMA CatType ==
  ASSUME NEW a \in Seq(Nat), NEW b \in Seq(Nat)
  PROVE  Cat(a, b) \in Seq(Nat)
  BY ConcatProperties DEF Cat

LEMMA CatNothing ==
  ASSUME NEW a \in Seq(Nat)
  PROVE  Cat(<<>>, a) = a
  BY ConcatEmptySeq DEF Cat

\* Bits f behind the word c; f fills the word, which moves to the buffer b,
\* and g follows; the buffer moves on to the sink s.
LEMMA Regroup ==
  ASSUME NEW s \in Seq(Nat), NEW b \in Seq(Nat), NEW c \in Seq(Nat),
         NEW f \in Seq(Nat), NEW g \in Seq(Nat)
  PROVE  /\ Cat(s, Cat(b, Cat(c, f))) = Cat(Cat(s, Cat(b, c)), f)
         /\ Cat(s, Cat(Cat(b, Cat(c, f)), g))
              = Cat(Cat(s, Cat(b, c)), Cat(f, g))
         /\ Cat(Cat(s, Cat(b, Cat(c, f))), Cat(<<>>, g))
              = Cat(Cat(s, Cat(b, c)), Cat(f, g))
<1>1. /\ Cat(b, c) \in Seq(Nat)
      /\ Cat(c, f) \in Seq(Nat)
      /\ Cat(f, g) \in Seq(Nat)
      /\ Cat(b, Cat(c, f)) \in Seq(Nat)
  BY CatType
<1>2. Cat(<<>>, g) = g
  BY CatNothing
<1>3. Cat(s, Cat(b, Cat(c, f))) = Cat(Cat(s, Cat(b, c)), f)
  BY <1>1, CatAssociative
<1>4. Cat(s, Cat(Cat(b, Cat(c, f)), g)) = Cat(Cat(s, Cat(b, c)), Cat(f, g))
  BY <1>1, CatAssociative, CatType
<1>5. Cat(s, Cat(Cat(b, Cat(c, f)), g)) = Cat(Cat(s, Cat(b, Cat(c, f))), g)
  BY <1>1, CatAssociative
<1> QED
  BY <1>2, <1>3, <1>4, <1>5

LEMMA TakenType ==
  ASSUME OutTypeOK
  PROVE  /\ Taken \in Seq(Nat)
         /\ Len(Taken) = Len(sink) + Len(buffer) + Len(current)
         /\ Len(sink) \in Nat /\ Len(buffer) \in Nat /\ Len(current) \in Nat
<1>1. sink \in Seq(Nat) /\ buffer \in Seq(Nat) /\ current \in Seq(Nat)
  BY DEF OutTypeOK
<1>2. buffer \o current \in Seq(Nat)
      /\ Len(buffer \o current) = Len(buffer) + Len(current)
  BY <1>1, ConcatProperties
<1>3. Taken \in Seq(Nat) /\ Len(Taken) = Len(sink) + Len(buffer \o current)
  BY <1>1, <1>2, ConcatProperties DEF Taken
<1>4. Len(sink) \in Nat /\ Len(buffer) \in Nat /\ Len(current) \in Nat
  BY <1>1, LenProperties
<1> QED
  BY <1>2, <1>3, <1>4

\* A step that takes n more bits and changes nothing in front of them.
LEMMA Progress ==
  ASSUME OutTypeOK, Ordered, NEW n \in Nat,
         Taken' = Taken \o Fresh(0, n), count' = count + n
  PROVE  Ordered'
<1>1. Taken \in Seq(Nat)
  BY TakenType
<1>2. /\ Len(Taken \o Fresh(0, n)) = count + n
      /\ InOrder(Taken \o Fresh(0, n))
  BY <1>1, Extend DEF Ordered
<1>3. Len(Taken') = count'
  BY <1>2
<1>4. InOrder(Taken)'
  BY <1>2 DEF InOrder
<1> QED
  BY <1>3, <1>4 DEF Ordered

-----------------------------------------------------------------------------
(* writeBits(value, n)                                                     *)

\* The buffer after pushCurrent().
LEMMA PushedType ==
  ASSUME OutTypeOK, Roomy, NEW b \in Seq(Nat), WholeWords(Len(b)), Pushed(b)
  PROVE  /\ buffer' \in Seq(Nat) /\ sink' \in Seq(Nat) /\ written' \in Int
         /\ Roomy'
         /\ \/ sink' = sink /\ buffer' = b
            \/ sink' = sink \o b /\ buffer' = <<>>
<1>1. /\ WordBits \in Nat \ {0} /\ BufferBits \in Nat
      /\ BufferBits >= 5 * WordBits
  BY WordBitsType, BufferBitsType
<1>2. /\ sink \in Seq(Nat) /\ buffer \in Seq(Nat) /\ written \in Int
      /\ Len(sink) \in Nat /\ Len(b) \in Nat
  BY LenProperties DEF OutTypeOK
<1>3. CASE Full(b)
  <2>1. sink' = sink \o b /\ buffer' = <<>> /\ written' = written + Len(b)
    BY <1>3 DEF Pushed, Flushed
  <2>2. sink \o b \in Seq(Nat) /\ Len(sink \o b) = Len(sink) + Len(b)
    BY <1>2, ConcatProperties
  <2>3. WholeWords(Len(sink \o b))
    BY <1>2, <2>2, WholeWordsSum DEF Roomy
  <2>4. Len(buffer') = 0 /\ buffer' \in Seq(Nat)
    BY <2>1
  <2>5. WholeWords(Len(buffer')) /\ WholeWords(Len(sink'))
    BY <2>1, <2>3, <2>4, WholeWordsBasics
  <2>6. Roomy'
    <3>1. written' = Len(sink')
      BY <1>2, <2>1, <2>2 DEF Roomy
    <3>2. Len(buffer') <= BufferBits - WordBits
      BY <1>1, <2>4
    <3> QED
      BY <2>5, <3>1, <3>2 DEF Roomy, WholeWords
  <2> QED
    BY <1>2, <2>1, <2>2, <2>4, <2>6
<1>4. CASE ~Full(b)
  <2>1. buffer' = b /\ sink' = sink /\ written' = written
    BY <1>4 DEF Pushed, Stored
  <2>2. Len(b) <= BufferBits - WordBits
    BY <1>1, <1>2, <1>4 DEF Full
  <2>3. Roomy'
    BY <2>1, <2>2 DEF Roomy, WholeWords
  <2> QED
    BY <1>2, <2>1, <2>3
<1> QED
  BY <1>3, <1>4

LEMMA WordWithType ==
  ASSUME OutTypeOK, Roomy, Filled, loop # "words"
  PROVE  /\ WordWith \in Seq(Nat) /\ Len(WordWith) = WordBits
         /\ buffer \o WordWith \in Seq(Nat)
         /\ Len(buffer \o WordWith) = Len(buffer) + WordBits
         /\ WholeWords(Len(buffer \o WordWith))
<1>1. WordBits \in Nat \ {0}
  BY WordBitsType
<1>2. /\ current \in Seq(Nat) /\ buffer \in Seq(Nat) /\ count \in Nat
      /\ Len(buffer) \in Nat /\ availBits \in Nat
      /\ Len(current) = WordBits - availBits
  BY LenProperties, OutAssumption, <1>1 DEF OutTypeOK, Filled
<1>3. Fresh(0, availBits) \in Seq(Nat) /\ Len(Fresh(0, availBits)) = availBits
  BY <1>2, FreshType
<1>4. WordWith \in Seq(Nat) /\ Len(WordWith) = Len(current) + availBits
  BY <1>2, <1>3, ConcatProperties DEF WordWith
<1>5. Len(WordWith) = WordBits
  BY <1>1, <1>2, <1>4
<1>6. /\ buffer \o WordWith \in Seq(Nat)
      /\ Len(buffer \o WordWith) = Len(buffer) + WordBits
  BY <1>2, <1>4, <1>5, ConcatProperties
<1> QED
  BY <1>1, <1>2, <1>4, <1>5, <1>6, WholeWordsBasics, WholeWordsSum DEF Roomy

LEMMA PutSteps ==
  ASSUME OutTypeOK, Ordered, Roomy, Filled, loop # "words", loop' # "words",
         NEW n \in 1..WordBits, count + n <= MaxBits, Put(n)
  PROVE  /\ availBits' \in 0..WordBits
         /\ current' \in Seq(Nat) /\ Len(current') <= WordBits
         /\ buffer' \in Seq(Nat) /\ sink' \in Seq(Nat) /\ written' \in Int
         /\ count' = count + n /\ count' \in 0..MaxBits
         /\ Ordered' /\ Roomy' /\ Filled'
<1>1. WordBits \in Nat \ {0} /\ n \in Nat /\ MaxBits \in Nat /\ count \in Nat
  BY WordBitsType, OutAssumption DEF OutTypeOK
<1>2. /\ availBits \in 1..WordBits /\ availBits \in Nat
      /\ Len(current) = WordBits - availBits
  BY <1>1 DEF Filled
<1>3. sink \in Seq(Nat) /\ buffer \in Seq(Nat) /\ current \in Seq(Nat)
      /\ written \in Int
  BY DEF OutTypeOK
<1>4. CASE PutShort(n)
  <2>1. /\ n < availBits
        /\ current' = current \o Fresh(0, n)
        /\ availBits' = availBits - n
        /\ count' = count + n
        /\ buffer' = buffer /\ sink' = sink /\ written' = written
    BY <1>4 DEF PutShort, bufferVars
  <2>2. Fresh(0, n) \in Seq(Nat) /\ Len(Fresh(0, n)) = n
    BY <1>1, FreshType
  <2>3. current' \in Seq(Nat) /\ Len(current') = Len(current) + n
    BY <1>3, <2>1, <2>2, ConcatProperties
  <2>4. Taken' = Taken \o Fresh(0, n)
    <3> DEFINE f == Fresh(0, n)
    <3>1. f \in Seq(Nat)
      BY <2>2
    <3> HIDE DEF f
    <3>2. Cat(sink, Cat(buffer, Cat(current, f)))
            = Cat(Cat(sink, Cat(buffer, current)), f)
      BY <1>3, <3>1, Regroup
    <3>3. Taken' = Cat(sink, Cat(buffer, Cat(current, f)))
      BY <2>1, Zenon DEF Taken, Cat, f
    <3>4. Taken \o Fresh(0, n) = Cat(Cat(sink, Cat(buffer, current)), f)
      BY Zenon DEF Taken, Cat, f
    <3> QED
      BY <3>2, <3>3, <3>4
  <2>5. Ordered'
    BY <1>1, <2>1, <2>4, Progress
  <2>6. Roomy'
    BY <2>1 DEF Roomy, WholeWords
  <2>7. Filled'
    BY <1>1, <1>2, <2>1, <2>3 DEF Filled
  <2>8. Len(current') <= WordBits
    BY <1>1, <1>2, <2>1, <2>3
  <2> QED
    BY <1>1, <1>2, <1>3, <2>1, <2>3, <2>5, <2>6, <2>7, <2>8
<1>5. CASE PutLong(n)
  <2> DEFINE f == Fresh(0, availBits)
             g == Fresh(availBits, n - availBits)
             b == buffer \o WordWith
  <2>1. /\ n >= availBits
        /\ Pushed(b)
        /\ current' = g
        /\ availBits' = WordBits - (n - availBits)
        /\ count' = count + n
    BY <1>5 DEF PutLong
  <2>2. n - availBits \in Nat
    BY <1>1, <1>2, <2>1
  <2>3. /\ f \in Seq(Nat) /\ Len(f) = availBits
        /\ g \in Seq(Nat) /\ Len(g) = n - availBits
    BY <1>1, <1>2, <2>2, FreshType
  <2>4. f \o g = Fresh(0, n)
    <3>1. f \o g = Fresh(0, availBits + (n - availBits))
      BY <1>1, <1>2, <2>2, FreshSplit
    <3>2. availBits + (n - availBits) = n
      BY <1>1, <1>2
    <3> QED
      BY <3>1, <3>2
  <2>5. /\ b \in Seq(Nat) /\ WholeWords(Len(b))
        /\ b = buffer \o (current \o f)
    BY WordWithType DEF WordWith
  <2>6. /\ buffer' \in Seq(Nat) /\ sink' \in Seq(Nat) /\ written' \in Int
        /\ Roomy'
        /\ \/ sink' = sink /\ buffer' = b
           \/ sink' = sink \o b /\ buffer' = <<>>
    <3> HIDE DEF b
    <3> QED
      BY <2>1, <2>5, PushedType
  <2> HIDE DEF f, g, b
  <2>7. Taken' = Taken \o Fresh(0, n)
    <3>1. Taken \o Fresh(0, n) = Cat(Cat(sink, Cat(buffer, current)), Cat(f, g))
      BY <2>4, Zenon DEF Taken, Cat
    <3>2. CASE sink' = sink /\ buffer' = b
      <4>1. Taken' = Cat(sink, Cat(Cat(buffer, Cat(current, f)), g))
        BY <2>1, <2>5, <3>2, Zenon DEF Taken, Cat
      <4>2. Cat(sink, Cat(Cat(buffer, Cat(current, f)), g))
              = Cat(Cat(sink, Cat(buffer, current)), Cat(f, g))
        BY <1>3, <2>3, Regroup
      <4> QED
        BY <3>1, <4>1, <4>2, Zenon
    <3>3. CASE sink' = sink \o b /\ buffer' = <<>>
      <4>1. Taken' = Cat(Cat(sink, Cat(buffer, Cat(current, f))), Cat(<<>>, g))
        BY <2>1, <2>5, <3>3, Zenon DEF Taken, Cat
      <4>2. Cat(Cat(sink, Cat(buffer, Cat(current, f))), Cat(<<>>, g))
              = Cat(Cat(sink, Cat(buffer, current)), Cat(f, g))
        BY <1>3, <2>3, Regroup
      <4> QED
        BY <3>1, <4>1, <4>2, Zenon
    <3> QED
      BY <2>6, <3>2, <3>3
  <2>8. Ordered'
    BY <1>1, <2>1, <2>7, Progress
  <2>9. /\ Filled'
        /\ availBits' \in 0..WordBits
        /\ Len(current') <= WordBits
    BY <1>1, <1>2, <2>1, <2>2, <2>3 DEF Filled
  <2> QED
    BY <1>1, <2>1, <2>3, <2>6, <2>8, <2>9
<1> QED
  BY <1>4, <1>5 DEF Put

-----------------------------------------------------------------------------
(* Failures.                                                               *)

IsJoin(r, a, b) ==
  /\ r \in Seq(Nat)
  /\ Len(r) = Len(a) + Len(b)
  /\ \A i \in 1..(Len(a) + Len(b)) :
       r[i] = IF i <= Len(a) THEN a[i] ELSE b[i - Len(a)]

LEMMA Joined ==
  ASSUME NEW a \in Seq(Nat), NEW b \in Seq(Nat)
  PROVE  IsJoin(a \o b, a, b)
  BY ConcatProperties DEF IsJoin

\* The word filled up with zeros, behind bits in order.
LEMMA Overhang ==
  ASSUME NEW s \in Seq(Nat), NEW b \in Seq(Nat), NEW c \in Seq(Nat),
         NEW k \in Nat, k <= Len(s \o (b \o c)), InOrder(s \o (b \o c)),
         NEW n \in 0..WordBits, n <= Len(c),
         NEW p, p = First(BytesUp(n), c \o [i \in 1..ByteBits |-> 0])
  PROVE  /\ p \in Seq(Nat) /\ Len(p) = BytesUp(n)
         /\ Prefix(s \o (b \o p), k)
<1> DEFINE z == [i \in 1..ByteBits |-> 0]
           m == BytesUp(n)
<1>1. ByteBits \in Nat \ {0}
  BY WordAssumption
<1>2. z \in Seq(Nat) /\ Len(z) = ByteBits /\ \A i \in 1..ByteBits : z[i] = 0
  BY <1>1
<1>3. m \in Nat /\ m < n + ByteBits
  BY BytesUpBound
<1>4. n \in Nat /\ Len(c) \in Nat /\ Len(s) \in Nat /\ Len(b) \in Nat
  BY LenProperties, WordBitsType
<1> HIDE DEF z, m
<1> DEFINE cz == c \o z
<1>5. /\ cz \in Seq(Nat) /\ Len(cz) = Len(c) + ByteBits
      /\ \A i \in 1..(Len(c) + ByteBits) :
           cz[i] = IF i <= Len(c) THEN c[i] ELSE z[i - Len(c)]
  BY <1>1, <1>2, ConcatProperties
<1> HIDE DEF cz
<1>6. p = First(m, cz)
  BY DEF z, m, cz
<1>7. m \in 0..Len(cz)
  BY <1>1, <1>3, <1>4, <1>5
<1>8. p \in Seq(Nat) /\ Len(p) = m
  BY <1>5, <1>6, <1>7, SplitAt
<1>9. \A i \in 1..m : p[i] = cz[i]
  <2>1. cz \in Seq(Nat) /\ Len(cz) \in Nat /\ m \in Nat /\ m <= Len(cz)
    BY <1>1, <1>3, <1>4, <1>5, <1>7
  <2>2. \A i \in 1..m : SubSeq(cz, 1, m)[i] = cz[i]
    BY <2>1
  <2> QED
    BY <1>6, <2>2 DEF First
<1>10. /\ b \o c \in Seq(Nat) /\ Len(b \o c) = Len(b) + Len(c)
       /\ \A i \in 1..(Len(b) + Len(c)) :
            (b \o c)[i] = IF i <= Len(b) THEN b[i] ELSE c[i - Len(b)]
  BY ConcatProperties
<1>11. /\ b \o p \in Seq(Nat) /\ Len(b \o p) = Len(b) + m
       /\ \A i \in 1..(Len(b) + m) :
            (b \o p)[i] = IF i <= Len(b) THEN b[i] ELSE p[i - Len(b)]
  <2>1. IsJoin(b \o p, b, p)
    BY <1>8, Joined
  <2> QED
    BY <1>8, <2>1 DEF IsJoin
<1> DEFINE bc == b \o c
           bp == b \o p
           old == s \o bc
           new == s \o bp
<1>12. /\ Len(old) = Len(s) + Len(b) + Len(c)
       /\ \A i \in 1..(Len(s) + Len(b) + Len(c)) :
            old[i] = IF i <= Len(s) THEN s[i] ELSE bc[i - Len(s)]
  <2>1. bc \in Seq(Nat) /\ Len(bc) = Len(b) + Len(c)
    BY <1>10
  <2> HIDE DEF bc
  <2>2. Len(s \o bc) = Len(s) + Len(bc)
        /\ \A i \in 1..(Len(s) + Len(bc)) :
             (s \o bc)[i] = IF i <= Len(s) THEN s[i] ELSE bc[i - Len(s)]
    <3>1. IsJoin(s \o bc, s, bc)
      BY <2>1, Joined
    <3> QED
      BY <3>1 DEF IsJoin
  <2>3. Len(s) + Len(bc) = Len(s) + Len(b) + Len(c)
    BY <1>4, <2>1
  <2> QED
    BY <2>2, <2>3
<1>13. /\ Len(new) = Len(s) + Len(b) + m
       /\ \A i \in 1..(Len(s) + Len(b) + m) :
            new[i] = IF i <= Len(s) THEN s[i] ELSE bp[i - Len(s)]
  <2>1. bp \in Seq(Nat) /\ Len(bp) = Len(b) + m
    BY <1>11
  <2> HIDE DEF bp
  <2>2. Len(s \o bp) = Len(s) + Len(bp)
        /\ \A i \in 1..(Len(s) + Len(bp)) :
             (s \o bp)[i] = IF i <= Len(s) THEN s[i] ELSE bp[i - Len(s)]
    <3>1. IsJoin(s \o bp, s, bp)
      BY <2>1, Joined
    <3> QED
      BY <3>1 DEF IsJoin
  <2>3. Len(s) + Len(bp) = Len(s) + Len(b) + m
    BY <1>3, <1>4, <2>1
  <2> QED
    BY <2>2, <2>3
<1>14. \A i \in 1..(Len(s) + Len(b) + Len(c)) : old[i] = i
  BY <1>12 DEF InOrder
<1>15. k <= Len(s) + Len(b) + Len(c)
  BY <1>12
<1> HIDE DEF bc, bp, old, new
<1>16. ASSUME NEW i \in 1..(Len(s) + Len(b) + m)
       PROVE  new[i] = i \/ (new[i] = 0 /\ i > k)
  <2>1. i \in Nat /\ i >= 1
    BY <1>3, <1>4
  <2>2. CASE i <= Len(s)
    <3>1. new[i] = s[i]
      BY <1>13, <2>2
    <3>2. i \in 1..(Len(s) + Len(b) + Len(c))
      BY <1>4, <2>1, <2>2
    <3>3. old[i] = s[i]
      BY <1>12, <2>2, <3>2
    <3> QED
      BY <1>14, <3>1, <3>2, <3>3
  <2>3. CASE ~(i <= Len(s))
    <3> DEFINE j == i - Len(s)
    <3>1. j \in 1..(Len(b) + m) /\ j \in Nat
      BY <1>3, <1>4, <2>1, <2>3
    <3>2. new[i] = bp[j]
      BY <1>13, <2>3
    <3>3. bp[j] = IF j <= Len(b) THEN b[j] ELSE p[j - Len(b)]
      BY <1>11, <3>1 DEF bp
    <3>4. j <= Len(b) + Len(c) =>
            /\ old[i] = bc[j]
            /\ bc[j] = IF j <= Len(b) THEN b[j] ELSE c[j - Len(b)]
            /\ old[i] = i
      <4>1. SUFFICES ASSUME j <= Len(b) + Len(c)
                     PROVE  /\ old[i] = bc[j]
                            /\ bc[j] = IF j <= Len(b) THEN b[j]
                                       ELSE c[j - Len(b)]
                            /\ old[i] = i
        OBVIOUS
      <4>2. i \in 1..(Len(s) + Len(b) + Len(c)) /\ j \in 1..(Len(b) + Len(c))
        BY <1>4, <2>1, <3>1, <4>1
      <4>3. old[i] = bc[j]
        BY <1>12, <2>3, <4>2
      <4>4. bc[j] = IF j <= Len(b) THEN b[j] ELSE c[j - Len(b)]
        BY <1>10, <4>2 DEF bc
      <4> QED
        BY <1>14, <4>2, <4>3, <4>4
    <3> HIDE DEF j
    <3>5. CASE j <= Len(b)
      <4>1. j <= Len(b) + Len(c)
        BY <1>4, <3>1, <3>5
      <4> QED
        BY <3>2, <3>3, <3>4, <3>5, <4>1
    <3>6. CASE ~(j <= Len(b)) /\ j <= Len(b) + Len(c)
      <4>1. /\ j - Len(b) \in 1..m
            /\ j - Len(b) \in 1..(Len(c) + ByteBits)
            /\ j - Len(b) <= Len(c)
        BY <1>1, <1>3, <1>4, <3>1, <3>6
      <4>2. p[j - Len(b)] = c[j - Len(b)]
        BY <1>5, <1>9, <4>1
      <4> QED
        BY <3>2, <3>3, <3>4, <3>6, <4>2
    <3>7. CASE ~(j <= Len(b) + Len(c))
      <4>1. /\ j - Len(b) \in 1..m
            /\ j - Len(b) \in 1..(Len(c) + ByteBits)
            /\ ~(j - Len(b) <= Len(c))
            /\ j - Len(b) - Len(c) \in 1..ByteBits
            /\ ~(j <= Len(b))
        <5>1. m < Len(c) + ByteBits
          BY <1>3, <1>4, <1>1
        <5> QED
          BY <1>1, <1>3, <1>4, <3>1, <3>7, <5>1
      <4>2. p[j - Len(b)] = z[j - Len(b) - Len(c)]
        BY <1>5, <1>9, <4>1
      <4>3. new[i] = 0
        BY <1>2, <3>2, <3>3, <4>1, <4>2
      <4>4. i > k
        BY <1>4, <1>15, <2>1, <3>1, <3>7 DEF j
      <4> QED
        BY <4>3, <4>4
    <3> QED
      BY <3>5, <3>6, <3>7
  <2> QED
    BY <2>2, <2>3
<1>17. Prefix(new, k)
  BY <1>13, <1>16 DEF Prefix
<1> QED
  BY <1>8, <1>17 DEF new, bp, m

LEMMA Complement ==
  ASSUME NEW n \in 0..WordBits
  PROVE  WordBits - n \in 0..WordBits
  BY WordBitsType

\* All is in order, and what is left fits in the buffer.
Intact ==
  /\ Ordered
  /\ count \in Nat
  /\ sink \in Seq(Nat) /\ buffer \in Seq(Nat) /\ current \in Seq(Nat)
  /\ availBits \in 0..WordBits
  /\ WordBits - availBits <= Len(current)
  /\ Len(buffer) + BytesUp(WordBits - availBits) <= BufferBits

LEMMA IntactWrecked == Intact => Wrecked
<1> SUFFICES ASSUME Intact PROVE Wrecked
  OBVIOUS
<1> DEFINE n == WordBits - availBits
<1>1. n \in 0..WordBits
  BY Complement DEF Intact
<1>2. BytesUp(n) \in Nat /\ Len(buffer) \in Nat
  <2>1. Len(buffer) \in Nat
    BY LenProperties DEF Intact
  <2> HIDE DEF n
  <2> QED
    BY <1>1, <2>1, BytesUpBound
<1>3. Len(buffer) + BytesUp(n) <= BufferBits /\ Len(buffer) <= BufferBits
  BY <1>2, BufferBitsType DEF Intact
<1>4. Prefix(sink \o (buffer \o Padded), count)
  <2>1. Len(sink \o (buffer \o current)) = count
        /\ InOrder(sink \o (buffer \o current))
    BY DEF Intact, Ordered, Taken
  <2>2. Padded = First(BytesUp(n), current \o [i \in 1..ByteBits |-> 0])
    BY DEF Padded
  <2>3. /\ sink \in Seq(Nat) /\ buffer \in Seq(Nat) /\ current \in Seq(Nat)
        /\ count \in Nat /\ n <= Len(current)
    BY DEF Intact
  <2>4. count <= Len(sink \o (buffer \o current))
    BY <2>1, <2>3
  <2> HIDE DEF n
  <2> QED
    BY <1>1, <2>1, <2>2, <2>3, <2>4, Overhang
<1>5. Len(current) >= n
  BY <1>1, LenProperties, WordBitsType DEF Intact
<1> QED
  BY <1>3, <1>4, <1>5 DEF Wrecked

LEMMA IntactWreckedNext == Intact' => Wrecked'
  BY IntactWrecked, PTL

LEMMA FlushFailsInv ==
  ASSUME OutInv, Sound, NEW b, FlushFails(b), Wrecked',
         sink' \in Seq(Nat), buffer' \in Seq(Nat), current' \in Seq(Nat),
         Len(current') <= WordBits, availBits' \in 0..WordBits,
         count' \in 0..MaxBits
  PROVE  OutInv'
<1>1. /\ MaxFailures \in Nat /\ MaxBits \in Nat /\ WordBits \in Nat
      /\ failures \in Nat
  BY OutAssumption, WordBitsType DEF OutInv, OutTypeOK
<1>2. /\ failures' \in 0..MaxFailures /\ failures' # 0
      /\ loop' = "none" /\ remaining' = 0 /\ kept' = 0
      /\ written' = written /\ closed' = 0
  BY <1>1 DEF FlushFails, Stored, Sound
<1>3. OutTypeOK'
  BY <1>1, <1>2 DEF OutTypeOK, OutInv
<1>4. ~Sound'
  BY <1>2 DEF Sound
<1> QED
  BY <1>2, <1>3, <1>4 DEF OutInv

LEMMA PutFailsInv ==
  ASSUME OutInv, Sound, loop # "words", NEW n \in 1..WordBits,
         count + n <= MaxBits, PutFails(n)
  PROVE  OutInv'
<1> DEFINE b == buffer \o WordWith
           f == Fresh(0, availBits)
<1>1. /\ OutTypeOK /\ Ordered /\ Roomy /\ Filled
      /\ WordBits \in Nat \ {0} /\ BufferBits \in Nat
      /\ n \in Nat /\ MaxBits \in Nat /\ count \in Nat
  BY WordBitsType, BufferBitsType, OutAssumption DEF OutInv, OutTypeOK
<1>2. /\ availBits \in 1..WordBits /\ availBits \in Nat /\ n >= availBits
      /\ sink \in Seq(Nat) /\ buffer \in Seq(Nat) /\ current \in Seq(Nat)
      /\ Len(buffer) \in Nat
  BY <1>1, LenProperties DEF Filled, OutTypeOK, PutFails
<1>3. /\ FlushFails(b) /\ sink' = sink /\ buffer' = b /\ current' = <<>>
      /\ availBits' = WordBits /\ count' = count + availBits
  BY DEF PutFails, FlushFails, Stored
<1>4. b \in Seq(Nat) /\ Len(b) = Len(buffer) + WordBits
  BY <1>1, WordWithType
<1>5. f \in Seq(Nat)
  BY <1>1, <1>2, FreshType
<1> HIDE DEF f
<1>6. Taken' = Taken \o f
  <2>1. Taken \o f = Cat(Cat(sink, Cat(buffer, current)), f)
    BY Zenon DEF Taken, Cat
  <2>2. Taken' = Cat(sink, Cat(Cat(buffer, Cat(current, f)), <<>>))
    BY <1>3, Zenon DEF Taken, Cat, WordWith, f
  <2>3. Cat(b, <<>>) = b
    BY <1>4, ConcatEmptySeq DEF Cat
  <2>4. Cat(buffer, Cat(current, f)) = b
    BY Zenon DEF Cat, WordWith, f
  <2>5. Cat(sink, Cat(buffer, Cat(current, f)))
          = Cat(Cat(sink, Cat(buffer, current)), f)
    BY <1>2, <1>5, Regroup
  <2> HIDE DEF b
  <2> QED
    BY <2>1, <2>2, <2>3, <2>4, <2>5, Zenon
<1> HIDE DEF b
<1>7. Ordered'
  BY <1>1, <1>2, <1>3, <1>6, Progress DEF f
<1>8. /\ sink' \in Seq(Nat) /\ buffer' \in Seq(Nat)
      /\ current' \in Seq(Nat) /\ Len(current') = 0
      /\ count' \in 0..MaxBits /\ count' \in Nat
  BY <1>1, <1>2, <1>3, <1>4
<1>9. /\ availBits' \in 0..WordBits /\ WordBits - availBits' = 0
      /\ WordBits - availBits' <= Len(current')
      /\ Len(buffer') + BytesUp(WordBits - availBits') <= BufferBits
  BY <1>1, <1>2, <1>3, <1>4, <1>8, BytesUpZero DEF Roomy
<1>10. Wrecked'
  BY <1>7, <1>8, <1>9, IntactWreckedNext DEF Intact
<1>11. Len(current') <= WordBits
  BY <1>1, <1>8
<1> QED
  BY <1>3, <1>8, <1>9, <1>10, <1>11, FlushFailsInv

-----------------------------------------------------------------------------
(* writeBits(bits[], n)                                                    *)

\* x is moved out of the word, with or without the buffer; y stays.
LEMMA Moved ==
  ASSUME NEW s \in Seq(Nat), NEW b \in Seq(Nat), NEW c \in Seq(Nat),
         NEW f \in Seq(Nat), NEW x \in Seq(Nat), NEW y \in Seq(Nat),
         Cat(x, y) = Cat(c, f)
  PROVE  /\ Cat(s, Cat(Cat(b, x), y)) = Cat(Cat(s, Cat(b, c)), f)
         /\ Cat(Cat(s, Cat(b, x)), Cat(<<>>, y)) = Cat(Cat(s, Cat(b, c)), f)
         /\ Cat(Cat(s, b), Cat(x, y)) = Cat(Cat(s, Cat(b, c)), f)
<1>1. /\ Cat(b, x) \in Seq(Nat)
      /\ Cat(x, y) \in Seq(Nat)
      /\ Cat(b, c) \in Seq(Nat)
  BY CatType
<1>2. Cat(Cat(b, x), y) = Cat(b, Cat(x, y))
  BY CatAssociative
<1>3. Cat(b, Cat(c, f)) = Cat(Cat(b, c), f)
  BY CatAssociative
<1>4. Cat(s, Cat(Cat(b, c), f)) = Cat(Cat(s, Cat(b, c)), f)
  BY <1>1, CatAssociative
<1>5. Cat(Cat(s, Cat(b, x)), y) = Cat(s, Cat(Cat(b, x), y))
  BY <1>1, CatAssociative
<1>6. Cat(<<>>, y) = y
  BY CatNothing
<1>7. Cat(Cat(s, b), Cat(x, y)) = Cat(s, Cat(b, Cat(x, y)))
  BY <1>1, CatAssociative
<1> QED
  BY <1>2, <1>3, <1>4, <1>5, <1>6, <1>7

\* x is moved from the word behind the buffer, ...
ToBuffer(x) == sink' = sink /\ buffer' = Cat(buffer, x)

\* ... with it to the sink, or to the buffer that is empty again.
ToSink(x)  == sink' = Cat(sink, Cat(buffer, x)) /\ buffer' = <<>>
ToEmpty(x) == sink' = Cat(sink, buffer) /\ buffer' = x

LEMMA TakenMoved ==
  ASSUME OutTypeOK, NEW f \in Seq(Nat),
         NEW x \in Seq(Nat), NEW y \in Seq(Nat),
         Cat(x, y) = Cat(current, f), current' = y,
         ToBuffer(x) \/ ToSink(x) \/ ToEmpty(x)
  PROVE  Taken' = Taken \o f
<1>1. sink \in Seq(Nat) /\ buffer \in Seq(Nat) /\ current \in Seq(Nat)
  BY DEF OutTypeOK
<1>2. Taken \o f = Cat(Cat(sink, Cat(buffer, current)), f)
  BY Zenon DEF Taken, Cat
<1>3. CASE ToBuffer(x)
  <2>1. Taken' = Cat(sink, Cat(Cat(buffer, x), y))
    BY <1>3, Zenon DEF Taken, Cat, ToBuffer
  <2>2. Cat(sink, Cat(Cat(buffer, x), y))
          = Cat(Cat(sink, Cat(buffer, current)), f)
    BY <1>1, Moved
  <2> QED
    BY <1>2, <2>1, <2>2, Zenon
<1>4. CASE ToSink(x)
  <2>1. Taken' = Cat(Cat(sink, Cat(buffer, x)), Cat(<<>>, y))
    BY <1>4, Zenon DEF Taken, Cat, ToSink
  <2>2. Cat(Cat(sink, Cat(buffer, x)), Cat(<<>>, y))
          = Cat(Cat(sink, Cat(buffer, current)), f)
    BY <1>1, Moved
  <2> QED
    BY <1>2, <2>1, <2>2, Zenon
<1>5. CASE ToEmpty(x)
  <2>1. Taken' = Cat(Cat(sink, buffer), Cat(x, y))
    BY <1>5, Zenon DEF Taken, Cat, ToEmpty
  <2>2. Cat(Cat(sink, buffer), Cat(x, y))
          = Cat(Cat(sink, Cat(buffer, current)), f)
    BY <1>1, Moved
  <2> QED
    BY <1>2, <2>1, <2>2, Zenon
<1> QED
  BY <1>3, <1>4, <1>5

\* What a step of a loop starts from.
LEMMA InLoop ==
  ASSUME OutInv, Sound
  PROVE  /\ OutTypeOK /\ Ordered /\ Roomy /\ Filled /\ Looping
         /\ WordBits \in Nat \ {0} /\ BufferBits \in Nat
         /\ ByteBits \in Nat \ {0} /\ ByteBits <= WordBits
         /\ BufferBits >= 5 * WordBits
         /\ MaxBits \in Nat /\ MaxFailures \in Nat
         /\ count \in Nat /\ remaining \in Nat /\ count + remaining <= MaxBits
         /\ availBits \in Nat /\ availBits <= WordBits /\ kept \in Nat
         /\ sink \in Seq(Nat) /\ buffer \in Seq(Nat) /\ current \in Seq(Nat)
         /\ Len(sink) \in Nat /\ Len(buffer) \in Nat /\ Len(current) \in Nat
         /\ written \in Int
         /\ closed = 0 /\ failures = 0
<1>1. OutTypeOK /\ Ordered /\ Roomy /\ Filled /\ Looping
  BY DEF OutInv
<1>2. closed = 0 /\ failures = 0
  BY DEF Sound
<1>3. /\ WordBits \in Nat \ {0} /\ BufferBits \in Nat
      /\ ByteBits \in Nat \ {0} /\ ByteBits <= WordBits
      /\ BufferBits >= 5 * WordBits
      /\ MaxBits \in Nat /\ MaxFailures \in Nat
  BY WordBitsType, BufferBitsType, WordAssumption, OutAssumption
<1>4. /\ sink \in Seq(Nat) /\ buffer \in Seq(Nat) /\ current \in Seq(Nat)
      /\ written \in Int
  BY <1>1 DEF OutTypeOK
<1>5. Len(sink) \in Nat /\ Len(buffer) \in Nat /\ Len(current) \in Nat
  BY <1>4, LenProperties
<1>6. /\ count \in Nat /\ remaining \in Nat
      /\ availBits \in Nat /\ availBits <= WordBits /\ kept \in Nat
  BY <1>1, <1>3 DEF OutTypeOK
<1>7. count + remaining <= MaxBits
  BY <1>1 DEF Looping
<1> QED
  BY <1>1, <1>2, <1>3, <1>4, <1>5, <1>6, <1>7

LEMMA SoundStep ==
  ASSUME OutTypeOK', Ordered', Roomy', Filled', Looping',
         closed' = 0, failures' = 0
  PROVE  OutInv'
  BY DEF OutInv, Sound

LEMMA CopyAndFlushInv ==
  ASSUME OutInv, Sound, CopyAndFlush
  PROVE  OutInv'
<1> DEFINE x == Fresh(0, Room)
           b == buffer \o x
<1>1. /\ OutTypeOK /\ Ordered /\ Roomy /\ Filled /\ Looping
      /\ WordBits \in Nat \ {0} /\ BufferBits \in Nat
      /\ ByteBits \in Nat \ {0} /\ BufferBits >= 5 * WordBits
      /\ MaxBits \in Nat /\ MaxFailures \in Nat
      /\ count \in Nat /\ remaining \in Nat /\ count + remaining <= MaxBits
      /\ availBits \in Nat /\ availBits <= WordBits /\ kept \in Nat
      /\ sink \in Seq(Nat) /\ buffer \in Seq(Nat) /\ current \in Seq(Nat)
      /\ Len(sink) \in Nat /\ Len(buffer) \in Nat /\ Len(current) \in Nat
      /\ written \in Int /\ closed = 0 /\ failures = 0
  BY InLoop
<1>2. /\ loop = "copy" /\ BytesDown(remaining) >= Room
      /\ count' = count + Room
      /\ availBits' = availBits /\ current' = current
  BY DEF CopyAndFlush
<1>3. /\ Room \in Nat /\ Room <= remaining
      /\ Len(buffer) + Room = BufferBits - WordBits
      /\ remaining < ByteBits => Room = 0
  <2>1. Room \in Nat /\ Len(buffer) + Room = BufferBits - WordBits
    BY <1>1 DEF Room, Roomy
  <2>2. /\ BytesDown(remaining) \in Nat /\ BytesDown(remaining) <= remaining
        /\ remaining < ByteBits => BytesDown(remaining) = 0
    BY <1>1, Downs
  <2> QED
    BY <1>1, <1>2, <2>1, <2>2
<1>4. x \in Seq(Nat) /\ Len(x) = Room
  BY <1>1, <1>3, FreshType
<1>5. x \o current = current \o x
  <2>1. CASE current = <<>>
    BY <1>4, <2>1, ConcatEmptySeq
  <2>2. CASE Room = 0
    <3>1. x = <<>>
      BY <1>4, <2>2, EmptySeq
    <3> QED
      BY <1>1, <3>1, ConcatEmptySeq
  <2> QED
    BY <1>1, <1>2, <1>3, <2>1, <2>2 DEF Looping
<1>6. b \in Seq(Nat) /\ Len(b) = BufferBits - WordBits
  <2>1. b \in Seq(Nat) /\ Len(b) = Len(buffer) + Len(x)
    BY <1>1, <1>4, Concatenated
  <2> QED
    BY <1>3, <1>4, <2>1
<1>7. /\ count' \in 0..MaxBits /\ count' \in Nat
      /\ count' + (remaining - Room) <= MaxBits
      /\ remaining - Room \in 0..MaxBits
  BY <1>1, <1>2, <1>3
<1> HIDE DEF x, b
<1>8. CASE Flushed(b) /\ loop' = "copy" /\ remaining' = remaining - Room
           /\ closed' = 0 /\ failures' = 0 /\ kept' = kept
  <2>1. sink' = sink \o b /\ buffer' = <<>> /\ written' = written + Len(b)
    BY <1>8 DEF Flushed
  <2>2. Taken' = Taken \o x
    BY <1>1, <1>2, <1>4, <1>5, <2>1, TakenMoved DEF b, Cat, ToBuffer, ToSink, ToEmpty
  <2>3. Ordered'
    BY <1>1, <1>2, <1>3, <2>2, Progress DEF x
  <2>4. sink' \in Seq(Nat) /\ Len(sink') = Len(sink) + Len(b)
        /\ buffer' \in Seq(Nat) /\ Len(buffer') = 0
    <3>1. sink \o b \in Seq(Nat) /\ Len(sink \o b) = Len(sink) + Len(b)
      BY <1>1, <1>6, Concatenated
    <3>2. <<>> \in Seq(Nat) /\ Len(<<>>) = 0
      OBVIOUS
    <3> QED
      BY <2>1, <3>1, <3>2, Zenon
  <2>5. Roomy'
    <3>1. WholeWords(Len(sink) + Len(b)) /\ WholeWords(0)
      <4>1. Len(b) \in Nat /\ WholeWords(Len(b))
        BY <1>1, <1>6, WholeWordsBasics
      <4> QED
        BY <1>1, <4>1, WholeWordsBasics, WholeWordsSum DEF Roomy
    <3>2. WholeWords(Len(sink)) ' /\ WholeWords(Len(buffer))'
      BY <2>4, <3>1 DEF WholeWords
    <3>3. /\ Len(buffer') <= BufferBits - WordBits
          /\ written' = Len(sink')
      BY <1>1, <1>6, <2>1, <2>4 DEF Roomy
    <3> QED
      BY <3>2, <3>3 DEF Roomy
  <2>6. Filled'
    BY <1>1, <1>2, <1>8 DEF Filled
  <2>7. Looping'
    BY <1>1, <1>2, <1>3, <1>7, <1>8 DEF Looping
  <2>8. OutTypeOK'
    <3>1. written' \in Int
      BY <1>1, <1>6, <2>1
    <3> QED
      BY <1>1, <1>2, <1>7, <1>8, <2>4, <3>1 DEF OutTypeOK
  <2> QED
    BY <1>8, <2>3, <2>5, <2>6, <2>7, <2>8, SoundStep
<1>9. CASE FlushFails(b)
  <2>1. sink' = sink /\ buffer' = b
    BY <1>9 DEF FlushFails, Stored
  <2>2. Taken' = Taken \o x
    BY <1>1, <1>2, <1>4, <1>5, <2>1, TakenMoved DEF b, Cat, ToBuffer, ToSink, ToEmpty
  <2>3. Ordered'
    BY <1>1, <1>2, <1>3, <2>2, Progress DEF x
  <2>4. /\ availBits' \in 0..WordBits
        /\ Len(current') = WordBits - availBits'
        /\ WordBits - availBits' <= Len(current')
        /\ Len(current') <= WordBits
    BY <1>1, <1>2 DEF Filled
  <2>5. Len(buffer') + BytesUp(WordBits - availBits') <= BufferBits
    <3>1. WordBits - availBits' \in 0..WordBits
      BY <2>4, Complement
    <3>2. /\ BytesUp(WordBits - availBits') \in Nat
          /\ BytesUp(WordBits - availBits') <= WordBits
      BY <3>1, BytesUpBound
    <3> QED
      BY <1>1, <1>6, <2>1, <3>2
  <2>6. /\ sink' \in Seq(Nat) /\ buffer' \in Seq(Nat) /\ current' \in Seq(Nat)
    BY <1>1, <1>2, <1>6, <2>1
  <2>7. Wrecked'
    BY <1>7, <2>3, <2>4, <2>5, <2>6, IntactWreckedNext DEF Intact
  <2> QED
    BY <1>7, <1>9, <2>4, <2>6, <2>7, FlushFailsInv
<1> QED
  BY <1>1, <1>2, <1>8, <1>9 DEF CopyAndFlush, x, b

LEMMA CopyWordsInv ==
  ASSUME OutInv, Sound, CopyWords
  PROVE  OutInv'
<1> DEFINE n == WordsDown(remaining)
           x == Fresh(0, n)
           b == buffer \o x
<1>1. /\ OutTypeOK /\ Ordered /\ Roomy /\ Filled /\ Looping
      /\ WordBits \in Nat \ {0} /\ BufferBits \in Nat
      /\ ByteBits \in Nat \ {0} /\ BufferBits >= 5 * WordBits
      /\ MaxBits \in Nat /\ MaxFailures \in Nat
      /\ count \in Nat /\ remaining \in Nat /\ count + remaining <= MaxBits
      /\ availBits \in Nat /\ availBits <= WordBits /\ kept \in Nat
      /\ sink \in Seq(Nat) /\ buffer \in Seq(Nat) /\ current \in Seq(Nat)
      /\ Len(sink) \in Nat /\ Len(buffer) \in Nat /\ Len(current) \in Nat
      /\ written \in Int /\ closed = 0 /\ failures = 0
  BY InLoop
<1>2. /\ loop = "copy" /\ BytesDown(remaining) < Room
      /\ buffer' = b /\ sink' = sink /\ written' = written
      /\ count' = count + n /\ remaining' = remaining - n
      /\ loop' = "bytes" /\ availBits' = availBits /\ current' = current
      /\ closed' = 0 /\ kept' = kept /\ failures' = 0
  BY <1>1 DEF CopyWords, Stored
<1>3. /\ n \in Nat /\ WholeWords(n) /\ n <= BytesDown(remaining)
      /\ BytesDown(remaining) \in Nat /\ BytesDown(remaining) <= remaining
      /\ remaining < ByteBits => BytesDown(remaining) = 0
  BY <1>1, Downs
<1> HIDE DEF n
<1>4. /\ n <= remaining
      /\ remaining < ByteBits => n = 0
      /\ Len(buffer) + n <= BufferBits - WordBits
  BY <1>1, <1>2, <1>3 DEF Room
<1>5. x \in Seq(Nat) /\ Len(x) = n
  BY <1>1, <1>3, FreshType
<1>6. x \o current = current \o x
  <2>1. CASE current = <<>>
    BY <1>5, <2>1, ConcatEmptySeq
  <2>2. CASE n = 0
    <3>1. x = <<>>
      BY <1>5, <2>2, EmptySeq
    <3> QED
      BY <1>1, <3>1, ConcatEmptySeq
  <2> QED
    BY <1>1, <1>2, <1>4, <2>1, <2>2 DEF Looping
<1>7. b \in Seq(Nat) /\ Len(b) = Len(buffer) + n
  BY <1>1, <1>5, Concatenated
<1> HIDE DEF x, b
<1>8. Taken' = Taken \o x
  BY <1>1, <1>2, <1>5, <1>6, TakenMoved DEF b, Cat, ToBuffer, ToSink, ToEmpty
<1>9. Ordered'
  BY <1>1, <1>2, <1>3, <1>8, Progress DEF x
<1>10. Roomy'
  <2>1. WholeWords(Len(buffer) + n)
    BY <1>1, <1>3, WholeWordsSum DEF Roomy
  <2>2. WholeWords(Len(buffer))' /\ WholeWords(Len(sink))'
    BY <1>1, <1>2, <1>7, <2>1 DEF Roomy, WholeWords
  <2> QED
    BY <1>1, <1>2, <1>4, <1>7, <2>2 DEF Roomy
<1>11. Filled'
  BY <1>1, <1>2 DEF Filled
<1>12. Looping'
  BY <1>1, <1>2, <1>3, <1>4 DEF Looping
<1>13. OutTypeOK'
  BY <1>1, <1>2, <1>3, <1>4, <1>7 DEF OutTypeOK
<1> QED
  BY <1>2, <1>9, <1>10, <1>11, <1>12, <1>13, SoundStep

LEMMA PutInLoopInv ==
  ASSUME OutInv, Sound, loop \in {"fill", "bytes"},
         NEW n \in 1..WordBits, n <= remaining, PutInLoop(n)
  PROVE  OutInv'
<1>1. /\ OutTypeOK /\ Ordered /\ Roomy /\ Filled /\ Looping
      /\ WordBits \in Nat \ {0} /\ MaxBits \in Nat /\ n \in Nat
      /\ count \in Nat /\ remaining \in Nat /\ count + remaining <= MaxBits
      /\ kept \in Nat /\ closed = 0 /\ failures = 0
  BY InLoop
<1>2. count + n <= MaxBits
  BY <1>1
<1>3. CASE /\ Put(n)
           /\ remaining' = remaining - n
           /\ closed' = 0 /\ loop' = loop /\ kept' = kept /\ failures' = 0
  <2>1. /\ availBits' \in 0..WordBits
        /\ current' \in Seq(Nat) /\ Len(current') <= WordBits
        /\ buffer' \in Seq(Nat) /\ sink' \in Seq(Nat) /\ written' \in Int
        /\ count' = count + n /\ count' \in 0..MaxBits
        /\ Ordered' /\ Roomy' /\ Filled'
    BY <1>1, <1>2, <1>3, PutSteps
  <2>2. Looping'
    BY <1>1, <1>3, <2>1 DEF Looping
  <2>3. OutTypeOK'
    BY <1>1, <1>3, <2>1 DEF OutTypeOK
  <2> QED
    BY <1>3, <2>1, <2>2, <2>3, SoundStep
<1>4. CASE PutFails(n)
  BY <1>2, <1>4, PutFailsInv
<1> QED
  BY <1>1, <1>3, <1>4 DEF PutInLoop

LEMMA GoToInv ==
  ASSUME OutInv, Sound, loop # "words", NEW l, GoTo(l),
         \/ l = "copy" /\ (availBits = WordBits \/ remaining < ByteBits)
         \/ l = "none" /\ remaining = 0
  PROVE  OutInv'
<1>1. /\ OutTypeOK /\ Ordered /\ Roomy /\ Filled /\ Looping
      /\ WordBits \in Nat \ {0} /\ current \in Seq(Nat)
      /\ closed = 0 /\ failures = 0
  BY InLoop
<1>2. /\ loop' = l /\ l \in {"copy", "none"}
      /\ availBits' = availBits /\ current' = current /\ buffer' = buffer
      /\ sink' = sink /\ written' = written /\ closed' = 0
      /\ remaining' = remaining /\ kept' = kept /\ count' = count
      /\ failures' = 0
  BY <1>1 DEF GoTo, bufferVars
<1>3. Ordered' /\ Roomy'
  BY <1>1, <1>2 DEF Ordered, InOrder, Taken, Roomy, WholeWords
<1>4. Filled'
  BY <1>1, <1>2 DEF Filled
<1>5. Looping'
  <2>1. availBits = WordBits => current = <<>>
    BY <1>1, EmptySeq DEF Filled
  <2> QED
    BY <1>1, <1>2, <2>1 DEF Looping
<1>6. OutTypeOK'
  BY <1>1, <1>2 DEF OutTypeOK
<1> QED
  BY <1>2, <1>3, <1>4, <1>5, <1>6, SoundStep

LEMMA FillInv ==
  ASSUME OutInv, Sound, Fill
  PROVE  OutInv'
<1>1. /\ loop = "fill"
      /\ ByteBits \in 1..WordBits
      /\ remaining \in Nat
  BY InLoop DEF Fill
<1>2. CASE availBits # WordBits /\ remaining >= ByteBits
  BY <1>1, <1>2, PutInLoopInv DEF Fill
<1>3. CASE ~(availBits # WordBits /\ remaining >= ByteBits)
  <2>1. GoTo("copy") /\ (availBits = WordBits \/ remaining < ByteBits)
    BY <1>1, <1>3 DEF Fill
  <2> QED
    BY <1>1, <2>1, GoToInv
<1> QED
  BY <1>2, <1>3

LEMMA BytesInv ==
  ASSUME OutInv, Sound, Bytes
  PROVE  OutInv'
<1>1. /\ loop = "bytes"
      /\ ByteBits \in 1..WordBits /\ ByteBits \in Nat /\ WordBits \in Nat
      /\ remaining \in Nat
  BY InLoop DEF Bytes
<1>2. CASE remaining = 0
  BY <1>1, <1>2, GoToInv DEF Bytes
<1>3. CASE remaining # 0 /\ remaining >= ByteBits
  BY <1>1, <1>3, PutInLoopInv DEF Bytes
<1>4. CASE remaining # 0 /\ ~(remaining >= ByteBits)
  <2>1. remaining \in 1..WordBits /\ remaining <= remaining
    BY <1>1, <1>4
  <2> QED
    BY <1>1, <1>4, <2>1, PutInLoopInv DEF Bytes
<1> QED
  BY <1>2, <1>3, <1>4

LEMMA WriteBitsInv ==
  ASSUME OutInv, NEW n \in 1..WordBits, WriteBits(n)
  PROVE  OutInv'
<1>1. /\ Sound /\ loop = "none" /\ count + n <= MaxBits
  BY DEF WriteBits, MayWrite, Sound
<1>2. /\ OutTypeOK /\ Ordered /\ Roomy /\ Filled /\ Looping
      /\ WordBits \in Nat \ {0} /\ MaxBits \in Nat /\ n \in Nat
      /\ count \in Nat /\ remaining \in Nat /\ kept \in Nat
      /\ closed = 0 /\ failures = 0
  BY <1>1, InLoop
<1>3. CASE /\ Put(n)
           /\ closed' = 0 /\ loop' = loop /\ kept' = kept /\ failures' = 0
           /\ remaining' = remaining
  <2>1. /\ availBits' \in 0..WordBits
        /\ current' \in Seq(Nat) /\ Len(current') <= WordBits
        /\ buffer' \in Seq(Nat) /\ sink' \in Seq(Nat) /\ written' \in Int
        /\ count' = count + n /\ count' \in 0..MaxBits
        /\ Ordered' /\ Roomy' /\ Filled'
    BY <1>1, <1>2, <1>3, PutSteps
  <2>2. Looping'
    BY <1>1, <1>2, <1>3, <2>1 DEF Looping
  <2>3. OutTypeOK'
    BY <1>1, <1>2, <1>3, <2>1 DEF OutTypeOK
  <2> QED
    BY <1>3, <2>1, <2>2, <2>3, SoundStep
<1>4. CASE PutFails(n)
  BY <1>1, <1>4, PutFailsInv
<1> QED
  BY <1>2, <1>3, <1>4 DEF WriteBits, arrayVars

LEMMA WriteArrayInv ==
  ASSUME OutInv, NEW n \in 0..MaxBits, WriteArray(n)
  PROVE  OutInv'
<1>1. /\ Sound /\ loop = "none" /\ count + n <= MaxBits
  BY DEF WriteArray, MayWrite, Sound
<1>2. /\ OutTypeOK /\ Ordered /\ Roomy /\ Filled
      /\ WordBits \in Nat \ {0} /\ MaxBits \in Nat /\ n \in Nat
      /\ closed = 0 /\ failures = 0
  BY <1>1, InLoop
<1>3. availBits \in 1..WordBits /\ Len(current) = WordBits - availBits
  BY <1>1, <1>2 DEF Filled
<1>4. /\ availBits' = availBits /\ current' = current /\ buffer' = buffer
      /\ sink' = sink /\ written' = written /\ closed' = 0
      /\ remaining' = n /\ count' = count /\ failures' = 0
      /\ \/ loop' = "fill" /\ kept' = 0
         \/ loop' = "words" /\ kept' = availBits
         \/ loop' = "bytes" /\ kept' = 0
  BY <1>2 DEF WriteArray, bufferVars
<1>5. Ordered' /\ Roomy'
  BY <1>2, <1>4 DEF Ordered, InOrder, Taken, Roomy, WholeWords
<1>6. Filled'
  BY <1>2, <1>3, <1>4 DEF Filled
<1>7. Looping'
  BY <1>1, <1>2, <1>4 DEF Looping
<1>8. OutTypeOK'
  BY <1>2, <1>3, <1>4 DEF OutTypeOK
<1> QED
  BY <1>4, <1>5, <1>6, <1>7, <1>8, SoundStep

LEMMA WordsOverInv ==
  ASSUME OutInv, Sound, WordsOver
  PROVE  OutInv'
<1>1. /\ OutTypeOK /\ Ordered /\ Roomy /\ Filled /\ Looping
      /\ WordBits \in Nat \ {0} /\ closed = 0 /\ failures = 0
  BY InLoop
<1>2. /\ loop = "words" /\ availBits' = kept /\ kept' = 0 /\ loop' = "bytes"
      /\ current' = current /\ buffer' = buffer /\ sink' = sink
      /\ written' = written /\ closed' = 0 /\ remaining' = remaining
      /\ count' = count /\ failures' = 0
  BY <1>1 DEF WordsOver, bufferVars
<1>3. kept \in 1..WordBits /\ Len(current) = WordBits - kept
  BY <1>1, <1>2 DEF Filled
<1>4. Ordered' /\ Roomy'
  BY <1>1, <1>2 DEF Ordered, InOrder, Taken, Roomy, WholeWords
<1>5. Filled'
  BY <1>1, <1>2, <1>3 DEF Filled
<1>6. Looping'
  BY <1>1, <1>2 DEF Looping
<1>7. OutTypeOK'
  BY <1>1, <1>2, <1>3 DEF OutTypeOK
<1> QED
  BY <1>2, <1>4, <1>5, <1>6, <1>7, SoundStep

-----------------------------------------------------------------------------
(* Words of the array shifted through _current.                            *)

\* n bits of the array behind the word, the first n of all taken from them.
LEMMA Shifted ==
  ASSUME OutInv, Sound, loop = "words", NEW n \in {WordBits, Four}
  PROVE  LET x == First(n, current \o Fresh(0, n))
             y == Behind(n, current \o Fresh(0, n))
         IN  /\ x \in Seq(Nat) /\ Len(x) = n
             /\ y \in Seq(Nat) /\ Len(y) = WordBits - kept
             /\ Fresh(0, n) \in Seq(Nat)
             /\ x \o y = current \o Fresh(0, n)
<1> DEFINE f == Fresh(0, n)
           all == current \o f
<1>1. /\ WordBits \in Nat \ {0} /\ current \in Seq(Nat)
      /\ Filled /\ count \in Nat /\ kept \in Nat
  BY InLoop
<1>2. n \in Nat /\ kept \in 1..WordBits /\ Len(current) = WordBits - kept
  BY <1>1 DEF Filled, Four
<1>3. f \in Seq(Nat) /\ Len(f) = n
  BY <1>1, <1>2, FreshType
<1> HIDE DEF f
<1>4. all \in Seq(Nat) /\ Len(all) = WordBits - kept + n
  <2>1. all \in Seq(Nat) /\ Len(all) = Len(current) + Len(f)
    BY <1>1, <1>3, Concatenated
  <2> QED
    BY <1>1, <1>2, <1>3, <2>1
<1>5. n \in 0..Len(all) /\ Len(all) - n = WordBits - kept
  BY <1>1, <1>2, <1>4
<1> HIDE DEF all
<1>6. /\ First(n, all) \in Seq(Nat) /\ Len(First(n, all)) = n
      /\ Behind(n, all) \in Seq(Nat)
      /\ Len(Behind(n, all)) = WordBits - kept
      /\ First(n, all) \o Behind(n, all) = all
  BY <1>4, <1>5, SplitAt
<1> QED
  BY <1>3, <1>6 DEF all, f

LEMMA FirstWord ==
  ASSUME NEW c \in Seq(Nat), NEW k \in 1..WordBits, Len(c) = WordBits - k,
         count \in Nat
  PROVE  /\ First(WordBits, c \o Fresh(0, WordBits)) = c \o Fresh(0, k)
         /\ Fresh(0, k) \in Seq(Nat)
<1> DEFINE f == Fresh(0, WordBits)
           g == Fresh(0, k)
<1>1. WordBits \in Nat \ {0} /\ k \in Nat /\ Len(c) \in Nat
  BY WordBitsType, LenProperties
<1>2. /\ f \in Seq(Nat) /\ Len(f) = WordBits
      /\ \A i \in 1..WordBits : f[i] = count + 0 + i
  BY <1>1, FreshType
<1>3. /\ g \in Seq(Nat) /\ Len(g) = k
      /\ \A i \in 1..k : g[i] = count + 0 + i
  BY <1>1, FreshType
<1> HIDE DEF f, g
<1> DEFINE u == c \o f
           v == c \o g
<1>4. IsJoin(u, c, f) /\ IsJoin(v, c, g)
  BY <1>2, <1>3, Joined
<1> HIDE DEF u, v
<1>5. /\ u \in Seq(Nat) /\ Len(u) = Len(c) + WordBits
      /\ \A i \in 1..(Len(c) + WordBits) :
           u[i] = IF i <= Len(c) THEN c[i] ELSE f[i - Len(c)]
  BY <1>2, <1>4 DEF IsJoin
<1>6. /\ v \in Seq(Nat) /\ Len(v) = WordBits
      /\ \A i \in 1..WordBits :
           v[i] = IF i <= Len(c) THEN c[i] ELSE g[i - Len(c)]
  <2>1. Len(c) + k = WordBits
    BY <1>1
  <2> QED
    BY <1>3, <1>4, <2>1 DEF IsJoin
<1> DEFINE w == First(WordBits, u)
<1>7. w \in Seq(Nat) /\ Len(w) = WordBits
  <2>1. WordBits \in 0..Len(u)
    BY <1>1, <1>5
  <2> QED
    BY <1>5, <2>1, SplitAt
<1>8. \A i \in 1..WordBits : w[i] = u[i]
  <2>1. WordBits \in Nat /\ Len(u) \in Nat /\ WordBits <= Len(u)
    BY <1>1, <1>5
  <2>2. \A i \in 1..WordBits : SubSeq(u, 1, WordBits)[i] = u[i]
    BY <1>5, <2>1
  <2> QED
    BY <2>2 DEF First
<1> HIDE DEF w
<1>9. ASSUME NEW i \in 1..WordBits PROVE w[i] = v[i]
  <2>1. i \in Nat /\ i \in 1..(Len(c) + WordBits)
    BY <1>1
  <2>2. CASE i <= Len(c)
    BY <1>5, <1>6, <1>8, <2>1, <2>2
  <2>3. CASE ~(i <= Len(c))
    <3>1. i - Len(c) \in 1..k /\ i - Len(c) \in 1..WordBits
      BY <1>1, <2>1, <2>3
    <3>2. f[i - Len(c)] = g[i - Len(c)]
      BY <1>2, <1>3, <3>1
    <3> QED
      BY <1>5, <1>6, <1>8, <2>1, <2>3, <3>2
  <2> QED
    BY <2>2, <2>3
<1>10. w = v
  BY <1>1, <1>6, <1>7, <1>9, SeqEqual
<1> QED
  BY <1>3, <1>10 DEF w, v, u, f, g

LEMMA FourWordsInv ==
  ASSUME OutInv, Sound, FourWords
  PROVE  OutInv'
<1> DEFINE x == First(Four, current \o Fresh(0, Four))
           y == Behind(Four, current \o Fresh(0, Four))
           f == Fresh(0, Four)
<1>1. /\ OutTypeOK /\ Ordered /\ Roomy /\ Filled /\ Looping
      /\ WordBits \in Nat \ {0} /\ BufferBits \in Nat
      /\ BufferBits >= 5 * WordBits
      /\ MaxBits \in Nat /\ MaxFailures \in Nat
      /\ count \in Nat /\ remaining \in Nat /\ count + remaining <= MaxBits
      /\ sink \in Seq(Nat) /\ buffer \in Seq(Nat) /\ current \in Seq(Nat)
      /\ Len(sink) \in Nat /\ Len(buffer) \in Nat
      /\ written \in Int /\ closed = 0 /\ failures = 0
  BY InLoop
<1>2. Four \in Nat /\ Four = 4 * WordBits /\ WholeWords(Four)
  BY <1>1, WholeWordsBasics DEF Four
<1>3. /\ loop = "words" /\ remaining >= Four
      /\ \/ ~FullForFour /\ Stored(buffer \o x)
         \/ /\ FullForFour
            /\ sink' = sink \o buffer
            /\ buffer' = x
            /\ written' = written + Len(buffer)
      /\ current' = y /\ availBits' = WordBits
      /\ remaining' = remaining - Four /\ count' = count + Four
      /\ closed' = 0 /\ loop' = "words" /\ kept' = kept /\ failures' = 0
  BY <1>1 DEF FourWords
<1>4. /\ x \in Seq(Nat) /\ Len(x) = Four
      /\ y \in Seq(Nat) /\ Len(y) = WordBits - kept
      /\ f \in Seq(Nat)
      /\ x \o y = current \o f
  BY <1>3, Shifted
<1>5. kept \in 1..WordBits
  BY <1>1, <1>3 DEF Filled
<1> HIDE DEF x, y, f
<1>6. buffer \o x \in Seq(Nat) /\ Len(buffer \o x) = Len(buffer) + Four
  BY <1>1, <1>4, Concatenated
<1>7. sink \o buffer \in Seq(Nat) /\ Len(sink \o buffer) = Len(sink) + Len(buffer)
  BY <1>1, Concatenated
<1>8. /\ \/ ToBuffer(x) \/ ToSink(x) \/ ToEmpty(x)
      /\ sink' \in Seq(Nat) /\ buffer' \in Seq(Nat) /\ written' \in Int
      /\ Roomy'
  <2>1. CASE ~FullForFour /\ Stored(buffer \o x)
    <3>1. buffer' = buffer \o x /\ sink' = sink /\ written' = written
      BY <2>1 DEF Stored
    <3>2. Len(buffer) + Four <= BufferBits - WordBits
      BY <1>1, <1>2, <2>1, FourFit DEF FullForFour, Roomy
    <3>3. WholeWords(Len(buffer) + Four)
      BY <1>1, <1>2, WholeWordsSum DEF Roomy
    <3>4. WholeWords(Len(buffer))' /\ WholeWords(Len(sink))'
      BY <1>1, <1>6, <3>1, <3>3 DEF WholeWords, Roomy
    <3>5. Roomy'
      BY <1>1, <1>6, <3>1, <3>2, <3>4 DEF Roomy
    <3> QED
      BY <1>1, <1>6, <3>1, <3>5 DEF ToBuffer, Cat
  <2>2. CASE /\ sink' = sink \o buffer
             /\ buffer' = x
             /\ written' = written + Len(buffer)
    <3>1. WholeWords(Len(sink) + Len(buffer))
      BY <1>1, WholeWordsSum DEF Roomy
    <3>2. WholeWords(Len(buffer))' /\ WholeWords(Len(sink))'
      BY <1>2, <1>4, <1>7, <2>2, <3>1 DEF WholeWords
    <3>3. written' = Len(sink') /\ Len(buffer') <= BufferBits - WordBits
      BY <1>1, <1>2, <1>4, <1>7, <2>2 DEF Roomy
    <3>4. Roomy'
      BY <3>2, <3>3 DEF Roomy
    <3> QED
      BY <1>1, <1>4, <1>7, <2>2, <3>4 DEF ToEmpty, Cat
  <2> QED
    BY <1>3, <2>1, <2>2
<1>9. Taken' = Taken \o f
  <2>1. Cat(x, y) = Cat(current, f)
    BY <1>4 DEF Cat
  <2> QED
    BY <1>1, <1>3, <1>4, <1>8, <2>1, TakenMoved
<1>10. Ordered'
  BY <1>1, <1>2, <1>3, <1>9, Progress DEF f
<1>11. Filled'
  BY <1>1, <1>3, <1>4, <1>5 DEF Filled
<1>12. Looping'
  BY <1>1, <1>2, <1>3 DEF Looping
<1>13. OutTypeOK'
  BY <1>1, <1>2, <1>3, <1>4, <1>5, <1>8 DEF OutTypeOK
<1> QED
  BY <1>3, <1>8, <1>10, <1>11, <1>12, <1>13, SoundStep

LEMMA FourWordsFailInv ==
  ASSUME OutInv, Sound, FourWordsFail
  PROVE  OutInv'
<1> DEFINE f == Fresh(0, kept)
           y == current \o f
<1>1. /\ OutTypeOK /\ Ordered /\ Roomy /\ Filled /\ Looping
      /\ WordBits \in Nat \ {0} /\ BufferBits \in Nat
      /\ MaxBits \in Nat
      /\ count \in Nat /\ remaining \in Nat /\ count + remaining <= MaxBits
      /\ availBits \in Nat /\ availBits <= WordBits /\ kept \in Nat
      /\ sink \in Seq(Nat) /\ buffer \in Seq(Nat) /\ current \in Seq(Nat)
      /\ Len(buffer) \in Nat
  BY InLoop
<1>2. /\ loop = "words" /\ remaining >= Four /\ FlushFails(buffer)
      /\ sink' = sink /\ buffer' = buffer /\ current' = y
      /\ count' = count + kept /\ availBits' = availBits
  BY DEF FourWordsFail, FlushFails, Stored
<1>3. kept \in 1..WordBits /\ Len(current) = WordBits - kept
  BY <1>1, <1>2 DEF Filled
<1>4. f \in Seq(Nat) /\ Len(f) = kept
  BY <1>1, FreshType
<1> HIDE DEF f
<1>5. y \in Seq(Nat) /\ Len(y) = WordBits
  <2>1. y \in Seq(Nat) /\ Len(y) = Len(current) + Len(f)
    BY <1>1, <1>4, Concatenated
  <2> QED
    BY <1>1, <1>3, <1>4, <2>1
<1>6. Taken' = Taken \o f
  <2>1. Cat(<<>>, y) = Cat(current, f) /\ <<>> \in Seq(Nat)
    BY <1>5, ConcatEmptySeq DEF Cat
  <2>2. ToBuffer(<<>>)
    BY <1>1, <1>2, ConcatEmptySeq DEF ToBuffer, Cat
  <2> HIDE DEF y
  <2> QED
    BY <1>1, <1>2, <1>4, <1>5, <2>1, <2>2, TakenMoved
<1> HIDE DEF y
<1>7. Ordered'
  BY <1>1, <1>2, <1>6, Progress DEF f
<1>8. /\ availBits' \in 0..WordBits
      /\ WordBits - availBits' \in 0..WordBits
      /\ WordBits - availBits' <= Len(current')
  BY <1>1, <1>2, <1>5
<1>9. Len(buffer') + BytesUp(WordBits - availBits') <= BufferBits
  <2>1. /\ BytesUp(WordBits - availBits') \in Nat
        /\ BytesUp(WordBits - availBits') <= WordBits
    BY <1>8, BytesUpBound
  <2> QED
    BY <1>1, <1>2, <2>1 DEF Roomy
<1>10. /\ count' \in 0..MaxBits /\ count' \in Nat
       /\ Len(current') <= WordBits
       /\ sink' \in Seq(Nat) /\ buffer' \in Seq(Nat) /\ current' \in Seq(Nat)
  <2>1. kept <= remaining
    BY <1>1, <1>2, <1>3 DEF Four
  <2> QED
    BY <1>1, <1>2, <1>5, <2>1
<1>11. Wrecked'
  BY <1>7, <1>8, <1>9, <1>10, IntactWreckedNext DEF Intact
<1> QED
  BY <1>2, <1>8, <1>10, <1>11, FlushFailsInv

LEMMA OneWordInv ==
  ASSUME OutInv, Sound, OneWord
  PROVE  OutInv'
<1> DEFINE x == First(WordBits, current \o Fresh(0, WordBits))
           y == Behind(WordBits, current \o Fresh(0, WordBits))
           f == Fresh(0, WordBits)
           b == buffer \o x
<1>1. /\ OutTypeOK /\ Ordered /\ Roomy /\ Filled /\ Looping
      /\ WordBits \in Nat \ {0} /\ BufferBits \in Nat
      /\ MaxBits \in Nat /\ MaxFailures \in Nat
      /\ count \in Nat /\ remaining \in Nat /\ count + remaining <= MaxBits
      /\ sink \in Seq(Nat) /\ buffer \in Seq(Nat) /\ current \in Seq(Nat)
      /\ Len(buffer) \in Nat /\ kept \in Nat
      /\ closed = 0 /\ failures = 0
  BY InLoop
<1>2. /\ loop = "words" /\ remaining >= WordBits /\ availBits' = WordBits
      /\ \/ /\ Pushed(b)
            /\ current' = y
            /\ count' = count + WordBits
            /\ remaining' = remaining - WordBits
            /\ closed' = 0 /\ loop' = "words" /\ kept' = kept /\ failures' = 0
         \/ /\ FlushFails(b)
            /\ current' = <<>>
            /\ count' = count + kept
  BY <1>1 DEF OneWord
<1>3. /\ x \in Seq(Nat) /\ Len(x) = WordBits
      /\ y \in Seq(Nat) /\ Len(y) = WordBits - kept
      /\ f \in Seq(Nat)
      /\ x \o y = current \o f
  BY <1>2, Shifted
<1>4. kept \in 1..WordBits /\ Len(current) = WordBits - kept
  BY <1>1, <1>2 DEF Filled
<1>5. x = current \o Fresh(0, kept) /\ Fresh(0, kept) \in Seq(Nat)
  BY <1>1, <1>4, FirstWord
<1> HIDE DEF x, y, f
<1>6. b \in Seq(Nat) /\ Len(b) = Len(buffer) + WordBits
  BY <1>1, <1>3, Concatenated
<1>7. WholeWords(Len(b))
  BY <1>1, <1>6, WholeWordsBasics, WholeWordsSum DEF Roomy
<1> HIDE DEF b
<1>8. CASE /\ Pushed(b)
           /\ current' = y
           /\ count' = count + WordBits
           /\ remaining' = remaining - WordBits
           /\ closed' = 0 /\ loop' = "words" /\ kept' = kept /\ failures' = 0
  <2>1. /\ buffer' \in Seq(Nat) /\ sink' \in Seq(Nat) /\ written' \in Int
        /\ Roomy'
        /\ \/ sink' = sink /\ buffer' = b
           \/ sink' = sink \o b /\ buffer' = <<>>
    BY <1>1, <1>6, <1>7, <1>8, PushedType
  <2>2. ToBuffer(x) \/ ToSink(x)
    BY <2>1, Zenon DEF ToBuffer, ToSink, Cat, b
  <2>3. Taken' = Taken \o f
    <3>1. Cat(x, y) = Cat(current, f)
      BY <1>3 DEF Cat
    <3> QED
      BY <1>1, <1>3, <1>8, <2>2, <3>1, TakenMoved
  <2>4. Ordered'
    BY <1>1, <1>8, <2>3, Progress DEF f
  <2>5. Filled'
    BY <1>1, <1>2, <1>3, <1>4, <1>8 DEF Filled
  <2>6. Looping'
    BY <1>1, <1>2, <1>8 DEF Looping
  <2>7. OutTypeOK'
    BY <1>1, <1>2, <1>3, <1>4, <1>8, <2>1 DEF OutTypeOK
  <2> QED
    BY <1>8, <2>1, <2>4, <2>5, <2>6, <2>7, SoundStep
<1>9. CASE FlushFails(b) /\ current' = <<>> /\ count' = count + kept
  <2> DEFINE g == Fresh(0, kept)
  <2>1. buffer' = b /\ sink' = sink
    BY <1>9 DEF FlushFails, Stored
  <2>2. Taken' = Taken \o g
    <3>1. g \in Seq(Nat) /\ <<>> \in Seq(Nat)
      BY <1>5
    <3>2. Cat(x, <<>>) = Cat(current, g)
      BY <1>3, <1>5, ConcatEmptySeq DEF Cat
    <3>3. ToBuffer(x)
      BY <2>1 DEF ToBuffer, Cat, b
    <3> HIDE DEF g
    <3> QED
      BY <1>1, <1>3, <1>9, <3>1, <3>2, <3>3, TakenMoved
  <2>3. Ordered'
    BY <1>1, <1>9, <2>2, Progress
  <2>4. /\ sink' \in Seq(Nat) /\ buffer' \in Seq(Nat)
        /\ current' \in Seq(Nat) /\ Len(current') = 0
        /\ count' \in 0..MaxBits /\ count' \in Nat
    BY <1>1, <1>2, <1>4, <1>6, <1>9, <2>1
  <2>5. /\ availBits' \in 0..WordBits /\ WordBits - availBits' = 0
        /\ WordBits - availBits' <= Len(current')
        /\ Len(current') <= WordBits
        /\ Len(buffer') + BytesUp(WordBits - availBits') <= BufferBits
    BY <1>1, <1>2, <1>6, <2>1, <2>4, BytesUpZero DEF Roomy
  <2>6. Wrecked'
    BY <2>3, <2>4, <2>5, IntactWreckedNext DEF Intact
  <2> QED
    BY <1>9, <2>4, <2>5, <2>6, FlushFailsInv
<1> QED
  BY <1>2, <1>8, <1>9

-----------------------------------------------------------------------------
(* close()                                                                 *)

LEMMA PaddedType ==
  ASSUME OutTypeOK, WordBits - availBits <= Len(current)
  PROVE  /\ WordBits - availBits \in 0..WordBits
         /\ BytesUp(WordBits - availBits) \in Nat
         /\ Padded \in Seq(Nat)
         /\ Len(Padded) = BytesUp(WordBits - availBits)
<1> DEFINE n == WordBits - availBits
           z == [i \in 1..ByteBits |-> 0]
           cz == current \o z
<1>1. n \in 0..WordBits /\ current \in Seq(Nat)
  BY Complement DEF OutTypeOK
<1>2. Padded = First(BytesUp(n), cz)
  BY DEF Padded
<1>3. z \in Seq(Nat) /\ Len(z) = ByteBits /\ ByteBits \in Nat \ {0}
  BY WordAssumption
<1> HIDE DEF z
<1>4. cz \in Seq(Nat) /\ Len(cz) = Len(current) + ByteBits
  BY <1>1, <1>3, Concatenated
<1>5. n <= Len(current) /\ Len(current) \in Nat
  BY <1>1, LenProperties
<1> HIDE DEF n, cz
<1>6. BytesUp(n) \in Nat /\ BytesUp(n) < n + ByteBits
  BY <1>1, BytesUpBound
<1>7. BytesUp(n) \in 0..Len(cz)
  BY <1>1, <1>3, <1>4, <1>5, <1>6, WordBitsType
<1>8. Padded \in Seq(Nat) /\ Len(Padded) = BytesUp(n)
  BY <1>2, <1>4, <1>7, SplitAt
<1> QED
  BY <1>1, <1>6, <1>8 DEF n

LEMMA AtRest ==
  ASSUME OutInv, MayClose
  PROVE  /\ OutTypeOK /\ Wrecked
         /\ WordBits - availBits <= Len(current)
         /\ remaining = 0
         /\ failures = 0 => Sound
<1>1. OutTypeOK /\ closed = 0 /\ loop = "none"
  BY DEF OutInv, MayClose
<1>2. CASE Sound
  <2>1. /\ Ordered /\ Roomy /\ Filled /\ Looping
        /\ WordBits \in Nat \ {0} /\ BufferBits \in Nat /\ count \in Nat
        /\ sink \in Seq(Nat) /\ buffer \in Seq(Nat) /\ current \in Seq(Nat)
        /\ Len(buffer) \in Nat
    BY <1>2, InLoop
  <2>2. /\ availBits \in 0..WordBits
        /\ Len(current) = WordBits - availBits
        /\ WordBits - availBits <= Len(current)
    BY <1>1, <2>1 DEF Filled
  <2>3. Len(buffer) + BytesUp(WordBits - availBits) <= BufferBits
    <3>1. WordBits - availBits \in 0..WordBits
      BY <2>2, Complement
    <3>2. /\ BytesUp(WordBits - availBits) \in Nat
          /\ BytesUp(WordBits - availBits) <= WordBits
      BY <3>1, BytesUpBound
    <3> QED
      BY <2>1, <3>2 DEF Roomy
  <2>4. Wrecked
    BY <2>1, <2>2, <2>3, IntactWrecked DEF Intact
  <2> QED
    BY <1>1, <1>2, <2>1, <2>2, <2>4 DEF Looping
<1>3. CASE ~Sound
  <2>1. failures # 0 /\ Wrecked /\ remaining = 0
    BY <1>1, <1>3 DEF OutInv, Sound
  <2>2. WordBits - availBits \in Int /\ Len(current) \in Int
    BY <1>1, WordBitsType, LenProperties DEF OutTypeOK
  <2>3. WordBits - availBits <= Len(current)
    BY <2>1, <2>2 DEF Wrecked
  <2> QED
    BY <1>1, <2>1, <2>3
<1> QED
  BY <1>2, <1>3

LEMMA CloseInv ==
  ASSUME OutInv, Close
  PROVE  OutInv'
<1> DEFINE n == WordBits - availBits
           p == BytesUp(n)
           b == buffer \o Padded
<1>1. /\ OutTypeOK /\ Wrecked /\ n <= Len(current)
      /\ remaining = 0
      /\ failures = 0 => Sound
      /\ loop = "none" /\ closed = 0
  BY AtRest DEF Close, MayClose
<1>2. /\ sink \in Seq(Nat) /\ buffer \in Seq(Nat) /\ written \in Int
      /\ availBits \in 0..WordBits /\ WordBits \in Nat
      /\ Len(sink) \in Nat /\ Len(buffer) \in Nat
  BY <1>1, WordBitsType, LenProperties DEF OutTypeOK
<1>3. /\ n \in 0..WordBits /\ p \in Nat
      /\ Padded \in Seq(Nat) /\ Len(Padded) = p
  BY <1>1, PaddedType
<1> HIDE DEF n, p
<1>4. b \in Seq(Nat) /\ Len(b) = Len(buffer) + p
  BY <1>2, <1>3, Concatenated
<1>5. /\ sink' = sink \o buffer \o Padded /\ buffer' = <<>>
      /\ written' = written - Padding + Len(b) - WordBits
      /\ availBits' = 0 /\ closed' = 1 /\ current' = current
      /\ loop' = loop /\ remaining' = remaining /\ kept' = kept
      /\ count' = count /\ failures' = failures
  BY DEF Close, arrayVars
<1>6. Padding = p - n
  BY DEF Padding, p, n
<1>7. sink' = sink \o b
  BY <1>2, <1>3, <1>5, ConcatAssociative
<1> HIDE DEF b
<1>8. sink' \in Seq(Nat) /\ Len(sink') = Len(sink) + Len(buffer) + p
  <2>1. sink \o b \in Seq(Nat) /\ Len(sink \o b) = Len(sink) + Len(b)
    BY <1>2, <1>4, Concatenated
  <2> QED
    BY <1>2, <1>3, <1>4, <1>7, <2>1
<1>9. Prefix(sink, count)'
  <2>1. Prefix(sink \o b, count)
    BY <1>1 DEF Wrecked, b
  <2> QED
    BY <1>5, <1>7, <2>1 DEF Prefix
<1>10. failures = 0 =>
         Len(sink') = BytesUp(count) /\ written' = count - WordBits
  <2>1. SUFFICES ASSUME failures = 0
                 PROVE  Len(sink') = BytesUp(count)
                        /\ written' = count - WordBits
    OBVIOUS
  <2>2. Ordered /\ Roomy /\ Filled
    BY <1>1, <2>1 DEF OutInv
  <2> DEFINE m == Len(sink) + Len(buffer)
  <2>3. Len(current) = n
    BY <1>1, <2>2 DEF Filled, n
  <2>4. count = m + n
    BY <1>1, <2>2, <2>3, TakenType DEF Ordered
  <2>5. m \in Nat /\ WholeWords(m)
    BY <1>2, <2>2, WholeWordsSum DEF Roomy
  <2> HIDE DEF m
  <2>6. BytesUp(count) = m + p
    BY <1>3, <2>4, <2>5, BytesUpShift DEF p
  <2>7. written = Len(sink)
    BY <2>2 DEF Roomy
  <2> QED
    BY <1>2, <1>3, <1>4, <1>5, <1>6, <1>8, <2>4, <2>6, <2>7 DEF m
<1>11. Sealed'
  <2>1. failures' = 0 => Len(sink') = BytesUp(count') /\ written' = count' - WordBits
    BY <1>5, <1>10
  <2> QED
    BY <1>5, <1>9, <2>1 DEF Sealed, BytesUp
<1>12. OutTypeOK'
  <2>1. written' \in Int
    BY <1>2, <1>3, <1>4, <1>5, <1>6
  <2>2. 0 \in 0..WordBits /\ <<>> \in Seq(Nat)
    BY <1>2
  <2> QED
    BY <1>1, <1>5, <1>8, <2>1, <2>2 DEF OutTypeOK
<1>13. closed' = 1 /\ ~Sound' /\ loop' = "none" /\ remaining' = 0
  BY <1>1, <1>5 DEF Sound
<1> QED
  BY <1>11, <1>12, <1>13 DEF OutInv

LEMMA CloseFailsInv ==
  ASSUME OutInv, CloseFails
  PROVE  OutInv'
<1>1. /\ OutTypeOK /\ Wrecked /\ WordBits - availBits <= Len(current)
      /\ remaining = 0 /\ loop = "none" /\ closed = 0
  BY AtRest DEF CloseFails, MayClose
<1>2. /\ availBits' = availBits /\ current' = current /\ buffer' = buffer
      /\ sink' = sink /\ closed' = closed /\ loop' = loop
      /\ remaining' = remaining /\ kept' = kept /\ count' = count
      /\ failures < MaxFailures /\ failures' = failures + 1
      /\ written' = written - Padding
  BY DEF CloseFails, arrayVars
<1>3. written' \in Int
  <2>1. WordBits - availBits \in Int /\ BytesUp(WordBits - availBits) \in Nat
    BY <1>1, PaddedType
  <2>2. Padding \in Int
    BY <2>1 DEF Padding
  <2>3. written \in Int
    BY <1>1 DEF OutTypeOK
  <2> QED
    BY <1>2, <2>2, <2>3
<1>4. failures' \in 0..MaxFailures /\ failures' # 0
  BY <1>1, <1>2, OutAssumption DEF OutTypeOK
<1>5. OutTypeOK'
  BY <1>1, <1>2, <1>3, <1>4 DEF OutTypeOK
<1>6. Wrecked'
  <2>1. Padded' = Padded
    BY <1>2 DEF Padded
  <2> QED
    BY <1>1, <1>2, <2>1 DEF Wrecked, Prefix, BytesUp
<1> QED
  BY <1>1, <1>2, <1>4, <1>5, <1>6 DEF OutInv, Sound

LEMMA SyncFailsInv ==
  ASSUME OutInv, SyncFails
  PROVE  OutInv'
<1> DEFINE b == buffer \o Padded
<1>1. /\ OutTypeOK /\ Wrecked /\ WordBits - availBits <= Len(current)
      /\ remaining = 0 /\ loop = "none" /\ closed = 0
  BY AtRest DEF SyncFails, MayClose
<1>2. /\ sink \in Seq(Nat) /\ buffer \in Seq(Nat) /\ current \in Seq(Nat)
      /\ written \in Int /\ failures \in Nat
      /\ WordBits \in Nat /\ BufferBits \in Nat /\ Len(current) \in Nat
  BY <1>1, WordBitsType, BufferBitsType, LenProperties, OutAssumption
     DEF OutTypeOK
<1>3. /\ WordBits - availBits \in 0..WordBits
      /\ BytesUp(WordBits - availBits) \in Nat
      /\ Padded \in Seq(Nat)
  BY <1>1, PaddedType
<1>4. b \in Seq(Nat) /\ Len(b) \in Nat
  BY <1>2, <1>3, Concatenated, LenProperties
<1>5. sink \o b \in Seq(Nat)
  BY <1>2, <1>4, Concatenated
<1>6. /\ sink' = sink \o b /\ buffer' = <<>>
      /\ written' = written - Padding + Len(b)
      /\ availBits' = WordBits /\ current' = current /\ closed' = closed
      /\ loop' = loop /\ remaining' = remaining /\ kept' = kept
      /\ count' = count
      /\ failures < MaxFailures /\ failures' = failures + 1
  BY DEF SyncFails, Flushed, arrayVars
<1> HIDE DEF b
<1>7. written' \in Int
  <2>1. Padding \in Int
    BY <1>3 DEF Padding
  <2> QED
    BY <1>2, <1>4, <1>6, <2>1
<1>8. failures' \in 0..MaxFailures /\ failures' # 0
  BY <1>2, <1>6, OutAssumption
<1>9. OutTypeOK'
  <2>1. WordBits \in 0..WordBits /\ <<>> \in Seq(Nat)
    BY <1>2
  <2> QED
    BY <1>1, <1>5, <1>6, <1>7, <1>8, <2>1 DEF OutTypeOK
<1>10. Padded' = <<>>
  <2>1. WordBits - availBits' = 0
    BY <1>2, <1>6
  <2>2. Padded' = SubSeq(current \o [i \in 1..ByteBits |-> 0], 1, 0)
    BY <1>6, <2>1, BytesUpZero DEF Padded, First, BytesUp
  <2> QED
    BY <2>2, SubSeqEmpty
<1>11. Wrecked'
  <2>1. Prefix(sink \o b, count)
    BY <1>1 DEF Wrecked, b
  <2>2. <<>> \o <<>> = <<>>
    BY ConcatEmptySeq
  <2>3. sink' \o (buffer' \o Padded') = sink \o b
    BY <1>5, <1>6, <1>10, <2>2, ConcatEmptySeq
  <2>4. Prefix(sink \o (buffer \o Padded), count)'
    BY <1>6, <2>1, <2>3 DEF Prefix
  <2>5. WordBits - availBits' = 0 /\ BytesUp(0) = 0 /\ Len(buffer') = 0
    BY <1>2, <1>6, BytesUpZero
  <2>6. /\ Len(buffer') <= BufferBits
        /\ Len(buffer') + BytesUp(WordBits - availBits') <= BufferBits
        /\ Len(current') >= WordBits - availBits'
    BY <1>2, <1>6, <2>5
  <2> QED
    BY <2>4, <2>6 DEF Wrecked, BytesUp
<1> QED
  BY <1>1, <1>6, <1>8, <1>9, <1>11 DEF OutInv, Sound

-----------------------------------------------------------------------------
(* Every step keeps the invariant.                                         *)

LEMMA OutInvNext == OutInv /\ [OutNext]_outVars => OutInv'
<1> SUFFICES ASSUME OutInv, [OutNext]_outVars PROVE OutInv'
  OBVIOUS
<1>1. loop # "none" => Sound
  BY DEF OutInv
<1>2. ASSUME NEW n \in 1..WordBits, WriteBits(n) PROVE OutInv'
  BY <1>2, WriteBitsInv
<1>3. ASSUME NEW n \in 0..MaxBits, WriteArray(n) PROVE OutInv'
  BY <1>3, WriteArrayInv
<1>4. CASE Fill
  BY <1>1, <1>4, FillInv DEF Fill
<1>5. CASE CopyAndFlush
  BY <1>1, <1>5, CopyAndFlushInv DEF CopyAndFlush
<1>6. CASE CopyWords
  BY <1>1, <1>6, CopyWordsInv DEF CopyWords
<1>7. CASE FourWords
  BY <1>1, <1>7, FourWordsInv DEF FourWords
<1>8. CASE FourWordsFail
  BY <1>1, <1>8, FourWordsFailInv DEF FourWordsFail
<1>9. CASE OneWord
  BY <1>1, <1>9, OneWordInv DEF OneWord
<1>10. CASE WordsOver
  BY <1>1, <1>10, WordsOverInv DEF WordsOver
<1>11. CASE Bytes
  BY <1>1, <1>11, BytesInv DEF Bytes
<1>12. CASE Close
  BY <1>12, CloseInv
<1>13. CASE CloseFails
  BY <1>13, CloseFailsInv
<1>14. CASE SyncFails
  BY <1>14, SyncFailsInv
<1>15. CASE UNCHANGED outVars
  BY <1>15 DEF OutInv, OutTypeOK, Sound, Ordered, InOrder, Taken, Roomy,
               WholeWords, Filled, Looping, Wrecked, Sealed, Prefix, Padded,
               BytesUp, First, outVars, bufferVars, arrayVars
<1> QED
  BY <1>2, <1>3, <1>4, <1>5, <1>6, <1>7, <1>8, <1>9, <1>10, <1>11, <1>12,
     <1>13, <1>14, <1>15 DEF OutNext

LEMMA OutInvHolds == OutSpec => []OutInv
  BY OutInvInit, OutInvNext, PTL DEF OutSpec

-----------------------------------------------------------------------------
(* The properties.                                                         *)

\* An element in front of c does not depend on it.
LEMMA Front ==
  ASSUME NEW s \in Seq(Nat), NEW b \in Seq(Nat), NEW c \in Seq(Nat),
         NEW i \in 1..Len(s \o b)
  PROVE  /\ i \in 1..Len(s \o (b \o c))
         /\ (s \o (b \o c))[i] = (s \o b)[i]
<1> DEFINE sb == s \o b
           all == s \o (b \o c)
<1>1. sb \in Seq(Nat)
  BY CatType DEF Cat
<1>2. all = sb \o c
  <2>1. Cat(s, Cat(b, c)) = Cat(Cat(s, b), c)
    BY CatAssociative
  <2> QED
    BY <2>1, Zenon DEF Cat
<1>3. i \in 1..Len(sb)
  OBVIOUS
<1> HIDE DEF sb, all
<1>4. IsJoin(all, sb, c)
  BY <1>1, <1>2, Joined
<1>5. Len(sb) \in Nat /\ Len(c) \in Nat
  BY <1>1, LenProperties
<1>6. i \in 1..(Len(sb) + Len(c)) /\ i <= Len(sb)
  BY <1>3, <1>5
<1>7. i \in 1..Len(all) /\ all[i] = sb[i]
  BY <1>4, <1>6 DEF IsJoin
<1> QED
  BY <1>7 DEF sb, all

(***************************************************************************)
(* The variables of DefaultOutputBitStream keep their ranges; the counter  *)
(* of the bits written is an integer that close() may move either way.     *)
(***************************************************************************)
THEOREM OutTypeCorrect == OutSpec => []OutTypeOK
<1>1. OutInv => OutTypeOK
  BY DEF OutInv
<1> QED
  BY <1>1, OutInvHolds, PTL

(***************************************************************************)
(* writeBits(), writeBit(), the array's loops and close() never write      *)
(* behind the end of the buffer, whatever its size, and leave room for     *)
(* what close() adds, even after the byte stream has failed.               *)
(***************************************************************************)
THEOREM NoOverrunHolds == OutSpec => []NoOverrun
<1>1. OutInv => NoOverrun
  <2> SUFFICES ASSUME OutInv PROVE NoOverrun
    OBVIOUS
  <2>1. OutTypeOK /\ closed \in {0, 1}
    BY DEF OutInv, OutTypeOK
  <2>2. WordBits \in Nat /\ BufferBits \in Nat
    BY WordBitsType, BufferBitsType
  <2>3. CASE Sound
    <3>1. Roomy
      BY <2>3 DEF OutInv
    <3>2. /\ BytesUp(WordBits - availBits) \in Nat
          /\ BytesUp(WordBits - availBits) <= WordBits
      <4>1. WordBits - availBits \in 0..WordBits
        BY <2>1, Complement DEF OutTypeOK
      <4> QED
        BY <4>1, BytesUpBound
    <3>3. Len(buffer) \in Nat
      BY <2>1, LenProperties DEF OutTypeOK
    <3> QED
      BY <2>2, <3>1, <3>2, <3>3 DEF NoOverrun, Roomy
  <2>4. CASE ~Sound /\ closed = 0
    <3>1. Wrecked
      BY <2>4 DEF OutInv, Sound
    <3> QED
      BY <2>4, <3>1 DEF Wrecked, NoOverrun
  <2>5. CASE closed = 1
    <3>1. buffer = <<>>
      BY <2>5 DEF OutInv, Sealed
    <3>2. Len(buffer) = 0
      BY <3>1
    <3> QED
      BY <2>2, <2>5, <3>2 DEF NoOverrun
  <2> QED
    BY <2>1, <2>3, <2>4, <2>5
<1> QED
  BY <1>1, OutInvHolds, PTL

(***************************************************************************)
(* If the byte stream has not failed, written() is, between two calls, the *)
(* number of bits written, before close() and after it.                    *)
(***************************************************************************)
THEOREM WrittenExactHolds == OutSpec => []WrittenExact
<1>1. OutInv => WrittenExact
  <2> SUFFICES ASSUME OutInv, loop = "none", failures = 0
               PROVE  Written = count
    BY DEF WrittenExact
  <2>1. /\ OutTypeOK /\ closed \in {0, 1}
        /\ WordBits \in Nat /\ count \in Nat /\ written \in Int
        /\ availBits \in 0..WordBits
    BY WordBitsType, OutAssumption DEF OutInv, OutTypeOK
  <2>2. CASE closed = 0
    <3>1. Ordered /\ Roomy /\ Filled
      BY <2>2 DEF OutInv, Sound
    <3>2. /\ Len(sink) \in Nat /\ Len(buffer) \in Nat
          /\ Len(current) = WordBits - availBits
          /\ count = Len(sink) + Len(buffer) + Len(current)
      BY <2>1, <3>1, TakenType DEF Ordered, Filled
    <3> QED
      BY <2>1, <3>1, <3>2 DEF Written, Roomy
  <2>3. CASE closed = 1
    <3>1. buffer = <<>> /\ availBits = 0 /\ written = count - WordBits
      BY <2>3 DEF OutInv, Sealed
    <3>2. Len(buffer) = 0
      BY <3>1
    <3> QED
      BY <2>1, <3>1, <3>2 DEF Written
  <2> QED
    BY <2>1, <2>2, <2>3
<1> QED
  BY <1>1, OutInvHolds, PTL

(***************************************************************************)
(* The bits reach the byte stream in the order they were written, once     *)
(* each, followed by nothing but the zeros that fill the last byte, also   *)
(* after a failure; a stream closed without failure holds all of them.     *)
(***************************************************************************)
THEOREM WritesInOrderHolds == OutSpec => []WritesInOrder
<1>1. OutInv => WritesInOrder
  <2> SUFFICES ASSUME OutInv PROVE WritesInOrder
    OBVIOUS
  <2> DEFINE all == sink \o buffer
  <2>1. /\ OutTypeOK /\ closed \in {0, 1}
        /\ sink \in Seq(Nat) /\ buffer \in Seq(Nat) /\ current \in Seq(Nat)
    BY DEF OutInv, OutTypeOK
  <2>2. closed = 1 /\ failures = 0 => Len(sink) = BytesUp(count)
    BY DEF OutInv, Sealed
  <2>3. ASSUME NEW i \in 1..Len(all)
        PROVE  all[i] = i \/ (all[i] = 0 /\ i > count)
    <3>1. CASE Sound
      <4>1. InOrder(sink \o (buffer \o current))
        BY <3>1 DEF OutInv, Ordered, Taken
      <4>2. /\ i \in 1..Len(sink \o (buffer \o current))
            /\ (sink \o (buffer \o current))[i] = all[i]
        BY <2>1, Front
      <4> QED
        BY <4>1, <4>2 DEF InOrder
    <3>2. CASE ~Sound /\ closed = 0
      <4>1. Wrecked
        BY <3>2 DEF OutInv, Sound
      <4>2. Padded \in Seq(Nat)
        <5>1. WordBits - availBits <= Len(current)
          <6>1. WordBits - availBits \in Int /\ Len(current) \in Int
            BY <2>1, WordBitsType, LenProperties DEF OutTypeOK
          <6> QED
            BY <4>1, <6>1 DEF Wrecked
        <5> QED
          BY <2>1, <5>1, PaddedType
      <4>3. /\ i \in 1..Len(sink \o (buffer \o Padded))
            /\ (sink \o (buffer \o Padded))[i] = all[i]
        BY <2>1, <4>2, Front
      <4>4. Prefix(sink \o (buffer \o Padded), count)
        BY <4>1 DEF Wrecked
      <4> QED
        BY <4>3, <4>4 DEF Prefix
    <3>3. CASE closed = 1
      <4>1. Prefix(sink, count) /\ buffer = <<>>
        BY <3>3 DEF OutInv, Sealed
      <4>2. all = sink
        BY <2>1, <4>1, ConcatEmptySeq
      <4> QED
        BY <4>1, <4>2 DEF Prefix
    <3> QED
      BY <2>1, <3>1, <3>2, <3>3
  <2> QED
    BY <2>2, <2>3 DEF WritesInOrder
<1> QED
  BY <1>1, OutInvHolds, PTL
=============================================================================
