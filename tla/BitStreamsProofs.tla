--------------------------- MODULE BitStreamsProofs ---------------------------
(***************************************************************************)
(* Proofs about DefaultInputBitStream, reading what a                      *)
(* DefaultOutputBitStream has written, for bytes, words and buffers of any *)
(* size and any sequence of calls.                                         *)
(***************************************************************************)
EXTENDS BitStreams, DefaultOutputBitStreamProofs

-----------------------------------------------------------------------------
(* The invariant of the input bitstream.                                   *)

\* s is found in b, behind k bits.
IsAt(s, b, k) ==
  /\ s \in Seq(Nat) /\ k \in Nat /\ k + Len(s) <= Len(b)
  /\ \A i \in 1..Len(s) : s[i] = b[k + i]

\* How many bits of the byte stream are before the rest of the buffer.
Base == fetched - Len(Left)

\* The rest of the buffer is what follows in the byte stream; it holds whole
\* words, unless it is the last of the stream.
Ahead ==
  /\ IsAt(Left, source, Base)
  /\ fetched = Len(source) \/ WholeWords(Len(Left))

\* Until the end has been met, the word is in front of the rest of the buffer.
Cursor == answer # "end" => IsAt(word, source, Tell)

\* A call in progress has returned the bits up to the cursor, and the loops
\* that read the buffer meet an empty word.
Reading ==
  /\ answer = "none" /\ todo <= asked
  /\ IsAt(got, source, start)
  /\ Len(got) = asked - todo
  /\ Tell = start + Len(got)
  /\ inLoop = "copy" => word = <<>> \/ todo < ByteBits
  /\ inLoop = "rest" => word = <<>>

\* Before there is a byte stream.
Unopened ==
  /\ source = <<>> /\ fetched = 0 /\ chunk = <<>> /\ position = 0
  /\ word = <<>> /\ inLoop = "none" /\ answer = "none"
  /\ start = 0 /\ asked = 0

InInv ==
  /\ InTypeOK
  /\ opened = 0 => Unopened
  /\ Ahead
  /\ Cursor
  /\ inLoop # "none" => Reading
  /\ ReadsExact

-----------------------------------------------------------------------------
(* Parts of a sequence.                                                    *)

LEMMA IsAtNothing ==
  ASSUME NEW b \in Seq(Nat), NEW k \in 0..Len(b)
  PROVE  IsAt(<<>>, b, k)
  BY LenProperties DEF IsAt

LEMMA IsAtSplit ==
  ASSUME NEW s, NEW b \in Seq(Nat), NEW k, IsAt(s, b, k), NEW n \in 0..Len(s)
  PROVE  /\ IsAt(First(n, s), b, k) /\ Len(First(n, s)) = n
         /\ IsAt(Behind(n, s), b, k + n) /\ Len(Behind(n, s)) = Len(s) - n
<1>1. /\ s \in Seq(Nat) /\ k \in Nat /\ n \in Nat
      /\ Len(s) \in Nat /\ Len(b) \in Nat
      /\ n <= Len(s) /\ k + Len(s) <= Len(b)
      /\ \A i \in 1..Len(s) : s[i] = b[k + i]
  BY LenProperties DEF IsAt
<1>2. /\ First(n, s) \in Seq(Nat) /\ Len(First(n, s)) = n
      /\ Behind(n, s) \in Seq(Nat) /\ Len(Behind(n, s)) = Len(s) - n
  BY <1>1, SplitAt
<1>3. \A i \in 1..n : First(n, s)[i] = s[i]
  BY <1>1 DEF First
<1>4. \A i \in 1..(Len(s) - n) : Behind(n, s)[i] = s[n + i]
  BY <1>1 DEF Behind
<1>5. IsAt(First(n, s), b, k)
  <2>1. \A i \in 1..n : i \in 1..Len(s)
    BY <1>1
  <2>2. \A i \in 1..n : First(n, s)[i] = b[k + i]
    BY <1>1, <1>3, <2>1
  <2> QED
    BY <1>1, <1>2, <2>2 DEF IsAt
<1>6. IsAt(Behind(n, s), b, k + n)
  <2>1. ASSUME NEW i \in 1..(Len(s) - n)
        PROVE  Behind(n, s)[i] = b[k + n + i]
    <3>1. n + i \in 1..Len(s) /\ k + n + i = k + (n + i)
      BY <1>1
    <3> QED
      BY <1>1, <1>4, <3>1
  <2> QED
    BY <1>1, <1>2, <2>1 DEF IsAt
<1> QED
  BY <1>2, <1>5, <1>6

LEMMA IsAtJoin ==
  ASSUME NEW s, NEW t, NEW b \in Seq(Nat), NEW k, NEW l,
         IsAt(s, b, k), IsAt(t, b, l), l = k + Len(s)
  PROVE  IsAt(s \o t, b, k) /\ Len(s \o t) = Len(s) + Len(t)
<1>1. /\ s \in Seq(Nat) /\ t \in Seq(Nat) /\ k \in Nat
      /\ Len(s) \in Nat /\ Len(t) \in Nat /\ Len(b) \in Nat
      /\ k + Len(s) + Len(t) <= Len(b)
      /\ \A i \in 1..Len(s) : s[i] = b[k + i]
      /\ \A i \in 1..Len(t) : t[i] = b[k + Len(s) + i]
  BY LenProperties DEF IsAt
<1>2. IsJoin(s \o t, s, t)
  BY <1>1, Joined
<1>3. s \o t \in Seq(Nat) /\ Len(s \o t) = Len(s) + Len(t)
  BY <1>1, Concatenated
<1>4. ASSUME NEW i \in 1..(Len(s) + Len(t))
      PROVE  (s \o t)[i] = b[k + i]
  <2>1. CASE i <= Len(s)
    BY <1>1, <1>2, <2>1 DEF IsJoin
  <2>2. CASE i > Len(s)
    <3>1. i - Len(s) \in 1..Len(t) /\ k + Len(s) + (i - Len(s)) = k + i
      BY <1>1, <2>2
    <3>2. (s \o t)[i] = t[i - Len(s)]
      BY <1>1, <1>2, <2>2 DEF IsJoin
    <3> QED
      BY <1>1, <3>1, <3>2
  <2>3. i \in Int /\ Len(s) \in Int
    BY <1>1
  <2> QED
    BY <2>1, <2>2, <2>3
<1> QED
  BY <1>1, <1>3, <1>4 DEF IsAt

LEMMA IsAtSame ==
  ASSUME NEW s, NEW b \in Seq(Nat), NEW k, IsAt(s, b, k)
  PROVE  s = SubSeq(b, k + 1, k + Len(s))
<1>1. s \in Seq(Nat) /\ k \in Nat /\ Len(s) \in Nat /\ Len(b) \in Nat
      /\ k + Len(s) <= Len(b)
      /\ \A i \in 1..Len(s) : s[i] = b[k + i]
  BY LenProperties DEF IsAt
<1> DEFINE t == SubSeq(b, k + 1, k + Len(s))
<1>2. t \in Seq(Nat) /\ Len(t) = Len(s) /\ \A i \in 1..Len(s) : t[i] = b[k + i]
  BY <1>1
<1> HIDE DEF t
<1>3. \A i \in 1..Len(s) : s[i] = t[i]
  BY <1>1, <1>2
<1>4. s = t
  BY <1>1, <1>2, <1>3, SeqEqual
<1> QED
  BY <1>4 DEF t

LEMMA InBitsType ==
  /\ InBits \in Nat /\ InBits > InFour /\ InBits >= WordBits
  /\ WholeWords(InBits) /\ InFour \in Nat /\ InFour = 4 * WordBits
<1>1. InWords \in Nat /\ InWords >= 5 /\ WordBits \in Nat \ {0}
  BY InAssumption, WordBitsType
<1>2. 5 * WordBits <= InWords * WordBits /\ InWords * WordBits \in Nat
  BY <1>1, Mono
<1> QED
  BY <1>1, <1>2 DEF InBits, InFour, WholeWords

LEMMA SmallerType ==
  ASSUME NEW m \in Nat, NEW n \in Nat
  PROVE  /\ Smaller(m, n) \in Nat
         /\ Smaller(m, n) <= m /\ Smaller(m, n) <= n
         /\ Smaller(m, n) = m \/ Smaller(m, n) = n
  BY DEF Smaller

LEMMA IsAtSupply ==
  ASSUME source \in Seq(Nat), NEW k \in 0..Len(source)
  PROVE  /\ IsAt(SupplyFrom(k), source, k)
         /\ Len(SupplyFrom(k)) <= InBits
         /\ Len(SupplyFrom(k)) = InBits \/ k + Len(SupplyFrom(k)) = Len(source)
<1> DEFINE m == Smaller(k + InBits, Len(source))
<1>1. Len(source) \in Nat /\ InBits \in Nat /\ k \in Nat /\ k <= Len(source)
  BY LenProperties, InBitsType
<1>2. m \in Nat /\ m >= k /\ m <= k + InBits /\ m <= Len(source)
      /\ (m = k + InBits \/ m = Len(source))
  BY <1>1 DEF Smaller
<1> HIDE DEF m
<1>3. /\ SubSeq(source, k + 1, m) \in Seq(Nat)
      /\ Len(SubSeq(source, k + 1, m)) = m - k
      /\ \A i \in 1..(m - k) : SubSeq(source, k + 1, m)[i] = source[k + i]
  BY <1>1, <1>2
<1>4. SupplyFrom(k) = SubSeq(source, k + 1, m)
  BY DEF SupplyFrom, m
<1> QED
  BY <1>1, <1>2, <1>3, <1>4 DEF IsAt

LEMMA BehindBehind ==
  ASSUME NEW s \in Seq(Nat), NEW n \in Nat, NEW m \in Nat, n + m <= Len(s)
  PROVE  Behind(n + m, s) = Behind(m, Behind(n, s))
<1> DEFINE u == Behind(n, s)
           v == Behind(m, u)
           z == Behind(n + m, s)
<1>0. Len(s) \in Nat
  BY LenProperties
<1>1. /\ u \in Seq(Nat) /\ Len(u) = Len(s) - n
      /\ \A i \in 1..(Len(s) - n) : u[i] = s[n + i]
  BY <1>0 DEF Behind
<1>2. /\ z \in Seq(Nat) /\ Len(z) = Len(s) - n - m
      /\ \A i \in 1..(Len(s) - n - m) : z[i] = s[n + m + i]
  <2> DEFINE l == n + m
  <2>1. l \in Nat /\ l <= Len(s) /\ Len(s) - n - m = Len(s) - l
    BY <1>0
  <2> HIDE DEF l
  <2>2. /\ Behind(l, s) \in Seq(Nat) /\ Len(Behind(l, s)) = Len(s) - l
        /\ \A i \in 1..(Len(s) - l) : Behind(l, s)[i] = s[l + i]
    BY <1>0, <2>1 DEF Behind
  <2> QED
    BY <2>1, <2>2 DEF l
<1> HIDE DEF u, z
<1>3. /\ v \in Seq(Nat) /\ Len(v) = Len(u) - m
      /\ \A i \in 1..(Len(u) - m) : v[i] = u[m + i]
  BY <1>0, <1>1 DEF Behind
<1> HIDE DEF v
<1>4. ASSUME NEW i \in 1..Len(z) PROVE z[i] = v[i]
  <2>1. /\ m + i \in 1..(Len(s) - n) /\ n + (m + i) = n + m + i
        /\ i \in 1..(Len(u) - m)
        /\ i \in 1..(Len(s) - n - m)
    BY <1>0, <1>1, <1>2
  <2> QED
    BY <1>1, <1>2, <1>3, <2>1
<1>5. z = v
  BY <1>0, <1>1, <1>2, <1>3, <1>4, SeqEqual
<1> QED
  BY <1>5 DEF u, v, z

LEMMA WholeWordsMinus ==
  ASSUME NEW m \in Nat, NEW n \in Nat, WholeWords(m), WholeWords(n), n <= m
  PROVE  WholeWords(m - n)
<1>1. PICK p \in Nat : m = p * WordBits
  BY DEF WholeWords
<1>2. PICK q \in Nat : n = q * WordBits
  BY DEF WholeWords
<1>3. WordBits \in Nat \ {0}
  BY WordBitsType
<1>4. q <= p
  <2> SUFFICES ASSUME p < q PROVE FALSE
    BY <1>1, <1>2
  <2>1. (p + 1) * WordBits <= q * WordBits /\ (p + 1) * WordBits = m + WordBits
    BY <1>1, <1>3, Mono, Distributes
  <2> QED
    BY <2>1, <1>2, <1>3
<1>5. p = (p - q) + q /\ p - q \in Nat
  BY <1>4
<1>6. ((p - q) + q) * WordBits = (p - q) * WordBits + q * WordBits
  BY <1>3, <1>5, Distributes
<1>7. (p - q) * WordBits \in Nat
  BY <1>3, <1>5
<1>8. m = (p - q) * WordBits + n
  BY <1>1, <1>2, <1>5, <1>6
<1>9. m - n = (p - q) * WordBits
  BY <1>7, <1>8
<1> QED
  BY <1>5, <1>9 DEF WholeWords

LEMMA WholeWordsLeast ==
  ASSUME NEW m \in Nat, WholeWords(m), m # 0
  PROVE  m >= WordBits
<1>1. PICK p \in Nat : m = p * WordBits
  BY DEF WholeWords
<1>2. WordBits \in Nat \ {0}
  BY WordBitsType
<1>3. p >= 1
  BY <1>1, <1>2
<1>4. 1 * WordBits <= p * WordBits
  BY <1>2, <1>3, Mono
<1> QED
  BY <1>1, <1>2, <1>4

-----------------------------------------------------------------------------
(* The buffer and the word.                                                *)

\* The types of the buffer.
FetchOK ==
  /\ source \in Seq(Nat)
  /\ fetched \in 0..Len(source)
  /\ chunk \in Seq(Nat)
  /\ Len(chunk) <= InBits
  /\ position \in 0..Len(chunk)

LEMMA FetchTypes ==
  ASSUME FetchOK
  PROVE  /\ Left \in Seq(Nat) /\ Len(Left) \in Nat
         /\ Len(Left) = Len(chunk) - position
         /\ Len(source) \in Nat /\ Len(chunk) \in Nat /\ fetched \in Nat
         /\ position \in Nat /\ Base \in Int /\ fetched <= Len(source)
<1>1. Left \in Seq(Nat) /\ Len(Left) = Len(chunk) - position
  BY SplitAt DEF FetchOK, Left
<1> QED
  BY <1>1, LenProperties DEF FetchOK, Base

LEMMA RefillSteps ==
  ASSUME FetchOK, UNCHANGED bytesVars, NEW p \in 0..Len(Supply), Refill(p),
         WholeWords(p) \/ p = Len(Supply)
  PROVE  FetchOK' /\ Ahead' /\ Base' = fetched + p /\ Left' = Behind(p, Supply)
<1>1. /\ source' = source /\ chunk' = Supply /\ position' = p
      /\ fetched' = fetched + Len(Supply)
  BY DEF Refill, bytesVars
<1>2. /\ IsAt(Supply, source, fetched) /\ Len(Supply) <= InBits
      /\ Len(Supply) = InBits \/ fetched + Len(Supply) = Len(source)
  BY IsAtSupply DEF FetchOK, Supply
<1>3. /\ Len(source) \in Nat /\ fetched \in Nat /\ InBits \in Nat
      /\ source \in Seq(Nat) /\ Supply \in Seq(Nat) /\ Len(Supply) \in Nat
      /\ fetched + Len(Supply) <= Len(source)
  BY <1>2, FetchTypes, InBitsType, LenProperties DEF FetchOK, IsAt
<1>4. FetchOK'
  BY <1>1, <1>2, <1>3 DEF FetchOK
<1>5. Left' = Behind(p, Supply)
  BY <1>1 DEF Left
<1>6. IsAt(Behind(p, Supply), source, fetched + p)
      /\ Len(Behind(p, Supply)) = Len(Supply) - p
  BY <1>2, <1>3, IsAtSplit
<1>7. Base' = fetched + p
  BY <1>1, <1>3, <1>5, <1>6 DEF Base
<1>8. fetched' = Len(source') \/ WholeWords(Len(Left'))
  <2>1. CASE fetched + Len(Supply) = Len(source)
    BY <1>1, <2>1
  <2>2. CASE Len(Supply) = InBits /\ WholeWords(p)
    <3>1. WholeWords(Len(Supply) - p)
      BY <1>3, <2>2, InBitsType, WholeWordsMinus
    <3> QED
      BY <1>5, <1>6, <3>1
  <2>3. CASE p = Len(Supply)
    <3>1. Len(Left') = 0
      BY <1>3, <1>5, <1>6, <2>3
    <3> QED
      BY <3>1, WholeWordsBasics
  <2> QED
    BY <1>2, <2>1, <2>2, <2>3
<1>9. Ahead'
  BY <1>1, <1>5, <1>6, <1>7, <1>8 DEF Ahead
<1> QED
  BY <1>4, <1>5, <1>7, <1>9

\* n bits of the rest of the buffer are passed.
LEMMA PassSteps ==
  ASSUME FetchOK, Ahead, UNCHANGED <<bytesVars, fetched, chunk>>,
         NEW n \in 0..Len(Left), position' = position + n,
         WholeWords(n) \/ n = Len(Left)
  PROVE  FetchOK' /\ Ahead' /\ Base' = Base + n /\ Left' = Behind(n, Left)
<1>1. /\ Left \in Seq(Nat) /\ Len(Left) \in Nat
      /\ Len(Left) = Len(chunk) - position
      /\ Len(source) \in Nat /\ Len(chunk) \in Nat /\ fetched \in Nat
      /\ position \in Nat /\ n \in Nat /\ n <= Len(Left)
  BY FetchTypes
<1>2. source' = source /\ fetched' = fetched /\ chunk' = chunk
  BY DEF bytesVars
<1>3. FetchOK'
  BY <1>1, <1>2 DEF FetchOK
<1>4. Left' = Behind(n, Left)
  <2>1. Left' = Behind(position + n, chunk)
    BY <1>2 DEF Left
  <2>2. position + n <= Len(chunk) /\ chunk \in Seq(Nat)
    BY <1>1 DEF FetchOK
  <2> QED
    BY <1>1, <2>1, <2>2, BehindBehind DEF Left
<1>5. /\ IsAt(Behind(n, Left), source, Base + n)
      /\ Len(Behind(n, Left)) = Len(Left) - n
  BY <1>1, IsAtSplit DEF Ahead, FetchOK
<1>6. Base' = Base + n
  BY <1>1, <1>2, <1>4, <1>5 DEF Base
<1>7. fetched' = Len(source') \/ WholeWords(Len(Left'))
  <2>1. CASE fetched = Len(source)
    BY <1>2, <2>1
  <2>2. CASE WholeWords(Len(Left)) /\ WholeWords(n)
    <3>1. WholeWords(Len(Left) - n)
      BY <1>1, <2>2, WholeWordsMinus
    <3> QED
      BY <1>4, <1>5, <3>1
  <2>3. CASE n = Len(Left)
    <3>1. Len(Left') = 0
      BY <1>1, <1>4, <1>5, <2>3
    <3> QED
      BY <3>1, WholeWordsBasics
  <2> QED
    BY <2>1, <2>2, <2>3 DEF Ahead
<1>8. Ahead'
  BY <1>2, <1>4, <1>5, <1>6, <1>7 DEF Ahead
<1> QED
  BY <1>3, <1>4, <1>6, <1>8

\* pullCurrent(): a word, or what is left of the stream.
LEMMA PulledAt ==
  ASSUME FetchOK, Ahead
  PROVE  /\ IsAt(Pulled, source, Base)
         /\ Len(Pulled) \in Nat /\ Len(Pulled) <= WordBits
         /\ Len(Pulled) < WordBits => Base + Len(Pulled) = Len(source)
         /\ Left # <<>> => /\ Pulled = First(Len(Pulled), Left)
                           /\ Len(Pulled) <= Len(Left)
         /\ Left # <<>> /\ Len(Pulled) # Len(Left) => Len(Pulled) = WordBits
         /\ Left = <<>> => Len(Pulled) <= Len(Supply) /\ Base = fetched
         /\ Left = <<>> /\ Len(Pulled) # Len(Supply) => Len(Pulled) = WordBits
<1>1. /\ Left \in Seq(Nat) /\ Len(Left) \in Nat
      /\ Len(source) \in Nat /\ fetched \in Nat /\ Base \in Int
      /\ fetched <= Len(source) /\ source \in Seq(Nat)
      /\ fetched \in 0..Len(source)
      /\ WordBits \in Nat \ {0} /\ InBits \in Nat /\ InBits >= WordBits
  BY FetchTypes, WordBitsType, InBitsType DEF FetchOK
<1>2. CASE Left # <<>>
  <2> DEFINE n == Smaller(WordBits, Len(Left))
  <2>1. n \in 0..Len(Left) /\ n <= WordBits /\ (n = WordBits \/ n = Len(Left))
    BY <1>1 DEF Smaller
  <2>2. Pulled = First(n, Left)
    BY <1>2 DEF Pulled, WordOf
  <2> HIDE DEF n
  <2>3. IsAt(Pulled, source, Base) /\ Len(Pulled) = n
    BY <1>1, <2>1, <2>2, IsAtSplit DEF Ahead
  <2>4. n < WordBits => Base + n = Len(source)
    <3> SUFFICES ASSUME n < WordBits PROVE Base + n = Len(source)
      OBVIOUS
    <3>1. n = Len(Left) /\ Len(Left) # 0
      BY <1>1, <1>2, <2>1, EmptySeq
    <3>2. ~WholeWords(Len(Left))
      BY <1>1, <3>1, WholeWordsLeast
    <3>3. fetched = Len(source)
      BY <3>2 DEF Ahead
    <3> QED
      BY <1>1, <3>1, <3>3 DEF Base
  <2> QED
    BY <1>1, <1>2, <2>1, <2>2, <2>3, <2>4
<1>3. CASE Left = <<>>
  <2> DEFINE n == Smaller(WordBits, Len(Supply))
  <2>1. /\ IsAt(Supply, source, fetched)
        /\ Len(Supply) = InBits \/ fetched + Len(Supply) = Len(source)
    BY <1>1, IsAtSupply DEF Supply
  <2>2. Len(Supply) \in Nat /\ Base = fetched
    BY <1>1, <1>3, <2>1, LenProperties DEF IsAt, Base
  <2>3. /\ n \in 0..Len(Supply) /\ n <= WordBits
        /\ n = WordBits \/ n = Len(Supply)
    BY <1>1, <2>2 DEF Smaller
  <2>4. Pulled = First(n, Supply)
    BY <1>3 DEF Pulled, WordOf
  <2> HIDE DEF n
  <2>5. IsAt(Pulled, source, fetched) /\ Len(Pulled) = n
    BY <1>1, <2>1, <2>3, <2>4, IsAtSplit
  <2>6. n < WordBits => fetched + n = Len(source)
    BY <1>1, <2>1, <2>2, <2>3
  <2> QED
    BY <1>1, <1>3, <2>2, <2>3, <2>5, <2>6
<1> QED
  BY <1>2, <1>3

LEMMA PullSteps ==
  ASSUME FetchOK, Ahead, UNCHANGED bytesVars, Pull
  PROVE  FetchOK' /\ Ahead' /\ Base' = Base + Len(Pulled)
<1> DEFINE n == Len(Pulled)
<1>1. /\ n \in Nat /\ n <= WordBits
      /\ Left # <<>> => n <= Len(Left)
      /\ Left # <<>> /\ n # Len(Left) => n = WordBits
      /\ Left = <<>> => n <= Len(Supply) /\ Base = fetched
      /\ Left = <<>> /\ n # Len(Supply) => n = WordBits
  BY PulledAt
<1>2. CASE Left # <<>>
  <2>1. position' = position + n /\ UNCHANGED <<fetched, chunk>>
    BY <1>2 DEF Pull
  <2>2. Len(Left) \in Nat
    BY FetchTypes
  <2>3. n \in 0..Len(Left) /\ (WholeWords(n) \/ n = Len(Left))
    BY <1>1, <1>2, <2>2, WholeWordsBasics
  <2> HIDE DEF n
  <2>4. FetchOK' /\ Ahead' /\ Base' = Base + n
    BY <2>1, <2>3, PassSteps
  <2> QED
    BY <2>4 DEF n
<1>3. CASE Left = <<>>
  <2>1. Refill(n)
    BY <1>3 DEF Pull
  <2>2. Len(Supply) \in Nat
    BY IsAtSupply, LenProperties DEF FetchOK, Supply, IsAt
  <2>3. n \in 0..Len(Supply) /\ (WholeWords(n) \/ n = Len(Supply))
    BY <1>1, <1>3, <2>2, WholeWordsBasics
  <2> HIDE DEF n
  <2>4. FetchOK' /\ Ahead' /\ Base' = fetched + n
    BY <2>1, <2>3, RefillSteps
  <2> QED
    BY <1>1, <1>3, <2>4 DEF n
<1> QED
  BY <1>2, <1>3

\* The types of the word, and its place in front of the buffer.
WordOK == word \in Seq(Nat) /\ Len(word) <= WordBits

LEMMA TellIs ==
  ASSUME FetchOK, WordOK
  PROVE  Tell = Base - Len(word) /\ Tell \in Int /\ Len(word) \in Nat
<1>1. /\ Len(Left) = Len(chunk) - position /\ Len(chunk) \in Nat
      /\ fetched \in Nat /\ position \in Nat
  BY FetchTypes
<1>2. Len(word) \in Nat
  BY LenProperties DEF WordOK
<1> QED
  BY <1>1, <1>2 DEF Tell, Base

\* readBits(n) returns the n bits behind the cursor and moves it behind them.
LEMMA TakeSteps ==
  ASSUME FetchOK, Ahead, WordOK, IsAt(word, source, Tell),
         UNCHANGED bytesVars, NEW n \in 1..WordBits, NEW g, NEW k,
         IsAt(g, source, k), Tell = k + Len(g), Take(n, g)
  PROVE  /\ FetchOK' /\ Ahead' /\ WordOK' /\ IsAt(word', source, Tell')
         /\ IsAt(got', source, k) /\ Len(got') = Len(g) + n
         /\ Tell' = Tell + n
<1>1. /\ WordBits \in Nat \ {0} /\ n \in Nat /\ n <= WordBits
      /\ source \in Seq(Nat) /\ word \in Seq(Nat) /\ Len(word) \in Nat
      /\ Len(word) <= WordBits /\ Base \in Int
      /\ Tell \in Int /\ Tell = Base - Len(word)
  BY WordBitsType, TellIs, FetchTypes DEF FetchOK, WordOK
<1>2. g \in Seq(Nat) /\ Len(g) \in Nat /\ k \in Nat
  BY LenProperties DEF IsAt
<1>3. source' = source
  BY DEF bytesVars
<1>4. CASE n <= Len(word)
  <2>1. /\ got' = g \o First(n, word)
        /\ word' = Behind(n, word)
        /\ UNCHANGED <<fetched, chunk, position>>
    BY <1>1, <1>4 DEF Take, fetchVars
  <2>2. /\ IsAt(First(n, word), source, Tell) /\ Len(First(n, word)) = n
        /\ IsAt(Behind(n, word), source, Tell + n)
        /\ Len(Behind(n, word)) = Len(word) - n
    BY <1>1, <1>4, IsAtSplit
  <2>3. IsAt(got', source, k) /\ Len(got') = Len(g) + n
    BY <1>1, <1>2, <2>1, <2>2, IsAtJoin
  <2>4. FetchOK' /\ Ahead' /\ Base' = Base
    BY <1>3, <2>1 DEF FetchOK, Ahead, Base, Left
  <2>5. WordOK'
    BY <1>1, <2>1, <2>2 DEF WordOK, IsAt
  <2>6. Tell' = Tell + n
    <3>1. Len(word') = Len(word) - n
      BY <2>1, <2>2
    <3>2. fetched' = fetched /\ Len(chunk') = Len(chunk) /\ position' = position
      BY <2>1
    <3>3. fetched \in Nat /\ Len(chunk) \in Nat /\ position \in Nat
          /\ Len(word) \in Nat /\ n \in Nat
      BY <1>1, FetchTypes
    <3> QED
      BY <3>1, <3>2, <3>3 DEF Tell
  <2> QED
    BY <2>1, <2>2, <2>3, <2>4, <2>5, <2>6
<1>5. CASE n > Len(word)
  <2> DEFINE m == Missing(n)
  <2>1. /\ Len(Pulled) >= m
        /\ Pull
        /\ got' = g \o word \o First(m, Pulled)
        /\ word' = Behind(m, Pulled)
    <3>1. ~(n <= Len(word))
      BY <1>1, <1>5
    <3> QED
      BY <3>1 DEF Take
  <2>2. m = n - Len(word) /\ m \in Nat
    BY <1>1, <1>5 DEF Missing
  <2>3. /\ IsAt(Pulled, source, Base) /\ Len(Pulled) \in Nat
        /\ Len(Pulled) <= WordBits
    BY PulledAt
  <2>4. FetchOK' /\ Ahead' /\ Base' = Base + Len(Pulled)
    BY <2>1, PullSteps
  <2> HIDE DEF m
  <2>5. /\ IsAt(First(m, Pulled), source, Base) /\ Len(First(m, Pulled)) = m
        /\ IsAt(Behind(m, Pulled), source, Base + m)
        /\ Len(Behind(m, Pulled)) = Len(Pulled) - m
    <3>1. m \in 0..Len(Pulled)
      BY <2>1, <2>2, <2>3
    <3> QED
      BY <1>1, <2>3, <3>1, IsAtSplit
  <2>6. IsAt(g \o word, source, k) /\ Len(g \o word) = Len(g) + Len(word)
    BY <1>1, <1>2, IsAtJoin
  <2>7. IsAt(got', source, k) /\ Len(got') = Len(g) + Len(word) + m
    <3> DEFINE a == g \o word
               b == First(m, Pulled)
    <3>1. got' = a \o b
      BY <2>1
    <3>2. Base = k + Len(a)
      BY <1>1, <1>2, <2>6
    <3> HIDE DEF a, b
    <3>3. IsAt(a, source, k) /\ IsAt(b, source, Base)
      BY <2>5, <2>6 DEF a, b
    <3>4. IsAt(a \o b, source, k) /\ Len(a \o b) = Len(a) + Len(b)
      BY <1>1, <3>2, <3>3, IsAtJoin
    <3>5. Len(a) = Len(g) + Len(word) /\ Len(b) = m
      BY <2>5, <2>6 DEF a, b
    <3> QED
      BY <3>1, <3>4, <3>5
  <2>8. WordOK'
    <3>1. word' \in Seq(Nat) /\ Len(word') = Len(Pulled) - m
      BY <2>1, <2>5 DEF IsAt
    <3>2. Len(word') <= WordBits
      BY <1>1, <2>2, <2>3, <3>1
    <3> QED
      BY <3>1, <3>2 DEF WordOK
  <2>9. Tell' = Base' - Len(word')
    <3>1. /\ Len(Left') = Len(chunk') - position' /\ Len(chunk') \in Nat
          /\ fetched' \in Nat /\ position' \in Nat /\ Len(word') \in Nat
      <4>1. /\ chunk' \in Seq(Nat) /\ position' \in 0..Len(chunk')
            /\ fetched' \in 0..Len(source')
        BY <2>4 DEF FetchOK
      <4>2. Left' = Behind(position', chunk')
        BY DEF Left
      <4>3. Len(Left') = Len(chunk') - position'
        BY <4>1, <4>2, SplitAt
      <4> QED
        BY <4>1, <4>3, <2>1, <2>2, <2>3, <2>5, LenProperties
    <3> QED
      BY <3>1 DEF Tell, Base
  <2>10. Tell' = Tell + n /\ Tell' = Base + m
    <3>1. /\ Len(word') = Len(Pulled) - m /\ Base' = Base + Len(Pulled)
          /\ Tell' = Base' - Len(word')
      BY <2>1, <2>4, <2>5, <2>9
    <3>2. /\ Len(word) \in Nat /\ n \in Nat /\ Base \in Int /\ m \in Nat
          /\ Len(Pulled) \in Nat /\ m = n - Len(word) /\ Tell = Base - Len(word)
      BY <1>1, <2>2, <2>3
    <3>3. Tell' = Base + m
      BY <3>1, <3>2
    <3> QED
      BY <3>2, <3>3
  <2>11. IsAt(word', source, Tell')
    BY <2>1, <2>5, <2>10
  <2>12. Len(got') = Len(g) + n
    BY <1>1, <1>2, <2>2, <2>7
  <2> QED
    BY <2>4, <2>7, <2>8, <2>10, <2>11, <2>12
<1> QED
  BY <1>1, <1>4, <1>5

\* It fails only if fewer bits are left.
LEMMA TakeFailsSteps ==
  ASSUME FetchOK, Ahead, WordOK, IsAt(word, source, Tell),
         UNCHANGED bytesVars, NEW n \in 1..WordBits, TakeFails(n)
  PROVE  FetchOK' /\ Ahead' /\ WordOK' /\ Tell + n > Len(source)
<1>1. /\ WordBits \in Nat \ {0} /\ n \in Nat /\ n <= WordBits
      /\ word \in Seq(Nat) /\ Len(word) \in Nat
      /\ Len(word) <= WordBits /\ Base \in Int
      /\ Tell = Base - Len(word) /\ Len(source) \in Nat
  BY WordBitsType, TellIs, FetchTypes DEF WordOK
<1>2. /\ n > Len(word) /\ Len(Pulled) < n - Len(word) /\ Pull
      /\ word' = IF Pulled = <<>> THEN word ELSE Pulled
  BY DEF TakeFails, Missing
<1>3. /\ Len(Pulled) \in Nat /\ Len(Pulled) <= WordBits
      /\ Len(Pulled) < WordBits => Base + Len(Pulled) = Len(source)
      /\ Pulled \in Seq(Nat)
  BY PulledAt DEF IsAt
<1>4. FetchOK' /\ Ahead'
  BY <1>2, PullSteps
<1>5. WordOK'
  BY <1>1, <1>2, <1>3 DEF WordOK
<1> QED
  BY <1>1, <1>2, <1>3, <1>4, <1>5

-----------------------------------------------------------------------------
(* Every step preserves the invariant.                                     *)

LEMMA InInvIs ==
  ASSUME InInv
  PROVE  /\ FetchOK /\ WordOK /\ Ahead
         /\ answer # "end" => IsAt(word, source, Tell)
         /\ source \in Seq(Nat) /\ Len(source) \in Nat
         /\ word \in Seq(Nat) /\ Len(word) \in Nat
         /\ WordBits \in Nat \ {0} /\ ByteBits \in Nat \ {0}
         /\ ByteBits <= WordBits
         /\ MaxAsked \in Nat
         /\ Base \in Int /\ Tell = Base - Len(word)
         /\ Left \in Seq(Nat) /\ Len(Left) \in Nat
<1>1. FetchOK /\ WordOK /\ source \in Seq(Nat) /\ word \in Seq(Nat)
  BY DEF InInv, InTypeOK, FetchOK, WordOK
<1>2. Base \in Int /\ Tell = Base - Len(word)
      /\ Left \in Seq(Nat) /\ Len(Left) \in Nat
  BY <1>1, TellIs, FetchTypes
<1>3. WordBits \in Nat \ {0} /\ ByteBits \in Nat \ {0} /\ ByteBits <= WordBits
      /\ MaxAsked \in Nat
  BY WordBitsType, WordAssumption, InAssumption
<1>4. Ahead /\ (answer # "end" => IsAt(word, source, Tell))
  BY DEF InInv, Cursor
<1> QED
  BY <1>1, <1>2, <1>3, <1>4, LenProperties

\* In a call, n bits more have been returned.
LEMMA LoopInv ==
  ASSUME InInv, inLoop # "none", FetchOK', Ahead', WordOK',
         IsAt(word', source, Tell'),
         UNCHANGED <<bytesVars, start, asked, answer>>,
         inLoop' \in {"empty", "copy", "rest", "words", "bytes"},
         NEW n \in 0..todo, todo' = todo - n,
         IsAt(got', source, start), Len(got') = Len(got) + n,
         Tell' = Tell + n,
         inLoop' = "copy" => word' = <<>> \/ todo' < ByteBits,
         inLoop' = "rest" => word' = <<>>
  PROVE  InInv'
<1>1. /\ todo \in 0..MaxAsked /\ MaxAsked \in Nat
      /\ start \in 0..Len(source) /\ asked \in Nat
      /\ source \in Seq(Nat)
      /\ opened = 1 /\ answer = "none"
      /\ todo <= asked /\ Len(got) = asked - todo
      /\ Tell = start + Len(got)
  BY InAssumption DEF InInv, InTypeOK, Unopened, Reading
<1>2. /\ source' = source /\ opened' = opened /\ start' = start
      /\ asked' = asked /\ answer' = answer
  BY DEF bytesVars
<1>3. todo' \in 0..MaxAsked /\ todo' <= asked' /\ Len(got') = asked' - todo'
  BY <1>1, <1>2
<1>4. InTypeOK'
  BY <1>1, <1>2, <1>3 DEF InTypeOK, FetchOK, WordOK, IsAt
<1>5. Cursor'
  BY <1>2 DEF Cursor
<1>6. Reading'
  <2>1. Tell' = start' + Len(got')
    <3>1. /\ start \in Nat /\ Len(got) \in Nat /\ n \in Nat
          /\ Tell = start + Len(got)
      BY <1>1
    <3> QED
      BY <3>1, <1>2
  <2> QED
    BY <1>1, <1>2, <1>3, <2>1 DEF Reading
<1>7. ReadsExact'
  BY <1>1, <1>2 DEF ReadsExact
<1> QED
  BY <1>1, <1>2, <1>4, <1>5, <1>6, <1>7 DEF InInv

\* Between calls.
LEMMA RestInv ==
  ASSUME InInv, opened = 1, FetchOK', Ahead', WordOK', UNCHANGED bytesVars,
         Cursor', ReadsExact', inLoop' = "none", todo' \in 0..MaxAsked,
         got' \in Seq(Nat), start' \in 0..Len(source), asked' \in Nat,
         answer' \in {"none", "bits", "end", "more", "nomore"}
  PROVE  InInv'
<1>1. source' = source /\ opened' = opened
  BY DEF bytesVars
<1>2. InTypeOK'
  BY <1>1 DEF InTypeOK, FetchOK, WordOK
<1> QED
  BY <1>1, <1>2 DEF InInv

LEMMA EndsInv ==
  ASSUME InInv, opened = 1, FetchOK', Ahead', WordOK', UNCHANGED bytesVars,
         Ends, start' \in 0..Len(source), asked' \in Nat,
         start' + asked' > Len(source)
  PROVE  InInv'
<1>1. source' = source
  BY DEF bytesVars
<1>2. /\ answer' = "end" /\ inLoop' = "none" /\ todo' = 0 /\ got' = <<>>
  BY DEF Ends
<1>3. Cursor' /\ ReadsExact'
  BY <1>1, <1>2 DEF Cursor, ReadsExact
<1>4. 0 \in 0..MaxAsked /\ <<>> \in Seq(Nat)
  BY InAssumption
<1> QED
  BY <1>2, <1>3, <1>4, RestInv

LEMMA TakeInLoopInv ==
  ASSUME InInv, inLoop \in {"empty", "words", "bytes"},
         NEW n \in 1..WordBits, n <= todo, TakeInLoop(n)
  PROVE  InInv'
<1>1. /\ FetchOK /\ WordOK /\ Ahead
      /\ source \in Seq(Nat) /\ WordBits \in Nat
      /\ (answer # "end" => IsAt(word, source, Tell)) /\ Len(source) \in Nat
  BY InInvIs
<1>2. /\ Reading /\ opened = 1 /\ todo \in Nat
      /\ start \in 0..Len(source) /\ start \in Nat /\ asked \in Nat
  BY <1>1, InAssumption DEF InInv, InTypeOK, Unopened
<1>3. /\ IsAt(word, source, Tell) /\ IsAt(got, source, start)
      /\ Tell = start + Len(got) /\ Len(got) = asked - todo
  BY <1>1, <1>2 DEF Reading
<1>4. UNCHANGED bytesVars /\ start' = start /\ asked' = asked
  BY DEF TakeInLoop
<1>5. CASE Take(n, got) /\ todo' = todo - n /\ UNCHANGED <<inLoop, answer>>
  <2>1. /\ FetchOK' /\ Ahead' /\ WordOK' /\ IsAt(word', source, Tell')
        /\ IsAt(got', source, start) /\ Len(got') = Len(got) + n
        /\ Tell' = Tell + n
    BY <1>1, <1>3, <1>4, <1>5, TakeSteps
  <2>2. n \in 0..todo
    BY <1>1, <1>2
  <2> QED
    BY <1>4, <1>5, <2>1, <2>2, LoopInv
<1>6. CASE TakeFails(n)
  <2>1. FetchOK' /\ Ahead' /\ WordOK' /\ Tell + n > Len(source)
    BY <1>1, <1>3, <1>4, <1>6, TakeFailsSteps
  <2>2. start' + asked' > Len(source)
    BY <1>1, <1>2, <1>3, <1>4, <2>1
  <2>3. Ends
    BY <1>6 DEF TakeFails
  <2> QED
    BY <1>2, <1>4, <2>1, <2>2, <2>3, EndsInv
<1> QED
  BY <1>5, <1>6 DEF TakeInLoop

\* A call begins at the cursor.
LEMMA CallBegins ==
  ASSUME InInv, NEW n \in Nat, MayCall(n)
  PROVE  /\ opened = 1 /\ inLoop = "none"
         /\ start' = Tell /\ asked' = n
         /\ Tell \in 0..Len(source)
         /\ IsAt(word, source, Tell)
         /\ IsAt(<<>>, source, Tell)
<1>1. /\ opened = 1 /\ inLoop = "none" /\ answer # "end"
      /\ start' = Tell /\ asked' = n
  BY DEF MayCall
<1>2. IsAt(word, source, Tell) /\ source \in Seq(Nat) /\ Len(source) \in Nat
      /\ Len(word) \in Nat
  BY <1>1, InInvIs
<1>3. Tell \in 0..Len(source)
  BY <1>2 DEF IsAt
<1> QED
  BY <1>1, <1>2, <1>3, IsAtNothing

LEMMA ReadBitsInv ==
  ASSUME InInv, NEW n \in 1..WordBits, ReadBits(n)
  PROVE  InInv'
<1>1. /\ FetchOK /\ WordOK /\ Ahead /\ source \in Seq(Nat)
      /\ Len(source) \in Nat /\ WordBits \in Nat
  BY InInvIs
<1>2. n \in Nat
  BY <1>1
<1>3. MayCall(n) /\ UNCHANGED bytesVars
  BY DEF ReadBits
<1>4. /\ opened = 1 /\ inLoop = "none"
      /\ start' = Tell /\ asked' = n
      /\ Tell \in 0..Len(source) /\ Tell \in Nat
      /\ IsAt(word, source, Tell)
      /\ IsAt(<<>>, source, Tell)
  BY <1>1, <1>2, <1>3, CallBegins
<1>5. CASE Take(n, <<>>) /\ answer' = "bits" /\ UNCHANGED <<inLoop, todo>>
  <2>0. Len(<<>>) = 0 /\ Tell = Tell + 0
    BY <1>4
  <2>1. /\ FetchOK' /\ Ahead' /\ WordOK' /\ IsAt(word', source, Tell')
        /\ IsAt(got', source, Tell) /\ Len(got') = 0 + n
        /\ Tell' = Tell + n
    BY <1>1, <1>3, <1>4, <1>5, <2>0, TakeSteps
  <2>2. source' = source
    BY <1>3 DEF bytesVars
  <2>3. Cursor'
    BY <2>1, <2>2 DEF Cursor
  <2>4. got' = SubSeq(source, Tell + 1, Tell + n)
    BY <1>1, <1>2, <2>1, IsAtSame
  <2>5. ReadsExact'
    BY <1>4, <1>5, <2>1, <2>2, <2>4 DEF ReadsExact
  <2>6. todo' \in 0..MaxAsked /\ got' \in Seq(Nat)
    BY <1>5, <2>1 DEF InInv, InTypeOK, IsAt
  <2> QED
    BY <1>2, <1>3, <1>4, <1>5, <2>1, <2>3, <2>5, <2>6, RestInv
<1>6. CASE TakeFails(n)
  <2>1. FetchOK' /\ Ahead' /\ WordOK' /\ Tell + n > Len(source)
    BY <1>1, <1>3, <1>4, <1>6, TakeFailsSteps
  <2>2. Ends
    BY <1>6 DEF TakeFails
  <2> QED
    BY <1>2, <1>3, <1>4, <2>1, <2>2, EndsInv
<1> QED
  BY <1>5, <1>6 DEF ReadBits

\* The word is what the buffer has lost and the cursor has not passed.
Told == Tell = Base - Len(word) /\ Base \in Int

LEMMA TellIsNext ==
  FetchOK' /\ WordOK' => Tell' = Base' - Len(word') /\ Base' \in Int
<1>1. FetchOK /\ WordOK => Told
  BY TellIs, FetchTypes DEF Told
<1>2. FetchOK' /\ WordOK' => Told'
  BY <1>1, PTL
<1> QED
  BY <1>2 DEF Told

LEMMA BeginInv ==
  ASSUME InInv, NEW n \in 1..MaxAsked, MayCall(n), UNCHANGED bytesVars,
         FetchOK', Ahead', WordOK', IsAt(word', source, Tell'), Tell' = Tell,
         NEW l \in {"empty", "words", "bytes"}, Begin(n, l)
  PROVE  InInv'
<1>1. /\ source' = source /\ opened' = opened
  BY DEF bytesVars
<1>2. /\ MaxAsked \in Nat /\ n \in Nat /\ n \in 0..MaxAsked
  BY InAssumption
<1>3. /\ opened = 1 /\ start' = Tell /\ asked' = n
      /\ Tell \in 0..Len(source)
      /\ IsAt(<<>>, source, Tell)
  BY <1>2, CallBegins
<1>4. inLoop' = l /\ todo' = n /\ got' = <<>> /\ answer' = "none"
  BY DEF Begin
<1>5. <<>> \in Seq(Nat) /\ Len(<<>>) = 0
  OBVIOUS
<1>6. InTypeOK'
  BY <1>1, <1>2, <1>3, <1>4, <1>5 DEF InTypeOK, FetchOK, WordOK, InInv
<1>7. Cursor'
  BY <1>1 DEF Cursor
<1>8. Reading'
  <2>1. todo' <= asked' /\ Len(got') = asked' - todo'
    BY <1>2, <1>3, <1>4, <1>5
  <2>2. Tell' = start' + Len(got')
    <3>1. Tell \in Nat
      BY <1>3 DEF IsAt
    <3> QED
      BY <1>3, <1>4, <1>5, <3>1
  <2>3. IsAt(got', source', start')
    BY <1>1, <1>3, <1>4
  <2> QED
    BY <1>4, <2>1, <2>2, <2>3 DEF Reading
<1>9. ReadsExact'
  BY <1>4 DEF ReadsExact
<1> QED
  BY <1>1, <1>3, <1>6, <1>7, <1>8, <1>9 DEF InInv

LEMMA ReadArrayInv ==
  ASSUME InInv, NEW n \in 1..MaxAsked, ReadArray(n)
  PROVE  InInv'
<1>1. /\ FetchOK /\ WordOK /\ Ahead /\ source \in Seq(Nat)
      /\ Len(source) \in Nat /\ WordBits \in Nat \ {0}
      /\ Base \in Int /\ Tell = Base - Len(word)
  BY InInvIs
<1>2. n \in Nat /\ n >= 1
  BY InAssumption
<1>3. MayCall(n) /\ UNCHANGED bytesVars
  BY DEF ReadArray
<1>4. /\ opened = 1 /\ inLoop = "none"
      /\ start' = Tell /\ asked' = n
      /\ Tell \in 0..Len(source) /\ Tell \in Nat
      /\ IsAt(word, source, Tell)
  BY <1>1, <1>2, <1>3, CallBegins
<1>5. /\ IsAt(Pulled, source, Base) /\ Pulled \in Seq(Nat)
      /\ Len(Pulled) \in Nat /\ Len(Pulled) <= WordBits
      /\ Len(Pulled) < WordBits => Base + Len(Pulled) = Len(source)
  BY <1>1, PulledAt DEF IsAt
<1>6. CASE /\ word = <<>> /\ Pulled # <<>> /\ Pull /\ word' = Pulled
           /\ Begin(n, "empty")
  <2>1. FetchOK' /\ Ahead' /\ Base' = Base + Len(Pulled)
    BY <1>1, <1>3, <1>6, PullSteps
  <2>2. WordOK'
    BY <1>5, <1>6 DEF WordOK
  <2>3. Tell' = Tell
    <3>1. Tell' = Base' - Len(word') /\ Len(word') = Len(Pulled)
      BY <1>6, <2>1, <2>2, TellIsNext
    <3>2. Tell = Base
      BY <1>1, <1>6
    <3> QED
      BY <1>1, <1>5, <2>1, <3>1, <3>2
  <2>4. IsAt(word', source, Tell')
    BY <1>1, <1>5, <1>6, <2>3
  <2> QED
    BY <1>3, <1>6, <2>1, <2>2, <2>3, <2>4, BeginInv
<1>7. CASE word = <<>> /\ Pulled = <<>> /\ Pull /\ Ends /\ UNCHANGED word
  <2>1. FetchOK' /\ Ahead'
    BY <1>1, <1>3, <1>7, PullSteps
  <2>2. WordOK'
    BY <1>1, <1>7 DEF WordOK
  <2>3. Base = Len(source)
    BY <1>1, <1>5, <1>7
  <2>4. start' + asked' > Len(source)
    BY <1>1, <1>2, <1>4, <1>7, <2>3
  <2> QED
    BY <1>2, <1>3, <1>4, <1>7, <2>1, <2>2, <2>4, EndsInv
<1>8. CASE /\ word # <<>>
           /\ Begin(n, IF Len(word) % ByteBits = 0 THEN "empty"
                       ELSE IF n >= WordBits THEN "words" ELSE "bytes")
           /\ UNCHANGED <<fetchVars, word>>
  <2>1. UNCHANGED <<fetched, chunk, position, word, source>>
    BY <1>3, <1>8 DEF bytesVars, fetchVars
  <2>2. FetchOK' /\ WordOK' /\ Ahead' /\ Tell' = Tell
    BY <1>1, <2>1 DEF FetchOK, WordOK, Ahead, Base, Left, Tell
  <2>3. IsAt(word', source, Tell')
    BY <1>4, <2>1, <2>2
  <2>4. PICK l \in {"empty", "words", "bytes"} : Begin(n, l)
    <3>1. CASE Len(word) % ByteBits = 0
      BY <1>8, <3>1
    <3>2. CASE Len(word) % ByteBits # 0 /\ n >= WordBits
      BY <1>8, <3>2
    <3>3. CASE Len(word) % ByteBits # 0 /\ ~(n >= WordBits)
      BY <1>8, <3>3
    <3> QED
      BY <3>1, <3>2, <3>3
  <2> QED
    BY <1>3, <2>2, <2>3, <2>4, BeginInv
<1> QED
  BY <1>6, <1>7, <1>8 DEF ReadArray

LEMMA InCall ==
  ASSUME InInv, inLoop # "none"
  PROVE  /\ Reading /\ opened = 1
         /\ todo \in Nat /\ start \in 0..Len(source) /\ start \in Nat
         /\ asked \in Nat
         /\ IsAt(word, source, Tell)
         /\ IsAt(got, source, start) /\ Len(got) \in Nat
         /\ Tell = start + Len(got) /\ Len(got) = asked - todo
         /\ todo <= asked /\ Tell \in Nat
<1>1. Reading /\ opened = 1 /\ todo \in Nat /\ start \in 0..Len(source)
      /\ asked \in Nat
  BY InAssumption DEF InInv, InTypeOK, Unopened
<1>2. /\ (answer # "end" => IsAt(word, source, Tell)) /\ Len(source) \in Nat
  BY InInvIs
<1>3. /\ answer = "none" /\ IsAt(got, source, start)
      /\ Tell = start + Len(got) /\ Len(got) = asked - todo /\ todo <= asked
  BY <1>1 DEF Reading
<1>4. Len(got) \in Nat
  BY <1>3, LenProperties DEF IsAt
<1> QED
  BY <1>1, <1>2, <1>3, <1>4

LEMMA ContinueInv ==
  ASSUME InInv, inLoop # "none", NEW l \in {"copy", "bytes"}, Continue(l),
         l = "copy" => word = <<>> \/ todo < ByteBits
  PROVE  InInv'
<1>1. /\ FetchOK /\ WordOK /\ Ahead
  BY InInvIs
<1>2. /\ todo \in Nat /\ IsAt(word, source, Tell)
      /\ IsAt(got, source, start) /\ Len(got) \in Nat /\ Tell \in Nat
  BY InCall
<1>3. /\ inLoop' = l /\ UNCHANGED bytesVars
      /\ UNCHANGED <<fetched, chunk, position, word, source, todo, got>>
      /\ UNCHANGED <<start, asked, answer>>
  BY DEF Continue, bytesVars, fetchVars
<1>4. FetchOK' /\ WordOK' /\ Ahead' /\ Tell' = Tell
  BY <1>1, <1>3 DEF FetchOK, WordOK, Ahead, Base, Left, Tell
<1>5. /\ 0 \in 0..todo /\ todo' = todo - 0 /\ Len(got') = Len(got) + 0
      /\ Tell' = Tell + 0
  BY <1>2, <1>3, <1>4
<1>6. IsAt(word', source, Tell') /\ IsAt(got', source, start)
  BY <1>2, <1>3, <1>4
<1> QED
  BY <1>3, <1>4, <1>5, <1>6, LoopInv

LEMMA EmptyInv ==
  ASSUME InInv, Empty
  PROVE  InInv'
<1>1. inLoop = "empty"
  BY DEF Empty
<1>2. /\ todo \in Nat /\ ByteBits \in Nat \ {0} /\ WordBits \in Nat
      /\ ByteBits <= WordBits
  BY <1>1, InCall, InInvIs
<1>3. CASE word # <<>> /\ todo >= ByteBits
  <2>1. TakeInLoop(ByteBits) /\ ByteBits \in 1..WordBits /\ ByteBits <= todo
    BY <1>2, <1>3 DEF Empty
  <2> QED
    BY <1>1, <2>1, TakeInLoopInv
<1>4. CASE ~(word # <<>> /\ todo >= ByteBits)
  <2>1. Continue("copy") /\ (word = <<>> \/ todo < ByteBits)
    BY <1>2, <1>4 DEF Empty
  <2> QED
    BY <1>1, <2>1, ContinueInv
<1> QED
  BY <1>3, <1>4

LEMMA OneWordInInv ==
  ASSUME InInv, OneWordIn
  PROVE  InInv'
<1>1. inLoop = "words" /\ todo >= WordBits /\ TakeInLoop(WordBits)
  BY DEF OneWordIn
<1>2. todo \in Nat /\ WordBits \in Nat \ {0}
  BY <1>1, InCall, InInvIs
<1>3. WordBits \in 1..WordBits /\ WordBits <= todo
  BY <1>1, <1>2
<1> QED
  BY <1>1, <1>3, TakeInLoopInv

LEMMA WordsInOverInv ==
  ASSUME InInv, WordsInOver
  PROVE  InInv'
<1>1. inLoop = "words" /\ Continue("bytes")
  BY DEF WordsInOver
<1> QED
  BY <1>1, ContinueInv

LEMMA BytesInInv ==
  ASSUME InInv, BytesIn
  PROVE  InInv'
<1>1. inLoop = "bytes" /\ todo > 0 /\ TakeInLoop(Smaller(todo, ByteBits))
  BY DEF BytesIn
<1>2. /\ todo \in Nat /\ ByteBits \in Nat \ {0} /\ WordBits \in Nat
      /\ ByteBits <= WordBits
  BY <1>1, InCall, InInvIs
<1>3. Smaller(todo, ByteBits) \in 1..WordBits /\ Smaller(todo, ByteBits) <= todo
  BY <1>1, <1>2 DEF Smaller
<1> QED
  BY <1>1, <1>3, TakeInLoopInv

LEMMA ReturnedInv ==
  ASSUME InInv, Returned
  PROVE  InInv'
<1>1. /\ inLoop = "bytes" /\ todo = 0 /\ inLoop' = "none" /\ answer' = "bits"
      /\ UNCHANGED bytesVars
      /\ UNCHANGED <<fetched, chunk, position, word, source, todo, got>>
      /\ UNCHANGED <<start, asked>>
  BY DEF Returned, bytesVars, fetchVars
<1>2. FetchOK /\ WordOK /\ Ahead /\ source \in Seq(Nat)
  BY InInvIs
<1>3. /\ opened = 1
      /\ todo \in Nat /\ start \in 0..Len(source) /\ start \in Nat
      /\ asked \in Nat
      /\ IsAt(word, source, Tell)
      /\ IsAt(got, source, start) /\ Len(got) \in Nat
      /\ Tell = start + Len(got) /\ Len(got) = asked - todo
  BY <1>1, InCall
<1>4. FetchOK' /\ WordOK' /\ Ahead' /\ Tell' = Tell
  BY <1>1, <1>2 DEF FetchOK, WordOK, Ahead, Base, Left, Tell
<1>5. Cursor'
  BY <1>1, <1>3, <1>4 DEF Cursor
<1>6. got = SubSeq(source, start + 1, start + asked) /\ Tell = start + asked
  <2>1. Len(got) = asked
    BY <1>1, <1>3
  <2> QED
    BY <1>2, <1>3, <2>1, IsAtSame
<1>7. ReadsExact'
  BY <1>1, <1>4, <1>6 DEF ReadsExact
<1>8. todo' \in 0..MaxAsked /\ got' \in Seq(Nat) /\ start' \in 0..Len(source)
      /\ asked' \in Nat
  BY <1>1, <1>3 DEF InInv, InTypeOK
<1> QED
  BY <1>1, <1>3, <1>4, <1>5, <1>7, <1>8, RestInv

LEMMA CopyBufferInv ==
  ASSUME InInv, CopyBuffer
  PROVE  InInv'
<1>1. /\ inLoop = "copy" /\ BytesDown(todo) > Len(Left) /\ Refill(0)
      /\ UNCHANGED <<bytesVars, word, start, asked>>
  BY DEF CopyBuffer
<1>2. /\ FetchOK /\ WordOK /\ Ahead /\ source \in Seq(Nat)
      /\ Left \in Seq(Nat) /\ Len(Left) \in Nat
      /\ Base \in Int /\ Tell = Base - Len(word)
      /\ ByteBits \in Nat \ {0} /\ Len(source) \in Nat
  BY InInvIs
<1>3. /\ Reading /\ opened = 1
      /\ todo \in Nat /\ start \in 0..Len(source) /\ start \in Nat
      /\ asked \in Nat
      /\ IsAt(got, source, start) /\ Len(got) \in Nat
      /\ Tell = start + Len(got) /\ Len(got) = asked - todo
      /\ todo <= asked /\ Tell \in Nat
  BY <1>1, InCall
<1>4. /\ BytesDown(todo) \in Nat /\ BytesDown(todo) <= todo
      /\ todo < ByteBits => BytesDown(todo) = 0
  BY <1>3, Downs
<1>5. word = <<>> /\ Tell = Base /\ Len(Left) < todo
  <2>1. ~(todo < ByteBits)
    BY <1>1, <1>2, <1>4
  <2>2. word = <<>>
    BY <1>1, <1>3, <2>1 DEF Reading
  <2>3. Tell = Base
    BY <1>2, <2>2
  <2> QED
    BY <1>1, <1>2, <1>3, <1>4, <2>2, <2>3
<1>6. /\ Supply \in Seq(Nat) /\ Len(Supply) \in Nat
      /\ Len(Supply) = InBits \/ fetched + Len(Supply) = Len(source)
      /\ fetched \in Nat /\ fetched \in 0..Len(source)
  <2>1. fetched \in 0..Len(source) /\ fetched \in Nat
    BY <1>2 DEF FetchOK
  <2>2. IsAt(Supply, source, fetched)
        /\ (Len(Supply) = InBits \/ fetched + Len(Supply) = Len(source))
    BY <1>2, <2>1, IsAtSupply DEF Supply
  <2> QED
    BY <2>1, <2>2, LenProperties DEF IsAt
<1>7. FetchOK' /\ Ahead' /\ Base' = fetched
  <2>1. 0 \in 0..Len(Supply) /\ WholeWords(0)
    BY <1>6, WholeWordsBasics
  <2>2. FetchOK' /\ Ahead' /\ Base' = fetched + 0
    BY <1>1, <1>2, <2>1, RefillSteps
  <2> QED
    BY <1>6, <2>2
<1>8. WordOK' /\ word' = <<>>
  BY <1>1, <1>2, <1>5 DEF WordOK
<1>9. /\ Base = fetched - Len(Left)
      /\ Tell' = Tell + Len(Left) /\ Tell' = fetched
  <2>1. Tell' = Base' - Len(word') /\ Len(word') = 0
    BY <1>7, <1>8, TellIsNext
  <2>2. Tell' = fetched
    BY <1>6, <1>7, <2>1
  <2>3. Base = fetched - Len(Left)
    BY DEF Base
  <2> QED
    BY <1>2, <1>5, <1>6, <2>2, <2>3
<1>10. CASE Supply = <<>>
  <2>1. Ends /\ start' = start /\ asked' = asked
    BY <1>1, <1>10 DEF CopyBuffer
  <2>2. fetched = Len(source)
    <3>1. Len(Supply) = 0 /\ InBits # 0
      BY <1>10, InBitsType, WordBitsType
    <3> QED
      BY <1>6, <3>1
  <2>3. start' + asked' > Len(source)
    BY <1>2, <1>3, <1>5, <1>6, <1>9, <2>1, <2>2
  <2> QED
    BY <1>1, <1>3, <1>7, <1>8, <2>1, <2>3, EndsInv
<1>11. CASE Supply # <<>>
  <2>1. /\ got' = got \o Left
        /\ todo' = todo - Len(Left)
        /\ inLoop' \in {"rest", "copy"}
        /\ UNCHANGED answer
    BY <1>11 DEF CopyBuffer
  <2>2. IsAt(Left, source, Base) /\ Base = start + Len(got)
    BY <1>2, <1>3, <1>5 DEF Ahead
  <2>3. IsAt(got', source, start) /\ Len(got') = Len(got) + Len(Left)
    BY <1>2, <1>3, <2>1, <2>2, IsAtJoin
  <2>4. IsAt(word', source, Tell')
    BY <1>2, <1>6, <1>8, <1>9, IsAtNothing
  <2>5. Len(Left) \in 0..todo
    BY <1>2, <1>3, <1>5
  <2>6. UNCHANGED <<bytesVars, start, asked, answer>>
    BY <1>1, <2>1
  <2> QED
    BY <1>1, <1>7, <1>8, <1>9, <2>1, <2>3, <2>4, <2>5, <2>6, LoopInv
<1> QED
  BY <1>10, <1>11

LEMMA CopyRestInv ==
  ASSUME InInv, CopyRest
  PROVE  InInv'
<1> DEFINE r == Smaller(WordsDown(todo), Len(Left))
<1>1. /\ inLoop \in {"copy", "rest"}
      /\ got' = got \o First(r, Left)
      /\ position' = position + r
      /\ todo' = todo - r
      /\ inLoop' = "bytes"
      /\ UNCHANGED bytesVars
      /\ UNCHANGED <<bytesVars, fetched, chunk>>
      /\ UNCHANGED <<bytesVars, start, asked, answer>>
      /\ word' = word
  BY DEF CopyRest
<1>2. /\ FetchOK /\ WordOK /\ Ahead /\ source \in Seq(Nat)
      /\ Left \in Seq(Nat) /\ Len(Left) \in Nat
      /\ Base \in Int /\ Tell = Base - Len(word)
      /\ Len(source) \in Nat /\ word \in Seq(Nat) /\ Len(word) \in Nat
  BY InInvIs
<1>3. /\ Reading /\ opened = 1
      /\ todo \in Nat /\ start \in Nat
      /\ IsAt(word, source, Tell)
      /\ IsAt(got, source, start) /\ Len(got) \in Nat
      /\ Tell = start + Len(got) /\ Tell \in Nat
  BY <1>1, InCall
<1>4. /\ WordsDown(todo) \in Nat /\ WholeWords(WordsDown(todo))
      /\ WordsDown(todo) <= todo
      /\ todo < ByteBits => WordsDown(todo) = 0
  <2>1. /\ WordsDown(todo) \in Nat /\ WholeWords(WordsDown(todo))
        /\ WordsDown(todo) <= BytesDown(todo)
        /\ BytesDown(todo) \in Nat /\ BytesDown(todo) <= todo
        /\ todo < ByteBits => BytesDown(todo) = 0
    BY <1>3, Downs
  <2>2. WordsDown(todo) <= todo
    BY <1>3, <2>1
  <2>3. todo < ByteBits => WordsDown(todo) = 0
    BY <2>1
  <2> QED
    BY <2>1, <2>2, <2>3
<1>5. /\ r \in Nat /\ r <= todo /\ r <= Len(Left)
      /\ WholeWords(r) \/ r = Len(Left)
      /\ todo < ByteBits => r = 0
  <2>1. /\ r \in Nat /\ r <= WordsDown(todo) /\ r <= Len(Left)
        /\ r = WordsDown(todo) \/ r = Len(Left)
    BY <1>2, <1>4, SmallerType
  <2> HIDE DEF r
  <2>2. r <= todo
    BY <1>3, <1>4, <2>1
  <2>3. WholeWords(r) \/ r = Len(Left)
    BY <1>4, <2>1
  <2>4. todo < ByteBits => r = 0
    BY <1>4, <2>1
  <2> QED
    BY <2>1, <2>2, <2>3, <2>4
<1> HIDE DEF r
<1>6. r \in 0..todo /\ r \in 0..Len(Left)
  BY <1>2, <1>3, <1>5
<1>7. FetchOK' /\ Ahead' /\ Base' = Base + r
  BY <1>1, <1>2, <1>5, <1>6, PassSteps
<1>8. WordOK'
  BY <1>1, <1>2 DEF WordOK
<1>9. Tell' = Tell + r
  <2>1. Tell' = Base' - Len(word') /\ Len(word') = Len(word)
    BY <1>1, <1>7, <1>8, TellIsNext
  <2> QED
    BY <1>2, <1>5, <1>7, <2>1
<1>10. /\ IsAt(First(r, Left), source, Base) /\ Len(First(r, Left)) = r
       /\ First(r, Left) \in Seq(Nat)
       /\ Base + r <= Len(source)
  <2>1. IsAt(Left, source, Base)
    BY <1>2 DEF Ahead
  <2>2. IsAt(First(r, Left), source, Base) /\ Len(First(r, Left)) = r
    BY <1>2, <1>6, <2>1, IsAtSplit
  <2> QED
    BY <2>2 DEF IsAt
<1>11. CASE word = <<>>
  <2>1. Base = Tell /\ Base = start + Len(got)
    BY <1>2, <1>3, <1>11
  <2>2. IsAt(got', source, start) /\ Len(got') = Len(got) + r
    BY <1>1, <1>2, <1>3, <1>10, <2>1, IsAtJoin
  <2>3. Tell' \in 0..Len(source)
    BY <1>2, <1>3, <1>5, <1>9, <1>10, <2>1
  <2>4. IsAt(word', source, Tell')
    BY <1>1, <1>2, <1>11, <2>3, IsAtNothing
  <2> QED
    BY <1>1, <1>6, <1>7, <1>8, <1>9, <2>2, <2>4, LoopInv
<1>12. CASE word # <<>>
  <2>1. r = 0
    BY <1>1, <1>3, <1>5, <1>12 DEF Reading
  <2>2. got' = got
    <3>1. First(r, Left) = <<>>
      BY <1>10, <2>1
    <3> QED
      BY <1>1, <1>3, <3>1, ConcatEmptySeq DEF IsAt
  <2>3. IsAt(got', source, start) /\ Len(got') = Len(got) + r
    BY <1>3, <2>1, <2>2
  <2>4. Tell' = Tell
    BY <1>3, <1>9, <2>1
  <2>5. IsAt(word', source, Tell')
    BY <1>1, <1>3, <2>4
  <2> QED
    BY <1>1, <1>6, <1>7, <1>8, <1>9, <2>3, <2>5, LoopInv
<1> QED
  BY <1>11, <1>12

LEMMA FourWordsInInv ==
  ASSUME InInv, FourWordsIn
  PROVE  InInv'
<1> DEFINE f == First(InFour, Left)
           all == word \o f
<1>1. /\ inLoop = "words" /\ inLoop' = "words"
      /\ todo >= InFour /\ Len(Left) > InFour
      /\ got' = got \o First(InFour, all)
      /\ word' = Behind(InFour, all)
      /\ position' = position + InFour
      /\ todo' = todo - InFour
      /\ UNCHANGED <<bytesVars, fetched, chunk>>
      /\ UNCHANGED <<bytesVars, start, asked, answer>>
  BY DEF FourWordsIn
<1>2. /\ FetchOK /\ WordOK /\ Ahead /\ source \in Seq(Nat)
      /\ Left \in Seq(Nat) /\ Len(Left) \in Nat
      /\ Base \in Int /\ Tell = Base - Len(word)
      /\ Len(source) \in Nat /\ word \in Seq(Nat) /\ Len(word) \in Nat
  BY InInvIs
<1>3. /\ todo \in Nat /\ start \in Nat
      /\ IsAt(word, source, Tell)
      /\ IsAt(got, source, start) /\ Len(got) \in Nat
      /\ Tell = start + Len(got) /\ Tell \in Nat
  BY <1>1, InCall
<1>4. InFour \in Nat /\ WholeWords(InFour)
  BY InBitsType, WholeWordsBasics DEF Four, InFour
<1>5. InFour \in 0..Len(Left) /\ InFour \in 0..todo
  BY <1>1, <1>2, <1>3, <1>4
<1>6. FetchOK' /\ Ahead' /\ Base' = Base + InFour
  BY <1>1, <1>2, <1>4, <1>5, PassSteps
<1>7. IsAt(f, source, Base) /\ Len(f) = InFour
  <2>1. IsAt(Left, source, Base)
    BY <1>2 DEF Ahead
  <2> QED
    BY <1>2, <1>5, <2>1, IsAtSplit
<1> HIDE DEF f
<1>8. IsAt(all, source, Tell) /\ Len(all) = Len(word) + InFour
  <2>1. Base = Tell + Len(word)
    BY <1>2
  <2> QED
    BY <1>2, <1>3, <1>7, <2>1, IsAtJoin
<1> HIDE DEF all
<1>9. /\ IsAt(First(InFour, all), source, Tell)
      /\ Len(First(InFour, all)) = InFour
      /\ IsAt(Behind(InFour, all), source, Tell + InFour)
      /\ Len(Behind(InFour, all)) = Len(word)
  <2>1. InFour \in 0..Len(all)
    BY <1>2, <1>4, <1>8
  <2>2. /\ IsAt(First(InFour, all), source, Tell)
        /\ Len(First(InFour, all)) = InFour
        /\ IsAt(Behind(InFour, all), source, Tell + InFour)
        /\ Len(Behind(InFour, all)) = Len(all) - InFour
    BY <1>2, <1>8, <2>1, IsAtSplit
  <2> QED
    BY <1>2, <1>4, <1>8, <2>2
<1>10. WordOK' /\ Len(word') = Len(word)
  BY <1>1, <1>2, <1>9 DEF WordOK, IsAt
<1>11. Tell' = Tell + InFour
  <2>1. Tell' = Base' - Len(word')
    BY <1>6, <1>10, TellIsNext
  <2> QED
    BY <1>2, <1>4, <1>6, <1>10, <2>1
<1>12. IsAt(got', source, start) /\ Len(got') = Len(got) + InFour
  BY <1>1, <1>2, <1>3, <1>9, IsAtJoin
<1>13. IsAt(word', source, Tell')
  BY <1>1, <1>9, <1>11
<1> QED
  BY <1>1, <1>5, <1>6, <1>10, <1>11, <1>12, <1>13, LoopInv

\* A buffer of which a word has been taken.
LEMMA SeekInv ==
  ASSUME InInv, NEW p \in 0..Len(source), Seek(p)
  PROVE  InInv'
<1> DEFINE byte == BytesDown(p)
           off  == p % ByteBits
           bits == SupplyFrom(byte)
           m    == Smaller(WordBits, Len(bits))
<1>1. /\ opened = 1 /\ inLoop = "none"
      /\ start' = p /\ asked' = 0 /\ got' = <<>> /\ answer' = "bits"
      /\ inLoop' = "none" /\ todo' = todo /\ UNCHANGED bytesVars
      /\ source' = source
  BY DEF Seek, bytesVars
<1>2. /\ source \in Seq(Nat) /\ Len(source) \in Nat
      /\ WordBits \in Nat \ {0} /\ ByteBits \in Nat \ {0}
      /\ ByteBits <= WordBits
      /\ InBits \in Nat /\ WholeWords(InBits) /\ InBits >= WordBits
      /\ p \in Nat /\ p <= Len(source)
  BY InInvIs, InBitsType
<1>3. /\ byte \in Nat /\ byte <= p /\ p = byte + off
      /\ off \in Nat /\ off < ByteBits
  <2>1. byte \in Nat /\ byte <= p
    BY <1>2, Downs
  <2>2. off \in Nat /\ off < ByteBits
    BY <1>2
  <2>3. off = p - ByteBits * (p \div ByteBits)
    BY <1>2
  <2>4. p \div ByteBits \in Nat
    BY <1>2
  <2>5. ByteBits * (p \div ByteBits) = (p \div ByteBits) * ByteBits
    BY <1>2, <2>4
  <2>6. off = p - byte
    BY <2>3, <2>5 DEF BytesDown
  <2> HIDE DEF byte, off
  <2> QED
    BY <1>2, <2>1, <2>2, <2>6
<1>4. IF off = 0
        THEN fetched' = byte /\ chunk' = <<>> /\ position' = 0 /\ word' = <<>>
        ELSE /\ fetched' = byte + Len(bits)
             /\ chunk' = bits
             /\ position' = Len(WordOf(bits))
             /\ word' = Behind(off, WordOf(bits))
  BY DEF Seek
<1> HIDE DEF byte, off
<1>5. /\ FetchOK' /\ Ahead' /\ WordOK' /\ Tell' = p /\ IsAt(word', source, p)
  <2>1. CASE off = 0
    <3>1. /\ fetched' = byte /\ chunk' = <<>> /\ position' = 0 /\ word' = <<>>
          /\ byte = p
      BY <1>2, <1>3, <1>4, <2>1
    <3>2. Left' = <<>>
      <4>1. Left' = Behind(position', chunk')
        BY DEF Left
      <4>2. <<>> \in Seq(Nat) /\ 0 \in 0..Len(<<>>)
        OBVIOUS
      <4>3. /\ Behind(0, <<>>) \in Seq(Nat)
            /\ Len(Behind(0, <<>>)) = Len(<<>>) - 0
        BY <4>2, SplitAt
      <4> QED
        BY <3>1, <4>1, <4>3, EmptySeq
    <3>3. FetchOK'
      BY <1>1, <1>2, <1>3, <3>1 DEF FetchOK
    <3>4. IsAt(<<>>, source, p)
      BY <1>2, IsAtNothing
    <3>5. Base' = p
      BY <1>2, <3>1, <3>2 DEF Base
    <3>6. Ahead'
      <4>1. Len(<<>>) = 0
        OBVIOUS
      <4> QED
        BY <1>1, <3>2, <3>4, <3>5, <4>1, WholeWordsBasics DEF Ahead
    <3>7. WordOK'
      BY <1>2, <3>1 DEF WordOK
    <3>8. Tell' = p
      <4>1. Tell' = Base' - Len(word') /\ Len(word') = 0
        BY <3>1, <3>3, <3>7, TellIsNext
      <4> QED
        BY <1>2, <3>5, <4>1
    <3> QED
      BY <3>1, <3>3, <3>4, <3>6, <3>7, <3>8
  <2>2. CASE off # 0
    <3>1. /\ fetched' = byte + Len(bits)
          /\ chunk' = bits
          /\ position' = Len(WordOf(bits))
          /\ word' = Behind(off, WordOf(bits))
      BY <1>4, <2>2
    <3>2. /\ IsAt(bits, source, byte) /\ Len(bits) <= InBits
          /\ Len(bits) = InBits \/ byte + Len(bits) = Len(source)
      <4>1. byte \in 0..Len(source)
        BY <1>2, <1>3
      <4> QED
        BY <1>2, <4>1, IsAtSupply
    <3> HIDE DEF bits
    <3>3. /\ bits \in Seq(Nat) /\ Len(bits) \in Nat
          /\ byte + Len(bits) <= Len(source)
      BY <3>2, LenProperties DEF IsAt
    <3>4. /\ m \in Nat /\ m <= WordBits /\ m <= Len(bits)
          /\ m = WordBits \/ m = Len(bits)
      BY <1>2, <3>3, SmallerType
    <3>5. WordOf(bits) = First(m, bits)
      BY DEF WordOf
    <3> HIDE DEF m
    <3>6. off <= m
      BY <1>2, <1>3, <3>2, <3>3, <3>4
    <3>7. /\ IsAt(First(m, bits), source, byte) /\ Len(First(m, bits)) = m
          /\ IsAt(Behind(m, bits), source, byte + m)
          /\ Len(Behind(m, bits)) = Len(bits) - m
      <4>1. m \in 0..Len(bits)
        BY <3>3, <3>4
      <4> QED
        BY <1>2, <3>2, <4>1, IsAtSplit
    <3>8. /\ IsAt(word', source, byte + off)
          /\ Len(word') = m - off
      <4>1. off \in 0..Len(First(m, bits))
        BY <1>3, <3>4, <3>6, <3>7
      <4>2. /\ IsAt(Behind(off, First(m, bits)), source, byte + off)
            /\ Len(Behind(off, First(m, bits))) = Len(First(m, bits)) - off
        BY <1>2, <3>7, <4>1, IsAtSplit
      <4> QED
        BY <3>1, <3>5, <3>7, <4>2
    <3>9. position' = m
      BY <3>1, <3>5, <3>7
    <3>10. FetchOK'
      BY <1>1, <1>2, <1>3, <3>1, <3>2, <3>3, <3>4, <3>9 DEF FetchOK
    <3>11. Left' = Behind(m, bits)
      BY <3>1, <3>9 DEF Left
    <3>12. Base' = byte + m
      <4>1. Base' = fetched' - Len(Left')
        BY DEF Base
      <4> QED
        BY <1>3, <3>1, <3>3, <3>4, <3>7, <3>11, <4>1
    <3>13. fetched' = Len(source) \/ WholeWords(Len(bits) - m)
      <4>1. CASE m = Len(bits)
        <5>1. Len(bits) - m = 0
          BY <3>3, <4>1
        <5> QED
          BY <5>1, WholeWordsBasics
      <4>2. CASE m = WordBits /\ Len(bits) = InBits
        BY <1>2, <4>2, WholeWordsBasics, WholeWordsMinus
      <4> QED
        BY <3>1, <3>2, <3>4, <4>1, <4>2
    <3>14. Ahead'
      BY <1>1, <3>7, <3>11, <3>12, <3>13 DEF Ahead
    <3>15. WordOK'
      BY <1>2, <1>3, <3>4, <3>6, <3>8 DEF WordOK, IsAt
    <3>16. Tell' = p
      <4>1. Tell' = Base' - Len(word')
        BY <3>10, <3>15, TellIsNext
      <4> QED
        BY <1>2, <1>3, <3>4, <3>8, <3>12, <4>1
    <3> QED
      BY <1>3, <3>8, <3>10, <3>14, <3>15, <3>16
  <2> QED
    BY <2>1, <2>2
<1>6. Cursor'
  BY <1>1, <1>5 DEF Cursor
<1>7. <<>> = SubSeq(source, p + 1, p + 0)
  <2>1. IsAt(<<>>, source, p) /\ Len(<<>>) = 0
    BY <1>2, IsAtNothing
  <2> QED
    BY <1>2, <2>1, IsAtSame
<1>8. p = p + 0
  BY <1>2
<1>9. ReadsExact'
  BY <1>1, <1>5, <1>7, <1>8 DEF ReadsExact
<1>10. todo' \in 0..MaxAsked /\ got' \in Seq(Nat) /\ start' \in 0..Len(source)
  BY <1>1 DEF InInv, InTypeOK
<1>11. asked' \in Nat
  BY <1>1
<1> QED
  BY <1>1, <1>5, <1>6, <1>9, <1>10, <1>11, RestInv

LEMMA HasMoreToReadInv ==
  ASSUME InInv, HasMoreToRead
  PROVE  InInv'
<1>1. /\ opened = 1 /\ inLoop = "none" /\ answer # "end"
      /\ inLoop' = inLoop /\ todo' = todo /\ got' = got /\ start' = start
      /\ asked' = asked /\ UNCHANGED bytesVars /\ source' = source
      /\ word' = word
  BY DEF HasMoreToRead, bytesVars
<1>2. /\ FetchOK /\ WordOK /\ Ahead /\ source \in Seq(Nat)
      /\ Left \in Seq(Nat) /\ Len(Left) \in Nat
      /\ Base \in Int /\ Tell = Base - Len(word)
      /\ Len(source) \in Nat /\ word \in Seq(Nat) /\ Len(word) \in Nat
      /\ IsAt(word, source, Tell) /\ Tell \in Nat
  BY <1>1, InInvIs DEF IsAt
<1>3. /\ todo' \in 0..MaxAsked /\ got' \in Seq(Nat)
      /\ start' \in 0..Len(source) /\ asked' \in Nat
  BY <1>1 DEF InInv, InTypeOK
<1>4. CASE Left # <<>> \/ word # <<>>
  <2>1. answer' = "more" /\ UNCHANGED <<fetched, chunk, position>>
    BY <1>4 DEF HasMoreToRead, fetchVars
  <2>2. FetchOK' /\ WordOK' /\ Ahead' /\ Tell' = Tell
    BY <1>1, <1>2, <2>1 DEF FetchOK, WordOK, Ahead, Base, Left, Tell
  <2>3. Cursor'
    BY <1>1, <1>2, <2>2 DEF Cursor
  <2>4. Tell < Len(source)
    <3>1. Tell + Len(word) <= Len(source) /\ Base + Len(Left) <= Len(source)
      BY <1>2 DEF Ahead, IsAt
    <3>2. Len(word) > 0 \/ Len(Left) > 0
      BY <1>2, <1>4, EmptySeq
    <3> QED
      BY <1>2, <3>1, <3>2
  <2>5. ReadsExact'
    BY <1>1, <2>1, <2>2, <2>4 DEF ReadsExact
  <2> QED
    BY <1>1, <1>3, <2>1, <2>2, <2>3, <2>5, RestInv
<1>5. CASE Left = <<>> /\ word = <<>>
  <2>1. /\ Refill(0)
        /\ answer' = IF Supply = <<>> THEN "nomore" ELSE "more"
    BY <1>5 DEF HasMoreToRead
  <2>2. /\ Supply \in Seq(Nat) /\ Len(Supply) \in Nat
        /\ Len(Supply) = InBits \/ fetched + Len(Supply) = Len(source)
        /\ fetched + Len(Supply) <= Len(source)
        /\ fetched \in Nat /\ fetched \in 0..Len(source)
    <3>1. fetched \in 0..Len(source) /\ fetched \in Nat
      BY <1>2 DEF FetchOK
    <3>2. IsAt(Supply, source, fetched)
          /\ (Len(Supply) = InBits \/ fetched + Len(Supply) = Len(source))
      BY <1>2, <3>1, IsAtSupply DEF Supply
    <3> QED
      BY <3>1, <3>2, LenProperties DEF IsAt
  <2>3. FetchOK' /\ Ahead' /\ Base' = fetched
    <3>1. 0 \in 0..Len(Supply) /\ WholeWords(0)
      BY <2>2, WholeWordsBasics
    <3>2. FetchOK' /\ Ahead' /\ Base' = fetched + 0
      BY <1>1, <1>2, <2>1, <3>1, RefillSteps
    <3> QED
      BY <2>2, <3>2
  <2>4. WordOK' /\ word' = <<>>
    BY <1>1, <1>2, <1>5 DEF WordOK
  <2>5. Tell' = fetched
    <3>1. Tell' = Base' - Len(word') /\ Len(word') = 0
      BY <2>3, <2>4, TellIsNext
    <3> QED
      BY <2>2, <2>3, <3>1
  <2>6. Cursor'
    <3>1. IsAt(<<>>, source, fetched)
      BY <1>2, <2>2, IsAtNothing
    <3> QED
      BY <1>1, <2>4, <2>5, <3>1 DEF Cursor
  <2>7. ReadsExact'
    <3>1. CASE Supply = <<>>
      <4>1. answer' = "nomore"
        BY <2>1, <3>1
      <4>2. fetched = Len(source)
        <5>1. Len(Supply) = 0 /\ InBits # 0
          BY <3>1, InBitsType, WordBitsType
        <5> QED
          BY <2>2, <5>1
      <4> QED
        BY <1>1, <2>5, <4>1, <4>2 DEF ReadsExact
    <3>2. CASE Supply # <<>>
      <4>1. answer' = "more"
        BY <2>1, <3>2
      <4>2. Len(Supply) > 0
        BY <2>2, <3>2, EmptySeq
      <4>3. fetched < Len(source)
        BY <1>2, <2>2, <4>2
      <4> QED
        BY <1>1, <2>5, <4>1, <4>3 DEF ReadsExact
    <3> QED
      BY <3>1, <3>2
  <2>8. answer' \in {"more", "nomore"}
    BY <2>1
  <2> QED
    BY <1>1, <1>3, <2>3, <2>4, <2>6, <2>7, <2>8, RestInv
<1> QED
  BY <1>4, <1>5

LEMMA InInvNext == InInv /\ InNext => InInv'
<1> SUFFICES ASSUME InInv, InNext PROVE InInv'
  OBVIOUS
<1>1. ASSUME NEW n \in 1..WordBits, ReadBits(n) PROVE InInv'
  BY <1>1, ReadBitsInv
<1>2. ASSUME NEW n \in 1..MaxAsked, ReadArray(n) PROVE InInv'
  BY <1>2, ReadArrayInv
<1>3. CASE Empty
  BY <1>3, EmptyInv
<1>4. CASE CopyBuffer
  BY <1>4, CopyBufferInv
<1>5. CASE CopyRest
  BY <1>5, CopyRestInv
<1>6. CASE FourWordsIn
  BY <1>6, FourWordsInInv
<1>7. CASE OneWordIn
  BY <1>7, OneWordInInv
<1>8. CASE WordsInOver
  BY <1>8, WordsInOverInv
<1>9. CASE BytesIn
  BY <1>9, BytesInInv
<1>10. CASE Returned
  BY <1>10, ReturnedInv
<1>11. ASSUME NEW p \in 0..Smaller(MaxSeek, Len(source)), Seek(p) PROVE InInv'
  <2>1. Smaller(MaxSeek, Len(source)) \in Nat
        /\ Smaller(MaxSeek, Len(source)) <= Len(source)
        /\ Len(source) \in Nat
    BY InInvIs, InAssumption, SmallerType
  <2>2. p \in 0..Len(source)
    BY <2>1
  <2> QED
    BY <1>11, <2>2, SeekInv
<1>12. CASE HasMoreToRead
  BY <1>12, HasMoreToReadInv
<1> QED
  BY <1>1, <1>2, <1>3, <1>4, <1>5, <1>6, <1>7, <1>8, <1>9, <1>10, <1>11,
     <1>12 DEF InNext

-----------------------------------------------------------------------------
(* Writing and reading.                                                    *)

LEMMA InInvInit == InInit => InInv
<1> SUFFICES ASSUME InInit PROVE InInv
  OBVIOUS
<1>1. /\ source = <<>> /\ fetched = 0 /\ chunk = <<>> /\ position = 0
      /\ word = <<>> /\ inLoop = "none" /\ answer = "none"
      /\ start = 0 /\ asked = 0 /\ todo = 0 /\ got = <<>> /\ opened = 0
  BY DEF InInit
<1>2. Len(<<>>) = 0 /\ <<>> \in Seq(Nat)
  OBVIOUS
<1>3. InTypeOK
  <2>1. InBits \in Nat /\ WordBits \in Nat /\ MaxAsked \in Nat
    BY InBitsType, WordBitsType, InAssumption
  <2> QED
    BY <1>1, <1>2, <2>1 DEF InTypeOK
<1>4. FetchOK /\ WordOK
  BY <1>3 DEF InTypeOK, FetchOK, WordOK
<1>5. Left = <<>> /\ Base = 0 /\ Tell = 0
  <2>1. Left \in Seq(Nat) /\ Len(Left) = Len(chunk) - position
    BY <1>4, FetchTypes
  <2>2. Left = <<>> /\ Len(Left) = 0
    BY <1>1, <1>2, <2>1, EmptySeq
  <2> QED
    <3>1. fetched = 0 /\ Len(chunk) = 0 /\ position = 0 /\ Len(word) = 0
      BY <1>1, <1>2
    <3>2. Base = 0 - 0 /\ Tell = 0 - (0 - 0) - 0
      BY <2>2, <3>1 DEF Base, Tell
    <3> QED
      BY <2>2, <3>2
<1>6. IsAt(<<>>, source, 0)
  <2>1. source \in Seq(Nat) /\ 0 \in 0..Len(source)
    BY <1>1, <1>2
  <2> QED
    BY <2>1, IsAtNothing
<1>7. Ahead /\ Cursor
  BY <1>1, <1>2, <1>5, <1>6 DEF Ahead, Cursor
<1> QED
  BY <1>1, <1>3, <1>7 DEF InInv, Unopened, ReadsExact

\* The stream opens what the other one has closed.
LEMMA OpenInv ==
  ASSUME InInv, OutInv, Open
  PROVE  InInv'
<1>1. /\ opened = 0 /\ opened' = 1 /\ source' = sink
      /\ UNCHANGED <<fetched, chunk, position, word>>
      /\ UNCHANGED <<inLoop, todo, got, start, asked, answer>>
  BY DEF Open, fetchVars, callVars
<1>2. /\ fetched = 0 /\ chunk = <<>> /\ position = 0
      /\ word = <<>> /\ inLoop = "none" /\ answer = "none"
      /\ start = 0 /\ asked = 0
  BY <1>1 DEF InInv, Unopened
<1>3. sink \in Seq(Nat) /\ Len(sink) \in Nat
  BY LenProperties DEF OutInv, OutTypeOK
<1>4. Len(<<>>) = 0 /\ <<>> \in Seq(Nat)
  OBVIOUS
<1>5. InTypeOK'
  BY <1>1, <1>2, <1>3 DEF InInv, InTypeOK
<1>6. FetchOK /\ WordOK
  BY InInvIs
<1>7. Left' = <<>> /\ Base' = 0 /\ Tell' = 0
  <2>1. Left \in Seq(Nat) /\ Len(Left) = Len(chunk) - position
    BY <1>6, FetchTypes
  <2>2. Left = <<>> /\ Len(Left) = 0
    BY <1>2, <1>4, <2>1, EmptySeq
  <2>3. Left' = <<>>
    BY <1>1, <2>2 DEF Left
  <2> QED
    <3>1. /\ fetched' = 0 /\ Len(chunk') = 0 /\ position' = 0
          /\ Len(word') = 0 /\ Len(Left') = 0
      BY <1>1, <1>2, <1>4, <2>3
    <3>2. Base' = 0 - 0 /\ Tell' = 0 - (0 - 0) - 0
      BY <3>1 DEF Base, Tell
    <3> QED
      BY <2>3, <3>2
<1>8. IsAt(<<>>, source', 0)
  BY <1>1, <1>3, IsAtNothing
<1>9. Ahead' /\ Cursor'
  BY <1>1, <1>2, <1>4, <1>7, <1>8, WholeWordsBasics DEF Ahead, Cursor
<1> QED
  BY <1>1, <1>2, <1>5, <1>9 DEF InInv, ReadsExact

LEMMA InInvStutter ==
  ASSUME InInv, UNCHANGED inVars
  PROVE  InInv'
<1>1. /\ UNCHANGED <<opened, source, fetched, chunk, position, word>>
      /\ UNCHANGED <<inLoop, todo, got, start, asked, answer>>
  BY DEF inVars, bytesVars, fetchVars, callVars
<1>2. InTypeOK' /\ (opened' = 0 => Unopened')
  BY <1>1 DEF InInv, InTypeOK, Unopened
<1>3. Ahead' /\ Cursor' /\ ReadsExact'
  BY <1>1 DEF InInv, Ahead, Cursor, ReadsExact, Base, Left, Tell
<1>4. inLoop' # "none" => Reading'
  BY <1>1 DEF InInv, Reading, Tell
<1> QED
  BY <1>2, <1>3, <1>4 DEF InInv

\* Once a stream has been opened nothing is written any more.
Sourced ==
  opened = 1 => closed = 1 /\ failures = 0 /\ source = sink

Inv == OutInv /\ InInv /\ Sourced

LEMMA NoWriteWhenClosed ==
  ASSUME OutInv, closed = 1, OutNext
  PROVE  FALSE
<1>1. loop = "none"
  BY DEF OutInv, Sound
<1>2. ASSUME NEW n \in 1..WordBits, WriteBits(n) PROVE FALSE
  BY <1>2 DEF WriteBits, MayWrite
<1>3. ASSUME NEW n \in 0..MaxBits, WriteArray(n) PROVE FALSE
  BY <1>3 DEF WriteArray, MayWrite
<1>4. CASE Fill \/ CopyAndFlush \/ CopyWords
  BY <1>1, <1>4 DEF Fill, CopyAndFlush, CopyWords
<1>5. CASE FourWords \/ FourWordsFail \/ OneWord \/ WordsOver \/ Bytes
  BY <1>1, <1>5 DEF FourWords, FourWordsFail, OneWord, WordsOver, Bytes
<1>6. CASE Close \/ CloseFails \/ SyncFails
  BY <1>6 DEF Close, CloseFails, SyncFails, MayClose
<1> QED
  BY <1>2, <1>3, <1>4, <1>5, <1>6 DEF OutNext

LEMMA InvInit == Init => Inv
<1> SUFFICES ASSUME Init PROVE Inv
  OBVIOUS
<1>1. OutInv /\ InInv
  BY OutInvInit, InInvInit DEF Init
<1>2. Sourced
  BY DEF Init, InInit, Sourced
<1> QED
  BY <1>1, <1>2 DEF Inv

LEMMA InvNext == Inv /\ [Next]_vars => Inv'
<1> SUFFICES ASSUME Inv, [Next]_vars PROVE Inv'
  OBVIOUS
<1>1. OutInv /\ InInv /\ Sourced
  BY DEF Inv
<1>2. OutInv'
  <2>1. [OutNext]_outVars
    BY DEF Next, vars, Open
  <2> QED
    BY <1>1, <2>1, OutInvNext
<1>3. CASE OutNext /\ UNCHANGED inVars
  <2>1. InInv'
    BY <1>1, <1>3, InInvStutter
  <2>2. opened' = 0
    <3>1. opened # 1
      BY <1>1, <1>3, NoWriteWhenClosed DEF Sourced
    <3>2. opened' = opened /\ opened \in {0, 1}
      BY <1>1, <1>3 DEF inVars, bytesVars, InInv, InTypeOK
    <3> QED
      BY <3>1, <3>2
  <2> QED
    BY <1>2, <2>1, <2>2 DEF Inv, Sourced
<1>4. CASE Open
  <2>1. InInv'
    BY <1>1, <1>4, OpenInv
  <2>2. Sourced'
    BY <1>4 DEF Open, Sourced, outVars, bufferVars
  <2> QED
    BY <1>2, <2>1, <2>2 DEF Inv
<1>5. CASE InNext /\ UNCHANGED outVars
  <2>1. InInv'
    BY <1>1, <1>5, InInvNext
  <2>2. UNCHANGED bytesVars
    BY <1>5 DEF InNext, ReadBits, ReadArray, Empty, CopyBuffer, CopyRest,
       FourWordsIn, OneWordIn, WordsInOver, BytesIn, Returned, Seek,
       HasMoreToRead, TakeInLoop, Continue
  <2>3. Sourced'
    BY <1>1, <1>5, <2>2 DEF Sourced, bytesVars, outVars, bufferVars
  <2> QED
    BY <1>2, <2>1, <2>3 DEF Inv
<1>6. CASE UNCHANGED vars
  <2>1. UNCHANGED inVars /\ UNCHANGED outVars
    BY <1>6 DEF vars
  <2>2. InInv'
    BY <1>1, <2>1, InInvStutter
  <2>3. Sourced'
    BY <1>1, <2>1 DEF Sourced, inVars, bytesVars, outVars, bufferVars
  <2> QED
    BY <1>2, <2>2, <2>3 DEF Inv
<1> QED
  BY <1>3, <1>4, <1>5, <1>6 DEF Next

LEMMA InvHolds == Spec => []Inv
  BY InvInit, InvNext, PTL DEF Spec

(***************************************************************************)
(* What the input bitstream keeps between the turns of the loops of        *)
(* readBits() has the types the model gives it: _position stays in         *)
(* _buffer, _availBits in a word, "remaining" in the bits asked for.       *)
(***************************************************************************)
THEOREM TypeCorrect == Spec => []TypeOK
<1>1. Inv => TypeOK
  BY DEF Inv, OutInv, InInv, TypeOK
<1> QED
  BY <1>1, InvHolds, PTL

(***************************************************************************)
(* readBit(), readBits(), the array's loops, seek() and hasMoreToRead(),   *)
(* in any order, for buffers and words of any size: a call returns exactly *)
(* the bits behind the cursor and moves it behind them, it fails only if   *)
(* the byte stream has fewer, and hasMoreToRead() knows whether any is     *)
(* left.                                                                   *)
(***************************************************************************)
THEOREM ReadsExactHolds == Spec => []ReadsExact
<1>1. Inv => ReadsExact
  BY DEF Inv, InInv
<1> QED
  BY <1>1, InvHolds, PTL

\* Each bit written is read at the place where it was written.
ReadsWhatWasWritten ==
  answer = "bits" =>
    \A i \in 1..asked : start + i <= count => got[i] = start + i

(***************************************************************************)
(* What the calls of writeBits() and close() have put in the byte stream   *)
(* is what those of readBits() return, however each side cuts the bits     *)
(* into calls; only the zeros that fill the last byte are read besides.    *)
(***************************************************************************)
THEOREM ReadsWhatWasWrittenHolds == Spec => []ReadsWhatWasWritten
<1>1. Inv => ReadsWhatWasWritten
  <2> SUFFICES ASSUME Inv, answer = "bits", NEW i \in 1..asked,
                      start + i <= count
               PROVE  got[i] = start + i
    BY DEF ReadsWhatWasWritten
  <2>1. /\ InInv /\ OutInv /\ Sourced
    BY DEF Inv
  <2>2. opened = 1
    <3>1. opened \in {0, 1} /\ (opened = 0 => answer = "none")
      BY <2>1 DEF InInv, InTypeOK, Unopened
    <3> QED
      BY <3>1
  <2>3. source = sink /\ Prefix(sink, count)
    BY <2>1, <2>2 DEF Sourced, OutInv, Sealed
  <2>4. /\ got = SubSeq(source, start + 1, start + asked)
        /\ start \in Nat /\ asked \in Nat /\ source \in Seq(Nat)
        /\ count \in Nat
    BY <2>1, OutAssumption
       DEF InInv, InTypeOK, ReadsExact, OutInv, OutTypeOK
  <2>5. got[i] = source[start + i]
    BY <2>4
  <2>6. start + i \in 1..Len(sink)
    <3>1. IsAt(word, source, Tell) /\ Tell = start + asked
      BY <2>1 DEF InInv, Cursor, ReadsExact
    <3>2. /\ Tell + Len(word) <= Len(source)
          /\ Len(word) \in Nat /\ Len(source) \in Nat
      BY <3>1, <2>4, LenProperties DEF IsAt
    <3>3. start + asked <= Len(source)
      BY <2>4, <3>1, <3>2
    <3> QED
      BY <2>3, <2>4, <3>2, <3>3
  <2>7. sink[start + i] = start + i
    BY <2>3, <2>4, <2>6 DEF Prefix
  <2> QED
    BY <2>3, <2>5, <2>7
<1> QED
  BY <1>1, InvHolds, PTL
=============================================================================
