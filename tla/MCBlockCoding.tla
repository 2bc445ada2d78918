---------------------------- MODULE MCBlockCoding ----------------------------
(***************************************************************************)
(* The blocks and chains the model checker tries.                          *)
(***************************************************************************)
EXTENDS BlockContracts, TransformFactory, EntropyFactory, SequencesExt

Rep(v, n) == [k \in 1..n |-> v]

Cut(s, n) == SubSeq(s, 1, n)

Cycle(p, n) == [k \in 1..n |-> p[((k - 1) % Len(p)) + 1]]

Plain == [fast |-> FALSE, type |-> "UNDEFINED", detected |-> "UNDEFINED",
          dist |-> 1, better |-> TRUE, jobs |-> 1, entropy |-> "NONE", magic |-> FALSE,
          header |-> [arch |-> "NONE", sections |-> <<>>, broken |-> FALSE]]

Job(names, entropy, ctx, block) ==
  [names |-> names, entropy |-> entropy, ctx |-> ctx, block |-> block,
   types |-> {ctx.type}, skip |-> FALSE, tasks |-> 2, hashed |-> FALSE, heap |-> 0,
   spare |-> 0]

With(names, ctxs, blocks) == {Job(names, "NONE", c, b) : c \in ctxs, b \in blocks}

(***************************************************************************)
(* Runs of a few symbols, short and long.                                  *)
(***************************************************************************)
Runs(as, bs, is, js) ==
  {Rep(a, i) \o Rep(b, j) \o Rep(a, k) \o Rep((b + 1) % 8, i) : a \in as, b \in bs, i \in is, j, k \in js}

Words(S, n) == [1..n -> S]

RunJobs ==
  With(<<"RLT">>, {Plain, [Plain EXCEPT !.fast = TRUE]},
       Runs({0, 7}, {1, 6}, {1, 5}, {1, 4, 9, 18, 72, 75, 150})
         \cup {Rep(0, n) \o <<0, 1, 2, 3, 4, 5, 6, 7>> \o Rep(2, m) : n \in {6, 10}, m \in {1, 3, 8}})
    \cup With(<<"ZRLT">>, {Plain}, Runs({0}, {1, 6, 7}, {1, 3}, {1, 2, 9, 17}))
    \cup With(<<"RANK", "ZRLT">>, {Plain}, Runs({0, 2}, {1, 3}, {1, 3}, {1, 2, 9}))
    \cup With(<<"MTFT", "ZRLT">>, {Plain}, Runs({0, 2}, {1, 3}, {1, 3}, {1, 2, 9}))
    \cup With(<<"SRT", "ZRLT">>, {Plain}, Runs({0, 3}, {1, 7}, {1, 5}, {1, 4, 17}))

Channels(d) == {Cut(Cycle(p, 24), n) : p \in {Cut(<<3, 0, 7, 5>>, d), Rep(2, d) \o <<3>>}, n \in {20, 23}}
   \cup {Rep(a, 4) \o w \o Rep(b, 6) : a \in {0, 7}, b \in {3, 7}, w \in Words({0, 4, 7}, 2)}

TypeJobs ==
  With(<<"MM">>, {[Plain EXCEPT !.dist = d, !.type = t] : d \in 1..3, t \in {"BIN", "TEXT"}},
       UNION {Channels(d) : d \in 1..3})
    \cup With(<<"PACK">>, {[Plain EXCEPT !.detected = "TEXT"]},
              {Rep(0, 17)} \cup Words({3, 9}, 7)
                \cup {Cycle(<<1, 2>>, 2 * n) \o Cycle(<<3, 4>>, 2 * m) \o <<5, 6>> \o Rep(3, o)
                        : n, m \in {2, 10, 30}, o \in {0, 1}})

Alphabet == {<<97>>, <<195, 169>>, <<226, 130, 172>>, <<240, 159, 152, 128>>}

Text(p, i, n) == SubSeq(FlattenSeq([k \in 1..24 |-> p[((k - 1) % Len(p)) + 1]]), i, i + n - 1)

UtfJobs == With(<<"UTF">>, {Plain},
               {Text(p, i, n) : p \in [1..2 -> Alphabet], i \in 1..4, n \in {20, 21}})

SortJobs ==
  With(<<"BWT">>, {Plain, [Plain EXCEPT !.jobs = 2]},
       Words(0..1, 7) \cup {Cycle(p, n) : p \in Words(0..2, 4), n \in 8..11})
    \cup With(<<"BWTS">>, {Plain}, Words(0..1, 7))
    \cup With(<<"BWT", "RANK", "ZRLT">>, {Plain}, {Cycle(p, 12) : p \in Words({0, 3}, 4)})

Phrases ==
  {p \o q \o p \o q \o p \o q \o q \o Rep(3, 9) : p, q \in Words(0..1, 4)}
    \cup {Rep(1, a) \o Rep(2, b) \o Rep(1, c) \o Rep(2, a) : a, b, c \in {1, 20, 90}}
    \cup {Cycle(p, 30) : p \in Words({1, 5}, 5)}

MatchJobs ==
  With(<<"LZ">>, {Plain, [Plain EXCEPT !.type = "DNA"]}, Phrases)
    \cup With(<<"LZX">>, {Plain}, Phrases)
    \cup With(<<"LZP">>, {Plain}, Phrases)
    \cup With(<<"ROLZ">>, {[Plain EXCEPT !.type = t] : t \in {"UNDEFINED", "EXE", "DNA"}},
              {Cycle(p, n) : p \in Words(0..1, 4), n \in {12, 17, 31, 40}})
    \cup With(<<"ROLZX">>, {[Plain EXCEPT !.type = t] : t \in {"UNDEFINED", "MULTIMEDIA"}},
              {Cycle(p, n) : p \in Words(0..1, 4), n \in {12, 16, 30, 32}})

(***************************************************************************)
(* Machine code: jumps forth and back, of either length, what only looks   *)
(* like one, and one that the end of the code cuts; sections in order and  *)
(* not, or out of the block.                                               *)
(***************************************************************************)
Code(arch, sections, broken) ==
  [Plain EXCEPT !.detected = "BIN",
                !.header = [arch |-> arch, sections |-> sections, broken |-> broken]]

Section(start, length) == [start |-> start, length |-> length]

Pieces86 == {<<0>>, <<3>>, <<1, 3>>, <<1, 6>>, <<4, 3, 1, 0>>, <<5, 6, 7, 7>>, <<4, 0, 0, 7>>,
             <<4, 2, 2, 2>>, <<1, 2, 5, 0, 0>>, <<1, 2, 0, 0, 7>>}

Blocks86 ==
  {<<7, 0, 4, 1, 0, 0>> \o a \o b \o <<0, 5, 1, 7, 7>> \o c
     : a, b \in Pieces86, c \in {<<1>>, <<1, 2, 0>>, <<4, 5, 5, 0>>, <<6, 2>>}}

BlocksARM ==
  {FlattenSeq(Cycle(p, k)) \o Rep(2, n)
     : p \in Words({<<1, 2>>, <<7, 3>>, <<5, 7>>, <<6, 2>>, <<0, 1>>}, 3), k \in {6, 8}, n \in {0, 1}}
    \cup {FlattenSeq(Rep(<<0, 1>>, 11) \o <<<<6, 2>>, <<7, 2>>>>)}

CodeJobs ==
  With(<<"EXE">>, {Code("X86", <<>>, FALSE), Code("X86", <<Section(0, 4), Section(2, 14)>>, FALSE),
                   Code("NONE", <<>>, FALSE)}, Blocks86)
    \cup With(<<"EXE">>, {Code("ARM64", <<Section(4, 12)>>, FALSE), Code("ARM64", <<>>, TRUE)},
              BlocksARM)
    \cup With(<<"EXE">>, {Code(a, <<Section(6, 8), Section(0, 12)>>, b) : a \in {"X86", "OTHER"}, b \in BOOLEAN}
                        \cup {Code("ARM64", s, FALSE) : s \in {<<Section(6, 2), Section(0, 4)>>, <<Section(8, 30)>>}},
              {<<7, 0, 4, 1, 0, 0>> \o <<4, 3, 1, 0>> \o <<0, 5, 1, 7, 7>>})

ChainJobs ==
  {[Job(names, "NONE", Plain, b) EXCEPT !.types = {"UNDEFINED", "EXE", "DNA"},
                                   !.skip = s, !.tasks = t, !.hashed = h]
     : names \in {<<"RLT", "NONE", "RANK", "MTFT", "ZRLT", "LZ">>, <<"LZP", "RLT">>, <<"NONE", "NONE">>},
       b \in {Cut(Cycle(<<0, 0, 0, 1>>, 40), n) : n \in {3, 16, 40}} \cup {Rep(0, 60), Cycle(<<0, 1, 2, 3, 4>>, 23)},
       s, h \in BOOLEAN, t \in {1, 2}}

(***************************************************************************)
(* Texts of words known from the start, in the other case, new, repeated,  *)
(* and more than the dictionary holds, with what may come between them.    *)
(* Those of 112 to 127 bytes are left to DictionaryJobs.                   *)
(***************************************************************************)
FpaqFollows == [Plain EXCEPT !.entropy = "FPAQ"]

BinaryDigits(k, n) == [i \in 1..n |-> (k \div 2 ^ (i - 1)) % 2]

WordPieces == {<<0, 0, 2>>, <<1, 0, 0, 2>>, <<0, 1, 1, 0, 2>>, <<1, 1, 1, 3, 4>>, <<0, 1, 0, 1, 4>>,
               <<5, 0, 1, 1, 2>>, <<6, 2, 2>>, <<9, 2, 1, 1, 1, 2>>, <<0, 1, 1, 1, 0, 1, 2, 4>>}

Vocabulary == [k \in 1..7 |-> BinaryDigits(k, 3) \o <<2>>] \o [k \in 1..32 |-> BinaryDigits(k, 4 + (k % 2)) \o <<2>>]

\* n words, the last three of them once more.
Story(a, n) ==
  FlattenSeq([k \in 1..n + 3 |-> Vocabulary[((a * (IF k > n THEN k - 3 ELSE k)) % 39) + 1]])
    \o <<0, 0, 2, 1, 0, 0, 2>>

Short(blocks) == {b \in blocks : Len(b) < 112}

Texts(k) == Short({FlattenSeq(Cycle(p, k)) : p \in Words(WordPieces, 3)})

TextJobs ==
  With(<<"TEXT">>, {Plain}, Texts(7) \cup Short({Story(a, n) : a \in {1, 2, 4, 5, 7}, n \in {6, 13, 15, 17}}))
    \cup With(<<"TEXT">>, {[Plain EXCEPT !.type = "DNA"], [Plain EXCEPT !.magic = TRUE]}, {Story(1, 9)})
    \cup {Job(<<"TEXT">>, "FPAQ", FpaqFollows, b)
            : b \in Short({Story(a, n) : a \in {1, 4, 5}, n \in {9, 15}}) \cup {x \in Texts(4) : At(x, 1) = 1}}

(***************************************************************************)
(* Blocks for the entropy coders: one symbol, few, skewed so that codes    *)
(* are too long, all symbols, and more than a chunk of each coder.         *)
(***************************************************************************)
Fibonacci == FlattenSeq([k \in 1..8 |-> Rep(k, <<1, 1, 2, 3, 5, 8, 13, 21>>[k])])

Mixed == {[k \in 1..n |-> (k * k + k) % 16] : n \in {6, 24, 40, 43}}
           \cup {Cycle(<<0, 0, 5, 0, 15, 5, 0>>, n) : n \in {7, 17, 33, 41, 44, 67, 90}}

Blocks4 ==
  Words({0, 9}, 6) \cup Mixed \cup {Rep(3, n) : n \in {6, 25, 41}}
    \cup {Fibonacci, Cycle(Fibonacci, 80), [k \in 1..32 |-> (k * 5) % 16]}

Tailed(b) == Len(b) > 40 /\ Len(b) % 40 \in 1..3

EntropyJobs ==
  {Job(<<"NONE">>, e, Plain, b) : e \in {"HUFFMAN", "ANS0", "RANGE", "FPAQ", "CM"}, b \in Blocks4}
    \cup {Job(<<"NONE">>, "ANS1", Plain, b) : b \in {x \in Blocks4 : ~Tailed(x)}}
    \cup {[Job(names, e, Plain, b) EXCEPT !.tasks = 1, !.hashed = TRUE, !.heap = 1] :
             names \in {<<"RLT", "RANK">>, <<"MTFT", "RLT">>}, e \in {"HUFFMAN", "ANS0", "CM"},
             b \in {Cycle(<<1, 2, 3, 1, 2>>, 30), Rep(2, 9) \o Rep(5, 20)}}

AllJobs == EntropyJobs \cup RunJobs \cup TypeJobs \cup UtfJobs \cup TextJobs \cup SortJobs \cup MatchJobs
             \cup CodeJobs \cup ChainJobs

(***************************************************************************)
(* Blocks that the code does not bring back, each tried by a run of its    *)
(* own: frequencies that cannot be spread, and a dictionary that is larger *)
(* in the decoder.                                                         *)
(***************************************************************************)
NormalizeJobs ==
  {Job(<<"NONE">>, "RANGE", Plain, Cycle([k \in 1..15 |-> k - 1], 24))}

DictionaryJobs ==
  {Job(<<"TEXT">>, "FPAQ", FpaqFollows,
       FlattenSeq(<<<<0, 1, 1, 0, 2>>, <<1, 1, 0, 1, 2>>, <<1, 0, 1, 0, 2>>, <<1, 1, 0, 0, 2>>,
                    <<0, 0, 0, 1, 2>>>>) \o Cycle(<<1, 1, 1, 1, 2>>, n)) : n \in 80..110}

(***************************************************************************)
(* What the first transforms of each job of S may make of its block, stage *)
(* by stage and place by place: the sets that the contracts of             *)
(* BlockContracts speak of.  For AllJobs all of them are TRUE of           *)
(* WaysOf(Jobs), which takes about nine minutes to evaluate; EntropyKept   *)
(* is FALSE for NormalizeJobs, and InverseKept for DictionaryJobs.         *)
(***************************************************************************)
WaysOf(S) ==
  LET tried(j, k, p, A) == {[from |-> a, made |-> Forwarded(j, k, a, p, t)] : a \in A, t \in j.types}
      after(j, k, before) ==
        [p \in Places |->
           {x.made.out : x \in {y \in tried(j, k, Opposite(p), before[Opposite(p)]) : y.made.ok}}
             \cup {x.from : x \in {y \in tried(j, k, p, before[p]) : ~y.made.ok}}]
  IN  [j \in S |->
         LET stage[k \in 0..Len(ChainOf(j))] ==
               IF k = 0 THEN [p \in Places |-> IF p = "other" THEN {j.block} ELSE {}]
               ELSE after(j, k, stage[k - 1])
         IN  stage]
=============================================================================
