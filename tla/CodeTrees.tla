----------------------------- MODULE CodeTrees -----------------------------
(***************************************************************************)
(* Three ways codes are kept for decoding, other than that of the lossless *)
(* JPEG: the tree of CRW files, built from counts (make_decoder in         *)
(* src/src/canon/crw/decompress.rs); the trees of NEF files, which are     *)
(* constants (src/src/nikon/huffman.rs and diffiterator.rs); the table of  *)
(* PEF files, with a cache of whole differences                            *)
(* (src/src/pentax/decompress.rs).                                         *)
(***************************************************************************)
EXTENDS Integers, Sequences, SequencesExt, FiniteSetsExt, Functions

CONSTANTS CountTables,   \* of CRW: how many codes of 1, 2, .. bits, and the leaves
          NodeTables,    \* of NEF: the nodes, <<is a leaf, value or next>>, from 0
          Documented,    \* of NEF: the codes in the comments, <<code, value>>
          PefTables,     \* of PEF: how many codes of 1, 2, .. bits, and their sizes
          CacheBits      \* DECODE_CACHE_BITS

ASSUME CodeTreesAssumption ==
  /\ \A t \in CountTables \cup PefTables :
       /\ t.counts \in Seq(Nat) /\ t.leaves \in Seq(Nat)
       /\ Len(t.leaves) >= SumFunction(t.counts)
  /\ DOMAIN NodeTables = DOMAIN Documented
  /\ CacheBits \in Nat \ {0}

VARIABLES tree,      \* what the codes are kept in
          node,      \* where the decoder is in it, or the bits it looks at
          word       \* the bits read

treeVars == <<tree, node, word>>

-----------------------------------------------------------------------------
(* make_decoder: the node at `free' and, before the next one, all that is  *)
(* below it.  s is [free, leaf, dest].                                     *)
CodeLength(t, leaf) ==
  LET Reach(n) == SumFunctionOnSet(t.counts, 1 .. n) > leaf
      All == {n \in DOMAIN t.counts : Reach(n)}
  IN IF All = {} THEN 0 ELSE Min(All)

RECURSIVE make_decoder(_, _, _, _)
make_decoder(t, s, idx, level) ==
  LET next == CodeLength(t, s.leaf)
      here == [s EXCEPT !.free = @ + 1]
      one == [here EXCEPT !.dest = (idx :> [branch |-> <<here.free, 0>>, leaf |-> 0]) @@ @]
      left == make_decoder(t, one, here.free, level + 1)
      two == [left EXCEPT !.dest[idx].branch[2] = left.free]
  IN CASE next = 0     -> here
       [] level < next /\ next # 0 -> make_decoder(t, two, left.free, level + 1)
       [] OTHER -> [here EXCEPT !.leaf = @ + 1,
                      !.dest = (idx :> [branch |-> <<0, 0>>, leaf |-> t.leaves[s.leaf + 1]]) @@ @]

CrwTree(t) == make_decoder(t, [free |-> 0, leaf |-> 0, dest |-> <<>>], 0, 0).dest

-----------------------------------------------------------------------------
(* HuffTable::initialize of PEF: a code of len bits fills all the places   *)
(* of the table that begin with it.  `bits' longer than any code are not   *)
(* looked at.                                                              *)
NBits(t) == Max({0} \cup {n \in DOMAIN t.counts : t.counts[n] > 0})
Sizes(t) == FlattenSeq([n \in DOMAIN t.counts |-> [i \in 1 .. t.counts[n] |-> n]])
Fill(t, n) == 2 ^ (NBits(t) - n)

HuffTableOf(t) ==
  FlattenSeq([p \in DOMAIN Sizes(t) |->
    [i \in 1 .. Fill(t, Sizes(t)[p]) |-> <<Sizes(t)[p], t.leaves[p]>>]])

(* The table has room for the codes; else the index panics.  Places no     *)
(* code fills are (0, 0).                                                  *)
PefFits(t) == Len(HuffTableOf(t)) <= 2 ^ NBits(t)

Look(t, bits) ==
  LET code == FoldLeft(LAMBDA v, b : 2 * v + b, 0, SubSeq(bits, 1, NBits(t))) + 1
      table == HuffTableOf(t)
  IN IF code <= Len(table) THEN table[code] ELSE <<0, 0>>

(* huff_diff: `size' bits, the sign extended.                              *)
Extended(bits) ==
  LET v == FoldLeft(LAMBDA w, b : 2 * w + b, 0, bits)
      n == Len(bits)
  IN IF n = 0 THEN 0 ELSE IF bits[1] = 0 THEN v - (2 ^ n - 1) ELSE v

huff_decode_slow(t, bits) ==
  LET e == Look(t, bits)
  IN [used |-> e[1] + e[2], diff |-> Extended(SubSeq(bits, e[1] + 1, e[1] + e[2]))]

InCacheAnyhow(t, bits) == TRUE     \* mutant: cached with bits that are not there

(* The cache holds what the slow way makes of CacheBits bits, where these  *)
(* are all it uses.                                                        *)
InCache(t, bits) == huff_decode_slow(t, bits).used <= CacheBits

Zeros(n) == [i \in 1 .. n |-> 0]

cached_decode(t, bits) ==
  LET cached == SubSeq(bits, 1, CacheBits) \o Zeros(Len(bits) - CacheBits)
  IN IF InCache(t, cached) THEN huff_decode_slow(t, cached) ELSE huff_decode_slow(t, bits)

-----------------------------------------------------------------------------
(* A decoder at the root of its tree, or before its bits.                  *)
PefBits(t) == NBits(t) + Max({0} \cup {t.leaves[p] : p \in DOMAIN t.leaves}) + CacheBits

TreesInit ==
  /\ word = <<>>
  /\ \/ \E t \in CountTables : tree = [kind |-> "crw", table |-> t, nodes |-> CrwTree(t)]
     \/ \E i \in DOMAIN NodeTables : tree = [kind |-> "nef", table |-> i, nodes |-> NodeTables[i]]
     \/ \E t \in PefTables : tree = [kind |-> "pef", table |-> t, nodes |-> <<>>]
  /\ node = 0

(* decompress of CRW, one bit of the inner loop.                           *)
CrwIsLeaf == tree.nodes[node].branch[1] = 0
CrwBit ==
  /\ tree.kind = "crw" /\ ~CrwIsLeaf
  /\ \E b \in {0, 1} :
       /\ node' = tree.nodes[node].branch[b + 1]
       /\ word' = Append(word, b)
  /\ UNCHANGED tree

(* HuffmanDecoder::decode of NEF: a one goes where the node says, a zero   *)
(* to the node after it.                                                   *)
NefIsLeaf == tree.nodes[node + 1][1]

NefNext(b) == IF b = 1 THEN tree.nodes[node + 1][2] ELSE node + 1

NefBit ==
  /\ tree.kind = "nef" /\ ~NefIsLeaf
  /\ \E b \in {0, 1} : node' = NefNext(b) /\ word' = Append(word, b)
  /\ UNCHANGED tree

(* Bits of a PEF stream, as many as a difference can have.                 *)
PefBit ==
  /\ tree.kind = "pef" /\ Len(word) < PefBits(tree.table)
  /\ \E b \in {0, 1} : word' = Append(word, b)
  /\ UNCHANGED <<tree, node>>

TreesStep == CrwBit \/ NefBit \/ PefBit

TreesSpec == TreesInit /\ [][TreesStep]_treeVars

-----------------------------------------------------------------------------
(* The codes counts stand for: each the first word of its length that no   *)
(* code before it begins, as bits.                                         *)
Word(v, n) == [i \in 1 .. n |-> (v \div 2 ^ (n - i)) % 2]

CodesOf(t) ==
  LET Free(codes, n) ==
        {v \in 0 .. 2 ^ n - 1 : \A q \in DOMAIN codes : ~IsPrefix(codes[q], Word(v, n))}
  IN FoldLeft(LAMBDA codes, n : Append(codes, Word(Min(Free(codes, n)), n)), <<>>, Sizes(t))

(* Whatever the decoder reads leads to what the format means by it.  In a  *)
(* tree, the words that end at a leaf are the codes, with their values:    *)
(* those the counts stand for, in the order of the leaves (the drawing at  *)
(* make_decoder), and those in the comments before the tables of NEF.  A   *)
(* difference of PEF is read from its own bits, one code and as many bits  *)
(* as it says, whether the cache has it or not, whatever follows.          *)
CodesLeadToTheirValues ==
  /\ tree.kind = "crw" /\ CrwIsLeaf =>
       LET codes == CodesOf(tree.table)
       IN \E p \in DOMAIN codes : codes[p] = word /\ tree.table.leaves[p] = tree.nodes[node].leaf
  /\ tree.kind = "nef" /\ NefIsLeaf =>
       <<word, tree.nodes[node + 1][2]>> \in Documented[tree.table]
  /\ tree.kind = "pef" /\ Len(word) = PefBits(tree.table) /\ PefFits(tree.table) =>
       LET codes == CodesOf(tree.table)
       IN \A p \in DOMAIN codes : IsPrefix(codes[p], word) =>
            LET size == tree.table.leaves[p]
                bits == SubSeq(word, Len(codes[p]) + 1, Len(codes[p]) + size)
            IN cached_decode(tree.table, word)
                 = [used |-> Len(codes[p]) + size, diff |-> Extended(bits)]
=============================================================================
