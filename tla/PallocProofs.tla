---------------------------- MODULE PallocProofs ----------------------------
(***************************************************************************)
(* Proofs about the memory pool, for any sizes and alignments, any number  *)
(* of blocks and any pieces and files.                                     *)
(***************************************************************************)
EXTENDS Palloc, FiniteSetTheorems, SequenceTheorems, WellFoundedInduction, TLAPS

-----------------------------------------------------------------------------
(* The inductive invariant *)

BlockType == [base : Bases, begin : Nat, end : Nat, failed : Nat]

PieceType == [from : Nat, to : Nat]

NodeType == [handler : Handlers \cup {None}, fd : Files, node : PieceType, data : PieceType]

\* What an allocation takes and gives.
Pools ==
  [at : Nat \cup {None}, blocks : Seq(BlockType), current : Nat \ {0}, pieces : Seq(PieceType),
   strayed : BOOLEAN]

\* Every variable has its type.
TypeOK ==
  /\ pool \in {"absent", "live", "destroyed"}
  /\ now \in Pools
  /\ large \in Seq(Larges \cup {None})
  /\ heap \in [Larges -> {"fresh", "live", "freed"}]
  /\ cleanup \in Seq(NodeType)
  /\ files \in [Files -> {"fresh", "open", "closed"}]

\* A large piece is live exactly when a node has it, and no two nodes have the same.
LargeInv ==
  /\ \A l \in Larges : heap[l] = "live" <=> \E i \in DOMAIN large : large[i] = l
  /\ \A i, j \in DOMAIN large : large[i] = large[j] /\ large[i] # None => i = j

\* A file is open exactly when a node has it with a handler, and no two do.
FileInv ==
  /\ pool = "live" =>
       \A f \in Files :
         files[f] = "open" <=>
           \E i \in DOMAIN cleanup : cleanup[i].fd = f /\ cleanup[i].handler # None
  /\ \A i, j \in DOMAIN cleanup :
       /\ cleanup[i].handler # None /\ cleanup[j].handler # None
       /\ cleanup[i].fd = cleanup[j].fd
       => i = j
  /\ pool = "absent" => cleanup = <<>> /\ \A f \in Files : files[f] # "open"
  /\ pool = "destroyed" /\ SGX_DEBUG => \A f \in Files : files[f] # "open"

\* A piece lies in block k of a pool, in the first block before its begin.
LiesIn(piece, p, k) ==
  /\ piece.from >= p.blocks[k].base + (IF k = 1 THEN SizeofPool ELSE SizeofData)
  /\ piece.to <= p.blocks[k].base + PoolSize
  /\ k = 1 => piece.to <= p.blocks[1].begin

\* No two blocks have an address in common.
BlocksDiffer(p) ==
  \A j, k \in DOMAIN p.blocks : j # k => p.blocks[j].base # p.blocks[k].base

\* What is unused of the first block is between its begin and its end.
FirstBlock(p) ==
  /\ p.blocks # <<>>
  /\ p.blocks[1].begin >= p.blocks[1].base + SizeofPool
  /\ p.blocks[1].begin <= p.blocks[1].end
  /\ p.blocks[1].end = p.blocks[1].base + PoolSize

PiecesLie(p) ==
  \A i \in DOMAIN p.pieces : \E k \in DOMAIN p.blocks : LiesIn(p.pieces[i], p, k)

PiecesApart(p) ==
  \A i, j \in DOMAIN p.pieces : i # j => Apart(p.pieces[i], p.pieces[j])

\* A pool is in order as long as no piece has strayed.
Sound(p) ==
  ~ p.strayed => BlocksDiffer(p) /\ FirstBlock(p) /\ PiecesLie(p) /\ PiecesApart(p)

SmallInv ==
  /\ pool = "live" => Sound(now)
  /\ pool # "live" => pieces = <<>>

IInv == TypeOK /\ LargeInv /\ FileInv /\ SmallInv

-----------------------------------------------------------------------------
(* Numbers *)

\* A set of numbers that is not empty has a least element.
LEMMA Least ==
  ASSUME NEW S \in SUBSET Nat, S # {}
  PROVE  \E x \in S : \A y \in S : x <= y
<1>1. PICK x \in S : \A y \in S : ~ (<<y, x>> \in OpToRel(<, Nat))
  BY NatLessThanWellFounded, WFMin, Zenon
<1>2. \A y \in S : ~ (y < x)
  BY <1>1 DEF OpToRel
<1> QED
  BY <1>2

\* One that has a bound has a greatest.
LEMMA Greatest ==
  ASSUME NEW n \in Nat, NEW S \in SUBSET (0..n), S # {}
  PROVE  \E x \in S : \A y \in S : y <= x
<1> DEFINE T == {d \in 0..n : n - d \in S}
<1>1. T \in SUBSET Nat
  OBVIOUS
<1>2. T # {}
  <2>1. PICK x \in S : TRUE
    OBVIOUS
  <2>2. n - x \in 0..n /\ n - (n - x) = x
    BY <2>1
  <2> QED
    BY <2>1, <2>2
<1>3. PICK d \in T : \A e \in T : d <= e
  BY <1>1, <1>2, Least
<1>4. ASSUME NEW y \in S PROVE y <= n - d
  <2>1. y \in 0..n /\ n - y \in T
    BY <1>4
  <2>2. d <= n - y /\ d \in 0..n
    BY <1>3, <2>1
  <2> QED
    BY <2>1, <2>2
<1> QED
  BY <1>3, <1>4

\* Rounding up to the alignment reaches the next multiple.
LEMMA Aligned ==
  ASSUME NEW a \in Nat
  PROVE  /\ AlignUp(a) \in Nat
         /\ a <= AlignUp(a)
         /\ \E q \in Nat : AlignUp(a) = SGX_ALIGNMENT * q
         /\ \A k \in Nat : a <= SGX_ALIGNMENT * k => AlignUp(a) <= SGX_ALIGNMENT * k
<1>1. PICK m \in Nat \ {0} : m = SGX_ALIGNMENT
  BY PoolAssumption
<1>2. PICK q, r : /\ q = (a + m - 1) \div m /\ r = (a + m - 1) % m
  OBVIOUS
<1>3. /\ q \in Nat /\ r \in 0..(m - 1)
      /\ a + m - 1 = m * q + r
  BY <1>1, <1>2
<1>4. AlignUp(a) = m * q /\ m * q \in Nat
  BY <1>1, <1>2, <1>3 DEF AlignUp
<1>5. a <= m * q
  BY <1>1, <1>3, <1>4
<1>6. ASSUME NEW k \in Nat, a <= m * k PROVE m * q <= m * k
  <2>1. m * q <= m * k + (m - 1)
    BY <1>1, <1>3, <1>4, <1>6
  <2>2. CASE q <= k
    BY <1>1, <1>3, <2>2
  <2>3. CASE q >= k + 1
    <3>1. m * q >= m * (k + 1)
      BY <1>1, <1>3, <2>3
    <3>2. m * (k + 1) = m * k + m /\ m * k \in Nat
      BY <1>1
    <3> QED
      BY <1>1, <1>4, <2>1, <3>1, <3>2
  <2> QED
    BY <1>3, <2>2, <2>3
<1> QED
  BY <1>1, <1>3, <1>4, <1>5, <1>6

\* An address that the alignment divides.
LEMMA Multiple ==
  ASSUME NEW a \in Nat, a % SGX_ALIGNMENT = 0
  PROVE  \E k \in Nat : a = SGX_ALIGNMENT * k
<1>1. PICK m \in Nat \ {0} : m = SGX_ALIGNMENT
  BY PoolAssumption
<1>2. a \div m \in Nat /\ a = m * (a \div m) + (a % m) /\ a % m = 0
  BY <1>1
<1>3. a = m * (a \div m)
  BY <1>1, <1>2
<1> QED
  BY <1>1, <1>2, <1>3

\* The sum of two multiples is one.
LEMMA MultipleSum ==
  ASSUME NEW j \in Nat, NEW k \in Nat
  PROVE  SGX_ALIGNMENT * j + SGX_ALIGNMENT * k = SGX_ALIGNMENT * (j + k)
  BY PoolAssumption

\* The ends of a block are aligned, so rounding up does not leave it.
LEMMA AlignedInBlock ==
  ASSUME NEW base \in Bases, NEW a \in Nat, a <= base + PoolSize
  PROVE  AlignUp(a) <= base + PoolSize
<1>1. PICK j \in Nat, k \in Nat : base = SGX_ALIGNMENT * j /\ PoolSize = SGX_ALIGNMENT * k
  <2>1. /\ base \in Nat /\ base % SGX_ALIGNMENT = 0
        /\ PoolSize \in Nat /\ PoolSize % SGX_ALIGNMENT = 0
    BY PoolAssumption
  <2>2. \E j \in Nat : base = SGX_ALIGNMENT * j
    BY <2>1, Multiple
  <2>3. \E k \in Nat : PoolSize = SGX_ALIGNMENT * k
    BY <2>1, Multiple
  <2> QED
    BY <2>2, <2>3
<1>2. base + PoolSize = SGX_ALIGNMENT * (j + k)
  BY <1>1, MultipleSum
<1> QED
  BY <1>2, Aligned

\* The first piece of a new block begins behind its header, and where it would
\* begin in the pool itself at the latest.
LEMMA AlignedHeader ==
  ASSUME NEW base \in Bases
  PROVE  /\ AlignUp(base + SizeofData) \in Nat
         /\ base + SizeofData <= AlignUp(base + SizeofData)
         /\ AlignUp(base + SizeofData) <= base + SizeofPool
<1>1. base \in Nat /\ SizeofData \in Nat /\ base + SizeofData \in Nat
  BY PoolAssumption
<1>2. PICK j \in Nat, k \in Nat :
        base = SGX_ALIGNMENT * j /\ AlignUp(SizeofData) = SGX_ALIGNMENT * k
  <2>1. PICK j \in Nat : base = SGX_ALIGNMENT * j
    BY Multiple, PoolAssumption
  <2>2. PICK k \in Nat : AlignUp(SizeofData) = SGX_ALIGNMENT * k
    BY <1>1, Aligned
  <2> QED
    BY <2>1, <2>2
<1>3. base + AlignUp(SizeofData) = SGX_ALIGNMENT * (j + k)
  BY <1>2, MultipleSum
<1>4. /\ SizeofData <= AlignUp(SizeofData) /\ AlignUp(SizeofData) \in Nat
      /\ AlignUp(base + SizeofData) \in Nat
      /\ base + SizeofData <= AlignUp(base + SizeofData)
  BY <1>1, Aligned
<1>5. base + SizeofData <= SGX_ALIGNMENT * (j + k)
  BY <1>1, <1>3, <1>4
<1>6. AlignUp(base + SizeofData) <= base + AlignUp(SizeofData)
  BY <1>1, <1>3, <1>5, Aligned
<1> QED
  BY <1>1, <1>4, <1>6, PoolAssumption

-----------------------------------------------------------------------------
(* An allocation *)

\* The first block that fits, or a new one, or nothing.
LEMMA SmallOutcomes ==
  ASSUME NEW p \in Pools, NEW size, NEW align, NEW q \in Small(p, size, align)
  PROVE  \/ \E k \in p.current..Len(p.blocks) :
              /\ Fits(p, k, Begin(p, align), size)
              /\ q = CutFrom(p, k, Begin(p, align), size)
         \/ \E base \in FreeBases(p) : q = WithBlock(p, base, size)
         \/ q = [p EXCEPT !.at = None]
<1> DEFINE begin == Begin(p, align)
           fit == {k \in p.current..Len(p.blocks) : Fits(p, k, begin, size)}
<1>1. CASE fit # {}
  <2>1. fit \in SUBSET Nat
    BY DEF Pools
  <2>2. \E k \in fit : \A j \in fit : k <= j
    BY <1>1, <2>1, Least
  <2>3. PICK k \in fit : k = CHOOSE x \in fit : \A j \in fit : x <= j
    BY <2>2
  <2>4. q = CutFrom(p, k, begin, size)
    BY <1>1, <2>3 DEF Small
  <2> QED
    BY <2>4
<1>2. CASE fit = {}
  BY <1>2 DEF Small
<1> QED
  BY <1>1, <1>2

LEMMA BeginType ==
  ASSUME NEW p \in Pools, p.blocks # <<>>, NEW align \in BOOLEAN
  PROVE  Begin(p, align) \in Nat /\ p.blocks[1].begin <= Begin(p, align)
<1>1. p.blocks[1].begin \in Nat
  <2>1. p.blocks \in Seq(BlockType)
    BY DEF Pools
  <2>2. p.blocks[1] \in BlockType
    BY <2>1
  <2> QED
    BY <2>2 DEF BlockType
<1>2. CASE align
  BY <1>1, <1>2, Aligned DEF Begin
<1>3. CASE ~ align
  BY <1>1, <1>3 DEF Begin
<1> QED
  BY <1>2, <1>3

\* What is cut from block k.
LEMMA CutParts ==
  ASSUME NEW p \in Pools, NEW k \in 1..Len(p.blocks), NEW b \in Nat, NEW size \in Nat
  PROVE  /\ CutFrom(p, k, b, size) \in Pools
         /\ Len(CutFrom(p, k, b, size).blocks) = Len(p.blocks)
         /\ CutFrom(p, k, b, size).blocks[k].begin = b + size
         /\ \A j \in 1..Len(p.blocks) :
              /\ CutFrom(p, k, b, size).blocks[j].base = p.blocks[j].base
              /\ CutFrom(p, k, b, size).blocks[j].end = p.blocks[j].end
         /\ CutFrom(p, k, b, size).pieces = Append(p.pieces, Piece(b, size))
         /\ ~ CutFrom(p, k, b, size).strayed => ~ p.strayed /\ k = 1
<1> PICK q : q = CutFrom(p, k, b, size)
  OBVIOUS
<1> DEFINE chain == [p.blocks EXCEPT ![k].begin = b + size]
           ps == Append(p.pieces, Piece(b, size))
           st == p.strayed \/ k # 1 \/ OnCleanup(Piece(b, size))
<1>1. chain = [p.blocks EXCEPT ![k] = [p.blocks[k] EXCEPT !.begin = b + size]]
  OBVIOUS
<1>2. chain \in Seq(BlockType)
  <2>1. p.blocks \in Seq(BlockType)
    BY DEF Pools
  <2>2. p.blocks[k] \in BlockType /\ k \in 1..Len(p.blocks)
    BY <2>1
  <2>3. [p.blocks[k] EXCEPT !.begin = b + size] \in BlockType
    BY <2>2 DEF BlockType
  <2> QED
    BY <1>1, <2>1, <2>2, <2>3, ExceptSeq
<1>3. ps \in Seq(PieceType)
  <2>1. Piece(b, size) \in PieceType
    BY DEF Piece, PieceType
  <2> QED
    BY <1>1, <2>1 DEF Pools
<1>4. st \in BOOLEAN /\ (~ st => ~ p.strayed /\ k = 1)
  BY <1>1
<1>5. q = [p EXCEPT !.at = b, !.blocks = chain, !.pieces = ps, !.strayed = st]
  BY DEF CutFrom, After
<1> HIDE DEF chain, ps, st
<1>6. q \in Pools
  BY <1>2, <1>3, <1>4, <1>5 DEF Pools
<1>7. q.blocks = chain /\ q.pieces = ps /\ q.strayed = st
  BY <1>5 DEF Pools
<1>8. /\ DOMAIN chain = DOMAIN p.blocks
      /\ chain[k].begin = b + size
      /\ \A j \in DOMAIN p.blocks : chain[j].base = p.blocks[j].base /\ chain[j].end = p.blocks[j].end
  <2>1. p.blocks \in Seq(BlockType)
    BY DEF Pools
  <2>2. \A j \in DOMAIN p.blocks : p.blocks[j] \in BlockType
    BY <2>1
  <2> QED
    <3>1. DOMAIN chain = DOMAIN p.blocks
      BY <1>1
    <3>2. \A j \in DOMAIN p.blocks :
            chain[j] = IF j = k THEN [p.blocks[k] EXCEPT !.begin = b + size] ELSE p.blocks[j]
      BY <1>1
    <3>3. k \in DOMAIN p.blocks
      BY <2>1
    <3> QED
      BY <2>2, <3>1, <3>2, <3>3 DEF BlockType
<1>9. Len(chain) = Len(p.blocks) /\ DOMAIN p.blocks = 1..Len(p.blocks)
  <2>1. p.blocks \in Seq(BlockType)
    BY DEF Pools
  <2> QED
    BY <1>2, <1>8, <2>1
<1> QED
  BY <1>4, <1>6, <1>7, <1>8, <1>9 DEF ps

LEMMA CutIsPool ==
  ASSUME NEW p \in Pools, NEW k \in 1..Len(p.blocks), NEW b \in Nat, NEW size \in Nat
  PROVE  /\ CutFrom(p, k, b, size) \in Pools
         /\ Len(CutFrom(p, k, b, size).blocks) = Len(p.blocks)
  BY CutParts

\* What a new block changes.
LEMMA WithBlockParts ==
  ASSUME NEW p \in Pools, NEW base \in Bases, NEW size \in Nat,
         NEW q, q = WithBlock(p, base, size)
  PROVE  LET m == AlignUp(base + SizeofData)
             n == Len(p.blocks)
         IN  /\ q \in Pools
             /\ q.pieces = Append(p.pieces, Piece(m, size))
             /\ q.strayed = p.strayed
             /\ Len(q.blocks) = n + 1
             /\ q.blocks[n + 1].base = base
             /\ \A k \in 1..n : /\ q.blocks[k].base = p.blocks[k].base
                               /\ q.blocks[k].begin = p.blocks[k].begin
                               /\ q.blocks[k].end = p.blocks[k].end
<1> DEFINE m == AlignUp(base + SizeofData)
           n == Len(p.blocks)
           passed == p.current..(Len(p.blocks) - 1)
           chain == [k \in DOMAIN p.blocks |->
                       IF k \in passed THEN [p.blocks[k] EXCEPT !.failed = @ + 1] ELSE p.blocks[k]]
           tired == {k \in passed : chain[k].failed > 4}
           next == IF tired = {} THEN p.current
                   ELSE 1 + CHOOSE k \in tired : \A j \in tired : j <= k
           all == Append(chain, Block(base, m + size, base + size))
           ps == Append(p.pieces, Piece(m, size))
<1>1. base \in Nat /\ m \in Nat
  BY AlignedHeader, PoolAssumption
<1>2. p.blocks \in Seq(BlockType) /\ n \in Nat /\ DOMAIN p.blocks = 1..n /\ p.current \in Nat \ {0}
  BY DEF Pools
<1>3. ASSUME NEW k \in 1..n
      PROVE  /\ chain[k] \in BlockType
             /\ chain[k].base = p.blocks[k].base
             /\ chain[k].begin = p.blocks[k].begin
             /\ chain[k].end = p.blocks[k].end
  <2>1. p.blocks[k] \in BlockType
    BY <1>2
  <2>2. \/ chain[k] = [p.blocks[k] EXCEPT !.failed = p.blocks[k].failed + 1]
        \/ chain[k] = p.blocks[k]
    BY <1>2
  <2> QED
    BY <2>1, <2>2 DEF BlockType
<1>4. chain \in Seq(BlockType) /\ Len(chain) = n
  <2>1. chain = [k \in 1..n |-> chain[k]]
    BY <1>2
  <2>2. chain \in [1..n -> BlockType]
    BY <1>2, <1>3
  <2> QED
    BY <1>2, <2>2
<1>5. Block(base, m + size, base + size) \in BlockType
  BY <1>1 DEF Block, BlockType
<1>6. next \in Nat \ {0}
  <2>1. CASE tired = {}
    BY <1>2, <2>1
  <2>2. CASE tired # {}
    <3>1. tired \in SUBSET (0..n)
      BY <1>2
    <3>2. \E k \in tired : \A j \in tired : j <= k
      BY <1>2, <2>2, <3>1, Greatest
    <3>3. PICK k \in tired : k = CHOOSE x \in tired : \A j \in tired : j <= x
      BY <3>2
    <3>4. next = 1 + k
      BY <2>2, <3>3
    <3> HIDE DEF next
    <3> QED
      BY <1>2, <3>1, <3>4
  <2> QED
    BY <2>1, <2>2
<1>7. all \in Seq(BlockType) /\ Len(all) = n + 1 /\ all[n + 1] = Block(base, m + size, base + size)
      /\ \A k \in 1..n : all[k] = chain[k]
  BY <1>2, <1>4, <1>5
<1>8. ps \in Seq(PieceType)
  <2>1. Piece(m, size) \in PieceType
    BY <1>1 DEF Piece, PieceType
  <2> QED
    BY <2>1 DEF Pools
<1>9. q = [p EXCEPT !.at = m, !.blocks = all, !.pieces = ps, !.current = next]
  BY DEF WithBlock
<1> HIDE DEF next, ps, all, chain
<1>10. q \in Pools
  <2> HIDE DEF m
  <2>1. m \in Nat \cup {None} /\ all \in Seq(BlockType)
    BY <1>1, <1>7
  <2> QED
    BY <1>6, <1>8, <1>9, <2>1 DEF Pools
<1>11. q.blocks = all /\ q.pieces = ps /\ q.strayed = p.strayed
  BY <1>9 DEF Pools
<1> QED
  BY <1>3, <1>7, <1>10, <1>11 DEF Block, ps
-----------------------------------------------------------------------------
(* An allocation keeps the pool in order *)

\* Pieces in two different blocks are apart.
LEMMA InTwoBlocks ==
  ASSUME NEW b \in Bases, NEW c \in Bases, b # c,
         NEW x \in PieceType, NEW y \in PieceType,
         b <= x.from, x.to <= b + PoolSize, c <= y.from, y.to <= c + PoolSize
  PROVE  Apart(x, y) /\ Apart(y, x)
<1>1. /\ b \in Nat /\ c \in Nat /\ PoolSize \in Nat
      /\ (b + PoolSize <= c \/ c + PoolSize <= b)
  BY PoolAssumption
<1>2. x.from \in Nat /\ x.to \in Nat /\ y.from \in Nat /\ y.to \in Nat
  BY DEF PieceType
<1> QED
  BY <1>1, <1>2 DEF Apart

\* The types of what Sound speaks of.
LEMMA BlockParts ==
  ASSUME NEW p \in Pools
  PROVE  /\ Len(p.blocks) \in Nat /\ DOMAIN p.blocks = 1..Len(p.blocks)
         /\ (p.blocks # <<>> => 1 \in DOMAIN p.blocks)
         /\ \A k \in DOMAIN p.blocks : /\ p.blocks[k].base \in Bases
                                     /\ p.blocks[k].base \in Nat
                                     /\ p.blocks[k].begin \in Nat
                                     /\ p.blocks[k].end \in Nat
         /\ Len(p.pieces) \in Nat /\ DOMAIN p.pieces = 1..Len(p.pieces)
         /\ \A i \in DOMAIN p.pieces : p.pieces[i] \in PieceType
<1>1. p.blocks \in Seq(BlockType) /\ p.pieces \in Seq(PieceType)
  BY DEF Pools
<1>2. \A k \in DOMAIN p.blocks : p.blocks[k] \in BlockType
  BY <1>1
<1>3. \A k \in DOMAIN p.blocks : /\ p.blocks[k].base \in Bases
                              /\ p.blocks[k].begin \in Nat
                              /\ p.blocks[k].end \in Nat
  BY <1>2 DEF BlockType
<1>4. \A a \in Bases : a \in Nat
  BY PoolAssumption
<1>5. p.blocks # <<>> => 1 \in DOMAIN p.blocks
  BY <1>1
<1>6. \A i \in DOMAIN p.pieces : p.pieces[i] \in PieceType
  BY <1>1
<1> QED
  BY <1>1, <1>3, <1>4, <1>5, <1>6

\* A piece that is new lies in a block and apart from the others.
LEMMA NewPiece ==
  ASSUME NEW p \in Pools, NEW q \in Pools, NEW x \in PieceType,
         q.pieces = Append(p.pieces, x),
         \A i \in DOMAIN p.pieces : \E k \in DOMAIN q.blocks : LiesIn(p.pieces[i], q, k),
         \E k \in DOMAIN q.blocks : LiesIn(x, q, k),
         \A i \in DOMAIN p.pieces : Apart(p.pieces[i], x) /\ Apart(x, p.pieces[i]),
         PiecesApart(p)
  PROVE  PiecesLie(q) /\ PiecesApart(q)
<1>1. p.pieces \in Seq(PieceType) /\ DOMAIN p.pieces = 1..Len(p.pieces) /\ Len(p.pieces) \in Nat
  BY DEF Pools
<1>2. /\ DOMAIN q.pieces = 1..(Len(p.pieces) + 1)
      /\ q.pieces[Len(p.pieces) + 1] = x
      /\ \A i \in 1..Len(p.pieces) : q.pieces[i] = p.pieces[i]
  BY <1>1
<1>3. \A i \in DOMAIN q.pieces : i \in DOMAIN p.pieces \/ i = Len(p.pieces) + 1
  BY <1>1, <1>2
<1> QED
  BY <1>1, <1>2, <1>3 DEF PiecesLie, PiecesApart

\* Cutting from the first block: the piece begins where nothing is used yet, and
\* the block is long enough for it, even if it is moved to be aligned.
LEMMA CutSound ==
  ASSUME NEW p \in Pools, Sound(p), p.blocks # <<>>, NEW size \in Nat, NEW align \in BOOLEAN,
         NEW k \in 1..Len(p.blocks), Fits(p, k, Begin(p, align), size),
         NEW q, q = CutFrom(p, k, Begin(p, align), size)
  PROVE  Sound(q)
<1> SUFFICES ASSUME ~ q.strayed
             PROVE  BlocksDiffer(q) /\ FirstBlock(q) /\ PiecesLie(q) /\ PiecesApart(q)
  BY DEF Sound
<1>1. PICK b \in Nat : b = Begin(p, align) /\ p.blocks[1].begin <= b
  BY BeginType
<1>2. /\ q \in Pools /\ Len(q.blocks) = Len(p.blocks)
      /\ q.blocks[k].begin = b + size
      /\ \A j \in 1..Len(p.blocks) :
           q.blocks[j].base = p.blocks[j].base /\ q.blocks[j].end = p.blocks[j].end
      /\ q.pieces = Append(p.pieces, Piece(b, size))
  <2>1. q = CutFrom(p, k, b, size)
    BY <1>1
  <2>2. /\ CutFrom(p, k, b, size) \in Pools
        /\ Len(CutFrom(p, k, b, size).blocks) = Len(p.blocks)
        /\ CutFrom(p, k, b, size).blocks[k].begin = b + size
        /\ \A j \in 1..Len(p.blocks) :
             /\ CutFrom(p, k, b, size).blocks[j].base = p.blocks[j].base
             /\ CutFrom(p, k, b, size).blocks[j].end = p.blocks[j].end
        /\ CutFrom(p, k, b, size).pieces = Append(p.pieces, Piece(b, size))
    BY CutParts
  <2> QED
    BY <2>1, <2>2
<1>2a. ~ p.strayed /\ k = 1
  <2>1. q = CutFrom(p, k, b, size)
    BY <1>1
  <2>2. ~ CutFrom(p, k, b, size).strayed => ~ p.strayed /\ k = 1
    BY CutParts
  <2> QED
    BY <2>1, <2>2
<1>3. BlocksDiffer(p) /\ FirstBlock(p) /\ PiecesLie(p) /\ PiecesApart(p)
  BY <1>2a DEF Sound
<1>4. PICK base \in Bases : base = p.blocks[1].base
  BY BlockParts
<1>5. /\ base \in Nat /\ p.blocks[1].begin \in Nat /\ p.blocks[1].end = base + PoolSize
      /\ base + SizeofPool <= p.blocks[1].begin /\ p.blocks[1].begin <= base + PoolSize
      /\ PoolSize \in Nat /\ SizeofPool \in Nat /\ SizeofData \in Nat
  BY <1>3, <1>4, BlockParts, PoolAssumption DEF FirstBlock
<1>6. b <= base + PoolSize
  <2>1. CASE align
    BY <1>1, <1>5, <2>1, AlignedInBlock DEF Begin
  <2>2. CASE ~ align
    BY <1>1, <1>5, <2>2 DEF Begin
  <2> QED
    BY <2>1, <2>2
<1>7. b + size <= base + PoolSize
  BY <1>1, <1>2a, <1>5, <1>6 DEF Fits
<1>8. /\ DOMAIN q.blocks = DOMAIN p.blocks
      /\ 1 \in DOMAIN p.blocks
      /\ \A j \in DOMAIN p.blocks : q.blocks[j].base = p.blocks[j].base
      /\ q.blocks[1].begin = b + size
      /\ q.blocks[1].base = base
      /\ q.blocks[1].end = base + PoolSize
  BY <1>2, <1>2a, <1>4, <1>5, BlockParts
<1>9. BlocksDiffer(q)
  BY <1>3, <1>8 DEF BlocksDiffer
<1>10. FirstBlock(q)
  <2>1. q.blocks # <<>>
    BY <1>8
  <2> QED
    BY <1>1, <1>5, <1>7, <1>8, <2>1 DEF FirstBlock
<1>11. /\ Piece(b, size) \in PieceType
       /\ Piece(b, size).from = b /\ Piece(b, size).to = b + size
  BY DEF Piece, PieceType
<1>12. LiesIn(Piece(b, size), q, 1)
  BY <1>1, <1>5, <1>7, <1>8, <1>11 DEF LiesIn
<1>13. ASSUME NEW i \in DOMAIN p.pieces
       PROVE  /\ \E j \in DOMAIN q.blocks : LiesIn(p.pieces[i], q, j)
              /\ Apart(p.pieces[i], Piece(b, size)) /\ Apart(Piece(b, size), p.pieces[i])
  <2>1. PICK x \in PieceType : x = p.pieces[i] /\ x.from \in Nat /\ x.to \in Nat
    BY BlockParts DEF PieceType
  <2>2. PICK j \in DOMAIN p.blocks : LiesIn(x, p, j)
    BY <1>3, <2>1 DEF PiecesLie
  <2>3. j = 1 => x.to <= b
    BY <1>1, <1>5, <2>1, <2>2 DEF LiesIn
  <2>4. LiesIn(x, q, j)
    BY <1>1, <1>8, <2>1, <2>2, <2>3 DEF LiesIn
  <2>5. Apart(x, Piece(b, size)) /\ Apart(Piece(b, size), x)
    <3>1. CASE j = 1
      BY <1>11, <2>3, <3>1 DEF Apart
    <3>2. CASE j # 1
      <4>1. PICK c \in Bases : c = p.blocks[j].base /\ c \in Nat /\ c # base
        BY <1>3, <1>4, <1>8, <3>2, BlockParts DEF BlocksDiffer
      <4>2. c <= x.from /\ x.to <= c + PoolSize
        <5>1. x.from >= c + SizeofData /\ x.to <= c + PoolSize
          BY <2>2, <3>2, <4>1 DEF LiesIn
        <5>2. c \in Nat /\ x.from \in Nat /\ SizeofData \in Nat
          BY <1>5, <2>1, <4>1
        <5>3. c <= x.from
          BY <5>1, <5>2
        <5> QED
          BY <5>1, <5>3
      <4>3. base <= Piece(b, size).from /\ Piece(b, size).to <= base + PoolSize
        BY <1>1, <1>5, <1>7, <1>11
      <4> QED
        BY <1>11, <4>1, <4>2, <4>3, InTwoBlocks
    <3> QED
      BY <3>1, <3>2
  <2> QED
    BY <1>8, <2>1, <2>4, <2>5
<1>14. PiecesLie(q) /\ PiecesApart(q)
  BY <1>2, <1>3, <1>8, <1>11, <1>12, <1>13, NewPiece
<1> QED
  BY <1>9, <1>10, <1>14

\* A new block has no address of another one, and room for the piece.
LEMMA WithBlockSound ==
  ASSUME NEW p \in Pools, Sound(p), p.blocks # <<>>, NEW size \in Nat,
         size <= PoolSize - SizeofPool, NEW base \in FreeBases(p),
         NEW q, q = WithBlock(p, base, size)
  PROVE  Sound(q)
<1> SUFFICES ASSUME ~ q.strayed
             PROVE  BlocksDiffer(q) /\ FirstBlock(q) /\ PiecesLie(q) /\ PiecesApart(q)
  BY DEF Sound
<1>1. /\ base \in Bases /\ base \in Nat
      /\ \A k \in DOMAIN p.blocks : p.blocks[k].base # base
  BY PoolAssumption DEF FreeBases
<1>2. PICK m \in Nat, n \in Nat : m = AlignUp(base + SizeofData) /\ n = Len(p.blocks)
  BY <1>1, AlignedHeader, BlockParts
<1>3. /\ q \in Pools /\ q.pieces = Append(p.pieces, Piece(m, size)) /\ q.strayed = p.strayed
      /\ Len(q.blocks) = n + 1 /\ q.blocks[n + 1].base = base
      /\ \A k \in 1..n : /\ q.blocks[k].base = p.blocks[k].base
                        /\ q.blocks[k].begin = p.blocks[k].begin
                        /\ q.blocks[k].end = p.blocks[k].end
  <2>1. LET z == AlignUp(base + SizeofData)
             c == Len(p.blocks)
        IN  /\ q \in Pools /\ q.pieces = Append(p.pieces, Piece(z, size)) /\ q.strayed = p.strayed
            /\ Len(q.blocks) = c + 1 /\ q.blocks[c + 1].base = base
            /\ \A k \in 1..c : /\ q.blocks[k].base = p.blocks[k].base
                              /\ q.blocks[k].begin = p.blocks[k].begin
                              /\ q.blocks[k].end = p.blocks[k].end
    BY <1>1, WithBlockParts
  <2> QED
    BY <1>2, <2>1
<1>4. /\ DOMAIN p.blocks = 1..n /\ DOMAIN q.blocks = 1..(n + 1) /\ n >= 1
      /\ \A k \in DOMAIN q.blocks : k \in 1..n \/ k = n + 1
  <2>1. DOMAIN p.blocks = 1..n /\ 1 \in DOMAIN p.blocks
    BY <1>2, BlockParts
  <2>2. DOMAIN q.blocks = 1..(n + 1)
    BY <1>3, BlockParts
  <2>3. n >= 1 /\ \A k \in 1..(n + 1) : k \in 1..n \/ k = n + 1
    BY <2>1
  <2> QED
    BY <2>1, <2>2, <2>3
<1>5. BlocksDiffer(p) /\ FirstBlock(p) /\ PiecesLie(p) /\ PiecesApart(p)
  BY <1>3 DEF Sound
<1>6. BlocksDiffer(q)
  <2>1. ASSUME NEW j \in 1..n, NEW k \in 1..n, j # k
        PROVE  q.blocks[j].base # q.blocks[k].base
    <3>1. p.blocks[j].base # p.blocks[k].base
      BY <1>4, <1>5, <2>1 DEF BlocksDiffer
    <3> QED
      BY <1>3, <3>1
  <2>2. \A k \in 1..n : q.blocks[k].base # base
    BY <1>1, <1>3, <1>4
  <2> QED
    BY <1>3, <1>4, <2>1, <2>2 DEF BlocksDiffer
<1>7. FirstBlock(q)
  <2>1. q.blocks # <<>> /\ 1 \in 1..n
    BY <1>4
  <2> QED
    BY <1>3, <1>5, <2>1 DEF FirstBlock
<1>8. /\ Piece(m, size) \in PieceType
      /\ Piece(m, size).from = m /\ Piece(m, size).to = m + size
  BY DEF Piece, PieceType
<1>9. /\ base + SizeofData <= m /\ m + size <= base + PoolSize
      /\ PoolSize \in Nat /\ SizeofPool \in Nat /\ SizeofData \in Nat
  BY <1>1, <1>2, AlignedHeader, PoolAssumption
<1>10. LiesIn(Piece(m, size), q, n + 1)
  BY <1>1, <1>3, <1>4, <1>8, <1>9 DEF LiesIn
<1>11. ASSUME NEW i \in DOMAIN p.pieces
       PROVE  /\ \E j \in DOMAIN q.blocks : LiesIn(p.pieces[i], q, j)
              /\ Apart(p.pieces[i], Piece(m, size)) /\ Apart(Piece(m, size), p.pieces[i])
  <2>1. PICK x \in PieceType : x = p.pieces[i] /\ x.from \in Nat /\ x.to \in Nat
    BY BlockParts DEF PieceType
  <2>2. PICK j \in DOMAIN p.blocks : LiesIn(x, p, j)
    BY <1>5, <2>1 DEF PiecesLie
  <2>3. LiesIn(x, q, j) /\ j \in DOMAIN q.blocks
    <3>1. 1 \in 1..n
      BY <1>4
    <3> QED
      BY <1>3, <1>4, <2>2, <3>1 DEF LiesIn
  <2>4. PICK c \in Bases : c = p.blocks[j].base /\ c \in Nat /\ c # base
    BY <1>1, BlockParts
  <2>5. c <= x.from /\ x.to <= c + PoolSize
    <3>1. CASE j = 1
      BY <1>9, <2>1, <2>2, <2>4, <3>1 DEF LiesIn
    <3>2. CASE j # 1
      BY <1>9, <2>1, <2>2, <2>4, <3>2 DEF LiesIn
    <3> QED
      BY <3>1, <3>2
  <2>6. base <= Piece(m, size).from /\ Piece(m, size).to <= base + PoolSize
    BY <1>1, <1>8, <1>9
  <2>7. Apart(x, Piece(m, size)) /\ Apart(Piece(m, size), x)
    BY <1>1, <1>8, <2>4, <2>5, <2>6, InTwoBlocks
  <2> QED
    BY <2>1, <2>3, <2>7
<1>12. PiecesLie(q) /\ PiecesApart(q)
  BY <1>3, <1>4, <1>5, <1>8, <1>10, <1>11, NewPiece
<1> QED
  BY <1>6, <1>7, <1>12

LEMMA SmallSound ==
  ASSUME NEW p \in Pools, Sound(p), p.blocks # <<>>, NEW size \in Nat,
         size <= PoolSize - SizeofPool, NEW align \in BOOLEAN, NEW q \in Small(p, size, align)
  PROVE  q \in Pools /\ q.blocks # <<>> /\ Sound(q)
<1>1. ASSUME NEW k \in 1..Len(p.blocks), Fits(p, k, Begin(p, align), size),
             q = CutFrom(p, k, Begin(p, align), size)
      PROVE  q \in Pools /\ q.blocks # <<>> /\ Sound(q)
  <2>1. PICK b \in Nat : q = CutFrom(p, k, b, size)
    BY <1>1, BeginType
  <2>2. q \in Pools /\ Len(q.blocks) = Len(p.blocks)
    BY <2>1, CutIsPool
  <2>3. q.blocks # <<>>
    BY <2>2, BlockParts
  <2> QED
    BY <1>1, <2>2, <2>3, CutSound
<1>2. ASSUME NEW base \in FreeBases(p), q = WithBlock(p, base, size)
      PROVE  q \in Pools /\ q.blocks # <<>> /\ Sound(q)
  <2>1. base \in Bases
    BY DEF FreeBases
  <2>2. q \in Pools /\ Len(q.blocks) = Len(p.blocks) + 1
    BY <1>2, <2>1, WithBlockParts
  <2>3. q.blocks # <<>>
    BY <2>2, BlockParts
  <2> QED
    BY <1>2, <2>2, <2>3, WithBlockSound
<1>3. ASSUME q = [p EXCEPT !.at = None]
      PROVE  q \in Pools /\ q.blocks # <<>> /\ Sound(q)
  <2>1. /\ q \in Pools /\ q.blocks = p.blocks /\ q.pieces = p.pieces /\ q.strayed = p.strayed
    BY <1>3 DEF Pools
  <2> QED
    BY <2>1 DEF Sound, BlocksDiffer, FirstBlock, PiecesLie, PiecesApart, LiesIn
<1> QED
  <2>1. \A k \in p.current..Len(p.blocks) : k \in 1..Len(p.blocks)
    BY BlockParts DEF Pools
  <2> QED
    BY <1>1, <1>2, <1>3, <2>1, SmallOutcomes
-----------------------------------------------------------------------------
(* The small pieces *)

\* The pool becomes what an allocation has made of it.
LEMMA Becoming ==
  ASSUME NEW q \in Pools, Becomes(q)
  PROVE  /\ now' \in Pools
         /\ Sound(q) => Sound(now)'
<1>1. /\ blocks' = q.blocks /\ current' = q.current
      /\ pieces' = q.pieces /\ strayed' = q.strayed
  BY DEF Becomes
<1>2. now' \in Pools
  BY <1>1 DEF now, Pools
<1>3. /\ now'.blocks = q.blocks /\ now'.pieces = q.pieces /\ now'.strayed = q.strayed
  BY <1>1 DEF now
<1>4. ASSUME Sound(q) PROVE Sound(now)'
  BY <1>3, <1>4
  DEF Sound, BlocksDiffer, FirstBlock, PiecesLie, PiecesApart, LiesIn, Apart
<1> QED
  BY <1>2, <1>4

\* In a pool that is live and not strayed an allocation can be made.
LEMMA LivePool ==
  ASSUME TypeOK, SmallInv, Live
  PROVE  now \in Pools /\ Sound(now) /\ now.blocks # <<>>
<1>1. now \in Pools /\ Sound(now)
  BY DEF TypeOK, SmallInv, Live
<1>2. ~ now.strayed
  BY DEF Live, now
<1> QED
  BY <1>1, <1>2 DEF Sound, FirstBlock

LEMMA SizesFit ==
  /\ \A size \in Sizes : size <= max_size => size \in Nat /\ size <= PoolSize - SizeofPool
  /\ SizeofLarge \in Nat /\ SizeofLarge <= PoolSize - SizeofPool
  /\ SizeofCleanup \in Nat /\ SizeofCleanup <= PoolSize - SizeofPool
  /\ SizeofFile \in Nat /\ SizeofFile <= PoolSize - SizeofPool
<1>1. /\ max_size \in Int /\ max_size <= PoolSize - SizeofPool
      /\ PoolSize - SizeofPool \in Nat
  BY PoolAssumption DEF max_size
<1>2. SizeofCleanup \in 1..max_size /\ SizeofFile \in 1..max_size
      /\ SizeofLarge \in 1..(PoolSize - SizeofPool)
  BY PoolAssumption
<1>3. \A size \in Sizes : size \in Nat
  BY PoolAssumption
<1> QED
  BY <1>1, <1>2, <1>3

\* What a step does to the small pieces, if anything.
LEMMA SmallStep ==
  ASSUME TypeOK, SmallInv, Next
  PROVE  now' \in Pools /\ SmallInv'
<1>1. CASE UNCHANGED <<pool, smallVars>>
  BY <1>1
  DEF smallVars, now, TypeOK, SmallInv, Sound, BlocksDiffer, FirstBlock, PiecesLie, PiecesApart,
      LiesIn, Apart
<1>2. ASSUME Live, UNCHANGED pool, NEW q \in Pools, Sound(q), Becomes(q)
      PROVE  now' \in Pools /\ SmallInv'
  <2>1. now' \in Pools /\ Sound(now)' /\ pool' = "live"
    BY <1>2, Becoming DEF Live
  <2> QED
    BY <2>1 DEF SmallInv
<1>3. CASE Create
  <2>1. PICK base \in Bases : blocks' = <<Block(base, base + SizeofPool, base + PoolSize)>>
    BY <1>3 DEF Create
  <2>2. /\ base \in Nat /\ SizeofPool \in Nat /\ PoolSize \in Nat /\ SizeofPool < PoolSize
    BY PoolAssumption
  <2>3. Block(base, base + SizeofPool, base + PoolSize) \in BlockType
    BY <2>2 DEF Block, BlockType
  <2>4. blocks' \in Seq(BlockType)
    BY <2>1, <2>3
  <2>5. /\ Len(blocks') = 1 /\ DOMAIN blocks' = {1} /\ blocks'[1].base = base
        /\ blocks'[1].begin = base + SizeofPool /\ blocks'[1].end = base + PoolSize
    BY <2>1 DEF Block
  <2>6. pieces = <<>> /\ UNCHANGED <<current, pieces, strayed>> /\ pool' = "live"
    BY <1>3 DEF Create, SmallInv
  <2>7. now' \in Pools
    BY <2>4, <2>6 DEF TypeOK, now, Pools
  <2>8. /\ now'.blocks = blocks' /\ now'.pieces = <<>>
    BY <2>6 DEF now
  <2>9. Sound(now')
    <3>1. BlocksDiffer(now')
      BY <2>5, <2>8 DEF BlocksDiffer
    <3>2. FirstBlock(now')
      <4>1. blocks' # <<>>
        BY <2>1
      <4> QED
        BY <2>2, <2>5, <2>8, <4>1 DEF FirstBlock
    <3>3. PiecesLie(now') /\ PiecesApart(now')
      BY <2>8 DEF PiecesLie, PiecesApart
    <3> QED
      BY <3>1, <3>2, <3>3 DEF Sound
  <2>10. Sound(now)'
    BY <2>9 DEF Sound, BlocksDiffer, FirstBlock, PiecesLie, PiecesApart, LiesIn, Apart
  <2> QED
    BY <2>6, <2>7, <2>10 DEF SmallInv
<1>4. ASSUME NEW size \in Sizes, NEW align \in BOOLEAN, PallocSmall(size, align)
      PROVE  now' \in Pools /\ SmallInv'
  <2>1. Live /\ size <= max_size /\ UNCHANGED pool
    BY <1>4 DEF PallocSmall
  <2>2. PICK q \in Small(now, size, align) : Becomes(q)
    BY <1>4 DEF PallocSmall
  <2>3. q \in Pools /\ Sound(q)
    BY <2>1, LivePool, SizesFit, SmallSound
  <2> QED
    BY <1>2, <2>1, <2>2, <2>3
<1>5. ASSUME Live, UNCHANGED pool, NEW l, Link(l)
      PROVE  now' \in Pools /\ SmallInv'
  <2>1. PICK q \in Small(now, SizeofLarge, TRUE) : Becomes(q)
    BY <1>5 DEF Link
  <2>2. q \in Pools /\ Sound(q)
    BY <1>5, LivePool, SizesFit, SmallSound
  <2> QED
    BY <1>2, <1>5, <2>1, <2>2
<1>6. CASE PallocLarge
  <2>1. Live /\ UNCHANGED pool /\ \E l : Reuse(l) \/ Link(l)
    BY <1>6 DEF PallocLarge
  <2>2. CASE \E l : Reuse(l)
    BY <1>1, <2>1, <2>2 DEF Reuse
  <2> QED
    BY <1>5, <2>1, <2>2
<1>7. CASE Pmemalign
  <2>1. Live /\ UNCHANGED pool /\ \E l : Link(l)
    BY <1>7 DEF Pmemalign
  <2> QED
    BY <1>5, <2>1
<1>8. ASSUME NEW l \in Larges, Pfree(l)
      PROVE  now' \in Pools /\ SmallInv'
  BY <1>1, <1>8 DEF Pfree
<1>9. ASSUME NEW f \in Files, RunCleanupFile(f)
      PROVE  now' \in Pools /\ SmallInv'
  BY <1>1, <1>9 DEF RunCleanupFile
<1>10. ASSUME NEW f \in Files, NEW h \in Handlers, CleanupAdd(f, h)
       PROVE  now' \in Pools /\ SmallInv'
  <2>1. Live /\ UNCHANGED pool
    BY <1>10 DEF CleanupAdd
  <2>2. PICK p \in Small(now, SizeofCleanup, TRUE) :
          \/ Becomes(p)
          \/ \E q \in Small(p, SizeofFile, TRUE) : Becomes(q)
    BY <1>10 DEF CleanupAdd
  <2>3. p \in Pools /\ p.blocks # <<>> /\ Sound(p)
    BY <2>1, LivePool, SizesFit, SmallSound
  <2>4. ASSUME NEW q \in Small(p, SizeofFile, TRUE), Becomes(q)
        PROVE  now' \in Pools /\ SmallInv'
    <3>1. q \in Pools /\ Sound(q)
      BY <2>3, SizesFit, SmallSound
    <3> QED
      BY <1>2, <2>1, <2>4, <3>1
  <2> QED
    BY <1>2, <2>1, <2>2, <2>3, <2>4
<1>11. CASE Reset
  <2>1. now \in Pools /\ Sound(now) /\ ~ strayed /\ pool = "live"
    BY <1>11, LivePool DEF Reset, Live
  <2>2. /\ blocks' = [k \in DOMAIN blocks |->
                      [blocks[k] EXCEPT !.begin = blocks[k].base + SizeofPool, !.failed = 0]]
        /\ current' = 1 /\ pieces' = <<>> /\ UNCHANGED <<pool, strayed>>
    BY <1>11 DEF Reset, cleanVars
  <2>3. /\ now.blocks = blocks /\ now'.blocks = blocks' /\ now'.pieces = <<>>
    BY <2>2 DEF now
  <2>4. /\ blocks \in Seq(BlockType) /\ Len(blocks) \in Nat /\ DOMAIN blocks = 1..Len(blocks)
        /\ 1 \in DOMAIN blocks
        /\ \A k \in DOMAIN blocks : blocks[k] \in BlockType
        /\ BlocksDiffer(now) /\ FirstBlock(now)
    <3>1. BlocksDiffer(now) /\ FirstBlock(now)
      BY <2>1 DEF Sound, now
    <3>2. blocks \in Seq(BlockType) /\ blocks # <<>>
      BY <2>1, <3>1 DEF now, Pools, FirstBlock
    <3> QED
      BY <3>1, <3>2
  <2>5. \A a \in Bases : a \in Nat
    BY PoolAssumption
  <2>6. /\ SizeofPool \in Nat /\ PoolSize \in Nat /\ SizeofPool < PoolSize
    BY PoolAssumption
  <2>7. \A k \in DOMAIN blocks :
          /\ blocks'[k] \in BlockType
          /\ blocks'[k].base = blocks[k].base /\ blocks'[k].end = blocks[k].end
          /\ blocks'[k].begin = blocks[k].base + SizeofPool
    <3>1. ASSUME NEW k \in DOMAIN blocks, NEW b \in BlockType, b = blocks[k]
          PROVE  /\ blocks'[k] = [b EXCEPT !.begin = b.base + SizeofPool, !.failed = 0]
                 /\ b.base + SizeofPool \in Nat
      <4>1. b.base \in Nat
        BY <2>5 DEF BlockType
      <4>2. blocks'[k] = [blocks[k] EXCEPT !.begin = blocks[k].base + SizeofPool, !.failed = 0]
        BY <2>2
      <4>3. b.base + SizeofPool \in Nat
        BY <2>6, <4>1
      <4> QED
        BY <3>1, <4>2, <4>3
    <3> QED
      <4>1. ASSUME NEW k \in DOMAIN blocks
            PROVE  /\ blocks'[k] \in BlockType
                   /\ blocks'[k].base = blocks[k].base /\ blocks'[k].end = blocks[k].end
                   /\ blocks'[k].begin = blocks[k].base + SizeofPool
        <5>1. PICK b \in BlockType : b = blocks[k]
          BY <2>4
        <5>2. PICK n \in Nat : n = b.base + SizeofPool
          BY <3>1, <5>1
        <5>3. blocks'[k] = [b EXCEPT !.begin = n, !.failed = 0]
          BY <3>1, <5>1, <5>2
        <5>4. /\ blocks'[k] \in BlockType
              /\ blocks'[k].base = b.base /\ blocks'[k].end = b.end /\ blocks'[k].begin = n
          <6>1. PICK c : c = blocks'[k]
            OBVIOUS
          <6>2. c = [b EXCEPT !.begin = n, !.failed = 0]
            BY <5>3, <6>1
          <6>3. c \in BlockType /\ c.base = b.base /\ c.end = b.end /\ c.begin = n
            BY <6>2 DEF BlockType
          <6> QED
            BY <6>1, <6>3
        <5> QED
          BY <5>1, <5>2, <5>4
      <4> QED
        BY <4>1
  <2>8. blocks' \in Seq(BlockType) /\ DOMAIN blocks' = DOMAIN blocks
    <3>1. PICK n \in Nat : n = Len(blocks)
      BY <2>4
    <3>2. DOMAIN blocks' = 1..n /\ blocks' = [k \in 1..n |-> blocks'[k]]
      BY <2>2, <2>4, <3>1
    <3>3. blocks' \in [1..n -> BlockType]
      BY <2>4, <2>7, <3>1, <3>2
    <3>4. blocks' \in Seq(BlockType)
      BY <3>1, <3>3
    <3>5. DOMAIN blocks' = DOMAIN blocks
      BY <2>2
    <3> QED
      BY <3>4, <3>5
  <2>9. now' \in Pools
    <3>1. current' = 1 /\ pieces' = <<>> /\ strayed' \in BOOLEAN
      BY <2>1, <2>2 DEF now, Pools
    <3>2. 1 \in Nat \ {0} /\ <<>> \in Seq(PieceType)
      OBVIOUS
    <3> QED
      BY <2>8, <3>1, <3>2 DEF now, Pools
  <2>10. BlocksDiffer(now')
    BY <2>3, <2>4, <2>7, <2>8 DEF BlocksDiffer
  <2>11. FirstBlock(now')
    <3>1. blocks'# <<>>
      BY <2>4, <2>8
    <3>2. blocks[1].base \in Nat /\ blocks[1].end = blocks[1].base + PoolSize
      BY <2>3, <2>4, <2>5 DEF BlockType, FirstBlock
    <3> QED
      BY <2>3, <2>4, <2>6, <2>7, <3>1, <3>2 DEF FirstBlock
  <2>12. PiecesLie(now') /\ PiecesApart(now')
    BY <2>3 DEF PiecesLie, PiecesApart
  <2>13. Sound(now)'
    BY <2>10, <2>11, <2>12
    DEF Sound, BlocksDiffer, FirstBlock, PiecesLie, PiecesApart, LiesIn, Apart
  <2> QED
    BY <2>1, <2>2, <2>9, <2>13 DEF SmallInv
<1>12. CASE Destroy
  <2>1. now \in Pools /\ now.blocks # <<>>
    BY <1>12, LivePool DEF Destroy
  <2>2. blocks \in Seq(BlockType) /\ blocks # <<>>
    BY <2>1 DEF now, Pools
  <2>3. blocks[Len(blocks)] \in BlockType
    BY <2>2
  <2>4. blocks' \in Seq(BlockType)
    BY <1>12, <2>3 DEF Destroy
  <2>5. now' \in Pools
    BY <1>12, <2>1, <2>4 DEF Destroy, now, Pools
  <2> QED
    BY <1>12, <2>5 DEF Destroy, SmallInv
<1> QED
  BY <1>3, <1>4, <1>6, <1>7, <1>8, <1>9, <1>10, <1>11, <1>12 DEF Next
-----------------------------------------------------------------------------
(* Lists of nodes *)

\* A node is put before those of a list.
LEMMA Linked ==
  ASSUME NEW S, NEW s \in Seq(S), NEW e \in S
  PROVE  /\ <<e>> \o s \in Seq(S)
         /\ (<<e>> \o s)[1] = e
         /\ 1 \in DOMAIN (<<e>> \o s)
         /\ \A k \in DOMAIN s : k + 1 \in DOMAIN (<<e>> \o s) /\ (<<e>> \o s)[k + 1] = s[k]
         /\ \A k \in DOMAIN (<<e>> \o s) :
              k = 1 \/ (k - 1 \in DOMAIN s /\ (<<e>> \o s)[k] = s[k - 1])
<1>1. PICK n \in Nat : n = Len(s)
  OBVIOUS
<1>2. DOMAIN s = 1..n
  BY <1>1
<1>3. <<e>> \o s \in Seq(S) /\ Len(<<e>> \o s) = n + 1
  BY <1>1
<1>4. DOMAIN (<<e>> \o s) = 1..(n + 1)
  BY <1>3
<1>5. (<<e>> \o s)[1] = e
  BY <1>1
<1>6. \A k \in 2..(n + 1) : (<<e>> \o s)[k] = s[k - 1]
  BY <1>1
<1>7. \A k \in 1..n : k + 1 \in 1..(n + 1) /\ (<<e>> \o s)[k + 1] = s[k]
  <2>1. ASSUME NEW k \in 1..n PROVE k + 1 \in 1..(n + 1) /\ (<<e>> \o s)[k + 1] = s[k]
    <3>1. PICK m \in 2..(n + 1) : m = k + 1
      OBVIOUS
    <3>2. m - 1 = k
      BY <3>1
    <3>3. PICK t : t = <<e>> \o s
      OBVIOUS
    <3>4. t[m] = s[m - 1]
      BY <1>6, <3>3
    <3>5. t[m] = s[k]
      BY <3>2, <3>4
    <3>6. k + 1 \in 1..(n + 1)
      OBVIOUS
    <3>7. t[k + 1] = s[k]
      BY <3>1, <3>5
    <3> QED
      BY <3>3, <3>6, <3>7
  <2> QED
    BY <2>1
<1> QED
  BY <1>2, <1>3, <1>4, <1>5, <1>6, <1>7

\* A node is changed.
LEMMA Changed ==
  ASSUME NEW S, NEW s \in Seq(S), NEW i \in DOMAIN s, NEW e \in S
  PROVE  /\ [s EXCEPT ![i] = e] \in Seq(S)
         /\ DOMAIN [s EXCEPT ![i] = e] = DOMAIN s
         /\ [s EXCEPT ![i] = e][i] = e
         /\ \A k \in DOMAIN s : k # i => [s EXCEPT ![i] = e][k] = s[k]
<1>1. i \in 1..Len(s)
  OBVIOUS
<1> QED
  BY <1>1, ExceptSeq

-----------------------------------------------------------------------------
(* The large pieces *)

\* What a step does to the list of large pieces, if anything.
LEMMA LargeStep ==
  ASSUME TypeOK, LargeInv, Next
  PROVE  /\ large' \in Seq(Larges \cup {None})
         /\ heap' \in [Larges -> {"fresh", "live", "freed"}]
         /\ LargeInv'
<1>1. /\ large \in Seq(Larges \cup {None}) /\ heap \in [Larges -> {"fresh", "live", "freed"}]
      /\ None \notin Larges
  BY PoolAssumption DEF TypeOK
<1>2. ASSUME UNCHANGED <<large, heap>>
      PROVE  /\ large' \in Seq(Larges \cup {None})
             /\ heap' \in [Larges -> {"fresh", "live", "freed"}]
             /\ LargeInv'
  BY <1>1, <1>2 DEF LargeInv
<1>3. ASSUME NEW l \in Fresh, Reuse(l), Reusable # {}
      PROVE  /\ large' \in Seq(Larges \cup {None})
             /\ heap' \in [Larges -> {"fresh", "live", "freed"}]
             /\ LargeInv'
  <2>1. Reusable \in SUBSET Nat
    <3>1. DOMAIN large = 1..Len(large)
      BY <1>1
    <3> QED
      BY <3>1 DEF Reusable
  <2>2. \E i \in Reusable : \A j \in Reusable : i <= j
    BY <1>3, <2>1, Least
  <2>3. PICK i \in Reusable : i = CHOOSE x \in Reusable : \A j \in Reusable : x <= j
    BY <2>2
  <2>4. i \in DOMAIN large /\ large[i] = None
    BY DEF Reusable
  <2>5. large' = [large EXCEPT ![i] = l] /\ heap' = [heap EXCEPT ![l] = "live"]
    BY <1>3, <2>3 DEF Reuse
  <2>6. l \in Larges /\ heap[l] = "fresh" /\ l # None
    BY <1>1 DEF Fresh
  <2>7. /\ large' \in Seq(Larges \cup {None}) /\ DOMAIN large' = DOMAIN large
        /\ large'[i] = l /\ \A k \in DOMAIN large : k # i => large'[k] = large[k]
    BY <1>1, <2>4, <2>5, <2>6, Changed
  <2>8. \A k \in DOMAIN large : large[k] # l
    BY <2>6 DEF LargeInv
  <2>9. heap' \in [Larges -> {"fresh", "live", "freed"}]
    BY <1>1, <2>5, <2>6
  <2>10. \A x \in Larges : heap'[x] = IF x = l THEN "live" ELSE heap[x]
    BY <1>1, <2>5, <2>6
  <2>11. \A x \in Larges : heap'[x] = "live" <=> \E k \in DOMAIN large' : large'[k] = x
    <3>1. ASSUME NEW x \in Larges, x # l
          PROVE  heap'[x] = "live" <=> \E k \in DOMAIN large' : large'[k] = x
      <4>1. heap'[x] = "live" <=> \E k \in DOMAIN large : large[k] = x
        BY <2>10, <3>1 DEF LargeInv
      <4>2. \A k \in DOMAIN large : large'[k] = x <=> large[k] = x
        BY <1>1, <2>4, <2>7, <3>1
      <4> QED
        BY <2>7, <4>1, <4>2
    <3>2. heap'[l] = "live" /\ \E k \in DOMAIN large' : large'[k] = l
      BY <2>4, <2>6, <2>7, <2>10
    <3> QED
      BY <3>1, <3>2
  <2>12. \A j, k \in DOMAIN large' : large'[j] = large'[k] /\ large'[j] # None => j = k
    BY <2>7, <2>8 DEF LargeInv
  <2> QED
    BY <2>7, <2>9, <2>11, <2>12 DEF LargeInv
<1>4. ASSUME NEW l \in Fresh, Link(l)
      PROVE  /\ large' \in Seq(Larges \cup {None})
             /\ heap' \in [Larges -> {"fresh", "live", "freed"}]
             /\ LargeInv'
  <2>1. l \in Larges /\ heap[l] = "fresh" /\ l # None
    BY <1>1 DEF Fresh
  <2>2. \A k \in DOMAIN large : large[k] # l
    BY <2>1 DEF LargeInv
  <2>3. CASE heap' = [heap EXCEPT ![l] = "freed"] /\ UNCHANGED large
    <3>1. heap' \in [Larges -> {"fresh", "live", "freed"}]
      BY <1>1, <2>1, <2>3
    <3>2. \A x \in Larges : heap'[x] = IF x = l THEN "freed" ELSE heap[x]
      BY <1>1, <2>1, <2>3
    <3> QED
      BY <1>1, <2>1, <2>2, <2>3, <3>1, <3>2 DEF LargeInv
  <2>4. CASE heap' = [heap EXCEPT ![l] = "live"] /\ large' = <<l>> \o large
    <3>1. heap' \in [Larges -> {"fresh", "live", "freed"}]
      BY <1>1, <2>1, <2>4
    <3>2. \A x \in Larges : heap'[x] = IF x = l THEN "live" ELSE heap[x]
      BY <1>1, <2>1, <2>4
    <3>3. /\ large' \in Seq(Larges \cup {None})
          /\ large'[1] = l /\ 1 \in DOMAIN large'
          /\ \A k \in DOMAIN large : k + 1 \in DOMAIN large' /\ large'[k + 1] = large[k]
          /\ \A k \in DOMAIN large' : k = 1 \/ (k - 1 \in DOMAIN large /\ large'[k] = large[k - 1])
      <4>1. l \in Larges \cup {None}
        BY <2>1
      <4> QED
        BY <1>1, <2>4, <4>1, Linked
    <3>4. \A x \in Larges : heap'[x] = "live" <=> \E i \in DOMAIN large' : large'[i] = x
      BY <2>1, <2>2, <3>2, <3>3 DEF LargeInv
    <3>5. \A i, j \in DOMAIN large' : large'[i] = large'[j] /\ large'[i] # None => i = j
      <4>1. \A k \in DOMAIN large' : k \in Int
        BY <3>3
      <4>2. ASSUME NEW i \in DOMAIN large', NEW j \in DOMAIN large',
                   large'[i] = large'[j], large'[i] # None, i # 1, j # 1
            PROVE  i = j
        <5>1. i - 1 \in DOMAIN large /\ j - 1 \in DOMAIN large
              /\ large'[i] = large[i - 1] /\ large'[j] = large[j - 1]
          BY <3>3, <4>2
        <5>2. i - 1 = j - 1
          BY <4>2, <5>1 DEF LargeInv
        <5> QED
          BY <4>1, <5>2
      <4> QED
        BY <2>2, <3>3, <4>2
    <3> QED
      BY <3>1, <3>3, <3>4, <3>5 DEF LargeInv
  <2> QED
    BY <1>4, <2>3, <2>4 DEF Link
<1>5. ASSUME NEW l \in Larges, Pfree(l)
      PROVE  /\ large' \in Seq(Larges \cup {None})
             /\ heap' \in [Larges -> {"fresh", "live", "freed"}]
             /\ LargeInv'
  <2>1. PICK i \in DOMAIN large : large[i] = l /\ large' = [large EXCEPT ![i] = None]
    BY <1>5 DEF Pfree, ClearedIn
  <2>2. heap' = [heap EXCEPT ![l] = "freed"] /\ l # None
    BY <1>1, <1>5 DEF Pfree
  <2>3. /\ large' \in Seq(Larges \cup {None}) /\ DOMAIN large' = DOMAIN large
        /\ large'[i] = None /\ \A k \in DOMAIN large : k # i => large'[k] = large[k]
    <3>1. None \in Larges \cup {None}
      OBVIOUS
    <3> QED
      BY <1>1, <2>1, <3>1, Changed
  <2>4. heap' \in [Larges -> {"fresh", "live", "freed"}]
    BY <1>1, <2>2
  <2>5. \A x \in Larges : heap'[x] = IF x = l THEN "freed" ELSE heap[x]
    BY <1>1, <2>2
  <2>6. \A k \in DOMAIN large : large[k] = l => k = i
    BY <2>1, <2>2 DEF LargeInv
  <2> QED
    BY <1>1, <2>1, <2>2, <2>3, <2>4, <2>5, <2>6 DEF LargeInv
<1>6. ASSUME LargesFreed, large' = <<>>
      PROVE  /\ large' \in Seq(Larges \cup {None})
             /\ heap' \in [Larges -> {"fresh", "live", "freed"}]
             /\ LargeInv'
  <2>1. \A l \in Larges :
          heap'[l] = IF \E i \in DOMAIN large : large[i] = l THEN "freed" ELSE heap[l]
    BY <1>6 DEF LargesFreed
  <2>2. \A l \in Larges : heap'[l] \in {"fresh", "live", "freed"} /\ heap'[l] # "live"
    BY <1>1, <2>1 DEF LargeInv
  <2>3. heap' \in [Larges -> {"fresh", "live", "freed"}]
    <3>1. heap' = [l \in Larges |-> heap'[l]]
      BY <1>6 DEF LargesFreed
    <3> QED
      BY <2>2, <3>1
  <2> QED
    BY <1>6, <2>2, <2>3 DEF LargeInv
<1>7. CASE PallocLarge
  <2>1. (CHOOSE x \in Fresh : TRUE) \in Fresh
    BY <1>7 DEF PallocLarge
  <2> QED
    BY <1>3, <1>4, <1>7, <2>1 DEF PallocLarge
<1>8. CASE Pmemalign
  <2>1. (CHOOSE x \in Fresh : TRUE) \in Fresh
    BY <1>8 DEF Pmemalign
  <2> QED
    BY <1>4, <1>8, <2>1 DEF Pmemalign
<1>9. CASE Create
  BY <1>2, <1>9 DEF Create
<1>10. ASSUME NEW size \in Sizes, NEW align \in BOOLEAN, PallocSmall(size, align)
       PROVE  UNCHANGED <<large, heap>>
  BY <1>10 DEF PallocSmall
<1>11. ASSUME NEW f \in Files, RunCleanupFile(f) \/ \E h \in Handlers : CleanupAdd(f, h)
       PROVE  UNCHANGED <<large, heap>>
  BY <1>11 DEF RunCleanupFile, CleanupAdd
<1>12. CASE Reset
  BY <1>6, <1>12 DEF Reset, ListDropped
<1>13. CASE Destroy
  BY <1>6, <1>13 DEF Destroy
<1> QED
  BY <1>2, <1>5, <1>7, <1>8, <1>9, <1>10, <1>11, <1>12, <1>13 DEF Next
-----------------------------------------------------------------------------
(* The files *)

\* Node i has file f and a handler for it.
Holds(i, f) == cleanup[i].fd = f /\ cleanup[i].handler # None

LEMMA HandlersAreNot ==
  "sgx_pool_cleanup_file" # None /\ \A h \in Handlers : h # None
  BY PoolAssumption DEF Handlers

\* What a step does to the list of files, if anything.
LEMMA FileStep ==
  ASSUME TypeOK, SmallInv, FileInv, Next
  PROVE  /\ cleanup' \in Seq(NodeType)
         /\ files' \in [Files -> {"fresh", "open", "closed"}]
         /\ FileInv'
<1>1. cleanup \in Seq(NodeType) /\ files \in [Files -> {"fresh", "open", "closed"}]
  BY DEF TypeOK
<1>2. ASSUME UNCHANGED <<pool, cleanup, files>>
      PROVE  /\ cleanup' \in Seq(NodeType)
             /\ files' \in [Files -> {"fresh", "open", "closed"}]
             /\ FileInv'
  BY <1>1, <1>2 DEF FileInv
<1>3. CASE Create
  <2>1. /\ pool = "absent" /\ pool' = "live" /\ UNCHANGED <<cleanup, files>>
    BY <1>3 DEF Create, cleanVars
  <2>2. cleanup' = <<>> /\ \A f \in Files : files'[f] # "open"
    BY <2>1 DEF FileInv
  <2> QED
    BY <1>1, <2>1, <2>2 DEF FileInv
<1>4. ASSUME NEW f \in Files, NEW h \in Handlers, Live, UNCHANGED pool, files[f] # "open",
             NEW e \in NodeType, e.fd = f, e.handler = h,
             cleanup' = <<e>> \o cleanup, files' = [files EXCEPT ![f] = "open"]
      PROVE  /\ cleanup' \in Seq(NodeType)
             /\ files' \in [Files -> {"fresh", "open", "closed"}]
             /\ FileInv'
  <2>1. pool = "live" /\ pool' = "live" /\ h # None
    BY <1>4, HandlersAreNot DEF Live
  <2>2. \A i \in DOMAIN cleanup : ~ Holds(i, f)
    BY <1>4, <2>1 DEF FileInv, Holds
  <2>3. /\ cleanup' \in Seq(NodeType)
        /\ cleanup'[1] = e /\ 1 \in DOMAIN cleanup'
        /\ \A k \in DOMAIN cleanup : k + 1 \in DOMAIN cleanup' /\ cleanup'[k + 1] = cleanup[k]
        /\ \A k \in DOMAIN cleanup' :
             k = 1 \/ (k - 1 \in DOMAIN cleanup /\ cleanup'[k] = cleanup[k - 1])
    BY <1>1, <1>4, Linked
  <2>4. files' \in [Files -> {"fresh", "open", "closed"}]
    BY <1>1, <1>4
  <2>5. \A g \in Files : files'[g] = IF g = f THEN "open" ELSE files[g]
    BY <1>1, <1>4
  <2>6. ASSUME NEW g \in Files
        PROVE  files'[g] = "open" <=>
                 \E i \in DOMAIN cleanup' : cleanup'[i].fd = g /\ cleanup'[i].handler # None
    <3>1. CASE g = f
      BY <1>4, <2>1, <2>3, <2>5, <3>1
    <3>2. CASE g # f
      <4>1. files[g] = "open" <=>
              \E i \in DOMAIN cleanup : cleanup[i].fd = g /\ cleanup[i].handler # None
        BY <2>1 DEF FileInv
      <4>2. ASSUME NEW i \in DOMAIN cleanup', cleanup'[i].fd = g, cleanup'[i].handler # None
            PROVE  \E k \in DOMAIN cleanup : cleanup[k].fd = g /\ cleanup[k].handler # None
        <5>1. i # 1
          BY <1>4, <2>3, <3>2, <4>2
        <5> QED
          BY <2>3, <4>2, <5>1
      <4>3. ASSUME NEW k \in DOMAIN cleanup, cleanup[k].fd = g, cleanup[k].handler # None
            PROVE  \E i \in DOMAIN cleanup' : cleanup'[i].fd = g /\ cleanup'[i].handler # None
        BY <2>3, <4>3
      <4> QED
        BY <2>5, <3>2, <4>1, <4>2, <4>3
    <3> QED
      BY <3>1, <3>2
  <2>7. ASSUME NEW i \in DOMAIN cleanup', NEW j \in DOMAIN cleanup',
               cleanup'[i].handler # None, cleanup'[j].handler # None,
               cleanup'[i].fd = cleanup'[j].fd
        PROVE  i = j
    <3>1. i \in Int /\ j \in Int
      BY <2>3
    <3>2. CASE i # 1 /\ j # 1
      <4>1. i - 1 \in DOMAIN cleanup /\ j - 1 \in DOMAIN cleanup
            /\ cleanup'[i] = cleanup[i - 1] /\ cleanup'[j] = cleanup[j - 1]
        BY <2>3, <3>2
      <4>2. i - 1 = j - 1
        BY <2>7, <4>1 DEF FileInv
      <4> QED
        BY <3>1, <4>2
    <3>3. CASE i = 1 /\ j # 1
      BY <1>4, <2>2, <2>3, <2>7, <3>3 DEF Holds
    <3>4. CASE i # 1 /\ j = 1
      BY <1>4, <2>2, <2>3, <2>7, <3>4 DEF Holds
    <3> QED
      BY <3>2, <3>3, <3>4
  <2> QED
    BY <2>1, <2>3, <2>4, <2>6, <2>7 DEF FileInv
<1>5. ASSUME NEW f \in Files, NEW h \in Handlers, CleanupAdd(f, h)
      PROVE  /\ cleanup' \in Seq(NodeType)
             /\ files' \in [Files -> {"fresh", "open", "closed"}]
             /\ FileInv'
  <2>1. Live /\ UNCHANGED pool /\ files[f] # "open"
    BY <1>5 DEF CleanupAdd
  <2>2. CASE UNCHANGED cleanVars
    BY <1>2, <2>1, <2>2 DEF cleanVars
  <2>3. CASE ~ UNCHANGED cleanVars
    <3>0. PICK p \in Small(now, SizeofCleanup, TRUE) :
            /\ p.at # None
            /\ \E q \in Small(p, SizeofFile, TRUE) :
                 /\ q.at # None
                 /\ cleanup' = <<[handler |-> h, fd |-> f, node |-> Piece(p.at, SizeofCleanup),
                                  data |-> Piece(q.at, SizeofFile)]>> \o cleanup
                 /\ files' = [files EXCEPT ![f] = "open"]
      BY <1>5, <2>3 DEF CleanupAdd
    <3>1. PICK q \in Small(p, SizeofFile, TRUE) :
            /\ p.at # None /\ q.at # None
            /\ cleanup' = <<[handler |-> h, fd |-> f, node |-> Piece(p.at, SizeofCleanup),
                             data |-> Piece(q.at, SizeofFile)]>> \o cleanup
            /\ files' = [files EXCEPT ![f] = "open"]
      BY <3>0
    <3>2. p \in Pools /\ q \in Pools
      <4>1. p \in Pools /\ p.blocks # <<>> /\ Sound(p)
        BY <2>1, LivePool, SizesFit, SmallSound
      <4> QED
        BY <4>1, SizesFit, SmallSound
    <3>3. /\ Piece(p.at, SizeofCleanup) \in PieceType /\ Piece(q.at, SizeofFile) \in PieceType
      <4>1. p.at \in Nat /\ q.at \in Nat
        BY <3>1, <3>2 DEF Pools
      <4>2. SizeofCleanup \in Nat /\ SizeofFile \in Nat
        BY SizesFit
      <4> QED
        BY <4>1, <4>2 DEF Piece, PieceType
    <3>4. PICK e : e = [handler |-> h, fd |-> f, node |-> Piece(p.at, SizeofCleanup),
                        data |-> Piece(q.at, SizeofFile)]
      OBVIOUS
    <3>5. e \in NodeType /\ e.fd = f /\ e.handler = h
      BY <3>3, <3>4 DEF NodeType
    <3>6. cleanup' = <<e>> \o cleanup /\ files' = [files EXCEPT ![f] = "open"]
      BY <3>1, <3>4
    <3> QED
      BY <1>4, <2>1, <3>5, <3>6
  <2> QED
    BY <2>2, <2>3
<1>6. ASSUME NEW f \in Files, RunCleanupFile(f)
      PROVE  /\ cleanup' \in Seq(NodeType)
             /\ files' \in [Files -> {"fresh", "open", "closed"}]
             /\ FileInv'
  <2>1. /\ pool = "live" /\ pool' = "live" /\ files' = [files EXCEPT ![f] = "closed"]
    BY <1>6 DEF RunCleanupFile, Live
  <2>2. PICK i \in DOMAIN cleanup :
          Registered(f, i) /\ cleanup' = [cleanup EXCEPT ![i].handler = None]
    BY <1>6 DEF RunCleanupFile, HandlerRun
  <2>3. PICK d : d = [cleanup[i] EXCEPT !.handler = None]
    OBVIOUS
  <2>4. d \in NodeType /\ d.handler = None
    <3>1. cleanup[i] \in NodeType
      BY <1>1
    <3> QED
      BY <2>3, <3>1 DEF NodeType
  <2>5. cleanup' = [cleanup EXCEPT ![i] = d]
    BY <2>2, <2>3
  <2>6. /\ cleanup' \in Seq(NodeType) /\ DOMAIN cleanup' = DOMAIN cleanup
        /\ cleanup'[i].handler = None
        /\ \A k \in DOMAIN cleanup : k # i => cleanup'[k] = cleanup[k]
    BY <1>1, <2>4, <2>5, Changed
  <2>7. Holds(i, f) /\ \A k \in DOMAIN cleanup : Holds(k, f) => k = i
    BY <2>2, HandlersAreNot DEF Registered, Holds, FileInv
  <2>8. files' \in [Files -> {"fresh", "open", "closed"}]
    BY <1>1, <2>1
  <2>9. \A g \in Files : files'[g] = IF g = f THEN "closed" ELSE files[g]
    BY <1>1, <2>1
  <2>10. ASSUME NEW g \in Files
         PROVE  files'[g] = "open" <=>
                  \E k \in DOMAIN cleanup' : cleanup'[k].fd = g /\ cleanup'[k].handler # None
    <3>1. CASE g = f
      BY <2>6, <2>7, <2>9, <3>1 DEF Holds
    <3>2. CASE g # f
      <4>1. files[g] = "open" <=>
              \E k \in DOMAIN cleanup : cleanup[k].fd = g /\ cleanup[k].handler # None
        BY <2>1 DEF FileInv
      <4>2. \A k \in DOMAIN cleanup :
              cleanup'[k].fd = g /\ cleanup'[k].handler # None
                <=> cleanup[k].fd = g /\ cleanup[k].handler # None
        BY <2>6, <2>7, <3>2 DEF Holds
      <4> QED
        BY <2>6, <2>9, <3>2, <4>1, <4>2
    <3> QED
      BY <3>1, <3>2
  <2>11. \A j, k \in DOMAIN cleanup' :
           /\ cleanup'[j].handler # None /\ cleanup'[k].handler # None
           /\ cleanup'[j].fd = cleanup'[k].fd
           => j = k
    BY <2>6 DEF FileInv
  <2> QED
    BY <2>1, <2>6, <2>8, <2>10, <2>11 DEF FileInv
<1>7. CASE Destroy
  <2>1. /\ pool = "live" /\ pool' = "destroyed" /\ cleanup' = <<>> /\ HandlersRun
    BY <1>7 DEF Destroy, Live
  <2>2. ASSUME NEW f \in Files
        PROVE  files'[f] = IF SGX_DEBUG /\ \E i \in DOMAIN cleanup : Holds(i, f)
                           THEN "closed" ELSE files[f]
    BY <2>1 DEF HandlersRun, Holds
  <2>3. files' = [f \in Files |-> files'[f]]
    BY <2>1 DEF HandlersRun
  <2>4. files' \in [Files -> {"fresh", "open", "closed"}]
    BY <1>1, <2>2, <2>3
  <2>5. SGX_DEBUG => \A f \in Files : files'[f] # "open"
    BY <2>1, <2>2 DEF FileInv, Holds
  <2> QED
    BY <2>1, <2>4, <2>5 DEF FileInv
<1>8. ASSUME NEW size \in Sizes, NEW align \in BOOLEAN, PallocSmall(size, align)
      PROVE  UNCHANGED <<pool, cleanup, files>>
  BY <1>8 DEF PallocSmall, cleanVars
<1>9. CASE PallocLarge \/ Pmemalign \/ Reset
  BY <1>2, <1>9 DEF PallocLarge, Pmemalign, Reset, cleanVars
<1>10. ASSUME NEW l \in Larges, Pfree(l)
       PROVE  UNCHANGED <<pool, cleanup, files>>
  BY <1>10 DEF Pfree, cleanVars
<1> QED
  BY <1>2, <1>3, <1>5, <1>6, <1>7, <1>8, <1>9, <1>10 DEF Next

-----------------------------------------------------------------------------
(* What the runs check holds of every pool *)

LEMMA InitInv ==
  ASSUME Init
  PROVE  IInv
<1>1. now \in Pools
  <2>1. blocks = <<>> /\ current = 1 /\ pieces = <<>> /\ strayed = FALSE
    BY DEF Init
  <2>2. <<>> \in Seq(BlockType) /\ <<>> \in Seq(PieceType) /\ 1 \in Nat \ {0}
    OBVIOUS
  <2> QED
    BY <2>1, <2>2 DEF now, Pools
<1>2. TypeOK
  BY <1>1 DEF Init, TypeOK
<1> QED
  BY <1>2 DEF Init, IInv, LargeInv, FileInv, SmallInv

LEMMA NextInv ==
  ASSUME IInv, [Next]_vars
  PROVE  IInv'
<1>1. CASE Next
  <2>1. TypeOK /\ LargeInv /\ FileInv /\ SmallInv
    BY DEF IInv
  <2>2. pool' \in {"absent", "live", "destroyed"}
    BY <1>1, <2>1
    DEF Next, Create, PallocSmall, PallocLarge, Pmemalign, Pfree, RunCleanupFile, CleanupAdd,
        Reset, Destroy, TypeOK
  <2>3. now' \in Pools /\ SmallInv'
    BY <1>1, <2>1, SmallStep
  <2>4. /\ large' \in Seq(Larges \cup {None})
        /\ heap' \in [Larges -> {"fresh", "live", "freed"}] /\ LargeInv'
    BY <1>1, <2>1, LargeStep
  <2>5. /\ cleanup' \in Seq(NodeType)
        /\ files' \in [Files -> {"fresh", "open", "closed"}] /\ FileInv'
    BY <1>1, <2>1, FileStep
  <2>6. TypeOK'
    BY <2>2, <2>3, <2>4, <2>5 DEF TypeOK
  <2> QED
    BY <2>3, <2>4, <2>5, <2>6 DEF IInv
<1>2. CASE UNCHANGED vars
  BY <1>2
  DEF vars, smallVars, cleanVars, IInv, TypeOK, now, LargeInv, FileInv, SmallInv, Sound,
      BlocksDiffer, FirstBlock, PiecesLie, PiecesApart, LiesIn, Apart
<1> QED
  BY <1>1, <1>2

LEMMA Invariance == Spec => []IInv
<1>1. Init => IInv
  BY InitInv
<1>2. IInv /\ [Next]_vars => IInv'
  BY NextInv
<1> QED
  BY <1>1, <1>2, PTL DEF Spec

\* Every variable has its type in every reachable state.
THEOREM TypeCorrect == Spec => []TypeOK
<1>1. IInv => TypeOK
  BY DEF IInv
<1> QED
  BY <1>1, Invariance, PTL

\* Small pieces lie in the pool and apart from each other, until one has strayed:
\* sgx_palloc_small, sgx_palloc_block and sgx_reset_pool together keep it so.
THEOREM PiecesAreSound == Spec => []SoundTillStrayed
<1>1. ASSUME IInv PROVE SoundTillStrayed
  <2>1. /\ TypeOK /\ SmallInv /\ now.blocks = blocks /\ now.pieces = pieces /\ now.strayed = strayed
    BY <1>1 DEF IInv, now
  <2>2. CASE pool = "live" /\ ~ strayed
    <3>1. PiecesLie(now) /\ PiecesApart(now)
      BY <2>1, <2>2 DEF SmallInv, Sound
    <3>2. \A i \in DOMAIN pieces : InBlock(pieces[i])
      BY <2>1, <3>1 DEF PiecesLie, LiesIn, InBlock
    <3> QED
      BY <2>1, <3>1, <3>2 DEF PiecesApart, SoundTillStrayed, PiecesSound
  <2>3. CASE pool # "live"
    BY <2>1, <2>3 DEF SmallInv, SoundTillStrayed, PiecesSound
  <2>4. CASE strayed
    BY <2>4 DEF SoundTillStrayed
  <2> QED
    BY <2>2, <2>3, <2>4
<1> QED
  BY <1>1, Invariance, PTL

\* What at most one member has, and one when b says so, has cardinality one or none.
LEMMA OneOrNone ==
  ASSUME NEW S, NEW b, b <=> S # {}, \A x, y \in S : x = y
  PROVE  Cardinality(S) = IF b THEN 1 ELSE 0
<1>1. CASE S = {}
  BY <1>1, FS_EmptySet
<1>2. CASE S # {}
  <2>1. PICK x : S = {x}
    BY <1>2
  <2> QED
    BY <1>2, <2>1, FS_Singleton
<1> QED
  BY <1>1, <1>2

\* No sequence of sgx_palloc, sgx_pmemalign, sgx_pfree, reset and destroy frees a
\* large piece twice or loses one.
THEOREM LargePiecesAreAccounted == Spec => []LargesAccounted
<1>1. ASSUME IInv PROVE LargesAccounted
  <2>1. ASSUME NEW l \in Larges
        PROVE  Cardinality({i \in DOMAIN large : large[i] = l})
                 = IF heap[l] = "live" THEN 1 ELSE 0
    <3> DEFINE S == {i \in DOMAIN large : large[i] = l}
    <3>1. l # None /\ LargeInv
      BY <1>1, PoolAssumption DEF IInv
    <3>2. heap[l] = "live" <=> S # {}
      BY <3>1 DEF LargeInv
    <3>3. \A i, j \in S : i = j
      BY <3>1 DEF LargeInv
    <3> HIDE DEF S
    <3>4. Cardinality(S) = IF heap[l] = "live" THEN 1 ELSE 0
      BY <3>2, <3>3, OneOrNone
    <3> QED
      BY <3>4 DEF S
  <2> QED
    BY <2>1 DEF LargesAccounted
<1> QED
  BY <1>1, Invariance, PTL

\* A file is open exactly when one node will close it, however sgx_pool_cleanup_add
\* and sgx_pool_run_cleanup_file alternate, and a build for debugging leaves none open.
THEOREM FilesAreAccounted == Spec => []FilesAccounted
<1>1. ASSUME IInv PROVE FilesAccounted
  <2>1. FileInv
    BY <1>1 DEF IInv
  <2>2. ASSUME NEW f \in Files, pool = "live"
        PROVE  Cardinality({i \in DOMAIN cleanup : cleanup[i].fd = f /\ cleanup[i].handler # None})
                 = IF files[f] = "open" THEN 1 ELSE 0
    <3> DEFINE S == {i \in DOMAIN cleanup : cleanup[i].fd = f /\ cleanup[i].handler # None}
    <3>1. files[f] = "open" <=> S # {}
      BY <2>1, <2>2 DEF FileInv
    <3>2. \A i, j \in S : i = j
      BY <2>1 DEF FileInv
    <3> HIDE DEF S
    <3>3. Cardinality(S) = IF files[f] = "open" THEN 1 ELSE 0
      BY <3>1, <3>2, OneOrNone
    <3> QED
      BY <3>3 DEF S
  <2>3. \A f \in Files : pool = "destroyed" /\ SGX_DEBUG => files[f] # "open"
    BY <2>1 DEF FileInv
  <2> QED
    BY <2>2, <2>3 DEF FilesAccounted
<1> QED
  BY <1>1, Invariance, PTL
=============================================================================
