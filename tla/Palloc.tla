------------------------------- MODULE Palloc -------------------------------
(***************************************************************************)
(* The memory pool of src/core/sgx_palloc.c: a chain of blocks from which  *)
(* small pieces are cut, and a list of large pieces, each a malloc of its  *)
(* own, whose nodes are small pieces.  Addresses are numbers; a step is a  *)
(* call.  The users of the clean-up list register files, with one of the   *)
(* two handlers the source has for them.                                   *)
(*                                                                         *)
(* `data.last', which is no field of sgx_pool_data_t, is taken as begin,   *)
(* the `begin' of sgx_palloc_small as its local data_begin, `page;l' in    *)
(* sgx_create_pool as pool, the `large' of sgx_pmemalign as a pointer, the *)
(* `cleanp' of line 54 as cleanup and the `fd' of line 303 as the file's.  *)
(***************************************************************************)
EXTENDS Integers, Sequences, FiniteSets

CONSTANTS Bases,          \* the addresses blocks can have
          PoolSize,       \* the size the pool is created with
          SizeofPool,     \* sizeof(sgx_pool_t)
          SizeofData,     \* sizeof(sgx_pool_data_t)
          SizeofLarge,    \* sizeof(sgx_pool_large_t)
          SizeofCleanup,  \* sizeof(sgx_pool_cleanup_t)
          SizeofFile,     \* sizeof(sgx_pool_cleanup_file_t)
          SGX_DEBUG,
          SGX_ALIGNMENT,
          MaxFromPool,    \* SGX_MAX_ALLOC_FROM_POOL
          Sizes,          \* the sizes asked for
          Larges,         \* the pieces malloc hands out for large sizes
          Files,          \* the descriptors of files
          MaxPieces,      \* bound: no more small pieces between two resets
          None

AlignUp(a) == ((a + SGX_ALIGNMENT - 1) \div SGX_ALIGNMENT) * SGX_ALIGNMENT

\* pool->max_size
max_size == IF PoolSize - SizeofPool < MaxFromPool THEN PoolSize - SizeofPool ELSE MaxFromPool

Handlers == {"sgx_pool_cleanup_file", "sgx_pool_delete_file"}

ASSUME PoolAssumption ==
  /\ SGX_ALIGNMENT \in Nat \ {0}
  /\ SizeofData \in Nat \ {0} /\ SizeofPool \in Nat /\ SizeofData <= SizeofPool
  /\ AlignUp(SizeofData) <= SizeofPool
  /\ PoolSize \in Nat /\ SizeofPool < PoolSize /\ PoolSize % SGX_ALIGNMENT = 0
  /\ SizeofLarge \in 1..(PoolSize - SizeofPool)
  /\ SizeofCleanup \in 1..max_size /\ SizeofFile \in 1..max_size
  /\ SGX_DEBUG \in BOOLEAN
  /\ MaxFromPool \in Nat
  /\ Sizes \subseteq Nat \ {0}
  /\ Bases \subseteq {a \in Nat : a % SGX_ALIGNMENT = 0}
  /\ \A a, b \in Bases : a < b => a + PoolSize <= b
  /\ None \notin Larges /\ None \notin Handlers /\ None \notin Nat

VARIABLES
  pool,     \* whether the pool is there
  blocks,   \* the chain of data.next, from the pool itself
  current,  \* pool->current, as an index of blocks
  large,    \* pool->large: the field alloc of each node
  heap,     \* what became of each large piece
  pieces,   \* history: the small pieces handed out since the last reset
  strayed,  \* history: a piece was cut for another block than the first, or on
            \* a node of the clean-up list
  cleanup,  \* pool->cleanup: handler and data, and where the node is
  files     \* what became of each file that was registered

smallVars == <<blocks, current, pieces, strayed>>
cleanVars == <<cleanup, files>>
vars == <<pool, large, heap, smallVars, cleanVars>>

Block(base, begin, end) == [base |-> base, begin |-> begin, end |-> end, failed |-> 0]

Init ==
  /\ pool = "absent"
  /\ blocks = <<>>
  /\ current = 1
  /\ large = <<>>
  /\ heap = [l \in Larges |-> "fresh"]
  /\ pieces = <<>>
  /\ strayed = FALSE
  /\ cleanup = <<>>
  /\ files = [f \in Files |-> "fresh"]

Create ==
  /\ pool = "absent"
  /\ pool' = "live"
  /\ \E base \in Bases : blocks' = <<Block(base, base + SizeofPool, base + PoolSize)>>
  /\ UNCHANGED <<current, large, heap, pieces, strayed, cleanVars>>

Live == pool = "live" /\ ~ strayed

-----------------------------------------------------------------------------
(* Small pieces.  An allocation takes what the pool is, a record p, to what *)
(* it is then, with the address in at.                                       *)

now == [at |-> None, blocks |-> blocks, current |-> current, pieces |-> pieces, strayed |-> strayed]

Becomes(p) ==
  /\ blocks' = p.blocks /\ current' = p.current
  /\ pieces' = p.pieces /\ strayed' = p.strayed

Piece(at, size) == [from |-> at, to |-> at + size]

Apart(p, q) == p.to <= q.from \/ q.to <= p.from

\* A reset leaves the clean-up list in memory that is handed out again.
OnCleanup(piece) ==
  \E i \in DOMAIN cleanup : ~ Apart(piece, cleanup[i].node) \/ ~ Apart(piece, cleanup[i].data)

\* Where a small piece would begin: line 135 looks at the first block only.
Begin(p, align) == IF align THEN AlignUp(p.blocks[1].begin) ELSE p.blocks[1].begin

\* The cast to size_t makes a negative difference huge.
Fits(p, k, begin, size) ==
  p.blocks[k].end - begin < 0 \/ p.blocks[k].end - begin >= size

\* Bug: the next piece begins where this one would end without its alignment.
AfterUnaligned(p, begin, size) == p.blocks[1].begin + size

After(p, begin, size) == begin + size

\* What the loop of sgx_palloc_small does when block k is the first that fits.
CutFrom(p, k, begin, size) ==
  [p EXCEPT !.at = begin,
            !.blocks = [@ EXCEPT ![k].begin = After(p, begin, size)],
            !.pieces = Append(@, Piece(begin, size)),
            !.strayed = @ \/ k # 1 \/ OnCleanup(Piece(begin, size))]

\* sgx_palloc_block: the blocks passed on the way to the end have failed again.
WithBlock(p, base, size) ==
  LET m == AlignUp(base + SizeofData)
      passed == p.current..(Len(p.blocks) - 1)
      chain == [k \in DOMAIN p.blocks |->
                  IF k \in passed THEN [p.blocks[k] EXCEPT !.failed = @ + 1] ELSE p.blocks[k]]
      tired == {k \in passed : chain[k].failed > 4}
  IN  [p EXCEPT !.at = m,
                !.blocks = Append(chain, Block(base, m + size, base + size)),
                !.pieces = Append(@, Piece(m, size)),
                !.current = IF tired = {} THEN @
                            ELSE 1 + CHOOSE k \in tired : \A j \in tired : j <= k]

FreeBases(p) == Bases \ {p.blocks[k].base : k \in DOMAIN p.blocks}

\* The outcomes of sgx_palloc_small.
Small(p, size, align) ==
  LET begin == Begin(p, align)
      fit == {k \in p.current..Len(p.blocks) : Fits(p, k, begin, size)}
  IN  IF fit # {}
      THEN {CutFrom(p, CHOOSE k \in fit : \A j \in fit : k <= j, begin, size)}
      ELSE {WithBlock(p, base, size) : base \in FreeBases(p)} \cup {[p EXCEPT !.at = None]}

\* sgx_palloc and, without align, sgx_pnalloc, of no more than max_size.
PallocSmall(size, align) ==
  /\ Live
  /\ size <= max_size
  /\ Len(pieces) < MaxPieces
  /\ \E p \in Small(now, size, align) : Becomes(p)
  /\ UNCHANGED <<pool, large, heap, cleanVars>>

-----------------------------------------------------------------------------
(* Large pieces *)

\* The first four nodes are looked at for one without a piece.
Reusable == {i \in DOMAIN large : i <= 4 /\ large[i] = None}

Reuse(l) ==
  /\ large' = [large EXCEPT ![CHOOSE i \in Reusable : \A j \in Reusable : i <= j] = l]
  /\ heap' = [heap EXCEPT ![l] = "live"]
  /\ UNCHANGED smallVars

\* A new node; when there is no room for it, the piece is freed again.
Link(l) ==
  \E p \in Small(now, SizeofLarge, TRUE) :
    /\ Len(pieces) < MaxPieces
    /\ Becomes(p)
    /\ IF p.at = None
       THEN heap' = [heap EXCEPT ![l] = "freed"] /\ UNCHANGED large
       ELSE heap' = [heap EXCEPT ![l] = "live"] /\ large' = <<l>> \o large

Fresh == {l \in Larges : heap[l] = "fresh"}

PallocLarge ==
  /\ Live
  /\ Fresh # {}
  /\ LET l == CHOOSE x \in Fresh : TRUE
     IN  IF Reusable # {} THEN Reuse(l) ELSE Link(l)
  /\ UNCHANGED <<pool, cleanVars>>

\* sgx_pmemalign, which does not look for a node to use again.
Pmemalign ==
  /\ Live
  /\ Fresh # {}
  /\ Link(CHOOSE x \in Fresh : TRUE)
  /\ UNCHANGED <<pool, cleanVars>>

\* Bug: line 248 is left out.
KeptIn(i) == large

ClearedIn(i) == [large EXCEPT ![i] = None]

Pfree(l) ==
  /\ Live
  /\ \E i \in DOMAIN large :
       /\ large[i] = l /\ \A j \in 1..(i - 1) : large[j] # l
       /\ large' = ClearedIn(i)
  /\ heap' = [heap EXCEPT ![l] = "freed"]
  /\ UNCHANGED <<pool, smallVars, cleanVars>>

\* The loops of destroy and of reset over the list.
LargesFreed ==
  heap' = [l \in Larges |-> IF \E i \in DOMAIN large : large[i] = l THEN "freed" ELSE heap[l]]

-----------------------------------------------------------------------------
(* The clean-up list *)

\* sgx_pool_cleanup_add, whose caller then registers file f with handler h; if
\* there is no room for the data, the node is lost.
CleanupAdd(f, h) ==
  /\ Live
  /\ files[f] # "open"
  /\ Len(pieces) + 1 < MaxPieces
  /\ \E p \in Small(now, SizeofCleanup, TRUE) :
       IF p.at = None THEN Becomes(p) /\ UNCHANGED cleanVars
       ELSE \E q \in Small(p, SizeofFile, TRUE) :
              /\ Becomes(q)
              /\ IF q.at = None THEN UNCHANGED cleanVars
                 ELSE /\ cleanup' = <<[handler |-> h, fd |-> f,
                                       node |-> Piece(p.at, SizeofCleanup),
                                       data |-> Piece(q.at, SizeofFile)]>> \o cleanup
                      /\ files' = [files EXCEPT ![f] = "open"]
  /\ UNCHANGED <<pool, large, heap>>

Registered(f, i) == cleanup[i].handler = "sgx_pool_cleanup_file" /\ cleanup[i].fd = f

\* Bug: line 305 is left out.
HandlerKept(i) == cleanup

HandlerRun(i) == [cleanup EXCEPT ![i].handler = None]

\* sgx_pool_run_cleanup_file
RunCleanupFile(f) ==
  /\ Live
  /\ \E i \in DOMAIN cleanup :
       /\ Registered(f, i) /\ \A j \in 1..(i - 1) : ~ Registered(f, j)
       /\ cleanup' = HandlerRun(i)
  /\ files' = [files EXCEPT ![f] = "closed"]
  /\ UNCHANGED <<pool, large, heap, smallVars>>

\* The first loop of destroy calls every handler, in a build for debugging.
HandlersRun ==
  files' = [f \in Files |->
              IF SGX_DEBUG /\ \E i \in DOMAIN cleanup : cleanup[i].fd = f /\ cleanup[i].handler # None
              THEN "closed" ELSE files[f]]

-----------------------------------------------------------------------------
(* The pool as a whole *)

ListDropped == <<>>

Reset ==
  /\ Live
  /\ LargesFreed
  /\ blocks' = [k \in DOMAIN blocks |->
                  [blocks[k] EXCEPT !.begin = blocks[k].base + SizeofPool, !.failed = 0]]
  /\ current' = 1
  /\ large' = ListDropped
  /\ pieces' = <<>>
  /\ UNCHANGED <<pool, strayed, cleanVars>>

\* The loop of line 82 ends before it has freed the last block.
Destroy ==
  /\ Live
  /\ HandlersRun /\ cleanup' = <<>>
  /\ LargesFreed
  /\ pool' = "destroyed"
  /\ blocks' = <<blocks[Len(blocks)]>>
  /\ large' = <<>>
  /\ pieces' = <<>>
  /\ UNCHANGED <<current, strayed>>

Next ==
  \/ Create
  \/ \E size \in Sizes, align \in BOOLEAN : PallocSmall(size, align)
  \/ PallocLarge
  \/ Pmemalign
  \/ \E l \in Larges : Pfree(l)
  \/ \E f \in Files : RunCleanupFile(f) \/ \E h \in Handlers : CleanupAdd(f, h)
  \/ Reset
  \/ Destroy

Spec == Init /\ [][Next]_vars

-----------------------------------------------------------------------------
(* Properties *)

\* A piece lies in a block, behind its header.
InBlock(p) ==
  \E k \in DOMAIN blocks :
    /\ p.from >= blocks[k].base + (IF k = 1 THEN SizeofPool ELSE SizeofData)
    /\ p.to <= blocks[k].base + PoolSize

PiecesSound ==
  /\ \A i \in DOMAIN pieces : InBlock(pieces[i])
  /\ \A i, j \in DOMAIN pieces : i # j => Apart(pieces[i], pieces[j])

\* Pieces lie in the pool and apart from each other, aligned or not, those of new
\* blocks too, and after a reset, until one is cut because a block other than the
\* first has room, or on the clean-up list: both are what sgx_palloc.h:38, where
\* begin is the beginning of unused memory, excludes.
SoundTillStrayed == ~ strayed => PiecesSound

\* A large piece that was not freed is in one node, and one that was in none: no
\* sequence of allocations, pfree, reset and destroy frees it twice or loses it.
LargesAccounted ==
  \A l \in Larges :
    Cardinality({i \in DOMAIN large : large[i] = l}) = IF heap[l] = "live" THEN 1 ELSE 0

\* A registered file that was not closed is on one node that still has its
\* handler, a closed one on none, though its descriptor may be registered again;
\* a build for debugging leaves no file open when the pool is destroyed.
FilesAccounted ==
  \A f \in Files :
    /\ pool = "live" =>
         Cardinality({i \in DOMAIN cleanup : cleanup[i].fd = f /\ cleanup[i].handler # None})
           = IF files[f] = "open" THEN 1 ELSE 0
    /\ pool = "destroyed" /\ SGX_DEBUG => files[f] # "open"
=============================================================================
