------------------------------ MODULE UserHeap ------------------------------
(* malloc, realloc and free of the C library (src/std/src/stdlib.c): a list   *)
(* of blocks in the order of their addresses, first fit, split when enough is *)
(* left, neighbours merged. Addresses and sizes count units of 4 bytes, to    *)
(* which malloc rounds up, from heap_start on.                                *)
EXTENDS Integers, Sequences, FiniteSetsExt, SequencesExt

CONSTANTS BLOCK_SIZE,  \* sizeof(BlockHeader)
          PAGE_SIZE

ASSUME UserHeapAssumption == {BLOCK_SIZE, PAGE_SIZE} \subseteq Nat \ {0}

Nowhere == -1  \* the null pointer: addresses start at 0
NewHeap == [blocks |-> <<>>, end |-> 0]  \* before the first malloc
Header(at, size, free) == [at |-> at, size |-> size, free |-> free]
Payload(b) == b.at + BLOCK_SIZE

FreeBlocks(h, n) == {i \in DOMAIN h.blocks : h.blocks[i].free /\ h.blocks[i].size >= n}

FreeStart(h) == IF h.blocks = <<>> THEN 0 ELSE Payload(Last(h.blocks)) + Last(h.blocks).size

\* A remainder without room for a header and one unit stays with the block.
split_blockNoHeader(b, n) ==
  IF b.size < n + BLOCK_SIZE + 1 THEN <<[b EXCEPT !.free = FALSE]>>
  ELSE <<Header(b.at, n, FALSE), Header(Payload(b) + n, b.size - n, TRUE)>>
split_block(b, n) ==
  IF b.size < n + BLOCK_SIZE + 1 THEN <<[b EXCEPT !.free = FALSE]>>
  ELSE <<Header(b.at, n, FALSE), Header(Payload(b) + n, b.size - n - BLOCK_SIZE, TRUE)>>

\* Pages heap_extend asks the kernel for, if a block of n units does not fit.
Extend(h, n) ==
  LET short == FreeStart(h) + n + BLOCK_SIZE - h.end IN
  IF short <= 0 THEN h.end ELSE h.end + ((short + PAGE_SIZE - 1) \div PAGE_SIZE) * PAGE_SIZE

malloc(h, n) ==
  IF n = 0 THEN [heap |-> h, ptr |-> Nowhere]
  ELSE IF FreeBlocks(h, n) # {}
  THEN LET i == Min(FreeBlocks(h, n)) IN
       [heap |-> [h EXCEPT !.blocks = SubSeq(@, 1, i - 1) \o split_block(@[i], n) \o SubSeq(@, i + 1, Len(@))],
        ptr  |-> Payload(h.blocks[i])]
  ELSE [heap |-> [blocks |-> Append(h.blocks, Header(FreeStart(h), n, FALSE)), end |-> Extend(h, n)],
        ptr  |-> FreeStart(h) + BLOCK_SIZE]

\* The walk over the whole list that ends every free.
Merge(seen, b) ==
  IF seen # <<>> /\ Last(seen).free /\ b.free
  THEN Append(Front(seen), [Last(seen) EXCEPT !.size = @ + BLOCK_SIZE + b.size])
  ELSE Append(seen, b)

free(h, ptr) ==
  [h EXCEPT !.blocks = FoldLeft(Merge, <<>>,
     [i \in DOMAIN @ |-> IF Payload(@[i]) = ptr THEN [@[i] EXCEPT !.free = TRUE] ELSE @[i]])]

BlockOf(h, ptr) == h.blocks[CHOOSE i \in DOMAIN h.blocks : Payload(h.blocks[i]) = ptr]

\* The new block is taken before the old one is given back.
realloc(h, ptr, n) ==
  IF BlockOf(h, ptr).size >= n THEN [heap |-> h, ptr |-> ptr]
  ELSE LET a == malloc(h, n) IN [a EXCEPT !.heap = free(@, ptr)]

InUse(h) == {Payload(b) : b \in {x \in Range(h.blocks) : ~x.free}}
=============================================================================
