-------------------------------- MODULE Heap --------------------------------
(* The kernel heap of src/src/memory/kmemory.c: a list of free blocks, first  *)
(* fit, split from the front of a block, never merged. Addresses and sizes    *)
(* count units of 8 bytes, to which every request is rounded up.              *)
EXTENDS Integers, Sequences, FiniteSetsExt, SequencesExt

CONSTANTS HEAP,        \* units of memory given to kinitHeap
          HDR,         \* sizeof(block_header_t), 2 units
          PTR,         \* sizeof(void*), 1 unit
          Requests,    \* payload sizes asked for, in units
          Alignments   \* alignments asked for, in units

ASSUME HeapAssumption == /\ HEAP \in Nat /\ HDR \in Nat \ {0} /\ PTR \in Nat
                         /\ HDR <= HEAP /\ Requests \subseteq Nat
                         /\ Alignments \subseteq Nat \ {0}

VARIABLES heap,  \* free: addresses of the free blocks in list order;
                 \* size: what the header at an address says (0: no header yet)
          held   \* blocks in use: header, pointer given out, units promised

hvars == <<heap, held>>

HInit == /\ heap = [free |-> <<0>>, size |-> [a \in 0..HEAP |-> IF a = 0 THEN HEAP ELSE 0]]
         /\ held = {}

\* The padding that brings the payload of the block at b to an aligned address.
Padding(b, align) == (align - ((b + HDR) % align)) % align

\* Positions in the free list of the blocks kmalloc would take for n units.
FitsMalloc(h, n) == {i \in DOMAIN h.free : h.size[h.free[i]] >= n + HDR}

\* The same for kaligned_alloc, which asks for more than it uses.
FitsAligned(h, n, align) ==
  {i \in DOMAIN h.free : /\ h.size[h.free[i]] >= n + align + PTR
                         /\ h.size[h.free[i]] >= Padding(h.free[i], align) + n + HDR}

\* The front of block i goes out, "used" units with its header; the rest takes
\* its place in the list. A block that fits exactly keeps the size it had.
Take(h, i, used) ==
  LET b == h.free[i] IN
  IF h.size[b] > used
  THEN [free |-> [h.free EXCEPT ![i] = b + used],
        size |-> [h.size EXCEPT ![b] = used - HDR, ![b + used] = h.size[b] - used]]
  ELSE [h EXCEPT !.free = RemoveAt(@, i)]

\* The block is pushed with the size its header has.
Release(h, ptr) == [h EXCEPT !.free = <<ptr - HDR>> \o @]

Kmalloc(n) ==
  /\ FitsMalloc(heap, n) # {}
  /\ LET i == Min(FitsMalloc(heap, n))
         b == heap.free[i]
     IN  /\ heap' = Take(heap, i, n + HDR)
         /\ held' = held \cup {[at |-> b, ptr |-> b + HDR, want |-> n]}

\* kmalloc, kaligned_alloc and krealloc return NULL and change nothing.
KmallocFails(n) == FitsMalloc(heap, n) = {} /\ UNCHANGED hvars

KalignedAlloc(n, align) ==
  /\ FitsAligned(heap, n, align) # {}
  /\ LET i   == Min(FitsAligned(heap, n, align))
         b   == heap.free[i]
         pad == Padding(b, align)
     IN  /\ heap' = Take(heap, i, pad + n + HDR)
         /\ held' = held \cup {[at |-> b, ptr |-> b + HDR + pad, want |-> n]}

\* Only a pointer that directly follows its header can be given back: kfree
\* and krealloc take the units before it for the header. Nobody frees others.
Freeable(b) == b.ptr = b.at + HDR

Kfree(b) == /\ Freeable(b)
            /\ heap' = Release(heap, b.ptr)
            /\ held' = held \ {b}

\* krealloc leaves the block where it is if its header says it is large enough.
KreallocStays(b, n) ==
  /\ Freeable(b) /\ n > 0 /\ heap.size[b.at] >= n
  /\ held' = (held \ {b}) \cup {[b EXCEPT !.want = n]}
  /\ UNCHANGED heap

\* Otherwise a new block is taken before the old one is given back.
KreallocMovesEarlyFree(b, n) ==
  /\ Freeable(b) /\ n > 0 /\ heap.size[b.at] < n
  /\ LET g == Release(heap, b.ptr) IN
     /\ FitsMalloc(g, n) # {}
     /\ LET i == Min(FitsMalloc(g, n))
            c == g.free[i]
        IN  /\ heap' = Take(g, i, n + HDR)
            /\ held' = held \cup {[at |-> c, ptr |-> c + HDR, want |-> n]}
KreallocMoves(b, n) ==
  /\ Freeable(b) /\ n > 0 /\ heap.size[b.at] < n
  /\ FitsMalloc(heap, n) # {}
  /\ LET i == Min(FitsMalloc(heap, n))
         c == heap.free[i]
     IN  /\ heap' = Release(Take(heap, i, n + HDR), b.ptr)
         /\ held' = (held \ {b}) \cup {[at |-> c, ptr |-> c + HDR, want |-> n]}

HNext == \/ \E n \in Requests : Kmalloc(n) \/ KmallocFails(n)
         \/ \E n \in Requests, align \in Alignments : KalignedAlloc(n, align)
         \/ \E b \in held : \/ Kfree(b)
                            \/ \E n \in Requests : KreallocStays(b, n) \/ KreallocMoves(b, n)

HSpec == HInit /\ [][HNext]_hvars

-----------------------------------------------------------------------------
\* The units a block in use and a free block lay claim to.
HeldUnits(b) == b.at..(b.ptr + b.want - 1)
FreeUnits(f) == f..(f + HDR - 1) \cup f..(f + heap.size[f] - 1)

\* Whatever is allocated, resized and freed, in any order: no block in use
\* reaches into another one, none lies in memory the free list still offers or
\* keeps a header in, and no two free blocks share memory. kmalloc records the
\* size of a block without its header only when it splits, so sizes in the list
\* mean two different things (kmemory.c:41-50), and nothing is ever merged.
NoOverlap ==
  /\ \A b, c \in held : b # c => HeldUnits(b) \cap HeldUnits(c) = {}
  /\ \A b \in held, i \in DOMAIN heap.free : HeldUnits(b) \cap FreeUnits(heap.free[i]) = {}
  /\ \A i, j \in DOMAIN heap.free :
        i # j => FreeUnits(heap.free[i]) \cap FreeUnits(heap.free[j]) = {}

=============================================================================
