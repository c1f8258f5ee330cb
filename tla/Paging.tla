-------------------------------- MODULE Paging -------------------------------
(***************************************************************************)
(* The physical page allocator, memory/paging.c.                           *)
(*                                                                         *)
(* Memory is seen in pages of two sizes at once.  Each size has a bitmap   *)
(* of used pages and a stack of free ones, and nothing but the tests in    *)
(* pages_allocatePage keeps the four in agreement.  A 4KB page number idx  *)
(* is written as the pair <<idx / 512, idx % 512>>: the 2MB page it is     *)
(* part of, and which part.  NUM_2MB_PAGES is 8192, a multiple of 64, so   *)
(* the bitmaps do not share a word and are two sets here.                  *)
(***************************************************************************)
EXTENDS Integers, Sequences, FiniteSets

CONSTANTS
  NUM_2MB_PAGES,
  PAGES_PER_2MB,   \* 512
  Reserved,        \* the 4KB pages that reserve_kernel_memory takes out
  MaxReturned      \* bound: 2MB pages that are given back, each once

ASSUME PagesAssumption == NUM_2MB_PAGES \in Nat /\ PAGES_PER_2MB \in Nat \ {0}
ASSUME MaxReturnedAssumption == MaxReturned \in Nat

Big == 0..NUM_2MB_PAGES - 1
Small == Big \X (0..PAGES_PER_2MB - 1)
Parts(b) == {b} \X (0..PAGES_PER_2MB - 1)

ASSUME ReservedAssumption == Reserved \subseteq Small

VARIABLES
  BITMAP_2MB, BITMAP_4KB,           \* the pages whose bit is set
  FREE_STACK_2MB, FREE_STACK_4KB,   \* up to their tops
  held2, held4,                     \* history: how often a page is out
  returned                          \* history: 2MB pages that were given back whole

pvars == <<BITMAP_2MB, BITMAP_4KB, FREE_STACK_2MB, FREE_STACK_4KB, held2, held4, returned>>

-----------------------------------------------------------------------------
\* A 2MB page with a reserved part is marked used by pages_generateFreeStack, and then
\* all its parts are: the rest of such a page is never handed out.
Partial == {b \in Big : Parts(b) \cap Reserved # {}}

Before(p, q) == p[1] < q[1] \/ (p[1] = q[1] /\ p[2] < q[2])

\* pages_reservePage at boot and pages_generateFreeStack, which pushes in rising order
PInit ==
  /\ BITMAP_2MB = Partial
  /\ BITMAP_4KB = {p \in Small : p[1] \in Partial}
  /\ LET free2 == Big \ Partial
         free4 == {p \in Small : p[1] \notin Partial}
     IN  /\ FREE_STACK_2MB \in [1..Cardinality(free2) -> free2]
         /\ \A b \in free2 : \E n \in DOMAIN FREE_STACK_2MB : FREE_STACK_2MB[n] = b
         /\ \A m, n \in DOMAIN FREE_STACK_2MB : m < n => FREE_STACK_2MB[m] < FREE_STACK_2MB[n]
         /\ FREE_STACK_4KB \in [1..Cardinality(free4) -> free4]
         /\ \A p \in free4 : \E n \in DOMAIN FREE_STACK_4KB : FREE_STACK_4KB[n] = p
         /\ \A m, n \in DOMAIN FREE_STACK_4KB :
               m < n => Before(FREE_STACK_4KB[m], FREE_STACK_4KB[n])
  /\ held2 = [b \in Big |-> 0]
  /\ held4 = [p \in Small |-> 0]
  /\ returned = {}

\* Faulty variant of Usable2: the 4KB pages inside are not looked at.
Usable2Unchecked(b) == b \notin BITMAP_2MB

\* The tests after a pop: an entry that fails is dropped and the next one is tried.
Usable2(b) == Parts(b) \cap BITMAP_4KB = {}
Usable4(p) == p[1] \notin BITMAP_2MB

\* The retries of pages_allocatePage end at the topmost of the usable entries.
Entries2 == {n \in DOMAIN FREE_STACK_2MB : Usable2(FREE_STACK_2MB[n])}
Entries4 == {n \in DOMAIN FREE_STACK_4KB : Usable4(FREE_STACK_4KB[n])}
Topmost(entries, n) == n \in entries /\ \A m \in entries : m <= n

\* Faulty variant of Below: the entry under the one that is used is dropped as well.
BelowTwo(stack, n) == SubSeq(stack, 1, n - 2)

\* The stack after the pops that lead to entry n.
Below(stack, n) == SubSeq(stack, 1, n - 1)

\* pages_allocatePage(PAGE_SIZE_2MB)
Allocate2MB(n) ==
  LET b == FREE_STACK_2MB[n]
  IN  /\ Topmost(Entries2, n)
      /\ FREE_STACK_2MB' = Below(FREE_STACK_2MB, n)
      /\ BITMAP_2MB' = BITMAP_2MB \cup {b}
      /\ BITMAP_4KB' = BITMAP_4KB \cup Parts(b)
      /\ held2' = [held2 EXCEPT ![b] = @ + 1]
      /\ UNCHANGED <<FREE_STACK_4KB, held4, returned>>

\* pages_allocatePage(PAGE_SIZE_4KB)
Allocate4KB(n) ==
  LET p == FREE_STACK_4KB[n]
  IN  /\ Topmost(Entries4, n)
      /\ FREE_STACK_4KB' = Below(FREE_STACK_4KB, n)
      /\ BITMAP_4KB' = BITMAP_4KB \cup {p}
      /\ held4' = [held4 EXCEPT ![p] = @ + 1]
      /\ UNCHANGED <<BITMAP_2MB, FREE_STACK_2MB, held2, returned>>

\* pages_allocatePage when no entry is usable: the stack is emptied, and NULL returned.
Exhaust2MB == /\ Entries2 = {}
              /\ FREE_STACK_2MB' = <<>>
              /\ UNCHANGED <<BITMAP_2MB, BITMAP_4KB, FREE_STACK_4KB, held2, held4, returned>>

Exhaust4KB == /\ Entries4 = {}
              /\ FREE_STACK_4KB' = <<>>
              /\ UNCHANGED <<BITMAP_2MB, BITMAP_4KB, FREE_STACK_2MB, held2, held4, returned>>

\* Faulty variant of Free2MB: the parts are counted from one.

\* pages_free(p, PAGE_SIZE_2MB) of a page that is out; its bit is set
Free2MB(b) ==
  /\ held2[b] > 0 /\ b \in BITMAP_2MB
  /\ b \notin returned /\ Cardinality(returned) < MaxReturned
  /\ BITMAP_2MB' = BITMAP_2MB \ {b}
  /\ BITMAP_4KB' = BITMAP_4KB \ Parts(b)
  /\ FREE_STACK_2MB' = Append(FREE_STACK_2MB, b)
  /\ FREE_STACK_4KB' = FREE_STACK_4KB \o [j \in 1..PAGES_PER_2MB |-> <<b, j - 1>>]
  /\ held2' = [held2 EXCEPT ![b] = @ - 1]
  /\ returned' = returned \cup {b}
  /\ UNCHANGED held4

\* The tests of pages_free for a 4KB page
Accepts4(p) == p \in BITMAP_4KB /\ p[1] \notin BITMAP_2MB

\* pages_free(p, PAGE_SIZE_4KB) of any page, held or not: a second free of a page that
\* nobody has taken since, and a free of a page of the wrong size, are calls the code
\* means to ignore.
Free4KB(p) ==
  /\ Accepts4(p)
  /\ BITMAP_4KB' = BITMAP_4KB \ {p}
  /\ FREE_STACK_4KB' = Append(FREE_STACK_4KB, p)
  /\ held4' = [held4 EXCEPT ![p] = IF @ > 0 THEN @ - 1 ELSE @]
  /\ UNCHANGED <<BITMAP_2MB, FREE_STACK_2MB, held2, returned>>

PNext == \/ \E n \in DOMAIN FREE_STACK_2MB : Allocate2MB(n)
         \/ \E n \in DOMAIN FREE_STACK_4KB : Allocate4KB(n)
         \/ Exhaust2MB \/ Exhaust4KB
         \/ \E b \in Big : Free2MB(b)
         \/ \E p \in Small : Free4KB(p)

PSpec == PInit /\ [][PNext]_pvars

-----------------------------------------------------------------------------
(* Properties *)

\* The type invariant.
PTypeOK == /\ BITMAP_2MB \subseteq Big /\ BITMAP_4KB \subseteq Small
           /\ FREE_STACK_2MB \in Seq(Big) /\ FREE_STACK_4KB \in Seq(Small)
           /\ held2 \in [Big -> Nat] /\ held4 \in [Small -> Nat]
           /\ returned \subseteq Big

\* No memory is handed out twice, in whatever sizes it is asked for and given back,
\* except where pages_free has taken back a whole 2MB page; and none of what is
\* reserved at boot (kernel, heap, firmware) is handed out at all.
Exclusive ==
  /\ \A p \in Small : p[1] \notin returned => held4[p] + held2[p[1]] <= 1
  /\ \A p \in Reserved : held4[p] + held2[p[1]] = 0

\* No 4KB page is lost: one that is not out, alone or as a part, and that boot has not
\* taken out, is on the stack, although allocations drop entries they cannot use.
NoneLost ==
  \A p \in Small :
     (p[1] \notin Partial /\ held4[p] = 0 /\ held2[p[1]] = 0)
        => \E n \in DOMAIN FREE_STACK_4KB : FREE_STACK_4KB[n] = p

==============================================================================
