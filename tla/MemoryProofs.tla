---------------------------- MODULE MemoryProofs -----------------------------
(***************************************************************************)
(* Proofs about the three allocators of the kernel, Paging, Heap and Pool, *)
(* and the table that cuts its nodes from pages: PidTable.                 *)
(***************************************************************************)
EXTENDS Paging, Heap, Pool, PidTable, FiniteSetTheorems, WellFoundedInduction, SequenceTheorems, TLAPS

-----------------------------------------------------------------------------
(* The page allocator, for any amount of memory and any number of parts in a  *)
(* large page.                                                                *)

\* A large page that is in use has all its parts in use.
WholeUsed == \A p \in Small : p[1] \in BITMAP_2MB => p \in BITMAP_4KB

\* A large page is in use as a whole because it is out, once, or partly reserved.
WholeOut == /\ \A b \in Big : held2[b] \in {0, 1}
            /\ \A b \in Big \ Partial : b \in BITMAP_2MB <=> held2[b] = 1
            /\ \A b \in Partial : b \in BITMAP_2MB /\ held2[b] = 0 /\ b \notin returned

\* A small page in use that is no part of such a page is out.
SmallOut == \A p \in Small : p \in BITMAP_4KB /\ p[1] \notin BITMAP_2MB => held4[p] > 0

\* A small page that is not in use is on the stack.
SmallFree ==
  \A p \in Small : p \notin BITMAP_4KB /\ p[1] \notin BITMAP_2MB
                     => \E n \in DOMAIN FREE_STACK_4KB : FREE_STACK_4KB[n] = p

\* Where no whole page was given back: a small page is out once, and then in use;
\* an entry of the stack that passes the test is not in use, and is there once.
OutOnce == \A p \in Small : p[1] \notin returned =>
              /\ held4[p] \in {0, 1}
              /\ held4[p] = 1 => p \in BITMAP_4KB /\ p[1] \notin BITMAP_2MB

EntryUnused == \A n \in DOMAIN FREE_STACK_4KB :
                  LET p == FREE_STACK_4KB[n]
                  IN  p[1] \notin returned \cup BITMAP_2MB => p \notin BITMAP_4KB

EntryOnce == \A m, n \in DOMAIN FREE_STACK_4KB :
                (/\ FREE_STACK_4KB[m] = FREE_STACK_4KB[n]
                 /\ FREE_STACK_4KB[m][1] \notin returned) => m = n

PInv == /\ PTypeOK
        /\ WholeUsed /\ WholeOut /\ SmallOut /\ SmallFree
        /\ OutOnce /\ EntryUnused /\ EntryOnce

-----------------------------------------------------------------------------
\* Every large page has a part, and a small page is a part of its large page only.
LEMMA PartsOf ==
  /\ \A b \in Big : Parts(b) \subseteq Small /\ <<b, 0>> \in Parts(b)
  /\ \A b \in Big, p \in Small : p \in Parts(b) <=> p[1] = b
  /\ \A p \in Small : p[1] \in Big
  BY PagesAssumption DEF Big, Small, Parts

\* A stack below one of its entries.
LEMMA BelowIs ==
  ASSUME NEW S, NEW s \in Seq(S), NEW n \in DOMAIN s
  PROVE  /\ Below(s, n) \in Seq(S)
         /\ DOMAIN Below(s, n) = 1..n - 1
         /\ \A m \in 1..n - 1 : m \in DOMAIN s /\ Below(s, n)[m] = s[m]
  BY DEF Below

\* A function on 1..n is a sequence.
LEMMA FunIsSeq ==
  ASSUME NEW S, NEW n \in Nat, NEW f \in [1..n -> S]
  PROVE  f \in Seq(S)
  OBVIOUS

\* Boot leaves finitely many free pages of each size, so that the stacks are sequences.
LEMMA FiniteMemory ==
  ASSUME NEW B \in SUBSET Big, NEW P \in SUBSET Small
  PROVE  Cardinality(B) \in Nat /\ Cardinality(P) \in Nat
<1>1. IsFiniteSet(Big) /\ IsFiniteSet(0..PAGES_PER_2MB - 1)
  BY PagesAssumption, FS_Interval DEF Big
<1>2. IsFiniteSet(Small)
  BY <1>1, FS_Product DEF Small
<1> QED BY <1>1, <1>2, FS_Subset, FS_CardinalityType

\* The invariant holds when pages_generateFreeStack is done.
LEMMA PInvInit == PInit => PInv
<1> SUFFICES ASSUME PInit PROVE PInv
  OBVIOUS
<1> DEFINE free2 == Big \ Partial
           free4 == {p \in Small : p[1] \notin Partial}
<1>1. /\ FREE_STACK_2MB \in [1..Cardinality(free2) -> free2]
      /\ FREE_STACK_4KB \in [1..Cardinality(free4) -> free4]
      /\ \A p \in free4 : \E n \in DOMAIN FREE_STACK_4KB : FREE_STACK_4KB[n] = p
      /\ \A m, n \in DOMAIN FREE_STACK_4KB :
            m < n => Before(FREE_STACK_4KB[m], FREE_STACK_4KB[n])
  BY DEF PInit
<1>2. Cardinality(free2) \in Nat /\ Cardinality(free4) \in Nat
  BY FiniteMemory
<1>3. FREE_STACK_2MB \in Seq(Big) /\ FREE_STACK_4KB \in Seq(Small)
  <2> DEFINE n2 == Cardinality(free2)
             n4 == Cardinality(free4)
  <2>1. FREE_STACK_2MB \in [1..n2 -> Big] /\ FREE_STACK_4KB \in [1..n4 -> Small]
    BY <1>1
  <2>2. n2 \in Nat /\ n4 \in Nat
    BY <1>2
  <2> HIDE DEF n2, n4
  <2> QED BY <2>1, <2>2, FunIsSeq
<1>4. /\ BITMAP_2MB = Partial /\ BITMAP_4KB = {p \in Small : p[1] \in Partial}
      /\ held2 = [b \in Big |-> 0] /\ held4 = [p \in Small |-> 0] /\ returned = {}
      /\ Partial \subseteq Big
  BY DEF PInit, Partial
<1>5. PTypeOK
  BY <1>3, <1>4 DEF PTypeOK
<1>6. WholeUsed /\ WholeOut /\ SmallOut /\ OutOnce
  BY <1>4, PartsOf DEF WholeUsed, WholeOut, SmallOut, OutOnce
<1>7. SmallFree
  BY <1>1, <1>4 DEF SmallFree
<1>8. EntryUnused
  BY <1>1, <1>4 DEF EntryUnused
<1>9. EntryOnce
  <2> SUFFICES ASSUME NEW m \in DOMAIN FREE_STACK_4KB, NEW n \in DOMAIN FREE_STACK_4KB,
                      FREE_STACK_4KB[m] = FREE_STACK_4KB[n], m # n
               PROVE  FALSE
    BY DEF EntryOnce
  <2>1. m \in Int /\ n \in Int /\ FREE_STACK_4KB[m] \in Small
    BY <1>1, <1>2
  <2>2. Before(FREE_STACK_4KB[m], FREE_STACK_4KB[m])
    BY <1>1, <2>1
  <2>3. FREE_STACK_4KB[m][1] \in Int /\ FREE_STACK_4KB[m][2] \in Int
    BY <2>1, PagesAssumption DEF Small, Big
  <2> QED BY <2>2, <2>3 DEF Before
<1> QED BY <1>5, <1>6, <1>7, <1>8, <1>9 DEF PInv

\* pages_allocatePage for a large page.
LEMMA Allocate2MBKeeps ==
  ASSUME PInv, NEW n \in DOMAIN FREE_STACK_2MB, Allocate2MB(n)
  PROVE  PInv'
<1> DEFINE b == FREE_STACK_2MB[n]
<1>1. /\ b \in Big /\ n \in DOMAIN FREE_STACK_2MB /\ FREE_STACK_2MB \in Seq(Big)
      /\ held2 \in [Big -> Nat] /\ BITMAP_2MB \subseteq Big /\ BITMAP_4KB \subseteq Small
  BY DEF PInv, PTypeOK
<1>2. /\ Parts(b) \cap BITMAP_4KB = {}
      /\ FREE_STACK_2MB' = Below(FREE_STACK_2MB, n)
      /\ BITMAP_2MB' = BITMAP_2MB \cup {b}
      /\ BITMAP_4KB' = BITMAP_4KB \cup Parts(b)
      /\ held2' = [held2 EXCEPT ![b] = held2[b] + 1]
      /\ FREE_STACK_4KB' = FREE_STACK_4KB /\ held4' = held4 /\ returned' = returned
  BY DEF Allocate2MB, Topmost, Entries2, Usable2
<1> HIDE DEF b
<1>3. b \notin BITMAP_2MB
  BY <1>1, <1>2, PartsOf DEF PInv, WholeUsed
<1>4. b \notin Partial /\ held2[b] = 0
  BY <1>1, <1>3 DEF PInv, WholeOut, Partial
<1>5. PTypeOK'
  <2>1. FREE_STACK_2MB' \in Seq(Big)
    BY <1>1, <1>2, BelowIs
  <2>2. BITMAP_4KB' \subseteq Small /\ BITMAP_2MB' \subseteq Big
    BY <1>1, <1>2, PartsOf
  <2>3. held2' \in [Big -> Nat]
    BY <1>1, <1>2
  <2> QED BY <1>2, <2>1, <2>2, <2>3 DEF PInv, PTypeOK
<1>6. WholeUsed'
  BY <1>1, <1>2, PartsOf DEF PInv, WholeUsed
<1>7. WholeOut'
  BY <1>1, <1>2, <1>4 DEF PInv, WholeOut, Partial
<1>8. SmallOut' /\ SmallFree'
  BY <1>1, <1>2, PartsOf DEF PInv, SmallOut, SmallFree
<1>9. OutOnce'
  BY <1>1, <1>2, PartsOf DEF PInv, OutOnce
<1>10. EntryUnused'
  <2>1. \A i \in DOMAIN FREE_STACK_4KB : FREE_STACK_4KB[i] \in Small
    BY DEF PInv, PTypeOK
  <2> QED BY <1>1, <1>2, <2>1, PartsOf DEF PInv, EntryUnused
<1>11. EntryOnce'
  BY <1>2 DEF PInv, EntryOnce
<1> QED BY <1>5, <1>6, <1>7, <1>8, <1>9, <1>10, <1>11 DEF PInv

\* pages_allocatePage for a small page.
LEMMA Allocate4KBKeeps ==
  ASSUME PInv, NEW n \in DOMAIN FREE_STACK_4KB, Allocate4KB(n)
  PROVE  PInv'
<1> DEFINE p == FREE_STACK_4KB[n]
<1>1. /\ p \in Small /\ n \in DOMAIN FREE_STACK_4KB /\ FREE_STACK_4KB \in Seq(Small)
      /\ held4 \in [Small -> Nat] /\ BITMAP_4KB \subseteq Small
      /\ \A i \in DOMAIN FREE_STACK_4KB : FREE_STACK_4KB[i] \in Small /\ i \in Nat
      /\ p = FREE_STACK_4KB[n]
  BY DEF PInv, PTypeOK
<1>2. /\ p[1] \notin BITMAP_2MB
      /\ \A i \in DOMAIN FREE_STACK_4KB : i > n => FREE_STACK_4KB[i][1] \in BITMAP_2MB
      /\ FREE_STACK_4KB' = Below(FREE_STACK_4KB, n)
      /\ BITMAP_4KB' = BITMAP_4KB \cup {p}
      /\ held4' = [held4 EXCEPT ![p] = held4[p] + 1]
      /\ BITMAP_2MB' = BITMAP_2MB /\ FREE_STACK_2MB' = FREE_STACK_2MB
      /\ held2' = held2 /\ returned' = returned
  <2>1. /\ Topmost(Entries4, n)
        /\ FREE_STACK_4KB' = Below(FREE_STACK_4KB, n)
        /\ BITMAP_4KB' = BITMAP_4KB \cup {p}
        /\ held4' = [held4 EXCEPT ![p] = held4[p] + 1]
        /\ BITMAP_2MB' = BITMAP_2MB /\ FREE_STACK_2MB' = FREE_STACK_2MB
        /\ held2' = held2 /\ returned' = returned
    BY DEF Allocate4KB
  <2>2. p[1] \notin BITMAP_2MB
    BY <2>1 DEF Topmost, Entries4, Usable4
  <2>3. \A i \in DOMAIN FREE_STACK_4KB : i > n => FREE_STACK_4KB[i][1] \in BITMAP_2MB
    <3> SUFFICES ASSUME NEW i \in DOMAIN FREE_STACK_4KB,
                        FREE_STACK_4KB[i][1] \notin BITMAP_2MB
                 PROVE  ~(i > n)
      OBVIOUS
    <3>1. i \in Entries4
      BY DEF Entries4, Usable4
    <3>2. i <= n
      BY <2>1, <3>1 DEF Topmost
    <3> QED BY <1>1, <3>2
  <2> QED BY <2>1, <2>2, <2>3
<1> HIDE DEF p
<1>3. /\ FREE_STACK_4KB' \in Seq(Small)
      /\ DOMAIN FREE_STACK_4KB' = 1..n - 1
      /\ \A m \in 1..n - 1 : m \in DOMAIN FREE_STACK_4KB /\ FREE_STACK_4KB'[m] = FREE_STACK_4KB[m]
  <2>1. /\ Below(FREE_STACK_4KB, n) \in Seq(Small)
        /\ DOMAIN Below(FREE_STACK_4KB, n) = 1..n - 1
        /\ \A m \in 1..n - 1 : m \in DOMAIN FREE_STACK_4KB
                                /\ Below(FREE_STACK_4KB, n)[m] = FREE_STACK_4KB[m]
    BY <1>1, BelowIs
  <2>2. FREE_STACK_4KB' = Below(FREE_STACK_4KB, n)
    BY <1>2
  <2> QED BY <2>1, <2>2
<1>4. p[1] \notin returned => p \notin BITMAP_4KB
  BY <1>1, <1>2 DEF PInv, EntryUnused
<1>5. PTypeOK'
  BY <1>1, <1>2, <1>3 DEF PInv, PTypeOK
<1>6. WholeUsed' /\ WholeOut'
  BY <1>1, <1>2 DEF PInv, WholeUsed, WholeOut
<1>7. SmallOut'
  BY <1>1, <1>2 DEF PInv, SmallOut
<1>8. SmallFree'
  <2> SUFFICES ASSUME NEW q \in Small, q \notin BITMAP_4KB, q # p, q[1] \notin BITMAP_2MB
               PROVE  \E m \in DOMAIN FREE_STACK_4KB' : FREE_STACK_4KB'[m] = q
    BY <1>2 DEF SmallFree
  <2>1. PICK i \in DOMAIN FREE_STACK_4KB : FREE_STACK_4KB[i] = q
    BY DEF PInv, SmallFree
  <2>2. i < n /\ i \in 1..n - 1
    BY <1>1, <1>2, <2>1
  <2> QED BY <1>3, <2>1, <2>2
<1>9. OutOnce'
  BY <1>1, <1>2, <1>4 DEF PInv, OutOnce
<1>10. EntryUnused'
  <2> SUFFICES ASSUME NEW m \in 1..n - 1,
                      FREE_STACK_4KB[m][1] \notin returned \cup BITMAP_2MB
               PROVE  FREE_STACK_4KB[m] \notin BITMAP_4KB \cup {p}
    BY <1>2, <1>3 DEF EntryUnused
  <2>1. FREE_STACK_4KB[m] \notin BITMAP_4KB
    BY <1>3 DEF PInv, EntryUnused
  <2>2. FREE_STACK_4KB[m] # p
    BY <1>1, <1>3 DEF PInv, EntryOnce
  <2> QED BY <2>1, <2>2
<1>11. EntryOnce'
  BY <1>2, <1>3 DEF PInv, EntryOnce
<1> QED BY <1>5, <1>6, <1>7, <1>8, <1>9, <1>10, <1>11 DEF PInv

\* pages_allocatePage when no entry is usable.
LEMMA ExhaustKeeps ==
  ASSUME PInv, Exhaust2MB \/ Exhaust4KB
  PROVE  PInv'
<1>1. /\ UNCHANGED <<BITMAP_2MB, BITMAP_4KB, held2, held4, returned>>
      /\ FREE_STACK_2MB' \in Seq(Big)
      /\ \/ FREE_STACK_4KB' = FREE_STACK_4KB
         \/ /\ FREE_STACK_4KB' = <<>>
            /\ \A n \in DOMAIN FREE_STACK_4KB : FREE_STACK_4KB[n][1] \in BITMAP_2MB
  <2>1. CASE Exhaust2MB
    BY <2>1 DEF Exhaust2MB
  <2>2. CASE Exhaust4KB
    BY <2>2 DEF PInv, PTypeOK, Exhaust4KB, Entries4, Usable4
  <2> QED BY <2>1, <2>2
<1>2. PTypeOK' /\ WholeUsed' /\ WholeOut' /\ SmallOut' /\ OutOnce'
  <2>1. FREE_STACK_4KB' \in Seq(Small)
    <3>1. <<>> \in Seq(Small) /\ FREE_STACK_4KB \in Seq(Small)
      BY DEF PInv, PTypeOK
    <3> QED BY <1>1, <3>1
  <2>2. PTypeOK'
    <3>1. /\ BITMAP_2MB' = BITMAP_2MB /\ BITMAP_4KB' = BITMAP_4KB /\ held2' = held2
          /\ held4' = held4 /\ returned' = returned /\ FREE_STACK_2MB' \in Seq(Big)
      BY <1>1
    <3> QED BY <2>1, <3>1 DEF PInv, PTypeOK
  <2>3. WholeUsed' /\ WholeOut'
    BY <1>1 DEF PInv, WholeUsed, WholeOut
  <2>4. SmallOut' /\ OutOnce'
    BY <1>1 DEF PInv, SmallOut, OutOnce
  <2> QED BY <2>2, <2>3, <2>4
<1>3. SmallFree'
  BY <1>1 DEF PInv, SmallFree
<1>4. EntryUnused' /\ EntryOnce'
  BY <1>1 DEF PInv, EntryUnused, EntryOnce
<1> QED BY <1>2, <1>3, <1>4 DEF PInv

\* pages_free for a large page: from now on nothing is said of its parts.
LEMMA Free2MBKeeps ==
  ASSUME PInv, NEW b \in Big, Free2MB(b)
  PROVE  PInv'
<1> DEFINE parts == [j \in 1..PAGES_PER_2MB |-> <<b, j - 1>>]
<1>1. /\ held2[b] > 0 /\ b \in BITMAP_2MB
      /\ BITMAP_2MB' = BITMAP_2MB \ {b}
      /\ BITMAP_4KB' = BITMAP_4KB \ Parts(b)
      /\ FREE_STACK_2MB' = Append(FREE_STACK_2MB, b)
      /\ FREE_STACK_4KB' = FREE_STACK_4KB \o parts
      /\ held2' = [held2 EXCEPT ![b] = held2[b] - 1]
      /\ returned' = returned \cup {b} /\ held4' = held4
  BY DEF Free2MB
<1>2. /\ held2 \in [Big -> Nat] /\ FREE_STACK_4KB \in Seq(Small) /\ FREE_STACK_2MB \in Seq(Big)
      /\ \A i \in DOMAIN FREE_STACK_4KB : FREE_STACK_4KB[i] \in Small
  BY DEF PInv, PTypeOK
<1>3. /\ parts \in Seq(Small) /\ Len(parts) = PAGES_PER_2MB
      /\ \A i \in 1..PAGES_PER_2MB : parts[i] = <<b, i - 1>> /\ parts[i][1] = b
      /\ \A p \in Small : p[1] = b => \E i \in 1..PAGES_PER_2MB : parts[i] = p
  <2>1. parts \in [1..PAGES_PER_2MB -> Small]
    BY PagesAssumption DEF Small
  <2>2. parts \in Seq(Small) /\ Len(parts) = PAGES_PER_2MB
    BY <2>1, PagesAssumption, FunIsSeq
  <2>3. ASSUME NEW p \in Small, p[1] = b
        PROVE  \E i \in 1..PAGES_PER_2MB : parts[i] = p
    <3>1. p = <<b, p[2]>> /\ p[2] \in 0..PAGES_PER_2MB - 1
      BY <2>3 DEF Small
    <3>2. p[2] + 1 \in 1..PAGES_PER_2MB /\ (p[2] + 1) - 1 = p[2]
      BY <3>1, PagesAssumption
    <3> QED BY <3>1, <3>2
  <2> QED BY <2>2, <2>3
<1> HIDE DEF parts
<1>4. /\ FREE_STACK_4KB' \in Seq(Small)
      /\ \A i \in DOMAIN FREE_STACK_4KB : i \in DOMAIN FREE_STACK_4KB' /\ FREE_STACK_4KB'[i] = FREE_STACK_4KB[i]
      /\ \A i \in 1..PAGES_PER_2MB :
            /\ Len(FREE_STACK_4KB) + i \in DOMAIN FREE_STACK_4KB'
            /\ FREE_STACK_4KB'[Len(FREE_STACK_4KB) + i] = parts[i]
      /\ \A i \in DOMAIN FREE_STACK_4KB' :
            i \in DOMAIN FREE_STACK_4KB \/ FREE_STACK_4KB'[i][1] = b
  <2> DEFINE len == Len(FREE_STACK_4KB)
  <2>1. len \in Nat /\ DOMAIN FREE_STACK_4KB = 1..len
    BY <1>2
  <2>2. FREE_STACK_4KB' \in Seq(Small) /\ Len(FREE_STACK_4KB') = len + PAGES_PER_2MB
    BY <1>1, <1>2, <1>3, ConcatProperties
  <2>3. DOMAIN FREE_STACK_4KB' = 1..len + PAGES_PER_2MB
    BY <2>2
  <2>4. \A i \in 1..len + PAGES_PER_2MB :
           FREE_STACK_4KB'[i] = IF i <= len THEN FREE_STACK_4KB[i] ELSE parts[i - len]
    BY SMTT(40), <1>1, <1>2, <1>3
  <2> HIDE DEF len
  <2>5. ASSUME NEW i \in 1..len
        PROVE  i \in DOMAIN FREE_STACK_4KB' /\ FREE_STACK_4KB'[i] = FREE_STACK_4KB[i]
    BY <2>1, <2>3, <2>4, PagesAssumption
  <2>6. ASSUME NEW i \in 1..PAGES_PER_2MB
        PROVE  len + i \in DOMAIN FREE_STACK_4KB' /\ FREE_STACK_4KB'[len + i] = parts[i]
    <3>1. len + i \in 1..len + PAGES_PER_2MB /\ ~(len + i <= len) /\ (len + i) - len = i
      BY <2>1, PagesAssumption
    <3> QED BY <2>3, <2>4, <3>1
  <2>7. ASSUME NEW i \in 1..len + PAGES_PER_2MB, i \notin 1..len
        PROVE  FREE_STACK_4KB'[i][1] = b
    <3>1. ~(i <= len) /\ i - len \in 1..PAGES_PER_2MB
      BY <2>1, <2>7, PagesAssumption
    <3> QED BY <1>3, <2>4, <3>1
  <2> QED BY <2>1, <2>2, <2>3, <2>5, <2>6, <2>7 DEF len
<1>5. held2[b] = 1 /\ b \notin Partial
  BY <1>1 DEF PInv, WholeOut
<1>6. PTypeOK'
  <2>1. held2' \in [Big -> Nat] /\ FREE_STACK_2MB' \in Seq(Big)
    BY <1>1, <1>2, <1>5
  <2> QED BY <1>1, <1>4, <2>1 DEF PInv, PTypeOK
<1>7. WholeUsed'
  BY <1>1, PartsOf DEF PInv, WholeUsed
<1>8. WholeOut'
  BY <1>1, <1>2, <1>5 DEF PInv, WholeOut, Partial
<1>9. SmallOut'
  BY <1>1, PartsOf DEF PInv, SmallOut
<1>10. SmallFree'
  <2> SUFFICES ASSUME NEW p \in Small, p \notin BITMAP_4KB', p[1] \notin BITMAP_2MB'
               PROVE  \E n \in DOMAIN FREE_STACK_4KB' : FREE_STACK_4KB'[n] = p
    BY DEF SmallFree
  <2>1. CASE p[1] = b
    BY <1>3, <1>4, <2>1
  <2>2. CASE p[1] # b
    BY <1>1, <1>4, <2>2, PartsOf DEF PInv, SmallFree
  <2> QED BY <2>1, <2>2
<1>11. OutOnce'
  BY <1>1, PartsOf DEF PInv, OutOnce
<1>12. EntryUnused' /\ EntryOnce'
  <2>1. \A i \in DOMAIN FREE_STACK_4KB' : FREE_STACK_4KB'[i][1] \notin returned' =>
           /\ i \in DOMAIN FREE_STACK_4KB /\ FREE_STACK_4KB'[i] = FREE_STACK_4KB[i]
           /\ FREE_STACK_4KB[i][1] # b /\ FREE_STACK_4KB[i][1] \notin returned
    BY <1>1, <1>4
  <2>2. EntryUnused'
    BY <1>1, <2>1 DEF PInv, EntryUnused
  <2>3. EntryOnce'
    BY <2>1 DEF PInv, EntryOnce
  <2> QED BY <2>2, <2>3
<1> QED BY <1>6, <1>7, <1>8, <1>9, <1>10, <1>11, <1>12 DEF PInv

\* pages_free for a small page: what the two tests let through is out and not on the stack.
LEMMA Free4KBKeeps ==
  ASSUME PInv, NEW p \in Small, Free4KB(p)
  PROVE  PInv'
<1>1. /\ p \in BITMAP_4KB /\ p[1] \notin BITMAP_2MB
      /\ BITMAP_4KB' = BITMAP_4KB \ {p}
      /\ FREE_STACK_4KB' = Append(FREE_STACK_4KB, p)
      /\ held4' = [held4 EXCEPT ![p] = IF held4[p] > 0 THEN held4[p] - 1 ELSE held4[p]]
      /\ BITMAP_2MB' = BITMAP_2MB /\ FREE_STACK_2MB' = FREE_STACK_2MB
      /\ held2' = held2 /\ returned' = returned
  BY DEF Free4KB, Accepts4
<1>2. held4 \in [Small -> Nat] /\ FREE_STACK_4KB \in Seq(Small) /\ held4[p] > 0
  BY <1>1 DEF PInv, PTypeOK, SmallOut
<1>3. /\ FREE_STACK_4KB' \in Seq(Small)
      /\ DOMAIN FREE_STACK_4KB' = DOMAIN FREE_STACK_4KB \cup {Len(FREE_STACK_4KB) + 1}
      /\ FREE_STACK_4KB'[Len(FREE_STACK_4KB) + 1] = p
      /\ \A i \in DOMAIN FREE_STACK_4KB : FREE_STACK_4KB'[i] = FREE_STACK_4KB[i]
  BY <1>1, <1>2
<1>4. PTypeOK'
  BY <1>1, <1>2, <1>3 DEF PInv, PTypeOK
<1>5. WholeUsed' /\ WholeOut'
  BY <1>1 DEF PInv, WholeUsed, WholeOut
<1>6. SmallOut' /\ OutOnce'
  BY <1>1, <1>2 DEF PInv, SmallOut, OutOnce
<1>7. SmallFree'
  BY <1>1, <1>3 DEF PInv, SmallFree
<1>8. EntryUnused'
  BY <1>1, <1>3 DEF PInv, EntryUnused
<1>9. EntryOnce'
  <2>1. \A i \in DOMAIN FREE_STACK_4KB : p[1] \notin returned => FREE_STACK_4KB[i] # p
    BY <1>1 DEF PInv, EntryUnused
  <2> QED BY <1>1, <1>3, <2>1 DEF PInv, EntryOnce
<1> QED BY <1>4, <1>5, <1>6, <1>7, <1>8, <1>9 DEF PInv

\* Every step keeps the invariant.
LEMMA PInvNext == PInv /\ [PNext]_pvars => PInv'
<1> SUFFICES ASSUME PInv, [PNext]_pvars PROVE PInv'
  OBVIOUS
<1>1. CASE UNCHANGED pvars
  BY <1>1 DEF pvars, PInv, PTypeOK, WholeUsed, WholeOut, SmallOut, SmallFree, OutOnce,
              EntryUnused, EntryOnce
<1>2. CASE PNext
  BY <1>2, Allocate2MBKeeps, Allocate4KBKeeps, ExhaustKeeps, Free2MBKeeps, Free4KBKeeps
  DEF PNext
<1> QED BY <1>1, <1>2

\* The allocator keeps PInv: the two bitmaps, the stack of 4KB pages and what is out
\* agree, for any amount of memory.
THEOREM PagingInvariance == PSpec => []PInv
  BY PInvInit, PInvNext, PTL DEF PSpec

\* pages_allocatePage never hands out memory twice, nor any that is reserved, however
\* sizes are mixed, small pages given back, and free calls repeated.
THEOREM MemoryExclusive == PSpec => []Exclusive
<1>1. PInv => Exclusive
  <2> SUFFICES ASSUME PInv PROVE Exclusive
    OBVIOUS
  <2>1. \A p \in Small : held4[p] \in Nat /\ held2[p[1]] \in {0, 1} /\ p[1] \in Big
    BY PartsOf DEF PInv, PTypeOK, WholeOut
  <2>2. ASSUME NEW p \in Small, p[1] \notin returned
        PROVE  held4[p] + held2[p[1]] <= 1
    <3>1. held4[p] \in {0, 1} /\ (held4[p] = 1 => p[1] \notin BITMAP_2MB)
      BY <2>2 DEF PInv, OutOnce
    <3>2. p[1] \notin BITMAP_2MB => held2[p[1]] = 0
      BY <2>1 DEF PInv, WholeOut
    <3> QED BY <2>1, <3>1, <3>2
  <2>3. ASSUME NEW p \in Reserved
        PROVE  held4[p] + held2[p[1]] = 0
    <3>1. p \in Small /\ p[1] \in Partial
      BY ReservedAssumption, PartsOf DEF Partial
    <3>2. p[1] \in BITMAP_2MB /\ held2[p[1]] = 0 /\ p[1] \notin returned
      BY <3>1 DEF PInv, WholeOut
    <3>3. held4[p] = 0
      BY <3>1, <3>2 DEF PInv, OutOnce
    <3> QED BY <3>2, <3>3
  <2> QED BY <2>2, <2>3 DEF Exclusive
<1> QED BY <1>1, PagingInvariance, PTL

\* No small page that could be handed out is ever lost by an allocation that drops
\* entries, or by a free.
THEOREM MemoryKept == PSpec => []NoneLost
<1>1. PInv => NoneLost
  <2> SUFFICES ASSUME PInv, NEW p \in Small, p[1] \notin Partial,
                      held4[p] = 0, held2[p[1]] = 0
               PROVE  \E n \in DOMAIN FREE_STACK_4KB : FREE_STACK_4KB[n] = p
    BY DEF NoneLost
  <2>1. p[1] \notin BITMAP_2MB
    BY PartsOf DEF PInv, WholeOut
  <2>2. p \notin BITMAP_4KB
    BY <2>1 DEF PInv, SmallOut
  <2> QED BY <2>1, <2>2 DEF PInv, SmallFree
<1> QED BY <1>1, PagingInvariance, PTL

-----------------------------------------------------------------------------
(* Blocks of the kernel heap never overlap, for memory, headers and requests  *)
(* of any size.                                                               *)

\* One block ends before the other starts, when each is given the units of its
\* header and of its size. A size counts the header in a block that was never
\* split off, and then nothing follows what is counted too much: that is the
\* end of the memory, or the header's units a split once left out.
Beyond(size, x, y) == x + HDR + size[x] <= y

Headers(free, used) == Range(free) \cup {b.at : b \in used}

Sized(free, size, used) ==
  \A x \in Headers(free, used) : x \in 0..HEAP /\ x + size[x] <= HEAP
Separated(free, size, used) ==
  \A x, y \in Headers(free, used) : x # y => Beyond(size, x, y) \/ Beyond(size, y, x)

\* What a block in use promises lies in its own units.
Inside(size, b) == b.at + HDR <= b.ptr /\ b.ptr + b.want <= b.at + HDR + size[b.at]

Laid(free, size, used) ==
  /\ free \in Seq(0..HEAP) /\ size \in [0..HEAP -> Nat]
  /\ used \subseteq [at : 0..HEAP, ptr : Nat, want : Nat]
  /\ \A i, j \in DOMAIN free : free[i] = free[j] => i = j
  /\ \A b, c \in used : b.at = c.at => b = c
  /\ \A b \in used : b.at \notin Range(free) /\ Inside(size, b)
  /\ Sized(free, size, used) /\ Separated(free, size, used)

Sound(h, used) == h = [free |-> h.free, size |-> h.size] /\ Laid(h.free, h.size, used)

HInv == Sound(heap, held)

-----------------------------------------------------------------------------
\* First fit is one of the blocks that fit.
LEMMA MinFits == ASSUME NEW S \in SUBSET Nat, S # {} PROVE Min(S) \in S
<1> DEFINE less == OpToRel(<, Nat)
<1>1. \A x, y \in Nat : y < x => <<y, x>> \in less
  BY DEF OpToRel
<1>2. IsWellFoundedOn(less, Nat)
  BY NatLessThanWellFounded
<1> HIDE DEF less
<1>3. \E x \in S : \A y \in S : ~(<<y, x>> \in less)
  BY <1>2, WFMin
<1>4. PICK x \in S : \A y \in S : ~(<<y, x>> \in less)
  BY <1>3
<1>5. \A y \in S : x <= y
  <2>1. \A y \in S : ~(y < x)
    BY <1>1, <1>4
  <2> QED BY <2>1
<1> QED BY <1>5 DEF Min

\* A list without one of its blocks.
LEMMA Without ==
  ASSUME NEW S, NEW s \in Seq(S), NEW i \in 1..Len(s), \A j, k \in DOMAIN s : s[j] = s[k] => j = k
  PROVE  /\ RemoveAt(s, i) \in Seq(S) /\ Range(RemoveAt(s, i)) = Range(s) \ {s[i]}
         /\ \A j, k \in DOMAIN RemoveAt(s, i) : RemoveAt(s, i)[j] = RemoveAt(s, i)[k] => j = k
<1> DEFINE a == SubSeq(s, 1, i - 1)
           b == SubSeq(s, i + 1, Len(s))
           t == RemoveAt(s, i)
           m == Len(s)
<1>0. m \in Nat /\ DOMAIN s = 1..m /\ i \in 1..m
  OBVIOUS
<1>1. a \in Seq(S) /\ Len(a) = i - 1 /\ \A j \in 1..(i - 1) : a[j] = s[j]
  OBVIOUS
<1>2. b \in Seq(S) /\ Len(b) = m - i /\ \A j \in 1..(m - i) : b[j] = s[i + j]
  OBVIOUS
<1>3. t = a \o b
  BY DEF RemoveAt
<1> HIDE DEF a, b
<1>4. t \in Seq(S) /\ Len(t) = m - 1
  <2>1. a \o b \in Seq(S) /\ Len(a \o b) = Len(a) + Len(b)
    BY <1>1, <1>2, ConcatProperties
  <2>2. Len(a) + Len(b) = m - 1
    BY <1>0, <1>1, <1>2
  <2> HIDE DEF t, m
  <2> QED BY <2>1, <2>2, <1>3
<1>5. ASSUME NEW j \in 1..(m - 1) PROVE t[j] = IF j < i THEN s[j] ELSE s[j + 1]
  <2>1. CASE j < i
    BY <2>1, <1>1, <1>2, <1>3
  <2>2. CASE ~(j < i)
    <3>1. t[j] = b[j - (i - 1)]
      BY <2>2, <1>1, <1>2, <1>3
    <3>2. j - (i - 1) \in 1..(m - i) /\ i + (j - (i - 1)) = j + 1
      BY <2>2, <1>0
    <3>3. b[j - (i - 1)] = s[i + (j - (i - 1))]
      BY <3>2, <1>2
    <3> QED BY <3>1, <3>2, <3>3, <2>2
  <2> QED BY <2>1, <2>2
<1>6. DOMAIN t = 1..(m - 1)
  BY <1>4
<1> HIDE DEF t, m
<1> DEFINE at(j) == IF j < i THEN j ELSE j + 1
<1>7. \A j \in DOMAIN t : /\ j \in Nat /\ at(j) \in Nat /\ at(j) \in DOMAIN s /\ at(j) # i
                          /\ t[j] = s[at(j)]
  BY <1>0, <1>5, <1>6
<1>8. \A j, k \in DOMAIN t : at(j) = at(k) => j = k
  BY <1>7
<1>9. \A j \in DOMAIN s : j # i => \E k \in DOMAIN t : at(k) = j
  <2> SUFFICES ASSUME NEW j \in DOMAIN s, j # i PROVE \E k \in DOMAIN t : at(k) = j
    OBVIOUS
  <2>1. CASE j < i
    <3>1. j \in DOMAIN t /\ at(j) = j
      BY <2>1, <1>0, <1>6
    <3> QED BY <3>1
  <2>2. CASE ~(j < i)
    <3>1. j - 1 \in DOMAIN t /\ at(j - 1) = j
      BY <2>2, <1>0, <1>6
    <3> QED BY <3>1
  <2> QED BY <2>1, <2>2
<1> HIDE DEF at
<1>10. \A j, k \in DOMAIN t : t[j] = t[k] => j = k
  BY <1>7, <1>8
<1>11. Range(t) = Range(s) \ {s[i]}
  <2>1. \A j \in DOMAIN t : t[j] \in Range(s) /\ t[j] # s[i]
    BY <1>0, <1>7 DEF Range
  <2>2. ASSUME NEW j \in DOMAIN s, s[j] # s[i] PROVE s[j] \in Range(t)
    <3>1. PICK k \in DOMAIN t : at(k) = j
      BY <1>9, <2>2
    <3> QED BY <3>1, <1>7 DEF Range
  <2>3. \A x \in Range(t) : \E j \in DOMAIN t : x = t[j]
    BY DEF Range
  <2>4. \A x \in Range(s) : \E j \in DOMAIN s : x = s[j]
    BY DEF Range
  <2> QED BY <2>1, <2>2, <2>3, <2>4
<1> QED BY <1>4, <1>10, <1>11 DEF t

\* A list with another block in front.
LEMMA InFront ==
  ASSUME NEW S, NEW s \in Seq(S), NEW n \in S, n \notin Range(s),
         \A j, k \in DOMAIN s : s[j] = s[k] => j = k
  PROVE  /\ <<n>> \o s \in Seq(S) /\ Range(<<n>> \o s) = Range(s) \cup {n}
         /\ \A j, k \in DOMAIN (<<n>> \o s) : (<<n>> \o s)[j] = (<<n>> \o s)[k] => j = k
<1> DEFINE a == <<n>>
<1>1. a \in Seq(S) /\ Len(a) = 1 /\ a[1] = n
  OBVIOUS
<1> HIDE DEF a
<1> DEFINE t == a \o s
           m == Len(s)
<1>2. t \in Seq(S) /\ Len(t) = m + 1
  BY <1>1, ConcatProperties
<1>3. \A i \in 1..(Len(a) + Len(s)) : (a \o s)[i] = IF i <= Len(a) THEN a[i] ELSE s[i - Len(a)]
  <2>1. a \in Seq(S)
    BY <1>1
  <2> QED BY <2>1, ConcatProperties, Zenon
<1>4. \A i \in 1..(1 + m) : t[i] = IF i <= 1 THEN a[i] ELSE s[i - 1]
  BY <1>1, <1>3
<1>5. m \in Nat /\ DOMAIN s = 1..m /\ DOMAIN t = 1..(m + 1)
  BY <1>2
<1> HIDE DEF t, m
<1>6. \A i \in DOMAIN t : i \in Nat /\ (IF i = 1 THEN t[i] = n ELSE i - 1 \in DOMAIN s /\ t[i] = s[i - 1])
  BY <1>1, <1>4, <1>5
<1>7. \A j \in DOMAIN s : s[j] # n
  BY DEF Range
<1>8. ASSUME NEW j \in DOMAIN t, NEW k \in DOMAIN t, t[j] = t[k] PROVE j = k
  <2>1. CASE j = 1
    BY <2>1, <1>6, <1>7, <1>8
  <2>2. CASE j # 1
    <3>1. j \in Nat /\ j - 1 \in DOMAIN s /\ t[j] = s[j - 1]
      BY <2>2, <1>6
    <3>2. k \in Nat /\ k - 1 \in DOMAIN s /\ t[k] = s[k - 1]
      BY <3>1, <1>6, <1>7, <1>8
    <3>3. j - 1 = k - 1
      BY <3>1, <3>2, <1>8
    <3> QED BY <3>1, <3>2, <3>3
  <2> QED BY <2>1, <2>2
<1>9. Range(t) = Range(s) \cup {n}
  <2>1. \A i \in DOMAIN t : t[i] = n \/ t[i] \in Range(s)
    BY <1>6 DEF Range
  <2>2. 1 \in DOMAIN t /\ t[1] = n
    BY <1>5, <1>6
  <2>3. n \in Range(t)
    BY <2>2 DEF Range
  <2>4. ASSUME NEW j \in DOMAIN s PROVE s[j] \in Range(t)
    <3>1. j + 1 \in DOMAIN t /\ j + 1 # 1 /\ (j + 1) - 1 = j
      BY <1>5
    <3>2. t[j + 1] = s[(j + 1) - 1]
      BY <1>6, <3>1
    <3> QED BY <3>1, <3>2 DEF Range
  <2>5. \A x \in Range(t) : \E i \in DOMAIN t : x = t[i]
    BY DEF Range
  <2>6. \A x \in Range(s) : \E j \in DOMAIN s : x = s[j]
    BY DEF Range
  <2> QED BY <2>1, <2>3, <2>4, <2>5, <2>6
<1> QED BY <1>2, <1>8, <1>9 DEF a, t

-----------------------------------------------------------------------------
\* The front of block i goes out: kmalloc and kaligned_alloc.
LEMMA TakeLaid ==
  ASSUME NEW h, NEW used, Sound(h, used),
         NEW i \in DOMAIN h.free, NEW n \in Nat, n >= HDR, h.size[h.free[i]] >= n,
         NEW p \in Nat, NEW w \in Nat, h.free[i] + HDR <= p, p + w <= h.free[i] + n
  PROVE  Sound(Take(h, i, n), used \cup {[at |-> h.free[i], ptr |-> p, want |-> w]})
<1> DEFINE free == h.free
           size == h.size
           g == Take(h, i, n)
           b == free[i]
           e == [at |-> b, ptr |-> p, want |-> w]
           new == used \cup {e}
           H == Headers(free, used)
<1>0. h = [free |-> free, size |-> size] /\ Laid(free, size, used)
  BY DEF Sound
<1>1. /\ free \in Seq(0..HEAP) /\ size \in [0..HEAP -> Nat]
      /\ used \subseteq [at : 0..HEAP, ptr : Nat, want : Nat]
      /\ \A j, k \in DOMAIN free : free[j] = free[k] => j = k
      /\ \A c, d \in used : c.at = d.at => c = d
      /\ \A c \in used : c.at \notin Range(free) /\ Inside(size, c)
      /\ \A x \in H : x \in 0..HEAP /\ x + size[x] <= HEAP
      /\ \A x, y \in H : x # y => Beyond(size, x, y) \/ Beyond(size, y, x)
  BY <1>0 DEF Laid, Sized, Separated
<1>2. HEAP \in Nat /\ HDR \in Nat /\ HDR >= 1
  BY HeapAssumption
<1>3. b \in Range(free) /\ b \in H /\ e.at = b /\ e.ptr = p /\ e.want = w
  BY DEF Range, Headers
<1>4. b \in 0..HEAP /\ b \in Nat /\ size[b] \in Nat /\ b + size[b] <= HEAP /\ size[b] >= n
  <2>1. b \in 0..HEAP /\ b + size[b] <= HEAP
    BY <1>1, <1>3
  <2>2. size[b] >= n
    OBVIOUS
  <2> HIDE DEF b, size
  <2> QED BY <2>1, <2>2, <1>1, <1>2
<1>5. new \subseteq [at : 0..HEAP, ptr : Nat, want : Nat]
  BY <1>1, <1>4
<1>6. \A c \in used : c.at # b
  BY <1>1, <1>3
<1>7. \A c, d \in new : c.at = d.at => c = d
  BY <1>1, <1>3, <1>6
<1>8. DOMAIN free = 1..Len(free) /\ Len(free) \in Nat
  BY <1>1
<1>9. {c.at : c \in new} = {c.at : c \in used} \cup {b}
  BY <1>3
<1>10. \A x \in H : x \in Nat /\ size[x] \in Nat
  BY <1>1, <1>2
<1>11. CASE size[b] > n
  <2> DEFINE c == b + n
             f == [free EXCEPT ![i] = c]
             z == [size EXCEPT ![b] = n - HDR, ![c] = size[b] - n]
  <2>1. g.free = f /\ g.size = z /\ g = [free |-> g.free, size |-> g.size]
    BY <1>0, <1>11 DEF Take
  <2>2. c = b + n /\ c \in 0..HEAP /\ c \in Nat /\ c # b /\ n - HDR \in Nat /\ size[b] - n \in Nat
    BY <1>2, <1>4, <1>11
  <2>3. \A x \in H : x # b => \/ x + HDR + size[x] <= b
                             \/ b + HDR + size[b] <= x
    BY <1>1, <1>3 DEF Beyond
  <2>4. c \notin H
    BY <2>2, <2>3, <1>2, <1>4, <1>10
  <2>5. z \in [0..HEAP -> Nat] /\ z[b] = n - HDR /\ z[c] = size[b] - n /\ \A x \in H \ {b} : z[x] = size[x]
    <3>1. \A x \in H \ {b} : x \in 0..HEAP /\ x # b /\ x # c
      BY <1>1, <2>4
    <3> HIDE DEF c
    <3> QED BY <3>1, <1>1, <1>4, <2>2
  <2>6. /\ f \in Seq(0..HEAP) /\ DOMAIN f = DOMAIN free
        /\ f[i] = c /\ \A j \in DOMAIN free : j # i => f[j] = free[j]
    <3> HIDE DEF c
    <3> QED BY <1>1, <2>2
  <2>7. \A j \in DOMAIN free : free[j] \in H /\ (j # i => free[j] # b)
    BY <1>1 DEF Headers, Range
  <2> HIDE DEF c, f, z
  <2>8. \A j, k \in DOMAIN f : f[j] = f[k] => j = k
    BY <2>4, <2>6, <2>7, <1>1
  <2>9. Range(f) = (Range(free) \ {b}) \cup {c}
    <3>1. \A j \in DOMAIN f : f[j] = c \/ f[j] \in Range(free) \ {b}
      BY <2>6, <2>7 DEF Range
    <3>2. c \in Range(f)
      BY <2>6 DEF Range
    <3>3. ASSUME NEW j \in DOMAIN free, free[j] # b PROVE free[j] \in Range(f)
      <4>1. j # i
        BY <3>3
      <4> QED BY <4>1, <2>6 DEF Range
    <3>4. \A x \in Range(f) : \E j \in DOMAIN f : x = f[j]
      BY DEF Range
    <3>5. \A x \in Range(free) : \E j \in DOMAIN free : x = free[j]
      BY DEF Range
    <3> QED BY <3>1, <3>2, <3>3, <3>4, <3>5
  <2>10. Headers(f, new) = H \cup {c}
    BY <2>9, <1>3, <1>9 DEF Headers
  <2>11. \A d \in new : d.at \notin Range(f)
    <3>1. \A d \in used : d.at \in H /\ d.at \notin Range(free)
      BY <1>1 DEF Headers
    <3> QED BY <3>1, <2>2, <2>4, <2>9, <1>3
  <2>12. \A d \in new : Inside(z, d)
    <3>1. ASSUME NEW d \in used PROVE Inside(z, d)
      <4>1. d.at \in H \ {b}
        BY <1>6 DEF Headers
      <4> QED BY <4>1, <2>5, <1>1 DEF Inside
    <3>2. Inside(z, e)
      <4>1. b + HDR + (n - HDR) = b + n
        BY <1>2, <1>4
      <4> QED BY <4>1, <1>3, <2>5 DEF Inside
    <3> QED BY <3>1, <3>2
  <2>13. \A x \in H \cup {c} : x \in 0..HEAP /\ x + z[x] <= HEAP
    <3> TAKE x \in H \cup {c}
    <3>1. CASE x = c
      <4>1. c + (size[b] - n) = b + size[b]
        BY <1>2, <1>4 DEF c
      <4> QED BY <4>1, <3>1, <2>2, <2>5, <1>4
    <3>2. CASE x = b
      <4>1. b + (n - HDR) <= HEAP
        BY <1>2, <1>4
      <4> QED BY <4>1, <3>2, <2>5, <1>4
    <3>3. CASE x # b /\ x # c
      BY <3>3, <2>5, <1>1
    <3> QED BY <3>1, <3>2, <3>3
  <2>14. \A x, y \in H \cup {c} : x # y => Beyond(z, x, y) \/ Beyond(z, y, x)
    <3>1. b + HDR + z[b] = c /\ c + HDR + z[c] = b + HDR + size[b] /\ b <= c /\ c <= b + HDR + size[b]
      <4>1. /\ b + HDR + (n - HDR) = b + n /\ b + n + HDR + (size[b] - n) = b + HDR + size[b]
            /\ b <= b + n /\ b + n <= b + HDR + size[b]
        BY <1>2, <1>4
      <4> QED BY <4>1, <2>2, <2>5
    <3>2. ASSUME NEW x \in H \ {b}
          PROVE  \/ Beyond(z, x, b) /\ Beyond(z, x, c)
                 \/ Beyond(z, b, x) /\ Beyond(z, c, x)
      <4>1. z[x] = size[x] /\ x \in Nat /\ size[x] \in Nat
        BY <2>5, <1>10
      <4>2. CASE x + HDR + size[x] <= b
        <5>1. x + HDR + size[x] <= c
          BY <4>1, <4>2, <3>1, <2>2, <1>2, <1>4
        <5> QED BY <5>1, <4>1, <4>2 DEF Beyond
      <4>3. CASE b + HDR + size[b] <= x
        <5>1. c <= x
          BY <4>1, <4>3, <3>1, <2>2, <1>2, <1>4
        <5> QED BY <5>1, <4>3, <3>1 DEF Beyond
      <4> QED BY <4>2, <4>3, <2>3
    <3>3. Beyond(z, b, c)
      BY <3>1, <2>2 DEF Beyond
    <3>4. \A x, y \in H \ {b} : x # y => Beyond(z, x, y) \/ Beyond(z, y, x)
      BY <2>5, <1>1 DEF Beyond
    <3> QED BY <3>2, <3>3, <3>4
  <2>15. Laid(f, z, new)
    <3> HIDE DEF new, H
    <3> QED BY <2>5, <2>6, <2>8, <2>10, <2>11, <2>12, <2>13, <2>14, <1>5, <1>7 DEF Laid, Sized, Separated
  <2> QED BY <2>1, <2>15 DEF Sound
<1>12. CASE ~(size[b] > n)
  <2> DEFINE f == RemoveAt(free, i)
  <2>1. g.free = f /\ g.size = size /\ g = [free |-> g.free, size |-> g.size]
    BY <1>0, <1>12 DEF Take
  <2>2. /\ f \in Seq(0..HEAP) /\ Range(f) = Range(free) \ {b}
        /\ \A j, k \in DOMAIN f : f[j] = f[k] => j = k
    BY <1>1, <1>8, Without
  <2> HIDE DEF f
  <2>3. Headers(f, new) = H
    BY <2>2, <1>3, <1>9 DEF Headers
  <2>4. \A d \in new : d.at \notin Range(f)
    BY <2>2, <1>1, <1>3
  <2>5. Inside(size, e)
    <3>1. p + w <= b + HDR + size[b]
      BY <1>2, <1>4
    <3> QED BY <3>1, <1>3 DEF Inside
  <2>6. \A d \in new : Inside(size, d)
    BY <2>5, <1>1
  <2>7. Laid(f, size, new)
    <3> HIDE DEF new, H
    <3> QED BY <2>2, <2>3, <2>4, <2>6, <1>1, <1>5, <1>7 DEF Laid, Sized, Separated
  <2> QED BY <2>1, <2>7 DEF Sound
<1> QED BY <1>11, <1>12

\* A block goes back to the list: kfree.
LEMMA ReleaseLaid ==
  ASSUME NEW h, NEW used, Sound(h, used), NEW b \in used, Freeable(b)
  PROVE  Sound(Release(h, b.ptr), used \ {b})
<1> DEFINE free == h.free
           size == h.size
           g == Release(h, b.ptr)
           f == <<b.at>> \o free
<1>0. h = [free |-> free, size |-> size] /\ Laid(free, size, used)
  BY DEF Sound
<1>1. /\ free \in Seq(0..HEAP) /\ b.at \in 0..HEAP /\ b.at \notin Range(free)
      /\ \A j, k \in DOMAIN free : free[j] = free[k] => j = k
      /\ \A c \in used : c.at \notin Range(free) /\ (c.at = b.at => c = b)
  BY <1>0 DEF Laid
<1>2. b.ptr - HDR = b.at
  BY <1>1, HeapAssumption DEF Freeable
<1>3. g.free = f /\ g.size = size /\ g = [free |-> g.free, size |-> g.size]
  <2>1. g = [h EXCEPT !.free = f]
    BY <1>2 DEF Release
  <2> HIDE DEF f, g
  <2> QED BY <2>1, <1>0
<1>4. /\ f \in Seq(0..HEAP) /\ Range(f) = Range(free) \cup {b.at}
      /\ \A j, k \in DOMAIN f : f[j] = f[k] => j = k
  BY <1>1, InFront
<1> HIDE DEF f
<1>5. Headers(f, used \ {b}) = Headers(free, used)
  BY <1>4 DEF Headers
<1>6. \A c \in used \ {b} : c.at \notin Range(f)
  BY <1>1, <1>4
<1>7. Laid(f, size, used \ {b})
  BY <1>0, <1>4, <1>5, <1>6 DEF Laid, Sized, Separated
<1> QED BY <1>3, <1>7 DEF Sound

\* A block in use promises other units of its own: krealloc in place.
LEMMA StayLaid ==
  ASSUME NEW free, NEW size, NEW used, Laid(free, size, used),
         NEW b \in used, Freeable(b), NEW n \in Nat, size[b.at] >= n
  PROVE  Laid(free, size, (used \ {b}) \cup {[b EXCEPT !.want = n]})
<1> DEFINE c == [b EXCEPT !.want = n]
           new == (used \ {b}) \cup {c}
<1>1. /\ b \in [at : 0..HEAP, ptr : Nat, want : Nat] /\ HDR \in Nat /\ HEAP \in Nat
      /\ size \in [0..HEAP -> Nat] /\ b.at \notin Range(free)
  BY HeapAssumption DEF Laid
<1>2. c \in [at : 0..HEAP, ptr : Nat, want : Nat] /\ c.at = b.at /\ c.ptr = b.ptr /\ c.want = n
  BY <1>1
<1> HIDE DEF c
<1>3. Inside(size, c)
  BY <1>1, <1>2 DEF Inside, Freeable
<1>4. {d.at : d \in new} = {d.at : d \in used}
  BY <1>2
<1>5. Headers(free, new) = Headers(free, used)
  BY <1>4 DEF Headers
<1>6. /\ new \subseteq [at : 0..HEAP, ptr : Nat, want : Nat]
      /\ \A d, e \in new : d.at = e.at => d = e
      /\ \A d \in new : d.at \notin Range(free) /\ Inside(size, d)
  BY <1>1, <1>2, <1>3 DEF Laid
<1> HIDE DEF new
<1>7. Laid(free, size, new)
  BY <1>5, <1>6 DEF Laid, Sized, Separated
<1> QED BY <1>7 DEF new, c

-----------------------------------------------------------------------------
\* The invariant of the next state is that of its variables.
LEMMA SoundNext == Sound(heap', held') => HInv'
  BY DEF HInv, Sound, Laid, Sized, Separated, Headers, Beyond, Inside

LEMMA HeapInit == HInit => HInv
<1> SUFFICES ASSUME HInit PROVE HInv
  OBVIOUS
<1>1. HEAP \in Nat /\ HDR \in Nat /\ 0 \in 0..HEAP
  BY HeapAssumption
<1> DEFINE z == [a \in 0..HEAP |-> IF a = 0 THEN HEAP ELSE 0]
<1>2. heap.free = <<0>> /\ heap.size = z /\ held = {} /\ heap = [free |-> heap.free, size |-> heap.size]
  BY DEF HInit
<1>3. z \in [0..HEAP -> Nat] /\ z[0] = HEAP
  BY <1>1
<1> HIDE DEF z
<1>4. <<0>> \in Seq(0..HEAP) /\ DOMAIN <<0>> = {1} /\ <<0>>[1] = 0
  BY <1>1
<1>5. Range(<<0>>) = {0}
  BY <1>4 DEF Range
<1>6. Headers(<<0>>, {}) = {0}
  BY <1>5 DEF Headers
<1>7. Laid(<<0>>, z, {})
  BY <1>1, <1>3, <1>4, <1>6 DEF Laid, Sized, Separated
<1> QED BY <1>2, <1>7 DEF HInv, Sound

\* What fits is a block of the list that is large enough.
LEMMA FirstFit ==
  ASSUME HInv, NEW S, S \subseteq DOMAIN heap.free, S # {}
  PROVE  Min(S) \in S
<1>1. S \in SUBSET Nat
  BY DEF HInv, Sound, Laid
<1> QED BY <1>1, MinFits

LEMMA KmallocStep == ASSUME HInv, NEW n \in Requests, Kmalloc(n) PROVE HInv'
<1> DEFINE i == Min(FitsMalloc(heap, n))
           b == heap.free[i]
           u == n + HDR
           p == b + HDR
<1>1. /\ heap' = Take(heap, i, u) /\ FitsMalloc(heap, n) # {}
      /\ held' = held \cup {[at |-> b, ptr |-> p, want |-> n]}
  BY DEF Kmalloc
<1>2. i \in DOMAIN heap.free /\ heap.size[b] >= u
  BY <1>1, FirstFit DEF FitsMalloc
<1> HIDE DEF i
<1>3. n \in Nat /\ HDR \in Nat /\ b \in Nat
  BY <1>2, HeapAssumption DEF HInv, Sound, Laid
<1>4. u \in Nat /\ u >= HDR /\ p \in Nat /\ b + HDR <= p /\ p + n <= b + u
  BY <1>3
<1> HIDE DEF u, p
<1>5. Sound(Take(heap, i, u), held \cup {[at |-> b, ptr |-> p, want |-> n]})
  BY <1>2, <1>3, <1>4, TakeLaid DEF HInv
<1> QED BY <1>1, <1>5, SoundNext

LEMMA KalignedAllocStep ==
  ASSUME HInv, NEW n \in Requests, NEW align \in Alignments, KalignedAlloc(n, align) PROVE HInv'
<1> DEFINE i == Min(FitsAligned(heap, n, align))
           b == heap.free[i]
           pad == Padding(b, align)
           u == pad + n + HDR
           p == b + HDR + pad
<1>1. /\ heap' = Take(heap, i, u) /\ FitsAligned(heap, n, align) # {}
      /\ held' = held \cup {[at |-> b, ptr |-> p, want |-> n]}
  BY DEF KalignedAlloc
<1>2. i \in DOMAIN heap.free /\ heap.size[b] >= u
  BY <1>1, FirstFit DEF FitsAligned
<1> HIDE DEF i
<1>3. n \in Nat /\ HDR \in Nat /\ b \in Nat /\ align \in Nat \ {0}
  BY <1>2, HeapAssumption DEF HInv, Sound, Laid
<1>4. pad \in Nat
  <2>1. (b + HDR) % align \in 0..(align - 1)
    BY <1>3
  <2>2. \A r \in 0..(align - 1) : align - r \in Nat /\ (align - r) % align \in Nat
    BY <1>3
  <2> QED BY <2>1, <2>2 DEF Padding
<1> HIDE DEF pad
<1>5. u \in Nat /\ u >= HDR /\ p \in Nat /\ b + HDR <= p /\ p + n <= b + u
  BY <1>3, <1>4
<1> HIDE DEF u, p
<1>6. Sound(Take(heap, i, u), held \cup {[at |-> b, ptr |-> p, want |-> n]})
  BY <1>2, <1>3, <1>5, TakeLaid DEF HInv
<1> QED BY <1>1, <1>6, SoundNext

LEMMA KfreeStep == ASSUME HInv, NEW b \in held, Kfree(b) PROVE HInv'
<1>1. Freeable(b) /\ heap' = Release(heap, b.ptr) /\ held' = held \ {b}
  BY DEF Kfree
<1>2. Sound(Release(heap, b.ptr), held \ {b})
  BY <1>1, ReleaseLaid DEF HInv
<1> QED BY <1>1, <1>2, SoundNext

LEMMA KreallocStaysStep == ASSUME HInv, NEW b \in held, NEW n \in Requests, KreallocStays(b, n) PROVE HInv'
<1>1. /\ Freeable(b) /\ heap.size[b.at] >= n /\ heap' = heap
      /\ held' = (held \ {b}) \cup {[b EXCEPT !.want = n]}
  BY DEF KreallocStays
<1>2. Laid(heap.free, heap.size, held) /\ n \in Nat
  BY HeapAssumption DEF HInv, Sound
<1>3. Laid(heap.free, heap.size, (held \ {b}) \cup {[b EXCEPT !.want = n]})
  BY <1>1, <1>2, StayLaid
<1>4. Sound(heap, held')
  BY <1>1, <1>3 DEF HInv, Sound
<1> QED BY <1>1, <1>4, SoundNext

\* The new block is taken while the old one is still in use, so they differ.
LEMMA KreallocMovesStep == ASSUME HInv, NEW b \in held, NEW n \in Requests, KreallocMoves(b, n) PROVE HInv'
<1> DEFINE i == Min(FitsMalloc(heap, n))
           c == heap.free[i]
           u == n + HDR
           p == c + HDR
           e == [at |-> c, ptr |-> p, want |-> n]
           g == Take(heap, i, u)
<1>1. /\ Freeable(b) /\ FitsMalloc(heap, n) # {}
      /\ heap' = Release(g, b.ptr) /\ held' = (held \ {b}) \cup {e}
  BY DEF KreallocMoves
<1>2. i \in DOMAIN heap.free /\ heap.size[c] >= u
  BY <1>1, FirstFit DEF FitsMalloc
<1> HIDE DEF i
<1>3. n \in Nat /\ HDR \in Nat /\ c \in Nat
  BY <1>2, HeapAssumption DEF HInv, Sound, Laid
<1>4. u \in Nat /\ u >= HDR /\ p \in Nat /\ c + HDR <= p /\ p + n <= c + u
  BY <1>3
<1> HIDE DEF u, p
<1>5. Sound(g, held \cup {e})
  BY <1>2, <1>3, <1>4, TakeLaid DEF HInv
<1>6. c \in Range(heap.free)
  BY <1>2 DEF Range
<1>7. b # e
  BY <1>6 DEF HInv, Sound, Laid
<1> HIDE DEF e, g
<1>8. b \in held \cup {e} /\ (held \cup {e}) \ {b} = (held \ {b}) \cup {e}
  BY <1>7
<1>9. Sound(Release(g, b.ptr), (held \cup {e}) \ {b})
  BY <1>1, <1>5, <1>8, ReleaseLaid
<1> QED BY <1>1, <1>8, <1>9, SoundNext

\* Blocks that are laid out apart overlap nowhere.
LEMMA LaidApart == HInv => NoOverlap
<1> SUFFICES ASSUME HInv PROVE NoOverlap
  OBVIOUS
<1> DEFINE H == Headers(heap.free, held)
           U(x) == x..(x + HDR + heap.size[x] - 1)
<1>1. HDR \in Nat /\ HEAP \in Nat /\ Laid(heap.free, heap.size, held)
  BY HeapAssumption DEF HInv, Sound
<1>2. \A x \in H : x \in Nat /\ heap.size[x] \in Nat
  BY <1>1 DEF Laid, Sized
<1>3. \A x, y \in H : x # y => U(x) \cap U(y) = {}
  <2> SUFFICES ASSUME NEW x \in H, NEW y \in H, x # y PROVE U(x) \cap U(y) = {}
    OBVIOUS
  <2>1. x + HDR + heap.size[x] <= y \/ y + HDR + heap.size[y] <= x
    BY <1>1 DEF Laid, Separated, Beyond
  <2> QED BY <2>1, <1>1, <1>2
<1>4. \A b \in held : b.at \in H /\ HeldUnits(b) \subseteq U(b.at)
  <2> SUFFICES ASSUME NEW b \in held PROVE b.at \in H /\ HeldUnits(b) \subseteq U(b.at)
    OBVIOUS
  <2>1. b.at \in H
    BY DEF Headers
  <2>2. b.ptr \in Nat /\ b.want \in Nat /\ b.ptr + b.want <= b.at + HDR + heap.size[b.at]
    BY <1>1 DEF Laid, Inside
  <2> QED BY <2>1, <2>2, <1>1, <1>2 DEF HeldUnits
<1>5. \A j \in DOMAIN heap.free : heap.free[j] \in H /\ FreeUnits(heap.free[j]) \subseteq U(heap.free[j])
  <2> SUFFICES ASSUME NEW j \in DOMAIN heap.free
               PROVE  heap.free[j] \in H /\ FreeUnits(heap.free[j]) \subseteq U(heap.free[j])
    OBVIOUS
  <2>1. heap.free[j] \in H
    BY DEF Headers, Range
  <2> QED BY <2>1, <1>1, <1>2 DEF FreeUnits
<1>6. \A b, c \in held : b # c => b.at # c.at
  BY <1>1 DEF Laid
<1>7. \A b \in held, j \in DOMAIN heap.free : b.at # heap.free[j]
  BY <1>1 DEF Laid, Range
<1>8. \A j, k \in DOMAIN heap.free : j # k => heap.free[j] # heap.free[k]
  BY <1>1 DEF Laid
<1> HIDE DEF H, U
<1> QED BY <1>3, <1>4, <1>5, <1>6, <1>7, <1>8 DEF NoOverlap

\* The kernel heap hands out no memory twice: blocks in use and blocks in the
\* free list never share a unit (kmemory.c), for memory, headers, requests and
\* alignments of any size, through every order of allocating, resizing and
\* freeing, although the sizes in the list mean two different things.
THEOREM HeapSound == HSpec => []NoOverlap
<1>1. HInv /\ [HNext]_hvars => HInv'
  <2> SUFFICES ASSUME HInv, [HNext]_hvars PROVE HInv'
    OBVIOUS
  <2>1. CASE UNCHANGED hvars
    BY <2>1, SoundNext DEF hvars, HInv
  <2>2. ASSUME NEW n \in Requests, Kmalloc(n) PROVE HInv'
    BY <2>2, KmallocStep
  <2>3. ASSUME NEW n \in Requests, KmallocFails(n) PROVE HInv'
    BY <2>1, <2>3 DEF KmallocFails
  <2>4. ASSUME NEW n \in Requests, NEW align \in Alignments, KalignedAlloc(n, align) PROVE HInv'
    BY <2>4, KalignedAllocStep
  <2>5. ASSUME NEW b \in held, Kfree(b) PROVE HInv'
    BY <2>5, KfreeStep
  <2>6. ASSUME NEW b \in held, NEW n \in Requests, KreallocStays(b, n) PROVE HInv'
    BY <2>6, KreallocStaysStep
  <2>7. ASSUME NEW b \in held, NEW n \in Requests, KreallocMoves(b, n) PROVE HInv'
    BY <2>7, KreallocMovesStep
  <2> QED BY <2>1, <2>2, <2>3, <2>4, <2>5, <2>6, <2>7 DEF HNext
<1> QED BY HeapInit, <1>1, LaidApart, PTL DEF HSpec

-----------------------------------------------------------------------------
(* Objects of a pool are mapped and apart, for any size of pages and objects, *)
(* as long as no object starts exactly on a page boundary.                    *)

\* Where pool_allocate maps no page although it needs one (kpool.c:47).
NoBoundary == \A n \in 1..(MaxObjects - 1) : (START + n * OBJ) % PAGE # 0

\* alloc_ptr is behind n objects, and the page of the word before it is mapped.
Pointer == /\ \E n \in 0..MaxObjects : alloc_ptr = START + n * OBJ
           /\ 0 \in mapped /\ (alloc_ptr # START => (alloc_ptr - 1) \div PAGE \in mapped)

\* Objects were cut off below alloc_ptr, from pages that are mapped.
ObjectsIn(all) == \A o \in all : o \in Nat /\ o + OBJ <= alloc_ptr /\ PagesOf(o) \subseteq mapped
Separate(all) == \A o, q \in all : o # q => o + OBJ <= q \/ q + OBJ <= o

OInv == /\ Pointer
        /\ ObjectsIn(out \cup Range(free_stack)) /\ Separate(out \cup Range(free_stack))
        /\ free_stack \in Seq(Nat) /\ IsInjective(free_stack) /\ Range(free_stack) \cap out = {}
        /\ stack_pages \in Nat /\ Len(free_stack) <= stack_pages * PAGE

-----------------------------------------------------------------------------
\* Division with rest, and that it has one answer.
LEMMA DivMod ==
  \A p \in Nat \ {0} : \A a \in Nat :
    a \div p \in Nat /\ a % p \in 0..(p - 1) /\ a = p * (a \div p) + (a % p)
  OBVIOUS

LEMMA DivUnique == \A p \in Nat \ {0} : \A q \in Nat, r \in 0..(p - 1) : (p * q + r) \div p = q
  OBVIOUS

\* An object at a lies on the page of a and at most the next; it crosses only if
\* a is not on a boundary, and then the page mapped is that next one, and the
\* word before a is on the page of a.
LEMMA Crossing ==
  ASSUME NEW a \in Nat
  PROVE  /\ a \div PAGE \in Nat /\ (a + OBJ - 1) \div PAGE \in {a \div PAGE, a \div PAGE + 1}
         /\ a % PAGE # 0 => PageUp(a) = a \div PAGE + 1 /\ (a - 1) \div PAGE = a \div PAGE
         /\ a % PAGE = 0 => (a + OBJ - 1) \div PAGE = a \div PAGE
<1> DEFINE q == a \div PAGE
           r == a % PAGE
<1>1. PAGE \in Nat \ {0} /\ OBJ \in Nat /\ OBJ >= 1 /\ OBJ <= PAGE
  BY PoolAssumption
<1>2. q \in Nat /\ r \in 0..(PAGE - 1) /\ a = PAGE * q + r
  BY <1>1, DivMod
<1> HIDE DEF q, r
<1>3. \A x \in Nat, y \in 0..(PAGE - 1) : (PAGE * x + y) \div PAGE = x
  BY <1>1, DivUnique
<1>4. PAGE * (q + 1) = PAGE * q + PAGE /\ PAGE * q \in Nat /\ q + 1 \in Nat
  BY <1>1, <1>2
<1>5. (a + OBJ - 1) \div PAGE \in {q, q + 1} /\ (r = 0 => (a + OBJ - 1) \div PAGE = q)
  <2>1. CASE r + OBJ - 1 < PAGE
    <3>1. r + OBJ - 1 \in 0..(PAGE - 1) /\ a + OBJ - 1 = PAGE * q + (r + OBJ - 1)
      BY <2>1, <1>1, <1>2, <1>4
    <3>2. (PAGE * q + (r + OBJ - 1)) \div PAGE = q
      BY <3>1, <1>2, <1>3
    <3> QED BY <3>1, <3>2
  <2>2. CASE ~(r + OBJ - 1 < PAGE)
    <3>1. /\ r + OBJ - 1 - PAGE \in 0..(PAGE - 1) /\ r # 0
          /\ a + OBJ - 1 = PAGE * (q + 1) + (r + OBJ - 1 - PAGE)
      BY <2>2, <1>1, <1>2, <1>4
    <3>2. (PAGE * (q + 1) + (r + OBJ - 1 - PAGE)) \div PAGE = q + 1
      BY <3>1, <1>4, <1>3
    <3> QED BY <3>1, <3>2
  <2> QED BY <2>1, <2>2
<1>6. ASSUME r # 0 PROVE PageUp(a) = q + 1 /\ (a - 1) \div PAGE = q
  <2>1. /\ r - 1 \in 0..(PAGE - 1) /\ a - 1 = PAGE * q + (r - 1)
        /\ a + PAGE - 1 = PAGE * (q + 1) + (r - 1)
    BY <1>6, <1>1, <1>2, <1>4
  <2>2. (PAGE * q + (r - 1)) \div PAGE = q /\ (PAGE * (q + 1) + (r - 1)) \div PAGE = q + 1
    BY <2>1, <1>2, <1>3, <1>4
  <2> QED BY <2>1, <2>2 DEF PageUp
<1> QED BY <1>2, <1>5, <1>6 DEF q, r

-----------------------------------------------------------------------------
LEMMA PoolInit == OInit => OInv
<1> SUFFICES ASSUME OInit PROVE OInv
  OBVIOUS
<1>1. /\ alloc_ptr = START /\ mapped = {0} /\ free_stack = <<>> /\ stack_pages = 0 /\ out = {}
  BY DEF OInit
<1>2. Range(free_stack) = {} /\ Len(free_stack) = 0 /\ free_stack \in Seq(Nat) /\ IsInjective(free_stack)
  BY <1>1 DEF Range, IsInjective
<1>3. Pointer
  <2>1. 0 \in 0..MaxObjects /\ START = START + 0 * OBJ
    BY PoolAssumption
  <2> QED BY <1>1, <2>1 DEF Pointer
<1>4. ObjectsIn(out \cup Range(free_stack)) /\ Separate(out \cup Range(free_stack))
  BY <1>1, <1>2 DEF ObjectsIn, Separate
<1>5. stack_pages * PAGE = 0
  BY <1>1, PoolAssumption
<1> QED BY <1>1, <1>2, <1>3, <1>4, <1>5 DEF OInv

\* An object from new memory.
LEMMA NewStep == ASSUME NoBoundary, OInv, AllocateNew PROVE OInv'
<1> DEFINE a == alloc_ptr
           all == out \cup Range(free_stack)
<1>1. /\ free_stack = <<>> /\ a < START + MaxObjects * OBJ
      /\ mapped' = IF a \div PAGE # (a + OBJ - 1) \div PAGE THEN mapped \cup {PageUp(a)} ELSE mapped
      /\ out' = out \cup {a} /\ alloc_ptr' = a + OBJ /\ free_stack' = free_stack /\ stack_pages' = stack_pages
  BY DEF AllocateNew
<1>2. PICK n \in 0..MaxObjects : a = START + n * OBJ
  BY DEF OInv, Pointer
<1>3. START \in Nat /\ OBJ \in Nat \ {0} /\ MaxObjects \in Nat /\ PAGE \in Nat \ {0} /\ START < PAGE
  BY PoolAssumption
<1>4. n * OBJ \in Nat /\ a \in Nat
  BY <1>2, <1>3
<1>5. n < MaxObjects /\ (n + 1) * OBJ = n * OBJ + OBJ
  <2>1. n \in Nat
    BY <1>3
  <2>2. CASE n = MaxObjects
    BY <2>2, <1>1, <1>2, <1>3, <1>4
  <2>3. (n + 1) * OBJ = n * OBJ + OBJ
    BY <2>1, <1>3
  <2> QED BY <2>1, <2>2, <2>3, <1>3
<1>6. a \div PAGE \in mapped /\ (a % PAGE = 0 => (a + OBJ - 1) \div PAGE = a \div PAGE)
  <2>1. CASE n = 0
    <3>1. a = PAGE * 0 + START /\ START \in 0..(PAGE - 1)
      BY <2>1, <1>2, <1>3
    <3>2. a \div PAGE = 0
      BY <3>1, <1>3, DivUnique
    <3> QED BY <3>2, <1>4, Crossing DEF OInv, Pointer
  <2>2. CASE n # 0
    <3>1. n \in 1..(MaxObjects - 1) /\ n >= 1
      BY <2>2, <1>3, <1>5
    <3>2. a % PAGE # 0
      BY <3>1, <1>2 DEF NoBoundary
    <3>3. n * OBJ > 0
      BY <3>1, <1>3
    <3>4. a # START
      BY <3>3, <1>2, <1>3, <1>4
    <3>5. (a - 1) \div PAGE \in mapped
      BY <3>4 DEF OInv, Pointer
    <3> QED BY <3>2, <3>5, <1>4, Crossing
  <2> QED BY <2>1, <2>2
<1>7. mapped \subseteq mapped' /\ PagesOf(a) \subseteq mapped' /\ (a + OBJ - 1) \div PAGE \in mapped'
  <2> DEFINE q == a \div PAGE
             z == (a + OBJ - 1) \div PAGE
  <2>1. q \in Nat /\ z \in {q, q + 1} /\ q \in mapped /\ (z # q => PageUp(a) = q + 1)
    BY <1>4, <1>6, Crossing
  <2>2. mapped' = IF q # z THEN mapped \cup {PageUp(a)} ELSE mapped
    BY <1>1
  <2>3. PagesOf(a) = q..z
    BY DEF PagesOf
  <2> HIDE DEF q, z
  <2>4. q..z \subseteq {q, z}
    BY <2>1
  <2>5. mapped \subseteq mapped' /\ q \in mapped' /\ z \in mapped'
    BY <2>1, <2>2
  <2> QED BY <2>3, <2>4, <2>5 DEF z
<1>8. Pointer'
  <2>1. n + 1 \in 0..MaxObjects /\ alloc_ptr' = START + (n + 1) * OBJ
    BY <1>1, <1>2, <1>3, <1>4, <1>5
  <2>2. 0 \in mapped'
    BY <1>7 DEF OInv, Pointer
  <2>3. (alloc_ptr' - 1) \div PAGE \in mapped'
    <3>1. alloc_ptr' - 1 = a + OBJ - 1
      BY <1>1, <1>3, <1>4
    <3> QED BY <3>1, <1>7
  <2> QED BY <2>1, <2>2, <2>3 DEF Pointer
<1>9. (out \cup Range(free_stack))' = all \cup {a}
  BY <1>1
<1>10. \A o \in all : o \in Nat /\ o + OBJ <= a /\ PagesOf(o) \subseteq mapped
  BY DEF OInv, ObjectsIn
<1> HIDE DEF all
<1>11. \A o \in all \cup {a} : o \in Nat /\ o + OBJ <= a + OBJ /\ PagesOf(o) \subseteq mapped'
  <2> TAKE o \in all \cup {a}
  <2>1. CASE o \in all
    <3>1. o \in Nat /\ o + OBJ <= a /\ PagesOf(o) \subseteq mapped'
      BY <2>1, <1>7, <1>10
    <3> QED BY <3>1, <1>3, <1>4
  <2>2. CASE o = a
    <3>1. PagesOf(o) \subseteq mapped'
      BY <2>2, <1>7
    <3> QED BY <3>1, <2>2, <1>3, <1>4
  <2> QED BY <2>1, <2>2
<1>12. Separate(all \cup {a})
  BY <1>10 DEF OInv, Separate, all
<1>13. ObjectsIn(out \cup Range(free_stack))' /\ Separate(out \cup Range(free_stack))'
  BY <1>1, <1>9, <1>11, <1>12 DEF ObjectsIn, Separate, PagesOf
<1>14. /\ free_stack' \in Seq(Nat) /\ IsInjective(free_stack') /\ Range(free_stack') \cap out' = {}
       /\ stack_pages' \in Nat /\ Len(free_stack') <= stack_pages' * PAGE
  <2>1. Range(free_stack') = {}
    BY <1>1 DEF Range
  <2> QED BY <2>1, <1>1 DEF OInv
<1> QED BY <1>8, <1>13, <1>14 DEF OInv

\* Steps that move an object between out and the stack.
LEMMA SameObjects ==
  ASSUME OInv, alloc_ptr' = alloc_ptr, mapped' = mapped,
         out' \cup Range(free_stack') = out \cup Range(free_stack)
  PROVE  Pointer' /\ ObjectsIn(out \cup Range(free_stack))' /\ Separate(out \cup Range(free_stack))'
  BY DEF OInv, Pointer, ObjectsIn, Separate, PagesOf

LEMMA FreedStep == ASSUME OInv, AllocateFreed PROVE OInv'
<1> DEFINE s == free_stack
           t == free_stack'
<1>1. /\ s # <<>> /\ t = Tail(s) /\ out' = out \cup {Head(s)}
      /\ alloc_ptr' = alloc_ptr /\ mapped' = mapped /\ stack_pages' = stack_pages
  BY DEF AllocateFreed
<1>2. s \in Seq(Nat) /\ Len(s) \in Nat \ {0} /\ DOMAIN s = 1..Len(s) /\ Head(s) = s[1]
  BY <1>1 DEF OInv
<1>3. /\ t \in Seq(Nat) /\ Len(t) = Len(s) - 1 /\ DOMAIN t = 1..(Len(s) - 1)
      /\ \A i \in DOMAIN t : t[i] = s[i + 1] /\ i \in Nat /\ i + 1 \in DOMAIN s /\ i + 1 # 1
  <2>1. t \in Seq(Nat) /\ Len(t) = Len(s) - 1 /\ \A i \in 1..Len(t) : t[i] = s[i + 1]
    BY <1>1, <1>2, HeadTailProperties
  <2>2. DOMAIN t = 1..(Len(s) - 1)
    BY <2>1
  <2>3. ASSUME NEW i \in 1..(Len(s) - 1) PROVE i \in Nat /\ i + 1 \in 1..Len(s) /\ i + 1 # 1
    BY <1>2
  <2> HIDE DEF s, t
  <2> QED BY <2>1, <2>2, <2>3, <1>2
<1> HIDE DEF s, t
<1>4. Range(s) = Range(t) \cup {s[1]}
  <2>1. \A x \in Range(t) : x \in Range(s)
    BY <1>3 DEF Range
  <2>2. s[1] \in Range(s)
    BY <1>2 DEF Range
  <2>3. ASSUME NEW i \in DOMAIN s, i # 1 PROVE s[i] \in Range(t)
    <3>1. i - 1 \in DOMAIN t /\ (i - 1) + 1 = i
      BY <1>2, <1>3, <2>3
    <3>2. t[i - 1] = s[(i - 1) + 1]
      BY <1>3, <3>1
    <3> QED BY <3>1, <3>2 DEF Range
  <2>4. \A x \in Range(s) : x = s[1] \/ x \in Range(t)
    BY <2>3 DEF Range
  <2> QED BY <2>1, <2>2, <2>4
<1>5. IsInjective(s) /\ Range(s) \cap out = {}
  BY DEF OInv, s
<1>6. s[1] \notin Range(t) /\ IsInjective(t)
  <2>1. \A i, j \in DOMAIN s : s[i] = s[j] => i = j
    BY <1>5 DEF IsInjective
  <2>2. ASSUME NEW i \in DOMAIN t PROVE t[i] # s[1]
    <3>1. t[i] = s[i + 1] /\ i + 1 \in DOMAIN s /\ i + 1 # 1 /\ 1 \in DOMAIN s
      BY <1>2, <1>3
    <3> QED BY <3>1, <2>1
  <2>3. ASSUME NEW i \in DOMAIN t, NEW j \in DOMAIN t, t[i] = t[j] PROVE i = j
    <3>1. /\ t[i] = s[i + 1] /\ i + 1 \in DOMAIN s /\ i \in Nat
          /\ t[j] = s[j + 1] /\ j + 1 \in DOMAIN s /\ j \in Nat
      BY <1>3
    <3>2. i + 1 = j + 1
      BY <3>1, <2>1, <2>3
    <3> QED BY <3>1, <3>2
  <2>4. s[1] \notin Range(t)
    BY <2>2 DEF Range
  <2>5. IsInjective(t)
    BY <2>3 DEF IsInjective
  <2> QED BY <2>4, <2>5
<1>7. out' \cup Range(t) = out \cup Range(s) /\ Range(t) \cap out' = {}
  BY <1>1, <1>2, <1>4, <1>5, <1>6
<1>8. Pointer' /\ ObjectsIn(out \cup Range(free_stack))' /\ Separate(out \cup Range(free_stack))'
  BY <1>1, <1>7, SameObjects DEF s, t
<1>9. stack_pages' \in Nat /\ Len(t) <= stack_pages' * PAGE
  <2>1. stack_pages \in Nat /\ Len(s) <= stack_pages * PAGE /\ stack_pages * PAGE \in Nat
    BY PoolAssumption DEF OInv, s
  <2> QED BY <2>1, <1>1, <1>2, <1>3
<1> QED BY <1>3, <1>6, <1>7, <1>8, <1>9 DEF OInv, t

LEMMA FreeStep == ASSUME OInv, NEW o \in out, FreeObject(o) PROVE OInv'
<1> DEFINE s == free_stack
           t == free_stack'
<1>1. /\ stack_pages' = IF Len(s) = stack_pages * PAGE THEN stack_pages + 1 ELSE stack_pages
      /\ t = <<o>> \o s /\ out' = out \ {o} /\ alloc_ptr' = alloc_ptr /\ mapped' = mapped
  BY DEF FreeObject
<1>2. o \in Nat /\ s \in Seq(Nat) /\ Len(s) \in Nat /\ DOMAIN s = 1..Len(s) /\ IsInjective(s) /\ Range(s) \cap out = {}
  BY DEF OInv, ObjectsIn
<1>3. /\ t \in Seq(Nat) /\ Len(t) = Len(s) + 1 /\ DOMAIN t = 1..(Len(s) + 1)
      /\ \A i \in DOMAIN t : i \in Nat /\ (IF i = 1 THEN t[i] = o ELSE i - 1 \in DOMAIN s /\ t[i] = s[i - 1])
  <2> DEFINE u == <<o>>
  <2>1. u \in Seq(Nat) /\ Len(u) = 1 /\ u[1] = o
    BY <1>2
  <2> HIDE DEF u
  <2>2. u \o s \in Seq(Nat) /\ Len(u \o s) = Len(u) + Len(s)
    <3>1. u \in Seq(Nat) /\ s \in Seq(Nat)
      BY <2>1, <1>2
    <3> QED BY <3>1, ConcatProperties, Zenon
  <2>3. \A i \in 1..(Len(u) + Len(s)) : (u \o s)[i] = IF i <= Len(u) THEN u[i] ELSE s[i - Len(u)]
    <3>1. u \in Seq(Nat) /\ s \in Seq(Nat)
      BY <2>1, <1>2
    <3> QED BY <3>1, ConcatProperties, Zenon
  <2>4. t = u \o s
    BY <1>1 DEF u
  <2>5. t \in Seq(Nat) /\ Len(t) = Len(s) + 1 /\ \A i \in 1..(1 + Len(s)) : t[i] = IF i <= 1 THEN u[i] ELSE s[i - 1]
    BY <2>1, <2>2, <2>3, <2>4, <1>2
  <2>6. DOMAIN t = 1..(Len(s) + 1)
    BY <2>5
  <2> HIDE DEF s, t
  <2> QED BY <2>1, <2>5, <2>6, <1>2
<1> HIDE DEF s, t
<1>4. Range(t) = Range(s) \cup {o}
  <2>1. \A x \in Range(t) : x = o \/ x \in Range(s)
    BY <1>3 DEF Range
  <2>2. 1 \in DOMAIN t /\ t[1] = o
    BY <1>2, <1>3
  <2>3. ASSUME NEW i \in DOMAIN s PROVE s[i] \in Range(t)
    <3>1. i + 1 \in DOMAIN t /\ i + 1 # 1 /\ (i + 1) - 1 = i
      BY <1>2, <1>3
    <3>2. t[i + 1] = s[(i + 1) - 1]
      BY <1>3, <3>1
    <3> QED BY <3>1, <3>2 DEF Range
  <2>4. \A x \in Range(s) : x \in Range(t)
    BY <2>3 DEF Range
  <2> QED BY <2>1, <2>2, <2>4 DEF Range
<1>5. o \notin Range(s)
  BY <1>2
<1>6. IsInjective(t)
  <2> SUFFICES ASSUME NEW i \in DOMAIN t, NEW j \in DOMAIN t, t[i] = t[j] PROVE i = j
    BY DEF IsInjective
  <2>1. \A x \in DOMAIN s : s[x] # o
    BY <1>5 DEF Range
  <2>2. CASE i = 1
    BY <2>1, <2>2, <1>3
  <2>3. CASE i # 1
    <3>1. i - 1 \in DOMAIN s /\ t[i] = s[i - 1] /\ i \in Nat
      BY <2>3, <1>3
    <3>2. j - 1 \in DOMAIN s /\ t[j] = s[j - 1] /\ j \in Nat
      BY <3>1, <2>1, <1>3
    <3>3. i - 1 = j - 1
      BY <3>1, <3>2, <1>2 DEF IsInjective
    <3> QED BY <3>1, <3>2, <3>3
  <2> QED BY <2>2, <2>3
<1>7. out' \cup Range(t) = out \cup Range(s) /\ Range(t) \cap out' = {}
  BY <1>1, <1>2, <1>4
<1>8. Pointer' /\ ObjectsIn(out \cup Range(free_stack))' /\ Separate(out \cup Range(free_stack))'
  BY <1>1, <1>7, SameObjects DEF s, t
<1>9. stack_pages' \in Nat /\ Len(t) <= stack_pages' * PAGE
  <2>1. stack_pages \in Nat /\ PAGE \in Nat \ {0} /\ Len(s) <= stack_pages * PAGE
    BY PoolAssumption DEF OInv, s
  <2>2. (stack_pages + 1) * PAGE = stack_pages * PAGE + PAGE /\ stack_pages * PAGE \in Nat
    BY <2>1
  <2>3. Len(t) = Len(s) + 1 /\ Len(s) \in Nat
    BY <1>2, <1>3
  <2>4. CASE Len(s) = stack_pages * PAGE
    <3>1. stack_pages' = stack_pages + 1
      BY <2>4, <1>1
    <3> QED BY <3>1, <2>1, <2>2, <2>3, <2>4
  <2>5. CASE Len(s) # stack_pages * PAGE
    <3>1. stack_pages' = stack_pages
      BY <2>5, <1>1
    <3> QED BY <3>1, <2>1, <2>2, <2>3, <2>5
  <2> QED BY <2>4, <2>5
<1> QED BY <1>3, <1>6, <1>7, <1>8, <1>9 DEF OInv, t

-----------------------------------------------------------------------------
\* Objects in use are mapped and overlap neither one another nor one given back,
\* and the stack of pool_free never runs out of its pages (kpool.c), for pages and
\* objects of any size, in pools none of whose objects starts on a page boundary.
THEOREM PoolSound == NoBoundary => (OSpec => []ObjectsSound)
<1> SUFFICES ASSUME NoBoundary PROVE OSpec => []ObjectsSound
  OBVIOUS
<1>1. OInv /\ [ONext]_ovars => OInv'
  <2> SUFFICES ASSUME OInv, [ONext]_ovars PROVE OInv'
    OBVIOUS
  <2>1. CASE AllocateFreed
    BY <2>1, FreedStep
  <2>2. CASE AllocateNew
    BY <2>2, NewStep
  <2>3. CASE \E o \in out : FreeObject(o)
    BY <2>3, FreeStep
  <2>4. CASE UNCHANGED ovars
    <3>1. /\ alloc_ptr' = alloc_ptr /\ mapped' = mapped /\ free_stack' = free_stack
          /\ stack_pages' = stack_pages /\ out' = out
      BY <2>4 DEF ovars
    <3>2. Pointer' /\ ObjectsIn(out \cup Range(free_stack))' /\ Separate(out \cup Range(free_stack))'
      BY <3>1, SameObjects
    <3> QED BY <3>1, <3>2 DEF OInv
  <2> QED BY <2>1, <2>2, <2>3, <2>4 DEF ONext
<1>2. OInv => ObjectsSound
  BY DEF OInv, ObjectsIn, Separate, ObjectsSound
<1> QED BY PoolInit, <1>1, <1>2, PTL DEF OSpec

-----------------------------------------------------------------------------
(* The hash table of pids answers as a function from numbers to objects does, *)
(* for any number of buckets, pages and nodes.                                *)

Bucket == 0..(PID_HASH_SIZE - 1)

\* The walk through the chains b over nodes nd, for one state.
FoundIn(b, nd, k) == {i \in DOMAIN b[pid_hash(k)] : nd[b[pid_hash(k)][i]].pid = k}
LookupIn(b, nd, k) ==
  IF FoundIn(b, nd, k) = {} THEN NULL
  ELSE nd[b[pid_hash(k)][CHOOSE i \in FoundIn(b, nd, k) : \A j \in FoundIn(b, nd, k) : i <= j]].proc

\* Chains that hold no number twice, over nodes that hold an object each.
Chains(b, nd) ==
  /\ b \in [Bucket -> Seq(Nodes)]
  /\ \A h \in Bucket : \A i \in DOMAIN b[h] :
       /\ nd[b[h][i]].proc \in Objects
       /\ \A j \in DOMAIN b[h] : nd[b[h][i]].pid = nd[b[h][j]].pid => i = j

\* A node is in one chain, at one place, and then not in the free list, which
\* holds it once; both hold only nodes from pages that were taken.
Apart(b, f) ==
  /\ \A h, g \in Bucket : \A i \in DOMAIN b[h], j \in DOMAIN b[g] : b[h][i] = b[g][j] => h = g /\ i = j
  /\ \A h \in Bucket : \A i \in DOMAIN b[h], j \in DOMAIN f : b[h][i] # f[j]
  /\ \A i, j \in DOMAIN f : f[i] = f[j] => i = j
Cut(b, f, pages) ==
  /\ \A h \in Bucket : \A i \in DOMAIN b[h] : b[h][i] <= pages * NODES_PER_PAGE
  /\ \A i \in DOMAIN f : f[i] <= pages * NODES_PER_PAGE

\* Every node from those pages is in a chain or in the free list.
Kept(b, f, pages) ==
  \A n \in 1..(pages * NODES_PER_PAGE) : \/ \E h \in Bucket : \E i \in DOMAIN b[h] : b[h][i] = n
                                        \/ \E i \in DOMAIN f : f[i] = n

TInv == /\ Chains(buckets, node) /\ free_nodes \in Seq(Nodes) /\ pages_allocated \in 0..MaxPages
        /\ node \in [Nodes -> [pid : Nat, proc : Objects \cup {NULL}]]
        /\ Apart(buckets, free_nodes) /\ Cut(buckets, free_nodes, pages_allocated)
        /\ Kept(buckets, free_nodes, pages_allocated)

-----------------------------------------------------------------------------
\* A number has one bucket.
LEMMA HashBucket == \A k \in Nat : pid_hash(k) \in Bucket
  BY PidTableAssumption DEF pid_hash, Bucket

\* lookup is LookupIn of this state, and in the next state of that one.
LEMMA LookupNow ==
  /\ \A k : Found(k) = FoundIn(buckets, node, k) /\ lookup(k) = LookupIn(buckets, node, k)
  /\ \A k : lookup(k)' = LookupIn(buckets', node', k)
  BY DEF Found, FoundIn, lookup, LookupIn, First

\* A lookup returns the object of the only node that has the number.
LEMMA Answers ==
  ASSUME NEW b, NEW nd, Chains(b, nd), NEW k \in Nat, NEW i \in DOMAIN b[pid_hash(k)],
         nd[b[pid_hash(k)][i]].pid = k
  PROVE  LookupIn(b, nd, k) = nd[b[pid_hash(k)][i]].proc /\ LookupIn(b, nd, k) \in Objects
<1>1. pid_hash(k) \in Bucket
  BY HashBucket
<1>2. i \in Nat
  <2>1. b[pid_hash(k)] \in Seq(Nodes)
    BY <1>1 DEF Chains
  <2> QED BY <2>1
<1>3. i \in FoundIn(b, nd, k) /\ \A j \in FoundIn(b, nd, k) : j = i
  BY <1>1 DEF FoundIn, Chains
<1>4. \A j \in FoundIn(b, nd, k) : i <= j
  BY <1>2, <1>3
<1>5. (CHOOSE x \in FoundIn(b, nd, k) : \A j \in FoundIn(b, nd, k) : x <= j) = i
  <2>1. \E x \in FoundIn(b, nd, k) : \A j \in FoundIn(b, nd, k) : x <= j
    BY <1>3, <1>4
  <2>2. (CHOOSE x \in FoundIn(b, nd, k) : \A j \in FoundIn(b, nd, k) : x <= j) \in FoundIn(b, nd, k)
    BY <2>1
  <2> QED BY <1>3, <2>2
<1>6. LookupIn(b, nd, k) = nd[b[pid_hash(k)][i]].proc
  BY <1>3, <1>5 DEF LookupIn
<1>7. nd[b[pid_hash(k)][i]].proc \in Objects
  BY <1>1 DEF Chains
<1> QED BY <1>6, <1>7

\* A lookup that meets no such node returns NULL.
LEMMA NoAnswer ==
  ASSUME NEW b, NEW nd, NEW k, \A i \in DOMAIN b[pid_hash(k)] : nd[b[pid_hash(k)][i]].pid # k
  PROVE  LookupIn(b, nd, k) = NULL
  BY DEF LookupIn, FoundIn

\* Two states with a node for the number in both, for the same object, or in
\* neither of them answer alike.
LEMMA SameAnswer ==
  ASSUME NEW b, NEW nd, Chains(b, nd), NEW c, NEW md, Chains(c, md), NEW k \in Nat,
         \A i \in DOMAIN b[pid_hash(k)] : nd[b[pid_hash(k)][i]].pid = k =>
            \E j \in DOMAIN c[pid_hash(k)] : /\ md[c[pid_hash(k)][j]].pid = k
                                             /\ md[c[pid_hash(k)][j]].proc = nd[b[pid_hash(k)][i]].proc,
         \A j \in DOMAIN c[pid_hash(k)] : md[c[pid_hash(k)][j]].pid = k =>
            \E i \in DOMAIN b[pid_hash(k)] : nd[b[pid_hash(k)][i]].pid = k
  PROVE  LookupIn(c, md, k) = LookupIn(b, nd, k)
<1>1. CASE \E i \in DOMAIN b[pid_hash(k)] : nd[b[pid_hash(k)][i]].pid = k
  <2>1. PICK i \in DOMAIN b[pid_hash(k)] : nd[b[pid_hash(k)][i]].pid = k
    BY <1>1
  <2>2. PICK j \in DOMAIN c[pid_hash(k)] : /\ md[c[pid_hash(k)][j]].pid = k
                                           /\ md[c[pid_hash(k)][j]].proc = nd[b[pid_hash(k)][i]].proc
    BY <2>1
  <2>3. LookupIn(b, nd, k) = nd[b[pid_hash(k)][i]].proc
    BY <2>1, Answers
  <2>4. LookupIn(c, md, k) = md[c[pid_hash(k)][j]].proc
    BY <2>2, Answers
  <2> QED BY <2>2, <2>3, <2>4
<1>2. CASE ~ \E i \in DOMAIN b[pid_hash(k)] : nd[b[pid_hash(k)][i]].pid = k
  <2>1. LookupIn(b, nd, k) = NULL
    BY <1>2, NoAnswer
  <2>2. LookupIn(c, md, k) = NULL
    BY <1>2, NoAnswer
  <2> QED BY <2>1, <2>2
<1> QED BY <1>1, <1>2

\* RemoveAt takes one element out and moves those behind it forward.
LEMMA Removed ==
  ASSUME NEW S, NEW s \in Seq(S), NEW i \in 1..Len(s)
  PROVE  /\ RemoveAt(s, i) \in Seq(S) /\ Len(RemoveAt(s, i)) = Len(s) - 1
         /\ \A j \in 1..(Len(s) - 1) : RemoveAt(s, i)[j] = IF j < i THEN s[j] ELSE s[j + 1]
<1> DEFINE a == SubSeq(s, 1, i - 1)
           b == SubSeq(s, i + 1, Len(s))
<1>1. a \in Seq(S) /\ Len(a) = i - 1 /\ \A j \in 1..(i - 1) : a[j] = s[j]
  OBVIOUS
<1>2. b \in Seq(S) /\ Len(b) = Len(s) - i /\ \A j \in 1..(Len(s) - i) : b[j] = s[i + j]
  OBVIOUS
<1>3. RemoveAt(s, i) = a \o b
  BY DEF RemoveAt
<1> HIDE DEF a, b
<1>4. a \o b \in Seq(S) /\ Len(a \o b) = Len(s) - 1
  <2>1. a \o b \in Seq(S) /\ Len(a \o b) = Len(a) + Len(b)
    BY <1>1, <1>2, ConcatProperties
  <2> QED BY <2>1, <1>1, <1>2
<1>5. ASSUME NEW j \in 1..(Len(s) - 1) PROVE (a \o b)[j] = IF j < i THEN s[j] ELSE s[j + 1]
  <2>1. CASE j < i
    BY <2>1, <1>1, <1>2
  <2>2. CASE ~(j < i)
    <3>1. (a \o b)[j] = b[j - (i - 1)]
      BY <2>2, <1>1, <1>2
    <3>2. j - (i - 1) \in 1..(Len(s) - i) /\ i + (j - (i - 1)) = j + 1
      BY <2>2
    <3>3. b[j - (i - 1)] = s[i + (j - (i - 1))]
      BY <3>2, <1>2
    <3> QED BY <3>1, <3>2, <3>3, <2>2
  <2> QED BY <2>1, <2>2
<1> QED BY <1>3, <1>4, <1>5

\* A sequence with one element in front of it.
LEMMA Pushed ==
  ASSUME NEW S, NEW s \in Seq(S), NEW n \in S
  PROVE  /\ <<n>> \o s \in Seq(S) /\ Len(<<n>> \o s) = Len(s) + 1
         /\ (<<n>> \o s)[1] = n /\ \A j \in 1..Len(s) : (<<n>> \o s)[j + 1] = s[j]
<1>1. <<n>> \in Seq(S) /\ Len(<<n>>) = 1 /\ <<n>>[1] = n
  OBVIOUS
<1> DEFINE a == <<n>>
<1> HIDE DEF a
<1>2. a \in Seq(S) /\ Len(a) = 1 /\ a[1] = n
  BY <1>1 DEF a
<1>3. a \o s \in Seq(S) /\ Len(a \o s) = Len(s) + 1
  <2>1. a \o s \in Seq(S) /\ Len(a \o s) = Len(a) + Len(s)
    <3>1. a \in Seq(S)
      BY <1>2
    <3> QED BY <3>1, ConcatProperties, Zenon
  <2> QED BY <2>1, <1>2
<1>4. \A i \in 1..(Len(a) + Len(s)) : (a \o s)[i] = IF i <= Len(a) THEN a[i] ELSE s[i - Len(a)]
  <2>1. a \in Seq(S)
    BY <1>2
  <2> QED BY <2>1, ConcatProperties, Zenon
<1> DEFINE t == a \o s
           m == Len(s)
<1>5. \A i \in 1..(1 + m) : t[i] = IF i <= 1 THEN a[i] ELSE s[i - 1]
  BY <1>2, <1>4
<1>6. m \in Nat
  OBVIOUS
<1> HIDE DEF t, m
<1>7. t[1] = n
  <2>1. 1 \in 1..(1 + m)
    BY <1>6
  <2> QED BY <2>1, <1>2, <1>5
<1>8. ASSUME NEW j \in 1..m PROVE t[j + 1] = s[j]
  <2>1. j + 1 \in 1..(1 + m) /\ ~(j + 1 <= 1) /\ (j + 1) - 1 = j
    BY <1>6
  <2> QED BY <2>1, <1>5
<1> QED BY <1>3, <1>7, <1>8 DEF a, t, m

-----------------------------------------------------------------------------
\* The pages taken once alloc_node has what it needs.
Pages == IF free_nodes = <<>> THEN pages_allocated + 1 ELSE pages_allocated

\* alloc_node finds nodes that no chain runs through: a page not used before, or
\* the free list.
LEMMA RefillFresh ==
  ASSUME TInv, Refill # <<>>
  PROVE  /\ Refill \in Seq(Nodes) /\ Pages \in 0..MaxPages
         /\ Apart(buckets, Refill) /\ Cut(buckets, Refill, Pages) /\ Kept(buckets, Refill, Pages)
<1>1. CASE free_nodes # <<>>
  BY <1>1 DEF TInv, Refill, Pages
<1>2. CASE free_nodes = <<>>
  <2> DEFINE N == NODES_PER_PAGE
             c == pages_allocated * N
  <2>1. pages_allocated < MaxPages /\ Refill = PageNodes /\ Pages = pages_allocated + 1
    BY <1>2 DEF Refill, Pages
  <2>2. N \in Nat \ {0} /\ MaxPages \in Nat /\ pages_allocated \in Nat /\ c \in Nat
    BY PidTableAssumption DEF TInv
  <2>3. Pages * N = c + N /\ Pages * N <= MaxPages * N /\ MaxPages * N \in Nat
    BY <2>1, <2>2
  <2>4. \A h \in Bucket : \A i \in DOMAIN buckets[h] : buckets[h][i] <= c /\ buckets[h][i] \in Nat
    <3>1. \A h \in Bucket : buckets[h] \in Seq(Nodes)
      BY DEF TInv, Chains
    <3>2. Nodes \subseteq Nat
      BY PidTableAssumption DEF Nodes
    <3>3. \A h \in Bucket : \A i \in DOMAIN buckets[h] : buckets[h][i] <= c
      BY DEF TInv, Cut
    <3>4. ASSUME NEW h \in Bucket, NEW i \in DOMAIN buckets[h] PROVE buckets[h][i] \in Nat
      <4> DEFINE q == buckets[h]
      <4>1. q \in Seq(Nodes) /\ i \in DOMAIN q
        BY <3>1, <3>4
      <4> HIDE DEF q
      <4>2. q[i] \in Nodes
        BY <4>1, ElementOfSeq, LenProperties
      <4> QED BY <3>2, <4>2 DEF q
    <3> QED BY <3>3, <3>4
  <2>5. \A i \in 1..N : PageNodes[i] = c + N + 1 - i
    BY <2>1, <2>3 DEF PageNodes
  <2>6. DOMAIN PageNodes = 1..N
    BY DEF PageNodes
  <2>7. Nodes = 1..(MaxPages * N)
    BY DEF Nodes
  <2>8. PageNodes = [i \in 1..N |-> c + N + 1 - i]
    BY <2>1, <2>3 DEF PageNodes
  <2> HIDE DEF c, N
  <2>9. \A i \in 1..N : PageNodes[i] \in Nodes /\ PageNodes[i] > c /\ PageNodes[i] <= c + N
    BY <2>2, <2>3, <2>5, <2>7
  <2>10. PageNodes \in Seq(Nodes)
    BY <2>2, <2>6, <2>8, <2>9
  <2>11. \A i, j \in DOMAIN PageNodes : PageNodes[i] = PageNodes[j] => i = j
    BY <2>2, <2>5, <2>6
  <2>12. \A h \in Bucket : \A i \in DOMAIN buckets[h], j \in DOMAIN PageNodes : buckets[h][i] # PageNodes[j]
    <3> SUFFICES ASSUME NEW h \in Bucket, NEW i \in DOMAIN buckets[h], NEW j \in 1..N PROVE buckets[h][i] # PageNodes[j]
      BY <2>6
    <3>1. buckets[h][i] <= c /\ buckets[h][i] \in Nat
      BY <2>4
    <3>2. PageNodes[j] = c + N + 1 - j /\ j \in Nat /\ j <= N
      BY <2>2, <2>5
    <3> QED BY <2>2, <3>1, <3>2
  <2>13. Apart(buckets, PageNodes)
    BY <2>11, <2>12 DEF TInv, Apart
  <2>14. Cut(buckets, PageNodes, Pages)
    <3>1. \A h \in Bucket : \A i \in DOMAIN buckets[h] : buckets[h][i] <= c + N
      BY <2>2, <2>4
    <3> QED BY <3>1, <2>3, <2>6, <2>9 DEF Cut, N
  <2>15. Kept(buckets, PageNodes, Pages)
    <3> SUFFICES ASSUME NEW m \in 1..(Pages * NODES_PER_PAGE)
                 PROVE  \/ \E h \in Bucket : \E i \in DOMAIN buckets[h] : buckets[h][i] = m
                        \/ \E i \in DOMAIN PageNodes : PageNodes[i] = m
      BY DEF Kept
    <3>1. m \in Nat /\ 1 <= m /\ m <= c + N
      BY <2>2, <2>3 DEF N
    <3>2. CASE m <= c
      <4>1. m \in 1..(pages_allocated * NODES_PER_PAGE)
        BY <3>1, <3>2 DEF c, N
      <4>2. \A i \in DOMAIN free_nodes : FALSE
        BY <1>2
      <4> QED BY <4>1, <4>2 DEF TInv, Kept
    <3>3. CASE ~(m <= c)
      <4>1. c + N + 1 - m \in 1..N /\ c + N + 1 - (c + N + 1 - m) = m
        BY <2>2, <3>1, <3>3
      <4> QED BY <4>1, <2>5, <2>6
    <3> QED BY <3>2, <3>3
  <2> QED BY <2>1, <2>2, <2>10, <2>13, <2>14, <2>15
<1> QED BY <1>1, <1>2

\* An inserted node is put in front of its chain.
LEMMA InsertStep ==
  ASSUME TInv, NEW pid \in Keys, NEW o \in Objects, Insert(pid, o)
  PROVE  /\ TInv'
         /\ LookupIn(buckets, node, pid) = NULL /\ LookupIn(buckets', node', pid) = o
         /\ \A k \in Keys \ {pid} : LookupIn(buckets', node', k) = LookupIn(buckets, node, k)
<1> DEFINE n == Head(Refill)
           h0 == pid_hash(pid)
           b == buckets
           c == buckets'
           old == b[h0]
           new == <<n>> \o old
<1>1. /\ Found(pid) = {} /\ Refill # <<>>
      /\ node' = [node EXCEPT ![n] = [pid |-> pid, proc |-> o]]
      /\ c = [b EXCEPT ![h0] = new] /\ free_nodes' = Tail(Refill) /\ pages_allocated' = Pages
  BY DEF Insert, Pages
<1>2. /\ Refill \in Seq(Nodes) /\ Pages \in 0..MaxPages /\ Apart(b, Refill) /\ Cut(b, Refill, Pages)
      /\ Kept(b, Refill, Pages)
  BY <1>1, RefillFresh
<1>3. pid \in Nat /\ h0 \in Bucket /\ Keys \subseteq Nat
  BY HashBucket, PidTableAssumption
<1>4. b \in [Bucket -> Seq(Nodes)] /\ old \in Seq(Nodes)
  BY <1>3 DEF TInv, Chains
<1>5. n \in Nodes /\ n = Refill[1] /\ Len(Refill) \in Nat \ {0} /\ 1 \in DOMAIN Refill
  BY <1>1, <1>2
<1>6. /\ new \in Seq(Nodes) /\ Len(new) = Len(old) + 1
      /\ new[1] = n /\ \A j \in 1..Len(old) : new[j + 1] = old[j]
  BY <1>4, <1>5, Pushed
<1>7. /\ c \in [Bucket -> Seq(Nodes)] /\ c[h0] = new /\ \A h \in Bucket \ {h0} : c[h] = b[h]
  BY <1>1, <1>3, <1>4, <1>6
<1>8. \A h \in Bucket : \A i \in DOMAIN b[h] : b[h][i] # n /\ b[h][i] \in Nodes
  <2>1. \A h \in Bucket : b[h] \in Seq(Nodes)
    BY <1>4
  <2> QED BY <1>2, <1>5, <2>1 DEF Apart
<1>9. /\ node' \in [Nodes -> [pid : Nat, proc : Objects \cup {NULL}]]
      /\ node'[n] = [pid |-> pid, proc |-> o] /\ \A m \in Nodes \ {n} : node'[m] = node[m]
  BY <1>1, <1>3, <1>5 DEF TInv
<1>10. \A i \in DOMAIN old : node[old[i]].pid # pid
  BY <1>1 DEF Found
<1>11. \A h \in Bucket : DOMAIN b[h] = 1..Len(b[h]) /\ Len(b[h]) \in Nat /\ DOMAIN c[h] = 1..Len(c[h]) /\ Len(c[h]) \in Nat
  BY <1>4, <1>7
\* Every place of the new chains is a place of the old ones, or the new node's.
<1>12. \A i \in DOMAIN new : \/ i = 1 /\ new[i] = n
                             \/ i - 1 \in DOMAIN old /\ i \in Nat /\ i > 1 /\ new[i] = old[i - 1]
  <2> SUFFICES ASSUME NEW i \in DOMAIN new, i # 1
               PROVE i - 1 \in DOMAIN old /\ i \in Nat /\ i > 1 /\ new[i] = old[i - 1]
    BY <1>6
  <2>1. i \in 1..(Len(old) + 1) /\ Len(old) \in Nat /\ DOMAIN old = 1..Len(old)
    BY <1>4, <1>6
  <2>2. i - 1 \in 1..Len(old) /\ (i - 1) + 1 = i
    BY <2>1
  <2>3. new[(i - 1) + 1] = old[i - 1]
    BY <2>2, <1>6
  <2> HIDE DEF new, old
  <2> QED BY <2>1, <2>2, <2>3
<1> HIDE DEF n, h0, new, old
<1>13. Chains(c, node')
  <2> SUFFICES ASSUME NEW h \in Bucket, NEW i \in DOMAIN c[h]
               PROVE  /\ node'[c[h][i]].proc \in Objects
                      /\ \A j \in DOMAIN c[h] : node'[c[h][i]].pid = node'[c[h][j]].pid => i = j
    BY <1>7 DEF Chains
  <2>1. CASE h # h0
    <3>1. c[h] = b[h]
      BY <1>7, <2>1
    <3>2. \A j \in DOMAIN b[h] : node'[b[h][j]] = node[b[h][j]]
      BY <1>8, <1>9
    <3> QED BY <3>1, <3>2 DEF TInv, Chains
  <2>2. CASE h = h0
    <3>1. c[h] = new
      BY <1>7, <2>2
    <3>2. \A j \in DOMAIN old : /\ node'[old[j]] = node[old[j]] /\ node[old[j]].proc \in Objects
                                /\ node[old[j]].pid # pid
                                /\ \A l \in DOMAIN old : node[old[j]].pid = node[old[l]].pid => j = l
      <4>1. \A j \in DOMAIN old : node'[old[j]] = node[old[j]]
        BY <1>3, <1>8, <1>9 DEF old
      <4>2. \A j \in DOMAIN old : /\ node[old[j]].proc \in Objects
                                  /\ \A l \in DOMAIN old : node[old[j]].pid = node[old[l]].pid => j = l
        BY <1>3 DEF TInv, Chains, old
      <4> QED BY <4>1, <4>2, <1>10
    <3>3. node'[n].pid = pid /\ node'[n].proc = o
      BY <1>9
    <3>4. \A j \in DOMAIN new : node'[new[j]].proc \in Objects
      BY <1>12, <3>2, <3>3
    <3>5. ASSUME NEW x \in DOMAIN new, NEW y \in DOMAIN new, node'[new[x]].pid = node'[new[y]].pid PROVE x = y
      <4>1. CASE x = 1
        <5>1. node'[new[y]].pid = pid
          BY <4>1, <1>12, <3>3, <3>5
        <5> QED BY <5>1, <4>1, <1>12, <3>2
      <4>2. CASE x # 1
        <5>1. x - 1 \in DOMAIN old /\ x \in Nat /\ new[x] = old[x - 1]
          BY <4>2, <1>12
        <5>2. node'[new[y]].pid # pid
          BY <5>1, <3>2, <3>5
        <5>3. y - 1 \in DOMAIN old /\ y \in Nat /\ new[y] = old[y - 1]
          BY <5>2, <1>12, <3>3
        <5>4. x - 1 = y - 1
          BY <5>1, <5>3, <3>2, <3>5
        <5> QED BY <5>1, <5>3, <5>4
      <4> QED BY <4>1, <4>2
    <3> QED BY <3>1, <3>4, <3>5
  <2> QED BY <2>1, <2>2
\* The rest of what alloc_node found is the free list.
<1>14. /\ free_nodes' \in Seq(Nodes) /\ DOMAIN free_nodes' \subseteq Nat
       /\ \A j \in DOMAIN free_nodes' : j + 1 \in DOMAIN Refill /\ j + 1 # 1 /\ free_nodes'[j] = Refill[j + 1]
       /\ \A j \in DOMAIN Refill : j # 1 => j - 1 \in DOMAIN free_nodes' /\ free_nodes'[j - 1] = Refill[j]
  <2>1. /\ free_nodes' \in Seq(Nodes) /\ Len(free_nodes') = Len(Refill) - 1
        /\ \A j \in 1..Len(free_nodes') : free_nodes'[j] = Refill[j + 1]
    BY <1>1, <1>2, HeadTailProperties
  <2>2. DOMAIN free_nodes' = 1..Len(free_nodes') /\ DOMAIN Refill = 1..Len(Refill) /\ Len(Refill) \in Nat
    BY <2>1, <1>2
  <2>3. ASSUME NEW j \in DOMAIN Refill, j # 1
        PROVE  j - 1 \in DOMAIN free_nodes' /\ free_nodes'[j - 1] = Refill[j]
    <3>1. j - 1 \in 1..Len(free_nodes') /\ (j - 1) + 1 = j
      BY <2>1, <2>2, <2>3
    <3>2. free_nodes'[j - 1] = Refill[(j - 1) + 1]
      BY <2>1, <3>1
    <3> QED BY <2>2, <3>1, <3>2
  <2> QED BY <2>1, <2>2, <2>3
\* Places of the chains, old and new, with the node there.
<1>15. \A h \in Bucket : \A i \in DOMAIN c[h] :
         \/ h = h0 /\ i = 1 /\ c[h][i] = n
         \/ \E j \in DOMAIN b[h] : c[h][i] = b[h][j] /\ (h = h0 => i = j + 1) /\ (h # h0 => i = j)
  <2> SUFFICES ASSUME NEW h \in Bucket, NEW i \in DOMAIN c[h], ~(h = h0 /\ i = 1 /\ c[h][i] = n)
               PROVE  \E j \in DOMAIN b[h] : c[h][i] = b[h][j] /\ (h = h0 => i = j + 1) /\ (h # h0 => i = j)
    OBVIOUS
  <2>1. CASE h # h0
    BY <2>1, <1>7
  <2>2. CASE h = h0
    <3>1. i \in DOMAIN new /\ c[h] = new /\ b[h] = old
      BY <2>2, <1>7 DEF old
    <3>2. i - 1 \in DOMAIN old /\ i \in Nat /\ new[i] = old[i - 1]
      BY <3>1, <2>2, <1>12
    <3>3. i = (i - 1) + 1
      BY <3>2
    <3> QED BY <3>1, <3>2, <3>3, <2>2
  <2> QED BY <2>1, <2>2
<1>16. Apart(c, free_nodes')
  <2>1. ASSUME NEW h \in Bucket, NEW g \in Bucket, NEW i \in DOMAIN c[h], NEW j \in DOMAIN c[g], c[h][i] = c[g][j]
        PROVE  h = g /\ i = j
    <3>1. CASE h = h0 /\ i = 1 /\ c[h][i] = n
      BY <3>1, <2>1, <1>15, <1>8
    <3>2. CASE ~(h = h0 /\ i = 1 /\ c[h][i] = n)
      <4>1. PICK x \in DOMAIN b[h] : c[h][i] = b[h][x] /\ (h = h0 => i = x + 1) /\ (h # h0 => i = x)
        BY <3>2, <1>15
      <4>2. c[g][j] # n
        BY <4>1, <1>8, <2>1
      <4>3. PICK y \in DOMAIN b[g] : c[g][j] = b[g][y] /\ (g = h0 => j = y + 1) /\ (g # h0 => j = y)
        BY <4>2, <1>15
      <4>4. h = g /\ x = y
        <5>1. \A l, m \in Bucket : \A u \in DOMAIN b[l], v \in DOMAIN b[m] : b[l][u] = b[m][v] => l = m /\ u = v
          BY <1>2 DEF Apart
        <5>2. b[h][x] = b[g][y]
          BY <4>1, <4>3, <2>1
        <5> HIDE DEF b, c
        <5> QED BY <5>1, <5>2
      <4> QED BY <4>1, <4>3, <4>4
    <3> QED BY <3>1, <3>2
  <2>2. ASSUME NEW h \in Bucket, NEW i \in DOMAIN c[h], NEW j \in DOMAIN free_nodes'
        PROVE  c[h][i] # free_nodes'[j]
    <3>1. j + 1 \in DOMAIN Refill /\ j + 1 # 1 /\ free_nodes'[j] = Refill[j + 1]
      BY <1>14
    <3>2. n # Refill[j + 1]
      BY <3>1, <1>5, <1>2 DEF Apart
    <3>3. \A x \in DOMAIN b[h] : b[h][x] # Refill[j + 1]
      BY <3>1, <1>2 DEF Apart
    <3> QED BY <3>1, <3>2, <3>3, <1>15
  <2>3. ASSUME NEW i \in DOMAIN free_nodes', NEW j \in DOMAIN free_nodes', free_nodes'[i] = free_nodes'[j]
        PROVE  i = j
    <3>1. i + 1 = j + 1
      BY <2>3, <1>14, <1>2 DEF Apart
    <3>2. i \in Nat /\ j \in Nat
      BY <1>14
    <3> QED BY <3>1, <3>2
  <2> QED BY <2>1, <2>2, <2>3 DEF Apart
<1>17. Cut(c, free_nodes', pages_allocated')
  <2>1. n <= Pages * NODES_PER_PAGE
    BY <1>2, <1>5 DEF Cut
  <2>2. \A h \in Bucket : \A i \in DOMAIN c[h] : c[h][i] <= Pages * NODES_PER_PAGE
    BY <2>1, <1>15, <1>2 DEF Cut
  <2>3. \A j \in DOMAIN free_nodes' : free_nodes'[j] <= Pages * NODES_PER_PAGE
    BY <1>14, <1>2 DEF Cut
  <2> QED BY <2>2, <2>3, <1>1 DEF Cut
<1>17a. Kept(c, free_nodes', pages_allocated')
  <2> SUFFICES ASSUME NEW m \in 1..(Pages * NODES_PER_PAGE)
               PROVE  \/ \E h \in Bucket : \E i \in DOMAIN c[h] : c[h][i] = m
                      \/ \E i \in DOMAIN free_nodes' : free_nodes'[i] = m
    BY <1>1 DEF Kept
  <2>1. /\ DOMAIN new = 1..(Len(old) + 1) /\ DOMAIN old = 1..Len(old) /\ Len(old) \in Nat
    BY <1>4, <1>6
  <2>2. CASE \E h \in Bucket : \E i \in DOMAIN b[h] : b[h][i] = m
    <3>a. PICK h \in Bucket : \E i \in DOMAIN b[h] : b[h][i] = m
      BY <2>2
    <3>1. PICK i \in DOMAIN b[h] : b[h][i] = m
      BY <3>a
    <3>2. CASE h # h0
      <4>1. c[h] = b[h]
        BY <3>2, <1>7
      <4> QED BY <3>1, <4>1
    <3>3. CASE h = h0
      <4>1. c[h] = new /\ b[h] = old
        BY <3>3, <1>7 DEF old
      <4>2. i + 1 \in DOMAIN new /\ new[i + 1] = old[i]
        BY <4>1, <2>1, <1>6
      <4> QED BY <4>1, <4>2, <3>1
    <3> QED BY <3>2, <3>3
  <2>3. CASE \E i \in DOMAIN Refill : Refill[i] = m
    <3>1. PICK i \in DOMAIN Refill : Refill[i] = m
      BY <2>3
    <3>2. CASE i = 1
      <4>1. 1 \in DOMAIN c[h0] /\ c[h0][1] = m
        BY <3>1, <3>2, <2>1, <1>5, <1>6, <1>7
      <4> QED BY <4>1, <1>3
    <3>3. CASE i # 1
      <4>1. i - 1 \in DOMAIN free_nodes' /\ free_nodes'[i - 1] = Refill[i]
        BY <3>3, <1>14
      <4> QED BY <4>1, <3>1
    <3> QED BY <3>2, <3>3
  <2> QED BY <2>2, <2>3, <1>2 DEF Kept
<1>18. TInv'
  BY <1>1, <1>2, <1>9, <1>13, <1>14, <1>16, <1>17, <1>17a DEF TInv
<1>19. LookupIn(b, node, pid) = NULL
  BY <1>10, NoAnswer DEF old, h0
<1>20. LookupIn(c, node', pid) = o
  <2>1. 1 \in DOMAIN c[h0] /\ c[h0][1] = n
    BY <1>3, <1>4, <1>6, <1>7
  <2>2. node'[c[h0][1]].pid = pid /\ node'[c[h0][1]].proc = o
    BY <2>1, <1>9
  <2> QED BY <2>1, <2>2, <1>3, <1>13, Answers DEF h0
<1>21. ASSUME NEW k \in Keys \ {pid} PROVE LookupIn(c, node', k) = LookupIn(b, node, k)
  <2> DEFINE h == pid_hash(k)
  <2>1. k \in Nat /\ h \in Bucket
    BY <1>3, HashBucket
  <2>2. \A j \in DOMAIN b[h] : node'[b[h][j]] = node[b[h][j]]
    BY <2>1, <1>8, <1>9
  <2>3. ASSUME NEW i \in DOMAIN b[h], node[b[h][i]].pid = k
        PROVE  \E j \in DOMAIN c[h] : node'[c[h][j]].pid = k /\ node'[c[h][j]].proc = node[b[h][i]].proc
    <3>1. CASE h # h0
      <4>1. c[h] = b[h]
        BY <3>1, <2>1, <1>7
      <4> QED BY <4>1, <2>2, <2>3
    <3>2. CASE h = h0
      <4>1. c[h] = new /\ b[h] = old
        BY <3>2, <1>3, <1>7 DEF old
      <4>2. i \in 1..Len(old) /\ DOMAIN new = 1..(Len(old) + 1) /\ Len(old) \in Nat
        BY <4>1, <1>4, <1>6
      <4>3. i + 1 \in DOMAIN new /\ new[i + 1] = old[i]
        BY <4>2, <1>6
      <4> QED BY <4>1, <4>3, <2>2, <2>3
    <3> QED BY <3>1, <3>2
  <2>4. ASSUME NEW j \in DOMAIN c[h], node'[c[h][j]].pid = k
        PROVE  \E i \in DOMAIN b[h] : node[b[h][i]].pid = k
    <3>1. c[h][j] # n
      BY <2>4, <1>9
    <3>2. PICK i \in DOMAIN b[h] : c[h][j] = b[h][i]
      BY <3>1, <2>1, <1>15
    <3> QED BY <3>2, <2>2, <2>4
  <2>5. Chains(b, node)
    BY DEF TInv
  <2> HIDE DEF b, c
  <2> QED BY <2>1, <2>3, <2>4, <2>5, <1>13, SameAnswer
<1> QED BY <1>18, <1>19, <1>20, <1>21

\* A deleted node leaves its chain and goes to the front of the free list.
LEMMA DeleteStep ==
  ASSUME TInv, NEW pid \in Keys, Delete(pid)
  PROVE  /\ TInv'
         /\ LookupIn(buckets, node, pid) \in Objects /\ LookupIn(buckets', node', pid) = NULL
         /\ \A k \in Keys \ {pid} : LookupIn(buckets', node', k) = LookupIn(buckets, node, k)
<1> DEFINE h0 == pid_hash(pid)
           b == buckets
           c == buckets'
           old == b[h0]
           at == First(pid)
           n == old[at]
           new == RemoveAt(old, at)
<1>1. /\ Found(pid) # {} /\ c = [b EXCEPT ![h0] = new] /\ free_nodes' = <<n>> \o free_nodes
      /\ pages_allocated' = pages_allocated /\ node' = node
  BY DEF Delete
<1>2. pid \in Nat /\ h0 \in Bucket /\ Keys \subseteq Nat
  BY HashBucket, PidTableAssumption
<1>3. b \in [Bucket -> Seq(Nodes)] /\ old \in Seq(Nodes) /\ \A h \in Bucket : b[h] \in Seq(Nodes)
  BY <1>2 DEF TInv, Chains
<1>4. at \in DOMAIN old /\ node[n].pid = pid /\ \A j \in DOMAIN old : node[old[j]].pid = pid => j = at
  <2>1. PICK i \in DOMAIN old : node[old[i]].pid = pid
    BY <1>1 DEF Found
  <2>2. \A j \in DOMAIN old : node[old[j]].pid = pid => j = i
    BY <1>2, <2>1 DEF TInv, Chains
  <2>3. Found(pid) = {i}
    BY <2>1, <2>2 DEF Found
  <2>4. i \in Nat
    BY <1>3, <2>1
  <2>5. at = i
    <3>1. \E x \in Found(pid) : \A j \in Found(pid) : x <= j
      BY <2>3, <2>4
    <3>2. at \in Found(pid)
      BY <3>1 DEF First
    <3> QED BY <3>2, <2>3
  <2> QED BY <2>1, <2>2, <2>5
<1>5. /\ at \in 1..Len(old) /\ Len(old) \in Nat /\ DOMAIN old = 1..Len(old) /\ n \in Nodes
  BY <1>3, <1>4
<1>6. /\ new \in Seq(Nodes) /\ Len(new) = Len(old) - 1
      /\ \A j \in 1..(Len(old) - 1) : new[j] = IF j < at THEN old[j] ELSE old[j + 1]
  BY <1>3, <1>5, Removed
<1>7. c \in [Bucket -> Seq(Nodes)] /\ c[h0] = new /\ \A h \in Bucket \ {h0} : c[h] = b[h]
  BY <1>1, <1>2, <1>3, <1>6
<1>8. DOMAIN new = 1..(Len(old) - 1)
  BY <1>6
<1> HIDE DEF h0, old, at, n, new
\* Every place of the chains is one of the old places, and every old place but
\* the deleted one is still there.
<1>9. \A i \in DOMAIN new : \E j \in DOMAIN old : new[i] = old[j] /\ j # at /\ i = IF j < at THEN j ELSE j - 1
  <2> SUFFICES ASSUME NEW i \in DOMAIN new
               PROVE  \E j \in DOMAIN old : new[i] = old[j] /\ j # at /\ i = IF j < at THEN j ELSE j - 1
    OBVIOUS
  <2>1. i \in 1..(Len(old) - 1) /\ i \in Nat /\ at \in Nat
    BY <1>5, <1>8
  <2>2. CASE i < at
    <3>1. new[i] = old[i] /\ i \in DOMAIN old /\ i # at
      BY <2>1, <2>2, <1>5, <1>6
    <3> QED BY <3>1, <2>2
  <2>3. CASE ~(i < at)
    <3>1. new[i] = old[i + 1] /\ i + 1 \in DOMAIN old /\ i + 1 # at /\ ~(i + 1 < at) /\ i = (i + 1) - 1
      BY <2>1, <2>3, <1>5, <1>6
    <3> QED BY <3>1
  <2> QED BY <2>2, <2>3
<1>10. \A j \in DOMAIN old \ {at} : \E i \in DOMAIN new : new[i] = old[j]
  <2> SUFFICES ASSUME NEW j \in DOMAIN old, j # at PROVE \E i \in DOMAIN new : new[i] = old[j]
    OBVIOUS
  <2>1. j \in 1..Len(old) /\ j \in Nat /\ at \in Nat /\ at <= Len(old)
    BY <1>5
  <2>2. CASE j < at
    <3>1. j \in DOMAIN new /\ new[j] = old[j]
      BY <2>1, <2>2, <1>5, <1>6, <1>8
    <3> QED BY <3>1
  <2>3. CASE ~(j < at)
    <3>1. j - 1 \in 1..(Len(old) - 1) /\ ~(j - 1 < at) /\ (j - 1) + 1 = j
      BY <2>1, <2>3, <1>5
    <3>2. new[j - 1] = old[(j - 1) + 1]
      BY <3>1, <1>6
    <3> QED BY <3>1, <3>2, <1>8
  <2> QED BY <2>2, <2>3
<1>11. \A h \in Bucket : \A i \in DOMAIN c[h] : \E j \in DOMAIN b[h] :
         c[h][i] = b[h][j] /\ (h # h0 => i = j) /\ (h = h0 => j # at /\ i = IF j < at THEN j ELSE j - 1)
  <2> SUFFICES ASSUME NEW h \in Bucket, NEW i \in DOMAIN c[h]
               PROVE  \E j \in DOMAIN b[h] : c[h][i] = b[h][j] /\ (h # h0 => i = j)
                                            /\ (h = h0 => j # at /\ i = IF j < at THEN j ELSE j - 1)
    OBVIOUS
  <2>1. CASE h # h0
    BY <2>1, <1>7
  <2>2. CASE h = h0
    <3>1. c[h] = new /\ b[h] = old
      BY <2>2, <1>7 DEF old
    <3> QED BY <3>1, <2>2, <1>9
  <2> QED BY <2>1, <2>2
<1>12. ASSUME NEW h \in Bucket, NEW i \in DOMAIN c[h], NEW j \in DOMAIN c[h],
              NEW x \in DOMAIN b[h], NEW y \in DOMAIN b[h], x = y,
              c[h][i] = b[h][x] /\ (h # h0 => i = x) /\ (h = h0 => x # at /\ i = IF x < at THEN x ELSE x - 1),
              c[h][j] = b[h][y] /\ (h # h0 => j = y) /\ (h = h0 => y # at /\ j = IF y < at THEN y ELSE y - 1)
       PROVE  i = j
  BY <1>12
<1>13. Chains(c, node)
  <2> SUFFICES ASSUME NEW h \in Bucket, NEW i \in DOMAIN c[h]
               PROVE  /\ node[c[h][i]].proc \in Objects
                      /\ \A j \in DOMAIN c[h] : node[c[h][i]].pid = node[c[h][j]].pid => i = j
    BY <1>7 DEF Chains
  <2>0. \A x \in DOMAIN b[h] : /\ node[b[h][x]].proc \in Objects
                              /\ \A y \in DOMAIN b[h] : node[b[h][x]].pid = node[b[h][y]].pid => x = y
    BY DEF TInv, Chains
  <2>1. PICK x \in DOMAIN b[h] : c[h][i] = b[h][x] /\ (h # h0 => i = x)
                                 /\ (h = h0 => x # at /\ i = IF x < at THEN x ELSE x - 1)
    BY <1>11
  <2>2. ASSUME NEW j \in DOMAIN c[h], node[c[h][i]].pid = node[c[h][j]].pid PROVE i = j
    <3>1. PICK y \in DOMAIN b[h] : c[h][j] = b[h][y] /\ (h # h0 => j = y)
                                 /\ (h = h0 => y # at /\ j = IF y < at THEN y ELSE y - 1)
      BY <1>11
    <3>2. x = y
      BY <2>0, <2>1, <2>2, <3>1
    <3> QED BY <2>1, <3>1, <3>2
  <2> HIDE DEF b, c
  <2>3. node[c[h][i]].proc \in Objects
    BY <2>0, <2>1
  <2> QED BY <2>2, <2>3
\* The free list has the node in front.
<1>14. /\ free_nodes' \in Seq(Nodes) /\ DOMAIN free_nodes' \subseteq Nat
       /\ \A i \in DOMAIN free_nodes' : \/ i = 1 /\ free_nodes'[i] = n
                                        \/ i # 1 /\ i - 1 \in DOMAIN free_nodes /\ free_nodes'[i] = free_nodes[i - 1]
       /\ 1 \in DOMAIN free_nodes' /\ \A i \in DOMAIN free_nodes : i + 1 \in DOMAIN free_nodes' /\ free_nodes'[i + 1] = free_nodes[i]
  <2>1. free_nodes \in Seq(Nodes)
    BY DEF TInv
  <2>2. /\ free_nodes' \in Seq(Nodes) /\ Len(free_nodes') = Len(free_nodes) + 1 /\ free_nodes'[1] = n
        /\ \A j \in 1..Len(free_nodes) : free_nodes'[j + 1] = free_nodes[j]
    BY <1>1, <1>5, <2>1, Pushed
  <2>3. /\ DOMAIN free_nodes' = 1..(Len(free_nodes) + 1) /\ DOMAIN free_nodes = 1..Len(free_nodes)
        /\ Len(free_nodes) \in Nat
    BY <2>1, <2>2
  <2>4. ASSUME NEW i \in DOMAIN free_nodes', i # 1
        PROVE  i - 1 \in DOMAIN free_nodes /\ free_nodes'[i] = free_nodes[i - 1]
    <3>1. i - 1 \in 1..Len(free_nodes) /\ (i - 1) + 1 = i
      BY <2>3, <2>4
    <3>2. free_nodes'[(i - 1) + 1] = free_nodes[i - 1]
      BY <3>1, <2>2
    <3> QED BY <3>1, <3>2, <2>3
  <2>5. 1 \in DOMAIN free_nodes' /\ \A i \in DOMAIN free_nodes : i + 1 \in DOMAIN free_nodes' /\ free_nodes'[i + 1] = free_nodes[i]
    BY <2>2, <2>3
  <2>6. ASSUME NEW i \in DOMAIN free_nodes'
        PROVE  \/ i = 1 /\ free_nodes'[i] = n
               \/ i # 1 /\ i - 1 \in DOMAIN free_nodes /\ free_nodes'[i] = free_nodes[i - 1]
    <3>1. CASE i = 1
      BY <3>1, <2>2
    <3>2. CASE i # 1
      BY <3>2, <2>4
    <3> QED BY <3>1, <3>2
  <2> QED BY <2>2, <2>3, <2>5, <2>6
<1>15. /\ \A l, m \in Bucket : \A u \in DOMAIN b[l], v \in DOMAIN b[m] : b[l][u] = b[m][v] => l = m /\ u = v
       /\ \A l \in Bucket : \A u \in DOMAIN b[l], v \in DOMAIN free_nodes : b[l][u] # free_nodes[v]
       /\ \A u, v \in DOMAIN free_nodes : free_nodes[u] = free_nodes[v] => u = v
       /\ n = b[h0][at] /\ at \in DOMAIN b[h0]
  BY <1>4 DEF TInv, Apart, n, old
<1>16. Apart(c, free_nodes')
  <2>1. ASSUME NEW h \in Bucket, NEW g \in Bucket, NEW i \in DOMAIN c[h], NEW j \in DOMAIN c[g], c[h][i] = c[g][j]
        PROVE  h = g /\ i = j
    <3>1. PICK x \in DOMAIN b[h] : c[h][i] = b[h][x] /\ (h # h0 => i = x)
                                   /\ (h = h0 => x # at /\ i = IF x < at THEN x ELSE x - 1)
      BY <1>11
    <3>2. PICK y \in DOMAIN b[g] : c[g][j] = b[g][y] /\ (g # h0 => j = y)
                                   /\ (g = h0 => y # at /\ j = IF y < at THEN y ELSE y - 1)
      BY <1>11
    <3> HIDE DEF b, c
    <3>3. h = g /\ x = y
      <4>1. \A l, m \in Bucket : \A u \in DOMAIN b[l], v \in DOMAIN b[m] : b[l][u] = b[m][v] => l = m /\ u = v
        BY <1>15
      <4>2. b[h][x] = b[g][y]
        BY <2>1, <3>1, <3>2
      <4> QED BY <4>1, <4>2
    <3> QED BY <3>1, <3>2, <3>3
  <2>2. ASSUME NEW h \in Bucket, NEW i \in DOMAIN c[h], NEW j \in DOMAIN free_nodes'
        PROVE  c[h][i] # free_nodes'[j]
    <3>1. PICK x \in DOMAIN b[h] : c[h][i] = b[h][x] /\ (h # h0 => i = x)
                                   /\ (h = h0 => x # at /\ i = IF x < at THEN x ELSE x - 1)
      BY <1>11
    <3> HIDE DEF b, c
    <3>2. b[h][x] # n
      BY <3>1, <1>2, <1>15
    <3> QED BY <3>1, <3>2, <1>14, <1>15
  <2>3. ASSUME NEW i \in DOMAIN free_nodes', NEW j \in DOMAIN free_nodes', free_nodes'[i] = free_nodes'[j]
        PROVE  i = j
    <3>1. \A v \in DOMAIN free_nodes : n # free_nodes[v]
      BY <1>2, <1>15
    <3>2. i \in Nat /\ j \in Nat
      BY <1>14
    <3>3. CASE i = 1
      BY <3>1, <3>3, <2>3, <1>14
    <3>4. CASE i # 1
      <4>1. i - 1 \in DOMAIN free_nodes /\ free_nodes'[i] = free_nodes[i - 1]
        BY <3>4, <1>14
      <4>2. j - 1 \in DOMAIN free_nodes /\ free_nodes'[j] = free_nodes[j - 1]
        BY <4>1, <3>1, <2>3, <1>14
      <4>3. i - 1 = j - 1
        BY <4>1, <4>2, <2>3, <1>15
      <4> QED BY <4>3, <3>2
    <3> QED BY <3>3, <3>4
  <2> QED BY <2>1, <2>2, <2>3 DEF Apart
<1>17. Cut(c, free_nodes', pages_allocated')
  <2>1. /\ \A h \in Bucket : \A i \in DOMAIN b[h] : b[h][i] <= pages_allocated * NODES_PER_PAGE
        /\ \A i \in DOMAIN free_nodes : free_nodes[i] <= pages_allocated * NODES_PER_PAGE
    BY DEF TInv, Cut
  <2>2. \A h \in Bucket : \A i \in DOMAIN c[h] : c[h][i] <= pages_allocated * NODES_PER_PAGE
    BY <2>1, <1>11
  <2>3. n <= pages_allocated * NODES_PER_PAGE
    BY <2>1, <1>2, <1>15
  <2>4. \A i \in DOMAIN free_nodes' : free_nodes'[i] <= pages_allocated * NODES_PER_PAGE
    BY <2>1, <2>3, <1>14
  <2> QED BY <2>2, <2>4, <1>1 DEF Cut
<1>17a. Kept(c, free_nodes', pages_allocated')
  <2> SUFFICES ASSUME NEW m \in 1..(pages_allocated * NODES_PER_PAGE)
               PROVE  \/ \E h \in Bucket : \E i \in DOMAIN c[h] : c[h][i] = m
                      \/ \E i \in DOMAIN free_nodes' : free_nodes'[i] = m
    BY <1>1 DEF Kept
  <2>1. CASE \E h \in Bucket : \E i \in DOMAIN b[h] : b[h][i] = m
    <3>a. PICK h \in Bucket : \E i \in DOMAIN b[h] : b[h][i] = m
      BY <2>1
    <3>1. PICK i \in DOMAIN b[h] : b[h][i] = m
      BY <3>a
    <3>2. CASE h # h0
      <4>1. c[h] = b[h]
        BY <3>2, <1>7
      <4> QED BY <3>1, <4>1
    <3>3. CASE h = h0 /\ i # at
      <4>1. c[h] = new /\ b[h] = old
        BY <3>3, <1>7 DEF old
      <4>2. PICK j \in DOMAIN new : new[j] = old[i]
        BY <4>1, <3>3, <1>10
      <4> QED BY <4>1, <4>2, <3>1
    <3>4. CASE h = h0 /\ i = at
      <4>1. m = n
        BY <3>1, <3>4, <1>15
      <4>2. 1 \in DOMAIN free_nodes' /\ free_nodes'[1] = n
        BY <1>14
      <4> QED BY <4>1, <4>2
    <3> QED BY <3>2, <3>3, <3>4
  <2>2. CASE \E i \in DOMAIN free_nodes : free_nodes[i] = m
    BY <2>2, <1>14
  <2> QED BY <2>1, <2>2 DEF TInv, Kept
<1>18. TInv'
  <2>1. Chains(buckets', node')
    BY <1>1, <1>13
  <2>2. node' \in [Nodes -> [pid : Nat, proc : Objects \cup {NULL}]] /\ pages_allocated' \in 0..MaxPages
    BY <1>1 DEF TInv
  <2> QED BY <2>1, <2>2, <1>14, <1>16, <1>17, <1>17a DEF TInv
<1>19. LookupIn(b, node, pid) \in Objects
  <2>1. Chains(b, node)
    BY DEF TInv
  <2>2. at \in DOMAIN b[pid_hash(pid)] /\ node[b[pid_hash(pid)][at]].pid = pid
    BY <1>4 DEF old, n, h0
  <2> HIDE DEF b, c
  <2> QED BY <2>1, <2>2, <1>2, Answers
<1>20. LookupIn(c, node', pid) = NULL
  <2>1. \A i \in DOMAIN c[h0] : node[c[h0][i]].pid # pid
    BY <1>4, <1>7, <1>9
  <2> QED BY <2>1, <1>1, NoAnswer DEF h0
<1>21. ASSUME NEW k \in Keys \ {pid} PROVE LookupIn(c, node, k) = LookupIn(b, node, k)
  <2> DEFINE h == pid_hash(k)
  <2>1. k \in Nat /\ h \in Bucket
    BY <1>2, HashBucket
  <2>2. ASSUME NEW i \in DOMAIN b[h], node[b[h][i]].pid = k
        PROVE  \E j \in DOMAIN c[h] : node[c[h][j]].pid = k /\ node[c[h][j]].proc = node[b[h][i]].proc
    <3>1. CASE h # h0
      <4>1. c[h] = b[h]
        BY <3>1, <2>1, <1>7
      <4> QED BY <4>1, <2>2
    <3>2. CASE h = h0
      <4>1. c[h] = new /\ b[h] = old
        BY <3>2, <1>2, <1>7 DEF old
      <4>2. i \in DOMAIN old \ {at}
        BY <4>1, <2>2, <1>4 DEF n
      <4>3. PICK j \in DOMAIN new : new[j] = old[i]
        BY <4>2, <1>10
      <4> QED BY <4>1, <4>3, <2>2
    <3> QED BY <3>1, <3>2
  <2>3. ASSUME NEW j \in DOMAIN c[h], node[c[h][j]].pid = k
        PROVE  \E i \in DOMAIN b[h] : node[b[h][i]].pid = k
    BY <2>1, <2>3, <1>11
  <2>4. Chains(b, node)
    BY DEF TInv
  <2> HIDE DEF b, c
  <2> QED BY <2>1, <2>2, <2>3, <2>4, <1>13, SameAnswer
<1>22. ASSUME NEW k \in Keys \ {pid} PROVE LookupIn(c, node', k) = LookupIn(b, node, k)
  BY <1>1, <1>21
<1> QED BY <1>18, <1>19, <1>20, <1>22

-----------------------------------------------------------------------------
\* The other calls change neither chains nor nodes.
LEMMA NothingChanges ==
  ASSUME TInv, buckets' = buckets, free_nodes' = free_nodes, pages_allocated' = pages_allocated, node' = node
  PROVE  TInv' /\ \A k \in Keys : LookupIn(buckets', node', k) = LookupIn(buckets, node, k)
  BY DEF TInv

\* The state PidMap sees.
MapOf(b, nd) == [k \in Keys |-> LookupIn(b, nd, k)]

LEMMA MapNow ==
  /\ [k \in Keys |-> lookup(k)] = MapOf(buckets, node)
  /\ [k \in Keys |-> lookup(k)]' = MapOf(buckets', node')
  BY LookupNow DEF MapOf

LEMMA TableInit == TInit => TInv /\ Map!Init
<1> SUFFICES ASSUME TInit PROVE TInv /\ Map!Init
  OBVIOUS
<1>1. /\ buckets = [h \in Bucket |-> <<>>] /\ free_nodes = <<>> /\ pages_allocated = 0
      /\ node = [n \in Nodes |-> [pid |-> 0, proc |-> NULL]] /\ ret = NULL
  BY DEF TInit, Bucket
<1>2. buckets \in [Bucket -> Seq(Nodes)] /\ \A h \in Bucket : buckets[h] = <<>> /\ DOMAIN buckets[h] = {}
  BY <1>1
<1>3. Chains(buckets, node)
  BY <1>2 DEF Chains
<1>4. Apart(buckets, free_nodes) /\ Cut(buckets, free_nodes, pages_allocated)
  BY <1>1, <1>2 DEF Apart, Cut
<1>4a. Kept(buckets, free_nodes, pages_allocated)
  <2>1. 1..(pages_allocated * NODES_PER_PAGE) = {}
    BY <1>1, PidTableAssumption
  <2> QED BY <2>1 DEF Kept
<1>5. node \in [Nodes -> [pid : Nat, proc : Objects \cup {NULL}]] /\ free_nodes \in Seq(Nodes)
  BY <1>1
<1>6. pages_allocated \in 0..MaxPages
  BY <1>1, PidTableAssumption
<1>7. TInv
  BY <1>3, <1>4, <1>4a, <1>5, <1>6 DEF TInv
<1>8. ASSUME NEW k \in Keys PROVE lookup(k) = NULL
  <2>1. k \in Nat
    BY PidTableAssumption
  <2>2. pid_hash(k) \in Bucket
    BY <2>1, HashBucket
  <2>3. \A i \in DOMAIN buckets[pid_hash(k)] : node[buckets[pid_hash(k)][i]].pid # k
    BY <2>2, <1>2
  <2> QED BY <2>3, NoAnswer, LookupNow
<1>9. Map!Init
  BY <1>1, <1>8 DEF Map!Init
<1> QED BY <1>7, <1>9

\* One step of the table is one of the map, and keeps the invariant.
LEMMA TableStep == TInv /\ [TNext]_tvars => TInv' /\ [Map!Next]_<<[k \in Keys |-> lookup(k)], ret>>
<1> SUFFICES ASSUME TInv, [TNext]_tvars
             PROVE  TInv' /\ [Map!Next]_<<[k \in Keys |-> lookup(k)], ret>>
  OBVIOUS
<1> DEFINE M == [k \in Keys |-> lookup(k)]
<1>1. M = MapOf(buckets, node) /\ M' = MapOf(buckets', node')
  BY MapNow
<1>2. \A k \in Keys : M[k] = LookupIn(buckets, node, k) /\ lookup(k) = LookupIn(buckets, node, k)
  BY <1>1, LookupNow DEF MapOf
<1> HIDE DEF M
<1>3. ASSUME buckets' = buckets, free_nodes' = free_nodes, pages_allocated' = pages_allocated, node' = node
      PROVE  TInv' /\ M' = M
  BY <1>1, <1>3, NothingChanges
<1>4. CASE UNCHANGED tvars
  <2>1. buckets' = buckets /\ free_nodes' = free_nodes /\ pages_allocated' = pages_allocated /\ node' = node /\ ret' = ret
    BY <1>4 DEF tvars
  <2> QED BY <2>1, <1>3 DEF M
<1>5. CASE TNext
  <2>1. PICK pid \in Keys : \/ \E o \in Objects : InsertDuplicate(pid, o) \/ InsertNoMemory(pid, o) \/ Insert(pid, o)
                            \/ Lookup(pid) \/ DeleteMissing(pid) \/ Delete(pid)
    BY <1>5 DEF TNext
  <2>2. ASSUME NEW o \in Objects, InsertDuplicate(pid, o) \/ InsertNoMemory(pid, o) PROVE TInv' /\ Map!Insert(pid, o)
    <3>1. /\ buckets' = buckets /\ free_nodes' = free_nodes /\ pages_allocated' = pages_allocated /\ node' = node
          /\ ret' = FALSE
      BY <2>2 DEF InsertDuplicate, InsertNoMemory
    <3> QED BY <3>1, <1>3 DEF Map!Insert, M
  <2>3. ASSUME NEW o \in Objects, Insert(pid, o) PROVE TInv' /\ Map!Insert(pid, o)
    <3>1. /\ TInv' /\ LookupIn(buckets, node, pid) = NULL /\ LookupIn(buckets', node', pid) = o
          /\ \A k \in Keys \ {pid} : LookupIn(buckets', node', k) = LookupIn(buckets, node, k)
      BY <2>3, InsertStep
    <3>2. ret' = TRUE
      BY <2>3 DEF Insert
    <3>3. M[pid] = NULL /\ M' = [M EXCEPT ![pid] = o]
      BY <3>1, <1>1 DEF MapOf
    <3> QED BY <3>1, <3>2, <3>3 DEF Map!Insert, M
  <2>4. CASE Lookup(pid)
    <3>1. /\ buckets' = buckets /\ free_nodes' = free_nodes /\ pages_allocated' = pages_allocated /\ node' = node
          /\ ret' = lookup(pid)
      BY <2>4 DEF Lookup
    <3>2. M[pid] = lookup(pid)
      BY <1>2
    <3>3. TInv' /\ Map!Lookup(pid)
      BY <3>1, <3>2, <1>3 DEF Map!Lookup, M
    <3> QED BY <3>3 DEF Map!Next, M
  <2>5. CASE DeleteMissing(pid)
    <3>1. /\ buckets' = buckets /\ free_nodes' = free_nodes /\ pages_allocated' = pages_allocated /\ node' = node
          /\ ret' = FALSE /\ Found(pid) = {}
      BY <2>5 DEF DeleteMissing
    <3>2. M[pid] = NULL
      BY <3>1, <1>2 DEF lookup
    <3>3. M' = [M EXCEPT ![pid] = NULL]
      BY <3>1, <3>2, <1>1, <1>3 DEF MapOf
    <3>4. TInv' /\ Map!Delete(pid)
      BY <3>1, <3>2, <3>3, <1>3 DEF Map!Delete, M
    <3> QED BY <3>4 DEF Map!Next, M
  <2>6. CASE Delete(pid)
    <3>1. /\ TInv' /\ LookupIn(buckets, node, pid) \in Objects /\ LookupIn(buckets', node', pid) = NULL
          /\ \A k \in Keys \ {pid} : LookupIn(buckets', node', k) = LookupIn(buckets, node, k)
      BY <2>6, DeleteStep
    <3>2. ret' = TRUE
      BY <2>6 DEF Delete
    <3>3. M[pid] # NULL /\ M' = [M EXCEPT ![pid] = NULL]
      <4>1. M[pid] = LookupIn(buckets, node, pid) /\ NULL \notin Objects
        BY <1>2, PidTableAssumption
      <4>2. M[pid] # NULL
        BY <4>1, <3>1
      <4>3. M' = [M EXCEPT ![pid] = NULL]
        BY <3>1, <1>1 DEF MapOf
      <4> QED BY <4>2, <4>3
    <3>4. Map!Delete(pid)
      BY <3>2, <3>3 DEF Map!Delete, M
    <3> QED BY <3>1, <3>4 DEF Map!Next, M
  <2> QED BY <2>1, <2>2, <2>3, <2>4, <2>5, <2>6 DEF Map!Next, M
<1> QED BY <1>4, <1>5

\* The invariant counted.
LEMMA Counted == TInv => NodesAccounted
<1> SUFFICES ASSUME TInv PROVE NodesAccounted
  OBVIOUS
<1> DEFINE b == buckets
           places == UNION {{h} \X DOMAIN b[h] : h \in DOMAIN b}
           In(n) == {p \in places : b[p[1]][p[2]] = n}
           Free(n) == {i \in DOMAIN free_nodes : free_nodes[i] = n}
<1>1. DOMAIN b = Bucket
  BY DEF TInv, Chains
<1>2. /\ \A h, g \in Bucket : \A i \in DOMAIN b[h], j \in DOMAIN b[g] : b[h][i] = b[g][j] => h = g /\ i = j
      /\ \A h \in Bucket : \A i \in DOMAIN b[h], j \in DOMAIN free_nodes : b[h][i] # free_nodes[j]
      /\ \A i, j \in DOMAIN free_nodes : free_nodes[i] = free_nodes[j] => i = j
  BY DEF TInv, Apart
<1> HIDE DEF b
<1>3. \A p \in places : \E h \in Bucket : \E i \in DOMAIN b[h] : p = <<h, i>>
  BY <1>1
<1>4. \A h \in Bucket : \A i \in DOMAIN b[h] : <<h, i>> \in places
  BY <1>1
<1> HIDE DEF places
<1>5. ASSUME NEW n \in 1..(pages_allocated * NODES_PER_PAGE)
      PROVE  Cardinality(In(n)) + Cardinality(Free(n)) = 1
  <2>1. CASE \E h \in Bucket : \E i \in DOMAIN b[h] : b[h][i] = n
    <3>a. PICK h \in Bucket : \E i \in DOMAIN b[h] : b[h][i] = n
      BY <2>1
    <3>1. PICK i \in DOMAIN b[h] : b[h][i] = n
      BY <3>a
    <3>2. In(n) = {<<h, i>>}
      <4>1. <<h, i>> \in In(n)
        BY <3>1, <1>4
      <4>2. ASSUME NEW p \in In(n) PROVE p = <<h, i>>
        <5>a. PICK g \in Bucket : \E j \in DOMAIN b[g] : p = <<g, j>>
          BY <1>3
        <5>1. PICK j \in DOMAIN b[g] : p = <<g, j>>
          BY <5>a
        <5>2. b[g][j] = n
          BY <5>1
        <5> QED BY <3>1, <5>1, <5>2, <1>2
      <4> QED BY <4>1, <4>2
    <3>3. Free(n) = {}
      BY <3>1, <1>2
    <3>4. Cardinality({<<h, i>>}) = 1 /\ Cardinality({}) = 0
      BY FS_Singleton, FS_EmptySet
    <3>5. Cardinality(In(n)) = 1 /\ Cardinality(Free(n)) = 0
      BY <3>2, <3>3, <3>4
    <3> HIDE DEF In, Free
    <3> QED BY <3>5
  <2>2. CASE ~ \E h \in Bucket : \E i \in DOMAIN b[h] : b[h][i] = n
    <3>1. PICK i \in DOMAIN free_nodes : free_nodes[i] = n
      BY <2>2 DEF TInv, Kept, b
    <3>2. Free(n) = {i}
      BY <3>1, <1>2
    <3>3. In(n) = {}
      <4>1. ASSUME NEW p \in In(n) PROVE FALSE
        <5>a. PICK g \in Bucket : \E j \in DOMAIN b[g] : p = <<g, j>>
          BY <1>3
        <5>1. PICK j \in DOMAIN b[g] : p = <<g, j>>
          BY <5>a
        <5> QED BY <5>1, <2>2
      <4> QED BY <4>1
    <3>4. Cardinality({i}) = 1 /\ Cardinality({}) = 0
      BY FS_Singleton, FS_EmptySet
    <3>5. Cardinality(In(n)) = 0 /\ Cardinality(Free(n)) = 1
      BY <3>2, <3>3, <3>4
    <3> HIDE DEF In, Free
    <3> QED BY <3>5
  <2> QED BY <2>1, <2>2
<1> QED BY <1>5 DEF NodesAccounted, b, places

\* Every node of a page is in exactly one chain or in the free list, once, for
\* any number of buckets and pages: pid_hash_delete loses none, and alloc_node
\* hands out none that a chain still runs through.
THEOREM NodesKept == TSpec => []NodesAccounted
<1>1. TSpec => []TInv
  BY TableInit, TableStep, PTL DEF TSpec
<1> QED BY <1>1, Counted, PTL

\* Insert, lookup and delete of the chained table answer as a map from numbers
\* to objects does (pidHashTable.c), for any number of buckets and nodes: through
\* collisions, deletions anywhere in a chain and nodes that are used again.
THEOREM TableIsMap == TSpec => ImplementsMap
<1>1. TSpec => []TInv
  BY TableInit, TableStep, PTL DEF TSpec
<1> QED BY <1>1, TableInit, TableStep, PTL DEF TSpec, ImplementsMap, Map!Spec
=============================================================================
