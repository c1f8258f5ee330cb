------------------------------ MODULE Ext2Proofs ------------------------------
(***************************************************************************)
(* What the operators of Ext2 and Ext2Dir do to a sound volume: each keeps  *)
(* the tree of the one file or directory it is about, takes only free       *)
(* blocks, and leaves those of all others alone. For volumes of any size,   *)
(* and for calls that run out of space half way too.                        *)
(***************************************************************************)
EXTENDS Ext2Sound, FiniteSetTheorems, WellFoundedInduction, SequenceTheorems, TLAPS

-----------------------------------------------------------------------------
(* Loops. Min finds the least number of a set: a fact about the turns of a loop *)
(* that fails would fail for a first time.                                      *)

LEMMA MinIs == ASSUME NEW S \in SUBSET Nat, S # {}
               PROVE  Min(S) \in S /\ \A x \in S : Min(S) <= x
<1> DEFINE less == OpToRel(<, Nat)
<1>1. \A x, y \in Nat : y < x => <<y, x>> \in less
  BY DEF OpToRel
<1>2. IsWellFoundedOn(less, Nat)
  BY NatLessThanWellFounded
<1> HIDE DEF less
<1>3. PICK x \in S : \A y \in S : ~(<<y, x>> \in less)
  BY <1>2, WFMin
<1>4. \A y \in S : x <= y
  <2>1. \A y \in S : ~(y < x)
    BY <1>1, <1>3
  <2> QED BY <2>1
<1> QED BY <1>4 DEF Min

\* Max of a set of numbers up to n.
LEMMA MaxIs == ASSUME NEW n \in Nat, NEW S \in SUBSET (0..n), S # {}
               PROVE  Max(S) \in S /\ \A x \in S : Max(S) >= x
<1> DEFINE T == {n - x : x \in S}
<1>1. T \in SUBSET Nat /\ T # {}
  <2>1. \A x \in S : n - x \in Nat
    OBVIOUS
  <2> QED BY <2>1
<1>2. Min(T) \in T /\ \A y \in T : Min(T) <= y
  BY <1>1, MinIs
<1>3. PICK x \in S : Min(T) = n - x
  BY <1>2
<1>4. \A y \in S : x >= y
  <2>1. ASSUME NEW y \in S PROVE x >= y
    <3>1. n - y \in T
      OBVIOUS
    <3>2. n - x <= n - y
      BY <1>2, <1>3, <3>1
    <3>3. x \in Int /\ y \in Int
      OBVIOUS
    <3> QED BY <3>2, <3>3
  <2> QED BY <2>1
<1> QED BY <1>4 DEF Max

-----------------------------------------------------------------------------
(* Numbers, sequences and records *)

LEMMA Numbers ==
  /\ BS \in Nat \ {0} /\ NDIRECT \in Nat \ {0} /\ GROUPS \in Nat \ {0}
  /\ BLOCKS_PER_GROUP \in Nat \ {0} /\ FIRST_DATA_BLOCK \in Nat /\ TOTAL_BLOCKS \in Nat
BY Ext2Assumption

LEMMA GroupsFinite == IsFiniteSet(Group) /\ Group \subseteq Nat /\ Cardinality(Group) = GROUPS
<1>1. GROUPS - 1 \in Int /\ 0 \in Int /\ GROUPS > 0
  BY Numbers
<1>2. IsFiniteSet(Group) /\ Cardinality(Group) = GROUPS
  BY <1>1, Numbers, FS_Interval DEF Group
<1> QED BY <1>2 DEF Group

\* The bits of a group, and of what group they are.
LEMMA BitsOf ==
  ASSUME NEW g \in Group
  PROVE  /\ IsFiniteSet(Bits(g)) /\ Bits(g) \subseteq Nat
         /\ \A b \in Bits(g) : /\ b >= g * BLOCKS_PER_GROUP + FIRST_DATA_BLOCK
                               /\ g # GROUPS - 1 => b < (g + 1) * BLOCKS_PER_GROUP + FIRST_DATA_BLOCK
<1> DEFINE n == IF g = GROUPS - 1 THEN TOTAL_BLOCKS - g * BLOCKS_PER_GROUP ELSE BLOCKS_PER_GROUP
           c == g * BLOCKS_PER_GROUP + FIRST_DATA_BLOCK
<1>1. g \in Nat /\ g * BLOCKS_PER_GROUP \in Nat
  BY Numbers DEF Group
<1>2. n \in Int /\ c \in Nat /\ (g + 1) * BLOCKS_PER_GROUP = g * BLOCKS_PER_GROUP + BLOCKS_PER_GROUP
  BY <1>1, Numbers
<1>3. \A b \in Bits(g) : \E i \in 0..(n - 1) : b = g * BLOCKS_PER_GROUP + i + FIRST_DATA_BLOCK
  BY DEF Bits
<1>4. g # GROUPS - 1 => n = BLOCKS_PER_GROUP
  OBVIOUS
<1> HIDE DEF n
<1>5. \A b \in Bits(g) : b \in Nat /\ b >= c /\ b <= c + n - 1
  BY <1>1, <1>2, <1>3, Numbers
<1>6. Bits(g) \subseteq c..(c + n - 1)
  BY <1>2, <1>5
<1>7. IsFiniteSet(c..(c + n - 1))
  BY <1>2, FS_Interval
<1>8. IsFiniteSet(Bits(g))
  BY <1>6, <1>7, FS_Subset
<1> QED BY <1>1, <1>2, <1>4, <1>5, <1>8, Numbers

LEMMA DivMod ==
  \A n \in Nat, m \in Nat \ {0} : /\ n \div m \in Nat /\ n % m \in 0..(m - 1)
                                  /\ n = m * (n \div m) + (n % m)
OBVIOUS

LEMMA DivUnique == \A p \in Nat \ {0} : \A q \in Nat, r \in 0..(p - 1) : (p * q + r) \div p = q
OBVIOUS

\* A turn of either loop on what it has so far.
TakeOne(acc) == LET a == AllocateBlock(acc.vol) IN
                IF acc.full \/ a.num = 0 THEN [acc EXCEPT !.full = TRUE]
                ELSE [acc EXCEPT !.vol = a.vol, !.blocks = Append(@, a.num)]
Turn(frees, acc, b) == IF frees THEN FreeBlock(acc, b) ELSE TakeOne(acc)

\* f has what the loop comes to after the turns in s.
After(frees, base, q, f, s) ==
  IF s = {} THEN base ELSE Turn(frees, f[s \ {Max(s)}], q[Max(s)])
Turns(frees, base, q, S, f) == f = [s \in SUBSET S |-> After(frees, base, q, f, s)]

LEMMA LastTurn ==
  ASSUME NEW n \in Nat, NEW s \in SUBSET (1..(n + 1)), s # {}
  PROVE  Max(s) \in s /\ s \ {Max(s)} \in SUBSET (1..n)
<1>1. Max(s) \in s /\ \A x \in s : Max(s) >= x
  <2>1. n + 1 \in Nat
    OBVIOUS
  <2>2. s \in SUBSET (0..(n + 1))
    OBVIOUS
  <2> QED BY <2>1, <2>2, MaxIs
<1>2. ASSUME NEW x \in s \ {Max(s)} PROVE x \in 1..n
  <2>1. x \in 1..(n + 1) /\ Max(s) \in 1..(n + 1) /\ x <= Max(s) /\ x # Max(s)
    BY <1>1
  <2> HIDE DEF Max
  <2> QED BY <2>1
<1> QED BY <1>1, <1>2

LEMMA LoopIs ==
  ASSUME NEW frees, NEW base, NEW q, NEW n \in Nat
  PROVE  \E f : Turns(frees, base, q, 1..n, f)
<1> DEFINE Some(m) == \E f : Turns(frees, base, q, 1..m, f)
           Bad == {m \in Nat : ~Some(m)}
<1>1. Some(0)
  <2> DEFINE f == [s \in SUBSET (1..0) |-> base]
  <2>1. \A s \in SUBSET (1..0) : After(frees, base, q, f, s) = base
    BY DEF After
  <2>2. f = [s \in SUBSET (1..0) |-> After(frees, base, q, f, s)]
    BY <2>1
  <2> QED BY <2>2 DEF Turns
<1>2. ASSUME NEW m \in Nat, Some(m) PROVE Some(m + 1)
  <2>1. PICK f : f = [s \in SUBSET (1..m) |-> After(frees, base, q, f, s)]
    BY <1>2 DEF Turns
  <2> DEFINE h == [s \in SUBSET (1..(m + 1)) |-> After(frees, base, q, f, s)]
  <2>2. ASSUME NEW s \in SUBSET (1..(m + 1))
        PROVE  After(frees, base, q, h, s) = After(frees, base, q, f, s)
    <3>1. CASE s = {}
      BY <3>1 DEF After
    <3>2. CASE s # {}
      <4> DEFINE r == s \ {Max(s)}
      <4>1. r \in SUBSET (1..m) /\ r \in SUBSET (1..(m + 1))
        BY <3>2, LastTurn
      <4>2. h[r] = f[r]
        <5> HIDE DEF r
        <5>1. f[r] = After(frees, base, q, f, r)
          BY <2>1, <4>1, Zenon
        <5> QED BY <4>1, <5>1
      <4> HIDE DEF h
      <4> QED BY <3>2, <4>2 DEF After
    <3> QED BY <3>1, <3>2
  <2>3. h = [s \in SUBSET (1..(m + 1)) |-> After(frees, base, q, h, s)]
    BY <2>2
  <2> QED BY <2>3 DEF Turns
<1>3. Bad = {}
  <2> SUFFICES ASSUME Bad # {} PROVE FALSE
    OBVIOUS
  <2> DEFINE k == Min(Bad)
  <2>1. k \in Bad /\ \A x \in Bad : k <= x
    BY MinIs
  <2> HIDE DEF k, Some
  <2>2. k \in Nat /\ ~Some(k) /\ k # 0
    BY <1>1, <2>1
  <2>3. k - 1 \in Nat /\ Some(k - 1)
    BY <2>1, <2>2
  <2> QED BY <1>2, <2>2, <2>3
<1> QED BY <1>3

\* A sequence, over whatever set, is one over its range.
LEMMA SeqIn == ASSUME NEW S, NEW q \in Seq(S) PROVE IsSeq(q)
<1>1. q \in [1..Len(q) -> S] /\ Len(q) \in Nat
  BY LenProperties
<1>2. q \in [1..Len(q) -> Range(q)]
  BY <1>1 DEF Range
<1> QED BY <1>1, <1>2, SeqDef DEF IsSeq

LEMMA SeqHas == ASSUME NEW q, IsSeq(q) PROVE Len(q) \in Nat /\ DOMAIN q = 1..Len(q)
BY LenProperties DEF IsSeq

LEMMA ConcatSeq == ASSUME NEW p, IsSeq(p), NEW q, IsSeq(q) PROVE IsSeq(p \o q)
<1>1. PICK S : p \in Seq(S)
  BY DEF IsSeq
<1>2. PICK T : q \in Seq(T)
  BY DEF IsSeq
<1>3. p \in Seq(S \cup T) /\ q \in Seq(S \cup T)
  BY <1>1, <1>2, SeqMonotonic, Zenon
<1>4. p \o q \in Seq(S \cup T)
  BY <1>3, ConcatProperties
<1> QED BY <1>4, SeqIn

LEMMA RowSeq == ASSUME NEW f, NEW from, NEW n \in Nat PROVE IsSeq(Row(f, from, n))
<1> DEFINE q == [k \in 1..n |-> f[from + k - 1]]
           S == {f[from + k - 1] : k \in 1..n}
<1>1. q \in [1..n -> S]
  OBVIOUS
<1> HIDE DEF q
<1>2. q \in Seq(S)
  BY <1>1, SeqDef
<1>3. IsSeq(q) /\ IsSeq(<<>>)
  <2>1. <<>> \in Seq({})
    BY EmptySeq
  <2> QED BY <1>2, <2>1, SeqIn
<1>4. IsSeq(q \o <<>>)
  BY <1>3, ConcatSeq
<1> QED BY <1>4 DEF Row, Tuple, q

LEMMA LeastNat == \A a, b \in Nat : Least(a, b) \in Nat /\ Least(a, b) <= a
BY DEF Least

\* An inode with other pointers, or another size.
LEMMA InodeWith ==
  ASSUME NEW x, IsInode(x)
  PROVE  /\ \A p : IsInode([x EXCEPT !.block = p])
         /\ \A s, p : IsInode([x EXCEPT !.block[s] = p])
         /\ \A n \in Nat : IsInode([x EXCEPT !.size = n]) /\ [x EXCEPT !.size = n].size = n
         /\ \A k : IsInode([x EXCEPT !.links = k])
<1>1. ASSUME NEW p PROVE IsInode([x EXCEPT !.block = p])
  <2>1. [x EXCEPT !.block = p] = [mode |-> x.mode, size |-> x.size, links |-> x.links, block |-> p]
    BY DEF IsInode
  <2> QED BY <2>1 DEF IsInode
<1>2. ASSUME NEW s, NEW p PROVE IsInode([x EXCEPT !.block[s] = p])
  <2>1. [x EXCEPT !.block[s] = p] = [x EXCEPT !.block = [x.block EXCEPT ![s] = p]]
    OBVIOUS
  <2> QED BY <1>1, <2>1
<1>3. ASSUME NEW n \in Nat PROVE IsInode([x EXCEPT !.size = n]) /\ [x EXCEPT !.size = n].size = n
  <2>1. [x EXCEPT !.size = n] = [mode |-> x.mode, size |-> n, links |-> x.links, block |-> x.block]
    BY DEF IsInode
  <2> QED BY <2>1 DEF IsInode
<1>4. ASSUME NEW k PROVE IsInode([x EXCEPT !.links = k])
  <2>1. [x EXCEPT !.links = k] = [mode |-> x.mode, size |-> x.size, links |-> k, block |-> x.block]
    BY DEF IsInode
  <2> QED BY <2>1 DEF IsInode
<1> QED BY <1>1, <1>2, <1>3, <1>4

IsOpenFile(x) == /\ x = [num |-> x.num, pos |-> x.pos, inode |-> x.inode]
             /\ x.pos \in Nat /\ IsInode(x.inode)
LEMMA NeededNat == \A n \in Nat : CountBlocksNeeded(n) \in Nat
<1>1. \A n \in Nat : n + BS - 1 \in Nat
  BY Numbers
<1> QED BY <1>1, Numbers, DivMod DEF CountBlocksNeeded

\* A file at another position, or with another inode.
LEMMA FileWith ==
  ASSUME NEW file, IsOpenFile(file)
  PROVE  /\ \A p \in Nat : IsOpenFile([file EXCEPT !.pos = p])
         /\ \A x : IsInode(x) => IsOpenFile([file EXCEPT !.inode = x])
         /\ \A p \in Nat : \A x : IsInode(x) => IsOpenFile([file EXCEPT !.pos = p, !.inode = x])
         /\ \A p \in Nat : \A x : IsInode(x) => IsOpenFile([file EXCEPT !.inode = x, !.pos = p])
<1>1. ASSUME NEW p \in Nat PROVE IsOpenFile([file EXCEPT !.pos = p])
  <2>1. [file EXCEPT !.pos = p] = [num |-> file.num, pos |-> p, inode |-> file.inode]
    BY DEF IsOpenFile
  <2> QED BY <2>1 DEF IsOpenFile
<1>2. ASSUME NEW x, IsInode(x) PROVE IsOpenFile([file EXCEPT !.inode = x])
  <2>1. [file EXCEPT !.inode = x] = [num |-> file.num, pos |-> file.pos, inode |-> x]
    BY DEF IsOpenFile
  <2> QED BY <1>2, <2>1 DEF IsOpenFile
<1>3. ASSUME NEW p \in Nat, NEW x, IsInode(x)
      PROVE  IsOpenFile([file EXCEPT !.pos = p, !.inode = x]) /\ IsOpenFile([file EXCEPT !.inode = x, !.pos = p])
  <2> DEFINE f == [file EXCEPT !.pos = p]
             g == [file EXCEPT !.inode = x]
  <2>1. f = [num |-> file.num, pos |-> p, inode |-> file.inode]
    BY DEF IsOpenFile
  <2>2. g = [num |-> file.num, pos |-> file.pos, inode |-> x]
    BY DEF IsOpenFile
  <2>3. [file EXCEPT !.pos = p, !.inode = x] = [f EXCEPT !.inode = x]
    OBVIOUS
  <2>4. [file EXCEPT !.inode = x, !.pos = p] = [g EXCEPT !.pos = p]
    OBVIOUS
  <2> HIDE DEF f, g
  <2>5. [f EXCEPT !.inode = x] = [num |-> file.num, pos |-> p, inode |-> x]
    BY <2>1
  <2>6. [g EXCEPT !.pos = p] = [num |-> file.num, pos |-> p, inode |-> x]
    BY <2>2
  <2>7. IsOpenFile([num |-> file.num, pos |-> p, inode |-> x])
    BY <1>3 DEF IsOpenFile
  <2> QED BY <2>3, <2>4, <2>5, <2>6, <2>7
<1> QED BY <1>1, <1>2, <1>3

LEMMA LargerNat == \A a, b \in Nat : Larger(a, b) \in Nat
BY DEF Larger

-----------------------------------------------------------------------------
(* The blocks of a volume, taken and given back *)

\* w has the inodes of v and their bitmap.
SameInodes(v, w) == IsVolume(w) /\ w.inode = v.inode /\ w.inodes_used = v.inodes_used

LEMMA FreshBlock ==
  ASSUME NEW v, IsVolume(v), Reserved(v.used)
  PROVE  LET a == AllocateBlock(v) IN
         /\ a = [vol |-> a.vol, num |-> a.num]
         /\ SameInodes(v, a.vol) /\ a.vol.data = v.data
         /\ \/ a.num = 0 /\ a.vol = v
            \/ a.num \in Block \ {0} /\ a.num \notin v.used /\ a.vol.used = v.used \cup {a.num}
<1> DEFINE G == BlockGroupsLeft(v)
           g == Min(G)
           b == Min(Bits(g) \ v.used)
           a == AllocateBlock(v)
<1>1. CASE G = {}
  <2>1. a = [vol |-> v, num |-> 0]
    BY <1>1 DEF AllocateBlock
  <2> QED BY <2>1 DEF SameInodes
<1>2. CASE G # {}
  <2>1. G \in SUBSET Nat /\ \A h \in G : h \in Group /\ Bits(h) \ v.used # {}
    BY GroupsFinite DEF BlockGroupsLeft
  <2>2. g \in Group /\ Bits(g) \ v.used # {}
    BY <1>2, <2>1, MinIs
  <2>3. b \in Bits(g) \ v.used
    <3>1. Bits(g) \subseteq Nat
      BY <2>2, BitsOf
    <3> QED BY <2>2, <3>1, MinIs
  <2> DEFINE u == v.used \cup {b}
             f == [v.bg_blocks EXCEPT ![g] = @ - 1]
             n == v.sb_blocks - 1
             w == [v EXCEPT !.used = u, !.bg_blocks = f, !.sb_blocks = n]
  <2>4. a = [vol |-> w, num |-> b]
    BY <1>2 DEF AllocateBlock
  <2> HIDE DEF a, g, b, G, u, f, n
  <2>0. w = [v EXCEPT !.used = u, !.bg_blocks = f, !.sb_blocks = n]
    OBVIOUS
  <2> HIDE DEF w
  <2>5. w = [used |-> u, bg_blocks |-> f, sb_blocks |-> n, inodes_used |-> v.inodes_used,
             bg_inodes |-> v.bg_inodes, sb_inodes |-> v.sb_inodes, bg_dirs |-> v.bg_dirs,
             inode |-> v.inode, data |-> v.data]
    BY <2>0 DEF IsVolume
  <2>6. SameInodes(v, w) /\ w.data = v.data /\ w.used = u
    BY <2>5 DEF SameInodes, IsVolume
  <2>7. b \in Block \ {0} /\ b \notin v.used
    BY <2>2, <2>3 DEF Reserved
  <2> QED BY <2>4, <2>6, <2>7 DEF a, u
<1> QED BY <1>1, <1>2

\* The volume v with other bits and other blocks.
LEMMA FreeOne ==
  ASSUME NEW v, IsVolume(v), NEW b
  PROVE  LET w == FreeBlock(v, b) IN
         SameInodes(v, w) /\ w.data = v.data /\ w.used = v.used \ ({b} \cap Block)
<1>1. CASE b \notin Block \/ b \notin v.used
  <2>1. FreeBlock(v, b) = v /\ v.used = v.used \ ({b} \cap Block)
    BY <1>1 DEF FreeBlock
  <2> QED BY <2>1 DEF SameInodes
<1>2. CASE b \in Block /\ b \in v.used
  <2> DEFINE u == v.used \ {b}
             f == [v.bg_blocks EXCEPT ![BlockGroup(b)] = @ + 1]
             n == v.sb_blocks + 1
             w == [v EXCEPT !.used = u, !.bg_blocks = f, !.sb_blocks = n]
  <2>1. FreeBlock(v, b) = w
    BY <1>2 DEF FreeBlock
  <2>2. u = v.used \ ({b} \cap Block)
    BY <1>2
  <2> HIDE DEF u, f, n
  <2>0. w = [v EXCEPT !.used = u, !.bg_blocks = f, !.sb_blocks = n]
    OBVIOUS
  <2> HIDE DEF w
  <2>5. w = [used |-> u, bg_blocks |-> f, sb_blocks |-> n, inodes_used |-> v.inodes_used,
             bg_inodes |-> v.bg_inodes, sb_inodes |-> v.sb_inodes, bg_dirs |-> v.bg_dirs,
             inode |-> v.inode, data |-> v.data]
    BY <2>0 DEF IsVolume
  <2> QED BY <2>1, <2>2, <2>5 DEF SameInodes, IsVolume
<1> QED BY <1>1, <1>2

\* A loop, turn by turn.
Stepwise(frees, base, q, n, f) ==
  /\ f[1..0] = base
  /\ \A m \in Nat : m < n => f[1..(m + 1)] = Turn(frees, f[1..m], q[m + 1])

LEMMA TurnByTurn ==
  ASSUME NEW frees, NEW base, NEW q, NEW n \in Nat, NEW f, Turns(frees, base, q, 1..n, f)
  PROVE  Stepwise(frees, base, q, n, f)
<1>1. \A s \in SUBSET (1..n) : f[s] = After(frees, base, q, f, s)
  BY Zenon DEF Turns
<1>2. f[1..0] = base
  <2>1. 1..0 = {} /\ 1..0 \in SUBSET (1..n)
    OBVIOUS
  <2> QED BY <1>1, <2>1 DEF After
<1>3. ASSUME NEW m \in Nat, m < n PROVE f[1..(m + 1)] = Turn(frees, f[1..m], q[m + 1])
  <2> DEFINE s == 1..(m + 1)
  <2>1. s \in SUBSET (1..n) /\ s # {} /\ m + 1 \in s
    BY <1>3
  <2>2. Max(s) \in s /\ \A x \in s : Max(s) >= x
    <3>1. s \in SUBSET (0..(m + 1)) /\ m + 1 \in Nat
      OBVIOUS
    <3> HIDE DEF s
    <3> QED BY <2>1, <3>1, MaxIs
  <2>3. Max(s) = m + 1
    <3>1. Max(s) >= m + 1 /\ Max(s) \in 1..(m + 1)
      BY <2>1, <2>2
    <3> QED BY <3>1
  <2>4. s \ {m + 1} = 1..m
    OBVIOUS
  <2>5. f[s] = Turn(frees, f[s \ {Max(s)}], q[Max(s)])
    <3> HIDE DEF s
    <3> QED BY <1>1, <2>1 DEF After
  <2> QED BY <2>3, <2>4, <2>5
<1> QED BY <1>2, <1>3 DEF Stepwise

LEMMA FreeAll ==
  ASSUME NEW v, IsVolume(v), NEW n \in Nat, NEW q, DOMAIN q = 1..n
  PROVE  LET w == FreeBlocks(v, q) IN
         SameInodes(v, w) /\ w.data = v.data /\ w.used = v.used \ ({q[j] : j \in 1..n} \cap Block)
<1> DEFINE P(f) == f = [s \in SUBSET (1..n) |-> IF s = {} THEN v ELSE FreeBlock(f[s \ {Max(s)}], q[Max(s)])]
<1>1. \A f : P(f) <=> Turns(TRUE, v, q, 1..n, f)
  BY DEF Turns, After, Turn
<1>2. FreeBlocks(v, q) = (CHOOSE f : P(f))[1..n]
  BY Zenon DEF FreeBlocks, FoldLeft, MapThenFoldSet
<1>3. \E f : P(f)
  BY <1>1, LoopIs
<1> HIDE DEF P
<1>4. P(CHOOSE f : P(f))
  BY <1>3
<1>5. PICK f : Turns(TRUE, v, q, 1..n, f) /\ FreeBlocks(v, q) = f[1..n]
  BY <1>1, <1>2, <1>4
<1>10. /\ f[1..0] = v
       /\ \A m \in Nat : m < n => f[1..(m + 1)] = FreeBlock(f[1..m], q[m + 1])
  <2>1. /\ f[1..0] = v
        /\ \A m \in Nat : m < n => f[1..(m + 1)] = Turn(TRUE, f[1..m], q[m + 1])
    <3> DEFINE yes == TRUE
    <3>1. Turns(yes, v, q, 1..n, f)
      BY <1>5
    <3> HIDE DEF yes
    <3>2. Stepwise(yes, v, q, n, f)
      BY <3>1, TurnByTurn
    <3> QED BY <3>2 DEF Stepwise, yes
  <2> QED BY <2>1 DEF Turn
<1> DEFINE Has(m) == /\ SameInodes(v, f[1..m]) /\ f[1..m].data = v.data
                     /\ f[1..m].used = v.used \ ({q[j] : j \in 1..m} \cap Block)
           Bad == {m \in 0..n : ~Has(m)}
<1>6. Has(0)
  <2>1. f[1..0] = v /\ {q[j] : j \in 1..0} = {}
    BY <1>10
  <2> QED BY <2>1 DEF SameInodes
<1>7. ASSUME NEW m \in Nat, m < n, Has(m) PROVE Has(m + 1)
  <2> DEFINE x == f[1..m]
             b == q[m + 1]
  <2>1. f[1..(m + 1)] = FreeBlock(x, b)
    BY <1>7, <1>10
  <2>2. IsVolume(x)
    BY <1>7 DEF SameInodes
  <2>3. {q[j] : j \in 1..(m + 1)} = {q[j] : j \in 1..m} \cup {b}
    <3>1. 1..(m + 1) = (1..m) \cup {m + 1}
      OBVIOUS
    <3> QED BY <3>1
  <2> HIDE DEF x, b
  <2>4. SameInodes(x, FreeBlock(x, b)) /\ FreeBlock(x, b).data = x.data
        /\ FreeBlock(x, b).used = x.used \ ({b} \cap Block)
    BY <2>2, FreeOne
  <2>5. SameInodes(v, x) /\ x.data = v.data /\ x.used = v.used \ ({q[j] : j \in 1..m} \cap Block)
    BY <1>7 DEF x
  <2>6. SameInodes(v, FreeBlock(x, b)) /\ FreeBlock(x, b).data = v.data
    BY <2>4, <2>5 DEF SameInodes
  <2>7. FreeBlock(x, b).used = v.used \ ({q[j] : j \in 1..(m + 1)} \cap Block)
    BY <2>3, <2>4, <2>5
  <2> QED BY <2>1, <2>6, <2>7
<1>8. Bad = {}
  <2> SUFFICES ASSUME Bad # {} PROVE FALSE
    OBVIOUS
  <2> DEFINE k == Min(Bad)
  <2>0. Bad \in SUBSET Nat
    OBVIOUS
  <2>1. k \in Bad /\ \A x \in Bad : k <= x
    BY <2>0, MinIs
  <2> HIDE DEF k, Has
  <2>2. k \in Nat /\ k <= n /\ ~Has(k) /\ k # 0
    BY <1>6, <2>1
  <2>3. k - 1 \in Nat /\ k - 1 < n /\ Has(k - 1)
    BY <2>1, <2>2
  <2>4. Has((k - 1) + 1)
    BY <1>7, <2>3
  <2> QED BY <2>2, <2>4
<1>9. Has(n)
  <2> HIDE DEF Has
  <2> QED BY <1>8
<1> QED BY <1>5, <1>9

\* What the loop that takes blocks has after some turns: new blocks, all different.
TookBlocks(v, acc, m) ==
  /\ acc = [vol |-> acc.vol, blocks |-> acc.blocks, full |-> acc.full] /\ acc.full \in BOOLEAN
  /\ SameInodes(v, acc.vol) /\ acc.vol.data = v.data
  /\ acc.blocks \in Seq(Nat) /\ (~acc.full => Len(acc.blocks) = m)
  /\ acc.vol.used = v.used \cup {acc.blocks[j] : j \in 1..Len(acc.blocks)}
  /\ \A j \in 1..Len(acc.blocks) : acc.blocks[j] \in Block \ {0} /\ acc.blocks[j] \notin v.used
  /\ \A j, k \in 1..Len(acc.blocks) : acc.blocks[j] = acc.blocks[k] => j = k

LEMMA ReservedMore == ASSUME NEW u, Reserved(u), NEW w, u \subseteq w PROVE Reserved(w)
BY DEF Reserved

LEMMA TookOne ==
  ASSUME NEW v, IsVolume(v), Reserved(v.used), NEW m \in Nat, NEW acc, TookBlocks(v, acc, m)
  PROVE  TookBlocks(v, TakeOne(acc), m + 1)
<1> DEFINE a == AllocateBlock(acc.vol)
           t == TakeOne(acc)
           q == acc.blocks
           r == Append(q, a.num)
<1>1. IsVolume(acc.vol) /\ Reserved(acc.vol.used)
  <2>1. v.used \subseteq acc.vol.used
    BY DEF TookBlocks
  <2> QED BY <2>1, ReservedMore DEF TookBlocks, SameInodes
<1>2. /\ SameInodes(acc.vol, a.vol) /\ a.vol.data = acc.vol.data
      /\ \/ a.num = 0 /\ a.vol = acc.vol
         \/ /\ a.num \in Block \ {0} /\ a.num \notin acc.vol.used
            /\ a.vol.used = acc.vol.used \cup {a.num}
  BY <1>1, FreshBlock
<1> HIDE DEF a
<1>3. CASE acc.full \/ a.num = 0
  <2>1. t = [acc EXCEPT !.full = TRUE]
    BY <1>3 DEF TakeOne, a
  <2> HIDE DEF t
  <2>2. t = [vol |-> acc.vol, blocks |-> acc.blocks, full |-> TRUE]
    BY <2>1 DEF TookBlocks
  <2>3. TookBlocks(v, t, m + 1)
    BY <2>2 DEF TookBlocks
  <2> QED BY <2>3 DEF t
<1>4. CASE ~(acc.full \/ a.num = 0)
  <2>1. t = [acc EXCEPT !.vol = a.vol, !.blocks = r]
    BY <1>4 DEF TakeOne, a
  <2> HIDE DEF t
  <2>2. t = [vol |-> a.vol, blocks |-> r, full |-> acc.full]
    BY <2>1 DEF TookBlocks
  <2>3. q \in Seq(Nat) /\ Len(q) = m /\ a.num \in Nat
    BY <1>2, <1>4, Numbers DEF TookBlocks, Block
  <2>4. /\ r \in Seq(Nat) /\ Len(r) = m + 1 /\ r[m + 1] = a.num
        /\ \A j \in 1..m : r[j] = q[j]
    <3> HIDE DEF q
    <3> QED BY <2>3
  <2> HIDE DEF r
  <2>5. a.vol.used = v.used \cup {r[j] : j \in 1..(m + 1)}
    <3>1. a.vol.used = v.used \cup {q[j] : j \in 1..m} \cup {a.num}
      BY <1>2, <1>4, <2>3 DEF TookBlocks
    <3>2. 1..(m + 1) = (1..m) \cup {m + 1}
      OBVIOUS
    <3>3. {r[j] : j \in 1..(m + 1)} = {q[j] : j \in 1..m} \cup {a.num}
      BY <2>4, <3>2
    <3> QED BY <3>1, <3>3
  <2>6. \A j \in 1..m : q[j] \in Block \ {0} /\ q[j] \notin v.used /\ q[j] # a.num
    <3>1. \A j \in 1..m : q[j] \in acc.vol.used /\ q[j] \in Block \ {0} /\ q[j] \notin v.used
      BY <2>3 DEF TookBlocks
    <3> QED BY <1>2, <1>4, <3>1
  <2>7. a.num \in Block \ {0} /\ a.num \notin v.used
    BY <1>2, <1>4 DEF TookBlocks
  <2>8. \A j, k \in 1..m : q[j] = q[k] => j = k
    BY <2>3 DEF TookBlocks
  <2>9. \A j \in 1..(m + 1) : j \in 1..m \/ j = m + 1
    OBVIOUS
  <2>10. \A j \in 1..(m + 1) : r[j] \in Block \ {0} /\ r[j] \notin v.used
    BY <2>4, <2>6, <2>7, <2>9
  <2>11. \A j, k \in 1..(m + 1) : r[j] = r[k] => j = k
    BY <2>4, <2>6, <2>8, <2>9
  <2>12. SameInodes(v, a.vol) /\ a.vol.data = v.data /\ acc.full \in BOOLEAN
    BY <1>2 DEF TookBlocks, SameInodes
  <2>13. TookBlocks(v, t, m + 1)
    <3> HIDE DEF q
    <3> QED BY <2>2, <2>4, <2>5, <2>10, <2>11, <2>12 DEF TookBlocks
  <2> QED BY <2>13 DEF t
<1> QED BY <1>3, <1>4

LEMMA TakeAll ==
  ASSUME NEW v, IsVolume(v), Reserved(v.used), NEW n \in Nat
  PROVE  TookBlocks(v, AllocateBlocks(v, n), n)
<1> DEFINE base == [vol |-> v, blocks |-> <<>>, full |-> FALSE]
           q == [i \in 1..n |-> i]
           P(f) == f = [s \in SUBSET (1..n) |-> IF s = {} THEN base ELSE TakeOne(f[s \ {Max(s)}])]
           no == FALSE
<1>1. \A f : P(f) <=> Turns(no, base, q, 1..n, f)
  <2> HIDE DEF base, q
  <2> QED BY DEF Turns, After, Turn
<1>2. AllocateBlocks(v, n) = (CHOOSE f : P(f))[1..n]
  BY Zenon DEF AllocateBlocks, FoldLeft, MapThenFoldSet, TakeOne
<1>3. TookBlocks(v, base, 0)
  <2>1. base.blocks \in Seq(Nat) /\ Len(base.blocks) = 0 /\ 1..0 = {}
    OBVIOUS
  <2>2. base.vol = v /\ base.full = FALSE /\ base = [vol |-> base.vol, blocks |-> base.blocks, full |-> base.full]
    OBVIOUS
  <2> HIDE DEF base
  <2> QED BY <2>1, <2>2 DEF TookBlocks, SameInodes
<1> HIDE DEF base, q, no
<1>4. \E f : P(f)
  BY <1>1, LoopIs
<1> HIDE DEF P
<1>5. P(CHOOSE f : P(f))
  BY <1>4
<1>6. PICK f : Turns(no, base, q, 1..n, f) /\ AllocateBlocks(v, n) = f[1..n]
  BY <1>1, <1>2, <1>5
<1>7. /\ f[1..0] = base
      /\ \A m \in Nat : m < n => f[1..(m + 1)] = TakeOne(f[1..m])
  <2>1. Stepwise(no, base, q, n, f)
    BY <1>6, TurnByTurn
  <2> QED BY <2>1 DEF Stepwise, Turn, no
<1> DEFINE Has(m) == TookBlocks(v, f[1..m], m)
           Bad == {m \in 0..n : ~Has(m)}
<1>8. Has(0)
  BY <1>3, <1>7
<1>9. ASSUME NEW m \in Nat, m < n, Has(m) PROVE Has(m + 1)
  BY <1>7, <1>9, TookOne
<1>10. Bad = {}
  <2> SUFFICES ASSUME Bad # {} PROVE FALSE
    OBVIOUS
  <2> DEFINE k == Min(Bad)
  <2>0. Bad \in SUBSET Nat
    OBVIOUS
  <2>1. k \in Bad /\ \A x \in Bad : k <= x
    BY <2>0, MinIs
  <2> HIDE DEF k, Has
  <2>2. k \in Nat /\ k <= n /\ ~Has(k) /\ k # 0
    BY <1>8, <2>1
  <2>3. k - 1 \in Nat /\ k - 1 < n /\ Has(k - 1)
    BY <2>1, <2>2
  <2>4. Has((k - 1) + 1)
    BY <1>9, <2>3
  <2> QED BY <2>2, <2>4
<1>11. Has(n)
  <2> HIDE DEF Has
  <2> QED BY <1>10
<1> QED BY <1>6, <1>11

-----------------------------------------------------------------------------
(* The tree of blocks of a file. m has the blocks of the volume, p the      *)
(* pointers of an inode, u the bits that are set.                           *)

LEMMA LimitNat == Limit \in Nat /\ BS * BS \in Nat /\ NDIRECT + BS <= Limit
                  /\ NDIRECT \in Slots /\ NDIRECT + 1 \in Slots
<1>1. BS * BS \in Nat
  BY Numbers
<1> QED BY <1>1, Numbers DEF Limit, Slots

\* Where the pointer to block k is.
LEMMA Where ==
  ASSUME NEW k \in 0..(Limit - 1), k >= NDIRECT + BS
  PROVE  /\ (k - NDIRECT - BS) \in Nat
         /\ (k - NDIRECT - BS) \div BS \in Word /\ (k - NDIRECT - BS) % BS \in Word
         /\ k = NDIRECT + BS + BS * ((k - NDIRECT - BS) \div BS) + ((k - NDIRECT - BS) % BS)
<1> DEFINE a == k - NDIRECT - BS
           q == a \div BS
           r == a % BS
           S == BS * BS
<1>1. a \in Nat /\ a < S /\ S \in Nat
  BY LimitNat, Numbers DEF Limit
<1>2. q \in Nat /\ r \in 0..(BS - 1) /\ a = BS * q + r
  BY <1>1, Numbers, DivMod
<1>3. k = NDIRECT + BS + a
  BY LimitNat, Numbers
<1>4. q < BS
  <2> SUFFICES ASSUME q >= BS PROVE FALSE
    BY <1>2, Numbers
  <2> HIDE DEF a, q, r
  <2> DEFINE T == BS * (q - BS)
             Q == BS * q
  <2>1. Q = S + T /\ T \in Nat /\ Q \in Nat
    BY <1>2, Numbers
  <2> HIDE DEF S, T, Q
  <2>2. a = Q + r
    BY <1>2 DEF Q
  <2> QED BY <1>1, <1>2, <2>1, <2>2, Numbers
<1> HIDE DEF a, q, r
<1>5. q \in Word /\ r \in Word
  BY <1>2, <1>4, Numbers DEF Word
<1>6. k = NDIRECT + BS + BS * q + r
  BY <1>2, <1>3, Numbers
<1> QED BY <1>1, <1>5, <1>6 DEF a, q, r

LEMMA There ==
  ASSUME NEW q \in Word, NEW r \in Word
  PROVE  LET k == NDIRECT + BS + BS * q + r IN
         /\ k \in NDIRECT..(Limit - 1) /\ k >= NDIRECT + BS
         /\ (k - NDIRECT - BS) \div BS = q /\ (k - NDIRECT - BS) % BS = r
<1> DEFINE k == NDIRECT + BS + BS * q + r
           Q == BS * q
           S == BS * BS
           T == BS * (BS - 1 - q)
<1>1. q \in Nat /\ r \in 0..(BS - 1) /\ BS - 1 - q \in Nat
  BY Numbers DEF Word
<1>2. Q \in Nat /\ T \in Nat /\ S = Q + BS + T
  BY <1>1, Numbers
<1>3. k = NDIRECT + BS + Q + r
  OBVIOUS
<1>4. (Q + r) \div BS = q /\ (Q + r) % BS = r
  <2>1. \A p \in Nat \ {0} : \A x \in Nat, y \in 0..(p - 1) : (p * x + y) \div p = x /\ (p * x + y) % p = y
    OBVIOUS
  <2> QED BY <1>1, <2>1, Numbers
<1>5. Limit = NDIRECT + BS + S
  BY DEF Limit
<1> HIDE DEF Q, S, T
<1>6. k \in NDIRECT..(Limit - 1) /\ k >= NDIRECT + BS /\ k - NDIRECT - BS = Q + r
  BY <1>1, <1>2, <1>3, <1>5, Numbers
<1> QED BY <1>4, <1>6

\* A tree whose index blocks are left alone.
LEMMA SameTree ==
  ASSUME NEW m, NEW m2, NEW p, \A b \in Tree(m, p) : m2[b] = m[b]
  PROVE  /\ Tree(m2, p) = Tree(m, p)
         /\ \A w \in Word : Look(m2, p[NDIRECT + 1], w) = Look(m, p[NDIRECT + 1], w)
         /\ \A k \in 0..(Limit - 1) : At(m2, p, k) = At(m, p, k)
<1>1. \A w \in Word : Look(m2, p[NDIRECT + 1], w) = Look(m, p[NDIRECT + 1], w)
  BY DEF Look, Tree
<1>2. Tree(m2, p) = Tree(m, p)
  BY <1>1 DEF Tree
<1>3. ASSUME NEW k \in 0..(Limit - 1) PROVE At(m2, p, k) = At(m, p, k)
  <2>1. CASE k < NDIRECT
    BY <2>1 DEF At
  <2>2. CASE ~(k < NDIRECT) /\ k < NDIRECT + BS
    <3>1. Look(m2, p[NDIRECT], k - NDIRECT) = Look(m, p[NDIRECT], k - NDIRECT)
      BY DEF Look, Tree
    <3> QED BY <2>2, <3>1 DEF At
  <2>3. CASE ~(k < NDIRECT) /\ ~(k < NDIRECT + BS)
    <3> DEFINE q == (k - NDIRECT - BS) \div BS
               r == (k - NDIRECT - BS) % BS
    <3>1. q \in Word
      <4>1. k >= NDIRECT + BS
        BY <2>3, LimitNat, Numbers
      <4> QED BY <4>1, Where
    <3>2. At(m2, p, k) = Look(m2, Look(m2, p[NDIRECT + 1], q), r)
          /\ At(m, p, k) = Look(m, Look(m, p[NDIRECT + 1], q), r)
      BY <2>3 DEF At
    <3> HIDE DEF q, r
    <3> DEFINE c == Look(m, p[NDIRECT + 1], q)
    <3>3. c # 0 => c \in Tree(m, p)
      BY <3>1 DEF Tree
    <3>4. Look(m2, p[NDIRECT + 1], q) = c
      BY <1>1, <3>1
    <3> HIDE DEF c
    <3>5. Look(m2, c, r) = Look(m, c, r)
      BY <3>3 DEF Look
    <3> QED BY <3>2, <3>4, <3>5 DEF c
  <2> QED BY <2>1, <2>2, <2>3
<1> QED BY <1>1, <1>2, <1>3

LEMMA SameShape ==
  ASSUME NEW u, NEW m, NEW p, Shape(u, m, p), NEW m2, DOMAIN m2 = Block,
         \A b \in Tree(m, p) : m2[b] = m[b], NEW u2, Tree(m, p) \subseteq u2
  PROVE  Shape(u2, m2, p)
<1>1. /\ Tree(m2, p) = Tree(m, p)
      /\ \A w \in Word : Look(m2, p[NDIRECT + 1], w) = Look(m, p[NDIRECT + 1], w)
  BY SameTree
<1>2. Apart(m2, p)
  BY <1>1 DEF Shape, Apart
<1> QED BY <1>1, <1>2 DEF Shape

\* A new index block b, full of zeros, takes its place in the tree: no pointer
\* to data changes.
Attached(u, m, p, b, m2, p2) ==
  /\ Shape(u \cup {b}, m2, p2) /\ Tree(m2, p2) = Tree(m, p) \cup {b}
  /\ \A c \in Block : c \notin Tree(m2, p2) => m2[c] = m[c]
  /\ \A k \in 0..(Limit - 1) : At(m2, p2, k) = At(m, p, k)

LEMMA ZerosAre == DOMAIN Zeros = Word /\ \A w \in Word : Zeros[w] = 0
BY DEF Zeros

LEMMA AttachSingle ==
  ASSUME NEW u, NEW m, NEW p, Shape(u, m, p), NEW b \in Block \ {0}, b \notin u, p[NDIRECT] = 0
  PROVE  Attached(u, m, p, b, [m EXCEPT ![b] = Zeros], [p EXCEPT ![NDIRECT] = b])
<1> DEFINE m2 == [m EXCEPT ![b] = Zeros]
           p2 == [p EXCEPT ![NDIRECT] = b]
<1>1. /\ DOMAIN m = Block /\ DOMAIN p = Slots /\ Tree(m, p) \subseteq u \cap Block /\ Apart(m, p)
      /\ \A c \in Tree(m, p) : DOMAIN m[c] = Word
  BY DEF Shape
<1>2. DOMAIN m2 = Block /\ m2[b] = Zeros /\ \A c \in Block : c # b => m2[c] = m[c]
  BY <1>1
<1>3. DOMAIN p2 = Slots /\ p2[NDIRECT] = b /\ p2[NDIRECT + 1] = p[NDIRECT + 1]
      /\ \A k \in Slots : k # NDIRECT => p2[k] = p[k]
  <2>1. NDIRECT # NDIRECT + 1
    BY Numbers
  <2> QED BY <1>1, <2>1, LimitNat
<1> HIDE DEF m2, p2
<1>4. \A c \in Tree(m, p) : c # b /\ m2[c] = m[c]
  BY <1>1, <1>2
<1>5. /\ \A w \in Word : Look(m2, p[NDIRECT + 1], w) = Look(m, p[NDIRECT + 1], w)
      /\ \A k \in 0..(Limit - 1) : At(m2, p, k) = At(m, p, k)
  <2>1. \A c \in Tree(m, p) : m2[c] = m[c]
    BY <1>4
  <2> QED BY <2>1, SameTree
<1>6. Tree(m2, p2) = Tree(m, p) \cup {b}
  <2> DEFINE S == {Look(m, p[NDIRECT + 1], w) : w \in Word}
  <2>1. {Look(m2, p[NDIRECT + 1], w) : w \in Word} = S
    BY <1>5
  <2>2. Tree(m2, p2) = ({b, p[NDIRECT + 1]} \cup S) \ {0}
    BY <1>3, <2>1 DEF Tree
  <2>3. Tree(m, p) = ({0, p[NDIRECT + 1]} \cup S) \ {0}
    BY DEF Tree
  <2> HIDE DEF S
  <2> QED BY <2>2, <2>3
<1>7. Apart(m2, p2)
  <2>1. p[NDIRECT + 1] # b
    BY <1>4 DEF Tree
  <2>2. \A w \in Word : Look(m, p[NDIRECT + 1], w) # b
    BY <1>4 DEF Tree
  <2> QED BY <1>1, <1>3, <1>5, <2>1, <2>2 DEF Apart
<1>8. Shape(u \cup {b}, m2, p2)
  BY <1>1, <1>2, <1>3, <1>4, <1>6, <1>7, ZerosAre DEF Shape
<1>9. ASSUME NEW k \in 0..(Limit - 1) PROVE At(m2, p2, k) = At(m, p, k)
  <2>1. CASE k < NDIRECT
    <3>1. k \in Slots /\ k # NDIRECT
      BY <2>1, Numbers DEF Slots
    <3> QED BY <1>3, <2>1, <3>1 DEF At
  <2>2. CASE ~(k < NDIRECT) /\ k < NDIRECT + BS
    <3>1. k - NDIRECT \in Word
      BY <2>2, LimitNat, Numbers DEF Word
    <3>2. Look(m2, b, k - NDIRECT) = 0 /\ Look(m, 0, k - NDIRECT) = 0
      BY <1>2, <3>1, ZerosAre DEF Look
    <3> QED BY <1>3, <2>2, <3>2 DEF At
  <2>3. CASE ~(k < NDIRECT) /\ ~(k < NDIRECT + BS)
    <3>1. At(m2, p2, k) = At(m2, p, k)
      BY <1>3, <2>3 DEF At
    <3> QED BY <1>5, <3>1
  <2> QED BY <2>1, <2>2, <2>3
<1>10. \A c \in Block : c \notin Tree(m2, p2) => m2[c] = m[c]
  BY <1>2, <1>6
<1> QED BY <1>6, <1>8, <1>9, <1>10 DEF Attached, m2, p2

LEMMA AttachDouble ==
  ASSUME NEW u, NEW m, NEW p, Shape(u, m, p), NEW b \in Block \ {0}, b \notin u, p[NDIRECT + 1] = 0
  PROVE  Attached(u, m, p, b, [m EXCEPT ![b] = Zeros], [p EXCEPT ![NDIRECT + 1] = b])
<1> DEFINE m2 == [m EXCEPT ![b] = Zeros]
           p2 == [p EXCEPT ![NDIRECT + 1] = b]
<1>1. /\ DOMAIN m = Block /\ DOMAIN p = Slots /\ Tree(m, p) \subseteq u \cap Block /\ Apart(m, p)
      /\ \A c \in Tree(m, p) : DOMAIN m[c] = Word
  BY DEF Shape
<1>2. DOMAIN m2 = Block /\ m2[b] = Zeros /\ \A c \in Block : c # b => m2[c] = m[c]
  BY <1>1
<1>3. DOMAIN p2 = Slots /\ p2[NDIRECT] = p[NDIRECT] /\ p2[NDIRECT + 1] = b
      /\ \A k \in Slots : k # NDIRECT + 1 => p2[k] = p[k]
  <2>1. NDIRECT # NDIRECT + 1
    BY Numbers
  <2> QED BY <1>1, <2>1, LimitNat
<1> HIDE DEF m2, p2
<1>4. \A c \in Tree(m, p) : c # b /\ m2[c] = m[c]
  BY <1>1, <1>2
<1>5. \A w \in Word : Look(m2, b, w) = 0 /\ Look(m, p[NDIRECT + 1], w) = 0
  BY <1>2, ZerosAre DEF Look
<1>6. Tree(m2, p2) = Tree(m, p) \cup {b}
  BY <1>3, <1>5 DEF Tree
<1>7. Apart(m2, p2)
  <2>1. p[NDIRECT] # b
    BY <1>4 DEF Tree
  <2> QED BY <1>3, <1>5, <2>1 DEF Apart
<1>8. Shape(u \cup {b}, m2, p2)
  BY <1>1, <1>2, <1>3, <1>4, <1>6, <1>7, ZerosAre DEF Shape
<1>9. ASSUME NEW k \in 0..(Limit - 1) PROVE At(m2, p2, k) = At(m, p, k)
  <2>1. CASE k < NDIRECT
    <3>1. k \in Slots /\ k # NDIRECT + 1
      BY <2>1, Numbers DEF Slots
    <3> QED BY <1>3, <2>1, <3>1 DEF At
  <2>2. CASE ~(k < NDIRECT) /\ k < NDIRECT + BS
    <3>1. Look(m2, p[NDIRECT], k - NDIRECT) = Look(m, p[NDIRECT], k - NDIRECT)
      BY <1>4 DEF Look, Tree
    <3> QED BY <1>3, <2>2, <3>1 DEF At
  <2>3. CASE ~(k < NDIRECT) /\ ~(k < NDIRECT + BS)
    <3> DEFINE q == (k - NDIRECT - BS) \div BS
               r == (k - NDIRECT - BS) % BS
    <3>1. q \in Word
      <4>1. k >= NDIRECT + BS
        BY <2>3, LimitNat, Numbers
      <4> QED BY <4>1, Where
    <3>2. At(m2, p2, k) = Look(m2, Look(m2, p2[NDIRECT + 1], q), r)
          /\ At(m, p, k) = Look(m, Look(m, p[NDIRECT + 1], q), r)
      BY <2>3 DEF At
    <3> HIDE DEF q, r
    <3> QED BY <1>3, <1>5, <3>1, <3>2 DEF Look
  <2> QED BY <2>1, <2>2, <2>3
<1>10. \A c \in Block : c \notin Tree(m2, p2) => m2[c] = m[c]
  BY <1>2, <1>6
<1> QED BY <1>6, <1>8, <1>9, <1>10 DEF Attached, m2, p2

LEMMA AttachSecond ==
  ASSUME NEW u, NEW m, NEW p, Shape(u, m, p), NEW b \in Block \ {0}, b \notin u,
         NEW a, a = p[NDIRECT + 1], a # 0, NEW q \in Word, m[a][q] = 0
  PROVE  LET m1 == [m EXCEPT ![b] = Zeros]
             m2 == [m1 EXCEPT ![a][q] = b]
         IN  Attached(u, m, p, b, m2, p) /\ Look(m2, a, q) = b
<1> DEFINE m1 == [m EXCEPT ![b] = Zeros]
           m2 == [m1 EXCEPT ![a][q] = b]
           row == [m1[a] EXCEPT ![q] = b]
<1>1. /\ DOMAIN m = Block /\ DOMAIN p = Slots /\ Tree(m, p) \subseteq u \cap Block /\ Apart(m, p)
      /\ \A c \in Tree(m, p) : DOMAIN m[c] = Word
  BY DEF Shape
<1>2. a \in Tree(m, p) /\ a \in Block /\ a # b /\ DOMAIN m[a] = Word
  BY <1>1 DEF Tree
<1>3. DOMAIN m1 = Block /\ m1[b] = Zeros /\ \A c \in Block : c # b => m1[c] = m[c]
  BY <1>1
<1>4. m2 = [m1 EXCEPT ![a] = row]
  OBVIOUS
<1>5. DOMAIN row = Word /\ row[q] = b /\ \A w \in Word : w # q => row[w] = m[a][w]
  BY <1>2, <1>3
<1> HIDE DEF m1, row, m2
<1>6. /\ DOMAIN m2 = Block /\ m2[a] = row /\ m2[b] = Zeros
      /\ \A c \in Block : c # a /\ c # b => m2[c] = m[c]
  BY <1>2, <1>3, <1>4
<1>7. \A w \in Word : Look(m2, a, w) = IF w = q THEN b ELSE Look(m, a, w)
  BY <1>5, <1>6 DEF Look
<1>8. Look(m, a, q) = 0
  BY DEF Look
<1>9. Tree(m2, p) = Tree(m, p) \cup {b}
  BY <1>7, <1>8 DEF Tree
<1>10. \A c \in Tree(m, p) : c # b
  BY <1>1
<1>11. Apart(m2, p)
  <2>1. p[NDIRECT] # b /\ a # b
    BY <1>2, <1>10 DEF Tree
  <2>2. \A w \in Word : Look(m, a, w) # b
    BY <1>10 DEF Tree
  <2> QED BY <1>1, <1>7, <1>8, <2>1, <2>2 DEF Apart
<1>12. \A c \in Tree(m, p) \cup {b} : DOMAIN m2[c] = Word
  BY <1>1, <1>5, <1>6, ZerosAre
<1>13. Shape(u \cup {b}, m2, p)
  BY <1>1, <1>6, <1>9, <1>11, <1>12 DEF Shape
<1>14. ASSUME NEW k \in 0..(Limit - 1) PROVE At(m2, p, k) = At(m, p, k)
  <2>1. CASE k < NDIRECT
    BY <2>1 DEF At
  <2>2. CASE ~(k < NDIRECT) /\ k < NDIRECT + BS
    <3>1. p[NDIRECT] # 0 => p[NDIRECT] \in Block /\ p[NDIRECT] # a /\ p[NDIRECT] # b
      BY <1>1, <1>10 DEF Tree, Apart
    <3>2. Look(m2, p[NDIRECT], k - NDIRECT) = Look(m, p[NDIRECT], k - NDIRECT)
      BY <1>6, <3>1 DEF Look
    <3> QED BY <2>2, <3>2 DEF At
  <2>3. CASE ~(k < NDIRECT) /\ ~(k < NDIRECT + BS)
    <3> DEFINE x == (k - NDIRECT - BS) \div BS
               r == (k - NDIRECT - BS) % BS
               c == Look(m, a, x)
    <3>1. x \in Word /\ r \in Word
      <4>1. k >= NDIRECT + BS
        BY <2>3, LimitNat, Numbers
      <4> QED BY <4>1, Where
    <3>2. At(m2, p, k) = Look(m2, Look(m2, a, x), r) /\ At(m, p, k) = Look(m, c, r)
      BY <2>3 DEF At
    <3> HIDE DEF x, r
    <3>3. CASE x = q
      <4>1. Look(m2, a, x) = b /\ c = 0
        BY <1>7, <1>8, <3>1, <3>3
      <4>2. Look(m2, b, r) = 0 /\ Look(m, 0, r) = 0
        BY <1>6, <3>1, ZerosAre DEF Look
      <4> HIDE DEF c
      <4> QED BY <3>2, <4>1, <4>2
    <3>4. CASE x # q
      <4>1. Look(m2, a, x) = c
        BY <1>7, <3>1, <3>4
      <4>2. c # 0 => c \in Tree(m, p) /\ c # a
        BY <1>1, <3>1 DEF Tree, Apart
      <4> HIDE DEF c
      <4>3. c # 0 => m2[c] = m[c]
        BY <1>1, <1>6, <1>10, <4>2
      <4>4. Look(m2, c, r) = Look(m, c, r)
        BY <4>3 DEF Look
      <4> QED BY <3>2, <4>1, <4>4
    <3> QED BY <3>3, <3>4
  <2> QED BY <2>1, <2>2, <2>3
<1>15. \A c \in Block : c \notin Tree(m2, p) => m2[c] = m[c]
  BY <1>2, <1>6, <1>9
<1>16. Attached(u, m, p, b, m2, p) /\ Look(m2, a, q) = b
  BY <1>7, <1>9, <1>13, <1>14, <1>15 DEF Attached
<1> QED BY <1>16 DEF m2, m1

\* Pointers of ptrs, from "from" on, become those of n blocks from block idx on.
Pointed(u, m, p, m2, p2, idx, n, ptrs, from) ==
  /\ Shape(u, m2, p2) /\ Tree(m2, p2) = Tree(m, p)
  /\ \A c \in Block : c \notin Tree(m2, p2) => m2[c] = m[c]
  /\ \A k \in 0..(Limit - 1) :
       At(m2, p2, k) = IF k >= idx /\ k < idx + n THEN ptrs[from + (k - idx)] ELSE At(m, p, k)

LEMMA PatchIs ==
  ASSUME NEW f, NEW to \in Int, NEW ptrs, NEW from \in Int, NEW n \in Nat, DOMAIN f \subseteq Int
  PROVE  /\ DOMAIN Patch(f, to, ptrs, from, n) = DOMAIN f
         /\ \A w \in DOMAIN f : Patch(f, to, ptrs, from, n)[w] =
              IF w >= to /\ w < to + n THEN ptrs[from + (w - to)] ELSE f[w]
<1>1. DOMAIN Patch(f, to, ptrs, from, n) = DOMAIN f
  BY DEF Patch
<1>2. ASSUME NEW w \in DOMAIN f
      PROVE  Patch(f, to, ptrs, from, n)[w] = IF w >= to /\ w < to + n THEN ptrs[from + (w - to)] ELSE f[w]
  <2>1. Patch(f, to, ptrs, from, n)[w] = IF w \in to..(to + n - 1) THEN ptrs[from + w - to] ELSE f[w]
    BY DEF Patch
  <2>2. w \in Int /\ (w \in to..(to + n - 1) <=> w >= to /\ w < to + n)
    OBVIOUS
  <2>3. from + w - to = from + (w - to)
    BY <2>2
  <2> QED BY <2>1, <2>2, <2>3
<1> QED BY <1>1, <1>2

LEMMA PutDirect ==
  ASSUME NEW u, NEW m, NEW p, Shape(u, m, p), NEW idx \in Nat, NEW n \in Nat, idx + n <= NDIRECT \/ n = 0,
         NEW ptrs
  PROVE  Pointed(u, m, p, m, Patch(p, idx, ptrs, 1, n), idx, n, ptrs, 1)
<1> DEFINE p2 == Patch(p, idx, ptrs, 1, n)
<1>1. DOMAIN p = Slots /\ DOMAIN p \subseteq Int /\ idx \in Int /\ 1 \in Int
  BY Numbers DEF Shape, Slots
<1>2. DOMAIN p2 = Slots /\ \A k \in Slots : p2[k] = IF k >= idx /\ k < idx + n THEN ptrs[1 + (k - idx)] ELSE p[k]
  <2>1. /\ DOMAIN p2 = DOMAIN p
        /\ \A k \in DOMAIN p : p2[k] = IF k >= idx /\ k < idx + n THEN ptrs[1 + (k - idx)] ELSE p[k]
    BY <1>1, PatchIs
  <2> QED BY <1>1, <2>1
<1> HIDE DEF p2
<1>3. p2[NDIRECT] = p[NDIRECT] /\ p2[NDIRECT + 1] = p[NDIRECT + 1]
  BY <1>2, LimitNat, Numbers
<1>4. Tree(m, p2) = Tree(m, p) /\ Apart(m, p2)
  BY <1>3 DEF Shape, Tree, Apart
<1>5. Shape(u, m, p2)
  BY <1>2, <1>4 DEF Shape
<1>6. ASSUME NEW k \in 0..(Limit - 1)
      PROVE  At(m, p2, k) = IF k >= idx /\ k < idx + n THEN ptrs[1 + (k - idx)] ELSE At(m, p, k)
  <2>1. CASE k < NDIRECT
    <3>1. k \in Slots
      BY <2>1, Numbers DEF Slots
    <3> QED BY <1>2, <2>1, <3>1 DEF At
  <2>2. CASE ~(k < NDIRECT)
    <3>1. At(m, p2, k) = At(m, p, k)
      BY <1>3, <2>2 DEF At
    <3>2. ~(k >= idx /\ k < idx + n)
      BY <2>2, LimitNat, Numbers
    <3> QED BY <3>1, <3>2
  <2> QED BY <2>1, <2>2
<1> QED BY <1>4, <1>5, <1>6 DEF Pointed, p2

LEMMA PutSingle ==
  ASSUME NEW u, NEW m, NEW p, Shape(u, m, p), NEW b, b = p[NDIRECT], b # 0,
         NEW idx \in Nat, NEW n \in Nat, idx >= NDIRECT, idx + n <= NDIRECT + BS, NEW ptrs, NEW from \in Int
  PROVE  Pointed(u, m, p, [m EXCEPT ![b] = Patch(m[b], idx - NDIRECT, ptrs, from, n)], p, idx, n, ptrs, from)
<1> DEFINE row == Patch(m[b], idx - NDIRECT, ptrs, from, n)
           m2 == [m EXCEPT ![b] = row]
<1>1. /\ DOMAIN m = Block /\ DOMAIN p = Slots /\ Tree(m, p) \subseteq u \cap Block /\ Apart(m, p)
      /\ \A c \in Tree(m, p) : DOMAIN m[c] = Word
  BY DEF Shape
<1>2. b \in Tree(m, p) /\ b \in Block /\ DOMAIN m[b] = Word
  BY <1>1 DEF Tree
<1>3. /\ DOMAIN row = Word
      /\ \A w \in Word : row[w] = IF w >= idx - NDIRECT /\ w < (idx - NDIRECT) + n
                                  THEN ptrs[from + (w - (idx - NDIRECT))] ELSE m[b][w]
  <2>1. idx - NDIRECT \in Int /\ DOMAIN m[b] \subseteq Int
    BY <1>2, Numbers DEF Word
  <2>2. /\ DOMAIN row = DOMAIN m[b]
        /\ \A w \in DOMAIN m[b] : row[w] = IF w >= idx - NDIRECT /\ w < (idx - NDIRECT) + n
                                           THEN ptrs[from + (w - (idx - NDIRECT))] ELSE m[b][w]
    BY <2>1, PatchIs
  <2> QED BY <1>2, <2>2
<1> HIDE DEF row
<1>4. DOMAIN m2 = Block /\ m2[b] = row /\ \A c \in Block : c # b => m2[c] = m[c]
  BY <1>1, <1>2
<1> HIDE DEF m2
<1>5. \A w \in Word : Look(m2, p[NDIRECT + 1], w) = Look(m, p[NDIRECT + 1], w)
  <2>1. p[NDIRECT + 1] # 0 => p[NDIRECT + 1] # b /\ p[NDIRECT + 1] \in Block
    BY <1>1 DEF Tree, Apart
  <2> QED BY <1>4, <2>1 DEF Look
<1>6. Tree(m2, p) = Tree(m, p)
  BY <1>5 DEF Tree
<1>7. Shape(u, m2, p)
  <2>1. Apart(m2, p)
    BY <1>1, <1>5 DEF Apart
  <2>2. \A c \in Tree(m, p) : DOMAIN m2[c] = Word
    BY <1>1, <1>3, <1>4
  <2> QED BY <1>1, <1>4, <1>6, <2>1, <2>2 DEF Shape
<1>8. ASSUME NEW k \in 0..(Limit - 1)
      PROVE  At(m2, p, k) = IF k >= idx /\ k < idx + n THEN ptrs[from + (k - idx)] ELSE At(m, p, k)
  <2>1. CASE k < NDIRECT
    <3>1. ~(k >= idx)
      BY <2>1, Numbers
    <3> QED BY <2>1, <3>1 DEF At
  <2>2. CASE ~(k < NDIRECT) /\ k < NDIRECT + BS
    <3> DEFINE w == k - NDIRECT
    <3>1. w \in Word /\ k = w + NDIRECT
      BY <2>2, LimitNat, Numbers DEF Word
    <3>2. At(m2, p, k) = row[w] /\ At(m, p, k) = m[b][w]
      BY <1>4, <2>2 DEF At, Look
    <3> HIDE DEF w
    <3>3. (k >= idx <=> w >= idx - NDIRECT) /\ (k < idx + n <=> w < (idx - NDIRECT) + n)
          /\ w - (idx - NDIRECT) = k - idx
      BY <3>1, Numbers DEF Word
    <3> QED BY <1>3, <3>1, <3>2, <3>3
  <2>3. CASE ~(k < NDIRECT) /\ ~(k < NDIRECT + BS)
    <3> DEFINE x == (k - NDIRECT - BS) \div BS
               r == (k - NDIRECT - BS) % BS
               c == Look(m, p[NDIRECT + 1], x)
    <3>0. k >= NDIRECT + BS
      BY <2>3, LimitNat, Numbers
    <3>1. x \in Word
      BY <3>0, Where
    <3>2. At(m2, p, k) = Look(m2, Look(m2, p[NDIRECT + 1], x), r) /\ At(m, p, k) = Look(m, c, r)
      BY <2>3 DEF At
    <3> HIDE DEF x, r
    <3>3. Look(m2, p[NDIRECT + 1], x) = c
      BY <1>5, <3>1
    <3>4. c # 0 => c \in Tree(m, p) /\ c # b
      BY <1>1, <3>1 DEF Tree, Apart
    <3> HIDE DEF c
    <3>5. Look(m2, c, r) = Look(m, c, r)
      BY <1>1, <1>4, <3>4 DEF Look
    <3>6. ~(k < idx + n)
      BY <3>0, LimitNat, Numbers
    <3> QED BY <3>2, <3>3, <3>5, <3>6
  <2> QED BY <2>1, <2>2, <2>3
<1>9. \A c \in Block : c \notin Tree(m2, p) => m2[c] = m[c]
  BY <1>2, <1>4, <1>6
<1> QED BY <1>6, <1>7, <1>8, <1>9 DEF Pointed, m2, row

LEMMA PutUnderSecond ==
  ASSUME NEW u, NEW m, NEW p, Shape(u, m, p), NEW q \in Word, NEW r \in Word,
         NEW idx, idx = NDIRECT + BS + BS * q + r, NEW b, b = Look(m, p[NDIRECT + 1], q), b # 0,
         NEW n \in Nat, n <= BS - r, NEW ptrs, NEW from \in Int
  PROVE  Pointed(u, m, p, [m EXCEPT ![b] = Patch(m[b], r, ptrs, from, n)], p, idx, n, ptrs, from)
<1> DEFINE row == Patch(m[b], r, ptrs, from, n)
           m2 == [m EXCEPT ![b] = row]
<1>0. idx \in Nat /\ idx >= NDIRECT + BS
  <2>1. BS * q \in Nat /\ r \in Nat
    BY Numbers DEF Word
  <2> QED BY <2>1, Numbers
<1>1. /\ DOMAIN m = Block /\ DOMAIN p = Slots /\ Tree(m, p) \subseteq u \cap Block /\ Apart(m, p)
      /\ \A c \in Tree(m, p) : DOMAIN m[c] = Word
  BY DEF Shape
<1>2. b \in Tree(m, p) /\ b \in Block /\ DOMAIN m[b] = Word /\ b # p[NDIRECT] /\ b # p[NDIRECT + 1]
  BY <1>0, <1>1 DEF Tree, Apart
<1>3. /\ DOMAIN row = Word
      /\ \A w \in Word : row[w] = IF w >= r /\ w < r + n THEN ptrs[from + (w - r)] ELSE m[b][w]
  <2>1. r \in Int /\ DOMAIN m[b] \subseteq Int
    BY <1>0, <1>2, Numbers DEF Word
  <2>2. /\ DOMAIN row = DOMAIN m[b]
        /\ \A w \in DOMAIN m[b] : row[w] = IF w >= r /\ w < r + n THEN ptrs[from + (w - r)] ELSE m[b][w]
    BY <2>1, PatchIs
  <2> QED BY <1>2, <2>2
<1> HIDE DEF row
<1>4. DOMAIN m2 = Block /\ m2[b] = row /\ \A c \in Block : c # b => m2[c] = m[c]
  BY <1>1, <1>2
<1> HIDE DEF m2
<1>5. \A w \in Word : Look(m2, p[NDIRECT + 1], w) = Look(m, p[NDIRECT + 1], w)
  <2>1. p[NDIRECT + 1] # 0 => p[NDIRECT + 1] # b /\ p[NDIRECT + 1] \in Block
    BY <1>1, <1>2 DEF Tree
  <2> QED BY <1>4, <2>1 DEF Look
<1>6. Tree(m2, p) = Tree(m, p)
  BY <1>5 DEF Tree
<1>7. Shape(u, m2, p)
  <2>1. Apart(m2, p)
    BY <1>1, <1>5 DEF Apart
  <2>2. \A c \in Tree(m, p) : DOMAIN m2[c] = Word
    BY <1>1, <1>3, <1>4
  <2> QED BY <1>1, <1>4, <1>6, <2>1, <2>2 DEF Shape
<1>8. ASSUME NEW k \in 0..(Limit - 1)
      PROVE  At(m2, p, k) = IF k >= idx /\ k < idx + n THEN ptrs[from + (k - idx)] ELSE At(m, p, k)
  <2>1. CASE k < NDIRECT
    <3>1. ~(k >= idx)
      BY <1>0, <2>1, Numbers
    <3> QED BY <2>1, <3>1 DEF At
  <2>2. CASE ~(k < NDIRECT) /\ k < NDIRECT + BS
    <3>1. p[NDIRECT] # 0 => p[NDIRECT] \in Block /\ p[NDIRECT] # b
      BY <1>1, <1>2 DEF Tree
    <3>2. Look(m2, p[NDIRECT], k - NDIRECT) = Look(m, p[NDIRECT], k - NDIRECT)
      BY <1>4, <3>1 DEF Look
    <3>3. ~(k >= idx)
      BY <1>0, <2>2, LimitNat, Numbers
    <3> QED BY <2>2, <3>2, <3>3 DEF At
  <2>3. CASE ~(k < NDIRECT) /\ ~(k < NDIRECT + BS)
    <3> DEFINE x == (k - NDIRECT - BS) \div BS
               y == (k - NDIRECT - BS) % BS
               c == Look(m, p[NDIRECT + 1], x)
    <3>0. k >= NDIRECT + BS
      BY <2>3, LimitNat, Numbers
    <3>1. x \in Word /\ y \in Word /\ k = NDIRECT + BS + BS * x + y
      BY <3>0, Where
    <3>2. At(m2, p, k) = Look(m2, Look(m2, p[NDIRECT + 1], x), y) /\ At(m, p, k) = Look(m, c, y)
      BY <2>3 DEF At
    <3> HIDE DEF x, y
    <3>3. Look(m2, p[NDIRECT + 1], x) = c
      BY <1>5, <3>1
    <3>4. CASE x = q
      <4>1. c = b
        BY <1>0, <3>4
      <4>2. At(m2, p, k) = row[y] /\ At(m, p, k) = m[b][y]
        BY <1>4, <3>2, <3>3, <4>1 DEF Look
      <4> DEFINE Q == BS * q
      <4>3. Q \in Int /\ k = NDIRECT + BS + Q + y /\ idx = NDIRECT + BS + Q + r /\ y \in Int /\ r \in Int
        BY <1>0, <3>1, <3>4, Numbers DEF Word
      <4> HIDE DEF Q
      <4>4. (k >= idx <=> y >= r) /\ (k < idx + n <=> y < r + n) /\ k - idx = y - r
        BY <4>3, Numbers
      <4> QED BY <1>3, <3>1, <4>2, <4>4
    <3>5. CASE x # q
      <4>1. c # 0 => c \in Tree(m, p) /\ c # b
        BY <1>0, <1>1, <3>1, <3>5 DEF Tree, Apart
      <4> HIDE DEF c
      <4>2. Look(m2, c, y) = Look(m, c, y)
        BY <1>1, <1>4, <4>1 DEF Look
      <4>3. ~(k >= idx /\ k < idx + n)
        <5>1. x \in Int /\ q \in Int /\ y \in 0..(BS - 1) /\ r \in 0..(BS - 1)
          BY <1>0, <3>1, Numbers DEF Word
        <5> DEFINE Q == BS * q
                   X == BS * x
                   D == BS * (x - q - 1)
                   F == BS * (q - x - 1)
        <5>2. CASE x > q
          <6>1. X = Q + BS + D /\ D \in Nat /\ X \in Int /\ Q \in Int
            BY <5>1, <5>2, Numbers
          <6>2. k = NDIRECT + BS + X + y /\ idx = NDIRECT + BS + Q + r
            BY <1>0, <3>1
          <6> HIDE DEF X, Q, D, F
          <6> QED BY <1>0, <5>1, <6>1, <6>2, Numbers
        <5>3. CASE q > x
          <6>1. Q = X + BS + F /\ F \in Nat /\ X \in Int /\ Q \in Int
            BY <5>1, <5>3, Numbers
          <6>2. k = NDIRECT + BS + X + y /\ idx = NDIRECT + BS + Q + r
            BY <1>0, <3>1
          <6> HIDE DEF X, Q, D, F
          <6> QED BY <1>0, <5>1, <6>1, <6>2, Numbers
        <5> QED BY <3>5, <5>1, <5>2, <5>3
      <4> QED BY <3>2, <3>3, <4>2, <4>3
    <3> QED BY <3>4, <3>5
  <2> QED BY <2>1, <2>2, <2>3
<1>9. \A c \in Block : c \notin Tree(m2, p) => m2[c] = m[c]
  BY <1>2, <1>4, <1>6
<1> QED BY <1>6, <1>7, <1>8, <1>9 DEF Pointed, m2, row

-----------------------------------------------------------------------------
(* write_block_pointers *)

\* From volume v and pointers p to volume w and pointers p2: the first "done" of
\* ptrs lead to blocks idx and on, and new blocks are index blocks.
Wrote(v, p, idx, ptrs, w, p2, done) ==
  /\ SameInodes(v, w) /\ v.used \subseteq w.used
  /\ Shape(w.used, w.data, p2)
  /\ Tree(v.data, p) \subseteq Tree(w.data, p2)
  /\ Tree(w.data, p2) \subseteq Tree(v.data, p) \cup (Block \ v.used)
  /\ \A c \in Block : c \notin Tree(w.data, p2) => w.data[c] = v.data[c]
  /\ done \in 0..Len(ptrs) /\ (done > 0 => idx + done <= Limit)
  /\ \A k \in 0..(Limit - 1) :
       At(w.data, p2, k) = IF k >= idx /\ k < idx + done THEN ptrs[1 + (k - idx)] ELSE At(v.data, p, k)
\* No block in use changed.
Kept(v, w) == \A c \in v.used \cap Block : w.data[c] = v.data[c]

LEMMA DataIs ==
  ASSUME NEW v, IsVolume(v), NEW x
  PROVE  LET w == [v EXCEPT !.data = x] IN SameInodes(v, w) /\ w.data = x /\ w.used = v.used
<1> DEFINE w == [v EXCEPT !.data = x]
<1>1. w = [used |-> v.used, bg_blocks |-> v.bg_blocks, sb_blocks |-> v.sb_blocks,
           inodes_used |-> v.inodes_used, bg_inodes |-> v.bg_inodes, sb_inodes |-> v.sb_inodes,
           bg_dirs |-> v.bg_dirs, inode |-> v.inode, data |-> x]
  BY DEF IsVolume
<1> HIDE DEF w
<1> QED BY <1>1 DEF SameInodes, IsVolume, w

LEMMA SameInodesOn == ASSUME NEW u, NEW v, NEW w, SameInodes(u, v), SameInodes(v, w) PROVE SameInodes(u, w)
BY DEF SameInodes

LEMMA WroteNothing ==
  ASSUME NEW v, IsVolume(v), NEW p, Shape(v.used, v.data, p), NEW idx \in Nat, NEW ptrs, Len(ptrs) \in Nat
  PROVE  Wrote(v, p, idx, ptrs, v, p, 0)
<1>1. \A k \in 0..(Limit - 1) : ~(k >= idx /\ k < idx + 0)
  BY LimitNat
<1> QED BY <1>1 DEF Wrote, SameInodes

LEMMA WroteAttached ==
  ASSUME NEW v, NEW p, NEW idx, NEW ptrs, NEW w, NEW p1, NEW done, Wrote(v, p, idx, ptrs, w, p1, done),
         NEW b \in Block \ {0}, b \notin w.used, NEW w2, NEW p2, SameInodes(w, w2), w2.used = w.used \cup {b},
         Attached(w.used, w.data, p1, b, w2.data, p2)
  PROVE  Wrote(v, p, idx, ptrs, w2, p2, done)
<1>1. SameInodes(v, w2) /\ v.used \subseteq w2.used
  BY SameInodesOn DEF Wrote
<1>2. Tree(w2.data, p2) = Tree(w.data, p1) \cup {b} /\ b \notin v.used
  BY DEF Wrote, Attached
<1>3. \A c \in Block : c \notin Tree(w2.data, p2) => w2.data[c] = v.data[c]
  BY <1>2 DEF Wrote, Attached
<1>4. Shape(w2.used, w2.data, p2)
  BY DEF Attached
<1>5. ASSUME NEW k \in 0..(Limit - 1)
      PROVE  At(w2.data, p2, k) = IF k >= idx /\ k < idx + done THEN ptrs[1 + (k - idx)] ELSE At(v.data, p, k)
  <2>1. At(w2.data, p2, k) = At(w.data, p1, k)
    BY DEF Attached
  <2> QED BY <2>1 DEF Wrote
<1> QED BY <1>1, <1>2, <1>3, <1>4, <1>5 DEF Wrote

LEMMA WrotePointed ==
  ASSUME NEW v, NEW p, NEW idx \in Nat, NEW ptrs, Len(ptrs) \in Nat, NEW w, NEW p1, NEW done,
         Wrote(v, p, idx, ptrs, w, p1, done),
         NEW n \in Nat, done + n <= Len(ptrs), n > 0 => idx + done + n <= Limit,
         NEW w2, NEW p2, SameInodes(w, w2), w2.used = w.used,
         Pointed(w.used, w.data, p1, w2.data, p2, idx + done, n, ptrs, 1 + done)
  PROVE  Wrote(v, p, idx, ptrs, w2, p2, done + n)
<1>0. done \in Nat /\ (done > 0 => idx + done <= Limit)
  BY DEF Wrote
<1>1. SameInodes(v, w2) /\ v.used \subseteq w2.used
  BY SameInodesOn DEF Wrote
<1>2. Tree(w2.data, p2) = Tree(w.data, p1) /\ Shape(w2.used, w2.data, p2)
  BY DEF Pointed
<1>3. \A c \in Block : c \notin Tree(w2.data, p2) => w2.data[c] = v.data[c]
  BY <1>2 DEF Wrote, Pointed
<1>4. done + n \in 0..Len(ptrs) /\ (done + n > 0 => idx + (done + n) <= Limit)
  BY <1>0, LimitNat
<1>5. ASSUME NEW k \in 0..(Limit - 1)
      PROVE  At(w2.data, p2, k) = IF k >= idx /\ k < idx + (done + n) THEN ptrs[1 + (k - idx)] ELSE At(v.data, p, k)
  <2>1. k \in Int
    BY LimitNat
  <2>2. At(w2.data, p2, k) = IF k >= idx + done /\ k < (idx + done) + n THEN ptrs[(1 + done) + (k - (idx + done))]
                             ELSE At(w.data, p1, k)
    BY DEF Pointed
  <2>3. At(w.data, p1, k) = IF k >= idx /\ k < idx + done THEN ptrs[1 + (k - idx)] ELSE At(v.data, p, k)
    BY DEF Wrote
  <2>4. (1 + done) + (k - (idx + done)) = 1 + (k - idx)
    BY <1>0, <2>1
  <2>5. k >= idx /\ k < idx + (done + n) <=> (k >= idx /\ k < idx + done) \/ (k >= idx + done /\ k < (idx + done) + n)
    BY <1>0, <2>1
  <2>6. ~((k >= idx /\ k < idx + done) /\ (k >= idx + done /\ k < (idx + done) + n))
    BY <1>0, <2>1
  <2> QED BY <2>2, <2>3, <2>4, <2>5, <2>6
<1>6. Tree(v.data, p) \subseteq Tree(w2.data, p2) /\ Tree(w2.data, p2) \subseteq Tree(v.data, p) \cup (Block \ v.used)
  BY <1>2 DEF Wrote
<1> QED BY <1>1, <1>2, <1>3, <1>4, <1>5, <1>6 DEF Wrote

\* An index block that is there, or a new one.
LEMMA NewIndex ==
  ASSUME NEW v, IsVolume(v), Reserved(v.used), NEW p
  PROVE  LET a == IndexBlock(v, p) IN
         /\ SameInodes(v, a.vol)
         /\ p # 0 => a.num = p /\ a.vol = v
         /\ p = 0 => \/ a.num = 0 /\ a.vol = v
                     \/ /\ a.num \in Block \ {0} /\ a.num \notin v.used
                        /\ a.vol.used = v.used \cup {a.num} /\ a.vol.data = [v.data EXCEPT ![a.num] = Zeros]
<1> DEFINE a == AllocateBlock(v)
           i == IndexBlock(v, p)
<1>1. /\ a = [vol |-> a.vol, num |-> a.num]
      /\ SameInodes(v, a.vol) /\ a.vol.data = v.data
      /\ \/ a.num = 0 /\ a.vol = v
         \/ a.num \in Block \ {0} /\ a.num \notin v.used /\ a.vol.used = v.used \cup {a.num}
  BY FreshBlock
<1> HIDE DEF a
<1>2. CASE p # 0
  <2>1. i = [vol |-> v, num |-> p]
    BY <1>2 DEF IndexBlock
  <2> QED BY <1>2, <2>1 DEF SameInodes
<1>3. CASE p = 0 /\ a.num = 0
  <2>1. i = a
    BY <1>3 DEF IndexBlock, a
  <2> QED BY <1>1, <1>3, <2>1
<1>4. CASE p = 0 /\ a.num # 0
  <2> DEFINE x == [a.vol.data EXCEPT ![a.num] = Zeros]
             w == [a.vol EXCEPT !.data = x]
  <2>1. i = [a EXCEPT !.vol = w]
    BY <1>4 DEF IndexBlock, a
  <2>2. x = [v.data EXCEPT ![a.num] = Zeros]
    BY <1>1
  <2> HIDE DEF x
  <2>3. SameInodes(a.vol, w) /\ w.data = x /\ w.used = a.vol.used
    BY <1>1, DataIs DEF SameInodes
  <2> HIDE DEF w, i
  <2>4. i = [vol |-> w, num |-> a.num]
    BY <1>1, <2>1
  <2>5. SameInodes(v, w)
    BY <1>1, <2>3, SameInodesOn
  <2>6. i.vol = w /\ i.num = a.num
    BY <2>4
  <2> QED BY <1>1, <1>4, <2>2, <2>3, <2>5, <2>6 DEF i
<1> QED BY <1>2, <1>3, <1>4

\* What a part of write_block_pointers hands to the next.
InodeLike(x, y) == y = [mode |-> x.mode, size |-> x.size, links |-> x.links, block |-> y.block]
Writing(v, x, idx, ptrs, s) ==
  /\ s = [vol |-> s.vol, inode |-> s.inode, idx |-> s.idx, left |-> s.left, from |-> s.from, full |-> s.full]
  /\ InodeLike(x, s.inode) /\ s.full \in BOOLEAN
  /\ s.from \in Nat \ {0} /\ s.left = Len(ptrs) - (s.from - 1)
  /\ Wrote(v, x.block, idx, ptrs, s.vol, s.inode.block, s.from - 1)
  /\ s.from = 1 => Kept(v, s.vol)
OnTrack(idx, s) == s.idx = idx + (s.from - 1)

LEMMA WritingOn ==
  ASSUME NEW v, NEW x, NEW idx, NEW ptrs, NEW s, Writing(v, x, idx, ptrs, s), Len(ptrs) \in Nat,
         NEW w, NEW p, NEW n \in Nat, NEW i, NEW full \in BOOLEAN,
         Wrote(v, x.block, idx, ptrs, w, p, (s.from - 1) + n), s.from + n = 1 => Kept(v, w)
  PROVE  Writing(v, x, idx, ptrs, [vol |-> w, inode |-> [s.inode EXCEPT !.block = p], idx |-> i,
                                   left |-> s.left - n, from |-> s.from + n, full |-> full])
<1> DEFINE y == [s.inode EXCEPT !.block = p]
           l == s.left - n
           f == s.from + n
           t == [vol |-> w, inode |-> y, idx |-> i, left |-> l, from |-> f, full |-> full]
<1>1. y = [mode |-> x.mode, size |-> x.size, links |-> x.links, block |-> p]
  <2>1. s.inode = [mode |-> x.mode, size |-> x.size, links |-> x.links, block |-> s.inode.block]
    BY DEF Writing, InodeLike
  <2> QED BY <2>1
<1>2. f \in Nat \ {0} /\ l = Len(ptrs) - (f - 1) /\ f - 1 = (s.from - 1) + n
  BY DEF Writing
<1> HIDE DEF y, l, f
<1>3. InodeLike(x, y) /\ y.block = p
  BY <1>1 DEF InodeLike
<1>4. f = 1 => Kept(v, w)
  BY DEF f
<1>5. Writing(v, x, idx, ptrs, t)
  BY <1>2, <1>3, <1>4 DEF Writing
<1> QED BY <1>5 DEF y, l, f

LEMMA WritingFull ==
  ASSUME NEW v, NEW x, NEW idx, NEW ptrs, NEW s, Writing(v, x, idx, ptrs, s)
  PROVE  LET t == [s EXCEPT !.full = TRUE] IN Writing(v, x, idx, ptrs, t) /\ t.full /\ t.left = s.left
<1> DEFINE yes == TRUE
           t == [s EXCEPT !.full = yes]
<1>0. yes \in BOOLEAN /\ yes = TRUE
  OBVIOUS
<1> HIDE DEF yes
<1>1. t = [vol |-> s.vol, inode |-> s.inode, idx |-> s.idx, left |-> s.left, from |-> s.from, full |-> yes]
  <2>1. s = [vol |-> s.vol, inode |-> s.inode, idx |-> s.idx, left |-> s.left, from |-> s.from, full |-> s.full]
    BY DEF Writing
  <2> QED BY <2>1
<1> HIDE DEF t
<1>2. /\ t.vol = s.vol /\ t.inode = s.inode /\ t.left = s.left /\ t.from = s.from /\ t.full = yes
      /\ t = [vol |-> t.vol, inode |-> t.inode, idx |-> t.idx, left |-> t.left, from |-> t.from, full |-> t.full]
  BY <1>1
<1>3. Writing(v, x, idx, ptrs, t)
  BY <1>0, <1>2 DEF Writing
<1>4. t.full
  BY <1>0, <1>2
<1>5. Writing(v, x, idx, ptrs, t) /\ t.full /\ t.left = s.left
  BY <1>2, <1>3, <1>4
<1> QED BY <1>5 DEF t, yes

\* The context of a call: a sound tree, and pointers to write from block idx on.
Writable(v, x, idx, ptrs) ==
  /\ IsVolume(v) /\ Reserved(v.used) /\ IsInode(x) /\ Shape(v.used, v.data, x.block)
  /\ idx \in Nat /\ Len(ptrs) \in Nat

LEMMA WriteDirectWrites ==
  ASSUME NEW v, NEW x, NEW idx, NEW ptrs, Writable(v, x, idx, ptrs)
  PROVE  LET s == [vol |-> v, inode |-> x, idx |-> idx, left |-> Len(ptrs), from |-> 1, full |-> FALSE]
             t == WriteDirect(s, ptrs)
         IN  Writing(v, x, idx, ptrs, t) /\ OnTrack(idx, t) /\ (t.left = 0 \/ t.idx >= NDIRECT) /\ ~t.full
<1> DEFINE s == [vol |-> v, inode |-> x, idx |-> idx, left |-> Len(ptrs), from |-> 1, full |-> FALSE]
           n == IF s.idx < NDIRECT THEN Least(s.left, NDIRECT - s.idx) ELSE 0
           p == Patch(x.block, idx, ptrs, 1, n)
           t == WriteDirect(s, ptrs)
<1>0. s.vol = v /\ s.inode = x /\ s.idx = idx /\ s.left = Len(ptrs) /\ s.from = 1 /\ s.full = FALSE
      /\ s = [vol |-> s.vol, inode |-> s.inode, idx |-> s.idx, left |-> s.left, from |-> s.from, full |-> s.full]
  OBVIOUS
<1>1. t = [s EXCEPT !.inode = [s.inode EXCEPT !.block = Patch(s.inode.block, s.idx, ptrs, 1, n)],
                    !.idx = s.idx + n, !.left = s.left - n, !.from = s.from + n]
  BY DEF WriteDirect
<1> HIDE DEF s
<1>2. /\ n \in Nat /\ n <= Len(ptrs) /\ (idx + n <= NDIRECT \/ n = 0)
      /\ (n = Len(ptrs) \/ idx + n >= NDIRECT)
  BY <1>0, Numbers DEF Least, Writable
<1> HIDE DEF n, t
<1>3. t = [vol |-> s.vol, inode |-> [s.inode EXCEPT !.block = p], idx |-> s.idx + n, left |-> s.left - n,
           from |-> s.from + n, full |-> s.full]
  BY <1>0, <1>1
<1>4. Writing(v, x, idx, ptrs, s)
  <2>1. Wrote(v, x.block, idx, ptrs, v, x.block, 0)
    BY WroteNothing DEF Writable
  <2>2. InodeLike(x, x) /\ Kept(v, v) /\ Len(ptrs) = Len(ptrs) - (1 - 1)
    BY DEF Writable, IsInode, InodeLike, Kept
  <2>3. s.full \in BOOLEAN
    BY <1>0
  <2>4. s.from \in Nat \ {0} /\ s.left = Len(ptrs) - (s.from - 1) /\ s.from - 1 = 0
    BY <1>0, <2>2
  <2>5. InodeLike(x, s.inode) /\ Kept(v, s.vol) /\ Wrote(v, x.block, idx, ptrs, s.vol, s.inode.block, s.from - 1)
    BY <1>0, <2>1, <2>2, <2>4
  <2> QED BY <1>0, <2>3, <2>4, <2>5 DEF Writing
<1>5. Wrote(v, x.block, idx, ptrs, v, p, 0 + n)
  <2>1. Wrote(v, x.block, idx, ptrs, v, x.block, 0)
    BY WroteNothing DEF Writable
  <2>2. Pointed(v.used, v.data, x.block, v.data, p, idx, n, ptrs, 1)
    BY <1>2, PutDirect DEF Writable
  <2>3. idx + 0 = idx /\ 1 + 0 = 1 /\ 0 + n <= Len(ptrs) /\ (n > 0 => idx + 0 + n <= Limit)
        /\ idx \in Nat /\ Len(ptrs) \in Nat
    BY <1>2, LimitNat, Numbers DEF Writable
  <2>4. SameInodes(v, v)
    BY DEF Writable, SameInodes
  <2> HIDE DEF p
  <2>5. Pointed(v.used, v.data, x.block, v.data, p, idx + 0, n, ptrs, 1 + 0)
    BY <2>2, <2>3
  <2> QED BY <1>2, <2>1, <2>3, <2>4, <2>5, WrotePointed
<1>6. (s.from - 1) + n = 0 + n /\ (s.from + n = 1 => Kept(v, v)) /\ FALSE \in BOOLEAN /\ Len(ptrs) \in Nat
  BY <1>0 DEF Kept, Writable
<1> HIDE DEF p
<1>7. Writing(v, x, idx, ptrs, t)
  <2> DEFINE w == s.vol
             full == s.full
             i == s.idx + n
  <2>1. Wrote(v, x.block, idx, ptrs, w, p, (s.from - 1) + n) /\ full \in BOOLEAN /\ (s.from + n = 1 => Kept(v, w))
    BY <1>0, <1>5, <1>6
  <2>2. t = [vol |-> w, inode |-> [s.inode EXCEPT !.block = p], idx |-> i, left |-> s.left - n,
             from |-> s.from + n, full |-> full]
    BY <1>3
  <2> HIDE DEF w, full, i
  <2> QED BY <1>2, <1>4, <1>6, <2>1, <2>2, WritingOn
<1>8. OnTrack(idx, t) /\ (t.left = 0 \/ t.idx >= NDIRECT) /\ ~t.full
  BY <1>0, <1>2, <1>3 DEF OnTrack, Writable
<1> QED BY <1>7, <1>8 DEF t, s

\* The same pointers, written once more.
LEMMA SamePointers ==
  ASSUME NEW u, NEW m, NEW p, Shape(u, m, p), NEW m2, NEW p2, DOMAIN m2 = Block, DOMAIN p2 = Slots,
         \A k \in Slots : p2[k] = p[k],
         \A c \in Tree(m, p) : DOMAIN m2[c] = Word /\ \A w \in Word : m2[c][w] = m[c][w],
         \A c \in Block : c \notin Tree(m, p) => m2[c] = m[c], NEW idx \in Nat, NEW ptrs, NEW from
  PROVE  Pointed(u, m, p, m2, p2, idx, 0, ptrs, from)
<1>1. p2[NDIRECT] = p[NDIRECT] /\ p2[NDIRECT + 1] = p[NDIRECT + 1]
  BY LimitNat
<1>2. \A c \in Tree(m, p) \cup {0} : \A w \in Word : Look(m2, c, w) = Look(m, c, w)
  BY DEF Look
<1>3. p[NDIRECT] \in Tree(m, p) \cup {0} /\ p[NDIRECT + 1] \in Tree(m, p) \cup {0}
      /\ \A w \in Word : Look(m, p[NDIRECT + 1], w) \in Tree(m, p) \cup {0}
  BY DEF Tree
<1>4. \A w \in Word : Look(m2, p2[NDIRECT + 1], w) = Look(m, p[NDIRECT + 1], w)
  BY <1>1, <1>2, <1>3
<1>5. Tree(m2, p2) = Tree(m, p)
  BY <1>1, <1>4 DEF Tree
<1>6. Apart(m2, p2)
  BY <1>1, <1>4 DEF Apart, Shape
<1>7. Shape(u, m2, p2)
  BY <1>5, <1>6 DEF Shape
<1>8. ASSUME NEW k \in 0..(Limit - 1) PROVE At(m2, p2, k) = At(m, p, k)
  <2>0. k \in Nat
    BY LimitNat
  <2>1. CASE k < NDIRECT
    <3>1. k \in Slots
      BY <2>0, <2>1, Numbers DEF Slots
    <3> QED BY <2>1, <3>1 DEF At
  <2>2. CASE k >= NDIRECT /\ k < NDIRECT + BS
    <3>1. k - NDIRECT \in Word /\ ~(k < NDIRECT)
      BY <2>0, <2>2, Numbers DEF Word
    <3>2. Look(m2, p2[NDIRECT], k - NDIRECT) = Look(m, p[NDIRECT], k - NDIRECT)
      BY <1>1, <1>2, <1>3, <3>1
    <3> QED BY <2>2, <3>1, <3>2 DEF At
  <2>3. CASE k >= NDIRECT + BS
    <3> DEFINE q == (k - NDIRECT - BS) \div BS
               r == (k - NDIRECT - BS) % BS
    <3>1. q \in Word /\ r \in Word /\ ~(k < NDIRECT) /\ ~(k < NDIRECT + BS)
      <4>1. q \in Word /\ r \in Word
        BY <2>3, Where
      <4> QED BY <2>0, <2>3, <4>1, Numbers
    <3>2. /\ At(m2, p2, k) = Look(m2, Look(m2, p2[NDIRECT + 1], q), r)
          /\ At(m, p, k) = Look(m, Look(m, p[NDIRECT + 1], q), r)
      BY <3>1 DEF At
    <3> HIDE DEF q, r
    <3> QED BY <1>2, <1>3, <1>4, <3>1, <3>2
  <2> QED BY <2>0, <2>1, <2>2, <2>3, Numbers
<1>9. \A k \in 0..(Limit - 1) : ~(k >= idx /\ k < idx + 0)
  BY LimitNat
<1> QED BY <1>5, <1>7, <1>8, <1>9 DEF Pointed

\* A part of the call starts from what the one before it left.
LEMMA WritingHas ==
  ASSUME NEW v, NEW x, NEW idx, NEW ptrs, Writable(v, x, idx, ptrs), NEW s, Writing(v, x, idx, ptrs, s)
  PROVE  /\ IsVolume(s.vol) /\ Reserved(s.vol.used) /\ Shape(s.vol.used, s.vol.data, s.inode.block)
         /\ s.from - 1 \in Nat /\ s.from \in Nat /\ s.left \in Nat /\ s.left = Len(ptrs) - (s.from - 1)
         /\ Wrote(v, x.block, idx, ptrs, s.vol, s.inode.block, s.from - 1)
         /\ v.used \subseteq s.vol.used
<1>1. Wrote(v, x.block, idx, ptrs, s.vol, s.inode.block, s.from - 1)
  BY DEF Writing
<1>2. IsVolume(s.vol) /\ v.used \subseteq s.vol.used /\ Shape(s.vol.used, s.vol.data, s.inode.block)
  BY <1>1 DEF Wrote, SameInodes
<1>3. Reserved(s.vol.used)
  BY <1>2, ReservedMore DEF Writable
<1>4. s.from - 1 \in Nat /\ s.from \in Nat /\ s.left \in Nat /\ s.left = Len(ptrs) - (s.from - 1)
  <2>1. s.from - 1 \in 0..Len(ptrs) /\ Len(ptrs) \in Nat
    BY <1>1 DEF Wrote, Writable
  <2>2. s.from \in Nat \ {0} /\ s.left = Len(ptrs) - (s.from - 1)
    BY DEF Writing
  <2> QED BY <2>1, <2>2
<1> QED BY <1>1, <1>2, <1>3, <1>4

LEMMA WroteIndex ==
  ASSUME NEW v, NEW x, NEW idx, NEW ptrs, Writable(v, x, idx, ptrs), NEW s, Writing(v, x, idx, ptrs, s),
         NEW slot \in {NDIRECT, NDIRECT + 1}, NEW a, a = IndexBlock(s.vol, s.inode.block[slot]), a.num # 0
  PROVE  /\ Wrote(v, x.block, idx, ptrs, a.vol, [s.inode.block EXCEPT ![slot] = a.num], s.from - 1)
         /\ Kept(v, s.vol) => Kept(v, a.vol)
         /\ s.vol.used \subseteq a.vol.used
         /\ [s.inode.block EXCEPT ![slot] = a.num][slot] = a.num
<1> DEFINE p == s.inode.block
           p2 == [p EXCEPT ![slot] = a.num]
           done == s.from - 1
<1>1. /\ IsVolume(s.vol) /\ Reserved(s.vol.used) /\ Shape(s.vol.used, s.vol.data, p) /\ done \in Nat
      /\ Wrote(v, x.block, idx, ptrs, s.vol, p, done) /\ v.used \subseteq s.vol.used
      /\ idx \in Nat /\ Len(ptrs) \in Nat /\ done <= Len(ptrs)
  <2>1. /\ IsVolume(s.vol) /\ Reserved(s.vol.used) /\ Shape(s.vol.used, s.vol.data, p) /\ done \in Nat
        /\ Wrote(v, x.block, idx, ptrs, s.vol, p, done) /\ v.used \subseteq s.vol.used
    BY WritingHas
  <2>2. idx \in Nat /\ Len(ptrs) \in Nat /\ done \in 0..Len(ptrs)
    BY <2>1 DEF Writable, Wrote
  <2> QED BY <2>1, <2>2
<1>2. DOMAIN p2 = Slots /\ p2[slot] = a.num /\ \A k \in Slots : k # slot => p2[k] = p[k]
  BY <1>1, LimitNat DEF Shape
<1>3. CASE p[slot] # 0
  <2>1. a.num = p[slot] /\ a.vol = s.vol
    BY <1>1, <1>3, NewIndex
  <2>2. \A k \in Slots : p2[k] = p[k]
    BY <1>2, <2>1
  <2> HIDE DEF p2
  <2>3. Pointed(s.vol.used, s.vol.data, p, s.vol.data, p2, idx + done, 0, ptrs, 1 + done)
    <3>1. /\ DOMAIN s.vol.data = Block /\ idx + done \in Nat
          /\ \A c \in Tree(s.vol.data, p) : DOMAIN s.vol.data[c] = Word
      BY <1>1 DEF Shape
    <3>2. \A c \in Tree(s.vol.data, p) : DOMAIN s.vol.data[c] = Word /\ \A w \in Word : s.vol.data[c][w] = s.vol.data[c][w]
      BY <3>1
    <3>3. \A c \in Block : c \notin Tree(s.vol.data, p) => s.vol.data[c] = s.vol.data[c]
      OBVIOUS
    <3> HIDE DEF p, done
    <3> QED BY <1>1, <1>2, <2>2, <3>1, <3>2, <3>3, SamePointers
  <2>4. SameInodes(s.vol, s.vol) /\ 0 \in Nat /\ done + 0 <= Len(ptrs) /\ (0 > 0 => idx + done + 0 <= Limit) /\ done + 0 = done
    BY <1>1 DEF SameInodes
  <2> HIDE DEF p, done
  <2>5. Wrote(v, x.block, idx, ptrs, s.vol, p2, done + 0)
    BY <1>1, <2>3, <2>4, WrotePointed
  <2> QED BY <1>2, <2>1, <2>4, <2>5 DEF p, p2, done
<1>4. CASE p[slot] = 0
  <2>1. /\ SameInodes(s.vol, a.vol) /\ a.num \in Block \ {0} /\ a.num \notin s.vol.used
        /\ a.vol.used = s.vol.used \cup {a.num} /\ a.vol.data = [s.vol.data EXCEPT ![a.num] = Zeros]
    BY <1>1, <1>4, NewIndex
  <2>2. Attached(s.vol.used, s.vol.data, p, a.num, [s.vol.data EXCEPT ![a.num] = Zeros], p2)
    <3> HIDE DEF p
    <3>1. CASE slot = NDIRECT
      BY <1>1, <1>4, <2>1, <3>1, AttachSingle
    <3>2. CASE slot = NDIRECT + 1
      BY <1>1, <1>4, <2>1, <3>2, AttachDouble
    <3> QED BY <3>1, <3>2
  <2> HIDE DEF p, p2, done
  <2>3. Wrote(v, x.block, idx, ptrs, a.vol, p2, done)
    <3>1. Attached(s.vol.used, s.vol.data, p, a.num, a.vol.data, p2)
      BY <2>1, <2>2
    <3> QED BY <1>1, <2>1, <3>1, WroteAttached
  <2>4. Kept(v, s.vol) => Kept(v, a.vol)
    <3>1. \A c \in v.used \cap Block : a.vol.data[c] = s.vol.data[c]
      BY <1>1, <2>1
    <3> QED BY <3>1 DEF Kept
  <2> QED BY <1>2, <2>1, <2>3, <2>4 DEF p, p2, done
<1> QED BY <1>3, <1>4

LEMMA WriteSingleWrites ==
  ASSUME NEW v, NEW x, NEW idx, NEW ptrs, Writable(v, x, idx, ptrs), NEW s, Writing(v, x, idx, ptrs, s),
         OnTrack(idx, s), s.left = 0 \/ s.idx >= NDIRECT
  PROVE  LET t == WriteSingle(s, ptrs)
         IN  Writing(v, x, idx, ptrs, t) /\ (t.left = 0 \/ t.full \/ (OnTrack(idx, t) /\ t.idx >= NDIRECT + BS))
<1> DEFINE p == s.inode.block
           a == IndexBlock(s.vol, p[NDIRECT])
           n == Least(s.left, NDIRECT + BS - s.idx)
           t == WriteSingle(s, ptrs)
<1>1. CASE s.left = 0 \/ s.idx >= NDIRECT + BS
  <2>1. t = s
    BY <1>1 DEF WriteSingle
  <2> QED BY <1>1, <2>1
<1>2. CASE ~(s.left = 0 \/ s.idx >= NDIRECT + BS) /\ a.num = 0
  <2>1. t = [s EXCEPT !.full = TRUE]
    BY <1>2 DEF WriteSingle, WriteUnder
  <2> HIDE DEF t
  <2>2. Writing(v, x, idx, ptrs, t) /\ t.full
    BY <2>1, WritingFull
  <2> QED BY <2>2 DEF t
<1>3. CASE ~(s.left = 0 \/ s.idx >= NDIRECT + BS) /\ a.num # 0
  <2> DEFINE done == s.from - 1
             p2 == [p EXCEPT ![NDIRECT] = a.num]
             row == Patch(a.vol.data[a.num], s.idx - NDIRECT, ptrs, s.from, n)
             m2 == [a.vol.data EXCEPT ![a.num] = row]
             w == [a.vol EXCEPT !.data = m2]
  <2>1. t = [s EXCEPT !.vol = w, !.inode = [s.inode EXCEPT !.block = p2],
                      !.idx = s.idx + n, !.left = s.left - n, !.from = s.from + n]
    BY <1>3 DEF WriteSingle, WriteUnder
  <2>2. /\ done \in Nat /\ s.from = 1 + done /\ s.left \in Nat /\ s.left = Len(ptrs) - done /\ s.idx = idx + done
        /\ idx \in Nat /\ Len(ptrs) \in Nat
    <3>1. done \in Nat /\ s.from \in Nat /\ s.left \in Nat /\ s.left = Len(ptrs) - done
      BY WritingHas
    <3> QED BY <3>1 DEF OnTrack, Writable
  <2>3. /\ n \in Nat /\ n >= 1 /\ done + n <= Len(ptrs) /\ (n = s.left \/ s.idx + n >= NDIRECT + BS)
        /\ s.idx + n <= NDIRECT + BS /\ s.idx >= NDIRECT
    <3> DEFINE room == NDIRECT + BS - s.idx
    <3>0. s.idx \in Nat /\ s.left \in Nat \ {0}
      <4> HIDE DEF done
      <4> QED BY <1>3, <2>2
    <3>1. s.idx \in Nat /\ s.left \in Nat \ {0} /\ room \in Nat \ {0}
      <4>1. ~(s.idx >= NDIRECT + BS)
        BY <1>3
      <4> QED BY <3>0, <4>1, Numbers
    <3>2. n = Least(s.left, room)
      OBVIOUS
    <3>3. s.idx >= NDIRECT
      BY <1>3, <2>2, Numbers
    <3> HIDE DEF n
    <3>4. n \in Nat /\ n >= 1 /\ n <= s.left /\ n <= room /\ (n = s.left \/ n = room)
      <4> HIDE DEF room
      <4> QED BY <3>1, <3>2 DEF Least
    <3>5. done + n <= Len(ptrs)
      <4> HIDE DEF done
      <4> QED BY <2>2, <3>4
    <3>6. s.idx + n <= NDIRECT + BS /\ (n = room => s.idx + n >= NDIRECT + BS)
      BY <3>1, <3>4, Numbers
    <3> QED BY <3>3, <3>4, <3>5, <3>6
  <2>4. /\ Wrote(v, x.block, idx, ptrs, a.vol, p2, done) /\ p2[NDIRECT] = a.num
    BY <1>3, WroteIndex
  <2> HIDE DEF n, t, p2, done
  <2>5. SameInodes(a.vol, w) /\ w.data = m2 /\ w.used = a.vol.used
    <3>1. IsVolume(a.vol)
      BY <2>4 DEF Wrote, SameInodes
    <3> HIDE DEF m2
    <3> QED BY <3>1, DataIs
  <2>6. Pointed(a.vol.used, a.vol.data, p2, m2, p2, idx + done, n, ptrs, 1 + done)
    <3>1. Shape(a.vol.used, a.vol.data, p2)
      BY <2>4 DEF Wrote
    <3>2. /\ idx + done \in Nat /\ 1 + done \in Int /\ idx + done >= NDIRECT /\ (idx + done) + n <= NDIRECT + BS
          /\ m2 = [a.vol.data EXCEPT ![a.num] = Patch(a.vol.data[a.num], (idx + done) - NDIRECT, ptrs, 1 + done, n)]
      BY <2>2, <2>3
    <3> HIDE DEF a, m2
    <3> QED BY <1>3, <2>3, <2>4, <3>1, <3>2, PutSingle
  <2>7. Wrote(v, x.block, idx, ptrs, w, p2, done + n)
    <3>1. n > 0 => idx + done + n <= Limit
      <4>1. NDIRECT + BS <= Limit /\ Limit \in Nat
        BY LimitNat
      <4> QED BY <2>2, <2>3, <4>1, Numbers
    <3> HIDE DEF a, m2, w
    <3> QED BY <2>2, <2>3, <2>4, <2>5, <2>6, <3>1, WrotePointed
  <2> HIDE DEF a, m2, w
  <2>8. t = [vol |-> w, inode |-> [s.inode EXCEPT !.block = p2], idx |-> s.idx + n, left |-> s.left - n,
             from |-> s.from + n, full |-> s.full]
    <3>1. s = [vol |-> s.vol, inode |-> s.inode, idx |-> s.idx, left |-> s.left, from |-> s.from, full |-> s.full]
      BY DEF Writing
    <3> QED BY <2>1, <3>1
  <2>9. Writing(v, x, idx, ptrs, t)
    <3> DEFINE full == s.full
               i == s.idx + n
    <3>1. full \in BOOLEAN
      BY DEF Writing
    <3>2. Wrote(v, x.block, idx, ptrs, w, p2, (s.from - 1) + n) /\ (s.from + n = 1 => Kept(v, w))
      BY <2>2, <2>3, <2>7 DEF done
    <3>3. t = [vol |-> w, inode |-> [s.inode EXCEPT !.block = p2], idx |-> i, left |-> s.left - n,
               from |-> s.from + n, full |-> full]
      BY <2>8
    <3> HIDE DEF full, i
    <3> QED BY <2>2, <2>3, <3>1, <3>2, <3>3, WritingOn
  <2>10. t.left = 0 \/ (OnTrack(idx, t) /\ t.idx >= NDIRECT + BS)
    BY <2>2, <2>3, <2>8 DEF OnTrack
  <2> QED BY <2>9, <2>10 DEF t
<1> QED BY <1>1, <1>2, <1>3

\* The volume of b, where block a leads to block b.
LinkedTo(b, a, q) == [b.vol.data EXCEPT ![a][q] = b.num]
LinkedVol(b, a, q) == [b.vol EXCEPT !.data = LinkedTo(b, a, q)]

LEMMA WroteSecond ==
  ASSUME NEW v, NEW x, NEW idx, NEW ptrs, Writable(v, x, idx, ptrs), NEW w, NEW p, NEW done,
         Wrote(v, x.block, idx, ptrs, w, p, done), NEW q \in Word, NEW a, a = p[NDIRECT + 1], a # 0,
         NEW b, b = IndexBlock(w, w.data[a][q]), b.num # 0
  PROVE  /\ Wrote(v, x.block, idx, ptrs, LinkedVol(b, a, q), p, done) /\ Look(LinkedTo(b, a, q), a, q) = b.num
         /\ SameInodes(b.vol, LinkedVol(b, a, q)) /\ LinkedVol(b, a, q).data = LinkedTo(b, a, q)
         /\ LinkedVol(b, a, q).used = b.vol.used
<1> DEFINE linked == [b.vol.data EXCEPT ![a][q] = b.num]
           y == [b.vol EXCEPT !.data = linked]
           row == [b.vol.data[a] EXCEPT ![q] = b.num]
<1>1. /\ IsVolume(w) /\ Reserved(w.used) /\ Shape(w.used, w.data, p) /\ v.used \subseteq w.used
      /\ done \in Nat /\ done <= Len(ptrs) /\ idx \in Nat /\ Len(ptrs) \in Nat
  <2>1. IsVolume(w) /\ Shape(w.used, w.data, p) /\ v.used \subseteq w.used /\ done \in 0..Len(ptrs)
    BY DEF Wrote, SameInodes
  <2> QED BY <2>1, ReservedMore DEF Writable
<1>2. /\ DOMAIN w.data = Block /\ a \in Tree(w.data, p) /\ a \in Block /\ a \in w.used /\ DOMAIN w.data[a] = Word
      /\ \A c \in Tree(w.data, p) : DOMAIN w.data[c] = Word
  <2>1. a \in Tree(w.data, p)
    BY DEF Tree
  <2> QED BY <1>1, <2>1 DEF Shape
<1>3. linked = [b.vol.data EXCEPT ![a] = row]
  OBVIOUS
<1>4. SameInodes(w, b.vol)
  BY <1>1, NewIndex
<1>5. SameInodes(b.vol, y) /\ y.data = linked /\ y.used = b.vol.used
  <2>1. IsVolume(b.vol)
    BY <1>4 DEF SameInodes
  <2> HIDE DEF linked
  <2> QED BY <2>1, DataIs
<1>6. SameInodes(w, y)
  <2> HIDE DEF y
  <2> QED BY <1>4, <1>5, SameInodesOn
<1>7. CASE w.data[a][q] # 0
  <2>1. b.num = w.data[a][q] /\ b.vol = w
    BY <1>1, <1>7, NewIndex
  <2>2. DOMAIN row = Word /\ \A k \in Word : row[k] = w.data[a][k]
    BY <1>2, <2>1
  <2> HIDE DEF row
  <2>3. DOMAIN linked = Block /\ linked[a] = row /\ \A c \in Block : c # a => linked[c] = w.data[c]
    BY <1>2, <1>3, <2>1
  <2> HIDE DEF linked, y
  <2>4. Pointed(w.used, w.data, p, linked, p, idx + done, 0, ptrs, 1 + done)
    <3>1. \A c \in Tree(w.data, p) : DOMAIN linked[c] = Word /\ \A k \in Word : linked[c][k] = w.data[c][k]
      <4>1. \A c \in Tree(w.data, p) : c \in Block
        BY <1>1 DEF Shape
      <4> QED BY <1>2, <2>2, <2>3, <4>1
    <3>2. \A c \in Block : c \notin Tree(w.data, p) => linked[c] = w.data[c]
      BY <1>2, <2>3
    <3>3. DOMAIN p = Slots /\ (\A k \in Slots : p[k] = p[k]) /\ idx + done \in Nat
      BY <1>1 DEF Shape
    <3> QED BY <1>1, <2>3, <3>1, <3>2, <3>3, SamePointers
  <2>5. 0 \in Nat /\ done + 0 <= Len(ptrs) /\ (0 > 0 => idx + done + 0 <= Limit) /\ done + 0 = done /\ y.used = w.used
    BY <1>1, <1>5, <2>1
  <2>6. Pointed(w.used, w.data, p, y.data, p, idx + done, 0, ptrs, 1 + done)
    BY <1>5, <2>4
  <2>7. Wrote(v, x.block, idx, ptrs, y, p, done + 0)
    BY <1>1, <1>6, <2>5, <2>6, WrotePointed
  <2>8. Look(linked, a, q) = b.num
    BY <2>1, <2>2, <2>3 DEF Look
  <2> QED BY <1>5, <2>5, <2>7, <2>8 DEF y, linked, LinkedVol, LinkedTo
<1>8. CASE w.data[a][q] = 0
  <2>1. /\ b.num \in Block \ {0} /\ b.num \notin w.used
        /\ b.vol.used = w.used \cup {b.num} /\ b.vol.data = [w.data EXCEPT ![b.num] = Zeros]
    BY <1>1, <1>8, NewIndex
  <2>2. Attached(w.used, w.data, p, b.num, linked, p) /\ Look(linked, a, q) = b.num
    <3>1. LET m1 == [w.data EXCEPT ![b.num] = Zeros]
              m2 == [m1 EXCEPT ![a][q] = b.num]
          IN  Attached(w.used, w.data, p, b.num, m2, p) /\ Look(m2, a, q) = b.num
      BY <1>1, <1>8, <2>1, AttachSecond
    <3> QED BY <2>1, <3>1
  <2> HIDE DEF linked, y
  <2>3. Wrote(v, x.block, idx, ptrs, y, p, done)
    <3>1. y.used = w.used \cup {b.num} /\ Attached(w.used, w.data, p, b.num, y.data, p)
      BY <1>5, <2>1, <2>2
    <3> QED BY <1>6, <2>1, <3>1, WroteAttached
  <2> QED BY <1>5, <2>2, <2>3 DEF y, linked, LinkedVol, LinkedTo
<1> QED BY <1>7, <1>8

LEMMA WriteDoubleWrites ==
  ASSUME NEW v, NEW x, NEW idx, NEW ptrs, Writable(v, x, idx, ptrs), NEW s, Writing(v, x, idx, ptrs, s),
         s.left = 0 \/ s.full \/ (OnTrack(idx, s) /\ s.idx >= NDIRECT + BS)
  PROVE  Writing(v, x, idx, ptrs, WriteDouble(s, ptrs))
<1> DEFINE t == WriteDouble(s, ptrs)
           p == s.inode.block
           at == s.idx - NDIRECT - BS
           q == at \div BS
           r == at % BS
           a == IndexBlock(s.vol, p[NDIRECT + 1])
           b == IndexBlock(a.vol, a.vol.data[a.num][q])
           p2 == [p EXCEPT ![NDIRECT + 1] = a.num]
           done == s.from - 1
           n == Least(s.left, BS - r)
<1>0. /\ s = [vol |-> s.vol, inode |-> s.inode, idx |-> s.idx, left |-> s.left, from |-> s.from, full |-> s.full]
      /\ s.full \in BOOLEAN
  BY DEF Writing
<1>1. CASE s.left = 0 \/ s.full \/ s.idx >= NDIRECT + BS + BS * BS
  <2>1. t = s
    BY <1>1 DEF WriteDouble
  <2> QED BY <2>1
<1>2. CASE ~(s.left = 0 \/ s.full \/ s.idx >= NDIRECT + BS + BS * BS) /\ a.num = 0
  <2>1. t = [s EXCEPT !.full = TRUE]
    BY <1>2 DEF WriteDouble, WriteFirst
  <2> QED BY <2>1, WritingFull
<1>3. CASE ~(s.left = 0 \/ s.full \/ s.idx >= NDIRECT + BS + BS * BS) /\ a.num # 0
  <2>1. /\ done \in Nat /\ s.from = 1 + done /\ s.left \in Nat /\ s.left = Len(ptrs) - done /\ s.idx = idx + done
        /\ idx \in Nat /\ Len(ptrs) \in Nat /\ s.idx \in 0..(Limit - 1) /\ s.idx >= NDIRECT + BS /\ s.left # 0
    <3>1. done \in Nat /\ s.from \in Nat /\ s.left \in Nat /\ s.left = Len(ptrs) - done
      BY WritingHas
    <3>2. s.idx = idx + done /\ idx \in Nat /\ Len(ptrs) \in Nat /\ s.idx >= NDIRECT + BS /\ s.left # 0
      BY <1>3 DEF OnTrack, Writable
    <3>3. ~(s.idx >= Limit) /\ Limit \in Nat
      BY <1>3, LimitNat DEF Limit
    <3> QED BY <3>1, <3>2, <3>3
  <2>2. q \in Word /\ r \in Word /\ s.idx = NDIRECT + BS + BS * q + r
    BY <2>1, Where
  <2>3. /\ Wrote(v, x.block, idx, ptrs, a.vol, p2, done) /\ p2[NDIRECT + 1] = a.num
        /\ Kept(v, s.vol) => Kept(v, a.vol)
    BY <1>3, WroteIndex
  <2>4. n \in Nat /\ n >= 1 /\ done + n <= Len(ptrs) /\ n <= BS - r
    <3> HIDE DEF r, q, done
    <3>1. BS - r \in Nat /\ BS - r >= 1
      BY <2>2, Numbers DEF Word
    <3> QED BY <2>1, <3>1 DEF Least
  <2>5. t = WriteSecond(s, ptrs, a, b, at)
    BY <1>3 DEF WriteDouble, WriteFirst
  <2>6. CASE b.num = 0
    <3> DEFINE yes == TRUE
               y == [s.inode EXCEPT !.block = p2]
               u == [s EXCEPT !.inode = y]
    <3>1. t = [u EXCEPT !.vol = a.vol, !.full = yes]
      BY <2>5, <2>6 DEF WriteSecond
    <3>2. yes \in BOOLEAN
      OBVIOUS
    <3> HIDE DEF yes, t, a, p2, y, u, b
    <3>3. u = [vol |-> s.vol, inode |-> y, idx |-> s.idx, left |-> s.left, from |-> s.from, full |-> s.full]
      BY <1>0 DEF u
    <3>4. t = [vol |-> a.vol, inode |-> y, idx |-> s.idx, left |-> s.left - 0, from |-> s.from + 0, full |-> yes]
      <4>1. s.left - 0 = s.left /\ s.from + 0 = s.from
        BY <2>1
      <4> QED BY <3>1, <3>3, <4>1
    <3>5. /\ Wrote(v, x.block, idx, ptrs, a.vol, p2, (s.from - 1) + 0) /\ (s.from + 0 = 1 => Kept(v, a.vol))
      <4>1. (s.from - 1) + 0 = done /\ s.from + 0 = s.from
        BY <2>1
      <4>2. s.from = 1 => Kept(v, s.vol)
        BY DEF Writing
      <4> QED BY <2>3, <4>1, <4>2
    <3> DEFINE i == s.idx
               w == a.vol
    <3>6. t = [vol |-> w, inode |-> [s.inode EXCEPT !.block = p2], idx |-> i, left |-> s.left - 0,
               from |-> s.from + 0, full |-> yes]
      BY <3>4 DEF y
    <3>7. Wrote(v, x.block, idx, ptrs, w, p2, (s.from - 1) + 0) /\ (s.from + 0 = 1 => Kept(v, w)) /\ 0 \in Nat
      BY <3>5
    <3> HIDE DEF i, w
    <3>8. Writing(v, x, idx, ptrs, t)
      BY <2>1, <3>2, <3>6, <3>7, WritingOn
    <3> QED BY <3>8 DEF t
  <2>7. CASE b.num # 0
    <3> DEFINE y == [s.inode EXCEPT !.block = p2]
               u == [s EXCEPT !.inode = y]
               linked == [b.vol.data EXCEPT ![a.num][q] = b.num]
               z == [b.vol EXCEPT !.data = linked]
               row == Patch(linked[b.num], r, ptrs, s.from, n)
               m2 == [linked EXCEPT ![b.num] = row]
               w == [b.vol EXCEPT !.data = m2]
    <3>1. t = [u EXCEPT !.vol = w, !.left = s.left - n, !.from = s.from + n]
      <4>1. PutSecond(b.vol.data, a.num, b.num, at, ptrs, s.from, n) = m2
        BY DEF PutSecond
      <4>2. t = [u EXCEPT !.vol = [b.vol EXCEPT !.data = PutSecond(@, a.num, b.num, at, ptrs, s.from, n)],
                          !.left = s.left - n, !.from = s.from + n]
        BY <2>5, <2>7 DEF WriteSecond
      <4> HIDE DEF t, m2, u, b
      <4> QED BY <4>1, <4>2
    <3>2. /\ Wrote(v, x.block, idx, ptrs, z, p2, done) /\ Look(linked, a.num, q) = b.num
          /\ SameInodes(b.vol, z) /\ z.data = linked /\ z.used = b.vol.used
      <4> DEFINE g == a.num
                 f == a.vol
                 e == IndexBlock(f, f.data[g][q])
                 l == LinkedTo(e, g, q)
                 yy == LinkedVol(e, g, q)
      <4>0. q \in Word
        BY <2>2
      <4> HIDE DEF q, a, p2, done, g, f, e, l, yy
      <4>1. Wrote(v, x.block, idx, ptrs, f, p2, done) /\ g = p2[NDIRECT + 1] /\ g # 0 /\ e.num # 0
        BY <1>3, <2>3, <2>7 DEF g, f, e
      <4>2. e = IndexBlock(f, f.data[g][q])
        BY DEF e
      <4>3. /\ Wrote(v, x.block, idx, ptrs, LinkedVol(e, g, q), p2, done) /\ Look(LinkedTo(e, g, q), g, q) = e.num
            /\ SameInodes(e.vol, LinkedVol(e, g, q)) /\ LinkedVol(e, g, q).data = LinkedTo(e, g, q)
            /\ LinkedVol(e, g, q).used = e.vol.used
        BY <4>0, <4>1, <4>2, WroteSecond
      <4> QED BY <4>3 DEF e, f, g, LinkedTo, LinkedVol
    <3> HIDE DEF z, linked, t, n, done, q, r, a, b, p2
    <3>3. SameInodes(b.vol, w) /\ w.data = m2 /\ w.used = b.vol.used
      <4>1. IsVolume(b.vol)
        <5>1. IsVolume(a.vol) /\ Reserved(a.vol.used)
          <6>1. IsVolume(a.vol) /\ v.used \subseteq a.vol.used
            BY <2>3 DEF Wrote, SameInodes
          <6> QED BY <6>1, ReservedMore DEF Writable
        <5>2. SameInodes(a.vol, b.vol)
          BY <5>1, NewIndex DEF b
        <5> QED BY <5>2 DEF SameInodes
      <4> HIDE DEF m2
      <4> QED BY <4>1, DataIs
    <3>4. SameInodes(z, w)
      BY <3>2, <3>3 DEF SameInodes
    <3>5. Pointed(z.used, z.data, p2, m2, p2, idx + done, n, ptrs, 1 + done)
      <4>1. Shape(z.used, z.data, p2)
        BY <3>2 DEF Wrote
      <4>2. idx + done = NDIRECT + BS + BS * q + r /\ 1 + done \in Int
        BY <2>1, <2>2
      <4>3. m2 = [z.data EXCEPT ![b.num] = Patch(z.data[b.num], r, ptrs, 1 + done, n)]
        BY <2>1, <3>2
      <4>4. b.num = Look(z.data, p2[NDIRECT + 1], q)
        BY <2>3, <3>2
      <4> DEFINE e == b.num
                 i == idx + done
                 f == 1 + done
                 m == z.data
                 uu == z.used
                 mm == m2
      <4> HIDE DEF m2
      <4>5. /\ Shape(uu, m, p2) /\ i = NDIRECT + BS + BS * q + r /\ f \in Int
            /\ mm = [m EXCEPT ![e] = Patch(m[e], r, ptrs, f, n)] /\ e = Look(m, p2[NDIRECT + 1], q) /\ e # 0
        BY <2>7, <4>1, <4>2, <4>3, <4>4
      <4> HIDE DEF e, i, f, m, uu, mm
      <4>6. Pointed(uu, m, p2, mm, p2, i, n, ptrs, f)
        BY <2>2, <2>4, <4>5, PutUnderSecond
      <4> QED BY <4>6 DEF e, i, f, m, uu, mm
    <3>6. Wrote(v, x.block, idx, ptrs, w, p2, done + n)
      <4>1. n > 0 => idx + done + n <= Limit
        <5> DEFINE Q == BS * q
                   S == BS * BS
                   T == BS * (BS - 1 - q)
        <5>1. Q \in Nat /\ S \in Nat /\ T \in Nat /\ S = Q + BS + T
          <6>1. q \in Nat /\ BS - 1 - q \in Nat /\ BS \in Nat
            BY <2>2, Numbers DEF Word
          <6>2. BS = q + 1 + (BS - 1 - q)
            BY <6>1
          <6> QED BY <6>1, <6>2, Numbers
        <5>2. idx + done = NDIRECT + BS + Q + r /\ Limit = NDIRECT + BS + S
          BY <2>1, <2>2 DEF Limit
        <5> HIDE DEF Q, S, T
        <5>3. r \in Nat /\ r < BS
          BY <2>2, Numbers DEF Word
        <5> QED BY <2>1, <2>4, <5>1, <5>2, <5>3, Numbers
      <4>2. w.used = z.used /\ Pointed(z.used, z.data, p2, w.data, p2, idx + done, n, ptrs, 1 + done)
        BY <3>2, <3>3, <3>5
      <4> HIDE DEF w, m2
      <4> QED BY <2>1, <2>4, <3>2, <3>4, <4>1, <4>2, WrotePointed
    <3> HIDE DEF w, m2, y, u
    <3>7. u = [vol |-> s.vol, inode |-> y, idx |-> s.idx, left |-> s.left, from |-> s.from, full |-> s.full]
      BY <1>0 DEF u
    <3>8. t = [vol |-> w, inode |-> y, idx |-> s.idx, left |-> s.left - n, from |-> s.from + n, full |-> s.full]
      BY <3>1, <3>7
    <3> DEFINE i == s.idx
               full == s.full
    <3>9. t = [vol |-> w, inode |-> [s.inode EXCEPT !.block = p2], idx |-> i, left |-> s.left - n,
               from |-> s.from + n, full |-> full]
      BY <3>8 DEF y
    <3>10. Wrote(v, x.block, idx, ptrs, w, p2, (s.from - 1) + n) /\ (s.from + n = 1 => Kept(v, w))
      BY <2>1, <2>4, <3>6 DEF done
    <3>11. full \in BOOLEAN
      BY <1>0
    <3> HIDE DEF i, full
    <3>12. Writing(v, x, idx, ptrs, t)
      BY <2>1, <2>4, <3>9, <3>10, <3>11, WritingOn
    <3> QED BY <3>12 DEF t
  <2> QED BY <2>6, <2>7
<1> QED BY <1>1, <1>2, <1>3

LEMMA WriteWrites ==
  ASSUME NEW v, NEW x, NEW idx, NEW ptrs, Writable(v, x, idx, ptrs)
  PROVE  Writing(v, x, idx, ptrs, WriteBlockPointers(v, x, idx, ptrs))
<1> DEFINE s == [vol |-> v, inode |-> x, idx |-> idx, left |-> Len(ptrs), from |-> 1, full |-> FALSE]
           t == WriteDirect(s, ptrs)
           y == WriteSingle(t, ptrs)
<1>1. Writing(v, x, idx, ptrs, t) /\ OnTrack(idx, t) /\ (t.left = 0 \/ t.idx >= NDIRECT)
  BY WriteDirectWrites
<1> HIDE DEF t
<1>2. Writing(v, x, idx, ptrs, y) /\ (y.left = 0 \/ y.full \/ (OnTrack(idx, y) /\ y.idx >= NDIRECT + BS))
  BY <1>1, WriteSingleWrites
<1> HIDE DEF y
<1>3. Writing(v, x, idx, ptrs, WriteDouble(y, ptrs))
  BY <1>2, WriteDoubleWrites
<1> QED BY <1>3 DEF WriteBlockPointers, y, t

-----------------------------------------------------------------------------
(* read_block_pointers *)

LEMMA ConcatIs ==
  ASSUME NEW p, IsSeq(p), NEW q, IsSeq(q)
  PROVE  /\ IsSeq(p \o q) /\ Len(p \o q) = Len(p) + Len(q)
         /\ \A i \in 1..(Len(p) + Len(q)) : (p \o q)[i] = IF i <= Len(p) THEN p[i] ELSE q[i - Len(p)]
<1>1. PICK S : p \in Seq(S)
  BY DEF IsSeq
<1>2. PICK T : q \in Seq(T)
  BY DEF IsSeq
<1> DEFINE U == S \cup T
<1>3. p \in Seq(U) /\ q \in Seq(U)
  BY <1>1, <1>2, SeqMonotonic, Zenon
<1> HIDE DEF U
<1>4. /\ p \o q \in Seq(U) /\ Len(p \o q) = Len(p) + Len(q)
      /\ \A i \in 1..(Len(p) + Len(q)) : (p \o q)[i] = IF i <= Len(p) THEN p[i] ELSE q[i - Len(p)]
  BY <1>3, ConcatProperties
<1> QED BY <1>4, SeqIn

\* A row of n words by its number is a sequence.
LEMMA RowAsSeq ==
  ASSUME NEW n \in Nat, NEW q, q = [k \in 1..n |-> q[k]]
  PROVE  IsSeq(q) /\ Len(q) = n /\ DOMAIN q = 1..n
<1> DEFINE S == {q[k] : k \in 1..n}
<1>1. q \in [1..n -> S]
  <2>1. \A k \in 1..n : q[k] \in S
    OBVIOUS
  <2> HIDE DEF S
  <2> QED BY <2>1
<1> HIDE DEF S
<1>2. q \in Seq(S)
  BY <1>1, SeqDef
<1>3. Len(q) \in Nat /\ DOMAIN q = 1..Len(q)
  BY <1>2, LenProperties
<1>4. DOMAIN q = 1..n
  BY <1>1
<1>5. Len(q) = n
  BY <1>3, <1>4
<1> QED BY <1>2, <1>4, <1>5, SeqIn

LEMMA TupleIs ==
  ASSUME NEW q, IsSeq(q)
  PROVE  /\ IsSeq(Tuple(q)) /\ Len(Tuple(q)) = Len(q) /\ DOMAIN Tuple(q) = DOMAIN q
         /\ \A j \in DOMAIN q : Tuple(q)[j] = q[j]
<1>1. IsSeq(<<>>) /\ Len(<<>>) = 0
  <2>1. <<>> \in Seq({}) /\ Len(<<>>) = 0
    BY EmptySeq
  <2> QED BY <2>1, SeqIn
<1>2. Len(q) \in Nat /\ DOMAIN q = 1..Len(q)
  BY SeqHas
<1>3. /\ IsSeq(q \o <<>>) /\ Len(q \o <<>>) = Len(q) + 0
      /\ \A i \in 1..(Len(q) + 0) : (q \o <<>>)[i] = IF i <= Len(q) THEN q[i] ELSE <<>>[i - Len(q)]
  BY <1>1, ConcatIs
<1>4. DOMAIN (q \o <<>>) = 1..Len(q \o <<>>)
  BY <1>3, SeqHas
<1>5. Len(q) + 0 = Len(q)
  BY <1>2
<1>6. \A j \in 1..Len(q) : (q \o <<>>)[j] = q[j]
  <2> TAKE j \in 1..Len(q)
  <2>1. j <= Len(q) /\ j \in 1..(Len(q) + 0)
    BY <1>2
  <2> QED BY <1>3, <2>1
<1> QED BY <1>2, <1>3, <1>4, <1>5, <1>6 DEF Tuple

LEMMA RowIs ==
  ASSUME NEW f, NEW from, NEW n \in Nat
  PROVE  IsSeq(Row(f, from, n)) /\ Len(Row(f, from, n)) = n /\ \A k \in 1..n : Row(f, from, n)[k] = f[from + k - 1]
<1> DEFINE q == [k \in 1..n |-> f[from + k - 1]]
<1>1. (\A k \in 1..n : q[k] = f[from + k - 1]) /\ q = [k \in 1..n |-> q[k]]
  OBVIOUS
<1>2. Row(f, from, n) = Tuple(q)
  BY DEF Row
<1> HIDE DEF q
<1>3. IsSeq(q) /\ Len(q) = n /\ DOMAIN q = 1..n
  BY <1>1, RowAsSeq
<1> DEFINE r == Tuple(q)
<1>4. IsSeq(r) /\ Len(r) = Len(q) /\ \A j \in DOMAIN q : r[j] = q[j]
  BY <1>3, TupleIs
<1> HIDE DEF r
<1>5. IsSeq(r) /\ Len(r) = n /\ \A k \in 1..n : r[k] = f[from + k - 1]
  BY <1>1, <1>3, <1>4
<1> QED BY <1>2, <1>5 DEF r

\* What a part of read_block_pointers hands to the next.
Got(v, x, idx, count, got) ==
  /\ IsSeq(got) /\ Len(got) <= count
  /\ \A j \in 1..Len(got) : idx + j - 1 < Limit /\ got[j] = At(v.data, x.block, idx + j - 1)
Reading(v, x, idx, count, r) ==
  /\ r = [idx |-> r.idx, left |-> r.left, got |-> r.got]
  /\ Got(v, x, idx, count, r.got) /\ r.idx = idx + Len(r.got) /\ r.left = count - Len(r.got)

\* The words of f from "from" on are the pointers of blocks at, at + 1, ...
RowAt(v, x, f, from, at, n) == \A k \in 0..(n - 1) : f[from + k] = At(v.data, x.block, at + k)
Leads(v, x, idx, count, got, f, from, n) ==
  /\ idx \in Nat /\ count \in Nat /\ n \in Nat /\ from \in Int
  /\ Got(v, x, idx, count, got) /\ RowAt(v, x, f, from, idx + Len(got), n)
  /\ n <= count - Len(got) /\ idx + Len(got) + n <= Limit

LEMMA GotMore ==
  ASSUME NEW v, NEW x, NEW idx, NEW count, NEW got, NEW f, NEW from, NEW n,
         Leads(v, x, idx, count, got, f, from, n)
  PROVE  Got(v, x, idx, count, got \o Row(f, from, n)) /\ Len(got \o Row(f, from, n)) = Len(got) + n
<1> DEFINE c == Len(got)
           at == idx + c
           g == got \o Row(f, from, n)
<1>0. /\ idx \in Nat /\ count \in Nat /\ n \in Nat /\ from \in Int
      /\ Got(v, x, idx, count, got) /\ RowAt(v, x, f, from, at, n)
      /\ n <= count - c /\ idx + c + n <= Limit
  BY DEF Leads
<1> DEFINE q == Row(f, from, n)
<1>1. IsSeq(q) /\ Len(q) = n /\ \A k \in 1..n : q[k] = f[from + k - 1]
  <2>1. n \in Nat
    BY <1>0
  <2> QED BY <2>1, RowIs
<1>2. IsSeq(got) /\ Len(got) \in Nat
  BY <1>0, SeqHas DEF Got
<1> HIDE DEF q
<1>3. /\ IsSeq(g) /\ Len(g) = Len(got) + n
      /\ \A i \in 1..(Len(got) + n) : g[i] = IF i <= Len(got) THEN got[i] ELSE q[i - Len(got)]
  <2>1. g = got \o q
    BY DEF q
  <2>2. /\ IsSeq(got \o q) /\ Len(got \o q) = Len(got) + Len(q)
        /\ \A i \in 1..(Len(got) + Len(q)) : (got \o q)[i] = IF i <= Len(got) THEN got[i] ELSE q[i - Len(got)]
    <3>1. IsSeq(q) /\ IsSeq(got)
      BY <1>1, <1>2
    <3> QED BY <3>1, ConcatIs
  <2>3. Len(q) = n
    BY <1>1
  <2> HIDE DEF g
  <2> QED BY <2>1, <2>2, <2>3
<1> HIDE DEF g
<1>4. ASSUME NEW j \in 1..Len(g)
      PROVE  idx + j - 1 < Limit /\ g[j] = At(v.data, x.block, idx + j - 1)
  <2>1. CASE j <= Len(got)
    <3>1. j \in 1..Len(got) /\ g[j] = got[j]
      BY <1>0, <1>2, <1>3, <2>1
    <3> QED BY <1>0, <3>1 DEF Got
  <2>2. CASE j > Len(got)
    <3> DEFINE k == (j - Len(got)) - 1
    <3>1. j - Len(got) \in 1..n /\ k \in 0..(n - 1) /\ from + (j - Len(got)) - 1 = from + k
          /\ at + k = idx + j - 1
      BY <1>0, <1>2, <1>3, <2>2
    <3>2. g[j] = q[j - Len(got)]
      BY <1>0, <1>2, <1>3, <2>2
    <3>3. q[j - Len(got)] = f[from + k]
      BY <1>1, <3>1
    <3>4. idx + j - 1 < Limit
      BY <1>0, <1>2, <1>3, LimitNat
    <3> HIDE DEF k
    <3>5. f[from + k] = At(v.data, x.block, at + k)
      BY <1>0, <3>1 DEF RowAt
    <3> QED BY <3>1, <3>2, <3>3, <3>4, <3>5
  <2> QED BY <1>0, <1>2, <1>3, <2>1, <2>2
<1>5. Len(g) <= count
  BY <1>0, <1>2, <1>3
<1> QED BY <1>3, <1>4, <1>5 DEF Got, g

LEMMA ReadsDirect ==
  ASSUME NEW v, NEW x, NEW idx \in Nat, NEW count \in Nat
  PROVE  LET r == ReadDirect(x, [idx |-> idx, left |-> count])
         IN  Reading(v, x, idx, count, r) /\ (r.left = 0 \/ r.idx >= NDIRECT)
<1> DEFINE s == [idx |-> idx, left |-> count]
           n == IF idx < NDIRECT THEN Least(count, NDIRECT - idx) ELSE 0
           q == Row(x.block, idx, n)
           r == ReadDirect(x, s)
<1>1. r = [idx |-> idx + n, left |-> count - n, got |-> q]
  BY DEF ReadDirect
<1>2. n \in Nat /\ n <= count /\ (idx + n <= NDIRECT \/ n = 0) /\ (n = count \/ idx + n >= NDIRECT)
  BY Numbers DEF Least
<1> HIDE DEF n, r
<1>3. IsSeq(q) /\ Len(q) = n /\ \A k \in 1..n : q[k] = x.block[idx + k - 1]
  BY <1>2, RowIs
<1> HIDE DEF q
<1>4. ASSUME NEW j \in 1..Len(q) PROVE idx + j - 1 < Limit /\ q[j] = At(v.data, x.block, idx + j - 1)
  <2>1. idx + j - 1 < NDIRECT /\ idx + j - 1 < Limit
    BY <1>2, <1>3, LimitNat, Numbers
  <2> QED BY <1>3, <2>1 DEF At
<1>5. Got(v, x, idx, count, q)
  BY <1>2, <1>3, <1>4 DEF Got
<1>6. r.idx = idx + n /\ r.left = count - n /\ r.got = q
  BY <1>1
<1>7. Reading(v, x, idx, count, r)
  BY <1>1, <1>3, <1>5, <1>6 DEF Reading
<1>8. r.left = 0 \/ r.idx >= NDIRECT
  BY <1>2, <1>6
<1> QED BY <1>7, <1>8 DEF r

\* The pointers are read, or lead on, or end in front of a block that is missing.
SingleEnd(v, x, t) ==
  \/ t.left = 0 \/ t.idx >= NDIRECT + BS
  \/ t.idx >= NDIRECT /\ t.idx < NDIRECT + BS /\ At(v.data, x.block, t.idx) = 0

LEMMA ReadsSingle ==
  ASSUME NEW v, NEW x, NEW idx \in Nat, NEW count \in Nat, NEW r, Reading(v, x, idx, count, r),
         r.left = 0 \/ r.idx >= NDIRECT
  PROVE  LET t == ReadSingle(v, x.block[NDIRECT], r)
         IN  Reading(v, x, idx, count, t) /\ SingleEnd(v, x, t)
<1> DEFINE b == x.block[NDIRECT]
           n == Least(r.left, NDIRECT + BS - r.idx)
           q == Row(v.data[b], r.idx - NDIRECT, n)
           t == ReadSingle(v, b, r)
<1>0. /\ Got(v, x, idx, count, r.got) /\ r.idx = idx + Len(r.got) /\ r.left = count - Len(r.got)
      /\ Len(r.got) \in Nat /\ r.left \in Nat /\ r.idx \in Nat
  <2>1. Got(v, x, idx, count, r.got) /\ r.idx = idx + Len(r.got) /\ r.left = count - Len(r.got)
    BY DEF Reading
  <2>2. Len(r.got) \in Nat /\ Len(r.got) <= count
    BY <2>1, SeqHas DEF Got
  <2> QED BY <2>1, <2>2
<1>1. CASE r.left = 0 \/ r.idx >= NDIRECT + BS \/ b = 0
  <2>1. t = r
    BY <1>1 DEF ReadSingle
  <2>2. CASE ~(r.left = 0 \/ r.idx >= NDIRECT + BS)
    <3>1. r.idx >= NDIRECT /\ r.idx < NDIRECT + BS /\ ~(r.idx < NDIRECT)
      BY <1>0, <2>2, Numbers
    <3>2. At(v.data, x.block, r.idx) = 0
      BY <1>1, <2>2, <3>1 DEF At, Look
    <3> QED BY <2>1, <3>1, <3>2 DEF SingleEnd
  <2> QED BY <2>1, <2>2 DEF SingleEnd
<1>2. CASE ~(r.left = 0 \/ r.idx >= NDIRECT + BS \/ b = 0)
  <2>1. t = [idx |-> r.idx + n, left |-> r.left - n, got |-> r.got \o q]
    BY <1>2 DEF ReadSingle
  <2>2. /\ n \in Nat /\ n <= r.left /\ r.idx >= NDIRECT /\ r.idx + n <= NDIRECT + BS
        /\ (n = r.left \/ r.idx + n >= NDIRECT + BS)
    <3> DEFINE i == r.idx
               l == r.left
    <3>1. i \in Nat /\ l \in Nat /\ i >= NDIRECT /\ ~(i >= NDIRECT + BS)
      BY <1>0, <1>2
    <3>2. n = Least(l, NDIRECT + BS - i)
      OBVIOUS
    <3> HIDE DEF i, l, n
    <3>3. NDIRECT + BS - i \in Nat
      BY <3>1, Numbers
    <3>4. /\ n \in Nat /\ n <= l /\ i >= NDIRECT /\ i + n <= NDIRECT + BS
          /\ (n = l \/ i + n >= NDIRECT + BS)
      BY <3>1, <3>2, <3>3, Numbers DEF Least
    <3> QED BY <3>4 DEF i, l
  <2> HIDE DEF n, t
  <2>3. ASSUME NEW k \in 0..(n - 1) PROVE v.data[b][(r.idx - NDIRECT) + k] = At(v.data, x.block, r.idx + k)
    <3>1. /\ ~(r.idx + k < NDIRECT) /\ r.idx + k < NDIRECT + BS
          /\ (r.idx + k) - NDIRECT = (r.idx - NDIRECT) + k
      BY <1>0, <2>2, Numbers
    <3> QED BY <1>2, <3>1 DEF At, Look
  <2>4. Got(v, x, idx, count, r.got \o q) /\ Len(r.got \o q) = Len(r.got) + n
    <3> DEFINE f == v.data[b]
               from == r.idx - NDIRECT
               g == r.got
    <3>1. /\ Got(v, x, idx, count, g) /\ from \in Int /\ n <= count - Len(g)
          /\ idx + Len(g) + n <= Limit /\ r.idx = idx + Len(g)
      BY <1>0, <2>2, LimitNat, Numbers
    <3>2. RowAt(v, x, f, from, r.idx, n)
      BY <2>3 DEF RowAt
    <3> HIDE DEF f, from, g
    <3>3. Leads(v, x, idx, count, g, f, from, n)
      BY <2>2, <3>1, <3>2 DEF Leads
    <3>4. Got(v, x, idx, count, g \o Row(f, from, n)) /\ Len(g \o Row(f, from, n)) = Len(g) + n
      BY <3>3, GotMore
    <3> QED BY <3>4 DEF f, from, g
  <2> HIDE DEF q
  <2>5. t.idx = r.idx + n /\ t.left = r.left - n /\ t.got = r.got \o q
    BY <2>1
  <2>6. t.idx = idx + Len(t.got) /\ t.left = count - Len(t.got)
    <3> DEFINE c == Len(r.got)
               e == Len(t.got)
    <3>1. e = c + n /\ t.idx = (idx + c) + n /\ t.left = (count - c) - n /\ c \in Nat
      BY <1>0, <2>4, <2>5
    <3> HIDE DEF c, e
    <3>2. t.idx = idx + e /\ t.left = count - e
      BY <2>2, <3>1
    <3> QED BY <3>2 DEF e
  <2>7. Reading(v, x, idx, count, t)
    BY <2>1, <2>4, <2>5, <2>6 DEF Reading
  <2>8. t.left = 0 \/ t.idx >= NDIRECT + BS
    BY <1>0, <2>2, <2>5
  <2> QED BY <2>7, <2>8 DEF t, SingleEnd
<1> QED BY <1>1, <1>2

LEMMA ReadsDouble ==
  ASSUME NEW v, NEW x, NEW idx \in Nat, NEW count \in Nat, NEW r, Reading(v, x, idx, count, r),
         SingleEnd(v, x, r)
  PROVE  LET t == ReadDouble(v, x.block[NDIRECT + 1], r)
         IN  /\ Got(v, x, idx, count, t.got)
             /\ Len(t.got) = 0 /\ count > 0 /\ idx < Limit => At(v.data, x.block, idx) = 0
<1> DEFINE a == x.block[NDIRECT + 1]
           at == r.idx - NDIRECT - BS
           y == at \div BS
           z == at % BS
           b == v.data[a][y]
           n == Least(r.left, BS - z)
           t == ReadDouble(v, a, r)
<1>0. /\ Got(v, x, idx, count, r.got) /\ r.idx = idx + Len(r.got) /\ r.left = count - Len(r.got)
      /\ Len(r.got) \in Nat /\ r.left \in Nat /\ r.idx \in Nat
      /\ r = [idx |-> r.idx, left |-> r.left, got |-> r.got]
  <2>1. Got(v, x, idx, count, r.got) /\ r.idx = idx + Len(r.got) /\ r.left = count - Len(r.got)
        /\ r = [idx |-> r.idx, left |-> r.left, got |-> r.got]
    BY DEF Reading
  <2>2. Len(r.got) \in Nat /\ Len(r.got) <= count
    BY <2>1, SeqHas DEF Got
  <2> QED BY <2>1, <2>2
<1>1. at \in Int /\ (at \in 0..(BS * BS - 1) <=> r.idx >= NDIRECT + BS /\ r.idx < Limit)
  <2> DEFINE S == BS * BS
  <2>1. S \in Nat /\ Limit = NDIRECT + BS + S
    BY LimitNat DEF Limit
  <2> HIDE DEF S
  <2>2. at \in 0..(S - 1) <=> r.idx >= NDIRECT + BS /\ r.idx < Limit
    <3> DEFINE i == r.idx
    <3>1. i \in Nat
      BY <1>0
    <3> HIDE DEF i
    <3>2. (i - NDIRECT - BS) \in 0..(S - 1) <=> i >= NDIRECT + BS /\ i < Limit
      BY <2>1, <3>1, Numbers
    <3> QED BY <3>2 DEF i
  <2> QED BY <1>0, <2>2, Numbers DEF S
<1>2. CASE r.left = 0 \/ at \notin 0..(BS * BS - 1)
  <2>1. t = r
    BY <1>2 DEF ReadDouble
  <2>2. Len(t.got) = 0 /\ count > 0 /\ idx < Limit => At(v.data, x.block, idx) = 0
    <3> SUFFICES ASSUME Len(t.got) = 0, count > 0, idx < Limit PROVE At(v.data, x.block, idx) = 0
      OBVIOUS
    <3>1. r.left # 0 /\ r.idx = idx
      BY <1>0, <2>1
    <3> QED BY <1>1, <1>2, <3>1 DEF SingleEnd
  <2> QED BY <1>0, <2>1, <2>2
<1>3. CASE r.left # 0 /\ at \in 0..(BS * BS - 1)
  <2>1. r.idx >= NDIRECT + BS /\ r.idx < Limit /\ r.idx \in 0..(Limit - 1)
    BY <1>0, <1>1, <1>3, LimitNat
  <2>2. y \in Word /\ z \in Word /\ r.idx = NDIRECT + BS + BS * y + z
    BY <2>1, Where
  <2>3. At(v.data, x.block, r.idx) = Look(v.data, Look(v.data, a, y), z)
    <3>1. ~(r.idx < NDIRECT) /\ ~(r.idx < NDIRECT + BS)
      BY <1>0, <2>1, Numbers
    <3> QED BY <3>1 DEF At
  <2> HIDE DEF y, z
  <2>4. CASE a = 0 \/ b = 0
    <3>1. t = r
      BY <1>3, <2>4 DEF ReadDouble, ReadSecond, y
    <3>2. At(v.data, x.block, r.idx) = 0
      BY <2>3, <2>4 DEF Look
    <3>3. Len(t.got) = 0 => r.idx = idx
      BY <1>0, <3>1
    <3> QED BY <1>0, <3>1, <3>2, <3>3
  <2>5. CASE a # 0 /\ b # 0
    <3>0. at % BS = z
      BY DEF z
    <3>1. t = [r EXCEPT !.got = r.got \o Row(v.data[b], z, n)]
      BY <1>3, <2>5, <3>0 DEF ReadDouble, ReadSecond, y
    <3>2. n \in Nat /\ n >= 1 /\ n <= r.left /\ n <= BS - z
      <4>1. BS - z \in Nat /\ BS - z >= 1
        BY <2>2, Numbers DEF Word
      <4> QED BY <1>0, <1>3, <4>1 DEF Least
    <3> HIDE DEF n, b
    <3>3. ASSUME NEW k \in 0..(n - 1)
          PROVE  r.idx + k < Limit /\ v.data[b][z + k] = At(v.data, x.block, r.idx + k)
      <4> DEFINE l == NDIRECT + BS + BS * y + (z + k)
      <4>1. z + k \in Word /\ k \in Nat
        BY <2>2, <3>2, Numbers DEF Word
      <4>2. /\ l \in NDIRECT..(Limit - 1) /\ l >= NDIRECT + BS
            /\ (l - NDIRECT - BS) \div BS = y /\ (l - NDIRECT - BS) % BS = z + k
        BY <2>2, <4>1, There
      <4>3. r.idx + k = l
        <5> DEFINE Q == BS * y
        <5>1. Q \in Nat /\ z \in Nat /\ y \in Nat
          BY <2>2, Numbers DEF Word
        <5>2. r.idx = NDIRECT + BS + Q + z /\ l = NDIRECT + BS + Q + (z + k)
          BY <2>2
        <5> HIDE DEF Q, l
        <5> QED BY <4>1, <5>1, <5>2, Numbers
      <4> HIDE DEF l
      <4>4. l < Limit /\ ~(l < NDIRECT) /\ ~(l < NDIRECT + BS)
        BY <4>2, LimitNat, Numbers
      <4>5. At(v.data, x.block, l) = Look(v.data, Look(v.data, a, y), z + k)
        BY <4>2, <4>4 DEF At
      <4>6. At(v.data, x.block, l) = v.data[b][z + k]
        BY <2>5, <4>5 DEF Look, b
      <4> QED BY <4>3, <4>4, <4>6
    <3>4. Got(v, x, idx, count, r.got \o Row(v.data[b], z, n)) /\ Len(r.got \o Row(v.data[b], z, n)) = Len(r.got) + n
      <4> DEFINE f == v.data[b]
                 g == r.got
      <4>1. Got(v, x, idx, count, g) /\ z \in Int /\ n <= count - Len(g) /\ r.idx = idx + Len(g)
        BY <1>0, <2>2, <3>2, Numbers DEF Word
      <4>2. idx + Len(g) + n <= Limit
        <5>1. n - 1 \in 0..(n - 1)
          BY <3>2
        <5>2. r.idx + (n - 1) < Limit
          BY <3>3, <5>1
        <5> QED BY <1>0, <3>2, <5>2, LimitNat
      <4>3. RowAt(v, x, f, z, r.idx, n)
        BY <3>3 DEF RowAt
      <4> HIDE DEF f, g
      <4>4. Leads(v, x, idx, count, g, f, z, n)
        BY <3>2, <4>1, <4>2, <4>3 DEF Leads
      <4>5. Got(v, x, idx, count, g \o Row(f, z, n)) /\ Len(g \o Row(f, z, n)) = Len(g) + n
        BY <4>4, GotMore
      <4> QED BY <4>5 DEF f, g
    <3> DEFINE h == r.got \o Row(v.data[b], z, n)
    <3>5. t.got = h
      <4> HIDE DEF t, h
      <4>1. t = [r EXCEPT !.got = h]
        BY <3>1 DEF h
      <4> QED BY <1>0, <4>1
    <3>6. Len(h) # 0
      BY <1>0, <3>2, <3>4
    <3> QED BY <3>4, <3>5, <3>6
  <2> QED BY <2>4, <2>5
<1> QED BY <1>2, <1>3

LEMMA ReadGets ==
  ASSUME NEW v, NEW x, NEW idx \in Nat, NEW count \in Nat
  PROVE  LET g == ReadBlockPointers(v, x, idx, count)
         IN  /\ Got(v, x, idx, count, g) /\ Len(g) \in Nat
             /\ Len(g) = 0 /\ count > 0 /\ idx < Limit => At(v.data, x.block, idx) = 0
<1> DEFINE r == ReadDirect(x, [idx |-> idx, left |-> count])
           s == ReadSingle(v, x.block[NDIRECT], r)
           t == ReadDouble(v, x.block[NDIRECT + 1], s)
<1>1. Reading(v, x, idx, count, r) /\ (r.left = 0 \/ r.idx >= NDIRECT)
  BY ReadsDirect
<1> HIDE DEF r
<1>2. Reading(v, x, idx, count, s) /\ SingleEnd(v, x, s)
  BY <1>1, ReadsSingle
<1> HIDE DEF s
<1>3. /\ Got(v, x, idx, count, t.got)
      /\ Len(t.got) = 0 /\ count > 0 /\ idx < Limit => At(v.data, x.block, idx) = 0
  BY <1>2, ReadsDouble
<1>4. Len(t.got) \in Nat
  BY <1>3, SeqHas DEF Got
<1>5. ReadBlockPointers(v, x, idx, count) = t.got
  BY DEF ReadBlockPointers, r, s
<1> HIDE DEF t
<1> QED BY <1>3, <1>4, <1>5

\* A block of a file is where its pointer says.
LEMMA BlockIs ==
  ASSUME NEW v, NEW x, NEW k \in 0..(Limit - 1)
  PROVE  BlockOf(v, x, k * BS) = At(v.data, x.block, k)
<1> DEFINE g == ReadBlockPointers(v, x, k, 1)
<1>1. k \in Nat /\ 1 \in Nat /\ k < Limit
  BY LimitNat
<1>2. (k * BS) \div BS = k
  <2>1. 0 \in 0..(BS - 1) /\ BS * k + 0 = k * BS
    BY <1>1, Numbers
  <2> QED BY <1>1, <2>1, Numbers, DivUnique
<1>3. /\ Got(v, x, k, 1, g) /\ Len(g) \in Nat
      /\ Len(g) = 0 /\ 1 > 0 /\ k < Limit => At(v.data, x.block, k) = 0
  BY <1>1, ReadGets
<1>4. BlockOf(v, x, k * BS) = FirstOr0(g)
  BY <1>2 DEF BlockOf
<1> HIDE DEF g
<1>5. IsSeq(g) /\ Len(g) <= 1 /\ \A j \in 1..Len(g) : g[j] = At(v.data, x.block, k + j - 1)
  BY <1>3 DEF Got
<1>6. CASE g = <<>>
  <2>1. Len(g) = 0
    BY <1>6, EmptySeq
  <2> QED BY <1>1, <1>3, <1>4, <1>6, <2>1 DEF FirstOr0
<1>7. CASE g # <<>>
  <2>1. PICK S : g \in Seq(S)
    BY <1>5 DEF IsSeq
  <2>2. Len(g) # 0
    BY <1>7, <2>1, EmptySeq
  <2>3. 1 \in 1..Len(g) /\ k + 1 - 1 = k
    BY <1>1, <1>3, <2>2
  <2> QED BY <1>4, <1>5, <1>7, <2>3 DEF FirstOr0
<1> QED BY <1>6, <1>7

-----------------------------------------------------------------------------
(* The blocks of one file among those of the others *)

\* A call on one file: x becomes x2 and takes free blocks only, and blocks in use
\* that were not its own stay in use as they are.
Altered(u, m, x, u2, m2, x2) ==
  /\ Texts(m2) /\ Reserved(u2) /\ Fit(u2, m2, x2)
  /\ \A b \in u : b \notin Holds(m, x) => b \in u2 /\ (b \in Block => m2[b] = m[b])
  /\ Holds(m2, x2) \subseteq Holds(m, x) \cup (Block \ u)

LEMMA HoldsIn == ASSUME NEW u, NEW m, NEW x, Fit(u, m, x) PROVE Holds(m, x) \subseteq (u \cap Block) \ {0}
<1>1. 0 \notin Tree(m, x.block)
  BY DEF Tree
<1> QED BY <1>1 DEF Fit, Mapped, Shape, Holds, Hold

LEMMA FitSame ==
  ASSUME NEW u, NEW m, NEW x, Fit(u, m, x), NEW u2, NEW m2, DOMAIN m2 = Block,
         \A b \in Holds(m, x) : b \in u2 /\ m2[b] = m[b]
  PROVE  Fit(u2, m2, x) /\ Holds(m2, x) = Holds(m, x)
<1> DEFINE p == x.block
           n == CountBlocksNeeded(x.size)
<1>1. Mapped(u, m, p, n) /\ Shape(u, m, p) /\ n \in 0..Limit
  BY DEF Fit, Mapped
<1>2. Tree(m, p) \subseteq Holds(m, x)
  BY DEF Holds, Hold
<1> HIDE DEF p, n
<1>3. \A b \in Tree(m, p) : m2[b] = m[b]
  BY <1>2
<1>4. Tree(m, p) \subseteq u2
  BY <1>2
<1>5. Tree(m2, p) = Tree(m, p) /\ \A k \in 0..(Limit - 1) : At(m2, p, k) = At(m, p, k)
  BY <1>3, SameTree
<1>6. Shape(u2, m2, p)
  BY <1>1, <1>3, <1>4, SameShape
<1>7. \A k \in 0..(n - 1) : At(m2, p, k) = At(m, p, k) /\ At(m, p, k) \in Holds(m, x)
  <2> TAKE k \in 0..(n - 1)
  <2>1. k \in 0..(Limit - 1)
    BY <1>1, LimitNat
  <2>2. At(m, p, k) \in Holds(m, x)
    BY DEF Holds, Hold, p, n
  <2> QED BY <1>5, <2>1, <2>2
<1>8. Mapped(u2, m2, p, n)
  <2>1. \A k \in 0..(n - 1) : At(m2, p, k) \in (u2 \cap Block) \ {0} /\ At(m2, p, k) \notin Tree(m2, p)
    BY <1>1, <1>5, <1>7 DEF Mapped
  <2>2. \A k, l \in 0..(n - 1) : At(m2, p, k) = At(m2, p, l) => k = l
    BY <1>1, <1>7 DEF Mapped
  <2> QED BY <1>1, <1>6, <2>1, <2>2 DEF Mapped
<1>9. Hold(m2, p, n) = Hold(m, p, n)
  BY <1>5, <1>7 DEF Hold
<1> QED BY <1>8, <1>9 DEF Fit, Holds, p, n

LEMMA AlteredTwice ==
  ASSUME NEW u, NEW m, NEW x, NEW u1, NEW m1, NEW x1, NEW u2, NEW m2, NEW x2,
         Altered(u, m, x, u1, m1, x1), Altered(u1, m1, x1, u2, m2, x2)
  PROVE  Altered(u, m, x, u2, m2, x2)
<1>1. ASSUME NEW b \in u, b \notin Holds(m, x) PROVE b \in u2 /\ (b \in Block => m2[b] = m[b])
  <2>1. b \in u1 /\ (b \in Block => m1[b] = m[b]) /\ b \notin Holds(m1, x1)
    BY <1>1 DEF Altered
  <2> QED BY <2>1 DEF Altered
<1>2. ASSUME NEW b \in Holds(m2, x2) PROVE b \in Holds(m, x) \/ b \in Block \ u
  <2>1. b \in Holds(m1, x1) \/ b \in Block \ u1
    BY DEF Altered
  <2> QED BY <2>1 DEF Altered
<1> QED BY <1>1, <1>2 DEF Altered

LEMMA OneAltered ==
  ASSUME NEW u, NEW m, NEW S, NEW X, WellKept(u, m, S, X), NEW i \in S, NEW u2, NEW m2, NEW x2,
         Altered(u, m, X[i], u2, m2, x2), NEW Y, Y[i] = x2, \A j \in S : j # i => Y[j] = X[j]
  PROVE  WellKept(u2, m2, S, Y)
<1>1. ASSUME NEW j \in S, j # i
      PROVE  Fit(u2, m2, X[j]) /\ Holds(m2, X[j]) = Holds(m, X[j])
  <2>1. Fit(u, m, X[j]) /\ Holds(m, X[j]) \cap Holds(m, X[i]) = {}
    BY <1>1 DEF WellKept
  <2>2. Holds(m, X[j]) \subseteq u \cap Block
    BY <2>1, HoldsIn
  <2>3. DOMAIN m2 = Block /\ \A b \in Holds(m, X[j]) : b \in u2 /\ m2[b] = m[b]
    BY <2>1, <2>2 DEF Altered, Texts
  <2> QED BY <2>1, <2>3, FitSame
<1>2. \A j \in S : Fit(u2, m2, Y[j])
  BY <1>1 DEF Altered
<1>3. ASSUME NEW j \in S, j # i PROVE Holds(m2, Y[j]) \cap Holds(m2, Y[i]) = {}
  <2>1. Fit(u, m, X[j]) /\ Holds(m, X[j]) \cap Holds(m, X[i]) = {}
    BY <1>3 DEF WellKept
  <2>2. Holds(m, X[j]) \subseteq u \cap Block
    BY <2>1, HoldsIn
  <2>3. Holds(m2, Y[j]) = Holds(m, X[j]) /\ Holds(m2, Y[i]) \subseteq Holds(m, X[i]) \cup (Block \ u)
    BY <1>1, <1>3 DEF Altered
  <2> QED BY <2>1, <2>2, <2>3
<1>4. ASSUME NEW j \in S, NEW k \in S, j # i, k # i, j # k PROVE Holds(m2, Y[j]) \cap Holds(m2, Y[k]) = {}
  <2>1. Holds(m2, Y[j]) = Holds(m, X[j]) /\ Holds(m2, Y[k]) = Holds(m, X[k])
    BY <1>1, <1>4
  <2> QED BY <1>4, <2>1 DEF WellKept
<1>5. \A j, k \in S : j # k => Holds(m2, Y[j]) \cap Holds(m2, Y[k]) = {}
  BY <1>3, <1>4
<1> QED BY <1>2, <1>5 DEF WellKept, Altered

LEMMA OneLess ==
  ASSUME NEW u, NEW m, NEW S, NEW X, WellKept(u, m, S, X), NEW i \in S, NEW u2, Reserved(u2),
         \A b \in u : b \in u2 \/ b \in Holds(m, X[i]), NEW Y, \A j \in S : j # i => Y[j] = X[j]
  PROVE  WellKept(u2, m, S \ {i}, Y)
<1>1. ASSUME NEW j \in S, j # i PROVE Fit(u2, m, Y[j]) /\ Y[j] = X[j]
  <2>1. Fit(u, m, X[j]) /\ Holds(m, X[j]) \cap Holds(m, X[i]) = {}
    BY <1>1 DEF WellKept
  <2>2. Holds(m, X[j]) \subseteq u \cap Block
    BY <2>1, HoldsIn
  <2>3. DOMAIN m = Block /\ \A b \in Holds(m, X[j]) : b \in u2 /\ m[b] = m[b]
    BY <2>1, <2>2 DEF WellKept, Texts
  <2>4. Fit(u2, m, X[j])
    BY <2>1, <2>3, FitSame
  <2> QED BY <1>1, <2>4
<1> QED BY <1>1 DEF WellKept

\* Inode i is new among those of S, and has only blocks that are new too.
Joined(u, m, S, X, i, u2, Y) ==
  /\ i \notin S /\ Reserved(u2) /\ u \subseteq u2 /\ Fit(u2, m, Y[i])
  /\ Holds(m, Y[i]) \cap u = {} /\ \A j \in S : Y[j] = X[j]

LEMMA OneMore ==
  ASSUME NEW u, NEW m, NEW S, NEW X, WellKept(u, m, S, X), NEW i, NEW u2, NEW Y, Joined(u, m, S, X, i, u2, Y)
  PROVE  WellKept(u2, m, S \cup {i}, Y)
<1>0. /\ i \notin S /\ Reserved(u2) /\ u \subseteq u2 /\ Fit(u2, m, Y[i])
      /\ Holds(m, Y[i]) \cap u = {} /\ \A j \in S : Y[j] = X[j]
  BY DEF Joined
<1>1. ASSUME NEW j \in S PROVE Fit(u2, m, Y[j]) /\ Holds(m, Y[j]) \cap Holds(m, Y[i]) = {}
  <2>1. Fit(u, m, X[j])
    BY DEF WellKept
  <2>2. Holds(m, X[j]) \subseteq u \cap Block
    BY <2>1, HoldsIn
  <2>3. DOMAIN m = Block /\ \A b \in Holds(m, X[j]) : b \in u2 /\ m[b] = m[b]
    BY <1>0, <2>2 DEF WellKept, Texts
  <2>4. Fit(u2, m, X[j])
    BY <2>1, <2>3, FitSame
  <2> QED BY <1>0, <2>2, <2>4
<1>2. \A j \in S \cup {i} : Fit(u2, m, Y[j])
  BY <1>0, <1>1
<1>3. \A j, k \in S : j # k => Holds(m, Y[j]) \cap Holds(m, Y[k]) = {}
  BY <1>0 DEF WellKept
<1>4. \A j, k \in S \cup {i} : j # k => Holds(m, Y[j]) \cap Holds(m, Y[k]) = {}
  BY <1>1, <1>3
<1> QED BY <1>0, <1>2, <1>4 DEF WellKept

\* How many blocks a size needs.
LEMMA NeededIs ==
  ASSUME NEW s \in Nat
  PROVE  /\ CountBlocksNeeded(s) \in Nat /\ BS * CountBlocksNeeded(s) \in Nat
         /\ s <= BS * CountBlocksNeeded(s) /\ BS * CountBlocksNeeded(s) < s + BS
<1> DEFINE a == s + BS - 1
           n == a \div BS
           r == a % BS
<1>1. a \in Nat
  BY Numbers
<1>2. n \in Nat /\ r \in 0..(BS - 1) /\ a = BS * n + r
  BY <1>1, Numbers, DivMod
<1> DEFINE Q == BS * n
<1>3. Q \in Nat
  BY <1>2, Numbers
<1>4. a = Q + r /\ a = s + BS - 1
  BY <1>2
<1>5. CountBlocksNeeded(s) = n
  BY DEF CountBlocksNeeded
<1> HIDE DEF a, n, r
<1>6. BS * CountBlocksNeeded(s) = Q
  BY <1>5
<1> HIDE DEF Q
<1>7. s <= Q /\ Q < s + BS
  BY <1>2, <1>3, <1>4, Numbers
<1> QED BY <1>2, <1>3, <1>5, <1>6, <1>7

LEMMA Multiples ==
  ASSUME NEW a \in Nat, NEW b \in Nat, a < b
  PROVE  BS * a + BS <= BS * b /\ BS * a \in Nat /\ BS * b \in Nat
<1> DEFINE c == b - a - 1
           A == BS * a
           C == BS * c
<1>1. c \in Nat /\ b = a + 1 + c
  OBVIOUS
<1>2. BS * b = A + BS + C
  <2> HIDE DEF c
  <2>1. BS * (a + 1 + c) = A + BS + C
    BY <1>1, Numbers
  <2> QED BY <1>1, <2>1
<1>3. A \in Nat /\ C \in Nat
  <2> HIDE DEF c
  <2> QED BY <1>1, Numbers
<1> HIDE DEF A, C
<1> QED BY <1>2, <1>3, Numbers DEF A

LEMMA NeededMore ==
  ASSUME NEW s \in Nat, NEW t \in Nat, s <= t
  PROVE  CountBlocksNeeded(s) <= CountBlocksNeeded(t)
<1> DEFINE n == CountBlocksNeeded(s)
           l == CountBlocksNeeded(t)
<1>1. n \in Nat /\ BS * n \in Nat /\ BS * n < s + BS /\ l \in Nat /\ BS * l \in Nat /\ t <= BS * l
  BY NeededIs
<1> SUFFICES ASSUME l < n PROVE FALSE
  BY <1>1
<1> HIDE DEF n, l
<1>2. BS * l + BS <= BS * n
  BY <1>1, Multiples
<1> DEFINE N == BS * n
           L == BS * l
<1>3. N \in Nat /\ L \in Nat /\ N < s + BS /\ t <= L /\ L + BS <= N
  BY <1>1, <1>2
<1> HIDE DEF N, L
<1> QED BY <1>3, Numbers

\* A word of the file is in one of its blocks.
LEMMA NeededHas ==
  ASSUME NEW s \in Nat, NEW p \in Nat, p < s
  PROVE  p \div BS \in Nat /\ p \div BS < CountBlocksNeeded(s)
<1> DEFINE n == CountBlocksNeeded(s)
           k == p \div BS
           r == p % BS
<1>1. n \in Nat /\ BS * n \in Nat /\ s <= BS * n
  BY NeededIs
<1>2. k \in Nat /\ r \in 0..(BS - 1) /\ p = BS * k + r
  BY Numbers, DivMod
<1> HIDE DEF n, k, r
<1>3. k < n
  <2> SUFFICES ASSUME n <= k PROVE FALSE
    BY <1>1, <1>2
  <2> DEFINE N == BS * n
             K == BS * k
  <2>1. N <= K /\ K \in Nat /\ N \in Nat
    <3>1. CASE n = k
      BY <1>1, <3>1
    <3>2. CASE n < k
      <4>1. BS * n + BS <= BS * k /\ BS * k \in Nat
        BY <1>1, <1>2, <3>2, Multiples
      <4> QED BY <1>1, <4>1, Numbers
    <3> QED BY <1>1, <1>2, <3>1, <3>2
  <2>2. s <= N /\ p = K + r
    BY <1>1, <1>2
  <2> HIDE DEF N, K
  <2> QED BY <1>2, <2>1, <2>2, Numbers
<1> QED BY <1>2, <1>3 DEF n, k

LEMMA NeededNext == ASSUME NEW s \in Nat PROVE CountBlocksNeeded(s + BS) = CountBlocksNeeded(s) + 1
<1> DEFINE a == s + BS - 1
           n == a \div BS
           r == a % BS
<1>1. a \in Nat
  BY Numbers
<1>2. n \in Nat /\ r \in 0..(BS - 1) /\ a = BS * n + r
  BY <1>1, Numbers, DivMod
<1>3. CountBlocksNeeded(s) = n
  BY DEF CountBlocksNeeded
<1>4. s + BS + BS - 1 = BS * (n + 1) + r
  <2> HIDE DEF n, r
  <2>1. BS * (n + 1) = BS * n + BS
    BY <1>2, Numbers
  <2> DEFINE Q == BS * n
  <2>2. Q \in Nat /\ BS * (n + 1) = Q + BS /\ s + BS - 1 = Q + r
    BY <1>2, <2>1, Numbers
  <2> HIDE DEF Q
  <2> QED BY <1>2, <2>2, Numbers
<1> HIDE DEF n, r
<1>5. (BS * (n + 1) + r) \div BS = n + 1
  <2>1. n + 1 \in Nat
    BY <1>2
  <2> QED BY <1>2, <2>1, Numbers, DivUnique
<1> QED BY <1>3, <1>4, <1>5 DEF CountBlocksNeeded

-----------------------------------------------------------------------------
\* The first c blocks of the file with pointers p2 are there now: x was the file.
Grown(u, m, x, u2, m2, p2, c) ==
  /\ Texts(m2) /\ Reserved(u2) /\ Mapped(u2, m2, p2, c)
  /\ \A b \in u : b \notin Holds(m, x) => b \in u2 /\ (b \in Block => m2[b] = m[b])
  /\ Hold(m2, p2, c) \subseteq Holds(m, x) \cup (Block \ u)

LEMMA GrownAltered ==
  ASSUME NEW u, NEW m, NEW x, NEW u2, NEW m2, NEW p2, NEW c, Grown(u, m, x, u2, m2, p2, c),
         NEW y, IsInode(y), y.block = p2, CountBlocksNeeded(y.size) <= c
  PROVE  Altered(u, m, x, u2, m2, y)
<1> DEFINE n == CountBlocksNeeded(y.size)
<1>1. n \in Nat /\ c \in Nat /\ n \in 0..Limit /\ c \in 0..Limit
  <2>1. n \in Nat /\ c \in 0..Limit
    BY NeededNat DEF IsInode, Grown, Mapped
  <2> QED BY <2>1, LimitNat
<1> HIDE DEF n
<1>2. \A k \in 0..(n - 1) : k \in 0..(c - 1)
  BY <1>1 DEF n
<1>3. Mapped(u2, m2, p2, n)
  BY <1>1, <1>2 DEF Grown, Mapped
<1>4. Hold(m2, p2, n) \subseteq Hold(m2, p2, c)
  BY <1>2 DEF Hold
<1> QED BY <1>3, <1>4 DEF Grown, Altered, Fit, Holds, n

LEMMA Growth ==
  ASSUME NEW u, NEW m, NEW x, Fit(u, m, x), Reserved(u), NEW u2, NEW m2, NEW p2, NEW c,
         Texts(m2), Shape(u2, m2, p2), u \subseteq u2, c \in 0..Limit,
         Tree(m2, p2) \subseteq Tree(m, x.block) \cup (Block \ u),
         \A b \in Block : b \notin Tree(m2, p2) => m2[b] = m[b],
         \A k \in 0..(CountBlocksNeeded(x.size) - 1) : k < c /\ At(m2, p2, k) = At(m, x.block, k),
         \A k \in CountBlocksNeeded(x.size)..(c - 1) :
           At(m2, p2, k) \in (u2 \cap Block) \ {0} /\ At(m2, p2, k) \notin u /\ At(m2, p2, k) \notin Tree(m2, p2),
         \A k, l \in CountBlocksNeeded(x.size)..(c - 1) : At(m2, p2, k) = At(m2, p2, l) => k = l
  PROVE  Grown(u, m, x, u2, m2, p2, c)
<1> DEFINE p == x.block
           n == CountBlocksNeeded(x.size)
<1>1. Mapped(u, m, p, n) /\ n \in Nat /\ c \in Nat
  <2>1. n \in Nat
    BY NeededNat DEF Fit, IsInode
  <2> QED BY <2>1, LimitNat DEF Fit
<1>2. Holds(m, x) = Hold(m, p, n) /\ Tree(m, p) \subseteq Holds(m, x)
  BY DEF Holds, Hold
<1> HIDE DEF p, n
<1>3. \A k \in 0..(c - 1) : k \in 0..(n - 1) \/ k \in n..(c - 1)
  BY <1>1
<1>4. ASSUME NEW k \in 0..(n - 1)
      PROVE  /\ At(m2, p2, k) = At(m, p, k) /\ At(m2, p2, k) \in (u2 \cap Block) \ {0} /\ At(m2, p2, k) \in u
             /\ At(m2, p2, k) \notin Tree(m2, p2) /\ At(m2, p2, k) \in Holds(m, x)
  <2>1. At(m2, p2, k) = At(m, p, k)
    BY DEF p, n
  <2>2. At(m, p, k) \in (u \cap Block) \ {0} /\ At(m, p, k) \notin Tree(m, p)
    BY <1>1 DEF Mapped
  <2>3. At(m, p, k) \in Holds(m, x)
    BY <1>2 DEF Hold
  <2>4. At(m, p, k) \notin Tree(m2, p2)
    BY <2>2 DEF p
  <2> QED BY <2>1, <2>2, <2>3, <2>4
<1>5. ASSUME NEW k \in n..(c - 1)
      PROVE  /\ At(m2, p2, k) \in (u2 \cap Block) \ {0} /\ At(m2, p2, k) \notin u
             /\ At(m2, p2, k) \notin Tree(m2, p2)
  BY DEF n
<1>6. \A k \in 0..(c - 1) : At(m2, p2, k) \in (u2 \cap Block) \ {0} /\ At(m2, p2, k) \notin Tree(m2, p2)
  BY <1>3, <1>4, <1>5
<1>7. ASSUME NEW k \in 0..(c - 1), NEW l \in 0..(c - 1), At(m2, p2, k) = At(m2, p2, l) PROVE k = l
  <2>1. CASE k \in 0..(n - 1) /\ l \in 0..(n - 1)
    <3>1. At(m, p, k) = At(m, p, l)
      BY <1>4, <1>7, <2>1
    <3> QED BY <1>1, <2>1, <3>1 DEF Mapped
  <2>2. CASE k \in n..(c - 1) /\ l \in n..(c - 1)
    BY <1>7, <2>2 DEF n
  <2>3. CASE (k \in 0..(n - 1) /\ l \in n..(c - 1)) \/ (l \in 0..(n - 1) /\ k \in n..(c - 1))
    BY <1>4, <1>5, <1>7, <2>3
  <2> QED BY <1>3, <2>1, <2>2, <2>3
<1>8. Mapped(u2, m2, p2, c)
  BY <1>6, <1>7 DEF Mapped
<1>9. ASSUME NEW b \in u, b \notin Holds(m, x) PROVE b \in u2 /\ (b \in Block => m2[b] = m[b])
  <2>1. b \notin Tree(m2, p2)
    BY <1>2, <1>9 DEF p
  <2> QED BY <2>1
<1>10. Hold(m2, p2, c) \subseteq Holds(m, x) \cup (Block \ u)
  <2>1. Tree(m2, p2) \subseteq Holds(m, x) \cup (Block \ u)
    BY <1>2 DEF p
  <2>2. ASSUME NEW k \in 0..(c - 1) PROVE At(m2, p2, k) \in Holds(m, x) \cup (Block \ u)
    BY <1>3, <1>4, <1>5
  <2> QED BY <2>1, <2>2 DEF Hold
<1>11. Reserved(u2)
  BY ReservedMore
<1> QED BY <1>8, <1>9, <1>10, <1>11 DEF Grown

\* Index blocks are rows of words, other blocks are as they were.
LEMMA WroteTexts ==
  ASSUME NEW v, NEW p, NEW idx, NEW ptrs, NEW w, NEW p2, NEW done, Wrote(v, p, idx, ptrs, w, p2, done),
         Texts(v.data)
  PROVE  Texts(w.data)
<1>1. DOMAIN w.data = Block /\ \A b \in Tree(w.data, p2) : DOMAIN w.data[b] = Word
  BY DEF Wrote, Shape
<1>2. \A b \in Block : b \notin Tree(w.data, p2) => w.data[b] = v.data[b]
  BY DEF Wrote
<1>3. ASSUME NEW b \in Block PROVE DOMAIN w.data[b] = Word \/ IsSeq(w.data[b])
  BY <1>1, <1>2 DEF Texts
<1> QED BY <1>1, <1>3 DEF Texts

\* What a call that looks for blocks starts from, and what it answers.
Ready(v, x) == /\ IsVolume(v) /\ Reserved(v.used) /\ Texts(v.data) /\ Fit(v.used, v.data, x)
Ensured(v, x, e, c) ==
  /\ SameInodes(v, e.vol) /\ InodeLike(x, e.inode)
  /\ Grown(v.used, v.data, x, e.vol.used, e.vol.data, e.inode.block, c)

LEMMA GrownNot ==
  ASSUME NEW v, NEW x, Ready(v, x)
  PROVE  Grown(v.used, v.data, x, v.used, v.data, x.block, CountBlocksNeeded(x.size)) /\ InodeLike(x, x)
BY DEF Ready, Grown, Fit, Holds, InodeLike, IsInode

\* Blocks taken for the file, and pointers to some of them written.
LEMMA StoredSome ==
  ASSUME NEW v, NEW x, Ready(v, x), NEW a, NEW more \in Nat \ {0}, TookBlocks(v, a, more), ~a.full,
         NEW s, s = WriteBlockPointers(a.vol, x, CountBlocksNeeded(x.size), a.blocks)
  PROVE  LET n == CountBlocksNeeded(x.size)
             B == {a.blocks[j] : j \in 1..more}
             u2 == IF s.left # 0 THEN s.vol.used \ B ELSE s.vol.used
             c == IF s.left # 0 THEN n ELSE n + more
         IN  /\ SameInodes(v, s.vol) /\ InodeLike(x, s.inode)
             /\ Grown(v.used, v.data, x, u2, s.vol.data, s.inode.block, c)
<1> DEFINE n == CountBlocksNeeded(x.size)
           q == a.blocks
           B == {q[j] : j \in 1..more}
           p == x.block
           p2 == s.inode.block
           done == s.from - 1
           u2 == IF s.left # 0 THEN s.vol.used \ B ELSE s.vol.used
           c == IF s.left # 0 THEN n ELSE n + more
           m2 == s.vol.data
<1>1. /\ IsVolume(v) /\ Reserved(v.used) /\ Texts(v.data) /\ Fit(v.used, v.data, x)
      /\ n \in Nat /\ Mapped(v.used, v.data, p, n) /\ Shape(v.used, v.data, p) /\ IsInode(x) /\ n \in 0..Limit
  <2>1. IsVolume(v) /\ Reserved(v.used) /\ Texts(v.data) /\ Fit(v.used, v.data, x)
    BY DEF Ready
  <2>2. n \in Nat
    BY <2>1, NeededNat DEF Fit, IsInode
  <2> QED BY <2>1, <2>2 DEF Fit, Mapped
<1>2. /\ SameInodes(v, a.vol) /\ a.vol.data = v.data /\ Len(q) = more /\ q \in Seq(Nat)
      /\ a.vol.used = v.used \cup B
      /\ \A j \in 1..more : q[j] \in Block \ {0} /\ q[j] \notin v.used
      /\ \A j, k \in 1..more : q[j] = q[k] => j = k
  BY DEF TookBlocks
<1> HIDE DEF n, q
<1>3. B \subseteq Block \ {0} /\ B \cap v.used = {}
  BY <1>2
<1>4. Writable(a.vol, x, n, q)
  <2>1. IsVolume(a.vol)
    BY <1>2 DEF SameInodes
  <2>2. Reserved(a.vol.used)
    BY <1>1, <1>2, ReservedMore
  <2>3. Shape(a.vol.used, a.vol.data, p)
    <3>1. DOMAIN v.data = Block /\ Tree(v.data, p) \subseteq a.vol.used
      BY <1>1, <1>2 DEF Shape
    <3>2. \A b \in Tree(v.data, p) : v.data[b] = v.data[b]
      OBVIOUS
    <3> HIDE DEF B, p
    <3>3. Shape(a.vol.used, v.data, p)
      BY <1>1, <3>1, <3>2, SameShape
    <3> QED BY <1>2, <3>3
  <2> QED BY <1>1, <1>2, <2>1, <2>2, <2>3 DEF Writable
<1>5. Writing(a.vol, x, n, q, s)
  <2>1. s = WriteBlockPointers(a.vol, x, n, q)
    BY DEF n, q
  <2> QED BY <1>4, <2>1, WriteWrites
<1>6. /\ Wrote(a.vol, p, n, q, s.vol, p2, done) /\ done \in Nat /\ s.left = more - done /\ done <= more
      /\ InodeLike(x, s.inode)
  <2>1. Wrote(a.vol, p, n, q, s.vol, p2, done) /\ done \in Nat /\ s.left = Len(q) - done /\ s.left \in Nat
    BY <1>4, <1>5, WritingHas
  <2>2. InodeLike(x, s.inode)
    BY <1>5 DEF Writing
  <2> QED BY <1>2, <2>1, <2>2
<1> HIDE DEF p, p2, done, B, m2
<1>7. /\ SameInodes(a.vol, s.vol) /\ a.vol.used \subseteq s.vol.used /\ Shape(s.vol.used, m2, p2)
      /\ Tree(m2, p2) \subseteq Tree(v.data, p) \cup (Block \ a.vol.used)
      /\ \A b \in Block : b \notin Tree(m2, p2) => m2[b] = v.data[b]
      /\ \A k \in 0..(Limit - 1) : At(m2, p2, k) = IF k >= n /\ k < n + done THEN q[1 + (k - n)] ELSE At(v.data, p, k)
      /\ done > 0 => n + done <= Limit
  BY <1>2, <1>6 DEF Wrote, m2
<1>8. Texts(m2)
  BY <1>1, <1>2, <1>6, WroteTexts DEF m2
<1>9. SameInodes(v, s.vol)
  BY <1>2, <1>7, SameInodesOn
<1>10. Tree(v.data, p) \subseteq v.used /\ Tree(m2, p2) \cap B = {} /\ Tree(m2, p2) \subseteq Tree(v.data, p) \cup (Block \ v.used)
  BY <1>1, <1>2, <1>3, <1>7 DEF Shape
<1>11. v.used \subseteq u2 /\ (s.left = 0 => B \subseteq u2)
  BY <1>2, <1>3, <1>7
<1>12. Shape(u2, m2, p2)
  <2>1. Tree(m2, p2) \subseteq u2 /\ DOMAIN m2 = Block
    BY <1>7, <1>10 DEF Shape
  <2>2. \A b \in Tree(m2, p2) : m2[b] = m2[b]
    OBVIOUS
  <2> HIDE DEF u2
  <2> QED BY <1>7, <2>1, <2>2, SameShape
<1>13. c \in 0..Limit /\ c \in Nat /\ n <= c
  <2>1. CASE s.left # 0
    BY <1>1, <2>1
  <2>2. CASE s.left = 0
    <3>1. done = more /\ done > 0
      BY <1>6, <2>2
    <3> QED BY <1>1, <1>7, <2>2, <3>1, LimitNat
  <2> QED BY <2>1, <2>2
<1>14. ASSUME NEW k \in 0..(n - 1) PROVE k < c /\ At(m2, p2, k) = At(v.data, p, k)
  <2>1. k \in 0..(Limit - 1) /\ ~(k >= n) /\ k < c
    <3> HIDE DEF c
    <3> QED BY <1>1, <1>13, LimitNat
  <2> QED BY <1>7, <2>1
<1>15. ASSUME NEW k \in n..(c - 1)
       PROVE  s.left = 0 /\ 1 + (k - n) \in 1..more /\ At(m2, p2, k) = q[1 + (k - n)]
  <2>1. s.left = 0 /\ c = n + more
    BY <1>1
  <2>2. done = more
    BY <1>6, <2>1
  <2>3. k \in 0..(Limit - 1) /\ k >= n /\ k < n + done /\ 1 + (k - n) \in 1..more
    BY <1>1, <1>13, <2>1, <2>2, LimitNat
  <2> QED BY <1>7, <2>1, <2>3
<1>16. ASSUME NEW k \in n..(c - 1)
       PROVE  At(m2, p2, k) \in (u2 \cap Block) \ {0} /\ At(m2, p2, k) \notin v.used /\ At(m2, p2, k) \notin Tree(m2, p2)
  <2>1. At(m2, p2, k) \in B /\ s.left = 0
    BY <1>15 DEF B
  <2> HIDE DEF u2
  <2> QED BY <1>3, <1>10, <1>11, <2>1
<1>17. ASSUME NEW k \in n..(c - 1), NEW l \in n..(c - 1), At(m2, p2, k) = At(m2, p2, l) PROVE k = l
  <2>1. 1 + (k - n) = 1 + (l - n)
    BY <1>2, <1>15, <1>17
  <2>2. k \in Int /\ l \in Int
    BY <1>1, <1>13
  <2> QED BY <1>1, <2>1, <2>2
<1> HIDE DEF u2, c
<1>18. Grown(v.used, v.data, x, u2, m2, p2, c)
  <2>1. Tree(m2, p2) \subseteq Tree(v.data, x.block) \cup (Block \ v.used)
    BY <1>10 DEF p
  <2>2. \A k \in 0..(CountBlocksNeeded(x.size) - 1) : k < c /\ At(m2, p2, k) = At(v.data, x.block, k)
    BY <1>14 DEF p, n
  <2>3. \A k \in CountBlocksNeeded(x.size)..(c - 1) :
          At(m2, p2, k) \in (u2 \cap Block) \ {0} /\ At(m2, p2, k) \notin v.used /\ At(m2, p2, k) \notin Tree(m2, p2)
    BY <1>16 DEF n
  <2>4. \A k, l \in CountBlocksNeeded(x.size)..(c - 1) : At(m2, p2, k) = At(m2, p2, l) => k = l
    BY <1>17 DEF n
  <2> QED BY <1>1, <1>7, <1>8, <1>11, <1>12, <1>13, <2>1, <2>2, <2>3, <2>4, Growth
<1> QED BY <1>6, <1>9, <1>18 DEF u2, c, m2, p2, n, B, q

LEMMA EnsureBlocks ==
  ASSUME NEW v, NEW x, Ready(v, x), NEW required \in Nat
  PROVE  LET e == EnsureBlocksAllocated(v, x, required)
         IN  /\ e.ok \in BOOLEAN
             /\ Ensured(v, x, e, IF e.ok THEN Larger(CountBlocksNeeded(x.size), required)
                                         ELSE CountBlocksNeeded(x.size))
<1> DEFINE n == CountBlocksNeeded(x.size)
           more == required - n
           a == AllocateBlocks(v, more)
           q == a.blocks
           s == WriteBlockPointers(a.vol, x, n, q)
           e == EnsureBlocksAllocated(v, x, required)
<1>1. n \in Nat /\ IsVolume(v) /\ Reserved(v.used)
  BY NeededNat DEF Ready, Fit, IsInode
<1>2. Grown(v.used, v.data, x, v.used, v.data, x.block, n) /\ InodeLike(x, x)
  BY GrownNot
<1>3. CASE more <= 0
  <2>1. e = [vol |-> v, inode |-> x, ok |-> TRUE]
    BY <1>3 DEF EnsureBlocksAllocated
  <2> HIDE DEF e, n
  <2>2. Larger(n, required) = n
    BY <1>1, <1>3 DEF Larger
  <2>3. e.vol = v /\ e.inode = x /\ e.ok = TRUE
    BY <2>1
  <2>4. SameInodes(v, v)
    BY <1>1 DEF SameInodes
  <2>5. Ensured(v, x, e, n)
    BY <1>2, <2>3, <2>4 DEF Ensured
  <2> QED BY <2>2, <2>3, <2>5 DEF e, n
<1>4. CASE more > 0
  <2>1. e = StoreBlocks(a, x)
    BY <1>1, <1>4 DEF EnsureBlocksAllocated
  <2>2. more \in Nat \ {0}
    BY <1>1, <1>4
  <2>3. TookBlocks(v, a, more)
    BY <1>1, <2>2, TakeAll
  <2> HIDE DEF a, e, n
  <2>4. /\ SameInodes(v, a.vol) /\ a.vol.data = v.data /\ q \in Seq(Nat) /\ a.full \in BOOLEAN
        /\ a.vol.used = v.used \cup {q[j] : j \in 1..Len(q)}
        /\ \A j \in 1..Len(q) : q[j] \in Block \ {0} /\ q[j] \notin v.used
        /\ Len(q) \in Nat /\ DOMAIN q = 1..Len(q) /\ (~a.full => Len(q) = more)
    BY <2>3 DEF TookBlocks
  <2>5. CASE a.full
    <3> DEFINE w == FreeBlocks(a.vol, q)
               B == {q[j] : j \in 1..Len(q)}
    <3>1. e = [vol |-> w, inode |-> x, ok |-> FALSE]
      BY <2>1, <2>5 DEF StoreBlocks
    <3>2. SameInodes(a.vol, w) /\ w.data = a.vol.data /\ w.used = a.vol.used \ (B \cap Block)
      <4>1. IsVolume(a.vol)
        BY <2>4 DEF SameInodes
      <4> HIDE DEF q
      <4> QED BY <2>4, <4>1, FreeAll
    <3> HIDE DEF w
    <3>3. B \subseteq Block /\ B \cap v.used = {}
      BY <2>4
    <3>4. w.used = v.used /\ w.data = v.data /\ SameInodes(v, w)
      <4>1. a.vol.used = v.used \cup B
        BY <2>4
      <4> HIDE DEF B
      <4>2. w.used = v.used
        BY <3>2, <3>3, <4>1
      <4> QED BY <2>4, <3>2, <4>2, SameInodesOn
    <3>5. e.vol = w /\ e.inode = x /\ e.ok = FALSE
      BY <3>1
    <3>6. Ensured(v, x, e, n)
      BY <1>2, <3>4, <3>5 DEF Ensured
    <3> QED BY <3>5, <3>6 DEF e, n
  <2>6. CASE ~a.full
    <3> DEFINE B == {a.blocks[j] : j \in 1..more}
               u2 == IF s.left # 0 THEN s.vol.used \ B ELSE s.vol.used
               c == IF s.left # 0 THEN n ELSE n + more
               w == FreeBlocks(s.vol, q)
    <3>1. e = StorePointers(s, q)
      BY <2>1, <2>6 DEF StoreBlocks, n
    <3>2. /\ SameInodes(v, s.vol) /\ InodeLike(x, s.inode)
          /\ Grown(v.used, v.data, x, u2, s.vol.data, s.inode.block, c)
      BY <2>2, <2>3, <2>6, StoredSome DEF n
    <3> HIDE DEF s
    <3>3. CASE s.left # 0
      <4>1. e = [vol |-> w, inode |-> s.inode, ok |-> FALSE]
        BY <3>1, <3>3 DEF StorePointers
      <4>2. SameInodes(s.vol, w) /\ w.data = s.vol.data /\ w.used = s.vol.used \ ({q[j] : j \in 1..Len(q)} \cap Block)
        <5>1. IsVolume(s.vol)
          BY <3>2 DEF SameInodes
        <5> HIDE DEF q
        <5> QED BY <2>4, <5>1, FreeAll
      <4> HIDE DEF w
      <4>3. w.used = u2 /\ c = n
        <5>1. {q[j] : j \in 1..Len(q)} = B /\ B \subseteq Block
          BY <2>4, <2>6
        <5> HIDE DEF B
        <5> QED BY <3>3, <4>2, <5>1
      <4>4. e.vol = w /\ e.inode = s.inode /\ e.ok = FALSE
        BY <4>1
      <4>5. SameInodes(v, w)
        BY <3>2, <4>2, SameInodesOn
      <4> HIDE DEF u2, c
      <4>6. Ensured(v, x, e, n)
        BY <3>2, <4>2, <4>3, <4>4, <4>5 DEF Ensured
      <4> QED BY <4>4, <4>6 DEF e, n
    <3>4. CASE s.left = 0
      <4>1. e = [vol |-> s.vol, inode |-> s.inode, ok |-> TRUE]
        BY <3>1, <3>4 DEF StorePointers
      <4>2. u2 = s.vol.used /\ c = n + more /\ n + more = required /\ Larger(n, required) = required
        BY <1>1, <1>4, <3>4 DEF Larger
      <4>3. e.vol = s.vol /\ e.inode = s.inode /\ e.ok = TRUE
        BY <4>1
      <4> HIDE DEF u2, c
      <4>4. Ensured(v, x, e, Larger(n, required))
        BY <3>2, <4>2, <4>3 DEF Ensured
      <4> QED BY <4>3, <4>4 DEF e, n
    <3> QED BY <3>3, <3>4
  <2> QED BY <2>4, <2>5, <2>6
<1> QED BY <1>1, <1>3, <1>4

-----------------------------------------------------------------------------
(* The calls on one file *)

LEMMA InodeIs ==
  ASSUME NEW v, IsVolume(v), NEW i, NEW y
  PROVE  LET w == WriteInode(v, i, y)
         IN  /\ IsVolume(w) /\ w.used = v.used /\ w.data = v.data /\ w.inodes_used = v.inodes_used
             /\ w.inode = [v.inode EXCEPT ![i] = y]
<1> DEFINE f == [v.inode EXCEPT ![i] = y]
           w == [v EXCEPT !.inode = f]
<1>1. WriteInode(v, i, y) = w
  BY DEF WriteInode
<1> HIDE DEF f
<1>2. w = [used |-> v.used, bg_blocks |-> v.bg_blocks, sb_blocks |-> v.sb_blocks,
           inodes_used |-> v.inodes_used, bg_inodes |-> v.bg_inodes, sb_inodes |-> v.sb_inodes,
           bg_dirs |-> v.bg_dirs, inode |-> f, data |-> v.data]
  BY DEF IsVolume
<1> HIDE DEF w
<1>3. IsVolume(w) /\ w.used = v.used /\ w.data = v.data /\ w.inodes_used = v.inodes_used /\ w.inode = f
  BY <1>2 DEF IsVolume
<1> QED BY <1>1, <1>3 DEF f

\* The blocks of data get other contents.
LEMMA GrownFill ==
  ASSUME NEW u, NEW m, NEW x, NEW u1, NEW m1, NEW p, NEW c, Fit(u, m, x), Grown(u, m, x, u1, m1, p, c), NEW m2, Texts(m2),
         \A b \in Block : m2[b] = m1[b] \/ \E k \in 0..(c - 1) : b = At(m1, p, k)
  PROVE  Grown(u, m, x, u1, m2, p, c)
<1>1. Mapped(u1, m1, p, c) /\ Shape(u1, m1, p) /\ c \in 0..Limit
  BY DEF Grown, Mapped
<1>2. \A b \in Tree(m1, p) : m2[b] = m1[b]
  BY <1>1 DEF Mapped, Shape
<1>3. Tree(m2, p) = Tree(m1, p) /\ \A k \in 0..(Limit - 1) : At(m2, p, k) = At(m1, p, k)
  BY <1>2, SameTree
<1>4. \A k \in 0..(c - 1) : At(m2, p, k) = At(m1, p, k)
  <2>1. \A k \in 0..(c - 1) : k \in 0..(Limit - 1)
    BY <1>1, LimitNat
  <2> QED BY <1>3, <2>1
<1>5. Shape(u1, m2, p)
  <2>1. DOMAIN m2 = Block /\ Tree(m1, p) \subseteq u1
    BY <1>1 DEF Texts, Shape
  <2> QED BY <1>1, <1>2, <2>1, SameShape
<1>6. Mapped(u1, m2, p, c)
  BY <1>1, <1>3, <1>4, <1>5 DEF Mapped
<1>7. Hold(m2, p, c) = Hold(m1, p, c)
  BY <1>3, <1>4 DEF Hold
<1>8. ASSUME NEW b \in u, b \notin Holds(m, x) PROVE b \in u1 /\ (b \in Block => m2[b] = m[b])
  <2>1. b \in u1 /\ (b \in Block => m1[b] = m[b])
    BY <1>8 DEF Grown
  <2>2. \A k \in 0..(c - 1) : b # At(m1, p, k)
    <3>1. \A k \in 0..(c - 1) : At(m1, p, k) \in Hold(m1, p, c)
      BY DEF Hold
    <3>2. b \notin Hold(m1, p, c)
      BY <1>8 DEF Grown
    <3> QED BY <3>1, <3>2
  <2> QED BY <2>1, <2>2
<1> QED BY <1>6, <1>7, <1>8 DEF Grown

\* What a call on an open file leaves.
OnFile(v, file, r) ==
  /\ IsVolume(r.vol) /\ r.vol.inodes_used = v.inodes_used /\ DOMAIN r.vol.inode = DOMAIN v.inode
  /\ \A j \in DOMAIN v.inode : \/ r.vol.inode[j] = v.inode[j]
                               \/ j = file.num /\ r.vol.inode[j].mode = file.inode.mode
  /\ r.file.num = file.num /\ r.file.inode.mode = file.inode.mode
  /\ Altered(v.used, v.data, file.inode, r.vol.used, r.vol.data, r.file.inode)

\* The inode is written or not, the descriptor gets another one.
LEMMA OnFileIs ==
  ASSUME NEW v, IsVolume(v), NEW file, IsOpenFile(file), Ready(v, file.inode), NEW w, SameInodes(v, w), NEW p2, NEW c,
         Grown(v.used, v.data, file.inode, w.used, w.data, p2, c),
         NEW y, IsInode(y), y.block = p2, y.mode = file.inode.mode, CountBlocksNeeded(y.size) <= c,
         NEW r, r.file.num = file.num, r.file.inode = y, r.vol = w \/ r.vol = WriteInode(w, file.num, y)
  PROVE  OnFile(v, file, r)
<1>1. Altered(v.used, v.data, file.inode, w.used, w.data, y)
  BY GrownAltered
<1>2. IsVolume(w) /\ w.inode = v.inode /\ w.inodes_used = v.inodes_used
  BY DEF SameInodes
<1>3. CASE r.vol = w
  BY <1>1, <1>2, <1>3 DEF OnFile
<1>4. CASE r.vol = WriteInode(w, file.num, y)
  <2>1. /\ IsVolume(r.vol) /\ r.vol.used = w.used /\ r.vol.data = w.data /\ r.vol.inodes_used = w.inodes_used
        /\ r.vol.inode = [w.inode EXCEPT ![file.num] = y]
    <3>1. LET q == WriteInode(w, file.num, y)
          IN  /\ IsVolume(q) /\ q.used = w.used /\ q.data = w.data /\ q.inodes_used = w.inodes_used
              /\ q.inode = [w.inode EXCEPT ![file.num] = y]
      BY <1>2, InodeIs
    <3> QED BY <1>4, <3>1, Zenon
  <2>2. DOMAIN r.vol.inode = DOMAIN v.inode
        /\ \A j \in DOMAIN v.inode : r.vol.inode[j] = IF j = file.num THEN y ELSE v.inode[j]
    BY <1>2, <2>1
  <2>3. ASSUME NEW j \in DOMAIN v.inode
        PROVE  r.vol.inode[j] = v.inode[j] \/ (j = file.num /\ r.vol.inode[j].mode = file.inode.mode)
    <3>1. CASE j = file.num
      <4>1. r.vol.inode[j] = y
        BY <2>2, <3>1
      <4> QED BY <3>1, <4>1
    <3>2. CASE j # file.num
      <4>1. r.vol.inode[j] = v.inode[j]
        BY <2>2, <3>2, Zenon
      <4> QED BY <4>1
    <3> QED BY <3>1, <3>2
  <2>4. Altered(v.used, v.data, file.inode, r.vol.used, r.vol.data, r.file.inode)
    BY <1>1, <2>1
  <2>5. r.vol.inodes_used = v.inodes_used /\ r.file.inode.mode = file.inode.mode
    BY <1>2, <2>1
  <2> QED BY <2>1, <2>2, <2>3, <2>4, <2>5 DEF OnFile
<1> QED BY <1>3, <1>4

LEMMA LikeInode ==
  ASSUME NEW x, IsInode(x), NEW y, InodeLike(x, y)
  PROVE  IsInode(y) /\ y.size = x.size /\ y.mode = x.mode
         /\ \A n \in Nat : LET z == [y EXCEPT !.size = n]
                           IN  IsInode(z) /\ z.size = n /\ z.mode = x.mode /\ z.block = y.block
<1>1. y = [mode |-> x.mode, size |-> x.size, links |-> x.links, block |-> y.block]
  BY DEF InodeLike
<1>2. IsInode(y) /\ y.size = x.size /\ y.mode = x.mode
  <2>1. y.size = x.size /\ y.mode = x.mode /\ y.links = x.links
    BY <1>1
  <2> QED BY <1>1, <2>1 DEF IsInode
<1>3. ASSUME NEW n \in Nat
      PROVE  LET z == [y EXCEPT !.size = n]
             IN  IsInode(z) /\ z.size = n /\ z.mode = x.mode /\ z.block = y.block
  <2>1. [y EXCEPT !.size = n] = [mode |-> x.mode, size |-> n, links |-> x.links, block |-> y.block]
    BY <1>1
  <2> QED BY <2>1 DEF IsInode
<1> QED BY <1>2, <1>3

LEMMA FileIs ==
  ASSUME NEW file, IsOpenFile(file)
  PROVE  /\ \A y : [file EXCEPT !.inode = y].num = file.num /\ [file EXCEPT !.inode = y].inode = y
         /\ \A y, p : LET g == [file EXCEPT !.pos = p, !.inode = y] IN g.num = file.num /\ g.inode = y
         /\ \A y, p : LET g == [file EXCEPT !.inode = y, !.pos = p] IN g.num = file.num /\ g.inode = y
         /\ \A p : LET g == [file EXCEPT !.pos = p] IN g.num = file.num /\ g.inode = file.inode
<1>1. file = [num |-> file.num, pos |-> file.pos, inode |-> file.inode]
  BY DEF IsOpenFile
<1>2. ASSUME NEW y PROVE [file EXCEPT !.inode = y].num = file.num /\ [file EXCEPT !.inode = y].inode = y
  <2>1. [file EXCEPT !.inode = y] = [num |-> file.num, pos |-> file.pos, inode |-> y]
    BY <1>1
  <2> QED BY <2>1
<1>3. ASSUME NEW y, NEW p PROVE LET g == [file EXCEPT !.pos = p, !.inode = y] IN g.num = file.num /\ g.inode = y
  <2> DEFINE f == [file EXCEPT !.pos = p]
  <2>1. f = [num |-> file.num, pos |-> p, inode |-> file.inode]
    BY <1>1
  <2>2. [file EXCEPT !.pos = p, !.inode = y] = [f EXCEPT !.inode = y]
    OBVIOUS
  <2> HIDE DEF f
  <2>3. [f EXCEPT !.inode = y] = [num |-> file.num, pos |-> p, inode |-> y]
    BY <2>1
  <2> QED BY <2>2, <2>3
<1>4. ASSUME NEW y, NEW p PROVE LET g == [file EXCEPT !.inode = y, !.pos = p] IN g.num = file.num /\ g.inode = y
  <2> DEFINE f == [file EXCEPT !.inode = y]
  <2>1. f = [num |-> file.num, pos |-> file.pos, inode |-> y]
    BY <1>1
  <2>2. [file EXCEPT !.inode = y, !.pos = p] = [f EXCEPT !.pos = p]
    OBVIOUS
  <2> HIDE DEF f
  <2>3. [f EXCEPT !.pos = p] = [num |-> file.num, pos |-> p, inode |-> y]
    BY <2>1
  <2> QED BY <2>2, <2>3
<1>5. ASSUME NEW p PROVE LET g == [file EXCEPT !.pos = p] IN g.num = file.num /\ g.inode = file.inode
  <2>1. [file EXCEPT !.pos = p] = [num |-> file.num, pos |-> p, inode |-> file.inode]
    BY <1>1
  <2> QED BY <2>1
<1> QED BY <1>2, <1>3, <1>4, <1>5

LEMMA FileReadOn ==
  ASSUME NEW v, NEW file, IsOpenFile(file), Ready(v, file.inode), NEW count \in Nat
  PROVE  OnFile(v, file, FileRead(v, file, count))
<1> DEFINE x == file.inode
           n == CountBlocksNeeded(x.size)
           r == FileRead(v, file, count)
           p == Least(file.pos + count, x.size)
           y == [file EXCEPT !.pos = p]
           w == WriteInode(v, file.num, x)
<1>1. IsVolume(v) /\ IsInode(x) /\ n \in Nat /\ SameInodes(v, v)
  <2>1. IsVolume(v) /\ IsInode(x)
    BY DEF Ready, Fit
  <2> QED BY <2>1, NeededNat DEF IsInode, SameInodes
<1>2. Grown(v.used, v.data, x, v.used, v.data, x.block, n)
  BY GrownNot
<1>3. r.file.num = file.num /\ r.file.inode = x /\ (r.vol = v \/ r.vol = w)
  <2>1. CASE file.pos >= x.size
    <3>1. r = [vol |-> v, file |-> file]
      BY <2>1 DEF FileRead
    <3> HIDE DEF r
    <3> QED BY <3>1
  <2>2. CASE ~(file.pos >= x.size)
    <3>1. r = [vol |-> w, file |-> y]
      BY <2>2 DEF FileRead
    <3> HIDE DEF p
    <3>2. y.num = file.num /\ y.inode = x
      BY FileIs
    <3> HIDE DEF r, y, w
    <3> QED BY <3>1, <3>2
  <2> QED BY <2>1, <2>2
<1> HIDE DEF r
<1>4. n <= n
  BY <1>1
<1> QED BY <1>1, <1>2, <1>3, <1>4, OnFileIs DEF r

\* The blocks a write goes through are all there.
LEMMA WriteWhere ==
  ASSUME NEW e, NEW c \in 0..Limit, Mapped(e.vol.used, e.vol.data, e.inode.block, c),
         NEW pos \in Nat, NEW count \in Nat, CountBlocksNeeded(pos + count) <= c
  PROVE  LET at == {<<k, BlockOf(e.vol, e.inode, k * BS)>> : k \in (pos \div BS)..((pos + count - 1) \div BS)}
         IN  \A t \in at : t[2] # 0 /\ \E k \in 0..(c - 1) : t = <<k, At(e.vol.data, e.inode.block, k)>>
<1> DEFINE last == pos + count - 1
           from == pos \div BS
           to == last \div BS
           n == CountBlocksNeeded(pos + count)
<1>1. from \in Nat /\ c \in Nat /\ n \in Nat
  <2>1. pos + count \in Nat
    OBVIOUS
  <2>2. n \in Nat
    BY <2>1, NeededNat, Zenon
  <2>3. from \in Nat
    BY Numbers, DivMod
  <2>4. c \in Nat
    BY LimitNat
  <2> QED BY <2>2, <2>3, <2>4
<1>2. ASSUME NEW k \in from..to PROVE k \in 0..(c - 1)
  <2>1. CASE last >= 0
    <3>1. to \in Nat /\ to < n
      <4>1. last \in Nat /\ last < pos + count /\ pos + count \in Nat
        BY <2>1
      <4> HIDE DEF last
      <4> QED BY <4>1, NeededHas
    <3> HIDE DEF from, to, n
    <3> QED BY <1>1, <3>1 DEF n
  <2>2. CASE last < 0
    <3>1. last = -1
      BY <2>2
    <3>2. to = -1
      BY <3>1, Numbers
    <3> HIDE DEF from, to
    <3> QED BY <1>1, <3>2
  <2>3. last \in Int
    OBVIOUS
  <2> HIDE DEF last
  <2> QED BY <2>1, <2>2, <2>3
<1>3. ASSUME NEW k \in from..to
      PROVE  /\ BlockOf(e.vol, e.inode, k * BS) = At(e.vol.data, e.inode.block, k) /\ k \in 0..(c - 1)
             /\ At(e.vol.data, e.inode.block, k) # 0
  <2>1. k \in 0..(c - 1)
    BY <1>2
  <2>2. k \in 0..(Limit - 1)
    BY <2>1, LimitNat
  <2> QED BY <2>1, <2>2, BlockIs DEF Mapped
<1> HIDE DEF from, to
<1>4. \A t \in {<<k, BlockOf(e.vol, e.inode, k * BS)>> : k \in from..to} :
        t[2] # 0 /\ \E k \in 0..(c - 1) : t = <<k, At(e.vol.data, e.inode.block, k)>>
  <2> TAKE t \in {<<k, BlockOf(e.vol, e.inode, k * BS)>> : k \in from..to}
  <2>1. PICK k \in from..to : t = <<k, BlockOf(e.vol, e.inode, k * BS)>>
    OBVIOUS
  <2>2. t = <<k, At(e.vol.data, e.inode.block, k)>> /\ k \in 0..(c - 1) /\ At(e.vol.data, e.inode.block, k) # 0
    BY <1>3, <2>1
  <2>3. t[2] # 0
    BY <2>2
  <2> QED BY <2>2, <2>3
<1> QED BY <1>4 DEF from, to, last

\* The words written, in blocks of the file.
LEMMA PutBlocksIs ==
  ASSUME NEW m, Texts(m), NEW at, NEW p, NEW c, NEW from, NEW to, NEW word,
         \A t \in at : \E k \in 0..(c - 1) : t = <<k, At(m, p, k)>>
  PROVE  LET m2 == PutBlocks(m, at, from, to, word)
         IN  Texts(m2) /\ \A b \in Block : m2[b] = m[b] \/ \E k \in 0..(c - 1) : b = At(m, p, k)
<1> DEFINE into(b) == {t[1] : t \in {u \in at : u[2] = b}}
           m2 == PutBlocks(m, at, from, to, word)
           row(b) == PutWords(AsRow(m[b]), Min(into(b)), from, to, word)
<1>1. m2 = [b \in Block |-> IF into(b) = {} THEN m[b] ELSE row(b)]
  BY DEF PutBlocks
<1>2. \A b : DOMAIN row(b) = Word
  BY DEF PutWords
<1>3. ASSUME NEW b \in Block, into(b) # {} PROVE \E k \in 0..(c - 1) : b = At(m, p, k)
  <2>1. PICK t \in at : t[2] = b
    BY <1>3
  <2>2. PICK k \in 0..(c - 1) : t = <<k, At(m, p, k)>>
    OBVIOUS
  <2> QED BY <2>1, <2>2
<1> HIDE DEF into, row, m2
<1>4. DOMAIN m2 = Block /\ \A b \in Block : m2[b] = IF into(b) = {} THEN m[b] ELSE row(b)
  BY <1>1
<1>5. ASSUME NEW b \in Block
      PROVE  (m2[b] = m[b] \/ \E k \in 0..(c - 1) : b = At(m, p, k)) /\ (DOMAIN m2[b] = Word \/ IsSeq(m2[b]))
  <2>1. CASE into(b) = {}
    <3>1. m2[b] = m[b]
      BY <1>4, <2>1
    <3> QED BY <3>1 DEF Texts
  <2>2. CASE into(b) # {}
    <3>1. m2[b] = row(b)
      BY <1>4, <2>2
    <3> QED BY <1>2, <1>3, <2>2, <3>1
  <2> QED BY <2>1, <2>2
<1> QED BY <1>4, <1>5 DEF Texts, m2

LEMMA FileWriteOn ==
  ASSUME NEW v, NEW file, IsOpenFile(file), Ready(v, file.inode), NEW count \in Nat, NEW word
  PROVE  OnFile(v, file, FileWrite(v, file, count, word))
<1> DEFINE x == file.inode
           n == CountBlocksNeeded(x.size)
           end == file.pos + count
           need == CountBlocksNeeded(end)
           e == EnsureBlocksAllocated(v, x, need)
           c == IF e.ok THEN Larger(n, need) ELSE n
           last == file.pos + count - 1
           at == {<<k, BlockOf(e.vol, e.inode, k * BS)>> : k \in (file.pos \div BS)..(last \div BS)}
           r == FileWrite(v, file, count, word)
<1>1. /\ IsVolume(v) /\ IsInode(x) /\ n \in Nat /\ file.pos \in Nat /\ end \in Nat /\ need \in Nat /\ x.size \in Nat
      /\ Fit(v.used, v.data, x)
  <2>1. IsVolume(v) /\ IsInode(x) /\ file.pos \in Nat /\ x.size \in Nat /\ Fit(v.used, v.data, x)
    BY DEF Ready, Fit, IsOpenFile, IsInode
  <2>2. end \in Nat
    BY <2>1
  <2> HIDE DEF end
  <2> QED BY <2>1, <2>2, NeededNat
<1>2. e.ok \in BOOLEAN /\ Ensured(v, x, e, c)
  <2> HIDE DEF need
  <2> QED BY <1>1, EnsureBlocks
<1>3. r = WriteBlocks(e, file, last, word)
  BY DEF FileWrite
<1> HIDE DEF e
<1>4. SameInodes(v, e.vol) /\ InodeLike(x, e.inode) /\ Grown(v.used, v.data, x, e.vol.used, e.vol.data, e.inode.block, c)
  BY <1>2 DEF Ensured
<1>5. /\ IsInode(e.inode) /\ e.inode.size = x.size /\ e.inode.mode = x.mode
      /\ \A s \in Nat : LET z == [e.inode EXCEPT !.size = s]
                        IN  IsInode(z) /\ z.size = s /\ z.mode = x.mode /\ z.block = e.inode.block
  BY <1>1, <1>4, LikeInode
<1>6. CASE ~e.ok
  <2> DEFINE g == [file EXCEPT !.inode = e.inode]
  <2>1. r = [vol |-> e.vol, file |-> g]
    BY <1>3, <1>6 DEF WriteBlocks
  <2>2. g.num = file.num /\ g.inode = e.inode
    BY FileIs
  <2> HIDE DEF r, g
  <2>3. r.vol = e.vol /\ r.file.num = file.num /\ r.file.inode = e.inode
    BY <2>1, <2>2
  <2>4. c = n /\ CountBlocksNeeded(e.inode.size) <= c
    BY <1>1, <1>5, <1>6
  <2> HIDE DEF c
  <2> DEFINE p2 == e.inode.block
             y == e.inode
             w == e.vol
  <2>5. /\ SameInodes(v, w) /\ Grown(v.used, v.data, file.inode, w.used, w.data, p2, c) /\ IsInode(y) /\ y.block = p2
        /\ y.mode = file.inode.mode /\ CountBlocksNeeded(y.size) <= c
        /\ r.vol = w /\ r.file.num = file.num /\ r.file.inode = y /\ IsVolume(v)
    BY <1>1, <1>4, <1>5, <2>3, <2>4
  <2> HIDE DEF p2, y, w
  <2>6. OnFile(v, file, r)
    BY <2>5, OnFileIs
  <2> QED BY <2>6 DEF r
<1>7. CASE e.ok
  <2> DEFINE m2 == PutBlocks(e.vol.data, at, file.pos, end - 1, word)
             w == [e.vol EXCEPT !.data = m2]
             size == Larger(e.inode.size, end)
             y == [e.inode EXCEPT !.size = size]
             g == [file EXCEPT !.pos = end, !.inode = y]
             h == WriteEnd(at, file.pos, last)
  <2>1. c = Larger(n, need) /\ c \in 0..Limit /\ c \in Nat /\ need <= c /\ n <= c
    <3>1. c = Larger(n, need)
      BY <1>7
    <3>2. c \in 0..Limit
      BY <1>4 DEF Grown, Mapped
    <3> HIDE DEF c, n, need
    <3> QED BY <1>1, <3>1, <3>2 DEF Larger
  <2> HIDE DEF c
  <2>2. Mapped(e.vol.used, e.vol.data, e.inode.block, c) /\ Texts(v.data)
    BY <1>4 DEF Grown, Ready
  <2>3. \A t \in at : t[2] # 0 /\ \E k \in 0..(c - 1) : t = <<k, At(e.vol.data, e.inode.block, k)>>
    <3>1. CountBlocksNeeded(file.pos + count) <= c
      BY <2>1
    <3> HIDE DEF need
    <3>2. c \in 0..Limit /\ file.pos \in Nat
      BY <1>1, <2>1
    <3> QED BY <2>2, <3>1, <3>2, WriteWhere
  <2> HIDE DEF at
  <2>4. h = end
    <3>1. {t[1] * BS : t \in {u \in at : u[2] = 0}} = {}
      BY <2>3
    <3>2. h = last + 1
      BY <3>1 DEF WriteEnd
    <3> HIDE DEF h
    <3> QED BY <1>1, <3>2
  <2>5. r = WriteUpTo(e, at, file, end, word)
    <3>1. r = WriteUpTo(e, at, file, h, word)
      BY <1>3, <1>7 DEF WriteBlocks, WriteAt, at
    <3> HIDE DEF h, end
    <3> QED BY <2>4, <3>1
  <2>6. r = [vol |-> IF end > e.inode.size THEN WriteInode(w, file.num, y) ELSE w, file |-> g]
    BY <2>5 DEF WriteUpTo
  <2>7. Texts(e.vol.data)
    BY <1>4 DEF Grown
  <2>8. Texts(m2) /\ \A b \in Block : m2[b] = e.vol.data[b] \/ \E k \in 0..(c - 1) : b = At(e.vol.data, e.inode.block, k)
    <3>1. \A t \in at : \E k \in 0..(c - 1) : t = <<k, At(e.vol.data, e.inode.block, k)>>
      BY <2>3
    <3> HIDE DEF end
    <3> QED BY <2>7, <3>1, PutBlocksIs
  <2> HIDE DEF m2
  <2>9. SameInodes(e.vol, w) /\ w.data = m2 /\ w.used = e.vol.used
    <3>1. IsVolume(e.vol)
      BY <1>4 DEF SameInodes
    <3> QED BY <3>1, DataIs
  <2> HIDE DEF w
  <2>10. Grown(v.used, v.data, x, w.used, w.data, e.inode.block, c)
    <3>1. Grown(v.used, v.data, x, e.vol.used, m2, e.inode.block, c)
      BY <1>1, <1>4, <2>8, GrownFill
    <3> QED BY <2>9, <3>1
  <2>11. SameInodes(v, w)
    BY <1>4, <2>9, SameInodesOn
  <2>12. size \in Nat /\ CountBlocksNeeded(size) <= c
    <3>1. size = x.size \/ size = end
      BY <1>5 DEF Larger
    <3>2. CASE size = x.size
      BY <1>1, <2>1, <3>2
    <3>3. CASE size = end
      <4>1. CountBlocksNeeded(size) = need
        BY <3>3
      <4> HIDE DEF size, end, need
      <4> QED BY <1>1, <2>1, <3>3, <4>1
    <3> HIDE DEF size
    <3> QED BY <3>1, <3>2, <3>3
  <2> HIDE DEF size
  <2>13. IsInode(y) /\ y.size = size /\ y.mode = x.mode /\ y.block = e.inode.block
    BY <1>5, <2>12
  <2>14. g.num = file.num /\ g.inode = y
    <3> HIDE DEF y, end
    <3> QED BY FileIs
  <2> HIDE DEF y, g, end
  <2>15. r.file.num = file.num /\ r.file.inode = y /\ (r.vol = w \/ r.vol = WriteInode(w, file.num, y))
    <3> HIDE DEF r
    <3> QED BY <2>6, <2>14
  <2>16. CountBlocksNeeded(y.size) <= c
    BY <2>12, <2>13
  <2> HIDE DEF r
  <2> QED BY <1>1, <2>10, <2>11, <2>13, <2>15, <2>16, OnFileIs DEF r
<1> QED BY <1>2, <1>6, <1>7

LEMMA ResizedOn ==
  ASSUME NEW v, NEW file, IsOpenFile(file), Ready(v, file.inode), NEW length \in Nat,
         NEW q, NEW c, q.ok \in BOOLEAN, Ensured(v, file.inode, q, c),
         q.ok => CountBlocksNeeded(length) <= c, ~q.ok => CountBlocksNeeded(file.inode.size) <= c
  PROVE  OnFile(v, file, Resized(q, file, length))
<1> DEFINE x == file.inode
           y == [q.inode EXCEPT !.size = length]
           pos == Least(file.pos, length)
           r == Resized(q, file, length)
<1>1. IsVolume(v) /\ IsInode(x)
  BY DEF Ready, Fit
<1>2. SameInodes(v, q.vol) /\ InodeLike(x, q.inode) /\ Grown(v.used, v.data, x, q.vol.used, q.vol.data, q.inode.block, c)
  BY DEF Ensured
<1>3. /\ IsInode(q.inode) /\ q.inode.size = x.size /\ q.inode.mode = x.mode
      /\ IsInode(y) /\ y.size = length /\ y.mode = x.mode /\ y.block = q.inode.block
  BY <1>1, <1>2, LikeInode
<1>4. CASE ~q.ok
  <2> DEFINE g == [file EXCEPT !.inode = q.inode]
  <2>1. r = [vol |-> q.vol, file |-> g]
    BY <1>4 DEF Resized
  <2>2. g.num = file.num /\ g.inode = q.inode
    BY FileIs
  <2> HIDE DEF r, g
  <2>3. r.vol = q.vol /\ r.file.num = file.num /\ r.file.inode = q.inode
    BY <2>1, <2>2
  <2>4. CountBlocksNeeded(q.inode.size) <= c
    BY <1>3, <1>4
  <2> QED BY <1>1, <1>2, <1>3, <2>3, <2>4, OnFileIs DEF r
<1>5. CASE q.ok
  <2> DEFINE g == [file EXCEPT !.inode = y, !.pos = pos]
  <2>1. r = [vol |-> WriteInode(q.vol, file.num, y), file |-> g]
    BY <1>5 DEF Resized
  <2> HIDE DEF y, pos
  <2>2. g.num = file.num /\ g.inode = y
    BY FileIs
  <2> HIDE DEF r, g
  <2>3. r.vol = WriteInode(q.vol, file.num, y) /\ r.file.num = file.num /\ r.file.inode = y
    BY <2>1, <2>2
  <2>4. CountBlocksNeeded(y.size) <= c
    BY <1>3, <1>5
  <2> QED BY <1>1, <1>2, <1>3, <2>3, <2>4, OnFileIs DEF r
<1> QED BY <1>4, <1>5

\* The blocks from "need" on are given back, and their pointers overwritten.
LEMMA DropOn ==
  ASSUME NEW v, NEW x, Ready(v, x), NEW need \in Nat, NEW have, have = CountBlocksNeeded(x.size), need < have,
         NEW gone, Got(v, x, need, have - need, gone), NEW stack
  PROVE  LET q == Drop(v, x, need, have, gone, stack)
         IN  q.ok \in BOOLEAN /\ Ensured(v, x, q, IF q.ok THEN need ELSE have)
<1> DEFINE q == Drop(v, x, need, have, gone, stack)
           more == have - need
           p == x.block
           ptrs == [i \in 1..more |-> IF i = 1 THEN 0 ELSE stack]
           f == FreeBlocks(v, gone)
           G == {gone[j] : j \in 1..more}
           s == WriteBlockPointers(f, x, need, ptrs)
<1>1. /\ IsVolume(v) /\ Reserved(v.used) /\ Texts(v.data) /\ Fit(v.used, v.data, x) /\ IsInode(x)
      /\ have \in Nat /\ Mapped(v.used, v.data, p, have) /\ Shape(v.used, v.data, p) /\ have \in 0..Limit
  <2>1. IsVolume(v) /\ Reserved(v.used) /\ Texts(v.data) /\ Fit(v.used, v.data, x)
    BY DEF Ready
  <2>2. have \in Nat
    BY <2>1, NeededNat DEF Fit, IsInode
  <2> QED BY <2>1, <2>2 DEF Fit, Mapped
<1>2. CASE Len(gone) # more
  <2> DEFINE no == FALSE
  <2>0. no \in BOOLEAN /\ ~no
    OBVIOUS
  <2>1. q = [vol |-> v, inode |-> x, ok |-> no]
    BY <1>2 DEF Drop
  <2> HIDE DEF q, no
  <2>2. q.vol = v /\ q.inode = x /\ q.ok = no
    BY <2>1
  <2>3. Grown(v.used, v.data, x, v.used, v.data, x.block, have) /\ InodeLike(x, x)
    BY GrownNot
  <2>4. Ensured(v, x, q, have)
    BY <1>1, <2>2, <2>3 DEF Ensured, SameInodes
  <2> QED BY <2>0, <2>2, <2>4 DEF q
<1>3. CASE Len(gone) = more
  <2> DEFINE yes == TRUE
  <2>0. yes \in BOOLEAN /\ yes
    OBVIOUS
  <2>1. q = [vol |-> s.vol, inode |-> s.inode, ok |-> yes]
    BY <1>3 DEF Drop, Outcome
  <2> HIDE DEF yes
  <2>2. more \in Nat /\ IsSeq(gone) /\ DOMAIN gone = 1..more
    <3>1. IsSeq(gone)
      BY DEF Got
    <3> QED BY <1>1, <1>3, <3>1, SeqHas
  <2>3. \A j \in 1..more : need + j - 1 \in need..(have - 1) /\ gone[j] = At(v.data, p, need + j - 1)
    <3> TAKE j \in 1..more
    <3>1. gone[j] = At(v.data, p, need + j - 1)
      BY <1>3 DEF Got
    <3> QED BY <1>1, <3>1
  <2>4. SameInodes(v, f) /\ f.data = v.data /\ f.used = v.used \ (G \cap Block)
    <3> HIDE DEF more
    <3> QED BY <1>1, <2>2, FreeAll
  <2>5. \A b \in G : b \in (v.used \cap Block) \ {0} /\ b \notin Tree(v.data, p) /\ b \in Holds(v.data, x)
                     /\ \A k \in 0..(need - 1) : b # At(v.data, p, k)
    <3> SUFFICES ASSUME NEW j \in 1..more
                 PROVE  /\ gone[j] \in (v.used \cap Block) \ {0} /\ gone[j] \notin Tree(v.data, p)
                        /\ gone[j] \in Holds(v.data, x) /\ \A k \in 0..(need - 1) : gone[j] # At(v.data, p, k)
      OBVIOUS
    <3> DEFINE l == need + j - 1
    <3>1. gone[j] = At(v.data, p, l) /\ l \in need..(have - 1) /\ l \in 0..(have - 1)
      BY <1>1, <2>3
    <3> HIDE DEF l, p, more
    <3>2. At(v.data, p, l) \in (v.used \cap Block) \ {0} /\ At(v.data, p, l) \notin Tree(v.data, p)
      BY <1>1, <3>1 DEF Mapped
    <3>3. At(v.data, p, l) \in Holds(v.data, x)
      BY <3>1 DEF Holds, Hold, p
    <3>4. ASSUME NEW k \in 0..(need - 1) PROVE At(v.data, p, l) # At(v.data, p, k)
      <4>1. k \in 0..(have - 1) /\ k # l
        BY <1>1, <3>1
      <4> QED BY <1>1, <3>1, <4>1 DEF Mapped
    <3> QED BY <3>1, <3>2, <3>3, <3>4
  <2> HIDE DEF G, f
  <2>6. f.used = v.used \ G /\ f.used \subseteq v.used
    BY <2>4, <2>5
  <2>7. Reserved(f.used)
    BY <1>1, <2>5, <2>6 DEF Reserved
  <2>8. Shape(f.used, f.data, p)
    <3>1. DOMAIN v.data = Block /\ Tree(v.data, p) \subseteq f.used
      BY <1>1, <2>5, <2>6 DEF Shape
    <3>2. \A b \in Tree(v.data, p) : v.data[b] = v.data[b]
      OBVIOUS
    <3> HIDE DEF p
    <3>3. Shape(f.used, v.data, p)
      BY <1>1, <3>1, <3>2, SameShape
    <3> QED BY <2>4, <3>3
  <2>9. Len(ptrs) \in Nat
    <3>1. ptrs = [k \in 1..more |-> ptrs[k]]
      OBVIOUS
    <3> HIDE DEF ptrs, more
    <3> QED BY <2>2, <3>1, RowAsSeq
  <2> HIDE DEF ptrs
  <2>10. Writable(f, x, need, ptrs)
    BY <1>1, <2>4, <2>7, <2>8, <2>9 DEF Writable, SameInodes
  <2>11. Writing(f, x, need, ptrs, s)
    BY <2>10, WriteWrites
  <2> HIDE DEF s
  <2> DEFINE m2 == s.vol.data
             p2 == s.inode.block
             u2 == s.vol.used
  <2>12. Wrote(f, p, need, ptrs, s.vol, p2, s.from - 1) /\ InodeLike(x, s.inode) /\ s.from \in Nat \ {0}
    BY <2>11 DEF Writing
  <2>13. /\ SameInodes(f, s.vol) /\ f.used \subseteq u2 /\ Shape(u2, m2, p2)
         /\ Tree(m2, p2) \subseteq Tree(v.data, p) \cup (Block \ f.used)
         /\ \A b \in Block : b \notin Tree(m2, p2) => m2[b] = v.data[b]
    BY <2>4, <2>12 DEF Wrote
  <2>14. \A k \in 0..(need - 1) : At(m2, p2, k) = At(v.data, p, k)
    <3> TAKE k \in 0..(need - 1)
    <3>1. k \in 0..(Limit - 1) /\ ~(k >= need)
      BY <1>1, LimitNat
    <3>2. At(m2, p2, k) = IF k >= need /\ k < need + (s.from - 1) THEN ptrs[1 + (k - need)] ELSE At(f.data, p, k)
      BY <2>12, <3>1 DEF Wrote
    <3> QED BY <2>4, <3>1, <3>2
  <2>15. Texts(m2)
    <3>1. Texts(f.data)
      BY <1>1, <2>4
    <3> QED BY <2>12, <3>1, WroteTexts
  <2>16. Reserved(u2)
    BY <2>7, <2>13, ReservedMore
  <2> HIDE DEF m2, p2, u2
  <2>17. ASSUME NEW k \in 0..(need - 1)
         PROVE  /\ At(m2, p2, k) \in (u2 \cap Block) \ {0} /\ At(m2, p2, k) \notin Tree(m2, p2)
                /\ At(m2, p2, k) \in Holds(v.data, x)
    <3>1. k \in 0..(have - 1)
      BY <1>1
    <3>2. /\ At(v.data, p, k) \in (v.used \cap Block) \ {0} /\ At(v.data, p, k) \notin Tree(v.data, p)
          /\ At(v.data, p, k) \in Holds(v.data, x)
      BY <1>1, <3>1 DEF Mapped, Holds, Hold
    <3>3. At(v.data, p, k) \in f.used
      BY <2>5, <2>6, <3>2
    <3> HIDE DEF p
    <3> QED BY <2>13, <2>14, <3>2, <3>3
  <2>18. Mapped(u2, m2, p2, need)
    <3>1. need \in 0..Limit
      BY <1>1, LimitNat
    <3>2. ASSUME NEW k \in 0..(need - 1), NEW l \in 0..(need - 1), At(m2, p2, k) = At(m2, p2, l) PROVE k = l
      <4>1. k \in 0..(have - 1) /\ l \in 0..(have - 1)
        BY <1>1
      <4>2. At(v.data, p, k) = At(v.data, p, l)
        BY <2>14, <3>2
      <4> QED BY <1>1, <4>1, <4>2 DEF Mapped
    <3> QED BY <2>13, <2>17, <3>1, <3>2 DEF Mapped
  <2>19. Tree(v.data, p) \subseteq Holds(v.data, x)
    BY DEF Holds, Hold
  <2>20. ASSUME NEW b \in v.used, b \notin Holds(v.data, x) PROVE b \in u2 /\ (b \in Block => m2[b] = v.data[b])
    <3>1. b \in f.used /\ b \notin Tree(m2, p2)
      BY <2>5, <2>6, <2>13, <2>19, <2>20
    <3> QED BY <2>13, <3>1
  <2>21. Hold(m2, p2, need) \subseteq Holds(v.data, x) \cup (Block \ v.used)
    <3>1. Tree(m2, p2) \subseteq Holds(v.data, x) \cup (Block \ v.used)
      BY <2>5, <2>6, <2>13, <2>19
    <3> QED BY <2>17, <3>1 DEF Hold
  <2>22. Grown(v.used, v.data, x, u2, m2, p2, need)
    BY <2>15, <2>16, <2>18, <2>20, <2>21 DEF Grown
  <2>23. SameInodes(v, s.vol)
    BY <2>4, <2>13, SameInodesOn
  <2> HIDE DEF q
  <2>24. q.vol = s.vol /\ q.inode = s.inode /\ q.ok = yes
    BY <2>1
  <2>25. Ensured(v, x, q, need)
    BY <2>12, <2>22, <2>23, <2>24 DEF Ensured, u2, m2, p2
  <2> QED BY <2>0, <2>24, <2>25 DEF q
<1> QED BY <1>2, <1>3

LEMMA FileTruncateOn ==
  ASSUME NEW v, NEW file, IsOpenFile(file), Ready(v, file.inode), NEW length \in Nat, NEW stack
  PROVE  OnFile(v, file, FileTruncate(v, file, length, stack))
<1> DEFINE x == file.inode
           have == CountBlocksNeeded(x.size)
           need == CountBlocksNeeded(length)
           r == FileTruncate(v, file, length, stack)
<1>1. IsVolume(v) /\ IsInode(x) /\ x.size \in Nat /\ have \in Nat /\ need \in Nat /\ SameInodes(v, v)
  <2>1. IsVolume(v) /\ IsInode(x) /\ x.size \in Nat
    BY DEF Ready, Fit, IsInode
  <2> QED BY <2>1, NeededNat DEF SameInodes
<1>2. Grown(v.used, v.data, x, v.used, v.data, x.block, have) /\ InodeLike(x, x)
  BY GrownNot
<1>3. CASE length = x.size
  <2>1. r = [vol |-> v, file |-> file]
    BY <1>3 DEF FileTruncate
  <2> HIDE DEF r
  <2>2. r.vol = v /\ r.file.num = file.num /\ r.file.inode = x
    BY <2>1
  <2>3. have <= have
    BY <1>1
  <2> QED BY <1>1, <1>2, <2>2, <2>3, OnFileIs DEF r
<1>4. CASE length > x.size
  <2> DEFINE e == EnsureBlocksAllocated(v, x, need)
             c == IF e.ok THEN Larger(have, need) ELSE have
  <2>1. r = Resized(e, file, length)
    BY <1>1, <1>4 DEF FileTruncate
  <2>2. e.ok \in BOOLEAN /\ Ensured(v, x, e, c)
    <3> HIDE DEF need
    <3> QED BY <1>1, EnsureBlocks
  <2> HIDE DEF e
  <2>3. (e.ok => need <= c) /\ (~e.ok => have <= c)
    <3> HIDE DEF need, have
    <3> QED BY <1>1, <2>2 DEF Larger
  <2> HIDE DEF c
  <2> QED BY <2>1, <2>2, <2>3, ResizedOn
<1>5. CASE length < x.size
  <2> DEFINE gone == ReadBlockPointers(v, x, need, have - need)
  <2>1. need <= have
    BY <1>1, <1>5, NeededMore
  <2>2. CASE need = have
    <3> DEFINE yes == TRUE
               q == [vol |-> v, inode |-> x, ok |-> yes]
    <3>1. r = Resized(q, file, length)
      BY <1>1, <1>5, <2>2 DEF FileTruncate
    <3>2. yes \in BOOLEAN
      OBVIOUS
    <3> HIDE DEF yes
    <3>3. q.vol = v /\ q.inode = x /\ q.ok = yes
      OBVIOUS
    <3> HIDE DEF q
    <3>4. Ensured(v, x, q, have)
      BY <1>1, <1>2, <3>3 DEF Ensured
    <3>5. need <= have /\ have <= have /\ q.ok \in BOOLEAN
      BY <1>1, <2>1, <3>2, <3>3
    <3> QED BY <3>1, <3>4, <3>5, ResizedOn
  <2>3. CASE need # have
    <3> DEFINE q == Drop(v, x, need, have, gone, stack)
               c == IF q.ok THEN need ELSE have
    <3>1. r = Resized(q, file, length)
      BY <1>1, <1>5, <2>3 DEF FileTruncate
    <3>2. Got(v, x, need, have - need, gone)
      <4>1. have - need \in Nat
        BY <1>1, <2>1
      <4> HIDE DEF have, need
      <4> QED BY <1>1, <4>1, ReadGets
    <3> HIDE DEF gone
    <3>3. need < have
      BY <1>1, <2>1, <2>3
    <3>4. q.ok \in BOOLEAN /\ Ensured(v, x, q, c)
      <4> HIDE DEF need
      <4> QED BY <1>1, <3>2, <3>3, DropOn
    <3> HIDE DEF q
    <3>5. (q.ok => need <= c) /\ (~q.ok => have <= c)
      BY <1>1, <3>4
    <3> HIDE DEF c
    <3> QED BY <3>1, <3>4, <3>5, ResizedOn
  <2> QED BY <2>2, <2>3
<1> QED BY <1>1, <1>3, <1>4, <1>5

-----------------------------------------------------------------------------
(* Directories: what is written to a block of one is a sequence again *)

LEMMA SeqsAre ==
  /\ IsSeq(<<>>) /\ \A e : IsSeq(<<e>>) /\ Len(<<e>>) = 1 /\ <<e>>[1] = e
  /\ \A s, m, n : m \in Int /\ n \in Int => IsSeq(SubSeq(s, m, n))
  /\ \A s, e : IsSeq(s) => IsSeq(Append(s, e))
<1>1. IsSeq(<<>>)
  <2>1. <<>> \in Seq({})
    BY EmptySeq
  <2> QED BY <2>1, SeqIn
<1>2. ASSUME NEW e PROVE IsSeq(<<e>>) /\ Len(<<e>>) = 1 /\ <<e>>[1] = e
  <2>1. <<e>> \in Seq({e})
    OBVIOUS
  <2>2. IsSeq(<<e>>)
    BY <2>1, SeqIn
  <2> QED BY <2>2
<1>3. ASSUME NEW s, NEW m \in Int, NEW n \in Int PROVE IsSeq(SubSeq(s, m, n))
  <2> DEFINE S == {s[i] : i \in m..n}
  <2>1. \A i \in m..n : s[i] \in S
    OBVIOUS
  <2> HIDE DEF S
  <2>2. SubSeq(s, m, n) \in Seq(S)
    BY <2>1, SubSeqProperties
  <2> QED BY <2>2, SeqIn
<1>4. ASSUME NEW s, NEW e, IsSeq(s) PROVE IsSeq(Append(s, e))
  <2>1. PICK S : s \in Seq(S)
    BY <1>4 DEF IsSeq
  <2>2. s \in Seq(S \cup {e}) /\ e \in S \cup {e}
    BY <2>1, SeqMonotonic, Zenon
  <2>3. Append(s, e) \in Seq(S \cup {e})
    BY <2>2, AppendProperties
  <2> QED BY <2>3, SeqIn
<1> QED BY <1>1, <1>2, <1>3, <1>4

\* A sequence with other members at the same places.
LEMMA SeqOver ==
  ASSUME NEW q, IsSeq(q), NEW r, DOMAIN r = DOMAIN q, r = [k \in DOMAIN r |-> r[k]]
  PROVE  IsSeq(r) /\ Len(r) = Len(q)
<1>1. Len(q) \in Nat /\ DOMAIN q = 1..Len(q)
  BY SeqHas
<1>2. r = [k \in 1..Len(q) |-> r[k]]
  BY <1>1
<1> QED BY <1>1, <1>2, RowAsSeq

LEMMA SeqExcept == ASSUME NEW q, IsSeq(q), NEW j, NEW e PROVE IsSeq([q EXCEPT ![j] = e]) /\ Len([q EXCEPT ![j] = e]) = Len(q)
<1> DEFINE r == [q EXCEPT ![j] = e]
<1>1. DOMAIN r = DOMAIN q /\ r = [k \in DOMAIN r |-> r[k]]
  OBVIOUS
<1> HIDE DEF r
<1>2. IsSeq(r) /\ Len(r) = Len(q)
  BY <1>1, SeqOver
<1> QED BY <1>2 DEF r

LEMMA AsDirSeq == ASSUME NEW m, Texts(m), NEW b \in Block PROVE IsSeq(AsDir(m[b]))
BY SeqsAre DEF Texts, AsDir

\* add_entry puts the entry at a place the block has, or behind its last entry.
LEMMA PlaceSeq ==
  ASSUME NEW x, IsSeq(x), NEW name, Room(x, name) # {}, NEW i, NEW type
  PROVE  IsSeq(PlaceEntry(x, i, type, name))
<1> DEFINE k == Min(Room(x, name))
           y == PlaceAt(x, k, i, type, name)
<1>1. Len(x) \in Nat /\ DOMAIN x = 1..Len(x)
  BY SeqHas
<1>2. k \in Nat
  <2>1. Room(x, name) \subseteq 1..Len(x) \cup {Len(x) + 1}
    BY <1>1 DEF Room
  <2>2. Room(x, name) \in SUBSET Nat
    BY <1>1, <2>1
  <2>3. k \in Room(x, name)
    BY <2>2, MinIs
  <2> QED BY <2>2, <2>3
<1>3. PlaceEntry(x, i, type, name) = y
  BY DEF PlaceEntry
<1> HIDE DEF k
<1>4. CASE k > Len(x)
  BY <1>3, <1>4, SeqsAre DEF PlaceAt
<1>5. CASE ~(k > Len(x)) /\ x[k].inode = 0
  <2> DEFINE r == Reuse(x, k, i, type, name)
  <2>1. y = r
    BY <1>5 DEF PlaceAt
  <2>2. DOMAIN r = DOMAIN x /\ r = [j \in DOMAIN r |-> r[j]]
    BY DEF Reuse
  <2> HIDE DEF r
  <2>3. IsSeq(r)
    BY <2>2, SeqOver
  <2> QED BY <1>3, <2>1, <2>3
<1>6. CASE ~(k > Len(x)) /\ x[k].inode # 0
  <2> DEFINE own == EntryLen(x[k].name)
             new == Entry(i, x[k].rec - own, type, name)
             a == SubSeq(x, 1, k - 1)
             b == <<[x[k] EXCEPT !.rec = own]>>
             c == IF Start(x, k) + own < UNITS THEN <<new>> ELSE <<>>
             e == SubSeq(x, k + 1, Len(x))
  <2>1. y = a \o b \o c \o e
    BY <1>6 DEF PlaceAt, Split
  <2>2. IsSeq(a) /\ IsSeq(e)
    <3>1. k - 1 \in Int /\ 1 \in Int /\ k + 1 \in Int /\ Len(x) \in Int
      BY <1>1, <1>2
    <3> QED BY <3>1, SeqsAre
  <2>3. IsSeq(b) /\ IsSeq(c)
    <3> HIDE DEF new
    <3> QED BY SeqsAre
  <2> HIDE DEF a, b, c, e, y
  <2>4. IsSeq(a \o b)
    BY <2>2, <2>3, ConcatSeq
  <2>5. IsSeq(a \o b \o c)
    BY <2>3, <2>4, ConcatSeq
  <2>6. IsSeq(a \o b \o c \o e)
    BY <2>2, <2>5, ConcatSeq
  <2> QED BY <1>3, <2>1, <2>6
<1> QED BY <1>3, <1>4, <1>5, <1>6

\* remove_entry: the entry is marked unused and the one before grows.
LEMMA MergeSeq ==
  ASSUME NEW x, IsSeq(x), NEW j, NEW prev, prev \subseteq DOMAIN x
  PROVE  IsSeq(Merge(x, j, prev))
<1>1. Len(x) \in Nat /\ DOMAIN x = 1..Len(x)
  BY SeqHas
<1>2. CASE prev = {}
  BY <1>2 DEF Merge
<1>3. CASE prev # {}
  <2> DEFINE k == Min(prev)
             rec == x[j].rec
             y == [x EXCEPT ![k].rec = @ + rec]
             rest == {l \in (k + 1)..Len(x) : Start(x, l) >= Start(x, k) + y[k].rec}
             a == SubSeq(y, 1, k)
             b == IF rest = {} THEN <<>> ELSE SubSeq(x, Min(rest), Len(x))
  <2>1. Merge(x, j, prev) = a \o b
    BY <1>3 DEF Merge, Grow
  <2>2. k \in Nat
    <3>1. prev \in SUBSET Nat
      BY <1>1
    <3> QED BY <1>3, <3>1, MinIs
  <2> HIDE DEF k, y
  <2>3. IsSeq(a)
    <3>1. k \in Int /\ 1 \in Int
      BY <2>2
    <3> QED BY <3>1, SeqsAre
  <2>4. IsSeq(b)
    <3>1. CASE rest = {}
      BY <3>1, SeqsAre
    <3>2. CASE rest # {}
      <4>1. rest \in SUBSET Nat
        BY <2>2
      <4>2. Min(rest) \in Int /\ Len(x) \in Int
        <5> HIDE DEF rest
        <5>1. Min(rest) \in rest
          BY <3>2, <4>1, MinIs
        <5>2. Min(rest) \in Nat
          BY <4>1, <5>1
        <5> QED BY <1>1, <5>2
      <4>3. b = SubSeq(x, Min(rest), Len(x))
        BY <3>2
      <4> DEFINE m == Min(rest)
      <4>4. m \in Int /\ b = SubSeq(x, m, Len(x))
        BY <4>2, <4>3
      <4> HIDE DEF b, m
      <4>5. IsSeq(SubSeq(x, m, Len(x)))
        BY <4>2, <4>4, SeqsAre
      <4> QED BY <4>4, <4>5
    <3> QED BY <3>1, <3>2
  <2> HIDE DEF a, b
  <2> QED BY <2>1, <2>3, <2>4, ConcatSeq
<1> QED BY <1>2, <1>3

\* The first of some places comes before all others.
LEMMA FirstIs ==
  ASSUME NEW places, places # {}, places \subseteq Nat \X Nat
  PROVE  First(places) \in places
<1> DEFINE A == {p[1] : p \in places}
           k == Min(A)
           B == {q[2] : q \in {r \in places : r[1] = k}}
           l == Min(B)
<1>1. A \in SUBSET Nat /\ A # {}
  OBVIOUS
<1>2. k \in A /\ \A x \in A : k <= x
  <2> HIDE DEF A
  <2> QED BY <1>1, MinIs
<1> HIDE DEF k
<1>3. B \in SUBSET Nat /\ B # {}
  BY <1>2
<1>4. l \in B /\ \A x \in B : l <= x
  <2> HIDE DEF B
  <2> QED BY <1>3, MinIs
<1> HIDE DEF l
<1>5. PICK p \in places : p[1] = k /\ p[2] = l
  BY <1>4
<1>6. \A q \in places \ {p} : Before(p, q)
  <2> TAKE q \in places \ {p}
  <2>1. q[1] \in A /\ q[1] \in Nat /\ q[2] \in Nat /\ p[1] \in Nat /\ p[2] \in Nat
    OBVIOUS
  <2>2. k <= q[1]
    BY <1>2, <2>1
  <2>3. q[1] = k => l <= q[2]
    BY <1>4
  <2>4. q[1] = k => q[2] # l
    <3> SUFFICES ASSUME q[1] = k, q[2] = l PROVE FALSE
      OBVIOUS
    <3>1. p = <<p[1], p[2]>> /\ q = <<q[1], q[2]>>
      OBVIOUS
    <3> QED BY <1>5, <3>1
  <2> QED BY <1>5, <2>1, <2>2, <2>3, <2>4 DEF Before
<1> QED BY <1>6 DEF First

\* The blocks of a directory, and its entries by block.
LEMMA DirBlocksAre ==
  ASSUME NEW v, NEW i, Ready(v, v.inode[i])
  PROVE  LET n == CountBlocksNeeded(v.inode[i].size)
             q == DirBlocks(v, i)
         IN  /\ n \in Nat /\ DOMAIN q = 1..n
             /\ \A k \in 1..n : k - 1 \in 0..(n - 1) /\ q[k] = At(v.data, v.inode[i].block, k - 1) /\ q[k] \in Block
<1> DEFINE x == v.inode[i]
           n == CountBlocksNeeded(x.size)
           f == [k \in 1..n |-> BlockOf(v, x, (k - 1) * BS)]
           q == DirBlocks(v, i)
<1>1. Mapped(v.used, v.data, x.block, n) /\ n \in Nat /\ n \in 0..Limit
  <2>1. IsInode(x) /\ Mapped(v.used, v.data, x.block, n)
    BY DEF Ready, Fit
  <2> QED BY <2>1, NeededNat DEF IsInode, Mapped
<1>2. q = Tuple(f)
  BY DEF DirBlocks, ReadInode
<1> HIDE DEF x, n
<1>3. DOMAIN f = 1..n /\ f = [k \in 1..n |-> f[k]]
  OBVIOUS
<1>4. ASSUME NEW k \in 1..n
      PROVE  k - 1 \in 0..(n - 1) /\ f[k] = At(v.data, x.block, k - 1) /\ f[k] \in Block
  <2>1. k - 1 \in 0..(n - 1) /\ k - 1 \in 0..(Limit - 1)
    BY <1>1, LimitNat
  <2>2. BlockOf(v, x, (k - 1) * BS) = At(v.data, x.block, k - 1)
    BY <2>1, BlockIs
  <2>3. At(v.data, x.block, k - 1) \in Block
    BY <1>1, <2>1 DEF Mapped
  <2> QED BY <2>1, <2>2, <2>3
<1> HIDE DEF f
<1>5. IsSeq(f) /\ DOMAIN f = 1..n
  BY <1>1, <1>3, RowAsSeq
<1>6. DOMAIN q = 1..n /\ \A k \in 1..n : q[k] = f[k]
  BY <1>2, <1>5, TupleIs
<1> QED BY <1>1, <1>4, <1>6 DEF x, n

LEMMA DirIs ==
  ASSUME NEW v, NEW i, Ready(v, v.inode[i])
  PROVE  LET n == CountBlocksNeeded(v.inode[i].size)
             q == DirBlocks(v, i)
             dir == Dir(v, i)
         IN  /\ IsSeq(dir) /\ Len(dir) = n /\ DOMAIN dir = 1..n
             /\ \A k \in 1..n : dir[k] = AsDir(v.data[q[k]]) /\ IsSeq(dir[k])
<1> DEFINE n == CountBlocksNeeded(v.inode[i].size)
           q == DirBlocks(v, i)
           dir == Dir(v, i)
           f == [k \in 1..n |-> AsDir(v.data[q[k]])]
<1>1. n \in Nat /\ DOMAIN q = 1..n /\ \A k \in 1..n : q[k] \in Block
  BY DirBlocksAre
<1>2. dir = Tuple(f)
  <2>1. dir = Tuple([k \in DOMAIN q |-> AsDir(v.data[q[k]])])
    BY DEF Dir, DirIn
  <2> HIDE DEF q, n, dir
  <2> QED BY <1>1, <2>1
<1> HIDE DEF n, q, dir
<1>3. f = [k \in 1..n |-> f[k]]
  OBVIOUS
<1>4. ASSUME NEW k \in 1..n PROVE f[k] = AsDir(v.data[q[k]]) /\ IsSeq(f[k])
  <2>1. Texts(v.data)
    BY DEF Ready
  <2> QED BY <1>1, <2>1, AsDirSeq
<1> HIDE DEF f
<1>5. IsSeq(f) /\ Len(f) = n /\ DOMAIN f = 1..n
  BY <1>1, <1>3, RowAsSeq
<1>6. IsSeq(dir) /\ Len(dir) = n /\ DOMAIN dir = 1..n /\ \A k \in 1..n : dir[k] = f[k]
  BY <1>2, <1>5, TupleIs
<1> QED BY <1>4, <1>6 DEF n, q, dir

\* Places of entries are in the blocks.
LEMMA PlacesIn ==
  ASSUME NEW v, NEW i, Ready(v, v.inode[i]), NEW name, Matches(Dir(v, i), name) # {}
  PROVE  LET dir == Dir(v, i)
             p == First(Matches(dir, name))
         IN  /\ p[1] \in 1..CountBlocksNeeded(v.inode[i].size) /\ p[2] \in DOMAIN dir[p[1]]
             /\ dir[p[1]][p[2]].inode # 0 /\ dir[p[1]][p[2]].name = name
<1> DEFINE n == CountBlocksNeeded(v.inode[i].size)
           dir == Dir(v, i)
           found == Matches(dir, name)
<1>1. DOMAIN dir = 1..n /\ \A k \in 1..n : IsSeq(dir[k])
  BY DirIs
<1> HIDE DEF n, dir
<1>2. ASSUME NEW p \in found
      PROVE  /\ p \in Nat \X Nat /\ p[1] \in 1..n /\ p[2] \in DOMAIN dir[p[1]]
             /\ dir[p[1]][p[2]].inode # 0 /\ dir[p[1]][p[2]].name = name
  <2>1. p \in Places(dir) /\ dir[p[1]][p[2]].name = name
    BY DEF Matches
  <2>2. PICK k \in 1..n : p \in {k} \X {j \in DOMAIN dir[k] : dir[k][j].inode # 0}
    BY <1>1, <2>1 DEF Places
  <2>3. PICK j \in DOMAIN dir[k] : p = <<k, j>> /\ dir[k][j].inode # 0
    BY <2>2
  <2>4. p[1] = k /\ p[2] = j
    BY <2>3
  <2>5. k \in Nat /\ j \in Nat
    <3>1. Len(dir[k]) \in Nat /\ DOMAIN dir[k] = 1..Len(dir[k])
      BY <1>1, SeqHas
    <3> QED BY <3>1
  <2> QED BY <2>1, <2>3, <2>4, <2>5
<1>3. First(found) \in found
  <2>1. found \subseteq Nat \X Nat /\ found # {}
    BY <1>2 DEF dir
  <2> HIDE DEF found
  <2> QED BY <2>1, FirstIs
<1> QED BY <1>2, <1>3 DEF n, dir

\* find_entry finds one of the entries the iterator goes through.
LEMMA FindIs ==
  ASSUME NEW v, NEW i, Ready(v, v.inode[i]), NEW name, FindEntry(v, i, name) # NoEntry
  PROVE  FindEntry(v, i, name) \in Listing(v, i)
<1> DEFINE n == CountBlocksNeeded(v.inode[i].size)
           q == DirBlocks(v, i)
           dir == Dir(v, i)
           found == Matches(dir, name)
           p == First(found)
           f == FindEntry(v, i, name)
<1>1. DOMAIN q = 1..n
  BY DirBlocksAre
<1>2. \A k \in 1..n : dir[k] = AsDir(v.data[q[k]])
  BY DirIs
<1>3. found # {} /\ f = dir[p[1]][p[2]]
  <2>1. f = FirstEntry(dir, found)
    BY DEF FindEntry
  <2>2. found # {}
    <3> HIDE DEF found
    <3> QED BY <2>1 DEF FirstEntry
  <2> HIDE DEF found, dir, f
  <2> QED BY <2>1, <2>2 DEF FirstEntry, EntryAt
<1>4. p[1] \in 1..n /\ p[2] \in DOMAIN dir[p[1]] /\ dir[p[1]][p[2]].inode # 0
  BY <1>3, PlacesIn
<1> HIDE DEF p, found, dir, n, f
<1> DEFINE b == q[p[1]]
<1>5. b \in Range(q)
  <2> HIDE DEF q
  <2> QED BY <1>1, <1>4 DEF Range
<1>6. f \in Range(AsDir(v.data[b])) /\ f.inode # 0
  <2>1. dir[p[1]] = AsDir(v.data[b])
    BY <1>2, <1>4
  <2> HIDE DEF b
  <2>2. f = AsDir(v.data[b])[p[2]] /\ p[2] \in DOMAIN AsDir(v.data[b])
    BY <1>3, <1>4, <2>1
  <2>3. f \in Range(AsDir(v.data[b]))
    BY <2>2, Zenon DEF Range
  <2> QED BY <1>3, <1>4, <2>3
<1> HIDE DEF b, q
<1>7. f \in {e \in UNION {Range(AsDir(v.data[c])) : c \in Range(q)} : e.inode # 0}
  BY <1>5, <1>6
<1> QED BY <1>7 DEF Listing, q, f

\* What a call on directory i leaves.
DirCall(v, i, w) ==
  /\ IsVolume(w) /\ w.inodes_used = v.inodes_used /\ DOMAIN w.inode = DOMAIN v.inode
  /\ \A j \in DOMAIN v.inode : j # i => w.inode[j] = v.inode[j]
  /\ w.inode[i].mode = v.inode[i].mode
  /\ Altered(v.used, v.data, v.inode[i], w.used, w.data, w.inode[i])

LEMMA DirNot == ASSUME NEW v, NEW i, Ready(v, v.inode[i]) PROVE DirCall(v, i, v)
<1> DEFINE x == v.inode[i]
           n == CountBlocksNeeded(x.size)
<1>1. IsInode(x) /\ n \in Nat /\ n <= n
  <2>1. IsInode(x)
    BY DEF Ready, Fit
  <2> QED BY <2>1, NeededNat DEF IsInode
<1>2. Grown(v.used, v.data, x, v.used, v.data, x.block, n)
  BY GrownNot
<1>3. Altered(v.used, v.data, x, v.used, v.data, x)
  BY <1>1, <1>2, GrownAltered
<1> QED BY <1>3 DEF DirCall, Ready

\* Other entries in one of its blocks.
LEMMA DirPut ==
  ASSUME NEW v, NEW i, Ready(v, v.inode[i]), NEW k \in 1..CountBlocksNeeded(v.inode[i].size), NEW t, IsSeq(t)
  PROVE  DirCall(v, i, [v EXCEPT !.data[DirBlocks(v, i)[k]] = t])
<1> DEFINE x == v.inode[i]
           n == CountBlocksNeeded(x.size)
           b == DirBlocks(v, i)[k]
           m == [v.data EXCEPT ![b] = t]
           w == [v EXCEPT !.data = m]
<1>1. /\ IsVolume(v) /\ Texts(v.data) /\ Fit(v.used, v.data, x) /\ IsInode(x) /\ n \in Nat /\ n <= n
      /\ Grown(v.used, v.data, x, v.used, v.data, x.block, n)
  <2>1. IsVolume(v) /\ Texts(v.data) /\ Fit(v.used, v.data, x) /\ IsInode(x)
    BY DEF Ready, Fit
  <2> QED BY <2>1, NeededNat, GrownNot DEF IsInode
<1>2. b = At(v.data, x.block, k - 1) /\ k - 1 \in 0..(n - 1) /\ b \in Block
  BY DirBlocksAre
<1>3. [v EXCEPT !.data[DirBlocks(v, i)[k]] = t] = w
  OBVIOUS
<1> HIDE DEF b
<1>4. DOMAIN m = Block /\ \A c \in Block : m[c] = IF c = b THEN t ELSE v.data[c]
  BY <1>1 DEF Texts
<1> HIDE DEF m
<1>5. Texts(m)
  <2>1. ASSUME NEW c \in Block PROVE DOMAIN m[c] = Word \/ IsSeq(m[c])
    BY <1>1, <1>4 DEF Texts
  <2> QED BY <1>4, <2>1 DEF Texts
<1>6. \A c \in Block : m[c] = v.data[c] \/ \E l \in 0..(n - 1) : c = At(v.data, x.block, l)
  BY <1>2, <1>4
<1>7. Grown(v.used, v.data, x, v.used, m, x.block, n)
  BY <1>1, <1>5, <1>6, GrownFill
<1>8. Altered(v.used, v.data, x, v.used, m, x)
  BY <1>1, <1>7, GrownAltered
<1>9. SameInodes(v, w) /\ w.data = m /\ w.used = v.used
  BY <1>1, DataIs
<1> HIDE DEF w
<1>10. DirCall(v, i, w)
  BY <1>8, <1>9 DEF DirCall, SameInodes
<1> QED BY <1>3, <1>10

LEMMA RemoveEntryOn ==
  ASSUME NEW v, NEW i, Ready(v, v.inode[i]), NEW name
  PROVE  LET r == RemoveEntry(v, i, name)
         IN  DirCall(v, i, r.vol) /\ r.vol.inode = v.inode
<1> DEFINE n == CountBlocksNeeded(v.inode[i].size)
           dir == Dir(v, i)
           found == Matches(dir, name)
           p == First(found)
           x == Cleared(dir, p)
           earlier == {k \in 1..(p[1] - 1) : dir[k] # <<>>}
           prev == PrevEntry(dir, p, earlier)
           t == Merge(x, p[2], prev)
           r == RemoveEntry(v, i, name)
           w == [v EXCEPT !.data[DirBlocks(v, i)[p[1]]] = t]
<1>1. CASE ~IsDir(v, i) \/ found = {}
  <2>1. r = Fail(v)
    BY <1>1 DEF RemoveEntry, TakeOutFirst
  <2> HIDE DEF r
  <2>2. r.vol = v
    BY <2>1 DEF Fail
  <2> QED BY <2>2, DirNot DEF r
<1>2. CASE IsDir(v, i) /\ found # {}
  <2>1. r = TakeOut(v, i, dir, p)
    BY <1>2 DEF RemoveEntry, TakeOutFirst
  <2>2. r.vol = w
    <3> HIDE DEF dir, p, r
    <3> QED BY <2>1 DEF TakeOut
  <2>3. p[1] \in 1..n /\ p[2] \in DOMAIN dir[p[1]]
    BY <1>2, PlacesIn
  <2>4. IsSeq(dir[p[1]])
    <3> HIDE DEF p
    <3> QED BY <2>3, DirIs
  <2> HIDE DEF p, dir, n
  <2>5. IsSeq(x) /\ DOMAIN x = DOMAIN dir[p[1]]
    <3> DEFINE e == [dir[p[1]][p[2]] EXCEPT !.inode = 0]
    <3>1. x = [dir[p[1]] EXCEPT ![p[2]] = e]
      BY DEF Cleared
    <3> HIDE DEF e, x
    <3> QED BY <2>4, <3>1, SeqExcept
  <2>6. prev \subseteq DOMAIN x
    <3>1. Len(dir[p[1]]) \in Nat /\ DOMAIN dir[p[1]] = 1..Len(dir[p[1]])
      BY <2>4, SeqHas
    <3>2. p[2] > 1 => p[2] - 1 \in DOMAIN dir[p[1]]
      BY <2>3, <3>1
    <3> HIDE DEF x, earlier
    <3> QED BY <2>5, <3>2 DEF PrevEntry
  <2> HIDE DEF x, prev
  <2>7. IsSeq(t)
    BY <2>5, <2>6, MergeSeq
  <2> HIDE DEF t
  <2>8. DirCall(v, i, w)
    BY <2>3, <2>7, DirPut DEF n
  <2>9. w.inode = v.inode
    <3> DEFINE m == [v.data EXCEPT ![DirBlocks(v, i)[p[1]]] = t]
    <3>1. w = [v EXCEPT !.data = m]
      OBVIOUS
    <3> HIDE DEF m, w
    <3>2. IsVolume(v)
      BY DEF Ready
    <3> QED BY <3>1, <3>2, DataIs DEF SameInodes
  <2> HIDE DEF w, r
  <2> QED BY <2>2, <2>8, <2>9 DEF r
<1> QED BY <1>1, <1>2

\* A new block at the end of the directory, or the block given back.
LEMMA AppendBlockOn ==
  ASSUME NEW v, NEW i, Ready(v, v.inode[i]), i \in DOMAIN v.inode, NEW entry
  PROVE  LET r == AppendBlock(v, i, AllocateBlock(v), CountBlocksNeeded(v.inode[i].size), entry)
         IN  DirCall(v, i, r.vol)
<1> DEFINE x == v.inode[i]
           n == CountBlocksNeeded(x.size)
           p == x.block
           a == AllocateBlock(v)
           b == a.num
           text == <<entry>>
           m == [v.data EXCEPT ![b] = text]
           w == [a.vol EXCEPT !.data = m]
           ptrs == <<b>>
           s == WriteBlockPointers(w, x, n, ptrs)
           r == AppendBlock(v, i, a, n, entry)
<1>1. /\ IsVolume(v) /\ Reserved(v.used) /\ Texts(v.data) /\ Fit(v.used, v.data, x) /\ IsInode(x)
      /\ n \in Nat /\ Mapped(v.used, v.data, p, n) /\ Shape(v.used, v.data, p) /\ n \in 0..Limit
  <2>1. IsVolume(v) /\ Reserved(v.used) /\ Texts(v.data) /\ Fit(v.used, v.data, x)
    BY DEF Ready
  <2>2. n \in Nat
    BY <2>1, NeededNat DEF Fit, IsInode
  <2> QED BY <2>1, <2>2 DEF Fit, Mapped
<1>2. /\ SameInodes(v, a.vol) /\ a.vol.data = v.data
      /\ \/ b = 0
         \/ b \in Block \ {0} /\ b \notin v.used /\ a.vol.used = v.used \cup {b}
  BY <1>1, FreshBlock
<1>3. CASE b = 0
  <2>1. r = Fail(v)
    BY <1>3 DEF AppendBlock
  <2> HIDE DEF r
  <2>2. r.vol = v
    BY <2>1 DEF Fail
  <2> QED BY <2>2, DirNot DEF r
<1>4. CASE b # 0
  <2>1. b \in Block \ {0} /\ b \notin v.used /\ a.vol.used = v.used \cup {b}
    BY <1>2, <1>4
  <2>2. r = LinkBlock(s, i, b)
    <3>1. [a.vol EXCEPT !.data[b] = text] = [a.vol EXCEPT !.data = [a.vol.data EXCEPT ![b] = text]]
      OBVIOUS
    <3>2. [a.vol EXCEPT !.data[b] = text] = w
      <4> HIDE DEF a, b, text
      <4> QED BY <1>2, <3>1
    <3>3. r = LinkBlock(WriteBlockPointers([a.vol EXCEPT !.data[b] = text], x, n, ptrs), i, b)
      BY <1>4 DEF AppendBlock, ReadInode
    <3> HIDE DEF w, a, x, n, ptrs, r
    <3> QED BY <3>2, <3>3
  <2>3. IsSeq(text) /\ IsSeq(ptrs) /\ Len(ptrs) = 1 /\ ptrs[1] = b
    <3> HIDE DEF b
    <3> QED BY SeqsAre
  <2> HIDE DEF a, b, text, ptrs, x, n
  <2>4. DOMAIN m = Block /\ \A c \in Block : m[c] = IF c = b THEN text ELSE v.data[c]
    BY <1>1 DEF Texts
  <2>5. SameInodes(v, w) /\ w.data = m /\ w.used = v.used \cup {b}
    <3>1. IsVolume(a.vol)
      BY <1>2 DEF SameInodes
    <3> HIDE DEF m
    <3>2. SameInodes(a.vol, w) /\ w.data = m /\ w.used = a.vol.used
      BY <3>1, DataIs
    <3> QED BY <1>2, <2>1, <3>2, SameInodesOn
  <2> HIDE DEF m, w
  <2>6. Texts(m)
    <3>1. ASSUME NEW c \in Block PROVE DOMAIN m[c] = Word \/ IsSeq(m[c])
      BY <1>1, <2>3, <2>4 DEF Texts
    <3> QED BY <2>4, <3>1 DEF Texts
  <2>7. Fit(v.used, m, x) /\ Holds(m, x) = Holds(v.data, x)
    <3>1. Holds(v.data, x) \subseteq (v.used \cap Block) \ {0}
      BY <1>1, HoldsIn
    <3>2. \A c \in Holds(v.data, x) : c \in v.used /\ m[c] = v.data[c]
      BY <2>1, <2>4, <3>1
    <3> QED BY <1>1, <2>4, <3>2, FitSame
  <2>8. Shape(w.used, w.data, p) /\ Reserved(w.used)
    <3>1. Shape(v.used, m, p) /\ Tree(m, p) \subseteq w.used
      BY <2>5, <2>7 DEF Fit, Mapped, Shape
    <3>2. \A c \in Tree(m, p) : m[c] = m[c]
      OBVIOUS
    <3> HIDE DEF p
    <3>3. Shape(w.used, m, p)
      BY <2>4, <3>1, <3>2, SameShape
    <3> QED BY <1>1, <2>5, <3>3, ReservedMore
  <2>9. Writing(w, x, n, ptrs, s)
    <3>1. Writable(w, x, n, ptrs)
      BY <1>1, <2>3, <2>5, <2>8 DEF Writable, SameInodes
    <3> QED BY <3>1, WriteWrites
  <2> HIDE DEF s
  <2> DEFINE m2 == s.vol.data
             p2 == s.inode.block
             u2 == s.vol.used
             done == s.from - 1
  <2>10. /\ Wrote(w, p, n, ptrs, s.vol, p2, done) /\ InodeLike(x, s.inode) /\ s.from \in Nat \ {0}
         /\ s.left = 1 - done /\ done \in 0..1 /\ (s.from = 1 => Kept(w, s.vol))
    <3>1. /\ Wrote(w, p, n, ptrs, s.vol, p2, done) /\ InodeLike(x, s.inode) /\ s.from \in Nat \ {0}
          /\ s.left = Len(ptrs) - done /\ (s.from = 1 => Kept(w, s.vol))
      BY <2>9 DEF Writing
    <3>2. done \in 0..Len(ptrs)
      BY <3>1 DEF Wrote
    <3> QED BY <2>3, <3>1, <3>2
  <2>11. /\ SameInodes(w, s.vol) /\ w.used \subseteq u2 /\ Shape(u2, m2, p2)
         /\ Tree(m2, p2) \subseteq Tree(m, p) \cup (Block \ w.used)
         /\ \A c \in Block : c \notin Tree(m2, p2) => m2[c] = m[c]
    BY <2>5, <2>10 DEF Wrote
  <2>12. SameInodes(v, s.vol)
    BY <2>5, <2>11, SameInodesOn
  <2>13. Texts(m2)
    <3>1. Texts(w.data)
      BY <2>5, <2>6
    <3> QED BY <2>10, <3>1, WroteTexts
  <2>14. v.used \subseteq u2 /\ b \in u2
    BY <2>5, <2>11
  <2> HIDE DEF m2, u2
  <2>15. CASE s.left # 0
    <3> DEFINE f == FreeBlock(s.vol, b)
    <3>1. r = Fail(f)
      BY <2>2, <2>15 DEF LinkBlock
    <3>2. SameInodes(s.vol, f) /\ f.data = m2 /\ f.used = u2 \ {b}
      <4>1. IsVolume(s.vol)
        BY <2>12 DEF SameInodes
      <4>2. SameInodes(s.vol, f) /\ f.data = s.vol.data /\ f.used = s.vol.used \ ({b} \cap Block)
        BY <4>1, FreeOne
      <4> QED BY <2>1, <4>2 DEF u2, m2
    <3> HIDE DEF f, r
    <3>3. r.vol = f
      BY <3>1 DEF Fail
    <3>4. SameInodes(v, f)
      BY <2>12, <3>2, SameInodesOn
    <3>5. \A c \in v.used : c \in f.used /\ (c \in Block => m2[c] = v.data[c])
      <4>1. s.from = 1
        BY <2>10, <2>15
      <4>2. \A c \in w.used \cap Block : m2[c] = m[c]
        BY <2>5, <2>10, <4>1 DEF Kept, m2
      <4> QED BY <2>1, <2>4, <2>5, <2>14, <3>2, <4>2
    <3>6. Fit(f.used, m2, x) /\ Holds(m2, x) = Holds(v.data, x)
      <4>1. Holds(v.data, x) \subseteq (v.used \cap Block) \ {0}
        BY <1>1, HoldsIn
      <4>2. DOMAIN m2 = Block /\ \A c \in Holds(v.data, x) : c \in f.used /\ m2[c] = v.data[c]
        BY <2>13, <3>5, <4>1 DEF Texts
      <4> QED BY <1>1, <4>2, FitSame
    <3>7. Reserved(f.used)
      <4>1. v.used \subseteq f.used
        BY <3>5
      <4> QED BY <1>1, <4>1, ReservedMore
    <3>8. Altered(v.used, v.data, x, f.used, f.data, x)
      BY <2>13, <3>2, <3>5, <3>6, <3>7 DEF Altered
    <3>9. DirCall(v, i, f)
      BY <3>4, <3>8 DEF DirCall, SameInodes, x
    <3> QED BY <3>3, <3>9 DEF r, a, n, x
  <2>16. CASE s.left = 0
    <3> DEFINE y == [s.inode EXCEPT !.size = s.inode.size + BS]
               f == WriteInode(s.vol, i, y)
    <3>1. r = [vol |-> f, ok |-> TRUE]
      BY <2>2, <2>16 DEF LinkBlock
    <3>2. done = 1
      BY <2>10, <2>16
    <3>3. n + 1 <= Limit /\ \A k \in 0..(Limit - 1) : At(m2, p2, k) = IF k >= n /\ k < n + 1 THEN ptrs[1 + (k - n)] ELSE At(m, p, k)
      <4> HIDE DEF done
      <4>1. 1 > 0
        OBVIOUS
      <4> QED BY <2>5, <2>10, <3>2, <4>1 DEF Wrote, m2
    <3>4. n + 1 \in 0..Limit /\ n \in 0..(Limit - 1)
      BY <1>1, <3>3, LimitNat
    <3>5. \A k \in 0..(n - 1) : k < n + 1 /\ At(m2, p2, k) = At(m, p, k)
      <4> TAKE k \in 0..(n - 1)
      <4>1. k \in 0..(Limit - 1) /\ ~(k >= n) /\ k < n + 1
        BY <1>1, LimitNat
      <4> QED BY <3>3, <4>1
    <3>6. At(m2, p2, n) = b
      <4>1. n >= n /\ n < n + 1 /\ 1 + (n - n) = 1
        BY <1>1
      <4> QED BY <2>3, <3>3, <3>4, <4>1
    <3>7. Tree(m2, p2) \subseteq Tree(m, p) \cup (Block \ v.used) /\ b \notin Tree(m2, p2)
      <4>1. b \notin Tree(m, p)
        BY <2>1, <2>7 DEF Fit, Mapped, Shape
      <4> QED BY <2>5, <2>11, <4>1
    <3> DEFINE c == n + 1
    <3>8. \A k \in n..(c - 1) : k = n
      BY <1>1
    <3>9. Grown(v.used, m, x, u2, m2, p2, c)
      <4>1. \A k \in CountBlocksNeeded(x.size)..(c - 1) :
              At(m2, p2, k) \in (u2 \cap Block) \ {0} /\ At(m2, p2, k) \notin v.used /\ At(m2, p2, k) \notin Tree(m2, p2)
        <5>1. At(m2, p2, n) \in (u2 \cap Block) \ {0} /\ At(m2, p2, n) \notin v.used /\ At(m2, p2, n) \notin Tree(m2, p2)
          BY <2>1, <2>14, <3>6, <3>7
        <5>2. \A k \in n..(c - 1) :
                At(m2, p2, k) \in (u2 \cap Block) \ {0} /\ At(m2, p2, k) \notin v.used /\ At(m2, p2, k) \notin Tree(m2, p2)
          <6> HIDE DEF p2, c
          <6> QED BY <3>8, <5>1
        <5> HIDE DEF c
        <5> QED BY <5>2 DEF n
      <4>2. \A k, l \in CountBlocksNeeded(x.size)..(c - 1) : At(m2, p2, k) = At(m2, p2, l) => k = l
        <5>1. \A k, l \in n..(c - 1) : k = l
          <6> HIDE DEF c
          <6> QED BY <3>8
        <5> HIDE DEF c
        <5> QED BY <5>1 DEF n
      <4>3. \A k \in 0..(CountBlocksNeeded(x.size) - 1) : k < c /\ At(m2, p2, k) = At(m, x.block, k)
        BY <3>5 DEF n
      <4>4. c \in 0..Limit
        BY <3>4
      <4>5. Shape(u2, m2, p2) /\ \A e \in Block : e \notin Tree(m2, p2) => m2[e] = m[e]
        BY <2>11 DEF u2, m2
      <4>6. Tree(m2, p2) \subseteq Tree(m, x.block) \cup (Block \ v.used)
        BY <3>7
      <4> HIDE DEF c, p2
      <4> QED BY <1>1, <2>7, <2>13, <2>14, <4>1, <4>2, <4>3, <4>4, <4>5, <4>6, Growth
    <3>10. Grown(v.used, v.data, x, u2, m2, p2, c)
      <4>1. \A e \in v.used : e \in Block => m[e] = v.data[e]
        BY <2>1, <2>4
      <4> HIDE DEF c, p2
      <4>2. \A e \in v.used : e \notin Holds(v.data, x) => e \in u2 /\ (e \in Block => m2[e] = v.data[e])
        BY <2>7, <3>9, <4>1 DEF Grown
      <4> QED BY <2>7, <3>9, <4>2 DEF Grown
    <3>11. /\ IsInode(y) /\ y.size = x.size + BS /\ y.mode = x.mode /\ y.block = p2
      <4>1. s.inode.size = x.size /\ x.size \in Nat /\ x.size + BS \in Nat
        <5>1. s.inode.size = x.size /\ x.size \in Nat
          BY <1>1, <2>10, LikeInode DEF IsInode
        <5>2. x.size + BS \in Nat
          BY <5>1, Numbers
        <5> QED BY <5>1, <5>2
      <4>2. y = [s.inode EXCEPT !.size = x.size + BS]
        BY <4>1
      <4> DEFINE z == x.size + BS
      <4>3. z \in Nat /\ y = [s.inode EXCEPT !.size = z]
        BY <4>1, <4>2
      <4> HIDE DEF y, z
      <4>4. IsInode(y) /\ y.size = z /\ y.mode = x.mode /\ y.block = s.inode.block
        BY <1>1, <2>10, <4>3, LikeInode
      <4> QED BY <4>4 DEF z
    <3>12. CountBlocksNeeded(y.size) <= c
      <4>1. x.size \in Nat
        BY <1>1 DEF IsInode
      <4>2. CountBlocksNeeded(x.size + BS) = n + 1
        BY <4>1, NeededNext DEF n
      <4> HIDE DEF y
      <4> QED BY <1>1, <3>11, <4>2
    <3> HIDE DEF y, c
    <3>13. Altered(v.used, v.data, x, u2, m2, y)
      BY <3>10, <3>11, <3>12, GrownAltered
    <3>14. LET g == WriteInode(s.vol, i, y)
           IN  /\ IsVolume(g) /\ g.used = s.vol.used /\ g.data = s.vol.data /\ g.inodes_used = s.vol.inodes_used
               /\ g.inode = [s.vol.inode EXCEPT ![i] = y]
      <4>1. IsVolume(s.vol)
        BY <2>12 DEF SameInodes
      <4> QED BY <4>1, InodeIs
    <3> HIDE DEF r
    <3>15. r.vol = f
      <4> HIDE DEF f
      <4> QED BY <3>1
    <3>16. /\ IsVolume(f) /\ f.used = u2 /\ f.data = m2 /\ f.inodes_used = v.inodes_used
           /\ f.inode = [v.inode EXCEPT ![i] = y]
      BY <2>12, <3>14 DEF SameInodes, u2, m2
    <3> HIDE DEF f
    <3>17. DOMAIN f.inode = DOMAIN v.inode /\ f.inode[i] = y /\ \A j \in DOMAIN v.inode : j # i => f.inode[j] = v.inode[j]
      BY <3>16
    <3>18. Altered(v.used, v.data, v.inode[i], f.used, f.data, f.inode[i])
      BY <3>13, <3>16, <3>17 DEF x
    <3>19. f.inode[i].mode = v.inode[i].mode
      BY <3>11, <3>17 DEF x
    <3>20. DirCall(v, i, f)
      BY <3>16, <3>17, <3>18, <3>19 DEF DirCall
    <3> QED BY <3>15, <3>20 DEF r, a, n, x
  <2> QED BY <2>15, <2>16
<1> QED BY <1>3, <1>4

LEMMA AddEntryOn ==
  ASSUME NEW v, NEW i, Ready(v, v.inode[i]), i \in DOMAIN v.inode, NEW name, NEW ino, NEW type
  PROVE  DirCall(v, i, AddEntry(v, i, name, ino, type).vol)
<1> DEFINE n == CountBlocksNeeded(v.inode[i].size)
           dir == Dir(v, i)
           roomy == {k \in DOMAIN dir : Room(dir[k], name) # {}}
           k == Min(roomy)
           entry == Entry(ino, UNITS, type, name)
           r == AddEntry(v, i, name, ino, type)
<1>1. DOMAIN dir = 1..n /\ Len(dir) = n /\ \A j \in 1..n : IsSeq(dir[j])
  BY DirIs
<1>2. CASE ~IsDir(v, i)
  <2>1. r = Fail(v)
    BY <1>2 DEF AddEntry
  <2> HIDE DEF r
  <2>2. r.vol = v
    BY <2>1 DEF Fail
  <2> QED BY <2>2, DirNot DEF r
<1>3. CASE IsDir(v, i) /\ roomy = {}
  <2>1. r = AppendBlock(v, i, AllocateBlock(v), Len(dir), entry)
    BY <1>3 DEF AddEntry, AddTo, AddWhere
  <2>2. r = AppendBlock(v, i, AllocateBlock(v), n, entry)
    <3> HIDE DEF r, n, dir, entry
    <3> QED BY <1>1, <2>1
  <2> HIDE DEF entry
  <2>3. DirCall(v, i, AppendBlock(v, i, AllocateBlock(v), n, entry).vol)
    BY AppendBlockOn
  <2> HIDE DEF r, n
  <2> QED BY <2>2, <2>3 DEF r
<1>4. CASE IsDir(v, i) /\ roomy # {}
  <2> DEFINE t == PlaceEntry(dir[k], ino, type, name)
             w == [v EXCEPT !.data[DirBlocks(v, i)[k]] = t]
  <2>1. r.vol = w
    BY <1>4 DEF AddEntry, AddTo, AddWhere
  <2>2. k \in 1..n /\ Room(dir[k], name) # {}
    <3>1. roomy \in SUBSET Nat
      <4> HIDE DEF dir, n
      <4> QED BY <1>1
    <3>2. k \in roomy
      <4> HIDE DEF roomy
      <4> QED BY <1>4, <3>1, MinIs
    <3> HIDE DEF k
    <3> QED BY <1>1, <3>2
  <2> HIDE DEF k
  <2>3. IsSeq(t)
    <3> HIDE DEF dir, n
    <3> QED BY <1>1, <2>2, PlaceSeq
  <2> HIDE DEF t
  <2>4. DirCall(v, i, w)
    BY <2>2, <2>3, DirPut
  <2> HIDE DEF w, r
  <2> QED BY <2>1, <2>4 DEF r
<1> QED BY <1>2, <1>3, <1>4

-----------------------------------------------------------------------------
(* The inode in memory and the one on the disk *)

\* Pointers q have what pointers p have before block n, and the index blocks of p.
Keeps(p, q, n) ==
  /\ \A k \in 0..(NDIRECT - 1) : k < n => q[k] = p[k]
  /\ \A k \in {NDIRECT, NDIRECT + 1} : p[k] # 0 => q[k] = p[k]

LEMMA IndexKept == ASSUME NEW v, NEW b, b # 0 PROVE IndexBlock(v, b).num = b
BY DEF IndexBlock

LEMMA DirectKeeps ==
  ASSUME NEW v, NEW x, NEW idx, NEW ptrs, Writable(v, x, idx, ptrs)
  PROVE  LET s == [vol |-> v, inode |-> x, idx |-> idx, left |-> Len(ptrs), from |-> 1, full |-> FALSE]
         IN  Keeps(x.block, WriteDirect(s, ptrs).inode.block, idx)
<1> DEFINE s == [vol |-> v, inode |-> x, idx |-> idx, left |-> Len(ptrs), from |-> 1, full |-> FALSE]
           n == IF s.idx < NDIRECT THEN Least(s.left, NDIRECT - s.idx) ELSE 0
           p == Patch(x.block, idx, ptrs, 1, n)
           t == WriteDirect(s, ptrs)
<1>1. s.inode = x /\ s.idx = idx /\ s.left = Len(ptrs)
      /\ s = [vol |-> s.vol, inode |-> s.inode, idx |-> s.idx, left |-> s.left, from |-> s.from, full |-> s.full]
  OBVIOUS
<1>2. t = [s EXCEPT !.inode = [s.inode EXCEPT !.block = Patch(s.inode.block, s.idx, ptrs, 1, n)],
                    !.idx = s.idx + n, !.left = s.left - n, !.from = s.from + n]
  BY DEF WriteDirect
<1> HIDE DEF s
<1>3. n \in Nat /\ idx \in Nat /\ (idx + n <= NDIRECT \/ n = 0)
  BY <1>1, Numbers DEF Least, Writable
<1> HIDE DEF n, t
<1>4. t.inode = [x EXCEPT !.block = p]
  BY <1>1, <1>2
<1>5. t.inode.block = p
  <2>1. x = [mode |-> x.mode, size |-> x.size, links |-> x.links, block |-> x.block]
    BY DEF Writable, IsInode
  <2> HIDE DEF p
  <2>2. [x EXCEPT !.block = p] = [mode |-> x.mode, size |-> x.size, links |-> x.links, block |-> p]
    BY <2>1
  <2> QED BY <1>4, <2>2
<1>6. DOMAIN x.block = Slots
  BY DEF Writable, Shape
<1>7. ASSUME NEW k \in Slots, k < idx \/ k >= NDIRECT PROVE p[k] = x.block[k]
  <2>1. k \in Int /\ k \notin idx..(idx + n - 1)
    BY <1>3, <1>7, Numbers DEF Slots
  <2> QED BY <1>6, <2>1 DEF Patch
<1>8. NDIRECT \in Slots /\ NDIRECT + 1 \in Slots /\ \A k \in 0..(NDIRECT - 1) : k \in Slots
  BY Numbers DEF Slots
<1>9. NDIRECT >= NDIRECT /\ NDIRECT + 1 >= NDIRECT
  BY Numbers
<1> HIDE DEF p
<1>10. Keeps(x.block, p, idx)
  BY <1>7, <1>8, <1>9 DEF Keeps
<1> QED BY <1>5, <1>10 DEF t, s

LEMMA SingleKeeps ==
  ASSUME NEW v, NEW x, NEW idx, NEW ptrs, NEW s, Writing(v, x, idx, ptrs, s), NEW n
  PROVE  Keeps(s.inode.block, WriteSingle(s, ptrs).inode.block, n)
<1> DEFINE p == s.inode.block
           a == IndexBlock(s.vol, p[NDIRECT])
           m == Least(s.left, NDIRECT + BS - s.idx)
           t == WriteSingle(s, ptrs)
           p2 == [p EXCEPT ![NDIRECT] = a.num]
           w == [a.vol EXCEPT !.data[a.num] = Patch(@, s.idx - NDIRECT, ptrs, s.from, m)]
<1>0. /\ s = [vol |-> s.vol, inode |-> s.inode, idx |-> s.idx, left |-> s.left, from |-> s.from, full |-> s.full]
      /\ s.inode = [mode |-> x.mode, size |-> x.size, links |-> x.links, block |-> s.inode.block]
  BY DEF Writing, InodeLike
<1>1. CASE s.left = 0 \/ s.idx >= NDIRECT + BS
  <2>1. t = s
    BY <1>1 DEF WriteSingle
  <2> QED BY <2>1 DEF Keeps
<1>2. CASE ~(s.left = 0 \/ s.idx >= NDIRECT + BS) /\ a.num = 0
  <2>1. t = [s EXCEPT !.full = TRUE]
    BY <1>2 DEF WriteSingle, WriteUnder
  <2> HIDE DEF t
  <2>2. t.inode = s.inode
    BY <1>0, <2>1
  <2> QED BY <2>2 DEF Keeps, t
<1>3. CASE ~(s.left = 0 \/ s.idx >= NDIRECT + BS) /\ a.num # 0
  <2>1. t = [s EXCEPT !.vol = w, !.inode = [s.inode EXCEPT !.block = p2],
                      !.idx = s.idx + m, !.left = s.left - m, !.from = s.from + m]
    BY <1>3 DEF WriteSingle, WriteUnder
  <2>2. Keeps(p, p2, n)
    <3>1. p[NDIRECT] # 0 => a.num = p[NDIRECT]
      BY IndexKept
    <3> HIDE DEF a, p
    <3>2. \A k \in 0..(NDIRECT - 1) : k # NDIRECT
      BY Numbers
    <3>3. NDIRECT + 1 # NDIRECT
      BY Numbers
    <3>4. \A k : k # NDIRECT => p2[k] = p[k]
      OBVIOUS
    <3>5. p[NDIRECT] # 0 => p2[NDIRECT] = p[NDIRECT]
      BY <3>1
    <3> HIDE DEF p2
    <3> QED BY <3>2, <3>3, <3>4, <3>5 DEF Keeps
  <2> HIDE DEF t, w, p2, m
  <2>3. t.inode = [s.inode EXCEPT !.block = p2]
    BY <1>0, <2>1
  <2>4. t.inode.block = p2
    BY <1>0, <2>3
  <2> QED BY <2>2, <2>4 DEF t
<1> QED BY <1>1, <1>2, <1>3

LEMMA DoubleKeeps ==
  ASSUME NEW v, NEW x, NEW idx, NEW ptrs, NEW s, Writing(v, x, idx, ptrs, s), NEW n
  PROVE  Keeps(s.inode.block, WriteDouble(s, ptrs).inode.block, n)
<1> DEFINE p == s.inode.block
           at == s.idx - NDIRECT - BS
           a == IndexBlock(s.vol, p[NDIRECT + 1])
           b == IndexBlock(a.vol, a.vol.data[a.num][at \div BS])
           m == Least(s.left, BS - (at % BS))
           t == WriteDouble(s, ptrs)
           p2 == [p EXCEPT ![NDIRECT + 1] = a.num]
           y == [s.inode EXCEPT !.block = p2]
           u == [s EXCEPT !.inode = y]
<1>0. /\ s = [vol |-> s.vol, inode |-> s.inode, idx |-> s.idx, left |-> s.left, from |-> s.from, full |-> s.full]
      /\ s.inode = [mode |-> x.mode, size |-> x.size, links |-> x.links, block |-> s.inode.block]
  BY DEF Writing, InodeLike
<1>1. CASE s.left = 0 \/ s.full \/ s.idx >= NDIRECT + BS + BS * BS
  <2>1. t = s
    BY <1>1 DEF WriteDouble
  <2> QED BY <2>1 DEF Keeps
<1>2. CASE ~(s.left = 0 \/ s.full \/ s.idx >= NDIRECT + BS + BS * BS) /\ a.num = 0
  <2>1. t = [s EXCEPT !.full = TRUE]
    BY <1>2 DEF WriteDouble, WriteFirst
  <2> HIDE DEF t
  <2>2. t.inode = s.inode
    BY <1>0, <2>1
  <2> QED BY <2>2 DEF Keeps, t
<1>3. CASE ~(s.left = 0 \/ s.full \/ s.idx >= NDIRECT + BS + BS * BS) /\ a.num # 0
  <2>1. t = WriteSecond(s, ptrs, a, b, at)
    BY <1>3 DEF WriteDouble, WriteFirst
  <2>2. Keeps(p, p2, n)
    <3>1. p[NDIRECT + 1] # 0 => a.num = p[NDIRECT + 1]
      BY IndexKept
    <3> HIDE DEF a, p
    <3>2. \A k \in 0..(NDIRECT - 1) : k # NDIRECT + 1
      BY Numbers
    <3>3. NDIRECT + 1 # NDIRECT
      BY Numbers
    <3>4. \A k : k # NDIRECT + 1 => p2[k] = p[k]
      OBVIOUS
    <3>5. p[NDIRECT + 1] # 0 => p2[NDIRECT + 1] = p[NDIRECT + 1]
      BY <3>1
    <3> HIDE DEF p2
    <3> QED BY <3>2, <3>3, <3>4, <3>5 DEF Keeps
  <2>3. t.inode = y
    <3>1. CASE b.num = 0
      <4>1. t = [u EXCEPT !.vol = a.vol, !.full = TRUE]
        BY <2>1, <3>1 DEF WriteSecond
      <4> HIDE DEF t, y, a, b
      <4>2. u = [vol |-> s.vol, inode |-> y, idx |-> s.idx, left |-> s.left, from |-> s.from, full |-> s.full]
        BY <1>0
      <4> HIDE DEF u
      <4> DEFINE yes == TRUE
                 w == a.vol
      <4>3. t = [u EXCEPT !.vol = w, !.full = yes]
        BY <4>1
      <4> HIDE DEF yes, w
      <4>4. t.inode = y
        BY <4>2, <4>3
      <4> QED BY <4>4
    <3>2. CASE b.num # 0
      <4> DEFINE w == [b.vol EXCEPT !.data = PutSecond(@, a.num, b.num, at, ptrs, s.from, m)]
      <4>1. t = [u EXCEPT !.vol = w, !.left = s.left - m, !.from = s.from + m]
        BY <2>1, <3>2 DEF WriteSecond
      <4> HIDE DEF t, y, a, b, w, m
      <4>2. u = [vol |-> s.vol, inode |-> y, idx |-> s.idx, left |-> s.left, from |-> s.from, full |-> s.full]
        BY <1>0
      <4> HIDE DEF u
      <4> DEFINE left == s.left - m
                 from == s.from + m
      <4>3. t = [u EXCEPT !.vol = w, !.left = left, !.from = from]
        BY <4>1
      <4> HIDE DEF left, from
      <4>4. t.inode = y
        BY <4>2, <4>3
      <4> QED BY <4>4
    <3> QED BY <3>1, <3>2
  <2>5. y.block = p2
    BY <1>0
  <2> HIDE DEF t, p2, y
  <2> QED BY <2>2, <2>3, <2>5 DEF t
<1> QED BY <1>1, <1>2, <1>3

LEMMA PointersKeep ==
  ASSUME NEW v, NEW x, NEW idx, NEW ptrs, Writable(v, x, idx, ptrs)
  PROVE  Keeps(x.block, WriteBlockPointers(v, x, idx, ptrs).inode.block, idx)
<1> DEFINE s == [vol |-> v, inode |-> x, idx |-> idx, left |-> Len(ptrs), from |-> 1, full |-> FALSE]
           t == WriteDirect(s, ptrs)
           y == WriteSingle(t, ptrs)
           z == WriteDouble(y, ptrs)
<1>1. Writing(v, x, idx, ptrs, t) /\ OnTrack(idx, t) /\ (t.left = 0 \/ t.idx >= NDIRECT)
  BY WriteDirectWrites
<1>2. Keeps(x.block, t.inode.block, idx)
  BY DirectKeeps
<1> HIDE DEF t
<1>3. Writing(v, x, idx, ptrs, y)
  BY <1>1, WriteSingleWrites
<1>4. Keeps(t.inode.block, y.inode.block, idx)
  BY <1>1, SingleKeeps
<1> HIDE DEF y
<1>5. Keeps(y.inode.block, z.inode.block, idx)
  BY <1>3, DoubleKeeps
<1>6. WriteBlockPointers(v, x, idx, ptrs) = z
  BY DEF WriteBlockPointers, y, t
<1> HIDE DEF z
<1>7. Keeps(x.block, z.inode.block, idx)
  BY <1>2, <1>4, <1>5 DEF Keeps
<1> QED BY <1>6, <1>7

\* Nothing is written over what is in front of the end.
LEMMA EnsureKeeps ==
  ASSUME NEW v, NEW x, Ready(v, x), NEW required \in Nat
  PROVE  LET e == EnsureBlocksAllocated(v, x, required)
         IN  /\ Keeps(x.block, e.inode.block, CountBlocksNeeded(x.size))
             /\ required <= CountBlocksNeeded(x.size) => e.inode = x
<1> DEFINE n == CountBlocksNeeded(x.size)
           more == required - n
           a == AllocateBlocks(v, more)
           s == WriteBlockPointers(a.vol, x, n, a.blocks)
           e == EnsureBlocksAllocated(v, x, required)
<1>1. n \in Nat /\ IsVolume(v) /\ Reserved(v.used) /\ IsInode(x) /\ Shape(v.used, v.data, x.block)
  BY NeededNat DEF Ready, Fit, IsInode, Mapped
<1>2. \A f : Keeps(x.block, x.block, f)
  BY DEF Keeps
<1>3. CASE more <= 0
  <2>1. e = [vol |-> v, inode |-> x, ok |-> TRUE]
    BY <1>3 DEF EnsureBlocksAllocated
  <2> HIDE DEF e, n
  <2>2. e.inode = x
    BY <2>1
  <2> QED BY <1>2, <2>2 DEF e, n
<1>4. CASE more > 0
  <2>1. e = StoreBlocks(a, x)
    BY <1>1, <1>4 DEF EnsureBlocksAllocated
  <2>2. more \in Nat \ {0} /\ ~(required <= n)
    BY <1>1, <1>4
  <2>3. TookBlocks(v, a, more)
    BY <1>1, <2>2, TakeAll
  <2>4. Writable(a.vol, x, n, a.blocks)
    <3>1. IsVolume(a.vol) /\ a.vol.data = v.data /\ v.used \subseteq a.vol.used /\ Len(a.blocks) \in Nat
      BY <2>3 DEF TookBlocks, SameInodes
    <3>2. Reserved(a.vol.used)
      BY <1>1, <3>1, ReservedMore
    <3>3. Shape(a.vol.used, v.data, x.block)
      <4>1. DOMAIN v.data = Block /\ Tree(v.data, x.block) \subseteq a.vol.used
        BY <1>1, <3>1 DEF Shape
      <4>2. \A b \in Tree(v.data, x.block) : v.data[b] = v.data[b]
        OBVIOUS
      <4> HIDE DEF a
      <4> QED BY <1>1, <4>1, <4>2, SameShape
    <3> QED BY <1>1, <3>1, <3>2, <3>3 DEF Writable
  <2> HIDE DEF a, n
  <2>5. Keeps(x.block, s.inode.block, n)
    BY <2>4, PointersKeep
  <2>6. CASE a.full
    <3> DEFINE w == FreeBlocks(a.vol, a.blocks)
    <3>1. e = [vol |-> w, inode |-> x, ok |-> FALSE]
      BY <2>1, <2>6 DEF StoreBlocks
    <3> HIDE DEF e, w
    <3>2. e.inode = x
      BY <3>1
    <3> QED BY <1>2, <2>2, <3>2 DEF e, n
  <2>7. CASE ~a.full
    <3> DEFINE w == FreeBlocks(s.vol, a.blocks)
    <3>1. e = StorePointers(s, a.blocks)
      BY <2>1, <2>7 DEF StoreBlocks, n
    <3> HIDE DEF s
    <3>2. e = [vol |-> w, inode |-> s.inode, ok |-> FALSE] \/ e = [vol |-> s.vol, inode |-> s.inode, ok |-> TRUE]
      BY <3>1 DEF StorePointers
    <3> HIDE DEF e, w
    <3>3. e.inode = s.inode
      BY <3>2
    <3> QED BY <2>2, <2>5, <3>3 DEF e, n
  <2> QED BY <2>6, <2>7
<1> QED BY <1>1, <1>3, <1>4

-----------------------------------------------------------------------------
\* Inode y, on the disk, leads to the data that x, in memory, leads to: what x has
\* more is behind the end of the file.
Agree(x, y) ==
  LET n == CountBlocksNeeded(x.size) IN
  /\ IsInode(y) /\ DOMAIN y.block = Slots /\ y.size = x.size
  /\ \A k \in 0..(NDIRECT - 1) : k < n => y.block[k] = x.block[k]
  /\ \A k \in {NDIRECT, NDIRECT + 1} : y.block[k] \in {0, x.block[k]}
  /\ n > NDIRECT => y.block[NDIRECT] = x.block[NDIRECT]
  /\ n > NDIRECT + BS => y.block[NDIRECT + 1] = x.block[NDIRECT + 1]

LEMMA AgreeSelf == ASSUME NEW u, NEW m, NEW x, Fit(u, m, x) PROVE Agree(x, x)
BY DEF Fit, Mapped, Shape, Agree

LEMMA AgreeAt ==
  ASSUME NEW x, NEW y, Agree(x, y), x.size \in Nat, NEW m, NEW k \in 0..(CountBlocksNeeded(x.size) - 1)
  PROVE  At(m, y.block, k) = At(m, x.block, k)
<1> DEFINE n == CountBlocksNeeded(x.size)
<1>1. n \in Nat /\ k \in Nat /\ k < n
  <2>1. n \in Nat /\ k \in 0..(n - 1)
    BY NeededNat
  <2> HIDE DEF n
  <2> QED BY <2>1
<1>2. /\ \A j \in 0..(NDIRECT - 1) : j < n => y.block[j] = x.block[j]
      /\ n > NDIRECT => y.block[NDIRECT] = x.block[NDIRECT]
      /\ n > NDIRECT + BS => y.block[NDIRECT + 1] = x.block[NDIRECT + 1]
  BY DEF Agree
<1> HIDE DEF n
<1>3. CASE k < NDIRECT
  <2>1. k \in 0..(NDIRECT - 1)
    BY <1>1, <1>3, Numbers
  <2> QED BY <1>1, <1>2, <1>3, <2>1 DEF At
<1>4. CASE ~(k < NDIRECT) /\ k < NDIRECT + BS
  <2>1. n > NDIRECT
    BY <1>1, <1>4, Numbers
  <2> QED BY <1>2, <1>4, <2>1 DEF At
<1>5. CASE ~(k < NDIRECT) /\ ~(k < NDIRECT + BS)
  <2>1. n > NDIRECT + BS
    BY <1>1, <1>5, Numbers
  <2> QED BY <1>2, <1>5, <2>1 DEF At
<1> QED BY <1>3, <1>4, <1>5

LEMMA AgreeFit ==
  ASSUME NEW u, NEW m, NEW x, Fit(u, m, x), NEW y, Agree(x, y)
  PROVE  Fit(u, m, y) /\ Holds(m, y) \subseteq Holds(m, x)
<1> DEFINE n == CountBlocksNeeded(x.size)
           p == x.block
           q == y.block
<1>1. /\ IsInode(x) /\ IsInode(y) /\ x.size \in Nat /\ CountBlocksNeeded(y.size) = n
      /\ Mapped(u, m, p, n) /\ Shape(u, m, p) /\ DOMAIN q = Slots
      /\ q[NDIRECT] \in {0, p[NDIRECT]} /\ q[NDIRECT + 1] \in {0, p[NDIRECT + 1]}
  BY DEF Fit, Mapped, Agree, IsInode
<1>2. \A k \in 0..(n - 1) : At(m, q, k) = At(m, p, k)
  BY <1>1, AgreeAt
<1> HIDE DEF n, p, q
<1>3. \A w \in Word : Look(m, q[NDIRECT + 1], w) \in {0, Look(m, p[NDIRECT + 1], w)}
  BY <1>1 DEF Look
<1>4. Tree(m, q) \subseteq Tree(m, p)
  BY <1>1, <1>3 DEF Tree
<1>5. Apart(m, q)
  <2>1. /\ p[NDIRECT] # 0 => p[NDIRECT] # p[NDIRECT + 1]
        /\ \A w \in Word : Look(m, p[NDIRECT + 1], w) # 0 =>
             /\ Look(m, p[NDIRECT + 1], w) # p[NDIRECT] /\ Look(m, p[NDIRECT + 1], w) # p[NDIRECT + 1]
             /\ \A z \in Word : Look(m, p[NDIRECT + 1], z) = Look(m, p[NDIRECT + 1], w) => z = w
    BY <1>1 DEF Shape, Apart
  <2>2. q[NDIRECT] # 0 => q[NDIRECT] # q[NDIRECT + 1]
    BY <1>1, <2>1
  <2>3. ASSUME NEW w \in Word, Look(m, q[NDIRECT + 1], w) # 0
        PROVE  /\ Look(m, q[NDIRECT + 1], w) # q[NDIRECT] /\ Look(m, q[NDIRECT + 1], w) # q[NDIRECT + 1]
               /\ \A z \in Word : Look(m, q[NDIRECT + 1], z) = Look(m, q[NDIRECT + 1], w) => z = w
    <3>1. q[NDIRECT + 1] = p[NDIRECT + 1]
      BY <1>1, <2>3 DEF Look
    <3> QED BY <1>1, <2>1, <2>3, <3>1
  <2> QED BY <2>2, <2>3 DEF Apart
<1>6. Shape(u, m, q)
  BY <1>1, <1>4, <1>5 DEF Shape
<1>7. Mapped(u, m, q, n)
  BY <1>1, <1>2, <1>4, <1>6 DEF Mapped
<1>8. Hold(m, q, n) \subseteq Hold(m, p, n)
  BY <1>2, <1>4 DEF Hold
<1> QED BY <1>1, <1>7, <1>8 DEF Fit, Holds, n, p, q

LEMMA AgreeKeeps ==
  ASSUME NEW u, NEW m, NEW x, Fit(u, m, x), NEW y, Agree(x, y),
         NEW z, z.size = x.size, Keeps(x.block, z.block, CountBlocksNeeded(x.size))
  PROVE  Agree(z, y)
<1> DEFINE n == CountBlocksNeeded(x.size)
           p == x.block
           q == z.block
           r == y.block
<1>1. /\ IsInode(y) /\ DOMAIN r = Slots /\ y.size = z.size /\ CountBlocksNeeded(z.size) = n
      /\ \A k \in 0..(NDIRECT - 1) : k < n => r[k] = p[k]
      /\ r[NDIRECT] \in {0, p[NDIRECT]} /\ r[NDIRECT + 1] \in {0, p[NDIRECT + 1]}
      /\ n > NDIRECT => r[NDIRECT] = p[NDIRECT]
      /\ n > NDIRECT + BS => r[NDIRECT + 1] = p[NDIRECT + 1]
  BY DEF Agree
<1>2. /\ \A k \in 0..(NDIRECT - 1) : k < n => q[k] = p[k]
      /\ p[NDIRECT] # 0 => q[NDIRECT] = p[NDIRECT]
      /\ p[NDIRECT + 1] # 0 => q[NDIRECT + 1] = p[NDIRECT + 1]
  BY DEF Keeps
<1>3. n \in Nat /\ \A k \in 0..(n - 1) : At(m, p, k) # 0
  BY NeededNat DEF Fit, Mapped, IsInode
<1> HIDE DEF n, p, q, r
<1>4. n > NDIRECT => p[NDIRECT] # 0
  <2> SUFFICES ASSUME n > NDIRECT, p[NDIRECT] = 0 PROVE FALSE
    OBVIOUS
  <2>1. NDIRECT \in 0..(n - 1) /\ ~(NDIRECT < NDIRECT) /\ NDIRECT < NDIRECT + BS
    BY <1>3, Numbers
  <2>2. At(m, p, NDIRECT) = 0
    BY <2>1 DEF At, Look
  <2> QED BY <1>3, <2>1, <2>2
<1>5. n > NDIRECT + BS => p[NDIRECT + 1] # 0
  <2> SUFFICES ASSUME n > NDIRECT + BS, p[NDIRECT + 1] = 0 PROVE FALSE
    OBVIOUS
  <2>1. NDIRECT + BS \in 0..(n - 1) /\ ~(NDIRECT + BS < NDIRECT) /\ ~(NDIRECT + BS < NDIRECT + BS)
    BY <1>3, Numbers
  <2>2. At(m, p, NDIRECT + BS) = 0
    BY <2>1 DEF At, Look
  <2> QED BY <1>3, <2>1, <2>2
<1>6. /\ \A k \in 0..(NDIRECT - 1) : k < n => r[k] = q[k]
      /\ r[NDIRECT] \in {0, q[NDIRECT]} /\ r[NDIRECT + 1] \in {0, q[NDIRECT + 1]}
      /\ n > NDIRECT => r[NDIRECT] = q[NDIRECT]
      /\ n > NDIRECT + BS => r[NDIRECT + 1] = q[NDIRECT + 1]
  BY <1>1, <1>2, <1>4, <1>5
<1> QED BY <1>1, <1>6 DEF Agree, n, q, r

\* What a call on an open file leaves in memory and on the disk says the same.
Agreed(file, r) == Agree(r.file.inode, r.vol.inode[file.num]) /\ r.file.pos \in Nat

\* ext2_file_read moves the position only: the inode stays the one there was.
LEMMA FileReadInode ==
  ASSUME NEW v, NEW file, IsOpenFile(file), Ready(v, file.inode), NEW count \in Nat
  PROVE  FileRead(v, file, count).file.inode = file.inode
<1> DEFINE p == Least(file.pos + count, file.inode.size)
           y == [file EXCEPT !.pos = p]
<1>1. p \in Nat
  BY DEF Ready, Fit, IsInode, IsOpenFile, Least
<1> HIDE DEF p
<1>2. y.inode = file.inode
  BY FileIs
<1> HIDE DEF y
<1> QED BY <1>2 DEF FileRead, p, y

LEMMA FileReadAgree ==
  ASSUME NEW v, NEW file, IsOpenFile(file), Ready(v, file.inode), NEW count \in Nat,
         file.num \in DOMAIN v.inode, Agree(file.inode, v.inode[file.num])
  PROVE  Agreed(file, FileRead(v, file, count))
<1> DEFINE x == file.inode
           r == FileRead(v, file, count)
           p == Least(file.pos + count, x.size)
           y == [file EXCEPT !.pos = p]
           w == WriteInode(v, file.num, x)
<1>1. IsVolume(v) /\ x.size \in Nat /\ file.pos \in Nat /\ Agree(x, x)
  BY AgreeSelf DEF Ready, IsOpenFile, Fit, IsInode
<1>2. CASE file.pos >= x.size
  <2>1. r = [vol |-> v, file |-> file]
    BY <1>2 DEF FileRead
  <2> HIDE DEF r
  <2>2. r.vol = v /\ r.file = file
    BY <2>1
  <2> QED BY <1>1, <2>2 DEF r, Agreed
<1>3. CASE ~(file.pos >= x.size)
  <2>1. r = [vol |-> w, file |-> y]
    BY <1>3 DEF FileRead
  <2>2. p \in Nat
    BY <1>1 DEF Least
  <2> HIDE DEF p
  <2>3. y.inode = x
    BY FileIs
  <2>4. y.pos = p
    <3>1. file = [num |-> file.num, pos |-> file.pos, inode |-> file.inode]
      BY DEF IsOpenFile
    <3> QED BY <3>1
  <2>5. w.inode = [v.inode EXCEPT ![file.num] = x]
    BY <1>1, InodeIs
  <2>6. w.inode[file.num] = x
    BY <2>5
  <2> HIDE DEF r, y, w
  <2>7. r.vol = w /\ r.file = y
    BY <2>1
  <2> QED BY <1>1, <2>2, <2>3, <2>4, <2>6, <2>7 DEF r, Agreed
<1> QED BY <1>2, <1>3

LEMMA FileWriteAgree ==
  ASSUME NEW v, NEW file, IsOpenFile(file), Ready(v, file.inode), NEW count \in Nat, NEW word,
         file.num \in DOMAIN v.inode, Agree(file.inode, v.inode[file.num])
  PROVE  Agreed(file, FileWrite(v, file, count, word))
<1> DEFINE x == file.inode
           n == CountBlocksNeeded(x.size)
           end == file.pos + count
           need == CountBlocksNeeded(end)
           e == EnsureBlocksAllocated(v, x, need)
           c == IF e.ok THEN Larger(n, need) ELSE n
           last == file.pos + count - 1
           at == {<<k, BlockOf(e.vol, e.inode, k * BS)>> : k \in (file.pos \div BS)..(last \div BS)}
           r == FileWrite(v, file, count, word)
<1>1. /\ IsVolume(v) /\ IsInode(x) /\ n \in Nat /\ file.pos \in Nat /\ end \in Nat /\ need \in Nat /\ x.size \in Nat
      /\ Fit(v.used, v.data, x)
  <2>1. IsVolume(v) /\ IsInode(x) /\ file.pos \in Nat /\ x.size \in Nat /\ Fit(v.used, v.data, x)
    BY DEF Ready, Fit, IsOpenFile, IsInode
  <2>2. end \in Nat
    BY <2>1
  <2> HIDE DEF end
  <2> QED BY <2>1, <2>2, NeededNat
<1>2. e.ok \in BOOLEAN /\ Ensured(v, x, e, c) /\ Keeps(x.block, e.inode.block, n)
  <2> HIDE DEF need
  <2> QED BY <1>1, EnsureBlocks, EnsureKeeps
<1>3. r = WriteBlocks(e, file, last, word)
  BY DEF FileWrite
<1>4. OnFile(v, file, r)
  BY FileWriteOn
<1> HIDE DEF e
<1>5. SameInodes(v, e.vol) /\ InodeLike(x, e.inode) /\ Grown(v.used, v.data, x, e.vol.used, e.vol.data, e.inode.block, c)
  BY <1>2 DEF Ensured
<1>6. /\ IsInode(e.inode) /\ e.inode.size = x.size
      /\ \A s \in Nat : LET z == [e.inode EXCEPT !.size = s]
                        IN  IsInode(z) /\ z.size = s /\ z.mode = x.mode /\ z.block = e.inode.block
  BY <1>1, <1>5, LikeInode
<1>7. \A z : z.size = x.size /\ z.block = e.inode.block => Agree(z, v.inode[file.num])
  BY <1>1, <1>2, AgreeKeeps
<1>8. CASE ~e.ok
  <2> DEFINE g == [file EXCEPT !.inode = e.inode]
  <2>1. r = [vol |-> e.vol, file |-> g]
    BY <1>3, <1>8 DEF WriteBlocks
  <2>2. g.inode = e.inode
    BY FileIs
  <2>3. g.pos = file.pos
    <3>1. file = [num |-> file.num, pos |-> file.pos, inode |-> file.inode]
      BY DEF IsOpenFile
    <3> QED BY <3>1
  <2> HIDE DEF r, g
  <2>4. r.vol = e.vol /\ r.file.inode = e.inode /\ r.file.pos = file.pos
    BY <2>1, <2>2, <2>3
  <2>5. e.vol.inode = v.inode
    BY <1>5 DEF SameInodes
  <2>6. Agree(e.inode, v.inode[file.num])
    BY <1>6, <1>7
  <2> QED BY <1>1, <2>4, <2>5, <2>6 DEF Agreed, r
<1>9. CASE e.ok
  <2> DEFINE m2 == PutBlocks(e.vol.data, at, file.pos, end - 1, word)
             w == [e.vol EXCEPT !.data = m2]
             size == Larger(e.inode.size, end)
             y == [e.inode EXCEPT !.size = size]
             g == [file EXCEPT !.pos = end, !.inode = y]
             h == WriteEnd(at, file.pos, last)
  <2>1. c = Larger(n, need) /\ c \in 0..Limit /\ c \in Nat /\ need <= c
    <3>1. c = Larger(n, need)
      BY <1>9
    <3>2. c \in 0..Limit
      BY <1>5 DEF Grown, Mapped
    <3> HIDE DEF c, n, need
    <3> QED BY <1>1, <3>1, <3>2 DEF Larger
  <2> HIDE DEF c
  <2>2. Mapped(e.vol.used, e.vol.data, e.inode.block, c)
    BY <1>5 DEF Grown
  <2>3. \A t \in at : t[2] # 0 /\ \E k \in 0..(c - 1) : t = <<k, At(e.vol.data, e.inode.block, k)>>
    <3>1. CountBlocksNeeded(file.pos + count) <= c
      BY <2>1
    <3> HIDE DEF need
    <3>2. c \in 0..Limit /\ file.pos \in Nat
      BY <1>1, <2>1
    <3> QED BY <2>2, <3>1, <3>2, WriteWhere
  <2> HIDE DEF at
  <2>4. h = end
    <3>1. {t[1] * BS : t \in {u \in at : u[2] = 0}} = {}
      BY <2>3
    <3>2. h = last + 1
      BY <3>1 DEF WriteEnd
    <3> HIDE DEF h
    <3> QED BY <1>1, <3>2
  <2>5. r = WriteUpTo(e, at, file, end, word)
    <3>1. r = WriteUpTo(e, at, file, h, word)
      BY <1>3, <1>9 DEF WriteBlocks, WriteAt, at
    <3> HIDE DEF h, end
    <3> QED BY <2>4, <3>1
  <2>6. r = [vol |-> IF end > e.inode.size THEN WriteInode(w, file.num, y) ELSE w, file |-> g]
    BY <2>5 DEF WriteUpTo
  <2>7. SameInodes(e.vol, w)
    <3>1. IsVolume(e.vol)
      BY <1>5 DEF SameInodes
    <3> HIDE DEF m2
    <3> QED BY <3>1, DataIs
  <2>8. IsVolume(w) /\ w.inode = v.inode
    BY <1>5, <2>7 DEF SameInodes
  <2>9. size \in Nat /\ (~(end > e.inode.size) => size = x.size)
    BY <1>1, <1>6 DEF Larger
  <2> HIDE DEF size, m2, w
  <2>10. IsInode(y) /\ y.size = size /\ y.block = e.inode.block
    BY <1>6, <2>9
  <2>11. g.inode = y
    <3> HIDE DEF y, end
    <3> QED BY FileIs
  <2>12. g.pos = end
    <3>1. file = [num |-> file.num, pos |-> file.pos, inode |-> file.inode]
      BY DEF IsOpenFile
    <3> HIDE DEF y, end
    <3> QED BY <3>1
  <2> HIDE DEF y, g, r
  <2>13. r.file.inode = y /\ r.file.pos = end
    BY <2>6, <2>11, <2>12
  <2>14. CASE end > e.inode.size
    <3>1. r.vol = WriteInode(w, file.num, y)
      BY <2>6, <2>14
    <3>2. WriteInode(w, file.num, y).inode = [w.inode EXCEPT ![file.num] = y]
      BY <2>8, InodeIs
    <3>3. r.vol.inode[file.num] = y
      BY <2>8, <3>1, <3>2
    <3>4. Agree(y, y)
      BY <1>4, <2>13, AgreeSelf DEF OnFile, Altered
    <3> HIDE DEF end
    <3> QED BY <1>1, <2>13, <3>3, <3>4 DEF Agreed, r
  <2>15. CASE ~(end > e.inode.size)
    <3>1. r.vol = w
      BY <2>6, <2>15
    <3>2. Agree(y, v.inode[file.num])
      BY <1>7, <2>9, <2>10, <2>15
    <3> HIDE DEF end
    <3> QED BY <1>1, <2>8, <2>13, <3>1, <3>2 DEF Agreed, r
  <2> QED BY <2>14, <2>15
<1> QED BY <1>2, <1>8, <1>9

\* A file in memory, and the disk, are the same before and after a seek.
LEMMA FileSeekAgree ==
  ASSUME NEW file, IsOpenFile(file), NEW offset \in Int, NEW whence \in {"SEEK_SET", "SEEK_CUR", "SEEK_END"}
  PROVE  FileSeek(file, offset, whence).inode = file.inode /\ FileSeek(file, offset, whence).pos \in Nat
<1> DEFINE to == CASE whence = "SEEK_SET" -> offset
                   [] whence = "SEEK_CUR" -> file.pos + offset
                   [] whence = "SEEK_END" -> file.inode.size + offset
           g == [file EXCEPT !.pos = to]
<1>1. file = [num |-> file.num, pos |-> file.pos, inode |-> file.inode] /\ file.pos \in Nat
      /\ file.inode.size \in Nat
  BY DEF IsOpenFile, IsInode
<1>2. to \in Int
  BY <1>1
<1>3. FileSeek(file, offset, whence) = IF to < 0 \/ to > file.inode.size THEN file ELSE g
  BY DEF FileSeek
<1> HIDE DEF to
<1>4. g.inode = file.inode /\ g.pos = to
  BY <1>1
<1> HIDE DEF g
<1> QED BY <1>1, <1>2, <1>3, <1>4

\* A directory whose inode and blocks are what they were has the entries it had.
LEMMA ListingKept ==
  ASSUME NEW v, NEW w, NEW i, Ready(v, v.inode[i]), Ready(w, w.inode[i]), w.inode[i] = v.inode[i],
         \A b \in Holds(v.data, v.inode[i]) : w.data[b] = v.data[b]
  PROVE  Listing(w, i) = Listing(v, i)
<1> DEFINE x == v.inode[i]
           n == CountBlocksNeeded(x.size)
           p == x.block
           f == DirBlocks(v, i)
           g == DirBlocks(w, i)
<1>1. /\ n \in Nat /\ DOMAIN f = 1..n
      /\ \A k \in 1..n : k - 1 \in 0..(n - 1) /\ f[k] = At(v.data, p, k - 1)
  BY DirBlocksAre
<1>2. DOMAIN g = 1..n /\ \A k \in 1..n : g[k] = At(w.data, p, k - 1)
  BY DirBlocksAre
<1>3. n \in 0..Limit /\ Tree(v.data, p) \subseteq Holds(v.data, x)
      /\ \A k \in 0..(n - 1) : At(v.data, p, k) \in Holds(v.data, x)
  BY DEF Ready, Fit, Mapped, Holds, Hold
<1>4. \A b \in Holds(v.data, x) : w.data[b] = v.data[b]
  OBVIOUS
<1> HIDE DEF n, p, x, f, g
<1>5. \A k \in 0..(Limit - 1) : At(w.data, p, k) = At(v.data, p, k)
  <2>1. \A b \in Tree(v.data, p) : w.data[b] = v.data[b]
    BY <1>3, <1>4
  <2> QED BY <2>1, SameTree
<1>6. \A k \in 1..n : g[k] = f[k] /\ f[k] \in Holds(v.data, x)
  <2> SUFFICES ASSUME NEW k \in 1..n PROVE g[k] = f[k] /\ f[k] \in Holds(v.data, x)
    OBVIOUS
  <2>1. k - 1 \in 0..(n - 1) /\ k - 1 \in 0..(Limit - 1)
    BY <1>1, <1>3, LimitNat
  <2> QED BY <1>1, <1>2, <1>3, <1>5, <2>1
<1>7. Range(g) = Range(f) /\ \A b \in Range(f) : w.data[b] = v.data[b]
  BY <1>1, <1>2, <1>4, <1>6 DEF Range
<1> QED BY <1>7 DEF Listing, f, g
=============================================================================
