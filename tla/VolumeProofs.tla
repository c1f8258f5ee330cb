---------------------------- MODULE VolumeProofs -----------------------------
(***************************************************************************)
(* Two results on the ext2 driver, for volumes of any size. The free counts *)
(* agree with the bitmaps after every call, failed ones included: an        *)
(* invariant of volumes, Books, and for every operator of Ext2, Ext2Dir and *)
(* Volume a lemma that it keeps the books. And as long as directories name  *)
(* only inodes in use, no block serves two purposes: an invariant of all    *)
(* files together, WellKept, from what Ext2Proofs says each operator does   *)
(* to the tree of blocks of one file and leaves alone of the others.        *)
(***************************************************************************)
EXTENDS Volume, Ext2Proofs

-----------------------------------------------------------------------------
(* Sums over the groups *)

Total(v, S) == MapThenSumSet(LAMBDA g : v[g], S)
Pick(s) == CHOOSE x \in s : TRUE

\* f has the sum of v over every part of S.
Added(v, f, s) == IF s = {} THEN 0 ELSE v[Pick(s)] + f[s \ {Pick(s)}]
Sums(v, S, f) == f = [s \in SUBSET S |-> Added(v, f, s)]

LEMMA Picked ==
  ASSUME NEW S, IsFiniteSet(S), NEW s \in SUBSET S, s # {}
  PROVE  /\ Pick(s) \in s /\ s \ {Pick(s)} \in SUBSET S /\ IsFiniteSet(s)
         /\ Cardinality(s) \in Nat \ {0} /\ Cardinality(s \ {Pick(s)}) = Cardinality(s) - 1
<1>1. Pick(s) \in s
  BY DEF Pick
<1>2. IsFiniteSet(s)
  BY FS_Subset
<1>3. Cardinality(s) \in Nat /\ Cardinality(s) # 0
  BY <1>2, FS_CardinalityType, FS_EmptySet
<1> QED BY <1>1, <1>2, <1>3, FS_RemoveElement

\* The sum is that of a function defined on all parts.
LEMMA TotalIs ==
  ASSUME NEW S, IsFiniteSet(S), NEW v
  PROVE  \E f : Sums(v, S, f) /\ Total(v, S) = f[S]
<1> DEFINE C(n) == {s \in SUBSET S : Cardinality(s) <= n}
           Some(n) == \E f : f = [s \in C(n) |-> Added(v, f, s)]
           Bad == {n \in Nat : ~Some(n)}
<1>1. Some(0)
  <2> DEFINE f == [s \in C(0) |-> 0]
  <2>1. \A s \in C(0) : Added(v, f, s) = 0
    BY FS_Subset, FS_CardinalityType, FS_EmptySet, Picked DEF Added
  <2>2. f = [s \in C(0) |-> Added(v, f, s)]
    BY <2>1
  <2> QED BY <2>2
<1>2. ASSUME NEW n \in Nat, Some(n) PROVE Some(n + 1)
  <2>1. PICK f : f = [s \in C(n) |-> Added(v, f, s)]
    BY <1>2
  <2> DEFINE h == [s \in C(n + 1) |-> Added(v, f, s)]
  <2>2. ASSUME NEW s \in C(n + 1) PROVE Added(v, h, s) = Added(v, f, s)
    <3>1. CASE s = {}
      BY <3>1 DEF Added
    <3>2. CASE s # {}
      <4> DEFINE r == s \ {Pick(s)}
      <4>1. r \in SUBSET S /\ Cardinality(r) = Cardinality(s) - 1 /\ Cardinality(s) \in Nat
        BY <3>2, Picked
      <4>2. r \in C(n) /\ r \in C(n + 1)
        BY <4>1
      <4>3. h[r] = Added(v, f, r) /\ f[r] = Added(v, f, r)
        <5> HIDE DEF r, C
        <5>1. f[r] = Added(v, f, r)
          BY <2>1, <4>2, Zenon
        <5> QED BY <4>2, <5>1
      <4> HIDE DEF h
      <4> QED BY <3>2, <4>3 DEF Added
    <3> QED BY <3>1, <3>2
  <2>3. h = [s \in C(n + 1) |-> Added(v, h, s)]
    BY <2>2
  <2> QED BY <2>3
<1>3. Bad = {}
  <2> SUFFICES ASSUME Bad # {} PROVE FALSE
    OBVIOUS
  <2> DEFINE m == Min(Bad)
  <2>1. m \in Bad /\ \A x \in Bad : m <= x
    BY MinIs
  <2> HIDE DEF m, Some
  <2>2. m \in Nat /\ ~Some(m) /\ m # 0
    BY <1>1, <2>1
  <2>3. m - 1 \in Nat /\ Some(m - 1)
    BY <2>1, <2>2
  <2> QED BY <1>2, <2>2, <2>3
<1>4. C(Cardinality(S)) = SUBSET S /\ Cardinality(S) \in Nat
  BY FS_Subset, FS_CardinalityType
<1>5. \E f : Sums(v, S, f)
  <2>1. Some(Cardinality(S))
    BY <1>3, <1>4
  <2> QED BY <1>4, <2>1 DEF Sums
<1>6. Sums(v, S, CHOOSE f : Sums(v, S, f))
  BY <1>5
<1>7. Total(v, S) = (CHOOSE f : Sums(v, S, f))[S]
  BY Zenon DEF Total, MapThenSumSet, MapThenFoldSet, Sums, Added, Pick
<1> QED BY <1>6, <1>7

LEMMA SumStep ==
  ASSUME NEW S, NEW v, NEW f, Sums(v, S, f)
  PROVE  \A s \in SUBSET S : /\ s = {} => f[s] = 0
                             /\ s # {} => f[s] = v[Pick(s)] + f[s \ {Pick(s)}]
<1>1. \A s \in SUBSET S : f[s] = Added(v, f, s)
  BY Zenon DEF Sums
<1> QED BY <1>1 DEF Added

\* A change of one number changes the sum by as much.
LEMMA SumChange ==
  ASSUME NEW S, IsFiniteSet(S), NEW v \in [S -> Int], NEW g \in S, NEW e \in Int
  PROVE  /\ Total(v, S) \in Int
         /\ Total([v EXCEPT ![g] = v[g] + e], S) = Total(v, S) + e
<1> DEFINE w == [v EXCEPT ![g] = v[g] + e]
<1>1. PICK f : Sums(v, S, f) /\ Total(v, S) = f[S]
  BY TotalIs
<1>2. PICK h : Sums(w, S, h) /\ Total(w, S) = h[S]
  BY TotalIs
<1>3. w \in [S -> Int] /\ \A x \in S : w[x] = v[x] + IF x = g THEN e ELSE 0
  OBVIOUS
<1> HIDE DEF w
<1>7. \A s \in SUBSET S :
        /\ s = {} => f[s] = 0 /\ h[s] = 0
        /\ s # {} => /\ f[s] = v[Pick(s)] + f[s \ {Pick(s)}]
                     /\ h[s] = w[Pick(s)] + h[s \ {Pick(s)}]
  <2>1. Sums(v, S, f) /\ Sums(w, S, h)
    BY <1>1, <1>2
  <2> QED BY <2>1, SumStep
<1> DEFINE By(s) == f[s] \in Int /\ h[s] = f[s] + IF g \in s THEN e ELSE 0
           Bad == {n \in Nat : \E s \in SUBSET S : Cardinality(s) = n /\ ~By(s)}
<1>4. Bad = {}
  <2> SUFFICES ASSUME Bad # {} PROVE FALSE
    OBVIOUS
  <2>1. Min(Bad) \in Bad /\ \A x \in Bad : Min(Bad) <= x
    BY MinIs
  <2>2. PICK s \in SUBSET S : Cardinality(s) = Min(Bad) /\ ~By(s)
    BY <2>1
  <2>3. CASE s = {}
    <3>1. f[s] = 0 /\ h[s] = 0
      BY <1>7, <2>3
    <3> QED BY <2>2, <2>3, <3>1
  <2>4. CASE s # {}
    <3> DEFINE r == s \ {Pick(s)}
               x == Pick(s)
    <3>1. /\ x \in s /\ r \in SUBSET S /\ Cardinality(s) \in Nat \ {0}
          /\ Cardinality(r) = Cardinality(s) - 1
      BY <2>4, Picked
    <3>2. By(r)
      <4>1. Cardinality(r) \in Nat /\ Cardinality(r) < Min(Bad)
        BY <2>2, <3>1
      <4>2. Cardinality(r) \notin Bad
        <5> HIDE DEF Bad
        <5>1. Min(Bad) \in Int
          BY <2>2, <3>1
        <5> QED BY <2>1, <4>1, <5>1
      <4> QED BY <3>1, <4>1, <4>2
    <3>3. f[s] = v[x] + f[r] /\ h[s] = w[x] + h[r]
      BY <1>7, <2>4
    <3>4. v[x] \in Int /\ x \in S /\ w[x] = v[x] + IF x = g THEN e ELSE 0
      BY <1>3, <3>1
    <3>5. g \in s <=> g \in r \/ x = g
      BY <3>1
    <3>6. x \notin r
      OBVIOUS
    <3> HIDE DEF r, x
    <3>7. f[s] \in Int /\ h[s] = f[s] + IF g \in s THEN e ELSE 0
      BY <3>2, <3>3, <3>4, <3>5, <3>6
    <3> QED BY <2>2, <3>7
  <2> QED BY <2>3, <2>4
<1>5. Cardinality(S) \in Nat
  BY FS_CardinalityType
<1>6. By(S)
  BY <1>4, <1>5
<1> QED BY <1>1, <1>2, <1>6 DEF w

\* The sum of equal numbers.
LEMMA SumEqual ==
  ASSUME NEW S, IsFiniteSet(S), NEW c \in Int
  PROVE  Total([g \in S |-> c], S) = c * Cardinality(S)
<1> DEFINE v == [g \in S |-> c]
<1>1. PICK f : Sums(v, S, f) /\ Total(v, S) = f[S]
  BY TotalIs
<1> DEFINE By(s) == f[s] = c * Cardinality(s)
           Bad == {n \in Nat : \E s \in SUBSET S : Cardinality(s) = n /\ ~By(s)}
<1>2. \A x \in S : v[x] = c
  OBVIOUS
<1> HIDE DEF v
<1>7. \A s \in SUBSET S : /\ s = {} => f[s] = 0
                          /\ s # {} => f[s] = v[Pick(s)] + f[s \ {Pick(s)}]
  <2>1. Sums(v, S, f)
    BY <1>1
  <2> QED BY <2>1, SumStep
<1>4. Bad = {}
  <2> SUFFICES ASSUME Bad # {} PROVE FALSE
    OBVIOUS
  <2>1. Min(Bad) \in Bad /\ \A x \in Bad : Min(Bad) <= x
    BY MinIs
  <2>2. PICK s \in SUBSET S : Cardinality(s) = Min(Bad) /\ ~By(s)
    BY <2>1
  <2>3. CASE s = {}
    <3>1. f[s] = 0 /\ Cardinality(s) = 0
      BY <1>7, <2>3, FS_EmptySet
    <3> QED BY <2>2, <3>1
  <2>4. CASE s # {}
    <3> DEFINE r == s \ {Pick(s)}
               x == Pick(s)
    <3>1. /\ x \in s /\ r \in SUBSET S /\ Cardinality(s) \in Nat \ {0}
          /\ Cardinality(r) = Cardinality(s) - 1
      BY <2>4, Picked
    <3>2. By(r)
      <4>1. Cardinality(r) \in Nat /\ Cardinality(r) < Min(Bad)
        BY <2>2, <3>1
      <4>2. Cardinality(r) \notin Bad
        <5> HIDE DEF Bad
        <5>1. Min(Bad) \in Int
          BY <2>2, <3>1
        <5> QED BY <2>1, <4>1, <5>1
      <4> QED BY <3>1, <4>1, <4>2
    <3>3. f[s] = v[x] + f[r] /\ v[x] = c
      <4>1. f[s] = v[Pick(s)] + f[s \ {Pick(s)}]
        BY <1>7, <2>4
      <4>2. v[x] = c
        BY <1>2, <3>1
      <4> QED BY <4>1, <4>2
    <3>4. \A m \in Nat : c + c * (m - 1) = c * m
      OBVIOUS
    <3> HIDE DEF r, x
    <3>5. f[s] = c * Cardinality(s)
      BY <3>1, <3>2, <3>3, <3>4
    <3> QED BY <2>2, <3>5
  <2> QED BY <2>3, <2>4
<1>5. Cardinality(S) \in Nat
  BY FS_CardinalityType
<1>6. By(S)
  BY <1>4, <1>5
<1> QED BY <1>1, <1>6 DEF v

-----------------------------------------------------------------------------
(* The books of a volume *)

LEMMA InodeNumbers == INODES_PER_GROUP \in Nat \ {0}
BY Ext2Assumption, VolumeAssumption

InGroup(inodes, g) == {i \in inodes : InodeGroup(i) = g}

BlocksBooked(v) == /\ v.bg_blocks = [g \in Group |-> CountUsed(g, v.used)]
                   /\ v.sb_blocks = Total(v.bg_blocks, Group)
InodesBooked(v) ==
  /\ v.inodes_used \subseteq Inode
  /\ v.bg_inodes = [g \in Group |-> INODES_PER_GROUP - Cardinality(InGroup(v.inodes_used, g))]
  /\ v.sb_inodes = Total(v.bg_inodes, Group)
InodesKnown(v) == DOMAIN v.inode = Inode /\ \A i \in Inode : IsInode(v.inode[i])

Books(v) == IsVolume(v) /\ BlocksBooked(v) /\ InodesBooked(v) /\ InodesKnown(v)

LEMMA BitsApart ==
  ASSUME NEW g \in Group, NEW h \in Group, NEW b, b \in Bits(g), b \in Bits(h)
  PROVE  g = h
<1>1. ASSUME NEW x \in Group, NEW y \in Group, b \in Bits(x), b \in Bits(y), x < y PROVE FALSE
  <2>1. x \in Nat /\ y \in Nat /\ x # GROUPS - 1 /\ y - x - 1 \in Nat
    BY <1>1, Numbers DEF Group
  <2> DEFINE A == (x + 1) * BLOCKS_PER_GROUP
             C == y * BLOCKS_PER_GROUP
             E == (y - x - 1) * BLOCKS_PER_GROUP
  <2>2. b < A + FIRST_DATA_BLOCK /\ b >= C + FIRST_DATA_BLOCK /\ b \in Nat
    BY <1>1, <2>1, BitsOf
  <2>3. C = A + E
    BY <2>1, Numbers
  <2>4. E \in Nat /\ A \in Nat
    BY <2>1, Numbers
  <2> HIDE DEF A, C, E
  <2> QED BY <2>2, <2>3, <2>4, Numbers
<1>2. g \in Nat /\ h \in Nat
  BY DEF Group
<1>3. ~(g < h)
  BY <1>1
<1>4. ~(h < g)
  BY <1>1
<1> QED BY <1>2, <1>3, <1>4

\* The bit of a block is in its group.
LEMMA BlockBit ==
  ASSUME NEW b \in Block
  PROVE  BlockGroup(b) \in Group /\ b \in Bits(BlockGroup(b))
<1> DEFINE n == b - FIRST_DATA_BLOCK
           q == n \div BLOCKS_PER_GROUP
           r == n % BLOCKS_PER_GROUP
<1>1. n \in Nat /\ n < TOTAL_BLOCKS /\ b = n + FIRST_DATA_BLOCK /\ n <= TOTAL_BLOCKS - 1 - FIRST_DATA_BLOCK
  BY Numbers DEF Block
<1>2. q \in Nat /\ r \in 0..(BLOCKS_PER_GROUP - 1) /\ n = BLOCKS_PER_GROUP * q + r
  BY <1>1, Numbers, DivMod
<1> HIDE DEF q, r, n
<1>4. q < GROUPS
  <2> SUFFICES ASSUME q >= GROUPS PROVE FALSE
    BY <1>2, Numbers
  <2>1. (q - GROUPS) * BLOCKS_PER_GROUP >= 0
        /\ BLOCKS_PER_GROUP * q = GROUPS * BLOCKS_PER_GROUP + (q - GROUPS) * BLOCKS_PER_GROUP
    BY <1>2, Numbers
  <2> QED BY <1>1, <1>2, <2>1, Numbers, Ext2Assumption
<1>5. q \in Group /\ BlockGroup(b) = q
  BY <1>2, <1>4, Numbers DEF Group, BlockGroup, q, n
<1>6. b = q * BLOCKS_PER_GROUP + r + FIRST_DATA_BLOCK
  BY <1>1, <1>2, Numbers
<1>7. b \in Bits(q)
  <2>1. CASE q = GROUPS - 1
    <3>1. r <= TOTAL_BLOCKS - q * BLOCKS_PER_GROUP - 1
      BY <1>1, <1>2, Numbers
    <3>2. r \in 0..(TOTAL_BLOCKS - q * BLOCKS_PER_GROUP - 1)
      BY <1>2, <3>1, Numbers
    <3> QED BY <1>6, <2>1, <3>2 DEF Bits
  <2>2. CASE q # GROUPS - 1
    BY <1>2, <1>6, <2>2 DEF Bits
  <2> QED BY <2>1, <2>2
<1> QED BY <1>5, <1>7

LEMMA CountType == ASSUME NEW g \in Group, NEW used PROVE CountUsed(g, used) \in Nat
<1>1. IsFiniteSet(Bits(g) \ used)
  BY BitsOf, FS_Subset
<1> QED BY <1>1, FS_CardinalityType DEF CountUsed

\* Counts after a bit is set or cleared.
LEMMA CountWith ==
  ASSUME NEW g \in Group, NEW used, NEW b
  PROVE  /\ CountUsed(g, used) \in Nat
         /\ CountUsed(g, used \cup {b}) = CountUsed(g, used) - IF b \in Bits(g) \ used THEN 1 ELSE 0
         /\ b \in used => CountUsed(g, used \ {b}) = CountUsed(g, used) + IF b \in Bits(g) THEN 1 ELSE 0
<1> DEFINE X == Bits(g) \ used
<1>1. IsFiniteSet(X)
  BY BitsOf, FS_Subset
<1>2. CountUsed(g, used) = Cardinality(X) /\ Cardinality(X) \in Nat
  BY <1>1, FS_CardinalityType DEF CountUsed
<1>3. Bits(g) \ (used \cup {b}) = X \ {b}
  OBVIOUS
<1>4. Cardinality(X \ {b}) = Cardinality(X) - IF b \in X THEN 1 ELSE 0
  BY <1>1, <1>2, FS_RemoveElement
<1>5. ASSUME b \in used PROVE Cardinality(Bits(g) \ (used \ {b})) = Cardinality(X) + IF b \in Bits(g) THEN 1 ELSE 0
  <2>1. CASE b \in Bits(g)
    <3>1. Bits(g) \ (used \ {b}) = X \cup {b} /\ b \notin X
      BY <1>5, <2>1
    <3>2. Cardinality(X \cup {b}) = Cardinality(X) + 1
      BY <1>1, <3>1, FS_AddElement
    <3> QED BY <2>1, <3>1, <3>2
  <2>2. CASE b \notin Bits(g)
    <3>1. Bits(g) \ (used \ {b}) = X
      BY <2>2
    <3> HIDE DEF X
    <3> QED BY <1>2, <2>2, <3>1
  <2> QED BY <2>1, <2>2
<1> HIDE DEF X
<1> QED BY <1>2, <1>3, <1>4, <1>5 DEF CountUsed, X

-----------------------------------------------------------------------------
(* The four calls that keep the books, and those that leave them alone *)

\* w has the counts and the bitmaps of v.
SameBooks(v, w) ==
  /\ IsVolume(w) /\ InodesKnown(w)
  /\ w.used = v.used /\ w.bg_blocks = v.bg_blocks /\ w.sb_blocks = v.sb_blocks
  /\ w.inodes_used = v.inodes_used /\ w.bg_inodes = v.bg_inodes /\ w.sb_inodes = v.sb_inodes

LEMMA BooksKept == ASSUME NEW v, NEW w, Books(v), SameBooks(v, w) PROVE Books(w)
BY DEF Books, SameBooks, BlocksBooked, InodesBooked

LEMMA DataBooks == ASSUME NEW v, Books(v), NEW x PROVE Books([v EXCEPT !.data = x])
<1> DEFINE w == [v EXCEPT !.data = x]
<1>1. w = [used |-> v.used, bg_blocks |-> v.bg_blocks, sb_blocks |-> v.sb_blocks,
           inodes_used |-> v.inodes_used, bg_inodes |-> v.bg_inodes, sb_inodes |-> v.sb_inodes,
           bg_dirs |-> v.bg_dirs, inode |-> v.inode, data |-> x]
  BY DEF Books, IsVolume
<1> HIDE DEF w
<1>2. SameBooks(v, w)
  BY <1>1 DEF SameBooks, IsVolume, Books, InodesKnown
<1> QED BY <1>2, BooksKept DEF w

LEMMA DataAtBooks == ASSUME NEW v, Books(v), NEW b, NEW x PROVE Books([v EXCEPT !.data[b] = x])
<1>1. [v EXCEPT !.data[b] = x] = [v EXCEPT !.data = [v.data EXCEPT ![b] = x]]
  OBVIOUS
<1> QED BY <1>1, DataBooks

LEMMA WriteInodeBooks == ASSUME NEW v, Books(v), NEW i, NEW x, IsInode(x) PROVE Books(WriteInode(v, i, x))
<1> DEFINE w == WriteInode(v, i, x)
           f == [v.inode EXCEPT ![i] = x]
<1>1. w = [used |-> v.used, bg_blocks |-> v.bg_blocks, sb_blocks |-> v.sb_blocks,
           inodes_used |-> v.inodes_used, bg_inodes |-> v.bg_inodes, sb_inodes |-> v.sb_inodes,
           bg_dirs |-> v.bg_dirs, inode |-> f, data |-> v.data]
  BY DEF Books, IsVolume, WriteInode
<1>2. DOMAIN f = Inode /\ \A j \in Inode : IsInode(f[j])
  BY DEF Books, InodesKnown
<1> HIDE DEF w, f
<1>3. SameBooks(v, w)
  BY <1>1, <1>2 DEF SameBooks, IsVolume, Books, InodesKnown
<1> QED BY <1>3, BooksKept DEF w

\* One bit of a group set or cleared, and its group's and the volume's count with it.
LEMMA BlockCount ==
  ASSUME NEW v, Books(v), NEW g \in Group, NEW e \in {-1, 1}, NEW used,
         \A h \in Group : CountUsed(h, used) = CountUsed(h, v.used) + IF h = g THEN e ELSE 0
  PROVE  LET w == [v EXCEPT !.used = used, !.bg_blocks[g] = @ + e, !.sb_blocks = @ + e]
         IN  Books(w)
<1> DEFINE w == [v EXCEPT !.used = used, !.bg_blocks[g] = @ + e, !.sb_blocks = @ + e]
           f == [v.bg_blocks EXCEPT ![g] = v.bg_blocks[g] + e]
<1>1. w = [used |-> used, bg_blocks |-> f, sb_blocks |-> v.sb_blocks + e,
           inodes_used |-> v.inodes_used, bg_inodes |-> v.bg_inodes, sb_inodes |-> v.sb_inodes,
           bg_dirs |-> v.bg_dirs, inode |-> v.inode, data |-> v.data]
  <2>1. w = [v EXCEPT !.used = used, !.bg_blocks = f, !.sb_blocks = v.sb_blocks + e]
    OBVIOUS
  <2> HIDE DEF w, f
  <2> QED BY <2>1 DEF Books, IsVolume
<1>2. v.bg_blocks \in [Group -> Int] /\ \A h \in Group : v.bg_blocks[h] = CountUsed(h, v.used)
  <2>1. \A h \in Group : CountUsed(h, v.used) \in Int
    BY CountType
  <2>2. v.bg_blocks = [h \in Group |-> CountUsed(h, v.used)]
    BY DEF Books, BlocksBooked
  <2> QED BY <2>1, <2>2
<1>3. f = [h \in Group |-> CountUsed(h, used)]
  <2>1. f \in [Group -> Int] /\ \A h \in Group : f[h] = CountUsed(h, used)
    BY <1>2
  <2> QED BY <2>1
<1>4. v.sb_blocks + e = Total(f, Group)
  <2>1. v.sb_blocks = Total(v.bg_blocks, Group) /\ e \in Int
    BY DEF Books, BlocksBooked
  <2>2. Total(f, Group) = Total(v.bg_blocks, Group) + e
    BY <1>2, <2>1, GroupsFinite, SumChange
  <2> QED BY <2>1, <2>2
<1> HIDE DEF w, f
<1>5. IsVolume(w) /\ BlocksBooked(w) /\ InodesBooked(w) /\ InodesKnown(w)
  BY <1>1, <1>3, <1>4 DEF IsVolume, Books, BlocksBooked, InodesBooked, InodesKnown
<1> QED BY <1>5 DEF Books, w

\* allocate_block and allocate_inode answer with the volume and a number.
Answer(r) == r = [vol |-> r.vol, num |-> r.num] /\ Books(r.vol) /\ r.num \in Nat

LEMMA AllocateBlockBooks == ASSUME NEW v, Books(v) PROVE Answer(AllocateBlock(v))
<1> DEFINE G == BlockGroupsLeft(v)
           g == Min(G)
           b == Min(Bits(g) \ v.used)
<1>1. CASE G = {}
  BY <1>1 DEF AllocateBlock, Answer
<1>2. CASE G # {}
  <2>1. G \in SUBSET Nat /\ \A h \in G : h \in Group /\ Bits(h) \ v.used # {}
    BY GroupsFinite DEF BlockGroupsLeft
  <2>2. g \in Group /\ Bits(g) \ v.used # {}
    BY <1>2, <2>1, MinIs
  <2>3. b \in Bits(g) /\ b \notin v.used /\ b \in Nat
    <3>1. Bits(g) \subseteq Nat
      BY <2>2, BitsOf
    <3>2. b \in Bits(g) \ v.used
      BY <2>2, <3>1, MinIs
    <3> QED BY <3>1, <3>2
  <2> DEFINE u == v.used \cup {b}
             w == [v EXCEPT !.used = u, !.bg_blocks[g] = @ + (-1), !.sb_blocks = @ + (-1)]
             x == [v EXCEPT !.used = @ \cup {b}, !.bg_blocks[g] = @ - 1, !.sb_blocks = @ - 1]
  <2>4. AllocateBlock(v) = [vol |-> x, num |-> b]
    BY <1>2 DEF AllocateBlock
  <2> HIDE DEF g, b, G
  <2>5. Books(w)
    <3>1. ASSUME NEW h \in Group
          PROVE  CountUsed(h, u) = CountUsed(h, v.used) + IF h = g THEN -1 ELSE 0
      <4>1. b \in Bits(h) \ v.used <=> h = g
        BY <2>2, <2>3, BitsApart
      <4>2. /\ CountUsed(h, v.used) \in Nat
            /\ CountUsed(h, u) = CountUsed(h, v.used) - IF b \in Bits(h) \ v.used THEN 1 ELSE 0
        BY CountWith
      <4> QED BY <4>1, <4>2
    <3> HIDE DEF u
    <3>2. -1 \in {-1, 1}
      OBVIOUS
    <3> QED BY <2>2, <3>1, <3>2, BlockCount
  <2>6. x = w
    <3>1. v.bg_blocks[g] \in Int /\ v.sb_blocks \in Int
      <4>1. /\ v.bg_blocks = [h \in Group |-> CountUsed(h, v.used)]
            /\ v.sb_blocks = Total(v.bg_blocks, Group) /\ 0 \in Int
        BY DEF Books, BlocksBooked
      <4>2. \A h \in Group : CountUsed(h, v.used) \in Int
        BY CountType
      <4>3. v.bg_blocks \in [Group -> Int]
        BY <4>1, <4>2
      <4>4. Total(v.bg_blocks, Group) \in Int
        BY <2>2, <4>1, <4>3, GroupsFinite, SumChange
      <4> QED BY <2>2, <4>1, <4>3, <4>4
    <3>2. v.bg_blocks[g] - 1 = v.bg_blocks[g] + (-1) /\ v.sb_blocks - 1 = v.sb_blocks + (-1)
      BY <3>1
    <3> QED BY <3>2
  <2> HIDE DEF x, w
  <2> QED BY <2>3, <2>4, <2>5, <2>6 DEF Answer
<1> QED BY <1>1, <1>2

LEMMA FreeBlockBooks == ASSUME NEW v, Books(v), NEW b PROVE Books(FreeBlock(v, b))
<1>1. CASE b \notin Block \/ b \notin v.used
  BY <1>1 DEF FreeBlock
<1>2. CASE b \in Block /\ b \in v.used
  <2> DEFINE g == BlockGroup(b)
             u == v.used \ {b}
             w == [v EXCEPT !.used = u, !.bg_blocks[g] = @ + 1, !.sb_blocks = @ + 1]
  <2>1. FreeBlock(v, b) = w
    BY <1>2 DEF FreeBlock
  <2>2. g \in Group /\ b \in Bits(g)
    BY <1>2, BlockBit
  <2> HIDE DEF g
  <2>3. ASSUME NEW h \in Group
        PROVE  CountUsed(h, u) = CountUsed(h, v.used) + IF h = g THEN 1 ELSE 0
    <3>1. b \in Bits(h) <=> h = g
      BY <2>2, BitsApart
    <3>2. /\ CountUsed(h, v.used) \in Nat
          /\ CountUsed(h, u) = CountUsed(h, v.used) + IF b \in Bits(h) THEN 1 ELSE 0
      BY <1>2, CountWith
    <3> QED BY <3>1, <3>2
  <2> HIDE DEF u
  <2>4. 1 \in {-1, 1}
    OBVIOUS
  <2>5. Books(w)
    BY <2>2, <2>3, <2>4, BlockCount
  <2> QED BY <2>1, <2>5
<1> QED BY <1>1, <1>2

\* The inodes of a group in use, after one is taken or given back.
LEMMA InGroupWith ==
  ASSUME NEW used \in SUBSET Inode, NEW i \in Inode, NEW g
  PROVE  /\ Cardinality(InGroup(used, g)) \in Nat
         /\ i \notin used =>
              Cardinality(InGroup(used \cup {i}, g)) = Cardinality(InGroup(used, g)) + IF InodeGroup(i) = g THEN 1 ELSE 0
         /\ i \in used =>
              Cardinality(InGroup(used \ {i}, g)) = Cardinality(InGroup(used, g)) - IF InodeGroup(i) = g THEN 1 ELSE 0
<1> DEFINE X == InGroup(used, g)
<1>1. IsFiniteSet(X)
  <2>1. GROUPS * INODES_PER_GROUP \in Nat /\ 1 \in Int
    BY Numbers, InodeNumbers
  <2>2. IsFiniteSet(Inode)
    BY <2>1, FS_Interval DEF Inode
  <2>3. X \subseteq Inode
    BY DEF InGroup
  <2> QED BY <2>2, <2>3, FS_Subset
<1>2. Cardinality(X) \in Nat
  BY <1>1, FS_CardinalityType
<1>3. InGroup(used \cup {i}, g) = IF InodeGroup(i) = g THEN X \cup {i} ELSE X
  BY DEF InGroup
<1>4. InGroup(used \ {i}, g) = IF InodeGroup(i) = g THEN X \ {i} ELSE X
  BY DEF InGroup
<1>5. i \in X <=> i \in used /\ InodeGroup(i) = g
  BY DEF InGroup
<1> HIDE DEF X
<1>6. i \notin X => Cardinality(X \cup {i}) = Cardinality(X) + 1
  BY <1>1, FS_AddElement
<1>7. i \in X => Cardinality(X \ {i}) = Cardinality(X) - 1
  BY <1>1, FS_RemoveElement
<1>8. Cardinality(X) = Cardinality(X) + 0 /\ Cardinality(X) = Cardinality(X) - 0
  BY <1>2
<1>9. i \notin used => Cardinality(InGroup(used \cup {i}, g)) = Cardinality(X) + IF InodeGroup(i) = g THEN 1 ELSE 0
  BY <1>3, <1>5, <1>6, <1>8
<1>10. i \in used => Cardinality(InGroup(used \ {i}, g)) = Cardinality(X) - IF InodeGroup(i) = g THEN 1 ELSE 0
  BY <1>4, <1>5, <1>7, <1>8
<1> QED BY <1>2, <1>9, <1>10 DEF X

LEMMA InodeGroupOf == ASSUME NEW i \in Inode PROVE InodeGroup(i) \in Group
<1> DEFINE q == (i - 1) \div INODES_PER_GROUP
           r == (i - 1) % INODES_PER_GROUP
<1>1. i - 1 \in Nat /\ i - 1 < GROUPS * INODES_PER_GROUP
  BY Numbers, InodeNumbers DEF Inode
<1>2. q \in Nat /\ r \in 0..(INODES_PER_GROUP - 1) /\ i - 1 = INODES_PER_GROUP * q + r
  BY <1>1, Numbers, InodeNumbers, DivMod
<1>3. InodeGroup(i) = q
  BY DEF InodeGroup
<1> HIDE DEF q, r
<1>4. q < GROUPS
  <2> SUFFICES ASSUME q >= GROUPS PROVE FALSE
    BY <1>2, Numbers, InodeNumbers
  <2>1. (q - GROUPS) * INODES_PER_GROUP >= 0
        /\ INODES_PER_GROUP * q = GROUPS * INODES_PER_GROUP + (q - GROUPS) * INODES_PER_GROUP
    BY <1>2, Numbers, InodeNumbers
  <2> QED BY <1>1, <1>2, <2>1, Numbers, InodeNumbers
<1> QED BY <1>2, <1>3, <1>4, Numbers, InodeNumbers DEF Group

\* The inodes a group's scan visits are of the group.
LEMMA InodeBit ==
  ASSUME NEW g \in Group, NEW i \in InodeBits(g)
  PROVE  i \in Inode /\ InodeGroup(i) = g
<1>1. PICK k \in 1..(INODES_PER_GROUP - 1) : i = g * INODES_PER_GROUP + k + 1
  BY DEF InodeBits
<1> DEFINE A == g * INODES_PER_GROUP
           C == GROUPS * INODES_PER_GROUP
           E == (GROUPS - 1 - g) * INODES_PER_GROUP
<1>2. g \in Nat /\ GROUPS - 1 - g \in Nat
  BY Numbers, InodeNumbers DEF Group
<1>3. A \in Nat /\ E \in Nat /\ C = A + INODES_PER_GROUP + E /\ A = INODES_PER_GROUP * g
  BY <1>2, Numbers, InodeNumbers
<1> HIDE DEF A, C, E
<1>4. i = A + k + 1 /\ i - 1 = INODES_PER_GROUP * g + k
  BY <1>1, <1>3, Numbers, InodeNumbers DEF A
<1>5. i \in Inode
  <2>1. i \in 1..C
    BY <1>3, <1>4, Numbers, InodeNumbers
  <2> QED BY <2>1 DEF Inode, C
<1>6. InodeGroup(i) = g
  BY <1>2, <1>4, DivUnique, Numbers, InodeNumbers DEF InodeGroup
<1> QED BY <1>5, <1>6

LEMMA InodeCountType ==
  ASSUME NEW v, Books(v)
  PROVE  v.bg_inodes \in [Group -> Int] /\ v.sb_inodes \in Int
<1>1. \A h \in Group : INODES_PER_GROUP - Cardinality(InGroup(v.inodes_used, h)) \in Int
  <2>1. v.inodes_used \in SUBSET Inode
    BY DEF Books, InodesBooked
  <2>2. 1 \in Inode
    BY Numbers, InodeNumbers DEF Inode
  <2>3. \A h \in Group : Cardinality(InGroup(v.inodes_used, h)) \in Nat
    BY <2>1, <2>2, InGroupWith
  <2> QED BY <2>3, Numbers, InodeNumbers
<1>2. v.bg_inodes = [g \in Group |-> INODES_PER_GROUP - Cardinality(InGroup(v.inodes_used, g))]
      /\ v.sb_inodes = Total(v.bg_inodes, Group)
  BY DEF Books, InodesBooked
<1>3. v.bg_inodes \in [Group -> Int]
  BY <1>1, <1>2
<1>4. 0 \in Group /\ 0 \in Int /\ IsFiniteSet(Group)
  BY Numbers, InodeNumbers, GroupsFinite DEF Group
<1>5. Total(v.bg_inodes, Group) \in Int
  BY <1>3, <1>4, SumChange
<1> QED BY <1>2, <1>3, <1>5

LEMMA InodeCount ==
  ASSUME NEW v, Books(v), NEW g \in Group, NEW e \in {-1, 1}, NEW used \in SUBSET Inode, NEW dirs,
         \A h \in Group : /\ Cardinality(InGroup(used, h)) \in Nat
                          /\ Cardinality(InGroup(v.inodes_used, h)) = Cardinality(InGroup(used, h)) + IF h = g THEN e ELSE 0
  PROVE  Books([used |-> v.used, bg_blocks |-> v.bg_blocks, sb_blocks |-> v.sb_blocks,
                inodes_used |-> used, bg_inodes |-> [v.bg_inodes EXCEPT ![g] = v.bg_inodes[g] + e],
                sb_inodes |-> v.sb_inodes + e,
                bg_dirs |-> dirs, inode |-> v.inode, data |-> v.data])
<1> DEFINE f == [v.bg_inodes EXCEPT ![g] = v.bg_inodes[g] + e]
           n == v.sb_inodes + e
           w == [used |-> v.used, bg_blocks |-> v.bg_blocks, sb_blocks |-> v.sb_blocks,
                 inodes_used |-> used, bg_inodes |-> f, sb_inodes |-> n,
                 bg_dirs |-> dirs, inode |-> v.inode, data |-> v.data]
<1>1. v.bg_inodes \in [Group -> Int]
      /\ \A h \in Group : v.bg_inodes[h] = INODES_PER_GROUP - Cardinality(InGroup(v.inodes_used, h))
  BY InodeCountType DEF Books, InodesBooked
<1>2. f = [h \in Group |-> INODES_PER_GROUP - Cardinality(InGroup(used, h))]
  <2>1. f \in [Group -> Int] /\ \A h \in Group : f[h] = v.bg_inodes[h] + IF h = g THEN e ELSE 0
    BY <1>1
  <2>2. \A h \in Group : f[h] = INODES_PER_GROUP - Cardinality(InGroup(used, h))
    <3> HIDE DEF f
    <3> QED BY <1>1, <2>1, Numbers, InodeNumbers
  <2> HIDE DEF f
  <2> QED BY <2>1, <2>2
<1>3. n = Total(f, Group)
  <2>1. v.sb_inodes = Total(v.bg_inodes, Group) /\ e \in Int
    BY DEF Books, InodesBooked
  <2>2. Total(f, Group) = Total(v.bg_inodes, Group) + e
    BY <1>1, <2>1, GroupsFinite, SumChange
  <2> QED BY <2>1, <2>2
<1> HIDE DEF f, n
<1>4. IsVolume(w) /\ BlocksBooked(w) /\ InodesKnown(w) /\ InodesBooked(w)
  BY <1>2, <1>3 DEF IsVolume, Books, BlocksBooked, InodesBooked, InodesKnown
<1>5. Books(w)
  BY <1>4 DEF Books
<1> QED BY <1>5 DEF f, n

LEMMA AllocateInodeBooks ==
  ASSUME NEW v, Books(v), NEW is_directory
  PROVE  LET a == AllocateInode(v, is_directory)
         IN  Answer(a) /\ (a.num # 0 => a.num \in Inode)
<1> DEFINE a == AllocateInode(v, is_directory)
           G == InodeGroupsLeft(v)
           g == Min(G)
           i == Min(InodeBits(g) \ v.inodes_used)
<1>1. CASE G = {}
  BY <1>1 DEF AllocateInode, Answer
<1>2. CASE G # {}
  <2>1. G \in SUBSET Nat /\ \A h \in G : h \in Group /\ InodeBits(h) \ v.inodes_used # {}
    BY GroupsFinite DEF InodeGroupsLeft
  <2>2. g \in Group /\ InodeBits(g) \ v.inodes_used # {}
    BY <1>2, <2>1, MinIs
  <2>3. i \in InodeBits(g) /\ i \notin v.inodes_used
    <3>1. InodeBits(g) \subseteq Inode
      BY <2>2, InodeBit
    <3>2. InodeBits(g) \subseteq Nat
      BY <3>1 DEF Inode
    <3>3. i \in InodeBits(g) \ v.inodes_used
      BY <2>2, <3>2, MinIs
    <3> QED BY <3>3
  <2>4. i \in Inode /\ InodeGroup(i) = g /\ i \in Nat
    BY <2>2, <2>3, InodeBit DEF Inode
  <2> DEFINE u == v.inodes_used \cup {i}
             f == [v.bg_inodes EXCEPT ![g] = v.bg_inodes[g] + (-1)]
             n == v.sb_inodes + (-1)
             dirs == [v.bg_dirs EXCEPT ![g] = @ + IF is_directory THEN 1 ELSE 0]
             w == [used |-> v.used, bg_blocks |-> v.bg_blocks, sb_blocks |-> v.sb_blocks,
                   inodes_used |-> u, bg_inodes |-> f, sb_inodes |-> n,
                   bg_dirs |-> dirs, inode |-> v.inode, data |-> v.data]
             x == [v EXCEPT !.inodes_used = @ \cup {i}, !.bg_inodes[g] = @ - 1, !.sb_inodes = @ - 1,
                            !.bg_dirs[g] = @ + IF is_directory THEN 1 ELSE 0]
  <2>5. a = [vol |-> x, num |-> i]
    BY <1>2 DEF AllocateInode
  <2> HIDE DEF a, g, i, G
  <2>6. Books(w)
    <3>1. u \in SUBSET Inode /\ v.inodes_used \in SUBSET Inode
      BY <2>4 DEF Books, InodesBooked
    <3>2. ASSUME NEW h \in Group
          PROVE  /\ Cardinality(InGroup(u, h)) \in Nat
                 /\ Cardinality(InGroup(v.inodes_used, h)) = Cardinality(InGroup(u, h)) + IF h = g THEN -1 ELSE 0
      <4>1. /\ Cardinality(InGroup(v.inodes_used, h)) \in Nat
            /\ Cardinality(InGroup(u, h)) = Cardinality(InGroup(v.inodes_used, h)) + IF InodeGroup(i) = h THEN 1 ELSE 0
        BY <2>3, <2>4, <3>1, InGroupWith
      <4> QED BY <2>4, <4>1
    <3> HIDE DEF u
    <3>3. -1 \in {-1, 1}
      OBVIOUS
    <3> HIDE DEF dirs
    <3> QED BY <2>2, <3>1, <3>2, <3>3, InodeCount
  <2>7. x = w
    <3>1. v.bg_inodes[g] \in Int /\ v.sb_inodes \in Int
      BY <2>2, InodeCountType
    <3>2. v.bg_inodes[g] - 1 = v.bg_inodes[g] + (-1) /\ v.sb_inodes - 1 = n
      BY <3>1
    <3>3. x = [v EXCEPT !.inodes_used = u, !.bg_inodes = f, !.sb_inodes = n, !.bg_dirs = dirs]
      BY <3>2
    <3> HIDE DEF x, u, f, n, dirs
    <3> QED BY <3>3 DEF Books, IsVolume
  <2> HIDE DEF x, w
  <2> QED BY <2>4, <2>5, <2>6, <2>7 DEF Answer, a
<1> QED BY <1>1, <1>2

LEMMA FreeInodeBooks == ASSUME NEW v, Books(v), NEW i PROVE Books(FreeInode(v, i))
<1>1. CASE i \notin Inode \/ i \notin v.inodes_used
  BY <1>1 DEF FreeInode
<1>2. CASE i \in Inode /\ i \in v.inodes_used
  <2> DEFINE g == InodeGroup(i)
             u == v.inodes_used \ {i}
             f == [v.bg_inodes EXCEPT ![g] = v.bg_inodes[g] + 1]
             n == v.sb_inodes + 1
             w == [used |-> v.used, bg_blocks |-> v.bg_blocks, sb_blocks |-> v.sb_blocks,
                   inodes_used |-> u, bg_inodes |-> f, sb_inodes |-> n,
                   bg_dirs |-> v.bg_dirs, inode |-> v.inode, data |-> v.data]
             x == [v EXCEPT !.inodes_used = u, !.bg_inodes = f, !.sb_inodes = n]
  <2>1. FreeInode(v, i) = x
    BY <1>2 DEF FreeInode
  <2>2. g \in Group
    BY <1>2, InodeGroupOf
  <2>3. Books(w)
    <3>1. u \in SUBSET Inode /\ v.inodes_used \in SUBSET Inode
      BY DEF Books, InodesBooked
    <3>2. ASSUME NEW h \in Group
          PROVE  /\ Cardinality(InGroup(u, h)) \in Nat
                 /\ Cardinality(InGroup(v.inodes_used, h)) = Cardinality(InGroup(u, h)) + IF h = g THEN 1 ELSE 0
      <4>1. /\ Cardinality(InGroup(v.inodes_used, h)) \in Nat
            /\ Cardinality(InGroup(u, h)) = Cardinality(InGroup(v.inodes_used, h)) - IF g = h THEN 1 ELSE 0
        BY <1>2, <3>1, InGroupWith
      <4>2. Cardinality(InGroup(u, h)) \in Nat
        BY <1>2, <3>1, InGroupWith
      <4> HIDE DEF g
      <4> QED BY <4>1, <4>2
    <3> HIDE DEF u, g
    <3>3. 1 \in {-1, 1}
      OBVIOUS
    <3> QED BY <2>2, <3>1, <3>2, <3>3, InodeCount
  <2> HIDE DEF u, f, n
  <2>4. x = w
    <3>1. x = [v EXCEPT !.inodes_used = u, !.bg_inodes = f, !.sb_inodes = n]
      OBVIOUS
    <3> HIDE DEF x
    <3> QED BY <3>1 DEF Books, IsVolume
  <2> QED BY <2>1, <2>3, <2>4
<1> QED BY <1>1, <1>2

-----------------------------------------------------------------------------
(* The loops over blocks: free_blocks and the one that takes them *)

\* What every turn keeps, the loop keeps.
Taken(acc) == /\ acc = [vol |-> acc.vol, blocks |-> acc.blocks, full |-> acc.full]
              /\ Books(acc.vol) /\ acc.blocks \in Seq(Nat)
Fine(frees, acc) == IF frees THEN Books(acc) ELSE Taken(acc)

LEMMA TurnFine ==
  ASSUME NEW frees, NEW acc, Fine(frees, acc), NEW b
  PROVE  Fine(frees, Turn(frees, acc, b))
<1>1. CASE frees
  BY <1>1, FreeBlockBooks DEF Fine, Turn
<1>2. CASE ~frees
  <2> DEFINE a == AllocateBlock(acc.vol)
             t == TakeOne(acc)
  <2>1. Taken(acc) /\ Books(acc.vol)
    BY <1>2 DEF Fine, Taken
  <2>2. Books(a.vol) /\ a.num \in Nat
    BY <2>1, AllocateBlockBooks DEF Answer
  <2> HIDE DEF a
  <2>3. \/ t = [acc EXCEPT !.full = TRUE]
        \/ t = [acc EXCEPT !.vol = a.vol, !.blocks = Append(acc.blocks, a.num)]
    BY DEF TakeOne, a
  <2>4. \/ t = [vol |-> acc.vol, blocks |-> acc.blocks, full |-> TRUE]
        \/ t = [vol |-> a.vol, blocks |-> Append(acc.blocks, a.num), full |-> acc.full]
    <3> HIDE DEF t
    <3> QED BY <2>1, <2>3 DEF Taken
  <2>5. Append(acc.blocks, a.num) \in Seq(Nat)
    BY <2>1, <2>2 DEF Taken
  <2> HIDE DEF t
  <2>6. Taken(t)
    BY <2>1, <2>2, <2>4, <2>5 DEF Taken
  <2> QED BY <1>2, <2>6 DEF Fine, Turn, t
<1> QED BY <1>1, <1>2

LEMMA LoopFine ==
  ASSUME NEW frees, NEW base, Fine(frees, base), NEW q, NEW n \in Nat,
         NEW f, Turns(frees, base, q, 1..n, f)
  PROVE  Fine(frees, f[1..n])
<1>1. \A s \in SUBSET (1..n) : f[s] = After(frees, base, q, f, s)
  BY Zenon DEF Turns
<1> DEFINE Good(m) == m <= n => \A s \in SUBSET (1..m) : Fine(frees, f[s])
           Bad == {m \in Nat : ~Good(m)}
<1>2. Good(0)
  <2>1. \A s \in SUBSET (1..0) : s = {} /\ s \in SUBSET (1..n)
    OBVIOUS
  <2> QED BY <1>1, <2>1 DEF After
<1>3. ASSUME NEW m \in Nat, Good(m) PROVE Good(m + 1)
  <2> SUFFICES ASSUME m + 1 <= n, NEW s \in SUBSET (1..(m + 1)) PROVE Fine(frees, f[s])
    OBVIOUS
  <2>1. s \in SUBSET (1..n)
    <3>1. \A x \in 1..(m + 1) : x \in 1..n
      OBVIOUS
    <3> QED BY <3>1
  <2>2. CASE s = {}
    BY <1>1, <2>1, <2>2 DEF After
  <2>3. CASE s # {}
    <3>1. s \ {Max(s)} \in SUBSET (1..m)
      BY <2>3, LastTurn
    <3>2. Fine(frees, f[s \ {Max(s)}])
      BY <1>3, <3>1
    <3>3. f[s] = Turn(frees, f[s \ {Max(s)}], q[Max(s)])
      BY <1>1, <2>1, <2>3 DEF After
    <3> QED BY <3>2, <3>3, TurnFine
  <2> QED BY <2>2, <2>3
<1>4. Bad = {}
  <2> SUFFICES ASSUME Bad # {} PROVE FALSE
    OBVIOUS
  <2> DEFINE k == Min(Bad)
  <2>1. k \in Bad /\ \A x \in Bad : k <= x
    BY MinIs
  <2> HIDE DEF k, Good
  <2>2. k \in Nat /\ ~Good(k) /\ k # 0
    BY <1>2, <2>1
  <2>3. k - 1 \in Nat /\ Good(k - 1)
    BY <2>1, <2>2
  <2> QED BY <1>3, <2>2, <2>3
<1>5. Good(n)
  BY <1>4
<1> QED BY <1>5

LEMMA FreeBlocksBooks ==
  ASSUME NEW v, Books(v), NEW n \in Nat, NEW q, DOMAIN q = 1..n
  PROVE  Books(FreeBlocks(v, q))
<1> DEFINE P(f) == f = [s \in SUBSET (1..n) |-> IF s = {} THEN v ELSE FreeBlock(f[s \ {Max(s)}], q[Max(s)])]
<1>1. \A f : P(f) <=> Turns(TRUE, v, q, 1..n, f)
  BY DEF Turns, After, Turn
<1>2. FreeBlocks(v, q) = (CHOOSE f : P(f))[1..n]
  BY Zenon DEF FreeBlocks, FoldLeft, MapThenFoldSet
<1>3. \E f : P(f)
  BY <1>1, LoopIs
<1> HIDE DEF P
<1>4. P(CHOOSE f : P(f))
  BY <1>3
<1>5. Fine(TRUE, v)
  BY DEF Fine
<1>6. Fine(TRUE, (CHOOSE f : P(f))[1..n])
  BY <1>1, <1>4, <1>5, LoopFine
<1> QED BY <1>2, <1>6 DEF Fine

LEMMA AllocateBlocksTaken ==
  ASSUME NEW v, Books(v), NEW count \in Nat
  PROVE  Taken(AllocateBlocks(v, count))
<1> DEFINE base == [vol |-> v, blocks |-> <<>>, full |-> FALSE]
           q == [i \in 1..count |-> i]
           P(f) == f = [s \in SUBSET (1..count) |-> IF s = {} THEN base ELSE TakeOne(f[s \ {Max(s)}])]
<1>1. \A f : P(f) <=> Turns(FALSE, base, q, 1..count, f)
  <2> HIDE DEF base, q
  <2> QED BY DEF Turns, After, Turn
<1>2. AllocateBlocks(v, count) = (CHOOSE f : P(f))[1..count]
  BY Zenon DEF AllocateBlocks, FoldLeft, MapThenFoldSet, TakeOne
<1>5. Fine(FALSE, base)
  <2>1. Taken(base)
    BY DEF Taken
  <2> QED BY <2>1 DEF Fine
<1>3. \E f : P(f)
  <2> HIDE DEF base, q
  <2> QED BY <1>1, LoopIs
<1> HIDE DEF P, base, q
<1>4. P(CHOOSE f : P(f))
  BY <1>3
<1>6. Fine(FALSE, (CHOOSE f : P(f))[1..count])
  BY <1>1, <1>4, <1>5, LoopFine
<1> QED BY <1>2, <1>6 DEF Fine

-----------------------------------------------------------------------------
(* Pointers read and written *)

\* What a part of read_block_pointers hands to the next.
ReadSoFar(r) == /\ r = [idx |-> r.idx, left |-> r.left, got |-> r.got]
                /\ r.idx \in Nat /\ r.left \in Nat /\ IsSeq(r.got)

LEMMA ReadDirectSoFar ==
  ASSUME NEW inode, NEW r, r.idx \in Nat, r.left \in Nat
  PROVE  ReadSoFar(ReadDirect(inode, r))
<1> DEFINE n == IF r.idx < NDIRECT THEN Least(r.left, NDIRECT - r.idx) ELSE 0
           t == ReadDirect(inode, r)
<1>1. n \in Nat /\ n <= r.left
  <2>1. CASE r.idx < NDIRECT
    <3>1. NDIRECT - r.idx \in Nat
      BY <2>1, Numbers
    <3> QED BY <2>1, <3>1, LeastNat
  <2>2. CASE ~(r.idx < NDIRECT)
    BY <2>2
  <2> QED BY <2>1, <2>2
<1>2. t = [idx |-> r.idx + n, left |-> r.left - n, got |-> Row(inode.block, r.idx, n)]
  BY DEF ReadDirect
<1> HIDE DEF n, t
<1>3. r.idx + n \in Nat /\ r.left - n \in Nat /\ IsSeq(Row(inode.block, r.idx, n))
  BY <1>1, RowSeq
<1> QED BY <1>2, <1>3 DEF ReadSoFar, t

LEMMA ReadSingleSoFar ==
  ASSUME NEW v, NEW index, NEW r, ReadSoFar(r)
  PROVE  ReadSoFar(ReadSingle(v, index, r))
<1> DEFINE n == Least(r.left, NDIRECT + BS - r.idx)
           row == Row(v.data[index], r.idx - NDIRECT, n)
           t == ReadSingle(v, index, r)
<1>0. r.idx \in Nat /\ r.left \in Nat /\ IsSeq(r.got)
  BY DEF ReadSoFar
<1>1. CASE r.left = 0 \/ r.idx >= NDIRECT + BS \/ index = 0
  BY <1>1 DEF ReadSingle
<1>2. CASE ~(r.left = 0 \/ r.idx >= NDIRECT + BS \/ index = 0)
  <2>1. NDIRECT + BS - r.idx \in Nat
    BY <1>0, <1>2, Numbers
  <2>2. n \in Nat /\ n <= r.left
    BY <1>0, <2>1, LeastNat
  <2>3. t = [idx |-> r.idx + n, left |-> r.left - n, got |-> r.got \o row]
    BY <1>2 DEF ReadSingle
  <2> HIDE DEF n, t
  <2>4. IsSeq(row)
    BY <2>2, RowSeq
  <2> HIDE DEF row
  <2>5. r.idx + n \in Nat /\ r.left - n \in Nat /\ IsSeq(r.got \o row)
    BY <1>0, <2>2, <2>4, ConcatSeq
  <2> QED BY <2>3, <2>5 DEF ReadSoFar, t
<1> QED BY <1>1, <1>2

LEMMA ReadDoubleSeq ==
  ASSUME NEW v, NEW index, NEW r, ReadSoFar(r)
  PROVE  IsSeq(ReadDouble(v, index, r).got)
<1> DEFINE at == r.idx - NDIRECT - BS
           second == v.data[index][at \div BS]
           n == Least(r.left, BS - (at % BS))
           row == Row(v.data[second], at % BS, n)
<1>0. r.idx \in Nat /\ r.left \in Nat /\ IsSeq(r.got)
  BY DEF ReadSoFar
<1>1. CASE r.left = 0 \/ index = 0 \/ at \notin 0..(BS * BS - 1)
  BY <1>0, <1>1 DEF ReadDouble
<1>2. CASE ~(r.left = 0 \/ index = 0 \/ at \notin 0..(BS * BS - 1))
  <2>1. at \in Nat
    BY <1>2, Numbers
  <2>2. ReadDouble(v, index, r) = ReadSecond(v, second, at, r)
    BY <1>2 DEF ReadDouble
  <2> HIDE DEF at, second
  <2>3. BS - (at % BS) \in Nat
    BY <2>1, Numbers, DivMod
  <2>4. n \in Nat
    BY <1>0, <2>3, LeastNat
  <2>5. IsSeq(row)
    BY <2>4, RowSeq
  <2>6. CASE second = 0
    BY <1>0, <2>2, <2>6 DEF ReadSecond
  <2>7. CASE second # 0
    <3>1. ReadDouble(v, index, r) = [r EXCEPT !.got = r.got \o row]
      BY <2>2, <2>7 DEF ReadSecond
    <3> HIDE DEF row, n
    <3>2. ReadDouble(v, index, r).got = r.got \o row
      BY <3>1 DEF ReadSoFar
    <3> QED BY <1>0, <2>5, <3>2, ConcatSeq
  <2> QED BY <2>6, <2>7
<1> QED BY <1>1, <1>2

LEMMA ReadBlockPointersSeq ==
  ASSUME NEW v, NEW inode, NEW idx \in Nat, NEW count \in Nat
  PROVE  IsSeq(ReadBlockPointers(v, inode, idx, count))
<1> DEFINE r0 == [idx |-> idx, left |-> count]
           r1 == ReadDirect(inode, r0)
           r2 == ReadSingle(v, inode.block[NDIRECT], r1)
<1>1. ReadSoFar(r1)
  <2>1. r0.idx \in Nat /\ r0.left \in Nat
    OBVIOUS
  <2> HIDE DEF r0
  <2> QED BY <2>1, ReadDirectSoFar
<1> HIDE DEF r1
<1>2. ReadSoFar(r2)
  BY <1>1, ReadSingleSoFar
<1> HIDE DEF r2
<1>3. IsSeq(ReadDouble(v, inode.block[NDIRECT + 1], r2).got)
  BY <1>2, ReadDoubleSeq
<1> QED BY <1>3 DEF ReadBlockPointers, r1, r2

\* What a part of write_block_pointers hands to the next, and an index block.
WriteSoFar(s) ==
  /\ s = [vol |-> s.vol, inode |-> s.inode, idx |-> s.idx, left |-> s.left, from |-> s.from, full |-> s.full]
  /\ Books(s.vol) /\ IsInode(s.inode)
Indexed(a) == a = [vol |-> a.vol, num |-> a.num] /\ Books(a.vol)

LEMMA IndexBlockBooks == ASSUME NEW v, Books(v), NEW p PROVE Indexed(IndexBlock(v, p))
<1> DEFINE a == AllocateBlock(v)
<1>1. a = [vol |-> a.vol, num |-> a.num] /\ Books(a.vol)
  BY AllocateBlockBooks DEF Answer
<1>2. CASE p # 0
  BY <1>2 DEF IndexBlock, Indexed
<1>3. CASE p = 0 /\ a.num = 0
  BY <1>1, <1>3 DEF IndexBlock, Indexed
<1>4. CASE p = 0 /\ a.num # 0
  <2> DEFINE w == [a.vol EXCEPT !.data[a.num] = Zeros]
  <2>1. IndexBlock(v, p) = [a EXCEPT !.vol.data[a.num] = Zeros]
    BY <1>4 DEF IndexBlock
  <2> HIDE DEF a
  <2>2. IndexBlock(v, p) = [a EXCEPT !.vol = w]
    BY <2>1
  <2>3. Books(w)
    BY <1>1, DataAtBooks
  <2> HIDE DEF w
  <2>4. IndexBlock(v, p) = [vol |-> w, num |-> a.num]
    BY <1>1, <2>2
  <2> QED BY <2>3, <2>4 DEF Indexed
<1> QED BY <1>2, <1>3, <1>4

LEMMA WriteDirectBooks ==
  ASSUME NEW s, WriteSoFar(s), NEW ptrs
  PROVE  WriteSoFar(WriteDirect(s, ptrs))
<1> DEFINE n == IF s.idx < NDIRECT THEN Least(s.left, NDIRECT - s.idx) ELSE 0
           x == [s.inode EXCEPT !.block = Patch(s.inode.block, s.idx, ptrs, 1, n)]
           t == WriteDirect(s, ptrs)
<1>1. t = [s EXCEPT !.inode = x, !.idx = s.idx + n, !.left = s.left - n, !.from = s.from + n]
  BY DEF WriteDirect
<1>2. IsInode(x)
  BY InodeWith DEF WriteSoFar
<1> HIDE DEF x, t, n
<1>3. t = [vol |-> s.vol, inode |-> x, idx |-> s.idx + n, left |-> s.left - n, from |-> s.from + n, full |-> s.full]
  BY <1>1 DEF WriteSoFar
<1> QED BY <1>2, <1>3 DEF WriteSoFar, t

LEMMA WriteUnderBooks ==
  ASSUME NEW s, WriteSoFar(s), NEW ptrs, NEW a, Indexed(a), NEW n
  PROVE  WriteSoFar(WriteUnder(s, ptrs, a, n))
<1> DEFINE t == WriteUnder(s, ptrs, a, n)
<1>1. CASE a.num = 0
  <2>1. t = [s EXCEPT !.full = TRUE]
    BY <1>1 DEF WriteUnder
  <2> HIDE DEF t
  <2>2. t = [vol |-> s.vol, inode |-> s.inode, idx |-> s.idx, left |-> s.left, from |-> s.from, full |-> TRUE]
    BY <2>1 DEF WriteSoFar
  <2> QED BY <2>2 DEF WriteSoFar, t
<1>2. CASE a.num # 0
  <2> DEFINE x == [s.inode EXCEPT !.block[NDIRECT] = a.num]
             w == [a.vol EXCEPT !.data[a.num] = Patch(@, s.idx - NDIRECT, ptrs, s.from, n)]
  <2>1. t = [s EXCEPT !.vol = w, !.inode = x, !.idx = s.idx + n, !.left = s.left - n, !.from = s.from + n]
    BY <1>2 DEF WriteUnder
  <2>2. IsInode(x) /\ Books(w)
    <3>1. IsInode(x)
      BY InodeWith DEF WriteSoFar
    <3>2. w = [a.vol EXCEPT !.data[a.num] = Patch(a.vol.data[a.num], s.idx - NDIRECT, ptrs, s.from, n)]
      OBVIOUS
    <3> QED BY <3>1, <3>2, DataAtBooks DEF Indexed
  <2> HIDE DEF x, w, t
  <2>3. t = [vol |-> w, inode |-> x, idx |-> s.idx + n, left |-> s.left - n, from |-> s.from + n, full |-> s.full]
    BY <2>1 DEF WriteSoFar
  <2> QED BY <2>2, <2>3 DEF WriteSoFar, t
<1> QED BY <1>1, <1>2

LEMMA WriteSingleBooks ==
  ASSUME NEW s, WriteSoFar(s), NEW ptrs
  PROVE  WriteSoFar(WriteSingle(s, ptrs))
<1>1. Indexed(IndexBlock(s.vol, s.inode.block[NDIRECT]))
  BY IndexBlockBooks DEF WriteSoFar
<1>2. WriteSoFar(WriteUnder(s, ptrs, IndexBlock(s.vol, s.inode.block[NDIRECT]), Least(s.left, NDIRECT + BS - s.idx)))
  BY <1>1, WriteUnderBooks
<1> QED BY <1>2 DEF WriteSingle

LEMMA WriteSecondBooks ==
  ASSUME NEW s, WriteSoFar(s), NEW ptrs, NEW a, Indexed(a), NEW b, Indexed(b), NEW at
  PROVE  WriteSoFar(WriteSecond(s, ptrs, a, b, at))
<1> DEFINE n == Least(s.left, BS - (at % BS))
           x == [s.inode EXCEPT !.block[NDIRECT + 1] = a.num]
           t == [s EXCEPT !.inode.block[NDIRECT + 1] = a.num]
           r == WriteSecond(s, ptrs, a, b, at)
<1>1. t = [s EXCEPT !.inode = x]
  OBVIOUS
<1>2. IsInode(x)
  BY InodeWith DEF WriteSoFar
<1>3. CASE b.num = 0
  <2>1. r = [t EXCEPT !.vol = a.vol, !.full = TRUE]
    BY <1>3 DEF WriteSecond
  <2> HIDE DEF x, t, r
  <2>2. t = [vol |-> s.vol, inode |-> x, idx |-> s.idx, left |-> s.left, from |-> s.from, full |-> s.full]
    BY <1>1 DEF WriteSoFar
  <2>3. r = [vol |-> a.vol, inode |-> x, idx |-> s.idx, left |-> s.left, from |-> s.from, full |-> TRUE]
    BY <2>1, <2>2
  <2> QED BY <1>2, <2>3 DEF WriteSoFar, Indexed, r
<1>4. CASE b.num # 0
  <2> DEFINE z == PutSecond(b.vol.data, a.num, b.num, at, ptrs, s.from, n)
             w == [b.vol EXCEPT !.data = z]
  <2>1. r = [t EXCEPT !.vol = w, !.left = t.left - n, !.from = t.from + n]
    BY <1>4 DEF WriteSecond
  <2> HIDE DEF z
  <2>3. Books(w)
    BY DataBooks DEF Indexed
  <2> HIDE DEF x, t, r, w, n
  <2>4. t = [vol |-> s.vol, inode |-> x, idx |-> s.idx, left |-> s.left, from |-> s.from, full |-> s.full]
    BY <1>1 DEF WriteSoFar
  <2>5. r = [vol |-> w, inode |-> x, idx |-> s.idx, left |-> s.left - n, from |-> s.from + n, full |-> s.full]
    BY <2>1, <2>4
  <2> QED BY <1>2, <2>3, <2>5 DEF WriteSoFar, r
<1> QED BY <1>3, <1>4

LEMMA WriteDoubleBooks ==
  ASSUME NEW s, WriteSoFar(s), NEW ptrs
  PROVE  WriteSoFar(WriteDouble(s, ptrs))
<1> DEFINE a == IndexBlock(s.vol, s.inode.block[NDIRECT + 1])
           at == s.idx - NDIRECT - BS
           b == IndexBlock(a.vol, a.vol.data[a.num][at \div BS])
           r == WriteFirst(s, ptrs, a, at)
<1>1. Indexed(a)
  BY IndexBlockBooks DEF WriteSoFar
<1> HIDE DEF a, at
<1>2. Indexed(b)
  BY <1>1, IndexBlockBooks DEF Indexed
<1> HIDE DEF b
<1>3. WriteSoFar(r)
  <2>1. CASE a.num = 0
    <3>1. r = [s EXCEPT !.full = TRUE]
      BY <2>1 DEF WriteFirst
    <3> HIDE DEF r
    <3>2. r = [vol |-> s.vol, inode |-> s.inode, idx |-> s.idx, left |-> s.left, from |-> s.from, full |-> TRUE]
      BY <3>1 DEF WriteSoFar
    <3> QED BY <3>2 DEF WriteSoFar
  <2>2. CASE a.num # 0
    <3>1. r = WriteSecond(s, ptrs, a, b, at)
      BY <2>2 DEF WriteFirst, b
    <3> QED BY <1>1, <1>2, <3>1, WriteSecondBooks
  <2> QED BY <2>1, <2>2
<1> QED BY <1>3 DEF WriteDouble, a, at

LEMMA WriteBlockPointersBooks ==
  ASSUME NEW v, Books(v), NEW inode, IsInode(inode), NEW idx, NEW ptrs
  PROVE  WriteSoFar(WriteBlockPointers(v, inode, idx, ptrs))
<1> DEFINE s == [vol |-> v, inode |-> inode, idx |-> idx, left |-> Len(ptrs), from |-> 1, full |-> FALSE]
           s1 == WriteDirect(s, ptrs)
           s2 == WriteSingle(s1, ptrs)
<1>1. WriteSoFar(s)
  BY DEF WriteSoFar
<1>2. WriteBlockPointers(v, inode, idx, ptrs) = WriteDouble(s2, ptrs)
  BY DEF WriteBlockPointers
<1> HIDE DEF s
<1>3. WriteSoFar(s1)
  BY <1>1, WriteDirectBooks
<1> HIDE DEF s1
<1>4. WriteSoFar(s2)
  BY <1>3, WriteSingleBooks
<1> HIDE DEF s2
<1> QED BY <1>2, <1>4, WriteDoubleBooks

-----------------------------------------------------------------------------
(* The calls on files *)

\* What a call leaves of the volume and of the inode, and of an open file.
Stored(r) == /\ r = [vol |-> r.vol, inode |-> r.inode, ok |-> r.ok]
             /\ Books(r.vol) /\ IsInode(r.inode)
Called(r) == Books(r.vol) /\ IsOpenFile(r.file)

LEMMA FreeSeqBooks == ASSUME NEW v, Books(v), NEW q, IsSeq(q) PROVE Books(FreeBlocks(v, q))
BY SeqHas, FreeBlocksBooks

LEMMA EnsureBlocksAllocatedBooks ==
  ASSUME NEW v, Books(v), NEW inode, IsInode(inode), NEW required \in Nat
  PROVE  Stored(EnsureBlocksAllocated(v, inode, required))
<1> DEFINE more == required - CountBlocksNeeded(inode.size)
           a == AllocateBlocks(v, more)
           s == WriteBlockPointers(a.vol, inode, CountBlocksNeeded(inode.size), a.blocks)
<1>1. more \in Int
  BY NeededNat DEF IsInode
<1>2. CASE more <= 0
  BY <1>2 DEF EnsureBlocksAllocated, Stored
<1>3. CASE ~(more <= 0)
  <2>1. more \in Nat
    BY <1>1, <1>3
  <2> HIDE DEF more
  <2>2. Taken(a)
    BY <2>1, AllocateBlocksTaken
  <2> HIDE DEF a
  <2>3. Books(a.vol) /\ IsSeq(a.blocks)
    BY <2>2, SeqIn DEF Taken
  <2>4. WriteSoFar(s)
    BY <2>3, WriteBlockPointersBooks
  <2>5. EnsureBlocksAllocated(v, inode, required) = StoreBlocks(a, inode)
    BY <1>3 DEF EnsureBlocksAllocated, a, more
  <2>6. Stored(StoreBlocks(a, inode))
    <3>1. CASE a.full
      BY <2>3, <3>1, FreeSeqBooks DEF StoreBlocks, Stored
    <3>2. CASE ~a.full
      <4>1. StoreBlocks(a, inode) = StorePointers(s, a.blocks)
        BY <3>2 DEF StoreBlocks
      <4> HIDE DEF s
      <4>2. Books(FreeBlocks(s.vol, a.blocks)) /\ Books(s.vol) /\ IsInode(s.inode)
        BY <2>3, <2>4, FreeSeqBooks DEF WriteSoFar
      <4>3. CASE s.left # 0
        BY <4>1, <4>2, <4>3 DEF StorePointers, Stored
      <4>4. CASE s.left = 0
        BY <4>1, <4>2, <4>4 DEF StorePointers, Stored
      <4> QED BY <4>3, <4>4
    <3> QED BY <3>1, <3>2
  <2> QED BY <2>5, <2>6
<1> QED BY <1>2, <1>3

\* Where a write of pos..last ends.
LEMMA WriteEndNat ==
  ASSUME NEW at, NEW pos \in Nat, NEW last \in Int, last + 1 \in Nat,
         \A t \in at : t[1] \in Nat
  PROVE  WriteEnd(at, pos, last) \in Nat
<1> DEFINE gap == {t[1] * BS : t \in {u \in at : u[2] = 0}}
<1>1. gap \in SUBSET Nat
  <2>1. \A t \in at : t[1] * BS \in Nat
    BY Numbers
  <2> QED BY <2>1
<1>2. gap # {} => Min(gap) \in Nat
  <2> SUFFICES ASSUME gap # {} PROVE Min(gap) \in Nat
    OBVIOUS
  <2>1. Min(gap) \in gap
    BY <1>1, MinIs
  <2> QED BY <1>1, <2>1
<1>3. gap # {} => Larger(Min(gap), pos) \in Nat
  BY <1>2, LargerNat
<1>4. WriteEnd(at, pos, last) = IF gap = {} THEN last + 1 ELSE Larger(Min(gap), pos)
  BY DEF WriteEnd
<1> HIDE DEF gap
<1> QED BY <1>3, <1>4

LEMMA FileWriteBooks ==
  ASSUME NEW v, Books(v), NEW file, IsOpenFile(file), NEW count \in Nat, NEW word
  PROVE  Called(FileWrite(v, file, count, word))
<1> DEFINE e == EnsureBlocksAllocated(v, file.inode, CountBlocksNeeded(file.pos + count))
           last == file.pos + count - 1
           at == {<<k, BlockOf(e.vol, e.inode, k * BS)>> : k \in (file.pos \div BS)..(last \div BS)}
           end == WriteEnd(at, file.pos, last)
           vol == [e.vol EXCEPT !.data = PutBlocks(e.vol.data, at, file.pos, end - 1, word)]
           inode == [e.inode EXCEPT !.size = Larger(e.inode.size, end)]
<1>1. file.pos \in Nat /\ IsInode(file.inode)
  BY DEF IsOpenFile
<1>2. Stored(e)
  <2>1. CountBlocksNeeded(file.pos + count) \in Nat
    BY <1>1, NeededNat
  <2> QED BY <1>1, <2>1, EnsureBlocksAllocatedBooks
<1>3. FileWrite(v, file, count, word) = WriteBlocks(e, file, last, word)
  BY DEF FileWrite
<1> HIDE DEF e
<1>4. Books(e.vol) /\ IsInode(e.inode) /\ e.inode.size \in Nat
  BY <1>2 DEF Stored, IsInode
<1>5. CASE ~e.ok
  <2>1. FileWrite(v, file, count, word) = [vol |-> e.vol, file |-> [file EXCEPT !.inode = e.inode]]
    BY <1>3, <1>5 DEF WriteBlocks
  <2> DEFINE f == [file EXCEPT !.inode = e.inode]
  <2>2. IsOpenFile(f)
    BY <1>4, FileWith, Zenon
  <2> HIDE DEF f
  <2> QED BY <1>4, <2>1, <2>2 DEF Called, f
<1>6. CASE e.ok
  <2>1. last \in Int /\ last + 1 \in Nat
    BY <1>1
  <2>2. \A t \in at : t[1] \in Nat
    <3>1. file.pos \div BS \in Nat
      BY <1>1, Numbers, DivMod
    <3>2. last \div BS \in Int
      BY <2>1, Numbers
    <3> HIDE DEF last
    <3>3. \A k \in (file.pos \div BS)..(last \div BS) : k \in Nat
      BY <3>1, <3>2
    <3> QED BY <3>3
  <2>3. FileWrite(v, file, count, word) =
          [vol |-> IF end > e.inode.size THEN WriteInode(vol, file.num, inode) ELSE vol,
           file |-> [file EXCEPT !.pos = end, !.inode = inode]]
    BY <1>3, <1>6 DEF WriteBlocks, WriteAt, WriteUpTo
  <2> HIDE DEF last, at
  <2>4. end \in Nat
    BY <1>1, <2>1, <2>2, WriteEndNat
  <2> HIDE DEF end
  <2>5. Larger(e.inode.size, end) \in Nat
    BY <1>4, <2>4, LargerNat
  <2>6. IsInode(inode)
    BY <1>4, <2>5, InodeWith
  <2>7. Books(vol)
    BY <1>4, DataBooks
  <2> HIDE DEF vol, inode
  <2>8. Books(WriteInode(vol, file.num, inode)) /\ IsOpenFile([file EXCEPT !.pos = end, !.inode = inode])
    BY <2>4, <2>6, <2>7, WriteInodeBooks, FileWith
  <2> QED BY <2>3, <2>7, <2>8 DEF Called
<1> QED BY <1>5, <1>6

LEMMA FileReadBooks ==
  ASSUME NEW v, Books(v), NEW file, IsOpenFile(file), NEW count \in Nat
  PROVE  Called(FileRead(v, file, count))
<1>1. file.pos \in Nat /\ IsInode(file.inode) /\ file.inode.size \in Nat
  BY DEF IsOpenFile, IsInode
<1>2. Least(file.pos + count, file.inode.size) \in Nat
  BY <1>1 DEF Least
<1>3. IsOpenFile([file EXCEPT !.pos = Least(file.pos + count, file.inode.size)])
  BY <1>2, FileWith
<1>4. Books(WriteInode(v, file.num, file.inode))
  BY <1>1, WriteInodeBooks
<1> QED BY <1>3, <1>4 DEF FileRead, Called

LEMMA FileSeekFile ==
  ASSUME NEW file, IsOpenFile(file), NEW offset \in Int,
         NEW whence \in {"SEEK_SET", "SEEK_CUR", "SEEK_END"}
  PROVE  IsOpenFile(FileSeek(file, offset, whence))
<1>1. file.pos \in Nat /\ file.inode.size \in Nat
  BY DEF IsOpenFile, IsInode
<1> DEFINE to == CASE whence = "SEEK_SET" -> offset
                   [] whence = "SEEK_CUR" -> file.pos + offset
                   [] whence = "SEEK_END" -> file.inode.size + offset
<1>2. to \in Int
  BY <1>1
<1>3. FileSeek(file, offset, whence) =
        IF to < 0 \/ to > file.inode.size THEN file ELSE [file EXCEPT !.pos = to]
  BY DEF FileSeek
<1> HIDE DEF to
<1>4. CASE to < 0
  BY <1>3, <1>4
<1>5. CASE ~(to < 0)
  <2>1. to \in Nat
    BY <1>2, <1>5
  <2>2. IsOpenFile([file EXCEPT !.pos = to])
    BY <2>1, FileWith
  <2> QED BY <1>3, <2>2
<1> QED BY <1>4, <1>5

LEMMA ResizedBooks ==
  ASSUME NEW r, Stored(r), NEW file, IsOpenFile(file), NEW length \in Nat
  PROVE  Called(Resized(r, file, length))
<1> DEFINE inode == [r.inode EXCEPT !.size = length]
<1>1. Books(r.vol) /\ IsInode(r.inode) /\ file.pos \in Nat
  BY DEF Stored, IsOpenFile
<1>2. IsInode(inode)
  BY <1>1, InodeWith
<1>3. Resized(r, file, length) =
        IF ~r.ok THEN [vol |-> r.vol, file |-> [file EXCEPT !.inode = r.inode]]
        ELSE [vol |-> WriteInode(r.vol, file.num, inode),
              file |-> [file EXCEPT !.inode = inode, !.pos = Least(file.pos, length)]]
  BY DEF Resized
<1> HIDE DEF inode
<1>4. Least(file.pos, length) \in Nat
  BY <1>1, LeastNat
<1>5. /\ IsOpenFile([file EXCEPT !.inode = inode, !.pos = Least(file.pos, length)])
      /\ IsOpenFile([file EXCEPT !.inode = r.inode])
  BY <1>1, <1>2, <1>4, FileWith
<1>6. Books(WriteInode(r.vol, file.num, inode))
  BY <1>1, <1>2, WriteInodeBooks
<1> QED BY <1>1, <1>3, <1>5, <1>6 DEF Called

LEMMA DropBooks ==
  ASSUME NEW v, Books(v), NEW inode, IsInode(inode), NEW need, NEW have, NEW gone, IsSeq(gone), NEW stack
  PROVE  Stored(Drop(v, inode, need, have, gone, stack))
<1> DEFINE zeros == [i \in 1..(have - need) |-> IF i = 1 THEN 0 ELSE stack]
           s == WriteBlockPointers(FreeBlocks(v, gone), inode, need, zeros)
<1>1. CASE Len(gone) # have - need
  BY <1>1 DEF Drop, Stored
<1>2. CASE Len(gone) = have - need
  <2>1. Drop(v, inode, need, have, gone, stack) = Outcome(s)
    BY <1>2 DEF Drop
  <2> HIDE DEF zeros
  <2>2. WriteSoFar(s)
    BY FreeSeqBooks, WriteBlockPointersBooks
  <2> HIDE DEF s
  <2> QED BY <2>1, <2>2 DEF Outcome, Stored, WriteSoFar
<1> QED BY <1>1, <1>2

LEMMA FileTruncateBooks ==
  ASSUME NEW v, Books(v), NEW file, IsOpenFile(file), NEW length \in Nat, NEW stack
  PROVE  Called(FileTruncate(v, file, length, stack))
<1> DEFINE have == CountBlocksNeeded(file.inode.size)
           need == CountBlocksNeeded(length)
           gone == ReadBlockPointers(v, file.inode, need, have - need)
           r1 == EnsureBlocksAllocated(v, file.inode, need)
           r2 == [vol |-> v, inode |-> file.inode, ok |-> TRUE]
           r3 == Drop(v, file.inode, need, have, gone, stack)
<1>1. IsInode(file.inode) /\ file.inode.size \in Nat
  BY DEF IsOpenFile, IsInode
<1>2. have \in Nat /\ need \in Nat
  BY <1>1, NeededNat
<1>3. CASE length = file.inode.size
  <2>1. FileTruncate(v, file, length, stack) = [vol |-> v, file |-> file]
    BY <1>3 DEF FileTruncate
  <2> QED BY <2>1 DEF Called
<1>4. CASE length > file.inode.size
  <2>1. FileTruncate(v, file, length, stack) = Resized(r1, file, length)
    BY <1>1, <1>4 DEF FileTruncate
  <2>2. Stored(r1)
    BY <1>1, <1>2, EnsureBlocksAllocatedBooks
  <2> HIDE DEF r1
  <2> QED BY <2>1, <2>2, ResizedBooks
<1>5. CASE length < file.inode.size
  <2>1. FileTruncate(v, file, length, stack) = Resized(IF need = have THEN r2 ELSE r3, file, length)
    BY <1>1, <1>5 DEF FileTruncate
  <2>2. Stored(r2)
    BY <1>1 DEF Stored
  <2>3. need # have => Stored(r3)
    <3> SUFFICES ASSUME need # have PROVE Stored(r3)
      OBVIOUS
    <3>1. need <= have
      <4> DEFINE x == length + BS - 1
                 y == file.inode.size + BS - 1
      <4>1. x \in Nat /\ y \in Nat /\ x <= y
        BY <1>1, <1>5, Numbers
      <4>2. need = x \div BS /\ have = y \div BS
        BY DEF CountBlocksNeeded
      <4> HIDE DEF x, y, need, have
      <4>3. x = BS * need + (x % BS) /\ x % BS \in 0..(BS - 1)
        BY <4>1, <4>2, Numbers, DivMod
      <4>4. y = BS * have + (y % BS) /\ y % BS \in 0..(BS - 1)
        BY <4>1, <4>2, Numbers, DivMod
      <4> SUFFICES ASSUME need > have PROVE FALSE
        BY <1>2
      <4>5. need - have - 1 \in Nat
        BY <1>2
      <4> DEFINE P == BS * need
                 Q == BS * have
                 R == BS * (need - have - 1)
      <4>6. P = Q + BS + R /\ R \in Nat /\ Q \in Nat
        BY <1>2, <4>5, Numbers
      <4> DEFINE m == x % BS
                 k == y % BS
      <4>7. x = P + m /\ y = Q + k /\ m \in 0..(BS - 1) /\ k \in 0..(BS - 1)
        BY <4>3, <4>4
      <4> HIDE DEF P, Q, R, m, k
      <4> QED BY <4>1, <4>6, <4>7, Numbers
    <3>2. have - need \in Nat
      BY <1>2, <3>1
    <3>3. IsSeq(gone)
      BY <1>2, <3>2, ReadBlockPointersSeq
    <3> HIDE DEF gone
    <3> QED BY <1>1, <3>3, DropBooks
  <2> HIDE DEF r2, r3
  <2>4. Stored(IF need = have THEN r2 ELSE r3)
    BY <2>2, <2>3
  <2> QED BY <2>1, <2>4, ResizedBooks
<1> QED BY <1>1, <1>3, <1>4, <1>5

\* What file_delete and dir_delete give back.
LEMMA DiscardBooks == ASSUME NEW v, Books(v), NEW i PROVE Books(Discard(v, i).vol)
<1> DEFINE n == CountBlocksNeeded(ReadInode(v, i).size)
           blocks == ReadBlockPointers(v, ReadInode(v, i), 0, n)
<1>1. CASE i \notin Inode
  BY <1>1 DEF Discard
<1>2. CASE i \in Inode
  <2>1. Discard(v, i) = DiscardBlocks(v, i, blocks, n)
    BY <1>2 DEF Discard
  <2>2. n \in Nat
    BY <1>2, NeededNat DEF Books, InodesKnown, IsInode, ReadInode
  <2> HIDE DEF n
  <2>3. IsSeq(blocks)
    BY <2>2, ReadBlockPointersSeq
  <2> HIDE DEF blocks
  <2>4. Books(FreeInode(FreeBlocks(v, blocks), i))
    BY <2>3, FreeSeqBooks, FreeInodeBooks
  <2> QED BY <2>1, <2>4 DEF DiscardBlocks
<1> QED BY <1>1, <1>2

-----------------------------------------------------------------------------
(* The calls on directories *)

LEMMA AppendBlockBooks ==
  ASSUME NEW v, Books(v), NEW i \in Inode, NEW a, Answer(a), NEW n, NEW entry
  PROVE  Books(AppendBlock(v, i, a, n, entry).vol)
<1> DEFINE w == [a.vol EXCEPT !.data[a.num] = <<entry>>]
           s == WriteBlockPointers(w, ReadInode(v, i), n, <<a.num>>)
<1>1. CASE a.num = 0
  BY <1>1 DEF AppendBlock, Fail
<1>2. CASE a.num # 0
  <2>1. AppendBlock(v, i, a, n, entry) = LinkBlock(s, i, a.num)
    BY <1>2 DEF AppendBlock
  <2>2. Books(w) /\ IsInode(ReadInode(v, i))
    BY DataAtBooks DEF Answer, Books, InodesKnown, ReadInode
  <2> HIDE DEF w
  <2>3. WriteSoFar(s)
    BY <2>2, WriteBlockPointersBooks
  <2> HIDE DEF s
  <2>4. Books(s.vol) /\ IsInode(s.inode) /\ s.inode.size + BS \in Nat
    BY <2>3, Numbers DEF WriteSoFar, IsInode
  <2> DEFINE x == [s.inode EXCEPT !.size = s.inode.size + BS]
  <2>5. IsInode(x)
    BY <2>4, InodeWith
  <2>6. LinkBlock(s, i, a.num) = IF s.left # 0 THEN Fail(FreeBlock(s.vol, a.num))
                                 ELSE [vol |-> WriteInode(s.vol, i, x), ok |-> TRUE]
    BY DEF LinkBlock
  <2> HIDE DEF x
  <2>7. Books(FreeBlock(s.vol, a.num)) /\ Books(WriteInode(s.vol, i, x))
    BY <2>4, <2>5, FreeBlockBooks, WriteInodeBooks
  <2> QED BY <2>1, <2>6, <2>7 DEF Fail
<1> QED BY <1>1, <1>2

LEMMA AddEntryBooks ==
  ASSUME NEW v, Books(v), NEW i \in Inode, NEW name, NEW ino, NEW type
  PROVE  Books(AddEntry(v, i, name, ino, type).vol)
<1> DEFINE dir == Dir(v, i)
           roomy == {k \in DOMAIN dir : Room(dir[k], name) # {}}
           r == AddWhere(v, i, dir, roomy, name, ino, type)
<1>1. AddEntry(v, i, name, ino, type) = IF IsDir(v, i) THEN r ELSE Fail(v)
  BY DEF AddEntry, AddTo
<1> HIDE DEF dir, roomy
<1>2. Books(r.vol)
  <2>1. CASE roomy = {}
    <3>1. r = AppendBlock(v, i, AllocateBlock(v), Len(dir), Entry(ino, UNITS, type, name))
      BY <2>1 DEF AddWhere
    <3> QED BY <3>1, AllocateBlockBooks, AppendBlockBooks
  <2>2. CASE roomy # {}
    <3> DEFINE b == DirBlocks(v, i)[Min(roomy)]
               x == PlaceEntry(dir[Min(roomy)], ino, type, name)
    <3>1. r.vol = [v EXCEPT !.data[b] = x]
      BY <2>2 DEF AddWhere
    <3> HIDE DEF b, x
    <3> QED BY <3>1, DataAtBooks
  <2> QED BY <2>1, <2>2
<1> HIDE DEF r
<1> QED BY <1>1, <1>2 DEF Fail

LEMMA RemoveEntryBooks == ASSUME NEW v, Books(v), NEW i, NEW name PROVE Books(RemoveEntry(v, i, name).vol)
<1> DEFINE dir == Dir(v, i)
           found == Matches(dir, name)
           p == First(found)
           b == DirBlocks(v, i)[p[1]]
           x == Merge(Cleared(dir, p), p[2], PrevEntry(dir, p, {k \in 1..(p[1] - 1) : dir[k] # <<>>}))
<1>1. \/ RemoveEntry(v, i, name) = Fail(v)
      \/ RemoveEntry(v, i, name) = TakeOut(v, i, dir, p)
  <2> HIDE DEF p
  <2> QED BY DEF RemoveEntry, TakeOutFirst, p
<1>2. TakeOut(v, i, dir, p).vol = [v EXCEPT !.data[b] = x]
  <2> HIDE DEF dir, p
  <2> QED BY DEF TakeOut
<1> HIDE DEF b, x, dir, p
<1>3. Books([v EXCEPT !.data[b] = x])
  BY DataAtBooks
<1> QED BY <1>1, <1>2, <1>3 DEF Fail

LEMMA RelinkBooks ==
  ASSUME NEW v, Books(v), NEW dir \in Inode, NEW by
  PROVE  Books(Relink(v, dir, by))
<1> DEFINE x == [v.inode[dir] EXCEPT !.links = v.inode[dir].links + by]
<1>1. IsInode(x)
  BY InodeWith DEF Books, InodesKnown
<1>2. Relink(v, dir, by) = WriteInode(v, dir, x)
  BY DEF Relink, ReadInode
<1> HIDE DEF x
<1> QED BY <1>1, <1>2, WriteInodeBooks

-----------------------------------------------------------------------------
(* The calls of the driver *)

\* The invariant: the books are kept, and descriptors are what open made them.
Descriptors(files) == DOMAIN files = Inode /\ \A i \in Inode : files[i] = Closed \/ IsOpenFile(files[i])
VInv == Books(d) /\ Descriptors(open)

LEMMA DirsAre == ASSUME Books(d), NEW dir \in Dirs PROVE dir \in Inode
BY DEF Dirs, Books, InodesBooked

LEMMA FileCreateKeeps ==
  ASSUME VInv, NEW dir \in Dirs, NEW name, FileCreate(dir, name)
  PROVE  VInv'
<1> DEFINE a == AllocateInode(d, FALSE)
           x == [EmptyInode EXCEPT !.mode = "file", !.links = 1]
           w == WriteInode(a.vol, a.num, x)
           e == AddEntry(w, dir, name, a.num, "file")
<1>1. Books(d) /\ Descriptors(open) /\ dir \in Inode
  BY DirsAre DEF VInv
<1>2. Books(a.vol)
  BY <1>1, AllocateInodeBooks DEF Answer
<1>3. IsInode(x)
  <2> DEFINE none == [s \in Slots |-> 0]
             empty == [mode |-> "none", size |-> 0, links |-> 0, block |-> none]
  <2>1. x = [empty EXCEPT !.mode = "file", !.links = 1]
    BY DEF EmptyInode
  <2> HIDE DEF x, none
  <2>2. x = [mode |-> "file", size |-> 0, links |-> 1, block |-> none]
    BY <2>1
  <2> QED BY <2>2 DEF IsInode
<1>4. d' = UndoInode(e, a.num) /\ open' = open
  BY DEF FileCreate
<1> HIDE DEF a, x
<1>5. Books(w)
  BY <1>2, <1>3, WriteInodeBooks
<1> HIDE DEF w
<1>6. Books(e.vol)
  BY <1>1, <1>5, AddEntryBooks
<1> HIDE DEF e
<1>7. Books(d')
  BY <1>4, <1>6, FreeInodeBooks DEF UndoInode
<1> QED BY <1>1, <1>4, <1>7 DEF VInv

LEMMA DirCreateKeeps ==
  ASSUME VInv, NEW dir \in Dirs, NEW name, DirCreate(dir, name)
  PROVE  VInv'
<1> DEFINE a == AllocateInode(d, TRUE)
           b == AllocateBlock(a.vol)
           w == WriteInode(b.vol, a.num, DirInode(b.num))
           e == AddEntry(w, dir, name, a.num, "dir")
<1>1. Books(d) /\ Descriptors(open) /\ dir \in Inode
  BY DirsAre DEF VInv
<1>2. Books(a.vol)
  BY <1>1, AllocateInodeBooks DEF Answer
<1>4. d' = (IF b.num = 0 THEN FreeInode(b.vol, a.num) ELSE LinkDir(e, dir, a.num, b.num)) /\ open' = open
  BY DEF DirCreate
<1> HIDE DEF a
<1>3. Books(b.vol)
  BY <1>2, AllocateBlockBooks DEF Answer
<1> HIDE DEF b
<1>5. IsInode(DirInode(b.num))
  BY Numbers DEF DirInode, IsInode
<1>6. Books(w)
  BY <1>3, <1>5, WriteInodeBooks
<1> HIDE DEF w
<1>7. Books(e.vol)
  BY <1>1, <1>6, AddEntryBooks
<1> HIDE DEF e
<1>8. /\ Books(Relink(e.vol, dir, 1)) /\ Books(FreeInode(b.vol, a.num))
      /\ Books(FreeInode(FreeBlock(e.vol, b.num), a.num))
  BY <1>1, <1>3, <1>7, RelinkBooks, FreeBlockBooks, FreeInodeBooks
<1>9. Books(d')
  BY <1>4, <1>8 DEF LinkDir
<1> QED BY <1>1, <1>4, <1>9 DEF VInv

LEMMA FileDeleteKeeps ==
  ASSUME VInv, NEW dir \in Dirs, NEW name, FileDelete(dir, name)
  PROVE  VInv'
<1> DEFINE f == FindEntry(d, dir, name)
           r == RemoveEntry(d, dir, name)
<1>1. d' = Discard(r.vol, f.inode).vol /\ open' = open
  BY DEF FileDelete
<1>2. Books(r.vol)
  BY RemoveEntryBooks DEF VInv
<1> HIDE DEF f, r
<1>3. Books(d')
  BY <1>1, <1>2, DiscardBooks
<1> QED BY <1>1, <1>3 DEF VInv

LEMMA DirDeleteKeeps ==
  ASSUME VInv, NEW dir \in Dirs, NEW name, DirDelete(dir, name)
  PROVE  VInv'
<1> DEFINE f == FindEntry(d, dir, name)
           r == RemoveEntry(d, dir, name)
           out == Discard(r.vol, f.inode)
<1>1. d' = (IF out.ok THEN Relink(out.vol, dir, -1) ELSE out.vol) /\ open' = open
  BY DEF DirDelete
<1>2. Books(r.vol) /\ dir \in Inode
  BY RemoveEntryBooks, DirsAre DEF VInv
<1> HIDE DEF f, r
<1>3. Books(out.vol)
  BY <1>2, DiscardBooks
<1> HIDE DEF out
<1>4. Books(Relink(out.vol, dir, -1))
  BY <1>2, <1>3, RelinkBooks
<1>5. Books(d')
  BY <1>1, <1>3, <1>4
<1> QED BY <1>1, <1>5 DEF VInv

LEMMA RenameKeeps ==
  ASSUME VInv, NEW from \in Dirs, NEW old, NEW to \in Dirs, NEW new, Rename(from, old, to, new)
  PROVE  VInv'
<1> DEFINE f == FindEntry(d, from, old)
           r == RemoveEntry(d, from, old)
           e == AddEntry(r.vol, to, new, f.inode, f.type)
           back == AddEntry(e.vol, from, old, f.inode, f.type)
<1>1. d' = (IF e.ok THEN e.vol ELSE back.vol) /\ open' = open
  BY DEF Rename
<1>2. Books(r.vol) /\ from \in Inode /\ to \in Inode
  BY RemoveEntryBooks, DirsAre DEF VInv
<1> HIDE DEF f, r
<1>3. Books(e.vol)
  BY <1>2, AddEntryBooks
<1> HIDE DEF e
<1>4. Books(back.vol)
  BY <1>2, <1>3, AddEntryBooks
<1> HIDE DEF back
<1>5. Books(d')
  BY <1>1, <1>3, <1>4
<1> QED BY <1>1, <1>5 DEF VInv

\* A call on an open file leaves another volume and another descriptor.
LEMMA ApplyKeeps ==
  ASSUME VInv, NEW i \in Inode, NEW v, Books(v), NEW x, x = Closed \/ IsOpenFile(x),
         d' = v, open' = [open EXCEPT ![i] = x]
  PROVE  VInv'
<1>1. Books(d')
  OBVIOUS
<1>2. DOMAIN open = Inode /\ \A j \in Inode : open[j] = Closed \/ IsOpenFile(open[j])
  BY DEF VInv, Descriptors
<1>3. DOMAIN open' = Inode /\ \A j \in Inode : open'[j] = IF j = i THEN x ELSE open[j]
  BY <1>2
<1>4. \A j \in Inode : open'[j] = Closed \/ IsOpenFile(open'[j])
  BY <1>2, <1>3
<1> QED BY <1>1, <1>3, <1>4 DEF VInv, Descriptors

LEMMA OpenIs == ASSUME VInv, NEW i \in Inode, ~Closedown(i) PROVE IsOpenFile(open[i])
BY DEF VInv, Descriptors, Closedown

LEMMA FileOpenKeeps == ASSUME VInv, NEW i \in Inode, FileOpen(i) PROVE VInv'
<1> DEFINE x == [num |-> i, pos |-> 0, inode |-> ReadInode(d, i)]
<1>1. d' = d /\ open' = [open EXCEPT ![i] = x] /\ Books(d)
  BY DEF FileOpen, VInv
<1>2. IsOpenFile(x)
  <2>1. IsInode(ReadInode(d, i))
    BY <1>1 DEF Books, InodesKnown, ReadInode
  <2> QED BY <2>1 DEF IsOpenFile
<1> HIDE DEF x
<1> QED BY <1>1, <1>2, ApplyKeeps

LEMMA FileCloseKeeps == ASSUME VInv, NEW i \in Inode, FileClose(i) PROVE VInv'
<1>1. /\ d' = WriteInode(d, i, open[i].inode) /\ open' = [open EXCEPT ![i] = Closed]
      /\ Books(d) /\ IsOpenFile(open[i])
  BY OpenIs DEF FileClose, VInv
<1>2. Books(WriteInode(d, i, open[i].inode))
  BY <1>1, WriteInodeBooks DEF IsOpenFile
<1> QED BY <1>1, <1>2, ApplyKeeps

LEMMA WriteKeeps == ASSUME VInv, NEW i \in Inode, NEW n \in Nat, Write(i, n) PROVE VInv'
<1> DEFINE r == FileWrite(d, open[i], n, i)
<1>1. d' = r.vol /\ open' = [open EXCEPT ![i] = r.file] /\ Books(d) /\ IsOpenFile(open[i])
  BY OpenIs DEF Write, Apply, VInv
<1>2. Called(r)
  BY <1>1, FileWriteBooks
<1> HIDE DEF r
<1> QED BY <1>1, <1>2, ApplyKeeps DEF Called

LEMMA ReadKeeps == ASSUME VInv, NEW i \in Inode, NEW n \in Nat, Read(i, n) PROVE VInv'
<1> DEFINE r == FileRead(d, open[i], n)
<1>1. d' = r.vol /\ open' = [open EXCEPT ![i] = r.file] /\ Books(d) /\ IsOpenFile(open[i])
  BY OpenIs DEF Read, Apply, VInv
<1>2. Called(r)
  BY <1>1, FileReadBooks
<1> HIDE DEF r
<1> QED BY <1>1, <1>2, ApplyKeeps DEF Called

LEMMA SeekKeeps ==
  ASSUME VInv, NEW i \in Inode, NEW offset \in Int, NEW whence \in {"SEEK_SET", "SEEK_CUR", "SEEK_END"},
         Seek(i, offset, whence)
  PROVE  VInv'
<1> DEFINE x == FileSeek(open[i], offset, whence)
<1>1. d' = d /\ open' = [open EXCEPT ![i] = x] /\ Books(d) /\ IsOpenFile(open[i])
  BY OpenIs DEF Seek, VInv
<1>2. IsOpenFile(x)
  BY <1>1, FileSeekFile
<1> HIDE DEF x
<1> QED BY <1>1, <1>2, ApplyKeeps

LEMMA TruncateKeeps == ASSUME VInv, NEW i \in Inode, NEW n \in Nat, Truncate(i, n) PROVE VInv'
<1>1. PICK g \in Garbage : Apply(i, FileTruncate(d, open[i], n, g))
  BY DEF Truncate
<1> DEFINE r == FileTruncate(d, open[i], n, g)
<1>2. d' = r.vol /\ open' = [open EXCEPT ![i] = r.file] /\ Books(d) /\ IsOpenFile(open[i])
  BY <1>1, OpenIs DEF Truncate, Apply, VInv
<1>3. Called(r)
  BY <1>2, FileTruncateBooks
<1> HIDE DEF r
<1> QED BY <1>2, <1>3, ApplyKeeps DEF Called

-----------------------------------------------------------------------------
(* The volume mkfs leaves, and the theorem *)

\* A finite set of numbers has a largest one.
LEMMA Bounded ==
  ASSUME NEW S \in SUBSET Nat, IsFiniteSet(S)
  PROVE  \E n \in Nat : S \subseteq 0..n
<1> DEFINE Has(T) == \E n \in Nat : T \subseteq 0..n
           Bad == {c \in Nat : \E T \in SUBSET S : Cardinality(T) = c /\ ~Has(T)}
<1>1. Bad = {}
  <2> SUFFICES ASSUME Bad # {} PROVE FALSE
    OBVIOUS
  <2>1. Min(Bad) \in Bad /\ \A c \in Bad : Min(Bad) <= c
    BY MinIs
  <2>2. PICK T \in SUBSET S : Cardinality(T) = Min(Bad) /\ ~Has(T)
    BY <2>1
  <2>3. T # {}
    <3>1. Has({})
      <4>1. {} \subseteq 0..0
        OBVIOUS
      <4> QED BY <4>1
    <3> HIDE DEF Has
    <3> QED BY <2>2, <3>1
  <2> DEFINE x == Pick(T)
             U == T \ {x}
  <2>4. x \in T /\ U \in SUBSET S /\ Cardinality(T) \in Nat \ {0} /\ Cardinality(U) = Cardinality(T) - 1
    BY <2>3, Picked
  <2>5. Has(U)
    <3>1. Cardinality(U) \in Nat /\ Cardinality(U) < Min(Bad) /\ Min(Bad) \in Int
      BY <2>2, <2>4
    <3>2. Cardinality(U) \notin Bad
      <4> HIDE DEF Bad
      <4> QED BY <2>1, <3>1
    <3> HIDE DEF Has, U
    <3> QED BY <2>4, <3>1, <3>2
  <2>6. PICK n \in Nat : U \subseteq 0..n
    BY <2>5
  <2>7. x \in Nat /\ \A y \in T : y \in Nat /\ (y = x \/ y \in U)
    BY <2>4
  <2> HIDE DEF x, U
  <2>8. T \subseteq 0..(n + x) /\ n + x \in Nat
    BY <2>6, <2>7
  <2> QED BY <2>2, <2>8
<1>2. Cardinality(S) \in Nat
  BY FS_CardinalityType
<1> QED BY <1>1, <1>2

LEMMA CountsIn == Min(Counts) \in Nat /\ Max(Counts) \in Nat
<1>1. Counts \in SUBSET Nat /\ Counts # {} /\ IsFiniteSet(Counts)
  BY VolumeAssumption
<1>2. PICK n \in Nat : Counts \subseteq 0..n
  BY <1>1, Bounded
<1> QED BY <1>1, <1>2, MinIs, MaxIs

\* The sum ext2_init finds in the superblock is that over the descriptors.
LEMMA InitialSum ==
  MapThenSumSet(LAMBDA g : CountUsed(g, USED), Group) = Total([g \in Group |-> CountUsed(g, USED)], Group)
<1> DEFINE v == [g \in Group |-> CountUsed(g, USED)]
           P(f) == f = [s \in SUBSET Group |-> IF s = {} THEN 0 ELSE CountUsed(Pick(s), USED) + f[s \ {Pick(s)}]]
<1>1. \A s \in SUBSET Group : s # {} => Pick(s) \in s /\ v[Pick(s)] = CountUsed(Pick(s), USED)
  BY DEF Pick
<1>2. \A f : P(f) <=> Sums(v, Group, f)
  <2> HIDE DEF v
  <2> QED BY <1>1 DEF Sums, Added
<1>3. MapThenSumSet(LAMBDA g : CountUsed(g, USED), Group) = (CHOOSE f : P(f))[Group]
  BY Zenon DEF MapThenSumSet, MapThenFoldSet, Pick
<1>4. Total(v, Group) = (CHOOSE f : Sums(v, Group, f))[Group]
  BY Zenon DEF Total, MapThenSumSet, MapThenFoldSet, Sums, Added, Pick
<1> HIDE DEF P
<1>5. (CHOOSE f : P(f)) = (CHOOSE f : Sums(v, Group, f))
  BY <1>2
<1> QED BY <1>3, <1>4, <1>5

\* mkfs keeps inodes 1 and 2, both of the first group.
LEMMA InitialInodes ==
  LET v == [used |-> USED,
            bg_blocks |-> [g \in Group |-> CountUsed(g, USED)],
            sb_blocks |-> MapThenSumSet(LAMBDA g : CountUsed(g, USED), Group),
            inodes_used |-> {1, ROOT},
            bg_inodes |-> [g \in Group |-> INODES_PER_GROUP - IF g = 0 THEN 2 ELSE 0],
            sb_inodes |-> GROUPS * INODES_PER_GROUP - 2]
  IN  InodesBooked(v)
<1> DEFINE f == [g \in Group |-> INODES_PER_GROUP - IF g = 0 THEN 2 ELSE 0]
           n == GROUPS * INODES_PER_GROUP - 2
           c == [g \in Group |-> INODES_PER_GROUP]
<1>0. INODES_PER_GROUP \in Nat /\ INODES_PER_GROUP >= 2 /\ GROUPS \in Nat \ {0} /\ 0 \in Group
  BY Numbers, InodeNumbers, VolumeAssumption DEF Group
<1>1. {1, 2} \subseteq Inode
  <2>1. GROUPS * INODES_PER_GROUP >= INODES_PER_GROUP /\ GROUPS * INODES_PER_GROUP \in Nat
    <3>1. GROUPS * INODES_PER_GROUP = INODES_PER_GROUP + (GROUPS - 1) * INODES_PER_GROUP
          /\ (GROUPS - 1) * INODES_PER_GROUP \in Nat
      BY <1>0
    <3> QED BY <1>0, <3>1
  <2> QED BY <1>0, <2>1 DEF Inode
<1>2. InodeGroup(1) = 0 /\ InodeGroup(2) = 0
  <2>1. \A p \in Nat : p >= 2 => 0 \div p = 0 /\ 1 \div p = 0
    OBVIOUS
  <2>2. 1 - 1 = 0 /\ 2 - 1 = 1
    OBVIOUS
  <2> QED BY <1>0, <2>1, <2>2 DEF InodeGroup
<1>3. \A g \in Group : Cardinality(InGroup({1, 2}, g)) = IF g = 0 THEN 2 ELSE 0
  <2>1. InGroup({1, 2}, 0) = {1, 2}
    BY <1>2 DEF InGroup
  <2>2. \A g \in Group : g # 0 => InGroup({1, 2}, g) = {}
    BY <1>2 DEF InGroup
  <2>3. Cardinality({1, 2}) = 2
    <3>1. IsFiniteSet({1}) /\ Cardinality({1}) = 1
      BY FS_Singleton
    <3>2. {1, 2} = {1} \cup {2} /\ 2 \notin {1} /\ 1 + 1 = 2
      OBVIOUS
    <3>3. Cardinality({1} \cup {2}) = Cardinality({1}) + 1
      BY <3>1, <3>2, FS_AddElement
    <3> QED BY <3>1, <3>2, <3>3
  <2> QED BY <2>1, <2>2, <2>3, FS_EmptySet
<1>4. f = [g \in Group |-> INODES_PER_GROUP - Cardinality(InGroup({1, 2}, g))]
  BY <1>3
<1>5. n = Total(f, Group)
  <2>1. c \in [Group -> Int] /\ -2 \in Int
    BY <1>0
  <2>2. Total([c EXCEPT ![0] = c[0] + (-2)], Group) = Total(c, Group) + (-2)
    <3> HIDE DEF c
    <3>1. 0 \in Group /\ IsFiniteSet(Group)
      BY <1>0, GroupsFinite
    <3> QED BY <2>1, <3>1, SumChange
  <2>3. f = [c EXCEPT ![0] = c[0] + (-2)]
    BY <1>0
  <2>4. Total(c, Group) = INODES_PER_GROUP * GROUPS
    <3>1. INODES_PER_GROUP \in Int
      BY <1>0
    <3> QED BY <3>1, GroupsFinite, SumEqual
  <2> HIDE DEF f, c
  <2>5. n = INODES_PER_GROUP * GROUPS + (-2)
    BY <1>0
  <2> QED BY <2>2, <2>3, <2>4, <2>5
<1> HIDE DEF f, n
<1> QED BY <1>1, <1>4, <1>5 DEF InodesBooked, ROOT, f, n

LEMMA VInitKeeps == VInit => VInv
<1> SUFFICES ASSUME VInit PROVE VInv
  OBVIOUS
<1> DEFINE bgb == [g \in Group |-> CountUsed(g, USED)]
           sbb == MapThenSumSet(LAMBDA g : CountUsed(g, USED), Group)
           bgi == [g \in Group |-> INODES_PER_GROUP - IF g = 0 THEN 2 ELSE 0]
           sbi == GROUPS * INODES_PER_GROUP - 2
           dirs == [g \in Group |-> IF g = 0 THEN 1 ELSE 0]
           ino == [i \in Inode |-> IF i # ROOT THEN EmptyInode ELSE DirInode(ROOT_BLOCK)]
           dat == [b \in Block |-> IF b = ROOT_BLOCK THEN RootBlock ELSE Zeros]
<1>1. d = [used |-> USED, bg_blocks |-> bgb, sb_blocks |-> sbb, inodes_used |-> {1, ROOT}, bg_inodes |-> bgi,
           sb_inodes |-> sbi, bg_dirs |-> dirs, inode |-> ino, data |-> dat]
  BY DEF VInit
<1>2. sbb = Total(bgb, Group)
  BY InitialSum
<1>3. IsInode(EmptyInode) /\ IsInode(DirInode(ROOT_BLOCK))
  <2>1. IsInode(EmptyInode)
    BY DEF EmptyInode, IsInode
  <2>2. IsInode(DirInode(ROOT_BLOCK))
    BY Numbers DEF DirInode, IsInode
  <2> QED BY <2>1, <2>2
<1>4. DOMAIN ino = Inode /\ \A i \in Inode : IsInode(ino[i])
  BY <1>3
<1>5. InodesBooked([used |-> USED, bg_blocks |-> bgb, sb_blocks |-> sbb, inodes_used |-> {1, ROOT},
                    bg_inodes |-> bgi, sb_inodes |-> sbi])
  BY InitialInodes
<1>6. bgb = [g \in Group |-> CountUsed(g, USED)]
  OBVIOUS
<1> HIDE DEF bgb, sbb, bgi, sbi, dirs, ino, dat
<1>7. IsVolume(d) /\ InodesKnown(d)
  BY <1>1, <1>4 DEF IsVolume, InodesKnown
<1>8. BlocksBooked(d)
  BY <1>1, <1>2, <1>6 DEF BlocksBooked
<1>9. InodesBooked(d)
  BY <1>1, <1>5 DEF InodesBooked
<1>10. Descriptors(open)
  BY DEF VInit, Descriptors
<1> QED BY <1>7, <1>8, <1>9, <1>10 DEF VInv, Books

LEMMA VNextKeeps == VInv /\ [VNext]_vvars => VInv'
<1> SUFFICES ASSUME VInv, [VNext]_vvars PROVE VInv'
  OBVIOUS
<1>1. CASE Counted
  <2>1. ASSUME NEW dir \in Dirs, NEW name \in UserNames, FileCreate(dir, name) \/ DirCreate(dir, name) PROVE VInv'
    BY <2>1, FileCreateKeeps, DirCreateKeeps
  <2>2. ASSUME NEW from \in Dirs, NEW to \in Dirs, NEW old \in UserNames, NEW new \in UserNames,
               Rename(from, old, to, new)
        PROVE  VInv'
    BY <2>2, RenameKeeps
  <2>3. ASSUME NEW i \in Inode, NEW n \in Counts, Write(i, n) PROVE VInv'
    BY <2>3, VolumeAssumption, WriteKeeps
  <2>4. ASSUME NEW i \in Inode, NEW n \in Counts \cup {0}, Truncate(i, n) PROVE VInv'
    BY <2>4, VolumeAssumption, TruncateKeeps
  <2> QED BY <1>1, <2>1, <2>2, <2>3, <2>4 DEF Counted
<1>2. CASE Uncounted
  <2>1. ASSUME NEW dir \in Dirs, NEW name \in UserNames, FileDelete(dir, name) \/ DirDelete(dir, name) PROVE VInv'
    BY <2>1, FileDeleteKeeps, DirDeleteKeeps
  <2>2. ASSUME NEW i \in Inode, FileOpen(i) \/ FileClose(i) \/ Read(i, Min(Counts)) PROVE VInv'
    BY <2>2, CountsIn, FileOpenKeeps, FileCloseKeeps, ReadKeeps
  <2>3. ASSUME NEW i \in Inode,
               Seek(i, 0, "SEEK_SET") \/ Seek(i, 0, "SEEK_END") \/ Seek(i, -Max(Counts), "SEEK_CUR")
        PROVE  VInv'
    <3>1. -Max(Counts) \in Int /\ 0 \in Int
      BY CountsIn
    <3> QED BY <2>3, <3>1, SeekKeeps
  <2> QED BY <1>2, <2>1, <2>2, <2>3 DEF Uncounted
<1>3. CASE UNCHANGED vvars
  BY <1>3 DEF vvars, VInv
<1> QED BY <1>1, <1>2, <1>3 DEF VNext

\* After every call, failed ones included, the free counts of each group and of
\* the superblock are those of the bitmaps: no allocation, error path or deletion
\* loses or counts a block or an inode twice.
THEOREM VolumeCounts == VSpec => []CountsAgree
<1>1. VInv => CountsAgree
  <2> SUFFICES ASSUME VInv PROVE CountsAgree
    OBVIOUS
  <2>1. \A g \in Group : /\ d.bg_blocks[g] = CountUsed(g, d.used)
                         /\ d.bg_inodes[g] = INODES_PER_GROUP - Cardinality({i \in d.inodes_used : InodeGroup(i) = g})
    BY DEF VInv, Books, BlocksBooked, InodesBooked, InGroup
  <2>2. d.sb_blocks = Total(d.bg_blocks, Group) /\ d.sb_inodes = Total(d.bg_inodes, Group)
    BY DEF VInv, Books, BlocksBooked, InodesBooked
  <2> QED BY <2>1, <2>2 DEF CountsAgree, Total
<1> QED BY <1>1, VInitKeeps, VNextKeeps, PTL DEF VSpec

-----------------------------------------------------------------------------
(* Inodes taken and given back, with their blocks *)

LEMMA TookInode ==
  ASSUME NEW v, IsVolume(v), NEW is_directory
  PROVE  LET a == AllocateInode(v, is_directory)
         IN  a.num # 0 => /\ a.num \in Inode /\ a.num \notin v.inodes_used
                          /\ IsVolume(a.vol) /\ a.vol.used = v.used /\ a.vol.data = v.data
                          /\ a.vol.inode = v.inode /\ a.vol.inodes_used = v.inodes_used \cup {a.num}
<1> DEFINE a == AllocateInode(v, is_directory)
           G == InodeGroupsLeft(v)
           g == Min(G)
           i == Min(InodeBits(g) \ v.inodes_used)
<1>1. CASE G = {}
  BY <1>1 DEF AllocateInode
<1>2. CASE G # {}
  <2>1. G \in SUBSET Nat /\ \A h \in G : h \in Group /\ InodeBits(h) \ v.inodes_used # {}
    BY GroupsFinite DEF InodeGroupsLeft
  <2>2. g \in Group /\ InodeBits(g) \ v.inodes_used # {}
    BY <1>2, <2>1, MinIs
  <2>3. i \in Inode /\ i \notin v.inodes_used
    <3>1. InodeBits(g) \subseteq Inode
      BY <2>2, InodeBit
    <3>2. InodeBits(g) \subseteq Nat
      BY <3>1 DEF Inode
    <3>3. i \in InodeBits(g) \ v.inodes_used
      BY <2>2, <3>2, MinIs
    <3> QED BY <3>1, <3>3
  <2> DEFINE u == v.inodes_used \cup {i}
             f == [v.bg_inodes EXCEPT ![g] = @ - 1]
             n == v.sb_inodes - 1
             dirs == [v.bg_dirs EXCEPT ![g] = @ + IF is_directory THEN 1 ELSE 0]
             x == [v EXCEPT !.inodes_used = u, !.bg_inodes = f, !.sb_inodes = n, !.bg_dirs = dirs]
  <2>4. a = [vol |-> x, num |-> i]
    BY <1>2 DEF AllocateInode
  <2>5. u = v.inodes_used \cup {i}
    OBVIOUS
  <2> HIDE DEF a, g, i, G, u, f, n, dirs
  <2>0. x = [v EXCEPT !.inodes_used = u, !.bg_inodes = f, !.sb_inodes = n, !.bg_dirs = dirs]
    OBVIOUS
  <2> HIDE DEF x
  <2>6. x = [used |-> v.used, bg_blocks |-> v.bg_blocks, sb_blocks |-> v.sb_blocks,
             inodes_used |-> u, bg_inodes |-> f, sb_inodes |-> n,
             bg_dirs |-> dirs, inode |-> v.inode, data |-> v.data]
    BY <2>0 DEF IsVolume
  <2>7. IsVolume(x) /\ x.used = v.used /\ x.data = v.data /\ x.inode = v.inode /\ x.inodes_used = u
    BY <2>6 DEF IsVolume
  <2> QED BY <2>3, <2>4, <2>5, <2>7 DEF a
<1> QED BY <1>1, <1>2

LEMMA GaveInode ==
  ASSUME NEW v, IsVolume(v), NEW i \in Inode, i \in v.inodes_used
  PROVE  LET w == FreeInode(v, i)
         IN  /\ IsVolume(w) /\ w.used = v.used /\ w.data = v.data /\ w.inode = v.inode
             /\ w.inodes_used = v.inodes_used \ {i}
<1> DEFINE u == v.inodes_used \ {i}
           f == [v.bg_inodes EXCEPT ![InodeGroup(i)] = @ + 1]
           n == v.sb_inodes + 1
           x == [v EXCEPT !.inodes_used = u, !.bg_inodes = f, !.sb_inodes = n]
<1>1. FreeInode(v, i) = x
  BY DEF FreeInode
<1>2. u = v.inodes_used \ {i}
  OBVIOUS
<1> HIDE DEF u, f, n
<1>0. x = [v EXCEPT !.inodes_used = u, !.bg_inodes = f, !.sb_inodes = n]
  OBVIOUS
<1> HIDE DEF x
<1>3. x = [used |-> v.used, bg_blocks |-> v.bg_blocks, sb_blocks |-> v.sb_blocks,
           inodes_used |-> u, bg_inodes |-> f, sb_inodes |-> n,
           bg_dirs |-> v.bg_dirs, inode |-> v.inode, data |-> v.data]
  BY <1>0 DEF IsVolume
<1> QED BY <1>1, <1>2, <1>3 DEF IsVolume

\* A file without blocks, and a directory with one.
LEMMA EmptyFit ==
  ASSUME NEW u, NEW m, DOMAIN m = Block, NEW x, IsInode(x), x.size = 0, x.block = [s \in Slots |-> 0]
  PROVE  Fit(u, m, x) /\ Holds(m, x) = {}
<1> DEFINE p == x.block
<1>1. CountBlocksNeeded(0) = 0
  <2>1. CountBlocksNeeded(0) \in Nat /\ BS * CountBlocksNeeded(0) < 0 + BS /\ BS \in Nat \ {0}
    BY NeededIs, Numbers
  <2>2. CountBlocksNeeded(0) > 0 => BS * 0 + BS <= BS * CountBlocksNeeded(0)
    BY <2>1, Multiples
  <2>3. BS * 0 = 0
    BY Numbers
  <2> HIDE DEF CountBlocksNeeded
  <2> DEFINE c == CountBlocksNeeded(0)
             q == BS * c
  <2>4. c \in Nat /\ q < BS /\ (c > 0 => BS <= q) /\ q \in Int /\ BS \in Nat
    BY <2>1, <2>2, <2>3, NeededIs
  <2> HIDE DEF c, q
  <2>5. c = 0
    BY <2>4
  <2> QED BY <2>5 DEF c
<1>2. DOMAIN p = Slots /\ p[NDIRECT] = 0 /\ p[NDIRECT + 1] = 0
  BY LimitNat
<1> HIDE DEF p
<1>3. \A w \in Word : Look(m, p[NDIRECT + 1], w) = 0
  BY <1>2 DEF Look
<1>4. Tree(m, p) = {}
  BY <1>2, <1>3 DEF Tree
<1>5. Shape(u, m, p)
  BY <1>2, <1>3, <1>4 DEF Shape, Apart
<1>6. 0..(0 - 1) = {} /\ 0 \in 0..Limit
  BY LimitNat
<1>7. Mapped(u, m, p, 0) /\ Hold(m, p, 0) = {}
  BY <1>4, <1>5, <1>6 DEF Mapped, Hold
<1> QED BY <1>1, <1>7 DEF Fit, Holds, p

LEMMA DirFit ==
  ASSUME NEW u, NEW m, DOMAIN m = Block, NEW b \in Block \ {0}, b \in u
  PROVE  Fit(u, m, DirInode(b)) /\ Holds(m, DirInode(b)) = {b} /\ IsInode(DirInode(b))
<1> DEFINE x == DirInode(b)
           p == x.block
<1>1. IsInode(x) /\ x.size = BS /\ p = [s \in Slots |-> IF s = 0 THEN b ELSE 0]
  BY Numbers DEF DirInode, IsInode
<1>2. CountBlocksNeeded(BS) = 1
  <2>1. CountBlocksNeeded(BS) \in Nat /\ BS <= BS * CountBlocksNeeded(BS)
        /\ BS * CountBlocksNeeded(BS) < BS + BS /\ BS \in Nat \ {0}
    BY NeededIs, Numbers
  <2>2. CountBlocksNeeded(BS) > 1 => BS * 1 + BS <= BS * CountBlocksNeeded(BS)
    BY <2>1, Multiples
  <2>3. BS * 1 = BS /\ BS * 0 = 0
    BY Numbers
  <2> DEFINE c == CountBlocksNeeded(BS)
             q == BS * c
  <2>4. c \in Nat /\ q < BS + BS /\ BS <= q /\ (c > 1 => BS + BS <= q) /\ q \in Int /\ BS \in Nat \ {0} /\ (c = 0 => q = 0)
    BY <2>1, <2>2, <2>3, NeededIs
  <2> HIDE DEF c, q
  <2>5. c = 1
    BY <2>4
  <2> QED BY <2>5 DEF c
<1>3. DOMAIN p = Slots /\ p[NDIRECT] = 0 /\ p[NDIRECT + 1] = 0 /\ p[0] = b /\ 0 < NDIRECT
  <2>1. NDIRECT \in Slots /\ NDIRECT + 1 \in Slots /\ 0 \in Slots /\ NDIRECT # 0 /\ NDIRECT + 1 # 0 /\ 0 < NDIRECT
    BY LimitNat, Numbers DEF Slots
  <2> HIDE DEF p
  <2> QED BY <1>1, <2>1
<1> HIDE DEF p, x
<1>4. \A w \in Word : Look(m, p[NDIRECT + 1], w) = 0
  BY <1>3 DEF Look
<1>5. Tree(m, p) = {}
  BY <1>3, <1>4 DEF Tree
<1>6. Shape(u, m, p)
  BY <1>3, <1>4, <1>5 DEF Shape, Apart
<1>7. 0..(1 - 1) = {0} /\ 1 \in 0..Limit /\ At(m, p, 0) = b
  <2>1. 1 <= Limit /\ Limit \in Nat
    BY LimitNat, Numbers
  <2>2. At(m, p, 0) = b
    BY <1>3 DEF At
  <2> QED BY <2>1, <2>2
<1>8. Mapped(u, m, p, 1) /\ Hold(m, p, 1) = {b}
  BY <1>5, <1>6, <1>7 DEF Mapped, Hold
<1> QED BY <1>1, <1>2, <1>8 DEF Fit, Holds, p, x

\* free_blocks of what a file's size accounts for, and its inode.
LEMMA DiscardIs ==
  ASSUME NEW v, NEW i \in Inode, i \in v.inodes_used, Ready(v, v.inode[i])
  PROVE  LET out == Discard(v, i)
         IN  \/ out.vol = v
             \/ /\ IsVolume(out.vol) /\ out.vol.inode = v.inode /\ out.vol.data = v.data
                /\ out.vol.inodes_used = v.inodes_used \ {i} /\ Reserved(out.vol.used)
                /\ \A b \in v.used : b \in out.vol.used \/ b \in Holds(v.data, v.inode[i])
<1> DEFINE x == v.inode[i]
           n == CountBlocksNeeded(x.size)
           q == ReadBlockPointers(v, x, 0, n)
           w == FreeBlocks(v, q)
<1>1. /\ IsVolume(v) /\ Reserved(v.used) /\ Fit(v.used, v.data, x) /\ IsInode(x) /\ n \in Nat
  <2>1. IsVolume(v) /\ Reserved(v.used) /\ Fit(v.used, v.data, x) /\ IsInode(x)
    BY DEF Ready, Fit
  <2> QED BY <2>1, NeededNat DEF IsInode
<1>2. Discard(v, i) = DiscardBlocks(v, i, q, n)
  BY DEF Discard, ReadInode
<1>3. Got(v, x, 0, n, q)
  BY <1>1, ReadGets
<1> HIDE DEF x, n, q
<1>4. CASE Len(q) # n
  BY <1>2, <1>4 DEF DiscardBlocks
<1>5. CASE Len(q) = n
  <2>1. DiscardBlocks(v, i, q, n).vol = FreeInode(w, i)
    BY <1>5 DEF DiscardBlocks
  <2>2. DOMAIN q = 1..n /\ \A j \in 1..n : q[j] = At(v.data, x.block, 0 + j - 1)
    BY <1>3, <1>5, SeqHas DEF Got
  <2>3. SameInodes(v, w) /\ w.data = v.data /\ w.used = v.used \ ({q[j] : j \in 1..n} \cap Block)
    BY <1>1, <2>2, FreeAll
  <2>4. \A j \in 1..n : j - 1 \in 0..(n - 1) /\ 0 + j - 1 = j - 1
    BY <1>1
  <2>5. \A j \in 1..n : q[j] \in Holds(v.data, x)
    BY <2>2, <2>4 DEF Holds, Hold, n
  <2>6. Holds(v.data, x) \subseteq (v.used \cap Block) \ {0}
    BY <1>1, HoldsIn
  <2>7. Reserved(w.used)
    <3>1. \A b \in v.used : b = 0 \/ b \notin Block => b \in w.used
      BY <2>3, <2>5, <2>6
    <3> QED BY <1>1, <3>1 DEF Reserved
  <2>8. \A b \in v.used : b \in w.used \/ b \in Holds(v.data, x)
    BY <2>3, <2>5
  <2> HIDE DEF w
  <2>9. LET z == FreeInode(w, i)
        IN  /\ IsVolume(z) /\ z.used = w.used /\ z.data = w.data /\ z.inode = w.inode
            /\ z.inodes_used = w.inodes_used \ {i}
    BY <2>3, GaveInode DEF SameInodes
  <2> QED BY <1>2, <2>1, <2>3, <2>7, <2>8, <2>9 DEF SameInodes, x
<1> QED BY <1>4, <1>5

-----------------------------------------------------------------------------
(* A volume whose blocks have one purpose each *)

\* The inodes the kernel works with: of an open file, that of its descriptor.
Now(v, files) == [i \in Inode |-> IF files[i] = Closed THEN v.inode[i] ELSE files[i].inode]

\* Only regular files whose inode is in use are open.
Opened(v, files) ==
  \A i \in Inode : files[i] # Closed =>
    i \in v.inodes_used /\ files[i].num = i /\ v.inode[i].mode = "file" /\ files[i].inode.mode = "file"

Owning(v, files) ==
  /\ IsVolume(v) /\ DOMAIN v.inode = Inode /\ v.inodes_used \subseteq Inode
  /\ WellKept(v.used, v.data, v.inodes_used, Now(v, files)) /\ Opened(v, files)

LEMMA OwningReady ==
  ASSUME NEW v, NEW files, Owning(v, files), NEW i \in v.inodes_used
  PROVE  /\ i \in Inode /\ i \in DOMAIN v.inode
         /\ files[i] = Closed => Ready(v, v.inode[i])
         /\ files[i] # Closed => Ready(v, files[i].inode)
<1>1. i \in Inode /\ i \in DOMAIN v.inode /\ IsVolume(v)
  BY DEF Owning
<1>2. Ready(v, Now(v, files)[i])
  BY DEF Owning, WellKept, Ready
<1> QED BY <1>1, <1>2 DEF Now

LEMMA DirCallOwning ==
  ASSUME NEW v, NEW files, Owning(v, files), NEW dir \in v.inodes_used, files[dir] = Closed, NEW w, DirCall(v, dir, w)
  PROVE  Owning(w, files)
<1> DEFINE X == Now(v, files)
           Y == Now(w, files)
<1>1. dir \in Inode /\ X[dir] = v.inode[dir] /\ Y[dir] = w.inode[dir]
  BY DEF Owning, Now
<1>2. \A j \in v.inodes_used : j # dir => Y[j] = X[j]
  BY DEF Owning, DirCall, Now
<1>3. WellKept(v.used, v.data, v.inodes_used, X) /\ Altered(v.used, v.data, X[dir], w.used, w.data, w.inode[dir])
  BY <1>1 DEF Owning, DirCall
<1> HIDE DEF X, Y
<1>4. WellKept(w.used, w.data, v.inodes_used, Y)
  <2> DEFINE u == v.used
             m == v.data
             S == v.inodes_used
             u2 == w.used
             m2 == w.data
             x2 == w.inode[dir]
  <2>1. /\ WellKept(u, m, S, X) /\ Altered(u, m, X[dir], u2, m2, x2) /\ dir \in S /\ Y[dir] = x2
        /\ \A j \in S : j # dir => Y[j] = X[j]
    BY <1>1, <1>2, <1>3
  <2> HIDE DEF u, m, S, u2, m2, x2
  <2>2. WellKept(u2, m2, S, Y)
    BY <2>1, OneAltered
  <2> QED BY <2>2 DEF u2, m2, S
<1>5. Opened(w, files)
  BY DEF Opened, Owning, DirCall
<1> QED BY <1>4, <1>5 DEF Owning, DirCall, Y

LEMMA MoreOwning ==
  ASSUME NEW v, NEW files, Owning(v, files), NEW i \in Inode, i \notin v.inodes_used, NEW y, NEW w, IsVolume(w),
         w.data = v.data, w.inodes_used = v.inodes_used \cup {i}, w.inode = [v.inode EXCEPT ![i] = y],
         Reserved(w.used), v.used \subseteq w.used, Fit(w.used, v.data, y), Holds(v.data, y) \cap v.used = {}
  PROVE  Owning(w, files)
<1> DEFINE X == Now(v, files)
           Y == Now(w, files)
<1>0. DOMAIN v.inode = Inode /\ v.inodes_used \subseteq Inode /\ files[i] = Closed
  BY DEF Owning, Opened
<1>1. DOMAIN w.inode = Inode /\ w.inode[i] = y /\ \A j \in v.inodes_used : w.inode[j] = v.inode[j]
  BY <1>0
<1>2. Y[i] = y /\ \A j \in v.inodes_used : Y[j] = X[j]
  BY <1>0, <1>1 DEF Now
<1>3. WellKept(v.used, v.data, v.inodes_used, X)
  BY DEF Owning
<1> HIDE DEF X, Y
<1>4. WellKept(w.used, v.data, v.inodes_used \cup {i}, Y)
  <2> DEFINE u == v.used
             m == v.data
             S == v.inodes_used
             u2 == w.used
  <2>1. WellKept(u, m, S, X) /\ Joined(u, m, S, X, i, u2, Y)
    BY <1>2, <1>3 DEF Joined
  <2> HIDE DEF u, m, S, u2
  <2>2. WellKept(u2, m, S \cup {i}, Y)
    BY <2>1, OneMore
  <2> QED BY <2>2 DEF u2, m, S
<1>5. Opened(w, files)
  BY <1>0, <1>1 DEF Opened, Owning
<1> QED BY <1>0, <1>1, <1>4, <1>5 DEF Owning, Y

LEMMA LessOwning ==
  ASSUME NEW v, NEW files, Owning(v, files), NEW i \in v.inodes_used, files[i] = Closed, NEW w, IsVolume(w),
         w.data = v.data, w.inode = v.inode, w.inodes_used = v.inodes_used \ {i}, Reserved(w.used),
         \A b \in v.used : b \in w.used \/ b \in Holds(v.data, v.inode[i])
  PROVE  Owning(w, files)
<1> DEFINE X == Now(v, files)
           Y == Now(w, files)
<1>1. X = Y /\ i \in Inode
  BY DEF Now, Owning
<1>2. X[i] = v.inode[i] /\ WellKept(v.used, v.data, v.inodes_used, X)
  BY <1>1 DEF Now, Owning
<1> HIDE DEF X, Y
<1>3. WellKept(w.used, v.data, v.inodes_used \ {i}, X)
  BY <1>2, OneLess
<1>4. Opened(w, files)
  BY DEF Opened, Owning
<1> QED BY <1>1, <1>3, <1>4 DEF Owning, Y

\* Only the count of links changes.
LEMMA RelinkOwning ==
  ASSUME NEW v, NEW files, Owning(v, files), NEW dir \in v.inodes_used, files[dir] = Closed, NEW by
  PROVE  Owning(Relink(v, dir, by), files)
<1> DEFINE x == v.inode[dir]
           y == [x EXCEPT !.links = x.links + by]
           w == WriteInode(v, dir, y)
<1>1. Relink(v, dir, by) = w
  BY DEF Relink, ReadInode
<1>2. Ready(v, x) /\ dir \in DOMAIN v.inode /\ IsVolume(v)
  BY OwningReady DEF Owning
<1>3. IsInode(x) /\ Fit(v.used, v.data, x)
  BY <1>2 DEF Ready, Fit
<1>4. IsInode(y) /\ y.size = x.size /\ y.block = x.block /\ y.mode = x.mode
  <2> HIDE DEF x
  <2> DEFINE l == x.links + by
  <2>1. y = [x EXCEPT !.links = l]
    OBVIOUS
  <2> HIDE DEF y, l
  <2>2. y = [mode |-> x.mode, size |-> x.size, links |-> l, block |-> x.block]
    BY <1>3, <2>1 DEF IsInode
  <2> QED BY <1>3, <2>2 DEF IsInode
<1> HIDE DEF x, y
<1>5. Fit(v.used, v.data, y) /\ Holds(v.data, y) = Holds(v.data, x)
  BY <1>3, <1>4 DEF Fit, Holds
<1>6. Altered(v.used, v.data, x, v.used, v.data, y)
  BY <1>2, <1>5 DEF Altered, Ready
<1>7. /\ IsVolume(w) /\ w.used = v.used /\ w.data = v.data /\ w.inodes_used = v.inodes_used
      /\ w.inode = [v.inode EXCEPT ![dir] = y]
  BY <1>2, InodeIs
<1> HIDE DEF w
<1>8. DOMAIN w.inode = DOMAIN v.inode /\ w.inode[dir] = y /\ \A j \in DOMAIN v.inode : j # dir => w.inode[j] = v.inode[j]
  BY <1>2, <1>7
<1>9. DirCall(v, dir, w)
  BY <1>4, <1>6, <1>7, <1>8 DEF DirCall, x
<1> QED BY <1>1, <1>9, DirCallOwning

LEMMA FileCallOwning ==
  ASSUME NEW v, NEW files, Owning(v, files), DOMAIN files = Inode, NEW i \in Inode, files[i] # Closed,
         NEW r, OnFile(v, files[i], r)
  PROVE  Owning(r.vol, [files EXCEPT ![i] = r.file])
<1> DEFINE g == [files EXCEPT ![i] = r.file]
           w == r.vol
           X == Now(v, files)
           Y == Now(w, g)
<1>1. /\ i \in v.inodes_used /\ files[i].num = i /\ v.inode[i].mode = "file" /\ files[i].inode.mode = "file"
      /\ X[i] = files[i].inode /\ DOMAIN v.inode = Inode /\ v.inodes_used \subseteq Inode
  BY DEF Owning, Opened, Now
<1>2. r.file # Closed
  <2>1. r.file.num = i /\ i # 0
    BY <1>1 DEF OnFile, Inode
  <2> QED BY <2>1 DEF Closed
<1>3. \A j \in Inode : g[j] = IF j = i THEN r.file ELSE files[j]
  OBVIOUS
<1> HIDE DEF g
<1>4. \A j \in Inode : j # i => w.inode[j] = v.inode[j]
  BY <1>1 DEF OnFile
<1>5. Y[i] = r.file.inode /\ \A j \in Inode : j # i => Y[j] = X[j]
  BY <1>2, <1>3, <1>4 DEF Now
<1>6. WellKept(v.used, v.data, v.inodes_used, X) /\ Altered(v.used, v.data, X[i], w.used, w.data, r.file.inode)
  BY <1>1 DEF Owning, OnFile
<1> HIDE DEF X, Y
<1>7. WellKept(w.used, w.data, v.inodes_used, Y)
  <2> DEFINE u == v.used
             m == v.data
             S == v.inodes_used
             u2 == w.used
             m2 == w.data
             x2 == r.file.inode
  <2>1. /\ WellKept(u, m, S, X) /\ Altered(u, m, X[i], u2, m2, x2) /\ i \in S /\ Y[i] = x2
        /\ \A j \in S : j # i => Y[j] = X[j]
    BY <1>1, <1>5, <1>6
  <2> HIDE DEF u, m, S, u2, m2, x2
  <2>2. WellKept(u2, m2, S, Y)
    BY <2>1, OneAltered
  <2> QED BY <2>2 DEF u2, m2, S
<1>8. w.inode[i].mode = "file" /\ r.file.inode.mode = "file" /\ r.file.num = i
  BY <1>1 DEF OnFile
<1>9. ASSUME NEW j \in Inode, g[j] # Closed
      PROVE  j \in v.inodes_used /\ g[j].num = j /\ w.inode[j].mode = "file" /\ g[j].inode.mode = "file"
  <2>1. CASE j = i
    BY <1>1, <1>3, <1>8, <2>1
  <2>2. CASE j # i
    BY <1>3, <1>4, <1>9, <2>2 DEF Owning, Opened
  <2> QED BY <2>1, <2>2
<1>10. w.inodes_used = v.inodes_used /\ DOMAIN w.inode = Inode /\ IsVolume(w)
  BY <1>1 DEF OnFile
<1>11. Opened(w, g)
  BY <1>9, <1>10 DEF Opened
<1> QED BY <1>1, <1>7, <1>10, <1>11 DEF Owning, Y, g

-----------------------------------------------------------------------------
(* The calls of the driver share no block *)

\* The invariant: the index and data blocks of all inodes in use, as the kernel
\* has them now, are in use, distinct, and in the volume.
OwnInv == Owning(d, open)

LEMMA DirReady ==
  ASSUME OwnInv, NEW dir \in Dirs
  PROVE  dir \in d.inodes_used /\ open[dir] = Closed /\ d.inode[dir].mode = "dir" /\ Ready(d, d.inode[dir])
<1>1. dir \in d.inodes_used /\ d.inode[dir].mode = "dir"
  BY DEF Dirs, IsDir, ReadInode
<1>2. dir \in Inode /\ Opened(d, open) /\ "dir" # "file"
  BY <1>1 DEF OwnInv, Owning
<1>3. open[dir] = Closed
  BY <1>1, <1>2 DEF Opened
<1> QED BY <1>1, <1>3, OwningReady DEF OwnInv

LEMMA AddEntryOwning ==
  ASSUME NEW v, NEW files, Owning(v, files), NEW dir \in v.inodes_used, files[dir] = Closed,
         NEW name, NEW ino, NEW type
  PROVE  LET w == AddEntry(v, dir, name, ino, type).vol
         IN  Owning(w, files) /\ DirCall(v, dir, w)
<1>1. Ready(v, v.inode[dir]) /\ dir \in DOMAIN v.inode
  BY OwningReady
<1>2. DirCall(v, dir, AddEntry(v, dir, name, ino, type).vol)
  BY <1>1, AddEntryOn
<1> DEFINE w == AddEntry(v, dir, name, ino, type).vol
<1> HIDE DEF w
<1>3. DirCall(v, dir, w)
  BY <1>2 DEF w
<1>4. Owning(w, files)
  BY <1>3, DirCallOwning
<1> QED BY <1>3, <1>4 DEF w

LEMMA RemoveEntryOwning ==
  ASSUME NEW v, NEW files, Owning(v, files), NEW dir \in v.inodes_used, files[dir] = Closed, NEW name
  PROVE  LET w == RemoveEntry(v, dir, name).vol
         IN  Owning(w, files) /\ w.inodes_used = v.inodes_used /\ w.inode = v.inode
<1> DEFINE w == RemoveEntry(v, dir, name).vol
<1>1. Ready(v, v.inode[dir])
  BY OwningReady
<1>2. DirCall(v, dir, w) /\ w.inode = v.inode
  BY <1>1, RemoveEntryOn
<1> HIDE DEF w
<1>3. Owning(w, files)
  BY <1>2, DirCallOwning
<1> QED BY <1>2, <1>3 DEF w, DirCall

LEMMA FileCreateOwns ==
  ASSUME VInv, OwnInv, NEW dir \in Dirs, NEW name, FileCreate(dir, name)
  PROVE  OwnInv'
<1> DEFINE a == AllocateInode(d, FALSE)
           n == a.num
           x == [EmptyInode EXCEPT !.mode = "file", !.links = 1]
           w == WriteInode(a.vol, n, x)
           e == AddEntry(w, dir, name, n, "file")
           z == FreeInode(e.vol, n)
<1>1. d' = UndoInode(e, n) /\ open' = open /\ n # 0
  BY DEF FileCreate
<1>2. /\ dir \in d.inodes_used /\ open[dir] = Closed /\ Owning(d, open) /\ IsVolume(d) /\ Texts(d.data)
      /\ Reserved(d.used) /\ DOMAIN d.inode = Inode
  BY DirReady DEF OwnInv, Owning, WellKept
<1>3. /\ n \in Inode /\ n \notin d.inodes_used /\ IsVolume(a.vol) /\ a.vol.used = d.used /\ a.vol.data = d.data
      /\ a.vol.inode = d.inode /\ a.vol.inodes_used = d.inodes_used \cup {n}
  BY <1>1, <1>2, TookInode
<1>4. IsInode(x) /\ x.size = 0 /\ x.block = [s \in Slots |-> 0]
  <2> DEFINE none == [s \in Slots |-> 0]
             empty == [mode |-> "none", size |-> 0, links |-> 0, block |-> none]
  <2>1. x = [empty EXCEPT !.mode = "file", !.links = 1]
    BY DEF EmptyInode
  <2> HIDE DEF x, none
  <2>2. x = [mode |-> "file", size |-> 0, links |-> 1, block |-> none]
    BY <2>1
  <2> QED BY <2>2 DEF IsInode, none
<1> HIDE DEF a, n, x
<1>5. Fit(d.used, d.data, x) /\ Holds(d.data, x) = {}
  BY <1>2, <1>4, EmptyFit DEF Texts
<1>6. /\ IsVolume(w) /\ w.used = a.vol.used /\ w.data = a.vol.data /\ w.inodes_used = a.vol.inodes_used
      /\ w.inode = [a.vol.inode EXCEPT ![n] = x]
  BY <1>3, InodeIs
<1> HIDE DEF w
<1>7. Owning(w, open)
  BY <1>2, <1>3, <1>5, <1>6, MoreOwning
<1>8. dir \in w.inodes_used /\ n \in w.inodes_used /\ n # dir /\ open[n] = Closed /\ w.inode[n] = x
  <2>1. open[n] = Closed
    BY <1>2, <1>3 DEF Owning, Opened
  <2> QED BY <1>2, <1>3, <1>6, <2>1
<1>9. Owning(e.vol, open) /\ DirCall(w, dir, e.vol)
  BY <1>2, <1>7, <1>8, AddEntryOwning
<1> HIDE DEF e
<1>10. n \in e.vol.inodes_used /\ IsVolume(e.vol) /\ Reserved(e.vol.used)
  BY <1>8, <1>9 DEF DirCall, Owning, WellKept
<1>11. /\ IsVolume(z) /\ z.used = e.vol.used /\ z.data = e.vol.data /\ z.inode = e.vol.inode
       /\ z.inodes_used = e.vol.inodes_used \ {n}
  BY <1>3, <1>10, GaveInode
<1> HIDE DEF z
<1>12. Owning(z, open)
  <2>1. \A b \in e.vol.used : b \in z.used
    BY <1>11
  <2>2. Reserved(z.used)
    BY <1>10, <1>11
  <2> QED BY <1>8, <1>9, <1>10, <1>11, <2>1, <2>2, LessOwning
<1>13. d' = e.vol \/ d' = z
  BY <1>1 DEF UndoInode, z
<1> QED BY <1>1, <1>9, <1>12, <1>13 DEF OwnInv

LEMMA DirCreateOwns ==
  ASSUME VInv, OwnInv, NEW dir \in Dirs, NEW name, DirCreate(dir, name)
  PROVE  OwnInv'
<1> DEFINE a == AllocateInode(d, TRUE)
           n == a.num
           t == AllocateBlock(a.vol)
           b == t.num
           x == DirInode(b)
           w == WriteInode(t.vol, n, x)
           e == AddEntry(w, dir, name, n, "dir")
           f == FreeBlock(e.vol, b)
           z == FreeInode(f, n)
<1>1. d' = (IF b = 0 THEN FreeInode(t.vol, n) ELSE LinkDir(e, dir, n, b)) /\ open' = open /\ n # 0
  BY DEF DirCreate
<1>2. /\ dir \in d.inodes_used /\ open[dir] = Closed /\ Owning(d, open) /\ IsVolume(d) /\ Texts(d.data)
      /\ Reserved(d.used) /\ DOMAIN d.inode = Inode
  BY DirReady DEF OwnInv, Owning, WellKept
<1>3. /\ n \in Inode /\ n \notin d.inodes_used /\ IsVolume(a.vol) /\ a.vol.used = d.used /\ a.vol.data = d.data
      /\ a.vol.inode = d.inode /\ a.vol.inodes_used = d.inodes_used \cup {n}
  BY <1>1, <1>2, TookInode
<1> HIDE DEF a, n
<1>4. /\ SameInodes(a.vol, t.vol) /\ t.vol.data = d.data
      /\ \/ b = 0 /\ t.vol = a.vol
         \/ b \in Block \ {0} /\ b \notin d.used /\ t.vol.used = d.used \cup {b}
  BY <1>2, <1>3, FreshBlock
<1> HIDE DEF t, b
<1>5. CASE b = 0
  <2> DEFINE y == FreeInode(a.vol, n)
  <2>1. d' = y
    BY <1>1, <1>4, <1>5
  <2>2. /\ IsVolume(y) /\ y.used = a.vol.used /\ y.data = a.vol.data /\ y.inode = a.vol.inode
        /\ y.inodes_used = a.vol.inodes_used \ {n}
    BY <1>3, GaveInode
  <2> HIDE DEF y
  <2>3. y.inodes_used = d.inodes_used /\ y.used = d.used /\ y.data = d.data /\ y.inode = d.inode
    BY <1>3, <2>2
  <2>4. Now(y, open) = Now(d, open) /\ (Opened(d, open) => Opened(y, open))
    BY <2>3 DEF Now, Opened
  <2>5. Owning(y, open)
    BY <1>2, <2>2, <2>3, <2>4 DEF Owning
  <2> QED BY <1>1, <2>1, <2>5 DEF OwnInv
<1>6. CASE b # 0
  <2>1. b \in Block \ {0} /\ b \notin d.used /\ t.vol.used = d.used \cup {b} /\ IsVolume(t.vol)
        /\ t.vol.inode = d.inode /\ t.vol.inodes_used = d.inodes_used \cup {n}
    BY <1>3, <1>4, <1>6 DEF SameInodes
  <2>2. Fit(t.vol.used, d.data, x) /\ Holds(d.data, x) = {b}
    BY <1>2, <2>1, DirFit DEF Texts
  <2>3. Reserved(t.vol.used)
    BY <1>2, <2>1, ReservedMore
  <2> HIDE DEF x
  <2>4. /\ IsVolume(w) /\ w.used = t.vol.used /\ w.data = t.vol.data /\ w.inodes_used = t.vol.inodes_used
        /\ w.inode = [t.vol.inode EXCEPT ![n] = x]
    BY <2>1, InodeIs
  <2> HIDE DEF w
  <2>5. /\ w.data = d.data /\ w.inodes_used = d.inodes_used \cup {n} /\ w.inode = [d.inode EXCEPT ![n] = x]
        /\ Reserved(w.used) /\ d.used \subseteq w.used /\ Fit(w.used, d.data, x) /\ Holds(d.data, x) \cap d.used = {}
    BY <1>4, <2>1, <2>2, <2>3, <2>4
  <2>6. Owning(w, open)
    BY <1>2, <1>3, <2>4, <2>5, MoreOwning
  <2>7. dir \in w.inodes_used /\ n \in w.inodes_used /\ n # dir /\ open[n] = Closed /\ w.inode[n] = x /\ DOMAIN w.inode = Inode
    <3>1. open[n] = Closed
      BY <1>2, <1>3 DEF Owning, Opened
    <3> QED BY <1>2, <1>3, <2>5, <3>1
  <2>8. Owning(e.vol, open) /\ DirCall(w, dir, e.vol)
    BY <1>2, <2>6, <2>7, AddEntryOwning
  <2> HIDE DEF e
  <2>9. /\ n \in e.vol.inodes_used /\ dir \in e.vol.inodes_used /\ IsVolume(e.vol) /\ Reserved(e.vol.used)
        /\ e.vol.inode[n] = x /\ DOMAIN e.vol.data = Block
    <3>1. n \in e.vol.inodes_used /\ dir \in e.vol.inodes_used /\ e.vol.inode[n] = x
      BY <1>3, <2>7, <2>8 DEF DirCall
    <3>2. IsVolume(e.vol) /\ Reserved(e.vol.used) /\ DOMAIN e.vol.data = Block
      BY <2>8 DEF Owning, WellKept, Texts
    <3> QED BY <3>1, <3>2
  <2>10. Owning(Relink(e.vol, dir, 1), open)
    BY <1>2, <2>8, <2>9, RelinkOwning
  <2>11. SameInodes(e.vol, f) /\ f.data = e.vol.data /\ f.used = e.vol.used \ ({b} \cap Block)
    BY <2>9, FreeOne
  <2> HIDE DEF f
  <2>12. /\ IsVolume(z) /\ z.used = f.used /\ z.data = f.data /\ z.inode = f.inode
         /\ z.inodes_used = f.inodes_used \ {n}
    BY <1>3, <2>9, <2>11, GaveInode DEF SameInodes
  <2> HIDE DEF z
  <2>13. Reserved(z.used)
    <3>1. \A c \in e.vol.used : c = 0 \/ c \notin Block => c \in z.used
      BY <2>1, <2>11, <2>12
    <3> QED BY <2>9, <3>1 DEF Reserved
  <2>14. Holds(e.vol.data, x) = {b}
    <3>1. b \in {b}
      OBVIOUS
    <3> QED BY <2>1, <2>9, <3>1, DirFit DEF x
  <2>15. \A c \in e.vol.used : c \in z.used \/ c \in Holds(e.vol.data, e.vol.inode[n])
    BY <2>9, <2>11, <2>12, <2>14
  <2>16. z.data = e.vol.data /\ z.inode = e.vol.inode /\ z.inodes_used = e.vol.inodes_used \ {n}
    BY <2>11, <2>12 DEF SameInodes
  <2>17. Owning(z, open)
    BY <2>7, <2>8, <2>9, <2>12, <2>13, <2>15, <2>16, LessOwning
  <2>18. d' = Relink(e.vol, dir, 1) \/ d' = z
    BY <1>1, <1>6 DEF LinkDir, z, f
  <2> QED BY <1>1, <2>10, <2>17, <2>18 DEF OwnInv
<1> QED BY <1>5, <1>6

\* What a deletion finds is an inode in use that nobody has open.
LEMMA FoundLive ==
  ASSUME OwnInv, EntriesLive, NEW dir \in Dirs, NEW name, FindEntry(d, dir, name).type # "none"
  PROVE  LET f == FindEntry(d, dir, name)
         IN  f \in Listing(d, dir) /\ f.inode \in d.inodes_used /\ d.inode[f.inode].mode = f.type
<1> DEFINE f == FindEntry(d, dir, name)
<1>1. f # NoEntry
  BY DEF NoEntry, Entry
<1>2. f \in Listing(d, dir)
  BY <1>1, DirReady, FindIs
<1> HIDE DEF f
<1>3. f.inode \in InUse /\ f.type = d.inode[f.inode].mode
  BY <1>2 DEF EntriesLive, ReadInode
<1> QED BY <1>2, <1>3 DEF InUse, f

LEMMA DiscardOwning ==
  ASSUME NEW v, NEW files, Owning(v, files), NEW i \in v.inodes_used, files[i] = Closed
  PROVE  LET w == Discard(v, i).vol
         IN  Owning(w, files) /\ \A j \in v.inodes_used : j # i => j \in w.inodes_used
<1> DEFINE w == Discard(v, i).vol
<1>1. i \in Inode /\ Ready(v, v.inode[i])
  BY OwningReady
<1>2. \/ w = v
      \/ /\ IsVolume(w) /\ w.inode = v.inode /\ w.data = v.data
         /\ w.inodes_used = v.inodes_used \ {i} /\ Reserved(w.used)
         /\ \A b \in v.used : b \in w.used \/ b \in Holds(v.data, v.inode[i])
  BY <1>1, DiscardIs
<1> HIDE DEF w
<1>3. Owning(w, files)
  <2>1. CASE w = v
    BY <2>1
  <2>2. CASE /\ IsVolume(w) /\ w.inode = v.inode /\ w.data = v.data
             /\ w.inodes_used = v.inodes_used \ {i} /\ Reserved(w.used)
             /\ \A b \in v.used : b \in w.used \/ b \in Holds(v.data, v.inode[i])
    BY <2>2, LessOwning
  <2> QED BY <1>2, <2>1, <2>2
<1>4. \A j \in v.inodes_used : j # i => j \in w.inodes_used
  BY <1>2
<1> QED BY <1>3, <1>4 DEF w

LEMMA FileDeleteOwns ==
  ASSUME VInv, OwnInv, EntriesLive, NEW dir \in Dirs, NEW name, FileDelete(dir, name)
  PROVE  OwnInv'
<1> DEFINE f == FindEntry(d, dir, name)
           r == RemoveEntry(d, dir, name)
           w == r.vol
<1>1. d' = Discard(w, f.inode).vol /\ open' = open /\ f.type = "file" /\ open[f.inode] = Closed
  BY DEF FileDelete, Closedown
<1>2. f.inode \in d.inodes_used
  BY <1>1, FoundLive
<1>3. Owning(w, open) /\ w.inodes_used = d.inodes_used
  BY DirReady, RemoveEntryOwning DEF OwnInv
<1> HIDE DEF f, r, w
<1>4. Owning(Discard(w, f.inode).vol, open)
  BY <1>1, <1>2, <1>3, DiscardOwning
<1> QED BY <1>1, <1>4 DEF OwnInv

LEMMA DirDeleteOwns ==
  ASSUME VInv, OwnInv, EntriesLive, NEW dir \in Dirs, NEW name, DirDelete(dir, name)
  PROVE  OwnInv'
<1> DEFINE f == FindEntry(d, dir, name)
           r == RemoveEntry(d, dir, name)
           w == r.vol
           out == Discard(w, f.inode)
<1>1. /\ d' = (IF out.ok THEN Relink(out.vol, dir, -1) ELSE out.vol) /\ open' = open /\ f.type = "dir"
      /\ Listing(d, f.inode) = {}
  BY DEF DirDelete
<1>2. f.inode \in d.inodes_used /\ f \in Listing(d, dir) /\ d.inode[f.inode].mode = "dir"
  BY <1>1, FoundLive
<1>3. Owning(w, open) /\ w.inodes_used = d.inodes_used /\ dir \in d.inodes_used /\ open[dir] = Closed
  BY DirReady, RemoveEntryOwning DEF OwnInv
<1>4. f.inode # dir
  BY <1>1, <1>2
<1> HIDE DEF f, r, w
<1>5. open[f.inode] = Closed
  <2>1. "dir" # "file"
    OBVIOUS
  <2> QED BY <1>2, <2>1 DEF OwnInv, Owning, Opened
<1>6. Owning(out.vol, open) /\ dir \in out.vol.inodes_used
  BY <1>2, <1>3, <1>4, <1>5, DiscardOwning
<1> HIDE DEF out
<1>7. Owning(Relink(out.vol, dir, -1), open)
  BY <1>3, <1>6, RelinkOwning
<1> QED BY <1>1, <1>6, <1>7 DEF OwnInv

LEMMA RenameOwns ==
  ASSUME VInv, OwnInv, NEW from \in Dirs, NEW old, NEW to \in Dirs, NEW new, Rename(from, old, to, new)
  PROVE  OwnInv'
<1> DEFINE f == FindEntry(d, from, old)
           r == RemoveEntry(d, from, old)
           w == r.vol
           e == AddEntry(w, to, new, f.inode, f.type)
           back == AddEntry(e.vol, from, old, f.inode, f.type)
<1>1. d' = (IF e.ok THEN e.vol ELSE back.vol) /\ open' = open
  BY DEF Rename
<1>2. from \in d.inodes_used /\ open[from] = Closed /\ to \in d.inodes_used /\ open[to] = Closed
  BY DirReady
<1>3. Owning(w, open) /\ w.inodes_used = d.inodes_used
  BY <1>2, RemoveEntryOwning DEF OwnInv
<1> HIDE DEF f, r, w
<1>4. Owning(e.vol, open) /\ DirCall(w, to, e.vol)
  BY <1>2, <1>3, AddEntryOwning
<1> HIDE DEF e
<1>5. from \in e.vol.inodes_used
  BY <1>2, <1>3, <1>4 DEF DirCall
<1>6. Owning(back.vol, open)
  BY <1>2, <1>4, <1>5, AddEntryOwning
<1> HIDE DEF back
<1> QED BY <1>1, <1>4, <1>6 DEF OwnInv

\* The inodes the kernel works with stay, in the descriptor or on the disk.
LEMMA SameOwning ==
  ASSUME NEW v, NEW files, Owning(v, files), NEW w, IsVolume(w), w.used = v.used, w.data = v.data,
         w.inodes_used = v.inodes_used, DOMAIN w.inode = Inode, NEW g, Opened(w, g),
         \A j \in Inode : Now(w, g)[j] = Now(v, files)[j]
  PROVE  Owning(w, g)
<1> DEFINE X == Now(v, files)
           Y == Now(w, g)
<1>1. X = Y
  BY DEF Now
<1> HIDE DEF X, Y
<1> QED BY <1>1 DEF Owning, X, Y

LEMMA FileOpenOwns == ASSUME VInv, OwnInv, NEW i \in Inode, FileOpen(i) PROVE OwnInv'
<1> DEFINE x == [num |-> i, pos |-> 0, inode |-> d.inode[i]]
           g == [open EXCEPT ![i] = x]
<1>1. /\ d' = d /\ open' = g /\ open[i] = Closed /\ i \in d.inodes_used /\ d.inode[i].mode = "file"
      /\ DOMAIN open = Inode /\ Owning(d, open)
  BY DEF FileOpen, Closedown, VInv, Descriptors, OwnInv, ReadInode
<1>2. \A j \in Inode : g[j] = IF j = i THEN x ELSE open[j]
  BY <1>1
<1>3. x # Closed /\ x.num = i /\ x.inode = d.inode[i]
  <2>1. x.num = i /\ x.inode = d.inode[i] /\ i # 0 /\ Closed.num = 0
    BY DEF Closed, Inode
  <2> HIDE DEF x
  <2> QED BY <2>1
<1> HIDE DEF x, g
<1>4. \A j \in Inode : Now(d, g)[j] = Now(d, open)[j]
  BY <1>1, <1>2, <1>3 DEF Now
<1>5. Opened(d, g)
  BY <1>1, <1>2, <1>3 DEF Opened, Owning
<1>6. IsVolume(d) /\ DOMAIN d.inode = Inode
  BY <1>1 DEF Owning
<1>7. Owning(d, g)
  BY <1>1, <1>4, <1>5, <1>6, SameOwning
<1> QED BY <1>1, <1>7 DEF OwnInv

LEMMA FileCloseOwns == ASSUME VInv, OwnInv, NEW i \in Inode, FileClose(i) PROVE OwnInv'
<1> DEFINE y == open[i].inode
           w == WriteInode(d, i, y)
           g == [open EXCEPT ![i] = Closed]
<1>1. /\ d' = w /\ open' = g /\ open[i] # Closed /\ DOMAIN open = Inode /\ Owning(d, open)
  BY DEF FileClose, Closedown, VInv, Descriptors, OwnInv
<1>2. \A j \in Inode : g[j] = IF j = i THEN Closed ELSE open[j]
  BY <1>1
<1>3. IsVolume(d) /\ DOMAIN d.inode = Inode
  BY <1>1 DEF Owning
<1>4. /\ IsVolume(w) /\ w.used = d.used /\ w.data = d.data /\ w.inodes_used = d.inodes_used
      /\ w.inode = [d.inode EXCEPT ![i] = y]
  BY <1>3, InodeIs
<1> HIDE DEF w, g
<1>5. DOMAIN w.inode = Inode /\ \A j \in Inode : w.inode[j] = IF j = i THEN y ELSE d.inode[j]
  BY <1>3, <1>4
<1>6. \A j \in Inode : Now(w, g)[j] = Now(d, open)[j]
  BY <1>1, <1>2, <1>5 DEF Now
<1>7. Opened(w, g)
  BY <1>1, <1>2, <1>4, <1>5 DEF Opened, Owning
<1>8. Owning(w, g)
  BY <1>1, <1>4, <1>5, <1>6, <1>7, SameOwning
<1> QED BY <1>1, <1>8 DEF OwnInv

LEMMA SeekOwns ==
  ASSUME VInv, OwnInv, NEW i \in Inode, NEW offset \in Int, NEW whence \in {"SEEK_SET", "SEEK_CUR", "SEEK_END"},
         Seek(i, offset, whence)
  PROVE  OwnInv'
<1> DEFINE x == FileSeek(open[i], offset, whence)
           g == [open EXCEPT ![i] = x]
<1>1. /\ d' = d /\ open' = g /\ open[i] # Closed /\ DOMAIN open = Inode /\ Owning(d, open) /\ IsOpenFile(open[i])
  BY OpenIs DEF Seek, Closedown, VInv, Descriptors, OwnInv
<1>2. \A j \in Inode : g[j] = IF j = i THEN x ELSE open[j]
  BY <1>1
<1>3. x.num = open[i].num /\ x.inode = open[i].inode
  <2> DEFINE to == CASE whence = "SEEK_SET" -> offset
                     [] whence = "SEEK_CUR" -> open[i].pos + offset
                     [] whence = "SEEK_END" -> open[i].inode.size + offset
  <2>1. x = open[i] \/ x = [open[i] EXCEPT !.pos = to]
    BY DEF FileSeek
  <2> HIDE DEF to, x
  <2>2. LET h == [open[i] EXCEPT !.pos = to] IN h.num = open[i].num /\ h.inode = open[i].inode
    BY <1>1, FileIs
  <2> QED BY <2>1, <2>2
<1>4. open[i].num = i /\ i # 0 /\ IsVolume(d) /\ DOMAIN d.inode = Inode
  BY <1>1 DEF Owning, Opened, Inode
<1> HIDE DEF x, g
<1>5. x # Closed
  <2>1. Closed.num = 0
    BY DEF Closed
  <2> QED BY <1>3, <1>4, <2>1
<1>6. \A j \in Inode : Now(d, g)[j] = Now(d, open)[j]
  BY <1>1, <1>2, <1>3, <1>5 DEF Now
<1>7. Opened(d, g)
  BY <1>1, <1>2, <1>3 DEF Opened, Owning
<1>8. Owning(d, g)
  BY <1>1, <1>4, <1>6, <1>7, SameOwning
<1> QED BY <1>1, <1>8 DEF OwnInv

\* The file a call works on.
LEMMA OpenReady ==
  ASSUME VInv, OwnInv, NEW i \in Inode, ~Closedown(i)
  PROVE  IsOpenFile(open[i]) /\ Ready(d, open[i].inode)
<1>1. open[i] # Closed /\ IsOpenFile(open[i])
  BY OpenIs DEF Closedown
<1>2. i \in d.inodes_used
  BY <1>1 DEF OwnInv, Owning, Opened
<1> QED BY <1>1, <1>2, OwningReady DEF OwnInv

LEMMA ApplyOwns ==
  ASSUME VInv, OwnInv, NEW i \in Inode, ~Closedown(i), NEW r, OnFile(d, open[i], r), Apply(i, r)
  PROVE  OwnInv'
<1>1. DOMAIN open = Inode /\ open[i] # Closed /\ Owning(d, open)
  BY DEF VInv, Descriptors, Closedown, OwnInv
<1>2. Owning(r.vol, [open EXCEPT ![i] = r.file])
  BY <1>1, FileCallOwning
<1> QED BY <1>2 DEF Apply, OwnInv

LEMMA WriteOwns == ASSUME VInv, OwnInv, NEW i \in Inode, NEW n \in Nat, Write(i, n) PROVE OwnInv'
<1> DEFINE r == FileWrite(d, open[i], n, i)
<1>1. ~Closedown(i) /\ Apply(i, r)
  BY DEF Write
<1>2. OnFile(d, open[i], r)
  BY <1>1, OpenReady, FileWriteOn
<1> HIDE DEF r
<1> QED BY <1>1, <1>2, ApplyOwns

LEMMA ReadOwns == ASSUME VInv, OwnInv, NEW i \in Inode, NEW n \in Nat, Read(i, n) PROVE OwnInv'
<1> DEFINE r == FileRead(d, open[i], n)
<1>1. ~Closedown(i) /\ Apply(i, r)
  BY DEF Read
<1>2. OnFile(d, open[i], r)
  BY <1>1, OpenReady, FileReadOn
<1> HIDE DEF r
<1> QED BY <1>1, <1>2, ApplyOwns

LEMMA TruncateOwns == ASSUME VInv, OwnInv, NEW i \in Inode, NEW n \in Nat, Truncate(i, n) PROVE OwnInv'
<1>1. PICK g \in Garbage : Apply(i, FileTruncate(d, open[i], n, g))
  BY DEF Truncate
<1> DEFINE r == FileTruncate(d, open[i], n, g)
<1>2. ~Closedown(i) /\ Apply(i, r)
  BY <1>1 DEF Truncate
<1>3. OnFile(d, open[i], r)
  BY <1>2, OpenReady, FileTruncateOn
<1> HIDE DEF r
<1> QED BY <1>2, <1>3, ApplyOwns

LEMMA VInitOwns == VInit => OwnInv
<1> SUFFICES ASSUME VInit PROVE OwnInv
  OBVIOUS
<1> DEFINE dat == [b \in Block |-> IF b = ROOT_BLOCK THEN RootBlock ELSE Zeros]
           ino == [i \in Inode |-> IF i # ROOT THEN EmptyInode ELSE DirInode(ROOT_BLOCK)]
           X == Now(d, open)
<1>1. IsVolume(d) /\ d.inodes_used \subseteq Inode /\ DOMAIN d.inode = Inode
  BY VInitKeeps DEF VInv, Books, InodesBooked, InodesKnown
<1>2. d.used = USED /\ d.inodes_used = {1, ROOT} /\ d.data = dat /\ d.inode = ino
  BY DEF VInit
<1>3. \A i \in Inode : open[i] = Closed
  BY DEF VInit
<1>4. Opened(d, open)
  BY <1>3 DEF Opened
<1>5. Texts(dat)
  <2>1. IsSeq(RootBlock)
    <3> DEFINE p == Entry(ROOT, EntryLen(Dot), "dir", Dot)
               q == Entry(ROOT, UNITS - EntryLen(Dot), "dir", DotDot)
    <3>1. RootBlock = <<p, q>>
      BY DEF RootBlock
    <3> HIDE DEF p, q
    <3>2. <<p, q>> \in Seq({p, q})
      OBVIOUS
    <3> QED BY <3>1, <3>2, SeqIn
  <2>2. DOMAIN Zeros = Word
    BY DEF Zeros
  <2>3. DOMAIN dat = Block /\ \A b \in Block : dat[b] = RootBlock \/ dat[b] = Zeros
    OBVIOUS
  <2> HIDE DEF dat
  <2> QED BY <2>1, <2>2, <2>3 DEF Texts
<1>6. Reserved(USED) /\ ROOT_BLOCK \in Block \ {0} /\ ROOT_BLOCK \in USED
  BY VolumeAssumption DEF Reserved
<1>7. ino[1] = EmptyInode /\ ino[ROOT] = DirInode(ROOT_BLOCK)
  <2>1. 1 \in Inode /\ ROOT \in Inode /\ 1 # ROOT
    BY <1>1, <1>2 DEF ROOT
  <2> QED BY <2>1
<1> HIDE DEF dat, ino
<1>8. X[1] = EmptyInode /\ X[ROOT] = DirInode(ROOT_BLOCK)
  BY <1>1, <1>2, <1>3, <1>7 DEF Now
<1>9. Fit(USED, dat, EmptyInode) /\ Holds(dat, EmptyInode) = {}
  <2>1. IsInode(EmptyInode) /\ EmptyInode.size = 0 /\ EmptyInode.block = [s \in Slots |-> 0]
    BY DEF EmptyInode, IsInode
  <2> QED BY <1>5, <2>1, EmptyFit DEF Texts
<1>10. Fit(USED, dat, DirInode(ROOT_BLOCK))
  BY <1>5, <1>6, DirFit DEF Texts
<1> HIDE DEF X
<1>11. \A i, j \in {1, ROOT} : i # j => Holds(dat, X[i]) \cap Holds(dat, X[j]) = {}
  BY <1>8, <1>9
<1>12. WellKept(USED, dat, {1, ROOT}, X)
  BY <1>5, <1>6, <1>8, <1>9, <1>10, <1>11 DEF WellKept
<1> QED BY <1>1, <1>2, <1>4, <1>12 DEF OwnInv, Owning, X

LEMMA VNextOwns == VInv /\ OwnInv /\ EntriesLive /\ [VNext]_vvars => OwnInv'
<1> SUFFICES ASSUME VInv, OwnInv, EntriesLive, [VNext]_vvars PROVE OwnInv'
  OBVIOUS
<1>1. CASE Counted
  <2>1. ASSUME NEW dir \in Dirs, NEW name \in UserNames, FileCreate(dir, name) \/ DirCreate(dir, name) PROVE OwnInv'
    BY <2>1, FileCreateOwns, DirCreateOwns
  <2>2. ASSUME NEW from \in Dirs, NEW to \in Dirs, NEW old \in UserNames, NEW new \in UserNames,
               Rename(from, old, to, new)
        PROVE  OwnInv'
    BY <2>2, RenameOwns
  <2>3. ASSUME NEW i \in Inode, NEW n \in Counts, Write(i, n) PROVE OwnInv'
    BY <2>3, VolumeAssumption, WriteOwns
  <2>4. ASSUME NEW i \in Inode, NEW n \in Counts \cup {0}, Truncate(i, n) PROVE OwnInv'
    BY <2>4, VolumeAssumption, TruncateOwns
  <2> QED BY <1>1, <2>1, <2>2, <2>3, <2>4 DEF Counted
<1>2. CASE Uncounted
  <2>1. ASSUME NEW dir \in Dirs, NEW name \in UserNames, FileDelete(dir, name) \/ DirDelete(dir, name) PROVE OwnInv'
    BY <2>1, FileDeleteOwns, DirDeleteOwns
  <2>2. ASSUME NEW i \in Inode, FileOpen(i) \/ FileClose(i) \/ Read(i, Min(Counts)) PROVE OwnInv'
    BY <2>2, CountsIn, FileOpenOwns, FileCloseOwns, ReadOwns
  <2>3. ASSUME NEW i \in Inode,
               Seek(i, 0, "SEEK_SET") \/ Seek(i, 0, "SEEK_END") \/ Seek(i, -Max(Counts), "SEEK_CUR")
        PROVE  OwnInv'
    <3>1. -Max(Counts) \in Int /\ 0 \in Int
      BY CountsIn
    <3> QED BY <2>3, <3>1, SeekOwns
  <2> QED BY <1>2, <2>1, <2>2, <2>3 DEF Uncounted
<1>3. CASE UNCHANGED vvars
  BY <1>3 DEF vvars, OwnInv
<1> QED BY <1>1, <1>2, <1>3 DEF VNext

\* What is written as the owner of a block, and the block it names.
IsPurpose(m, x, i, o) ==
  \/ \E k \in 0..(CountBlocksNeeded(x.size) - 1) : o = <<i, <<k, At(m, x.block, k)>>>>
  \/ \E w \in Word : o = <<i, <<"second", w, Look(m, x.block[NDIRECT + 1], w)>>>> /\ Look(m, x.block[NDIRECT + 1], w) # 0
  \/ \E s \in {NDIRECT, NDIRECT + 1} : o = <<i, <<s, x.block[s]>>>> /\ x.block[s] # 0

LEMMA PurposeIs ==
  ASSUME VInv, OwnInv, NEW i \in InUse, NEW o \in Owned(i)
  PROVE  IsPurpose(d.data, InodeNow(i), i, o)
<1> DEFINE x == InodeNow(i)
           m == d.data
           p == x.block
           n == CountBlocksNeeded(x.size)
<1>1. i \in Inode /\ i \in d.inodes_used /\ x = Now(d, open)[i]
  BY DEF InUse, OwnInv, Owning, InodeNow, Closedown, ReadInode, Now
<1>2. Fit(d.used, m, x)
  BY <1>1 DEF OwnInv, Owning, WellKept
<1>3. Mapped(d.used, m, p, n) /\ n \in 0..Limit /\ n \in Nat
  BY <1>2, LimitNat DEF Fit, Mapped
<1>4. PICK t \in DataBlocks(i) \cup Second(i) \cup IndexBlocks(i) : o = <<i, t>>
  BY DEF Owned
<1>5. CASE t \in DataBlocks(i)
  <2>1. PICK k \in 0..(n - 1) : t = <<k, BlockAt(d, x, k)>>
    BY <1>5 DEF DataBlocks
  <2>2. BlockAt(d, x, k) = At(m, p, k)
    <3> HIDE DEF x
    <3> QED BY DEF BlockAt, Deref, At, Look
  <2> QED BY <1>4, <2>1, <2>2 DEF IsPurpose
<1>6. CASE t \in Second(i)
  <2>1. PICK w \in Word : /\ t = <<"second", w, m[p[NDIRECT + 1]][w]>> /\ p[NDIRECT + 1] # 0
                          /\ NDIRECT + BS + w * BS < n
    BY <1>6 DEF Second
  <2> DEFINE b == Look(m, p[NDIRECT + 1], w)
             k == NDIRECT + BS + BS * w + 0
  <2>2. t = <<"second", w, b>>
    BY <2>1 DEF Look
  <2>3. 0 \in Word
    BY Numbers DEF Word
  <2>4. /\ k \in NDIRECT..(Limit - 1) /\ k >= NDIRECT + BS
        /\ (k - NDIRECT - BS) \div BS = w /\ (k - NDIRECT - BS) % BS = 0
    BY <2>3, There
  <2>5. k \in 0..(n - 1)
    <3>1. w \in Nat /\ BS \in Nat /\ BS * w \in Nat /\ w * BS = BS * w /\ NDIRECT \in Nat
      BY Numbers DEF Word
    <3> DEFINE q == BS * w
    <3>2. q \in Nat /\ NDIRECT + BS + q < n /\ k = NDIRECT + BS + q
      BY <2>1, <3>1
    <3> HIDE DEF q, k, n
    <3> QED BY <1>3, <3>1, <3>2
  <2>6. At(m, p, k) = Look(m, b, 0)
    <3> HIDE DEF k, p, m
    <3>1. ~(k < NDIRECT) /\ ~(k < NDIRECT + BS)
      BY <2>4, Numbers
    <3> QED BY <2>4, <3>1 DEF At
  <2>7. At(m, p, k) # 0
    <3> HIDE DEF k, p, m, n
    <3> QED BY <1>3, <2>5 DEF Mapped
  <2>8. b # 0
    <3> HIDE DEF b, k
    <3> QED BY <2>6, <2>7 DEF Look
  <2> HIDE DEF b, k
  <2>9. o = <<i, <<"second", w, b>>>> /\ b # 0
    BY <1>4, <2>2, <2>8
  <2> QED BY <2>9 DEF b, IsPurpose
<1>7. CASE t \in IndexBlocks(i)
  BY <1>4, <1>7 DEF IndexBlocks, IsPurpose
<1> QED BY <1>4, <1>5, <1>6, <1>7

LEMMA PurposeHeld ==
  ASSUME NEW u, NEW m, NEW x, Fit(u, m, x), NEW i, NEW o, IsPurpose(m, x, i, o)
  PROVE  o[1] = i /\ NumberOf(o) \in Holds(m, x)
<1> DEFINE p == x.block
           n == CountBlocksNeeded(x.size)
<1>1. CASE \E k \in 0..(n - 1) : o = <<i, <<k, At(m, p, k)>>>>
  BY <1>1 DEF NumberOf, Holds, Hold
<1>2. CASE \E w \in Word : o = <<i, <<"second", w, Look(m, p[NDIRECT + 1], w)>>>> /\ Look(m, p[NDIRECT + 1], w) # 0
  BY <1>2 DEF NumberOf, Holds, Hold, Tree
<1>3. CASE \E s \in {NDIRECT, NDIRECT + 1} : o = <<i, <<s, p[s]>>>> /\ p[s] # 0
  BY <1>3 DEF NumberOf, Holds, Hold, Tree
<1> QED BY <1>1, <1>2, <1>3 DEF IsPurpose

\* Within a file a block has one purpose.
LEMMA PurposeOne ==
  ASSUME NEW u, NEW m, NEW x, Fit(u, m, x), NEW i, NEW o, IsPurpose(m, x, i, o), NEW q, IsPurpose(m, x, i, q),
         NumberOf(o) = NumberOf(q)
  PROVE  o = q
<1> DEFINE p == x.block
           n == CountBlocksNeeded(x.size)
           L(w) == Look(m, p[NDIRECT + 1], w)
           Data(y) == \E k \in 0..(n - 1) : y = <<i, <<k, At(m, p, k)>>>>
           Deep(y) == \E w \in Word : y = <<i, <<"second", w, L(w)>>>> /\ L(w) # 0
           Index(y) == \E s \in {NDIRECT, NDIRECT + 1} : y = <<i, <<s, p[s]>>>> /\ p[s] # 0
<1>1. (Data(o) \/ Deep(o) \/ Index(o)) /\ (Data(q) \/ Deep(q) \/ Index(q))
  BY DEF IsPurpose
<1>2. Mapped(u, m, p, n) /\ Apart(m, p)
  BY DEF Fit, Mapped, Shape
<1> HIDE DEF p, n
<1>3. ASSUME NEW y, Data(y) PROVE NumberOf(y) \notin Tree(m, p)
  BY <1>2, <1>3 DEF NumberOf, Mapped
<1>4. ASSUME NEW y, Deep(y) \/ Index(y) PROVE NumberOf(y) \in Tree(m, p)
  <2>1. CASE Deep(y)
    <3>1. PICK w \in Word : y = <<i, <<"second", w, L(w)>>>> /\ L(w) # 0
      BY <2>1
    <3>2. L(w) \in Tree(m, p)
      BY <3>1 DEF Tree
    <3> HIDE DEF L
    <3>3. NumberOf(y) = L(w)
      BY <3>1 DEF NumberOf
    <3> QED BY <3>2, <3>3
  <2>2. CASE Index(y)
    BY <2>2 DEF NumberOf, Tree
  <2> QED BY <1>4, <2>1, <2>2
<1>5. CASE Data(o) /\ Data(q)
  <2>1. PICK k \in 0..(n - 1) : o = <<i, <<k, At(m, p, k)>>>>
    BY <1>5
  <2>2. PICK l \in 0..(n - 1) : q = <<i, <<l, At(m, p, l)>>>>
    BY <1>5
  <2>3. At(m, p, k) = At(m, p, l)
    BY <2>1, <2>2 DEF NumberOf
  <2>4. k = l
    BY <1>2, <2>3 DEF Mapped
  <2> QED BY <2>1, <2>2, <2>4
<1>6. CASE Deep(o) /\ Deep(q)
  <2>1. PICK w \in Word : o = <<i, <<"second", w, L(w)>>>> /\ L(w) # 0
    BY <1>6
  <2>2. PICK y \in Word : q = <<i, <<"second", y, L(y)>>>> /\ L(y) # 0
    BY <1>6
  <2>3. L(w) = L(y)
    <3> HIDE DEF L
    <3> QED BY <2>1, <2>2 DEF NumberOf
  <2>4. w = y
    BY <1>2, <2>1, <2>3 DEF Apart
  <2> QED BY <2>1, <2>2, <2>4
<1>7. ASSUME NEW y, NEW z, Deep(y), Index(z) PROVE NumberOf(y) # NumberOf(z)
  <2>1. PICK w \in Word : y = <<i, <<"second", w, L(w)>>>> /\ L(w) # 0
    BY <1>7
  <2>2. PICK s \in {NDIRECT, NDIRECT + 1} : z = <<i, <<s, p[s]>>>>
    BY <1>7
  <2>3. NumberOf(y) = L(w) /\ NumberOf(z) = p[s]
    <3> HIDE DEF L
    <3> QED BY <2>1, <2>2 DEF NumberOf
  <2>4. L(w) # p[NDIRECT] /\ L(w) # p[NDIRECT + 1]
    BY <1>2, <2>1 DEF Apart
  <2> HIDE DEF L
  <2> QED BY <2>3, <2>4
<1>8. CASE Index(o) /\ Index(q)
  <2>1. PICK s \in {NDIRECT, NDIRECT + 1} : o = <<i, <<s, p[s]>>>> /\ p[s] # 0
    BY <1>8
  <2>2. PICK t \in {NDIRECT, NDIRECT + 1} : q = <<i, <<t, p[t]>>>> /\ p[t] # 0
    BY <1>8
  <2>3. p[s] = p[t]
    BY <2>1, <2>2 DEF NumberOf
  <2>4. s = t
    BY <1>2, <2>1, <2>3 DEF Apart
  <2> QED BY <2>1, <2>2, <2>4
<1> HIDE DEF Data, Deep, Index
<1>9. ~(Data(o) /\ (Deep(q) \/ Index(q))) /\ ~(Data(q) /\ (Deep(o) \/ Index(o)))
  BY <1>3, <1>4
<1>10. ~(Deep(o) /\ Index(q)) /\ ~(Deep(q) /\ Index(o))
  BY <1>7
<1> QED BY <1>1, <1>5, <1>6, <1>8, <1>9, <1>10

LEMMA OwnBlocks == VInv /\ OwnInv => BlocksOwned
<1> SUFFICES ASSUME VInv, OwnInv PROVE BlocksOwned
  OBVIOUS
<1> DEFINE all == UNION {Owned(i) : i \in InUse}
           m == d.data
<1>1. ASSUME NEW i \in InUse
      PROVE  /\ i \in d.inodes_used /\ InodeNow(i) = Now(d, open)[i] /\ Fit(d.used, m, InodeNow(i))
  <2>1. i \in Inode /\ i \in d.inodes_used /\ InodeNow(i) = Now(d, open)[i]
    BY DEF InUse, OwnInv, Owning, InodeNow, Closedown, ReadInode, Now
  <2> QED BY <2>1 DEF OwnInv, Owning, WellKept
<1>2. ASSUME NEW i \in InUse, NEW o \in Owned(i)
      PROVE  IsPurpose(m, InodeNow(i), i, o) /\ NumberOf(o) \in Holds(m, InodeNow(i))
  <2>1. IsPurpose(m, InodeNow(i), i, o)
    BY PurposeIs
  <2> QED BY <1>1, <2>1, PurposeHeld
<1>3. ASSUME NEW i \in InUse, NEW o \in Owned(i) PROVE NumberOf(o) \in Block /\ NumberOf(o) \in d.used
  <2>1. Holds(m, InodeNow(i)) \subseteq (d.used \cap Block) \ {0}
    BY <1>1, HoldsIn
  <2> QED BY <1>2, <2>1
<1>4. ASSUME NEW i \in InUse, NEW j \in InUse, NEW o \in Owned(i), NEW q \in Owned(j), NumberOf(o) = NumberOf(q)
      PROVE  o = q
  <2>1. i = j
    <3>1. i # j => Holds(m, InodeNow(i)) \cap Holds(m, InodeNow(j)) = {}
      BY <1>1 DEF OwnInv, Owning, WellKept
    <3>2. NumberOf(o) \in Holds(m, InodeNow(i)) /\ NumberOf(q) \in Holds(m, InodeNow(j))
      BY <1>2
    <3> QED BY <1>4, <3>1, <3>2
  <2>2. IsPurpose(m, InodeNow(i), i, o) /\ IsPurpose(m, InodeNow(i), i, q) /\ Fit(d.used, m, InodeNow(i))
    BY <1>1, <1>2, <2>1
  <2> QED BY <1>4, <2>2, PurposeOne
<1>5. \A o \in all : NumberOf(o) \in Block /\ NumberOf(o) \in d.used
  BY <1>3
<1>6. \A o, q \in all : NumberOf(o) = NumberOf(q) => o = q
  BY <1>4
<1> QED BY <1>5, <1>6 DEF BlocksOwned

\* While every entry of a directory names an inode in use of its type, every block
\* that a file or directory needs to reach its data is in the volume and marked
\* as used, and no block serves two purposes: not the index blocks that
\* write_block_pointers takes on its way, not what a call takes back when it runs
\* out of blocks, not the pointers truncate leaves on disk or overwrites with
\* what is behind its one zero.
THEOREM VolumeBlocks == VSpec /\ []EntriesLive => []BlocksOwned
BY VInitKeeps, VNextKeeps, VInitOwns, VNextOwns, OwnBlocks, PTL DEF VSpec
=============================================================================
